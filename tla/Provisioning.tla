----------------------------- MODULE Provisioning -----------------------------
(***************************************************************************)
(* Proxy Host provisioning of the HYROVI control plane: the job queue of   *)
(* the controller (control_plane_provisioning.js), the requests that fill  *)
(* it (routes/control-plane.js), and the agent on each node that empties   *)
(* it (deployment/node-agent/hyrovi-hpm-node-provisioning).                *)
(*                                                                         *)
(* A request looks for the domain in the controller's database, then in    *)
(* the inventories the nodes last reported, and only then, inside the      *)
(* queue's mutation lock, among the active jobs.  An agent, started by a   *)
(* timer and never twice at once, claims its node's oldest job, runs a     *)
(* script in the container, routes DNS, tests Nginx, has a heartbeat sent  *)
(* and posts the result, once.  A claimed job whose lease has run out is   *)
(* claimed again.                                                          *)
(*                                                                         *)
(* Hosts that administrators create and delete by hand are left out.       *)
(***************************************************************************)
EXTENDS Naturals, Sequences, FiniteSets

CONSTANTS
  Node,        \* the controller's own node and the remote ones
  Local,       \* the controller's own node
  Domain,
  Admin,       \* requests under way at once
  None,        \* no request, no heartbeat; the domain of a job of another type
  JobBound,    \* bound: jobs ever queued, and requests under way
  FaultBound   \* bound: lost or late messages, timeouts and crashes

ASSUME ProvisioningAssumption ==
  /\ Local \in Node /\ None \notin Domain
  /\ JobBound \in Nat /\ FaultBound \in Nat

VARIABLES
  requests,    \* the POSTs to /provision/proxy-hosts under way
  jobs,        \* the job files, in the order of createdAt
  inventory,   \* nodes.json: the domains each remote node last reported
  hosts,       \* the Proxy Hosts of every node, with the attempt that made them
  scripts,     \* CREATE_JS processes running in a node's container
  agent,       \* the provisioning service of each node
  beat,        \* the inventory that a node's running heartbeat has read
  posts,       \* results that reach the controller after the agent gave up
  faults

vars == <<requests, jobs, inventory, hosts, scripts, agent, beat, posts, faults>>

Remote == Node \ {Local}
Active == {"queued", "running"}
Idle == [pc |-> "idle", job |-> 0, attempt |-> 0, ok |-> FALSE]
On(n) == {h \in hosts : h.node = n}
Served(n) == {h.domain : h \in On(n)}
Pending == {a \in Admin : requests[a] # None}
Room == Len(jobs) + Cardinality(Pending) < JobBound
Fault == faults < FaultBound /\ faults' = faults + 1

Init ==
  /\ requests = [a \in Admin |-> None]
  /\ jobs = <<>>
  /\ inventory = [n \in Remote |-> {}]
  /\ hosts = {} /\ scripts = {}
  /\ agent = [n \in Node |-> Idle]
  /\ beat = [n \in Remote |-> None]
  /\ posts = {}
  /\ faults = 0

-----------------------------------------------------------------------------
(* The controller. *)

Queued(n, d) == [node |-> n, domain |-> d, status |-> "queued", leased |-> FALSE, attempts |-> 0]

\* Nodes that are disabled, offline or unable to provision are refused: no step.
CheckLocal(a, n, d) ==
  /\ requests[a] = None /\ Room
  /\ d \notin Served(Local)
  /\ requests' = [requests EXCEPT ![a] = [step |-> "nodes", node |-> n, domain |-> d]]
  /\ UNCHANGED <<jobs, inventory, hosts, scripts, agent, beat, posts, faults>>

CheckNodes(a) ==
  /\ requests[a] # None /\ requests[a].step = "nodes"
  /\ requests' = [requests EXCEPT ![a] =
       IF \E n \in Remote : requests[a].domain \in inventory[n] THEN None
       ELSE [@ EXCEPT !.step = "enqueue"]]
  /\ UNCHANGED <<jobs, inventory, hosts, scripts, agent, beat, posts, faults>>

Conflict(d) == \E i \in DOMAIN jobs : jobs[i].domain = d /\ jobs[i].status \in Active

\* Faulty variant: the operations on the queue do not wait for one another.
NotQueued == TRUE

\* withMutation: one operation on the job files at a time, in the order they came.
\* Only the two halves of EnqueueProxyHost are told apart; the others hold the
\* queue for one step.
QueueFree == \A a \in Pending : requests[a].step # "write"

EnqueueProxyHost(a) ==
  /\ requests[a] # None /\ requests[a].step = "enqueue"
  /\ QueueFree
  /\ requests' = [requests EXCEPT ![a] =
       IF Conflict(requests[a].domain) THEN None ELSE [@ EXCEPT !.step = "write"]]
  /\ UNCHANGED <<jobs, inventory, hosts, scripts, agent, beat, posts, faults>>

WriteJob(a) ==
  /\ requests[a] # None /\ requests[a].step = "write"
  /\ jobs' = Append(jobs, Queued(requests[a].node, requests[a].domain))
  /\ requests' = [requests EXCEPT ![a] = None]
  /\ UNCHANGED <<inventory, hosts, scripts, agent, beat, posts, faults>>

\* Domain routes and security blocks: queued without any check for conflicts.
EnqueueOther(n) ==
  /\ QueueFree /\ Room
  /\ jobs' = Append(jobs, Queued(n, None))
  /\ UNCHANGED <<requests, inventory, hosts, scripts, agent, beat, posts, faults>>

LeaseExpires(i) ==
  /\ jobs[i].leased
  /\ jobs' = [jobs EXCEPT ![i].leased = FALSE]
  /\ UNCHANGED <<requests, inventory, hosts, scripts, agent, beat, posts, faults>>

\* Faulty variant: a lease that has run out is not looked at.
ClaimableQueued(j) == j.status = "queued"

Claimable(j) == j.status = "queued" \/ (j.status = "running" /\ ~j.leased)

\* Faulty variant: the status is not looked at.
CompleteAgain(p) ==
  [jobs EXCEPT ![p.job].status = IF p.ok THEN "completed" ELSE "failed", ![p.job].leased = FALSE]

Complete(p) ==
  IF jobs[p.job].status \notin Active THEN jobs
  ELSE [jobs EXCEPT ![p.job].status = IF p.ok THEN "completed" ELSE "failed",
                    ![p.job].leased = FALSE]

-----------------------------------------------------------------------------
(* The agent of a node. *)

Proceed(n, step) == agent' = [agent EXCEPT ![n].pc = step]
Failed(a) == [a EXCEPT !.pc = "report", !.ok = FALSE]
Fail(n) == agent' = [agent EXCEPT ![n] = Failed(@)]

Ready(n, i) == jobs[i].node = n /\ Claimable(jobs[i])
Started(pc, run) == [pc |-> pc, job |-> run.job, attempt |-> run.attempt, ok |-> FALSE]

\* The GET: the claim is written before the job is sent, and the answer may be lost.
Claim(n) ==
  \E i \in DOMAIN jobs :
    LET run == [job |-> i, attempt |-> jobs[i].attempts + 1] IN
    /\ QueueFree /\ agent[n].pc = "idle"
    /\ Ready(n, i) /\ \A k \in 1 .. i - 1 : ~Ready(n, k)
    /\ jobs' = [jobs EXCEPT ![i].status = "running", ![i].leased = TRUE, ![i].attempts = @ + 1]
    /\ \/ /\ jobs[i].domain = None
          /\ agent' = [agent EXCEPT ![n] = Started("act", run)]
          /\ UNCHANGED <<scripts, faults>>
       \/ /\ jobs[i].domain # None
          /\ agent' = [agent EXCEPT ![n] = Started("create", run)]
          /\ scripts' = scripts \cup {[run |-> run, step |-> "check"]}
          /\ UNCHANGED faults
       \/ Fault /\ UNCHANGED <<agent, scripts>>
    /\ UNCHANGED <<requests, inventory, hosts, beat, posts>>

\* A job of another type: one command, whose effects are not modelled here.
Act(n) ==
  /\ agent[n].pc = "act"
  /\ Proceed(n, "beat") \/ Fail(n)
  /\ UNCHANGED <<requests, jobs, inventory, hosts, scripts, beat, posts, faults>>

RunOf(n) == [job |-> agent[n].job, attempt |-> agent[n].attempt]
Made(run) == {h \in hosts : h.run = run}

\* The script runs on in the container when the agent has given it up or died.
EndScript(s, ok) ==
  LET n == jobs[s.run.job].node
  IN /\ scripts' = scripts \ {s}
     /\ agent' = IF agent[n].pc # "create" \/ RunOf(n) # s.run THEN agent
                 ELSE [agent EXCEPT ![n] = IF ok THEN [@ EXCEPT !.pc = "route"] ELSE Failed(@)]

CheckHostname(s) ==
  /\ s.step = "check"
  /\ \/ EndScript(s, FALSE)
     \/ /\ jobs[s.run.job].domain \notin Served(jobs[s.run.job].node)
        /\ scripts' = (scripts \ {s}) \cup {[s EXCEPT !.step = "insert"]}
        /\ UNCHANGED agent
  /\ UNCHANGED <<requests, jobs, inventory, hosts, beat, posts, faults>>

InsertHost(s) ==
  /\ s.step = "insert"
  /\ hosts' = hosts \cup
       {[node |-> jobs[s.run.job].node, domain |-> jobs[s.run.job].domain, run |-> s.run]}
  /\ scripts' = (scripts \ {s}) \cup {[s EXCEPT !.step = "configure"]}
  /\ UNCHANGED <<requests, jobs, inventory, agent, beat, posts, faults>>

\* Certificate, Nginx configuration, policy and access.  An error inside
\* proxy-host.js create leaves the host; a later one deletes it, if it can.
ConfigureHost(s) ==
  /\ s.step = "configure"
  /\ \E ok \in BOOLEAN : EndScript(s, ok) /\ hosts' \in (IF ok THEN {hosts} ELSE {hosts, hosts \ Made(s.run)})
  /\ UNCHANGED <<requests, jobs, inventory, beat, posts, faults>>

\* docker exec is given 90 seconds.
ScriptTimesOut(n) ==
  /\ agent[n].pc = "create" /\ Fault
  /\ Fail(n)
  /\ UNCHANGED <<requests, jobs, inventory, hosts, scripts, beat, posts>>

\* Faulty variant: the error is not raised again after the host is deleted.
RouteSwallowsError(n) ==
  /\ agent[n].pc = "route"
  /\ Proceed(n, "beat")
  /\ hosts' \in {hosts, hosts \ Made(RunOf(n))}
  /\ UNCHANGED <<requests, jobs, inventory, scripts, beat, posts, faults>>

\* DNS route and nginx -t.  A failing route deletes the host again, if it can; a
\* failing test leaves it.
Route(n) ==
  /\ agent[n].pc = "route"
  /\ \/ Proceed(n, "beat") /\ UNCHANGED hosts
     \/ Fail(n) /\ hosts' \in {hosts, hosts \ Made(RunOf(n))}
  /\ UNCHANGED <<requests, jobs, inventory, scripts, beat, posts, faults>>

\* systemctl start of the heartbeat joins one that is already running.
StartBeat(n) ==
  /\ agent[n].pc = "beat"
  /\ IF n = Local
     THEN agent' = [agent EXCEPT ![n].pc = "report", ![n].ok = TRUE] /\ UNCHANGED beat
     ELSE /\ Proceed(n, "wait")
          /\ \E read \in {Served(n), {}} :
               beat' = [beat EXCEPT ![n] = IF @ = None THEN read ELSE @]
  /\ UNCHANGED <<requests, jobs, inventory, hosts, scripts, posts, faults>>

\* The heartbeat's timer.  An inventory that cannot be read is reported empty.
TimerBeat(n) ==
  /\ beat[n] = None
  /\ \E read \in {Served(n), {}} : beat' = [beat EXCEPT ![n] = read]
  /\ UNCHANGED <<requests, jobs, inventory, hosts, scripts, agent, posts, faults>>

\* The agent goes on whether or not the heartbeat reached the controller.
EndBeat(n) ==
  /\ beat[n] # None
  /\ inventory' \in {[inventory EXCEPT ![n] = beat[n]], inventory}
  /\ beat' = [beat EXCEPT ![n] = None]
  /\ agent' = IF agent[n].pc # "wait" THEN agent
              ELSE [agent EXCEPT ![n].pc = "report", ![n].ok = TRUE]
  /\ UNCHANGED <<requests, jobs, hosts, scripts, posts, faults>>

\* A heartbeat that takes over 25 seconds fails a job that is done.
BeatTimesOut(n) ==
  /\ agent[n].pc = "wait" /\ Fault
  /\ Fail(n)
  /\ UNCHANGED <<requests, jobs, inventory, hosts, scripts, beat, posts>>

\* One POST, never repeated: it arrives, is lost, or arrives after its timeout.
Report(n) ==
  LET p == [job |-> agent[n].job, ok |-> agent[n].ok]
  IN /\ agent[n].pc = "report"
     /\ agent' = [agent EXCEPT ![n] = Idle]
     /\ \/ QueueFree /\ jobs' = Complete(p) /\ UNCHANGED <<posts, faults>>
        \/ Fault /\ posts' \in {posts, posts \cup {p}} /\ UNCHANGED jobs
     /\ UNCHANGED <<requests, inventory, hosts, scripts, beat>>

LateResult(p) ==
  /\ QueueFree
  /\ posts' = posts \ {p}
  /\ jobs' = Complete(p)
  /\ UNCHANGED <<requests, inventory, hosts, scripts, agent, beat, faults>>

AgentDies(n) ==
  /\ agent[n].pc # "idle" /\ Fault
  /\ agent' = [agent EXCEPT ![n] = Idle]
  /\ UNCHANGED <<requests, jobs, inventory, hosts, scripts, beat, posts>>

-----------------------------------------------------------------------------
Script == \E s \in scripts : CheckHostname(s) \/ InsertHost(s) \/ ConfigureHost(s)
Agent(n) == Claim(n) \/ Act(n) \/ Route(n) \/ StartBeat(n) \/ Report(n)

Next ==
  \/ \E a \in Admin :
       \/ \E n \in Node, d \in Domain : CheckLocal(a, n, d)
       \/ CheckNodes(a)
       \/ EnqueueProxyHost(a) \/ WriteJob(a)
  \/ \E n \in Node : EnqueueOther(n)
  \/ \E i \in DOMAIN jobs : LeaseExpires(i)
  \/ Script
  \/ \E n \in Node : Agent(n) \/ ScriptTimesOut(n) \/ BeatTimesOut(n) \/ AgentDies(n)
  \/ \E n \in Remote : TimerBeat(n) \/ EndBeat(n)
  \/ \E p \in posts : LateResult(p)

Spec == Init /\ [][Next]_vars

\* Timers fire and commands end; requests need never come.
Fairness ==
  /\ \A n \in Node : WF_vars(Agent(n))
  /\ \A n \in Remote : WF_vars(EndBeat(n))
  /\ WF_vars(Script)
  /\ \A a \in Admin : WF_vars(WriteJob(a))
  /\ WF_vars(\E i \in DOMAIN jobs : LeaseExpires(i))
LiveSpec == Spec /\ Fairness

-----------------------------------------------------------------------------
TypeOK ==
  /\ requests \in [Admin -> {None} \cup [step : {"nodes", "enqueue", "write"}, node : Node, domain : Domain]]
  /\ jobs \in Seq([node : Node, domain : Domain \cup {None}, leased : BOOLEAN,
                   status : Active \cup {"completed", "failed"}, attempts : Nat])
  /\ \A i \in DOMAIN jobs : jobs[i].leased => jobs[i].status = "running"
  /\ inventory \in [Remote -> SUBSET Domain]
  /\ hosts \subseteq [node : Node, domain : Domain, run : [job : DOMAIN jobs, attempt : Nat]]
  /\ scripts \subseteq [run : [job : DOMAIN jobs, attempt : Nat], step : {"check", "insert", "configure"}]
  /\ agent \in [Node -> [pc : {"idle", "create", "act", "route", "beat", "wait", "report"},
                         job : {0} \cup DOMAIN jobs, attempt : Nat, ok : BOOLEAN]]
  /\ beat \in [Remote -> {None} \cup SUBSET Domain]
  /\ posts \subseteq [job : DOMAIN jobs, ok : BOOLEAN]
  /\ faults \in 0 .. FaultBound

\* A completed job has its host: whatever an orphaned script, a second attempt or
\* a late result of an earlier one does, success is recorded of a host that is there.
CompletedIsProvisioned ==
  \A i \in DOMAIN jobs : jobs[i].status = "completed" /\ jobs[i].domain # None =>
    \E h \in On(jobs[i].node) : h.domain = jobs[i].domain /\ h.run.job = i

\* A recorded result is final: no late, repeated or contradicting result changes
\* it, and the job is not claimed again.
ResultsAreFinal ==
  [][\A i \in DOMAIN jobs : jobs[i].status \notin Active => jobs'[i] = jobs[i]]_vars

\* However requests interleave between looking at the job files and writing one,
\* a domain has one active job on all the nodes: withMutation keeps two requests
\* that have both passed the other looks from queueing it twice.
OneActiveJobPerDomain ==
  \A i, j \in DOMAIN jobs :
    i # j /\ jobs[i].domain = jobs[j].domain /\ jobs[i].domain # None =>
      ~(jobs[i].status \in Active /\ jobs[j].status \in Active)

\* Every job ends, behind whatever jobs, losses and crashes there are before it:
\* an expired lease returns it to its node's agent.
JobsEnd == \A i \in 1 .. JobBound : i \in DOMAIN jobs ~> i \in DOMAIN jobs /\ jobs[i].status \notin Active

=============================================================================
