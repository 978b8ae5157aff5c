------------------------- MODULE ProvisioningProofs -------------------------
(***************************************************************************)
(* Proofs about Provisioning, for every set of nodes, domains and requests *)
(* and every bound: its jobs keep the promise of a queue, the types, and   *)
(* that a completed job has its host.                                      *)
(***************************************************************************)
EXTENDS Provisioning, TLAPS

\* The steps that leave the queue alone or rewrite one of its jobs: no job
\* changes its node or domain or takes an attempt back, none becomes active again, and a job with a
\* result stays as it is.
Rewritten ==
  /\ DOMAIN jobs' = DOMAIN jobs
  /\ \A i \in DOMAIN jobs :
       /\ jobs'[i].node = jobs[i].node /\ jobs'[i].domain = jobs[i].domain
       /\ jobs[i].attempts <= jobs'[i].attempts
       /\ jobs'[i].status \in Active => jobs[i].status \in Active
       /\ jobs[i].status \notin Active => jobs'[i] = jobs[i]

\* The steps that add a job: a request that holds the queue adds its domain's,
\* and other jobs have no domain.
Grown ==
  \E n \in Node, d \in Domain \cup {None} :
    /\ jobs' = Append(jobs, Queued(n, d))
    /\ d # None => \E a \in Admin : WriteJob(a) /\ d = requests[a].domain

Job == [node : Node, domain : Domain \cup {None}, leased : BOOLEAN,
        status : Active \cup {"completed", "failed"}, attempts : Nat]

\* What TypeOK says of the queue alone.
JobsOK ==
  /\ jobs \in Seq(Job)
  /\ \A i \in DOMAIN jobs : jobs[i].leased => jobs[i].status = "running"

\* Every element of the queue is a job.
LEMMA JobAt ==
  ASSUME JobsOK, NEW i \in DOMAIN jobs
  PROVE  /\ jobs[i] \in Job
         /\ jobs[i].node \in Node /\ jobs[i].domain \in Domain \cup {None} /\ jobs[i].attempts \in Nat
         /\ jobs[i].attempts <= jobs[i].attempts
  <1>1. jobs[i] \in Job
    BY DEF JobsOK
  <1> QED
    BY <1>1 DEF Job

\* The queue with one job replaced by a job of the same node and domain, active
\* only if the old one was, and the same if the old one had its result.
LEMMA OneJobRewritten ==
  ASSUME JobsOK, NEW i \in DOMAIN jobs, NEW j \in Job,
         j.leased => j.status = "running",
         j.node = jobs[i].node, j.domain = jobs[i].domain, jobs[i].attempts <= j.attempts,
         jobs[i].status \in Active,
         jobs' = [jobs EXCEPT ![i] = j]
  PROVE  Rewritten /\ JobsOK'
  <1>1. /\ DOMAIN jobs' = DOMAIN jobs
        /\ \A k \in DOMAIN jobs : jobs'[k] = IF k = i THEN j ELSE jobs[k]
    BY DEF JobsOK
  <1>2. Rewritten
    BY <1>1, JobAt DEF Rewritten
  <1>3. jobs' \in Seq(Job)
    BY DEF JobsOK
  <1>4. \A k \in DOMAIN jobs' : jobs'[k].leased => jobs'[k].status = "running"
    BY <1>1 DEF JobsOK
  <1> QED
    BY <1>2, <1>3, <1>4 DEF JobsOK

\* A result posted for a job of the queue rewrites that job at most.
LEMMA CompleteRewrites ==
  ASSUME JobsOK, NEW i \in DOMAIN jobs, NEW ok \in BOOLEAN,
         jobs' = Complete([job |-> i, ok |-> ok])
  PROVE  Rewritten /\ JobsOK'
  <1>1. CASE jobs[i].status \notin Active
    <2>1. jobs' = jobs
      BY <1>1 DEF Complete
    <2>2. \A k \in DOMAIN jobs : jobs[k].attempts <= jobs[k].attempts
      BY JobAt
    <2> QED
      BY <2>1, <2>2 DEF Rewritten, JobsOK
  <1>2. CASE jobs[i].status \in Active
    <2> DEFINE j == [jobs[i] EXCEPT !.status = IF ok THEN "completed" ELSE "failed",
                                    !.leased = FALSE]
    <2>1. jobs[i] \in Job /\ jobs[i].attempts <= jobs[i].attempts
      BY JobAt
    <2>2. /\ j \in Job /\ j.leased = FALSE
          /\ j.node = jobs[i].node /\ j.domain = jobs[i].domain /\ jobs[i].attempts <= j.attempts
      BY <2>1 DEF Job
    <2>3. jobs' = [jobs EXCEPT ![i] = j]
      BY <1>2, <2>1 DEF Complete, JobsOK, Job
    <2> HIDE DEF j
    <2> QED
      BY <1>2, <2>2, <2>3, OneJobRewritten
  <1> QED
    BY <1>1, <1>2

\* A claim rewrites the claimed job, which was active.
LEMMA ClaimRewrites ==
  ASSUME JobsOK, NEW n \in Node, Claim(n)
  PROVE  Rewritten /\ JobsOK'
  <1> PICK i \in DOMAIN jobs :
        /\ Claimable(jobs[i])
        /\ jobs' = [jobs EXCEPT ![i].status = "running", ![i].leased = TRUE, ![i].attempts = @ + 1]
    BY DEF Claim, Ready
  <1> DEFINE j == [jobs[i] EXCEPT !.status = "running", !.leased = TRUE, !.attempts = @ + 1]
  <1>1. jobs[i] \in Job
    BY DEF JobsOK
  <1>2. jobs[i].status \in Active
    BY DEF Claimable, Active
  <1>3. /\ j \in Job /\ j.status = "running"
        /\ j.node = jobs[i].node /\ j.domain = jobs[i].domain /\ jobs[i].attempts <= j.attempts
    BY <1>1, JobAt DEF Job, Active
  <1>4. jobs' = [jobs EXCEPT ![i] = j]
    BY <1>1 DEF JobsOK, Job
  <1> HIDE DEF j
  <1> QED
    BY <1>2, <1>3, <1>4, OneJobRewritten

\* The end of a lease rewrites a job that was running.
LEMMA LeaseRewrites ==
  ASSUME JobsOK, NEW i \in DOMAIN jobs, LeaseExpires(i)
  PROVE  Rewritten /\ JobsOK'
  <1> DEFINE j == [jobs[i] EXCEPT !.leased = FALSE]
  <1>1. /\ jobs[i] \in Job /\ jobs[i].status \in Active
        /\ jobs[i].attempts <= jobs[i].attempts
    BY JobAt DEF JobsOK, LeaseExpires, Active
  <1>2. /\ j \in Job /\ j.leased = FALSE
        /\ j.node = jobs[i].node /\ j.domain = jobs[i].domain /\ jobs[i].attempts <= j.attempts
    BY <1>1 DEF Job
  <1>3. jobs' = [jobs EXCEPT ![i] = j]
    BY <1>1 DEF LeaseExpires, JobsOK, Job
  <1> HIDE DEF j
  <1> QED
    BY <1>1, <1>2, <1>3, OneJobRewritten

\* An appended job is a job, and the queue keeps its types.
LEMMA GrownTypes ==
  ASSUME JobsOK, Grown
  PROVE  JobsOK'
  <1> PICK n \in Node, d \in Domain \cup {None} : jobs' = Append(jobs, Queued(n, d))
    BY DEF Grown
  <1> DEFINE q == Queued(n, d)
  <1>1. q \in Job /\ q.leased = FALSE
    BY DEF Queued, Job, Active
  <1>2. jobs' = Append(jobs, q)
    OBVIOUS
  <1> HIDE DEF q
  <1>3. jobs' \in Seq(Job)
    BY <1>1, <1>2 DEF JobsOK
  <1>4. \A k \in DOMAIN jobs' : (jobs'[k] = jobs[k] /\ k \in DOMAIN jobs) \/ jobs'[k] = q
    BY <1>1, <1>2 DEF JobsOK
  <1> QED
    BY <1>1, <1>3, <1>4 DEF JobsOK

-----------------------------------------------------------------------------
Pc == {"idle", "create", "act", "route", "beat", "wait", "report"}
Run(D) == [job : D, attempt : Nat]
Worker(D) == [pc : Pc, job : {0} \cup D, attempt : Nat, ok : BOOLEAN]

\* An agent that is not idle works on a job of the queue: what it posts is a
\* result of that job.
WorksOnAJob == \A n \in Node : agent[n].pc # "idle" => agent[n].job \in DOMAIN jobs

\* A script belongs to a job that creates a Proxy Host.
ScriptsCreate == \A s \in scripts : jobs[s.run.job].domain # None

IInv == TypeOK /\ WorksOnAJob /\ ScriptsCreate

Request == [step : {"nodes", "enqueue", "write"}, node : Node, domain : Domain]
HostOf(D) == [node : Node, domain : Domain, run : Run(D)]
ScriptOf(D) == [run : Run(D), step : {"check", "insert", "configure"}]

\* The rest of TypeOK, for a queue of the jobs D.
Others(D) ==
  /\ requests \in [Admin -> {None} \cup Request]
  /\ inventory \in [Remote -> SUBSET Domain]
  /\ hosts \subseteq HostOf(D)
  /\ scripts \subseteq ScriptOf(D)
  /\ beat \in [Remote -> {None} \cup SUBSET Domain]
  /\ posts \subseteq [job : D, ok : BOOLEAN]
  /\ faults \in 0 .. FaultBound

\* TypeOK is made of the queue's part, the agents' part and the rest.
LEMMA TypeParts ==
  TypeOK <=> JobsOK /\ agent \in [Node -> Worker(DOMAIN jobs)] /\ Others(DOMAIN jobs)
  BY DEF TypeOK, JobsOK, Job, Worker, Pc, Others, Request, HostOf, ScriptOf, Run

\* Every step of the queue is a rewriting of one job or an addition.
LEMMA QueueStep ==
  ASSUME IInv, [Next]_vars
  PROVE  (Rewritten \/ Grown) /\ JobsOK'
  <1>0. JobsOK
    BY DEF IInv, TypeOK, JobsOK, Job
  <1>1. CASE jobs' = jobs
    BY <1>0, <1>1, JobAt DEF JobsOK, Rewritten
  <1>2. ASSUME NEW a \in Admin, WriteJob(a) PROVE Grown
    <2>1. requests[a].node \in Node /\ requests[a].domain \in Domain
      BY <1>2 DEF IInv, TypeOK, WriteJob
    <2> QED
      BY <1>2, <2>1 DEF WriteJob, Grown
  <1>3. ASSUME NEW n \in Node, EnqueueOther(n) PROVE Grown
    BY <1>3 DEF EnqueueOther, Grown
  <1>4. ASSUME NEW i \in DOMAIN jobs, LeaseExpires(i) PROVE Rewritten /\ JobsOK'
    BY <1>0, <1>4, LeaseRewrites
  <1>5. ASSUME NEW n \in Node, Claim(n) PROVE Rewritten /\ JobsOK'
    BY <1>0, <1>5, ClaimRewrites
  <1>6. ASSUME NEW n \in Node, Report(n), jobs' # jobs PROVE Rewritten /\ JobsOK'
    <2>1. agent[n].job \in DOMAIN jobs /\ agent[n].ok \in BOOLEAN
      BY <1>6 DEF IInv, TypeOK, WorksOnAJob, Report
    <2>2. jobs' = Complete([job |-> agent[n].job, ok |-> agent[n].ok])
      BY <1>6 DEF Report
    <2> QED
      BY <1>0, <2>1, <2>2, CompleteRewrites
  <1>7. ASSUME NEW p \in posts, LateResult(p) PROVE Rewritten /\ JobsOK'
    <2>1. PICK i \in DOMAIN jobs, ok \in BOOLEAN : p = [job |-> i, ok |-> ok]
      BY DEF IInv, TypeOK
    <2>2. jobs' = Complete([job |-> i, ok |-> ok])
      BY <1>7, <2>1 DEF LateResult
    <2> QED
      BY <1>0, <2>2, CompleteRewrites
  <1>8. Grown => JobsOK'
    BY <1>0, GrownTypes
  <1>9. CASE jobs' # jobs /\ Next
    <2>1. CASE \E a \in Admin : (\E n \in Node, d \in Domain : CheckLocal(a, n, d)) \/ CheckNodes(a) \/ EnqueueProxyHost(a) \/ WriteJob(a)
      BY <1>2, <1>8, <1>9, <2>1 DEF CheckLocal, CheckNodes, EnqueueProxyHost, WriteJob
    <2>2. CASE Script
      BY <1>9, <2>2 DEF Script, CheckHostname, InsertHost, ConfigureHost
    <2>3. CASE \E n \in Node : Agent(n) \/ ScriptTimesOut(n) \/ BeatTimesOut(n) \/ AgentDies(n)
      BY <1>5, <1>6, <1>9, <2>3 DEF Agent, Act, Route, StartBeat, ScriptTimesOut, BeatTimesOut, AgentDies
    <2>4. CASE \E n \in Remote : TimerBeat(n) \/ EndBeat(n)
      BY <1>9, <2>4 DEF TimerBeat, EndBeat
    <2> QED
      BY <1>3, <1>4, <1>7, <1>8, <1>9, <2>1, <2>2, <2>3, <2>4 DEF Next
  <1> QED
    BY <1>1, <1>9 DEF vars

\* The queue never loses a job, and no job changes its node or domain or
\* takes an attempt back, so what refers to its jobs goes on doing so.
LEMMA QueueGrows ==
  ASSUME IInv, [Next]_vars
  PROVE  /\ DOMAIN jobs \subseteq DOMAIN jobs'
         /\ \A i \in DOMAIN jobs : /\ jobs'[i].node = jobs[i].node /\ jobs'[i].domain = jobs[i].domain
                                 /\ jobs[i].attempts <= jobs'[i].attempts
  <1>1. CASE Rewritten
    BY <1>1 DEF Rewritten
  <1>2. CASE Grown
    <2> PICK n \in Node, d \in Domain \cup {None} : jobs' = Append(jobs, Queued(n, d))
      BY <1>2 DEF Grown
    <2>1. jobs \in Seq(Job) /\ JobsOK
      BY TypeParts DEF IInv, JobsOK
    <2> QED
      BY <2>1, JobAt
  <1> QED
    BY <1>1, <1>2, QueueStep

\* The agents' part of the invariant, for one agent that moves.
LEMMA WorkerMoves ==
  ASSUME IInv, DOMAIN jobs \subseteq DOMAIN jobs', NEW n \in Node, NEW w \in Worker(DOMAIN jobs'),
         w.pc # "idle" => w.job \in DOMAIN jobs',
         agent' = [agent EXCEPT ![n] = w]
  PROVE  agent' \in [Node -> Worker(DOMAIN jobs')] /\ WorksOnAJob'
  <1>1. agent \in [Node -> Worker(DOMAIN jobs)]
    BY DEF IInv, TypeOK, Worker, Pc
  <1>2. agent \in [Node -> Worker(DOMAIN jobs')]
    BY <1>1 DEF Worker
  <1>3. agent' \in [Node -> Worker(DOMAIN jobs')]
    BY <1>2
  <1>4. \A m \in Node : agent'[m] = IF m = n THEN w ELSE agent[m]
    BY <1>1
  <1> QED
    BY <1>3, <1>4 DEF WorksOnAJob, IInv

\* The moves of an agent that stays with its job, or puts it down.
LEMMA SameJob ==
  ASSUME IInv, DOMAIN jobs \subseteq DOMAIN jobs', NEW n \in Node, NEW pc \in Pc, NEW ok \in BOOLEAN,
         agent[n].pc # "idle",
         \/ agent' = [agent EXCEPT ![n].pc = pc]
         \/ agent' = [agent EXCEPT ![n].pc = pc, ![n].ok = ok]
         \/ agent' = [agent EXCEPT ![n] = [@ EXCEPT !.pc = pc]]
         \/ agent' = [agent EXCEPT ![n] = Failed(@)]
         \/ agent' = [agent EXCEPT ![n] = Idle]
         \/ agent' = agent
  PROVE  agent' \in [Node -> Worker(DOMAIN jobs')] /\ WorksOnAJob'
  <1>1. agent \in [Node -> Worker(DOMAIN jobs)] /\ agent[n].job \in DOMAIN jobs
    BY DEF IInv, TypeOK, WorksOnAJob, Worker, Pc
  <1> DEFINE w1 == [agent[n] EXCEPT !.pc = pc]
             w2 == [agent[n] EXCEPT !.pc = pc, !.ok = ok]
             w3 == Failed(agent[n])
  <1> DEFINE Fine(w) == w \in Worker(DOMAIN jobs') /\ (w.pc # "idle" => w.job \in DOMAIN jobs')
  <1>a. agent[n] \in Worker(DOMAIN jobs') /\ agent[n].job \in DOMAIN jobs'
    BY <1>1 DEF Worker
  <1>b. Fine(w1)
    BY <1>a DEF Worker
  <1>c. Fine(w2)
    BY <1>a DEF Worker
  <1>d. Fine(w3)
    BY <1>a DEF Worker, Failed, Pc
  <1>e. Fine(Idle)
    BY DEF Worker, Idle, Pc
  <1>3. \/ agent' = [agent EXCEPT ![n] = w1]
        \/ agent' = [agent EXCEPT ![n] = w2]
        \/ agent' = [agent EXCEPT ![n] = w3]
        \/ agent' = [agent EXCEPT ![n] = Idle]
        \/ agent' = [agent EXCEPT ![n] = agent[n]]
    <2>1. CASE agent' = [agent EXCEPT ![n].pc = pc, ![n].ok = ok]
      BY <1>1, <2>1 DEF Worker
    <2>2. CASE agent' = agent
      BY <1>1, <2>2
    <2> QED
      BY <2>1, <2>2
  <1> HIDE DEF w1, w2, w3
  <1> QED
    BY <1>a, <1>b, <1>c, <1>d, <1>e, <1>3, WorkerMoves

\* The rest keeps its types when the queue grows and nothing else moves.
LEMMA OthersGrow ==
  ASSUME NEW D, NEW E, D \subseteq E, Others(D)
  PROVE  Others(E)
  <1>1. Run(D) \subseteq Run(E)
    BY DEF Run
  <1>2. HostOf(D) \subseteq HostOf(E) /\ ScriptOf(D) \subseteq ScriptOf(E)
    BY <1>1 DEF HostOf, ScriptOf
  <1>3. [job : D, ok : BOOLEAN] \subseteq [job : E, ok : BOOLEAN]
    OBVIOUS
  <1> QED
    BY <1>2, <1>3 DEF Others

\* What a script does when it ends: its agent, if it still waits for it, goes on.
LEMMA ScriptEnds ==
  ASSUME IInv, DOMAIN jobs \subseteq DOMAIN jobs', NEW s \in scripts, NEW ok \in BOOLEAN, EndScript(s, ok)
  PROVE  agent' \in [Node -> Worker(DOMAIN jobs')] /\ WorksOnAJob'
  <1> DEFINE n == jobs[s.run.job].node
  <1>1. n \in Node
    <2>1. s.run.job \in DOMAIN jobs
      BY TypeParts DEF IInv, Others, ScriptOf, Run
    <2> QED
      BY <2>1, JobAt, TypeParts DEF IInv
  <1>2. agent \in [Node -> Worker(DOMAIN jobs)]
    BY TypeParts DEF IInv
  <1>3. CASE agent' = agent
    BY <1>2, <1>3 DEF IInv, WorksOnAJob, Worker
  <1>4. CASE agent' # agent
    <2>1. /\ agent[n].pc = "create"
          /\ \/ agent' = [agent EXCEPT ![n] = [@ EXCEPT !.pc = "route"]]
             \/ agent' = [agent EXCEPT ![n] = Failed(@)]
      BY <1>4 DEF EndScript
    <2> HIDE DEF n
    <2>2. "route" \in Pc /\ agent[n].pc # "idle"
      BY <2>1 DEF Pc
    <2> QED
      BY <1>1, <2>1, <2>2, SameJob
  <1> QED
    BY <1>3, <1>4

\* The strengthened invariant is inductive.
LEMMA Inductive ==
  ASSUME IInv, [Next]_vars
  PROVE  IInv'
  <1> DEFINE D == DOMAIN jobs'
             Agents == agent' \in [Node -> Worker(DOMAIN jobs')] /\ WorksOnAJob'
  <1>d. DOMAIN jobs \subseteq DOMAIN jobs'
    BY QueueGrows
  <1>j. JobsOK'
    BY QueueStep
  <1>o. Others(D) /\ Others(DOMAIN jobs)
    BY <1>d, OthersGrow, TypeParts DEF IInv
  <1>t. agent \in [Node -> Worker(DOMAIN jobs)] /\ WorksOnAJob /\ JobsOK
    BY TypeParts DEF IInv
  <1>n. /\ \A i \in DOMAIN jobs : jobs'[i].node = jobs[i].node /\ jobs'[i].domain = jobs[i].domain
        /\ \A s \in scripts : s.run.job \in DOMAIN jobs
    BY <1>o, QueueGrows DEF Others, ScriptOf, Run
  <1>c. (\A s \in scripts' : \E t \in scripts : s.run = t.run) => ScriptsCreate'
    BY <1>n DEF IInv, ScriptsCreate
  <1>u. agent' = agent => Agents
    BY <1>d, <1>t DEF Worker, WorksOnAJob
  <1>k. (Others(DOMAIN jobs))' <=>
          /\ requests' \in [Admin -> {None} \cup Request]
          /\ inventory' \in [Remote -> SUBSET Domain]
          /\ hosts' \subseteq HostOf(D)
          /\ scripts' \subseteq ScriptOf(D)
          /\ beat' \in [Remote -> {None} \cup SUBSET Domain]
          /\ posts' \subseteq [job : D, ok : BOOLEAN]
          /\ faults' \in 0 .. FaultBound
    BY DEF Others, HostOf, ScriptOf, Run
  <1>p. Agents /\ (Others(DOMAIN jobs))' /\ ScriptsCreate' => IInv'
    <2>1. JobsOK' /\ agent' \in [Node -> Worker(DOMAIN jobs')] /\ (Others(DOMAIN jobs))' => TypeOK'
      BY DEF TypeOK, JobsOK, Job, Worker, Pc, Others, Request, HostOf, ScriptOf, Run
    <2> QED
      BY <1>j, <2>1 DEF IInv
  <1>s. /\ Remote \subseteq Node
        /\ \A h \in hosts : h.domain \in Domain
        /\ \A n \in Node : Served(n) \in SUBSET Domain
    BY <1>o DEF Remote, Served, On, Others, HostOf
  <1>f. Fault => faults' \in 0 .. FaultBound
    BY <1>o, ProvisioningAssumption DEF Fault, Others
  <1>1. ASSUME NEW a \in Admin, NEW n \in Node, NEW d \in Domain, CheckLocal(a, n, d) PROVE IInv'
    BY <1>k, <1>p, <1>c, <1>u, <1>o, <1>1 DEF CheckLocal, Others, Request
  <1>2. ASSUME NEW a \in Admin, CheckNodes(a) PROVE IInv'
    <2>1. requests' \in [Admin -> {None} \cup Request]
      BY <1>o, <1>2 DEF CheckNodes, Others, Request
    <2> QED
      BY <2>1, <1>k, <1>p, <1>c, <1>u, <1>o, <1>2 DEF CheckNodes, Others
  <1>3. ASSUME NEW a \in Admin, EnqueueProxyHost(a) PROVE IInv'
    <2>1. requests' \in [Admin -> {None} \cup Request]
      BY <1>o, <1>3 DEF EnqueueProxyHost, Others, Request
    <2> QED
      BY <2>1, <1>k, <1>p, <1>c, <1>u, <1>o, <1>3 DEF EnqueueProxyHost, Others
  <1>19. ASSUME NEW a \in Admin, WriteJob(a) PROVE IInv'
    BY <1>k, <1>p, <1>c, <1>u, <1>o, <1>19 DEF WriteJob, Others
  <1>4. ASSUME NEW n \in Node, EnqueueOther(n) PROVE IInv'
    BY <1>k, <1>p, <1>c, <1>u, <1>o, <1>4 DEF EnqueueOther, Others
  <1>5. ASSUME NEW i \in DOMAIN jobs, LeaseExpires(i) PROVE IInv'
    BY <1>k, <1>p, <1>c, <1>u, <1>o, <1>5 DEF LeaseExpires, Others
  <1>6. ASSUME NEW s \in scripts, CheckHostname(s) PROVE IInv'
    <2>1. Agents
      <3>1. CASE EndScript(s, FALSE)
        BY <1>d, <3>1, ScriptEnds
      <3> QED
        BY <1>u, <1>6, <3>1 DEF CheckHostname
    <2>2. scripts' \subseteq ScriptOf(D)
      BY <1>o, <1>6 DEF CheckHostname, EndScript, Others, ScriptOf
    <2>3. \A t \in scripts' : \E r \in scripts : t.run = r.run
      BY <1>o, <1>6 DEF CheckHostname, EndScript, Others, ScriptOf
    <2> QED
      BY <2>1, <2>2, <2>3, <1>c, <1>k, <1>p, <1>o, <1>6 DEF CheckHostname, Others
  <1>7. ASSUME NEW s \in scripts, InsertHost(s) PROVE IInv'
    <2>1. s.run \in Run(DOMAIN jobs) /\ s.run \in Run(D) /\ s.run.job \in DOMAIN jobs
      BY <1>d, <1>o DEF Others, ScriptOf, Run
    <2>2. hosts' \subseteq HostOf(D)
      <3>1. jobs[s.run.job].node \in Node /\ jobs[s.run.job].domain \in Domain
        BY <2>1, <1>t, JobAt DEF IInv, ScriptsCreate
      <3> QED
        BY <1>o, <1>7, <2>1, <3>1 DEF InsertHost, Others, HostOf
    <2>3. scripts' \subseteq ScriptOf(D) /\ \A t \in scripts' : \E r \in scripts : t.run = r.run
      BY <1>o, <1>7 DEF InsertHost, Others, ScriptOf
    <2> QED
      BY <2>2, <2>3, <1>c, <1>u, <1>k, <1>p, <1>o, <1>7 DEF InsertHost, Others
  <1>8. ASSUME NEW s \in scripts, ConfigureHost(s) PROVE IInv'
    <2>1. Agents
      BY <1>d, <1>8, ScriptEnds DEF ConfigureHost
    <2>2. scripts' \subseteq scripts /\ hosts' \subseteq hosts
      BY <1>8 DEF ConfigureHost, EndScript
    <2> QED
      BY <2>1, <2>2, <1>c, <1>k, <1>p, <1>o, <1>8 DEF ConfigureHost, Others
  <1>9. ASSUME NEW n \in Node, Claim(n) PROVE IInv'
    <2> PICK i \in DOMAIN jobs :
          LET run == [job |-> i, attempt |-> jobs[i].attempts + 1] IN
          \/ /\ agent' = [agent EXCEPT ![n] = Started("act", run)]
             /\ UNCHANGED <<scripts, faults>>
          \/ /\ jobs[i].domain # None
             /\ agent' = [agent EXCEPT ![n] = Started("create", run)]
             /\ scripts' = scripts \cup {[run |-> run, step |-> "check"]}
             /\ UNCHANGED faults
          \/ Fault /\ UNCHANGED <<agent, scripts>>
      BY <1>9 DEF Claim
    <2> DEFINE run == [job |-> i, attempt |-> jobs[i].attempts + 1]
    <2>1. run \in Run(DOMAIN jobs) /\ run \in Run(D) /\ run.job = i
      BY <1>d, <1>t, JobAt DEF Run
    <2> HIDE DEF run
    <2>2. Agents
      <3>1. \A pc \in {"act", "create"} : /\ Started(pc, run) \in Worker(DOMAIN jobs')
                                          /\ Started(pc, run).job \in DOMAIN jobs'
        BY <2>1 DEF Started, Run, Worker, Pc
      <3>2. \/ \E pc \in {"act", "create"} : agent' = [agent EXCEPT ![n] = Started(pc, run)]
            \/ agent' = agent
        BY DEF run
      <3> QED
        BY <3>1, <3>2, <1>d, <1>u, WorkerMoves
    <2>3. /\ scripts' \subseteq ScriptOf(D)
          /\ \A s \in scripts' : s \in scripts \/ (s.run = run /\ jobs[i].domain # None)
      BY <1>o, <2>1 DEF run, Others, ScriptOf
    <2>4. ScriptsCreate'
      BY <1>n, <2>1, <2>3 DEF ScriptsCreate, IInv
    <2>5. faults' \in 0 .. FaultBound
      BY <1>f, <1>o DEF Others
    <2> QED
      BY <2>2, <2>3, <2>4, <2>5, <1>k, <1>p, <1>o, <1>9 DEF Claim, Others
  <1>10. ASSUME NEW n \in Node, Act(n) PROVE IInv'
    <2>1. Agents
      BY <1>d, <1>10, SameJob DEF Act, Proceed, Fail, Pc
    <2> QED
      BY <2>1, <1>c, <1>k, <1>p, <1>o, <1>10 DEF Act, Others
  <1>11. ASSUME NEW n \in Node, Route(n) PROVE IInv'
    <2>1. Agents
      BY <1>d, <1>11, SameJob DEF Route, Proceed, Fail, Pc
    <2>2. hosts' \subseteq hosts
      BY <1>11 DEF Route
    <2> QED
      BY <2>1, <2>2, <1>c, <1>k, <1>p, <1>o, <1>11 DEF Route, Others
  <1>12. ASSUME NEW n \in Node, StartBeat(n) PROVE IInv'
    <2>1. Agents
      BY <1>d, <1>12, SameJob DEF StartBeat, Proceed, Pc
    <2>2. beat' \in [Remote -> {None} \cup SUBSET Domain]
      BY <1>o, <1>s, <1>12 DEF StartBeat, Others
    <2> QED
      BY <2>1, <2>2, <1>c, <1>k, <1>p, <1>o, <1>12 DEF StartBeat, Others
  <1>13. ASSUME NEW n \in Node, Report(n) PROVE IInv'
    <2>1. Agents
      <3>1. agent[n].pc # "idle" /\ agent' = [agent EXCEPT ![n] = Idle] /\ "idle" \in Pc
        BY <1>13 DEF Report, Pc
      <3> QED
        BY <3>1, <1>d, SameJob
    <2>2. agent[n].job \in DOMAIN jobs /\ agent[n].ok \in BOOLEAN
      BY <1>t, <1>13 DEF Report, WorksOnAJob, Worker
    <2>3. posts' \subseteq [job : D, ok : BOOLEAN]
      BY <2>2, <1>d, <1>o, <1>13 DEF Report, Others
    <2>4. faults' \in 0 .. FaultBound
      BY <1>f, <1>o, <1>13 DEF Report, Others
    <2> QED
      BY <2>1, <2>3, <2>4, <1>c, <1>k, <1>p, <1>o, <1>13 DEF Report, Others
  <1>14. ASSUME NEW n \in Node, ScriptTimesOut(n) \/ BeatTimesOut(n) \/ AgentDies(n) PROVE IInv'
    <2>1. Agents
      <3>1. /\ agent[n].pc # "idle" /\ "idle" \in Pc
            /\ \/ agent' = [agent EXCEPT ![n] = Failed(@)]
               \/ agent' = [agent EXCEPT ![n] = Idle]
        BY <1>14 DEF ScriptTimesOut, BeatTimesOut, AgentDies, Fail, Pc
      <3> QED
        BY <3>1, <1>d, SameJob
    <2> QED
      BY <2>1, <1>f, <1>c, <1>k, <1>p, <1>o, <1>14
      DEF ScriptTimesOut, BeatTimesOut, AgentDies, Others
  <1>15. ASSUME NEW n \in Remote, TimerBeat(n) PROVE IInv'
    <2>1. beat' \in [Remote -> {None} \cup SUBSET Domain]
      BY <1>o, <1>s, <1>15 DEF TimerBeat, Others
    <2> QED
      BY <2>1, <1>u, <1>c, <1>k, <1>p, <1>o, <1>15 DEF TimerBeat, Others
  <1>16. ASSUME NEW n \in Remote, EndBeat(n) PROVE IInv'
    <2>1. Agents
      BY <1>d, <1>s, <1>u, <1>16, SameJob DEF EndBeat, Pc
    <2>2. beat[n] \in SUBSET Domain
      BY <1>o, <1>16 DEF EndBeat, Others
    <2>3. inventory' \in [Remote -> SUBSET Domain] /\ beat' \in [Remote -> {None} \cup SUBSET Domain]
      BY <2>2, <1>o, <1>16 DEF EndBeat, Others
    <2> QED
      BY <2>1, <2>3, <1>c, <1>k, <1>p, <1>o, <1>16 DEF EndBeat, Others
  <1>17. ASSUME NEW p \in posts, LateResult(p) PROVE IInv'
    BY <1>u, <1>c, <1>k, <1>p, <1>o, <1>17 DEF LateResult, Others
  <1>18. CASE UNCHANGED vars
    BY <1>u, <1>c, <1>k, <1>p, <1>o, <1>18 DEF vars, Others
  <1> QED
    BY <1>1, <1>2, <1>3, <1>4, <1>5, <1>6, <1>7, <1>8, <1>9, <1>10, <1>11, <1>12, <1>13,
       <1>14, <1>15, <1>16, <1>17, <1>18, <1>19
    DEF Next, Script, Agent

\* TypeOK, with what it needs: the agents and the scripts name jobs of the queue.
THEOREM TypesKept == Spec => []TypeOK
  <1>1. Init => IInv
    BY ProvisioningAssumption
    DEF Init, IInv, TypeOK, WorksOnAJob, ScriptsCreate, Idle
  <1>2. IInv /\ [Next]_vars => IInv'
    BY Inductive
  <1>3. IInv => TypeOK
    BY DEF IInv
  <1> QED
    BY <1>1, <1>2, <1>3, PTL DEF Spec

\* ResultsAreFinal for any number of nodes, requests, jobs, losses and crashes: the
\* status is looked at before a result is stored, and only active jobs are claimed.
THEOREM ResultsFinal == Spec => ResultsAreFinal
  <1>1. Init => IInv
    BY ProvisioningAssumption
    DEF Init, IInv, TypeOK, WorksOnAJob, ScriptsCreate, Idle
  <1>2. IInv /\ [Next]_vars => IInv'
    BY Inductive
  <1>3. IInv /\ [Next]_vars =>
          [\A i \in DOMAIN jobs : jobs[i].status \notin Active => jobs'[i] = jobs[i]]_vars
    <2> SUFFICES ASSUME IInv, [Next]_vars, NEW i \in DOMAIN jobs, jobs[i].status \notin Active
                 PROVE  jobs'[i] = jobs[i]
      OBVIOUS
    <2>1. CASE Rewritten
      BY <2>1 DEF Rewritten
    <2>2. CASE Grown
      <3> PICK n \in Node, d \in Domain \cup {None} : jobs' = Append(jobs, Queued(n, d))
        BY <2>2 DEF Grown
      <3>1. jobs \in Seq(Job)
        BY DEF IInv, TypeOK, Job
      <3> QED
        BY <3>1
    <2> QED
      BY <2>1, <2>2, QueueStep
  <1> QED
    BY <1>1, <1>2, <1>3, PTL DEF Spec, ResultsAreFinal

\* A request that has looked at the job files and not yet written its own.
Writes(a) == requests[a] # None /\ requests[a].step = "write"

\* One request at a time is between the look and the write, and what it saw
\* still holds: nobody else adds a job meanwhile.
QueueHeld ==
  /\ \A a \in Admin : Writes(a) => ~Conflict(requests[a].domain)
  /\ \A a, b \in Admin : Writes(a) /\ Writes(b) => a = b

\* What an added job does to the queue.
LEMMA Appended ==
  ASSUME IInv, NEW n, NEW d, jobs' = Append(jobs, Queued(n, d))
  PROVE  /\ DOMAIN jobs' = DOMAIN jobs \cup {Len(jobs) + 1} /\ Len(jobs) + 1 \notin DOMAIN jobs
         /\ jobs'[Len(jobs) + 1].domain = d
         /\ \A i \in DOMAIN jobs : jobs'[i] = jobs[i]
  <1> DEFINE q == Queued(n, d)
  <1>1. jobs \in Seq(Job)
    BY DEF IInv, TypeOK, Job
  <1>2. q.domain = d
    BY DEF Queued
  <1>3. jobs' = Append(jobs, q)
    OBVIOUS
  <1> HIDE DEF q
  <1> QED
    BY <1>1, <1>2, <1>3

\* A look that found nothing is not made wrong by rewriting jobs, nor by adding one
\* of another domain.
LEMMA NoNewConflict ==
  ASSUME IInv, NEW d \in Domain, ~Conflict(d),
         \/ Rewritten
         \/ \E n, e : e # d /\ jobs' = Append(jobs, Queued(n, e))
  PROVE  ~Conflict(d)'
  <1>1. CASE Rewritten
    BY <1>1 DEF Rewritten, Conflict
  <1>2. ASSUME NEW n, NEW e, e # d, jobs' = Append(jobs, Queued(n, e))
        PROVE  ~Conflict(d)'
    BY <1>2, Appended DEF Conflict
  <1> QED
    BY <1>1, <1>2

\* The steps that bring a request to its write, or leave those that are there.
LEMMA WritersStep ==
  ASSUME IInv, [Next]_vars, NEW a \in Admin, Writes(a)'
  PROVE  \/ Writes(a) /\ requests'[a] = requests[a] /\ ~WriteJob(a)
         \/ /\ QueueFree /\ jobs' = jobs /\ ~Conflict(requests[a].domain)
            /\ requests'[a].domain = requests[a].domain
            /\ \A b \in Admin : b # a => requests'[b] = requests[b]
  <1>1. requests \in [Admin -> {None} \cup Request]
    BY TypeParts DEF IInv, Others
  <1>2. CASE requests' = requests
    <2>1. ~WriteJob(a)
      BY <1>1, <1>2 DEF WriteJob, Writes
    <2> QED
      BY <1>2, <2>1 DEF Writes
  <1>3. ASSUME NEW b \in Admin, NEW n \in Node, NEW d \in Domain, CheckLocal(b, n, d)
        PROVE  Writes(a) /\ requests'[a] = requests[a] /\ a # b
    BY <1>1, <1>3 DEF CheckLocal, Writes
  <1>4. ASSUME NEW b \in Admin, CheckNodes(b)
        PROVE  Writes(a) /\ requests'[a] = requests[a] /\ a # b
    BY <1>1, <1>4 DEF CheckNodes, Writes, Request
  <1>5. ASSUME NEW b \in Admin, WriteJob(b)
        PROVE  Writes(a) /\ requests'[a] = requests[a] /\ a # b
    BY <1>1, <1>5 DEF WriteJob, Writes
  <1>6. ASSUME NEW b \in Admin, EnqueueProxyHost(b), b # a
        PROVE  Writes(a) /\ requests'[a] = requests[a]
    BY <1>1, <1>6 DEF EnqueueProxyHost, Writes
  <1>7. ASSUME EnqueueProxyHost(a)
        PROVE  /\ QueueFree /\ jobs' = jobs /\ ~Conflict(requests[a].domain)
               /\ requests'[a].domain = requests[a].domain
               /\ \A b \in Admin : b # a => requests'[b] = requests[b]
    BY <1>1, <1>7 DEF EnqueueProxyHost, Writes, Request
  <1>8. WriteJob(a) => ~Writes(a)'
    BY <1>1 DEF WriteJob, Writes
  <1>9. CASE requests' # requests /\ Next
    <2>1. \/ \E b \in Admin : \/ \E n \in Node, d \in Domain : CheckLocal(b, n, d)
                             \/ CheckNodes(b) \/ EnqueueProxyHost(b) \/ WriteJob(b)
      <3>1. ~Script
        BY <1>9 DEF Script, CheckHostname, InsertHost, ConfigureHost
      <3>2. ~\E n \in Node : Agent(n) \/ ScriptTimesOut(n) \/ BeatTimesOut(n) \/ AgentDies(n)
        BY <1>9 DEF Agent, Claim, Act, Route, StartBeat, Report, ScriptTimesOut, BeatTimesOut, AgentDies
      <3>3. ~\E n \in Remote : TimerBeat(n) \/ EndBeat(n)
        BY <1>9 DEF TimerBeat, EndBeat
      <3> QED
        BY <1>9, <3>1, <3>2, <3>3 DEF Next, EnqueueOther, LeaseExpires, LateResult
    <2> QED
      BY <1>3, <1>4, <1>5, <1>6, <1>7, <1>8, <2>1
  <1> QED
    BY <1>2, <1>9 DEF vars

\* OneActiveJobPerDomain for any number of nodes and requests: one request at a time
\* is between its look and its write, which it makes while the look still holds, and
\* no step makes an ended job active.
THEOREM OneActive == Spec => []OneActiveJobPerDomain
  <1>1. Init => IInv /\ OneActiveJobPerDomain /\ QueueHeld
    BY ProvisioningAssumption
    DEF Init, IInv, TypeOK, WorksOnAJob, ScriptsCreate, Idle, OneActiveJobPerDomain, QueueHeld, Writes
  <1>2. IInv /\ [Next]_vars => IInv'
    BY Inductive
  <1>3. IInv /\ QueueHeld /\ [Next]_vars => QueueHeld'
    <2> SUFFICES ASSUME IInv, QueueHeld, [Next]_vars
                 PROVE  QueueHeld'
      OBVIOUS
    <2>0. requests \in [Admin -> {None} \cup Request]
      BY TypeParts DEF IInv, Others
    <2>1. ASSUME NEW a \in Admin, Writes(a)' PROVE ~Conflict(requests[a].domain)'
      <3>1. CASE Writes(a) /\ requests'[a] = requests[a] /\ ~WriteJob(a)
        <4>1. requests[a].domain \in Domain /\ ~Conflict(requests[a].domain)
          BY <2>0, <3>1 DEF QueueHeld, Writes, Request
        <4>2. \A b \in Admin : ~WriteJob(b)
          BY <3>1 DEF QueueHeld, Writes, WriteJob
        <4>3. requests[a].domain # None
          BY <4>1, ProvisioningAssumption
        <4>4. \/ Rewritten
              \/ \E n, e : e # requests[a].domain /\ jobs' = Append(jobs, Queued(n, e))
          BY <4>2, <4>3, QueueStep DEF Grown
        <4>5. \A d \in Domain : d = requests[a].domain => ~Conflict(d)'
          BY <4>1, <4>4, NoNewConflict
        <4> QED
          BY <3>1, <4>1, <4>5 DEF Conflict
      <3>2. CASE jobs' = jobs /\ ~Conflict(requests[a].domain) /\ requests'[a].domain = requests[a].domain
        BY <3>2 DEF Conflict
      <3> QED
        BY <2>1, <3>1, <3>2, WritersStep
    <2>2. ASSUME NEW a \in Admin, NEW b \in Admin, Writes(a)', Writes(b)', a # b PROVE FALSE
      <3>1. QueueFree => ~Writes(a) /\ ~Writes(b)
        BY DEF QueueFree, Pending, Writes
      <3>2. /\ Writes(a) \/ (QueueFree /\ requests'[b] = requests[b])
            /\ Writes(b) \/ (QueueFree /\ requests'[a] = requests[a])
        BY <2>2, WritersStep
      <3> QED
        BY <2>2, <3>1, <3>2 DEF QueueHeld, Writes
    <2> QED
      BY <2>1, <2>2 DEF QueueHeld
  <1>4. IInv /\ QueueHeld /\ OneActiveJobPerDomain /\ [Next]_vars => OneActiveJobPerDomain'
    <2> SUFFICES ASSUME IInv, QueueHeld, OneActiveJobPerDomain, [Next]_vars
                 PROVE  OneActiveJobPerDomain'
      OBVIOUS
    <2>1. CASE Rewritten
      BY <2>1 DEF Rewritten, OneActiveJobPerDomain
    <2>2. CASE Grown
      <3> PICK n \in Node, d \in Domain \cup {None} :
            /\ jobs' = Append(jobs, Queued(n, d))
            /\ d # None => \E a \in Admin : WriteJob(a) /\ d = requests[a].domain
        BY <2>2 DEF Grown
      <3>1. d # None => ~Conflict(d)
        BY DEF WriteJob, QueueHeld, Writes
      <3> QED
        BY <3>1, Appended DEF OneActiveJobPerDomain, Conflict
    <2> QED
      BY <2>1, <2>2, QueueStep
  <1> QED
    BY <1>1, <1>2, <1>3, <1>4, PTL DEF Spec

-----------------------------------------------------------------------------
(* A completed job has its host. *)

\* The host of an attempt is there, for the job's node and domain.
HostOfRun(r) ==
  \E h \in hosts : h.run = r /\ h.node = jobs[r.job].node /\ h.domain = jobs[r.job].domain

\* The agent of n waits for the attempt's script or is about to route its domain.
Waits(n, r) == agent[n].pc \in {"create", "route"} /\ RunOf(n) = r

\* The host of an attempt is there, and nobody is left who would delete it.
Kept(r) ==
  /\ r.job \in DOMAIN jobs /\ r.attempt <= jobs[r.job].attempts
  /\ HostOfRun(r)
  /\ \A s \in scripts : s.run # r
  /\ \A n \in Node : ~Waits(n, r)

\* Some attempt at the job has a host that is kept.
Provisioned(i) ==
  jobs[i].domain # None => \E k \in 0 .. jobs[i].attempts : Kept([job |-> i, attempt |-> k])

\* The agent has done its work, though it may not have told so yet.
Succeeded(n) == agent[n].pc \in {"beat", "wait"} \/ (agent[n].pc = "report" /\ agent[n].ok)

\* An agent works for its own node, on an attempt that has been counted; it routes
\* only a host that is there, and whose script has ended.
AgentOK(n) ==
  agent[n].pc # "idle" =>
    /\ jobs[agent[n].job].node = n
    /\ agent[n].attempt <= jobs[agent[n].job].attempts
    /\ agent[n].pc = "act" => jobs[agent[n].job].domain = None
    /\ agent[n].pc = "route" => HostOfRun(RunOf(n)) /\ \A s \in scripts : s.run # RunOf(n)
    /\ Succeeded(n) /\ jobs[agent[n].job].domain # None => Kept(RunOf(n))

AgentInv == \A n \in Node : AgentOK(n)

\* An attempt that has been counted has one script, which configures a host that
\* is there.
ScriptInv ==
  /\ \A s, t \in scripts : s.run = t.run => s = t
  /\ \A s \in scripts : s.run.attempt <= jobs[s.run.job].attempts
  /\ \A s \in scripts : s.step = "configure" => HostOfRun(s.run)

\* Success is posted, and recorded, of jobs that have been provisioned.
PostInv == \A p \in posts : p.ok => Provisioned(p.job)
DoneInv == \A i \in DOMAIN jobs : jobs[i].status = "completed" => Provisioned(i)

HostInv == AgentInv /\ ScriptInv /\ PostInv /\ DoneInv

-----------------------------------------------------------------------------
\* A host disappears only when the script of its own attempt fails, or when the
\* agent of that attempt takes a failed route back.
LEMMA HostsLost ==
  ASSUME [Next]_vars, NEW h \in hosts, h \notin hosts'
  PROVE  \/ \E s \in scripts \ scripts' : h.run = s.run
         \/ \E n \in Node : /\ agent[n].pc = "route" /\ h.run = RunOf(n)
                            /\ agent' = [agent EXCEPT ![n] = Failed(@)]
  <1>1. ASSUME NEW s \in scripts, ConfigureHost(s) PROVE h.run = s.run /\ s \notin scripts'
    BY <1>1 DEF ConfigureHost, EndScript, Made
  <1>2. ASSUME NEW n \in Node, Route(n)
        PROVE  /\ agent[n].pc = "route" /\ h.run = RunOf(n)
               /\ agent' = [agent EXCEPT ![n] = Failed(@)]
    BY <1>2 DEF Route, Fail, Made
  <1>3. CASE \E a \in Admin : (\E n \in Node, d \in Domain : CheckLocal(a, n, d)) \/ CheckNodes(a) \/ EnqueueProxyHost(a) \/ WriteJob(a)
    BY <1>3 DEF CheckLocal, CheckNodes, EnqueueProxyHost, WriteJob
  <1>4. CASE Script
    BY <1>1, <1>4 DEF Script, CheckHostname, InsertHost
  <1>5. CASE \E n \in Node : Agent(n) \/ ScriptTimesOut(n) \/ BeatTimesOut(n) \/ AgentDies(n)
    BY <1>2, <1>5 DEF Agent, Claim, Act, StartBeat, Report, ScriptTimesOut, BeatTimesOut, AgentDies
  <1>6. CASE \E n \in Remote : TimerBeat(n) \/ EndBeat(n)
    BY <1>6 DEF TimerBeat, EndBeat
  <1>7. CASE UNCHANGED vars
    BY <1>7 DEF vars
  <1> QED
    BY <1>3, <1>4, <1>5, <1>6, <1>7 DEF Next, EnqueueOther, LeaseExpires, LateResult

\* Scripts end, go on to their next step, or start for an attempt just counted.
LEMMA ScriptStep ==
  ASSUME IInv, [Next]_vars
  PROVE  \/ scripts' \subseteq scripts
         \/ \E t \in scripts, step \in {"insert", "configure"} :
              /\ scripts' = (scripts \ {t}) \cup {[t EXCEPT !.step = step]}
              /\ t.step # "configure" /\ agent' = agent
              /\ step = "configure" => HostOfRun(t.run)'
         \/ \E i \in DOMAIN jobs :
              /\ scripts' = scripts \cup
                   {[run |-> [job |-> i, attempt |-> jobs[i].attempts + 1], step |-> "check"]}
              /\ jobs'[i].attempts = jobs[i].attempts + 1 /\ hosts' = hosts
  <1>1. ASSUME NEW s \in scripts, InsertHost(s)
        PROVE  /\ scripts' = (scripts \ {s}) \cup {[s EXCEPT !.step = "configure"]}
               /\ s.step # "configure" /\ agent' = agent /\ HostOfRun(s.run)'
    <2> DEFINE h == [node |-> jobs[s.run.job].node, domain |-> jobs[s.run.job].domain, run |-> s.run]
    <2>1. h \in hosts' /\ jobs' = jobs
      BY <1>1 DEF InsertHost
    <2>2. h.run = s.run /\ h.node = jobs'[s.run.job].node /\ h.domain = jobs'[s.run.job].domain
      BY <2>1
    <2> HIDE DEF h
    <2>3. HostOfRun(s.run)'
      BY <2>1, <2>2 DEF HostOfRun
    <2> QED
      BY <1>1, <2>3 DEF InsertHost
  <1>2. ASSUME NEW s \in scripts, CheckHostname(s)
        PROVE  \/ scripts' \subseteq scripts
               \/ /\ scripts' = (scripts \ {s}) \cup {[s EXCEPT !.step = "insert"]}
                  /\ s.step # "configure" /\ agent' = agent
    BY <1>2 DEF CheckHostname, EndScript
  <1>3. ASSUME NEW s \in scripts, ConfigureHost(s) PROVE scripts' \subseteq scripts
    BY <1>3 DEF ConfigureHost, EndScript
  <1>4. ASSUME NEW n \in Node, Claim(n)
        PROVE  \/ scripts' \subseteq scripts
               \/ \E i \in DOMAIN jobs :
                    /\ scripts' = scripts \cup
                         {[run |-> [job |-> i, attempt |-> jobs[i].attempts + 1], step |-> "check"]}
                    /\ jobs'[i].attempts = jobs[i].attempts + 1 /\ hosts' = hosts
    <2> PICK i \in DOMAIN jobs :
          /\ jobs' = [jobs EXCEPT ![i].status = "running", ![i].leased = TRUE, ![i].attempts = @ + 1]
          /\ \/ scripts' = scripts
             \/ scripts' = scripts \cup
                  {[run |-> [job |-> i, attempt |-> jobs[i].attempts + 1], step |-> "check"]}
      BY <1>4 DEF Claim
    <2>1. jobs'[i].attempts = jobs[i].attempts + 1
      BY TypeParts, JobAt DEF IInv, JobsOK, Job
    <2> QED
      BY <1>4, <2>1 DEF Claim
  <1>5. CASE \E a \in Admin : (\E n \in Node, d \in Domain : CheckLocal(a, n, d)) \/ CheckNodes(a) \/ EnqueueProxyHost(a) \/ WriteJob(a)
    BY <1>5 DEF CheckLocal, CheckNodes, EnqueueProxyHost, WriteJob
  <1>6. CASE Script
    BY <1>1, <1>2, <1>3, <1>6 DEF Script
  <1>7. CASE \E n \in Node : Agent(n) \/ ScriptTimesOut(n) \/ BeatTimesOut(n) \/ AgentDies(n)
    BY <1>4, <1>7 DEF Agent, Act, Route, StartBeat, Report, ScriptTimesOut, BeatTimesOut, AgentDies
  <1>8. CASE \E n \in Remote : TimerBeat(n) \/ EndBeat(n)
    BY <1>8 DEF TimerBeat, EndBeat
  <1> QED
    BY <1>5, <1>6, <1>7, <1>8 DEF Next, vars, EnqueueOther, LeaseExpires, LateResult

\* What one step does to the agent of a node.
LEMMA AgentStep ==
  ASSUME IInv, [Next]_vars, NEW n \in Node
  PROVE  \/ agent'[n] = agent[n]
         \/ agent'[n].pc = "idle"
         \/ agent[n].pc # "idle" /\ agent'[n] = Failed(agent[n])
         \/ \E i \in DOMAIN jobs, pc \in {"act", "create"} :
              /\ agent'[n] = Started(pc, [job |-> i, attempt |-> jobs[i].attempts + 1])
              /\ jobs[i].node = n /\ (pc = "act" => jobs[i].domain = None)
              /\ jobs'[i].attempts = jobs[i].attempts + 1
         \/ agent[n].pc = "act" /\ agent'[n] = [agent[n] EXCEPT !.pc = "beat"]
         \/ /\ agent[n].pc = "create" /\ agent'[n] = [agent[n] EXCEPT !.pc = "route"]
            /\ \E s \in scripts : /\ s.run = RunOf(n) /\ s.step = "configure"
                                  /\ scripts' = scripts \ {s} /\ hosts' = hosts
         \/ /\ agent[n].pc = "route" /\ agent'[n] = [agent[n] EXCEPT !.pc = "beat"]
            /\ scripts' = scripts /\ hosts' = hosts /\ jobs' = jobs
            /\ \A m \in Node : m # n => agent'[m] = agent[m]
         \/ /\ agent[n].pc \in {"beat", "wait"}
            /\ \/ agent'[n] = [agent[n] EXCEPT !.pc = "wait"]
               \/ agent'[n] = [agent[n] EXCEPT !.pc = "report", !.ok = TRUE]
  <1>0. agent \in [Node -> Worker(DOMAIN jobs)]
    BY TypeParts DEF IInv
  <1>1. ASSUME NEW m \in Node, Claim(m)
        PROVE  \/ agent' = agent
               \/ \E i \in DOMAIN jobs, pc \in {"act", "create"} :
                    /\ agent' = [agent EXCEPT ![m] = Started(pc, [job |-> i, attempt |-> jobs[i].attempts + 1])]
                    /\ jobs[i].node = m /\ (pc = "act" => jobs[i].domain = None)
                    /\ jobs'[i].attempts = jobs[i].attempts + 1
    <2> PICK i \in DOMAIN jobs :
          /\ jobs[i].node = m
          /\ jobs' = [jobs EXCEPT ![i].status = "running", ![i].leased = TRUE, ![i].attempts = @ + 1]
          /\ \/ agent' = agent
             \/ /\ jobs[i].domain = None
                /\ agent' = [agent EXCEPT ![m] = Started("act", [job |-> i, attempt |-> jobs[i].attempts + 1])]
             \/ agent' = [agent EXCEPT ![m] = Started("create", [job |-> i, attempt |-> jobs[i].attempts + 1])]
      BY <1>1 DEF Claim, Ready
    <2>1. jobs'[i].attempts = jobs[i].attempts + 1
      BY TypeParts, JobAt DEF IInv, JobsOK, Job
    <2> QED
      BY <2>1
  <1>2. ASSUME NEW m \in Node, agent[m].pc # "idle", agent' = [agent EXCEPT ![m] = Failed(@)]
        PROVE  agent'[n] = agent[n] \/ (agent[n].pc # "idle" /\ agent'[n] = Failed(agent[n]))
    BY <1>0, <1>2
  <1>3. ASSUME NEW s \in scripts, NEW ok \in BOOLEAN, EndScript(s, ok)
        PROVE  \/ agent'[n] = agent[n]
               \/ agent[n].pc # "idle" /\ agent'[n] = Failed(agent[n])
               \/ /\ ok /\ agent[n].pc = "create" /\ agent'[n] = [agent[n] EXCEPT !.pc = "route"]
                  /\ s.run = RunOf(n) /\ scripts' = scripts \ {s}
    BY <1>0, <1>3 DEF EndScript
  <1>4. ASSUME NEW m \in Node, Act(m)
        PROVE  \/ agent'[n] = agent[n]
               \/ agent[n].pc # "idle" /\ agent'[n] = Failed(agent[n])
               \/ agent[n].pc = "act" /\ agent'[n] = [agent[n] EXCEPT !.pc = "beat"]
    BY <1>0, <1>4 DEF Act, Proceed, Fail
  <1>5. ASSUME NEW m \in Node, Route(m)
        PROVE  \/ agent'[n] = agent[n]
               \/ agent[n].pc # "idle" /\ agent'[n] = Failed(agent[n])
               \/ /\ agent[n].pc = "route" /\ agent'[n] = [agent[n] EXCEPT !.pc = "beat"]
                  /\ scripts' = scripts /\ hosts' = hosts /\ jobs' = jobs
                  /\ \A l \in Node : l # n => agent'[l] = agent[l]
    BY <1>0, <1>5 DEF Route, Proceed, Fail
  <1>6. ASSUME NEW m \in Node, StartBeat(m)
        PROVE  \/ agent'[n] = agent[n]
               \/ /\ agent[n].pc = "beat"
                  /\ \/ agent'[n] = [agent[n] EXCEPT !.pc = "wait"]
                     \/ agent'[n] = [agent[n] EXCEPT !.pc = "report", !.ok = TRUE]
    BY <1>0, <1>6 DEF StartBeat, Proceed, Worker
  <1>7. ASSUME NEW m \in Remote, EndBeat(m)
        PROVE  \/ agent'[n] = agent[n]
               \/ /\ agent[n].pc = "wait"
                  /\ agent'[n] = [agent[n] EXCEPT !.pc = "report", !.ok = TRUE]
    BY <1>0, <1>7 DEF EndBeat, Worker, Remote
  <1>8. ASSUME NEW m \in Node, agent' = [agent EXCEPT ![m] = Idle]
        PROVE  agent'[n] = agent[n] \/ agent'[n].pc = "idle"
    BY <1>0, <1>8 DEF Idle
  <1>9. CASE \E a \in Admin : (\E m \in Node, d \in Domain : CheckLocal(a, m, d)) \/ CheckNodes(a) \/ EnqueueProxyHost(a) \/ WriteJob(a)
    BY <1>9 DEF CheckLocal, CheckNodes, EnqueueProxyHost, WriteJob
  <1>10. CASE Script
    <2>1. ASSUME NEW s \in scripts, ConfigureHost(s)
          PROVE  s.step = "configure" /\ \E ok \in BOOLEAN : EndScript(s, ok) /\ (ok => hosts' = hosts)
      BY <2>1 DEF ConfigureHost
    <2>2. ASSUME NEW s \in scripts, CheckHostname(s)
          PROVE  EndScript(s, FALSE) \/ agent' = agent
      BY <2>2 DEF CheckHostname
    <2> QED
      BY <1>3, <1>10, <2>1, <2>2 DEF Script, InsertHost
  <1>11. CASE \E m \in Node : Claim(m)
    BY <1>0, <1>1, <1>11
  <1>12. CASE \E m \in Node : Act(m) \/ Route(m) \/ StartBeat(m)
    BY <1>4, <1>5, <1>6, <1>12
  <1>13. CASE \E m \in Node : Report(m) \/ AgentDies(m)
    BY <1>8, <1>13 DEF Report, AgentDies
  <1>14. CASE \E m \in Node : ScriptTimesOut(m) \/ BeatTimesOut(m)
    BY <1>2, <1>14 DEF ScriptTimesOut, BeatTimesOut, Fail
  <1>15. CASE \E m \in Remote : TimerBeat(m) \/ EndBeat(m)
    BY <1>7, <1>15 DEF TimerBeat
  <1>16. CASE agent' = agent
    BY <1>16
  <1> QED
    BY <1>9, <1>10, <1>11, <1>12, <1>13, <1>14, <1>15, <1>16
    DEF Next, Agent, vars, EnqueueOther, LeaseExpires, LateResult

-----------------------------------------------------------------------------
\* What the types say, in the form the steps below use it.
LEMMA Typed ==
  ASSUME IInv
  PROVE  /\ \A s \in scripts : s \in ScriptOf(DOMAIN jobs) /\ s.run \in Run(DOMAIN jobs) /\ s.run.job \in DOMAIN jobs
         /\ \A n \in Node : agent[n].pc # "idle" => agent[n].job \in DOMAIN jobs /\ RunOf(n) \in Run(DOMAIN jobs)
         /\ \A n \in Node : /\ agent[n] \in Worker(DOMAIN jobs) /\ RunOf(n).job = agent[n].job
                            /\ RunOf(n).attempt = agent[n].attempt
         /\ \A i \in DOMAIN jobs : jobs[i].attempts \in Nat
         /\ JobsOK
  <1>1. JobsOK /\ Others(DOMAIN jobs) /\ agent \in [Node -> Worker(DOMAIN jobs)] /\ WorksOnAJob
    BY TypeParts DEF IInv
  <1>2. \A n \in Node : agent[n] \in Worker(DOMAIN jobs)
    BY <1>1
  <1>3. \A n \in Node : agent[n].pc # "idle" => agent[n].job \in DOMAIN jobs /\ RunOf(n) \in Run(DOMAIN jobs)
    BY <1>1, <1>2 DEF WorksOnAJob, RunOf, Run, Worker
  <1>4. \A s \in scripts : s \in ScriptOf(DOMAIN jobs) /\ s.run \in Run(DOMAIN jobs) /\ s.run.job \in DOMAIN jobs
    BY <1>1 DEF Others, ScriptOf, Run
  <1> QED
    BY <1>1, <1>2, <1>3, <1>4, JobAt DEF RunOf

\* Attempts are numbers, before and after a step.
LEMMA AttemptsCount ==
  ASSUME IInv, [Next]_vars, NEW i \in DOMAIN jobs
  PROVE  jobs[i].attempts \in Nat /\ jobs'[i].attempts \in Nat
  <1>1. i \in DOMAIN jobs' /\ jobs' \in Seq(Job)
    BY QueueGrows, QueueStep DEF JobsOK
  <1>2. jobs'[i] \in Job
    BY <1>1
  <1> QED
    BY <1>2, Typed DEF Job

\* The host of an attempt outlives every step but the end of the attempt's own
\* script and the failure of its own route.
LEMMA HostStays ==
  ASSUME IInv, [Next]_vars, NEW r \in Run(DOMAIN jobs), HostOfRun(r),
         \A s \in scripts \ scripts' : s.run # r,
         \A n \in Node : agent[n].pc = "route" /\ RunOf(n) = r => agent'[n] # Failed(agent[n])
  PROVE  HostOfRun(r)'
  <1> PICK h \in hosts : h.run = r /\ h.node = jobs[r.job].node /\ h.domain = jobs[r.job].domain
    BY DEF HostOfRun
  <1>1. r.job \in DOMAIN jobs
    BY DEF Run
  <1>2. h \in hosts'
    <2> SUFFICES ASSUME h \notin hosts' PROVE FALSE
      OBVIOUS
    <2>1. PICK n \in Node : agent[n].pc = "route" /\ h.run = RunOf(n) /\ agent' = [agent EXCEPT ![n] = Failed(@)]
      BY HostsLost
    <2>2. agent'[n] = Failed(agent[n])
      BY <2>1, TypeParts DEF IInv
    <2> QED
      BY <2>1, <2>2
  <1>3. h.node = jobs'[r.job].node /\ h.domain = jobs'[r.job].domain
    BY <1>1, QueueGrows
  <1> QED
    BY <1>2, <1>3 DEF HostOfRun

\* The host of a kept attempt stays kept: later attempts at the job have other
\* runs, and none of them touches a host it has not made.
LEMMA KeptStays ==
  ASSUME IInv, [Next]_vars, NEW r \in Run(DOMAIN jobs), Kept(r)
  PROVE  Kept(r)'
  <1>1. /\ r.job \in DOMAIN jobs /\ r.attempt \in Nat
        /\ r.job \in DOMAIN jobs' /\ jobs[r.job].attempts <= jobs'[r.job].attempts
    BY QueueGrows DEF Run
  <1>2. r.attempt <= jobs'[r.job].attempts /\ r.attempt <= jobs[r.job].attempts
    <2>1. jobs[r.job].attempts \in Nat /\ jobs'[r.job].attempts \in Nat
      BY <1>1, AttemptsCount
    <2> QED
      BY <1>1, <2>1 DEF Kept
  <1>3. HostOfRun(r)'
    <2>1. \A n \in Node : ~(agent[n].pc = "route" /\ RunOf(n) = r)
      BY DEF Kept, Waits
    <2> QED
      BY <2>1, HostStays DEF Kept
  <1>4. \A i \in DOMAIN jobs : r # [job |-> i, attempt |-> jobs[i].attempts + 1]
    BY <1>1, <1>2, Typed
  <1>5. \A s \in scripts' : s.run # r
    BY <1>4, ScriptStep, Typed DEF Kept, ScriptOf
  <1>6. ASSUME NEW n \in Node PROVE ~Waits(n, r)'
    <2>1. ~Waits(n, r)
      BY DEF Kept
    <2>2. agent[n] \in Worker(DOMAIN jobs)
      BY Typed
    <2>3. CASE \E i \in DOMAIN jobs, pc \in {"act", "create"} :
                 agent'[n] = Started(pc, [job |-> i, attempt |-> jobs[i].attempts + 1])
      BY <1>4, <2>3 DEF Waits, RunOf, Started
    <2>4. CASE \/ agent'[n] = agent[n]
               \/ agent'[n].pc = "idle"
               \/ agent'[n] = Failed(agent[n])
               \/ \E pc \in {"beat", "wait"} : agent'[n] = [agent[n] EXCEPT !.pc = pc]
               \/ agent'[n] = [agent[n] EXCEPT !.pc = "report", !.ok = TRUE]
      BY <2>1, <2>2, <2>4 DEF Waits, RunOf, Failed, Worker
    <2>5. CASE agent[n].pc = "create" /\ agent'[n] = [agent[n] EXCEPT !.pc = "route"]
      BY <2>1, <2>2, <2>5 DEF Waits, RunOf, Worker
    <2> QED
      BY <2>3, <2>4, <2>5, AgentStep, ZenonT(30)
  <1> QED
    BY <1>1, <1>2, <1>3, <1>5, <1>6 DEF Kept

\* So does what is said of a job.
LEMMA ProvisionedStays ==
  ASSUME IInv, [Next]_vars, NEW i \in DOMAIN jobs, Provisioned(i)
  PROVE  Provisioned(i)'
  <1>1. /\ i \in DOMAIN jobs' /\ jobs'[i].domain = jobs[i].domain
        /\ jobs[i].attempts <= jobs'[i].attempts
    BY QueueGrows
  <1>2. CASE jobs[i].domain # None
    <2> PICK k \in 0 .. jobs[i].attempts : Kept([job |-> i, attempt |-> k])
      BY <1>2 DEF Provisioned
    <2>1. jobs[i].attempts \in Nat /\ jobs'[i].attempts \in Nat
      BY <1>1, AttemptsCount
    <2>2. [job |-> i, attempt |-> k] \in Run(DOMAIN jobs) /\ k \in 0 .. jobs'[i].attempts
      BY <1>1, <2>1 DEF Run
    <2>3. Kept([job |-> i, attempt |-> k])'
      BY <2>2, KeptStays
    <2> QED
      BY <2>2, <2>3 DEF Provisioned
  <1> QED
    BY <1>1, <1>2 DEF Provisioned

-----------------------------------------------------------------------------
\* The scripts' part is inductive: a new script belongs to an attempt just
\* counted, and one that configures a host is the only one of its attempt.
LEMMA ScriptInvStep ==
  ASSUME IInv, HostInv, [Next]_vars
  PROVE  ScriptInv'
  <1>1. \A i \in DOMAIN jobs, s \in scripts :
          s.run # [job |-> i, attempt |-> jobs[i].attempts + 1]
    <2> SUFFICES ASSUME NEW i \in DOMAIN jobs, NEW s \in scripts,
                        s.run = [job |-> i, attempt |-> jobs[i].attempts + 1]
                 PROVE  FALSE
      OBVIOUS
    <2>1. s.run.job = i /\ s.run.attempt = jobs[i].attempts + 1 /\ s.run.attempt <= jobs[s.run.job].attempts
      BY DEF HostInv, ScriptInv
    <2>2. jobs[i].attempts \in Nat
      BY Typed
    <2> QED
      BY <2>1, <2>2
  <1>2. \A s, t \in scripts' : s.run = t.run => s = t
    <2>1. CASE scripts' \subseteq scripts
      BY <2>1 DEF HostInv, ScriptInv
    <2>2. ASSUME NEW t \in scripts, NEW step \in {"insert", "configure"},
                 scripts' = (scripts \ {t}) \cup {[t EXCEPT !.step = step]}
          PROVE  \A s, u \in scripts' : s.run = u.run => s = u
      <3>1. [t EXCEPT !.step = step].run = t.run
        BY Typed DEF ScriptOf
      <3> QED
        BY <2>2, <3>1 DEF HostInv, ScriptInv
    <2>3. ASSUME NEW i \in DOMAIN jobs,
                 scripts' = scripts \cup
                   {[run |-> [job |-> i, attempt |-> jobs[i].attempts + 1], step |-> "check"]}
          PROVE  \A s, u \in scripts' : s.run = u.run => s = u
      BY <1>1, <2>3 DEF HostInv, ScriptInv
    <2> QED
      BY <2>1, <2>2, <2>3, ScriptStep
  <1>3. ASSUME NEW s \in scripts' PROVE s.run.attempt <= jobs'[s.run.job].attempts
    <2>1. ASSUME NEW t \in scripts, s.run = t.run PROVE s.run.attempt <= jobs'[s.run.job].attempts
      <3>1. t.run.job \in DOMAIN jobs /\ t.run.attempt \in Nat /\ t.run.attempt <= jobs[t.run.job].attempts
        BY Typed DEF HostInv, ScriptInv, Run
      <3>2. jobs[t.run.job].attempts <= jobs'[t.run.job].attempts
        BY <3>1, QueueGrows
      <3>3. jobs[t.run.job].attempts \in Nat /\ jobs'[t.run.job].attempts \in Nat
        BY <3>1, AttemptsCount
      <3> QED
        BY <2>1, <3>1, <3>2, <3>3
    <2>2. ASSUME NEW i \in DOMAIN jobs, jobs'[i].attempts = jobs[i].attempts + 1,
                 s.run = [job |-> i, attempt |-> jobs[i].attempts + 1]
          PROVE  s.run.attempt <= jobs'[s.run.job].attempts
      BY <2>2, AttemptsCount
    <2>3. ASSUME NEW t \in scripts, NEW step \in {"insert", "configure"}, s = [t EXCEPT !.step = step]
          PROVE  s.run = t.run
      BY <2>3, Typed DEF ScriptOf
    <2> QED
      BY <2>1, <2>2, <2>3, ScriptStep
  <1>4. ASSUME NEW s \in scripts', s.step = "configure" PROVE HostOfRun(s.run)'
    <2>1. CASE s \in scripts
      <3>1. s.run \in Run(DOMAIN jobs) /\ HostOfRun(s.run)
        BY <1>4, <2>1, Typed DEF HostInv, ScriptInv
      <3>2. \A t \in scripts \ scripts' : t.run # s.run
        BY <2>1 DEF HostInv, ScriptInv
      <3>3. \A n \in Node : ~(agent[n].pc = "route" /\ RunOf(n) = s.run)
        BY <2>1 DEF HostInv, AgentInv, AgentOK
      <3> QED
        BY <3>1, <3>2, <3>3, HostStays
    <2>2. ASSUME NEW t \in scripts, NEW step \in {"insert", "configure"}, s = [t EXCEPT !.step = step]
          PROVE  s.run = t.run /\ s.step = step
      BY <2>2, Typed DEF ScriptOf
    <2> QED
      BY <1>4, <2>1, <2>2, ScriptStep
  <1> QED
    BY <1>2, <1>3, <1>4 DEF ScriptInv

\* What an agent works on before and after a step that keeps it on its job.
LEMMA SameWork ==
  ASSUME IInv, HostInv, [Next]_vars, NEW n \in Node, agent[n].pc # "idle",
         agent'[n].job = agent[n].job, agent'[n].attempt = agent[n].attempt
  PROVE  /\ RunOf(n)' = RunOf(n) /\ RunOf(n) \in Run(DOMAIN jobs)
         /\ jobs'[agent'[n].job].node = n
         /\ jobs'[agent'[n].job].domain = jobs[agent[n].job].domain
         /\ agent'[n].attempt <= jobs'[agent'[n].job].attempts
  <1>1. /\ agent[n].job \in DOMAIN jobs /\ RunOf(n) \in Run(DOMAIN jobs)
        /\ agent[n].attempt \in Nat
    BY Typed DEF Worker
  <1>2. /\ jobs[agent[n].job].node = n
        /\ agent[n].attempt <= jobs[agent[n].job].attempts
    BY DEF HostInv, AgentInv, AgentOK
  <1>3. jobs[agent[n].job].attempts \in Nat /\ jobs'[agent[n].job].attempts \in Nat
    BY <1>1, AttemptsCount
  <1>4. /\ jobs'[agent[n].job].node = n /\ jobs'[agent[n].job].domain = jobs[agent[n].job].domain
        /\ jobs[agent[n].job].attempts <= jobs'[agent[n].job].attempts
    BY <1>1, <1>2, QueueGrows
  <1> QED
    BY <1>1, <1>2, <1>3, <1>4 DEF RunOf

\* Of two agents, only one works on an attempt.
LEMMA OneAgentPerRun ==
  ASSUME IInv, HostInv, NEW n \in Node, NEW m \in Node,
         agent[n].pc # "idle", agent[m].pc # "idle", RunOf(n) = RunOf(m)
  PROVE  n = m
  <1>1. agent[n].job = agent[m].job
    BY Typed
  <1> QED
    BY <1>1 DEF HostInv, AgentInv, AgentOK

\* An agent about to route keeps its host, and no script of its attempt appears.
LEMMA RouteStays ==
  ASSUME IInv, HostInv, [Next]_vars, NEW n \in Node,
         agent[n].pc = "route", agent'[n] = agent[n]
  PROVE  HostOfRun(RunOf(n))' /\ \A s \in scripts' : s.run # RunOf(n)
  <1>1. HostOfRun(RunOf(n)) /\ \A s \in scripts : s.run # RunOf(n)
    BY DEF HostInv, AgentInv, AgentOK
  <1>2. RunOf(n) \in Run(DOMAIN jobs) /\ RunOf(n)' = RunOf(n)
    BY Typed DEF RunOf
  <1>3. \A m \in Node : agent[m].pc = "route" /\ RunOf(m) = RunOf(n) => agent'[m] # Failed(agent[m])
    <2> SUFFICES ASSUME NEW m \in Node, agent[m].pc = "route", RunOf(m) = RunOf(n)
                 PROVE  agent'[m] # Failed(agent[m])
      OBVIOUS
    <2>1. m = n
      BY OneAgentPerRun
    <2>2. agent[n] \in Worker(DOMAIN jobs)
      BY Typed
    <2> QED
      BY <2>1, <2>2 DEF Failed, Worker
  <1>4. HostOfRun(RunOf(n))'
    <2> DEFINE r == RunOf(n)
    <2>1. r \in Run(DOMAIN jobs) /\ HostOfRun(r) /\ (\A s \in scripts \ scripts' : s.run # r)
      BY <1>1, <1>2
    <2>2. \A m \in Node : agent[m].pc = "route" /\ RunOf(m) = r => agent'[m] # Failed(agent[m])
      BY <1>3
    <2>3. PICK q : q = r
      OBVIOUS
    <2>4. HostOfRun(q)'
      BY <2>1, <2>2, <2>3, HostStays
    <2> QED
      BY <1>2, <2>3, <2>4 DEF HostOfRun
  <1>5. \A i \in DOMAIN jobs : RunOf(n) # [job |-> i, attempt |-> jobs[i].attempts + 1]
    <2> SUFFICES ASSUME NEW i \in DOMAIN jobs, RunOf(n) = [job |-> i, attempt |-> jobs[i].attempts + 1]
                 PROVE  FALSE
      OBVIOUS
    <2>1. agent[n].job = i /\ agent[n].attempt = jobs[i].attempts + 1
      BY DEF RunOf
    <2>2. agent[n].attempt <= jobs[i].attempts /\ jobs[i].attempts \in Nat
      BY <2>1, Typed DEF HostInv, AgentInv, AgentOK
    <2> QED
      BY <2>1, <2>2
  <1>6. ASSUME NEW s \in scripts' PROVE s.run # RunOf(n)
    <2>1. ASSUME NEW t \in scripts, NEW step \in {"insert", "configure"}, s = [t EXCEPT !.step = step]
          PROVE  s.run = t.run
      BY <2>1, Typed DEF ScriptOf
    <2> QED
      BY <1>1, <1>5, <2>1, ScriptStep
  <1> QED
    BY <1>4, <1>6

\* A kept attempt of the agent stays kept.
LEMMA SuccessStays ==
  ASSUME IInv, HostInv, [Next]_vars, NEW n \in Node, Succeeded(n), RunOf(n)' = RunOf(n),
         jobs[agent[n].job].domain # None
  PROVE  Kept(RunOf(n))'
  <1>1. Kept(RunOf(n)) /\ RunOf(n) \in Run(DOMAIN jobs)
    BY Typed DEF HostInv, AgentInv, AgentOK, Succeeded
  <1>2. PICK r : r = RunOf(n)
    OBVIOUS
  <1>3. Kept(r)'
    BY <1>1, <1>2, KeptStays
  <1> QED
    BY <1>2, <1>3

\* A host that has been routed is kept: its script has ended and its agent goes on.
LEMMA RoutedIsKept ==
  ASSUME IInv, HostInv, [Next]_vars, NEW n \in Node,
         agent[n].pc = "route", agent'[n] = [agent[n] EXCEPT !.pc = "beat"],
         scripts' = scripts, hosts' = hosts, jobs' = jobs,
         \A m \in Node : m # n => agent'[m] = agent[m]
  PROVE  Kept(RunOf(n))'
  <1>1. PICK r : r = RunOf(n)
    OBVIOUS
  <1>2. /\ agent'[n].pc = "beat" /\ agent'[n].job = agent[n].job /\ agent'[n].attempt = agent[n].attempt
        /\ RunOf(n)' = r /\ r.job = agent[n].job /\ r.attempt = agent[n].attempt
        /\ r.job \in DOMAIN jobs
    BY <1>1, Typed DEF Worker, RunOf
  <1>3. HostOfRun(r) /\ (\A s \in scripts : s.run # r) /\ r.attempt <= jobs[r.job].attempts
    BY <1>1, <1>2 DEF HostInv, AgentInv, AgentOK
  <1>4. ASSUME NEW m \in Node PROVE ~Waits(m, r)'
    <2>1. CASE m = n
      BY <1>2, <2>1 DEF Waits
    <2>2. CASE m # n
      <3>1. agent'[m] = agent[m] /\ RunOf(m)' = RunOf(m)
        BY <2>2 DEF RunOf
      <3>2. agent[m].pc # "idle" => RunOf(m) # r
        BY <1>1, <2>2, OneAgentPerRun
      <3> QED
        BY <3>1, <3>2 DEF Waits
    <2> QED
      BY <2>1, <2>2
  <1>5. Kept(r)'
    BY <1>2, <1>3, <1>4 DEF Kept, HostOfRun
  <1> QED
    BY <1>2, <1>5

\* The agents' part is inductive.
LEMMA AgentInvStep ==
  ASSUME IInv, HostInv, [Next]_vars, NEW n \in Node
  PROVE  AgentOK(n)'
  <1>0. agent[n] \in Worker(DOMAIN jobs)
    BY Typed
  <1>1. CASE agent'[n] = agent[n] /\ agent[n].pc # "idle"
    <2>1. /\ RunOf(n)' = RunOf(n)
          /\ jobs'[agent'[n].job].node = n
          /\ jobs'[agent'[n].job].domain = jobs[agent[n].job].domain
          /\ agent'[n].attempt <= jobs'[agent'[n].job].attempts
      BY <1>1, SameWork
    <2>2. agent[n].pc = "act" => jobs[agent[n].job].domain = None
      BY <1>1 DEF HostInv, AgentInv, AgentOK
    <2>3. agent[n].pc = "route" => HostOfRun(RunOf(n))' /\ \A s \in scripts' : s.run # RunOf(n)
      BY <1>1, RouteStays
    <2>4. Succeeded(n)' => Succeeded(n)
      BY <1>1 DEF Succeeded
    <2>5. Succeeded(n)' /\ jobs[agent[n].job].domain # None => Kept(RunOf(n))'
      BY <2>1, <2>4, SuccessStays
    <2> QED
      BY <1>1, <2>1, <2>2, <2>3, <2>5 DEF AgentOK
  <1>2. CASE agent'[n].pc = "idle"
    BY <1>2 DEF AgentOK
  <1>3. CASE agent[n].pc # "idle" /\ agent'[n] = Failed(agent[n])
    <2>1. /\ agent'[n].pc = "report" /\ agent'[n].ok = FALSE
          /\ agent'[n].job = agent[n].job /\ agent'[n].attempt = agent[n].attempt
      BY <1>0, <1>3 DEF Failed, Worker
    <2> QED
      BY <1>3, <2>1, SameWork DEF AgentOK, Succeeded
  <1>4. ASSUME NEW i \in DOMAIN jobs, NEW pc \in {"act", "create"},
               agent'[n] = Started(pc, [job |-> i, attempt |-> jobs[i].attempts + 1]),
               jobs[i].node = n, pc = "act" => jobs[i].domain = None,
               jobs'[i].attempts = jobs[i].attempts + 1
        PROVE  AgentOK(n)'
    <2>1. agent'[n].pc = pc /\ agent'[n].job = i /\ agent'[n].attempt = jobs[i].attempts + 1
      BY <1>4 DEF Started
    <2>2. jobs'[i].node = n /\ jobs'[i].domain = jobs[i].domain /\ jobs'[i].attempts \in Nat
      BY <1>4, QueueGrows, AttemptsCount
    <2> QED
      BY <1>4, <2>1, <2>2 DEF AgentOK, Succeeded
  <1>5. CASE agent[n].pc = "act" /\ agent'[n] = [agent[n] EXCEPT !.pc = "beat"]
    <2>1. agent'[n].pc = "beat" /\ agent'[n].job = agent[n].job /\ agent'[n].attempt = agent[n].attempt
      BY <1>0, <1>5 DEF Worker
    <2>2. jobs[agent[n].job].domain = None
      BY <1>5 DEF HostInv, AgentInv, AgentOK
    <2> QED
      BY <1>5, <2>1, <2>2, SameWork DEF AgentOK
  <1>6. ASSUME agent[n].pc = "create", agent'[n] = [agent[n] EXCEPT !.pc = "route"],
               NEW s \in scripts, s.run = RunOf(n), s.step = "configure",
               scripts' = scripts \ {s}, hosts' = hosts
        PROVE  AgentOK(n)'
    <2>1. agent'[n].pc = "route" /\ agent'[n].job = agent[n].job /\ agent'[n].attempt = agent[n].attempt
      BY <1>0, <1>6 DEF Worker
    <2>2. /\ RunOf(n)' = RunOf(n)
          /\ jobs'[agent'[n].job].node = n
          /\ agent'[n].attempt <= jobs'[agent'[n].job].attempts
      BY <1>6, <2>1, SameWork
    <2>3. \A t \in scripts' : t.run # RunOf(n)
      BY <1>6 DEF HostInv, ScriptInv
    <2>4. HostOfRun(RunOf(n))'
      <3>1. PICK r : r = RunOf(n)
        OBVIOUS
      <3>2. HostOfRun(r) /\ r.job \in DOMAIN jobs
        BY <1>6, <3>1, Typed DEF HostInv, ScriptInv
      <3>3. jobs'[r.job].node = jobs[r.job].node /\ jobs'[r.job].domain = jobs[r.job].domain
        BY <3>2, QueueGrows
      <3>4. HostOfRun(r)'
        BY <1>6, <3>2, <3>3 DEF HostOfRun
      <3> QED
        BY <2>2, <3>1, <3>4
    <2> QED
      BY <2>1, <2>2, <2>3, <2>4 DEF AgentOK, Succeeded
  <1>7. ASSUME agent[n].pc = "route", agent'[n] = [agent[n] EXCEPT !.pc = "beat"],
               scripts' = scripts, hosts' = hosts, jobs' = jobs,
               \A m \in Node : m # n => agent'[m] = agent[m]
        PROVE  AgentOK(n)'
    <2>1. agent'[n].pc = "beat" /\ agent'[n].job = agent[n].job /\ agent'[n].attempt = agent[n].attempt
      BY <1>0, <1>7 DEF Worker
    <2> QED
      BY <1>7, <2>1, SameWork, RoutedIsKept DEF AgentOK
  <1>8. ASSUME agent[n].pc \in {"beat", "wait"},
               \/ agent'[n] = [agent[n] EXCEPT !.pc = "wait"]
               \/ agent'[n] = [agent[n] EXCEPT !.pc = "report", !.ok = TRUE]
        PROVE  AgentOK(n)'
    <2>1. /\ agent'[n].pc \in {"wait", "report"}
          /\ agent'[n].job = agent[n].job /\ agent'[n].attempt = agent[n].attempt
      BY <1>0, <1>8 DEF Worker
    <2>2. /\ RunOf(n)' = RunOf(n)
          /\ jobs'[agent'[n].job].node = n
          /\ jobs'[agent'[n].job].domain = jobs[agent[n].job].domain
          /\ agent'[n].attempt <= jobs'[agent'[n].job].attempts
      BY <1>8, <2>1, SameWork
    <2>3. Succeeded(n)
      BY <1>8 DEF Succeeded
    <2>4. jobs[agent[n].job].domain # None => Kept(RunOf(n))'
      BY <2>2, <2>3, SuccessStays
    <2> QED
      BY <2>1, <2>2, <2>4 DEF AgentOK
  <1>9. CASE agent'[n] = agent[n] /\ agent[n].pc = "idle"
    BY <1>9 DEF AgentOK
  <1> QED
    BY <1>1, <1>2, <1>3, <1>4, <1>5, <1>6, <1>7, <1>8, <1>9, AgentStep

\* A job that ends a step completed was so before, or has just been reported done.
LEMMA NewlyCompleted ==
  ASSUME IInv, [Next]_vars, NEW i \in DOMAIN jobs', jobs'[i].status = "completed"
  PROVE  /\ i \in DOMAIN jobs
         /\ \/ jobs[i].status = "completed"
            \/ \E n \in Node : agent[n].pc = "report" /\ agent[n].ok /\ agent[n].job = i
            \/ \E p \in posts : p.ok /\ p.job = i
  <1>1. jobs \in Seq(Job) /\ JobsOK
    BY Typed DEF JobsOK
  <1>2. ASSUME NEW p, p.job \in DOMAIN jobs, p.ok \in BOOLEAN, jobs' = Complete(p)
        PROVE  i \in DOMAIN jobs /\ (jobs[i].status = "completed" \/ (p.ok /\ p.job = i))
    <2>1. CASE jobs[p.job].status \notin Active
      BY <1>2, <2>1 DEF Complete
    <2>2. CASE jobs[p.job].status \in Active
      <3> DEFINE j == [jobs[p.job] EXCEPT !.status = IF p.ok THEN "completed" ELSE "failed",
                                          !.leased = FALSE]
      <3>1. jobs[p.job] \in Job
        BY <1>1, <1>2
      <3>2. j.status = IF p.ok THEN "completed" ELSE "failed"
        BY <3>1 DEF Job
      <3>3. jobs' = [jobs EXCEPT ![p.job] = j]
        BY <1>1, <1>2, <2>2, <3>1 DEF Complete, Job
      <3> HIDE DEF j
      <3> QED
        BY <1>1, <1>2, <3>2, <3>3
    <2> QED
      BY <2>1, <2>2
  <1>3. CASE jobs' = jobs
    BY <1>3
  <1>4. ASSUME NEW n \in Node, Report(n), jobs' # jobs
        PROVE  /\ i \in DOMAIN jobs
               /\ \/ jobs[i].status = "completed"
                  \/ agent[n].pc = "report" /\ agent[n].ok /\ agent[n].job = i
    <2> DEFINE p == [job |-> agent[n].job, ok |-> agent[n].ok]
    <2>1. p.job = agent[n].job /\ p.ok = agent[n].ok /\ jobs' = Complete(p) /\ agent[n].pc = "report"
      BY <1>4 DEF Report
    <2>2. p.job \in DOMAIN jobs /\ p.ok \in BOOLEAN
      BY <2>1, Typed DEF Worker
    <2> HIDE DEF p
    <2> QED
      BY <1>2, <2>1, <2>2
  <1>5. ASSUME NEW p \in posts, LateResult(p)
        PROVE  i \in DOMAIN jobs /\ (jobs[i].status = "completed" \/ (p.ok /\ p.job = i))
    <2>1. p.job \in DOMAIN jobs /\ p.ok \in BOOLEAN
      BY TypeParts DEF IInv, Others
    <2> QED
      BY <1>2, <1>5, <2>1 DEF LateResult
  <1>6. ASSUME NEW n, NEW d, jobs' = Append(jobs, Queued(n, d))
        PROVE  i \in DOMAIN jobs /\ jobs[i].status = "completed"
    <2> DEFINE q == Queued(n, d)
    <2>1. q.status = "queued" /\ jobs' = Append(jobs, q)
      BY <1>6 DEF Queued
    <2> HIDE DEF q
    <2> QED
      BY <1>1, <2>1
  <1>7. ASSUME NEW k \in DOMAIN jobs, NEW j \in Job, jobs' = [jobs EXCEPT ![k] = j], j.status = "running"
        PROVE  i \in DOMAIN jobs /\ jobs[i].status = "completed"
    BY <1>1, <1>7
  <1>8. ASSUME NEW n \in Node, Claim(n) PROVE i \in DOMAIN jobs /\ jobs[i].status = "completed"
    <2> PICK k \in DOMAIN jobs :
          jobs' = [jobs EXCEPT ![k].status = "running", ![k].leased = TRUE, ![k].attempts = @ + 1]
      BY <1>8 DEF Claim
    <2> DEFINE j == [jobs[k] EXCEPT !.status = "running", !.leased = TRUE, !.attempts = @ + 1]
    <2>1. jobs[k] \in Job
      BY <1>1
    <2>2. j \in Job /\ j.status = "running"
      BY <2>1 DEF Job, Active
    <2>3. jobs' = [jobs EXCEPT ![k] = j]
      BY <1>1, <2>1 DEF Job
    <2> HIDE DEF j
    <2> QED
      BY <1>7, <2>2, <2>3
  <1>9. ASSUME NEW k \in DOMAIN jobs, LeaseExpires(k) PROVE i \in DOMAIN jobs /\ jobs[i].status = "completed"
    <2> DEFINE j == [jobs[k] EXCEPT !.leased = FALSE]
    <2>1. jobs[k] \in Job /\ jobs[k].status = "running"
      BY <1>1, <1>9 DEF JobsOK, LeaseExpires
    <2>2. j \in Job /\ j.status = "running"
      BY <2>1 DEF Job
    <2>3. jobs' = [jobs EXCEPT ![k] = j]
      BY <1>1, <1>9, <2>1 DEF LeaseExpires, Job
    <2> HIDE DEF j
    <2> QED
      BY <1>7, <2>2, <2>3
  <1>10. CASE Script \/ \E n \in Remote : TimerBeat(n) \/ EndBeat(n)
    BY <1>3, <1>10 DEF Script, CheckHostname, InsertHost, ConfigureHost, TimerBeat, EndBeat
  <1>11. CASE \E a \in Admin : (\E n \in Node, d \in Domain : CheckLocal(a, n, d)) \/ CheckNodes(a)
    BY <1>3, <1>11 DEF CheckLocal, CheckNodes
  <1>12. CASE (\E a \in Admin : EnqueueProxyHost(a) \/ WriteJob(a)) \/ (\E n \in Node : EnqueueOther(n))
    <2>1. jobs' = jobs \/ \E n, d : jobs' = Append(jobs, Queued(n, d))
      BY <1>12 DEF EnqueueProxyHost, WriteJob, EnqueueOther
    <2> QED
      BY <1>3, <1>6, <2>1
  <1>13. CASE \E n \in Node : \/ ScriptTimesOut(n) \/ BeatTimesOut(n) \/ AgentDies(n)
                             \/ Act(n) \/ Route(n) \/ StartBeat(n)
    BY <1>3, <1>13 DEF ScriptTimesOut, BeatTimesOut, AgentDies, Act, Route, StartBeat
  <1>14. CASE UNCHANGED vars
    BY <1>3, <1>14 DEF vars
  <1> QED
    BY <1>3, <1>4, <1>5, <1>8, <1>9, <1>10, <1>11, <1>12, <1>13, <1>14 DEF Next, Agent

\* A success that is on its way stands for a host that is kept.
LEMMA PostsStep ==
  ASSUME IInv, HostInv, [Next]_vars
  PROVE  PostInv' /\ DoneInv'
  <1>1. ASSUME NEW n \in Node, agent[n].pc = "report", agent[n].ok
        PROVE  agent[n].job \in DOMAIN jobs /\ Provisioned(agent[n].job)
    <2>1. agent[n].job \in DOMAIN jobs /\ agent[n].attempt \in Nat
      BY <1>1, Typed DEF Worker
    <2>2. jobs[agent[n].job].attempts \in Nat /\ agent[n].attempt <= jobs[agent[n].job].attempts
      BY <1>1, <2>1, AttemptsCount DEF HostInv, AgentInv, AgentOK
    <2>3. jobs[agent[n].job].domain # None => Kept(RunOf(n))
      BY <1>1 DEF HostInv, AgentInv, AgentOK, Succeeded
    <2> QED
      BY <2>1, <2>2, <2>3 DEF Provisioned, RunOf
  <1>2. ASSUME NEW p \in posts, p.ok PROVE p.job \in DOMAIN jobs /\ Provisioned(p.job)
    BY <1>2, TypeParts DEF IInv, Others, HostInv, PostInv
  <1>3. ASSUME NEW p \in posts', p.ok
        PROVE  \E i \in DOMAIN jobs : p.job = i /\ Provisioned(i)
    <2>1. CASE p \in posts
      BY <1>2, <1>3, <2>1
    <2>2. CASE p \notin posts
      <3>1. \E n \in Node : agent[n].pc = "report" /\ p = [job |-> agent[n].job, ok |-> agent[n].ok]
        <4>1. CASE \E a \in Admin : (\E n \in Node, d \in Domain : CheckLocal(a, n, d)) \/ CheckNodes(a) \/ EnqueueProxyHost(a) \/ WriteJob(a)
          BY <2>2, <4>1 DEF CheckLocal, CheckNodes, EnqueueProxyHost, WriteJob
        <4>2. CASE Script \/ \E n \in Remote : TimerBeat(n) \/ EndBeat(n)
          BY <2>2, <4>2 DEF Script, CheckHostname, InsertHost, ConfigureHost, TimerBeat, EndBeat
        <4>3. CASE \E n \in Node : Agent(n) \/ ScriptTimesOut(n) \/ BeatTimesOut(n) \/ AgentDies(n)
          BY <2>2, <4>3 DEF Agent, Claim, Act, Route, StartBeat, Report, ScriptTimesOut, BeatTimesOut, AgentDies
        <4>4. CASE UNCHANGED vars
          BY <2>2, <4>4 DEF vars
        <4> QED
          BY <2>2, <4>1, <4>2, <4>3, <4>4 DEF Next, EnqueueOther, LeaseExpires, LateResult
      <3> QED
        BY <1>1, <1>3, <3>1
    <2> QED
      BY <2>1, <2>2
  <1>4. PostInv'
    BY <1>3, ProvisionedStays DEF PostInv
  <1>5. ASSUME NEW i \in DOMAIN jobs', jobs'[i].status = "completed" PROVE Provisioned(i)'
    <2>1. i \in DOMAIN jobs /\ Provisioned(i)
      BY <1>1, <1>2, <1>5, NewlyCompleted DEF HostInv, DoneInv
    <2> QED
      BY <2>1, ProvisionedStays
  <1> QED
    BY <1>4, <1>5 DEF DoneInv

\* CompletedIsProvisioned for any number of nodes, jobs, losses, crashes and attempts.
\* The host of the attempt that reported success is never deleted: its script has ended,
\* its agent is past the route, and later attempts delete only hosts of their own.
THEOREM Completed == Spec => []CompletedIsProvisioned
  <1>1. Init => IInv /\ HostInv
    <2> SUFFICES ASSUME Init PROVE IInv /\ HostInv
      OBVIOUS
    <2>1. IInv
      BY ProvisioningAssumption
      DEF Init, IInv, TypeOK, WorksOnAJob, ScriptsCreate, Idle
    <2>2. HostInv
      BY DEF Init, HostInv, AgentInv, AgentOK, ScriptInv, PostInv, DoneInv, Idle
    <2> QED
      BY <2>1, <2>2
  <1>2. IInv /\ HostInv /\ [Next]_vars => IInv' /\ HostInv'
    BY Inductive, AgentInvStep, ScriptInvStep, PostsStep DEF HostInv, AgentInv
  <1>3. IInv /\ HostInv => CompletedIsProvisioned
    <2> SUFFICES ASSUME IInv, HostInv, NEW i \in DOMAIN jobs,
                        jobs[i].status = "completed", jobs[i].domain # None
                 PROVE  \E h \in On(jobs[i].node) : h.domain = jobs[i].domain /\ h.run.job = i
      BY DEF CompletedIsProvisioned
    <2> PICK k \in 0 .. jobs[i].attempts : Kept([job |-> i, attempt |-> k])
      BY DEF HostInv, DoneInv, Provisioned
    <2> PICK h \in hosts : /\ h.run = [job |-> i, attempt |-> k]
                           /\ h.node = jobs[i].node /\ h.domain = jobs[i].domain
      BY DEF Kept, HostOfRun
    <2> QED
      BY DEF On
  <1> QED
    BY <1>1, <1>2, <1>3, PTL DEF Spec
=============================================================================
