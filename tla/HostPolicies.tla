---------------------------- MODULE HostPolicies ----------------------------
(***************************************************************************)
(* What every proxy host is protected by, as stored and as enforced:       *)
(*                                                                         *)
(*   state    host-groups.json: the groups, and each host's own access     *)
(*   policy   policy.json: enforcement on or off, each host's own mode     *)
(*   geo, acl host-groups-http.conf and host-acl/<id>.conf                 *)
(*   prot     host-protection/<id>.conf                                    *)
(*   running  the acl and prot the running Nginx has loaded                *)
(*                                                                         *)
(* Changes of groups and access wait for one another (withMutation of      *)
(* security_host_groups.js).  Policy changes (security.js) do not, nor do  *)
(* the 30 s timer that brings prot up to date and ensureHostAclFile, which *)
(* every change of a host calls.                                           *)
(***************************************************************************)
EXTENDS Naturals, FiniteSets

CONSTANTS
  Host, Group,
  Bodies,       \* the groups administrators ask for
  Admin,        \* bound: policy changes running at the same time
  Timer,        \* syncProtection
  None,         \* no such group, no restriction
  ChangeBound,  \* bound: changes asked for
  FaultBound    \* bound: failing steps and crashes

Body == [hosts : SUBSET Host, mode : {"open", "list"}, lax : BOOLEAN]

ASSUME PoliciesAssumption ==
  /\ Bodies \subseteq Body
  /\ Timer \notin Admin /\ None \notin Host \cup Group /\ Host \cap Group = {}
  /\ ChangeBound \in Nat /\ FaultBound \in Nat

VARIABLES
  live,           \* the proxy hosts not deleted
  state, policy,
  geo, acl, prot, running,
  op,             \* the group or access change running
  ensure,         \* ensureHostAclFile running: its host and the state it read
  job,            \* the policy changes and the timer
  changes, faults,
  crossed,        \* history: ensureHostAclFile wrote what it read before or during a
                  \* change, or what a change had written could not be undone
  unloaded        \* history: a step failed, or the backend restarted, with files that
                  \* Nginx has not loaded, and nothing has reloaded it since

files == <<geo, acl, prot>>
bounds == <<changes, faults>>
history == <<crossed, unloaded>>
vars == <<live, state, policy, files, running, op, ensure, job, bounds, history>>

-----------------------------------------------------------------------------
(* What the stored state says. *)

GroupsOf(groups, h) == {g \in Group : groups[g] # None /\ h \in groups[g].hosts}
InGroup(groups, h, Holds(_)) == \E g \in GroupsOf(groups, h) : Holds(groups[g])

\* buildHostAcl: the host's own access, else its group's; the variable it tests.
BuildHostAcl(st, h) ==
  IF st.own[h] # "inherit"
  THEN IF st.own[h] = "list" THEN h ELSE None
  ELSE IF \E g \in GroupsOf(st.groups, h) : st.groups[g].mode = "list"
       THEN CHOOSE g \in GroupsOf(st.groups, h) : st.groups[g].mode = "list"
       ELSE None

\* buildGeoConfig: the variables defined.
BuildGeoConfig(st) ==
  {g \in Group : st.groups[g] # None /\ st.groups[g].mode = "list"} \cup {h \in Host : st.own[h] = "list"}

\* renderHostProtectionConfig of the effective policy: host, else group, else global.
Protected(p, groups, h) ==
  /\ p.enforce
  /\ \/ p.own[h] = "on"
     \/ p.own[h] = "none" /\ ~InGroup(groups, h, LAMBDA b : b.lax)

TestPasses == \A h \in live : acl[h] # None => acl[h] \in geo
LoadFiles == running' = [acl |-> acl, prot |-> prot] /\ unloaded' = FALSE
LeaveUnloaded == running' = running /\ unloaded' = (unloaded \/ running # [acl |-> acl, prot |-> prot])

Empty == [groups |-> [g \in Group |-> None], own |-> [h \in Host |-> "inherit"]]
NoOp == [step |-> "idle", base |-> Empty, next |-> Empty, undo |-> FALSE]
AllOn == [enforce |-> TRUE, own |-> [h \in Host |-> "none"]]
NoJob == [step |-> "idle", base |-> AllOn, next |-> AllOn, undo |-> FALSE,
          groups |-> Empty.groups, todo |-> {}, changed |-> FALSE]

Init ==
  /\ live = Host /\ state = Empty /\ policy = AllOn
  /\ geo = {} /\ acl = [h \in Host |-> None] /\ prot = [h \in Host |-> TRUE]
  /\ running = [acl |-> acl, prot |-> prot]
  /\ op = NoOp
  /\ ensure = None
  /\ job = [a \in Admin \cup {Timer} |-> NoJob]
  /\ changes = 0 /\ faults = 0 /\ crossed = FALSE /\ unloaded = FALSE

Fault == faults < FaultBound /\ faults' = faults + 1
Ask == changes < ChangeBound /\ changes' = changes + 1

-----------------------------------------------------------------------------
(* Groups and host access, one change at a time. *)

EndOp == op' = NoOp

Apply(next) ==
  /\ op.step = "idle" /\ Ask
  /\ op' = [step |-> "geo", base |-> state, next |-> next, undo |-> FALSE]
  /\ UNCHANGED <<live, state, policy, files, running, ensure, job, faults, history>>

\* Faulty variant: a host joins a group and stays in its old one.
PutGroupOnly(g, body) ==
  /\ body.hosts \subseteq live
  /\ Apply([state EXCEPT !.groups[g] = body])

Without(group, hosts) == IF group = None THEN None ELSE [group EXCEPT !.hosts = @ \ hosts]

\* create or update: the hosts named leave the other groups.
PutGroup(g, body) ==
  /\ body.hosts \subseteq live
  /\ Apply([state EXCEPT !.groups =
       [x \in Group |-> IF x = g THEN body ELSE Without(state.groups[x], body.hosts)]])

DeleteGroup(g) ==
  /\ state.groups[g] # None
  /\ Apply([state EXCEPT !.groups[g] = None])

\* updateHostAccess and deleteHostAccess; an unchanged access is not applied.
SetHostAccess(h, mode) ==
  /\ h \in live /\ state.own[h] # mode
  /\ Apply([state EXCEPT !.own[h] = mode])

\* writeRuntimeFiles for `next`, or in the catch for `current`: geo first.
WriteGeo ==
  /\ op.step = "geo"
  /\ geo' = BuildGeoConfig(IF op.undo THEN op.base ELSE op.next)
  /\ op' = [op EXCEPT !.step = "acl"]
  /\ UNCHANGED <<live, state, policy, acl, prot, running, ensure, job, bounds, history>>

WriteAcls ==
  LET st == IF op.undo THEN op.base ELSE op.next IN
  /\ op.step = "acl"
  /\ acl' = [h \in Host |-> IF h \in live THEN BuildHostAcl(st, h) ELSE None]
  /\ op' = [op EXCEPT !.step = "reload"]
  /\ crossed' = FALSE
  /\ UNCHANGED <<live, state, policy, geo, prot, running, ensure, job, bounds, unloaded>>

\* Faulty variant: a failing change is reported, and left where it got to.
FailAndStop == EndOp

\* The catch of applyNextState; in it nothing more is caught.
FailOp == op' = [op EXCEPT !.step = "geo", !.undo = TRUE]

Reload ==
  /\ op.step = "reload"
  /\ \/ /\ TestPasses /\ LoadFiles
        /\ IF op.undo THEN EndOp ELSE op' = [op EXCEPT !.step = "persist"]
     \/ /\ ~TestPasses /\ LeaveUnloaded
        /\ IF op.undo THEN EndOp ELSE FailOp
  /\ UNCHANGED <<live, state, policy, files, ensure, job, bounds, crossed>>

WriteState ==
  /\ op.step = "persist"
  /\ state' = op.next
  /\ EndOp
  /\ UNCHANGED <<live, policy, files, running, ensure, job, bounds, history>>

\* A query, a write or the reload fails.
OpFails ==
  /\ op.step # "idle" /\ Fault
  /\ LeaveUnloaded
  /\ \/ ~op.undo /\ FailOp /\ UNCHANGED crossed
     \/ op.undo /\ op.step # "reload" /\ op' = [op EXCEPT !.step = "reload"] /\ crossed' = TRUE
     \/ op.undo /\ op.step = "reload" /\ EndOp /\ UNCHANGED crossed
  /\ UNCHANGED <<live, state, policy, files, ensure, job, changes>>

\* A host is deleted; removeHostAclFile has its turn in the queue.
RemoveHost(h) ==
  /\ op.step = "idle" /\ h \in live /\ Ask
  /\ live' = live \ {h}
  /\ state' = [state EXCEPT !.own[h] = "inherit"]
  /\ acl' = [acl EXCEPT ![h] = None] /\ prot' = [prot EXCEPT ![h] = FALSE]
  /\ UNCHANGED <<policy, geo, running, op, ensure, job, faults, history>>

-----------------------------------------------------------------------------
(* ensureHostAclFile, outside the queue. *)

EnsureRead(h) ==
  /\ ensure = None /\ h \in live /\ Ask
  /\ ensure' = [host |-> h, seen |-> state]
  /\ UNCHANGED <<live, state, policy, files, running, op, job, faults, history>>

EnsureWrite ==
  /\ ensure # None
  /\ acl' = [acl EXCEPT ![ensure.host] = BuildHostAcl(ensure.seen, ensure.host)]
  /\ crossed' = (crossed \/ ensure.seen # state \/ op.step \notin {"idle", "geo", "acl"})
  /\ ensure' = None
  /\ UNCHANGED <<live, state, policy, geo, prot, running, op, job, bounds, unloaded>>

-----------------------------------------------------------------------------
(* policy.json and the protection files. *)

Change(a, next) == job' = [job EXCEPT ![a] = next]

\* updatePolicy, updateHostPolicy, deleteHostPolicy: what is read and wanted.
BeginPolicy(a, next) ==
  /\ job[a].step = "idle" /\ next # policy /\ Ask
  /\ Change(a, [NoJob EXCEPT !.step = "write", !.base = policy, !.next = next])
  /\ UNCHANGED <<live, state, policy, files, running, op, ensure, faults, history>>

SetEnforcement(a, on) == BeginPolicy(a, [policy EXCEPT !.enforce = on])

SetHostPolicy(a, h, mode) == h \in live /\ BeginPolicy(a, [policy EXCEPT !.own[h] = mode])

\* writePolicyUnsafe: the new policy, or the old one in the catch.
WritePolicy(a) ==
  /\ job[a].step = "write"
  /\ policy' = job[a].next
  /\ Change(a, [job[a] EXCEPT !.step = "look"])
  /\ UNCHANGED <<live, state, files, running, op, ensure, bounds, history>>

Tick ==
  /\ job[Timer].step = "idle"
  /\ Change(Timer, [NoJob EXCEPT !.step = "look", !.next = policy])
  /\ UNCHANGED <<live, state, policy, files, running, op, ensure, bounds, history>>

\* syncHostProtectionFiles lists hosts and groups, then writes what differs.
Look(a) ==
  /\ job[a].step = "look"
  /\ Change(a, [job[a] EXCEPT !.step = "files", !.groups = state.groups, !.todo = live])
  /\ UNCHANGED <<live, state, policy, files, running, op, ensure, bounds, history>>

WriteProtection(a, h) ==
  LET j == job[a]
      want == Protected(j.next, j.groups, h)
  IN
  /\ j.step = "files" /\ h \in j.todo
  /\ prot' = [prot EXCEPT ![h] = want]
  /\ Change(a, [j EXCEPT !.todo = @ \ {h}, !.changed = @ \/ prot[h] # want])
  /\ UNCHANGED <<live, state, policy, geo, acl, running, op, ensure, bounds, history>>

\* A sync that fails: the timer gives up, and so does the catch; a change writes and
\* applies the policy read at its start, whatever others wrote since.
SyncFails(a) ==
  /\ LeaveUnloaded
  /\ Change(a, IF a = Timer \/ job[a].undo THEN NoJob
               ELSE [job[a] EXCEPT !.step = "write", !.next = job[a].base, !.undo = TRUE,
                                   !.todo = {}, !.changed = FALSE])

\* Faulty variant: the timer's sync, like the one of prepare, does not reload.
SyncDoneQuietly(a) ==
  LET reload == job[a].changed /\ a # Timer IN
  /\ job[a].step = "files" /\ job[a].todo = {}
  /\ \/ ~reload /\ Change(a, NoJob) /\ UNCHANGED <<running, unloaded>>
     \/ reload /\ TestPasses /\ LoadFiles /\ Change(a, NoJob)
     \/ reload /\ ~TestPasses /\ SyncFails(a)
  /\ UNCHANGED <<live, state, policy, files, op, ensure, bounds, crossed>>

\* Only a sync that has changed a file reloads.
SyncDone(a) ==
  /\ job[a].step = "files" /\ job[a].todo = {}
  /\ \/ ~job[a].changed /\ Change(a, NoJob) /\ UNCHANGED <<running, unloaded>>
     \/ job[a].changed /\ TestPasses /\ LoadFiles /\ Change(a, NoJob)
     \/ job[a].changed /\ ~TestPasses /\ SyncFails(a)
  /\ UNCHANGED <<live, state, policy, files, op, ensure, bounds, crossed>>

\* A failing write of the policy throws, or in the catch is swallowed.
JobFails(a) ==
  /\ job[a].step # "idle" /\ Fault
  /\ \/ /\ job[a].step = "write"
        /\ Change(a, IF job[a].undo THEN [job[a] EXCEPT !.step = "look"] ELSE NoJob)
        /\ UNCHANGED <<running, unloaded>>
     \/ job[a].step # "write" /\ SyncFails(a)
  /\ UNCHANGED <<live, state, policy, files, op, ensure, changes, crossed>>

-----------------------------------------------------------------------------
\* Other parts of the backend reload the same Nginx, whenever they do: nothing
\* below counts on it.
ReloadElsewhere ==
  /\ TestPasses /\ LoadFiles
  /\ UNCHANGED <<live, state, policy, files, op, ensure, job, bounds, crossed>>

\* The backend dies; prepare writes all files from what is stored, and reloads
\* when a protection file was out of date.
Restart ==
  /\ Fault
  /\ geo' = BuildGeoConfig(state)
  /\ acl' = [h \in Host |-> IF h \in live THEN BuildHostAcl(state, h) ELSE None]
  /\ prot' = [h \in Host |-> h \in live /\ Protected(policy, state.groups, h)]
  /\ running' = IF prot' = prot THEN running ELSE [acl |-> acl', prot |-> prot']
  /\ unloaded' = (running' # [acl |-> acl', prot |-> prot'])
  /\ EndOp /\ ensure' = None /\ job' = [a \in Admin \cup {Timer} |-> NoJob]
  /\ crossed' = FALSE
  /\ UNCHANGED <<live, state, policy, changes>>

-----------------------------------------------------------------------------
OpStep == WriteGeo \/ WriteAcls \/ Reload \/ WriteState

JobStep(a) ==
  \/ WritePolicy(a) \/ Look(a) \/ SyncDone(a)
  \/ \E h \in Host : WriteProtection(a, h)

Next ==
  \/ \E g \in Group :
       \/ DeleteGroup(g)
       \/ \E body \in Bodies : PutGroup(g, body)
  \/ \E h \in Host :
       \/ \E mode \in {"inherit", "open", "list"} : SetHostAccess(h, mode)
       \/ RemoveHost(h) \/ EnsureRead(h)
       \/ \E a \in Admin, mode \in {"none", "off", "on"} : SetHostPolicy(a, h, mode)
  \/ \E a \in Admin, on \in BOOLEAN : SetEnforcement(a, on)
  \/ OpStep \/ OpFails \/ EnsureWrite \/ Tick
  \/ \E a \in Admin \cup {Timer} : JobStep(a) \/ JobFails(a)
  \/ ReloadElsewhere \/ Restart

Spec == Init /\ [][Next]_vars

\* Awaited steps return, the two timers keep running; requests are not fair.
Fairness ==
  /\ WF_vars(OpStep) /\ WF_vars(EnsureWrite)
  /\ WF_vars(Tick) /\ \A a \in Admin \cup {Timer} : WF_vars(JobStep(a))
LiveSpec == Spec /\ Fairness

-----------------------------------------------------------------------------
State == [groups : [Group -> Body \cup {None}], own : [Host -> {"inherit", "open", "list"}]]
Policy == [enforce : BOOLEAN, own : [Host -> {"none", "off", "on"}]]

TypeOK ==
  /\ live \subseteq Host /\ state \in State /\ policy \in Policy
  /\ geo \subseteq Group \cup Host
  /\ acl \in [Host -> Group \cup Host \cup {None}] /\ prot \in [Host -> BOOLEAN]
  /\ running.acl \in [Host -> Group \cup Host \cup {None}] /\ running.prot \in [Host -> BOOLEAN]
  /\ op.base \in State /\ op.next \in State
  /\ ensure = None \/ (ensure.host \in Host /\ ensure.seen \in State)
  /\ \A a \in Admin \cup {Timer} : job[a].next \in Policy /\ job[a].todo \subseteq Host
  /\ changes \in 0 .. ChangeBound /\ faults \in 0 .. FaultBound

\* A host is in one group at most, so that "its group" has a meaning.
OneGroupPerHost ==
  \A h \in Host : Cardinality(GroupsOf(state.groups, h)) <= 1

\* Between changes, and unless ensureHostAclFile crossed one or the writes that
\* undo one failed too, every host's ACL on disk says what is stored: a change
\* that failed anywhere has been undone.
AclFollowsState ==
  op.step = "idle" /\ ~crossed => \A h \in live : acl[h] = BuildHostAcl(state, h)

\* When the changes stop, whatever updates were lost, undone or repeated by the timer,
\* Nginx comes to enforce what is stored, host by host, by the reloads of the changes
\* and of the sync themselves.  Except: after the crossing above, and where something
\* that failed, or a restart, left files that Nginx has not loaded, which no sync finds
\* different again; then it waits for somebody else's reload.
EnforcedInTheEnd ==
  <>[](\/ crossed \/ unloaded
       \/ \A h \in live : /\ running.acl[h] = BuildHostAcl(state, h)
                          /\ running.prot[h] = Protected(policy, state.groups, h))
=============================================================================
