------------------------- MODULE HostPoliciesProofs -------------------------
(***************************************************************************)
(* For any hosts, groups, administrators, changes, failing steps and       *)
(* crashes: the types, a host in one group at most, and ACL files that say *)
(* what is stored.                                                         *)
(***************************************************************************)
EXTENDS HostPolicies, FiniteSetTheorems, TLAPS

USE PoliciesAssumption

-----------------------------------------------------------------------------
(* Types *)

Steps == {"idle", "geo", "acl", "reload", "persist"}
Op == [step : Steps, base : State, next : State, undo : BOOLEAN]
JobSteps == {"idle", "write", "look", "files"}
Job == [step : JobSteps, base : Policy, next : Policy, undo : BOOLEAN,
        groups : [Group -> Body \cup {None}], todo : SUBSET Host, changed : BOOLEAN]
Files == [Host -> Group \cup Host \cup {None}]

\* TypeOK says of the running changes only what tells a faulty one apart.
Types ==
  /\ live \subseteq Host /\ state \in State /\ policy \in Policy
  /\ geo \subseteq Group \cup Host /\ acl \in Files /\ prot \in [Host -> BOOLEAN]
  /\ running \in [acl : Files, prot : [Host -> BOOLEAN]]
  /\ op \in Op
  /\ ensure = None \/ ensure \in [host : Host, seen : State]
  /\ job \in [Admin \cup {Timer} -> Job]
  /\ changes \in 0 .. ChangeBound /\ faults \in 0 .. FaultBound

\* What is stored names a variable for every host, or none.
LEMMA AclType ==
  ASSUME NEW st \in State, NEW h \in Host
  PROVE  BuildHostAcl(st, h) \in Group \cup Host \cup {None}
<1>1. CASE \E g \in GroupsOf(st.groups, h) : st.groups[g].mode = "list"
  <2> DEFINE g == CHOOSE x \in GroupsOf(st.groups, h) : st.groups[x].mode = "list"
  <2>1. g \in GroupsOf(st.groups, h)
    BY <1>1
  <2>2. g \in Group
    BY <2>1 DEF GroupsOf
  <2> HIDE DEF g
  <2>3. BuildHostAcl(st, h) \in {h, None, g}
    BY DEF BuildHostAcl, g
  <2> QED
    BY <2>2, <2>3
<1> QED
  BY <1>1 DEF BuildHostAcl

LEMMA AclsType ==
  ASSUME NEW st \in State, NEW hosts
  PROVE  [h \in Host |-> IF h \in hosts THEN BuildHostAcl(st, h) ELSE None] \in Files
BY AclType DEF Files

LEMMA GeoType ==
  ASSUME NEW st
  PROVE  BuildGeoConfig(st) \subseteq Group \cup Host
BY DEF BuildGeoConfig

LEMMA ProtectedType ==
  ASSUME NEW p \in Policy, NEW groups, NEW h \in Host
  PROVE  Protected(p, groups, h) \in BOOLEAN
BY DEF Protected, Policy

LEMMA EmptyTypes ==
  Empty \in State /\ AllOn \in Policy /\ NoOp \in Op /\ NoJob \in Job
<1>1. Empty \in State
  BY DEF Empty, State
<1>2. AllOn \in Policy
  BY DEF AllOn, Policy
<1>3. Empty.groups \in [Group -> Body \cup {None}]
  BY DEF Empty
<1> HIDE DEF Empty, AllOn
<1>4. NoOp \in Op
  BY <1>1 DEF NoOp, Op, Steps
<1>5. NoJob \in Job
  BY <1>2, <1>3 DEF NoJob, Job, JobSteps
<1> QED
  BY <1>1, <1>2, <1>4, <1>5

LEMMA TypesInit == ASSUME Init PROVE Types
<1>1. live \subseteq Host /\ state \in State /\ policy \in Policy /\ op \in Op
  BY EmptyTypes DEF Init
<1>2. geo \subseteq Group \cup Host /\ acl \in Files /\ prot \in [Host -> BOOLEAN]
  BY DEF Init, Files
<1>3. running \in [acl : Files, prot : [Host -> BOOLEAN]]
  BY <1>2 DEF Init
<1>4. job \in [Admin \cup {Timer} -> Job]
  BY EmptyTypes DEF Init
<1>5. changes \in 0 .. ChangeBound /\ faults \in 0 .. FaultBound
  BY DEF Init
<1> QED
  BY <1>1, <1>2, <1>3, <1>4, <1>5 DEF Types, Init

\* The state a group or access change asks for is one.
LEMMA ApplyTypes ==
  ASSUME Types, NEW next \in State, Apply(next)
  PROVE  Types'
<1>1. op' \in Op
  BY DEF Apply, Types, Op, Steps
<1>2. changes' \in 0 .. ChangeBound
  BY DEF Apply, Ask, Types
<1> QED
  BY <1>1, <1>2 DEF Types, Apply, files

Moved(g, body) ==
  [state EXCEPT !.groups =
     [x \in Group |-> IF x = g THEN body ELSE Without(state.groups[x], body.hosts)]]

\* Every other group keeps the hosts that do not move.
LEMMA MovedType ==
  ASSUME Types, NEW g \in Group, NEW body \in Bodies
  PROVE  /\ Moved(g, body) \in State
         /\ \A x \in Group : Moved(g, body).groups[x] # None =>
              \/ x = g /\ Moved(g, body).groups[x] = body
              \/ /\ x # g /\ state.groups[x] # None
                 /\ Moved(g, body).groups[x].hosts = state.groups[x].hosts \ body.hosts
<1> DEFINE gs == [x \in Group |-> IF x = g THEN body ELSE Without(state.groups[x], body.hosts)]
<1>1. state \in State /\ body \in Body
  BY DEF Types
<1>2. \A x \in Group : state.groups[x] \in Body \cup {None}
  BY <1>1 DEF State
<1>3. \A x \in Group : Without(state.groups[x], body.hosts) \in Body \cup {None}
  BY <1>2 DEF Without, Body
<1>4. \A x \in Group : Without(state.groups[x], body.hosts) # None =>
        /\ state.groups[x] # None
        /\ Without(state.groups[x], body.hosts).hosts = state.groups[x].hosts \ body.hosts
  BY <1>2 DEF Without, Body
<1>5. gs \in [Group -> Body \cup {None}]
  BY <1>1, <1>3
<1>6. /\ [state EXCEPT !.groups = gs] \in State
      /\ [state EXCEPT !.groups = gs].groups = gs
  BY <1>1, <1>5 DEF State
<1>7. \A x \in Group : gs[x] # None =>
              \/ x = g /\ gs[x] = body
              \/ x # g /\ state.groups[x] # None /\ gs[x].hosts = state.groups[x].hosts \ body.hosts
  BY <1>4
<1> QED
  BY <1>6, <1>7 DEF Moved

\* The changes of groups, access and hosts.
LEMMA ChangeTypes ==
  ASSUME Types,
         \/ \E g \in Group : DeleteGroup(g)
         \/ \E g \in Group, body \in Bodies : PutGroup(g, body)
         \/ \E h \in Host, mode \in {"inherit", "open", "list"} : SetHostAccess(h, mode)
  PROVE  /\ Types'
         /\ \E next \in State : Apply(next)
<1> SUFFICES \E next \in State : Apply(next)
  BY ApplyTypes
<1>1. CASE \E g \in Group : DeleteGroup(g)
  <2> PICK g \in Group : DeleteGroup(g)
    BY <1>1
  <2>1. [state EXCEPT !.groups[g] = None] \in State
    BY DEF Types, State
  <2> QED
    BY <2>1 DEF DeleteGroup
<1>2. CASE \E g \in Group, body \in Bodies : PutGroup(g, body)
  <2> PICK g \in Group, body \in Bodies : PutGroup(g, body)
    BY <1>2
  <2>1. Apply(Moved(g, body))
    BY DEF PutGroup, Moved
  <2> QED
    BY <2>1, MovedType
<1>3. CASE \E h \in Host, mode \in {"inherit", "open", "list"} : SetHostAccess(h, mode)
  <2> PICK h \in Host, mode \in {"inherit", "open", "list"} : SetHostAccess(h, mode)
    BY <1>3
  <2>1. [state EXCEPT !.own[h] = mode] \in State
    BY DEF Types, State
  <2> QED
    BY <2>1 DEF SetHostAccess
<1> QED
  BY <1>1, <1>2, <1>3

\* The steps of the change running.
LEMMA OpTypes ==
  ASSUME Types, OpStep \/ OpFails
  PROVE  Types'
<1>0. /\ op \in Op /\ op.base \in State /\ op.next \in State
      /\ \A s \in Steps : [op EXCEPT !.step = s] \in Op
      /\ [op EXCEPT !.step = "geo", !.undo = TRUE] \in Op /\ NoOp \in Op
  BY EmptyTypes DEF Types, Op, Steps
<1>1. CASE WriteGeo
  <2>1. op' \in Op
    BY <1>0, <1>1 DEF WriteGeo, Steps
  <2>2. geo' \subseteq Group \cup Host
    BY <1>1, GeoType DEF WriteGeo
  <2> QED
    BY <1>1, <2>1, <2>2 DEF Types, WriteGeo, bounds
<1>2. CASE WriteAcls
  <2>1. op' \in Op
    BY <1>0, <1>2 DEF WriteAcls, Steps
  <2>2. acl' \in Files
    BY <1>0, <1>2, AclsType DEF WriteAcls
  <2> QED
    BY <1>2, <2>1, <2>2 DEF Types, WriteAcls, bounds
<1>3. CASE Reload
  <2>1. op' \in Op
    BY <1>0, <1>3 DEF Reload, EndOp, FailOp, Steps
  <2>2. running' \in [acl : Files, prot : [Host -> BOOLEAN]]
    BY <1>3 DEF Reload, LoadFiles, LeaveUnloaded, Types
  <2> QED
    BY <1>3, <2>1, <2>2 DEF Types, Reload, files, bounds
<1>4. CASE WriteState
  <2>1. op' \in Op /\ state' \in State
    BY <1>0, <1>4 DEF WriteState, EndOp
  <2> QED
    BY <1>4, <2>1 DEF Types, WriteState, files, bounds
<1>5. CASE OpFails
  <2>1. op' \in Op
    BY <1>0, <1>5 DEF OpFails, EndOp, FailOp, Steps
  <2>2. faults' \in 0 .. FaultBound
    BY <1>5 DEF OpFails, Fault, Types
  <2>3. running' = running
    BY <1>5 DEF OpFails, LeaveUnloaded
  <2> QED
    BY <1>5, <2>1, <2>2, <2>3 DEF Types, OpFails, files
<1> QED
  BY <1>1, <1>2, <1>3, <1>4, <1>5 DEF OpStep

\* What happens beside it: deleted hosts, ensureHostAclFile, reloads, restarts.
LEMMA BesideTypes ==
  ASSUME Types,
         \/ \E h \in Host : RemoveHost(h) \/ EnsureRead(h)
         \/ EnsureWrite \/ ReloadElsewhere \/ Restart
  PROVE  Types'
<1>1. CASE \E h \in Host : RemoveHost(h)
  <2> PICK h \in Host : RemoveHost(h)
    BY <1>1
  <2>1. state' \in State
    BY DEF RemoveHost, Types, State
  <2>2. acl' \in Files /\ prot' \in [Host -> BOOLEAN]
    BY DEF RemoveHost, Types, Files
  <2>3. changes' \in 0 .. ChangeBound
    BY DEF RemoveHost, Ask, Types
  <2> QED
    BY <2>1, <2>2, <2>3 DEF Types, RemoveHost
<1>2. CASE \E h \in Host : EnsureRead(h)
  <2> PICK h \in Host : EnsureRead(h)
    BY <1>2
  <2>1. ensure' \in [host : Host, seen : State]
    BY DEF EnsureRead, Types
  <2>2. changes' \in 0 .. ChangeBound
    BY DEF EnsureRead, Ask, Types
  <2> QED
    BY <2>1, <2>2 DEF Types, EnsureRead, files
<1>3. CASE EnsureWrite
  <2>1. BuildHostAcl(ensure.seen, ensure.host) \in Group \cup Host \cup {None}
    BY <1>3, AclType DEF EnsureWrite, Types
  <2>2. acl' \in Files
    BY <1>3, <2>1 DEF EnsureWrite, Types, Files
  <2> QED
    BY <1>3, <2>2 DEF Types, EnsureWrite, bounds
<1>4. CASE ReloadElsewhere
  <2>1. running' \in [acl : Files, prot : [Host -> BOOLEAN]]
    BY <1>4 DEF ReloadElsewhere, LoadFiles, Types
  <2> QED
    BY <1>4, <2>1 DEF Types, ReloadElsewhere, files, bounds
<1>5. CASE Restart
  <2>1. acl' \in Files
    BY <1>5, AclsType DEF Restart, Types
  <2>2. prot' \in [Host -> BOOLEAN]
    BY <1>5, ProtectedType DEF Restart, Types
  <2>3. running' \in [acl : Files, prot : [Host -> BOOLEAN]]
    BY <1>5, <2>1, <2>2 DEF Restart, Types
  <2>4. op' \in Op /\ job' \in [Admin \cup {Timer} -> Job]
    BY <1>5, EmptyTypes DEF Restart, EndOp
  <2>5. faults' \in 0 .. FaultBound
    BY <1>5 DEF Restart, Fault, Types
  <2>6. geo' \subseteq Group \cup Host
    BY <1>5, GeoType DEF Restart
  <2> QED
    BY <1>5, <2>1, <2>2, <2>3, <2>4, <2>5, <2>6 DEF Types, Restart
<1> QED
  BY <1>1, <1>2, <1>3, <1>4, <1>5

\* Policy changes and the timer.
LEMMA PolicyTypes ==
  ASSUME Types,
         \/ \E a \in Admin, on \in BOOLEAN : SetEnforcement(a, on)
         \/ \E h \in Host, a \in Admin, mode \in {"none", "off", "on"} : SetHostPolicy(a, h, mode)
         \/ Tick
  PROVE  Types'
<1> DEFINE Begun(next) == [NoJob EXCEPT !.step = "write", !.base = policy, !.next = next]
<1>0. /\ policy \in Policy
      /\ \A next \in Policy : Begun(next) \in Job
  BY EmptyTypes DEF Types, Job, JobSteps
<1>1. ASSUME NEW a \in Admin, NEW next \in Policy, BeginPolicy(a, next)
      PROVE  Types'
  <2>1. job' = [job EXCEPT ![a] = Begun(next)]
    BY <1>1 DEF BeginPolicy, Change
  <2> HIDE DEF Begun
  <2>2. job' \in [Admin \cup {Timer} -> Job]
    BY <2>1, <1>0 DEF Types
  <2>3. changes' \in 0 .. ChangeBound
    BY <1>1 DEF BeginPolicy, Ask, Types
  <2> QED
    BY <1>1, <2>2, <2>3 DEF Types, BeginPolicy, files
<1>2. CASE \E a \in Admin, on \in BOOLEAN : SetEnforcement(a, on)
  <2> PICK a \in Admin, on \in BOOLEAN : SetEnforcement(a, on)
    BY <1>2
  <2>1. [policy EXCEPT !.enforce = on] \in Policy
    BY <1>0 DEF Policy
  <2> QED
    BY <2>1, <1>1 DEF SetEnforcement
<1>3. CASE \E h \in Host, a \in Admin, mode \in {"none", "off", "on"} : SetHostPolicy(a, h, mode)
  <2> PICK h \in Host, a \in Admin, mode \in {"none", "off", "on"} : SetHostPolicy(a, h, mode)
    BY <1>3
  <2>1. [policy EXCEPT !.own[h] = mode] \in Policy
    BY <1>0 DEF Policy
  <2> QED
    BY <2>1, <1>1 DEF SetHostPolicy
<1>4. CASE Tick
  <2>1. [NoJob EXCEPT !.step = "look", !.next = policy] \in Job
    BY <1>0, EmptyTypes DEF Job, JobSteps
  <2>2. job' \in [Admin \cup {Timer} -> Job]
    BY <2>1, <1>4 DEF Tick, Change, Types
  <2> QED
    BY <1>4, <2>2 DEF Types, Tick, files, bounds
<1> QED
  BY <1>2, <1>3, <1>4

\* The steps of a policy change or of the timer.
LEMMA JobTypes ==
  ASSUME Types, NEW a \in Admin \cup {Timer}, JobStep(a) \/ JobFails(a)
  PROVE  Types'
<1> DEFINE j == job[a]
<1>0. j \in Job /\ NoJob \in Job /\ job \in [Admin \cup {Timer} -> Job]
  BY EmptyTypes DEF Types
<1>1. ASSUME NEW next \in Job, Change(a, next)
      PROVE  job' \in [Admin \cup {Timer} -> Job]
  BY <1>0, <1>1 DEF Change
<1>2. CASE WritePolicy(a)
  <2>1. [j EXCEPT !.step = "look"] \in Job /\ j.next \in Policy
    BY <1>0 DEF Job, JobSteps
  <2>2. job' \in [Admin \cup {Timer} -> Job] /\ policy' \in Policy
    BY <1>2, <2>1, <1>1 DEF WritePolicy
  <2> QED
    BY <1>2, <2>2 DEF Types, WritePolicy, files, bounds
<1>3. CASE Look(a)
  <2>1. [j EXCEPT !.step = "files", !.groups = state.groups, !.todo = live] \in Job
    BY <1>0 DEF Job, JobSteps, Types, State
  <2>2. job' \in [Admin \cup {Timer} -> Job]
    BY <1>3, <2>1, <1>1 DEF Look
  <2> QED
    BY <1>3, <2>2 DEF Types, Look, files, bounds
<1>4. CASE \E h \in Host : WriteProtection(a, h)
  <2> PICK h \in Host : WriteProtection(a, h)
    BY <1>4
  <2> DEFINE want == Protected(j.next, j.groups, h)
  <2>1. want \in BOOLEAN
    BY <1>0, ProtectedType DEF Job
  <2> HIDE DEF want
  <2>2. (j.changed \/ prot[h] # want) \in BOOLEAN /\ j.todo \ {h} \in SUBSET Host
    BY <1>0 DEF Job
  <2>3. [j EXCEPT !.todo = @ \ {h}, !.changed = @ \/ prot[h] # want] \in Job
    BY <1>0, <2>2 DEF Job
  <2>4. job' \in [Admin \cup {Timer} -> Job]
    BY <2>3, <1>1 DEF WriteProtection, want
  <2>5. prot' \in [Host -> BOOLEAN]
    BY <2>1 DEF WriteProtection, want, Types
  <2> QED
    BY <2>4, <2>5 DEF Types, WriteProtection, bounds
<1>s. ASSUME SyncFails(a)
      PROVE  job' \in [Admin \cup {Timer} -> Job] /\ running' = running
  <2>1. [j EXCEPT !.step = "write", !.next = j.base, !.undo = TRUE,
                  !.todo = {}, !.changed = FALSE] \in Job
    BY <1>0 DEF Job, JobSteps
  <2> QED
    BY <1>s, <2>1, <1>0, <1>1 DEF SyncFails, LeaveUnloaded
<1>5. CASE SyncDone(a)
  <2>1. job' \in [Admin \cup {Timer} -> Job]
    BY <1>5, <1>s, <1>0, <1>1 DEF SyncDone
  <2>2. running' \in [acl : Files, prot : [Host -> BOOLEAN]]
    BY <1>5, <1>s DEF SyncDone, LoadFiles, Types
  <2> QED
    BY <1>5, <2>1, <2>2 DEF Types, SyncDone, files, bounds
<1>6. CASE JobFails(a)
  <2>1. [j EXCEPT !.step = "look"] \in Job
    BY <1>0 DEF Job, JobSteps
  <2>2. job' \in [Admin \cup {Timer} -> Job]
    BY <1>6, <1>s, <2>1, <1>0, <1>1 DEF JobFails
  <2>3. faults' \in 0 .. FaultBound
    BY <1>6 DEF JobFails, Fault, Types
  <2>4. running' = running
    BY <1>6, <1>s DEF JobFails
  <2> QED
    BY <1>6, <2>2, <2>3, <2>4 DEF Types, JobFails, files
<1> QED
  BY <1>2, <1>3, <1>4, <1>5, <1>6 DEF JobStep

\* The disjuncts of Next, sorted by what they touch.
LEMMA NextCases ==
  ASSUME Next
  PROVE  \/ \E g \in Group : DeleteGroup(g)
         \/ \E g \in Group, body \in Bodies : PutGroup(g, body)
         \/ \E h \in Host, mode \in {"inherit", "open", "list"} : SetHostAccess(h, mode)
         \/ \E h \in Host : RemoveHost(h) \/ EnsureRead(h)
         \/ EnsureWrite \/ ReloadElsewhere \/ Restart
         \/ OpStep \/ OpFails
         \/ \E a \in Admin, on \in BOOLEAN : SetEnforcement(a, on)
         \/ \E h \in Host, a \in Admin, mode \in {"none", "off", "on"} : SetHostPolicy(a, h, mode)
         \/ Tick
         \/ \E a \in Admin \cup {Timer} : JobStep(a) \/ JobFails(a)
BY Zenon DEF Next

\* Every step keeps the types.
LEMMA TypesStep == ASSUME Types, [Next]_vars PROVE Types'
<1>1. CASE Next
  BY <1>1, NextCases, ChangeTypes, OpTypes, BesideTypes, PolicyTypes, JobTypes
<1>2. CASE UNCHANGED vars
  BY <1>2 DEF vars, files, bounds, Types
<1> QED
  BY <1>1, <1>2

LEMMA TypesImply == ASSUME Types PROVE TypeOK
<1>1. \A a \in Admin \cup {Timer} : job[a].next \in Policy /\ job[a].todo \subseteq Host
  BY DEF Types, Job
<1>2. op.base \in State /\ op.next \in State
  BY DEF Types, Op
<1>3. running.acl \in Files /\ running.prot \in [Host -> BOOLEAN]
  BY DEF Types
<1>4. ensure = None \/ (ensure.host \in Host /\ ensure.seen \in State)
  BY DEF Types
<1> QED
  BY <1>1, <1>2, <1>3, <1>4 DEF Types, TypeOK, Files

\* For any hosts, groups, administrators, faults and crashes: the stored state,
\* policy and files, and what the running changes hold, keep their types.
THEOREM PolicyTypesKept == Spec => []TypeOK
<1>1. Init => Types
  BY TypesInit
<1>2. Types /\ [Next]_vars => Types'
  BY TypesStep
<1>3. Types => TypeOK
  BY TypesImply
<1> QED
  BY <1>1, <1>2, <1>3, PTL DEF Spec

-----------------------------------------------------------------------------
(* One group at most *)

Disjoint(groups) ==
  \A g1, g2 \in Group : groups[g1] # None /\ groups[g2] # None =>
    g1 = g2 \/ groups[g1].hosts \cap groups[g2].hosts = {}

\* No host is in two of the groups stored, nor of those about to be.
Separate == Disjoint(state.groups) /\ Disjoint(op.next.groups)

LEMMA SeparateInit == ASSUME Init PROVE Separate
<1>1. Disjoint(Empty.groups)
  BY DEF Disjoint, Empty
<1> QED
  BY <1>1 DEF Init, NoOp, Separate

LEMMA ChangeSeparate ==
  ASSUME Types, Separate,
         \/ \E g \in Group : DeleteGroup(g)
         \/ \E g \in Group, body \in Bodies : PutGroup(g, body)
         \/ \E h \in Host, mode \in {"inherit", "open", "list"} : SetHostAccess(h, mode)
  PROVE  Separate'
<1>0. ASSUME NEW next, Apply(next), Disjoint(next.groups)
      PROVE  Separate'
  BY <1>0 DEF Apply, Separate
<1>1. CASE \E g \in Group : DeleteGroup(g)
  <2> PICK g \in Group : DeleteGroup(g)
    BY <1>1
  <2> DEFINE next == [state EXCEPT !.groups[g] = None]
  <2>1. /\ next.groups[g] = None
        /\ \A x \in Group : x # g => next.groups[x] = state.groups[x]
    BY DEF Types, State
  <2> HIDE DEF next
  <2>2. Disjoint(next.groups)
    BY <2>1 DEF Disjoint, Separate
  <2>3. Apply(next)
    BY DEF DeleteGroup, next
  <2> QED
    BY <2>2, <2>3, <1>0
<1>2. CASE \E g \in Group, body \in Bodies : PutGroup(g, body)
  <2> PICK g \in Group, body \in Bodies : PutGroup(g, body)
    BY <1>2
  <2> DEFINE gs == Moved(g, body).groups
  <2>1. \A x \in Group : gs[x] # None =>
              \/ x = g /\ gs[x] = body
              \/ x # g /\ state.groups[x] # None /\ gs[x].hosts = state.groups[x].hosts \ body.hosts
    BY MovedType
  <2> HIDE DEF gs
  <2>2. Disjoint(gs)
    <3> SUFFICES ASSUME NEW g1 \in Group, NEW g2 \in Group,
                        gs[g1] # None, gs[g2] # None, g1 # g2
                 PROVE  gs[g1].hosts \cap gs[g2].hosts = {}
      BY DEF Disjoint
    <3>1. CASE g1 = g
      BY <3>1, <2>1
    <3>2. CASE g2 = g
      BY <3>2, <2>1
    <3>3. CASE g1 # g /\ g2 # g
      BY <3>3, <2>1 DEF Separate, Disjoint
    <3> QED
      BY <3>1, <3>2, <3>3
  <2>3. Apply(Moved(g, body))
    BY DEF PutGroup, Moved
  <2> QED
    BY <2>2, <2>3, <1>0 DEF gs
<1>3. CASE \E h \in Host, mode \in {"inherit", "open", "list"} : SetHostAccess(h, mode)
  <2> PICK h \in Host, mode \in {"inherit", "open", "list"} : SetHostAccess(h, mode)
    BY <1>3
  <2>1. [state EXCEPT !.own[h] = mode].groups = state.groups
    BY DEF Types, State
  <2> QED
    BY <2>1, <1>0 DEF SetHostAccess, Separate
<1> QED
  BY <1>1, <1>2, <1>3

\* Elsewhere the stored groups change only to those of the change running.
LEMMA OthersSeparate ==
  ASSUME Types, Separate,
         \/ \E h \in Host : RemoveHost(h) \/ EnsureRead(h)
         \/ EnsureWrite \/ ReloadElsewhere \/ Restart \/ OpStep \/ OpFails
         \/ \E a \in Admin, on \in BOOLEAN : SetEnforcement(a, on)
         \/ \E h \in Host, a \in Admin, mode \in {"none", "off", "on"} : SetHostPolicy(a, h, mode)
         \/ Tick
         \/ \E a \in Admin \cup {Timer} : JobStep(a) \/ JobFails(a)
  PROVE  Separate'
<1>1. Disjoint(NoOp.next.groups)
  BY DEF Disjoint, NoOp, Empty
<1>2. CASE \E h \in Host : RemoveHost(h)
  <2> PICK h \in Host : RemoveHost(h)
    BY <1>2
  <2>1. state'.groups = state.groups /\ op' = op
    BY DEF RemoveHost, Types, State
  <2> QED
    BY <2>1 DEF Separate
<1>3. CASE OpStep \/ OpFails
  <2>1. op' = NoOp \/ op'.next = op.next
    BY <1>3 DEF OpStep, WriteGeo, WriteAcls, Reload, WriteState, OpFails, EndOp, FailOp, Types, Op
  <2>2. state' = state \/ state' = op.next
    BY <1>3 DEF OpStep, WriteGeo, WriteAcls, Reload, WriteState, OpFails
  <2> QED
    BY <1>1, <2>1, <2>2 DEF Separate
<1>4. CASE Restart
  BY <1>1, <1>4 DEF Restart, EndOp, Separate
<1>5. CASE \/ \E h \in Host : EnsureRead(h)
           \/ EnsureWrite \/ ReloadElsewhere
  BY <1>5 DEF Separate, EnsureRead, EnsureWrite, ReloadElsewhere
<1>6. CASE \/ \E a \in Admin, on \in BOOLEAN : SetEnforcement(a, on)
           \/ \E h \in Host, a \in Admin, mode \in {"none", "off", "on"} : SetHostPolicy(a, h, mode)
           \/ Tick
           \/ \E a \in Admin \cup {Timer} : JobStep(a) \/ JobFails(a)
  <2>1. UNCHANGED <<state, op>>
    BY <1>6 DEF SetEnforcement, SetHostPolicy, BeginPolicy, Tick, JobStep, JobFails, WritePolicy,
      Look, WriteProtection, SyncDone
  <2> QED
    BY <2>1 DEF Separate
<1> QED
  BY <1>2, <1>3, <1>4, <1>5, <1>6

LEMMA SeparateStep == ASSUME Types, Separate, [Next]_vars PROVE Separate'
<1>1. CASE Next
  BY <1>1, NextCases, ChangeSeparate, OthersSeparate
<1>2. CASE UNCHANGED vars
  BY <1>2 DEF vars, Separate
<1> QED
  BY <1>1, <1>2

LEMMA SeparateImplies == ASSUME Types, Separate PROVE OneGroupPerHost
<1> SUFFICES ASSUME NEW h \in Host
             PROVE  Cardinality(GroupsOf(state.groups, h)) <= 1
  BY DEF OneGroupPerHost
<1> DEFINE S == GroupsOf(state.groups, h)
<1>1. \A g1, g2 \in S : g1 = g2
  BY DEF GroupsOf, Separate, Disjoint
<1> HIDE DEF S
<1>2. CASE S = {}
  BY <1>2, FS_EmptySet DEF S
<1>3. CASE S # {}
  <2>1. PICK g \in S : S = {g}
    BY <1>1, <1>3
  <2>2. Cardinality(S) = 1
    BY <2>1, FS_Singleton
  <2> QED
    BY <2>2 DEF S
<1> QED
  BY <1>2, <1>3

\* For any hosts, groups, faults and crashes: no host is ever in two groups, so
\* that the group its access and its policy come from is one group.
THEOREM HostsInOneGroup == Spec => []OneGroupPerHost
<1>1. Init => Types /\ Separate
  BY TypesInit, SeparateInit
<1>2. Types /\ Separate /\ [Next]_vars => Types' /\ Separate'
  BY TypesStep, SeparateStep
<1>3. Types /\ Separate => OneGroupPerHost
  BY SeparateImplies
<1> QED
  BY <1>1, <1>2, <1>3, PTL DEF Spec

-----------------------------------------------------------------------------
(* ACL files *)

Says(st) == \A h \in live : acl[h] = BuildHostAcl(st, h)

\* What a change rolls back to is what is stored, only a change that is not
\* being rolled back is stored, and once its files are written they say so.
Agree ==
  /\ op.step # "idle" => op.base = state
  /\ op.step = "persist" => ~op.undo
  /\ op.step = "idle" /\ ~crossed => Says(state)
  /\ op.step \in {"reload", "persist"} /\ ~crossed => Says(IF op.undo THEN op.base ELSE op.next)

LEMMA AgreeInit == ASSUME Init PROVE Agree
<1>1. \A h \in Host : BuildHostAcl(Empty, h) = None
  BY DEF BuildHostAcl, Empty, GroupsOf
<1>2. Says(state)
  BY <1>1 DEF Init, Says
<1> QED
  BY <1>2 DEF Init, NoOp, Agree

\* The steps of the change running.
LEMMA OpAgree ==
  ASSUME Types, Agree, OpStep \/ OpFails
  PROVE  Agree'
<1>0. /\ op \in Op /\ live \subseteq Host
      /\ \A s : [op EXCEPT !.step = s].base = op.base /\ [op EXCEPT !.step = s].next = op.next
      /\ \A s : [op EXCEPT !.step = s].undo = op.undo /\ [op EXCEPT !.step = s].step = s
      /\ NoOp.step = "idle"
  BY DEF Types, Op, NoOp
<1>1. ASSUME FailOp, op.step # "idle", UNCHANGED state
      PROVE  Agree'
  <2>1. op'.step = "geo" /\ op'.base = op.base
    BY <1>0, <1>1 DEF FailOp, Op
  <2> QED
    BY <1>1, <2>1 DEF Agree
<1>2. CASE WriteGeo
  <2>1. op'.step = "acl" /\ op'.base = op.base
    BY <1>0, <1>2 DEF WriteGeo
  <2> QED
    BY <1>2, <2>1 DEF WriteGeo, Agree
<1>3. CASE WriteAcls
  <2>1. op'.step = "reload" /\ op'.base = op.base /\ op'.next = op.next /\ op'.undo = op.undo
    BY <1>0, <1>3 DEF WriteAcls
  <2>2. Says(IF op.undo THEN op.base ELSE op.next)'
    BY <1>0, <1>3, <2>1 DEF WriteAcls, Says
  <2> QED
    BY <1>3, <2>1, <2>2 DEF WriteAcls, Agree
<1>4. CASE Reload
  <2>0. UNCHANGED <<live, state, acl, crossed>>
    BY <1>4 DEF Reload, files
  <2>1. CASE op.undo
    BY <1>0, <1>4, <2>0, <2>1 DEF Reload, EndOp, Agree, Says
  <2>2. CASE ~op.undo /\ TestPasses
    <3>1. op' = [op EXCEPT !.step = "persist"]
      BY <1>4, <2>2 DEF Reload
    <3>2. op'.step = "persist" /\ op'.base = op.base /\ op'.next = op.next /\ op'.undo = op.undo
      BY <3>1, <1>0
    <3> QED
      BY <1>4, <2>0, <2>2, <3>2 DEF Reload, Agree, Says
  <2>3. CASE ~op.undo /\ ~TestPasses
    BY <1>1, <1>4, <2>0, <2>3 DEF Reload
  <2> QED
    BY <2>1, <2>2, <2>3
<1>5. CASE WriteState
  <2>1. Says(op.next) \/ crossed
    BY <1>5 DEF WriteState, Agree
  <2> QED
    BY <1>0, <1>5, <2>1 DEF WriteState, EndOp, files, history, Agree, Says
<1>6. CASE OpFails
  <2>0. UNCHANGED <<live, state, acl>> /\ op.step # "idle"
    BY <1>6 DEF OpFails, files
  <2>1. CASE FailOp
    BY <1>1, <2>0, <2>1
  <2>2. CASE op' = [op EXCEPT !.step = "reload"] /\ crossed' = TRUE
    <3>1. op'.step = "reload" /\ op'.base = op.base
      BY <1>0, <2>2
    <3> QED
      BY <2>0, <2>2, <3>1 DEF Agree
  <2>3. CASE op.undo /\ op.step = "reload" /\ EndOp /\ UNCHANGED crossed
    BY <1>0, <2>0, <2>3 DEF EndOp, Agree, Says
  <2> QED
    BY <1>6, <2>1, <2>2, <2>3 DEF OpFails
<1> QED
  BY <1>2, <1>3, <1>4, <1>5, <1>6 DEF OpStep

\* Every other step.
LEMMA OthersAgree ==
  ASSUME Types, Agree, Next, ~OpStep, ~OpFails
  PROVE  Agree'
<1>1. CASE \E next : Apply(next)
  <2>1. op'.step = "geo" /\ op'.base = state /\ state' = state
    BY <1>1 DEF Apply
  <2> QED
    BY <2>1 DEF Agree
<1>2. CASE \E h \in Host : RemoveHost(h)
  <2> PICK h \in Host : RemoveHost(h)
    BY <1>2
  <2>1. state' = [state EXCEPT !.own[h] = "inherit"] /\ state \in State /\ live \subseteq Host
    BY DEF RemoveHost, Types
  <2>2. state'.groups = state.groups /\ \A x \in Host \ {h} : state'.own[x] = state.own[x]
    BY <2>1 DEF State
  <2>3. \A x \in Host \ {h} : BuildHostAcl(state', x) = BuildHostAcl(state, x)
    BY <2>2 DEF BuildHostAcl
  <2>4. live' = live \ {h} /\ \A x \in Host \ {h} : acl'[x] = acl[x]
    BY DEF RemoveHost, Types, Files
  <2>5. Says(state) => Says(state)'
    BY <2>1, <2>3, <2>4 DEF Says
  <2> QED
    BY <2>5 DEF RemoveHost, history, Agree
<1>3. CASE EnsureWrite
  <2>1. CASE crossed' \/ op.step \in {"geo", "acl"}
    BY <1>3, <2>1 DEF EnsureWrite, Agree
  <2>2. CASE ~crossed' /\ op.step \notin {"geo", "acl"}
    <3>1. ensure.seen = state /\ op.step = "idle" /\ ~crossed
      BY <1>3, <2>2 DEF EnsureWrite
    <3>2. acl' = [acl EXCEPT ![ensure.host] = BuildHostAcl(state, ensure.host)]
      BY <1>3, <3>1 DEF EnsureWrite
    <3>3. Says(state)
      BY <3>1 DEF Agree
    <3>4. Says(state)'
      BY <1>3, <3>2, <3>3 DEF Says, EnsureWrite, Types, Files
    <3> QED
      BY <1>3, <3>1, <3>4 DEF EnsureWrite, Agree
  <2> QED
    BY <2>1, <2>2
<1>4. CASE Restart
  <2>1. Says(state)'
    BY <1>4 DEF Restart, Says, Types
  <2>2. op'.step = "idle"
    BY <1>4 DEF Restart, EndOp, NoOp
  <2> QED
    BY <2>1, <2>2 DEF Agree
<1>5. CASE \/ \E h \in Host : EnsureRead(h)
           \/ ReloadElsewhere
  BY <1>5 DEF Agree, Says, EnsureRead, ReloadElsewhere, files, history
<1>6. CASE \/ \E a \in Admin, on \in BOOLEAN : SetEnforcement(a, on)
           \/ \E h \in Host, a \in Admin, mode \in {"none", "off", "on"} : SetHostPolicy(a, h, mode)
           \/ Tick
           \/ \E a \in Admin \cup {Timer} : JobStep(a) \/ JobFails(a)
  <2>1. UNCHANGED <<live, state, acl, op, crossed>>
    BY <1>6 DEF SetEnforcement, SetHostPolicy, BeginPolicy, Tick, JobStep, JobFails, WritePolicy,
      Look, WriteProtection, SyncDone, SyncFails, files, history
  <2> QED
    BY <2>1 DEF Agree, Says
<1>7. CASE \/ \E g \in Group : DeleteGroup(g)
           \/ \E g \in Group, body \in Bodies : PutGroup(g, body)
           \/ \E h \in Host, mode \in {"inherit", "open", "list"} : SetHostAccess(h, mode)
  BY <1>1, <1>7, ChangeTypes
<1> QED
  BY <1>2, <1>3, <1>4, <1>5, <1>6, <1>7, NextCases

LEMMA AgreeStep == ASSUME Types, Agree, [Next]_vars PROVE Agree'
<1>1. CASE Next
  BY <1>1, OpAgree, OthersAgree
<1>2. CASE UNCHANGED vars
  BY <1>2 DEF vars, files, history, Agree, Says
<1> QED
  BY <1>1, <1>2

\* For any hosts, groups, faults and crashes: between changes the ACL files say
\* what is stored, unless a write outside the queue crossed a change or a change
\* could not be undone.
THEOREM AclsFollowState == Spec => []AclFollowsState
<1>1. Init => Types /\ Agree
  BY TypesInit, AgreeInit
<1>2. Types /\ Agree /\ [Next]_vars => Types' /\ Agree'
  BY TypesStep, AgreeStep
<1>3. Agree => AclFollowsState
  BY DEF Agree, Says, AclFollowsState
<1> QED
  BY <1>1, <1>2, <1>3, PTL DEF Spec
=============================================================================
