--------------------- MODULE StoreAndCertificatesProofs ---------------------
(***************************************************************************)
(* What is left when one of several steps fails.  ResponseStore, for every *)
(* set of records and addresses: the types and the emergency bypass hold   *)
(* whatever processes share the store; that a rollback is transactional is *)
(* proved for one process until it dies, at most one failing step; the rest *)
(* for one process, out of the bypass, and any failures: it is false with  *)
(* two, whose chains do not exclude each other.  Certificates, for any     *)
(* number of certificates, requests, failing steps and restarts: no row is *)
(* ahead of its file.                                                      *)
(***************************************************************************)
EXTENDS ResponseStore, Certificates, SequenceTheorems, TLAPS

-----------------------------------------------------------------------------
\* Types, whatever processes share the store

USE BackendAssumption, TargetAssumption, NoticeAssumption, BypassAssumption, BoundAssumption

\* An operation runs only while it is the head of the chain.
BusyInv == \A p \in Process : pc[p] \notin {"down", "idle"} => queue[p] # <<>>

\* The head of a chain that is not empty is an operation.
LEMMA RunningIsOperation ==
  ASSUME TypeOK, NEW p \in Process, queue[p] # <<>>
  PROVE  Running(p) \in Operation /\ Tail(queue[p]) \in Seq(Operation)
  <1>1. queue[p] \in Seq(Operation)
    BY DEF TypeOK
  <1> QED
    BY <1>1, HeadTailProperties DEF Running

\* A request that joins a chain keeps the types.
LEMMA ChainTypes ==
  ASSUME TypeOK, BusyInv, NEW p \in Process, NEW op \in Operation, Chain(p, op),
         issued' \subseteq Response
  PROVE  TypeOK' /\ BusyInv'
  <1>0. queue[p] \in Seq(Operation)
    BY DEF TypeOK
  <1>1. Append(queue[p], op) \in Seq(Operation) /\ Append(queue[p], op) # <<>>
    BY <1>0, AppendProperties
  <1> QED
    BY <1>1 DEF TypeOK, BusyInv, Chain, storage

ControlTypes ==
  /\ queue \in [Process -> Seq(Operation)]
  /\ pc \in [Process -> Steps]
  /\ undoing \in [Process -> BOOLEAN]
  /\ BusyInv

\* An operation that leaves the chain keeps the types of the control state.
LEMMA FinishTypes ==
  ASSUME TypeOK, BusyInv, NEW p \in Process, queue[p] # <<>>, Finish(p)
  PROVE  ControlTypes'
  <1>1. Tail(queue[p]) \in Seq(Operation)
    BY RunningIsOperation
  <1> QED
    BY <1>1 DEF ControlTypes, TypeOK, BusyInv, Finish, Steps

\* So does the return of applyBlockConfig.
LEMMA AppliedTypes ==
  ASSUME TypeOK, BusyInv, NEW p \in Process, queue[p] # <<>>, Applied(p)
  PROVE  ControlTypes'
  <1>1. CASE Finish(p)
    BY <1>1, FinishTypes
  <1>2. CASE pc' = [pc EXCEPT ![p] = "persist"] /\ UNCHANGED <<queue, undoing>>
    BY <1>2 DEF ControlTypes, TypeOK, BusyInv, Steps
  <1> QED
    BY <1>1, <1>2 DEF Applied

\* And a step that throws.
LEMMA FaultTypes ==
  ASSUME TypeOK, NEW p \in Process, Fault(p)
  PROVE  faults' \in [Process -> Nat]
  BY DEF TypeOK, Fault

\* Every step of an operation keeps the types.
LEMMA OperateTypes ==
  ASSUME TypeOK, BusyInv, NEW p \in Process, Operate(p)
  PROVE  TypeOK' /\ BusyInv'
  <1>0. queue[p] # <<>>
    BY DEF Operate, Begin, NothingToDo, AddBlock, RemoveBlock, Apply, Reload, Restore,
           ReloadAgain, Persist, BusyInv
  <1>1. Running(p) \in Operation /\ Tail(queue[p]) \in Seq(Operation)
    BY <1>0, RunningIsOperation
  <1>2. CASE Begin(p)
    BY <1>1, <1>2 DEF TypeOK, BusyInv, Begin, storage, history, Active, Steps
  <1>3. CASE NothingToDo(p)
    BY <1>1, <1>3 DEF TypeOK, BusyInv, NothingToDo, Finish, storage, history, Steps
  <1>4. CASE AddBlock(p)
    <2>1. Running(p).id \in Response
      BY <1>1, <1>4 DEF AddBlock, Operation, Purge, Sync
    <2> QED
      BY <2>1, <1>4 DEF TypeOK, BusyInv, AddBlock, storage, Steps
  <1>5. CASE RemoveBlock(p)
    BY <1>1, <1>5 DEF TypeOK, BusyInv, RemoveBlock, storage, Steps
  <1>6. CASE Apply(p)
    <2> DEFINE next == Render(IF undoing[p] THEN base[p] ELSE goal[p])
    <2>1. next \subseteq Line
      BY DEF TypeOK, Render, Active, Line
    <2>2. /\ conf' \subseteq Line
          /\ was' \in [Process -> SUBSET Line]
      BY <1>6, <2>1 DEF TypeOK, Apply
    <2>3. ControlTypes' /\ faults' \in [Process -> Nat]
      <3>1. CASE Applied(p) /\ UNCHANGED faults
        BY <1>0, <3>1, AppliedTypes DEF TypeOK
      <3>2. CASE pc' = [pc EXCEPT ![p] = "reload"] /\ UNCHANGED <<queue, undoing, faults>>
        BY <1>0, <3>2 DEF ControlTypes, TypeOK, BusyInv, Steps
      <3>3. CASE Fault(p) /\ Finish(p)
        BY <1>0, <3>3, FinishTypes, FaultTypes
      <3> QED
        BY <1>6, <3>1, <3>2, <3>3 DEF Apply
    <2> QED
      BY <1>6, <2>2, <2>3 DEF TypeOK, ControlTypes, Apply, history
  <1>7. CASE Reload(p)
    <2>1. ControlTypes' /\ faults' \in [Process -> Nat]
      <3>1. CASE Applied(p) /\ UNCHANGED faults
        BY <1>0, <3>1, AppliedTypes DEF TypeOK
      <3>2. CASE Fault(p) /\ pc' = [pc EXCEPT ![p] = "restore"] /\ UNCHANGED <<queue, undoing>>
        BY <1>0, <3>2, FaultTypes DEF ControlTypes, TypeOK, BusyInv, Steps
      <3> QED
        BY <1>7, <3>1, <3>2 DEF Reload
    <2> QED
      BY <1>7, <2>1 DEF TypeOK, ControlTypes, Reload, history
  <1>8. CASE Restore(p)
    <2>1. ControlTypes' /\ faults' \in [Process -> Nat]
      <3>1. CASE pc' = [pc EXCEPT ![p] = "again"] /\ UNCHANGED <<queue, undoing, faults>>
        BY <1>0, <3>1 DEF ControlTypes, TypeOK, BusyInv, Steps
      <3>2. CASE Fault(p) /\ Finish(p)
        BY <1>0, <3>2, FinishTypes, FaultTypes
      <3> QED
        BY <1>8, <3>1, <3>2 DEF Restore
    <2> QED
      BY <1>8, <2>1 DEF TypeOK, ControlTypes, Restore, history
  <1>9. CASE ReloadAgain(p)
    <2>1. ControlTypes'
      BY <1>0, <1>9, FinishTypes DEF ReloadAgain
    <2> QED
      BY <1>9, <2>1 DEF TypeOK, ControlTypes, ReloadAgain, history
  <1>10. CASE Persist(p)
    <2>1. ControlTypes' /\ faults' \in [Process -> Nat]
      <3>1. CASE Finish(p) /\ UNCHANGED faults
        BY <1>0, <3>1, FinishTypes DEF TypeOK
      <3>2. CASE pc' = [pc EXCEPT ![p] = "main"] /\ UNCHANGED <<queue, undoing, faults>>
        BY <1>0, <3>2 DEF ControlTypes, TypeOK, BusyInv, Steps
      <3>3. CASE /\ Fault(p) /\ UNCHANGED queue
                 /\ undoing' = [undoing EXCEPT ![p] = TRUE]
                 /\ pc' = [pc EXCEPT ![p] = "apply"]
        BY <1>0, <3>3, FaultTypes DEF ControlTypes, TypeOK, BusyInv, Steps
      <3> QED
        BY <1>10, <3>1, <3>2, <3>3 DEF Persist
    <2>2. added' \subseteq Response /\ removed' \subseteq Response
      BY <1>1, <1>10 DEF TypeOK, Persist, Acknowledge, Operation, Purge, Sync
    <2>3. /\ blocks' \subseteq Response
          /\ stage' \in [Process -> {"purge", "main"}]
          /\ base' \in [Process -> SUBSET Response]
      BY <1>10 DEF TypeOK, Persist
    <2> QED
      BY <1>10, <2>1, <2>2, <2>3 DEF TypeOK, ControlTypes, Persist
  <1> QED
    BY <1>2, <1>3, <1>4, <1>5, <1>6, <1>7, <1>8, <1>9, <1>10 DEF Operate

\* Every step of the system keeps the types.
LEMMA NextTypes == TypeOK /\ BusyInv /\ [Next]_vars => TypeOK' /\ BusyInv'
  <1> SUFFICES ASSUME TypeOK, BusyInv, [Next]_vars
               PROVE  TypeOK' /\ BusyInv'
    OBVIOUS
  <1>1. CASE UNCHANGED vars
    BY <1>1 DEF TypeOK, BusyInv, vars, storage, process, history
  <1>2. ASSUME NEW p \in Process, RequestPurge(p)
        PROVE  TypeOK' /\ BusyInv'
    BY <1>2, ChainTypes DEF RequestPurge, TypeOK, Operation
  <1>3. ASSUME NEW p \in Process, NEW r \in Response, RequestAdd(p, r) \/ RequestRemove(p, r)
        PROVE  TypeOK' /\ BusyInv'
    BY <1>3, ChainTypes DEF RequestAdd, RequestRemove, TypeOK, Operation
  <1>4. ASSUME NEW p \in Process, Operate(p)
        PROVE  TypeOK' /\ BusyInv'
    BY <1>4, OperateTypes
  <1>5. ASSUME NEW p \in Process, Crash(p)
        PROVE  TypeOK' /\ BusyInv'
    <2>1. calm' \in BOOLEAN
      BY <1>5 DEF Crash
    <2> QED
      BY <1>5, <2>1 DEF TypeOK, BusyInv, Crash, storage, Steps
  <1>6. ASSUME NEW p \in Process, Start(p)
        PROVE  TypeOK' /\ BusyInv'
    <2>1. <<Sync>> \in Seq(Operation) /\ <<>> \in Seq(Operation)
      BY DEF Operation
    <2> QED
      BY <1>6, <2>1 DEF TypeOK, BusyInv, Start, storage, history, Steps
  <1>7. ASSUME NEW r \in Response, Expire(r)
        PROVE  TypeOK' /\ BusyInv'
    BY <1>7 DEF TypeOK, BusyInv, Expire, storage, process, history
  <1>8. CASE RestartContainer
    <2>1. calm' \in BOOLEAN
      BY <1>8 DEF RestartContainer
    <2> QED
      BY <1>8, <2>1 DEF TypeOK, BusyInv, RestartContainer, Steps
  <1> QED
    BY <1>1, <1>2, <1>3, <1>4, <1>5, <1>6, <1>7, <1>8 DEF Next

\* Whatever processes share the store, every variable keeps its type and a
\* process runs an operation only while it is the head of its own chain
\* (withSecurityConfigMutation).
THEOREM TypeCorrect == Spec => [](TypeOK /\ BusyInv)
  <1>1. Init => TypeOK /\ BusyInv
    BY DEF Init, TypeOK, BusyInv, Steps, Line, Operation
  <1> QED
    BY <1>1, NextTypes, PTL DEF Spec

-----------------------------------------------------------------------------
\* One process, no bypass

\* The backend alone writes the store.
Alone == Process = {Backend} /\ BypassModes = {FALSE}

InCommit == {"apply", "reload", "restore", "again", "persist"}

\* Acknowledged, not expired, and nobody has started to remove it.
Owed == added \ (expired \cup lifting)

\* Everything stored or enforced is a record somebody made.
RecordsInv ==
  /\ blocks \subseteq created /\ conf \subseteq created /\ nginx \subseteq created
  /\ added \subseteq created /\ removed \subseteq created

OwedInv ==
  /\ Owed \subseteq blocks /\ Owed \subseteq conf /\ Owed \subseteq nginx
  /\ removed \cap blocks = {}

\* The undoing of a commit is over when its operation is.
UndoInv ==
  pc[Backend] \in {"down", "idle", "main", "persist"} => ~undoing[Backend]

\* The list read at the start of the operation is still the one on disk, and
\* the list to commit differs from it by the running operation alone.
CommitInv ==
  LET op == Running(Backend)
      from == base[Backend]
      to == goal[Backend]
  IN
  /\ pc[Backend] \in InCommit \cup {"main"} => from = blocks
  /\ pc[Backend] = "main" => stage[Backend] = "main"
  /\ pc[Backend] \in InCommit =>
       /\ to \subseteq created /\ Owed \subseteq to /\ removed \cap to = {}
       /\ stage[Backend] = "purge" => to \subseteq from /\ from \ to \subseteq expired
       /\ stage[Backend] = "main" =>
            \/ /\ op.kind = "add" /\ op.id \notin from /\ to = from \cup {op.id}
               /\ op.id \in Response
               /\ \A b \in from : TargetOf[b] # TargetOf[op.id]
            \/ op.kind = "remove" /\ op.id \in from /\ to = from \ {op.id}
            \/ op.kind = "sync" /\ to = from

\* How far the include and Nginx have come at each step of a commit.
ProgressInv ==
  LET from == base[Backend]
      to == goal[Backend]
  IN
  /\ pc[Backend] \in {"reload", "restore"} =>
       Owed \subseteq was[Backend] /\ was[Backend] \subseteq created
  /\ pc[Backend] = "apply" /\ ~undoing[Backend] => (to \ from) \cap conf = {}
  /\ pc[Backend] = "reload" /\ ~undoing[Backend] => to \ expired \subseteq conf
  /\ pc[Backend] = "persist" =>
       /\ to \ expired \subseteq conf
       /\ to \ from \subseteq nginx \cup expired
       /\ stage[Backend] = "main" => Running(Backend).kind # "sync"

IInv ==
  /\ TypeOK /\ BusyInv /\ ~bypass
  /\ RecordsInv /\ OwedInv /\ UndoInv /\ CommitInv /\ ProgressInv

\* The invariant holds before the first start.
LEMMA InitInv == Alone /\ Init => IInv
  BY DEF Alone, Init, IInv, TypeOK, BusyInv, RecordsInv, OwedInv, UndoInv, CommitInv, ProgressInv,
         Owed, InCommit, Steps, Line, Operation

\* The start of an operation keeps the invariant.
LEMMA BeginInv ==
  ASSUME Alone, IInv, TypeOK', BusyInv', Begin(Backend)
  PROVE  IInv'
  <1> USE DEF Begin, IInv, Active, storage, history
  <1>1. RecordsInv' /\ OwedInv' /\ UndoInv' /\ ~bypass'
    BY DEF RecordsInv, OwedInv, UndoInv, Owed, TypeOK
  <1>2. CommitInv'
    BY DEF CommitInv, RecordsInv, OwedInv, Owed, TypeOK, InCommit, Running, Sync
  <1>3. ProgressInv'
    BY DEF ProgressInv, UndoInv, TypeOK
  <1> QED
    BY <1>1, <1>2, <1>3

\* An operation that joins the chain does not change the one that runs.
LEMMA ChainInv ==
  ASSUME Alone, IInv, TypeOK', BusyInv', NEW op \in Operation, Chain(Backend, op)
  PROVE  IInv'
  <1> USE DEF IInv
  <1>1. ASSUME pc[Backend] \notin {"down", "idle"}
        PROVE  Running(Backend)' = Running(Backend)
    <2>1. queue[Backend] \in Seq(Operation) /\ queue[Backend] # <<>>
      BY <1>1 DEF BusyInv, TypeOK
    <2>2. Head(Append(queue[Backend], op)) = Head(queue[Backend])
      BY <2>1
    <2>3. queue'[Backend] = Append(queue[Backend], op)
      BY DEF Chain, TypeOK
    <2> QED
      BY <2>2, <2>3 DEF Running
  <1>2. RecordsInv' /\ OwedInv' /\ UndoInv' /\ ~bypass'
    BY DEF Chain, storage, RecordsInv, OwedInv, UndoInv, Owed
  <1>3. CommitInv'
    BY <1>1 DEF Chain, storage, CommitInv, Owed, InCommit
  <1>4. ProgressInv'
    BY <1>1 DEF Chain, storage, ProgressInv, Owed
  <1> QED
    BY <1>2, <1>3, <1>4

\* An operation with nothing to commit keeps it.
LEMMA NothingToDoInv ==
  ASSUME Alone, IInv, TypeOK', BusyInv', NothingToDo(Backend)
  PROVE  IInv'
  BY DEF IInv, NothingToDo, Finish, storage, history, TypeOK,
         RecordsInv, OwedInv, UndoInv, CommitInv, ProgressInv, Owed, InCommit

\* addBlockUnsafe's decision on its new list keeps it.
LEMMA AddBlockInv ==
  ASSUME Alone, IInv, TypeOK', BusyInv', AddBlock(Backend)
  PROVE  IInv'
  <1> USE DEF IInv, AddBlock, storage
  <1>0. Running(Backend) \in Operation /\ Running(Backend)' = Running(Backend)
    BY RunningIsOperation DEF BusyInv, Running
  <1>1. Running(Backend).id \in Response
    BY <1>0 DEF Operation, Purge, Sync
  <1>2. RecordsInv' /\ OwedInv' /\ UndoInv' /\ ~bypass'
    BY DEF RecordsInv, OwedInv, UndoInv, Owed, TypeOK
  <1>3. CommitInv'
    BY <1>0, <1>1 DEF CommitInv, RecordsInv, OwedInv, Owed, InCommit, TypeOK
  <1>4. ProgressInv'
    BY <1>0 DEF ProgressInv, CommitInv, RecordsInv, TypeOK
  <1> QED
    BY <1>2, <1>3, <1>4

\* unblockIp's decision on its new list keeps it.
LEMMA RemoveBlockInv ==
  ASSUME Alone, IInv, TypeOK', BusyInv', RemoveBlock(Backend)
  PROVE  IInv'
  <1> USE DEF IInv, RemoveBlock, storage
  <1>0. Running(Backend)' = Running(Backend)
    BY DEF Running
  <1>2. RecordsInv' /\ OwedInv' /\ UndoInv' /\ ~bypass'
    BY DEF RecordsInv, OwedInv, UndoInv, Owed, TypeOK
  <1>3. CommitInv'
    BY <1>0 DEF CommitInv, RecordsInv, OwedInv, Owed, InCommit, TypeOK
  <1>4. ProgressInv'
    BY <1>0 DEF ProgressInv, CommitInv, TypeOK
  <1> QED
    BY <1>2, <1>3, <1>4

\* An operation that leaves the chain keeps the invariant, whatever it threw.
LEMMA FinishInv ==
  ASSUME Alone, IInv, TypeOK', BusyInv', Finish(Backend), UNCHANGED <<bypass, expired, history>>,
         RecordsInv', OwedInv'
  PROVE  IInv'
  BY DEF IInv, Finish, TypeOK, UndoInv, CommitInv, ProgressInv, InCommit

\* applyBlockConfig's write of the include keeps it.
LEMMA ApplyInv ==
  ASSUME Alone, IInv, TypeOK', BusyInv', Apply(Backend)
  PROVE  IInv'
  <1> DEFINE target == IF undoing[Backend] THEN base[Backend] ELSE goal[Backend]
             next == Render(target)
  <1>0. /\ pc[Backend] = "apply" /\ UNCHANGED <<blocks, nginx, expired, bypass, stage, base, goal, history>>
        /\ target \subseteq created /\ Owed \subseteq target
        /\ next = target \ expired
    BY DEF Apply, IInv, CommitInv, RecordsInv, OwedInv, InCommit, Render, Active
  <1>1. Owed \subseteq next /\ next \subseteq created
    BY <1>0 DEF Owed
  <1>2. RecordsInv' /\ OwedInv' /\ ~bypass'
    BY <1>0, <1>1 DEF Apply, IInv, RecordsInv, OwedInv, Owed, history
  <1>3. CASE Finish(Backend)
    BY <1>0, <1>2, <1>3, FinishInv
  <1>4. CASE conf = next /\ ~Finish(Backend) /\ UNCHANGED <<conf, was>>
    <2>1. /\ ~undoing[Backend]
          /\ stage[Backend] = "main" => Running(Backend).kind # "sync"
          /\ pc' = [pc EXCEPT ![Backend] = "persist"] /\ UNCHANGED <<queue, undoing>>
      BY <1>0, <1>4 DEF Apply, Applied, Fault, IInv, TypeOK
    <2>2. Running(Backend)' = Running(Backend)
      BY <2>1 DEF Running
    <2>3. CommitInv' /\ UndoInv'
      BY <1>0, <2>1, <2>2 DEF IInv, TypeOK, CommitInv, UndoInv, InCommit, Owed, history
    <2>4. ProgressInv'
      BY <1>0, <1>4, <2>1, <2>2 DEF IInv, TypeOK, ProgressInv
    <2> QED
      BY <1>2, <2>3, <2>4 DEF IInv
  <1>5. CASE /\ was' = [was EXCEPT ![Backend] = conf] /\ conf' = next
             /\ pc' = [pc EXCEPT ![Backend] = "reload"] /\ UNCHANGED <<queue, undoing, faults>>
    <2>1. Running(Backend)' = Running(Backend)
      BY <1>5 DEF Running
    <2>2. CommitInv' /\ UndoInv'
      BY <1>0, <1>5, <2>1 DEF IInv, TypeOK, CommitInv, UndoInv, InCommit, Owed, history
    <2>3. ProgressInv'
      BY <1>0, <1>5, <2>1 DEF IInv, TypeOK, ProgressInv, RecordsInv, OwedInv, Owed, history
    <2> QED
      BY <1>2, <2>2, <2>3 DEF IInv
  <1> QED
    BY <1>3, <1>4, <1>5 DEF Apply

\* The reload, done or failed, keeps it.
LEMMA ReloadInv ==
  ASSUME Alone, IInv, TypeOK', BusyInv', Reload(Backend)
  PROVE  IInv'
  <1>0. /\ pc[Backend] = "reload"
        /\ UNCHANGED <<blocks, conf, expired, bypass, stage, base, goal, was, history>>
    BY DEF Reload
  <1>1. nginx' = conf \/ nginx' = nginx
    BY DEF Reload
  <1>2. RecordsInv' /\ OwedInv' /\ ~bypass'
    BY <1>0, <1>1 DEF IInv, RecordsInv, OwedInv, Owed, history
  <1>3. CASE Finish(Backend)
    BY <1>0, <1>2, <1>3, FinishInv
  <1>4. CASE nginx' = conf /\ Applied(Backend) /\ ~Finish(Backend)
    <2>1. /\ ~undoing[Backend]
          /\ stage[Backend] = "main" => Running(Backend).kind # "sync"
          /\ pc' = [pc EXCEPT ![Backend] = "persist"] /\ UNCHANGED <<queue, undoing>>
      BY <1>4 DEF Applied, IInv, TypeOK
    <2>2. Running(Backend)' = Running(Backend)
      BY <2>1 DEF Running
    <2>3. CommitInv' /\ UndoInv'
      BY <1>0, <2>1, <2>2 DEF IInv, TypeOK, CommitInv, UndoInv, InCommit, Owed, history
    <2>4. ProgressInv'
      BY <1>0, <1>4, <2>1, <2>2 DEF IInv, TypeOK, ProgressInv
    <2> QED
      BY <1>2, <2>3, <2>4 DEF IInv
  <1>5. CASE pc' = [pc EXCEPT ![Backend] = "restore"] /\ UNCHANGED <<nginx, queue, undoing>>
    <2>1. Running(Backend)' = Running(Backend)
      BY <1>5 DEF Running
    <2>2. CommitInv' /\ UndoInv' /\ ProgressInv'
      BY <1>0, <1>5, <2>1 DEF IInv, TypeOK, CommitInv, UndoInv, ProgressInv, InCommit, Owed, history
    <2> QED
      BY <1>2, <2>2 DEF IInv
  <1> QED
    BY <1>3, <1>4, <1>5 DEF Reload

\* Writing the previous text back keeps it.
LEMMA RestoreInv ==
  ASSUME Alone, IInv, TypeOK', BusyInv', Restore(Backend)
  PROVE  IInv'
  <1>0. /\ pc[Backend] = "restore"
        /\ UNCHANGED <<blocks, nginx, expired, bypass, stage, base, goal, was, history>>
        /\ conf' = conf \/ conf' = was[Backend]
    BY DEF Restore
  <1>1. RecordsInv' /\ OwedInv' /\ ~bypass'
    BY <1>0 DEF IInv, RecordsInv, OwedInv, ProgressInv, Owed, history
  <1>2. CASE Finish(Backend)
    BY <1>0, <1>1, <1>2, FinishInv
  <1>3. CASE pc' = [pc EXCEPT ![Backend] = "again"] /\ UNCHANGED <<queue, undoing>>
    <2>1. Running(Backend)' = Running(Backend)
      BY <1>3 DEF Running
    <2>2. CommitInv' /\ UndoInv' /\ ProgressInv'
      BY <1>0, <1>3, <2>1 DEF IInv, TypeOK, CommitInv, UndoInv, ProgressInv, InCommit, Owed, history
    <2> QED
      BY <1>1, <2>2 DEF IInv
  <1> QED
    BY <1>2, <1>3 DEF Restore

\* The reload after that, whatever comes of it, keeps it.
LEMMA ReloadAgainInv ==
  ASSUME Alone, IInv, TypeOK', BusyInv', ReloadAgain(Backend)
  PROVE  IInv'
  <1>1. RecordsInv' /\ OwedInv'
    BY DEF ReloadAgain, IInv, RecordsInv, OwedInv, Owed, history
  <1> QED
    BY <1>1, FinishInv DEF ReloadAgain

\* The write of the list: what it makes durable was loaded before.
LEMMA PersistInv ==
  ASSUME Alone, IInv, TypeOK', BusyInv', Persist(Backend)
  PROVE  IInv'
  <1> DEFINE op == Running(Backend)
  <1>0. /\ pc[Backend] = "persist" /\ ~undoing[Backend]
        /\ UNCHANGED <<conf, nginx, expired, bypass, goal, was, issued, created, lifting>>
    BY DEF Persist, IInv, UndoInv
  <1>1. CASE /\ blocks' = goal[Backend]
             /\ IF stage[Backend] = "purge" /\ op.kind \in {"add", "remove"}
                THEN /\ stage' = [stage EXCEPT ![Backend] = "main"]
                     /\ base' = [base EXCEPT ![Backend] = goal[Backend]]
                     /\ pc' = [pc EXCEPT ![Backend] = "main"]
                     /\ UNCHANGED <<queue, undoing, added, removed>>
                ELSE Finish(Backend) /\ Acknowledge(Backend) /\ UNCHANGED <<stage, base>>
    <2>1. /\ goal[Backend] \subseteq created /\ Owed \subseteq goal[Backend]
          /\ removed \cap goal[Backend] = {}
          /\ goal[Backend] \ expired \subseteq conf
          /\ goal[Backend] \ base[Backend] \subseteq nginx \cup expired
          /\ base[Backend] = blocks
      BY <1>0 DEF IInv, CommitInv, ProgressInv, InCommit
    <2>2. CASE stage[Backend] = "purge" /\ op.kind \in {"add", "remove"}
      <3>1. /\ stage' = [stage EXCEPT ![Backend] = "main"]
            /\ base' = [base EXCEPT ![Backend] = goal[Backend]]
            /\ pc' = [pc EXCEPT ![Backend] = "main"]
            /\ UNCHANGED <<queue, undoing, added, removed>>
        BY <1>1, <2>2
      <3>2. RecordsInv' /\ OwedInv' /\ ~bypass'
        BY <1>0, <1>1, <2>1, <3>1 DEF IInv, RecordsInv, OwedInv, Owed
      <3>3. UndoInv' /\ CommitInv' /\ ProgressInv'
        BY <1>0, <1>1, <3>1 DEF IInv, TypeOK, UndoInv, CommitInv, ProgressInv, InCommit
      <3> QED
        BY <3>2, <3>3 DEF IInv
    <2>3. CASE ~(stage[Backend] = "purge" /\ op.kind \in {"add", "remove"})
      <3>1. Finish(Backend) /\ Acknowledge(Backend) /\ UNCHANGED <<stage, base>>
        BY <1>1, <2>3
      <3>2. /\ op.kind = "add" => op.id \in goal[Backend] \ base[Backend]
            /\ op.kind = "remove" => op.id \notin goal[Backend] /\ op.id \in created
        BY <1>0, <2>3 DEF IInv, CommitInv, RecordsInv, InCommit, TypeOK
      <3>3. RecordsInv' /\ OwedInv' /\ ~bypass'
        BY <1>0, <1>1, <2>1, <3>1, <3>2
        DEF Acknowledge, IInv, RecordsInv, OwedInv, Owed
      <3>4. UndoInv' /\ CommitInv' /\ ProgressInv'
        BY <1>0, <3>1 DEF Finish, IInv, TypeOK, UndoInv, CommitInv, ProgressInv, InCommit
      <3> QED
        BY <3>3, <3>4 DEF IInv
    <2> QED
      BY <2>2, <2>3
  <1>2. CASE /\ undoing' = [undoing EXCEPT ![Backend] = TRUE]
             /\ pc' = [pc EXCEPT ![Backend] = "apply"]
             /\ UNCHANGED <<blocks, queue, stage, base, added, removed>>
    <2>1. Running(Backend)' = Running(Backend)
      BY <1>2 DEF Running
    <2>2. RecordsInv' /\ OwedInv' /\ ~bypass'
      BY <1>0, <1>2 DEF IInv, RecordsInv, OwedInv, Owed
    <2>3. UndoInv' /\ CommitInv' /\ ProgressInv'
      BY <1>0, <1>2, <2>1 DEF IInv, TypeOK, UndoInv, CommitInv, ProgressInv, InCommit, Owed
    <2> QED
      BY <2>2, <2>3 DEF IInv
  <1> QED
    BY <1>0, <1>1, <1>2 DEF Persist

\* Crashes, starts and container restarts keep it.
LEMMA RestartInv ==
  ASSUME Alone, IInv, TypeOK', BusyInv', Crash(Backend) \/ Start(Backend) \/ RestartContainer
  PROVE  IInv'
  <1>1. pc'[Backend] \in {"down", "idle"} /\ ~undoing'[Backend]
    <2>1. CASE Crash(Backend)
      BY <2>1 DEF Crash, IInv, TypeOK
    <2>2. CASE Start(Backend)
      BY <2>2 DEF Start, IInv, TypeOK, UndoInv
    <2>3. CASE RestartContainer
      BY <2>3 DEF RestartContainer
    <2> QED
      BY <2>1, <2>2, <2>3
  <1>2. bypass' = FALSE /\ conf' = conf /\ (nginx' = nginx \/ nginx' = conf)
        /\ UNCHANGED <<blocks, expired, issued, created, lifting, added, removed>>
    <2>1. CASE Crash(Backend)
      BY <2>1 DEF Crash, IInv, TypeOK, storage
    <2>2. CASE Start(Backend)
      BY <2>2 DEF Start, IInv, TypeOK, storage, history
    <2>3. CASE RestartContainer
      BY <2>3 DEF RestartContainer, Alone
    <2> QED
      BY <2>1, <2>2, <2>3
  <1>3. RecordsInv' /\ OwedInv'
    BY <1>2 DEF IInv, RecordsInv, OwedInv, Owed
  <1> QED
    BY <1>1, <1>3, <1>2 DEF IInv, UndoInv, CommitInv, ProgressInv, InCommit

\* The passing of time keeps it.
LEMMA ExpireInv ==
  ASSUME Alone, IInv, TypeOK', BusyInv', NEW r \in Response, Expire(r)
  PROVE  IInv'
  <1> USE DEF Expire, storage, process, history, IInv
  <1>1. Running(Backend)' = Running(Backend)
    BY DEF Running
  <1>2. RecordsInv' /\ OwedInv' /\ UndoInv' /\ ~bypass'
    BY DEF RecordsInv, OwedInv, UndoInv, Owed
  <1>3. CommitInv'
    BY <1>1 DEF CommitInv, InCommit, Owed
  <1>4. ProgressInv'
    BY <1>1 DEF ProgressInv, Owed
  <1> QED
    BY <1>2, <1>3, <1>4

\* Every step of the system keeps the invariant.
LEMMA NextInv == Alone /\ IInv /\ [Next]_vars => IInv'
  <1> SUFFICES ASSUME Alone, IInv, [Next]_vars
               PROVE  IInv'
    OBVIOUS
  <1>0. TypeOK' /\ BusyInv'
    BY NextTypes DEF IInv
  <1>1. CASE UNCHANGED vars
    BY <1>1 DEF vars, storage, process, history, IInv, TypeOK, BusyInv, RecordsInv, OwedInv,
                UndoInv, CommitInv, ProgressInv, Owed, InCommit, Running
  <1>2. ASSUME NEW p \in Process, RequestPurge(p)
        PROVE  IInv'
    BY <1>0, <1>2, ChainInv DEF RequestPurge, Operation, Alone
  <1>3. ASSUME NEW p \in Process, NEW r \in Response, RequestAdd(p, r) \/ RequestRemove(p, r)
        PROVE  IInv'
    BY <1>0, <1>3, ChainInv DEF RequestAdd, RequestRemove, Operation, Alone
  <1>4. ASSUME NEW p \in Process, Operate(p)
        PROVE  IInv'
    BY <1>0, <1>4, BeginInv, NothingToDoInv, AddBlockInv, RemoveBlockInv, ApplyInv, ReloadInv,
       RestoreInv, ReloadAgainInv, PersistInv DEF Operate, Alone
  <1>5. ASSUME NEW p \in Process, Crash(p) \/ Start(p)
        PROVE  IInv'
    BY <1>0, <1>5, RestartInv DEF Alone
  <1>6. ASSUME NEW r \in Response, Expire(r)
        PROVE  IInv'
    BY <1>0, <1>6, ExpireInv
  <1>7. CASE RestartContainer
    BY <1>0, <1>7, RestartInv
  <1> QED
    BY <1>1, <1>2, <1>3, <1>4, <1>5, <1>6, <1>7 DEF Next

\* With one writing process and no bypass, the invariant always holds.
LEMMA Invariance == ASSUME Alone PROVE Spec => []IInv
  <1>1. Init => IInv
    BY InitInv
  <1>2. IInv /\ [Next]_vars => IInv'
    BY NextInv
  <1> QED
    BY <1>1, <1>2, PTL DEF Spec

\* With one process writing the store and no bypass, an acknowledged block is
\* in the configuration Nginx runs from its acknowledgement until it expires or
\* its removal starts: through every failing write and reload of applyBlockConfig
\* and commitBlockState, their undoing, and crashes and restarts at any point.
THEOREM Enforced == ASSUME Alone PROVE Spec => []EnforcedUntilLifted
  <1>1. IInv => EnforcedUntilLifted
    BY DEF IInv, OwedInv, Owed, EnforcedUntilLifted
  <1> QED
    BY <1>1, Invariance, PTL

\* Under the same assumptions blocks.json keeps every acknowledged creation
\* until expiry or removal, and every acknowledged removal for ever.
THEOREM Durable == ASSUME Alone PROVE Spec => []AcknowledgedIsDurable
  <1>1. IInv => AcknowledgedIsDurable
    BY DEF IInv, OwedInv, Owed, AcknowledgedIsDurable
  <1> QED
    BY <1>1, Invariance, PTL

\* A record enters blocks.json only when the running Nginx enforces it already.
THEOREM EnforcedFirst == ASSUME Alone PROVE Spec => EnforcedBeforeDurable
  <1>1. IInv /\ [Next]_vars => [bypass \/ blocks' \ blocks \subseteq nginx \cup expired]_vars
    <2> SUFFICES ASSUME IInv, [Next]_vars, blocks' # blocks
                 PROVE  blocks' \ blocks \subseteq nginx \cup expired
      BY DEF vars, storage
    <2>1. Persist(Backend)
      BY DEF Next, Operate, vars, storage, process, history, Alone, RequestPurge, RequestAdd,
             RequestRemove, Chain, Begin, NothingToDo, AddBlock, RemoveBlock, Apply, Reload,
             Restore, ReloadAgain, Crash, Start, Expire, RestartContainer
    <2>2. pc[Backend] = "persist" /\ blocks' = goal[Backend] /\ base[Backend] = blocks
      BY <2>1 DEF Persist, IInv, CommitInv, InCommit
    <2> QED
      BY <2>2 DEF IInv, ProgressInv
  <1> QED
    BY <1>1, Invariance, PTL DEF Spec, EnforcedBeforeDurable

\* Under the same assumptions an address has one record in blocks.json: the list that
\* addBlockUnsafe looked at is still the one on disk when its commit is written.
THEOREM OneRecord == ASSUME Alone PROVE Spec => []OneRecordPerTarget
  <1>1. Init => OneRecordPerTarget
    BY DEF Init, OneRecordPerTarget
  <1>2. IInv /\ OneRecordPerTarget /\ [Next]_vars => OneRecordPerTarget'
    <2> SUFFICES ASSUME IInv, OneRecordPerTarget, [Next]_vars, blocks' # blocks
                 PROVE  OneRecordPerTarget'
      BY DEF OneRecordPerTarget
    <2>1. Persist(Backend)
      BY DEF Next, Operate, vars, storage, process, history, Alone, RequestPurge, RequestAdd,
             RequestRemove, Chain, Begin, NothingToDo, AddBlock, RemoveBlock, Apply, Reload,
             Restore, ReloadAgain, Crash, Start, Expire, RestartContainer
    <2>2. /\ pc[Backend] = "persist" /\ blocks' = goal[Backend] /\ base[Backend] = blocks
          /\ stage[Backend] \in {"purge", "main"}
      BY <2>1 DEF Persist, IInv, CommitInv, InCommit, TypeOK
    <2>3. \/ goal[Backend] \subseteq blocks
          \/ \E r \in Response : /\ goal[Backend] = blocks \cup {r}
                                 /\ \A b \in blocks : TargetOf[b] # TargetOf[r]
      BY <2>2 DEF IInv, CommitInv, InCommit
    <2> QED
      BY <2>2, <2>3 DEF OneRecordPerTarget
  <1> QED
    BY <1>1, <1>2, Invariance, PTL DEF Spec

\* Every write of blocks.json is one whole operation of ResponseList on the list
\* that is on disk: none is lost, repeated or half done, whatever fails.
THEOREM Refinement == ASSUME Alone PROVE Spec => ImplementsList
  <1>1. Init => List!Init
    BY DEF Init, List!Init
  <1>2. IInv /\ [Next]_vars => [List!Next]_<<blocks, expired>>
    <2> SUFFICES ASSUME IInv, [Next]_vars, <<blocks, expired>>' # <<blocks, expired>>
                 PROVE  List!Next
      OBVIOUS
    <2>1. Persist(Backend) \/ \E r \in Response : Expire(r)
      BY DEF Next, Operate, vars, storage, process, history, Alone, RequestPurge, RequestAdd,
             RequestRemove, Chain, Begin, NothingToDo, AddBlock, RemoveBlock, Apply, Reload,
             Restore, ReloadAgain, Crash, Start, RestartContainer
    <2>2. CASE \E r \in Response : Expire(r)
      BY <2>2 DEF Expire, storage, List!Next, List!Expire
    <2>3. CASE Persist(Backend)
      <3> DEFINE op == Running(Backend)
                 to == goal[Backend]
      <3>1. /\ pc[Backend] = "persist" /\ UNCHANGED expired /\ base[Backend] = blocks
            /\ stage[Backend] \in {"purge", "main"}
            /\ stage[Backend] = "main" => op.kind # "sync"
        BY <2>3 DEF Persist, IInv, TypeOK, CommitInv, ProgressInv, InCommit
      <3>2. blocks' = to
        BY <2>3, <3>1 DEF Persist
      <3>3. CASE stage[Backend] = "purge"
        <4>1. to \subseteq blocks /\ blocks \ to \subseteq expired
          BY <3>1, <3>3 DEF IInv, CommitInv, InCommit
        <4>2. blocks \ to \in SUBSET (blocks \cap expired) /\ to = blocks \ (blocks \ to)
          BY <4>1
        <4> QED
          BY <3>1, <3>2, <4>2 DEF List!Next, List!Purge
      <3>4. CASE stage[Backend] = "main" /\ op.kind = "add"
        <4>1. /\ to = blocks \cup {op.id} /\ op.id \in Response
              /\ \A b \in blocks : TargetOf[b] # TargetOf[op.id]
          BY <3>1, <3>4 DEF IInv, CommitInv, InCommit
        <4> QED
          BY <3>1, <3>2, <4>1 DEF List!Next, List!Add
      <3>5. CASE stage[Backend] = "main" /\ op.kind = "remove"
        <4>1. to = blocks \ {op.id} /\ op.id \in blocks /\ op.id \in Response
          BY <3>1, <3>5 DEF IInv, CommitInv, InCommit, TypeOK
        <4> QED
          BY <3>1, <3>2, <4>1 DEF List!Next, List!Remove
      <3> QED
        BY <3>1, <3>3, <3>4, <3>5 DEF IInv, CommitInv, InCommit
    <2> QED
      BY <2>1, <2>2, <2>3
  <1> QED
    BY <1>1, <1>2, Invariance, PTL DEF Spec, ImplementsList, List!Spec

-----------------------------------------------------------------------------
\* One process, until it dies, at most one step of an operation fails

\* The backend alone writes the store, with or without the bypass.
Gentle == Process = {Backend} /\ FaultBound <= 1

\* A text holds what a list asks for, but for what has expired meanwhile.
Shows(text, list) == (text \cap Response) \ expired = Render(list) \cap Response
Settled(list) == conf = nginx /\ Shows(conf, list)

\* Where an operation stands: the fault it may have had, and the list that the
\* include and Nginx show.
RollbackInv ==
  LET p == pc[Backend]
      from == base[Backend]
      to == goal[Backend]
      undo == undoing[Backend]
      fresh == faults[Backend] = 0
  IN
  /\ p \notin {"apply", "reload"} => ~undo
  /\ p \in InCommit \cup {"main"} => from = blocks
  /\ p \in {"down", "idle", "main", "again"} => Settled(blocks)
  /\ p \in {"main", "persist"} => fresh
  /\ p = "main" => stage[Backend] = "main"
  /\ p = "apply" => IF undo THEN ~fresh /\ Settled(to) ELSE fresh /\ Settled(from)
  /\ p = "reload" => IF undo THEN ~fresh /\ Shows(conf, from)
                     ELSE fresh /\ Shows(conf, to) /\ was[Backend] = nginx /\ Shows(nginx, from)
  /\ p = "restore" => ~fresh /\ was[Backend] = nginx /\ Shows(nginx, from)
  /\ p = "persist" => Settled(to)
  /\ p \in InCommit /\ stage[Backend] = "main" /\ Running(Backend).kind = "sync" =>
       to = from /\ p # "persist"

\* What is written for a list shows it.
LEMMA RenderShows ==
  ASSUME NEW list \in SUBSET Response
  PROVE  Shows(Render(list), list)
  BY DEF Shows, Render, Active

\* The running operation stays the same while the chain's head does.
LEMMA RunningStays ==
  ASSUME queue' = queue
  PROVE  Running(Backend)' = Running(Backend)
  BY DEF Running

\* An operation that leaves the chain with Nginx showing the list on disk.
LEMMA FinishRollback ==
  ASSUME Gentle, TypeOK, Finish(Backend), Settled(blocks)'
  PROVE  RollbackInv'
  BY DEF Gentle, TypeOK, Finish, RollbackInv, InCommit

\* The start of an operation.
LEMMA BeginRollback ==
  ASSUME Gentle, TypeOK, RollbackInv, Begin(Backend)
  PROVE  RollbackInv'
  <1> DEFINE p == pc[Backend]
  <1>1. p = "idle" /\ Settled(blocks) /\ ~undoing[Backend]
    BY DEF Begin, RollbackInv
  <1>2. /\ pc'[Backend] \in {"apply", "main"} /\ ~undoing'[Backend] /\ faults'[Backend] = 0
        /\ base'[Backend] = blocks'
        /\ pc'[Backend] = "main" => stage'[Backend] = "main"
    BY <1>1 DEF Begin, TypeOK, storage
  <1>3. Settled(blocks)'
    BY <1>1 DEF Begin, storage, Settled, Shows, Render, Active
  <1>4. stage'[Backend] = "main" => goal'[Backend] = base'[Backend]
    BY DEF Begin, TypeOK, Active
  <1> QED
    BY <1>1, <1>2, <1>3, <1>4 DEF RollbackInv, Settled, InCommit

\* What the operation decides on between the purge and its own commit.
LEMMA DecideRollback ==
  ASSUME Gentle, TypeOK, RollbackInv, NothingToDo(Backend) \/ AddBlock(Backend) \/ RemoveBlock(Backend)
  PROVE  RollbackInv'
  <1>1. pc[Backend] = "main" /\ Settled(blocks) /\ faults[Backend] = 0 /\ ~undoing[Backend]
        /\ base[Backend] = blocks
    BY DEF NothingToDo, AddBlock, RemoveBlock, RollbackInv
  <1>2. Settled(blocks)'
    BY <1>1 DEF NothingToDo, AddBlock, RemoveBlock, storage, Settled, Shows, Render, Active
  <1>3. CASE NothingToDo(Backend)
    BY <1>2, <1>3, FinishRollback DEF NothingToDo
  <1>4. CASE AddBlock(Backend) \/ RemoveBlock(Backend)
    <2>1. /\ pc'[Backend] = "apply" /\ UNCHANGED <<queue, base, undoing, faults, blocks>>
          /\ Running(Backend).kind # "sync"
      BY <1>4 DEF AddBlock, RemoveBlock, TypeOK, storage
    <2>2. Running(Backend)' = Running(Backend)
      BY <2>1, RunningStays
    <2> QED
      BY <1>1, <1>2, <2>1, <2>2 DEF RollbackInv, InCommit
  <1> QED
    BY <1>3, <1>4

\* applyBlockConfig's return, when Nginx shows the list it was given.
LEMMA AppliedRollback ==
  ASSUME Gentle, TypeOK, RollbackInv, pc[Backend] \in {"apply", "reload"}, Applied(Backend),
         UNCHANGED <<blocks, faults, stage, base, goal>>,
         NEW list, list = IF undoing[Backend] THEN base[Backend] ELSE goal[Backend],
         Settled(list)'
  PROVE  RollbackInv'
  <1> DEFINE last == undoing[Backend] \/ (Running(Backend).kind = "sync" /\ stage[Backend] = "main")
  <1>1. base[Backend] = blocks /\ (undoing[Backend] \/ faults[Backend] = 0)
    BY DEF RollbackInv, InCommit
  <1>2. CASE last
    <2>1. Finish(Backend)
      BY <1>2 DEF Applied
    <2>2. undoing[Backend] \/ goal[Backend] = base[Backend]
      BY <1>2 DEF RollbackInv, InCommit
    <2>3. list = blocks'
      BY <1>1, <2>2
    <2>4. Settled(blocks)'
      BY <2>3 DEF Settled, Shows, Render, Active
    <2> QED
      BY <2>1, <2>4, FinishRollback
  <1>3. CASE ~last
    <2>1. /\ pc'[Backend] = "persist" /\ UNCHANGED <<queue, undoing>>
          /\ ~undoing[Backend]
      BY <1>3 DEF Applied, TypeOK
    <2>2. Running(Backend)' = Running(Backend)
      BY <2>1, RunningStays
    <2>3. list = goal'[Backend]
      BY <2>1
    <2>4. (conf = nginx)' /\ Shows(conf, goal[Backend])'
      BY <2>3 DEF Settled, Shows, Render, Active
    <2> QED
      BY <1>1, <1>3, <2>1, <2>2, <2>4 DEF RollbackInv, InCommit, Settled
  <1> QED
    BY <1>2, <1>3

\* applyBlockConfig's write of the include.
LEMMA ApplyRollback ==
  ASSUME Gentle, TypeOK, RollbackInv, Apply(Backend)
  PROVE  RollbackInv'
  <1> PICK list : list = IF undoing[Backend] THEN base[Backend] ELSE goal[Backend]
    OBVIOUS
  <1> DEFINE next == Render(list)
  <1>0. /\ pc[Backend] = "apply" /\ base[Backend] = blocks
        /\ list \in SUBSET Response
        /\ UNCHANGED <<blocks, nginx, expired, bypass, stage, base, goal>>
    BY DEF Apply, RollbackInv, InCommit, TypeOK
  <1>1. Shows(next, list)
    BY <1>0, RenderShows
  <1>2. CASE conf = next /\ Applied(Backend) /\ UNCHANGED <<conf, was, faults>>
    <2>1. conf = nginx
      BY <1>0 DEF RollbackInv, Settled
    <2>2. Settled(list)'
      BY <1>0, <1>1, <1>2, <2>1 DEF Settled, Shows, Render, Active
    <2> QED
      BY <1>0, <1>2, <2>2, AppliedRollback
  <1>3. CASE /\ was' = [was EXCEPT ![Backend] = conf] /\ conf' = next
             /\ pc' = [pc EXCEPT ![Backend] = "reload"]
             /\ UNCHANGED <<queue, undoing, faults>>
    <2>1. Running(Backend)' = Running(Backend)
      BY <1>3, RunningStays
    <2>2. pc'[Backend] = "reload" /\ was'[Backend] = conf
      BY <1>3 DEF TypeOK
    <2>3. Shows(conf, list)'
      BY <1>0, <1>1, <1>3 DEF Shows, Render, Active
    <2>4. IF undoing[Backend] THEN Shows(conf, base[Backend])' ELSE Shows(conf, goal[Backend])'
      BY <1>0, <1>3, <2>3 DEF Shows, Render, Active
    <2>5. conf = nginx /\ (~undoing[Backend] => Shows(nginx, base[Backend])')
      BY <1>0 DEF RollbackInv, Settled, Shows, Render, Active
    <2> QED
      BY <1>0, <1>3, <2>1, <2>2, <2>4, <2>5 DEF RollbackInv, InCommit
  <1>4. CASE Fault(Backend) /\ Finish(Backend) /\ UNCHANGED <<conf, was>>
    <2>1. ~undoing[Backend]
      BY <1>0, <1>4 DEF RollbackInv, Fault, Gentle, TypeOK
    <2>2. Settled(blocks)
      BY <1>0, <2>1 DEF RollbackInv
    <2>3. Settled(blocks)'
      BY <1>0, <1>4, <2>2 DEF Settled, Shows, Render, Active
    <2> QED
      BY <1>4, <2>3, FinishRollback
  <1> QED
    BY <1>2, <1>3, <1>4 DEF Apply

\* The reload, done or failed.
LEMMA ReloadRollback ==
  ASSUME Gentle, TypeOK, RollbackInv, Reload(Backend)
  PROVE  RollbackInv'
  <1> PICK list : list = IF undoing[Backend] THEN base[Backend] ELSE goal[Backend]
    OBVIOUS
  <1>0. /\ pc[Backend] = "reload" /\ base[Backend] = blocks
        /\ UNCHANGED <<blocks, conf, expired, bypass, stage, base, goal, was>>
    BY DEF Reload, RollbackInv, InCommit
  <1>1. Shows(conf, list)
    BY <1>0 DEF RollbackInv
  <1>2. CASE nginx' = conf /\ Applied(Backend) /\ UNCHANGED faults
    <2>1. Settled(list)'
      BY <1>0, <1>1, <1>2 DEF Settled, Shows, Render, Active
    <2> QED
      BY <1>0, <1>2, <2>1, AppliedRollback
  <1>3. CASE /\ Fault(Backend) /\ pc' = [pc EXCEPT ![Backend] = "restore"]
             /\ UNCHANGED <<nginx, queue, undoing>>
    <2>1. Running(Backend)' = Running(Backend)
      BY <1>3, RunningStays
    <2>2. ~undoing[Backend]
      BY <1>0, <1>3 DEF RollbackInv, Fault, Gentle, TypeOK
    <2>3. pc'[Backend] = "restore" /\ faults'[Backend] # 0
      BY <1>3 DEF Fault, TypeOK
    <2>4. was[Backend] = nginx /\ Shows(nginx, base[Backend])'
      BY <1>0, <1>3, <2>2 DEF RollbackInv, Shows, Render, Active
    <2>5. stage[Backend] = "main" /\ Running(Backend).kind = "sync" => goal[Backend] = base[Backend]
      BY <1>0 DEF RollbackInv, InCommit
    <2> QED
      BY <1>0, <1>3, <2>1, <2>2, <2>3, <2>4, <2>5 DEF RollbackInv, InCommit
  <1> QED
    BY <1>2, <1>3 DEF Reload

\* Writing the previous text back: the operation has had its one fault.
LEMMA RestoreRollback ==
  ASSUME Gentle, TypeOK, RollbackInv, Restore(Backend)
  PROVE  RollbackInv'
  <1>0. /\ pc[Backend] = "restore" /\ base[Backend] = blocks /\ ~undoing[Backend]
        /\ was[Backend] = nginx /\ Shows(nginx, blocks) /\ faults[Backend] # 0
        /\ UNCHANGED <<blocks, nginx, expired, bypass, stage, base, goal, was>>
    BY DEF Restore, RollbackInv, InCommit
  <1>1. ~Fault(Backend)
    BY <1>0 DEF Fault, Gentle, TypeOK
  <1>2. /\ conf' = nginx /\ pc'[Backend] = "again" /\ UNCHANGED <<queue, undoing>>
    BY <1>0, <1>1 DEF Restore, TypeOK
  <1>3. Running(Backend)' = Running(Backend)
    BY <1>2, RunningStays
  <1>4. Settled(blocks)'
    BY <1>0, <1>2 DEF Settled, Shows, Render, Active
  <1>5. stage[Backend] = "main" /\ Running(Backend).kind = "sync" => goal[Backend] = base[Backend]
    BY <1>0 DEF RollbackInv, InCommit
  <1> QED
    BY <1>0, <1>2, <1>3, <1>4, <1>5 DEF RollbackInv, InCommit

\* The reload after that, whatever comes of it.
LEMMA ReloadAgainRollback ==
  ASSUME Gentle, TypeOK, RollbackInv, ReloadAgain(Backend)
  PROVE  RollbackInv'
  <1>1. Settled(blocks)
    BY DEF ReloadAgain, RollbackInv
  <1>2. Settled(blocks)'
    BY <1>1 DEF ReloadAgain, Settled, Shows, Render, Active
  <1> QED
    BY <1>2, FinishRollback DEF ReloadAgain

\* The write of the list, done or failed.
LEMMA PersistRollback ==
  ASSUME Gentle, TypeOK, RollbackInv, Persist(Backend)
  PROVE  RollbackInv'
  <1>0. /\ pc[Backend] = "persist" /\ base[Backend] = blocks /\ ~undoing[Backend]
        /\ Settled(goal[Backend]) /\ faults[Backend] = 0
        /\ ~(stage[Backend] = "main" /\ Running(Backend).kind = "sync")
        /\ UNCHANGED <<conf, nginx, expired, bypass, goal>>
    BY DEF Persist, RollbackInv, InCommit
  <1>1. CASE blocks' = goal[Backend] /\ UNCHANGED faults
    <2>1. Settled(blocks)'
      BY <1>0, <1>1 DEF Settled, Shows, Render, Active
    <2>2. CASE Finish(Backend)
      BY <2>1, <2>2, FinishRollback
    <2>3. CASE /\ stage' = [stage EXCEPT ![Backend] = "main"]
               /\ base' = [base EXCEPT ![Backend] = goal[Backend]]
               /\ pc' = [pc EXCEPT ![Backend] = "main"]
               /\ UNCHANGED <<queue, undoing>>
      BY <1>0, <1>1, <2>1, <2>3 DEF RollbackInv, InCommit, TypeOK
    <2> QED
      BY <1>0, <1>1, <2>2, <2>3 DEF Persist, Fault, TypeOK
  <1>2. CASE /\ Fault(Backend)
             /\ undoing' = [undoing EXCEPT ![Backend] = TRUE]
             /\ pc' = [pc EXCEPT ![Backend] = "apply"]
             /\ UNCHANGED <<blocks, queue, stage, base>>
    <2>1. Running(Backend)' = Running(Backend)
      BY <1>2, RunningStays
    <2>2. pc'[Backend] = "apply" /\ undoing'[Backend] /\ faults'[Backend] # 0
      BY <1>2 DEF Fault, TypeOK
    <2>3. Settled(goal[Backend])'
      BY <1>0 DEF Settled, Shows, Render, Active
    <2> QED
      BY <1>0, <1>2, <2>1, <2>2, <2>3 DEF RollbackInv, InCommit
  <1> QED
    BY <1>1, <1>2 DEF Persist

\* A request that joins the chain does not disturb what runs.
LEMMA ChainRollback ==
  ASSUME Gentle, TypeOK, BusyInv, RollbackInv, NEW o \in Operation, Chain(Backend, o)
  PROVE  RollbackInv'
  <1>1. ASSUME pc[Backend] \in InCommit
        PROVE  Running(Backend)' = Running(Backend)
    <2>1. queue[Backend] \in Seq(Operation) /\ queue[Backend] # <<>>
      BY <1>1 DEF BusyInv, TypeOK, InCommit
    <2>2. Head(Append(queue[Backend], o)) = Head(queue[Backend])
      BY <2>1
    <2>3. queue'[Backend] = Append(queue[Backend], o)
      BY DEF Chain, TypeOK
    <2> QED
      BY <2>2, <2>3 DEF Running
  <1> QED
    BY <1>1 DEF Chain, storage, RollbackInv, Settled, Shows, Render, Active, InCommit

\* The first start: there is nothing to put back yet.
LEMMA StartRollback ==
  ASSUME Gentle, TypeOK, RollbackInv, Start(Backend)
  PROVE  RollbackInv'
  <1>1. pc'[Backend] = "idle" /\ ~undoing'[Backend] /\ Settled(blocks)
    BY DEF Start, RollbackInv, TypeOK
  <1>2. Settled(blocks)'
    BY <1>1 DEF Start, storage, Settled, Shows, Render, Active
  <1> QED
    BY <1>1, <1>2 DEF RollbackInv, InCommit

\* The passing of time: what has expired no longer counts, in text or list.
LEMMA ExpireRollback ==
  ASSUME Gentle, TypeOK, RollbackInv, NEW r \in Response, Expire(r)
  PROVE  RollbackInv'
  <1>0. UNCHANGED <<storage, bypass, process>>
    BY DEF Expire
  <1>1. ASSUME NEW text, NEW list, Shows(text, list)
        PROVE  (text \cap Response) \ expired' = (IF bypass' THEN {BypassNotice} ELSE list \ expired') \cap Response
    BY <1>1 DEF Expire, Shows, Render, Active
  <1>2. Running(Backend)' = Running(Backend)
    BY <1>0, RunningStays DEF process
  <1>3. /\ pc' = pc /\ undoing' = undoing /\ faults' = faults /\ stage' = stage
        /\ base' = base /\ goal' = goal /\ was' = was /\ blocks' = blocks /\ nginx' = nginx /\ conf' = conf
    BY <1>0 DEF process, storage
  <1>4. /\ Shows(conf, blocks) => Shows(conf, blocks)'
        /\ Shows(conf, base[Backend]) => Shows(conf, base[Backend])'
        /\ Shows(nginx, base[Backend]) => Shows(nginx, base[Backend])'
        /\ Shows(conf, goal[Backend]) => Shows(conf, goal[Backend])'
    BY <1>1, <1>3 DEF Shows, Render, Active
  <1> QED
    BY <1>2, <1>3, <1>4 DEF RollbackInv, Settled, InCommit

\* No step makes the system calm again after a process died.
LEMMA CalmStays ==
  ASSUME [Next]_vars, calm'
  PROVE  calm /\ ~RestartContainer /\ \A p \in Process : ~Crash(p)
  <1>2. \A p \in Process : Operate(p) => calm' = calm
    BY DEF Operate, Begin, NothingToDo, AddBlock, RemoveBlock, Apply, Reload, Restore, ReloadAgain,
           Persist, history
  <1>3. \A p \in Process : RequestPurge(p) => calm' = calm
    BY DEF RequestPurge, Chain
  <1>4. \A p \in Process, r \in Response : RequestAdd(p, r) \/ RequestRemove(p, r) => calm' = calm
    BY DEF RequestAdd, RequestRemove, Chain
  <1>5. \A p \in Process : Start(p) => calm' = calm
    BY DEF Start, history
  <1>6. \A r \in Response : Expire(r) => calm' = calm
    BY DEF Expire, history
  <1>7. ~RestartContainer /\ \A p \in Process : ~Crash(p)
    BY DEF RestartContainer, Crash
  <1>8. UNCHANGED vars => calm' = calm
    BY DEF vars, history
  <1> QED
    BY <1>2, <1>3, <1>4, <1>5, <1>6, <1>7, <1>8, Zenon DEF Next

\* Every step of the system keeps the state of the rollback, until a process dies.
CalmInv == calm => RollbackInv

LEMMA NextRollback == Gentle /\ TypeOK /\ BusyInv /\ CalmInv /\ [Next]_vars => CalmInv'
  <1> SUFFICES ASSUME Gentle, TypeOK, BusyInv, CalmInv, [Next]_vars, calm'
               PROVE  RollbackInv'
    BY Zenon DEF CalmInv
  <1>8. calm /\ ~RestartContainer /\ \A p \in Process : ~Crash(p)
    BY CalmStays
  <1>9. RollbackInv
    BY <1>8, Zenon DEF CalmInv
  <1>1. CASE UNCHANGED vars
    BY <1>1, <1>9 DEF vars, storage, process, history, RollbackInv, Settled, Shows, Render, Active,
                InCommit, Running
  <1>2. ASSUME NEW p \in Process, RequestPurge(p)
        PROVE  RollbackInv'
    BY <1>2, <1>9, ChainRollback DEF RequestPurge, Operation, Gentle
  <1>3. ASSUME NEW p \in Process, NEW r \in Response, RequestAdd(p, r) \/ RequestRemove(p, r)
        PROVE  RollbackInv'
    BY <1>3, <1>9, ChainRollback DEF RequestAdd, RequestRemove, Operation, Gentle
  <1>4. ASSUME NEW p \in Process, Operate(p)
        PROVE  RollbackInv'
    <2>1. p = Backend
      BY DEF Gentle
    <2> QED
      BY <1>4, <2>1, <1>9, BeginRollback, DecideRollback, ApplyRollback, ReloadRollback, RestoreRollback,
         ReloadAgainRollback, PersistRollback DEF Operate
  <1>5. ASSUME NEW p \in Process, Start(p)
        PROVE  RollbackInv'
    BY <1>5, <1>9, StartRollback DEF Gentle
  <1>6. ASSUME NEW r \in Response, Expire(r)
        PROVE  RollbackInv'
    BY <1>6, <1>9, ExpireRollback
  <1> QED
    BY <1>1, <1>2, <1>3, <1>4, <1>5, <1>6, <1>8 DEF Next

\* With one process, as long as it does not die, and at most one failing step in
\* each operation, a failed write, reload or persistence leaves nothing behind: when
\* the operation has left the chain, the include is what Nginx runs and holds
\* exactly the listed blocks still active, in and out of the emergency bypass.
THEOREM Transactional == ASSUME Gentle PROVE Spec => []RollbackIsTransactional
  <1>1. Init => CalmInv
    BY DEF Init, Gentle, CalmInv, RollbackInv, Settled, Shows, Render, Active, InCommit
  <1>2. CalmInv => RollbackIsTransactional
    BY DEF Gentle, CalmInv, RollbackInv, Settled, Shows, RollbackIsTransactional
  <1>3. TypeOK /\ BusyInv /\ CalmInv /\ [Next]_vars => CalmInv'
    BY NextRollback
  <1> QED
    BY <1>1, <1>2, <1>3, TypeCorrect, PTL DEF Spec

-----------------------------------------------------------------------------
\* The emergency bypass, whatever processes share the store

\* Under the bypass no text that is on disk, in the running Nginx or held by an
\* applyBlockConfig for its undoing names a response.
BypassInv ==
  bypass => /\ conf \cap Response = {} /\ nginx \cap Response = {}
            /\ \A p \in Process : pc[p] \in {"reload", "restore"} => was[p] \cap Response = {}

\* Every step keeps the bypass free of responses: what is written is rendered
\* under the bypass, or is the earlier text.
LEMMA NextBypass == TypeOK /\ BypassInv /\ [Next]_vars => BypassInv'
  <1> SUFFICES ASSUME TypeOK, BypassInv, [Next]_vars PROVE BypassInv'
    OBVIOUS
  <1>1. CASE RestartContainer
    BY <1>1 DEF RestartContainer, BypassInv
  <1>2. ASSUME NEW p \in Process, Apply(p) PROVE BypassInv'
    <2>1. bypass' = bypass /\ nginx' = nginx
      BY <1>2 DEF Apply
    <2>2. ASSUME bypass, NEW list PROVE Render(list) \cap Response = {}
      BY <2>2 DEF Render
    <2>3. CASE conf' = conf /\ was' = was
      <3>1. \A q \in Process : pc'[q] \in {"reload", "restore"} => pc[q] \in {"reload", "restore"}
        BY <1>2, <2>3 DEF Apply, Applied, Finish, TypeOK, Fault
      <3> QED
        BY <2>1, <2>3, <3>1 DEF BypassInv
    <2>4. CASE /\ conf' = Render(IF undoing[p] THEN base[p] ELSE goal[p])
               /\ was' = [was EXCEPT ![p] = conf]
               /\ pc' = [pc EXCEPT ![p] = "reload"]
      BY <2>1, <2>2, <2>4 DEF BypassInv, TypeOK
    <2> QED
      BY <1>2, <2>3, <2>4 DEF Apply
  <1>3. ASSUME NEW p \in Process, Restore(p) PROVE BypassInv'
    BY <1>3 DEF Restore, Finish, BypassInv, TypeOK
  <1>4. ASSUME NEW p \in Process, Reload(p) \/ ReloadAgain(p) PROVE BypassInv'
    <2>1. \A q \in Process : pc'[q] \in {"reload", "restore"} => pc[q] \in {"reload", "restore"}
      BY <1>4 DEF Reload, ReloadAgain, Applied, Finish, Fault, TypeOK
    <2>2. nginx' \in {nginx, conf} /\ conf' = conf /\ was' = was /\ bypass' = bypass
      BY <1>4 DEF Reload, ReloadAgain
    <2> QED
      BY <2>1, <2>2 DEF BypassInv
  <1>5. ASSUME NEW p \in Process,
               Begin(p) \/ NothingToDo(p) \/ AddBlock(p) \/ RemoveBlock(p) \/ Persist(p)
                 \/ Crash(p) \/ Start(p)
        PROVE  BypassInv'
    <2>1. UNCHANGED <<conf, nginx, was, bypass>>
      BY <1>5 DEF Begin, NothingToDo, AddBlock, RemoveBlock, Persist, Crash, Start, storage
    <2>2. \A q \in Process : pc'[q] \in {"reload", "restore"} => pc[q] \in {"reload", "restore"}
      <3>1. CASE Persist(p)
        BY <3>1 DEF Persist, Finish, TypeOK
      <3>2. CASE Begin(p) \/ NothingToDo(p) \/ AddBlock(p) \/ RemoveBlock(p) \/ Crash(p) \/ Start(p)
        BY <3>2 DEF Begin, NothingToDo, AddBlock, RemoveBlock, Crash, Start, Finish, TypeOK
      <3> QED
        BY <1>5, <3>1, <3>2
    <2> QED
      BY <2>1, <2>2 DEF BypassInv
  <1>6. ASSUME NEW p \in Process,
               RequestPurge(p) \/ \E r \in Response : RequestAdd(p, r) \/ RequestRemove(p, r)
        PROVE  BypassInv'
    BY <1>6 DEF RequestPurge, RequestAdd, RequestRemove, Chain, storage, BypassInv
  <1>7. CASE UNCHANGED vars \/ \E r \in Response : Expire(r)
    BY <1>7 DEF vars, storage, process, Expire, BypassInv
  <1> QED
    BY <1>1, <1>2, <1>3, <1>4, <1>5, <1>6, <1>7 DEF Next, Operate

\* Under HYROVI_SEC_EMERGENCY_BYPASS the running Nginx enforces no response: in
\* every process, through failing steps, crashes, and container restarts into
\* and out of the bypass.
THEOREM Bypassed == Spec => []BypassSuspends
  <1>1. Init => BypassInv
    BY DEF Init, BypassInv
  <1>2. BypassInv => BypassSuspends
    BY DEF BypassInv, BypassSuspends
  <1> QED
    BY <1>1, <1>2, NextBypass, TypeCorrect, PTL DEF Spec

-----------------------------------------------------------------------------
(* Certificates. *)

Versions == {"none", "due", "fresh"}

\* Types of the two places compared, and the shape of a step.
CertTypes ==
  /\ row \in [Cert -> Versions \cup {"gone"}]
  /\ file \in [Cert -> Versions]
  /\ task = [t \in Slot \cup {Timer} |->
               [do |-> task[t].do, cert |-> task[t].cert, step |-> task[t].step]]
  /\ certbot = [do |-> certbot.do, cert |-> certbot.cert, step |-> certbot.step]

\* Files are taken away only where the row has been deleted before.
Deleting(work) == work.do = "delete" => work.cert \in Cert /\ row[work.cert] = "gone"

CertIInv ==
  /\ CertTypes
  /\ \A t \in Slot \cup {Timer}: Deleting(task[t])
  /\ Deleting(certbot)
  /\ RowNotAheadOfFile

\* The invariant speaks of four variables only.
CertUnchanged == UNCHANGED <<row, file, task, certbot>>

LEMMA CertStutter ==
  ASSUME CertIInv, CertUnchanged
  PROVE  CertIInv'
  BY DEF CertIInv, CertUnchanged, CertTypes, Deleting, RowNotAheadOfFile

\* The invariant holds at the start.
LEMMA CertInitHolds == CertInit => CertIInv
<1> SUFFICES ASSUME CertInit PROVE CertIInv
  OBVIOUS
<1>1. CertTypes
  BY DEF CertInit, CertTypes, Versions, NoTask
<1>2. (\A t \in Slot \cup {Timer}: Deleting(task[t])) /\ Deleting(certbot)
  BY DEF CertInit, Deleting, NoTask
<1>3. RowNotAheadOfFile
  BY DEF CertInit, RowNotAheadOfFile
<1> QED BY <1>1, <1>2, <1>3 DEF CertIInv

\* Going to another step, or to none, deletes nothing new.
LEMMA GoOrEnd ==
  ASSUME CertIInv, NEW t \in Slot \cup {Timer},
         (\E step: Go(t, step)) \/ End(t)
  PROVE  /\ task' = [u \in Slot \cup {Timer} |->
                       [do |-> task'[u].do, cert |-> task'[u].cert, step |-> task'[u].step]]
         /\ \A u \in Slot \cup {Timer}:
              \/ task'[u].do = "nothing"
              \/ task'[u].do = task[u].do /\ task'[u].cert = task[u].cert
<1>1. CASE End(t)
  BY <1>1 DEF CertIInv, CertTypes, End, NoTask
<1>2. CASE \E step: Go(t, step)
  <2>1. PICK step: Go(t, step)
    BY <1>2
  <2>2. task[t] = [do |-> task[t].do, cert |-> task[t].cert, step |-> task[t].step]
    BY DEF CertIInv, CertTypes
  <2>3. [task[t] EXCEPT !.step = step] = [do |-> task[t].do, cert |-> task[t].cert, step |-> step]
    BY <2>2
  <2>4. task' = [task EXCEPT ![t] = [do |-> task[t].do, cert |-> task[t].cert, step |-> step]]
    BY <2>1, <2>3 DEF Go
  <2> QED BY <2>4 DEF CertIInv, CertTypes
<1> QED BY <1>1, <1>2

\* A step that goes on, or ends, changes neither certbot nor the files, and changes the
\* row only to what the invariant allows.
LEMMA RowStep ==
  ASSUME CertIInv, NEW t \in Slot \cup {Timer},
         (\E step: Go(t, step)) \/ End(t),
         row' \in [Cert -> Versions \cup {"gone"}],
         \A c \in Cert: row[c] = "gone" => row'[c] = "gone",
         \A c \in Cert: row'[c] = "fresh" => file[c] = "fresh",
         UNCHANGED <<file, certbot>>
  PROVE  CertIInv'
<1>1. CertTypes'
  BY GoOrEnd DEF CertIInv, CertTypes
<1>2. \A u \in Slot \cup {Timer}: Deleting(task[u])'
  BY GoOrEnd DEF CertIInv, Deleting
<1>3. Deleting(certbot)'
  BY DEF CertIInv, Deleting
<1>4. RowNotAheadOfFile'
  BY DEF RowNotAheadOfFile
<1> QED BY <1>1, <1>2, <1>3, <1>4 DEF CertIInv

\* The same for a step that leaves the row alone.
LEMMA PlainStep ==
  ASSUME CertIInv, NEW t \in Slot \cup {Timer},
         (\E step: Go(t, step)) \/ End(t),
         UNCHANGED <<row, file, certbot>>
  PROVE  CertIInv'
  BY RowStep DEF CertIInv, CertTypes, RowNotAheadOfFile

\* An error lets a request go on to undo what it did, or end.
LEMMA ThrowStep ==
  ASSUME CertIInv, NEW t \in Slot \cup {Timer}, Throw(t), UNCHANGED <<file, certbot>>
  PROVE  CertIInv'
<1>1. ((\E step: Go(t, step)) \/ End(t)) /\ UNCHANGED row
  BY DEF Throw
<1> QED BY <1>1, PlainStep

\* Deleting the row of a certificate that was not created.
LEMMA DiscardStep ==
  ASSUME CertIInv, NEW t \in Slot \cup {Timer}, Discard(t), UNCHANGED <<file, certbot>>
  PROVE  CertIInv'
<1>1. End(t)
  BY DEF Discard
<1>2. /\ row' \in [Cert -> Versions \cup {"gone"}]
      /\ \A c \in Cert: row'[c] = row[c] \/ row'[c] = "gone"
  BY DEF Discard, CertIInv, CertTypes
<1>3. \A c \in Cert: row'[c] = "fresh" => file[c] = "fresh"
  BY <1>2 DEF CertIInv, RowNotAheadOfFile
<1> QED BY <1>1, <1>2, <1>3, RowStep

\* Whatever command ends, files disappear only under a deleted row.
LEMMA FilesStep ==
  ASSUME CertIInv, NEW work, Deleting(work),
         file' = Files(work.do, work.cert), UNCHANGED row
  PROVE  file' \in [Cert -> Versions] /\ RowNotAheadOfFile'
<1>1. file \in [Cert -> Versions]
  BY DEF CertIInv, CertTypes
<1>2. CASE work.do = "delete"
  <2>1. file' = [file EXCEPT ![work.cert] = "none"]
    BY <1>2 DEF Files
  <2>2. row[work.cert] = "gone"
    BY <1>2 DEF Deleting
  <2> QED BY <1>1, <2>1, <2>2 DEF Versions, CertIInv, RowNotAheadOfFile
<1>3. CASE work.do # "delete"
  <2>1. file' = [file EXCEPT ![work.cert] = "fresh"]
    BY <1>3 DEF Files
  <2> QED BY <1>1, <2>1 DEF Versions, CertIInv, RowNotAheadOfFile
<1> QED BY <1>2, <1>3

-----------------------------------------------------------------------------
\* Requests and the timer.
LEMMA RequestedHolds ==
  ASSUME CertIInv, NEW s \in Slot, Requested(s)
  PROVE  CertIInv'
<1>1. PICK c \in Cert: Insert(s, c) \/ AskRenewal(s, c) \/ Delete(s, c)
  BY DEF Requested
<1>2. PICK do, step: Do(s, do, c, step) /\ (do = "delete" => Delete(s, c))
  BY <1>1 DEF Insert, AskRenewal, Delete
<1>3. UNCHANGED <<file, certbot>>
  BY DEF Requested
<1>4. /\ row' \in [Cert -> Versions \cup {"gone"}]
      /\ \A x \in Cert: row'[x] = row[x] \/ row'[x] \in {"due", "gone"}
      /\ \A x \in Cert: row[x] = "gone" => row'[x] = "gone"
      /\ Delete(s, c) => row'[c] = "gone"
  BY <1>1 DEF Insert, AskRenewal, Delete, CertIInv, CertTypes, Versions
<1>5. task' = [task EXCEPT ![s] = [do |-> do, cert |-> c, step |-> step]]
  BY <1>2 DEF Do
<1>6. CertTypes'
  BY <1>3, <1>4, <1>5 DEF CertIInv, CertTypes
<1>7. \A u \in Slot \cup {Timer}: Deleting(task[u])'
  <2> SUFFICES ASSUME NEW u \in Slot \cup {Timer} PROVE Deleting(task[u])'
    OBVIOUS
  <2>1. CASE u = s
    <3>1. task'[u] = [do |-> do, cert |-> c, step |-> step]
      BY <1>5, <2>1 DEF CertIInv, CertTypes
    <3> QED BY <3>1, <1>2, <1>4 DEF Deleting
  <2>2. CASE u # s
    <3>1. task'[u] = task[u] /\ Deleting(task[u])
      BY <1>5, <2>2 DEF CertIInv, CertTypes
    <3> QED BY <3>1, <1>4 DEF Deleting
  <2> QED BY <2>1, <2>2
<1>8. Deleting(certbot)'
  BY <1>3, <1>4 DEF CertIInv, Deleting
<1>9. RowNotAheadOfFile'
  BY <1>3, <1>4 DEF CertIInv, RowNotAheadOfFile
<1> QED BY <1>6, <1>7, <1>8, <1>9 DEF CertIInv

\* The timer takes the next certificate of its train.
LEMMA RenewNextHolds ==
  ASSUME CertIInv, RenewNext
  PROVE  CertIInv'
<1>1. CASE train = <<>>
  BY <1>1, CertStutter DEF RenewNext, CertUnchanged
<1>2. CASE train # <<>>
  <2>1. /\ task' = [task EXCEPT ![Timer] = [do |-> "renew", cert |-> Head(train), step |-> "get"]]
        /\ UNCHANGED <<row, file, certbot>>
    BY <1>2 DEF RenewNext, Do
  <2>2. CertTypes'
    BY <2>1 DEF CertIInv, CertTypes
  <2>3. \A u \in Slot \cup {Timer}: Deleting(task[u])'
    BY <2>1 DEF CertIInv, CertTypes, Deleting
  <2>4. Deleting(certbot)' /\ RowNotAheadOfFile'
    BY <2>1 DEF CertIInv, Deleting, RowNotAheadOfFile
  <2> QED BY <2>2, <2>3, <2>4 DEF CertIInv
<1> QED BY <1>1, <1>2
-----------------------------------------------------------------------------
\* certbot starts on what a request is at.
LEMMA StartCertbotHolds ==
  ASSUME CertIInv, NEW t \in Slot \cup {Timer}, StartCertbot(t)
  PROVE  CertIInv'
<1>1. (\E step: Go(t, step)) /\ UNCHANGED <<row, file>>
  BY DEF StartCertbot
<1>2. certbot' = certbot \/ certbot' = [task[t] EXCEPT !.step = "running"]
  BY DEF StartCertbot
<1>3. CASE certbot' = certbot
  BY <1>1, <1>3, PlainStep
<1>4. CASE certbot' = [task[t] EXCEPT !.step = "running"]
  <2>1. task[t] = [do |-> task[t].do, cert |-> task[t].cert, step |-> task[t].step]
    BY DEF CertIInv, CertTypes
  <2>2. certbot' = [do |-> task[t].do, cert |-> task[t].cert, step |-> "running"]
    BY <1>4, <2>1
  <2>3. CertTypes'
    BY <1>1, <2>2, GoOrEnd DEF CertIInv, CertTypes
  <2>4. \A u \in Slot \cup {Timer}: Deleting(task[u])'
    BY <1>1, GoOrEnd DEF CertIInv, Deleting
  <2>5. Deleting(task[t])
    BY DEF CertIInv
  <2>6. Deleting(certbot)' /\ RowNotAheadOfFile'
    BY <1>1, <2>2, <2>5 DEF CertIInv, Deleting, RowNotAheadOfFile
  <2> QED BY <2>3, <2>4, <2>6 DEF CertIInv
<1> QED BY <1>2, <1>3, <1>4

\* certbot ends well.
LEMMA CertbotEndsHolds ==
  ASSUME CertIInv, NEW t \in Slot \cup {Timer}, CertbotEnds(t)
  PROVE  CertIInv'
<1>1. UNCHANGED row /\ certbot' = NoTask /\ file' = Files(task[t].do, task[t].cert)
  BY DEF CertbotEnds
<1>2. Deleting(task[t])
  BY DEF CertIInv
<1>3. file' \in [Cert -> Versions] /\ RowNotAheadOfFile'
  BY <1>1, <1>2, FilesStep
<1>4. (\E step: Go(t, step)) \/ End(t)
  BY DEF CertbotEnds
<1>5. CertTypes'
  BY <1>1, <1>3, <1>4, GoOrEnd DEF CertIInv, CertTypes, NoTask
<1>6. \A u \in Slot \cup {Timer}: Deleting(task[u])'
  BY <1>1, <1>4, GoOrEnd DEF CertIInv, Deleting
<1>7. Deleting(certbot)'
  BY <1>1 DEF Deleting, NoTask
<1> QED BY <1>3, <1>5, <1>6, <1>7 DEF CertIInv

\* certbot fails, or was refused.
LEMMA CertbotFailsHolds ==
  ASSUME CertIInv, NEW t \in Slot \cup {Timer}, CertbotFails(t)
  PROVE  CertIInv'
<1>1. /\ (\E step: Go(t, step)) \/ End(t)
      /\ UNCHANGED <<row, file>>
  BY DEF CertbotFails, Throw
<1>2. certbot' = NoTask \/ certbot' = certbot
  BY DEF CertbotFails
<1>3. CASE certbot' = certbot
  BY <1>1, <1>3, PlainStep
<1>4. CASE certbot' = NoTask
  <2>1. CertTypes'
    BY <1>1, <1>4, GoOrEnd DEF CertIInv, CertTypes, NoTask
  <2>2. \A u \in Slot \cup {Timer}: Deleting(task[u])'
    BY <1>1, GoOrEnd DEF CertIInv, Deleting
  <2>3. Deleting(certbot)' /\ RowNotAheadOfFile'
    BY <1>1, <1>4 DEF CertIInv, Deleting, NoTask, RowNotAheadOfFile
  <2> QED BY <2>1, <2>2, <2>3 DEF CertIInv
<1> QED BY <1>2, <1>3, <1>4

\* The row is told what the file says.
LEMMA PatchHolds ==
  ASSUME CertIInv, NEW t \in Slot \cup {Timer}, Patch(t)
  PROVE  CertIInv'
<1>1. UNCHANGED <<file, certbot>>
  BY DEF Patch
<1>2. CASE Discard(t)
  BY <1>1, <1>2, DiscardStep
<1>3. CASE /\ file[task[t].cert] # "none"
           /\ row' = [row EXCEPT ![task[t].cert] = IF @ = "gone" THEN @ ELSE file[task[t].cert]]
           /\ End(t)
  <2>1. /\ row \in [Cert -> Versions \cup {"gone"}]
        /\ file \in [Cert -> Versions]
    BY DEF CertIInv, CertTypes
  <2>2. row' \in [Cert -> Versions \cup {"gone"}]
    BY <1>3, <2>1
  <2>3. \A c \in Cert: row[c] = "gone" => row'[c] = "gone"
    BY <1>3, <2>1
  <2>4. \A c \in Cert: row'[c] = row[c] \/ row'[c] = file[c]
    BY <1>3, <2>1
  <2>5. \A c \in Cert: row'[c] = "fresh" => file[c] = "fresh"
    BY <2>4 DEF CertIInv, RowNotAheadOfFile
  <2> QED BY <1>1, <1>3, <2>2, <2>3, <2>5, RowStep
<1> QED BY <1>2, <1>3 DEF Patch

\* Each step of a request, or of the timer.
LEMMA StepHolds ==
  ASSUME CertIInv, NEW t \in Slot \cup {Timer}, Step(t)
  PROVE  CertIInv'
<1>1. CASE ReloadBefore(t)
  <2>1. UNCHANGED <<file, certbot>>
    BY <1>1 DEF ReloadBefore
  <2>2. CASE LoadFiles(t, "certbot")
    BY <2>1, <2>2, PlainStep DEF LoadFiles
  <2>3. CASE ReloadFails(t)
    BY <2>1, <2>3, ThrowStep DEF ReloadFails
  <2> QED BY <1>1, <2>2, <2>3 DEF ReloadBefore
<1>2. CASE ReloadAfter(t)
  <2>1. UNCHANGED <<file, certbot>>
    BY <1>2 DEF ReloadAfter
  <2>2. CASE LoadFiles(t, "patch")
    BY <2>1, <2>2, PlainStep DEF LoadFiles
  <2>3. CASE ReloadFails(t)
    BY <2>1, <2>3, ThrowStep DEF ReloadFails
  <2> QED BY <1>2, <2>2, <2>3 DEF ReloadAfter
<1>3. CASE Get(t)
  <2>1. UNCHANGED <<file, certbot>>
    BY <1>3 DEF Get
  <2>2. CASE Throw(t)
    BY <2>1, <2>2, ThrowStep
  <2>3. CASE Go(t, "certbot") /\ UNCHANGED row
    BY <2>1, <2>3, PlainStep
  <2> QED BY <1>3, <2>2, <2>3 DEF Get
<1>4. CASE CannotStart(t)
  <2>1. Throw(t) /\ UNCHANGED <<file, certbot>>
    BY <1>4 DEF CannotStart
  <2> QED BY <2>1, ThrowStep
<1>5. CASE Undo(t)
  <2>1. Discard(t) /\ UNCHANGED <<file, certbot>>
    BY <1>5 DEF Undo
  <2> QED BY <2>1, DiscardStep
<1> QED
  BY <1>1, <1>2, <1>3, <1>4, <1>5,
     StartCertbotHolds, CertbotEndsHolds, CertbotFailsHolds, PatchHolds DEF Step
-----------------------------------------------------------------------------
\* Time passes for a certificate on which nothing works.
LEMMA AgeHolds ==
  ASSUME CertIInv, NEW c \in Cert, Age(c)
  PROVE  CertIInv'
<1>1. /\ row \in [Cert -> Versions \cup {"gone"}]
      /\ file \in [Cert -> Versions]
  BY DEF CertIInv, CertTypes
<1>2. /\ row' = [row EXCEPT ![c] = Older(row[c])]
      /\ file' = [file EXCEPT ![c] = Older(file[c])]
      /\ UNCHANGED <<task, certbot>>
  BY DEF Age
<1>3. /\ Older(row[c]) \in {"none", "due", "gone"}
      /\ Older(file[c]) \in Versions
      /\ row[c] = "gone" => Older(row[c]) = "gone"
  BY <1>1 DEF Older, Versions
<1>4. CertTypes'
  BY <1>1, <1>2, <1>3 DEF CertIInv, CertTypes, Versions
<1>5. \A x \in Cert: row[x] = "gone" => row'[x] = "gone"
  BY <1>1, <1>2, <1>3
<1>6. (\A t \in Slot \cup {Timer}: Deleting(task[t])') /\ Deleting(certbot)'
  BY <1>2, <1>5 DEF CertIInv, Deleting
<1>7. RowNotAheadOfFile'
  <2> SUFFICES ASSUME NEW x \in Cert, row'[x] = "fresh" PROVE file'[x] = "fresh"
    BY DEF RowNotAheadOfFile
  <2>1. x # c
    BY <1>1, <1>2, <1>3
  <2> QED BY <1>1, <1>2, <2>1 DEF CertIInv, RowNotAheadOfFile
<1> QED BY <1>4, <1>6, <1>7 DEF CertIInv

\* A restart forgets what was under way.
LEMMA RestartHolds ==
  ASSUME CertIInv, RestartBackend
  PROVE  CertIInv'
<1>1. /\ UNCHANGED <<row, file>>
      /\ task' = [t \in Slot \cup {Timer} |-> NoTask]
      /\ certbot' = certbot \/ certbot' = NoTask
  BY DEF RestartBackend, CertIInv, CertTypes
<1>2. CertTypes'
  BY <1>1 DEF CertIInv, CertTypes, NoTask
<1>3. (\A t \in Slot \cup {Timer}: Deleting(task[t])') /\ Deleting(certbot)'
  BY <1>1 DEF CertIInv, Deleting, NoTask
<1>4. RowNotAheadOfFile'
  BY <1>1 DEF CertIInv, RowNotAheadOfFile
<1> QED BY <1>2, <1>3, <1>4 DEF CertIInv

\* A certbot that outlived its backend ends.
LEMMA OrphanHolds ==
  ASSUME CertIInv, OrphanEnds
  PROVE  CertIInv'
<1>1. UNCHANGED <<row, task>> /\ certbot' = NoTask
  BY DEF OrphanEnds
<1>2. file' \in [Cert -> Versions] /\ RowNotAheadOfFile'
  <2>1. CASE file' = Files(certbot.do, certbot.cert)
    BY <1>1, <2>1, FilesStep DEF CertIInv
  <2>2. CASE UNCHANGED file
    BY <1>1, <2>2 DEF CertIInv, CertTypes, RowNotAheadOfFile
  <2> QED BY <2>1, <2>2 DEF OrphanEnds
<1>3. CertTypes'
  BY <1>1, <1>2 DEF CertIInv, CertTypes, NoTask
<1>4. (\A t \in Slot \cup {Timer}: Deleting(task[t])') /\ Deleting(certbot)'
  BY <1>1 DEF CertIInv, Deleting, NoTask
<1> QED BY <1>2, <1>3, <1>4 DEF CertIInv

\* Every step.
LEMMA CertNextHolds ==
  ASSUME CertIInv, [CertNext]_certVars
  PROVE  CertIInv'
<1>1. CASE \E s \in Slot: Requested(s)
  BY <1>1, RequestedHolds
<1>2. CASE ProcessExpiring
  BY <1>2, CertStutter DEF ProcessExpiring, CertUnchanged
<1>3. CASE RenewNext
  BY <1>3, RenewNextHolds
<1>4. CASE Step(Timer) \/ \E s \in Slot: Step(s)
  BY <1>4, StepHolds
<1>5. CASE OrphanEnds
  BY <1>5, OrphanHolds
<1>6. CASE \E c \in Cert: Age(c)
  BY <1>6, AgeHolds
<1>7. CASE ReloadElsewhere
  BY <1>7, CertStutter DEF ReloadElsewhere, CertUnchanged
<1>8. CASE RestartBackend
  BY <1>8, RestartHolds
<1>9. CASE UNCHANGED certVars
  BY <1>9, CertStutter DEF certVars, CertUnchanged
<1> QED
  BY <1>1, <1>2, <1>3, <1>4, <1>5, <1>6, <1>7, <1>8, <1>9 DEF CertNext, Renewals, Answers

\* However renewals, requests, failures and restarts meet, the timer is never told that a
\* certificate lasts longer than its files do (processExpiringHosts goes by the row).
THEOREM RowsNotAhead == CertSpec => []RowNotAheadOfFile
<1>1. CertIInv => RowNotAheadOfFile
  BY DEF CertIInv
<1> QED
  BY <1>1, CertInitHolds, CertNextHolds, PTL DEF CertSpec
=============================================================================
