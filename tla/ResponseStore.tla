--------------------------- MODULE ResponseStore ---------------------------
(***************************************************************************)
(* How HYROVI Sec makes one list of responses (hard blocks; rate limits go *)
(* through line-for-line twins) durable and enforced:                      *)
(*                                                                         *)
(*   blocks   blocks.json, the durable list                                *)
(*   conf     the generated include blocked-ips.conf                       *)
(*   nginx    the include the running Nginx has loaded                     *)
(*                                                                         *)
(* Every Node process that imports internal/security.js has a promise      *)
(* chain of its own (securityConfigMutationQueue) which runs the           *)
(* operations one at a time.  One operation is several awaited steps: read *)
(* the list, write the include, reload Nginx, write the list, and the      *)
(* undoing of these.  Each step may fail, and the process may die between  *)
(* any two of them while Nginx keeps running.                              *)
(*                                                                         *)
(* Time is the set of responses whose expiresAt has passed.                *)
(***************************************************************************)
EXTENDS Naturals, Sequences, FiniteSets

CONSTANTS
  Process,       \* Node processes that have the module loaded
  Backend,       \* the one of them started by the s6 backend service
  Response,      \* response records; each gets a fresh UUID when created
  Target,        \* addresses and CIDRs
  TargetOf,      \* the ip field of each record
  BypassNotice,  \* the comment line rendered under the emergency bypass
  BypassModes,   \* values HYROVI_SEC_EMERGENCY_BYPASS takes over the restarts
  QueueBound,    \* bound: operations waiting in one process
  FaultBound,    \* bound: failing steps in one operation
  Crashes,       \* whether a process may die
  Restarts       \* whether the container may be recreated

ASSUME BackendAssumption == Backend \in Process
ASSUME TargetAssumption == TargetOf \in [Response -> Target]
ASSUME NoticeAssumption == BypassNotice \notin Response
ASSUME BypassAssumption == BypassModes \in (SUBSET BOOLEAN) \ {{}}
ASSUME BoundAssumption ==
  /\ QueueBound \in Nat
  /\ FaultBound \in Nat
  /\ Crashes \in BOOLEAN /\ Restarts \in BOOLEAN

VARIABLES
  blocks, conf, nginx,
  expired,   \* responses whose expiresAt has passed
  bypass,    \* the emergency bypass in force since the container started
  queue,     \* per process: the operations chained, the head is running
  pc,        \* per process: the step the running operation is at
  stage,     \* per process: is the running commit a purge or the operation's own
  base,      \* per process: previousBlocks of commitBlockState
  goal,      \* per process: nextBlocks of commitBlockState
  was,       \* per process: `previous` of applyBlockConfig
  undoing,   \* per process: inside the catch of commitBlockState
  faults,    \* per process: steps of the running operation that failed
  issued,    \* records somebody asked for (each request takes a new one)
  created,   \* history: records createBlockRecord has made
  lifting,   \* history: records whose removal has been started
  added,     \* history: records whose creation was acknowledged
  removed,   \* history: records whose removal was acknowledged
  calm       \* history: no process has died so far

storage == <<blocks, conf, nginx>>
process == <<queue, pc, stage, base, goal, was, undoing, faults>>
history == <<issued, created, lifting, added, removed, calm>>
vars == <<storage, expired, bypass, process, history>>

Line == Response \cup {BypassNotice}
Steps == {"down", "idle", "main", "apply", "reload", "restore", "again", "persist"}

\* The operations on the chain; a purge and the reconciliation name no record.
Purge == [kind |-> "purge", id |-> BypassNotice]
Sync == [kind |-> "sync", id |-> BypassNotice]
Operation == [kind : {"add", "remove"}, id : Response] \cup {Purge, Sync}

Active(list) == list \ expired

\* renderBlockConfig: the responses still active, or the notice alone.
Render(list) == IF bypass THEN {BypassNotice} ELSE Active(list)

Running(p) == Head(queue[p])

Init ==
  /\ blocks = {} /\ conf = {} /\ nginx = {} /\ expired = {}
  /\ bypass \in BypassModes
  /\ queue = [p \in Process |-> <<>>]
  /\ pc = [p \in Process |-> "down"]
  /\ stage = [p \in Process |-> "main"]
  /\ base = [p \in Process |-> {}]
  /\ goal = [p \in Process |-> {}]
  /\ was = [p \in Process |-> {}]
  /\ undoing = [p \in Process |-> FALSE]
  /\ faults = [p \in Process |-> 0]
  /\ issued = {} /\ created = {} /\ lifting = {} /\ added = {} /\ removed = {}
  /\ calm = TRUE

-----------------------------------------------------------------------------
\* Control flow shared by the steps

\* Faulty variant: the operation ends without leaving the chain.
FinishAndRepeat(p) ==
  /\ pc' = [pc EXCEPT ![p] = "idle"]
  /\ undoing' = [undoing EXCEPT ![p] = FALSE]
  /\ UNCHANGED queue

\* The running operation leaves the chain, by a return or by a throw.
Finish(p) ==
  /\ pc' = [pc EXCEPT ![p] = "idle"]
  /\ queue' = [queue EXCEPT ![p] = Tail(@)]
  /\ undoing' = [undoing EXCEPT ![p] = FALSE]

\* The operation returns to its caller: what it did is acknowledged.
Acknowledge(p) ==
  LET op == Running(p) IN
  /\ added' = IF op.kind = "add" THEN added \cup {op.id} ELSE added
  /\ removed' = IF op.kind = "remove" THEN removed \cup {op.id} ELSE removed

\* A step throws, within the number of faults the instance allows.
Fault(p) ==
  /\ faults[p] < FaultBound
  /\ faults' = [faults EXCEPT ![p] = @ + 1]

\* applyBlockConfig has returned.
Applied(p) ==
  IF undoing[p] \/ (Running(p).kind = "sync" /\ stage[p] = "main")
  THEN Finish(p)
  ELSE /\ pc' = [pc EXCEPT ![p] = "persist"]
       /\ UNCHANGED <<queue, undoing>>

-----------------------------------------------------------------------------
\* Requests, timers and time

\* The server listens and the timers start when prepare has run.
Chain(p, op) ==
  /\ pc[p] # "down"
  /\ Len(queue[p]) < QueueBound
  /\ queue[p] # <<>> => Running(p) # Sync
  /\ queue' = [queue EXCEPT ![p] = Append(@, op)]
  /\ UNCHANGED <<storage, expired, bypass, pc, stage, base, goal, was, undoing, faults,
                 created, lifting, added, removed, calm>>

\* blockIp.  The record the request will make, if it makes one, is picked here.
RequestAdd(p, r) ==
  /\ r \notin issued
  /\ issued' = issued \cup {r}
  /\ Chain(p, [kind |-> "add", id |-> r])

\* unblockIp: the caller names a record it has seen listed.
RequestRemove(p, r) ==
  /\ r \in added
  /\ Chain(p, [kind |-> "remove", id |-> r])
  /\ UNCHANGED issued

\* purgeExpired: the 60 s timer, and every listing of the blocks.
RequestPurge(p) == Chain(p, Purge) /\ UNCHANGED issued

Expire(r) ==
  /\ r \in created \ expired
  /\ expired' = expired \cup {r}
  /\ UNCHANGED <<storage, bypass, process, history>>

-----------------------------------------------------------------------------
\* The steps of an operation

\* Faulty variant: the list is taken as it is, expired records included.
BeginWithoutPurge(p) ==
  /\ pc[p] = "idle" /\ queue[p] # <<>>
  /\ base' = [base EXCEPT ![p] = blocks]
  /\ goal' = [goal EXCEPT ![p] = blocks]
  /\ faults' = [faults EXCEPT ![p] = 0]
  /\ stage' = [stage EXCEPT ![p] = "main"]
  /\ pc' = [pc EXCEPT ![p] = IF Running(p) = Sync THEN "apply" ELSE "main"]
  /\ UNCHANGED <<storage, expired, bypass, queue, was, undoing, history>>

\* purgeExpiredUnsafe (or synchronizeBlockConfigUnsafe at startup): read the
\* list; when something in it has expired, commit the rest of it first.
Begin(p) ==
  /\ pc[p] = "idle" /\ queue[p] # <<>>
  /\ base' = [base EXCEPT ![p] = blocks]
  /\ goal' = [goal EXCEPT ![p] = Active(blocks)]
  /\ faults' = [faults EXCEPT ![p] = 0]
  /\ \/ /\ blocks \cap expired # {}
        /\ stage' = [stage EXCEPT ![p] = "purge"]
        /\ pc' = [pc EXCEPT ![p] = "apply"]
     \/ /\ blocks \cap expired = {}
        /\ stage' = [stage EXCEPT ![p] = "main"]
        /\ pc' = [pc EXCEPT ![p] = IF Running(p) = Sync THEN "apply" ELSE "main"]
  /\ UNCHANGED <<storage, expired, bypass, queue, was, undoing, history>>

\* The operation has nothing to commit: purgeExpiredUnsafe found nothing
\* expired, addBlockUnsafe found the target listed, unblockIp did not find it.
NothingToDo(p) ==
  LET op == Running(p) IN
  /\ pc[p] = "main"
  /\ \/ op.kind = "purge"
     \/ op.kind = "add" /\ \E b \in base[p] : TargetOf[b] = TargetOf[op.id]
     \/ op.kind = "remove" /\ op.id \notin base[p]
  /\ Finish(p)
  /\ UNCHANGED <<storage, expired, bypass, stage, base, goal, was, faults, history>>

\* Faulty variant: no test for a record of the same address.
AddBlockTwice(p) ==
  LET op == Running(p) IN
  /\ pc[p] = "main" /\ op.kind = "add"
  /\ op.id \notin created
  /\ created' = created \cup {op.id}
  /\ goal' = [goal EXCEPT ![p] = base[p] \cup {op.id}]
  /\ pc' = [pc EXCEPT ![p] = "apply"]
  /\ UNCHANGED <<storage, expired, bypass, queue, stage, base, was, undoing, faults,
                 issued, lifting, added, removed, calm>>

\* Faulty variant: the new record replaces the list.
AddBlockAlone(p) ==
  LET op == Running(p) IN
  /\ pc[p] = "main" /\ op.kind = "add"
  /\ op.id \notin created
  /\ created' = created \cup {op.id}
  /\ \A b \in base[p] : TargetOf[b] # TargetOf[op.id]
  /\ goal' = [goal EXCEPT ![p] = {op.id}]
  /\ pc' = [pc EXCEPT ![p] = "apply"]
  /\ UNCHANGED <<storage, expired, bypass, queue, stage, base, was, undoing, faults,
                 issued, lifting, added, removed, calm>>

\* addBlockUnsafe: commitBlockState(blocks, [...blocks, block]), with a record
\* no other operation has made.
AddBlock(p) ==
  LET op == Running(p) IN
  /\ pc[p] = "main" /\ op.kind = "add"
  /\ op.id \notin created
  /\ created' = created \cup {op.id}
  /\ \A b \in base[p] : TargetOf[b] # TargetOf[op.id]
  /\ goal' = [goal EXCEPT ![p] = base[p] \cup {op.id}]
  /\ pc' = [pc EXCEPT ![p] = "apply"]
  /\ UNCHANGED <<storage, expired, bypass, queue, stage, base, was, undoing, faults,
                 issued, lifting, added, removed, calm>>

\* unblockIp: commitBlockState(blocks, blocks.filter(...)).
RemoveBlock(p) ==
  LET op == Running(p) IN
  /\ pc[p] = "main" /\ op.kind = "remove" /\ op.id \in base[p]
  /\ lifting' = lifting \cup {op.id}
  /\ goal' = [goal EXCEPT ![p] = base[p] \ {op.id}]
  /\ pc' = [pc EXCEPT ![p] = "apply"]
  /\ UNCHANGED <<storage, expired, bypass, queue, stage, base, was, undoing, faults,
                 issued, created, added, removed, calm>>

\* applyBlockConfig up to its first write.  The text on disk may already be
\* the one wanted, and then Nginx is not reloaded.
Apply(p) ==
  LET next == Render(IF undoing[p] THEN base[p] ELSE goal[p]) IN
  /\ pc[p] = "apply"
  /\ \/ /\ conf = next
        /\ Applied(p)
        /\ UNCHANGED <<conf, was, faults>>
     \/ /\ conf # next
        /\ was' = [was EXCEPT ![p] = conf]
        /\ conf' = next
        /\ pc' = [pc EXCEPT ![p] = "reload"]
        /\ UNCHANGED <<queue, undoing, faults>>
     \/ /\ conf # next
        /\ Fault(p)
        /\ Finish(p)
        /\ UNCHANGED <<conf, was>>
  /\ UNCHANGED <<blocks, nginx, expired, bypass, stage, base, goal, history>>

\* Faulty variant: a failing reload is ignored.
ReloadUnchecked(p) ==
  /\ pc[p] = "reload"
  /\ \/ nginx' = conf /\ UNCHANGED faults
     \/ Fault(p) /\ UNCHANGED nginx
  /\ Applied(p)
  /\ UNCHANGED <<blocks, conf, expired, bypass, stage, base, goal, was, history>>

\* internalNginx.reload: `nginx -t` and then `nginx -s reload`.
Reload(p) ==
  /\ pc[p] = "reload"
  /\ \/ nginx' = conf /\ Applied(p) /\ UNCHANGED faults
     \/ /\ Fault(p)
        /\ pc' = [pc EXCEPT ![p] = "restore"]
        /\ UNCHANGED <<nginx, queue, undoing>>
  /\ UNCHANGED <<blocks, conf, expired, bypass, stage, base, goal, was, history>>

\* Faulty variant: an empty include is written back.
RestoreEmpty(p) ==
  /\ pc[p] = "restore"
  /\ conf' = {}
  /\ pc' = [pc EXCEPT ![p] = "again"]
  /\ UNCHANGED <<blocks, nginx, expired, bypass, queue, stage, base, goal, was, undoing, faults, history>>

\* The catch of applyBlockConfig: write the previous text back ...
Restore(p) ==
  /\ pc[p] = "restore"
  /\ \/ /\ conf' = was[p]
        /\ pc' = [pc EXCEPT ![p] = "again"]
        /\ UNCHANGED <<queue, undoing, faults>>
     \/ Fault(p) /\ Finish(p) /\ UNCHANGED conf
  /\ UNCHANGED <<blocks, nginx, expired, bypass, stage, base, goal, was, history>>

\* ... and reload once more, whatever comes of it.
ReloadAgain(p) ==
  /\ pc[p] = "again"
  /\ nginx' \in {nginx, conf}
  /\ Finish(p)
  /\ UNCHANGED <<blocks, conf, expired, bypass, stage, base, goal, was, faults, history>>

\* Faulty variants: a failing write is reported as done, or is not undone.
PersistUnchecked(p) ==
  /\ pc[p] = "persist"
  /\ blocks' = goal[p] \/ blocks' = blocks
  /\ Finish(p) /\ Acknowledge(p)
  /\ UNCHANGED <<conf, nginx, expired, bypass, stage, base, goal, was, faults, issued, created, lifting, calm>>

PersistWithoutUndo(p) ==
  /\ pc[p] = "persist"
  /\ \/ blocks' = goal[p] /\ Acknowledge(p) /\ UNCHANGED faults
     \/ Fault(p) /\ UNCHANGED <<blocks, added, removed>>
  /\ Finish(p)
  /\ UNCHANGED <<conf, nginx, expired, bypass, stage, base, goal, was, issued, created, lifting, calm>>

\* commitBlockState writes the list; if it cannot, it puts Nginx back.  After
\* a purge an add or a remove goes on with what is left.
Persist(p) ==
  /\ pc[p] = "persist"
  /\ \/ /\ blocks' = goal[p]
        /\ IF stage[p] = "purge" /\ Running(p).kind \in {"add", "remove"}
           THEN /\ stage' = [stage EXCEPT ![p] = "main"]
                /\ base' = [base EXCEPT ![p] = goal[p]]
                /\ pc' = [pc EXCEPT ![p] = "main"]
                /\ UNCHANGED <<queue, undoing, added, removed>>
           ELSE Finish(p) /\ Acknowledge(p) /\ UNCHANGED <<stage, base>>
        /\ UNCHANGED faults
     \/ /\ Fault(p)
        /\ undoing' = [undoing EXCEPT ![p] = TRUE]
        /\ pc' = [pc EXCEPT ![p] = "apply"]
        /\ UNCHANGED <<blocks, queue, stage, base, added, removed>>
  /\ UNCHANGED <<conf, nginx, expired, bypass, goal, was, issued, created, lifting, calm>>

-----------------------------------------------------------------------------
\* Restarts

\* A process dies with its chain; the files and Nginx stay as they are.
Crash(p) ==
  /\ Crashes /\ pc[p] # "down"
  /\ pc' = [pc EXCEPT ![p] = "down"]
  /\ queue' = [queue EXCEPT ![p] = <<>>]
  /\ undoing' = [undoing EXCEPT ![p] = FALSE]
  /\ calm' = FALSE
  /\ UNCHANGED <<storage, expired, bypass, stage, base, goal, was, faults,
                 issued, created, lifting, added, removed>>

\* Faulty variant: the process waits in a state of its own.
StartPending(p) ==
  /\ pc[p] = "down"
  /\ pc' = [pc EXCEPT ![p] = "starting"]
  /\ UNCHANGED <<storage, expired, bypass, queue, stage, base, goal, was, undoing, faults, history>>

\* The s6 loop starts the backend again and prepare reconciles; any other
\* process imports the module without prepare.
Start(p) ==
  /\ pc[p] = "down"
  /\ pc' = [pc EXCEPT ![p] = "idle"]
  /\ queue' = [queue EXCEPT ![p] = IF p = Backend THEN <<Sync>> ELSE <<>>]
  /\ UNCHANGED <<storage, expired, bypass, stage, base, goal, was, undoing, faults, history>>

\* Faulty variant: the prepare phase leaves the include as it is.
RestartWithInclude ==
  /\ Restarts
  /\ bypass' \in BypassModes
  /\ nginx' = conf
  /\ pc' = [p \in Process |-> "down"]
  /\ queue' = [p \in Process |-> <<>>]
  /\ undoing' = [p \in Process |-> FALSE]
  /\ calm' = FALSE
  /\ UNCHANGED <<blocks, conf, expired, stage, base, goal, was, faults,
                 issued, created, lifting, added, removed>>

\* The container is recreated: the prepare phase clears the include when the
\* bypass is set, then Nginx starts from the files.
RestartContainer ==
  /\ Restarts
  /\ bypass' \in BypassModes
  /\ conf' = IF bypass' THEN {} ELSE conf
  /\ nginx' = conf'
  /\ pc' = [p \in Process |-> "down"]
  /\ queue' = [p \in Process |-> <<>>]
  /\ undoing' = [p \in Process |-> FALSE]
  /\ calm' = FALSE
  /\ UNCHANGED <<blocks, expired, stage, base, goal, was, faults,
                 issued, created, lifting, added, removed>>

Operate(p) ==
  \/ Begin(p) \/ NothingToDo(p) \/ AddBlock(p) \/ RemoveBlock(p)
  \/ Apply(p) \/ Reload(p) \/ Restore(p) \/ ReloadAgain(p) \/ Persist(p)

Next ==
  \/ \E p \in Process : RequestPurge(p) \/ Operate(p) \/ Crash(p) \/ Start(p)
  \/ \E p \in Process, r \in Response : RequestAdd(p, r) \/ RequestRemove(p, r)
  \/ \E r \in Response : Expire(r)
  \/ RestartContainer

Spec == Init /\ [][Next]_vars
\* A process left alone runs its chain to the end.  A write or a reload that is
\* tried again and again succeeds now and then; the purge timer does not stop.
Fairness ==
  \A p \in Process :
    /\ WF_vars(Operate(p)) /\ WF_vars(Start(p))
    /\ SF_vars(Apply(p) /\ pc'[p] \in {"reload", "persist"})
    /\ SF_vars(Reload(p) /\ nginx' = conf)
    /\ SF_vars(Persist(p) /\ blocks' = goal[p])
    /\ SF_vars(RequestPurge(p))

LiveSpec == Spec /\ Fairness

-----------------------------------------------------------------------------
TypeOK ==
  /\ blocks \subseteq Response
  /\ conf \subseteq Line /\ nginx \subseteq Line
  /\ expired \subseteq Response
  /\ bypass \in BOOLEAN
  /\ queue \in [Process -> Seq(Operation)]
  /\ pc \in [Process -> Steps]
  /\ stage \in [Process -> {"purge", "main"}]
  /\ base \in [Process -> SUBSET Response]
  /\ goal \in [Process -> SUBSET Response]
  /\ was \in [Process -> SUBSET Line]
  /\ undoing \in [Process -> BOOLEAN]
  /\ faults \in [Process -> Nat]
  /\ issued \subseteq Response /\ created \subseteq Response
  /\ lifting \subseteq Response /\ added \subseteq Response /\ removed \subseteq Response
  /\ calm \in BOOLEAN

\* A block whose creation returned to the administrator stays in blocks.json
\* until it expires or its removal is started, and a block whose removal
\* returned never comes back: no failing step, restart or other operation of
\* the chain (commitBlockState, purgeExpiredUnsafe, prepare) undoes either.
AcknowledgedIsDurable ==
  /\ added \ (expired \cup lifting) \subseteq blocks
  /\ removed \cap blocks = {}

\* From its acknowledgement until it expires or its removal is started, a
\* block is in the configuration Nginx is running, at every moment: neither a
\* failed reload, nor its undoing, nor a crash anywhere in applyBlockConfig or
\* commitBlockState of another operation opens a gap.
EnforcedUntilLifted ==
  added \ (expired \cup lifting) \subseteq nginx

\* addBlockUnsafe keeps one record per address: the test against the list
\* read at the start of the operation is enough.
OneRecordPerTarget ==
  \A a, b \in blocks : TargetOf[a] = TargetOf[b] => a = b

\* "Transactional rollback if Nginx validation/reload or durable response-state
\* persistence fails" (HYROVI_SEC.md): if at most one step of each operation
\* fails and no process dies, then between two operations the include is what
\* Nginx runs, and holds exactly the listed blocks that have not expired.
RollbackIsTransactional ==
  \A p \in Process :
    calm /\ pc[p] = "idle" /\ (queue[p] # <<>> => Running(p) # Sync) =>
      /\ conf = nginx
      /\ (conf \cap Response) \ expired = Render(blocks) \cap Response

\* Under the emergency bypass Nginx enforces nothing, whatever is written,
\* undone or restarted while it lasts (renderBlockConfig, 20-paths.sh).
BypassSuspends == bypass => nginx \cap Response = {}

\* "Nginx is validated/reloaded before a new rate-limit or block state is
\* considered successful" (HYROVI_SEC.md): when a record enters blocks.json the
\* running Nginx already enforces it, unless it expired in between.
EnforcedBeforeDurable ==
  [][bypass \/ blocks' \ blocks \subseteq nginx \cup expired]_vars

\* The reconciliation at startup ends, and a chain with as many operations
\* waiting as the bound allows makes room again: a failing operation leaves the
\* chain and never blocks those behind it (withSecurityConfigMutation).
Waited(p) == queue[p] = <<Sync>> \/ (QueueBound > 0 /\ Len(queue[p]) = QueueBound)
ChainServes == \A p \in Process : Waited(p) ~> ~Waited(p)

\* An expired block is eventually taken out of the running Nginx by the purge
\* timer, though each operation may have a failing write or reload, if no process
\* dies and nothing fails in the undoing of a failure.  Otherwise the wanted text
\* may be on disk without being loaded, and applyBlockConfig returns early for it.
Mild == calm /\ \A p \in Process : faults[p] <= 1
ExpiryIsEnforced ==
  []Mild => \A r \in Response : r \in expired ~> r \notin nginx

\* Every write of blocks.json is one whole operation on the list that is there:
\* no update is lost, none is applied twice, a record only leaves by its own
\* removal or by expiry (commitBlockState under the promise chain).
List == INSTANCE ResponseList WITH list <- blocks
ImplementsList == List!Spec
=============================================================================
