------------------------------ MODULE Challenge ------------------------------
(***************************************************************************)
(* Browser challenges (security_challenge.js) and the client that solves   *)
(* them (clients/hyrovi-sec-challenge-node.mjs):                           *)
(*                                                                         *)
(*   challenges   challenges.json                                          *)
(*   conf         the include challenged-ips.geo                           *)
(*   nginx        the include the running Nginx has loaded                 *)
(*                                                                         *)
(* Operations run one at a time on a promise chain (withMutation).  Each   *)
(* first purges what has expired and brings the include up to date, then   *)
(* does its own work; include, reload and list are separate steps, each of *)
(* which may fail.  Other parts of the backend reload the same Nginx.      *)
(*                                                                         *)
(* Time is the set of challenges whose expiresAt has passed.               *)
(***************************************************************************)
EXTENDS Naturals, Sequences, FiniteSets

CONSTANTS
  Id,            \* bound: the UUIDs of the challenges ever created
  Ip,
  Client,        \* callers of fetchWithHyroviChallenge
  AddressOf,     \* the address each of them comes from
  None,          \* no such client, no challenge
  MaxAttempts,   \* MAX_VERIFY_ATTEMPTS
  MaxChallenges, \* MAX_CHALLENGES
  BypassModes,   \* values HYROVI_SEC_EMERGENCY_BYPASS takes over the restarts
  QueueBound,    \* bound: operations waiting
  FaultBound     \* bound: failing steps and crashes

ASSUME ChallengeAssumption ==
  /\ AddressOf \in [Client -> Ip] /\ None \notin Client \cup Id
  /\ MaxAttempts \in Nat \ {0} /\ MaxChallenges \in Nat
  /\ BypassModes \in (SUBSET BOOLEAN) \ {{}}
  /\ QueueBound \in Nat /\ FaultBound \in Nat

VARIABLES
  challenges, conf, nginx,
  lapsed,    \* challenges whose expiresAt has passed
  bypass,    \* the emergency bypass in force since the container started
  queue,     \* the operations chained, the head is running
  pc,        \* the step the running operation is at
  stage,     \* which apply this is: bringing up to date, purge, own work
  base,      \* `previous` of commitState: the list the operation read
  goal,      \* `next` of commitState
  was,       \* `previous` of applyGeo
  undoing,   \* inside the catch of commitState
  client,    \* per client: where it is, the challenge it holds
  faults,
  used,      \* history: challenges createChallengeRecord has made, with their addresses
  solved     \* history: challenges whose solution was acknowledged

storage == <<challenges, conf, nginx>>
locals == <<stage, base, goal, was, undoing>>
vars == <<storage, lapsed, bypass, queue, pc, locals, client, faults, used, solved>>

Ips(list) == {c.ip : c \in list}
Ids(list) == {c.id : c \in list}
ActiveChallenges(list) == {c \in list : c.id \notin lapsed}

\* renderGeo: the addresses still challenged, or none under the bypass.
RenderGeo(list) == IF bypass THEN {} ELSE Ips(ActiveChallenges(list))

Purge == [kind |-> "purge", ips |-> {}, id |-> None, by |-> None, good |-> FALSE]
Prepare == [Purge EXCEPT !.kind = "prepare"]
op == Head(queue)
Out == [pc |-> "out", got |-> None, seen |-> {}]

Init ==
  /\ challenges = {} /\ conf = {} /\ nginx = {} /\ lapsed = {}
  /\ bypass \in BypassModes
  /\ queue = <<Prepare>> /\ pc = "idle"
  /\ stage = "check" /\ base = {} /\ goal = {} /\ was = {} /\ undoing = FALSE
  /\ client = [c \in Client |-> Out]
  /\ faults = 0 /\ used = {} /\ solved = {}

-----------------------------------------------------------------------------
(* Control flow shared by the steps. *)

Fault == faults < FaultBound /\ faults' = faults + 1

Reply(answer) ==
  client' = IF op.by = None THEN client ELSE [client EXCEPT ![op.by] = answer]

\* The operation leaves the chain, by a return or a throw.
Finish(answer) ==
  /\ queue' = Tail(queue) /\ pc' = "idle"
  /\ stage' = "check" /\ base' = {} /\ goal' = {} /\ was' = {} /\ undoing' = FALSE
  /\ Reply(answer)
Throw == Finish(Out)

\* applyGeo has returned.
Applied ==
  \/ undoing /\ Throw
  \/ /\ ~undoing
     /\ pc' = IF stage = "check" THEN "main" ELSE "persist"
     /\ was' = {}
     /\ UNCHANGED <<queue, stage, base, goal, undoing, client>>

Commit(next) ==
  /\ goal' = next
  /\ stage' = "main" /\ pc' = "apply"
  /\ UNCHANGED <<storage, lapsed, bypass, queue, base, was, undoing, client, faults, solved>>

-----------------------------------------------------------------------------
(* Callers of the operations, and time. *)

\* The server listens when prepare has run.
Listening == pc # "down" /\ (queue # <<>> => op # Prepare)

Chain(o) ==
  /\ Listening /\ Len(queue) < QueueBound
  /\ queue' = Append(queue, o)
  /\ UNCHANGED <<storage, lapsed, bypass, pc, locals, faults, used, solved>>

\* challengeIps: the monitor asks for the addresses of a batch.
RequestChallenges(ips) ==
  /\ ips # {}
  /\ Chain([Purge EXCEPT !.kind = "create", !.ips = ips])
  /\ UNCHANGED client

\* removeChallenge: an administrator, or the monitor when it blocks the address.
RequestRemoval(i) ==
  /\ i \in Ids(used)
  /\ Chain([Purge EXCEPT !.kind = "remove", !.id = i])
  /\ UNCHANGED client

\* purgeExpired: the 60 s timer, and every listing.
RequestPurge == Chain(Purge) /\ UNCHANGED client

\* A wrong proof, from whoever is behind the address.
RequestGuess(i) ==
  /\ i \in Ids(used)
  /\ Chain([Purge EXCEPT !.kind = "verify", !.id = i])
  /\ UNCHANGED client

Lapse(i) ==
  /\ i \in Ids(used) \ lapsed
  /\ lapsed' = lapsed \cup {i}
  /\ UNCHANGED <<storage, bypass, queue, pc, locals, client, faults, used, solved>>

\* Host changes, blocks, certificates and the IP ranges timer reload Nginx too.
ReloadElsewhere ==
  /\ nginx' = conf
  /\ UNCHANGED <<challenges, conf, lapsed, bypass, queue, pc, locals, client, faults, used, solved>>

-----------------------------------------------------------------------------
(* fetchWithHyroviChallenge. *)

At(c, step) == client' = [client EXCEPT ![c].pc = step]

\* The first fetch: passed on, or answered 418 and sent to /challenge/page.
Fetch(c) ==
  /\ client[c].pc = "out" /\ AddressOf[c] \in nginx
  /\ At(c, "asking")
  /\ Chain([Purge EXCEPT !.kind = "page", !.by = c])

\* solveHyroviChallenge, then the POST to the verify endpoint.
Submit(c) ==
  /\ client[c].pc = "solving"
  /\ At(c, "verifying")
  /\ Chain([Purge EXCEPT !.kind = "verify", !.id = client[c].got, !.by = c, !.good = TRUE])

\* The challenge expired meanwhile, or the caller's signal aborted it.
GiveUp(c) ==
  /\ client[c].pc = "solving"
  /\ client' = [client EXCEPT ![c] = Out]
  /\ UNCHANGED <<storage, lapsed, bypass, queue, pc, locals, faults, used, solved>>

\* The retry: served, or answered with another challenge (RECHALLENGED).
Retry(c) ==
  /\ client[c].pc = "solved"
  /\ client' = [client EXCEPT ![c] = Out]
  /\ UNCHANGED <<storage, lapsed, bypass, queue, pc, locals, faults, used, solved>>

-----------------------------------------------------------------------------
(* The steps of an operation. *)

\* Faulty variant: when nothing has expired the include is taken for up to date.
BeginUnchecked ==
  /\ pc = "idle" /\ queue # <<>>
  /\ base' = challenges
  /\ goal' = ActiveChallenges(challenges)
  /\ stage' = IF goal' = challenges THEN "check" ELSE "purge"
  /\ pc' = IF goal' = challenges THEN "main" ELSE "apply"
  /\ UNCHANGED <<storage, lapsed, bypass, queue, was, undoing, client, faults, used, solved>>

\* purgeExpiredUnsafe: read the list; commit it without what has expired, or
\* only bring the include up to date.
Begin ==
  /\ pc = "idle" /\ queue # <<>>
  /\ base' = challenges
  /\ goal' = ActiveChallenges(challenges)
  /\ stage' = IF goal' = challenges THEN "check" ELSE "purge"
  /\ pc' = "apply"
  /\ UNCHANGED <<storage, lapsed, bypass, queue, was, undoing, client, faults, used, solved>>

\* applyGeo up to its first write; the text on disk may be the one wanted.
ApplyGeo ==
  LET next == RenderGeo(IF undoing THEN base ELSE goal) IN
  /\ pc = "apply"
  /\ \/ conf = next /\ Applied /\ UNCHANGED <<conf, faults>>
     \/ /\ conf # next
        /\ conf' = next /\ was' = conf /\ pc' = "reload"
        /\ UNCHANGED <<queue, stage, base, goal, undoing, client, faults>>
     \/ conf # next /\ Fault /\ Throw /\ UNCHANGED conf
  /\ UNCHANGED <<challenges, nginx, lapsed, bypass, used, solved>>

Reload ==
  /\ pc = "reload"
  /\ \/ nginx' = conf /\ Applied /\ UNCHANGED faults
     \/ /\ Fault
        /\ pc' = "restore"
        /\ UNCHANGED <<nginx, queue, locals, client>>
  /\ UNCHANGED <<challenges, conf, lapsed, bypass, used, solved>>

\* The catch of applyGeo: write the previous text back, if that works reload
\* once more, whatever comes of it, and throw.
Restore ==
  /\ pc = "restore"
  /\ \/ conf' = was /\ nginx' \in {nginx, was} /\ UNCHANGED faults
     \/ Fault /\ UNCHANGED <<conf, nginx>>
  /\ Throw
  /\ UNCHANGED <<challenges, lapsed, bypass, used, solved>>

\* commitState writes the list; if it cannot, it puts the include back.
Persist ==
  /\ pc = "persist"
  /\ \/ /\ challenges' = goal
        /\ IF stage = "purge"
           THEN /\ base' = goal /\ stage' = "check" /\ pc' = "main"
                /\ UNCHANGED <<queue, goal, was, undoing, client, solved>>
           ELSE LET accepted == op.kind = "verify" IN
                /\ solved' = IF accepted THEN solved \cup {op.id} ELSE solved
                /\ Finish([client[op.by] EXCEPT !.pc = "solved", !.seen = used])
        /\ UNCHANGED faults
     \/ /\ Fault
        /\ undoing' = TRUE /\ pc' = "apply"
        /\ UNCHANGED <<challenges, queue, stage, base, goal, was, client, solved>>
  /\ UNCHANGED <<conf, nginx, lapsed, bypass, used>>

-----------------------------------------------------------------------------
(* What each operation does with the purged list, which is `goal`. *)

Named == {c \in goal : c.id = op.id}
Missing == op.ips \ Ips(goal)
Settled == UNCHANGED <<storage, lapsed, bypass, faults, used, solved>>

Listed ==
  /\ pc = "main" /\ op.kind \in {"purge", "prepare"}
  /\ Finish(Out) /\ Settled

\* getChallengeForIp; a challenge without attempts left is given up at once.
ShowPage ==
  /\ pc = "main" /\ op.kind = "page"
  /\ \/ \E c \in goal :
          /\ c.ip = AddressOf[op.by] /\ c.attempts < MaxAttempts
          /\ Finish([Out EXCEPT !.pc = "solving", !.got = c.id])
     \/ /\ \A c \in goal : c.ip = AddressOf[op.by] => c.attempts >= MaxAttempts
        /\ Throw
  /\ Settled

\* Faulty variant: existing challenges are not looked at.
CreateAgain ==
  /\ pc = "main" /\ op.kind = "create"
  /\ \E uuid \in [op.ips -> Id \ Ids(used)] :
       /\ \A a, b \in op.ips : uuid[a] = uuid[b] => a = b
       /\ used' = used \cup {[id |-> uuid[a], ip |-> a] : a \in op.ips}
       /\ Commit(goal \cup {[id |-> uuid[a], ip |-> a, attempts |-> 0] : a \in op.ips})

\* One new record per address that has none; the batch fails as a whole when
\* the list would grow too long (or when the bound leaves no fresh name).
CreateChallenges ==
  /\ pc = "main" /\ op.kind = "create"
  /\ Missing # {} /\ Cardinality(goal) + Cardinality(Missing) <= MaxChallenges
  /\ \E uuid \in [Missing -> Id \ Ids(used)] :
       /\ \A a, b \in Missing : uuid[a] = uuid[b] => a = b
       /\ used' = used \cup {[id |-> uuid[a], ip |-> a] : a \in Missing}
       /\ Commit(goal \cup {[id |-> uuid[a], ip |-> a, attempts |-> 0] : a \in Missing})

NothingToCreate ==
  /\ pc = "main" /\ op.kind = "create"
  /\ \/ Missing = {}
     \/ Cardinality(goal) + Cardinality(Missing) > MaxChallenges
     \/ Cardinality(Missing) > Cardinality(Id \ Ids(used))
  /\ Throw /\ Settled

RemoveChallenge ==
  /\ pc = "main" /\ op.kind = "remove" /\ Named # {}
  /\ Commit(goal \ Named) /\ UNCHANGED used

\* Nobody has to be told: the challenge is gone, or its attempts are used up.
NotFound ==
  /\ pc = "main" /\ op.kind \in {"remove", "verify"} /\ Named = {}
  /\ Throw /\ Settled

Exhausted ==
  /\ pc = "main" /\ op.kind = "verify"
  /\ \E c \in Named : c.attempts >= MaxAttempts
  /\ Throw /\ Settled

\* Faulty variant: the list is written without the include, as for a wrong proof.
AcceptListOnly ==
  /\ pc = "main" /\ op.kind = "verify" /\ op.good
  /\ Named # {} /\ \A c \in Named : c.attempts < MaxAttempts
  /\ challenges' = goal \ Named
  /\ solved' = solved \cup {op.id}
  /\ Finish([client[op.by] EXCEPT !.pc = "solved", !.seen = used])
  /\ UNCHANGED <<conf, nginx, lapsed, bypass, faults, used>>

AcceptProof ==
  /\ pc = "main" /\ op.kind = "verify" /\ op.good
  /\ Named # {} /\ \A c \in Named : c.attempts < MaxAttempts
  /\ Commit(goal \ Named) /\ UNCHANGED used

\* A wrong proof is counted by a write of its own.
CountAttempt ==
  /\ pc = "main" /\ op.kind = "verify" /\ ~op.good
  /\ Named # {} /\ \A c \in Named : c.attempts < MaxAttempts
  /\ \/ /\ challenges' = (goal \ Named) \cup {[c EXCEPT !.attempts = @ + 1] : c \in Named}
        /\ UNCHANGED faults
     \/ Fault /\ UNCHANGED challenges
  /\ Throw
  /\ UNCHANGED <<conf, nginx, lapsed, bypass, used, solved>>

-----------------------------------------------------------------------------
(* Restarts. *)

\* The callers' connections break.
Disconnect ==
  client' = [c \in Client |-> IF client[c].pc \in {"asking", "verifying"} THEN Out ELSE client[c]]

Die ==
  /\ pc' = "down" /\ queue' = <<>>
  /\ stage' = "check" /\ base' = {} /\ goal' = {} /\ was' = {} /\ undoing' = FALSE
  /\ Disconnect

Crash ==
  /\ pc # "down" /\ Fault /\ Die
  /\ UNCHANGED <<storage, lapsed, bypass, used, solved>>

\* The prepare phase empties the include under the bypass; Nginx starts from it.
RestartContainer ==
  /\ Fault /\ Die
  /\ bypass' \in BypassModes
  /\ conf' = IF bypass' THEN {} ELSE conf
  /\ nginx' = conf'
  /\ UNCHANGED <<challenges, lapsed, used, solved>>

StartBackend ==
  /\ pc = "down"
  /\ pc' = "idle" /\ queue' = <<Prepare>>
  /\ UNCHANGED <<storage, lapsed, bypass, locals, client, faults, used, solved>>

-----------------------------------------------------------------------------
Operate ==
  \/ Begin \/ ApplyGeo \/ Reload \/ Restore \/ Persist
  \/ Listed \/ ShowPage \/ CreateChallenges \/ NothingToCreate \/ RemoveChallenge
  \/ NotFound \/ Exhausted \/ AcceptProof \/ CountAttempt

Next ==
  \/ Operate
  \/ \E ips \in SUBSET Ip : RequestChallenges(ips)
  \/ \E i \in Id : RequestRemoval(i) \/ RequestGuess(i) \/ Lapse(i)
  \/ RequestPurge \/ ReloadElsewhere
  \/ \E c \in Client : Fetch(c) \/ Submit(c) \/ GiveUp(c) \/ Retry(c)
  \/ Crash \/ RestartContainer \/ StartBackend

Spec == Init /\ [][Next]_vars

\* Awaited steps return, s6 starts the backend, time passes, the purge timer and
\* the IP ranges timer do not stop.  Requests and clients are not fair.
Fairness ==
  /\ WF_vars(Operate) /\ WF_vars(StartBackend)
  /\ \A i \in Id : WF_vars(Lapse(i))
  /\ SF_vars(RequestPurge)
  /\ WF_vars(ReloadElsewhere)
LiveSpec == Spec /\ Fairness

-----------------------------------------------------------------------------
\* A client that was told "solved" is let through when it retries, unless a new
\* challenge of its address was made since, or the solved one has expired: no
\* undoing, restart or reload by others brings the old one back to Nginx.
SolvedIsLetThrough ==
  \A c \in Client : client[c].pc = "solved" /\ AddressOf[c] \in nginx =>
    \/ client[c].got \in lapsed
    \/ \E new \in used \ client[c].seen : new.ip = AddressOf[c]

\* Whatever fails, wherever the backend dies, no address stays challenged for
\* ever: solved, removed or expired challenges leave the running Nginx.
EventuallyReleased == \A a \in Ip : a \in nginx ~> a \notin nginx

\* Every write of challenges.json is one promised change of the open challenges.
Promise == INSTANCE ChallengeList WITH open <- challenges
ImplementsPromise == Promise!Spec
=============================================================================
