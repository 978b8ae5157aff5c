--------------------------- MODULE ChallengeProofs ---------------------------
(***************************************************************************)
(* What browser challenges guarantee for every set of addresses, clients   *)
(* and challenges, any number of waiting operations, and any number of     *)
(* failing steps and crashes: the file keeps the promise of ChallengeList, *)
(* and a client whose proof was accepted is let through.                   *)
(***************************************************************************)
EXTENDS Challenge, SequenceTheorems, TLAPS
-----------------------------------------------------------------------------
\* The invariant

Open == [id : Id, ip : Ip, attempts : Nat]
Name == [id : Id, ip : Ip]
Operation ==
  [kind : {"purge", "prepare", "create", "remove", "verify", "page"}, ips : SUBSET Ip,
   id : Id \cup {None}, by : Client \cup {None}, good : BOOLEAN]
Caller == [pc : {"out", "asking", "solving", "verifying", "solved"}, got : Id \cup {None},
           seen : SUBSET Name]

Types ==
  /\ challenges \subseteq Open /\ goal \subseteq Open /\ used \subseteq Name
  /\ queue \in Seq(Operation) /\ client \in [Client -> Caller]

\* An operation is running.
Busy == pc \notin {"idle", "down"}

NameOf(c) == [id |-> c.id, ip |-> c.ip]
Distinct(list) == \A c, d \in list : c.ip = d.ip \/ c.id = d.id => c = d

\* There is one challenge per address and per name in the file, no solved one is
\* among them, and a name is given once.
ListInv ==
  /\ Distinct(challenges)
  /\ \A c \in challenges : NameOf(c) \in used /\ c.id \notin solved
  /\ \A a, b \in used : a.id = b.id => a = b
  /\ solved \subseteq Ids(used)

\* What an operation that has done its own work is about to write.
Committing ==
  \/ op.kind = "remove" /\ goal \subseteq challenges
  \/ /\ op.kind = "create" /\ challenges \subseteq goal /\ Distinct(goal)
     /\ \A c \in goal \ challenges : c.attempts = 0 /\ NameOf(c) \in used /\ c.id \notin solved
  \/ /\ op.kind = "verify"
     /\ \E c \in challenges : c.id = op.id /\ c.attempts < MaxAttempts /\ goal = challenges \ {c}

\* A running operation still knows the file: nobody else writes it.
PhaseInv ==
  /\ Busy => /\ queue # <<>> /\ base = challenges
             /\ stage = "check" => goal = challenges
             /\ stage = "purge" => goal \subseteq challenges
             /\ stage = "main" => Committing
             /\ stage \in {"check", "purge", "main"}
  /\ pc = "main" => stage = "check"
  /\ pc = "persist" => stage # "check"

\* A client waits for the one operation it has on the chain, about the challenge
\* it holds, which is one of its address.
ClientInv ==
  /\ \A i \in DOMAIN queue : queue[i].by # None =>
       \/ queue[i].kind = "page" /\ client[queue[i].by].pc = "asking"
       \/ /\ queue[i].kind = "verify" /\ client[queue[i].by].pc = "verifying"
          /\ queue[i].id = client[queue[i].by].got
  /\ \A i, j \in DOMAIN queue : i # j /\ queue[i].by = queue[j].by => queue[i].by = None
  /\ \A c \in Client :
       /\ client[c].pc \in {"solving", "verifying", "solved"} =>
            [id |-> client[c].got, ip |-> AddressOf[c]] \in used
       /\ client[c].seen \subseteq used

\* The include names every open challenge when an operation comes to its own
\* work; so the work of a proof that is accepted changes the include, and has to
\* reload Nginx before the list is written.
IncludeInv ==
  /\ bypass => conf = {} /\ nginx = {} /\ was = {}
  /\ pc = "main" \/ (pc = "persist" /\ stage = "purge") \/ (pc = "reload" /\ ~undoing) =>
       bypass \/ Ips(ActiveChallenges(goal)) \subseteq conf
  /\ pc = "persist" => ~undoing
  /\ Busy /\ stage = "main" /\ op.kind = "verify" /\ ~undoing =>
       \A c \in challenges : c.id = op.id =>
         \/ c.id \in lapsed
         \/ /\ pc = "apply" => bypass \/ c.ip \in conf
            /\ pc = "reload" => c.ip \notin conf
            /\ pc = "persist" => c.ip \notin conf /\ c.ip \notin nginx

\* The places a solved challenge could come back from: it is in none of them.
Places == conf \cup nginx \cup was \cup Ips(challenges) \cup Ips(goal) \cup Ips(base)
Excused(c) ==
  \/ client[c].got \in lapsed
  \/ \E new \in used \ client[c].seen : new.ip = AddressOf[c]
SolvedInv ==
  \A c \in Client : client[c].pc = "solved" => Excused(c) \/ AddressOf[c] \notin Places

CoreInv == Types /\ ListInv /\ PhaseInv
ChallengeInv == CoreInv /\ ClientInv /\ IncludeInv /\ SolvedInv

-----------------------------------------------------------------------------
\* The promise of ChallengeList

\* An operation is chained behind those that wait.
LEMMA Enqueue ==
  ASSUME Types, NEW o \in Operation, queue' = Append(queue, o)
  PROVE  /\ queue' \in Seq(Operation) /\ queue' # <<>>
         /\ queue # <<>> => op' = op
         /\ DOMAIN queue' = DOMAIN queue \cup {Len(queue) + 1}
         /\ Len(queue) + 1 \notin DOMAIN queue /\ queue'[Len(queue) + 1] = o
         /\ \A i \in DOMAIN queue : queue'[i] = queue[i]
  <1>1. queue \in Seq(Operation)
    BY DEF Types
  <1> QED
    BY <1>1 DEF op

\* The operation at the head leaves the chain.
LEMMA Dequeue ==
  ASSUME Types, queue # <<>>, queue' = Tail(queue)
  PROVE  /\ queue' \in Seq(Operation) /\ op \in Operation /\ op = queue[1] /\ 1 \in DOMAIN queue
         /\ \A i \in DOMAIN queue' : i + 1 \in DOMAIN queue /\ i + 1 # 1 /\ queue'[i] = queue[i + 1]
         /\ \A i, j \in DOMAIN queue' : i # j => i + 1 # j + 1
  <1>1. queue \in Seq(Operation)
    BY DEF Types
  <1>2. /\ Tail(queue) \in Seq(Operation) /\ Len(Tail(queue)) = Len(queue) - 1
        /\ Len(queue) \in Nat \ {0} /\ Head(queue) = queue[1] /\ queue[1] \in Operation
    BY <1>1
  <1>3. \A i \in 1 .. Len(queue) - 1 : Tail(queue)[i] = queue[i + 1]
    BY <1>1
  <1> QED
    BY <1>2, <1>3 DEF op

\* The running operation is one of those that were chained.
LEMMA RunningOp ==
  ASSUME CoreInv, Busy
  PROVE  queue # <<>> /\ op \in Operation /\ op = queue[1] /\ 1 \in DOMAIN queue
  <1>1. queue # <<>> /\ queue \in Seq(Operation)
    BY DEF CoreInv, PhaseInv, Types
  <1> QED
    BY <1>1 DEF op

\* Callers, time and others that reload Nginx leave the file and the running
\* operation alone.
LEMMA AsideCore ==
  ASSUME CoreInv, client' \in [Client -> Caller],
         queue' = queue \/ \E o \in Operation : queue' = Append(queue, o),
         UNCHANGED <<challenges, base, goal, used, solved, pc, stage>>
  PROVE  CoreInv'
  <1>1. queue' \in Seq(Operation) /\ (queue # <<>> => queue' # <<>> /\ op' = op)
    BY Enqueue DEF CoreInv, Types, op
  <1>2. Types' /\ ListInv'
    BY <1>1 DEF CoreInv, Types, ListInv
  <1>3. Busy' <=> Busy
    BY DEF Busy
  <1>4. Busy /\ Committing => Committing'
    BY <1>1 DEF CoreInv, PhaseInv, Committing
  <1>5. PhaseInv'
    BY <1>1, <1>3, <1>4 DEF CoreInv, PhaseInv
  <1> QED
    BY <1>2, <1>5 DEF CoreInv

\* An operation that returns or throws holds nothing any more.
LEMMA FinishCore ==
  ASSUME CoreInv, Busy, NEW answer, Finish(answer), op.by # None => answer \in Caller,
         used' = used, solved' \subseteq Ids(used), challenges' \subseteq Open, Distinct(challenges'),
         \A c \in challenges' : NameOf(c) \in used /\ c.id \notin solved'
  PROVE  CoreInv'
  <1>1. queue' \in Seq(Operation) /\ op \in Operation
    BY Dequeue, RunningOp DEF Finish, CoreInv
  <1>2. client' \in [Client -> Caller]
    <2>1. client \in [Client -> Caller]
      BY DEF CoreInv, Types
    <2>2. client' = client \/ (op.by # None /\ client' = [client EXCEPT ![op.by] = answer])
      BY DEF Finish, Reply
    <2> QED
      BY <1>1, <2>1, <2>2
  <1>3. pc' = "idle" /\ goal' = {} /\ stage' = "check"
    BY DEF Finish
  <1>4. Types'
    BY <1>1, <1>2, <1>3 DEF CoreInv, Types
  <1>5. ListInv'
    BY DEF CoreInv, ListInv
  <1>6. PhaseInv'
    BY <1>3 DEF PhaseInv, Busy
  <1> QED
    BY <1>4, <1>5, <1>6 DEF CoreInv

\* ... in particular one that throws.
LEMMA ThrowCore ==
  ASSUME CoreInv, Busy, Throw, UNCHANGED <<challenges, used, solved>>
  PROVE  CoreInv'
  <1>1. Out \in Caller
    BY DEF Out, Caller
  <1>2. Finish(Out)
    BY DEF Throw
  <1>3. solved' \subseteq Ids(used) /\ challenges' \subseteq Open /\ Distinct(challenges')
    BY DEF CoreInv, ListInv, Types, Distinct
  <1>4. \A c \in challenges' : NameOf(c) \in used /\ c.id \notin solved'
    BY DEF CoreInv, ListInv
  <1> QED
    BY <1>1, <1>2, <1>3, <1>4, FinishCore

\* The include has been applied.
LEMMA AppliedCore ==
  ASSUME CoreInv, Busy, Applied, UNCHANGED <<challenges, used, solved>>
  PROVE  CoreInv'
  <1>1. CASE ~undoing
    <2>1. /\ pc' = IF stage = "check" THEN "main" ELSE "persist"
          /\ UNCHANGED <<queue, stage, base, goal, client>>
      BY <1>1 DEF Applied
    <2>2. Busy' /\ (pc' = "main" => stage = "check") /\ (pc' = "persist" => stage # "check")
      BY <2>1 DEF Busy
    <2>3. op' = op
      BY <2>1 DEF op
    <2> QED
      BY <2>1, <2>2, <2>3 DEF CoreInv, Types, ListInv, PhaseInv, Committing
  <1>2. CASE Throw
    BY <1>2, ThrowCore
  <1> QED
    BY <1>1, <1>2 DEF Applied

\* The steps that bring the include up to date, and those that fail or die.
LEMMA PassageCore ==
  ASSUME CoreInv, Begin \/ ApplyGeo \/ Reload \/ Restore \/ StartBackend \/ Crash \/ RestartContainer
  PROVE  CoreInv' /\ UNCHANGED <<challenges, solved>>
  <1>0. UNCHANGED <<challenges, used, solved>>
    BY DEF Begin, ApplyGeo, Reload, Restore, StartBackend, Crash, RestartContainer, storage
  <1>1. CASE Begin
    <2>1. /\ queue # <<>> /\ base' = challenges /\ goal' = ActiveChallenges(challenges)
          /\ stage' = IF goal' = challenges THEN "check" ELSE "purge"
          /\ pc' = "apply" /\ UNCHANGED <<queue, client>>
      BY <1>1 DEF Begin
    <2>2. goal' \subseteq challenges
      BY <2>1 DEF ActiveChallenges
    <2>3. PhaseInv'
      BY <1>0, <2>1, <2>2 DEF PhaseInv
    <2> QED
      BY <1>0, <2>1, <2>2, <2>3 DEF CoreInv, Types, ListInv
  <1>2. CASE ApplyGeo
    <2>1. Busy
      BY <1>2 DEF ApplyGeo, Busy
    <2>2. CASE Applied \/ Throw
      BY <1>0, <2>1, <2>2, AppliedCore, ThrowCore
    <2>3. CASE pc' = "reload" /\ UNCHANGED <<queue, stage, base, goal, undoing, client>>
      BY <1>0, <2>1, <2>3 DEF CoreInv, Types, ListInv, PhaseInv, Busy, Committing, op
    <2> QED
      BY <1>2, <2>2, <2>3 DEF ApplyGeo
  <1>3. CASE Reload
    <2>1. Busy
      BY <1>3 DEF Reload, Busy
    <2>2. CASE Applied
      BY <1>0, <2>1, <2>2, AppliedCore
    <2>3. CASE pc' = "restore" /\ UNCHANGED <<queue, locals, client>>
      BY <1>0, <2>1, <2>3 DEF CoreInv, Types, ListInv, PhaseInv, Busy, Committing, op, locals
    <2> QED
      BY <1>3, <2>2, <2>3 DEF Reload
  <1>4. CASE Restore
    <2>1. Busy /\ Throw
      BY <1>4 DEF Restore, Busy
    <2> QED
      BY <1>0, <2>1, ThrowCore
  <1>5. CASE StartBackend
    <2>1. Prepare \in Operation
      BY DEF Prepare, Purge, Operation
    <2> QED
      BY <1>0, <1>5, <2>1 DEF StartBackend, locals, CoreInv, Types, ListInv, PhaseInv, Busy
  <1>6. CASE Crash \/ RestartContainer
    <2>1. Die
      BY <1>6 DEF Crash, RestartContainer
    <2>2. client' \in [Client -> Caller]
      BY <2>1 DEF Die, Disconnect, Out, Caller, CoreInv, Types
    <2> QED
      BY <1>0, <2>1, <2>2 DEF Die, CoreInv, Types, ListInv, PhaseInv, Busy
  <1> QED
    BY <1>0, <1>1, <1>2, <1>3, <1>4, <1>5, <1>6

\* Requests, clients, time and reloads by others.
LEMMA OthersCore ==
  ASSUME CoreInv,
         \/ UNCHANGED vars
         \/ \E ips \in SUBSET Ip : RequestChallenges(ips)
         \/ \E i \in Id : RequestRemoval(i) \/ RequestGuess(i) \/ Lapse(i)
         \/ RequestPurge \/ ReloadElsewhere
         \/ \E c \in Client : Fetch(c) \/ Submit(c) \/ GiveUp(c) \/ Retry(c)
  PROVE  CoreInv' /\ UNCHANGED <<challenges, solved>>
  <1>0. client \in [Client -> Caller]
    BY DEF CoreInv, Types
  <1>1. UNCHANGED <<challenges, base, goal, used, solved, pc, stage>>
    BY DEF vars, storage, locals, RequestChallenges, RequestRemoval, RequestGuess, RequestPurge, Chain,
           Lapse, ReloadElsewhere, Fetch, Submit, GiveUp, Retry
  <1>2. client' \in [Client -> Caller]
    <2>1. Out \in Caller
      BY DEF Out, Caller
    <2>2. ASSUME NEW c \in Client, NEW step \in {"asking", "verifying"}, At(c, step)
          PROVE  client' \in [Client -> Caller]
      <3>1. client[c] \in Caller /\ [client[c] EXCEPT !.pc = step] \in Caller
        BY <1>0 DEF Caller
      <3>2. client' = [client EXCEPT ![c] = [client[c] EXCEPT !.pc = step]]
        BY <2>2 DEF At
      <3> QED
        BY <1>0, <3>1, <3>2
    <2>3. ASSUME NEW c \in Client, Fetch(c) \/ Submit(c)
          PROVE  client' \in [Client -> Caller]
      BY <2>2, <2>3 DEF Fetch, Submit
    <2>4. ASSUME NEW c \in Client, GiveUp(c) \/ Retry(c)
          PROVE  client' \in [Client -> Caller]
      BY <1>0, <2>1, <2>4 DEF GiveUp, Retry
    <2>5. CASE client' = client
      BY <1>0, <2>5
    <2> QED
      BY <2>3, <2>4, <2>5 DEF vars, RequestChallenges, RequestRemoval, RequestGuess, RequestPurge, Lapse,
                              ReloadElsewhere
  <1>3. queue' = queue \/ \E o \in Operation : queue' = Append(queue, o)
    <2>1. ASSUME NEW o, Chain(o) PROVE queue' = Append(queue, o)
      BY <2>1 DEF Chain
    <2>2. ASSUME NEW ips \in SUBSET Ip, RequestChallenges(ips)
          PROVE  \E o \in Operation : queue' = Append(queue, o)
      <3>1. [Purge EXCEPT !.kind = "create", !.ips = ips] \in Operation
        BY DEF Purge, Operation
      <3> QED
        BY <2>1, <2>2, <3>1 DEF RequestChallenges
    <2>3. ASSUME NEW i \in Id, RequestRemoval(i) \/ RequestGuess(i)
          PROVE  \E o \in Operation : queue' = Append(queue, o)
      <3>1. /\ [Purge EXCEPT !.kind = "remove", !.id = i] \in Operation
            /\ [Purge EXCEPT !.kind = "verify", !.id = i] \in Operation
        BY DEF Purge, Operation
      <3> QED
        BY <2>1, <2>3, <3>1 DEF RequestRemoval, RequestGuess
    <2>4. CASE RequestPurge
      <3>1. Purge \in Operation
        BY DEF Purge, Operation
      <3> QED
        BY <2>1, <2>4, <3>1 DEF RequestPurge
    <2>5. ASSUME NEW c \in Client, Fetch(c) \/ Submit(c)
          PROVE  \E o \in Operation : queue' = Append(queue, o)
      <3>1. client[c].got \in Id \cup {None}
        BY <1>0 DEF Caller
      <3>2. /\ [Purge EXCEPT !.kind = "page", !.by = c] \in Operation
            /\ [Purge EXCEPT !.kind = "verify", !.id = client[c].got, !.by = c, !.good = TRUE] \in Operation
        BY <3>1 DEF Purge, Operation
      <3> QED
        BY <2>1, <2>5, <3>2 DEF Fetch, Submit
    <2>6. CASE queue' = queue
      BY <2>6
    <2> QED
      BY <2>2, <2>3, <2>4, <2>5, <2>6 DEF vars, Lapse, ReloadElsewhere, GiveUp, Retry
  <1> QED
    BY <1>1, <1>2, <1>3, AsideCore

\* Operations that find nothing to write.
LEMMA SettledCore ==
  ASSUME CoreInv, Listed \/ ShowPage \/ NothingToCreate \/ NotFound \/ Exhausted
  PROVE  CoreInv' /\ UNCHANGED <<challenges, solved>>
  <1>0. Busy /\ UNCHANGED <<challenges, used, solved>>
    BY DEF Listed, ShowPage, NothingToCreate, NotFound, Exhausted, Busy, Settled, storage
  <1>1. ASSUME NEW c \in goal, Finish([Out EXCEPT !.pc = "solving", !.got = c.id])
        PROVE  CoreInv'
    <2>1. [Out EXCEPT !.pc = "solving", !.got = c.id] \in Caller
      BY DEF Out, Caller, Open, CoreInv, Types
    <2>2. /\ solved' \subseteq Ids(used) /\ challenges' \subseteq Open /\ Distinct(challenges')
          /\ \A d \in challenges' : NameOf(d) \in used /\ d.id \notin solved'
      BY <1>0 DEF CoreInv, ListInv, Types, Distinct
    <2> QED
      BY <1>0, <1>1, <2>1, <2>2, FinishCore
  <1>2. CASE Throw
    BY <1>0, <1>2, ThrowCore
  <1>3. Throw \/ \E c \in goal : Finish([Out EXCEPT !.pc = "solving", !.got = c.id])
    BY DEF Listed, ShowPage, NothingToCreate, NotFound, Exhausted, Throw
  <1> QED
    BY <1>0, <1>1, <1>2, <1>3

\* When an operation comes to its own work, the purged list is the file.
LEMMA AtWork ==
  ASSUME CoreInv, pc = "main"
  PROVE  /\ Busy /\ stage = "check" /\ goal = challenges /\ base = challenges
         /\ op \in Operation /\ queue # <<>>
  BY RunningOp DEF CoreInv, PhaseInv, Busy

\* An operation sets out to write a list.
LEMMA CommitCore ==
  ASSUME CoreInv, pc = "main", NEW next, Commit(next), next \subseteq Open, used \subseteq used',
         used' \subseteq Name, \A a, b \in used' : a.id = b.id => a = b,
         Committing'
  PROVE  CoreInv' /\ UNCHANGED <<challenges, solved>>
  <1>1. /\ goal' = next /\ stage' = "main" /\ pc' = "apply"
        /\ UNCHANGED <<challenges, queue, base, client, solved>>
    BY DEF Commit, storage
  <1>2. Busy /\ base = challenges /\ queue # <<>>
    BY AtWork
  <1>3. Types'
    BY <1>1 DEF CoreInv, Types
  <1>4. ListInv'
    BY <1>1 DEF CoreInv, ListInv, Distinct, Ids
  <1>5. PhaseInv'
    BY <1>1, <1>2 DEF PhaseInv
  <1> QED
    BY <1>1, <1>3, <1>4, <1>5 DEF CoreInv

\* A challenge that is removed, or solved, is taken from the list.
LEMMA TakeCore ==
  ASSUME CoreInv, RemoveChallenge \/ AcceptProof
  PROVE  CoreInv' /\ UNCHANGED <<challenges, solved>>
  <1>0. pc = "main" /\ Commit(goal \ Named) /\ used' = used
    BY DEF RemoveChallenge, AcceptProof
  <1>1. goal = challenges /\ goal' = goal \ Named /\ UNCHANGED <<challenges, queue>>
    BY <1>0, AtWork DEF Commit, storage
  <1>2. op' = op
    BY <1>1 DEF op
  <1>3. Committing'
    <2>1. CASE RemoveChallenge
      BY <1>1, <1>2, <2>1 DEF RemoveChallenge, Committing
    <2>2. CASE AcceptProof
      <3>1. PICK c \in challenges : c.id = op.id /\ c.attempts < MaxAttempts
        BY <1>1, <2>2 DEF AcceptProof, Named
      <3>2. Named = {c}
        BY <1>1, <3>1 DEF Named, CoreInv, ListInv, Distinct
      <3> QED
        BY <1>1, <1>2, <2>2, <3>1, <3>2 DEF AcceptProof, Committing
    <2> QED
      BY <2>1, <2>2
  <1>4. goal \ Named \subseteq Open /\ used' \subseteq Name /\ \A a, b \in used' : a.id = b.id => a = b
    BY <1>0 DEF CoreInv, Types, ListInv
  <1> QED
    BY <1>0, <1>3, <1>4, CommitCore

\* New challenges have new names, and addresses that had none.
LEMMA CreateCore ==
  ASSUME CoreInv, CreateChallenges
  PROVE  CoreInv' /\ UNCHANGED <<challenges, solved>>
  <1>0. pc = "main" /\ goal = challenges /\ op \in Operation /\ op.kind = "create"
    BY AtWork DEF CreateChallenges
  <1>1. PICK uuid \in [Missing -> Id \ Ids(used)] :
          /\ \A a, b \in Missing : uuid[a] = uuid[b] => a = b
          /\ used' = used \cup {[id |-> uuid[a], ip |-> a] : a \in Missing}
          /\ Commit(goal \cup {[id |-> uuid[a], ip |-> a, attempts |-> 0] : a \in Missing})
    BY DEF CreateChallenges
  <1>2. Missing \subseteq Ip /\ \A a \in Missing : a \notin Ips(challenges)
    BY <1>0 DEF Missing, Operation
  <1> DEFINE new == {[id |-> uuid[a], ip |-> a, attempts |-> 0] : a \in Missing}
             names == {[id |-> uuid[a], ip |-> a] : a \in Missing}
  <1>3. /\ \A c \in new : /\ c.id \in Id /\ c.id \notin Ids(used) /\ c.ip \in Missing
                          /\ c.attempts = 0 /\ NameOf(c) \in names /\ c \in Open
        /\ \A c, d \in new : c.ip = d.ip \/ c.id = d.id => c = d
    BY <1>1, <1>2 DEF NameOf, Open
  <1>4. /\ \A a \in names : a.id \notin Ids(used) /\ a \in Name
        /\ \A a, b \in names : a.id = b.id => a = b
    BY <1>1, <1>2 DEF Name
  <1>5. goal' = challenges \cup new /\ used' = used \cup names /\ UNCHANGED <<challenges, queue, solved>>
    BY <1>0, <1>1 DEF Commit, storage
  <1> HIDE DEF new, names
  <1>6. \A c \in challenges : c.id \in Ids(used) /\ c.ip \in Ips(challenges)
    <2>1. \A c \in challenges : NameOf(c) \in used /\ NameOf(c).id = c.id
      BY DEF CoreInv, ListInv, NameOf
    <2> QED
      BY <2>1 DEF Ids, Ips
  <1>7. Distinct(challenges \cup new)
    BY <1>2, <1>3, <1>6 DEF CoreInv, ListInv, Distinct
  <1>8. \A c \in new : c.id \notin solved /\ NameOf(c) \in used'
    BY <1>3, <1>5 DEF CoreInv, ListInv
  <1>9. Committing'
    <2>1. op' = op
      BY <1>5 DEF op
    <2> QED
      BY <1>0, <1>3, <1>5, <1>7, <1>8, <2>1 DEF Committing
  <1>10. used' \subseteq Name /\ \A a, b \in used' : a.id = b.id => a = b
    BY <1>4, <1>5 DEF CoreInv, Types, ListInv, Ids
  <1>11. challenges \cup new \subseteq Open
    BY <1>3 DEF CoreInv, Types
  <1> QED
    BY <1>0, <1>1, <1>5, <1>9, <1>10, <1>11, CommitCore DEF new

\* A wrong proof costs the challenge an attempt.
LEMMA CountCore ==
  ASSUME CoreInv, CountAttempt
  PROVE  CoreInv' /\ [Promise!Next]_(Promise!vars)
  <1>0. /\ pc = "main" /\ goal = challenges /\ Busy /\ Throw /\ Finish(Out)
        /\ UNCHANGED <<used, solved>>
    BY AtWork DEF CountAttempt, Throw
  <1>1. CASE challenges' = challenges
    BY <1>0, <1>1, ThrowCore DEF Promise!vars
  <1>2. CASE challenges' = (goal \ Named) \cup {[c EXCEPT !.attempts = @ + 1] : c \in Named}
    <2>1. PICK c \in challenges : c.id = op.id /\ c.attempts < MaxAttempts
      BY <1>0 DEF CountAttempt, Named
    <2>2. Named = {c}
      BY <1>0, <2>1 DEF Named, CoreInv, ListInv, Distinct
    <2> PICK d : d = [c EXCEPT !.attempts = @ + 1]
      OBVIOUS
    <2>3. challenges' = (challenges \ {c}) \cup {d}
      BY <1>0, <1>2, <2>2
    <2>4. c \in Open /\ d \in Open /\ d.id = c.id /\ d.ip = c.ip
      BY DEF CoreInv, Types, Open
    <2>5. challenges' \subseteq Open /\ Distinct(challenges')
      <3>1. challenges \subseteq Open /\ \A x, y \in challenges : x.ip = y.ip \/ x.id = y.id => x = y
        BY DEF CoreInv, Types, ListInv, Distinct
      <3>2. ASSUME NEW x \in challenges', NEW y \in challenges', x.ip = y.ip \/ x.id = y.id
            PROVE  x = y
        <4>1. (x = d \/ (x \in challenges /\ x # c)) /\ (y = d \/ (y \in challenges /\ y # c))
          BY <2>3
        <4> QED
          BY <2>4, <3>1, <3>2, <4>1
      <3> QED
        BY <2>3, <2>4, <3>1, <3>2 DEF Distinct
    <2>6. \A x \in challenges' : NameOf(x) \in used /\ x.id \notin solved'
      BY <1>0, <2>3, <2>4 DEF CoreInv, ListInv, NameOf
    <2>7. Out \in Caller /\ solved' \subseteq Ids(used)
      BY <1>0 DEF Out, Caller, CoreInv, ListInv
    <2>8. CoreInv'
      BY <1>0, <2>5, <2>6, <2>7, FinishCore
    <2>9. Promise!Miss(c)
      BY <1>0, <2>1, <2>3 DEF Promise!Miss
    <2> QED
      BY <2>8, <2>9 DEF Promise!Next
  <1> QED
    BY <1>1, <1>2 DEF CountAttempt

\* The answer of a client whose proof is accepted.
SolvedAnswer == [client[op.by] EXCEPT !.pc = "solved", !.seen = used]

\* What an operation has prepared is one promised change of the list.
LEMMA WriteCore ==
  ASSUME CoreInv, Busy, stage = "main", challenges' = goal, used' = used,
         solved' = IF op.kind = "verify" THEN solved \cup {op.id} ELSE solved,
         Finish(SolvedAnswer)
  PROVE  CoreInv' /\ [Promise!Next]_(Promise!vars)
  <1>0. Committing /\ goal \subseteq Open
    BY DEF CoreInv, PhaseInv, Types
  <1>1. op.by # None => SolvedAnswer \in Caller
    <2>1. op \in Operation /\ client \in [Client -> Caller] /\ used \subseteq Name
      BY RunningOp DEF CoreInv, Types
    <2> QED
      BY <2>1 DEF SolvedAnswer, Operation, Caller
  <1>2. CASE op.kind = "remove" /\ goal \subseteq challenges
    <2>1. Distinct(goal) /\ \A c \in goal : NameOf(c) \in used /\ c.id \notin solved'
      BY <1>2 DEF CoreInv, ListInv, Distinct
    <2>2. CoreInv'
      BY <1>0, <1>1, <1>2, <2>1, FinishCore DEF CoreInv, ListInv
    <2>3. Promise!Drop(challenges \ goal)
      BY <1>2 DEF Promise!Drop
    <2> QED
      BY <2>2, <2>3 DEF Promise!Next
  <1>3. CASE /\ op.kind = "create" /\ challenges \subseteq goal /\ Distinct(goal)
             /\ \A c \in goal \ challenges : c.attempts = 0 /\ NameOf(c) \in used /\ c.id \notin solved
    <2>1. \A c \in goal : NameOf(c) \in used /\ c.id \notin solved'
      BY <1>3 DEF CoreInv, ListInv
    <2>2. CoreInv'
      BY <1>0, <1>1, <1>3, <2>1, FinishCore DEF CoreInv, ListInv
    <2>3. Promise!Start(goal \ challenges)
      BY <1>3 DEF Promise!Start, Distinct
    <2>4. goal \ challenges \subseteq [id : Id, ip : Ip, attempts : {0}]
      BY <1>0, <1>3 DEF Open
    <2> QED
      BY <2>2, <2>3, <2>4 DEF Promise!Next
  <1>4. CASE /\ op.kind = "verify"
             /\ \E c \in challenges : c.id = op.id /\ c.attempts < MaxAttempts /\ goal = challenges \ {c}
    <2>1. PICK c \in challenges : c.id = op.id /\ c.attempts < MaxAttempts /\ goal = challenges \ {c}
      BY <1>4
    <2>2. solved' = solved \cup {c.id}
      BY <1>4, <2>1
    <2>3. Distinct(goal) /\ \A d \in goal : NameOf(d) \in used /\ d.id \notin solved'
      BY <2>1, <2>2 DEF CoreInv, ListInv, Distinct
    <2>4. solved' \subseteq Ids(used)
      <3>1. NameOf(c) \in used /\ NameOf(c).id = c.id
        BY DEF CoreInv, ListInv, NameOf
      <3> QED
        BY <2>2, <3>1 DEF CoreInv, ListInv, Ids
    <2>5. CoreInv'
      BY <1>0, <1>1, <2>3, <2>4, FinishCore
    <2>6. Promise!Solve(c)
      BY <2>1, <2>2 DEF Promise!Solve
    <2> QED
      BY <2>5, <2>6 DEF Promise!Next
  <1> QED
    BY <1>0, <1>2, <1>3, <1>4 DEF Committing

\* The write of the list, which may fail.
LEMMA PersistCore ==
  ASSUME CoreInv, Persist
  PROVE  CoreInv' /\ [Promise!Next]_(Promise!vars)
  <1>0. Busy /\ used' = used /\ queue # <<>>
    BY RunningOp DEF Persist, Busy
  <1>1. CASE pc' = "apply" /\ UNCHANGED <<challenges, queue, stage, base, goal, client, solved>>
    <2>1. CoreInv'
      BY <1>0, <1>1 DEF CoreInv, Types, ListInv, PhaseInv, Busy, Committing, op
    <2> QED
      BY <1>1, <2>1 DEF Promise!vars
  <1>2. CASE /\ stage = "purge" /\ challenges' = goal /\ base' = goal /\ stage' = "check" /\ pc' = "main"
             /\ UNCHANGED <<queue, goal, client, solved>>
    <2>1. goal \subseteq challenges
      BY <1>0, <1>2 DEF CoreInv, PhaseInv
    <2>2. CoreInv'
      BY <1>0, <1>2, <2>1 DEF CoreInv, Types, ListInv, PhaseInv, Distinct
    <2>3. Promise!Drop(challenges \ goal)
      BY <1>2, <2>1 DEF Promise!Drop
    <2> QED
      BY <2>2, <2>3 DEF Promise!Next
  <1>3. CASE /\ stage # "purge" /\ challenges' = goal
             /\ solved' = IF op.kind = "verify" THEN solved \cup {op.id} ELSE solved
             /\ Finish(SolvedAnswer)
    <2>1. stage = "main"
      BY <1>0, <1>3 DEF Persist, CoreInv, PhaseInv
    <2> QED
      BY <1>0, <1>3, <2>1, WriteCore
  <1> QED
    BY <1>1, <1>2, <1>3 DEF Persist, SolvedAnswer

\* Every step of the system keeps the core of the invariant, and is a promised
\* change of the list or none.
LEMMA NextCore ==
  ASSUME CoreInv, [Next]_vars
  PROVE  CoreInv' /\ [Promise!Next]_(Promise!vars)
  <1>1. CASE \/ UNCHANGED vars
             \/ \E ips \in SUBSET Ip : RequestChallenges(ips)
             \/ \E i \in Id : RequestRemoval(i) \/ RequestGuess(i) \/ Lapse(i)
             \/ RequestPurge \/ ReloadElsewhere
             \/ \E c \in Client : Fetch(c) \/ Submit(c) \/ GiveUp(c) \/ Retry(c)
    BY <1>1, OthersCore DEF Promise!vars
  <1>2. CASE Begin \/ ApplyGeo \/ Reload \/ Restore \/ StartBackend \/ Crash \/ RestartContainer
    BY <1>2, PassageCore DEF Promise!vars
  <1>3. CASE Listed \/ ShowPage \/ NothingToCreate \/ NotFound \/ Exhausted
    BY <1>3, SettledCore DEF Promise!vars
  <1>4. CASE CreateChallenges \/ RemoveChallenge \/ AcceptProof
    BY <1>4, CreateCore, TakeCore DEF Promise!vars
  <1>5. CASE Persist \/ CountAttempt
    BY <1>5, PersistCore, CountCore
  <1> QED
    BY <1>1, <1>2, <1>3, <1>4, <1>5 DEF Next, Operate

\* At first there are no challenges, and the backend prepares.
LEMMA InitCore == Init => CoreInv /\ Promise!Init
  <1> SUFFICES ASSUME Init PROVE CoreInv /\ Promise!Init
    OBVIOUS
  <1>1. Prepare \in Operation /\ Out \in Caller
    BY DEF Prepare, Purge, Operation, Out, Caller
  <1>2. queue \in Seq(Operation) /\ client \in [Client -> Caller]
    BY <1>1 DEF Init
  <1> QED
    BY <1>2 DEF Init, CoreInv, Types, ListInv, PhaseInv, Busy, Distinct, Promise!Init

\* Whatever fails and wherever the backend dies, challenges.json changes as
\* promised: one open challenge per address, a bounded number of wrong proofs, a
\* solution accepted once, for a challenge that is open, and never a solved
\* challenge back (withMutation, commitState and verifyChallenge).
THEOREM ChallengesKeepThePromise == Spec => ImplementsPromise
  <1>1. CoreInv /\ [Next]_vars => CoreInv' /\ [Promise!Next]_(Promise!vars)
    BY NextCore
  <1> QED
    BY <1>1, InitCore, PTL DEF Spec, ImplementsPromise, Promise!Spec
-----------------------------------------------------------------------------
\* Clients and the operations they wait for

Holding == {"solving", "verifying", "solved"}

\* What a client may be told.
Fitting(c, answer) ==
  /\ answer \in Caller /\ answer.pc \notin {"asking", "verifying"} /\ answer.seen \subseteq used
  /\ answer.pc \in Holding => [id |-> answer.got, ip |-> AddressOf[c]] \in used

\* Whoever waits for an operation is a client.
LEMMA Waiting ==
  ASSUME CoreInv, NEW i \in DOMAIN queue, queue[i].by # None
  PROVE  queue[i].by \in Client
  <1>1. queue \in Seq(Operation)
    BY DEF CoreInv, Types
  <1>2. queue[i] \in Operation
    BY <1>1
  <1> QED
    BY <1>2 DEF Operation

\* An operation that nobody waits for is chained, or none is.
LEMMA KeptClients ==
  ASSUME CoreInv, ClientInv, client' = client, used \subseteq used',
         queue' = queue \/ \E o \in Operation : o.by = None /\ queue' = Append(queue, o)
  PROVE  ClientInv'
  <1>1. \A i \in DOMAIN queue' : queue'[i].by # None => i \in DOMAIN queue /\ queue'[i] = queue[i]
    <2>1. CASE queue' = queue
      BY <2>1
    <2>2. ASSUME NEW o \in Operation, o.by = None, queue' = Append(queue, o)
          PROVE  \A i \in DOMAIN queue' : queue'[i].by # None => i \in DOMAIN queue /\ queue'[i] = queue[i]
      BY <2>2, Enqueue DEF CoreInv
    <2> QED
      BY <2>1, <2>2
  <1>2. \A i, j \in DOMAIN queue' : i # j /\ queue'[i].by = queue'[j].by => queue'[i].by = None
    BY <1>1 DEF ClientInv
  <1> QED
    BY <1>1, <1>2 DEF ClientInv

\* A client sends the one operation it will wait for.
LEMMA SentClients ==
  ASSUME CoreInv, ClientInv, NEW c \in Client, Fetch(c) \/ Submit(c)
  PROVE  ClientInv'
  <1> PICK step : step = IF client[c].pc = "out" THEN "asking" ELSE "verifying"
    OBVIOUS
  <1> PICK o : o = IF client[c].pc = "out" THEN [Purge EXCEPT !.kind = "page", !.by = c]
                   ELSE [Purge EXCEPT !.kind = "verify", !.id = client[c].got, !.by = c, !.good = TRUE]
    OBVIOUS
  <1>0. client \in [Client -> Caller] /\ client[c] \in Caller /\ c # None
    BY ChallengeAssumption DEF CoreInv, Types
  <1>1. /\ client[c].pc \in {"out", "solving"} /\ queue' = Append(queue, o) /\ used' = used
        /\ client' = [client EXCEPT ![c].pc = step]
    BY DEF Fetch, Submit, Chain, At
  <1>2. o \in Operation /\ o.by = c
    BY <1>0 DEF Purge, Operation, Caller
  <1>3. /\ client'[c].pc = step /\ client'[c].got = client[c].got /\ client'[c].seen = client[c].seen
        /\ \A d \in Client : d # c => client'[d] = client[d]
    BY <1>0, <1>1 DEF Caller
  <1>4. \A i \in DOMAIN queue : queue[i].by # c
    BY <1>0, <1>1 DEF ClientInv
  <1>5. /\ DOMAIN queue' = DOMAIN queue \cup {Len(queue) + 1}
        /\ queue'[Len(queue) + 1] = o /\ \A i \in DOMAIN queue : queue'[i] = queue[i]
    BY <1>1, <1>2, Enqueue DEF CoreInv
  <1>6. ASSUME NEW i \in DOMAIN queue', queue'[i].by # None
        PROVE  \/ queue'[i].kind = "page" /\ client'[queue'[i].by].pc = "asking"
               \/ /\ queue'[i].kind = "verify" /\ client'[queue'[i].by].pc = "verifying"
                  /\ queue'[i].id = client'[queue'[i].by].got
    <2>1. CASE i \in DOMAIN queue
      <3>1. queue'[i] = queue[i] /\ queue[i].by \in Client
        BY <1>5, <1>6, <2>1, Waiting
      <3>2. client'[queue[i].by] = client[queue[i].by]
        BY <1>3, <1>4, <2>1, <3>1
      <3> QED
        BY <1>6, <2>1, <3>1, <3>2 DEF ClientInv
    <2>2. CASE i = Len(queue) + 1
      <3>1. queue'[i] = o
        BY <1>5, <2>2
      <3>2. CASE client[c].pc = "out"
        BY <1>2, <1>3, <3>1, <3>2 DEF Purge
      <3>3. CASE client[c].pc = "solving"
        BY <1>2, <1>3, <3>1, <3>3 DEF Purge
      <3> QED
        BY <1>1, <3>2, <3>3
    <2> QED
      BY <1>5, <2>1, <2>2
  <1>7. \A i, j \in DOMAIN queue' : i # j /\ queue'[i].by = queue'[j].by => queue'[i].by = None
    <2>1. \A i \in DOMAIN queue : queue'[i].by = queue[i].by /\ queue[i].by # c
      BY <1>4, <1>5
    <2>2. queue'[Len(queue) + 1].by = c
      BY <1>2, <1>5
    <2>3. \A i, j \in DOMAIN queue : i # j /\ queue[i].by = queue[j].by => queue[i].by = None
      BY DEF ClientInv
    <2> QED
      BY <1>5, <2>1, <2>2, <2>3
  <1>8. ASSUME NEW d \in Client
        PROVE  /\ client'[d].pc \in Holding => [id |-> client'[d].got, ip |-> AddressOf[d]] \in used'
               /\ client'[d].seen \subseteq used'
    BY <1>1, <1>3 DEF ClientInv, Holding
  <1> QED
    BY <1>6, <1>7, <1>8 DEF ClientInv, Holding

\* A client turns away from a challenge, or retries.
LEMMA TurnedClients ==
  ASSUME CoreInv, ClientInv, NEW c \in Client, GiveUp(c) \/ Retry(c)
  PROVE  ClientInv'
  <1>0. client \in [Client -> Caller] /\ c # None
    BY ChallengeAssumption DEF CoreInv, Types
  <1>1. /\ client[c].pc \in {"solving", "solved"} /\ queue' = queue /\ used' = used
        /\ client' = [client EXCEPT ![c] = Out]
    BY DEF GiveUp, Retry
  <1>2. \A i \in DOMAIN queue : queue[i].by # c
    BY <1>0, <1>1 DEF ClientInv
  <1>3. client'[c] = Out /\ \A d \in Client : d # c => client'[d] = client[d]
    BY <1>0, <1>1
  <1>4. \A i \in DOMAIN queue : queue[i].by # None => client'[queue[i].by] = client[queue[i].by]
    BY <1>2, <1>3, Waiting
  <1> QED
    BY <1>1, <1>3, <1>4 DEF ClientInv, Out

\* The client that waited is told the outcome.
LEMMA AnsweredClients ==
  ASSUME CoreInv, ClientInv, Busy, NEW answer, Finish(answer), used' = used,
         op.by # None => Fitting(op.by, answer)
  PROVE  ClientInv'
  <1>0. client \in [Client -> Caller] /\ queue # <<>> /\ queue' = Tail(queue)
    BY RunningOp DEF CoreInv, Types, Finish
  <1>1. /\ op \in Operation /\ op = queue[1] /\ 1 \in DOMAIN queue
        /\ \A i \in DOMAIN queue' : i + 1 \in DOMAIN queue /\ i + 1 # 1 /\ queue'[i] = queue[i + 1]
        /\ \A i, j \in DOMAIN queue' : i # j => i + 1 # j + 1
    BY <1>0, Dequeue DEF CoreInv
  <1>2. /\ op.by # None => client'[op.by] = answer
        /\ \A d \in Client : d # op.by \/ op.by = None => client'[d] = client[d]
    BY <1>0, <1>1 DEF Finish, Reply, Operation
  <1>3. ASSUME NEW i \in DOMAIN queue', queue'[i].by # None
        PROVE  queue'[i].by \in Client /\ client'[queue'[i].by] = client[queue'[i].by]
    <2>1. queue'[i] = queue[i + 1] /\ i + 1 \in DOMAIN queue /\ i + 1 # 1
      BY <1>1
    <2>2. queue[i + 1].by # queue[1].by
      BY <1>1, <1>3, <2>1 DEF ClientInv
    <2>3. queue[i + 1].by \in Client
      BY <1>3, <2>1, Waiting
    <2> QED
      BY <1>1, <1>2, <2>1, <2>2, <2>3
  <1>4. ASSUME NEW i \in DOMAIN queue', queue'[i].by # None
        PROVE  \/ queue'[i].kind = "page" /\ client'[queue'[i].by].pc = "asking"
               \/ /\ queue'[i].kind = "verify" /\ client'[queue'[i].by].pc = "verifying"
                  /\ queue'[i].id = client'[queue'[i].by].got
    BY <1>1, <1>3, <1>4 DEF ClientInv
  <1>5. \A i, j \in DOMAIN queue' : i # j /\ queue'[i].by = queue'[j].by => queue'[i].by = None
    BY <1>1 DEF ClientInv
  <1>6. ASSUME NEW d \in Client
        PROVE  /\ client'[d].pc \in Holding => [id |-> client'[d].got, ip |-> AddressOf[d]] \in used'
               /\ client'[d].seen \subseteq used'
    <2>1. CASE d = op.by /\ op.by # None
      BY <1>2, <2>1 DEF Fitting
    <2>2. CASE client'[d] = client[d]
      BY <2>2 DEF ClientInv, Holding
    <2> QED
      BY <1>2, <2>1, <2>2
  <1> QED
    BY <1>4, <1>5, <1>6 DEF ClientInv, Holding

\* Out tells a client nothing.
LEMMA OutFits == ASSUME NEW c PROVE Fitting(c, Out)
  BY DEF Fitting, Out, Caller, Holding

\* The chain empties, and the callers' connections break.
LEMMA BrokenClients ==
  ASSUME CoreInv, ClientInv, Die, used' = used
  PROVE  ClientInv'
  <1>1. queue' = <<>>
    BY DEF Die
  <1>2. \A c \in Client : client'[c] = client[c] \/ client'[c] = Out
    BY DEF Die, Disconnect
  <1> QED
    BY <1>1, <1>2 DEF ClientInv, Out

\* Requests, clients, and time.
LEMMA OthersClients ==
  ASSUME CoreInv, ClientInv,
         \/ UNCHANGED vars
         \/ \E ips \in SUBSET Ip : RequestChallenges(ips)
         \/ \E i \in Id : RequestRemoval(i) \/ RequestGuess(i) \/ Lapse(i)
         \/ RequestPurge \/ ReloadElsewhere \/ StartBackend
         \/ \E c \in Client : Fetch(c) \/ Submit(c) \/ GiveUp(c) \/ Retry(c)
  PROVE  ClientInv'
  <1>1. ASSUME NEW o \in Operation, o.by = None, Chain(o), client' = client
        PROVE  ClientInv'
    BY <1>1, KeptClients DEF Chain
  <1>2. ASSUME NEW ips \in SUBSET Ip, RequestChallenges(ips)
        PROVE  ClientInv'
    <2>1. [Purge EXCEPT !.kind = "create", !.ips = ips] \in Operation
      BY DEF Purge, Operation
    <2>2. [Purge EXCEPT !.kind = "create", !.ips = ips].by = None
      BY DEF Purge
    <2> QED
      BY <1>1, <1>2, <2>1, <2>2 DEF RequestChallenges
  <1>3. ASSUME NEW i \in Id, RequestRemoval(i)
        PROVE  ClientInv'
    <2>1. [Purge EXCEPT !.kind = "remove", !.id = i] \in Operation
      BY DEF Purge, Operation
    <2>2. [Purge EXCEPT !.kind = "remove", !.id = i].by = None
      BY DEF Purge
    <2> QED
      BY <1>1, <1>3, <2>1, <2>2 DEF RequestRemoval
  <1>4. ASSUME NEW i \in Id, RequestGuess(i)
        PROVE  ClientInv'
    <2>1. [Purge EXCEPT !.kind = "verify", !.id = i] \in Operation
      BY DEF Purge, Operation
    <2>2. [Purge EXCEPT !.kind = "verify", !.id = i].by = None
      BY DEF Purge
    <2> QED
      BY <1>1, <1>4, <2>1, <2>2 DEF RequestGuess
  <1>5. CASE RequestPurge
    <2>1. Purge \in Operation /\ Purge.by = None
      BY DEF Purge, Operation
    <2> QED
      BY <1>1, <1>5, <2>1 DEF RequestPurge
  <1>6. CASE StartBackend
    <2>1. queue' = <<Prepare>> /\ Prepare.by = None /\ client' = client /\ used' = used
      BY <1>6 DEF StartBackend, Prepare, Purge
    <2> QED
      BY <2>1 DEF ClientInv
  <1>7. CASE UNCHANGED <<queue, client, used>>
    BY <1>7, KeptClients
  <1>8. ASSUME NEW c \in Client, Fetch(c) \/ Submit(c) \/ GiveUp(c) \/ Retry(c)
        PROVE  ClientInv'
    BY <1>8, SentClients, TurnedClients
  <1> QED
    BY <1>2, <1>3, <1>4, <1>5, <1>6, <1>7, <1>8 DEF vars, Lapse, ReloadElsewhere

\* The page shows a client a challenge of its own address.
LEMMA PageClients ==
  ASSUME CoreInv, ClientInv, pc = "main", used' = used, NEW c \in goal, c.ip = AddressOf[op.by],
         Finish([Out EXCEPT !.pc = "solving", !.got = c.id])
  PROVE  ClientInv'
  <1>1. NameOf(c) \in used /\ c \in Open /\ Busy
    BY AtWork DEF CoreInv, ListInv, Types
  <1>2. Fitting(op.by, [Out EXCEPT !.pc = "solving", !.got = c.id])
    BY <1>1 DEF Fitting, Out, Caller, Holding, NameOf, Open
  <1> QED
    BY <1>1, <1>2, AnsweredClients

\* A client whose proof is accepted held the challenge it proved.
LEMMA SolvedFits ==
  ASSUME CoreInv, ClientInv, Busy, stage = "main", op.by # None
  PROVE  /\ op.by \in Client /\ op.kind = "verify" /\ client[op.by].got = op.id
         /\ [id |-> op.id, ip |-> AddressOf[op.by]] \in used
         /\ Fitting(op.by, SolvedAnswer)
  <1>1. op = queue[1] /\ 1 \in DOMAIN queue /\ op.by \in Client
    BY RunningOp, Waiting
  <1>2. op.kind \in {"remove", "create", "verify"}
    BY DEF CoreInv, PhaseInv, Committing
  <1>3. op.kind = "verify" /\ client[op.by].pc = "verifying" /\ op.id = client[op.by].got
    BY <1>1, <1>2 DEF ClientInv
  <1>4. [id |-> op.id, ip |-> AddressOf[op.by]] \in used
    BY <1>1, <1>3 DEF ClientInv
  <1>5. client[op.by] \in Caller /\ used \subseteq Name
    BY <1>1 DEF CoreInv, Types
  <1>6. /\ SolvedAnswer \in Caller /\ SolvedAnswer.pc = "solved" /\ SolvedAnswer.got = op.id
        /\ SolvedAnswer.seen = used
    BY <1>3, <1>5 DEF SolvedAnswer, Caller
  <1> QED
    BY <1>1, <1>3, <1>4, <1>6 DEF Fitting

\* No step of an operation breaks what its client waits for.
LEMMA OperateClients ==
  ASSUME CoreInv, ClientInv, Operate
  PROVE  ClientInv'
  <1>1. CASE UNCHANGED <<queue, client>> /\ used \subseteq used'
    BY <1>1, KeptClients
  <1>2. ASSUME Busy, Throw, used' = used
        PROVE  ClientInv'
    BY <1>2, OutFits, AnsweredClients DEF Throw
  <1>3. CASE Begin \/ CreateChallenges \/ RemoveChallenge \/ AcceptProof
    BY <1>1, <1>3 DEF Begin, CreateChallenges, RemoveChallenge, AcceptProof, Commit
  <1>4. CASE ApplyGeo \/ Reload \/ Restore
    <2>1. Busy /\ used' = used
      BY <1>4 DEF ApplyGeo, Reload, Restore, Busy
    <2>2. Throw \/ UNCHANGED <<queue, client>>
      BY <1>4 DEF ApplyGeo, Reload, Restore, Applied
    <2> QED
      BY <1>1, <1>2, <2>1, <2>2
  <1>5. CASE Persist
    <2>1. Busy /\ used' = used
      BY <1>5 DEF Persist, Busy
    <2>2. CASE UNCHANGED <<queue, client>>
      BY <1>1, <2>1, <2>2
    <2>3. CASE stage # "purge" /\ Finish(SolvedAnswer)
      <3>1. stage = "main"
        BY <1>5, <2>3 DEF CoreInv, PhaseInv, Persist, Busy
      <3> QED
        BY <2>1, <2>3, <3>1, SolvedFits, AnsweredClients
    <2> QED
      BY <1>5, <2>2, <2>3 DEF Persist, SolvedAnswer
  <1>6. CASE Listed \/ ShowPage \/ NothingToCreate \/ NotFound \/ Exhausted \/ CountAttempt
    <2>1. Busy /\ used' = used /\ pc = "main"
      BY <1>6 DEF Listed, ShowPage, NothingToCreate, NotFound, Exhausted, CountAttempt, Settled, Busy
    <2>2. \/ Throw
          \/ \E c \in goal : /\ c.ip = AddressOf[op.by]
                             /\ Finish([Out EXCEPT !.pc = "solving", !.got = c.id])
      BY <1>6 DEF Listed, ShowPage, NothingToCreate, NotFound, Exhausted, CountAttempt, Throw
    <2> QED
      BY <1>2, <2>1, <2>2, PageClients
  <1> QED
    BY <1>3, <1>4, <1>5, <1>6 DEF Operate

-----------------------------------------------------------------------------
\* The include

\* Where the addresses in the include come from.
LEMMA Rendered ==
  /\ RenderGeo(goal) \subseteq Ips(goal) /\ RenderGeo(base) \subseteq Ips(base)
  /\ bypass => RenderGeo(goal) = {} /\ RenderGeo(base) = {}
  /\ ~bypass => RenderGeo(goal) = Ips(ActiveChallenges(goal))
  BY DEF RenderGeo, Ips, ActiveChallenges

\* As time passes fewer challenges are active.
LEMMA LapsedActive ==
  ASSUME lapsed \subseteq lapsed', goal' = goal
  PROVE  Ips(ActiveChallenges(goal))' \subseteq Ips(ActiveChallenges(goal))
  BY DEF Ips, ActiveChallenges

\* The work of an accepted proof takes its address from the list.
LEMMA ProvedOut ==
  ASSUME CoreInv, Busy, stage = "main", op.kind = "verify", NEW c \in challenges, c.id = op.id
  PROVE  c.ip \notin Ips(goal)
  <1>1. PICK d \in challenges : d.id = op.id /\ goal = challenges \ {d}
    BY DEF CoreInv, PhaseInv, Committing
  <1>2. d = c /\ \A e \in challenges : e.ip = c.ip => e = c
    BY <1>1 DEF CoreInv, ListInv, Distinct
  <1> QED
    BY <1>1, <1>2 DEF Ips

\* Nobody else touches what the running operation knows of the include.
LEMMA OthersInclude ==
  ASSUME CoreInv, IncludeInv,
         \/ UNCHANGED vars
         \/ \E ips \in SUBSET Ip : RequestChallenges(ips)
         \/ \E i \in Id : RequestRemoval(i) \/ RequestGuess(i) \/ Lapse(i)
         \/ RequestPurge \/ ReloadElsewhere
         \/ \E c \in Client : Fetch(c) \/ Submit(c) \/ GiveUp(c) \/ Retry(c)
  PROVE  IncludeInv'
  <1>1. /\ UNCHANGED <<challenges, goal, pc, stage, undoing, bypass, conf, was>> /\ lapsed \subseteq lapsed'
        /\ nginx' = nginx \/ nginx' = conf
    BY DEF vars, storage, locals, RequestChallenges, RequestRemoval, RequestGuess, RequestPurge, Chain,
           Lapse, ReloadElsewhere, Fetch, Submit, GiveUp, Retry
  <1>2. Busy' <=> Busy
    BY <1>1 DEF Busy
  <1>3. Busy => op' = op
    <2>1. queue \in Seq(Operation) /\ (Busy => queue # <<>>)
      BY DEF CoreInv, Types, PhaseInv
    <2>2. queue' = queue \/ \E o : queue' = Append(queue, o)
      BY DEF vars, RequestChallenges, RequestRemoval, RequestGuess, RequestPurge, Chain,
             Lapse, ReloadElsewhere, Fetch, Submit, GiveUp, Retry
    <2> QED
      BY <2>1, <2>2 DEF op
  <1>4. Ips(ActiveChallenges(goal))' \subseteq Ips(ActiveChallenges(goal))
    BY <1>1, LapsedActive
  <1>5. (bypass => conf = {} /\ nginx = {} /\ was = {})'
    BY <1>1 DEF IncludeInv
  <1>6. (pc = "main" \/ (pc = "persist" /\ stage = "purge") \/ (pc = "reload" /\ ~undoing) =>
          bypass \/ Ips(ActiveChallenges(goal)) \subseteq conf)'
    BY <1>1, <1>4 DEF IncludeInv
  <1>7. (Busy /\ stage = "main" /\ op.kind = "verify" /\ ~undoing =>
          \A c \in challenges : c.id = op.id =>
            \/ c.id \in lapsed
            \/ /\ pc = "apply" => bypass \/ c.ip \in conf
               /\ pc = "reload" => c.ip \notin conf
               /\ pc = "persist" => c.ip \notin conf /\ c.ip \notin nginx)'
    BY <1>1, <1>2, <1>3 DEF IncludeInv
  <1> QED
    BY <1>1, <1>5, <1>6, <1>7 DEF IncludeInv

\* An operation that has left the chain knows nothing of the include.
LEMMA IdleInclude ==
  ASSUME pc' \in {"idle", "down"}, (bypass => conf = {} /\ nginx = {} /\ was = {})'
  PROVE  IncludeInv'
  BY DEF IncludeInv, Busy

\* Operations leave the chain, the backend dies and starts again.
LEMMA EndInclude ==
  ASSUME IncludeInv,
         \/ Listed \/ ShowPage \/ NothingToCreate \/ NotFound \/ Exhausted \/ CountAttempt \/ Restore
         \/ Crash \/ RestartContainer \/ StartBackend
  PROVE  IncludeInv'
  <1>1. CASE Listed \/ ShowPage \/ NothingToCreate \/ NotFound \/ Exhausted \/ CountAttempt
    <2>1. pc' = "idle" /\ was' = {} /\ UNCHANGED <<conf, nginx, bypass>>
      BY <1>1 DEF Listed, ShowPage, NothingToCreate, NotFound, Exhausted, CountAttempt, Throw, Finish,
                  Settled, storage
    <2> QED
      BY <2>1, IdleInclude DEF IncludeInv
  <1>2. CASE Restore
    <2>1. /\ pc' = "idle" /\ was' = {} /\ bypass' = bypass
          /\ conf' \in {conf, was} /\ nginx' \in {nginx, was}
      BY <1>2 DEF Restore, Throw, Finish
    <2> QED
      BY <2>1, IdleInclude DEF IncludeInv
  <1>3. CASE Crash
    <2>1. pc' = "down" /\ was' = {} /\ UNCHANGED <<conf, nginx, bypass>>
      BY <1>3 DEF Crash, Die, storage
    <2> QED
      BY <2>1, IdleInclude DEF IncludeInv
  <1>4. CASE RestartContainer
    BY <1>4, IdleInclude DEF RestartContainer, Die
  <1>5. CASE StartBackend
    <2>1. pc' = "idle" /\ UNCHANGED <<was, conf, nginx, bypass>>
      BY <1>5 DEF StartBackend, storage, locals
    <2> QED
      BY <2>1, IdleInclude DEF IncludeInv
  <1> QED
    BY <1>1, <1>2, <1>3, <1>4, <1>5

\* Bringing the include to what it should say.
LEMMA ApplyInclude ==
  ASSUME CoreInv, IncludeInv, Begin \/ ApplyGeo \/ Reload
  PROVE  IncludeInv'
  <1>1. CASE Begin
    <2>1. /\ pc' = "apply" /\ stage' \in {"check", "purge"} /\ UNCHANGED <<conf, nginx, was, bypass>>
      BY <1>1 DEF Begin, storage
    <2> QED
      BY <2>1 DEF IncludeInv
  <1>2. CASE Throw /\ (ApplyGeo \/ Reload)
    <2>1. /\ pc' = "idle" /\ was' = {} /\ bypass' = bypass
          /\ conf' = conf /\ nginx' \in {nginx, conf}
      BY <1>2 DEF Throw, Finish, ApplyGeo, Reload
    <2> QED
      BY <2>1, IdleInclude DEF IncludeInv
  <1>3. CASE ApplyGeo /\ ~undoing /\ conf = RenderGeo(goal) /\ Applied
    <2>1. /\ Busy /\ pc' = (IF stage = "check" THEN "main" ELSE "persist") /\ was' = {}
          /\ UNCHANGED <<challenges, conf, nginx, lapsed, bypass, queue, stage, goal, undoing>>
      BY <1>3 DEF ApplyGeo, Applied, Busy
    <2>2. op' = op /\ Ips(ActiveChallenges(goal))' = Ips(ActiveChallenges(goal))
      BY <2>1 DEF op, Ips, ActiveChallenges
    <2>3. bypass \/ Ips(ActiveChallenges(goal)) \subseteq conf
      BY <1>3, Rendered
    <2>4. ASSUME stage = "main", op.kind = "verify", NEW c \in challenges, c.id = op.id
          PROVE  c.id \in lapsed \/ (c.ip \notin conf /\ c.ip \notin nginx)
      <3>1. c.id \in lapsed \/ bypass \/ c.ip \in conf
        BY <1>3, <2>1, <2>4 DEF IncludeInv, ApplyGeo
      <3>2. c.ip \notin conf
        BY <1>3, <2>1, <2>4, ProvedOut, Rendered
      <3>3. bypass => nginx = {}
        BY DEF IncludeInv
      <3> QED
        BY <3>1, <3>2, <3>3
    <2>5. (bypass => conf = {} /\ nginx = {} /\ was = {})' /\ ~undoing'
      BY <1>3, <2>1 DEF IncludeInv
    <2>6. pc' \in {"main", "persist"} /\ (pc' = "persist" => stage # "check")
      BY <2>1
    <2> QED
      BY <2>1, <2>2, <2>3, <2>4, <2>5, <2>6 DEF IncludeInv
  <1>4. CASE ApplyGeo /\ pc' = "reload"
    <2>1. /\ Busy /\ conf' = RenderGeo(IF undoing THEN base ELSE goal) /\ was' = conf
          /\ UNCHANGED <<challenges, nginx, lapsed, bypass, queue, stage, goal, undoing>>
      BY <1>4 DEF ApplyGeo, Applied, Throw, Finish, Busy
    <2>2. op' = op /\ Ips(ActiveChallenges(goal))' = Ips(ActiveChallenges(goal))
      BY <2>1 DEF op, Ips, ActiveChallenges
    <2>3. ~undoing => bypass \/ Ips(ActiveChallenges(goal)) \subseteq conf'
      BY <2>1, Rendered
    <2>4. ASSUME stage = "main", op.kind = "verify", ~undoing, NEW c \in challenges, c.id = op.id
          PROVE  c.ip \notin conf'
      BY <2>1, <2>4, ProvedOut, Rendered
    <2>5. (bypass => conf = {} /\ nginx = {} /\ was = {})'
      BY <2>1, Rendered DEF IncludeInv
    <2> QED
      BY <1>4, <2>1, <2>2, <2>3, <2>4, <2>5 DEF IncludeInv
  <1>5. CASE Reload /\ ~undoing /\ nginx' = conf /\ Applied
    <2>1. /\ Busy /\ pc' = (IF stage = "check" THEN "main" ELSE "persist") /\ was' = {}
          /\ UNCHANGED <<challenges, conf, lapsed, bypass, queue, stage, goal, undoing>>
      BY <1>5 DEF Reload, Applied, Busy
    <2>2. op' = op /\ Ips(ActiveChallenges(goal))' = Ips(ActiveChallenges(goal))
      BY <2>1 DEF op, Ips, ActiveChallenges
    <2>3. bypass \/ Ips(ActiveChallenges(goal)) \subseteq conf
      BY <1>5 DEF IncludeInv, Reload
    <2>4. ASSUME stage = "main", op.kind = "verify", NEW c \in challenges, c.id = op.id
          PROVE  c.id \in lapsed \/ (c.ip \notin conf /\ c.ip \notin nginx')
      BY <1>5, <2>1, <2>4 DEF IncludeInv, Reload
    <2>5. (bypass => conf = {} /\ nginx = {} /\ was = {})' /\ ~undoing'
      BY <1>5, <2>1 DEF IncludeInv
    <2>6. pc' \in {"main", "persist"} /\ (pc' = "persist" => stage # "check")
      BY <2>1
    <2> QED
      BY <2>1, <2>2, <2>3, <2>4, <2>5, <2>6 DEF IncludeInv
  <1>6. CASE Reload /\ pc' = "restore"
    <2>1. /\ Busy /\ nginx' \in {nginx, conf}
          /\ UNCHANGED <<challenges, conf, was, lapsed, bypass, queue, stage, goal, undoing>>
      BY <1>6 DEF Reload, Applied, Throw, Finish, Busy, locals
    <2> QED
      BY <1>6, <2>1 DEF IncludeInv
  <1> QED
    BY <1>1, <1>2, <1>3, <1>4, <1>5, <1>6 DEF ApplyGeo, Reload, Applied

\* An operation that begins to write, and the write.
LEMMA CommitInclude ==
  ASSUME CoreInv, IncludeInv, CreateChallenges \/ RemoveChallenge \/ AcceptProof \/ Persist
  PROVE  IncludeInv'
  <1>1. CASE CreateChallenges \/ RemoveChallenge \/ AcceptProof
    <2>1. /\ pc = "main" /\ pc' = "apply"
          /\ UNCHANGED <<challenges, conf, nginx, was, lapsed, bypass, queue, undoing>>
      BY <1>1 DEF CreateChallenges, RemoveChallenge, AcceptProof, Commit, storage
    <2>2. op' = op
      BY <2>1 DEF op
    <2>3. ASSUME NEW c \in challenges
          PROVE  c.id \in lapsed \/ bypass \/ c.ip \in conf
      <3>1. goal = challenges
        BY <2>1, AtWork
      <3>2. c.id \in lapsed \/ c.ip \in Ips(ActiveChallenges(goal))
        BY <3>1 DEF Ips, ActiveChallenges
      <3> QED
        BY <2>1, <3>2 DEF IncludeInv
    <2>4. (bypass => conf = {} /\ nginx = {} /\ was = {})'
      BY <2>1 DEF IncludeInv
    <2> QED
      BY <2>1, <2>2, <2>3, <2>4 DEF IncludeInv
  <1>2. CASE Persist
    <2>1. UNCHANGED <<conf, nginx, lapsed, bypass>>
      BY <1>2 DEF Persist
    <2>2. CASE Finish(SolvedAnswer)
      BY <2>1, <2>2, IdleInclude DEF Finish, IncludeInv
    <2>3. CASE stage = "purge" /\ pc' = "main" /\ stage' = "check" /\ UNCHANGED <<goal, was>>
      <3>1. Ips(ActiveChallenges(goal))' = Ips(ActiveChallenges(goal))
        BY <2>1, <2>3 DEF Ips, ActiveChallenges
      <3> QED
        BY <1>2, <2>1, <2>3, <3>1 DEF IncludeInv, Persist
    <2>4. CASE undoing' /\ pc' = "apply" /\ was' = was
      BY <2>1, <2>4 DEF IncludeInv
    <2> QED
      BY <1>2, <2>2, <2>3, <2>4 DEF Persist, SolvedAnswer
  <1> QED
    BY <1>1, <1>2

-----------------------------------------------------------------------------
\* Solved challenges

\* What excuses that a client is challenged does not go away.
LEMMA StillExcused ==
  ASSUME NEW c \in Client, Excused(c), client'[c] = client[c], used \subseteq used', lapsed \subseteq lapsed'
  PROVE  Excused(c)'
  BY DEF Excused

\* A client that is told so has nothing left of its challenge anywhere.
LEMMA SolvedNow ==
  ASSUME CoreInv, ClientInv, IncludeInv, pc = "persist", stage = "main", op.by # None,
         challenges' = goal, Finish(SolvedAnswer), UNCHANGED <<conf, nginx, lapsed, used>>
  PROVE  op.id \in lapsed \/ AddressOf[op.by] \notin Places'
  <1>1. Busy
    BY DEF Busy
  <1>2. op.kind = "verify" /\ [id |-> op.id, ip |-> AddressOf[op.by]] \in used
    BY <1>1, SolvedFits
  <1>3. PICK c \in challenges : c.id = op.id
    BY <1>1, <1>2 DEF CoreInv, PhaseInv, Committing
  <1>4. c.ip = AddressOf[op.by]
    <2>1. NameOf(c) \in used /\ NameOf(c).id = op.id /\ NameOf(c).ip = c.ip
      BY <1>3 DEF CoreInv, ListInv, NameOf
    <2> QED
      BY <1>2, <2>1 DEF CoreInv, ListInv
  <1>5. c.ip \notin Ips(goal)
    BY <1>1, <1>2, <1>3, ProvedOut
  <1>6. c.id \in lapsed \/ (c.ip \notin conf /\ c.ip \notin nginx)
    BY <1>1, <1>2, <1>3 DEF IncludeInv
  <1>7. goal' = {} /\ base' = {} /\ was' = {}
    BY DEF Finish
  <1>8. Places' = conf \cup nginx \cup Ips(goal)
    BY <1>7 DEF Places, Ips
  <1> QED
    BY <1>3, <1>4, <1>5, <1>6, <1>8

\* No step takes an address anywhere it was not, but for a challenge that is new.
LEMMA PlacesStep ==
  ASSUME CoreInv, [Next]_vars, NEW a \in Places', a \notin Places
  PROVE  \E new \in used' \ used : new.ip = a
  <1>1. CASE \/ UNCHANGED vars
             \/ \E ips \in SUBSET Ip : RequestChallenges(ips)
             \/ \E i \in Id : RequestRemoval(i) \/ RequestGuess(i) \/ Lapse(i)
             \/ RequestPurge \/ ReloadElsewhere \/ StartBackend
             \/ \E c \in Client : Fetch(c) \/ Submit(c) \/ GiveUp(c) \/ Retry(c)
    <2>1. UNCHANGED <<challenges, base, goal, was, conf>> /\ nginx' \in {nginx, conf}
      BY <1>1 DEF vars, storage, locals, RequestChallenges, RequestRemoval, RequestGuess, RequestPurge, Chain,
             Lapse, ReloadElsewhere, StartBackend, Fetch, Submit, GiveUp, Retry
    <2> QED
      BY <2>1 DEF Places, Ips
  <1>2. CASE Begin
    <2>1. UNCHANGED <<challenges, was, conf, nginx>> /\ base' = challenges /\ goal' \subseteq challenges
      BY <1>2 DEF Begin, storage, ActiveChallenges
    <2> QED
      BY <2>1 DEF Places, Ips
  <1>3. CASE ApplyGeo \/ Reload \/ Restore
    <2>1. /\ challenges' = challenges /\ goal' \in {goal, {}} /\ base' \in {base, {}}
          /\ was' \in {was, conf, {}} /\ nginx' \in {nginx, conf, was}
          /\ conf' \in {conf, was, RenderGeo(goal), RenderGeo(base)}
      BY <1>3 DEF ApplyGeo, Reload, Restore, Applied, Throw, Finish, locals
    <2>2. conf' \subseteq conf \cup was \cup Ips(goal) \cup Ips(base)
      BY <2>1, Rendered
    <2>3. Ips(goal)' \subseteq Ips(goal) /\ Ips(base)' \subseteq Ips(base)
      BY <2>1 DEF Ips
    <2>4. was' \subseteq was \cup conf /\ nginx' \subseteq nginx \cup conf \cup was
      BY <2>1
    <2>5. Ips(challenges)' = Ips(challenges)
      BY <2>1 DEF Ips
    <2> QED
      BY <2>2, <2>3, <2>4, <2>5 DEF Places
  <1>4. CASE Persist
    <2>1. /\ challenges' \in {challenges, goal} /\ goal' \in {goal, {}} /\ base' \in {base, goal, {}}
          /\ was' \in {was, {}} /\ UNCHANGED <<conf, nginx>>
      BY <1>4 DEF Persist, Finish
    <2> QED
      BY <2>1 DEF Places, Ips
  <1>5. CASE RemoveChallenge \/ AcceptProof
    <2>1. UNCHANGED <<challenges, base, was, conf, nginx>> /\ goal' \subseteq goal
      BY <1>5 DEF RemoveChallenge, AcceptProof, Commit, storage
    <2> QED
      BY <2>1 DEF Places, Ips
  <1>6. CASE CreateChallenges
    <2>1. PICK uuid \in [Missing -> Id \ Ids(used)] :
            /\ used' = used \cup {[id |-> uuid[b], ip |-> b] : b \in Missing}
            /\ Commit(goal \cup {[id |-> uuid[b], ip |-> b, attempts |-> 0] : b \in Missing})
      BY <1>6 DEF CreateChallenges
    <2>2. UNCHANGED <<challenges, base, was, conf, nginx>>
      BY <2>1 DEF Commit, storage
    <2>3. goal' = goal \cup {[id |-> uuid[b], ip |-> b, attempts |-> 0] : b \in Missing}
      BY <2>1 DEF Commit
    <2>4. a \in Ips(goal)'
      BY <2>2 DEF Places, Ips
    <2>5. a \in Missing
      BY <2>3, <2>4 DEF Ips, Places
    <2>6. [id |-> uuid[a], ip |-> a] \in used'
      BY <2>1, <2>5
    <2>7. [id |-> uuid[a], ip |-> a] \notin used
      BY <2>1, <2>5 DEF Ids
    <2> QED
      BY <2>6, <2>7
  <1>7. CASE Listed \/ ShowPage \/ NothingToCreate \/ NotFound \/ Exhausted
    <2>1. UNCHANGED <<challenges, conf, nginx>> /\ goal' = {} /\ base' = {} /\ was' = {}
      BY <1>7 DEF Listed, ShowPage, NothingToCreate, NotFound, Exhausted, Throw, Finish, Settled, storage
    <2> QED
      BY <2>1 DEF Places, Ips
  <1>8. CASE CountAttempt
    <2>1. UNCHANGED <<conf, nginx>> /\ goal' = {} /\ base' = {} /\ was' = {}
      BY <1>8 DEF CountAttempt, Throw, Finish
    <2>2. Ips(challenges)' \subseteq Ips(challenges) \cup Ips(goal)
      <3>1. CASE challenges' = challenges
        BY <3>1 DEF Ips
      <3>2. CASE challenges' = (goal \ Named) \cup {[c EXCEPT !.attempts = @ + 1] : c \in Named}
        <4>1. ASSUME NEW c \in Named
              PROVE  [c EXCEPT !.attempts = @ + 1].ip = c.ip /\ c \in goal
          BY DEF Named, CoreInv, Types, Open
        <4>2. \A d \in challenges' : \E c \in goal : d.ip = c.ip
          BY <3>2, <4>1
        <4> QED
          BY <4>2 DEF Ips
      <3> QED
        BY <1>8, <3>1, <3>2 DEF CountAttempt
    <2>3. Ips(goal)' = {} /\ Ips(base)' = {}
      BY <2>1 DEF Ips
    <2> QED
      BY <2>1, <2>2, <2>3 DEF Places
  <1>9. CASE Crash \/ RestartContainer
    <2>1. /\ challenges' = challenges /\ goal' = {} /\ base' = {} /\ was' = {}
          /\ conf' \subseteq conf /\ nginx' \subseteq nginx \cup conf
      BY <1>9 DEF Crash, RestartContainer, Die, storage
    <2>2. Ips(goal)' = {} /\ Ips(base)' = {} /\ Ips(challenges)' = Ips(challenges)
      BY <2>1 DEF Ips
    <2> QED
      BY <2>1, <2>2 DEF Places
  <1> QED
    BY <1>1, <1>2, <1>3, <1>4, <1>5, <1>6, <1>7, <1>8, <1>9 DEF Next, Operate

\* A client is told that it solved its challenge by the write of the list only.
LEMMA ToldSolved ==
  ASSUME CoreInv, [Next]_vars, NEW c \in Client, client'[c].pc = "solved", client'[c] # client[c]
  PROVE  /\ pc = "persist" /\ stage = "main" /\ op.by = c /\ op.by # None /\ challenges' = goal
         /\ Finish(SolvedAnswer) /\ UNCHANGED <<conf, nginx, lapsed, used>>
  <1>0. client \in [Client -> Caller]
    BY DEF CoreInv, Types
  <1>1. client' # client
    OBVIOUS
  <1>2. ASSUME NEW answer, Finish(answer), answer.pc # "solved"
        PROVE  FALSE
    BY <1>0, <1>2 DEF Finish, Reply
  <1>3. ~Throw
    BY <1>2 DEF Throw, Out
  <1>4. ASSUME NEW d \in goal, Finish([Out EXCEPT !.pc = "solving", !.got = d.id])
        PROVE  FALSE
    BY <1>2, <1>4 DEF Out
  <1>5. ASSUME NEW d \in Client, NEW step \in {"asking", "verifying"}, At(d, step)
        PROVE  FALSE
    BY <1>0, <1>5 DEF At, Caller
  <1>6. ASSUME NEW d \in Client, client' = [client EXCEPT ![d] = Out]
        PROVE  FALSE
    BY <1>0, <1>6 DEF Out
  <1>7. ~Die
    BY DEF Die, Disconnect, Out
  <1>8. ASSUME NEW d \in Client, Fetch(d) \/ Submit(d) \/ GiveUp(d) \/ Retry(d)
        PROVE  FALSE
    BY <1>5, <1>6, <1>8 DEF Fetch, Submit, GiveUp, Retry
  <1>9. ~(Listed \/ ShowPage \/ NothingToCreate \/ NotFound \/ Exhausted \/ CountAttempt)
    BY <1>3, <1>4 DEF Listed, ShowPage, NothingToCreate, NotFound, Exhausted, CountAttempt, Throw
  <1>10. ~(ApplyGeo \/ Reload \/ Restore)
    BY <1>1, <1>3 DEF ApplyGeo, Reload, Restore, Applied
  <1>11. ~(Begin \/ CreateChallenges \/ RemoveChallenge \/ AcceptProof)
    BY <1>1 DEF Begin, CreateChallenges, RemoveChallenge, AcceptProof, Commit
  <1>12. ~(Crash \/ RestartContainer \/ StartBackend)
    BY <1>1, <1>7 DEF Crash, RestartContainer, StartBackend
  <1>13. ~(RequestPurge \/ ReloadElsewhere) /\ ~UNCHANGED vars
    BY <1>1 DEF RequestPurge, ReloadElsewhere, vars
  <1>14. \A i \in Id : ~(RequestRemoval(i) \/ RequestGuess(i) \/ Lapse(i))
    BY <1>1 DEF RequestRemoval, RequestGuess, Lapse
  <1>15. \A ips \in SUBSET Ip : ~RequestChallenges(ips)
    BY <1>1 DEF RequestChallenges
  <1>16. Persist
    BY <1>8, <1>9, <1>10, <1>11, <1>12, <1>13, <1>14, <1>15 DEF Next, Operate
  <1>17. stage # "purge" /\ challenges' = goal /\ Finish(SolvedAnswer)
    BY <1>1, <1>16 DEF Persist, SolvedAnswer
  <1>18. pc = "persist" /\ stage = "main" /\ UNCHANGED <<conf, nginx, lapsed, used>>
    BY <1>16, <1>17 DEF Persist, CoreInv, PhaseInv, Busy
  <1>19. op.by # None /\ op.by = c
    BY <1>0, <1>17 DEF Finish, Reply
  <1> QED
    BY <1>17, <1>18, <1>19

\* What was solved stays solved.
LEMMA NextSolved ==
  ASSUME ChallengeInv, [Next]_vars
  PROVE  SolvedInv'
  <1> SUFFICES ASSUME NEW c \in Client, client'[c].pc = "solved"
               PROVE  Excused(c)' \/ AddressOf[c] \notin Places'
    BY DEF SolvedInv
  <1>0. used \subseteq used' /\ lapsed \subseteq lapsed'
    BY DEF vars, storage, Next, Operate, Begin, ApplyGeo, Reload, Restore, Persist, Listed, ShowPage,
           CreateChallenges, NothingToCreate, RemoveChallenge, NotFound, Exhausted, AcceptProof, CountAttempt,
           Settled, Commit, RequestChallenges, RequestRemoval, RequestGuess, Lapse, RequestPurge,
           ReloadElsewhere, Fetch, Submit, GiveUp, Retry, Chain, Crash, RestartContainer, StartBackend
  <1>1. CASE client'[c] = client[c]
    <2>1. CASE Excused(c)
      BY <1>0, <1>1, <2>1, StillExcused
    <2>2. CASE AddressOf[c] \notin Places /\ AddressOf[c] \in Places'
      <3>1. PICK new \in used' \ used : new.ip = AddressOf[c]
        BY <2>2, PlacesStep DEF ChallengeInv
      <3>2. client'[c].seen \subseteq used
        BY <1>1 DEF ChallengeInv, ClientInv
      <3> QED
        BY <3>1, <3>2 DEF Excused
    <2> QED
      BY <1>1, <2>1, <2>2 DEF ChallengeInv, SolvedInv
  <1>2. CASE client'[c] # client[c]
    <2>1. /\ pc = "persist" /\ stage = "main" /\ op.by = c /\ op.by # None /\ challenges' = goal
          /\ Finish(SolvedAnswer) /\ UNCHANGED <<conf, nginx, lapsed, used>>
      BY <1>2, ToldSolved DEF ChallengeInv
    <2>2. op.id \in lapsed \/ AddressOf[c] \notin Places'
      BY <2>1, SolvedNow DEF ChallengeInv
    <2>3. client'[c].got = op.id
      <3>1. client[c].got = op.id
        BY <2>1, SolvedFits DEF ChallengeInv, Busy
      <3>2. client \in [Client -> Caller] /\ client' = [client EXCEPT ![c] = SolvedAnswer]
        BY <2>1 DEF ChallengeInv, CoreInv, Types, Finish, Reply
      <3>3. SolvedAnswer.got = client[c].got
        BY <2>1, <3>2 DEF SolvedAnswer, Caller
      <3> QED
        BY <3>1, <3>2, <3>3
    <2> QED
      BY <1>0, <2>2, <2>3 DEF Excused
  <1> QED
    BY <1>1, <1>2

\* The parts of the invariant together.
LEMMA NextChallenge == ASSUME ChallengeInv, [Next]_vars PROVE ChallengeInv'
  <1>1. CoreInv'
    BY NextCore DEF ChallengeInv
  <1>2. ClientInv'
    <2>1. CASE Crash \/ RestartContainer
      BY <2>1, BrokenClients DEF ChallengeInv, Crash, RestartContainer
    <2>2. CASE Operate
      BY <2>2, OperateClients DEF ChallengeInv
    <2> QED
      BY <2>1, <2>2, OthersClients DEF ChallengeInv, Next
  <1>3. IncludeInv'
    <2>1. CASE Operate
      BY <2>1, ApplyInclude, EndInclude, CommitInclude DEF ChallengeInv, Operate
    <2>2. CASE Crash \/ RestartContainer \/ StartBackend
      BY <2>2, EndInclude DEF ChallengeInv
    <2> QED
      BY <2>1, <2>2, OthersInclude DEF ChallengeInv, Next
  <1> QED
    BY <1>1, <1>2, <1>3, NextSolved DEF ChallengeInv

\* At first nobody holds a challenge.
LEMMA InitChallenge == Init => ChallengeInv
  <1> SUFFICES ASSUME Init PROVE ChallengeInv
    OBVIOUS
  <1>1. CoreInv
    BY InitCore
  <1>2. ClientInv
    BY DEF Init, ClientInv, Prepare, Purge, Out
  <1>3. IncludeInv
    BY DEF Init, IncludeInv, Busy
  <1>4. SolvedInv
    BY DEF Init, SolvedInv, Out
  <1> QED
    BY <1>1, <1>2, <1>3, <1>4 DEF ChallengeInv

\* A client whose solution was acknowledged is let through when it retries: no
\* undoing of a failed write, no restart, no reload by another part of the
\* backend brings the challenge it solved back into the running Nginx
\* (commitState, applyGeo, verifyChallenge and the client's RECHALLENGED).
THEOREM SolvedAreLetThrough == Spec => []SolvedIsLetThrough
  <1>1. ChallengeInv /\ [Next]_vars => ChallengeInv'
    BY NextChallenge
  <1>2. ChallengeInv => SolvedIsLetThrough
    BY DEF ChallengeInv, SolvedInv, Excused, Places, SolvedIsLetThrough
  <1> QED
    BY <1>1, <1>2, InitChallenge, PTL DEF Spec
=============================================================================
