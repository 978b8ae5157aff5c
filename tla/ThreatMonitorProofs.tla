------------------------- MODULE ThreatMonitorProofs -------------------------
(***************************************************************************)
(* What the monitor of ThreatMonitor guarantees for every set of sources   *)
(* and requests, every policy and any interleaving of polls, runs, failing *)
(* commits, administrators and restarts.                                   *)
(***************************************************************************)
EXTENDS ThreatMonitor, SequenceTheorems, FiniteSetTheorems, WellFoundedInduction, TLAPS

-----------------------------------------------------------------------------
\* Lemmas about sequences

\* Induction over the natural numbers, for a set instead of a predicate.
LEMMA SetInduction ==
  ASSUME NEW S, 0 \in S, \A n \in Nat : n \in S => n + 1 \in S
  PROVE  Nat \subseteq S
  <1> SUFFICES ASSUME Nat \ S # {} PROVE FALSE
    OBVIOUS
  <1>1. PICK x \in Nat \ S : \A y \in Nat \ S : ~(<<y, x>> \in OpToRel(<, Nat))
    BY NatLessThanWellFounded, WFMin
  <1>2. x \in Nat /\ x \notin S /\ x # 0 /\ x - 1 \in Nat
    <2>1. x \in Nat /\ x \notin S
      OBVIOUS
    <2> QED
      BY <2>1
  <1>3. <<x - 1, x>> \in OpToRel(<, Nat)
    BY <1>1, <1>2 DEF OpToRel
  <1>4. x - 1 \in S
    BY <1>1, <1>2, <1>3
  <1> QED
    <2>1. (x - 1) + 1 = x
      BY <1>2
    <2> QED
      BY <1>2, <1>4, <2>1

\* A longer sequence has one more element.
LEMMA AppendRange ==
  ASSUME NEW T, NEW q \in Seq(T), NEW e \in T
  PROVE  /\ Append(q, e) \in Seq(T)
         /\ Range(Append(q, e)) = Range(q) \cup {e}
         /\ IsInjective(q) /\ e \notin Range(q) => IsInjective(Append(q, e))
  <1> DEFINE r == Append(q, e)
  <1>1. /\ r \in Seq(T) /\ DOMAIN r = 1 .. Len(q) + 1 /\ DOMAIN q = 1 .. Len(q) /\ Len(q) \in Nat
        /\ r[Len(q) + 1] = e /\ \A i \in 1 .. Len(q) : r[i] = q[i]
    BY AppendProperties
  <1> HIDE DEF r
  <1>2. DOMAIN r = DOMAIN q \cup {Len(q) + 1}
    BY <1>1
  <1>3. Range(r) = Range(q) \cup {e}
    BY <1>1, <1>2 DEF Range
  <1>4. IsInjective(q) /\ e \notin Range(q) => IsInjective(r)
    BY <1>1, <1>2 DEF Range, IsInjective
  <1> QED
    BY <1>1, <1>3, <1>4 DEF r

\* The head of a sequence without repetitions is not in its tail.
LEMMA TailRange ==
  ASSUME NEW T, NEW q \in Seq(T), q # <<>>
  PROVE  /\ Tail(q) \in Seq(T) /\ Head(q) \in T /\ Head(q) \in Range(q)
         /\ Range(Tail(q)) \subseteq Range(q)
         /\ IsInjective(q) => IsInjective(Tail(q)) /\ Head(q) \notin Range(Tail(q))
  BY DEF Range, IsInjective

\* The events that rememberEvent lets through are those of the log that were
\* not known, each once.
LEMMA RememberProperties ==
  ASSUME NEW T, NEW s \in Seq(T), NEW known_
  PROVE  /\ Remember(s, known_) \in Seq(T)
         /\ Range(Remember(s, known_)) = Range(s) \ known_
         /\ IsInjective(Remember(s, known_))
  <1> DEFINE N == Len(s)
             Def(g, i) == IF i = 0 THEN <<>>
                          ELSE IF s[i] \in known_ \cup Range(g[i - 1]) THEN g[i - 1]
                          ELSE Append(g[i - 1], s[i])
             Partial(n) == {g \in [0 .. n -> Seq(T)] : \A i \in 0 .. n : g[i] = Def(g, i)}
             kept == CHOOSE k : k = [i \in 0 .. N |-> Def(k, i)]
  <1>0. N \in Nat /\ \A i \in 1 .. N : s[i] \in T
    OBVIOUS
  <1>1. Partial(N) # {}
    <2> DEFINE S == {n \in Nat : n <= N => Partial(n) # {}}
    <2>1. 0 \in S
      <3>1. [i \in 0 .. 0 |-> <<>>] \in Partial(0)
        OBVIOUS
      <3> QED
        BY <3>1
    <2>2. ASSUME NEW n \in Nat, n \in S PROVE n + 1 \in S
      <3> SUFFICES ASSUME n + 1 <= N PROVE Partial(n + 1) # {}
        OBVIOUS
      <3>0. n <= N
        BY <1>0
      <3> HIDE DEF Partial
      <3>1. PICK g \in Partial(n) : TRUE
        BY <2>2, <3>0
      <3> USE DEF Partial
      <3> DEFINE h == [i \in 0 .. (n + 1) |-> IF i = n + 1 THEN Def(g, n + 1) ELSE g[i]]
      <3>2. g \in [0 .. n -> Seq(T)] /\ \A i \in 0 .. n : g[i] = Def(g, i)
        BY <3>1
      <3>3. Def(g, n + 1) \in Seq(T)
        <4>1. g[(n + 1) - 1] \in Seq(T) /\ s[n + 1] \in T
          BY <1>0, <3>2
        <4> QED
          BY <4>1, AppendProperties
      <3> HIDE DEF Def
      <3>4. h \in [0 .. (n + 1) -> Seq(T)]
        BY <3>2, <3>3
      <3>5. \A i \in 0 .. (n + 1) : h[i] = Def(g, i)
        BY <3>2
      <3>6. \A i \in 0 .. (n + 1) : i # 0 => h[i - 1] = g[i - 1]
        BY <3>2
      <3> HIDE DEF h
      <3>7. \A i \in 0 .. (n + 1) : Def(h, i) = Def(g, i)
        <4> TAKE i \in 0 .. (n + 1)
        <4>1. CASE i = 0
          BY <4>1 DEF Def
        <4>2. CASE i # 0
          <5>1. h[i - 1] = g[i - 1]
            BY <3>6, <4>2
          <5> QED
            BY <4>2, <5>1 DEF Def
        <4> QED
          BY <4>1, <4>2
      <3>8. \A i \in 0 .. (n + 1) : h[i] = Def(h, i)
        BY <3>5, <3>7
      <3> QED
        BY <3>4, <3>8
    <2> HIDE DEF S
    <2>3. Nat \subseteq S
      BY <2>1, <2>2, SetInduction
    <2>4. N \in S
      BY <1>0, <2>3
    <2> HIDE DEF Partial
    <2> QED
      BY <1>0, <2>4 DEF S
  <1>2. kept = [i \in 0 .. N |-> Def(kept, i)]
    <2>1. PICK g \in Partial(N) : TRUE
      BY <1>1
    <2>2. g = [i \in 0 .. N |-> Def(g, i)]
      <3> HIDE DEF Def
      <3> QED
        BY <2>1
    <2> HIDE DEF Def
    <2> QED
      BY <2>2
  <1>3. Remember(s, known_) = kept[N]
    BY DEF Remember
  <1> HIDE DEF kept
  <1> DEFINE Upto(n) == {s[j] : j \in 1 .. n} \ known_
             Good(n) == /\ kept[n] \in Seq(T) /\ Range(kept[n]) = Upto(n)
                        /\ IsInjective(kept[n])
             S == {n \in Nat : n <= N => Good(n)}
  <1>4. 0 \in S
    <2>1. kept[0] = <<>>
      BY <1>0, <1>2
    <2>2. Range(kept[0]) = {} /\ IsInjective(kept[0]) /\ kept[0] \in Seq(T)
      BY <2>1 DEF Range, IsInjective
    <2>3. Upto(0) = {}
      OBVIOUS
    <2> QED
      BY <2>2, <2>3
  <1>5. ASSUME NEW n \in Nat, n \in S PROVE n + 1 \in S
    <2> SUFFICES ASSUME n + 1 <= N PROVE Good(n + 1)
      OBVIOUS
    <2> DEFINE q == kept[n]
               e == s[n + 1]
    <2>1. Good(n) /\ e \in T
      BY <1>0, <1>5
    <2>2. kept[n + 1] = IF e \in known_ \cup Range(q) THEN q ELSE Append(q, e)
      <3>1. (n + 1) \in 0 .. N /\ n + 1 # 0 /\ (n + 1) - 1 = n
        BY <1>0
      <3> QED
        BY <1>2, <3>1
    <2>3. {s[j] : j \in 1 .. (n + 1)} = {s[j] : j \in 1 .. n} \cup {e}
      <3>1. 1 .. (n + 1) = (1 .. n) \cup {n + 1}
        OBVIOUS
      <3> QED
        BY <3>1
    <2>4. Upto(n + 1) = (Upto(n) \cup {e}) \ known_
      BY <2>3
    <2> HIDE DEF q, e, Upto
    <2>5. q \in Seq(T) /\ Range(q) = Upto(n) /\ IsInjective(q)
      BY <2>1 DEF q
    <2>6. Upto(n) \cap known_ = {}
      BY DEF Upto
    <2>7. CASE e \in known_ \cup Range(q)
      BY <2>2, <2>4, <2>5, <2>6, <2>7
    <2>8. CASE e \notin known_ \cup Range(q)
      <3>1. kept[n + 1] = Append(q, e) /\ Upto(n + 1) = Upto(n) \cup {e}
        BY <2>2, <2>4, <2>6, <2>8
      <3>2. /\ Append(q, e) \in Seq(T) /\ Range(Append(q, e)) = Range(q) \cup {e}
            /\ IsInjective(Append(q, e))
        BY <2>1, <2>5, <2>8, AppendRange
      <3> QED
        BY <2>5, <3>1, <3>2
    <2> QED
      BY <2>7, <2>8
  <1> HIDE DEF S
  <1>6. Nat \subseteq S
    BY <1>4, <1>5, SetInduction
  <1>7. Good(N)
    <2>1. N \in S
      BY <1>0, <1>6
    <2> HIDE DEF Good
    <2> QED
      BY <1>0, <2>1 DEF S
  <1>8. Upto(N) = Range(s) \ known_
    BY DEF Range
  <1> QED
    BY <1>3, <1>7, <1>8
-----------------------------------------------------------------------------
\* A request is answered once

Decision == [ip : Source, by : Event]
Run == [fresh : Seq(Event), policy : Policies]

\* The types of the variables a request passes through.
FeedTypes ==
  /\ log \in Seq(Event) /\ seen \subseteq Logged
  /\ policy \in Policies
  /\ waiting \in Seq(Run) /\ fresh \in Seq(Event)
  /\ newBlocks \subseteq Decision /\ newLimits \subseteq Decision /\ asked \subseteq Decision
  /\ answers \in [Event -> Nat]

By(list) == {r.by : r \in list}
Once(list) == \A a, b \in list : a.by = b.by => a = b
Unanswered(list) == Once(list) /\ \A e \in By(list) : answers[e] = 0

\* The events of run i that waits, and those no run has decided on.
Part(i) == Range(waiting[i].fresh)
Undecided(e) == e \in Range(fresh) \/ \E i \in DOMAIN waiting : e \in Part(i)

\* An event is in one run, once.
QueueInv ==
  /\ IsInjective(fresh) /\ \A i \in DOMAIN waiting : IsInjective(waiting[i].fresh)
  /\ \A i \in DOMAIN waiting : Part(i) \cap Range(fresh) = {}
  /\ \A i, j \in DOMAIN waiting : i # j => Part(i) \cap Part(j) = {}
  /\ \A e \in Event : Undecided(e) => e \in seen

\* What a run has decided on and not committed yet answers events that have no
\* answer, each of them in one list.
DecidedInv ==
  /\ \A e \in By(newBlocks \cup newLimits \cup asked) : e \in seen /\ ~Undecided(e)
  /\ pc \in {"consider", "challenge", "block"} => Unanswered(newBlocks)
  /\ pc \in {"consider", "challenge"} => Unanswered(asked) /\ By(asked) \cap By(newBlocks) = {}
  /\ pc = "consider" =>
       Unanswered(newLimits) /\ By(newLimits) \cap By(newBlocks \cup asked) = {}

\* An event that has an answer is remembered, or will be when the monitor primes.
AnswersInv ==
  /\ \A e \in Event : answers[e] <= 1
  /\ \A e \in Event : Undecided(e) => answers[e] = 0
  /\ \A e \in Event : answers[e] > 0 => e \in Logged /\ (primed => e \in seen)

OnceInv == FeedTypes /\ QueueInv /\ DecidedInv /\ AnswersInv
\* A commit of decisions that answer unanswered events gives each its one answer.
LEMMA StartedOnce ==
  ASSUME FeedTypes, NEW list, Unanswered(list)
  PROVE  Started(list) = [e \in Event |-> IF e \in By(list) THEN 1 ELSE answers[e]]
  <1>1. ASSUME NEW e \in Event
        PROVE  answers[e] + Cardinality({r \in list : r.by = e})
                 = IF e \in By(list) THEN 1 ELSE answers[e]
    <2>0. answers[e] \in Nat
      BY DEF FeedTypes
    <2>1. CASE e \in By(list)
      <3>1. PICK r \in list : r.by = e
        BY <2>1 DEF By
      <3>2. {x \in list : x.by = e} = {r}
        BY <3>1 DEF Unanswered, Once
      <3>3. Cardinality({x \in list : x.by = e}) = 1
        BY <3>2, FS_Singleton
      <3> QED
        BY <2>1, <3>3 DEF Unanswered
    <2>2. CASE e \notin By(list)
      <3>1. {x \in list : x.by = e} = {}
        BY <2>2 DEF By
      <3>2. Cardinality({x \in list : x.by = e}) = 0
        BY <3>1, FS_EmptySet
      <3> QED
        BY <2>0, <2>2, <3>2
    <2> QED
      BY <2>1, <2>2
  <1> QED
    BY <1>1 DEF Started

\* What the administrator, the clock and the files of the stores do is no
\* concern of the events; a run that goes on to a later step promises less.
LEMMA AsideOnce ==
  ASSUME OnceInv, policy' \in Policies, UNCHANGED <<feed, fresh, newBlocks, newLimits, asked, answers>>,
         pc' = pc \/ pc' \in {"free", "clear", "marks"}
  PROVE  OnceInv'
  BY DEF OnceInv, FeedTypes, QueueInv, DecidedInv, AnswersInv, feed, Undecided, Part, Unanswered,
         Once, By, Logged

\* A logged request has not been answered before.
LEMMA LogOnce ==
  ASSUME OnceInv, NEW e \in Event, Log(e)
  PROVE  OnceInv'
  <1>1. log' = Append(log, e) /\ UNCHANGED <<policy, primed, seen, waiting, run, answers>>
    BY DEF Log, history
  <1>2. Append(log, e) \in Seq(Event) /\ Range(Append(log, e)) = Range(log) \cup {e}
    BY AppendRange DEF OnceInv, FeedTypes
  <1>3. log' \in Seq(Event) /\ Logged' = Logged \cup {e}
    BY <1>1, <1>2 DEF Logged
  <1> QED
    BY <1>1, <1>3 DEF run, batch, OnceInv, FeedTypes, QueueInv, DecidedInv, AnswersInv, Undecided,
                      Part, Unanswered, Once, By

\* The priming poll remembers what is in the log.
LEMMA PrimeOnce ==
  ASSUME OnceInv, Prime
  PROVE  OnceInv'
  <1>1. /\ primed' = TRUE /\ seen' = Logged
        /\ UNCHANGED <<policy, log, waiting, run, answers>>
    BY DEF Prime, history
  <1>2. seen \subseteq Logged
    BY DEF OnceInv, FeedTypes
  <1> QED
    BY <1>1, <1>2 DEF run, batch, OnceInv, FeedTypes, QueueInv, DecidedInv, AnswersInv, Undecided,
                      Part, Unanswered, Once, By, Logged
\* A later poll makes a run of the events that were not remembered, and those
\* have not been answered.
LEMMA PollOnce ==
  ASSUME OnceInv, Poll
  PROVE  OnceInv' /\ \A e : Undecided(e)' => Undecided(e) \/ e \notin seen
  <1> PICK n : n = Len(waiting) + 1
    OBVIOUS
  <1> DEFINE new == Remember(log, seen)
  <1>0. /\ primed /\ seen' = Logged /\ UNCHANGED <<policy, log, primed, run, answers>>
        /\ log \in Seq(Event) /\ waiting \in Seq(Run) /\ seen \subseteq Logged /\ policy \in Policies
    BY DEF Poll, history, OnceInv, FeedTypes
  <1>1. CASE waiting' = waiting
    BY <1>0, <1>1 DEF run, batch, OnceInv, FeedTypes, QueueInv, DecidedInv, AnswersInv, Undecided,
                      Part, Unanswered, Once, By, Logged
  <1>2. CASE waiting' = Append(waiting, [fresh |-> new, policy |-> policy])
    <2>1. new \in Seq(Event) /\ Range(new) = Logged \ seen /\ IsInjective(new)
      BY <1>0, RememberProperties DEF Logged
    <2> HIDE DEF new
    <2>2. [fresh |-> new, policy |-> policy] \in Run
      BY <1>0, <2>1 DEF Run
    <2>3. /\ waiting' \in Seq(Run) /\ n \in Nat \ {0}
          /\ DOMAIN waiting = 1 .. (n - 1) /\ DOMAIN waiting' = 1 .. n
          /\ waiting'[n].fresh = new
          /\ \A i \in 1 .. (n - 1) : waiting'[i] = waiting[i]
      BY <1>0, <1>2, <2>2, AppendProperties
    <2>4. DOMAIN waiting' = DOMAIN waiting \cup {n} /\ n \notin DOMAIN waiting
      BY <2>3
    <2>5. /\ \A i \in DOMAIN waiting : Part(i)' = Part(i)
          /\ Part(n)' = Logged \ seen
      BY <2>1, <2>3 DEF Part
    <2>6. \A e : Undecided(e)' <=> Undecided(e) \/ e \in Logged \ seen
      BY <1>0, <2>4, <2>5 DEF Undecided, run, batch
    <2>7. \A e \in Event : Undecided(e) => e \in seen
      BY DEF OnceInv, QueueInv
    <2>8. FeedTypes'
      BY <1>0, <2>3 DEF OnceInv, FeedTypes, run, batch, Logged
    <2>9. QueueInv'
      <3>1. IsInjective(fresh') /\ \A i \in DOMAIN waiting' : IsInjective(waiting'[i].fresh)
        BY <1>0, <2>1, <2>3, <2>4 DEF run, batch, OnceInv, QueueInv
      <3>2. /\ \A i \in DOMAIN waiting : Part(i) \cap (Logged \ seen) = {}
            /\ Range(fresh) \cap (Logged \ seen) = {}
        BY <2>7 DEF Undecided, Logged, OnceInv, FeedTypes, Range
      <3>3. \A i \in DOMAIN waiting' : Part(i)' \cap Range(fresh') = {}
        BY <1>0, <2>4, <2>5, <3>2 DEF run, batch, OnceInv, QueueInv
      <3>4. \A i, j \in DOMAIN waiting' : i # j => Part(i)' \cap Part(j)' = {}
        BY <2>4, <2>5, <3>2 DEF OnceInv, QueueInv
      <3>5. \A e \in Event : Undecided(e)' => e \in seen'
        BY <1>0, <2>6, <2>7
      <3> QED
        BY <3>1, <3>3, <3>4, <3>5 DEF QueueInv
    <2>10. DecidedInv'
      BY <1>0, <2>6 DEF run, batch, OnceInv, FeedTypes, DecidedInv, Unanswered, Once, By
    <2>11. AnswersInv'
      BY <1>0, <2>6, <2>7 DEF OnceInv, FeedTypes, AnswersInv, Logged
    <2> QED
      BY <2>6, <2>8, <2>9, <2>10, <2>11 DEF OnceInv
  <1> QED
    BY <1>1, <1>2 DEF Poll

\* The run at the head of the chain leaves it.
LEMMA TakeRun ==
  ASSUME OnceInv, waiting # <<>>
  PROVE  /\ Tail(waiting) \in Seq(Run)
         /\ Head(waiting).fresh = waiting[1].fresh /\ Head(waiting).fresh \in Seq(Event)
         /\ 1 \in DOMAIN waiting
         /\ \A i \in DOMAIN Tail(waiting) :
              i + 1 \in DOMAIN waiting /\ i + 1 # 1 /\ Tail(waiting)[i] = waiting[i + 1]
         /\ \A i, j \in DOMAIN Tail(waiting) : i # j => i + 1 # j + 1
  <1>1. waiting \in Seq(Run)
    BY DEF OnceInv, FeedTypes
  <1>2. /\ Tail(waiting) \in Seq(Run) /\ Len(Tail(waiting)) = Len(waiting) - 1
        /\ Len(waiting) \in Nat \ {0} /\ Head(waiting) = waiting[1] /\ waiting[1] \in Run
    BY <1>1
  <1>3. \A i \in 1 .. Len(waiting) - 1 : Tail(waiting)[i] = waiting[i + 1]
    BY <1>1
  <1> QED
    BY <1>2, <1>3 DEF Run

\* A run that begins holds its events in fresh; one that cannot begin drops them.
LEMMA BeginOnce ==
  ASSUME OnceInv, Begin \/ BeginFails
  PROVE  OnceInv' /\ \A e : Undecided(e)' => Undecided(e)
  <1>0. /\ waiting # <<>> /\ waiting' = Tail(waiting)
        /\ UNCHANGED <<policy, log, seen, primed, answers>>
    BY DEF Begin, BeginFails, history
  <1> DEFINE old == Range(fresh')
  <1>1. \/ fresh' = fresh /\ UNCHANGED <<pc, newBlocks, newLimits, asked>>
        \/ /\ fresh' = waiting[1].fresh /\ pc' = "consider"
           /\ newBlocks' = {} /\ newLimits' = {} /\ asked' = {}
    BY <1>0, TakeRun DEF Begin, BeginFails, run, batch
  <1>2. /\ \A i \in DOMAIN waiting' :
             i + 1 \in DOMAIN waiting /\ i + 1 # 1 /\ waiting'[i] = waiting[i + 1]
        /\ \A i, j \in DOMAIN waiting' : i # j => i + 1 # j + 1
        /\ 1 \in DOMAIN waiting
    BY <1>0, TakeRun
  <1>3. \A i \in DOMAIN waiting' : Part(i)' = Part(i + 1)
    BY <1>2 DEF Part
  <1>4. Range(fresh') = Range(fresh) \/ Range(fresh') = Part(1)
    BY <1>1 DEF Part
  <1>5. \A e : Undecided(e)' => Undecided(e)
    BY <1>2, <1>3, <1>4 DEF Undecided
  <1>6. FeedTypes'
    BY <1>0, <1>1, TakeRun DEF OnceInv, FeedTypes, Logged
  <1>7. QueueInv'
    <2>1. IsInjective(fresh') /\ \A i \in DOMAIN waiting' : IsInjective(waiting'[i].fresh)
      BY <1>1, <1>2 DEF OnceInv, QueueInv
    <2>2. \A i \in DOMAIN waiting' : Part(i)' \cap Range(fresh') = {}
      BY <1>2, <1>3, <1>4 DEF OnceInv, QueueInv
    <2>3. \A i, j \in DOMAIN waiting' : i # j => Part(i)' \cap Part(j)' = {}
      BY <1>2, <1>3 DEF OnceInv, QueueInv
    <2>4. \A e \in Event : Undecided(e)' => e \in seen'
      BY <1>0, <1>5 DEF OnceInv, QueueInv
    <2> QED
      BY <2>1, <2>2, <2>3, <2>4 DEF QueueInv
  <1>8. DecidedInv'
    BY <1>0, <1>1, <1>5 DEF OnceInv, DecidedInv, Unanswered, Once, By
  <1>9. AnswersInv'
    BY <1>0, <1>5 DEF OnceInv, AnswersInv, Logged
  <1> QED
    BY <1>5, <1>6, <1>7, <1>8, <1>9 DEF OnceInv
\* The first of the fresh events leaves them: no run has it any more.
LEMMA TakeEvent ==
  ASSUME OnceInv, fresh # <<>>, fresh' = Tail(fresh), UNCHANGED <<waiting, seen>>
  PROVE  /\ Head(fresh) \in Event /\ Undecided(Head(fresh))
         /\ \A e : Undecided(e)' => Undecided(e) /\ e # Head(fresh)
         /\ fresh' \in Seq(Event) /\ QueueInv'
  <1>0. fresh \in Seq(Event) /\ IsInjective(fresh)
    BY DEF OnceInv, FeedTypes, QueueInv
  <1>1. /\ Tail(fresh) \in Seq(Event) /\ Head(fresh) \in Event /\ Head(fresh) \in Range(fresh)
        /\ Range(Tail(fresh)) \subseteq Range(fresh)
        /\ IsInjective(Tail(fresh)) /\ Head(fresh) \notin Range(Tail(fresh))
    BY <1>0, TailRange
  <1>2. Undecided(Head(fresh))
    BY <1>1 DEF Undecided
  <1>3. \A i \in DOMAIN waiting : Part(i)' = Part(i)
    BY DEF Part
  <1>4. \A i \in DOMAIN waiting : Head(fresh) \notin Part(i)
    BY <1>1 DEF OnceInv, QueueInv
  <1>5. \A e : Undecided(e)' => Undecided(e) /\ e # Head(fresh)
    BY <1>1, <1>3, <1>4 DEF Undecided
  <1>6. QueueInv'
    BY <1>1, <1>3, <1>5 DEF OnceInv, QueueInv
  <1> QED
    BY <1>1, <1>2, <1>5, <1>6

\* The three lists after a decision about event e: none grows, or one does, by a
\* record that answers e.
Grows(list, e) == list' = list \cup {[ip |-> SourceOf[e], by |-> e]}
Decides(e) ==
  \/ UNCHANGED <<newBlocks, newLimits, asked>>
  \/ Grows(newBlocks, e) /\ UNCHANGED <<newLimits, asked>>
  \/ Grows(newLimits, e) /\ UNCHANGED <<newBlocks, asked>>
  \/ Grows(asked, e) /\ UNCHANGED <<newBlocks, newLimits>>

\* A run decides on an event it has not decided on before.
LEMMA DecideOnce ==
  ASSUME OnceInv, NEW e \in Event, pc = "consider", fresh # <<>>, e = Head(fresh), Considered, Decides(e)
  PROVE  OnceInv'
  <1>0. /\ fresh' = Tail(fresh) /\ pc' = "consider"
        /\ UNCHANGED <<policy, log, primed, seen, waiting, answers>>
    BY DEF Considered, feed
  <1>1. /\ e \in Event /\ Undecided(e)
        /\ \A x : Undecided(x)' => Undecided(x) /\ x # e
        /\ fresh' \in Seq(Event) /\ QueueInv'
    BY <1>0, TakeEvent
  <1>2. /\ e \in seen /\ answers[e] = 0
        /\ e \notin By(newBlocks) /\ e \notin By(newLimits) /\ e \notin By(asked)
    BY <1>1 DEF OnceInv, QueueInv, DecidedInv, AnswersInv, By
  <1>3. PICK r : r = [ip |-> SourceOf[e], by |-> e]
    OBVIOUS
  <1>4. r.by = e /\ r \in Decision
    BY <1>3, EventAssumption DEF Decision
  <1>5. /\ newBlocks' = newBlocks \/ newBlocks' = newBlocks \cup {r}
        /\ newLimits' = newLimits \/ newLimits' = newLimits \cup {r}
        /\ asked' = asked \/ asked' = asked \cup {r}
    BY <1>3 DEF Decides, Grows
  <1>6. FeedTypes'
    BY <1>0, <1>1, <1>4, <1>5 DEF OnceInv, FeedTypes, Logged
  <1>7. /\ By(newBlocks)' = By(newBlocks) \/ By(newBlocks)' = By(newBlocks) \cup {e}
        /\ By(newLimits)' = By(newLimits) \/ By(newLimits)' = By(newLimits) \cup {e}
        /\ By(asked)' = By(asked) \/ By(asked)' = By(asked) \cup {e}
    BY <1>4, <1>5 DEF By
  <1>8. /\ Unanswered(newBlocks) /\ Unanswered(newLimits) /\ Unanswered(asked)
        /\ By(asked) \cap By(newBlocks) = {} /\ By(newLimits) \cap By(newBlocks) = {}
        /\ By(newLimits) \cap By(asked) = {}
    BY DEF OnceInv, DecidedInv, By
  <1>9. Once(newBlocks)' /\ Once(newLimits)' /\ Once(asked)'
    BY <1>2, <1>4, <1>5, <1>8 DEF Unanswered, Once, By
  <1>10. Unanswered(newBlocks)' /\ Unanswered(newLimits)' /\ Unanswered(asked)'
    BY <1>0, <1>2, <1>7, <1>8, <1>9 DEF Unanswered, Once
  <1>11. /\ (By(asked) \cap By(newBlocks) = {})'
         /\ (By(newLimits) \cap By(newBlocks) = {})'
         /\ (By(newLimits) \cap By(asked) = {})'
    <2>1. CASE By(newBlocks)' = By(newBlocks) \cup {e} /\ newLimits' = newLimits /\ asked' = asked
      BY <1>2, <1>8, <2>1 DEF By
    <2>2. CASE By(newLimits)' = By(newLimits) \cup {e} /\ newBlocks' = newBlocks /\ asked' = asked
      BY <1>2, <1>8, <2>2 DEF By
    <2>3. CASE By(asked)' = By(asked) \cup {e} /\ newBlocks' = newBlocks /\ newLimits' = newLimits
      BY <1>2, <1>8, <2>3 DEF By
    <2>4. CASE UNCHANGED <<newBlocks, newLimits, asked>>
      BY <1>8, <2>4 DEF By
    <2> QED
      BY <1>3, <1>4, <2>1, <2>2, <2>3, <2>4 DEF Decides, Grows, By
  <1>12. (By(newLimits) \cap By(newBlocks \cup asked) = {})'
    BY <1>11 DEF By
  <1>13. \A x \in By(newBlocks \cup newLimits \cup asked)' : x \in seen' /\ ~Undecided(x)'
    <2>1. \A x \in By(newBlocks) \cup By(newLimits) \cup By(asked) : x \in seen /\ ~Undecided(x)
      BY DEF OnceInv, DecidedInv, By
    <2>2. By(newBlocks \cup newLimits \cup asked)'
            \subseteq By(newBlocks) \cup By(newLimits) \cup By(asked) \cup {e}
      BY <1>7 DEF By
    <2> QED
      BY <1>0, <1>1, <1>2, <2>1, <2>2
  <1>14. DecidedInv'
    BY <1>0, <1>10, <1>11, <1>12, <1>13 DEF DecidedInv
  <1>15. AnswersInv'
    BY <1>0, <1>1 DEF OnceInv, AnswersInv, Logged
  <1> QED
    BY <1>1, <1>6, <1>14, <1>15 DEF OnceInv

\* Every alternative of a run that considers an event is such a decision.
LEMMA ConsiderOnce ==
  ASSUME OnceInv, NEW e \in Event,
         \/ Pass(e) \/ RuleBlocks(e) \/ RuleChallenges(e) \/ RuleLimits(e) \/ SoftLimits(e)
         \/ \E l \in limits \cup newLimits : Strike(e, l)
  PROVE  OnceInv'
  <1>1. pc = "consider" /\ fresh # <<>> /\ e = Head(fresh) /\ Considered
    BY DEF Pass, RuleBlocks, RuleChallenges, RuleLimits, SoftLimits, Strike, ByRule, BySoftRule, Answerable
  <1>2. Decides(e)
    BY DEF Pass, RuleBlocks, RuleChallenges, RuleLimits, SoftLimits, Strike, AddBlock, AddLimit,
           AddChallenge, Decides, Grows
  <1> QED
    BY <1>1, <1>2, DecideOnce
\* A commit that answers the events of a list of decisions, when what is left
\* to commit afterwards answers others.
LEMMA CommitOnce ==
  ASSUME OnceInv, NEW list, Unanswered(list),
         \A e \in By(list) : e \in seen /\ ~Undecided(e),
         answers' = Started(list),
         UNCHANGED <<policy, feed, fresh, newBlocks, newLimits, asked>>,
         \/ /\ pc = "consider" /\ pc' = "challenge"
            /\ By(list) \cap By(newBlocks) = {} /\ By(list) \cap By(asked) = {}
         \/ /\ pc = "challenge" /\ pc' = "block" /\ By(list) \cap By(newBlocks) = {}
         \/ pc = "block" /\ pc' = "clear"
  PROVE  OnceInv'
  <1>1. answers' = [e \in Event |-> IF e \in By(list) THEN 1 ELSE answers[e]]
    BY StartedOnce DEF OnceInv
  <1>2. \A e : Undecided(e)' <=> Undecided(e)
    BY DEF feed, Undecided, Part
  <1>3. FeedTypes' /\ QueueInv'
    <2>1. answers' \in [Event -> Nat]
      <3>1. answers \in [Event -> Nat]
        BY DEF OnceInv, FeedTypes
      <3> QED
        BY <1>1, <3>1
    <2>2. FeedTypes'
      BY <2>1 DEF OnceInv, FeedTypes, feed, Logged
    <2>3. QueueInv'
      BY DEF OnceInv, QueueInv, feed, Undecided, Part
    <2> QED
      BY <2>2, <2>3
  <1>4. \A e \in By(newBlocks \cup newLimits \cup asked)' : e \in seen' /\ ~Undecided(e)'
    BY <1>2 DEF OnceInv, DecidedInv, feed, By
  <1>5. pc' = "challenge" \/ pc' = "block" => Unanswered(newBlocks)'
    <2> SUFFICES ASSUME pc' = "challenge" \/ pc' = "block" PROVE Unanswered(newBlocks)'
      OBVIOUS
    <2>1. Unanswered(newBlocks) /\ By(list) \cap By(newBlocks) = {} /\ newBlocks' = newBlocks
      BY DEF OnceInv, DecidedInv
    <2>2. \A r \in newBlocks : r.by \in Event
      BY DEF OnceInv, FeedTypes, Decision
    <2> QED
      BY <1>1, <2>1, <2>2 DEF Unanswered, Once, By
  <1>6. pc' = "challenge" => Unanswered(asked)' /\ (By(asked) \cap By(newBlocks) = {})'
    <2> SUFFICES ASSUME pc' = "challenge"
                 PROVE  Unanswered(asked)' /\ (By(asked) \cap By(newBlocks) = {})'
      OBVIOUS
    <2>1. /\ Unanswered(asked) /\ By(list) \cap By(asked) = {} /\ By(asked) \cap By(newBlocks) = {}
          /\ newBlocks' = newBlocks /\ asked' = asked
      BY DEF OnceInv, DecidedInv
    <2>2. \A r \in asked : r.by \in Event
      BY DEF OnceInv, FeedTypes, Decision
    <2> QED
      BY <1>1, <2>1, <2>2 DEF Unanswered, Once, By
  <1>7. DecidedInv'
    BY <1>4, <1>5, <1>6 DEF DecidedInv
  <1>8. AnswersInv'
    <2>1. \A e \in Event : answers'[e] = 1 \/ answers'[e] = answers[e]
      BY <1>1
    <2>2. \A e \in Event : Undecided(e)' => answers'[e] = 0
      BY <1>1, <1>2 DEF OnceInv, AnswersInv
    <2>3. \A e \in Event : answers'[e] > 0 => e \in Logged' /\ (primed' => e \in seen')
      BY <1>1 DEF OnceInv, AnswersInv, FeedTypes, Logged, feed
    <2> QED
      BY <2>1, <2>2, <2>3 DEF OnceInv, AnswersInv
  <1> QED
    BY <1>3, <1>7, <1>8 DEF OnceInv

\* A run that throws, ends or dies with the process leaves nothing behind.
LEMMA ForgottenOnce ==
  ASSUME OnceInv, Forgotten, pc' = "free", UNCHANGED <<policy, log, answers>>,
         UNCHANGED <<waiting, seen, primed>> \/ (waiting' = <<>> /\ seen' = {} /\ primed' = FALSE)
  PROVE  OnceInv' /\ \A e : Undecided(e)' => Undecided(e)
  <1>1. Range(fresh') = {} /\ fresh' = <<>> /\ newBlocks' = {} /\ newLimits' = {} /\ asked' = {}
    BY DEF Forgotten, Range
  <1>2. CASE UNCHANGED <<waiting, seen, primed>>
    <2>1. \A i \in DOMAIN waiting : Part(i)' = Part(i)
      BY <1>2 DEF Part
    <2>2. \A e : Undecided(e)' => Undecided(e)
      BY <1>1, <1>2, <2>1 DEF Undecided
    <2>3. QueueInv'
      BY <1>1, <1>2, <2>1, <2>2 DEF OnceInv, QueueInv, IsInjective
    <2> QED
      BY <1>1, <1>2, <2>2, <2>3 DEF OnceInv, FeedTypes, DecidedInv, AnswersInv, By, Logged
  <1>3. CASE waiting' = <<>> /\ seen' = {} /\ primed' = FALSE
    <2>1. DOMAIN waiting' = {}
      BY <1>3
    <2>2. \A e : ~Undecided(e)'
      BY <1>1, <2>1 DEF Undecided
    <2>3. QueueInv'
      BY <1>1, <2>1, <2>2 DEF QueueInv, IsInjective
    <2>4. waiting' \in Seq(Run) /\ fresh' \in Seq(Event)
      BY <1>1, <1>3
    <2> QED
      BY <1>1, <1>3, <2>2, <2>3, <2>4 DEF OnceInv, FeedTypes, DecidedInv, AnswersInv, By, Logged
  <1> QED
    BY <1>2, <1>3

\* The commits of a run, in their order.
LEMMA CommitLimitsOnce ==
  ASSUME OnceInv, CommitLimits
  PROVE  OnceInv'
  <1> DEFINE started == {l \in newLimits : l.ip \notin Ips(newBlocks)}
  <1>1. /\ pc = "consider" /\ Unanswered(newLimits)
        /\ By(newLimits) \cap By(newBlocks) = {} /\ By(newLimits) \cap By(asked) = {}
        /\ \A e \in By(newLimits) : e \in seen /\ ~Undecided(e)
    BY DEF CommitLimits, OnceInv, DecidedInv, By
  <1>2. Unanswered(started) /\ By(started) \subseteq By(newLimits)
    BY <1>1 DEF Unanswered, Once, By
  <1>3. CASE answers' = Started(started) /\ pc' = "challenge" /\ UNCHANGED batch
    <2> HIDE DEF started
    <2>1. UNCHANGED <<policy, feed, fresh, newBlocks, newLimits, asked>>
      BY <1>3 DEF CommitLimits, batch
    <2>2. By(started) \cap By(newBlocks) = {} /\ By(started) \cap By(asked) = {}
      BY <1>1, <1>2
    <2> QED
      BY <1>1, <1>2, <1>3, <2>1, <2>2, CommitOnce
  <1>4. CASE Fail /\ UNCHANGED <<limits, answers>>
    BY <1>4, ForgottenOnce DEF Fail, CommitLimits, feed
  <1> QED
    BY <1>3, <1>4 DEF CommitLimits

\* The challenges asked for start, or blocks stand in for them.
LEMMA StartChallengesOnce ==
  ASSUME OnceInv, StartChallenges
  PROVE  OnceInv'
  <1> DEFINE started == {[ip |-> a.ip, by |-> a.by, at |-> now] :
                           a \in {a \in asked : a.ip \notin Ips(challenges)}}
  <1>1. /\ pc = "challenge" /\ pc' = "block" /\ Unanswered(asked) /\ Unanswered(newBlocks)
        /\ By(asked) \cap By(newBlocks) = {}
        /\ \A e \in By(asked) : e \in seen /\ ~Undecided(e)
        /\ UNCHANGED <<policy, feed, fresh, newLimits, asked>>
    BY DEF StartChallenges, OnceInv, DecidedInv, By
  <1>2. CASE answers' = Started(started) /\ UNCHANGED newBlocks
    <2>1. By(started) \subseteq By(asked)
      BY DEF By
    <2>2. Once(started)
      BY <1>1 DEF Unanswered, Once
    <2>3. Unanswered(started) /\ By(started) \cap By(newBlocks) = {}
      BY <1>1, <2>1, <2>2 DEF Unanswered
    <2> HIDE DEF started
    <2> QED
      BY <1>1, <1>2, <2>1, <2>3, CommitOnce
  <1>3. CASE /\ newBlocks' = newBlocks \cup {a \in asked : a.ip \notin Ips(newBlocks)}
             /\ UNCHANGED <<challenges, answers>>
    <2> DEFINE instead == {a \in asked : a.ip \notin Ips(newBlocks)}
    <2>1. instead \subseteq asked /\ newBlocks' = newBlocks \cup instead
      BY <1>3
    <2> HIDE DEF instead
    <2>2. By(newBlocks)' \subseteq By(newBlocks) \cup By(asked)
      BY <2>1 DEF By
    <2>3. Once(newBlocks)'
      BY <1>1, <2>1 DEF Unanswered, Once, By
    <2>4. Unanswered(newBlocks)'
      BY <1>1, <1>3, <2>2, <2>3 DEF Unanswered, Once
    <2>5. FeedTypes' /\ QueueInv' /\ AnswersInv'
      BY <1>1, <1>3, <2>1 DEF OnceInv, FeedTypes, QueueInv, AnswersInv, feed, Undecided, Part, Logged
    <2>6. DecidedInv'
      <3>1. By(newBlocks \cup newLimits \cup asked)' \subseteq By(newBlocks \cup newLimits \cup asked)
        BY <1>1, <2>1 DEF By
      <3>2. \A e : Undecided(e)' <=> Undecided(e)
        BY <1>1 DEF feed, Undecided, Part
      <3> QED
        BY <1>1, <2>4, <3>1, <3>2 DEF OnceInv, DecidedInv, feed
    <2> QED
      BY <2>5, <2>6 DEF OnceInv
  <1> QED
    BY <1>2, <1>3 DEF StartChallenges

\* The blocks decided on start.
LEMMA CommitBlocksOnce ==
  ASSUME OnceInv, CommitBlocks
  PROVE  OnceInv'
  <1>1. /\ pc = "block" /\ Unanswered(newBlocks)
        /\ \A e \in By(newBlocks) : e \in seen /\ ~Undecided(e)
        /\ UNCHANGED <<policy, feed>>
    BY DEF CommitBlocks, OnceInv, DecidedInv, By
  <1>2. CASE answers' = Started(newBlocks) /\ pc' = "clear" /\ UNCHANGED batch
    <2>1. UNCHANGED <<fresh, newBlocks, newLimits, asked>>
      BY <1>2 DEF batch
    <2> QED
      BY <1>1, <1>2, <2>1, CommitOnce
  <1>3. CASE Fail /\ UNCHANGED answers
    BY <1>1, <1>3, ForgottenOnce DEF Fail, feed
  <1> QED
    BY <1>2, <1>3 DEF CommitBlocks

\* Every step of the system keeps the invariant.
LEMMA NextOnce == OnceInv /\ [Next]_vars => OnceInv'
  <1> SUFFICES ASSUME OnceInv, [Next]_vars PROVE OnceInv'
    OBVIOUS
  <1>0. policy \in Policies
    BY DEF OnceInv, FeedTypes
  <1>1. CASE UNCHANGED vars
    BY <1>0, <1>1, AsideOnce DEF vars, run, batch, history
  <1>2. CASE \/ Tick \/ PruneMarks \/ ReadMarks \/ ClearMarks
             \/ \E p \in Policies : SetPolicy(p)
             \/ \E t \in ManualBlocks : AdminBlock(t)
             \/ \E t \in ManualLimits : AdminLimit(t)
             \/ \E b \in blocks : LiftBlock(b)
             \/ \E l \in limits : AdminUnlimit(l) \/ ExpireLimit(l)
             \/ \E s \in Source : Forget(s)
             \/ \E c \in challenges : EndChallenge(c) \/ LiftChallenge(c)
    <2>1. policy' \in Policies /\ UNCHANGED <<feed, run, answers>>
      BY <1>0, <1>2 DEF Tick, PruneMarks, ReadMarks, ClearMarks, SetPolicy, AdminBlock, AdminLimit,
                        LiftBlock, AdminUnlimit, ExpireLimit, Forget, EndChallenge, LiftChallenge,
                        Chained, history
    <2> QED
      BY <2>1, AsideOnce DEF run, batch
  <1>3. CASE ClearChallenges
    BY <1>0, <1>3, AsideOnce DEF ClearChallenges, batch, history
  <1>4. CASE WriteMarks
    BY <1>4, ForgottenOnce DEF WriteMarks, feed, history
  <1>5. CASE Restart
    BY <1>5, ForgottenOnce DEF Restart, history
  <1>6. ASSUME NEW e \in Event, Log(e) PROVE OnceInv'
    BY <1>6, LogOnce
  <1>7. CASE Prime \/ Poll \/ Begin \/ BeginFails
    BY <1>7, PrimeOnce, PollOnce, BeginOnce
  <1>8. ASSUME NEW e \in Event,
               \/ Pass(e) \/ RuleBlocks(e) \/ RuleChallenges(e) \/ RuleLimits(e) \/ SoftLimits(e)
               \/ \E l \in limits \cup newLimits : Strike(e, l)
        PROVE  OnceInv'
    BY <1>8, ConsiderOnce
  <1>9. CASE CommitLimits \/ StartChallenges \/ CommitBlocks
    BY <1>9, CommitLimitsOnce, StartChallengesOnce, CommitBlocksOnce
  <1> QED
    BY <1>1, <1>2, <1>3, <1>4, <1>5, <1>6, <1>7, <1>8, <1>9 DEF Next, Operate

\* At first no request is logged.
LEMMA InitOnce == Init => OnceInv
  <1> SUFFICES ASSUME Init PROVE OnceInv
    OBVIOUS
  <1>1. /\ \A e : ~Undecided(e)
        /\ IsInjective(fresh) /\ DOMAIN waiting = {}
    BY DEF Init, Undecided, Range, IsInjective
  <1> QED
    BY <1>1 DEF Init, OnceInv, FeedTypes, QueueInv, DecidedInv, AnswersInv, By

\* However polls overlap, runs wait and throw, commits fail and fall back to
\* blocks, administrators interfere and the backend restarts, no logged request
\* starts more than one automatic response (rememberEvent, monitorPrimed and the
\* one event, one decision loop of monitorThreats).
THEOREM RequestsAnsweredOnce == Spec => []AnsweredOnce
  <1>1. OnceInv => AnsweredOnce
    BY DEF OnceInv, AnswersInv, AnsweredOnce
  <1> QED
    BY <1>1, InitOnce, NextOnce, PTL DEF Spec
-----------------------------------------------------------------------------
\* A challenge has its grace

Heeds(e) == IF ClassOf[e] = Soft THEN e \in Proxied ELSE rules.action[ClassOf[e]] = "auto"
OnePerSource(list) == \A c, d \in list : c.ip = d.ip => c = d

\* There is one challenge per source, in force, listed or asked for, and no
\* source has one listed and one asked for; so the challenge whose age a decision
\* looked at is the one the run knew of.
GraceInv ==
  /\ now \in Nat /\ at \in [Event -> Nat]
  /\ OnePerSource(challenges) /\ OnePerSource(known) /\ OnePerSource(asked)
  /\ Ips(asked) \cap Ips(known) = {}
  /\ \A b \in newBlocks : Heeds(b.by) => \A c \in Of(b.ip, known) : at[b.by] - c.at >= Grace

\* Only a run that commits starts blocks of its own.
GraceStep ==
  \A b \in blocks' \ blocks :
    b.by # Admin /\ Heeds(b.by) => \A c \in Of(b.ip, known) : at[b.by] - c.at >= Grace

\* A step that decides nothing and starts nothing.
LEMMA AsideGrace ==
  ASSUME OnceInv, GraceInv, now' \in Nat, at' \in [Event -> Nat],
         \A e \in Logged : at'[e] = at[e],
         challenges' \subseteq challenges, \A b \in blocks' \ blocks : b.by = Admin,
         UNCHANGED <<rules, known, newBlocks, asked>>
  PROVE  GraceInv' /\ GraceStep
  <1>1. GraceStep
    BY DEF GraceStep
  <1>2. \A b \in newBlocks : b.by \in Logged
    <2>1. \A b \in newBlocks : b.by \in seen
      BY DEF OnceInv, DecidedInv, By
    <2> QED
      BY <2>1 DEF OnceInv, FeedTypes
  <1>3. \A b \in newBlocks' :
          Heeds(b.by)' => \A c \in Of(b.ip, known)' : at'[b.by] - c.at >= Grace
    BY <1>2 DEF GraceInv, Heeds, Of
  <1> QED
    BY <1>1, <1>3 DEF GraceInv, OnePerSource, Ips

\* A run that begins lists the challenges in force and has decided nothing.
LEMMA BeginGrace ==
  ASSUME OnceInv, GraceInv, Begin
  PROVE  GraceInv' /\ GraceStep
  BY DEF Begin, stores, GraceInv, GraceStep, OnePerSource, Ips

\* A run that ends or dies has no challenges and no decisions left.
LEMMA ForgottenGrace ==
  ASSUME OnceInv, GraceInv, Forgotten, challenges' \subseteq challenges, UNCHANGED <<now, at, blocks>>
  PROVE  GraceInv' /\ GraceStep
  BY DEF Forgotten, GraceInv, GraceStep, OnePerSource, Ips

\* A run that considers an event asks for a challenge where there is none, and
\* blocks beside a challenge only when it is mature.
LEMMA ConsiderGrace ==
  ASSUME OnceInv, GraceInv, NEW e \in Event,
         \/ Pass(e) \/ RuleBlocks(e) \/ RuleChallenges(e) \/ RuleLimits(e) \/ SoftLimits(e)
         \/ \E l \in limits \cup newLimits : Strike(e, l)
  PROVE  GraceInv' /\ GraceStep
  <1>0. UNCHANGED <<now, at, challenges, blocks, rules, known>>
    BY DEF Pass, RuleBlocks, RuleChallenges, RuleLimits, SoftLimits, Strike, Considered, stores, feed
  <1>1. CASE UNCHANGED <<newBlocks, asked>>
    BY <1>0, <1>1 DEF GraceInv, GraceStep, OnePerSource, Ips, Heeds, Of
  <1>2. CASE AddChallenge(e) /\ ~Challenged(e)
    <2>1. PICK a : a = [ip |-> SourceOf[e], by |-> e]
      OBVIOUS
    <2>2. asked' = asked \cup {a} /\ newBlocks' = newBlocks /\ a.ip = SourceOf[e]
      BY <1>2, <2>1 DEF AddChallenge
    <2>3. a.ip \notin Ips(known) /\ a.ip \notin Ips(asked)
      BY <1>2, <2>2 DEF Challenged
    <2>4. OnePerSource(asked)'
      BY <2>2, <2>3 DEF GraceInv, OnePerSource, Ips
    <2>5. (Ips(asked) \cap Ips(known) = {})'
      BY <1>0, <2>2, <2>3 DEF GraceInv, Ips
    <2> QED
      BY <1>0, <2>2, <2>4, <2>5 DEF GraceInv, GraceStep, OnePerSource, Heeds, Of
  <1>3. CASE AddBlock(e) /\ (Heeds(e) => Of(SourceOf[e], known) = {} \/ Matured(e))
    <2>1. PICK b : b = [ip |-> SourceOf[e], by |-> e]
      OBVIOUS
    <2>2. newBlocks' = newBlocks \cup {b} /\ asked' = asked /\ b.ip = SourceOf[e] /\ b.by = e
      BY <1>3, <2>1 DEF AddBlock
    <2>3. Heeds(b.by) => \A c \in Of(b.ip, known) : at[b.by] - c.at >= Grace
      BY <1>3, <2>2 DEF Matured, GraceInv, OnePerSource, Of
    <2> QED
      BY <1>0, <2>2, <2>3 DEF GraceInv, GraceStep, OnePerSource, Ips, Heeds, Of
  <1>4. CASE RuleBlocks(e)
    <2>1. AddBlock(e) /\ ClassOf[e] # Soft /\ Action(e) = "block"
      BY <1>4 DEF RuleBlocks, ByRule
    <2>2. ASSUME rules.action[ClassOf[e]] = "auto", Of(SourceOf[e], known) # {}
          PROVE  Matured(e)
      <3> SUFFICES ASSUME ~Matured(e) PROVE FALSE
        OBVIOUS
      <3>1. PICK x : /\ x.challenged = TRUE /\ x.mature = FALSE
                     /\ Decide(rules.profile, x) = "block"
        <4> DEFINE y == [risk |-> RiskOf[e], strong |-> StrongOf[e], repeats |-> repeats[SourceOf[e]],
                         limited |-> ActiveLimits(SourceOf[e]) # {},
                         challenged |-> Of(SourceOf[e], known) # {}, mature |-> Matured(e)]
        <4>1. Decide(rules.profile, y) = "block"
          BY <2>1, <2>2 DEF Action
        <4>2. y.challenged = TRUE /\ y.mature = FALSE
          BY <2>2 DEF Matured
        <4> HIDE DEF y
        <4> QED
          BY <4>1, <4>2
      <3> QED
        BY <3>1 DEF Decide
    <2> QED
      BY <1>3, <2>1, <2>2 DEF Heeds
  <1>5. ASSUME NEW l \in limits \cup newLimits, Strike(e, l), AddBlock(e)
        PROVE  GraceInv' /\ GraceStep
    <2>1. BySoftRule(e) /\ ClassOf[e] = Soft
      BY <1>5 DEF Strike, BySoftRule
    <2>2. e \notin Proxied \/ Matured(e)
      <3>1. newBlocks' # newBlocks
        <4>1. Of(SourceOf[e], newBlocks) = {}
          BY <2>1 DEF BySoftRule, Answerable
        <4>2. [ip |-> SourceOf[e], by |-> e] \notin newBlocks
          BY <4>1 DEF Of
        <4>3. [ip |-> SourceOf[e], by |-> e] \in newBlocks'
          BY <1>5 DEF AddBlock
        <4> QED
          BY <4>2, <4>3
      <3> QED
        BY <1>5, <3>1 DEF Strike, AddChallenge
    <2> QED
      BY <1>3, <1>5, <2>1, <2>2 DEF Heeds
  <1>6. ASSUME NEW l \in limits \cup newLimits, Strike(e, l)
        PROVE  GraceInv' /\ GraceStep
    BY <1>1, <1>2, <1>5, <1>6 DEF Strike
  <1>7. CASE Pass(e) \/ RuleChallenges(e) \/ RuleLimits(e) \/ SoftLimits(e)
    BY <1>1, <1>2, <1>7 DEF Pass, RuleChallenges, RuleLimits, SoftLimits, AddLimit
  <1> QED
    BY <1>4, <1>6, <1>7

\* The challenges asked for start where there is none; when they cannot, the
\* blocks instead of them are of sources without a challenge that was listed.
LEMMA StartChallengesGrace ==
  ASSUME OnceInv, GraceInv, StartChallenges
  PROVE  GraceInv' /\ GraceStep
  <1> DEFINE started == {[ip |-> a.ip, by |-> a.by, at |-> now] :
                           a \in {a \in asked : a.ip \notin Ips(challenges)}}
  <1>0. UNCHANGED <<now, at, blocks, rules, known, asked>>
    BY DEF StartChallenges, feed
  <1>1. CASE challenges' = challenges \cup started /\ UNCHANGED newBlocks
    <2>1. \A c \in started : c.ip \notin Ips(challenges)
      OBVIOUS
    <2>2. OnePerSource(started)
      BY DEF GraceInv, OnePerSource
    <2> HIDE DEF started
    <2>3. OnePerSource(challenges)'
      BY <1>1, <2>1, <2>2 DEF GraceInv, OnePerSource, Ips
    <2> QED
      BY <1>0, <1>1, <2>3 DEF GraceInv, GraceStep, OnePerSource, Ips, Heeds, Of
  <1>2. CASE /\ newBlocks' = newBlocks \cup {a \in asked : a.ip \notin Ips(newBlocks)}
             /\ UNCHANGED challenges
    <2>1. \A b \in newBlocks' : b \in newBlocks \/ b \in asked
      BY <1>2
    <2>2. \A b \in asked : Of(b.ip, known) = {}
      BY DEF GraceInv, Ips, Of
    <2> QED
      BY <1>0, <1>2, <2>1, <2>2 DEF GraceInv, GraceStep, OnePerSource, Ips, Heeds, Of
  <1> QED
    BY <1>1, <1>2 DEF StartChallenges

\* The other commits.
LEMMA CommitGrace ==
  ASSUME OnceInv, GraceInv, CommitLimits \/ CommitBlocks \/ ClearChallenges \/ WriteMarks
  PROVE  GraceInv' /\ GraceStep
  <1>1. CASE CommitLimits
    <2>1. CASE UNCHANGED batch
      BY <1>1, <2>1 DEF CommitLimits, feed, batch, GraceInv, GraceStep, OnePerSource, Ips, Heeds, Of
    <2>2. CASE Forgotten
      BY <1>1, <2>2, ForgottenGrace DEF CommitLimits, feed
    <2> QED
      BY <1>1, <2>1, <2>2 DEF CommitLimits, Fail
  <1>2. CASE CommitBlocks
    <2>1. CASE blocks' = blocks \cup newBlocks /\ UNCHANGED batch
      BY <1>2, <2>1 DEF CommitBlocks, feed, batch, GraceInv, GraceStep, OnePerSource, Ips, Heeds, Of
    <2>2. CASE Forgotten /\ UNCHANGED blocks
      BY <1>2, <2>2, ForgottenGrace DEF CommitBlocks, feed
    <2> QED
      BY <1>2, <2>1, <2>2 DEF CommitBlocks, Fail
  <1>3. CASE ClearChallenges
    <2>1. challenges' \subseteq challenges /\ UNCHANGED <<now, at, blocks, rules, known, newBlocks, asked>>
      BY <1>3 DEF ClearChallenges, feed, batch
    <2> QED
      BY <2>1, AsideGrace DEF GraceInv
  <1>4. CASE WriteMarks
    BY <1>4, ForgottenGrace DEF WriteMarks, feed
  <1> QED
    BY <1>1, <1>2, <1>3, <1>4

\* Every step of the system keeps the invariant and starts no block too early.
LEMMA NextGrace ==
  ASSUME OnceInv, GraceInv, [Next]_vars
  PROVE  GraceInv' /\ GraceStep
  <1>0. now \in Nat /\ at \in [Event -> Nat]
    BY DEF GraceInv
  <1>1. CASE \/ UNCHANGED vars
             \/ Tick \/ Prime \/ Poll \/ PruneMarks \/ ReadMarks \/ ClearMarks \/ BeginFails
             \/ \E p \in Policies : SetPolicy(p)
             \/ \E t \in ManualLimits : AdminLimit(t)
             \/ \E b \in blocks : LiftBlock(b)
             \/ \E l \in limits : AdminUnlimit(l) \/ ExpireLimit(l)
             \/ \E s \in Source : Forget(s)
             \/ \E c \in challenges : EndChallenge(c) \/ LiftChallenge(c)
    <2>1. /\ now' \in Nat /\ challenges' \subseteq challenges /\ blocks' \subseteq blocks
          /\ UNCHANGED <<at, rules, known, newBlocks, asked>>
      BY <1>0, <1>1 DEF vars, stores, feed, run, batch, Tick, Prime, Poll, PruneMarks, ReadMarks,
                        ClearMarks, BeginFails, SetPolicy, AdminLimit, LiftBlock, AdminUnlimit,
                        ExpireLimit, Forget, EndChallenge, LiftChallenge, Chained
    <2> QED
      BY <1>0, <2>1, AsideGrace
  <1>2. ASSUME NEW e \in Event, Log(e) PROVE GraceInv' /\ GraceStep
    <2>1. /\ at' \in [Event -> Nat] /\ \A x \in Event : x # e => at'[x] = at[x]
          /\ UNCHANGED <<now, challenges, blocks, rules, known, newBlocks, asked>>
      BY <1>0, <1>2 DEF Log, stores, run, batch
    <2>2. e \notin Logged /\ Logged \subseteq Event
      BY <1>2 DEF Log, Logged, Range, OnceInv, FeedTypes
    <2> QED
      BY <1>0, <2>1, <2>2, AsideGrace
  <1>3. ASSUME NEW t \in ManualBlocks, AdminBlock(t) PROVE GraceInv' /\ GraceStep
    <2>1. /\ \A b \in blocks' \ blocks : b.by = Admin
          /\ UNCHANGED <<now, at, challenges, rules, known, newBlocks, asked>>
      BY <1>3 DEF AdminBlock, Chained, feed, run, batch
    <2> QED
      BY <1>0, <2>1, AsideGrace
  <1>4. CASE Restart
    BY <1>4, ForgottenGrace DEF Restart, stores
  <1>5. ASSUME NEW e \in Event,
               \/ Pass(e) \/ RuleBlocks(e) \/ RuleChallenges(e) \/ RuleLimits(e) \/ SoftLimits(e)
               \/ \E l \in limits \cup newLimits : Strike(e, l)
        PROVE  GraceInv' /\ GraceStep
    BY <1>5, ConsiderGrace
  <1>6. CASE Begin \/ StartChallenges \/ CommitLimits \/ CommitBlocks \/ ClearChallenges \/ WriteMarks
    BY <1>6, BeginGrace, StartChallengesGrace, CommitGrace
  <1> QED
    BY <1>1, <1>2, <1>3, <1>4, <1>5, <1>6 DEF Next, Operate

\* However the challenges of a source end and start again while a run is under
\* way, and though the blocks that stand in for challenges come at its end, no
\* source that the run found challenged is blocked for a request made within the
\* grace of that challenge (challengeGraceExpired, queueChallenge and the order of
\* the commits in monitorThreats).
THEOREM ChallengesHaveGrace == Spec => ChallengeHasGrace
  <1>1. Init => OnceInv
    BY InitOnce
  <1>2. Init => GraceInv
    BY DEF Init, GraceInv, OnePerSource, Ips
  <1>3. OnceInv /\ GraceInv /\ [Next]_vars => GraceInv'
    BY NextGrace
  <1>4. OnceInv /\ GraceInv /\ [Next]_vars
          => [\A b \in blocks' \ blocks :
                /\ b.by # Admin
                /\ IF ClassOf[b.by] = Soft THEN b.by \in Proxied
                                           ELSE rules.action[ClassOf[b.by]] = "auto"
                => \A c \in Of(b.ip, known \cap challenges) : at[b.by] - c.at >= Grace]_vars
    BY NextGrace DEF GraceStep, Heeds, Of
  <1> QED
    BY <1>1, <1>2, <1>3, <1>4, NextOnce, PTL DEF Spec, ChallengeHasGrace
-----------------------------------------------------------------------------
\* A block supersedes

\* From the commit of the limits on, no limit in force holds a source the run
\* blocks, and after the removals no challenge it listed does.
SupersedeInv ==
  /\ pc \in {"challenge", "block", "clear", "marks"} =>
       \A b \in newBlocks : On(b.ip, limits) = {}
  /\ pc = "marks" => \A b \in newBlocks : Of(b.ip, known \cap challenges) = {}

\* A commit of limits drops those that hold a source to be blocked, whether they
\* name it or a range around it, and starts none for it.
LEMMA CommitLimitsSupersedes ==
  ASSUME ~Failures, OnceInv, CommitLimits
  PROVE  SupersedeInv'
  <1> DEFINE superseded == {l \in limits : Covers[l.ip] \cap Ips(newBlocks) # {}}
             started == {l \in newLimits : l.ip \notin Ips(newBlocks)}
  <1>1. /\ limits' = (limits \ superseded) \cup started
        /\ pc' = "challenge" /\ newBlocks' = newBlocks
    BY DEF CommitLimits, Fail, batch
  <1>2. ASSUME NEW b \in newBlocks PROVE On(b.ip, limits') = {}
    <2>1. b.ip \in Source /\ b.ip \in Ips(newBlocks)
      BY DEF OnceInv, FeedTypes, Decision, Ips
    <2>2. ASSUME NEW l \in limits \ superseded PROVE b.ip \notin Covers[l.ip]
      BY <2>1
    <2>3. ASSUME NEW l \in started PROVE b.ip \notin Covers[l.ip]
      <3>1. l.ip \in Source /\ l.ip # b.ip
        BY <2>1 DEF OnceInv, FeedTypes, Decision
      <3> QED
        BY <3>1, SourceAssumption
    <2> QED
      BY <1>1, <2>2, <2>3 DEF On
  <1> QED
    BY <1>1, <1>2 DEF SupersedeInv

\* Every step keeps the invariant, as long as no commit fails.
LEMMA NextSupersedes ==
  ASSUME ~Failures, OnceInv, SupersedeInv, [Next]_vars
  PROVE  SupersedeInv'
  <1>1. CASE \/ UNCHANGED vars
             \/ Tick \/ Prime \/ Poll \/ PruneMarks \/ ReadMarks \/ ClearMarks
             \/ \E e \in Event : Log(e)
             \/ \E p \in Policies : SetPolicy(p)
             \/ \E t \in ManualBlocks : AdminBlock(t)
             \/ \E b \in blocks : LiftBlock(b)
             \/ \E s \in Source : Forget(s)
             \/ \E c \in challenges : EndChallenge(c) \/ LiftChallenge(c)
    <2>1. challenges' \subseteq challenges /\ UNCHANGED <<limits, pc, known, newBlocks>>
      BY <1>1 DEF vars, stores, run, batch, Tick, Prime, Poll, PruneMarks, ReadMarks, ClearMarks,
                  Log, SetPolicy, AdminBlock, LiftBlock, Forget, EndChallenge, LiftChallenge, Chained
    <2> QED
      BY <2>1 DEF SupersedeInv, On, Of
  <1>2. CASE \/ \E t \in ManualLimits : AdminLimit(t)
             \/ \E l \in limits : AdminUnlimit(l) \/ ExpireLimit(l)
             \/ Begin \/ BeginFails \/ WriteMarks \/ Restart
    <2>1. pc' \in {"free", "consider"}
      BY <1>2 DEF AdminLimit, AdminUnlimit, ExpireLimit, Chained, Begin, BeginFails, WriteMarks,
                  Restart, run
    <2> QED
      BY <2>1 DEF SupersedeInv
  <1>3. CASE \E e \in Event :
               \/ Pass(e) \/ RuleBlocks(e) \/ RuleChallenges(e) \/ RuleLimits(e) \/ SoftLimits(e)
               \/ \E l \in limits \cup newLimits : Strike(e, l)
    <2>1. PICK e \in Event :
            \/ Pass(e) \/ RuleBlocks(e) \/ RuleChallenges(e) \/ RuleLimits(e) \/ SoftLimits(e)
            \/ \E l \in limits \cup newLimits : Strike(e, l)
      BY <1>3
    <2>2. pc = "consider" /\ Considered
      BY <2>1 DEF Pass, RuleBlocks, RuleChallenges, RuleLimits, SoftLimits, Strike, ByRule,
                  BySoftRule, Answerable
    <2> QED
      BY <2>2 DEF Considered, SupersedeInv
  <1>4. CASE CommitLimits
    BY <1>4, CommitLimitsSupersedes
  <1>5. CASE StartChallenges \/ CommitBlocks
    <2>1. /\ pc \in {"challenge", "block"} /\ pc' \in {"block", "clear"}
          /\ UNCHANGED <<limits, newBlocks>>
      BY <1>5 DEF StartChallenges, CommitBlocks, Fail, batch
    <2> QED
      BY <2>1 DEF SupersedeInv, On
  <1>6. CASE ClearChallenges
    <2>1. /\ pc = "clear" /\ UNCHANGED <<limits, newBlocks, known>>
          /\ challenges' = {c \in challenges : c.ip \notin Ips(known) \cap Ips(newBlocks)}
      BY <1>6 DEF ClearChallenges, batch
    <2>2. \A b \in newBlocks : On(b.ip, limits') = {}
      BY <2>1 DEF SupersedeInv, On
    <2>3. \A b \in newBlocks : Of(b.ip, known \cap challenges') = {}
      BY <2>1 DEF Of, Ips
    <2> QED
      BY <2>1, <2>2, <2>3 DEF SupersedeInv, On, Of
  <1> QED
    BY <1>1, <1>2, <1>3, <1>4, <1>5, <1>6 DEF Next, Operate

\* When no commit fails, a run that ends leaves nothing weaker beside its blocks:
\* neither a rate limit on the source or on a range around it nor a challenge it
\* knew of, whatever the administrators and the sources did in between
\* (rateLimitRemovals, challengeRemovals and the order of the commits in
\* monitorThreats).
THEOREM BlocksSupersede ==
  ASSUME ~Failures PROVE Spec => BlockSupersedes
  <1>1. Init => SupersedeInv
    BY DEF Init, SupersedeInv
  <1>2. OnceInv /\ SupersedeInv /\ [Next]_vars => SupersedeInv'
    BY NextSupersedes
  <1>3. SupersedeInv =>
          [pc = "marks" /\ pc' = "free" =>
             \A b \in newBlocks :
               /\ On(b.ip, limits) = {}
               /\ Of(b.ip, known \cap challenges) = {}]_vars
    BY DEF SupersedeInv
  <1> QED
    BY <1>1, <1>2, <1>3, InitOnce, NextOnce, PTL DEF Spec, BlockSupersedes
-----------------------------------------------------------------------------
\* An escalation is earned

\* The strikes E, made at the times A, are a cooldown apart.
Apart(E, A) ==
  \A a, b \in E : a # b => A[a.event] - A[b.event] \notin (1 - Cooldown) .. (Cooldown - 1)

MarkType == [limit : Decision, strikes : Nat, start : Nat, last : Nat]

\* A strike counter of source s that counts no more than the strikes S bear out.
Earned(s, m, S, A) ==
  /\ m \in MarkType /\ m.limit.ip = s /\ m.start <= m.last
  /\ \E E \in SUBSET S :
       /\ IsFiniteSet(E) /\ Cardinality(E) = m.strikes /\ Apart(E, A)
       /\ \A a \in E : /\ a.limit = m.limit /\ SourceOf[a.event] = s
                       /\ m.start <= A[a.event] /\ A[a.event] <= m.last

\* A strike file of such counters.
EarnedFile(f, S, A) ==
  /\ f \in [Source -> MarkType \cup {NoMark}]
  /\ \A s \in Source : f[s] # NoMark => Earned(s, f[s], S, A)

\* What EscalationEarned says of a decision.
Deserved(r, S, A) ==
  \E E \in SUBSET S :
    /\ Cardinality(E) = Hits
    /\ \A a, b \in E :
         /\ a.limit = b.limit /\ a.limit.ip = r.ip /\ SourceOf[a.event] = r.ip
         /\ A[r.by] - A[a.event] \in 0 .. Window
         /\ a # b => A[a.event] - A[b.event] \notin (1 - Cooldown) .. (Cooldown - 1)

\* A strike is counted for an event no run will see again.
StrikesInv ==
  \A a \in strikes : /\ a.event \in Logged /\ ~Undecided(a.event)
                     /\ primed => a.event \in seen

\* The strike file, the run's copy and what an administrator's undo has read of it
\* are earned, and so is every escalation.
EarnedInv ==
  /\ now \in Nat /\ at \in [Event -> Nat]
  /\ \A l \in limits : l.by # Admin => l \in Decision
  /\ StrikesInv
  /\ EarnedFile(marks, strikes, at) /\ EarnedFile(work, strikes, at)
  /\ undo # NoUndo => \E i, r : /\ undo = [ip |-> i, read |-> r]
                                /\ r # NoMark => EarnedFile(r, strikes, at)
  /\ \A r \in asked \cup newBlocks : ClassOf[r.by] = Soft => Deserved(r, strikes, at)

\* A finite set has subsets of every smaller size.
LEMMA SubsetOfSize ==
  ASSUME NEW S, IsFiniteSet(S), NEW k \in Nat, k <= Cardinality(S)
  PROVE  \E T \in SUBSET S : IsFiniteSet(T) /\ Cardinality(T) = k
  <1> DEFINE Sized(n, T) == IsFiniteSet(T) /\ Cardinality(T) = n
             Sizes == {n \in Nat : n <= Cardinality(S) => \E T \in SUBSET S : Sized(n, T)}
  <1>0. Cardinality(S) \in Nat
    BY FS_CardinalityType
  <1>1. 0 \in Sizes
    BY FS_EmptySet
  <1>2. ASSUME NEW n \in Nat, n \in Sizes PROVE n + 1 \in Sizes
    <2> SUFFICES ASSUME n + 1 <= Cardinality(S) PROVE \E T \in SUBSET S : Sized(n + 1, T)
      OBVIOUS
    <2>1. PICK T \in SUBSET S : Sized(n, T)
      BY <1>0, <1>2
    <2>2. T # S
      BY <1>0, <2>1
    <2>3. PICK x \in S : x \notin T
      BY <2>2
    <2>4. Sized(n + 1, T \cup {x})
      BY <2>1, <2>3, FS_AddElement
    <2> QED
      BY <2>4
  <1> HIDE DEF Sizes
  <1>3. k \in Sizes
    BY <1>1, <1>2, SetInduction
  <1> QED
    BY <1>3 DEF Sizes

\* More strikes, and other times for other events, do not make a counter unearned.
LEMMA EarnedGrows ==
  ASSUME NEW S, NEW A, NEW S2, NEW A2, S \subseteq S2, \A a \in S : A2[a.event] = A[a.event],
         NEW f, EarnedFile(f, S, A)
  PROVE  EarnedFile(f, S2, A2)
  <1>1. ASSUME NEW s \in Source, f[s] # NoMark PROVE Earned(s, f[s], S2, A2)
    <2> PICK m : m = f[s]
      OBVIOUS
    <2>1. Earned(s, m, S, A)
      BY <1>1 DEF EarnedFile
    <2>2. PICK E \in SUBSET S :
            /\ IsFiniteSet(E) /\ Cardinality(E) = m.strikes /\ Apart(E, A)
            /\ \A a \in E : /\ a.limit = m.limit /\ SourceOf[a.event] = s
                            /\ m.start <= A[a.event] /\ A[a.event] <= m.last
      BY <2>1 DEF Earned
    <2>3. Apart(E, A2)
      BY <2>2 DEF Apart
    <2>4. Earned(s, m, S2, A2)
      BY <2>1, <2>2, <2>3 DEF Earned
    <2> QED
      BY <2>4
  <1> QED
    BY <1>1 DEF EarnedFile

\* Nor a decision undeserved.
LEMMA DeservedGrows ==
  ASSUME NEW S, NEW A, NEW S2, NEW A2, S \subseteq S2, \A a \in S : A2[a.event] = A[a.event],
         NEW r, A2[r.by] = A[r.by], Deserved(r, S, A)
  PROVE  Deserved(r, S2, A2)
  <1>1. PICK E \in SUBSET S :
          /\ Cardinality(E) = Hits
          /\ \A a, b \in E :
               /\ a.limit = b.limit /\ a.limit.ip = r.ip /\ SourceOf[a.event] = r.ip
               /\ A[r.by] - A[a.event] \in 0 .. Window
               /\ a # b => A[a.event] - A[b.event] \notin (1 - Cooldown) .. (Cooldown - 1)
    BY DEF Deserved
  <1>2. \A a \in E : A2[a.event] = A[a.event]
    OBVIOUS
  <1> QED
    BY <1>1, <1>2 DEF Deserved

\* Removing counters, and pruning, leaves a file of earned ones.
LEMMA EarnedSubfile ==
  ASSUME NEW S, NEW A, NEW f, EarnedFile(f, S, A), NEW g, DOMAIN g = Source,
         g = [s \in Source |-> g[s]], \A s \in Source : g[s] = NoMark \/ g[s] = f[s]
  PROVE  EarnedFile(g, S, A)
  BY DEF EarnedFile

\* One counter is replaced by an earned one.
LEMMA EarnedExcept ==
  ASSUME NEW S, NEW A, NEW f, EarnedFile(f, S, A), NEW s, NEW m,
         m = NoMark \/ Earned(s, m, S, A)
  PROVE  EarnedFile([f EXCEPT ![s] = m], S, A)
  <1> PICK g : g = [f EXCEPT ![s] = m]
    OBVIOUS
  <1>1. f \in [Source -> MarkType \cup {NoMark}] /\ m \in MarkType \cup {NoMark}
    BY DEF EarnedFile, Earned
  <1>2. g \in [Source -> MarkType \cup {NoMark}]
    BY <1>1
  <1>3. \A x \in Source : g[x] = IF x = s THEN m ELSE f[x]
    BY <1>1
  <1> HIDE DEF EarnedFile
  <1>4. \A x \in Source : g[x] # NoMark => Earned(x, g[x], S, A)
    BY <1>3 DEF EarnedFile
  <1> QED
    BY <1>2, <1>4 DEF EarnedFile

Raised(m, t) == [m EXCEPT !.strikes = @ + 1, !.last = t]

\* Event e of source s, made at t, counts for limit l: it is not among
\* the strikes S, and comes a cooldown after the last of counter m.
Countable(S, A, s, e, t, l, m) ==
  /\ A \in [Event -> Nat] /\ s \in Source /\ e \in Event /\ SourceOf[e] = s /\ t = A[e]
  /\ \A a \in S : a.event \in Event /\ a.event # e
  /\ l \in Decision /\ l.ip = s
  /\ \/ Earned(s, m, S, A) /\ m.limit = l
     \/ m = [limit |-> l, strikes |-> 0, start |-> t, last |-> Never]
  /\ t - m.last >= Cooldown

\* A counted strike makes the counter one larger, and is one more strike to bear
\* it out: it is a cooldown later than those before.
LEMMA StrikeEarned ==
  ASSUME NEW S, NEW A, NEW s, NEW e, NEW t, NEW l, NEW m, Countable(S, A, s, e, t, l, m)
  PROVE  /\ Raised(m, t).start = m.start /\ Raised(m, t).last = t
         /\ Earned(s, Raised(m, t), S \cup {[event |-> e, limit |-> l]}, A)
  <1> PICK n : n = Raised(m, t)
    OBVIOUS
  <1> PICK x : x = [event |-> e, limit |-> l]
    OBVIOUS
  <1> USE DEF Countable
  <1>0. /\ x.event = e /\ x.limit = l /\ x \notin S
        /\ A[e] \in Nat /\ Cooldown \in Nat /\ \A a \in S : A[a.event] \in Nat
    BY NumberAssumption
  <1>1. /\ m \in [limit : {l}, strikes : Nat, start : Nat, last : Int]
        /\ m.start <= A[e]
        /\ \E E \in SUBSET S :
             /\ IsFiniteSet(E) /\ Cardinality(E) = m.strikes /\ Apart(E, A)
             /\ \A a \in E : /\ a.limit = l /\ SourceOf[a.event] = s
                             /\ m.start <= A[a.event] /\ A[e] - A[a.event] >= Cooldown
    <2>1. CASE Earned(s, m, S, A) /\ m.limit = l
      <3>1. m \in MarkType /\ m.start <= m.last
        BY <2>1 DEF Earned
      <3>2. m \in [limit : {l}, strikes : Nat, start : Nat, last : Int] /\ m.start <= A[e]
        BY <1>0, <2>1, <3>1 DEF MarkType
      <3>3. PICK E \in SUBSET S :
              /\ IsFiniteSet(E) /\ Cardinality(E) = m.strikes /\ Apart(E, A)
              /\ \A a \in E : /\ a.limit = m.limit /\ SourceOf[a.event] = s
                              /\ m.start <= A[a.event] /\ A[a.event] <= m.last
        BY <2>1 DEF Earned
      <3>4. \A a \in E : A[e] - A[a.event] >= Cooldown
        BY <1>0, <3>2, <3>3
      <3> QED
        BY <2>1, <3>2, <3>3, <3>4
    <2>2. CASE m = [limit |-> l, strikes |-> 0, start |-> A[e], last |-> Never]
      <3>1. IsFiniteSet({}) /\ Cardinality({}) = 0 /\ Apart({}, A)
        BY FS_EmptySet DEF Apart
      <3>2. /\ m \in [limit : {l}, strikes : Nat, start : Nat, last : Int]
            /\ m.strikes = 0 /\ m.start <= A[e]
        BY <1>0, <2>2 DEF Never
      <3> QED
        BY <3>1, <3>2
    <2> QED
      BY <2>1, <2>2
  <1>2. n = [limit |-> l, strikes |-> m.strikes + 1, start |-> m.start, last |-> A[e]]
    BY <1>1 DEF Raised
  <1>3. n \in MarkType /\ n.limit = l /\ n.strikes = m.strikes + 1 /\ n.start = m.start /\ n.last = A[e]
    BY <1>0, <1>1, <1>2 DEF MarkType
  <1>4. PICK E \in SUBSET S :
          /\ IsFiniteSet(E) /\ Cardinality(E) = m.strikes /\ Apart(E, A)
          /\ \A a \in E : /\ a.limit = l /\ SourceOf[a.event] = s
                          /\ m.start <= A[a.event] /\ A[e] - A[a.event] >= Cooldown
    BY <1>1
  <1> DEFINE F == E \cup {x}
  <1>5. IsFiniteSet(F) /\ Cardinality(F) = n.strikes
    <2>1. x \notin E
      BY <1>0, <1>4
    <2>2. IsFiniteSet(E \cup {x}) /\ Cardinality(E \cup {x}) = Cardinality(E) + 1
      BY <1>4, <2>1, FS_AddElement
    <2> QED
      BY <1>3, <1>4, <2>2
  <1>6. Apart(F, A)
    <2>1. ASSUME NEW a \in E
          PROVE  /\ A[a.event] - A[x.event] \notin (1 - Cooldown) .. (Cooldown - 1)
                 /\ A[x.event] - A[a.event] \notin (1 - Cooldown) .. (Cooldown - 1)
      <3>1. A[a.event] \in Nat /\ A[e] - A[a.event] >= Cooldown
        BY <1>0, <1>4
      <3> QED
        BY <1>0, <3>1
    <2>2. \A a, b \in F : a # b =>
            (a \in E /\ b \in E) \/ (a \in E /\ b = x) \/ (a = x /\ b \in E)
      OBVIOUS
    <2>3. \A a, b \in E : a # b => A[a.event] - A[b.event] \notin (1 - Cooldown) .. (Cooldown - 1)
      BY <1>4 DEF Apart
    <2> HIDE DEF F
    <2> QED
      BY <2>1, <2>2, <2>3 DEF Apart
  <1>7. \A a \in F : /\ a.limit = n.limit /\ SourceOf[a.event] = s
                     /\ n.start <= A[a.event] /\ A[a.event] <= n.last
    <2>1. \A a \in E : A[a.event] <= A[e]
      BY <1>0, <1>4
    <2> QED
      BY <1>0, <1>1, <1>3, <1>4, <2>1
  <1>8. F \in SUBSET (S \cup {x}) /\ n.limit.ip = s /\ n.start <= n.last
    BY <1>1, <1>3
  <1> HIDE DEF F
  <1>9. Earned(s, n, S \cup {x}, A)
    BY <1>3, <1>5, <1>6, <1>7, <1>8 DEF Earned
  <1> QED
    BY <1>0, <1>3, <1>9

\* A counter that has reached Hits within the window bears out an escalation.
LEMMA MarkDeserves ==
  ASSUME NEW S, NEW A \in [Event -> Nat], \A a \in S : a.event \in Event,
         NEW s, NEW e \in Event, NEW n, Earned(s, n, S, A),
         n.strikes >= Hits, n.last = A[e], A[e] - n.start <= Window
  PROVE  Deserved([ip |-> s, by |-> e], S, A)
  <1>0. Hits \in Nat /\ Window \in Nat /\ A[e] \in Nat /\ n.strikes \in Nat /\ n.start \in Nat
    BY NumberAssumption DEF Earned, MarkType
  <1>1. PICK E \in SUBSET S :
          /\ IsFiniteSet(E) /\ Cardinality(E) = n.strikes /\ Apart(E, A)
          /\ \A a \in E : /\ a.limit = n.limit /\ SourceOf[a.event] = s
                          /\ n.start <= A[a.event] /\ A[a.event] <= n.last
    BY DEF Earned
  <1>2. PICK T \in SUBSET E : Cardinality(T) = Hits
    BY <1>0, <1>1, SubsetOfSize
  <1>3. n.limit.ip = s
    BY DEF Earned
  <1>4. ASSUME NEW a \in T PROVE A[e] - A[a.event] \in 0 .. Window
    <2>1. A[a.event] \in Nat /\ n.start <= A[a.event] /\ A[a.event] <= A[e]
      BY <1>1
    <2> QED
      BY <1>0, <2>1
  <1>5. \A a, b \in T : a # b => A[a.event] - A[b.event] \notin (1 - Cooldown) .. (Cooldown - 1)
    BY <1>1 DEF Apart
  <1>6. T \in SUBSET S /\ \A a, b \in T : a.limit = b.limit /\ a.limit.ip = s /\ SourceOf[a.event] = s
    BY <1>1, <1>3
  <1> PICK r : r = [ip |-> s, by |-> e]
    OBVIOUS
  <1>7. r.ip = s /\ r.by = e
    OBVIOUS
  <1>8. Deserved(r, S, A)
    BY <1>2, <1>4, <1>5, <1>6, <1>7 DEF Deserved
  <1> QED
    BY <1>8

\* What a step has to show of the strikes, the files and the decisions it changes.
LEMMA EarnedFrame ==
  ASSUME OnceInv, EarnedInv, now' \in Nat, at' \in [Event -> Nat],
         \A e \in Logged : at'[e] = at[e],
         \A l \in limits' : l \in limits \/ l.by = Admin \/ l \in Decision,
         strikes \subseteq strikes',
         \A a \in strikes : /\ a.event \in Logged' /\ ~Undecided(a.event)'
                            /\ primed' => a.event \in seen',
         \A a \in strikes' : \/ a \in strikes
                             \/ /\ a.event \in Logged /\ a.event \in Logged' /\ ~Undecided(a.event)'
                                /\ primed' => a.event \in seen',
         EarnedFile(marks', strikes', at), EarnedFile(work', strikes', at),
         \/ undo' = NoUndo \/ undo' = undo
         \/ \E i, r : /\ undo' = [ip |-> i, read |-> r]
                      /\ r # NoMark => EarnedFile(r, strikes', at),
         \A r \in asked' \cup newBlocks' :
           r \in asked \cup newBlocks
             \/ (r.by \in Logged /\ (ClassOf[r.by] = Soft => Deserved(r, strikes', at)))
  PROVE  EarnedInv'
  <1>1. StrikesInv'
    BY DEF StrikesInv
  <1>2. \A a \in strikes' : a.event \in Logged /\ at'[a.event] = at[a.event]
    BY DEF EarnedInv, StrikesInv
  <1>3. EarnedFile(marks', strikes', at') /\ EarnedFile(work', strikes', at')
    BY <1>2, EarnedGrows
  <1>4. undo' # NoUndo => \E i, r : /\ undo' = [ip |-> i, read |-> r]
                                    /\ r # NoMark => EarnedFile(r, strikes', at')
    <2> SUFFICES ASSUME undo' # NoUndo
                 PROVE  \E i, r : /\ undo' = [ip |-> i, read |-> r]
                                  /\ r # NoMark => EarnedFile(r, strikes', at')
      OBVIOUS
    <2>1. PICK i, r : /\ undo' = [ip |-> i, read |-> r]
                      /\ r # NoMark => EarnedFile(r, strikes', at) \/ EarnedFile(r, strikes, at)
      BY DEF EarnedInv
    <2>2. \A a \in strikes : at'[a.event] = at[a.event]
      BY <1>2
    <2>3. r # NoMark => EarnedFile(r, strikes', at')
      BY <1>2, <2>1, <2>2, EarnedGrows
    <2> QED
      BY <2>1, <2>3
  <1>5. ASSUME NEW r \in asked' \cup newBlocks', ClassOf[r.by] = Soft
        PROVE  Deserved(r, strikes', at')
    <2>1. CASE r \in asked \cup newBlocks
      <3>1. r.by \in Logged
        <4>1. r.by \in seen
          BY <2>1 DEF OnceInv, DecidedInv, By
        <4> QED
          BY <4>1 DEF OnceInv, FeedTypes
      <3>2. Deserved(r, strikes, at)
        BY <1>5, <2>1 DEF EarnedInv
      <3>3. at'[r.by] = at[r.by] /\ \A a \in strikes : at'[a.event] = at[a.event]
        BY <1>2, <3>1
      <3> QED
        BY <3>2, <3>3, DeservedGrows
    <2>2. CASE r.by \in Logged /\ Deserved(r, strikes', at)
      BY <1>2, <2>2, DeservedGrows
    <2> QED
      BY <1>5, <2>1, <2>2
  <1>6. \A l \in limits' : l.by # Admin => l \in Decision
    BY DEF EarnedInv
  <1> QED
    BY <1>1, <1>3, <1>4, <1>5, <1>6 DEF EarnedInv

\* Steps that count no strike and decide on nothing.
LEMMA AsideEarned ==
  ASSUME OnceInv, EarnedInv, now' \in Nat, UNCHANGED <<at, log, strikes>>,
         \A l \in limits' : l \in limits \/ l.by = Admin \/ l \in Decision,
         \A e : Undecided(e)' => Undecided(e) \/ (primed /\ e \notin seen),
         primed' => Logged \subseteq seen' \/ (primed /\ seen \subseteq seen'),
         EarnedFile(marks', strikes, at), EarnedFile(work', strikes, at),
         \/ undo' = NoUndo \/ undo' = undo
         \/ \E i, r : /\ undo' = [ip |-> i, read |-> r]
                      /\ r # NoMark => EarnedFile(r, strikes, at),
         asked' \cup newBlocks' \subseteq asked \cup newBlocks
  PROVE  EarnedInv'
  <1>1. Logged' = Logged /\ at' \in [Event -> Nat] /\ StrikesInv
    BY DEF Logged, EarnedInv
  <1>2. \A a \in strikes : /\ a.event \in Logged' /\ ~Undecided(a.event)'
                           /\ primed' => a.event \in seen'
    BY <1>1 DEF StrikesInv
  <1> QED
    BY <1>1, <1>2, EarnedFrame

\* A logged request is not one of the strikes.
LEMMA LogEarned ==
  ASSUME OnceInv, EarnedInv, NEW e \in Event, Log(e)
  PROVE  EarnedInv'
  <1>1. /\ e \notin Logged /\ log' = Append(log, e) /\ at' = [at EXCEPT ![e] = now]
        /\ UNCHANGED <<now, limits, marks, primed, seen, waiting, fresh, asked, newBlocks, work, undo,
                       strikes>>
    BY DEF Log, stores, run, batch, history
  <1>2. Logged' = Logged \cup {e} /\ Logged \subseteq Event
    <2>1. log \in Seq(Event)
      BY DEF OnceInv, FeedTypes
    <2>2. Range(log') = Range(log) \cup {e}
      BY <1>1, <2>1, AppendRange
    <2>3. Range(log) \subseteq Event
      BY <2>1 DEF Range
    <2> QED
      BY <2>2, <2>3 DEF Logged
  <1>3. now \in Nat /\ at \in [Event -> Nat] /\ StrikesInv
    BY DEF EarnedInv
  <1>4. at' \in [Event -> Nat] /\ \A x \in Logged : at'[x] = at[x]
    BY <1>1, <1>2, <1>3
  <1>5. \A x : Undecided(x)' <=> Undecided(x)
    BY <1>1 DEF Undecided, Part
  <1>6. \A a \in strikes : /\ a.event \in Logged' /\ ~Undecided(a.event)'
                           /\ primed' => a.event \in seen'
    BY <1>1, <1>2, <1>3, <1>5 DEF StrikesInv
  <1>7. /\ EarnedFile(marks', strikes', at) /\ EarnedFile(work', strikes', at)
        /\ \A l \in limits' : l \in limits
    BY <1>1 DEF EarnedInv
  <1> QED
    BY <1>1, <1>3, <1>4, <1>6, <1>7, EarnedFrame

\* A run that considers event e: it is the event of the new strike, if there is
\* one, and of the new decision.
LEMMA ConsiderFrame ==
  ASSUME OnceInv, EarnedInv, NEW e \in Event, pc = "consider", fresh # <<>>, e = Head(fresh),
         Considered,
         \/ strikes' = strikes \/ \E l : strikes' = strikes \cup {[event |-> e, limit |-> l]},
         EarnedFile(work', strikes', at),
         \A r \in asked' \cup newBlocks' :
           r \in asked \cup newBlocks
             \/ (r.by = e /\ (ClassOf[r.by] = Soft => Deserved(r, strikes', at)))
  PROVE  EarnedInv'
  <1>1. /\ fresh' = Tail(fresh)
        /\ UNCHANGED <<now, at, log, limits, marks, primed, seen, waiting, undo>>
    BY DEF Considered, stores, feed
  <1>2. Undecided(e) /\ \A x : Undecided(x)' => Undecided(x) /\ x # e
    BY <1>1, TakeEvent
  <1>3. e \in seen /\ e \in Logged /\ Logged' = Logged
    BY <1>1, <1>2 DEF OnceInv, QueueInv, FeedTypes, Logged
  <1>4. now' \in Nat /\ at' \in [Event -> Nat] /\ StrikesInv /\ EarnedFile(marks, strikes, at)
    BY <1>1 DEF EarnedInv
  <1>5. strikes \subseteq strikes' /\ \A a \in strikes' : a \in strikes \/ a.event = e
    OBVIOUS
  <1>6. EarnedFile(marks', strikes', at)
    BY <1>1, <1>4, <1>5, EarnedGrows
  <1>7. \A a \in strikes : /\ a.event \in Logged' /\ ~Undecided(a.event)'
                           /\ primed' => a.event \in seen'
    BY <1>1, <1>2, <1>3, <1>4 DEF StrikesInv
  <1>8. \A a \in strikes' : a \in strikes \/ (/\ a.event \in Logged /\ a.event \in Logged'
                                              /\ ~Undecided(a.event)'
                                              /\ primed' => a.event \in seen')
    BY <1>1, <1>2, <1>3, <1>5
  <1>9. \A r \in asked' \cup newBlocks' :
          r \in asked \cup newBlocks
            \/ (r.by \in Logged /\ (ClassOf[r.by] = Soft => Deserved(r, strikes', at)))
    BY <1>3
  <1> QED
    BY <1>1, <1>4, <1>5, <1>6, <1>7, <1>8, <1>9, EarnedFrame

\* A rule, and the soft rule that limits, escalate nothing; the counter they set
\* has no strikes.
LEMMA RuleEarned ==
  ASSUME OnceInv, EarnedInv, NEW e \in Event,
         Pass(e) \/ RuleBlocks(e) \/ RuleChallenges(e) \/ RuleLimits(e) \/ SoftLimits(e)
  PROVE  EarnedInv'
  <1>0. now \in Nat /\ EarnedFile(work, strikes, at)
    BY DEF EarnedInv
  <1>1. /\ pc = "consider" /\ fresh # <<>> /\ e = Head(fresh) /\ Considered /\ strikes' = strikes
    BY DEF Pass, RuleBlocks, RuleChallenges, RuleLimits, SoftLimits, ByRule, BySoftRule, Answerable
  <1>2. \A r \in asked' \cup newBlocks' : r \in asked \cup newBlocks \/ (r.by = e /\ ClassOf[r.by] # Soft)
    BY DEF Pass, RuleBlocks, RuleChallenges, RuleLimits, SoftLimits, ByRule, AddBlock, AddChallenge,
           AddLimit
  <1>3. EarnedFile(work', strikes, at)
    <2>1. CASE work' = work
      BY <1>0, <2>1
    <2>2. CASE work' = [work EXCEPT ![SourceOf[e]] = NoMark]
      BY <1>0, <2>2, EarnedExcept
    <2>3. ASSUME NEW l, l = [ip |-> SourceOf[e], by |-> e], work' = [work EXCEPT ![l.ip] = NewMark(l)]
          PROVE  EarnedFile(work', strikes, at)
      <3>1. l \in Decision /\ SourceOf[e] = l.ip
        BY <2>3, EventAssumption DEF Decision
      <3>2. /\ NewMark(l) \in MarkType /\ NewMark(l).limit = l /\ NewMark(l).strikes = 0
            /\ NewMark(l).start <= NewMark(l).last
        BY <1>0, <3>1 DEF NewMark, MarkType
      <3>3. IsFiniteSet({}) /\ Cardinality({}) = 0 /\ Apart({}, at)
        BY FS_EmptySet DEF Apart
      <3>4. Earned(l.ip, NewMark(l), strikes, at)
        BY <3>2, <3>3 DEF Earned
      <3> QED
        BY <1>0, <2>3, <3>4, EarnedExcept
    <2> QED
      BY <2>1, <2>2, <2>3 DEF Pass, RuleBlocks, RuleChallenges, RuleLimits, SoftLimits, AddBlock,
                              AddChallenge, AddLimit
  <1> QED
    BY <1>1, <1>2, <1>3, ConsiderFrame

\* A further event under a soft rule's limit: what it counts, and what it
\* escalates, is earned.
LEMMA StrikeKeepsEarned ==
  ASSUME OnceInv, EarnedInv, NEW e \in Event, NEW l \in limits \cup newLimits, Strike(e, l)
  PROVE  EarnedInv'
  <1> PICK s : s = SourceOf[e]
    OBVIOUS
  <1> PICK x : x = [event |-> e, limit |-> l]
    OBVIOUS
  <1> PICK m : m = Counter(e, l)
    OBVIOUS
  <1> PICK t : t = at[e]
    OBVIOUS
  <1> PICK n : n = Raised(m, t)
    OBVIOUS
  <1>0. /\ EarnedFile(work, strikes, at) /\ at \in [Event -> Nat] /\ at[e] \in Nat
        /\ s \in Source /\ Cooldown \in Nat /\ StrikesInv
    BY EventAssumption, NumberAssumption DEF EarnedInv
  <1>1. /\ pc = "consider" /\ fresh # <<>> /\ e = Head(fresh) /\ Considered
        /\ l \in ActiveLimits(s) /\ l.by # Admin /\ ClassOf[e] = Soft
    BY DEF Strike, BySoftRule, Answerable
  <1>2. l \in Decision /\ l.ip = s
    <2>1. l \in Decision
      BY <1>1 DEF EarnedInv, OnceInv, FeedTypes
    <2>2. l.ip \in Source /\ Covers[l.ip] = {l.ip}
      BY <2>1, SourceAssumption DEF Decision
    <2> QED
      BY <1>1, <2>1, <2>2 DEF ActiveLimits, Of, On
  <1>3. \A a \in strikes : a.event \in Event /\ a.event # e
    <2>1. fresh \in Seq(Event) /\ Logged \subseteq Event
      BY DEF OnceInv, FeedTypes, Logged, Range
    <2>2. Undecided(e)
      BY <1>1, <2>1, TailRange DEF Undecided
    <2> QED
      BY <1>0, <2>1, <2>2 DEF StrikesInv
  <1>4. \/ Earned(s, m, strikes, at) /\ m.limit = l /\ at[e] - m.start <= Window /\ m = work[s]
        \/ /\ m = [limit |-> l, strikes |-> 0, start |-> at[e], last |-> Never]
           /\ at[e] - m.start <= Window /\ Counts(e, m)
    <2>1. CASE work[s] # NoMark /\ work[s].limit = l /\ at[e] - work[s].start <= Window
      <3>1. m = work[s]
        BY <2>1 DEF Counter
      <3> QED
        BY <1>0, <2>1, <3>1 DEF EarnedFile
    <2>2. CASE ~(work[s] # NoMark /\ work[s].limit = l /\ at[e] - work[s].start <= Window)
      <3>1. m = [limit |-> l, strikes |-> 0, start |-> at[e], last |-> Never]
        BY <2>2 DEF Counter
      <3>2. m.start = at[e] /\ m.last = 0 - Cooldown
        BY <3>1 DEF Never
      <3> QED
        BY <1>0, <3>1, <3>2, NumberAssumption DEF Counts
    <2> QED
      BY <2>1, <2>2
  <1>5. CASE ~Counts(e, m)
    <2>1. m = work[s] /\ strikes' = strikes /\ UNCHANGED <<newBlocks, asked>>
          /\ work' = [work EXCEPT ![s] = m]
      BY <1>4, <1>5 DEF Strike
    <2>2. work' = work
      BY <1>0, <2>1 DEF EarnedFile
    <2> QED
      BY <1>0, <1>1, <2>1, <2>2, ConsiderFrame
  <1>6. CASE Counts(e, m)
    <2>1. strikes' = strikes \cup {x} /\ strikes \subseteq strikes'
      BY <1>6 DEF Strike
    <2>2. at[e] - m.last >= Cooldown
      BY <1>6 DEF Counts
    <2>3. n.start = m.start /\ n.last = at[e] /\ Earned(s, n, strikes', at)
      <3>1. \/ Earned(s, m, strikes, at) /\ m.limit = l
            \/ m = [limit |-> l, strikes |-> 0, start |-> at[e], last |-> Never]
        BY <1>4
      <3>2. /\ n.start = m.start /\ n.last = t
            /\ Earned(s, n, strikes \cup {[event |-> e, limit |-> l]}, at)
        <4>1. /\ at \in [Event -> Nat] /\ s \in Source /\ SourceOf[e] = s /\ l \in Decision /\ l.ip = s
              /\ n = Raised(m, t) /\ t = at[e]
          BY <1>0, <1>2
        <4>2. Countable(strikes, at, s, e, t, l, m)
          BY <1>3, <2>2, <3>1, <4>1 DEF Countable
        <4> QED
          BY <4>1, <4>2, StrikeEarned
      <3> QED
        BY <2>1, <3>2
    <2>4. EarnedFile(work, strikes', at)
      BY <1>0, <2>1, EarnedGrows
    <2>5. EarnedFile([work EXCEPT ![s] = n], strikes', at) /\ EarnedFile([work EXCEPT ![s] = NoMark], strikes', at)
      BY <2>3, <2>4, EarnedExcept
    <2>6. work' = [work EXCEPT ![s] = n] \/ work' = [work EXCEPT ![s] = NoMark]
      BY <1>6 DEF Strike, AddBlock, AddChallenge, Raised
    <2>7. n.strikes >= Hits => Deserved([ip |-> s, by |-> e], strikes', at)
      <3>1. \A a \in strikes' : a.event \in Event
        BY <1>3, <2>1
      <3>2. at[e] - n.start <= Window
        BY <1>4, <2>3
      <3> QED
        BY <1>0, <2>3, <3>1, <3>2, MarkDeserves
    <2>8. \A r \in asked' \cup newBlocks' :
            r \in asked \cup newBlocks \/ (n.strikes >= Hits /\ r = [ip |-> s, by |-> e])
      BY <1>6 DEF Strike, AddBlock, AddChallenge, Raised
    <2>9. \A r \in asked' \cup newBlocks' :
            r \in asked \cup newBlocks \/ (r.by = e /\ (ClassOf[r.by] = Soft => Deserved(r, strikes', at)))
      BY <2>7, <2>8
    <2> QED
      BY <1>1, <2>1, <2>5, <2>6, <2>9, ConsiderFrame
  <1> QED
    BY <1>5, <1>6

\* Pruning keeps some of the counters.
LEMMA PruneEarned ==
  ASSUME NEW f, EarnedFile(f, strikes, at)
  PROVE  EarnedFile(Prune(f), strikes, at)
  <1>1. DOMAIN Prune(f) = Source /\ \A s \in Source : Prune(f)[s] = NoMark \/ Prune(f)[s] = f[s]
    BY DEF Prune
  <1>2. Prune(f) = [s \in Source |-> Prune(f)[s]]
    BY DEF Prune
  <1> QED
    BY <1>1, <1>2, EarnedSubfile

\* A file without counters is earned.
LEMMA EmptyFileEarned ==
  ASSUME NEW S, NEW A, NEW f, f = [s \in Source |-> NoMark]
  PROVE  EarnedFile(f, S, A)
  BY DEF EarnedFile

\* A run that ends or dies leaves no decision behind, and at most its copy of the
\* counters.
LEMMA ForgottenEarned ==
  ASSUME OnceInv, EarnedInv, Forgotten, pc' = "free", UNCHANGED <<policy, now, at, log, strikes, answers, limits>>,
         marks' = marks \/ marks' = work, undo' = undo \/ undo' = NoUndo,
         UNCHANGED <<waiting, seen, primed>> \/ (waiting' = <<>> /\ seen' = {} /\ primed' = FALSE)
  PROVE  EarnedInv'
  <1>1. \A e : Undecided(e)' => Undecided(e)
    BY ForgottenOnce
  <1>2. work' = [s \in Source |-> NoMark] /\ asked' = {} /\ newBlocks' = {}
    BY DEF Forgotten
  <1>3. EarnedFile(work', strikes, at)
    BY <1>2, EmptyFileEarned
  <1>4. now' \in Nat /\ EarnedFile(marks', strikes, at)
    BY DEF EarnedInv
  <1>5. primed' => primed /\ seen \subseteq seen'
    OBVIOUS
  <1> QED
    BY <1>1, <1>2, <1>3, <1>4, <1>5, AsideEarned

\* Runs begin with a pruned copy of the counters; polls and the priming only
\* queue and remember events.
LEMMA FeedEarned ==
  ASSUME OnceInv, EarnedInv, Prime \/ Poll \/ Begin \/ BeginFails
  PROVE  EarnedInv'
  <1>1. UNCHANGED <<now, at, log, limits, marks, undo, strikes>> /\ now \in Nat /\ EarnedFile(marks', strikes, at)
    BY DEF Prime, Poll, Begin, BeginFails, stores, history, EarnedInv
  <1>2. EarnedFile(work', strikes, at) /\ asked' \cup newBlocks' \subseteq asked \cup newBlocks
    <2>1. EarnedFile(Prune(marks), strikes, at) /\ EarnedFile(work, strikes, at)
      BY PruneEarned DEF EarnedInv
    <2> QED
      BY <2>1 DEF Prime, Poll, Begin, BeginFails, run, batch
  <1>3. \A e : Undecided(e)' => Undecided(e) \/ (primed /\ e \notin seen)
    <2>1. CASE Prime
      BY <2>1 DEF Prime, run, batch, Undecided, Part
    <2>2. CASE Poll
      BY <2>2, PollOnce DEF Poll
    <2>3. CASE Begin \/ BeginFails
      BY <2>3, BeginOnce
    <2> QED
      BY <2>1, <2>2, <2>3
  <1>4. primed' => Logged \subseteq seen' \/ (primed /\ seen \subseteq seen')
    BY DEF Prime, Poll, Begin, BeginFails
  <1> QED
    BY <1>1, <1>2, <1>3, <1>4, AsideEarned

\* What administrators, the clock, the purges and the end of challenges do to
\* the strike file and the limits.
LEMMA OutsideEarned ==
  ASSUME OnceInv, EarnedInv,
         \/ UNCHANGED vars
         \/ Tick \/ PruneMarks \/ ReadMarks \/ ClearMarks
         \/ \E p \in Policies : SetPolicy(p)
         \/ \E t \in ManualBlocks : AdminBlock(t)
         \/ \E t \in ManualLimits : AdminLimit(t)
         \/ \E b \in blocks : LiftBlock(b)
         \/ \E l \in limits : AdminUnlimit(l) \/ ExpireLimit(l)
         \/ \E s \in Source : Forget(s)
         \/ \E c \in challenges : EndChallenge(c) \/ LiftChallenge(c)
  PROVE  EarnedInv'
  <1>0. now \in Nat /\ EarnedFile(marks, strikes, at) /\ EarnedFile(work, strikes, at)
    BY DEF EarnedInv
  <1>1. now' \in Nat /\ UNCHANGED <<feed, run, strikes>>
    BY <1>0 DEF vars, Tick, PruneMarks, ReadMarks, ClearMarks, SetPolicy, AdminBlock, AdminLimit,
                LiftBlock, AdminUnlimit, ExpireLimit, Forget, EndChallenge, LiftChallenge, Chained,
                history
  <1>2. \A l \in limits' : l \in limits \/ l.by = Admin
    BY DEF vars, stores, Tick, PruneMarks, ReadMarks, ClearMarks, SetPolicy, AdminBlock, AdminLimit,
           LiftBlock, AdminUnlimit, ExpireLimit, Forget, EndChallenge, LiftChallenge
  <1>3. EarnedFile(marks', strikes, at)
    <2>1. CASE ClearMarks
      <3>1. PICK i, r : /\ undo = [ip |-> i, read |-> r]
                        /\ r # NoMark => EarnedFile(r, strikes, at)
        BY <2>1 DEF ClearMarks, EarnedInv
      <3>2. EarnedFile([r EXCEPT ![i] = NoMark], strikes, at)
        BY <2>1, <3>1, EarnedExcept DEF ClearMarks
      <3> QED
        BY <1>0, <2>1, <3>1, <3>2 DEF ClearMarks
    <2>2. CASE PruneMarks
      BY <1>0, <2>2, PruneEarned DEF PruneMarks
    <2>3. ASSUME NEW l \in limits, AdminUnlimit(l) PROVE EarnedFile(marks', strikes, at)
      <3> DEFINE g == [s \in Source |-> IF s = l.ip THEN NoMark ELSE marks[s]]
      <3>1. DOMAIN g = Source /\ g = [s \in Source |-> g[s]]
            /\ \A s \in Source : g[s] = NoMark \/ g[s] = marks[s]
        OBVIOUS
      <3>2. marks' = g \/ marks' = marks
        BY <2>3 DEF AdminUnlimit
      <3> HIDE DEF g
      <3>3. EarnedFile(g, strikes, at)
        BY <1>0, <3>1, EarnedSubfile
      <3> QED
        BY <1>0, <3>2, <3>3
    <2>4. CASE marks' = marks
      BY <1>0, <2>4
    <2> QED
      BY <2>1, <2>2, <2>3, <2>4
      DEF vars, stores, Tick, ReadMarks, SetPolicy, AdminBlock, AdminLimit, LiftBlock, ExpireLimit,
          Forget, EndChallenge, LiftChallenge
  <1>4. \/ undo' = NoUndo \/ undo' = undo
        \/ \E i, r : /\ undo' = [ip |-> i, read |-> r]
                     /\ r # NoMark => EarnedFile(r, strikes, at)
    <2>1. CASE ReadMarks
      <3>1. PICK i, r : undo = [ip |-> i, read |-> r]
        BY <2>1 DEF ReadMarks, EarnedInv
      <3>2. undo' = NoUndo \/ undo' = [ip |-> i, read |-> marks]
        BY <2>1, <3>1 DEF ReadMarks
      <3> QED
        BY <1>0, <3>2
    <2>2. ASSUME NEW c \in challenges, LiftChallenge(c)
          PROVE  \E i, r : undo' = [ip |-> i, read |-> r] /\ r = NoMark
      BY <2>2 DEF LiftChallenge
    <2>3. CASE undo' = NoUndo \/ undo' = undo
      BY <2>3
    <2> QED
      BY <2>1, <2>2, <2>3
      DEF vars, Tick, PruneMarks, ClearMarks, SetPolicy, AdminBlock, AdminLimit, LiftBlock,
          AdminUnlimit, ExpireLimit, Forget, EndChallenge, Chained
  <1>5. \A e : Undecided(e)' => Undecided(e)
    BY <1>1 DEF feed, run, batch, Undecided, Part
  <1>6. primed' => primed /\ seen \subseteq seen'
    BY <1>1 DEF feed
  <1>7. UNCHANGED <<at, log, asked, newBlocks, work>>
    BY <1>1 DEF feed, run, batch
  <1> QED
    BY <1>0, <1>1, <1>2, <1>3, <1>4, <1>5, <1>6, <1>7, AsideEarned

\* The commits: the blocks that stand in for challenges are of sources the run
\* had decided to challenge.
LEMMA CommitEarned ==
  ASSUME OnceInv, EarnedInv,
         CommitLimits \/ StartChallenges \/ CommitBlocks \/ ClearChallenges \/ WriteMarks
  PROVE  EarnedInv'
  <1>0. /\ now \in Nat /\ EarnedFile(marks, strikes, at) /\ EarnedFile(work, strikes, at)
        /\ newLimits \subseteq Decision
    BY DEF EarnedInv, OnceInv, FeedTypes
  <1>1. CASE WriteMarks
    BY <1>1, ForgottenEarned DEF WriteMarks, feed, history
  <1>2. CASE (CommitLimits \/ CommitBlocks) /\ Fail /\ UNCHANGED <<limits, answers>>
    BY <1>2, ForgottenEarned DEF Fail, CommitLimits, CommitBlocks, feed
  <1>3. CASE \/ CommitLimits /\ UNCHANGED batch
             \/ StartChallenges
             \/ CommitBlocks /\ UNCHANGED batch
             \/ ClearChallenges
    <2>1. /\ UNCHANGED <<now, feed, fresh, marks, work, undo, strikes>>
          /\ asked' \cup newBlocks' \subseteq asked \cup newBlocks
          /\ \A l \in limits' : l \in limits \/ l \in newLimits
      BY <1>3 DEF CommitLimits, StartChallenges, CommitBlocks, ClearChallenges, batch, history
    <2>2. UNCHANGED <<at, log>> /\ primed' = primed /\ seen' = seen
      BY <2>1 DEF feed
    <2>3. \A e : Undecided(e)' => Undecided(e)
      BY <2>1 DEF feed, Undecided, Part
    <2> QED
      BY <1>0, <2>1, <2>2, <2>3, AsideEarned
  <1>4. CommitBlocks /\ Fail => UNCHANGED <<limits, answers>>
    BY DEF CommitBlocks, Fail
  <1> QED
    BY <1>1, <1>2, <1>3, <1>4 DEF CommitLimits, CommitBlocks

\* Every step of the system keeps the invariant.
LEMMA NextEarned ==
  ASSUME OnceInv, EarnedInv, [Next]_vars
  PROVE  EarnedInv'
  <1>1. CASE \/ UNCHANGED vars
             \/ Tick \/ PruneMarks \/ ReadMarks \/ ClearMarks
             \/ \E p \in Policies : SetPolicy(p)
             \/ \E t \in ManualBlocks : AdminBlock(t)
             \/ \E t \in ManualLimits : AdminLimit(t)
             \/ \E b \in blocks : LiftBlock(b)
             \/ \E l \in limits : AdminUnlimit(l) \/ ExpireLimit(l)
             \/ \E s \in Source : Forget(s)
             \/ \E c \in challenges : EndChallenge(c) \/ LiftChallenge(c)
    BY <1>1, OutsideEarned
  <1>2. ASSUME NEW e \in Event, Log(e) PROVE EarnedInv'
    BY <1>2, LogEarned
  <1>3. CASE Prime \/ Poll \/ Begin \/ BeginFails
    BY <1>3, FeedEarned
  <1>4. CASE Restart
    BY <1>4, ForgottenEarned DEF Restart, stores, history
  <1>5. ASSUME NEW e \in Event,
               Pass(e) \/ RuleBlocks(e) \/ RuleChallenges(e) \/ RuleLimits(e) \/ SoftLimits(e)
        PROVE  EarnedInv'
    BY <1>5, RuleEarned
  <1>6. ASSUME NEW e \in Event, NEW l \in limits \cup newLimits, Strike(e, l)
        PROVE  EarnedInv'
    BY <1>6, StrikeKeepsEarned
  <1>7. CASE CommitLimits \/ StartChallenges \/ CommitBlocks \/ ClearChallenges \/ WriteMarks
    BY <1>7, CommitEarned
  <1> QED
    BY <1>1, <1>2, <1>3, <1>4, <1>5, <1>6, <1>7 DEF Next, Operate

\* Whatever rewrites the strike file - runs, pruning, an administrator's undo that
\* writes back what it read long before - and whatever commits fail in between, a
\* source under a soft rule's limit is challenged or blocked only for Hits of its
\* own requests during that limit, a cooldown apart and inside one window
\* (registerEscalationStrike).
THEOREM EscalationsAreEarned == Spec => []EscalationEarned
  <1>1. Init => EarnedInv
    <2> SUFFICES ASSUME Init PROVE EarnedInv
      OBVIOUS
    <2>1. EarnedFile(marks, strikes, at) /\ EarnedFile(work, strikes, at)
      BY EmptyFileEarned DEF Init
    <2>2. now \in Nat /\ at \in [Event -> Nat] /\ limits = {} /\ strikes = {} /\ undo = NoUndo
          /\ asked = {} /\ newBlocks = {}
      BY DEF Init
    <2> QED
      BY <2>1, <2>2 DEF EarnedInv, StrikesInv
  <1>2. OnceInv /\ EarnedInv /\ [Next]_vars => EarnedInv'
    BY NextEarned
  <1>3. EarnedInv => EscalationEarned
    BY DEF EarnedInv, EscalationEarned, Deserved
  <1> QED
    BY <1>1, <1>2, <1>3, InitOnce, NextOnce, PTL DEF Spec
=============================================================================
