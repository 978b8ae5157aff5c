--------------------------- MODULE ReportsProofs ----------------------------
(***************************************************************************)
(* What arrives from nodes and devices.  For any log, rotations, batches,  *)
(* doubts and registrations of NodeTelemetry: no line is passed over       *)
(* unknown, and none is stored more often than its upload was in doubt.    *)
(* For any keys, clocks, messages and bounds of SignedEvents: an event is  *)
(* accepted once.                                                          *)
(***************************************************************************)
EXTENDS NodeTelemetry, SignedEvents, FiniteSetTheorems, TLAPS

USE TelemetryAssumption

-----------------------------------------------------------------------------
(* Types *)

Steps == {"idle", "read", "post", "wait", "save"}
Busy == agent.step \in {"post", "wait", "save"}
Place == [inode : Nat, line : Nat]
Agent == [step : Steps, lines : SUBSET Nat, next : Place, round : Nat, try : Nat]
Request == [lines : SUBSET Nat, token : Nat, try : Nat, queued : BOOLEAN]

Types ==
  /\ log \in [inode : Nat \ {0}, first : Nat \ {0}, last : Nat] /\ log.first <= log.last + 1
  /\ log.last <= LineBound
  /\ cursor \in Place /\ cursor.line # 0
  /\ agent \in Agent /\ (Busy => agent.lines \subseteq 1 .. log.last)
  /\ requests \subseteq Request /\ IsFiniteSet(requests)
  /\ node \in [token : Nat, enabled : BOOLEAN] /\ token \in Nat
  /\ stored \in [Line -> Nat]
  /\ registry \in Nat /\ doubts \in Nat

\* A place in the log is in the file being written, or in an older one.
Reached(place) ==
  /\ place.inode <= log.inode
  /\ place.inode = log.inode => log.first <= place.line /\ place.line <= log.last + 1

Places ==
  /\ Reached(cursor)
  /\ Busy => /\ Reached(agent.next) /\ agent.next.line # 0
             /\ cursor.inode = log.inode => agent.next.inode = log.inode /\ agent.next.line >= cursor.line

-----------------------------------------------------------------------------
(* What one batch reads *)

LEMMA FromType ==
  ASSUME Types, Places
  PROVE  /\ From \in Nat \ {0} /\ From <= log.last + 1
         /\ cursor.inode = log.inode => From = cursor.line
         /\ From >= log.first
         /\ cursor.inode \notin {0, log.inode} => From = log.first
<1>1. CASE cursor.inode = log.inode
  BY <1>1 DEF From, Types, Places, Reached, Place
<1>2. CASE cursor.inode = 0
  <2>1. cursor.inode # log.inode
    BY <1>2 DEF Types
  <2>2. From = IF log.last - log.first < Tail THEN log.first ELSE log.last + 1 - Tail
    BY <1>2, <2>1 DEF From
  <2> QED
    BY <1>2, <2>1, <2>2 DEF Types
<1>3. CASE cursor.inode # log.inode /\ cursor.inode # 0
  <2>1. From = log.first
    BY <1>3 DEF From
  <2> QED
    BY <1>3, <2>1 DEF Types
<1> QED
  BY <1>1, <1>2, <1>3

LEMMA IntervalSize ==
  ASSUME NEW a \in Nat, NEW b \in Int, a <= b + 1
  PROVE  IsFiniteSet(a .. b) /\ Cardinality(a .. b) = b + 1 - a
<1>1. a \in Int
  OBVIOUS
<1>2. /\ IsFiniteSet(a .. b)
      /\ Cardinality(a .. b) = IF a > b THEN 0 ELSE b - a + 1
  BY <1>1, FS_Interval
<1> QED
  BY <1>2

\* A batch is what lies between where it begins and where its number of lines
\* takes it: it leaves nothing out.
LEMMA ReadIsPrefix ==
  ASSUME Types, NEW from \in Nat \ {0}, from <= log.last + 1
  PROVE  LET k == Cardinality(Read(from)) IN
         /\ k \in Nat /\ from + k <= log.last + 1
         /\ Read(from) = from .. from + k - 1
<1> DEFINE S == Read(from)
           k == Cardinality(S)
           top == log.last
<1>0. top \in Nat
  BY DEF Types
<1>1. S \subseteq from .. top
  BY DEF Read
<1>2. \A n \in S : \A m \in from .. n : m \in S
  <2> SUFFICES ASSUME NEW n \in S, NEW m \in from .. n
               PROVE  m \in S
    OBVIOUS
  <2>1. n \in from .. top /\ m \in from .. top
    BY <1>0, <1>1
  <2>2. IsFiniteSet((from .. n - 1) \ Bad)
    <3>1. IsFiniteSet(from .. n - 1)
      BY <2>1, <1>0, FS_Interval
    <3> QED
      BY <3>1, FS_Subset
  <2>3. (from .. m - 1) \ Bad \subseteq (from .. n - 1) \ Bad
    BY <2>1, <1>0
  <2>4. /\ Cardinality((from .. m - 1) \ Bad) <= Cardinality((from .. n - 1) \ Bad)
        /\ Cardinality((from .. m - 1) \ Bad) \in Nat /\ Cardinality((from .. n - 1) \ Bad) \in Nat
    BY <2>2, <2>3, FS_Subset, FS_CardinalityType
  <2>5. Cardinality((from .. n - 1) \ Bad) < Batch /\ (from .. n) \cap Long = {}
    BY DEF Read
  <2>6. (from .. m) \cap Long = {}
    BY <2>5, <2>1, <1>0
  <2>7. Cardinality((from .. m - 1) \ Bad) < Batch
    BY <2>4, <2>5
  <2> QED
    BY <2>1, <2>6, <2>7 DEF Read
<1> HIDE DEF S
<1>3. /\ IsFiniteSet(from .. top) /\ IsFiniteSet(S) /\ k \in Nat
      /\ k <= top + 1 - from
  <2> DEFINE T == from .. top
  <2>1. top \in Int /\ from \in Nat
    BY <1>0
  <2>2. IsFiniteSet(T) /\ Cardinality(T) = top + 1 - from
    BY <2>1, IntervalSize
  <2> HIDE DEF T
  <2>3. S \in SUBSET T
    BY <1>1 DEF T
  <2>4. IsFiniteSet(S) /\ Cardinality(S) <= Cardinality(T)
    BY <2>2, <2>3, FS_Subset
  <2>5. Cardinality(S) \in Nat
    BY <2>4, FS_CardinalityType
  <2> QED
    BY <2>2, <2>4, <2>5 DEF T
<1>4. \A n \in S : n < from + k
  <2> SUFFICES ASSUME NEW n \in S
               PROVE  n < from + k
    OBVIOUS
  <2>1. n \in Nat /\ from <= n
    BY <1>0, <1>1
  <2>2. from .. n \subseteq S
    BY <1>2
  <2>3. Cardinality(from .. n) = n - from + 1
    BY <2>1, FS_Interval
  <2>4. Cardinality(from .. n) <= k
    BY <2>2, <1>3, FS_Subset
  <2> QED
    BY <2>1, <2>3, <2>4, <1>3
<1>5. \A n \in from .. top : n \notin S => n >= from + k
  <2> SUFFICES ASSUME NEW n \in from .. top, n \notin S
               PROVE  n >= from + k
    OBVIOUS
  <2>1. n \in Nat /\ from <= n
    BY <1>0
  <2>2. S \subseteq from .. n - 1
    BY <1>0, <1>1, <1>2, <2>1
  <2> DEFINE T == from .. n - 1
  <2>3. IsFiniteSet(T) /\ Cardinality(T) = n - from
    <3>1. n - 1 \in Int /\ from <= (n - 1) + 1 /\ from \in Nat
      BY <2>1
    <3>2. Cardinality(T) = (n - 1) + 1 - from /\ IsFiniteSet(T)
      BY <3>1, IntervalSize
    <3> QED
      BY <3>2, <2>1
  <2> HIDE DEF T
  <2>4. S \in SUBSET T
    BY <2>2 DEF T
  <2>5. Cardinality(S) <= Cardinality(T)
    BY <2>3, <2>4, FS_Subset
  <2> QED
    BY <2>1, <2>3, <2>5, <1>3
<1>6. S = from .. from + k - 1
  <2> HIDE DEF k
  <2>1. \A n \in S : n \in from .. from + k - 1
    BY <1>0, <1>1, <1>3, <1>4
  <2>2. \A n \in from .. from + k - 1 : n \in S
    BY <1>0, <1>3, <1>5
  <2> QED
    BY <2>1, <2>2
<1> QED
  BY <1>3, <1>6, <1>0 DEF S

-----------------------------------------------------------------------------
(* The invariant *)

\* No later batch begun at this place holds the line.
Past(place, n) == n < log.first \/ (place.inode = log.inode /\ n < place.line)

\* What the agent has gone past, or is about to, is accounted for.
Accounted ==
  /\ \A n \in 1 .. log.last : stored[n] > 0 \/ ~Past(cursor, n) \/ n \in unread \cup Bad
  /\ agent.step = "save" => \A n \in agent.lines : stored[n] > 0
  /\ Busy => \A n \in 1 .. log.last :
       Past(agent.next, n) => Past(cursor, n) \/ n \in agent.lines \cup Bad \cup unread

\* Each request in the air was sent before another doubt, and the one awaited
\* carries the agent's batch.
Tries ==
  /\ agent.step = "wait" =>
       agent.try <= doubts /\ \A r \in requests : r.try = agent.try => r.lines = agent.lines
  /\ \A r1, r2 \in requests : r1.try = r2.try => r1 = r2
  /\ \A r \in requests : \/ r.try < doubts
                         \/ agent.step = "wait" /\ agent.try = r.try /\ r.try = doubts

Carrying(R, n) == {r \in R : n \in r.lines}
Copies(n) == stored[n] + Cardinality(Carrying(requests, n))

\* A line of which there is one copy more than there were doubts is not sent again.
Counted ==
  /\ \A n \in Line :
       /\ Copies(n) <= doubts + 1
       /\ Copies(n) = doubts + 1 =>
            Past(cursor, n) \/ (agent.step \in {"wait", "save"} /\ n \in agent.lines)
       /\ agent.step = "post" /\ n \in agent.lines => Copies(n) <= doubts
  /\ Busy => \A n \in agent.lines : Past(agent.next, n)

Inv == Types /\ Places /\ Accounted /\ Tries /\ Counted

LEMMA Finite ==
  ASSUME NEW R, IsFiniteSet(R), NEW n
  PROVE  IsFiniteSet(Carrying(R, n)) /\ Cardinality(Carrying(R, n)) \in Nat
<1>1. Carrying(R, n) \in SUBSET R
  BY DEF Carrying
<1> QED
  BY <1>1, FS_Subset, FS_CardinalityType

\* A request that is gone takes its copy of each of its lines along.
LEMMA Removed ==
  ASSUME NEW R, IsFiniteSet(R), NEW r \in R, NEW n
  PROVE  Cardinality(Carrying(R \ {r}, n)) =
           IF n \in r.lines THEN Cardinality(Carrying(R, n)) - 1 ELSE Cardinality(Carrying(R, n))
<1>1. Carrying(R \ {r}, n) = Carrying(R, n) \ {r}
  BY DEF Carrying
<1>2. r \in Carrying(R, n) <=> n \in r.lines
  BY DEF Carrying
<1>3. Cardinality(Carrying(R, n) \ {r}) =
        IF r \in Carrying(R, n) THEN Cardinality(Carrying(R, n)) - 1 ELSE Cardinality(Carrying(R, n))
  BY Finite, FS_RemoveElement
<1> QED
  BY <1>1, <1>2, <1>3

LEMMA Added ==
  ASSUME NEW R, IsFiniteSet(R), NEW r, NEW n
  PROVE  Cardinality(Carrying(R \cup {r}, n)) <=
           IF n \in r.lines THEN Cardinality(Carrying(R, n)) + 1 ELSE Cardinality(Carrying(R, n))
<1>1. CASE n \in r.lines
  <2>1. Carrying(R \cup {r}, n) = Carrying(R, n) \cup {r}
    BY <1>1 DEF Carrying
  <2>2. Cardinality(Carrying(R, n) \cup {r}) =
          IF r \in Carrying(R, n) THEN Cardinality(Carrying(R, n)) ELSE Cardinality(Carrying(R, n)) + 1
    BY Finite, FS_AddElement
  <2>3. Cardinality(Carrying(R, n)) \in Nat
    BY Finite
  <2>4. Cardinality(Carrying(R, n) \cup {r}) <= Cardinality(Carrying(R, n)) + 1
    BY <2>2, <2>3
  <2>5. Cardinality(Carrying(R \cup {r}, n)) <= Cardinality(Carrying(R, n)) + 1
    BY <2>1, <2>4
  <2> QED
    BY <1>1, <2>5
<1>2. CASE n \notin r.lines
  <2>1. Carrying(R \cup {r}, n) = Carrying(R, n)
    BY <1>2 DEF Carrying
  <2> QED
    BY <1>2, <2>1, Finite
<1> QED
  BY <1>1, <1>2

LEMMA CopiesType ==
  ASSUME Types, NEW n \in Line
  PROVE  Copies(n) \in Nat /\ stored[n] \in Nat /\ stored[n] <= Copies(n)
<1>1. Cardinality(Carrying(requests, n)) \in Nat
  BY Finite DEF Types
<1>2. stored[n] \in Nat
  BY DEF Types
<1> QED
  BY <1>1, <1>2 DEF Copies

LEMMA InvInit == ASSUME TelemetryInit PROVE Inv
<1> USE DEF TelemetryInit, Idle
<1>1. Types
  BY FS_EmptySet DEF Types, Place, Agent, Steps, Busy, Line
<1>2. Places
  BY DEF Places, Reached, Busy
<1>3. Accounted
  BY DEF Accounted, Busy
<1>4. Tries
  BY DEF Tries
<1>5. Counted
  <2>1. \A n \in Line : stored[n] = 0 /\ Cardinality(Carrying(requests, n)) = 0
    BY FS_EmptySet DEF Carrying, Line
  <2> QED
    BY <2>1 DEF Counted, Copies, Busy
<1> QED
  BY <1>1, <1>2, <1>3, <1>4, <1>5 DEF Inv

LEMMA InvImplies == ASSUME Inv PROVE DeliveredOrInDoubt
<1> SUFFICES ASSUME NEW n \in Line
             PROVE  /\ n \in 1 .. log.last => stored[n] > 0 \/ n \in Behind \cup unread \cup Bad
                    /\ stored[n] <= 1 + doubts
  BY DEF DeliveredOrInDoubt
<1>1. ASSUME n \in 1 .. log.last, ~Past(cursor, n)
      PROVE  n \in Behind
  BY <1>1 DEF Behind, Past, Inv, Types, Place, Line
<1>2. stored[n] <= 1 + doubts
  BY CopiesType DEF Inv, Counted, Types
<1> QED
  BY <1>1, <1>2 DEF Inv, Accounted

-----------------------------------------------------------------------------
(* The log *)

\* A step that leaves the requests, the agent and the doubts alone.
LEMMA SameCopies ==
  ASSUME NEW n, UNCHANGED <<requests, stored>>
  PROVE  Copies(n)' = Copies(n)
BY DEF Copies, Carrying

LEMMA WriteLineKeeps ==
  ASSUME Inv, WriteLine
  PROVE  Inv'
<1> USE DEF WriteLine
<1>0. Types /\ Places /\ Accounted /\ Tries /\ Counted
  BY DEF Inv
<1>1. /\ log.inode \in Nat \ {0} /\ log.first \in Nat \ {0} /\ log.last \in Nat
      /\ log'.inode = log.inode /\ log'.first = log.first /\ log'.last = log.last + 1
      /\ log' \in [inode : Nat \ {0}, first : Nat \ {0}, last : Nat]
      /\ log'.last <= LineBound
  BY <1>0 DEF Types
<1>2. Types'
  <2>1. Busy' => agent'.lines \subseteq 1 .. log'.last
    BY <1>0, <1>1 DEF Types, Busy
  <2>2. log'.first <= log'.last + 1
    BY <1>0, <1>1 DEF Types
  <2>3. UNCHANGED <<cursor, agent, requests, node, token, stored, registry, doubts, Busy>>
    BY DEF Busy
  <2> QED
    BY <1>0, <1>1, <2>1, <2>2, <2>3 DEF Types, Line
<1>3. Places'
  BY <1>0, <1>1 DEF Places, Reached, Busy, Types, Place, Agent
<1>4. \A place \in Place : \A n : Past(place, n)' <=> Past(place, n)
  BY <1>1 DEF Past
<1>5. cursor \in Place /\ agent.next \in Place
  BY <1>0 DEF Types, Agent
<1>6. ~Past(cursor, log.last + 1)
  BY <1>0, <1>1, <1>5 DEF Past, Places, Reached, Types, Place
<1>7. Busy => ~Past(agent.next, log.last + 1)
  BY <1>0, <1>1, <1>5 DEF Past, Places, Reached, Types, Place
<1>8. \A n \in 1 .. log'.last : n \in 1 .. log.last \/ n = log.last + 1
  BY <1>1
<1>9. Accounted'
  <2>1. \A n \in 1 .. log'.last : stored[n] > 0 \/ ~Past(cursor, n) \/ n \in unread \cup Bad
    BY <1>0, <1>6, <1>8 DEF Accounted
  <2>2. Busy => \A n \in 1 .. log'.last :
          Past(agent.next, n) => Past(cursor, n) \/ n \in agent.lines \cup Bad \cup unread
    BY <1>0, <1>7, <1>8 DEF Accounted
  <2> QED
    BY <1>0, <1>4, <1>5, <2>1, <2>2 DEF Accounted, Busy, Past
<1>10. Tries'
  BY <1>0 DEF Tries
<1>11. Counted'
  BY <1>0, <1>1, SameCopies DEF Counted, Busy, Past, Line
<1> QED
  BY <1>2, <1>3, <1>9, <1>10, <1>11 DEF Inv

LEMMA RotateKeeps ==
  ASSUME Inv, Rotate
  PROVE  Inv'
<1> USE DEF Rotate
<1>0. Types /\ Places /\ Accounted /\ Tries /\ Counted
  BY DEF Inv
<1>1. /\ log.inode \in Nat \ {0} /\ log.first \in Nat \ {0} /\ log.last \in Nat
      /\ log'.inode = log.inode + 1 /\ log'.first = log.last + 1 /\ log'.last = log.last
      /\ log' \in [inode : Nat \ {0}, first : Nat \ {0}, last : Nat]
      /\ log'.last <= LineBound
  BY <1>0 DEF Types
<1>2. Types'
  <2>1. Busy' => agent'.lines \subseteq 1 .. log'.last
    BY <1>0, <1>1 DEF Types, Busy
  <2> QED
    BY <1>0, <1>1, <2>1 DEF Types, Line
<1>3. Places'
  BY <1>0, <1>1 DEF Places, Reached, Busy, Types, Place, Agent
<1>4. \A n \in 1 .. log.last : Past(cursor, n)' /\ Past(agent.next, n)'
  BY <1>1 DEF Past
<1>5. \A n \in 1 .. log.last : ~Past(cursor, n) => n \in unread'
  BY <1>0, <1>1 DEF Past, Behind, Types, Place
<1>6. Accounted'
  <2>1. \A n \in 1 .. log.last : stored[n] > 0 \/ n \in unread' \cup Bad
    BY <1>0, <1>5 DEF Accounted
  <2> QED
    BY <1>0, <1>1, <1>4, <2>1 DEF Accounted, Busy
<1>7. Tries'
  BY <1>0 DEF Tries
<1>8. Counted'
  <2>1. \A n \in Line : Past(cursor, n) => Past(cursor, n)'
    BY <1>0, <1>1 DEF Past, Places, Reached, Types, Place, Line
  <2>2. Busy => \A n \in agent.lines : Past(agent.next, n)'
    BY <1>0, <1>4 DEF Types
  <2> QED
    BY <1>0, <2>1, <2>2, SameCopies DEF Counted, Busy
<1> QED
  BY <1>2, <1>3, <1>6, <1>7, <1>8 DEF Inv

-----------------------------------------------------------------------------
(* The agent *)

\* Going idle, or beginning to read, forgets nothing that is needed.
LEMMA FreeKeeps ==
  ASSUME Inv, agent' \in Agent, agent'.step \in {"idle", "read"}, doubts' \in Nat,
         UNCHANGED <<log, cursor, node, token, unread, registry, stored>>,
         requests' \subseteq requests,
         \A r \in requests' : r.try < doubts',
         doubts' >= doubts,
         \A n \in Line : Copies(n)' <= Copies(n),
         doubts' = doubts => \A n \in Line : Copies(n)' = doubts + 1 => Past(cursor, n)
  PROVE  Inv'
<1>0. Types /\ Places /\ Accounted /\ Tries /\ Counted
  BY DEF Inv
<1>1. ~Busy' /\ agent'.step \notin {"post", "wait", "save"}
  BY DEF Busy
<1>2. Types'
  <2>1. IsFiniteSet(requests') /\ requests' \subseteq Request
    BY <1>0, FS_Subset DEF Types
  <2> QED
    BY <1>0, <1>1, <2>1 DEF Types, Line
<1>3. Places'
  BY <1>0, <1>1 DEF Places, Reached
<1>4. Accounted'
  BY <1>0, <1>1 DEF Accounted, Past
<1>5. Tries'
  BY <1>0, <1>1 DEF Tries
<1>6. Counted'
  <2> SUFFICES ASSUME NEW n \in Line
               PROVE  Copies(n)' <= doubts' + 1 /\ (Copies(n)' = doubts' + 1 => Past(cursor, n)')
    BY <1>1 DEF Counted, Line
  <2>1. Copies(n) \in Nat /\ Copies(n) <= doubts + 1
    BY <1>0, CopiesType DEF Counted
  <2>4. Copies(n)' \in Nat
    <3>1. stored'[n] \in Nat
      BY <1>0 DEF Types
    <3>2. Cardinality(Carrying(requests', n)) \in Nat
      BY <1>2, Finite DEF Types
    <3> QED
      BY <3>1, <3>2 DEF Copies, Carrying
  <2>2. Past(cursor, n)' <=> Past(cursor, n)
    BY DEF Past
  <2>3. doubts \in Nat
    BY <1>0 DEF Types
  <2> QED
    BY <2>1, <2>2, <2>3, <2>4
<1> QED
  BY <1>2, <1>3, <1>4, <1>5, <1>6 DEF Inv

LEMMA StartKeeps ==
  ASSUME Inv, Start \/ GiveUp
  PROVE  Inv'
<1>0. Types /\ Tries /\ Counted
  BY DEF Inv
<1>1. agent' \in Agent /\ agent'.step \in {"idle", "read"}
  BY DEF Start, GiveUp, Idle, Agent, Steps, Place
<1>2. doubts \in Nat /\ \A r \in requests : r.try \in Nat
  BY <1>0 DEF Types, Request
<1>3. \A n : Copies(n)' = Copies(n)
  BY SameCopies DEF Start, GiveUp
<1>3a. \A n \in Line : Copies(n) \in Nat
  BY <1>0, CopiesType
<1>4. CASE Start
  <2>1. \A r \in requests : r.try < doubts
    BY <1>0, <1>4 DEF Tries, Start
  <2>2. \A n \in Line : Copies(n) = doubts + 1 => Past(cursor, n)
    BY <1>0, <1>4 DEF Counted, Start
  <2> QED
    BY <1>1, <1>2, <1>3, <1>3a, <1>4, <2>1, <2>2, FreeKeeps DEF Start
<1>5. CASE GiveUp
  <2>1. doubts' = doubts + 1
    BY <1>5 DEF GiveUp, Doubt
  <2>2. \A r \in requests : r.try < doubts'
    BY <1>0, <1>2, <2>1 DEF Tries
  <2> QED
    BY <1>1, <1>2, <1>3, <1>3a, <1>5, <2>1, <2>2, FreeKeeps DEF GiveUp
<1> QED
  BY <1>4, <1>5

\* A batch begins where the agent is, and leaves only what is no event before
\* its end.
LEMMA BatchIsPast ==
  ASSUME Inv
  PROVE  LET lines == Read(From)
             next == NextCursor(lines) IN
         /\ lines \subseteq 1 .. log.last
         /\ next \in Place /\ next.line # 0 /\ Reached(next) /\ next.inode = log.inode
         /\ cursor.inode = log.inode => next.line >= cursor.line
         /\ \A n \in lines : Past(next, n) /\ ~Past(cursor, n)
         /\ \A n \in 1 .. log.last : Past(next, n) => Past(cursor, n) \/ n \in lines \cup Skipped
<1> DEFINE lines == Read(From)
           k == Cardinality(lines)
           next == NextCursor(lines)
<1>0. Types /\ Places
  BY DEF Inv
<1>1. /\ From \in Nat \ {0} /\ From <= log.last + 1
      /\ cursor.inode = log.inode => From = cursor.line
      /\ From >= log.first
      /\ cursor.inode \notin {0, log.inode} => From = log.first
  BY <1>0, FromType
<1>2. k \in Nat /\ From + k <= log.last + 1 /\ lines = From .. From + k - 1
  BY <1>0, <1>1, ReadIsPrefix
<1>3. lines \subseteq From .. log.last
  BY DEF Read
<1>4. next = [inode |-> log.inode, line |-> From + k]
  BY DEF NextCursor
<1>5. /\ log.inode \in Nat \ {0} /\ log.first \in Nat \ {0} /\ log.last \in Nat
      /\ cursor.inode \in Nat /\ cursor.line \in Nat
  BY <1>0 DEF Types, Place
<1>6. Skipped = IF cursor.inode = 0 THEN log.first .. From - 1 ELSE {}
  BY DEF Skipped
<1> HIDE DEF lines, k, next
<1>7. lines \subseteq 1 .. log.last
  BY <1>1, <1>3, <1>5
<1>8. /\ next \in Place /\ next.line # 0 /\ Reached(next) /\ next.inode = log.inode
      /\ next.line = From + k
  BY <1>1, <1>2, <1>4, <1>5 DEF Place, Reached
<1>9. cursor.inode = log.inode => next.line >= cursor.line
  BY <1>1, <1>2, <1>8, <1>5
<1>10. ASSUME NEW n \in lines
       PROVE  Past(next, n) /\ ~Past(cursor, n)
  <2>1. n \in Nat /\ From <= n /\ n < From + k /\ n <= log.last
    BY <1>1, <1>2, <1>3, <1>5
  <2>2. Past(next, n)
    BY <2>1, <1>8 DEF Past
  <2>3. ~Past(cursor, n)
    BY <2>1, <1>1, <1>5 DEF Past
  <2> QED
    BY <2>2, <2>3
<1>11. ASSUME NEW n \in 1 .. log.last, Past(next, n), ~Past(cursor, n)
       PROVE  n \in lines \cup Skipped
  <2>1. n \in Nat /\ n >= log.first /\ n < From + k
    BY <1>1, <1>2, <1>5, <1>8, <1>11 DEF Past
  <2>2. CASE n >= From
    BY <2>1, <2>2, <1>1, <1>2
  <2>3. CASE n < From
    <3>1. cursor.inode # log.inode
      BY <2>3, <1>1, <1>5, <1>11 DEF Past
    <3>2. cursor.inode = 0
      BY <3>1, <2>1, <2>3, <1>1, <1>5
    <3> QED
      BY <3>2, <2>1, <2>3, <1>1, <1>5, <1>6
  <2> QED
    BY <2>1, <2>2, <2>3, <1>1
<1> QED
  BY <1>7, <1>8, <1>9, <1>10, <1>11 DEF lines, next

LEMMA ReadBatchKeeps ==
  ASSUME Inv, ReadBatch
  PROVE  Inv'
<1> DEFINE lines == Read(From)
           next == NextCursor(lines)
<1>0. Types /\ Places /\ Accounted /\ Tries /\ Counted
  BY DEF Inv
<1>1. /\ lines \subseteq 1 .. log.last
      /\ next \in Place /\ next.line # 0 /\ Reached(next) /\ next.inode = log.inode
      /\ cursor.inode = log.inode => next.line >= cursor.line
      /\ \A n \in lines : Past(next, n) /\ ~Past(cursor, n)
      /\ \A n \in 1 .. log.last : Past(next, n) => Past(cursor, n) \/ n \in lines \cup Skipped
  BY BatchIsPast
<1>2. /\ agent.step = "read" /\ unread' = unread \cup Skipped
      /\ UNCHANGED <<log, requests, node, token, stored, registry, doubts>>
      /\ \/ agent' = [agent EXCEPT !.step = "post", !.lines = lines \ Bad, !.next = next] /\ cursor' = cursor
         \/ lines \ Bad = {} /\ agent' = Idle /\ cursor' = next
  BY DEF ReadBatch, GoToPost
<1> HIDE DEF lines, next
<1>3. \A place, n : Past(place, n)' <=> Past(place', n)
  BY <1>2 DEF Past
<1>4. \A n \in Line : Copies(n)' = Copies(n) /\ Copies(n) <= doubts + 1
                      /\ (Copies(n) = doubts + 1 => Past(cursor, n))
  BY <1>0, <1>2, SameCopies DEF Counted
<1>5. \A r \in requests : r.try < doubts
  BY <1>0, <1>2 DEF Tries
<1>6. \A n \in Line : Copies(n) \in Nat /\ doubts \in Nat
  BY <1>0, CopiesType DEF Types
<1>7. CASE agent' = [agent EXCEPT !.step = "post", !.lines = lines \ Bad, !.next = next] /\ cursor' = cursor
  <2>1. /\ agent' \in Agent /\ agent'.step = "post"
        /\ agent'.lines = lines \ Bad /\ agent'.next = next
    <3>1. lines \ Bad \in SUBSET Nat
      BY <1>1
    <3> QED
      BY <1>0, <1>1, <1>7, <3>1 DEF Types, Agent, Steps
  <2>2. Types'
    BY <1>0, <1>1, <1>2, <1>7, <2>1 DEF Types, Busy, Line
  <2>3. Places'
    BY <1>0, <1>1, <1>2, <1>7, <2>1 DEF Places, Reached, Busy
  <2>4. Accounted'
    <3>1. \A n \in 1 .. log.last : stored[n] > 0 \/ ~Past(cursor, n) \/ n \in unread' \cup Bad
      BY <1>0, <1>2 DEF Accounted
    <3>2. \A n \in 1 .. log.last :
            Past(next, n) => Past(cursor, n) \/ n \in (lines \ Bad) \cup Bad \cup unread'
      BY <1>1, <1>2
    <3> QED
      BY <1>2, <1>7, <2>1, <3>1, <3>2 DEF Accounted, Past
  <2>5. Tries'
    BY <1>0, <1>2, <1>5, <2>1 DEF Tries
  <2>6. Counted'
    <3>1. \A n \in lines \ Bad : Past(next, n) /\ ~Past(cursor, n)
      BY <1>1
    <3>2. \A n \in Line : n \in lines \ Bad => Copies(n) <= doubts
      BY <1>4, <1>6, <3>1
    <3> QED
      BY <1>2, <1>4, <1>7, <2>1, <3>1, <3>2 DEF Counted, Past, Line
  <2> QED
    BY <2>2, <2>3, <2>4, <2>5, <2>6 DEF Inv
<1>8. CASE lines \ Bad = {} /\ agent' = Idle /\ cursor' = next
  <2>1. agent' \in Agent /\ agent'.step = "idle" /\ ~Busy'
    BY <1>8 DEF Idle, Agent, Steps, Place, Busy
  <2>2. Types'
    BY <1>0, <1>1, <1>2, <1>8, <2>1 DEF Types, Line
  <2>3. Places'
    BY <1>1, <1>2, <1>8, <2>1 DEF Places, Reached
  <2>4. Accounted'
    <3>1. \A n \in 1 .. log.last : stored[n] > 0 \/ ~Past(next, n) \/ n \in unread' \cup Bad
      BY <1>0, <1>1, <1>2, <1>8 DEF Accounted
    <3> QED
      BY <1>2, <1>8, <2>1, <3>1 DEF Accounted, Past
  <2>5. Tries'
    BY <1>0, <1>2, <1>5, <2>1 DEF Tries
  <2>6. Counted'
    <3>1. \A n \in Line : Past(cursor, n) => Past(next, n)
      BY <1>0, <1>1 DEF Past, Types, Place, Line
    <3> QED
      BY <1>2, <1>4, <1>8, <2>1, <3>1 DEF Counted, Past, Line
  <2> QED
    BY <2>2, <2>3, <2>4, <2>5, <2>6 DEF Inv
<1> QED
  BY <1>2, <1>7, <1>8

LEMMA PostKeeps ==
  ASSUME Inv, Post
  PROVE  Inv'
<1> DEFINE r == [lines |-> agent.lines, token |-> token, try |-> doubts, queued |-> FALSE]
<1>0. Types /\ Places /\ Accounted /\ Tries /\ Counted
  BY DEF Inv
<1>1. /\ agent.step = "post" /\ requests' = requests \cup {r}
      /\ agent' = [agent EXCEPT !.step = "wait", !.try = doubts]
      /\ UNCHANGED <<log, cursor, node, token, stored, unread, registry, doubts>>
  BY DEF Post
<1>2. r \in Request /\ r.lines = agent.lines /\ r.try = doubts
  BY <1>0 DEF Types, Agent, Request
<1> HIDE DEF r
<1>3. /\ agent' \in Agent /\ agent'.step = "wait" /\ agent'.try = doubts
      /\ agent'.lines = agent.lines /\ agent'.next = agent.next /\ Busy /\ Busy'
  BY <1>0, <1>1 DEF Types, Agent, Steps, Busy
<1>4. Types'
  <2>1. requests' \subseteq Request /\ IsFiniteSet(requests')
    BY <1>0, <1>1, <1>2, FS_AddElement DEF Types
  <2> QED
    BY <1>0, <1>1, <1>3, <2>1 DEF Types, Line
<1>5. Places'
  BY <1>0, <1>1, <1>3 DEF Places, Reached
<1>6. Accounted'
  BY <1>0, <1>1, <1>3 DEF Accounted, Past
<1>7. Tries'
  <2>1. \A q \in requests : q.try < doubts /\ q.try \in Nat /\ doubts \in Nat
    BY <1>0, <1>1 DEF Tries, Types, Request
  <2>2. \A q \in requests' : q = r \/ q \in requests
    BY <1>1
  <2>3. doubts' = doubts /\ r.try = doubts /\ r.lines = agent.lines
    BY <1>1, <1>2
  <2>4. \A q \in requests' : q.try = doubts => q = r
    BY <2>1, <2>2
  <2>5. \A q1, q2 \in requests' : q1.try = q2.try => q1 = q2
    BY <1>0, <2>1, <2>2, <2>3, <2>4 DEF Tries
  <2>6. \A q \in requests' : q.try < doubts \/ q.try = doubts
    BY <2>1, <2>2, <2>3
  <2>7. doubts <= doubts
    BY <1>0 DEF Types
  <2> QED
    BY <1>3, <2>3, <2>4, <2>5, <2>6, <2>7 DEF Tries
<1>8. Counted'
  <2> SUFFICES ASSUME NEW n \in Line
               PROVE  /\ Copies(n)' <= doubts + 1
                      /\ Copies(n)' = doubts + 1 => Past(cursor, n) \/ n \in agent.lines
    BY <1>0, <1>1, <1>3 DEF Counted, Past, Line
  <2>1. stored[n] \in Nat /\ doubts \in Nat /\ Cardinality(Carrying(requests, n)) \in Nat
    BY <1>0, Finite DEF Types
  <2>2. Cardinality(Carrying(requests', n)) \in Nat
    BY <1>4, Finite DEF Types
  <2>3. Cardinality(Carrying(requests', n)) <=
           IF n \in agent.lines THEN Cardinality(Carrying(requests, n)) + 1 ELSE Cardinality(Carrying(requests, n))
    BY <1>0, <1>1, <1>2, Added DEF Types
  <2>4. Copies(n)' = stored[n] + Cardinality(Carrying(requests', n))
    BY <1>1 DEF Copies, Carrying
  <2>5. /\ Copies(n) = stored[n] + Cardinality(Carrying(requests, n))
        /\ Copies(n) <= doubts + 1
        /\ Copies(n) = doubts + 1 => Past(cursor, n)
        /\ n \in agent.lines => Copies(n) <= doubts
    BY <1>0, <1>1 DEF Counted, Copies
  <2> QED
    BY <2>1, <2>2, <2>3, <2>4, <2>5
<1> QED
  BY <1>4, <1>5, <1>6, <1>7, <1>8 DEF Inv

LEMMA SaveKeeps ==
  ASSUME Inv, Save
  PROVE  Inv'
<1>0. Types /\ Places /\ Accounted /\ Tries /\ Counted
  BY DEF Inv
<1>1. /\ agent.step = "save" /\ Busy /\ cursor' = agent.next
      /\ UNCHANGED <<log, requests, node, token, stored, unread, registry, doubts>>
  BY DEF Save, Busy
<1>2. agent' \in Agent /\ agent'.step \in {"idle", "read"} /\ ~Busy'
  <2>1. agent.round + 1 \in Nat
    BY <1>0 DEF Types, Agent
  <2>2. Idle \in Agent /\ Idle.step = "idle"
    BY DEF Idle, Agent, Steps, Place
  <2>3. /\ [Idle EXCEPT !.step = "read", !.round = agent.round + 1] \in Agent
        /\ [Idle EXCEPT !.step = "read", !.round = agent.round + 1].step = "read"
    BY <2>1, <2>2 DEF Agent, Steps
  <2> QED
    BY <2>2, <2>3 DEF Save, Busy
<1>3. Types'
  BY <1>0, <1>1, <1>2 DEF Types, Places, Agent, Line
<1>4. Places'
  BY <1>0, <1>1, <1>2 DEF Places, Reached
<1>5. Accounted'
  BY <1>0, <1>1, <1>2 DEF Accounted, Past
<1>6. Tries'
  BY <1>0, <1>1, <1>2 DEF Tries
<1>7. Counted'
  <2>1. \A n \in Line : Past(cursor, n) => Past(agent.next, n)
    BY <1>0, <1>1 DEF Past, Places, Types, Place, Agent, Line
  <2>2. \A n \in Line : Copies(n)' = Copies(n)
    BY <1>1, SameCopies
  <2> QED
    BY <1>0, <1>1, <1>2, <2>1, <2>2 DEF Counted, Past, Line
<1> QED
  BY <1>3, <1>4, <1>5, <1>6, <1>7 DEF Inv

-----------------------------------------------------------------------------
(* The controller *)

\* What happens to a request that the agent does not wait for.
LEMMA BesideKeeps ==
  ASSUME Inv,
         UNCHANGED <<log, cursor, agent, node, token, unread, registry>>,
         stored' \in [Line -> Nat], \A n \in Line : stored'[n] >= stored[n],
         requests' \subseteq Request, IsFiniteSet(requests'),
         \A r \in requests' : \E q \in requests : q.try = r.try /\ q.lines = r.lines,
         \A r1, r2 \in requests' : r1.try = r2.try => r1 = r2,
         doubts' \in Nat, doubts' = doubts \/ doubts' = doubts + 1,
         \A n \in Line : Copies(n)' <= Copies(n)
  PROVE  Inv'
<1>0. Types /\ Places /\ Accounted /\ Tries /\ Counted
  BY DEF Inv
<1>1. /\ doubts \in Nat /\ \A n \in Line : stored[n] \in Nat /\ stored'[n] \in Nat
      /\ agent.try \in Nat /\ \A r \in requests : r.try \in Nat
  BY <1>0 DEF Types, Agent, Request
<1>2. Types'
  BY <1>0 DEF Types, Line, Busy
<1>3. Places'
  BY <1>0 DEF Places, Reached, Busy
<1>4. Accounted'
  <2>1. \A n \in 1 .. log.last : n \in Line /\ (stored[n] > 0 => stored'[n] > 0)
    BY <1>0, <1>1 DEF Types, Line
  <2>2. agent.step = "save" => agent.lines \subseteq 1 .. log.last
    BY <1>0 DEF Types, Busy
  <2> QED
    BY <1>0, <2>1, <2>2 DEF Accounted, Past, Busy
<1>5. Tries'
  <2>1. agent.step = "wait" =>
          agent.try <= doubts' /\ \A r \in requests' : r.try = agent.try => r.lines = agent.lines
    BY <1>0, <1>1 DEF Tries
  <2>2. \A r \in requests' : \/ r.try < doubts'
                             \/ agent.step = "wait" /\ agent.try = r.try /\ r.try = doubts'
    BY <1>0, <1>1 DEF Tries
  <2> QED
    BY <2>1, <2>2 DEF Tries
<1>6. Counted'
  <2> SUFFICES ASSUME NEW n \in Line
               PROVE  /\ Copies(n)' <= doubts' + 1
                      /\ Copies(n)' = doubts' + 1 =>
                           Past(cursor, n) \/ (agent.step \in {"wait", "save"} /\ n \in agent.lines)
                      /\ agent.step = "post" /\ n \in agent.lines => Copies(n)' <= doubts'
    BY <1>0 DEF Counted, Past, Line, Busy
  <2>1. Copies(n) \in Nat
    BY <1>0, CopiesType
  <2>2. Copies(n)' \in Nat
    <3>1. Cardinality(Carrying(requests', n)) \in Nat
      BY Finite
    <3> QED
      BY <1>1, <3>1 DEF Copies, Carrying
  <2>3. Copies(n)' <= Copies(n)
    OBVIOUS
  <2>4. /\ Copies(n) <= doubts + 1
        /\ Copies(n) = doubts + 1 =>
             Past(cursor, n) \/ (agent.step \in {"wait", "save"} /\ n \in agent.lines)
        /\ agent.step = "post" /\ n \in agent.lines => Copies(n) <= doubts
    BY <1>0 DEF Counted
  <2> HIDE DEF Copies
  <2> QED
    BY <1>1, <2>1, <2>2, <2>3, <2>4
<1> QED
  BY <1>2, <1>3, <1>4, <1>5, <1>6 DEF Inv

LEMMA AcceptKeeps ==
  ASSUME Inv, NEW r \in requests, Accept(r)
  PROVE  Inv'
<1> DEFINE q == [r EXCEPT !.queued = TRUE]
<1>0. Types /\ Tries
  BY DEF Inv
<1>1. /\ requests' = (requests \ {r}) \cup {q}
      /\ UNCHANGED <<log, cursor, agent, node, token, stored, unread, registry, doubts>>
  BY DEF Accept
<1>2. q \in Request /\ q.lines = r.lines /\ q.try = r.try
  BY <1>0 DEF Types, Request
<1> HIDE DEF q
<1>3. requests \subseteq Request /\ IsFiniteSet(requests) /\ IsFiniteSet(requests \ {r})
  BY <1>0, FS_RemoveElement DEF Types
<1>4. requests' \subseteq Request /\ IsFiniteSet(requests')
  BY <1>1, <1>2, <1>3, FS_AddElement
<1>5. \A x \in requests' : x = q \/ (x \in requests /\ x # r)
  BY <1>1
<1>6. \A x \in requests' : \E y \in requests : y.try = x.try /\ y.lines = x.lines
  BY <1>2, <1>5
<1>7. \A x, y \in requests' : x.try = y.try => x = y
  BY <1>0, <1>2, <1>5 DEF Tries
<1>8. ASSUME NEW n \in Line
      PROVE  Copies(n)' <= Copies(n)
  <2>1. Cardinality(Carrying(requests \ {r}, n)) =
          IF n \in r.lines THEN Cardinality(Carrying(requests, n)) - 1 ELSE Cardinality(Carrying(requests, n))
    BY <1>3, Removed
  <2>2. Cardinality(Carrying(requests', n)) <=
          IF n \in q.lines THEN Cardinality(Carrying(requests \ {r}, n)) + 1
                           ELSE Cardinality(Carrying(requests \ {r}, n))
    BY <1>1, <1>3, Added
  <2>3. /\ Cardinality(Carrying(requests, n)) \in Nat
        /\ Cardinality(Carrying(requests', n)) \in Nat
        /\ stored[n] \in Nat
    BY <1>0, <1>3, <1>4, Finite DEF Types
  <2>4. Cardinality(Carrying(requests', n)) <= Cardinality(Carrying(requests, n))
    BY <1>2, <2>1, <2>2, <2>3
  <2>5. /\ Copies(n)' = stored[n] + Cardinality(Carrying(requests', n))
        /\ Copies(n) = stored[n] + Cardinality(Carrying(requests, n))
    BY <1>1 DEF Copies, Carrying
  <2> QED
    BY <2>3, <2>4, <2>5
<1>9. /\ stored' \in [Line -> Nat] /\ \A n \in Line : stored'[n] >= stored[n]
      /\ doubts' \in Nat /\ doubts' = doubts
  BY <1>0, <1>1 DEF Types
<1> QED
  BY <1>1, <1>4, <1>6, <1>7, <1>8, <1>9, BesideKeeps

\* A request that is gone, without or with its lines stored.
LEMMA GoneCopies ==
  ASSUME Types, NEW r \in requests, requests' = requests \ {r}, NEW n \in Line
  PROVE  /\ stored' = stored => Copies(n)' = IF n \in r.lines THEN Copies(n) - 1 ELSE Copies(n)
         /\ stored'[n] = stored[n] + (IF n \in r.lines THEN 1 ELSE 0) => Copies(n)' = Copies(n)
<1>1. Cardinality(Carrying(requests', n)) =
        IF n \in r.lines THEN Cardinality(Carrying(requests, n)) - 1 ELSE Cardinality(Carrying(requests, n))
  BY Removed DEF Types
<1>2. Cardinality(Carrying(requests, n)) \in Nat /\ stored[n] \in Nat
  BY Finite DEF Types
<1>3. /\ Copies(n)' = stored'[n] + Cardinality(Carrying(requests', n))
      /\ Copies(n) = stored[n] + Cardinality(Carrying(requests, n))
  BY DEF Copies, Carrying
<1> QED
  BY <1>1, <1>2, <1>3

LEMMA GoneRequests ==
  ASSUME Types, Tries, NEW r \in requests, requests' = requests \ {r}
  PROVE  /\ requests' \subseteq Request /\ IsFiniteSet(requests')
         /\ \A x \in requests' : \E y \in requests : y.try = x.try /\ y.lines = x.lines
         /\ \A x, y \in requests' : x.try = y.try => x = y
         /\ Awaited(r) => \A x \in requests' : x.try < doubts
<1>1. requests' \subseteq Request /\ IsFiniteSet(requests')
  BY FS_RemoveElement DEF Types
<1>2. \A x, y \in requests : x.try = y.try => x = y
  BY DEF Tries
<1>3. ASSUME Awaited(r), NEW x \in requests, x # r
      PROVE  x.try < doubts
  BY <1>2, <1>3 DEF Tries, Awaited
<1> QED
  BY <1>1, <1>2, <1>3

LEMMA LostKeeps ==
  ASSUME Inv, NEW r \in requests, Refuse(r) \/ Lose(r)
  PROVE  Inv'
<1>0. Types /\ Tries /\ Counted
  BY DEF Inv
<1>1. /\ requests' = requests \ {r}
      /\ agent' = IF Awaited(r) THEN Idle ELSE agent
      /\ UNCHANGED <<log, cursor, node, token, stored, unread, registry>>
      /\ doubts \in Nat /\ (doubts' = doubts \/ doubts' = doubts + 1)
  BY <1>0 DEF Refuse, Lose, Doubt, Types
<1>2. \A n \in Line : /\ Copies(n)' = IF n \in r.lines THEN Copies(n) - 1 ELSE Copies(n)
                      /\ Copies(n) \in Nat
  BY <1>0, <1>1, GoneCopies, CopiesType
<1>3. /\ requests' \subseteq Request /\ IsFiniteSet(requests')
      /\ \A x \in requests' : \E y \in requests : y.try = x.try /\ y.lines = x.lines
      /\ \A x, y \in requests' : x.try = y.try => x = y
      /\ Awaited(r) => \A x \in requests' : x.try < doubts
  BY <1>0, <1>1, GoneRequests
<1>4. \A x \in requests' : x.try \in Nat
  BY <1>3 DEF Request
<1>5. \A n \in Line : Copies(n)' <= Copies(n)
  BY <1>2
<1>6. doubts' \in Nat /\ doubts' >= doubts
  BY <1>1
<1>7. CASE Awaited(r)
  <2>1. agent' \in Agent /\ agent'.step \in {"idle", "read"}
    BY <1>1, <1>7 DEF Idle, Agent, Steps, Place
  <2>2. \A x \in requests' : x.try < doubts'
    BY <1>1, <1>3, <1>4, <1>7
  <2>3. r.lines = agent.lines
    BY <1>0, <1>7 DEF Tries, Awaited
  <2>4. ASSUME NEW n \in Line, Copies(n)' = doubts + 1
        PROVE  Past(cursor, n)
    <3>1. /\ Copies(n) <= doubts + 1
          /\ Copies(n) = doubts + 1 => Past(cursor, n) \/ n \in agent.lines
      BY <1>0 DEF Counted
    <3> HIDE DEF Copies
    <3> QED
      BY <1>1, <1>2, <2>3, <2>4, <3>1
  <2> QED
    BY <1>1, <1>5, <1>6, <2>1, <2>2, <2>4, FreeKeeps
<1>8. CASE ~Awaited(r)
  <2>1. agent' = agent /\ stored' \in [Line -> Nat] /\ \A n \in Line : stored'[n] >= stored[n]
    BY <1>0, <1>1, <1>8 DEF Types
  <2> QED
    BY <1>1, <1>3, <1>5, <1>6, <2>1, BesideKeeps
<1> QED
  BY <1>7, <1>8

LEMMA IngestKeeps ==
  ASSUME Inv, NEW r \in requests, Ingest(r)
  PROVE  Inv'
<1>0. Types /\ Places /\ Accounted /\ Tries /\ Counted
  BY DEF Inv
<1>1. /\ stored' = [n \in Line |-> stored[n] + IF n \in r.lines THEN 1 ELSE 0]
      /\ requests' = requests \ {r}
      /\ agent' = IF Awaited(r) THEN [agent EXCEPT !.step = "save"] ELSE agent
      /\ UNCHANGED <<log, cursor, node, token, unread, registry, doubts>>
  BY DEF Ingest
<1>2. /\ stored' \in [Line -> Nat]
      /\ \A n \in Line : /\ stored'[n] = stored[n] + (IF n \in r.lines THEN 1 ELSE 0)
                         /\ stored'[n] >= stored[n] /\ stored[n] \in Nat
                         /\ n \in r.lines => stored'[n] > 0
  BY <1>0, <1>1 DEF Types
<1>3. \A n \in Line : Copies(n)' = Copies(n) /\ Copies(n) \in Nat
  BY <1>0, <1>1, <1>2, GoneCopies, CopiesType
<1>4. /\ requests' \subseteq Request /\ IsFiniteSet(requests')
      /\ \A x \in requests' : \E y \in requests : y.try = x.try /\ y.lines = x.lines
      /\ \A x, y \in requests' : x.try = y.try => x = y
      /\ Awaited(r) => \A x \in requests' : x.try < doubts
  BY <1>0, <1>1, GoneRequests
<1>5. CASE Awaited(r)
  <2>1. /\ agent' \in Agent /\ agent'.step = "save" /\ Busy /\ Busy'
        /\ agent'.lines = agent.lines /\ agent'.next = agent.next /\ agent.step = "wait"
    BY <1>0, <1>1, <1>5 DEF Awaited, Types, Agent, Steps, Busy
  <2>2. r.lines = agent.lines /\ agent.lines \subseteq Line
    BY <1>0, <1>5, <2>1 DEF Tries, Awaited, Types, Line
  <2>3. Types'
    BY <1>0, <1>1, <1>2, <1>4, <2>1 DEF Types, Line
  <2>4. Places'
    BY <1>0, <1>1, <2>1 DEF Places, Reached
  <2>5. Accounted'
    <3>0. 1 .. log.last \subseteq Line
      BY <1>0 DEF Types, Line
    <3>1. \A n \in 1 .. log.last : stored[n] > 0 => stored'[n] > 0
      BY <1>2, <3>0
    <3>2. \A n \in agent.lines : stored'[n] > 0
      BY <1>2, <2>2
    <3> QED
      BY <1>0, <1>1, <2>1, <3>1, <3>2 DEF Accounted, Past
  <2>6. Tries'
    BY <1>1, <1>4, <1>5, <2>1 DEF Tries
  <2>7. Counted'
    BY <1>0, <1>1, <1>3, <2>1 DEF Counted, Past, Line
  <2> QED
    BY <2>3, <2>4, <2>5, <2>6, <2>7 DEF Inv
<1>6. CASE ~Awaited(r)
  <2>1. agent' = agent /\ doubts' \in Nat /\ doubts' = doubts
    BY <1>0, <1>1, <1>6 DEF Types
  <2>2. \A n \in Line : Copies(n)' <= Copies(n)
    BY <1>3
  <2> QED
    BY <1>1, <1>2, <1>4, <2>1, <2>2, BesideKeeps
<1> QED
  BY <1>5, <1>6

-----------------------------------------------------------------------------
(* The registration decides who gets in, and nothing that is counted. *)

LEMMA RegisteredKeeps ==
  ASSUME Inv, UpdateNode \/ RotateToken \/ DeleteNode \/ CreateNode \/ Install
  PROVE  Inv'
<1>0. Types /\ Places /\ Accounted /\ Tries /\ Counted
  BY DEF Inv
<1>1. UNCHANGED <<log, cursor, agent, requests, stored, unread, doubts>>
  BY DEF UpdateNode, RotateToken, DeleteNode, CreateNode, Register, Install
<1>2. node' \in [token : Nat, enabled : BOOLEAN] /\ token' \in Nat /\ registry' \in Nat
  <2>0. node \in [token : Nat, enabled : BOOLEAN] /\ token \in Nat /\ registry \in Nat
    BY <1>0 DEF Types
  <2>1. (~node.enabled) \in BOOLEAN
    OBVIOUS
  <2>2. /\ \A b \in BOOLEAN : [node EXCEPT !.enabled = b] \in [token : Nat, enabled : BOOLEAN]
        /\ \A t \in Nat : [node EXCEPT !.token = t] \in [token : Nat, enabled : BOOLEAN]
    BY <2>0
  <2>3. registry + 1 \in Nat /\ registry + 2 \in Nat
    BY <2>0
  <2>4. CASE UpdateNode
    <3>1. /\ node' = [node EXCEPT !.enabled = ~node.enabled]
          /\ registry' = registry + 1 /\ token' = token
      BY <2>4 DEF UpdateNode, Register
    <3>2. [node EXCEPT !.enabled = ~node.enabled] \in [token : Nat, enabled : BOOLEAN]
      BY <2>1, <2>2, Zenon
    <3> QED
      BY <2>0, <2>3, <3>1, <3>2, Zenon
  <2>5. CASE RotateToken
    BY <2>0, <2>2, <2>3, <2>5 DEF RotateToken, Register
  <2>6. CASE DeleteNode
    BY <2>0, <2>3, <2>6 DEF DeleteNode, Register
  <2>7. CASE CreateNode
    BY <2>0, <2>3, <2>7 DEF CreateNode, Register
  <2>8. CASE Install
    BY <2>0, <2>8 DEF Install
  <2> QED
    BY <2>4, <2>5, <2>6, <2>7, <2>8
<1>3. Types'
  BY <1>0, <1>1, <1>2 DEF Types, Busy, Line
<1>4. Places' /\ Accounted' /\ Tries'
  BY <1>0, <1>1 DEF Places, Reached, Accounted, Tries, Past, Busy
<1>5. Counted'
  BY <1>0, <1>1, SameCopies DEF Counted, Past, Busy, Line
<1> QED
  BY <1>3, <1>4, <1>5 DEF Inv

LEMMA InvStep == ASSUME Inv, [TelemetryNext]_telemetryVars PROVE Inv'
<1>1. CASE WriteLine \/ Rotate
  BY <1>1, WriteLineKeeps, RotateKeeps
<1>2. CASE Run \/ GiveUp
  BY <1>2, StartKeeps, ReadBatchKeeps, PostKeeps, SaveKeeps DEF Run
<1>3. CASE Controller \/ \E r \in requests : Lose(r)
  BY <1>3, AcceptKeeps, LostKeeps, IngestKeeps DEF Controller
<1>4. CASE UpdateNode \/ RotateToken \/ DeleteNode \/ CreateNode \/ Install
  BY <1>4, RegisteredKeeps
<1>5. CASE UNCHANGED telemetryVars
  <2>1. Types' /\ Places' /\ Accounted' /\ Tries'
    BY <1>5 DEF telemetryVars, Inv, Types, Places, Reached, Accounted, Tries, Past, Busy, Line
  <2>2. Counted'
    BY <1>5, SameCopies DEF telemetryVars, Inv, Counted, Past, Busy, Line
  <2> QED
    BY <2>1, <2>2 DEF Inv
<1> QED
  BY <1>1, <1>2, <1>3, <1>4, <1>5 DEF TelemetryNext

\* For any log, rotations, batch sizes, losses, repetitions and registrations:
\* a line that is not stored is still before the agent, or was seen to be taken
\* away unread; and one more copy of it is stored than there were doubts, at most.
THEOREM LinesDelivered == TelemetrySpec => []DeliveredOrInDoubt
<1>1. TelemetryInit => Inv
  BY InvInit
<1>2. Inv /\ [TelemetryNext]_telemetryVars => Inv'
  BY InvStep
<1>3. Inv => DeliveredOrInDoubt
  BY InvImplies
<1> QED
  BY <1>1, <1>2, <1>3, PTL DEF TelemetrySpec

-----------------------------------------------------------------------------
(* SignedEvents. *)

USE SignedAssumption

-----------------------------------------------------------------------------
(* DeviceTypes *)

\* The clock starts at one, so that a signed request has a stamp.
DeviceTypes == DevicesTypeOK /\ now # 0

LEMMA DeviceTypesInit == ASSUME DevicesInit PROVE DeviceTypes
<1>1. troubles \in 0 .. TroubleBound
  BY DEF DevicesInit
<1>2. counter \in [seq : Nat, resetAt : Nat]
  BY DEF DevicesInit, NoCounter
<1>3. half \in BOOLEAN
  BY DEF DevicesInit
<1> QED
  BY <1>1, <1>2, <1>3 DEF DevicesInit, DeviceTypes, DevicesTypeOK

\* Every step keeps the types.
LEMMA DeviceTypesStep ==
  ASSUME DeviceTypes, [DevicesNext]_devicesVars
  PROVE  DeviceTypes'
<1> USE DEF DeviceTypes, DevicesTypeOK, history
<1>1. CASE \E k \in Key : RegisterDevice(k)
  BY <1>1 DEF RegisterDevice
<1>2. CASE RevokeDevice
  <2>1. device \in [key : Key, revoked : BOOLEAN]
    BY <1>2 DEF RevokeDevice
  <2> QED
    BY <1>2, <2>1 DEF RevokeDevice
<1>3. CASE ForgetCounter
  BY <1>3 DEF ForgetCounter, NoCounter
<1>4. CASE LeaveHalf
  <2>1. troubles' \in 0 .. TroubleBound
    BY <1>4 DEF LeaveHalf, Trouble
  <2> QED
    BY <1>4, <2>1 DEF LeaveHalf
<1>5. CASE ResetSequence
  BY <1>5 DEF ResetSequence
<1>6. CASE \E skew \in Skews : Sign(skew)
  <2> PICK skew \in Skews : Sign(skew)
    BY <1>6
  <2>1. device \in [key : Key, revoked : BOOLEAN] /\ skew \in Nat
    BY DEF Sign
  <2>2. [key |-> device.key, seq |-> last + 1, ts |-> now + skew] \in Message
    BY <2>1 DEF Message
  <2> QED
    BY <2>2 DEF Sign
<1>7. CASE \E m \in sent : VerifySignedRequest(m)
  <2> PICK m \in sent : VerifySignedRequest(m)
    BY <1>7
  <2>1. m.seq \in Nat
    BY DEF Message
  <2> QED
    BY <2>1 DEF VerifySignedRequest
<1>8. CASE Renumber
  BY <1>8 DEF Renumber
<1>9. CASE Clock
  BY <1>9 DEF Clock
<1>10. CASE UNCHANGED devicesVars
  BY <1>10 DEF devicesVars
<1> QED
  BY <1>1, <1>2, <1>3, <1>4, <1>5, <1>6, <1>7, <1>8, <1>9, <1>10 DEF DevicesNext

\* For any keys, clocks and bounds: the entries, counters and requests keep
\* their types, and what was accepted was sent.
THEOREM DevicesTypesKept == DevicesSpec => []DevicesTypeOK
<1>1. DevicesInit => DeviceTypes
  BY DeviceTypesInit
<1>2. DeviceTypes /\ [DevicesNext]_devicesVars => DeviceTypes'
  BY DeviceTypesStep
<1>3. DeviceTypes => DevicesTypeOK
  BY DEF DeviceTypes
<1> QED
  BY <1>1, <1>2, <1>3, PTL DEF DevicesSpec

-----------------------------------------------------------------------------
(* Replays *)

\* Neither of the two things that undo the promise has happened to the request.
Plain(m) == m \in accepted /\ m \notin ahead /\ m.key \notin revived

\* What is accepted was signed with a registered key, and so is what may come;
KeysKnown ==
  /\ \A m \in accepted : m.key \in used
  /\ device # None => device.key \in used

\* a device whose registration has not forgotten the counter yet has a key
\* under which nothing plain was accepted;
FreshKey == half /\ Trusted => \A m \in accepted : Plain(m) => m.key # device.key

\* and the counter is behind no plain request of the key now trusted.
CounterAhead ==
  Trusted => \A m \in accepted :
    Plain(m) /\ m.key = device.key => m.seq <= counter.seq \/ m.ts <= counter.resetAt

ReplayInv == DeviceTypes /\ KeysKnown /\ FreshKey /\ CounterAhead /\ AcceptedOnce

LEMMA ReplayInit == ASSUME DevicesInit PROVE ReplayInv
BY DeviceTypesInit DEF DevicesInit, ReplayInv, KeysKnown, FreshKey, CounterAhead, AcceptedOnce, Trusted

\* A registration, with a key that is new or now counts as revived.
LEMMA RegisterKeeps ==
  ASSUME ReplayInv, NEW k \in Key, RegisterDevice(k)
  PROVE  KeysKnown' /\ FreshKey' /\ CounterAhead' /\ AcceptedOnce'
<1> USE DEF ReplayInv, RegisterDevice
<1>1. device'.key = k
  OBVIOUS
<1>2. \A m \in accepted' : Plain(m)' => Plain(m) /\ m.key # k
  BY DEF Plain, KeysKnown
<1> QED
  BY <1>1, <1>2 DEF KeysKnown, FreshKey, CounterAhead, AcceptedOnce, Trusted

\* The verification of one request, be it a replay.
LEMMA VerifyKeeps ==
  ASSUME ReplayInv, NEW m \in sent, VerifySignedRequest(m)
  PROVE  KeysKnown' /\ FreshKey' /\ CounterAhead' /\ AcceptedOnce'
<1> USE DEF ReplayInv
<1>1. /\ m \in Message /\ m.seq \in Nat /\ m.ts \in Nat
      /\ counter \in [seq : Nat, resetAt : Nat]
  BY DEF DeviceTypes, DevicesTypeOK, Message
<1>2. /\ Trusted /\ m.key = device.key /\ ~half /\ UNCHANGED <<device, half, ahead, used, revived>>
      /\ m.ts > counter.resetAt /\ m.seq > counter.seq
      /\ accepted' = accepted \cup {m} /\ replayed' = replayed \cup ({m} \cap accepted)
  BY DEF VerifySignedRequest
<1>3. counter'.seq = m.seq /\ counter'.resetAt = counter.resetAt
  BY <1>1 DEF VerifySignedRequest
<1>4. KeysKnown'
  BY <1>2 DEF KeysKnown, Trusted
<1>5. FreshKey'
  BY <1>2 DEF FreshKey
<1>6. CounterAhead'
  <2> SUFFICES ASSUME NEW x \in accepted', Plain(x)', x.key = device.key
               PROVE  x.seq <= m.seq \/ x.ts <= counter.resetAt
    BY <1>2, <1>3 DEF CounterAhead
  <2>1. CASE x = m
    BY <2>1, <1>1
  <2>2. CASE x # m
    <3>1. x \in accepted /\ Plain(x)
      BY <2>2, <1>2 DEF Plain
    <3>2. x.seq \in Nat /\ x.ts \in Nat
      BY <3>1 DEF DeviceTypes, DevicesTypeOK, Message
    <3>3. x.seq <= counter.seq \/ x.ts <= counter.resetAt
      BY <3>1, <1>2 DEF CounterAhead
    <3> QED
      BY <3>2, <3>3, <1>1, <1>2
  <2> QED
    BY <2>1, <2>2
<1>7. AcceptedOnce'
  <2>1. m \in accepted => m \in ahead \/ m.key \in revived
    BY <1>1, <1>2 DEF CounterAhead, Plain
  <2> QED
    BY <2>1, <1>2 DEF AcceptedOnce
<1> QED
  BY <1>4, <1>5, <1>6, <1>7

\* Every step keeps what the counter knows.
LEMMA ReplayStep ==
  ASSUME ReplayInv, [DevicesNext]_devicesVars
  PROVE  ReplayInv'
<1>0. DeviceTypes'
  BY DeviceTypesStep DEF ReplayInv
<1> SUFFICES KeysKnown' /\ FreshKey' /\ CounterAhead' /\ AcceptedOnce'
  BY <1>0 DEF ReplayInv
<1> USE DEF ReplayInv, KeysKnown, FreshKey, CounterAhead, AcceptedOnce, Trusted, Plain, history
<1>1. CASE \E k \in Key : RegisterDevice(k)
  BY <1>1, RegisterKeeps
<1>2. CASE RevokeDevice
  <2>1. device \in [key : Key, revoked : BOOLEAN]
    BY <1>2 DEF RevokeDevice, DeviceTypes, DevicesTypeOK
  <2>2. device'.revoked /\ device'.key = device.key
    BY <2>1, <1>2 DEF RevokeDevice
  <2> QED
    BY <2>1, <2>2, <1>2 DEF RevokeDevice
<1>3. CASE ForgetCounter
  BY <1>3 DEF ForgetCounter
<1>4. CASE LeaveHalf
  BY <1>4 DEF LeaveHalf
<1>5. CASE ResetSequence
  <2>1. counter'.resetAt = now /\ UNCHANGED <<device, half, accepted, replayed, used, revived>>
    BY <1>5 DEF ResetSequence
  <2>2. \A m \in accepted : Plain(m)' => Plain(m) /\ m.ts <= now
    <3>1. \A m \in accepted : m.ts \in Nat
      BY DEF DeviceTypes, DevicesTypeOK, Message
    <3> QED
      BY <3>1, <1>5 DEF ResetSequence, DeviceTypes, DevicesTypeOK
  <2>3. AcceptedOnce'
    BY <1>5 DEF ResetSequence
  <2> QED
    BY <2>1, <2>2, <2>3, <1>5 DEF ResetSequence
<1>6. CASE \E skew \in Skews : Sign(skew)
  BY <1>6 DEF Sign
<1>7. CASE \E m \in sent : VerifySignedRequest(m)
  BY <1>7, VerifyKeeps
<1>8. CASE Renumber
  BY <1>8 DEF Renumber
<1>9. CASE Clock
  BY <1>9 DEF Clock
<1>10. CASE UNCHANGED devicesVars
  BY <1>10 DEF devicesVars
<1> QED
  BY <1>1, <1>2, <1>3, <1>4, <1>5, <1>6, <1>7, <1>8, <1>9, <1>10 DEF DevicesNext

\* For any keys, clocks, messages and bounds: no request is accepted twice,
\* unless its stamp was ahead of a reset or its key was registered once more.
THEOREM EventsAcceptedOnce == DevicesSpec => []AcceptedOnce
<1>1. DevicesInit => ReplayInv
  BY ReplayInit
<1>2. ReplayInv /\ [DevicesNext]_devicesVars => ReplayInv'
  BY ReplayStep
<1>3. ReplayInv => AcceptedOnce
  BY DEF ReplayInv
<1> QED
  BY <1>1, <1>2, <1>3, PTL DEF DevicesSpec
=============================================================================
