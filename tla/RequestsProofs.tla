--------------------------- MODULE RequestsProofs ---------------------------
(***************************************************************************)
(* From a request to the answer to it, and to the archive.  Autopilot's    *)
(* decision never weakens as the evidence grows or as a more eager profile *)
(* is chosen, and a source that repeats one request only climbs until a    *)
(* response to it ends (AutopilotLadder, for every set of requests).  The  *)
(* context of a request is exact, for every list of requests and every     *)
(* window (RequestRisk); and a context that holds more never makes a       *)
(* request look better, nor Autopilot's answer to it milder.  No event is  *)
(* archived or handed to the responses twice, for every log and every      *)
(* window (EventArchive).                                                  *)
(***************************************************************************)
EXTENDS RequestRisk, AutopilotLadder, EventArchive,
        FiniteSetTheorems, SequenceTheorems, WellFoundedInduction, TLAPS

-----------------------------------------------------------------------------
(* Autopilot and AutopilotLadder. *)


\* One request scores at least as much once more is known against its source.
Worse(x, y) ==
  /\ x.risk <= y.risk /\ x.strong <= y.strong /\ x.repeats <= y.repeats
  /\ x.limited => y.limited
  /\ x.challenged => y.challenged
  /\ y.challenged => y.mature

\* More evidence never lowers Autopilot's confidence.
LEMMA ConfidenceMonotone ==
  ASSUME NEW x \in Evidence, NEW y \in Evidence, Worse(x, y)
  PROVE  Confidence(x) \in Int /\ Confidence(y) \in Int /\ Confidence(x) <= Confidence(y)
<1>1. x.risk \in Int /\ y.risk \in Int /\ x.strong \in Int /\ y.strong \in Int
      /\ x.repeats \in Int /\ y.repeats \in Int
  BY DEF Evidence
<1>2. Boost(x) \in Int /\ Boost(y) \in Int /\ Boost(x) <= Boost(y)
  BY <1>1 DEF Evidence, Worse, Boost, AtMost
<1> QED
  BY <1>1, <1>2 DEF Worse, Confidence, AtMost

\* More risk, more strong signals, more earlier blocks or a stronger response
\* already in force never lead autopilotDecisionForEvent to a weaker answer,
\* outside the grace of a challenge.
THEOREM DecisionMonotone ==
  ASSUME NEW p \in Profile, NEW x \in Evidence, NEW y \in Evidence, Worse(x, y),
         x.challenged => x.mature
  PROVE  Strength[Decide(p, x)] <= Strength[Decide(p, y)]
<1>1. Confidence(x) \in Int /\ Confidence(y) \in Int /\ Confidence(x) <= Confidence(y)
  BY ConfidenceMonotone
<1> DEFINE c == Confidence(x)  d == Confidence(y)
<1> HIDE DEF c, d
<1>2. CASE p = "conservative"
  BY <1>1, <1>2 DEF c, d, Decide, Worse, Threshold, Strength
<1>3. CASE p = "balanced"
  BY <1>1, <1>3 DEF c, d, Decide, Worse, Threshold, Strength
<1>4. CASE p = "aggressive"
  BY <1>1, <1>4 DEF c, d, Decide, Worse, Threshold, Strength
<1> QED
  BY <1>2, <1>3, <1>4 DEF Profile

\* "Conservative raises response thresholds and Aggressive lowers them"
\* (HYROVI_SEC.md): on the same evidence the more eager profile never answers
\* with less.
THEOREM ProfilesOrdered ==
  ASSUME NEW p \in Profile, NEW q \in Profile, Eagerness[p] <= Eagerness[q],
         NEW x \in Evidence
  PROVE  Strength[Decide(p, x)] <= Strength[Decide(q, x)]
<1>1. Confidence(x) \in Int
  BY DEF Evidence, Confidence, Boost, AtMost
<1> QED
  BY <1>1 DEF Profile, Eagerness, Decide, Threshold, Strength

\* A challenge in its grace is never turned into a block.
THEOREM GraceKeepsChallenge ==
  ASSUME NEW p \in Profile, NEW x \in Evidence, x.challenged, ~x.mature
  PROVE  Decide(p, x) = "challenge"
  BY DEF Decide
-----------------------------------------------------------------------------
\* What the ladder hands to the decision is evidence of the decision's type.
LEMMA KnownIsEvidence ==
  ASSUME TypeOK
  PROVE  Known \in Evidence /\ Facts(TRUE) \in Evidence
<1>1. /\ request.risk \in Risks /\ request.strong \in StrongCounts /\ repeats \in 0 .. 3
      /\ limited \in BOOLEAN /\ challenged \in BOOLEAN /\ mature \in BOOLEAN
  BY DEF TypeOK
<1>2. request.risk \in 0 .. 100 /\ request.strong \in Nat
  BY <1>1, RequestAssumption, Zenon
<1>3. repeats \in Nat
  BY <1>1
<1> QED
  BY <1>1, <1>2, <1>3 DEF Known, Facts, Evidence

\* Every decision is one of the four answers.
LEMMA DecisionIsAnswer == ASSUME NEW p, NEW x PROVE Decide(p, x) \in Answer
  BY DEF Decide, Answer

\* A source that has not been answered yet satisfies the invariant.
LEMMA InitIInv == ASSUME Init PROVE IInv
<1>1. TypeOK
  <2>1. repeats \in 0 .. 3
    BY DEF Init
  <2>2. /\ limited \in BOOLEAN /\ challenged \in BOOLEAN /\ mature \in BOOLEAN
        /\ blocked \in BOOLEAN /\ eased \in BOOLEAN /\ last \in Answer
    BY Zenon DEF Init, Answer
  <2> QED
    BY <2>1, <2>2 DEF Init, TypeOK
<1>2. Due \in Answer
  BY DecisionIsAnswer DEF Due
<1>3. Strength[Due] >= Strength["observe"]
  BY <1>2 DEF Strength, Answer
<1>4. /\ ~limited /\ ~challenged /\ ~mature /\ ~blocked /\ last = "observe" /\ "observe" # "block"
  BY DEF Init
<1> QED
  BY <1>1, <1>3, <1>4, Zenon DEF IInv, InGrace

\* One request: the invariant is kept, and if nothing ended since the last one
\* the answer is no weaker.  Outside a grace the answer is what was due, and
\* what it puts in force only adds to the evidence.
LEMMA RequestClimbs ==
  ASSUME IInv, Request
  PROVE  /\ IInv'
         /\ ~eased => Strength[last'] >= Strength[last]
         /\ InGrace => ~blocked'
<1> DEFINE answer == Decide(profile, Known)
           x == Facts(TRUE)
           y == Facts(TRUE)'
<1>1. /\ ~blocked
      /\ last' = answer
      /\ limited' = (answer # "block" /\ (limited \/ answer = "rate_limit"))
      /\ challenged' = (answer # "block" /\ (challenged \/ (answer = "challenge" /\ proxied)))
      /\ mature' = (mature /\ challenged')
      /\ blocked' = (answer = "block")
      /\ repeats' = IF answer = "block" THEN AtMost(3, repeats + 1) ELSE repeats
      /\ eased' = (eased /\ InGrace)
      /\ profile' = profile /\ proxied' = proxied /\ request' = request
  BY DEF Request
<1>2. TypeOK /\ answer \in Answer
  BY DecisionIsAnswer DEF IInv
<1>3. Known.challenged = challenged /\ Known.mature = mature
  BY DEF Known, Facts
<1>4. InGrace => answer = "challenge"
  BY <1>3 DEF InGrace, Decide
<1>5. ~InGrace => answer = Decide(profile, x)
  BY <1>3 DEF InGrace, Decide, Known, Facts, Confidence, Boost
<1>6. Due = Decide(profile, x)
  BY DEF Due
<1>7. Due' = Decide(profile, y)
  BY <1>1 DEF Due
<1>8. TypeOK'
  <2>1. /\ limited' \in BOOLEAN /\ challenged' \in BOOLEAN
        /\ mature' \in BOOLEAN /\ blocked' \in BOOLEAN /\ eased' \in BOOLEAN
    BY <1>1, Zenon
  <2>2. repeats' \in 0 .. 3
    BY <1>1, <1>2 DEF TypeOK, AtMost
  <2> QED
    BY <1>1, <1>2, <2>1, <2>2 DEF TypeOK
<1>9. x \in Evidence /\ y \in Evidence
  <2>1. x \in Evidence
    BY <1>2, KnownIsEvidence
  <2>2. x.risk \in 0 .. 100 /\ x.strong \in Nat
    BY <2>1 DEF Evidence
  <2>3. request.risk \in 0 .. 100 /\ request.strong \in Nat
    BY <2>2 DEF Facts
  <2>4. repeats' \in 0 .. 3 /\ limited' \in BOOLEAN /\ challenged' \in BOOLEAN
    BY <1>8 DEF TypeOK
  <2> QED
    BY <1>1, <2>1, <2>3, <2>4 DEF Facts, Evidence
<1>10. answer # "block" => Worse(x, y)
  <2> SUFFICES ASSUME answer # "block" PROVE Worse(x, y)
    OBVIOUS
  <2>1. /\ x.risk = request.risk /\ x.strong = request.strong /\ x.repeats = repeats
        /\ x.limited = limited /\ x.challenged = challenged
        /\ y.risk = request.risk /\ y.strong = request.strong /\ y.repeats = repeats
        /\ y.limited = limited' /\ y.challenged = challenged' /\ y.mature = TRUE
    BY <1>1 DEF Facts
  <2>2. request.risk \in Risks /\ request.strong \in StrongCounts /\ repeats \in 0 .. 3
    BY <1>2 DEF TypeOK
  <2>3. request.risk \in 0 .. 100 /\ request.strong \in Nat
    BY <2>2, RequestAssumption, Zenon
  <2>4. request.risk <= request.risk /\ request.strong <= request.strong /\ repeats <= repeats
    BY <2>2, <2>3
  <2>5. (limited => limited') /\ (challenged => challenged')
    BY <1>1, Zenon
  <2> QED
    BY <2>1, <2>4, <2>5, Zenon DEF Worse
<1>11. answer # "block" => Strength[Due] <= Strength[Due']
  <2>1. profile \in Profile /\ x.mature
    BY <1>2 DEF TypeOK, Facts
  <2> QED
    BY <1>6, <1>7, <1>9, <1>10, <2>1, DecisionMonotone
<1>12. Due \in Answer /\ Due' \in Answer /\ last \in Answer /\ last' \in Answer
  BY <1>1, <1>2, <1>6, <1>7, DecisionIsAnswer DEF TypeOK
<1> HIDE DEF answer, x, y
<1>13. ~eased => Strength[last'] >= Strength[last]
  BY <1>1, <1>4, <1>5, <1>6, <1>12 DEF IInv, Strength, Answer
<1>14. InGrace => ~blocked'
  BY <1>1, <1>4
<1>15. /\ mature' => challenged'
       /\ blocked' => ~limited' /\ ~challenged'
       /\ last' = "block" /\ ~eased' => blocked'
  BY <1>1
<1>16. InGrace' /\ ~eased' => last' = "challenge"
  <2> SUFFICES ASSUME InGrace', ~eased' PROVE answer = "challenge"
    BY <1>1
  <2>1. CASE InGrace
    BY <1>4, <2>1
  <2>2. CASE ~InGrace
    BY <1>1, <2>2 DEF InGrace, IInv
  <2> QED
    BY <2>1, <2>2
<1>17. ~eased' /\ ~blocked' => Strength[Due'] >= Strength[last']
  <2> SUFFICES ASSUME ~eased', ~blocked' PROVE Strength[Due'] >= Strength[last']
    OBVIOUS
  <2>1. CASE InGrace
    <3>1. ~eased /\ ~blocked /\ answer # "block" /\ last' = "challenge" /\ last = "challenge"
      BY <1>1, <1>4, <2>1, Zenon DEF IInv
    <3>2. Strength[Due] >= Strength[last]
      BY <3>1, Zenon DEF IInv
    <3> QED
      BY <1>11, <1>12, <3>1, <3>2 DEF Strength, Answer
  <2>2. CASE ~InGrace
    BY <1>1, <1>5, <1>6, <1>11, <1>12, <2>2 DEF Strength, Answer
  <2> QED
    BY <2>1, <2>2
<1> QED
  BY <1>8, <1>13, <1>14, <1>15, <1>16, <1>17 DEF IInv

\* The end of a response, or of a block's place among the repeats, only has to
\* keep the responses in force consistent.
LEMMA EndKeeps ==
  ASSUME IInv, LimitEnds \/ ChallengeEnds \/ BlockEnds \/ BlockForgotten
  PROVE  IInv' /\ eased' = TRUE /\ last' = last /\ (InGrace => ~blocked')
<1>1. CASE LimitEnds
  BY <1>1 DEF LimitEnds, Eases, IInv, TypeOK, InGrace
<1>2. CASE ChallengeEnds
  BY <1>2 DEF ChallengeEnds, Eases, IInv, TypeOK, InGrace
<1>3. CASE BlockEnds
  BY <1>3 DEF BlockEnds, Eases, IInv, TypeOK, InGrace
<1>4. CASE BlockForgotten
  BY <1>4 DEF BlockForgotten, Eases, inForce, IInv, TypeOK, InGrace
<1> QED
  BY <1>1, <1>2, <1>3, <1>4

\* A grace that passes changes nothing that is due.
LEMMA GraceKeeps ==
  ASSUME IInv, GracePasses
  PROVE  IInv' /\ last' = last /\ ~blocked'
<1>1. /\ profile' = profile /\ proxied' = proxied /\ request' = request /\ limited' = limited
      /\ challenged' = challenged /\ blocked' = blocked /\ repeats' = repeats
      /\ last' = last /\ eased' = eased /\ challenged /\ mature' = TRUE
  BY DEF GracePasses, InGrace
<1>2. Facts(TRUE)' = Facts(TRUE)
  BY <1>1 DEF Facts
<1>3. Due' = Due
  BY <1>1, <1>2 DEF Due
<1> QED
  BY <1>1, <1>3 DEF IInv, TypeOK, InGrace

\* Every step keeps the invariant, weakens no answer without a reason, and
\* honours the grace.
LEMMA NextClimbs ==
  ASSUME IInv, [Next]_vars
  PROVE  IInv' /\ [Request /\ ~eased => Strength[last'] >= Strength[last]]_vars
           /\ [InGrace => ~blocked']_vars
<1>1. last \in Answer
  BY DEF IInv, TypeOK
<1>2. CASE Request
  BY <1>2, RequestClimbs
<1>3. CASE GracePasses
  <2>1. IInv' /\ last' = last /\ ~blocked'
    BY <1>3, GraceKeeps
  <2>2. Strength[last] >= Strength[last]
    BY <1>1 DEF Strength, Answer
  <2> QED
    BY <2>1, <2>2, Zenon
<1>4. CASE LimitEnds \/ ChallengeEnds \/ BlockEnds \/ BlockForgotten
  <2>1. IInv' /\ eased' = TRUE /\ last' = last /\ (InGrace => ~blocked')
    BY <1>4, EndKeeps, Zenon
  <2>2. Strength[last] >= Strength[last]
    BY <1>1 DEF Strength, Answer
  <2> QED
    BY <2>1, <2>2, Zenon
<1>5. CASE UNCHANGED vars
  BY <1>5 DEF vars, inForce, IInv, TypeOK, InGrace, Due, Facts
<1> QED
  BY <1>2, <1>3, <1>4, <1>5 DEF Next

\* As long as no response ended, what a source is due never falls behind what it
\* was answered.
THEOREM Invariant == Spec => []IInv
<1>1. Init => IInv
  BY InitIInv
<1>2. IInv /\ [Next]_vars => IInv'
  BY NextClimbs
<1> QED
  BY <1>1, <1>2, PTL DEF Spec

\* Whatever the request, the answers to it never weaken while it is repeated,
\* unless a response to its source ended since the last of them.
THEOREM LadderOnlyClimbs == Spec => NeverSteppedDown
<1>1. IInv /\ [Next]_vars => [Request /\ ~eased => Strength[last'] >= Strength[last]]_vars
  BY NextClimbs
<1> QED
  BY <1>1, Invariant, PTL DEF Spec, NeverSteppedDown

\* Whatever the request, a challenge in its grace is not followed by a block.
THEOREM LadderHonoursGrace == Spec => GraceHonoured
<1>1. IInv /\ [Next]_vars => [InGrace => ~blocked']_vars
  BY NextClimbs
<1> QED
  BY <1>1, Invariant, PTL DEF Spec, GraceHonoured
-----------------------------------------------------------------------------
(* RequestRisk. *)


Denied == {j \in DOMAIN list : list[j].request.status = "denied"}
Missing == {j \in DOMAIN list : list[j].request.status = "missing"}
OnPath(p) == {j \in DOMAIN list : list[j].request.path = p}
SuspiciousOn(p) == {j \in OnPath(p) : Suspicious(list[j].request)}

\* The requests the counters stand for.
Counted == IF added THEN start .. end ELSE start .. end - 1

Contexts == [requests : Int, denied : Int, missing : Int, uniquePaths : Int, suspiciousPaths : Int]

RiskTypes ==
  /\ list \in Lists
  /\ start \in Nat \ {0} /\ end \in Nat \ {0} /\ start <= end /\ end <= Len(list) + 1
  /\ added \in BOOLEAN /\ (added => end <= Len(list))
  /\ denied \in Int /\ missing \in Int
  /\ pathCounts \in [Path -> Int] /\ suspiciousPathCounts \in [Path -> Int]
  /\ context \in Seq(Contexts) /\ Len(context) = end - 1

CountersRight ==
  /\ denied = Cardinality(Counted \cap Denied)
  /\ missing = Cardinality(Counted \cap Missing)
  /\ \A p \in Path:
       /\ pathCounts[p] = Cardinality(Counted \cap OnPath(p))
       /\ suspiciousPathCounts[p] = Cardinality(Counted \cap SuspiciousOn(p))

\* What was taken out had left the window, and what comes later only makes it older.
LeftBehind == end <= Len(list) => \A j \in 1 .. start - 1: HasLeft(j)

RiskIInv == RiskTypes /\ CountersRight /\ LeftBehind /\ ContextIsExact

-----------------------------------------------------------------------------
\* A window that grows by one request.
LEMMA OneMore ==
  ASSUME NEW a \in Int, NEW b \in Int, a <= b, NEW D
  PROVE  /\ Cardinality((a .. b) \cap D)
              = Cardinality((a .. b - 1) \cap D) + If(b \in D, 1)
         /\ Cardinality((a .. b) \cap D) \in Nat
<1> DEFINE S == (a .. b - 1) \cap D
<1>1. IsFiniteSet(a .. b - 1) /\ IsFiniteSet(a .. b)
  BY FS_Interval
<1>2. IsFiniteSet(S) /\ IsFiniteSet((a .. b) \cap D)
  BY <1>1, FS_Subset
<1>3. Cardinality(S) \in Nat /\ Cardinality((a .. b) \cap D) \in Nat
  BY <1>2, FS_CardinalityType
<1>4. CASE b \in D
  <2>1. (a .. b) \cap D = S \cup {b} /\ b \notin S
    BY <1>4
  <2>2. Cardinality(S \cup {b}) = Cardinality(S) + 1
    BY <1>2, <2>1, FS_AddElement
  <2> QED BY <2>1, <2>2, <1>3, <1>4 DEF If
<1>5. CASE b \notin D
  <2>1. (a .. b) \cap D = S
    BY <1>5
  <2> QED BY <2>1, <1>3, <1>5 DEF If
<1> QED BY <1>4, <1>5

\* A window that loses its oldest request.
LEMMA OneLess ==
  ASSUME NEW a \in Int, NEW b \in Int, a <= b, NEW D
  PROVE  Cardinality((a + 1 .. b) \cap D)
           = Cardinality((a .. b) \cap D) + If(a \in D, -1)
<1> DEFINE S == (a + 1 .. b) \cap D
<1>1. IsFiniteSet(a + 1 .. b)
  BY FS_Interval
<1>2. IsFiniteSet(S)
  BY <1>1, FS_Subset
<1>3. Cardinality(S) \in Nat
  BY <1>2, FS_CardinalityType
<1>4. CASE a \in D
  <2>1. (a .. b) \cap D = S \cup {a} /\ a \notin S
    BY <1>4
  <2>2. Cardinality(S \cup {a}) = Cardinality(S) + 1
    BY <1>2, <2>1, FS_AddElement
  <2> QED BY <2>1, <2>2, <1>3, <1>4 DEF If
<1>5. CASE a \notin D
  <2>1. (a .. b) \cap D = S
    BY <1>5
  <2> QED BY <2>1, <1>3, <1>5 DEF If
<1> QED BY <1>4, <1>5
-----------------------------------------------------------------------------
\* The elements of a sequence over a set.
LEMMA ElementsOfSeq ==
  ASSUME NEW S, NEW s \in Seq(S)
  PROVE  \A i \in 1 .. Len(s): s[i] \in S
  OBVIOUS

\* Requests of a list in the invariant.
LEMMA ListTyped ==
  ASSUME RiskTypes
  PROVE  /\ list \in Seq([time : Nat, request : RequestKinds]) /\ Len(list) \in Nat
         /\ DOMAIN list = 1 .. Len(list)
         /\ \A i \in 1 .. Len(list):
              /\ list[i].time \in Nat
              /\ list[i].request \in RequestKinds /\ list[i].request.path \in Path
         /\ \A i, j \in 1 .. Len(list): i <= j => list[i].time <= list[j].time
         /\ ContextWindow \in Nat /\ IsFiniteSet(Path)
<1>1. /\ list \in Seq([time : Nat, request : RequestKinds])
      /\ ContextWindow \in Nat /\ IsFiniteSet(Path)
      /\ RequestKinds \subseteq [path : Path, status : Status, signals : SUBSET Signal, rules : Nat]
      /\ \A i, j \in DOMAIN list: i <= j => list[i].time <= list[j].time
  BY RiskAssumption DEF RiskTypes
<1>2. Len(list) \in Nat /\ DOMAIN list = 1 .. Len(list)
  BY <1>1
<1>3. \A i \in 1 .. Len(list): list[i] \in [time : Nat, request : RequestKinds]
  BY <1>1, <1>2, ElementsOfSeq
<1>4. \A i \in 1 .. Len(list): list[i].time \in Nat /\ list[i].request \in RequestKinds
  BY <1>3
<1>5. \A r \in RequestKinds: r.path \in Path
  BY <1>1
<1> QED
  BY <1>1, <1>2, <1>4, <1>5

\* The counters of an empty window.
LEMMA RiskInitHolds == RiskInit => RiskIInv
<1> SUFFICES ASSUME RiskInit PROVE RiskIInv
  OBVIOUS
<1>1. list \in Seq([time : Nat, request : RequestKinds])
  BY RiskAssumption DEF RiskInit
<1>2. RiskTypes
  <2>1. Len(list) \in Nat /\ list \in Lists
    BY <1>1 DEF RiskInit
  <2>2. start = 1 /\ end = 1 /\ added = FALSE /\ denied = 0 /\ missing = 0
    BY DEF RiskInit
  <2>3. pathCounts \in [Path -> Int] /\ suspiciousPathCounts \in [Path -> Int]
    BY DEF RiskInit
  <2>4. context \in Seq(Contexts) /\ Len(context) = 0
    BY DEF RiskInit
  <2>5. start <= end /\ end <= Len(list) + 1 /\ start \in Nat \ {0} /\ end \in Nat \ {0}
    BY <2>1, <2>2
  <2>6. denied \in Int /\ missing \in Int
    BY DEF RiskInit
  <2>8. added \in BOOLEAN /\ (added => end <= Len(list))
    BY DEF RiskInit
  <2>7. Len(context) = end - 1
    BY <2>2, <2>4
  <2> QED BY <2>1, <2>3, <2>4, <2>5, <2>6, <2>7, <2>8 DEF RiskTypes
<1>3. Counted = {}
  BY DEF RiskInit, Counted
<1>4. \A D: Cardinality(Counted \cap D) = 0
  BY <1>3, FS_EmptySet
<1>5. CountersRight
  BY <1>4 DEF CountersRight, RiskInit
<1>6. LeftBehind
  BY DEF RiskInit, LeftBehind
<1>7. ContextIsExact
  BY DEF RiskInit, ContextIsExact
<1> QED
  BY <1>2, <1>5, <1>6, <1>7 DEF RiskIInv

\* Counting a request in, or out, changes the four counters as it changes the window.
LEMMA CountRight ==
  ASSUME RiskIInv, NEW k \in DOMAIN list, NEW n \in {1, -1}, Count(list[k].request, n),
         list' = list,
         \A D: Cardinality(Counted' \cap D) = Cardinality(Counted \cap D) + If(k \in D, n)
  PROVE  /\ CountersRight'
         /\ denied' \in Int /\ missing' \in Int
         /\ pathCounts' \in [Path -> Int] /\ suspiciousPathCounts' \in [Path -> Int]
<1> DEFINE r == list[k].request
<1>1. r.path \in Path
  BY ListTyped DEF RiskIInv
<1>2. Denied' = Denied /\ Missing' = Missing
  BY DEF Denied, Missing
<1>3. \A p \in Path: (OnPath(p))' = OnPath(p) /\ (SuspiciousOn(p))' = SuspiciousOn(p)
  BY DEF OnPath, SuspiciousOn
<1>4. /\ denied \in Int /\ missing \in Int
      /\ pathCounts \in [Path -> Int] /\ suspiciousPathCounts \in [Path -> Int]
  BY DEF RiskIInv, RiskTypes
<1>5. \A c \in BOOLEAN: If(c, n) \in Int
  BY DEF If
<1>6. k \in Denied <=> r.status = "denied"
  BY DEF Denied
<1>7. k \in Missing <=> r.status = "missing"
  BY DEF Missing
<1>8. denied' = Cardinality(Counted' \cap Denied') /\ denied' \in Int
  <2>1. denied' = denied + If(r.status = "denied", n)
    BY DEF Count
  <2>2. denied = Cardinality(Counted \cap Denied)
    BY DEF RiskIInv, CountersRight
  <2> QED BY <2>1, <2>2, <1>2, <1>4, <1>5, <1>6 DEF If
<1>9. missing' = Cardinality(Counted' \cap Missing') /\ missing' \in Int
  <2>1. missing' = missing + If(r.status = "missing", n)
    BY DEF Count
  <2>2. missing = Cardinality(Counted \cap Missing)
    BY DEF RiskIInv, CountersRight
  <2> QED BY <2>1, <2>2, <1>2, <1>4, <1>5, <1>7 DEF If
<1>10. /\ pathCounts' = [pathCounts EXCEPT ![r.path] = @ + n]
       /\ suspiciousPathCounts' = [suspiciousPathCounts EXCEPT ![r.path] = @ + If(Suspicious(r), n)]
  BY DEF Count
<1>11. pathCounts' \in [Path -> Int]
  BY <1>1, <1>4, <1>10
<1>12. suspiciousPathCounts' \in [Path -> Int]
  <2>1. If(Suspicious(r), n) \in Int
    BY DEF If
  <2> QED BY <2>1, <1>1, <1>4, <1>10
<1>13. ASSUME NEW p \in Path
       PROVE  /\ pathCounts'[p] = Cardinality(Counted' \cap OnPath(p))
              /\ suspiciousPathCounts'[p] = Cardinality(Counted' \cap SuspiciousOn(p))
  <2>1. /\ pathCounts[p] = Cardinality(Counted \cap OnPath(p))
        /\ suspiciousPathCounts[p] = Cardinality(Counted \cap SuspiciousOn(p))
        /\ pathCounts[p] \in Int /\ suspiciousPathCounts[p] \in Int
    BY <1>4 DEF RiskIInv, CountersRight
  <2>2. k \in OnPath(p) <=> r.path = p
    BY DEF OnPath
  <2>3. k \in SuspiciousOn(p) <=> (r.path = p /\ Suspicious(r))
    BY DEF OnPath, SuspiciousOn
  <2>4. pathCounts'[p] = pathCounts[p] + If(k \in OnPath(p), n)
    BY <1>1, <1>4, <1>10, <2>1, <2>2 DEF If
  <2>5. suspiciousPathCounts'[p] = suspiciousPathCounts[p] + If(k \in SuspiciousOn(p), n)
    <3>1. CASE r.path = p
      BY <1>1, <1>4, <1>10, <2>1, <2>3, <3>1 DEF If
    <3>2. CASE r.path # p
      BY <1>1, <1>4, <1>10, <2>1, <2>3, <3>2 DEF If
    <3> QED BY <3>1, <3>2
  <2> QED BY <2>1, <2>4, <2>5
<1>14. \A p \in Path: /\ pathCounts'[p] = Cardinality(Counted' \cap (OnPath(p))')
                      /\ suspiciousPathCounts'[p] = Cardinality(Counted' \cap (SuspiciousOn(p))')
  BY <1>3, <1>13
<1> QED
  BY <1>8, <1>9, <1>11, <1>12, <1>14 DEF CountersRight

\* What is recent to a request depends on the list alone,
LEMMA ExactStays ==
  ASSUME list' = list
  PROVE  \A i: (Exact(i))' = Exact(i)
<1>1. \A i: (Recent(i))' = Recent(i)
  BY DEF Recent
<1> QED
  BY <1>1 DEF Exact

\* and the contexts already set stay what they are.
LEMMA ExactKept ==
  ASSUME ContextIsExact, list' = list, context' = context
  PROVE  ContextIsExact'
  BY ExactStays DEF ContextIsExact

\* addToWindow of the request the pass is at.
LEMMA AddKeeps == ASSUME RiskIInv, AddToWindow PROVE RiskIInv'
<1>1. /\ end <= Len(list) /\ ~added /\ added' = TRUE /\ Count(list[end].request, 1)
      /\ list' = list /\ start' = start /\ end' = end /\ context' = context
  BY DEF AddToWindow
<1>2. RiskTypes /\ start \in Int /\ end \in Int /\ start <= end /\ end \in DOMAIN list
  BY <1>1, ListTyped DEF RiskIInv, RiskTypes
<1>3. Counted = start .. end - 1 /\ Counted' = start .. end
  BY <1>1 DEF Counted
<1>4. \A D: Cardinality(Counted' \cap D) = Cardinality(Counted \cap D) + If(end \in D, 1)
  BY <1>2, <1>3, OneMore
<1>5. /\ CountersRight' /\ denied' \in Int /\ missing' \in Int
      /\ pathCounts' \in [Path -> Int] /\ suspiciousPathCounts' \in [Path -> Int]
  BY <1>1, <1>2, <1>4, CountRight
<1>6. RiskTypes'
  BY <1>1, <1>2, <1>5 DEF RiskTypes
<1>7. LeftBehind'
  BY <1>1 DEF RiskIInv, LeftBehind, HasLeft
<1>8. ContextIsExact'
  BY <1>1, ExactKept DEF RiskIInv
<1> QED
  BY <1>5, <1>6, <1>7, <1>8 DEF RiskIInv

\* removeFromWindow of the oldest one, which is older than the window; the request the
\* pass is at never is.
LEMMA RemoveKeeps == ASSUME RiskIInv, RemoveFromWindow PROVE RiskIInv'
<1>1. /\ added /\ start <= end /\ HasLeft(start) /\ Count(list[start].request, -1)
      /\ start' = start + 1
      /\ list' = list /\ end' = end /\ added' = added /\ context' = context
  BY DEF RemoveFromWindow
<1>2. /\ RiskTypes /\ start \in Nat \ {0} /\ end \in Nat \ {0} /\ end <= Len(list)
      /\ DOMAIN list = 1 .. Len(list) /\ Len(list) \in Nat
  BY <1>1, ListTyped DEF RiskIInv, RiskTypes
<1>3. start # end
  <2>1. list[end].time \in Nat /\ ContextWindow \in Nat
    BY <1>2, ListTyped
  <2>2. ~HasLeft(end)
    BY <2>1 DEF HasLeft
  <2> QED BY <1>1, <2>2
<1>4. Counted = start .. end /\ Counted' = start + 1 .. end
  BY <1>1 DEF Counted
<1>5. \A D: Cardinality(Counted' \cap D) = Cardinality(Counted \cap D) + If(start \in D, -1)
  BY <1>1, <1>2, <1>4, OneLess
<1>6. start \in DOMAIN list
  BY <1>1, <1>2
<1>7. /\ CountersRight' /\ denied' \in Int /\ missing' \in Int
      /\ pathCounts' \in [Path -> Int] /\ suspiciousPathCounts' \in [Path -> Int]
  BY <1>1, <1>5, <1>6, CountRight
<1>8. RiskTypes'
  BY <1>1, <1>2, <1>3, <1>7 DEF RiskTypes
<1>9. LeftBehind'
  <2>1. \A j \in 1 .. start - 1: HasLeft(j)
    BY <1>2 DEF RiskIInv, LeftBehind
  <2>2. \A j \in 1 .. start: HasLeft(j)
    BY <1>1, <1>2, <2>1
  <2>3. \A j \in 1 .. start' - 1: HasLeft(j)
    BY <1>1, <1>2, <2>2
  <2> QED BY <1>1, <2>3 DEF LeftBehind, HasLeft
<1>10. ContextIsExact'
  BY <1>1, ExactKept DEF RiskIInv
<1> QED
  BY <1>7, <1>8, <1>9, <1>10 DEF RiskIInv

-----------------------------------------------------------------------------
\* When nothing more leaves the window, it is what is recent to the request.
LEMMA WindowIsRecent ==
  ASSUME RiskIInv, added, ~HasLeft(start)
  PROVE  Recent(end) = start .. end
<1>1. /\ RiskTypes /\ start \in Nat \ {0} /\ end \in Nat \ {0} /\ start <= end /\ end <= Len(list)
  BY DEF RiskIInv, RiskTypes
<1>2. /\ ContextWindow \in Nat /\ Len(list) \in Nat
      /\ \A i \in 1 .. Len(list): list[i].time \in Nat
      /\ \A i, j \in 1 .. Len(list): i <= j => list[i].time <= list[j].time
  BY <1>1, ListTyped
<1>3. \A j \in 1 .. start - 1: ~(list[end].time - list[j].time <= ContextWindow)
  <2> TAKE j \in 1 .. start - 1
  <2>1. list[end].time - list[j].time > ContextWindow
    BY <1>1 DEF RiskIInv, LeftBehind, HasLeft
  <2>2. list[end].time \in Nat /\ list[j].time \in Nat
    BY <1>1, <1>2
  <2> QED BY <1>2, <2>1, <2>2
<1>4. \A j \in start .. end: list[end].time - list[j].time <= ContextWindow
  <2> TAKE j \in start .. end
  <2>1. list[start].time <= list[j].time
    BY <1>1, <1>2
  <2>2. list[end].time \in Nat /\ list[j].time \in Nat /\ list[start].time \in Nat
    BY <1>1, <1>2
  <2>3. ~(list[end].time - list[start].time > ContextWindow)
    BY DEF HasLeft
  <2> QED BY <1>2, <2>1, <2>2, <2>3
<1> QED
  BY <1>1, <1>3, <1>4 DEF Recent

\* The paths whose counter is not zero are those of the requests counted.
LEMMA PresentPaths ==
  ASSUME RiskIInv, added
  PROVE  /\ Present(pathCounts) = {list[j].request.path : j \in start .. end}
         /\ Present(suspiciousPathCounts) =
              {list[j].request.path : j \in {k \in start .. end : Suspicious(list[k].request)}}
<1>1. /\ RiskTypes /\ start \in Nat \ {0} /\ end \in Nat \ {0} /\ end <= Len(list)
      /\ DOMAIN list = 1 .. Len(list) /\ Len(list) \in Nat
      /\ \A i \in 1 .. Len(list): list[i].request.path \in Path
  BY ListTyped DEF RiskIInv, RiskTypes
<1>2. start .. end \subseteq DOMAIN list
  BY <1>1
<1>3. \A D: /\ Cardinality((start .. end) \cap D) \in Nat
            /\ Cardinality((start .. end) \cap D) > 0 <=> (start .. end) \cap D # {}
  <2> TAKE D
  <2>1. IsFiniteSet((start .. end) \cap D)
    <3>1. IsFiniteSet(start .. end)
      BY <1>1, FS_Interval
    <3> QED BY <3>1, FS_Subset
  <2>2. Cardinality((start .. end) \cap D) \in Nat
    BY <2>1, FS_CardinalityType
  <2>3. Cardinality((start .. end) \cap D) = 0 <=> (start .. end) \cap D = {}
    BY <2>1, FS_EmptySet
  <2> QED BY <2>2, <2>3
<1>4. \A p \in Path:
        /\ pathCounts[p] = Cardinality((start .. end) \cap OnPath(p))
        /\ suspiciousPathCounts[p] = Cardinality((start .. end) \cap SuspiciousOn(p))
  BY DEF RiskIInv, CountersRight, Counted
<1>5. \A p \in Path:
        /\ pathCounts[p] > 0 <=> \E j \in start .. end: list[j].request.path = p
        /\ suspiciousPathCounts[p] > 0 <=>
             \E j \in start .. end: list[j].request.path = p /\ Suspicious(list[j].request)
  <2> TAKE p \in Path
  <2>1. (start .. end) \cap OnPath(p) # {} <=> \E j \in start .. end: list[j].request.path = p
    BY <1>2 DEF OnPath
  <2>2. (start .. end) \cap SuspiciousOn(p) # {} <=>
          \E j \in start .. end: list[j].request.path = p /\ Suspicious(list[j].request)
    BY <1>2 DEF OnPath, SuspiciousOn
  <2> QED BY <1>3, <1>4, <2>1, <2>2
<1>6. \A j \in start .. end: list[j].request.path \in Path
  BY <1>1, <1>2
<1> QED
  BY <1>5, <1>6 DEF Present

\* contextByIndex.set: the counters are what is recent to the request.
LEMMA SetKeeps == ASSUME RiskIInv, SetContext PROVE RiskIInv'
<1> DEFINE c == [requests |-> end - start + 1, denied |-> denied, missing |-> missing,
                 uniquePaths |-> Cardinality(Present(pathCounts)),
                 suspiciousPaths |-> Cardinality(Present(suspiciousPathCounts))]
<1>1. /\ added /\ ~(start <= end /\ HasLeft(start)) /\ added' = FALSE
      /\ context' = Append(context, c) /\ end' = end + 1
      /\ list' = list /\ start' = start /\ denied' = denied /\ missing' = missing
      /\ pathCounts' = pathCounts /\ suspiciousPathCounts' = suspiciousPathCounts
  BY DEF SetContext
<1>2. /\ RiskTypes /\ start \in Nat \ {0} /\ end \in Nat \ {0} /\ start <= end /\ end <= Len(list)
      /\ Len(list) \in Nat /\ DOMAIN list = 1 .. Len(list)
      /\ denied \in Int /\ missing \in Int
      /\ context \in Seq(Contexts) /\ Len(context) = end - 1
  BY <1>1, ListTyped DEF RiskIInv, RiskTypes
<1>3. added /\ ~HasLeft(start)
  BY <1>1, <1>2
<1>4. Recent(end) = start .. end
  BY <1>3, WindowIsRecent
<1>5. Counted = start .. end
  BY <1>1 DEF Counted
<1>6. c.requests = Cardinality(Recent(end))
  BY <1>2, <1>4, FS_Interval
<1>7. /\ denied = Cardinality({j \in Recent(end) : list[j].request.status = "denied"})
      /\ missing = Cardinality({j \in Recent(end) : list[j].request.status = "missing"})
  <2>1. /\ (start .. end) \cap Denied = {j \in Recent(end) : list[j].request.status = "denied"}
        /\ (start .. end) \cap Missing = {j \in Recent(end) : list[j].request.status = "missing"}
    BY <1>2, <1>4 DEF Denied, Missing
  <2> QED BY <1>5, <2>1 DEF RiskIInv, CountersRight
<1>8. /\ Present(pathCounts) = {list[j].request.path : j \in Recent(end)}
      /\ Present(suspiciousPathCounts) =
           {list[j].request.path : j \in {k \in Recent(end) : Suspicious(list[k].request)}}
  BY <1>3, <1>4, PresentPaths
<1>9. c = Exact(end)
  BY <1>6, <1>7, <1>8 DEF Exact
<1>10. c \in Contexts
  <2>1. \A S \in {pathCounts, suspiciousPathCounts}: Cardinality(Present(S)) \in Int
    <3> TAKE S \in {pathCounts, suspiciousPathCounts}
    <3>1. IsFiniteSet(Path)
      BY <1>2, ListTyped
    <3>2. IsFiniteSet(Present(S))
      BY <3>1, FS_Subset DEF Present
    <3> QED BY <3>2, FS_CardinalityType
  <2>2. end - start + 1 \in Int
    BY <1>2
  <2> QED BY <1>2, <2>1, <2>2 DEF Contexts
<1> HIDE DEF c
<1>11. /\ context' \in Seq(Contexts) /\ Len(context') = end
       /\ context'[end] = c /\ \A i \in 1 .. end - 1: context'[i] = context[i]
  BY <1>1, <1>2, <1>10
<1>12. RiskTypes'
  <2>1. start' <= end' /\ end' <= Len(list') + 1 /\ end' \in Nat \ {0} /\ Len(context') = end' - 1
    BY <1>1, <1>2, <1>11
  <2> QED BY <1>1, <1>2, <1>11, <2>1 DEF RiskTypes
<1>13. CountersRight'
  <2>1. Counted' = start .. end
    <3>1. Counted' = start' .. end' - 1
      BY <1>1 DEF Counted
    <3> QED BY <1>1, <1>2, <3>1
  <2>2. Denied' = Denied /\ Missing' = Missing
    BY <1>1 DEF Denied, Missing
  <2>3. \A p \in Path: (OnPath(p))' = OnPath(p) /\ (SuspiciousOn(p))' = SuspiciousOn(p)
    BY <1>1 DEF OnPath, SuspiciousOn
  <2> QED BY <1>1, <1>5, <2>1, <2>2, <2>3 DEF RiskIInv, CountersRight
<1>14. LeftBehind'
  <2> SUFFICES ASSUME end + 1 <= Len(list), NEW j \in 1 .. start - 1
               PROVE  list[end + 1].time - list[j].time > ContextWindow
    BY <1>1 DEF LeftBehind, HasLeft
  <2>1. list[end].time - list[j].time > ContextWindow
    BY <1>2 DEF RiskIInv, LeftBehind, HasLeft
  <2>2. /\ \A i \in 1 .. Len(list): list[i].time \in Nat
        /\ \A i, k \in 1 .. Len(list): i <= k => list[i].time <= list[k].time
        /\ ContextWindow \in Nat
    BY <1>2, ListTyped
  <2>3. end + 1 \in 1 .. Len(list) /\ end \in 1 .. Len(list) /\ j \in 1 .. Len(list) /\ end <= end + 1
    BY <1>2
  <2>4. list[end].time <= list[end + 1].time
    BY <2>2, <2>3
  <2>5. list[end].time \in Nat /\ list[end + 1].time \in Nat /\ list[j].time \in Nat
    BY <2>2, <2>3
  <2>6. ContextWindow \in Nat
    BY <2>2
  <2> QED BY <2>1, <2>4, <2>5, <2>6
<1>15. ContextIsExact'
  <2>1. \A i: (Exact(i))' = Exact(i)
    BY <1>1, ExactStays
  <2>2. \A i \in 1 .. end - 1: context[i] = Exact(i)
    BY <1>2 DEF RiskIInv, ContextIsExact
  <2>3. \A i \in 1 .. end: context'[i] = Exact(i)
    <3> TAKE i \in 1 .. end
    <3>1. CASE i = end
      BY <1>9, <1>11, <3>1
    <3>2. CASE i # end
      <4>1. i \in 1 .. end - 1
        BY <1>2, <3>2
      <4> QED BY <1>11, <2>2, <4>1
    <3> QED BY <3>1, <3>2
  <2> QED BY <1>11, <2>1, <2>3 DEF ContextIsExact
<1> QED
  BY <1>12, <1>13, <1>14, <1>15 DEF RiskIInv

\* The counters of the pass are those of the window, and every context is exact: for
\* every list of requests, and whatever the window.
THEOREM ContextsExact == RiskSpec => []ContextIsExact
<1>1. RiskIInv /\ [RiskNext]_riskVars => RiskIInv'
  <2> SUFFICES ASSUME RiskIInv, [RiskNext]_riskVars PROVE RiskIInv'
    OBVIOUS
  <2>1. CASE AddToWindow
    BY <2>1, AddKeeps
  <2>2. CASE RemoveFromWindow
    BY <2>2, RemoveKeeps
  <2>3. CASE SetContext
    BY <2>3, SetKeeps
  <2>4. CASE UNCHANGED riskVars
    <3>1. /\ list' = list /\ start' = start /\ end' = end /\ added' = added
          /\ denied' = denied /\ missing' = missing /\ pathCounts' = pathCounts
          /\ suspiciousPathCounts' = suspiciousPathCounts /\ context' = context
      BY <2>4 DEF riskVars
    <3>2. RiskTypes'
      BY <3>1 DEF RiskIInv, RiskTypes
    <3>3. CountersRight'
      BY <3>1 DEF RiskIInv, CountersRight, Counted, Denied, Missing, OnPath, SuspiciousOn
    <3>4. LeftBehind'
      BY <3>1 DEF RiskIInv, LeftBehind, HasLeft
    <3>5. ContextIsExact'
      BY <3>1, ExactKept DEF RiskIInv
    <3> QED BY <3>2, <3>3, <3>4, <3>5 DEF RiskIInv
  <2> QED BY <2>1, <2>2, <2>3, <2>4 DEF RiskNext
<1>2. RiskIInv => ContextIsExact
  BY DEF RiskIInv
<1> QED
  BY <1>1, <1>2, RiskInitHolds, PTL DEF RiskSpec

-----------------------------------------------------------------------------
\* One context holds at least what another holds.
Busier(c, d) ==
  /\ c.requests <= d.requests /\ c.denied <= d.denied /\ c.missing <= d.missing
  /\ c.uniquePaths <= d.uniquePaths /\ c.suspiciousPaths <= d.suspiciousPaths

\* More of the same from a source never makes a request of it look better: each of the
\* signals enrichEvents adds stays, the crawler attack among them.
THEOREM BusierIsNoBetter ==
  ASSUME NEW r \in [path : Path, status : Status, signals : SUBSET Signal, rules : Nat],
         NEW c \in Contexts, NEW d \in Contexts, Busier(c, d)
  PROVE  /\ AutomationRisk(r, c) \in 0 .. 100 /\ AutomationRisk(r, d) \in 0 .. 100
         /\ AutomationRisk(r, c) <= AutomationRisk(r, d)
<1>1. /\ c.requests \in Int /\ c.denied \in Int /\ c.missing \in Int
      /\ c.uniquePaths \in Int /\ c.suspiciousPaths \in Int
      /\ d.requests \in Int /\ d.denied \in Int /\ d.missing \in Int
      /\ d.uniquePaths \in Int /\ d.suspiciousPaths \in Int
  BY DEF Contexts
<1>2. BaseRisk(r) \in Nat
  <2>1. \A id \in Signal: Score[id] \in Nat
    BY DEF Signal, Score
  <2>2. r.rules \in Nat
    OBVIOUS
  <2>3. Scored(r, "sensitive_file_probe") \in Nat /\ Scored(r, "cms_probe") \in Nat
        /\ Scored(r, "path_traversal") \in Nat /\ Scored(r, "injection_probe") \in Nat
        /\ Scored(r, "unusual_method") \in Nat /\ Scored(r, "scanner_user_agent") \in Nat
        /\ Scored(r, "large_request") \in Nat /\ Scored(r, "slow_request") \in Nat
    BY <2>1 DEF Scored, If, Signal, Score
  <2>4. If(r.status = "denied", 10) \in Nat /\ If(r.status = "missing", 4) \in Nat
    BY DEF If
  <2> QED BY <2>2, <2>3, <2>4 DEF BaseRisk
<1>3. CrawlerAttack(r, c) => CrawlerAttack(r, d)
  BY <1>1 DEF CrawlerAttack, Recon, PathSweep, MissingSweep, Busier
<1>4. (PathSweep(c) => PathSweep(d)) /\ (MissingSweep(c) => MissingSweep(d))
  BY <1>1 DEF PathSweep, MissingSweep, Busier
<1> DEFINE b == BaseRisk(r)
           e(x) == If(x.requests >= 100, 25) + If(x.requests >= 300, 35)
                     + If(x.denied >= 10, 35) + If(x.missing >= 20, 25) + If(x.suspiciousPaths >= 5, 35)
           f(x) == If(PathSweep(x), 35) + If(MissingSweep(x), 35) + If(CrawlerAttack(r, x), 55)
<1>5. e(c) \in Nat /\ e(d) \in Nat /\ e(c) <= e(d)
  BY <1>1 DEF If, Busier
<1>6. f(c) \in Nat /\ f(d) \in Nat /\ f(c) <= f(d)
  BY <1>3, <1>4 DEF If
<1>7. \A x \in {c, d}: AutomationRisk(r, x) = IF b + e(x) + f(x) > 100 THEN 100 ELSE b + e(x) + f(x)
  BY <1>1, <1>2 DEF AutomationRisk, If
<1> HIDE DEF b, e, f
<1>8. b \in Nat
  BY <1>2 DEF b
<1>9. /\ b + e(c) + f(c) \in Nat /\ b + e(d) + f(d) \in Nat
      /\ b + e(c) + f(c) <= b + e(d) + f(d)
  BY <1>5, <1>6, <1>8
<1>10. /\ AutomationRisk(r, c) = IF b + e(c) + f(c) > 100 THEN 100 ELSE b + e(c) + f(c)
       /\ AutomationRisk(r, d) = IF b + e(d) + f(d) > 100 THEN 100 ELSE b + e(d) + f(d)
  BY <1>7
<1> DEFINE m == b + e(c) + f(c)
           n == b + e(d) + f(d)
<1> HIDE DEF m, n
<1>11. m \in Nat /\ n \in Nat /\ m <= n
  BY <1>9 DEF m, n
<1>12. /\ AutomationRisk(r, c) = IF m > 100 THEN 100 ELSE m
       /\ AutomationRisk(r, d) = IF n > 100 THEN 100 ELSE n
  BY <1>10 DEF m, n
<1> QED BY <1>11, <1>12

\* And so Autopilot never answers it with less.
THEOREM BusierIsNotAnsweredMilder ==
  ASSUME NEW r \in [path : Path, status : Status, signals : SUBSET Signal, rules : Nat],
         NEW c \in Contexts, NEW d \in Contexts, Busier(c, d),
         NEW p \in Profile, NEW x \in Evidence, x.challenged => x.mature
  PROVE  Strength[Decide(p, [x EXCEPT !.risk = AutomationRisk(r, c)])]
           <= Strength[Decide(p, [x EXCEPT !.risk = AutomationRisk(r, d)])]
<1> DEFINE y == [x EXCEPT !.risk = AutomationRisk(r, c)]
           z == [x EXCEPT !.risk = AutomationRisk(r, d)]
<1>1. /\ AutomationRisk(r, c) \in 0 .. 100 /\ AutomationRisk(r, d) \in 0 .. 100
      /\ AutomationRisk(r, c) <= AutomationRisk(r, d)
  BY BusierIsNoBetter
<1>2. y \in Evidence /\ z \in Evidence
  BY <1>1 DEF Evidence
<1>3. /\ y.strong = z.strong /\ y.repeats = z.repeats /\ y.limited = z.limited
      /\ y.challenged = z.challenged /\ y.mature = z.mature
      /\ y.challenged = x.challenged /\ y.mature = x.mature
      /\ y.risk = AutomationRisk(r, c) /\ z.risk = AutomationRisk(r, d)
      /\ y.strong \in Nat /\ y.repeats \in Nat
  BY DEF Evidence
<1>4. Worse(y, z)
  BY <1>1, <1>3 DEF Worse
<1>5. y.challenged => y.mature
  BY <1>3
<1> HIDE DEF y, z
<1>6. Strength[Decide(p, y)] <= Strength[Decide(p, z)]
  BY <1>2, <1>4, <1>5, DecisionMonotone
<1> QED
  BY <1>6 DEF y, z

-----------------------------------------------------------------------------
(* Sequences, and functions defined by recursion on a number. *)

\* Induction over the natural numbers, for a set instead of a predicate.
LEMMA SetInduction ==
  ASSUME NEW S, 0 \in S, \A n \in Nat : n \in S => n + 1 \in S
  PROVE  Nat \subseteq S
  <1> SUFFICES ASSUME Nat \ S # {} PROVE FALSE
    OBVIOUS
  <1>1. PICK x \in Nat \ S : \A y \in Nat \ S : ~(<<y, x>> \in OpToRel(<, Nat))
    BY NatLessThanWellFounded, WFMin
  <1>2. x \in Nat /\ x \notin S /\ x # 0 /\ x - 1 \in Nat
    <2>1. x \in Nat /\ x \notin S
      OBVIOUS
    <2> QED
      BY <2>1
  <1>3. <<x - 1, x>> \in OpToRel(<, Nat)
    BY <1>1, <1>2 DEF OpToRel
  <1>4. x - 1 \in S
    BY <1>1, <1>2, <1>3
  <1> QED
    <2>1. (x - 1) + 1 = x
      BY <1>2
    <2> QED
      BY <1>2, <1>4, <2>1

\* A set of natural numbers that is not empty has a least element.
LEMMA LeastElement ==
  ASSUME NEW S \in SUBSET Nat, S # {}
  PROVE  Min(S) \in S /\ \A e \in S : Min(S) <= e
  <1>1. PICK x \in S : \A y \in S : ~(<<y, x>> \in OpToRel(<, Nat))
    BY NatLessThanWellFounded, WFMin
  <1>2. \A y \in S : x <= y
    <2> SUFFICES ASSUME NEW y \in S, y < x PROVE FALSE
      OBVIOUS
    <2>1. <<y, x>> \in OpToRel(<, Nat)
      BY DEF OpToRel
    <2> QED
      BY <1>1, <2>1
  <1> QED
    BY <1>2 DEF Min

\* g starts at a and goes from each value to the next one by F.
Steps(g, a, F, N, T) ==
  g \in [0 .. N -> T] /\ g[0] = a /\ \A i \in 1 .. N : g[i] = F[i][g[i - 1]]

\* What each value makes of the one before it is a function.
LEMMA Recursion ==
  ASSUME NEW T, NEW a \in T, NEW N \in Nat, NEW F, \A i \in 1 .. N : \A t \in T : F[i][t] \in T
  PROVE  \E g : Steps(g, a, F, N, T)
  <1> DEFINE Partial(n) == {g \in [0 .. n -> T] : g[0] = a /\ \A i \in 1 .. n : g[i] = F[i][g[i - 1]]}
             S == {n \in Nat : n <= N => Partial(n) # {}}
  <1>1. 0 \in S
    <2>1. [i \in 0 .. 0 |-> a] \in Partial(0)
      OBVIOUS
    <2> QED
      BY <2>1
  <1>2. ASSUME NEW n \in Nat, n \in S PROVE n + 1 \in S
    <2> HIDE DEF Partial
    <2> SUFFICES ASSUME n + 1 <= N PROVE Partial(n + 1) # {}
      OBVIOUS
    <2>0. n <= N
      OBVIOUS
    <2>1. PICK g \in Partial(n) : TRUE
      BY <1>2, <2>0
    <2> USE DEF Partial
    <2>2. g \in [0 .. n -> T] /\ g[0] = a /\ \A i \in 1 .. n : g[i] = F[i][g[i - 1]]
      BY <2>1
    <2> DEFINE h == [i \in 0 .. (n + 1) |-> IF i = n + 1 THEN F[n + 1][g[n]] ELSE g[i]]
    <2>3. F[n + 1][g[n]] \in T
      BY <2>2
    <2>4. h \in [0 .. (n + 1) -> T]
      BY <2>2, <2>3
    <2>5. h[0] = a /\ h[n + 1] = F[n + 1][h[n]]
      <3>1. h[0] = g[0] /\ h[n] = g[n]
        OBVIOUS
      <3>2. h[n + 1] = F[n + 1][g[n]]
        OBVIOUS
      <3> QED
        BY <2>2, <3>1, <3>2
    <2>6. \A i \in 1 .. n : h[i] = g[i] /\ h[i - 1] = g[i - 1]
      OBVIOUS
    <2> HIDE DEF h
    <2>7. \A i \in 1 .. (n + 1) : h[i] = F[i][h[i - 1]]
      <3> TAKE i \in 1 .. (n + 1)
      <3>1. CASE i = n + 1
        <4>1. i - 1 = n
          BY <3>1
        <4> QED
          BY <2>5, <3>1, <4>1
      <3>2. CASE i # n + 1
        <4>1. i \in 1 .. n
          BY <3>2
        <4> QED
          BY <2>2, <2>6, <4>1
      <3> QED
        BY <3>1, <3>2
    <2> QED
      BY <2>4, <2>5, <2>7
  <1> HIDE DEF S
  <1>3. N \in S
    BY <1>1, <1>2, SetInduction
  <1> HIDE DEF Partial
  <1>4. Partial(N) # {}
    BY <1>3 DEF S
  <1> QED
    BY <1>4 DEF Partial, Steps

\* The indices of a sequence that is one longer.
LEMMA OneMoreIndex ==
  ASSUME NEW n \in Nat
  PROVE  1 .. (n + 1) = (1 .. n) \cup {n + 1}
  OBVIOUS

\* What is in a sequence.
LEMMA RangeType ==
  ASSUME NEW T, NEW s \in Seq(T)
  PROVE  \A e \in Range(s) : e \in T
  BY DEF Range

\* A longer sequence has one more element.
LEMMA AppendRange ==
  ASSUME NEW T, NEW q \in Seq(T), NEW e \in T
  PROVE  /\ Append(q, e) \in Seq(T)
         /\ Range(Append(q, e)) = Range(q) \cup {e}
         /\ IsInjective(q) /\ e \notin Range(q) => IsInjective(Append(q, e))
  <1> DEFINE r == Append(q, e)
  <1>1. /\ r \in Seq(T) /\ DOMAIN r = 1 .. Len(q) + 1 /\ DOMAIN q = 1 .. Len(q) /\ Len(q) \in Nat
        /\ r[Len(q) + 1] = e /\ \A i \in 1 .. Len(q) : r[i] = q[i]
    BY AppendProperties
  <1> HIDE DEF r
  <1>2. DOMAIN r = DOMAIN q \cup {Len(q) + 1}
    BY <1>1
  <1>3. Range(r) = Range(q) \cup {e}
    BY <1>1, <1>2 DEF Range
  <1>4. IsInjective(q) /\ e \notin Range(q) => IsInjective(r)
    BY <1>1, <1>2 DEF Range, IsInjective
  <1> QED
    BY <1>1, <1>3, <1>4 DEF r

\* What is left of a sequence without its first element.
LEMMA TailRange ==
  ASSUME NEW T, NEW q \in Seq(T), q # <<>>
  PROVE  /\ Tail(q) \in Seq(T) /\ Head(q) \in T /\ Head(q) \in Range(q)
         /\ Range(q) = Range(Tail(q)) \cup {Head(q)}
         /\ IsInjective(q) => IsInjective(Tail(q)) /\ Head(q) \notin Range(Tail(q))
  <1>1. /\ Tail(q) \in Seq(T) /\ Head(q) = q[1] /\ Len(q) \in Nat /\ Len(q) >= 1
        /\ DOMAIN q = 1 .. Len(q) /\ DOMAIN Tail(q) = 1 .. Len(q) - 1
        /\ \A i \in 1 .. Len(q) - 1 : Tail(q)[i] = q[i + 1]
    OBVIOUS
  <1> PICK r : r = Tail(q)
    OBVIOUS
  <1>2. \A i \in DOMAIN q : i = 1 \/ (i - 1 \in DOMAIN r /\ r[i - 1] = q[i])
    BY <1>1
  <1>3. \A i \in DOMAIN r : i + 1 \in DOMAIN q /\ r[i] = q[i + 1] /\ i + 1 # 1
    BY <1>1
  <1>4. 1 \in DOMAIN q
    BY <1>1
  <1>5. Range(q) = Range(r) \cup {Head(q)}
    <2>1. Range(q) \subseteq Range(r) \cup {Head(q)}
      <3>1. \A i \in DOMAIN q : q[i] = Head(q) \/ q[i] \in {r[j] : j \in DOMAIN r}
        BY <1>1, <1>2
      <3> QED
        BY <3>1 DEF Range
    <2>2. Range(r) \cup {Head(q)} \subseteq Range(q)
      BY <1>1, <1>3, <1>4 DEF Range
    <2> QED
      BY <2>1, <2>2
  <1>6. ASSUME IsInjective(q) PROVE IsInjective(r) /\ Head(q) \notin Range(r)
    <2>1. ASSUME NEW i \in DOMAIN r, NEW j \in DOMAIN r, r[i] = r[j] PROVE i + 1 = j + 1
      <3>1. i + 1 \in DOMAIN q /\ j + 1 \in DOMAIN q /\ q[i + 1] = q[j + 1]
        BY <1>3, <2>1
      <3> QED
        BY <1>6, <3>1 DEF IsInjective
    <2>2. \A i, j \in DOMAIN r : i + 1 = j + 1 => i = j
      BY <1>1
    <2>3. \A i \in DOMAIN r : r[i] # q[1]
      BY <1>3, <1>4, <1>6 DEF IsInjective
    <2> QED
      BY <1>1, <2>1, <2>2, <2>3 DEF Range, IsInjective
  <1> QED
    <2>1. Head(q) \in Range(q) /\ Head(q) \in T
      BY <1>1, <1>5
    <2>2. Tail(q) \in Seq(T)
      BY <1>1
    <2> QED
      BY <1>5, <1>6, <2>1, <2>2

\* A sequence whose elements are in a set.
LEMMA SeqOfSubset ==
  ASSUME NEW T, NEW U, NEW s \in Seq(T), \A i \in 1 .. Len(s) : s[i] \in U
  PROVE  s \in Seq(U)
  <1>1. s \in [1 .. Len(s) -> U] /\ Len(s) \in Nat
    OBVIOUS
  <1> QED
    BY <1>1, SeqDef

\* A sequence without repetitions of numbers from a to b has at most b + 1 - a of them.
LEMMA PigeonHole ==
  ASSUME NEW a \in Int, NEW b \in Int, a <= b + 1, NEW s \in Seq(a .. b), IsInjective(s)
  PROVE  Len(s) <= b + 1 - a
  <1>1. IsFiniteSet(a .. b) /\ Cardinality(a .. b) = b + 1 - a
    BY FS_Interval
  <1>2. IsFiniteSet(1 .. Len(s)) /\ Cardinality(1 .. Len(s)) = Len(s)
    <2>1. Len(s) \in Nat /\ Len(s) \in Int /\ 1 \in Int
      OBVIOUS
    <2>2. Cardinality(1 .. Len(s)) = IF 1 > Len(s) THEN 0 ELSE Len(s) - 1 + 1
      BY <2>1, FS_Interval
    <2>3. IsFiniteSet(1 .. Len(s))
      BY <2>1, FS_Interval
    <2> QED
      BY <2>1, <2>2, <2>3
  <1>3. s \in Injection(1 .. Len(s), a .. b)
    <2>1. s \in [1 .. Len(s) -> a .. b]
      OBVIOUS
    <2> QED
      BY <2>1 DEF Injection
  <1>4. Cardinality(1 .. Len(s)) <= Cardinality(a .. b)
    BY <1>1, <1>3, FS_Injection
  <1> QED
    BY <1>1, <1>2, <1>4

\* A sequence whose elements are never behind a later one by n or more.
NearlySorted(s, n) == \A i, j \in DOMAIN s : i < j => s[i] < s[j] + n

\* An element that nothing before it exceeds by n.
LEMMA NearlySortedAppend ==
  ASSUME NEW n \in Nat, NEW s \in Seq(Nat), NearlySorted(s, n),
         NEW e \in Nat, \A a \in Range(s) : a < e + n
  PROVE  NearlySorted(Append(s, e), n)
  <1> PICK r : r = Append(s, e)
    OBVIOUS
  <1>1. /\ DOMAIN r = 1 .. Len(s) + 1 /\ DOMAIN s = 1 .. Len(s) /\ Len(s) \in Nat
        /\ r[Len(s) + 1] = e /\ \A i \in 1 .. Len(s) : r[i] = s[i]
    BY AppendProperties
  <1>2. ASSUME NEW i \in DOMAIN r, NEW j \in DOMAIN r, i < j PROVE r[i] < r[j] + n
    <2>1. i \in DOMAIN s /\ r[i] = s[i]
      BY <1>1, <1>2
    <2>2. CASE j = Len(s) + 1
      BY <1>1, <2>1, <2>2 DEF Range
    <2>3. CASE j # Len(s) + 1
      BY <1>1, <1>2, <2>1, <2>3 DEF NearlySorted
    <2> QED
      BY <2>2, <2>3
  <1> QED
    BY <1>2 DEF NearlySorted

\* A sequence without its first element is as sorted.
LEMMA NearlySortedTail ==
  ASSUME NEW n \in Nat, NEW s \in Seq(Nat), s # <<>>, NearlySorted(s, n)
  PROVE  NearlySorted(Tail(s), n)
  <1> PICK r : r = Tail(s)
    OBVIOUS
  <1>1. /\ Len(s) \in Nat /\ DOMAIN s = 1 .. Len(s) /\ DOMAIN r = 1 .. Len(s) - 1
        /\ \A i \in 1 .. Len(s) - 1 : r[i] = s[i + 1]
    OBVIOUS
  <1>2. ASSUME NEW i \in DOMAIN r, NEW j \in DOMAIN r, i < j PROVE r[i] < r[j] + n
    <2>1. i + 1 \in DOMAIN s /\ j + 1 \in DOMAIN s /\ i + 1 < j + 1
      BY <1>1, <1>2
    <2>2. s[i + 1] < s[j + 1] + n
      BY <2>1, <1>2 DEF NearlySorted
    <2> QED
      BY <1>1, <2>2
  <1> QED
    BY <1>2 DEF NearlySorted

-----------------------------------------------------------------------------
(* What the memory of what was handed over forgets (rememberEvent). *)

\* What the limits are to each other.
LEMMA Limits ==
  /\ EventWindow \in Nat /\ EventWindow > 0 /\ ReadBurst \in Nat
  /\ SeenLimit \in Nat /\ 2 * EventWindow + ReadBurst <= SeenLimit
  BY ArchiveAssumption

\* The memory of a run that has read no event after the top.
Memorable(m, top) ==
  /\ m \in Seq(Nat) /\ IsInjective(m) /\ Len(m) <= SeenLimit
  /\ NearlySorted(m, EventWindow + ReadBurst)
  /\ \A e \in Range(m) : e <= top

\* A memory that is full forgets its first event, and that is not one of the newest.
LEMMA FirstIsOld ==
  ASSUME NEW top \in Nat, NEW m \in Seq(Nat), IsInjective(m), Len(m) = SeenLimit + 1,
         NearlySorted(m, EventWindow + ReadBurst), \A e \in Range(m) : e <= top
  PROVE  m[1] + EventWindow <= top
  <1>0. EventWindow \in Nat /\ ReadBurst \in Nat /\ SeenLimit \in Nat /\ EventWindow > 0
        /\ 2 * EventWindow + ReadBurst <= SeenLimit
    BY Limits
  <1> SUFFICES ASSUME top < m[1] + EventWindow PROVE FALSE
    BY <1>0
  <1>1. 1 \in DOMAIN m /\ m[1] \in Nat /\ DOMAIN m = 1 .. Len(m) /\ \A i \in DOMAIN m : m[i] \in Nat
    <2>1. DOMAIN m = 1 .. Len(m) /\ \A i \in DOMAIN m : m[i] \in Nat
      OBVIOUS
    <2>2. 1 \in 1 .. Len(m)
      BY <1>0
    <2> QED
      BY <2>1, <2>2
  <1> DEFINE a == m[1] + 1 - (EventWindow + ReadBurst)
             b == m[1] + EventWindow - 1
  <1>2. a \in Int /\ b \in Int /\ a <= b + 1
    <2>1. m[1] \in Nat /\ EventWindow \in Nat /\ ReadBurst \in Nat /\ EventWindow > 0
      BY <1>0, <1>1
    <2> QED
      BY <2>1
  <1>3. \A i \in DOMAIN m : m[i] \in a .. b
    <2> TAKE i \in DOMAIN m
    <2>1. m[i] \in Nat /\ m[i] <= top /\ i \in Nat /\ i >= 1
      BY <1>1 DEF Range
    <2>2. i = 1 \/ m[1] < m[i] + (EventWindow + ReadBurst)
      BY <1>1, <2>1 DEF NearlySorted
    <2>3. m[i] >= a
      <3>1. m[1] \in Nat /\ EventWindow \in Nat /\ ReadBurst \in Nat /\ EventWindow > 0 /\ m[i] \in Nat
        BY <1>0, <1>1, <2>1
      <3>2. CASE i = 1
        BY <3>1, <3>2
      <3>3. CASE m[1] < m[i] + (EventWindow + ReadBurst)
        BY <3>1, <3>3
      <3> QED
        BY <2>2, <3>2, <3>3
    <2>4. m[i] <= b
      BY <1>0, <1>1, <2>1
    <2> QED
      BY <2>1, <2>3, <2>4, <1>2
  <1>4. m \in Seq(a .. b)
    <2> HIDE DEF a, b
    <2>1. m \in Seq(Nat) /\ \A i \in 1 .. Len(m) : m[i] \in a .. b
      BY <1>1, <1>3
    <2> QED
      BY <2>1, SeqOfSubset
  <1>5. Len(m) <= b + 1 - a
    <2> HIDE DEF a, b
    <2> QED
      BY <1>2, <1>4, PigeonHole
  <1> QED
    BY <1>0, <1>1, <1>5

\* An event that is not remembered is put behind the others, and one of the newest that
\* was remembered still is.
LEMMA RememberOne ==
  ASSUME NEW top \in Nat, NEW m, Memorable(m, top), NEW e \in Nat, e <= top, e \notin Range(m),
         \A a \in Range(m) : a < e + (EventWindow + ReadBurst),
         NEW r, r = Newest(SeenLimit, Append(m, e))
  PROVE  /\ Memorable(r, top) /\ Range(r) \subseteq Range(m) \cup {e}
         /\ \A a \in Range(m) \cup {e} : a + EventWindow > top => a \in Range(r)
  <1>0. EventWindow \in Nat /\ ReadBurst \in Nat /\ SeenLimit \in Nat /\ SeenLimit > 0 /\ EventWindow > 0
    BY Limits
  <1>1. m \in Seq(Nat) /\ IsInjective(m) /\ Len(m) <= SeenLimit /\ Len(m) \in Nat
        /\ NearlySorted(m, EventWindow + ReadBurst) /\ \A a \in Range(m) : a <= top
    BY DEF Memorable
  <1> PICK n : n = Append(m, e)
    OBVIOUS
  <1>2. n \in Seq(Nat) /\ IsInjective(n) /\ Range(n) = Range(m) \cup {e} /\ Len(n) = Len(m) + 1
    <2>1. n \in Seq(Nat) /\ IsInjective(n) /\ Range(n) = Range(m) \cup {e}
      BY <1>1, AppendRange
    <2> QED
      BY <1>1, <2>1
  <1>3. NearlySorted(n, EventWindow + ReadBurst)
    <2>1. EventWindow + ReadBurst \in Nat
      BY <1>0
    <2> QED
      BY <1>1, <2>1, NearlySortedAppend
  <1>4. \A a \in Range(n) : a <= top
    BY <1>1, <1>2
  <1>5. CASE Len(n) <= SeenLimit
    <2>1. r = n
      BY <1>5 DEF Newest
    <2> QED
      BY <1>2, <1>3, <1>4, <1>5, <2>1 DEF Memorable
  <1>6. CASE Len(n) > SeenLimit
    <2>1. Len(n) = SeenLimit + 1 /\ n # <<>>
      BY <1>0, <1>1, <1>2, <1>6
    <2>2. r = Tail(n)
      <3>1. r = SubSeq(n, Len(n) - SeenLimit + 1, Len(n))
        <4>1. ~(Len(n) <= SeenLimit)
          BY <1>0, <1>1, <1>2, <1>6
        <4> QED
          BY <4>1 DEF Newest
      <3>2. Len(n) - SeenLimit + 1 = 2
        BY <1>0, <2>1
      <3>3. Tail(n) = SubSeq(n, 2, Len(n))
        BY <1>2, <2>1, TailIsSubSeq
      <3> QED
        BY <3>1, <3>2, <3>3
    <2>3. r \in Seq(Nat) /\ IsInjective(r) /\ Range(n) = Range(r) \cup {Head(n)}
      <3>1. n \in Seq(Nat) /\ IsInjective(n) /\ n # <<>>
        BY <1>2, <2>1
      <3>2. /\ Tail(n) \in Seq(Nat) /\ Range(n) = Range(Tail(n)) \cup {Head(n)}
            /\ IsInjective(n) => IsInjective(Tail(n)) /\ Head(n) \notin Range(Tail(n))
        BY <3>1, TailRange
      <3> QED
        BY <2>2, <3>1, <3>2
    <2>4. Len(r) = SeenLimit
      BY <1>0, <1>2, <2>1, <2>2
    <2>5. NearlySorted(r, EventWindow + ReadBurst)
      <3>1. EventWindow + ReadBurst \in Nat
        BY <1>0
      <3> QED
        BY <1>2, <1>3, <2>1, <2>2, <3>1, NearlySortedTail
    <2>6. Memorable(r, top)
      BY <1>0, <1>4, <2>3, <2>4, <2>5 DEF Memorable
    <2>7. Head(n) + EventWindow <= top
      <3>1. n[1] + EventWindow <= top
        BY <1>2, <1>3, <1>4, <2>1, FirstIsOld
      <3> QED
        BY <1>2, <2>1, <3>1
    <2>8. Head(n) \in Nat /\ \A a \in Range(n) : a \in Nat
      BY <1>2, <2>1 DEF Range
    <2>9. \A a \in Range(n) : a + EventWindow > top => a # Head(n)
      BY <1>0, <2>7, <2>8
    <2> QED
      BY <1>2, <2>3, <2>6, <2>9
  <1> QED
    BY <1>0, <1>1, <1>2, <1>5, <1>6

\* The newest of a sequence.
LEMMA NewestType ==
  ASSUME NEW n \in Nat, NEW T, NEW s \in Seq(T)
  PROVE  Newest(n, s) \in Seq(T)
  <1>1. CASE Len(s) <= n
    BY <1>1 DEF Newest
  <1>2. CASE ~(Len(s) <= n)
    <2>1. Len(s) \in Nat /\ Len(s) - n + 1 \in 1 .. Len(s) + 1 /\ Len(s) \in 0 .. Len(s)
      BY <1>2
    <2>2. SubSeq(s, Len(s) - n + 1, Len(s)) \in Seq(T)
      BY <2>1, SubSeqProperties
    <2> QED
      BY <1>2, <2>2 DEF Newest
  <1> QED
    BY <1>1, <1>2

\* g is what a memory holds after each event of a sequence.
Remembering(g, memory, events, limit) ==
  /\ g \in [0 .. Len(events) -> Seq(Nat)] /\ g[0] = memory
  /\ \A i \in 1 .. Len(events) :
       g[i] = IF events[i] \in Range(g[i - 1]) THEN g[i - 1]
              ELSE Newest(limit, Append(g[i - 1], events[i]))

\* Remember goes through the events one after the other.
LEMMA RememberDef ==
  ASSUME NEW limit \in Nat, NEW memory \in Seq(Nat), NEW events \in Seq(Nat)
  PROVE  \E g : Remembering(g, memory, events, limit) /\ Remember(memory, events, limit) = g[Len(events)]
  <1> DEFINE N == Len(events)
             T == Seq(Nat)
             Step(m, i) == IF Contains(m, events[i]) THEN m ELSE Newest(limit, Append(m, events[i]))
             Def(k, i) == IF i = 0 THEN memory ELSE Step(k[i - 1], i)
             kept == CHOOSE k : k = [i \in 0 .. N |-> Def(k, i)]
             F == [i \in 1 .. N |-> [m \in T |-> Step(m, i)]]
  <1>0. N \in Nat /\ \A i \in 1 .. N : events[i] \in Nat
    OBVIOUS
  <1>1. \A i \in 1 .. N : \A m \in T : F[i][m] = Step(m, i)
    OBVIOUS
  <1>2. \A i \in 1 .. N : \A m \in T : F[i][m] \in T
    <2> SUFFICES ASSUME NEW i \in 1 .. N, NEW m \in T PROVE Step(m, i) \in T
      BY <1>1
    <2>1. Append(m, events[i]) \in Seq(Nat)
      BY <1>0, AppendProperties
    <2> QED
      BY <2>1, NewestType
  <1>3. PICK g \in [0 .. N -> T] : g[0] = memory /\ \A i \in 1 .. N : g[i] = F[i][g[i - 1]]
    <2>1. memory \in T
      OBVIOUS
    <2> HIDE DEF T, F, N, kept, Step, Def
    <2>2. \E g : Steps(g, memory, F, N, T)
      BY <1>0, <1>2, <2>1, Recursion
    <2> QED
      BY <2>2 DEF Steps
  <1>4. \A i \in 1 .. N : g[i] = Step(g[i - 1], i) /\ g[i - 1] \in T
    <2> TAKE i \in 1 .. N
    <2>1. i - 1 \in 0 .. N
      BY <1>0
    <2>2. g[i - 1] \in T
      BY <1>3, <2>1
    <2> HIDE DEF F, T, Step
    <2> QED
      BY <1>1, <1>3, <2>2
  <1>5. g = [i \in 0 .. N |-> Def(g, i)]
    <2>1. \A i \in 0 .. N : g[i] = Def(g, i)
      <3> HIDE DEF Step, T, F
      <3> QED
        BY <1>3, <1>4
    <2> HIDE DEF Def, T, F
    <2> QED
      BY <1>3, <2>1
  <1>6. kept = [i \in 0 .. N |-> Def(kept, i)]
    <2> HIDE DEF Def
    <2> QED
      BY <1>5
  <1>7. Remember(memory, events, limit) = kept[N]
    BY DEF Remember
  <1> HIDE DEF kept
  <1>8. kept \in [0 .. N -> T] /\ \A i \in 1 .. N : kept[i] = Step(kept[i - 1], i)
    <2> DEFINE Same == {n \in Nat : n <= N => kept[n] = g[n]}
    <2>1. 0 \in Same
      <3>1. kept[0] = memory
        BY <1>0, <1>6
      <3> QED
        BY <1>3, <3>1
    <2>2. ASSUME NEW n \in Nat, n \in Same PROVE n + 1 \in Same
      <3> SUFFICES ASSUME n + 1 <= N PROVE kept[n + 1] = g[n + 1]
        OBVIOUS
      <3>1. (n + 1) \in 0 .. N /\ (n + 1) \in 1 .. N /\ n + 1 # 0 /\ (n + 1) - 1 = n
        BY <1>0
      <3>2. kept[n] = g[n]
        BY <1>0, <2>2, <3>1
      <3> HIDE DEF Step
      <3>3. kept[n + 1] = Step(kept[(n + 1) - 1], n + 1)
        BY <1>6, <3>1
      <3>4. g[n + 1] = Step(g[(n + 1) - 1], n + 1)
        BY <1>4, <3>1
      <3> QED
        BY <3>1, <3>2, <3>3, <3>4
    <2> HIDE DEF Same
    <2>3. Nat \subseteq Same
      BY <2>1, <2>2, SetInduction
    <2>4. \A n \in 0 .. N : kept[n] = g[n]
      BY <1>0, <2>3 DEF Same
    <2> HIDE DEF Def, T, F, Step
    <2>5. kept = [i \in 0 .. N |-> kept[i]]
      <3> PICK D : D = [i \in 0 .. N |-> Def(kept, i)]
        OBVIOUS
      <3>1. D = [i \in 0 .. N |-> D[i]]
        OBVIOUS
      <3> QED
        BY <1>6, <3>1
    <2>6. kept = g
      BY <1>3, <2>4, <2>5
    <2> QED
      BY <1>3, <1>4, <2>6
  <1>9. \A m \in T, e \in Nat : Contains(m, e) <=> e \in Range(m)
    BY DEF Contains, Range
  <1> QED
    <2>1. kept[0] = memory
      BY <1>0, <1>6
    <2>2. ASSUME NEW i \in 1 .. N
          PROVE  kept[i] = IF events[i] \in Range(kept[i - 1]) THEN kept[i - 1]
                           ELSE Newest(limit, Append(kept[i - 1], events[i]))
      <3>1. i - 1 \in 0 .. N /\ events[i] \in Nat
        BY <1>0
      <3>2. kept[i - 1] \in T
        BY <1>8, <3>1
      <3>3. Contains(kept[i - 1], events[i]) <=> events[i] \in Range(kept[i - 1])
        BY <1>9, <3>1, <3>2
      <3> QED
        BY <1>8, <3>3
    <2> HIDE DEF Def, F, Step
    <2> QED
      BY <1>7, <1>8, <2>1, <2>2 DEF Remembering

\* Events that a window may hold together with those that are remembered.
Readable(m, events, top) ==
  /\ events \in Seq(Nat) /\ \A e \in Range(events) : e <= top
  /\ \A a \in Range(m) \cup Range(events), e \in Range(events) : a < e + (EventWindow + ReadBurst)

\* A run that reads them remembers every event of the newest, those that it remembered
\* before included.
LEMMA RememberKeeps ==
  ASSUME NEW top \in Nat, NEW memory, Memorable(memory, top), NEW events, Readable(memory, events, top),
         NEW r, r = Remember(memory, events, SeenLimit)
  PROVE  /\ Memorable(r, top) /\ Range(r) \subseteq Range(memory) \cup Range(events)
         /\ \A a \in Range(memory) \cup Range(events) : a + EventWindow > top => a \in Range(r)
  <1>0. memory \in Seq(Nat) /\ events \in Seq(Nat) /\ SeenLimit \in Nat
    BY Limits DEF Memorable, Readable
  <1> DEFINE N == Len(events)
  <1>1. PICK g \in [0 .. N -> Seq(Nat)] :
          /\ g[0] = memory /\ r = g[N]
          /\ \A i \in 1 .. N : g[i] = IF events[i] \in Range(g[i - 1]) THEN g[i - 1]
                                      ELSE Newest(SeenLimit, Append(g[i - 1], events[i]))
    <2>1. \E g : Remembering(g, memory, events, SeenLimit) /\ Remember(memory, events, SeenLimit) = g[Len(events)]
      BY <1>0, RememberDef
    <2> QED
      BY <2>1 DEF Remembering
  <1>2. N \in Nat /\ DOMAIN events = 1 .. N /\ \A i \in 1 .. N : events[i] \in Nat /\ events[i] \in Range(events)
    BY <1>0 DEF Range
  <1> HIDE DEF N
  <1> DEFINE Upto(n) == Range(memory) \cup {events[i] : i \in 1 .. n}
             Good(n) == /\ Memorable(g[n], top) /\ Range(g[n]) \subseteq Upto(n)
                        /\ \A a \in Upto(n) : a + EventWindow > top => a \in Range(g[n])
             S == {n \in Nat : n <= N => Good(n)}
  <1>3. 0 \in S
    <2>1. Upto(0) = Range(memory)
      OBVIOUS
    <2> QED
      BY <1>1, <2>1
  <1>4. ASSUME NEW n \in Nat, n \in S PROVE n + 1 \in S
    <2> HIDE DEF Good
    <2> SUFFICES ASSUME n + 1 <= N PROVE Good(n + 1)
      OBVIOUS
    <2>1. Good(n) /\ (n + 1) \in 1 .. N /\ (n + 1) - 1 = n
      BY <1>2, <1>4
    <2> PICK m : m = g[n]
      OBVIOUS
    <2> PICK e : e = events[n + 1]
      OBVIOUS
    <2>2. e \in Nat /\ e \in Range(events) /\ e <= top
      BY <1>2, <2>1 DEF Readable
    <2>3. Upto(n + 1) = Upto(n) \cup {e}
      <3>1. 1 .. (n + 1) = (1 .. n) \cup {n + 1}
        BY OneMoreIndex
      <3> QED
        BY <3>1
    <2>4. Upto(n) \subseteq Range(memory) \cup Range(events)
      <3>1. \A i \in 1 .. n : i \in 1 .. N
        BY <1>2, <2>1
      <3> QED
        BY <1>2, <3>1
    <2>5. /\ Memorable(m, top) /\ Range(m) \subseteq Upto(n)
          /\ \A a \in Upto(n) : a + EventWindow > top => a \in Range(m)
      BY <2>1 DEF Good
    <2>6. g[n + 1] = IF e \in Range(m) THEN m ELSE Newest(SeenLimit, Append(m, e))
      BY <1>1, <2>1
    <2> HIDE DEF Upto
    <2>7. CASE e \in Range(m)
      <3>1. g[n + 1] = m
        BY <2>6, <2>7
      <3> QED
        BY <2>3, <2>5, <2>7, <3>1 DEF Good
    <2>8. CASE e \notin Range(m)
      <3> PICK w : w = g[n + 1]
        OBVIOUS
      <3>1. w = Newest(SeenLimit, Append(m, e))
        BY <2>6, <2>8
      <3>2. \A a \in Range(m) : a < e + (EventWindow + ReadBurst)
        BY <2>2, <2>4, <2>5 DEF Readable
      <3>3. /\ Memorable(w, top) /\ Range(w) \subseteq Range(m) \cup {e}
            /\ \A a \in Range(m) \cup {e} : a + EventWindow > top => a \in Range(w)
        BY <2>2, <2>5, <2>8, <3>1, <3>2, RememberOne
      <3> QED
        BY <2>3, <2>5, <3>3 DEF Good
    <2> QED
      BY <2>7, <2>8
  <1> HIDE DEF S
  <1>5. N \in S
    BY <1>2, <1>3, <1>4, SetInduction
  <1>6. Upto(N) = Range(memory) \cup Range(events)
    BY <1>2 DEF Range
  <1>7. Good(N)
    <2> HIDE DEF Good
    <2> QED
      BY <1>2, <1>5 DEF S
  <1> HIDE DEF Upto
  <1> QED
    BY <1>1, <1>6, <1>7

-----------------------------------------------------------------------------
(* What is written to a file, and what a new process remembers of it. *)

\* A batch is the events of its day, each once and in their order.
LEMMA BatchProperties ==
  ASSUME seclog.last \in Nat, NEW events \in SUBSET (1 .. seclog.last), NEW b, b = Batch(events)
  PROVE  /\ b \in Seq(Nat) /\ IsInjective(b) /\ NearlySorted(b, 0)
         /\ Range(b) = {e \in events : EventDay[e] = FirstDay(events)}
  <1> DEFINE N == seclog.last
             d == FirstDay(events)
             T == Seq(Nat)
             Step(m, e) == IF e \in events /\ EventDay[e] = d THEN Append(m, e) ELSE m
             Def(k, e) == IF e = 0 THEN <<>> ELSE Step(k[e - 1], e)
             kept == CHOOSE k : k = [e \in 0 .. N |-> Def(k, e)]
             F == [e \in 1 .. N |-> [m \in T |-> Step(m, e)]]
  <1>0. b = kept[N]
    BY DEF Batch, FirstDay
  <1> HIDE DEF d
  <1>1. kept = [e \in 0 .. N |-> Def(kept, e)]
    <2>1. \A e \in 1 .. N : \A m \in T : F[e][m] = Step(m, e)
      OBVIOUS
    <2>2. \A e \in 1 .. N : \A m \in T : F[e][m] \in T
      <3> SUFFICES ASSUME NEW e \in 1 .. N, NEW m \in T PROVE Step(m, e) \in T
        BY <2>1
      <3> QED
        BY AppendProperties
    <2>3. <<>> \in T
      OBVIOUS
    <2> HIDE DEF T, F, Step
    <2>4. \E g : Steps(g, <<>>, F, N, T)
      BY <2>2, <2>3, Recursion
    <2>5. PICK g : Steps(g, <<>>, F, N, T)
      BY <2>4
    <2>6. \A e \in 1 .. N : g[e] = Step(g[e - 1], e)
      <3> TAKE e \in 1 .. N
      <3>1. e - 1 \in 0 .. N
        OBVIOUS
      <3> QED
        BY <2>1, <2>5, <3>1 DEF Steps
    <2>7. \A e \in 0 .. N : g[e] = Def(g, e)
      BY <2>5, <2>6 DEF Steps
    <2>8. g = [e \in 0 .. N |-> g[e]]
      BY <2>5 DEF Steps
    <2> HIDE DEF Def
    <2>9. g = [e \in 0 .. N |-> Def(g, e)]
      BY <2>7, <2>8
    <2> QED
      BY <2>9
  <1>00. N \in Nat /\ \A e \in events : e \in Nat /\ e >= 1 /\ e <= N
    OBVIOUS
  <1> HIDE DEF kept, N
  <1> DEFINE Upto(n) == {e \in events : EventDay[e] = d /\ e <= n}
             Good(n) == /\ kept[n] \in Seq(Nat) /\ IsInjective(kept[n]) /\ NearlySorted(kept[n], 0)
                        /\ Range(kept[n]) = Upto(n)
             S == {n \in Nat : n <= N => Good(n)}
  <1>2. 0 \in S
    <2>1. kept[0] = <<>>
      BY <1>00, <1>1
    <2>2. Upto(0) = {}
      <3>1. \A e \in events : ~(e <= 0)
        BY <1>00
      <3> QED
        BY <3>1
    <2> HIDE DEF Upto
    <2>3. Good(0)
      BY <2>1, <2>2 DEF IsInjective, NearlySorted, Range
    <2> QED
      BY <2>3
  <1>3. ASSUME NEW n \in Nat, n \in S PROVE n + 1 \in S
    <2> HIDE DEF Good
    <2> SUFFICES ASSUME n + 1 <= N PROVE Good(n + 1)
      OBVIOUS
    <2>1. Good(n) /\ (n + 1) \in 1 .. N /\ (n + 1) \in 0 .. N /\ (n + 1) - 1 = n /\ n + 1 # 0
      BY <1>00, <1>3
    <2> HIDE DEF Step, Upto
    <2>2. kept[n + 1] = Step(kept[n], n + 1)
      BY <1>1, <2>1
    <2> PICK m : m = kept[n]
      OBVIOUS
    <2> PICK w : w = kept[n + 1]
      OBVIOUS
    <2>3. m \in Seq(Nat) /\ IsInjective(m) /\ NearlySorted(m, 0) /\ Range(m) = Upto(n)
      BY <2>1 DEF Good
    <2>4. CASE n + 1 \in events /\ EventDay[n + 1] = d
      <3>1. w = Append(m, n + 1)
        BY <2>2, <2>4 DEF Step
      <3>2. Upto(n + 1) = Upto(n) \cup {n + 1}
        <4>1. \A e \in events : e <= n + 1 <=> e <= n \/ e = n + 1
          BY <1>00
        <4> QED
          BY <2>4, <4>1 DEF Upto
      <3>3. n + 1 \notin Upto(n) /\ \A a \in Upto(n) : a < (n + 1) + 0
        BY <1>00 DEF Upto
      <3>4. w \in Seq(Nat) /\ IsInjective(w) /\ Range(w) = Upto(n + 1)
        <4> PICK e : e = n + 1
          OBVIOUS
        <4>1. e \in Nat /\ e \notin Range(m)
          BY <2>3, <3>3
        <4>2. w \in Seq(Nat) /\ IsInjective(w) /\ Range(w) = Range(m) \cup {e}
          BY <2>3, <3>1, <4>1, AppendRange
        <4> QED
          BY <2>3, <3>2, <4>2
      <3>5. NearlySorted(w, 0)
        BY <2>3, <3>1, <3>3, NearlySortedAppend
      <3> QED
        BY <3>4, <3>5 DEF Good
    <2>5. CASE ~(n + 1 \in events /\ EventDay[n + 1] = d)
      <3>1. w = m
        BY <2>2, <2>5 DEF Step
      <3>2. Upto(n + 1) = Upto(n)
        <4>1. \A e \in events : EventDay[e] = d /\ e <= n + 1 <=> EventDay[e] = d /\ e <= n
          <5> TAKE e \in events
          <5>1. e = n + 1 => EventDay[e] # d
            BY <2>5
          <5>2. e # n + 1 => (e <= n + 1 <=> e <= n)
            BY <1>00
          <5> QED
            BY <1>00, <5>1, <5>2
        <4> QED
          BY <4>1 DEF Upto
      <3> QED
        BY <2>3, <3>1, <3>2 DEF Good
    <2> QED
      BY <2>4, <2>5
  <1> HIDE DEF S
  <1>4. N \in S
    BY <1>00, <1>2, <1>3, SetInduction
  <1>5. Upto(N) = {e \in events : EventDay[e] = d}
    BY <1>00
  <1> HIDE DEF Upto
  <1>6. Good(N)
    <2> HIDE DEF Good
    <2> QED
      BY <1>00, <1>4 DEF S
  <1> QED
    BY <1>0, <1>5, <1>6 DEF d

\* A sequence whose elements are never ahead of an earlier one by n or more.
NearlyFalling(s, n) == \A i, j \in DOMAIN s : i < j => s[j] < s[i] + n

\* The elements of a sequence, the last one first.
LEMMA ReverseProperties ==
  ASSUME NEW s \in Seq(Nat), NEW n \in Nat, NEW r, r = Reverse(s)
  PROVE  /\ r \in Seq(Nat) /\ Range(r) = Range(s) /\ Len(r) = Len(s)
         /\ IsInjective(s) => IsInjective(r)
         /\ NearlySorted(s, n) => NearlyFalling(r, n)
  <1>1. /\ r = [i \in 1 .. Len(s) |-> s[(Len(s) - i) + 1]]
        /\ Len(s) \in Nat /\ DOMAIN s = 1 .. Len(s) /\ \A i \in 1 .. Len(s) : s[i] \in Nat
    BY DEF Reverse
  <1>2. \A i \in 1 .. Len(s) : (Len(s) - i) + 1 \in 1 .. Len(s) /\ Len(s) - ((Len(s) - i) + 1) + 1 = i
    BY <1>1
  <1>3. /\ DOMAIN r = 1 .. Len(s)
        /\ \A i \in 1 .. Len(s) : r[i] = s[(Len(s) - i) + 1] /\ s[i] = r[(Len(s) - i) + 1]
    BY <1>1, <1>2
  <1>4. r \in Seq(Nat) /\ Len(r) = Len(s)
    <2>1. r \in [1 .. Len(s) -> Nat]
      BY <1>1, <1>2
    <2> QED
      BY <1>1, <2>1, LenProperties, SeqDef
  <1>5. Range(r) = Range(s)
    <2>1. Range(r) \subseteq Range(s)
      BY <1>1, <1>2, <1>3 DEF Range
    <2>2. Range(s) \subseteq Range(r)
      <3>1. \A i \in DOMAIN s : (Len(s) - i) + 1 \in DOMAIN r /\ s[i] = r[(Len(s) - i) + 1]
        BY <1>1, <1>2, <1>3
      <3> HIDE DEF Reverse
      <3> QED
        BY <3>1 DEF Range
    <2> QED
      BY <2>1, <2>2
  <1>6. ASSUME IsInjective(s) PROVE IsInjective(r)
    <2> SUFFICES ASSUME NEW i \in 1 .. Len(s), NEW j \in 1 .. Len(s), r[i] = r[j] PROVE i = j
      BY <1>3 DEF IsInjective
    <2>1. s[(Len(s) - i) + 1] = s[(Len(s) - j) + 1]
      BY <1>3
    <2>2. (Len(s) - i) + 1 = (Len(s) - j) + 1
      BY <1>1, <1>2, <1>6, <2>1 DEF IsInjective
    <2> QED
      BY <1>1, <2>2
  <1>7. ASSUME NearlySorted(s, n) PROVE NearlyFalling(r, n)
    <2> SUFFICES ASSUME NEW i \in 1 .. Len(s), NEW j \in 1 .. Len(s), i < j PROVE r[j] < r[i] + n
      BY <1>3 DEF NearlyFalling
    <2>1. (Len(s) - j) + 1 < (Len(s) - i) + 1
      BY <1>1
    <2>2. s[(Len(s) - j) + 1] < s[(Len(s) - i) + 1] + n
      BY <1>1, <1>2, <1>7, <2>1 DEF NearlySorted
    <2> QED
      BY <1>3, <2>2
  <1> QED
    BY <1>4, <1>5, <1>6, <1>7

\* Two sequences, one after the other.
LEMMA ConcatRange ==
  ASSUME NEW a \in Seq(Nat), NEW b \in Seq(Nat), NEW n \in Nat, NEW r, r = a \o b
  PROVE  /\ r \in Seq(Nat) /\ Range(r) = Range(a) \cup Range(b)
         /\ IsInjective(a) /\ IsInjective(b) /\ Range(a) \cap Range(b) = {} => IsInjective(r)
         /\ NearlySorted(a, n) /\ NearlySorted(b, n) /\ (\A x \in Range(a), y \in Range(b) : x < y + n)
              => NearlySorted(r, n)
         /\ NearlyFalling(a, n) /\ NearlyFalling(b, n) /\ (\A x \in Range(a), y \in Range(b) : y < x + n)
              => NearlyFalling(r, n)
  <1> PICK k \in Nat : k = Len(a)
    OBVIOUS
  <1> PICK l \in Nat : l = Len(b)
    OBVIOUS
  <1>1. /\ DOMAIN a = 1 .. k /\ DOMAIN b = 1 .. l /\ DOMAIN r = 1 .. (k + l) /\ r \in Seq(Nat)
        /\ \A i \in 1 .. k : r[i] = a[i]
        /\ \A i \in (k + 1) .. (k + l) : r[i] = b[i - k]
    BY ConcatProperties
  <1>2. \A i \in 1 .. (k + l) : i \in 1 .. k \/ (i \in (k + 1) .. (k + l) /\ i - k \in 1 .. l)
    OBVIOUS
  <1>3. \A i \in 1 .. l : i + k \in (k + 1) .. (k + l) /\ i + k \in 1 .. (k + l) /\ (i + k) - k = i
    OBVIOUS
  <1>4. \A i \in 1 .. k : i \in 1 .. (k + l)
    OBVIOUS
  <1>5. \A i \in DOMAIN r : \/ i \in DOMAIN a /\ r[i] = a[i] /\ a[i] \in Range(a)
                            \/ i \in (k + 1) .. (k + l) /\ i - k \in DOMAIN b /\ r[i] = b[i - k] /\ b[i - k] \in Range(b)
    BY <1>1, <1>2 DEF Range
  <1>6. Range(r) = Range(a) \cup Range(b)
    <2>1. Range(r) \subseteq Range(a) \cup Range(b)
      <3>1. \A i \in DOMAIN r : r[i] \in Range(a) \cup Range(b)
        BY <1>5
      <3> QED
        BY <3>1 DEF Range
    <2>2. Range(a) \subseteq Range(r)
      BY <1>1, <1>4 DEF Range
    <2>3. Range(b) \subseteq Range(r)
      <3>1. \A i \in DOMAIN b : i + k \in DOMAIN r /\ r[i + k] = b[i]
        BY <1>1, <1>3
      <3> QED
        BY <3>1 DEF Range
    <2> QED
      BY <2>1, <2>2, <2>3
  <1>7. ASSUME IsInjective(a), IsInjective(b), Range(a) \cap Range(b) = {} PROVE IsInjective(r)
    <2> SUFFICES ASSUME NEW i \in DOMAIN r, NEW j \in DOMAIN r, r[i] = r[j] PROVE i = j
      BY DEF IsInjective
    <2>1. CASE i \in DOMAIN a /\ r[i] = a[i] /\ a[i] \in Range(a)
      <3>1. j \in DOMAIN a /\ r[j] = a[j]
        BY <1>5, <1>7, <2>1
      <3> QED
        BY <1>7, <2>1, <3>1 DEF IsInjective
    <2>2. CASE i \in (k + 1) .. (k + l) /\ i - k \in DOMAIN b /\ r[i] = b[i - k] /\ b[i - k] \in Range(b)
      <3>1. j \in (k + 1) .. (k + l) /\ j - k \in DOMAIN b /\ r[j] = b[j - k]
        BY <1>5, <1>7, <2>2
      <3>2. i - k = j - k
        BY <1>7, <2>2, <3>1 DEF IsInjective
      <3> QED
        BY <2>2, <3>1, <3>2
    <2> QED
      BY <1>5, <2>1, <2>2
  <1>8. ASSUME NEW i \in DOMAIN r, NEW j \in DOMAIN r, i < j
        PROVE  \/ i \in DOMAIN a /\ r[i] = a[i] /\ j \in DOMAIN a /\ r[j] = a[j]
               \/ r[i] \in Range(a) /\ r[j] \in Range(b)
               \/ i - k \in DOMAIN b /\ r[i] = b[i - k] /\ j - k \in DOMAIN b /\ r[j] = b[j - k] /\ i - k < j - k
    <2>1. i \in DOMAIN a \/ i \in (k + 1) .. (k + l)
      BY <1>5
    <2>2. CASE i \in (k + 1) .. (k + l)
      <3>1. i \notin DOMAIN a /\ j \notin DOMAIN a
        BY <1>1, <1>8, <2>2
      <3>2. i - k < j - k
        BY <1>1, <1>8
      <3> QED
        BY <1>5, <3>1, <3>2
    <2>3. CASE i \in DOMAIN a
      <3>1. i \notin (k + 1) .. (k + l)
        BY <1>1, <2>3
      <3> QED
        BY <1>5, <3>1
    <2> QED
      BY <2>1, <2>2, <2>3
  <1>9. ASSUME NearlySorted(a, n), NearlySorted(b, n), \A x \in Range(a), y \in Range(b) : x < y + n
        PROVE  NearlySorted(r, n)
    <2> SUFFICES ASSUME NEW i \in DOMAIN r, NEW j \in DOMAIN r, i < j PROVE r[i] < r[j] + n
      BY DEF NearlySorted
    <2>1. CASE i \in DOMAIN a /\ r[i] = a[i] /\ j \in DOMAIN a /\ r[j] = a[j]
      BY <1>9, <2>1 DEF NearlySorted
    <2>2. CASE r[i] \in Range(a) /\ r[j] \in Range(b)
      BY <1>9, <2>2
    <2>3. CASE i - k \in DOMAIN b /\ r[i] = b[i - k] /\ j - k \in DOMAIN b /\ r[j] = b[j - k] /\ i - k < j - k
      BY <1>9, <2>3 DEF NearlySorted
    <2> QED
      BY <1>8, <2>1, <2>2, <2>3
  <1>10. ASSUME NearlyFalling(a, n), NearlyFalling(b, n), \A x \in Range(a), y \in Range(b) : y < x + n
         PROVE  NearlyFalling(r, n)
    <2> SUFFICES ASSUME NEW i \in DOMAIN r, NEW j \in DOMAIN r, i < j PROVE r[j] < r[i] + n
      BY DEF NearlyFalling
    <2>1. CASE i \in DOMAIN a /\ r[i] = a[i] /\ j \in DOMAIN a /\ r[j] = a[j]
      BY <1>10, <2>1 DEF NearlyFalling
    <2>2. CASE r[i] \in Range(a) /\ r[j] \in Range(b)
      BY <1>10, <2>2
    <2>3. CASE i - k \in DOMAIN b /\ r[i] = b[i - k] /\ j - k \in DOMAIN b /\ r[j] = b[j - k] /\ i - k < j - k
      BY <1>10, <2>3 DEF NearlyFalling
    <2> QED
      BY <1>8, <2>1, <2>2, <2>3
  <1> QED
    BY <1>1, <1>6, <1>7, <1>9, <1>10

\* The same, as its users need it.
LEMMA ConcatFalling ==
  ASSUME NEW a \in Seq(Nat), NEW b \in Seq(Nat), NEW n \in Nat,
         NearlyFalling(a, n), NearlyFalling(b, n), \A x \in Range(a), y \in Range(b) : y < x + n
  PROVE  NearlyFalling(a \o b, n)
  BY ConcatRange

\* Two nearly sorted sequences.
LEMMA ConcatSorted ==
  ASSUME NEW a \in Seq(Nat), NEW b \in Seq(Nat), NEW n \in Nat,
         NearlySorted(a, n), NearlySorted(b, n), \A x \in Range(a), y \in Range(b) : x < y + n
  PROVE  NearlySorted(a \o b, n)
  BY ConcatRange

\* Two sequences that share nothing.
LEMMA ConcatInjective ==
  ASSUME NEW a \in Seq(Nat), NEW b \in Seq(Nat)
  PROVE  /\ a \o b \in Seq(Nat) /\ Range(a \o b) = Range(a) \cup Range(b)
         /\ IsInjective(a) /\ IsInjective(b) /\ Range(a) \cap Range(b) = {} => IsInjective(a \o b)
  <1>1. 0 \in Nat
    OBVIOUS
  <1> QED
    BY <1>1, ConcatRange

\* Events are in days, and the later ones in later days.
LEMMA DaysOfEvents ==
  /\ Len(EventDay) \in Nat /\ Event = 1 .. Len(EventDay) /\ EventDay[Len(EventDay)] \in Nat
  /\ \A e \in Event : e \in Nat /\ EventDay[e] \in Days /\ EventDay[e] \in Nat
  /\ \A e, f \in Event : EventDay[e] < EventDay[f] => e < f
  <1>1. EventDay \in Seq(Nat \ {0}) /\ EventDay # <<>>
    BY ArchiveAssumption
  <1>2. Len(EventDay) \in Nat /\ Event = 1 .. Len(EventDay) /\ Len(EventDay) >= 1
    BY <1>1 DEF Event
  <1>3. \A e \in Event : e \in Nat /\ EventDay[e] \in Nat \ {0}
    BY <1>1, <1>2
  <1>4. \A e, f \in Event : e <= f => EventDay[e] <= EventDay[f]
    BY ArchiveAssumption DEF Event
  <1>5. Len(EventDay) \in Event
    BY <1>2
  <1>6. \A e \in Event : EventDay[e] <= EventDay[Len(EventDay)]
    BY <1>2, <1>4, <1>5
  <1>7. \A e \in Event : EventDay[e] \in Days
    BY <1>3, <1>5, <1>6 DEF Days
  <1>8. ASSUME NEW e \in Event, NEW f \in Event, EventDay[e] < EventDay[f] PROVE e < f
    <2>1. CASE f <= e
      <3>1. EventDay[f] <= EventDay[e]
        BY <1>4, <2>1
      <3> QED
        BY <1>3, <1>8, <3>1
    <2> QED
      BY <1>3, <2>1
  <1> QED
    BY <1>2, <1>3, <1>5, <1>7, <1>8

\* The archive holds events of the right day, each once, and nearly sorted.
Filed(f) ==
  /\ f \in [Days -> [lines : Seq(Event), torn : BOOLEAN]]
  /\ \A d \in Days : /\ \A e \in Range(f[d].lines) : EventDay[e] = d
                     /\ IsInjective(f[d].lines)
                     /\ NearlySorted(f[d].lines, EventWindow)

\* Where the newest come first, there are few before one of them.
LEMMA NewestFirst ==
  ASSUME NEW s \in Seq(Nat), IsInjective(s), NearlyFalling(s, EventWindow),
         NEW top \in Nat, \A e \in Range(s) : e <= top,
         NEW p \in 1 .. Len(s), s[p] + EventWindow > top
  PROVE  p <= ArchivedLimit
  <1>0. EventWindow \in Nat /\ EventWindow > 0 /\ ArchivedLimit \in Nat /\ 2 * EventWindow <= ArchivedLimit
    BY ArchiveAssumption
  <1>1. p \in Nat /\ p >= 1 /\ Len(s) \in Nat /\ \A i \in 1 .. p : i \in DOMAIN s /\ s[i] \in Nat /\ s[i] \in Range(s)
    BY DEF Range
  <1>2. PICK x \in Nat : x = s[p]
    BY <1>1
  <1>00. PICK n \in Nat : n = EventWindow
    BY <1>0
  <1> PICK r : r = SubSeq(s, 1, p)
    OBVIOUS
  <1>3. r \in Seq(Nat) /\ Len(r) = p /\ \A i \in 1 .. p : r[i] = s[i]
    <2>1. 1 \in Int /\ p \in Int /\ \A i \in 1 .. p : s[i] \in Nat
      BY <1>1
    <2>2. r \in Seq(Nat) /\ Len(r) = p - 1 + 1 /\ \A i \in 1 .. p - 1 + 1 : r[i] = s[1 + i - 1]
      BY <1>1, <2>1, SubSeqProperties
    <2> QED
      BY <1>1, <2>2
  <1>4. IsInjective(r)
    <2>1. DOMAIN r = 1 .. p
      BY <1>3
    <2> QED
      BY <1>1, <1>3, <2>1 DEF IsInjective
  <1>5. PICK a \in Int, b \in Int : a = x + 1 - n /\ b = x + n - 1
    OBVIOUS
  <1>55. a <= b + 1 /\ b + 1 - a = 2 * n - 1
    BY <1>0, <1>00, <1>5
  <1>6. \A i \in 1 .. p : r[i] \in a .. b
    <2> TAKE i \in 1 .. p
    <2>1. s[i] \in Nat /\ s[i] <= top /\ i \in DOMAIN s /\ p \in DOMAIN s
      BY <1>1
    <2>2. i = p \/ s[p] < s[i] + EventWindow
      BY <2>1 DEF NearlyFalling
    <2>3. PICK y \in Nat : y = s[i]
      BY <2>1
    <2>4. y <= top /\ top < x + n /\ x < y + n
      BY <1>0, <1>00, <1>2, <2>1, <2>2, <2>3
    <2>5. a <= y /\ y <= b
      BY <1>5, <2>4
    <2> QED
      BY <1>3, <2>3, <2>5
  <1>7. r \in Seq(a .. b)
    BY <1>3, <1>6, SeqOfSubset
  <1>8. Len(r) <= b + 1 - a
    BY <1>4, <1>55, <1>7, PigeonHole
  <1> QED
    BY <1>0, <1>00, <1>1, <1>3, <1>55, <1>8

\* An element is in every prefix that reaches it.
LEMMA InPrefix ==
  ASSUME NEW s \in Seq(Nat), NEW q \in 0 .. Len(s), NEW p \in 1 .. q
  PROVE  s[p] \in Range(SubSeq(s, 1, q))
  <1>1. q \in Int /\ 1 \in Int /\ \A i \in 1 .. q : s[i] \in Nat
    OBVIOUS
  <1> PICK r : r = SubSeq(s, 1, q)
    OBVIOUS
  <1>2. r \in Seq(Nat) /\ (1 <= q => Len(r) = q - 1 + 1) /\ \A i \in 1 .. q - 1 + 1 : r[i] = s[1 + i - 1]
    BY <1>1, SubSeqProperties
  <1>3. p \in DOMAIN r /\ r[p] = s[p]
    BY <1>1, <1>2
  <1> QED
    BY <1>3 DEF Range

\* A new process remembers every archived event of the newest.
LEMMA LoadedKeeps ==
  ASSUME NEW f, Filed(f), NEW top \in Nat, \A e \in OnDisk(f) : e <= top
  PROVE  \A e \in OnDisk(f) : e + EventWindow > top => e \in Range(Loaded(f))
  <1> PICK D \in Nat : D = EventDay[Len(EventDay)]
    BY DaysOfEvents
  <1> DEFINE T == Seq(Nat)
             Step(s, d) == Reverse(f[d].lines) \o s
             Def(k, d) == IF d = 0 THEN <<>> ELSE Step(k[d - 1], d)
             ids == CHOOSE k : k = [d \in 0 .. D |-> Def(k, d)]
             F == [d \in 1 .. D |-> [s \in T |-> Step(s, d)]]
  <1>0. /\ Days = 1 .. D /\ EventWindow \in Nat
        /\ \A d \in 1 .. D : /\ f[d].lines \in Seq(Event) /\ f[d].lines \in Seq(Nat)
                             /\ \A e \in Range(f[d].lines) : EventDay[e] = d /\ e \in Event /\ e \in Nat
                             /\ IsInjective(f[d].lines) /\ NearlySorted(f[d].lines, EventWindow)
    <2>1. Days = 1 .. D /\ EventWindow \in Nat
      BY Limits DEF Days
    <2>2. ASSUME NEW d \in 1 .. D
          PROVE  /\ f[d].lines \in Seq(Event) /\ f[d].lines \in Seq(Nat)
                 /\ \A e \in Range(f[d].lines) : e \in Event /\ e \in Nat
      <3>1. f[d] \in [lines : Seq(Event), torn : BOOLEAN]
        BY <2>1 DEF Filed
      <3>2. f[d].lines \in Seq(Event)
        BY <3>1
      <3>3. \A e \in Event : e \in Nat
        BY DaysOfEvents
      <3> PICK s : s = f[d].lines
        OBVIOUS
      <3>4. s \in Seq(Nat) /\ \A e \in Range(s) : e \in Event
        BY <3>2, <3>3 DEF Range
      <3> QED
        BY <3>2, <3>3, <3>4
    <2> QED
      BY <2>1, <2>2 DEF Filed
  <1>1. Loaded(f) = SubSeq(ids[D], 1, IF Len(ids[D]) < ArchivedLimit THEN Len(ids[D]) ELSE ArchivedLimit)
    BY DEF Loaded
  <1>2. ids = [d \in 0 .. D |-> Def(ids, d)]
    <2>1. \A d \in 1 .. D : \A s \in T : F[d][s] = Step(s, d)
      OBVIOUS
    <2>2. \A d \in 1 .. D : \A s \in T : F[d][s] \in T
      <3> SUFFICES ASSUME NEW d \in 1 .. D, NEW s \in T PROVE Step(s, d) \in T
        BY <2>1
      <3>1. Reverse(f[d].lines) \in Seq(Nat)
        <4>1. f[d].lines \in Seq(Nat) /\ 0 \in Nat
          BY <1>0
        <4> QED
          BY <4>1, ReverseProperties
      <3> QED
        BY <3>1, ConcatProperties
    <2>3. <<>> \in T
      OBVIOUS
    <2> HIDE DEF T, F, Step
    <2>4. \E g : Steps(g, <<>>, F, D, T)
      BY <2>2, <2>3, Recursion
    <2>5. PICK g : Steps(g, <<>>, F, D, T)
      BY <2>4
    <2>6. \A d \in 1 .. D : g[d] = Step(g[d - 1], d)
      <3> TAKE d \in 1 .. D
      <3>1. d - 1 \in 0 .. D
        OBVIOUS
      <3> QED
        BY <2>1, <2>5, <3>1 DEF Steps
    <2>7. \A d \in 0 .. D : g[d] = Def(g, d)
      BY <2>5, <2>6 DEF Steps
    <2>8. g = [d \in 0 .. D |-> g[d]]
      BY <2>5 DEF Steps
    <2> HIDE DEF Def
    <2>9. g = [d \in 0 .. D |-> Def(g, d)]
      BY <2>7, <2>8
    <2> QED
      BY <2>9
  <1> HIDE DEF ids
  <1> DEFINE Upto(n) == UNION {Range(f[d].lines) : d \in 1 .. n}
             Good(n) == /\ ids[n] \in Seq(Nat) /\ IsInjective(ids[n]) /\ NearlyFalling(ids[n], EventWindow)
                        /\ Range(ids[n]) = Upto(n)
             S == {n \in Nat : n <= D => Good(n)}
  <1>3. 0 \in S
    <2>1. ids[0] = <<>>
      BY <1>2
    <2>2. Upto(0) = {}
      OBVIOUS
    <2> HIDE DEF Upto
    <2>3. Good(0)
      BY <2>1, <2>2 DEF IsInjective, NearlyFalling, Range
    <2> QED
      BY <2>3
  <1>4. ASSUME NEW n \in Nat, n \in S PROVE n + 1 \in S
    <2> HIDE DEF Good
    <2> SUFFICES ASSUME n + 1 <= D PROVE Good(n + 1)
      OBVIOUS
    <2>1. Good(n) /\ (n + 1) \in 1 .. D /\ (n + 1) \in 0 .. D /\ (n + 1) - 1 = n /\ n + 1 # 0
      BY <1>4
    <2> HIDE DEF Step, Upto
    <2>2. ids[n + 1] = Step(ids[n], n + 1)
      BY <1>2, <2>1
    <2> PICK m : m = ids[n]
      OBVIOUS
    <2> PICK w : w = ids[n + 1]
      OBVIOUS
    <2> PICK s : s = f[n + 1].lines
      OBVIOUS
    <2>3. m \in Seq(Nat) /\ IsInjective(m) /\ NearlyFalling(m, EventWindow) /\ Range(m) = Upto(n)
      BY <2>1 DEF Good
    <2>4. /\ s \in Seq(Nat) /\ IsInjective(s) /\ NearlySorted(s, EventWindow)
          /\ \A e \in Range(s) : EventDay[e] = n + 1 /\ e \in Event
      BY <1>0, <2>1
    <2> PICK r : r = Reverse(s)
      OBVIOUS
    <2>5. r \in Seq(Nat) /\ Range(r) = Range(s) /\ IsInjective(r) /\ NearlyFalling(r, EventWindow)
      BY <1>0, <2>4, ReverseProperties
    <2>6. w = r \o m
      BY <2>2 DEF Step
    <2>7. \A e \in Upto(n) : e \in Event /\ EventDay[e] < n + 1
      <3>1. \A d \in 1 .. n : d \in 1 .. D /\ d < n + 1
        BY <2>1
      <3> QED
        BY <1>0, <3>1 DEF Upto
    <2>8. \A x \in Range(r), y \in Range(m) : y < x
      <3> TAKE x \in Range(r), y \in Range(m)
      <3>1. x \in Event /\ y \in Event /\ EventDay[y] < EventDay[x]
        BY <2>3, <2>4, <2>5, <2>7
      <3> QED
        BY <3>1, DaysOfEvents
    <2>9. \A x \in Range(r), y \in Range(m) : x \in Nat /\ y \in Nat
      <3>1. r \in Seq(Nat) /\ m \in Seq(Nat)
        BY <2>3, <2>5
      <3> QED
        BY <3>1, RangeType
    <2>10. Range(r) \cap Range(m) = {} /\ \A x \in Range(r), y \in Range(m) : y < x + EventWindow
      BY <1>0, <2>8, <2>9
    <2>11. /\ w \in Seq(Nat) /\ Range(w) = Range(r) \cup Range(m)
           /\ IsInjective(w) /\ NearlyFalling(w, EventWindow)
      <3>1. EventWindow \in Nat /\ r \in Seq(Nat) /\ m \in Seq(Nat)
        BY <1>0, <2>3, <2>5
      <3>2. NearlyFalling(r \o m, EventWindow)
        BY <2>3, <2>5, <2>10, <3>1, ConcatFalling
      <3>3. r \o m \in Seq(Nat) /\ Range(r \o m) = Range(r) \cup Range(m) /\ IsInjective(r \o m)
        BY <2>3, <2>5, <2>10, <3>1, ConcatInjective
      <3> QED
        BY <2>6, <3>2, <3>3
    <2>12. Upto(n + 1) = Upto(n) \cup Range(s)
      BY OneMoreIndex DEF Upto
    <2> QED
      BY <2>3, <2>5, <2>11, <2>12 DEF Good
  <1> HIDE DEF S
  <1>5. D \in S
    BY <1>3, <1>4, SetInduction
  <1>6. Upto(D) = OnDisk(f)
    BY <1>0 DEF OnDisk
  <1> HIDE DEF Upto
  <1>7. Good(D)
    <2> HIDE DEF Good
    <2> QED
      BY <1>5 DEF S
  <1> PICK s : s = ids[D]
    OBVIOUS
  <1>8. s \in Seq(Nat) /\ IsInjective(s) /\ NearlyFalling(s, EventWindow) /\ Range(s) = OnDisk(f)
    BY <1>6, <1>7
  <1> SUFFICES ASSUME NEW e \in OnDisk(f), e + EventWindow > top PROVE e \in Range(Loaded(f))
    OBVIOUS
  <1>9. PICK p \in 1 .. Len(s) : s[p] = e
    BY <1>8 DEF Range
  <1>10. p <= ArchivedLimit
    BY <1>8, <1>9, NewestFirst
  <1> PICK q : q = IF Len(s) < ArchivedLimit THEN Len(s) ELSE ArchivedLimit
    OBVIOUS
  <1>11. q \in 0 .. Len(s) /\ p \in 1 .. q
    <2>1. ArchivedLimit \in Nat /\ Len(s) \in Nat
      <3>1. ArchivedLimit \in Nat
        BY ArchiveAssumption
      <3>2. Len(s) \in Nat
        BY <1>8
      <3> QED
        BY <3>1, <3>2
    <2>2. q \in 0 .. Len(s) /\ q \in Int
      BY <2>1
    <2>3. p \in 1 .. Len(s) /\ p <= q
      BY <1>9, <1>10, <2>1
    <2> QED
      BY <2>1, <2>2, <2>3
  <1>12. s[p] \in Range(SubSeq(s, 1, q))
    BY <1>8, <1>11, InPrefix
  <1> QED
    BY <1>1, <1>9, <1>12

-----------------------------------------------------------------------------
(* What a window holds. *)

\* Newest keeps the end of a sequence.
LEMMA NewestElements ==
  ASSUME NEW n \in Nat, NEW s \in Seq(Nat), NEW r, r = Newest(n, s)
  PROVE  /\ r \in Seq(Nat) /\ Len(r) = (IF Len(s) <= n THEN Len(s) ELSE n)
         /\ \A i \in 1 .. Len(r) : r[i] = s[i + (Len(s) - Len(r))]
  <1> PICK l \in Nat : l = Len(s)
    OBVIOUS
  <1>0. \A i \in 1 .. l : s[i] \in Nat
    OBVIOUS
  <1>1. CASE l <= n
    <2>1. r = s
      BY <1>1 DEF Newest
    <2>2. \A i \in 1 .. l : i + (l - l) = i
      OBVIOUS
    <2> QED
      BY <1>1, <2>1, <2>2
  <1>2. CASE ~(l <= n)
    <2>1. r = SubSeq(s, l - n + 1, l)
      BY <1>2 DEF Newest
    <2>2. l - n + 1 \in Int /\ l \in Int /\ \A i \in (l - n + 1) .. l : s[i] \in Nat
      BY <1>0, <1>2
    <2>3. /\ r \in Seq(Nat) /\ Len(r) = (IF l - n + 1 <= l THEN l - (l - n + 1) + 1 ELSE 0)
          /\ \A i \in 1 .. l - (l - n + 1) + 1 : r[i] = s[(l - n + 1) + i - 1]
      BY <2>1, <2>2, SubSeqProperties
    <2>4. Len(r) = n
      BY <1>2, <2>3
    <2>5. \A i \in 1 .. n : i \in 1 .. l - (l - n + 1) + 1 /\ (l - n + 1) + i - 1 = i + (l - n)
      BY <1>2
    <2>6. \A i \in 1 .. n : r[i] = s[i + (l - n)]
      BY <2>3, <2>5
    <2> QED
      BY <1>2, <2>3, <2>4, <2>6
  <1> QED
    BY <1>1, <1>2

\* s is the n numbers up to one.
Ends(s, n, to) == s \in Seq(Nat) /\ Len(s) = n /\ \A i \in 1 .. n : s[i] = (to - n) + i


\* The lines of a file up to one of them.
LEMMA IntervalEnds ==
  ASSUME NEW from \in Nat, NEW to \in Int, from <= to + 1
  PROVE  Ends(Interval(from, to), (to + 1) - from, to)
  <1>1. PICK l \in Nat : l = (to + 1) - from
    OBVIOUS
  <1>2. PICK r : r = Interval(from, to)
    OBVIOUS
  <1>3. r = [i \in 1 .. l |-> from + i - 1]
    BY <1>1, <1>2 DEF Interval
  <1>4. \A i \in 1 .. l : from + i - 1 \in Nat /\ from + i - 1 = (to - l) + i
    BY <1>1
  <1>5. r \in [1 .. l -> Nat]
    BY <1>3, <1>4
  <1>6. r \in Seq(Nat) /\ Len(r) = l
    BY <1>5, SeqDef, LenProperties
  <1>7. Ends(r, l, to)
    BY <1>3, <1>4, <1>6 DEF Ends
  <1> QED
    BY <1>1, <1>2, <1>7

\* The newest of consecutive lines.
LEMMA NewestEnds ==
  ASSUME NEW s, NEW m \in Nat, NEW to \in Int, Ends(s, m, to), NEW n \in Nat
  PROVE  Ends(Newest(n, s), AtMost(n, m), to)
  <1>1. s \in Seq(Nat) /\ Len(s) = m /\ \A i \in 1 .. m : s[i] = (to - m) + i
    BY DEF Ends
  <1>2. PICK r : r = Newest(n, s)
    OBVIOUS
  <1>3. /\ r \in Seq(Nat) /\ Len(r) = (IF Len(s) <= n THEN Len(s) ELSE n)
        /\ \A i \in 1 .. Len(r) : r[i] = s[i + (Len(s) - Len(r))]
    <2>1. s \in Seq(Nat)
      BY <1>1
    <2> QED
      BY <1>2, <2>1, NewestElements
  <1>4. PICK l \in Nat : l = AtMost(n, m)
    <2>1. AtMost(n, m) = n \/ AtMost(n, m) = m
      BY DEF AtMost
    <2> QED
      BY <2>1
  <1>5. Len(r) = l
    BY <1>1, <1>3, <1>4 DEF AtMost
  <1>6. ASSUME NEW i \in 1 .. l PROVE r[i] = (to - l) + i
    <2>1. PICK j \in Int : j = i + (m - l)
      OBVIOUS
    <2>2. r[i] = s[j]
      BY <1>1, <1>3, <1>5, <2>1
    <2>3. j \in 1 .. m
      BY <1>4, <2>1 DEF AtMost
    <2>4. s[j] = (to - m) + j
      BY <1>1, <2>3
    <2> QED
      BY <2>1, <2>2, <2>4
  <1>7. Ends(r, l, to)
    BY <1>3, <1>5, <1>6 DEF Ends
  <1> QED
    BY <1>2, <1>4, <1>7

\* A window, newest newest: the end of the rotated file and the end of the log.
Shape(w, k, l, n, previous, current, from, upto) ==
  /\ k \in Nat /\ l \in Nat /\ n \in Nat /\ w \in Seq(Nat) /\ Len(w) = n
  /\ l = AtMost(ScanLines, (upto + 1) - from)
  /\ k = AtMost(ScanLines - l, current - previous)
  /\ n = AtMost(EventWindow, k + l)
  /\ \A i \in 1 .. n : w[i] = IF i <= n - l THEN (current - 1) + (l - n) + i ELSE (upto - n) + i

\* Window, of what a run has read and of where the files begin and end.
WindowOf(previous, current, from, upto) ==
  LET lines == Newest(ScanLines, Interval(from, upto))
      more == Interval(previous, current - 1)
  IN  Newest(EventWindow, Newest(ScanLines - Len(lines), more) \o lines)

\* The lines of the rotated file that are read are in front of those of the log, and the
\* window is the newest of both.
LEMMA WindowShape ==
  ASSUME NEW previous \in Nat, NEW current \in Nat, NEW from \in Nat, NEW upto \in Nat,
         previous <= current, from <= upto + 1
  PROVE  \E k, l, n : Shape(WindowOf(previous, current, from, upto), k, l, n, previous, current, from, upto)
  <1>1. EventWindow \in Nat /\ ScanLines \in Nat
    BY ArchiveAssumption
  <1>2. PICK lines : lines = Newest(ScanLines, Interval(from, upto))
    OBVIOUS
  <1>3. PICK m \in Nat : m = (upto + 1) - from
    OBVIOUS
  <1>4. PICK l \in Nat : l = AtMost(ScanLines, m)
    BY <1>1 DEF AtMost
  <1>5. Ends(lines, l, upto)
    <2>1. Ends(Interval(from, upto), m, upto)
      BY <1>3, IntervalEnds
    <2> QED
      BY <1>1, <1>2, <1>4, <2>1, NewestEnds
  <1>6. lines \in Seq(Nat) /\ Len(lines) = l /\ \A i \in 1 .. l : lines[i] = (upto - l) + i
    BY <1>5 DEF Ends
  <1>7. ScanLines - l \in Nat
    BY <1>1, <1>4 DEF AtMost
  <1>8. PICK more : more = Newest(ScanLines - l, Interval(previous, current - 1))
    OBVIOUS
  <1>9. PICK q \in Nat : q = current - previous
    OBVIOUS
  <1>10. PICK k \in Nat : k = AtMost(ScanLines - l, q)
    BY <1>7 DEF AtMost
  <1>11. Ends(more, k, current - 1)
    <2>1. Ends(Interval(previous, current - 1), q, current - 1)
      <3>1. q = ((current - 1) + 1) - previous /\ current - 1 \in Int /\ previous <= (current - 1) + 1
        BY <1>9
      <3> QED
        BY <3>1, IntervalEnds
    <2> QED
      BY <1>7, <1>8, <1>10, <2>1, NewestEnds
  <1>12. more \in Seq(Nat) /\ Len(more) = k /\ \A i \in 1 .. k : more[i] = ((current - 1) - k) + i
    BY <1>11 DEF Ends
  <1>13. PICK c : c = more \o lines
    OBVIOUS
  <1>14. c \in Seq(Nat) /\ Len(c) = k + l /\ \A j \in 1 .. k + l : c[j] = IF j <= k THEN more[j] ELSE lines[j - k]
    <2>1. /\ more \o lines \in Seq(Nat) /\ Len(more \o lines) = Len(more) + Len(lines)
          /\ \A j \in 1 .. Len(more) + Len(lines) :
               (more \o lines)[j] = IF j <= Len(more) THEN more[j] ELSE lines[j - Len(more)]
      BY <1>6, <1>12, ConcatProperties
    <2> QED
      BY <1>6, <1>12, <1>13, <2>1
  <1>15. PICK w : w = Newest(EventWindow, c)
    OBVIOUS
  <1>16. /\ w \in Seq(Nat) /\ Len(w) = (IF Len(c) <= EventWindow THEN Len(c) ELSE EventWindow)
         /\ \A i \in 1 .. Len(w) : w[i] = c[i + (Len(c) - Len(w))]
    <2>1. c \in Seq(Nat)
      BY <1>14
    <2> QED
      BY <1>1, <1>15, <2>1, NewestElements
  <1>17. PICK n \in Nat : n = AtMost(EventWindow, k + l)
    BY <1>1 DEF AtMost
  <1>18. Len(w) = n /\ n <= k + l
    BY <1>1, <1>14, <1>16, <1>17 DEF AtMost
  <1>19. w = WindowOf(previous, current, from, upto)
    BY <1>2, <1>6, <1>8, <1>13, <1>15 DEF WindowOf
  <1>20. ASSUME NEW i \in 1 .. n
         PROVE  w[i] = IF i <= n - l THEN (current - 1) + (l - n) + i ELSE (upto - n) + i
    <2>1. PICK j \in Int : j = i + ((k + l) - n)
      OBVIOUS
    <2>2. j \in 1 .. k + l
      BY <1>18, <2>1
    <2>3. w[i] = c[j]
      BY <1>14, <1>16, <1>18, <2>1
    <2>4. CASE i <= n - l
      <3>1. j <= k /\ j \in 1 .. k
        BY <2>1, <2>2, <2>4
      <3>2. w[i] = ((current - 1) - k) + j
        BY <1>12, <1>14, <2>2, <2>3, <3>1
      <3> QED
        BY <2>1, <2>4, <3>2
    <2>5. CASE ~(i <= n - l)
      <3>1. ~(j <= k) /\ j - k \in 1 .. l
        BY <2>1, <2>2, <2>5
      <3>2. w[i] = (upto - l) + (j - k)
        BY <1>6, <1>14, <2>2, <2>3, <3>1
      <3> QED
        BY <2>1, <2>5, <3>2
    <2> QED
      BY <2>4, <2>5
  <1>21. Shape(w, k, l, n, previous, current, from, upto)
    BY <1>3, <1>4, <1>9, <1>10, <1>16, <1>17, <1>18, <1>20 DEF Shape
  <1> QED
    BY <1>19, <1>21

\* Where the files, what is read of them and the oldest line of a window begin and end.
LogLines(previous, current, newest, from, upto, floor) ==
  /\ previous \in Nat /\ current \in Nat /\ newest \in Nat /\ from \in Nat /\ upto \in Nat /\ floor \in Nat
  /\ 1 <= previous /\ previous <= current /\ current <= newest + 1 /\ upto <= newest /\ 1 <= from /\ from <= upto + 1
  /\ from = current \/ (from < current /\ from <= previous /\ upto < current)
  /\ floor = IF from < current THEN from ELSE previous

\* What the window then holds: every line of the newest that was read, and no older ones.
Holds(w, newest, upto, floor) ==
  /\ w \in Seq(Nat)
  /\ \A e \in Range(w) : e \in Nat /\ floor <= e /\ 1 <= e /\ e <= newest /\ upto < e + EventWindow
  /\ \A e \in Nat : floor <= e /\ e <= upto /\ upto < e + EventWindow => e \in Range(w)

\* That follows from where the files begin and end, before and after a rotation.
LEMMA WindowElements ==
  ASSUME NEW previous, NEW current, NEW newest, NEW from, NEW upto, NEW floor,
         LogLines(previous, current, newest, from, upto, floor)
  PROVE  Holds(WindowOf(previous, current, from, upto), newest, upto, floor)
  <1>0. /\ previous \in Nat /\ current \in Nat /\ newest \in Nat /\ from \in Nat /\ upto \in Nat /\ floor \in Nat
        /\ 1 <= previous /\ previous <= current /\ current <= newest + 1 /\ upto <= newest /\ 1 <= from /\ from <= upto + 1
        /\ from = current \/ (from < current /\ from <= previous /\ upto < current)
        /\ floor = IF from < current THEN from ELSE previous
    BY DEF LogLines
  <1> USE <1>0
  <1>w. PICK w : w = WindowOf(previous, current, from, upto)
    OBVIOUS
  <1>1. EventWindow \in Nat /\ ScanLines \in Nat /\ EventWindow <= ScanLines
    BY ArchiveAssumption
  <1>2. PICK k, l, n : Shape(w, k, l, n, previous, current, from, upto)
    <2>1. \E k, l, n : Shape(WindowOf(previous, current, from, upto), k, l, n, previous, current, from, upto)
      BY WindowShape
    <2> QED
      BY <1>w, <2>1
  <1>3. k \in Nat /\ l \in Nat /\ n \in Nat /\ w \in Seq(Nat) /\ DOMAIN w = 1 .. n
    BY <1>2 DEF Shape
  <1>4. /\ l <= ScanLines /\ l <= (upto + 1) - from /\ (l = ScanLines \/ l = (upto + 1) - from)
        /\ k <= current - previous /\ k <= ScanLines - l /\ (k = current - previous \/ k = ScanLines - l)
        /\ n <= k + l /\ n <= EventWindow /\ (n = k + l \/ n = EventWindow)
    <2>1. l = AtMost(ScanLines, (upto + 1) - from) /\ k = AtMost(ScanLines - l, current - previous)
          /\ n = AtMost(EventWindow, k + l)
      BY <1>2 DEF Shape
    <2> QED
      BY <1>1, <1>3, <2>1 DEF AtMost
  <1>5. \A i \in 1 .. n : w[i] = IF i <= n - l THEN (current - 1) + (l - n) + i ELSE (upto - n) + i
    BY <1>2 DEF Shape
  <1>6. ASSUME NEW i \in 1 .. n
        PROVE  w[i] \in Nat /\ floor <= w[i] /\ 1 <= w[i] /\ w[i] <= newest /\ upto < w[i] + EventWindow
    <2>1. CASE i <= n - l
      <3>1. PICK x \in Int : x = (current - 1) + (l - n) + i
        BY <1>3
      <3>2. w[i] = x
        BY <1>5, <2>1, <3>1
      <3>3. previous <= x /\ x <= current - 1
        BY <1>3, <1>4, <2>1, <3>1
      <3>4. upto < x + EventWindow
        <4>1. CASE from = current
          <5>1. l = (upto + 1) - from
            BY <1>1, <1>3, <1>4, <2>1
          <5> QED
            BY <1>1, <1>3, <1>4, <3>1, <4>1, <5>1
        <4>2. CASE upto < current
          BY <1>1, <1>3, <1>4, <3>1, <4>2
        <4> QED
          BY <4>1, <4>2
      <3> QED
        BY <3>2, <3>3, <3>4
    <2>2. CASE ~(i <= n - l)
      <3>1. PICK x \in Int : x = (upto - n) + i
        BY <1>3
      <3>2. w[i] = x
        BY <1>5, <2>2, <3>1
      <3>3. from <= x /\ x <= upto
        BY <1>3, <1>4, <2>2, <3>1
      <3>4. upto < x + EventWindow
        BY <1>1, <1>3, <1>4, <3>1
      <3> QED
        BY <3>2, <3>3, <3>4
    <2> QED
      BY <2>1, <2>2
  <1>7. ASSUME NEW e \in Nat, floor <= e, e <= upto, upto < e + EventWindow PROVE e \in Range(w)
    <2>1. PICK i \in Int : i = (e - upto) + n
      BY <1>3
    <2>2. CASE from <= e
      <3>1. upto - l < e
        BY <1>1, <1>3, <1>4, <1>7, <2>2
      <3>2. i \in 1 .. n /\ ~(i <= n - l)
        BY <1>1, <1>3, <1>4, <1>7, <2>1, <3>1
      <3>3. w[i] = e
        BY <1>3, <1>5, <2>1, <3>2
      <3> QED
        BY <1>3, <3>2, <3>3 DEF Range
    <2>3. CASE e < from
      <3>1. from = current /\ previous <= e
        BY <1>7, <2>3
      <3>2. l = (upto + 1) - from
        BY <1>1, <1>3, <1>4, <1>7, <2>3
      <3>3. i \in 1 .. n /\ i <= n - l
        BY <1>1, <1>3, <1>4, <1>7, <2>1, <2>3, <3>1, <3>2
      <3>4. w[i] = e
        BY <1>3, <1>5, <2>1, <3>1, <3>2, <3>3
      <3> QED
        BY <1>3, <3>3, <3>4 DEF Range
    <2> QED
      BY <2>2, <2>3
  <1> QED
    <2>1. \A e \in Range(w) : e \in Nat /\ floor <= e /\ 1 <= e /\ e <= newest /\ upto < e + EventWindow
      BY <1>3, <1>6 DEF Range
    <2>2. Holds(w, newest, upto, floor)
      BY <1>3, <1>7, <2>1 DEF Holds
    <2> QED
      BY <1>w, <2>2

-----------------------------------------------------------------------------
(* The invariant. *)

\* The run that reads has read the log, and not yet the rotated file.
Reading == reader.step = "current"

\* The newest event it has read, and the oldest one that is still in a file.
Top == IF Reading THEN reader.upto ELSE seclog.last
Floor == IF Reading /\ reader.from < seclog.current THEN reader.from ELSE seclog.previous

\* Where the files, and what a run has read of them, begin and end.
LogInv ==
  /\ seclog \in [previous : Nat, current : Nat, last : Nat]
  /\ reader \in [step : {"idle", "current", "priming"}, from : Nat, upto : Nat, lines : Seq(Nat)]
  /\ 1 <= seclog.previous /\ seclog.previous <= seclog.current
  /\ seclog.current <= seclog.last + 1 /\ seclog.last <= Len(EventDay)
  /\ Reading =>
       /\ 1 <= reader.from /\ reader.from <= reader.upto + 1
       /\ reader.upto <= seclog.last /\ seclog.last <= reader.upto + ReadBurst
       /\ \/ reader.from = seclog.current
          \/ /\ reader.from < seclog.current
             /\ reader.from <= seclog.previous /\ reader.upto < seclog.current

\* What an entry of the queue asks to be archived.
Asked(q, k) == q[k] \ Purge

\* An event is in one entry, after what is older by a window.
Queued(q, f) ==
  /\ q \in Seq(SUBSET Nat)
  /\ \A k \in DOMAIN q : q[k] = Purge \/ q[k] \subseteq Event
  /\ \A j, k \in DOMAIN q : j < k =>
       \A e \in Asked(q, j), g \in Asked(q, k) : e # g /\ e < g + EventWindow
  /\ \A k \in DOMAIN q : \A e \in OnDisk(f), g \in Asked(q, k) : e < g + EventWindow

\* What is asked for and not remembered is not in the archive yet.
Fresh(q, f, a, p) ==
  \A k \in DOMAIN q : \A e \in Asked(q, k) : e \in OnDisk(f) => e \in Range(a) /\ ~p

\* An event that was handed over, is asked for, or is archived;
Met(e) == e \in OnDisk(files) \/ (\E k \in DOMAIN queue : e \in Asked(queue, k)) \/ handed[e] # 0

\* Nothing is archived, asked for or handed over ahead of what has been read.
KnownInv ==
  /\ handed \in [Event -> {0, 1}]
  /\ \A e \in Event : Met(e) => e <= Top

\* Between a start and the end of the first run.
WaitingInv ==
  ~primed =>
    /\ seen = <<>>
    /\ reader.step # "priming" =>
         /\ \A k \in DOMAIN queue : queue[k] = Purge
         /\ \A e \in OnDisk(files) : e \in Range(archived) \/ e + EventWindow <= Top
    /\ reader.step = "priming" =>
         \A j, k \in DOMAIN queue : queue[j] # Purge /\ queue[k] # Purge => j = k

\* What a run remembers of the events, or is about to.
Memory == IF primed THEN Range(seen) ELSE Range(reader.lines)
\* and one that a run knows, or that no window will hold again.
Recalled(e) == e \in Memory \/ e < Floor \/ e + EventWindow <= Top

\* A run recalls every event that was met.
MemoryInv ==
  /\ primed \in BOOLEAN /\ (primed => reader.step # "priming")
  /\ Memorable(seen, seclog.last)
  /\ reader.step = "priming" => Readable(<<>>, reader.lines, seclog.last)
  /\ primed \/ reader.step = "priming" => \A e \in Event : Met(e) => Recalled(e)

\* The whole invariant.
ArchiveIInv ==
  /\ LogInv /\ Filed(files) /\ Queued(queue, files) /\ Fresh(queue, files, archived, primed)
  /\ KnownInv /\ WaitingInv /\ MemoryInv

-----------------------------------------------------------------------------
(* Steps of the log. *)

\* The archive holds events.
LEMMA DiskIsEvents ==
  ASSUME NEW f, Filed(f)
  PROVE  OnDisk(f) \subseteq Event
  <1>1. \A d \in Days : f[d].lines \in Seq(Event)
    <2> SUFFICES ASSUME NEW d \in Days PROVE f[d].lines \in Seq(Event)
      OBVIOUS
    <2>1. f[d] \in [lines : Seq(Event), torn : BOOLEAN]
      BY DEF Filed
    <2> QED
      BY <2>1
  <1>2. \A d \in Days : Range(f[d].lines) \subseteq Event
    <2> SUFFICES ASSUME NEW d \in Days PROVE Range(f[d].lines) \subseteq Event
      OBVIOUS
    <2>1. PICK s : s = f[d].lines
      OBVIOUS
    <2>2. s \in Seq(Event)
      BY <1>1, <2>1
    <2>3. Range(s) \subseteq Event
      BY <2>2 DEF Range
    <2> QED
      BY <2>1, <2>3
  <1> QED
    BY <1>2 DEF OnDisk

\* The numbers of LogInv.
LEMMA LogNumbers ==
  ASSUME LogInv
  PROVE  /\ seclog.previous \in Nat /\ seclog.current \in Nat /\ seclog.last \in Nat
         /\ reader.from \in Nat /\ reader.upto \in Nat /\ Top \in Nat /\ Floor \in Nat
         /\ Top <= seclog.last /\ seclog.last <= Top + ReadBurst
  <1>1. /\ seclog.previous \in Nat /\ seclog.current \in Nat /\ seclog.last \in Nat
        /\ reader.from \in Nat /\ reader.upto \in Nat
    BY DEF LogInv
  <1>2. ReadBurst \in Nat
    BY Limits
  <1> QED
    BY <1>1, <1>2 DEF LogInv, Top, Floor

\* More is in the log, or it is read, and no more is archived or handed over.
LEMMA LogStep ==
  ASSUME ArchiveIInv, UNCHANGED <<files, seen, archived, primed, queue, handed>>,
         LogInv', Top <= Top', Floor <= Floor', seclog.last <= seclog'.last,
         reader'.step = "priming" <=> reader.step = "priming",
         reader.step = "priming" => reader'.lines = reader.lines
  PROVE  ArchiveIInv'
  <1>1. EventWindow \in Nat
    BY Limits
  <1>2. /\ LogInv /\ Filed(files) /\ Queued(queue, files) /\ Fresh(queue, files, archived, primed)
        /\ KnownInv /\ WaitingInv /\ MemoryInv
    BY DEF ArchiveIInv
  <1>3. seclog.last \in Nat /\ Top \in Nat /\ Floor \in Nat
    BY <1>2, LogNumbers
  <1>4. seclog'.last \in Nat /\ Top' \in Nat /\ Floor' \in Nat
    <2>1. (seclog.last \in Nat /\ Top \in Nat /\ Floor \in Nat)'
      BY LogNumbers, PTL
    <2> QED
      BY <2>1
  <1>5. \A e \in Event : Met(e)' <=> Met(e)
    BY DEF Met, Asked, OnDisk
  <1>6. Event \subseteq Nat
    BY DaysOfEvents
  <1>7. KnownInv'
    BY <1>2, <1>3, <1>4, <1>5, <1>6 DEF KnownInv
  <1>8. Filed(files)' /\ Queued(queue, files)' /\ Fresh(queue, files, archived, primed)'
    <2>1. files' = files /\ queue' = queue /\ archived' = archived /\ primed' = primed
      OBVIOUS
    <2> QED
      BY <1>2, <2>1
  <1>9. WaitingInv'
    <2>1. OnDisk(files) \subseteq Nat
      BY <1>2, <1>6, DiskIsEvents
    <2> QED
      BY <1>1, <1>2, <1>3, <1>4, <2>1 DEF WaitingInv
  <1>10. MemoryInv'
    <2>1. Memorable(seen, seclog.last)'
      <3>1. \A e \in Range(seen) : e \in Nat
        BY <1>2 DEF MemoryInv, Memorable, Range
      <3> QED
        BY <1>2, <1>3, <1>4, <3>1 DEF MemoryInv, Memorable
    <2>2. (reader.step = "priming" => Readable(<<>>, reader.lines, seclog.last))'
      <3> SUFFICES ASSUME reader.step = "priming" PROVE Readable(<<>>, reader.lines, seclog'.last)
        OBVIOUS
      <3>1. Readable(<<>>, reader.lines, seclog.last)
        BY <1>2 DEF MemoryInv
      <3>2. \A e \in Range(reader.lines) : e \in Nat
        BY <3>1 DEF Readable, Range
      <3> QED
        BY <1>3, <1>4, <3>1, <3>2 DEF Readable
    <2>3. ASSUME primed \/ reader.step = "priming", NEW e \in Event, Met(e) PROVE Recalled(e)'
      <3>1. Recalled(e)
        BY <1>2, <2>3 DEF MemoryInv
      <3>2. Memory' = Memory
        BY <1>2, <2>3 DEF Memory, MemoryInv
      <3> QED
        BY <1>1, <1>3, <1>4, <1>6, <3>1, <3>2 DEF Recalled
    <2> QED
      BY <1>2, <1>5, <2>1, <2>2, <2>3 DEF MemoryInv
  <1> QED
    BY <1>7, <1>8, <1>9, <1>10 DEF ArchiveIInv

\* One more line in the log.
LEMMA LogRequestKeeps ==
  ASSUME ArchiveIInv, LogRequest
  PROVE  ArchiveIInv'
  <1>1. LogInv
    BY DEF ArchiveIInv
  <1>2. /\ UNCHANGED <<files, seen, archived, primed, queue, handed, reader>>
        /\ seclog.last < Len(EventDay) /\ (Reading => seclog.last < reader.upto + ReadBurst)
        /\ seclog' = [seclog EXCEPT !.last = @ + 1]
    BY DEF LogRequest, Reading
  <1>3. /\ seclog.last \in Nat /\ seclog.current \in Nat /\ seclog.previous \in Nat
        /\ ReadBurst \in Nat /\ Len(EventDay) \in Nat
    BY <1>1, LogNumbers, Limits, DaysOfEvents
  <1>4. /\ seclog'.last = seclog.last + 1 /\ seclog'.current = seclog.current
        /\ seclog'.previous = seclog.previous
        /\ seclog' \in [previous : Nat, current : Nat, last : Nat]
    BY <1>1, <1>2, <1>3 DEF LogInv
  <1>5. LogInv'
    BY <1>1, <1>2, <1>3, <1>4 DEF LogInv, Reading
  <1>6. Top <= Top' /\ Floor <= Floor'
    BY <1>1, <1>2, <1>3, <1>4, LogNumbers DEF Top, Floor, Reading
  <1> QED
    BY <1>2, <1>3, <1>4, <1>5, <1>6, LogStep

\* A rotation, while a run reads or while none does.
LEMMA TurnLogKeeps ==
  ASSUME ArchiveIInv, TurnLog
  PROVE  ArchiveIInv'
  <1>1. LogInv
    BY DEF ArchiveIInv
  <1>2. /\ UNCHANGED <<files, seen, archived, primed, queue, handed, reader>>
        /\ seclog.current <= seclog.last
        /\ seclog' = [seclog EXCEPT !.previous = seclog.current, !.current = seclog.last + 1]
    BY DEF TurnLog
  <1>3. /\ seclog.last \in Nat /\ seclog.current \in Nat /\ seclog.previous \in Nat
        /\ ReadBurst \in Nat /\ Len(EventDay) \in Nat
    BY <1>1, LogNumbers, Limits, DaysOfEvents
  <1>4. /\ seclog'.last = seclog.last /\ seclog'.current = seclog.last + 1
        /\ seclog'.previous = seclog.current
        /\ seclog' \in [previous : Nat, current : Nat, last : Nat]
    <2>1. seclog \in [previous : Nat, current : Nat, last : Nat]
      BY <1>1 DEF LogInv
    <2>2. PICK s : s = [seclog EXCEPT !.previous = seclog.current]
      OBVIOUS
    <2>3. s = [previous |-> seclog.current, current |-> seclog.current, last |-> seclog.last]
      BY <2>1, <2>2
    <2>4. seclog' = [s EXCEPT !.current = seclog.last + 1]
      BY <1>2, <2>2
    <2>5. seclog' = [previous |-> seclog.current, current |-> seclog.last + 1, last |-> seclog.last]
      BY <2>3, <2>4
    <2> QED
      BY <1>3, <2>5
  <1>5. LogInv'
    BY <1>1, <1>2, <1>3, <1>4 DEF LogInv, Reading
  <1>6. Top <= Top' /\ Floor <= Floor'
    BY <1>1, <1>2, <1>3, <1>4, LogNumbers DEF Top, Floor, Reading, LogInv
  <1> QED
    BY <1>2, <1>3, <1>4, <1>5, <1>6, LogStep

\* A run reads the log.
LEMMA ReadCurrentKeeps ==
  ASSUME ArchiveIInv, ReadCurrent
  PROVE  ArchiveIInv'
  <1>1. LogInv
    BY DEF ArchiveIInv
  <1>2. /\ UNCHANGED <<files, seen, archived, primed, queue, handed, seclog>>
        /\ reader.step = "idle"
        /\ reader' = [step |-> "current", from |-> seclog.current, upto |-> seclog.last, lines |-> <<>>]
    BY DEF ReadCurrent, NotReading
  <1>3. /\ seclog.last \in Nat /\ seclog.current \in Nat /\ seclog.previous \in Nat
        /\ ReadBurst \in Nat /\ Len(EventDay) \in Nat
    BY <1>1, LogNumbers, Limits, DaysOfEvents
  <1>4. reader' \in [step : {"idle", "current", "priming"}, from : Nat, upto : Nat, lines : Seq(Nat)]
    BY <1>2, <1>3
  <1>5. LogInv'
    BY <1>1, <1>2, <1>3, <1>4 DEF LogInv, Reading
  <1>6. Top <= Top' /\ Floor <= Floor'
    BY <1>1, <1>2, <1>3, LogNumbers DEF Top, Floor, Reading, LogInv
  <1> QED
    BY <1>2, <1>3, <1>5, <1>6, LogStep

-----------------------------------------------------------------------------
(* Steps of the archive. *)

\* A queue that asks for no more than another one, whose entries are i further on.
Shorter(q2, q, i) ==
  /\ q2 \in Seq(SUBSET Nat)
  /\ \A k \in DOMAIN q2 :
       q2[k] = Purge \/ (k + i \in DOMAIN q /\ q[k + i] # Purge /\ q2[k] \subseteq q[k + i])

\* What the shorter queue asks for, the other one asks for too.
LEMMA ShorterAsks ==
  ASSUME NEW q \in Seq(SUBSET Nat), NEW q2, NEW i \in {0, 1}, Shorter(q2, q, i), NEW k \in DOMAIN q2, NEW e \in Asked(q2, k)
  PROVE  k + i \in DOMAIN q /\ q[k + i] # Purge /\ e \in Asked(q, k + i)
  BY DEF Shorter, Asked

\* The first entry is taken off,
LEMMA TailIsShorter ==
  ASSUME NEW q \in Seq(SUBSET Nat), q # <<>>
  PROVE  Shorter(Tail(q), q, 1)
  <1>1. /\ Tail(q) \in Seq(SUBSET Nat) /\ Len(Tail(q)) = Len(q) - 1 /\ Len(q) \in Nat
        /\ \A k \in 1 .. Len(q) - 1 : Tail(q)[k] = q[k + 1]
    OBVIOUS
  <1>2. DOMAIN Tail(q) = 1 .. Len(q) - 1 /\ DOMAIN q = 1 .. Len(q)
    BY <1>1
  <1> QED
    BY <1>1, <1>2 DEF Shorter

\* a purge joins the queue,
LEMMA PurgeIsShorter ==
  ASSUME NEW q \in Seq(SUBSET Nat)
  PROVE  Shorter(Append(q, Purge), q, 0)
  <1>1. Purge \in SUBSET Nat
    BY DEF Purge
  <1>2. /\ Append(q, Purge) \in Seq(SUBSET Nat) /\ Len(q) \in Nat
        /\ \A k \in 1 .. Len(q) : Append(q, Purge)[k] = q[k]
        /\ Append(q, Purge)[Len(q) + 1] = Purge
        /\ DOMAIN Append(q, Purge) = 1 .. Len(q) + 1 /\ DOMAIN q = 1 .. Len(q)
    BY <1>1
  <1>3. SUFFICES ASSUME NEW k \in 1 .. Len(q) + 1, k # Len(q) + 1
                 PROVE  k + 0 \in DOMAIN q /\ Append(q, Purge)[k] = q[k + 0]
    BY <1>2 DEF Shorter
  <1> QED
    BY <1>2, <1>3

\* and less of the first entry is left to be done.
LEMMA FirstIsShorter ==
  ASSUME NEW q \in Seq(SUBSET Nat), q # <<>>, q[1] # Purge, NEW s \in SUBSET q[1]
  PROVE  Shorter([q EXCEPT ![1] = s], q, 0)
  <1>1. Len(q) \in Nat /\ 1 \in DOMAIN q /\ DOMAIN q = 1 .. Len(q)
    OBVIOUS
  <1>2. q[1] \in SUBSET Nat
    BY <1>1
  <1>3. [q EXCEPT ![1] = s] \in Seq(SUBSET Nat)
    BY <1>1, <1>2
  <1>4. DOMAIN [q EXCEPT ![1] = s] = DOMAIN q
    OBVIOUS
  <1>5. ASSUME NEW k \in DOMAIN q
        PROVE  IF k = 1 THEN [q EXCEPT ![1] = s][k] = s ELSE [q EXCEPT ![1] = s][k] = q[k]
    BY <1>1
  <1>6. \A k \in DOMAIN q : k \in Nat /\ k + 0 = k
    BY <1>1
  <1> QED
    BY <1>3, <1>4, <1>5, <1>6 DEF Shorter

\* A shorter queue is as well ordered, with an archive that is not ahead of it.
LEMMA ShorterQueued ==
  ASSUME NEW q, NEW f, Queued(q, f), NEW q2, NEW i \in {0, 1}, Shorter(q2, q, i), NEW f2,
         \A k \in DOMAIN q2 : \A e \in OnDisk(f2), g \in Asked(q2, k) : e < g + EventWindow
  PROVE  Queued(q2, f2)
  <1>1. q2 \in Seq(SUBSET Nat) /\ q \in Seq(SUBSET Nat)
    BY DEF Queued, Shorter
  <1>2. DOMAIN q2 \subseteq Nat
    BY <1>1
  <1>3. \A k \in DOMAIN q2 : q2[k] = Purge \/ q2[k] \subseteq Event
    BY DEF Queued, Shorter
  <1>4. ASSUME NEW j \in DOMAIN q2, NEW k \in DOMAIN q2, j < k, NEW e \in Asked(q2, j), NEW g \in Asked(q2, k)
        PROVE  e # g /\ e < g + EventWindow
    <2>1. j + i \in DOMAIN q /\ k + i \in DOMAIN q /\ e \in Asked(q, j + i) /\ g \in Asked(q, k + i)
      BY <1>1, ShorterAsks
    <2>2. j + i < k + i
      BY <1>2, <1>4
    <2> QED
      BY <2>1, <2>2 DEF Queued
  <1> QED
    BY <1>1, <1>3, <1>4 DEF Queued

\* A step of the archive keeps the invariant if it writes only what the queue asks for.
LEMMA ArchiveStep ==
  ASSUME ArchiveIInv, UNCHANGED <<seclog, seen, primed, reader, handed>>,
         NEW i \in {0, 1}, Shorter(queue', queue, i), Filed(files'),
         \A k \in DOMAIN queue' : \A e \in OnDisk(files'), g \in Asked(queue', k) : e < g + EventWindow,
         Fresh(queue', files', archived', primed),
         \A e \in OnDisk(files') : e \in OnDisk(files) \/ \E k \in DOMAIN queue : e \in Asked(queue, k),
         archived' = archived \/ \E k \in DOMAIN queue : queue[k] # Purge
  PROVE  ArchiveIInv'
  <1>1. EventWindow \in Nat
    BY Limits
  <1>2. /\ LogInv /\ Filed(files) /\ Queued(queue, files) /\ Fresh(queue, files, archived, primed)
        /\ KnownInv /\ WaitingInv /\ MemoryInv
    BY DEF ArchiveIInv
  <1>3. queue \in Seq(SUBSET Nat) /\ queue' \in Seq(SUBSET Nat)
    BY <1>2 DEF Queued, Shorter
  <1>4. \A k \in DOMAIN queue' : \A e \in Asked(queue', k) : k + i \in DOMAIN queue /\ e \in Asked(queue, k + i)
    BY <1>3, ShorterAsks
  <1>5. \A e \in Event : Met(e)' => Met(e)
    <2> SUFFICES ASSUME NEW e \in Event, Met(e)', handed[e] = 0 PROVE Met(e)
      BY DEF Met
    <2>1. e \in OnDisk(files') \/ \E k \in DOMAIN queue' : e \in Asked(queue', k)
      <3>1. OnDisk(files)' = OnDisk(files') /\ \A k : Asked(queue, k)' = Asked(queue', k)
        BY DEF OnDisk, Asked
      <3> QED
        BY <3>1 DEF Met
    <2>2. e \in OnDisk(files) \/ \E k \in DOMAIN queue : e \in Asked(queue, k)
      BY <1>4, <2>1
    <2> QED
      BY <2>2 DEF Met
  <1>6. LogInv' /\ Filed(files)'
    <2>1. LogInv'
      BY <1>2 DEF LogInv, Reading
    <2> QED
      BY <2>1 DEF Filed
  <1>7. Queued(queue, files)' /\ Fresh(queue, files, archived, primed)'
    <2>1. Queued(queue', files')
      BY <1>2, ShorterQueued
    <2>2. primed' = primed
      OBVIOUS
    <2> QED
      BY <2>1, <2>2
  <1>8. Top' = Top /\ Floor' = Floor /\ Memory' = Memory
    BY DEF Top, Floor, Memory, Reading
  <1>9. KnownInv'
    BY <1>2, <1>5, <1>8 DEF KnownInv
  <1>10. WaitingInv'
    <2> SUFFICES ASSUME ~primed PROVE WaitingInv'
      BY DEF WaitingInv
    <2>1. CASE reader.step # "priming"
      <3>1. \A k \in DOMAIN queue : queue[k] = Purge
        BY <1>2, <2>1 DEF WaitingInv
      <3>2. \A k \in DOMAIN queue' : queue'[k] = Purge
        BY <3>1 DEF Shorter
      <3>3. archived' = archived
        BY <3>1
      <3>4. OnDisk(files') \subseteq OnDisk(files)
        BY <3>1 DEF Asked
      <3> QED
        BY <1>2, <1>8, <2>1, <3>2, <3>3, <3>4 DEF WaitingInv, OnDisk
    <2>2. CASE reader.step = "priming"
      <3>1. \A j, k \in DOMAIN queue : queue[j] # Purge /\ queue[k] # Purge => j = k
        BY <1>2, <2>2 DEF WaitingInv
      <3>2. ASSUME NEW j \in DOMAIN queue', NEW k \in DOMAIN queue', queue'[j] # Purge, queue'[k] # Purge
            PROVE  j = k
        <4>1. j \in Nat /\ k \in Nat
          BY <1>3
        <4>2. j + i = k + i
          BY <3>1, <3>2 DEF Shorter
        <4> QED
          BY <4>1, <4>2
      <3> QED
        BY <1>2, <2>2, <3>2 DEF WaitingInv
    <2> QED
      BY <2>1, <2>2
  <1>11. MemoryInv'
    BY <1>2, <1>5, <1>8 DEF MemoryInv, Recalled
  <1> QED
    BY <1>6, <1>7, <1>9, <1>10, <1>11 DEF ArchiveIInv

\* A step that writes nothing keeps the invariant.
LEMMA DiskShrinks ==
  ASSUME ArchiveIInv, UNCHANGED <<seclog, seen, primed, reader, handed, archived>>,
         NEW i \in {0, 1}, Shorter(queue', queue, i), Filed(files'), OnDisk(files') \subseteq OnDisk(files)
  PROVE  ArchiveIInv'
  <1>1. Queued(queue, files) /\ Fresh(queue, files, archived, primed)
    BY DEF ArchiveIInv
  <1>2. queue \in Seq(SUBSET Nat)
    BY <1>1 DEF Queued
  <1>3. \A k \in DOMAIN queue' : \A e \in Asked(queue', k) : k + i \in DOMAIN queue /\ e \in Asked(queue, k + i)
    BY <1>2, ShorterAsks
  <1>4. \A k \in DOMAIN queue' : \A e \in OnDisk(files'), g \in Asked(queue', k) : e < g + EventWindow
    BY <1>1, <1>3 DEF Queued
  <1>5. Fresh(queue', files', archived', primed)
    BY <1>1, <1>3 DEF Fresh
  <1> QED
    BY <1>4, <1>5, ArchiveStep

\* A file without lines.
LEMMA EmptyLines ==
  /\ <<>> \in Seq(Event) /\ Range(<<>>) = {} /\ IsInjective(<<>>)
  /\ \A n : NearlySorted(<<>>, n)
  BY DEF Range, IsInjective, NearlySorted

\* Files that expire leave the others as they are.
LEMMA RetainedKeeps ==
  ASSUME NEW f, Filed(f), NEW g, g = Retained(f)
  PROVE  Filed(g) /\ OnDisk(g) \subseteq OnDisk(f)
  <1>1. \A d \in Days : g[d] = EmptyFile \/ g[d] = f[d]
    BY DEF Retained
  <1>2. EmptyFile \in [lines : Seq(Event), torn : BOOLEAN] /\ EmptyFile.lines = <<>>
    BY EmptyLines DEF EmptyFile
  <1>3. \A d \in Days : g[d] \in [lines : Seq(Event), torn : BOOLEAN]
    BY <1>1, <1>2 DEF Filed
  <1>4. g \in [Days -> [lines : Seq(Event), torn : BOOLEAN]]
    BY <1>3 DEF Retained
  <1>5. \A d \in Days : /\ \A e \in Range(g[d].lines) : EventDay[e] = d
                        /\ IsInjective(g[d].lines)
                        /\ NearlySorted(g[d].lines, EventWindow)
    <2> SUFFICES ASSUME NEW d \in Days
                 PROVE  /\ \A e \in Range(g[d].lines) : EventDay[e] = d
                        /\ IsInjective(g[d].lines) /\ NearlySorted(g[d].lines, EventWindow)
      OBVIOUS
    <2>1. CASE g[d] = f[d]
      BY <2>1 DEF Filed
    <2>2. CASE g[d] = EmptyFile
      BY <1>2, <2>2, EmptyLines
    <2> QED
      BY <1>1, <2>1, <2>2
  <1>6. \A d \in Days : Range(g[d].lines) \subseteq Range(f[d].lines)
    BY <1>1, <1>2, EmptyLines
  <1>7. Filed(g)
    BY <1>4, <1>5 DEF Filed
  <1>8. OnDisk(g) \subseteq OnDisk(f)
    BY <1>6 DEF OnDisk
  <1> QED
    BY <1>7, <1>8

\* An entry of which nothing is left is taken off.
LEMMA PersistEndsKeeps ==
  ASSUME ArchiveIInv, PersistEnds
  PROVE  ArchiveIInv'
  <1>1. queue \in Seq(SUBSET Nat) /\ Filed(files)
    BY DEF ArchiveIInv, Queued
  <1>2. queue # <<>> /\ queue' = Tail(queue) /\ files' = files
        /\ UNCHANGED <<seclog, seen, primed, reader, handed, archived>>
    BY DEF PersistEnds
  <1>3. Shorter(queue', queue, 1)
    BY <1>1, <1>2, TailIsShorter
  <1> QED
    BY <1>1, <1>2, <1>3, DiskShrinks

\* A purge is asked for,
LEMMA AskPurgeKeeps ==
  ASSUME ArchiveIInv, AskPurge
  PROVE  ArchiveIInv'
  <1>1. queue \in Seq(SUBSET Nat) /\ Filed(files)
    BY DEF ArchiveIInv, Queued
  <1>2. queue' = Append(queue, Purge) /\ files' = files
        /\ UNCHANGED <<seclog, seen, primed, reader, handed, archived>>
    BY DEF AskPurge
  <1>3. Shorter(queue', queue, 0)
    BY <1>1, <1>2, PurgeIsShorter
  <1> QED
    BY <1>1, <1>2, <1>3, DiskShrinks

\* and carried out.
LEMMA PurgeFilesKeeps ==
  ASSUME ArchiveIInv, PurgeFiles
  PROVE  ArchiveIInv'
  <1>1. queue \in Seq(SUBSET Nat) /\ Filed(files)
    BY DEF ArchiveIInv, Queued
  <1>2. queue # <<>> /\ queue' = Tail(queue) /\ files' = Retained(files)
        /\ UNCHANGED <<seclog, seen, primed, reader, handed, archived>>
    BY DEF PurgeFiles
  <1>3. Shorter(queue', queue, 1)
    BY <1>1, <1>2, TailIsShorter
  <1>4. Filed(files') /\ OnDisk(files') \subseteq OnDisk(files)
    BY <1>1, <1>2, RetainedKeeps
  <1> QED
    BY <1>2, <1>3, <1>4, DiskShrinks

\* What Archiving chooses.
LEMMA CandidatesAre ==
  ASSUME ArchiveIInv, Archiving
  PROVE  /\ queue \in Seq(SUBSET Nat) /\ queue # <<>> /\ 1 \in DOMAIN queue /\ queue[1] # Purge
         /\ Candidates \subseteq queue[1] /\ Candidates \subseteq Asked(queue, 1) /\ Candidates \subseteq Event
         /\ \A e \in Candidates : e \notin OnDisk(files) /\ e <= seclog.last
         /\ \A g \in OnDisk(files), e \in Candidates : g < e + EventWindow
         /\ \A k \in DOMAIN queue : 1 < k => \A e \in Candidates, g \in Asked(queue, k) : e # g /\ e < g + EventWindow
  <1>1. Queued(queue, files) /\ Fresh(queue, files, archived, primed) /\ LogInv /\ KnownInv
    BY DEF ArchiveIInv
  <1>2. queue \in Seq(SUBSET Nat) /\ queue # <<>> /\ Head(queue) # Purge
    BY <1>1 DEF Queued, Archiving
  <1>3. 1 \in DOMAIN queue /\ Head(queue) = queue[1]
    BY <1>2
  <1>4. Candidates \subseteq queue[1] /\ Candidates \cap Range(archived) = {}
    BY <1>3 DEF Candidates
  <1>5. queue[1] \subseteq Event
    BY <1>1, <1>2, <1>3 DEF Queued
  <1>6. 0 \notin Event
    BY DaysOfEvents
  <1>7. Candidates \subseteq Asked(queue, 1)
    BY <1>4, <1>5, <1>6 DEF Asked, Purge
  <1>8. \A e \in Candidates : e \notin OnDisk(files)
    BY <1>1, <1>3, <1>4, <1>7 DEF Fresh
  <1>9. \A e \in Candidates : e <= seclog.last
    <2>1. \A e \in Candidates : e \in Nat /\ e <= Top
      BY <1>1, <1>3, <1>4, <1>5, <1>7, DaysOfEvents DEF KnownInv, Met
    <2> QED
      BY <1>1, <2>1, LogNumbers
  <1>10. \A g \in OnDisk(files), e \in Candidates : g < e + EventWindow
    BY <1>1, <1>3, <1>7 DEF Queued
  <1>11. \A k \in DOMAIN queue : 1 < k => \A e \in Candidates, g \in Asked(queue, k) : e # g /\ e < g + EventWindow
    BY <1>1, <1>3, <1>7 DEF Queued
  <1> QED
    BY <1>2, <1>3, <1>4, <1>5, <1>7, <1>8, <1>9, <1>10, <1>11

\* A part of a sequence.
LEMMA SliceKeeps ==
  ASSUME NEW s \in Seq(Nat), NEW r \in Seq(Nat), NEW k \in Nat,
         \A i \in 1 .. Len(r) : i + k \in 1 .. Len(s) /\ r[i] = s[i + k]
  PROVE  /\ Range(r) \subseteq Range(s) /\ (IsInjective(s) => IsInjective(r))
         /\ \A n \in Nat : NearlySorted(s, n) => NearlySorted(r, n)
  <1>1. /\ DOMAIN s = 1 .. Len(s) /\ DOMAIN r = 1 .. Len(r) /\ Len(s) \in Nat /\ Len(r) \in Nat
    OBVIOUS
  <1>5. \A i \in DOMAIN r : i + k \in DOMAIN s /\ r[i] = s[i + k]
    BY <1>1
  <1>2. Range(r) \subseteq Range(s)
    BY <1>1 DEF Range
  <1>3. ASSUME IsInjective(s), NEW i \in DOMAIN r, NEW j \in DOMAIN r, r[i] = r[j] PROVE i = j
    <2>1. s[i + k] = s[j + k] /\ i + k \in DOMAIN s /\ j + k \in DOMAIN s /\ i \in Nat /\ j \in Nat
      BY <1>1, <1>3
    <2>2. i + k = j + k
      BY <1>3, <2>1 DEF IsInjective
    <2> QED
      BY <2>1, <2>2
  <1>4. ASSUME NEW n \in Nat, NearlySorted(s, n), NEW i \in DOMAIN r, NEW j \in DOMAIN r, i < j
        PROVE  r[i] < r[j] + n
    <2>1. i + k < j + k
      <3>1. i \in Int /\ j \in Int
        BY <1>1
      <3> QED
        BY <1>4, <3>1
    <2>2. i + k \in DOMAIN s /\ r[i] = s[i + k]
      BY <1>5
    <2>3. j + k \in DOMAIN s /\ r[j] = s[j + k]
      BY <1>5
    <2> QED
      BY <1>4, <2>1, <2>2, <2>3 DEF NearlySorted
  <1> QED
    BY <1>2, <1>3, <1>4 DEF IsInjective, NearlySorted

\* The part of a batch that is written.
LEMMA SubSeqKeeps ==
  ASSUME NEW s \in Seq(Nat), NEW a \in {1, 2}, NEW n \in 0 .. Len(s), NEW r, r = SubSeq(s, a, n)
  PROVE  /\ r \in Seq(Nat) /\ Range(r) \subseteq Range(s) /\ (IsInjective(s) => IsInjective(r))
         /\ \A m \in Nat : NearlySorted(s, m) => NearlySorted(r, m)
  <1>1. Len(s) \in Nat /\ n \in Nat /\ n <= Len(s)
    OBVIOUS
  <1>2. /\ r \in Seq(Nat) /\ Len(r) = (IF a <= n THEN (n - a) + 1 ELSE 0)
        /\ \A i \in 1 .. Len(r) : r[i] = s[a + i - 1]
    <2>1. a \in Int /\ n \in Int /\ \A i \in a .. n : s[i] \in Nat
      <3>1. a \in Int /\ 1 <= a
        OBVIOUS
      <3>2. \A i \in a .. n : i \in 1 .. Len(s)
        BY <1>1, <3>1
      <3>3. \A i \in 1 .. Len(s) : s[i] \in Nat
        OBVIOUS
      <3>4. n \in Int
        BY <1>1
      <3> QED
        BY <3>1, <3>2, <3>3, <3>4, Zenon
    <2>2. /\ r \in Seq(Nat) /\ Len(r) = (IF a <= n THEN n - a + 1 ELSE 0)
          /\ \A i \in 1 .. n - a + 1 : r[i] = s[a + i - 1]
      BY <2>1, SubSeqProperties
    <2> QED
      BY <1>1, <2>2
  <1>4. a - 1 \in Nat /\ \A i \in 1 .. Len(r) : i + (a - 1) \in 1 .. Len(s) /\ r[i] = s[i + (a - 1)]
    <2>1. CASE a = 1
      BY <1>1, <1>2, <2>1
    <2>2. CASE a = 2
      BY <1>1, <1>2, <2>2
    <2> QED
      BY <2>1, <2>2
  <1> QED
    BY <1>2, <1>4, SliceKeeps

\* The part of a file that is kept.
LEMMA NewestKeeps ==
  ASSUME NEW n \in Nat, NEW s \in Seq(Nat), NEW r, r = Newest(n, s)
  PROVE  /\ r \in Seq(Nat) /\ Range(r) \subseteq Range(s) /\ (IsInjective(s) => IsInjective(r))
         /\ \A m \in Nat : NearlySorted(s, m) => NearlySorted(r, m)
  <1>1. /\ r \in Seq(Nat) /\ Len(r) = (IF Len(s) <= n THEN Len(s) ELSE n)
        /\ \A i \in 1 .. Len(r) : r[i] = s[i + (Len(s) - Len(r))]
    BY NewestElements
  <1>2. PICK k : k = Len(s) - Len(r)
    OBVIOUS
  <1>3. Len(s) \in Nat /\ Len(r) \in Nat
    BY <1>1
  <1>4. k \in Nat /\ \A i \in 1 .. Len(r) : i + k \in 1 .. Len(s) /\ r[i] = s[i + k]
    <2>1. k \in Nat /\ k + Len(r) <= Len(s)
      BY <1>1, <1>2, <1>3
    <2>2. \A i \in 1 .. Len(r) : i + k \in 1 .. Len(s)
      BY <1>3, <2>1
    <2>3. \A i \in 1 .. Len(r) : r[i] = s[i + k]
      BY <1>1, <1>2
    <2> QED
      BY <2>1, <2>2, <2>3
  <1> QED
    BY <1>1, <1>4, SliceKeeps

\* What a day's file may hold.
DayFile(file, d) ==
  /\ file \in [lines : Seq(Event), torn : BOOLEAN]
  /\ \A e \in Range(file.lines) : EventDay[e] = d
  /\ IsInjective(file.lines) /\ NearlySorted(file.lines, EventWindow)

\* Sequences of events and of numbers.
LEMMA SeqsOfEvents ==
  /\ \A s \in Seq(Event) : s \in Seq(Nat) /\ Range(s) \subseteq Event
  /\ \A s \in Seq(Nat) : Range(s) \subseteq Event => s \in Seq(Event)
  <1>1. Event \subseteq Nat
    BY DaysOfEvents
  <1>2. \A s \in Seq(Event) : s \in Seq(Nat) /\ Range(s) \subseteq Event
    BY <1>1 DEF Range
  <1>3. ASSUME NEW s \in Seq(Nat), Range(s) \subseteq Event PROVE s \in Seq(Event)
    <2>1. \A i \in 1 .. Len(s) : s[i] \in Event
      BY <1>3 DEF Range
    <2> QED
      BY <2>1, SeqOfSubset
  <1> QED
    BY <1>2, <1>3

\* A compacted file holds nothing new.
LEMMA CompactedKeeps ==
  ASSUME NEW f, NEW d, DayFile(f, d), NEW file \in {f, Compacted(f)}
  PROVE  DayFile(file, d) /\ Range(file.lines) \subseteq Range(f.lines)
  <1>1. CASE file = f
    BY <1>1
  <1>2. CASE file # f
    <2>1. file = [f EXCEPT !.lines = Newest(FileLimit \div 2, @)]
      BY <1>2 DEF Compacted
    <2>2. f.lines \in Seq(Nat) /\ Range(f.lines) \subseteq Event
      BY SeqsOfEvents DEF DayFile
    <2>3. FileLimit \div 2 \in Nat
      <3>1. FileLimit \in Nat
        BY ArchiveAssumption
      <3> QED
        BY <3>1
    <2>4. PICK r : r = Newest(FileLimit \div 2, f.lines)
      OBVIOUS
    <2>5. EventWindow \in Nat
      BY Limits
    <2>6. /\ r \in Seq(Nat) /\ Range(r) \subseteq Range(f.lines) /\ (IsInjective(f.lines) => IsInjective(r))
          /\ (NearlySorted(f.lines, EventWindow) => NearlySorted(r, EventWindow))
      BY <2>2, <2>3, <2>4, <2>5, NewestKeeps
    <2>7. r \in Seq(Event)
      BY <2>2, <2>6, SeqsOfEvents
    <2>8. file = [lines |-> r, torn |-> f.torn] /\ f.torn \in BOOLEAN
      BY <2>1, <2>4 DEF DayFile
    <2> QED
      BY <2>6, <2>7, <2>8 DEF DayFile
  <1> QED
    BY <1>1, <1>2

\* A batch that is new to a file leaves no event in it twice, and it nearly sorted.
LEMMA AppendedKeeps ==
  ASSUME NEW file, NEW d, DayFile(file, d), NEW b \in Seq(Nat), IsInjective(b), NearlySorted(b, 0),
         \A e \in Range(b) : e \in Event /\ EventDay[e] = d /\ e \notin Range(file.lines),
         \A g \in Range(file.lines), e \in Range(b) : g < e + EventWindow,
         NEW n \in 0 .. Len(b), NEW cut \in BOOLEAN, NEW r, r = Appended(file, b, n, cut)
  PROVE  DayFile(r, d) /\ Range(r.lines) \subseteq Range(file.lines) \cup Range(b)
  <1>1. file.lines \in Seq(Nat) /\ Range(file.lines) \subseteq Event /\ file.torn \in BOOLEAN
    BY SeqsOfEvents DEF DayFile
  <1>2. EventWindow \in Nat
    BY Limits
  <1>3. PICK a : a = IF file.torn THEN 2 ELSE 1
    OBVIOUS
  <1>4. PICK w : w = SubSeq(b, a, n)
    OBVIOUS
  <1>5. a \in {1, 2}
    BY <1>3
  <1>6. /\ w \in Seq(Nat) /\ Range(w) \subseteq Range(b) /\ IsInjective(w) /\ NearlySorted(w, 0)
    BY <1>4, <1>5, SubSeqKeeps
  <1>7. NearlySorted(w, EventWindow)
    <2>1. \A i \in DOMAIN w : w[i] \in Nat
      BY <1>6
    <2> QED
      BY <1>2, <1>6, <2>1 DEF NearlySorted
  <1>8. PICK l : l = file.lines \o w
    OBVIOUS
  <1>9. /\ l \in Seq(Nat) /\ Range(l) = Range(file.lines) \cup Range(w) /\ IsInjective(l)
    <2>1. Range(file.lines) \cap Range(w) = {}
      BY <1>6
    <2>2. IsInjective(file.lines)
      BY DEF DayFile
    <2> QED
      BY <1>1, <1>6, <1>8, <2>1, <2>2, ConcatInjective
  <1>10. NearlySorted(l, EventWindow)
    <2>1. \A g \in Range(file.lines), e \in Range(w) : g < e + EventWindow
      BY <1>6
    <2>2. NearlySorted(file.lines, EventWindow)
      BY DEF DayFile
    <2> QED
      BY <1>1, <1>2, <1>6, <1>7, <1>8, <2>1, <2>2, ConcatSorted
  <1>11. l \in Seq(Event)
    <2>1. Range(l) \subseteq Event
      BY <1>1, <1>6, <1>9
    <2> QED
      BY <1>9, <2>1, SeqsOfEvents
  <1>12. r.lines = l /\ r.torn \in BOOLEAN /\ r = [lines |-> r.lines, torn |-> r.torn]
    BY <1>1, <1>3, <1>4, <1>8 DEF Appended
  <1>13. \A e \in Range(l) : EventDay[e] = d
    BY <1>6, <1>9 DEF DayFile
  <1>14. r \in [lines : Seq(Event), torn : BOOLEAN]
    BY <1>11, <1>12
  <1> QED
    BY <1>6, <1>9, <1>10, <1>12, <1>13, <1>14 DEF DayFile

\* Events that may be written to the file of day d.
Batched(f, d, b) ==
  /\ d \in Days /\ b \in Seq(Nat) /\ IsInjective(b) /\ NearlySorted(b, 0)
  /\ \A e \in Range(b) : e \in Event /\ EventDay[e] = d /\ e \notin OnDisk(f)
  /\ \A g \in OnDisk(f), e \in Range(b) : g < e + EventWindow

\* The archive when they are, or a part of them.
MayBecome(r, f, d, b) ==
  \E file \in {f[d], Compacted(f[d])}, n \in 0 .. Len(b), cut \in BOOLEAN :
    r = [f EXCEPT ![d] = Appended(file, b, n, cut)]

\* So is the archive, when that file is the one of the day.
LEMMA Written ==
  ASSUME NEW f, Filed(f), NEW d, NEW b, Batched(f, d, b), NEW r, MayBecome(r, f, d, b)
  PROVE  Filed(r) /\ \A e \in OnDisk(r) : e \in OnDisk(f) \/ e \in Range(b)
  <1>0. /\ d \in Days /\ b \in Seq(Nat) /\ IsInjective(b) /\ NearlySorted(b, 0)
        /\ \A e \in Range(b) : e \in Event /\ EventDay[e] = d /\ e \notin OnDisk(f)
        /\ \A g \in OnDisk(f), e \in Range(b) : g < e + EventWindow
    BY DEF Batched
  <1>a. PICK file \in {f[d], Compacted(f[d])}, n \in 0 .. Len(b), cut \in BOOLEAN :
          r = [f EXCEPT ![d] = Appended(file, b, n, cut)]
    BY DEF MayBecome
  <1>1. \A c \in Days : DayFile(f[c], c) /\ Range(f[c].lines) \subseteq OnDisk(f)
    <2> SUFFICES ASSUME NEW c \in Days PROVE DayFile(f[c], c) /\ Range(f[c].lines) \subseteq OnDisk(f)
      OBVIOUS
    <2>1. DayFile(f[c], c)
      BY DEF Filed, DayFile
    <2>2. Range(f[c].lines) \subseteq OnDisk(f)
      BY DEF OnDisk
    <2> QED
      BY <2>1, <2>2
  <1>2. DayFile(file, d) /\ Range(file.lines) \subseteq Range(f[d].lines)
    <2>1. PICK g : g = f[d]
      OBVIOUS
    <2>2. DayFile(g, d) /\ file \in {g, Compacted(g)}
      BY <1>0, <1>1, <1>a, <2>1
    <2>3. DayFile(file, d) /\ Range(file.lines) \subseteq Range(g.lines)
      BY <2>2, CompactedKeeps
    <2> QED
      BY <2>1, <2>3
  <1>3. PICK h : h = Appended(file, b, n, cut)
    OBVIOUS
  <1>4. DayFile(h, d) /\ Range(h.lines) \subseteq Range(file.lines) \cup Range(b)
    <2>1. /\ \A e \in Range(b) : e \in Event /\ EventDay[e] = d /\ e \notin Range(file.lines)
          /\ \A g \in Range(file.lines), e \in Range(b) : g < e + EventWindow
      BY <1>0, <1>1, <1>2
    <2> QED
      BY <1>0, <1>2, <1>3, <2>1, AppendedKeeps
  <1>5. DOMAIN f = Days /\ r = [f EXCEPT ![d] = h]
    BY <1>a, <1>3 DEF Filed
  <1>6. \A c \in Days : r[c] = IF c = d THEN h ELSE f[c]
    BY <1>5
  <1>7. \A c \in Days : DayFile(r[c], c) /\ \A e \in Range(r[c].lines) : e \in OnDisk(f) \/ e \in Range(b)
    <2> SUFFICES ASSUME NEW c \in Days
                 PROVE  DayFile(r[c], c) /\ \A e \in Range(r[c].lines) : e \in OnDisk(f) \/ e \in Range(b)
      OBVIOUS
    <2>1. CASE c = d
      <3>1. r[c] = h
        BY <1>6, <2>1
      <3>2. \A e \in Range(h.lines) : e \in OnDisk(f) \/ e \in Range(b)
        BY <1>0, <1>1, <1>2, <1>4
      <3> QED
        BY <1>4, <2>1, <3>1, <3>2
    <2>2. CASE c # d
      <3>1. r[c] = f[c]
        BY <1>6, <2>2
      <3> QED
        BY <1>1, <3>1
    <2> QED
      BY <2>1, <2>2
  <1>8. Filed(r)
    <2>1. \A c \in Days : r[c] \in [lines : Seq(Event), torn : BOOLEAN]
      BY <1>7 DEF DayFile
    <2>2. r \in [Days -> [lines : Seq(Event), torn : BOOLEAN]]
      BY <1>5, <2>1
    <2> QED
      BY <1>7, <2>2 DEF Filed, DayFile
  <1>9. \A e \in OnDisk(r) : e \in OnDisk(f) \/ e \in Range(b)
    <2>1. \A e \in OnDisk(r) : \E c \in Days : e \in Range(r[c].lines)
      BY DEF OnDisk
    <2> QED
      BY <1>7, <2>1
  <1> QED
    BY <1>8, <1>9

\* What is written of them first.
LEMMA BatchFacts ==
  ASSUME ArchiveIInv, Archiving, NEW b, b = Batch(Candidates), NEW d, d = FirstDay(Candidates)
  PROVE  /\ d \in Days /\ b \in Seq(Nat) /\ IsInjective(b) /\ NearlySorted(b, 0)
         /\ Range(b) \subseteq Candidates /\ \A e \in Range(b) : EventDay[e] = d
         /\ \A e \in Range(b), g \in Candidates \ Range(b) : e < g
  <1>1. Candidates \subseteq Event /\ Candidates # {} /\ \A e \in Candidates : e <= seclog.last
    BY CandidatesAre DEF Archiving
  <1>2. /\ Candidates \subseteq Nat /\ \A e \in Candidates : EventDay[e] \in Days /\ EventDay[e] \in Nat
        /\ \A e, g \in Candidates : EventDay[e] < EventDay[g] => e < g
    BY <1>1, DaysOfEvents
  <1>3. seclog.last \in Nat
    BY LogNumbers DEF ArchiveIInv
  <1>4. Candidates \in SUBSET (1 .. seclog.last)
    <2>1. \A e \in Candidates : e \in Nat /\ 1 <= e
      BY <1>1, DaysOfEvents
    <2> QED
      BY <1>1, <1>3, <2>1
  <1>5. /\ b \in Seq(Nat) /\ IsInjective(b) /\ NearlySorted(b, 0)
        /\ Range(b) = {e \in Candidates : EventDay[e] = d}
    BY <1>3, <1>4, BatchProperties
  <1>6. (\E e \in Candidates : d = EventDay[e]) /\ \A e \in Candidates : d <= EventDay[e]
    <2>1. PICK days : days = {EventDay[e] : e \in Candidates}
      OBVIOUS
    <2>2. days \in SUBSET Nat /\ days # {}
      BY <1>1, <1>2, <2>1
    <2>3. Min(days) \in days /\ \A e \in days : Min(days) <= e
      BY <2>2, LeastElement
    <2>4. d = Min(days)
      BY <2>1 DEF FirstDay
    <2>5. d \in days /\ \A e \in days : d <= e
      BY <2>3, <2>4
    <2> QED
      BY <2>1, <2>5
  <1>7. d \in Days /\ d \in Nat
    BY <1>2, <1>6
  <1>8. ASSUME NEW e \in Range(b), NEW g \in Candidates \ Range(b) PROVE e < g
    <2>1. e \in Candidates /\ EventDay[e] = d /\ g \in Candidates /\ EventDay[g] # d /\ d <= EventDay[g]
      BY <1>5, <1>6
    <2>2. EventDay[e] < EventDay[g]
      BY <1>2, <1>7, <2>1
    <2> QED
      BY <1>2, <2>1, <2>2
  <1>9. Range(b) \subseteq Candidates /\ \A e \in Range(b) : EventDay[e] = d
    BY <1>5
  <1> QED
    BY <1>5, <1>7, <1>8, <1>9

\* The batch may be written.
LEMMA BatchMayBeWritten ==
  ASSUME ArchiveIInv, Archiving, NEW b, b = Batch(Candidates), NEW d, d = FirstDay(Candidates)
  PROVE  Batched(files, d, b)
  <1>1. /\ d \in Days /\ b \in Seq(Nat) /\ IsInjective(b) /\ NearlySorted(b, 0)
        /\ Range(b) \subseteq Candidates /\ \A e \in Range(b) : EventDay[e] = d
    BY BatchFacts
  <1>2. /\ Candidates \subseteq Event /\ \A e \in Candidates : e \notin OnDisk(files)
        /\ \A g \in OnDisk(files), e \in Candidates : g < e + EventWindow
    BY CandidatesAre
  <1> QED
    BY <1>1, <1>2 DEF Batched

\* A write that stops part of the way leaves nothing but candidates behind.
LEMMA InterruptedKeeps ==
  ASSUME ArchiveIInv, Archiving, NEW f \in Interrupted
  PROVE  Filed(f) /\ \A e \in OnDisk(f) : e \in OnDisk(files) \/ e \in Candidates
  <1>1. PICK b : b = Batch(Candidates)
    OBVIOUS
  <1>2. PICK d : d = FirstDay(Candidates)
    OBVIOUS
  <1>3. b \in Seq(Nat) /\ Range(b) \subseteq Candidates
    BY <1>1, <1>2, BatchFacts
  <1>4. Batched(files, d, b) /\ Filed(files)
    BY <1>1, <1>2, BatchMayBeWritten DEF ArchiveIInv
  <1>5. MayBecome(f, files, d, b)
    <2>1. \A n \in 0 .. Len(b) - 1 : n \in 0 .. Len(b)
      BY <1>3
    <2>2. \E file \in {files[d], Compacted(files[d])}, n \in 0 .. Len(b) - 1, cut \in BOOLEAN :
            f = [files EXCEPT ![d] = Appended(file, b, n, cut)]
      BY <1>1, <1>2 DEF Interrupted
    <2> QED
      BY <2>1, <2>2, Zenon DEF MayBecome
  <1>6. Filed(f) /\ \A e \in OnDisk(f) : e \in OnDisk(files) \/ e \in Range(b)
    BY <1>4, <1>5, Written
  <1> QED
    BY <1>3, <1>6

\* A write fails.
LEMMA PersistFailsKeeps ==
  ASSUME ArchiveIInv, PersistFails
  PROVE  ArchiveIInv'
  <1>1. Archiving /\ files' \in Interrupted /\ queue' = Tail(queue)
        /\ UNCHANGED <<seclog, seen, archived, primed, reader, handed>>
    BY DEF PersistFails
  <1>2. /\ queue \in Seq(SUBSET Nat) /\ queue # <<>> /\ 1 \in DOMAIN queue /\ queue[1] # Purge
        /\ Candidates \subseteq Asked(queue, 1)
        /\ \A k \in DOMAIN queue : 1 < k => \A e \in Candidates, g \in Asked(queue, k) : e # g /\ e < g + EventWindow
    BY <1>1, CandidatesAre
  <1>3. Shorter(queue', queue, 1)
    BY <1>1, <1>2, TailIsShorter
  <1>4. Filed(files') /\ \A e \in OnDisk(files') : e \in OnDisk(files) \/ e \in Candidates
    BY <1>1, InterruptedKeeps
  <1>5. \A k \in DOMAIN queue' : /\ 1 < k + 1 /\ k + 1 \in DOMAIN queue
                                 /\ Asked(queue', k) \subseteq Asked(queue, k + 1)
    <2>1. /\ Len(queue) \in Nat /\ DOMAIN queue' = 1 .. Len(queue) - 1 /\ DOMAIN queue = 1 .. Len(queue)
          /\ \A k \in 1 .. Len(queue) - 1 : queue'[k] = queue[k + 1]
      BY <1>1, <1>2
    <2> QED
      BY <2>1 DEF Asked
  <1>6. Queued(queue, files) /\ Fresh(queue, files, archived, primed)
    BY DEF ArchiveIInv
  <1>7. \A k \in DOMAIN queue' : \A e \in OnDisk(files'), g \in Asked(queue', k) : e < g + EventWindow
    BY <1>2, <1>4, <1>5, <1>6 DEF Queued
  <1>8. Fresh(queue', files', archived', primed)
    <2> SUFFICES ASSUME NEW k \in DOMAIN queue', NEW e \in Asked(queue', k), e \in OnDisk(files')
                 PROVE  e \in Range(archived) /\ ~primed
      BY <1>1 DEF Fresh
    <2>1. e \in OnDisk(files)
      BY <1>2, <1>4, <1>5
    <2> QED
      BY <1>5, <1>6, <2>1 DEF Fresh
  <1>9. \A e \in OnDisk(files') : e \in OnDisk(files) \/ \E k \in DOMAIN queue : e \in Asked(queue, k)
    BY <1>2, <1>4
  <1> QED
    BY <1>1, <1>3, <1>4, <1>7, <1>8, <1>9, ArchiveStep

\* The events of a day are written; those that follow are of later days.
LEMMA PersistDayKeeps ==
  ASSUME ArchiveIInv, PersistDay
  PROVE  ArchiveIInv'
  <1>1. PICK b : b = Batch(Candidates)
    OBVIOUS
  <1>2. PICK d : d = FirstDay(Candidates)
    OBVIOUS
  <1>3. /\ Archiving /\ UNCHANGED <<seclog, seen, primed, reader, handed>>
        /\ files' = [files EXCEPT ![d] = Appended(Compacted(files[d]), b, Len(b), FALSE)]
        /\ queue' = [queue EXCEPT ![1] = Candidates \ Range(b)]
    BY <1>1, <1>2 DEF PersistDay
  <1>4. /\ queue \in Seq(SUBSET Nat) /\ queue # <<>> /\ 1 \in DOMAIN queue /\ queue[1] # Purge
        /\ Candidates \subseteq queue[1] /\ Candidates \subseteq Asked(queue, 1) /\ Candidates \subseteq Event
        /\ \A e \in Candidates : e \notin OnDisk(files)
        /\ \A g \in OnDisk(files), e \in Candidates : g < e + EventWindow
        /\ \A k \in DOMAIN queue : 1 < k => \A e \in Candidates, g \in Asked(queue, k) : e # g /\ e < g + EventWindow
    BY <1>3, CandidatesAre
  <1>5. /\ b \in Seq(Nat) /\ Range(b) \subseteq Candidates
        /\ \A e \in Range(b), g \in Candidates \ Range(b) : e < g
    BY <1>1, <1>2, <1>3, BatchFacts
  <1>6. Shorter(queue', queue, 0)
    BY <1>3, <1>4, FirstIsShorter
  <1>7. Filed(files') /\ \A e \in OnDisk(files') : e \in OnDisk(files) \/ e \in Range(b)
    <2>1. Len(b) \in 0 .. Len(b) /\ FALSE \in BOOLEAN
      BY <1>5
    <2>2. MayBecome(files', files, d, b)
      <3>1. files' = [files EXCEPT ![d] = Appended(Compacted(files[d]), b, Len(b), FALSE)]
        BY <1>3
      <3>2. Compacted(files[d]) \in {files[d], Compacted(files[d])}
        OBVIOUS
      <3> QED
        BY <2>1, <3>1, <3>2, Zenon DEF MayBecome
    <2>3. Batched(files, d, b) /\ Filed(files)
      BY <1>1, <1>2, <1>3, BatchMayBeWritten DEF ArchiveIInv
    <2> QED
      BY <2>2, <2>3, Written
  <1>8. /\ DOMAIN queue' = DOMAIN queue /\ queue'[1] = Candidates \ Range(b)
        /\ \A k \in DOMAIN queue : k = 1 \/ (1 < k /\ Asked(queue', k) = Asked(queue, k))
    <2>1. Len(queue) \in Nat /\ DOMAIN queue = 1 .. Len(queue)
      BY <1>4
    <2>2. DOMAIN queue' = DOMAIN queue /\ queue'[1] = Candidates \ Range(b)
      BY <1>3, <1>4
    <2>3. \A k \in DOMAIN queue : k = 1 \/ (1 < k /\ queue'[k] = queue[k])
      BY <1>3, <2>1
    <2> QED
      BY <2>2, <2>3 DEF Asked
  <1>9. Queued(queue, files) /\ Fresh(queue, files, archived, primed) /\ WaitingInv
    BY DEF ArchiveIInv
  <1>10. EventWindow \in Nat /\ Event \subseteq Nat
    BY Limits, DaysOfEvents
  <1>11. ASSUME NEW k \in DOMAIN queue', NEW e \in OnDisk(files'), NEW g \in Asked(queue', k) PROVE e < g + EventWindow
    <2>1. CASE k = 1
      <3>1. g \in Candidates \ Range(b)
        BY <1>8, <2>1 DEF Asked
      <3>2. CASE e \in OnDisk(files)
        BY <1>4, <3>1, <3>2
      <3>3. CASE e \in Range(b)
        <4>1. e < g /\ e \in Nat /\ g \in Nat
          BY <1>4, <1>5, <1>10, <3>1, <3>3
        <4> QED
          BY <1>10, <4>1
      <3> QED
        BY <1>7, <3>2, <3>3
    <2>2. CASE 1 < k /\ Asked(queue', k) = Asked(queue, k)
      <3>1. k \in DOMAIN queue /\ g \in Asked(queue, k)
        BY <1>8, <2>2
      <3>2. CASE e \in OnDisk(files)
        BY <1>9, <3>1, <3>2 DEF Queued
      <3>3. CASE e \in Range(b)
        BY <1>4, <1>5, <2>2, <3>1, <3>3
      <3> QED
        BY <1>7, <3>2, <3>3
    <2> QED
      BY <1>8, <2>1, <2>2
  <1>12. ASSUME NEW k \in DOMAIN queue', NEW e \in Asked(queue', k), e \in OnDisk(files') PROVE e \in Range(archived') /\ ~primed
    <2>1. CASE k = 1
      <3>1. e \in Candidates \ Range(b)
        BY <1>8, <2>1 DEF Asked
      <3> QED
        BY <1>4, <1>7, <1>12, <3>1
    <2>2. CASE 1 < k /\ Asked(queue', k) = Asked(queue, k)
      <3>1. k \in DOMAIN queue /\ e \in Asked(queue, k)
        BY <1>8, <2>2
      <3>2. e \in OnDisk(files)
        BY <1>4, <1>5, <1>7, <1>12, <2>2, <3>1
      <3>3. ~primed
        BY <1>9, <3>1, <3>2 DEF Fresh
      <3>4. queue[k] # Purge
        BY <3>1 DEF Asked
      <3>5. k # 1
        BY <2>2
      <3> QED
        BY <1>4, <1>9, <3>1, <3>3, <3>4, <3>5 DEF WaitingInv
    <2> QED
      BY <1>8, <2>1, <2>2
  <1>13. Fresh(queue', files', archived', primed)
    BY <1>12 DEF Fresh
  <1>14. \A e \in OnDisk(files') : e \in OnDisk(files) \/ \E k \in DOMAIN queue : e \in Asked(queue, k)
    BY <1>4, <1>5, <1>7
  <1> QED
    BY <1>3, <1>4, <1>6, <1>7, <1>11, <1>13, <1>14, ArchiveStep

-----------------------------------------------------------------------------
(* Steps of the monitor. *)

\* Events that are in no entry of the queue, and after what is older by a window.
MayJoin(s, q, f) ==
  /\ s \in SUBSET Event
  /\ \A j \in DOMAIN q : \A e \in Asked(q, j), g \in s : e # g /\ e < g + EventWindow
  /\ \A e \in OnDisk(f), g \in s : e < g + EventWindow

\* The queue with them.
Joined(q2, q, s) ==
  \A k \in DOMAIN q2 : (k \in DOMAIN q /\ q2[k] = q[k]) \/ (k = Len(q) + 1 /\ q2[k] = s)

\* Such events may be asked to be archived.
LEMMA QueueGrows ==
  ASSUME NEW q, NEW f, Queued(q, f), NEW s, MayJoin(s, q, f), NEW q2, q2 = Append(q, s)
  PROVE  Queued(q2, f) /\ Joined(q2, q, s)
  <1>0. /\ s \in SUBSET Event
        /\ \A j \in DOMAIN q : \A e \in Asked(q, j), g \in s : e # g /\ e < g + EventWindow
        /\ \A e \in OnDisk(f), g \in s : e < g + EventWindow
    BY DEF MayJoin
  <1>1. q \in Seq(SUBSET Nat) /\ s \in SUBSET Nat
    BY <1>0, DaysOfEvents DEF Queued
  <1>2. /\ q2 \in Seq(SUBSET Nat) /\ Len(q) \in Nat
        /\ DOMAIN q2 = 1 .. Len(q) + 1 /\ DOMAIN q = 1 .. Len(q)
        /\ q2[Len(q) + 1] = s /\ \A k \in 1 .. Len(q) : q2[k] = q[k]
    BY <1>1
  <1>3. \A k \in DOMAIN q2 : (k \in DOMAIN q /\ q2[k] = q[k]) \/ (k = Len(q) + 1 /\ q2[k] = s)
    BY <1>2
  <1>4. \A k \in DOMAIN q2 : /\ k \in DOMAIN q => Asked(q2, k) = Asked(q, k)
                             /\ k \notin DOMAIN q => Asked(q2, k) \subseteq s
    BY <1>2 DEF Asked
  <1>5. \A k \in DOMAIN q2 : q2[k] = Purge \/ q2[k] \subseteq Event
    BY <1>0, <1>3 DEF Queued
  <1>6. ASSUME NEW j \in DOMAIN q2, NEW k \in DOMAIN q2, j < k, NEW e \in Asked(q2, j), NEW g \in Asked(q2, k)
        PROVE  e # g /\ e < g + EventWindow
    <2>1. j \in DOMAIN q
      BY <1>2, <1>6
    <2>2. e \in Asked(q, j)
      BY <1>4, <2>1
    <2>3. CASE k \in DOMAIN q
      <3>1. g \in Asked(q, k)
        BY <1>4, <2>3
      <3> QED
        BY <1>6, <2>1, <2>2, <2>3, <3>1 DEF Queued
    <2>4. CASE k \notin DOMAIN q
      <3>1. g \in s
        BY <1>4, <2>4
      <3> QED
        BY <1>0, <2>1, <2>2, <3>1
    <2> QED
      BY <2>3, <2>4
  <1>7. ASSUME NEW k \in DOMAIN q2, NEW e \in OnDisk(f), NEW g \in Asked(q2, k) PROVE e < g + EventWindow
    <2>1. CASE k \in DOMAIN q
      <3>1. g \in Asked(q, k)
        BY <1>4, <2>1
      <3> QED
        BY <2>1, <3>1 DEF Queued
    <2>2. CASE k \notin DOMAIN q
      BY <1>0, <1>4, <2>2
    <2> QED
      BY <2>1, <2>2
  <1>8. Queued(q2, f)
    BY <1>2, <1>5, <1>6, <1>7 DEF Queued
  <1> QED
    BY <1>3, <1>8 DEF Joined

\* What the window holds.
LEMMA WindowFacts ==
  ASSUME ArchiveIInv, Reading, NEW w, w = Window
  PROVE  /\ w \in Seq(Nat) /\ Range(w) \subseteq Event
         /\ \A e \in Range(w) : e \in Nat /\ Floor <= e /\ e <= seclog.last /\ Top < e + EventWindow
         /\ \A e \in Nat : Floor <= e /\ e <= Top /\ Top < e + EventWindow => e \in Range(w)
  <1>1. LogInv
    BY DEF ArchiveIInv
  <1>2. /\ seclog.previous \in Nat /\ seclog.current \in Nat /\ seclog.last \in Nat
        /\ reader.from \in Nat /\ reader.upto \in Nat /\ Floor \in Nat
    BY <1>1, LogNumbers
  <1>3. /\ 1 <= seclog.previous /\ seclog.previous <= seclog.current
        /\ seclog.current <= seclog.last + 1 /\ seclog.last <= Len(EventDay)
        /\ 1 <= reader.from /\ reader.from <= reader.upto + 1 /\ reader.upto <= seclog.last
        /\ \/ reader.from = seclog.current
           \/ reader.from < seclog.current /\ reader.from <= seclog.previous /\ reader.upto < seclog.current
    BY <1>1 DEF LogInv
  <1>4. Top = reader.upto /\ Floor = IF reader.from < seclog.current THEN reader.from ELSE seclog.previous
    BY DEF Top, Floor
  <1>5. PICK previous : previous = seclog.previous
    OBVIOUS
  <1>6. PICK current : current = seclog.current
    OBVIOUS
  <1>7. PICK newest : newest = seclog.last
    OBVIOUS
  <1>8. PICK from : from = reader.from
    OBVIOUS
  <1>9. PICK upto : upto = reader.upto
    OBVIOUS
  <1>10. PICK floor : floor = Floor
    OBVIOUS
  <1>11. w = WindowOf(previous, current, from, upto)
    BY <1>5, <1>6, <1>8, <1>9 DEF Window, WindowOf
  <1>12. previous \in Nat /\ current \in Nat /\ newest \in Nat /\ from \in Nat /\ upto \in Nat /\ floor \in Nat
    BY <1>2, <1>5, <1>6, <1>7, <1>8, <1>9, <1>10
  <1>13. LogLines(previous, current, newest, from, upto, floor)
    <2>1. /\ 1 <= previous /\ previous <= current /\ current <= newest + 1 /\ upto <= newest
          /\ 1 <= from /\ from <= upto + 1
          /\ from = current \/ (from < current /\ from <= previous /\ upto < current)
      BY <1>3, <1>5, <1>6, <1>7, <1>8, <1>9
    <2>2. floor = IF from < current THEN from ELSE previous
      BY <1>4, <1>5, <1>6, <1>8, <1>10
    <2> QED
      BY <1>12, <2>1, <2>2 DEF LogLines
  <1>14. /\ w \in Seq(Nat)
         /\ \A e \in Range(w) : e \in Nat /\ floor <= e /\ 1 <= e /\ e <= newest /\ upto < e + EventWindow
         /\ \A e \in Nat : floor <= e /\ e <= upto /\ upto < e + EventWindow => e \in Range(w)
    <2>1. Holds(w, newest, upto, floor)
      BY <1>11, <1>13, WindowElements
    <2> QED
      BY <2>1 DEF Holds
  <1>15. Range(w) \subseteq Event
    <2>1. Len(EventDay) \in Nat /\ Event = 1 .. Len(EventDay) /\ newest \in Nat /\ newest <= Len(EventDay)
      BY <1>3, <1>7, <1>12, DaysOfEvents
    <2> QED
      BY <1>14, <2>1
  <1>16. Top = upto /\ Floor = floor /\ seclog.last = newest
    BY <1>4, <1>7, <1>9, <1>10
  <1> QED
    BY <1>14, <1>15, <1>16

\* and that it may be remembered.
LEMMA WindowIsReadable ==
  ASSUME ArchiveIInv, Reading, NEW w, w = Window, NEW m, m \in Seq(Nat), \A e \in Range(m) : e <= seclog.last
  PROVE  Readable(m, w, seclog.last)
  <1>1. w \in Seq(Nat) /\ \A e \in Range(w) : e \in Nat /\ e <= seclog.last /\ Top < e + EventWindow
    BY WindowFacts
  <1>2. seclog.last \in Nat /\ Top \in Nat /\ seclog.last <= Top + ReadBurst
    BY LogNumbers DEF ArchiveIInv
  <1>3. EventWindow \in Nat /\ ReadBurst \in Nat
    BY Limits
  <1>4. \A a \in Range(m) : a \in Nat
    BY DEF Range
  <1>5. ASSUME NEW a \in Range(m) \cup Range(w), NEW e \in Range(w) PROVE a < e + (EventWindow + ReadBurst)
    <2>1. a \in Nat /\ a <= seclog.last
      BY <1>1, <1>4
    <2>2. e \in Nat /\ Top < e + EventWindow
      BY <1>1
    <2> QED
      BY <1>2, <1>3, <2>1, <2>2
  <1> QED
    BY <1>1, <1>5 DEF Readable

\* After the run the log may be read again.
LEMMA ReadEnds ==
  ASSUME ArchiveIInv, UNCHANGED seclog, reader'.step # "current",
         reader' \in [step : {"idle", "current", "priming"}, from : Nat, upto : Nat, lines : Seq(Nat)]
  PROVE  /\ LogInv' /\ Top' = seclog.last /\ Floor' = seclog.previous
         /\ Top <= Top' /\ Floor <= Floor' /\ Top' \in Nat /\ Floor' \in Nat /\ Top \in Nat /\ Floor \in Nat
  <1>1. LogInv
    BY DEF ArchiveIInv
  <1>2. seclog.last \in Nat /\ Top \in Nat /\ Floor \in Nat /\ Top <= seclog.last /\ seclog.previous \in Nat
    BY <1>1, LogNumbers
  <1>3. LogInv'
    BY <1>1 DEF LogInv, Reading
  <1>4. Top' = seclog.last /\ Floor' = seclog.previous
    BY DEF Top, Floor, Reading
  <1>5. Floor <= seclog.previous
    BY <1>1, <1>2 DEF Floor, LogInv
  <1> QED
    BY <1>2, <1>3, <1>4, <1>5

\* The reader between two runs.
LEMMA NotReadingType ==
  /\ NotReading \in [step : {"idle", "current", "priming"}, from : Nat, upto : Nat, lines : Seq(Nat)]
  /\ NotReading.step = "idle"
  BY DEF NotReading

\* The first run of a process archives its window: what it does not remember is not there.
LEMMA PrimeKeeps ==
  ASSUME ArchiveIInv, Prime
  PROVE  ArchiveIInv'
  <1>1. PICK w : w = Window
    OBVIOUS
  <1>2. /\ reader.step = "current" /\ ~primed /\ Reading
        /\ queue' = Append(queue, Range(w))
        /\ reader' = [reader EXCEPT !.step = "priming", !.lines = w]
        /\ UNCHANGED <<seclog, files, seen, archived, primed, handed>>
    BY <1>1 DEF Prime, Reading
  <1>3. /\ LogInv /\ Filed(files) /\ Queued(queue, files) /\ Fresh(queue, files, archived, primed)
        /\ KnownInv /\ WaitingInv /\ MemoryInv
    BY DEF ArchiveIInv
  <1>4. /\ w \in Seq(Nat) /\ Range(w) \subseteq Event
        /\ \A e \in Range(w) : e \in Nat /\ Floor <= e /\ e <= seclog.last /\ Top < e + EventWindow
        /\ \A e \in Nat : Floor <= e /\ e <= Top /\ Top < e + EventWindow => e \in Range(w)
    BY <1>1, <1>2, WindowFacts
  <1>5. /\ reader' \in [step : {"idle", "current", "priming"}, from : Nat, upto : Nat, lines : Seq(Nat)]
        /\ reader'.step = "priming" /\ reader'.lines = w
    <2>1. reader \in [step : {"idle", "current", "priming"}, from : Nat, upto : Nat, lines : Seq(Nat)]
      BY <1>3 DEF LogInv
    <2>2. PICK r : r = [reader EXCEPT !.step = "priming"]
      OBVIOUS
    <2>3. /\ r \in [step : {"idle", "current", "priming"}, from : Nat, upto : Nat, lines : Seq(Nat)]
          /\ r.step = "priming"
      BY <2>1, <2>2
    <2>4. reader' = [r EXCEPT !.lines = w]
      BY <1>2, <2>2
    <2> QED
      BY <1>4, <2>3, <2>4
  <1>6. /\ LogInv' /\ Top' = seclog.last /\ Floor' = seclog.previous
        /\ Top <= Top' /\ Floor <= Floor' /\ Top' \in Nat /\ Floor' \in Nat /\ Top \in Nat /\ Floor \in Nat
    BY <1>2, <1>5, ReadEnds
  <1>7. EventWindow \in Nat /\ Event \subseteq Nat
    BY Limits, DaysOfEvents
  <1>8. /\ \A k \in DOMAIN queue : queue[k] = Purge
        /\ \A e \in OnDisk(files) : e \in Range(archived) \/ e + EventWindow <= Top
    BY <1>2, <1>3 DEF WaitingInv
  <1>9. OnDisk(files) \subseteq Event /\ \A e \in OnDisk(files) : e <= Top
    <2>1. OnDisk(files) \subseteq Event
      BY <1>3, DiskIsEvents
    <2> QED
      BY <1>3, <2>1 DEF KnownInv, Met
  <1>10. /\ Queued(queue', files)
         /\ \A k \in DOMAIN queue' : (k \in DOMAIN queue /\ queue'[k] = queue[k]) \/ (k = Len(queue) + 1 /\ queue'[k] = Range(w))
    <2>1. \A j \in DOMAIN queue : \A e \in Asked(queue, j), g \in Range(w) : e # g /\ e < g + EventWindow
      BY <1>8 DEF Asked
    <2>2. ASSUME NEW e \in OnDisk(files), NEW g \in Range(w) PROVE e < g + EventWindow
      <3>1. e \in Nat /\ e <= Top
        BY <1>7, <1>9
      <3>2. g \in Nat /\ Top < g + EventWindow
        BY <1>4
      <3> QED
        BY <1>6, <1>7, <3>1, <3>2
    <2>3. MayJoin(Range(w), queue, files)
      BY <1>4, <2>1, <2>2 DEF MayJoin
    <2>4. PICK s : s = Range(w)
      OBVIOUS
    <2>5. Queued(queue', files) /\ Joined(queue', queue, s)
      BY <1>2, <1>3, <2>3, <2>4, QueueGrows
    <2> QED
      BY <2>4, <2>5 DEF Joined
  <1>11. \A k \in DOMAIN queue' : queue'[k] = Purge \/ (k = Len(queue) + 1 /\ queue'[k] = Range(w))
    BY <1>8, <1>10
  <1>12. \A k \in DOMAIN queue' : \A e \in Asked(queue', k) : e \in Range(w)
    BY <1>11 DEF Asked
  <1>13. Fresh(queue', files, archived, primed)
    <2>1. \A e \in Range(w) : e \in OnDisk(files) => e \in Range(archived)
      BY <1>4, <1>6, <1>7, <1>8, <1>9
    <2> QED
      BY <1>2, <1>12, <2>1 DEF Fresh
  <1>14. \A e \in Event : Met(e)' => e \in Range(w) \/ Met(e)
    <2> SUFFICES ASSUME NEW e \in Event, Met(e)' PROVE e \in Range(w) \/ Met(e)
      OBVIOUS
    <2>1. e \in OnDisk(files) \/ (\E k \in DOMAIN queue' : e \in Asked(queue', k)) \/ handed[e] # 0
      BY <1>2 DEF Met, OnDisk, Asked
    <2> QED
      BY <1>12, <2>1 DEF Met
  <1>15. KnownInv'
    <2>1. \A e \in Event : Met(e)' => e <= Top'
      BY <1>3, <1>4, <1>6, <1>7, <1>14 DEF KnownInv
    <2> QED
      BY <1>2, <1>3, <2>1 DEF KnownInv
  <1>16. WaitingInv'
    <2>1. \A j, k \in DOMAIN queue' : queue'[j] # Purge /\ queue'[k] # Purge => j = k
      BY <1>11
    <2>2. seen' = <<>>
      BY <1>2, <1>3 DEF WaitingInv
    <2> QED
      BY <1>5, <2>1, <2>2 DEF WaitingInv
  <1>17. MemoryInv'
    <2>1. Memorable(seen, seclog.last)'
      BY <1>2, <1>3 DEF MemoryInv
    <2>2. Readable(<<>>, reader.lines, seclog.last)'
      <3>1. <<>> \in Seq(Nat) /\ Range(<<>>) = {}
        BY DEF Range
      <3>2. Readable(<<>>, w, seclog.last)
        BY <1>1, <1>2, <3>1, WindowIsReadable
      <3> QED
        BY <1>2, <1>5, <3>2
    <2>3. ASSUME NEW e \in Event, Met(e)' PROVE Recalled(e)'
      <3>1. Memory' = Range(w)
        BY <1>2, <1>5 DEF Memory
      <3>2. CASE e \in Range(w)
        BY <3>1, <3>2 DEF Recalled
      <3>3. CASE e \notin Range(w)
        <4>1. Met(e) /\ e <= Top
          BY <1>3, <1>14, <2>3, <3>3 DEF KnownInv
        <4>2. e < Floor \/ e + EventWindow <= Top
          BY <1>4, <1>6, <1>7, <3>3, <4>1
        <4>3. e < Floor' \/ e + EventWindow <= Top'
          BY <1>6, <1>7, <4>2
        <4> QED
          BY <4>3 DEF Recalled
      <3> QED
        BY <3>2, <3>3
    <2>4. primed' = primed /\ ~primed
      BY <1>2
    <2>5. primed \in BOOLEAN
      BY <1>3 DEF MemoryInv
    <2> QED
      BY <2>1, <2>2, <2>3, <2>4, <2>5 DEF MemoryInv
  <1>18. Queued(queue, files)' /\ Fresh(queue, files, archived, primed)' /\ Filed(files)'
    BY <1>2, <1>3, <1>10, <1>13
  <1> QED
    BY <1>6, <1>15, <1>16, <1>17, <1>18 DEF ArchiveIInv

\* A later run hands over what it does not remember: that was never met.
LEMMA PollKeeps ==
  ASSUME ArchiveIInv, Poll
  PROVE  ArchiveIInv'
  <1>1. PICK w : w = Window
    OBVIOUS
  <1>a. PICK fresh : fresh = Range(w) \ Range(seen)
    OBVIOUS
  <1>2. /\ reader.step = "current" /\ primed /\ Reading
        /\ seen' = Remember(seen, w, SeenLimit)
        /\ handed' = [e \in Event |-> handed[e] + IF e \in fresh THEN 1 ELSE 0]
        /\ queue' = IF fresh = {} THEN queue ELSE Append(queue, fresh)
        /\ reader' = NotReading
        /\ UNCHANGED <<seclog, files, archived, primed>>
    BY <1>1, <1>a DEF Poll, Reading
  <1>3. /\ LogInv /\ Filed(files) /\ Queued(queue, files) /\ Fresh(queue, files, archived, primed)
        /\ KnownInv /\ WaitingInv /\ MemoryInv
    BY DEF ArchiveIInv
  <1>4. /\ w \in Seq(Nat) /\ Range(w) \subseteq Event
        /\ \A e \in Range(w) : e \in Nat /\ Floor <= e /\ e <= seclog.last /\ Top < e + EventWindow
    BY <1>1, <1>2, WindowFacts
  <1>5. /\ LogInv' /\ Top' = seclog.last /\ Floor' = seclog.previous
        /\ Top <= Top' /\ Floor <= Floor' /\ Top' \in Nat /\ Floor' \in Nat /\ Top \in Nat /\ Floor \in Nat
    BY <1>2, NotReadingType, ReadEnds
  <1>6. EventWindow \in Nat /\ Event \subseteq Nat
    BY Limits, DaysOfEvents
  <1>7. \A e \in Event : Met(e) => e \in Range(seen) \/ e < Floor \/ e + EventWindow <= Top
    BY <1>2, <1>3 DEF MemoryInv, Recalled, Memory
  <1>8. /\ \A e \in fresh : e \in Event /\ ~Met(e) /\ e \in Range(w) /\ Top < e + EventWindow
        /\ \A e \in Range(w) : e \in fresh \/ e \in Range(seen)
    BY <1>4, <1>5, <1>6, <1>7, <1>a
  <1>9. OnDisk(files) \subseteq Event /\ \A e \in OnDisk(files) : e <= Top
    <2>1. OnDisk(files) \subseteq Event
      BY <1>3, DiskIsEvents
    <2> QED
      BY <1>3, <2>1 DEF KnownInv, Met
  <1>10. queue \in Seq(SUBSET Nat) /\ \A j \in DOMAIN queue : \A e \in Asked(queue, j) : e \in Event /\ Met(e) /\ e <= Top
    <2>1. \A j \in DOMAIN queue : \A e \in Asked(queue, j) : e \in Event
      BY <1>3 DEF Queued, Asked, Purge
    <2> QED
      BY <1>3, <2>1 DEF KnownInv, Met, Queued
  <1>11. /\ Queued(queue', files)
         /\ \A k \in DOMAIN queue' : (k \in DOMAIN queue /\ queue'[k] = queue[k]) \/ queue'[k] = fresh
    <2>1. CASE fresh = {}
      BY <1>2, <1>3, <2>1
    <2>2. CASE fresh # {}
      <3>1. \A j \in DOMAIN queue : \A e \in Asked(queue, j), g \in fresh : e # g /\ e < g + EventWindow
        <4> SUFFICES ASSUME NEW j \in DOMAIN queue, NEW e \in Asked(queue, j), NEW g \in fresh
                     PROVE  e # g /\ e < g + EventWindow
          OBVIOUS
        <4>1. Met(e) /\ e <= Top /\ e \in Nat
          BY <1>6, <1>10
        <4>2. ~Met(g) /\ Top < g + EventWindow /\ g \in Nat
          BY <1>6, <1>8
        <4>3. e # g
          BY <4>1, <4>2
        <4> QED
          BY <1>5, <1>6, <4>1, <4>2, <4>3
      <3>2. ASSUME NEW e \in OnDisk(files), NEW g \in fresh PROVE e < g + EventWindow
        <4>1. e \in Nat /\ e <= Top
          BY <1>6, <1>9
        <4>2. g \in Nat /\ Top < g + EventWindow
          BY <1>6, <1>8
        <4> QED
          BY <1>5, <1>6, <4>1, <4>2
      <3>3. queue' = Append(queue, fresh) /\ fresh \in SUBSET Event
        BY <1>2, <1>8, <2>2
      <3>4. MayJoin(fresh, queue, files)
        BY <3>1, <3>2, <3>3 DEF MayJoin
      <3>5. Queued(queue', files) /\ Joined(queue', queue, fresh)
        BY <1>3, <3>3, <3>4, QueueGrows
      <3> QED
        BY <3>5 DEF Joined
    <2> QED
      BY <2>1, <2>2
  <1>12. \A k \in DOMAIN queue' : \A e \in Asked(queue', k) : (k \in DOMAIN queue /\ e \in Asked(queue, k)) \/ e \in fresh
    BY <1>11 DEF Asked
  <1>13. Fresh(queue', files, archived, primed)
    <2>1. \A e \in fresh : e \notin OnDisk(files)
      BY <1>8 DEF Met
    <2> QED
      BY <1>3, <1>12, <2>1 DEF Fresh
  <1>14. \A e \in Event : handed[e] \in {0, 1} /\ (e \in fresh => handed[e] = 0)
                          /\ handed'[e] = handed[e] + IF e \in fresh THEN 1 ELSE 0
    BY <1>2, <1>3, <1>8 DEF KnownInv, Met
  <1>15. \A e \in Event : Met(e)' => e \in fresh \/ Met(e)
    <2> SUFFICES ASSUME NEW e \in Event, Met(e)' PROVE e \in fresh \/ Met(e)
      OBVIOUS
    <2>1. e \in OnDisk(files) \/ (\E k \in DOMAIN queue' : e \in Asked(queue', k)) \/ handed'[e] # 0
      BY <1>2 DEF Met, OnDisk, Asked
    <2>2. CASE handed'[e] # 0
      BY <1>14, <2>2 DEF Met
    <2> QED
      BY <1>12, <2>1, <2>2 DEF Met
  <1>16. KnownInv'
    <2>1. \A e \in Event : handed'[e] \in {0, 1}
      BY <1>14
    <2>2. handed' \in [Event -> {0, 1}]
      BY <1>2, <2>1
    <2>3. \A e \in Event : Met(e)' => e <= Top'
      BY <1>3, <1>4, <1>5, <1>6, <1>8, <1>15 DEF KnownInv
    <2> QED
      BY <2>2, <2>3 DEF KnownInv
  <1>17. WaitingInv'
    BY <1>2 DEF WaitingInv
  <1>18. MemoryInv'
    <2>1. Memorable(seen, seclog.last) /\ seclog.last \in Nat
      BY <1>3, LogNumbers DEF MemoryInv
    <2>2. Readable(seen, w, seclog.last)
      BY <1>1, <1>2, <2>1, WindowIsReadable DEF Memorable
    <2>3. /\ Memorable(seen', seclog.last)
          /\ \A a \in Range(seen) \cup Range(w) : a + EventWindow > seclog.last => a \in Range(seen')
      BY <1>2, <2>1, <2>2, RememberKeeps
    <2>4. ASSUME NEW e \in Event, Met(e)' PROVE Recalled(e)'
      <3>1. Memory' = Range(seen')
        BY <1>2 DEF Memory
      <3>2. e \in Range(seen) \cup Range(w) \/ e < Floor \/ e + EventWindow <= Top
        BY <1>7, <1>8, <1>15, <2>4
      <3>3. e \in Range(seen') \/ e < Floor' \/ e + EventWindow <= Top'
        BY <1>5, <1>6, <2>1, <2>3, <3>2
      <3> QED
        BY <3>1, <3>3 DEF Recalled
    <2>5. reader'.step = "idle"
      BY <1>2, NotReadingType
    <2>6. Memorable(seen, seclog.last)'
      BY <1>2, <2>3
    <2> QED
      BY <1>2, <1>3, <2>4, <2>5, <2>6 DEF MemoryInv
  <1>19. Queued(queue, files)' /\ Fresh(queue, files, archived, primed)' /\ Filed(files)'
    BY <1>2, <1>3, <1>11, <1>13
  <1> QED
    BY <1>5, <1>16, <1>17, <1>18, <1>19 DEF ArchiveIInv

\* The first run remembers its window, the newest event first.
LEMMA PrimedKeeps ==
  ASSUME ArchiveIInv, Primed
  PROVE  ArchiveIInv'
  <1>1. PICK w : w = Reverse(reader.lines)
    OBVIOUS
  <1>2. /\ reader.step = "priming" /\ queue = <<>>
        /\ seen' = Remember(seen, w, SeenLimit) /\ primed' = TRUE /\ reader' = NotReading
        /\ UNCHANGED <<seclog, files, archived, queue, handed>>
    BY <1>1 DEF Primed
  <1>3. /\ LogInv /\ Filed(files) /\ Queued(queue, files)
        /\ KnownInv /\ WaitingInv /\ MemoryInv
    BY DEF ArchiveIInv
  <1>4. ~primed /\ seen = <<>>
    BY <1>2, <1>3 DEF MemoryInv, WaitingInv
  <1>5. LogInv' /\ Top' = seclog.last /\ Floor' = seclog.previous
    BY <1>2, NotReadingType, ReadEnds
  <1>6. Top = seclog.last /\ Floor = seclog.previous
    BY <1>2 DEF Top, Floor, Reading
  <1>7. EventWindow \in Nat /\ Event \subseteq Nat /\ seclog.last \in Nat
    BY <1>3, Limits, DaysOfEvents, LogNumbers
  <1>8. \A e \in Event : Met(e)' <=> Met(e)
    BY <1>2 DEF Met, OnDisk, Asked
  <1>9. KnownInv'
    BY <1>2, <1>3, <1>5, <1>6, <1>8 DEF KnownInv
  <1>10. WaitingInv'
    BY <1>2 DEF WaitingInv
  <1>11. Filed(files)' /\ Queued(queue, files)' /\ Fresh(queue, files, archived, primed)'
    <2>1. Queued(queue, files)' /\ Filed(files)'
      BY <1>2, <1>3
    <2>2. DOMAIN queue' = {}
      BY <1>2
    <2>3. Fresh(queue, files, archived, primed)'
      BY <2>2 DEF Fresh
    <2> QED
      BY <2>1, <2>3
  <1>12. /\ w \in Seq(Nat) /\ Range(w) = Range(reader.lines)
         /\ Readable(seen, w, seclog.last)
    <2>1. Readable(<<>>, reader.lines, seclog.last)
      BY <1>2, <1>3 DEF MemoryInv
    <2>2. reader.lines \in Seq(Nat)
      BY <2>1 DEF Readable
    <2>3. w \in Seq(Nat) /\ Range(w) = Range(reader.lines)
      <3>1. PICK s : s = reader.lines
        OBVIOUS
      <3>2. 0 \in Nat /\ s \in Seq(Nat) /\ w = Reverse(s)
        BY <1>1, <2>2, <3>1
      <3>3. w \in Seq(Nat) /\ Range(w) = Range(s)
        BY <3>2, ReverseProperties
      <3> QED
        BY <3>1, <3>3
    <2> QED
      BY <1>4, <2>1, <2>3 DEF Readable
  <1>13. MemoryInv'
    <2>1. Memorable(seen, seclog.last)
      BY <1>3 DEF MemoryInv
    <2>2. /\ Memorable(seen', seclog.last)
          /\ \A a \in Range(seen) \cup Range(w) : a + EventWindow > seclog.last => a \in Range(seen')
      BY <1>2, <1>7, <1>12, <2>1, RememberKeeps
    <2>3. ASSUME NEW e \in Event, Met(e) PROVE Recalled(e)'
      <3>1. e \in Range(w) \/ e < Floor \/ e + EventWindow <= Top
        BY <1>2, <1>3, <1>4, <1>12, <2>3 DEF MemoryInv, Recalled, Memory
      <3>2. e \in Range(seen') \/ e < Floor' \/ e + EventWindow <= Top'
        BY <1>5, <1>6, <1>7, <2>2, <3>1
      <3>3. Memory' = Range(seen')
        BY <1>2 DEF Memory
      <3> QED
        BY <3>2, <3>3 DEF Recalled
    <2>4. reader'.step = "idle"
      BY <1>2, NotReadingType
    <2>5. Memorable(seen, seclog.last)'
      BY <1>2, <2>2
    <2>6. primed' \in BOOLEAN
      BY <1>2
    <2> QED
      BY <1>8, <2>3, <2>4, <2>5, <2>6 DEF MemoryInv
  <1> QED
    BY <1>5, <1>9, <1>10, <1>11, <1>13 DEF ArchiveIInv

\* An empty memory.
LEMMA NothingRemembered ==
  ASSUME NEW top
  PROVE  Memorable(<<>>, top)
  <1>1. <<>> \in Seq(Nat) /\ Len(<<>>) = 0 /\ Range(<<>>) = {} /\ DOMAIN <<>> = {}
    BY DEF Range
  <1>2. SeenLimit \in Nat
    BY Limits
  <1> QED
    BY <1>1, <1>2 DEF Memorable, IsInjective, NearlySorted

\* A new process remembers the newest of the archive, and has not read the log.
LEMMA RestartKeeps ==
  ASSUME ArchiveIInv, Restart
  PROVE  ArchiveIInv'
  <1>1. /\ files' = Retained(files) \/ (Archiving /\ \E f \in Interrupted : files' = Retained(f))
        /\ archived' = Loaded(files') /\ seen' = <<>> /\ primed' = FALSE
        /\ reader' = NotReading /\ queue' = <<>> /\ UNCHANGED <<seclog, handed>>
    BY DEF Restart
  <1>2. LogInv /\ Filed(files) /\ KnownInv
    BY DEF ArchiveIInv
  <1>3. LogInv' /\ Top' = seclog.last /\ Top <= Top' /\ Top' \in Nat /\ Top \in Nat
    BY <1>1, NotReadingType, ReadEnds
  <1>4. Filed(files') /\ \A e \in OnDisk(files') : e \in Event /\ Met(e)
    <2>1. CASE files' = Retained(files)
      <3>1. Filed(files') /\ OnDisk(files') \subseteq OnDisk(files)
        BY <1>2, <2>1, RetainedKeeps
      <3> QED
        BY <1>2, <3>1, DiskIsEvents DEF Met
    <2>2. CASE Archiving /\ \E f \in Interrupted : files' = Retained(f)
      <3>1. PICK f \in Interrupted : files' = Retained(f)
        BY <2>2
      <3>2. Filed(f) /\ \A e \in OnDisk(f) : e \in OnDisk(files) \/ e \in Candidates
        BY <2>2, InterruptedKeeps
      <3>3. Filed(files') /\ OnDisk(files') \subseteq OnDisk(f)
        BY <3>1, <3>2, RetainedKeeps
      <3>4. 1 \in DOMAIN queue /\ Candidates \subseteq Event /\ Candidates \subseteq Asked(queue, 1)
        BY <2>2, CandidatesAre
      <3>5. OnDisk(files) \subseteq Event
        BY <1>2, DiskIsEvents
      <3> QED
        BY <3>2, <3>3, <3>4, <3>5 DEF Met
    <2> QED
      BY <1>1, <2>1, <2>2
  <1>5. DOMAIN queue' = {} /\ queue' \in Seq(SUBSET Nat)
    BY <1>1
  <1>6. Queued(queue, files)' /\ Fresh(queue, files, archived, primed)' /\ Filed(files)'
    <2>1. Queued(queue', files') /\ Fresh(queue', files', archived', primed')
      BY <1>5 DEF Queued, Fresh
    <2> QED
      BY <1>4, <2>1
  <1>7. \A e \in Event : Met(e)' => Met(e)
    <2> SUFFICES ASSUME NEW e \in Event, Met(e)' PROVE Met(e)
      OBVIOUS
    <2>1. e \in OnDisk(files') \/ (\E k \in DOMAIN queue' : e \in Asked(queue', k)) \/ handed[e] # 0
      BY <1>1 DEF Met, OnDisk, Asked
    <2> QED
      BY <1>4, <1>5, <2>1 DEF Met
  <1>8. \A e \in Event : Met(e) => e <= Top'
    <2>1. Event \subseteq Nat
      BY DaysOfEvents
    <2> QED
      BY <1>2, <1>3, <2>1 DEF KnownInv
  <1>9. KnownInv'
    BY <1>1, <1>2, <1>7, <1>8 DEF KnownInv
  <1>10. WaitingInv'
    <2>1. EventWindow \in Nat /\ Event \subseteq Nat
      BY Limits, DaysOfEvents
    <2>2. \A e \in OnDisk(files') : e <= Top'
      BY <1>4, <1>8
    <2>3. \A e \in OnDisk(files') : e + EventWindow > Top' => e \in Range(Loaded(files'))
      <3>1. PICK top : top = Top'
        OBVIOUS
      <3>2. top \in Nat /\ \A e \in OnDisk(files') : e <= top
        BY <1>3, <2>2, <3>1
      <3>3. \A e \in OnDisk(files') : e + EventWindow > top => e \in Range(Loaded(files'))
        BY <1>4, <3>2, LoadedKeeps
      <3> QED
        BY <3>1, <3>3
    <2>4. \A e \in OnDisk(files') : e \in Range(archived') \/ e + EventWindow <= Top'
      <3> SUFFICES ASSUME NEW e \in OnDisk(files'), ~(e + EventWindow <= Top') PROVE e \in Range(archived')
        OBVIOUS
      <3>1. e + EventWindow > Top'
        <4>1. e \in Nat
          BY <1>4, <2>1
        <4> QED
          BY <1>3, <2>1, <4>1
      <3>2. archived' = Loaded(files')
        BY <1>1
      <3> QED
        BY <2>3, <3>1, <3>2
    <2>5. OnDisk(files)' = OnDisk(files')
      BY DEF OnDisk
    <2>6. reader'.step = "idle"
      BY <1>1, NotReadingType
    <2> QED
      BY <1>1, <1>5, <2>4, <2>5, <2>6 DEF WaitingInv
  <1>11. MemoryInv'
    <2>1. Memorable(seen', seclog'.last)
      BY <1>1, NothingRemembered
    <2>2. Memorable(seen, seclog.last)'
      BY <2>1
    <2>3. reader'.step = "idle"
      BY <1>1, NotReadingType
    <2>4. primed' \in BOOLEAN /\ ~primed'
      BY <1>1
    <2> QED
      BY <2>2, <2>3, <2>4 DEF MemoryInv
  <1> QED
    BY <1>3, <1>6, <1>9, <1>10, <1>11 DEF ArchiveIInv

\* At first there is nothing.
LEMMA ArchiveStarts ==
  ASSUME ArchiveInit
  PROVE  ArchiveIInv
  <1>1. /\ seclog = [previous |-> 1, current |-> 1, last |-> 0]
        /\ files = [d \in Days |-> EmptyFile] /\ seen = <<>> /\ archived = <<>> /\ primed = FALSE
        /\ reader = NotReading /\ queue = <<>> /\ handed = [e \in Event |-> 0]
    BY DEF ArchiveInit
  <1>2. reader.step = "idle"
    BY <1>1, NotReadingType
  <1>3. LogInv
    <2>1. Len(EventDay) \in Nat
      BY DaysOfEvents
    <2> QED
      BY <1>1, <1>2, <2>1, NotReadingType DEF LogInv, Reading
  <1>4. Filed(files) /\ OnDisk(files) = {}
    <2>1. EmptyFile \in [lines : Seq(Event), torn : BOOLEAN] /\ EmptyFile.lines = <<>>
      BY EmptyLines DEF EmptyFile
    <2>2. \A d \in Days : files[d] = EmptyFile
      BY <1>1
    <2>3. files \in [Days -> [lines : Seq(Event), torn : BOOLEAN]]
      BY <1>1, <2>1
    <2>4. \A d \in Days : Range(files[d].lines) = {} /\ IsInjective(files[d].lines) /\ NearlySorted(files[d].lines, EventWindow)
      BY <2>1, <2>2, EmptyLines
    <2>5. Filed(files)
      BY <2>3, <2>4 DEF Filed
    <2>6. OnDisk(files) = {}
      BY <2>4 DEF OnDisk
    <2> QED
      BY <2>5, <2>6
  <1>5. DOMAIN queue = {} /\ queue \in Seq(SUBSET Nat)
    BY <1>1
  <1>6. Queued(queue, files) /\ Fresh(queue, files, archived, primed)
    BY <1>5 DEF Queued, Fresh
  <1>7. \A e \in Event : ~Met(e)
    BY <1>1, <1>4, <1>5 DEF Met
  <1>8. KnownInv
    <2>1. handed \in [Event -> {0, 1}]
      BY <1>1
    <2> QED
      BY <1>7, <2>1 DEF KnownInv
  <1>9. WaitingInv
    BY <1>1, <1>2, <1>4, <1>5 DEF WaitingInv
  <1>10. MemoryInv
    <2>1. Memorable(seen, seclog.last)
      BY <1>1, NothingRemembered
    <2>2. primed \in BOOLEAN /\ ~primed
      BY <1>1
    <2> QED
      BY <1>2, <2>1, <2>2 DEF MemoryInv
  <1> QED
    BY <1>3, <1>4, <1>6, <1>8, <1>9, <1>10 DEF ArchiveIInv

\* Nothing happens.
LEMMA ArchiveStays ==
  ASSUME ArchiveIInv, UNCHANGED archiveVars
  PROVE  ArchiveIInv'
  <1>1. UNCHANGED <<seclog, files, seen, archived, primed, reader, queue, handed>>
    BY DEF archiveVars
  <1> QED
    BY <1>1 DEF ArchiveIInv, LogInv, Reading, Top, Floor, KnownInv, Met, OnDisk, Asked, WaitingInv, MemoryInv,
                Memory, Recalled, Filed, Queued, Fresh

\* Every step keeps the invariant.
LEMMA ArchiveInvariant == ArchiveSpec => []ArchiveIInv
  <1>1. ArchiveInit => ArchiveIInv
    BY ArchiveStarts
  <1>2. ArchiveIInv /\ [ArchiveNext]_archiveVars => ArchiveIInv'
    <2> SUFFICES ASSUME ArchiveIInv, [ArchiveNext]_archiveVars PROVE ArchiveIInv'
      OBVIOUS
    <2>1. CASE LogRequest
      BY <2>1, LogRequestKeeps
    <2>2. CASE TurnLog
      BY <2>2, TurnLogKeeps
    <2>3. CASE ReadCurrent
      BY <2>3, ReadCurrentKeeps
    <2>4. CASE Prime
      BY <2>4, PrimeKeeps
    <2>5. CASE Primed
      BY <2>5, PrimedKeeps
    <2>6. CASE Poll
      BY <2>6, PollKeeps
    <2>7. CASE PersistDay
      BY <2>7, PersistDayKeeps
    <2>8. CASE PersistEnds
      BY <2>8, PersistEndsKeeps
    <2>9. CASE PurgeFiles
      BY <2>9, PurgeFilesKeeps
    <2>10. CASE PersistFails
      BY <2>10, PersistFailsKeeps
    <2>11. CASE AskPurge
      BY <2>11, AskPurgeKeeps
    <2>12. CASE Restart
      BY <2>12, RestartKeeps
    <2>13. CASE UNCHANGED archiveVars
      BY <2>13, ArchiveStays
    <2> QED
      BY <2>1, <2>2, <2>3, <2>4, <2>5, <2>6, <2>7, <2>8, <2>9, <2>10, <2>11, <2>12, <2>13
         DEF ArchiveNext, Requests, Monitor, Archive
  <1> QED
    BY <1>1, <1>2, PTL DEF ArchiveSpec

\* No event is in the archive twice: ArchivedOnce, for every log and every window.
THEOREM EventsArchivedOnce == ArchiveSpec => []ArchivedOnce
  <1>1. ArchiveIInv => ArchivedOnce
    <2> SUFFICES ASSUME Filed(files), NEW d \in Days, NEW c \in Days
                 PROVE  /\ IsInjective(files[d].lines)
                        /\ d # c => Range(files[d].lines) \cap Range(files[c].lines) = {}
      BY DEF ArchiveIInv, ArchivedOnce
    <2>1. IsInjective(files[d].lines)
      BY DEF Filed
    <2>2. \A e \in Range(files[d].lines) : EventDay[e] = d
      BY DEF Filed
    <2>3. \A e \in Range(files[c].lines) : EventDay[e] = c
      BY DEF Filed
    <2> QED
      BY <2>1, <2>2, <2>3
  <1> QED
    BY <1>1, ArchiveInvariant, PTL

\* No event is handed to the responses twice: HandedOnce, for every log and every window.
THEOREM EventsHandedOnce == ArchiveSpec => []HandedOnce
  <1>1. ArchiveIInv => HandedOnce
    <2> SUFFICES ASSUME KnownInv, NEW e \in Event PROVE handed[e] <= 1
      BY DEF ArchiveIInv, HandedOnce
    <2>1. handed[e] \in {0, 1}
      BY DEF KnownInv
    <2> QED
      BY <2>1
  <1> QED
    BY <1>1, ArchiveInvariant, PTL
=============================================================================
