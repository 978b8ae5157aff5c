--------------------------- MODULE AutopilotLadder ---------------------------
(***************************************************************************)
(* One source that goes on sending the same recognised request to the same *)
(* host, the responses Autopilot puts on it (the Autopilot branch of       *)
(* monitorThreats seen by a single source), and their end: a rate limit or *)
(* a block expires or is lifted, a challenge expires, is solved or lifted. *)
(* Other requests of the source, responses an administrator starts and a   *)
(* change of the profile are absent: the module ThreatMonitor has them.    *)
(***************************************************************************)
EXTENDS Autopilot

CONSTANTS Risks, StrongCounts  \* the requests tried

ASSUME RequestAssumption == Risks \subseteq 0 .. 100 /\ StrongCounts \subseteq Nat

VARIABLES
  profile,   \* the policy's autopilotProfile
  proxied,   \* whether the requests go to a Proxy Host
  request,   \* risk and strong signals: the same each time
  limited, challenged, mature, blocked,
  repeats,   \* blocks started in the last 24 h, as far as they count
  last,      \* the answer to the latest request
  eased      \* history: whether a response ended since an answer not in a grace
inForce == <<limited, challenged, mature, blocked>>
vars == <<profile, proxied, request, inForce, repeats, last, eased>>

Facts(graceOver) ==
  [risk |-> request.risk, strong |-> request.strong, repeats |-> repeats,
   limited |-> limited, challenged |-> challenged, mature |-> graceOver]
Known == Facts(mature)
InGrace == challenged /\ ~mature

Init ==
  /\ profile \in Profile /\ proxied \in BOOLEAN
  /\ request \in [risk : Risks, strong : StrongCounts]
  /\ limited = FALSE /\ challenged = FALSE /\ mature = FALSE /\ blocked = FALSE
  /\ repeats = 0 /\ last = "observe" /\ eased = FALSE

\* monitorThreats answers the next request of the source.  Only a request to a
\* Proxy Host starts a challenge; a block takes the place of what was in force.
Request ==
  LET answer == Decide(profile, Known) IN
  /\ ~blocked
  /\ last' = answer
  /\ limited' = (answer # "block" /\ (limited \/ answer = "rate_limit"))
  /\ challenged' = (answer # "block" /\ (challenged \/ (answer = "challenge" /\ proxied)))
  /\ mature' = (mature /\ challenged')
  /\ blocked' = (answer = "block")
  /\ repeats' = IF answer = "block" THEN AtMost(3, repeats + 1) ELSE repeats
  /\ eased' = (eased /\ InGrace)
  /\ UNCHANGED <<profile, proxied, request>>

\* Thirty seconds pass.
GracePasses ==
  /\ InGrace
  /\ mature' = TRUE
  /\ UNCHANGED <<profile, proxied, request, limited, challenged, blocked, repeats, last, eased>>

\* A response ends, or a block becomes older than 24 hours.
Eases == eased' = TRUE /\ UNCHANGED <<profile, proxied, request, last>>

LimitEnds ==
  /\ limited
  /\ limited' = FALSE
  /\ Eases /\ UNCHANGED <<challenged, mature, blocked, repeats>>

ChallengeEnds ==
  /\ challenged
  /\ challenged' = FALSE /\ mature' = FALSE
  /\ Eases /\ UNCHANGED <<limited, blocked, repeats>>

BlockEnds ==
  /\ blocked
  /\ blocked' = FALSE
  /\ Eases /\ UNCHANGED <<limited, challenged, mature, repeats>>

BlockForgotten ==
  /\ repeats > 0
  /\ repeats' = repeats - 1
  /\ Eases /\ UNCHANGED inForce

Next == Request \/ GracePasses \/ LimitEnds \/ ChallengeEnds \/ BlockEnds \/ BlockForgotten

\* The source goes on, and not always so slowly that the limit on it is over.
Spec == Init /\ [][Next]_vars /\ WF_vars(Request) /\ WF_vars(GracePasses)
        /\ SF_vars(limited /\ Request)

-----------------------------------------------------------------------------
TypeOK ==
  /\ profile \in Profile /\ proxied \in BOOLEAN
  /\ request \in [risk : Risks, strong : StrongCounts]
  /\ limited \in BOOLEAN /\ challenged \in BOOLEAN
  /\ mature \in BOOLEAN /\ blocked \in BOOLEAN
  /\ repeats \in 0 .. 3 /\ last \in Answer /\ eased \in BOOLEAN

\* What will be answered once a grace is over.
Due == Decide(profile, Facts(TRUE))

\* As long as nothing ended, what is due is at least what was answered last.
\* It makes NeverSteppedDown inductive.
IInv ==
  /\ TypeOK
  /\ mature => challenged
  /\ blocked => ~limited /\ ~challenged
  /\ last = "block" /\ ~eased => blocked
  /\ InGrace /\ ~eased => last = "challenge"
  /\ ~eased /\ ~blocked => Strength[Due] >= Strength[last]

\* "Autopilot ... chooses Observe -> Rate limit -> Challenge -> temporary Block"
\* (HYROVI_SEC.md): the answers to one and the same request only grow stronger,
\* unless a response to its source ended in between.
NeverSteppedDown == [][Request /\ ~eased => Strength[last'] >= Strength[last]]_vars

\* A block follows a challenge only once the challenge's grace is over.
GraceHonoured == [][InGrace => ~blocked']_vars

\* A request to a Proxy Host that by itself scores for a rate limit.
Attack == proxied /\ Confidence([Known EXCEPT !.limited = FALSE, !.challenged = FALSE, !.repeats = 0])
                       >= Threshold[profile].rate_limit

\* A source that goes on attacking a Proxy Host is challenged or blocked again
\* and again, whatever ends in between: it never stays under the soft restriction.
AttackIsStopped == Attack ~> (challenged \/ blocked)
=============================================================================
