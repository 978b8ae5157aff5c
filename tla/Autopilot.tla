----------------------------- MODULE Autopilot -----------------------------
(***************************************************************************)
(* The response Autopilot chooses for one recognised request               *)
(* (autopilotDecisionForEvent in internal/security.js), as a function of   *)
(* the policy's profile and of what is known about the request's source.   *)
(***************************************************************************)
EXTENDS Integers

Profile == {"conservative", "balanced", "aggressive"}
Answer == {"observe", "rate_limit", "challenge", "block"}

\* What the decision looks at.  `strong` counts strong signals, `repeats` the
\* blocks started for the source in 24 hours; `limited` and `challenged` are the
\* responses active on it, `mature` whether the challenge outlived its grace.
Evidence == [risk : 0 .. 100, strong : Nat, repeats : Nat,
             limited : BOOLEAN, challenged : BOOLEAN, mature : BOOLEAN]

\* AUTOPILOT_THRESHOLDS
Threshold == [
  conservative |-> [rate_limit |-> 60, challenge |-> 82, block |-> 96],
  balanced     |-> [rate_limit |-> 48, challenge |-> 72, block |-> 90],
  aggressive   |-> [rate_limit |-> 40, challenge |-> 62, block |-> 82]]

AtMost(bound, n) == IF n <= bound THEN n ELSE bound

Boost(x) ==
  (IF x.challenged THEN 16 ELSE IF x.limited THEN 8 ELSE 0)
    + AtMost(8, 2 * x.strong) + AtMost(12, 4 * x.repeats)

Confidence(x) == AtMost(100, x.risk + Boost(x))

\* Faulty variant: the grace of a challenge is not looked at.
DecideWithoutGrace(profile, x) ==
  LET c == Confidence(x)
      t == Threshold[profile] IN
  IF c >= t.block \/ (x.challenged /\ c >= t.challenge) THEN "block"
  ELSE IF c >= t.challenge \/ (x.limited /\ c >= t.rate_limit) THEN "challenge"
  ELSE IF c >= t.rate_limit THEN "rate_limit"
  ELSE "observe"

\* Faulty variant: a rate limit is answered by the same rate limit again.
DecideWithoutLadder(profile, x) ==
  LET c == Confidence(x)
      t == Threshold[profile] IN
  IF x.challenged /\ ~x.mature THEN "challenge"
  ELSE IF c >= t.block \/ (x.challenged /\ c >= t.challenge) THEN "block"
  ELSE IF c >= t.challenge THEN "challenge"
  ELSE IF c >= t.rate_limit THEN "rate_limit"
  ELSE "observe"

\* Faulty variant: a challenged source is no longer seen as rate limited.
DecideOnLatestResponse(profile, x) ==
  LET c == Confidence(x)
      t == Threshold[profile] IN
  IF x.challenged /\ ~x.mature THEN "challenge"
  ELSE IF c >= t.block \/ (x.challenged /\ c >= t.challenge) THEN "block"
  ELSE IF c >= t.challenge \/ (x.limited /\ ~x.challenged /\ c >= t.rate_limit) THEN "challenge"
  ELSE IF c >= t.rate_limit THEN "rate_limit"
  ELSE "observe"

\* The first case that applies: a challenge in its grace keeps the source where
\* it is, then the responses from the strongest down.  A source that is already
\* rate limited goes on to the challenge at the rate-limit threshold.
Decide(profile, x) ==
  LET c == Confidence(x)
      t == Threshold[profile] IN
  IF x.challenged /\ ~x.mature THEN "challenge"
  ELSE IF c >= t.block \/ (x.challenged /\ c >= t.challenge) THEN "block"
  ELSE IF c >= t.challenge \/ (x.limited /\ c >= t.rate_limit) THEN "challenge"
  ELSE IF c >= t.rate_limit THEN "rate_limit"
  ELSE "observe"

\* The order "Observe -> Rate limit -> Challenge -> temporary Block".
Strength == [observe |-> 0, rate_limit |-> 1, challenge |-> 2, block |-> 3]
Eagerness == [conservative |-> 0, balanced |-> 1, aggressive |-> 2]
=============================================================================
