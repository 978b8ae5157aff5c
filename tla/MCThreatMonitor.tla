--------------------------- MODULE MCThreatMonitor ---------------------------
(* Small instances of ThreatMonitor for TLC. *)
EXTENDS ThreatMonitor

CONSTANTS s1, s2, range, e1, e2, e3, e4, soft, none, admin

MCSource == {s1, s2}
MCTarget == {s1, s2, range}
MCCovers == [t \in {s1, s2, range} |-> IF t = range THEN {s1, s2} ELSE {t}]
OneSource == {s1}
OneTarget == {s1}
OneCovers == [t \in {s1} |-> {t}]

\* An attack that Autopilot limits, one it challenges at once, one of another
\* source that it blocks at once.
Attacks == {e1, e2, e3}
AttackSource == [e \in Event |-> IF e = e3 THEN s2 ELSE s1]
AttackRisk == [e \in Event |-> CASE e = e1 -> 55 [] e = e2 -> 80 [] e = e3 -> 95]
AttackClass == [e \in Event |-> IF e = e1 THEN "recon" ELSE "exploit"]

\* Those of them on proxy hosts.
Pair == {e1, e2}

\* Two attacks of one source that climb from a limit to a block, and a request
\* without a signal from a private address.
NoiseSource == [e \in Event |-> IF e = e3 THEN s2 ELSE s1]
NoiseRisk == [e \in Event |-> CASE e = e1 -> 60 [] e = e2 -> 80 [] e = e3 -> 20]
NoiseClass == [e \in Event |-> IF e = e3 THEN none ELSE "exploit"]
JustS2 == {s2}

\* Four requests of one source that a custom soft rule matches.
Softs == {e1, e2, e3, e4}
SoftSource == [e \in Event |-> s1]
SoftRisk == [e \in Event |-> 50]
SoftClass == [e \in Event |-> soft]

NoStrong == [e \in Event |-> 0]

Auto == [k \in {"crawler", "ddos", "criticalFiles", "exploit", "authAbuse", "recon", "unusualMethods"} |-> "auto"]
Enforce == [enabled |-> TRUE, trusted |-> {}, profile |-> "balanced", action |-> Auto]
Observing == [Enforce EXCEPT !.enabled = FALSE]
Configured == [Enforce EXCEPT !.action["recon"] = "rate_limit", !.action["exploit"] = "block"]

OnlyEnforce == {Enforce}
EnforceOrObserve == {Enforce, Observing}
AutoOrConfigured == {Enforce, Configured}
JustRange == {range}
=============================================================================
