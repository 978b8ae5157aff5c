------------------------------ MODULE MCReports ------------------------------
(* Small instances of NodeTelemetry and SignedEvents for TLC.  They share     *)
(* nothing, so that a behaviour moves one of them, chosen at the start.       *)
EXTENDS NodeTelemetry, SignedEvents

CONSTANTS k1, k2, none
VARIABLE part

MCKey == {k1, k2}

Init == TelemetryInit /\ DevicesInit /\ part \in {"telemetry", "devices"}

Next ==
  \/ part = "telemetry" /\ TelemetryNext /\ UNCHANGED <<devicesVars, part>>
  \/ part = "devices" /\ DevicesNext /\ UNCHANGED <<telemetryVars, part>>

Spec == Init /\ [][Next]_<<telemetryVars, devicesVars, part>>
        /\ (part = "telemetry" => TelemetryFairness)
=============================================================================
