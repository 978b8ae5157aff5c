--------------------------- MODULE MCHostPolicies ---------------------------
(* A small instance of HostPolicies for TLC.                                  *)
EXTENDS HostPolicies

CONSTANTS web, g1, g2, a1, a2, timer, none

MCHost == {web}
MCGroup == {g1, g2}
MCBodies == {[hosts |-> {web}, mode |-> "list", lax |-> FALSE],
             [hosts |-> {web}, mode |-> "open", lax |-> TRUE]}
MCAdmin == {a1, a2}
=============================================================================
