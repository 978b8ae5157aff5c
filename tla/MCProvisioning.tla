---------------------------- MODULE MCProvisioning ----------------------------
(* A small instance of Provisioning for TLC: the controller's own node and a  *)
(* remote one, one domain, two requests.                                      *)
EXTENDS Provisioning

CONSTANTS pi, edge, d, a1, a2, nothing

MCNode == {pi, edge}
MCDomain == {d}
MCAdmin == {a1, a2}
=============================================================================
