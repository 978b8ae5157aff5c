---------------------------- MODULE MCHostConfig ----------------------------
(* A small instance of HostConfig for TLC: a proxy host with an access list,  *)
(* a redirection host, and two requests at a time.                            *)
EXTENDS HostConfig, TLC

CONSTANTS web, old, left, right, none

MCHost == {web, old}
JustWeb == {web}
MCTypes == [h \in MCHost |-> IF h = web THEN "proxy" ELSE "redirection"]
Two == {left, right}
One == {left}
SlotSymmetry == Permutations(Two)
=============================================================================
