----------------------------- MODULE MCChallenge -----------------------------
(* A small instance of Challenge for TLC: two challenges, of one address or   *)
(* of two, and a client at the first.                                         *)
EXTENDS Challenge

CONSTANTS i1, i2, a, b, c, nobody

MCId == {i1, i2}
MCIp == {a, b}
MCClient == {c}
MCAddressOf == [x \in MCClient |-> a]
OffAndOn == {FALSE, TRUE}
=============================================================================
