----------------------- MODULE MCStoreAndCertificates -----------------------
(* Small instances of ResponseStore and Certificates for TLC: what is left    *)
(* when one of several steps fails.  The two share nothing, so that a         *)
(* behaviour moves one of them, chosen at the start: two records for one      *)
(* address, or two certificates, one of which cannot be renewed, and two      *)
(* requests at a time beside the timer.                                       *)
EXTENDS MCResponseStore, Certificates

CONSTANTS left, right
VARIABLE part

MCSlot == {left, right}

MCInit ==
  /\ part \in {"store", "certificates"}
  /\ Init /\ CertInit
  /\ part = "store" => \A c \in Cert: ~Live(c)
  /\ part = "certificates" => ~bypass

MCNext ==
  \/ part = "store" /\ Next /\ UNCHANGED <<certVars, part>>
  \/ part = "certificates" /\ CertNext /\ UNCHANGED <<vars, part>>

\* The liveness checked here is that of the certificates.
MCSpec == MCInit /\ [][MCNext]_<<vars, certVars, part>> /\ (part = "certificates" => CertFairness)
=============================================================================
