-------------------------- MODULE MCResponseStore --------------------------
(* Small instances of ResponseStore for TLC. *)
EXTENDS ResponseStore

CONSTANTS backend, r1, r2, t1, t2, notice

MCBackendOnly == {backend}
MCResponse == {r1, r2}
MCTarget == {t1, t2}
\* r1 and r2 are two records for one address.
MCSameTarget == [r \in {r1, r2} |-> t1]
MCOwnTarget == [r \in {r1, r2} |-> IF r = r1 THEN t1 ELSE t2]
=============================================================================
