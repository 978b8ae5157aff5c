---------------------------- MODULE ResponseList ----------------------------
(***************************************************************************)
(* What blocks.json (or rate-limits.json) promises to those who read it: a *)
(* list changed only by whole operations, each applied to the list as it   *)
(* then is.  ResponseStore implements it with several fallible steps.      *)
(***************************************************************************)
CONSTANTS Response, Target, TargetOf

VARIABLES list, expired

Init == list = {} /\ expired = {}

\* One record per target.
Add(r) ==
  /\ \A b \in list : TargetOf[b] # TargetOf[r]
  /\ list' = list \cup {r}
  /\ UNCHANGED expired

Remove(r) ==
  /\ r \in list
  /\ list' = list \ {r}
  /\ UNCHANGED expired

\* A purge drops expired records and no others.
Purge ==
  /\ \E old \in SUBSET (list \cap expired) : list' = list \ old
  /\ UNCHANGED expired

Expire(r) == expired' = expired \cup {r} /\ UNCHANGED list

Next == Purge \/ \E r \in Response : Add(r) \/ Remove(r) \/ Expire(r)

Spec == Init /\ [][Next]_<<list, expired>>
=============================================================================
