---------------------------- MODULE ChallengeList ----------------------------
(***************************************************************************)
(* What a browser challenge promises: it is open at most once per address, *)
(* takes a bounded number of wrong proofs, is solved at most once, and     *)
(* once solved never comes back.  Challenge implements it with files, an   *)
(* Nginx that has to be reloaded, and steps that fail.                     *)
(***************************************************************************)
EXTENDS Naturals

CONSTANTS Id, Ip, MaxAttempts

VARIABLES
  open,    \* the challenges somebody has to solve, with the wrong proofs so far
  solved   \* the challenges whose solution was accepted

vars == <<open, solved>>

Init == open = {} /\ solved = {}

\* Any number at once, for addresses that have none, under names never solved.
Start(new) ==
  /\ \A c \in new : c.attempts = 0 /\ c.id \notin solved /\ c \notin open
  /\ \A c \in new, d \in open \cup new : c.ip = d.ip \/ c.id = d.id => c = d
  /\ open' = open \cup new
  /\ UNCHANGED solved

Miss(c) ==
  /\ c.attempts < MaxAttempts
  /\ open' = (open \ {c}) \cup {[c EXCEPT !.attempts = @ + 1]}
  /\ UNCHANGED solved

Solve(c) ==
  /\ c.attempts < MaxAttempts
  /\ open' = open \ {c}
  /\ solved' = solved \cup {c.id}

\* Expired, or taken off by an administrator or the monitor.
Drop(ended) ==
  /\ open' = open \ ended
  /\ UNCHANGED solved

Next ==
  \/ \E new \in SUBSET [id : Id, ip : Ip, attempts : {0}] : Start(new)
  \/ \E c \in open : Miss(c) \/ Solve(c)
  \/ \E ended \in SUBSET open : Drop(ended)

Spec == Init /\ [][Next]_vars
=============================================================================
