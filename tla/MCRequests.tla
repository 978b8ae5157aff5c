----------------------------- MODULE MCRequests -----------------------------
(* Small instances of EventArchive, RequestRisk and AutopilotLadder for TLC:  *)
(* logged requests, their scores, and the answers.  They share nothing, so    *)
(* that a behaviour moves one of them, chosen at the start.                   *)
EXTENDS EventArchive, RequestRisk, AutopilotLadder

CONSTANTS p1, p2
VARIABLE part

\* Six requests on three days.
MCEventDay == <<1, 1, 2, 2, 3, 3>>

\* Every list of four requests of these kinds in four units of time.
MCPath == {p1, p2}
MCKinds == {
  [path |-> p1, status |-> "denied", signals |-> {}, rules |-> 0],
  [path |-> p1, status |-> "missing", signals |-> {"cms_probe"}, rules |-> 0],
  [path |-> p2, status |-> "other", signals |-> {"declared_crawler"}, rules |-> 30]}
MCTimes == {t \in [1 .. 4 -> 0 .. 3] : \A i \in 1 .. 3: t[i] <= t[i + 1]}
MCLists ==
  {[i \in 1 .. 4 |-> [time |-> t[i], request |-> r[i]]] : t \in MCTimes, r \in [1 .. 4 -> MCKinds]}
    \cup {<<>>}

\* Every even risk score, with none to enough signals: every threshold and every
\* boost is even, so that an odd score is answered like the one below it.
MCRisks == {2 * i : i \in 0 .. 50}
MCStrongCounts == 0 .. 4

MCInit ==
  /\ part \in {"archive", "risk", "ladder"}
  /\ IF part = "risk" THEN TRUE ELSE list = <<>>
  /\ IF part = "ladder" THEN TRUE
     ELSE profile = "balanced" /\ proxied = FALSE /\ request = [risk |-> 0, strong |-> 0]
  /\ ArchiveInit /\ RiskInit /\ Init

MCNext ==
  \/ part = "archive" /\ ArchiveNext /\ UNCHANGED <<riskVars, vars, part>>
  \/ part = "risk" /\ RiskNext /\ UNCHANGED <<archiveVars, vars, part>>
  \/ part = "ladder" /\ Next /\ UNCHANGED <<archiveVars, riskVars, part>>

\* Fairness is asked of the part that moves.
MCSpec == MCInit /\ [][MCNext]_<<archiveVars, riskVars, vars, part>>
          /\ WF_archiveVars(part = "archive" /\ Archive)
          /\ WF_vars(part = "ladder" /\ Request) /\ WF_vars(part = "ladder" /\ GracePasses)
          /\ SF_vars(part = "ladder" /\ limited /\ Request)
=============================================================================
