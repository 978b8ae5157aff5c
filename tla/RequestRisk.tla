----------------------------- MODULE RequestRisk -----------------------------
(***************************************************************************)
(* How suspicious a request is (baseSignals and enrichEvents in            *)
(* internal/security.js).  What is seen in the request itself gives a base *)
(* risk; what its source did in the sixty seconds before it adds to that.  *)
(* The code counts the latter in one pass over the source's requests, in   *)
(* the order of their times: each is added to the counters, and those that *)
(* have left the window are taken out again.                               *)
(***************************************************************************)
EXTENDS Integers, FiniteSets, Sequences

CONSTANTS
  Path,
  RequestKinds,   \* the requests tried: what is seen in one, apart from its time
  Lists,          \* the lists of one source that are tried
  ContextWindow   \* REQUEST_CONTEXT_WINDOW_MS

\* The patterns of baseSignals and their scores.
Score == [
  sensitive_file_probe |-> 55, cms_probe |-> 35, path_traversal |-> 60, injection_probe |-> 55,
  unusual_method |-> 35, scanner_user_agent |-> 50, declared_crawler |-> 6, automation_client |-> 10,
  large_request |-> 12, slow_request |-> 8]

Signal == DOMAIN Score
Status == {"denied", "missing", "other"}   \* 401 and 403, 404, any other

ASSUME RiskAssumption ==
  /\ IsFiniteSet(Path) /\ ContextWindow \in Nat
  /\ RequestKinds \subseteq [path : Path, status : Status, signals : SUBSET Signal, rules : Nat]
  /\ Lists \subseteq Seq([time : Nat, request : RequestKinds])
  /\ \A l \in Lists: \A i, j \in DOMAIN l: i <= j => l[i].time <= l[j].time

If(condition, score) == IF condition THEN score ELSE 0
Scored(r, id) == If(id \in r.signals, Score[id])

\* The base automation risk: the crawler and client signals only report, and so do the
\* rules whose response is "observe"; r.rules is the score of the others.
BaseRisk(r) ==
  Scored(r, "sensitive_file_probe") + Scored(r, "cms_probe") + Scored(r, "path_traversal")
    + Scored(r, "injection_probe") + Scored(r, "unusual_method") + Scored(r, "scanner_user_agent")
    + Scored(r, "large_request") + Scored(r, "slow_request")
    + If(r.status = "denied", 10) + If(r.status = "missing", 4) + r.rules

Suspicious(r) == BaseRisk(r) >= 30

-----------------------------------------------------------------------------
(* What the source's recent requests add. *)

Probes == {"sensitive_file_probe", "cms_probe", "injection_probe"}
Recon(c) == c.missing >= 20 \/ c.suspiciousPaths >= 5
PathSweep(c) == c.requests >= 50 /\ c.uniquePaths >= 30
MissingSweep(c) == c.missing >= 20 /\ c.uniquePaths >= 15

CrawlerAttack(r, c) ==
  \/ "scanner_user_agent" \in r.signals /\ (Recon(c) \/ r.signals \cap Probes # {})
  \/ PathSweep(c) /\ (Recon(c) \/ MissingSweep(c) \/ r.signals \cap Probes # {})
  \/ /\ c.requests >= 300 /\ c.suspiciousPaths >= 3
     /\ r.signals \cap {"declared_crawler", "automation_client"} # {}

\* The risk Autopilot decides on, for a request in a context.
AutomationRisk(r, c) ==
  LET sum == BaseRisk(r)
               + If(c.requests >= 100, 25) + If(c.requests >= 300, 35)
               + If(c.denied >= 10, 35) + If(c.missing >= 20, 25)
               + If(c.suspiciousPaths >= 5, 35) + If(PathSweep(c), 35)
               + If(MissingSweep(c), 35) + If(CrawlerAttack(r, c), 55)
  IN  IF sum > 100 THEN 100 ELSE sum

-----------------------------------------------------------------------------
(* The pass over the requests of one source. *)

VARIABLES
  list,        \* the requests of the source, with their times
  start, end,  \* the window, while the pass is at the request `end`
  added,       \* whether that one is counted already
  denied, missing, pathCounts, suspiciousPathCounts,  \* 0: the map has no entry
  context      \* contextByIndex, of the requests passed

riskVars == <<list, start, end, added, denied, missing, pathCounts, suspiciousPathCounts, context>>

RiskInit ==
  /\ list \in Lists
  /\ start = 1 /\ end = 1 /\ added = FALSE
  /\ denied = 0 /\ missing = 0
  /\ pathCounts = [p \in Path |-> 0] /\ suspiciousPathCounts = [p \in Path |-> 0]
  /\ context = <<>>

\* addToWindow (n = 1) and removeFromWindow (n = -1) of a request.
Count(r, n) ==
  /\ denied' = denied + If(r.status = "denied", n)
  /\ missing' = missing + If(r.status = "missing", n)
  /\ pathCounts' = [pathCounts EXCEPT ![r.path] = @ + n]
  /\ suspiciousPathCounts' = [suspiciousPathCounts EXCEPT ![r.path] = @ + If(Suspicious(r), n)]

AddToWindow ==
  /\ end <= Len(list) /\ ~added
  /\ Count(list[end].request, 1)
  /\ added' = TRUE
  /\ UNCHANGED <<list, start, end, context>>

\* Faulty variant: a request exactly a window old is taken out too early.
HasLeftEarly(i) == list[end].time - list[i].time >= ContextWindow

HasLeft(i) == list[end].time - list[i].time > ContextWindow

RemoveFromWindow ==
  /\ added /\ start <= end /\ HasLeft(start)
  /\ Count(list[start].request, -1)
  /\ start' = start + 1
  /\ UNCHANGED <<list, end, added, context>>

Present(counts) == {p \in Path : counts[p] > 0}

SetContext ==
  /\ added /\ ~(start <= end /\ HasLeft(start))
  /\ context' = Append(context,
       [requests |-> end - start + 1, denied |-> denied, missing |-> missing,
        uniquePaths |-> Cardinality(Present(pathCounts)),
        suspiciousPaths |-> Cardinality(Present(suspiciousPathCounts))])
  /\ end' = end + 1 /\ added' = FALSE
  /\ UNCHANGED <<list, start, denied, missing, pathCounts, suspiciousPathCounts>>

RiskNext == AddToWindow \/ RemoveFromWindow \/ SetContext
RiskSpec == RiskInit /\ [][RiskNext]_riskVars

-----------------------------------------------------------------------------
\* The requests of the source up to the i-th that are at most a window older.
Recent(i) == {j \in 1 .. i : list[i].time - list[j].time <= ContextWindow}

Exact(i) ==
  [requests |-> Cardinality(Recent(i)),
   denied |-> Cardinality({j \in Recent(i) : list[j].request.status = "denied"}),
   missing |-> Cardinality({j \in Recent(i) : list[j].request.status = "missing"}),
   uniquePaths |-> Cardinality({list[j].request.path : j \in Recent(i)}),
   suspiciousPaths |->
     Cardinality({list[j].request.path : j \in {k \in Recent(i) : Suspicious(list[k].request)}})]

\* What is said of a request ("10 denied requests from this IP in 60s") is true of the
\* requests before it, whatever came into the counters and left them.
ContextIsExact == \A i \in 1 .. Len(context): context[i] = Exact(i)
=============================================================================
