---------------------------- MODULE ThreatMonitor ----------------------------
(***************************************************************************)
(* The automatic responses of HYROVI Sec (monitorThreats in                *)
(* internal/security.js).  Every five seconds the monitor reads the        *)
(* requests Nginx logged, keeps those it has not seen, and hands them with *)
(* a copy of the policy to the chain of operations that also runs the      *)
(* administrator's blocks and rate limits.  A run on the chain considers   *)
(* the requests one by one and then commits, in this order: rate limits,   *)
(* challenges, blocks, removal of superseded challenges, strike counters.  *)
(*                                                                         *)
(* Challenges have a chain of their own (security_challenge.js): sources   *)
(* solve them and administrators lift them while a run is under way.       *)
(*                                                                         *)
(* A commit is one step here, which takes effect whole or not at all: the  *)
(* module ResponseStore shows what the steps inside one may do.            *)
(***************************************************************************)
EXTENDS Autopilot, Sequences, FiniteSets, SequencesExt

CONSTANTS
  Source,          \* client addresses
  Target,          \* what a response may name: addresses and CIDR ranges
  Covers,          \* the addresses a target contains
  Private,         \* RFC 1918, link-local and loopback sources
  Event,           \* logged requests
  SourceOf, RiskOf, StrongOf,
  ClassOf,         \* the protection rule an event matches, Soft or None
  Guarded,         \* events on hosts whose mode enforces
  Proxied,         \* events on hosts that are Proxy Hosts here
  Soft,            \* the class of an event only a custom soft rule matched
  None,            \* no recognised signal; also no strike counter, no removal
  Admin,           \* the author of manual responses
  Policies,        \* policies an administrator switches between
  ManualBlocks, ManualLimits,   \* targets an administrator responds to
  SoftThreshold, Hits, Window, Cooldown, Grace,
  TimeBound,       \* bound: how far the clock runs
  RunBound,        \* bound: monitor runs waiting in the chain
  Failures,        \* whether commits may fail
  Crashes          \* whether the backend may be restarted

ASSUME SourceAssumption ==
  /\ Source \subseteq Target /\ Private \subseteq Source
  /\ Covers \in [Target -> SUBSET Source]
  /\ \A s \in Source : Covers[s] = {s}
ASSUME EventAssumption ==
  /\ SourceOf \in [Event -> Source] /\ RiskOf \in [Event -> 0 .. 100]
  /\ StrongOf \in [Event -> Nat]
  /\ Guarded \subseteq Event /\ Proxied \subseteq Event
  /\ Admin \notin Event
ASSUME NumberAssumption ==
  /\ {SoftThreshold, Hits, Window, Cooldown, Grace, TimeBound, RunBound} \subseteq Nat
  /\ {Failures, Crashes} \subseteq BOOLEAN

VARIABLES
  now,
  log,         \* the requests in Nginx's log, oldest first
  at,          \* when each of them was made
  policy,      \* policy.json
  blocks, limits, challenges,   \* the three durable response lists
  marks,       \* escalations.json: a strike counter per source, or none
  repeats,     \* blocks started per source in the last 24 h, as far as they count
  primed, seen,    \* monitorPrimed, processedEventIds
  waiting,     \* runs in the chain: fresh events and the policy read with them
  pc,          \* the step the current run is at
  fresh, rules,    \* its events left to consider, its policy
  known,       \* the challenges it listed at its start
  newBlocks, newLimits, asked,  \* what it has decided on
  work,        \* its copy of the strike counters, pruned
  loaded,      \* the strike counters it read, and the same pruned
  undo,        \* an administrator's removal of a challenge, half done
  answers,     \* history: responses started per event
  strikes      \* history: the strikes counted, with the limit they counted for

stores == <<blocks, limits, challenges, marks, repeats>>
feed == <<log, at, primed, seen, waiting>>
batch == <<fresh, known, newBlocks, newLimits, asked, work, loaded>>
run == <<pc, rules, batch>>
history == <<answers, strikes>>
vars == <<now, policy, stores, feed, run, undo, history>>

Never == 0 - Cooldown   \* "no such time", for the cooldown between strikes
NoMark == None
NoUndo == None
Logged == Range(log)

Block == [ip : Target, by : Event \cup {Admin}]
Limit == Block
Challenge == [ip : Source, by : Event, at : 0 .. TimeBound]
Mark == [limit : Limit, strikes : 0 .. Cardinality(Event),
         start : 0 .. TimeBound, last : (0 .. TimeBound) \cup {Never}]

On(s, list) == {r \in list : s \in Covers[r.ip]}
Ips(list) == {r.ip : r \in list}
Of(s, list) == {r \in list : r.ip = s}

Init ==
  /\ now = 0 /\ log = <<>> /\ at = [e \in Event |-> 0]
  /\ policy \in Policies
  /\ blocks = {} /\ limits = {} /\ challenges = {}
  /\ marks = [s \in Source |-> NoMark] /\ repeats = [s \in Source |-> 0]
  /\ primed = FALSE /\ seen = {} /\ waiting = <<>>
  /\ pc = "free" /\ fresh = <<>> /\ rules = policy
  /\ known = {} /\ newBlocks = {} /\ newLimits = {} /\ asked = {}
  /\ work = marks /\ loaded = <<marks, marks>> /\ undo = NoUndo
  /\ answers = [e \in Event |-> 0] /\ strikes = {}

-----------------------------------------------------------------------------
\* Time, requests and the administrator

Tick ==
  /\ now < TimeBound
  /\ now' = now + 1
  /\ UNCHANGED <<policy, stores, feed, run, undo, history>>

Log(e) ==
  /\ e \notin Logged
  /\ log' = Append(log, e)
  /\ at' = [at EXCEPT ![e] = now]
  /\ UNCHANGED <<now, policy, stores, primed, seen, waiting, run, undo, history>>

\* updatePolicy writes policy.json outside the chain.
SetPolicy(p) ==
  /\ policy # p
  /\ policy' = p
  /\ UNCHANGED <<now, stores, feed, run, undo, history>>

\* The administrator's operations and the purges run on the free chain.
Chained == pc = "free" /\ UNCHANGED <<now, policy, feed, run, undo, answers, strikes>>

AdminBlock(t) ==
  /\ Chained
  /\ \A b \in blocks : b.ip # t
  /\ blocks' = blocks \cup {[ip |-> t, by |-> Admin]}
  /\ repeats' = [s \in Source |-> IF s = t THEN AtMost(3, repeats[s] + 1) ELSE repeats[s]]
  /\ UNCHANGED <<limits, challenges, marks>>

\* unblockIp, or purgeExpired
LiftBlock(b) ==
  /\ Chained
  /\ blocks' = blocks \ {b}
  /\ UNCHANGED <<limits, challenges, marks, repeats>>

AdminLimit(t) ==
  /\ Chained
  /\ \A l \in limits : l.ip # t
  /\ limits' = limits \cup {[ip |-> t, by |-> Admin]}
  /\ UNCHANGED <<blocks, challenges, marks, repeats>>

\* unrateLimitIp clears the strikes too; the purge leaves them to the pruning.
AdminUnlimit(l) ==
  /\ Chained
  /\ limits' = limits \ {l}
  /\ \/ marks' = [s \in Source |-> IF s = l.ip THEN NoMark ELSE marks[s]]
     \/ Failures /\ UNCHANGED marks
  /\ UNCHANGED <<blocks, challenges, repeats>>

ExpireLimit(l) ==
  /\ Chained
  /\ limits' = limits \ {l}
  /\ UNCHANGED <<blocks, challenges, marks, repeats>>

\* One of the blocks of a source is more than 24 hours old.
Forget(s) ==
  /\ repeats[s] > 0
  /\ repeats' = [repeats EXCEPT ![s] = @ - 1]
  /\ UNCHANGED <<now, policy, blocks, limits, challenges, marks, feed, run, undo, history>>

\* On the challenge chain: the source solves it, or it expires.
EndChallenge(c) ==
  /\ challenges' = challenges \ {c}
  /\ UNCHANGED <<now, policy, blocks, limits, marks, repeats, feed, run, undo, answers, strikes>>

\* removeChallenge: the challenge goes first, then the strikes of its source are
\* cleared by a read and a write of the whole file, outside the chain.
LiftChallenge(c) ==
  /\ undo = NoUndo
  /\ challenges' = challenges \ {c}
  /\ undo' = [ip |-> c.ip, read |-> NoMark]
  /\ UNCHANGED <<now, policy, blocks, limits, marks, repeats, feed, run, answers, strikes>>

ReadMarks ==
  /\ undo # NoUndo /\ undo.read = NoMark
  /\ undo' = IF marks[undo.ip] = NoMark THEN NoUndo ELSE [undo EXCEPT !.read = marks]
  /\ UNCHANGED <<now, policy, stores, feed, run, history>>

ClearMarks ==
  /\ undo # NoUndo /\ undo.read # NoMark
  /\ \/ marks' = [undo.read EXCEPT ![undo.ip] = NoMark]
     \/ Failures /\ UNCHANGED marks
  /\ undo' = NoUndo
  /\ UNCHANGED <<now, policy, blocks, limits, challenges, repeats, feed, run, answers, strikes>>

-----------------------------------------------------------------------------
\* A poll, and the start of a run

\* Faulty variant: processedEventIds is not consulted.
PollAgain ==
  /\ Len(waiting) < RunBound /\ primed
  /\ log # <<>>
  /\ seen' = Logged
  /\ waiting' = IF policy.enabled
                THEN Append(waiting, [fresh |-> log, policy |-> policy]) ELSE waiting
  /\ UNCHANGED <<now, policy, stores, log, at, primed, run, undo, history>>

\* The first poll of a process only remembers what is in the log already.
Prime ==
  /\ ~primed
  /\ primed' = TRUE /\ seen' = Logged
  /\ UNCHANGED <<now, policy, stores, log, at, waiting, run, undo, history>>

\* rememberEvent, oldest event first: those that were not known become fresh,
\* each of them once.
Remember(events, remembered) ==
  LET kept[i \in 0 .. Len(events)] ==
        IF i = 0 THEN <<>>
        ELSE IF events[i] \in remembered \cup Range(kept[i - 1]) THEN kept[i - 1]
        ELSE Append(kept[i - 1], events[i])
  IN  kept[Len(events)]

\* Later ones chain a run for the events not seen before.  The policy is read
\* here, not when the run gets its turn.
Poll ==
  /\ Len(waiting) < RunBound /\ primed
  /\ Logged \ seen # {}
  /\ seen' = Logged
  /\ waiting' = IF policy.enabled
                THEN Append(waiting, [fresh |-> Remember(log, seen), policy |-> policy])
                ELSE waiting
  /\ UNCHANGED <<now, policy, stores, log, at, primed, run, undo, history>>

\* pruneEscalationStates
Prune(m) ==
  [s \in Source |-> IF /\ m[s] # NoMark
                       /\ m[s].limit \in limits /\ m[s].limit.ip = s
                       /\ now - m[s].start <= Window
                    THEN m[s] ELSE NoMark]

\* The timer's purgeEscalations.
PruneMarks ==
  /\ Chained
  /\ marks # Prune(marks)
  /\ marks' = Prune(marks)
  /\ UNCHANGED <<blocks, limits, challenges, repeats>>

Begin ==
  /\ pc = "free" /\ waiting # <<>>
  /\ fresh' = Head(waiting).fresh /\ rules' = Head(waiting).policy
  /\ waiting' = Tail(waiting)
  /\ known' = challenges /\ work' = Prune(marks) /\ loaded' = <<marks, Prune(marks)>>
  /\ newBlocks' = {} /\ newLimits' = {} /\ asked' = {}
  /\ pc' = "consider"
  /\ UNCHANGED <<now, policy, stores, log, at, primed, seen, undo, answers, strikes>>

\* A read or a purge at the start of a run throws; its events are lost.
BeginFails ==
  /\ Failures
  /\ pc = "free" /\ waiting # <<>>
  /\ waiting' = Tail(waiting)
  /\ UNCHANGED <<now, policy, stores, log, at, primed, seen, run, undo, history>>

-----------------------------------------------------------------------------
\* Considering one event

\* The limits in force on s: the one for exactly s if there is one.
ActiveLimits(s) ==
  LET exact == Of(s, limits \cup newLimits) IN
  IF exact # {} THEN exact ELSE On(s, limits)

Matured(e) == \E c \in Of(SourceOf[e], known) : at[e] - c.at >= Grace

Excluded(s) == s \in Private \cup rules.trusted

\* What is done about an event that matches a rule: the rule's action, or
\* Autopilot's decision.
Action(e) ==
  LET s == SourceOf[e] IN
  IF rules.action[ClassOf[e]] = "auto"
  THEN Decide(rules.profile,
              [risk |-> RiskOf[e], strong |-> StrongOf[e], repeats |-> repeats[s],
               limited |-> ActiveLimits(s) # {},
               challenged |-> Of(s, known) # {},
               mature |-> Matured(e)])
  ELSE rules.action[ClassOf[e]]

\* The head of the events, if nothing excludes it from being answered.
Answerable(e) ==
  /\ pc = "consider" /\ fresh # <<>> /\ e = Head(fresh)
  /\ e \in Guarded /\ ~Excluded(SourceOf[e])
  /\ On(SourceOf[e], blocks) = {} /\ Of(SourceOf[e], newBlocks) = {}

ByRule(e) == Answerable(e) /\ ClassOf[e] \notin {Soft, None}
BySoftRule(e) == Answerable(e) /\ ClassOf[e] = Soft /\ RiskOf[e] >= SoftThreshold

Considered ==
  /\ fresh' = Tail(fresh)
  /\ UNCHANGED <<now, policy, stores, feed, pc, rules, known, loaded, undo, answers>>

AddBlock(e) ==
  /\ newBlocks' = newBlocks \cup {[ip |-> SourceOf[e], by |-> e]}
  /\ work' = [work EXCEPT ![SourceOf[e]] = NoMark]
  /\ UNCHANGED <<newLimits, asked>>

\* queueChallenge
AddChallenge(e) ==
  /\ asked' = asked \cup {[ip |-> SourceOf[e], by |-> e]}
  /\ work' = [work EXCEPT ![SourceOf[e]] = NoMark]
  /\ UNCHANGED <<newBlocks, newLimits>>

NewMark(l) == [limit |-> l, strikes |-> 0, start |-> now, last |-> now]

AddLimit(e, marked) ==
  LET l == [ip |-> SourceOf[e], by |-> e] IN
  /\ newLimits' = newLimits \cup {l}
  /\ work' = IF marked THEN [work EXCEPT ![l.ip] = NewMark(l)] ELSE work
  /\ UNCHANGED <<newBlocks, asked>>

Challenged(e) == SourceOf[e] \in Ips(known) \cup Ips(asked)

RuleBlocks(e) ==
  ByRule(e) /\ Action(e) = "block" /\ AddBlock(e) /\ Considered /\ UNCHANGED strikes

RuleChallenges(e) ==
  /\ ByRule(e) /\ Action(e) = "challenge"
  /\ e \in Proxied /\ ~Challenged(e)
  /\ AddChallenge(e) /\ Considered /\ UNCHANGED strikes

RuleLimits(e) ==
  /\ ByRule(e) /\ Action(e) = "rate_limit" /\ ActiveLimits(SourceOf[e]) = {}
  /\ AddLimit(e, rules.action[ClassOf[e]] = "auto")
  /\ Considered /\ UNCHANGED strikes

SoftLimits(e) ==
  /\ BySoftRule(e) /\ ActiveLimits(SourceOf[e]) = {}
  /\ AddLimit(e, TRUE)
  /\ Considered /\ UNCHANGED strikes

\* The rule decides on nothing new, or the event is passed over.
Pass(e) ==
  /\ pc = "consider" /\ fresh # <<>> /\ e = Head(fresh)
  /\ \/ ~Answerable(e)
     \/ ClassOf[e] = None \/ (ClassOf[e] = Soft /\ RiskOf[e] < SoftThreshold)
     \/ /\ ByRule(e)
        /\ \/ Action(e) \in {"observe", "deny"}
           \/ Action(e) = "challenge" /\ (e \notin Proxied \/ Challenged(e))
           \/ Action(e) = "rate_limit" /\ ActiveLimits(SourceOf[e]) # {}
     \/ BySoftRule(e) /\ \E l \in ActiveLimits(SourceOf[e]) :
                           l.by = Admin \/ (l.by # Admin /\ ClassOf[l.by] # Soft)
  /\ Considered /\ UNCHANGED <<newBlocks, newLimits, asked, work, strikes>>

\* registerEscalationStrike: the counter it starts from ...
Counter(e, l) ==
  LET m == work[SourceOf[e]] IN
  IF m # NoMark /\ m.limit = l /\ at[e] - m.start <= Window
  THEN m
  ELSE [limit |-> l, strikes |-> 0, start |-> at[e], last |-> Never]

\* Faulty variant: the cooldown is not looked at.
CountsAlways(e, m) == TRUE

\* ... and whether the event counts.
Counts(e, m) == at[e] - m.last >= Cooldown

\* A further event of a source that a soft rule has limited.
Strike(e, l) ==
  LET m == Counter(e, l)
      n == IF Counts(e, m) THEN [m EXCEPT !.strikes = @ + 1, !.last = at[e]] ELSE m
      escalated == Counts(e, m) /\ n.strikes >= Hits
      tolerated == e \in Proxied /\ Challenged(e) /\ ~Matured(e) IN
  /\ BySoftRule(e)
  /\ l \in ActiveLimits(SourceOf[e]) /\ l.by # Admin /\ ClassOf[l.by] = Soft
  /\ strikes' = IF Counts(e, m) THEN strikes \cup {[event |-> e, limit |-> l]} ELSE strikes
  /\ \/ /\ ~escalated \/ tolerated
        /\ work' = [work EXCEPT ![SourceOf[e]] = n]
        /\ UNCHANGED <<newBlocks, newLimits, asked>>
     \/ escalated /\ e \in Proxied /\ ~Challenged(e) /\ AddChallenge(e)
     \/ escalated /\ (e \notin Proxied \/ (Challenged(e) /\ Matured(e))) /\ AddBlock(e)
  /\ Considered

-----------------------------------------------------------------------------
\* Committing a run

Started(list) == [e \in Event |-> answers[e] + Cardinality({r \in list : r.by = e})]

\* The locals of the run are gone.
Forgotten ==
  /\ fresh' = <<>> /\ known' = {} /\ newBlocks' = {} /\ newLimits' = {} /\ asked' = {}
  /\ work' = [s \in Source |-> NoMark] /\ loaded' = <<work', work'>>

\* Faulty variant: a failing run does not leave the chain.
FailAndHang == Failures /\ pc' = "hung" /\ Forgotten

\* The operation throws out of the run.
Fail == Failures /\ pc' = "free" /\ Forgotten

\* Faulty variant: the limits under the new blocks are left.
CommitLimitsOnly ==
  /\ pc = "consider" /\ fresh = <<>>
  /\ limits' = limits \cup newLimits
  /\ answers' = Started(newLimits)
  /\ pc' = "challenge"
  /\ UNCHANGED <<now, policy, blocks, challenges, marks, repeats, feed, rules, batch, undo,
                 strikes>>

\* commitRateLimitState, when limits start or give way to blocks.
CommitLimits ==
  LET superseded == {l \in limits : Covers[l.ip] \cap Ips(newBlocks) # {}}
      started == {l \in newLimits : l.ip \notin Ips(newBlocks)} IN
  /\ pc = "consider" /\ fresh = <<>>
  /\ \/ /\ limits' = (limits \ superseded) \cup started
        /\ answers' = Started(started)
        /\ pc' = "challenge"
        /\ UNCHANGED batch
     \/ newLimits \cup superseded # {} /\ Fail /\ UNCHANGED <<limits, answers>>
  /\ UNCHANGED <<now, policy, blocks, challenges, marks, repeats, feed, rules, undo,
                 strikes>>

\* challengeIps; when it cannot, the sources are blocked instead.
StartChallenges ==
  LET started == {[ip |-> a.ip, by |-> a.by, at |-> now] :
                    a \in {a \in asked : a.ip \notin Ips(challenges)}} IN
  /\ pc = "challenge"
  /\ pc' = "block"
  /\ \/ /\ challenges' = challenges \cup started
        /\ answers' = Started(started)
        /\ UNCHANGED newBlocks
     \/ /\ Failures /\ asked # {}
        /\ newBlocks' = newBlocks \cup {a \in asked : a.ip \notin Ips(newBlocks)}
        /\ UNCHANGED <<challenges, answers>>
  /\ UNCHANGED <<now, policy, blocks, limits, marks, repeats, feed, fresh, rules, known,
                 newLimits, asked, work, loaded, undo, strikes>>

\* commitBlockState
CommitBlocks ==
  /\ pc = "block"
  /\ \/ /\ blocks' = blocks \cup newBlocks
        /\ answers' = Started(newBlocks)
        /\ repeats' = [s \in Source |-> IF s \in Ips(newBlocks)
                                        THEN AtMost(3, repeats[s] + 1) ELSE repeats[s]]
        /\ pc' = "clear"
        /\ UNCHANGED batch
     \/ newBlocks # {} /\ Fail /\ UNCHANGED <<blocks, answers, repeats>>
  /\ UNCHANGED <<now, policy, limits, challenges, marks, feed, rules, undo, strikes>>

\* Challenges the run knew of give way to its blocks.  A removal that fails is
\* logged and skipped.
ClearChallenges ==
  LET superseded == Ips(known) \cap Ips(newBlocks) IN
  /\ pc = "clear"
  /\ pc' = "marks"
  /\ \E removed \in IF Failures THEN SUBSET superseded ELSE {superseded} :
       challenges' = {c \in challenges : c.ip \notin removed}
  /\ UNCHANGED <<now, policy, blocks, limits, marks, repeats, feed, rules, batch, undo, history>>

\* writeEscalationsBestEffort, when the counters changed or were pruned.
WriteMarks ==
  /\ pc = "marks"
  /\ pc' = "free" /\ Forgotten
  /\ \/ marks' = IF loaded[1] # loaded[2] \/ work # loaded[2] THEN work ELSE marks
     \/ Failures /\ UNCHANGED marks
  /\ UNCHANGED <<now, policy, blocks, limits, challenges, repeats, feed, rules, undo, history>>

\* The backend is restarted: its memory is gone, the files are not.
Restart ==
  /\ Crashes
  /\ primed' = FALSE /\ seen' = {} /\ waiting' = <<>>
  /\ pc' = "free" /\ Forgotten /\ undo' = NoUndo
  /\ UNCHANGED <<now, policy, stores, log, at, rules, history>>

Operate ==
  \/ Begin \/ BeginFails
  \/ \E e \in Event :
       \/ Pass(e) \/ RuleBlocks(e) \/ RuleChallenges(e) \/ RuleLimits(e) \/ SoftLimits(e)
       \/ \E l \in limits \cup newLimits : Strike(e, l)
  \/ CommitLimits \/ StartChallenges \/ CommitBlocks \/ ClearChallenges \/ WriteMarks

Next ==
  \/ Tick \/ Prime \/ Poll \/ Operate \/ PruneMarks \/ ReadMarks \/ ClearMarks \/ Restart
  \/ \E e \in Event : Log(e)
  \/ \E p \in Policies : SetPolicy(p)
  \/ \E t \in ManualBlocks : AdminBlock(t)
  \/ \E t \in ManualLimits : AdminLimit(t)
  \/ \E b \in blocks : LiftBlock(b)
  \/ \E l \in limits : AdminUnlimit(l) \/ ExpireLimit(l)
  \/ \E s \in Source : Forget(s)
  \/ \E c \in challenges : EndChallenge(c) \/ LiftChallenge(c)

Spec == Init /\ [][Next]_vars

\* The timer does not stop and a run that has its turn goes on to its end.
Fairness == WF_vars(Prime) /\ WF_vars(Poll) /\ WF_vars(Operate)
LiveSpec == Spec /\ Fairness

-----------------------------------------------------------------------------
\* A request starts at most one response, however polls overlap, runs fail and
\* the backend restarts: processedEventIds and the priming poll see to it.
AnsweredOnce == \A e \in Event : answers[e] <= 1

\* A source under a soft rule's rate limit is challenged or blocked only for
\* Hits of its own requests during that very limit, inside one window and a
\* cooldown apart (registerEscalationStrike over the strike file that restarts,
\* pruning and administrators rewrite).
EscalationEarned ==
  \A r \in asked \cup newBlocks : ClassOf[r.by] = Soft =>
    \E earned \in SUBSET strikes :
      /\ Cardinality(earned) = Hits
      /\ \A a, b \in earned :
           /\ a.limit = b.limit /\ a.limit.ip = r.ip /\ SourceOf[a.event] = r.ip
           /\ at[r.by] - at[a.event] \in 0 .. Window
           /\ a # b => at[a.event] - at[b.event] \notin (1 - Cooldown) .. (Cooldown - 1)

\* "A hard block supersedes lower rate-limit/challenge responses" (HYROVI_SEC.md):
\* when a run ends well, nothing that was in force when it began is left beside
\* the blocks it decided on, not even a limit on a range around the source.
BlockSupersedes ==
  [][pc = "marks" /\ pc' = "free" =>
       \A b \in newBlocks :
         /\ On(b.ip, limits) = {}
         /\ Of(b.ip, known \cap challenges) = {}]_vars

\* Every request logged while the backend lives gets its turn: no failing run
\* holds up the monitor.
EventsGetTheirTurn ==
  \A e \in Event :
    e \in Logged ~>
      /\ e \in seen
      /\ e \notin Range(fresh) /\ \A i \in DOMAIN waiting : e \notin Range(waiting[i].fresh)

\* "The challenged source receives at least a 30-second grace period" (HYROVI_SEC.md):
\* the monitor blocks no source whose challenge the run knew of, and that is still in
\* force, less than Grace before the request it answers, though challenges are solved,
\* lifted and started again meanwhile.  It speaks of Autopilot and, for the strikes
\* under a soft rule, of Proxy Hosts: elsewhere strikes block without a challenge.
ChallengeHasGrace ==
  [][\A b \in blocks' \ blocks :
       /\ b.by # Admin
       /\ IF ClassOf[b.by] = Soft THEN b.by \in Proxied ELSE rules.action[ClassOf[b.by]] = "auto"
       => \A c \in Of(b.ip, known \cap challenges) : at[b.by] - c.at >= Grace]_vars
=============================================================================
