---------------------------- MODULE NodeTelemetry ----------------------------
(***************************************************************************)
(* How the security log of a remote node reaches the controller: the agent *)
(* (hyrovi-hpm-node-telemetry, started every 30 s, one at a time) reads a  *)
(* batch behind its cursor, posts it, and saves the cursor once it is      *)
(* answered; the controller looks the node up (control_plane_nodes.js) and *)
(* appends the batch in its own queue (control_plane_telemetry.js), where  *)
(* it may still arrive after the agent has given up and begun again.       *)
(*                                                                         *)
(* Lines are numbers, in the order Nginx wrote them.  A line of Long is    *)
(* longer than a batch may be, one of Bad is no event.                     *)
(***************************************************************************)
EXTENDS Naturals, FiniteSets

CONSTANTS
  Long, Bad,
  Tail,          \* INITIAL_TAIL_BYTES, in lines
  Batch,         \* MAX_LINES_PER_FILE
  Rounds,        \* batches of one run (12)
  LineBound,     \* bound: lines written
  RotationBound, \* bound: rotations of the log
  RegistryBound, \* bound: changes of the node's registration
  DoubtBound     \* bound: requests given up, and deaths of the agent

ASSUME TelemetryAssumption ==
  /\ Long \subseteq Nat /\ Bad \subseteq Nat
  /\ Tail \in Nat /\ Batch \in Nat \ {0} /\ Rounds \in Nat \ {0}
  /\ LineBound \in Nat /\ RotationBound \in Nat
  /\ RegistryBound \in Nat /\ DoubtBound \in Nat

VARIABLES
  log,       \* the file: its inode, its first and its last line
  cursor,    \* telemetry-state.json: inode (0: none) and next line
  agent,     \* the run under way
  requests,  \* batches on their way to the queue, each with its token
  node,      \* its entry in nodes.json: token (0: deleted), enabled
  token,     \* the token in the agent's node.env
  stored,    \* how often each line was appended
  unread,    \* history: lines that rotation or the initial tail took unread
  registry, doubts

telemetryVars == <<log, cursor, agent, requests, node, token, stored, unread, registry, doubts>>

Line == 1 .. LineBound
Idle == [step |-> "idle", lines |-> {}, next |-> [inode |-> 0, line |-> 1], round |-> 0, try |-> 0]

TelemetryInit ==
  /\ log = [inode |-> 1, first |-> 1, last |-> 0]
  /\ cursor = [inode |-> 0, line |-> 1]
  /\ agent = Idle /\ requests = {}
  /\ node = [token |-> 1, enabled |-> TRUE] /\ token = 1
  /\ stored = [n \in Line |-> 0] /\ unread = {}
  /\ registry = 0 /\ doubts = 0

Doubt == doubts < DoubtBound /\ doubts' = doubts + 1

-----------------------------------------------------------------------------
(* The log. *)

WriteLine ==
  /\ log.last < LineBound
  /\ log' = [log EXCEPT !.last = @ + 1]
  /\ UNCHANGED <<cursor, agent, requests, node, token, stored, unread, registry, doubts>>

\* The lines the agent has not read of the file.
Behind == {n \in log.first .. log.last : cursor.inode = log.inode => n >= cursor.line}

\* logrotate: an empty file with another inode takes its place.
Rotate ==
  /\ log.inode <= RotationBound /\ log.first <= log.last
  /\ log' = [inode |-> log.inode + 1, first |-> log.last + 1, last |-> log.last]
  /\ unread' = unread \cup Behind
  /\ UNCHANGED <<cursor, agent, requests, node, token, stored, registry, doubts>>

-----------------------------------------------------------------------------
(* The agent. *)

Start ==
  /\ agent.step = "idle"
  /\ agent' = [Idle EXCEPT !.step = "read"]
  /\ UNCHANGED <<log, cursor, requests, node, token, stored, unread, registry, doubts>>

\* read_batch: where it begins, ...
From ==
  CASE cursor.inode = log.inode -> cursor.line
    [] cursor.inode = 0 -> IF log.last - log.first < Tail THEN log.first ELSE log.last + 1 - Tail
    [] OTHER -> log.first

\* Faulty variant: a line that is no event stops it too.
ReadUntilBad(from) ==
  {n \in from .. log.last : Cardinality((from .. n - 1) \ Bad) < Batch /\ (from .. n) \cap (Long \cup Bad) = {}}

\* ... and where it ends: with enough events, or at a long line, which is put back.
Read(from) ==
  {n \in from .. log.last : Cardinality((from .. n - 1) \ Bad) < Batch /\ (from .. n) \cap Long = {}}

NextCursor(lines) == [inode |-> log.inode, line |-> From + Cardinality(lines)]
Skipped == IF cursor.inode = 0 THEN log.first .. From - 1 ELSE {}

\* Faulty variant: the cursor is saved before the batch is posted.
SaveAndPost(lines) ==
  /\ agent' = [agent EXCEPT !.step = "post", !.lines = lines \ Bad, !.next = NextCursor(lines)]
  /\ cursor' = NextCursor(lines)

GoToPost(lines) ==
  /\ agent' = [agent EXCEPT !.step = "post", !.lines = lines \ Bad, !.next = NextCursor(lines)]
  /\ UNCHANGED cursor

\* Without an event the cursor is saved at once, and the run is over.
ReadBatch ==
  LET lines == Read(From) IN
  /\ agent.step = "read"
  /\ unread' = unread \cup Skipped
  /\ \/ lines \ Bad # {} /\ GoToPost(lines)
     \/ lines \ Bad = {} /\ agent' = Idle /\ cursor' = NextCursor(lines)
  /\ UNCHANGED <<log, requests, node, token, stored, registry, doubts>>

Post ==
  /\ agent.step = "post"
  /\ requests' = requests \cup {[lines |-> agent.lines, token |-> token, try |-> doubts, queued |-> FALSE]}
  /\ agent' = [agent EXCEPT !.step = "wait", !.try = doubts]
  /\ UNCHANGED <<log, cursor, node, token, stored, unread, registry, doubts>>

Save ==
  /\ agent.step = "save"
  /\ cursor' = agent.next
  /\ agent' = IF agent.round + 1 < Rounds
              THEN [Idle EXCEPT !.step = "read", !.round = agent.round + 1] ELSE Idle
  /\ UNCHANGED <<log, requests, node, token, stored, unread, registry, doubts>>

\* It waits 20 s for an answer, or is killed.
GiveUp ==
  /\ agent.step # "idle" /\ Doubt
  /\ agent' = Idle
  /\ UNCHANGED <<log, cursor, requests, node, token, stored, unread, registry>>

-----------------------------------------------------------------------------
(* The controller. *)

Awaited(r) == agent.step = "wait" /\ agent.try = r.try

\* authenticateNode reads nodes.json when the request arrives, ...
Accept(r) ==
  /\ ~r.queued /\ node.enabled /\ node.token = r.token
  /\ requests' = (requests \ {r}) \cup {[r EXCEPT !.queued = TRUE]}
  /\ UNCHANGED <<log, cursor, agent, node, token, stored, unread, registry, doubts>>

Refuse(r) ==
  /\ ~r.queued /\ ~(node.enabled /\ node.token = r.token)
  /\ requests' = requests \ {r}
  /\ agent' = IF Awaited(r) THEN Idle ELSE agent
  /\ UNCHANGED <<log, cursor, node, token, stored, unread, registry, doubts>>

\* ... and ingest appends when its turn comes, whatever the node is by then.
Ingest(r) ==
  /\ r.queued
  /\ stored' = [n \in Line |-> stored[n] + IF n \in r.lines THEN 1 ELSE 0]
  /\ requests' = requests \ {r}
  /\ agent' = IF Awaited(r) THEN [agent EXCEPT !.step = "save"] ELSE agent
  /\ UNCHANGED <<log, cursor, node, token, unread, registry, doubts>>

\* A request is lost on its way, in a restart, or to a failing write.
Lose(r) ==
  /\ Doubt
  /\ requests' = requests \ {r}
  /\ agent' = IF Awaited(r) THEN Idle ELSE agent
  /\ UNCHANGED <<log, cursor, node, token, stored, unread, registry>>

-----------------------------------------------------------------------------
(* The registration of the node. *)

Register(entry) ==
  /\ registry < RegistryBound /\ registry' = registry + 1
  /\ node' = entry
  /\ UNCHANGED <<log, cursor, agent, requests, token, stored, unread, doubts>>

UpdateNode == node.token # 0 /\ Register([node EXCEPT !.enabled = ~@])
RotateToken == node.token # 0 /\ Register([node EXCEPT !.token = registry + 2])
DeleteNode == node.token # 0 /\ Register([token |-> 0, enabled |-> FALSE])
CreateNode == node.token = 0 /\ Register([token |-> registry + 2, enabled |-> TRUE])

\* An administrator copies the token into node.env.
Install ==
  /\ node.token # 0 /\ token # node.token /\ token' = node.token
  /\ UNCHANGED <<log, cursor, agent, requests, node, stored, unread, registry, doubts>>

-----------------------------------------------------------------------------
Controller == \E r \in requests : Accept(r) \/ Refuse(r) \/ Ingest(r)
Run == Start \/ ReadBatch \/ Post \/ Save

TelemetryNext ==
  \/ WriteLine \/ Rotate \/ Run \/ GiveUp \/ Controller
  \/ \E r \in requests : Lose(r)
  \/ UpdateNode \/ RotateToken \/ DeleteNode \/ CreateNode \/ Install

\* The timer starts the agent again and again; an answer comes, or the request
\* is given up; nothing makes Nginx write, or an administrator act.
TelemetryFairness == WF_telemetryVars(Run) /\ WF_telemetryVars(Controller)

TelemetrySpec == TelemetryInit /\ [][TelemetryNext]_telemetryVars /\ TelemetryFairness

-----------------------------------------------------------------------------
\* The agent "advances its persistent inode/offset cursor only after a successful
\* upload" (node-agent/README.md): a line that is neither stored nor before it
\* was taken away unread, and no line is stored more often than its upload was
\* in doubt.
DeliveredOrInDoubt ==
  \A n \in Line :
    /\ n \in 1 .. log.last => stored[n] > 0 \/ n \in Behind \cup unread \cup Bad
    /\ stored[n] <= 1 + doubts

\* Whatever was lost, repeated, refused or rotated before, in the end every line
\* of the log that no long line is in front of arrives, if the node is let in.
LinesArrive ==
  <>[]\A n \in log.first .. log.last :
       \/ stored[n] > 0 \/ n \in unread \cup Bad
       \/ \E k \in Long : k \in log.first .. n
       \/ ~node.enabled \/ node.token # token
=============================================================================
