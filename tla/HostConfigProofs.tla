--------------------------- MODULE HostConfigProofs ---------------------------
(***************************************************************************)
(* What the handlers that share one directory of Nginx files guarantee,    *)
(* for every set of hosts of any type, any number of requests running at   *)
(* the same time, and any number of failing steps and restarts.            *)
(***************************************************************************)
EXTENDS HostConfig, TLAPS

USE HostAssumption
-----------------------------------------------------------------------------
\* The invariant

Configuring == {"create", "update", "enable"}
OneHost == Configuring \cup {"disable", "delete"}
Manys == {"certify", "list", "groups", "protect"}

\* What each kind of request does.
StepsOf(kind) ==
  CASE kind = "none" -> {"idle"}
    [] kind = "create" -> {"read", "ensure", "pretest", "clear", "write", "test", "passed", "failed", "aside", "reload"}
    [] kind = "update" -> {"patch", "read", "ensure", "pretest", "clear", "write", "test", "passed", "failed", "aside", "reload"}
    [] kind = "enable" -> {"ensure", "pretest", "clear", "write", "test", "passed", "failed", "aside", "reload"}
    [] kind = "disable" -> {"remove", "reload"}
    [] kind = "delete" -> {"remove", "reload", "unlink"}
    [] kind = "certify" -> {"take", "reload", "certbot", "issued", "giveback"}
    [] kind = "list" -> {"rewrite", "reload"}
    [] kind = "groups" -> {"includes", "reload"}
    [] kind = "protect" -> {"protect", "reload"}

\* Steps a certificate request does not take in its catch.
Bare == {"take", "certbot", "issued"}

USE DEF Bare

TaskOK(t) ==
  /\ t = [step |-> t.step, kind |-> t.kind, rows |-> t.rows, listing |-> t.listing, undo |-> t.undo,
          met |-> t.met]
  /\ t.kind \in {"none"} \cup OneHost \cup Manys /\ t.step \in StepsOf(t.kind)
  /\ Holds(t) \subseteq Host /\ t.met \subseteq Host /\ t.listing \subseteq Proxied /\ t.undo \in BOOLEAN
  /\ \A h \in Holds(t) : t.rows[h] \in Row
  /\ t.kind = "none" => t = Idle
  /\ t.kind \in OneHost => \E h \in Host : Holds(t) = {h}
  /\ t.kind \in {"groups", "protect"} => Holds(t) = {}
  /\ t.step \in Bare => ~t.undo

\* The row says that the host is served.
Wanted(h) == row[h].state = "live" /\ row[h].enabled /\ row[h].online
FileHonest(h) == Serves(file[h]) <=> Wanted(h)
\* So does Nginx, unless its master is yet to read the files or could not.
NginxHonest(h) == ~signalled /\ ~refused => (nginx[h] # None <=> Wanted(h))

\* What a step may do to the running Nginx.
ServerMoves == server' = server \/ signalled' = TRUE \/ refused' = TRUE \/ nginx' = Loaded

USE DEF ServerMoves

\* Two requests that hold the same host have met.
Apart ==
  \A x, y \in Slot : x # y => Holds(task[x]) \cap Holds(task[y]) \subseteq task[x].met

Settled == \A h \in settled :
  /\ FileHonest(h) /\ NginxHonest(h)
  /\ \A s \in Slot : h \notin Holds(task[s])

\* How far a request is with a host nobody else works on.
Progress(t, h) ==
  /\ t.kind \in Configuring /\ t.step \in {"ensure", "pretest", "clear", "write", "test", "passed", "failed", "aside"} =>
       row[h].state = "live" /\ row[h].enabled = t.rows[h].enabled
  /\ t.kind = "disable" => ~row[h].enabled
  /\ t.kind = "delete" => row[h].state = "deleted"
  /\ t.step \in {"test", "passed", "failed"} => file[h] # None /\ file[h].up = t.rows[h].enabled
  /\ t.step = "aside" => ~row[h].online
  /\ t.kind \in OneHost /\ t.step \in {"reload", "unlink"} => FileHonest(h)
  /\ t.step = "unlink" => NginxHonest(h)
  /\ t.kind = "certify" /\ t.step = "reload" /\ t.undo => file[h] # None

\* What TypeOK says of all but the requests.
StoredOK ==
  /\ row \in [Host -> Row]
  /\ file \in [Host -> File \cup {None}] /\ nginx \in [Host -> File \cup {None}]
  /\ acl \subseteq Proxied /\ prot \subseteq Proxied
  /\ signalled \in BOOLEAN /\ refused \in BOOLEAN
  /\ requests \in 0 .. RequestBound /\ faults \in 0 .. FaultBound /\ settled \subseteq Host

HostInv ==
  /\ StoredOK /\ task = [s \in Slot |-> task[s]]
  /\ \A s \in Slot : TaskOK(task[s])
  /\ Apart /\ Settled
  /\ \A s \in Slot : \A h \in Holds(task[s]) \ task[s].met : Progress(task[s], h)

\* The invariant says of the requests what the types do.
LEMMA HostInvTypes == ASSUME HostInv PROVE TypeOK
  BY DEF HostInv, StoredOK, TaskOK, TypeOK

-----------------------------------------------------------------------------
\* One request among the others

\* Nginx serves what it loads.
LEMMA LoadedServes == ASSUME NEW h \in Host PROVE Loaded[h] # None <=> Serves(file[h])
  BY DEF Loaded, Serves

LEMMA LoadedType ==
  ASSUME StoredOK
  PROVE  Loaded \in [Host -> File \cup {None}]
  BY DEF Loaded, StoredOK

\* Nginx catches up with a host whose file is right.
LEMMA NginxKept ==
  ASSUME NEW h \in Host, FileHonest(h), NginxHonest(h), row'[h] = row[h], ServerMoves
  PROVE  NginxHonest(h)'
  BY LoadedServes DEF NginxHonest, FileHonest, Wanted, server

\* What another request knows of a host of its own stays true.
LEMMA ProgressKept ==
  ASSUME NEW t, NEW h \in Host, TaskOK(t), Progress(t, h),
         row'[h] = row[h], file'[h] = file[h], ServerMoves
  PROVE  Progress(t, h)'
  <1>1. t.step = "unlink" => t.kind \in OneHost
    BY DEF TaskOK, StepsOf, OneHost, Manys, Configuring
  <1>2. FileHonest(h) => FileHonest(h)'
    BY DEF FileHonest, Wanted, Serves
  <1>3. NginxHonest(h) /\ FileHonest(h) => NginxHonest(h)'
    BY NginxKept
  <1> QED
    BY <1>1, <1>2, <1>3 DEF Progress

\* A step of one request that works on its own hosts, and goes on or ends.
LEMMA WorkKeeps ==
  ASSUME HostInv, StoredOK', NEW s \in Slot, NEW t, task' = [task EXCEPT ![s] = t], TaskOK(t),
         t = Idle \/ (Holds(t) = Holds(task[s]) /\ task[s].met \subseteq t.met),
         \A h \in Host \ Holds(task[s]) : row'[h] = row[h] /\ file'[h] = file[h],
         ServerMoves,
         \A h \in Holds(t) \ t.met : Progress(t, h)',
         settled \subseteq settled',
         \A h \in settled' \ settled :
           t = Idle /\ h \in Holds(task[s]) \ task[s].met /\ FileHonest(h)' /\ NginxHonest(h)'
  PROVE  HostInv'
  <1> USE DEF HostInv
  <1>1. task'[s] = t /\ \A x \in Slot : x # s => task'[x] = task[x]
    OBVIOUS
  <1>2. (task = [x \in Slot |-> task[x]])'
    OBVIOUS
  <1>3. \A x \in Slot : TaskOK(task'[x])
    BY <1>1
  <1>4. (\A x \in Slot : TaskOK(task[x]))'
    BY <1>3 DEF TaskOK
  <1>5. Holds(t) \subseteq Holds(task[s]) /\ (Holds(t) # {} => task[s].met \subseteq t.met)
    BY DEF Idle, Holds
  <1>6. \A x \in Slot : Holds(task[x])' = Holds(task'[x])
    BY DEF Holds
  <1>7. Apart'
    <2> SUFFICES ASSUME NEW x \in Slot, NEW y \in Slot, x # y
                 PROVE  Holds(task'[x]) \cap Holds(task'[y]) \subseteq task'[x].met
      BY <1>6 DEF Apart
    <2>1. Holds(task[x]) \cap Holds(task[y]) \subseteq task[x].met
      BY DEF Apart
    <2>2. CASE x = s
      BY <1>1, <1>5, <2>1, <2>2
    <2>3. CASE y = s
      BY <1>1, <1>5, <2>1, <2>3
    <2>4. CASE x # s /\ y # s
      BY <1>1, <2>1, <2>4
    <2> QED
      BY <2>2, <2>3, <2>4
  <1>8. Settled'
    <2> SUFFICES ASSUME NEW h \in settled'
                 PROVE  /\ FileHonest(h)' /\ NginxHonest(h)'
                        /\ \A x \in Slot : h \notin Holds(task'[x])
      BY <1>6 DEF Settled
    <2>1. CASE h \in settled
      <3>1. /\ h \in Host /\ FileHonest(h) /\ NginxHonest(h) /\ \A x \in Slot : h \notin Holds(task[x])
        BY <2>1 DEF Settled, StoredOK
      <3>2. \A x \in Slot : h \notin Holds(task'[x])
        BY <1>1, <1>5, <3>1
      <3>3. row'[h] = row[h] /\ file'[h] = file[h]
        BY <3>1
      <3>4. FileHonest(h)' /\ NginxHonest(h)'
        BY <3>1, <3>3, NginxKept DEF FileHonest, Wanted, Serves
      <3> QED
        BY <3>2, <3>4
    <2>2. CASE h \notin settled
      <3>1. t = Idle /\ h \in Holds(task[s]) \ task[s].met /\ FileHonest(h)' /\ NginxHonest(h)'
        BY <2>2
      <3>2. Holds(t) = {}
        BY <3>1 DEF Idle, Holds
      <3>3. \A x \in Slot : x # s => h \notin Holds(task[x])
        BY <3>1 DEF Apart
      <3> QED
        BY <1>1, <3>1, <3>2, <3>3
    <2> QED
      BY <2>1, <2>2
  <1>9. ASSUME NEW x \in Slot, NEW h \in Holds(task'[x]) \ task'[x].met
        PROVE  Progress(task[x], h)'
    <2> PICK u : u = task'[x]
      OBVIOUS
    <2>1. Progress(u, h)'
      <3>1. CASE x = s
        BY <1>1, <1>9, <3>1
      <3>2. CASE x # s
        <4>1. u = task[x] /\ TaskOK(u) /\ h \in Holds(u) \ u.met /\ Progress(u, h) /\ h \in Host
          BY <1>1, <1>9, <3>2 DEF TaskOK
        <4>2. h \notin Holds(task[s])
          BY <3>2, <4>1 DEF Apart
        <4> QED
          BY <4>1, <4>2, ProgressKept
      <3> QED
        BY <3>1, <3>2
    <2> QED
      BY <2>1 DEF Progress, FileHonest, NginxHonest, Wanted
  <1> QED
    BY <1>2, <1>4, <1>6, <1>7, <1>8, <1>9

\* A task is made of its parts.
Made(kind, next, rows, listing, undo, met) ==
  [step |-> next, kind |-> kind, rows |-> rows, listing |-> listing, undo |-> undo, met |-> met]
Parts(kind, next, rows, listing, undo, met) ==
  /\ kind \in OneHost \cup Manys /\ next \in StepsOf(kind)
  /\ DOMAIN rows \subseteq Host /\ \A h \in DOMAIN rows : rows[h] \in Row
  /\ listing \subseteq Proxied /\ undo \in BOOLEAN /\ met \subseteq Host
  /\ kind \in OneHost => \E h \in Host : DOMAIN rows = {h}
  /\ kind \in {"groups", "protect"} => DOMAIN rows = {}
  /\ next \in Bare => ~undo

LEMMA MadeTask ==
  ASSUME NEW kind, NEW next, NEW rows, NEW listing, NEW undo, NEW met,
         Parts(kind, next, rows, listing, undo, met)
  PROVE  TaskOK(Made(kind, next, rows, listing, undo, met))
  <1> PICK t : t = Made(kind, next, rows, listing, undo, met)
    OBVIOUS
  <1>1. /\ t.step = next /\ t.kind = kind /\ t.rows = rows /\ t.listing = listing /\ t.undo = undo
        /\ t.met = met
        /\ t = [step |-> t.step, kind |-> t.kind, rows |-> t.rows, listing |-> t.listing, undo |-> t.undo,
                met |-> t.met]
    BY DEF Made
  <1>2. Holds(t) = DOMAIN rows
    BY <1>1 DEF Holds
  <1>3. t.kind # "none"
    BY <1>1 DEF Parts, OneHost, Manys, Configuring
  <1>4. t.kind \in {"none"} \cup OneHost \cup Manys /\ t.step \in StepsOf(t.kind)
    BY <1>1 DEF Parts
  <1> QED
    BY <1>1, <1>2, <1>3, <1>4 DEF TaskOK, Parts

\* Every task that is not idle is made so.
LEMMA TaskParts ==
  ASSUME NEW t, TaskOK(t), t.kind # "none"
  PROVE  /\ Parts(t.kind, t.step, t.rows, t.listing, t.undo, t.met)
         /\ t = Made(t.kind, t.step, t.rows, t.listing, t.undo, t.met)
  BY DEF TaskOK, Holds, Parts, Made

\* A request begins that holds rows, and meets those that hold the same hosts.
Begins(kind, next, rows) ==
  /\ kind \in OneHost \cup {"certify", "list"} /\ next \in StepsOf(kind)
  /\ next \in {"patch", "read", "ensure", "remove", "take", "rewrite"}
  /\ DOMAIN rows \subseteq Host /\ \A h \in DOMAIN rows : rows[h] \in Row
  /\ kind \in OneHost => \E h \in Host : DOMAIN rows = {h}
Writes(kind, next, rows) ==
  /\ \A h \in Host \ DOMAIN rows : row'[h] = row[h]
  /\ \A h \in DOMAIN rows :
       /\ kind \in Configuring /\ next = "ensure" =>
            row'[h].state = "live" /\ row'[h].enabled = rows[h].enabled
       /\ kind = "disable" => ~row'[h].enabled
       /\ kind = "delete" => row'[h].state = "deleted"

LEMMA StartKeeps ==
  ASSUME HostInv, StoredOK', NEW s \in Slot, NEW kind, NEW next, NEW rows,
         Start(s, kind, next, rows), Begins(kind, next, rows), Writes(kind, next, rows)
  PROVE  HostInv'
  <1>0. /\ kind \in OneHost \cup {"certify", "list"} /\ next \in StepsOf(kind)
        /\ next \in {"patch", "read", "ensure", "remove", "take", "rewrite"}
        /\ DOMAIN rows \subseteq Host /\ \A h \in DOMAIN rows : rows[h] \in Row
        /\ kind \in OneHost => \E h \in Host : DOMAIN rows = {h}
    BY DEF Begins
  <1>00. /\ \A h \in Host \ DOMAIN rows : row'[h] = row[h]
         /\ \A h \in DOMAIN rows :
              /\ kind \in Configuring /\ next = "ensure" =>
                   row'[h].state = "live" /\ row'[h].enabled = rows[h].enabled
              /\ kind = "disable" => ~row'[h].enabled
              /\ kind = "delete" => row'[h].state = "deleted"
    BY DEF Writes
  <1> USE <1>0, <1>00
  <1> USE DEF HostInv
  <1> PICK held : held = DOMAIN rows
    OBVIOUS
  <1> PICK others : others = {x \in Slot \ {s} : task[x] # Idle}
    OBVIOUS
  <1> PICK met : met = held \cap UNION {Holds(task[o]) : o \in others}
    OBVIOUS
  <1> PICK t : t = [Idle EXCEPT !.step = next, !.kind = kind, !.rows = rows, !.met = met]
    OBVIOUS
  <1>1. /\ task[s] = Idle
        /\ task' = [x \in Slot |-> IF x = s THEN t
                                    ELSE [task[x] EXCEPT !.met = @ \cup (held \cap Holds(task[x]))]]
        /\ settled' = settled \ held /\ UNCHANGED <<file, server>>
    BY DEF Start, disk
  <1>2. /\ t = [step |-> next, kind |-> kind, rows |-> rows, listing |-> {}, undo |-> FALSE,
               met |-> met]
        /\ t.step = next /\ t.kind = kind /\ t.rows = rows /\ Holds(t) = held /\ t.met = met
    BY DEF Idle, Holds
  <1>3. TaskOK(t)
    <2>1. met \subseteq Host /\ {} \subseteq Proxied
      OBVIOUS
    <2>2. kind \notin {"groups", "protect"} /\ kind \in OneHost \cup Manys
      BY DEF OneHost, Configuring, Manys
    <2> PICK no : no = FALSE
      OBVIOUS
    <2>3. Parts(kind, next, rows, {}, no, met) /\ t = Made(kind, next, rows, {}, no, met)
      BY <1>2, <2>1, <2>2 DEF Parts, Made
    <2> QED
      BY <2>3, MadeTask
  <1>4. ASSUME NEW x \in Slot, x # s, NEW u, u = task'[x]
        PROVE  /\ TaskOK(u) /\ Holds(u) = Holds(task[x]) /\ u.met = task[x].met \cup (held \cap Holds(task[x]))
               /\ u = [task[x] EXCEPT !.met = task[x].met \cup (held \cap Holds(task[x]))]
    <2> PICK v : v = task[x]
      OBVIOUS
    <2>1. TaskOK(v) /\ u = [v EXCEPT !.met = @ \cup (held \cap Holds(v))]
      BY <1>1, <1>4
    <2>2. /\ u = [step |-> v.step, kind |-> v.kind, rows |-> v.rows, listing |-> v.listing, undo |-> v.undo,
                  met |-> v.met \cup (held \cap Holds(v))]
      BY <2>1 DEF TaskOK
    <2>3. Holds(u) = Holds(v)
      BY <2>2 DEF Holds
    <2>6. TaskOK(u)
      <3>1. CASE v.kind = "none"
        <4>1. v = Idle /\ Holds(v) = {} /\ v.met = {}
          BY <2>1, <3>1 DEF TaskOK, Idle, Holds
        <4>2. u = [step |-> v.step, kind |-> v.kind, rows |-> v.rows, listing |-> v.listing, undo |-> v.undo,
                   met |-> v.met]
          BY <2>2, <4>1
        <4> QED
          BY <2>1, <4>2 DEF TaskOK
      <3>2. CASE v.kind # "none"
        <4> PICK m : m = v.met \cup (held \cap Holds(v))
          OBVIOUS
        <4>1. Parts(v.kind, v.step, v.rows, v.listing, v.undo, v.met)
          BY <2>1, <3>2, TaskParts
        <4>2. m \subseteq Host
          BY <2>1 DEF TaskOK
        <4>3. Parts(v.kind, v.step, v.rows, v.listing, v.undo, m)
          BY <4>1, <4>2 DEF Parts
        <4>4. u = Made(v.kind, v.step, v.rows, v.listing, v.undo, m)
          BY <2>2 DEF Made
        <4> QED
          BY <4>3, <4>4, MadeTask
      <3> QED
        BY <3>1, <3>2
    <2> QED
      BY <2>1, <2>2, <2>3, <2>6
  <1>5. (task = [x \in Slot |-> task[x]])'
    BY <1>1
  <1>6. \A x \in Slot : TaskOK(task'[x])
    BY <1>1, <1>3, <1>4
  <1>7. (\A x \in Slot : TaskOK(task[x]))'
    BY <1>6 DEF TaskOK
  <1>8. \A x \in Slot : Holds(task[x])' = Holds(task'[x])
    BY DEF Holds
  <1>9. Apart'
    <2> SUFFICES ASSUME NEW x \in Slot, NEW y \in Slot, x # y
                 PROVE  Holds(task'[x]) \cap Holds(task'[y]) \subseteq task'[x].met
      BY <1>8 DEF Apart
    <2>1. Holds(task[x]) \cap Holds(task[y]) \subseteq task[x].met
      BY DEF Apart
    <2>2. CASE x = s
      <3>1. Holds(task'[y]) = Holds(task[y]) /\ task'[x] = t
        BY <1>1, <1>4, <2>2
      <3>2. task[y] = Idle => Holds(task[y]) = {}
        BY DEF Idle, Holds
      <3>3. task[y] # Idle => y \in others
        BY <2>2
      <3>4. ASSUME NEW h \in held \cap Holds(task[y])
            PROVE  h \in met
        BY <3>2, <3>3, <3>4
      <3> QED
        BY <1>2, <3>1, <3>4
    <2>3. CASE y = s
      <3>1. /\ Holds(task'[x]) = Holds(task[x]) /\ Holds(task'[y]) = held
            /\ task'[x].met = task[x].met \cup (held \cap Holds(task[x]))
        BY <1>1, <1>2, <1>4, <2>3
      <3> QED
        BY <3>1
    <2>4. CASE x # s /\ y # s
      <3>1. /\ Holds(task'[x]) = Holds(task[x]) /\ Holds(task'[y]) = Holds(task[y])
            /\ task[x].met \subseteq task'[x].met
        BY <1>4, <2>4
      <3> QED
        BY <2>1, <3>1
    <2> QED
      BY <2>2, <2>3, <2>4
  <1>10. Settled'
    <2> SUFFICES ASSUME NEW h \in settled \ held
                 PROVE  /\ FileHonest(h)' /\ NginxHonest(h)'
                        /\ \A x \in Slot : h \notin Holds(task'[x])
      BY <1>1, <1>8 DEF Settled
    <2>1. /\ h \in Host /\ FileHonest(h) /\ NginxHonest(h) /\ \A x \in Slot : h \notin Holds(task[x])
      BY DEF Settled, StoredOK
    <2>2. row'[h] = row[h]
      BY <2>1
    <2>3. ASSUME NEW x \in Slot
          PROVE  h \notin Holds(task'[x])
      <3>1. CASE x = s
        BY <1>1, <1>2, <3>1
      <3>2. CASE x # s
        BY <1>4, <2>1, <3>2
      <3> QED
        BY <3>1, <3>2
    <2> QED
      BY <1>1, <2>1, <2>2, <2>3 DEF FileHonest, NginxHonest, Wanted, server
  <1>12. ASSUME NEW h \in held PROVE Progress(t, h)'
    <2>1. t.step = next /\ t.kind = kind /\ t.rows = rows /\ h \in Host
      BY <1>2
    <2>2. next \notin {"test", "passed", "failed", "aside", "reload", "unlink"}
      OBVIOUS
    <2>3. kind = "disable" => ~row'[h].enabled
      OBVIOUS
    <2>4. kind = "delete" => row'[h].state = "deleted"
      OBVIOUS
    <2>5. kind \in Configuring /\ next = "ensure" => row'[h].state = "live" /\ row'[h].enabled = rows[h].enabled
      OBVIOUS
    <2>6. next \notin {"pretest", "clear", "write"}
      OBVIOUS
    <2> QED
      BY <2>1, <2>2, <2>3, <2>4, <2>5, <2>6 DEF Progress
  <1>11. ASSUME NEW x \in Slot, NEW h \in Holds(task'[x]) \ task'[x].met
         PROVE  Progress(task[x], h)'
    <2> PICK u : u = task'[x]
      OBVIOUS
    <2>1. Progress(u, h)'
      <3>1. CASE x = s
        <4>1. u = t /\ h \in held /\ h \in Host
          BY <1>1, <1>2, <1>11, <3>1
        <4> QED
          BY <1>12, <4>1
      <3>2. CASE x # s
        <4> PICK v : v = task[x]
          OBVIOUS
        <4>1. /\ TaskOK(v) /\ h \in Holds(v) \ v.met /\ h \notin held /\ Progress(v, h) /\ h \in Host
          BY <1>4, <1>11, <3>2 DEF TaskOK
        <4>2. Progress(v, h)'
          BY <1>1, <4>1, ProgressKept
        <4>3. u.step = v.step /\ u.kind = v.kind /\ u.rows = v.rows /\ u.undo = v.undo
          BY <1>4, <3>2, <4>1 DEF TaskOK
        <4> QED
          BY <4>2, <4>3 DEF Progress
      <3> QED
        BY <3>1, <3>2
    <2> QED
      BY <2>1 DEF Progress, FileHonest, NginxHonest, Wanted
  <1> QED
    BY <1>5, <1>7, <1>8, <1>9, <1>10, <1>11

\* A request begins that lists the proxy hosts.
LEMMA ListKeeps ==
  ASSUME HostInv, StoredOK', NEW s \in Slot, NEW kind \in {"groups", "protect"},
         NEW next, next \in StepsOf(kind), next # "reload", List(s, kind, next)
  PROVE  HostInv'
  <1> PICK t : t = [Idle EXCEPT !.step = next, !.kind = kind, !.listing = Live \cap Proxied]
    OBVIOUS
  <1>1. /\ task' = [task EXCEPT ![s] = t] /\ task[s] = Idle
        /\ UNCHANGED <<row, file, server, settled>>
    BY DEF List, disk
  <1>2. t = [step |-> next, kind |-> kind, rows |-> <<>>, listing |-> Live \cap Proxied, undo |-> FALSE,
             met |-> {}]
    BY DEF Idle
  <1>3. Holds(t) = {} /\ Holds(task[s]) = {} /\ t.met = {} /\ task[s].met = {}
    BY <1>1, <1>2 DEF Holds, Idle
  <1>4. TaskOK(t)
    <2>1. kind \in OneHost \cup Manys /\ kind \notin OneHost
      BY DEF OneHost, Manys, Configuring
    <2>2. DOMAIN <<>> = {} /\ {} \subseteq Host
      OBVIOUS
    <2> PICK no : no = FALSE
      OBVIOUS
    <2>3. Parts(kind, next, <<>>, Live \cap Proxied, no, {})
      BY <2>1, <2>2 DEF Parts
    <2>4. t = Made(kind, next, <<>>, Live \cap Proxied, no, {})
      BY <1>2 DEF Made
    <2> QED
      BY <2>3, <2>4, MadeTask
  <1> QED
    BY <1>1, <1>3, <1>4, WorkKeeps

\* A request ends that has not configured its hosts,
LEMMA EndKeeps ==
  ASSUME HostInv, StoredOK', NEW s \in Slot, End(s, FALSE),
         \A h \in Host \ Holds(task[s]) : row'[h] = row[h] /\ file'[h] = file[h],
         ServerMoves
  PROVE  HostInv'
  <1>1. task' = [task EXCEPT ![s] = Idle] /\ settled' = settled
    BY DEF End
  <1>2. TaskOK(Idle) /\ Holds(Idle) = {}
    BY DEF TaskOK, Idle, Holds, StepsOf, OneHost, Configuring, Manys
  <1> QED
    BY <1>1, <1>2, WorkKeeps

\* or has, and settles those it met nobody over.
LEMMA EndSettles ==
  ASSUME HostInv, StoredOK', NEW s \in Slot, End(s, TRUE),
         \A h \in Host \ Holds(task[s]) : row'[h] = row[h] /\ file'[h] = file[h],
         ServerMoves,
         \A h \in Holds(task[s]) \ task[s].met :
           task[s].kind \in OneHost => FileHonest(h)' /\ NginxHonest(h)'
  PROVE  HostInv'
  <1>1. task' = [task EXCEPT ![s] = Idle]
    BY DEF End
  <1>2. \/ settled' = settled
        \/ task[s].kind \in OneHost /\ settled' = settled \cup (Holds(task[s]) \ task[s].met)
    BY DEF End, OneHost, Configuring
  <1>3. TaskOK(Idle) /\ Holds(Idle) = {}
    BY DEF TaskOK, Idle, Holds, StepsOf, OneHost, Configuring, Manys
  <1> QED
    BY <1>1, <1>2, <1>3, WorkKeeps

\* What changes of a task with its step.
LEMMA StepTask ==
  ASSUME NEW u, TaskOK(u), NEW next, NEW t, t = [u EXCEPT !.step = next]
  PROVE  /\ t = Made(u.kind, next, u.rows, u.listing, u.undo, u.met)
         /\ t.step = next /\ t.kind = u.kind /\ t.rows = u.rows /\ t.undo = u.undo /\ t.met = u.met
         /\ Holds(t) = Holds(u)
  BY DEF TaskOK, Made, Holds

\* A request takes a step on its own hosts and goes on.
LEMMA StepKeeps ==
  ASSUME HostInv, StoredOK', NEW s \in Slot, NEW next, Step(s, next), next \in StepsOf(task[s].kind),
         task[s].kind # "none", next \in Bare => ~task[s].undo,
         \A h \in Host \ Holds(task[s]) : row'[h] = row[h] /\ file'[h] = file[h],
         ServerMoves, settled' = settled,
         NEW t, t = [task[s] EXCEPT !.step = next],
         \A h \in Holds(t) \ t.met : Progress(t, h)'
  PROVE  HostInv'
  <1>1. task' = [task EXCEPT ![s] = t]
    BY DEF Step
  <1> PICK u : u = task[s]
    OBVIOUS
  <1>2. TaskOK(u)
    BY DEF HostInv
  <1>3. /\ t = Made(u.kind, next, u.rows, u.listing, u.undo, u.met)
        /\ Holds(t) = Holds(u) /\ t.met = u.met
    BY <1>2, StepTask
  <1>4. Parts(u.kind, next, u.rows, u.listing, u.undo, u.met)
    BY <1>2, TaskParts DEF Parts
  <1>5. TaskOK(t)
    BY <1>3, <1>4, MadeTask
  <1> QED
    BY <1>1, <1>3, <1>5, WorkKeeps

\* Nothing but Nginx changes.
LEMMA RestKeeps ==
  ASSUME HostInv, StoredOK', UNCHANGED <<task, row, file, settled>>, ServerMoves
  PROVE  HostInv'
  <1> USE DEF HostInv
  <1>1. (task = [x \in Slot |-> task[x]])' /\ Apart' /\ (\A x \in Slot : TaskOK(task[x]))'
    BY DEF Apart, TaskOK, Holds
  <1>2. ASSUME NEW h \in settled'
        PROVE  /\ FileHonest(h)' /\ NginxHonest(h)'
               /\ \A x \in Slot : h \notin Holds(task'[x])
    <2>1. /\ h \in Host /\ FileHonest(h) /\ NginxHonest(h) /\ \A x \in Slot : h \notin Holds(task[x])
      BY <1>2 DEF Settled, StoredOK
    <2> QED
      BY <2>1, NginxKept DEF FileHonest, Wanted, Serves
  <1>3. Settled'
    BY <1>2 DEF Settled, Holds
  <1>4. ASSUME NEW x \in Slot, NEW h \in Holds(task[x]) \ task[x].met
        PROVE  Progress(task[x], h)'
    <2> PICK u : u = task[x]
      OBVIOUS
    <2>1. TaskOK(u) /\ Progress(u, h) /\ h \in Host
      BY <1>4 DEF TaskOK
    <2>2. Progress(u, h)'
      BY <2>1, ProgressKept
    <2> QED
      BY <2>2 DEF Progress, FileHonest, NginxHonest, Wanted
  <1> QED
    BY <1>1, <1>3, <1>4 DEF Holds

-----------------------------------------------------------------------------
\* The steps of a request

\* Which requests take which steps.
LEMMA StepKind ==
  ASSUME NEW t, TaskOK(t)
  PROVE  /\ t.step = "patch" => t.kind = "update"
         /\ t.step = "read" => t.kind \in {"create", "update"}
         /\ t.step \in {"ensure", "pretest", "clear", "write", "test", "passed", "failed", "aside"} =>
              t.kind \in Configuring
         /\ t.step = "remove" => t.kind \in {"disable", "delete"}
         /\ t.step = "unlink" => t.kind = "delete"
         /\ t.step \in {"take", "certbot", "issued", "giveback"} => t.kind = "certify"
         /\ t.step = "rewrite" => t.kind = "list"
         /\ t.step = "includes" => t.kind = "groups"
         /\ t.step = "protect" => t.kind = "protect"
         /\ t.step # "idle" => t.kind # "none"
  BY DEF TaskOK, StepsOf, OneHost, Configuring, Manys

\* Where a request may go on.
LEMMA StepsGo ==
  /\ \A k \in Configuring :
       {"ensure", "pretest", "clear", "write", "test", "passed", "failed", "aside"} \subseteq StepsOf(k)
  /\ {"read"} \subseteq StepsOf("create") \cap StepsOf("update")
  /\ \A k \in OneHost \cup Manys : "reload" \in StepsOf(k)
  /\ "unlink" \in StepsOf("delete") /\ {"certbot", "issued", "giveback"} \subseteq StepsOf("certify")
  /\ "includes" \in StepsOf("groups")
  BY DEF StepsOf, OneHost, Configuring, Manys

\* The host of a request for one.
LEMMA OnlyHost ==
  ASSUME NEW t, TaskOK(t), t.kind \in OneHost
  PROVE  /\ Holds(t) = {Only(t)} /\ Only(t) \in Host /\ t.rows[Only(t)] \in Row
         /\ \A h \in Holds(t) : h = Only(t)
  <1>1. PICK h \in Host : Holds(t) = {h}
    BY DEF TaskOK
  <1>2. Only(t) = h
    BY <1>1 DEF Only
  <1> QED
    BY <1>1, <1>2 DEF TaskOK

\* What is rendered is a file.
LEMMA RenderFile ==
  ASSUME NEW r \in Row, NEW h, NEW related \in BOOLEAN
  PROVE  /\ Render(r, h, related) \in File /\ Render(r, h, related) # None
         /\ Render(r, h, related).up = r.enabled
  <1> PICK guarded : guarded = (related /\ h \in Listed)
    OBVIOUS
  <1>1. guarded \in BOOLEAN
    OBVIOUS
  <1>2. r.enabled \in BOOLEAN /\ r.good \in BOOLEAN
    BY DEF Row
  <1>3. Render(r, h, related) = [up |-> r.enabled, good |-> r.good, guarded |-> guarded]
    BY DEF Render
  <1>4. Render(r, h, related) \in File
    BY <1>1, <1>2, <1>3 DEF File
  <1> QED
    BY <1>3, <1>4

-----------------------------------------------------------------------------
\* The stores keep their types

\* Starting and ending requests settles no strangers.
LEMMA EndType ==
  ASSUME HostInv, NEW s \in Slot, NEW done, End(s, done)
  PROVE  settled' \subseteq Host
  BY DEF HostInv, StoredOK, TaskOK, End

LEMMA StartType ==
  ASSUME HostInv, NEW s \in Slot, NEW kind, NEW next, NEW rows, Start(s, kind, next, rows)
  PROVE  settled' \subseteq Host /\ UNCHANGED <<disk, server, faults>>
  BY DEF HostInv, StoredOK, Start

LEMMA RequestTypes ==
  ASSUME HostInv, NEW s \in Slot, NEW h \in Host,
         Create(s, h) \/ Update(s, h) \/ Enable(s, h) \/ Disable(s, h) \/ Delete(s, h)
  PROVE  StoredOK'
  <1>1. row[h] \in Row /\ row \in [Host -> Row]
    BY DEF HostInv, StoredOK
  <1>2. settled' \subseteq Host /\ UNCHANGED <<disk, server, faults>>
    BY StartType DEF Create, Update, Enable, Disable, Delete
  <1>3. Ask
    BY DEF Create, Update, Enable, Disable, Delete
  <1>4. row' \in [Host -> Row]
    <2>1. CASE Create(s, h)
      <3>1. PICK good \in BOOLEAN, enabled \in Enablings(h, TRUE) :
              row' = [row EXCEPT ![h] = [Absent EXCEPT !.state = "live", !.enabled = enabled, !.good = good]]
        BY <2>1, Zenon DEF Create
      <3>2. enabled \in BOOLEAN
        BY DEF Enablings
      <3>3. PICK absent : absent = Absent
        OBVIOUS
      <3>4. PICK first : first = [absent EXCEPT !.state = "live"]
        OBVIOUS
      <3>5. PICK second : second = [first EXCEPT !.enabled = enabled]
        OBVIOUS
      <3>6. absent \in Row
        BY <3>3 DEF Absent, Row
      <3>7. first \in Row
        BY <3>4, <3>6 DEF Row
      <3>8. second \in Row
        BY <3>2, <3>5, <3>7 DEF Row
      <3>9. [second EXCEPT !.good = good] \in Row
        BY <3>8 DEF Row
      <3>10. [absent EXCEPT !.state = "live", !.enabled = enabled, !.good = good] = [second EXCEPT !.good = good]
        BY <3>4, <3>5
      <3> QED
        BY <1>1, <3>1, <3>3, <3>9, <3>10
    <2>2. CASE Update(s, h)
      BY <1>1, <2>2 DEF Update
    <2>3. CASE Enable(s, h)
      <3>1. [row[h] EXCEPT !.enabled = TRUE] \in Row
        BY <1>1 DEF Row
      <3>2. row' = [row EXCEPT ![h].enabled = TRUE]
        BY <2>3 DEF Enable
      <3> QED
        BY <1>1, <3>1, <3>2
    <2>4. CASE Disable(s, h)
      <3>1. [row[h] EXCEPT !.enabled = FALSE] \in Row
        BY <1>1 DEF Row
      <3>2. row' = [row EXCEPT ![h].enabled = FALSE]
        BY <2>4 DEF Disable
      <3> QED
        BY <1>1, <3>1, <3>2
    <2>5. CASE Delete(s, h)
      <3>1. [row[h] EXCEPT !.state = "deleted"] \in Row
        BY <1>1 DEF Row
      <3>2. row' = [row EXCEPT ![h].state = "deleted"]
        BY <2>5 DEF Delete
      <3> QED
        BY <1>1, <3>1, <3>2
    <2> QED
      BY <2>1, <2>2, <2>3, <2>4, <2>5
  <1>5. requests' \in 0 .. RequestBound /\ faults' \in 0 .. FaultBound
    BY <1>2, <1>3 DEF HostInv, StoredOK, Ask
  <1>6. /\ file' \in [Host -> File \cup {None}] /\ nginx' \in [Host -> File \cup {None}]
        /\ acl' \subseteq Proxied /\ prot' \subseteq Proxied
        /\ signalled' \in BOOLEAN /\ refused' \in BOOLEAN
    BY <1>2 DEF HostInv, StoredOK, disk, server
  <1> QED
    BY <1>2, <1>4, <1>5, <1>6 DEF StoredOK

LEMMA ListTypes ==
  ASSUME HostInv, NEW s \in Slot,
         \/ \E named \in SUBSET Host : Certify(s, named)
         \/ ChangeList(s) \/ ChangeGroups(s) \/ SyncProtection(s)
  PROVE  StoredOK'
  <1>1. UNCHANGED <<row, disk, server, faults>> /\ (Ask \/ UNCHANGED requests)
    BY DEF Certify, ChangeList, ChangeGroups, SyncProtection, Start, List
  <1>2. settled' \subseteq Host
    BY StartType DEF HostInv, StoredOK, Certify, ChangeList, ChangeGroups, SyncProtection, List
  <1> QED
    BY <1>1, <1>2 DEF HostInv, StoredOK, Ask, disk, server

LEMMA CatchType ==
  ASSUME HostInv, NEW s \in Slot, Catch(s)
  PROVE  settled' \subseteq Host
  <1>1. End(s, FALSE) => settled' \subseteq Host
    BY DEF End, HostInv, StoredOK
  <1> QED
    BY <1>1 DEF Catch, HostInv, StoredOK

\* The rows, the files and the includes, step by step.
LEMMA RowTypes ==
  ASSUME HostInv, NEW s \in Slot, Patch(s) \/ MarkOnline(s) \/ MarkOffline(s)
  PROVE  StoredOK'
  <1> USE DEF HostInv, StoredOK, disk, server
  <1> PICK t : t = task[s]
    OBVIOUS
  <1> PICK h : h = Only(t)
    OBVIOUS
  <1>1. TaskOK(t) /\ (t.kind \in OneHost => h \in Host /\ row[h] \in Row /\ t.rows[h] \in Row)
    BY OnlyHost
  <1>2. CASE Patch(s)
    <2>1. t.kind \in OneHost
      BY <1>1, <1>2, StepKind DEF Patch, OneHost, Configuring
    <2> PICK seen : seen = t.rows[h]
      OBVIOUS
    <2>0. seen.enabled \in BOOLEAN
      BY <1>1, <2>1 DEF Row
    <2> PICK choice : choice = Enablings(h, seen.enabled)
      OBVIOUS
    <2>00. choice \subseteq BOOLEAN
      BY <2>0 DEF Enablings
    <2>01. PICK good \in BOOLEAN, enabled \in choice :
             IF TypeOf[h] \in {"dead", "stream"} THEN PatchGiven(h, good) ELSE PatchRow(seen, h, good, enabled)
      BY <1>2, Zenon DEF Patch
    <2>02. enabled \in BOOLEAN
      BY <2>00
    <2>2. [seen EXCEPT !.good = good, !.enabled = enabled, !.state = row[h].state] \in Row
      <3>1. PICK state : state = row[h].state
        OBVIOUS
      <3>2. state \in {"absent", "live", "deleted"} /\ seen \in Row
        BY <1>1, <2>1, <3>1 DEF Row
      <3>3. PICK first : first = [seen EXCEPT !.good = good]
        OBVIOUS
      <3>4. PICK second : second = [first EXCEPT !.enabled = enabled]
        OBVIOUS
      <3>5. first \in Row
        BY <3>2, <3>3 DEF Row
      <3>6. second \in Row
        BY <2>02, <3>4, <3>5 DEF Row
      <3>7. [second EXCEPT !.state = state] \in Row
        BY <3>2, <3>6 DEF Row
      <3>8. [seen EXCEPT !.good = good, !.enabled = enabled, !.state = state] = [second EXCEPT !.state = state]
        BY <3>3, <3>4
      <3> QED
        BY <3>1, <3>7, <3>8
    <2>3. [row[h] EXCEPT !.good = good] \in Row
      BY <1>1, <2>1 DEF Row
    <2>4. row' \in [Host -> Row]
      BY <2>01, <2>2, <2>3 DEF PatchRow, PatchGiven
    <2> QED
      BY <1>2, <2>4 DEF Patch
  <1>3. CASE MarkOnline(s)
    <2>1. t.kind \in OneHost
      BY <1>1, <1>3, StepKind DEF MarkOnline, OneHost
    <2>2. [row[h] EXCEPT !.online = TRUE] \in Row
      BY <1>1, <2>1 DEF Row
    <2>3. row' \in [Host -> Row]
      BY <1>3, <2>2 DEF MarkOnline
    <2> QED
      BY <1>3, <2>3 DEF MarkOnline
  <1>4. CASE MarkOffline(s)
    <2>1. t.kind \in OneHost
      BY <1>1, <1>4, StepKind DEF MarkOffline, OneHost
    <2>2. [row[h] EXCEPT !.online = FALSE] \in Row
      BY <1>1, <2>1 DEF Row
    <2>3. row' \in [Host -> Row]
      BY <1>4, <2>2 DEF MarkOffline
    <2> QED
      BY <1>4, <2>3 DEF MarkOffline
  <1> QED
    BY <1>2, <1>3, <1>4

LEMMA FileTypes ==
  ASSUME HostInv, NEW s \in Slot,
         \/ Clear(s) \/ Generate(s) \/ SetAside(s) \/ TakeDown(s) \/ GiveBack(s) \/ Rewrite(s)
         \/ RemovalFails(s)
  PROVE  StoredOK'
  <1> USE DEF HostInv, StoredOK, server
  <1> PICK t : t = task[s]
    OBVIOUS
  <1>1. TaskOK(t) /\ \A h \in Holds(t) : t.rows[h] \in Row
    BY DEF TaskOK
  <1>2. CASE Clear(s)
    BY <1>2 DEF Clear
  <1>3. CASE Generate(s)
    <2> PICK related : related = (t.kind # "enable")
      OBVIOUS
    <2>1. t.kind \in OneHost /\ related \in BOOLEAN
      BY <1>1, <1>3, StepKind DEF Generate, OneHost
    <2>2. Render(t.rows[Only(t)], Only(t), related) \in File
      BY <1>1, <2>1, OnlyHost, RenderFile
    <2>3. file' \in [Host -> File \cup {None}]
      BY <1>3, <2>2 DEF Generate
    <2> QED
      BY <1>3, <2>3 DEF Generate
  <1>4. CASE SetAside(s)
    BY <1>4 DEF SetAside
  <1>5. CASE TakeDown(s)
    BY <1>5, EndType DEF TakeDown
  <1>6. CASE GiveBack(s)
    <2> PICK no : no = FALSE
      OBVIOUS
    <2>1. \A h \in Holds(t) : Render(t.rows[h], h, no) \in File
      BY <1>1, RenderFile
    <2>2. file' \in [Host -> File \cup {None}]
      BY <1>6, <2>1 DEF GiveBack
    <2> QED
      BY <1>6, <2>2, EndType DEF GiveBack
  <1>7. CASE Rewrite(s)
    <2> PICK yes : yes = TRUE
      OBVIOUS
    <2>1. \A h \in Holds(t) : Render(t.rows[h], h, yes) \in File
      BY <1>1, RenderFile
    <2>2. file' \in [Host -> File \cup {None}]
      BY <1>7, <2>1 DEF Rewrite
    <2> QED
      BY <1>7, <2>2 DEF Rewrite
  <1>8. CASE RemovalFails(s)
    <2>1. PICK left \in (SUBSET Holds(t)) \ {{}} :
            /\ file' = [h \in Host |-> IF h \in Holds(t) \ left THEN None ELSE file[h]]
            /\ task' = [task EXCEPT ![s] = LeavesBehind(t, left)]
      BY <1>8 DEF RemovalFails
    <2>2. file' \in [Host -> File \cup {None}]
      BY <2>1
    <2>3. Fault /\ UNCHANGED <<row, acl, prot, server, requests, settled>>
      BY <1>8 DEF RemovalFails
    <2> QED
      BY <2>2, <2>3 DEF Fault
  <1> QED
    BY <1>2, <1>3, <1>4, <1>5, <1>6, <1>7, <1>8

LEMMA OtherTypes ==
  ASSUME HostInv, NEW s \in Slot,
         \/ Read(s) \/ Ensure(s) \/ Pretest(s) \/ TestHost(s) \/ Certbot(s)
         \/ WriteIncludes(s) \/ WriteProtection(s) \/ RemoveIncludes(s)
         \/ Reload(s) \/ ReloadIssued(s) \/ StepFails(s)
  PROVE  StoredOK'
  <1> USE DEF HostInv, StoredOK, disk, server
  <1>1. \A x \in Slot : task[x].listing \subseteq Proxied
    BY DEF TaskOK
  <1>2. CASE Read(s)
    BY <1>2, EndType DEF Read
  <1>3. CASE Ensure(s) \/ TestHost(s) \/ Certbot(s)
    BY <1>3 DEF Ensure, TestHost, Certbot
  <1>4. CASE Pretest(s)
    BY <1>4, EndType DEF Pretest
  <1>5. CASE WriteIncludes(s)
    BY <1>1, <1>5 DEF WriteIncludes
  <1>6. CASE WriteProtection(s)
    BY <1>1, <1>6, EndType DEF WriteProtection
  <1>7. CASE RemoveIncludes(s)
    BY <1>7, EndType DEF RemoveIncludes
  <1>8. CASE Reload(s)
    <2>1. settled' \subseteq Host
      BY <1>8, EndType, CatchType DEF Reload, AfterReload
    <2> QED
      BY <1>8, <2>1 DEF Reload, Signal
  <1>9. CASE ReloadIssued(s)
    BY <1>9, CatchType DEF ReloadIssued, Signal
  <1>10. CASE StepFails(s)
    BY <1>10, CatchType DEF StepFails, Fault
  <1> QED
    BY <1>2, <1>3, <1>4, <1>5, <1>6, <1>7, <1>8, <1>9, <1>10

LEMMA StoredKept ==
  ASSUME HostInv, [Next]_vars
  PROVE  StoredOK'
  <1>1. CASE UNCHANGED vars
    BY <1>1 DEF HostInv, StoredOK, vars, disk, server
  <1>2. CASE ReloadElsewhere
    BY <1>2 DEF HostInv, StoredOK, ReloadElsewhere, Signal, disk
  <1>3. CASE Restart
    BY <1>3 DEF HostInv, StoredOK, Restart, Fault, server
  <1>5. CASE MasterReads
    BY <1>5, LoadedType DEF HostInv, StoredOK, MasterReads, disk
  <1>4. ASSUME NEW s \in Slot, Run(s)
        PROVE  StoredOK'
    BY <1>4, RowTypes, FileTypes, OtherTypes DEF Run
  <1> QED
    BY <1>1, <1>2, <1>3, <1>4, <1>5, RequestTypes, ListTypes, FileTypes, OtherTypes DEF Next

-----------------------------------------------------------------------------
\* The invariant is kept: requests begin

LEMMA RequestKeeps ==
  ASSUME HostInv, StoredOK', NEW s \in Slot, NEW h \in Host,
         Create(s, h) \/ Update(s, h) \/ Enable(s, h) \/ Disable(s, h) \/ Delete(s, h)
  PROVE  HostInv'
  <1>1. row[h] \in Row /\ row'[h] \in Row /\ row \in [Host -> Row]
    BY DEF HostInv, StoredOK
  <1> PICK new : new = row'[h]
    OBVIOUS
  <1> PICK rows : rows = Just(h, new)
    OBVIOUS
  <1>2. DOMAIN rows = {h} /\ rows[h] = new
    BY DEF Just
  <1>3. /\ Begins("create", "read", rows) /\ Begins("update", "patch", rows)
        /\ Begins("enable", "ensure", rows) /\ Begins("disable", "remove", rows)
        /\ Begins("delete", "remove", rows)
    BY <1>1, <1>2 DEF Begins, OneHost, Configuring, StepsOf
  <1>4. CASE Create(s, h)
    <2>1. Start(s, "create", "read", rows) /\ row' = [row EXCEPT ![h] = new]
      BY <1>1, <1>4 DEF Create
    <2>2. Writes("create", "read", rows)
      BY <1>2, <2>1 DEF Writes
    <2> QED
      BY <1>3, <2>1, <2>2, StartKeeps
  <1>5. CASE Update(s, h)
    <2>1. Start(s, "update", "patch", rows) /\ row' = row
      BY <1>5 DEF Update, Just, Rows
    <2>2. Writes("update", "patch", rows)
      BY <1>2, <2>1 DEF Writes
    <2> QED
      BY <1>3, <2>1, <2>2, StartKeeps
  <1>6. CASE Enable(s, h)
    <2>1. Start(s, "enable", "ensure", rows) /\ \A x \in Host \ {h} : row'[x] = row[x]
      BY <1>1, <1>6 DEF Enable
    <2>2. row'[h].state = "live" /\ row'[h].enabled = new.enabled
      BY <1>1, <1>6 DEF Enable, Live, Row
    <2>3. Writes("enable", "ensure", rows)
      BY <1>2, <2>1, <2>2 DEF Writes
    <2> QED
      BY <1>3, <2>1, <2>3, StartKeeps
  <1>7. CASE Disable(s, h)
    <2>1. Start(s, "disable", "remove", rows) /\ \A x \in Host \ {h} : row'[x] = row[x]
      BY <1>1, <1>7 DEF Disable
    <2>2. ~row'[h].enabled
      BY <1>1, <1>7 DEF Disable, Row
    <2>3. Writes("disable", "remove", rows)
      BY <1>2, <2>1, <2>2 DEF Writes, Configuring
    <2> QED
      BY <1>3, <2>1, <2>3, StartKeeps
  <1>8. CASE Delete(s, h)
    <2>1. Start(s, "delete", "remove", rows) /\ \A x \in Host \ {h} : row'[x] = row[x]
      BY <1>1, <1>8 DEF Delete
    <2>2. row'[h].state = "deleted"
      BY <1>1, <1>8 DEF Delete, Row
    <2>3. Writes("delete", "remove", rows)
      BY <1>2, <2>1, <2>2 DEF Writes, Configuring
    <2> QED
      BY <1>3, <2>1, <2>3, StartKeeps
  <1> QED
    BY <1>4, <1>5, <1>6, <1>7, <1>8

LEMMA ManyKeeps ==
  ASSUME HostInv, StoredOK', NEW s \in Slot,
         \/ \E named \in SUBSET Host : Certify(s, named)
         \/ ChangeList(s) \/ ChangeGroups(s) \/ SyncProtection(s)
  PROVE  HostInv'
  <1>1. row \in [Host -> Row]
    BY DEF HostInv, StoredOK
  <1>2. ASSUME NEW rows, DOMAIN rows \subseteq Host, \A h \in DOMAIN rows : rows[h] \in Row,
               row' = row
        PROVE  /\ Begins("certify", "take", rows) /\ Begins("list", "rewrite", rows)
               /\ Writes("certify", "take", rows) /\ Writes("list", "rewrite", rows)
    BY <1>2 DEF Begins, Writes, OneHost, Configuring, StepsOf
  <1>3. ASSUME NEW named \in SUBSET Host, Certify(s, named)
        PROVE  HostInv'
    <2> PICK rows : rows = Rows({h \in named \cap Live : TypeOf[h] # "stream"})
      OBVIOUS
    <2>1. DOMAIN rows \subseteq Host /\ \A h \in DOMAIN rows : rows[h] \in Row
      BY <1>1 DEF Rows
    <2>2. Start(s, "certify", "take", rows) /\ row' = row
      BY <1>3 DEF Certify
    <2> QED
      BY <1>2, <2>1, <2>2, StartKeeps
  <1>4. CASE ChangeList(s)
    <2> PICK rows : rows = Rows(Listed \cap Live)
      OBVIOUS
    <2>1. DOMAIN rows \subseteq Host /\ \A h \in DOMAIN rows : rows[h] \in Row
      BY <1>1 DEF Rows
    <2>2. Start(s, "list", "rewrite", rows) /\ row' = row
      BY <1>4 DEF ChangeList
    <2> QED
      BY <1>2, <2>1, <2>2, StartKeeps
  <1>5. "includes" \in StepsOf("groups") /\ "protect" \in StepsOf("protect")
    BY DEF StepsOf
  <1>6. CASE ChangeGroups(s)
    <2>1. List(s, "groups", "includes")
      BY <1>6 DEF ChangeGroups
    <2> QED
      BY <1>5, <2>1, ListKeeps
  <1>7. CASE SyncProtection(s)
    <2>1. List(s, "protect", "protect")
      BY <1>7 DEF SyncProtection
    <2> QED
      BY <1>5, <2>1, ListKeeps
  <1> QED
    BY <1>3, <1>4, <1>6, <1>7

-----------------------------------------------------------------------------
\* The invariant is kept: the steps of configure

\* Such a step moves on, and what it has reached is known.
LEMMA ConfigureStep ==
  ASSUME HostInv, StoredOK', NEW s \in Slot, NEW u, u = task[s], u.kind \in OneHost,
         NEW h, h = Only(u),
         NEW next, Step(s, next), next \in StepsOf(u.kind), next \notin Bare,
         \A x \in Host \ {h} : row'[x] = row[x] /\ file'[x] = file[x],
         ServerMoves, settled' = settled,
         NEW t, t = [u EXCEPT !.step = next],
         h \notin u.met => Progress(t, h)'
  PROVE  HostInv'
  <1>1. TaskOK(u)
    BY DEF HostInv
  <1>2. Holds(u) = {h}
    BY <1>1, OnlyHost
  <1>3. Holds(t) = Holds(u) /\ t.met = u.met
    BY <1>1, StepTask
  <1>4. u.kind # "none"
    BY DEF OneHost, Configuring
  <1>5. \A x \in Holds(t) \ t.met : Progress(t, x)'
    <2> SUFFICES ASSUME NEW x \in Holds(t) \ t.met PROVE Progress(t, x)'
      OBVIOUS
    <2>1. x = h /\ h \notin u.met
      BY <1>2, <1>3
    <2> QED
      BY <2>1
  <1> QED
    BY <1>2, <1>4, <1>5, StepKeeps

\* What is known of the request before the step.
LEMMA ConfigureFacts ==
  ASSUME HostInv, NEW u, NEW s \in Slot, u = task[s], u.kind \in OneHost, NEW h, h = Only(u)
  PROVE  /\ TaskOK(u) /\ Holds(u) = {h} /\ h \in Host /\ u.rows[h] \in Row /\ row[h] \in Row
         /\ h \notin u.met => Progress(u, h)
         /\ u.rows[h].enabled \in BOOLEAN /\ row[h].enabled \in BOOLEAN /\ row[h].online \in BOOLEAN
  <1>1. TaskOK(u)
    BY DEF HostInv
  <1>2. Holds(u) = {h} /\ h \in Host /\ u.rows[h] \in Row
    BY <1>1, OnlyHost
  <1>3. row[h] \in Row
    BY <1>2 DEF HostInv, StoredOK
  <1> QED
    BY <1>1, <1>2, <1>3 DEF HostInv, Row

LEMMA PatchKeeps ==
  ASSUME HostInv, StoredOK', NEW s \in Slot, Patch(s)
  PROVE  HostInv'
  <1> PICK u : u = task[s]
    OBVIOUS
  <1> PICK h : h = Only(u)
    OBVIOUS
  <1> PICK t : t = [u EXCEPT !.step = "read"]
    OBVIOUS
  <1>1. TaskOK(u) /\ u.step = "patch"
    BY DEF HostInv, Patch
  <1>2. u.kind = "update" /\ u.kind \in OneHost
    BY <1>1, StepKind DEF OneHost, Configuring
  <1>3. /\ Step(s, "read") /\ UNCHANGED <<file, server, settled>>
        /\ \A x \in Host \ {h} : row'[x] = row[x]
    BY DEF Patch, PatchRow, PatchGiven, disk, HostInv, StoredOK
  <1>4. t.step = "read" /\ t.kind = "update"
    BY <1>1, <1>2, StepTask
  <1>5. Progress(t, h)'
    BY <1>4 DEF Progress, OneHost, Configuring
  <1> QED
    BY <1>2, <1>3, <1>5, StepsGo, ConfigureStep

LEMMA ReadKeeps ==
  ASSUME HostInv, StoredOK', NEW s \in Slot, Read(s)
  PROVE  HostInv'
  <1> PICK u : u = task[s]
    OBVIOUS
  <1> PICK h : h = Only(u)
    OBVIOUS
  <1>1. TaskOK(u) /\ u.step = "read"
    BY DEF HostInv, Read
  <1>2. u.kind \in {"create", "update"} /\ u.kind \in OneHost /\ u.kind \in Configuring
    BY <1>1, StepKind DEF OneHost, Configuring
  <1>3. Holds(u) = {h} /\ h \in Host /\ row[h] \in Row
    BY <1>2, ConfigureFacts
  <1>4. UNCHANGED <<row, file, server>>
    BY DEF Read, disk
  <1>5. CASE End(s, FALSE)
    BY <1>4, <1>5, EndKeeps
  <1>6. CASE row[h].state = "live" /\ task' = [task EXCEPT ![s].rows = Rows({h}), ![s].step = "ensure"] /\ settled' = settled
    <2> PICK rows : rows = Rows({h})
      OBVIOUS
    <2> PICK t : t = Made(u.kind, "ensure", rows, u.listing, u.undo, u.met)
      OBVIOUS
    <2>1. DOMAIN rows = {h} /\ rows[h] = row[h]
      BY DEF Rows
    <2>2. [u EXCEPT !.rows = rows, !.step = "ensure"] = t
      <3>1. PICK v : v = [u EXCEPT !.step = "ensure"]
        OBVIOUS
      <3>2. v = Made(u.kind, "ensure", u.rows, u.listing, u.undo, u.met)
        BY <1>1, <3>1, StepTask
      <3>3. [v EXCEPT !.rows = rows] = t
        BY <3>2 DEF Made
      <3>4. [u EXCEPT !.rows = rows, !.step = "ensure"] = [v EXCEPT !.rows = rows]
        BY <1>1, <3>1 DEF TaskOK
      <3> QED
        BY <3>3, <3>4
    <2>3. task' = [task EXCEPT ![s] = t]
      BY <1>6, <2>2
    <2>4. Parts(u.kind, "ensure", rows, u.listing, u.undo, u.met)
      <3>1. Parts(u.kind, u.step, u.rows, u.listing, u.undo, u.met)
        BY <1>1, <1>2, TaskParts
      <3> QED
        BY <1>2, <1>3, <2>1, <3>1, StepsGo DEF Parts
    <2>5. TaskOK(t)
      BY <2>4, MadeTask
    <2>6. t.kind = u.kind /\ t.step = "ensure" /\ t.rows = rows /\ t.met = u.met /\ Holds(t) = {h}
      BY <2>1 DEF Made, Holds
    <2>7. Progress(t, h)'
      BY <1>2, <1>4, <1>6, <2>1, <2>6 DEF Progress
    <2>8. \A x \in Holds(t) \ t.met : Progress(t, x)'
      <3> SUFFICES ASSUME NEW x \in Holds(t) \ t.met PROVE Progress(t, x)'
        OBVIOUS
      <3>1. x = h
        BY <2>6
      <3> QED
        BY <2>7, <3>1
    <2>9. /\ Holds(t) = Holds(u) /\ t.met = u.met /\ settled' = settled
          /\ row' = row /\ file' = file /\ server' = server
      BY <1>3, <1>4, <1>6, <2>6
    <2> QED
      BY <2>3, <2>5, <2>8, <2>9, WorkKeeps
  <1> QED
    BY <1>5, <1>6 DEF Read

\* The steps of configure up to the test.
LEMMA PrepareKeeps ==
  ASSUME HostInv, StoredOK', NEW s \in Slot,
         Ensure(s) \/ Pretest(s) \/ Clear(s) \/ Generate(s) \/ TestHost(s)
  PROVE  HostInv'
  <1> PICK u : u = task[s]
    OBVIOUS
  <1> PICK h : h = Only(u)
    OBVIOUS
  <1>1. TaskOK(u) /\ u.step \in {"ensure", "pretest", "clear", "write", "test"}
    BY DEF HostInv, Ensure, Pretest, Clear, Generate, TestHost
  <1>2. u.kind \in OneHost /\ u.kind \in Configuring
    BY <1>1, StepKind DEF OneHost
  <1>3. Holds(u) = {h} /\ h \in Host /\ u.rows[h] \in Row /\ (h \notin u.met => Progress(u, h))
    BY <1>2, ConfigureFacts
  <1>4. {"pretest", "clear", "write", "test", "passed", "failed"} \subseteq StepsOf(u.kind)
    BY <1>2, StepsGo
  <1>5. ASSUME NEW next \in {"pretest", "clear", "write"}, Step(s, next), UNCHANGED <<row, server, settled>>,
               \A x \in Host \ {h} : file'[x] = file[x]
        PROVE  HostInv'
    <2> PICK t : t = [u EXCEPT !.step = next]
      OBVIOUS
    <2>1. t.step = next /\ t.kind = u.kind /\ t.rows = u.rows
      BY <1>1, StepTask
    <2>2. h \notin u.met => Progress(t, h)'
      BY <1>1, <1>2, <1>3, <1>5, <2>1 DEF Progress, Configuring
    <2> QED
      BY <1>2, <1>4, <1>5, <2>2, ConfigureStep
  <1>6. CASE Ensure(s)
    BY <1>5, <1>6 DEF Ensure
  <1>7. CASE Pretest(s)
    <2>1. UNCHANGED <<row, server, file>>
      BY <1>7 DEF Pretest, disk
    <2>2. CASE End(s, FALSE)
      BY <2>1, <2>2, EndKeeps
    <2> QED
      BY <1>5, <1>7, <2>1, <2>2 DEF Pretest
  <1>8. CASE Clear(s)
    BY <1>3, <1>5, <1>8 DEF Clear, HostInv, StoredOK
  <1>9. CASE Generate(s)
    <2> PICK t : t = [u EXCEPT !.step = "test"]
      OBVIOUS
    <2> PICK related : related = (u.kind # "enable")
      OBVIOUS
    <2>1. t.step = "test" /\ t.kind = u.kind /\ t.rows = u.rows
      BY <1>1, StepTask
    <2>2. /\ related \in BOOLEAN /\ file' = [file EXCEPT ![h] = Render(u.rows[h], h, related)]
          /\ Step(s, "test") /\ UNCHANGED <<row, server, settled>>
      BY <1>9 DEF Generate
    <2>3. Render(u.rows[h], h, related) # None /\ Render(u.rows[h], h, related).up = u.rows[h].enabled
      BY <1>3, <2>2, RenderFile
    <2>4. /\ file'[h] # None /\ file'[h].up = u.rows[h].enabled
          /\ \A x \in Host \ {h} : file'[x] = file[x]
      BY <1>3, <2>2, <2>3 DEF HostInv, StoredOK
    <2>5. u.step = "write"
      BY <1>9 DEF Generate
    <2>6. h \notin u.met => Progress(t, h)'
      BY <1>2, <1>3, <2>1, <2>2, <2>4, <2>5 DEF Progress, Configuring
    <2> QED
      BY <1>2, <1>4, <2>2, <2>4, <2>6, ConfigureStep
  <1>10. CASE TestHost(s)
    <2> PICK next : next = IF TestPasses THEN "passed" ELSE "failed"
      OBVIOUS
    <2> PICK t : t = [u EXCEPT !.step = next]
      OBVIOUS
    <2>1. t.step = next /\ t.kind = u.kind /\ t.rows = u.rows
      BY <1>1, StepTask
    <2>2. Step(s, next) /\ UNCHANGED <<row, file, server, settled>> /\ u.step = "test"
      BY <1>10 DEF TestHost, disk
    <2>3. next \in {"passed", "failed"}
      OBVIOUS
    <2>4. h \notin u.met => Progress(t, h)'
      BY <1>2, <1>3, <2>1, <2>2, <2>3 DEF Progress, Configuring
    <2> QED
      BY <1>2, <1>4, <2>2, <2>3, <2>4, ConfigureStep
  <1> QED
    BY <1>6, <1>7, <1>8, <1>9, <1>10

\* The row takes the outcome of the test; the file of a host that is off goes.
LEMMA OutcomeKeeps ==
  ASSUME HostInv, StoredOK', NEW s \in Slot, MarkOnline(s) \/ MarkOffline(s) \/ SetAside(s)
  PROVE  HostInv'
  <1> PICK u : u = task[s]
    OBVIOUS
  <1> PICK h : h = Only(u)
    OBVIOUS
  <1>1. TaskOK(u) /\ u.step \in {"passed", "failed", "aside", "remove"}
    BY DEF HostInv, MarkOnline, MarkOffline, SetAside
  <1>2. u.kind \in OneHost /\ (u.step # "remove" => u.kind \in Configuring)
    BY <1>1, StepKind DEF OneHost
  <1>3. /\ Holds(u) = {h} /\ h \in Host /\ row[h] \in Row /\ (h \notin u.met => Progress(u, h))
        /\ u.rows[h].enabled \in BOOLEAN /\ row[h].enabled \in BOOLEAN
    BY <1>2, ConfigureFacts
  <1>4. /\ "reload" \in StepsOf(u.kind) /\ (u.step # "remove" => "aside" \in StepsOf(u.kind))
        /\ row \in [Host -> Row] /\ file \in [Host -> File \cup {None}]
    BY <1>2, StepsGo DEF HostInv, StoredOK
  <1>5. CASE MarkOnline(s)
    <2> PICK t : t = [u EXCEPT !.step = "reload"]
      OBVIOUS
    <2>1. t.step = "reload" /\ t.kind = u.kind /\ t.rows = u.rows
      BY <1>1, StepTask
    <2>2. /\ Step(s, "reload") /\ UNCHANGED <<file, server, settled>> /\ u.step = "passed"
          /\ row' = [row EXCEPT ![h].online = TRUE]
      BY <1>5 DEF MarkOnline, disk
    <2>3. /\ row'[h].state = row[h].state /\ row'[h].enabled = row[h].enabled /\ row'[h].online
          /\ \A x \in Host \ {h} : row'[x] = row[x]
      BY <1>3, <1>4, <2>2 DEF Row
    <2>4. ASSUME h \notin u.met
          PROVE  Progress(t, h)'
      <3>1. /\ file[h] # None /\ file[h].up = u.rows[h].enabled
            /\ row[h].state = "live" /\ row[h].enabled = u.rows[h].enabled
        BY <1>2, <1>3, <2>2, <2>4 DEF Progress
      <3>2. FileHonest(h)'
        BY <2>2, <2>3, <3>1 DEF FileHonest, Serves, Wanted
      <3>3. u.kind \notin {"disable", "delete", "certify"}
        BY <1>2, <2>2 DEF Configuring
      <3> QED
        BY <2>1, <3>2, <3>3 DEF Progress
    <2> QED
      BY <1>2, <1>4, <2>2, <2>3, <2>4, ConfigureStep
  <1>6. CASE MarkOffline(s)
    <2> PICK t : t = [u EXCEPT !.step = "aside"]
      OBVIOUS
    <2>1. t.step = "aside" /\ t.kind = u.kind /\ t.rows = u.rows
      BY <1>1, StepTask
    <2>2. /\ Step(s, "aside") /\ UNCHANGED <<file, server, settled>> /\ u.step = "failed"
          /\ row' = [row EXCEPT ![h].online = FALSE]
      BY <1>6 DEF MarkOffline, disk
    <2>3. /\ row'[h].state = row[h].state /\ row'[h].enabled = row[h].enabled /\ ~row'[h].online
          /\ \A x \in Host \ {h} : row'[x] = row[x]
      BY <1>3, <1>4, <2>2 DEF Row
    <2>4. ASSUME h \notin u.met
          PROVE  Progress(t, h)'
      <3>1. row[h].state = "live" /\ row[h].enabled = u.rows[h].enabled
        BY <1>2, <1>3, <2>2, <2>4 DEF Progress
      <3>2. u.kind \notin {"disable", "delete", "certify"}
        BY <1>2, <2>2 DEF Configuring
      <3> QED
        BY <2>1, <2>3, <3>1, <3>2 DEF Progress
    <2> QED
      BY <1>2, <1>4, <2>2, <2>3, <2>4, ConfigureStep
  <1>7. CASE SetAside(s)
    <2> PICK t : t = [u EXCEPT !.step = "reload"]
      OBVIOUS
    <2>1. t.step = "reload" /\ t.kind = u.kind /\ t.rows = u.rows
      BY <1>1, StepTask
    <2>2. /\ Step(s, "reload") /\ UNCHANGED <<row, server, settled>> /\ u.step \in {"aside", "remove"}
          /\ file' = [file EXCEPT ![h] = None]
      BY <1>7 DEF SetAside
    <2>3. file'[h] = None /\ \A x \in Host \ {h} : file'[x] = file[x]
      BY <1>3, <1>4, <2>2
    <2>4. ASSUME h \notin u.met
          PROVE  Progress(t, h)'
      <3>1. Progress(u, h)
        BY <1>3, <2>4
      <3>2. ~Wanted(h)
        <4>1. CASE u.step = "aside"
          BY <3>1, <4>1 DEF Progress, Wanted
        <4>2. CASE u.step = "remove"
          <5>1. u.kind \in {"disable", "delete"}
            BY <1>1, <4>2, StepKind
          <5> QED
            BY <3>1, <5>1 DEF Progress, Wanted
        <4> QED
          BY <2>2, <4>1, <4>2
      <3>3. FileHonest(h)'
        BY <2>2, <2>3, <3>2 DEF FileHonest, Serves, Wanted
      <3>4. /\ u.kind = "disable" => ~row[h].enabled
            /\ u.kind = "delete" => row[h].state = "deleted"
        BY <3>1 DEF Progress
      <3>5. u.kind # "certify"
        BY <1>2 DEF OneHost, Configuring
      <3> QED
        BY <2>1, <2>2, <3>3, <3>4, <3>5 DEF Progress
    <2> QED
      BY <1>2, <1>4, <2>2, <2>3, <2>4, ConfigureStep
  <1> QED
    BY <1>5, <1>6, <1>7

-----------------------------------------------------------------------------
\* The invariant is kept: the other steps

\* A request for several hosts goes on.
LEMMA ManyStep ==
  ASSUME HostInv, StoredOK', NEW s \in Slot, NEW u, u = task[s], u.kind \in Manys,
         NEW next, Step(s, next), next \in StepsOf(u.kind), next \in Bare => ~u.undo,
         row' = row, \A x \in Host \ Holds(u) : file'[x] = file[x],
         ServerMoves, settled' = settled,
         u.kind = "certify" /\ next = "reload" /\ u.undo => \A x \in Holds(u) : file'[x] # None
  PROVE  HostInv'
  <1> PICK t : t = [u EXCEPT !.step = next]
    OBVIOUS
  <1>1. TaskOK(u)
    BY DEF HostInv
  <1>2. t.step = next /\ t.kind = u.kind /\ t.undo = u.undo /\ Holds(t) = Holds(u)
    BY <1>1, StepTask
  <1>3. u.kind \notin OneHost /\ u.kind # "none"
    BY DEF Manys, OneHost, Configuring
  <1>4. next \in {"idle", "take", "rewrite", "reload", "includes", "protect", "certbot", "issued", "giveback"}
    BY DEF Manys, StepsOf
  <1>5. \A x \in Holds(t) : Progress(t, x)'
    BY <1>2, <1>3, <1>4 DEF Progress, OneHost
  <1> QED
    BY <1>3, <1>5, StepKeeps

LEMMA ListsKeep ==
  ASSUME HostInv, StoredOK', NEW s \in Slot,
         Rewrite(s) \/ WriteIncludes(s) \/ WriteProtection(s) \/ Certbot(s) \/ TakeDown(s) \/ GiveBack(s)
  PROVE  HostInv'
  <1> PICK u : u = task[s]
    OBVIOUS
  <1>1. /\ TaskOK(u)
        /\ u.step \in {"rewrite", "includes", "protect", "certbot", "take", "giveback"}
    BY DEF HostInv, Rewrite, WriteIncludes, WriteProtection, Certbot, TakeDown, GiveBack
  <1>2. u.kind \in Manys /\ u.kind \notin OneHost
    BY <1>1, StepKind DEF Manys, OneHost, Configuring
  <1>3. "reload" \in StepsOf(u.kind)
    BY <1>2, StepsGo
  <1>4. CASE Rewrite(s)
    <2>1. u.kind = "list"
      BY <1>1, <1>4, StepKind DEF Rewrite
    <2> QED
      BY <1>2, <1>3, <1>4, <2>1, ManyStep DEF Rewrite
  <1>5. CASE WriteIncludes(s)
    <2>1. u.kind = "groups"
      BY <1>1, <1>5, StepKind DEF WriteIncludes
    <2> QED
      BY <1>2, <1>3, <1>5, <2>1, ManyStep DEF WriteIncludes
  <1>6. CASE WriteProtection(s)
    <2>1. u.kind = "protect" /\ UNCHANGED <<row, file, server>>
      BY <1>1, <1>6, StepKind DEF WriteProtection
    <2>2. CASE End(s, TRUE)
      BY <1>2, <2>1, <2>2, EndSettles
    <2> QED
      BY <1>2, <1>3, <1>6, <2>1, <2>2, ManyStep DEF WriteProtection
  <1>7. CASE Certbot(s)
    <2>1. "issued" \in StepsOf(u.kind) /\ ~u.undo
      BY <1>1, <1>7, StepKind, StepsGo DEF Certbot, TaskOK
    <2> QED
      BY <1>2, <1>7, <2>1, ManyStep DEF Certbot, disk
  <1>8. CASE TakeDown(s)
    <2>1. /\ UNCHANGED <<row, server>> /\ \A x \in Host \ Holds(u) : file'[x] = file[x]
          /\ u.step = "take"
      BY <1>8 DEF TakeDown
    <2>2. CASE End(s, FALSE)
      BY <2>1, <2>2, EndKeeps
    <2>3. CASE Step(s, "reload") /\ UNCHANGED settled
      <3>1. ~u.undo
        BY <1>1, <2>1 DEF TaskOK
      <3> QED
        BY <1>2, <1>3, <2>1, <2>3, <3>1, ManyStep
    <2> QED
      BY <1>8, <2>2, <2>3 DEF TakeDown
  <1>9. CASE GiveBack(s)
    <2> PICK no : no = FALSE
      OBVIOUS
    <2>1. /\ UNCHANGED <<row, server>> /\ u.step = "giveback"
          /\ file' = [h \in Host |-> IF h \in Holds(u) THEN Render(u.rows[h], h, no) ELSE file[h]]
      BY <1>9 DEF GiveBack
    <2>2. \A x \in Host \ Holds(u) : file'[x] = file[x]
      BY <2>1
    <2>3. \A x \in Holds(u) : file'[x] # None
      <3>1. \A x \in Holds(u) : x \in Host /\ u.rows[x] \in Row
        BY <1>1 DEF TaskOK
      <3>2. \A x \in Holds(u) : Render(u.rows[x], x, no) # None
        BY <3>1, RenderFile
      <3> QED
        BY <2>1, <3>1, <3>2
    <2>4. CASE End(s, TRUE)
      BY <1>2, <2>1, <2>2, <2>4, EndSettles
    <2>5. CASE Step(s, "reload") /\ UNCHANGED settled
      BY <1>2, <1>3, <2>1, <2>2, <2>3, <2>5, ManyStep
    <2> QED
      BY <1>9, <2>4, <2>5 DEF GiveBack
  <1> QED
    BY <1>4, <1>5, <1>6, <1>7, <1>8, <1>9

\* The last step of a deletion: the includes go.
LEMMA RemoveKeeps ==
  ASSUME HostInv, StoredOK', NEW s \in Slot, RemoveIncludes(s)
  PROVE  HostInv'
  <1> PICK u : u = task[s]
    OBVIOUS
  <1>1. TaskOK(u) /\ u.step = "unlink" /\ UNCHANGED <<row, file, server>> /\ End(s, TRUE)
    BY DEF HostInv, RemoveIncludes
  <1>2. u.kind \in OneHost
    BY <1>1, StepKind DEF OneHost
  <1>3. ASSUME NEW h \in Holds(u) \ u.met
        PROVE  FileHonest(h)' /\ NginxHonest(h)'
    <2>1. Progress(u, h)
      BY DEF HostInv
    <2>2. FileHonest(h) /\ NginxHonest(h)
      BY <1>1, <1>2, <2>1 DEF Progress
    <2> QED
      BY <1>1, <2>2 DEF FileHonest, NginxHonest, Wanted, Serves, server
  <1> QED
    BY <1>1, <1>3, EndSettles

\* The task in its catch.
LEMMA UndoTask ==
  ASSUME NEW u, TaskOK(u), NEW next, NEW yes
  PROVE  [u EXCEPT !.step = next, !.undo = yes] = Made(u.kind, next, u.rows, u.listing, yes, u.met)
  <1>1. PICK v : v = [u EXCEPT !.step = next]
    OBVIOUS
  <1>2. v = Made(u.kind, next, u.rows, u.listing, u.undo, u.met)
    BY <1>1, StepTask
  <1>3. [v EXCEPT !.undo = yes] = Made(u.kind, next, u.rows, u.listing, yes, u.met)
    BY <1>2 DEF Made
  <1>4. [u EXCEPT !.step = next, !.undo = yes] = [v EXCEPT !.undo = yes]
    BY <1>1 DEF TaskOK
  <1> QED
    BY <1>3, <1>4

LEMMA UndoListed ==
  ASSUME NEW u, TaskOK(u), NEW next, NEW yes, NEW listed,
         NEW w, w = [u EXCEPT !.step = next, !.undo = yes, !.listing = listed]
  PROVE  w = Made(u.kind, next, u.rows, listed, yes, u.met)
  <1>1. PICK v : v = [u EXCEPT !.step = next, !.undo = yes]
    OBVIOUS
  <1>2. v = Made(u.kind, next, u.rows, u.listing, yes, u.met)
    BY <1>1, UndoTask
  <1>3. [v EXCEPT !.listing = listed] = Made(u.kind, next, u.rows, listed, yes, u.met)
    BY <1>2 DEF Made
  <1>4. [u EXCEPT !.step = next, !.undo = yes, !.listing = listed] = [v EXCEPT !.listing = listed]
    BY <1>1 DEF TaskOK
  <1> QED
    BY <1>3, <1>4

\* The catch blocks.
LEMMA CatchKeeps ==
  ASSUME HostInv, StoredOK', NEW s \in Slot, Catch(s), UNCHANGED <<row, file, server>>
  PROVE  HostInv'
  <1> PICK u : u = task[s]
    OBVIOUS
  <1>0. PICK yes : yes = TRUE
    OBVIOUS
  <1>1. TaskOK(u)
    BY DEF HostInv
  <1>2. u = [step |-> u.step, kind |-> u.kind, rows |-> u.rows, listing |-> u.listing, undo |-> u.undo,
             met |-> u.met]
    BY <1>1 DEF TaskOK
  <1>3. ASSUME NEW next \in {"giveback", "includes"}, NEW listing, listing \subseteq Proxied,
               u.kind \in Manys, next \in StepsOf(u.kind),
               NEW t, t = Made(u.kind, next, u.rows, listing, yes, u.met),
               task' = [task EXCEPT ![s] = t], settled' = settled
        PROVE  HostInv'
    <2>1. u.kind # "none" /\ u.kind \notin OneHost
      BY <1>3 DEF Manys, OneHost, Configuring
    <2>2. Parts(u.kind, u.step, u.rows, u.listing, u.undo, u.met)
      BY <1>1, <2>1, TaskParts
    <2>3. Parts(u.kind, next, u.rows, listing, yes, u.met)
      BY <1>0, <1>1, <1>3, <2>2 DEF Parts
    <2>4. TaskOK(t)
      BY <1>3, <2>3, MadeTask
    <2>5. t.kind = u.kind /\ t.step = next /\ t.met = u.met /\ Holds(t) = Holds(u)
      BY <1>3 DEF Made, Holds
    <2>6. \A h \in Holds(t) : Progress(t, h)'
      BY <1>3, <2>1, <2>5 DEF Progress, OneHost
    <2> QED
      BY <1>3, <2>4, <2>5, <2>6, WorkKeeps
  <1>4. CASE /\ u.kind = "certify"
             /\ task' = [task EXCEPT ![s].step = "giveback", ![s].undo = TRUE] /\ settled' = settled
    <2> PICK t : t = Made(u.kind, "giveback", u.rows, u.listing, yes, u.met)
      OBVIOUS
    <2>1. [u EXCEPT !.step = "giveback", !.undo = yes] = t
      BY <1>1, UndoTask
    <2>2. task' = [task EXCEPT ![s] = t]
      BY <1>0, <1>4, <2>1
    <2>3. u.kind \in Manys /\ "giveback" \in StepsOf(u.kind)
      BY <1>4, StepsGo DEF Manys
    <2>4. u.listing \subseteq Proxied
      BY <1>1 DEF TaskOK
    <2> QED
      BY <1>3, <1>4, <2>2, <2>3, <2>4
  <1>5. CASE /\ u.kind = "groups"
             /\ task' = [task EXCEPT ![s].step = "includes", ![s].undo = TRUE, ![s].listing = Live \cap Proxied]
             /\ settled' = settled
    <2>1. PICK listing : listing = Live \cap Proxied
      OBVIOUS
    <2>2. PICK t : t = [u EXCEPT !.step = "includes", !.undo = yes, !.listing = listing]
      OBVIOUS
    <2>3. t = Made(u.kind, "includes", u.rows, listing, yes, u.met)
      BY <1>1, <2>2, UndoListed
    <2>4. task' = [task EXCEPT ![s] = t]
      BY <1>0, <1>5, <2>1, <2>2
    <2>5. u.kind \in Manys /\ "includes" \in StepsOf(u.kind)
      BY <1>5, StepsGo DEF Manys
    <2> QED
      BY <1>3, <1>5, <2>1, <2>3, <2>4, <2>5
  <1>6. CASE u.step \in {"test", "passed"} /\ Step(s, "failed") /\ settled' = settled
    <2> PICK t : t = [u EXCEPT !.step = "failed"]
      OBVIOUS
    <2> PICK h : h = Only(u)
      OBVIOUS
    <2>1. t.step = "failed" /\ t.kind = u.kind /\ t.rows = u.rows
      BY <1>1, StepTask
    <2>2. u.kind \in OneHost /\ u.kind \in Configuring /\ "failed" \in StepsOf(u.kind)
      BY <1>1, <1>6, StepKind, StepsGo DEF OneHost
    <2>3. h \notin u.met => Progress(u, h)
      BY <2>2, ConfigureFacts
    <2>4. h \notin u.met => Progress(t, h)'
      BY <1>6, <2>1, <2>2, <2>3 DEF Progress, Configuring
    <2> QED
      BY <1>6, <2>2, <2>4, ConfigureStep
  <1>7. CASE End(s, FALSE)
    BY <1>7, EndKeeps
  <1>8. CASE u.kind = "groups" /\ Step(s, "reload") /\ settled' = settled
    BY <1>8, StepsGo, ManyStep DEF Manys
  <1> QED
    BY <1>4, <1>5, <1>6, <1>7, <1>8 DEF Catch

\* A reload that worked, with the end of most requests.
LEMMA AfterReloadKeeps ==
  ASSUME HostInv, StoredOK', NEW s \in Slot, task[s].step = "reload",
         AfterReload(s), signalled' = TRUE, UNCHANGED <<row, file>>
  PROVE  HostInv'
  <1> PICK u : u = task[s]
    OBVIOUS
  <1>1. TaskOK(u) /\ u.step = "reload"
    BY DEF HostInv
  <1>2. ASSUME NEW h \in Holds(u) \ u.met, u.kind \in OneHost
        PROVE  Progress(u, h) /\ FileHonest(h)' /\ NginxHonest(h)'
    <2>1. Progress(u, h) /\ h \in Host
      BY <1>1 DEF HostInv, TaskOK
    <2>2. FileHonest(h)
      BY <1>1, <1>2, <2>1 DEF Progress
    <2> QED
      BY <2>1, <2>2 DEF FileHonest, NginxHonest, Wanted, Serves
  <1>3. CASE u.kind = "delete" /\ Step(s, "unlink") /\ UNCHANGED settled
    <2> PICK t : t = [u EXCEPT !.step = "unlink"]
      OBVIOUS
    <2> PICK h : h = Only(u)
      OBVIOUS
    <2>1. t.step = "unlink" /\ t.kind = u.kind /\ t.rows = u.rows
      BY <1>1, StepTask
    <2>2. u.kind \in OneHost /\ "unlink" \in StepsOf(u.kind)
      BY <1>3, StepsGo DEF OneHost
    <2>3. Holds(u) = {h}
      BY <2>2, ConfigureFacts
    <2>4. ASSUME h \notin u.met
          PROVE  Progress(t, h)'
      <3>1. Progress(u, h) /\ FileHonest(h)' /\ NginxHonest(h)'
        BY <1>2, <2>2, <2>3, <2>4
      <3>2. row[h].state = "deleted"
        BY <1>3, <3>1 DEF Progress
      <3> QED
        BY <1>3, <2>1, <3>1, <3>2 DEF Progress, Configuring
    <2> QED
      BY <1>3, <2>2, <2>4, ConfigureStep
  <1>4. CASE u.kind = "certify" /\ ~u.undo /\ Step(s, "certbot") /\ UNCHANGED settled
    BY <1>4, StepsGo, ManyStep DEF Manys
  <1>5. CASE End(s, FALSE)
    BY <1>5, EndKeeps
  <1>6. CASE End(s, TRUE)
    BY <1>2, <1>6, EndSettles
  <1> QED
    BY <1>3, <1>4, <1>5, <1>6 DEF AfterReload

LEMMA ReloadKeeps ==
  ASSUME HostInv, StoredOK', NEW s \in Slot, Reload(s) \/ ReloadIssued(s) \/ StepFails(s)
  PROVE  HostInv'
  <1>1. CASE Reload(s)
    BY <1>1, AfterReloadKeeps, CatchKeeps DEF Reload, Signal, disk
  <1>2. CASE ReloadIssued(s)
    <2> PICK u : u = task[s]
      OBVIOUS
    <2>1. TaskOK(u) /\ u.step = "issued" /\ UNCHANGED <<row, file>>
      BY <1>2 DEF HostInv, ReloadIssued, disk
    <2>2. u.kind = "certify"
      BY <2>1, StepKind
    <2>3. CASE signalled' = TRUE /\ Step(s, "giveback") /\ UNCHANGED settled
      BY <2>1, <2>2, <2>3, StepsGo, ManyStep DEF Manys
    <2>4. CASE Catch(s) /\ UNCHANGED server
      BY <2>1, <2>4, CatchKeeps
    <2> QED
      BY <1>2, <2>3, <2>4 DEF ReloadIssued, Signal
  <1>3. CASE StepFails(s)
    BY <1>3, CatchKeeps DEF StepFails, disk
  <1> QED
    BY <1>1, <1>2, <1>3

\* What a failed removal leaves is overwritten, or the request no longer vouches for it.
LEMMA RemovalKeeps ==
  ASSUME HostInv, StoredOK', NEW s \in Slot, RemovalFails(s)
  PROVE  HostInv'
  <1> PICK u : u = task[s]
    OBVIOUS
  <1>1. /\ TaskOK(u) /\ u.step \in {"clear", "aside", "remove", "take"}
        /\ UNCHANGED <<row, server, settled>>
    BY DEF HostInv, RemovalFails, Removals
  <1>2. PICK left \in (SUBSET Holds(u)) \ {{}} :
          /\ file' = [h \in Host |-> IF h \in Holds(u) \ left THEN None ELSE file[h]]
          /\ task' = [task EXCEPT ![s] = LeavesBehind(u, left)]
    BY DEF RemovalFails
  <1>3. PICK next : next = IF u.step = "clear" THEN "write" ELSE "reload"
    OBVIOUS
  <1>4. PICK met : met = IF u.step \in {"aside", "remove"} THEN u.met \cup left ELSE u.met
    OBVIOUS
  <1>5. PICK t : t = Made(u.kind, next, u.rows, u.listing, u.undo, met)
    OBVIOUS
  <1>6. u.kind # "none" /\ next \in StepsOf(u.kind)
    BY <1>1, <1>3, StepKind, StepsGo DEF OneHost, Configuring, Manys
  <1>7. task' = [task EXCEPT ![s] = t]
    <2>1. PICK v : v = [u EXCEPT !.step = next]
      OBVIOUS
    <2>2. v = Made(u.kind, next, u.rows, u.listing, u.undo, u.met)
      BY <1>1, <2>1, StepTask
    <2>3. [v EXCEPT !.met = met] = t
      BY <1>5, <2>2 DEF Made
    <2>4. [u EXCEPT !.step = next, !.met = met] = [v EXCEPT !.met = met]
      BY <1>1, <2>1 DEF TaskOK
    <2> QED
      BY <1>2, <1>3, <1>4, <2>3, <2>4 DEF LeavesBehind
  <1>8. TaskOK(t)
    <2>1. Parts(u.kind, u.step, u.rows, u.listing, u.undo, u.met)
      BY <1>1, <1>6, TaskParts
    <2>2. met \subseteq Host
      BY <1>1, <1>4 DEF TaskOK
    <2>3. Parts(u.kind, next, u.rows, u.listing, u.undo, met)
      BY <1>3, <1>6, <2>1, <2>2 DEF Parts
    <2> QED
      BY <1>5, <2>3, MadeTask
  <1>9. /\ t.kind = u.kind /\ t.step = next /\ t.rows = u.rows /\ t.undo = u.undo /\ t.met = met
        /\ Holds(t) = Holds(u)
    BY <1>5 DEF Made, Holds
  <1>10. Holds(u) \subseteq Host /\ \A h \in Host \ Holds(u) : file'[h] = file[h]
    BY <1>1, <1>2 DEF TaskOK
  <1>11. ASSUME NEW h \in Holds(t) \ t.met
         PROVE  Progress(t, h)'
    <2>1. h \in Host /\ h \in Holds(u) \ u.met
      BY <1>4, <1>9, <1>10, <1>11
    <2>2. Progress(u, h)
      BY <2>1 DEF HostInv
    <2>3. CASE u.step = "clear"
      <3>1. u.kind \in Configuring /\ u.kind \notin {"disable", "delete"} /\ next = "write"
        BY <1>1, <1>3, <2>3, StepKind DEF Configuring
      <3>2. row'[h].state = "live" /\ row'[h].enabled = t.rows[h].enabled
        BY <1>1, <1>9, <2>2, <2>3, <3>1 DEF Progress
      <3> QED
        BY <1>9, <3>1, <3>2 DEF Progress
    <2>4. CASE u.step \in {"aside", "remove"}
      <3>1. u.kind \in OneHost
        BY <1>1, <2>4, StepKind DEF OneHost
      <3>2. left = Holds(u)
        <4>1. PICK x : Holds(u) = {x}
          BY <1>1, <3>1, OnlyHost
        <4>2. left \subseteq {x} /\ left # {}
          BY <1>2, <4>1
        <4> QED
          BY <4>1, <4>2
      <3> QED
        BY <1>4, <1>9, <1>11, <2>4, <3>2
    <2>5. CASE u.step = "take"
      <3>1. u.kind = "certify" /\ ~u.undo /\ next = "reload"
        BY <1>1, <1>3, <2>5, StepKind DEF TaskOK
      <3> QED
        BY <1>9, <3>1 DEF Progress, OneHost, Configuring
    <2> QED
      BY <1>1, <2>3, <2>4, <2>5
  <1>12. task[s].met \subseteq t.met
    BY <1>4, <1>9
  <1>13. \A h \in Host \ Holds(task[s]) : row'[h] = row[h] /\ file'[h] = file[h]
    BY <1>1, <1>10
  <1> QED
    BY <1>1, <1>7, <1>8, <1>9, <1>11, <1>12, <1>13, WorkKeeps

\* A restart forgets the requests.
LEMMA RestartKeeps ==
  ASSUME HostInv, StoredOK', Restart
  PROVE  HostInv'
  <1>1. task' = [s \in Slot |-> Idle] /\ UNCHANGED <<row, file, server, settled>>
    BY DEF Restart
  <1>2. TaskOK(Idle) /\ Holds(Idle) = {}
    BY DEF TaskOK, Idle, Holds, StepsOf, OneHost, Configuring, Manys
  <1>3. \A s \in Slot : task'[s] = Idle
    BY <1>1
  <1>4. \A s \in Slot : Holds(task[s])' = {}
    BY <1>2, <1>3 DEF Holds
  <1>5. (\A s \in Slot : TaskOK(task[s]))'
    BY <1>2, <1>3 DEF TaskOK
  <1>6. (task = [s \in Slot |-> task[s]])'
    BY <1>1
  <1>7. Apart'
    BY <1>4 DEF Apart
  <1>8. Settled'
    BY <1>1, <1>4 DEF HostInv, Settled, FileHonest, NginxHonest, Wanted, server
  <1> QED
    BY <1>4, <1>5, <1>6, <1>7, <1>8 DEF HostInv

-----------------------------------------------------------------------------
\* The invariant holds

LEMMA InitHostInv == Init => HostInv
  <1> SUFFICES ASSUME Init PROVE HostInv
    OBVIOUS
  <1> PICK yes : yes = TRUE
    OBVIOUS
  <1>1. /\ row \in [Host -> Configured \cup {Absent}]
        /\ file = [h \in Host |-> IF h \in Live /\ row[h].enabled /\ row[h].online
                                  THEN Render(row[h], h, yes) ELSE None]
        /\ acl = Live \cap Proxied /\ prot = Live \cap Proxied
        /\ nginx = file /\ settled = Live
        /\ signalled = FALSE /\ refused = FALSE
    BY DEF Init
  <1>2. task = [s \in Slot |-> Idle] /\ requests = 0 /\ faults = 0
    BY DEF Init
  <1>3. row \in [Host -> Row]
    <2>1. Absent \in Row /\ Configured \subseteq Row
      BY DEF Absent, Configured, Row
    <2> QED
      BY <1>1, <2>1
  <1>4. Live = {h \in Host : row[h].state = "live"}
    BY DEF Live
  <1>5. ASSUME NEW h \in Host
        PROVE  /\ file[h] \in File \cup {None}
               /\ h \in Live => FileHonest(h) /\ (nginx[h] # None <=> Wanted(h))
    <2>1. /\ Render(row[h], h, yes) \in File /\ Render(row[h], h, yes) # None
          /\ Render(row[h], h, yes).up = row[h].enabled
      BY <1>3, RenderFile
    <2>2. CASE h \in Live /\ row[h].enabled /\ row[h].online
      <3>1. file[h] = Render(row[h], h, yes) /\ nginx[h] = file[h] /\ Wanted(h)
        BY <1>1, <1>4, <2>2 DEF Wanted
      <3> QED
        BY <2>1, <2>2, <3>1 DEF FileHonest, Serves
    <2>3. CASE ~(h \in Live /\ row[h].enabled /\ row[h].online)
      <3>1. file[h] = None /\ nginx[h] = file[h] /\ (h \in Live => ~Wanted(h))
        BY <1>1, <2>3 DEF Wanted
      <3> QED
        BY <3>1 DEF FileHonest, Serves
    <2> QED
      BY <2>2, <2>3
  <1>6. StoredOK
    <2>1. file \in [Host -> File \cup {None}]
      BY <1>1, <1>5
    <2>2. requests \in 0 .. RequestBound /\ faults \in 0 .. FaultBound
      BY <1>2
    <2>3. signalled \in BOOLEAN /\ refused \in BOOLEAN /\ settled \subseteq Host
      BY <1>1, <1>4
    <2> QED
      BY <1>1, <1>3, <2>1, <2>2, <2>3 DEF StoredOK
  <1>7. TaskOK(Idle) /\ Holds(Idle) = {}
    BY DEF TaskOK, Idle, Holds, StepsOf, OneHost, Configuring, Manys
  <1>8. \A s \in Slot : task[s] = Idle /\ Holds(task[s]) = {} /\ TaskOK(task[s])
    BY <1>2, <1>7
  <1>9. Settled
    BY <1>1, <1>4, <1>5, <1>8 DEF Settled, NginxHonest
  <1> QED
    BY <1>2, <1>6, <1>8, <1>9 DEF HostInv, Apart

LEMMA HostInvStep == HostInv /\ [Next]_vars => HostInv'
  <1> SUFFICES ASSUME HostInv, [Next]_vars PROVE HostInv'
    OBVIOUS
  <1>1. StoredOK'
    BY StoredKept
  <1>2. CASE UNCHANGED vars
    BY <1>1, <1>2, RestKeeps DEF vars, disk
  <1>3. CASE ReloadElsewhere
    BY <1>1, <1>3, RestKeeps DEF ReloadElsewhere, Signal, disk
  <1>4. CASE Restart
    BY <1>1, <1>4, RestartKeeps
  <1>5. ASSUME NEW s \in Slot, Run(s)
        PROVE  HostInv'
    BY <1>1, <1>5, PatchKeeps, ReadKeeps, PrepareKeeps, OutcomeKeeps, ListsKeep, RemoveKeeps, ReloadKeeps
       DEF Run
  <1>6. ASSUME NEW s \in Slot, StepFails(s)
        PROVE  HostInv'
    BY <1>1, <1>6, ReloadKeeps
  <1>7. CASE MasterReads
    BY <1>1, <1>7, RestKeeps DEF MasterReads, disk
  <1> QED
    BY <1>1, <1>2, <1>3, <1>4, <1>5, <1>6, <1>7, RequestKeeps, ManyKeeps, RemovalKeeps DEF Next

THEOREM HostInvHolds == Spec => []HostInv
  BY InitHostInv, HostInvStep, PTL DEF Spec

\* Every store of the handlers, and every request in flight, stays well formed.
THEOREM HostTypes == Spec => []TypeOK
  BY HostInvHolds, HostInvTypes, PTL

\* However many requests, failures and restarts go on beside it, a host whose
\* last request was acknowledged, and was alone with it, is served exactly when
\* its row says so.
THEOREM SettledHostsAreHonest == Spec => []SettledIsHonest
  <1>1. HostInv => SettledIsHonest
    BY DEF HostInv, Settled, SettledIsHonest, FileHonest, NginxHonest, Wanted
  <1> QED
    BY <1>1, HostInvHolds, PTL

-----------------------------------------------------------------------------
\* Certificate requests

\* How a certificate request past its checks can end.
LEMMA CertifyEnds ==
  ASSUME HostInv, NEW s \in Slot, task[s].kind = "certify", task[s].step # "take", task'[s] = Idle,
         Run(s) \/ (StepFails(s) /\ task[s].step # "giveback"),
         NEW h \in Holds(task[s]) \ task[s].met
  PROVE  file'[h] # None
  <1> PICK u : u = task[s]
    OBVIOUS
  <1>1. /\ TaskOK(u) /\ u.kind = "certify" /\ u.step # "take" /\ task \in [Slot -> {task[x] : x \in Slot}]
        /\ h \in Host /\ u.rows[h] \in Row /\ Progress(u, h)
    BY DEF HostInv, TaskOK
  <1>2. u.step \in {"reload", "certbot", "issued", "giveback"}
    BY <1>1 DEF TaskOK, StepsOf
  <1>3. ASSUME NEW next, Step(s, next), next # "idle"
        PROVE  FALSE
    <2>1. task'[s] = [u EXCEPT !.step = next]
      BY <1>1, <1>3 DEF Step
    <2>2. task'[s].step = next
      BY <1>1, <2>1, StepTask
    <2> QED
      BY <1>3, <2>2 DEF Idle
  <1>4. ASSUME Catch(s)
        PROVE  u.undo
    <2>1. task' # [task EXCEPT ![s].step = "giveback", ![s].undo = TRUE]
      <3> SUFFICES ASSUME task' = [task EXCEPT ![s].step = "giveback", ![s].undo = TRUE] PROVE FALSE
        OBVIOUS
      <3>1. task'[s] = [u EXCEPT !.step = "giveback", !.undo = TRUE]
        BY <1>1
      <3>2. [u EXCEPT !.step = "giveback", !.undo = TRUE].step = "giveback"
        BY <1>1 DEF TaskOK
      <3>3. task'[s].step = "giveback"
        BY <3>1, <3>2
      <3> QED
        BY <3>3 DEF Idle
    <2> QED
      BY <1>1, <1>2, <1>4, <2>1 DEF Catch
  <1>5. CASE u.step = "reload"
    <2>1. Reload(s) \/ StepFails(s)
      BY <1>5 DEF Run, Patch, Read, Ensure, Pretest, Clear, Generate, TestHost, MarkOnline, MarkOffline,
                  SetAside, TakeDown, Certbot, GiveBack, Rewrite, WriteIncludes, WriteProtection,
                  RemoveIncludes, ReloadIssued
    <2>2. file' = file
      BY <2>1 DEF Reload, StepFails, disk
    <2>3. AfterReload(s) => u.undo
      BY <1>1, <1>3 DEF AfterReload
    <2>4. u.undo
      BY <1>4, <2>1, <2>3 DEF Reload, StepFails
    <2> QED
      BY <1>1, <1>5, <2>2, <2>4 DEF Progress
  <1>6. CASE u.step \in {"certbot", "issued"}
    <2>1. ~u.undo
      BY <1>1, <1>6 DEF TaskOK
    <2>2. Certbot(s) \/ ReloadIssued(s) \/ StepFails(s)
      BY <1>6 DEF Run, Patch, Read, Ensure, Pretest, Clear, Generate, TestHost, MarkOnline, MarkOffline,
                  SetAside, TakeDown, GiveBack, Rewrite, WriteIncludes, WriteProtection,
                  RemoveIncludes, Reload
    <2>3. ~Certbot(s)
      BY <1>3 DEF Certbot
    <2>4. Catch(s)
      BY <1>3, <2>2, <2>3 DEF ReloadIssued, StepFails
    <2> QED
      BY <1>4, <2>1, <2>4
  <1>7. CASE u.step = "giveback"
    <2> PICK no : no = FALSE
      OBVIOUS
    <2>1. GiveBack(s)
      BY <1>7 DEF Run, Patch, Read, Ensure, Pretest, Clear, Generate, TestHost, MarkOnline, MarkOffline,
                  SetAside, TakeDown, Certbot, Rewrite, WriteIncludes, WriteProtection,
                  RemoveIncludes, Reload, ReloadIssued
    <2>2. file' = [x \in Host |-> IF x \in Holds(u) THEN Render(u.rows[x], x, no) ELSE file[x]]
      BY <2>1 DEF GiveBack
    <2>3. Render(u.rows[h], h, no) # None
      BY <1>1, RenderFile
    <2> QED
      BY <1>1, <2>2, <2>3
  <1> QED
    BY <1>2, <1>5, <1>6, <1>7

\* Whatever fails in a certificate request past its checks, it does not end
\* before the hosts it took down have their files back.
THEOREM HostsAreGivenBack == Spec => GivesBack
  <1> DEFINE Ends(s) ==
        /\ task[s].kind = "certify" /\ task[s].step # "take" /\ task'[s] = Idle
        /\ Run(s) \/ (StepFails(s) /\ task[s].step # "giveback")
        => \A h \in Holds(task[s]) \ task[s].met : file'[h] # None
  <1>1. HostInv => [\A s \in Slot : Ends(s)]_vars
    BY CertifyEnds
  <1> QED
    BY <1>1, HostInvHolds, PTL DEF GivesBack
=============================================================================
