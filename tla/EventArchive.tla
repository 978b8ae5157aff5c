---------------------------- MODULE EventArchive ----------------------------
(***************************************************************************)
(* How logged requests reach the event archive (security.js).  Every five  *)
(* seconds the monitor reads a window of the newest lines, first of the    *)
(* log, then of the file logrotate set aside, and passes on the events it  *)
(* does not remember.  The archive has a file a day; appends and purges    *)
(* queue behind each other, and what is archived is remembered too.  Both  *)
(* memories are bounded, lose the oldest entry first, and are gone after a *)
(* restart; the archive's is filled again from its files, newest first.    *)
(*                                                                         *)
(* Events are numbers, in the order Nginx logged them.                     *)
(***************************************************************************)
EXTENDS Naturals, SequencesExt

CONSTANTS
  Minor,          \* events the policy does not archive (risk below eventArchiveMinRisk)
  ScanLines,      \* MAX_SCAN_BYTES, in lines
  EventWindow,    \* MAX_EVENT_LIST_LIMIT
  SeenLimit,      \* PROCESSED_EVENT_LIMIT
  ArchivedLimit,  \* ARCHIVED_EVENT_ID_LIMIT
  FileLimit,      \* MAX_ARCHIVE_FILE_BYTES, in lines
  Retention,      \* eventRetentionDays
  EventDay,       \* the day of each event; bounds the requests logged
  ReadBurst,      \* bound: requests logged while a run reads the two files
  TurnBound,      \* bound: rotations of the log
  FaultBound      \* bound: failed writes and restarts

ASSUME ArchiveAssumption ==
  /\ Minor \subseteq Nat
  /\ {ScanLines, EventWindow, SeenLimit, ArchivedLimit, FileLimit} \subseteq Nat \ {0}
  /\ EventDay \in Seq(Nat \ {0}) \ {<<>>}
  /\ \A i, j \in DOMAIN EventDay: i <= j => EventDay[i] <= EventDay[j]
  /\ {Retention, ReadBurst, TurnBound, FaultBound} \subseteq Nat
  /\ EventWindow <= ScanLines            \* 4 MiB hold more than 2000 lines
  /\ 2 * EventWindow + ReadBurst <= SeenLimit /\ 2 * EventWindow <= ArchivedLimit

VARIABLES
  seclog,    \* hyrovi-sec.log: the first line of the rotated file, of the log, and its last
  files,     \* the archive: the lines of each day, and whether the file ends in half a line
  seen,      \* processedEventOrder
  archived,  \* archivedEventOrder
  primed,    \* monitorPrimed
  reader,    \* the run that reads: where what it has read of the log begins and ends; its window
  queue,     \* eventArchiveMutationQueue: events to archive, or a purge
  handed,    \* history: how often each event was handed to the responses
  lost,      \* history: events of a failed or broken write, a compaction or a purge
  turns, faults

archiveVars == <<seclog, files, seen, archived, primed, reader, queue, handed, lost, turns, faults>>

Event == DOMAIN EventDay
Days == 1 .. EventDay[Len(EventDay)]
Today == IF seclog.last = 0 THEN 0 ELSE EventDay[seclog.last]
NotReading == [step |-> "idle", from |-> 0, upto |-> 0, lines |-> <<>>]
EmptyFile == [lines |-> <<>>, torn |-> FALSE]
Purge == {0}

\* The last n elements of s (readTail, and slice(-n)).
Newest(n, s) == IF Len(s) <= n THEN s ELSE SubSeq(s, Len(s) - n + 1, Len(s))

\* Faulty variant: a memory that is full is cleared.
RememberAfresh(memory, events, limit) ==
  FoldLeft(LAMBDA m, e: IF Contains(m, e) THEN m
                        ELSE IF Len(m) = limit THEN <<e>> ELSE Append(m, e), memory, events)

\* rememberEvent and rememberArchivedEvent, for each event of a sequence in turn.
Remember(memory, events, limit) ==
  LET remembered[i \in 0 .. Len(events)] ==
        IF i = 0 THEN memory
        ELSE LET m == remembered[i - 1]
             IN  IF Contains(m, events[i]) THEN m ELSE Newest(limit, Append(m, events[i]))
  IN  remembered[Len(events)]

ArchiveInit ==
  /\ seclog = [previous |-> 1, current |-> 1, last |-> 0]
  /\ files = [d \in Days |-> EmptyFile]
  /\ seen = <<>> /\ archived = <<>> /\ primed = FALSE
  /\ reader = NotReading /\ queue = <<>>
  /\ handed = [e \in Event |-> 0] /\ lost = {}
  /\ turns = 0 /\ faults = 0

Fault == faults < FaultBound /\ faults' = faults + 1

-----------------------------------------------------------------------------
(* The log. *)

Interval(from, to) == [i \in 1 .. to + 1 - from |-> from + i - 1]

LogRequest ==
  /\ seclog.last < Len(EventDay)
  /\ reader.step = "current" => seclog.last < reader.upto + ReadBurst
  /\ seclog' = [seclog EXCEPT !.last = @ + 1]
  /\ UNCHANGED <<files, seen, archived, primed, reader, queue, handed, lost, turns, faults>>

\* logrotate, every 15 minutes: the log becomes the rotated file.
TurnLog ==
  /\ seclog.current <= seclog.last /\ turns < TurnBound
  /\ seclog' = [seclog EXCEPT !.previous = seclog.current, !.current = seclog.last + 1]
  /\ turns' = turns + 1
  /\ UNCHANGED <<files, seen, archived, primed, reader, queue, handed, lost, faults>>

-----------------------------------------------------------------------------
(* The monitor. *)

\* readSecurityEventWindow reads the log.  (Polls are five seconds apart; that a run
\* has read the log, and the first of a process has ended, by the next is assumed.)
ReadCurrent ==
  /\ reader = NotReading
  /\ reader' = [NotReading EXCEPT !.step = "current", !.from = seclog.current, !.upto = seclog.last]
  /\ UNCHANGED <<seclog, files, seen, archived, primed, queue, handed, lost, turns, faults>>

\* The lines the run works on: when those are not enough, lines of the rotated file come
\* first.  A rotation in between has put the same lines there again.
Window ==
  LET lines == Newest(ScanLines, Interval(reader.from, reader.upto))
      more == Interval(seclog.previous, seclog.current - 1)
  IN  Newest(EventWindow, Newest(ScanLines - Len(lines), more) \o lines)

\* Faulty variant: the first run only remembers.
PrimeOnly ==
  /\ reader.step = "current" /\ ~primed
  /\ reader' = [reader EXCEPT !.step = "priming", !.lines = Window]
  /\ lost' = {e \in lost : e \in Range(Window) => Contains(archived, e)}
  /\ UNCHANGED <<seclog, files, seen, archived, primed, queue, handed, turns, faults>>

\* The first run of a process archives its window, which may make up for what another
\* process lost,
Prime ==
  /\ reader.step = "current" /\ ~primed
  /\ queue' = Append(queue, Range(Window))
  /\ reader' = [reader EXCEPT !.step = "priming", !.lines = Window]
  /\ lost' = {e \in lost : e \in Range(Window) => Contains(archived, e)}
  /\ UNCHANGED <<seclog, files, seen, archived, primed, handed, turns, faults>>

\* and then only remembers it, the newest event first.
Primed ==
  /\ reader.step = "priming" /\ queue = <<>>
  /\ seen' = Remember(seen, Reverse(reader.lines), SeenLimit)
  /\ primed' = TRUE
  /\ reader' = NotReading
  /\ UNCHANGED <<seclog, files, archived, queue, handed, lost, turns, faults>>

\* Every later run archives and answers the events rememberEvent does not know.
Poll ==
  /\ reader.step = "current" /\ primed
  /\ LET events == Window
         fresh == Range(events) \ Range(seen)
     IN  /\ seen' = Remember(seen, events, SeenLimit)
         /\ handed' = [e \in Event |-> handed[e] + IF e \in fresh THEN 1 ELSE 0]
         /\ queue' = IF fresh = {} THEN queue ELSE Append(queue, fresh)
  /\ reader' = NotReading
  /\ UNCHANGED <<seclog, files, archived, primed, lost, turns, faults>>

-----------------------------------------------------------------------------
(* The archive. *)

OnDisk(f) == UNION {Range(f[d].lines) : d \in Days}

\* What the filters of persistArchivedEvents leave of the events first in the queue.
Candidates == Head(queue) \ (Minor \cup Range(archived))

\* The day written first, and its events in the order of their times.
FirstDay(events) == Min({EventDay[e] : e \in events})
Batch(events) ==
  LET d == FirstDay(events)
      upto[e \in 0 .. seclog.last] ==
        IF e = 0 THEN <<>>
        ELSE IF e \in events /\ EventDay[e] = d THEN Append(upto[e - 1], e) ELSE upto[e - 1]
  IN  upto[seclog.last]

\* A file that has grown too long keeps its newer half.
Compacted(file) ==
  IF Len(file.lines) < FileLimit THEN file
  ELSE [file EXCEPT !.lines = Newest(FileLimit \div 2, @)]

\* appendFile writes the first n of the events whole and, when cut, half of another.
\* What follows half a line belongs to it, and safeJsonParse throws both away.
Appended(file, events, n, cut) ==
  [lines |-> file.lines \o SubSeq(events, IF file.torn THEN 2 ELSE 1, n),
   torn |-> IF n = 0 THEN cut \/ file.torn ELSE cut]

\* What the disk no longer holds, or will not get, of these events.
Losing(events) == lost' = lost \cup ((OnDisk(files) \cup events) \ OnDisk(files'))

Archiving == queue # <<>> /\ Head(queue) # Purge /\ Candidates # {}

\* The events of the oldest day are appended and remembered; the others, which were
\* chosen with them, follow.
PersistDay ==
  /\ Archiving
  /\ LET d == FirstDay(Candidates)
         batch == Batch(Candidates)
     IN  /\ files' = [files EXCEPT ![d] = Appended(Compacted(@), batch, Len(batch), FALSE)]
         /\ archived' = Remember(archived, batch, ArchivedLimit)
         /\ queue' = [queue EXCEPT ![1] = Candidates \ Range(batch)]
         /\ Losing(Range(batch))
  /\ UNCHANGED <<seclog, seen, primed, reader, handed, turns, faults>>

\* The files a write that stops part of the way may leave, compacted or not.
Interrupted ==
  LET d == FirstDay(Candidates)
      batch == Batch(Candidates)
  IN  {[files EXCEPT ![d] = Appended(file, batch, n, cut)] :
         file \in {files[d], Compacted(files[d])},
         n \in 0 .. Len(batch) - 1, cut \in BOOLEAN}

\* The write fails, and the events of this day and of those that follow are not
\* archived (persistArchivedEventsBestEffort logs the error); the queue goes on.
PersistFails ==
  /\ Archiving
  /\ Fault
  /\ files' \in Interrupted
  /\ queue' = Tail(queue)
  /\ Losing(Candidates)
  /\ UNCHANGED <<seclog, seen, archived, primed, reader, handed, turns>>

\* Nothing is left of the first in the queue.
PersistEnds ==
  /\ queue # <<>> /\ Head(queue) # Purge /\ Candidates = {}
  /\ queue' = Tail(queue)
  /\ UNCHANGED <<seclog, files, seen, archived, primed, reader, handed, lost, turns, faults>>

\* The timer's purgeArchivedEvents joins the queue.
AskPurge ==
  /\ ~Contains(queue, Purge)
  /\ \E d \in Days: d + Retention < Today /\ files[d] # EmptyFile
  /\ queue' = Append(queue, Purge)
  /\ UNCHANGED <<seclog, files, seen, archived, primed, reader, handed, lost, turns, faults>>

\* The files whose day ended before the retention began are deleted.
Retained(f) == [d \in Days |-> IF d + Retention < Today THEN EmptyFile ELSE f[d]]

PurgeFiles ==
  /\ queue # <<>> /\ Head(queue) = Purge
  /\ files' = Retained(files)
  /\ queue' = Tail(queue)
  /\ Losing({})
  /\ UNCHANGED <<seclog, seen, archived, primed, reader, handed, turns, faults>>

-----------------------------------------------------------------------------
(* Restarts. *)

\* Faulty variant: the archive's memory starts empty.
LoadedNone(f) == <<>>

\* loadArchivedEvents: the newest days first, and in each the newest lines first.
Loaded(f) ==
  LET upto[d \in 0 .. EventDay[Len(EventDay)]] ==
        IF d = 0 THEN <<>> ELSE Reverse(f[d].lines) \o upto[d - 1]
      ids == upto[EventDay[Len(EventDay)]]
  IN  SubSeq(ids, 1, IF Len(ids) < ArchivedLimit THEN Len(ids) ELSE ArchivedLimit)

\* A new process, in prepare: expired files go, the archive's memory is filled again,
\* the monitor's is empty.  The old process may have died in the middle of a write.
Restart ==
  /\ Fault
  /\ \/ files' = Retained(files)
     \/ Archiving /\ \E f \in Interrupted: files' = Retained(f)
  /\ archived' = Loaded(files')
  /\ seen' = <<>> /\ primed' = FALSE
  /\ reader' = NotReading /\ queue' = <<>>
  /\ Losing(UNION Range(queue) \ Purge)
  /\ UNCHANGED <<seclog, handed, turns>>

-----------------------------------------------------------------------------
Requests == LogRequest \/ TurnLog
Monitor == ReadCurrent \/ Prime \/ Primed \/ Poll
Archive == PersistDay \/ PersistEnds \/ PurgeFiles

ArchiveNext == Requests \/ Monitor \/ Archive \/ PersistFails \/ AskPurge \/ Restart

\* The event loop comes round to the first in the queue.
ArchiveFairness == WF_archiveVars(Archive)

ArchiveSpec == ArchiveInit /\ [][ArchiveNext]_archiveVars /\ ArchiveFairness

-----------------------------------------------------------------------------
\* However often the window is read, the log turns over, writes fail and the process
\* starts again, no event is in the archive twice.
ArchivedOnce ==
  \A d, c \in Days:
    /\ IsInjective(files[d].lines)
    /\ d # c => Range(files[d].lines) \cap Range(files[c].lines) = {}

\* No event is handed to the automatic responses twice, although the memory of those
\* handed over is bounded, filled newest first by the first run, and lost in a restart.
HandedOnce == \A e \in Event: handed[e] <= 1

\* What the monitor has seen and the policy keeps reaches the archive, time and again all
\* of it, if it is not in a write that failed, or that half a line before it spoils, or
\* in a file that is compacted or expires.
Outstanding == {e \in Range(seen) \ Minor : e \notin OnDisk(files) \cup lost}
ReachesArchive == []<>(Outstanding = {})
=============================================================================
