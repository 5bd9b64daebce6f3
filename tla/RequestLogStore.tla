--------------------------- MODULE RequestLogStore ---------------------------
(***************************************************************************)
(* The request log of request_log_store.go: the retained rows in memory, a   *)
(* snapshot file and a journal of numbered events behind it, the merging of  *)
(* local 429s of one backoff window into one row (observability.go), and the *)
(* parts of service.go that load, trim, flush and close the log.             *)
(*                                                                          *)
(* Service.mu is held from the change of the rows to the end of the flush,   *)
(* so an instance does one operation at a time; a flush is still several     *)
(* steps, because each file operation may fail and the process may be killed *)
(* between any two.  A line of the journal, and a row of a snapshot, counts  *)
(* as one byte; a partly written line is a torn tail.                        *)
(***************************************************************************)
EXTENDS Naturals, Sequences, SequencesExt

CONSTANTS
  Instances,     \* plugin instances loaded by the host, sharing the data_dir
  Windows,       \* backoffLogKey of the rows that may merge
  Nothing,       \* no key, and the entry of an event without a row
  Retentions,    \* log_retention settings
  Legacies,      \* contents a requests.json of an older version may have
  CompactEvents, \* the 1024 events after which the journal is compacted
  JournalLimit,  \* the 64 MiB at which it is compacted anyhow
  MaxSequence,   \* bound: changes of the log
  MaxFaults,     \* bound: failing file operations
  MaxKills       \* bound: kills of the process

\* A row: the request that opened it, its window, and its RequestCount.
Rows == [id : Nat, key : Windows \cup {Nothing}, count : Nat]

ASSUME RequestLogStoreAssumption ==
  /\ Nothing \notin Windows /\ Nothing \notin Rows
  /\ Retentions \subseteq Nat \ {0} /\ Retentions # {}
  /\ Legacies \subseteq Seq(Rows)
  /\ CompactEvents \in Nat \ {0} /\ JournalLimit \in Nat \ {0}
  /\ MaxSequence \in Nat /\ MaxFaults \in Nat /\ MaxKills \in Nat

VARIABLES
  snapshot, \* requests.snapshot.json (or requests.json, as sequence 0)
  synced,   \* the snapshot whose directory entry is known to be on disk
  journal,  \* the complete lines of requests.journal.jsonl
  torn,     \* is there a partly written line behind them?
  inst,     \* per instance: the rows and requestLogStore
  faults,   \* failures so far
  kills,    \* kills so far
  \* History variables, read by the properties only.
  saved,      \* the version of the log that the disk holds
  unsaved,    \* the later versions, oldest first
  onUnsynced  \* was an instance loaded from a snapshot not known to be synced?

logVars == <<snapshot, synced, journal, torn, inst, faults, kills,
            saved, unsaved, onUnsynced>>
disk == <<snapshot, synced, journal, torn, saved, onUnsynced>>
bounds == <<faults, kills>>

Events == [sequence : Nat, entry : Rows \cup {Nothing}, merged : BOOLEAN,
           retention : Retentions]

InstanceStatuses == {"unloaded", "running", "draining", "stopped"}

\* Where an instance is in flushRequestLogsLocked; "idle" is outside of it.
Steps == {"idle", "flush", "write", "check", "snapshot", "sync", "truncate"}

InstanceRecords ==
  [status : InstanceStatuses, step : Steps, logs : Seq(Rows), retention : Retentions,
   sequence : Nat, journalBytes : Nat, journalEvents : Nat,
   snapshotBytes : Nat, pending : Seq(Events), needsSnapshot : BOOLEAN,
   retryDue : BOOLEAN, timer : BOOLEAN]

Snapshots == [sequence : Nat, logs : Seq(Rows)]

LogTypeOK ==
  /\ snapshot \in Snapshots /\ synced \in Snapshots
  /\ journal \in Seq(Events) /\ torn \in BOOLEAN
  /\ inst \in [Instances -> InstanceRecords]
  /\ faults \in Nat /\ kills \in Nat
  /\ saved \in Seq(Rows) /\ unsaved \in Seq(Seq(Rows))
  /\ onUnsynced \in BOOLEAN

Loaded(i) == inst[i].status # "unloaded"
Idle(i) == Loaded(i) /\ inst[i].step = "idle"
Stopped(i) == inst[i].status \in {"draining", "stopped"}

-----------------------------------------------------------------------------
(* Rows: mergeBackoffLog, compactBackoffLogs and retention *)

Trim(logs, n) ==
  IF Len(logs) > n THEN SubSeq(logs, Len(logs) - n + 1, Len(logs)) ELSE logs

SameWindow(logs, row) ==
  {j \in DOMAIN logs : row.key # Nothing /\ logs[j].key = row.key}

\* (A faulty variant, for OneRowPerWindow: the old row stays.)
MergeKeepsOld(logs, row) ==
  IF SameWindow(logs, row) = {} THEN Append(logs, row)
  ELSE LET j == Max(SameWindow(logs, row)) IN
       Append(logs, [row EXCEPT !.id = logs[j].id, !.count = @ + logs[j].count])

\* A local 429 joins the newest row of its window, which moves to the end.
Merge(logs, row) ==
  IF SameWindow(logs, row) = {} THEN Append(logs, row)
  ELSE LET j == Max(SameWindow(logs, row)) IN
       Append(RemoveAt(logs, j),
              [row EXCEPT !.id = logs[j].id, !.count = @ + logs[j].count])

Compact(logs) ==
  LET out[n \in 0..Len(logs)] == IF n = 0 THEN <<>> ELSE Merge(out[n - 1], logs[n])
  IN out[Len(logs)]

-----------------------------------------------------------------------------
(* loadRequestLogsLocked *)

\* The entry of an event holds absolute values: a merged one replaces its row.
Applied(logs, event) ==
  LET target == SameWindow(logs, event.entry)
      rest == IF event.merged THEN RemoveAt(logs, Max(target)) ELSE logs
  IN Trim(IF event.entry = Nothing THEN logs ELSE Append(rest, event.entry),
          event.retention)

MergeTargetMissing(logs, event) ==
  /\ event.entry # Nothing /\ event.merged
  /\ SameWindow(logs, event.entry) = {}

Replay(state, event) ==
  LET known == event.sequence <= state.sequence
      seen == [state EXCEPT !.previous = event.sequence, !.bytes = @ + 1]
  IN CASE ~state.ok \/ event.sequence <= state.previous ->
            [state EXCEPT !.ok = FALSE]
       [] state.ok /\ event.sequence > state.previous /\ known -> seen
       [] OTHER ->
            IF event.sequence # state.sequence + 1
               \/ MergeTargetMissing(state.logs, event)
            THEN [state EXCEPT !.ok = FALSE]
            ELSE [seen EXCEPT !.sequence = event.sequence,
                              !.logs = Applied(state.logs, event),
                              !.events = @ + 1]

\* A torn tail is no line, so it is not read.
Start(base) ==
  [ok |-> TRUE, previous |-> 0, sequence |-> base.sequence,
   logs |-> IF base.sequence = 0 THEN Compact(base.logs) ELSE base.logs,
   bytes |-> 0, events |-> 0]

Load(base, lines) ==
  LET after[n \in 0..Len(lines)] ==
        IF n = 0 THEN Start(base) ELSE Replay(after[n - 1], lines[n])
  IN after[Len(lines)]

OnDisk == Load(snapshot, journal)

-----------------------------------------------------------------------------

LogInit ==
  /\ \E logs \in Legacies : snapshot = [sequence |-> 0, logs |-> logs]
  /\ synced = snapshot
  /\ journal = <<>> /\ torn = FALSE
  /\ inst = [i \in Instances |->
       [status |-> "unloaded", step |-> "idle", logs |-> <<>>,
        retention |-> CHOOSE n \in Retentions : TRUE,
        sequence |-> 0, journalBytes |-> 0, journalEvents |-> 0,
        snapshotBytes |-> 0, pending |-> <<>>, needsSnapshot |-> FALSE,
        retryDue |-> TRUE, timer |-> FALSE]]
  /\ faults = 0 /\ kills = 0
  /\ saved = OnDisk.logs /\ unsaved = <<>> /\ onUnsynced = FALSE

\* queueRequestLogLocked, and the entry of the flush that always follows.  While
\* a snapshot is owed no event is kept: the rows themselves are the state.
Queued(s, entry, merged) ==
  [s EXCEPT !.sequence = @ + 1,
            !.pending = IF s.needsSnapshot THEN @
                        ELSE Append(@, [sequence |-> s.sequence + 1,
                                        entry |-> entry, merged |-> merged,
                                        retention |-> s.retention]),
            !.step = "flush"]

\* scheduleObservationsLocked
Scheduled(s) ==
  [s EXCEPT !.timer = s.timer \/ s.status \notin {"draining", "stopped"}]

\* The tail of configure: rows above the retention go, and an event says so.
Trimmed(s) ==
  IF Len(s.logs) > s.retention
  THEN Queued([s EXCEPT !.logs = Trim(@, s.retention)], Nothing, FALSE)
  ELSE s

\* (A faulty variant, for Durable: a stopped instance revives its old rows.)
RegisterRevived(i, n) ==
  LET loaded == OnDisk
      fresh == [inst[i] EXCEPT
        !.status = "running", !.step = "idle", !.retention = n,
        !.logs = IF inst[i].status = "stopped" THEN @ ELSE loaded.logs,
        !.sequence = loaded.sequence,
        !.journalBytes = loaded.bytes, !.journalEvents = loaded.events,
        !.snapshotBytes = Len(snapshot.logs), !.pending = <<>>,
        !.needsSnapshot = FALSE, !.retryDue = TRUE]
  IN
  /\ \A j \in Instances :
       inst[j].status \in {"unloaded", "stopped"} /\ inst[j].step = "idle"
  /\ loaded.ok /\ loaded.sequence < MaxSequence
  /\ inst' = [inst EXCEPT ![i] = Trimmed(fresh)]
  /\ unsaved' = IF Trimmed(fresh) = fresh THEN <<>> ELSE <<Trimmed(fresh).logs>>
  /\ onUnsynced' = (synced # snapshot)
  /\ UNCHANGED <<snapshot, synced, journal, torn, saved, bounds>>

\* Registration of an unloaded or a stopped instance.  The host has quiesced
\* the instance that ran before, and the call has returned.
Register(i, n) ==
  LET loaded == OnDisk
      fresh == [inst[i] EXCEPT
        !.status = "running", !.step = "idle", !.retention = n,
        !.logs = Compact(loaded.logs), !.sequence = loaded.sequence,
        !.journalBytes = loaded.bytes, !.journalEvents = loaded.events,
        !.snapshotBytes = Len(snapshot.logs), !.pending = <<>>,
        !.needsSnapshot = FALSE, !.retryDue = TRUE]
  IN
  /\ \A j \in Instances :
       inst[j].status \in {"unloaded", "stopped"} /\ inst[j].step = "idle"
  /\ loaded.ok /\ loaded.sequence < MaxSequence
  /\ inst' = [inst EXCEPT ![i] = Trimmed(fresh)]
  /\ unsaved' = IF Trimmed(fresh) = fresh THEN <<>> ELSE <<Trimmed(fresh).logs>>
  /\ onUnsynced' = (synced # snapshot)
  /\ UNCHANGED <<snapshot, synced, journal, torn, saved, bounds>>

\* Registration of the running instance: only the settings change.
Reconfigure(i, n) ==
  LET s == [inst[i] EXCEPT !.retention = n] IN
  /\ Idle(i) /\ inst[i].status = "running" /\ inst[i].sequence < MaxSequence
  /\ inst' = [inst EXCEPT ![i] = Trimmed(s)]
  /\ unsaved' = IF Trimmed(s) = s THEN unsaved
                ELSE Append(unsaved, Trimmed(s).logs)
  /\ UNCHANGED <<disk, bounds>>

\* PUT /config: the next completed request applies the new retention.
PutConfig(i, n) ==
  /\ Idle(i) /\ inst[i].status = "running"
  /\ inst' = [inst EXCEPT ![i].retention = n]
  /\ UNCHANGED <<disk, bounds, unsaved>>

\* appendLog: a request completed, or was refused locally with a key.
AppendLog(i, key) ==
  LET s == inst[i]
      row == [id |-> s.sequence + 1, key |-> key, count |-> 1]
      merged == SameWindow(s.logs, row) # {}
      rows == Trim(Merge(s.logs, row), s.retention)
      queued == Queued([s EXCEPT !.logs = rows], Last(rows), merged)
  IN
  /\ Idle(i) /\ s.status \in {"running", "draining"} /\ s.sequence < MaxSequence
  /\ inst' = [inst EXCEPT ![i] = IF merged THEN Scheduled(queued) ELSE queued]
  /\ unsaved' = Append(unsaved, rows)
  /\ UNCHANGED <<disk, bounds>>

-----------------------------------------------------------------------------
(* flushRequestLogsLocked *)

\* The newest change that the files hold.
SavedSequence ==
  IF journal = <<>> THEN snapshot.sequence
  ELSE Max({snapshot.sequence, Last(journal).sequence})

\* Each version is one change: the disk holds the one that its newest change
\* made.  (A quiesced instance may take the disk back to an older change.)
DiskMoved ==
  LET n == SavedSequence' - SavedSequence IN
  IF SavedSequence' > SavedSequence /\ n <= Len(unsaved)
  THEN saved' = unsaved[n] /\ unsaved' = SubSeq(unsaved, n + 1, Len(unsaved))
  ELSE UNCHANGED <<saved, unsaved>>

\* (A faulty variant, for StorageRecovers: nothing is scheduled.)
PostponeSilently(i) ==
  /\ inst[i].step = "flush"
  /\ inst[i].needsSnapshot /\ ~Stopped(i) /\ ~inst[i].retryDue
  /\ inst' = [inst EXCEPT ![i].step = "idle"]
  /\ UNCHANGED <<disk, bounds, unsaved>>

\* Storage failed within the last 2 seconds: leave it alone until the timer.
Postpone(i) ==
  /\ inst[i].step = "flush"
  /\ inst[i].needsSnapshot /\ ~Stopped(i) /\ ~inst[i].retryDue
  /\ inst' = [inst EXCEPT ![i] = Scheduled([@ EXCEPT !.step = "idle"])]
  /\ UNCHANGED <<disk, bounds, unsaved>>

\* Snapshot if one is owed, else the journal; with nothing pending, neither.
ChooseWriter(i) ==
  LET s == inst[i] IN
  /\ s.step = "flush"
  /\ s.needsSnapshot => Stopped(i) \/ s.retryDue
  /\ inst' = [inst EXCEPT ![i].step =
       IF s.needsSnapshot THEN "snapshot"
       ELSE IF s.pending # <<>> THEN "write" ELSE "check"]
  /\ UNCHANGED <<disk, bounds, unsaved>>

\* (A faulty variant, for AcknowledgedIsDurable: the event is just dropped.)
FailedAndForgot(s) ==
  Scheduled([s EXCEPT !.step = "idle", !.pending = <<>>, !.retryDue = FALSE])

\* Whatever failed, the rows in memory become the state to be saved.
Failed(s) ==
  Scheduled([s EXCEPT !.step = "idle", !.pending = <<>>,
                      !.needsSnapshot = TRUE, !.retryDue = FALSE])

FileError(i) ==
  /\ faults < MaxFaults /\ faults' = faults + 1
  /\ inst' = [inst EXCEPT ![i] = Failed(@)]
  /\ UNCHANGED kills

\* What is left once the bytes of failed appends are cut off.
Written(i) == SubSeq(journal, 1, inst[i].journalBytes)

WriteJournal(i) ==
  LET s == inst[i] IN
  /\ s.step = "write"
  /\ Len(journal) >= s.journalBytes
  /\ journal' = Written(i) \o s.pending
  /\ torn' = FALSE
  /\ inst' = [inst EXCEPT ![i] =
       [s EXCEPT !.step = "check", !.pending = <<>>,
                 !.journalBytes = s.journalBytes + Len(s.pending),
                 !.journalEvents = s.journalEvents + Len(s.pending)]]
  /\ UNCHANGED <<snapshot, synced, onUnsynced, bounds>>
  /\ DiskMoved

\* The append fails before, in the middle of, or after a line; or it is refused,
\* since a file shorter than what was written has been changed by someone else.
WriteJournalFails(i) ==
  /\ inst[i].step = "write"
  /\ \/ /\ Len(journal) < inst[i].journalBytes
        /\ inst' = [inst EXCEPT ![i] = Failed(@)]
        /\ UNCHANGED <<disk, bounds, unsaved>>
     \/ /\ Len(journal) >= inst[i].journalBytes
        /\ \/ UNCHANGED <<journal, torn>>
           \/ \E n \in 0..Len(inst[i].pending) :
                /\ journal' = Written(i) \o SubSeq(inst[i].pending, 1, n)
                /\ torn' \in {FALSE, n < Len(inst[i].pending)}
        /\ FileError(i)
        /\ UNCHANGED <<snapshot, synced, onUnsynced>>
        /\ DiskMoved

Full(s) ==
  \/ s.journalBytes >= JournalLimit
  \/ s.journalEvents >= CompactEvents /\ s.journalBytes >= s.snapshotBytes

Succeeded(s) == [s EXCEPT !.step = "idle", !.retryDue = TRUE]

Check(i) ==
  /\ inst[i].step = "check"
  /\ inst' = [inst EXCEPT ![i] =
       IF Full(@) THEN [@ EXCEPT !.step = "snapshot"] ELSE Succeeded(@)]
  /\ UNCHANGED <<disk, bounds, unsaved>>

\* (A faulty variant, for RestartReadsLog: the directory is not synced first.)
WriteSnapshotUnsynced(i) ==
  /\ inst[i].step = "snapshot"
  /\ snapshot' = [sequence |-> inst[i].sequence, logs |-> inst[i].logs]
  /\ inst' = [inst EXCEPT ![i].step = "truncate"]
  /\ UNCHANGED <<synced, journal, torn, onUnsynced, bounds>>
  /\ DiskMoved

\* compactRequestLogsLocked: a temporary file, fsync, rename; then the
\* directory; only then the journal goes.
WriteSnapshot(i) ==
  /\ inst[i].step = "snapshot"
  /\ snapshot' = [sequence |-> inst[i].sequence, logs |-> inst[i].logs]
  /\ inst' = [inst EXCEPT ![i].step = "sync"]
  /\ UNCHANGED <<synced, journal, torn, onUnsynced, bounds>>
  /\ DiskMoved

SyncDirectory(i) ==
  /\ inst[i].step = "sync"
  /\ synced' = snapshot /\ onUnsynced' = FALSE
  /\ inst' = [inst EXCEPT ![i].step = "truncate"]
  /\ UNCHANGED <<snapshot, journal, torn, bounds, saved, unsaved>>

SnapshotFails(i) ==
  /\ inst[i].step \in {"snapshot", "sync", "truncate"}
  /\ FileError(i)
  /\ UNCHANGED <<disk, unsaved>>

\* (A faulty variant, for LogTypeOK: the counters are taken back, not cleared.)
TruncateJournalCounting(i) ==
  /\ inst[i].step = "truncate"
  /\ journal' = <<>> /\ torn' = FALSE
  /\ inst' = [inst EXCEPT ![i] =
       Succeeded([@ EXCEPT !.journalBytes = @ - Len(journal),
                           !.journalEvents = @ - Len(journal),
                           !.snapshotBytes = Len(snapshot.logs),
                           !.pending = <<>>, !.needsSnapshot = FALSE])]
  /\ UNCHANGED <<snapshot, synced, onUnsynced, bounds>>
  /\ DiskMoved

TruncateJournal(i) ==
  /\ inst[i].step = "truncate"
  /\ journal' = <<>> /\ torn' = FALSE
  /\ inst' = [inst EXCEPT ![i] =
       Succeeded([@ EXCEPT !.journalBytes = 0, !.journalEvents = 0,
                           !.snapshotBytes = Len(inst[i].logs),
                           !.pending = <<>>, !.needsSnapshot = FALSE])]
  /\ UNCHANGED <<snapshot, synced, onUnsynced, bounds>>
  /\ DiskMoved

\* The journal is empty already when closing it fails.
TruncateJournalFails(i) ==
  /\ inst[i].step = "truncate"
  /\ journal' = <<>> /\ torn' = FALSE
  /\ FileError(i)
  /\ UNCHANGED <<snapshot, synced, onUnsynced>>
  /\ DiskMoved

-----------------------------------------------------------------------------
(* Timer, shutdown, kill *)

\* Two seconds after the failure.
RetryDue(i) ==
  /\ Loaded(i) /\ ~inst[i].retryDue
  /\ inst' = [inst EXCEPT ![i].retryDue = TRUE]
  /\ UNCHANGED <<disk, bounds, unsaved>>

\* The callback of observationTimer: flushObservationsLocked unless stopped.
TimerFires(i) ==
  /\ Idle(i) /\ inst[i].timer
  /\ inst' = [inst EXCEPT ![i] =
       [@ EXCEPT !.timer = FALSE, !.step = IF Stopped(i) THEN "idle" ELSE "flush"]]
  /\ UNCHANGED <<disk, bounds, unsaved>>

\* plugin.quiesce or plugin.shutdown, up to active.Wait: requests still finish.
Stop(i) ==
  /\ Idle(i) /\ inst[i].status = "running"
  /\ inst' = [inst EXCEPT ![i].status = "draining"]
  /\ UNCHANGED <<disk, bounds, unsaved>>

\* After active.Wait: the timer is stopped and one last flush is made.  A
\* shutdown that follows a quiesce makes it once more.
FinalFlush(i) ==
  /\ Idle(i) /\ Stopped(i)
  /\ inst' = [inst EXCEPT ![i] =
       [@ EXCEPT !.status = "stopped", !.timer = FALSE, !.step = "flush"]]
  /\ UNCHANGED <<disk, bounds, unsaved>>

\* The process is killed: the memory of every instance is gone.
Kill ==
  /\ kills < MaxKills /\ kills' = kills + 1
  /\ \E i \in Instances : Loaded(i)
  /\ inst' = [i \in Instances |->
       [inst[i] EXCEPT !.status = "unloaded", !.step = "idle", !.timer = FALSE]]
  /\ unsaved' = <<>>
  /\ UNCHANGED <<disk, faults>>

FlushStep(i) ==
  \/ Postpone(i) \/ ChooseWriter(i)
  \/ WriteJournal(i) \/ WriteJournalFails(i)
  \/ Check(i)
  \/ WriteSnapshot(i) \/ SyncDirectory(i) \/ SnapshotFails(i)
  \/ TruncateJournal(i) \/ TruncateJournalFails(i)

LogNext ==
  \/ \E i \in Instances :
       \/ \E n \in Retentions : Register(i, n) \/ Reconfigure(i, n) \/ PutConfig(i, n)
       \/ \E key \in Windows \cup {Nothing} : AppendLog(i, key)
       \/ FlushStep(i)
       \/ RetryDue(i) \/ TimerFires(i)
       \/ Stop(i) \/ FinalFlush(i)
  \/ Kill

LogSpec == LogInit /\ [][LogNext]_logVars

\* A flush is straight-line code, the delay passes and the timer fires.
LogFairSpec ==
  /\ LogSpec
  /\ \A i \in Instances :
       WF_logVars(FlushStep(i)) /\ WF_logVars(RetryDue(i)) /\ WF_logVars(TimerFires(i))

-----------------------------------------------------------------------------
(* Properties *)

\* After a kill, or a loss of power that undoes an unsynced rename or the
\* unsynced end of the journal, the next start reads the log without an error
\* (no sequence gap, no missing merge target) and loses nothing that a synced
\* snapshot held: request_log_store.go:246, "must reach disk before deleting".
\* Excepted is an instance that was itself loaded from a snapshot whose rename
\* nobody synced, since what it appends continues that snapshot.
PowerLossLoads ==
  ~onUnsynced =>
  \A base \in {synced, snapshot}, n \in 0..Len(journal) :
    LET loaded == Load(base, SubSeq(journal, 1, n)) IN
    loaded.ok /\ loaded.sequence >= synced.sequence

\* Whenever the process may be killed, the next start reads exactly the version
\* of the log that the newest change on disk had made: replay adds no count
\* twice, brings no evicted row back and skips no change.
RestartShowsVersion == OnDisk.ok /\ OnDisk.logs = saved

\* After a kill or a loss of power the next start reads the log it should.
RestartReadsLog == PowerLossLoads /\ RestartShowsVersion

\* When a flush has returned without an error the disk holds every row that the
\* management page shows: "every completion writes its own line before returning".
AcknowledgedIsDurable ==
  \A i \in Instances :
    Idle(i) /\ ~inst[i].needsSnapshot => unsaved = <<>> /\ saved = inst[i].logs

\* Local 429s of one backoff window never take two rows, in memory or on disk,
\* through merges, eviction, replay and retention changes.
OneRowEach(logs) ==
  \A j, k \in DOMAIN logs : logs[j].key # Nothing /\ logs[j].key = logs[k].key => j = k

OneRowPerWindow ==
  \A logs \in {saved} \cup {inst[i].logs : i \in Instances} : OneRowEach(logs)

\* Storage that works again is used again: an owed snapshot is written without
\* any further request, unless the instance is stopped or killed first.
StorageRecovers ==
  \A i \in Instances :
    inst[i].needsSnapshot /\ inst[i].status = "running"
      ~> ~inst[i].needsSnapshot \/ inst[i].status # "running"

\* The store implements DurableLog: see there.
TheInstance == CHOOSE i \in Instances : TRUE

Abstract == INSTANCE DurableLog WITH
  log <- IF Loaded(TheInstance) THEN inst[TheInstance].logs ELSE saved

Durable == Abstract!Spec

\* observability.go:168: "an older snapshot can never overwrite a newer one".
SnapshotsMoveForward == [][snapshot'.sequence >= snapshot.sequence]_logVars

=============================================================================
