------------------------------ MODULE Statistics ------------------------------
(***************************************************************************)
(* The request counters of statistics.go: minute counts in one file per    *)
(* day, a metadata file that names the generation of day files in force,   *)
(* their bootstrap from the request log, the migration of the average      *)
(* rates (statistics_migration.go), the reset, and the flushes that        *)
(* observability.go and service.go make.                                   *)
(*                                                                         *)
(* Service.mu is held over each operation, so an instance does one at a    *)
(* time; each file is written by a rename of its own, may fail, and the    *)
(* process may be killed between any two.  Instances share the files: the  *)
(* host registers a replacement once the running one is quiesced.          *)
(*                                                                         *)
(* Data: a request is a number; a day has one minute, whose totals are     *)
(* which requests they count, how often, and whose rates they sum.         *)
(***************************************************************************)
EXTENDS Naturals, FiniteSets

CONSTANTS
  Instances,   \* plugin instances on one data_dir
  Days,
  OldRequests, \* requests of before the first start, numbered from 1
  OldDay,      \* their days
  Qualified,   \* requests whose rate meets the cutoff (averageOutputRateSample)
  Upgrades,    \* may the files be those of a version without the cutoff?
  MaxRequest, MaxFaults, MaxKills, MaxResets, \* bounds
  None

Requests == 1..MaxRequest
Generations == 1..(Cardinality(Instances) + 2)
Counts == [Requests -> Nat]
Totals == [counts : Counts, rated : SUBSET Requests]

\* before stands for Since: the requests that completed before it.
Metas == [generation : Generations, cutoff : BOOLEAN, partial : BOOLEAN,
          before : SUBSET Requests]

ASSUME StatisticsAssumption ==
  /\ IsFiniteSet(Instances) /\ Instances # {} /\ None \notin Instances
  /\ None \notin Metas
  /\ MaxRequest \in Nat /\ OldRequests \subseteq Requests
  /\ OldDay \in [OldRequests -> Days] /\ Qualified \subseteq Requests
  /\ Upgrades \subseteq BOOLEAN
  /\ {MaxFaults, MaxKills, MaxResets} \subseteq Nat

VARIABLES
  meta,     \* statistics.json, or None
  files,    \* statistics/<generation>/<day>.json
  logs,     \* the rows the request log retains when the statistics are first loaded
  inst,     \* per instance: statisticsState and where it is in an operation
  finished, \* requests that have finished
  faults, kills, resets,
  \* History variables, read by the properties only.
  owner,     \* the instance registered last, or None
  overtaken, \* days another instance wrote since the owner last did
  promised   \* requests that the files count, or the bootstrap owes them

vars == <<meta, files, logs, inst, finished, faults, kills, resets,
          owner, overtaken, promised>>
bounds == <<faults, kills, resets>>
history == <<owner, overtaken, promised>>

\* What an operation flushes the days for.
Purposes == {"observe", "final", "bootstrap", "migrate", "reset"}

InstanceRecords ==
  [status : {"unloaded", "running", "draining", "stopped"},
   step : {"idle", "days", "meta"}, for : Purposes,
   meta : Metas, days : [Days -> Totals], dirty : SUBSET Days, timer : BOOLEAN]

NewMeta(g, before) ==
  [generation |-> g, cutoff |-> TRUE, partial |-> FALSE, before |-> before]
NoCounts == [r \in Requests |-> 0]
NoTotals == [counts |-> NoCounts, rated |-> {}]
NoDays == [d \in Days |-> NoTotals]
Unloaded == [status |-> "unloaded", step |-> "idle", for |-> "observe",
             meta |-> NewMeta(1, {}),
             days |-> NoDays, dirty |-> {}, timer |-> FALSE]

TypeOK ==
  /\ meta \in Metas \cup {None}
  /\ files \in [Generations -> [Days -> Totals]]
  /\ logs \subseteq OldRequests
  /\ inst \in [Instances -> InstanceRecords]
  /\ finished \subseteq Requests
  /\ faults \in Nat /\ kills \in Nat /\ resets \in Nat
  /\ owner \in Instances \cup {None} /\ overtaken \subseteq Days
  /\ promised \subseteq Requests

Counted(totals) == {r \in Requests : totals.counts[r] > 0}
CountedIn(days) == UNION {Counted(days[d]) : d \in Days}

\* addStatisticsEntryLocked: one more request in a bucket.
Added(totals, r) ==
  [counts |-> [totals.counts EXCEPT ![r] = @ + 1],
   rated |-> totals.rated \cup ({r} \cap Qualified)]

\* The buckets of a set of log rows.
FromLogs(rows, d) ==
  LET here == {r \in rows : OldDay[r] = d}
  IN [counts |-> [r \in Requests |-> IF r \in here THEN 1 ELSE 0],
      rated |-> here \cap Qualified]

\* Files as an older version left them: every rate is in the sums.
OldDays(rows) ==
  [d \in Days |-> [FromLogs(rows, d) EXCEPT !.rated = {r \in rows : OldDay[r] = d}]]

\* Nothing has been counted yet, or a version without the cutoff has counted
\* what finished since its last reset.
Init ==
  /\ logs \in SUBSET OldRequests
  /\ \/ /\ FALSE \in Upgrades
        /\ meta = None /\ files = [g \in Generations |-> NoDays]
        /\ promised = {}
     \/ /\ TRUE \in Upgrades
        /\ promised \in SUBSET OldRequests
        /\ meta = [NewMeta(1, OldRequests \ promised) EXCEPT !.cutoff = FALSE]
        /\ files = [g \in Generations |-> IF g = 1 THEN OldDays(promised) ELSE NoDays]
  /\ inst = [i \in Instances |-> Unloaded]
  /\ finished = OldRequests
  /\ faults = 0 /\ kills = 0 /\ resets = 0
  /\ owner = None /\ overtaken = {}

Idle(i) == inst[i].status # "unloaded" /\ inst[i].step = "idle"
Running(i) == inst[i].status = "running"

\* id(): a generation no instance and no metadata names, with no files yet.
Fresh ==
  CHOOSE g \in Generations :
    /\ meta # None => g # meta.generation
    /\ \A i \in Instances : inst[i].status # "unloaded" => g # inst[i].meta.generation

-----------------------------------------------------------------------------
(* loadStatisticsLocked *)

\* The host registers an instance when no other is at work: a new one, or the
\* quiesced one whose replacement failed, which keeps nothing of its memory.
MayRegister(i) ==
  /\ inst[i].status \in {"unloaded", "stopped"} /\ inst[i].step = "idle"
  /\ \A j \in Instances \ {i} : inst[j].status \in {"unloaded", "stopped"}

Registered(i, m, days) ==
  [Unloaded EXCEPT !.status = "running", !.meta = m, !.days = days]

\* (A faulty variant, for CountedOnce: the files are added to the memory of the
\* quiesced instance.)
LoadOntoMemory(i) ==
  /\ MayRegister(i) /\ meta # None /\ meta.cutoff
  /\ LET sum(d) == [counts |-> [r \in Requests |-> files[meta.generation][d].counts[r]
                                                   + inst[i].days[d].counts[r]],
                    rated |-> files[meta.generation][d].rated \cup inst[i].days[d].rated]
     IN inst' = [inst EXCEPT ![i] = Registered(i, meta, [d \in Days |-> sum(d)])]
  /\ owner' = i /\ overtaken' = {}
  /\ UNCHANGED <<meta, files, logs, finished, bounds, promised>>

Load(i) ==
  /\ MayRegister(i) /\ meta # None /\ meta.cutoff
  /\ inst' = [inst EXCEPT ![i] = Registered(i, meta, files[meta.generation])]
  /\ owner' = i /\ overtaken' = {}
  /\ UNCHANGED <<meta, files, logs, finished, bounds, promised>>

\* (A faulty variant, for DiskKeepsItsPromise: the metadata is written first.)
BootstrapMetaFirst(i) ==
  /\ MayRegister(i) /\ meta = None
  /\ inst' = [inst EXCEPT ![i] =
       [Registered(i, NewMeta(Fresh, {}), [d \in Days |-> FromLogs(logs, d)])
         EXCEPT !.step = "meta", !.for = "bootstrap", !.dirty = {OldDay[r] : r \in logs}]]
  /\ files' = [files EXCEPT ![Fresh] = NoDays]
  /\ owner' = i /\ overtaken' = {}
  /\ UNCHANGED <<meta, logs, finished, bounds, promised>>

\* The first start of all counts the rows of the log, in a generation that only
\* the metadata written last will name.
Bootstrap(i) ==
  /\ MayRegister(i) /\ meta = None
  /\ inst' = [inst EXCEPT ![i] =
       [Registered(i, NewMeta(Fresh, {}), [d \in Days |-> FromLogs(logs, d)])
         EXCEPT !.step = "days", !.for = "bootstrap", !.dirty = {OldDay[r] : r \in logs}]]
  /\ files' = [files EXCEPT ![Fresh] = NoDays]
  /\ owner' = i /\ overtaken' = {}
  /\ UNCHANGED <<meta, logs, finished, bounds, promised>>

\* Buckets whose whole traffic is still in the log get their rates from there;
\* the others lose theirs.
Complete(d) ==
  Counted(files[meta.generation][d]) = {r \in logs \ meta.before : OldDay[r] = d}

\* (A faulty variant, for RatesMeetCutoff: a bucket without detail keeps its rates.)
MigratedOrKept(d) ==
  [files[meta.generation][d] EXCEPT !.rated = IF Complete(d) THEN @ \cap Qualified ELSE @]

Migrated(d) ==
  [files[meta.generation][d] EXCEPT !.rated =
     IF Complete(d) THEN Counted(files[meta.generation][d]) \cap Qualified ELSE {}]

\* migrateAverageRatesLocked
Migrate(i) ==
  /\ MayRegister(i) /\ meta # None /\ ~meta.cutoff
  /\ LET kept == files[meta.generation]
         gap == \E d \in Days : ~Complete(d) /\ kept[d].rated # {}
         m == [meta EXCEPT !.cutoff = TRUE, !.partial = @ \/ gap]
     IN inst' = [inst EXCEPT ![i] =
          [Registered(i, m, [d \in Days |-> Migrated(d)])
            EXCEPT !.step = "days", !.for = "migrate",
                   !.dirty = {d \in Days : Counted(kept[d]) # {}}]]
  /\ owner' = i /\ overtaken' = {}
  /\ UNCHANGED <<meta, files, logs, finished, bounds, promised>>

-----------------------------------------------------------------------------
(* appendLog *)

\* A request finishes while the service runs or drains.  Its row is one of its
\* own and everything is flushed, or it joins the row of its backoff window and
\* only the timer is set (scheduleObservationsLocked).
Append(i, d) ==
  /\ Idle(i) /\ inst[i].status \in {"running", "draining"}
  /\ Requests \ finished # {}
  /\ LET r == CHOOSE r \in Requests \ finished : TRUE
         s == [inst[i] EXCEPT !.days[d] = Added(@, r), !.dirty = @ \cup {d}]
     IN /\ finished' = finished \cup {r}
        /\ \E merged \in BOOLEAN :
             inst' = [inst EXCEPT ![i] =
               IF merged THEN [s EXCEPT !.timer = @ \/ Running(i)]
                         ELSE [s EXCEPT !.step = "days", !.for = "observe"]]
  /\ UNCHANGED <<meta, files, logs, bounds, history>>

-----------------------------------------------------------------------------
(* flushStatisticsLocked and what follows it *)

\* What the history variables make of a day file written by i.
FileWritten(i, d) ==
  LET g == inst[i].meta.generation
      lost == Counted(files[g][d]) \ Counted(inst[i].days[d])
  IN IF meta = None \/ meta.generation # g THEN UNCHANGED <<overtaken, promised>>
     ELSE IF i = owner
     THEN overtaken' = overtaken \ {d} /\ promised' = promised \cup Counted(inst[i].days[d])
     ELSE overtaken' = overtaken \cup {d} /\ promised' = promised \ lost

WriteDay(i, d) ==
  /\ inst[i].step = "days" /\ d \in inst[i].dirty
  /\ files' = [files EXCEPT ![inst[i].meta.generation][d] = inst[i].days[d]]
  /\ inst' = [inst EXCEPT ![i].dirty = @ \ {d}]
  /\ FileWritten(i, d)
  /\ UNCHANGED <<meta, logs, finished, bounds, owner>>

DaysWritten(i) ==
  /\ inst[i].step = "days" /\ inst[i].dirty = {}
  /\ inst' = [inst EXCEPT ![i] =
       CASE @.for = "observe" -> [@ EXCEPT !.step = "idle"]
         [] @.for = "final" -> [@ EXCEPT !.step = "idle", !.status = "stopped"]
         [] OTHER -> [@ EXCEPT !.step = "meta"]]
  /\ UNCHANGED <<meta, files, logs, finished, bounds, history>>

Fault == faults < MaxFaults /\ faults' = faults + 1

\* (A faulty variant, for DirtyDaysDrain: only a failed log write sets the timer.)
WriteDayFailsQuietly(i) ==
  /\ inst[i].step = "days" /\ inst[i].dirty # {} /\ Fault
  /\ inst' = [inst EXCEPT ![i] =
       CASE @.for = "observe" -> [@ EXCEPT !.step = "idle"]
         [] @.for = "final" -> [@ EXCEPT !.step = "idle", !.status = "stopped"]
         [] @.for = "reset" -> [@ EXCEPT !.step = "idle"]
         [] OTHER -> Unloaded]
  /\ UNCHANGED <<meta, files, logs, finished, kills, resets, history>>

\* The days that are left stay dirty.  A registration is refused.
WriteDayFails(i) ==
  /\ inst[i].step = "days" /\ inst[i].dirty # {} /\ Fault
  /\ inst' = [inst EXCEPT ![i] =
       CASE @.for = "observe" -> [@ EXCEPT !.step = "idle", !.timer = inst[i].timer \/ Running(i)]
         [] @.for = "final" -> [@ EXCEPT !.step = "idle", !.status = "stopped"]
         [] @.for = "reset" -> [@ EXCEPT !.step = "idle"]
         [] OTHER -> Unloaded]
  /\ UNCHANGED <<meta, files, logs, finished, kills, resets, history>>

\* The callback of observationTimer.
TimerFires(i) ==
  /\ Idle(i) /\ inst[i].timer
  /\ inst' = [inst EXCEPT ![i] =
       IF Running(i) THEN [@ EXCEPT !.timer = FALSE, !.step = "days", !.for = "observe"]
                     ELSE [@ EXCEPT !.timer = FALSE]]
  /\ UNCHANGED <<meta, files, logs, finished, bounds, history>>

\* plugin.quiesce, up to active.Wait.
Quiesce(i) ==
  /\ Idle(i) /\ Running(i)
  /\ inst' = [inst EXCEPT ![i].status = "draining"]
  /\ UNCHANGED <<meta, files, logs, finished, bounds, history>>

\* The rest of it, and once more at the plugin.shutdown that may follow.
FinalFlush(i) ==
  /\ Idle(i) /\ inst[i].status \in {"draining", "stopped"}
  /\ inst' = [inst EXCEPT ![i] = [@ EXCEPT !.timer = FALSE, !.step = "days", !.for = "final"]]
  /\ UNCHANGED <<meta, files, logs, finished, bounds, history>>

-----------------------------------------------------------------------------
(* The metadata *)

\* The bootstrap and the migration end with it, when every day is on disk.
WriteMeta(i) ==
  /\ inst[i].step = "meta" /\ inst[i].for \in {"bootstrap", "migrate"}
  /\ meta' = inst[i].meta
  /\ inst' = [inst EXCEPT ![i].step = "idle"]
  /\ promised' = IF inst[i].for = "bootstrap" THEN logs ELSE promised
  /\ UNCHANGED <<files, logs, finished, bounds, owner, overtaken>>

\* resetStatistics: everything is flushed first, then a new generation named.
Reset(i) ==
  /\ Idle(i) /\ Running(i) /\ resets < MaxResets
  /\ inst' = [inst EXCEPT ![i] = [@ EXCEPT !.step = "days", !.for = "reset"]]
  /\ resets' = resets + 1
  /\ UNCHANGED <<meta, files, logs, finished, faults, kills, history>>

\* (A faulty variant, for ResetIsABoundary: only the memory and Since are new.)
SwitchSinceOnly(i) ==
  /\ inst[i].step = "meta" /\ inst[i].for = "reset"
  /\ meta' = NewMeta(inst[i].meta.generation, finished)
  /\ inst' = [inst EXCEPT ![i] = Registered(i, meta', NoDays)]
  /\ promised' = {} /\ overtaken' = {}
  /\ UNCHANGED <<files, logs, finished, bounds, owner>>

SwitchGeneration(i) ==
  /\ inst[i].step = "meta" /\ inst[i].for = "reset"
  /\ meta' = NewMeta(Fresh, finished)
  /\ files' = [files EXCEPT ![Fresh] = NoDays]
  /\ inst' = [inst EXCEPT ![i] = [Registered(i, meta', NoDays) EXCEPT !.timer = inst[i].timer]]
  /\ promised' = {} /\ overtaken' = {}
  /\ UNCHANGED <<logs, finished, bounds, owner>>

WriteMetaFails(i) ==
  /\ inst[i].step = "meta" /\ Fault
  /\ inst' = [inst EXCEPT ![i] =
       IF @.for = "reset" THEN [@ EXCEPT !.step = "idle"] ELSE Unloaded]
  /\ UNCHANGED <<meta, files, logs, finished, kills, resets, history>>

-----------------------------------------------------------------------------
\* The process is killed: the memory of every instance is gone.
Kill ==
  /\ kills < MaxKills /\ kills' = kills + 1
  /\ \E i \in Instances : inst[i].status # "unloaded"
  /\ inst' = [i \in Instances |-> Unloaded]
  /\ UNCHANGED <<meta, files, logs, finished, faults, resets, history>>

Register(i) == Load(i) \/ Bootstrap(i) \/ Migrate(i)

FlushStep(i) ==
  \/ \E d \in Days : WriteDay(i, d)
  \/ DaysWritten(i) \/ WriteDayFails(i)
  \/ WriteMeta(i) \/ SwitchGeneration(i) \/ WriteMetaFails(i)

Next ==
  \/ \E i \in Instances :
       \/ Register(i) \/ FlushStep(i) \/ TimerFires(i)
       \/ \E d \in Days : Append(i, d)
       \/ Quiesce(i) \/ FinalFlush(i) \/ Reset(i)
  \/ Kill

Spec == Init /\ [][Next]_vars

\* An operation is straight-line code and the timer fires.
FairSpec ==
  Spec /\ \A i \in Instances : WF_vars(FlushStep(i)) /\ WF_vars(TimerFires(i))

-----------------------------------------------------------------------------
(* Properties *)

\* A request is never counted twice, by the running instance or by what the next
\* start reads: not through a bootstrap that was cut short, not through a day
\* that could not be written, not through a quiesced instance that comes back.
CountedOnce ==
  LET Once(days) == \A r \in Requests :
        /\ \A d \in Days : days[d].counts[r] <= 1
        /\ \A d, e \in Days : days[d].counts[r] > 0 /\ days[e].counts[r] > 0 => d = e
  IN /\ meta # None => Once(files[meta.generation])
     /\ \A i \in Instances : Once(inst[i].days)

\* What the files have counted stays counted, and the rows the bootstrap found
\* are among it, through kills and failures at any step, until a reset.  Excepted
\* are days that an instance quiesced earlier writes over its replacement's
\* (service.go:266-272, at plugin.shutdown).
SavedCountsSurvive ==
  meta # None => promised \subseteq CountedIn(files[meta.generation])

\* Of the instance registered last, the days not on the dirty list are on disk
\* exactly as in memory: what a kill can cost are the dirty days (the "trailing
\* counts" of docs/configuration.md:355), with the same exception.
CleanMeansSaved ==
  \A d \in Days :
    owner # None /\ meta # None =>
      LET s == inst[owner] IN
      s.status # "unloaded" /\ s.meta.generation = meta.generation
      /\ d \notin s.dirty \cup overtaken => files[meta.generation][d] = s.days[d]

\* The disk keeps what it was given, and a kill costs the dirty days only.
DiskKeepsItsPromise == SavedCountsSurvive /\ CleanMeansSaved

\* Requests that finished before an accepted reset are not counted again: not by
\* a restart, a migration, a flush of before, or an instance that comes back.
ResetIsABoundary ==
  meta # None =>
    /\ CountedIn(files[meta.generation]) \cap meta.before = {}
    /\ \A i \in Instances : inst[i].status \in {"running", "draining"} =>
         CountedIn(inst[i].days) \cap inst[i].meta.before = {}

\* Once the metadata says so, every average on disk and in memory is made of
\* rates that meet the cutoff, however often the migration was cut short.
RatesMeetCutoff ==
  LET Meet(days) == \A d \in Days : days[d].rated \subseteq Qualified
  IN /\ meta # None /\ meta.cutoff => Meet(files[meta.generation])
     /\ \A i \in Instances : Meet(inst[i].days)

\* Days that could not be written are written once the storage works again,
\* without a further request, unless the instance is stopped or killed.
DirtyDaysDrain ==
  \A i \in Instances :
    Running(i) /\ inst[i].dirty # {} ~> inst[i].dirty = {} \/ ~Running(i)
=============================================================================
