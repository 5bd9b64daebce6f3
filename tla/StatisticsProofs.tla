--------------------------- MODULE StatisticsProofs ---------------------------
(* Proofs about Statistics, for any instances, days, requests and bounds. *)
EXTENDS Statistics, FiniteSetTheorems, TLAPS

-----------------------------------------------------------------------------
(* Data *)

\* A new generation exists and is nobody's: there are more names than holders.
LEMMA FreshGeneration ==
  ASSUME TypeOK
  PROVE  /\ Fresh \in Generations
         /\ meta # None => Fresh # meta.generation
         /\ \A i \in Instances : inst[i].status # "unloaded" => Fresh # inst[i].meta.generation
<1> DEFINE named == [i \in Instances |-> inst[i].meta.generation]
           held == {named[i] : i \in Instances}
           used == IF meta = None THEN held ELSE held \cup {meta.generation}
<1>1. IsFiniteSet(Instances) /\ Cardinality(Instances) \in Nat
  BY FS_CardinalityType, StatisticsAssumption
<1>2. named \in Surjection(Instances, held)
  BY DEF Surjection
<1>3. IsFiniteSet(held) /\ Cardinality(held) <= Cardinality(Instances)
  BY <1>1, <1>2, FS_Surjection
<1>4. IsFiniteSet(used) /\ Cardinality(used) <= Cardinality(Instances) + 1
        /\ Cardinality(used) \in Nat
  <2>1. Cardinality(held) \in Nat
    BY <1>3, FS_CardinalityType
  <2>2. CASE meta = None
    BY <1>1, <1>3, <2>1, <2>2
  <2>3. CASE meta # None
    <3>1. used = held \cup {meta.generation}
      BY <2>3
    <3> HIDE DEF held, used
    <3>2. IsFiniteSet(used)
            /\ Cardinality(used) = IF meta.generation \in held THEN Cardinality(held)
                                   ELSE Cardinality(held) + 1
      BY <1>3, <3>1, FS_AddElement
    <3>3. QED
      BY <1>1, <1>3, <2>1, <3>2
  <2>4. QED
    BY <2>2, <2>3
<1>5. Cardinality(Generations) = Cardinality(Instances) + 2
  BY <1>1, FS_Interval DEF Generations
<1>6. PICK g \in Generations : g \notin used
  <2> HIDE DEF used
  <2> SUFFICES ASSUME Generations \subseteq used PROVE FALSE
    OBVIOUS
  <2>1. Cardinality(Generations) <= Cardinality(used)
    BY <1>4, FS_Subset
  <2>2. QED
    BY <1>1, <1>4, <1>5, <2>1
<1>7. /\ meta # None => g # meta.generation
      /\ \A i \in Instances : inst[i].status # "unloaded" => g # inst[i].meta.generation
  BY <1>6
<1>8. QED
  BY <1>7 DEF Fresh

\* Each operation on buckets returns buckets.
LEMMA BucketTypes ==
  /\ NoTotals \in Totals /\ NoDays \in [Days -> Totals]
  /\ \A t \in Totals, r \in Requests : Added(t, r) \in Totals
  /\ \A rows \in SUBSET OldRequests, d \in Days : FromLogs(rows, d) \in Totals
  /\ \A rows \in SUBSET OldRequests : OldDays(rows) \in [Days -> Totals]
<1>1. NoTotals \in Totals /\ NoDays \in [Days -> Totals]
  BY DEF NoTotals, NoDays, NoCounts, Totals, Counts
<1>2. \A t \in Totals, r \in Requests : Added(t, r) \in Totals
  BY DEF Added, Totals, Counts
<1>3. \A rows \in SUBSET OldRequests, d \in Days : FromLogs(rows, d) \in Totals
  BY StatisticsAssumption DEF FromLogs, Totals, Counts
<1>4. \A rows \in SUBSET OldRequests, d \in Days :
        [FromLogs(rows, d) EXCEPT !.rated = {r \in rows : OldDay[r] = d}] \in Totals
  BY <1>3, StatisticsAssumption DEF Totals
<1>5. QED
  BY <1>1, <1>2, <1>3, <1>4 DEF OldDays

\* What the buckets of the log rows and of one more request count.
LEMMA CountedBuckets ==
  /\ Counted(NoTotals) = {} /\ CountedIn(NoDays) = {}
  /\ \A t \in Totals, r \in Requests : Counted(Added(t, r)) = Counted(t) \cup {r}
  /\ \A rows \in SUBSET OldRequests, d \in Days :
       Counted(FromLogs(rows, d)) = {r \in rows : OldDay[r] = d}
<1>1. Counted(NoTotals) = {}
  BY DEF Counted, NoTotals, NoCounts
<1>2. CountedIn(NoDays) = {}
  BY <1>1 DEF CountedIn, NoDays
<1>3. \A t \in Totals, r \in Requests : Counted(Added(t, r)) = Counted(t) \cup {r}
  <2> SUFFICES ASSUME NEW t \in Totals, NEW r \in Requests, NEW q \in Requests
               PROVE  Added(t, r).counts[q] > 0 <=> t.counts[q] > 0 \/ q = r
    BY DEF Counted
  <2>1. t.counts \in [Requests -> Nat] /\ t.counts[q] \in Nat
    BY DEF Totals, Counts
  <2>2. Added(t, r).counts[q] = IF q = r THEN t.counts[q] + 1 ELSE t.counts[q]
    BY <2>1 DEF Added
  <2>3. QED
    BY <2>1, <2>2
<1>4. \A rows \in SUBSET OldRequests, d \in Days :
       Counted(FromLogs(rows, d)) = {r \in rows : OldDay[r] = d}
  BY StatisticsAssumption DEF Counted, FromLogs
<1>5. QED
  BY <1>1, <1>2, <1>3, <1>4


-----------------------------------------------------------------------------
(* Types *)

\* An instance that is registered, or has nothing loaded.
LEMMA RegisteredTypes ==
  /\ \A g \in Generations, before \in SUBSET Requests : NewMeta(g, before) \in Metas
  /\ 1 \in Generations /\ Unloaded \in InstanceRecords
  /\ \A i \in Instances, m \in Metas, days \in [Days -> Totals] :
       Registered(i, m, days) \in InstanceRecords
<1>1. \A g \in Generations, before \in SUBSET Requests : NewMeta(g, before) \in Metas
  BY DEF NewMeta, Metas
<1>2. 1 \in Generations
  BY FS_CardinalityType, StatisticsAssumption DEF Generations
<1>3. Unloaded \in InstanceRecords
  BY <1>1, <1>2, BucketTypes DEF Unloaded, InstanceRecords, Purposes
<1>4. \A i \in Instances, m \in Metas, days \in [Days -> Totals] :
        Registered(i, m, days) \in InstanceRecords
  BY <1>3 DEF Registered, InstanceRecords
<1>5. QED
  BY <1>1, <1>2, <1>3, <1>4

LEMMA MigratedTypes ==
  ASSUME TypeOK, meta # None
  PROVE  /\ meta \in Metas /\ files[meta.generation] \in [Days -> Totals]
         /\ \A d \in Days : Migrated(d) \in Totals
<1>1. meta \in Metas /\ meta.generation \in Generations
  BY DEF TypeOK, Metas
<1>2. files[meta.generation] \in [Days -> Totals]
  BY <1>1 DEF TypeOK
<1>3. \A d \in Days : Migrated(d) \in Totals
  <2> SUFFICES ASSUME NEW d \in Days PROVE Migrated(d) \in Totals
    OBVIOUS
  <2>1. files[meta.generation][d] \in Totals
    BY <1>2
  <2>2. (IF Complete(d) THEN Counted(files[meta.generation][d]) \cap Qualified ELSE {})
           \in SUBSET Requests
    BY DEF Counted
  <2>3. QED
    BY <2>1, <2>2 DEF Migrated, Totals
<1>4. QED
  BY <1>1, <1>2, <1>3

\* The request that Append counts is a new one.
LEMMA NextRequest ==
  ASSUME Requests \ finished # {}
  PROVE  (CHOOSE r \in Requests \ finished : TRUE) \in Requests \ finished
OBVIOUS

LEMMA TypeInit == Init => TypeOK
<1> SUFFICES ASSUME Init PROVE TypeOK
  OBVIOUS
<1>1. /\ logs \subseteq OldRequests /\ inst \in [Instances -> InstanceRecords]
      /\ finished \subseteq Requests /\ owner \in Instances \cup {None} /\ overtaken \subseteq Days
      /\ faults \in Nat /\ kills \in Nat /\ resets \in Nat
  BY RegisteredTypes, StatisticsAssumption DEF Init
<1>2. CASE /\ meta = None /\ files = [g \in Generations |-> NoDays] /\ promised = {}
  BY <1>1, <1>2, BucketTypes DEF TypeOK
<1>3. CASE /\ promised \in SUBSET OldRequests
           /\ meta = [NewMeta(1, OldRequests \ promised) EXCEPT !.cutoff = FALSE]
           /\ files = [g \in Generations |-> IF g = 1 THEN OldDays(promised) ELSE NoDays]
  <2>1. NewMeta(1, OldRequests \ promised) \in Metas
    BY RegisteredTypes, StatisticsAssumption
  <2>2. meta \in Metas
    BY <1>3, <2>1 DEF Metas
  <2>3. files \in [Generations -> [Days -> Totals]]
    BY <1>3, BucketTypes
  <2>4. QED
    BY <1>1, <1>3, <2>2, <2>3, StatisticsAssumption DEF TypeOK
<1>4. QED
  BY <1>2, <1>3 DEF Init

LEMMA TypeStep == TypeOK /\ [Next]_vars => TypeOK'
<1> SUFFICES ASSUME TypeOK, [Next]_vars PROVE TypeOK'
  OBVIOUS
<1> USE DEF TypeOK
<1>u. Unloaded \in InstanceRecords
  BY RegisteredTypes
<1>i. ASSUME NEW i \in Instances PROVE inst[i] \in InstanceRecords
  BY <1>i
<1>1. ASSUME NEW i \in Instances, Load(i) PROVE TypeOK'
  <2>1. Registered(i, meta, files[meta.generation]) \in InstanceRecords
    BY <1>1, MigratedTypes, RegisteredTypes DEF Load
  <2>2. QED
    BY <1>1, <2>1 DEF Load, bounds
<1>2. ASSUME NEW i \in Instances, Bootstrap(i) PROVE TypeOK'
  <2> DEFINE s == Registered(i, NewMeta(Fresh, {}), [d \in Days |-> FromLogs(logs, d)])
  <2>1. s \in InstanceRecords
    BY FreshGeneration, RegisteredTypes, BucketTypes
  <2>2. {OldDay[r] : r \in logs} \subseteq Days
    BY StatisticsAssumption
  <2>3. [s EXCEPT !.step = "days", !.for = "bootstrap",
                  !.dirty = {OldDay[r] : r \in logs}] \in InstanceRecords
    <3> HIDE DEF s
    <3> DEFINE D == {OldDay[r] : r \in logs}
    <3> HIDE DEF D
    <3>1. D \subseteq Days
      BY <2>2 DEF D
    <3>2. [s EXCEPT !.step = "days", !.for = "bootstrap", !.dirty = D] \in InstanceRecords
      BY <2>1, <3>1 DEF InstanceRecords, Purposes
    <3>3. QED
      BY <3>2 DEF D
  <2> HIDE DEF s
  <2>4. inst' \in [Instances -> InstanceRecords]
    BY <1>2, <2>3 DEF Bootstrap, s
  <2>5. files' \in [Generations -> [Days -> Totals]]
    BY <1>2, FreshGeneration, BucketTypes DEF Bootstrap
  <2>6. QED
    BY <1>2, <2>4, <2>5 DEF Bootstrap, bounds
<1>3. ASSUME NEW i \in Instances, Migrate(i) PROVE TypeOK'
  <2> DEFINE kept == files[meta.generation]
             gap == \E d \in Days : ~Complete(d) /\ kept[d].rated # {}
             m == [meta EXCEPT !.cutoff = TRUE, !.partial = @ \/ gap]
             days == [d \in Days |-> Migrated(d)]
             counted == {d \in Days : Counted(kept[d]) # {}}
  <2>1. meta \in Metas /\ days \in [Days -> Totals]
    BY <1>3, MigratedTypes DEF Migrate
  <2>2. gap \in BOOLEAN /\ counted \subseteq Days
    OBVIOUS
  <2>3. inst' = [inst EXCEPT ![i] = [Registered(i, m, days) EXCEPT
                   !.step = "days", !.for = "migrate", !.dirty = counted]]
    BY <1>3 DEF Migrate
  <2> HIDE DEF kept, gap, days, counted
  <2>4. m \in Metas
    BY <2>1, <2>2 DEF Metas
  <2> HIDE DEF m
  <2>5. Registered(i, m, days) \in InstanceRecords
    BY <2>1, <2>4, RegisteredTypes
  <2>6. [Registered(i, m, days) EXCEPT !.step = "days", !.for = "migrate", !.dirty = counted]
           \in InstanceRecords
    BY <2>2, <2>5 DEF InstanceRecords, Purposes
  <2>7. QED
    BY <1>3, <2>3, <2>6 DEF Migrate, bounds
<1>4. ASSUME NEW i \in Instances, NEW d \in Days, Append(i, d) PROVE TypeOK'
  <2> DEFINE r == CHOOSE r \in Requests \ finished : TRUE
             s == [inst[i] EXCEPT !.days[d] = Added(@, r), !.dirty = @ \cup {d}]
  <2>1. r \in Requests
    BY <1>4, NextRequest DEF Append
  <2>2. PICK merged \in BOOLEAN :
          inst' = [inst EXCEPT ![i] =
               IF merged THEN [s EXCEPT !.timer = @ \/ Running(i)]
                         ELSE [s EXCEPT !.step = "days", !.for = "observe"]]
    BY <1>4 DEF Append
  <2>3. finished' = finished \cup {r}
    BY <1>4 DEF Append
  <2> HIDE DEF r
  <2>4. Added(inst[i].days[d], r) \in Totals
    BY <1>i, <2>1, BucketTypes DEF InstanceRecords
  <2>5. s \in InstanceRecords
    BY <1>i, <2>4 DEF InstanceRecords
  <2> HIDE DEF s
  <2>6. inst' \in [Instances -> InstanceRecords]
    BY <2>2, <2>5 DEF InstanceRecords, Purposes, Running
  <2>7. QED
    BY <1>4, <2>1, <2>3, <2>6 DEF Append, bounds, history
<1>5. ASSUME NEW i \in Instances, NEW d \in Days, WriteDay(i, d) PROVE TypeOK'
  <2>1. inst[i].days[d] \in Totals /\ inst[i].meta.generation \in Generations
    BY <1>i DEF InstanceRecords, Metas
  <2>2. files' \in [Generations -> [Days -> Totals]]
    BY <1>5, <2>1 DEF WriteDay
  <2>3. inst' \in [Instances -> InstanceRecords]
    BY <1>5, <1>i DEF WriteDay, InstanceRecords
  <2>4. overtaken' \subseteq Days /\ promised' \subseteq Requests
    BY <1>5 DEF WriteDay, FileWritten, Counted
  <2>5. QED
    BY <1>5, <2>2, <2>3, <2>4 DEF WriteDay, bounds
<1>6. ASSUME NEW i \in Instances, DaysWritten(i) PROVE TypeOK'
  <2>1. /\ [inst[i] EXCEPT !.step = "idle"] \in InstanceRecords
        /\ [inst[i] EXCEPT !.step = "idle", !.status = "stopped"] \in InstanceRecords
        /\ [inst[i] EXCEPT !.step = "meta"] \in InstanceRecords
    BY <1>i DEF InstanceRecords
  <2>2. inst' \in [Instances -> InstanceRecords]
    BY <1>6, <2>1 DEF DaysWritten
  <2>3. QED
    BY <1>6, <2>2 DEF DaysWritten, bounds, history
<1>7. ASSUME NEW i \in Instances, WriteDayFails(i) PROVE TypeOK'
  <2>1. /\ [inst[i] EXCEPT !.step = "idle", !.timer = inst[i].timer \/ Running(i)]
              \in InstanceRecords
        /\ [inst[i] EXCEPT !.step = "idle", !.status = "stopped"] \in InstanceRecords
        /\ [inst[i] EXCEPT !.step = "idle"] \in InstanceRecords
    BY <1>i DEF InstanceRecords, Running
  <2>2. inst' \in [Instances -> InstanceRecords]
    BY <1>7, <1>u, <2>1 DEF WriteDayFails
  <2>3. QED
    BY <1>7, <2>2 DEF WriteDayFails, Fault, history
<1>8. ASSUME NEW i \in Instances, TimerFires(i) PROVE TypeOK'
  <2>1. /\ [inst[i] EXCEPT !.timer = FALSE, !.step = "days", !.for = "observe"]
              \in InstanceRecords
        /\ [inst[i] EXCEPT !.timer = FALSE] \in InstanceRecords
    BY <1>i DEF InstanceRecords, Purposes
  <2>2. inst' \in [Instances -> InstanceRecords]
    BY <1>8, <2>1 DEF TimerFires
  <2>3. QED
    BY <1>8, <2>2 DEF TimerFires, bounds, history
<1>9. ASSUME NEW i \in Instances, Quiesce(i) PROVE TypeOK'
  BY <1>9, <1>i DEF Quiesce, InstanceRecords, bounds, history
<1>10. ASSUME NEW i \in Instances, FinalFlush(i) PROVE TypeOK'
  BY <1>10, <1>i DEF FinalFlush, InstanceRecords, Purposes, bounds, history
<1>11. ASSUME NEW i \in Instances, WriteMeta(i) PROVE TypeOK'
  <2>1. inst[i].meta \in Metas /\ inst' \in [Instances -> InstanceRecords]
    BY <1>11, <1>i DEF WriteMeta, InstanceRecords
  <2>2. promised' \subseteq Requests
    BY <1>11, StatisticsAssumption DEF WriteMeta
  <2>3. QED
    BY <1>11, <2>1, <2>2 DEF WriteMeta, bounds
<1>12. ASSUME NEW i \in Instances, Reset(i) PROVE TypeOK'
  <2>1. inst' \in [Instances -> InstanceRecords]
    BY <1>12, <1>i DEF Reset, InstanceRecords, Purposes
  <2>2. QED
    BY <1>12, <2>1 DEF Reset, history
<1>13. ASSUME NEW i \in Instances, SwitchGeneration(i) PROVE TypeOK'
  <2>1. meta' \in Metas
    BY <1>13, FreshGeneration, RegisteredTypes DEF SwitchGeneration
  <2>2. files' \in [Generations -> [Days -> Totals]]
    BY <1>13, FreshGeneration, BucketTypes DEF SwitchGeneration
  <2>3. Registered(i, meta', NoDays) \in InstanceRecords
    BY <2>1, BucketTypes, RegisteredTypes
  <2>4. [Registered(i, meta', NoDays) EXCEPT !.timer = inst[i].timer] \in InstanceRecords
    BY <1>i, <2>3 DEF InstanceRecords
  <2>5. QED
    BY <1>13, <2>1, <2>2, <2>4 DEF SwitchGeneration, bounds
<1>14. ASSUME NEW i \in Instances, WriteMetaFails(i) PROVE TypeOK'
  <2>1. inst' \in [Instances -> InstanceRecords]
    BY <1>14, <1>i, <1>u DEF WriteMetaFails, InstanceRecords
  <2>2. QED
    BY <1>14, <2>1 DEF WriteMetaFails, Fault, history
<1>15. CASE Kill
  BY <1>15, <1>u DEF Kill, history
<1>16. CASE UNCHANGED vars
  BY <1>16 DEF vars
<1>17. QED
  BY <1>1, <1>2, <1>3, <1>4, <1>5, <1>6, <1>7, <1>8, <1>9, <1>10, <1>11, <1>12, <1>13,
     <1>14, <1>15, <1>16 DEF Next, Register, FlushStep

\* Every file, every instance and every history keeps its type.
THEOREM TypeCorrect == Spec => []TypeOK
BY TypeInit, TypeStep, PTL DEF Spec

-----------------------------------------------------------------------------
(* The operations, field by field *)

\* What an operation of i leaves of it; the other instances stay.
Becomes(i, status, step, for, m, days, dirty) ==
  /\ inst'[i].status = status /\ inst'[i].step = step /\ inst'[i].for = for
  /\ inst'[i].meta = m /\ inst'[i].days = days /\ inst'[i].dirty = dirty
  /\ \A j \in Instances \ {i} : inst'[j] = inst[j]

\* The same with its memory kept.
Goes(i, status, step, for) ==
  Becomes(i, status, step, for, inst[i].meta, inst[i].days, inst[i].dirty)

Vanishes(i) == inst'[i] = Unloaded /\ \A j \in Instances \ {i} : inst'[j] = inst[j]

MigratedMeta == {[meta EXCEPT !.cutoff = TRUE, !.partial = p] : p \in BOOLEAN}

LEMMA Registrations ==
  ASSUME TypeOK, NEW i \in Instances
  PROVE  /\ Load(i) =>
              Becomes(i, "running", "idle", "observe", meta, files[meta.generation], {})
         /\ Bootstrap(i) =>
              Becomes(i, "running", "days", "bootstrap", NewMeta(Fresh, {}),
                      [d \in Days |-> FromLogs(logs, d)], {OldDay[r] : r \in logs})
         /\ Migrate(i) => \E m \in MigratedMeta :
              Becomes(i, "running", "days", "migrate", m, [d \in Days |-> Migrated(d)],
                      {d \in Days : Counted(files[meta.generation][d]) # {}})
         /\ SwitchGeneration(i) =>
              Becomes(i, "running", "idle", "observe", NewMeta(Fresh, finished), NoDays, {})
<1>1. \A m, days : /\ Registered(i, m, days).status = "running"
                   /\ Registered(i, m, days).step = "idle"
                   /\ Registered(i, m, days).for = "observe"
                   /\ Registered(i, m, days).meta = m
                   /\ Registered(i, m, days).days = days
                   /\ Registered(i, m, days).dirty = {}
  BY DEF Registered, Unloaded
<1>2. \A m, days, for, dirty :
        LET s == [Registered(i, m, days) EXCEPT !.step = "days", !.for = for, !.dirty = dirty]
        IN s.status = "running" /\ s.step = "days" /\ s.for = for /\ s.meta = m
           /\ s.days = days /\ s.dirty = dirty
  BY DEF Registered, Unloaded
<1>3. \A m, days, timer :
        LET s == [Registered(i, m, days) EXCEPT !.timer = timer]
        IN s.status = "running" /\ s.step = "idle" /\ s.for = "observe" /\ s.meta = m
           /\ s.days = days /\ s.dirty = {}
  BY DEF Registered, Unloaded
<1>4. ASSUME NEW s, inst' = [inst EXCEPT ![i] = s]
      PROVE  inst'[i] = s /\ \A j \in Instances \ {i} : inst'[j] = inst[j]
  BY <1>4 DEF TypeOK
<1>5. ASSUME Load(i)
      PROVE  Becomes(i, "running", "idle", "observe", meta, files[meta.generation], {})
  <2>1. inst'[i] = Registered(i, meta, files[meta.generation])
          /\ \A j \in Instances \ {i} : inst'[j] = inst[j]
    BY <1>4, <1>5 DEF Load
  <2>2. QED
    BY <1>1, <2>1 DEF Becomes
<1>6. ASSUME Bootstrap(i)
      PROVE  Becomes(i, "running", "days", "bootstrap", NewMeta(Fresh, {}),
                     [d \in Days |-> FromLogs(logs, d)], {OldDay[r] : r \in logs})
  <2> DEFINE m == NewMeta(Fresh, {})
             days == [d \in Days |-> FromLogs(logs, d)]
             late == {OldDay[r] : r \in logs}
  <2>1. inst' = [inst EXCEPT ![i] = [Registered(i, m, days) EXCEPT
                   !.step = "days", !.for = "bootstrap", !.dirty = late]]
    BY <1>6 DEF Bootstrap
  <2> HIDE DEF m, days, late
  <2>2. inst'[i] = [Registered(i, m, days) EXCEPT
                      !.step = "days", !.for = "bootstrap", !.dirty = late]
          /\ \A j \in Instances \ {i} : inst'[j] = inst[j]
    BY <1>4, <2>1
  <2>3. Becomes(i, "running", "days", "bootstrap", m, days, late)
    BY <1>2, <2>2 DEF Becomes
  <2>4. QED
    BY <2>3 DEF m, days, late
<1>7. ASSUME Migrate(i)
      PROVE  \E m \in MigratedMeta :
               Becomes(i, "running", "days", "migrate", m, [d \in Days |-> Migrated(d)],
                       {d \in Days : Counted(files[meta.generation][d]) # {}})
  <2> DEFINE kept == files[meta.generation]
             gap == \E d \in Days : ~Complete(d) /\ kept[d].rated # {}
             m == [meta EXCEPT !.cutoff = TRUE, !.partial = @ \/ gap]
             days == [d \in Days |-> Migrated(d)]
             counted == {d \in Days : Counted(kept[d]) # {}}
  <2>1. inst' = [inst EXCEPT ![i] = [Registered(i, m, days) EXCEPT
                   !.step = "days", !.for = "migrate", !.dirty = counted]]
    BY <1>7 DEF Migrate
  <2>2. meta \in Metas /\ gap \in BOOLEAN
    BY <1>7, MigratedTypes DEF Migrate
  <2> HIDE DEF gap
  <2>3. m \in MigratedMeta
    <3>1. (meta.partial \/ gap) \in BOOLEAN
      BY <2>2 DEF Metas
    <3>2. QED
      BY <3>1 DEF MigratedMeta
  <2> HIDE DEF m, days, counted
  <2>4. inst'[i] = [Registered(i, m, days) EXCEPT
                      !.step = "days", !.for = "migrate", !.dirty = counted]
          /\ \A j \in Instances \ {i} : inst'[j] = inst[j]
    BY <1>4, <2>1
  <2>5. Becomes(i, "running", "days", "migrate", m, days, counted)
    BY <1>2, <2>4 DEF Becomes
  <2>6. QED
    BY <2>3, <2>5 DEF days, counted
<1>8. ASSUME SwitchGeneration(i)
      PROVE  Becomes(i, "running", "idle", "observe", NewMeta(Fresh, finished), NoDays, {})
  <2>1. inst'[i] = [Registered(i, NewMeta(Fresh, finished), NoDays) EXCEPT !.timer = inst[i].timer]
          /\ \A j \in Instances \ {i} : inst'[j] = inst[j]
    BY <1>4, <1>8 DEF SwitchGeneration
  <2>2. QED
    BY <1>3, <2>1 DEF Becomes
<1>9. QED
  BY <1>5, <1>6, <1>7, <1>8

LEMMA Flushes ==
  ASSUME TypeOK, NEW i \in Instances
  PROVE  /\ \A d \in Days : WriteDay(i, d) =>
              Becomes(i, inst[i].status, inst[i].step, inst[i].for, inst[i].meta,
                      inst[i].days, inst[i].dirty \ {d})
         /\ DaysWritten(i) =>
              Goes(i, IF inst[i].for = "final" THEN "stopped" ELSE inst[i].status,
                   IF inst[i].for \in {"observe", "final"} THEN "idle" ELSE "meta", inst[i].for)
         /\ WriteDayFails(i) =>
              IF inst[i].for \in {"observe", "final", "reset"}
              THEN Goes(i, IF inst[i].for = "final" THEN "stopped" ELSE inst[i].status,
                        "idle", inst[i].for)
              ELSE Vanishes(i)
         /\ WriteMetaFails(i) =>
              IF inst[i].for = "reset" THEN Goes(i, inst[i].status, "idle", inst[i].for)
              ELSE Vanishes(i)
         /\ WriteMeta(i) => Goes(i, inst[i].status, "idle", inst[i].for)
<1> DEFINE s == inst[i]
<1>1. s \in InstanceRecords
  BY DEF TypeOK
<1>2. ASSUME NEW t, inst' = [inst EXCEPT ![i] = t]
      PROVE  inst'[i] = t /\ \A j \in Instances \ {i} : inst'[j] = inst[j]
  BY <1>2 DEF TypeOK
<1>3. \A step :
        LET t == [s EXCEPT !.step = step]
        IN t.status = s.status /\ t.step = step /\ t.for = s.for /\ t.meta = s.meta
           /\ t.days = s.days /\ t.dirty = s.dirty
  BY <1>1 DEF InstanceRecords
<1>4. LET t == [s EXCEPT !.step = "idle", !.status = "stopped"]
      IN t.status = "stopped" /\ t.step = "idle" /\ t.for = s.for /\ t.meta = s.meta
         /\ t.days = s.days /\ t.dirty = s.dirty
  BY <1>1 DEF InstanceRecords
<1>5. \A timer :
        LET t == [s EXCEPT !.step = "idle", !.timer = timer]
        IN t.status = s.status /\ t.step = "idle" /\ t.for = s.for /\ t.meta = s.meta
           /\ t.days = s.days /\ t.dirty = s.dirty
  BY <1>1 DEF InstanceRecords
<1>6. \A dirty :
        LET t == [s EXCEPT !.dirty = dirty]
        IN t.status = s.status /\ t.step = s.step /\ t.for = s.for /\ t.meta = s.meta
           /\ t.days = s.days /\ t.dirty = dirty
  BY <1>1 DEF InstanceRecords
<1>7. ASSUME NEW d \in Days, WriteDay(i, d)
      PROVE  Becomes(i, s.status, s.step, s.for, s.meta, s.days, s.dirty \ {d})
  <2>1. inst' = [inst EXCEPT ![i] = [s EXCEPT !.dirty = @ \ {d}]]
    BY <1>7, <1>1 DEF WriteDay, TypeOK
  <2>2. QED
    BY <1>2, <1>6, <2>1 DEF Becomes
<1>8. ASSUME DaysWritten(i)
      PROVE  Goes(i, IF s.for = "final" THEN "stopped" ELSE s.status,
                  IF s.for \in {"observe", "final"} THEN "idle" ELSE "meta", s.for)
  <2>1. inst'[i] = IF s.for = "observe" THEN [s EXCEPT !.step = "idle"]
                   ELSE IF s.for = "final" THEN [s EXCEPT !.step = "idle", !.status = "stopped"]
                   ELSE [s EXCEPT !.step = "meta"]
    BY <1>8, <1>2 DEF DaysWritten
  <2>2. \A j \in Instances \ {i} : inst'[j] = inst[j]
    BY <1>8 DEF DaysWritten, TypeOK
  <2>3. QED
    BY <1>3, <1>4, <2>1, <2>2 DEF Goes, Becomes
<1>9. ASSUME WriteDayFails(i)
      PROVE  IF s.for \in {"observe", "final", "reset"}
             THEN Goes(i, IF s.for = "final" THEN "stopped" ELSE s.status, "idle", s.for)
             ELSE Vanishes(i)
  <2>1. inst'[i] = IF s.for = "observe"
                   THEN [s EXCEPT !.step = "idle", !.timer = s.timer \/ Running(i)]
                   ELSE IF s.for = "final" THEN [s EXCEPT !.step = "idle", !.status = "stopped"]
                   ELSE IF s.for = "reset" THEN [s EXCEPT !.step = "idle"]
                   ELSE Unloaded
    BY <1>9, <1>2 DEF WriteDayFails
  <2>2. \A j \in Instances \ {i} : inst'[j] = inst[j]
    BY <1>9 DEF WriteDayFails, TypeOK
  <2>3. QED
    BY <1>3, <1>4, <1>5, <2>1, <2>2 DEF Goes, Becomes, Vanishes
<1>10. ASSUME WriteMetaFails(i)
       PROVE  IF s.for = "reset" THEN Goes(i, s.status, "idle", s.for) ELSE Vanishes(i)
  <2>1. inst'[i] = IF s.for = "reset" THEN [s EXCEPT !.step = "idle"] ELSE Unloaded
    BY <1>10, <1>2 DEF WriteMetaFails
  <2>2. \A j \in Instances \ {i} : inst'[j] = inst[j]
    BY <1>10 DEF WriteMetaFails, TypeOK
  <2>3. QED
    BY <1>3, <2>1, <2>2 DEF Goes, Becomes, Vanishes
<1>11. ASSUME WriteMeta(i) PROVE Goes(i, s.status, "idle", s.for)
  <2>1. inst' = [inst EXCEPT ![i] = [s EXCEPT !.step = "idle"]]
    BY <1>11, <1>1 DEF WriteMeta, TypeOK
  <2>2. QED
    BY <1>2, <1>3, <2>1 DEF Goes, Becomes
<1>12. QED
  BY <1>7, <1>8, <1>9, <1>10, <1>11

LEMMA OtherMoves ==
  ASSUME TypeOK, NEW i \in Instances
  PROVE  /\ TimerFires(i) =>
              \/ inst[i].status = "running" /\ Goes(i, inst[i].status, "days", "observe")
              \/ Goes(i, inst[i].status, inst[i].step, inst[i].for)
         /\ Quiesce(i) => Goes(i, "draining", inst[i].step, inst[i].for)
         /\ FinalFlush(i) => Goes(i, inst[i].status, "days", "final")
         /\ Reset(i) => Goes(i, inst[i].status, "days", "reset")
<1> DEFINE s == inst[i]
<1>1. s \in InstanceRecords
  BY DEF TypeOK
<1>2. ASSUME NEW t, inst' = [inst EXCEPT ![i] = t]
      PROVE  inst'[i] = t /\ \A j \in Instances \ {i} : inst'[j] = inst[j]
  BY <1>2 DEF TypeOK
<1>3. \A for, timer :
        LET t == [s EXCEPT !.timer = timer, !.step = "days", !.for = for]
        IN t.status = s.status /\ t.step = "days" /\ t.for = for /\ t.meta = s.meta
           /\ t.days = s.days /\ t.dirty = s.dirty
  BY <1>1 DEF InstanceRecords
<1>4. LET t == [s EXCEPT !.timer = FALSE]
      IN t.status = s.status /\ t.step = s.step /\ t.for = s.for /\ t.meta = s.meta
         /\ t.days = s.days /\ t.dirty = s.dirty
  BY <1>1 DEF InstanceRecords
<1>5. LET t == [s EXCEPT !.step = "days", !.for = "reset"]
      IN t.status = s.status /\ t.step = "days" /\ t.for = "reset" /\ t.meta = s.meta
         /\ t.days = s.days /\ t.dirty = s.dirty
  BY <1>1 DEF InstanceRecords
<1>6. LET t == [s EXCEPT !.status = "draining"]
      IN t.status = "draining" /\ t.step = s.step /\ t.for = s.for /\ t.meta = s.meta
         /\ t.days = s.days /\ t.dirty = s.dirty
  BY <1>1 DEF InstanceRecords
<1>7. ASSUME TimerFires(i)
      PROVE  \/ s.status = "running" /\ Goes(i, s.status, "days", "observe")
             \/ Goes(i, s.status, s.step, s.for)
  <2>1. inst'[i] = IF s.status = "running"
                   THEN [s EXCEPT !.timer = FALSE, !.step = "days", !.for = "observe"]
                   ELSE [s EXCEPT !.timer = FALSE]
    BY <1>7, <1>2 DEF TimerFires, Running
  <2>2. \A j \in Instances \ {i} : inst'[j] = inst[j]
    BY <1>7 DEF TimerFires, TypeOK
  <2>3. QED
    BY <1>3, <1>4, <2>1, <2>2 DEF Goes, Becomes
<1>8. ASSUME Quiesce(i) PROVE Goes(i, "draining", s.step, s.for)
  <2>1. inst' = [inst EXCEPT ![i] = [s EXCEPT !.status = "draining"]]
    BY <1>8, <1>1 DEF Quiesce, TypeOK
  <2>2. QED
    BY <1>2, <1>6, <2>1 DEF Goes, Becomes
<1>9. ASSUME FinalFlush(i) PROVE Goes(i, s.status, "days", "final")
  <2>1. inst'[i] = [s EXCEPT !.timer = FALSE, !.step = "days", !.for = "final"]
          /\ \A j \in Instances \ {i} : inst'[j] = inst[j]
    BY <1>2, <1>9 DEF FinalFlush
  <2>2. QED
    BY <1>3, <2>1 DEF Goes, Becomes
<1>10. ASSUME Reset(i) PROVE Goes(i, s.status, "days", "reset")
  BY <1>10, <1>2, <1>5 DEF Reset, Goes, Becomes
<1>11. QED
  BY <1>7, <1>8, <1>9, <1>10

\* One more request: a new one, in one day of i.
LEMMA Appends ==
  ASSUME TypeOK, NEW i \in Instances, NEW d \in Days, Append(i, d)
  PROVE  \E r \in Requests \ finished, step \in {"idle", "days"}, for \in {"observe", inst[i].for} :
           /\ finished' = finished \cup {r}
           /\ step = "idle" \/ for = "observe"
           /\ Becomes(i, inst[i].status, step, for, inst[i].meta,
                      [inst[i].days EXCEPT ![d] = Added(inst[i].days[d], r)],
                      inst[i].dirty \cup {d})
<1> DEFINE r == CHOOSE r \in Requests \ finished : TRUE
           days == [inst[i].days EXCEPT ![d] = Added(inst[i].days[d], r)]
           s == [inst[i] EXCEPT !.days[d] = Added(@, r), !.dirty = @ \cup {d}]
<1>1. r \in Requests \ finished /\ finished' = finished \cup {r}
  BY NextRequest DEF Append
<1>2. PICK merged \in BOOLEAN :
        inst' = [inst EXCEPT ![i] =
             IF merged THEN [s EXCEPT !.timer = @ \/ Running(i)]
                       ELSE [s EXCEPT !.step = "days", !.for = "observe"]]
  BY DEF Append
<1>3. inst[i] \in InstanceRecords /\ inst[i].step = "idle"
  BY DEF TypeOK, Append, Idle
<1> HIDE DEF r
<1>4. /\ s.status = inst[i].status /\ s.step = "idle" /\ s.for = inst[i].for
      /\ s.meta = inst[i].meta /\ s.days = days /\ s.dirty = inst[i].dirty \cup {d}
  BY <1>3 DEF InstanceRecords
<1>5. s \in [status : {s.status}, step : {s.step}, for : {s.for}, meta : {s.meta},
             days : {s.days}, dirty : {s.dirty}, timer : BOOLEAN]
  BY <1>3 DEF InstanceRecords
<1> HIDE DEF s
<1>6. \A timer :
        LET t == [s EXCEPT !.timer = timer]
        IN t.status = s.status /\ t.step = s.step /\ t.for = s.for /\ t.meta = s.meta
           /\ t.days = s.days /\ t.dirty = s.dirty
  BY <1>5
<1>7. LET t == [s EXCEPT !.step = "days", !.for = "observe"]
      IN t.status = s.status /\ t.step = "days" /\ t.for = "observe" /\ t.meta = s.meta
         /\ t.days = s.days /\ t.dirty = s.dirty
  BY <1>5
<1>8. \A j \in Instances \ {i} : inst'[j] = inst[j]
  BY <1>2 DEF TypeOK
<1>9. \/ inst'[i] = [s EXCEPT !.timer = s.timer \/ Running(i)]
      \/ inst'[i] = [s EXCEPT !.step = "days", !.for = "observe"]
  BY <1>2 DEF TypeOK
<1>10. CASE inst'[i] = [s EXCEPT !.timer = s.timer \/ Running(i)]
  <2>1. Becomes(i, inst[i].status, "idle", inst[i].for, inst[i].meta, days, inst[i].dirty \cup {d})
    BY <1>4, <1>6, <1>8, <1>10 DEF Becomes
  <2>2. QED
    BY <1>1, <2>1
<1>11. CASE inst'[i] = [s EXCEPT !.step = "days", !.for = "observe"]
  <2>1. Becomes(i, inst[i].status, "days", "observe", inst[i].meta, days, inst[i].dirty \cup {d})
    BY <1>4, <1>7, <1>8, <1>11 DEF Becomes
  <2>2. QED
    BY <1>1, <2>1
<1>12. QED
  BY <1>9, <1>10, <1>11

-----------------------------------------------------------------------------
(* Who is at work, on which generation *)

Working(i) == inst[i].status \in {"running", "draining"}
Loaded(i) == inst[i].status # "unloaded"
Busy(i, for) == inst[i].step # "idle" /\ inst[i].for = for

\* One instance works, the one registered last; only a final flush may be another's.
Control ==
  /\ \A i \in Instances : ~Loaded(i) => inst[i] = Unloaded
  /\ \A i \in Instances : Working(i) => owner = i
  /\ \A i \in Instances : inst[i].step # "idle" /\ inst[i].for # "final" => Working(i)
  /\ \A i \in Instances : inst[i].step = "meta" =>
       inst[i].for \in {"bootstrap", "migrate", "reset"} /\ inst[i].dirty = {}

\* The bootstrap runs while there is no metadata, the migration while it lacks
\* the cutoff, and instances of one generation agree on its beginning.
Agreement ==
  /\ \A i \in Instances : inst[i].meta.cutoff
  /\ \A i \in Instances : Busy(i, "bootstrap") => meta = None /\ inst[i].meta.before = {}
  /\ \A i \in Instances : Busy(i, "migrate") =>
       meta # None /\ ~meta.cutoff /\ inst[i].meta.generation = meta.generation
  /\ meta = None => \A i \in Instances : Loaded(i) => Busy(i, "bootstrap")
  /\ meta # None /\ owner # None /\ Loaded(owner) =>
       inst[owner].meta.generation = meta.generation
  /\ meta # None => \A i \in Instances :
       Loaded(i) /\ inst[i].meta.generation = meta.generation =>
         inst[i].meta.before = meta.before

LEMMA ControlInit == Init => Control
BY DEF Init, Control, Loaded, Working, Unloaded

LEMMA ControlStep == TypeOK /\ Control /\ [Next]_vars => Control'
<1> SUFFICES ASSUME TypeOK, Control, [Next]_vars PROVE Control'
  OBVIOUS
<1> USE DEF Control, Loaded, Working
<1>u. Unloaded.status = "unloaded" /\ Unloaded.step = "idle"
  BY DEF Unloaded
<1>1. ASSUME NEW i \in Instances, Register(i) PROVE Control'
  <2>1. \A j \in Instances \ {i} : inst[j].status \in {"unloaded", "stopped"}
    BY <1>1 DEF Register, Load, Bootstrap, Migrate, MayRegister
  <2>2. owner' = i
    BY <1>1 DEF Register, Load, Bootstrap, Migrate
  <2>3. /\ inst'[i].status = "running" /\ inst'[i].step \in {"idle", "days"}
        /\ \A j \in Instances \ {i} : inst'[j] = inst[j]
    BY <1>1, Registrations DEF Register, Becomes
  <2>4. QED
    BY <2>1, <2>2, <2>3
<1>2. ASSUME NEW i \in Instances, NEW d \in Days, Append(i, d) PROVE Control'
  <2>1. PICK r \in Requests \ finished, step \in {"idle", "days"},
             for \in {"observe", inst[i].for} :
           /\ finished' = finished \cup {r}
           /\ step = "idle" \/ for = "observe"
           /\ Becomes(i, inst[i].status, step, for, inst[i].meta,
                      [inst[i].days EXCEPT ![d] = Added(inst[i].days[d], r)],
                      inst[i].dirty \cup {d})
    BY <1>2, Appends
  <2>2. /\ inst'[i].status = inst[i].status /\ inst'[i].step = step /\ inst'[i].for = for
        /\ \A j \in Instances \ {i} : inst'[j] = inst[j]
    BY <2>1 DEF Becomes
  <2>3. Working(i) /\ owner' = owner
    BY <1>2 DEF Append, history
  <2>4. QED
    BY <2>1, <2>2, <2>3
<1>3. ASSUME NEW i \in Instances, NEW d \in Days, WriteDay(i, d) PROVE Control'
  <2>1. inst[i].step = "days" /\ owner' = owner
    BY <1>3 DEF WriteDay
  <2>2. /\ inst'[i].status = inst[i].status /\ inst'[i].step = "days"
        /\ inst'[i].for = inst[i].for
        /\ \A j \in Instances \ {i} : inst'[j] = inst[j]
    BY <1>3, <2>1, Flushes DEF Becomes
  <2>3. Loaded(i)
    BY <1>u, <2>1
  <2>4. QED
    BY <2>1, <2>2, <2>3
<1>4. ASSUME NEW i \in Instances, DaysWritten(i) PROVE Control'
  <2>1. inst[i].step = "days" /\ inst[i].dirty = {} /\ owner' = owner
    BY <1>4 DEF DaysWritten, history
  <2>2. Goes(i, IF inst[i].for = "final" THEN "stopped" ELSE inst[i].status,
             IF inst[i].for \in {"observe", "final"} THEN "idle" ELSE "meta", inst[i].for)
    BY <1>4, Flushes
  <2>3. inst[i].for \in Purposes /\ Loaded(i)
    BY <1>u, <2>1 DEF TypeOK, InstanceRecords
  <2>4. QED
    BY <2>1, <2>2, <2>3 DEF Goes, Becomes, Purposes
<1>5. ASSUME NEW i \in Instances, WriteDayFails(i) PROVE Control'
  <2>1. inst[i].step = "days" /\ owner' = owner
    BY <1>5 DEF WriteDayFails, history
  <2>2. Loaded(i)
    BY <1>u, <2>1
  <2>3. CASE Vanishes(i)
    BY <1>u, <2>1, <2>3 DEF Vanishes
  <2>4. CASE Goes(i, IF inst[i].for = "final" THEN "stopped" ELSE inst[i].status,
                  "idle", inst[i].for)
    BY <2>1, <2>2, <2>4 DEF Goes, Becomes
  <2>5. QED
    BY <1>5, <2>3, <2>4, Flushes
<1>6. ASSUME NEW i \in Instances, TimerFires(i) PROVE Control'
  <2>1. owner' = owner /\ inst[i].step = "idle" /\ Loaded(i)
    BY <1>6 DEF TimerFires, Idle, history
  <2>2. QED
    BY <1>6, <2>1, OtherMoves DEF Goes, Becomes
<1>7. ASSUME NEW i \in Instances, Quiesce(i) \/ FinalFlush(i) \/ Reset(i) PROVE Control'
  <2>1. owner' = owner /\ inst[i].step = "idle" /\ Loaded(i)
    BY <1>7 DEF Quiesce, FinalFlush, Reset, Idle, history
  <2>2. Quiesce(i) \/ Reset(i) => Working(i)
    BY DEF Quiesce, Reset, Running
  <2>3. QED
    BY <1>7, <2>1, <2>2, OtherMoves DEF Goes, Becomes
<1>8. ASSUME NEW i \in Instances, WriteMeta(i) PROVE Control'
  <2>1. owner' = owner /\ inst[i].step = "meta"
    BY <1>8 DEF WriteMeta
  <2>2. Loaded(i)
    BY <1>u, <2>1
  <2>3. QED
    BY <1>8, <2>1, <2>2, Flushes DEF Goes, Becomes
<1>9. ASSUME NEW i \in Instances, SwitchGeneration(i) PROVE Control'
  <2>1. owner' = owner /\ inst[i].step = "meta" /\ inst[i].for = "reset"
    BY <1>9 DEF SwitchGeneration
  <2>2. /\ inst'[i].status = "running" /\ inst'[i].step = "idle"
        /\ \A j \in Instances \ {i} : inst'[j] = inst[j]
    BY <1>9, Registrations DEF Becomes
  <2>3. QED
    BY <2>1, <2>2
<1>10. ASSUME NEW i \in Instances, WriteMetaFails(i) PROVE Control'
  <2>1. owner' = owner /\ inst[i].step = "meta"
    BY <1>10 DEF WriteMetaFails, history
  <2>2. CASE Vanishes(i)
    BY <1>u, <2>1, <2>2 DEF Vanishes
  <2>3. CASE Goes(i, inst[i].status, "idle", inst[i].for)
    BY <1>u, <2>1, <2>3 DEF Goes, Becomes
  <2>4. QED
    BY <1>10, <2>2, <2>3, Flushes
<1>11. CASE Kill
  <2>1. \A i \in Instances : inst'[i] = Unloaded
    BY <1>11 DEF Kill
  <2>2. QED
    BY <1>u, <2>1
<1>12. CASE UNCHANGED vars
  BY <1>12 DEF vars
<1>13. QED
  BY <1>1, <1>2, <1>3, <1>4, <1>5, <1>6, <1>7, <1>8, <1>9, <1>10, <1>11, <1>12
     DEF Next, FlushStep

LEMMA AgreementInit == Init => Agreement
<1> SUFFICES ASSUME Init PROVE Agreement
  OBVIOUS
<1>1. \A i \in Instances : /\ inst[i].status = "unloaded" /\ inst[i].step = "idle"
                           /\ inst[i].meta.cutoff
  BY DEF Init, Unloaded, NewMeta
<1>2. owner = None
  BY DEF Init
<1>3. QED
  BY <1>1, <1>2 DEF Agreement, Busy, Loaded

\* A step of i that moves no metadata, and at most its place in an operation.
LEMMA AgreementKept ==
  ASSUME TypeOK, Control, Agreement, meta' = meta, owner' = owner, NEW i \in Instances,
         Loaded(i), Loaded(i)', inst'[i].meta = inst[i].meta,
         \A j \in Instances \ {i} : inst'[j] = inst[j],
         Busy(i, "bootstrap") <=> Busy(i, "bootstrap")',
         Busy(i, "migrate")' => Busy(i, "migrate")
  PROVE  Agreement'
<1>1. \A j \in Instances : /\ inst'[j].meta = inst[j].meta /\ (Loaded(j) <=> Loaded(j)')
                           /\ Busy(j, "bootstrap") <=> Busy(j, "bootstrap")'
                           /\ Busy(j, "migrate")' => Busy(j, "migrate")
  BY DEF Loaded, Busy
<1>2. owner # None => owner \in Instances
  BY DEF TypeOK
<1>3. QED
  BY <1>1, <1>2 DEF Agreement

LEMMA AgreementGone ==
  ASSUME TypeOK, Agreement, meta' = meta, owner' = owner,
         \A j \in Instances : inst'[j] \in {inst[j], Unloaded}
  PROVE  Agreement'
<1>1. Unloaded.status = "unloaded" /\ Unloaded.step = "idle" /\ Unloaded.meta.cutoff
  BY DEF Unloaded, NewMeta
<1>2. owner # None => owner \in Instances
  BY DEF TypeOK
<1>3. QED
  BY <1>1, <1>2 DEF Agreement, Loaded, Busy

LEMMA AgreementStep == TypeOK /\ Control /\ Agreement /\ [Next]_vars => Agreement'
<1> SUFFICES ASSUME TypeOK, Control, Agreement, [Next]_vars PROVE Agreement'
  OBVIOUS
<1>u. Unloaded.status = "unloaded" /\ Unloaded.step = "idle" /\ Unloaded.meta.cutoff
  BY DEF Unloaded, NewMeta
<1>n. None \notin Instances
  BY StatisticsAssumption
<1>w. \A i, j \in Instances : Working(i) /\ Working(j) => i = j
  BY DEF Control
<1>b. \A i, j \in Instances :
        (Busy(i, "bootstrap") \/ Busy(i, "migrate")) /\ Working(j) => i = j
  BY <1>w DEF Control, Busy
<1>1. ASSUME NEW i \in Instances, Load(i) PROVE Agreement'
  <2>1. /\ inst'[i].status = "running" /\ inst'[i].step = "idle" /\ inst'[i].meta = meta
        /\ \A j \in Instances \ {i} : inst'[j] = inst[j]
    BY <1>1, Registrations DEF Becomes
  <2>2. meta # None /\ meta.cutoff /\ meta' = meta /\ owner' = i
    BY <1>1 DEF Load
  <2>3. QED
    BY <2>1, <2>2 DEF Agreement, Loaded, Busy
<1>2. ASSUME NEW i \in Instances, Bootstrap(i) PROVE Agreement'
  <2>1. /\ inst'[i].status = "running" /\ inst'[i].step = "days" /\ inst'[i].for = "bootstrap"
        /\ inst'[i].meta = NewMeta(Fresh, {})
        /\ \A j \in Instances \ {i} : inst'[j] = inst[j]
    BY <1>2, Registrations DEF Becomes
  <2>2. meta = None /\ meta' = meta
    BY <1>2 DEF Bootstrap
  <2>3. inst'[i].meta.cutoff /\ inst'[i].meta.before = {}
    BY <2>1 DEF NewMeta
  <2>4. QED
    BY <2>1, <2>2, <2>3 DEF Agreement, Loaded, Busy
<1>3. ASSUME NEW i \in Instances, Migrate(i) PROVE Agreement'
  <2>1. PICK m \in MigratedMeta :
          Becomes(i, "running", "days", "migrate", m, [d \in Days |-> Migrated(d)],
                  {d \in Days : Counted(files[meta.generation][d]) # {}})
    BY <1>3, Registrations
  <2>2. /\ inst'[i].status = "running" /\ inst'[i].step = "days" /\ inst'[i].for = "migrate"
        /\ inst'[i].meta = m
        /\ \A j \in Instances \ {i} : inst'[j] = inst[j]
    BY <2>1 DEF Becomes
  <2>3. meta # None /\ ~meta.cutoff /\ meta' = meta /\ owner' = i
    BY <1>3 DEF Migrate
  <2>4. meta \in Metas
    BY <2>3 DEF TypeOK
  <2>5. m.cutoff /\ m.generation = meta.generation /\ m.before = meta.before
    BY <2>4 DEF MigratedMeta, Metas
  <2>6. QED
    BY <2>2, <2>3, <2>5 DEF Agreement, Loaded, Busy
<1>4. ASSUME NEW i \in Instances, NEW d \in Days, Append(i, d) PROVE Agreement'
  <2>1. PICK r \in Requests \ finished, step \in {"idle", "days"},
             for \in {"observe", inst[i].for} :
           /\ finished' = finished \cup {r}
           /\ step = "idle" \/ for = "observe"
           /\ Becomes(i, inst[i].status, step, for, inst[i].meta,
                      [inst[i].days EXCEPT ![d] = Added(inst[i].days[d], r)],
                      inst[i].dirty \cup {d})
    BY <1>4, Appends
  <2>2. /\ inst'[i].status = inst[i].status /\ inst'[i].step = step /\ inst'[i].for = for
        /\ inst'[i].meta = inst[i].meta
        /\ \A j \in Instances \ {i} : inst'[j] = inst[j]
    BY <2>1 DEF Becomes
  <2>3. inst[i].status # "unloaded" /\ inst[i].step = "idle" /\ meta' = meta /\ owner' = owner
    BY <1>4 DEF Append, Idle, history
  <2>4. QED
    BY <2>1, <2>2, <2>3, AgreementKept DEF Loaded, Busy
<1>5. ASSUME NEW i \in Instances, NEW d \in Days, WriteDay(i, d) PROVE Agreement'
  <2>1. /\ inst'[i].status = inst[i].status /\ inst'[i].step = inst[i].step
        /\ inst'[i].for = inst[i].for /\ inst'[i].meta = inst[i].meta
        /\ \A j \in Instances \ {i} : inst'[j] = inst[j]
    BY <1>5, Flushes DEF Becomes
  <2>2. meta' = meta /\ owner' = owner /\ Loaded(i)
    BY <1>5, <1>u DEF WriteDay, Control, Loaded
  <2>3. QED
    BY <2>1, <2>2, AgreementKept DEF Loaded, Busy
<1>6. ASSUME NEW i \in Instances, DaysWritten(i) PROVE Agreement'
  <2>1. Goes(i, IF inst[i].for = "final" THEN "stopped" ELSE inst[i].status,
             IF inst[i].for \in {"observe", "final"} THEN "idle" ELSE "meta", inst[i].for)
    BY <1>6, Flushes
  <2>2. meta' = meta /\ owner' = owner /\ inst[i].step = "days"
    BY <1>6 DEF DaysWritten, history
  <2>3. Loaded(i)
    BY <2>2, <1>u DEF Control, Loaded
  <2>4. QED
    BY <2>1, <2>2, <2>3, AgreementKept DEF Goes, Becomes, Loaded, Busy
<1>7. ASSUME NEW i \in Instances, WriteDayFails(i) \/ WriteMetaFails(i) PROVE Agreement'
  <2>1. meta' = meta /\ owner' = owner /\ inst[i].step # "idle"
    BY <1>7 DEF WriteDayFails, WriteMetaFails, history
  <2>2. CASE Vanishes(i)
    BY <2>1, <2>2, AgreementGone DEF Vanishes
  <2>3. CASE /\ inst[i].for \in {"observe", "final", "reset"}
             /\ \E status : Goes(i, status, "idle", inst[i].for) /\ status # "unloaded"
    <3>1. Loaded(i)
      BY <2>1, <1>u DEF Control, Loaded
    <3>2. QED
      BY <2>1, <2>3, <3>1, AgreementKept DEF Goes, Becomes, Loaded, Busy
  <2>4. inst[i].status # "unloaded"
    BY <2>1, <1>u DEF Control, Loaded
  <2>5. QED
    BY <1>7, <2>2, <2>3, <2>4, Flushes
<1>8. ASSUME NEW i \in Instances,
             TimerFires(i) \/ Quiesce(i) \/ FinalFlush(i) \/ Reset(i) PROVE Agreement'
  <2>1. meta' = meta /\ owner' = owner /\ inst[i].step = "idle" /\ Loaded(i)
    BY <1>8 DEF TimerFires, Quiesce, FinalFlush, Reset, Idle, history, Loaded
  <2>2. \E status, step, for : /\ Goes(i, status, step, for) /\ status # "unloaded"
                               /\ step = "idle" \/ for \in {"observe", "final", "reset"}
    BY <1>8, <2>1, OtherMoves DEF Loaded
  <2>3. QED
    BY <2>1, <2>2, AgreementKept DEF Goes, Becomes, Loaded, Busy
<1>9. ASSUME NEW i \in Instances, WriteMeta(i) PROVE Agreement'
  <2>1. /\ inst'[i].status = inst[i].status /\ inst'[i].step = "idle"
        /\ inst'[i].meta = inst[i].meta
        /\ \A j \in Instances \ {i} : inst'[j] = inst[j]
    BY <1>9, Flushes DEF Goes, Becomes
  <2>2. /\ inst[i].step = "meta" /\ inst[i].for \in {"bootstrap", "migrate"}
        /\ meta' = inst[i].meta /\ owner' = owner
    BY <1>9 DEF WriteMeta
  <2>3. Working(i) /\ owner = i /\ meta' # None
    <3>1. inst[i].meta \in Metas
      BY DEF TypeOK, InstanceRecords
    <3>2. QED
      BY <2>2, <3>1, StatisticsAssumption DEF Control
  <2>4. \A j \in Instances \ {i} : ~Busy(j, "bootstrap") /\ ~Busy(j, "migrate")
    BY <1>b, <2>3
  <2>5. \A j \in Instances : ~Busy(j, "bootstrap")' /\ ~Busy(j, "migrate")'
    BY <2>1, <2>4 DEF Busy
  <2>6. \A j \in Instances : inst'[j].meta = inst[j].meta
    BY <2>1
  <2>7. CASE inst[i].for = "bootstrap"
    <3>1. meta = None
      BY <2>2, <2>7 DEF Agreement, Busy
    <3>2. \A j \in Instances \ {i} : ~Loaded(j)'
      BY <2>1, <2>4, <3>1 DEF Agreement, Loaded
    <3>3. QED
      BY <2>1, <2>2, <2>3, <2>5, <2>6, <3>2 DEF Agreement
  <2>8. CASE inst[i].for = "migrate"
    <3>1. meta # None /\ inst[i].meta.generation = meta.generation
      BY <2>2, <2>8 DEF Agreement, Busy
    <3>2. inst[i].meta.before = meta.before
      BY <2>3, <3>1 DEF Agreement, Loaded, Working
    <3>3. \A j \in Instances : Loaded(j)' => Loaded(j)
      BY <2>1 DEF Loaded
    <3>4. QED
      BY <2>1, <2>2, <2>3, <2>5, <2>6, <3>1, <3>2, <3>3 DEF Agreement
  <2>9. QED
    BY <2>2, <2>7, <2>8
<1>10. ASSUME NEW i \in Instances, SwitchGeneration(i) PROVE Agreement'
  <2>1. /\ inst'[i].step = "idle" /\ inst'[i].meta = NewMeta(Fresh, finished)
        /\ \A j \in Instances \ {i} : inst'[j] = inst[j]
    BY <1>10, Registrations DEF Becomes
  <2>2. /\ inst[i].step = "meta" /\ inst[i].for = "reset"
        /\ meta' = NewMeta(Fresh, finished) /\ owner' = owner
    BY <1>10 DEF SwitchGeneration
  <2>3. Working(i) /\ owner = i
    BY <2>2 DEF Control
  <2>4. \A j \in Instances : ~Busy(j, "bootstrap")' /\ ~Busy(j, "migrate")'
    BY <1>b, <2>1, <2>3 DEF Busy
  <2>5. \A j \in Instances \ {i} : Loaded(j)' => inst'[j].meta.generation # Fresh
    BY <2>1, FreshGeneration DEF Loaded
  <2>6. meta'.generation = Fresh /\ meta'.cutoff /\ meta' # None
    <3>1. meta' \in Metas
      BY <2>2, FreshGeneration, RegisteredTypes DEF TypeOK
    <3>2. QED
      BY <2>2, <3>1, StatisticsAssumption DEF NewMeta
  <2>7. \A j \in Instances : inst'[j].meta.cutoff
    BY <2>1, <2>2, <2>6 DEF Agreement
  <2>8. QED
    BY <2>1, <2>2, <2>3, <2>4, <2>5, <2>6, <2>7 DEF Agreement
<1>11. CASE Kill
  <2>1. meta' = meta /\ owner' = owner /\ \A j \in Instances : inst'[j] = Unloaded
    BY <1>11 DEF Kill, history
  <2>2. QED
    BY <2>1, AgreementGone
<1>12. CASE UNCHANGED vars
  BY <1>12, AgreementGone DEF vars
<1>13. QED
  BY <1>1, <1>2, <1>3, <1>4, <1>5, <1>6, <1>7, <1>8, <1>9, <1>10, <1>11, <1>12
     DEF Next, Register, FlushStep

-----------------------------------------------------------------------------
(* The steps by what they do to the counts *)

\* A step of i that moves no count.
Quiet(i) ==
  /\ UNCHANGED <<meta, files, logs, finished, owner, overtaken, promised>>
  /\ Loaded(i) /\ Loaded(i)' /\ (Working(i)' => Working(i))
  /\ inst'[i].meta = inst[i].meta /\ inst'[i].days = inst[i].days
  /\ inst'[i].dirty = inst[i].dirty
  /\ \A j \in Instances \ {i} : inst'[j] = inst[j]
  /\ \A for \in {"bootstrap", "migrate"} : Busy(i, for)' => Busy(i, for)

\* Instances vanish with their memory, or nothing happens.
Lost ==
  /\ UNCHANGED <<meta, files, logs, finished, owner, overtaken, promised>>
  /\ \A j \in Instances : inst'[j] \in {inst[j], Unloaded}

LEMMA StepKinds ==
  ASSUME TypeOK, Control, [Next]_vars
  PROVE  \/ \E i \in Instances :
              \/ Load(i) \/ Bootstrap(i) \/ Migrate(i) \/ WriteMeta(i) \/ SwitchGeneration(i)
              \/ Quiet(i)
              \/ \E d \in Days : Append(i, d) \/ WriteDay(i, d)
         \/ Lost
<1>u. Unloaded.step = "idle"
  BY DEF Unloaded
<1>1. ASSUME NEW i \in Instances, DaysWritten(i) PROVE Quiet(i)
  <2>1. Goes(i, IF inst[i].for = "final" THEN "stopped" ELSE inst[i].status,
             IF inst[i].for \in {"observe", "final"} THEN "idle" ELSE "meta", inst[i].for)
    BY <1>1, Flushes
  <2>2. inst[i].step = "days" /\ Loaded(i)
    BY <1>1, <1>u DEF DaysWritten, Control, Loaded
  <2>3. UNCHANGED <<meta, files, logs, finished, owner, overtaken, promised>>
    BY <1>1 DEF DaysWritten, history
  <2>4. QED
    BY <2>1, <2>2, <2>3 DEF Quiet, Goes, Becomes, Loaded, Working, Busy
<1>2. ASSUME NEW i \in Instances, WriteDayFails(i) \/ WriteMetaFails(i) PROVE Quiet(i) \/ Lost
  <2>1. /\ UNCHANGED <<meta, files, logs, finished, owner, overtaken, promised>>
        /\ inst[i].step # "idle"
    BY <1>2 DEF WriteDayFails, WriteMetaFails, history
  <2>2. Loaded(i)
    BY <2>1, <1>u DEF Control, Loaded
  <2>3. Vanishes(i) => Lost
    BY <2>1 DEF Vanishes, Lost
  <2>4. ASSUME NEW status \in {"stopped", inst[i].status}, Goes(i, status, "idle", inst[i].for)
        PROVE  Quiet(i)
    BY <2>1, <2>2, <2>4 DEF Quiet, Goes, Becomes, Loaded, Working, Busy
  <2>5. QED
    BY <1>2, <2>3, <2>4, Flushes
<1>3. ASSUME NEW i \in Instances, TimerFires(i) \/ Quiesce(i) \/ FinalFlush(i) \/ Reset(i)
      PROVE  Quiet(i)
  <2>1. /\ UNCHANGED <<meta, files, logs, finished, owner, overtaken, promised>>
        /\ Loaded(i) /\ inst[i].step = "idle"
    BY <1>3 DEF TimerFires, Quiesce, FinalFlush, Reset, Idle, history, bounds, Loaded
  <2>2. Quiesce(i) => Working(i)
    BY DEF Quiesce, Running, Working
  <2>3. ASSUME NEW status \in {"draining", inst[i].status}, NEW step, NEW for,
               Goes(i, status, step, for), step = "idle" \/ for \in {"observe", "final", "reset"},
               status = "draining" => Working(i)
        PROVE  Quiet(i)
    BY <2>1, <2>3 DEF Quiet, Goes, Becomes, Loaded, Working, Busy
  <2>4. TimerFires(i) => Quiet(i)
    BY <2>1, <2>3, OtherMoves DEF Working
  <2>5. Quiesce(i) => Quiet(i)
    BY <2>1, <2>2, <2>3, OtherMoves
  <2>6. FinalFlush(i) \/ Reset(i) => Quiet(i)
    BY <2>1, <2>3, OtherMoves DEF Working
  <2>7. QED
    BY <1>3, <2>4, <2>5, <2>6
<1>4. Kill => Lost
  BY DEF Kill, Lost, history
<1>5. UNCHANGED vars => Lost
  BY DEF vars, Lost
<1>6. QED
  BY <1>1, <1>2, <1>3, <1>4, <1>5 DEF Next, Register, FlushStep

\* The files after the steps that write them.
LEMMA FilesWritten ==
  ASSUME TypeOK, NEW i \in Instances, NEW d \in Days, WriteDay(i, d)
  PROVE  /\ inst[i].meta.generation \in Generations
         /\ \A g \in Generations, e \in Days :
              files'[g][e] = IF g = inst[i].meta.generation /\ e = d THEN inst[i].days[d]
                             ELSE files[g][e]
BY DEF WriteDay, TypeOK, InstanceRecords, Metas

LEMMA FilesCleared ==
  ASSUME TypeOK, NEW i \in Instances, Bootstrap(i) \/ SwitchGeneration(i)
  PROVE  /\ Fresh \in Generations
         /\ \A g \in Generations : files'[g] = IF g = Fresh THEN NoDays ELSE files[g]
BY FreshGeneration DEF Bootstrap, SwitchGeneration, TypeOK

\* A migration leaves the counts alone.
LEMMA MigratedCounts ==
  ASSUME TypeOK, meta # None, NEW d \in Days
  PROVE  /\ Migrated(d).counts = files[meta.generation][d].counts
         /\ Counted(Migrated(d)) = Counted(files[meta.generation][d])
<1>1. files[meta.generation][d] \in Totals
  BY MigratedTypes
<1>2. Migrated(d).counts = files[meta.generation][d].counts
  BY <1>1 DEF Migrated, Totals
<1>3. QED
  BY <1>2 DEF Counted

LEMMA GenerationTypes ==
  ASSUME TypeOK
  PROVE  /\ meta # None => meta \in Metas /\ meta.generation \in Generations
         /\ \A i \in Instances : /\ inst[i].meta \in Metas
                                 /\ inst[i].meta.generation \in Generations
                                 /\ inst[i].days \in [Days -> Totals]
         /\ \A g \in Generations : files[g] \in [Days -> Totals]
BY DEF TypeOK, InstanceRecords, Metas

\* The invariant the others rest on.
Shape == TypeOK /\ Control /\ Agreement

LEMMA ShapeHolds == Spec => []Shape
<1>1. Init => Shape
  BY TypeInit, ControlInit, AgreementInit DEF Shape
<1>2. Shape /\ [Next]_vars => Shape'
  BY TypeStep, ControlStep, AgreementStep DEF Shape
<1>3. QED
  BY <1>1, <1>2, PTL DEF Spec

-----------------------------------------------------------------------------
(* Rates *)

\* Rates in memory meet the cutoff, and those on disk do as far as a bootstrap
\* or a migration has come; no rate is without its request.
RatesMigrate ==
  /\ \A i \in Instances, d \in Days :
       inst[i].days[d].rated \subseteq Qualified \cap Counted(inst[i].days[d])
  /\ \A g \in Generations, d \in Days : files[g][d].rated \subseteq Counted(files[g][d])
  /\ \A i \in Instances : Busy(i, "bootstrap") =>
       \A d \in Days : files[inst[i].meta.generation][d].rated \subseteq Qualified
  /\ \A i \in Instances : Busy(i, "migrate") =>
       \A d \in Days \ inst[i].dirty : files[inst[i].meta.generation][d].rated \subseteq Qualified
  /\ meta # None /\ meta.cutoff =>
       \A d \in Days : files[meta.generation][d].rated \subseteq Qualified

LEMMA NoRates == NoTotals.rated = {} /\ \A d \in Days : NoDays[d] = NoTotals
BY DEF NoTotals, NoDays

LEMMA RatesInit == Init => RatesMigrate
<1> SUFFICES ASSUME Init PROVE RatesMigrate
  OBVIOUS
<1>1. TypeOK
  BY TypeInit
<1>2. \A i \in Instances : inst[i].days = NoDays /\ inst[i].step = "idle"
  BY DEF Init, Unloaded
<1>3. \A g \in Generations, d \in Days : files[g][d].rated \subseteq Counted(files[g][d])
  <2>1. CASE files = [g \in Generations |-> NoDays]
    BY <2>1, NoRates
  <2>2. CASE /\ promised \in SUBSET OldRequests
             /\ files = [g \in Generations |-> IF g = 1 THEN OldDays(promised) ELSE NoDays]
    <3>1. ASSUME NEW d \in Days
          PROVE  OldDays(promised)[d].rated \subseteq Counted(OldDays(promised)[d])
      <4> DEFINE here == {r \in promised : OldDay[r] = d}
      <4>1. FromLogs(promised, d) \in Totals
        BY <2>2, BucketTypes
      <4>2. OldDays(promised)[d] = [FromLogs(promised, d) EXCEPT !.rated = here]
        BY DEF OldDays
      <4>3. /\ OldDays(promised)[d].rated = here
            /\ OldDays(promised)[d].counts = FromLogs(promised, d).counts
        BY <4>1, <4>2 DEF Totals
      <4>4. Counted(FromLogs(promised, d)) = here
        BY <2>2, CountedBuckets
      <4>5. QED
        BY <4>3, <4>4 DEF Counted
    <3>2. QED
      BY <2>2, <3>1, NoRates
  <2>3. QED
    BY <2>1, <2>2 DEF Init
<1>4. meta # None => ~meta.cutoff
  BY DEF Init, NewMeta
<1>5. QED
  BY <1>2, <1>3, <1>4, NoRates DEF RatesMigrate, Busy

LEMMA RatesStep == Shape /\ RatesMigrate /\ [Next]_vars => RatesMigrate'
<1> SUFFICES ASSUME TypeOK, Control, Agreement, RatesMigrate, [Next]_vars PROVE RatesMigrate'
  BY DEF Shape
<1>g. /\ meta # None => meta \in Metas /\ meta.generation \in Generations
      /\ \A i \in Instances : /\ inst[i].meta.generation \in Generations
                              /\ inst[i].days \in [Days -> Totals]
  BY GenerationTypes
<1>1. ASSUME NEW i \in Instances, Load(i) PROVE RatesMigrate'
  <2>1. /\ inst'[i].step = "idle" /\ inst'[i].days = files[meta.generation]
        /\ \A j \in Instances \ {i} : inst'[j] = inst[j]
    BY <1>1, Registrations DEF Becomes
  <2>2. meta # None /\ meta.cutoff /\ meta' = meta /\ files' = files
    BY <1>1 DEF Load
  <2>3. \A d \in Days : inst'[i].days[d].rated \subseteq Qualified \cap Counted(inst'[i].days[d])
    BY <1>g, <2>1, <2>2 DEF RatesMigrate
  <2>4. QED
    BY <2>1, <2>2, <2>3 DEF RatesMigrate, Busy
<1>2. ASSUME NEW i \in Instances, Bootstrap(i) PROVE RatesMigrate'
  <2>1. /\ inst'[i].for = "bootstrap" /\ inst'[i].meta = NewMeta(Fresh, {})
        /\ inst'[i].days = [d \in Days |-> FromLogs(logs, d)]
        /\ \A j \in Instances \ {i} : inst'[j] = inst[j]
    BY <1>2, Registrations DEF Becomes
  <2>2. meta = None /\ meta' = None
    BY <1>2 DEF Bootstrap
  <2>3. \A d \in Days : FromLogs(logs, d).rated \subseteq Qualified \cap Counted(FromLogs(logs, d))
    BY CountedBuckets DEF FromLogs, TypeOK
  <2>4. /\ Fresh \in Generations
        /\ \A g \in Generations : files'[g] = IF g = Fresh THEN NoDays ELSE files[g]
    BY <1>2, FilesCleared
  <2>5. inst'[i].meta.generation = Fresh
    BY <2>1 DEF NewMeta
  <2>6. \A g \in Generations, d \in Days : files'[g][d].rated \subseteq Counted(files'[g][d])
    BY <2>4, NoRates DEF RatesMigrate
  <2>7. \A j \in Instances \ {i} : ~Busy(j, "bootstrap") /\ ~Busy(j, "migrate")
    BY <1>2 DEF Bootstrap, MayRegister, Control, Busy, Working
  <2>8. \A d \in Days : files'[Fresh][d].rated = {}
    BY <2>4, NoRates
  <2>9. /\ \A j \in Instances, d \in Days :
             inst'[j].days[d].rated \subseteq Qualified \cap Counted(inst'[j].days[d])
        /\ \A j \in Instances : Busy(j, "bootstrap")' => inst'[j].meta.generation = Fresh
        /\ \A j \in Instances : ~Busy(j, "migrate")'
    BY <2>1, <2>3, <2>5, <2>7 DEF RatesMigrate, Busy
  <2>10. QED
    BY <2>2, <2>6, <2>8, <2>9 DEF RatesMigrate
<1>3. ASSUME NEW i \in Instances, Migrate(i) PROVE RatesMigrate'
  <2>1. PICK m \in MigratedMeta :
          Becomes(i, "running", "days", "migrate", m, [d \in Days |-> Migrated(d)],
                  {d \in Days : Counted(files[meta.generation][d]) # {}})
    BY <1>3, Registrations
  <2>2. /\ inst'[i].for = "migrate" /\ inst'[i].meta = m
        /\ inst'[i].days = [d \in Days |-> Migrated(d)]
        /\ inst'[i].dirty = {d \in Days : Counted(files[meta.generation][d]) # {}}
        /\ \A j \in Instances \ {i} : inst'[j] = inst[j]
    BY <2>1 DEF Becomes
  <2>3. meta # None /\ ~meta.cutoff /\ meta' = meta /\ files' = files
    BY <1>3 DEF Migrate
  <2>4. m.generation = meta.generation
    BY <1>g, <2>3 DEF MigratedMeta, Metas
  <2>5. \A d \in Days : Migrated(d).rated \subseteq Qualified \cap Counted(Migrated(d))
    <3> SUFFICES ASSUME NEW d \in Days
                 PROVE  Migrated(d).rated \subseteq Qualified \cap Counted(files[meta.generation][d])
      BY <2>3, MigratedCounts
    <3>1. files[meta.generation][d] \in Totals
      BY <2>3, MigratedTypes
    <3>2. Migrated(d).rated = IF Complete(d) THEN Counted(files[meta.generation][d]) \cap Qualified
                              ELSE {}
      BY <3>1 DEF Migrated, Totals
    <3>3. QED
      BY <3>2
  <2>6. \A d \in Days \ inst'[i].dirty : files[meta.generation][d].rated = {}
    BY <1>g, <2>2, <2>3 DEF RatesMigrate
  <2>7. \A j \in Instances, d \in Days :
          inst'[j].days[d].rated \subseteq Qualified \cap Counted(inst'[j].days[d])
    BY <2>2, <2>5 DEF RatesMigrate
  <2>8. \A j \in Instances : Busy(j, "bootstrap")' => inst'[j] = inst[j] /\ Busy(j, "bootstrap")
    BY <2>2 DEF Busy
  <2>9. \A j \in Instances \ {i} :
          inst'[j] = inst[j] /\ (Busy(j, "migrate")' => Busy(j, "migrate"))
    BY <2>2 DEF Busy
  <2>10. \A j \in Instances : Busy(j, "migrate")' =>
          \A d \in Days \ inst'[j].dirty :
            files[inst'[j].meta.generation][d].rated \subseteq Qualified
    BY <2>2, <2>4, <2>6, <2>9 DEF RatesMigrate
  <2>11. QED
    BY <2>3, <2>7, <2>8, <2>10 DEF RatesMigrate
<1>4. ASSUME NEW i \in Instances, WriteMeta(i) PROVE RatesMigrate'
  <2>1. /\ inst'[i].step = "idle" /\ inst'[i].meta = inst[i].meta
        /\ inst'[i].days = inst[i].days
        /\ \A j \in Instances \ {i} : inst'[j] = inst[j]
    BY <1>4, Flushes DEF Goes, Becomes
  <2>2. /\ inst[i].step = "meta" /\ inst[i].for \in {"bootstrap", "migrate"}
        /\ meta' = inst[i].meta /\ files' = files
    BY <1>4 DEF WriteMeta
  <2>3. \A d \in Days : files[inst[i].meta.generation][d].rated \subseteq Qualified
    BY <2>2 DEF RatesMigrate, Busy, Control
  <2>4. \A j \in Instances : /\ inst'[j].days = inst[j].days
                             /\ Busy(j, "bootstrap")' => j # i /\ Busy(j, "bootstrap")
                             /\ Busy(j, "migrate")' => j # i /\ Busy(j, "migrate")
    BY <2>1 DEF Busy
  <2>5. QED
    BY <2>1, <2>2, <2>3, <2>4 DEF RatesMigrate
<1>5. ASSUME NEW i \in Instances, SwitchGeneration(i) PROVE RatesMigrate'
  <2>1. /\ inst'[i].step = "idle" /\ inst'[i].days = NoDays
        /\ \A j \in Instances \ {i} : inst'[j] = inst[j]
    BY <1>5, Registrations DEF Becomes
  <2>2. /\ inst[i].step = "meta" /\ inst[i].for = "reset"
        /\ meta' = NewMeta(Fresh, finished)
    BY <1>5 DEF SwitchGeneration
  <2>3. /\ Fresh \in Generations
        /\ \A g \in Generations : files'[g] = IF g = Fresh THEN NoDays ELSE files[g]
    BY <1>5, FilesCleared
  <2>4. \A j \in Instances : ~Busy(j, "bootstrap")' /\ ~Busy(j, "migrate")'
    BY <2>1, <2>2 DEF Busy, Control, Working
  <2>5. meta'.generation = Fresh
    BY <2>2 DEF NewMeta
  <2>6. \A g \in Generations, d \in Days : files'[g][d].rated \subseteq Counted(files'[g][d])
    BY <2>3, NoRates DEF RatesMigrate
  <2>7. \A j \in Instances, d \in Days :
          inst'[j].days[d].rated \subseteq Qualified \cap Counted(inst'[j].days[d])
    BY <2>1, NoRates DEF RatesMigrate
  <2>8. QED
    BY <2>3, <2>4, <2>5, <2>6, <2>7, NoRates DEF RatesMigrate
<1>6. ASSUME NEW i \in Instances, Quiet(i) PROVE RatesMigrate'
  <2>1. \A j \in Instances : /\ inst'[j].days = inst[j].days /\ inst'[j].meta = inst[j].meta
                             /\ inst'[j].dirty = inst[j].dirty
                             /\ Busy(j, "bootstrap")' => Busy(j, "bootstrap")
                             /\ Busy(j, "migrate")' => Busy(j, "migrate")
    BY <1>6 DEF Quiet, Busy
  <2>2. meta' = meta /\ files' = files
    BY <1>6 DEF Quiet
  <2>3. QED
    BY <2>1, <2>2 DEF RatesMigrate
<1>7. ASSUME NEW i \in Instances, NEW d \in Days, Append(i, d) PROVE RatesMigrate'
  <2>1. PICK r \in Requests \ finished, step \in {"idle", "days"},
             for \in {"observe", inst[i].for} :
           /\ finished' = finished \cup {r}
           /\ step = "idle" \/ for = "observe"
           /\ Becomes(i, inst[i].status, step, for, inst[i].meta,
                      [inst[i].days EXCEPT ![d] = Added(inst[i].days[d], r)],
                      inst[i].dirty \cup {d})
    BY <1>7, Appends
  <2>2. /\ inst'[i].step = step /\ inst'[i].for = for
        /\ inst'[i].days = [inst[i].days EXCEPT ![d] = Added(inst[i].days[d], r)]
        /\ \A j \in Instances \ {i} : inst'[j] = inst[j]
    BY <2>1 DEF Becomes
  <2>3. meta' = meta /\ files' = files
    BY <1>7 DEF Append
  <2>4. Added(inst[i].days[d], r).rated = inst[i].days[d].rated \cup ({r} \cap Qualified)
    BY DEF Added
  <2>5. Counted(Added(inst[i].days[d], r)) = Counted(inst[i].days[d]) \cup {r}
    BY <1>g, CountedBuckets
  <2>6. \A e \in Days : inst'[i].days[e].rated \subseteq Qualified \cap Counted(inst'[i].days[e])
    BY <1>g, <2>2, <2>4, <2>5 DEF RatesMigrate
  <2>7. \A j \in Instances : /\ Busy(j, "bootstrap")' => j # i /\ Busy(j, "bootstrap")
                             /\ Busy(j, "migrate")' => j # i /\ Busy(j, "migrate")
    BY <2>1, <2>2 DEF Busy
  <2>8. QED
    BY <2>2, <2>3, <2>6, <2>7 DEF RatesMigrate
<1>8. ASSUME NEW i \in Instances, NEW d \in Days, WriteDay(i, d) PROVE RatesMigrate'
  <2>1. /\ inst'[i].step = inst[i].step /\ inst'[i].for = inst[i].for
        /\ inst'[i].meta = inst[i].meta /\ inst'[i].days = inst[i].days
        /\ inst'[i].dirty = inst[i].dirty \ {d}
        /\ \A j \in Instances \ {i} : inst'[j] = inst[j]
    BY <1>8, Flushes DEF Becomes
  <2>2. meta' = meta
    BY <1>8 DEF WriteDay
  <2>3. \A g \in Generations, e \in Days :
          files'[g][e] = IF g = inst[i].meta.generation /\ e = d THEN inst[i].days[d]
                         ELSE files[g][e]
    BY <1>8, FilesWritten
  <2>4. \A j \in Instances : /\ inst'[j].days = inst[j].days /\ inst'[j].meta = inst[j].meta
                             /\ inst'[j].dirty = IF j = i THEN inst[i].dirty \ {d} ELSE inst[j].dirty
                             /\ Busy(j, "bootstrap")' <=> Busy(j, "bootstrap")
                             /\ Busy(j, "migrate")' <=> Busy(j, "migrate")
    BY <2>1 DEF Busy
  <2>5. inst[i].days[d].rated \subseteq Qualified \cap Counted(inst[i].days[d])
    BY DEF RatesMigrate
  <2>6. \A g \in Generations, e \in Days : files'[g][e].rated \subseteq Counted(files'[g][e])
    BY <2>3, <2>5 DEF RatesMigrate
  <2>7. \A j \in Instances : Busy(j, "bootstrap")' =>
          \A e \in Days : files'[inst'[j].meta.generation][e].rated \subseteq Qualified
    BY <1>g, <2>3, <2>4, <2>5 DEF RatesMigrate
  <2>8. \A j \in Instances : Busy(j, "migrate")' =>
          \A e \in Days \ inst'[j].dirty :
            files'[inst'[j].meta.generation][e].rated \subseteq Qualified
    <3> SUFFICES ASSUME NEW j \in Instances, Busy(j, "migrate"), NEW e \in Days,
                        e \notin inst'[j].dirty
                 PROVE  files'[inst[j].meta.generation][e].rated \subseteq Qualified
      BY <2>4
    <3>1. CASE inst[j].meta.generation = inst[i].meta.generation /\ e = d
      BY <1>g, <2>3, <2>5, <3>1
    <3>2. CASE ~(inst[j].meta.generation = inst[i].meta.generation /\ e = d)
      <4>1. files'[inst[j].meta.generation][e] = files[inst[j].meta.generation][e]
        BY <1>g, <2>3, <3>2
      <4>2. e \notin inst[j].dirty
        BY <2>4, <3>2
      <4>3. QED
        BY <4>1, <4>2 DEF RatesMigrate
    <3>3. QED
      BY <3>1, <3>2
  <2>9. meta # None /\ meta.cutoff =>
          \A e \in Days : files'[meta.generation][e].rated \subseteq Qualified
    BY <1>g, <2>3, <2>5 DEF RatesMigrate
  <2>10. QED
    BY <2>2, <2>4, <2>6, <2>7, <2>8, <2>9 DEF RatesMigrate
<1>9. CASE Lost
  <2>1. Unloaded.step = "idle" /\ Unloaded.days = NoDays
    BY DEF Unloaded
  <2>2. meta' = meta /\ files' = files
    BY <1>9 DEF Lost
  <2>3. \A j \in Instances : inst'[j] = inst[j] \/ inst'[j] = Unloaded
    BY <1>9 DEF Lost
  <2>4. \A j \in Instances, d \in Days :
          inst'[j].days[d].rated \subseteq Qualified \cap Counted(inst'[j].days[d])
    BY <2>1, <2>3, NoRates DEF RatesMigrate
  <2>5. \A j \in Instances, for \in {"bootstrap", "migrate"} :
          Busy(j, for)' => inst'[j] = inst[j] /\ Busy(j, for)
    BY <2>1, <2>3 DEF Busy
  <2>6. QED
    BY <2>2, <2>4, <2>5 DEF RatesMigrate
<1>10. QED
  BY <1>1, <1>2, <1>3, <1>4, <1>5, <1>6, <1>7, <1>8, <1>9, StepKinds

\* Once the metadata says so, every average is made of rates that meet the cutoff.
THEOREM RatesAlwaysMeetCutoff == Spec => []RatesMeetCutoff
<1>1. Shape /\ RatesMigrate => RatesMeetCutoff
  BY DEF RatesMigrate, RatesMeetCutoff
<1>2. QED
  BY <1>1, RatesInit, RatesStep, ShapeHolds, PTL DEF Spec

-----------------------------------------------------------------------------
(* Counts *)

\* Two sets of buckets that do not hold one request in two days.
Together(a, b) == \A d, e \in Days : d # e => Counted(a[d]) \cap Counted(b[e]) = {}
OnceEach(a) == \A d \in Days, r \in Requests : a[d].counts[r] <= 1

\* Whatever is combined by a write or a start holds a request once: a day that
\* an instance writes never repeats what another day of the generation counts.
CountsAgree ==
  /\ OldRequests \subseteq finished
  /\ \A g \in Generations :
       Together(files[g], files[g]) /\ OnceEach(files[g]) /\ CountedIn(files[g]) \subseteq finished
  /\ \A i \in Instances :
       OnceEach(inst[i].days) /\ CountedIn(inst[i].days) \subseteq finished
  /\ \A i \in Instances : Loaded(i) => Together(inst[i].days, files[inst[i].meta.generation])
  /\ \A i, j \in Instances :
       Loaded(i) /\ Loaded(j) /\ inst[i].meta.generation = inst[j].meta.generation =>
         Together(inst[i].days, inst[j].days)

LEMMA EmptyDays ==
  ASSUME NEW a
  PROVE  /\ OnceEach(NoDays) /\ CountedIn(NoDays) = {}
         /\ Together(NoDays, a) /\ Together(a, NoDays)
<1>1. \A r \in Requests : NoTotals.counts[r] = 0
  BY DEF NoTotals, NoCounts
<1>2. \A d \in Days : NoDays[d] = NoTotals
  BY NoRates
<1>3. Counted(NoTotals) = {} /\ CountedIn(NoDays) = {}
  BY CountedBuckets
<1>4. OnceEach(NoDays)
  BY <1>1, <1>2 DEF OnceEach
<1>5. QED
  BY <1>2, <1>3, <1>4 DEF Together

LEMMA SameCounts ==
  ASSUME NEW a, NEW b, \A d \in Days : a[d].counts = b[d].counts
  PROVE  /\ \A c : (Together(a, c) <=> Together(b, c)) /\ (Together(c, a) <=> Together(c, b))
         /\ OnceEach(a) <=> OnceEach(b)
         /\ CountedIn(a) = CountedIn(b)
<1>1. \A d \in Days : Counted(a[d]) = Counted(b[d])
  BY DEF Counted
<1>2. QED
  BY <1>1 DEF Together, OnceEach, CountedIn

LEMMA LogDays ==
  ASSUME NEW rows \in SUBSET OldRequests
  PROVE  LET days == [d \in Days |-> FromLogs(rows, d)]
         IN Together(days, days) /\ OnceEach(days) /\ CountedIn(days) = rows
<1> DEFINE days == [d \in Days |-> FromLogs(rows, d)]
<1>1. \A d \in Days : Counted(days[d]) = {r \in rows : OldDay[r] = d}
  BY CountedBuckets
<1>2. \A d \in Days, r \in Requests : days[d].counts[r] \in {0, 1}
  BY DEF FromLogs
<1>3. Together(days, days)
  BY <1>1 DEF Together
<1>4. OnceEach(days)
  BY <1>2 DEF OnceEach
<1>5. CountedIn(days) = rows
  <2> HIDE DEF days
  <2>1. \A r \in rows : OldDay[r] \in Days
    BY StatisticsAssumption
  <2>2. QED
    BY <1>1, <2>1 DEF CountedIn
<1>6. QED
  BY <1>3, <1>4, <1>5

LEMMA CountsInit == Init => CountsAgree
<1> SUFFICES ASSUME Init PROVE CountsAgree
  OBVIOUS
<1>1. \A i \in Instances : inst[i].days = NoDays /\ ~Loaded(i)
  BY DEF Init, Unloaded, Loaded
<1>2. finished = OldRequests
  BY DEF Init
<1>3. \A g \in Generations :
        Together(files[g], files[g]) /\ OnceEach(files[g]) /\ CountedIn(files[g]) \subseteq finished
  <2>1. CASE files = [g \in Generations |-> NoDays]
    BY <2>1, EmptyDays
  <2>2. CASE /\ promised \in SUBSET OldRequests
             /\ files = [g \in Generations |-> IF g = 1 THEN OldDays(promised) ELSE NoDays]
    <3> DEFINE days == [d \in Days |-> FromLogs(promised, d)]
    <3>1. \A d \in Days : OldDays(promised)[d].counts = days[d].counts
      <4> SUFFICES ASSUME NEW d \in Days
                   PROVE  OldDays(promised)[d].counts = FromLogs(promised, d).counts
        OBVIOUS
      <4>1. FromLogs(promised, d) \in Totals
        BY <2>2, BucketTypes
      <4>2. OldDays(promised)[d] =
              [FromLogs(promised, d) EXCEPT !.rated = {r \in promised : OldDay[r] = d}]
        BY DEF OldDays
      <4>3. QED
        BY <4>1, <4>2 DEF Totals
    <3>2. Together(days, days) /\ OnceEach(days) /\ CountedIn(days) = promised
      BY <2>2, LogDays
    <3> HIDE DEF days
    <3>3. /\ Together(OldDays(promised), OldDays(promised)) /\ OnceEach(OldDays(promised))
          /\ CountedIn(OldDays(promised)) = promised
      BY <3>1, <3>2, SameCounts
    <3>4. QED
      BY <1>2, <2>2, <3>3, EmptyDays
  <2>3. QED
    BY <2>1, <2>2 DEF Init
<1>4. QED
  BY <1>1, <1>2, <1>3, EmptyDays DEF CountsAgree

\* A load or a migration: i has the counts of the files.
LEMMA CountsRead ==
  ASSUME TypeOK, CountsAgree, meta # None, NEW i \in Instances, inst'[i].status # "unloaded",
         inst'[i].meta.generation = meta.generation,
         \A d \in Days : inst'[i].days[d].counts = files[meta.generation][d].counts,
         files' = files, finished' = finished,
         \A j \in Instances \ {i} : inst'[j] = inst[j]
  PROVE  CountsAgree'
<1> DEFINE g == meta.generation
<1>1. g \in Generations
  BY GenerationTypes
<1>2. /\ \A c : (Together(inst'[i].days, c) <=> Together(files[g], c))
                /\ (Together(c, inst'[i].days) <=> Together(c, files[g]))
      /\ OnceEach(inst'[i].days) <=> OnceEach(files[g])
      /\ CountedIn(inst'[i].days) = CountedIn(files[g])
  BY SameCounts
<1>3. Together(files[g], files[g]) /\ OnceEach(files[g]) /\ CountedIn(files[g]) \subseteq finished
  BY <1>1 DEF CountsAgree
<1>4. \A j \in Instances \ {i} : Loaded(j) /\ inst[j].meta.generation = g =>
        Together(inst[j].days, files[g]) /\ Together(files[g], inst[j].days)
  BY DEF CountsAgree, Together
<1>5. \A j \in Instances : Loaded(j)' => Together(inst'[j].days, files[inst'[j].meta.generation])
  BY <1>2, <1>3 DEF CountsAgree, Loaded
<1>6. \A j, k \in Instances :
        Loaded(j)' /\ Loaded(k)' /\ inst'[j].meta.generation = inst'[k].meta.generation =>
          Together(inst'[j].days, inst'[k].days)
  <2> SUFFICES ASSUME NEW j \in Instances, NEW k \in Instances, Loaded(j)', Loaded(k)',
                      inst'[j].meta.generation = inst'[k].meta.generation
               PROVE  Together(inst'[j].days, inst'[k].days)
    OBVIOUS
  <2>1. CASE j = i /\ k = i
    BY <1>2, <1>3, <2>1
  <2>2. CASE j = i /\ k # i
    BY <1>2, <1>4, <2>2 DEF Loaded
  <2>3. CASE j # i /\ k = i
    BY <1>2, <1>4, <2>3 DEF Loaded
  <2>4. CASE j # i /\ k # i
    BY <2>4 DEF CountsAgree, Loaded
  <2>5. QED
    BY <2>1, <2>2, <2>3, <2>4
<1>7. \A j \in Instances : OnceEach(inst'[j].days) /\ CountedIn(inst'[j].days) \subseteq finished
  BY <1>2, <1>3 DEF CountsAgree
<1>8. QED
  BY <1>5, <1>6, <1>7 DEF CountsAgree

\* A bootstrap or a reset: a generation nobody else has, with empty files.
LEMMA CountsFresh ==
  ASSUME TypeOK, CountsAgree, NEW i \in Instances,
         inst'[i].meta.generation = Fresh,
         Together(inst'[i].days, inst'[i].days), OnceEach(inst'[i].days),
         CountedIn(inst'[i].days) \subseteq finished,
         \A g \in Generations : files'[g] = IF g = Fresh THEN NoDays ELSE files[g],
         finished' = finished,
         \A j \in Instances \ {i} : inst'[j] = inst[j]
  PROVE  CountsAgree'
<1>1. Fresh \in Generations /\ \A j \in Instances : Loaded(j) => inst[j].meta.generation # Fresh
  BY FreshGeneration DEF Loaded
<1>2. \A g \in Generations : /\ Together(files'[g], files'[g]) /\ OnceEach(files'[g])
                             /\ CountedIn(files'[g]) \subseteq finished
  BY EmptyDays DEF CountsAgree
<1>3. \A j \in Instances \ {i} : Loaded(j)' => inst'[j].meta.generation # Fresh
  BY <1>1 DEF Loaded
<1>4. \A j \in Instances : Loaded(j)' => Together(inst'[j].days, files'[inst'[j].meta.generation])
  <2> SUFFICES ASSUME NEW j \in Instances, Loaded(j)'
               PROVE  Together(inst'[j].days, files'[inst'[j].meta.generation])
    OBVIOUS
  <2>1. CASE j = i
    BY <1>1, <2>1, EmptyDays
  <2>2. CASE j # i
    <3>1. inst'[j] = inst[j] /\ Loaded(j) /\ inst[j].meta.generation \in Generations \ {Fresh}
      BY <1>1, <2>2, GenerationTypes DEF Loaded
    <3>2. QED
      BY <3>1 DEF CountsAgree
  <2>3. QED
    BY <2>1, <2>2
<1>5. \A j, k \in Instances :
        Loaded(j)' /\ Loaded(k)' /\ inst'[j].meta.generation = inst'[k].meta.generation =>
          Together(inst'[j].days, inst'[k].days)
  <2> SUFFICES ASSUME NEW j \in Instances, NEW k \in Instances, Loaded(j)', Loaded(k)',
                      inst'[j].meta.generation = inst'[k].meta.generation
               PROVE  Together(inst'[j].days, inst'[k].days)
    OBVIOUS
  <2>1. CASE j = i /\ k = i
    BY <2>1
  <2>2. CASE j # i /\ k # i
    BY <2>2 DEF CountsAgree, Loaded
  <2>3. QED
    BY <1>3, <2>1, <2>2
<1>6. \A j \in Instances : OnceEach(inst'[j].days) /\ CountedIn(inst'[j].days) \subseteq finished
  BY DEF CountsAgree
<1>7. QED
  BY <1>2, <1>4, <1>5, <1>6 DEF CountsAgree

LEMMA CountsAppended ==
  ASSUME TypeOK, CountsAgree, NEW i \in Instances, NEW d \in Days, Append(i, d)
  PROVE  CountsAgree'
<1>1. PICK r \in Requests \ finished, step \in {"idle", "days"},
           for \in {"observe", inst[i].for} :
         /\ finished' = finished \cup {r}
         /\ step = "idle" \/ for = "observe"
         /\ Becomes(i, inst[i].status, step, for, inst[i].meta,
                    [inst[i].days EXCEPT ![d] = Added(inst[i].days[d], r)],
                    inst[i].dirty \cup {d})
  BY Appends
<1>2. /\ inst'[i].status = inst[i].status /\ inst'[i].meta = inst[i].meta
      /\ inst'[i].days = [inst[i].days EXCEPT ![d] = Added(inst[i].days[d], r)]
      /\ \A j \in Instances \ {i} : inst'[j] = inst[j]
  BY <1>1 DEF Becomes
<1>3. files' = files
  BY DEF Append
<1>4. inst[i].days \in [Days -> Totals] /\ inst[i].days[d] \in Totals
  BY GenerationTypes
<1>5. /\ Counted(inst'[i].days[d]) = Counted(inst[i].days[d]) \cup {r}
      /\ \A e \in Days \ {d} : inst'[i].days[e] = inst[i].days[e]
  BY <1>2, <1>4, CountedBuckets
<1>6. /\ \A j \in Instances, e \in Days : r \notin Counted(inst[j].days[e])
      /\ \A g \in Generations, e \in Days : r \notin Counted(files[g][e])
  BY <1>1 DEF CountsAgree, CountedIn
<1>7. \A j \in Instances : Loaded(j)' = Loaded(j) /\ inst'[j].meta = inst[j].meta
  BY <1>2 DEF Loaded
<1>8. \A a : (\A e \in Days : r \notin Counted(a[e])) =>
         /\ Together(inst[i].days, a) => Together(inst'[i].days, a)
         /\ Together(a, inst[i].days) => Together(a, inst'[i].days)
  BY <1>5 DEF Together
<1>9. Together(inst[i].days, inst[i].days) => Together(inst'[i].days, inst'[i].days)
  BY <1>5, <1>6 DEF Together
<1>10. OnceEach(inst'[i].days)
  <2>1. Added(inst[i].days[d], r).counts =
          [inst[i].days[d].counts EXCEPT ![r] = inst[i].days[d].counts[r] + 1]
    BY DEF Added
  <2>2. inst[i].days[d].counts \in [Requests -> Nat]
    BY <1>4 DEF Totals, Counts
  <2>3. inst[i].days[d].counts[r] = 0
    BY <1>1, <1>6, <2>2 DEF Counted
  <2>4. \A q \in Requests : Added(inst[i].days[d], r).counts[q] <= 1
    BY <2>1, <2>2, <2>3 DEF CountsAgree, OnceEach
  <2>5. inst'[i].days[d] = Added(inst[i].days[d], r)
    BY <1>2, <1>4
  <2>6. QED
    BY <1>5, <2>4, <2>5 DEF CountsAgree, OnceEach
<1>11. CountedIn(inst'[i].days) \subseteq finished'
  BY <1>1, <1>5 DEF CountsAgree, CountedIn
<1>12. \A j \in Instances : Loaded(j)' => Together(inst'[j].days, files[inst'[j].meta.generation])
  BY <1>2, <1>6, <1>7, <1>8, GenerationTypes DEF CountsAgree
<1>13. \A j, k \in Instances :
        Loaded(j)' /\ Loaded(k)' /\ inst'[j].meta.generation = inst'[k].meta.generation =>
          Together(inst'[j].days, inst'[k].days)
  <2> SUFFICES ASSUME NEW j \in Instances, NEW k \in Instances, Loaded(j), Loaded(k),
                      inst[j].meta.generation = inst[k].meta.generation
               PROVE  Together(inst'[j].days, inst'[k].days)
    BY <1>7
  <2>1. Together(inst[j].days, inst[k].days)
    BY DEF CountsAgree
  <2>2. CASE j = i /\ k = i
    BY <1>9, <2>1, <2>2
  <2>3. CASE j = i /\ k # i
    BY <1>2, <1>6, <1>8, <2>1, <2>3
  <2>4. CASE j # i /\ k = i
    BY <1>2, <1>6, <1>8, <2>1, <2>4
  <2>5. CASE j # i /\ k # i
    BY <1>2, <2>1, <2>5
  <2>6. QED
    BY <2>2, <2>3, <2>4, <2>5
<1>14. QED
  BY <1>1, <1>2, <1>3, <1>10, <1>11, <1>12, <1>13 DEF CountsAgree

LEMMA CountsWritten ==
  ASSUME TypeOK, CountsAgree, NEW i \in Instances, NEW d \in Days, WriteDay(i, d), Loaded(i)
  PROVE  CountsAgree'
<1> DEFINE g == inst[i].meta.generation
<1>1. /\ inst'[i].status = inst[i].status /\ inst'[i].meta = inst[i].meta
      /\ inst'[i].days = inst[i].days
      /\ \A j \in Instances \ {i} : inst'[j] = inst[j]
  BY Flushes DEF Becomes
<1>2. finished' = finished
  BY DEF WriteDay
<1>3. /\ g \in Generations
      /\ \A h \in Generations, e \in Days :
           files'[h][e] = IF h = g /\ e = d THEN inst[i].days[d] ELSE files[h][e]
  BY FilesWritten
<1>4. \A j \in Instances : /\ inst'[j].days = inst[j].days /\ inst'[j].meta = inst[j].meta
                           /\ Loaded(j)' = Loaded(j)
  BY <1>1 DEF Loaded
<1> HIDE DEF g
<1>5. Together(inst[i].days, files[g]) /\ Together(inst[i].days, inst[i].days)
  BY DEF CountsAgree, g
<1>6. \A h \in Generations : Together(files'[h], files'[h])
  <2> SUFFICES ASSUME NEW h \in Generations, NEW e \in Days, NEW f \in Days, e # f
               PROVE  Counted(files'[h][e]) \cap Counted(files'[h][f]) = {}
    BY DEF Together
  <2>1. Counted(files[h][e]) \cap Counted(files[h][f]) = {}
    BY DEF CountsAgree, Together
  <2>2. CASE h = g
    BY <1>3, <1>5, <2>1, <2>2 DEF Together
  <2>3. CASE h # g
    BY <1>3, <2>1, <2>3
  <2>4. QED
    BY <2>2, <2>3
<1>7. \A h \in Generations : OnceEach(files'[h])
  BY <1>3 DEF CountsAgree, OnceEach
<1>8. \A h \in Generations : CountedIn(files'[h]) \subseteq finished
  BY <1>3 DEF CountsAgree, CountedIn
<1>9. \A j \in Instances : Loaded(j) => Together(inst[j].days, files'[inst[j].meta.generation])
  <2> SUFFICES ASSUME NEW j \in Instances, Loaded(j), NEW e \in Days, NEW f \in Days, e # f
               PROVE  Counted(inst[j].days[e]) \cap Counted(files'[inst[j].meta.generation][f]) = {}
    BY DEF Together
  <2>1. inst[j].meta.generation \in Generations
    BY GenerationTypes
  <2>2. Counted(inst[j].days[e]) \cap Counted(files[inst[j].meta.generation][f]) = {}
    BY DEF CountsAgree, Together
  <2>3. CASE inst[j].meta.generation = g /\ f = d
    <3>1. Together(inst[j].days, inst[i].days)
      BY <2>3 DEF CountsAgree, g
    <3>2. QED
      BY <1>3, <2>3, <3>1 DEF Together
  <2>4. CASE ~(inst[j].meta.generation = g /\ f = d)
    BY <1>3, <2>1, <2>2, <2>4
  <2>5. QED
    BY <2>3, <2>4
<1>10. QED
  BY <1>2, <1>4, <1>6, <1>7, <1>8, <1>9 DEF CountsAgree

LEMMA CountsStep == Shape /\ CountsAgree /\ [Next]_vars => CountsAgree'
<1> SUFFICES ASSUME TypeOK, Control, Agreement, CountsAgree, [Next]_vars PROVE CountsAgree'
  BY DEF Shape
<1>1. ASSUME NEW i \in Instances, Load(i) PROVE CountsAgree'
  <2>1. /\ inst'[i].status = "running" /\ inst'[i].meta = meta
        /\ inst'[i].days = files[meta.generation]
        /\ \A j \in Instances \ {i} : inst'[j] = inst[j]
    BY <1>1, Registrations DEF Becomes
  <2>2. meta # None /\ files' = files /\ finished' = finished
    BY <1>1 DEF Load
  <2>3. QED
    BY <2>1, <2>2, CountsRead
<1>2. ASSUME NEW i \in Instances, Migrate(i) PROVE CountsAgree'
  <2>1. PICK m \in MigratedMeta :
          Becomes(i, "running", "days", "migrate", m, [d \in Days |-> Migrated(d)],
                  {d \in Days : Counted(files[meta.generation][d]) # {}})
    BY <1>2, Registrations
  <2>2. /\ inst'[i].status = "running" /\ inst'[i].meta = m
        /\ inst'[i].days = [d \in Days |-> Migrated(d)]
        /\ \A j \in Instances \ {i} : inst'[j] = inst[j]
    BY <2>1 DEF Becomes
  <2>3. meta # None /\ files' = files /\ finished' = finished
    BY <1>2 DEF Migrate
  <2>4. m.generation = meta.generation
    BY <2>3, GenerationTypes DEF MigratedMeta, Metas
  <2>5. \A d \in Days : inst'[i].days[d].counts = files[meta.generation][d].counts
    BY <2>2, <2>3, MigratedCounts
  <2>6. QED
    BY <2>2, <2>3, <2>4, <2>5, CountsRead
<1>3. ASSUME NEW i \in Instances, Bootstrap(i) PROVE CountsAgree'
  <2> DEFINE days == [d \in Days |-> FromLogs(logs, d)]
  <2>1. /\ inst'[i].meta = NewMeta(Fresh, {}) /\ inst'[i].days = days
        /\ \A j \in Instances \ {i} : inst'[j] = inst[j]
    BY <1>3, Registrations DEF Becomes
  <2>2. finished' = finished /\ logs \subseteq OldRequests
    BY <1>3 DEF Bootstrap, TypeOK
  <2>3. Together(days, days) /\ OnceEach(days) /\ CountedIn(days) = logs
    BY <2>2, LogDays
  <2> HIDE DEF days
  <2>4. CountedIn(days) \subseteq finished
    BY <2>2, <2>3 DEF CountsAgree
  <2>5. inst'[i].meta.generation = Fresh
    BY <2>1 DEF NewMeta
  <2>6. \A g \in Generations : files'[g] = IF g = Fresh THEN NoDays ELSE files[g]
    BY <1>3, FilesCleared
  <2>7. QED
    BY <2>1, <2>2, <2>3, <2>4, <2>5, <2>6, CountsFresh
<1>4. ASSUME NEW i \in Instances, SwitchGeneration(i) PROVE CountsAgree'
  <2>1. /\ inst'[i].meta = NewMeta(Fresh, finished) /\ inst'[i].days = NoDays
        /\ \A j \in Instances \ {i} : inst'[j] = inst[j]
    BY <1>4, Registrations DEF Becomes
  <2>2. finished' = finished
    BY <1>4 DEF SwitchGeneration
  <2>3. inst'[i].meta.generation = Fresh
    BY <2>1 DEF NewMeta
  <2>4. \A g \in Generations : files'[g] = IF g = Fresh THEN NoDays ELSE files[g]
    BY <1>4, FilesCleared
  <2>5. Together(NoDays, NoDays) /\ OnceEach(NoDays) /\ CountedIn(NoDays) \subseteq finished
    BY EmptyDays
  <2>6. QED
    BY <2>1, <2>2, <2>3, <2>4, <2>5, CountsFresh
<1>5. ASSUME NEW i \in Instances, WriteMeta(i) \/ Quiet(i) PROVE CountsAgree'
  <2>1. files' = files /\ finished' = finished
    BY <1>5 DEF WriteMeta, Quiet
  <2>2. \A j \in Instances : /\ inst'[j].days = inst[j].days /\ inst'[j].meta = inst[j].meta
                             /\ Loaded(j)' => Loaded(j)
    BY <1>5, Flushes DEF Goes, Becomes, Quiet, Loaded
  <2>3. QED
    BY <2>1, <2>2 DEF CountsAgree
<1>6. ASSUME NEW i \in Instances, NEW d \in Days, WriteDay(i, d) PROVE CountsAgree'
  <2>1. Loaded(i)
    BY <1>6 DEF WriteDay, Control, Loaded, Unloaded
  <2>2. QED
    BY <1>6, <2>1, CountsWritten
<1>7. CASE Lost
  <2>1. Unloaded.status = "unloaded" /\ Unloaded.days = NoDays
    BY DEF Unloaded
  <2>2. files' = files /\ finished' = finished
    BY <1>7 DEF Lost
  <2>3. \A j \in Instances : inst'[j] = inst[j] \/ inst'[j] = Unloaded
    BY <1>7 DEF Lost
  <2>4. \A j \in Instances : Loaded(j)' => inst'[j] = inst[j] /\ Loaded(j)
    BY <2>1, <2>3 DEF Loaded
  <2>5. \A j \in Instances : OnceEach(inst'[j].days) /\ CountedIn(inst'[j].days) \subseteq finished
    BY <2>1, <2>3, EmptyDays DEF CountsAgree
  <2>6. QED
    BY <2>2, <2>4, <2>5 DEF CountsAgree
<1>8. QED
  BY <1>1, <1>2, <1>3, <1>4, <1>5, <1>6, <1>7, CountsAppended, StepKinds

\* A request is never counted twice, by an instance or by what a start reads.
THEOREM CountsAreOnce == Spec => []CountedOnce
<1>1. Shape /\ CountsAgree => CountedOnce
  <2> SUFFICES ASSUME TypeOK, Control, CountsAgree PROVE CountedOnce
    BY DEF Shape
  <2>1. ASSUME NEW a, a \in [Days -> Totals], Together(a, a), OnceEach(a)
        PROVE  \A r \in Requests :
                 /\ \A d \in Days : a[d].counts[r] <= 1
                 /\ \A d, e \in Days : a[d].counts[r] > 0 /\ a[e].counts[r] > 0 => d = e
    BY <2>1 DEF Together, OnceEach, Counted
  <2>2. \A g \in Generations : files[g] \in [Days -> Totals] /\ Together(files[g], files[g])
                               /\ OnceEach(files[g])
    BY GenerationTypes DEF CountsAgree
  <2>3. \A i \in Instances : /\ inst[i].days \in [Days -> Totals] /\ OnceEach(inst[i].days)
                             /\ Together(inst[i].days, inst[i].days)
    <3>1. \A i \in Instances : ~Loaded(i) => inst[i].days = NoDays
      BY DEF Control, Unloaded
    <3>2. QED
      BY <3>1, GenerationTypes, EmptyDays DEF CountsAgree
  <2>4. QED
    BY <2>1, <2>2, <2>3, GenerationTypes DEF CountedOnce
<1>2. QED
  BY <1>1, CountsInit, CountsStep, ShapeHolds, PTL DEF Spec

-----------------------------------------------------------------------------
(* The reset *)

\* Nothing of before a beginning is counted after it, in a memory or in the
\* generation in force.
Boundary ==
  /\ \A i \in Instances : /\ inst[i].meta.before \subseteq finished
                          /\ CountedIn(inst[i].days) \cap inst[i].meta.before = {}
  /\ meta # None => /\ meta.before \subseteq finished
                    /\ CountedIn(files[meta.generation]) \cap meta.before = {}

\* A step that takes metadata and counts from the files.
LEMMA BoundaryRead ==
  ASSUME Boundary, meta # None, NEW i \in Instances, inst'[i].meta.before = meta.before,
         \A d \in Days : inst'[i].days[d].counts = files[meta.generation][d].counts,
         UNCHANGED <<meta, files, finished>>,
         \A j \in Instances \ {i} : inst'[j] = inst[j]
  PROVE  Boundary'
<1>1. \A d \in Days : Counted(inst'[i].days[d]) = Counted(files[meta.generation][d])
  BY DEF Counted
<1>2. CountedIn(inst'[i].days) = CountedIn(files[meta.generation])
  BY <1>1 DEF CountedIn
<1>3. QED
  BY <1>2 DEF Boundary

LEMMA BoundaryStep == Shape /\ Boundary /\ [Next]_vars => Boundary'
<1> SUFFICES ASSUME TypeOK, Control, Agreement, Boundary, [Next]_vars PROVE Boundary'
  BY DEF Shape
<1>1. ASSUME NEW i \in Instances, Load(i) PROVE Boundary'
  <2>1. /\ inst'[i].meta = meta /\ inst'[i].days = files[meta.generation]
        /\ \A j \in Instances \ {i} : inst'[j] = inst[j]
    BY <1>1, Registrations DEF Becomes
  <2>2. meta # None /\ UNCHANGED <<meta, files, finished>>
    BY <1>1 DEF Load
  <2>3. QED
    BY <2>1, <2>2, BoundaryRead
<1>2. ASSUME NEW i \in Instances, Migrate(i) PROVE Boundary'
  <2>1. PICK m \in MigratedMeta :
          Becomes(i, "running", "days", "migrate", m, [d \in Days |-> Migrated(d)],
                  {d \in Days : Counted(files[meta.generation][d]) # {}})
    BY <1>2, Registrations
  <2>2. /\ inst'[i].meta = m /\ inst'[i].days = [d \in Days |-> Migrated(d)]
        /\ \A j \in Instances \ {i} : inst'[j] = inst[j]
    BY <2>1 DEF Becomes
  <2>3. meta # None /\ UNCHANGED <<meta, files, finished>>
    BY <1>2 DEF Migrate
  <2>4. m.before = meta.before
    BY <2>3, GenerationTypes DEF MigratedMeta, Metas
  <2>5. \A d \in Days : inst'[i].days[d].counts = files[meta.generation][d].counts
    BY <2>2, <2>3, MigratedCounts
  <2>6. QED
    BY <2>2, <2>3, <2>4, <2>5, BoundaryRead
<1>3. ASSUME NEW i \in Instances, Bootstrap(i) PROVE Boundary'
  <2>1. /\ inst'[i].meta = NewMeta(Fresh, {})
        /\ \A j \in Instances \ {i} : inst'[j] = inst[j]
    BY <1>3, Registrations DEF Becomes
  <2>2. meta = None /\ meta' = meta /\ finished' = finished
    BY <1>3 DEF Bootstrap
  <2>3. inst'[i].meta.before = {}
    BY <2>1 DEF NewMeta
  <2>4. QED
    BY <2>1, <2>2, <2>3 DEF Boundary
<1>4. ASSUME NEW i \in Instances, SwitchGeneration(i) PROVE Boundary'
  <2>1. /\ inst'[i].meta = NewMeta(Fresh, finished) /\ inst'[i].days = NoDays
        /\ \A j \in Instances \ {i} : inst'[j] = inst[j]
    BY <1>4, Registrations DEF Becomes
  <2>2. meta' = NewMeta(Fresh, finished) /\ finished' = finished
    BY <1>4 DEF SwitchGeneration
  <2>3. meta'.generation = Fresh /\ meta'.before = finished /\ inst'[i].meta.before = finished
    BY <2>1, <2>2 DEF NewMeta
  <2>4. files'[Fresh] = NoDays /\ CountedIn(NoDays) = {}
    BY <1>4, FilesCleared, EmptyDays
  <2>5. QED
    BY <2>1, <2>2, <2>3, <2>4 DEF Boundary
<1>5. ASSUME NEW i \in Instances, WriteMeta(i) PROVE Boundary'
  <2>1. /\ inst[i].step = "meta" /\ inst[i].for \in {"bootstrap", "migrate"}
        /\ meta' = inst[i].meta /\ UNCHANGED <<files, finished>>
    BY <1>5 DEF WriteMeta
  <2>2. \A j \in Instances : inst'[j].meta = inst[j].meta /\ inst'[j].days = inst[j].days
    BY <1>5, Flushes DEF Goes, Becomes
  <2>3. CASE inst[i].for = "bootstrap"
    BY <2>1, <2>2, <2>3 DEF Boundary, Agreement, Busy
  <2>4. CASE inst[i].for = "migrate"
    <3>1. meta # None /\ inst[i].meta.generation = meta.generation
      BY <2>1, <2>4 DEF Agreement, Busy
    <3>2. Loaded(i)
      BY <2>1, <2>4 DEF Control, Working, Loaded
    <3>3. inst[i].meta.before = meta.before
      BY <3>1, <3>2 DEF Agreement
    <3>4. QED
      BY <2>1, <2>2, <3>1, <3>3 DEF Boundary
  <2>5. QED
    BY <2>1, <2>3, <2>4
<1>6. ASSUME NEW i \in Instances, NEW d \in Days, Append(i, d) PROVE Boundary'
  <2>1. PICK r \in Requests \ finished, step \in {"idle", "days"},
             for \in {"observe", inst[i].for} :
           /\ finished' = finished \cup {r}
           /\ step = "idle" \/ for = "observe"
           /\ Becomes(i, inst[i].status, step, for, inst[i].meta,
                      [inst[i].days EXCEPT ![d] = Added(inst[i].days[d], r)],
                      inst[i].dirty \cup {d})
    BY <1>6, Appends
  <2>2. /\ inst'[i].meta = inst[i].meta
        /\ inst'[i].days = [inst[i].days EXCEPT ![d] = Added(inst[i].days[d], r)]
        /\ \A j \in Instances \ {i} : inst'[j] = inst[j]
    BY <2>1 DEF Becomes
  <2>3. UNCHANGED <<meta, files>>
    BY <1>6 DEF Append
  <2>4. inst[i].days \in [Days -> Totals] /\ inst[i].days[d] \in Totals
    BY GenerationTypes
  <2>5. /\ Counted(inst'[i].days[d]) = Counted(inst[i].days[d]) \cup {r}
        /\ \A e \in Days \ {d} : inst'[i].days[e] = inst[i].days[e]
    BY <2>2, <2>4, CountedBuckets
  <2>6. CountedIn(inst'[i].days) \subseteq CountedIn(inst[i].days) \cup {r}
    BY <2>5 DEF CountedIn
  <2>7. QED
    BY <2>1, <2>2, <2>3, <2>6 DEF Boundary
<1>7. ASSUME NEW i \in Instances, NEW d \in Days, WriteDay(i, d) PROVE Boundary'
  <2>1. UNCHANGED <<meta, finished>> /\ Loaded(i)
    BY <1>7 DEF WriteDay, Control, Loaded, Unloaded
  <2>2. \A j \in Instances : inst'[j].meta = inst[j].meta /\ inst'[j].days = inst[j].days
    BY <1>7, Flushes DEF Becomes
  <2>3. ASSUME meta # None PROVE CountedIn(files'[meta.generation]) \cap meta.before = {}
    <3> DEFINE g == meta.generation
    <3>1. \A e \in Days : files'[g][e] = IF g = inst[i].meta.generation /\ e = d
                                         THEN inst[i].days[d] ELSE files[g][e]
      BY <1>7, <2>3, FilesWritten, GenerationTypes
    <3>2. CASE g = inst[i].meta.generation
      <4>1. inst[i].meta.before = meta.before
        BY <2>1, <2>3, <3>2 DEF Agreement
      <4>2. CountedIn(files'[g]) \subseteq CountedIn(files[g]) \cup CountedIn(inst[i].days)
        BY <3>1 DEF CountedIn
      <4>3. QED
        BY <2>3, <4>1, <4>2 DEF Boundary
    <3>3. CASE g # inst[i].meta.generation
      <4>1. CountedIn(files'[g]) = CountedIn(files[g])
        BY <3>1, <3>3 DEF CountedIn
      <4>2. QED
        BY <2>3, <4>1 DEF Boundary
    <3>4. QED
      BY <3>2, <3>3
  <2>4. QED
    BY <2>1, <2>2, <2>3 DEF Boundary
<1>8. ASSUME NEW i \in Instances, Quiet(i) PROVE Boundary'
  BY <1>8 DEF Quiet, Boundary
<1>9. CASE Lost
  <2>1. Unloaded.meta.before = {} /\ CountedIn(Unloaded.days) = {}
    BY EmptyDays DEF Unloaded, NewMeta
  <2>2. QED
    BY <1>9, <2>1 DEF Lost, Boundary
<1>10. QED
  BY <1>1, <1>2, <1>3, <1>4, <1>5, <1>6, <1>7, <1>8, <1>9, StepKinds

\* The files of an older version count what it says.
LEMMA OldCounts ==
  ASSUME NEW rows \in SUBSET OldRequests
  PROVE  CountedIn(OldDays(rows)) = rows
<1> DEFINE days == [d \in Days |-> FromLogs(rows, d)]
<1>1. \A d \in Days : OldDays(rows)[d].counts = days[d].counts
  <2> SUFFICES ASSUME NEW d \in Days
               PROVE  OldDays(rows)[d].counts = FromLogs(rows, d).counts
    OBVIOUS
  <2>1. FromLogs(rows, d) \in Totals
    BY BucketTypes
  <2>2. OldDays(rows)[d] = [FromLogs(rows, d) EXCEPT !.rated = {r \in rows : OldDay[r] = d}]
    BY DEF OldDays
  <2>3. QED
    BY <2>1, <2>2 DEF Totals
<1>2. CountedIn(days) = rows
  BY LogDays
<1> HIDE DEF days
<1>3. QED
  BY <1>1, <1>2, SameCounts

LEMMA BoundaryInit == Init => Boundary
<1> SUFFICES ASSUME Init PROVE Boundary
  OBVIOUS
<1>1. \A i \in Instances : inst[i].meta.before = {} /\ inst[i].days = NoDays
  BY DEF Init, Unloaded, NewMeta
<1>2. ASSUME meta # None
      PROVE  /\ meta.before \subseteq finished
             /\ CountedIn(files[meta.generation]) \cap meta.before = {}
  <2>1. /\ promised \in SUBSET OldRequests
        /\ meta = [NewMeta(1, OldRequests \ promised) EXCEPT !.cutoff = FALSE]
        /\ files = [g \in Generations |-> IF g = 1 THEN OldDays(promised) ELSE NoDays]
    BY <1>2 DEF Init
  <2>2. meta.generation = 1 /\ meta.before = OldRequests \ promised
    BY <2>1 DEF NewMeta
  <2>3. files[1] = OldDays(promised)
    BY <2>1, RegisteredTypes
  <2>4. CountedIn(OldDays(promised)) = promised
    BY <2>1, OldCounts
  <2>5. finished = OldRequests
    BY DEF Init
  <2>6. QED
    BY <2>2, <2>3, <2>4, <2>5
<1>3. QED
  BY <1>1, <1>2, EmptyDays DEF Boundary

\* What finished before an accepted reset is not counted again.
THEOREM ResetsAreBoundaries == Spec => []ResetIsABoundary
<1>1. Boundary => ResetIsABoundary
  BY DEF Boundary, ResetIsABoundary
<1>2. QED
  BY <1>1, BoundaryInit, BoundaryStep, ShapeHolds, PTL DEF Spec

-----------------------------------------------------------------------------
(* The disk *)

\* What the owner does not list as dirty is on disk, but for the days that
\* another instance wrote since.
CleanDays ==
  owner # None /\ Loaded(owner) =>
    \A d \in Days \ (inst[owner].dirty \cup overtaken) :
      files[inst[owner].meta.generation][d] = inst[owner].days[d]

\* What is promised is in the generation in force, and the owner knows it.
PromisedKept ==
  meta # None => /\ promised \subseteq CountedIn(files[meta.generation])
                 /\ owner # None /\ Loaded(owner) =>
                      promised \subseteq CountedIn(inst[owner].days)

\* A bootstrap counts the whole log, and nobody else writes meanwhile.
BootstrapCounts ==
  \A i \in Instances : Busy(i, "bootstrap") =>
    overtaken = {} /\ logs \subseteq CountedIn(inst[i].days)

Disk == CleanDays /\ PromisedKept /\ BootstrapCounts

LEMMA DiskInit == Init => Disk
<1> SUFFICES ASSUME Init PROVE Disk
  OBVIOUS
<1>1. owner = None /\ \A i \in Instances : inst[i].step = "idle"
  BY DEF Init, Unloaded
<1>2. ASSUME meta # None PROVE promised \subseteq CountedIn(files[meta.generation])
  <2>1. /\ promised \in SUBSET OldRequests
        /\ meta = [NewMeta(1, OldRequests \ promised) EXCEPT !.cutoff = FALSE]
        /\ files = [g \in Generations |-> IF g = 1 THEN OldDays(promised) ELSE NoDays]
    BY <1>2 DEF Init
  <2>2. meta.generation = 1
    BY <2>1 DEF NewMeta
  <2>3. files[1] = OldDays(promised)
    BY <2>1, RegisteredTypes
  <2>4. QED
    BY <2>1, <2>2, <2>3, OldCounts
<1>3. QED
  BY <1>1, <1>2 DEF Disk, CleanDays, PromisedKept, BootstrapCounts, Busy

\* A registration, which makes i the owner, and lists what it has that the files lack.
LEMMA DiskRegistered ==
  ASSUME TypeOK, Control, Disk, NEW i \in Instances, Loaded(i)',
         meta' = meta, owner' = i, overtaken' = {}, promised' = promised, logs' = logs,
         \A d \in Days \ inst'[i].dirty : files'[inst'[i].meta.generation][d] = inst'[i].days[d],
         meta # None => /\ files' = files
                        /\ CountedIn(inst'[i].days) = CountedIn(files[meta.generation]),
         Busy(i, "bootstrap")' => logs \subseteq CountedIn(inst'[i].days),
         \A j \in Instances \ {i} : inst'[j] = inst[j]
  PROVE  Disk'
<1>1. CleanDays'
  BY DEF CleanDays
<1>2. PromisedKept'
  BY DEF Disk, PromisedKept
<1>3. BootstrapCounts'
  BY DEF Disk, BootstrapCounts, Busy
<1>4. QED
  BY <1>1, <1>2, <1>3 DEF Disk

LEMMA DiskWritten ==
  ASSUME TypeOK, Control, Agreement, CountsAgree, Disk,
         NEW i \in Instances, NEW d \in Days, WriteDay(i, d)
  PROVE  Disk'
<1> DEFINE g == inst[i].meta.generation
<1>1. /\ inst[i].step = "days" /\ FileWritten(i, d)
      /\ UNCHANGED <<meta, logs, finished, owner>>
  BY DEF WriteDay
<1>2. /\ inst'[i].status = inst[i].status /\ inst'[i].meta = inst[i].meta
      /\ inst'[i].step = inst[i].step /\ inst'[i].for = inst[i].for
      /\ inst'[i].days = inst[i].days /\ inst'[i].dirty = inst[i].dirty \ {d}
      /\ \A j \in Instances \ {i} : inst'[j] = inst[j]
  BY Flushes DEF Becomes
<1>3. /\ g \in Generations
      /\ \A h \in Generations, e \in Days :
           files'[h][e] = IF h = g /\ e = d THEN inst[i].days[d] ELSE files[h][e]
  BY FilesWritten
<1>4. Loaded(i) /\ (owner # None => owner \in Instances)
  BY <1>1 DEF Control, Loaded, Unloaded, TypeOK
<1>5. \A j \in Instances : /\ inst'[j].days = inst[j].days /\ inst'[j].meta = inst[j].meta
                           /\ Loaded(j)' = Loaded(j)
                           /\ Busy(j, "bootstrap")' = Busy(j, "bootstrap")
  BY <1>2 DEF Loaded, Busy
<1>6. meta = None => i = owner /\ overtaken' = overtaken /\ promised' = promised
  BY <1>1, <1>4 DEF FileWritten, Agreement, Control, Busy
<1>7. i = owner /\ meta # None =>
        /\ g = meta.generation
        /\ overtaken' = overtaken \ {d} /\ promised' = promised \cup Counted(inst[i].days[d])
  <2>1. i = owner => owner # None
    BY StatisticsAssumption
  <2>2. QED
    BY <1>1, <1>4, <2>1 DEF FileWritten, Agreement
<1>8. i # owner /\ meta # None /\ g = meta.generation =>
        /\ overtaken' = overtaken \cup {d}
        /\ promised' = promised \ (Counted(files[g][d]) \ Counted(inst[i].days[d]))
  BY <1>1 DEF FileWritten
<1>9. i # owner /\ meta # None /\ g # meta.generation =>
        overtaken' = overtaken /\ promised' = promised
  BY <1>1 DEF FileWritten
<1> HIDE DEF g
<1>10. CleanDays'
  <2> SUFFICES ASSUME owner # None, Loaded(owner), NEW e \in Days,
                      e \notin inst'[owner].dirty, e \notin overtaken'
               PROVE  files'[inst[owner].meta.generation][e] = inst[owner].days[e]
    BY <1>1, <1>4, <1>5 DEF CleanDays
  <2>1. inst[owner].meta.generation \in Generations
    BY <1>4, GenerationTypes
  <2>2. CASE i = owner
    <3>1. CASE e = d
      BY <1>3, <2>2, <3>1 DEF g
    <3>2. CASE e # d
      <4>1. e \notin inst[owner].dirty /\ e \notin overtaken
        BY <1>2, <1>6, <1>7, <2>2, <3>2
      <4>2. QED
        BY <1>3, <2>1, <3>2, <4>1 DEF Disk, CleanDays
    <3>3. QED
      BY <3>1, <3>2
  <2>3. CASE i # owner
    <3>1. meta # None /\ inst[owner].meta.generation = meta.generation
      BY <1>6, <2>3 DEF Agreement
    <3>2. overtaken \subseteq overtaken' /\ (g = meta.generation => d \in overtaken')
      BY <1>8, <1>9, <2>3, <3>1
    <3>3. e \notin inst[owner].dirty /\ e \notin overtaken
      BY <1>2, <1>4, <2>3, <3>2
    <3>4. files[inst[owner].meta.generation][e] = inst[owner].days[e]
      BY <3>3 DEF Disk, CleanDays
    <3>5. ~(inst[owner].meta.generation = g /\ e = d)
      BY <3>1, <3>2
    <3>6. QED
      BY <1>3, <2>1, <3>4, <3>5
  <2>4. QED
    BY <2>2, <2>3
<1>11. PromisedKept'
  <2> SUFFICES ASSUME meta # None
               PROVE  /\ promised' \subseteq CountedIn(files'[meta.generation])
                      /\ owner # None /\ Loaded(owner) =>
                           promised' \subseteq CountedIn(inst[owner].days)
    BY <1>1, <1>4, <1>5 DEF PromisedKept
  <2>1. meta.generation \in Generations
    BY GenerationTypes
  <2>2. /\ promised \subseteq CountedIn(files[meta.generation])
        /\ owner # None /\ Loaded(owner) => promised \subseteq CountedIn(inst[owner].days)
    BY DEF Disk, PromisedKept
  <2>3. ASSUME g = meta.generation, NEW r,
               r \in Counted(files[g][d]) => r \in Counted(inst[i].days[d]),
               r \in CountedIn(files[g])
        PROVE  r \in CountedIn(files'[g])
    <3>1. PICK e \in Days : r \in Counted(files[g][e])
      BY <2>3 DEF CountedIn
    <3>2. r \in Counted(files'[g][e])
      BY <1>3, <2>3, <3>1
    <3>3. QED
      BY <3>2 DEF CountedIn
  <2>4. CASE i = owner
    <3>1. /\ g = meta.generation /\ promised' = promised \cup Counted(inst[i].days[d])
          /\ promised \subseteq CountedIn(inst[i].days)
      <4>1. owner # None
        BY <2>4, StatisticsAssumption
      <4>2. QED
        BY <1>4, <1>7, <2>2, <2>4, <4>1
    <3>2. Counted(inst[i].days[d]) \subseteq CountedIn(inst[i].days)
      BY DEF CountedIn
    <3>3. Counted(inst[i].days[d]) \subseteq CountedIn(files'[g])
      BY <1>3 DEF CountedIn
    <3>4. ASSUME NEW r \in promised PROVE r \in CountedIn(files'[g])
      <4>1. PICK e \in Days : r \in Counted(inst[i].days[e])
        BY <3>1 DEF CountedIn
      <4>2. Together(inst[i].days, files[g])
        BY <1>4 DEF CountsAgree, g
      <4>3. r \in Counted(files[g][d]) => r \in Counted(inst[i].days[d])
        BY <4>1, <4>2 DEF Together
      <4>4. QED
        BY <2>2, <2>3, <3>1, <4>3
    <3>5. QED
      BY <2>4, <3>1, <3>2, <3>3, <3>4
  <2>5. CASE i # owner /\ g = meta.generation
    BY <1>8, <2>2, <2>3, <2>5
  <2>6. CASE i # owner /\ g # meta.generation
    <3>1. CountedIn(files'[meta.generation]) = CountedIn(files[meta.generation])
      BY <1>3, <2>1, <2>6 DEF CountedIn
    <3>2. QED
      BY <1>9, <2>2, <2>6, <3>1
  <2>7. QED
    BY <2>4, <2>5, <2>6
<1>12. BootstrapCounts'
  <2>1. \A j \in Instances : Busy(j, "bootstrap") => meta = None
    BY DEF Agreement
  <2>2. QED
    BY <1>1, <1>5, <1>6, <2>1 DEF Disk, BootstrapCounts
<1>13. QED
  BY <1>10, <1>11, <1>12 DEF Disk

LEMMA DiskStep == Shape /\ RatesMigrate /\ CountsAgree /\ Disk /\ [Next]_vars => Disk'
<1> SUFFICES ASSUME TypeOK, Control, Agreement, RatesMigrate, CountsAgree, Disk, [Next]_vars
             PROVE  Disk'
  BY DEF Shape
<1>o. owner # None => owner \in Instances
  BY DEF TypeOK
<1>1. ASSUME NEW i \in Instances, Load(i) PROVE Disk'
  <2>1. /\ inst'[i].status = "running" /\ inst'[i].step = "idle"
        /\ inst'[i].meta = meta /\ inst'[i].days = files[meta.generation]
        /\ \A j \in Instances \ {i} : inst'[j] = inst[j]
    BY <1>1, Registrations DEF Becomes
  <2>2. UNCHANGED <<meta, files, logs, promised>> /\ owner' = i /\ overtaken' = {}
    BY <1>1 DEF Load
  <2>3. QED
    BY <2>1, <2>2, DiskRegistered DEF Loaded, Busy
<1>2. ASSUME NEW i \in Instances, Migrate(i) PROVE Disk'
  <2>1. PICK m \in MigratedMeta :
          Becomes(i, "running", "days", "migrate", m, [d \in Days |-> Migrated(d)],
                  {d \in Days : Counted(files[meta.generation][d]) # {}})
    BY <1>2, Registrations
  <2>2. /\ inst'[i].status = "running" /\ inst'[i].for = "migrate"
        /\ inst'[i].meta = m /\ inst'[i].days = [d \in Days |-> Migrated(d)]
        /\ inst'[i].dirty = {d \in Days : Counted(files[meta.generation][d]) # {}}
        /\ \A j \in Instances \ {i} : inst'[j] = inst[j]
    BY <2>1 DEF Becomes
  <2>3. /\ meta # None /\ UNCHANGED <<meta, files, logs, promised>>
        /\ owner' = i /\ overtaken' = {}
    BY <1>2 DEF Migrate
  <2>4. m.generation = meta.generation
    BY <2>3, GenerationTypes DEF MigratedMeta, Metas
  <2>5. \A d \in Days : Counted(inst'[i].days[d]) = Counted(files[meta.generation][d])
    BY <2>2, <2>3, MigratedCounts
  <2>6. CountedIn(inst'[i].days) = CountedIn(files[meta.generation])
    BY <2>5 DEF CountedIn
  <2>7. ASSUME NEW d \in Days, d \notin inst'[i].dirty
        PROVE  files[meta.generation][d] = Migrated(d)
    <3>1. files[meta.generation][d] \in Totals
      BY <2>3, GenerationTypes
    <3>2. Counted(files[meta.generation][d]) = {}
      BY <2>2, <2>7
    <3>3. files[meta.generation][d].rated = {}
      BY <2>3, <3>2, GenerationTypes DEF RatesMigrate
    <3>4. Migrated(d) = [files[meta.generation][d] EXCEPT !.rated = {}]
      BY <3>2 DEF Migrated
    <3>5. QED
      BY <3>1, <3>3, <3>4 DEF Totals
  <2>8. \A d \in Days \ inst'[i].dirty : files'[inst'[i].meta.generation][d] = inst'[i].days[d]
    BY <2>2, <2>3, <2>4, <2>7
  <2>9. QED
    BY <2>2, <2>3, <2>6, <2>8, DiskRegistered DEF Loaded, Busy
<1>3. ASSUME NEW i \in Instances, Bootstrap(i) PROVE Disk'
  <2> DEFINE days == [d \in Days |-> FromLogs(logs, d)]
  <2>1. /\ inst'[i].status = "running" /\ inst'[i].meta = NewMeta(Fresh, {})
        /\ inst'[i].days = days /\ inst'[i].dirty = {OldDay[r] : r \in logs}
        /\ \A j \in Instances \ {i} : inst'[j] = inst[j]
    BY <1>3, Registrations DEF Becomes
  <2>2. /\ meta = None /\ UNCHANGED <<meta, logs, promised>>
        /\ owner' = i /\ overtaken' = {}
    BY <1>3 DEF Bootstrap
  <2>3. files'[Fresh] = NoDays
    BY <1>3, FilesCleared
  <2>4. CountedIn(days) = logs
    BY LogDays DEF TypeOK
  <2>5. ASSUME NEW d \in Days, d \notin inst'[i].dirty PROVE days[d] = NoTotals
    <3>1. {r \in logs : OldDay[r] = d} = {}
      BY <2>1, <2>5
    <3>2. FromLogs(logs, d) = [counts |-> [r \in Requests |-> 0], rated |-> {}]
      BY <3>1 DEF FromLogs
    <3>3. QED
      BY <3>2 DEF NoTotals, NoCounts
  <2> HIDE DEF days
  <2>6. \A d \in Days \ inst'[i].dirty : files'[inst'[i].meta.generation][d] = inst'[i].days[d]
    BY <2>1, <2>3, <2>5, NoRates DEF NewMeta
  <2>7. QED
    BY <2>1, <2>2, <2>4, <2>6, DiskRegistered DEF Loaded
<1>4. ASSUME NEW i \in Instances, SwitchGeneration(i) PROVE Disk'
  <2>1. /\ inst'[i].step = "idle" /\ inst'[i].meta = NewMeta(Fresh, finished)
        /\ inst'[i].days = NoDays /\ \A j \in Instances \ {i} : inst'[j] = inst[j]
    BY <1>4, Registrations DEF Becomes
  <2>2. /\ inst[i].step = "meta" /\ inst[i].for = "reset" /\ promised' = {} /\ overtaken' = {}
        /\ UNCHANGED <<logs, owner>>
    BY <1>4 DEF SwitchGeneration
  <2>3. owner' = i
    BY <2>2 DEF Control
  <2>4. files'[inst'[i].meta.generation] = NoDays
    BY <1>4, <2>1, FilesCleared DEF NewMeta
  <2>5. CleanDays'
    BY <2>1, <2>3, <2>4 DEF CleanDays
  <2>6. PromisedKept' /\ BootstrapCounts'
    BY <2>1, <2>2 DEF PromisedKept, Disk, BootstrapCounts, Busy
  <2>7. QED
    BY <2>5, <2>6 DEF Disk
<1>5. ASSUME NEW i \in Instances, WriteMeta(i) PROVE Disk'
  <2>1. /\ inst[i].step = "meta" /\ inst[i].for \in {"bootstrap", "migrate"}
        /\ meta' = inst[i].meta /\ UNCHANGED <<files, logs, owner, overtaken>>
        /\ promised' = IF inst[i].for = "bootstrap" THEN logs ELSE promised
    BY <1>5 DEF WriteMeta
  <2>2. /\ inst'[i].status = inst[i].status /\ inst'[i].step = "idle"
        /\ inst'[i].meta = inst[i].meta /\ inst'[i].days = inst[i].days
        /\ inst'[i].dirty = inst[i].dirty /\ \A j \in Instances \ {i} : inst'[j] = inst[j]
    BY <1>5, Flushes DEF Goes, Becomes
  <2>3. owner = i /\ Loaded(i) /\ inst[i].dirty = {}
    BY <2>1 DEF Control, Working, Loaded
  <2>4. CleanDays'
    BY <1>o, <2>1, <2>2 DEF Disk, CleanDays, Loaded
  <2>5. BootstrapCounts'
    BY <2>1, <2>2 DEF Disk, BootstrapCounts, Busy
  <2>6. CASE inst[i].for = "bootstrap"
    <3>1. overtaken = {} /\ logs \subseteq CountedIn(inst[i].days)
      BY <2>1, <2>6 DEF Disk, BootstrapCounts, Busy
    <3>2. \A d \in Days : files[inst[i].meta.generation][d] = inst[i].days[d]
      <4>1. owner # None
        BY <2>3, StatisticsAssumption
      <4>2. QED
        BY <2>3, <3>1, <4>1 DEF Disk, CleanDays
    <3>3. CountedIn(files[inst[i].meta.generation]) = CountedIn(inst[i].days)
      BY <3>2 DEF CountedIn
    <3>4. PromisedKept'
      BY <2>1, <2>2, <2>3, <2>6, <3>1, <3>3 DEF PromisedKept
    <3>5. QED
      BY <2>4, <2>5, <3>4 DEF Disk
  <2>7. CASE inst[i].for = "migrate"
    <3>1. meta # None /\ inst[i].meta.generation = meta.generation
      BY <2>1, <2>7 DEF Agreement, Busy
    <3>2. PromisedKept'
      BY <2>1, <2>2, <2>3, <2>7, <3>1 DEF Disk, PromisedKept, Loaded
    <3>3. QED
      BY <2>4, <2>5, <3>2 DEF Disk
  <2>8. QED
    BY <2>1, <2>6, <2>7
<1>6. ASSUME NEW i \in Instances, NEW d \in Days, Append(i, d) PROVE Disk'
  <2>1. PICK r \in Requests \ finished, step \in {"idle", "days"},
             for \in {"observe", inst[i].for} :
           /\ finished' = finished \cup {r}
           /\ step = "idle" \/ for = "observe"
           /\ Becomes(i, inst[i].status, step, for, inst[i].meta,
                      [inst[i].days EXCEPT ![d] = Added(inst[i].days[d], r)],
                      inst[i].dirty \cup {d})
    BY <1>6, Appends
  <2>2. /\ inst'[i].meta = inst[i].meta /\ inst'[i].dirty = inst[i].dirty \cup {d}
        /\ inst'[i].days = [inst[i].days EXCEPT ![d] = Added(inst[i].days[d], r)]
        /\ inst'[i].step = step /\ inst'[i].for = for
        /\ \A j \in Instances \ {i} : inst'[j] = inst[j]
    BY <2>1 DEF Becomes
  <2>3. UNCHANGED <<meta, files, logs, owner, overtaken, promised>> /\ Loaded(i)
    BY <1>6 DEF Append, history, Idle, Loaded
  <2>4. inst[i].days \in [Days -> Totals] /\ inst[i].days[d] \in Totals
    BY GenerationTypes
  <2>5. /\ Counted(inst[i].days[d]) \subseteq Counted(inst'[i].days[d])
        /\ \A e \in Days \ {d} : inst'[i].days[e] = inst[i].days[e]
    BY <2>2, <2>4, CountedBuckets
  <2>6. CountedIn(inst[i].days) \subseteq CountedIn(inst'[i].days)
    BY <2>5 DEF CountedIn
  <2>7. CleanDays'
    <3> SUFFICES ASSUME owner # None, Loaded(owner)',
                        NEW e \in Days \ (inst'[owner].dirty \cup overtaken)
                 PROVE  files[inst'[owner].meta.generation][e] = inst'[owner].days[e]
      BY <2>3 DEF CleanDays
    <3>1. CASE owner = i
      BY <2>2, <2>3, <2>5, <3>1 DEF Disk, CleanDays
    <3>2. CASE owner # i
      <4>1. owner \in Instances /\ inst'[owner] = inst[owner]
        BY <1>o, <2>2, <2>3, <3>2
      <4>2. QED
        BY <2>3, <4>1 DEF Disk, CleanDays, Loaded
    <3>3. QED
      BY <3>1, <3>2
  <2>8. PromisedKept'
    BY <1>o, <2>2, <2>3, <2>6 DEF Disk, PromisedKept, Loaded
  <2>9. \A j \in Instances : Busy(j, "bootstrap")' => j # i
    BY <2>1, <2>2 DEF Busy
  <2>10. BootstrapCounts'
    BY <2>2, <2>3, <2>9 DEF Disk, BootstrapCounts, Busy
  <2>11. QED
    BY <2>7, <2>8, <2>10 DEF Disk
<1>7. ASSUME NEW i \in Instances, NEW d \in Days, WriteDay(i, d) PROVE Disk'
  BY <1>7, DiskWritten
<1>8. ASSUME NEW i \in Instances, Quiet(i) PROVE Disk'
  <2>1. /\ UNCHANGED <<meta, files, logs, owner, overtaken, promised>>
        /\ \A j \in Instances : /\ inst'[j].meta = inst[j].meta /\ inst'[j].days = inst[j].days
                                /\ inst'[j].dirty = inst[j].dirty
                                /\ Loaded(j)' => Loaded(j)
                                /\ Busy(j, "bootstrap")' => Busy(j, "bootstrap")
    BY <1>8 DEF Quiet, Loaded, Busy
  <2>2. CleanDays'
    BY <1>o, <2>1 DEF Disk, CleanDays, Loaded
  <2>3. PromisedKept'
    BY <1>o, <2>1 DEF Disk, PromisedKept, Loaded
  <2>4. BootstrapCounts'
    BY <2>1 DEF Disk, BootstrapCounts
  <2>5. QED
    BY <2>2, <2>3, <2>4 DEF Disk
<1>9. CASE Lost
  <2>1. Unloaded.status = "unloaded" /\ Unloaded.step = "idle"
    BY DEF Unloaded
  <2>2. QED
    BY <1>9, <1>o, <2>1 DEF Lost, Disk, CleanDays, PromisedKept, BootstrapCounts, Loaded, Busy
<1>10. QED
  BY <1>1, <1>2, <1>3, <1>4, <1>5, <1>6, <1>7, <1>8, <1>9, StepKinds

\* The disk keeps what it was given, and a kill costs the dirty days only.
THEOREM DiskKeepsWhatItWasGiven == Spec => []DiskKeepsItsPromise
<1>1. Shape /\ Disk => DiskKeepsItsPromise
  <2> SUFFICES ASSUME Disk PROVE SavedCountsSurvive /\ CleanMeansSaved
    BY DEF DiskKeepsItsPromise
  <2>1. SavedCountsSurvive
    BY DEF Disk, PromisedKept, SavedCountsSurvive
  <2>2. CleanMeansSaved
    BY DEF Disk, CleanDays, CleanMeansSaved, Loaded
  <2>3. QED
    BY <2>1, <2>2
<1>2. QED
  BY <1>1, DiskInit, DiskStep, RatesInit, RatesStep, CountsInit, CountsStep, ShapeHolds, PTL
     DEF Spec

===============================================================================
