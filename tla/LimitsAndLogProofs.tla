------------------------- MODULE LimitsAndLogProofs -------------------------
(***************************************************************************)
(* Proofs about RateLimiter, for any requests, keys, delays and clock bound, *)
(* and about RequestLogStore, for any rows, retentions, limits of the        *)
(* journal, failures and kills.  The two meet in the local 429s that the      *)
(* limiter makes and the log merges.                                          *)
(*                                                                          *)
(* The part about the log has names with Log: LogInv is its invariant.       *)
(***************************************************************************)
EXTENDS RateLimiter, RequestLogStore, TLAPS, WellFoundedInduction, SequenceTheorems

-----------------------------------------------------------------------------
(* Types *)

\* What acquire writes into a lease is a lease record.
LEMMA AdmitType ==
  ASSUME TypeOK, NEW r \in Requests, NEW w \in WindowRecords,
         NEW b \in BOOLEAN, Admit(r, w, b)
  PROVE  lease' \in [Requests -> LeaseRecords]
<1>1. limits[lease[r].key] \in Nat
  BY DEF TypeOK, LeaseRecords
<1>2. w.id \in Nat /\ w.epoch \in Nat
  BY DEF WindowRecords
<1>3. lease[r] \in LeaseRecords
  BY DEF TypeOK
<1>4. [lease[r] EXCEPT !.status = "running", !.state = w.id,
                       !.epoch = w.epoch, !.slot = b,
                       !.seen = limits[lease[r].key]] \in LeaseRecords
  BY <1>1, <1>2, <1>3 DEF LeaseRecords, Statuses
<1>5. QED
  BY <1>4 DEF TypeOK, Admit

\* The window a report leaves behind is a window record.
LEMMA FinishedType ==
  ASSUME TypeOK, NEW r \in Requests, NEW fault \in Faults
  PROVE  Finished(r, fault) \in WindowRecords
<1> DEFINE k == lease[r].key
           w == windows[k]
<1>1. k \in Keys /\ lease[r].retryAt \in Nat
  BY DEF TypeOK, LeaseRecords
<1>2. w \in WindowRecords /\ now \in Nat /\ lastId \in Nat
  BY <1>1 DEF TypeOK
<1>3. Limited(w, r) \in WindowRecords
  BY <1>1, <1>2 DEF Limited, Later, WindowRecords
<1>4. NoWindow \in WindowRecords
  BY DEF NoWindow, WindowRecords
<1>5. ReleasedProbe(w) \in WindowRecords
  BY <1>2 DEF ReleasedProbe, WindowRecords
<1>6. Recovered(w, r) \in WindowRecords
  BY <1>4, <1>5 DEF Recovered, ReleasedProbe
<1>7. PausedProbe(w) \in WindowRecords
  <2>1. w.retryAt \in Nat
    BY <1>2 DEF WindowRecords
  <2>2. Later(w.retryAt, now + ProbePause) \in Nat
    BY <1>2, <2>1, RateLimiterAssumption DEF Later
  <2>3. QED
    BY <1>2, <2>2 DEF PausedProbe, WindowRecords
<1>8. QED
  BY <1>2, <1>3, <1>5, <1>6, <1>7 DEF Finished, Faults

\* A report leaves every variable but the lease in its type.
LEMMA FinishType ==
  ASSUME TypeOK, NEW r \in Requests, NEW fault \in Faults, Finish(r, fault)
  PROVE  /\ now' \in Nat /\ lastId' \in Nat
         /\ windows' \in [Keys -> WindowRecords]
         /\ limits' \in [Keys -> Nat]
         /\ closedUntil' \in [Keys -> Nat]
         /\ proven' \in [Keys -> BOOLEAN]
<1>1. lease[r].key \in Keys /\ lease[r].retryAt \in Nat
  BY DEF TypeOK, LeaseRecords
<1>2. windows' \in [Keys -> WindowRecords] /\ now' \in Nat /\ lastId' \in Nat
  BY <1>1, FinishedType DEF TypeOK, Finish
<1>3. limits' \in [Keys -> Nat]
  BY <1>1 DEF TypeOK, Finish, Reported
<1>4. closedUntil' \in [Keys -> Nat]
  BY <1>1, RateLimiterAssumption DEF TypeOK, Finish, Reported, Later
<1>5. proven' \in [Keys -> BOOLEAN]
  BY <1>1 DEF TypeOK, Finish, Reported
<1>6. QED
  BY <1>2, <1>3, <1>4, <1>5

\* Every operation leaves every variable of the limiter in its type.
THEOREM TypeCorrect == Spec => []TypeOK
<1>1. Init => TypeOK
  <2> SUFFICES ASSUME Init PROVE TypeOK
    OBVIOUS
  <2>1. lease \in [Requests -> LeaseRecords]
    BY DEF Init, LeaseRecords, Statuses, Faults
  <2>2. QED
    BY <2>1 DEF Init, TypeOK, NoWindow, WindowRecords
<1>2. TypeOK /\ [Next]_vars => TypeOK'
  <2> SUFFICES ASSUME TypeOK, [Next]_vars PROVE TypeOK'
    OBVIOUS
  <2>0. NoWindow \in WindowRecords /\ Kept \in [Keys -> WindowRecords]
    BY DEF TypeOK, Kept, NoWindow, WindowRecords
  <2>1. ASSUME NEW r \in Requests, AcquireUnrestricted(r) PROVE TypeOK'
    BY <2>0, <2>1, AdmitType DEF AcquireUnrestricted, TypeOK, historyVars
  <2>2. ASSUME NEW r \in Requests, AcquireProbe(r) PROVE TypeOK'
    <3>1. lease[r].key \in Keys
      BY DEF TypeOK, LeaseRecords
    <3>2. [Kept[lease[r].key] EXCEPT !.probe = r] \in WindowRecords
      BY <2>0, <3>1 DEF WindowRecords
    <3>3. windows' \in [Keys -> WindowRecords]
      BY <2>0, <2>2, <3>1, <3>2 DEF AcquireProbe
    <3>4. lease' \in [Requests -> LeaseRecords]
      BY <2>0, <2>2, <3>1, AdmitType DEF AcquireProbe
    <3>5. QED
      BY <2>2, <3>3, <3>4 DEF AcquireProbe, TypeOK, historyVars
  <2>3. ASSUME NEW r \in Requests, Suppress(r) PROVE TypeOK'
    <3>1. [lease[r] EXCEPT !.status = "suppressed"] \in LeaseRecords
      BY DEF TypeOK, LeaseRecords, Statuses
    <3>2. QED
      BY <2>0, <2>3, <3>1 DEF Suppress, TypeOK, historyVars
  <2>4. ASSUME NEW r \in Requests, FirstOutput(r) PROVE TypeOK'
    <3>1. [lease[r] EXCEPT !.slot = FALSE] \in LeaseRecords
      BY DEF TypeOK, LeaseRecords
    <3>2. lease' \in [Requests -> LeaseRecords]
      BY <2>4, <3>1 DEF FirstOutput, TypeOK
    <3>3. Finish(r, "none") /\ "none" \in Faults
      BY <2>4 DEF FirstOutput, Faults
    <3>4. QED
      BY <3>2, <3>3, FinishType DEF TypeOK
  <2>5. ASSUME NEW r \in Requests, Answer(r) PROVE TypeOK'
    <3>1. lease[r] \in LeaseRecords /\ now \in Nat
      BY DEF TypeOK
    <3>2. \A fault \in Faults :
            [lease[r] EXCEPT !.status = "answered", !.fault = fault]
              \in LeaseRecords
      BY <3>1 DEF LeaseRecords, Statuses
    <3>3. \A d \in RetryAfters :
            [lease[r] EXCEPT !.status = "answered", !.fault = "team_limit",
                             !.retryAt = now + d] \in LeaseRecords
      <4>1. \A d \in RetryAfters : now + d \in Nat
        BY <3>1, RateLimiterAssumption
      <4>2. QED
        BY <3>1, <4>1 DEF LeaseRecords, Statuses, Faults
    <3>4. lease' \in [Requests -> LeaseRecords]
      BY <2>5, <3>2, <3>3 DEF Answer, TypeOK
    <3>5. QED
      BY <2>5, <3>4 DEF Answer, TypeOK, historyVars
  <2>6. ASSUME NEW r \in Requests, End(r) PROVE TypeOK'
    <3>1. lease[r] \in LeaseRecords
      BY DEF TypeOK
    <3>2. [lease[r] EXCEPT !.status = "ended", !.slot = FALSE] \in LeaseRecords
      BY <3>1 DEF LeaseRecords, Statuses
    <3>3. lease' \in [Requests -> LeaseRecords]
      BY <2>6, <3>2 DEF End, TypeOK
    <3>4. Finish(r, lease[r].fault) /\ lease[r].fault \in Faults
      BY <2>6, <3>1 DEF End, LeaseRecords
    <3>5. QED
      BY <3>3, <3>4, FinishType DEF TypeOK
  <2>7. ASSUME NEW c \in Credentials, Reset(c) PROVE TypeOK'
    <3>1. \A w \in WindowRecords : ResetWindow(w) \in WindowRecords
      BY <2>0 DEF ResetWindow, WindowRecords, TypeOK
    <3>2. windows' \in [Keys -> WindowRecords]
      BY <2>7, <3>1 DEF Reset, TypeOK
    <3>3. QED
      BY <2>7, <3>2 DEF Reset, TypeOK
  <2>8. CASE Tick
    BY <2>8 DEF Tick, TypeOK, historyVars
  <2>9. CASE UNCHANGED vars
    BY <2>9 DEF vars, TypeOK
  <2>10. QED
    BY <2>1, <2>2, <2>3, <2>4, <2>5, <2>6, <2>7, <2>8, <2>9 DEF Next
<1>3. QED
  BY <1>1, <1>2, PTL DEF Spec

-----------------------------------------------------------------------------
(* The inductive invariant *)

\* Dropping the stale windows touches no probed window and forgets only
\* limits that lie further back than the idle expiry.
LEMMA KeptFacts ==
  ASSUME IInv, NEW k \in Keys
  PROVE  \/ Kept[k] = windows[k]
         \/ /\ Kept[k] = NoWindow
            /\ windows[k].id # 0
            /\ windows[k].probe = None
            /\ LongPast(k)
<1>1. CASE ~Stale(k)
  BY <1>1 DEF Kept
<1>2. CASE Stale(k)
  <2>1. Kept[k] = NoWindow /\ windows[k].probe = None /\ windows[k].id # 0
    BY <1>2 DEF Kept, Stale, Present
  <2>2. closedUntil[k] <= windows[k].retryAt \/ LongPast(k)
    BY <2>1 DEF IInv, ClosureIsKept
  <2>3. /\ closedUntil[k] \in Nat /\ windows[k].retryAt \in Nat
        /\ now \in Nat /\ IdleExpiry \in Nat
    BY RateLimiterAssumption DEF IInv, TypeOK, WindowRecords
  <2>4. LongPast(k)
    BY <1>2, <2>2, <2>3 DEF Stale, LongPast
  <2>5. QED
    BY <2>1, <2>4
<1>3. QED
  BY <1>1, <1>2

\* A request that has not called acquire owes no report.
LEMMA NewHasNoSlot ==
  ASSUME IInv, NEW r \in Requests, lease[r].status = "new"
  PROVE  ~lease[r].slot
BY DEF IInv, SlotTracksWindow, InFlight

\* A request holds a probe slot in the sense of the code exactly when the
\* history says that it owes a report.
LEMMA HoldsIffSlot ==
  ASSUME IInv, NEW r \in Requests
  PROVE  HoldsProbe(r) <=> lease[r].slot
<1>1. lease[r].key \in Keys /\ r # None
  BY RateLimiterAssumption DEF IInv, TypeOK, LeaseRecords
<1>2. ASSUME HoldsProbe(r) PROVE lease[r].slot
  BY <1>1, <1>2 DEF HoldsProbe, IInv, ProbeOwesReport
<1>3. ASSUME lease[r].slot PROVE HoldsProbe(r)
  BY <1>3 DEF HoldsProbe, IInv, SlotTracksWindow
<1>4. lease[r].slot \in BOOLEAN
  BY DEF IInv, TypeOK, LeaseRecords
<1>5. QED
  BY <1>2, <1>3, <1>4 DEF HoldsProbe

\* The steps that drop the stale windows and change the lease of a new
\* request without giving it a slot.
LEMMA KeptPreserves ==
  ASSUME IInv, TypeOK', NEW r \in Requests, lease[r].status = "new",
         windows' = Kept, UNCHANGED <<now, lastId, historyVars>>,
         ~lease'[r].slot, lease'[r].key = lease[r].key,
         \A p \in Requests : p # r => lease'[p] = lease[p]
  PROVE  IInv'
<1>0. ~lease[r].slot
  BY NewHasNoSlot
<1>1. AbsentIsNoWindow'
  BY KeptFacts DEF IInv, AbsentIsNoWindow
<1>2. IdsAreOld'
  BY KeptFacts DEF IInv, IdsAreOld, NoWindow, TypeOK
<1>3. SlotTracksWindow'
  <2> SUFFICES ASSUME NEW p \in Requests, lease'[p].slot
               PROVE  LET w == windows'[lease'[p].key] IN
                      /\ InFlight(p)'
                      /\ w.id # 0 /\ w.id = lease'[p].state /\ w.probe = p
                      /\ w.epoch >= lease'[p].epoch
                      /\ limits'[lease'[p].key]
                           = lease'[p].seen + (w.epoch - lease'[p].epoch)
                      /\ (w.epoch = lease'[p].epoch
                            => closedUntil'[lease'[p].key] <= now')
    BY DEF SlotTracksWindow
  <2>1. p # r /\ lease'[p] = lease[p] /\ lease[p].key \in Keys
    BY DEF IInv, TypeOK, LeaseRecords
  <2>2. windows[lease[p].key].probe # None
    BY <2>1, RateLimiterAssumption DEF IInv, SlotTracksWindow
  <2>3. windows'[lease[p].key] = windows[lease[p].key]
    BY <2>1, <2>2, KeptFacts
  <2>4. QED
    BY <2>1, <2>3 DEF IInv, SlotTracksWindow, InFlight, historyVars
<1>4. ProbeOwesReport'
  <2> SUFFICES ASSUME NEW k \in Keys, windows'[k].probe # None
               PROVE  lease'[windows'[k].probe].slot
                      /\ lease'[windows'[k].probe].key = k
    BY DEF ProbeOwesReport
  <2>1. windows'[k] = windows[k]
    BY KeptFacts DEF NoWindow
  <2>2. windows[k].probe \in Requests
    BY <2>1 DEF IInv, TypeOK, WindowRecords
  <2>3. lease[windows[k].probe].slot /\ lease[windows[k].probe].key = k
    BY <2>1 DEF IInv, ProbeOwesReport
  <2>4. QED
    BY <1>0, <2>1, <2>2, <2>3
<1>5. ClosureIsKept'
  <2> SUFFICES ASSUME NEW k \in Keys
               PROVE  /\ windows'[k].id # 0
                           => closedUntil'[k] <= windows'[k].retryAt \/ LongPast(k)'
                      /\ windows'[k].id = 0 => closedUntil'[k] = 0 \/ LongPast(k)'
                      /\ windows'[k].id = 0 => proven'[k] \/ LongPast(k)'
    BY DEF ClosureIsKept
  <2>1. LongPast(k)' <=> LongPast(k)
    BY DEF LongPast, historyVars
  <2>2. QED
    BY <2>1, KeptFacts DEF IInv, ClosureIsKept, NoWindow, historyVars
<1>6. QED
  BY <1>1, <1>2, <1>3, <1>4, <1>5 DEF IInv

\* A report, first or last, by any request: FirstOutput and End.
LEMMA ReportPreserves ==
  ASSUME IInv, TypeOK', NEW r \in Requests, NEW fault \in Faults,
         Finish(r, fault),
         ~lease'[r].slot, lease'[r].key = lease[r].key,
         \A p \in Requests : p # r => lease'[p] = lease[p]
  PROVE  IInv'
<1> DEFINE k == lease[r].key
           w == windows[k]
<1>1. k \in Keys /\ r # None
  BY RateLimiterAssumption DEF IInv, TypeOK, LeaseRecords
<1>2. /\ w \in WindowRecords /\ now \in Nat /\ lastId \in Nat
      /\ closedUntil \in [Keys -> Nat] /\ limits \in [Keys -> Nat]
      /\ lease[r].retryAt \in Nat /\ lease[r].seen \in Nat
      /\ lease[r].epoch \in Nat /\ lease[r].slot \in BOOLEAN
      /\ ProbePause \in Nat /\ IdleExpiry \in Nat
  BY <1>1, RateLimiterAssumption DEF IInv, TypeOK, LeaseRecords
<1>3. /\ windows' = [windows EXCEPT ![k] = Finished(r, fault)]
      /\ now' = now
      /\ lastId' = IF fault = "team_limit" /\ w.id = 0
                   THEN lastId + 1 ELSE lastId
      /\ Reported(r, fault)
  BY DEF Finish
<1>4. /\ windows'[k] = Finished(r, fault)
      /\ \A j \in Keys : j # k => windows'[j] = windows[j]
  BY <1>1, <1>3 DEF IInv, TypeOK
<1>5. \A j \in Keys : j # k => /\ limits'[j] = limits[j]
                               /\ closedUntil'[j] = closedUntil[j]
                               /\ proven'[j] = proven[j]
  BY <1>1, <1>3 DEF Reported, IInv, TypeOK
<1>6. HoldsProbe(r) <=> lease[r].slot
  BY HoldsIffSlot
\* What the report does to its own key, fault by fault.
<1>7. CASE fault = "team_limit"
  <2>1. windows'[k] = Limited(w, r)
    BY <1>4, <1>7 DEF Finished
  <2>2. /\ limits'[k] = limits[k] + 1
        /\ closedUntil'[k] = Later(closedUntil[k], lease[r].retryAt)
        /\ proven'[k] = FALSE
    BY <1>1, <1>3, <1>7 DEF Reported, IInv, TypeOK
  <2>3. /\ windows'[k].id = IF w.id = 0 THEN lastId + 1 ELSE w.id
        /\ windows'[k].retryAt = Later(w.retryAt, lease[r].retryAt)
        /\ windows'[k].epoch = w.epoch + 1
        /\ windows'[k].probe = IF w.probe = r THEN None ELSE w.probe
    BY <2>1 DEF Limited
  <2>4. w.id \in Nat /\ w.id <= lastId /\ windows'[k].id # 0
        /\ w.epoch \in Nat /\ w.retryAt \in Nat
    BY <1>1, <1>2, <2>3 DEF IInv, IdsAreOld, WindowRecords
  <2>5. AbsentIsNoWindow'
    BY <1>4, <2>4 DEF IInv, AbsentIsNoWindow
  <2>6. IdsAreOld'
    <3> SUFFICES ASSUME NEW j \in Keys PROVE windows'[j].id <= lastId'
      BY DEF IdsAreOld
    <3>1. windows[j].id <= lastId /\ windows[j].id \in Nat
      BY DEF IInv, IdsAreOld, TypeOK, WindowRecords
    <3>2. QED
      BY <1>2, <1>3, <1>4, <1>7, <2>3, <2>4, <3>1
  <2>7. SlotTracksWindow'
    <3> SUFFICES ASSUME NEW p \in Requests, lease'[p].slot
                 PROVE  LET v == windows'[lease'[p].key] IN
                        /\ InFlight(p)'
                        /\ v.id # 0 /\ v.id = lease'[p].state /\ v.probe = p
                        /\ v.epoch >= lease'[p].epoch
                        /\ limits'[lease'[p].key]
                             = lease'[p].seen + (v.epoch - lease'[p].epoch)
                        /\ (v.epoch = lease'[p].epoch
                              => closedUntil'[lease'[p].key] <= now')
      BY DEF SlotTracksWindow
    <3>1. p # r /\ lease'[p] = lease[p] /\ lease[p].key \in Keys
      BY DEF IInv, TypeOK, LeaseRecords
    <3>2. /\ InFlight(p)
          /\ windows[lease[p].key].id # 0
          /\ windows[lease[p].key].id = lease[p].state
          /\ windows[lease[p].key].probe = p
          /\ windows[lease[p].key].epoch >= lease[p].epoch
          /\ limits[lease[p].key] = lease[p].seen
               + (windows[lease[p].key].epoch - lease[p].epoch)
          /\ (windows[lease[p].key].epoch = lease[p].epoch
                => closedUntil[lease[p].key] <= now)
      BY <3>1 DEF IInv, SlotTracksWindow
    <3>3. InFlight(p)'
      BY <3>1, <3>2 DEF InFlight
    <3>4. CASE lease[p].key # k
      BY <1>3, <1>4, <1>5, <3>1, <3>2, <3>3, <3>4
    <3>5. CASE lease[p].key = k
      <4>1. lease[p].epoch \in Nat /\ lease[p].seen \in Nat
        BY DEF IInv, TypeOK, LeaseRecords
      <4>2. QED
        BY <1>1, <1>2, <2>2, <2>3, <2>4, <3>1, <3>2, <3>3, <3>5, <4>1
    <3>6. QED
      BY <3>4, <3>5
  <2>8. ProbeOwesReport'
    <3> SUFFICES ASSUME NEW j \in Keys, windows'[j].probe # None
                 PROVE  lease'[windows'[j].probe].slot
                        /\ lease'[windows'[j].probe].key = j
      BY DEF ProbeOwesReport
    <3>1. windows'[j].probe = windows[j].probe /\ windows[j].probe # r
      <4>1. CASE j = k
        BY <2>3, <4>1
      <4>2. CASE j # k
        <5>1. windows[j].probe # None /\ windows'[j] = windows[j]
          BY <1>4, <4>2
        <5>2. lease[windows[j].probe].key = j
          BY <5>1 DEF IInv, ProbeOwesReport
        <5>3. QED
          BY <4>2, <5>1, <5>2
      <4>3. QED
        BY <4>1, <4>2
    <3>2. windows[j].probe \in Requests
      BY <3>1 DEF IInv, TypeOK, WindowRecords
    <3>3. QED
      BY <3>1, <3>2 DEF IInv, ProbeOwesReport
  <2>9. ClosureIsKept'
    <3> SUFFICES ASSUME NEW j \in Keys
                 PROVE  /\ windows'[j].id # 0 =>
                             closedUntil'[j] <= windows'[j].retryAt \/ LongPast(j)'
                        /\ windows'[j].id = 0 => closedUntil'[j] = 0 \/ LongPast(j)'
                        /\ windows'[j].id = 0 => proven'[j] \/ LongPast(j)'
      BY DEF ClosureIsKept
    <3>1. CASE j # k
      BY <1>3, <1>4, <1>5, <3>1 DEF IInv, ClosureIsKept, LongPast
    <3>2. CASE j = k
      <4>1. closedUntil[k] <= w.retryAt \/ closedUntil[k] = 0 \/ LongPast(k)
        BY <1>1 DEF IInv, ClosureIsKept
      <4>2. closedUntil'[k] <= windows'[k].retryAt \/ LongPast(k)'
        BY <1>1, <1>2, <1>3, <2>2, <2>3, <2>4, <4>1 DEF LongPast, Later
      <4>3. QED
        BY <2>4, <3>2, <4>2
    <3>3. QED
      BY <3>1, <3>2
  <2>10. QED
    BY <2>5, <2>6, <2>7, <2>8, <2>9 DEF IInv
<1>8. CASE fault # "team_limit"
  <2>1. lastId' = lastId /\ limits' = limits
    BY <1>3, <1>8 DEF Reported
  \* Every other report only takes r's own slot away, if it has one.
  <2>2. ~lease[r].slot => windows'[k] = w
    BY <1>4, <1>6, <1>8 DEF Finished
  <2>3. windows'[k].probe # r
    <3>1. CASE lease[r].slot
      <4>1. windows'[k] \in {NoWindow, ReleasedProbe(w), PausedProbe(w)}
        BY <1>4, <1>6, <1>8, <3>1 DEF Finished, Recovered, ReleasedProbe, Faults
      <4>2. /\ NoWindow.probe = None /\ ReleasedProbe(w).probe = None
            /\ PausedProbe(w).probe = None
        BY <1>2 DEF NoWindow, ReleasedProbe, PausedProbe, WindowRecords
      <4>3. QED
        BY <1>1, <4>1, <4>2
    <3>2. CASE ~lease[r].slot
      BY <1>1, <2>2, <3>2 DEF IInv, ProbeOwesReport
    <3>3. QED
      BY <3>1, <3>2
  <2>4. \A p \in Requests : p # r /\ lease[p].slot => windows'[lease[p].key]
                                                      = windows[lease[p].key]
    <3> SUFFICES ASSUME NEW p \in Requests, p # r, lease[p].slot
                 PROVE  windows'[lease[p].key] = windows[lease[p].key]
      OBVIOUS
    <3>1. windows[lease[p].key].probe = p /\ lease[p].key \in Keys
      BY DEF IInv, SlotTracksWindow, TypeOK, LeaseRecords
    <3>2. lease[p].key = k => ~lease[r].slot
      BY <3>1 DEF IInv, SlotTracksWindow
    <3>3. QED
      BY <1>4, <2>2, <3>1, <3>2
  <2>5. windows'[k] # w => lease[r].slot /\ HoldsProbe(r)
    BY <1>2, <1>6, <2>2
  \* The shape of the change and of its history.
  <2>6. \/ windows'[k] = w
        \/ windows'[k] = NoWindow
        \/ windows'[k].id = w.id /\ windows'[k].probe = None
             /\ windows'[k].epoch = w.epoch /\ w.id # 0
    BY <1>2, <1>4, <1>6, <1>8
       DEF Finished, Recovered, PausedProbe, ReleasedProbe, WindowRecords,
           HoldsProbe, Faults
  <2>7. AbsentIsNoWindow'
    BY <1>4, <2>6 DEF IInv, AbsentIsNoWindow
  <2>8. IdsAreOld'
    BY <1>2, <1>4, <2>1, <2>6 DEF IInv, IdsAreOld, NoWindow
  <2>9. \/ closedUntil'[k] \in {0, closedUntil[k]}
        \/ fault = "cooldown" /\ lease[r].slot
             /\ closedUntil'[k] = Later(closedUntil[k], now + ProbePause)
    BY <1>1, <1>3, <1>8 DEF Reported, IInv, TypeOK
  <2>10. SlotTracksWindow'
    <3> SUFFICES ASSUME NEW p \in Requests, lease'[p].slot
                 PROVE  LET v == windows'[lease'[p].key] IN
                        /\ InFlight(p)'
                        /\ v.id # 0 /\ v.id = lease'[p].state /\ v.probe = p
                        /\ v.epoch >= lease'[p].epoch
                        /\ limits'[lease'[p].key]
                             = lease'[p].seen + (v.epoch - lease'[p].epoch)
                        /\ (v.epoch = lease'[p].epoch
                              => closedUntil'[lease'[p].key] <= now')
      BY DEF SlotTracksWindow
    <3>1. p # r /\ lease'[p] = lease[p] /\ lease[p].slot /\ lease[p].key \in Keys
      BY DEF IInv, TypeOK, LeaseRecords
    <3>2. windows'[lease[p].key] = windows[lease[p].key]
      BY <2>4, <3>1
    <3>3. lease[p].key = k => ~lease[r].slot
      BY <3>1 DEF IInv, SlotTracksWindow
    <3>4. closedUntil'[lease[p].key] \in {0, closedUntil[lease[p].key]}
      BY <1>5, <2>9, <3>1, <3>3
    <3>5. QED
      BY <1>2, <1>3, <2>1, <3>1, <3>2, <3>4 DEF IInv, SlotTracksWindow, InFlight
  <2>11. ProbeOwesReport'
    <3> SUFFICES ASSUME NEW j \in Keys, windows'[j].probe # None
                 PROVE  lease'[windows'[j].probe].slot
                        /\ lease'[windows'[j].probe].key = j
      BY DEF ProbeOwesReport
    <3>1. windows'[j] = windows[j]
      BY <1>4, <2>6 DEF NoWindow
    <3>2. windows[j].probe \in Requests
          /\ lease[windows[j].probe].slot /\ lease[windows[j].probe].key = j
      BY <3>1 DEF IInv, TypeOK, WindowRecords, ProbeOwesReport
    <3>3. windows[j].probe # r
      BY <2>3, <3>1, <3>2
    <3>4. QED
      BY <3>1, <3>2, <3>3
  <2>12. ClosureIsKept'
    <3> SUFFICES ASSUME NEW j \in Keys
                 PROVE  /\ windows'[j].id # 0 =>
                             closedUntil'[j] <= windows'[j].retryAt \/ LongPast(j)'
                        /\ windows'[j].id = 0 => closedUntil'[j] = 0 \/ LongPast(j)'
                        /\ windows'[j].id = 0 => proven'[j] \/ LongPast(j)'
      BY DEF ClosureIsKept
    <3>1. CASE j # k
      BY <1>3, <1>4, <1>5, <3>1 DEF IInv, ClosureIsKept, LongPast
    <3>2. CASE j = k /\ ~lease[r].slot
      <4>1. windows'[k] = w
        BY <2>2, <3>2
      <4>2. \/ closedUntil'[k] = closedUntil[k] /\ proven'[k] = proven[k]
            \/ closedUntil'[k] = 0 /\ proven'[k] = TRUE
        BY <1>1, <1>3, <1>8, <3>2 DEF Reported, IInv, TypeOK
      <4>3. CASE closedUntil'[k] = 0 /\ proven'[k] = TRUE
        BY <1>2, <3>2, <4>1, <4>3 DEF WindowRecords
      <4>4. CASE closedUntil'[k] = closedUntil[k] /\ proven'[k] = proven[k]
        BY <1>1, <1>3, <3>2, <4>1, <4>4 DEF IInv, ClosureIsKept, LongPast
      <4>5. QED
        BY <4>2, <4>3, <4>4
    <3>3. CASE j = k /\ lease[r].slot
      <4>1. /\ w.id # 0 /\ w.epoch >= lease[r].epoch
            /\ limits[k] = lease[r].seen + (w.epoch - lease[r].epoch)
            /\ w.epoch \in Nat /\ w.retryAt \in Nat
        BY <1>2, <3>3 DEF IInv, SlotTracksWindow, WindowRecords
      <4>2. closedUntil[k] <= w.retryAt \/ LongPast(k)
        BY <1>1, <4>1 DEF IInv, ClosureIsKept
      <4>3. CASE fault = "none" /\ w.epoch = lease[r].epoch
        <5>1. closedUntil'[k] = 0 /\ proven'[k] = TRUE
          BY <1>1, <1>2, <1>3, <4>1, <4>3 DEF Reported, IInv, TypeOK
        <5>2. windows'[k] = NoWindow
          BY <1>4, <1>6, <3>3, <4>3 DEF Finished, Recovered
        <5>3. QED
          BY <3>3, <5>1, <5>2 DEF NoWindow
      <4>4. CASE fault = "none" /\ w.epoch # lease[r].epoch
        <5>1. windows'[k].id = w.id /\ windows'[k].retryAt = w.retryAt
          BY <1>2, <1>4, <1>6, <3>3, <4>4 DEF Finished, Recovered, WindowRecords
        <5>2. closedUntil'[k] \in {0, closedUntil[k]}
          BY <2>9, <4>4
        <5>3. QED
          BY <1>2, <1>3, <3>3, <4>1, <4>2, <5>1, <5>2 DEF LongPast
      <4>5. CASE fault = "request"
        <5>1. windows'[k].id = w.id /\ windows'[k].retryAt = w.retryAt
          BY <1>2, <1>4, <1>6, <3>3, <4>5 DEF Finished, ReleasedProbe, WindowRecords
        <5>2. closedUntil'[k] \in {0, closedUntil[k]}
          BY <2>9, <4>5
        <5>3. QED
          BY <1>2, <1>3, <3>3, <4>1, <4>2, <5>1, <5>2 DEF LongPast
      <4>6. CASE fault = "cooldown"
        <5>1. windows'[k].id = w.id
              /\ windows'[k].retryAt = Later(w.retryAt, now + ProbePause)
          BY <1>2, <1>4, <1>6, <3>3, <4>6 DEF Finished, PausedProbe, WindowRecords
        <5>2. closedUntil'[k] = Later(closedUntil[k], now + ProbePause)
          BY <1>1, <1>3, <3>3, <4>6 DEF Reported, IInv, TypeOK
        <5>3. closedUntil[k] \in Nat
          BY <1>1, <1>2
        <5>4. closedUntil'[k] <= windows'[k].retryAt
          BY <1>2, <4>1, <4>2, <5>1, <5>2, <5>3 DEF LongPast, Later
        <5>5. QED
          BY <3>3, <4>1, <5>1, <5>4
      <4>7. QED
        BY <1>8, <4>3, <4>4, <4>5, <4>6 DEF Faults
    <3>4. QED
      BY <3>1, <3>2, <3>3
  <2>13. QED
    BY <2>7, <2>8, <2>10, <2>11, <2>12 DEF IInv
<1>9. QED
  BY <1>7, <1>8

\* The conjuncts of IInv hold together in every reachable state.
THEOREM WindowsTrackProbes == Spec => []IInv
<1>1. Init => IInv
  <2> SUFFICES ASSUME Init PROVE IInv
    OBVIOUS
  <2>1. TypeOK
    <3>1. lease \in [Requests -> LeaseRecords]
      BY DEF Init, LeaseRecords, Statuses, Faults
    <3>2. QED
      BY <3>1 DEF Init, TypeOK, NoWindow, WindowRecords
  <2>2. /\ \A k \in Keys : windows[k] = NoWindow /\ closedUntil[k] = 0 /\ proven[k]
        /\ \A r \in Requests : ~lease[r].slot
        /\ lastId = 0
    BY DEF Init
  <2>3. QED
    BY <2>1, <2>2 DEF IInv, AbsentIsNoWindow, IdsAreOld, SlotTracksWindow,
                      ProbeOwesReport, ClosureIsKept, NoWindow
<1>2. IInv /\ TypeOK' /\ [Next]_vars => IInv'
  <2> SUFFICES ASSUME IInv, TypeOK', [Next]_vars PROVE IInv'
    OBVIOUS
  <2>0. lease \in [Requests -> LeaseRecords]
    BY DEF IInv, TypeOK
  <2>1. ASSUME NEW r \in Requests, AcquireUnrestricted(r) PROVE IInv'
    <3>1. ~lease'[r].slot /\ lease'[r].key = lease[r].key
      BY <2>0, <2>1 DEF AcquireUnrestricted, Admit, LeaseRecords
    <3>2. \A p \in Requests : p # r => lease'[p] = lease[p]
      BY <2>0, <2>1 DEF AcquireUnrestricted, Admit
    <3>3. QED
      BY <2>1, <3>1, <3>2, KeptPreserves DEF AcquireUnrestricted
  <2>2. ASSUME NEW r \in Requests, Suppress(r) PROVE IInv'
    <3>1. ~lease[r].slot
      BY <2>2, NewHasNoSlot DEF Suppress
    <3>2. ~lease'[r].slot /\ lease'[r].key = lease[r].key
      BY <2>0, <2>2, <3>1 DEF Suppress, LeaseRecords
    <3>3. \A p \in Requests : p # r => lease'[p] = lease[p]
      BY <2>0, <2>2 DEF Suppress
    <3>4. QED
      BY <2>2, <3>2, <3>3, KeptPreserves DEF Suppress
  <2>3. ASSUME NEW r \in Requests, AcquireProbe(r) PROVE IInv'
    <3> DEFINE k == lease[r].key
               w == windows[k]
    <3>1. k \in Keys /\ r # None
      BY <2>0, RateLimiterAssumption DEF LeaseRecords
    <3>2. Kept[k] = w /\ w.id # 0 /\ w.probe = None /\ now >= w.retryAt
      BY <2>3, <3>1, KeptFacts
         DEF AcquireProbe, Closed, NoWindow, IInv, TypeOK, WindowRecords
    <3>3. /\ lease'[r].key = k /\ lease'[r].status = "running"
          /\ lease'[r].state = w.id /\ lease'[r].epoch = w.epoch
          /\ lease'[r].slot = TRUE /\ lease'[r].seen = limits[k]
      BY <2>0, <2>3, <3>2 DEF AcquireProbe, Admit, LeaseRecords
    <3>4. \A p \in Requests : p # r => lease'[p] = lease[p]
      BY <2>0, <2>3 DEF AcquireProbe, Admit
    <3>5. /\ windows'[k] = [w EXCEPT !.probe = r]
          /\ \A j \in Keys : j # k => windows'[j] = Kept[j]
      BY <2>3, <3>1, <3>2 DEF AcquireProbe, Kept
    <3>6. /\ w \in WindowRecords /\ limits[k] \in Nat /\ now \in Nat
          /\ closedUntil[k] \in Nat /\ IdleExpiry \in Nat
      BY <3>1, RateLimiterAssumption DEF IInv, TypeOK
    <3>7. /\ windows'[k].id = w.id /\ windows'[k].probe = r
          /\ windows'[k].epoch = w.epoch /\ windows'[k].retryAt = w.retryAt
      BY <3>5, <3>6 DEF WindowRecords
    <3>8. UNCHANGED <<now, lastId, limits, closedUntil, proven>>
      BY <2>3 DEF AcquireProbe, historyVars
    <3>9. \A j \in Keys : j # k =>
            \/ windows'[j] = windows[j]
            \/ /\ windows'[j] = NoWindow
               /\ windows[j].probe = None /\ LongPast(j)
      BY <3>5, KeptFacts
    <3>10. AbsentIsNoWindow'
      BY <3>2, <3>7, <3>9 DEF IInv, AbsentIsNoWindow
    <3>11. IdsAreOld'
      BY <3>7, <3>8, <3>9, <3>1 DEF IInv, IdsAreOld, NoWindow, TypeOK
    <3>12. SlotTracksWindow'
      <4> SUFFICES ASSUME NEW p \in Requests, lease'[p].slot
                   PROVE  LET v == windows'[lease'[p].key] IN
                          /\ InFlight(p)'
                          /\ v.id # 0 /\ v.id = lease'[p].state /\ v.probe = p
                          /\ v.epoch >= lease'[p].epoch
                          /\ limits'[lease'[p].key]
                               = lease'[p].seen + (v.epoch - lease'[p].epoch)
                          /\ (v.epoch = lease'[p].epoch
                                => closedUntil'[lease'[p].key] <= now')
        BY DEF SlotTracksWindow
      <4>1. CASE p = r
        <5>1. closedUntil[k] <= w.retryAt \/ LongPast(k)
          BY <3>1, <3>2 DEF IInv, ClosureIsKept
        <5>2. closedUntil[k] <= now
          BY <3>2, <3>6, <5>1 DEF LongPast, WindowRecords
        <5>3. w.epoch \in Nat
          BY <3>6 DEF WindowRecords
        <5>4. QED
          BY <3>2, <3>3, <3>6, <3>7, <3>8, <4>1, <5>2, <5>3 DEF InFlight
      <4>2. CASE p # r
        <5>1. lease'[p] = lease[p] /\ lease[p].slot /\ lease[p].key \in Keys
          BY <2>0, <3>4, <4>2 DEF LeaseRecords
        <5>2. windows[lease[p].key].probe = p /\ p # None
          BY <5>1, RateLimiterAssumption DEF IInv, SlotTracksWindow
        <5>3. windows'[lease[p].key] = windows[lease[p].key]
          BY <3>2, <3>9, <5>1, <5>2
        <5>4. QED
          BY <3>8, <5>1, <5>3 DEF IInv, SlotTracksWindow, InFlight
      <4>3. QED
        BY <4>1, <4>2
    <3>13. ProbeOwesReport'
      <4> SUFFICES ASSUME NEW j \in Keys, windows'[j].probe # None
                   PROVE  lease'[windows'[j].probe].slot
                          /\ lease'[windows'[j].probe].key = j
        BY DEF ProbeOwesReport
      <4>1. CASE j = k
        BY <3>3, <3>7, <4>1
      <4>2. CASE j # k
        <5>1. windows'[j] = windows[j]
          BY <3>9, <4>2 DEF NoWindow
        <5>2. windows[j].probe \in Requests
              /\ lease[windows[j].probe].slot /\ lease[windows[j].probe].key = j
          BY <5>1 DEF IInv, TypeOK, WindowRecords, ProbeOwesReport
        <5>3. ~lease[r].slot
          BY <2>3, NewHasNoSlot DEF AcquireProbe
        <5>4. QED
          BY <3>4, <5>1, <5>2, <5>3
      <4>3. QED
        BY <4>1, <4>2
    <3>14. ClosureIsKept'
      <4> SUFFICES ASSUME NEW j \in Keys
                   PROVE  /\ windows'[j].id # 0 =>
                               closedUntil'[j] <= windows'[j].retryAt \/ LongPast(j)'
                          /\ windows'[j].id = 0 => closedUntil'[j] = 0 \/ LongPast(j)'
                          /\ windows'[j].id = 0 => proven'[j] \/ LongPast(j)'
        BY DEF ClosureIsKept
      <4>1. LongPast(j)' <=> LongPast(j)
        BY <3>8 DEF LongPast
      <4>2. CASE j = k
        BY <3>1, <3>2, <3>7, <3>8, <4>1, <4>2 DEF IInv, ClosureIsKept
      <4>3. CASE j # k
        BY <3>8, <3>9, <4>1, <4>3 DEF IInv, ClosureIsKept, NoWindow
      <4>4. QED
        BY <4>2, <4>3
    <3>15. QED
      BY <3>10, <3>11, <3>12, <3>13, <3>14 DEF IInv
  <2>4. ASSUME NEW r \in Requests, FirstOutput(r) PROVE IInv'
    <3>1. ~lease'[r].slot /\ lease'[r].key = lease[r].key
      BY <2>0, <2>4 DEF FirstOutput, LeaseRecords
    <3>2. \A p \in Requests : p # r => lease'[p] = lease[p]
      BY <2>0, <2>4 DEF FirstOutput
    <3>3. Finish(r, "none") /\ "none" \in Faults
      BY <2>4 DEF FirstOutput, Faults
    <3>4. QED
      BY <3>1, <3>2, <3>3, ReportPreserves
  <2>5. ASSUME NEW r \in Requests, End(r) PROVE IInv'
    <3>1. ~lease'[r].slot /\ lease'[r].key = lease[r].key
      BY <2>0, <2>5 DEF End, LeaseRecords
    <3>2. \A p \in Requests : p # r => lease'[p] = lease[p]
      BY <2>0, <2>5 DEF End
    <3>3. Finish(r, lease[r].fault) /\ lease[r].fault \in Faults
      BY <2>0, <2>5 DEF End, LeaseRecords
    <3>4. QED
      BY <3>1, <3>2, <3>3, ReportPreserves
  <2>6. ASSUME NEW r \in Requests, Answer(r) PROVE IInv'
    <3>1. /\ lease[r].status = "running" /\ lease'[r].status = "answered"
          /\ lease'[r].slot = lease[r].slot /\ lease'[r].key = lease[r].key
          /\ lease'[r].state = lease[r].state /\ lease'[r].epoch = lease[r].epoch
          /\ lease'[r].seen = lease[r].seen
      BY <2>0, <2>6 DEF Answer, LeaseRecords
    <3>2. \A p \in Requests : p # r => lease'[p] = lease[p]
      BY <2>0, <2>6 DEF Answer
    <3>3. UNCHANGED <<now, windows, lastId, limits, closedUntil, proven>>
      BY <2>6 DEF Answer, historyVars
    <3>4. \A p \in Requests : InFlight(p) => InFlight(p)'
      BY <3>1, <3>2 DEF InFlight
    <3>5. \A p \in Requests :
            /\ lease'[p].slot = lease[p].slot /\ lease'[p].key = lease[p].key
            /\ lease'[p].state = lease[p].state
            /\ lease'[p].epoch = lease[p].epoch /\ lease'[p].seen = lease[p].seen
      BY <3>1, <3>2
    <3>6. SlotTracksWindow'
      BY <3>3, <3>4, <3>5 DEF IInv, SlotTracksWindow
    <3>7. ProbeOwesReport'
      BY <3>3, <3>5 DEF IInv, ProbeOwesReport, TypeOK, WindowRecords
    <3>8. AbsentIsNoWindow' /\ IdsAreOld' /\ ClosureIsKept'
      BY <3>3 DEF IInv, AbsentIsNoWindow, IdsAreOld, ClosureIsKept, LongPast
    <3>9. QED
      BY <3>6, <3>7, <3>8 DEF IInv
  <2>7. ASSUME NEW c \in Credentials, Reset(c) PROVE IInv'
    <3>1. UNCHANGED <<now, lastId, lease, limits>>
      BY <2>7 DEF Reset
    <3>2. \A k \in Keys :
            \/ /\ windows'[k] = windows[k]
               /\ \/ closedUntil'[k] = closedUntil[k] /\ proven'[k] = proven[k]
                  \/ closedUntil'[k] = 0 /\ proven'[k]
            \/ /\ closedUntil'[k] = 0 /\ proven'[k]
               /\ \/ windows'[k] = NoWindow /\ windows[k].probe = None
                  \/ /\ windows'[k].id = windows[k].id
                     /\ windows'[k].probe = windows[k].probe
                     /\ windows'[k].epoch = windows[k].epoch
                     /\ windows[k].id # 0
      BY <2>7 DEF Reset, ResetWindow, IInv, TypeOK, WindowRecords
    <3>3. \A k \in Keys : closedUntil'[k] \in {0, closedUntil[k]}
      BY <3>2
    <3>4. now \in Nat /\ closedUntil \in [Keys -> Nat]
          /\ windows' \in [Keys -> WindowRecords]
      BY DEF IInv, TypeOK
    <3>5. AbsentIsNoWindow' /\ IdsAreOld'
      BY <3>1, <3>2 DEF IInv, AbsentIsNoWindow, IdsAreOld, NoWindow, TypeOK
    <3>6. SlotTracksWindow'
      <4> SUFFICES ASSUME NEW p \in Requests, lease[p].slot
                   PROVE  LET v == windows'[lease[p].key] IN
                          /\ InFlight(p)
                          /\ v.id # 0 /\ v.id = lease[p].state /\ v.probe = p
                          /\ v.epoch >= lease[p].epoch
                          /\ limits[lease[p].key]
                               = lease[p].seen + (v.epoch - lease[p].epoch)
                          /\ (v.epoch = lease[p].epoch
                                => closedUntil'[lease[p].key] <= now)
        BY <3>1 DEF SlotTracksWindow, InFlight
      <4>1. lease[p].key \in Keys /\ windows[lease[p].key].probe = p /\ p # None
        BY <2>0, RateLimiterAssumption DEF IInv, SlotTracksWindow, LeaseRecords
      <4>2. /\ windows'[lease[p].key].id = windows[lease[p].key].id
            /\ windows'[lease[p].key].probe = p
            /\ windows'[lease[p].key].epoch = windows[lease[p].key].epoch
        BY <3>2, <4>1
      <4>3. QED
        BY <3>3, <3>4, <4>1, <4>2 DEF IInv, SlotTracksWindow
    <3>7. ProbeOwesReport'
      BY <3>1, <3>2 DEF IInv, ProbeOwesReport, NoWindow
    <3>8. ClosureIsKept'
      <4> SUFFICES ASSUME NEW k \in Keys
                   PROVE  /\ windows'[k].id # 0 =>
                               closedUntil'[k] <= windows'[k].retryAt \/ LongPast(k)'
                          /\ windows'[k].id = 0 => closedUntil'[k] = 0 \/ LongPast(k)'
                          /\ windows'[k].id = 0 => proven'[k] \/ LongPast(k)'
        BY DEF ClosureIsKept
      <4>1. CASE closedUntil'[k] = 0 /\ proven'[k]
        BY <3>4, <4>1 DEF WindowRecords
      <4>2. CASE /\ windows'[k] = windows[k]
                 /\ closedUntil'[k] = closedUntil[k] /\ proven'[k] = proven[k]
        BY <3>1, <4>2 DEF IInv, ClosureIsKept, LongPast
      <4>3. QED
        BY <3>2, <4>1, <4>2
    <3>9. QED
      BY <3>5, <3>6, <3>7, <3>8 DEF IInv
  <2>8. CASE Tick
    <3>1. UNCHANGED <<windows, lastId, lease, limits, closedUntil, proven>>
          /\ now' = now + 1 /\ now \in Nat /\ IdleExpiry \in Nat
          /\ closedUntil \in [Keys -> Nat]
      BY <2>8, RateLimiterAssumption DEF Tick, historyVars, IInv, TypeOK
    <3>2. \A k \in Keys : LongPast(k) => LongPast(k)'
      BY <3>1 DEF LongPast
    <3>3. \A k \in Keys : closedUntil[k] <= now => closedUntil[k] <= now'
      BY <3>1
    <3>4. ClosureIsKept'
      BY <3>1, <3>2 DEF IInv, ClosureIsKept
    <3>5. SlotTracksWindow'
      BY <2>0, <3>1, <3>3 DEF IInv, SlotTracksWindow, InFlight, LeaseRecords
    <3>6. AbsentIsNoWindow' /\ IdsAreOld' /\ ProbeOwesReport'
      BY <3>1 DEF IInv, AbsentIsNoWindow, IdsAreOld, ProbeOwesReport
    <3>7. QED
      BY <3>4, <3>5, <3>6 DEF IInv
  <2>9. CASE UNCHANGED vars
    BY <2>9 DEF vars, IInv, AbsentIsNoWindow, IdsAreOld, SlotTracksWindow,
                ProbeOwesReport, ClosureIsKept, LongPast, InFlight
  <2>10. QED
    BY <2>1, <2>2, <2>3, <2>4, <2>5, <2>6, <2>7, <2>8, <2>9 DEF Next
<1>3. QED
  BY <1>1, <1>2, TypeCorrect, PTL DEF Spec

-----------------------------------------------------------------------------
(* What the invariant implies *)

\* A request reaches the upstream only through acquire, unrestricted or as a
\* probe.
LEMMA AdmittedHow ==
  ASSUME TypeOK, [Next]_vars, NEW r \in Requests, Admitted(r)
  PROVE  AcquireUnrestricted(r) \/ AcquireProbe(r)
<1>0. /\ lease \in [Requests -> LeaseRecords]
      /\ lease[r].status = "new" /\ lease'[r].status = "running"
  BY DEF TypeOK, Admitted
<1>1. ASSUME NEW p \in Requests, p # r, lease' = [lease EXCEPT ![p] = lease'[p]]
      PROVE  FALSE
  BY <1>0, <1>1
<1>2. ASSUME NEW p \in Requests, AcquireUnrestricted(p) \/ AcquireProbe(p)
      PROVE  p = r
  BY <1>0, <1>2 DEF AcquireUnrestricted, AcquireProbe, Admit
<1>3. ASSUME NEW p \in Requests, Suppress(p) PROVE FALSE
  BY <1>0, <1>3 DEF Suppress, LeaseRecords
<1>4. ASSUME NEW p \in Requests, FirstOutput(p) PROVE FALSE
  BY <1>0, <1>4 DEF FirstOutput, LeaseRecords
<1>5. ASSUME NEW p \in Requests, Answer(p) PROVE FALSE
  BY <1>0, <1>5 DEF Answer, LeaseRecords
<1>6. ASSUME NEW p \in Requests, End(p) PROVE FALSE
  BY <1>0, <1>6 DEF End, LeaseRecords
<1>7. lease' # lease
  BY <1>0
<1>8. QED
  BY <1>2, <1>3, <1>4, <1>5, <1>6, <1>7 DEF Next, Reset, Tick, vars

\* The probe slot of a window is held by exactly the requests that owe a report
\* on it: resets, expiries and other requests' reports never take or leak it.
THEOREM ProbeSlotsMatch == Spec => []SlotMatchesProbe
<1>1. IInv => SlotMatchesProbe
  <2> SUFFICES ASSUME IInv, NEW r \in Requests, NEW k \in Keys
               PROVE  /\ InFlight(r) /\ lease[r].slot /\ lease[r].key = k
                           <=> windows[k].probe = r
                      /\ windows[k].probe = r => lease[r].state = windows[k].id
    BY DEF SlotMatchesProbe
  <2>1. r # None
    BY RateLimiterAssumption
  <2>2. ASSUME windows[k].probe = r
        PROVE  lease[r].slot /\ lease[r].key = k
    BY <2>1, <2>2 DEF IInv, ProbeOwesReport
  <2>3. ASSUME lease[r].slot, lease[r].key = k
        PROVE  /\ InFlight(r) /\ windows[k].probe = r
               /\ lease[r].state = windows[k].id
    BY <2>3 DEF IInv, SlotTracksWindow
  <2>4. QED
    BY <2>2, <2>3
<1>2. QED
  BY <1>1, WindowsTrackProbes, PTL

\* While a recovery probe is out nobody else is admitted to its key.
THEOREM ProbesRunAlone == Spec => ProbeIsAlone
<1>1. IInv /\ [Next]_vars =>
        [\A r, p \in Requests :
           Admitted(r) /\ InFlight(p) /\ lease[p].slot
           => lease[p].key # lease[r].key]_vars
  <2> SUFFICES ASSUME IInv, [Next]_vars, NEW r \in Requests, NEW p \in Requests,
                      Admitted(r), InFlight(p), lease[p].slot,
                      lease[p].key = lease[r].key
               PROVE  FALSE
    OBVIOUS
  <2> DEFINE k == lease[r].key
  <2>1. k \in Keys /\ p # None
    BY RateLimiterAssumption DEF IInv, TypeOK, LeaseRecords
  <2>2. windows[k].id # 0 /\ windows[k].probe = p
    BY DEF IInv, SlotTracksWindow
  <2>3. Kept[k].id # 0 /\ Closed(Kept[k])
    BY <2>1, <2>2, KeptFacts DEF Closed
  <2>4. AcquireUnrestricted(r) \/ AcquireProbe(r)
    BY AdmittedHow DEF IInv
  <2>5. QED
    BY <2>3, <2>4 DEF AcquireUnrestricted, AcquireProbe
<1>2. QED
  BY <1>1, WindowsTrackProbes, PTL DEF Spec, ProbeIsAlone

\* Until the newest unrefuted RetryAt of a key has passed the key admits nobody.
THEOREM ClosedKeysAdmitNobody == Spec => ClosedKeyAdmitsNobody
<1>1. IInv /\ [Next]_vars =>
        [\A r \in Requests : Admitted(r) => now >= closedUntil[lease[r].key]]_vars
  <2> SUFFICES ASSUME IInv, [Next]_vars, NEW r \in Requests, Admitted(r)
               PROVE  now >= closedUntil[lease[r].key]
    OBVIOUS
  <2> DEFINE k == lease[r].key
  <2>1. /\ k \in Keys /\ now \in Nat /\ closedUntil[k] \in Nat
        /\ IdleExpiry \in Nat /\ windows[k].retryAt \in Nat
    BY RateLimiterAssumption DEF IInv, TypeOK, LeaseRecords, WindowRecords
  <2>2. LongPast(k) => now >= closedUntil[k]
    BY <2>1 DEF LongPast
  <2>3. CASE AcquireUnrestricted(r)
    <3>1. Kept[k].id = 0
      BY <2>3 DEF AcquireUnrestricted
    <3>2. windows[k].id = 0 \/ LongPast(k)
      BY <2>1, <3>1, KeptFacts
    <3>3. closedUntil[k] = 0 \/ LongPast(k)
      BY <2>1, <3>2 DEF IInv, ClosureIsKept
    <3>4. QED
      BY <2>1, <2>2, <3>3
  <2>4. CASE AcquireProbe(r)
    <3>1. Kept[k].id # 0 /\ ~Closed(Kept[k])
      BY <2>4 DEF AcquireProbe
    <3>2. Kept[k] = windows[k]
      BY <2>1, <3>1, KeptFacts DEF NoWindow
    <3>3. closedUntil[k] <= windows[k].retryAt \/ LongPast(k)
      BY <2>1, <3>1, <3>2 DEF IInv, ClosureIsKept
    <3>4. QED
      BY <2>1, <2>2, <3>1, <3>2, <3>3 DEF Closed
  <2>5. QED
    BY <2>3, <2>4, AdmittedHow DEF IInv
<1>2. QED
  BY <1>1, WindowsTrackProbes, PTL DEF Spec, ClosedKeyAdmitsNobody

\* A limited key admits nobody early, and then its probe only.
THEOREM LimitsHold == Spec => LimitsAreRespected
BY ProbesRunAlone, ClosedKeysAdmitNobody DEF LimitsAreRespected

\* A limited key admits requests freely again only on evidence or long after.
THEOREM FreeAdmissionNeedsEvidence == Spec => UnrestrictedNeedsEvidence
<1>1. IInv /\ [Next]_vars =>
        [\A r \in Requests :
           Admitted(r) /\ lease'[r].state = 0
           => \/ proven[lease[r].key]
              \/ now > closedUntil[lease[r].key] + IdleExpiry]_vars
  <2> SUFFICES ASSUME IInv, [Next]_vars, NEW r \in Requests, Admitted(r),
                      lease'[r].state = 0
               PROVE  proven[lease[r].key] \/ LongPast(lease[r].key)
    BY DEF LongPast
  <2> DEFINE k == lease[r].key
  <2>1. k \in Keys /\ lease \in [Requests -> LeaseRecords]
    BY DEF IInv, TypeOK, LeaseRecords
  <2>2. ASSUME AcquireProbe(r) PROVE FALSE
    <3>1. Kept[k].id # 0 /\ lease'[r].state = Kept[k].id
      BY <2>1, <2>2 DEF AcquireProbe, Admit, LeaseRecords
    <3>2. QED
      BY <3>1
  <2>3. Kept[k].id = 0
    BY <2>2, AdmittedHow DEF IInv, AcquireUnrestricted
  <2>4. windows[k].id = 0 \/ LongPast(k)
    BY <2>1, <2>3, KeptFacts
  <2>5. QED
    BY <2>1, <2>4 DEF IInv, ClosureIsKept
<1>2. QED
  BY <1>1, WindowsTrackProbes, PTL DEF Spec, UnrestrictedNeedsEvidence

-----------------------------------------------------------------------------
(* Least elements give induction over the numbers. *)

Below == {p \in Nat \X Nat : p[1] < p[2]}

LEMMA BelowIsWellFounded == IsWellFoundedOn(Below, Nat)
BY NatLessThanWellFounded DEF OpToRel, Below

LEMMA Least ==
  ASSUME NEW S, S \subseteq Nat, S # {}
  PROVE  \E n \in S : \A m \in S : n <= m
<1>1. PICK n \in S : \A m \in S : ~(<<m, n>> \in Below)
  BY BelowIsWellFounded, WFMin
<1>2. ASSUME NEW m \in S PROVE n <= m
  <2>1. PICK p : p = <<m, n>>
    OBVIOUS
  <2>2. p \in Nat \X Nat /\ p[1] = m /\ p[2] = n
    BY <2>1
  <2>3. ~(m < n)
    BY <1>1, <2>1, <2>2 DEF Below
  <2>4. QED
    BY <2>3
<1>3. QED
  BY <1>2

(* A set of numbers that holds 0 and with each number of 0..top the next. *)
LEMMA UpTo ==
  ASSUME NEW top \in Nat, NEW S, 0 \in S,
         \A n \in 1..top : n - 1 \in S => n \in S
  PROVE  0..top \subseteq S
<1>1. PICK T : T = {n \in 0..top : n \notin S}
  OBVIOUS
<1>2. SUFFICES ASSUME T # {} PROVE FALSE
  BY <1>1
<1>3. PICK n \in T : \A m \in T : n <= m
  <2>1. T \subseteq Nat
    BY <1>1
  <2>2. QED
    BY <1>2, <2>1, Least
<1>4. n \in 1..top /\ n - 1 \in 0..top
  BY <1>1
<1>5. n - 1 \notin T
  BY <1>3, <1>4
<1>6. QED
  BY <1>1, <1>4, <1>5

-----------------------------------------------------------------------------
(* Load, line by line *)

(* f is what loading the first m lines goes through. *)
Reading(f, base, lines, m) ==
  f = [n \in 0..m |-> IF n = 0 THEN Start(base) ELSE Replay(f[n - 1], lines[n])]

LEMMA ReadingExists ==
  ASSUME NEW base, NEW lines, NEW top \in Nat
  PROVE  \E f : Reading(f, base, lines, top)
<1>1. PICK S : S = {m \in 0..top : \E f : Reading(f, base, lines, m)}
  OBVIOUS
<1>2. 0 \in S
  <2>1. PICK f : f = [n \in 0..0 |-> Start(base)]
    OBVIOUS
  <2>2. Reading(f, base, lines, 0)
    <3>1. f = [n \in 0..0 |-> IF n = 0 THEN Start(base) ELSE Replay(f[n - 1], lines[n])]
      BY <2>1
    <3>2. QED
      BY <3>1 DEF Reading
  <2>3. QED
    BY <1>1, <2>2
<1>3. ASSUME NEW m \in 1..top, m - 1 \in S PROVE m \in S
  <2>1. PICK g : Reading(g, base, lines, m - 1)
    BY <1>1, <1>3
  <2>2. PICK f : f = [n \in 0..m |-> IF n = m THEN Replay(g[m - 1], lines[m]) ELSE g[n]]
    OBVIOUS
  <2>3. ASSUME NEW n \in 0..m PROVE f[n] = IF n = 0 THEN Start(base) ELSE Replay(f[n - 1], lines[n])
    <3>1. \A k \in 0..(m - 1) : g[k] = IF k = 0 THEN Start(base) ELSE Replay(g[k - 1], lines[k])
      BY <2>1 DEF Reading
    <3>2. CASE n = m
      <4>1. f[n] = Replay(g[m - 1], lines[m]) /\ n - 1 \in 0..m /\ n # 0 /\ n - 1 # m
        BY <2>2, <3>2
      <4>2. f[n - 1] = g[m - 1]
        BY <2>2, <3>2, <4>1
      <4>3. QED
        BY <3>2, <4>1, <4>2
    <3>3. CASE n # m
      <4>1. n \in 0..(m - 1) /\ f[n] = g[n]
        BY <2>2, <3>3
      <4>2. CASE n = 0
        BY <3>1, <4>1, <4>2
      <4>3. CASE n # 0
        <5>1. n - 1 \in 0..m /\ n - 1 # m
          BY <4>1, <4>3
        <5>2. f[n - 1] = g[n - 1]
          BY <2>2, <5>1
        <5>3. QED
          BY <3>1, <4>1, <4>3, <5>2
      <4>4. QED
        BY <4>2, <4>3
    <3>4. QED
      BY <3>2, <3>3
  <2>4. Reading(f, base, lines, m)
    <3>1. f = [n \in 0..m |-> IF n = 0 THEN Start(base) ELSE Replay(f[n - 1], lines[n])]
      BY <2>2, <2>3
    <3>2. QED
      BY <3>1 DEF Reading
  <2>5. QED
    BY <1>1, <2>4
<1>4. 0..top \subseteq S
  BY <1>2, <1>3, UpTo
<1>5. QED
  BY <1>1, <1>4

LEMMA ReadingAgrees ==
  ASSUME NEW base, NEW f, NEW lines, NEW m \in Nat, Reading(f, base, lines, m),
         NEW g, NEW longer, NEW top \in Nat, Reading(g, base, longer, top), m <= top,
         \A n \in 1..m : lines[n] = longer[n]
  PROVE  \A n \in 0..m : f[n] = g[n]
<1>1. PICK S : S = {n \in 0..m : f[n] = g[n]}
  OBVIOUS
<1>2. \A n \in 0..m : f[n] = IF n = 0 THEN Start(base) ELSE Replay(f[n - 1], lines[n])
  BY DEF Reading
<1>3. \A n \in 0..top : g[n] = IF n = 0 THEN Start(base) ELSE Replay(g[n - 1], longer[n])
  BY DEF Reading
<1>4. 0 \in S
  BY <1>1, <1>2, <1>3
<1>5. ASSUME NEW n \in 1..m, n - 1 \in S PROVE n \in S
  <2>1. n \in 0..m /\ n \in 0..top /\ n # 0 /\ f[n - 1] = g[n - 1] /\ lines[n] = longer[n]
    BY <1>1, <1>5
  <2>2. f[n] = Replay(f[n - 1], lines[n]) /\ g[n] = Replay(g[n - 1], longer[n])
    BY <1>2, <1>3, <2>1
  <2>3. QED
    BY <1>1, <2>1, <2>2
<1>6. QED
  BY <1>1, <1>4, <1>5, UpTo

LEMMA LoadIs ==
  ASSUME NEW base, NEW lines, Len(lines) \in Nat, NEW f, Reading(f, base, lines, Len(lines))
  PROVE  Load(base, lines) = f[Len(lines)]
<1>1. PICK g : g = CHOOSE h : h = [n \in 0..Len(lines) |->
                    IF n = 0 THEN Start(base) ELSE Replay(h[n - 1], lines[n])]
  OBVIOUS
<1>2. Reading(g, base, lines, Len(lines))
  BY <1>1 DEF Reading
<1>3. Load(base, lines) = g[Len(lines)]
  BY <1>1 DEF Load
<1>4. g[Len(lines)] = f[Len(lines)]
  BY <1>2, ReadingAgrees
<1>5. QED
  BY <1>3, <1>4

LEMMA LoadEmpty == ASSUME NEW base PROVE Load(base, <<>>) = Start(base)
<1>1. Len(<<>>) = 0
  OBVIOUS
<1>2. PICK f : Reading(f, base, <<>>, 0)
  BY ReadingExists
<1>3. f[0] = Start(base)
  BY <1>2 DEF Reading
<1>4. QED
  BY <1>1, <1>2, <1>3, LoadIs

(* The first n lines load to what the whole journal goes through. *)
LEMMA LoadPrefix ==
  ASSUME NEW base, NEW lines \in Seq(Events), NEW f, Reading(f, base, lines, Len(lines)),
         NEW n \in 0..Len(lines)
  PROVE  Load(base, SubSeq(lines, 1, n)) = f[n]
<1>1. PICK part : part = SubSeq(lines, 1, n)
  OBVIOUS
<1>2. /\ Len(part) = n /\ \A k \in 1..n : part[k] = lines[k]
      /\ n \in Nat /\ n <= Len(lines) /\ Len(lines) \in Nat
  BY <1>1
<1>3. PICK g : Reading(g, base, part, Len(part))
  BY <1>2, ReadingExists
<1>4. \A k \in 0..n : g[k] = f[k]
  BY <1>2, <1>3, ReadingAgrees
<1>5. g[n] = f[n]
  BY <1>2, <1>4
<1>6. Load(base, part) = g[Len(part)]
  BY <1>2, <1>3, LoadIs
<1>7. QED
  BY <1>1, <1>2, <1>5, <1>6

LEMMA LoadAppend ==
  ASSUME NEW base, NEW lines \in Seq(Events), NEW event \in Events
  PROVE  Load(base, Append(lines, event)) = Replay(Load(base, lines), event)
<1>1. PICK all : all = Append(lines, event)
  OBVIOUS
<1>2. PICK k : k = Len(lines)
  OBVIOUS
<1>3. /\ all \in Seq(Events) /\ Len(all) = k + 1 /\ k \in Nat /\ all[k + 1] = event
      /\ \A n \in 1..k : all[n] = lines[n]
      /\ k \in 0..Len(all) /\ Len(all) \in Nat /\ k + 1 \in 0..Len(all) /\ k + 1 # 0
  BY <1>1, <1>2
<1>4. PICK f : Reading(f, base, all, Len(all))
  BY <1>3, ReadingExists
<1>5. SubSeq(all, 1, k) = lines
  BY <1>1, <1>2, <1>3
<1>6. Load(base, lines) = f[k]
  BY <1>3, <1>4, <1>5, LoadPrefix
<1>7. Load(base, all) = f[k + 1]
  BY <1>3, <1>4, LoadIs
<1>8. f[k + 1] = Replay(f[k], event)
  <2>1. f[k + 1] = IF k + 1 = 0 THEN Start(base) ELSE Replay(f[k + 1 - 1], all[k + 1])
    BY <1>3, <1>4 DEF Reading
  <2>2. k + 1 - 1 = k
    BY <1>3
  <2>3. QED
    BY <1>3, <2>1, <2>2
<1>9. QED
  BY <1>1, <1>6, <1>7, <1>8
(* Its shape, and whether a line is accepted, known or new. *)
IsState(st) ==
  /\ st = [ok |-> st.ok, previous |-> st.previous, sequence |-> st.sequence,
           logs |-> st.logs, bytes |-> st.bytes, events |-> st.events]
  /\ st.ok \in BOOLEAN
  /\ st.previous \in Nat /\ st.sequence \in Nat /\ st.bytes \in Nat /\ st.events \in Nat

Known(st, event) == st.ok /\ event.sequence > st.previous /\ event.sequence <= st.sequence
Fresh(st, event) ==
  /\ st.ok /\ event.sequence > st.previous /\ event.sequence = st.sequence + 1
  /\ ~MergeTargetMissing(st.logs, event)

LEMMA StartState ==
  ASSUME NEW base \in Snapshots
  PROVE  /\ IsState(Start(base)) /\ Start(base).ok /\ Start(base).previous = 0
         /\ Start(base).sequence = base.sequence /\ Start(base).bytes = 0
         /\ base.sequence # 0 => Start(base).logs = base.logs
BY DEF Start, IsState, Snapshots

LEMMA ReplayKnown ==
  ASSUME NEW st, IsState(st), NEW event \in Events, Known(st, event)
  PROVE  /\ IsState(Replay(st, event)) /\ Replay(st, event).ok
         /\ Replay(st, event).previous = event.sequence
         /\ Replay(st, event).sequence = st.sequence /\ Replay(st, event).logs = st.logs
         /\ Replay(st, event).bytes = st.bytes + 1
<1>0. event.sequence \in Nat /\ st.previous \in Nat /\ st.sequence \in Nat
  BY DEF Events, IsState
<1>1. st.ok /\ event.sequence <= st.sequence /\ ~(event.sequence <= st.previous)
  BY <1>0 DEF Known
<1>2. Replay(st, event) = [st EXCEPT !.previous = event.sequence, !.bytes = @ + 1]
  BY <1>0, <1>1 DEF Replay
<1>3. PICK r : r = [ok |-> st.ok, previous |-> event.sequence, sequence |-> st.sequence,
                   logs |-> st.logs, bytes |-> st.bytes + 1, events |-> st.events]
  OBVIOUS
<1>4. Replay(st, event) = r
  BY <1>2, <1>3 DEF IsState
<1>5. /\ r.ok = st.ok /\ r.previous = event.sequence /\ r.sequence = st.sequence
      /\ r.logs = st.logs /\ r.bytes = st.bytes + 1 /\ r.events = st.events
  BY <1>3
<1>6. IsState(r)
  BY <1>0, <1>3, <1>5 DEF IsState
<1>7. r.ok
  BY <1>1, <1>5, Zenon
<1>8. QED
  BY <1>4, <1>5, <1>6, <1>7

LEMMA ReplayFresh ==
  ASSUME NEW st, IsState(st), NEW event \in Events, Fresh(st, event)
  PROVE  /\ IsState(Replay(st, event)) /\ Replay(st, event).ok
         /\ Replay(st, event).previous = event.sequence
         /\ Replay(st, event).sequence = event.sequence
         /\ Replay(st, event).logs = Applied(st.logs, event)
         /\ Replay(st, event).bytes = st.bytes + 1
<1>0. event.sequence \in Nat /\ st.previous \in Nat /\ st.sequence \in Nat
  BY DEF Events, IsState
<1>1. /\ st.ok /\ ~(event.sequence <= st.sequence) /\ ~(event.sequence <= st.previous)
      /\ event.sequence = st.sequence + 1 /\ ~MergeTargetMissing(st.logs, event)
  BY <1>0 DEF Fresh
<1>2. PICK seen : seen = [st EXCEPT !.previous = event.sequence, !.bytes = @ + 1]
  OBVIOUS
<1>3. Replay(st, event) = [seen EXCEPT !.sequence = event.sequence,
                                      !.logs = Applied(st.logs, event), !.events = @ + 1]
  BY <1>0, <1>1, <1>2 DEF Replay
<1>4. PICK r : r = [ok |-> st.ok, previous |-> event.sequence, sequence |-> event.sequence,
                   logs |-> Applied(st.logs, event), bytes |-> st.bytes + 1,
                   events |-> st.events + 1]
  OBVIOUS
<1>5. Replay(st, event) = r
  BY <1>2, <1>3, <1>4 DEF IsState
<1>6. /\ r.ok = st.ok /\ r.previous = event.sequence /\ r.sequence = event.sequence
      /\ r.logs = Applied(st.logs, event) /\ r.bytes = st.bytes + 1 /\ r.events = st.events + 1
  BY <1>4
<1>7. IsState(r)
  BY <1>0, <1>4, <1>6 DEF IsState
<1>8. r.ok
  BY <1>1, <1>6, Zenon
<1>9. QED
  BY <1>5, <1>6, <1>7, <1>8

LEMMA ReplayRefused ==
  ASSUME NEW st, IsState(st), NEW event \in Events, ~Known(st, event), ~Fresh(st, event)
  PROVE  IsState(Replay(st, event)) /\ ~Replay(st, event).ok
<1>0. event.sequence \in Nat /\ st.previous \in Nat /\ st.sequence \in Nat /\ st.ok \in BOOLEAN
  BY DEF Events, IsState
<1>1. Replay(st, event) = [st EXCEPT !.ok = FALSE]
  <2>1. CASE ~st.ok \/ event.sequence <= st.previous
    BY <1>0, <2>1 DEF Replay
  <2>2. CASE ~(~st.ok \/ event.sequence <= st.previous)
    <3>1. st.ok /\ event.sequence > st.previous /\ ~(event.sequence <= st.sequence)
      BY <1>0, <2>2 DEF Known
    <3>2. event.sequence # st.sequence + 1 \/ MergeTargetMissing(st.logs, event)
      BY <3>1 DEF Fresh
    <3>3. QED
      BY <1>0, <2>2, <3>1, <3>2 DEF Replay
  <2>3. QED
    BY <2>1, <2>2
<1>2. QED
  BY <1>1 DEF IsState

LEMMA ReplayOk ==
  ASSUME NEW st, IsState(st), NEW event \in Events, Replay(st, event).ok
  PROVE  Known(st, event) \/ Fresh(st, event)
BY ReplayRefused

(* What a journal that loads says of its lines. *)
Ordered(base, lines, n, st) ==
  /\ st.bytes = n
  /\ st.previous = IF n = 0 THEN 0 ELSE lines[n].sequence
  /\ st.sequence = IF st.previous <= base.sequence THEN base.sequence ELSE st.previous
  /\ \A k \in 1..n : lines[k].sequence \in 1..st.previous

LEMMA ReadingOrdered ==
  ASSUME NEW base \in Snapshots, NEW lines \in Seq(Events), NEW f,
         Reading(f, base, lines, Len(lines)), NEW n \in 0..Len(lines)
  PROVE  /\ IsState(f[n])
         /\ f[n].ok => Ordered(base, lines, n, f[n])
         /\ n > 0 /\ f[n].ok => f[n - 1].ok
<1>1. \A k \in 0..Len(lines) : f[k] = IF k = 0 THEN Start(base) ELSE Replay(f[k - 1], lines[k])
  BY DEF Reading
<1>2. PICK S : S = {k \in 0..Len(lines) : /\ IsState(f[k])
                                          /\ f[k].ok => Ordered(base, lines, k, f[k])
                                          /\ k > 0 /\ f[k].ok => f[k - 1].ok}
  OBVIOUS
<1>0. base.sequence \in Nat /\ Len(lines) \in Nat
  BY DEF Snapshots
<1>3. 0 \in S
  <2>1. f[0] = Start(base)
    BY <1>0, <1>1
  <2>2. Ordered(base, lines, 0, f[0])
    BY <1>0, <2>1, StartState DEF Ordered
  <2>3. QED
    BY <1>0, <1>2, <2>1, <2>2, StartState
<1>4. ASSUME NEW k \in 1..Len(lines), k - 1 \in S PROVE k \in S
  <2>1. PICK st : st = f[k - 1]
    OBVIOUS
  <2>2. PICK e : e = lines[k]
    OBVIOUS
  <2>3. /\ IsState(st)
        /\ st.ok => Ordered(base, lines, k - 1, st)
        /\ f[k] = Replay(st, e) /\ e \in Events /\ e.sequence \in Nat
    <3>1. e \in Events
      BY <2>2
    <3>2. e.sequence \in Nat
      BY <3>1 DEF Events
    <3>3. k - 1 \in 0..Len(lines) /\ k \in 0..Len(lines) /\ k # 0
      BY <1>0
    <3>4. f[k] = Replay(st, e)
      BY <1>1, <2>1, <2>2, <3>3
    <3>5. IsState(st)
      BY <1>2, <1>4, <2>1
    <3>6. st.ok => Ordered(base, lines, k - 1, st)
      BY <1>2, <1>4, <2>1
    <3>7. QED
      BY <3>1, <3>2, <3>4, <3>5, <3>6
  <2>4. CASE f[k].ok
    <3>1. Known(st, e) \/ Fresh(st, e)
      BY <2>3, <2>4, ReplayOk
    <3>2. st.ok /\ e.sequence > st.previous /\ st.previous \in Nat /\ st.sequence \in Nat
      BY <2>3, <3>1 DEF Known, Fresh, IsState
    <3>3. /\ st.bytes = k - 1 /\ (k - 1 = 0 => st.previous = 0)
          /\ st.sequence = IF st.previous <= base.sequence THEN base.sequence ELSE st.previous
          /\ \A j \in 1..(k - 1) : lines[j].sequence \in 1..st.previous
      BY <2>3, <3>2 DEF Ordered
    <3>4. /\ IsState(f[k]) /\ f[k].previous = e.sequence /\ f[k].bytes = st.bytes + 1
          /\ f[k].sequence = IF e.sequence <= st.sequence THEN st.sequence ELSE e.sequence
      <4>1. CASE Known(st, e)
        BY <2>3, <4>1, ReplayKnown DEF Known
      <4>2. CASE Fresh(st, e)
        <5>1. e.sequence = st.sequence + 1
          BY <4>2 DEF Fresh
        <5>2. QED
          BY <2>3, <3>2, <4>2, <5>1, ReplayFresh
      <4>3. QED
        BY <3>1, <4>1, <4>2
    <3>5. f[k].sequence = IF e.sequence <= base.sequence THEN base.sequence ELSE e.sequence
      BY <1>0, <2>3, <3>2, <3>3, <3>4
    <3>6. \A j \in 1..k : lines[j].sequence \in 1..e.sequence
      <4>1. ASSUME NEW j \in 1..k PROVE lines[j].sequence \in 1..e.sequence
        <5>1. CASE j = k
          BY <2>2, <2>3, <3>2, <5>1
        <5>2. CASE j # k
          <6>1. lines[j].sequence \in 1..st.previous
            BY <1>4, <3>3, <5>2
          <6>2. QED
            BY <2>3, <3>2, <6>1
        <5>3. QED
          BY <5>1, <5>2
      <4>2. QED
        BY <4>1
    <3>7. Ordered(base, lines, k, f[k])
      BY <1>4, <2>2, <3>3, <3>4, <3>5, <3>6 DEF Ordered
    <3>8. QED
      BY <1>2, <1>4, <2>1, <3>2, <3>4, <3>7
  <2>5. CASE ~f[k].ok
    <3>1. IsState(f[k])
      BY <2>3, ReplayKnown, ReplayFresh, ReplayRefused
    <3>2. QED
      BY <1>2, <1>4, <2>5, <3>1
  <2>6. QED
    BY <2>4, <2>5
<1>5. 0..Len(lines) \subseteq S
  BY <1>0, <1>3, <1>4, UpTo
<1>6. QED
  BY <1>2, <1>5

LEMMA ReadingAllOk ==
  ASSUME NEW base \in Snapshots, NEW lines \in Seq(Events), NEW f,
         Reading(f, base, lines, Len(lines)), f[Len(lines)].ok, NEW n \in 0..Len(lines)
  PROVE  f[n].ok
<1>1. PICK top : top = Len(lines)
  OBVIOUS
<1>2. top \in Nat
  BY <1>1
<1>3. PICK S : S = {k \in 0..top : f[top - k].ok}
  OBVIOUS
<1>4. 0 \in S
  BY <1>1, <1>2, <1>3
<1>5. ASSUME NEW k \in 1..top, k - 1 \in S PROVE k \in S
  <2>1. f[top - (k - 1)].ok /\ top - (k - 1) \in 0..top /\ top - (k - 1) > 0
    BY <1>2, <1>3, <1>5
  <2>2. f[top - (k - 1) - 1].ok
    BY <1>1, <2>1, ReadingOrdered
  <2>3. top - (k - 1) - 1 = top - k
    BY <1>2
  <2>4. QED
    BY <1>3, <2>2, <2>3
<1>6. 0..top \subseteq S
  BY <1>2, <1>4, <1>5, UpTo
<1>7. top - n \in 0..top /\ top - (top - n) = n
  BY <1>1, <1>2
<1>8. QED
  BY <1>3, <1>6, <1>7

(* A journal that loads: so does every part of it, and what it loads to is the
   newer of the snapshot and the last line. *)
LEMMA LoadOrdered ==
  ASSUME NEW base \in Snapshots, NEW lines \in Seq(Events)
  PROVE  /\ IsState(Load(base, lines))
         /\ Load(base, lines).ok =>
              /\ Ordered(base, lines, Len(lines), Load(base, lines))
              /\ \A n \in 0..Len(lines) : /\ Load(base, SubSeq(lines, 1, n)).ok
                                          /\ Load(base, SubSeq(lines, 1, n)).sequence >= base.sequence
<1>0. Len(lines) \in Nat /\ base.sequence \in Nat
  BY DEF Snapshots
<1>1. PICK f : Reading(f, base, lines, Len(lines))
  BY <1>0, ReadingExists
<1>2. Load(base, lines) = f[Len(lines)] /\ Len(lines) \in 0..Len(lines)
  BY <1>0, <1>1, LoadIs
<1>3. ASSUME f[Len(lines)].ok, NEW n \in 0..Len(lines)
      PROVE  Load(base, SubSeq(lines, 1, n)).ok /\ Load(base, SubSeq(lines, 1, n)).sequence >= base.sequence
  <2>1. Load(base, SubSeq(lines, 1, n)) = f[n]
    BY <1>1, LoadPrefix
  <2>2. f[n].ok
    BY <1>1, <1>3, ReadingAllOk
  <2>3. IsState(f[n]) /\ Ordered(base, lines, n, f[n])
    BY <1>1, <2>2, ReadingOrdered
  <2>4. f[n].sequence >= base.sequence
    BY <1>0, <2>3 DEF IsState, Ordered
  <2>5. QED
    BY <2>1, <2>2, <2>4
<1>4. IsState(f[Len(lines)]) /\ (f[Len(lines)].ok => Ordered(base, lines, Len(lines), f[Len(lines)]))
  BY <1>1, <1>2, ReadingOrdered
<1>5. QED
  BY <1>2, <1>3, <1>4

(* Behind a snapshot that is as new as every line, the journal changes nothing. *)
LEMMA LoadKnown ==
  ASSUME NEW base \in Snapshots, NEW other \in Snapshots, NEW lines \in Seq(Events),
         Load(other, lines).ok, Load(other, lines).sequence <= base.sequence
  PROVE  Load(base, lines).ok /\ Load(base, lines).logs = Start(base).logs
<1>0. Len(lines) \in Nat /\ base.sequence \in Nat /\ other.sequence \in Nat
  BY DEF Snapshots
<1>1. PICK f : Reading(f, base, lines, Len(lines))
  BY <1>0, ReadingExists
<1>2. PICK g : Reading(g, other, lines, Len(lines))
  BY <1>0, ReadingExists
<1>3. /\ \A k \in 0..Len(lines) : f[k] = IF k = 0 THEN Start(base) ELSE Replay(f[k - 1], lines[k])
      /\ \A k \in 0..Len(lines) : g[k] = IF k = 0 THEN Start(other) ELSE Replay(g[k - 1], lines[k])
  BY <1>1, <1>2 DEF Reading
<1>4. Load(base, lines) = f[Len(lines)] /\ Load(other, lines) = g[Len(lines)]
  BY <1>0, <1>1, <1>2, LoadIs
<1>5. \A k \in 0..Len(lines) : g[k].ok
  BY <1>2, <1>4, ReadingAllOk
<1>6. ASSUME NEW k \in 1..Len(lines) PROVE lines[k].sequence <= base.sequence
  <2>1. IsState(g[Len(lines)]) /\ Ordered(other, lines, Len(lines), g[Len(lines)])
    BY <1>0, <1>2, <1>5, ReadingOrdered
  <2>2. QED
    BY <1>0, <1>4, <2>1 DEF IsState, Ordered
<1>7. PICK S : S = {k \in 0..Len(lines) : /\ IsState(f[k]) /\ f[k].ok /\ f[k].logs = Start(base).logs
                                          /\ f[k].sequence = base.sequence /\ f[k].previous = g[k].previous}
  OBVIOUS
<1>8. 0 \in S
  <2>1. f[0] = Start(base) /\ g[0] = Start(other)
    BY <1>0, <1>3
  <2>2. QED
    BY <1>0, <1>7, <2>1, StartState
<1>9. ASSUME NEW k \in 1..Len(lines), k - 1 \in S PROVE k \in S
  <2>1. PICK e : e = lines[k]
    OBVIOUS
  <2>2. PICK st : st = f[k - 1]
    OBVIOUS
  <2>3. PICK ot : ot = g[k - 1]
    OBVIOUS
  <2>4. /\ f[k] = Replay(st, e) /\ g[k] = Replay(ot, e) /\ e \in Events /\ e.sequence \in Nat
        /\ IsState(st) /\ st.ok /\ st.logs = Start(base).logs /\ st.sequence = base.sequence
        /\ st.previous = ot.previous /\ k \in 0..Len(lines) /\ k - 1 \in 0..Len(lines)
    <3>1. e \in Events
      BY <2>1
    <3>2. e.sequence \in Nat
      BY <3>1 DEF Events
    <3>3. k - 1 \in 0..Len(lines) /\ k \in 0..Len(lines) /\ k # 0
      BY <1>0
    <3>4. f[k] = Replay(st, e) /\ g[k] = Replay(ot, e)
      BY <1>3, <2>1, <2>2, <2>3, <3>3
    <3>5. /\ IsState(st) /\ st.ok /\ st.logs = Start(base).logs /\ st.sequence = base.sequence
          /\ st.previous = ot.previous
      BY <1>7, <1>9, <2>2, <2>3
    <3>6. QED
      BY <3>1, <3>2, <3>3, <3>4, <3>5
  <2>5. IsState(ot)
    BY <1>2, <2>3, <2>4, ReadingOrdered
  <2>6. Known(ot, e) \/ Fresh(ot, e)
    BY <1>5, <2>4, <2>5, ReplayOk
  <2>7. e.sequence > st.previous /\ g[k].previous = e.sequence
    BY <2>4, <2>5, <2>6, ReplayKnown, ReplayFresh DEF Known, Fresh
  <2>8. Known(st, e)
    BY <1>6, <2>1, <2>4, <2>7 DEF Known
  <2>9. QED
    BY <1>7, <2>4, <2>7, <2>8, ReplayKnown
<1>10. 0..Len(lines) \subseteq S
  BY <1>0, <1>8, <1>9, UpTo
<1>11. QED
  BY <1>0, <1>4, <1>7, <1>10
-----------------------------------------------------------------------------
(* Rows *)

LEMMA RemoveAtRows ==
  ASSUME NEW logs \in Seq(Rows), NEW j \in DOMAIN logs
  PROVE  /\ RemoveAt(logs, j) \in Seq(Rows) /\ Len(RemoveAt(logs, j)) = Len(logs) - 1
         /\ \A n \in 1..(Len(logs) - 1) :
              RemoveAt(logs, j)[n] = logs[IF n < j THEN n ELSE n + 1]
<1>0. Len(logs) \in Nat /\ j \in 1..Len(logs)
  OBVIOUS
<1>1. PICK a : a = SubSeq(logs, 1, j - 1)
  OBVIOUS
<1>2. PICK b : b = SubSeq(logs, j + 1, Len(logs))
  OBVIOUS
<1>3. /\ a \in Seq(Rows) /\ Len(a) = j - 1 /\ \A n \in 1..(j - 1) : a[n] = logs[n]
      /\ b \in Seq(Rows) /\ Len(b) = Len(logs) - j
      /\ \A n \in 1..(Len(logs) - j) : b[n] = logs[n + j]
  BY <1>0, <1>1, <1>2
<1>4. PICK r : r = a \o b
  OBVIOUS
<1>5. /\ r \in Seq(Rows) /\ Len(r) = Len(logs) - 1
      /\ \A n \in 1..(j - 1) : r[n] = a[n]
      /\ \A n \in j..(Len(logs) - 1) : r[n] = b[n - (j - 1)]
  BY <1>0, <1>3, <1>4
<1>6. ASSUME NEW n \in 1..(Len(logs) - 1) PROVE r[n] = logs[IF n < j THEN n ELSE n + 1]
  <2>1. CASE n < j
    BY <1>0, <1>3, <1>5, <2>1
  <2>2. CASE ~(n < j)
    <3>1. n \in j..(Len(logs) - 1) /\ n - (j - 1) \in 1..(Len(logs) - j) /\ n - (j - 1) + j = n + 1
      BY <1>0, <2>2
    <3>2. r[n] = b[n - (j - 1)]
      BY <1>5, <3>1
    <3>3. b[n - (j - 1)] = logs[n + 1]
      BY <1>3, <3>1
    <3>4. QED
      BY <2>2, <3>2, <3>3
  <2>3. QED
    BY <2>1, <2>2
<1>7. RemoveAt(logs, j) = r
  BY <1>1, <1>2, <1>4 DEF RemoveAt
<1>8. QED
  BY <1>5, <1>6, <1>7

LEMMA TrimRows ==
  ASSUME NEW logs \in Seq(Rows), NEW n \in Nat \ {0}
  PROVE  /\ Trim(logs, n) \in Seq(Rows)
         /\ Trim(logs, n) = logs \/ Len(logs) > n
         /\ OneRowEach(logs) => OneRowEach(Trim(logs, n))
         /\ logs # <<>> => Trim(logs, n) # <<>> /\ Last(Trim(logs, n)) = Last(logs)
<1>0. Len(logs) \in Nat
  OBVIOUS
<1>1. CASE ~(Len(logs) > n)
  <2>1. Trim(logs, n) = logs
    BY <1>1 DEF Trim
  <2>2. QED
    BY <2>1
<1>2. CASE Len(logs) > n
  <2>1. PICK k : k = Len(logs) - n
    OBVIOUS
  <2>2. PICK t : t = SubSeq(logs, k + 1, Len(logs))
    OBVIOUS
  <2>3. k \in Nat /\ k > 0
    BY <1>0, <1>2, <2>1
  <2>4. t \in Seq(Rows) /\ Len(t) = n /\ \A j \in 1..n : t[j] = logs[j + k] /\ j + k \in DOMAIN logs
    BY <1>0, <1>2, <2>1, <2>2, <2>3
  <2>5. Trim(logs, n) = t
    BY <1>0, <1>2, <2>1, <2>2 DEF Trim
  <2>6. OneRowEach(logs) => OneRowEach(t)
    <3>1. SUFFICES ASSUME OneRowEach(logs), NEW i \in DOMAIN t, NEW j \in DOMAIN t,
                          t[i].key # Nothing, t[i].key = t[j].key
                   PROVE  i = j
      BY DEF OneRowEach
    <3>2. i \in 1..n /\ j \in 1..n
      BY <2>4
    <3>3. i + k = j + k
      BY <2>4, <3>1, <3>2 DEF OneRowEach
    <3>4. QED
      BY <2>3, <3>2, <3>3
  <2>7. t # <<>> /\ Last(t) = Last(logs)
    <3>1. n \in 1..n /\ n + k = Len(logs)
      BY <1>0, <2>1
    <3>2. t[n] = logs[n + k]
      BY <2>4, <3>1
    <3>3. QED
      BY <2>4, <3>1, <3>2 DEF Last
  <2>8. QED
    BY <1>2, <2>4, <2>5, <2>6, <2>7
<1>3. QED
  BY <1>1, <1>2

LEMMA AppendRow ==
  ASSUME NEW logs \in Seq(Rows), NEW row \in Rows
  PROVE  /\ Append(logs, row) \in Seq(Rows) /\ Append(logs, row) # <<>>
         /\ Last(Append(logs, row)) = row
         /\ OneRowEach(logs) /\ SameWindow(logs, row) = {} => OneRowEach(Append(logs, row))
<1>0. PICK k : k = Len(logs)
  OBVIOUS
<1>1. PICK a : a = Append(logs, row)
  OBVIOUS
<1>2. /\ a \in Seq(Rows) /\ Len(a) = k + 1 /\ k \in Nat /\ a[k + 1] = row
      /\ \A n \in 1..k : a[n] = logs[n] /\ DOMAIN logs = 1..k
  BY <1>0, <1>1
<1>3. ASSUME OneRowEach(logs), SameWindow(logs, row) = {} PROVE OneRowEach(a)
  <2>1. SUFFICES ASSUME NEW i \in DOMAIN a, NEW j \in DOMAIN a, a[i].key # Nothing, a[i].key = a[j].key
                 PROVE  i = j
    BY DEF OneRowEach
  <2>2. i \in 1..(k + 1) /\ j \in 1..(k + 1)
    BY <1>2
  <2>3. CASE i = k + 1 /\ j # k + 1
    <3>1. j \in DOMAIN logs /\ logs[j].key = row.key /\ row.key # Nothing
      BY <1>2, <2>1, <2>2, <2>3
    <3>2. QED
      BY <1>3, <3>1 DEF SameWindow
  <2>4. CASE j = k + 1 /\ i # k + 1
    <3>1. i \in DOMAIN logs /\ logs[i].key = row.key /\ row.key # Nothing
      BY <1>2, <2>1, <2>2, <2>4
    <3>2. QED
      BY <1>3, <3>1 DEF SameWindow
  <2>5. CASE i # k + 1 /\ j # k + 1
    <3>1. i \in DOMAIN logs /\ j \in DOMAIN logs /\ logs[i].key # Nothing /\ logs[i].key = logs[j].key
      BY <1>2, <2>1, <2>2, <2>5
    <3>2. QED
      BY <1>3, <3>1 DEF OneRowEach
  <2>6. QED
    BY <2>3, <2>4, <2>5
<1>4. QED
  BY <1>1, <1>2, <1>3 DEF Last

(* A merge: the row of the window, if there is one, goes, and the new row ends
   the log. *)
Without(logs, row) ==
  IF SameWindow(logs, row) = {} THEN logs ELSE RemoveAt(logs, Max(SameWindow(logs, row)))

LEMMA WithoutRows ==
  ASSUME NEW logs \in Seq(Rows), OneRowEach(logs), NEW row \in Rows
  PROVE  /\ Without(logs, row) \in Seq(Rows) /\ OneRowEach(Without(logs, row))
         /\ SameWindow(Without(logs, row), row) = {}
         /\ SameWindow(logs, row) # {} => Max(SameWindow(logs, row)) \in DOMAIN logs
<1>1. CASE SameWindow(logs, row) = {}
  BY <1>1 DEF Without
<1>2. CASE SameWindow(logs, row) # {}
  <2>0. PICK w : w = SameWindow(logs, row)
    OBVIOUS
  <2>1. PICK j : j \in w
    BY <1>2, <2>0
  <2>2. j \in DOMAIN logs /\ row.key # Nothing /\ logs[j].key = row.key /\ j \in Nat
    BY <2>0, <2>1 DEF SameWindow
  <2>3. w = {j}
    <3>1. ASSUME NEW k \in w PROVE k = j
      <4>1. k \in DOMAIN logs /\ logs[k].key = row.key
        BY <2>0, <3>1 DEF SameWindow
      <4>2. QED
        BY <2>2, <4>1 DEF OneRowEach
    <3>2. QED
      BY <2>1, <3>1
  <2>4. Max(w) = j
    BY <2>2, <2>3 DEF Max
  <2>5. PICK r : r = RemoveAt(logs, j)
    OBVIOUS
  <2>6. Without(logs, row) = r
    BY <1>2, <2>0, <2>4, <2>5 DEF Without
  <2>7. PICK k : k = Len(logs) - 1
    OBVIOUS
  <2>8. /\ r \in Seq(Rows) /\ Len(r) = k /\ k \in Nat /\ DOMAIN logs = 1..(k + 1)
        /\ \A n \in 1..k : r[n] = logs[IF n < j THEN n ELSE n + 1]
    <3>1. /\ r \in Seq(Rows) /\ Len(r) = Len(logs) - 1
          /\ \A n \in 1..(Len(logs) - 1) : r[n] = logs[IF n < j THEN n ELSE n + 1]
      BY <2>2, <2>5, RemoveAtRows
    <3>2. Len(logs) \in Nat /\ DOMAIN logs = 1..Len(logs) /\ Len(logs) # 0
      BY <2>2
    <3>3. k \in Nat /\ k + 1 = Len(logs)
      BY <2>7, <3>2
    <3>4. QED
      BY <2>7, <3>1, <3>2, <3>3
  <2>9. ASSUME NEW m \in DOMAIN r, NEW n \in DOMAIN r, r[m].key # Nothing, r[m].key = r[n].key
        PROVE  m = n
    <3>1. m \in 1..k /\ n \in 1..k
      BY <2>8
    <3>2. PICK a : a = IF m < j THEN m ELSE m + 1
      OBVIOUS
    <3>3. PICK b : b = IF n < j THEN n ELSE n + 1
      OBVIOUS
    <3>4. r[m] = logs[a] /\ r[n] = logs[b] /\ a \in DOMAIN logs /\ b \in DOMAIN logs
      BY <2>2, <2>8, <3>1, <3>2, <3>3
    <3>5. a = b
      BY <2>9, <3>4 DEF OneRowEach
    <3>6. QED
      BY <2>2, <3>1, <3>2, <3>3, <3>5
  <2>10. SameWindow(r, row) = {}
    <3>1. SUFFICES ASSUME NEW m \in DOMAIN r, r[m].key = row.key PROVE FALSE
      BY DEF SameWindow
    <3>2. PICK a : a = IF m < j THEN m ELSE m + 1
      OBVIOUS
    <3>3. m \in 1..k /\ r[m] = logs[a] /\ a \in DOMAIN logs /\ a # j
      BY <2>2, <2>8, <3>1, <3>2
    <3>4. a \in w
      BY <2>0, <2>2, <3>1, <3>3 DEF SameWindow
    <3>5. QED
      BY <2>3, <3>3, <3>4
  <2>11. OneRowEach(r)
    BY <2>9 DEF OneRowEach
  <2>12. QED
    BY <2>0, <2>2, <2>4, <2>6, <2>8, <2>10, <2>11
<1>3. QED
  BY <1>1, <1>2

LEMMA MergeRows ==
  ASSUME NEW logs \in Seq(Rows), OneRowEach(logs), NEW row \in Rows
  PROVE  /\ Merge(logs, row) \in Seq(Rows) /\ Merge(logs, row) # <<>>
         /\ OneRowEach(Merge(logs, row))
         /\ Last(Merge(logs, row)) \in Rows /\ Last(Merge(logs, row)).key = row.key
         /\ Merge(logs, row) = Append(Without(logs, row), Last(Merge(logs, row)))
         /\ SameWindow(logs, row) = {} => Merge(logs, row) = Append(logs, row)
<1>1. CASE SameWindow(logs, row) = {}
  BY <1>1, AppendRow DEF Merge, Without
<1>2. CASE SameWindow(logs, row) # {}
  <2>1. PICK j : j = Max(SameWindow(logs, row))
    OBVIOUS
  <2>2. j \in DOMAIN logs
    BY <1>2, <2>1, WithoutRows
  <2>3. PICK m : m = [row EXCEPT !.id = logs[j].id, !.count = @ + logs[j].count]
    OBVIOUS
  <2>4. m \in Rows /\ m.key = row.key
    <3>1. PICK old \in Rows : old = logs[j]
      BY <2>2
    <3>2. m = [row EXCEPT !.id = old.id, !.count = row.count + old.count]
      BY <2>3, <3>1
    <3>3. row.count + old.count \in Nat /\ old.id \in Nat
      BY DEF Rows
    <3>4. QED
      BY <3>2, <3>3 DEF Rows
  <2>5. Merge(logs, row) = Append(Without(logs, row), m)
    BY <1>2, <2>1, <2>3 DEF Merge, Without
  <2>6. SameWindow(Without(logs, row), m) = {}
    <3>1. SameWindow(Without(logs, row), m) = SameWindow(Without(logs, row), row)
      BY <2>4 DEF SameWindow
    <3>2. QED
      BY <3>1, WithoutRows
  <2>7. PICK rest : rest = Without(logs, row)
    OBVIOUS
  <2>8. rest \in Seq(Rows) /\ OneRowEach(rest)
    BY <2>7, WithoutRows
  <2>9. /\ Append(rest, m) \in Seq(Rows) /\ Append(rest, m) # <<>>
        /\ Last(Append(rest, m)) = m /\ OneRowEach(Append(rest, m))
    BY <2>4, <2>6, <2>7, <2>8, AppendRow
  <2>10. QED
    BY <1>2, <2>4, <2>5, <2>7, <2>9
<1>3. QED
  BY <1>1, <1>2

(* compactBackoffLogs leaves one row per window, and a log that has no more alone. *)
Compacting(f, logs, m) ==
  f = [n \in 0..m |-> IF n = 0 THEN <<>> ELSE Merge(f[n - 1], logs[n])]

LEMMA CompactingExists ==
  ASSUME NEW logs, NEW top \in Nat
  PROVE  \E f : Compacting(f, logs, top)
<1>1. PICK S : S = {m \in 0..top : \E f : Compacting(f, logs, m)}
  OBVIOUS
<1>2. 0 \in S
  <2>1. PICK f : f = [n \in 0..0 |-> <<>>]
    OBVIOUS
  <2>2. f = [n \in 0..0 |-> IF n = 0 THEN <<>> ELSE Merge(f[n - 1], logs[n])]
    BY <2>1
  <2>3. QED
    BY <1>1, <2>2 DEF Compacting
<1>3. ASSUME NEW m \in 1..top, m - 1 \in S PROVE m \in S
  <2>1. PICK g : Compacting(g, logs, m - 1)
    BY <1>1, <1>3
  <2>2. PICK f : f = [n \in 0..m |-> IF n = m THEN Merge(g[m - 1], logs[m]) ELSE g[n]]
    OBVIOUS
  <2>3. \A k \in 0..(m - 1) : g[k] = IF k = 0 THEN <<>> ELSE Merge(g[k - 1], logs[k])
    BY <2>1 DEF Compacting
  <2>4. \A k \in 0..(m - 1) : f[k] = g[k] /\ (k # 0 => f[k - 1] = g[k - 1])
    BY <2>2
  <2>5. f[m] = Merge(f[m - 1], logs[m])
    <3>1. m - 1 \in 0..(m - 1)
      OBVIOUS
    <3>2. f[m] = Merge(g[m - 1], logs[m])
      BY <2>2
    <3>3. QED
      BY <2>4, <3>1, <3>2
  <2>6. ASSUME NEW n \in 0..m PROVE f[n] = IF n = 0 THEN <<>> ELSE Merge(f[n - 1], logs[n])
    <3>1. CASE n = m
      BY <2>5, <3>1
    <3>2. CASE n # m
      <4>1. n \in 0..(m - 1)
        BY <3>2
      <4>2. QED
        BY <2>3, <2>4, <4>1
    <3>3. QED
      BY <3>1, <3>2
  <2>7. f = [n \in 0..m |-> IF n = 0 THEN <<>> ELSE Merge(f[n - 1], logs[n])]
    BY <2>2, <2>6
  <2>8. QED
    BY <1>1, <2>7 DEF Compacting
<1>4. 0..top \subseteq S
  BY <1>2, <1>3, UpTo
<1>5. QED
  BY <1>1, <1>4

LEMMA CompactRows ==
  ASSUME NEW logs \in Seq(Rows)
  PROVE  /\ Compact(logs) \in Seq(Rows) /\ OneRowEach(Compact(logs))
         /\ OneRowEach(logs) => Compact(logs) = logs
<1>0. Len(logs) \in Nat /\ DOMAIN logs = 1..Len(logs)
  OBVIOUS
<1>1. PICK f : f = CHOOSE g : g = [n \in 0..Len(logs) |->
                    IF n = 0 THEN <<>> ELSE Merge(g[n - 1], logs[n])]
  OBVIOUS
<1>2. Compacting(f, logs, Len(logs))
  <2>1. \E g : Compacting(g, logs, Len(logs))
    BY <1>0, CompactingExists
  <2>2. QED
    BY <1>1, <2>1 DEF Compacting
<1>3. Compact(logs) = f[Len(logs)]
  BY <1>1 DEF Compact
<1>4. \A n \in 0..Len(logs) : f[n] = IF n = 0 THEN <<>> ELSE Merge(f[n - 1], logs[n])
  BY <1>2 DEF Compacting
<1>5. PICK S : S = {n \in 0..Len(logs) : /\ f[n] \in Seq(Rows) /\ OneRowEach(f[n])
                                         /\ OneRowEach(logs) => f[n] = SubSeq(logs, 1, n)}
  OBVIOUS
<1>6. 0 \in S
  <2>1. f[0] = <<>>
    BY <1>0, <1>4
  <2>2. <<>> \in Seq(Rows) /\ SubSeq(logs, 1, 0) = <<>>
    OBVIOUS
  <2>3. OneRowEach(<<>>)
    BY DEF OneRowEach
  <2>4. PICK e : e = <<>>
    OBVIOUS
  <2>5. e \in Seq(Rows) /\ SubSeq(logs, 1, 0) = e /\ OneRowEach(e) /\ f[0] = e
    BY <2>1, <2>2, <2>3, <2>4
  <2>6. 0 \in 0..Len(logs)
    BY <1>0
  <2>7. QED
    BY <1>5, <2>5, <2>6
<1>7. ASSUME NEW n \in 1..Len(logs), n - 1 \in S PROVE n \in S
  <2>1. PICK out : out = f[n - 1]
    OBVIOUS
  <2>2. PICK row \in Rows : row = logs[n]
    BY <1>0
  <2>3. f[n] = Merge(out, row) /\ n \in 0..Len(logs)
    BY <1>0, <1>4, <2>1, <2>2
  <2>4. out \in Seq(Rows) /\ OneRowEach(out) /\ (OneRowEach(logs) => out = SubSeq(logs, 1, n - 1))
    BY <1>5, <1>7, <2>1
  <2>5. ASSUME OneRowEach(logs) PROVE Merge(out, row) = SubSeq(logs, 1, n)
    <3>1. out = SubSeq(logs, 1, n - 1)
      BY <2>4, <2>5
    <3>2. Len(out) = n - 1 /\ \A j \in 1..(n - 1) : out[j] = logs[j]
      BY <1>0, <3>1
    <3>3. SameWindow(out, row) = {}
      <4>1. SUFFICES ASSUME NEW j \in DOMAIN out, row.key # Nothing, out[j].key = row.key PROVE FALSE
        BY DEF SameWindow
      <4>2. j \in 1..(n - 1) /\ j \in DOMAIN logs /\ n \in DOMAIN logs
        BY <1>0, <2>4, <3>2
      <4>3. logs[j].key = logs[n].key /\ logs[j].key # Nothing
        BY <2>2, <3>2, <4>1, <4>2
      <4>4. j = n
        BY <2>5, <4>2, <4>3 DEF OneRowEach
      <4>5. QED
        BY <1>0, <4>2, <4>4
    <3>4. Merge(out, row) = Append(out, row)
      BY <2>4, <3>3, MergeRows
    <3>5. Append(SubSeq(logs, 1, n - 1), logs[n]) = SubSeq(logs, 1, n)
      BY <1>0
    <3>6. QED
      BY <2>2, <3>1, <3>4, <3>5
  <2>6. Merge(out, row) \in Seq(Rows) /\ OneRowEach(Merge(out, row))
    BY <2>4, MergeRows
  <2>7. QED
    BY <1>5, <2>3, <2>5, <2>6
<1>8. Len(logs) \in S
  <2>1. 0..Len(logs) \subseteq S
    BY <1>0, <1>6, <1>7, UpTo
  <2>2. QED
    BY <1>0, <2>1
<1>9. SubSeq(logs, 1, Len(logs)) = logs
  OBVIOUS
<1>10. QED
  BY <1>3, <1>5, <1>8, <1>9
-----------------------------------------------------------------------------
(* The invariant *)

(* One plugin instance writes the files. *)
Alone == Instances = {TheInstance}

Me == inst[TheInstance]

(* The newest change that a snapshot and the lines behind it hold. *)
Newest(base, lines) ==
  IF lines = <<>> THEN base.sequence ELSE Max({base.sequence, Last(lines).sequence})

(* What the files hold is what a start would show; a loss of power returns to a
   directory entry that is older but continues with the same journal. *)
Files ==
  /\ OnDisk.ok /\ OnDisk.logs = saved
  /\ synced.sequence <= snapshot.sequence
  /\ ~onUnsynced => Load(synced, journal).ok

(* Each later version is one change, and the last of them is in memory. *)
Versions ==
  /\ Loaded(TheInstance) =>
       /\ Me.sequence = SavedSequence + Len(unsaved)
       /\ Me.logs = IF unsaved = <<>> THEN saved ELSE Last(unsaved)
  /\ ~Loaded(TheInstance) => unsaved = <<>> /\ Me.step = "idle"

(* The journal ends where the instance left it, and what is pending continues it
   to the rows in memory. *)
Following(s) ==
  /\ s.journalBytes = Len(journal)
  /\ Len(s.pending) = Len(unsaved) /\ Len(unsaved) <= 1
  /\ s.pending # <<>> =>
       Fresh(OnDisk, s.pending[1]) /\ Applied(OnDisk.logs, s.pending[1]) = s.logs
  /\ s.step \in {"idle", "flush", "write", "check", "snapshot"} => onUnsynced \/ synced = snapshot

Flushing(s) ==
  /\ s.needsSnapshot => s.pending = <<>> /\ s.sequence > 0
  /\ ~s.needsSnapshot => Following(s)
  /\ s.step \notin {"flush", "write"} => s.pending = <<>>
  /\ s.step \in {"write", "check"} => ~s.needsSnapshot
  /\ s.step = "write" => s.pending # <<>>
  /\ s.step \in {"snapshot", "sync", "truncate"} => s.sequence > 0
  /\ s.step \in {"sync", "truncate"} => snapshot = [sequence |-> s.sequence, logs |-> s.logs]
  /\ s.step = "truncate" => synced = snapshot /\ ~onUnsynced
  /\ s.sequence = 0 => s.journalBytes = 0 /\ s.journalEvents = 0

OneRows ==
  /\ OneRowEach(saved) /\ OneRowEach(Me.logs)
  /\ \A n \in DOMAIN unsaved : OneRowEach(unsaved[n])

LogInv ==
  /\ Alone /\ LogTypeOK /\ Files /\ Versions /\ OneRows
  /\ Loaded(TheInstance) => Flushing(Me)
LEMMA MaxOfTwo == ASSUME NEW a \in Nat, NEW b \in Nat PROVE Max({a, b}) = IF a >= b THEN a ELSE b
<1>1. PICK m : m = IF a >= b THEN a ELSE b
  OBVIOUS
<1>2. m \in {a, b} /\ \A y \in {a, b} : m >= y
  BY <1>1
<1>3. PICK x : x = CHOOSE z \in {a, b} : \A y \in {a, b} : z >= y
  OBVIOUS
<1>4. x \in {a, b} /\ \A y \in {a, b} : x >= y
  BY <1>2, <1>3
<1>5. x = m
  BY <1>1, <1>2, <1>4
<1>6. QED
  BY <1>1, <1>3, <1>5 DEF Max

LEMMA LoadNewest ==
  ASSUME NEW base \in Snapshots, NEW lines \in Seq(Events), Load(base, lines).ok
  PROVE  /\ Load(base, lines).sequence = Newest(base, lines) /\ Newest(base, lines) \in Nat
         /\ base.sequence <= Newest(base, lines)
         /\ Load(base, lines).bytes = Len(lines)
         /\ Load(base, lines).previous \in Nat /\ Load(base, lines).previous <= Newest(base, lines)
         /\ Load(base, lines).events \in Nat
         /\ Newest(base, lines) = 0 => lines = <<>>
<1>0. Len(lines) \in Nat /\ base.sequence \in Nat
  BY DEF Snapshots
<1>1. PICK st : st = Load(base, lines)
  OBVIOUS
<1>2. IsState(st) /\ Ordered(base, lines, Len(lines), st)
  BY <1>1, LoadOrdered
<1>3. CASE lines = <<>>
  <2>1. Len(lines) = 0
    BY <1>3
  <2>2. st.previous = 0 /\ st.sequence = base.sequence /\ st.bytes = Len(lines) /\ st.events \in Nat
    BY <1>0, <1>2, <2>1 DEF Ordered, IsState
  <2>3. Newest(base, lines) = base.sequence
    BY <1>3 DEF Newest
  <2>4. QED
    BY <1>0, <1>1, <1>3, <2>2, <2>3
<1>4. CASE lines # <<>>
  <2>1. Len(lines) \in 1..Len(lines) /\ Len(lines) # 0
    BY <1>0, <1>4
  <2>2. PICK last : last = Last(lines).sequence
    OBVIOUS
  <2>3. /\ st.previous = last /\ st.bytes = Len(lines) /\ st.events \in Nat /\ last \in 1..st.previous
        /\ st.sequence = IF st.previous <= base.sequence THEN base.sequence ELSE st.previous
    BY <1>2, <2>1, <2>2 DEF Ordered, IsState, Last
  <2>4. last \in Nat /\ last > 0
    BY <1>2, <2>3 DEF IsState
  <2>5. Newest(base, lines) = IF base.sequence >= last THEN base.sequence ELSE last
    BY <1>0, <1>4, <2>2, <2>4, MaxOfTwo DEF Newest
  <2>6. QED
    BY <1>0, <1>1, <2>3, <2>4, <2>5
<1>5. QED
  BY <1>3, <1>4

(* The files, read. *)
LEMMA Disk ==
  ASSUME LogInv
  PROVE  /\ OnDisk = Load(snapshot, journal) /\ SavedSequence = Newest(snapshot, journal)
         /\ OnDisk.ok /\ OnDisk.logs = saved /\ OnDisk.sequence = SavedSequence
         /\ SavedSequence \in Nat /\ snapshot.sequence \in Nat /\ snapshot.sequence <= SavedSequence
         /\ OnDisk.bytes = Len(journal) /\ OnDisk.events \in Nat
         /\ OnDisk.previous \in Nat /\ OnDisk.previous <= SavedSequence
         /\ SavedSequence = 0 => journal = <<>> /\ OnDisk.events = 0
         /\ IsState(OnDisk)
         /\ snapshot \in Snapshots /\ synced \in Snapshots /\ journal \in Seq(Events)
<1>1. snapshot \in Snapshots /\ synced \in Snapshots /\ journal \in Seq(Events)
  BY DEF LogInv, LogTypeOK
<1>2. OnDisk = Load(snapshot, journal) /\ SavedSequence = Newest(snapshot, journal)
  BY DEF OnDisk, SavedSequence, Newest
<1>3. OnDisk.ok /\ OnDisk.logs = saved
  BY DEF LogInv, Files
<1>4. snapshot.sequence \in Nat
  BY <1>1 DEF Snapshots
<1>5. IsState(OnDisk)
  BY <1>1, <1>2, LoadOrdered
<1>6. journal = <<>> => OnDisk.events = 0
  BY <1>2, LoadEmpty DEF Start
<1>7. QED
  BY <1>1, <1>2, <1>3, <1>4, <1>5, <1>6, LoadNewest

LEMMA SameFiles ==
  ASSUME LogInv, UNCHANGED <<snapshot, synced, journal, saved, onUnsynced>>
  PROVE  OnDisk' = OnDisk /\ SavedSequence' = SavedSequence /\ Files'
<1>1. UNCHANGED <<snapshot, synced, journal, saved, onUnsynced>>
  OBVIOUS
<1>2. OnDisk' = OnDisk
  BY <1>1 DEF OnDisk
<1>3. SavedSequence' = SavedSequence
  BY <1>1 DEF SavedSequence
<1>4. Files'
  BY <1>1, <1>2 DEF LogInv, Files
<1>5. QED
  BY <1>1, <1>2, <1>3, <1>4

LEMMA MyRecord ==
  ASSUME LogInv
  PROVE  /\ Me \in InstanceRecords /\ TheInstance \in Instances /\ Instances = {TheInstance}
         /\ DOMAIN inst = Instances
         /\ \A new : inst' = [inst EXCEPT ![TheInstance] = new] => Me' = new
<1>1. Instances = {TheInstance} /\ inst \in [Instances -> InstanceRecords]
  BY DEF LogInv, Alone, LogTypeOK
<1>2. TheInstance' = TheInstance
  BY DEF TheInstance
<1>3. QED
  BY <1>1, <1>2 DEF Me

(* A step that changes neither what the files hold nor the rows. *)
LEMMA TornStep ==
  ASSUME LogInv, UNCHANGED <<snapshot, synced, journal, saved, onUnsynced, unsaved>>,
         torn' \in BOOLEAN, faults' \in Nat, kills' \in Nat,
         NEW new \in InstanceRecords, inst' = [inst EXCEPT ![TheInstance] = new],
         Loaded(TheInstance), new.status # "unloaded",
         new.logs = Me.logs, new.sequence = Me.sequence, Flushing(new)
  PROVE  LogInv'
<1>1. /\ OnDisk' = OnDisk /\ SavedSequence' = SavedSequence /\ Files'
      /\ UNCHANGED <<snapshot, synced, journal, saved, onUnsynced, unsaved>>
  BY SameFiles
<1>2. Me' = new /\ TheInstance' = TheInstance
  BY MyRecord DEF TheInstance
<1>3. Loaded(TheInstance)'
  BY <1>2 DEF Loaded, Me
<1>4. Flushing(Me)'
  BY <1>1, <1>2 DEF Flushing, Following
<1>5. Versions'
  BY <1>1, <1>2, <1>3 DEF LogInv, Versions
<1>6. OneRows'
  BY <1>1, <1>2 DEF LogInv, OneRows
<1>7. LogTypeOK'
  BY <1>1 DEF LogInv, LogTypeOK
<1>8. Alone'
  BY <1>2 DEF LogInv, Alone
<1>9. QED
  BY <1>1, <1>4, <1>5, <1>6, <1>7, <1>8 DEF LogInv

LEMMA QuietStep ==
  ASSUME LogInv, UNCHANGED <<disk, unsaved>>, faults' \in Nat, kills' \in Nat,
         NEW new \in InstanceRecords, inst' = [inst EXCEPT ![TheInstance] = new],
         Loaded(TheInstance), new.status # "unloaded",
         new.logs = Me.logs, new.sequence = Me.sequence, Flushing(new)
  PROVE  LogInv'
<1>1. UNCHANGED <<snapshot, synced, journal, saved, onUnsynced, unsaved>>
  BY DEF disk
<1>2. torn' \in BOOLEAN
  BY DEF disk, LogInv, LogTypeOK
<1>3. QED
  BY <1>1, <1>2, TornStep
-----------------------------------------------------------------------------
(* Steps that change neither the files nor the rows *)

LEMMA FlushingNow == ASSUME LogInv, Loaded(TheInstance) PROVE Flushing(Me)
BY DEF LogInv

LEMMA ScheduledRecord ==
  ASSUME NEW s \in InstanceRecords
  PROVE  /\ Scheduled(s) \in InstanceRecords /\ Scheduled(s).status = s.status
         /\ Scheduled(s).step = s.step /\ Scheduled(s).logs = s.logs
         /\ Scheduled(s).sequence = s.sequence /\ Scheduled(s).pending = s.pending
         /\ Scheduled(s).needsSnapshot = s.needsSnapshot
         /\ Scheduled(s).journalBytes = s.journalBytes /\ Scheduled(s).journalEvents = s.journalEvents
BY DEF Scheduled, InstanceRecords

LEMMA PutConfigInv == ASSUME LogInv, NEW n \in Retentions, PutConfig(TheInstance, n) PROVE LogInv'
<1>1. PICK new : new = [Me EXCEPT !.retention = n]
  OBVIOUS
<1>2. /\ inst' = [inst EXCEPT ![TheInstance] = new] /\ UNCHANGED <<disk, faults, kills, unsaved>>
      /\ Loaded(TheInstance)
  BY <1>1, MyRecord DEF PutConfig, Idle, bounds, Me
<1>3. new \in InstanceRecords
  BY <1>1, MyRecord DEF InstanceRecords
<1>4. /\ new.status = Me.status /\ new.logs = Me.logs /\ new.sequence = Me.sequence
      /\ new.step = Me.step /\ new.pending = Me.pending /\ new.needsSnapshot = Me.needsSnapshot
      /\ new.journalBytes = Me.journalBytes /\ new.journalEvents = Me.journalEvents
  BY <1>1, MyRecord DEF InstanceRecords
<1>5. Flushing(new)
  BY <1>2, <1>4, FlushingNow DEF Flushing, Following
<1>6. new.status # "unloaded" /\ faults' \in Nat /\ kills' \in Nat
  BY <1>2, <1>4 DEF Loaded, Me, LogInv, LogTypeOK
<1>7. QED
  BY <1>2, <1>3, <1>4, <1>5, <1>6, QuietStep

LEMMA PostponeInv == ASSUME LogInv, Loaded(TheInstance), Postpone(TheInstance) PROVE LogInv'
<1>1. PICK s : s = [Me EXCEPT !.step = "idle"]
  OBVIOUS
<1>2. PICK new : new = Scheduled(s)
  OBVIOUS
<1>3. /\ inst' = [inst EXCEPT ![TheInstance] = new] /\ UNCHANGED <<disk, faults, kills, unsaved>>
      /\ Me.needsSnapshot
  BY <1>1, <1>2, MyRecord DEF Postpone, bounds, Me
<1>a. s \in InstanceRecords
  BY <1>1, MyRecord DEF InstanceRecords, Steps
<1>4. /\ s.status = Me.status /\ s.logs = Me.logs /\ s.sequence = Me.sequence
      /\ s.step = "idle" /\ s.pending = Me.pending /\ s.needsSnapshot = Me.needsSnapshot
      /\ s.journalBytes = Me.journalBytes /\ s.journalEvents = Me.journalEvents
  BY <1>1, MyRecord DEF InstanceRecords
<1>5. /\ new \in InstanceRecords
      /\ new.status = Me.status /\ new.logs = Me.logs /\ new.sequence = Me.sequence
      /\ new.step = "idle" /\ new.pending = Me.pending /\ new.needsSnapshot = Me.needsSnapshot
      /\ new.journalBytes = Me.journalBytes /\ new.journalEvents = Me.journalEvents
  BY <1>2, <1>a, <1>4, ScheduledRecord
<1>6. Flushing(new)
  BY <1>3, <1>5, FlushingNow DEF Flushing, Following
<1>7. new.status # "unloaded" /\ faults' \in Nat /\ kills' \in Nat
  BY <1>3, <1>5 DEF Loaded, Me, LogInv, LogTypeOK
<1>8. QED
  BY <1>3, <1>5, <1>6, <1>7, QuietStep

LEMMA ChooseWriterInv == ASSUME LogInv, Loaded(TheInstance), ChooseWriter(TheInstance) PROVE LogInv'
<1>0. PICK step : step = IF Me.needsSnapshot THEN "snapshot" ELSE IF Me.pending # <<>> THEN "write" ELSE "check"
  OBVIOUS
<1>1. PICK new : new = [Me EXCEPT !.step = step]
  OBVIOUS
<1>2. /\ inst' = [inst EXCEPT ![TheInstance] = new] /\ UNCHANGED <<disk, faults, kills, unsaved>>
      /\ Me.step = "flush"
  BY <1>0, <1>1, MyRecord DEF ChooseWriter, bounds, Me
<1>3. new \in InstanceRecords
  BY <1>0, <1>1, MyRecord DEF InstanceRecords, Steps
<1>4. /\ new.status = Me.status /\ new.logs = Me.logs /\ new.sequence = Me.sequence
      /\ new.step = step /\ new.pending = Me.pending /\ new.needsSnapshot = Me.needsSnapshot
      /\ new.journalBytes = Me.journalBytes /\ new.journalEvents = Me.journalEvents
  BY <1>1, MyRecord DEF InstanceRecords
<1>5. Flushing(new)
  BY <1>0, <1>2, <1>4, FlushingNow DEF Flushing, Following
<1>6. new.status # "unloaded" /\ faults' \in Nat /\ kills' \in Nat
  BY <1>2, <1>4 DEF Loaded, Me, LogInv, LogTypeOK
<1>7. QED
  BY <1>2, <1>3, <1>4, <1>5, <1>6, QuietStep

(* A journal that is full is not empty. *)
LEMMA FullHasChanges ==
  ASSUME LogInv, Loaded(TheInstance), Me.step = "check", Full(Me)
  PROVE  Me.sequence > 0
<1>1. Me.sequence \in Nat /\ Me.journalBytes \in Nat /\ Me.journalEvents \in Nat
  BY MyRecord DEF InstanceRecords
<1>2. Me.sequence = 0 => Me.journalBytes = 0 /\ Me.journalEvents = 0
  BY FlushingNow DEF Flushing
<1>3. QED
  BY <1>1, <1>2, RequestLogStoreAssumption DEF Full

LEMMA CheckInv == ASSUME LogInv, Loaded(TheInstance), Check(TheInstance) PROVE LogInv'
<1>0. PICK new : new = IF Full(Me) THEN [Me EXCEPT !.step = "snapshot"] ELSE Succeeded(Me)
  OBVIOUS
<1>2. /\ inst' = [inst EXCEPT ![TheInstance] = new] /\ UNCHANGED <<disk, faults, kills, unsaved>>
      /\ Me.step = "check"
  BY <1>0, MyRecord DEF Check, bounds, Me
<1>3. new \in InstanceRecords
  BY <1>0, MyRecord DEF InstanceRecords, Steps, Succeeded
<1>4. /\ new.status = Me.status /\ new.logs = Me.logs /\ new.sequence = Me.sequence
      /\ new.step = IF Full(Me) THEN "snapshot" ELSE "idle"
      /\ new.pending = Me.pending /\ new.needsSnapshot = Me.needsSnapshot
      /\ new.journalBytes = Me.journalBytes /\ new.journalEvents = Me.journalEvents
  BY <1>0, MyRecord DEF InstanceRecords, Succeeded
<1>5. Flushing(new)
  BY <1>2, <1>4, FlushingNow, FullHasChanges DEF Flushing, Following
<1>6. new.status # "unloaded" /\ faults' \in Nat /\ kills' \in Nat
  BY <1>2, <1>4 DEF Loaded, Me, LogInv, LogTypeOK
<1>7. QED
  BY <1>2, <1>3, <1>4, <1>5, <1>6, QuietStep

LEMMA FailedRecord ==
  ASSUME NEW s \in InstanceRecords
  PROVE  /\ Failed(s) \in InstanceRecords /\ Failed(s).status = s.status
         /\ Failed(s).step = "idle" /\ Failed(s).logs = s.logs
         /\ Failed(s).sequence = s.sequence /\ Failed(s).pending = <<>> /\ Failed(s).needsSnapshot
         /\ Failed(s).journalBytes = s.journalBytes /\ Failed(s).journalEvents = s.journalEvents
<1>1. PICK t : t = [s EXCEPT !.step = "idle", !.pending = <<>>, !.needsSnapshot = TRUE, !.retryDue = FALSE]
  OBVIOUS
<1>a. t \in InstanceRecords
  <2>1. PICK r : r = [s EXCEPT !.step = "idle", !.pending = <<>>]
    OBVIOUS
  <2>2. <<>> \in Seq(Events)
    OBVIOUS
  <2>3. r \in InstanceRecords
    BY <2>1, <2>2 DEF InstanceRecords, Steps
  <2>4. t = [r EXCEPT !.needsSnapshot = TRUE, !.retryDue = FALSE]
    BY <1>1, <2>1
  <2>5. QED
    BY <2>3, <2>4 DEF InstanceRecords
<1>2. /\ t.status = s.status /\ t.step = "idle" /\ t.logs = s.logs
      /\ t.sequence = s.sequence /\ t.pending = <<>> /\ t.needsSnapshot = TRUE
      /\ t.journalBytes = s.journalBytes /\ t.journalEvents = s.journalEvents
  BY <1>1 DEF InstanceRecords
<1>3. Failed(s) = Scheduled(t)
  BY <1>1 DEF Failed
<1>4. QED
  BY <1>a, <1>2, <1>3, ScheduledRecord

LEMMA SnapshotFailsInv == ASSUME LogInv, Loaded(TheInstance), SnapshotFails(TheInstance) PROVE LogInv'
<1>1. PICK new : new = Failed(Me)
  OBVIOUS
<1>2. /\ inst' = [inst EXCEPT ![TheInstance] = new] /\ UNCHANGED <<disk, kills, unsaved>>
      /\ Me.step \in {"snapshot", "sync", "truncate"} /\ faults' = faults + 1
  BY <1>1, MyRecord DEF SnapshotFails, FileError, Me
<1>3. /\ new \in InstanceRecords /\ new.status = Me.status
      /\ new.step = "idle" /\ new.logs = Me.logs
      /\ new.sequence = Me.sequence /\ new.pending = <<>> /\ new.needsSnapshot
      /\ new.journalBytes = Me.journalBytes /\ new.journalEvents = Me.journalEvents
  BY <1>1, MyRecord, FailedRecord
<1>4. Flushing(new)
  BY <1>2, <1>3, FlushingNow DEF Flushing
<1>5. new.status # "unloaded" /\ faults' \in Nat /\ kills' \in Nat
  BY <1>2, <1>3 DEF Loaded, Me, LogInv, LogTypeOK
<1>6. QED
  BY <1>2, <1>3, <1>4, <1>5, QuietStep

(* RetryDue, TimerFires, Stop and FinalFlush change flags, the status and begin
   a flush. *)
FlagsOnly(new) ==
  /\ new.status \in {Me.status, "draining", "stopped"}
  /\ new.logs = Me.logs /\ new.sequence = Me.sequence
  /\ \/ new.step = Me.step
     \/ Me.step = "idle" /\ new.step \in {"idle", "flush"}
  /\ new.pending = Me.pending /\ new.needsSnapshot = Me.needsSnapshot
  /\ new.journalBytes = Me.journalBytes /\ new.journalEvents = Me.journalEvents

LEMMA FlagsInv ==
  ASSUME LogInv, Loaded(TheInstance),
         RetryDue(TheInstance) \/ TimerFires(TheInstance) \/ Stop(TheInstance) \/ FinalFlush(TheInstance)
  PROVE  LogInv'
<1>1. PICK new \in InstanceRecords : inst' = [inst EXCEPT ![TheInstance] = new] /\ FlagsOnly(new)
  <2>1. CASE RetryDue(TheInstance)
    <3>1. PICK new : new = [Me EXCEPT !.retryDue = TRUE]
      OBVIOUS
    <3>2. inst' = [inst EXCEPT ![TheInstance] = new]
      BY <2>1, <3>1, MyRecord DEF RetryDue, Me
    <3>3. new \in InstanceRecords
      BY <3>1, MyRecord DEF InstanceRecords
    <3>4. FlagsOnly(new)
      BY <3>1, <3>2, MyRecord DEF InstanceRecords, FlagsOnly
    <3>5. QED
      BY <3>2, <3>3, <3>4
  <2>2. CASE TimerFires(TheInstance)
    <3>1. PICK new : new = [Me EXCEPT !.timer = FALSE,
                                      !.step = IF Stopped(TheInstance) THEN "idle" ELSE "flush"]
      OBVIOUS
    <3>2. inst' = [inst EXCEPT ![TheInstance] = new] /\ Me.step = "idle"
      BY <2>2, <3>1, MyRecord DEF TimerFires, Me, Idle
    <3>3. new \in InstanceRecords
      BY <3>1, MyRecord DEF InstanceRecords, Steps
    <3>4. FlagsOnly(new)
      BY <3>1, <3>2, MyRecord DEF InstanceRecords, FlagsOnly
    <3>5. QED
      BY <3>2, <3>3, <3>4
  <2>3. CASE Stop(TheInstance)
    <3>1. PICK new : new = [Me EXCEPT !.status = "draining"]
      OBVIOUS
    <3>2. inst' = [inst EXCEPT ![TheInstance] = new]
      BY <2>3, <3>1, MyRecord DEF Stop, Me
    <3>3. new \in InstanceRecords
      BY <3>1, MyRecord DEF InstanceRecords, InstanceStatuses
    <3>4. FlagsOnly(new)
      BY <3>1, <3>2, MyRecord DEF InstanceRecords, FlagsOnly
    <3>5. QED
      BY <3>2, <3>3, <3>4
  <2>4. CASE FinalFlush(TheInstance)
    <3>1. PICK new : new = [Me EXCEPT !.status = "stopped", !.timer = FALSE, !.step = "flush"]
      OBVIOUS
    <3>2. inst' = [inst EXCEPT ![TheInstance] = new] /\ Me.step = "idle"
      BY <2>4, <3>1, MyRecord DEF FinalFlush, Me, Idle
    <3>3. new \in InstanceRecords
      BY <3>1, MyRecord DEF InstanceRecords, InstanceStatuses, Steps
    <3>4. FlagsOnly(new)
      BY <3>1, <3>2, MyRecord DEF InstanceRecords, FlagsOnly
    <3>5. QED
      BY <3>2, <3>3, <3>4
  <2>5. QED
    BY <2>1, <2>2, <2>3, <2>4
<1>2. UNCHANGED <<disk, faults, kills, unsaved>>
  BY DEF RetryDue, TimerFires, Stop, FinalFlush, bounds
<1>3. Flushing(new)
  BY <1>1, FlushingNow DEF Flushing, Following, FlagsOnly
<1>4. new.status # "unloaded" /\ faults' \in Nat /\ kills' \in Nat
  BY <1>1, <1>2 DEF Loaded, Me, LogInv, LogTypeOK, FlagsOnly
<1>5. new.logs = Me.logs /\ new.sequence = Me.sequence
  BY <1>1 DEF FlagsOnly
<1>6. QED
  BY <1>1, <1>2, <1>3, <1>4, <1>5, QuietStep

LEMMA KillInv == ASSUME LogInv, Kill PROVE LogInv'
<1>1. PICK new : new = [Me EXCEPT !.status = "unloaded", !.step = "idle", !.timer = FALSE]
  OBVIOUS
<1>2. /\ inst' = [i \in Instances |-> [inst[i] EXCEPT !.status = "unloaded", !.step = "idle", !.timer = FALSE]]
  BY DEF Kill
<1>a. unsaved' = <<>> /\ UNCHANGED <<disk, faults>> /\ kills' = kills + 1
  BY DEF Kill
<1>3. Me' = new /\ TheInstance' = TheInstance /\ inst' \in [Instances -> InstanceRecords]
  <2>1. \A i \in Instances : i = TheInstance /\ [inst[i] EXCEPT !.status = "unloaded", !.step = "idle", !.timer = FALSE] = new
    BY <1>1, MyRecord DEF Me
  <2>2. new \in InstanceRecords
    BY <1>1, MyRecord DEF InstanceRecords, InstanceStatuses, Steps
  <2>3. inst' = [i \in Instances |-> new]
    BY <1>2, <2>1
  <2>4. QED
    BY <2>2, <2>3, MyRecord DEF Me, TheInstance
<1>4. new.status = "unloaded" /\ new.step = "idle" /\ new.logs = Me.logs
  BY <1>1, MyRecord DEF InstanceRecords
<1>5. /\ OnDisk' = OnDisk /\ SavedSequence' = SavedSequence /\ Files'
      /\ UNCHANGED <<snapshot, synced, journal, torn, saved, onUnsynced>>
  BY <1>a, SameFiles DEF disk
<1>6. ~Loaded(TheInstance)'
  BY <1>3, <1>4 DEF Loaded, Me
<1>7. Versions'
  BY <1>a, <1>3, <1>4, <1>6 DEF Versions
<1>8. OneRows'
  <2>1. DOMAIN unsaved' = {}
    BY <1>a
  <2>2. QED
    BY <1>3, <1>4, <1>5, <2>1 DEF LogInv, OneRows
<1>9. LogTypeOK'
  <2>1. unsaved' \in Seq(Seq(Rows))
    BY <1>a
  <2>2. QED
    BY <1>a, <1>3, <1>5, <2>1 DEF LogInv, LogTypeOK
<1>10. Alone'
  BY <1>3 DEF LogInv, Alone
<1>11. QED
  BY <1>5, <1>6, <1>7, <1>8, <1>9, <1>10 DEF LogInv
-----------------------------------------------------------------------------
(* Steps that change the files *)

(* Once the files hold the newest change, memory and files agree. *)
LEMMA CatchUp ==
  ASSUME LogInv, Loaded(TheInstance), DiskMoved, SavedSequence' = Me.sequence
  PROVE  saved' = Me.logs /\ unsaved' = <<>>
<1>1. SavedSequence \in Nat /\ unsaved \in Seq(Seq(Rows)) /\ Len(unsaved) \in Nat
  BY Disk DEF LogInv, LogTypeOK
<1>2. /\ Me.sequence = SavedSequence + Len(unsaved)
      /\ Me.logs = IF unsaved = <<>> THEN saved ELSE unsaved[Len(unsaved)]
  BY DEF LogInv, Versions, Last
<1>3. PICK n : n = SavedSequence' - SavedSequence
  OBVIOUS
<1>4. n = Len(unsaved)
  BY <1>1, <1>2, <1>3
<1>5. CASE unsaved = <<>>
  <2>1. n = 0 /\ ~(SavedSequence' > SavedSequence)
    BY <1>1, <1>2, <1>4, <1>5
  <2>2. UNCHANGED <<saved, unsaved>>
    BY <2>1 DEF DiskMoved
  <2>3. QED
    BY <1>2, <1>5, <2>2
<1>6. CASE unsaved # <<>>
  <2>1. n > 0 /\ SavedSequence' > SavedSequence
    BY <1>1, <1>2, <1>4, <1>6
  <2>2. saved' = unsaved[n] /\ unsaved' = SubSeq(unsaved, n + 1, Len(unsaved))
    BY <1>1, <1>3, <1>4, <2>1 DEF DiskMoved
  <2>3. SubSeq(unsaved, n + 1, Len(unsaved)) = <<>>
    BY <1>1, <1>4
  <2>4. QED
    BY <1>2, <1>4, <1>6, <2>2, <2>3
<1>7. QED
  BY <1>5, <1>6

LEMMA StayBehind ==
  ASSUME LogInv, DiskMoved, SavedSequence' = SavedSequence
  PROVE  UNCHANGED <<saved, unsaved>>
<1>1. ~(SavedSequence' > SavedSequence)
  BY Disk
<1>2. QED
  BY <1>1 DEF DiskMoved

LEMMA CaughtStep ==
  ASSUME LogInv, Loaded(TheInstance),
         NEW new \in InstanceRecords, inst' = [inst EXCEPT ![TheInstance] = new],
         new.status # "unloaded", new.logs = Me.logs, new.sequence = Me.sequence,
         saved' = Me.logs, unsaved' = <<>>, SavedSequence' = Me.sequence,
         OnDisk'.ok, OnDisk'.logs = Me.logs,
         snapshot' \in Snapshots, synced' \in Snapshots, journal' \in Seq(Events),
         synced'.sequence <= snapshot'.sequence, onUnsynced' \/ Load(synced', journal').ok,
         torn' \in BOOLEAN, onUnsynced' \in BOOLEAN, faults' \in Nat, kills' \in Nat,
         Flushing(Me)'
  PROVE  LogInv'
<1>1. Me' = new /\ TheInstance' = TheInstance /\ Me \in InstanceRecords
  BY MyRecord DEF TheInstance
<1>2. Loaded(TheInstance)'
  BY <1>1 DEF Loaded, Me
<1>3. Versions'
  <2>1. unsaved' = <<>> /\ Len(unsaved') = 0 /\ Me.sequence \in Nat
    BY <1>1 DEF InstanceRecords
  <2>2. QED
    BY <1>1, <1>2, <2>1 DEF Versions
<1>4. OneRows'
  <2>1. DOMAIN unsaved' = {}
    OBVIOUS
  <2>2. OneRowEach(Me.logs)
    BY DEF LogInv, OneRows
  <2>3. QED
    BY <1>1, <2>1, <2>2 DEF OneRows
<1>5. LogTypeOK'
  <2>1. unsaved' \in Seq(Seq(Rows)) /\ saved' \in Seq(Rows)
    BY <1>1 DEF InstanceRecords
  <2>2. inst' \in [Instances -> InstanceRecords]
    BY MyRecord DEF LogInv, LogTypeOK
  <2>3. QED
    BY <2>1, <2>2 DEF LogTypeOK
<1>6. Files'
  BY DEF Files
<1>7. Alone'
  BY <1>1 DEF LogInv, Alone
<1>8. QED
  BY <1>3, <1>4, <1>5, <1>6, <1>7 DEF LogInv

LEMMA OneEvent ==
  ASSUME NEW p \in Seq(Events), p # <<>>, Len(p) <= 1
  PROVE  /\ Len(p) = 1 /\ p[1] \in Events
         /\ \A lines \in Seq(Events) : lines \o p = Append(lines, p[1]) /\ lines \o <<>> = lines
<1>1. PICK k : k = Len(p)
  OBVIOUS
<1>a. k \in Nat /\ k # 0 /\ k <= 1
  BY <1>1, EmptySeq
<1>b. k = 1
  BY ONLY <1>a
<1>2. Len(p) = 1
  BY <1>1, <1>b
<1>3. p[1] \in Events
  BY <1>2
<1>4. ASSUME NEW lines \in Seq(Events)
      PROVE  lines \o p = Append(lines, p[1]) /\ lines \o <<>> = lines
  <2>1. p = <<p[1]>>
    BY <1>2
  <2>2. Append(lines, p[1]) = lines \o <<p[1]>>
    BY <1>3, AppendIsConcat
  <2>3. QED
    BY <2>1, <2>2, ConcatEmptySeq
<1>5. QED
  BY <1>2, <1>3, <1>4

(* The append of the pending event. *)
LEMMA Appended ==
  ASSUME LogInv, Loaded(TheInstance), Me.step = "write", journal' = journal \o Me.pending,
         UNCHANGED <<snapshot, synced, onUnsynced>>, DiskMoved
  PROVE  /\ Me.sequence > 0 /\ SavedSequence' = Me.sequence /\ Len(journal') = Len(journal) + 1
         /\ saved' = Me.logs /\ unsaved' = <<>> /\ OnDisk'.ok /\ OnDisk'.logs = Me.logs
         /\ journal' \in Seq(Events)
         /\ onUnsynced' \/ Load(synced', journal').ok
         /\ onUnsynced' \/ synced' = snapshot'
         /\ synced'.sequence <= snapshot'.sequence
<1>1. PICK e : e = Me.pending[1]
  OBVIOUS
<1>2. /\ Me.pending # <<>> /\ Len(Me.pending) = Len(unsaved) /\ Len(unsaved) <= 1
      /\ Fresh(OnDisk, e) /\ Applied(OnDisk.logs, e) = Me.logs
      /\ onUnsynced \/ synced = snapshot
  BY <1>1, FlushingNow DEF Flushing, Following
<1>3. Me.pending \in Seq(Events) /\ Me.sequence \in Nat
  BY MyRecord DEF InstanceRecords
<1>a. Len(Me.pending) <= 1
  BY <1>2
<1>4. Len(Me.pending) = 1 /\ Len(unsaved) = 1
  BY <1>2, <1>3, <1>a, OneEvent
<1>5. journal' = Append(journal, e) /\ e \in Events
  BY <1>1, <1>2, <1>3, <1>a, Disk, OneEvent
<1>6. OnDisk' = Replay(OnDisk, e)
  <2>1. OnDisk' = Load(snapshot, journal')
    BY DEF OnDisk
  <2>2. QED
    BY <1>5, <2>1, Disk, LoadAppend
<1>7. OnDisk'.ok /\ OnDisk'.logs = Me.logs /\ OnDisk'.sequence = e.sequence
  BY <1>2, <1>5, <1>6, Disk, ReplayFresh
<1>8. e.sequence = SavedSequence + 1
  BY <1>2, Disk DEF Fresh
<1>9. Me.sequence = SavedSequence + 1
  BY <1>4 DEF LogInv, Versions
<1>10. journal' \in Seq(Events) /\ Len(journal') = Len(journal) + 1
  BY <1>5, Disk
<1>11. SavedSequence' = Me.sequence
  <2>1. SavedSequence' = Newest(snapshot, journal') /\ OnDisk' = Load(snapshot, journal')
    BY DEF SavedSequence, Newest, OnDisk
  <2>2. SavedSequence' = OnDisk'.sequence
    BY <1>7, <1>10, <2>1, Disk, LoadNewest
  <2>3. QED
    BY <1>7, <1>8, <1>9, <2>2
<1>12. saved' = Me.logs /\ unsaved' = <<>>
  BY <1>11, CatchUp
<1>13. onUnsynced' \/ Load(synced', journal').ok
  <2>1. OnDisk' = Load(snapshot, journal')
    BY DEF OnDisk
  <2>2. QED
    BY <1>2, <1>7, <2>1
<1>14. synced'.sequence <= snapshot'.sequence
  BY DEF LogInv, Files
<1>15. Me.sequence > 0
  BY <1>9, Disk
<1>16. QED
  BY <1>2, <1>7, <1>10, <1>11, <1>12, <1>13, <1>14, <1>15

LEMMA WrittenIsJournal ==
  ASSUME LogInv, Loaded(TheInstance), Me.step = "write"
  PROVE  Written(TheInstance) = journal /\ Me.journalBytes = Len(journal) /\ ~Me.needsSnapshot
<1>1. Me.journalBytes = Len(journal) /\ ~Me.needsSnapshot
  BY FlushingNow DEF Flushing, Following
<1>2. Written(TheInstance) = SubSeq(journal, 1, Len(journal))
  BY <1>1 DEF Written, Me
<1>3. QED
  BY <1>1, <1>2, Disk

LEMMA WriteJournalInv == ASSUME LogInv, Loaded(TheInstance), WriteJournal(TheInstance) PROVE LogInv'
<1>1. PICK new : new = [Me EXCEPT !.step = "check", !.pending = <<>>,
                 !.journalBytes = Me.journalBytes + Len(Me.pending),
                 !.journalEvents = Me.journalEvents + Len(Me.pending)]
  OBVIOUS
<1>2. /\ Me.step = "write" /\ journal' = journal \o Me.pending /\ torn' = FALSE
      /\ inst' = [inst EXCEPT ![TheInstance] = new]
      /\ UNCHANGED <<snapshot, synced, onUnsynced, faults, kills>> /\ DiskMoved
  <2>1. Me.step = "write"
    BY DEF WriteJournal, Me
  <2>2. journal' = journal \o Me.pending
    BY <2>1, WrittenIsJournal DEF WriteJournal, Me
  <2>3. torn' = FALSE /\ UNCHANGED <<snapshot, synced, onUnsynced>> /\ DiskMoved
    BY DEF WriteJournal
  <2>4. UNCHANGED <<faults, kills>>
    BY DEF WriteJournal, bounds
  <2>5. inst' = [inst EXCEPT ![TheInstance] = new]
    BY <1>1, MyRecord DEF WriteJournal, Me
  <2>6. QED
    BY <2>1, <2>2, <2>3, <2>4, <2>5
<1>3. /\ Me.sequence > 0 /\ SavedSequence' = Me.sequence /\ Len(journal') = Len(journal) + 1
      /\ saved' = Me.logs /\ unsaved' = <<>> /\ OnDisk'.ok /\ OnDisk'.logs = Me.logs
      /\ journal' \in Seq(Events)
      /\ onUnsynced' \/ Load(synced', journal').ok
      /\ onUnsynced' \/ synced' = snapshot'
      /\ synced'.sequence <= snapshot'.sequence
  BY <1>2, Appended
<1>4. Me.pending \in Seq(Events) /\ Me.journalBytes \in Nat /\ Me.journalEvents \in Nat /\ Len(Me.pending) \in Nat
  BY MyRecord DEF InstanceRecords
<1>5. new = [Me EXCEPT !.step = "check", !.pending = <<>>,
                 !.journalBytes = Me.journalBytes + Len(Me.pending),
                 !.journalEvents = Me.journalEvents + Len(Me.pending)]
  BY <1>1
<1>6. new \in InstanceRecords
  <2>1. /\ <<>> \in Seq(Events) /\ Me.journalBytes + Len(Me.pending) \in Nat
        /\ Me.journalEvents + Len(Me.pending) \in Nat
    BY <1>4
  <2>2. QED
    BY <1>5, <2>1, MyRecord DEF InstanceRecords, Steps
<1>7. /\ new.status = Me.status /\ new.logs = Me.logs /\ new.sequence = Me.sequence
      /\ new.step = "check" /\ new.pending = <<>> /\ new.needsSnapshot = Me.needsSnapshot
      /\ new.journalBytes = Me.journalBytes + Len(Me.pending)
  BY <1>5, MyRecord DEF InstanceRecords
<1>8. Me' = new
  BY <1>2, MyRecord
<1>9. Flushing(Me)'
  <2>1. ~Me.needsSnapshot /\ Me.journalBytes = Len(journal) /\ Len(Me.pending) = 1
    <3>1. Me.pending # <<>> /\ Len(Me.pending) <= 1 /\ ~Me.needsSnapshot
      BY <1>2, FlushingNow DEF Flushing, Following
    <3>2. QED
      BY <1>2, <1>4, <3>1, OneEvent, WrittenIsJournal
  <2>2. Len(unsaved') = 0 /\ Len(new.pending) = 0
    BY <1>3, <1>7
  <2>3. Following(Me)'
    BY <1>3, <1>7, <1>8, <2>1, <2>2 DEF Following
  <2>4. QED
    BY <1>3, <1>7, <1>8, <2>1, <2>3 DEF Flushing
<1>10. /\ new.status # "unloaded" /\ faults' \in Nat /\ kills' \in Nat /\ onUnsynced' \in BOOLEAN
       /\ snapshot' \in Snapshots /\ synced' \in Snapshots /\ torn' \in BOOLEAN
  BY <1>2, <1>7 DEF Loaded, Me, LogInv, LogTypeOK
<1>11. QED
  BY <1>2, <1>3, <1>6, <1>7, <1>9, <1>10, CaughtStep

LEMMA WriteJournalFailsInv ==
  ASSUME LogInv, Loaded(TheInstance), WriteJournalFails(TheInstance) PROVE LogInv'
<1>1. PICK new : new = Failed(Me)
  OBVIOUS
<1>2. Me.step = "write"
  BY DEF WriteJournalFails, Me
<1>3. Written(TheInstance) = journal /\ Me.journalBytes = Len(journal) /\ ~Me.needsSnapshot
  BY <1>2, WrittenIsJournal
<1>4. /\ inst' = [inst EXCEPT ![TheInstance] = new]
      /\ UNCHANGED <<snapshot, synced, onUnsynced, kills>> /\ DiskMoved /\ faults' = faults + 1
      /\ \/ UNCHANGED <<journal, torn>>
         \/ \E n \in 0..Len(Me.pending) :
              /\ journal' = journal \o SubSeq(Me.pending, 1, n)
              /\ torn' \in {FALSE, n < Len(Me.pending)}
  <2>1. ~(Len(journal) < inst[TheInstance].journalBytes)
    BY <1>3, Disk DEF Me
  <2>2. FileError(TheInstance) /\ UNCHANGED <<snapshot, synced, onUnsynced>> /\ DiskMoved
    BY <2>1 DEF WriteJournalFails
  <2>3. \/ UNCHANGED <<journal, torn>>
        \/ \E n \in 0..Len(Me.pending) :
              /\ journal' = journal \o SubSeq(Me.pending, 1, n)
              /\ torn' \in {FALSE, n < Len(Me.pending)}
    BY <1>3, <2>1 DEF WriteJournalFails, Me
  <2>4. inst' = [inst EXCEPT ![TheInstance] = new] /\ UNCHANGED kills /\ faults' = faults + 1
    BY <1>1, <2>2, MyRecord DEF FileError, Me
  <2>5. QED
    BY <2>2, <2>3, <2>4
<1>5. /\ new \in InstanceRecords /\ new.status = Me.status
      /\ new.step = "idle" /\ new.logs = Me.logs
      /\ new.sequence = Me.sequence /\ new.pending = <<>> /\ new.needsSnapshot
      /\ new.journalBytes = Me.journalBytes /\ new.journalEvents = Me.journalEvents
  BY <1>1, MyRecord, FailedRecord
<1>6. /\ new.status # "unloaded" /\ faults' \in Nat /\ kills' \in Nat /\ onUnsynced' \in BOOLEAN
      /\ snapshot' \in Snapshots /\ synced' \in Snapshots /\ torn' \in BOOLEAN
  <2>1. torn' \in BOOLEAN
    <3>1. torn \in BOOLEAN
      BY DEF LogInv, LogTypeOK
    <3>2. CASE UNCHANGED <<journal, torn>>
      BY <3>1, <3>2
    <3>3. ASSUME NEW n \in 0..Len(Me.pending), torn' \in {FALSE, n < Len(Me.pending)}
          PROVE  torn' \in BOOLEAN
      <4>1. Len(Me.pending) \in Nat
        BY MyRecord DEF InstanceRecords
      <4>2. PICK k \in Nat : k = Len(Me.pending)
        BY <4>1
      <4>3. (n < k) \in BOOLEAN
        BY <4>2
      <4>4. QED
        BY <3>3, <4>2, <4>3
    <3>4. QED
      BY <1>4, <3>2, <3>3
  <2>2. faults' \in Nat
    BY <1>4 DEF LogInv, LogTypeOK
  <2>3. /\ kills' \in Nat /\ onUnsynced' \in BOOLEAN /\ snapshot' \in Snapshots
        /\ synced' \in Snapshots
    BY <1>4 DEF LogInv, LogTypeOK
  <2>4. new.status # "unloaded"
    BY <1>5 DEF Loaded, Me
  <2>5. QED
    BY <2>1, <2>2, <2>3, <2>4
<1>7. Me' = new
  BY <1>4, MyRecord
<1>8. Me.pending \in Seq(Events) /\ Me.pending # <<>> /\ Len(Me.pending) <= 1 /\ Len(Me.pending) = Len(unsaved)
      /\ Me.sequence = SavedSequence + Len(unsaved) /\ Len(Me.pending) = 1 /\ Me.sequence > 0
  <2>1. Me.pending \in Seq(Events)
    BY MyRecord DEF InstanceRecords
  <2>2. Me.pending # <<>> /\ Len(Me.pending) <= 1 /\ Len(Me.pending) = Len(unsaved)
    BY <1>2, FlushingNow DEF Flushing, Following
  <2>3. Me.sequence = SavedSequence + Len(unsaved)
    BY DEF LogInv, Versions
  <2>4. Len(Me.pending) = 1
    BY <2>1, <2>2, OneEvent
  <2>5. QED
    BY <2>1, <2>2, <2>3, <2>4, Disk
<1>9. CASE journal' = journal
  <2>1. SavedSequence' = SavedSequence
    BY <1>4, <1>9 DEF SavedSequence
  <2>2. UNCHANGED <<saved, unsaved>>
    BY <1>4, <2>1, StayBehind
  <2>3. Flushing(new)
    BY <1>5, <1>8 DEF Flushing
  <2>4. QED
    BY <1>4, <1>5, <1>6, <1>9, <2>2, <2>3, TornStep
<1>10. CASE journal' = journal \o Me.pending
  <2>1. /\ SavedSequence' = Me.sequence /\ saved' = Me.logs /\ unsaved' = <<>>
        /\ OnDisk'.ok /\ OnDisk'.logs = Me.logs
        /\ journal' \in Seq(Events)
        /\ onUnsynced' \/ Load(synced', journal').ok
        /\ synced'.sequence <= snapshot'.sequence
    BY <1>2, <1>4, <1>10, Appended
  <2>2. Flushing(Me)'
    BY <1>5, <1>7, <1>8 DEF Flushing
  <2>3. QED
    BY <1>4, <1>5, <1>6, <2>1, <2>2, CaughtStep
<1>11. ASSUME NEW n \in 0..Len(Me.pending), journal' = journal \o SubSeq(Me.pending, 1, n)
       PROVE  journal' = journal \/ journal' = journal \o Me.pending
  <2>1. n = 0 \/ n = 1
    BY <1>8
  <2>2. CASE n = 0
    <3>1. SubSeq(Me.pending, 1, n) = <<>>
      BY <1>8, <2>2
    <3>2. QED
      BY <1>8, <1>11, <3>1, Disk, OneEvent
  <2>3. CASE n = 1
    <3>1. SubSeq(Me.pending, 1, n) = Me.pending
      BY <1>8, <2>3
    <3>2. QED
      BY <1>11, <3>1
  <2>4. QED
    BY <2>1, <2>2, <2>3
<1>12. journal' = journal \/ journal' = journal \o Me.pending
  BY <1>4, <1>11
<1>13. QED
  BY <1>9, <1>10, <1>12
-----------------------------------------------------------------------------
(* The snapshot *)

(* The snapshot of the newest change is the newest change of the files. *)
LEMMA SnapshotNewest ==
  ASSUME LogInv, Loaded(TheInstance), Me.sequence > 0,
         snapshot' = [sequence |-> Me.sequence, logs |-> Me.logs], UNCHANGED journal
  PROVE  /\ snapshot' \in Snapshots /\ SavedSequence' = Me.sequence
         /\ OnDisk'.ok /\ OnDisk'.logs = Me.logs
<1>1. Me.sequence \in Nat /\ Me.logs \in Seq(Rows)
  BY MyRecord DEF InstanceRecords
<1>2. PICK base : base = [sequence |-> Me.sequence, logs |-> Me.logs]
  OBVIOUS
<1>3. base \in Snapshots /\ base.sequence = Me.sequence /\ base.logs = Me.logs /\ snapshot' = base
  BY <1>1, <1>2 DEF Snapshots
<1>4. SavedSequence <= Me.sequence /\ SavedSequence \in Nat
  <2>1. Me.sequence = SavedSequence + Len(unsaved) /\ Len(unsaved) \in Nat
    BY DEF LogInv, Versions, LogTypeOK
  <2>2. QED
    BY <2>1, Disk
<1>5. OnDisk' = Load(base, journal) /\ SavedSequence' = Newest(base, journal)
  BY <1>3 DEF OnDisk, SavedSequence, Newest
<1>6. Load(base, journal).ok /\ Load(base, journal).logs = Start(base).logs
  BY <1>3, <1>4, Disk, LoadKnown
<1>7. Start(base).logs = Me.logs
  BY <1>1, <1>3, StartState
<1>8. Newest(base, journal) = Me.sequence
  <2>1. CASE journal = <<>>
    BY <1>3, <2>1 DEF Newest
  <2>2. CASE journal # <<>>
    <3>1. PICK last : last = Last(journal).sequence
      OBVIOUS
    <3>2. journal \in Seq(Events) /\ snapshot.sequence \in Nat /\ SavedSequence = Newest(snapshot, journal)
      BY Disk
    <3>3. last \in Nat
      <4>1. Len(journal) \in Nat /\ Len(journal) # 0
        BY <2>2, <3>2, EmptySeq
      <4>2. journal[Len(journal)] \in Events
        BY <3>2, <4>1
      <4>3. QED
        BY <3>1, <4>2 DEF Last, Events
    <3>4. SavedSequence = IF snapshot.sequence >= last THEN snapshot.sequence ELSE last
      BY <2>2, <3>1, <3>2, <3>3, MaxOfTwo DEF Newest
    <3>5. last <= Me.sequence
      BY <1>1, <1>4, <3>2, <3>3, <3>4
    <3>6. Newest(base, journal) = IF base.sequence >= last THEN base.sequence ELSE last
      BY <1>1, <1>3, <2>2, <3>1, <3>3, MaxOfTwo DEF Newest
    <3>7. QED
      BY <1>1, <1>3, <3>3, <3>5, <3>6
  <2>3. QED
    BY <2>1, <2>2
<1>9. QED
  BY <1>3, <1>5, <1>6, <1>7, <1>8

LEMMA WriteSnapshotInv == ASSUME LogInv, Loaded(TheInstance), WriteSnapshot(TheInstance) PROVE LogInv'
<1>1. PICK new : new = [Me EXCEPT !.step = "sync"]
  OBVIOUS
<1>2. /\ Me.step = "snapshot" /\ snapshot' = [sequence |-> Me.sequence, logs |-> Me.logs]
      /\ UNCHANGED <<synced, journal, torn, onUnsynced>> /\ DiskMoved
  BY DEF WriteSnapshot, Me
<1>3. UNCHANGED <<faults, kills>>
  BY DEF WriteSnapshot, bounds
<1>4. inst' = [inst EXCEPT ![TheInstance] = new]
  BY <1>1, MyRecord DEF WriteSnapshot, Me
<1>5. ~Me.needsSnapshot => Following(Me)
  BY FlushingNow DEF Flushing
<1>6. Me.sequence > 0 /\ Me.pending = <<>>
  BY <1>2, FlushingNow DEF Flushing
<1>7. /\ snapshot' \in Snapshots /\ SavedSequence' = Me.sequence
      /\ OnDisk'.ok /\ OnDisk'.logs = Me.logs
  BY <1>2, <1>6, SnapshotNewest
<1>8. saved' = Me.logs /\ unsaved' = <<>>
  BY <1>2, <1>7, CatchUp
<1>9. new \in InstanceRecords
  BY <1>1, MyRecord DEF InstanceRecords, Steps
<1>10. /\ new.status = Me.status /\ new.logs = Me.logs /\ new.sequence = Me.sequence
       /\ new.step = "sync" /\ new.pending = Me.pending /\ new.needsSnapshot = Me.needsSnapshot
       /\ new.journalBytes = Me.journalBytes /\ new.journalEvents = Me.journalEvents
  BY <1>1, MyRecord DEF InstanceRecords
<1>11. Me' = new
  BY <1>4, MyRecord
<1>12. Me.sequence \in Nat
  BY MyRecord DEF InstanceRecords
<1>13. synced'.sequence <= snapshot'.sequence
  <2>1. synced.sequence <= snapshot.sequence /\ synced.sequence \in Nat
    BY DEF LogInv, Files, LogTypeOK, Snapshots
  <2>2. snapshot.sequence <= SavedSequence /\ SavedSequence \in Nat /\ snapshot.sequence \in Nat
    BY Disk
  <2>3. Me.sequence = SavedSequence + Len(unsaved) /\ Len(unsaved) \in Nat
    BY DEF LogInv, Versions, LogTypeOK
  <2>4. synced' = synced /\ snapshot'.sequence = Me.sequence
    BY <1>2
  <2>5. QED
    BY <2>1, <2>2, <2>3, <2>4
<1>14. onUnsynced' \/ Load(synced', journal').ok
  BY <1>2 DEF LogInv, Files
<1>15. Flushing(Me)'
  <2>1. ~Me.needsSnapshot => Me.journalBytes = Len(journal)
    BY <1>5, <1>6 DEF Following
  <2>2. Len(unsaved') = 0 /\ Len(new.pending) = 0 /\ journal' = journal
    BY <1>2, <1>6, <1>8, <1>10
  <2>3. ~Me.needsSnapshot => Following(Me)'
    BY <1>6, <1>10, <1>11, <2>1, <2>2 DEF Following
  <2>4. QED
    BY <1>2, <1>6, <1>10, <1>11, <2>3 DEF Flushing
<1>16. /\ new.status # "unloaded" /\ faults' \in Nat /\ kills' \in Nat /\ onUnsynced' \in BOOLEAN
       /\ synced' \in Snapshots /\ torn' \in BOOLEAN /\ journal' \in Seq(Events)
  BY <1>2, <1>3, <1>10 DEF Loaded, Me, LogInv, LogTypeOK
<1>17. QED
  BY <1>4, <1>7, <1>8, <1>9, <1>10, <1>13, <1>14, <1>15, <1>16, CaughtStep

(* Behind a snapshot that was just written nothing is unsaved. *)
LEMMA SnapshotWritten ==
  ASSUME LogInv, Loaded(TheInstance), Me.step \in {"sync", "truncate"}
  PROVE  /\ snapshot.sequence = Me.sequence /\ snapshot.logs = Me.logs /\ Me.sequence > 0
         /\ SavedSequence = Me.sequence /\ saved = Me.logs /\ unsaved = <<>>
         /\ Me.pending = <<>>
         /\ ~Me.needsSnapshot => Me.journalBytes = Len(journal)
<1>1. /\ snapshot = [sequence |-> Me.sequence, logs |-> Me.logs]
      /\ Me.sequence > 0 /\ Me.pending = <<>>
  BY FlushingNow DEF Flushing
<1>2. Me.sequence = SavedSequence + Len(unsaved) /\ Len(unsaved) \in Nat
  BY DEF LogInv, Versions, LogTypeOK
<1>3. snapshot.sequence = Me.sequence /\ snapshot.logs = Me.logs
  BY <1>1
<1>4. SavedSequence = Me.sequence /\ Len(unsaved) = 0
  BY <1>2, <1>3, Disk
<1>5. unsaved = <<>>
  BY <1>4, EmptySeq DEF LogInv, LogTypeOK
<1>6. saved = Me.logs
  BY <1>5 DEF LogInv, Versions
<1>7. ~Me.needsSnapshot => Me.journalBytes = Len(journal)
  BY FlushingNow DEF Flushing, Following
<1>8. QED
  BY <1>1, <1>3, <1>4, <1>5, <1>6, <1>7

LEMMA SyncDirectoryInv == ASSUME LogInv, Loaded(TheInstance), SyncDirectory(TheInstance) PROVE LogInv'
<1>1. PICK new : new = [Me EXCEPT !.step = "truncate"]
  OBVIOUS
<1>2. /\ Me.step = "sync" /\ synced' = snapshot /\ onUnsynced' = FALSE
      /\ UNCHANGED <<snapshot, journal, torn, saved, unsaved>>
  BY DEF SyncDirectory, Me
<1>3. UNCHANGED <<faults, kills>>
  BY DEF SyncDirectory, bounds
<1>4. inst' = [inst EXCEPT ![TheInstance] = new]
  BY <1>1, MyRecord DEF SyncDirectory, Me
<1>5. /\ snapshot.sequence = Me.sequence /\ snapshot.logs = Me.logs /\ Me.sequence > 0
      /\ SavedSequence = Me.sequence /\ saved = Me.logs /\ unsaved = <<>>
      /\ Me.pending = <<>>
      /\ ~Me.needsSnapshot => Me.journalBytes = Len(journal)
  BY <1>2, SnapshotWritten
<1>6. new \in InstanceRecords
  BY <1>1, MyRecord DEF InstanceRecords, Steps
<1>7. /\ new.status = Me.status /\ new.logs = Me.logs /\ new.sequence = Me.sequence
      /\ new.step = "truncate" /\ new.pending = Me.pending /\ new.needsSnapshot = Me.needsSnapshot
      /\ new.journalBytes = Me.journalBytes /\ new.journalEvents = Me.journalEvents
  BY <1>1, MyRecord DEF InstanceRecords
<1>8. Me' = new
  BY <1>4, MyRecord
<1>9. OnDisk' = OnDisk /\ SavedSequence' = SavedSequence
  BY <1>2 DEF OnDisk, SavedSequence
<1>10. Load(synced', journal').ok
  BY <1>2, Disk
<1>11. synced'.sequence <= snapshot'.sequence
  BY <1>2, Disk
<1>12. Flushing(Me)'
  <2>1. Len(unsaved') = 0 /\ Len(new.pending) = 0 /\ journal' = journal
    BY <1>2, <1>5, <1>7
  <2>2. ~Me.needsSnapshot => Following(Me)'
    BY <1>5, <1>7, <1>8, <2>1 DEF Following
  <2>3. snapshot' = [sequence |-> Me.sequence, logs |-> Me.logs]
    BY <1>2, FlushingNow DEF Flushing
  <2>4. QED
    BY <1>2, <1>5, <1>7, <1>8, <2>2, <2>3 DEF Flushing
<1>13. /\ new.status # "unloaded" /\ faults' \in Nat /\ kills' \in Nat /\ onUnsynced' \in BOOLEAN
       /\ snapshot' \in Snapshots /\ synced' \in Snapshots /\ torn' \in BOOLEAN /\ journal' \in Seq(Events)
  BY <1>2, <1>3, <1>7 DEF Loaded, Me, LogInv, LogTypeOK
<1>14. QED
  BY <1>2, <1>4, <1>5, <1>6, <1>7, <1>9, <1>10, <1>11, <1>12, <1>13, Disk, CaughtStep

(* Without the journal the synced snapshot still shows everything. *)
LEMMA JournalGone ==
  ASSUME LogInv, Loaded(TheInstance), Me.step = "truncate", journal' = <<>>,
         UNCHANGED <<snapshot, synced, onUnsynced>>, DiskMoved
  PROVE  /\ Me.sequence > 0 /\ SavedSequence' = Me.sequence /\ Me.pending = <<>>
         /\ saved' = Me.logs /\ unsaved' = <<>> /\ OnDisk'.ok /\ OnDisk'.logs = Me.logs
         /\ journal' \in Seq(Events) /\ (onUnsynced' \/ Load(synced', journal').ok)
         /\ synced' = snapshot' /\ synced'.sequence <= snapshot'.sequence
         /\ synced' \in Snapshots /\ snapshot' \in Snapshots
         /\ ~onUnsynced
<1>1. /\ snapshot.sequence = Me.sequence /\ snapshot.logs = Me.logs /\ Me.sequence > 0
      /\ SavedSequence = Me.sequence /\ saved = Me.logs /\ unsaved = <<>> /\ Me.pending = <<>>
  BY SnapshotWritten
<1>2. synced = snapshot /\ ~onUnsynced
  BY FlushingNow DEF Flushing
<1>3. snapshot \in Snapshots /\ snapshot.sequence \in Nat
  BY Disk
<1>4. SavedSequence' = Me.sequence
  BY <1>1 DEF SavedSequence
<1>5. saved' = Me.logs /\ unsaved' = <<>>
  BY <1>1, <1>4, StayBehind
<1>6. OnDisk' = Start(snapshot) /\ Load(synced', journal') = Start(snapshot)
  BY <1>2, LoadEmpty DEF OnDisk
<1>7. Start(snapshot).ok /\ Start(snapshot).logs = Me.logs
  BY <1>1, <1>3, StartState
<1>8. <<>> \in Seq(Events)
  OBVIOUS
<1>9. synced'.sequence <= snapshot'.sequence
  BY <1>2, <1>3
<1>10. QED
  BY <1>1, <1>2, <1>3, <1>4, <1>5, <1>6, <1>7, <1>8, <1>9

LEMMA TruncateJournalInv == ASSUME LogInv, Loaded(TheInstance), TruncateJournal(TheInstance) PROVE LogInv'
<1>0. PICK bytes : bytes = Len(Me.logs)
  OBVIOUS
<1>1. PICK s : s = [Me EXCEPT !.journalBytes = 0, !.journalEvents = 0, !.snapshotBytes = bytes,
                              !.pending = <<>>, !.needsSnapshot = FALSE]
  OBVIOUS
<1>2. PICK new : new = Succeeded(s)
  OBVIOUS
<1>3. /\ Me.step = "truncate" /\ journal' = <<>> /\ torn' = FALSE
      /\ UNCHANGED <<snapshot, synced, onUnsynced>> /\ DiskMoved
  BY DEF TruncateJournal, Me
<1>4. UNCHANGED <<faults, kills>>
  BY DEF TruncateJournal, bounds
<1>5. inst' = [inst EXCEPT ![TheInstance] = new]
  BY <1>0, <1>1, <1>2, MyRecord DEF TruncateJournal, Me
<1>6. s \in InstanceRecords
  <2>1. bytes \in Nat /\ <<>> \in Seq(Events) /\ 0 \in Nat /\ FALSE \in BOOLEAN
    BY <1>0, MyRecord DEF InstanceRecords
  <2>2. QED
    BY <1>1, <2>1, MyRecord DEF InstanceRecords
<1>7. /\ s.status = Me.status /\ s.logs = Me.logs /\ s.sequence = Me.sequence
      /\ s.pending = <<>> /\ s.journalBytes = 0 /\ s.journalEvents = 0
  BY <1>1, MyRecord DEF InstanceRecords
<1>8. ~s.needsSnapshot
  BY <1>1, MyRecord DEF InstanceRecords
<1>9. new \in InstanceRecords
  BY <1>2, <1>6 DEF InstanceRecords, Succeeded, Steps
<1>10. /\ new.status = Me.status /\ new.logs = Me.logs /\ new.sequence = Me.sequence
       /\ new.step = "idle" /\ new.pending = <<>> /\ new.journalBytes = 0 /\ new.journalEvents = 0
  BY <1>2, <1>6, <1>7 DEF InstanceRecords, Succeeded
<1>11. ~new.needsSnapshot
  BY <1>2, <1>6, <1>8 DEF InstanceRecords, Succeeded
<1>12. Me' = new
  BY <1>5, MyRecord
<1>13. /\ Me.sequence > 0 /\ SavedSequence' = Me.sequence
       /\ saved' = Me.logs /\ unsaved' = <<>> /\ OnDisk'.ok /\ OnDisk'.logs = Me.logs
       /\ journal' \in Seq(Events) /\ (onUnsynced' \/ Load(synced', journal').ok)
       /\ synced' = snapshot' /\ synced'.sequence <= snapshot'.sequence
       /\ synced' \in Snapshots /\ snapshot' \in Snapshots
  BY <1>3, JournalGone
<1>14. Flushing(Me)'
  <2>1. Len(unsaved') = 0 /\ Len(new.pending) = 0 /\ Len(journal') = 0
    BY <1>3, <1>10, <1>13
  <2>2. Following(Me)'
    BY <1>10, <1>12, <1>13, <2>1 DEF Following
  <2>3. QED
    BY <1>10, <1>11, <1>12, <2>2 DEF Flushing
<1>15. /\ new.status # "unloaded" /\ faults' \in Nat /\ kills' \in Nat /\ onUnsynced' \in BOOLEAN
       /\ torn' \in BOOLEAN
  <2>1. torn' \in BOOLEAN
    BY <1>3
  <2>2. faults' \in Nat /\ kills' \in Nat /\ onUnsynced' \in BOOLEAN
    BY <1>3, <1>4 DEF LogInv, LogTypeOK
  <2>3. QED
    BY <1>10, <2>1, <2>2 DEF Loaded, Me
<1>16. QED
  BY <1>5, <1>9, <1>10, <1>13, <1>14, <1>15, CaughtStep

LEMMA TruncateJournalFailsInv ==
  ASSUME LogInv, Loaded(TheInstance), TruncateJournalFails(TheInstance) PROVE LogInv'
<1>1. PICK new : new = Failed(Me)
  OBVIOUS
<1>2. /\ Me.step = "truncate" /\ journal' = <<>> /\ torn' = FALSE /\ FileError(TheInstance)
      /\ UNCHANGED <<snapshot, synced, onUnsynced>> /\ DiskMoved
  BY DEF TruncateJournalFails, Me
<1>3. inst' = [inst EXCEPT ![TheInstance] = new] /\ faults' = faults + 1 /\ kills' = kills
  BY <1>1, <1>2, MyRecord DEF FileError, Me
<1>4. /\ new \in InstanceRecords /\ new.status = Me.status
      /\ new.step = "idle" /\ new.logs = Me.logs
      /\ new.sequence = Me.sequence /\ new.pending = <<>> /\ new.needsSnapshot
      /\ new.journalBytes = Me.journalBytes /\ new.journalEvents = Me.journalEvents
  BY <1>1, MyRecord, FailedRecord
<1>5. Me' = new
  BY <1>3, MyRecord
<1>6. /\ Me.sequence > 0 /\ SavedSequence' = Me.sequence
      /\ saved' = Me.logs /\ unsaved' = <<>> /\ OnDisk'.ok /\ OnDisk'.logs = Me.logs
      /\ journal' \in Seq(Events) /\ (onUnsynced' \/ Load(synced', journal').ok)
      /\ synced' = snapshot' /\ synced'.sequence <= snapshot'.sequence
      /\ synced' \in Snapshots /\ snapshot' \in Snapshots
  BY <1>2, JournalGone
<1>7. Flushing(Me)'
  BY <1>4, <1>5, <1>6 DEF Flushing
<1>8. /\ new.status # "unloaded" /\ faults' \in Nat /\ kills' \in Nat /\ onUnsynced' \in BOOLEAN
      /\ torn' \in BOOLEAN
  <2>1. torn' \in BOOLEAN
    BY <1>2
  <2>2. faults' \in Nat /\ kills' \in Nat /\ onUnsynced' \in BOOLEAN
    BY <1>2, <1>3 DEF LogInv, LogTypeOK
  <2>3. QED
    BY <1>4, <2>1, <2>2 DEF Loaded, Me
<1>9. QED
  BY <1>3, <1>4, <1>6, <1>7, <1>8, CaughtStep

-----------------------------------------------------------------------------
(* Changes of the rows *)

(* The event that queueRequestLogLocked makes. *)
NextEvent(s, entry, merged) ==
  [sequence |-> s.sequence + 1, entry |-> entry, merged |-> merged, retention |-> s.retention]

(* What queueing changes of an instance that has nothing pending. *)
SameButQueued(new, s, event) ==
  /\ new.status = s.status /\ new.step = "flush" /\ new.logs = s.logs
  /\ new.sequence = s.sequence + 1 /\ new.needsSnapshot = s.needsSnapshot
  /\ new.journalBytes = s.journalBytes /\ new.journalEvents = s.journalEvents
  /\ new.pending = IF s.needsSnapshot THEN <<>> ELSE <<event>>

LEMMA QueuedRecord ==
  ASSUME NEW s \in InstanceRecords, s.pending = <<>>,
         NEW entry \in Rows \cup {Nothing}, NEW merged \in BOOLEAN
  PROVE  /\ NextEvent(s, entry, merged) \in Events
         /\ Queued(s, entry, merged) \in InstanceRecords
         /\ SameButQueued(Queued(s, entry, merged), s, NextEvent(s, entry, merged))
<1>1. PICK e : e = NextEvent(s, entry, merged)
  OBVIOUS
<1>2. e \in Events
  BY <1>1 DEF NextEvent, Events, InstanceRecords
<1>3. PICK p : p = IF s.needsSnapshot THEN <<>> ELSE <<e>>
  OBVIOUS
<1>4. p \in Seq(Events)
  <2>1. <<>> \in Seq(Events) /\ <<e>> \in Seq(Events)
    BY <1>2
  <2>2. QED
    BY <1>3, <2>1
<1>5. s.sequence + 1 \in Nat
  BY DEF InstanceRecords
<1>6. Append(s.pending, e) = <<e>>
  OBVIOUS
<1>7. PICK new : new = [s EXCEPT !.sequence = s.sequence + 1, !.pending = p, !.step = "flush"]
  OBVIOUS
<1>8. Queued(s, entry, merged) = new
  <2>1. (IF s.needsSnapshot THEN s.pending ELSE Append(s.pending, e)) = p
    BY <1>3, <1>6
  <2>2. Queued(s, entry, merged) =
          [s EXCEPT !.sequence = s.sequence + 1,
                    !.pending = IF s.needsSnapshot THEN s.pending ELSE Append(s.pending, e),
                    !.step = "flush"]
    BY <1>1 DEF Queued, NextEvent, InstanceRecords
  <2>3. QED
    BY <1>7, <2>1, <2>2
<1>9. new \in InstanceRecords
  BY <1>4, <1>5, <1>7 DEF InstanceRecords, Steps
<1>10. /\ new.status = s.status /\ new.step = "flush" /\ new.logs = s.logs
       /\ new.sequence = s.sequence + 1 /\ new.needsSnapshot = s.needsSnapshot
       /\ new.journalBytes = s.journalBytes /\ new.journalEvents = s.journalEvents
       /\ new.pending = p
  BY <1>7 DEF InstanceRecords
<1>11. SameButQueued(new, s, e)
  BY <1>3, <1>10 DEF SameButQueued
<1>12. QED
  BY <1>1, <1>2, <1>8, <1>9, <1>11

(* Between flushes, memory and files agree unless a snapshot is owed. *)
LEMMA IdleAgrees ==
  ASSUME LogInv, Loaded(TheInstance), Me.step = "idle"
  PROVE  /\ Me.pending = <<>>
         /\ ~Me.needsSnapshot =>
              /\ unsaved = <<>> /\ saved = Me.logs /\ SavedSequence = Me.sequence
              /\ Me.journalBytes = Len(journal)
              /\ onUnsynced \/ synced = snapshot
<1>1. Me.pending = <<>>
  BY FlushingNow DEF Flushing
<1>2. ASSUME ~Me.needsSnapshot
      PROVE  /\ unsaved = <<>> /\ saved = Me.logs /\ SavedSequence = Me.sequence
             /\ Me.journalBytes = Len(journal)
             /\ onUnsynced \/ synced = snapshot
  <2>1. Following(Me)
    BY <1>2, FlushingNow DEF Flushing
  <2>2. Len(unsaved) = 0
    BY <1>1, <2>1 DEF Following
  <2>3. unsaved = <<>>
    BY <2>2, EmptySeq DEF LogInv, LogTypeOK
  <2>4. saved = Me.logs
    BY <2>3 DEF LogInv, Versions
  <2>5. SavedSequence = Me.sequence
    BY <2>2, Disk DEF LogInv, Versions
  <2>6. QED
    BY <2>1, <2>3, <2>4, <2>5 DEF Following
<1>3. QED
  BY <1>1, <1>2

(* The rows of s replace the rows in memory, and an event says so. *)
LEMMA AcceptStep ==
  ASSUME LogInv, Loaded(TheInstance), Me.step = "idle", UNCHANGED <<disk, faults, kills>>,
         NEW s \in InstanceRecords, s.status = Me.status, s.sequence = Me.sequence,
         s.pending = Me.pending, s.needsSnapshot = Me.needsSnapshot,
         s.journalBytes = Me.journalBytes, s.journalEvents = Me.journalEvents,
         OneRowEach(s.logs), NEW event \in Events, event.sequence = Me.sequence + 1,
         ~MergeTargetMissing(Me.logs, event), Applied(Me.logs, event) = s.logs,
         NEW new \in InstanceRecords, SameButQueued(new, s, event),
         inst' = [inst EXCEPT ![TheInstance] = new], unsaved' = Append(unsaved, s.logs)
  PROVE  LogInv'
<1>1. UNCHANGED <<snapshot, synced, journal, torn, saved, onUnsynced>>
  BY DEF disk
<1>2. OnDisk' = OnDisk /\ SavedSequence' = SavedSequence /\ Files'
  BY <1>1, SameFiles
<1>3. Me' = new /\ TheInstance' = TheInstance
  BY MyRecord DEF TheInstance
<1>4. unsaved \in Seq(Seq(Rows)) /\ s.logs \in Seq(Rows) /\ s.sequence \in Nat
  BY DEF LogInv, LogTypeOK, InstanceRecords
<1>5. PICK k : k = Len(unsaved)
  OBVIOUS
<1>6. /\ k \in Nat /\ unsaved' \in Seq(Seq(Rows)) /\ Len(unsaved') = k + 1 /\ unsaved' # <<>>
      /\ unsaved'[k + 1] = s.logs /\ \A n \in 1..k : unsaved'[n] = unsaved[n]
      /\ DOMAIN unsaved = 1..k /\ DOMAIN unsaved' = 1..(k + 1)
  BY <1>4, <1>5
<1>7. Versions'
  <2>1. Me.sequence = SavedSequence + k
    BY <1>5 DEF LogInv, Versions
  <2>2. Me.sequence' = SavedSequence' + Len(unsaved')
    BY <1>2, <1>3, <1>6, <2>1, Disk DEF SameButQueued
  <2>3. Me.logs' = Last(unsaved')
    BY <1>3, <1>6 DEF Last, SameButQueued
  <2>4. Loaded(TheInstance)'
    BY <1>3 DEF Loaded, Me, SameButQueued
  <2>5. QED
    BY <1>6, <2>2, <2>3, <2>4 DEF Versions
<1>8. OneRows'
  <2>1. OneRowEach(saved)' /\ OneRowEach(Me.logs)'
    BY <1>1, <1>3 DEF LogInv, OneRows, SameButQueued
  <2>2. ASSUME NEW n \in DOMAIN unsaved' PROVE OneRowEach(unsaved'[n])
    <3>1. CASE n = k + 1
      BY <1>6, <3>1
    <3>2. CASE n # k + 1
      <4>1. n \in 1..k
        BY <1>6, <3>2
      <4>2. QED
        BY <1>6, <4>1 DEF LogInv, OneRows
    <3>3. QED
      BY <3>1, <3>2
  <2>3. QED
    BY <2>1, <2>2 DEF OneRows
<1>9. LogTypeOK'
  <2>1. inst' \in [Instances -> InstanceRecords]
    BY MyRecord DEF LogInv, LogTypeOK
  <2>2. QED
    BY <1>1, <1>6, <2>1 DEF LogInv, LogTypeOK
<1>10. Alone'
  BY <1>3 DEF LogInv, Alone
<1>11. Flushing(Me)'
  <2>1. Me.pending = <<>> /\ Me.sequence \in Nat
    BY <1>4, IdleAgrees
  <2>2. ASSUME ~Me.needsSnapshot PROVE Following(Me)'
    <3>1. /\ unsaved = <<>> /\ saved = Me.logs /\ SavedSequence = Me.sequence
          /\ Me.journalBytes = Len(journal)
          /\ onUnsynced \/ synced = snapshot
      BY <2>2, IdleAgrees
    <3>2. new.pending = <<event>> /\ Len(new.pending) = 1 /\ new.pending[1] = event
      BY <2>2 DEF SameButQueued
    <3>3. Len(unsaved') = 1
      BY <1>5, <1>6, <3>1
    <3>4. OnDisk.ok /\ OnDisk.logs = Me.logs /\ OnDisk.sequence = Me.sequence
      BY <3>1, Disk
    <3>5. OnDisk.previous \in Nat /\ OnDisk.previous <= Me.sequence
      BY <3>1, Disk
    <3>6. Fresh(OnDisk, event)
      BY <2>1, <3>4, <3>5 DEF Fresh
    <3>7. Applied(OnDisk.logs, event) = new.logs
      BY <3>4 DEF SameButQueued
    <3>8. new.journalBytes = Len(journal)
      BY <3>1 DEF SameButQueued
    <3>9. QED
      BY <1>1, <1>2, <1>3, <3>1, <3>2, <3>3, <3>6, <3>7, <3>8 DEF Following
  <2>3. new.sequence > 0 /\ new.sequence # 0 /\ new.step = "flush"
    BY <2>1 DEF SameButQueued
  <2>4. new.needsSnapshot = Me.needsSnapshot
    BY DEF SameButQueued
  <2>5. new.needsSnapshot => new.pending = <<>>
    BY DEF SameButQueued
  <2>6. QED
    BY <1>3, <2>2, <2>3, <2>4, <2>5 DEF Flushing
<1>12. QED
  BY <1>2, <1>7, <1>8, <1>9, <1>10, <1>11 DEF LogInv

(* A lower retention. *)
LEMMA TrimEvent ==
  ASSUME NEW s \in InstanceRecords, NEW logs \in Seq(Rows), OneRowEach(logs)
  PROVE  /\ Trim(logs, s.retention) \in Seq(Rows) /\ OneRowEach(Trim(logs, s.retention))
         /\ ~MergeTargetMissing(logs, NextEvent(s, Nothing, FALSE))
         /\ Applied(logs, NextEvent(s, Nothing, FALSE)) = Trim(logs, s.retention)
<1>1. s.retention \in Nat \ {0}
  BY RequestLogStoreAssumption DEF InstanceRecords
<1>2. PICK e : e = NextEvent(s, Nothing, FALSE)
  OBVIOUS
<1>3. e.entry = Nothing /\ e.retention = s.retention
  BY <1>2 DEF NextEvent
<1>4. ~MergeTargetMissing(logs, e)
  BY <1>3 DEF MergeTargetMissing
<1>5. Applied(logs, e) = Trim(logs, s.retention)
  BY <1>3 DEF Applied
<1>6. QED
  BY <1>1, <1>2, <1>4, <1>5, TrimRows

LEMMA ReconfigureInv == ASSUME LogInv, NEW n \in Retentions, Reconfigure(TheInstance, n) PROVE LogInv'
<1>1. PICK s : s = [Me EXCEPT !.retention = n]
  OBVIOUS
<1>2. /\ Loaded(TheInstance) /\ Me.step = "idle" /\ UNCHANGED <<disk, faults, kills>>
      /\ inst' = [inst EXCEPT ![TheInstance] = Trimmed(s)]
      /\ unsaved' = IF Trimmed(s) = s THEN unsaved ELSE Append(unsaved, Trimmed(s).logs)
  BY <1>1, MyRecord DEF Reconfigure, Idle, Me, bounds
<1>3. s \in InstanceRecords
  BY <1>1, MyRecord DEF InstanceRecords
<1>4. /\ s.status = Me.status /\ s.step = Me.step /\ s.logs = Me.logs /\ s.sequence = Me.sequence
      /\ s.pending = Me.pending /\ s.needsSnapshot = Me.needsSnapshot
      /\ s.journalBytes = Me.journalBytes /\ s.journalEvents = Me.journalEvents
  BY <1>1, MyRecord DEF InstanceRecords
<1>5. CASE ~(Len(s.logs) > s.retention)
  <2>1. Trimmed(s) = s
    BY <1>5 DEF Trimmed
  <2>2. UNCHANGED unsaved /\ inst' = [inst EXCEPT ![TheInstance] = s]
    BY <1>2, <2>1
  <2>3. Flushing(s)
    BY <1>4, <1>2, FlushingNow DEF Flushing, Following
  <2>4. s.status # "unloaded" /\ faults' \in Nat /\ kills' \in Nat
    BY <1>2, <1>4 DEF Loaded, Me, LogInv, LogTypeOK
  <2>5. QED
    BY <1>2, <1>3, <1>4, <2>2, <2>3, <2>4, QuietStep
<1>6. CASE Len(s.logs) > s.retention
  <2>1. PICK rows : rows = Trim(Me.logs, s.retention)
    OBVIOUS
  <2>2. PICK t : t = [s EXCEPT !.logs = rows]
    OBVIOUS
  <2>3. Me.logs \in Seq(Rows) /\ OneRowEach(Me.logs)
    BY MyRecord DEF InstanceRecords, LogInv, OneRows
  <2>4. PICK e : e = NextEvent(s, Nothing, FALSE)
    OBVIOUS
  <2>5. /\ rows \in Seq(Rows) /\ OneRowEach(rows)
        /\ ~MergeTargetMissing(Me.logs, e) /\ Applied(Me.logs, e) = rows
    BY <1>3, <2>1, <2>3, <2>4, TrimEvent
  <2>6. t \in InstanceRecords
    BY <1>3, <2>2, <2>5 DEF InstanceRecords
  <2>7. /\ t.status = Me.status /\ t.logs = rows /\ t.sequence = Me.sequence
        /\ t.pending = Me.pending /\ t.needsSnapshot = Me.needsSnapshot
        /\ t.journalBytes = Me.journalBytes /\ t.journalEvents = Me.journalEvents
        /\ t.retention = s.retention
    BY <1>3, <1>4, <2>2 DEF InstanceRecords
  <2>8. e = NextEvent(t, Nothing, FALSE) /\ e.sequence = Me.sequence + 1
    BY <1>4, <2>4, <2>7 DEF NextEvent
  <2>9. Trimmed(s) = Queued(t, Nothing, FALSE)
    <3>1. t = [s EXCEPT !.logs = Trim(s.logs, s.retention)]
      BY <1>4, <2>1, <2>2
    <3>2. QED
      BY <1>6, <3>1 DEF Trimmed
  <2>10. PICK new : new = Queued(t, Nothing, FALSE)
    OBVIOUS
  <2>11. t.pending = <<>>
    BY <1>2, <2>7, IdleAgrees
  <2>12. e \in Events /\ new \in InstanceRecords /\ SameButQueued(new, t, e)
    BY <2>6, <2>8, <2>10, <2>11, QueuedRecord
  <2>13. new # s /\ new.logs = t.logs
    <3>1. new.step # s.step
      BY <1>2, <1>4, <2>12 DEF SameButQueued
    <3>2. QED
      BY <2>12, <3>1 DEF SameButQueued
  <2>14. inst' = [inst EXCEPT ![TheInstance] = new] /\ unsaved' = Append(unsaved, t.logs)
    BY <1>2, <2>9, <2>10, <2>13
  <2>15. QED
    BY <1>2, <2>5, <2>6, <2>7, <2>8, <2>12, <2>14, AcceptStep
<1>7. QED
  BY <1>5, <1>6

(* A row of a request, merged into its window and cut to the retention, and the
   same change as replay makes it. *)
LEMMA MergedEvent ==
  ASSUME NEW logs \in Seq(Rows), OneRowEach(logs), NEW row \in Rows, NEW n \in Retentions,
         NEW e \in Events, e.entry = Last(Merge(logs, row)), e.retention = n,
         e.merged = (SameWindow(logs, row) # {})
  PROVE  /\ Trim(Merge(logs, row), n) \in Seq(Rows) /\ OneRowEach(Trim(Merge(logs, row), n))
         /\ Last(Trim(Merge(logs, row), n)) = Last(Merge(logs, row))
         /\ ~MergeTargetMissing(logs, e)
         /\ Applied(logs, e) = Trim(Merge(logs, row), n)
<1>0. n \in Nat \ {0}
  BY RequestLogStoreAssumption
<1>1. PICK m : m = Last(Merge(logs, row))
  OBVIOUS
<1>2. PICK all : all = Merge(logs, row)
  OBVIOUS
<1>3. /\ all \in Seq(Rows) /\ all # <<>> /\ OneRowEach(all)
      /\ m \in Rows /\ m.key = row.key /\ all = Append(Without(logs, row), m)
  BY <1>1, <1>2, MergeRows
<1>4. m # Nothing
  BY <1>3, RequestLogStoreAssumption
<1>5. SameWindow(logs, m) = SameWindow(logs, row)
  BY <1>3 DEF SameWindow
<1>6. /\ Trim(all, n) \in Seq(Rows) /\ OneRowEach(Trim(all, n)) /\ Last(Trim(all, n)) = Last(all)
  BY <1>0, <1>3, TrimRows
<1>7. ~MergeTargetMissing(logs, e)
  BY <1>1, <1>5 DEF MergeTargetMissing
<1>8. Applied(logs, e) = Trim(Append(Without(logs, row), m), n)
  <2>1. Applied(logs, e) = Trim(Append(IF e.merged THEN RemoveAt(logs, Max(SameWindow(logs, m))) ELSE logs, m), n)
    BY <1>1, <1>4 DEF Applied
  <2>2. (IF e.merged THEN RemoveAt(logs, Max(SameWindow(logs, m))) ELSE logs) = Without(logs, row)
    BY <1>5 DEF Without
  <2>3. QED
    BY <2>1, <2>2
<1>9. QED
  BY <1>1, <1>2, <1>3, <1>6, <1>7, <1>8

LEMMA AppendLogInv ==
  ASSUME LogInv, NEW key \in Windows \cup {Nothing}, AppendLog(TheInstance, key) PROVE LogInv'
<1>1. PICK row : row = [id |-> Me.sequence + 1, key |-> key, count |-> 1]
  OBVIOUS
<1>2. PICK merged : merged = (SameWindow(Me.logs, row) # {}) /\ merged \in BOOLEAN
  OBVIOUS
<1>3. PICK rows : rows = Trim(Merge(Me.logs, row), Me.retention)
  OBVIOUS
<1>4. PICK s : s = [Me EXCEPT !.logs = rows]
  OBVIOUS
<1>5. PICK queued : queued = Queued(s, Last(rows), merged)
  OBVIOUS
<1>6. PICK new : new = IF merged THEN Scheduled(queued) ELSE queued
  OBVIOUS
<1>7. /\ Loaded(TheInstance) /\ Me.step = "idle" /\ UNCHANGED <<disk, faults, kills>>
      /\ unsaved' = Append(unsaved, rows)
  BY <1>1, <1>3 DEF AppendLog, Idle, Me, bounds
<1>8. inst' = [inst EXCEPT ![TheInstance] = new]
  BY <1>1, <1>2, <1>3, <1>4, <1>5, <1>6, MyRecord DEF AppendLog, Me
<1>9. row \in Rows /\ Me.logs \in Seq(Rows) /\ OneRowEach(Me.logs) /\ Me.retention \in Retentions
      /\ Me.sequence \in Nat
  <2>1. Me.sequence \in Nat /\ Me.logs \in Seq(Rows) /\ Me.retention \in Retentions
    BY MyRecord DEF InstanceRecords
  <2>2. row \in Rows
    BY <1>1, <2>1 DEF Rows
  <2>3. OneRowEach(Me.logs)
    BY DEF LogInv, OneRows
  <2>4. QED
    BY <2>1, <2>2, <2>3
<1>10. PICK m : m = Last(Merge(Me.logs, row))
  OBVIOUS
<1>11. m \in Rows
  BY <1>9, <1>10, MergeRows
<1>12. PICK e : e = NextEvent(Me, m, merged)
  OBVIOUS
<1>13. /\ e.entry = m /\ e.merged = merged /\ e.retention = Me.retention /\ e.sequence = Me.sequence + 1
  BY <1>12 DEF NextEvent
<1>14. e \in Events
  BY <1>2, <1>9, <1>11, <1>12 DEF NextEvent, Events
<1>15. /\ rows \in Seq(Rows) /\ OneRowEach(rows) /\ Last(rows) = m
       /\ ~MergeTargetMissing(Me.logs, e) /\ Applied(Me.logs, e) = rows
  BY <1>2, <1>3, <1>9, <1>10, <1>13, <1>14, MergedEvent
<1>16. s \in InstanceRecords
  BY <1>4, <1>15, MyRecord DEF InstanceRecords
<1>17. /\ s.status = Me.status /\ s.logs = rows /\ s.sequence = Me.sequence
       /\ s.pending = Me.pending /\ s.needsSnapshot = Me.needsSnapshot
       /\ s.journalBytes = Me.journalBytes /\ s.journalEvents = Me.journalEvents
       /\ s.retention = Me.retention
  BY <1>4, MyRecord DEF InstanceRecords
<1>18. s.pending = <<>>
  BY <1>7, <1>17, IdleAgrees
<1>19. e = NextEvent(s, m, merged)
  BY <1>12, <1>17 DEF NextEvent
<1>20. queued \in InstanceRecords /\ SameButQueued(queued, s, e)
  <2>1. queued = Queued(s, m, merged) /\ m \in Rows \cup {Nothing} /\ merged \in BOOLEAN
    BY <1>2, <1>5, <1>11, <1>15
  <2>2. QED
    BY <1>16, <1>18, <1>19, <2>1, QueuedRecord
<1>21. new \in InstanceRecords /\ SameButQueued(new, s, e)
  <2>1. CASE merged
    BY <1>6, <1>20, <2>1, ScheduledRecord DEF SameButQueued
  <2>2. CASE ~merged
    BY <1>6, <1>20, <2>2
  <2>3. QED
    BY <2>1, <2>2
<1>22. QED
  BY <1>7, <1>8, <1>13, <1>14, <1>15, <1>16, <1>17, <1>21, AcceptStep

(* What registration reads. *)
Opened(s, n) ==
  /\ s \in InstanceRecords /\ s.status = "running" /\ s.step = "idle" /\ s.retention = n
  /\ s.logs = saved /\ s.sequence = SavedSequence /\ s.pending = <<>> /\ ~s.needsSnapshot
  /\ s.journalBytes = Len(journal) /\ s.journalEvents = OnDisk.events

LEMMA OpenedRecord ==
  ASSUME LogInv, NEW n \in Retentions, NEW bytes \in Nat, NEW s,
         s = [Me EXCEPT
               !.status = "running", !.step = "idle", !.retention = n,
               !.logs = Compact(OnDisk.logs), !.sequence = OnDisk.sequence,
               !.journalBytes = OnDisk.bytes, !.journalEvents = OnDisk.events,
               !.snapshotBytes = bytes, !.pending = <<>>,
               !.needsSnapshot = FALSE, !.retryDue = TRUE]
  PROVE  Opened(s, n)
<1>1. saved \in Seq(Rows) /\ OneRowEach(saved)
  BY DEF LogInv, LogTypeOK, OneRows
<1>2. Compact(OnDisk.logs) = saved
  BY <1>1, Disk, CompactRows
<1>3. /\ OnDisk.sequence = SavedSequence /\ SavedSequence \in Nat /\ OnDisk.bytes = Len(journal)
      /\ Len(journal) \in Nat /\ OnDisk.events \in Nat
  BY Disk
<1>4. PICK events \in Nat : events = OnDisk.events
  BY <1>3
<1>5. PICK a : a = [Me EXCEPT !.status = "running", !.step = "idle", !.retention = n]
  OBVIOUS
<1>6. PICK b : b = [a EXCEPT !.logs = saved, !.sequence = SavedSequence, !.journalBytes = Len(journal)]
  OBVIOUS
<1>7. PICK c : c = [b EXCEPT !.journalEvents = events, !.snapshotBytes = bytes, !.pending = <<>>]
  OBVIOUS
<1>8. s = [c EXCEPT !.needsSnapshot = FALSE, !.retryDue = TRUE]
  BY <1>2, <1>3, <1>4, <1>5, <1>6, <1>7, Zenon
<1>9. a \in InstanceRecords
  BY <1>5, MyRecord DEF InstanceRecords, InstanceStatuses, Steps
<1>10. b \in InstanceRecords
  BY <1>1, <1>3, <1>6, <1>9 DEF InstanceRecords
<1>11. c \in InstanceRecords
  <2>1. <<>> \in Seq(Events)
    OBVIOUS
  <2>2. QED
    BY <1>7, <1>10, <2>1 DEF InstanceRecords
<1>12. s \in InstanceRecords
  BY <1>8, <1>11 DEF InstanceRecords
<1>13. a.status = "running" /\ a.step = "idle" /\ a.retention = n
  BY <1>5, MyRecord DEF InstanceRecords
<1>14. /\ b.status = a.status /\ b.step = a.step /\ b.retention = a.retention
       /\ b.logs = saved /\ b.sequence = SavedSequence /\ b.journalBytes = Len(journal)
  BY <1>6, <1>9 DEF InstanceRecords
<1>15. /\ c.status = b.status /\ c.step = b.step /\ c.retention = b.retention
       /\ c.logs = b.logs /\ c.sequence = b.sequence /\ c.journalBytes = b.journalBytes
       /\ c.journalEvents = events /\ c.pending = <<>>
  BY <1>7, <1>10 DEF InstanceRecords
<1>16. /\ s.status = c.status /\ s.step = c.step /\ s.retention = c.retention
       /\ s.logs = c.logs /\ s.sequence = c.sequence /\ s.journalBytes = c.journalBytes
       /\ s.journalEvents = c.journalEvents /\ s.pending = c.pending
  BY <1>8, <1>11 DEF InstanceRecords
<1>17. ~s.needsSnapshot
  BY <1>8, <1>11 DEF InstanceRecords
<1>18. QED
  BY <1>4, <1>12, <1>13, <1>14, <1>15, <1>16, <1>17 DEF Opened

(* The step itself: nothing is trimmed, or an event says that rows went. *)
Opening(s, new) ==
  /\ inst' = [inst EXCEPT ![TheInstance] = new] /\ new \in InstanceRecords
  /\ UNCHANGED <<snapshot, synced, journal, torn, saved, faults, kills>>
  /\ onUnsynced' = (synced # snapshot)
  /\ \/ new = s /\ unsaved' = <<>>
     \/ \E t, e : /\ t \in InstanceRecords /\ e \in Events
                  /\ t.status = s.status /\ t.sequence = s.sequence
                  /\ ~t.needsSnapshot
                  /\ t.journalBytes = s.journalBytes /\ t.journalEvents = s.journalEvents
                  /\ Len(saved) > s.retention
                  /\ t.logs = Trim(saved, s.retention) /\ OneRowEach(t.logs)
                  /\ SameButQueued(new, t, e) /\ unsaved' = <<t.logs>>
                  /\ e.sequence = s.sequence + 1
                  /\ ~MergeTargetMissing(saved, e) /\ Applied(saved, e) = t.logs

LEMMA RegisterOpens ==
  ASSUME LogInv, NEW n \in Retentions, Register(TheInstance, n)
  PROVE  \E s, new : Opened(s, n) /\ Opening(s, new)
<1>0. PICK bytes : bytes = Len(snapshot.logs)
  OBVIOUS
<1>1. bytes \in Nat
  BY <1>0, Disk DEF Snapshots
<1>2. PICK s : s = [Me EXCEPT
               !.status = "running", !.step = "idle", !.retention = n,
               !.logs = Compact(OnDisk.logs), !.sequence = OnDisk.sequence,
               !.journalBytes = OnDisk.bytes, !.journalEvents = OnDisk.events,
               !.snapshotBytes = bytes, !.pending = <<>>,
               !.needsSnapshot = FALSE, !.retryDue = TRUE]
  OBVIOUS
<1>3. Opened(s, n)
  BY <1>1, <1>2, OpenedRecord
<1>4. /\ inst' = [inst EXCEPT ![TheInstance] = Trimmed(s)]
      /\ unsaved' = IF Trimmed(s) = s THEN <<>> ELSE <<Trimmed(s).logs>>
  BY <1>0, <1>2, Zenon DEF Register, Me
<1>5. /\ UNCHANGED <<snapshot, synced, journal, torn, saved, faults, kills>>
      /\ onUnsynced' = (synced # snapshot)
  BY DEF Register, bounds
<1>6. s \in InstanceRecords /\ s.logs = saved /\ s.step = "idle" /\ s.pending = <<>> /\ ~s.needsSnapshot
  BY <1>3 DEF Opened
<1>7. CASE ~(Len(s.logs) > s.retention)
  <2>1. Trimmed(s) = s
    BY <1>7 DEF Trimmed
  <2>2. inst' = [inst EXCEPT ![TheInstance] = s] /\ unsaved' = <<>>
    BY <1>4, <2>1
  <2>3. Opening(s, s)
    BY <1>5, <1>6, <2>2 DEF Opening
  <2>4. QED
    BY <1>3, <2>3
<1>8. CASE Len(s.logs) > s.retention
  <2>1. PICK rows : rows = Trim(saved, s.retention)
    OBVIOUS
  <2>2. PICK t : t = [s EXCEPT !.logs = rows]
    OBVIOUS
  <2>3. saved \in Seq(Rows) /\ OneRowEach(saved)
    BY DEF LogInv, LogTypeOK, OneRows
  <2>4. PICK e : e = NextEvent(s, Nothing, FALSE)
    OBVIOUS
  <2>5. /\ rows \in Seq(Rows) /\ OneRowEach(rows)
        /\ ~MergeTargetMissing(saved, e) /\ Applied(saved, e) = rows
    BY <1>6, <2>1, <2>3, <2>4, TrimEvent
  <2>6. t \in InstanceRecords
    BY <1>6, <2>2, <2>5 DEF InstanceRecords
  <2>7. /\ t.status = s.status /\ t.logs = rows /\ t.sequence = s.sequence
        /\ t.pending = s.pending /\ t.needsSnapshot = s.needsSnapshot
        /\ t.journalBytes = s.journalBytes /\ t.journalEvents = s.journalEvents
        /\ t.retention = s.retention
    BY <1>6, <2>2 DEF InstanceRecords
  <2>8. e = NextEvent(t, Nothing, FALSE) /\ e.sequence = s.sequence + 1
    BY <2>4, <2>7 DEF NextEvent
  <2>9. Trimmed(s) = Queued(t, Nothing, FALSE)
    <3>1. t = [s EXCEPT !.logs = Trim(s.logs, s.retention)]
      BY <1>6, <2>1, <2>2
    <3>2. QED
      BY <1>8, <3>1 DEF Trimmed
  <2>10. PICK new : new = Queued(t, Nothing, FALSE)
    OBVIOUS
  <2>11. t.pending = <<>>
    BY <1>6, <2>7
  <2>12. e \in Events /\ new \in InstanceRecords /\ SameButQueued(new, t, e)
    BY <2>6, <2>8, <2>10, <2>11, QueuedRecord
  <2>13. new # s /\ new.logs = t.logs
    <3>1. new.step # s.step
      BY <1>6, <2>12 DEF SameButQueued
    <3>2. QED
      BY <2>12, <3>1 DEF SameButQueued
  <2>14. inst' = [inst EXCEPT ![TheInstance] = new] /\ unsaved' = <<t.logs>>
    BY <1>4, <2>9, <2>10, <2>13
  <2>15. ~t.needsSnapshot
    BY <1>6, <2>7
  <2>16. Len(saved) > s.retention
    BY <1>6, <1>8
  <2>17. Opening(s, new)
    BY <1>5, <2>1, <2>5, <2>6, <2>7, <2>8, <2>12, <2>14, <2>15, <2>16 DEF Opening
  <2>18. QED
    BY <1>3, <2>17
<1>9. QED
  BY <1>7, <1>8

LEMMA OpeningInv ==
  ASSUME LogInv, NEW n, NEW s, NEW new, Opened(s, n), Opening(s, new)
  PROVE  LogInv'
<1>1. OnDisk' = OnDisk /\ SavedSequence' = SavedSequence
  BY DEF Opening, OnDisk, SavedSequence
<1>2. Me' = new /\ TheInstance' = TheInstance
  BY MyRecord DEF TheInstance, Opening
<1>3. saved \in Seq(Rows) /\ OneRowEach(saved) /\ SavedSequence \in Nat
  BY Disk DEF LogInv, LogTypeOK, OneRows
<1>4. onUnsynced' \/ synced' = snapshot'
  BY DEF Opening
<1>5. Files'
  <2>1. OnDisk'.ok /\ OnDisk'.logs = saved'
    BY <1>1, Disk DEF Opening
  <2>2. synced'.sequence <= snapshot'.sequence
    BY DEF Opening, LogInv, Files
  <2>3. synced' = snapshot' => Load(synced', journal') = OnDisk'
    BY DEF OnDisk
  <2>4. QED
    BY <1>4, <2>1, <2>2, <2>3 DEF Files
<1>6. Alone'
  BY <1>2 DEF LogInv, Alone
<1>7. /\ snapshot' \in Snapshots /\ synced' \in Snapshots /\ journal' \in Seq(Events) /\ torn' \in BOOLEAN
      /\ faults' \in Nat /\ kills' \in Nat /\ saved' \in Seq(Rows) /\ onUnsynced' \in BOOLEAN
      /\ inst' \in [Instances -> InstanceRecords] /\ saved' = saved /\ journal' = journal
  <2>1. inst' \in [Instances -> InstanceRecords]
    BY MyRecord DEF LogInv, LogTypeOK, Opening
  <2>2. onUnsynced' \in BOOLEAN
    BY DEF Opening
  <2>3. QED
    BY <2>1, <2>2 DEF LogInv, LogTypeOK, Opening
<1>8. CASE new = s /\ unsaved' = <<>>
  <2>1. unsaved' \in Seq(Seq(Rows)) /\ Len(unsaved') = 0 /\ DOMAIN unsaved' = {}
    BY <1>8
  <2>2. LogTypeOK'
    BY <1>7, <2>1 DEF LogTypeOK
  <2>3. Versions'
    BY <1>1, <1>2, <1>3, <1>7, <1>8, <2>1 DEF Versions, Opened, Loaded, Me
  <2>4. OneRows'
    BY <1>2, <1>3, <1>7, <1>8, <2>1 DEF OneRows, Opened
  <2>5. Len(s.pending) = 0 /\ s.pending = <<>>
    BY DEF Opened
  <2>6. Following(Me)'
    BY <1>1, <1>2, <1>4, <1>7, <1>8, <2>1, <2>5 DEF Following, Opened
  <2>7. s.sequence = 0 => s.journalBytes = 0 /\ s.journalEvents = 0
    BY Disk DEF Opened
  <2>8. Flushing(Me)'
    BY <1>2, <1>8, <2>6, <2>7 DEF Flushing, Opened
  <2>9. QED
    BY <1>5, <1>6, <2>2, <2>3, <2>4, <2>8 DEF LogInv
<1>9. ASSUME NEW t \in InstanceRecords, NEW e \in Events,
             t.status = s.status, t.sequence = s.sequence, ~t.needsSnapshot,
             t.journalBytes = s.journalBytes, t.journalEvents = s.journalEvents,
             t.logs = Trim(saved, s.retention), OneRowEach(t.logs),
             SameButQueued(new, t, e), unsaved' = <<t.logs>>, e.sequence = s.sequence + 1,
             ~MergeTargetMissing(saved, e), Applied(saved, e) = t.logs
      PROVE  LogInv'
  <2>1. t.logs \in Seq(Rows)
    BY DEF InstanceRecords
  <2>2. /\ unsaved' \in Seq(Seq(Rows)) /\ Len(unsaved') = 1 /\ DOMAIN unsaved' = {1}
        /\ unsaved' # <<>> /\ unsaved'[1] = t.logs
    BY <1>9, <2>1
  <2>3. LogTypeOK'
    BY <1>7, <2>2 DEF LogTypeOK
  <2>4. /\ new.status = "running" /\ new.sequence = SavedSequence + 1 /\ new.logs = t.logs
        /\ new.step = "flush" /\ ~new.needsSnapshot /\ new.journalBytes = Len(journal)
    BY <1>9 DEF SameButQueued, Opened
  <2>5. new.pending = <<e>>
    BY <1>9 DEF SameButQueued
  <2>6. Versions'
    <3>1. Last(unsaved') = t.logs
      BY <2>2 DEF Last
    <3>2. QED
      BY <1>1, <1>2, <2>2, <2>4, <3>1 DEF Versions, Loaded, Me
  <2>7. OneRows'
    BY <1>2, <1>3, <1>7, <1>9, <2>2, <2>4 DEF OneRows
  <2>8. Fresh(OnDisk, e)
    <3>1. /\ OnDisk.ok /\ OnDisk.sequence = SavedSequence /\ OnDisk.logs = saved
          /\ OnDisk.previous \in Nat /\ OnDisk.previous <= SavedSequence
      BY Disk
    <3>2. e.sequence = SavedSequence + 1
      BY <1>9 DEF Opened
    <3>3. QED
      BY <1>3, <1>9, <3>1, <3>2 DEF Fresh
  <2>9. Applied(OnDisk.logs, e) = new.logs
    BY <1>9, <2>4, Disk
  <2>10. Len(new.pending) = 1 /\ new.pending[1] = e
    BY <2>5
  <2>11. Following(Me)'
    BY <1>1, <1>2, <1>4, <1>7, <2>2, <2>4, <2>8, <2>9, <2>10 DEF Following
  <2>12. new.sequence > 0 /\ new.sequence # 0
    BY <1>3, <2>4
  <2>13. Flushing(Me)'
    BY <1>2, <2>4, <2>11, <2>12 DEF Flushing
  <2>14. QED
    BY <1>5, <1>6, <2>3, <2>6, <2>7, <2>13 DEF LogInv
<1>10. QED
  BY <1>8, <1>9 DEF Opening

LEMMA RegisterInv == ASSUME LogInv, NEW n \in Retentions, Register(TheInstance, n) PROVE LogInv'
BY RegisterOpens, OpeningInv

LEMMA InitInv == Alone /\ LogInit => LogInv
<1> SUFFICES ASSUME Alone, LogInit PROVE LogInv
  OBVIOUS
<1>1. PICK logs \in Legacies : snapshot = [sequence |-> 0, logs |-> logs]
  BY DEF LogInit
<1>2. logs \in Seq(Rows)
  BY RequestLogStoreAssumption
<1>3. snapshot \in Snapshots /\ synced = snapshot /\ snapshot.sequence = 0
  BY <1>1, <1>2 DEF LogInit, Snapshots
<1>4. OnDisk = Start(snapshot)
  BY LoadEmpty DEF LogInit, OnDisk
<1>5. OnDisk.ok /\ OnDisk.logs = Compact(logs) /\ saved = Compact(logs)
  <2>1. Start(snapshot).logs = Compact(logs)
    BY <1>1 DEF Start
  <2>2. QED
    BY <1>3, <1>4, <2>1, StartState DEF LogInit
<1>6. saved \in Seq(Rows) /\ OneRowEach(saved)
  BY <1>2, <1>5, CompactRows
<1>7. Load(synced, journal).ok
  BY <1>3, <1>5 DEF OnDisk
<1>8. PICK n \in Retentions : n = CHOOSE m \in Retentions : TRUE
  BY RequestLogStoreAssumption
<1>9. PICK r : r = [status |-> "unloaded", step |-> "idle", logs |-> <<>>,
        retention |-> n,
        sequence |-> 0, journalBytes |-> 0, journalEvents |-> 0,
        snapshotBytes |-> 0, pending |-> <<>>, needsSnapshot |-> FALSE,
        retryDue |-> TRUE, timer |-> FALSE]
  OBVIOUS
<1>10. r \in InstanceRecords /\ r.status = "unloaded" /\ r.step = "idle" /\ r.logs = <<>>
  <2>1. <<>> \in Seq(Rows) /\ <<>> \in Seq(Events) /\ n \in Retentions
    OBVIOUS
  <2>2. QED
    BY <1>9, <2>1 DEF InstanceRecords, InstanceStatuses, Steps
<1>11. inst = [i \in Instances |-> r]
  BY <1>8, <1>9 DEF LogInit
<1>12. Me = r /\ inst \in [Instances -> InstanceRecords]
  <2>1. TheInstance \in Instances
    BY DEF Alone
  <2>2. QED
    BY <1>10, <1>11, <2>1 DEF Me
<1>13. ~Loaded(TheInstance)
  BY <1>10, <1>12 DEF Loaded, Me
<1>14. unsaved = <<>> /\ journal = <<>> /\ torn = FALSE /\ faults = 0 /\ kills = 0 /\ onUnsynced = FALSE
  BY DEF LogInit
<1>15. unsaved \in Seq(Seq(Rows)) /\ journal \in Seq(Events) /\ DOMAIN unsaved = {}
  BY <1>14
<1>16. LogTypeOK
  BY <1>3, <1>6, <1>12, <1>14, <1>15 DEF LogTypeOK
<1>17. Files
  BY <1>3, <1>5, <1>7 DEF Files
<1>18. Versions
  BY <1>10, <1>12, <1>13, <1>14 DEF Versions
<1>19. OneRows
  <2>1. r.logs = <<>> /\ DOMAIN r.logs = {}
    BY <1>10
  <2>2. OneRowEach(r.logs)
    BY <2>1 DEF OneRowEach
  <2>3. QED
    BY <1>6, <1>12, <1>15, <2>2 DEF OneRows
<1>20. QED
  BY <1>13, <1>16, <1>17, <1>18, <1>19 DEF LogInv

-----------------------------------------------------------------------------
(* Every step *)

LEMMA StutterInv == ASSUME LogInv, UNCHANGED logVars PROVE LogInv'
<1>1. /\ UNCHANGED <<snapshot, synced, journal, torn, saved, onUnsynced>>
      /\ UNCHANGED <<inst, faults, kills, unsaved>>
  BY DEF logVars
<1>2. OnDisk' = OnDisk /\ SavedSequence' = SavedSequence /\ Files'
  BY <1>1, SameFiles
<1>3. Me' = Me /\ TheInstance' = TheInstance /\ Loaded(TheInstance)' = Loaded(TheInstance)
  BY <1>1 DEF Me, TheInstance, Loaded
<1>4. LogTypeOK'
  BY <1>1 DEF LogInv, LogTypeOK
<1>5. Versions'
  BY <1>1, <1>2, <1>3 DEF LogInv, Versions
<1>6. OneRows'
  BY <1>1, <1>3 DEF LogInv, OneRows
<1>7. Loaded(TheInstance) => Flushing(Me)'
  BY <1>1, <1>2, <1>3 DEF LogInv, Flushing, Following
<1>8. Alone'
  BY <1>3 DEF LogInv, Alone
<1>9. QED
  BY <1>2, <1>3, <1>4, <1>5, <1>6, <1>7, <1>8 DEF LogInv

(* A flush is made by a loaded instance. *)
LEMMA FlushStepLoaded == ASSUME LogInv, FlushStep(TheInstance) PROVE Loaded(TheInstance)
<1>1. Me.step # "idle"
  <2>1. Me.step \in Steps \ {"idle"}
    BY DEF FlushStep, Postpone, ChooseWriter, WriteJournal, WriteJournalFails, Check,
           WriteSnapshot, SyncDirectory, SnapshotFails, TruncateJournal, TruncateJournalFails,
           Me, Steps
  <2>2. QED
    BY <2>1
<1>2. QED
  BY <1>1 DEF LogInv, Versions

LEMMA FlushStepInv == ASSUME LogInv, FlushStep(TheInstance) PROVE LogInv'
BY FlushStepLoaded, PostponeInv, ChooseWriterInv, WriteJournalInv, WriteJournalFailsInv, CheckInv,
   WriteSnapshotInv, SyncDirectoryInv, SnapshotFailsInv, TruncateJournalInv, TruncateJournalFailsInv
   DEF FlushStep

LEMMA FlagsLoaded ==
  ASSUME RetryDue(TheInstance) \/ TimerFires(TheInstance) \/ Stop(TheInstance) \/ FinalFlush(TheInstance)
  PROVE  Loaded(TheInstance)
BY DEF RetryDue, TimerFires, Stop, FinalFlush, Idle

LEMMA NextCases ==
  ASSUME LogInv, LogNext
  PROVE  \/ \E n \in Retentions : \/ Register(TheInstance, n) \/ Reconfigure(TheInstance, n)
                                  \/ PutConfig(TheInstance, n)
         \/ \E key \in Windows \cup {Nothing} : AppendLog(TheInstance, key)
         \/ FlushStep(TheInstance)
         \/ RetryDue(TheInstance) \/ TimerFires(TheInstance) \/ Stop(TheInstance) \/ FinalFlush(TheInstance)
         \/ Kill
BY MyRecord DEF LogNext

LEMMA NextInv == LogInv /\ [LogNext]_logVars => LogInv'
<1> SUFFICES ASSUME LogInv, [LogNext]_logVars PROVE LogInv'
  OBVIOUS
<1>1. CASE UNCHANGED logVars
  BY <1>1, StutterInv
<1>2. CASE LogNext
  BY <1>2, NextCases, RegisterInv, ReconfigureInv, PutConfigInv, AppendLogInv, FlushStepInv,
     FlagsLoaded, FlagsInv, KillInv
<1>3. QED
  BY <1>1, <1>2

\* One instance that writes the files keeps the invariant.
LEMMA Inductive == Alone /\ LogSpec => []LogInv
BY InitInv, NextInv, PTL DEF LogSpec

-----------------------------------------------------------------------------
(* What follows from it *)

\* The state of the store, its instance and its files have their types.
THEOREM LogTypes == Alone /\ LogSpec => []LogTypeOK
<1>1. LogInv => LogTypeOK
  BY DEF LogInv
<1>2. QED
  BY <1>1, Inductive, PTL

LEMMA PowerLossLoadsNow == LogInv => PowerLossLoads
<1> SUFFICES ASSUME LogInv, ~onUnsynced, NEW base \in {synced, snapshot}, NEW n \in 0..Len(journal)
             PROVE  /\ Load(base, SubSeq(journal, 1, n)).ok
                    /\ Load(base, SubSeq(journal, 1, n)).sequence >= synced.sequence
  BY DEF PowerLossLoads
<1>1. base \in Snapshots /\ journal \in Seq(Events) /\ synced.sequence \in Nat /\ base.sequence \in Nat
  BY Disk DEF Snapshots
<1>2. Load(base, journal).ok
  BY Disk DEF LogInv, Files
<1>3. synced.sequence <= base.sequence
  BY <1>1 DEF LogInv, Files
<1>4. PICK part : part = SubSeq(journal, 1, n)
  OBVIOUS
<1>5. Load(base, part).ok /\ Load(base, part).sequence >= base.sequence
  BY <1>1, <1>2, <1>4, LoadOrdered
<1>6. Load(base, part).sequence \in Nat
  <2>1. part \in Seq(Events)
    BY <1>1, <1>4
  <2>2. QED
    BY <1>1, <2>1, LoadOrdered DEF IsState
<1>7. Load(base, part).sequence >= synced.sequence
  BY <1>1, <1>3, <1>5, <1>6
<1>8. QED
  BY <1>4, <1>5, <1>7

\* Whenever the process is killed, or power is lost before an unsynced rename or
\* the end of the journal is on disk, the next start reads the log without an
\* error; after a kill it reads exactly the newest version that was saved.
THEOREM RestartReads == Alone /\ LogSpec => []RestartReadsLog
<1>1. LogInv => RestartReadsLog
  BY PowerLossLoadsNow DEF LogInv, Files, RestartReadsLog, RestartShowsVersion
<1>2. QED
  BY <1>1, Inductive, PTL

\* A flush that returned without an error left nothing unsaved: the disk holds
\* the rows in memory.
THEOREM AcknowledgedDurable == Alone /\ LogSpec => []AcknowledgedIsDurable
<1>1. LogInv => AcknowledgedIsDurable
  <2> SUFFICES ASSUME LogInv, NEW i \in Instances, Idle(i), ~inst[i].needsSnapshot
               PROVE  unsaved = <<>> /\ saved = inst[i].logs
    BY DEF AcknowledgedIsDurable
  <2>1. i = TheInstance
    BY MyRecord
  <2>2. Loaded(TheInstance) /\ Me.step = "idle" /\ ~Me.needsSnapshot /\ inst[i].logs = Me.logs
    BY <2>1 DEF Idle, Me
  <2>3. QED
    BY <2>2, IdleAgrees
<1>2. QED
  BY <1>1, Inductive, PTL

\* The local 429s of one window take one row, in memory and on disk.
THEOREM WindowsTakeOneRow == Alone /\ LogSpec => []OneRowPerWindow
<1>1. LogInv => OneRowPerWindow
  <2> SUFFICES ASSUME LogInv, NEW logs \in {saved} \cup {inst[i].logs : i \in Instances}
               PROVE  OneRowEach(logs)
    BY DEF OneRowPerWindow
  <2>1. \A i \in Instances : inst[i].logs = Me.logs
    BY MyRecord DEF Me
  <2>2. QED
    BY <2>1 DEF LogInv, OneRows
<1>2. QED
  BY <1>1, Inductive, PTL

-----------------------------------------------------------------------------
(* The log implements DurableLog *)

Shown == IF Loaded(TheInstance) THEN inst[TheInstance].logs ELSE saved

(* A reader sees the newest version. *)
LEMMA ShownIs == ASSUME LogInv PROVE Shown = IF unsaved = <<>> THEN saved ELSE Last(unsaved)
BY DEF LogInv, Versions, Shown, Me

Accepting ==
  \E rows : rows \in Seq(Rows) /\ unsaved' = Append(unsaved, rows) /\ saved' = saved
Saving ==
  \E n \in 1..Len(unsaved) : /\ saved' = unsaved[n]
                             /\ unsaved' = SubSeq(unsaved, n + 1, Len(unsaved))
Reopening == saved' = saved /\ unsaved' = <<>>
Retaining ==
  /\ saved' = saved
  /\ \E n \in 1..Len(saved) : unsaved' = <<SubSeq(saved, n + 1, Len(saved))>>

LEMMA DiskMovedIs ==
  ASSUME LogInv, LogInv', DiskMoved PROVE Saving \/ UNCHANGED <<saved, unsaved>>
<1>1. SavedSequence \in Nat /\ SavedSequence' \in Nat /\ Len(unsaved) \in Nat
  <2>1. /\ snapshot' \in Snapshots /\ journal' \in Seq(Events) /\ Load(snapshot', journal').ok
        /\ SavedSequence' = Newest(snapshot', journal')
    BY DEF LogInv, LogTypeOK, Files, OnDisk, SavedSequence, Newest
  <2>2. SavedSequence' \in Nat
    BY <2>1, LoadNewest
  <2>3. QED
    BY <2>2, Disk DEF LogInv, LogTypeOK
<1>2. PICK n : n = SavedSequence' - SavedSequence
  OBVIOUS
<1>3. CASE SavedSequence' > SavedSequence /\ n <= Len(unsaved)
  <2>1. n \in 1..Len(unsaved)
    <3>1. PICK a \in Nat, b \in Nat, c \in Nat : a = SavedSequence' /\ b = SavedSequence /\ c = Len(unsaved)
      BY <1>1
    <3>2. a > b /\ n = a - b /\ n <= c
      BY <1>2, <1>3, <3>1
    <3>3. n \in 1..c
      BY ONLY <3>2, a \in Nat, b \in Nat, c \in Nat
    <3>4. QED
      BY <3>1, <3>3
  <2>2. saved' = unsaved[n] /\ unsaved' = SubSeq(unsaved, n + 1, Len(unsaved))
    BY <1>2, <1>3 DEF DiskMoved
  <2>3. QED
    BY <2>1, <2>2 DEF Saving
<1>4. CASE ~(SavedSequence' > SavedSequence /\ n <= Len(unsaved))
  BY <1>2, <1>4 DEF DiskMoved
<1>5. QED
  BY <1>3, <1>4

LEMMA FlushStepSaves ==
  ASSUME LogInv, LogInv', FlushStep(TheInstance) PROVE Saving \/ UNCHANGED <<saved, unsaved>>
<1>1. DiskMoved \/ UNCHANGED <<saved, unsaved>>
  BY DEF FlushStep, Postpone, ChooseWriter, WriteJournal, WriteJournalFails, Check,
         WriteSnapshot, SyncDirectory, SnapshotFails, TruncateJournal, TruncateJournalFails, disk
<1>2. QED
  BY <1>1, DiskMovedIs

LEMMA RegisterReopens ==
  ASSUME LogInv, NEW n \in Retentions, Register(TheInstance, n) PROVE Reopening \/ Retaining
<1>1. PICK s, new : Opened(s, n) /\ Opening(s, new)
  BY RegisterOpens
<1>2. saved' = saved
  BY <1>1 DEF Opening
<1>3. CASE new = s /\ unsaved' = <<>>
  BY <1>2, <1>3 DEF Reopening
<1>4. ASSUME NEW t, t.logs = Trim(saved, s.retention), Len(saved) > s.retention, unsaved' = <<t.logs>>
      PROVE  Retaining
  <2>1. s.retention \in Nat \ {0} /\ Len(saved) \in Nat
    BY <1>1, RequestLogStoreAssumption DEF Opened, LogInv, LogTypeOK
  <2>2. PICK k : k = Len(saved) - s.retention
    OBVIOUS
  <2>3. k \in 1..Len(saved)
    BY <1>4, <2>1, <2>2
  <2>4. t.logs = SubSeq(saved, k + 1, Len(saved))
    BY <1>4, <2>2 DEF Trim
  <2>5. QED
    BY <1>2, <1>4, <2>3, <2>4 DEF Retaining
<1>5. QED
  BY <1>1, <1>3, <1>4 DEF Opening

LEMMA AppendLogAccepts ==
  ASSUME LogInv, NEW key \in Windows \cup {Nothing}, AppendLog(TheInstance, key), LogInv' PROVE Accepting
<1>1. PICK rows : unsaved' = Append(unsaved, rows) /\ saved' = saved
  BY DEF AppendLog, disk
<1>2. PICK k : k = Len(unsaved) + 1
  OBVIOUS
<1>3. unsaved \in Seq(Seq(Rows)) /\ unsaved' \in Seq(Seq(Rows)) /\ k \in Nat
  BY <1>2 DEF LogInv, LogTypeOK
<1>4. unsaved'[k] = rows /\ k \in DOMAIN unsaved'
  BY <1>1, <1>2, <1>3
<1>5. rows \in Seq(Rows)
  BY <1>3, <1>4
<1>6. QED
  BY <1>1, <1>5 DEF Accepting

LEMMA ReconfigureAccepts ==
  ASSUME LogInv, NEW n \in Retentions, Reconfigure(TheInstance, n), LogInv'
  PROVE  Accepting \/ UNCHANGED <<saved, unsaved>>
<1>1. PICK rows : unsaved' \in {unsaved, Append(unsaved, rows)} /\ saved' = saved
  BY DEF Reconfigure, disk
<1>2. CASE unsaved' = unsaved
  BY <1>1, <1>2
<1>3. CASE unsaved' = Append(unsaved, rows)
  <2>1. PICK k : k = Len(unsaved) + 1
    OBVIOUS
  <2>2. unsaved \in Seq(Seq(Rows)) /\ unsaved' \in Seq(Seq(Rows)) /\ k \in Nat
    BY <2>1 DEF LogInv, LogTypeOK
  <2>3. unsaved'[k] = rows /\ k \in DOMAIN unsaved'
    BY <1>3, <2>1, <2>2
  <2>4. rows \in Seq(Rows)
    BY <2>2, <2>3
  <2>5. QED
    BY <1>1, <1>3, <2>4 DEF Accepting
<1>4. QED
  BY <1>1, <1>2, <1>3

LEMMA NextVersions ==
  ASSUME LogInv, LogInv', [LogNext]_logVars
  PROVE  Accepting \/ Saving \/ Reopening \/ Retaining \/ UNCHANGED <<saved, unsaved>>
<1>1. CASE UNCHANGED logVars
  BY <1>1 DEF logVars
<1>2. ASSUME Kill PROVE Reopening
  BY <1>2 DEF Kill, disk, Reopening
<1>3. ASSUME RetryDue(TheInstance) \/ TimerFires(TheInstance) \/ Stop(TheInstance) \/ FinalFlush(TheInstance)
      PROVE  UNCHANGED <<saved, unsaved>>
  BY <1>3 DEF RetryDue, TimerFires, Stop, FinalFlush, disk
<1>4. ASSUME NEW n \in Retentions, PutConfig(TheInstance, n) PROVE UNCHANGED <<saved, unsaved>>
  BY <1>4 DEF PutConfig, disk
<1>5. CASE LogNext
  BY <1>2, <1>3, <1>4, <1>5, NextCases, RegisterReopens, ReconfigureAccepts, AppendLogAccepts, FlushStepSaves
<1>6. QED
  BY <1>1, <1>5

LEMMA StepSimulation ==
  ASSUME LogInv, LogInv', [LogNext]_logVars PROVE [Abstract!Next]_(Abstract!vars)
<1>0. /\ saved \in Seq(Rows) /\ unsaved \in Seq(Seq(Rows)) /\ Len(unsaved) \in Nat
      /\ saved' \in Seq(Rows) /\ unsaved' \in Seq(Seq(Rows))
  BY DEF LogInv, LogTypeOK
<1>1. Shown = IF unsaved = <<>> THEN saved ELSE Last(unsaved)
  BY ShownIs
<1>2. Shown' = IF unsaved' = <<>> THEN saved' ELSE Last(unsaved')
  BY DEF LogInv, Versions, Shown, Me
<1>3. CASE UNCHANGED <<saved, unsaved>>
  <2>1. Shown' = Shown
    BY <1>1, <1>2, <1>3
  <2>2. QED
    BY <1>3, <2>1 DEF Abstract!vars, Shown
<1>4. CASE Accepting
  <2>1. PICK rows : rows \in Seq(Rows) /\ unsaved' = Append(unsaved, rows) /\ saved' = saved
    BY <1>4 DEF Accepting
  <2>2. PICK k \in Nat : k = Len(unsaved)
    BY <1>0
  <2>3. /\ Len(unsaved') = k + 1 /\ unsaved' # <<>> /\ unsaved'[k + 1] = rows
        /\ \A m \in 1..k : unsaved'[m] = unsaved[m]
    BY <1>0, <2>1, <2>2
  <2>4. SubSeq(unsaved', 1, k) = unsaved
    BY <1>0, <2>1, <2>2
  <2>5. Shown' = unsaved'[Len(unsaved')]
    BY <1>2, <2>3 DEF Last
  <2>6. Abstract!Accept
    BY <2>1, <2>2, <2>3, <2>4, <2>5 DEF Abstract!Accept, Shown
  <2>7. QED
    BY <2>6 DEF Abstract!Next
<1>5. CASE Saving
  <2>1. PICK n \in 1..Len(unsaved) : /\ saved' = unsaved[n]
                                     /\ unsaved' = SubSeq(unsaved, n + 1, Len(unsaved))
    BY <1>5 DEF Saving
  <2>2. PICK k \in Nat : k = Len(unsaved)
    BY <1>0
  <2>3. unsaved # <<>> /\ Shown = unsaved[k] /\ n \in 1..k
    BY <1>1, <2>1, <2>2 DEF Last
  <2>4. ASSUME n = k PROVE Shown' = Shown
    <3>1. unsaved' = <<>>
      BY <1>0, <2>1, <2>2, <2>4
    <3>2. QED
      BY <1>2, <2>1, <2>3, <2>4, <3>1
  <2>5. ASSUME n # k PROVE Shown' = Shown
    <3>1. Len(unsaved') = k - n /\ k - n \in 1..k
      BY <1>0, <2>1, <2>2, <2>3, <2>5
    <3>2. unsaved' # <<>>
      BY <3>1
    <3>3. unsaved'[k - n] = unsaved[k]
      BY <1>0, <2>1, <2>2, <2>3, <2>5
    <3>4. QED
      BY <1>2, <2>3, <3>1, <3>2, <3>3 DEF Last
  <2>6. Shown' = Shown
    BY <2>4, <2>5
  <2>7. Abstract!Save
    BY <2>1, <2>6 DEF Abstract!Save, Shown
  <2>8. QED
    BY <2>7 DEF Abstract!Next
<1>6. CASE Reopening
  <2>1. Shown' = saved
    BY <1>2, <1>6 DEF Reopening
  <2>2. Abstract!Reopen
    BY <1>6, <2>1 DEF Abstract!Reopen, Reopening, Shown
  <2>3. QED
    BY <2>2 DEF Abstract!Next
<1>7. CASE Retaining
  <2>1. PICK n \in 1..Len(saved) : unsaved' = <<SubSeq(saved, n + 1, Len(saved))>> /\ saved' = saved
    BY <1>7 DEF Retaining
  <2>2. PICK rows : rows = SubSeq(saved, n + 1, Len(saved))
    OBVIOUS
  <2>3. unsaved' = <<rows>> /\ unsaved' # <<>> /\ Last(unsaved') = rows
    BY <2>1, <2>2 DEF Last
  <2>4. Shown' = rows
    BY <1>2, <2>3
  <2>5. Abstract!ReopenTrimmed
    BY <2>1, <2>2, <2>3, <2>4 DEF Abstract!ReopenTrimmed, Shown
  <2>6. QED
    BY <2>5 DEF Abstract!Next
<1>8. QED
  BY <1>3, <1>4, <1>5, <1>6, <1>7, NextVersions

\* What the management page shows is a version of the log, versions reach the
\* disk in order and none is skipped, and a restart shows the newest saved one.
THEOREM LogIsDurable == Alone /\ LogSpec => Durable
<1>1. LogInv /\ LogInit => Abstract!Init
  <2> SUFFICES ASSUME LogInv, LogInit PROVE Abstract!Init
    OBVIOUS
  <2>1. unsaved = <<>>
    BY DEF LogInit
  <2>2. Shown = saved
    BY <2>1, ShownIs
  <2>3. QED
    BY <2>1, <2>2 DEF Abstract!Init, Shown
<1>2. LogInv /\ LogInv' /\ [LogNext]_logVars => [Abstract!Next]_(Abstract!vars)
  BY StepSimulation
<1>3. QED
  BY <1>1, <1>2, Inductive, PTL DEF LogSpec, Durable, Abstract!Spec

-----------------------------------------------------------------------------
(* A snapshot never goes back *)

LEMMA SnapshotForward ==
  ASSUME LogInv, [LogNext]_logVars PROVE snapshot'.sequence >= snapshot.sequence
<1>1. snapshot.sequence \in Nat
  BY Disk
<1>2. CASE snapshot' = snapshot
  BY <1>1, <1>2
<1>3. ASSUME WriteSnapshot(TheInstance) PROVE snapshot'.sequence >= snapshot.sequence
  <2>1. snapshot' = [sequence |-> Me.sequence, logs |-> Me.logs] /\ Loaded(TheInstance)
    BY <1>3, FlushStepLoaded DEF WriteSnapshot, Me, FlushStep
  <2>2. Me.sequence = SavedSequence + Len(unsaved) /\ Len(unsaved) \in Nat
    BY <2>1 DEF LogInv, Versions, LogTypeOK
  <2>3. SavedSequence \in Nat /\ snapshot.sequence <= SavedSequence
    BY Disk
  <2>4. snapshot'.sequence = Me.sequence
    BY <2>1
  <2>5. QED
    BY <1>1, <2>2, <2>3, <2>4
<1>4. CASE UNCHANGED logVars
  BY <1>2, <1>4 DEF logVars
<1>5. ASSUME FlushStep(TheInstance), ~WriteSnapshot(TheInstance) PROVE snapshot' = snapshot
  BY <1>5 DEF FlushStep, Postpone, ChooseWriter, WriteJournal, WriteJournalFails, Check,
              SyncDirectory, SnapshotFails, TruncateJournal, TruncateJournalFails, disk
<1>6. ASSUME RetryDue(TheInstance) \/ TimerFires(TheInstance) \/ Stop(TheInstance) \/ FinalFlush(TheInstance)
             \/ Kill
      PROVE  snapshot' = snapshot
  BY <1>6 DEF RetryDue, TimerFires, Stop, FinalFlush, Kill, disk
<1>7. ASSUME NEW n \in Retentions,
             Register(TheInstance, n) \/ Reconfigure(TheInstance, n) \/ PutConfig(TheInstance, n)
      PROVE  snapshot' = snapshot
  BY <1>7 DEF Register, Reconfigure, PutConfig, disk
<1>8. ASSUME NEW key \in Windows \cup {Nothing}, AppendLog(TheInstance, key) PROVE snapshot' = snapshot
  BY <1>8 DEF AppendLog, disk
<1>9. CASE LogNext
  BY <1>2, <1>3, <1>5, <1>6, <1>7, <1>8, <1>9, NextCases
<1>10. QED
  BY <1>4, <1>9

\* "An older snapshot can never overwrite a newer one" (observability.go:168) is
\* true of one instance, whatever fails and whenever it is killed; of two loaded
\* instances it is not, as the run log_overwrite shows.
THEOREM SnapshotsAdvance == Alone /\ LogSpec => SnapshotsMoveForward
<1>1. LogInv /\ [LogNext]_logVars => [snapshot'.sequence >= snapshot.sequence]_logVars
  BY SnapshotForward
<1>2. QED
  BY <1>1, Inductive, PTL DEF LogSpec, SnapshotsMoveForward

=============================================================================
