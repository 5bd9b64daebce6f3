--------------------------- MODULE EgressPoolProofs ---------------------------
(***************************************************************************)
(* Proofs about EgressPool, for any finite set of callers and any proxies,  *)
(* groups, configurations, edits and clocks: a group counts exactly the     *)
(* leases that are out, a shutdown leaves nothing behind, no sleeper misses  *)
(* its wakeup, and an admission is within the limits now configured.        *)
(***************************************************************************)
EXTENDS EgressPool, FiniteSetTheorems, SequenceTheorems, WellFoundedInduction, TLAPS

Running == {"live", "cancelled"}
Shape(r) ==
  r = [step |-> r.step, op |-> r.op, lease |-> r.lease, group |-> r.group,
       reserved |-> r.reserved, sent |-> r.sent, limit |-> r.limit, wake |-> r.wake,
       notified |-> r.notified]

(* What each step of a call implies of its operation and its lease. *)
Consistent(r) ==
  /\ Shape(r) /\ r.step \in Steps
  /\ r.step \in {"new", "begun"} => r.op = "none" /\ r.lease = "none"
  /\ r.step \in {"acquiring", "waiting"} => r.op \in Running /\ r.lease = "none"
  /\ r.step \in {"leased", "checked", "ready", "sending", "answered", "streaming", "limited"} =>
       r.op \in Running /\ r.lease = "held"
  /\ r.step = "offered" => \/ r.op \in Running /\ r.lease = "held"
                           \/ r.op = "finished" /\ r.lease = "released"
  /\ r.step \in {"closed", "ended"} =>
       r.op \in {"none", "finished"} /\ r.lease \in {"none", "released"}

Calls == DOMAIN call = Callers /\ \A c \in Callers : Consistent(call[c])

GroupShape(r) ==
  /\ r = [known |-> r.known, rpm |-> r.rpm, maxInflight |-> r.maxInflight,
          inflight |-> r.inflight, sent |-> r.sent, cooldown |-> r.cooldown]
  /\ r.inflight \in Nat /\ (~r.known => r.inflight = 0)

Counted == DOMAIN groups = Groups /\ (\A g \in Groups : GroupShape(groups[g])) /\ InflightIsLeases

(* A stream is with the pool from its offer to its close, and with the service
   from its publication to its close. *)
Exposed == {"offered", "streaming", "limited"}
Published == {"streaming", "limited", "closed", "ended"}
Streams ==
  /\ poolStreams = {c \in Callers : Held(c) /\ Step(c) \in Exposed}
  /\ serviceStreams \subseteq Callers
  /\ \A c \in serviceStreams \cup toUnregister :
       Step(c) \in Published /\ (Held(c) \/ call[c].op = "finished")
  /\ \A c \in toClose : Held(c) \/ call[c].op = "finished"

(* What the shutdown has found covers what there still is. *)
Stopping ==
  /\ shutdown \in {"running", "stopped", "closing", "done"}
  /\ closed <=> shutdown \in {"closing", "done"}
  /\ toClose \subseteq Callers /\ toUnregister \subseteq Callers
  /\ ~closed => toClose = {}
  /\ closed => poolStreams \subseteq toClose
  /\ shutdown = "running" => /\ toUnregister = {}
                             /\ \A c \in Callers : Step(c) = "offered" => Held(c)
  /\ shutdown # "running" => serviceStreams \subseteq toUnregister
  /\ shutdown = "done" =>
       toClose = {} /\ toUnregister = {} /\ \A c \in Callers : ~Active(c)

IInv == Calls /\ Counted /\ Streams /\ Stopping

-----------------------------------------------------------------------------
LEMMA LeasesFinite == ASSUME NEW g PROVE IsFiniteSet(Leases(g)) /\ Cardinality(Leases(g)) \in Nat
<1>1. Leases(g) \subseteq Callers /\ IsFiniteSet(Callers)
  BY EgressPoolAssumption DEF Leases
<1>2. QED
  BY <1>1, FS_Subset, FS_CardinalityType

(* Waking the waiters changes nothing else. *)
LEMMA Waking ==
  ASSUME NEW calls, DOMAIN calls = Callers, \A c \in Callers : Shape(calls[c])
  PROVE  /\ DOMAIN Notified(calls) = Callers
         /\ \A c \in Callers :
              LET r == Notified(calls)[c] IN
              /\ Shape(r) /\ r.step = calls[c].step /\ r.op = calls[c].op
              /\ r.lease = calls[c].lease /\ r.group = calls[c].group
<1> SUFFICES ASSUME NEW c \in Callers
             PROVE  LET r == Notified(calls)[c] IN
                    /\ Shape(r) /\ r.step = calls[c].step /\ r.op = calls[c].op
                    /\ r.lease = calls[c].lease /\ r.group = calls[c].group
  BY DEF Notified
<1>1. Shape(calls[c])
  OBVIOUS
<1>2. CASE calls[c].step = "waiting"
  <2>1. Notified(calls)[c] = [calls[c] EXCEPT !.notified = TRUE]
    BY <1>2 DEF Notified
  <2>2. QED
    BY <1>1, <2>1 DEF Shape
<1>3. CASE calls[c].step # "waiting"
  <2>1. Notified(calls)[c] = calls[c]
    BY <1>3 DEF Notified
  <2>2. QED
    BY <1>1, <2>1
<1>4. QED
  BY <1>2, <1>3

(* A step of one call that leaves its lease, the groups and the streams alone. *)
Private(c) ==
  /\ DOMAIN call' = Callers /\ \A d \in Callers \ {c} : call'[d] = call[d]
  /\ Consistent(call'[c]) /\ call'[c].lease = call[c].lease /\ call'[c].group = call[c].group
  /\ Held(c) => (call'[c].step \in Exposed <=> Step(c) \in Exposed)
  /\ call'[c].step # Step(c) => Step(c) \notin Published
  /\ call[c].op = "finished" => call'[c].op = "finished"
  /\ call'[c].step = "offered" => Step(c) = "offered"
  /\ Active(c)' => Active(c) \/ shutdown = "running"
  /\ UNCHANGED <<groups, closed, poolStreams, serviceStreams, shutdown, toClose, toUnregister>>

LEMMA PrivateInv == ASSUME IInv, NEW c \in Callers, Private(c) PROVE IInv'
<1>1. Calls'
  BY DEF IInv, Calls, Private
<1>2. \A d \in Callers : call'[d].lease = call[d].lease /\ call'[d].group = call[d].group
  BY DEF Private
<1>3. Counted'
  <2>1. \A g \in Groups : Leases(g)' = Leases(g)
    BY <1>2 DEF Leases, Held
  <2>2. QED
    BY <2>1 DEF IInv, Counted, InflightIsLeases, Private
<1>4. Streams'
  <2>1. {d \in Callers : Held(d) /\ Step(d) \in Exposed}'
          = {d \in Callers : Held(d) /\ Step(d) \in Exposed}
    BY <1>2 DEF Private, Held, Step
  <2>2. \A d \in Callers : /\ Held(d)' = Held(d)
                           /\ call[d].op = "finished" => call'[d].op = "finished"
                           /\ Step(d) \in Published => call'[d].step \in Published
    BY <1>2 DEF Private, Held, Step
  <2>3. QED
    BY <2>1, <2>2 DEF IInv, Streams, Stopping, Private, Step
<1>5. Stopping'
  <2>1. \A d \in Callers : /\ Held(d)' = Held(d)
                           /\ Step(d)' = "offered" => Step(d) = "offered"
                           /\ Active(d)' => Active(d) \/ shutdown = "running"
    BY <1>2 DEF Private, Held, Step, Active
  <2>2. QED
    BY <2>1 DEF IInv, Stopping, Private
<1>6. QED
  BY <1>1, <1>3, <1>4, <1>5 DEF IInv

LEMMA PrivateSteps ==
  ASSUME IInv, NEW c \in Callers,
         \/ NotHandled(c) \/ Begin(c) \/ Operate(c) \/ AcquireFails(c) \/ WaitEnds(c) \/ Wake(c)
         \/ CheckContext(c) \/ GetClient(c) \/ MarkSent(c) \/ DoAnswers(c) \/ OfferFails(c)
         \/ Cancel(c)
  PROVE  Private(c)
<1>1. UNCHANGED <<groups, closed, poolStreams, serviceStreams, shutdown, toClose, toUnregister>>
  BY DEF NotHandled, Begin, Operate, AcquireFails, WaitEnds, Wake, CheckContext, GetClient,
     MarkSent, DoAnswers, OfferFails, Cancel, settings, pool, streams, stopping
<1>2. \E r : call' = [call EXCEPT ![c] = r]
  BY DEF NotHandled, Begin, Operate, AcquireFails, WaitEnds, Wake, CheckContext, GetClient,
     MarkSent, DoAnswers, OfferFails, Cancel
<1>3. DOMAIN call' = Callers /\ \A d \in Callers \ {c} : call'[d] = call[d]
  BY <1>2 DEF IInv, Calls
<1>4. Consistent(call[c]) /\ DOMAIN call = Callers
  BY DEF IInv, Calls
<1>5. /\ Consistent(call'[c]) /\ call'[c].lease = call[c].lease /\ call'[c].group = call[c].group
      /\ call[c].op = "finished" => call'[c].op = "finished"
      /\ call'[c].step = "offered" => Step(c) = "offered"
      /\ call'[c].step # Step(c) => Step(c) \notin Published
      /\ Held(c) => (call'[c].step \in Exposed <=> Step(c) \in Exposed)
      /\ Active(c)' => Active(c) \/ shutdown = "running"
  <2>1. CASE NotHandled(c)
    BY <1>4, <2>1 DEF NotHandled, Consistent, Shape, Steps, Step, Held, Active, Exposed, Published, Running
  <2>2. CASE Begin(c)
    BY <1>4, <2>2 DEF Begin, Consistent, Shape, Steps, Step, Held, Active, Exposed, Published, Running
  <2>3. CASE Operate(c)
    BY <1>4, <2>3 DEF Operate, Consistent, Shape, Steps, Step, Held, Active, Exposed, Published, Running
  <2>4. CASE AcquireFails(c) \/ WaitEnds(c)
    BY <1>4, <2>4 DEF AcquireFails, WaitEnds, Ended, Consistent, Shape, Steps, Step, Held, Active,
       Exposed, Published, Running
  <2>5. CASE Wake(c)
    BY <1>4, <2>5 DEF Wake, Consistent, Shape, Steps, Step, Held, Active, Exposed, Published, Running
  <2>6. CASE CheckContext(c) \/ GetClient(c)
    BY <1>4, <2>6 DEF CheckContext, GetClient, Consistent, Shape, Steps, Step, Held, Active,
       Exposed, Published, Running
  <2>7. CASE MarkSent(c) \/ DoAnswers(c)
    BY <1>4, <2>7 DEF MarkSent, DoAnswers, Consistent, Shape, Steps, Step, Held, Active,
       Exposed, Published, Running
  <2>8. CASE OfferFails(c)
    BY <1>4, <2>8 DEF OfferFails, Consistent, Shape, Steps, Step, Held, Active, Exposed, Published, Running
  <2>9. CASE Cancel(c)
    BY <1>4, <2>9 DEF Cancel, Consistent, Shape, Steps, Step, Held, Active, Exposed, Published, Running
  <2>10. QED
    BY <2>1, <2>2, <2>3, <2>4, <2>5, <2>6, <2>7, <2>8, <2>9
<1>6. QED
  BY <1>1, <1>3, <1>5 DEF Private

-----------------------------------------------------------------------------
(* Admission *)

(* Looking at a candidate creates its group and forgets old times. *)
LEMMA Looking ==
  ASSUME Counted, NEW list, NEW count
  PROVE  /\ DOMAIN Visited(list, count) = Groups
         /\ \A g \in Groups : /\ GroupShape(Visited(list, count)[g])
                              /\ Visited(list, count)[g].inflight = groups[g].inflight
<1> DEFINE seen == {list[Turn(list, m)] : m \in 0..count - 1}
<1>1. ASSUME NEW e, e.group \in Groups
      PROVE  GroupShape(GroupOf(e)) /\ GroupOf(e).inflight = groups[e.group].inflight
  <2>1. GroupShape(groups[e.group])
    BY <1>1 DEF Counted
  <2>2. CASE groups[e.group].known
    BY <2>1, <2>2 DEF GroupOf, GroupShape
  <2>3. CASE ~groups[e.group].known
    BY <2>1, <2>3 DEF GroupOf, GroupShape, NoGroup
  <2>4. QED
    BY <2>2, <2>3
<1>2. Visited(list, count) = [g \in Groups |->
        IF \E e \in seen : e.group = g THEN GroupOf(CHOOSE e \in seen : e.group = g) ELSE groups[g]]
  BY DEF Visited
<1> HIDE DEF seen
<1>3. ASSUME NEW g \in Groups
      PROVE  /\ GroupShape(Visited(list, count)[g])
             /\ Visited(list, count)[g].inflight = groups[g].inflight
  <2>1. CASE \E e \in seen : e.group = g
    <3> DEFINE e == CHOOSE x \in seen : x.group = g
    <3>1. e.group = g
      BY <2>1
    <3>2. Visited(list, count)[g] = GroupOf(e)
      BY <1>2, <2>1
    <3> HIDE DEF e
    <3>3. QED
      BY <1>1, <3>1, <3>2
  <2>2. CASE ~\E e \in seen : e.group = g
    BY <1>2, <2>2 DEF Counted
  <2>3. QED
    BY <2>1, <2>2
<1>4. QED
  BY <1>2, <1>3

LEMMA KnownOnceSeen ==
  ASSUME Counted, NEW list, NEW count, NEW g \in Groups,
         \E m \in 0..count - 1 : list[Turn(list, m)].group = g
  PROVE  Visited(list, count)[g].known
<1> DEFINE seen == {list[Turn(list, m)] : m \in 0..count - 1}
           e == CHOOSE x \in seen : x.group = g
<1>1. \E x \in seen : x.group = g
  OBVIOUS
<1>2. Visited(list, count)[g] = GroupOf(e)
  BY <1>1 DEF Visited
<1>3. e.group = g
  BY <1>1
<1> HIDE DEF e
<1>4. CASE groups[g].known
  BY <1>2, <1>3, <1>4 DEF GroupOf, Counted, GroupShape
<1>5. CASE ~groups[g].known
  BY <1>2, <1>3, <1>5 DEF GroupOf, NoGroup
<1>6. QED
  BY <1>4, <1>5

LEMMA Reserving ==
  ASSUME NEW r, GroupShape(r), r.known
  PROVE  GroupShape(Reserved(r)) /\ Reserved(r).inflight = r.inflight + 1
<1>1. PICK m, times, q : /\ m = r.inflight + 1 /\ times = Append(r.sent, now)
                         /\ q = [r EXCEPT !.inflight = m, !.sent = times]
  OBVIOUS
<1>2. Reserved(r) = q
  BY <1>1 DEF Reserved
<1>3. m \in Nat
  BY <1>1 DEF GroupShape
<1>4. /\ q = [known |-> q.known, rpm |-> q.rpm, maxInflight |-> q.maxInflight,
              inflight |-> q.inflight, sent |-> q.sent, cooldown |-> q.cooldown]
      /\ q.inflight = m
  BY <1>1 DEF GroupShape
<1>5. q.known = r.known
  BY <1>1 DEF GroupShape
<1>6. QED
  BY <1>1, <1>2, <1>3, <1>4, <1>5 DEF GroupShape

LEMMA Returning ==
  ASSUME NEW r, NEW c, GroupShape(r), r.inflight # 0
  PROVE  GroupShape(Returned(r, c)) /\ Returned(r, c).inflight = r.inflight - 1
<1>1. PICK m, times, q :
        /\ m = r.inflight - 1
        /\ times = IF call[c].sent THEN r.sent ELSE Without(r.sent, call[c].reserved)
        /\ q = [r EXCEPT !.inflight = m, !.sent = times]
  OBVIOUS
<1>2. Returned(r, c) = q
  BY <1>1 DEF Returned
<1>3. m \in Nat
  BY <1>1 DEF GroupShape
<1>4. /\ q = [known |-> q.known, rpm |-> q.rpm, maxInflight |-> q.maxInflight,
              inflight |-> q.inflight, sent |-> q.sent, cooldown |-> q.cooldown]
      /\ q.inflight = m
  BY <1>1 DEF GroupShape
<1>5. q.known = r.known
  BY <1>1 DEF GroupShape
<1>6. r.known
  BY DEF GroupShape
<1>7. QED
  BY <1>1, <1>2, <1>3, <1>4, <1>5, <1>6 DEF GroupShape

(* Groups that have been looked at, nothing else. *)
LEMMA CountedLooking ==
  ASSUME Counted, NEW list, NEW count, groups' = Visited(list, count),
         \A d \in Callers : call'[d].lease = call[d].lease /\ call'[d].group = call[d].group
  PROVE  Counted'
<1>1. \A g \in Groups : Leases(g)' = Leases(g)
  BY DEF Leases, Held
<1>2. QED
  BY <1>1, Looking DEF Counted, InflightIsLeases

LEMMA WaitInv == ASSUME IInv, NEW c \in Callers, Sleep(c) \/ RefuseAtOnce(c) PROVE IInv'
<1>1. UNCHANGED <<closed, poolStreams, serviceStreams, shutdown, toClose, toUnregister>>
  BY DEF Sleep, RefuseAtOnce, streams, stopping
<1>2. Consistent(call[c]) /\ DOMAIN call = Callers /\ Step(c) = "acquiring"
  BY DEF IInv, Calls, Sleep, RefuseAtOnce, Blocked, Acquiring
<1>3. DOMAIN call' = Callers /\ \A d \in Callers \ {c} : call'[d] = call[d]
  BY <1>2 DEF Sleep, RefuseAtOnce
<1>4. /\ Consistent(call'[c]) /\ call'[c].lease = call[c].lease /\ call'[c].group = call[c].group
      /\ call'[c].step \in {"waiting", "ended"} /\ call[c].op \in Running /\ ~Held(c)
  <2>1. CASE Sleep(c)
    BY <1>2, <2>1 DEF Sleep, Consistent, Shape, Steps, Step, Held, Running
  <2>2. CASE RefuseAtOnce(c)
    BY <1>2, <2>2 DEF RefuseAtOnce, Ended, Consistent, Shape, Steps, Step, Held, Running
  <2>3. QED
    BY <2>1, <2>2
<1>5. \A d \in Callers : call'[d].lease = call[d].lease /\ call'[d].group = call[d].group
  BY <1>3, <1>4
<1>6. Calls'
  BY <1>3, <1>4 DEF IInv, Calls
<1>7. Counted'
  BY <1>5, CountedLooking DEF IInv, Sleep, RefuseAtOnce
<1>8. \A d \in Callers : Held(d)' = Held(d) /\ (d # c => Step(d)' = Step(d) /\ call'[d].op = call[d].op)
  BY <1>3, <1>5 DEF Held, Step
<1>9. Streams'
  <2>1. {d \in Callers : Held(d) /\ Step(d) \in Exposed}'
          = {d \in Callers : Held(d) /\ Step(d) \in Exposed}
    BY <1>4, <1>8 DEF Step
  <2>2. c \notin serviceStreams \cup toUnregister \cup toClose
    BY <1>2, <1>4 DEF IInv, Streams, Published, Running, Step
  <2>3. QED
    BY <1>1, <1>8, <2>1, <2>2 DEF IInv, Streams, Stopping
<1>10. Stopping'
  <2>1. \A d \in Callers : /\ Step(d)' = "offered" => Step(d) = "offered"
                           /\ Active(d)' => Active(d)
    BY <1>2, <1>4, <1>8 DEF Step, Active
  <2>2. QED
    BY <1>1, <1>8, <2>1 DEF IInv, Stopping
<1>11. QED
  BY <1>6, <1>7, <1>9, <1>10 DEF IInv

LEMMA AdmitInv == ASSUME IInv, NEW c \in Callers, Admit(c) PROVE IInv'
<1>1. PICK n \in 0..Len(Candidates(c)) - 1 :
        LET list == Candidates(c)
            e == list[Turn(list, n)]
        IN
        /\ groups' = [Visited(list, n + 1) EXCEPT ![e.group] = Reserved(@)]
        /\ call' = [call EXCEPT ![c] =
             [@ EXCEPT !.step = "leased", !.lease = "held", !.group = e.group,
                       !.reserved = now]]
  BY DEF Admit
<1>e. PICK list, h, before :
        list = Candidates(c) /\ h = list[Turn(list, n)].group /\ before = Visited(list, n + 1)
  OBVIOUS
<1>2. UNCHANGED <<closed, poolStreams, serviceStreams, shutdown, toClose, toUnregister>>
  BY DEF Admit, streams, stopping
<1>3. Consistent(call[c]) /\ DOMAIN call = Callers /\ Step(c) = "acquiring" /\ ~closed
  BY DEF IInv, Calls, Admit, Acquiring
<1>4. /\ groups' = [before EXCEPT ![h] = Reserved(before[h])]
      /\ call' = [call EXCEPT ![c] = [call[c] EXCEPT !.step = "leased", !.lease = "held",
                                                     !.group = h, !.reserved = now]]
  BY <1>1, <1>e
<1>5. DOMAIN before = Groups /\ \A g \in Groups : GroupShape(before[g])
                                                  /\ before[g].inflight = groups[g].inflight
  BY <1>e, Looking DEF IInv
<1>k. h \in Groups => before[h].known
  <2>1. \E m \in 0..(n + 1) - 1 : list[Turn(list, m)].group = h
    BY <1>e
  <2>2. QED
    BY <1>e, <2>1, KnownOnceSeen DEF IInv
<1>6. DOMAIN call' = Callers /\ \A d \in Callers \ {c} : call'[d] = call[d]
  BY <1>3, <1>4
<1>7. Consistent(call'[c]) /\ call'[c].lease = "held" /\ call'[c].group = h
      /\ call'[c].step = "leased" /\ ~Held(c) /\ call[c].op \in Running
  BY <1>3, <1>4 DEF Consistent, Shape, Steps, Step, Held, Running
<1>8. Calls'
  BY <1>6, <1>7 DEF IInv, Calls
<1>9. Counted'
  <2>1. DOMAIN groups' = Groups
    BY <1>4, <1>5
  <2>2. ASSUME NEW g \in Groups, g # h PROVE GroupShape(groups'[g]) /\ groups'[g].inflight = Cardinality(Leases(g)')
    <3>1. groups'[g] = before[g]
      BY <1>4, <1>5, <2>2
    <3>2. Leases(g)' = Leases(g)
      BY <1>6, <1>7, <2>2 DEF Leases, Held
    <3>3. QED
      BY <1>5, <3>1, <3>2 DEF IInv, Counted, InflightIsLeases
  <2>3. ASSUME h \in Groups PROVE GroupShape(groups'[h]) /\ groups'[h].inflight = Cardinality(Leases(h)')
    <3>1. groups'[h] = Reserved(before[h])
      BY <1>4, <1>5, <2>3
    <3>2. GroupShape(groups'[h]) /\ groups'[h].inflight = groups[h].inflight + 1
      BY <1>5, <1>k, <2>3, <3>1, Reserving
    <3>3. Leases(h)' = Leases(h) \cup {c} /\ c \notin Leases(h)
      BY <1>6, <1>7 DEF Leases, Held
    <3>4. Cardinality(Leases(h)') = Cardinality(Leases(h)) + 1
      BY <3>3, LeasesFinite, FS_AddElement
    <3>5. QED
      BY <2>3, <3>2, <3>4 DEF IInv, Counted, InflightIsLeases
  <2>4. QED
    BY <2>1, <2>2, <2>3 DEF Counted, InflightIsLeases
<1>10. \A d \in Callers : d # c => Step(d)' = Step(d) /\ call'[d].op = call[d].op /\ Held(d)' = Held(d)
  BY <1>6 DEF Held, Step
<1>11. Streams'
  <2>1. {d \in Callers : Held(d) /\ Step(d) \in Exposed}'
          = {d \in Callers : Held(d) /\ Step(d) \in Exposed}
    BY <1>3, <1>7, <1>10 DEF Step, Exposed
  <2>2. c \notin serviceStreams \cup toUnregister \cup toClose
    BY <1>3, <1>7 DEF IInv, Streams, Published, Running, Step
  <2>3. QED
    BY <1>2, <1>10, <2>1, <2>2 DEF IInv, Streams, Stopping
<1>12. Stopping'
  <2>1. \A d \in Callers : Step(d)' = "offered" => d # c
    BY <1>7 DEF Step
  <2>2. shutdown # "done"
    BY <1>3 DEF IInv, Stopping
  <2>3. QED
    BY <1>2, <1>10, <2>1, <2>2 DEF IInv, Stopping
<1>13. QED
  BY <1>8, <1>9, <1>11, <1>12 DEF IInv

-----------------------------------------------------------------------------
(* The end of a lease and of a stream *)

LEMMA Releasing ==
  ASSUME IInv, NEW c \in Callers, Held(c), Release(c)
  PROVE  /\ Calls' /\ Counted'
         /\ \A d \in Callers \ {c} : /\ Step(d)' = Step(d) /\ call'[d].op = call[d].op
                                     /\ Held(d)' = Held(d)
         /\ Step(c)' = (CASE Step(c) = "streaming" -> "closed"
                           [] Step(c) = "offered" -> "offered" [] OTHER -> "ended")
         /\ call'[c].op = "finished" /\ ~Held(c)'
<1>1. DOMAIN call = Callers /\ \A d \in Callers : Consistent(call[d])
  BY DEF IInv, Calls
<1>2. PICK s, next :
        /\ next = (CASE call[c].step = "streaming" -> "closed"
                     [] call[c].step = "offered" -> "offered" [] OTHER -> "ended")
        /\ s = [call[c] EXCEPT !.step = next, !.op = "finished", !.lease = "released"]
  OBVIOUS
<1>a. s = AfterRelease(call[c])
  BY <1>2 DEF AfterRelease
<1>3. /\ Shape(s) /\ s.op = "finished" /\ s.lease = "released" /\ s.group = call[c].group
      /\ s.step = (CASE Step(c) = "streaming" -> "closed"
                      [] Step(c) = "offered" -> "offered" [] OTHER -> "ended")
  <2>1. Shape(call[c])
    BY <1>1 DEF Consistent
  <2>2. Shape(s) /\ s.op = "finished" /\ s.lease = "released" /\ s.group = call[c].group
        /\ s.step = next
    <3>1. s = [call[c] EXCEPT !.step = next, !.op = "finished", !.lease = "released"]
      BY <1>2
    <3>2. QED
      BY <2>1, <3>1 DEF Shape
  <2>3. QED
    BY <1>2, <2>2 DEF Step
<1>4. PICK calls : calls = [call EXCEPT ![c] = s]
  OBVIOUS
<1>5. DOMAIN calls = Callers /\ \A d \in Callers : /\ Shape(calls[d])
                                                   /\ calls[d] = IF d = c THEN s ELSE call[d]
  BY <1>1, <1>3, <1>4 DEF Consistent
<1>6. call' = Notified(calls)
  BY <1>a, <1>4 DEF Release
<1>7. /\ DOMAIN call' = Callers
      /\ \A d \in Callers : /\ Shape(call'[d]) /\ call'[d].step = calls[d].step
                            /\ call'[d].op = calls[d].op /\ call'[d].lease = calls[d].lease
                            /\ call'[d].group = calls[d].group
  BY <1>5, <1>6, Waking
<1>8. Calls'
  BY <1>1, <1>3, <1>5, <1>7 DEF Calls, Consistent, Steps, Running
<1>9. Counted'
  <2>1. PICK h : h = call[c].group
    OBVIOUS
  <2>2. groups' = [groups EXCEPT ![h] = Returned(groups[h], c)] /\ DOMAIN groups = Groups
    BY <2>1 DEF Release, Released, IInv, Counted
  <2>3. ASSUME NEW g \in Groups, g # h
        PROVE  GroupShape(groups'[g]) /\ groups'[g].inflight = Cardinality(Leases(g)')
    <3>1. Leases(g)' = Leases(g)
      BY <1>3, <1>5, <1>7, <2>1, <2>3 DEF Leases, Held
    <3>2. QED
      BY <2>2, <2>3, <3>1 DEF IInv, Counted, InflightIsLeases
  <2>4. ASSUME h \in Groups
        PROVE  GroupShape(groups'[h]) /\ groups'[h].inflight = Cardinality(Leases(h)')
    <3>1. Leases(h)' = Leases(h) \ {c} /\ c \in Leases(h)
      BY <1>3, <1>5, <1>7, <2>1 DEF Leases, Held
    <3>2. Cardinality(Leases(h)') = Cardinality(Leases(h)) - 1
      BY <3>1, LeasesFinite, FS_RemoveElement
    <3>3. Leases(h)' \subseteq Callers /\ IsFiniteSet(Callers)
      BY EgressPoolAssumption DEF Leases
    <3>4. Cardinality(Leases(h)') \in Nat
      BY <3>3, FS_Subset, FS_CardinalityType
    <3>5. GroupShape(groups[h]) /\ groups[h].inflight = Cardinality(Leases(h))
      BY <2>4 DEF IInv, Counted, InflightIsLeases
    <3>6. groups[h].inflight # 0 /\ groups'[h] = Returned(groups[h], c)
      BY <2>2, <2>4, <3>2, <3>4, <3>5
    <3>7. QED
      BY <3>2, <3>5, <3>6, Returning
  <2>5. QED
    BY <2>2, <2>3, <2>4 DEF Counted, InflightIsLeases
<1>10. QED
  BY <1>3, <1>5, <1>7, <1>8, <1>9 DEF Step, Held

Less(s, t, c) == t = s \/ t = s \ {c}

(* A stream is closed, or found closed, and forgotten by whoever knew of it. *)
LEMMA CloseInv ==
  ASSUME IInv, NEW c \in Callers, Held(c) \/ call[c].op = "finished",
         Step(c) = "offered" /\ Held(c) => shutdown # "running",
         \/ ~Held(c) /\ UNCHANGED <<groups, call>>
         \/ Held(c) /\ Release(c),
         poolStreams' = poolStreams \ {c}, UNCHANGED <<closed, shutdown>>,
         Less(serviceStreams, serviceStreams', c), Less(toClose, toClose', c),
         Less(toUnregister, toUnregister', c),
         toUnregister' = toUnregister \/ serviceStreams' = serviceStreams \ {c}
  PROVE  IInv'
<1>1. /\ Calls' /\ Counted'
      /\ \A d \in Callers \ {c} : /\ Step(d)' = Step(d) /\ call'[d].op = call[d].op
                                  /\ Held(d)' = Held(d)
      /\ call'[c].op = "finished" /\ ~Held(c)'
      /\ Step(c)' = "offered" => Step(c) = "offered"
      /\ Step(c) \in Published => Step(c)' \in Published
      /\ Active(c)' => Active(c)
  <2>1. CASE ~Held(c)
    <3>1. call' = call /\ groups' = groups
      BY <2>1
    <3>2. \A g \in Groups : Leases(g)' = Leases(g)
      BY <3>1 DEF Leases, Held
    <3>3. QED
      BY <2>1, <3>1, <3>2 DEF IInv, Calls, Counted, InflightIsLeases, Held, Step, Active
  <2>2. CASE Held(c)
    <3>1. Release(c)
      BY <2>2
    <3>2. QED
      BY <2>2, <3>1, Releasing DEF Active, Published
  <2>3. QED
    BY <2>1, <2>2
<1>a. /\ serviceStreams' \subseteq serviceStreams /\ toUnregister' \subseteq toUnregister
      /\ toClose' \subseteq toClose /\ toClose \ {c} \subseteq toClose'
      /\ serviceStreams \subseteq toUnregister => serviceStreams' \subseteq toUnregister'
  BY DEF Less
<1>2. Streams'
  <2>1. poolStreams' = {d \in Callers : Held(d) /\ Step(d) \in Exposed}'
    BY <1>1 DEF IInv, Streams
  <2>2. serviceStreams' \subseteq Callers
    BY <1>a DEF IInv, Streams
  <2>3. ASSUME NEW d \in serviceStreams' \cup toUnregister'
        PROVE  Step(d)' \in Published /\ (Held(d)' \/ call'[d].op = "finished")
    <3>1. /\ Step(d) \in Published /\ (Held(d) \/ call[d].op = "finished")
          /\ d \in Callers
      BY <1>a DEF IInv, Streams, Stopping
    <3>2. QED
      BY <1>1, <3>1
  <2>4. ASSUME NEW d \in toClose' PROVE Held(d)' \/ call'[d].op = "finished"
    <3>1. d \in Callers /\ (Held(d) \/ call[d].op = "finished")
      BY <1>a DEF IInv, Streams, Stopping
    <3>2. QED
      BY <1>1, <3>1
  <2>5. QED
    BY <2>1, <2>2, <2>3, <2>4 DEF Streams
<1>3. Stopping'
  <2>1. \A d \in Callers : Active(d)' => Active(d)
    BY <1>1 DEF Active
  <2>2. ~closed => toClose' = {}
    BY <1>a DEF IInv, Stopping
  <2>3. closed => poolStreams' \subseteq toClose'
    BY <1>a DEF IInv, Stopping
  <2>4. shutdown = "running" => toUnregister' = {} /\ \A d \in Callers : Step(d)' = "offered" => Held(d)'
    BY <1>1, <1>a DEF IInv, Stopping
  <2>5. shutdown # "running" => serviceStreams' \subseteq toUnregister'
    BY <1>a DEF IInv, Stopping
  <2>6. shutdown = "done" => toClose' = {} /\ toUnregister' = {} /\ \A d \in Callers : ~Active(d)'
    BY <1>a, <2>1 DEF IInv, Stopping
  <2>7. toClose' \subseteq Callers /\ toUnregister' \subseteq Callers
    BY <1>a DEF IInv, Stopping
  <2>8. QED
    BY <2>2, <2>3, <2>4, <2>5, <2>6, <2>7 DEF IInv, Stopping
<1>4. QED
  BY <1>1, <1>2, <1>3 DEF IInv

LEMMA HeldRuns == ASSUME IInv, NEW c \in Callers
                  PROVE  /\ Held(c) => call[c].op \in Running
                         /\ call[c].op = "finished" => ~Held(c)
                         /\ call[c].op \in Running /\ Step(c) \notin {"acquiring", "waiting"} => Held(c)
BY DEF IInv, Calls, Consistent, Steps, Held, Step, Running

LEMMA ClosingSteps ==
  ASSUME IInv, NEW c \in Callers,
         \/ Abandon(c) \/ DoFails(c) \/ DiscardAnswer(c) \/ DiscardOffer(c)
         \/ ReaderCloses(c) \/ ContextCloses(c) \/ PoolCloses(c) \/ ShutdownCloses(c)
  PROVE  IInv'
<1>1. CASE Abandon(c) \/ DoFails(c)
  <2>1. Step(c) \in {"leased", "checked", "sending"} /\ Release(c)
        /\ UNCHANGED <<closed, poolStreams, serviceStreams, shutdown, toClose, toUnregister>>
    BY <1>1 DEF Abandon, DoFails, streams, stopping
  <2>2. Held(c) /\ c \notin poolStreams
    BY <2>1 DEF IInv, Calls, Consistent, Streams, Held, Step, Exposed
  <2>3. QED
    BY <2>1, <2>2, CloseInv DEF Less
<1>2. CASE DiscardAnswer(c) \/ DiscardOffer(c)
  <2>1. /\ Step(c) \in {"answered", "offered"} /\ (Step(c) = "offered" => shutdown # "running")
        /\ CloseLocal(c) /\ (Step(c) = "offered" => call[c].op # "finished")
        /\ UNCHANGED <<closed, serviceStreams, shutdown, toClose, toUnregister>>
    BY <1>2 DEF DiscardAnswer, DiscardOffer, stopping
  <2>2. Held(c) /\ call[c].op # "finished"
    BY <2>1 DEF IInv, Calls, Consistent, Held, Step, Running
  <2>3. QED
    BY <2>1, <2>2, CloseInv DEF Less, CloseLocal
<1>3. CASE ReaderCloses(c) \/ ContextCloses(c) \/ PoolCloses(c) \/ ShutdownCloses(c)
  <2>1. /\ CloseLocal(c) /\ UNCHANGED <<closed, shutdown>>
        /\ Less(serviceStreams, serviceStreams', c) /\ Less(toClose, toClose', c)
        /\ Less(toUnregister, toUnregister', c)
        /\ toUnregister' = toUnregister \/ serviceStreams' = serviceStreams \ {c}
    BY <1>3 DEF ReaderCloses, ContextCloses, PoolCloses, ShutdownCloses, stopping, Less
  <2>2. Held(c) \/ call[c].op = "finished"
    BY <1>3 DEF ReaderCloses, ContextCloses, PoolCloses, ShutdownCloses, IInv, Calls, Consistent,
       Streams, Held, Step
  <2>3. Step(c) = "offered" => shutdown # "running"
    BY <1>3 DEF ReaderCloses, ContextCloses, PoolCloses, ShutdownCloses, IInv, Streams, Stopping,
       Published
  <2>4. CASE call[c].op = "finished"
    <3>1. ~Held(c) /\ c \notin poolStreams
      BY <2>4, HeldRuns DEF IInv, Streams
    <3>2. UNCHANGED <<groups, call, poolStreams>>
      BY <2>1, <2>4 DEF CloseLocal
    <3>3. QED
      BY <2>1, <2>2, <2>3, <3>1, <3>2, CloseInv
  <2>5. CASE call[c].op # "finished"
    <3>1. Release(c) /\ poolStreams' = poolStreams \ {c}
      BY <2>1, <2>5 DEF CloseLocal
    <3>2. QED
      BY <2>1, <2>2, <2>3, <2>5, <3>1, CloseInv
  <2>6. QED
    BY <2>4, <2>5
<1>4. QED
  BY <1>1, <1>2, <1>3

-----------------------------------------------------------------------------
(* Offering, publishing and classifying a stream *)

LEMMA OfferInv == ASSUME IInv, NEW c \in Callers, Offer(c) PROVE IInv'
<1>1. /\ UNCHANGED <<groups, closed, serviceStreams, shutdown, toClose, toUnregister>>
      /\ poolStreams' = poolStreams \cup {c} /\ ~closed /\ Step(c) = "answered"
      /\ call' = [call EXCEPT ![c] = [call[c] EXCEPT !.step = "offered"]]
  BY DEF Offer, pool, stopping
<1>2. DOMAIN call = Callers /\ Consistent(call[c])
  BY DEF IInv, Calls
<1>3. /\ DOMAIN call' = Callers /\ \A d \in Callers \ {c} : call'[d] = call[d]
      /\ Consistent(call'[c]) /\ call'[c].step = "offered" /\ call'[c].lease = "held"
      /\ call[c].lease = "held" /\ call'[c].group = call[c].group
      /\ call[c].op \in Running
  BY <1>1, <1>2 DEF Consistent, Shape, Steps, Step, Running
<1>4. Calls'
  BY <1>3 DEF IInv, Calls
<1>5. Counted'
  <2>1. \A g \in Groups : Leases(g)' = Leases(g)
    BY <1>3 DEF Leases, Held
  <2>2. QED
    BY <1>1, <2>1 DEF IInv, Counted, InflightIsLeases
<1>6. \A d \in Callers : Held(d)' = Held(d) /\ (d # c => Step(d)' = Step(d) /\ call'[d].op = call[d].op)
  BY <1>3 DEF Held, Step
<1>7. Streams'
  <2>1. c \notin serviceStreams \cup toUnregister /\ Step(c)' = "offered" /\ Held(c)
    BY <1>1, <1>3 DEF IInv, Streams, Published, Step, Held
  <2>2. QED
    BY <1>1, <1>6, <2>1 DEF IInv, Streams, Stopping, Exposed
<1>8. Stopping'
  <2>1. Held(c)
    BY <1>3 DEF Held
  <2>2. QED
    BY <1>1, <1>6, <2>1 DEF IInv, Stopping
<1>9. QED
  BY <1>4, <1>5, <1>7, <1>8 DEF IInv

LEMMA PublishInv == ASSUME IInv, NEW c \in Callers, Publish(c) PROVE IInv'
<1>1. /\ UNCHANGED <<groups, closed, poolStreams, shutdown, toClose, toUnregister>>
      /\ serviceStreams' = serviceStreams \cup {c} /\ shutdown = "running" /\ Step(c) = "offered"
      /\ call' = [call EXCEPT ![c] = [call[c] EXCEPT !.step = "streaming"]]
  BY DEF Publish, pool, stopping
<1>2. DOMAIN call = Callers /\ Consistent(call[c]) /\ Held(c)
  BY <1>1 DEF IInv, Calls, Stopping
<1>3. /\ DOMAIN call' = Callers /\ \A d \in Callers \ {c} : call'[d] = call[d]
      /\ Consistent(call'[c]) /\ call'[c].step = "streaming" /\ call'[c].lease = "held"
      /\ call[c].lease = "held" /\ call'[c].group = call[c].group
  BY <1>1, <1>2 DEF Consistent, Shape, Steps, Step, Running, Held
<1>4. Calls'
  BY <1>3 DEF IInv, Calls
<1>5. Counted'
  <2>1. \A g \in Groups : Leases(g)' = Leases(g)
    BY <1>3 DEF Leases, Held
  <2>2. QED
    BY <1>1, <2>1 DEF IInv, Counted, InflightIsLeases
<1>6. \A d \in Callers : Held(d)' = Held(d) /\ (d # c => Step(d)' = Step(d) /\ call'[d].op = call[d].op)
  BY <1>3 DEF Held, Step
<1>7. Step(c)' = "streaming"
  BY <1>3 DEF Step
<1>8. Streams'
  BY <1>1, <1>2, <1>6, <1>7 DEF IInv, Streams, Stopping, Exposed, Published
<1>9. Stopping'
  BY <1>1, <1>6, <1>7 DEF IInv, Stopping
<1>10. QED
  BY <1>4, <1>5, <1>8, <1>9 DEF IInv

LEMMA CoolDownInv ==
  ASSUME IInv, NEW c \in Callers, NEW d \in Cooldowns, CoolDown(c, d) PROVE IInv'
<1>1. /\ UNCHANGED <<closed, poolStreams, serviceStreams, shutdown, toClose, toUnregister>>
      /\ Step(c) \in {"streaming", "closed"}
  BY DEF CoolDown, streams, stopping
<1>2. DOMAIN call = Callers /\ \A e \in Callers : Consistent(call[e])
  BY DEF IInv, Calls
<1>3. PICK next, s, calls :
        /\ next = (IF Step(c) = "streaming" THEN "limited" ELSE "ended")
        /\ s = [call[c] EXCEPT !.step = next] /\ calls = [call EXCEPT ![c] = s]
  OBVIOUS
<1>4. call' = Notified(calls)
  BY <1>3 DEF CoolDown, Step
<1>5. Shape(s) /\ s.step = next /\ s.op = call[c].op /\ s.lease = call[c].lease
      /\ s.group = call[c].group
  BY <1>2, <1>3 DEF Consistent, Shape
<1>6. DOMAIN calls = Callers /\ \A e \in Callers : /\ Shape(calls[e])
                                                   /\ calls[e] = IF e = c THEN s ELSE call[e]
  BY <1>2, <1>3, <1>5 DEF Consistent
<1>7. /\ DOMAIN call' = Callers
      /\ \A e \in Callers : /\ Shape(call'[e]) /\ call'[e].step = calls[e].step
                            /\ call'[e].op = calls[e].op /\ call'[e].lease = calls[e].lease
                            /\ call'[e].group = calls[e].group
  BY <1>4, <1>6, Waking
<1>8. Calls'
  BY <1>1, <1>2, <1>3, <1>5, <1>6, <1>7 DEF Calls, Consistent, Steps, Running, Step
<1>9. Counted'
  <2>1. \A g \in Groups : Leases(g)' = Leases(g)
    BY <1>5, <1>6, <1>7 DEF Leases, Held
  <2>2. PICK h, t, q : h = call[c].group /\ t = Later(groups[h].cooldown, now + d)
                       /\ q = [groups[h] EXCEPT !.cooldown = t]
    OBVIOUS
  <2>3. groups' = [groups EXCEPT ![h] = q] /\ DOMAIN groups = Groups
    BY <2>2 DEF CoolDown, IInv, Counted
  <2>4. h \in Groups => GroupShape(q) /\ q.inflight = groups[h].inflight
    <3>1. ASSUME h \in Groups
          PROVE  /\ q = [known |-> q.known, rpm |-> q.rpm, maxInflight |-> q.maxInflight,
                          inflight |-> q.inflight, sent |-> q.sent, cooldown |-> q.cooldown]
                 /\ q.inflight = groups[h].inflight
      BY <2>2, <3>1 DEF IInv, Counted, GroupShape
    <3>2. ASSUME h \in Groups PROVE q.known = groups[h].known
      BY <2>2, <3>2 DEF IInv, Counted, GroupShape
    <3>3. QED
      BY <3>1, <3>2 DEF IInv, Counted, GroupShape
  <2>5. QED
    BY <2>1, <2>3, <2>4 DEF IInv, Counted, InflightIsLeases
<1>10. /\ \A e \in Callers : Held(e)' = Held(e) /\ call'[e].op = call[e].op
                              /\ (e # c => Step(e)' = Step(e))
       /\ Step(c)' = next
  BY <1>5, <1>6, <1>7 DEF Held, Step
<1>11. Streams'
  <2>1. Held(c) => Step(c) = "streaming"
    BY <1>1, <1>2 DEF Consistent, Held, Step
  <2>2. QED
    BY <1>1, <1>3, <1>10, <2>1 DEF IInv, Streams, Stopping, Exposed, Published
<1>12. Stopping'
  <2>1. Active(c)' = Active(c) /\ Step(c)' # "offered"
    BY <1>1, <1>3, <1>10 DEF Active
  <2>2. QED
    BY <1>1, <1>10, <2>1 DEF IInv, Stopping, Active
<1>13. QED
  BY <1>8, <1>9, <1>11, <1>12 DEF IInv

-----------------------------------------------------------------------------
(* The operator, the clock and the shutdown *)

(* Every call is as it was, but for wakeups and cancelled contexts. *)
LEMMA SimilarCalls ==
  ASSUME IInv, DOMAIN call' = Callers,
         \A e \in Callers : /\ Shape(call'[e]) /\ call'[e].step = call[e].step
                            /\ call'[e].lease = call[e].lease /\ call'[e].group = call[e].group
                            /\ call'[e].op = call[e].op \/ {call[e].op, call'[e].op} \subseteq Running
  PROVE  /\ Calls' /\ \A g \in Groups : Leases(g)' = Leases(g)
         /\ \A e \in Callers : /\ Step(e)' = Step(e) /\ Held(e)' = Held(e)
                               /\ call[e].op = "finished" => call'[e].op = "finished"
<1>1. Calls'
  BY DEF IInv, Calls, Consistent, Running
<1>2. QED
  BY <1>1 DEF Leases, Held, Step, Running

(* Where every call is at the same step and no set of streams changes. *)
LEMMA SameStreams ==
  ASSUME IInv, UNCHANGED <<closed, poolStreams, serviceStreams, shutdown, toClose, toUnregister>>,
         \A e \in Callers : /\ Step(e)' = Step(e) /\ Held(e)' = Held(e)
                            /\ call[e].op = "finished" => call'[e].op = "finished"
  PROVE  Streams' /\ Stopping'
<1>1. {d \in Callers : Held(d) /\ Step(d) \in Exposed}'
        = {d \in Callers : Held(d) /\ Step(d) \in Exposed}
  OBVIOUS
<1>2. toClose \subseteq Callers /\ toUnregister \subseteq Callers /\ serviceStreams \subseteq Callers
  BY DEF IInv, Streams, Stopping
<1>3. Streams'
  BY <1>1, <1>2 DEF IInv, Streams
<1>4. \A e \in Callers : Active(e)' = Active(e)
  BY DEF Active
<1>5. Stopping'
  BY <1>4 DEF IInv, Stopping
<1>6. QED
  BY <1>3, <1>5

LEMMA ApplyInv == ASSUME IInv, NEW cfg, Apply(cfg) PROVE IInv'
<1>1. UNCHANGED <<closed, poolStreams, serviceStreams, shutdown, toClose, toUnregister>>
      /\ call' = Notified(call)
  BY DEF Apply, streams, stopping
<1>2. DOMAIN call = Callers /\ \A e \in Callers : Shape(call[e])
  BY DEF IInv, Calls, Consistent
<1>3. /\ Calls' /\ \A g \in Groups : Leases(g)' = Leases(g)
      /\ \A e \in Callers : /\ Step(e)' = Step(e) /\ Held(e)' = Held(e)
                            /\ call[e].op = "finished" => call'[e].op = "finished"
  BY <1>1, <1>2, Waking, SimilarCalls
<1>4. Counted'
  <2>1. ASSUME NEW g \in Groups
        PROVE  GroupShape(groups'[g]) /\ groups'[g].inflight = groups[g].inflight
    <3>1. GroupShape(groups[g])
      BY DEF IInv, Counted
    <3>2. PICK q : q = [groups[g] EXCEPT !.rpm = LimitsOf(cfg, g).rpm,
                                         !.maxInflight = LimitsOf(cfg, g).maxInflight]
      OBVIOUS
    <3>3. groups'[g] \in {q, groups[g]}
      BY <3>2 DEF Apply
    <3>4. /\ q = [known |-> q.known, rpm |-> q.rpm, maxInflight |-> q.maxInflight,
                   inflight |-> q.inflight, sent |-> q.sent, cooldown |-> q.cooldown]
          /\ q.inflight = groups[g].inflight
      BY <3>1, <3>2 DEF GroupShape
    <3>5. q.known = groups[g].known
      BY <3>1, <3>2 DEF GroupShape
    <3>6. GroupShape(q)
      BY <3>1, <3>4, <3>5 DEF GroupShape
    <3>7. QED
      BY <3>1, <3>3, <3>4, <3>6
  <2>2. DOMAIN groups' = Groups
    BY DEF Apply
  <2>3. QED
    BY <1>3, <2>1, <2>2 DEF IInv, Counted, InflightIsLeases
<1>5. Streams' /\ Stopping'
  BY <1>1, <1>3, SameStreams
<1>6. QED
  BY <1>3, <1>4, <1>5 DEF IInv

LEMMA ClosePoolInv == ASSUME IInv, ClosePool PROVE IInv'
<1>1. /\ UNCHANGED <<groups, poolStreams, serviceStreams, toUnregister>>
      /\ call' = Notified(Cancelled(call)) /\ toClose' = poolStreams
      /\ shutdown = "stopped" /\ shutdown' = "closing" /\ closed' = TRUE
  BY DEF ClosePool, streams
<1>2. DOMAIN call = Callers /\ \A e \in Callers : Consistent(call[e])
  BY DEF IInv, Calls
<1>3. /\ DOMAIN Cancelled(call) = Callers
      /\ \A e \in Callers : LET r == Cancelled(call)[e] IN
           /\ Shape(r) /\ r.step = call[e].step /\ r.lease = call[e].lease
           /\ r.group = call[e].group
           /\ r.op = call[e].op \/ {call[e].op, r.op} \subseteq Running
  <2>1. ASSUME NEW e \in Callers
        PROVE  LET r == Cancelled(call)[e] IN
               /\ Shape(r) /\ r.step = call[e].step /\ r.lease = call[e].lease
               /\ r.group = call[e].group
               /\ r.op = call[e].op \/ {call[e].op, r.op} \subseteq Running
    <3>1. CASE call[e].op = "live"
      <4>1. Cancelled(call)[e] = [call[e] EXCEPT !.op = "cancelled"]
        BY <3>1 DEF Cancelled
      <4>2. QED
        BY <1>2, <3>1, <4>1 DEF Consistent, Shape, Running
    <3>2. CASE call[e].op # "live"
      <4>1. Cancelled(call)[e] = call[e]
        BY <3>2 DEF Cancelled
      <4>2. QED
        BY <1>2, <4>1 DEF Consistent
    <3>3. QED
      BY <3>1, <3>2
  <2>2. QED
    BY <2>1 DEF Cancelled
<1>4. /\ Calls' /\ \A g \in Groups : Leases(g)' = Leases(g)
      /\ \A e \in Callers : /\ Step(e)' = Step(e) /\ Held(e)' = Held(e)
                            /\ call[e].op = "finished" => call'[e].op = "finished"
  <2>1. PICK calls : calls = Cancelled(call)
    OBVIOUS
  <2>2. DOMAIN Notified(calls) = Callers /\ \A e \in Callers :
          LET r == Notified(calls)[e] IN
          /\ Shape(r) /\ r.step = calls[e].step /\ r.op = calls[e].op
          /\ r.lease = calls[e].lease /\ r.group = calls[e].group
    BY <1>3, <2>1, Waking
  <2>3. call' = Notified(calls)
    BY <1>1, <2>1
  <2>4. QED
    BY <1>3, <2>1, <2>2, <2>3, SimilarCalls
<1>5. Counted'
  BY <1>1, <1>4 DEF IInv, Counted, InflightIsLeases
<1>6. Streams'
  <2>1. {d \in Callers : Held(d) /\ Step(d) \in Exposed}'
          = {d \in Callers : Held(d) /\ Step(d) \in Exposed}
    BY <1>4
  <2>2. toUnregister \subseteq Callers /\ serviceStreams \subseteq Callers
    BY DEF IInv, Streams, Stopping
  <2>3. \A e \in toClose' : Held(e)'
    BY <1>1, <1>4 DEF IInv, Streams
  <2>4. QED
    BY <1>1, <1>4, <2>1, <2>2, <2>3 DEF IInv, Streams
<1>7. Stopping'
  BY <1>1, <1>4 DEF IInv, Stopping, Streams
<1>8. QED
  BY <1>4, <1>5, <1>6, <1>7 DEF IInv

LEMMA ShutdownInv == ASSUME IInv, Tick \/ Stop \/ ShutdownDone \/ UNCHANGED vars PROVE IInv'
<1>1. UNCHANGED <<groups, closed, call, poolStreams, serviceStreams, toClose>>
  BY DEF Tick, Stop, ShutdownDone, vars, pool, streams, stopping
<1>2. \A g \in Groups : Leases(g)' = Leases(g)
  BY <1>1 DEF Leases, Held
<1>3. Calls' /\ Counted'
  BY <1>1, <1>2 DEF IInv, Calls, Counted, InflightIsLeases
<1>4. \A e \in Callers : Step(e)' = Step(e) /\ Held(e)' = Held(e) /\ Active(e)' = Active(e)
  BY <1>1 DEF Step, Held, Active
<1>5. CASE Stop
  BY <1>1, <1>3, <1>4, <1>5 DEF Stop, IInv, Streams, Stopping
<1>6. CASE ShutdownDone
  BY <1>1, <1>3, <1>4, <1>6 DEF ShutdownDone, IInv, Streams, Stopping
<1>7. CASE Tick \/ UNCHANGED vars
  <2>1. UNCHANGED <<shutdown, toUnregister>>
    BY <1>7 DEF Tick, vars, stopping
  <2>2. QED
    BY <1>1, <1>3, <1>4, <2>1 DEF IInv, Streams, Stopping
<1>8. QED
  BY <1>5, <1>6, <1>7

-----------------------------------------------------------------------------
LEMMA InitInv == Init => IInv
<1> SUFFICES ASSUME Init PROVE IInv
  OBVIOUS
<1>1. PICK s \in Starts : call = [c \in Callers |->
        [step |-> IF c \in s.callers THEN "new" ELSE "ended", op |-> "none",
         lease |-> "none", group |-> None, reserved |-> 0, sent |-> FALSE,
         limit |-> 0, wake |-> 0, notified |-> FALSE]]
  BY DEF Init
<1>2. Calls /\ \A c \in Callers : ~Held(c) /\ Step(c) \in {"new", "ended"}
  BY <1>1 DEF Calls, Consistent, Shape, Steps, Held, Step
<1>3. Counted
  <2>1. \A g \in Groups : groups[g] = NoGroup
    BY DEF Init
  <2>2. \A g \in Groups : Leases(g) = {}
    BY <1>2 DEF Leases
  <2>3. Cardinality({}) = 0
    BY FS_EmptySet
  <2>4. GroupShape(NoGroup) /\ NoGroup.inflight = 0
    BY DEF GroupShape, NoGroup
  <2>5. QED
    BY <2>1, <2>2, <2>3, <2>4 DEF Init, Counted, InflightIsLeases
<1>4. Streams /\ Stopping
  BY <1>2 DEF Init, Streams, Stopping
<1>5. QED
  BY <1>2, <1>3, <1>4 DEF IInv

LEMMA NextInv == IInv /\ [Next]_vars => IInv'
<1> SUFFICES ASSUME IInv, [Next]_vars PROVE IInv'
  OBVIOUS
<1>1. ASSUME NEW c \in Callers, Opening(c) PROVE IInv'
  BY <1>1, PrivateSteps, PrivateInv, WaitInv, AdmitInv, ClosingSteps, OfferInv, PublishInv
     DEF Opening
<1>2. ASSUME NEW c \in Callers,
             ReaderCloses(c) \/ ContextCloses(c) \/ PoolCloses(c) \/ ShutdownCloses(c)
      PROVE  IInv'
  BY <1>2, ClosingSteps
<1>3. ASSUME NEW c \in Callers, Cancel(c) PROVE IInv'
  BY <1>3, PrivateSteps, PrivateInv
<1>4. ASSUME NEW c \in Callers, NEW d \in Cooldowns, CoolDown(c, d) PROVE IInv'
  BY <1>4, CoolDownInv
<1>5. ASSUME NEW cfg \in Followers[config], Apply(cfg) PROVE IInv'
  BY <1>5, ApplyInv
<1>6. QED
  BY <1>1, <1>2, <1>3, <1>4, <1>5, ClosePoolInv, ShutdownInv DEF Next

LEMMA Invariant == Spec => []IInv
BY InitInv, NextInv, PTL DEF Spec

-----------------------------------------------------------------------------
(* A group counts exactly the leases that are out: no path of openEgress, no pair
   of closers and no edit of the limits loses or doubles one
   (egress_pool.go:142-163 and 202-207, egress_transport.go:28-38). *)
THEOREM LeasesAreCounted == Spec => []InflightIsLeases
<1>1. IInv => InflightIsLeases
  BY DEF IInv, Counted
<1>2. QED
  BY <1>1, Invariant, PTL

(* When the shutdown has waited for the active calls the pool holds no lease, no
   running operation and no stream, whichever step each opener was at
   (egress_pool.go:309-329, egress_transport.go:181-211). *)
THEOREM ShutdownDrains == Spec => []DrainedAfterShutdown
<1>1. IInv => DrainedAfterShutdown
  <2> SUFFICES ASSUME IInv, shutdown = "done"
               PROVE  /\ poolStreams = {} /\ serviceStreams = {}
                      /\ \A c \in Callers : ~Held(c) /\ call[c].op \in {"none", "finished"}
    BY DEF DrainedAfterShutdown
  <2>1. poolStreams = {} /\ serviceStreams = {} /\ \A c \in Callers : ~Active(c)
    BY DEF IInv, Stopping
  <2>2. ASSUME NEW c \in Callers PROVE ~Held(c) /\ call[c].op \in {"none", "finished"}
    <3>1. Consistent(call[c]) /\ Step(c) \in {"new", "streaming", "limited", "closed", "ended"}
      BY <2>1 DEF IInv, Calls, Active
    <3>2. ~(Held(c) /\ Step(c) \in Exposed)
      BY <2>1 DEF IInv, Streams
    <3>3. QED
      BY <3>1, <3>2 DEF Consistent, Held, Step, Exposed
  <2>3. QED
    BY <2>1, <2>2
<1>2. QED
  BY <1>1, Invariant, PTL

-----------------------------------------------------------------------------
(* Least elements give induction over the numbers. *)

Below == {p \in Nat \X Nat : p[1] < p[2]}

LEMMA BelowIsWellFounded == IsWellFoundedOn(Below, Nat)
BY NatLessThanWellFounded DEF OpToRel, Below

LEMMA Least ==
  ASSUME NEW S, S \subseteq Nat, S # {}
  PROVE  \E n \in S : \A m \in S : n <= m
<1>1. PICK n \in S : \A m \in S : ~(<<m, n>> \in Below)
  BY BelowIsWellFounded, WFMin
<1>2. ASSUME NEW m \in S PROVE n <= m
  <2>1. PICK p : p = <<m, n>>
    OBVIOUS
  <2>2. p \in Nat \X Nat /\ p[1] = m /\ p[2] = n
    BY <2>1
  <2>3. ~(m < n)
    BY <1>1, <2>1, <2>2 DEF Below
  <2>4. QED
    BY <2>3
<1>3. QED
  BY <1>2

-----------------------------------------------------------------------------
(* The candidates of a call *)

LEMMA PositionsFinite ==
  ASSUME NEW top \in Nat, NEW S, S \subseteq 1..top
  PROVE  IsFiniteSet(S) /\ Cardinality(S) \in Nat
<1>1. IsFiniteSet(1..top)
  <2>1. 1 \in Int /\ top \in Int
    OBVIOUS
  <2>2. QED
    BY <2>1, FS_Interval
<1>2. IsFiniteSet(S)
  BY <1>1, FS_Subset
<1>3. QED
  BY <1>2, FS_CardinalityType

(* A set of positions has a kth element for each k up to its size. *)
LEMMA NthExists ==
  ASSUME NEW top \in Nat, NEW S, S \subseteq 1..top, NEW k \in 1..Cardinality(S)
  PROVE  Nth(S, k) \in S
<1>1. IsFiniteSet(S) /\ Cardinality(S) \in Nat
  BY PositionsFinite
<1>a. PICK upto : upto = [i \in 0..top |-> {j \in S : j <= i}]
  OBVIOUS
<1>b. \A i \in 0..top : upto[i] \subseteq S /\ \A j \in S : j \in upto[i] <=> j <= i
  BY <1>a
<1>c. PICK size : size = [i \in 0..top |-> Cardinality(upto[i])]
  OBVIOUS
<1>d. \A i \in 0..top : size[i] = Cardinality(upto[i])
  BY <1>c
<1>2. \A i \in 0..top : IsFiniteSet(upto[i]) /\ size[i] \in Nat
  <2>1. SUFFICES ASSUME NEW i \in 0..top PROVE IsFiniteSet(upto[i]) /\ size[i] \in Nat
    OBVIOUS
  <2>2. upto[i] \subseteq 1..top
    BY <1>b
  <2>3. IsFiniteSet(upto[i]) /\ Cardinality(upto[i]) \in Nat
    BY <2>2, PositionsFinite
  <2>4. QED
    BY <1>d, <2>3
<1>3. size[0] = 0 /\ size[top] = Cardinality(S)
  <2>1. 0 \in 0..top /\ top \in 0..top
    OBVIOUS
  <2>2. \A j \in S : ~(j <= 0) /\ j <= top
    OBVIOUS
  <2>3. upto[0] = {} /\ upto[top] = S
    BY <1>b, <2>1, <2>2
  <2>4. size[0] = Cardinality({}) /\ size[top] = Cardinality(S)
    BY <1>d, <2>1, <2>3
  <2>5. QED
    BY <2>4, FS_EmptySet
<1>4. PICK T : T = {i \in 0..top : size[i] >= k}
  OBVIOUS
<1>5. PICK i \in T : \A m \in T : i <= m
  <2>1. top \in T /\ T \subseteq Nat
    BY <1>1, <1>3, <1>4
  <2>2. QED
    BY <2>1, Least
<1>6. i \in 1..top /\ i - 1 \in 0..top /\ i - 1 \notin T
  <2>1. i # 0
    BY <1>1, <1>3, <1>4
  <2>2. i \in 0..top
    BY <1>4
  <2>3. i \in 1..top /\ i - 1 \in 0..top
    BY <2>1, <2>2
  <2>4. i - 1 \notin T
    BY <1>5, <2>3
  <2>5. QED
    BY <2>3, <2>4
<1>7. size[i] >= k /\ ~(size[i - 1] >= k)
  BY <1>4, <1>6
<1>8. i \in S
  <2>1. CASE i \notin S
    <3>1. \A j \in S : j <= i <=> j <= i - 1
      BY <1>6, <2>1
    <3>a. /\ upto[i] \subseteq S /\ \A j \in S : j \in upto[i] <=> j <= i
          /\ upto[i - 1] \subseteq S /\ \A j \in S : j \in upto[i - 1] <=> j <= i - 1
      BY <1>b, <1>6
    <3>2. upto[i] = upto[i - 1]
      BY <3>1, <3>a
    <3>3. size[i] = size[i - 1]
      BY <1>d, <1>6, <3>2
    <3>4. QED
      BY <1>7, <3>3
  <2>2. QED
    BY <2>1
<1>9. size[i] = size[i - 1] + 1
  <2>1. \A j \in S : j <= i <=> j = i \/ j <= i - 1
    BY <1>6
  <2>2. ~(i <= i - 1)
    BY <1>6
  <2>a. /\ upto[i] \subseteq S /\ \A j \in S : j \in upto[i] <=> j <= i
        /\ upto[i - 1] \subseteq S /\ \A j \in S : j \in upto[i - 1] <=> j <= i - 1
    BY <1>b, <1>6
  <2>3. upto[i] = upto[i - 1] \cup {i} /\ i \notin upto[i - 1]
    BY <1>8, <2>1, <2>2, <2>a
  <2>4. IsFiniteSet(upto[i - 1])
    BY <1>2, <1>6
  <2>5. Cardinality(upto[i]) = Cardinality(upto[i - 1]) + 1
    BY <2>3, <2>4, FS_AddElement
  <2>6. QED
    BY <1>d, <1>6, <2>5
<1>10. size[i] = k
  <2>1. PICK a, b : a = size[i - 1] /\ b = size[i]
    OBVIOUS
  <2>2. a \in Nat /\ b \in Nat
    BY <1>2, <1>6, <2>1
  <2>k. k \in Nat
    BY <1>1
  <2>3. b >= k /\ ~(a >= k) /\ b = a + 1
    BY <1>7, <1>9, <2>1
  <2>4. b = k
    BY ONLY <2>2, <2>k, <2>3
  <2>5. QED
    BY <2>1, <2>4
<1>11. Cardinality({j \in S : j <= i}) = k
  <2>1. upto[i] = {j \in S : j <= i} /\ i \in 0..top
    BY <1>a, <1>6
  <2>2. QED
    BY <1>d, <1>10, <2>1
<1>12. QED
  BY <1>8, <1>11 DEF Nth

LEMMA SelectedAre ==
  ASSUME config.endpoints \in Seq(Endpoints), NEW S, S \subseteq DOMAIN config.endpoints
  PROVE  /\ Selected(S) \in Seq(Endpoints)
         /\ \A i \in DOMAIN Selected(S) :
              \E j \in DOMAIN config.endpoints : Selected(S)[i] = config.endpoints[j]
<1>1. PICK top \in Nat : DOMAIN config.endpoints = 1..top
  <2>1. Len(config.endpoints) \in Nat /\ DOMAIN config.endpoints = 1..Len(config.endpoints)
    OBVIOUS
  <2>2. QED
    BY <2>1
<1>2. Cardinality(S) \in Nat
  BY <1>1, PositionsFinite
<1>3. \A k \in 1..Cardinality(S) : Nth(S, k) \in DOMAIN config.endpoints
  BY <1>1, NthExists
<1>4. \A j \in DOMAIN config.endpoints : config.endpoints[j] \in Endpoints
  OBVIOUS
<1>5. PICK n, list : n = Cardinality(S) /\ list = Selected(S)
  OBVIOUS
<1>6. DOMAIN list = 1..n /\ n \in Nat /\ \A k \in 1..n : list[k] = config.endpoints[Nth(S, k)]
  BY <1>2, <1>5 DEF Selected
<1>7. list = [k \in 1..n |-> config.endpoints[Nth(S, k)]]
  BY <1>5 DEF Selected
<1>8. list \in [1..n -> Endpoints]
  BY <1>3, <1>4, <1>5, <1>7
<1>9. list \in Seq(Endpoints)
  BY <1>6, <1>8
<1>10. \A k \in DOMAIN list : \E j \in DOMAIN config.endpoints : list[k] = config.endpoints[j]
  BY <1>3, <1>5, <1>6
<1>11. QED
  BY <1>5, <1>9, <1>10

(* Candidates are endpoints of the configuration, or the one made up for a pin. *)
LEMMA CandidatesAre ==
  ASSUME config \in Configs, NEW c \in Callers
  PROVE  /\ Candidates(c) \in Seq(Endpoints)
         /\ \/ \A i \in DOMAIN Candidates(c) :
                 \E j \in DOMAIN config.endpoints : Candidates(c)[i] = config.endpoints[j]
            \/ Pinned[c] \in Proxies /\ Candidates(c) = <<Unlisted(Pinned[c])>>
<1> DEFINE pin == Pinned[c]
           on == {i \in DOMAIN config.endpoints : config.endpoints[i].enabled}
           ofPin == {i \in on : config.endpoints[i].proxy = pin}
<1>1. config.endpoints \in Seq(Endpoints)
  BY ConfigsAssumption DEF ValidConfig
<1>2. CASE pin = None /\ ~config.enabled
  <2>1. Candidates(c) = <<>>
    BY <1>2 DEF Candidates
  <2>2. <<>> \in Seq(Endpoints) /\ DOMAIN <<>> = {}
    OBVIOUS
  <2>3. QED
    BY <2>1, <2>2
<1>3. CASE pin = None /\ config.enabled
  <2>1. Candidates(c) = Selected(on)
    BY <1>3 DEF Candidates
  <2>2. on \subseteq DOMAIN config.endpoints
    OBVIOUS
  <2> HIDE DEF on, ofPin
  <2>3. QED
    BY <1>1, <2>1, <2>2, SelectedAre
<1>4. CASE pin # None /\ Known(pin)
  <2>1. Candidates(c) = Selected(ofPin)
    BY <1>4 DEF Candidates
  <2>2. ofPin \subseteq DOMAIN config.endpoints
    OBVIOUS
  <2> HIDE DEF on, ofPin
  <2>3. QED
    BY <1>1, <2>1, <2>2, SelectedAre
<1>5. CASE pin # None /\ ~Known(pin)
  <2>1. Candidates(c) = <<Unlisted(pin)>> /\ pin \in Proxies
    BY <1>5, EgressPoolAssumption DEF Candidates
  <2>2. Unlisted(pin) \in Endpoints
    BY <2>1, EgressPoolAssumption DEF Unlisted, Endpoints
  <2>3. <<Unlisted(pin)>> \in Seq(Endpoints)
    BY <2>2
  <2>4. QED
    BY <2>1, <2>3
<1>6. QED
  BY <1>2, <1>3, <1>4, <1>5

(* Where the turns of a list come by. *)
LEMMA TurnsAre ==
  ASSUME cursor \in Nat, NEW list, Len(list) \in Nat, NEW n \in Nat, Len(list) # 0
  PROVE  Turn(list, n) \in 1..Len(list)
<1>1. PICK m : m = Len(list)
  OBVIOUS
<1>2. (cursor + n) % m \in 0..m - 1
  BY <1>1
<1>3. Turn(list, n) = ((cursor + n) % m) + 1
  BY <1>1 DEF Turn
<1>4. QED
  BY <1>1, <1>2, <1>3

(* Every position has its turn. *)
LEMMA TurnsCover ==
  ASSUME cursor \in Nat, NEW list, Len(list) \in Nat, NEW i \in 1..Len(list)
  PROVE  \E n \in 0..Len(list) - 1 : Turn(list, n) = i
<1>1. PICK m, r : m = Len(list) /\ r = cursor % m
  OBVIOUS
<1>2. m \in Nat \ {0} /\ r \in 0..m - 1 /\ i \in 1..m
  BY <1>1
<1>3. PICK n : n = IF i - 1 >= r THEN i - 1 - r ELSE i - 1 - r + m
  OBVIOUS
<1>4. n \in 0..m - 1 /\ (r + n = i - 1 \/ r + n = i - 1 + m)
  BY <1>2, <1>3
<1>5. (cursor + n) % m = i - 1
  <2>1. PICK q \in Nat : cursor = m * q + r
    <3>1. cursor = m * (cursor \div m) + r /\ cursor \div m \in Nat
      BY <1>1, <1>2
    <3>2. QED
      BY <3>1
  <2>2. PICK p \in Nat : cursor + n = m * p + (i - 1)
    <3>1. CASE r + n = i - 1
      <4>1. cursor + n = m * q + (i - 1)
        BY <1>2, <1>4, <2>1, <3>1
      <4>2. QED
        BY <4>1
    <3>2. CASE r + n = i - 1 + m
      <4>1. m * (q + 1) = m * q + m
        BY <1>2, <2>1
      <4>2. cursor + n = m * (q + 1) + (i - 1)
        BY <1>2, <1>4, <2>1, <3>2, <4>1
      <4>3. QED
        BY <2>1, <4>2
    <3>3. QED
      BY <1>4, <3>1, <3>2
  <2>3. PICK x, j : x = cursor + n /\ j = i - 1
    OBVIOUS
  <2>4. x \in Nat /\ j \in 0..m - 1 /\ x = m * p + j
    BY <1>2, <1>4, <2>2, <2>3
  <2>5. x % m = j
    BY ONLY <1>2, <2>2, <2>4
  <2>6. QED
    BY <2>3, <2>5
<1>6. QED
  BY <1>1, <1>2, <1>4, <1>5 DEF Turn

-----------------------------------------------------------------------------
(* The times that a group remembers *)

(* Pruning drops times of the past, up to the first that is still in the window. *)
Prunes(times, rest, n) ==
  /\ n \in 0..Len(times) /\ \A i \in 1..n : times[i] + Minute <= now
  /\ n < Len(times) => times[n + 1] + Minute > now
  /\ rest \in Seq(Nat) /\ Len(rest) = Len(times) - n
  /\ \A i \in 1..Len(times) - n : rest[i] = times[i + n]

LEMMA RecentIs ==
  ASSUME NEW times \in Seq(Nat), now \in Nat
  PROVE  \E n \in Nat : Prunes(times, Recent(times), n)
<1> DEFINE P(n) == /\ \A i \in 1..n : times[i] + Minute <= now
                   /\ n < Len(times) => times[n + 1] + Minute > now
<1>1. Len(times) \in Nat /\ Minute \in Nat /\ \A i \in 1..Len(times) : times[i] \in Nat
  BY EgressPoolAssumption
<1>2. \E n \in 0..Len(times) : P(n)
  <2>1. PICK T : T = {n \in 0..Len(times) : n < Len(times) => times[n + 1] + Minute > now}
    OBVIOUS
  <2>2. PICK n \in T : \A m \in T : n <= m
    <3>1. Len(times) \in T /\ T \subseteq Nat
      BY <1>1, <2>1
    <3>2. QED
      BY <3>1, Least
  <2>3. ASSUME NEW i \in 1..n PROVE times[i] + Minute <= now
    <3>1. PICK j : j = i - 1
      OBVIOUS
    <3>2. j \in 0..Len(times) /\ j < Len(times) /\ j < n /\ i = j + 1 /\ i \in 1..Len(times)
      BY <1>1, <2>1, <3>1
    <3>3. j \notin T
      BY <1>1, <2>1, <2>2, <3>2
    <3>4. ~(times[i] + Minute > now)
      BY <2>1, <3>2, <3>3
    <3>5. QED
      BY <1>1, <3>2, <3>4
  <2>4. QED
    BY <2>1, <2>3
<1>3. PICK n : n = Dropped(times)
  OBVIOUS
<1>4. n \in 0..Len(times) /\ P(n)
  BY <1>2, <1>3 DEF Dropped
<1> HIDE DEF P
<1>5. PICK top, rest : top = Len(times) /\ rest = SubSeq(times, n + 1, top)
  OBVIOUS
<1>6. Recent(times) = rest
  BY <1>3, <1>5 DEF Recent
<1>7. rest \in Seq(Nat) /\ Len(rest) = top - n /\ \A i \in 1..top - n : rest[i] = times[i + n]
  <2>1. n \in Nat /\ top \in Nat /\ n <= top
    BY <1>1, <1>4, <1>5
  <2>2. \A i \in n + 1..top : times[i] \in Nat
    BY <1>1, <1>5, <2>1
  <2>3. rest \in Seq(Nat) /\ Len(rest) = IF n + 1 <= top THEN top - (n + 1) + 1 ELSE 0
    BY <1>5, <2>1, <2>2
  <2>4. Len(rest) = top - n
    BY <2>1, <2>3
  <2>5. \A i \in 1..top - n : rest[i] = times[(n + 1) + i - 1]
    BY <1>5, <2>1
  <2>6. \A i \in 1..top - n : (n + 1) + i - 1 = i + n
    BY <2>1
  <2>7. QED
    BY <2>3, <2>4, <2>5, <2>6
<1>8. Prunes(times, rest, n)
  <2>1. /\ \A i \in 1..n : times[i] + Minute <= now
        /\ n < Len(times) => times[n + 1] + Minute > now
    BY <1>4 DEF P
  <2>2. QED
    BY <1>4, <1>5, <1>7, <2>1 DEF Prunes
<1>9. n \in Nat
  BY <1>1, <1>4
<1>10. QED
  BY <1>6, <1>8, <1>9

(* The times of a group are in order, none of them to come. *)
Ordered(times, t) ==
  /\ times \in Seq(Nat) /\ \A i \in 1..Len(times) : times[i] <= t
  /\ \A i, j \in 1..Len(times) : i <= j => times[i] <= times[j]

LEMMA OrderedRecent ==
  ASSUME NEW times, now \in Nat, Ordered(times, now)
  PROVE  /\ Ordered(Recent(times), now)
         /\ \A i \in 1..Len(Recent(times)) : Recent(times)[i] + Minute > now
<1>1. PICK n \in Nat : Prunes(times, Recent(times), n)
  BY RecentIs DEF Ordered
<1>2. PICK rest : rest = Recent(times)
  OBVIOUS
<1>3. /\ n \in 0..Len(times) /\ (n < Len(times) => times[n + 1] + Minute > now)
      /\ rest \in Seq(Nat) /\ Len(rest) = Len(times) - n
      /\ \A i \in 1..Len(times) - n : rest[i] = times[i + n]
  BY <1>1, <1>2 DEF Prunes
<1>4. Len(times) \in Nat /\ Len(rest) \in Nat /\ Minute \in Nat
      /\ \A i \in 1..Len(times) : times[i] \in Nat
  BY <1>3, EgressPoolAssumption DEF Ordered
<1>5. \A i \in 1..Len(rest) : i + n \in 1..Len(times) /\ rest[i] = times[i + n]
  BY <1>3, <1>4
<1>6. \A i \in 1..Len(rest) : rest[i] <= now
  BY <1>5 DEF Ordered
<1>7. ASSUME NEW i \in 1..Len(rest), NEW j \in 1..Len(rest), i <= j PROVE rest[i] <= rest[j]
  <2>1. i + n <= j + n /\ i + n \in 1..Len(times) /\ j + n \in 1..Len(times)
    BY <1>3, <1>4, <1>5, <1>7
  <2>2. times[i + n] <= times[j + n]
    BY <2>1 DEF Ordered
  <2>3. QED
    BY <1>5, <2>2
<1>8. ASSUME NEW i \in 1..Len(rest) PROVE rest[i] + Minute > now
  <2>1. n + 1 <= i + n /\ n + 1 \in 1..Len(times) /\ i + n \in 1..Len(times) /\ n < Len(times)
    BY <1>3, <1>4, <1>5
  <2>2. PICK a, b : a = times[n + 1] /\ b = times[i + n]
    OBVIOUS
  <2>3. a \in Nat /\ b \in Nat
    BY <1>4, <2>1, <2>2
  <2>4. a <= b /\ a + Minute > now
    BY <1>3, <2>1, <2>2 DEF Ordered
  <2>5. b + Minute > now
    BY ONLY <1>4, <2>3, <2>4, now \in Nat
  <2>6. QED
    BY <1>5, <2>2, <2>5
<1>9. QED
  BY <1>2, <1>3, <1>6, <1>7, <1>8 DEF Ordered

LEMMA OrderedLater ==
  ASSUME NEW times, NEW s \in Nat, NEW t \in Nat, s <= t, Ordered(times, s)
  PROVE  Ordered(times, t)
<1>1. \A i \in 1..Len(times) : times[i] \in Nat /\ times[i] <= s
  BY DEF Ordered
<1>2. \A i \in 1..Len(times) : times[i] <= t
  BY <1>1
<1>3. QED
  BY <1>2 DEF Ordered

LEMMA OrderedAppend ==
  ASSUME NEW times, NEW t \in Nat, Ordered(times, t)
  PROVE  Ordered(Append(times, t), t)
<1>1. PICK more, m : more = Append(times, t) /\ m = Len(times)
  OBVIOUS
<1>2. /\ more \in Seq(Nat) /\ m \in Nat /\ Len(more) = m + 1 /\ more[m + 1] = t
      /\ \A i \in 1..m : more[i] = times[i]
  BY <1>1 DEF Ordered
<1>3. \A i \in 1..m : times[i] <= t /\ \A j \in 1..m : i <= j => times[i] <= times[j]
  BY <1>1 DEF Ordered
<1>4. \A i \in 1..m + 1 : i \in 1..m \/ i = m + 1
  BY <1>2
<1>5. \A i \in 1..m + 1 : more[i] <= t
  BY <1>2, <1>3, <1>4
<1>6. ASSUME NEW i \in 1..m + 1, NEW j \in 1..m + 1, i <= j PROVE more[i] <= more[j]
  <2>1. CASE j = m + 1
    BY <1>2, <1>5, <2>1
  <2>2. CASE j \in 1..m
    <3>1. i \in 1..m
      BY <1>2, <1>6, <2>2
    <3>2. times[i] <= times[j]
      BY <1>3, <1>6, <2>2, <3>1
    <3>3. QED
      BY <1>2, <2>2, <3>1, <3>2
  <2>3. QED
    BY <1>4, <2>1, <2>2
<1>7. QED
  BY <1>1, <1>2, <1>5, <1>6 DEF Ordered

(* What a refund leaves: the times but one, or all of them. *)
Leaves(times, rest, i) ==
  /\ i \in 1..Len(times) /\ rest \in Seq(Nat) /\ Len(rest) = Len(times) - 1
  /\ \A j \in 1..Len(times) - 1 : rest[j] = IF j < i THEN times[j] ELSE times[j + 1]

LEMMA WithoutIs ==
  ASSUME NEW times \in Seq(Nat), NEW t
  PROVE  \/ /\ Without(times, t) = times
            /\ \A i \in 1..Len(times) : times[i] # t
         \/ \E i \in 1..Len(times) : times[i] = t /\ Leaves(times, Without(times, t), i)
<1>1. PICK top \in Nat : top = Len(times) /\ DOMAIN times = 1..top
  OBVIOUS
<1>2. CASE ~\E i \in DOMAIN times : times[i] = t
  BY <1>1, <1>2 DEF Without
<1>3. CASE \E i \in DOMAIN times : times[i] = t
  <2>1. \E i \in 1..top : times[i] = t /\ \A j \in 1..i - 1 : times[j] # t
    <3>1. PICK T : T = {i \in 1..top : times[i] = t}
      OBVIOUS
    <3>2. PICK i \in T : \A m \in T : i <= m
      <4>1. T \subseteq Nat /\ T # {}
        BY <1>1, <1>3, <3>1
      <4>2. QED
        BY <4>1, Least
    <3>3. ASSUME NEW j \in 1..i - 1 PROVE times[j] # t
      <4>1. j \in 1..top /\ ~(i <= j)
        BY <1>1, <3>1
      <4>2. QED
        BY <3>1, <3>2, <4>1
    <3>4. QED
      BY <3>1, <3>3
  <2>2. PICK i : i = First(times, t)
    OBVIOUS
  <2>3. i \in 1..top /\ times[i] = t
    BY <1>1, <2>1, <2>2 DEF First
  <2>4. PICK a, b : a = SubSeq(times, 1, i - 1) /\ b = SubSeq(times, i + 1, top)
    OBVIOUS
  <2>5. Without(times, t) = a \o b
    BY <1>1, <1>3, <2>2, <2>4 DEF Without
  <2>6. \A j \in 1..top : times[j] \in Nat
    BY <1>1
  <2>7. a \in Seq(Nat) /\ Len(a) = i - 1 /\ \A j \in 1..i - 1 : a[j] = times[j]
    <3>1. \A j \in 1..i - 1 : times[j] \in Nat
      BY <2>3, <2>6
    <3>2. a \in Seq(Nat) /\ Len(a) = IF 1 <= i - 1 THEN i - 1 - 1 + 1 ELSE 0
      BY <2>3, <2>4, <3>1
    <3>3. Len(a) = i - 1
      BY <2>3, <3>2
    <3>4. \A j \in 1..i - 1 : a[j] = times[1 + j - 1]
      BY <2>3, <2>4
    <3>5. \A j \in 1..i - 1 : 1 + j - 1 = j
      BY <2>3
    <3>6. QED
      BY <3>2, <3>3, <3>4, <3>5
  <2>8. b \in Seq(Nat) /\ Len(b) = top - i /\ \A j \in 1..top - i : b[j] = times[i + j]
    <3>1. \A j \in i + 1..top : times[j] \in Nat
      BY <2>3, <2>6
    <3>2. b \in Seq(Nat) /\ Len(b) = IF i + 1 <= top THEN top - (i + 1) + 1 ELSE 0
      BY <2>3, <2>4, <3>1
    <3>3. Len(b) = top - i
      BY <2>3, <3>2
    <3>4. \A j \in 1..top - i : b[j] = times[(i + 1) + j - 1]
      BY <2>3, <2>4
    <3>5. \A j \in 1..top - i : (i + 1) + j - 1 = i + j
      BY <2>3
    <3>6. QED
      BY <3>2, <3>3, <3>4, <3>5
  <2>9. PICK rest : rest = a \o b
    OBVIOUS
  <2>10. rest \in Seq(Nat) /\ Len(rest) = top - 1
    <3>1. rest \in Seq(Nat) /\ Len(rest) = Len(a) + Len(b)
      BY <2>7, <2>8, <2>9, ConcatProperties
    <3>2. QED
      BY <2>3, <2>7, <2>8, <3>1
  <2>11. ASSUME NEW j \in 1..top - 1
         PROVE  rest[j] = IF j < i THEN times[j] ELSE times[j + 1]
    <3>1. CASE j < i
      <4>1. j \in 1..i - 1 /\ j \in 1..Len(a)
        BY <2>3, <2>7, <3>1
      <4>2. rest[j] = a[j]
        BY <2>7, <2>8, <2>9, <4>1
      <4>3. QED
        BY <2>7, <3>1, <4>1, <4>2
    <3>2. CASE ~(j < i)
      <4>1. PICK k : k = j - (i - 1)
        OBVIOUS
      <4>2. k \in 1..top - i /\ i + k = j + 1 /\ j \in Len(a) + 1..Len(a) + Len(b) /\ j - Len(a) = k
        BY <2>3, <2>7, <2>8, <3>2, <4>1
      <4>3. rest[j] = b[j - Len(a)]
        BY <2>7, <2>8, <2>9, <4>2
      <4>4. QED
        BY <2>8, <3>2, <4>2, <4>3
    <3>3. QED
      BY <3>1, <3>2
  <2>12. QED
    BY <1>1, <2>3, <2>5, <2>9, <2>10, <2>11 DEF Leaves
<1>4. QED
  BY <1>2, <1>3

LEMMA OrderedWithout ==
  ASSUME NEW times, NEW t, NEW u, Ordered(times, u)
  PROVE  Ordered(Without(times, t), u)
<1>1. PICK rest : rest = Without(times, t)
  OBVIOUS
<1>2. CASE rest = times
  BY <1>1, <1>2
<1>3. CASE rest # times
  <2>1. PICK i \in 1..Len(times) : Leaves(times, rest, i)
    BY <1>1, <1>3, WithoutIs DEF Ordered
  <2>2. PICK top, f : top = Len(times) /\ f = [j \in 1..top - 1 |-> IF j < i THEN j ELSE j + 1]
    OBVIOUS
  <2>3. top \in Nat /\ i \in 1..top /\ Len(rest) = top - 1 /\ rest \in Seq(Nat)
    BY <2>1, <2>2 DEF Leaves, Ordered
  <2>4. \A j \in 1..top - 1 : (f[j] = j /\ j < i) \/ (f[j] = j + 1 /\ ~(j < i))
    BY <2>2, <2>3
  <2>5. \A j \in 1..top - 1 : rest[j] = times[f[j]] /\ f[j] \in 1..top
    BY <2>1, <2>2, <2>3, <2>4 DEF Leaves
  <2>6. ASSUME NEW j \in 1..top - 1, NEW k \in 1..top - 1, j <= k PROVE f[j] <= f[k]
    BY <2>3, <2>4, <2>6
  <2>7. \A j \in 1..top - 1 : rest[j] <= u
    BY <2>2, <2>5 DEF Ordered
  <2>8. \A j, k \in 1..top - 1 : j <= k => rest[j] <= rest[k]
    BY <2>2, <2>5, <2>6 DEF Ordered
  <2>9. QED
    BY <1>1, <2>3, <2>7, <2>8 DEF Ordered
<1>4. QED
  BY <1>2, <1>3

-----------------------------------------------------------------------------
(* Requests and the times that stand for them *)

(* Each caller of S has a time of its own in the list. *)
Places(f, S, times, calls) ==
  /\ f \in [S -> 1..Len(times)]
  /\ \A c \in S : times[f[c]] = calls[c].reserved
  /\ \A c, d \in S : c # d => f[c] # f[d]

Fits(S, times, calls) == \E f : Places(f, S, times, calls)

LEMMA FitsLess ==
  ASSUME NEW S, NEW T, T \subseteq S, NEW times, NEW calls, NEW others, Fits(S, times, calls),
         \A c \in T : others[c].reserved = calls[c].reserved
  PROVE  Fits(T, times, others)
<1>1. PICK f : Places(f, S, times, calls)
  BY DEF Fits
<1>2. PICK g : g = [c \in T |-> f[c]]
  OBVIOUS
<1>3. \A c \in T : g[c] = f[c]
  BY <1>2
<1>4. g \in [T -> 1..Len(times)]
  BY <1>1, <1>2 DEF Places
<1>5. Places(g, T, times, others)
  BY <1>1, <1>3, <1>4 DEF Places
<1>6. QED
  BY <1>5 DEF Fits

LEMMA FitsRecent ==
  ASSUME NEW S, NEW times \in Seq(Nat), now \in Nat, NEW calls, Fits(S, times, calls),
         \A c \in S : calls[c].reserved + Minute > now
  PROVE  Fits(S, Recent(times), calls)
<1>1. PICK f : Places(f, S, times, calls)
  BY DEF Fits
<1>a. PICK n \in Nat : Prunes(times, Recent(times), n)
  BY RecentIs
<1>2. PICK rest : rest = Recent(times) /\ Prunes(times, rest, n)
  BY <1>a
<1>3. PICK top \in Nat : top = Len(times)
  OBVIOUS
<1>4. /\ n \in 0..top /\ \A i \in 1..n : times[i] + Minute <= now
      /\ Len(rest) = top - n /\ \A i \in 1..top - n : rest[i] = times[i + n]
  BY <1>2, <1>3 DEF Prunes
<1>5. ASSUME NEW c \in S
      PROVE  f[c] - n \in 1..top - n /\ f[c] \in 1..top /\ rest[f[c] - n] = calls[c].reserved
  <2>1. f[c] \in 1..top /\ times[f[c]] = calls[c].reserved
    BY <1>1, <1>3 DEF Places
  <2>2. times[f[c]] \in Nat /\ Minute \in Nat
    BY <1>3, <2>1, EgressPoolAssumption
  <2>3. times[f[c]] + Minute > now
    BY <2>1
  <2>4. f[c] \notin 1..n
    BY <1>4, <2>2, <2>3
  <2>5. f[c] - n \in 1..top - n /\ (f[c] - n) + n = f[c]
    BY <1>4, <2>1, <2>4
  <2>6. rest[f[c] - n] = times[(f[c] - n) + n]
    BY <1>4, <2>5
  <2>7. QED
    BY <2>1, <2>5, <2>6
<1>6. PICK g : g = [c \in S |-> f[c] - n]
  OBVIOUS
<1>7. \A c \in S : g[c] = f[c] - n
  BY <1>6
<1>8. g \in [S -> 1..Len(rest)]
  BY <1>4, <1>5, <1>6
<1>9. ASSUME NEW c \in S, NEW d \in S, c # d PROVE g[c] # g[d]
  <2>1. f[c] # f[d] /\ f[c] \in Nat /\ f[d] \in Nat
    BY <1>1, <1>5, <1>9 DEF Places
  <2>2. QED
    BY <1>7, <2>1
<1>10. \A c \in S : rest[g[c]] = calls[c].reserved
  BY <1>5, <1>7
<1>11. Places(g, S, rest, calls)
  BY <1>8, <1>9, <1>10 DEF Places
<1>12. QED
  BY <1>2, <1>11 DEF Fits

LEMMA FitsAppend ==
  ASSUME NEW S, NEW times \in Seq(Nat), NEW t \in Nat, NEW calls, NEW others, NEW c,
         Fits(S, times, calls), \A d \in S \ {c} : others[d].reserved = calls[d].reserved,
         others[c].reserved = t
  PROVE  Fits(S \cup {c}, Append(times, t), others)
<1>1. PICK f : Places(f, S, times, calls)
  BY DEF Fits
<1>b. PICK top \in Nat : top = Len(times)
  OBVIOUS
<1>2. PICK more : more = Append(times, t) /\ top = Len(times)
  BY <1>b
<1>3. Len(more) = top + 1 /\ more[top + 1] = t /\ \A i \in 1..top : more[i] = times[i]
  BY <1>2
<1>4. PICK g : g = [d \in S \cup {c} |-> IF d = c THEN top + 1 ELSE f[d]]
  OBVIOUS
<1>5. g[c] = top + 1 /\ \A d \in S \ {c} : g[d] = f[d]
  BY <1>4
<1>6. \A d \in S : f[d] \in 1..top /\ times[f[d]] = calls[d].reserved
  BY <1>1, <1>2 DEF Places
<1>7. g \in [S \cup {c} -> 1..top + 1]
  BY <1>2, <1>4, <1>6
<1>8. \A d \in S \cup {c} : more[g[d]] = others[d].reserved
  BY <1>3, <1>5, <1>6
<1>9. ASSUME NEW d \in S \cup {c}, NEW e \in S \cup {c}, d # e PROVE g[d] # g[e]
  <2>1. \A x \in S : f[x] # top + 1
    BY <1>2, <1>6
  <2>2. CASE d = c \/ e = c
    BY <1>5, <1>9, <2>1, <2>2
  <2>3. CASE d # c /\ e # c
    BY <1>1, <1>5, <1>9, <2>3 DEF Places
  <2>4. QED
    BY <2>2, <2>3
<1>10. Places(g, S \cup {c}, more, others)
  BY <1>3, <1>7, <1>8, <1>9 DEF Places
<1>11. QED
  BY <1>2, <1>10 DEF Fits

(* A refund takes the time of the caller that leaves, or one that nobody needs;
   whoever stood at it moves to the place that was the leaver's. *)
LEMMA FitsWithout ==
  ASSUME NEW S, NEW T, NEW c, T \subseteq S \ {c}, NEW times \in Seq(Nat), NEW t,
         NEW calls, NEW others, Fits(S, times, calls),
         \A d \in T : others[d].reserved = calls[d].reserved,
         \/ c \in S /\ calls[c].reserved = t
         \/ \A d \in T : calls[d].reserved # t
  PROVE  Fits(T, Without(times, t), others)
<1>1. PICK f : Places(f, S, times, calls)
  BY DEF Fits
<1>b. PICK top \in Nat : top = Len(times)
  OBVIOUS
<1>2. PICK rest : rest = Without(times, t) /\ top = Len(times)
  BY <1>b
<1>3. CASE rest = times
  BY <1>2, <1>3, FitsLess
<1>4. CASE rest # times
  <2>1. PICK i \in 1..top : times[i] = t /\ Leaves(times, rest, i)
    BY <1>2, <1>4, WithoutIs
  <2>2. /\ Len(rest) = top - 1
        /\ \A j \in 1..top - 1 : rest[j] = IF j < i THEN times[j] ELSE times[j + 1]
    BY <1>2, <2>1 DEF Leaves
  <2>3. \A d \in S : f[d] \in 1..top /\ times[f[d]] = calls[d].reserved
    BY <1>1, <1>2 DEF Places
  <2>4. PICK g : g = [d \in T |-> IF f[d] = i THEN f[c] ELSE f[d]]
    OBVIOUS
  <2>5. ASSUME NEW d \in T
        PROVE  g[d] \in 1..top /\ g[d] # i /\ times[g[d]] = others[d].reserved
    <3>1. d \in S /\ d # c /\ calls[d].reserved = others[d].reserved
      OBVIOUS
    <3>2. CASE f[d] = i
      <4>1. calls[d].reserved = t
        BY <2>1, <2>3, <3>1, <3>2
      <4>2. c \in S /\ calls[c].reserved = t
        BY <4>1
      <4>3. g[d] = f[c] /\ f[c] # f[d]
        BY <1>1, <2>4, <3>1, <3>2, <4>2 DEF Places
      <4>4. QED
        BY <2>3, <3>1, <3>2, <4>1, <4>2, <4>3
    <3>3. CASE f[d] # i
      BY <2>3, <2>4, <3>1, <3>3
    <3>4. QED
      BY <3>2, <3>3
  <2>6. ASSUME NEW d \in T, NEW e \in T, d # e PROVE g[d] # g[e]
    <3>1. d \in S /\ e \in S /\ d # c /\ e # c /\ f[d] # f[e]
      BY <1>1, <2>6 DEF Places
    <3>2. c \in S => f[c] # f[d] /\ f[c] # f[e]
      BY <1>1, <3>1 DEF Places
    <3>3. f[d] = i => c \in S
      BY <2>1, <2>3, <3>1
    <3>4. f[e] = i => c \in S
      BY <2>1, <2>3, <3>1
    <3>5. QED
      BY <2>4, <3>1, <3>2, <3>3, <3>4
  <2>7. PICK h : h = [d \in T |-> IF g[d] < i THEN g[d] ELSE g[d] - 1]
    OBVIOUS
  <2>8. ASSUME NEW d \in T
        PROVE  /\ h[d] \in 1..top - 1 /\ rest[h[d]] = others[d].reserved
               /\ g[d] = IF h[d] < i THEN h[d] ELSE h[d] + 1
    <3>1. PICK x : x = g[d]
      OBVIOUS
    <3>2. x \in 1..top /\ x # i /\ times[x] = others[d].reserved
      BY <2>5, <3>1
    <3>3. CASE x < i
      <4>1. h[d] = x /\ x \in 1..top - 1
        BY <2>7, <3>1, <3>2, <3>3
      <4>2. QED
        BY <2>2, <3>1, <3>2, <3>3, <4>1
    <3>4. CASE ~(x < i)
      <4>1. h[d] = x - 1 /\ x - 1 \in 1..top - 1 /\ ~(x - 1 < i) /\ (x - 1) + 1 = x
        BY <2>7, <3>1, <3>2, <3>4
      <4>2. rest[h[d]] = times[x]
        BY <2>2, <4>1
      <4>3. QED
        BY <3>1, <3>2, <4>1, <4>2
    <3>5. QED
      BY <3>3, <3>4
  <2>9. h \in [T -> 1..Len(rest)]
    <3>1. \A d \in T : h[d] \in 1..Len(rest)
      BY <2>2, <2>8
    <3>2. DOMAIN h = T /\ h = [d \in T |-> h[d]]
      BY <2>7
    <3>3. QED
      BY <3>1, <3>2
  <2>10. \A d, e \in T : d # e => h[d] # h[e]
    BY <2>6, <2>8
  <2>11. Places(h, T, rest, others)
    BY <2>8, <2>9, <2>10 DEF Places
  <2>12. QED
    BY <1>2, <2>11 DEF Fits
<1>5. QED
  BY <1>3, <1>4

LEMMA FitsCount ==
  ASSUME NEW S, IsFiniteSet(S), NEW times \in Seq(Nat), NEW calls, Fits(S, times, calls)
  PROVE  Cardinality(S) <= Len(times)
<1>1. PICK f : Places(f, S, times, calls)
  BY DEF Fits
<1>2. PICK top \in Nat : top = Len(times)
  OBVIOUS
<1>3. IsFiniteSet(1..top) /\ Cardinality(1..top) = top
  <2>1. 1 \in Int /\ top \in Int
    OBVIOUS
  <2>2. IsFiniteSet(1..top) /\ Cardinality(1..top) = IF 1 > top THEN 0 ELSE top - 1 + 1
    BY <2>1, FS_Interval
  <2>3. QED
    BY <2>2
<1>4. f \in [S -> 1..top] /\ \A c, d \in S : c # d => f[c] # f[d]
  BY <1>1, <1>2 DEF Places
<1>5. ~(Cardinality(1..top) < Cardinality(S))
  BY <1>3, <1>4, FS_PigeonHole
<1>6. Cardinality(S) \in Nat
  BY FS_CardinalityType
<1>7. QED
  BY <1>2, <1>3, <1>5, <1>6

-----------------------------------------------------------------------------
(* A group that is used up until some time *)

(* r has no room before t unless a lease ends, it is told of a change, or its
   limits are. *)
Stuck(r, t) ==
  \/ r.inflight >= r.maxInflight
  \/ r.cooldown >= t
  \/ Len(r.sent) >= r.rpm /\ r.sent[Len(r.sent) - r.rpm + 1] + Minute >= t

(* Pruning leaves the last times of the window where they are from the end. *)
LEMMA TailIsKept ==
  ASSUME NEW times \in Seq(Nat), now \in Nat, NEW k \in Nat \ {0}, Len(times) >= k,
         times[Len(times) - k + 1] + Minute > now
  PROVE  /\ Recent(times) \in Seq(Nat) /\ Len(Recent(times)) >= k
         /\ Recent(times)[Len(Recent(times)) - k + 1] = times[Len(times) - k + 1]
<1>a. PICK n \in Nat : Prunes(times, Recent(times), n)
  BY RecentIs
<1>1. PICK rest : rest = Recent(times) /\ Prunes(times, rest, n)
  BY <1>a
<1>b. PICK top \in Nat : top = Len(times)
  OBVIOUS
<1>2. PICK i : top = Len(times) /\ i = top - k + 1
  BY <1>b
<1>3. /\ n \in 0..top /\ (\A j \in 1..n : times[j] + Minute <= now)
      /\ rest \in Seq(Nat) /\ Len(rest) = top - n
      /\ \A j \in 1..top - n : rest[j] = times[j + n]
  BY <1>1, <1>2 DEF Prunes
<1>4. i \in 1..top /\ times[i] \in Nat /\ Minute \in Nat
  BY <1>2, EgressPoolAssumption
<1>5. i \notin 1..n
  <2>1. times[i] + Minute > now
    BY <1>2
  <2>2. SUFFICES ASSUME i \in 1..n PROVE FALSE
    OBVIOUS
  <2>3. times[i] + Minute <= now
    BY <1>3, <2>2
  <2>4. PICK x : x = times[i]
    OBVIOUS
  <2>5. QED
    BY <1>4, <2>1, <2>3, <2>4
<1>6. i - n \in 1..top - n /\ (i - n) + n = i /\ Len(rest) >= k /\ Len(rest) - k + 1 = i - n
  BY <1>2, <1>3, <1>4, <1>5
<1>7. rest[i - n] = times[(i - n) + n]
  BY <1>3, <1>6
<1>8. QED
  BY <1>1, <1>2, <1>3, <1>6, <1>7

(* One more request leaves the kth time from the end no earlier. *)
LEMMA TailAppended ==
  ASSUME NEW times, now \in Nat, Ordered(times, now), NEW k \in Nat \ {0}, Len(times) >= k
  PROVE  LET more == Append(times, now) IN
         /\ Len(more) >= k
         /\ more[Len(more) - k + 1] >= times[Len(times) - k + 1]
<1>b. PICK top \in Nat : top = Len(times)
  BY DEF Ordered
<1>1. PICK more : more = Append(times, now) /\ top = Len(times)
  BY <1>b
<1>2. /\ Len(more) = top + 1 /\ more[top + 1] = now
      /\ \A i \in 1..top : more[i] = times[i] /\ times[i] \in Nat
  BY <1>1 DEF Ordered
<1>3. PICK i : i = top - k + 1
  OBVIOUS
<1>4. i \in 1..top /\ i + 1 \in 1..top + 1 /\ Len(more) - k + 1 = i + 1 /\ Len(more) >= k
  BY <1>1, <1>2, <1>3
<1>5. times[i] <= now
  BY <1>1, <1>4 DEF Ordered
<1>6. i + 1 \in 1..top => times[i] <= times[i + 1]
  BY <1>1, <1>4 DEF Ordered
<1>7. more[i + 1] >= times[i]
  <2>1. CASE i + 1 \in 1..top
    <3>1. times[i] \in Nat /\ times[i + 1] \in Nat /\ more[i + 1] = times[i + 1]
      BY <1>2, <1>4, <2>1
    <3>2. QED
      BY <1>6, <2>1, <3>1
  <2>2. CASE i + 1 = top + 1
    <3>1. times[i] \in Nat /\ more[i + 1] = now
      BY <1>2, <1>4, <2>2
    <3>2. QED
      BY <1>5, <3>1
  <2>3. QED
    BY <1>4, <2>1, <2>2
<1>8. QED
  BY <1>1, <1>3, <1>4, <1>7

-----------------------------------------------------------------------------
(* What the pool remembers, and what its sleepers rely on *)

(* Groups keep their requests in order and their cooldowns; a group that is not
   in the map is as good as new. *)
Remembered ==
  \A g \in Groups :
    /\ Ordered(groups[g].sent, now) /\ groups[g].cooldown = banned[g]
    /\ ~groups[g].known => groups[g] = NoGroup
    /\ groups[g].known => groups[g].rpm # 0

(* A lease that was ever granted is of a group in the map. *)
Owners ==
  \A c \in Callers : LET g == call[c].group IN
    /\ call[c].lease # "none" => g \in Groups
    /\ g \in Groups => groups[g].known

(* Every request that counts has a time of its own in its group. *)
Accounted == \A g \in Groups : Fits(Spent(g), groups[g].sent, call)

(* Until it is told, or its next try has come, the candidates of a sleeper are
   used up for as long as it meant to sleep. *)
Sound(c) ==
  Step(c) = "waiting" /\ ~call[c].notified /\ now < call[c].wake =>
    /\ ~closed
    /\ \A i \in DOMAIN Candidates(c) :
         LET g == Candidates(c)[i].group IN
         groups[g].known /\ Stuck(groups[g], call[c].wake)

Sleepers == \A c \in Callers : Sound(c)

JInv == IInv /\ TypeOK /\ Remembered /\ Owners /\ Accounted /\ Sleepers

-----------------------------------------------------------------------------
(* Types *)

(* A step that changes one call and nothing else that has a type. *)
LEMMA OneCallTyped ==
  ASSUME TypeOK, NEW c \in Callers, NEW r \in CallRecords, call' = [call EXCEPT ![c] = r]
  PROVE  call' \in [Callers -> CallRecords]
BY DEF TypeOK

LEMMA NotifiedTyped ==
  ASSUME NEW calls \in [Callers -> CallRecords]
  PROVE  /\ Notified(calls) \in [Callers -> CallRecords]
         /\ \A c \in Callers :
              LET r == Notified(calls)[c] IN
              /\ r.lease = calls[c].lease /\ r.group = calls[c].group /\ r.step = calls[c].step
              /\ r.reserved = calls[c].reserved /\ r.sent = calls[c].sent
              /\ r.step = "waiting" => r.notified
<1> SUFFICES ASSUME NEW c \in Callers
             PROVE  LET r == Notified(calls)[c] IN
                    /\ r \in CallRecords
                    /\ r.lease = calls[c].lease /\ r.group = calls[c].group
                    /\ r.step = calls[c].step
                    /\ r.reserved = calls[c].reserved /\ r.sent = calls[c].sent
                    /\ r.step = "waiting" => r.notified
  BY DEF Notified
<1>1. calls[c] \in CallRecords
  OBVIOUS
<1>2. CASE calls[c].step = "waiting"
  <2>1. PICK r : r = [calls[c] EXCEPT !.notified = TRUE]
    OBVIOUS
  <2>2. Notified(calls)[c] = r
    BY <1>2, <2>1 DEF Notified
  <2>3. r \in CallRecords
    BY <1>1, <2>1 DEF CallRecords
  <2>4. /\ r.lease = calls[c].lease /\ r.group = calls[c].group /\ r.step = calls[c].step
        /\ r.reserved = calls[c].reserved /\ r.sent = calls[c].sent /\ r.notified
    BY <1>1, <2>1 DEF CallRecords
  <2>5. QED
    BY <2>2, <2>3, <2>4
<1>3. CASE calls[c].step # "waiting"
  <2>1. Notified(calls)[c] = calls[c]
    BY <1>3 DEF Notified
  <2>2. QED
    BY <1>1, <1>3, <2>1
<1>4. QED
  BY <1>2, <1>3

LEMMA ConfigTyped ==
  ASSUME config \in Configs
  PROVE  config.wait \in Nat /\ config.enabled \in BOOLEAN /\ config.endpoints \in Seq(Endpoints)
BY ConfigsAssumption DEF ValidConfig

(* A step of one call that leaves the groups alone: its lease and its place in the
   accounts stay, and it does not go to sleep. *)
Quiet(c) ==
  /\ call' \in [Callers -> CallRecords] /\ \A d \in Callers \ {c} : call'[d] = call[d]
  /\ LET r == call[c]
         s == call'[c]
     IN /\ s.lease = r.lease /\ s.group = r.group /\ s.reserved = r.reserved
        /\ s.sent # r.sent => r.lease = "held"
        /\ s.step = "waiting" => r.step = "waiting" /\ s.notified = r.notified /\ s.wake = r.wake
  /\ UNCHANGED <<settings, pool>>

LEMMA QuietSteps ==
  ASSUME IInv, TypeOK, NEW c \in Callers,
         \/ NotHandled(c) \/ Begin(c) \/ Operate(c) \/ AcquireFails(c) \/ WaitEnds(c) \/ Wake(c)
         \/ CheckContext(c) \/ GetClient(c) \/ MarkSent(c) \/ DoAnswers(c) \/ OfferFails(c)
         \/ Cancel(c) \/ Offer(c) \/ Publish(c)
  PROVE  Quiet(c)
<1>1. call[c] \in CallRecords /\ DOMAIN call = Callers /\ config.wait \in Nat /\ now \in Nat
  BY ConfigTyped DEF TypeOK
<1>2. UNCHANGED <<settings, pool>>
  BY DEF NotHandled, Begin, Operate, AcquireFails, WaitEnds, Wake, CheckContext, GetClient,
     MarkSent, DoAnswers, OfferFails, Cancel, Offer, Publish
<1>3. PICK s : /\ call' = [call EXCEPT ![c] = s] /\ s \in CallRecords
               /\ s.lease = call[c].lease /\ s.group = call[c].group
               /\ s.reserved = call[c].reserved
               /\ s.sent # call[c].sent => call[c].lease = "held"
               /\ s.step = "waiting" => /\ call[c].step = "waiting" /\ s.wake = call[c].wake
                                        /\ s.notified = call[c].notified
  <2> DEFINE OK(s) == /\ s \in CallRecords
                      /\ s.lease = call[c].lease /\ s.group = call[c].group
                      /\ s.reserved = call[c].reserved
                      /\ s.sent # call[c].sent => call[c].lease = "held"
                      /\ s.step = "waiting" => /\ call[c].step = "waiting" /\ s.wake = call[c].wake
                                               /\ s.notified = call[c].notified
  <2>1. CASE \/ NotHandled(c) \/ Begin(c) \/ Wake(c) \/ CheckContext(c) \/ GetClient(c)
             \/ DoAnswers(c) \/ OfferFails(c) \/ Offer(c) \/ Publish(c)
    <3>1. PICK next \in Steps \ {"waiting"} : call' = [call EXCEPT ![c] = [call[c] EXCEPT !.step = next]]
      BY <2>1 DEF NotHandled, Begin, Wake, CheckContext, GetClient, DoAnswers, OfferFails, Offer,
         Publish, Steps
    <3>2. PICK s : s = [call[c] EXCEPT !.step = next]
      OBVIOUS
    <3>3. OK(s)
      BY <1>1, <3>2 DEF CallRecords
    <3>4. QED
      BY <3>1, <3>2, <3>3
  <2>2. CASE AcquireFails(c) \/ WaitEnds(c)
    <3>1. PICK s : s = [call[c] EXCEPT !.step = "ended", !.op = "finished"]
      OBVIOUS
    <3>2. call' = [call EXCEPT ![c] = s]
      BY <2>2, <3>1 DEF AcquireFails, WaitEnds, Ended
    <3>3. OK(s)
      BY <1>1, <3>1 DEF CallRecords, Steps
    <3>4. QED
      BY <3>2, <3>3
  <2>3. CASE Operate(c)
    <3>1. CASE closed
      <4>1. PICK s : s = [call[c] EXCEPT !.step = "ended"]
        OBVIOUS
      <4>2. call' = [call EXCEPT ![c] = s]
        BY <2>3, <3>1, <4>1 DEF Operate
      <4>3. OK(s)
        BY <1>1, <4>1 DEF CallRecords, Steps
      <4>4. QED
        BY <4>2, <4>3
    <3>2. CASE ~closed
      <4>1. PICK t \in Nat : t = IF config.wait = 0 THEN 0 ELSE now + config.wait
        BY <1>1
      <4>2. PICK s : s = [call[c] EXCEPT !.step = "acquiring", !.op = "live", !.limit = t]
        OBVIOUS
      <4>3. call' = [call EXCEPT ![c] = s]
        BY <2>3, <3>2, <4>1, <4>2 DEF Operate
      <4>4. OK(s)
        BY <1>1, <4>2 DEF CallRecords, Steps
      <4>5. QED
        BY <4>3, <4>4
    <3>3. QED
      BY <3>1, <3>2
  <2>4. CASE MarkSent(c)
    <3>1. PICK s : s = [call[c] EXCEPT !.step = "sending", !.sent = TRUE]
      OBVIOUS
    <3>2. call' = [call EXCEPT ![c] = s] /\ call[c].lease = "held"
      BY <2>4, <3>1 DEF MarkSent, IInv, Calls, Consistent, Step
    <3>3. OK(s)
      BY <1>1, <3>1, <3>2 DEF CallRecords, Steps
    <3>4. QED
      BY <3>2, <3>3
  <2>5. CASE Cancel(c)
    <3>1. PICK s : s = [call[c] EXCEPT !.op = "cancelled"]
      OBVIOUS
    <3>2. call' = [call EXCEPT ![c] = s]
      BY <2>5, <3>1 DEF Cancel
    <3>3. OK(s)
      BY <1>1, <3>1 DEF CallRecords
    <3>4. QED
      BY <3>2, <3>3
  <2>6. QED
    BY <2>1, <2>2, <2>3, <2>4, <2>5
<1>4. call' \in [Callers -> CallRecords]
  BY <1>3, OneCallTyped
<1>5. (\A d \in Callers \ {c} : call'[d] = call[d]) /\ call'[c] = s
  BY <1>1, <1>3
<1>6. QED
  BY <1>2, <1>3, <1>4, <1>5 DEF Quiet

LEMMA QuietTypes ==
  ASSUME TypeOK, IInv', NEW c \in Callers, Quiet(c) PROVE TypeOK'
<1>1. /\ now' = now /\ edits' = edits /\ config' = config /\ groups' = groups
      /\ cursor' = cursor /\ closed' = closed /\ banned' = banned
      /\ call' \in [Callers -> CallRecords]
  BY DEF Quiet, settings, pool
<1>2. /\ poolStreams' \subseteq Callers /\ serviceStreams' \subseteq Callers
      /\ shutdown' \in {"running", "stopped", "closing", "done"}
      /\ toClose' \subseteq Callers /\ toUnregister' \subseteq Callers
  BY DEF IInv, Streams, Stopping
<1>3. QED
  BY <1>1, <1>2 DEF TypeOK

(* A caller counts if its lease was granted for a request of the last minute that
   was sent or may still be. *)
Counts(r, g, t) ==
  /\ r.lease # "none" /\ r.group = g
  /\ r.sent \/ r.lease = "held"
  /\ r.reserved + Minute > t

LEMMA SpentCounts ==
  /\ \A g : Spent(g) = {c \in Callers : Counts(call[c], g, now)}
  /\ \A g : Spent(g)' = {c \in Callers : Counts(call'[c], g, now')}
BY DEF Spent, Counts, Held

(* A step that keeps every lease, and leaves the groups as they are. *)
LEMMA SameAccounts ==
  ASSUME Owners, Accounted, now' = now, UNCHANGED groups,
         \A d \in Callers : LET r == call[d]
                                s == call'[d]
                            IN /\ s.lease = r.lease /\ s.group = r.group
                               /\ s.reserved = r.reserved
                               /\ s.sent # r.sent => r.lease = "held"
  PROVE  Owners' /\ Accounted'
<1>1. Owners'
  BY DEF Owners
<1>2. ASSUME NEW g \in Groups PROVE Fits(Spent(g)', groups'[g].sent, call')
  <2>1. \A d \in Callers : Counts(call'[d], g, now') => Counts(call[d], g, now)
    BY DEF Counts
  <2>2. Spent(g)' \subseteq Spent(g)
    BY <2>1, SpentCounts
  <2>3. \A d \in Spent(g)' : call'[d].reserved = call[d].reserved
    BY SpentCounts
  <2>4. QED
    BY <2>2, <2>3, FitsLess DEF Accounted
<1>3. QED
  BY <1>1, <1>2 DEF Accounted

LEMMA QuietKeeps ==
  ASSUME JInv, NEW c \in Callers, Quiet(c)
  PROVE  Remembered' /\ Owners' /\ Accounted' /\ Sleepers'
<1>1. UNCHANGED <<now, config, groups, closed, banned>>
  BY DEF Quiet, settings, pool
<1>2. Remembered'
  BY <1>1 DEF JInv, Remembered
<1>3. Owners' /\ Accounted'
  BY <1>1, SameAccounts DEF JInv, Quiet
<1>4. Sleepers'
  <2>1. \A d \in Callers : /\ Step(d)' = "waiting" => Step(d) = "waiting"
                           /\ Step(d)' = "waiting" => /\ call'[d].notified = call[d].notified
                                                      /\ call'[d].wake = call[d].wake
    BY DEF Quiet, Step
  <2>2. \A d \in Callers : Candidates(d)' = Candidates(d)
    BY <1>1 DEF Candidates, Selected, Known
  <2>3. QED
    BY <1>1, <2>1, <2>2 DEF JInv, Sleepers, Sound
<1>5. QED
  BY <1>2, <1>3, <1>4

-----------------------------------------------------------------------------
(* Looking at candidates *)

(* What a group may be after a look at it. *)
Seen(g, r) ==
  /\ r \in GroupRecords /\ r.inflight = groups[g].inflight /\ r.cooldown = groups[g].cooldown
  /\ r.sent \in {groups[g].sent, Recent(groups[g].sent)}
  /\ groups[g].known => /\ r.known /\ r.rpm = groups[g].rpm
                        /\ r.maxInflight = groups[g].maxInflight
  /\ r.known => r.rpm # 0
  /\ ~r.known => r = NoGroup

LEMMA GroupOfSeen ==
  ASSUME TypeOK, Remembered, NEW e \in Endpoints
  PROVE  /\ Seen(e.group, GroupOf(e)) /\ GroupOf(e).known
         /\ \A i \in 1..Len(GroupOf(e).sent) : GroupOf(e).sent[i] + Minute > now
         /\ groups[e.group].known \/ /\ GroupOf(e).rpm = e.rpm
                                     /\ GroupOf(e).maxInflight = e.maxInflight
<1>1. PICK g \in Groups : g = e.group
  BY DEF Endpoints
<1>2. groups[g] \in GroupRecords /\ now \in Nat
  BY DEF TypeOK
<1>3. CASE groups[g].known
  <2>1. PICK times \in Seq(Nat) : times = Recent(groups[g].sent)
    BY <1>2, RecentIs DEF GroupRecords, Prunes
  <2>2. PICK r : r = [groups[g] EXCEPT !.sent = times]
    OBVIOUS
  <2>3. GroupOf(e) = r
    BY <1>1, <1>3, <2>1, <2>2 DEF GroupOf
  <2>4. r \in GroupRecords
    BY <1>2, <2>2 DEF GroupRecords
  <2>5. /\ r.inflight = groups[g].inflight /\ r.cooldown = groups[g].cooldown
        /\ r.sent = times /\ r.known = groups[g].known /\ r.rpm = groups[g].rpm
        /\ r.maxInflight = groups[g].maxInflight
    BY <1>2, <2>2 DEF GroupRecords
  <2>6. groups[g].rpm # 0
    BY <1>3 DEF Remembered
  <2>7. \A i \in 1..Len(times) : times[i] + Minute > now
    BY <1>2, <2>1, OrderedRecent DEF Remembered
  <2>8. QED
    BY <1>1, <1>3, <2>1, <2>3, <2>4, <2>5, <2>6, <2>7 DEF Seen
<1>4. CASE ~groups[g].known
  <2>1. PICK r : r = [NoGroup EXCEPT !.known = TRUE, !.rpm = e.rpm, !.maxInflight = e.maxInflight]
    OBVIOUS
  <2>2. GroupOf(e) = r
    BY <1>1, <1>4, <2>1 DEF GroupOf
  <2>3. groups[g] = NoGroup
    BY <1>4 DEF Remembered
  <2>4. NoGroup \in GroupRecords /\ NoGroup.sent = <<>> /\ Len(NoGroup.sent) = 0
    <3>1. <<>> \in Seq(Nat)
      OBVIOUS
    <3>2. QED
      BY <3>1 DEF NoGroup, GroupRecords
  <2>5. e.rpm \in Nat \ {0} /\ e.maxInflight \in Nat
    BY DEF Endpoints
  <2>6. r \in GroupRecords
    BY <2>1, <2>4, <2>5 DEF GroupRecords
  <2>7. /\ r.inflight = NoGroup.inflight /\ r.cooldown = NoGroup.cooldown
        /\ r.sent = NoGroup.sent /\ r.known /\ r.rpm = e.rpm /\ r.maxInflight = e.maxInflight
    BY <2>1, <2>4 DEF GroupRecords
  <2>8. \A i \in 1..Len(r.sent) : FALSE
    BY <2>4, <2>7
  <2>9. QED
    BY <1>1, <1>4, <2>2, <2>3, <2>5, <2>6, <2>7, <2>8 DEF Seen
<1>5. QED
  BY <1>3, <1>4

LEMMA VisitedSeen ==
  ASSUME TypeOK, Remembered, NEW list \in Seq(Endpoints), NEW count \in 0..Len(list)
  PROVE  /\ Visited(list, count) \in [Groups -> GroupRecords]
         /\ \A g \in Groups : Seen(g, Visited(list, count)[g])
         /\ \A m \in 0..count - 1 : LET g == list[Turn(list, m)].group IN
              \E i \in DOMAIN list : list[i].group = g /\ Visited(list, count)[g] = GroupOf(list[i])
         /\ \A g \in Groups :
              \/ Visited(list, count)[g] = groups[g]
              \/ \E i \in DOMAIN list : list[i].group = g /\ Visited(list, count)[g] = GroupOf(list[i])
<1>1. cursor \in Nat /\ Len(list) \in Nat /\ DOMAIN list = 1..Len(list)
  BY DEF TypeOK
<1>2. \A m \in 0..count - 1 : Turn(list, m) \in DOMAIN list
  BY <1>1, TurnsAre
<1>3. PICK seen : seen = {list[Turn(list, m)] : m \in 0..count - 1}
  OBVIOUS
<1>4. /\ \A m \in 0..count - 1 : list[Turn(list, m)] \in seen
      /\ \A e \in seen : e \in Endpoints /\ \E i \in DOMAIN list : e = list[i]
  BY <1>1, <1>2, <1>3
<1>5. PICK q : q = Visited(list, count)
  OBVIOUS
<1>6. q = [g \in Groups |->
        IF \E e \in seen : e.group = g THEN GroupOf(CHOOSE e \in seen : e.group = g) ELSE groups[g]]
  BY <1>3, <1>5 DEF Visited
<1>7. ASSUME NEW g \in Groups
      PROVE  /\ Seen(g, q[g])
             /\ (\E e \in seen : e.group = g) =>
                  \E i \in DOMAIN list : list[i].group = g /\ q[g] = GroupOf(list[i])
             /\ q[g] = groups[g] \/ \E i \in DOMAIN list : list[i].group = g /\ q[g] = GroupOf(list[i])
  <2>1. CASE \E e \in seen : e.group = g
    <3>1. PICK e : e = CHOOSE x \in seen : x.group = g
      OBVIOUS
    <3>2. e \in seen /\ e.group = g
      BY <2>1, <3>1
    <3>3. q[g] = GroupOf(e)
      BY <1>6, <2>1, <3>1
    <3>4. QED
      BY <1>4, <3>2, <3>3, GroupOfSeen
  <2>2. CASE ~\E e \in seen : e.group = g
    <3>1. q[g] = groups[g] /\ groups[g] \in GroupRecords
      BY <1>6, <2>2 DEF TypeOK
    <3>2. QED
      BY <2>2, <3>1 DEF Seen, Remembered
  <2>3. QED
    BY <2>1, <2>2
<1>8. q \in [Groups -> GroupRecords]
  <2>1. \A g \in Groups : q[g] \in GroupRecords
    BY <1>7 DEF Seen
  <2>2. DOMAIN q = Groups /\ q = [g \in Groups |-> q[g]]
    BY <1>6
  <2>3. QED
    BY <2>1, <2>2
<1>9. \A m \in 0..count - 1 : LET g == list[Turn(list, m)].group IN
        g \in Groups /\ \E e \in seen : e.group = g
  BY <1>4 DEF Endpoints
<1>10. QED
  BY <1>5, <1>7, <1>8, <1>9

(* A look loses nothing that counts. *)
LEMMA SeenKeeps ==
  ASSUME TypeOK, Remembered, Accounted, NEW g \in Groups, NEW r, Seen(g, r)
  PROVE  /\ Ordered(r.sent, now) /\ Fits(Spent(g), r.sent, call)
         /\ \A t \in Nat : groups[g].known /\ now < t /\ Stuck(groups[g], t) => Stuck(r, t)
<1>1. groups[g] \in GroupRecords /\ r \in GroupRecords /\ now \in Nat /\ Minute \in Nat
  BY EgressPoolAssumption DEF TypeOK, Seen
<1>2. PICK times \in Seq(Nat) : times = groups[g].sent
  BY <1>1 DEF GroupRecords
<1>3. r.sent = times \/ r.sent = Recent(times)
  BY <1>2 DEF Seen
<1>4. Ordered(times, now) /\ Fits(Spent(g), times, call)
  BY <1>2 DEF Remembered, Accounted
<1>5. Ordered(Recent(times), now)
  BY <1>1, <1>4, OrderedRecent
<1>6. Fits(Spent(g), Recent(times), call)
  <2>1. \A c \in Spent(g) : call[c].reserved + Minute > now
    BY DEF Spent
  <2>2. QED
    BY <1>1, <1>4, <2>1, FitsRecent
<1>7. ASSUME NEW t \in Nat, groups[g].known, now < t, Stuck(groups[g], t) PROVE Stuck(r, t)
  <2>1. /\ r.inflight = groups[g].inflight /\ r.maxInflight = groups[g].maxInflight
        /\ r.cooldown = groups[g].cooldown /\ r.rpm = groups[g].rpm /\ r.rpm # 0
    BY <1>7 DEF Seen
  <2>2. CASE groups[g].inflight >= groups[g].maxInflight \/ groups[g].cooldown >= t
    BY <2>1, <2>2 DEF Stuck
  <2>3. CASE Len(times) >= r.rpm /\ times[Len(times) - r.rpm + 1] + Minute >= t
    <3>1. PICK k \in Nat \ {0} : k = r.rpm
      BY <1>1, <2>1 DEF GroupRecords
    <3>2. times[Len(times) - k + 1] + Minute > now
      <4>1. Len(times) - k + 1 \in 1..Len(times)
        BY <2>3, <3>1
      <4>2. PICK x \in Nat : x = times[Len(times) - k + 1]
        BY <4>1
      <4>3. x + Minute >= t
        BY <2>3, <3>1, <4>2
      <4>4. x + Minute > now
        BY ONLY <1>1, <1>7, <4>2, <4>3, t \in Nat
      <4>5. QED
        BY <4>2, <4>4
    <3>3. /\ Len(Recent(times)) >= k
          /\ Recent(times)[Len(Recent(times)) - k + 1] = times[Len(times) - k + 1]
      BY <1>1, <2>3, <3>1, <3>2, TailIsKept
    <3>4. Len(r.sent) >= k /\ r.sent[Len(r.sent) - k + 1] = times[Len(times) - k + 1]
      BY <1>3, <2>3, <3>1, <3>3
    <3>5. QED
      BY <2>3, <3>1, <3>4 DEF Stuck
  <2>4. QED
    BY <1>2, <1>7, <2>1, <2>2, <2>3 DEF Stuck
<1>8. QED
  BY <1>3, <1>4, <1>5, <1>6, <1>7

(* Candidates of one group have the same limits. *)
LEMMA CandidatesAlike ==
  ASSUME TypeOK, NEW c \in Callers, NEW i \in DOMAIN Candidates(c), NEW j \in DOMAIN Candidates(c),
         Candidates(c)[i].group = Candidates(c)[j].group
  PROVE  /\ Candidates(c)[i].rpm = Candidates(c)[j].rpm
         /\ Candidates(c)[i].maxInflight = Candidates(c)[j].maxInflight
         /\ GroupOf(Candidates(c)[i]) = GroupOf(Candidates(c)[j])
<1>1. /\ Candidates(c)[i].rpm = Candidates(c)[j].rpm
      /\ Candidates(c)[i].maxInflight = Candidates(c)[j].maxInflight
  <2>1. CASE \A k \in DOMAIN Candidates(c) :
               \E m \in DOMAIN config.endpoints : Candidates(c)[k] = config.endpoints[m]
    <3>1. PICK m \in DOMAIN config.endpoints : Candidates(c)[i] = config.endpoints[m]
      BY <2>1
    <3>2. PICK n \in DOMAIN config.endpoints : Candidates(c)[j] = config.endpoints[n]
      BY <2>1
    <3>3. ValidConfig(config)
      BY ConfigsAssumption DEF TypeOK
    <3>4. QED
      BY <3>1, <3>2, <3>3 DEF ValidConfig
  <2>2. CASE Candidates(c) = <<Unlisted(Pinned[c])>>
    <3>1. i = 1 /\ j = 1
      BY <2>2
    <3>2. QED
      BY <3>1
  <2>3. QED
    BY <2>1, <2>2, CandidatesAre DEF TypeOK
<1>2. QED
  BY <1>1 DEF GroupOf

-----------------------------------------------------------------------------
(* Going to sleep *)

LEMMA AvailableIs ==
  ASSUME TypeOK, Remembered, NEW e \in Endpoints
  PROVE  LET r == GroupOf(e) IN
         /\ AvailableAt(e) \in Nat
         /\ AvailableAt(e) >= r.cooldown
         /\ Len(r.sent) >= r.rpm =>
              AvailableAt(e) >= r.sent[Len(r.sent) - r.rpm + 1] + Minute
         /\ \A t \in Nat : AvailableAt(e) >= t =>
              \/ r.cooldown >= t
              \/ Len(r.sent) >= r.rpm /\ r.sent[Len(r.sent) - r.rpm + 1] + Minute >= t
<1>1. PICK r : r = GroupOf(e)
  OBVIOUS
<1>2. r \in GroupRecords /\ r.rpm # 0
  BY <1>1, GroupOfSeen DEF Seen
<1>3. PICK k \in Nat \ {0} : k = r.rpm
  BY <1>2 DEF GroupRecords
<1>4. PICK a \in Nat : a = r.cooldown
  BY <1>2 DEF GroupRecords
<1>5. PICK times \in Seq(Nat) : times = r.sent
  BY <1>2 DEF GroupRecords
<1>6. CASE Len(times) >= k
  <2>1. Len(times) - k + 1 \in 1..Len(times) /\ Minute \in Nat
    BY <1>6, EgressPoolAssumption
  <2>2. PICK x \in Nat : x = times[Len(times) - k + 1] + Minute
    BY <2>1
  <2>3. AvailableAt(e) = IF x > a THEN x ELSE a
    BY <1>1, <1>3, <1>4, <1>5, <1>6, <2>2 DEF AvailableAt, Later
  <2>4. r.sent[Len(r.sent) - r.rpm + 1] + Minute = x /\ Len(r.sent) >= r.rpm
    BY <1>3, <1>5, <1>6, <2>2
  <2>5. PICK v : v = AvailableAt(e)
    OBVIOUS
  <2>6. v \in Nat /\ v >= a /\ v >= x /\ \A t \in Nat : v >= t => a >= t \/ x >= t
    BY <2>2, <2>3, <2>5
  <2>7. QED
    BY <1>1, <1>4, <2>4, <2>5, <2>6
<1>7. CASE ~(Len(times) >= k)
  <2>1. AvailableAt(e) = a
    BY <1>1, <1>3, <1>4, <1>5, <1>7 DEF AvailableAt
  <2>2. QED
    BY <1>1, <1>3, <1>4, <1>5, <1>7, <2>1
<1>8. QED
  BY <1>6, <1>7

LEMMA NextTryIs ==
  ASSUME TypeOK, Remembered, NEW c \in Callers
  PROVE  /\ NextTry(c) \in Nat
         /\ \A i \in DOMAIN Candidates(c) : LET t == AvailableAt(Candidates(c)[i]) IN
              NextTry(c) <= IF t > now THEN t ELSE now + 1
<1>1. now \in Nat /\ Candidates(c) \in Seq(Endpoints)
  BY CandidatesAre DEF TypeOK
<1>2. PICK list : list = Candidates(c)
  OBVIOUS
<1>3. \A i \in DOMAIN list : list[i] \in Endpoints
  BY <1>1, <1>2
<1>4. PICK f : f = [i \in DOMAIN list |-> IF AvailableAt(list[i]) > now THEN AvailableAt(list[i]) ELSE now + 1]
  OBVIOUS
<1>5. \A i \in DOMAIN list : /\ f[i] \in Nat
                             /\ f[i] = IF AvailableAt(list[i]) > now THEN AvailableAt(list[i]) ELSE now + 1
  BY <1>1, <1>3, <1>4, AvailableIs
<1>6. PICK times : times = {IF AvailableAt(list[i]) > now THEN AvailableAt(list[i]) ELSE now + 1
                            : i \in DOMAIN list}
  OBVIOUS
<1>7. times \subseteq Nat /\ \A i \in DOMAIN list : f[i] \in times
  BY <1>5, <1>6
<1>8. NextTry(c) = IF times = {} THEN now + 1 ELSE CHOOSE t \in times : \A u \in times : t <= u
  BY <1>2, <1>6 DEF NextTry
<1>9. CASE times = {}
  <2>1. \A i \in DOMAIN list : FALSE
    BY <1>7, <1>9
  <2>2. QED
    BY <1>1, <1>2, <1>8, <1>9, <2>1
<1>10. CASE times # {}
  <2>1. \E t \in times : \A u \in times : t <= u
    BY <1>7, <1>10, Least
  <2>2. NextTry(c) \in times /\ \A u \in times : NextTry(c) <= u
    BY <1>8, <1>10, <2>1
  <2>3. QED
    BY <1>2, <1>5, <1>7, <2>2
<1>11. QED
  BY <1>9, <1>10

(* A candidate without room has none until the next try. *)
LEMMA StuckUntilNext ==
  ASSUME TypeOK, Remembered, NEW c \in Callers, NEW i \in DOMAIN Candidates(c),
         ~CanAdmit(Candidates(c)[i])
  PROVE  Stuck(GroupOf(Candidates(c)[i]), NextTry(c))
<1>1. PICK e : e = Candidates(c)[i]
  OBVIOUS
<1>2. e \in Endpoints /\ now \in Nat
  BY <1>1, CandidatesAre DEF TypeOK
<1>3. AvailableAt(e) \in Nat /\ NextTry(c) \in Nat
  BY <1>2, AvailableIs, NextTryIs
<1>4. GroupOf(e).inflight \in Nat /\ GroupOf(e).maxInflight \in Nat
  BY <1>2, GroupOfSeen DEF Seen, GroupRecords
<1>5. CASE AvailableAt(e) <= now
  <2>1. ~(GroupOf(e).inflight < GroupOf(e).maxInflight)
    BY <1>1, <1>5 DEF CanAdmit
  <2>2. GroupOf(e).inflight >= GroupOf(e).maxInflight
    BY <1>4, <2>1
  <2>3. QED
    BY <1>1, <2>2 DEF Stuck
<1>6. CASE ~(AvailableAt(e) <= now)
  <2>1. AvailableAt(e) > now
    BY <1>2, <1>3, <1>6
  <2>2. NextTry(c) <= AvailableAt(e)
    BY <1>1, <2>1, NextTryIs
  <2>3. AvailableAt(e) >= NextTry(c)
    BY <1>3, <2>2
  <2>4. QED
    BY <1>1, <1>2, <1>3, <2>3, AvailableIs DEF Stuck
<1>7. QED
  BY <1>5, <1>6

(* A sleeper that nobody disturbs sleeps on. *)
LEMMA SleepsOn ==
  ASSUME JInv, NEW c \in Callers, call'[c] = call[c], UNCHANGED <<now, config, closed>>,
         \A g \in Groups : \A t \in Nat :
           groups[g].known /\ now < t /\ Stuck(groups[g], t) =>
             groups'[g].known /\ Stuck(groups'[g], t)
  PROVE  Sound(c)'
<1>1. Candidates(c)' = Candidates(c)
  BY DEF Candidates, Selected, Known
<1>2. call[c].wake \in Nat
  BY DEF JInv, TypeOK, CallRecords
<1>3. \A i \in DOMAIN Candidates(c) : Candidates(c)[i].group \in Groups
  <2>1. Candidates(c) \in Seq(Endpoints)
    BY CandidatesAre DEF JInv, TypeOK
  <2>2. \A i \in DOMAIN Candidates(c) : Candidates(c)[i] \in Endpoints
    BY <2>1
  <2>3. QED
    BY <2>2 DEF Endpoints
<1>4. Step(c)' = Step(c)
  BY DEF Step
<1>5. Sound(c)
  BY DEF JInv, Sleepers
<1>6. QED
  BY <1>1, <1>2, <1>3, <1>4, <1>5 DEF Sound

(* Looking at candidates, as the accounts and the other sleepers see it. *)
LEMMA LookedKeeps ==
  ASSUME JInv, NEW list \in Seq(Endpoints), NEW count \in 0..Len(list),
         groups' = Visited(list, count), UNCHANGED <<now, config, closed, banned>>,
         \A d \in Callers : LET r == call[d]
                                s == call'[d]
                            IN /\ s.lease = r.lease /\ s.group = r.group
                               /\ s.reserved = r.reserved /\ s.sent = r.sent
  PROVE  /\ groups' \in [Groups -> GroupRecords]
         /\ Remembered' /\ Owners' /\ Accounted'
         /\ \A d \in Callers : call'[d] = call[d] => Sound(d)'
<1>1. TypeOK /\ Remembered /\ Owners /\ Accounted /\ Sleepers
  BY DEF JInv
<1>2. groups' \in [Groups -> GroupRecords] /\ \A g \in Groups : Seen(g, groups'[g])
  BY <1>1, VisitedSeen
<1>3. \A g \in Groups :
        /\ Ordered(groups'[g].sent, now) /\ Fits(Spent(g), groups'[g].sent, call)
        /\ \A t \in Nat : groups[g].known /\ now < t /\ Stuck(groups[g], t) => Stuck(groups'[g], t)
  BY <1>1, <1>2, SeenKeeps
<1>4. Remembered'
  BY <1>1, <1>2, <1>3 DEF Remembered, Seen
<1>5. Owners'
  BY <1>1, <1>2 DEF Owners, Seen
<1>6. Accounted'
  <2>1. ASSUME NEW g \in Groups PROVE Fits(Spent(g)', groups'[g].sent, call')
    <3>1. \A d \in Callers : Counts(call'[d], g, now') => Counts(call[d], g, now)
      BY DEF Counts
    <3>2. Spent(g)' \subseteq Spent(g)
      BY <3>1, SpentCounts
    <3>3. \A d \in Spent(g)' : call'[d].reserved = call[d].reserved
      BY SpentCounts
    <3>4. QED
      BY <1>3, <3>2, <3>3, FitsLess
  <2>2. QED
    BY <2>1 DEF Accounted
<1>7. ASSUME NEW d \in Callers, call'[d] = call[d] PROVE Sound(d)'
  <2>1. \A g \in Groups : groups[g].known => groups'[g].known
    BY <1>2 DEF Seen
  <2>2. QED
    BY <1>3, <1>7, <2>1, SleepsOn
<1>8. QED
  BY <1>2, <1>4, <1>5, <1>6, <1>7

LEMMA SleepKeeps ==
  ASSUME JInv, NEW c \in Callers, Sleep(c) \/ RefuseAtOnce(c)
  PROVE  /\ groups' \in [Groups -> GroupRecords] /\ call' \in [Callers -> CallRecords]
         /\ Remembered' /\ Owners' /\ Accounted' /\ Sleepers'
<1>1. TypeOK /\ Remembered
  BY DEF JInv
<1>2. call[c] \in CallRecords /\ call \in [Callers -> CallRecords] /\ NextTry(c) \in Nat
  BY <1>1, NextTryIs DEF TypeOK
<1>3. PICK list \in Seq(Endpoints) : list = Candidates(c)
  BY <1>1, CandidatesAre DEF TypeOK
<1>4. /\ groups' = Visited(list, Len(list)) /\ UNCHANGED <<now, config, closed, banned>> /\ ~closed
      /\ \A i \in DOMAIN list : ~CanAdmit(list[i])
  BY <1>3 DEF Sleep, RefuseAtOnce, settings, Blocked, Acquiring
<1>5. PICK s : /\ call' = [call EXCEPT ![c] = s] /\ s \in CallRecords
               /\ s.lease = call[c].lease /\ s.group = call[c].group
               /\ s.reserved = call[c].reserved /\ s.sent = call[c].sent
               /\ s.step = "waiting" => s.wake = NextTry(c)
  <2>1. CASE Sleep(c)
    <3>1. PICK s : s = [call[c] EXCEPT !.step = "waiting", !.wake = NextTry(c), !.notified = FALSE]
      OBVIOUS
    <3>2. call' = [call EXCEPT ![c] = s]
      BY <2>1, <3>1 DEF Sleep
    <3>3. s \in CallRecords
      BY <1>2, <3>1 DEF CallRecords, Steps
    <3>4. /\ s.lease = call[c].lease /\ s.group = call[c].group
          /\ s.reserved = call[c].reserved /\ s.sent = call[c].sent /\ s.wake = NextTry(c)
      BY <1>2, <3>1 DEF CallRecords
    <3>5. QED
      BY <3>2, <3>3, <3>4
  <2>2. CASE RefuseAtOnce(c)
    <3>1. PICK s : s = [call[c] EXCEPT !.step = "ended", !.op = "finished"]
      OBVIOUS
    <3>2. call' = [call EXCEPT ![c] = s]
      BY <2>2, <3>1 DEF RefuseAtOnce, Ended
    <3>3. s \in CallRecords
      BY <1>2, <3>1 DEF CallRecords, Steps
    <3>4. /\ s.lease = call[c].lease /\ s.group = call[c].group
          /\ s.reserved = call[c].reserved /\ s.sent = call[c].sent /\ s.step = "ended"
      BY <1>2, <3>1 DEF CallRecords
    <3>5. QED
      BY <3>2, <3>3, <3>4
  <2>3. QED
    BY <2>1, <2>2
<1>6. call' \in [Callers -> CallRecords] /\ call'[c] = s /\ \A d \in Callers \ {c} : call'[d] = call[d]
  BY <1>2, <1>5
<1>7. Len(list) \in 0..Len(list)
  BY <1>3
<1>8. /\ groups' \in [Groups -> GroupRecords]
      /\ Remembered' /\ Owners' /\ Accounted'
      /\ \A d \in Callers \ {c} : Sound(d)'
  BY <1>3, <1>4, <1>5, <1>6, <1>7, LookedKeeps
<1>9. Sound(c)'
  <2>1. SUFFICES ASSUME Step(c)' = "waiting" PROVE Sound(c)'
    BY DEF Sound
  <2>2. call'[c].wake = NextTry(c)
    BY <1>5, <1>6, <2>1 DEF Step
  <2>3. Candidates(c)' = list
    BY <1>3, <1>4 DEF Candidates, Selected, Known
  <2>4. ASSUME NEW i \in DOMAIN list
        PROVE  groups'[list[i].group].known /\ Stuck(groups'[list[i].group], NextTry(c))
    <3>1. i \in 1..Len(list) /\ Len(list) \in Nat /\ cursor \in Nat
      BY <1>1, <1>3, <2>4 DEF TypeOK
    <3>2. PICK m \in 0..Len(list) - 1 : Turn(list, m) = i
      BY <3>1, TurnsCover
    <3>3. PICK j \in DOMAIN list : /\ list[j].group = list[i].group
                                   /\ groups'[list[i].group] = GroupOf(list[j])
      BY <1>1, <1>4, <1>7, <3>2, VisitedSeen
    <3>4. groups'[list[i].group] = GroupOf(list[i])
      BY <1>1, <1>3, <2>4, <3>3, CandidatesAlike
    <3>5. list[i] \in Endpoints
      BY <1>3, <2>4
    <3>6. GroupOf(list[i]).known
      BY <1>1, <3>5, GroupOfSeen
    <3>7. Stuck(GroupOf(list[i]), NextTry(c))
      BY <1>1, <1>3, <1>4, <2>4, StuckUntilNext
    <3>8. QED
      BY <3>4, <3>6, <3>7
  <2>5. QED
    BY <1>4, <2>2, <2>3, <2>4 DEF Sound
<1>10. Sleepers'
  BY <1>8, <1>9 DEF Sleepers
<1>11. QED
  BY <1>6, <1>8, <1>10

-----------------------------------------------------------------------------
(* An admission *)

(* A request more: the accounts hold it, and nobody's wait becomes shorter. *)
LEMMA ReservedIs ==
  ASSUME NEW r \in GroupRecords, now \in Nat, Ordered(r.sent, now), r.rpm # 0
  PROVE  LET q == Reserved(r) IN
         /\ q \in GroupRecords /\ q.sent = Append(r.sent, now) /\ q.inflight = r.inflight + 1
         /\ q.known = r.known /\ q.rpm = r.rpm /\ q.maxInflight = r.maxInflight
         /\ q.cooldown = r.cooldown /\ Ordered(q.sent, now)
         /\ \A t \in Nat : Stuck(r, t) => Stuck(q, t)
<1>1. PICK q, more, m : /\ q = Reserved(r) /\ more = Append(r.sent, now) /\ m = r.inflight + 1
                        /\ q = [r EXCEPT !.inflight = m, !.sent = more]
  BY DEF Reserved
<1>2. more \in Seq(Nat) /\ m \in Nat
  BY <1>1 DEF GroupRecords
<1>3. q \in GroupRecords
  BY <1>1, <1>2 DEF GroupRecords
<1>4. /\ q.sent = more /\ q.inflight = m /\ q.known = r.known /\ q.rpm = r.rpm
      /\ q.maxInflight = r.maxInflight /\ q.cooldown = r.cooldown
  BY <1>1 DEF GroupRecords
<1>5. Ordered(more, now)
  BY <1>1, OrderedAppend
<1>6. ASSUME NEW t \in Nat, Stuck(r, t) PROVE Stuck(q, t)
  <2>1. CASE r.inflight >= r.maxInflight
    <3>1. r.inflight \in Nat /\ r.maxInflight \in Nat
      BY DEF GroupRecords
    <3>2. m >= r.maxInflight
      BY <1>1, <2>1, <3>1
    <3>3. QED
      BY <1>4, <3>2 DEF Stuck
  <2>2. CASE r.cooldown >= t
    BY <1>4, <2>2 DEF Stuck
  <2>3. CASE Len(r.sent) >= r.rpm /\ r.sent[Len(r.sent) - r.rpm + 1] + Minute >= t
    <3>1. PICK k \in Nat \ {0} : k = r.rpm
      BY DEF GroupRecords
    <3>2. PICK times \in Seq(Nat) : times = r.sent
      BY DEF GroupRecords
    <3>3. Len(more) >= k /\ more[Len(more) - k + 1] >= times[Len(times) - k + 1]
      BY <1>1, <2>3, <3>1, <3>2, TailAppended
    <3>a. PICK x, y : x = Len(times) /\ y = Len(more)
      OBVIOUS
    <3>b. x \in Nat /\ y \in Nat /\ x >= k /\ y >= k
      BY <1>2, <2>3, <3>1, <3>2, <3>3, <3>a
    <3>c. x - k + 1 \in 1..x /\ y - k + 1 \in 1..y
      BY ONLY <3>1, <3>b
    <3>4. /\ Len(times) - k + 1 \in 1..Len(times) /\ Len(more) - k + 1 \in 1..Len(more)
      BY <3>a, <3>c
    <3>d. times[Len(times) - k + 1] \in Nat /\ more[Len(more) - k + 1] \in Nat
      <4>1. \A i \in 1..Len(times) : times[i] \in Nat
        BY <3>2
      <4>2. \A i \in 1..Len(more) : more[i] \in Nat
        BY <1>2
      <4>3. QED
        BY <3>4, <4>1, <4>2
    <3>5. PICK u \in Nat, v \in Nat : u = times[Len(times) - k + 1] /\ v = more[Len(more) - k + 1]
      BY <3>d
    <3>6. u + Minute >= t /\ v >= u
      BY <2>3, <3>1, <3>2, <3>3, <3>5
    <3>7. Minute \in Nat
      BY EgressPoolAssumption
    <3>8. v + Minute >= t
      BY ONLY <3>5, <3>6, <3>7, t \in Nat
    <3>9. QED
      BY <1>4, <3>1, <3>3, <3>5, <3>8 DEF Stuck
  <2>4. QED
    BY <1>6, <2>1, <2>2, <2>3 DEF Stuck
<1>7. QED
  BY <1>1, <1>3, <1>4, <1>5, <1>6

(* Admit, as the groups and the calls see it: e is the endpoint, q what the loop
   has made of the groups, s the call afterwards. *)
Grants(c, list, n, q, s) ==
  /\ list = Candidates(c) /\ list \in Seq(Endpoints)
  /\ n \in 0..Len(list) - 1 /\ Turn(list, n) \in DOMAIN list
  /\ CanAdmit(list[Turn(list, n)]) /\ list[Turn(list, n)].group \in Groups
  /\ q = Visited(list, n + 1) /\ q \in [Groups -> GroupRecords]
  /\ q[list[Turn(list, n)].group] = GroupOf(list[Turn(list, n)])
  /\ groups' = [q EXCEPT ![list[Turn(list, n)].group] = Reserved(q[list[Turn(list, n)].group])]
  /\ call' = [call EXCEPT ![c] = s] /\ s \in CallRecords
  /\ s.step = "leased" /\ s.lease = "held" /\ s.group = list[Turn(list, n)].group
  /\ s.reserved = now /\ call[c].lease = "none"
  /\ UNCHANGED <<settings, closed, banned>> /\ cursor' \in Nat

LEMMA AdmitGrants ==
  ASSUME JInv, NEW c \in Callers, Admit(c)
  PROVE  \E list, n, q, s : Grants(c, list, n, q, s)
<1>1. TypeOK /\ Remembered
  BY DEF JInv
<1>2. PICK list \in Seq(Endpoints) : list = Candidates(c)
  BY <1>1, CandidatesAre DEF TypeOK
<1>3. PICK n \in 0..Len(list) - 1 :
        /\ CanAdmit(list[Turn(list, n)])
        /\ groups' = [Visited(list, n + 1) EXCEPT ![list[Turn(list, n)].group] = Reserved(@)]
        /\ cursor' = Turn(list, n) % Len(list)
        /\ call' = [call EXCEPT ![c] =
             [@ EXCEPT !.step = "leased", !.lease = "held", !.group = list[Turn(list, n)].group,
                       !.reserved = now]]
  BY <1>2 DEF Admit
<1>4. cursor \in Nat /\ Len(list) \in Nat /\ DOMAIN list = 1..Len(list) /\ n + 1 \in 0..Len(list)
      /\ n \in 0..(n + 1) - 1 /\ Len(list) # 0 /\ n \in Nat
  BY <1>1, <1>2, <1>3 DEF TypeOK
<1>5. PICK i, e, h : i = Turn(list, n) /\ e = list[i] /\ h = e.group
  OBVIOUS
<1>6. i \in DOMAIN list
  BY <1>4, <1>5, TurnsAre
<1>7. e \in Endpoints /\ h \in Groups
  <2>1. e \in Endpoints
    BY <1>2, <1>5, <1>6
  <2>2. QED
    BY <1>5, <2>1 DEF Endpoints
<1>8. PICK q : q = Visited(list, n + 1)
  OBVIOUS
<1>9. /\ q \in [Groups -> GroupRecords]
      /\ \E j \in DOMAIN list : list[j].group = h /\ q[h] = GroupOf(list[j])
  BY <1>1, <1>2, <1>4, <1>5, <1>8, VisitedSeen
<1>10. q[h] = GroupOf(e)
  BY <1>1, <1>2, <1>5, <1>6, <1>9, CandidatesAlike
<1>11. groups' = [q EXCEPT ![h] = Reserved(q[h])]
  BY <1>3, <1>5, <1>8
<1>12. PICK s : s = [call[c] EXCEPT !.step = "leased", !.lease = "held", !.group = h,
                                    !.reserved = now]
  OBVIOUS
<1>13. call' = [call EXCEPT ![c] = s]
  BY <1>3, <1>5, <1>12
<1>14. call[c] \in CallRecords /\ now \in Nat
  BY <1>1 DEF TypeOK
<1>15. s \in CallRecords
  BY <1>7, <1>12, <1>14 DEF CallRecords, Steps
<1>16. s.step = "leased" /\ s.lease = "held" /\ s.group = h /\ s.reserved = now
  BY <1>12, <1>14 DEF CallRecords
<1>17. call[c].lease = "none"
  BY DEF Admit, Acquiring, JInv, IInv, Calls, Consistent, Step
<1>18. UNCHANGED <<settings, closed, banned>> /\ cursor' \in Nat
  <2>1. Turn(list, n) \in Nat
    BY <1>4, <1>5, <1>6
  <2>2. QED
    BY <1>3, <1>4, <2>1 DEF Admit
<1>19. Grants(c, list, n, q, s)
  BY <1>2, <1>3, <1>5, <1>6, <1>7, <1>8, <1>9, <1>10, <1>11, <1>13, <1>15, <1>16, <1>17, <1>18
     DEF Grants
<1>20. QED
  BY <1>19

LEMMA AdmitKeeps ==
  ASSUME JInv, NEW c \in Callers, Admit(c)
  PROVE  /\ groups' \in [Groups -> GroupRecords] /\ call' \in [Callers -> CallRecords]
         /\ cursor' \in Nat /\ UNCHANGED <<settings, closed, banned>>
         /\ Remembered' /\ Owners' /\ Accounted' /\ Sleepers'
<1>1. TypeOK /\ Remembered /\ Owners /\ Accounted /\ Sleepers
  BY DEF JInv
<1>2. PICK list, n, q, s : Grants(c, list, n, q, s)
  BY AdmitGrants
<1>3. PICK h \in Groups : h = list[Turn(list, n)].group
  BY <1>2 DEF Grants
<1>4. /\ q \in [Groups -> GroupRecords] /\ groups' = [q EXCEPT ![h] = Reserved(q[h])]
      /\ call' = [call EXCEPT ![c] = s] /\ s \in CallRecords
      /\ s.step = "leased" /\ s.lease = "held" /\ s.group = h /\ s.reserved = now
      /\ call[c].lease = "none" /\ UNCHANGED <<settings, closed, banned>> /\ cursor' \in Nat
  BY <1>2, <1>3 DEF Grants
<1>5. call \in [Callers -> CallRecords] /\ now \in Nat
  BY <1>1 DEF TypeOK
<1>6. call' \in [Callers -> CallRecords] /\ call'[c] = s /\ \A d \in Callers \ {c} : call'[d] = call[d]
  BY <1>4, <1>5
<1>7. n + 1 \in 0..Len(list) /\ list \in Seq(Endpoints) /\ q = Visited(list, n + 1)
  <2>1. n \in 0..Len(list) - 1 /\ list \in Seq(Endpoints) /\ q = Visited(list, n + 1)
    BY <1>2 DEF Grants
  <2>2. Len(list) \in Nat
    BY <2>1
  <2>3. QED
    BY <2>1, <2>2
<1>8. \A g \in Groups : Seen(g, q[g])
  BY <1>1, <1>7, VisitedSeen
<1>9. \A g \in Groups :
        /\ Ordered(q[g].sent, now) /\ Fits(Spent(g), q[g].sent, call)
        /\ \A t \in Nat : groups[g].known /\ now < t /\ Stuck(groups[g], t) => Stuck(q[g], t)
  BY <1>1, <1>8, SeenKeeps
<1>10. q[h].known /\ q[h].rpm # 0
  <2>1. list[Turn(list, n)] \in Endpoints
    BY <1>2 DEF Grants
  <2>2. q[h] = GroupOf(list[Turn(list, n)])
    BY <1>2, <1>3 DEF Grants
  <2>3. q[h].known
    BY <1>1, <2>1, <2>2, GroupOfSeen
  <2>4. QED
    BY <1>8, <2>3 DEF Seen
<1>11. PICK r : r = Reserved(q[h])
  OBVIOUS
<1>12. /\ r \in GroupRecords /\ r.sent = Append(q[h].sent, now) /\ r.inflight = q[h].inflight + 1
       /\ r.known = q[h].known /\ r.rpm = q[h].rpm /\ r.maxInflight = q[h].maxInflight
       /\ r.cooldown = q[h].cooldown /\ Ordered(r.sent, now)
       /\ \A t \in Nat : Stuck(q[h], t) => Stuck(r, t)
  <2>1. q[h] \in GroupRecords /\ Ordered(q[h].sent, now)
    BY <1>4, <1>9
  <2>2. QED
    BY <1>5, <1>10, <1>11, <2>1, ReservedIs
<1>13. /\ groups' \in [Groups -> GroupRecords] /\ groups'[h] = r
       /\ \A g \in Groups \ {h} : groups'[g] = q[g]
  BY <1>4, <1>11, <1>12
<1>14. now' = now /\ config' = config /\ banned' = banned /\ closed' = closed
  BY <1>4 DEF settings
<1>15. Remembered'
  <2>1. ASSUME NEW g \in Groups
        PROVE  /\ Ordered(groups'[g].sent, now') /\ groups'[g].cooldown = banned'[g]
               /\ ~groups'[g].known => groups'[g] = NoGroup
               /\ groups'[g].known => groups'[g].rpm # 0
    <3>1. q[g].cooldown = banned[g] /\ (~q[g].known => q[g] = NoGroup) /\ (q[g].known => q[g].rpm # 0)
      BY <1>1, <1>8 DEF Seen, Remembered
    <3>2. CASE g = h
      BY <1>10, <1>12, <1>13, <1>14, <3>1, <3>2
    <3>3. CASE g # h
      BY <1>9, <1>13, <1>14, <3>1, <3>3
    <3>4. QED
      BY <3>2, <3>3
  <2>2. QED
    BY <2>1 DEF Remembered
<1>16. \A g \in Groups : groups[g].known => groups'[g].known
  BY <1>8, <1>10, <1>12, <1>13 DEF Seen
<1>17. Owners'
  <2>1. groups'[h].known
    BY <1>10, <1>12, <1>13
  <2>2. QED
    BY <1>1, <1>4, <1>6, <1>16, <2>1 DEF Owners
<1>18. Accounted'
  <2>1. ASSUME NEW g \in Groups \ {h} PROVE Fits(Spent(g)', groups'[g].sent, call')
    <3>1. \A d \in Callers : Counts(call'[d], g, now') => Counts(call[d], g, now) /\ d # c
      BY <1>4, <1>6, <1>14, <2>1 DEF Counts
    <3>2. Spent(g)' \subseteq Spent(g) /\ \A d \in Spent(g)' : call'[d].reserved = call[d].reserved
      BY <1>6, <3>1, SpentCounts
    <3>3. Fits(Spent(g), groups'[g].sent, call)
      BY <1>9, <1>13
    <3>4. QED
      BY <3>2, <3>3, FitsLess
  <2>2. Fits(Spent(h)', groups'[h].sent, call')
    <3>1. Fits(Spent(h) \cup {c}, r.sent, call')
      <4>1. \A d \in Spent(h) \ {c} : call'[d].reserved = call[d].reserved
        BY <1>6, SpentCounts
      <4>2. call'[c].reserved = now
        BY <1>4, <1>6
      <4>3. q[h].sent \in Seq(Nat)
        BY <1>4 DEF GroupRecords
      <4>4. PICK times, S : times = q[h].sent /\ S = Spent(h)
        OBVIOUS
      <4>5. /\ times \in Seq(Nat) /\ Fits(S, times, call) /\ now \in Nat
            /\ \A d \in S \ {c} : call'[d].reserved = call[d].reserved
        BY <1>5, <1>9, <4>1, <4>3, <4>4
      <4>6. Fits(S \cup {c}, Append(times, now), call')
        BY <4>2, <4>5, FitsAppend
      <4>7. QED
        BY <1>12, <4>4, <4>6
    <3>2. \A d \in Callers \ {c} : Counts(call'[d], h, now') => Counts(call[d], h, now)
      BY <1>6, <1>14
    <3>3. Spent(h)' \subseteq Spent(h) \cup {c}
      BY <3>2, SpentCounts
    <3>4. QED
      BY <1>13, <3>1, <3>3, FitsLess
  <2>3. QED
    BY <2>1, <2>2 DEF Accounted
<1>19. Sleepers'
  <2>1. \A g \in Groups : \A t \in Nat :
          groups[g].known /\ now < t /\ Stuck(groups[g], t) =>
            groups'[g].known /\ Stuck(groups'[g], t)
    BY <1>9, <1>12, <1>13, <1>16
  <2>2. \A d \in Callers \ {c} : Sound(d)'
    BY <1>6, <1>14, <2>1, SleepsOn
  <2>3. Sound(c)'
    BY <1>4, <1>6 DEF Sound, Step
  <2>4. QED
    BY <2>2, <2>3 DEF Sleepers
<1>20. QED
  BY <1>4, <1>6, <1>13, <1>15, <1>17, <1>18, <1>19

(* A group that admits has room by the accounts: for the requests of the last
   minute, for the leases that are out, and after its bans. *)
LEMMA RoomIs ==
  ASSUME JInv, NEW e \in Endpoints, CanAdmit(e)
  PROVE  /\ Cardinality(Spent(e.group)) < GroupOf(e).rpm
         /\ Cardinality(Leases(e.group)) < GroupOf(e).maxInflight
         /\ now >= banned[e.group]
<1>1. TypeOK /\ Remembered /\ Accounted
  BY DEF JInv
<1>2. PICK g \in Groups : g = e.group
  BY DEF Endpoints
<1>3. PICK r : r = GroupOf(e)
  OBVIOUS
<1>4. /\ Seen(g, r) /\ r.known /\ r \in GroupRecords /\ r.rpm # 0
      /\ \A i \in 1..Len(r.sent) : r.sent[i] + Minute > now
  BY <1>1, <1>2, <1>3, GroupOfSeen DEF Seen
<1>5. Fits(Spent(g), r.sent, call)
  BY <1>1, <1>4, SeenKeeps
<1>6. PICK times \in Seq(Nat), k \in Nat \ {0}, a \in Nat : times = r.sent /\ k = r.rpm /\ a = r.cooldown
  BY <1>4 DEF GroupRecords
<1>7. PICK v \in Nat : v = AvailableAt(e)
  BY <1>1, AvailableIs
<1>8. v <= now /\ r.inflight < r.maxInflight /\ now \in Nat /\ Minute \in Nat
  BY <1>1, <1>3, <1>7, EgressPoolAssumption DEF CanAdmit, TypeOK
<1>9. Len(times) < k
  <2>1. SUFFICES ASSUME Len(times) >= k PROVE FALSE
    BY <1>6
  <2>2. v >= times[Len(times) - k + 1] + Minute
    BY <1>1, <1>3, <1>6, <1>7, <2>1, AvailableIs
  <2>3. Len(times) - k + 1 \in 1..Len(times)
    BY <1>6, <2>1
  <2>4. PICK x \in Nat : x = times[Len(times) - k + 1]
    BY <2>3
  <2>5. x + Minute > now
    BY <1>4, <1>6, <2>3, <2>4
  <2>6. QED
    BY <1>7, <1>8, <2>2, <2>4, <2>5
<1>10. Cardinality(Spent(g)) <= Len(times) /\ Cardinality(Spent(g)) \in Nat
  <2>1. Spent(g) \subseteq Callers /\ IsFiniteSet(Callers)
    BY EgressPoolAssumption DEF Spent
  <2>2. IsFiniteSet(Spent(g))
    BY <2>1, FS_Subset
  <2>3. QED
    BY <1>5, <1>6, <2>2, FitsCount, FS_CardinalityType
<1>11. Cardinality(Spent(g)) < k
  BY <1>6, <1>9, <1>10
<1>12. r.inflight = Cardinality(Leases(g))
  BY <1>4 DEF Seen, JInv, IInv, Counted, InflightIsLeases
<1>13. now >= banned[g]
  <2>1. v >= a /\ a = banned[g]
    BY <1>1, <1>3, <1>4, <1>6, <1>7, AvailableIs DEF Seen, Remembered
  <2>2. QED
    BY <1>6, <1>7, <1>8, <2>1
<1>14. QED
  BY <1>2, <1>3, <1>6, <1>8, <1>11, <1>12, <1>13

-----------------------------------------------------------------------------
(* Steps after which every sleeper has been told *)

Told == \A d \in Callers : call'[d].step = "waiting" => call'[d].notified

LEMMA ToldSleepers == ASSUME Told PROVE Sleepers'
BY DEF Told, Sleepers, Sound, Step

LEMMA ReleaseKeeps ==
  ASSUME JInv, NEW c \in Callers, Held(c), Release(c), UNCHANGED <<now, config, banned>>
  PROVE  /\ groups' \in [Groups -> GroupRecords] /\ call' \in [Callers -> CallRecords]
         /\ Remembered' /\ Owners' /\ Accounted' /\ Sleepers'
<1>1. TypeOK /\ Remembered /\ Owners /\ Accounted /\ IInv
  BY DEF JInv
<1>2. /\ call \in [Callers -> CallRecords] /\ call[c] \in CallRecords /\ now \in Nat
      /\ groups \in [Groups -> GroupRecords]
  BY <1>1 DEF TypeOK
<1>3. PICK h \in Groups : h = call[c].group
  BY <1>1 DEF Owners, Held
<1>4. groups[h].known /\ groups[h] \in GroupRecords
  BY <1>1, <1>2, <1>3 DEF Owners
<1>5. PICK next : next = (CASE call[c].step = "streaming" -> "closed"
                            [] call[c].step = "offered" -> "offered" [] OTHER -> "ended")
  OBVIOUS
<1>6. PICK s : s = [call[c] EXCEPT !.step = next, !.op = "finished", !.lease = "released"]
  OBVIOUS
<1>7. PICK calls : calls = [call EXCEPT ![c] = s]
  OBVIOUS
<1>8. call' = Notified(calls)
  <2>1. s = AfterRelease(call[c])
    BY <1>5, <1>6 DEF AfterRelease
  <2>2. QED
    BY <1>7, <2>1 DEF Release
<1>9. /\ s \in CallRecords /\ s.lease = "released" /\ s.group = h
      /\ s.reserved = call[c].reserved /\ s.sent = call[c].sent
  <2>1. next \in Steps
    <3>1. next \in {"closed", "offered", "ended"}
      BY <1>5
    <3>2. QED
      BY <3>1 DEF Steps
  <2>2. s \in CallRecords
    BY <1>2, <1>6, <2>1 DEF CallRecords
  <2>3. QED
    BY <1>2, <1>3, <1>6, <2>2 DEF CallRecords
<1>10. calls \in [Callers -> CallRecords] /\ calls[c] = s /\ \A d \in Callers \ {c} : calls[d] = call[d]
  BY <1>2, <1>7, <1>9
<1>11. /\ call' \in [Callers -> CallRecords] /\ Told
       /\ \A d \in Callers : /\ call'[d].lease = calls[d].lease /\ call'[d].group = calls[d].group
                             /\ call'[d].reserved = calls[d].reserved
                             /\ call'[d].sent = calls[d].sent
  BY <1>8, <1>10, NotifiedTyped DEF Told
<1>12. /\ call'[c].lease = "released" /\ \A d \in Callers \ {c} : call'[d].lease = call[d].lease
       /\ \A d \in Callers : /\ call'[d].group = call[d].group
                             /\ call'[d].reserved = call[d].reserved
                             /\ call'[d].sent = call[d].sent
  BY <1>3, <1>9, <1>10, <1>11
<1>13. PICK times \in Seq(Nat), t \in Nat : times = groups[h].sent /\ t = call[c].reserved
  BY <1>2, <1>4 DEF GroupRecords, CallRecords
<1>14. PICK rest : rest = IF call[c].sent THEN times ELSE Without(times, t)
  OBVIOUS
<1>15. PICK m : m = groups[h].inflight - 1
  OBVIOUS
<1>16. PICK r : r = [groups[h] EXCEPT !.inflight = m, !.sent = rest]
  OBVIOUS
<1>17. groups' = [groups EXCEPT ![h] = r]
  BY <1>3, <1>13, <1>14, <1>15, <1>16 DEF Release, Released, Returned
<1>18. Ordered(rest, now)
  BY <1>1, <1>13, <1>14, OrderedWithout DEF Remembered
<1>19. m \in Nat
  <2>1. Counted'
    BY <1>1, Releasing
  <2>2. groups'[h] = r /\ GroupShape(groups'[h])
    BY <1>2, <1>17, <2>1 DEF Counted
  <2>3. r.inflight = m
    BY <1>4, <1>16 DEF GroupRecords
  <2>4. QED
    BY <2>2, <2>3 DEF GroupShape
<1>20. /\ r \in GroupRecords /\ r.known /\ r.sent = rest /\ r.cooldown = groups[h].cooldown
       /\ r.rpm = groups[h].rpm
  <2>1. rest \in Seq(Nat)
    BY <1>18 DEF Ordered
  <2>2. r \in GroupRecords
    BY <1>4, <1>16, <1>19, <2>1 DEF GroupRecords
  <2>3. QED
    BY <1>4, <1>16, <2>2 DEF GroupRecords
<1>21. /\ groups' \in [Groups -> GroupRecords] /\ groups'[h] = r
       /\ \A g \in Groups \ {h} : groups'[g] = groups[g]
  BY <1>2, <1>17, <1>20
<1>22. Remembered'
  <2>1. \A g \in Groups :
          /\ Ordered(groups'[g].sent, now) /\ groups'[g].cooldown = banned[g]
          /\ ~groups'[g].known => groups'[g] = NoGroup
          /\ groups'[g].known => groups'[g].rpm # 0
    BY <1>1, <1>4, <1>18, <1>20, <1>21 DEF Remembered
  <2>2. QED
    BY <2>1 DEF Remembered
<1>23. Owners'
  <2>1. \A g \in Groups : groups[g].known => groups'[g].known
    BY <1>20, <1>21
  <2>2. QED
    BY <1>1, <1>3, <1>12, <2>1 DEF Owners
<1>24. Accounted'
  <2>1. \A g : \A d \in Callers : Counts(call'[d], g, now') => Counts(call[d], g, now)
    BY <1>12 DEF Counts, Held
  <2>2. \A g : Spent(g)' \subseteq Spent(g)
    BY <2>1, SpentCounts
  <2>3. \A d \in Callers : call'[d].reserved = call[d].reserved
    BY <1>12
  <2>4. \A g : Spent(g)' \subseteq Callers
    BY SpentCounts
  <2>5. ASSUME NEW g \in Groups, groups'[g].sent = groups[g].sent
        PROVE  Fits(Spent(g)', groups'[g].sent, call')
    <3>1. Fits(Spent(g), groups[g].sent, call)
      BY <1>1 DEF Accounted
    <3>2. \A d \in Spent(g)' : call'[d].reserved = call[d].reserved
      BY <2>3, <2>4
    <3>3. QED
      BY <2>2, <2>5, <3>1, <3>2, FitsLess
  <2>6. ASSUME ~call[c].sent PROVE Fits(Spent(h)', groups'[h].sent, call')
    <3>1. PICK S, T : S = Spent(h) /\ T = Spent(h)'
      OBVIOUS
    <3>2. Fits(S, times, call)
      BY <1>1, <1>13, <3>1 DEF Accounted
    <3>3. ~Counts(call'[c], h, now')
      BY <1>12, <2>6 DEF Counts
    <3>4. c \notin T
      BY <3>1, <3>3, SpentCounts
    <3>5. T \subseteq S \ {c}
      BY <2>2, <3>1, <3>4
    <3>6. \A d \in T : call'[d].reserved = call[d].reserved
      BY <2>3, <2>4, <3>1
    <3>7. \/ c \in S /\ call[c].reserved = t
          \/ \A d \in T : call[d].reserved # t
      <4>1. CASE call[c].reserved + Minute > now
        <5>1. Counts(call[c], h, now)
          BY <1>3, <4>1 DEF Counts, Held
        <5>2. QED
          BY <1>13, <3>1, <5>1, SpentCounts
      <4>2. CASE ~(call[c].reserved + Minute > now)
        <5>1. \A d \in S : call[d].reserved + Minute > now
          BY <3>1, SpentCounts DEF Counts
        <5>2. QED
          BY <1>13, <3>5, <4>2, <5>1
      <4>3. QED
        BY <4>1, <4>2
    <3>8. Fits(T, Without(times, t), call')
      BY <3>2, <3>5, <3>6, <3>7, FitsWithout
    <3>9. QED
      BY <1>14, <1>20, <1>21, <2>6, <3>1, <3>8
  <2>7. ASSUME NEW g \in Groups PROVE Fits(Spent(g)', groups'[g].sent, call')
    <3>1. CASE g = h /\ ~call[c].sent
      BY <2>6, <3>1
    <3>2. CASE ~(g = h /\ ~call[c].sent)
      <4>1. groups'[g].sent = groups[g].sent
        BY <1>13, <1>14, <1>20, <1>21, <3>2
      <4>2. QED
        BY <2>5, <4>1
    <3>3. QED
      BY <3>1, <3>2
  <2>8. QED
    BY <2>7 DEF Accounted
<1>25. Sleepers'
  BY <1>11, ToldSleepers
<1>26. QED
  BY <1>11, <1>21, <1>22, <1>23, <1>24, <1>25

LEMMA ClosingKeeps ==
  ASSUME JInv, NEW c \in Callers,
         \/ Abandon(c) \/ DoFails(c) \/ DiscardAnswer(c) \/ DiscardOffer(c)
         \/ ReaderCloses(c) \/ ContextCloses(c) \/ PoolCloses(c) \/ ShutdownCloses(c)
  PROVE  /\ groups' \in [Groups -> GroupRecords] /\ call' \in [Callers -> CallRecords]
         /\ UNCHANGED <<settings, cursor, closed, banned>>
         /\ Remembered' /\ Owners' /\ Accounted' /\ Sleepers'
<1>1. UNCHANGED <<settings, cursor, closed, banned>>
  BY DEF Abandon, DoFails, DiscardAnswer, DiscardOffer, ReaderCloses, ContextCloses, PoolCloses,
     ShutdownCloses
<1>2. UNCHANGED <<now, config, banned, closed>>
  BY <1>1 DEF settings
<1>3. (Held(c) /\ Release(c)) \/ UNCHANGED <<groups, call>>
  <2>1. CASE Abandon(c) \/ DoFails(c)
    <3>1. Release(c) /\ Step(c) \in {"leased", "checked", "sending"}
      BY <2>1 DEF Abandon, DoFails
    <3>2. Held(c)
      BY <3>1 DEF JInv, IInv, Calls, Consistent, Held, Step
    <3>3. QED
      BY <3>1, <3>2
  <2>2. CASE \/ DiscardAnswer(c) \/ DiscardOffer(c) \/ ReaderCloses(c) \/ ContextCloses(c)
             \/ PoolCloses(c) \/ ShutdownCloses(c)
    <3>1. CloseLocal(c)
      BY <2>2 DEF DiscardAnswer, DiscardOffer, ReaderCloses, ContextCloses, PoolCloses,
         ShutdownCloses
    <3>2. CASE call[c].op = "finished"
      BY <3>1, <3>2 DEF CloseLocal
    <3>3. CASE call[c].op # "finished"
      <4>1. Release(c)
        BY <3>1, <3>3 DEF CloseLocal
      <4>2. Held(c)
        BY <2>2, <3>3 DEF DiscardAnswer, DiscardOffer, ReaderCloses, ContextCloses, PoolCloses,
           ShutdownCloses, JInv, IInv, Streams, Calls, Consistent, Held, Step, Running
      <4>3. QED
        BY <4>1, <4>2
    <3>4. QED
      BY <3>2, <3>3
  <2>3. QED
    BY <2>1, <2>2
<1>4. CASE Held(c) /\ Release(c)
  BY <1>1, <1>2, <1>4, ReleaseKeeps
<1>5. CASE UNCHANGED <<groups, call>>
  <2>1. TypeOK /\ Remembered /\ Owners /\ Accounted /\ Sleepers
    BY DEF JInv
  <2>2. groups' \in [Groups -> GroupRecords] /\ call' \in [Callers -> CallRecords]
    BY <1>5, <2>1 DEF TypeOK
  <2>3. Remembered'
    BY <1>2, <1>5, <2>1 DEF Remembered
  <2>4. Owners' /\ Accounted'
    BY <1>2, <1>5, <2>1, SameAccounts
  <2>5. Sleepers'
    <3>1. \A d \in Callers : Sound(d)'
      BY <1>2, <1>5, SleepsOn
    <3>2. QED
      BY <3>1 DEF Sleepers
  <2>6. QED
    BY <1>1, <2>2, <2>3, <2>4, <2>5
<1>6. QED
  BY <1>3, <1>4, <1>5

(* Where leases, requests and remembered times are the same. *)
LEMMA SameSent ==
  ASSUME Accounted, now' = now, \A g \in Groups : groups'[g].sent = groups[g].sent,
         \A d \in Callers : /\ call'[d].lease = call[d].lease /\ call'[d].group = call[d].group
                            /\ call'[d].reserved = call[d].reserved
                            /\ call'[d].sent = call[d].sent
  PROVE  Accounted'
<1>1. ASSUME NEW g \in Groups PROVE Fits(Spent(g)', groups'[g].sent, call')
  <2>1. \A d \in Callers : Counts(call'[d], g, now') => Counts(call[d], g, now)
    BY DEF Counts
  <2>2. Spent(g)' \subseteq Spent(g)
    BY <2>1, SpentCounts
  <2>3. \A d \in Spent(g)' : call'[d].reserved = call[d].reserved
    BY SpentCounts
  <2>4. Fits(Spent(g), groups'[g].sent, call)
    BY DEF Accounted
  <2>5. QED
    BY <2>2, <2>3, <2>4, FitsLess
<1>2. QED
  BY <1>1 DEF Accounted

LEMMA CoolDownKeeps ==
  ASSUME JInv, NEW c \in Callers, NEW d \in Cooldowns, CoolDown(c, d)
  PROVE  /\ groups' \in [Groups -> GroupRecords] /\ call' \in [Callers -> CallRecords]
         /\ banned' \in [Groups -> Nat] /\ UNCHANGED <<settings, cursor, closed>>
         /\ Remembered' /\ Owners' /\ Accounted' /\ Sleepers'
<1>1. TypeOK /\ Remembered /\ Owners /\ Accounted
  BY DEF JInv
<1>2. /\ call \in [Callers -> CallRecords] /\ call[c] \in CallRecords /\ now \in Nat
      /\ groups \in [Groups -> GroupRecords] /\ banned \in [Groups -> Nat] /\ d \in Nat
  BY <1>1, EgressPoolAssumption DEF TypeOK
<1>3. UNCHANGED <<settings, cursor, closed>> /\ now' = now
  BY DEF CoolDown, settings
<1>4. PICK next \in Steps : next = IF call[c].step = "streaming" THEN "limited" ELSE "ended"
  BY DEF Steps
<1>5. PICK s : s = [call[c] EXCEPT !.step = next]
  OBVIOUS
<1>6. /\ s \in CallRecords /\ s.lease = call[c].lease /\ s.group = call[c].group
      /\ s.reserved = call[c].reserved /\ s.sent = call[c].sent
  BY <1>2, <1>5 DEF CallRecords
<1>7. PICK calls : calls = [call EXCEPT ![c] = s]
  OBVIOUS
<1>8. call' = Notified(calls)
  BY <1>4, <1>5, <1>7 DEF CoolDown
<1>9. calls \in [Callers -> CallRecords] /\ calls[c] = s /\ \A e \in Callers \ {c} : calls[e] = call[e]
  BY <1>2, <1>6, <1>7
<1>10. /\ call' \in [Callers -> CallRecords] /\ Told
       /\ \A e \in Callers : /\ call'[e].lease = calls[e].lease /\ call'[e].group = calls[e].group
                             /\ call'[e].reserved = calls[e].reserved
                             /\ call'[e].sent = calls[e].sent
  BY <1>8, <1>9, NotifiedTyped DEF Told
<1>11. \A e \in Callers : /\ call'[e].lease = call[e].lease /\ call'[e].group = call[e].group
                          /\ call'[e].reserved = call[e].reserved
                          /\ call'[e].sent = call[e].sent
  BY <1>6, <1>9, <1>10
<1>12. PICK h : h = call[c].group
  OBVIOUS
<1>13. /\ groups' = [groups EXCEPT ![h].cooldown = Later(@, now + d)]
       /\ banned' = [banned EXCEPT ![h] = Later(@, now + d)]
  BY <1>12 DEF CoolDown
<1>14. ASSUME h \in Groups
      PROVE  /\ groups' \in [Groups -> GroupRecords] /\ banned' \in [Groups -> Nat] /\ Remembered'
             /\ \A g \in Groups : groups'[g].sent = groups[g].sent
             /\ \A g \in Groups : groups[g].known => groups'[g].known
  <2>1. groups[h] \in GroupRecords /\ groups[h].known /\ groups[h].cooldown = banned[h]
    BY <1>1, <1>2, <1>12, <1>14 DEF Owners, Remembered
  <2>2. PICK t \in Nat : t = Later(banned[h], now + d)
    BY <1>2, <1>14 DEF Later
  <2>3. PICK r : r = [groups[h] EXCEPT !.cooldown = t]
    OBVIOUS
  <2>4. r \in GroupRecords
    BY <2>1, <2>3 DEF GroupRecords
  <2>5. /\ r.cooldown = t /\ r.known /\ r.rpm = groups[h].rpm /\ r.sent = groups[h].sent
    BY <2>1, <2>3 DEF GroupRecords
  <2>6. groups' = [groups EXCEPT ![h] = r] /\ banned' = [banned EXCEPT ![h] = t]
    BY <1>13, <2>1, <2>2, <2>3
  <2>7. /\ groups' \in [Groups -> GroupRecords] /\ banned' \in [Groups -> Nat]
        /\ groups'[h] = r /\ banned'[h] = t
        /\ \A g \in Groups \ {h} : groups'[g] = groups[g] /\ banned'[g] = banned[g]
    BY <1>2, <1>14, <2>4, <2>6
  <2>8. /\ \A g \in Groups : groups'[g].sent = groups[g].sent
        /\ \A g \in Groups : groups[g].known => groups'[g].known
    BY <2>5, <2>7
  <2>9. Remembered'
    <3>1. \A g \in Groups :
            /\ Ordered(groups'[g].sent, now) /\ groups'[g].cooldown = banned'[g]
            /\ ~groups'[g].known => groups'[g] = NoGroup
            /\ groups'[g].known => groups'[g].rpm # 0
      BY <1>1, <2>1, <2>5, <2>7 DEF Remembered
    <3>2. QED
      BY <1>3, <3>1 DEF Remembered
  <2>10. QED
    BY <2>7, <2>8, <2>9
<1>15. ASSUME h \notin Groups
      PROVE  /\ groups' \in [Groups -> GroupRecords] /\ banned' \in [Groups -> Nat] /\ Remembered'
             /\ \A g \in Groups : groups'[g].sent = groups[g].sent
             /\ \A g \in Groups : groups[g].known => groups'[g].known
  <2>1. groups' = groups /\ banned' = banned
    BY <1>2, <1>13, <1>15
  <2>2. Remembered'
    BY <1>1, <1>3, <2>1 DEF Remembered
  <2>3. QED
    BY <1>2, <2>1, <2>2
<1>16. /\ groups' \in [Groups -> GroupRecords] /\ banned' \in [Groups -> Nat] /\ Remembered'
       /\ \A g \in Groups : groups'[g].sent = groups[g].sent
       /\ \A g \in Groups : groups[g].known => groups'[g].known
  BY <1>14, <1>15
<1>17. Owners'
  BY <1>1, <1>11, <1>16 DEF Owners
<1>18. Accounted'
  BY <1>1, <1>3, <1>11, <1>16, SameSent
<1>19. Sleepers'
  BY <1>10, ToldSleepers
<1>20. QED
  BY <1>3, <1>10, <1>16, <1>17, <1>18, <1>19

-----------------------------------------------------------------------------
(* The operator, the clock and the shutdown *)

LEMMA LimitsTyped ==
  ASSUME NEW cfg \in Configs, NEW g \in Groups, HasGroup(cfg, g)
  PROVE  /\ LimitsOf(cfg, g) \in Endpoints /\ LimitsOf(cfg, g).rpm \in Nat \ {0}
         /\ LimitsOf(cfg, g).maxInflight \in Nat
         /\ \A i \in DOMAIN cfg.endpoints : cfg.endpoints[i].group = g =>
              /\ LimitsOf(cfg, g).rpm = cfg.endpoints[i].rpm
              /\ LimitsOf(cfg, g).maxInflight = cfg.endpoints[i].maxInflight
<1>1. ValidConfig(cfg)
  BY ConfigsAssumption
<1>2. cfg.endpoints \in Seq(Endpoints)
  BY <1>1 DEF ValidConfig
<1>3. PICK S : S = {cfg.endpoints[i] : i \in DOMAIN cfg.endpoints}
  OBVIOUS
<1>4. \E e \in S : e.group = g
  BY <1>3 DEF HasGroup
<1>5. PICK e : e = LimitsOf(cfg, g)
  OBVIOUS
<1>6. e \in S /\ e.group = g
  BY <1>3, <1>4, <1>5 DEF LimitsOf
<1>7. PICK j \in DOMAIN cfg.endpoints : e = cfg.endpoints[j]
  BY <1>3, <1>6
<1>8. e \in Endpoints
  BY <1>2, <1>7
<1>9. e.rpm \in Nat \ {0} /\ e.maxInflight \in Nat
  BY <1>8 DEF Endpoints
<1>10. \A i \in DOMAIN cfg.endpoints : cfg.endpoints[i].group = g =>
         e.rpm = cfg.endpoints[i].rpm /\ e.maxInflight = cfg.endpoints[i].maxInflight
  BY <1>1, <1>6, <1>7 DEF ValidConfig
<1>11. QED
  BY <1>5, <1>8, <1>9, <1>10

LEMMA ApplyKeeps ==
  ASSUME JInv, NEW cfg \in Configs, Apply(cfg)
  PROVE  /\ groups' \in [Groups -> GroupRecords] /\ call' \in [Callers -> CallRecords]
         /\ config' \in Configs /\ edits' \in Nat /\ UNCHANGED <<now, cursor, closed, banned>>
         /\ Remembered' /\ Owners' /\ Accounted' /\ Sleepers'
<1>1. TypeOK /\ Remembered /\ Owners /\ Accounted
  BY DEF JInv
<1>2. /\ call \in [Callers -> CallRecords] /\ groups \in [Groups -> GroupRecords] /\ edits \in Nat
  BY <1>1 DEF TypeOK
<1>3. /\ UNCHANGED <<now, cursor, closed, banned>> /\ config' = cfg /\ edits' = edits + 1
      /\ call' = Notified(call)
  BY DEF Apply
<1>4. /\ call' \in [Callers -> CallRecords] /\ Told
      /\ \A e \in Callers : /\ call'[e].lease = call[e].lease /\ call'[e].group = call[e].group
                            /\ call'[e].reserved = call[e].reserved
                            /\ call'[e].sent = call[e].sent
  BY <1>2, <1>3, NotifiedTyped DEF Told
<1>5. ASSUME NEW g \in Groups
      PROVE  /\ groups'[g] \in GroupRecords /\ groups'[g].sent = groups[g].sent
             /\ groups'[g].known = groups[g].known /\ groups'[g].cooldown = groups[g].cooldown
             /\ groups'[g].known => groups'[g].rpm # 0
             /\ ~groups'[g].known => groups'[g] = NoGroup
  <2>1. groups[g] \in GroupRecords
    BY <1>2
  <2>2. CASE groups[g].known /\ HasGroup(cfg, g)
    <3>1. PICK k \in Nat \ {0}, m \in Nat : k = LimitsOf(cfg, g).rpm /\ m = LimitsOf(cfg, g).maxInflight
      BY <2>2, LimitsTyped
    <3>2. PICK r : r = [groups[g] EXCEPT !.rpm = k, !.maxInflight = m]
      OBVIOUS
    <3>3. groups'[g] = r
      BY <2>2, <3>1, <3>2 DEF Apply
    <3>4. r \in GroupRecords
      BY <2>1, <3>2 DEF GroupRecords
    <3>5. /\ r.sent = groups[g].sent /\ r.known = groups[g].known
          /\ r.cooldown = groups[g].cooldown /\ r.rpm = k
      BY <2>1, <3>2 DEF GroupRecords
    <3>6. QED
      BY <2>2, <3>1, <3>3, <3>4, <3>5
  <2>3. CASE ~(groups[g].known /\ HasGroup(cfg, g))
    <3>1. groups'[g] = groups[g]
      BY <2>3 DEF Apply
    <3>2. QED
      BY <1>1, <2>1, <3>1 DEF Remembered
  <2>4. QED
    BY <2>2, <2>3
<1>6. groups' \in [Groups -> GroupRecords]
  <2>1. DOMAIN groups' = Groups /\ groups' = [g \in Groups |-> groups'[g]]
    BY DEF Apply
  <2>2. QED
    BY <1>5, <2>1
<1>7. Remembered'
  BY <1>1, <1>3, <1>5 DEF Remembered
<1>8. Owners'
  BY <1>1, <1>4, <1>5 DEF Owners
<1>9. Accounted'
  BY <1>1, <1>3, <1>4, <1>5, SameSent
<1>10. Sleepers'
  BY <1>4, ToldSleepers
<1>11. config' \in Configs /\ edits' \in Nat
  BY <1>2, <1>3
<1>12. QED
  BY <1>3, <1>4, <1>6, <1>7, <1>8, <1>9, <1>10, <1>11

LEMMA ClosePoolKeeps ==
  ASSUME JInv, ClosePool
  PROVE  /\ call' \in [Callers -> CallRecords] /\ closed' \in BOOLEAN
         /\ UNCHANGED <<settings, groups, cursor, banned>>
         /\ Remembered' /\ Owners' /\ Accounted' /\ Sleepers'
<1>1. TypeOK /\ Remembered /\ Owners /\ Accounted
  BY DEF JInv
<1>2. /\ UNCHANGED <<settings, groups, cursor, banned>> /\ now' = now
      /\ call' = Notified(Cancelled(call)) /\ closed' = TRUE
  BY DEF ClosePool, settings
<1>3. PICK calls : calls = Cancelled(call)
  OBVIOUS
<1>4. ASSUME NEW e \in Callers
      PROVE  /\ calls[e] \in CallRecords /\ calls[e].lease = call[e].lease
             /\ calls[e].group = call[e].group /\ calls[e].reserved = call[e].reserved
             /\ calls[e].sent = call[e].sent
  <2>1. call[e] \in CallRecords
    BY <1>1 DEF TypeOK
  <2>2. PICK s : s = [call[e] EXCEPT !.op = "cancelled"]
    OBVIOUS
  <2>3. calls[e] \in {s, call[e]}
    BY <1>3, <2>2 DEF Cancelled
  <2>4. s \in CallRecords
    BY <2>1, <2>2 DEF CallRecords
  <2>5. /\ s.lease = call[e].lease /\ s.group = call[e].group
        /\ s.reserved = call[e].reserved /\ s.sent = call[e].sent
    BY <2>1, <2>2 DEF CallRecords
  <2>6. QED
    BY <2>1, <2>3, <2>4, <2>5
<1>5. calls \in [Callers -> CallRecords]
  <2>1. DOMAIN calls = Callers /\ calls = [e \in Callers |-> calls[e]]
    BY <1>3 DEF Cancelled
  <2>2. QED
    BY <1>4, <2>1
<1>6. /\ call' \in [Callers -> CallRecords] /\ Told
      /\ \A e \in Callers : /\ call'[e].lease = call[e].lease /\ call'[e].group = call[e].group
                            /\ call'[e].reserved = call[e].reserved
                            /\ call'[e].sent = call[e].sent
  BY <1>2, <1>3, <1>4, <1>5, NotifiedTyped DEF Told
<1>7. Remembered'
  BY <1>1, <1>2 DEF Remembered
<1>8. Owners' /\ Accounted'
  BY <1>1, <1>2, <1>6, SameAccounts
<1>9. Sleepers'
  BY <1>6, ToldSleepers
<1>10. QED
  BY <1>2, <1>6, <1>7, <1>8, <1>9

LEMMA TickKeeps ==
  ASSUME JInv, Tick
  PROVE  now' \in Nat /\ UNCHANGED <<config, edits, pool, call>>
         /\ Remembered' /\ Owners' /\ Accounted' /\ Sleepers'
<1>1. TypeOK /\ Remembered /\ Owners /\ Accounted /\ Sleepers
  BY DEF JInv
<1>2. UNCHANGED <<config, edits, pool, call>> /\ now' = now + 1 /\ now \in Nat
  BY <1>1 DEF Tick, TypeOK
<1>3. groups' = groups /\ closed' = closed /\ banned' = banned /\ config' = config /\ call' = call
  BY <1>2 DEF pool
<1>4. Remembered'
  <2>1. now' \in Nat /\ now <= now'
    BY <1>2
  <2>2. \A g \in Groups : Ordered(groups[g].sent, now')
    BY <1>1, <1>2, <2>1, OrderedLater DEF Remembered
  <2>3. QED
    BY <1>1, <1>3, <2>2 DEF Remembered
<1>5. Owners'
  BY <1>1, <1>3 DEF Owners
<1>6. Accounted'
  <2>1. \A d \in Callers : call[d].reserved \in Nat /\ Minute \in Nat
    BY <1>1, EgressPoolAssumption DEF TypeOK, CallRecords
  <2>2. \A g : \A d \in Callers : Counts(call'[d], g, now') => Counts(call[d], g, now)
    BY <1>2, <1>3, <2>1 DEF Counts
  <2>3. \A g : Spent(g)' \subseteq Spent(g)
    BY <2>2, SpentCounts
  <2>4. ASSUME NEW g \in Groups PROVE Fits(Spent(g)', groups'[g].sent, call')
    <3>1. Fits(Spent(g), groups[g].sent, call)
      BY <1>1 DEF Accounted
    <3>2. Fits(Spent(g)', groups[g].sent, call)
      BY <2>3, <3>1, FitsLess
    <3>3. QED
      BY <1>3, <3>2
  <2>5. QED
    BY <2>4 DEF Accounted
<1>7. Sleepers'
  <2>1. ASSUME NEW d \in Callers PROVE Sound(d)'
    <3>1. Sound(d) /\ Candidates(d)' = Candidates(d)
      BY <1>1, <1>3 DEF Sleepers, Candidates, Selected, Known
    <3>2. call[d].wake \in Nat
      BY <1>1 DEF TypeOK, CallRecords
    <3>3. now' < call[d].wake => now < call[d].wake
      BY <1>2, <3>2
    <3>4. QED
      BY <1>3, <3>1, <3>3 DEF Sound, Step
  <2>2. QED
    BY <2>1 DEF Sleepers
<1>8. QED
  BY <1>2, <1>4, <1>5, <1>6, <1>7

LEMMA IdleKeeps ==
  ASSUME JInv, UNCHANGED <<settings, pool, call>>
  PROVE  Remembered' /\ Owners' /\ Accounted' /\ Sleepers'
<1>1. TypeOK /\ Remembered /\ Owners /\ Accounted /\ Sleepers
  BY DEF JInv
<1>2. UNCHANGED <<now, config, groups, closed, banned, call>>
  BY DEF settings, pool
<1>3. Remembered'
  BY <1>1, <1>2 DEF Remembered
<1>4. Owners' /\ Accounted'
  BY <1>1, <1>2, SameAccounts
<1>5. \A d \in Callers : Sound(d)'
  BY <1>2, SleepsOn
<1>6. QED
  BY <1>3, <1>4, <1>5 DEF Sleepers

-----------------------------------------------------------------------------
(* The invariant of the pool's memory *)

LEMMA JInit == Init => JInv
<1> SUFFICES ASSUME Init PROVE JInv
  OBVIOUS
<1>1. IInv
  BY InitInv
<1>2. PICK s \in Starts :
       /\ now = s.now /\ config = s.config
       /\ call = [c \in Callers |->
            [step |-> IF c \in s.callers THEN "new" ELSE "ended", op |-> "none",
             lease |-> "none", group |-> None, reserved |-> 0, sent |-> FALSE,
             limit |-> 0, wake |-> 0, notified |-> FALSE]]
  BY DEF Init
<1>3. now \in Nat /\ config \in Configs
  <2>1. s \in [config : Configs, callers : SUBSET Callers, now : 0..MaxTime] /\ MaxTime \in Nat
    BY ConfigsAssumption, EgressPoolAssumption
  <2>2. QED
    BY <1>2, <2>1
<1>4. call \in [Callers -> CallRecords]
  <2>1. ASSUME NEW c \in Callers PROVE call[c] \in CallRecords
    <3>1. PICK next : next = IF c \in s.callers THEN "new" ELSE "ended"
      OBVIOUS
    <3>2. next \in Steps
      BY <3>1 DEF Steps
    <3>3. call[c] = [step |-> next, op |-> "none", lease |-> "none", group |-> None,
                     reserved |-> 0, sent |-> FALSE, limit |-> 0, wake |-> 0,
                     notified |-> FALSE]
      BY <1>2, <3>1
    <3>4. QED
      BY <3>2, <3>3 DEF CallRecords
  <2>2. DOMAIN call = Callers /\ call = [c \in Callers |-> call[c]]
    BY <1>2
  <2>3. QED
    BY <2>1, <2>2
<1>5. \A c \in Callers : /\ call[c].lease = "none" /\ call[c].group = None
                         /\ call[c].step # "waiting"
  BY <1>2
<1>6. groups = [g \in Groups |-> NoGroup] /\ banned = [g \in Groups |-> 0] /\ edits = 0 /\ cursor = 0
      /\ closed = FALSE
  BY DEF Init
<1>7. <<>> \in Seq(Nat) /\ Len(<<>>) = 0 /\ 1..0 = {}
  OBVIOUS
<1>8. NoGroup \in GroupRecords /\ NoGroup.sent = <<>> /\ NoGroup.cooldown = 0 /\ ~NoGroup.known
  BY <1>7 DEF NoGroup, GroupRecords
<1>9. TypeOK
  <2>1. groups \in [Groups -> GroupRecords] /\ banned \in [Groups -> Nat]
    BY <1>6, <1>8
  <2>2. /\ poolStreams \subseteq Callers /\ serviceStreams \subseteq Callers
        /\ shutdown \in {"running", "stopped", "closing", "done"}
        /\ toClose \subseteq Callers /\ toUnregister \subseteq Callers
    BY <1>1 DEF IInv, Streams, Stopping
  <2>3. QED
    BY <1>3, <1>4, <1>6, <2>1, <2>2 DEF TypeOK
<1>10. Remembered
  <2>1. Ordered(<<>>, now)
    BY <1>7 DEF Ordered
  <2>2. \A g \in Groups : groups[g] = NoGroup /\ banned[g] = 0
    BY <1>6
  <2>3. QED
    BY <1>8, <2>1, <2>2 DEF Remembered
<1>11. Owners
  BY <1>5, EgressPoolAssumption DEF Owners
<1>12. Accounted
  <2>1. ASSUME NEW g \in Groups PROVE Fits(Spent(g), groups[g].sent, call)
    <3>1. Spent(g) = {}
      BY <1>5 DEF Spent
    <3>2. PICK f : f = [c \in {} |-> 0]
      OBVIOUS
    <3>3. Places(f, {}, groups[g].sent, call)
      BY <3>2 DEF Places
    <3>4. QED
      BY <3>1, <3>3 DEF Fits
  <2>2. QED
    BY <2>1 DEF Accounted
<1>13. Sleepers
  BY <1>5 DEF Sleepers, Sound, Step
<1>14. QED
  BY <1>1, <1>9, <1>10, <1>11, <1>12, <1>13 DEF JInv

LEMMA JNext == JInv /\ [Next]_vars => JInv'
<1> SUFFICES ASSUME JInv, [Next]_vars PROVE JInv'
  OBVIOUS
<1> DEFINE Kept == Remembered' /\ Owners' /\ Accounted' /\ Sleepers'
           Typed == /\ now' \in Nat /\ edits' \in Nat /\ cursor' \in Nat /\ config' \in Configs
                    /\ groups' \in [Groups -> GroupRecords] /\ closed' \in BOOLEAN
                    /\ call' \in [Callers -> CallRecords] /\ banned' \in [Groups -> Nat]
<1>1. IInv'
  BY NextInv DEF JInv
<1>2. TypeOK
  BY DEF JInv
<1>3. /\ now \in Nat /\ edits \in Nat /\ cursor \in Nat /\ config \in Configs
      /\ groups \in [Groups -> GroupRecords] /\ closed \in BOOLEAN
      /\ call \in [Callers -> CallRecords] /\ banned \in [Groups -> Nat]
  BY <1>2 DEF TypeOK
<1>4. ASSUME NEW c \in Callers,
             \/ NotHandled(c) \/ Begin(c) \/ Operate(c) \/ AcquireFails(c) \/ WaitEnds(c) \/ Wake(c)
             \/ CheckContext(c) \/ GetClient(c) \/ MarkSent(c) \/ DoAnswers(c) \/ OfferFails(c)
             \/ Cancel(c) \/ Offer(c) \/ Publish(c)
      PROVE  Typed /\ Kept
  <2>1. Quiet(c)
    BY <1>4, QuietSteps DEF JInv
  <2>2. Typed
    BY <1>3, <2>1 DEF Quiet, settings, pool
  <2>3. QED
    BY <2>1, <2>2, QuietKeeps
<1>5. ASSUME NEW c \in Callers, Admit(c) PROVE Typed /\ Kept
  <2>1. UNCHANGED <<now, config, edits, closed, banned>> /\ Kept
    BY <1>5, AdmitKeeps DEF settings
  <2>2. QED
    BY <1>3, <1>5, <2>1, AdmitKeeps
<1>6. ASSUME NEW c \in Callers, Sleep(c) \/ RefuseAtOnce(c) PROVE Typed /\ Kept
  <2>1. UNCHANGED <<now, config, edits, cursor, closed, banned>>
    BY <1>6 DEF Sleep, RefuseAtOnce, settings
  <2>2. QED
    BY <1>3, <1>6, <2>1, SleepKeeps
<1>7. ASSUME NEW c \in Callers,
             \/ Abandon(c) \/ DoFails(c) \/ DiscardAnswer(c) \/ DiscardOffer(c)
             \/ ReaderCloses(c) \/ ContextCloses(c) \/ PoolCloses(c) \/ ShutdownCloses(c)
      PROVE  Typed /\ Kept
  <2>1. /\ groups' \in [Groups -> GroupRecords] /\ call' \in [Callers -> CallRecords]
        /\ UNCHANGED <<settings, cursor, closed, banned>> /\ Kept
    BY <1>7, ClosingKeeps
  <2>2. UNCHANGED <<now, config, edits, cursor, closed, banned>>
    BY <2>1 DEF settings
  <2>3. QED
    BY <1>3, <2>1, <2>2
<1>8. ASSUME NEW c \in Callers, NEW d \in Cooldowns, CoolDown(c, d) PROVE Typed /\ Kept
  <2>1. UNCHANGED <<now, config, edits, cursor, closed>>
    BY <1>8 DEF CoolDown, settings
  <2>2. QED
    BY <1>3, <1>8, <2>1, CoolDownKeeps
<1>9. ASSUME NEW cfg \in Followers[config], Apply(cfg) PROVE Typed /\ Kept
  <2>1. cfg \in Configs
    BY <1>3, ConfigsAssumption
  <2>2. QED
    BY <1>3, <1>9, <2>1, ApplyKeeps
<1>10. CASE Tick
  <2>1. Typed /\ Kept
    <3>1. now' \in Nat /\ UNCHANGED <<config, edits, pool, call>> /\ Kept
      BY <1>10, TickKeeps
    <3>2. QED
      BY <1>3, <3>1 DEF pool
  <2>2. QED
    <3>1. /\ poolStreams' \subseteq Callers /\ serviceStreams' \subseteq Callers
          /\ shutdown' \in {"running", "stopped", "closing", "done"}
          /\ toClose' \subseteq Callers /\ toUnregister' \subseteq Callers
      BY <1>1 DEF IInv, Streams, Stopping
    <3>2. QED
      BY <1>1, <2>1, <3>1 DEF TypeOK, JInv
<1>11. ASSUME ClosePool PROVE Typed /\ Kept
  <2>1. UNCHANGED <<now, config, edits, groups, cursor, banned>>
    BY <1>11 DEF ClosePool, settings
  <2>2. QED
    BY <1>3, <1>11, <2>1, ClosePoolKeeps
<1>12. ASSUME Stop \/ ShutdownDone \/ UNCHANGED vars PROVE Typed /\ Kept
  <2>1. UNCHANGED <<settings, pool, call>>
    BY <1>12 DEF Stop, ShutdownDone, vars, settings, pool
  <2>2. Typed
    BY <1>3, <2>1 DEF settings, pool
  <2>3. QED
    BY <2>1, <2>2, IdleKeeps
<1>13. ASSUME NEW c \in Callers, Opening(c) PROVE Typed /\ Kept
  BY <1>4, <1>5, <1>6, <1>7, <1>13 DEF Opening
<1>14. CASE ~Tick
  <2>1. Typed /\ Kept
    BY <1>4, <1>7, <1>8, <1>9, <1>11, <1>12, <1>13, <1>14 DEF Next
  <2>2. /\ poolStreams' \subseteq Callers /\ serviceStreams' \subseteq Callers
        /\ shutdown' \in {"running", "stopped", "closing", "done"}
        /\ toClose' \subseteq Callers /\ toUnregister' \subseteq Callers
    BY <1>1 DEF IInv, Streams, Stopping
  <2>3. QED
    BY <1>1, <2>1, <2>2 DEF TypeOK, JInv
<1>15. QED
  BY <1>10, <1>14

LEMMA Memory == Spec => []JInv
BY JInit, JNext, PTL DEF Spec

(* The pool's variables keep their types: no path of acquire, release or apply
   leaves a malformed group or call (egress_pool.go:60-211, egress_transport.go:28-38). *)
THEOREM PoolTypes == Spec => []TypeOK
<1>1. JInv => TypeOK
  BY DEF JInv
<1>2. QED
  BY <1>1, Memory, PTL

(* No lost wakeup: a caller that sleeps, and has neither been notified nor reached
   its next try, could not be admitted, whatever the other callers, the operator
   and the clock have done since it looked (egress_pool.go:106-211). *)
THEOREM SleepersWait == Spec => []SleepersCannotProceed
<1>1. JInv => SleepersCannotProceed
  <2> SUFFICES ASSUME JInv, NEW c \in Callers,
                      Step(c) = "waiting", ~call[c].notified, now < call[c].wake
               PROVE  ~closed /\ \A i \in DOMAIN Candidates(c) : ~CanAdmit(Candidates(c)[i])
    BY DEF SleepersCannotProceed
  <2>1. TypeOK /\ Remembered /\ Accounted
    BY DEF JInv
  <2>2. /\ ~closed
        /\ \A i \in DOMAIN Candidates(c) : LET g == Candidates(c)[i].group IN
             groups[g].known /\ Stuck(groups[g], call[c].wake)
    BY DEF JInv, Sleepers, Sound
  <2>3. ASSUME NEW i \in DOMAIN Candidates(c), CanAdmit(Candidates(c)[i]) PROVE FALSE
    <3>1. PICK e : e = Candidates(c)[i]
      OBVIOUS
    <3>2. e \in Endpoints /\ e.group \in Groups
      <4>1. e \in Endpoints
        BY <2>1, <3>1, CandidatesAre DEF TypeOK
      <4>2. QED
        BY <4>1 DEF Endpoints
    <3>3. PICK r : r = GroupOf(e)
      OBVIOUS
    <3>4. PICK t \in Nat : t = call[c].wake
      BY <2>1 DEF TypeOK, CallRecords
    <3>5. Seen(e.group, r)
      BY <2>1, <3>2, <3>3, GroupOfSeen
    <3>6. groups[e.group].known /\ Stuck(groups[e.group], t) /\ now < t
      BY <2>2, <3>1, <3>4
    <3>7. Stuck(r, t)
      BY <2>1, <3>2, <3>5, <3>6, SeenKeeps
    <3>8. AvailableAt(e) \in Nat /\ now \in Nat
      BY <2>1, <3>2, AvailableIs DEF TypeOK
    <3>9. AvailableAt(e) <= now /\ r.inflight < r.maxInflight
      BY <2>3, <3>1, <3>3 DEF CanAdmit
    <3>10. CASE r.inflight >= r.maxInflight
      <4>1. r.inflight \in Nat /\ r.maxInflight \in Nat
        BY <3>5 DEF Seen, GroupRecords
      <4>2. QED
        BY <3>9, <3>10, <4>1
    <3>11. CASE r.cooldown >= t
      <4>1. AvailableAt(e) >= r.cooldown /\ r.cooldown \in Nat
        BY <2>1, <3>2, <3>3, <3>5, AvailableIs DEF Seen, GroupRecords
      <4>2. QED
        BY <3>4, <3>6, <3>8, <3>9, <3>11, <4>1
    <3>12. CASE Len(r.sent) >= r.rpm /\ r.sent[Len(r.sent) - r.rpm + 1] + Minute >= t
      <4>1. AvailableAt(e) >= r.sent[Len(r.sent) - r.rpm + 1] + Minute
        BY <2>1, <3>2, <3>3, <3>12, AvailableIs
      <4>2. PICK x \in Nat : x = r.sent[Len(r.sent) - r.rpm + 1] + Minute
        <5>1. PICK times \in Seq(Nat), k \in Nat : times = r.sent /\ k = r.rpm
          BY <3>5 DEF Seen, GroupRecords
        <5>2. k # 0
          BY <3>5, <3>6, <5>1 DEF Seen
        <5>3. Len(times) - k + 1 \in 1..Len(times)
          BY <3>12, <5>1, <5>2
        <5>4. times[Len(times) - k + 1] \in Nat /\ Minute \in Nat
          BY <5>3, EgressPoolAssumption
        <5>5. QED
          BY <5>1, <5>4
      <4>3. QED
        BY <3>4, <3>6, <3>8, <3>9, <3>12, <4>1, <4>2
    <3>13. QED
      BY <3>7, <3>10, <3>11, <3>12 DEF Stuck
  <2>4. QED
    BY <2>2, <2>3
<1>2. QED
  BY <1>1, Memory, PTL

-----------------------------------------------------------------------------
(* The limits in force *)

(* The groups that an admission may be in. *)
Ruled(g) == HasGroup(config, g) \/ \E p \in Proxies : GatewayOf[p] = g

Obeys(g, r) == r.rpm = LimitsInForce(g).rpm /\ r.maxInflight = LimitsInForce(g).maxInflight

Enforced == \A g \in Groups : groups[g].known /\ Ruled(g) => Obeys(g, groups[g])

LEMMA CandidatesObey ==
  ASSUME JInv, GatewaysApart, Enforced, NEW c \in Callers, NEW i \in DOMAIN Candidates(c)
  PROVE  Obeys(Candidates(c)[i].group, GroupOf(Candidates(c)[i]))
<1>1. TypeOK /\ Remembered /\ config \in Configs
  BY DEF JInv, TypeOK
<1>2. PICK e \in Endpoints : e = Candidates(c)[i]
  <2>1. Candidates(c) \in Seq(Endpoints)
    BY <1>1, CandidatesAre
  <2>2. QED
    BY <2>1
<1>3. PICK g \in Groups : g = e.group
  BY DEF Endpoints
<1>4. Ruled(g) /\ e.rpm = LimitsInForce(g).rpm /\ e.maxInflight = LimitsInForce(g).maxInflight
  <2>1. CASE \A k \in DOMAIN Candidates(c) :
               \E m \in DOMAIN config.endpoints : Candidates(c)[k] = config.endpoints[m]
    <3>1. PICK m \in DOMAIN config.endpoints : e = config.endpoints[m]
      BY <1>2, <2>1
    <3>2. HasGroup(config, g)
      BY <1>3, <3>1 DEF HasGroup
    <3>3. LimitsInForce(g) = LimitsOf(config, g)
      BY <3>2 DEF LimitsInForce
    <3>4. e.rpm = LimitsOf(config, g).rpm /\ e.maxInflight = LimitsOf(config, g).maxInflight
      BY <1>1, <1>3, <3>1, <3>2, LimitsTyped
    <3>5. QED
      BY <3>2, <3>3, <3>4 DEF Ruled
  <2>2. CASE Pinned[c] \in Proxies /\ Candidates(c) = <<Unlisted(Pinned[c])>>
    <3>1. i = 1
      BY <2>2
    <3>2. e = Unlisted(Pinned[c])
      BY <1>2, <2>2, <3>1
    <3>3. g = GatewayOf[Pinned[c]] /\ e.rpm = UnlistedRPM /\ e.maxInflight = UnlistedInflight
      BY <1>3, <3>2 DEF Unlisted
    <3>4. ~HasGroup(config, g)
      BY <1>1, <2>2, <3>3 DEF GatewaysApart
    <3>5. LimitsInForce(g) = [rpm |-> UnlistedRPM, maxInflight |-> UnlistedInflight]
      BY <3>4 DEF LimitsInForce
    <3>6. QED
      BY <2>2, <3>3, <3>5 DEF Ruled
  <2>3. QED
    BY <1>1, <2>1, <2>2, CandidatesAre
<1>5. Seen(g, GroupOf(e)) /\ (groups[g].known \/ /\ GroupOf(e).rpm = e.rpm
                                                 /\ GroupOf(e).maxInflight = e.maxInflight)
  BY <1>1, <1>3, GroupOfSeen
<1>6. CASE groups[g].known
  <2>1. GroupOf(e).rpm = groups[g].rpm /\ GroupOf(e).maxInflight = groups[g].maxInflight
    BY <1>5, <1>6 DEF Seen
  <2>2. QED
    BY <1>2, <1>3, <1>4, <1>6, <2>1 DEF Enforced, Obeys
<1>7. CASE ~groups[g].known
  BY <1>2, <1>3, <1>4, <1>5, <1>7 DEF Obeys
<1>8. QED
  BY <1>6, <1>7

LEMMA LookingObeys ==
  ASSUME JInv, GatewaysApart, Enforced, NEW c \in Callers, NEW count \in 0..Len(Candidates(c)),
         NEW g \in Groups, Visited(Candidates(c), count)[g].known, Ruled(g)
  PROVE  Obeys(g, Visited(Candidates(c), count)[g])
<1>1. TypeOK /\ Remembered /\ Candidates(c) \in Seq(Endpoints)
  BY CandidatesAre DEF JInv, TypeOK
<1>2. \/ Visited(Candidates(c), count)[g] = groups[g]
      \/ \E i \in DOMAIN Candidates(c) :
           /\ Candidates(c)[i].group = g
           /\ Visited(Candidates(c), count)[g] = GroupOf(Candidates(c)[i])
  BY <1>1, VisitedSeen
<1>3. QED
  BY <1>2, CandidatesObey DEF Enforced

LEMMA SameLimits ==
  ASSUME Enforced, UNCHANGED config,
         \A g \in Groups : /\ groups'[g].known => groups[g].known
                           /\ groups[g].known => /\ groups'[g].rpm = groups[g].rpm
                                                 /\ groups'[g].maxInflight = groups[g].maxInflight
  PROVE  Enforced'
BY DEF Enforced, Obeys, Ruled, LimitsInForce, HasGroup, LimitsOf

LEMMA ApplyEnforces ==
  ASSUME JInv, GatewaysApart, Enforced, NEW cfg \in Configs, Apply(cfg)
  PROVE  Enforced'
<1> SUFFICES ASSUME NEW g \in Groups, groups'[g].known, Ruled(g)'
             PROVE  /\ groups'[g].rpm = LimitsInForce(g)'.rpm
                    /\ groups'[g].maxInflight = LimitsInForce(g)'.maxInflight
  BY DEF Enforced, Obeys
<1>1. groups[g] \in GroupRecords /\ config \in Configs /\ config' = cfg
  BY DEF JInv, TypeOK, Apply
<1>2. CASE HasGroup(cfg, g)
  <2>1. LimitsInForce(g)' = LimitsOf(cfg, g)
    BY <1>1, <1>2 DEF LimitsInForce, HasGroup, LimitsOf
  <2>2. groups[g].known
    BY <1>1 DEF Apply
  <2>3. PICK k, m : k = LimitsOf(cfg, g).rpm /\ m = LimitsOf(cfg, g).maxInflight
    OBVIOUS
  <2>4. groups'[g] = [groups[g] EXCEPT !.rpm = k, !.maxInflight = m]
    BY <1>2, <2>2, <2>3 DEF Apply
  <2>5. groups'[g].rpm = k /\ groups'[g].maxInflight = m
    BY <1>1, <2>4 DEF GroupRecords
  <2>6. QED
    BY <2>1, <2>3, <2>5
<1>3. CASE ~HasGroup(cfg, g)
  <2>1. PICK p \in Proxies : GatewayOf[p] = g
    BY <1>1, <1>3 DEF Ruled, HasGroup
  <2>2. ~HasGroup(config, g) /\ Ruled(g)
    BY <1>1, <2>1 DEF GatewaysApart, Ruled
  <2>3. LimitsInForce(g)' = LimitsInForce(g)
    BY <1>1, <1>3, <2>2 DEF LimitsInForce, HasGroup
  <2>4. groups'[g] = groups[g]
    BY <1>3 DEF Apply
  <2>5. QED
    BY <2>2, <2>3, <2>4 DEF Enforced, Obeys
<1>4. QED
  BY <1>2, <1>3

LEMMA EnforcedNext ==
  JInv /\ GatewaysApart /\ Enforced /\ [Next]_vars => Enforced'
<1> SUFFICES ASSUME JInv, GatewaysApart, Enforced, [Next]_vars PROVE Enforced'
  OBVIOUS
<1>1. /\ groups \in [Groups -> GroupRecords] /\ config \in Configs
      /\ TypeOK /\ Remembered
  BY DEF JInv, TypeOK
<1>2. ASSUME UNCHANGED <<groups, config>> PROVE Enforced'
  BY <1>2, SameLimits
<1>3. ASSUME NEW c \in Callers, Sleep(c) \/ RefuseAtOnce(c) PROVE Enforced'
  <2>1. groups' = Visited(Candidates(c), Len(Candidates(c))) /\ config' = config
    BY <1>3 DEF Sleep, RefuseAtOnce, settings
  <2>2. Candidates(c) \in Seq(Endpoints)
    BY <1>1, CandidatesAre
  <2>3. Len(Candidates(c)) \in 0..Len(Candidates(c))
    BY <2>2
  <2>4. \A g \in Groups : groups'[g].known /\ Ruled(g) => Obeys(g, groups'[g])
    BY <2>1, <2>3, LookingObeys
  <2>5. QED
    BY <2>1, <2>4 DEF Enforced, Obeys, Ruled, LimitsInForce, HasGroup, LimitsOf
<1>4. ASSUME NEW c \in Callers, Admit(c) PROVE Enforced'
  <2>1. PICK list, n, q, s : Grants(c, list, n, q, s)
    BY <1>4, AdmitGrants
  <2>2. PICK h \in Groups : h = list[Turn(list, n)].group
    BY <2>1 DEF Grants
  <2>3. /\ list = Candidates(c) /\ n + 1 \in 0..Len(list) /\ q = Visited(list, n + 1)
        /\ q \in [Groups -> GroupRecords] /\ groups' = [q EXCEPT ![h] = Reserved(q[h])]
        /\ config' = config
    <3>1. /\ list = Candidates(c) /\ n \in 0..Len(list) - 1 /\ q = Visited(list, n + 1)
          /\ q \in [Groups -> GroupRecords] /\ groups' = [q EXCEPT ![h] = Reserved(q[h])]
          /\ config' = config /\ list \in Seq(Endpoints)
      BY <2>1, <2>2 DEF Grants, settings
    <3>2. Len(list) \in Nat
      BY <3>1
    <3>3. QED
      BY <3>1, <3>2
  <2>4. \A g \in Groups : q[g].known /\ Ruled(g) => Obeys(g, q[g])
    BY <2>3, LookingObeys
  <2>5. \A g \in Groups : /\ groups'[g].known = q[g].known /\ groups'[g].rpm = q[g].rpm
                          /\ groups'[g].maxInflight = q[g].maxInflight
    <3>1. q[h] \in GroupRecords
      BY <2>3
    <3>2. /\ Reserved(q[h]).known = q[h].known /\ Reserved(q[h]).rpm = q[h].rpm
          /\ Reserved(q[h]).maxInflight = q[h].maxInflight
      BY <3>1 DEF Reserved, GroupRecords
    <3>3. groups'[h] = Reserved(q[h]) /\ \A g \in Groups \ {h} : groups'[g] = q[g]
      BY <2>3
    <3>4. QED
      BY <3>2, <3>3
  <2>6. QED
    BY <2>3, <2>4, <2>5 DEF Enforced, Obeys, Ruled, LimitsInForce, HasGroup, LimitsOf
<1>5. ASSUME NEW c \in Callers,
             \/ Abandon(c) \/ DoFails(c) \/ DiscardAnswer(c) \/ DiscardOffer(c)
             \/ ReaderCloses(c) \/ ContextCloses(c) \/ PoolCloses(c) \/ ShutdownCloses(c)
      PROVE  Enforced'
  <2>1. config' = config /\ (groups' = groups \/ groups' = Released(c))
    BY <1>5 DEF Abandon, DoFails, DiscardAnswer, DiscardOffer, ReaderCloses, ContextCloses,
       PoolCloses, ShutdownCloses, CloseLocal, Release, settings
  <2>2. ASSUME groups' = Released(c) PROVE Enforced'
    <3>1. PICK h : h = call[c].group
      OBVIOUS
    <3>2. groups' = [groups EXCEPT ![h] = Returned(groups[h], c)]
      BY <2>2, <3>1 DEF Released
    <3>3. ASSUME NEW g \in Groups
          PROVE  /\ groups'[g].known = groups[g].known /\ groups'[g].rpm = groups[g].rpm
                 /\ groups'[g].maxInflight = groups[g].maxInflight
      <4>1. groups[g] \in GroupRecords
        BY <1>1
      <4>2. /\ Returned(groups[g], c).known = groups[g].known
            /\ Returned(groups[g], c).rpm = groups[g].rpm
            /\ Returned(groups[g], c).maxInflight = groups[g].maxInflight
        BY <4>1 DEF Returned, GroupRecords
      <4>3. groups'[g] = IF g = h THEN Returned(groups[g], c) ELSE groups[g]
        BY <1>1, <3>2
      <4>4. QED
        BY <4>2, <4>3
    <3>4. QED
      BY <2>1, <3>3, SameLimits
  <2>3. QED
    BY <1>2, <2>1, <2>2
<1>6. ASSUME NEW c \in Callers, NEW d \in Cooldowns, CoolDown(c, d) PROVE Enforced'
  <2>1. PICK h, t : /\ groups' = [groups EXCEPT ![h] = [groups[h] EXCEPT !.cooldown = t]]
                    /\ config' = config
    BY <1>6 DEF CoolDown, settings
  <2>2. ASSUME NEW g \in Groups
        PROVE  /\ groups'[g].known = groups[g].known /\ groups'[g].rpm = groups[g].rpm
               /\ groups'[g].maxInflight = groups[g].maxInflight
    <3>1. groups[g] \in GroupRecords
      BY <1>1
    <3>2. PICK r : r = [groups[g] EXCEPT !.cooldown = t]
      OBVIOUS
    <3>3. r.known = groups[g].known /\ r.rpm = groups[g].rpm /\ r.maxInflight = groups[g].maxInflight
      BY <3>1, <3>2 DEF GroupRecords
    <3>4. groups'[g] = IF g = h THEN r ELSE groups[g]
      BY <1>1, <2>1, <3>2
    <3>5. QED
      BY <3>3, <3>4
  <2>3. QED
    BY <2>1, <2>2, SameLimits
<1>7. ASSUME NEW cfg \in Followers[config], Apply(cfg) PROVE Enforced'
  <2>1. cfg \in Configs
    BY <1>1, ConfigsAssumption
  <2>2. QED
    BY <1>7, <2>1, ApplyEnforces
<1>8. ASSUME NEW c \in Callers,
             \/ NotHandled(c) \/ Begin(c) \/ Operate(c) \/ AcquireFails(c) \/ WaitEnds(c) \/ Wake(c)
             \/ CheckContext(c) \/ GetClient(c) \/ MarkSent(c) \/ DoAnswers(c) \/ OfferFails(c)
             \/ Cancel(c) \/ Offer(c) \/ Publish(c)
      PROVE  Enforced'
  <2>1. UNCHANGED <<groups, config>>
    BY <1>1, <1>8, QuietSteps DEF Quiet, settings, pool, JInv
  <2>2. QED
    BY <1>2, <2>1
<1>9. ASSUME Tick \/ Stop \/ ClosePool \/ ShutdownDone \/ UNCHANGED vars PROVE Enforced'
  <2>1. UNCHANGED <<groups, config>>
    BY <1>9 DEF Tick, Stop, ClosePool, ShutdownDone, vars, settings, pool
  <2>2. QED
    BY <1>2, <2>1
<1>10. ASSUME NEW c \in Callers, Opening(c) PROVE Enforced'
  BY <1>3, <1>4, <1>5, <1>8, <1>10 DEF Opening
<1>11. QED
  BY <1>5, <1>6, <1>7, <1>8, <1>9, <1>10 DEF Next

LEMMA EnforcedInit == Init => Enforced
<1>1. Init => \A g \in Groups : groups[g] = NoGroup
  BY DEF Init
<1>2. ~NoGroup.known
  BY DEF NoGroup
<1>3. QED
  BY <1>1, <1>2 DEF Enforced

-----------------------------------------------------------------------------
(* Admissions *)

(* Only Admit makes a lease. *)
LEMMA OnlyAdmitGrants ==
  ASSUME JInv, [Next]_vars, ~\E c \in Callers : Admit(c)
  PROVE  \A d \in Callers : call'[d].lease = "held" => Held(d)
<1> DEFINE Grantless == \A d \in Callers : call'[d].lease = "held" => Held(d)
<1>1. call \in [Callers -> CallRecords] /\ TypeOK /\ IInv
  BY DEF JInv, TypeOK
<1>2. ASSUME NEW c \in Callers,
             \/ NotHandled(c) \/ Begin(c) \/ Operate(c) \/ AcquireFails(c) \/ WaitEnds(c) \/ Wake(c)
             \/ CheckContext(c) \/ GetClient(c) \/ MarkSent(c) \/ DoAnswers(c) \/ OfferFails(c)
             \/ Cancel(c) \/ Offer(c) \/ Publish(c)
      PROVE  Grantless
  BY <1>1, <1>2, QuietSteps DEF Quiet, Held
<1>3. ASSUME NEW c \in Callers, Sleep(c) \/ RefuseAtOnce(c) PROVE Grantless
  <2>1. PICK s : /\ call' = [call EXCEPT ![c] = s]
                 /\ \/ s = [call[c] EXCEPT !.step = "waiting", !.wake = NextTry(c), !.notified = FALSE]
                    \/ s = [call[c] EXCEPT !.step = "ended", !.op = "finished"]
    BY <1>3 DEF Sleep, RefuseAtOnce, Ended
  <2>2. call[c] \in CallRecords
    BY <1>1
  <2>3. s.lease = call[c].lease
    BY <2>1, <2>2 DEF CallRecords
  <2>4. QED
    BY <1>1, <2>1, <2>3 DEF Held
<1>4. ASSUME NEW calls \in [Callers -> CallRecords], call' = Notified(calls),
             \A d \in Callers : calls[d].lease = "held" => Held(d)
      PROVE  Grantless
  BY <1>4, NotifiedTyped
<1>5. ASSUME NEW c \in Callers,
             \/ Abandon(c) \/ DoFails(c) \/ DiscardAnswer(c) \/ DiscardOffer(c)
             \/ ReaderCloses(c) \/ ContextCloses(c) \/ PoolCloses(c) \/ ShutdownCloses(c)
      PROVE  Grantless
  <2>1. call' = call \/ call' = Notified([call EXCEPT ![c] = AfterRelease(call[c])])
    BY <1>5 DEF Abandon, DoFails, DiscardAnswer, DiscardOffer, ReaderCloses, ContextCloses,
       PoolCloses, ShutdownCloses, CloseLocal, Release
  <2>2. PICK next : next = (CASE call[c].step = "streaming" -> "closed"
                              [] call[c].step = "offered" -> "offered" [] OTHER -> "ended")
    OBVIOUS
  <2>3. PICK s : s = [call[c] EXCEPT !.step = next, !.op = "finished", !.lease = "released"]
    OBVIOUS
  <2>4. s = AfterRelease(call[c])
    BY <2>2, <2>3 DEF AfterRelease
  <2>5. next \in Steps
    <3>1. next \in {"closed", "offered", "ended"}
      BY <2>2
    <3>2. QED
      BY <3>1 DEF Steps
  <2>6. s \in CallRecords /\ s.lease = "released"
    <3>1. call[c] \in CallRecords
      BY <1>1
    <3>2. s \in CallRecords
      BY <2>3, <2>5, <3>1 DEF CallRecords
    <3>3. QED
      BY <2>3, <3>1, <3>2 DEF CallRecords
  <2>7. PICK calls : calls = [call EXCEPT ![c] = s]
    OBVIOUS
  <2>8. /\ calls \in [Callers -> CallRecords]
        /\ \A d \in Callers : calls[d].lease = "held" => Held(d)
    BY <1>1, <2>6, <2>7 DEF Held
  <2>9. CASE call' = call
    BY <2>9 DEF Held
  <2>10. CASE call' = Notified([call EXCEPT ![c] = AfterRelease(call[c])])
    BY <1>4, <2>4, <2>7, <2>8, <2>10
  <2>11. QED
    BY <2>1, <2>9, <2>10
<1>6. ASSUME NEW c \in Callers, NEW d \in Cooldowns, CoolDown(c, d) PROVE Grantless
  <2>1. PICK next \in Steps : call' = Notified([call EXCEPT ![c] = [call[c] EXCEPT !.step = next]])
    <3>1. PICK next : next = IF call[c].step = "streaming" THEN "limited" ELSE "ended"
      OBVIOUS
    <3>2. next \in Steps
      BY <3>1 DEF Steps
    <3>3. call' = Notified([call EXCEPT ![c] = [call[c] EXCEPT !.step = next]])
      BY <1>6, <3>1 DEF CoolDown
    <3>4. QED
      BY <3>2, <3>3
  <2>2. PICK s : s = [call[c] EXCEPT !.step = next]
    OBVIOUS
  <2>3. s \in CallRecords /\ s.lease = call[c].lease
    BY <1>1, <2>2 DEF CallRecords
  <2>4. PICK calls : calls = [call EXCEPT ![c] = s]
    OBVIOUS
  <2>5. /\ calls \in [Callers -> CallRecords]
        /\ \A e \in Callers : calls[e].lease = "held" => Held(e)
    BY <1>1, <2>3, <2>4 DEF Held
  <2>6. QED
    BY <1>4, <2>1, <2>2, <2>4, <2>5
<1>7. ASSUME NEW cfg, Apply(cfg) PROVE Grantless
  BY <1>1, <1>4, <1>7 DEF Apply, Held
<1>8. ASSUME ClosePool PROVE Grantless
  <2>1. PICK calls : calls = Cancelled(call)
    OBVIOUS
  <2>2. ASSUME NEW e \in Callers PROVE calls[e] \in CallRecords /\ calls[e].lease = call[e].lease
    <3>1. call[e] \in CallRecords
      BY <1>1
    <3>2. PICK s : s = [call[e] EXCEPT !.op = "cancelled"]
      OBVIOUS
    <3>3. calls[e] \in {s, call[e]}
      BY <2>1, <3>2 DEF Cancelled
    <3>4. s \in CallRecords
      BY <3>1, <3>2 DEF CallRecords
    <3>5. s.lease = call[e].lease
      BY <3>1, <3>2 DEF CallRecords
    <3>6. QED
      BY <3>1, <3>3, <3>4, <3>5
  <2>3. calls \in [Callers -> CallRecords]
    <3>1. DOMAIN calls = Callers /\ calls = [e \in Callers |-> calls[e]]
      BY <2>1 DEF Cancelled
    <3>2. QED
      BY <2>2, <3>1
  <2>4. \A e \in Callers : calls[e].lease = "held" => Held(e)
    BY <2>2 DEF Held
  <2>5. QED
    BY <1>4, <1>8, <2>1, <2>3, <2>4 DEF ClosePool
<1>9. ASSUME UNCHANGED call PROVE Grantless
  BY <1>9 DEF Held
<1>10. ASSUME NEW c \in Callers, Opening(c) PROVE Grantless
  BY <1>2, <1>3, <1>5, <1>10 DEF Opening
<1>11. ASSUME Tick \/ Stop \/ ShutdownDone \/ UNCHANGED vars PROVE Grantless
  BY <1>9, <1>11 DEF Tick, Stop, ShutdownDone, vars
<1>12. QED
  BY <1>2, <1>5, <1>6, <1>7, <1>8, <1>10, <1>11 DEF Next

(* An admission is within the limits in force, by the accounts. *)
LEMMA AdmitsWithinLimits ==
  ASSUME JInv, GatewaysApart, Enforced, NEW c \in Callers, Admit(c),
         NEW d \in Callers, NEW g \in Groups,
         ~Held(d), call'[d].lease = "held", call'[d].group = g
  PROVE  /\ Cardinality(Spent(g)) < LimitsInForce(g).rpm
         /\ Cardinality(Leases(g)) < LimitsInForce(g).maxInflight
         /\ now >= banned[g]
<1>1. PICK list, n, q, s : Grants(c, list, n, q, s)
  BY AdmitGrants
<1>2. /\ list = Candidates(c) /\ list \in Seq(Endpoints) /\ Turn(list, n) \in DOMAIN list
      /\ CanAdmit(list[Turn(list, n)])
      /\ call' = [call EXCEPT ![c] = s] /\ s.group = list[Turn(list, n)].group
  BY <1>1 DEF Grants
<1>3. PICK i : i = Turn(list, n)
  OBVIOUS
<1>4. PICK e \in Endpoints : e = list[i]
  BY <1>2, <1>3
<1>5. call \in [Callers -> CallRecords]
  BY DEF JInv, TypeOK
<1>6. d = c
  <2>1. d # c => call'[d] = call[d]
    BY <1>2, <1>5
  <2>2. QED
    BY <2>1 DEF Held
<1>7. g = e.group
  BY <1>2, <1>3, <1>4, <1>5, <1>6
<1>8. Obeys(g, GroupOf(e))
  <2>1. i \in DOMAIN Candidates(c) /\ e = Candidates(c)[i]
    BY <1>2, <1>3, <1>4
  <2>2. QED
    BY <1>7, <2>1, CandidatesObey
<1>9. /\ Cardinality(Spent(g)) < GroupOf(e).rpm
      /\ Cardinality(Leases(g)) < GroupOf(e).maxInflight
      /\ now >= banned[g]
  BY <1>2, <1>3, <1>4, <1>7, RoomIs
<1>10. QED
  BY <1>8, <1>9 DEF Obeys

(* A lease is granted only within the limits now configured, counted from what
   really happened: the requests of the last minute, the leases that are out and
   the bans of the group, whatever was edited, refunded or pruned in between
   (egress_pool.go:60-88 and 142-211).  Provided that no configuration names a
   group as the pool names the one of an unlisted proxy. *)
THEOREM AdmissionsWithinLimits ==
  ASSUME GatewaysApart PROVE Spec => AdmissionRespectsGroup
<1> DEFINE Step1 == \A c \in Callers, g \in Groups :
             ~Held(c) /\ call'[c].lease = "held" /\ call'[c].group = g =>
               /\ Cardinality(Spent(g)) < LimitsInForce(g).rpm
               /\ Cardinality(Leases(g)) < LimitsInForce(g).maxInflight
               /\ now >= banned[g]
<1>1. JInv /\ Enforced /\ [Next]_vars => Step1
  <2> SUFFICES ASSUME JInv, Enforced, [Next]_vars PROVE Step1
    OBVIOUS
  <2>1. CASE \E c \in Callers : Admit(c)
    <3>1. PICK c \in Callers : Admit(c)
      BY <2>1
    <3>2. QED
      BY <3>1, AdmitsWithinLimits
  <2>2. CASE ~\E c \in Callers : Admit(c)
    BY <2>2, OnlyAdmitGrants
  <2>3. QED
    BY <2>1, <2>2
<1>2. JInv /\ Enforced /\ [Next]_vars => Enforced'
  BY EnforcedNext
<1>3. Spec => [](JInv /\ Enforced)
  BY <1>2, JInit, JNext, EnforcedInit, PTL DEF Spec
<1>4. JInv /\ Enforced /\ [Next]_vars => [Step1]_vars
  BY <1>1
<1>5. Spec => [][Step1]_vars
  BY <1>3, <1>4, PTL DEF Spec
<1>6. QED
  BY <1>5 DEF AdmissionRespectsGroup

===============================================================================
