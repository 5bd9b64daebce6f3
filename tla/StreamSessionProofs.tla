------------------------- MODULE StreamSessionProofs -------------------------
(* Proofs about StreamSession, for any deadline, idle budgets and bounds. *)
EXTENDS StreamSession, TLAPS

Ending == {"phase", "close", "closing", "receipt", "done"}

\* What the counters and the error in hand need to keep their types.
Bounds ==
  /\ consumer.emitStart <= now
  /\ consumer.step \in {"sending", "accepted"} => consumer.queue > 0
  /\ consumer.step \in Ending => consumer.err # "stop"

\* The once of the output lifecycle is held by exactly one of the two closers,
\* and the host has been told its cause when it is over.
OnceHeld ==
  /\ At("closing") \/ Run("closing") <=> output.once = "taken"
  /\ host.closes = IF output.once = "over" THEN 1 ELSE 0
  /\ output.once = "over" => host.cause = output.cause
  /\ At("closing") => output.cause = consumer.err

\* After its close the consumer has the host's cause, and reports it.
Reported ==
  /\ consumer.step \in {"receipt", "done"} =>
       output.once = "over" /\ consumer.err = output.cause
  /\ At("done") => /\ receipts.log = consumer.err
                   /\ Len(receipts.lease) > 0
                   /\ receipts.lease[Len(receipts.lease)] = consumer.err

\* The RPC streams from the first completion frame on; no frame goes before.
Answered ==
  /\ rpc = IF consumer.started THEN "streaming"
           ELSE IF At("done") THEN consumer.err ELSE "waiting"
  /\ consumer.step \in {"sending", "accepted"} => consumer.started
  /\ host.accepted > 0 => consumer.started

\* What was begun and not accepted is a failure in hand, and an end without a
\* failure is one of a complete answer.
Delivered ==
  /\ consumer.started => consumer.pending = 0
  /\ consumer.queue > 0 =>
       consumer.step \in {"sending", "accepted"} \/ consumer.err \in Causes
  /\ consumer.step \in {"read", "got", "frames", "content", "emit", "forward",
                        "sending", "accepted"} =>
       consumer.err = None /\ ~consumer.doneSeen
  /\ consumer.step = "emitted" => ~consumer.doneSeen
  /\ consumer.doneSeen /\ consumer.step \in {"stop", "join", "judge"} => consumer.err # None
  /\ consumer.err = "stop" => consumer.finished
  /\ consumer.step \in Ending /\ consumer.err = None =>
       consumer.finished /\ consumer.started

\* Whatever closes the output before the consumer does has a cause.
CutHasCause ==
  /\ watchdog.step \in {"phase", "close"} => watchdog.err # None
  /\ output.once # "free" /\ consumer.step \notin {"closing", "receipt", "done"} =>
       output.cause # None

\* The idle clock is the silence of the upstream, stopped while the host takes.
Silence ==
  /\ watchdog.downstream <=> Emitting
  /\ watchdog.lastOutput > 0 =>
       watchdog.lastOutput + quiet = IF Emitting THEN consumer.emitStart ELSE now

-----------------------------------------------------------------------------
(* Types *)

\* A check of the watchdog returns a watchdog, and expires for a cause of its own.
LEMMA WatchdogTypes ==
  ASSUME TypeOK, NEW w \in WatchdogRecords
  PROVE  /\ Checked(w) \in WatchdogRecords
         /\ Expired(w) \in {"deadline", "idle", "shutdown", "parent", None}
         /\ NextTimer(w) \in Nat
<1>1. Expired(w) \in {"deadline", "idle", "shutdown", "parent", None}
  <2>1. shutdown \in BOOLEAN /\ ParentError \in BOOLEAN
    BY DEF TypeOK, ParentError
  <2>2. QED
    BY <2>1 DEF Expired
<1>2. Checked(w) \in WatchdogRecords
  BY <1>1 DEF Checked, WatchdogRecords, Outcomes, Causes
<1>3. mode.idle \in Nat
  BY StreamSessionAssumption DEF TypeOK
<1>4. NextTimer(w) \in Nat
  BY <1>3, StreamSessionAssumption DEF NextTimer, IdleAt, WatchdogRecords
<1>5. QED
  BY <1>1, <1>2, <1>4

\* The check writes nothing but the error, and never over another one.
LEMMA CheckedFields ==
  ASSUME NEW w \in WatchdogRecords
  PROVE  /\ Checked(w).step = w.step
         /\ Checked(w).lastOutput = w.lastOutput
         /\ Checked(w).downstream = w.downstream
         /\ Checked(w).err = IF w.err = None THEN Expired(w) ELSE w.err
  BY DEF Checked, WatchdogRecords

\* The watchdog as EndEmit checks it
Resumed ==
  [watchdog EXCEPT
     !.lastOutput = IF @ > 0 THEN @ + (now - consumer.emitStart) ELSE @,
     !.downstream = FALSE]

\* The idle deadline moves by the time of the emit, which is never negative.
LEMMA ResumedTypes ==
  ASSUME TypeOK, Bounds
  PROVE  Resumed \in WatchdogRecords
<1>1. watchdog \in WatchdogRecords
  BY DEF TypeOK
<1>2. watchdog.lastOutput \in Nat
  BY <1>1 DEF WatchdogRecords
<1>3. now - consumer.emitStart \in Nat
  BY DEF TypeOK, Bounds, ConsumerRecords
<1>4. (IF watchdog.lastOutput > 0
       THEN watchdog.lastOutput + (now - consumer.emitStart)
       ELSE watchdog.lastOutput) \in Nat
  BY <1>2, <1>3
<1>5. QED
  BY <1>1, <1>4 DEF Resumed, WatchdogRecords

\* A failure only changes the step and the error in hand.
LEMMA FailTypes ==
  ASSUME NEW c \in ConsumerRecords, NEW err \in Outcomes \cup {"stop"}
  PROVE  /\ Fail(c, err) \in ConsumerRecords
         /\ Fail(c, err).step = "stop" /\ Fail(c, err).err = err
         /\ Fail(c, err).emitStart = c.emitStart
  BY DEF Fail, ConsumerRecords, ConsumerSteps

\* Wherever the consumer goes, it keeps its type.
LEMMA ConsumerTypes ==
  ASSUME TypeOK, Bounds, Next
  PROVE  consumer' \in ConsumerRecords
<1>0. consumer \in ConsumerRecords /\ now \in Nat
  BY DEF TypeOK
<1>1. consumer.err \in Outcomes \cup {"stop"} /\ consumer.end \in {"more", "eof"} \cup Causes
  BY <1>0 DEF ConsumerRecords
<1>2. watchdog \in WatchdogRecords /\ watchdog.err \in Outcomes
  BY DEF TypeOK, WatchdogRecords
<1>3. Checked(watchdog).err \in Outcomes
  BY <1>2, WatchdogTypes DEF WatchdogRecords
<1>4. Causes \subseteq Outcomes /\ None \in Outcomes
  BY DEF Outcomes
<1>5. \A step \in ConsumerSteps : [consumer EXCEPT !.step = step] \in ConsumerRecords
  BY <1>0 DEF ConsumerRecords
<1>6. \A step \in ConsumerSteps, err \in Outcomes \cup {"stop"} :
        [consumer EXCEPT !.step = step, !.err = err] \in ConsumerRecords
  BY <1>0 DEF ConsumerRecords
<1>7. CASE ReadReturns
  <2>1. \A end \in {"more", "eof"} \cup Causes :
           [consumer EXCEPT !.step = "got", !.end = end] \in ConsumerRecords
    BY <1>0 DEF ConsumerRecords, ConsumerSteps
  <2>2. {"more", "eof", "parent", "upstream"} \subseteq {"more", "eof"} \cup Causes
    BY DEF Causes
  <2>3. QED
    BY <1>7, <2>1, <2>2 DEF ReadReturns
<1>8. CASE CheckRead
  BY <1>8, <1>0, <1>2, <1>5, FailTypes DEF CheckRead, ConsumerSteps
<1>9. CASE CompletionFrame
  <2>1. \A kind \in {"role", "content", "finish"}, f, h \in BOOLEAN, step \in ConsumerSteps :
          [consumer EXCEPT !.kind = kind, !.finished = f, !.hasOutput = h,
                           !.step = step] \in ConsumerRecords
    BY <1>0 DEF ConsumerRecords
  <2>2. "content" \in ConsumerSteps /\ "emit" \in ConsumerSteps
    BY DEF ConsumerSteps
  <2>3. PICK kind \in {"role", "content", "finish"} :
          consumer' = [consumer EXCEPT
            !.kind = kind,
            !.finished = @ \/ kind = "finish",
            !.hasOutput = @ \/ kind = "content",
            !.step = IF kind = "content" THEN "content" ELSE "emit"]
    BY <1>9 DEF CompletionFrame
  <2>4. /\ (consumer.finished \/ kind = "finish") \in BOOLEAN
        /\ (consumer.hasOutput \/ kind = "content") \in BOOLEAN
        /\ (IF kind = "content" THEN "content" ELSE "emit") \in ConsumerSteps
    BY <2>2
  <2>5. QED
    BY <2>1, <2>3, <2>4
<1>10. CASE DoneFrame
  <2>1. PICK err \in Outcomes \cup {"stop"} :
          consumer' = [Fail(consumer, err) EXCEPT !.doneSeen = TRUE]
    BY <1>10 DEF DoneFrame, Outcomes, Causes
  <2>2. Fail(consumer, err) \in ConsumerRecords
    BY <1>0, FailTypes
  <2>3. QED
    BY <2>1, <2>2 DEF ConsumerRecords
<1>11. CASE ErrorFrame
  BY <1>11, <1>0, FailTypes DEF ErrorFrame, Outcomes, Causes
<1>12. CASE EffectiveOutput
  BY <1>12, <1>0, <1>3, <1>5, FailTypes DEF EffectiveOutput, ConsumerSteps
<1>13. CASE ChunkEnds
  <2>1. \A err \in Outcomes : Fail(consumer, err) \in ConsumerRecords
    BY <1>0, FailTypes
  <2>2. [consumer EXCEPT !.step = "read"] \in ConsumerRecords
    BY <1>5 DEF ConsumerSteps
  <2>3. consumer.end \in {"more", "eof"} \/ consumer.end \in Outcomes
    BY <1>1, <1>4
  <2>4. CASE watchdog.err # None
    BY <2>4, <1>13, <2>1, <1>2 DEF ChunkEnds
  <2>5. CASE watchdog.err = None /\ consumer.end = "more"
    BY <2>5, <1>13, <2>2 DEF ChunkEnds
  <2>6. CASE watchdog.err = None /\ consumer.end = "eof"
    BY <2>6, <1>13, <2>1, <1>4 DEF ChunkEnds
  <2>7. CASE watchdog.err = None /\ consumer.end \notin {"more", "eof"}
    BY <2>7, <1>13, <2>1, <2>3 DEF ChunkEnds
  <2>8. QED
    BY <2>4, <2>5, <2>6, <2>7
<1>14. CASE BeginEmit
  <2>1. [consumer EXCEPT !.step = "forward", !.emitStart = now] \in ConsumerRecords
    BY <1>0 DEF ConsumerRecords, ConsumerSteps
  <2>2. Fail(consumer, Checked(watchdog).err) \in ConsumerRecords
    BY <1>0, <1>3, FailTypes
  <2>3. QED
    BY <1>14, <2>1, <2>2 DEF BeginEmit
<1>15. CASE Hold
  <2>1. [consumer EXCEPT !.step = "emitted", !.err = "limit"] \in ConsumerRecords
    BY <1>6 DEF ConsumerSteps, Outcomes, Causes
  <2>2. [consumer EXCEPT !.step = "emitted", !.pending = @ + 1] \in ConsumerRecords
    <3>1. consumer.pending + 1 \in Nat
      BY <1>0 DEF ConsumerRecords
    <3>2. QED
      BY <1>0, <3>1 DEF ConsumerRecords, ConsumerSteps
  <2>3. QED
    BY <1>15, <2>1, <2>2 DEF Hold
<1>16. CASE Start
  <2>1. [consumer EXCEPT !.step = "sending", !.started = TRUE,
                         !.queue = consumer.pending + 1, !.pending = 0]
          \in ConsumerRecords
    <3>1. consumer.pending + 1 \in Nat
      BY <1>0 DEF ConsumerRecords
    <3>2. QED
      BY <1>0, <3>1 DEF ConsumerRecords, ConsumerSteps
  <2>2. QED
    BY <1>16, <2>1 DEF Start
<1>17. CASE Forward
  <2>1. [consumer EXCEPT !.step = "sending", !.queue = 1] \in ConsumerRecords
    BY <1>0 DEF ConsumerRecords, ConsumerSteps
  <2>2. QED
    BY <1>17, <2>1 DEF Forward
<1>18. CASE HostAccepts
  BY <1>18, <1>5 DEF HostAccepts, ConsumerSteps
<1>19. CASE HostRefuses
  BY <1>19, <1>6 DEF HostRefuses, ConsumerSteps, Outcomes, Causes
<1>20. CASE NoteAccepted
  <2>1. consumer.queue \in Nat /\ consumer.queue > 0
    BY <1>20, <1>0 DEF NoteAccepted, At, Bounds, ConsumerRecords
  <2>2. \A step \in ConsumerSteps, n \in Nat :
          [consumer EXCEPT !.queue = n, !.step = step] \in ConsumerRecords
    BY <1>0 DEF ConsumerRecords
  <2>3. consumer.queue - 1 \in Nat
    BY <2>1
  <2>4. (IF consumer.queue = 1 THEN "emitted" ELSE "sending") \in ConsumerSteps
    BY DEF ConsumerSteps
  <2>5. consumer' = [consumer EXCEPT !.queue = consumer.queue - 1,
                       !.step = IF consumer.queue = 1 THEN "emitted" ELSE "sending"]
    BY <1>20 DEF NoteAccepted
  <2>6. QED
    BY <2>2, <2>3, <2>4, <2>5
<1>21. CASE EndEmit
  <2>1. Resumed \in WatchdogRecords
    BY ResumedTypes
  <2>2. Checked(Resumed).err \in Outcomes
    BY <2>1, WatchdogTypes DEF WatchdogRecords
  <2>3. \A err \in Outcomes \cup {"stop"} : Fail(consumer, err) \in ConsumerRecords
    BY <1>0, FailTypes
  <2>4. [consumer EXCEPT !.step = "frames"] \in ConsumerRecords
    BY <1>5 DEF ConsumerSteps
  <2>5. QED
    BY <1>21, <1>1, <2>2, <2>3, <2>4 DEF EndEmit, Resumed
<1>22. CASE StopWatchdog
  BY <1>22, <1>5 DEF StopWatchdog, ConsumerSteps
<1>23. CASE Join
  BY <1>23, <1>1, <1>2, <1>6 DEF Join, ConsumerSteps
<1>24. CASE Judge
  <2>1. Verdicts \subseteq Outcomes \cup {"stop"}
    BY <1>1 DEF Verdicts, Outcomes, Causes
  <2>2. "protocol" \in Outcomes /\ "phase" \in ConsumerSteps
    BY DEF ConsumerSteps, Outcomes, Causes
  <2>3. PICK verdict \in Verdicts :
          consumer' = [consumer EXCEPT !.step = "phase",
            !.err = IF verdict = None /\ ~consumer.started THEN "protocol" ELSE verdict]
    BY <1>24 DEF Judge
  <2>4. (IF verdict = None /\ ~consumer.started THEN "protocol" ELSE verdict)
          \in Outcomes \cup {"stop"}
    BY <2>1, <2>2
  <2>5. QED
    BY <1>6, <2>2, <2>3, <2>4
<1>25. CASE ReadPhase
  <2>1. \A b \in BOOLEAN : [consumer EXCEPT !.step = "close", !.phase = b] \in ConsumerRecords
    BY <1>0 DEF ConsumerRecords, ConsumerSteps
  <2>2. QED
    BY <1>25, <2>1 DEF ReadPhase, TypeOK
<1>26. CASE EnterClose
  BY <1>26, <1>5 DEF EnterClose, ConsumerSteps
<1>27. CASE SendClose
  BY <1>27, <1>5 DEF SendClose, ConsumerSteps
<1>28. CASE JoinClose
  BY <1>28, <1>6 DEF JoinClose, ConsumerSteps, TypeOK
<1>29. CASE Report
  BY <1>29, <1>5 DEF Report, ConsumerSteps
<1>30. CASE Watch \/ Shutdown \/ CancelParent \/ OtherCloses \/ Tick
  BY <1>0, <1>30 DEF Watch, RunLoop, RunWakes, RunReadsPhase, RunEntersClose,
     RunSendsClose, RunClosesUpstream, Shutdown, CancelParent, OtherCloses, Tick
<1>31. QED
  BY <1>7, <1>8, <1>9, <1>10, <1>11, <1>12, <1>13, <1>14, <1>15, <1>16, <1>17,
     <1>18, <1>19, <1>20, <1>21, <1>22, <1>23, <1>24, <1>25, <1>26, <1>27,
     <1>28, <1>29, <1>30 DEF Next, Consume

\* So does the watchdog, whoever of the two writes it.
LEMMA WatchTypes ==
  ASSUME TypeOK, Bounds, Next
  PROVE  watchdog' \in WatchdogRecords
<1>1. watchdog \in WatchdogRecords /\ now \in Nat
  BY DEF TypeOK
<1>2. Checked(watchdog) \in WatchdogRecords /\ NextTimer(Checked(watchdog)) \in Nat
  BY <1>1, WatchdogTypes
<1>3. \A w \in WatchdogRecords, b \in BOOLEAN : [w EXCEPT !.woken = b] \in WatchdogRecords
  BY DEF WatchdogRecords
<1>4. \A w \in WatchdogRecords, step \in WatchdogSteps :
        [w EXCEPT !.step = step] \in WatchdogRecords
  BY DEF WatchdogRecords
<1>5. CASE EffectiveOutput
  <2>1. \A w \in WatchdogRecords, n \in Nat :
          [w EXCEPT !.lastOutput = n, !.woken = TRUE] \in WatchdogRecords
    BY DEF WatchdogRecords
  <2>2. Checked(watchdog).lastOutput \in Nat
    BY <1>2 DEF WatchdogRecords
  <2> DEFINE fresh == Checked(watchdog).err = None /\ mode.idle > 0
  <2>3. watchdog' = [Checked(watchdog) EXCEPT
                       !.lastOutput = IF fresh THEN now ELSE Checked(watchdog).lastOutput,
                       !.woken = TRUE]
    BY <1>5 DEF EffectiveOutput
  <2>4. QED
    BY <1>1, <1>2, <2>1, <2>2, <2>3
<1>6. CASE BeginEmit
  <2>1. [Checked(watchdog) EXCEPT !.downstream = TRUE, !.woken = TRUE] \in WatchdogRecords
    BY <1>2 DEF WatchdogRecords
  <2>2. QED
    BY <1>6, <1>2, <2>1 DEF BeginEmit
<1>7. CASE EndEmit
  <2>1. Checked(Resumed) \in WatchdogRecords
    BY ResumedTypes, WatchdogTypes
  <2>2. QED
    BY <1>7, <1>3, <2>1 DEF EndEmit, Resumed
<1>8. CASE StopWatchdog
  BY <1>8, <1>1 DEF StopWatchdog, WatchdogRecords
<1>9. CASE RunLoop
  <2>1. [Checked(watchdog) EXCEPT !.step = "armed", !.timer = NextTimer(Checked(watchdog))]
          \in WatchdogRecords
    BY <1>2 DEF WatchdogRecords, WatchdogSteps
  <2>2. QED
    BY <1>9, <1>1, <1>2, <1>4, <2>1 DEF RunLoop, WatchdogSteps
<1>10. CASE RunWakes
  <2>1. [watchdog EXCEPT !.step = "loop", !.woken = FALSE] \in WatchdogRecords
    BY <1>1 DEF WatchdogRecords, WatchdogSteps
  <2>2. QED
    BY <1>10, <1>1, <1>4, <2>1 DEF RunWakes, WatchdogSteps
<1>11. CASE RunReadsPhase
  <2>1. \A b \in BOOLEAN : [watchdog EXCEPT !.step = "close", !.phase = b] \in WatchdogRecords
    BY <1>1 DEF WatchdogRecords, WatchdogSteps
  <2>2. QED
    BY <1>11, <2>1 DEF RunReadsPhase, TypeOK
<1>12. CASE RunEntersClose \/ RunSendsClose \/ RunClosesUpstream
  BY <1>12, <1>1, <1>4 DEF RunEntersClose, RunSendsClose, RunClosesUpstream, WatchdogSteps
<1>13. CASE watchdog' = watchdog
  BY <1>13, <1>1
<1>14. QED
  BY <1>5, <1>6, <1>7, <1>8, <1>9, <1>10, <1>11, <1>12, <1>13
     DEF Next, Consume, Watch, CheckRead, ChunkEnds, Hold, Start, Forward,
         NoteAccepted, Join, Judge, ReadPhase, EnterClose, SendClose, JoinClose,
         Report, ReadReturns, CompletionFrame, DoneFrame, ErrorFrame,
         HostAccepts, HostRefuses, Shutdown, CancelParent, OtherCloses, Tick

\* And the bounds hold on.
LEMMA BoundsKept ==
  ASSUME TypeOK, Bounds, Next
  PROVE  Bounds'
<1>1. consumer \in ConsumerRecords /\ now \in Nat
  BY DEF TypeOK
<1>2. now' \in Nat /\ now' >= now
  <2>1. CASE Tick
    BY <1>1, <2>1 DEF Tick
  <2>2. CASE Consume
    <3>1. CASE CheckRead \/ ChunkEnds \/ EffectiveOutput \/ BeginEmit \/ Hold
      BY <1>1, <3>1 DEF CheckRead, ChunkEnds, EffectiveOutput, BeginEmit, Hold, world
    <3>2. CASE Start \/ Forward \/ NoteAccepted \/ EndEmit \/ StopWatchdog \/ Join
      BY <1>1, <3>2 DEF Start, Forward, NoteAccepted, EndEmit, StopWatchdog, Join, world
    <3>3. CASE Judge
      BY <1>1, <3>3 DEF Judge, world
    <3>4. CASE ReadPhase \/ EnterClose \/ SendClose \/ JoinClose \/ Report
      BY <1>1, <3>4 DEF ReadPhase, EnterClose, SendClose, JoinClose, Report, world
    <3>5. QED
      BY <2>2, <3>1, <3>2, <3>3, <3>4 DEF Consume
  <2>3. CASE Watch
    BY <1>1, <2>3 DEF Watch, RunLoop, RunWakes, RunReadsPhase, RunEntersClose,
       RunSendsClose, RunClosesUpstream, world
  <2>4. CASE ReadReturns \/ CompletionFrame \/ DoneFrame \/ ErrorFrame
    BY <1>1, <2>4 DEF ReadReturns, CompletionFrame, DoneFrame, ErrorFrame, world
  <2>5. CASE HostAccepts \/ HostRefuses \/ Shutdown \/ CancelParent \/ OtherCloses
    BY <1>1, <2>5 DEF HostAccepts, HostRefuses, Shutdown, CancelParent, OtherCloses, world
  <2>6. QED
    BY <2>1, <2>2, <2>3, <2>4, <2>5 DEF Next
<1>3. ASSUME consumer'.emitStart = consumer.emitStart \/ consumer'.emitStart = now,
             consumer'.step \notin {"sending", "accepted"} \cup Ending
      PROVE  Bounds'
  BY <1>1, <1>2, <1>3 DEF Bounds, ConsumerRecords
<1>4. CASE ReadReturns \/ CheckRead \/ CompletionFrame \/ DoneFrame \/ ErrorFrame
  BY <1>1, <1>3, <1>4 DEF ReadReturns, CheckRead, CompletionFrame, DoneFrame, ErrorFrame,
     Fail, Ending, ConsumerRecords
<1>5. CASE EffectiveOutput \/ ChunkEnds \/ BeginEmit \/ Hold
  BY <1>1, <1>3, <1>5 DEF EffectiveOutput, ChunkEnds, BeginEmit, Hold, Fail, Ending,
     ConsumerRecords
<1>6. CASE HostRefuses \/ EndEmit \/ StopWatchdog \/ Join
  BY <1>1, <1>3, <1>6 DEF HostRefuses, EndEmit, StopWatchdog, Join, Fail, Ending,
     ConsumerRecords
<1>7. ASSUME consumer'.emitStart = consumer.emitStart, consumer'.queue > 0,
             consumer'.step \notin Ending
      PROVE  Bounds'
  BY <1>1, <1>2, <1>7 DEF Bounds, ConsumerRecords
<1>7a. CASE Start
  BY <1>1, <1>7, <1>7a DEF Start, Ending, ConsumerRecords
<1>7b. CASE Forward
  BY <1>1, <1>7, <1>7b DEF Forward, Ending, ConsumerRecords
<1>7d. CASE HostAccepts
  <2>1. /\ consumer'.queue = consumer.queue /\ consumer'.step = "accepted"
        /\ consumer'.emitStart = consumer.emitStart
    BY <1>1, <1>7d DEF HostAccepts, ConsumerRecords
  <2>2. consumer.queue > 0
    BY <1>7d DEF HostAccepts, At, Bounds
  <2>3. QED
    BY <1>7, <2>1, <2>2 DEF Ending
<1>7c. CASE NoteAccepted
  <2>1. consumer.queue \in Nat /\ consumer.queue > 0
    BY <1>1, <1>7c DEF NoteAccepted, At, Bounds, ConsumerRecords
  <2>2. CASE consumer.queue = 1
    BY <1>1, <1>3, <1>7c, <2>2 DEF NoteAccepted, Ending, ConsumerRecords
  <2>3. CASE consumer.queue # 1
    BY <1>1, <1>7, <1>7c, <2>1, <2>3 DEF NoteAccepted, Ending, ConsumerRecords
  <2>4. QED
    BY <2>2, <2>3
<1>8. CASE Judge
  <2>1. Verdicts \subseteq Outcomes
    BY <1>1 DEF Verdicts, ConsumerRecords, Outcomes, Causes, None
  <2>2. \A verdict \in Outcomes :
          (IF verdict = None /\ ~consumer.started THEN "protocol" ELSE verdict) # "stop"
    BY DEF Outcomes, Causes, None
  <2>3. QED
    BY <1>1, <1>2, <1>8, <2>1, <2>2 DEF Judge, Bounds, ConsumerRecords
<1>9. ASSUME consumer'.emitStart = consumer.emitStart, consumer.step \in Ending,
             consumer'.err = consumer.err, consumer'.step \in Ending
      PROVE  Bounds'
  BY <1>1, <1>2, <1>9 DEF Bounds, Ending, ConsumerRecords
<1>9a. CASE ReadPhase
  BY <1>1, <1>9, <1>9a DEF ReadPhase, At, Ending, ConsumerRecords
<1>9b. CASE EnterClose
  BY <1>1, <1>9, <1>9b DEF EnterClose, At, Ending, ConsumerRecords
<1>9c. CASE SendClose
  BY <1>1, <1>9, <1>9c DEF SendClose, At, Ending, ConsumerRecords
<1>9d. CASE Report
  BY <1>1, <1>9, <1>9d DEF Report, At, Ending, ConsumerRecords
<1>10. CASE JoinClose
  <2>1. output.cause # "stop"
    BY DEF TypeOK, Outcomes, Causes, None
  <2>2. QED
    BY <1>1, <1>2, <1>10, <2>1 DEF JoinClose, Bounds, ConsumerRecords
<1>11. CASE consumer' = consumer
  BY <1>1, <1>2, <1>11 DEF Bounds, ConsumerRecords
<1>12. QED
  BY <1>4, <1>5, <1>6, <1>7a, <1>7b, <1>7c, <1>7d, <1>8, <1>9a, <1>9b, <1>9c, <1>9d, <1>10, <1>11
     DEF Next, Consume, Watch, RunLoop, RunWakes, RunReadsPhase, RunEntersClose,
         RunSendsClose, RunClosesUpstream, Shutdown, CancelParent, OtherCloses, Tick

\* The output, the host and the receipts keep their types: what is closed or
\* reported is an outcome, since the verdict replaced a regular stop.
LEMMA OthersTyped ==
  ASSUME TypeOK, Bounds, Next, consumer' \in ConsumerRecords,
         watchdog' \in WatchdogRecords
  PROVE  TypeOK'
<1> DEFINE Others == <<output, rpc, host, receipts>>
<1>1. consumer \in ConsumerRecords /\ watchdog \in WatchdogRecords
  BY DEF TypeOK
<1>2. consumer.err \in Outcomes \cup {"stop"} /\ watchdog.err \in Outcomes
      /\ consumer.phase \in BOOLEAN /\ watchdog.phase \in BOOLEAN
  BY <1>1 DEF ConsumerRecords, WatchdogRecords
<1>3. consumer.step \in Ending => consumer.err \in Outcomes
  BY <1>2 DEF Bounds
<1>4. None \in Outcomes
  BY DEF Outcomes
<1>5. ASSUME UNCHANGED Others, world' = world, quiet' \in Nat PROVE TypeOK'
  BY <1>5 DEF TypeOK, world
<1>6. ASSUME UNCHANGED Others, quiet' = quiet, now' = now, mode' = mode,
             shutdown' \in BOOLEAN, parentDone' \in BOOLEAN,
             upstream' \in {"open", "closed"}, frames' \in Nat
      PROVE  TypeOK'
  BY <1>6 DEF TypeOK
<1>7. CASE CheckRead \/ ChunkEnds \/ BeginEmit \/ Hold \/ Forward \/ ReadReturns
  BY <1>5, <1>7 DEF CheckRead, ChunkEnds, BeginEmit, Hold, Forward, ReadReturns, TypeOK
<1>8. CASE EffectiveOutput \/ HostRefuses \/ EndEmit \/ StopWatchdog
  BY <1>5, <1>8 DEF EffectiveOutput, HostRefuses, EndEmit, StopWatchdog, TypeOK
<1>9. CASE Judge \/ ReadPhase \/ RunLoop \/ RunWakes \/ RunReadsPhase
  BY <1>5, <1>9 DEF Judge, ReadPhase, RunLoop, RunWakes, RunReadsPhase, TypeOK
<1>10. CASE CompletionFrame \/ DoneFrame \/ ErrorFrame
  <2>1. frames' \in Nat
    BY <1>10 DEF CompletionFrame, DoneFrame, ErrorFrame, NextFrame, TypeOK
  <2>2. QED
    BY <1>6, <1>10, <2>1 DEF CompletionFrame, DoneFrame, ErrorFrame, TypeOK
<1>11. CASE Join \/ RunClosesUpstream
  BY <1>6, <1>11 DEF Join, RunClosesUpstream, TypeOK
<1>12. CASE Shutdown \/ CancelParent \/ OtherCloses
  BY <1>6, <1>12 DEF Shutdown, CancelParent, OtherCloses, TypeOK
<1>13. CASE Tick
  <2>1. now' \in Nat /\ quiet' \in Nat
    BY <1>13 DEF Tick, TypeOK
  <2>2. QED
    BY <1>13, <2>1 DEF Tick, TypeOK
<1>14. CASE Start
  <2>1. receipts' \in [lease : Seq(Outcomes), log : Outcomes \cup {"unwritten"},
                      phase : BOOLEAN]
    <3>1. Append(receipts.lease, None) \in Seq(Outcomes)
      BY <1>4 DEF TypeOK
    <3>2. QED
      BY <1>14, <3>1 DEF Start, TypeOK
  <2>2. QED
    BY <1>14, <2>1 DEF Start, TypeOK, world
<1>15. CASE Report
  <2>1. consumer.err \in Outcomes
    BY <1>3, <1>15 DEF Report, At, Ending
  <2>2. Append(receipts.lease, consumer.err) \in Seq(Outcomes)
    BY <2>1 DEF TypeOK
  <2>3. receipts' \in [lease : Seq(Outcomes), log : Outcomes \cup {"unwritten"},
                      phase : BOOLEAN]
    BY <1>15, <2>1, <2>2 DEF Report, TypeOK
  <2>4. rpc' \in {"waiting", "streaming"} \cup Outcomes
    BY <1>15, <2>1 DEF Report, TypeOK
  <2>5. QED
    BY <1>15, <2>3, <2>4 DEF Report, TypeOK, world
<1>16. CASE HostAccepts
  <2>1. host' \in [accepted : Nat, closes : Nat, cause : Outcomes, phase : BOOLEAN]
    <3>1. host.accepted + 1 \in Nat
      BY DEF TypeOK
    <3>2. QED
      BY <1>16, <3>1 DEF HostAccepts, TypeOK
  <2>2. QED
    BY <1>16, <2>1 DEF HostAccepts, TypeOK, world
<1>17. CASE NoteAccepted
  BY <1>17 DEF NoteAccepted, TypeOK, world
<1>18. CASE EnterClose
  <2>1. consumer.err \in Outcomes
    BY <1>3, <1>18 DEF EnterClose, At, Ending
  <2>2. output' \in [once : {"free", "taken", "over"}, started : BOOLEAN, cause : Outcomes]
    BY <1>18, <2>1 DEF EnterClose, TypeOK
  <2>3. QED
    BY <1>18, <2>2 DEF EnterClose, TypeOK, world
<1>19. CASE RunEntersClose
  <2>1. output' \in [once : {"free", "taken", "over"}, started : BOOLEAN, cause : Outcomes]
    BY <1>2, <1>19 DEF RunEntersClose, TypeOK
  <2>2. QED
    BY <1>19, <2>1 DEF RunEntersClose, TypeOK, world
<1>20. CASE SendClose \/ RunSendsClose
  <2>1. PICK phase \in BOOLEAN : HostClosed(phase)
    BY <1>2, <1>20 DEF SendClose, RunSendsClose
  <2>2. output.cause \in Outcomes /\ host.closes + 1 \in Nat
    BY DEF TypeOK
  <2>3. host' \in [accepted : Nat, closes : Nat, cause : Outcomes, phase : BOOLEAN]
    BY <2>1, <2>2 DEF HostClosed, TypeOK
  <2>4. output' \in [once : {"free", "taken", "over"}, started : BOOLEAN, cause : Outcomes]
    BY <1>20 DEF SendClose, RunSendsClose, TypeOK
  <2>5. QED
    BY <1>20, <2>3, <2>4 DEF SendClose, RunSendsClose, TypeOK, world
<1>21. CASE JoinClose
  BY <1>5, <1>21 DEF JoinClose, TypeOK
<1>22. QED
  BY <1>7, <1>8, <1>9, <1>10, <1>11, <1>12, <1>13, <1>14, <1>15, <1>16, <1>17,
     <1>18, <1>19, <1>20, <1>21 DEF Next, Consume, Watch

\* The inductive invariant of the types
Typed == TypeOK /\ Bounds

\* Types and bounds hold in every state of a session.
LEMMA TypesHold == Spec => []Typed
<1>1. Init => Typed
  <2> SUFFICES ASSUME Init PROVE Typed
    OBVIOUS
  <2>1. None \in Outcomes
    BY DEF Outcomes
  <2>2. consumer \in ConsumerRecords
    BY <2>1 DEF Init, ConsumerRecords, ConsumerSteps
  <2>3. watchdog \in WatchdogRecords
    BY <2>1 DEF Init, WatchdogRecords, WatchdogSteps
  <2>4. /\ output \in [once : {"free", "taken", "over"}, started : BOOLEAN, cause : Outcomes]
        /\ host \in [accepted : Nat, closes : Nat, cause : Outcomes, phase : BOOLEAN]
    BY <2>1 DEF Init
  <2>5. receipts \in [lease : Seq(Outcomes), log : Outcomes \cup {"unwritten"},
                     phase : BOOLEAN]
    <3>1. <<>> \in Seq(Outcomes)
      OBVIOUS
    <3>2. QED
      BY <3>1 DEF Init
  <2>6. TypeOK
    BY <2>2, <2>3, <2>4, <2>5 DEF Init, TypeOK
  <2>7. QED
    BY <2>6 DEF Typed, Init, Bounds, Ending
<1>2. Typed /\ [Next]_vars => Typed'
  <2> SUFFICES ASSUME Typed, [Next]_vars PROVE Typed'
    OBVIOUS
  <2>1. CASE UNCHANGED vars
    BY <2>1 DEF vars, Typed, TypeOK, Bounds
  <2>2. ASSUME Next PROVE Typed'
    <3>0. TypeOK /\ Bounds
      BY DEF Typed
    <3>1. consumer' \in ConsumerRecords /\ watchdog' \in WatchdogRecords /\ Bounds'
      BY <2>2, <3>0, ConsumerTypes, WatchTypes, BoundsKept
    <3>2. QED
      BY <2>2, <3>0, <3>1, OthersTyped DEF Typed
  <2>3. QED
    BY <2>1, <2>2
<1>3. QED
  BY <1>1, <1>2, PTL DEF Spec

\* Every variable of a session keeps its type, for any budgets and any upstream.
THEOREM TypeCorrect == Spec => []TypeOK
<1>1. Typed => TypeOK
  BY DEF Typed
<1>2. QED
  BY <1>1, TypesHold, PTL

\* The consumer writes the watchdog's record, but moves only its own step.
LEMMA WatchdogStaysPut ==
  ASSUME Typed, EffectiveOutput \/ BeginEmit \/ EndEmit \/ StopWatchdog
  PROVE  watchdog'.step = watchdog.step
<1>1. watchdog \in WatchdogRecords /\ Resumed \in WatchdogRecords
  BY ResumedTypes DEF Typed, TypeOK
<1>2. /\ Checked(watchdog) \in WatchdogRecords /\ Checked(watchdog).step = watchdog.step
      /\ Checked(Resumed) \in WatchdogRecords /\ Checked(Resumed).step = watchdog.step
  <2>1. Resumed.step = watchdog.step
    BY <1>1 DEF Resumed, WatchdogRecords
  <2>2. QED
    BY <1>1, <2>1, WatchdogTypes, CheckedFields DEF Typed
<1>3. CASE EffectiveOutput
  BY <1>2, <1>3 DEF EffectiveOutput, WatchdogRecords
<1>4. CASE BeginEmit
  BY <1>2, <1>4 DEF BeginEmit, WatchdogRecords
<1>5. CASE EndEmit
  BY <1>2, <1>5 DEF EndEmit, Resumed, WatchdogRecords
<1>6. CASE StopWatchdog
  BY <1>1, <1>6 DEF StopWatchdog, WatchdogRecords
<1>7. QED
  BY <1>3, <1>4, <1>5, <1>6

-----------------------------------------------------------------------------
(* After the end *)

\* From its verdict on, the consumer finds the watchdog ended and the upstream
\* closed, as the wait of readWatched promises.
THEOREM BothSidesQuiet == Spec => []QuietAfterEnd
<1>1. Init => QuietAfterEnd
  BY DEF Init, QuietAfterEnd
<1>2. Typed /\ QuietAfterEnd /\ [Next]_vars => QuietAfterEnd'
  <2> SUFFICES ASSUME Typed, QuietAfterEnd, [Next]_vars PROVE QuietAfterEnd'
    OBVIOUS
  <2>1. consumer \in ConsumerRecords /\ watchdog \in WatchdogRecords
    BY DEF Typed, TypeOK
  <2> DEFINE Over == {"judge", "phase", "close", "closing", "receipt", "done"}
  <2>2. ASSUME consumer'.step \notin Over PROVE QuietAfterEnd'
    BY <2>2 DEF QuietAfterEnd
  <2>3. ASSUME consumer.step \in Over, watchdog'.step = watchdog.step,
               upstream = "closed" => upstream' = "closed"
        PROVE  QuietAfterEnd'
    BY <2>3 DEF QuietAfterEnd, Run
  <2>4. CASE CheckRead \/ ChunkEnds \/ EffectiveOutput \/ BeginEmit
    BY <2>1, <2>2, <2>4 DEF CheckRead, ChunkEnds, EffectiveOutput, BeginEmit, Fail,
       ConsumerRecords
  <2>5. CASE Hold \/ Start \/ Forward \/ NoteAccepted \/ EndEmit \/ StopWatchdog
    BY <2>1, <2>2, <2>5 DEF Hold, Start, Forward, NoteAccepted, EndEmit, StopWatchdog,
       Fail, ConsumerRecords
  <2>6. CASE ReadReturns \/ CompletionFrame \/ DoneFrame \/ ErrorFrame
    BY <2>1, <2>2, <2>6 DEF ReadReturns, CompletionFrame, DoneFrame, ErrorFrame, Fail,
       ConsumerRecords
  <2>7. CASE HostAccepts \/ HostRefuses
    BY <2>1, <2>2, <2>7 DEF HostAccepts, HostRefuses, ConsumerRecords
  <2>8. CASE Join
    BY <2>8 DEF Join, QuietAfterEnd, Run
  <2>9. CASE Judge \/ ReadPhase \/ EnterClose \/ SendClose \/ JoinClose \/ Report
    BY <2>3, <2>9 DEF Judge, ReadPhase, EnterClose, SendClose, JoinClose, Report, At, world
  <2>10. CASE Watch
    BY <2>1, <2>10 DEF Watch, RunLoop, RunWakes, RunReadsPhase, RunEntersClose,
       RunSendsClose, RunClosesUpstream, Run, QuietAfterEnd
  <2>11. CASE Shutdown \/ CancelParent \/ OtherCloses \/ Tick \/ UNCHANGED vars
    BY <2>11 DEF Shutdown, CancelParent, OtherCloses, Tick, vars, QuietAfterEnd, Run
  <2>12. QED
    BY <2>4, <2>5, <2>6, <2>7, <2>8, <2>9, <2>10, <2>11 DEF Next, Consume
<1>3. QED
  BY <1>1, <1>2, TypesHold, PTL DEF Spec

-----------------------------------------------------------------------------
(* One outcome *)

\* The once of outputStreamLifecycle admits one closer, and the host gets the
\* cause that closer wrote.  The consumer meets the watchdog's end before it
\* closes, so the two never hold the once together.
LEMMA OnceIsHeld == Spec => []OnceHeld
<1>1. Init => OnceHeld
  BY DEF Init, OnceHeld, At, Run
<1>2. Typed /\ QuietAfterEnd /\ OnceHeld /\ [Next]_vars => OnceHeld'
  <2> SUFFICES ASSUME Typed, QuietAfterEnd, OnceHeld, [Next]_vars PROVE OnceHeld'
    OBVIOUS
  <2>1. /\ consumer \in ConsumerRecords /\ watchdog \in WatchdogRecords
        /\ output \in [once : {"free", "taken", "over"}, started : BOOLEAN, cause : Outcomes]
        /\ host \in [accepted : Nat, closes : Nat, cause : Outcomes, phase : BOOLEAN]
    BY DEF Typed, TypeOK
  <2>2. At("closing") => Run("done")
    BY DEF QuietAfterEnd, At
  <2>3. ASSUME ~At("closing"), ~At("closing")', watchdog'.step = watchdog.step,
               output'.once = output.once, output'.cause = output.cause,
               host'.closes = host.closes, host'.cause = host.cause
        PROVE  OnceHeld'
    BY <2>3 DEF OnceHeld, At, Run
  <2>4. CASE CheckRead \/ ChunkEnds
    BY <2>1, <2>3, <2>4 DEF CheckRead, ChunkEnds, Fail, At, ConsumerRecords
  <2>5. CASE Hold \/ Start \/ Forward \/ NoteAccepted
    BY <2>1, <2>3, <2>5 DEF Hold, Start, Forward, NoteAccepted, At, ConsumerRecords
  <2>6. CASE EffectiveOutput \/ BeginEmit \/ EndEmit \/ StopWatchdog
    <3>1. watchdog'.step = watchdog.step
      BY <2>6, WatchdogStaysPut
    <3>2. ~At("closing") /\ ~At("closing")'
      BY <2>1, <2>6 DEF EffectiveOutput, BeginEmit, EndEmit, StopWatchdog, Fail, At,
         ConsumerRecords
    <3>3. UNCHANGED <<output, host>>
      BY <2>6 DEF EffectiveOutput, BeginEmit, EndEmit, StopWatchdog
    <3>4. QED
      BY <2>3, <3>1, <3>2, <3>3
  <2>7. CASE ReadReturns \/ CompletionFrame \/ DoneFrame \/ ErrorFrame
    BY <2>1, <2>3, <2>7 DEF ReadReturns, CompletionFrame, DoneFrame, ErrorFrame, Fail, At,
       ConsumerRecords, NextFrame
  <2>8. CASE HostAccepts \/ HostRefuses
    BY <2>1, <2>3, <2>8 DEF HostAccepts, HostRefuses, At, ConsumerRecords
  <2>9. CASE Join \/ Judge \/ ReadPhase \/ JoinClose \/ Report
    BY <2>1, <2>3, <2>9 DEF Join, Judge, ReadPhase, JoinClose, Report, At, ConsumerRecords
  <2>10. CASE EnterClose
    BY <2>1, <2>10 DEF EnterClose, OnceHeld, At, Run, ConsumerRecords
  <2>11. CASE SendClose
    BY <2>1, <2>2, <2>11 DEF SendClose, HostClosed, OnceHeld, At, Run, ConsumerRecords
  <2>12. CASE RunEntersClose
    BY <2>1, <2>2, <2>12 DEF RunEntersClose, OnceHeld, At, Run, WatchdogRecords
  <2>13. CASE RunSendsClose
    BY <2>1, <2>2, <2>13 DEF RunSendsClose, HostClosed, OnceHeld, At, Run, WatchdogRecords
  <2>14. CASE RunLoop \/ RunWakes \/ RunReadsPhase \/ RunClosesUpstream
    <3>1. ~Run("closing") /\ ~Run("closing")'
      <4>1. Checked(watchdog) \in WatchdogRecords /\ Checked(watchdog).step = watchdog.step
        BY <2>1, WatchdogTypes, CheckedFields DEF Typed
      <4>2. CASE RunLoop
        BY <2>1, <4>1, <4>2 DEF RunLoop, Run, WatchdogRecords
      <4>3. CASE RunWakes
        BY <2>1, <4>3 DEF RunWakes, Run, WatchdogRecords
      <4>4. CASE RunReadsPhase \/ RunClosesUpstream
        BY <2>1, <4>4 DEF RunReadsPhase, RunClosesUpstream, Run, WatchdogRecords
      <4>5. QED
        BY <2>14, <4>2, <4>3, <4>4
    <3>2. UNCHANGED <<consumer, output, host>>
      BY <2>14 DEF RunLoop, RunWakes, RunReadsPhase, RunClosesUpstream
    <3>3. QED
      BY <3>1, <3>2 DEF OnceHeld, At
  <2>15. CASE Shutdown \/ CancelParent \/ OtherCloses \/ Tick \/ UNCHANGED vars
    BY <2>15 DEF Shutdown, CancelParent, OtherCloses, Tick, vars, OnceHeld, At, Run
  <2>16. QED
    BY <2>4, <2>5, <2>6, <2>7, <2>8, <2>9, <2>10, <2>11, <2>12, <2>13, <2>14,
       <2>15 DEF Next, Consume, Watch
<1>3. QED
  BY <1>1, <1>2, TypesHold, BothSidesQuiet, PTL DEF Spec

\* Only the first failure of a session closes it: what the receipts say.
LEMMA ReceiptsHold == Spec => []Reported
<1>1. Init => Reported
  BY DEF Init, Reported, At
<1>2. Typed /\ OnceHeld /\ Reported /\ [Next]_vars => Reported'
  <2> SUFFICES ASSUME Typed, OnceHeld, Reported, [Next]_vars PROVE Reported'
    OBVIOUS
  <2>1. /\ consumer \in ConsumerRecords /\ consumer.err \in Outcomes \cup {"stop"}
        /\ output \in [once : {"free", "taken", "over"}, started : BOOLEAN, cause : Outcomes]
        /\ receipts \in [lease : Seq(Outcomes), log : Outcomes \cup {"unwritten"},
                         phase : BOOLEAN]
    BY DEF Typed, TypeOK, ConsumerRecords
  <2>2. ASSUME consumer'.step \notin {"receipt", "done"} PROVE Reported'
    BY <2>2 DEF Reported, At
  <2>3. CASE CheckRead \/ ChunkEnds \/ EffectiveOutput \/ BeginEmit
    BY <2>1, <2>2, <2>3 DEF CheckRead, ChunkEnds, EffectiveOutput, BeginEmit, Fail,
       ConsumerRecords
  <2>4. CASE Hold \/ Start \/ Forward \/ NoteAccepted \/ EndEmit \/ StopWatchdog
    BY <2>1, <2>2, <2>4 DEF Hold, Start, Forward, NoteAccepted, EndEmit, StopWatchdog,
       Fail, ConsumerRecords
  <2>5. CASE ReadReturns \/ CompletionFrame \/ DoneFrame \/ ErrorFrame
    BY <2>1, <2>2, <2>5 DEF ReadReturns, CompletionFrame, DoneFrame, ErrorFrame, Fail,
       ConsumerRecords
  <2>6. CASE HostAccepts \/ HostRefuses
    BY <2>1, <2>2, <2>6 DEF HostAccepts, HostRefuses, ConsumerRecords
  <2>7. CASE Join \/ Judge \/ ReadPhase \/ EnterClose
    BY <2>1, <2>2, <2>7 DEF Join, Judge, ReadPhase, EnterClose, ConsumerRecords
  <2>8. CASE SendClose \/ JoinClose
    BY <2>1, <2>8 DEF SendClose, JoinClose, OnceHeld, Reported, At, ConsumerRecords
  <2>9. CASE Report
    <3>1. consumer.err \in Outcomes /\ consumer.err = output.cause /\ output.once = "over"
      BY <2>1, <2>9 DEF Report, Reported, At
    <3>2. /\ receipts' = [lease |-> Append(receipts.lease, consumer.err),
                          log |-> consumer.err, phase |-> output.started]
          /\ consumer'.err = consumer.err /\ output' = output
      BY <2>1, <2>9 DEF Report, ConsumerRecords
    <3>3. /\ Len(receipts'.lease) = Len(receipts.lease) + 1
          /\ receipts'.lease[Len(receipts.lease) + 1] = consumer.err
      BY <2>1, <3>1, <3>2
    <3>4. Len(receipts.lease) \in Nat
      BY <2>1
    <3>5. QED
      BY <3>1, <3>2, <3>3, <3>4 DEF Reported, At
  <2>10. CASE RunEntersClose \/ RunSendsClose
    BY <2>1, <2>10 DEF RunEntersClose, RunSendsClose, OnceHeld, Reported, At
  <2>11. CASE RunLoop \/ RunWakes \/ RunReadsPhase \/ RunClosesUpstream
    BY <2>11 DEF RunLoop, RunWakes, RunReadsPhase, RunClosesUpstream, Reported, At
  <2>12. CASE Shutdown \/ CancelParent \/ OtherCloses \/ Tick \/ UNCHANGED vars
    BY <2>12 DEF Shutdown, CancelParent, OtherCloses, Tick, vars, Reported, At
  <2>13. QED
    BY <2>3, <2>4, <2>5, <2>6, <2>7, <2>8, <2>9, <2>10, <2>11, <2>12
       DEF Next, Consume, Watch
<1>3. QED
  BY <1>1, <1>2, TypesHold, OnceIsHeld, PTL DEF Spec

\* The RPC answers with the first completion frame, or with the last report.
LEMMA AnswersHold == Spec => []Answered
<1>1. Init => Answered
  BY DEF Init, Answered, At
<1>2. Typed /\ Answered /\ [Next]_vars => Answered'
  <2> SUFFICES ASSUME Typed, Answered, [Next]_vars PROVE Answered'
    OBVIOUS
  <2>1. /\ consumer \in ConsumerRecords
        /\ host \in [accepted : Nat, closes : Nat, cause : Outcomes, phase : BOOLEAN]
    BY DEF Typed, TypeOK
  <2>2. ASSUME consumer.step # "done", consumer'.step # "done", rpc' = rpc,
               consumer'.started = consumer.started, host'.accepted = host.accepted,
               consumer'.step \in {"sending", "accepted"} => consumer.started
        PROVE  Answered'
    BY <2>2 DEF Answered, At
  <2>3. CASE CheckRead \/ ChunkEnds \/ EffectiveOutput
    BY <2>1, <2>2, <2>3 DEF CheckRead, ChunkEnds, EffectiveOutput, Fail, At, ConsumerRecords
  <2>4. CASE BeginEmit \/ Hold \/ Forward
    BY <2>1, <2>2, <2>4 DEF BeginEmit, Hold, Forward, Fail, At, ConsumerRecords
  <2>5. CASE NoteAccepted
    BY <2>1, <2>2, <2>5 DEF NoteAccepted, Answered, At, ConsumerRecords
  <2>6. CASE EndEmit \/ StopWatchdog \/ Join
    BY <2>1, <2>2, <2>6 DEF EndEmit, StopWatchdog, Join, Fail, At, ConsumerRecords
  <2>7. CASE ReadReturns \/ CompletionFrame \/ DoneFrame \/ ErrorFrame
    BY <2>1, <2>2, <2>7 DEF ReadReturns, CompletionFrame, DoneFrame, ErrorFrame, NextFrame,
       Fail, At, ConsumerRecords
  <2>8. CASE HostRefuses \/ Judge \/ ReadPhase
    BY <2>1, <2>2, <2>8 DEF HostRefuses, Judge, ReadPhase, At, ConsumerRecords
  <2>9. CASE EnterClose \/ SendClose \/ JoinClose
    BY <2>1, <2>2, <2>9 DEF EnterClose, SendClose, JoinClose, HostClosed, At, ConsumerRecords
  <2>10. CASE Start
    BY <2>1, <2>10 DEF Start, Answered, At, ConsumerRecords
  <2>11. CASE HostAccepts
    BY <2>1, <2>11 DEF HostAccepts, Answered, At, ConsumerRecords
  <2>12. CASE Report
    BY <2>1, <2>12 DEF Report, Answered, At, ConsumerRecords
  <2>13. CASE Watch
    BY <2>1, <2>13 DEF Watch, RunLoop, RunWakes, RunReadsPhase, RunEntersClose,
       RunSendsClose, RunClosesUpstream, HostClosed, Answered, At
  <2>14. CASE Shutdown \/ CancelParent \/ OtherCloses \/ Tick \/ UNCHANGED vars
    BY <2>14 DEF Shutdown, CancelParent, OtherCloses, Tick, vars, Answered, At
  <2>15. QED
    BY <2>3, <2>4, <2>5, <2>6, <2>7, <2>8, <2>9, <2>10, <2>11, <2>12, <2>13, <2>14
       DEF Next, Consume
<1>3. QED
  BY <1>1, <1>2, TypesHold, PTL DEF Spec

\* Host, request log, rate lease and RPC agree, whoever closes first.
THEOREM OutcomesAlwaysAgree == Spec => []OutcomesAgree
<1>1. OnceHeld /\ Reported /\ Answered => OutcomesAgree
  BY DEF OnceHeld, Reported, Answered, OutcomesAgree, At
<1>2. QED
  BY <1>1, OnceIsHeld, ReceiptsHold, AnswersHold, PTL

\* An error of executor.execute_stream means that the host accepted no frame.
THEOREM ErrorsFollowNoOutput == Spec => []ErrorReturnMeansNoOutput
<1>1. Typed /\ Answered => ErrorReturnMeansNoOutput
  BY DEF Typed, TypeOK, Answered, ErrorReturnMeansNoOutput, At, Causes
<1>2. QED
  BY <1>1, TypesHold, AnswersHold, PTL

-----------------------------------------------------------------------------
(* A success is complete *)

\* The watchdog never cuts a stream without a cause.
LEMMA CutsHaveCauses == Spec => []CutHasCause
<1>1. Init => CutHasCause
  BY DEF Init, CutHasCause
<1>2. Typed /\ OnceHeld /\ CutHasCause /\ [Next]_vars => CutHasCause'
  <2> SUFFICES ASSUME Typed, OnceHeld, CutHasCause, [Next]_vars PROVE CutHasCause'
    OBVIOUS
  <2>1. /\ consumer \in ConsumerRecords /\ watchdog \in WatchdogRecords
        /\ output \in [once : {"free", "taken", "over"}, started : BOOLEAN, cause : Outcomes]
    BY DEF Typed, TypeOK
  <2>2. ASSUME watchdog'.step = watchdog.step,
               watchdog.err # None => watchdog'.err = watchdog.err,
               output'.once = output.once, output'.cause = output.cause,
               consumer'.step \in {"closing", "receipt", "done"}
                 \/ consumer.step \notin {"closing", "receipt", "done"}
        PROVE  CutHasCause'
    BY <2>2 DEF CutHasCause
  <2>3. CASE CheckRead \/ ChunkEnds \/ Hold \/ Start
    BY <2>1, <2>2, <2>3 DEF CheckRead, ChunkEnds, Hold, Start, At
  <2>4. CASE Forward \/ NoteAccepted
    BY <2>1, <2>2, <2>4 DEF Forward, NoteAccepted, At
  <2>5. CASE EffectiveOutput \/ BeginEmit \/ EndEmit \/ StopWatchdog
    <3>1. watchdog'.step = watchdog.step
      BY <2>5, WatchdogStaysPut
    <3>2. ASSUME watchdog.err # None PROVE watchdog'.err = watchdog.err
      <4>1. /\ Checked(watchdog) \in WatchdogRecords /\ Checked(watchdog).err = watchdog.err
            /\ Checked(Resumed) \in WatchdogRecords /\ Checked(Resumed).err = watchdog.err
        <5>1. Resumed \in WatchdogRecords /\ Resumed.err = watchdog.err
          BY <2>1, ResumedTypes DEF Typed, Resumed, WatchdogRecords
        <5>2. QED
          BY <2>1, <3>2, <5>1, WatchdogTypes, CheckedFields DEF Typed
      <4>2. CASE EffectiveOutput
        BY <4>1, <4>2 DEF EffectiveOutput, WatchdogRecords
      <4>3. CASE BeginEmit
        BY <4>1, <4>3 DEF BeginEmit, WatchdogRecords
      <4>4. CASE EndEmit
        BY <4>1, <4>4 DEF EndEmit, Resumed, WatchdogRecords
      <4>5. CASE StopWatchdog
        BY <2>1, <4>5 DEF StopWatchdog, WatchdogRecords
      <4>6. QED
        BY <2>5, <4>2, <4>3, <4>4, <4>5
    <3>3. consumer.step \notin {"closing", "receipt", "done"} /\ output' = output
      BY <2>5 DEF EffectiveOutput, BeginEmit, EndEmit, StopWatchdog, At
    <3>4. QED
      BY <2>2, <3>1, <3>2, <3>3
  <2>6. CASE ReadReturns \/ CompletionFrame \/ DoneFrame \/ ErrorFrame
    BY <2>2, <2>6 DEF ReadReturns, CompletionFrame, DoneFrame, ErrorFrame, NextFrame, At
  <2>7. CASE HostAccepts \/ HostRefuses \/ Join \/ Judge \/ ReadPhase
    BY <2>2, <2>7 DEF HostAccepts, HostRefuses, Join, Judge, ReadPhase, At
  <2>8. CASE EnterClose
    BY <2>1, <2>8 DEF EnterClose, CutHasCause, ConsumerRecords
  <2>9. CASE SendClose \/ JoinClose \/ Report
    BY <2>1, <2>9 DEF SendClose, JoinClose, Report, CutHasCause, ConsumerRecords
  <2>10. CASE RunLoop
    <3>1. Checked(watchdog) \in WatchdogRecords
      BY <2>1, WatchdogTypes DEF Typed
    <3>2. QED
      BY <2>1, <2>10, <3>1 DEF RunLoop, CutHasCause, WatchdogRecords
  <2>11. CASE RunWakes \/ RunReadsPhase
    BY <2>1, <2>11 DEF RunWakes, RunReadsPhase, Run, CutHasCause, WatchdogRecords
  <2>12. CASE RunEntersClose
    BY <2>1, <2>12 DEF RunEntersClose, Run, CutHasCause, WatchdogRecords
  <2>13. CASE RunSendsClose
    BY <2>1, <2>13 DEF RunSendsClose, Run, CutHasCause, OnceHeld, WatchdogRecords
  <2>14. CASE RunClosesUpstream
    BY <2>1, <2>14 DEF RunClosesUpstream, CutHasCause, WatchdogRecords
  <2>15. CASE Shutdown \/ CancelParent \/ OtherCloses \/ Tick \/ UNCHANGED vars
    BY <2>15 DEF Shutdown, CancelParent, OtherCloses, Tick, vars, CutHasCause
  <2>16. QED
    BY <2>3, <2>4, <2>5, <2>6, <2>7, <2>8, <2>9, <2>10, <2>11, <2>12, <2>13,
       <2>14, <2>15 DEF Next, Consume, Watch
<1>3. QED
  BY <1>1, <1>2, TypesHold, OnceIsHeld, PTL DEF Spec

\* The consumer never loses a frame without a failure in hand.
LEMMA DeliveryHolds == Spec => []Delivered
<1>1. Init => Delivered
  BY DEF Init, Delivered, None, Ending
<1>2. Typed /\ Answered /\ CutHasCause /\ Delivered /\ [Next]_vars => Delivered'
  <2> SUFFICES ASSUME Typed, Answered, CutHasCause, Delivered, [Next]_vars PROVE Delivered'
    OBVIOUS
  <2>1. consumer \in ConsumerRecords /\ consumer.end \in {"more", "eof"} \cup Causes
        /\ consumer.queue \in Nat /\ consumer.pending \in Nat
        /\ consumer.err \in Outcomes \cup {"stop"}
    BY DEF Typed, TypeOK, ConsumerRecords
  <2>2. watchdog \in WatchdogRecords /\ watchdog.err \in Outcomes
        /\ output.cause \in Outcomes
    BY DEF Typed, TypeOK, WatchdogRecords
  <2>3. Checked(watchdog).err \in Outcomes /\ Checked(Resumed).err \in Outcomes
    BY <2>2, ResumedTypes, WatchdogTypes DEF Typed, WatchdogRecords
  <2>4. None \notin Causes /\ None # "stop" /\ "stop" \notin Causes
        /\ Outcomes = Causes \cup {None}
    BY DEF Outcomes, Causes, None
  <2> DEFINE Before == {"read", "got", "frames", "content", "emit", "forward"}
             Same == /\ consumer'.started = consumer.started
                     /\ consumer'.pending = consumer.pending
                     /\ consumer'.queue = consumer.queue
  <2>5. ASSUME consumer.step \in Before, consumer'.step = "stop", Same,
               consumer'.err \in Outcomes \cup {"stop"},
               consumer'.err = "stop" => consumer'.finished,
               consumer'.doneSeen => consumer'.err # None
        PROVE  Delivered'
    BY <2>1, <2>4, <2>5 DEF Delivered, Ending
  <2>6. ASSUME consumer.step \in Before, consumer'.step \in Before, Same,
               consumer'.err = consumer.err, consumer'.doneSeen = consumer.doneSeen
        PROVE  Delivered'
    BY <2>1, <2>4, <2>6 DEF Delivered, Ending
  <2>7. ASSUME consumer.step \in Before, NEW err \in Outcomes, consumer' = Fail(consumer, err)
        PROVE  Delivered'
    <3>1. /\ consumer'.step = "stop" /\ Same /\ consumer'.err = err
          /\ consumer'.doneSeen = consumer.doneSeen
      BY <2>1, <2>7 DEF Fail, ConsumerRecords
    <3>2. ~consumer.doneSeen /\ err # "stop"
      BY <2>4, <2>7 DEF Delivered
    <3>3. QED
      BY <2>5, <2>7, <3>1, <3>2
  <2>8. CASE ReadReturns
    BY <2>1, <2>6, <2>8 DEF ReadReturns, At, ConsumerRecords
  <2>9. CASE CompletionFrame
    BY <2>1, <2>6, <2>9 DEF CompletionFrame, NextFrame, At, ConsumerRecords
  <2>10. CASE DoneFrame
    BY <2>1, <2>4, <2>5, <2>10 DEF DoneFrame, NextFrame, Fail, At, ConsumerRecords, Causes
  <2>11. CASE ErrorFrame
    BY <2>4, <2>7, <2>11 DEF ErrorFrame, NextFrame, At, Causes
  <2>12. CASE CheckRead
    BY <2>1, <2>2, <2>6, <2>7, <2>12 DEF CheckRead, At, ConsumerRecords
  <2>13. CASE EffectiveOutput
    BY <2>1, <2>3, <2>6, <2>7, <2>13 DEF EffectiveOutput, At, ConsumerRecords
  <2>14. CASE BeginEmit
    BY <2>1, <2>3, <2>6, <2>7, <2>14 DEF BeginEmit, At, ConsumerRecords
  <2>15. CASE ChunkEnds
    <3>1. CASE watchdog.err = None /\ consumer.end = "more"
      BY <2>1, <2>6, <2>15, <3>1 DEF ChunkEnds, At, ConsumerRecords
    <3>2. CASE ~(watchdog.err = None /\ consumer.end = "more")
      <4>1. PICK err \in Outcomes : consumer' = Fail(consumer, err)
        BY <2>1, <2>2, <2>4, <2>15, <3>2 DEF ChunkEnds
      <4>2. QED
        BY <2>7, <2>15, <4>1 DEF ChunkEnds, At
    <3>3. QED
      BY <3>1, <3>2
  <2>16. CASE Hold
    BY <2>1, <2>4, <2>16 DEF Hold, Delivered, Ending, At, ConsumerRecords, Causes
  <2>17. CASE Start \/ Forward
    BY <2>1, <2>4, <2>17 DEF Start, Forward, Delivered, Ending, At, ConsumerRecords
  <2>18. CASE HostAccepts
    BY <2>1, <2>4, <2>18 DEF HostAccepts, Delivered, Ending, At, ConsumerRecords
  <2>19. CASE HostRefuses
    BY <2>1, <2>4, <2>19 DEF HostRefuses, Delivered, Ending, At, ConsumerRecords, Causes
  <2>20. CASE NoteAccepted
    BY <2>1, <2>4, <2>20 DEF NoteAccepted, Delivered, Ending, At, ConsumerRecords
  <2>21. CASE EndEmit
    <3>1. CASE consumer' = [consumer EXCEPT !.step = "frames"] /\ consumer.err = None
      BY <2>1, <2>4, <2>21, <3>1 DEF EndEmit, Delivered, Ending, At, ConsumerRecords
    <3>2. CASE /\ consumer.err # None
               /\ consumer' = Fail(consumer, consumer.err)
      BY <2>1, <2>4, <2>21, <3>2 DEF EndEmit, Fail, Delivered, Ending, At, ConsumerRecords
    <3>3. CASE /\ consumer.err = None /\ Checked(Resumed).err # None
               /\ consumer' = Fail(consumer, Checked(Resumed).err)
      <4>1. Checked(Resumed).err \in Causes
        BY <2>3, <2>4, <3>3
      <4>2. /\ consumer'.step = "stop" /\ Same /\ consumer'.err = Checked(Resumed).err
            /\ consumer'.doneSeen = consumer.doneSeen
        BY <2>1, <3>3 DEF Fail, ConsumerRecords
      <4>3. QED
        BY <2>1, <2>4, <4>1, <4>2 DEF Delivered, Ending
    <3>4. QED
      BY <2>21, <3>1, <3>2, <3>3 DEF EndEmit, Resumed
  <2>22. CASE StopWatchdog
    BY <2>1, <2>4, <2>22 DEF StopWatchdog, Delivered, Ending, At, ConsumerRecords
  <2>23. CASE Join
    BY <2>1, <2>2, <2>4, <2>23 DEF Join, Delivered, Ending, At, ConsumerRecords
  <2>24. CASE Judge
    <3>1. PICK verdict \in Verdicts :
            consumer' = [consumer EXCEPT !.step = "phase",
              !.err = IF verdict = None /\ ~consumer.started THEN "protocol" ELSE verdict]
      BY <2>24 DEF Judge
    <3>2. At("judge") /\ consumer.queue > 0 => consumer.err \in Causes
      BY DEF Delivered, At
    <3>3. At("judge")
      BY <2>24 DEF Judge
    <3>4. verdict \in Outcomes /\ (consumer.err \in Causes => verdict = consumer.err)
      BY <2>1, <2>4 DEF Verdicts, Causes
    <3>5. verdict = None => consumer.finished
      BY <2>1, <2>4, <3>3 DEF Verdicts, Delivered, At, Causes
    <3>6. QED
      BY <2>1, <2>4, <3>1, <3>2, <3>3, <3>4, <3>5 DEF Delivered, Ending, ConsumerRecords, Causes
  <2>25. CASE ReadPhase \/ EnterClose \/ SendClose \/ Report
    BY <2>1, <2>4, <2>25 DEF ReadPhase, EnterClose, SendClose, Report, Delivered, Ending,
       At, ConsumerRecords
  <2>26. CASE JoinClose
    <3>1. output.cause \in Causes
      BY <2>2, <2>4, <2>26 DEF JoinClose, CutHasCause, At
    <3>2. QED
      BY <2>1, <2>4, <2>26, <3>1 DEF JoinClose, Delivered, Ending, At, ConsumerRecords
  <2>27. CASE Watch
    BY <2>27 DEF Watch, RunLoop, RunWakes, RunReadsPhase, RunEntersClose,
       RunSendsClose, RunClosesUpstream, Delivered
  <2>28. CASE Shutdown \/ CancelParent \/ OtherCloses \/ Tick \/ UNCHANGED vars
    BY <2>28 DEF Shutdown, CancelParent, OtherCloses, Tick, vars, Delivered
  <2>29. QED
    BY <2>8, <2>9, <2>10, <2>11, <2>12, <2>13, <2>14, <2>15, <2>16, <2>17, <2>18,
       <2>19, <2>20, <2>21, <2>22, <2>23, <2>24, <2>25, <2>26, <2>27, <2>28
       DEF Next, Consume
<1>3. QED
  BY <1>1, <1>2, TypesHold, AnswersHold, CutsHaveCauses, PTL DEF Spec

\* A session logged as a success finished and delivered everything it began.
THEOREM SuccessesAreComplete == Spec => []SuccessIsComplete
<1>1. Typed /\ Reported /\ Delivered => SuccessIsComplete
  BY DEF Typed, TypeOK, ConsumerRecords, Reported, Delivered, SuccessIsComplete, Ending, At,
     Causes, None
<1>2. QED
  BY <1>1, TypesHold, ReceiptsHold, DeliveryHolds, PTL

\* Errors and successes are told according to the client's output.
THEOREM ReportsAlwaysMatch == Spec => []ReportsMatchOutput
BY ErrorsFollowNoOutput, SuccessesAreComplete, PTL DEF ReportsMatchOutput

-----------------------------------------------------------------------------
(* The idle cutoff *)

\* The arithmetic of lastOutput measures the silence of the upstream.
LEMMA SilenceHolds == Spec => []Silence
<1>1. Init => Silence
  BY DEF Init, Silence, Emitting
<1>2. Typed /\ Silence /\ [Next]_vars => Silence'
  <2> SUFFICES ASSUME Typed, Silence, [Next]_vars PROVE Silence'
    OBVIOUS
  <2>1. /\ consumer \in ConsumerRecords /\ watchdog \in WatchdogRecords
        /\ now \in Nat /\ quiet \in Nat /\ consumer.emitStart \in Nat
        /\ watchdog.lastOutput \in Nat
    BY DEF Typed, TypeOK, ConsumerRecords, WatchdogRecords
  <2>2. Checked(watchdog) \in WatchdogRecords /\ Checked(Resumed) \in WatchdogRecords
        /\ Resumed \in WatchdogRecords
    BY <2>1, ResumedTypes, WatchdogTypes DEF Typed
  <2>3. /\ Checked(watchdog).lastOutput = watchdog.lastOutput
        /\ Checked(watchdog).downstream = watchdog.downstream
        /\ Checked(Resumed).lastOutput = Resumed.lastOutput
        /\ Checked(Resumed).downstream = Resumed.downstream
    BY <2>1, <2>2, CheckedFields
  <2>4. ASSUME now' = now, quiet' = quiet, Emitting' <=> Emitting,
               consumer'.emitStart = consumer.emitStart,
               watchdog'.lastOutput = watchdog.lastOutput,
               watchdog'.downstream = watchdog.downstream
        PROVE  Silence'
    BY <2>4 DEF Silence
  <2>5. CASE CheckRead \/ ChunkEnds
    BY <2>1, <2>4, <2>5 DEF CheckRead, ChunkEnds, Fail, At, Emitting, ConsumerRecords, world
  <2>6. CASE Hold \/ Forward
    BY <2>1, <2>4, <2>6 DEF Hold, Forward, At, Emitting, ConsumerRecords, world
  <2>7. CASE Start
    BY <2>1, <2>4, <2>7 DEF Start, At, Emitting, ConsumerRecords, world
  <2>8. CASE NoteAccepted
    BY <2>1, <2>4, <2>8 DEF NoteAccepted, At, Emitting, ConsumerRecords, world
  <2>9. CASE HostAccepts \/ HostRefuses
    BY <2>1, <2>4, <2>9 DEF HostAccepts, HostRefuses, At, Emitting, ConsumerRecords, world
  <2>10. CASE ReadReturns
    BY <2>1, <2>4, <2>10 DEF ReadReturns, At, Emitting, ConsumerRecords, world
  <2>11. CASE CompletionFrame \/ DoneFrame \/ ErrorFrame
    BY <2>1, <2>4, <2>11 DEF CompletionFrame, DoneFrame, ErrorFrame, NextFrame, Fail, At,
       Emitting, ConsumerRecords
  <2>12. CASE Join
    BY <2>1, <2>4, <2>12 DEF Join, At, Emitting, ConsumerRecords
  <2>13. CASE Judge
    BY <2>1, <2>4, <2>13 DEF Judge, At, Emitting, ConsumerRecords, world
  <2>14. CASE ReadPhase \/ EnterClose \/ SendClose
    BY <2>1, <2>4, <2>14 DEF ReadPhase, EnterClose, SendClose, At, Emitting,
       ConsumerRecords, world
  <2>15. CASE JoinClose \/ Report
    BY <2>1, <2>4, <2>15 DEF JoinClose, Report, At, Emitting, ConsumerRecords, world
  <2>16. CASE StopWatchdog
    BY <2>1, <2>4, <2>16 DEF StopWatchdog, At, Emitting, ConsumerRecords, WatchdogRecords, world
  <2>17. CASE EffectiveOutput
    <3>1. ~Emitting /\ ~Emitting' /\ now' = now
      BY <2>1, <2>17 DEF EffectiveOutput, Fail, At, Emitting, ConsumerRecords, world
    <3> DEFINE fresh == Checked(watchdog).err = None /\ mode.idle > 0
    <3>2. /\ watchdog'.lastOutput = IF fresh THEN now ELSE watchdog.lastOutput
          /\ watchdog'.downstream = watchdog.downstream
          /\ quiet' = IF fresh THEN 0 ELSE quiet
      BY <2>2, <2>3, <2>17 DEF EffectiveOutput, WatchdogRecords
    <3>3. QED
      BY <2>1, <3>1, <3>2 DEF Silence
  <2>18. CASE BeginEmit
    <3>1. CASE Checked(watchdog).err # None
      <4>1. ~Emitting /\ ~Emitting' /\ now' = now /\ quiet' = quiet
        BY <2>1, <2>18, <3>1 DEF BeginEmit, Fail, At, Emitting, ConsumerRecords, world
      <4>2. watchdog' = Checked(watchdog)
        BY <2>18, <3>1 DEF BeginEmit
      <4>3. QED
        BY <2>3, <4>1, <4>2 DEF Silence
    <3>2. CASE Checked(watchdog).err = None
      <4>1. ~Emitting /\ Emitting' /\ quiet' = quiet /\ consumer'.emitStart = now
        BY <2>1, <2>18, <3>2 DEF BeginEmit, At, Emitting, ConsumerRecords, world
      <4>2. watchdog'.lastOutput = watchdog.lastOutput /\ watchdog'.downstream
        BY <2>2, <2>3, <2>18, <3>2 DEF BeginEmit, WatchdogRecords
      <4>3. QED
        BY <4>1, <4>2 DEF Silence
    <3>3. QED
      BY <3>1, <3>2
  <2>19. CASE EndEmit
    <3>1. Emitting /\ ~Emitting' /\ now' = now /\ quiet' = quiet
      BY <2>1, <2>19 DEF EndEmit, Fail, At, Emitting, ConsumerRecords, world
    <3>2. /\ watchdog'.lastOutput = IF watchdog.lastOutput > 0
                                    THEN watchdog.lastOutput + (now - consumer.emitStart)
                                    ELSE watchdog.lastOutput
          /\ ~watchdog'.downstream
      <4>1. watchdog' = [Checked(Resumed) EXCEPT !.woken = TRUE]
        BY <2>19 DEF EndEmit, Resumed
      <4>2. watchdog'.lastOutput = Resumed.lastOutput /\ watchdog'.downstream = Resumed.downstream
        BY <2>2, <2>3, <4>1 DEF WatchdogRecords
      <4>3. QED
        BY <2>1, <4>2 DEF Resumed, WatchdogRecords
    <3>3. QED
      BY <2>1, <3>1, <3>2 DEF Silence
  <2>20. CASE RunLoop
    BY <2>1, <2>2, <2>3, <2>4, <2>20 DEF RunLoop, Emitting, WatchdogRecords, world
  <2>21. CASE RunWakes \/ RunReadsPhase \/ RunEntersClose
    BY <2>1, <2>4, <2>21 DEF RunWakes, RunReadsPhase, RunEntersClose, Emitting,
       WatchdogRecords, world
  <2>22. CASE RunSendsClose \/ RunClosesUpstream
    BY <2>1, <2>4, <2>22 DEF RunSendsClose, RunClosesUpstream, Emitting, WatchdogRecords, world
  <2>23. CASE Tick
    BY <2>1, <2>23 DEF Tick, Silence, Emitting
  <2>24. CASE Shutdown \/ CancelParent \/ OtherCloses \/ UNCHANGED vars
    BY <2>4, <2>24 DEF Shutdown, CancelParent, OtherCloses, vars, Emitting
  <2>25. QED
    BY <2>5, <2>6, <2>7, <2>8, <2>9, <2>10, <2>11, <2>12, <2>13, <2>14, <2>15,
       <2>16, <2>17, <2>18, <2>19, <2>20, <2>21, <2>22, <2>23, <2>24
       DEF Next, Consume, Watch
<1>3. QED
  BY <1>1, <1>2, TypesHold, PTL DEF Spec

\* No idle cutoff before a full budget of silence, whatever the client does.
THEOREM IdleCutsAreJustified == Spec => IdleCutIsJustified
<1>1. Typed /\ Silence /\ [Next]_vars =>
        (watchdog.err = None /\ watchdog'.err = "idle" => quiet >= mode.idle)
  <2> SUFFICES ASSUME Typed, Silence, [Next]_vars, watchdog.err = None, watchdog'.err = "idle"
               PROVE  quiet >= mode.idle
    OBVIOUS
  <2>1. /\ consumer \in ConsumerRecords /\ watchdog \in WatchdogRecords
        /\ now \in Nat /\ quiet \in Nat /\ consumer.emitStart \in Nat
        /\ watchdog.lastOutput \in Nat /\ mode.idle \in Nat
        /\ Resumed \in WatchdogRecords /\ consumer.emitStart <= now
    BY ResumedTypes, StreamSessionAssumption
       DEF Typed, TypeOK, Bounds, ConsumerRecords, WatchdogRecords
  <2>2. /\ Checked(watchdog) \in WatchdogRecords /\ Checked(Resumed) \in WatchdogRecords
        /\ Checked(watchdog).err = Expired(watchdog)
        /\ Resumed.err = None /\ Checked(Resumed).err = Expired(Resumed)
    <3>1. Resumed.err = None
      BY <2>1 DEF Resumed, WatchdogRecords
    <3>2. QED
      BY <2>1, <3>1, WatchdogTypes, CheckedFields DEF Typed
  <2>3. ASSUME NEW w, Expired(w) = "idle" PROVE Idling(w) /\ now >= IdleAt(w)
    <3>1. shutdown \in BOOLEAN /\ ParentError \in BOOLEAN
      BY DEF Typed, TypeOK, ParentError
    <3>2. QED
      BY <2>3, <3>1 DEF Expired, None
  <2>4. "idle" # None
    BY DEF None
  <2>5. ASSUME Expired(watchdog) = "idle" PROVE quiet >= mode.idle
    <3>1. Idling(watchdog) /\ now >= IdleAt(watchdog)
      BY <2>3, <2>5
    <3>2. QED
      BY <2>1, <3>1 DEF Idling, IdleAt, Silence
  <2>6. CASE EffectiveOutput \/ BeginEmit \/ RunLoop
    <3>1. CASE EffectiveOutput
      BY <2>2, <2>5, <3>1 DEF EffectiveOutput, WatchdogRecords
    <3>2. CASE BeginEmit
      BY <2>2, <2>5, <3>2 DEF BeginEmit, WatchdogRecords
    <3>3. CASE RunLoop
      BY <2>1, <2>2, <2>4, <2>5, <3>3 DEF RunLoop, WatchdogRecords
    <3>4. QED
      BY <2>6, <3>1, <3>2, <3>3
  <2>7. CASE EndEmit
    <3>1. Expired(Resumed) = "idle"
      BY <2>2, <2>7 DEF EndEmit, Resumed, WatchdogRecords
    <3>2. Idling(Resumed) /\ now >= IdleAt(Resumed)
      BY <2>3, <3>1
    <3>3. Resumed.lastOutput = IF watchdog.lastOutput > 0
                               THEN watchdog.lastOutput + (now - consumer.emitStart)
                               ELSE watchdog.lastOutput
      BY <2>1 DEF Resumed, WatchdogRecords
    <3>4. Emitting
      BY <2>7 DEF EndEmit, At, Emitting
    <3>5. QED
      BY <2>1, <3>2, <3>3, <3>4 DEF Idling, IdleAt, Silence
  <2>8. CASE StopWatchdog \/ RunWakes \/ RunReadsPhase \/ RunEntersClose
             \/ RunSendsClose \/ RunClosesUpstream
    BY <2>1, <2>4, <2>8 DEF StopWatchdog, RunWakes, RunReadsPhase, RunEntersClose,
       RunSendsClose, RunClosesUpstream, WatchdogRecords
  <2>9. CASE watchdog' = watchdog
    BY <2>4, <2>9
  <2>10. QED
    BY <2>6, <2>7, <2>8, <2>9
       DEF Next, Consume, Watch, CheckRead, ChunkEnds, Hold, Start, Forward,
           NoteAccepted, Join, Judge, ReadPhase, EnterClose, SendClose, JoinClose,
           Report, ReadReturns, CompletionFrame, DoneFrame, ErrorFrame,
           HostAccepts, HostRefuses, Shutdown, CancelParent, OtherCloses, Tick, vars
<1>2. QED
  BY <1>1, TypesHold, SilenceHolds, PTL DEF Spec, IdleCutIsJustified
=============================================================================
