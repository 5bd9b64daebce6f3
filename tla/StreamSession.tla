---------------------------- MODULE StreamSession ----------------------------
(***************************************************************************)
(* One streamed request of executor.go from the opened upstream stream to    *)
(* its end: the consumer goroutine of executeStream (readWatched, consumeSSE,*)
(* emit and the deferred finish), the read watchdog of stream_idle.go, which *)
(* may cut either side at any moment, the outputStreamLifecycle both of them *)
(* close the downstream through, and the host behind it.                     *)
(*                                                                          *)
(* A section under streamReadWatchdog.mu, an atomic load or store and a host *)
(* callback are one action each.  The host blocks an emit for as long as its *)
(* client does not read, and refuses it once the output stream is closed.    *)
(***************************************************************************)
EXTENDS Naturals, Sequences

CONSTANTS
  Deadline,     \* when the request must be over; the clock starts at 1
  IdleTimeouts, \* the idle budgets of a configuration, 0 for no cutoff
  PreludeLimit, \* the 64 KiB a stream may send before its completion starts
  MaxFrames,    \* bound: SSE frames of the upstream
  MaxTime       \* bound of the clock

ASSUME StreamSessionAssumption ==
  /\ Deadline \in Nat \ {0} /\ IdleTimeouts \subseteq Nat /\ IdleTimeouts # {}
  /\ PreludeLimit \in Nat /\ MaxFrames \in Nat /\ MaxTime \in Nat

VARIABLES
  now,
  mode,       \* fixed: is the stream one of the egress pool, and its idle budget
  shutdown,   \* Service.stopCh is closed
  parentDone, \* the context of the egress operation is cancelled
  upstream,   \* is the upstream stream open?
  frames,     \* frames read so far
  consumer,   \* the goroutine of executeStream
  watchdog,   \* streamReadWatchdog: what its mutex guards, and its goroutine
  output,     \* outputStreamLifecycle
  rpc,        \* what executor.execute_stream returned to the host
  host,       \* the host's end of the output stream
  receipts,   \* what the rate lease and the request log were told
  quiet       \* history: silence of the upstream since its last output

vars == <<now, mode, shutdown, parentDone, upstream, frames, consumer, watchdog,
          output, rpc, host, receipts, quiet>>
world == <<now, mode, shutdown, parentDone, upstream, frames>>

None == "none"

\* What can end a session, besides its regular completion.
Causes == {"deadline", "idle", "shutdown", "parent", "client", "upstream",
           "protocol", "limit"}
Outcomes == Causes \cup {None}

ConsumerSteps ==
  {"read", "got", "frames", "content", "emit", "forward", "sending", "accepted",
   "emitted", "stop", "join", "judge", "phase", "close", "closing", "receipt",
   "done"}
WatchdogSteps == {"loop", "armed", "phase", "close", "closing", "upstream", "done"}

\* end is what comes after the frames of the chunk; err is the error in hand.
ConsumerRecords ==
  [step : ConsumerSteps, end : {"more", "eof"} \cup Causes, err : Outcomes \cup {"stop"},
   kind : {"role", "content", "finish"}, queue : Nat, pending : Nat,
   started : BOOLEAN, finished : BOOLEAN, hasOutput : BOOLEAN, doneSeen : BOOLEAN,
   emitStart : Nat, phase : BOOLEAN]

\* lastOutput 0 is the zero time.
WatchdogRecords ==
  [step : WatchdogSteps, err : Outcomes, lastOutput : Nat, downstream : BOOLEAN,
   stopped : BOOLEAN, woken : BOOLEAN, timer : Nat, phase : BOOLEAN]

TypeOK ==
  /\ now \in Nat /\ mode \in [local : BOOLEAN, idle : IdleTimeouts]
  /\ shutdown \in BOOLEAN /\ parentDone \in BOOLEAN
  /\ upstream \in {"open", "closed"} /\ frames \in Nat
  /\ consumer \in ConsumerRecords
  /\ watchdog \in WatchdogRecords
  /\ output \in [once : {"free", "taken", "over"}, started : BOOLEAN, cause : Outcomes]
  /\ rpc \in {"waiting", "streaming"} \cup Outcomes
  /\ host \in [accepted : Nat, closes : Nat, cause : Outcomes, phase : BOOLEAN]
  /\ receipts \in [lease : Seq(Outcomes), log : Outcomes \cup {"unwritten"},
                   phase : BOOLEAN]
  /\ quiet \in Nat

Init ==
  /\ now = 1 /\ shutdown = FALSE /\ parentDone = FALSE
  /\ mode \in [local : BOOLEAN, idle : IdleTimeouts]
  /\ upstream = "open" /\ frames = 0
  /\ consumer = [step |-> "read", end |-> "more", err |-> None, kind |-> "role",
                 queue |-> 0, pending |-> 0, started |-> FALSE,
                 finished |-> FALSE, hasOutput |-> FALSE, doneSeen |-> FALSE,
                 emitStart |-> 0, phase |-> FALSE]
  /\ watchdog = [step |-> "loop", err |-> None, lastOutput |-> 0,
                 downstream |-> FALSE, stopped |-> FALSE, woken |-> FALSE,
                 timer |-> 0, phase |-> FALSE]
  /\ output = [once |-> "free", started |-> FALSE, cause |-> None]
  /\ rpc = "waiting"
  /\ host = [accepted |-> 0, closes |-> 0, cause |-> None, phase |-> FALSE]
  /\ receipts = [lease |-> <<>>, log |-> "unwritten", phase |-> FALSE]
  /\ quiet = 0

At(step) == consumer.step = step
Emitting == consumer.step \in {"forward", "sending", "accepted", "emitted"}

-----------------------------------------------------------------------------
(* What streamReadWatchdog.mu guards *)

\* The context of a pooled stream is cancelled by its operation or its close.
ParentError == mode.local /\ (parentDone \/ upstream = "closed")

IdleAt(w) == w.lastOutput + mode.idle

Idling(w) == ~w.downstream /\ mode.idle > 0 /\ w.lastOutput > 0

\* expired, in the order of its checks
Expired(w) ==
  CASE shutdown -> "shutdown"
    [] ~shutdown /\ ParentError -> "parent"
    [] ~shutdown /\ ~ParentError /\ now >= Deadline -> "deadline"
    [] OTHER -> IF Idling(w) /\ now >= IdleAt(w) THEN "idle" ELSE None

Checked(w) == IF w.err = None THEN [w EXCEPT !.err = Expired(w)] ELSE w

NextTimer(w) ==
  IF Idling(w) /\ IdleAt(w) < Deadline THEN IdleAt(w) ELSE Deadline

-----------------------------------------------------------------------------
(* readWatched and consumeSSE *)

\* A read ends with data, at the end of the stream, or with an error; a closed
\* stream only has the error.
ReadReturns ==
  /\ At("read")
  /\ \E end \in {"more", "eof", "parent", "upstream"} :
       /\ end \in {"more", "eof"} => upstream = "open"
       /\ end = "parent" <=> end \notin {"more", "eof"} /\ ParentError
       /\ consumer' = [consumer EXCEPT !.step = "got", !.end = end]
  /\ UNCHANGED <<world, watchdog, output, rpc, host, receipts, quiet>>

\* The callback failed, or the watchdog did: readWatched returns.
Fail(c, err) == [c EXCEPT !.step = "stop", !.err = err]

CheckRead ==
  /\ At("got")
  /\ consumer' = IF watchdog.err # None THEN Fail(consumer, watchdog.err)
                 ELSE [consumer EXCEPT !.step = "frames"]
  /\ UNCHANGED <<world, watchdog, output, rpc, host, receipts, quiet>>

NextFrame == At("frames") /\ frames < MaxFrames /\ frames' = frames + 1

\* "role" stands for any frame without content or finish_reason.
CompletionFrame ==
  /\ NextFrame
  /\ \E kind \in {"role", "content", "finish"} :
       consumer' = [consumer EXCEPT
         !.kind = kind,
         !.finished = @ \/ kind = "finish",
         !.hasOutput = @ \/ kind = "content",
         !.step = IF kind = "content" THEN "content" ELSE "emit"]
  /\ UNCHANGED <<now, mode, shutdown, parentDone, upstream, watchdog, output,
                 rpc, host, receipts, quiet>>

\* (A faulty variant, for ReportsMatchOutput: [DONE] is taken at its word.)
DoneFrameTrusted ==
  /\ NextFrame
  /\ consumer' = [Fail(consumer, "stop") EXCEPT !.doneSeen = TRUE]
  /\ UNCHANGED <<now, mode, shutdown, parentDone, upstream, watchdog, output,
                 rpc, host, receipts, quiet>>

\* [DONE] ends the session well only when every choice has finished.
DoneFrame ==
  /\ NextFrame
  /\ consumer' = [Fail(consumer, IF consumer.finished THEN "stop" ELSE "protocol")
                    EXCEPT !.doneSeen = TRUE]
  /\ UNCHANGED <<now, mode, shutdown, parentDone, upstream, watchdog, output,
                 rpc, host, receipts, quiet>>

\* An error object in the stream, or a frame that is not JSON.
ErrorFrame ==
  /\ NextFrame
  /\ consumer' = Fail(consumer, "upstream")
  /\ UNCHANGED <<now, mode, shutdown, parentDone, upstream, watchdog, output,
                 rpc, host, receipts, quiet>>

\* effectiveOutput: content moves the idle deadline, unless it is too late.
EffectiveOutput ==
  LET w == Checked(watchdog)
      fresh == w.err = None /\ mode.idle > 0
  IN
  /\ At("content")
  /\ watchdog' = [w EXCEPT !.lastOutput = IF fresh THEN now ELSE @, !.woken = TRUE]
  /\ consumer' = IF w.err # None THEN Fail(consumer, w.err)
                 ELSE [consumer EXCEPT !.step = "emit"]
  /\ quiet' = IF fresh THEN 0 ELSE quiet
  /\ UNCHANGED <<world, output, rpc, host, receipts>>

ChunkEnds ==
  /\ At("frames")
  /\ consumer' =
       CASE watchdog.err # None -> Fail(consumer, watchdog.err)
         [] watchdog.err = None /\ consumer.end = "more" ->
              [consumer EXCEPT !.step = "read"]
         [] watchdog.err = None /\ consumer.end = "eof" -> Fail(consumer, None)
         [] OTHER -> Fail(consumer, consumer.end)
  /\ UNCHANGED <<world, watchdog, output, rpc, host, receipts, quiet>>

-----------------------------------------------------------------------------
(* streamReadWatchdog.emit around the emit of executeStream *)

BeginEmit ==
  LET w == Checked(watchdog) IN
  /\ At("emit")
  /\ IF w.err # None
     THEN watchdog' = w /\ consumer' = Fail(consumer, w.err)
     ELSE /\ watchdog' = [w EXCEPT !.downstream = TRUE, !.woken = TRUE]
          /\ consumer' = [consumer EXCEPT !.step = "forward", !.emitStart = now]
  /\ UNCHANGED <<world, output, rpc, host, receipts, quiet>>

StartsCompletion == consumer.kind \in {"content", "finish"}

\* Frames before the first completion frame wait, up to a limit.
Hold ==
  /\ At("forward") /\ ~consumer.started /\ ~StartsCompletion
  /\ consumer' = IF consumer.pending + 1 > PreludeLimit
                 THEN [consumer EXCEPT !.step = "emitted", !.err = "limit"]
                 ELSE [consumer EXCEPT !.step = "emitted", !.pending = @ + 1]
  /\ UNCHANGED <<world, watchdog, output, rpc, host, receipts, quiet>>

\* The first completion frame: the rate lease is given back, the RPC returns,
\* and what was held goes first.
Start ==
  /\ At("forward") /\ ~consumer.started /\ StartsCompletion
  /\ consumer' = [consumer EXCEPT !.step = "sending", !.started = TRUE,
                                  !.queue = consumer.pending + 1, !.pending = 0]
  /\ receipts' = [receipts EXCEPT !.lease = Append(@, None)]
  /\ rpc' = "streaming"
  /\ UNCHANGED <<world, watchdog, output, host, quiet>>

Forward ==
  /\ At("forward") /\ consumer.started
  /\ consumer' = [consumer EXCEPT !.step = "sending", !.queue = 1]
  /\ UNCHANGED <<world, watchdog, output, rpc, host, receipts, quiet>>

HostAccepts ==
  /\ At("sending") /\ host.closes = 0
  /\ host' = [host EXCEPT !.accepted = @ + 1]
  /\ consumer' = [consumer EXCEPT !.step = "accepted"]
  /\ UNCHANGED <<world, watchdog, output, rpc, receipts, quiet>>

\* The output stream is closed, or its client has gone.
HostRefuses ==
  /\ At("sending")
  /\ consumer' = [consumer EXCEPT !.step = "emitted", !.err = "client"]
  /\ UNCHANGED <<world, watchdog, output, rpc, host, receipts, quiet>>

\* DownstreamStarted and outputStreamLifecycle.started
NoteAccepted ==
  /\ At("accepted")
  /\ output' = [output EXCEPT !.started = TRUE]
  /\ consumer' = [consumer EXCEPT !.queue = @ - 1,
                    !.step = IF consumer.queue = 1 THEN "emitted" ELSE "sending"]
  /\ UNCHANGED <<world, watchdog, rpc, host, receipts, quiet>>

\* (A faulty variant, for IdleCutIsJustified: backpressure counts as silence.)
EndEmitCounting ==
  LET w == Checked([watchdog EXCEPT !.downstream = FALSE]) IN
  /\ At("emitted")
  /\ watchdog' = [w EXCEPT !.woken = TRUE]
  /\ consumer' = LET err == IF consumer.err = None THEN w.err ELSE consumer.err IN
       IF err # None THEN Fail(consumer, err) ELSE [consumer EXCEPT !.step = "frames"]
  /\ UNCHANGED <<world, output, rpc, host, receipts, quiet>>

\* The time of the emit is added to lastOutput before the budget runs again.
EndEmit ==
  LET elapsed == now - consumer.emitStart
      w == Checked([watchdog EXCEPT
             !.lastOutput = IF @ > 0 THEN @ + elapsed ELSE @, !.downstream = FALSE])
      err == IF consumer.err = None THEN w.err ELSE consumer.err
  IN
  /\ At("emitted")
  /\ watchdog' = [w EXCEPT !.woken = TRUE]
  /\ consumer' = IF err # None THEN Fail(consumer, err)
                 ELSE [consumer EXCEPT !.step = "frames"]
  /\ UNCHANGED <<world, output, rpc, host, receipts, quiet>>

-----------------------------------------------------------------------------
(* The deferred ends of readWatched and of the goroutine *)

StopWatchdog ==
  /\ At("stop")
  /\ watchdog' = [watchdog EXCEPT !.stopped = TRUE]
  /\ consumer' = [consumer EXCEPT !.step = "join"]
  /\ UNCHANGED <<world, output, rpc, host, receipts, quiet>>

\* (A faulty variant, for QuietAfterEnd: the watchdog is not waited for.)
JoinUnwaited ==
  /\ At("join")
  /\ consumer' = [consumer EXCEPT !.step = "judge",
                    !.err = IF @ = None THEN watchdog.err ELSE @]
  /\ upstream' = "closed"
  /\ UNCHANGED <<now, mode, shutdown, parentDone, frames, watchdog, output, rpc,
                 host, receipts, quiet>>

Join ==
  /\ At("join") /\ watchdog.step = "done"
  /\ consumer' = [consumer EXCEPT !.step = "judge",
                    !.err = IF @ = None THEN watchdog.err ELSE @]
  /\ upstream' = "closed"
  /\ UNCHANGED <<now, mode, shutdown, parentDone, frames, watchdog, output, rpc,
                 host, receipts, quiet>>

\* consumeSSE's verdict: without [DONE] the end of the stream must be that of a
\* complete answer (completeAtEOF, which also looks into tool arguments); and
\* an answer without any completion frame is none.
Verdicts ==
  CASE consumer.err = "stop" -> {None}
    [] consumer.err = None /\ ~consumer.doneSeen ->
         {"upstream"} \cup (IF consumer.finished /\ consumer.hasOutput THEN {None} ELSE {})
    [] OTHER -> {consumer.err}

Judge ==
  /\ At("judge")
  /\ \E verdict \in Verdicts :
       consumer' = [consumer EXCEPT !.step = "phase",
         !.err = IF verdict = None /\ ~consumer.started THEN "protocol" ELSE verdict]
  /\ UNCHANGED <<world, watchdog, output, rpc, host, receipts, quiet>>

\* outputStreamLifecycle.phase, read before the once is entered
ReadPhase ==
  /\ At("phase")
  /\ consumer' = [consumer EXCEPT !.step = "close", !.phase = output.started]
  /\ UNCHANGED <<world, watchdog, output, rpc, host, receipts, quiet>>

\* outputStreamLifecycle.close: the first caller's error is the cause, for both.
EnterClose ==
  /\ At("close") /\ output.once = "free"
  /\ output' = [output EXCEPT !.once = "taken", !.cause = consumer.err]
  /\ consumer' = [consumer EXCEPT !.step = "closing"]
  /\ UNCHANGED <<world, watchdog, rpc, host, receipts, quiet>>

HostClosed(phase) ==
  host' = [host EXCEPT !.closes = @ + 1, !.cause = output.cause, !.phase = phase]

SendClose ==
  /\ At("closing")
  /\ HostClosed(consumer.phase)
  /\ output' = [output EXCEPT !.once = "over"]
  /\ consumer' = [consumer EXCEPT !.step = "receipt"]
  /\ UNCHANGED <<world, watchdog, rpc, receipts, quiet>>

\* (A faulty variant, for OutcomesAgree: the consumer keeps its own error.)
JoinCloseKeeping ==
  /\ At("close") /\ output.once = "over"
  /\ consumer' = [consumer EXCEPT !.step = "receipt"]
  /\ UNCHANGED <<world, watchdog, output, rpc, host, receipts, quiet>>

JoinClose ==
  /\ At("close") /\ output.once = "over"
  /\ consumer' = [consumer EXCEPT !.step = "receipt", !.err = output.cause]
  /\ UNCHANGED <<world, watchdog, output, rpc, host, receipts, quiet>>

\* finishRequestRateLease, appendLog, the RPC if it still waits, active.Done
Report ==
  /\ At("receipt")
  /\ receipts' = [lease |-> Append(receipts.lease, consumer.err),
                  log |-> consumer.err, phase |-> output.started]
  /\ rpc' = IF consumer.started THEN rpc ELSE consumer.err
  /\ consumer' = [consumer EXCEPT !.step = "done"]
  /\ UNCHANGED <<world, watchdog, output, host, quiet>>

-----------------------------------------------------------------------------
(* streamReadWatchdog.run *)

Run(step) == watchdog.step = step

RunLoop ==
  LET w == Checked(watchdog) IN
  /\ Run("loop")
  /\ watchdog' =
       IF watchdog.stopped THEN [watchdog EXCEPT !.step = "done"]
       ELSE IF w.err # None THEN [w EXCEPT !.step = "phase"]
       ELSE [w EXCEPT !.step = "armed", !.timer = NextTimer(w)]
  /\ UNCHANGED <<world, consumer, output, rpc, host, receipts, quiet>>

RunWakes ==
  /\ Run("armed")
  /\ \/ /\ now >= watchdog.timer \/ shutdown
        /\ watchdog' = [watchdog EXCEPT !.step = "loop"]
     \/ /\ watchdog.woken
        /\ watchdog' = [watchdog EXCEPT !.step = "loop", !.woken = FALSE]
     \/ /\ watchdog.stopped
        /\ watchdog' = [watchdog EXCEPT !.step = "done"]
  /\ UNCHANGED <<world, consumer, output, rpc, host, receipts, quiet>>

\* (A faulty variant, for SessionEnds: the upstream is closed, the output not.)
RunReadsPhaseOnly ==
  /\ Run("phase")
  /\ watchdog' = [watchdog EXCEPT !.step = "upstream", !.phase = output.started]
  /\ UNCHANGED <<world, consumer, output, rpc, host, receipts, quiet>>

RunReadsPhase ==
  /\ Run("phase")
  /\ watchdog' = [watchdog EXCEPT !.step = "close", !.phase = output.started]
  /\ UNCHANGED <<world, consumer, output, rpc, host, receipts, quiet>>

RunEntersClose ==
  /\ Run("close") /\ output.once = "free"
  /\ output' = [output EXCEPT !.once = "taken", !.cause = watchdog.err]
  /\ watchdog' = [watchdog EXCEPT !.step = "closing"]
  /\ UNCHANGED <<world, consumer, rpc, host, receipts, quiet>>

RunSendsClose ==
  /\ Run("closing")
  /\ HostClosed(watchdog.phase)
  /\ output' = [output EXCEPT !.once = "over"]
  /\ watchdog' = [watchdog EXCEPT !.step = "upstream"]
  /\ UNCHANGED <<world, consumer, rpc, receipts, quiet>>

\* The downstream first: the upstream's cleanup may block.
RunClosesUpstream ==
  /\ Run("upstream")
  /\ upstream' = "closed"
  /\ watchdog' = [watchdog EXCEPT !.step = "done"]
  /\ UNCHANGED <<now, mode, shutdown, parentDone, frames, consumer, output, rpc,
                 host, receipts, quiet>>

-----------------------------------------------------------------------------
(* Around the session *)

Shutdown ==
  /\ ~shutdown /\ shutdown' = TRUE
  /\ UNCHANGED <<now, mode, parentDone, upstream, frames, consumer, watchdog,
                 output, rpc, host, receipts, quiet>>

CancelParent ==
  /\ mode.local /\ ~parentDone /\ parentDone' = TRUE
  /\ UNCHANGED <<now, mode, shutdown, upstream, frames, consumer, watchdog,
                 output, rpc, host, receipts, quiet>>

\* The shutdown, or the goroutine that waits for the context, closes it too.
OtherCloses ==
  /\ shutdown \/ parentDone
  /\ upstream = "open" /\ upstream' = "closed"
  /\ UNCHANGED <<now, mode, shutdown, parentDone, frames, consumer, watchdog,
                 output, rpc, host, receipts, quiet>>

Tick ==
  /\ now < MaxTime /\ now' = now + 1
  /\ quiet' = IF watchdog.lastOutput > 0 /\ ~Emitting THEN quiet + 1 ELSE quiet
  /\ UNCHANGED <<mode, shutdown, parentDone, upstream, frames, consumer,
                 watchdog, output, rpc, host, receipts>>

\* What the consumer does by itself, without waiting for anybody.
Consume ==
  \/ CheckRead \/ ChunkEnds \/ EffectiveOutput
  \/ BeginEmit \/ Hold \/ Start \/ Forward \/ NoteAccepted \/ EndEmit
  \/ StopWatchdog \/ Join \/ Judge
  \/ ReadPhase \/ EnterClose \/ SendClose \/ JoinClose \/ Report

Watch ==
  \/ RunLoop \/ RunWakes
  \/ RunReadsPhase \/ RunEntersClose \/ RunSendsClose
  \/ RunClosesUpstream

Next ==
  \/ Consume \/ Watch
  \/ ReadReturns \/ CompletionFrame \/ DoneFrame \/ ErrorFrame
  \/ HostAccepts \/ HostRefuses
  \/ Shutdown \/ CancelParent \/ OtherCloses
  \/ Tick

Spec == Init /\ [][Next]_vars

\* The two goroutines run, and time passes.  The upstream and the client owe
\* nothing, but a closed stream ends a read, and a closed output an emit.
FairSpec ==
  /\ Spec
  /\ WF_vars(Consume) /\ WF_vars(Watch) /\ WF_vars(Tick)
  /\ WF_vars(upstream = "closed" /\ ReadReturns)
  /\ WF_vars(host.closes > 0 /\ HostRefuses)

-----------------------------------------------------------------------------
(* Properties *)

\* Whoever ends a session, and however consumer and watchdog race for it, the
\* host, the request log, the rate lease and a waiting RPC are told one and the
\* same outcome, the host exactly once.
OutcomesAgree ==
  At("done") =>
    /\ host.closes = 1
    /\ receipts.log = host.cause
    /\ receipts.lease[Len(receipts.lease)] = host.cause
    /\ rpc = IF consumer.started THEN "streaming" ELSE host.cause

\* executor.execute_stream returns an error only if no frame ever reached the
\* host's output stream, so that a retry of the host repeats no output.
ErrorReturnMeansNoOutput ==
  rpc \in Causes => host.accepted = 0 /\ consumer.step = "done"

\* A session counts as a success only if every choice finished and every frame
\* that was held or forwarded was accepted by the host.
SuccessIsComplete ==
  At("done") /\ receipts.log = None =>
    /\ consumer.finished /\ consumer.started
    /\ consumer.pending = 0 /\ consumer.queue = 0

\* What host and log are told of a session is what its client has seen of it: an
\* error that invites a retry means nothing, a success means everything.
ReportsMatchOutput == ErrorReturnMeansNoOutput /\ SuccessIsComplete

\* Once the session is over neither goroutine closes a stream any more, so its
\* identifiers may be used again.
QuietAfterEnd ==
  consumer.step \in {"judge", "phase", "close", "closing", "receipt", "done"}
    => Run("done") /\ upstream = "closed"

\* A stream is cut as idle only after a full budget of upstream silence, not
\* counting the time its client needed to take the frames.
IdleCutIsJustified ==
  [][watchdog.err = None /\ watchdog'.err = "idle" => quiet >= mode.idle]_vars

\* Every session ends, with a client that never reads and an upstream that never
\* sends as well.
SessionEnds == <>At("done")

\* stream_output_lifecycle_test.go: the phase told to the host is the one that
\* the request log has.
PhaseMatchesLog == At("done") /\ host.cause # None => host.phase = receipts.phase

=============================================================================
