----------------------------- MODULE UpstreamOpen -----------------------------
(***************************************************************************)
(* How a request of executor.go gets its upstream stream and loses it again: *)
(* openUpstream and its goroutine inside host.http.do_stream, the local way  *)
(* of openEgress, requestWithRoutingFallback with its single retry without   *)
(* providerOptions, the second turn of execute under native-fallback, and    *)
(* plugin.shutdown under all of them.                                        *)
(*                                                                          *)
(* Each section under Service.mu or egressManager.mu, each channel operation *)
(* and each host call is one action.  A closeUpstream is one action: who     *)
(* finds a closed stream in Service.streams only closes it once more.  The   *)
(* admission by the pool is in EgressPool, the reading of a stream with its  *)
(* watchdog in StreamSession; here they only end.                            *)
(***************************************************************************)
EXTENDS Naturals

CONSTANTS
  Requests,
  MaxEdits  \* bound: how often the operator turns the pool on or off

\* execute takes two turns, and one of them may be a rejection and its retry.
Loops == {1, 2}
MaxOpens == 3
Attempts == Requests \X (1..MaxOpens)
Logicals == Requests \X Loops

ASSUME UpstreamOpenAssumption == MaxEdits \in Nat /\ Requests \cap Attempts = {}

VARIABLES
  call,       \* the goroutine of a request
  attempt,    \* one openUpstream: its goroutine, its context and its stream
  logical,    \* the egressOperation of a turn, parent of its attempts
  registered, \* Service.streams
  published,  \* egressManager.streams
  active,     \* who holds the WaitGroup Service.active
  stopped,    \* Service.stopped, stopCh is closed
  poolClosed, \* egressManager.closed
  shutdown,   \* plugin.shutdown: its step and the streams it has yet to close
  expired,    \* the requests whose deadline has passed
  pooled, edits \* is the pool enabled?

vars == <<call, attempt, logical, registered, published, active, stopped,
          poolClosed, shutdown, expired, pooled, edits>>
maps == <<registered, published>>
service == <<stopped, poolClosed, shutdown>>
world == <<expired, pooled, edits>>

Steps == {"new", "request", "open", "transport", "waiting", "register",
          "operation", "sending", "offer", "publish", "opened", "rejection",
          "exact", "session", "closing", "failed", "again", "over", "ended"}

\* then is where a call goes on once it has closed its stream.
CallRecords ==
  [step : Steps, then : {"failed", "exact", "again", "over"}, opens : 0..MaxOpens,
   loop : Loops, options : BOOLEAN, fallback : BOOLEAN]

\* failedOpen is an error that names a stream, nameless a success without one.
Answers == {"none", "failed", "failedOpen", "nameless", "ok", "forbidden"}

\* step is that of the goroutine behind the attempt: the one that calls the host
\* or the one that waits for the end of a local context.
AttemptRecords ==
  [step : {"unborn", "calling", "answered", "watching", "closing", "done"},
   local : BOOLEAN, child : BOOLEAN, loop : Loops, answer : Answers,
   op : {"none", "live", "cancelled", "finished"},
   stream : {"none", "open", "closed"}]

\* keeper is the number of the attempt whose context finishes the operation.
LogicalRecords ==
  [state : {"none", "live", "cancelled", "finished"}, keeper : 0..MaxOpens]

\* A request never opens more than MaxOpens streams.
TypeOK ==
  /\ call \in [Requests -> CallRecords]
  /\ attempt \in [Attempts -> AttemptRecords]
  /\ logical \in [Logicals -> LogicalRecords]
  /\ registered \subseteq Attempts /\ published \subseteq Attempts
  /\ active \subseteq Requests \cup Attempts
  /\ stopped \in BOOLEAN /\ poolClosed \in BOOLEAN
  /\ shutdown \in [step : {"running", "pool", "streams", "done"},
                   toClose : SUBSET Attempts]
  /\ expired \subseteq Requests /\ pooled \in BOOLEAN /\ edits \in 0..MaxEdits

\* The policy may add providerOptions to a request, or not.
Init ==
  /\ call \in [Requests -> {[step |-> "new", then |-> "over", opens |-> 0,
                             loop |-> 1, options |-> o, fallback |-> FALSE] :
                            o \in BOOLEAN}]
  /\ attempt = [a \in Attempts |->
       [step |-> "unborn", local |-> FALSE, child |-> FALSE, loop |-> 1,
        answer |-> "none", op |-> "none", stream |-> "none"]]
  /\ logical = [l \in Logicals |-> [state |-> "none", keeper |-> 0]]
  /\ registered = {} /\ published = {} /\ active = {}
  /\ stopped = FALSE /\ poolClosed = FALSE
  /\ shutdown = [step |-> "running", toClose |-> {}]
  /\ expired = {} /\ pooled \in BOOLEAN /\ edits = 0

At(r, step) == call[r].step = step
Go(r, step) == call' = [call EXCEPT ![r].step = step]
Mine(r) == <<r, call[r].opens>>
Turn(r) == <<r, call[r].loop>>
HasLogical(r) == logical[Turn(r)].state # "none"

\* ctx.Err() of an operation: ended by itself or at the deadline.
LogicalDone(l) == logical[l].state # "live" \/ l[1] \in expired

\* A local attempt of a turn with a logical operation is its child.
ContextDone(a) ==
  \/ attempt[a].op # "live" \/ a[1] \in expired
  \/ attempt[a].child /\ LogicalDone(<<a[1], attempt[a].loop>>)

\* egressLocalStream.close, or host.http.stream_close; both may be repeated.
Closed(s) == [s EXCEPT !.stream = IF @ = "open" THEN "closed" ELSE @,
                       !.op = IF @ = "none" THEN "none" ELSE "finished"]

\* closeUpstream
Close(a) ==
  /\ attempt' = [attempt EXCEPT ![a] = Closed(@)]
  /\ published' = published \ {a}
  /\ registered' = registered \ {a}

-----------------------------------------------------------------------------
(* execute, and requestWithRoutingFallback up to its first open *)

Begin(r) ==
  /\ At(r, "new")
  /\ IF stopped THEN Go(r, "ended") /\ UNCHANGED active
     ELSE Go(r, "request") /\ active' = active \cup {r}
  /\ UNCHANGED <<attempt, logical, maps, service, world>>

\* With providerOptions and the pool, one logical operation spans the retry.
Enter(r) ==
  /\ At(r, "request")
  /\ IF call[r].options /\ pooled
     THEN IF poolClosed THEN Go(r, "failed") /\ UNCHANGED logical
          ELSE Go(r, "open") /\ logical' = [logical EXCEPT ![Turn(r)].state = "live"]
     ELSE Go(r, "open") /\ UNCHANGED logical
  /\ UNCHANGED <<attempt, maps, active, service, world>>

MayOpen(r) == r \notin expired /\ (HasLogical(r) => ~LogicalDone(Turn(r)))

Open(r) ==
  /\ At(r, "open")
  /\ IF MayOpen(r)
     THEN call' = [call EXCEPT ![r] = [@ EXCEPT !.step = "transport", !.opens = call[r].opens + 1]]
     ELSE Go(r, "failed")
  /\ UNCHANGED <<attempt, logical, maps, active, service, world>>

-----------------------------------------------------------------------------
(* openUpstream over the host *)

\* Service.begin once more, for the goroutine that may outlive its caller.
BeginHost(r) ==
  /\ At(r, "transport") /\ ~pooled
  /\ IF stopped THEN Go(r, "failed") /\ UNCHANGED <<attempt, active>>
     ELSE /\ Go(r, "waiting")
          /\ active' = active \cup {Mine(r)}
          /\ attempt' = [attempt EXCEPT ![Mine(r)] =
               [@ EXCEPT !.step = "calling", !.loop = call[r].loop]]
  /\ UNCHANGED <<logical, maps, service, world>>

\* host.http.do_stream returns, early, late or never.
HostAnswers(a) ==
  /\ attempt[a].step = "calling"
  /\ \E answer \in Answers \ {"none"} :
       attempt' = [attempt EXCEPT ![a] =
         [@ EXCEPT !.step = "answered", !.answer = answer,
            !.stream = IF answer \in {"failed", "nameless"} THEN "none" ELSE "open"]]
  /\ UNCHANGED <<call, logical, maps, active, service, world>>

Waited(a) == At(a[1], "waiting") /\ Mine(a[1]) = a

\* The rendezvous: the caller still selects on results.
HandOver(a) ==
  /\ attempt[a].step = "answered" /\ Waited(a)
  /\ attempt' = [attempt EXCEPT ![a].step = "done"]
  /\ active' = active \ {a}
  /\ call' = [call EXCEPT ![a[1]] =
       CASE attempt[a].answer \in {"ok", "forbidden"} -> [@ EXCEPT !.step = "register"]
         [] attempt[a].answer = "failedOpen" ->
              [@ EXCEPT !.step = "closing", !.then = "failed"]
         [] OTHER -> [@ EXCEPT !.step = "failed"]]
  /\ UNCHANGED <<logical, maps, service, world>>

\* The timer or stopCh: the goroutine is abandoned.
GiveUp(r) ==
  /\ At(r, "waiting") /\ (r \in expired \/ stopped)
  /\ Go(r, "failed")
  /\ UNCHANGED <<attempt, logical, maps, active, service, world>>

\* (A faulty variant, for NothingLeftBehind: a late answer is thrown away.)
AbandonedForgets(a) ==
  /\ attempt[a].step = "answered" /\ ~Waited(a)
  /\ attempt' = [attempt EXCEPT ![a].step = "done"]
  /\ active' = active \ {a}
  /\ UNCHANGED <<call, logical, maps, service, world>>

\* The abandoned goroutine closes what the host gave it after all.
Abandoned(a) ==
  /\ attempt[a].step = "answered" /\ ~Waited(a)
  /\ attempt' = [attempt EXCEPT ![a] = [Closed(@) EXCEPT !.step = "done"]]
  /\ registered' = registered \ {a}
  /\ active' = active \ {a}
  /\ UNCHANGED <<call, logical, published, service, world>>

Register(r) ==
  /\ At(r, "register")
  /\ IF stopped
     THEN /\ call' = [call EXCEPT ![r] = [@ EXCEPT !.step = "closing", !.then = "failed"]]
          /\ UNCHANGED registered
     ELSE Go(r, "opened") /\ registered' = registered \cup {Mine(r)}
  /\ UNCHANGED <<attempt, logical, published, active, service, world>>

-----------------------------------------------------------------------------
(* openEgress *)

BeginLocal(r) ==
  /\ At(r, "transport") /\ pooled
  /\ IF stopped THEN Go(r, "failed") /\ UNCHANGED active
     ELSE Go(r, "operation") /\ active' = active \cup {Mine(r)}
  /\ UNCHANGED <<attempt, logical, maps, service, world>>

\* openEgress returns an error, and its deferred active.Done runs.
LocalFailed(r) == Go(r, "failed") /\ active' = active \ {Mine(r)}

\* (A faulty variant, for CancelIsFinal: the attempt gets a context of its own.)
OperateAlone(r) ==
  /\ At(r, "operation")
  /\ IF poolClosed THEN LocalFailed(r) /\ UNCHANGED attempt
     ELSE /\ Go(r, "sending") /\ UNCHANGED active
          /\ attempt' = [attempt EXCEPT ![Mine(r)] =
               [@ EXCEPT !.local = TRUE, !.op = "live", !.loop = call[r].loop]]
  /\ UNCHANGED <<logical, maps, service, world>>

\* routingOperation
Operate(r) ==
  /\ At(r, "operation")
  /\ IF poolClosed THEN LocalFailed(r) /\ UNCHANGED attempt
     ELSE /\ Go(r, "sending") /\ UNCHANGED active
          /\ attempt' = [attempt EXCEPT ![Mine(r)] =
               [@ EXCEPT !.local = TRUE, !.op = "live", !.loop = call[r].loop,
                         !.child = HasLogical(r)]]
  /\ UNCHANGED <<logical, maps, service, world>>

\* No capacity, no client, or the request fails, for one because its context
\* has ended.
SendFails(r) ==
  /\ At(r, "sending")
  /\ attempt' = [attempt EXCEPT ![Mine(r)] = Closed(@)]
  /\ LocalFailed(r)
  /\ UNCHANGED <<logical, maps, service, world>>

SendAnswers(r) ==
  /\ At(r, "sending")
  /\ Go(r, "offer")
  /\ \E answer \in {"ok", "forbidden"} :
       attempt' = [attempt EXCEPT ![Mine(r)] =
         [@ EXCEPT !.stream = "open", !.answer = answer]]
  /\ UNCHANGED <<logical, maps, active, service, world>>

\* (A faulty variant, for EverybodyEnds: a refused response keeps its token.)
OfferHolding(r) ==
  /\ At(r, "offer")
  /\ IF poolClosed \/ ContextDone(Mine(r))
     THEN /\ attempt' = [attempt EXCEPT ![Mine(r)] = Closed(@)]
          /\ Go(r, "failed") /\ UNCHANGED published
     ELSE Go(r, "publish") /\ published' = published \cup {Mine(r)} /\ UNCHANGED attempt
  /\ UNCHANGED <<active, logical, registered, service, world>>

Offer(r) ==
  /\ At(r, "offer")
  /\ IF poolClosed \/ ContextDone(Mine(r))
     THEN /\ attempt' = [attempt EXCEPT ![Mine(r)] = Closed(@)]
          /\ LocalFailed(r) /\ UNCHANGED published
     ELSE /\ Go(r, "publish") /\ published' = published \cup {Mine(r)}
          /\ UNCHANGED <<attempt, active>>
  /\ UNCHANGED <<logical, registered, service, world>>

\* Registered as well, the stream gets a goroutine that closes it at the end of
\* its context.
Publish(r) ==
  /\ At(r, "publish")
  /\ IF stopped
     THEN /\ attempt' = [attempt EXCEPT ![Mine(r)] = Closed(@)]
          /\ published' = published \ {Mine(r)}
          /\ LocalFailed(r) /\ UNCHANGED registered
     ELSE /\ attempt' = [attempt EXCEPT ![Mine(r)].step = "watching"]
          /\ registered' = registered \cup {Mine(r)}
          /\ Go(r, "opened") /\ active' = active \ {Mine(r)} /\ UNCHANGED published
  /\ UNCHANGED <<logical, service, world>>

ContextEnds(a) ==
  /\ attempt[a].step = "watching" /\ ContextDone(a)
  /\ attempt' = [attempt EXCEPT ![a].step = "closing"]
  /\ UNCHANGED <<call, logical, maps, active, service, world>>

WatcherCloses(a) ==
  /\ attempt[a].step = "closing"
  /\ attempt' = [attempt EXCEPT ![a] = [Closed(@) EXCEPT !.step = "done"]]
  /\ published' = published \ {a} /\ registered' = registered \ {a}
  /\ UNCHANGED <<call, logical, active, service, world>>

-----------------------------------------------------------------------------
(* The response: the retry of requestWithRoutingFallback, and the session *)

Retryable(r) ==
  attempt[Mine(r)].answer = "forbidden" /\ call[r].options /\ ~call[r].fallback

\* A 403 may be the rejection of providerOptions: its body is read first.
ReadRejection(r) ==
  /\ At(r, "opened") /\ Retryable(r)
  /\ Go(r, "rejection")
  /\ UNCHANGED <<attempt, logical, maps, active, service, world>>

Finished(l) == [l EXCEPT !.state = IF @ = "none" THEN "none" ELSE "finished"]

\* request returns the stream.  A local one keeps the logical operation.
Return(r) ==
  /\ At(r, "opened") /\ ~Retryable(r)
  /\ Go(r, "session")
  /\ logical' = [logical EXCEPT ![Turn(r)] =
       IF HasLogical(r) /\ attempt[Mine(r)].local
       THEN [@ EXCEPT !.keeper = call[r].opens] ELSE Finished(@)]
  /\ UNCHANGED <<attempt, maps, active, service, world>>

Unkept(l) ==
  /\ logical[l].keeper > 0 /\ logical[l].state # "finished"
  /\ ContextDone(<<l[1], logical[l].keeper>>)

\* context.AfterFunc of keep
FinishKept(l) ==
  /\ Unkept(l)
  /\ logical' = [logical EXCEPT ![l].state = "finished"]
  /\ UNCHANGED <<call, attempt, maps, active, service, world>>

\* A read ends with the whole body, or with an error; a closed stream only has
\* the error, and the watchdog cuts it at the deadline, at the end of its context
\* and at the shutdown.
Cut(r) ==
  \/ attempt[Mine(r)].stream = "closed" \/ stopped \/ r \in expired
  \/ attempt[Mine(r)].local /\ ContextDone(Mine(r))

Readable(r) == attempt[Mine(r)].stream = "open"

Closing(r, then) ==
  /\ call' = [call EXCEPT ![r] = [@ EXCEPT !.step = "closing", !.then = then]]
  /\ UNCHANGED <<attempt, logical, maps, active, service, world>>

\* An ordinary 403 is returned with its body, like any other failed response.
RejectionEnds(r) ==
  /\ At(r, "rejection")
  /\ \/ Readable(r) /\ Closing(r, "exact")
     \/ Closing(r, "failed")

\* The logical operation outlives the close of its first response: whether the
\* callback was cancelled meanwhile is looked up there.
Retry(r) ==
  /\ At(r, "exact")
  /\ IF MayOpen(r)
     THEN call' = [call EXCEPT ![r] =
            [@ EXCEPT !.step = "open", !.fallback = TRUE, !.options = FALSE]]
     ELSE Go(r, "failed")
  /\ UNCHANGED <<attempt, logical, maps, active, service, world>>

\* The session ends; an empty answer of the first turn may ask for a second one
\* (nonstream_mode native-fallback).
SessionEnds(r) ==
  /\ At(r, "session")
  /\ \/ Closing(r, "over")
     \/ /\ Readable(r) /\ call[r].loop = 1 /\ attempt[Mine(r)].answer = "ok"
        /\ Closing(r, "again")

CloseMine(r) ==
  /\ At(r, "closing")
  /\ Go(r, call[r].then)
  /\ Close(Mine(r))
  /\ UNCHANGED <<logical, active, service, world>>

\* request returns an error: the logical operation is finished with it.
Fail(r) ==
  /\ At(r, "failed")
  /\ Go(r, "over")
  /\ logical' = [logical EXCEPT ![Turn(r)] = Finished(@)]
  /\ UNCHANGED <<attempt, maps, active, service, world>>

Again(r) ==
  /\ At(r, "again")
  /\ call' = [call EXCEPT ![r] = [@ EXCEPT !.step = "request", !.loop = 2]]
  /\ UNCHANGED <<attempt, logical, maps, active, service, world>>

End(r) ==
  /\ At(r, "over")
  /\ Go(r, "ended") /\ active' = active \ {r}
  /\ UNCHANGED <<attempt, logical, maps, service, world>>

-----------------------------------------------------------------------------
(* plugin.shutdown *)

ShutdownStops ==
  /\ shutdown.step = "running"
  /\ stopped' = TRUE
  /\ shutdown' = [step |-> "pool", toClose |-> registered]
  /\ UNCHANGED <<call, attempt, logical, maps, active, poolClosed, world>>

Cancelled(state) == IF state = "live" THEN "cancelled" ELSE state

\* egressManager.close cancels every operation; its streams are closed next.
ClosePool ==
  /\ shutdown.step = "pool"
  /\ poolClosed' = TRUE
  /\ logical' = [l \in Logicals |-> [logical[l] EXCEPT !.state = Cancelled(@)]]
  /\ attempt' = [a \in Attempts |-> [attempt[a] EXCEPT !.op = Cancelled(@)]]
  /\ shutdown' = [step |-> "streams", toClose |-> shutdown.toClose \cup published]
  /\ UNCHANGED <<call, maps, active, stopped, world>>

ShutdownCloses(a) ==
  /\ shutdown.step = "streams" /\ a \in shutdown.toClose
  /\ Close(a)
  /\ shutdown' = [shutdown EXCEPT !.toClose = @ \ {a}]
  /\ UNCHANGED <<call, logical, active, stopped, poolClosed, world>>

ShutdownWaits ==
  /\ shutdown.step = "streams" /\ shutdown.toClose = {} /\ active = {}
  /\ shutdown' = [shutdown EXCEPT !.step = "done"]
  /\ UNCHANGED <<call, attempt, logical, maps, active, stopped, poolClosed, world>>

-----------------------------------------------------------------------------
(* Around the requests *)

Expire(r) ==
  /\ ~At(r, "new") /\ ~At(r, "ended") /\ r \notin expired
  /\ expired' = expired \cup {r}
  /\ UNCHANGED <<call, attempt, logical, maps, active, service, pooled, edits>>

\* CancelEgressRequest: the operations that carry the callback just now.
Cancel(r) ==
  /\ \/ \E n \in Loops : logical[<<r, n>>].state = "live"
     \/ \E n \in 1..MaxOpens : attempt[<<r, n>>].op = "live"
  /\ logical' = [l \in Logicals |->
       IF l[1] = r THEN [logical[l] EXCEPT !.state = Cancelled(@)] ELSE logical[l]]
  /\ attempt' = [a \in Attempts |->
       IF a[1] = r THEN [attempt[a] EXCEPT !.op = Cancelled(@)] ELSE attempt[a]]
  /\ UNCHANGED <<call, maps, active, service, world>>

\* egressManager.apply turns the pool on or off.
TogglePool ==
  /\ edits < MaxEdits
  /\ pooled' = ~pooled /\ edits' = edits + 1
  /\ UNCHANGED <<call, attempt, logical, maps, active, service, expired>>

\* What a call does by itself.
Proceed(r) ==
  \/ Enter(r) \/ Open(r) \/ BeginHost(r) \/ Register(r)
  \/ BeginLocal(r) \/ Operate(r) \/ Offer(r) \/ Publish(r)
  \/ ReadRejection(r) \/ Return(r) \/ Retry(r) \/ CloseMine(r)
  \/ Fail(r) \/ Again(r) \/ End(r)

Goroutine(a) == HandOver(a) \/ Abandoned(a) \/ ContextEnds(a) \/ WatcherCloses(a)

Stopping == ClosePool \/ (\E a \in Attempts : ShutdownCloses(a)) \/ ShutdownWaits

Next ==
  \/ \E r \in Requests :
       \/ Begin(r) \/ Proceed(r) \/ GiveUp(r)
       \/ SendFails(r) \/ SendAnswers(r) \/ RejectionEnds(r) \/ SessionEnds(r)
       \/ Expire(r) \/ Cancel(r)
  \/ \E a \in Attempts : HostAnswers(a) \/ Goroutine(a)
  \/ \E l \in Logicals : FinishKept(l)
  \/ ShutdownStops \/ Stopping \/ TogglePool

Spec == Init /\ [][Next]_vars

\* The goroutines run and deadlines pass.  Host, proxies and upstream owe
\* nothing, but a request with an ended context fails, and a closed or cut
\* stream ends its read.
FairSpec ==
  /\ Spec
  /\ \A r \in Requests :
       /\ WF_vars(Proceed(r)) /\ WF_vars(GiveUp(r)) /\ WF_vars(Expire(r))
       /\ WF_vars(SendFails(r) /\ ContextDone(Mine(r)))
       /\ WF_vars((RejectionEnds(r) \/ SessionEnds(r)) /\ Cut(r))
  /\ \A a \in Attempts : WF_vars(Goroutine(a))
  /\ \A l \in Logicals : WF_vars(FinishKept(l))
  /\ WF_vars(Stopping)

-----------------------------------------------------------------------------
(* Properties *)

NoStreamOf(a) ==
  attempt[a].stream # "open" /\ a \notin registered /\ a \notin published

\* The goroutines of an attempt that have something left to do, and can.
Busy(a) ==
  \/ attempt[a].step \in {"calling", "answered", "closing"}
  \/ attempt[a].step = "watching" /\ ContextDone(a)

\* Nobody who could still clean up after a request is left.
Settled(r) ==
  /\ At(r, "ended")
  /\ \A n \in 1..MaxOpens : ~Busy(<<r, n>>)
  /\ \A n \in Loops : ~Unkept(<<r, n>>)

\* A request that is over, with a late answer of the host to an abandoned
\* openUpstream, a cancellation, a rejection or an error anywhere in between,
\* leaves no stream, no registration, no operation and no goroutine behind.
NothingLeaks ==
  \A r \in Requests : Settled(r) =>
    /\ \A n \in 1..MaxOpens :
         /\ NoStreamOf(<<r, n>>)
         /\ attempt[<<r, n>>].op \in {"none", "finished"}
         /\ attempt[<<r, n>>].step \in {"unborn", "done"}
    /\ \A n \in Loops : logical[<<r, n>>].state \in {"none", "finished"}

\* When plugin.shutdown returns, no request runs, no stream is open, registered
\* or published, and nobody is inside a callback of the host any more.
ShutdownLeavesNothing ==
  shutdown.step = "done" =>
    /\ \A r \in Requests : call[r].step \in {"new", "ended"}
    /\ \A a \in Attempts :
         NoStreamOf(a) /\ attempt[a].step \notin {"calling", "answered"}

\* Neither a request nor plugin.shutdown leaves anything of an upstream behind.
NothingLeftBehind == NothingLeaks /\ ShutdownLeavesNothing

\* A callback cancelled at any time, also while the first response is being
\* closed, never gets another response of the pool.
CancelIsFinal ==
  [][\A a \in published' \ published :
       logical[Turn(a[1])].state \in {"none", "live"}]_vars

\* Every request ends, also when the host never answers host.http.do_stream.
RequestsEnd == \A r \in Requests : ~At(r, "new") ~> At(r, "ended")

\* plugin.shutdown returns if the host answers its callbacks: it waits for the
\* abandoned ones, too.
ShutdownEnds ==
  (\A a \in Attempts : []<>(attempt[a].step # "calling"))
    => (stopped ~> shutdown.step = "done")

\* Nobody waits forever: neither a request nor the shutdown.
EverybodyEnds == RequestsEnd /\ ShutdownEnds

=============================================================================
