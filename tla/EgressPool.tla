------------------------------ MODULE EgressPool ------------------------------
(***************************************************************************)
(* The outgoing proxies of egress_pool.go and egress_transport.go: groups   *)
(* of endpoints with a rate and a concurrency limit, the admission loop with *)
(* its sleeping waiters, the life of one openEgress call from the operation  *)
(* to the closed stream, and the shutdown of the pool under it.              *)
(*                                                                          *)
(* A caller makes one openEgress call.  Each section under egressManager.mu  *)
(* or Service.mu is one action; in between other callers, the clock, the     *)
(* operator and the shutdown may act.  Only the sections of one release and  *)
(* of one stream's close are taken together: the once of the stream makes    *)
(* every other closer wait for them.  A second of the code is one tick.      *)
(***************************************************************************)
EXTENDS Naturals, Sequences, FiniteSets

CONSTANTS
  Callers,
  Pinned,      \* [Callers -> Proxies \cup {None}]: credential proxy, or none
  Management,  \* callers that may use their pin while the pool is disabled
  Proxies, Direct,
  Groups,
  GatewayOf,   \* the group an unlisted proxy is put in
  Configs,     \* validated EgressConfigs
  Starts,      \* bound: the configuration a behaviour starts in, and who calls
  Followers,   \* bound: what each configuration may be replaced by
  None,
  Minute,      \* the rolling window of the rate limit
  UnlistedRPM, UnlistedInflight, \* 60 and 4, for unlisted proxies
  Cooldowns,   \* Retry-After delays and the configured cooldown
  MaxTime,     \* bound of the clock
  MaxEdits,    \* bound: configuration changes
  MaxStops,    \* bound: shutdowns, at most one
  Impatient    \* bound: the callers whose context may end by itself

ASSUME EgressPoolAssumption ==
  /\ Pinned \in [Callers -> Proxies \cup {None}]
  /\ None \notin Proxies /\ None \notin Groups /\ Direct \in Proxies
  /\ IsFiniteSet(Callers)
  /\ GatewayOf \in [Proxies -> Groups]
  /\ Minute \in Nat /\ UnlistedRPM \in Nat \ {0} /\ UnlistedInflight \in Nat \ {0}
  /\ Cooldowns \subseteq Nat /\ MaxTime \in Nat /\ MaxEdits \in Nat
  /\ MaxStops \in {0, 1} /\ Impatient \subseteq Callers

Endpoints ==
  [group : Groups, proxy : Proxies, enabled : BOOLEAN,
   rpm : Nat \ {0}, maxInflight : Nat \ {0}]

\* parseEgressConfig: endpoints that share a group have the same limits.
ValidConfig(cfg) ==
  /\ cfg.enabled \in BOOLEAN /\ cfg.wait \in Nat
  /\ cfg.endpoints \in Seq(Endpoints)
  /\ \A i, j \in DOMAIN cfg.endpoints :
       cfg.endpoints[i].group = cfg.endpoints[j].group =>
         /\ cfg.endpoints[i].rpm = cfg.endpoints[j].rpm
         /\ cfg.endpoints[i].maxInflight = cfg.endpoints[j].maxInflight

ASSUME ConfigsAssumption ==
  /\ \A cfg \in Configs : ValidConfig(cfg)
  /\ Starts \subseteq [config : Configs, callers : SUBSET Callers, now : 0..MaxTime]
  /\ Followers \in [Configs -> SUBSET Configs]

VARIABLES
  now,
  config, edits,
  groups,          \* egressManager.groups; known is whether the map has an entry
  cursor,
  closed,          \* egressManager.closed
  call,            \* per caller: openEgress, its operation, lease and stream
  poolStreams,     \* egressManager.streams
  serviceStreams,  \* Service.streams
  shutdown,        \* where plugin.quiesce is
  toClose,         \* the streams that egressManager.close found
  toUnregister,    \* the streams that the shutdown found in Service.streams
  banned           \* history: the time before which a group may not be used

vars == <<now, config, edits, groups, cursor, closed, call, poolStreams,
          serviceStreams, shutdown, toClose, toUnregister, banned>>
settings == <<now, config, edits>>
pool == <<groups, cursor, closed, banned>>
streams == <<poolStreams, serviceStreams>>
stopping == <<shutdown, toClose, toUnregister>>

Steps == {"new", "begun", "acquiring", "waiting", "leased", "checked", "ready",
          "sending", "answered", "offered", "streaming", "limited", "closed",
          "ended"}

GroupRecords == [known : BOOLEAN, rpm : Nat, maxInflight : Nat, inflight : Nat,
                 sent : Seq(Nat), cooldown : Nat]

\* op is the egressOperation: absent, running, cancelled (its context is done)
\* or finished; lease is absent, held or released; limit and wake are the two
\* timers of acquire, and notified says that the changed channel is closed.
CallRecords ==
  [step : Steps, op : {"none", "live", "cancelled", "finished"},
   lease : {"none", "held", "released"}, group : Groups \cup {None},
   reserved : Nat, sent : BOOLEAN,
   limit : Nat, wake : Nat, notified : BOOLEAN]

TypeOK ==
  /\ now \in Nat /\ edits \in Nat /\ cursor \in Nat
  /\ config \in Configs
  /\ groups \in [Groups -> GroupRecords]
  /\ closed \in BOOLEAN
  /\ call \in [Callers -> CallRecords]
  /\ poolStreams \subseteq Callers /\ serviceStreams \subseteq Callers
  /\ shutdown \in {"running", "stopped", "closing", "done"}
  /\ toClose \subseteq Callers /\ toUnregister \subseteq Callers
  /\ banned \in [Groups -> Nat]

Later(a, b) == IF b > a THEN b ELSE a

NoGroup == [known |-> FALSE, rpm |-> 0, maxInflight |-> 0, inflight |-> 0,
            sent |-> <<>>, cooldown |-> 0]

Init ==
  /\ edits = 0 /\ cursor = 0
  /\ \E s \in Starts : now = s.now /\ config = s.config /\ call = [c \in Callers |->
       [step |-> IF c \in s.callers THEN "new" ELSE "ended", op |-> "none",
        lease |-> "none", group |-> None, reserved |-> 0, sent |-> FALSE,
        limit |-> 0, wake |-> 0, notified |-> FALSE]]
  /\ groups = [g \in Groups |-> NoGroup]
  /\ closed = FALSE
  /\ poolStreams = {} /\ serviceStreams = {}
  /\ shutdown = "running" /\ toClose = {} /\ toUnregister = {}
  /\ banned = [g \in Groups |-> 0]

Held(c) == call[c].lease = "held"
Step(c) == call[c].step

\* notifyLocked wakes every waiter.
Notified(calls) ==
  [c \in Callers |->
     IF calls[c].step = "waiting" THEN [calls[c] EXCEPT !.notified = TRUE]
     ELSE calls[c]]

-----------------------------------------------------------------------------
(* Admission: candidatesLocked, pruneEgressUsage, acquire *)

\* The kth element of a set of positions, and the endpoints at them in order.
Nth(S, k) == CHOOSE i \in S : Cardinality({j \in S : j <= i}) = k
Selected(S) == [k \in 1..Cardinality(S) |-> config.endpoints[Nth(S, k)]]

Known(proxy) == \E i \in DOMAIN config.endpoints : config.endpoints[i].proxy = proxy

Unlisted(proxy) ==
  [group |-> GatewayOf[proxy], proxy |-> proxy, enabled |-> TRUE,
   rpm |-> UnlistedRPM, maxInflight |-> UnlistedInflight]

\* A configured proxy that is disabled is not resurrected by a credential.
Candidates(c) ==
  LET pin == Pinned[c]
      on == {i \in DOMAIN config.endpoints : config.endpoints[i].enabled}
      ofPin == {i \in on : config.endpoints[i].proxy = pin}
  IN CASE pin = None /\ ~config.enabled -> <<>>
       [] pin = None /\ config.enabled -> Selected(on)
       [] pin # None /\ Known(pin) -> Selected(ofPin)
       [] OTHER -> <<Unlisted(pin)>>

\* "direct" is only ever used as an enabled endpoint of the pool.
PinRefused(c) == Pinned[c] = Direct /\ ~Known(Direct)

\* pruneEgressUsage drops the times at the front that have left the window.
Dropped(times) ==
  CHOOSE n \in 0..Len(times) :
    /\ \A i \in 1..n : times[i] + Minute <= now
    /\ n < Len(times) => times[n + 1] + Minute > now

Recent(times) == SubSeq(times, Dropped(times) + 1, Len(times))

\* The group of an endpoint as acquire sees it: made on first use, and pruned.
GroupOf(e) ==
  IF groups[e.group].known
  THEN [groups[e.group] EXCEPT !.sent = Recent(@)]
  ELSE [NoGroup EXCEPT !.known = TRUE, !.rpm = e.rpm, !.maxInflight = e.maxInflight]

AvailableAt(e) ==
  LET g == GroupOf(e) IN
  IF Len(g.sent) >= g.rpm
  THEN Later(g.cooldown, g.sent[Len(g.sent) - g.rpm + 1] + Minute)
  ELSE g.cooldown

CanAdmit(e) ==
  /\ AvailableAt(e) <= now
  /\ GroupOf(e).inflight < GroupOf(e).maxInflight

\* Where the nth candidate from the cursor is.
Turn(list, n) == ((cursor + n) % Len(list)) + 1

\* The groups once the loop has looked at the first candidates of a list.
Visited(list, count) ==
  LET seen == {list[Turn(list, m)] : m \in 0..count - 1} IN
  [g \in Groups |->
     IF \E e \in seen : e.group = g
     THEN GroupOf(CHOOSE e \in seen : e.group = g)
     ELSE groups[g]]

\* An admission, in its group.
Reserved(g) == [g EXCEPT !.inflight = @ + 1, !.sent = Append(@, now)]

Acquiring(c) == Step(c) = "acquiring" /\ ~closed /\ call[c].op = "live"

\* The operation ends: its context is cancelled and the pool forgets it.
Ended(s) == [s EXCEPT !.step = "ended", !.op = "finished"]

\* acquire returns an error: the pool is closed, the context is done, or the
\* pin is refused.
AcquireFails(c) ==
  /\ Step(c) = "acquiring"
  /\ closed \/ call[c].op = "cancelled" \/ PinRefused(c)
  /\ call' = [call EXCEPT ![c] = Ended(@)]
  /\ UNCHANGED <<settings, pool, streams, stopping>>

Admit(c) ==
  /\ Acquiring(c) /\ ~PinRefused(c)
  /\ \E n \in 0..Len(Candidates(c)) - 1 :
       LET list == Candidates(c)
           e == list[Turn(list, n)]
       IN
       /\ CanAdmit(e)
       /\ \A m \in 0..n - 1 : ~CanAdmit(list[Turn(list, m)])
       /\ groups' = [Visited(list, n + 1) EXCEPT ![e.group] = Reserved(@)]
       /\ cursor' = Turn(list, n) % Len(list)
       /\ call' = [call EXCEPT ![c] =
            [@ EXCEPT !.step = "leased", !.lease = "held", !.group = e.group,
                      !.reserved = now]]
  /\ UNCHANGED <<settings, closed, banned, streams, stopping>>

\* The earliest time at which a candidate may free up by itself; those that
\* are only at their concurrency limit are looked at again after a second.
NextTry(c) ==
  LET list == Candidates(c)
      times == {IF AvailableAt(list[i]) > now THEN AvailableAt(list[i]) ELSE now + 1
                : i \in DOMAIN list}
  IN IF times = {} THEN now + 1
     ELSE CHOOSE t \in times : \A u \in times : t <= u

Blocked(c) ==
  /\ Acquiring(c) /\ ~PinRefused(c)
  /\ \A i \in DOMAIN Candidates(c) : ~CanAdmit(Candidates(c)[i])

\* No capacity: sleep until the next try, unless the wait setting says no.
Sleep(c) ==
  /\ Blocked(c) /\ call[c].limit > 0
  /\ groups' = Visited(Candidates(c), Len(Candidates(c)))
  /\ call' = [call EXCEPT ![c] =
       [@ EXCEPT !.step = "waiting", !.wake = NextTry(c), !.notified = FALSE]]
  /\ UNCHANGED <<settings, cursor, closed, banned, streams, stopping>>

\* The local 429: no upstream request is sent.
RefuseAtOnce(c) ==
  /\ Blocked(c) /\ call[c].limit = 0
  /\ groups' = Visited(Candidates(c), Len(Candidates(c)))
  /\ call' = [call EXCEPT ![c] = Ended(@)]
  /\ UNCHANGED <<settings, cursor, closed, banned, streams, stopping>>

\* (A faulty variant, for CancelledCallsEnd: the context is not selected on.)
WaitEndsDeaf(c) ==
  /\ Step(c) = "waiting" /\ now >= call[c].limit
  /\ call' = [call EXCEPT ![c] = Ended(@)]
  /\ UNCHANGED <<settings, pool, streams, stopping>>

\* select: whichever is ready, the context, the limit, the change or the timer.
WaitEnds(c) ==
  /\ Step(c) = "waiting"
  /\ call[c].op = "cancelled" \/ now >= call[c].limit
  /\ call' = [call EXCEPT ![c] = Ended(@)]
  /\ UNCHANGED <<settings, pool, streams, stopping>>

Wake(c) ==
  /\ Step(c) = "waiting"
  /\ call[c].notified \/ now >= call[c].wake
  /\ call' = [call EXCEPT ![c].step = "acquiring"]
  /\ UNCHANGED <<settings, pool, streams, stopping>>

-----------------------------------------------------------------------------
(* openEgress up to the request *)

\* The pool is not for this call: it goes to the host's transport.
NotHandled(c) ==
  /\ Step(c) = "new"
  /\ ~config.enabled /\ ~(c \in Management /\ Pinned[c] # None)
  /\ call' = [call EXCEPT ![c].step = "ended"]
  /\ UNCHANGED <<settings, pool, streams, stopping>>

\* Service.begin, refused once the service is stopped.
Begin(c) ==
  /\ Step(c) = "new"
  /\ config.enabled \/ (c \in Management /\ Pinned[c] # None)
  /\ call' = [call EXCEPT ![c].step =
       IF shutdown = "running" THEN "begun" ELSE "ended"]
  /\ UNCHANGED <<settings, pool, streams, stopping>>

\* operation, and the limit timer of acquire.  A limit of 0 is no wait at all.
Operate(c) ==
  /\ Step(c) = "begun"
  /\ call' = [call EXCEPT ![c] =
       IF closed THEN [@ EXCEPT !.step = "ended"]
       ELSE [@ EXCEPT !.step = "acquiring", !.op = "live",
                      !.limit = IF config.wait = 0 THEN 0 ELSE now + config.wait]]
  /\ UNCHANGED <<settings, pool, streams, stopping>>

First(times, t) ==
  CHOOSE i \in DOMAIN times : times[i] = t /\ \A j \in 1..i - 1 : times[j] # t

Without(times, t) ==
  IF \E i \in DOMAIN times : times[i] = t
  THEN LET i == First(times, t) IN
       SubSeq(times, 1, i - 1) \o SubSeq(times, i + 1, Len(times))
  ELSE times

\* (A faulty variant, for AdmissionRespectsGroup: a sent request is refunded.)
ReleasedRefunding(c) ==
  [groups EXCEPT ![call[c].group] =
     [@ EXCEPT !.inflight = @ - 1, !.sent = Without(@, call[c].reserved)]]

\* egressLease.release, once: an admission that was never sent is refunded.
Returned(g, c) ==
  [g EXCEPT !.inflight = @ - 1,
            !.sent = IF call[c].sent THEN @ ELSE Without(@, call[c].reserved)]

Released(c) == [groups EXCEPT ![call[c].group] = Returned(@, c)]

\* What the caller does next: an offered stream may be closed under openEgress,
\* and the reader of a published one still has to classify what it read.
AfterRelease(s) ==
  [s EXCEPT !.step = CASE @ = "streaming" -> "closed"
                       [] @ = "offered" -> "offered"
                       [] OTHER -> "ended",
            !.op = "finished", !.lease = "released"]

\* (A faulty variant, for SleepersCannotProceed: nobody is told.)
ReleaseSilently(c) ==
  /\ groups' = Released(c)
  /\ call' = [call EXCEPT ![c] = AfterRelease(@)]

Release(c) ==
  /\ groups' = Released(c)
  /\ call' = Notified([call EXCEPT ![c] = AfterRelease(@)])

\* Between admission and request: the request is invalid, the context is done,
\* or the pool closed before a client was handed out.
Abandon(c) ==
  /\ \/ Step(c) = "leased"
     \/ Step(c) = "checked" /\ closed
  /\ Release(c)
  /\ UNCHANGED <<settings, cursor, closed, banned, streams, stopping>>

CheckContext(c) ==
  /\ Step(c) = "leased" /\ call[c].op = "live"
  /\ call' = [call EXCEPT ![c].step = "checked"]
  /\ UNCHANGED <<settings, pool, streams, stopping>>

GetClient(c) ==
  /\ Step(c) = "checked" /\ ~closed
  /\ call' = [call EXCEPT ![c].step = "ready"]
  /\ UNCHANGED <<settings, pool, streams, stopping>>

MarkSent(c) ==
  /\ Step(c) = "ready"
  /\ call' = [call EXCEPT ![c] = [@ EXCEPT !.step = "sending", !.sent = TRUE]]
  /\ UNCHANGED <<settings, pool, streams, stopping>>

-----------------------------------------------------------------------------
(* openEgress from the request on, and the stream *)

\* Client.Do fails, for instance because the context is done.
DoFails(c) ==
  /\ Step(c) = "sending"
  /\ Release(c)
  /\ UNCHANGED <<settings, cursor, closed, banned, streams, stopping>>

DoAnswers(c) ==
  /\ Step(c) = "sending"
  /\ call' = [call EXCEPT ![c].step = "answered"]
  /\ UNCHANGED <<settings, pool, streams, stopping>>

\* egressLocalStream.close, once; it leaves Service.streams alone.
CloseLocal(c) ==
  IF call[c].op = "finished"
  THEN UNCHANGED <<groups, call, poolStreams>>
  ELSE Release(c) /\ poolStreams' = poolStreams \ {c}

Offer(c) ==
  /\ Step(c) = "answered"
  /\ ~closed /\ call[c].op = "live"
  /\ poolStreams' = poolStreams \cup {c}
  /\ call' = [call EXCEPT ![c].step = "offered"]
  /\ UNCHANGED <<settings, pool, serviceStreams, stopping>>

DiscardAnswer(c) ==
  /\ Step(c) = "answered"
  /\ closed \/ call[c].op = "cancelled"
  /\ CloseLocal(c)
  /\ UNCHANGED <<settings, cursor, closed, banned, serviceStreams, stopping>>

\* (A faulty variant, for DrainedAfterShutdown: stopped is not looked at.)
PublishUnchecked(c) ==
  /\ Step(c) = "offered"
  /\ serviceStreams' = serviceStreams \cup {c}
  /\ call' = [call EXCEPT ![c].step = "streaming"]
  /\ UNCHANGED <<settings, pool, poolStreams, stopping>>

\* The caller gets the stream, and a goroutine waits for the context.
Publish(c) ==
  /\ Step(c) = "offered" /\ shutdown = "running"
  /\ serviceStreams' = serviceStreams \cup {c}
  /\ call' = [call EXCEPT ![c].step = "streaming"]
  /\ UNCHANGED <<settings, pool, poolStreams, stopping>>

DiscardOffer(c) ==
  /\ Step(c) = "offered" /\ shutdown # "running" /\ call[c].op # "finished"
  /\ CloseLocal(c)
  /\ UNCHANGED <<settings, cursor, closed, banned, serviceStreams, stopping>>

OfferFails(c) ==
  /\ Step(c) = "offered" /\ call[c].op = "finished"
  /\ call' = [call EXCEPT ![c].step = "ended"]
  /\ UNCHANGED <<settings, pool, streams, stopping>>

\* closeUpstream of a published stream, by its reader ...
ReaderCloses(c) ==
  /\ Step(c) \in {"streaming", "limited"}
  /\ CloseLocal(c)
  /\ serviceStreams' = serviceStreams \ {c}
  /\ UNCHANGED <<settings, cursor, closed, banned, stopping>>

\* ... or by the goroutine once its context is done, even after another closer.
ContextCloses(c) ==
  /\ c \in serviceStreams
  /\ call[c].op \in {"cancelled", "finished"}
  /\ CloseLocal(c)
  /\ serviceStreams' = serviceStreams \ {c}
  /\ UNCHANGED <<settings, cursor, closed, banned, stopping>>

\* classifyEgressError: a challenge or an IP limit bans the group of the lease.
\* A stream is classified while it is read, any other answer after its close.
CoolDown(c, d) ==
  LET g == call[c].group IN
  /\ Step(c) \in {"streaming", "closed"}
  /\ groups' = [groups EXCEPT ![g].cooldown = Later(@, now + d)]
  /\ banned' = [banned EXCEPT ![g] = Later(@, now + d)]
  /\ call' = Notified([call EXCEPT ![c].step =
       IF @ = "streaming" THEN "limited" ELSE "ended"])
  /\ UNCHANGED <<settings, cursor, closed, streams, stopping>>

-----------------------------------------------------------------------------
(* The operator, the host and the clock *)

LimitsOf(cfg, g) ==
  CHOOSE e \in {cfg.endpoints[i] : i \in DOMAIN cfg.endpoints} : e.group = g

HasGroup(cfg, g) == \E i \in DOMAIN cfg.endpoints : cfg.endpoints[i].group = g

\* (A faulty variant, for InflightIsLeases: an edit starts the groups afresh.)
ApplyAfresh(cfg) ==
  /\ ~closed /\ edits < MaxEdits /\ cfg # config
  /\ edits' = edits + 1
  /\ config' = cfg
  /\ groups' = [g \in Groups |-> NoGroup]
  /\ call' = Notified(call)
  /\ UNCHANGED <<now, cursor, closed, banned, streams, stopping>>

\* saveEgressConfig and apply: usage, cooldowns and leases of a group survive.
Apply(cfg) ==
  /\ ~closed /\ edits < MaxEdits /\ cfg # config
  /\ edits' = edits + 1
  /\ config' = cfg
  /\ groups' = [g \in Groups |->
       IF groups[g].known /\ HasGroup(cfg, g)
       THEN [groups[g] EXCEPT !.rpm = LimitsOf(cfg, g).rpm,
                              !.maxInflight = LimitsOf(cfg, g).maxInflight]
       ELSE groups[g]]
  /\ call' = Notified(call)
  /\ UNCHANGED <<now, cursor, closed, banned, streams, stopping>>

\* The deadline passes, or the host cancels the callback.
Cancel(c) ==
  /\ c \in Impatient /\ call[c].op = "live"
  /\ call' = [call EXCEPT ![c].op = "cancelled"]
  /\ UNCHANGED <<settings, pool, streams, stopping>>

Tick ==
  /\ now < MaxTime
  /\ now' = now + 1
  /\ UNCHANGED <<config, edits, pool, call, streams, stopping>>

\* plugin.quiesce: stopped, then egressManager.close, then closeUpstream of what
\* was registered, then active.Wait.
Stop ==
  /\ shutdown = "running" /\ MaxStops > 0
  /\ shutdown' = "stopped"
  /\ toUnregister' = serviceStreams
  /\ UNCHANGED <<settings, pool, call, streams, toClose>>

Cancelled(calls) ==
  [c \in Callers |->
     IF calls[c].op = "live" THEN [calls[c] EXCEPT !.op = "cancelled"] ELSE calls[c]]

ClosePool ==
  /\ shutdown = "stopped"
  /\ shutdown' = "closing"
  /\ closed' = TRUE
  /\ toClose' = poolStreams
  /\ call' = Notified(Cancelled(call))
  /\ UNCHANGED <<settings, groups, cursor, banned, streams, toUnregister>>

PoolCloses(c) ==
  /\ c \in toClose
  /\ toClose' = toClose \ {c}
  /\ CloseLocal(c)
  /\ UNCHANGED <<settings, cursor, closed, banned, serviceStreams, shutdown,
                 toUnregister>>

ShutdownCloses(c) ==
  /\ shutdown = "closing" /\ toClose = {} /\ c \in toUnregister
  /\ toUnregister' = toUnregister \ {c}
  /\ CloseLocal(c)
  /\ serviceStreams' = serviceStreams \ {c}
  /\ UNCHANGED <<settings, cursor, closed, banned, shutdown, toClose>>

\* The calls that openEgress has not returned from are counted as active.
Active(c) == Step(c) \notin {"new", "streaming", "limited", "closed", "ended"}

ShutdownDone ==
  /\ shutdown = "closing" /\ toClose = {} /\ toUnregister = {}
  /\ \A c \in Callers : ~Active(c)
  /\ shutdown' = "done"
  /\ UNCHANGED <<settings, pool, call, streams, toClose, toUnregister>>

Opening(c) ==
  \/ NotHandled(c) \/ Begin(c) \/ Operate(c)
  \/ AcquireFails(c) \/ Admit(c) \/ Sleep(c) \/ RefuseAtOnce(c)
  \/ WaitEnds(c) \/ Wake(c)
  \/ Abandon(c) \/ CheckContext(c) \/ GetClient(c) \/ MarkSent(c)
  \/ DoFails(c) \/ DoAnswers(c)
  \/ Offer(c) \/ DiscardAnswer(c) \/ Publish(c) \/ DiscardOffer(c)
  \/ OfferFails(c)

Next ==
  \/ \E c \in Callers :
       \/ Opening(c)
       \/ ReaderCloses(c) \/ ContextCloses(c) \/ Cancel(c)
       \/ PoolCloses(c) \/ ShutdownCloses(c)
       \/ \E d \in Cooldowns : CoolDown(c, d)
  \/ \E cfg \in Followers[config] : Apply(cfg)
  \/ Tick \/ Stop \/ ClosePool \/ ShutdownDone

Spec == Init /\ [][Next]_vars

\* openEgress is straight-line code whose only blocking calls end with their
\* context; the goroutine of a stream runs once its context is done.
FairSpec ==
  /\ Spec
  /\ \A c \in Callers :
       /\ WF_vars(Opening(c) /\ Step(c) # "new")
       /\ WF_vars(ContextCloses(c))
       /\ WF_vars(PoolCloses(c)) /\ WF_vars(ShutdownCloses(c))
  /\ WF_vars(ClosePool) /\ WF_vars(ShutdownDone)

-----------------------------------------------------------------------------
(* Properties *)

Leases(g) == {c \in Callers : Held(c) /\ call[c].group = g}

\* A group counts exactly the leases that are out: no path of openEgress, no
\* pair of concurrent closers and no edit of the limits loses or doubles one.
InflightIsLeases == \A g \in Groups : groups[g].inflight = Cardinality(Leases(g))

\* Requests that were sent, or may still be, and count against a group's rate.
Spent(g) ==
  {c \in Callers : /\ call[c].lease # "none" /\ call[c].group = g
                   /\ call[c].sent \/ Held(c)
                   /\ call[c].reserved + Minute > now}

LimitsInForce(g) == IF HasGroup(config, g) THEN LimitsOf(config, g)
                    ELSE [rpm |-> UnlistedRPM, maxInflight |-> UnlistedInflight]

\* No configuration names a group as the pool names that of an unlisted proxy, a
\* hash of its gateway's address: the premise under which admissions are within
\* the limits for every configuration.
GatewaysApart == \A cfg \in Configs, p \in Proxies : ~HasGroup(cfg, GatewayOf[p])

\* A lease is granted only within the limits now configured, counted from what
\* really happened: requests of the last minute, leases out, bans of the group.
AdmissionRespectsGroup ==
  [][\A c \in Callers, g \in Groups :
       ~Held(c) /\ call'[c].lease = "held" /\ call'[c].group = g =>
         /\ Cardinality(Spent(g)) < LimitsInForce(g).rpm
         /\ Cardinality(Leases(g)) < LimitsInForce(g).maxInflight
         /\ now >= banned[g]]_vars

\* No lost wakeup: a caller that sleeps, and has neither been notified nor
\* reached its next try, could not be admitted.
SleepersCannotProceed ==
  \A c \in Callers :
    Step(c) = "waiting" /\ ~call[c].notified /\ now < call[c].wake =>
      /\ ~closed
      /\ \A i \in DOMAIN Candidates(c) : ~CanAdmit(Candidates(c)[i])

\* When the shutdown has waited for the active calls the pool holds no lease,
\* no running operation and no stream, whichever step each opener was at.
DrainedAfterShutdown ==
  shutdown = "done" =>
    /\ poolStreams = {} /\ serviceStreams = {}
    /\ \A c \in Callers : ~Held(c) /\ call[c].op \in {"none", "finished"}

\* A call whose context is done gives everything back by itself, and no closed
\* stream stays registered with the service: such a call never becomes live
\* again, so at some later moment it has finished and left nothing.
CancelledCallsEnd ==
  []<>(\A c \in Callers :
         /\ call[c].op # "cancelled"
         /\ call[c].op = "finished" => ~Held(c) /\ c \notin poolStreams \cup serviceStreams)

=============================================================================
