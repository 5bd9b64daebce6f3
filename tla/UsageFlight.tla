------------------------------ MODULE UsageFlight ------------------------------
(***************************************************************************)
(* The usage check of a credential and its cache (usage.go), the sampler   *)
(* that keeps every account checked (usage_sampler.go) and the quota query *)
(* of the host that goes through the same check (quota_provider.go).       *)
(*                                                                         *)
(* A section under Service.mu, a channel operation and the two upstream    *)
(* reads of one check are one action each.  What a check does to the quota *)
(* state is in QuotaGuard, how a read opens its stream in UpstreamOpen;    *)
(* here a check is applied, and a read ends.                               *)
(*                                                                         *)
(* Data: a key stands for the fingerprint of key and proxy.  An entry of   *)
(* the cache has a tag in place of its address: a flight whose tag the     *)
(* cache no longer holds writes into an entry nobody can reach.            *)
(***************************************************************************)
EXTENDS Naturals, FiniteSets

CONSTANTS
  Users,     \* management calls and quota.fetch
  Workers,   \* the goroutines of sampleUsage, as many as there are slots
  Creds, Keys, Accounts,
  AccountOf, \* the account a key belongs to, known to the upstream
  FirstKey,
  ResetAt,   \* when a credential's quota block ends; 0: it has none
  Slots,     \* cap(usageSlots)
  OkTTL, FailTTL, RefreshTTL, BackoffTTL,
  MaxTime, \* bound: the clock
  Budgets, \* bounds: the changes of keys, quiesces and ticks of a behaviour
  None

Queries == Users \cup Workers
Times == 0..MaxTime

ASSUME UsageAssumption ==
  /\ IsFiniteSet(Queries) /\ Users \cap Workers = {} /\ None \notin Keys \cup Accounts
  /\ AccountOf \in [Keys -> Accounts] /\ FirstKey \in [Creds -> Keys]
  /\ ResetAt \in [Creds -> Nat] /\ Slots \in Nat \ {0}
  /\ {OkTTL, FailTTL, RefreshTTL, BackoffTTL} \subseteq Nat \ {0}
  /\ MaxTime \in Nat
  /\ Budgets \subseteq [edits : SUBSET (Creds \X (Keys \cup {None})), stops : Nat, ticks : Times]

VARIABLES
  key,     \* s.creds: the key of each credential, None once it is deleted
  identity, \* QuotaIdentity: the account a check verified, and with which key
  cache,   \* s.usageCache: the live entry of each credential
  query,   \* one call of credentialUsage
  slots,   \* usageSlots in use
  sampler, \* the sampler's goroutine and the targets it has yet to hand out
  stopped, \* Service.stopped, stopCh is closed
  clock,
  left     \* what is left of the budget

vars == <<key, identity, cache, query, slots, sampler, stopped, clock, left>>
world == <<key, identity, stopped, clock, left>>

\* What a check found.  account is the account its plan answer named, source
\* (history) the one whose limits it shows; pending (history) says that its
\* quota state has yet to be applied.
Values ==
  [status : {"none", "ok", "failed"}, at : Times,
   account : Accounts \cup {None}, source : Accounts \cup {None},
   pending : BOOLEAN]
NoValue == [status |-> "none", at |-> 0, account |-> None, source |-> None,
            pending |-> FALSE]

\* tag 0: no entry.  flight is entry.done # nil.
Entries == [tag : Nat, key : Keys \cup {None}, flight : BOOLEAN, value : Values]
NoEntry == [tag |-> 0, key |-> None, flight |-> FALSE, value |-> NoValue]

Flying == {"slot", "fetching", "publish", "observe", "release"}
QueryRecords ==
  [step : Flying \cup {"idle", "lookup", "waiting"}, cred : Creds \cup {None},
   refresh : BOOLEAN, tag : Nat, key : Keys \cup {None}, value : Values]
Idle == [step |-> "idle", cred |-> None, refresh |-> FALSE, tag |-> 0,
         key |-> None, value |-> NoValue]

TypeOK ==
  /\ identity \in [Creds -> [key : Keys \cup {None}, account : Accounts \cup {None}]]
  /\ key \in [Creds -> Keys \cup {None}]
  /\ cache \in [Creds -> Entries]
  /\ query \in [Queries -> QueryRecords]
  /\ slots \in 0..Slots
  /\ sampler \in [step : {"off", "idle", "round", "drain"}, todo : SUBSET Creds]
  /\ stopped \in BOOLEAN /\ clock \in Times
  /\ left \in [edits : SUBSET (Creds \X (Keys \cup {None})), stops : Nat, ticks : Times]

Init ==
  /\ key = FirstKey /\ identity = [c \in Creds |-> [key |-> None, account |-> None]]
  /\ cache = [c \in Creds |-> NoEntry]
  /\ query = [q \in Queries |-> Idle]
  /\ slots = 0 /\ sampler = [step |-> "off", todo |-> {}]
  /\ stopped = FALSE /\ clock = 0
  /\ left \in Budgets

At(q, step) == query[q].step = step
Go(q, step) == query' = [query EXCEPT ![q].step = step]
Entry(q) == cache[query[q].cred]
Airborne(q) == query[q].step \in Flying

\* The call returns.
Return(q) == query' = [query EXCEPT ![q] = Idle]

-----------------------------------------------------------------------------
(* credentialUsage up to its flight *)

\* begin() refuses a call of a stopped service.
Ask(q, c, refresh) ==
  /\ At(q, "idle") /\ ~stopped
  /\ query' = [query EXCEPT ![q] = [Idle EXCEPT !.step = "lookup", !.cred = c,
                                                !.refresh = refresh]]

\* fetchQuota asks for the credential of an auth id with refresh set.
UserAsks(q, c) ==
  /\ \E refresh \in BOOLEAN : Ask(q, c, refresh)
  /\ UNCHANGED <<cache, slots, sampler, world>>

\* An address no flight of this credential holds.
FreshTag(c) ==
  LET taken == {cache[c].tag} \cup {query[q].tag : q \in {q \in Queries : query[q].cred = c}}
  IN CHOOSE n \in 1..(Cardinality(taken) + 1) : n \notin taken

\* The live entry, or a new one when key or proxy have changed.
Present(c) ==
  IF cache[c].tag # 0 /\ cache[c].key = key[c] THEN cache[c]
  ELSE [NoEntry EXCEPT !.tag = FreshTag(c), !.key = key[c]]

\* quotaRecoveryCheckDue
RecoveryDue(c, v) ==
  /\ ResetAt[c] > 0 /\ clock >= ResetAt[c]
  /\ v.status = "none" \/ v.at < ResetAt[c]

Fresh(c, v, ttl) ==
  v.status # "none" /\ clock - v.at < ttl /\ ~RecoveryDue(c, v)

TTL(q, v) == IF query[q].refresh THEN RefreshTTL
             ELSE IF v.status = "ok" THEN OkTTL ELSE FailTTL

LookupGone(q) ==
  /\ At(q, "lookup") /\ key[query[q].cred] = None
  /\ Return(q)
  /\ UNCHANGED <<cache, slots, sampler, world>>

LookupWaits(q) ==
  /\ At(q, "lookup") /\ key[query[q].cred] # None
  /\ Present(query[q].cred).flight
  /\ query' = [query EXCEPT ![q].step = "waiting", ![q].tag = Present(query[q].cred).tag]
  /\ UNCHANGED <<cache, slots, sampler, world>>

LookupCached(q) ==
  /\ At(q, "lookup") /\ key[query[q].cred] # None
  /\ LET c == query[q].cred
         e == Present(c)
     IN /\ ~e.flight /\ Fresh(c, e.value, TTL(q, e.value))
  /\ Return(q)
  /\ UNCHANGED <<cache, slots, sampler, world>>

LookupFlies(q) ==
  /\ At(q, "lookup") /\ key[query[q].cred] # None
  /\ LET c == query[q].cred
         e == Present(c)
     IN /\ ~e.flight /\ ~Fresh(c, e.value, TTL(q, e.value))
        /\ cache' = [cache EXCEPT ![c] = [e EXCEPT !.flight = TRUE]]
        /\ query' = [query EXCEPT ![q] = [Idle EXCEPT !.step = "slot", !.cred = c,
                                     !.tag = e.tag, !.key = key[c], !.value = e.value]]
  /\ UNCHANGED <<slots, sampler, world>>

\* The timer may fire at any time, and stopCh be closed.
WaitEnds(q) ==
  /\ At(q, "waiting")
  /\ Return(q)
  /\ UNCHANGED <<cache, slots, sampler, world>>

-----------------------------------------------------------------------------
(* The flight *)

TakeSlot(q) ==
  /\ At(q, "slot") /\ slots < Slots
  /\ slots' = slots + 1 /\ Go(q, "fetching")
  /\ UNCHANGED <<cache, sampler, world>>

\* A failed check keeps the limits of the last good one.
Failed(v) == [v EXCEPT !.status = "failed", !.at = clock, !.pending = FALSE]

\* The timer or stopCh, before a slot is free.
SlotRefused(q) ==
  /\ At(q, "slot")
  /\ query' = [query EXCEPT ![q].step = "publish", ![q].value = Failed(@)]
  /\ UNCHANGED <<cache, slots, sampler, world>>

\* The plan is read too, unless a recent answer is kept or its read fails; it
\* names the account, or none.
Checked(q, account) ==
  [status |-> "ok", at |-> clock, account |-> account,
   source |-> AccountOf[query[q].key], pending |-> TRUE]

FetchOk(q) ==
  /\ At(q, "fetching")
  /\ \E account \in {query[q].value.account, AccountOf[query[q].key], None} :
       query' = [query EXCEPT ![q].step = "publish", ![q].value = Checked(q, account)]
  /\ slots' = slots - 1
  /\ UNCHANGED <<cache, sampler, world>>

\* (A faulty variant, for FlightsAccounted: a failed read keeps its slot.)
FetchFailsHolding(q) ==
  /\ At(q, "fetching")
  /\ query' = [query EXCEPT ![q].step = "publish", ![q].value = Failed(@)]
  /\ UNCHANGED <<cache, slots, sampler, world>>

\* The upstream refuses, the read fails, or the deadline or the shutdown cut it.
FetchFails(q) ==
  /\ At(q, "fetching")
  /\ query' = [query EXCEPT ![q].step = "publish", ![q].value = Failed(@)]
  /\ slots' = slots - 1
  /\ UNCHANGED <<cache, sampler, world>>

Live(q) == Entry(q).tag = query[q].tag
Valid(q) == key[query[q].cred] = query[q].key /\ Live(q)

\* (A faulty variant, for ValuesStayInTheirAccount: the sibling's own account
\* is not looked at.)
ShareWithAll(c, v, d) ==
  LET e == cache[d] IN
  /\ d # c /\ v.status = "ok" /\ v.account # None
  /\ e.tag # 0 /\ e.key = key[d] /\ ~e.flight /\ e.value.status = "ok"
  /\ e.value.at <= v.at

\* shareAccountUsageLocked: only with keys that verified the same account
\* themselves, are not being checked, and know nothing newer.
Shares(c, v, d) ==
  LET e == cache[d] IN
  /\ d # c /\ v.status = "ok" /\ v.account # None
  /\ e.tag # 0 /\ e.key = key[d] /\ ~e.flight
  /\ e.value.status = "ok" /\ e.value.account = v.account
  /\ e.value.at <= v.at

\* The call goes on to its release and needs its tag only.
Done(q) == [query[q] EXCEPT !.step = "release", !.key = None, !.value = NoValue]

\* (A faulty variant, for ReadersSeeAppliedState: the flight is over first.)
PublishAndLand(q) ==
  /\ At(q, "publish")
  /\ cache' = [cache EXCEPT ![query[q].cred] =
       IF Live(q) THEN [@ EXCEPT !.value = query[q].value, !.flight = FALSE] ELSE @]
  /\ Go(q, "observe")
  /\ UNCHANGED <<slots, sampler, world>>

\* A check whose key is gone is kept by its entry, but nothing comes of it.
Publish(q) ==
  /\ At(q, "publish")
  /\ LET c == query[q].cred
         v == [query[q].value EXCEPT !.pending = @ /\ Valid(q)]
     IN cache' = [d \in Creds |->
          IF d = c /\ Live(q) THEN [cache[d] EXCEPT !.value = v]
          ELSE IF Valid(q) /\ Shares(c, v, d)
               THEN [cache[d] EXCEPT !.value = [v EXCEPT !.pending = FALSE]]
               ELSE cache[d]]
  /\ query' = [query EXCEPT ![q] =
       IF Valid(q) THEN [@ EXCEPT !.step = "observe"] ELSE Done(q)]
  /\ UNCHANGED <<slots, sampler, world>>

\* observeQuotaUsage: the key is compared once more; the account of a good
\* check becomes the credential's, and that of whatever entry it has now.
Observe(q) ==
  /\ At(q, "observe")
  /\ LET c == query[q].cred
         v == query[q].value
         verified == v.status = "ok" /\ v.account # None /\ key[c] = query[q].key
         identified(e) == IF verified /\ e.tag # 0
                          THEN [e EXCEPT !.value.account = v.account] ELSE e
         applied(e) == IF Live(q) THEN [e EXCEPT !.value.pending = FALSE] ELSE e
     IN /\ cache' = [cache EXCEPT ![c] = applied(identified(@))]
        /\ identity' = [identity EXCEPT ![c] =
             IF verified THEN [key |-> key[c], account |-> v.account] ELSE @]
  /\ query' = [query EXCEPT ![q] = Done(q)]
  /\ UNCHANGED <<slots, sampler, key, stopped, clock, left>>

\* close(entry.done) wakes whoever waits for this flight.
Awaits(p, q) ==
  At(p, "waiting") /\ query[p].cred = query[q].cred /\ query[p].tag = query[q].tag

\* (A faulty variant, for EverythingEnds: the channel is not closed.)
ReleaseUnheard(q) ==
  /\ At(q, "release")
  /\ cache' = [cache EXCEPT ![query[q].cred] = IF Live(q) THEN [@ EXCEPT !.flight = FALSE] ELSE @]
  /\ Return(q)
  /\ UNCHANGED <<slots, sampler, world>>

Release(q) ==
  /\ At(q, "release")
  /\ cache' = [cache EXCEPT ![query[q].cred] = IF Live(q) THEN [@ EXCEPT !.flight = FALSE] ELSE @]
  /\ query' = [p \in Queries |->
       IF p = q THEN Idle
       ELSE IF Awaits(p, q) THEN [query[p] EXCEPT !.step = "lookup", !.tag = 0]
       ELSE query[p]]
  /\ UNCHANGED <<slots, sampler, world>>

-----------------------------------------------------------------------------
(* The sampler *)

StartSampler ==
  /\ sampler.step = "off" /\ ~stopped
  /\ sampler' = [sampler EXCEPT !.step = "idle"]
  /\ UNCHANGED <<cache, query, slots, world>>

\* The entry of a credential's present key.
Current(c) == IF cache[c].tag # 0 /\ cache[c].key = key[c] THEN cache[c] ELSE NoEntry

\* quotaAccountHashLocked: an identity verified with the present key outlives the
\* cache.  A credential of unknown account is a group of its own.
Group(c) ==
  IF identity[c].key = key[c] THEN {identity[c].account}
  ELSE IF Current(c).value.account # None THEN {Current(c).value.account} ELSE {c}

Background(v) == IF v.status = "failed" THEN {OkTTL, BackoffTTL} ELSE {OkTTL}
Resting(c, ttl) == Fresh(c, Current(c).value, ttl)

\* A working key first, then one never tried, then the failure tried longest ago.
Rank(c) == CASE Current(c).value.status = "ok" -> 0
             [] Current(c).value.status = "none" -> 1
             [] OTHER -> 2
Preferred(c, d) ==
  \/ Rank(c) < Rank(d)
  \/ Rank(c) = Rank(d) /\ Rank(c) = 0 /\ Current(c).value.at > Current(d).value.at
  \/ Rank(c) = Rank(d) /\ Rank(c) = 2 /\ Current(c).value.at < Current(d).value.at

\* usageSamplingTargets: at most one key of each account, none of an account
\* that is being checked; rest says how long a failed key is left alone.
Targets(rest) ==
  LET known == {c \in Creds : key[c] # None}
      idle == {c \in known : \A d \in known : Group(d) = Group(c) => ~Current(d).flight}
      able == {c \in idle : Rank(c) = 2 => ~Resting(c, rest[c])}
      best == {c \in able : \A d \in able : Group(d) = Group(c) => ~Preferred(d, c)}
      first == {c \in best : c = CHOOSE d \in best : Group(d) = Group(c)}
  IN {c \in first : ~Resting(c, rest[c])}

Rests == {rest \in [Creds -> {OkTTL, BackoffTTL}] :
            \A c \in Creds : rest[c] \in Background(Current(c).value)}

Sample ==
  /\ sampler.step = "idle"
  /\ \E rest \in Rests : sampler' = [step |-> "round", todo |-> Targets(rest)]
  /\ UNCHANGED <<cache, query, slots, world>>

\* A worker's call refuses to begin once the service is stopped.
HandOut(w, c) ==
  /\ sampler.step = "round" /\ c \in sampler.todo /\ At(w, "idle")
  /\ sampler' = [sampler EXCEPT !.todo = @ \ {c}]
  /\ \/ Ask(w, c, FALSE)
     \/ stopped /\ UNCHANGED query
  /\ UNCHANGED <<cache, slots, world>>

RoundCloses ==
  /\ sampler.step = "round" /\ (sampler.todo = {} \/ stopped)
  /\ sampler' = [step |-> "drain", todo |-> {}]
  /\ UNCHANGED <<cache, query, slots, world>>

RoundEnds ==
  /\ sampler.step = "drain" /\ \A w \in Workers : At(w, "idle")
  /\ sampler' = [sampler EXCEPT !.step = "idle"]
  /\ UNCHANGED <<cache, query, slots, world>>

SamplerStops ==
  /\ sampler.step = "idle" /\ stopped
  /\ sampler' = [sampler EXCEPT !.step = "off"]
  /\ UNCHANGED <<cache, query, slots, world>>

-----------------------------------------------------------------------------
(* Credentials, clock and lifecycle *)

\* saveCredential or the watcher: another key or proxy, or a file put back.
ReplaceKey(c, k) ==
  /\ <<c, k>> \in left.edits /\ k \notin {None, key[c]}
  /\ key' = [key EXCEPT ![c] = k]
  /\ left' = [left EXCEPT !.edits = @ \ {<<c, k>>}]
  /\ UNCHANGED <<identity, cache, query, slots, sampler, stopped, clock>>

DeleteCredential(c) ==
  /\ <<c, None>> \in left.edits /\ key[c] # None
  /\ key' = [key EXCEPT ![c] = None] /\ cache' = [cache EXCEPT ![c] = NoEntry]
  /\ left' = [left EXCEPT !.edits = @ \ {<<c, None>>}]
  /\ UNCHANGED <<identity, query, slots, sampler, stopped, clock>>

Tick ==
  /\ clock < MaxTime /\ left.ticks > 0 /\ clock' = clock + 1
  /\ left' = [left EXCEPT !.ticks = @ - 1]
  /\ UNCHANGED <<identity, cache, query, slots, sampler, key, stopped>>

Active == {q \in Queries : query[q].step # "idle"}
Drained == Active = {} /\ sampler.step = "off"

\* plugin.quiesce, whose active.Wait ends once Drained.
Quiesce ==
  /\ ~stopped /\ left.stops > 0 /\ stopped' = TRUE
  /\ left' = [left EXCEPT !.stops = @ - 1]
  /\ UNCHANGED <<identity, cache, query, slots, sampler, key, clock>>

\* The host registers the quiesced instance again: the cache is still there.
Revive ==
  /\ stopped /\ Drained /\ stopped' = FALSE
  /\ UNCHANGED <<identity, cache, query, slots, sampler, key, clock, left>>

-----------------------------------------------------------------------------
QueryStep(q) ==
  \/ LookupGone(q) \/ LookupWaits(q) \/ LookupCached(q) \/ LookupFlies(q)
  \/ WaitEnds(q) \/ TakeSlot(q) \/ SlotRefused(q)
  \/ FetchOk(q) \/ FetchFails(q) \/ Publish(q) \/ Observe(q) \/ Release(q)

SamplerStep ==
  StartSampler \/ RoundCloses \/ RoundEnds \/ SamplerStops
  \/ \E w \in Workers, c \in Creds : HandOut(w, c)

Outside ==
  \/ \E q \in Users, c \in Creds : UserAsks(q, c)
  \/ \E c \in Creds : DeleteCredential(c) \/ \E k \in Keys : ReplaceKey(c, k)
  \/ Tick \/ Quiesce \/ Revive

Next == (\E q \in Queries : QueryStep(q)) \/ SamplerStep \/ Sample \/ Outside

Spec == Init /\ [][Next]_vars

\* What a call does without its 15 s timer running out.
Progress(q) ==
  \/ LookupGone(q) \/ LookupWaits(q) \/ LookupCached(q) \/ LookupFlies(q)
  \/ FetchOk(q) \/ FetchFails(q) \/ Publish(q) \/ Observe(q) \/ Release(q)

\* Goroutines run on and a read ends (UpstreamOpen, RequestsEnd).  Those who
\* wait to send on a channel are served in turn, and a select that has two ready
\* cases again and again takes each of them some time (SF).  Nothing is assumed
\* of the timers: they are there for the reads that take long.
Fairness ==
  /\ \A q \in Queries : WF_vars(Progress(q)) /\ SF_vars(TakeSlot(q))
  /\ \A w \in Workers : WF_vars(\E c \in Creds : HandOut(w, c))
  /\ WF_vars(RoundCloses) /\ WF_vars(RoundEnds) /\ SF_vars(SamplerStops)

FairSpec == Spec /\ Fairness

-----------------------------------------------------------------------------
\* No flight and no slot gets lost, whatever happens to the key meanwhile: a
\* live entry is in flight exactly while one call is working on it, no two calls
\* work on one entry, whoever waits waits for such a call, and the slots in
\* use are the reads under way (usage.go:69-83, 96, 104-110, 131-135).
FlightsAccounted ==
  /\ slots = Cardinality({q \in Queries : At(q, "fetching")})
  /\ \A c \in Creds :
       cache[c].flight => \E q \in Queries : Airborne(q) /\ query[q].cred = c /\ Live(q)
  /\ \A q \in Queries :
       /\ Airborne(q) /\ Live(q) => Entry(q).flight
       /\ At(q, "waiting") => \E p \in Queries : Airborne(p) /\ Awaits(q, p)
  /\ \A p, q \in Queries :
       Airborne(p) /\ Airborne(q) /\ query[p].cred = query[q].cred
       /\ query[p].tag = query[q].tag => p = q

\* A check shows the limits of its own account only: neither a late answer of a
\* replaced key nor a copy from a sibling ever brings the limits of another
\* account into an entry or to a caller (usage.go:118-125, usage_sampler.go:153-169).
ValuesStayInTheirAccount ==
  LET OfAccount(v, k) == v.source # None => k # None /\ v.source = AccountOf[k]
  IN /\ \A c \in Creds : OfAccount(cache[c].value, cache[c].key)
     /\ \A q \in Queries : Airborne(q) => OfAccount(query[q].value, query[q].key)

\* Whoever gets a check from the cache gets it after its quota pause or recovery
\* is in force (usage.go:131).  The copies siblings get, and a check whose key
\* was away when it ended and is back, are not covered by that.
ReadersSeeAppliedState ==
  [][\A q \in Queries :
       LET c == query[q].cred IN
       /\ At(q, "lookup") /\ query'[q].step = "idle" /\ key[c] # None
       => ~cache[c].value.pending]_vars

\* Every call returns, and not only because its timer runs out: no wakeup and no
\* slot is lost, whatever ends the flights it waits for (usage.go:82-92, 104-117,
\* 133-135).
QueriesEnd == \A q \in Queries : []<>At(q, "idle")

\* Once stopped, the sampler, its workers and all calls end, whatever round or
\* flight they are in (service.go:251-269, usage_sampler.go:27-31, 137-150).
ServiceDrains == stopped ~> Drained

\* Calls and, once stopped, the service end.
EverythingEnds == QueriesEnd /\ ServiceDrains
=============================================================================
