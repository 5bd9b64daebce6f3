# ClinePassBridge in TLA+

Specifications of the concurrent and crash-sensitive parts of ClinePassBridge, a
Go plugin that connects the CLIProxyAPI host ("CPA") to the Cline Pass service.
The modules are translated from `src/internal/bridge`; line numbers below are of
that directory unless a path is given. `PROJECT.json` maps every definition to
its lines and lists the runs, the deliberate faults that each property detects,
the findings, the hazards and the theorems.

Check one run with `tlc -config X.cfg M` and the proofs with `tlapm M.tla`; the
pairs of module and configuration are in the table of runs.

## The system

| component | state | operations | talks to |
| --- | --- | --- | --- |
| rate limiter (`rate_limit.go`) | windows per credential, model and key: retry time, epoch, probe | acquire, finish, finish of a request fault, operator reset | executor, model test |
| request log store (`request_log_store.go`, `observability.go`) | rows in memory; journal, snapshot; pending events, owed snapshot, retry time | load, append and merge, flush (journal, compaction), timer, final flush | every finished request, configuration, shutdown |
| egress pool (`egress_pool.go`, `egress_transport.go`, `egress_config.go`) | groups with limits, leases, reservations, cooldown; operations; open streams | acquire (a waiting loop), release, client, open, close, cool down, apply configuration, cancel, close | executor, usage queries, management, shutdown |
| stream session (`executor.go`, `stream_idle.go`, `stream_error_details.go`) | consumer, watchdog, lifecycle of the output stream | read, emit, cut, close, report | host streams, rate limiter, log, egress pool |
| opening of upstream streams (`executor.go`, `routing_fallback.go`) | stream registry, hand-off channel, logical operation | open with a deadline, one retry without routing options, close | host, egress pool |
| quota guard (`quota.go`, `quota_provider.go`) | blocks and verified identities per credential, revisions, write errors | observe an exhaustion, observe usage, persist, reconcile | executor, usage, watcher, credential files |
| usage cache (`usage.go`, `usage_sampler.go`) | one cache entry and flight per credential, three slots | query, sample, share between sibling keys | quota guard, estimates |
| credentials and files (`service.go`, `affinity.go`, `management.go`) | credentials in memory, file names, revoked ids | parse by the watcher, import, update, delete, rotate | host, file system |
| error rules (`error_rules.go`) | one rule list, copies in credential files | edit, synchronise | credential files |
| statistics and estimates (`statistics.go`, `estimate.go`) | counters per minute and day, generation; cost ledger | add, flush, reset, calibrate | log, usage |
| lifecycle (`service.go`, `cmd/passbridge/main.go`) | stopped flag, active work, stop channel | register, quiesce, shutdown, revive | everything |
| classification, mapping, routing, SSE, pricing, UI | none that requests share | pure functions of request or response | executor, management |

A request passes the rate limiter, obtains an upstream stream (from the host or
through the egress pool), is consumed by a stream session, and finally reports
to the quota guard, the rate limiter, the statistics and the log. Locks are
short: `Service.mu`, `egressManager.mu`, `rateLimiter.mu` and the watchdog's
mutex are never held across a host call, so everything between two locked
sections interleaves with everything else. `credentialMu` and `authFileMu`
serialise what touches credential files.

What is hard here, and is listed as hazards in `PROJECT.json`: late reports of
older requests, lost wakeups, capacity counted twice or never, two goroutines
that end one stream, files that are half written when the process or the power
goes, two plugin instances on one data directory, and callbacks that carry
outdated files.

What makes each component correct:

- rate limiter: one probe at a time; a closed key stays closed until its time;
  it reopens for everybody on evidence only.
- log store: the files load after every kill or power loss; rows a flush
  acknowledged survive; replay repeats no count; storage that recovers is used.
- egress pool: limits hold for what really happened; no capacity leaks; nobody
  sleeps through capacity; shutdown leaves nothing behind.
- stream session: host, RPC, lease and log agree on one outcome; an error return
  means that no output was sent; success means complete; the session ends.
- quota guard: an exhausted key is not used until a check that started later has
  found room, whatever files and callbacks arrive meanwhile.
- usage cache: one flight per credential, every waiter released, limits shown only
  for their own account, quota state in force before anybody reads the check.
- opening: no stream is leaked or closed twice when answer and timeout race.
- statistics: every finished request is counted once across crash and reset.
- credential files: nothing a rewrite of all files does undoes an edit of somebody
  else; what a rotation or a rule update tells the operator is true of the files.

## Modules

| module | models | EXTENDS / INSTANCE |
| --- | --- | --- |
| `RateLimiter` | the rate limiter with the order of calls its users make | |
| `LimitsAndLogProofs` | theorems about `RateLimiter` and `RequestLogStore` | both, TLAPS |
| `DurableLog` | abstract: a log whose saved part only moves forward | |
| `RequestLogStore` | the log store of one or more instances over one disk | implements `DurableLog` |
| `EgressPool` | pool, opening call, stream and shutdown | |
| `EgressPoolProofs` | its theorems | `EgressPool`, TLAPS |
| `StreamSession` | consumer, watchdog, output lifecycle and host of one stream | |
| `StreamSessionProofs` | its theorems | `StreamSession`, TLAPS |
| `QuotaGuard` | quota pauses in memory and in the credential files, with everybody who writes those files | |
| `QuotaGuardProofs` | its theorems | `QuotaGuard`, TLAPS |
| `UpstreamOpen` | opening and closing of a request's upstream streams, over the host or the pool, under shutdown | |
| `UpstreamOpenProofs` | its theorems | `UpstreamOpen`, TLAPS |
| `UsageFlight` | usage checks with cache, flights and slots, the sampler, changes of keys | |
| `UsageFlightProofs` | its theorems | `UsageFlight`, TLAPS |
| `Statistics` | the request counters of an instance and its replacement over one disk | |
| `StatisticsProofs` | its theorems | `Statistics`, TLAPS |
| `CredentialFiles` | session rotation and error rules, the two operations that rewrite every credential file | |
| `CredentialFilesProofs` | its theorems | `CredentialFiles`, TLAPS |
| `MC*` | values of the constants for TLC | the module they name |

Definitions carry the names of the Go functions where the grammar allows it.
Some modules hold a faulty variant beside a definition, commented as such
(`StaleWithProbe` beside `Stale`); no action uses one. They stand for plausible
bugs and are substituted, one at a time, to see that a property notices.

### RateLimiter

Every operation runs under `rateLimiter.mu` and is one action. `windows` is the
map (`id = 0` for an absent entry), `lease` joins a request's progress with its
`rateLease`. `AcquireUnrestricted`, `AcquireProbe` and `Suppress` are the three
outcomes of `acquire`, each beginning with the removal of stale windows.
`Answer` chooses the fault a request ends with, by the classes of
`faultPolicyFor`: nothing, an upstream team limit, a fault with cooldown, a
request-scoped fault. `End` is `finishRequestRateLease`, `FirstOutput` the early
`finish(nil)` of a stream whose completion starts, `Reset` the operator's
reset. `limits`, `closedUntil` and `proven` are history variables.

### RequestLogStore

An instance holds `Service.mu` from the change of its rows to the end of the
flush, so it does one operation at a time; the flush is several actions, because
each file operation may fail (`WriteJournalFails`, `SnapshotFails`,
`TruncateJournalFails`) and `Kill` may strike between any two. One disjunct of
`WriteJournalFails`, a journal that another instance has shortened, needs two
instances and is reached in log_overwrite.
A partly written line is `torn`. `synced` is the snapshot whose directory entry
is known to be on disk: power loss may return it in place of `snapshot`, with
any prefix of the journal. `Load` is `loadRequestLogsLocked` as a fold over the
journal. Rows are identified by their first sequence number, their backoff
window and their count. `saved`, `unsaved` and `onUnsynced` are history.

`DurableLog` promises: the current log changes only by accepting a version, the
saved version moves forward along the accepted ones, and a restart continues
from the saved version, possibly trimmed by a smaller retention. The refinement
maps `log` to the rows in memory while an instance is loaded.

### EgressPool

A caller makes one `openEgress` call; its `step` is the place between two locked
sections. `Acquiring` is one pass of the loop: `Admit`, `AcquireFails`, `Sleep`
or `RefuseAtOnce`; a sleeper is woken by `notified` (the closed channel it
captured), by its timer or by its limit. `Candidates`, `AvailableAt` and
`CanAdmit` transcribe pinning, rolling usage and cooldown; `Recent` drops, as the
code does, the expired times at the front and no others. A lease is released
by the opener, the reader, the watcher of the context or the shutdown;
`CloseLocal` is the `sync.Once` body. `Apply` changes limits in place. `Stop`,
`ClosePool`, `PoolCloses`, `ShutdownCloses` and `ShutdownDone` are the sections
of `plugin.quiesce`, the last one waiting for `active`.

### StreamSession

`consumer` is the goroutine of `executeStream` with `readWatched`, `consumeSSE`
and its deferred report; `watchdog` is `streamReadWatchdog` with what its mutex
guards and its own goroutine; `output` is the lifecycle whose `Once` both close
through. A locked section, an atomic operation and a host callback are one
action each. The host blocks an emit as long as its client does not read and
refuses it after the close; an emit already inside the host may still be
accepted after the watchdog's close has begun. Chunks hold up to `MaxFrames`
frames of four kinds and end open, at end of file or with a transport fault.

### QuotaGuard

`mem` is `s.creds`, `disk` the auth files, `guard` the operation that holds
`credentialMu` with what it captured, `file` the file operation that holds
`authFileMu`. A section under `Service.mu`, a read and a write of a file are one
action each, so the watcher (`ParseRead`, `ParseCommit`) and the writers outside
the plugin (`EditFile`, `HostSave`, `RestoreFile`) come between any two of them.
`ObserveError` and `ObserveUsage` compute the blocks of a group of siblings;
`SaveQuotaGroup` publishes them in memory; `PersistOpen`, `Compare` and
`PersistWrite` or `PersistFails` are `persistQuotaCredential` for each of them,
in any order (the code sorts by ID). `Reconcile` re-enters there. `SetEnabled`
and `UpdateCredential` go through `SaveBegin`, `SaveOpen`, `Compare` and
`SaveWrite` or `SaveFails`; `refreshRegistrations` is a series of updates with
the same key. The host keeps the auth data of its last parse and may save it at
any later time, with its own effective `disabled` flag. Revisions are drawn as
the least number no copy carries, which keeps the state space finite without a
bound. `AccountOf` is the upstream's knowledge; the plugin learns it for one key
at a time from a plan answer. History: `owed` (the newest exhaustion no later
check has cleared, judged by `Evidence` and not by the code's own blocks; it is owed
from its publication on, and by a restart only if the file had it), `news` (the
exhaustion that the holder of `guard` has observed and is about to publish),
`choice` (what the operator last chose), `foreign` (outside writes that brought
back other quota state) and the `accounts` of a block.

What the model shows beside its properties: between the second read of a file
and the rename over it (`quota.go:158-162`) an outside edit is lost; `choice`
then follows the plugin's write. And when the host saves an auth it parsed
before a block was written, the file loses the block while memory keeps it and
no write error is recorded (`service.go:395-398`): a restart then forgets the
pause. Both need a writer that takes none of the plugin's locks, and
`DivergenceIsFlagged`, the safety half of `DivergenceHeals`, excepts the second by
`foreign`.

### UpstreamOpen

`call` is the goroutine of a request from `Service.begin` to its end, `attempt`
one `openUpstream` of it: the goroutine behind it, its context and its stream.
The unbuffered channel of `executor.go:184` is `HandOver`, which needs both
sides; a caller that took the timer or `stopCh` is no longer `Waited` for, and
the goroutine goes through `Abandoned`. The way over the pool is `BeginLocal` to
`Publish`, with the admission loop of `EgressPool` folded into `SendFails` and
`SendAnswers`. `logical` is the operation of `requestWithRoutingFallback`, the
parent of its local attempts: `Return` hands it to the stream (`keeper`,
`FinishKept`), `Fail` finishes it. `Retry` is the one retry without
providerOptions, `Again` the second turn of native-fallback. Where a stream is
read, only the ways in which reading ends are left, `Cut` being those of the
watchdog. `closeUpstream` is one action, so is the deletion from
`Service.streams` in it: a second close of a closed stream changes nothing.

What the model shows beside its properties: the check of `stopped` in front of
the registration (`executor.go:228-237`) is a second line of defence. Without it
`ShutdownLeavesNothing`, a conjunct of `NothingLeftBehind`, still holds, because the watchdog of the session sees the
closed `stopCh` as well and the shutdown waits for the session.

### UsageFlight

A query is one call of `credentialUsage`: by management or `quota.fetch`
(`Users`) or by a worker of the sampler. It finds a fresh entry, waits for a
flight, or flies itself: it takes a slot, reads plan and limits, publishes under
`Service.mu`, applies the check to the quota state and only then releases its
waiters. A section under `Service.mu`, an operation on a channel and the two
upstream reads of one check are one action each. A cache entry has a tag in
place of its address, so a flight whose entry was replaced meanwhile writes where
nobody looks. `Sample` is `usageSamplingTargets` with its grouping by account,
`Rank`, `Resting` and `Preferred`; `HandOut`, `RoundCloses`, `RoundEnds` are the
sampler's job channel and its wait group. `ReplaceKey`, `DeleteCredential`,
`Quiesce` and `Revive` come at any step. History: `source`, the account whose
limits a value really shows, and `pending`, that a check has not been applied.

What the model shows beside its properties:

- A key that is replaced during a flight and then put back: the check is
  rejected, but its value stays in the entry with a new `CheckedAt`, so it is
  served although its quota state was never applied. `ReadersSeeAppliedState`
  excepts it.
- `quota.go:381` stores the verified account in whatever cache entry is present,
  without comparing fingerprints. A key that is replaced, put back and replaced by the
  same key again (K, K', K, K') can so leave the entry of K' with K's account, and a
  sibling of that account then shares its limits into it, or takes K's account for
  its own. `left.edits` is a set, so a behaviour gives a key at most once to a
  credential (beside the one it starts with, which may come back): up to there
  `ValuesStayInTheirAccount` is proved, beyond it the code does not keep it.

### Statistics

An instance holds `Service.mu` during an operation, so it does one at a time;
`step` and `for` say which write comes next and what the flush is for. A file is
replaced by a rename and is all or nothing, each write may fail
(`WriteDayFails`, `WriteMetaFails`), and `Kill` comes between any two. `Load`,
`Bootstrap` and `Migrate` are the three ways in which `loadStatisticsLocked`
continues: day files of the generation, counters rebuilt from the retained log,
or average rates recomputed for the cutoff of `statistics_migration.go`.
`Observe` counts a finished request, `Reset` begins a new generation,
`SwitchGeneration` is the moment its metadata is accepted, `TimerFires` the retry
of dirty days, `Quiesce`, `Revive` and a second instance the hand-over. A
generation's random id is a number no file and no instance names. History:
`owner`, `overtaken`, `promised`.

Not covered: an instance that was killed between the flush of a migrated day and
the write of the metadata forgets `rate_history_partial` on its next load
(`statistics_migration.go:40-61`), because the day it then reads needs no
migration. The flag changes a hint in the UI only and no property is about it. A
load that fails refuses the registration and changes nothing. Loading happens at
registration, the log rows are those of that moment, and a day has one minute.

### CredentialFiles

`guard` is `credentialMu`, which rotation and rule updates share; `lock` is
`authFileMu` with the file its holder has read and what it is about to write.
`PhaseBegin` to `PhaseDone` are one pass of `writePhase` in `clearAffinity`, taken
twice (`canonical`, `next`), `AwaitFails` and `RotationConfirmed` the waiting for
the host's registrations, `RollbackBegin` to `RollbackDone` the restoration.
`RulesPublish`, `SyncOpen`, `SyncWrite` and `SyncMark` are
`errorRulesManagement` with the synchronisation into every file; `ParseRead` to
`ParseCommit` are the watcher's callback, which takes `authFileMu` only and so
runs between the phases of a rotation. Editors take no lock: `Edit` may come
between the comparison of a file and the rename over it (`raced`), and puts the file
in the history `edited` until a rotation has copied it while memory agrees with it.
`Restart` is a kill and a start.

What the model shows beside its properties:

- A sync records its success after `authFileMu` is released
  (`error_rules.go:293-296`); a callback's failure in between is erased.
  `SyncedRulesOnFile` excepts it by `missed`.
- While a file's rules are out of date, the callback of the first phase repairs
  them, so the second phase finds a file it did not write, and the rotation fails
  with a partial restoration.

## Runs

| run | module and configuration | shows |
| --- | --- | --- |
| rate_limiter | `MCRateLimiter`, `MCRateLimiter.cfg` | four requests, two keys, clock to 3: a probe is alone and its slot is the window's, closed keys stay closed (`LimitsAreRespected`), free admission needs evidence |
| log_store | `MCRequestLogStore`, `MCRequestLogStore.cfg` | one instance, three changes, two IO faults, one kill or power loss, under fairness: recovery, durability, refinement of `DurableLog`, owed snapshots get written |
| log_overwrite | `MCRequestLogStore`, `MCRequestLogOverwrite.cfg` | violation: the finding below |
| egress_pool | `MCEgressPool`, `MCEgressPool.cfg` | three worlds of two or three calls, each with an edit, cooldowns, cancellation and a shutdown, under fairness: accounting, limits, no lost wakeup, a drained pool, cancelled calls end |
| stream_session | `StreamSession`, `MCStreamSession.cfg` | agreement of outcomes, completeness, idle cut, termination under fairness |
| stream_session_phase | `StreamSession`, `MCStreamSessionPhase.cfg` | violation: the finding below |
| upstream_open | `UpstreamOpen`, `MCUpstreamOpen.cfg` | one request with up to three opens: nothing is left behind, cancellation is final, request and shutdown end |
| quota_files | `MCQuotaGuard`, `MCQuotaFiles.cfg` | one credential with key rotation, toggling, deletion, one outside write and one IO fault; two siblings with two calls in flight: pauses, accounts, the operator's choice and deletions survive |
| quota_repair | `MCQuotaGuard`, `MCQuotaRepair.cfg` | one credential, IO fault, outside write and restart under fairness: divergence is flagged and repaired |
| usage | `MCUsageFlight`, `MCUsageFlight.cfg` | two credentials, one management call, one sampler worker, one slot, under fairness: flights and slots accounted for, limits in their account, applied before read, everything ends |
| statistics | `MCStatistics`, `MCStatistics.cfg` | an instance and its replacement, one IO fault, one kill, one reset, with and without an upgrade, under fairness: counted once, kept, bounded by a reset, averages meet the cutoff, dirty days drain |
| credential_files | `MCCredentialFiles`, `MCCredentialFiles.cfg` | a rotation of two files beside editor, IO fault, watcher, rule update, stop and kill, under fairness: edits survive, identities are backed up, answers are true, it ends |

The safety and the action properties that belong together are one conjunction with
named parts, so that each run asks few questions. Deadlock is checked in
quota_repair and usage. Elsewhere a system that stops is right: requests are used
once, the clock and the counters are bounded, a deleted credential stays away.

### Bounds

- RateLimiter: two keys suffice for the cross-key expiry; four requests give an
  old call, a probe, a later limit and a newcomer. `MaxTime = 3` with
  `IdleExpiry = ProbePause = 1` lets a window open, expire, be dropped and be
  created again. Requests are symmetric.
- RequestLogStore: one mergeable window and plain rows, retention 1 and 2,
  compaction after 1 or 2 events (1024 in the code). Three changes reach: append,
  merge, failed flush, snapshot, truncation and an append behind it. Two
  failures hit a journal write and the following snapshot.
- EgressPool: three worlds, each with one edit, so that its combination is small
  but every hazard has one: *Narrow* to *Off* (one proxy for everybody, a caller
  pinned to an unlisted proxy, and the pool is turned off), *Shared* to *Moved*
  (a pin to a proxy that gets disabled while the other moves to its group), *Wide*
  to *Lowered* (a rate lowered below what has been spent). Shutdown and cancellation
  come at any step of each.
- StreamSession: deadline 3, budget 1, a prelude of one held frame, two frames:
  the budget can run out before the deadline, after an emit that took time, and
  a held frame can be followed by the start or the end of a completion. The
  safety properties are proved for every deadline, budget and length.
- UpstreamOpen: requests share only the sets that `plugin.shutdown` copies, and
  no action of one request reads another's part of them, so one request with all
  its attempts meets everything; the pool is switched once. The deadline is a
  flag per request that may be raised at any step.

- QuotaGuard: an old request or check, an exhaustion and a newer check need two
  calls and two ticks; a reset that outlasts the next check needs a third. World
  *Disturbed* has one outside write, one IO fault and one operator change, which
  meet every step of a file operation of one credential; *Edited* and *Failing* trade
  the fault, or the write, for a second tick; files of two credentials
  meet only in a group, which world *Siblings* has. *Restarting* adds a restart.
- UsageFlight: a flight, a waiter on it and a competitor for the only slot need one
  user and one worker that goes on to its next target. Three budgets: the key of
  one credential is replaced by another account's; one is deleted and put back;
  the service is quiesced and revived. Clock to 1, which ends a failure's TTL and a
  block.
- Statistics: two old requests on two days, one below the cutoff, and two new ones:
  enough for a dirty day, a reset between two requests and a late flush of the
  quiesced instance. The files start absent or as an older version left them.
- CredentialFiles: worlds *Quiet* (the rotation and the watcher alone, where it must
  succeed), *Disturbed* (an edit, an IO fault, a stop), *Ruled* (a rule update and a
  sync beside edit, fault and rotation, one file) and *Killed*. Two files are
  needed for a rollback of one after the failure of the other.

### Fairness

- `RequestLogStore!LogFairSpec`: the steps of a flush and a due timer are weakly
  fair (the holder of `Service.mu` runs on, `AfterFunc` fires). Failures are
  bounded by `MaxFaults`, which is what "the storage recovers" means. Requests,
  kills and stops are not fair.
- `EgressPool!FairSpec`: goroutines proceed, timers fire, a cancelled transport
  call returns. Arrivals, edits, answers of an upstream and the shutdown are not
  fair. Nothing is assumed about who gets free capacity: the code promises none.
- `StreamSession!FairSpec`: both goroutines proceed and the clock advances; a
  read returns after its stream is closed and a host emit returns after the
  output is closed. A client that never reads and an upstream that never sends
  are allowed.

- `UpstreamOpen!FairSpec`: the goroutines go on, deadlines pass, a request of the
  pool whose context has ended fails, a cut stream ends its read. The host's
  `do_stream` is not fair: `RequestsEnd` holds for a host that never answers, and
  `ShutdownEnds` has its answering as an explicit premise.
- `UsageFlight!FairSpec`: a call goes on and a read ends (weak, which
  `UpstreamOpen!RequestsEnd` justifies); waiting senders of a channel are served in
  turn and a select with two ready cases takes each some time (strong for
  `TakeSlot` and `SamplerStops`); the sampler hands out and closes its round.
  Nothing is assumed of the timers, arrivals and the operator.
- `Statistics!FairSpec`: the steps of a flush go on and a due timer fires.
- `CredentialFiles!FairSpec`: work under a lock goes on, a mutex does not starve a
  waiter, the watcher reports every changed file and the host registers what it
  parsed. Editors, faults, the stop, the kill and the operator are not fair.
- `QuotaGuard!FairSpec`: work under a lock goes on (weak); a mutex does not
  starve a waiter, the sampler reconciles every 15 seconds and the watcher
  reports a changed file (strong, because the locks are taken again and again).
  Calls, outside writes and the operator are not fair.

## Findings

- *log_overwrite*: `observability.go:168` says "All writers share s.mu: an older
  snapshot can never overwrite a newer one." An instance that was quiesced while
  its storage failed keeps the owed snapshot. When the host shuts it down later,
  it flushes again and renames its older snapshot over the files of its
  replacement, which has another `Service.mu`.
- *stream_session_phase*: the watchdog reads the phase for `host.stream.close`
  from `output.started`, which the consumer sets only after the host's callback
  has returned (`executor.go:619-623`). A deadline between the two closes the
  stream as `before_output` although a frame was acknowledged, and the log entry
  says `after_output`; `stream_output_lifecycle_test.go:83-98` expects both equal.

## Proofs

`LimitsAndLogProofs` holds the theorems about the two components that meet in a
local 429, which the limiter makes and the log merges. It proves for all constants that
satisfy `RateLimiterAssumption` (any sets, any pauses, no finiteness):

| theorem | statement |
| --- | --- |
| `TypeCorrect` | `Spec => []TypeOK` |
| `WindowsTrackProbes` | `Spec => []IInv` |
| `ProbeSlotsMatch` | `Spec => []SlotMatchesProbe` |
| `ProbesRunAlone` | `Spec => ProbeIsAlone` |
| `ClosedKeysAdmitNobody` | `Spec => ClosedKeyAdmitsNobody` |
| `LimitsHold` | `Spec => LimitsAreRespected`, the three above together |
| `FreeAdmissionNeedsEvidence` | `Spec => UnrestrictedNeedsEvidence` |

None of the four properties is inductive. `SlotMatchesProbe` says nothing of a
window that was dropped and created again, where an old lease would meet a new
window: `IdsAreOld` (ids are never reused) and `SlotTracksWindow` (a held slot
names the window it is on) exclude it. That a success reopens a key rightly
needs the link between epochs and reported limits: `SlotTracksWindow` also says
that a window moved exactly as many epochs as limits were reported since the
admission. `ClosureIsKept` relates the history of a key to its window: a key
without a window has no closure in force, or one older than the idle expiry.
`IInv` is the conjunction; the proof goes action by action, with lemmas on
`Kept` and `Finished`, the operators several actions share. The action
properties then follow from one step under `IInv`.

and, of the log, for all constants that satisfy `RequestLogStoreAssumption` (any rows,
retentions and older logs, any limits of the journal that are not zero; failures, kills
and changes without bound), where `Alone` says that one plugin instance writes the files:

| theorem | statement |
| --- | --- |
| `LogTypes` | `Alone /\ LogSpec => []LogTypeOK` |
| `RestartReads` | `Alone /\ LogSpec => []RestartReadsLog` |
| `AcknowledgedDurable` | `Alone /\ LogSpec => []AcknowledgedIsDurable` |
| `WindowsTakeOneRow` | `Alone /\ LogSpec => []OneRowPerWindow` |
| `LogIsDurable` | `Alone /\ LogSpec => Durable`, the refinement of `DurableLog` |
| `SnapshotsAdvance` | `Alone /\ LogSpec => SnapshotsMoveForward` |

`Alone` is needed, not convenient: with two loaded instances `SnapshotsMoveForward` is
false, which is what log_overwrite finds, so the theorem says exactly when the comment in
`observability.go:168` is true. `log_store` checks the other properties for one instance too.

The invariant is `LogInv`, and every part of it is there because another is not inductive
without it. `Files` says that what the files hold is `saved`, also below a directory entry
that a loss of power brings back. It survives the append of an event only if the event is the
next one and finds its merge target (`Fresh`), which is what `Following` says of the pending
event: applied to the rows on disk it gives the rows in memory, and the journal ends where the
instance believes it does (`journalBytes`), so a failed append is cut off and nothing else is.
While a snapshot is owed all of this is suspended; then nothing is pending, and `Versions`
alone connects memory and disk: the sequence in memory is ahead of the disk by exactly the
unsaved versions, so a snapshot catches up with all of them. `Flushing` says what holds at each
step of a flush, in particular that the directory was synced before the journal is cut.
`OneRows` is what makes the compaction at a start change nothing (`CompactRows`), and without
it the rows shown after a restart would not be the saved ones.

`Load` and `Compact` are recursive functions over a sequence of any length. What they compute
is proved by least elements: a property of `0..n` that fails has a least number at which
it fails (`Least`, from `WellFoundedInduction`), and `UpTo` is induction on a set of
numbers that follows from it. `LoadAppend` (one more line is one more `Replay`), `LoadOrdered`
(the lines of a journal that loads ascend, it loads to the newer of the snapshot and its last
line, and every prefix of it loads as well) and `LoadKnown` (behind a snapshot as new as
every line the journal changes nothing) are the three facts the steps need.

For the refinement, `ShownIs` says that under `LogInv` a reader sees the last of the unsaved
versions, or the saved one if there is none. Every step then maps by what it does to `saved`
and `unsaved`: accepting, saving, reopening, reopening trimmed, or nothing.

`StreamSessionProofs` proves for all constants that satisfy
`StreamSessionAssumption` (streams, clocks and budgets without bound):

| theorem | statement |
| --- | --- |
| `TypeCorrect` | `Spec => []TypeOK` |
| `BothSidesQuiet` | `Spec => []QuietAfterEnd` |
| `OutcomesAlwaysAgree` | `Spec => []OutcomesAgree` |
| `ErrorsFollowNoOutput` | `Spec => []ErrorReturnMeansNoOutput` |
| `SuccessesAreComplete` | `Spec => []SuccessIsComplete` |
| `ReportsAlwaysMatch` | `Spec => []ReportsMatchOutput`, the two above together |
| `IdleCutsAreJustified` | `Spec => IdleCutIsJustified` |

`QuietAfterEnd` is inductive given the types, and everything else builds on it.
`OnceHeld` says that the once is taken exactly while one of the two is inside
it, and needs it: two closers at once are excluded because the consumer closes
only after it has joined the watchdog. `Reported` and `Answered` carry the cause
from there to the receipts and the RPC. For `SuccessIsComplete`, `Delivered`
says that a frame begun and not accepted leaves a failure in hand, and
`CutHasCause` that a close the consumer joins cannot turn that failure into a
success. For the idle cutoff, `Silence` is the arithmetic of `lastOutput`: it
lags the clock by exactly the upstream's silence, and stands still during an
emit, which `EndEmit` adds afterwards. `Bounds` (an emit starts in the past)
keeps that sum a natural number.

`StatisticsProofs` proves for all constants that satisfy `StatisticsAssumption` (any
number of instances, days and requests, faults, kills and resets without bound;
instances are finitely many, since a fresh generation must exist):

| theorem | statement |
| --- | --- |
| `TypeCorrect` | `Spec => []TypeOK` |
| `RatesAlwaysMeetCutoff` | `Spec => []RatesMeetCutoff` |
| `CountsAreOnce` | `Spec => []CountedOnce` |
| `ResetsAreBoundaries` | `Spec => []ResetIsABoundary` |
| `DiskKeepsWhatItWasGiven` | `Spec => []DiskKeepsItsPromise` |

The invariants build on one another. `Control` says who works: the instance
registered last, and any other is at most in its final flush. `Agreement` says over what: a bootstrap only
while there is no metadata, a migration only while it lacks the cutoff, and
instances of one generation agree on its beginning. `RatesMigrate` adds which days a
migration has yet to write. `CountsAgree` is the argument for counting once: whatever
two copies of a generation, in two memories or on disk, count of a request, they
count on the same day (`Together`), once (`OnceEach`); a copy written late can then
lose counts but never double them. `Boundary` keeps requests of before a reset out
of every copy of the new generation. `Disk` relates the owner's days to the files:
clean days are equal to them, the promised are counted, and a bootstrap that is under
way still owes the rest.

`EgressPoolProofs` proves for all constants that satisfy `EgressPoolAssumption` and
`ConfigsAssumption` (any finite set of callers, any groups, limits, edits and clocks):

| theorem | statement |
| --- | --- |
| `LeasesAreCounted` | `Spec => []InflightIsLeases` |
| `ShutdownDrains` | `Spec => []DrainedAfterShutdown` |
| `SleepersWait` | `Spec => []SleepersCannotProceed` |
| `AdmissionsWithinLimits` | `GatewaysApart` implies `Spec => AdmissionRespectsGroup` |
| `PoolTypes` | `Spec => []TypeOK` |

`Consistent` ties the step of a call to its operation and its lease: a lease is held
from admission to the first close, and an offered stream is the one step that may
have lost it already, to the shutdown. With it every release finds its lease held, so
`Counted` loses and doubles none. `Streams` says that the pool knows exactly the streams
that are open, `Stopping` that what the shutdown found, and has not closed yet, covers
what there still is; the checks of `closed` in `Offer` and of `stopped` in `Publish` are
what keeps a late stream from escaping both. One lemma (`PrivateInv`) serves the
twelve steps that touch nothing shared, one (`CloseInv`) the eight that close.

The other three rest on `JInv`, which adds what the pool remembers. `Ordered` says that a
group's times ascend and are past; that is what makes `pruneEgressUsage`, which only cuts
a prefix, remove exactly what has left the window. `Fits` says that every request that
counts, that is a lease granted in the last minute whose request was sent or may still be,
has a time of its own in its group: so the group's times can only overcount, and the number
of requests is below the limit whenever the number of times is (`FitsCount`). A refund
takes one time out, which may be that of another request of the same second; `FitsWithout`
hands the places round. `Sleepers` is why no wakeup is lost: `Stuck(r, t)` says that a
group has no room before `t` by the clock alone, and the sleeper's `wake` was chosen so
that this holds of all its candidates. `SeenKeeps`, `TailIsKept` and `TailAppended` show
that other callers' looks, prunings and admissions keep it; every step that could break
it (a release, a cooldown, an edit, the close of the pool) tells all sleepers (`Told`).
`Sleepers` is stated of the stored groups, not of `CanAdmit`, because `CanAdmit` looks at
a pruned copy and depends on the clock.

`Enforced` adds that a group in the map has the limits now in force. Here `GatewaysApart`
is needed: no configuration names a group as `candidatesLocked` names the one of an
unlisted proxy, `credential-proxy-` and 16 hexadecimal digits. The code does not refuse
such a name, and an operator who uses it gets whichever limits come first: a group that a
pinned call creates has 60 and 4 until the next edit, whatever the configuration says. The
hypothesis is about configurations only; `MCEgressPool` assumes it of its own.

`QuotaGuardProofs` proves for all constants that satisfy `QuotaAssumption` (any
credentials, keys, accounts and windows, any number of calls, outside writes, faults,
restarts and saves):

| theorem | statement |
| --- | --- |
| `BlocksStay` | `Spec => []BlockStaysInItsAccount` |
| `ChoiceIsKept` | `Spec => []ManualChoiceKept` |
| `DeletedStays` | `Spec => DeletedStaysDeleted` |
| `PauseHolds` | `Spec => []ExhaustedStaysPaused` |
| `DivergenceFlagged` | `Spec => []DivergenceIsFlagged` |
| `QuotaTypes` | `Spec => []TypeOK` |

A credential exists in up to seven copies: in memory, in the file, with the host, in a
late callback, and in the hands of whoever holds one of the two locks. `Copies` and
`Locks` say of all of them at once that a block they carry was earned by the account of
the block's key (`Earned`), which `Normalizing` turns into the property for a block in
force, and `Merging` and `Grouping` preserve: a group joins only credentials whose
verified account is that of its source. For the choice, `Chosen` says that a file which
memory disagrees with is still to be reported or is being read, and what the watcher
holds then is what the file says; `Told` and the last part of `GoodFile` keep the choice
through a write that rests on an older read. `Deleted` says that a file somebody works on
is there, so the compared write never recreates one. One lemma (`MemoryInv`) serves the
steps that leave the files alone, one (`WriteInv`) the five that write them.

That an exhausted credential stays paused (`PauseHolds`) is the longest argument of the
project, because a block is replaced by merging, by a late callback, by an older file and
by a check that found room. Beside the types (`TInv`), which now hold of every copy, it
rests on three facts (`PInv`). `OwedIsRecorded`: an exhaustion that is owed is recorded
(`Records`) by the block in force, and by every copy of the credential under the same
revision, wherever it is held; a copy under an older revision may know less, but the
plugin prefers its memory to it, and after a restart the file is what counts.
`NewsIsCarried`: between observation and publication the holder of `credentialMu` has the
exhaustion in hand. `SaveKeeps`: an operator's save rests on the copy in memory, so the
quota state it writes back is the one in force. A revision that is drawn is on no copy
(`FreshIs`), which makes "the same revision" mean "the same quota state"; that latest element and
fresh revision exist because times are bounded and copies finitely many, both by
induction on the least element of a set of numbers. `RoomIsEvidence` is the link between
the code's test for dropping a block and the property's `Evidence`: a check that suffices
for the one is evidence against every exhaustion the block records.

`DivergenceFlagged` adds to both invariants what relates a block in memory to the block
in the file (`FInv`): `Recorded`, that they agree unless a write of this credential is in
the hands of the lock's holder (`InWork`) or has failed, or an outside write changed the
file's; `Reads`, that a callback holds the block the file still has; `Reported`, that a
changed key is yet to be reported; and that the write that has opened a file is still the
credential's newest when it ends, so neither its failure nor its success is credited to
another. The agreement holds before the watcher has been there as well, which is more
than the property says and what the induction needs.

`UpstreamOpenProofs` proves for any number of requests and edits, assuming only
that a request is not an attempt:

| theorem | statement |
| --- | --- |
| `TypeCorrect` | `Spec => []TypeOK` |
| `NothingStaysBehind` | `Spec => []NothingLeftBehind` |
| `CancelsAreFinal` | `Spec => CancelIsFinal` |

Its invariant is `TypeOK`, `InOrder(r)` for each request and `Joined` for the
shutdown. `InOrder` has four parts: `Budget` (no more opens than
turns and a fallback explain), `Accounted` (who answers for what an attempt holds: the caller, its
goroutine, the registry or the closer), `Opening` (an attempt under way is a child of
its turn's logical operation) and `Spanned` (a logical operation in use belongs to a
request that runs or to a stream that keeps it). A step changes one request only,
which the lemmas on `Same` and `Apart` establish once for all actions. `Joined` says
that the stop is set exactly when the shutdown has begun, and that it is done only
after the last active request.

`UsageFlightProofs` proves for any credentials, keys, clocks and changes, and for any
finite set of calls:

| theorem | statement |
| --- | --- |
| `TypeCorrect` | `Spec => []TypeOK` |
| `NoFlightIsLost` | `Spec => []FlightsAccounted` |
| `AppliedBeforeRead` | `Spec => ReadersSeeAppliedState` |
| `ValuesStay` | `Spec => []ValuesStayInTheirAccount` |

`Typed` adds to the types what each step of a call implies of its fields. `Flights` is
the heart: an entry flies exactly while one call works on it, tags are not shared, a
waiter has somebody to wait for. That a new entry's tag is fresh is a pigeonhole
argument (`FreshTags`), the reason for the finiteness. `Counted` relates the slots
in use to the cardinality of the calls that read. `Applied` says that a value not
yet applied is in a live flight that is about to apply it, so nobody can read it.

`CredentialFilesProofs` proves for all constants that satisfy
`CredentialFilesAssumption` (any files and rule lists, any number of rotations, edits,
faults, stops, kills and updates; the absence of a file is not a file, identities are
pairwise distinct):

| theorem | statement |
| --- | --- |
| `TypeCorrect` | `Spec => []TypeOK` |
| `ForeignEditsSurvive` | `Spec => EditsSurvive` |
| `CopiesAreKept` | `Spec => []IdentitiesBackedUp` |
| `SyncedMeansOnFile` | `Spec => []SyncedRulesOnFile` |
| `AnswersAreTrue` | `Spec => []RotationAnswersAreTrue` |

`Guarding` says who may hold the two locks, and `Locking` that what the holder of
`authFileMu` is about to write differs from what it has seen of the file in nothing
the plugin does not own: edits survive by that alone. `Fresher` keeps the fresh
identity off every file, copy and half-finished write until the second phase, and
`Copied` has the copies complete before the first, hence `IdentitiesBackedUp`, which
is inductive beside them. `Checks` relates `synced` to the files through the
intermediate states of a rule update and a callback; a file they disagree about is
one the watcher has yet to report. For the answers, `Agreeing` says that a callback
cannot carry an identity other than that of its file while nobody else writes it,
`Keeping` that a file no phase has written, or the rollback has, is as the rotation
found it, and `Answering` that once the host has the fresh identity no callback
brings back another: this is what the two phases and the host's one callback per file
buy, and where the proof would break if `Confirmed` asked for less.

## Only model-checked

- All liveness (`StorageRecovers`, `CancelledCallsEnd`, `SessionEnds`,
  `WriteErrorsDrain`, `RequestsEnd`, `ShutdownEnds`, `EverythingEnds`,
  `DirtyDaysDrain`, `RotationEnds`): fairness and ENABLED are out of the prover's
  reach.
- `RequestLogStore` with two instances, and after a hand-over: the theorems are about one.
  What goes wrong there is the finding of log_overwrite.
- `UsageFlight!ValuesStayInTheirAccount` for credentials that get a key a second time is
  neither checked nor proved: it does not hold there, see the module.
- `QuotaGuard!DivergenceHeals` beyond its safety half (`DivergenceFlagged`): that what is
  flagged is repaired is a matter of fairness.

## Not modelled

`PROJECT.json` gives the reason for each component. In modelled components:
`Clear` events of the journal (nothing queues one), loads that fail (registration
is refused and nothing changes), callback bindings to parent contexts (`Cancel`
stands for any cause), HTTP connection reuse, answers outside 2xx and panic
recovery in a streamed request, byte framing of SSE, texts of messages, the
import of a new credential, a plan answer without a plan, the rewriting of the
rule list while a file is parsed.
A restart that appends behind a snapshot whose rename was never synced and then
loses power is excepted from `PowerLossLoads`, a conjunct of `RestartReadsLog`; it
is listed as a hazard.

Components without a module: the cost ledger and price schedule of `estimate.go`
(money and floating point, computed under one lock from one request), model mapping
and provider routing (rewriting of a request's JSON by configuration), the error
classifiers (pattern matching over free text; the classes they end in are the inputs
of `RateLimiter`), byte framing of SSE (its completion state is in `StreamSession`),
the network log, the management pages and the configuration types. They share no
state between requests, or are data.

## What is left

1. `UsageFlight` composed with `QuotaGuard`: at present a check is one application
   here and one observation there, joined by `ReadersSeeAppliedState`.
2. The import of a new credential and saving through `host.auth.save` while no file
   is known; the cost ledger's calibration, if it gets state of its own.
