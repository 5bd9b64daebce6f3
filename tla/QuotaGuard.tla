---------------------------- MODULE QuotaGuard ----------------------------
(***************************************************************************)
(* The automatic quota pause: a credential whose account ran out of quota  *)
(* is blocked in memory and in its auth file until a usage check finds     *)
(* room again, while the operator's own enabled/disabled choice is kept    *)
(* apart (internal/bridge/quota.go, with the credential writers and the    *)
(* watcher's parseAuth it shares the files with).                          *)
(*                                                                         *)
(* Three locks order the work: credentialMu (variable guard: the operation *)
(* that holds it and what it has captured), authFileMu (variable file) and *)
(* the short Service.mu, one section of which is one step here.  An auth   *)
(* file is also written by the host and by people, at any time and under   *)
(* no lock of the plugin.                                                  *)
(*                                                                         *)
(* Data: an API key stands for its hash, an account for its hash, a time   *)
(* is a tick of clock (0: not given), a revision is a number (0: none) of  *)
(* which id() draws one nobody holds.  BlockedAt, Source and RetryAt of a  *)
(* block, labels, priorities, proxies and rules play no part.              *)
(***************************************************************************)
EXTENDS Naturals, FiniteSets, TLC

CONSTANTS
    Creds, Keys, Accounts,
    AccountOf,        \* the account each key belongs to, known to the upstream only
    FirstKey,         \* the key each credential starts with
    Windows,          \* quota windows the usage API reports (weekly, five_hour ...)
    ErrorTypes,       \* what an upstream quota error names: a window, or "quota" for none
    MaxTime,          \* bound of the clock
    Budgets,          \* bounds: the worlds a behaviour may run in, see below
    NoKey, NoBlock, Absent

Types == Windows \cup {"quota"}
Times == 0..MaxTime
Seen == {"room", "full", "unreadable", "missing"}

(* A world: which credentials exist and which of their files carry a verified
   identity, the keys an operator or an editor may write, what a usage check
   may find, the reset times an exhaustion may carry, the last tick, and how
   many calls may be in flight, and outside writes, IO faults, restarts and
   operator saves may happen. *)
Answers == [seen : [Windows -> Seen], plan : BOOLEAN]
Worlds ==
    [creds : SUBSET Creds, known : SUBSET Creds, keys : SUBSET Keys,
     answers : SUBSET Answers, resets : SUBSET Times, time : Times,
     calls : Nat, edits : Nat, faults : Nat, crashes : Nat, saves : Nat]

(* A block and a credential. *)
Limits == UNION {[S -> Times] : S \in (SUBSET Types) \ {{}}}
Blocks ==
    [key : Keys, manual : BOOLEAN, observed : Times, limits : Limits,
     accounts : SUBSET Accounts]
Credentials ==
    [key : Keys, disabled : BOOLEAN, block : Blocks \cup {NoBlock},
     ident : Keys \cup {NoKey}, rev : Nat]

ASSUME QuotaAssumption ==
    /\ Creds # {} /\ NoKey \notin Keys
    /\ NoBlock \notin Blocks /\ Absent \notin Credentials
    /\ AccountOf \in [Keys -> Accounts] /\ FirstKey \in [Creds -> Keys]
    /\ "quota" \notin Windows /\ ErrorTypes \subseteq Types /\ MaxTime \in Nat \ {0}
    /\ Budgets \subseteq Worlds /\ \A b \in Budgets : b.known \subseteq b.creds

VARIABLES
    mem,       \* s.creds: the credential as the plugin knows it
    disk,      \* its auth file
    revoked,   \* s.revoked: deleted through the plugin
    writeErr,  \* s.quotaWriteErrors: quota state not yet saved
    cache,     \* s.usageCache: the key whose account the last plan answer verified
    guard,     \* credentialMu: the operation that holds it
    file,      \* authFileMu: the file operation that holds it
    calls,     \* upstream calls in flight, each with the key it was sent with
    queued,    \* files whose change the host's watcher has yet to report
    host,      \* the auth data the host got from its last parse and may save
    gone,      \* the last content of a deleted file (a late callback carries it)
    clock,
    budget,    \* the world, and what may still happen in it
    owed,      \* history: the last exhaustion no later check has cleared
    news,      \* history: the exhaustion the holder of guard is about to publish
    choice,    \* history: the operator's last accepted enabled/disabled choice
    foreign    \* history: files an outside write left with other quota state

outside == <<host, gone, budget>>
history == <<owed, news, choice, foreign>>
vars == <<mem, disk, revoked, writeErr, cache, guard, file, calls, queued,
          host, gone, clock, budget, owed, news, choice, foreign>>

IdleGuard == [op |-> "idle", next |-> <<>>, base |-> Absent]
FreeFile == [by |-> "free", cred |-> Absent, orig |-> Absent, next |-> Absent,
             checked |-> FALSE]
Present(c) == mem[c] # Absent

-----------------------------------------------------------------------------
(* Pure parts of quota.go and credential_json.go. *)

Latest(S) == CHOOSE t \in S : \A u \in S : u <= t

(* What an auth file says the operator chose: the snapshot inside the block
   wins over the top-level flag, which the host overwrites. *)
Manual(d) == IF d.block # NoBlock THEN d.block.manual ELSE d.disabled

(* Quota state recorded for another key is dropped. *)
Normalize(r) ==
    [r EXCEPT !.ident = IF @ = r.key THEN @ ELSE NoKey,
              !.block = IF @ = NoBlock \/ @.key # r.key THEN NoBlock
                        ELSE [@ EXCEPT !.manual = r.disabled]]

Parsed(d) == Normalize([d EXCEPT !.disabled = Manual(d)])

(* The part of a block that says what ran out and when that was seen;
   accounts is history: whose exhaustion it records. *)
Core(b) == [observed |-> b.observed, limits |-> b.limits, accounts |-> b.accounts]
Cores(r) == IF r.block = NoBlock THEN {} ELSE {Core(r.block)}

MergeBlocks(r, cores) ==
    IF cores = {} THEN NoBlock
    ELSE [key |-> r.key, manual |-> r.disabled,
          observed |-> Latest({b.observed : b \in cores}),
          limits |-> [t \in UNION {DOMAIN b.limits : b \in cores} |->
                        Latest({b.limits[t] : b \in {x \in cores : t \in DOMAIN x.limits}})],
          accounts |-> UNION {b.accounts : b \in cores}]

(* A check clears a block when it started after everything the block records,
   read every reported window below its limit and covered each blocked one. *)
HasRoom(block, a, started) ==
    /\ a.plan /\ started > block.observed
    /\ \A w \in Windows : a.seen[w] \in {"room", "missing"}
    /\ \A t \in DOMAIN block.limits :
          /\ started >= block.limits[t]
          /\ IF t = "quota" THEN \E w \in Windows : a.seen[w] = "room"
                            ELSE a.seen[t] = "room"

QuotaStateEqual(r, s) == r.block = s.block /\ r.ident = s.ident

(* The verified account of a credential's key, or none. *)
AccountHash(c, r) == LET k == Normalize(r).ident
                     IN IF k # NoKey THEN {AccountOf[k]}
                        ELSE IF cache[c] = r.key THEN {AccountOf[r.key]} ELSE {}

(* The source and the siblings verified to share its account, each with the
   identity filled in. *)
QuotaGroup(c, account) ==
    LET members == {d \in Creds \ revoked : /\ Present(d)
                       /\ \/ d = c
                          \/ account # {} /\ AccountHash(d, mem[d]) = account}
    IN [d \in members |-> LET r == Normalize(mem[d]) IN
                          IF account = {} THEN r ELSE [r EXCEPT !.ident = r.key]]

(* id(): a revision that no copy of this credential carries. *)
FreshRevision(c) ==
    LET copies == {r \in {mem[c], disk[c], host[c], gone[c], file.orig, file.next} : r # Absent}
                  \cup (IF c \in DOMAIN guard.next THEN {guard.next[c]} ELSE {})
        held == {r.rev : r \in copies}
    IN CHOOSE n \in 1..(Cardinality(held) + 1) :
          /\ n \notin held
          /\ \A m \in 1..(n - 1) : m \in held

(* affinityFile: the file still is the credential the plugin knows. *)
Matches(d, r) == d # Absent /\ d.key = r.key /\ Manual(d) = r.disabled

-----------------------------------------------------------------------------
Fresh(c, r) == IF owed[c] = Absent \/ owed[c].key # r.key THEN Absent ELSE owed[c]

Init ==
    /\ budget \in Budgets
    /\ disk = [c \in Creds |-> IF c \notin budget.creds THEN Absent
               ELSE [key |-> FirstKey[c], disabled |-> FALSE, block |-> NoBlock,
                     ident |-> IF c \in budget.known THEN FirstKey[c] ELSE NoKey,
                     rev |-> 0]]
    /\ mem = disk
    /\ revoked = {} /\ writeErr = {} /\ queued = {} /\ calls = {} /\ foreign = {}
    /\ cache = [c \in Creds |-> NoKey]
    /\ guard = IdleGuard /\ file = FreeFile
    /\ host = [c \in Creds |-> Absent] /\ gone = host /\ owed = host /\ news = host
    /\ choice = [c \in Creds |-> FALSE]
    /\ clock = 1

-----------------------------------------------------------------------------
(* Upstream calls. A request or a usage check keeps the key it started with. *)

(* selectedCredential admits a credential neither disabled, removed nor blocked. *)
Selectable(c) == /\ Present(c) /\ c \notin revoked
                 /\ ~mem[c].disabled /\ Normalize(mem[c]).block = NoBlock

Call(kind, c) == [kind |-> kind, cred |-> c, key |-> mem[c].key, started |-> clock,
                  answer |-> Absent, at |-> 0, reset |-> 0]

StartRequest(c) ==
    /\ Selectable(c) /\ Cardinality(calls) < budget.calls
    /\ calls' = calls \cup {[Call("request", c) EXCEPT !.started = 0]}
    /\ UNCHANGED <<mem, disk, revoked, writeErr, cache, guard, file, queued, clock>>
    /\ UNCHANGED outside /\ UNCHANGED history

(* credentialUsage: one check at a time for a credential's key, blocked or not. *)
StartUsage(c) ==
    /\ Present(c) /\ c \notin revoked /\ Cardinality(calls) < budget.calls
    /\ ~\E u \in calls : u.kind = "usage" /\ u.cred = c /\ u.key = mem[c].key
    /\ calls' = calls \cup {Call("usage", c)}
    /\ UNCHANGED <<mem, disk, revoked, writeErr, cache, guard, file, queued, clock>>
    /\ UNCHANGED outside /\ UNCHANGED history

(* (A faulty variant, for BlockStaysInItsAccount: the key of a late answer is not compared.) *)
CurrentById(u) == Present(u.cred) /\ u.cred \notin revoked

(* The credential still has the key the call was sent with. *)
Current(u) == Present(u.cred) /\ u.cred \notin revoked /\ mem[u.cred].key = u.key

(* The usage and plan answers arrive; a plan answer verifies the account of
   the key that asked, if the credential still has that key. *)
UsageAnswer(u) ==
    /\ u.kind = "usage" /\ u.answer = Absent
    /\ \E a \in budget.answers, reset \in budget.resets :
         calls' = (calls \ {u}) \cup {[u EXCEPT !.answer = a, !.at = clock, !.reset = reset]}
         /\ cache' = IF a.plan /\ Current(u)
                     THEN [cache EXCEPT ![u.cred] = u.key] ELSE cache
    /\ UNCHANGED <<mem, disk, revoked, writeErr, guard, file, queued, clock>>
    /\ UNCHANGED outside /\ UNCHANGED history

(* A call that ends with nothing to say about quota. *)
CallEnds(u) ==
    /\ calls' = calls \ {u}
    /\ UNCHANGED <<mem, disk, revoked, writeErr, cache, guard, file, queued, clock>>
    /\ UNCHANGED outside /\ UNCHANGED history

(* History. Whom an exhaustion of c's account concerns: c, and every other
   credential whose verified account is the same. *)
Verified(c) == mem[c].key \in {mem[c].ident, cache[c]}
Concerned(c) ==
    {d \in Creds \ revoked : /\ Present(d)
        /\ \/ d = c
           \/ Verified(c) /\ Verified(d) /\ AccountOf[mem[d].key] = AccountOf[mem[c].key]}
Exhausting(c, e) ==
    [d \in Creds |-> IF d \notin Concerned(c) THEN Absent
                     ELSE [key |-> mem[d].key, observed |-> e.observed, limits |-> e.limits]]

(* Block b says everything that exhaustion o says. *)
Records(b, o) ==
    /\ b # NoBlock /\ b.key = o.key /\ o.observed <= b.observed
    /\ \A t \in DOMAIN o.limits : t \in DOMAIN b.limits /\ o.limits[t] <= b.limits[t]

(* From its publication on c owes the new exhaustion, unless its key has
   changed since, a later one is owed, or the block in force says it already. *)
Owing(c) ==
    IF \/ news[c] = Absent \/ ~Present(c) \/ mem[c].key # news[c].key
       \/ owed[c] # Absent /\ owed[c].observed > news[c].observed
       \/ Records(mem[c].block, news[c])
    THEN owed[c] ELSE news[c]

(* A later check is evidence of room if it began after the exhaustion was
   seen and its windows had been reset, and read the exhausted windows (any
   window, when the error named none) and no other as exhausted. *)
Evidence(u, o) ==
    LET roomy == {w \in Windows : u.answer.seen[w] = "room"}
        named == DOMAIN o.limits \ {"quota"}
    IN /\ u.answer.plan /\ o.observed < u.started
       /\ named \subseteq roomy /\ roomy # {}
       /\ \A t \in DOMAIN o.limits : o.limits[t] <= u.started
ClearedBy(u) ==
    [c \in Creds |-> IF /\ owed[c] # Absent /\ AccountOf[owed[c].key] = AccountOf[u.key]
                        /\ Evidence(u, owed[c])
                     THEN Absent ELSE owed[c]]

(* observeQuotaError up to saveQuotaGroup: the request's key must still be
   the credential's; every sibling of the account gets the new exhaustion
   merged into its block. *)
ObserveError(u) ==
    /\ u.kind = "request" /\ guard = IdleGuard
    /\ calls' = calls \ {u}
    /\ \/ /\ ~Current(u)
          /\ UNCHANGED <<guard, news>>
       \/ /\ Current(u)
          /\ \E t \in ErrorTypes, reset \in budget.resets :
               LET group == QuotaGroup(u.cred, AccountHash(u.cred, mem[u.cred]))
                   e == [observed |-> clock, limits |-> [x \in {t} |-> reset],
                         accounts |-> {AccountOf[u.key]}]
               IN /\ guard' = [op |-> "publish", base |-> Absent, next |->
                                [c \in DOMAIN group |->
                                 [group[c] EXCEPT !.block = MergeBlocks(group[c], Cores(group[c]) \cup {e})]]]
                  /\ news' = Exhausting(u.cred, e)
    /\ UNCHANGED <<mem, disk, revoked, writeErr, cache, file, queued, clock>>
    /\ UNCHANGED <<owed, choice, foreign>>
    /\ UNCHANGED outside

(* observeQuotaUsage up to saveQuotaGroup: the group's blocks are joined with
   what the check found exhausted, or dropped when it found room. *)
ObserveUsage(u) ==
    /\ u.kind = "usage" /\ u.answer # Absent /\ guard = IdleGuard
    /\ calls' = calls \ {u}
    /\ LET account == IF cache[u.cred] = u.key THEN {AccountOf[u.key]}
                      ELSE AccountHash(u.cred, mem[u.cred])
           group == QuotaGroup(u.cred, account)
           full == {w \in Windows : u.answer.seen[w] = "full"}
           e == IF full = {} THEN {}
                ELSE {[observed |-> u.at, limits |-> [w \in full |-> u.reset],
                       accounts |-> {AccountOf[u.key]}]}
           cores == (UNION {Cores(group[c]) : c \in DOMAIN group}) \cup e
           Next1(c) == LET b == MergeBlocks(group[c], cores)
                       IN IF full = {} /\ b # NoBlock /\ HasRoom(b, u.answer, u.started)
                          THEN NoBlock ELSE b
       IN IF ~Current(u) THEN UNCHANGED <<guard, owed, news>>
          ELSE /\ guard' = [op |-> "publish", base |-> Absent,
                            next |-> [c \in DOMAIN group |-> [group[c] EXCEPT !.block = Next1(c)]]]
               /\ IF full = {} THEN owed' = ClearedBy(u) /\ news' = news
                  ELSE owed' = owed /\ \E x \in e : news' = Exhausting(u.cred, x)
    /\ UNCHANGED <<mem, disk, revoked, writeErr, cache, file, queued, clock, choice, foreign>>
    /\ UNCHANGED outside

-----------------------------------------------------------------------------
(* Saving quota state. The holder of credentialMu works through guard.next. *)

(* saveQuotaGroup: every block is in memory before the first file is touched. *)
SaveQuotaGroup ==
    /\ guard.op = "publish"
    /\ LET kept == {c \in DOMAIN guard.next : Present(c) /\ mem[c].key = guard.next[c].key}
           changed == {c \in kept : ~QuotaStateEqual(mem[c], guard.next[c])}
           writes == changed \cup (kept \cap writeErr)
       IN /\ mem' = [c \in Creds |->
                       IF c \in changed /\ guard.next[c].block # NoBlock
                       THEN [mem[c] EXCEPT !.block = guard.next[c].block,
                                           !.ident = guard.next[c].ident,
                                           !.rev = FreshRevision(c)]
                       ELSE mem[c]]
          /\ guard' = IF writes = {} THEN IdleGuard
                      ELSE [op |-> "write", base |-> Absent,
                            next |-> [c \in writes |-> guard.next[c]]]
    /\ UNCHANGED <<disk, revoked, writeErr, cache, file, calls, queued, clock>>
    /\ owed' = [c \in Creds |-> Owing(c)] /\ news' = [c \in Creds |-> Absent]
    /\ UNCHANGED outside /\ UNCHANGED <<choice, foreign>>

(* (A faulty variant, for DivergenceHeals: a credential the operator disabled is
   left out of the repair.) *)
ReconcileEnabled ==
    /\ guard = IdleGuard
    /\ LET creds == {c \in writeErr : Present(c) /\ ~mem[c].disabled}
       IN /\ creds # {}
          /\ guard' = [op |-> "write", base |-> Absent,
                       next |-> [c \in creds |-> Normalize(mem[c])]]
    /\ UNCHANGED <<mem, disk, revoked, writeErr, cache, file, calls, queued, clock>>
    /\ UNCHANGED outside /\ UNCHANGED history

(* reconcileQuotaScheduling: take up every credential with a write error. *)
Reconcile ==
    /\ guard = IdleGuard
    /\ LET creds == {c \in writeErr : Present(c)}
       IN /\ creds # {}
          /\ guard' = [op |-> "write", base |-> Absent,
                       next |-> [c \in creds |-> Normalize(mem[c])]]
    /\ UNCHANGED <<mem, disk, revoked, writeErr, cache, file, calls, queued, clock>>
    /\ UNCHANGED outside /\ UNCHANGED history

Written(c) == LET rest == DOMAIN guard.next \ {c}
              IN IF rest = {} THEN IdleGuard
                 ELSE [guard EXCEPT !.next = [d \in rest |-> guard.next[d]]]

(* (A faulty variant, for ManualChoiceKept: the operator's choice is the one captured with the group.) *)
NextQuotaCaptured(c) == [Normalize(guard.next[c]) EXCEPT !.rev = FreshRevision(c)]

(* What persistQuotaCredential is about to write for c: the captured quota
   state with the operator's choice of this moment. *)
NextQuota(c) == [Normalize([guard.next[c] EXCEPT !.disabled = mem[c].disabled])
                   EXCEPT !.rev = FreshRevision(c)]

(* An IO call fails. *)
Fault == budget.faults > 0 /\ budget' = [budget EXCEPT !.faults = @ - 1]

(* persistQuotaCredential up to affinityFile. A block is published before the
   file is read; a file that no longer is this credential is an error. *)
PersistOpen(c) ==
    /\ guard.op = "write" /\ c \in DOMAIN guard.next /\ file = FreeFile
    /\ IF ~Present(c) \/ mem[c].key # guard.next[c].key
       THEN /\ guard' = Written(c)
            /\ UNCHANGED <<mem, writeErr, file, budget>>
       ELSE LET next == NextQuota(c)
                taken == IF next.block # NoBlock THEN next ELSE mem[c]
            IN /\ mem' = [mem EXCEPT ![c] = [@ EXCEPT !.rev = next.rev, !.block = taken.block,
                                                     !.ident = taken.ident]]
               /\ \/ /\ Matches(disk[c], mem[c])
                     /\ file' = [by |-> "persist", cred |-> c, orig |-> disk[c],
                                 next |-> next, checked |-> FALSE]
                     /\ UNCHANGED <<guard, writeErr, budget>>
                  \/ /\ \/ ~Matches(disk[c], mem[c]) /\ budget' = budget
                        \/ Fault
                     /\ writeErr' = writeErr \cup {c}
                     /\ guard' = Written(c)
                     /\ file' = file
    /\ UNCHANGED <<disk, revoked, cache, calls, queued, host, gone, clock>>
    /\ UNCHANGED history

(* The file is read again and must be what was read first. *)
Compare ==
    /\ file.by \in {"persist", "save"} /\ ~file.checked
    /\ disk[file.cred] = file.orig
    /\ file' = [file EXCEPT !.checked = TRUE]
    /\ UNCHANGED <<mem, disk, revoked, writeErr, cache, guard, calls, queued, clock>>
    /\ UNCHANGED outside /\ UNCHANGED history

(* Either the second read differs, or an IO call of this file operation fails. *)
FileTrouble ==
    \/ ~file.checked /\ disk[file.cred] # file.orig /\ budget' = budget
    \/ Fault

(* The write under way still is the credential's newest. *)
Newest(c, next) == Present(c) /\ mem[c].key = next.key /\ mem[c].rev = next.rev

(* quotaPersistenceError(next, err). *)
PersistFails ==
    /\ file.by = "persist" /\ FileTrouble
    /\ writeErr' = IF Newest(file.cred, file.next) THEN writeErr \cup {file.cred} ELSE writeErr
    /\ guard' = Written(file.cred) /\ file' = FreeFile
    /\ UNCHANGED <<mem, disk, revoked, cache, calls, queued, host, gone, clock>>
    /\ UNCHANGED history

(* atomicJSON over the file, then the in-memory commit and
   quotaPersistenceError(next, nil). *)
PersistWrite ==
    /\ file.by = "persist" /\ file.checked
    /\ LET c == file.cred
           next == file.next
       IN /\ disk' = [disk EXCEPT ![c] = next]
          /\ IF Newest(c, next)
             THEN /\ mem' = [mem EXCEPT ![c] = [mem[c] EXCEPT !.block = next.block,
                                                              !.ident = next.ident]]
                  /\ writeErr' = writeErr \ {c}
             ELSE UNCHANGED <<mem, writeErr>>
          /\ guard' = Written(c) /\ file' = FreeFile
          /\ queued' = queued \cup {c}
          /\ choice' = [choice EXCEPT ![c] = IF disk[c] = file.orig THEN @ ELSE next.disabled]
          /\ foreign' = foreign \ {c}
    /\ UNCHANGED <<revoked, cache, calls, clock, owed, news>> /\ UNCHANGED outside

-----------------------------------------------------------------------------
(* The operator's changes through the plugin (saveCredential, with what
   updateCredential, schedulingSetCredential and refreshRegistrations ask of
   it; the file's place is known, so host.auth.save is not needed). *)

(* A changed key leaves its quota state and revision behind. *)
SaveBegin(c, new) ==
    /\ guard = IdleGuard /\ Present(c) /\ budget.saves > 0
    /\ LET r == Normalize(new)
       IN guard' = [op |-> "save", base |-> mem[c],
                    next |-> [d \in {c} |-> IF new.key = mem[c].key THEN r
                                             ELSE [r EXCEPT !.rev = 0]]]
    /\ budget' = [budget EXCEPT !.saves = @ - 1]
    /\ UNCHANGED <<mem, disk, revoked, writeErr, cache, file, calls, queued, host, gone, clock>>
    /\ UNCHANGED history

SetEnabled(c) == \E disabled \in BOOLEAN : SaveBegin(c, [mem[c] EXCEPT !.disabled = disabled])

(* With the same key: a new label or priority, or a refreshed registration. *)
UpdateCredential(c) == \E key \in budget.keys : SaveBegin(c, [mem[c] EXCEPT !.key = key])

(* Under authFileMu: nothing changed since the operation read the credential,
   and the file still is that credential. *)
SaveOpen(c) ==
    /\ guard.op = "save" /\ c \in DOMAIN guard.next /\ file = FreeFile
    /\ \/ /\ mem[c] = guard.base /\ Matches(disk[c], mem[c])
          /\ file' = [by |-> "save", cred |-> c, orig |-> disk[c],
                      next |-> guard.next[c], checked |-> FALSE]
          /\ UNCHANGED <<guard, budget>>
       \/ /\ \/ (mem[c] # guard.base \/ ~Matches(disk[c], mem[c])) /\ budget' = budget
             \/ Fault
          /\ guard' = IdleGuard /\ file' = file
    /\ UNCHANGED <<mem, disk, revoked, writeErr, cache, calls, queued, host, gone, clock>>
    /\ UNCHANGED history

SaveFails ==
    /\ file.by = "save" /\ FileTrouble
    /\ guard' = IdleGuard /\ file' = FreeFile
    /\ UNCHANGED <<mem, disk, revoked, writeErr, cache, calls, queued, host, gone, clock>>
    /\ UNCHANGED history

SaveWrite ==
    /\ file.by = "save" /\ file.checked
    /\ LET c == file.cred
       IN /\ disk' = [disk EXCEPT ![c] = file.next]
          /\ mem' = [mem EXCEPT ![c] = file.next]
          /\ writeErr' = IF mem[c].key = file.next.key THEN writeErr ELSE writeErr \ {c}
          /\ queued' = queued \cup {c}
          /\ owed' = [owed EXCEPT ![c] = Fresh(c, file.next)]
          /\ choice' = [choice EXCEPT ![c] = file.next.disabled]
          /\ foreign' = foreign \ {c}
    /\ guard' = IdleGuard /\ file' = FreeFile
    /\ UNCHANGED <<revoked, cache, calls, clock, news>> /\ UNCHANGED outside

(* deleteCredential holds all three locks throughout; the host drops its auth
   with the file. *)
DeleteCredential(c) ==
    /\ guard = IdleGuard /\ file = FreeFile /\ budget.saves > 0
    /\ Present(c) /\ disk[c] # Absent
    /\ disk' = [disk EXCEPT ![c] = Absent] /\ mem' = [mem EXCEPT ![c] = Absent]
    /\ cache' = [cache EXCEPT ![c] = NoKey]
    /\ revoked' = revoked \cup {c}
    /\ gone' = [gone EXCEPT ![c] = disk[c]] /\ host' = [host EXCEPT ![c] = Absent]
    /\ queued' = queued \cup {c}
    /\ owed' = [owed EXCEPT ![c] = Absent] /\ foreign' = foreign \ {c}
    /\ budget' = [budget EXCEPT !.saves = @ - 1]
    /\ UNCHANGED <<writeErr, guard, file, calls, clock, news, choice>>

-----------------------------------------------------------------------------
(* (A faulty variant, for DeletedStaysDeleted: a callback is believed even when its file is gone.) *)
ParseReadCallback(c) ==
    /\ c \in queued /\ file = FreeFile
    /\ queued' = queued \ {c}
    /\ LET raw == IF disk[c] # Absent THEN disk[c] ELSE gone[c]
       IN file' = IF raw = Absent THEN file
                  ELSE [by |-> "parse", cred |-> c, orig |-> raw, next |-> Absent, checked |-> FALSE]
    /\ UNCHANGED <<mem, disk, revoked, writeErr, cache, guard, calls, clock>>
    /\ UNCHANGED outside /\ UNCHANGED history

(* The watcher's callback, parseAuth: it reads the file itself, under
   authFileMu, and falls back on what the callback carried. *)
ParseRead(c) ==
    /\ c \in queued /\ file = FreeFile
    /\ queued' = queued \ {c}
    /\ LET raw == IF disk[c] # Absent THEN disk[c] ELSE gone[c]
       IN file' = IF disk[c] = Absent /\ (c \in revoked \/ raw = Absent) THEN file
                  ELSE [by |-> "parse", cred |-> c, orig |-> raw, next |-> Absent,
                        checked |-> disk[c] # Absent]
    /\ UNCHANGED <<mem, disk, revoked, writeErr, cache, guard, calls, clock>>
    /\ UNCHANGED outside /\ UNCHANGED history

(* (A faulty variant, for ExhaustedStaysPaused: what the file says always wins.) *)
AdoptedAsRead(c, parsed) == parsed

(* The credential parseAuth arrives at: a quota write this process has made or
   tried since keeps the quota state in memory. *)
Adopted(c, parsed) ==
    IF Present(c) /\ mem[c].key = parsed.key /\ mem[c].rev \notin {0, parsed.rev}
    THEN [parsed EXCEPT !.block = mem[c].block, !.ident = mem[c].ident, !.rev = mem[c].rev]
    ELSE parsed

ParseCommit ==
    /\ file.by = "parse"
    /\ LET c == file.cred
           raw == [file.orig EXCEPT !.disabled = Manual(file.orig)]
           parsed == Parsed(file.orig)
           r == Adopted(c, parsed)
           cleared == IF Present(c) /\ mem[c].key # r.key THEN {c} ELSE {}
       IN /\ mem' = [mem EXCEPT ![c] = r]
          /\ revoked' = IF file.checked THEN revoked \ {c} ELSE revoked
          /\ writeErr' = (writeErr \ cleared) \cup
                         (IF QuotaStateEqual(raw, parsed) THEN {} ELSE {c})
          /\ host' = [host EXCEPT ![c] = Normalize(r)]
          /\ owed' = [owed EXCEPT ![c] = Fresh(c, r)]
          /\ foreign' = IF r = parsed /\ disk[c] = file.orig THEN foreign \ {c} ELSE foreign
    /\ file' = FreeFile
    /\ UNCHANGED <<disk, cache, guard, calls, queued, gone, clock, budget, news, choice>>

-----------------------------------------------------------------------------
(* Outside the plugin. *)

Edit(c, d) ==
    /\ budget.edits > 0 /\ budget' = [budget EXCEPT !.edits = @ - 1]
    /\ d \notin {Absent, disk[c]}
    /\ disk' = [disk EXCEPT ![c] = d] /\ queued' = queued \cup {c}
    /\ choice' = [choice EXCEPT ![c] = Manual(d)]
    /\ foreign' = IF disk[c] # Absent /\ d.block = disk[c].block THEN foreign ELSE foreign \cup {c}
    /\ UNCHANGED <<mem, revoked, writeErr, cache, guard, file, calls, clock, owed, news>>

(* Somebody edits the file: the disabled flag or the key. *)
EditFile(c) ==
    /\ disk[c] # Absent
    /\ \/ Edit(c, [disk[c] EXCEPT !.disabled = ~@])
       \/ \E k \in budget.keys : Edit(c, [disk[c] EXCEPT !.key = k])
    /\ UNCHANGED <<host, gone>>

(* The host saves the auth it parsed, perhaps long ago, with its effective
   disabled flag (docs/scheduling.md:10). *)
HostSave(c) ==
    /\ disk[c] # Absent /\ host[c] # Absent
    /\ Edit(c, [host[c] EXCEPT !.disabled = @ \/ host[c].block # NoBlock])
    /\ host' = [host EXCEPT ![c] = Absent] /\ gone' = gone

(* A deleted file is put back. *)
RestoreFile(c) ==
    /\ disk[c] = Absent /\ gone[c] # Absent
    /\ Edit(c, gone[c]) /\ gone' = [gone EXCEPT ![c] = Absent] /\ host' = host

Tick == /\ clock < budget.time /\ clock' = clock + 1
        /\ UNCHANGED <<mem, disk, revoked, writeErr, cache, guard, file, calls, queued>>
        /\ UNCHANGED outside /\ UNCHANGED history

(* The plugin restarts and the host reports every file. What a file never
   received is forgotten. *)
Restart ==
    /\ budget.crashes > 0 /\ budget' = [budget EXCEPT !.crashes = @ - 1]
    /\ mem' = [c \in Creds |-> Absent] /\ host' = mem' /\ gone' = mem'
    /\ revoked' = {} /\ writeErr' = {} /\ calls' = {}
    /\ cache' = [c \in Creds |-> NoKey]
    /\ guard' = IdleGuard /\ file' = FreeFile
    /\ queued' = {c \in Creds : disk[c] # Absent}
    /\ owed' = [c \in Creds |->
                  IF disk[c] # Absent /\ owed[c] # Absent /\ Records(disk[c].block, owed[c])
                  THEN owed[c] ELSE Absent]
    /\ news' = host'
    /\ foreign' = {}
    /\ UNCHANGED <<disk, clock, choice>>

-----------------------------------------------------------------------------
CallStep ==
    \/ \E c \in Creds : StartRequest(c) \/ StartUsage(c)
    \/ \E u \in calls : UsageAnswer(u) \/ CallEnds(u) \/ ObserveError(u) \/ ObserveUsage(u)
FileStep == Compare \/ PersistFails \/ PersistWrite \/ SaveFails \/ SaveWrite \/ ParseCommit
Outside == \/ \E c \in Creds : EditFile(c) \/ HostSave(c) \/ RestoreFile(c)
           \/ Tick \/ Restart

Next ==
    \/ CallStep
    \/ SaveQuotaGroup \/ Reconcile \/ FileStep
    \/ \E c \in Creds : PersistOpen(c) \/ SetEnabled(c) \/ UpdateCredential(c) \/ SaveOpen(c)
                        \/ DeleteCredential(c) \/ ParseRead(c)
    \/ Outside

Spec == Init /\ [][Next]_vars

(* Go's mutexes do not starve a waiter (SF), work under a lock goes on (WF),
   the sampler reconciles every 15 s and the watcher reports a changed file. *)
Fairness ==
    /\ WF_vars(FileStep) /\ WF_vars(SaveQuotaGroup) /\ SF_vars(Reconcile)
    /\ \A c \in Creds : SF_vars(PersistOpen(c)) /\ SF_vars(SaveOpen(c)) /\ SF_vars(ParseRead(c))

FairSpec == Spec /\ Fairness

-----------------------------------------------------------------------------
(* Types, and a lock's variable says what its holder is doing. *)
TypeOK ==
    /\ \A c \in Creds : \A r \in {mem[c], disk[c], host[c], gone[c]} : r = Absent \/ r \in Credentials
    /\ revoked \subseteq Creds /\ writeErr \subseteq Creds /\ queued \subseteq Creds
    /\ foreign \subseteq Creds
    /\ cache \in [Creds -> Keys \cup {NoKey}] /\ choice \in [Creds -> BOOLEAN]
    /\ guard.op \in {"idle", "publish", "write", "save"}
    /\ (guard.op = "idle") = (guard = IdleGuard)
    /\ \A c \in DOMAIN guard.next : c \in Creds /\ guard.next[c] \in Credentials
    /\ file.by \in {"free", "persist", "save", "parse"}
    /\ (file.by = "free") = (file = FreeFile)
    /\ file.by = "persist" => guard.op = "write" /\ file.cred \in DOMAIN guard.next
    /\ file.by = "save" => guard.op = "save"
    /\ clock \in 1..MaxTime /\ Cardinality(calls) <= budget.calls

(* A credential whose account ran out stays paused: whatever was running when
   the exhaustion was observed, and whatever the watcher, a failed write or a
   restart from a saved block brings in later, its key is not selectable until
   a usage check begun afterwards found room (quota.go:30-31 and 274-301,
   parseAuth's revision rule service.go:395-398). *)
ExhaustedStaysPaused ==
    \A c \in Creds :
        owed[c] # Absent /\ Present(c) /\ mem[c].key = owed[c].key
        => ~Selectable(c) /\ Normalize(mem[c]).block # NoBlock

(* A block in force was earned by the account of the key it stops: a late
   error of a replaced key, or a sibling that no longer belongs to the
   account, never pauses a key of another account (quota.go:256-258, 313). *)
BlockStaysInItsAccount ==
    \A c \in Creds :
        Present(c) /\ Normalize(mem[c]).block # NoBlock
        => mem[c].block.accounts = {AccountOf[mem[c].key]}

(* Quota writes and the host's effective disabled flag never change what the
   operator chose: the file always says the last choice the operator, or a
   save of the host made from an older state, put there, and memory says it
   too once the watcher is through (quota.go:30-37, credential_json.go:16). *)
ManualChoiceKept ==
    \A c \in Creds :
        disk[c] # Absent =>
            /\ Manual(disk[c]) = choice[c]
            /\ Present(c) /\ c \notin queued /\ file = FreeFile => mem[c].disabled = choice[c]

(* Quota state that memory and file disagree on is recorded as a write error,
   so that the reconciler takes it up; only an outside write that brought
   older quota state back escapes it (quota.go:102-117, 174-193). *)
DivergenceIsFlagged ==
    guard = IdleGuard /\ file = FreeFile =>
        \A c \in Creds :
            /\ Present(c) /\ disk[c] # Absent /\ c \notin queued \cup foreign
            /\ Cores(Normalize(mem[c])) # Cores(Parsed(disk[c]))
            => c \in writeErr

(* A credential deleted through the plugin comes back only with a physical
   file, and no write of the plugin recreates that file (service.go:386-390,
   management.go:420-422). *)
DeletedStaysDeleted ==
    [][\A c \in Creds :
          /\ mem[c] = Absent /\ mem'[c] # Absent => disk[c] # Absent
          /\ disk[c] = Absent /\ disk'[c] # Absent => budget'.edits < budget.edits]_vars

(* Every quota write error is repaired in the end (quota.go:174,
   usage_sampler.go:124-126). *)
WriteErrorsDrain ==
    \A c \in Creds : []<>(c \notin writeErr \/ ~Present(c))

(* What memory and file disagree on is noticed, and what is noticed is repaired. *)
DivergenceHeals == []DivergenceIsFlagged /\ WriteErrorsDrain
=============================================================================
