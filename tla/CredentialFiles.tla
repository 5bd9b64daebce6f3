-------------------------- MODULE CredentialFiles --------------------------
(***************************************************************************)
(* The writers that rewrite every credential file: the session rotation of *)
(* affinity.go, which gives each account a new registration identity in    *)
(* two phases and rolls back, and the unified error rules of               *)
(* error_rules.go, which the operator publishes and which every watcher    *)
(* callback repairs.                                                       *)
(*                                                                         *)
(* credentialMu is variable guard (rotation and rules exclude each other); *)
(* authFileMu is variable lock, with what its holder is about to write.    *)
(* The watcher's parseAuth takes only authFileMu, so it runs between the   *)
(* phases of a rotation; an editor takes no lock at all.                   *)
(*                                                                         *)
(* Data: of a file, its routing_id, its rules, one field the plugin owns   *)
(* and compares with its memory (mark: the key, the disabled flag, the     *)
(* priority or the proxy) and one it does not know (extra).                *)
(***************************************************************************)
EXTENDS Naturals, FiniteSets

CONSTANTS
    Creds,
    Rules,       \* rule lists; DefaultRules is the one of a plugin without a policy file
    DefaultRules,
    MaxRotations,\* bound: rotations
    Worlds,      \* bounds: where a behaviour starts and what may happen in it; if it
                 \* is not slow, then the watcher is done within ten seconds
    Stable, Name,\* the stable ID, which old versions registered, and the file name
    None

(* The identity an earlier rotation drew. *)
Earlier == 0
Routes == {None, Name} \cup Earlier..MaxRotations
Identities == {Stable, Name} \cup Earlier..MaxRotations

(* What a file holds, and what the plugin keeps of it in memory. *)
Contents == [route : Routes, mark : {0, 1}, extra : {0, 1}, rules : Rules]
Memories == [route : Routes, mark : {0, 1}, rules : Rules]

IsWorld(w) ==
    /\ w \in [creds : SUBSET Creds, routes : SUBSET {None, Earlier},
              policy : Rules \cup {None}, slow : BOOLEAN, rotations : 0..MaxRotations,
              edits : Nat, faults : Nat, stops : Nat, crashes : Nat, puts : Nat]
    /\ ~w.slow => {w.edits, w.faults, w.stops, w.crashes, w.puts} = {0}

ASSUME CredentialFilesAssumption ==
    /\ DefaultRules \in Rules /\ MaxRotations \in Nat
    /\ None \notin Rules \cup {Stable, Name} \cup 0..MaxRotations
    /\ None \notin Contents \cup Memories
    /\ {Stable, Name} \cap 0..MaxRotations = {} /\ Stable # Name
    /\ \A w \in Worlds : IsWorld(w)

VARIABLES
    file,     \* the credential files
    mem,      \* s.creds
    policy,   \* s.errorRules, and the rules of error-rules.json
    synced,   \* s.errorRuleSynced: the rules last known to be on file
    failed,   \* s.errorRuleSyncErrors
    guard,    \* credentialMu: idle, rotate or rules
    lock,     \* authFileMu: its holder, and the file it reads or writes
    rot,      \* clearAffinity
    rules,    \* errorRulesManagement
    backups,  \* the recovery copies
    queued,   \* files whose change the host's watcher has yet to report
    pending,  \* the identity a watcher callback returned and the host has yet to register
    auths,    \* what the host has registered for each file
    owned,    \* the registration of a file that its watcher made
    updated,  \* registrations the watcher made since the rotation began
    stopped,  \* stopCh is closed
    budget,   \* the world, and what may still happen in it
    edited,   \* history: files somebody else has written since they and memory
              \* were last as copied
    missed    \* history: files whose callback failed to repair the rules between
              \* a rule update's write and its record of success

store == <<file, mem, backups>>
ruling == <<policy, synced, failed>>
hosted == <<queued, pending, auths, owned, updated>>
context == <<stopped, edited, missed>>
vars == <<file, mem, policy, synced, failed, guard, lock, rot, rules, backups,
          queued, pending, auths, owned, updated, stopped, budget, edited, missed>>

Free == [by |-> "free", step |-> "none", cred |-> None, seen |-> None, next |-> None,
         raced |-> FALSE]
NoRotation == [step |-> "idle", left |-> {}, creds |-> <<>>, files |-> <<>>,
               written |-> <<>>, restored |-> TRUE]
NoSync == [step |-> "idle", left |-> {}, snap |-> <<>>, new |-> None,
           cred |-> None, ok |-> TRUE]

Present == {c \in Creds : mem[c] # None}
Exist == {c \in Creds : file[c] # None}

-----------------------------------------------------------------------------
(* Pure parts. *)

(* routingID: without a routing_id the file name, as host.auth.save has it. *)
RoutingID(r) == IF r.route = None THEN Name ELSE r.route

(* What memory keeps of a file. *)
Loaded(r, list) == [route |-> r.route, mark |-> r.mark, rules |-> list]

(* affinityFile: the file still is the credential the plugin knows. *)
Matches(r, m) == r # None /\ r.route = m.route /\ r.mark = m.mark

Spend(what) == budget[what] > 0 /\ budget' = [budget EXCEPT ![what] = @ - 1]

Init ==
    /\ budget \in Worlds
    /\ file \in [Creds -> {None} \cup [route : budget.routes, mark : {0}, extra : {0},
                                       rules : {DefaultRules}]]
    /\ Exist = budget.creds
    /\ policy = [rules |-> IF budget.policy = None THEN DefaultRules ELSE budget.policy,
                 saved |-> budget.policy]
    /\ mem = [c \in Creds |-> IF file[c] = None THEN None ELSE Loaded(file[c], policy.rules)]
    /\ synced = [c \in Creds |-> IF file[c] # None /\ file[c].rules = policy.rules
                                 THEN policy.rules ELSE None]
    /\ failed = {c \in Exist : file[c].rules # policy.rules}
    /\ guard = "idle" /\ lock = Free /\ rot = NoRotation /\ rules = NoSync
    /\ backups = {} /\ queued = {} /\ updated = {} /\ edited = {} /\ missed = {}
    /\ pending = [c \in Creds |-> None]
    (* An old version's watcher, or host.auth.save, or both, registered a file
       that was never rotated. *)
    /\ owned \in [Creds -> {None, Stable, Name, Earlier}]
    /\ \A c \in Creds : owned[c] \in IF file[c] = None THEN {None}
                                     ELSE IF file[c].route = None THEN {None, Stable, Name}
                                     ELSE {Earlier}
    /\ auths = [c \in Creds |-> IF file[c] = None THEN {}
                                ELSE IF file[c].route = None THEN {owned[c], Name} \ {None}
                                ELSE {Earlier}]
    /\ stopped = FALSE

-----------------------------------------------------------------------------
(* clearAffinity up to the first write *)

Goto(step) == rot' = [rot EXCEPT !.step = step]

(* Service.begin. *)
RotateBegin ==
    /\ rot.step \in {"idle", "rejected", "reset", "restored", "partial"}
    /\ ~stopped /\ Spend("rotations")
    /\ rot' = [NoRotation EXCEPT !.step = "begun"]
    /\ UNCHANGED <<store, ruling, hosted, context, guard, lock, rules>>

(* The answer leaves the host's and everybody's files as they are. *)
Answer(what) == guard' = "idle" /\ Goto(what)

RotateEnter ==
    /\ rot.step = "begun" /\ guard = "idle"
    /\ IF Present = {} THEN Goto("rejected") /\ guard' = guard
       ELSE /\ guard' = "rotate"
            /\ rot' = [rot EXCEPT !.step = "read", !.left = Present,
                                  !.creds = [c \in Present |-> mem[c]],
                                  !.written = [c \in Present |-> None]]
    /\ UNCHANGED <<store, ruling, hosted, context, budget, lock, rules>>

(* host.auth.list fails, a file cannot be read, is not the credential the
   plugin knows, or cannot be copied: nothing has been written. *)
RotateRejected ==
    /\ rot.step \in {"read", "backup"}
    /\ \/ Spend("faults")
       \/ /\ rot.step = "read" /\ \E c \in rot.left : ~Matches(file[c], rot.creds[c])
          /\ budget' = budget
    /\ Answer("rejected")
    /\ UNCHANGED <<store, ruling, hosted, context, lock, rules>>

(* affinityFile, under neither of the file's locks. *)
RotateRead(c) ==
    /\ rot.step = "read" /\ c \in rot.left /\ Matches(file[c], rot.creds[c])
    /\ rot' = [rot EXCEPT !.files = [d \in DOMAIN @ \cup {c} |-> IF d = c THEN file[c] ELSE @[d]],
                          !.left = @ \ {c}]
    /\ UNCHANGED <<store, ruling, hosted, context, budget, guard, lock, rules>>

BackupBegin ==
    /\ rot.step = "read" /\ rot.left = {}
    /\ rot' = [rot EXCEPT !.step = "backup", !.left = DOMAIN rot.creds]
    /\ UNCHANGED <<store, ruling, hosted, context, budget, guard, lock, rules>>

BackupFile(c) ==
    /\ rot.step = "backup" /\ c \in rot.left
    /\ backups' = backups \cup {<<c, rot.files[c]>>}
    /\ rot' = [rot EXCEPT !.left = @ \ {c}]
    /\ edited' = IF /\ file[c] = rot.files[c] /\ lock.cred # c
                     /\ mem[c] # None /\ mem[c].route = rot.files[c].route
                  THEN edited \ {c} ELSE edited
    /\ UNCHANGED <<file, mem, ruling, hosted, stopped, missed, budget, guard, lock, rules>>

(* A file without a routing_id first gets the file name as its identity. *)
Migrate == \E c \in DOMAIN rot.creds : rot.creds[c].route = None

(* (A faulty variant, for IdentitiesBackedUp: the copies are not awaited.) *)
BackupSkipped ==
    /\ rot.step = "backup"
    /\ rot' = [rot EXCEPT !.step = IF Migrate THEN "canonical" ELSE "next",
                          !.left = DOMAIN rot.creds]
    /\ updated' = {}
    /\ UNCHANGED <<store, ruling, queued, pending, auths, owned, context, budget, guard, lock, rules>>

BackupDone ==
    /\ rot.step = "backup" /\ rot.left = {}
    /\ rot' = [rot EXCEPT !.step = IF Migrate THEN "canonical" ELSE "next",
                          !.left = DOMAIN rot.creds]
    /\ updated' = {}
    /\ UNCHANGED <<store, ruling, queued, pending, auths, owned, context, budget, guard, lock, rules>>

-----------------------------------------------------------------------------
(* writePhase, under authFileMu from the first file to the last *)

Fresh == MaxRotations - budget.rotations

Target(c) ==
    CASE rot.step = "next" -> Fresh
      [] rot.step = "canonical" /\ rot.creds[c].route = None -> Name
      [] OTHER -> rot.creds[c].route

Expected(c) == IF rot.written[c] = None THEN rot.files[c] ELSE rot.written[c]

PhaseBegin ==
    /\ rot.step \in {"canonical", "next"} /\ lock = Free
    /\ lock' = [Free EXCEPT !.by = "rotate", !.step = "pick"]
    /\ UNCHANGED <<store, ruling, hosted, context, budget, guard, rot, rules>>

(* The phase ends with an error: its lock is released before the rollback. *)
PhaseFails ==
    /\ lock' = Free
    /\ rot' = [rot EXCEPT !.step = "rollback",
                          !.left = {c \in DOMAIN rot.written : rot.written[c] # None}]

(* (A faulty variant, for EditsSurvive: the file is not compared.) *)
PhaseCompareUnread(c) ==
    /\ lock.by = "rotate" /\ lock.step = "pick" /\ c \in rot.left
    /\ lock' = [lock EXCEPT !.step = "write", !.cred = c, !.raced = FALSE,
                            !.next = [rot.files[c] EXCEPT !.route = Target(c)]]
    /\ UNCHANGED <<store, ruling, hosted, context, budget, guard, rot, rules>>

PhaseCompare(c) ==
    /\ lock.by = "rotate" /\ lock.step = "pick" /\ c \in rot.left
    /\ file[c] = Expected(c)
    /\ lock' = [lock EXCEPT !.step = "write", !.cred = c, !.raced = FALSE,
                            !.next = [rot.files[c] EXCEPT !.route = Target(c)]]
    /\ UNCHANGED <<store, ruling, hosted, context, budget, guard, rot, rules>>

PhaseRefused ==
    /\ lock.by = "rotate"
    /\ \/ /\ lock.step = "pick" /\ \E c \in rot.left : file[c] # Expected(c)
          /\ budget' = budget
       \/ rot.left # {} /\ Spend("faults")
    /\ PhaseFails
    /\ UNCHANGED <<store, ruling, hosted, context, guard, rules>>

PhaseWrite ==
    /\ lock.by = "rotate" /\ lock.step = "write"
    /\ LET c == lock.cred IN
       /\ file' = [file EXCEPT ![c] = lock.next]
       /\ mem' = [mem EXCEPT ![c] = [rot.creds[c] EXCEPT !.route = Target(c)]]
       /\ rot' = [rot EXCEPT !.written[c] = lock.next, !.left = @ \ {c}]
       /\ queued' = queued \cup {c}
       /\ lock' = [Free EXCEPT !.by = "rotate", !.step = "pick"]
    /\ UNCHANGED <<ruling, backups, pending, auths, owned, updated, context, budget, guard, rules>>

PhaseDone ==
    /\ lock.by = "rotate" /\ lock.step = "pick" /\ rot.left = {}
    /\ lock' = Free
    /\ Goto(IF rot.step = "next" THEN "awaitNext" ELSE "awaitCanonical")
    /\ UNCHANGED <<store, ruling, hosted, context, budget, guard, rules>>

-----------------------------------------------------------------------------
(* awaitAffinityRotation, and the rollback *)

Awaiting == rot.step \in {"awaitNext", "awaitCanonical"}

NewIdentity(c) == IF rot.step = "awaitNext" THEN Fresh ELSE RoutingID(rot.creds[c])

(* (A faulty variant, for RotationEnds: an old registration of the file name is
   taken for the watcher's answer.) *)
ConfirmedByAge(c) == auths[c] = {NewIdentity(c)}

(* (A faulty variant, for RotationAnswersAreTrue: others are not looked for.) *)
ConfirmedByPresence(c) == NewIdentity(c) \in auths[c]

(* One registration of the file, and it is the new one; one that may be older
   than the rotation must have been made again. *)
Confirmed(c) ==
    /\ auths[c] = {NewIdentity(c)}
    /\ rot.creds[c].route = None /\ NewIdentity(c) = Name => c \in updated

RotationConfirmed ==
    /\ Awaiting /\ \A c \in DOMAIN rot.creds : Confirmed(c)
    /\ IF rot.step = "awaitNext" THEN Answer("reset")
       ELSE /\ rot' = [rot EXCEPT !.step = "next", !.left = DOMAIN rot.creds]
            /\ guard' = guard
    /\ UNCHANGED <<store, ruling, hosted, context, budget, lock, rules>>

(* host.auth.list fails, ten seconds have passed, or the plugin stops. *)
AwaitFails ==
    /\ Awaiting
    /\ \/ Spend("faults")
       \/ (budget.slow \/ stopped) /\ budget' = budget
    /\ rot' = [rot EXCEPT !.step = "rollback",
                          !.left = {c \in DOMAIN rot.written : rot.written[c] # None}]
    /\ UNCHANGED <<store, ruling, hosted, context, guard, lock, rules>>

RollbackBegin ==
    /\ rot.step = "rollback" /\ lock = Free
    /\ lock' = [Free EXCEPT !.by = "restore", !.step = "pick"]
    /\ UNCHANGED <<store, ruling, hosted, context, budget, guard, rot, rules>>

RollbackCompare(c) ==
    /\ lock.by = "restore" /\ lock.step = "pick" /\ c \in rot.left
    /\ file[c] = rot.written[c]
    /\ lock' = [lock EXCEPT !.step = "write", !.cred = c, !.raced = FALSE,
                            !.next = rot.files[c]]
    /\ UNCHANGED <<store, ruling, hosted, context, budget, guard, rot, rules>>

RollbackWrite ==
    /\ lock.by = "restore" /\ lock.step = "write"
    /\ LET c == lock.cred IN
       /\ file' = [file EXCEPT ![c] = lock.next]
       /\ mem' = [mem EXCEPT ![c] = rot.creds[c]]
       /\ rot' = [rot EXCEPT !.left = @ \ {c}]
       /\ queued' = queued \cup {c}
    /\ lock' = [Free EXCEPT !.by = "restore", !.step = "pick"]
    /\ UNCHANGED <<ruling, backups, pending, auths, owned, updated, context, budget, guard, rules>>

(* Somebody else's edit is preserved, or the file cannot be read or written. *)
RollbackSkips(c) ==
    /\ lock.by = "restore" /\ c \in rot.left
    /\ lock.step = "pick" \/ lock.cred = c
    /\ \/ lock.step = "pick" /\ file[c] # rot.written[c] /\ budget' = budget
       \/ Spend("faults")
    /\ rot' = [rot EXCEPT !.left = @ \ {c}, !.restored = FALSE]
    /\ lock' = [Free EXCEPT !.by = "restore", !.step = "pick"]
    /\ UNCHANGED <<store, ruling, hosted, context, guard, rules>>

RollbackDone ==
    /\ lock.by = "restore" /\ lock.step = "pick" /\ rot.left = {}
    /\ lock' = Free
    /\ Answer(IF rot.restored THEN "restored" ELSE "partial")
    /\ UNCHANGED <<store, ruling, hosted, context, budget, rules>>

-----------------------------------------------------------------------------
(* errorRulesManagement: PUT and reset publish a list, sync repeats it *)

RulesEnter ==
    /\ guard = "idle" /\ Spend("puts")
    /\ \E new \in Rules \cup {None} :
         rules' = [NoSync EXCEPT !.step = IF new = None THEN "sync" ELSE "publish", !.new = new,
                                 !.snap = mem, !.left = Present]
    /\ guard' = "rules"
    /\ UNCHANGED <<store, ruling, hosted, context, lock, rot>>

(* The policy file and memory change under authFileMu: no callback repairs a
   file with one while the other is new.  A list that cannot be saved is refused. *)
RulesPublish ==
    /\ rules.step = "publish" /\ lock = Free
    /\ \/ /\ policy' = [rules |-> rules.new, saved |-> rules.new]
          /\ rules' = [rules EXCEPT !.step = "sync", !.snap = mem, !.left = Present]
          /\ guard' = guard /\ budget' = budget
       \/ /\ Spend("faults")
          /\ rules' = NoSync /\ guard' = "idle" /\ policy' = policy
    /\ UNCHANGED <<store, synced, failed, hosted, context, lock, rot>>

(* syncCredentialErrorRules: the outcome for c, to be recorded when the lock is
   given back. *)
Outcome(c, ok) == rules' = [rules EXCEPT !.cred = c, !.ok = ok]

SyncOpen(c) ==
    /\ rules.step = "sync" /\ rules.cred = None /\ c \in rules.left /\ lock = Free
    /\ IF mem[c] = rules.snap[c] /\ Matches(file[c], mem[c])
       THEN /\ lock' = [Free EXCEPT !.by = "sync", !.step = "compare", !.cred = c,
                                    !.seen = file[c], !.next = [file[c] EXCEPT !.rules = policy.rules]]
            /\ rules' = rules
       ELSE lock' = lock /\ Outcome(c, FALSE)
    /\ UNCHANGED <<store, ruling, hosted, context, budget, guard, rot>>

(* Read again, the file is what it was; one that has the rules is not written. *)
Compare ==
    /\ lock.by \in {"sync", "parse"} /\ lock.step = "compare"
    /\ file[lock.cred] = lock.seen
    /\ lock' = [lock EXCEPT !.step = "write", !.raced = FALSE]
    /\ UNCHANGED <<store, ruling, hosted, context, budget, guard, rot, rules>>

Trouble ==
    \/ lock.step = "compare" /\ file[lock.cred] # lock.seen /\ budget' = budget
    \/ lock.step \in {"compare", "write"} /\ Spend("faults")

SyncFails ==
    /\ lock.by = "sync" /\ Trouble
    /\ lock' = Free /\ Outcome(lock.cred, FALSE)
    /\ UNCHANGED <<store, ruling, hosted, context, guard, rot>>

SyncWrite ==
    /\ lock.by = "sync" /\ lock.step = "write"
    /\ LET c == lock.cred IN
       /\ IF lock.seen = lock.next THEN UNCHANGED <<file, queued>>
          ELSE file' = [file EXCEPT ![c] = lock.next] /\ queued' = queued \cup {c}
       /\ mem' = [mem EXCEPT ![c].rules = policy.rules]
       /\ Outcome(c, TRUE)
    /\ lock' = Free
    /\ UNCHANGED <<ruling, backups, pending, auths, owned, updated, context, budget, guard, rot>>

(* markErrorRulesSyncedLocked *)
MarkSynced(c, ok) ==
    IF ok THEN synced' = [synced EXCEPT ![c] = policy.rules] /\ failed' = failed \ {c}
    ELSE failed' = failed \cup {c} /\ synced' = synced

SyncMark ==
    /\ rules.cred # None
    /\ MarkSynced(rules.cred, rules.ok)
    /\ rules' = [rules EXCEPT !.cred = None, !.ok = TRUE, !.left = @ \ {rules.cred}]
    /\ UNCHANGED <<store, policy, hosted, context, budget, guard, lock, rot>>

RulesDone ==
    /\ rules.step = "sync" /\ rules.cred = None /\ rules.left = {}
    /\ rules' = NoSync /\ guard' = "idle"
    /\ UNCHANGED <<store, ruling, hosted, context, budget, lock, rot>>

-----------------------------------------------------------------------------
(* The watcher: parseAuth with applyParsedErrorRules, and the host *)

ParseRead(c) ==
    /\ c \in queued /\ pending[c] = None /\ lock = Free
    /\ queued' = queued \ {c}
    /\ lock' = [Free EXCEPT !.by = "parse", !.cred = c, !.seen = file[c],
           !.next = [file[c] EXCEPT !.rules = policy.rules],
           !.step = IF file[c].rules = policy.rules THEN "marked"
                    ELSE IF policy.saved = None THEN "failed" ELSE "compare"]
    /\ UNCHANGED <<store, ruling, pending, auths, owned, updated, context, budget, guard, rot, rules>>

(* (A faulty variant, for SyncedRulesOnFile: the failure is not recorded.) *)
ParseFailsUnnoticed ==
    /\ lock.by = "parse" /\ Trouble
    /\ lock' = [lock EXCEPT !.step = "marked"]
    /\ UNCHANGED <<store, ruling, hosted, context, guard, rot, rules>>

ParseFails ==
    /\ lock.by = "parse" /\ Trouble
    /\ lock' = [lock EXCEPT !.step = "failed"]
    /\ UNCHANGED <<store, ruling, hosted, context, guard, rot, rules>>

ParseWrite ==
    /\ lock.by = "parse" /\ lock.step = "write"
    /\ file' = [file EXCEPT ![lock.cred] = lock.next]
    /\ queued' = queued \cup {lock.cred}
    /\ lock' = [lock EXCEPT !.step = "marked"]
    /\ UNCHANGED <<mem, backups, ruling, pending, auths, owned, updated, context, budget, guard, rot, rules>>

ParseCommit ==
    /\ lock.by = "parse" /\ lock.step \in {"marked", "failed"}
    /\ LET c == lock.cred IN
       /\ MarkSynced(c, lock.step = "marked")
       /\ mem' = [mem EXCEPT ![c] = Loaded(lock.seen, policy.rules)]
       /\ pending' = [pending EXCEPT ![c] = RoutingID(lock.seen)]
       /\ missed' = IF lock.step = "failed" /\ rules.cred = c THEN missed \cup {c}
                    ELSE missed \ {c}
    /\ lock' = Free
    /\ UNCHANGED <<file, backups, policy, queued, auths, owned, updated, stopped, edited, budget, guard, rot, rules>>

(* The host takes over the identity the callback returned: the watcher replaces
   the registration it made for the file, and owns one that host.auth.save had
   made under the same identity. *)
Register(c) ==
    /\ pending[c] # None
    /\ auths' = [auths EXCEPT ![c] = (@ \ {owned[c]}) \cup {pending[c]}]
    /\ owned' = [owned EXCEPT ![c] = pending[c]]
    /\ updated' = updated \cup {c}
    /\ pending' = [pending EXCEPT ![c] = None]
    /\ UNCHANGED <<store, ruling, queued, context, budget, guard, lock, rot, rules>>

-----------------------------------------------------------------------------
(* Outside the plugin *)

(* Somebody edits a field, or copies a recovery file back. *)
Edit(c) ==
    /\ file[c] # None /\ Spend("edits")
    /\ \E r \in {[file[c] EXCEPT !.mark = 1 - @], [file[c] EXCEPT !.extra = 1 - @]}
               \cup {[file[c] EXCEPT !.rules = l] : l \in Rules}
               \cup {r \in {b[2] : b \in backups} : <<c, r>> \in backups} :
         r # file[c] /\ file' = [file EXCEPT ![c] = r]
    /\ queued' = queued \cup {c} /\ edited' = edited \cup {c}
    /\ lock' = IF lock.cred = c /\ lock.step = "write" THEN [lock EXCEPT !.raced = TRUE] ELSE lock
    /\ UNCHANGED <<mem, backups, ruling, pending, auths, owned, updated, stopped, missed, guard, rot, rules>>

(* plugin.quiesce closes stopCh. *)
Stop ==
    /\ ~stopped /\ Spend("stops")
    /\ stopped' = TRUE
    /\ UNCHANGED <<store, ruling, hosted, edited, missed, guard, lock, rot, rules>>

(* The process ends; the host starts it again, with no registration, and
   reports every file. *)
Restart ==
    /\ Spend("crashes")
    /\ mem' = [c \in Creds |-> None]
    /\ policy' = [policy EXCEPT !.rules = IF policy.saved = None THEN DefaultRules ELSE policy.saved]
    /\ synced' = mem' /\ failed' = {}
    /\ guard' = "idle" /\ lock' = Free /\ rot' = NoRotation /\ rules' = NoSync
    /\ queued' = Exist /\ pending' = mem' /\ owned' = mem' /\ updated' = {}
    /\ auths' = [c \in Creds |-> {}]
    /\ stopped' = FALSE /\ missed' = {}
    /\ UNCHANGED <<file, backups, edited>>

-----------------------------------------------------------------------------
RotateStep ==
    \/ RotateRejected \/ BackupBegin \/ BackupDone
    \/ PhaseRefused \/ PhaseWrite \/ PhaseDone
    \/ RotationConfirmed \/ AwaitFails \/ RollbackWrite \/ RollbackDone
    \/ \E c \in Creds : RotateRead(c) \/ BackupFile(c) \/ PhaseCompare(c)
                         \/ RollbackCompare(c) \/ RollbackSkips(c)
RotateLock == RotateEnter \/ PhaseBegin \/ RollbackBegin
RulesStep ==
    \/ RulesPublish \/ SyncFails \/ SyncWrite \/ SyncMark \/ RulesDone
    \/ \E c \in Creds : SyncOpen(c)
ParseStep == Compare \/ ParseFails \/ ParseWrite \/ ParseCommit

Next ==
    \/ RotateBegin \/ RotateStep \/ RotateLock
    \/ RulesEnter \/ RulesStep \/ ParseStep
    \/ \E c \in Creds : ParseRead(c) \/ Register(c) \/ Edit(c)
    \/ Stop \/ Restart

Spec == Init /\ [][Next]_vars

(* Work under a lock goes on, the mutexes do not starve a waiter, and the host's
   watcher reports every changed file. *)
FairSpec ==
    /\ Spec
    /\ WF_vars(RotateStep) /\ SF_vars(RotateLock)
    /\ WF_vars(ParseStep) /\ SF_vars(RulesStep)
    /\ SF_vars(\E c \in Creds : ParseRead(c)) /\ WF_vars(\E c \in Creds : Register(c))

-----------------------------------------------------------------------------
(* Properties *)

(* Types, and who may hold the two locks. *)
TypeOK ==
    /\ file \in [Creds -> Contents \cup {None}] /\ mem \in [Creds -> Memories \cup {None}]
    /\ \A b \in backups : b[1] \in Creds /\ b[2] \in Contents
    /\ policy \in [rules : Rules, saved : Rules \cup {None}]
    /\ synced \in [Creds -> Rules \cup {None}]
    /\ {failed, queued, updated, edited, rot.left, rules.left} \subseteq SUBSET Creds
    /\ guard \in {"idle", "rotate", "rules"}
    /\ (guard = "rules") = (rules.step # "idle")
    /\ (guard = "rotate") = (rot.step \in {"read", "backup", "canonical", "next", "rollback"} \/ Awaiting)
    /\ lock.by \in {"free", "rotate", "restore", "sync", "parse"}
    /\ lock.by \in {"rotate", "restore"} => guard = "rotate"
    /\ lock.by = "sync" => guard = "rules"
    /\ auths \in [Creds -> SUBSET Identities]
    /\ {owned, pending} \subseteq [Creds -> Identities \cup {None}]

(* Nothing the plugin does to a credential file undoes what somebody else has
   written to it: every write of a phase, a rollback, a rule update or a
   callback keeps the fields it does not own, unless the edit came between its
   last comparison and its rename (affinity.go:306, 277; error_rules.go:319,
   373). *)
EditsSurvive ==
    [][\A c \in Creds :
          file'[c] # file[c] /\ budget'.edits = budget.edits /\ ~lock.raced =>
            file'[c].mark = file[c].mark /\ file'[c].extra = file[c].extra]_vars

(* Whatever ends a rotation, a kill included, an account whose file carries an
   identity it was given has a recovery copy that differs from the file in
   nothing but rules and identity, and that has the identity of before if the
   last rotation changed it (affinity.go:255-263). *)
IdentitiesBackedUp ==
    \A c \in Creds \ edited :
        file[c] # None /\ file[c].route \notin {None, Earlier} =>
          \E b \in backups :
            /\ b[1] = c /\ b[2].mark = file[c].mark /\ b[2].extra = file[c].extra
            /\ file[c].route = Fresh => b[2].route # Fresh

(* When the operator is told that the original files have been restored, every
   file that nobody else has touched carries its former identity, in memory
   too (affinity.go:288-291). *)
RestoredFilesAreOriginal ==
    rot.step = "restored" =>
      \A c \in DOMAIN rot.files \ edited :
          file[c].route = rot.files[c].route /\ mem[c].route = rot.files[c].route

(* When the operator is told that the old sessions are gone, no identity from
   before is registered for any account, nor comes back by a late callback
   (affinity.go:173, 319). *)
OldIdentitiesGone ==
    rot.step = "reset" =>
      \A c \in DOMAIN rot.files \ edited :
          file[c].route = Fresh /\ auths[c] = {Fresh}

(* The two answers an operator acts on mean what they say. *)
RotationAnswersAreTrue == RestoredFilesAreOriginal /\ OldIdentitiesGone

(* An account whose rules are shown as synchronised has them on file, once the
   watcher has seen the last edit (error_rules.go:224-229); excepted is a
   repair that failed just before an earlier success was recorded. *)
SyncedRulesOnFile ==
    \A c \in Creds \ (queued \cup missed) :
        /\ file[c] # None /\ lock = Free /\ synced[c] = policy.rules /\ c \notin failed
        => file[c].rules = policy.rules

(* Every rotation ends, also when the plugin stops; and where nobody edits,
   nothing fails and the watcher is quick it ends with success, whatever had
   registered the files before (affinity.go:173-218, 319-326). *)
RotationEnds ==
    []<>(rot.step \in {"idle", "reset"} \cup
           (IF budget.slow THEN {"rejected", "restored", "partial"} ELSE {}))
=============================================================================
