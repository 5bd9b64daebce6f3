------------------------ MODULE CredentialFilesProofs ------------------------
(***************************************************************************)
(* Proofs about CredentialFiles, for any set of credentials and rules, any *)
(* number of rotations, edits, faults, stops, kills and rule updates: its  *)
(* types and locks, that foreign edits survive, that identities are backed *)
(* up, that rules shown as synchronised are on file, and that the answers  *)
(* of a rotation are true.                                                 *)
(***************************************************************************)
EXTENDS CredentialFiles, TLAPS

Counters == {"rotations", "edits", "faults", "stops", "crashes", "puts"}
Budgeted ==
    /\ budget = [creds |-> budget.creds, routes |-> budget.routes, policy |-> budget.policy,
                 slow |-> budget.slow, rotations |-> budget.rotations, edits |-> budget.edits,
                 faults |-> budget.faults, stops |-> budget.stops,
                 crashes |-> budget.crashes, puts |-> budget.puts]
    /\ budget.rotations \in 0..MaxRotations
    /\ {budget.edits, budget.faults, budget.stops, budget.crashes, budget.puts} \subseteq Nat

(* The files, the memory and what the host has of them. *)
Stored ==
    /\ file \in [Creds -> Contents \cup {None}] /\ mem \in [Creds -> Memories \cup {None}]
    /\ \A b \in backups : b[1] \in Creds /\ b[2] \in Contents
    /\ policy \in [rules : Rules, saved : Rules \cup {None}]
    /\ synced \in [Creds -> Rules \cup {None}]
    /\ failed \subseteq Creds /\ updated \subseteq Creds /\ edited \subseteq Creds
    /\ queued \subseteq Creds /\ \A c \in queued : file[c] \in Contents

Registered ==
    /\ auths \in [Creds -> SUBSET Identities]
    /\ owned \in [Creds -> Identities \cup {None}]
    /\ pending \in [Creds -> Identities \cup {None}]

Reading == rot.step = "read"
Writing == rot.step \in {"canonical", "awaitCanonical", "next", "awaitNext", "rollback"}

(* What a rotation holds of a file is the file's mark and extra, and what it
   has written differs from that in the identity only. *)
Held(c) ==
    /\ rot.files[c] \in Contents
    /\ rot.files[c].route = rot.creds[c].route

Rotating ==
    /\ rot = [step |-> rot.step, left |-> rot.left, creds |-> rot.creds, files |-> rot.files,
              written |-> rot.written, restored |-> rot.restored]
    /\ rot.step \in {"idle", "begun", "read", "backup", "canonical", "awaitCanonical", "next",
                     "awaitNext", "rollback", "rejected", "reset", "restored", "partial"}
    /\ rot.left \subseteq Creds
    /\ rot.step = "begun" => DOMAIN rot.files = {}
    /\ Reading => DOMAIN rot.files = DOMAIN rot.creds \ rot.left
    /\ rot.step = "backup" \/ Writing => DOMAIN rot.files = DOMAIN rot.creds
    /\ Reading \/ rot.step = "backup" \/ Writing =>
         /\ rot.left \subseteq DOMAIN rot.creds /\ DOMAIN rot.creds \subseteq Creds
         /\ rot.creds \in [DOMAIN rot.creds -> Memories]
         /\ rot.written = [c \in DOMAIN rot.creds |-> rot.written[c]]
         /\ \A c \in DOMAIN rot.files : Held(c)
    /\ Reading \/ rot.step = "backup" => \A c \in DOMAIN rot.creds : rot.written[c] = None
    /\ Writing => \A c \in DOMAIN rot.creds : rot.written[c] # None =>
         /\ rot.written[c] \in Contents
         /\ rot.written[c].mark = rot.files[c].mark
         /\ rot.written[c].extra = rot.files[c].extra
    /\ rot.step = "rollback" => \A c \in rot.left : rot.written[c] # None

Ruling ==
    /\ rules = [step |-> rules.step, left |-> rules.left, snap |-> rules.snap,
                new |-> rules.new, cred |-> rules.cred, ok |-> rules.ok]
    /\ rules.step \in {"idle", "publish", "sync"}
    /\ rules.left \subseteq Present /\ rules.cred \in Creds \cup {None}
    /\ rules.step = "publish" => rules.new \in Rules

(* Who may hold the locks. *)
Guarding ==
    /\ guard \in {"idle", "rotate", "rules"}
    /\ guard = "rules" <=> rules.step # "idle"
    /\ guard = "rotate" <=> Reading \/ rot.step = "backup" \/ Writing
    /\ lock.by \in {"free", "rotate", "restore", "sync", "parse"}
    /\ lock.by = "rotate" => rot.step \in {"canonical", "next"}
    /\ lock.by = "restore" => rot.step = "rollback"
    /\ lock.by = "sync" => rules.step = "sync" /\ rules.cred = None /\ lock.cred \in rules.left

Alike(r, q) == r.mark = q.mark /\ r.extra = q.extra

(* What the holder of authFileMu is about to write differs from what it has
   seen of the file in nothing the plugin does not own. *)
Locking ==
    /\ lock = [by |-> lock.by, step |-> lock.step, cred |-> lock.cred, seen |-> lock.seen,
               next |-> lock.next, raced |-> lock.raced]
    /\ lock.raced \in BOOLEAN
    /\ lock.by = "free" => lock.step = "none"
    /\ lock.by \in {"rotate", "restore"} => lock.step \in {"pick", "write"}
    /\ lock.by = "rotate" /\ lock.step = "write" =>
         /\ lock.cred \in DOMAIN rot.creds
         /\ lock.next = [rot.files[lock.cred] EXCEPT !.route = Target(lock.cred)]
    /\ lock.by = "restore" /\ lock.step = "write" =>
         lock.cred \in rot.left /\ lock.next = rot.files[lock.cred]
    /\ lock.by \in {"sync", "parse"} =>
         /\ lock.step \in {"compare", "write", "marked", "failed"}
         /\ lock.cred \in Creds /\ lock.seen \in Contents /\ lock.next \in Contents
         /\ lock.next.route = lock.seen.route /\ Alike(lock.next, lock.seen)
    /\ lock.by = "sync" => lock.step \in {"compare", "write"}
    /\ lock.step = "write" /\ ~lock.raced =>
         /\ file[lock.cred] \in Contents /\ Alike(file[lock.cred], lock.next)
         /\ lock.by \in {"sync", "parse"} => file[lock.cred].route = lock.next.route
    /\ lock.step = "write" /\ lock.raced => lock.cred \in edited

Before == rot.step \in {"begun", "read", "backup", "canonical", "awaitCanonical"}
UpTo(n) == {None, Name} \cup 0..n

(* The fresh identity is on no file before the second phase, and neither in a
   recovery copy nor in what a rotation would restore. *)
Fresher ==
    /\ \A c \in Creds : file[c] # None =>
         file[c].route \in UpTo(Fresh) /\ (Before => file[c].route \in UpTo(Fresh - 1))
    /\ lock.by \in {"sync", "parse"} =>
         lock.next.route \in UpTo(Fresh) /\ (Before => lock.next.route \in UpTo(Fresh - 1))
    /\ Reading \/ rot.step = "backup" \/ Writing =>
         \A c \in DOMAIN rot.files : rot.files[c].route \in UpTo(Fresh - 1)
    /\ \A b \in backups : b[2].route \in UpTo(Fresh - 1)

(* The copies are complete before anything is written. *)
Copied ==
    /\ rot.step = "backup" => \A c \in DOMAIN rot.creds \ rot.left : <<c, rot.files[c]>> \in backups
    /\ Writing => \A c \in DOMAIN rot.creds : <<c, rot.files[c]>> \in backups

IInv == /\ Budgeted /\ Stored /\ Registered /\ Rotating /\ Ruling /\ Guarding
        /\ Locking /\ Fresher /\ Copied /\ IdentitiesBackedUp

-----------------------------------------------------------------------------
LEMMA Spending ==
    ASSUME NEW what \in Counters, Budgeted, Spend(what)
    PROVE  /\ Budgeted'
           /\ budget'.slow = budget.slow
           /\ \A w \in Counters \ {what} : budget'[w] = budget[w]
           /\ budget'[what] = budget[what] - 1
<1> DEFINE n == budget[what] - 1
<1>1. budget' = [budget EXCEPT ![what] = n] /\ n \in Nat
      /\ (what = "rotations" => n \in 0..MaxRotations)
  <2>1. budget[what] \in Nat /\ budget[what] > 0
    BY DEF Counters, Budgeted, Spend
  <2>2. QED
    BY <2>1, CredentialFilesAssumption DEF Spend, Budgeted
<1> HIDE DEF n
<1>2. DOMAIN budget = {"creds", "routes", "policy", "slow"} \cup Counters
  BY DEF Budgeted, Counters
<1>3. \A w \in DOMAIN budget : budget'[w] = IF w = what THEN n ELSE budget[w]
  BY <1>1, <1>2
<1>4. budget' = [creds |-> budget'.creds, routes |-> budget'.routes, policy |-> budget'.policy,
                 slow |-> budget'.slow, rotations |-> budget'.rotations,
                 edits |-> budget'.edits, faults |-> budget'.faults, stops |-> budget'.stops,
                 crashes |-> budget'.crashes, puts |-> budget'.puts]
  BY <1>1, <1>2 DEF Counters
<1>5. budget'.rotations \in 0..MaxRotations
  BY <1>1, <1>2, <1>3 DEF Budgeted, Counters
<1>6. {budget'.edits, budget'.faults, budget'.stops, budget'.crashes, budget'.puts} \subseteq Nat
  BY <1>1, <1>2, <1>3 DEF Budgeted, Counters
<1>7. budget'.slow = budget.slow
  BY <1>2, <1>3 DEF Counters
<1>8. \A w \in Counters \ {what} : budget'[w] = budget[w]
  BY <1>2, <1>3
<1>9. budget'[what] = budget[what] - 1
  BY <1>2, <1>3 DEF n
<1>10. QED
  BY <1>4, <1>5, <1>6, <1>7, <1>8, <1>9 DEF Budgeted

(* What a spent budget leaves of the rotations and edits. *)
LEMMA SpendingOthers ==
    ASSUME NEW what \in {"faults", "stops", "crashes", "puts"}, Budgeted, Spend(what)
    PROVE  Budgeted' /\ Fresh' = Fresh /\ budget'.edits = budget.edits
<1>1. what \in Counters /\ "rotations" \in Counters \ {what} /\ "edits" \in Counters \ {what}
  BY DEF Counters
<1>2. QED
  BY <1>1, Spending DEF Fresh

LEMMA FreshType == ASSUME Budgeted PROVE Fresh \in 0..MaxRotations
BY CredentialFilesAssumption DEF Budgeted, Fresh

-----------------------------------------------------------------------------
(* What a step leaves alone *)

LEMMA StoredSame ==
    ASSUME Stored,
           UNCHANGED <<file, mem, backups, policy, synced, failed, queued, updated, edited>>
    PROVE  Stored'
BY DEF Stored

LEMMA RegisteredSame ==
    ASSUME Registered, UNCHANGED <<auths, owned, pending>> PROVE Registered'
BY DEF Registered

LEMMA RotatingSame == ASSUME Rotating, UNCHANGED rot PROVE Rotating'
BY DEF Rotating, Reading, Writing, Held

LEMMA RulingSame == ASSUME Ruling, UNCHANGED rules, Present \subseteq Present' PROVE Ruling'
BY DEF Ruling

LEMMA GuardingSame ==
    ASSUME Guarding, UNCHANGED <<guard, rot, rules>>,
           lock' = lock \/ lock' = Free \/ lock'.by = "parse"
    PROVE  Guarding'
BY DEF Guarding, Reading, Writing, Free

LEMMA LockFree == ASSUME lock' = Free PROVE Locking'
BY DEF Locking, Free, Alike

LEMMA LockingSame ==
    ASSUME Locking, UNCHANGED <<lock, file>>, Fresh' = Fresh, edited \subseteq edited',
           rot' = rot \/ lock.by \notin {"rotate", "restore"}
    PROVE  Locking'
<1>1. ASSUME rot' = rot PROVE Target(lock.cred)' = Target(lock.cred)
  BY <1>1 DEF Target
<1>2. QED
  BY <1>1 DEF Locking, Alike

LEMMA FresherSame ==
    ASSUME Fresher, UNCHANGED <<file, backups>>, Fresh' = Fresh,
           rot' = rot, lock' = lock \/ lock'.by \notin {"sync", "parse"}
    PROVE  Fresher'
BY DEF Fresher, Before, Reading, Writing

LEMMA CopiedSame ==
    ASSUME Copied, UNCHANGED rot, backups \subseteq backups' PROVE Copied'
BY DEF Copied, Writing

LEMMA BackedSame ==
    ASSUME IdentitiesBackedUp, UNCHANGED file, Fresh' = Fresh,
           backups \subseteq backups', edited \subseteq edited'
    PROVE  IdentitiesBackedUp'
BY DEF IdentitiesBackedUp

LEMMA BudgetSame == ASSUME Budgeted, UNCHANGED budget PROVE Budgeted' /\ Fresh' = Fresh
BY DEF Budgeted, Fresh

LEMMA Stuttering == ASSUME IInv, UNCHANGED vars PROVE IInv'
<1>1. UNCHANGED <<store, ruling, hosted, context, guard, lock, rot, rules, budget>>
  BY DEF vars, store, ruling, hosted, context
<1>2. Budgeted' /\ Fresh' = Fresh
  BY <1>1, BudgetSame DEF IInv
<1>3. QED
  BY <1>1, <1>2, StoredSame, RegisteredSame, RotatingSame, RulingSame, GuardingSame, LockingSame,
     FresherSame, CopiedSame, BackedSame
     DEF IInv, Present, store, ruling, hosted, context

-----------------------------------------------------------------------------
(* The rotation up to its first write *)

LEMMA RotateBeginInv ==
    ASSUME IInv, RotateBegin
    PROVE  IInv'
<1>1. UNCHANGED <<file, mem, policy, synced, failed, guard, lock, rules, backups, queued,
                pending, auths, owned, updated, stopped, edited, missed>>
  BY DEF RotateBegin, store, ruling, hosted, context
<1>2. Budgeted' /\ Fresh' = Fresh + 1
  BY CredentialFilesAssumption, Spending DEF RotateBegin, IInv, Counters, Fresh, Budgeted
<1>3. Stored'
  BY <1>1, <1>2, StoredSame DEF IInv
<1>4. Registered'
  BY <1>1, <1>2, RegisteredSame DEF IInv
<1>5. Rotating'
  <2>1. rot' = [NoRotation EXCEPT !.step = "begun"]
    BY DEF RotateBegin
  <2>2. rot'.step = "begun" /\ rot'.left = {} /\ rot'.files = <<>>
    BY <2>1 DEF NoRotation
  <2>3. DOMAIN << >> = {}
    OBVIOUS
  <2>4. QED
    BY <2>1, <2>2, <2>3 DEF Rotating, Reading, Writing, NoRotation
<1>6. Ruling'
  BY <1>1, <1>2, RulingSame DEF IInv, Present
<1>7. Guarding'
  BY <1>1 DEF RotateBegin, IInv, Guarding, NoRotation, Rotating, Reading, Writing, Held
<1>8. Locking'
  BY <1>1 DEF RotateBegin, IInv, Locking, Alike, Guarding
<1>9. Fresher'
  <2>1. UpTo(Fresh) \subseteq UpTo(Fresh') /\ UpTo(Fresh' - 1) = UpTo(Fresh)
        /\ UpTo(Fresh - 1) \subseteq UpTo(Fresh' - 1)
    BY <1>2, FreshType DEF UpTo, IInv
  <2>2. rot'.step = "begun"
    BY DEF RotateBegin, NoRotation
  <2>3. QED
    BY <1>1, <2>1, <2>2 DEF IInv, Fresher, Before, Reading, Writing
<1>10. Copied'
  BY DEF RotateBegin, NoRotation, Copied, Writing
<1>11. IdentitiesBackedUp'
  <2>1. ASSUME NEW c \in Creds, file[c] # None PROVE file[c].route # Fresh'
    <3>1. Fresh \in 0..MaxRotations /\ Fresh' \in 0..MaxRotations
      BY <1>2, FreshType, CredentialFilesAssumption DEF IInv, Budgeted, Fresh
    <3>2. Fresh' # None /\ Fresh' # Name
      BY <3>1, CredentialFilesAssumption
    <3>3. file[c].route \in UpTo(Fresh)
      BY <2>1 DEF IInv, Fresher
    <3>4. QED
      BY <1>2, <3>1, <3>2, <3>3 DEF UpTo
  <2>2. QED
    BY <1>1, <2>1 DEF IInv, IdentitiesBackedUp
<1>12. QED
  BY <1>2, <1>3, <1>4, <1>5, <1>6, <1>7, <1>8, <1>9, <1>10, <1>11 DEF IInv

LEMMA RotateEnterInv ==
    ASSUME IInv, RotateEnter
    PROVE  IInv'
<1>1. UNCHANGED <<file, mem, policy, synced, failed, lock, rules, backups, queued, pending,
                auths, owned, updated, stopped, budget, edited, missed>>
  BY DEF RotateEnter, store, ruling, hosted, context
<1>2. Budgeted' /\ Fresh' = Fresh
  BY <1>1, BudgetSame DEF IInv
<1>3. Stored'
  BY <1>1, <1>2, StoredSame DEF IInv
<1>4. Registered'
  BY <1>1, <1>2, RegisteredSame DEF IInv
<1>5. Rotating'
  <2>1. CASE Present = {}
    BY <2>1 DEF RotateEnter, IInv, Goto, Rotating, Reading, Writing, Held
  <2>2. CASE Present # {}
    <3>1. rot' = [rot EXCEPT !.step = "read", !.left = Present,
                             !.creds = [c \in Present |-> mem[c]],
                             !.written = [c \in Present |-> None]]
      BY <2>2 DEF RotateEnter
    <3>2. \A c \in Present : c \in Creds /\ mem[c] \in Memories
      BY DEF Present, IInv, Stored
    <3>3. rot.step = "begun" /\ DOMAIN rot.files = {}
      BY DEF RotateEnter, IInv, Rotating
    <3>4. QED
      BY <3>1, <3>2, <3>3 DEF IInv, Rotating, Reading, Writing, Held
  <2>3. QED
    BY <2>1, <2>2
<1>6. Ruling'
  BY <1>1, <1>2, RulingSame DEF IInv, Present
<1>7. Guarding'
  BY <1>1 DEF RotateEnter, IInv, Guarding, Goto, Rotating, Reading, Writing, Held
<1>8. Locking'
  BY <1>1, <1>2, LockingSame DEF RotateEnter, IInv, Guarding
<1>9. Fresher'
  BY <1>1, <1>2 DEF RotateEnter, IInv, Goto, Rotating, Fresher, Before, Reading, Writing
<1>10. Copied'
  BY DEF RotateEnter, Goto, IInv, Rotating, Copied, Writing
<1>11. IdentitiesBackedUp'
  BY <1>1, <1>2, BackedSame DEF IInv
<1>12. QED
  BY <1>2, <1>3, <1>4, <1>5, <1>6, <1>7, <1>8, <1>9, <1>10, <1>11 DEF IInv

LEMMA RotateRejectedInv ==
    ASSUME IInv, RotateRejected
    PROVE  IInv'
<1>1. UNCHANGED <<file, mem, policy, synced, failed, lock, rules, backups, queued, pending,
                auths, owned, updated, stopped, edited, missed>>
  BY DEF RotateRejected, store, ruling, hosted, context, Answer
<1>2. Budgeted' /\ Fresh' = Fresh
  BY SpendingOthers, BudgetSame DEF IInv, RotateRejected, Answer
<1>3. Stored'
  BY <1>1, <1>2, StoredSame DEF IInv
<1>4. Registered'
  BY <1>1, <1>2, RegisteredSame DEF IInv
<1>5. Rotating'
  BY DEF RotateRejected, Answer, Goto, IInv, Rotating, Reading, Writing, Held
<1>6. Ruling'
  BY <1>1, <1>2, RulingSame DEF IInv, Present
<1>7. Guarding'
  BY <1>1 DEF RotateRejected, Answer, Goto, IInv, Guarding, Rotating, Reading, Writing, Held
<1>8. Locking'
  BY <1>1, <1>2, LockingSame DEF RotateRejected, IInv, Guarding
<1>9. Fresher'
  BY <1>1, <1>2 DEF RotateRejected, Answer, Goto, IInv, Rotating, Fresher, Before, Reading, Writing
<1>10. Copied'
  BY DEF RotateRejected, Answer, Goto, IInv, Rotating, Copied, Writing
<1>11. IdentitiesBackedUp'
  BY <1>1, <1>2, BackedSame DEF IInv
<1>12. QED
  BY <1>2, <1>3, <1>4, <1>5, <1>6, <1>7, <1>8, <1>9, <1>10, <1>11 DEF IInv

LEMMA RotateReadInv ==
    ASSUME IInv, NEW c \in Creds, RotateRead(c)
    PROVE  IInv'
<1>1. UNCHANGED <<file, mem, policy, synced, failed, guard, lock, rules, backups, queued,
                pending, auths, owned, updated, stopped, budget, edited, missed>>
  BY DEF RotateRead, store, ruling, hosted, context
<1>2. Budgeted' /\ Fresh' = Fresh
  BY <1>1, BudgetSame DEF IInv
<1>3. Stored'
  BY <1>1, <1>2, StoredSame DEF IInv
<1>4. Registered'
  BY <1>1, <1>2, RegisteredSame DEF IInv
<1>5. Rotating'
  <2>1. rot.step = "read" /\ c \in rot.left /\ c \in DOMAIN rot.creds
    BY DEF RotateRead, IInv, Rotating, Reading
  <2>2. file[c] \in Contents /\ file[c].route = rot.creds[c].route
    BY DEF RotateRead, Matches, IInv, Stored
  <2>3. /\ rot' = [rot EXCEPT !.files = rot'.files, !.left = rot.left \ {c}]
        /\ rot'.files = [d \in DOMAIN rot.files \cup {c} |-> IF d = c THEN file[c] ELSE rot.files[d]]
    BY DEF RotateRead, IInv, Rotating
  <2>4. DOMAIN rot'.files = DOMAIN rot'.creds \ rot'.left
    BY <2>1, <2>3 DEF IInv, Rotating, Reading
  <2>5. \A d \in DOMAIN rot'.files : Held(d)'
    BY <2>1, <2>2, <2>3 DEF IInv, Rotating, Reading, Held
  <2>6. QED
    BY <2>1, <2>3, <2>4, <2>5 DEF IInv, Rotating, Reading, Writing
<1>6. Ruling'
  BY <1>1, <1>2, RulingSame DEF IInv, Present
<1>7. Guarding'
  BY <1>1 DEF RotateRead, IInv, Guarding, Rotating, Reading, Writing, Held
<1>8. Locking'
  BY <1>1, <1>2, LockingSame DEF RotateRead, IInv, Guarding
<1>9. Fresher'
  <2>1. rot.step = "read" /\ rot'.step = "read" /\ file[c] # None
    BY DEF RotateRead, Matches, IInv, Rotating
  <2>2. \A d \in DOMAIN rot'.files : rot'.files[d].route \in UpTo(Fresh - 1)
    BY <2>1 DEF RotateRead, IInv, Rotating, Fresher, Reading, Before
  <2>3. QED
    BY <1>1, <1>2, <2>1, <2>2 DEF IInv, Fresher, Before, Reading, Writing
<1>10. Copied'
  BY DEF RotateRead, IInv, Rotating, Copied, Writing
<1>11. IdentitiesBackedUp'
  BY <1>1, <1>2, BackedSame DEF IInv
<1>12. QED
  BY <1>2, <1>3, <1>4, <1>5, <1>6, <1>7, <1>8, <1>9, <1>10, <1>11 DEF IInv

LEMMA BackupBeginInv ==
    ASSUME IInv, BackupBegin
    PROVE  IInv'
<1>1. UNCHANGED <<file, mem, policy, synced, failed, guard, lock, rules, backups, queued,
                pending, auths, owned, updated, stopped, budget, edited, missed>>
  BY DEF BackupBegin, store, ruling, hosted, context
<1>2. Budgeted' /\ Fresh' = Fresh
  BY <1>1, BudgetSame DEF IInv
<1>3. Stored'
  BY <1>1, <1>2, StoredSame DEF IInv
<1>4. Registered'
  BY <1>1, <1>2, RegisteredSame DEF IInv
<1>5. Rotating'
  BY DEF BackupBegin, IInv, Rotating, Reading, Writing, Held
<1>6. Ruling'
  BY <1>1, <1>2, RulingSame DEF IInv, Present
<1>7. Guarding'
  BY <1>1 DEF BackupBegin, IInv, Guarding, Rotating, Reading, Writing, Held
<1>8. Locking'
  BY <1>1, <1>2, LockingSame DEF BackupBegin, IInv, Guarding
<1>9. Fresher'
  BY <1>1, <1>2 DEF BackupBegin, IInv, Rotating, Fresher, Before, Reading, Writing
<1>10. Copied'
  BY DEF BackupBegin, IInv, Rotating, Copied, Writing
<1>11. IdentitiesBackedUp'
  BY <1>1, <1>2, BackedSame DEF IInv
<1>12. QED
  BY <1>2, <1>3, <1>4, <1>5, <1>6, <1>7, <1>8, <1>9, <1>10, <1>11 DEF IInv

LEMMA BackupFileInv ==
    ASSUME IInv, NEW c \in Creds, BackupFile(c)
    PROVE  IInv'
<1>1. UNCHANGED <<file, mem, policy, synced, failed, guard, lock, rules, queued, pending,
                auths, owned, updated, stopped, budget, missed>>
  BY DEF BackupFile, store, ruling, hosted, context
<1>2. Budgeted' /\ Fresh' = Fresh
  BY <1>1, BudgetSame DEF IInv
<1>3. Stored'
  <2>1. c \in Creds /\ rot.files[c] \in Contents
    BY DEF BackupFile, IInv, Rotating, Reading, Writing, Held
  <2>2. QED
    BY <1>1, <2>1 DEF BackupFile, IInv, Stored
<1>4. Registered'
  BY <1>1, <1>2, RegisteredSame DEF IInv
<1>5. Rotating'
  BY DEF BackupFile, IInv, Rotating, Reading, Writing, Held
<1>6. Ruling'
  BY <1>1, <1>2, RulingSame DEF IInv, Present
<1>7. Guarding'
  BY <1>1 DEF BackupFile, IInv, Guarding, Rotating, Reading, Writing, Held
<1>8. Locking'
  <2>1. lock.by \notin {"rotate", "restore"}
    BY DEF BackupFile, IInv, Guarding
  <2>2. lock.step = "write" /\ lock.cred \in edited => lock.cred \in edited'
    BY DEF BackupFile
  <2>3. QED
    BY <1>1, <2>1, <2>2 DEF IInv, Locking, Alike
<1>9. Fresher'
  <2>1. rot.step = "backup" /\ rot'.step = "backup" /\ rot'.files = rot.files
        /\ c \in DOMAIN rot.files
    BY DEF BackupFile, IInv, Rotating
  <2>2. \A b \in backups' : b[2].route \in UpTo(Fresh - 1)
    BY <2>1 DEF BackupFile, IInv, Fresher
  <2>3. QED
    BY <1>1, <1>2, <2>1, <2>2 DEF IInv, Fresher, Before, Reading, Writing
<1>10. Copied'
  BY DEF BackupFile, IInv, Rotating, Copied, Writing
<1>11. IdentitiesBackedUp'
  <2>1. ASSUME NEW d \in Creds \ edited', file[d] # None, d \in edited
        PROVE  d = c /\ <<d, file[d]>> \in backups' /\ file[d].route # Fresh
    <3>1. d = c /\ file[d] = rot.files[d] /\ rot.step = "backup"
      BY <2>1 DEF BackupFile
    <3>2. file[d].route # Fresh
      BY <2>1, <3>1, FreshType, CredentialFilesAssumption DEF IInv, Fresher, UpTo, Before
    <3>3. QED
      BY <3>1, <3>2 DEF BackupFile
  <2>2. edited' \subseteq edited /\ backups \subseteq backups'
    BY DEF BackupFile
  <2>3. ASSUME NEW d \in Creds \ edited', file[d] # None, file[d].route \notin {None, Earlier}
        PROVE  \E b \in backups' :
                 /\ b[1] = d /\ b[2].mark = file[d].mark /\ b[2].extra = file[d].extra
                 /\ file[d].route = Fresh => b[2].route # Fresh
    <3>1. CASE d \in edited
      BY <2>1, <2>3, <3>1
    <3>2. CASE d \notin edited
      BY <2>2, <2>3, <3>2 DEF IInv, IdentitiesBackedUp
    <3>3. QED
      BY <3>1, <3>2
  <2>4. QED
    BY <1>1, <1>2, <2>3 DEF IdentitiesBackedUp
<1>12. QED
  BY <1>2, <1>3, <1>4, <1>5, <1>6, <1>7, <1>8, <1>9, <1>10, <1>11 DEF IInv

LEMMA BackupDoneInv ==
    ASSUME IInv, BackupDone
    PROVE  IInv'
<1>1. UNCHANGED <<file, mem, policy, synced, failed, guard, lock, rules, backups, queued,
                pending, auths, owned, stopped, budget, edited, missed>>
  BY DEF BackupDone, store, ruling, hosted, context
<1>2. Budgeted' /\ Fresh' = Fresh
  BY <1>1, BudgetSame DEF IInv
<1>3. Stored'
  BY <1>1 DEF BackupDone, IInv, Stored
<1>4. Registered'
  BY <1>1, <1>2, RegisteredSame DEF IInv
<1>5. Rotating'
  BY DEF BackupDone, IInv, Rotating, Reading, Writing, Held
<1>6. Ruling'
  BY <1>1, <1>2, RulingSame DEF IInv, Present
<1>7. Guarding'
  BY <1>1 DEF BackupDone, IInv, Guarding, Rotating, Reading, Writing, Held
<1>8. Locking'
  BY <1>1, <1>2, LockingSame DEF BackupDone, IInv, Guarding
<1>9. Fresher'
  BY <1>1, <1>2 DEF BackupDone, IInv, Rotating, Fresher, Before, Reading, Writing
<1>10. Copied'
  BY <1>1 DEF BackupDone, IInv, Rotating, Copied, Writing
<1>11. IdentitiesBackedUp'
  BY <1>1, <1>2, BackedSame DEF IInv
<1>12. QED
  BY <1>2, <1>3, <1>4, <1>5, <1>6, <1>7, <1>8, <1>9, <1>10, <1>11 DEF IInv

-----------------------------------------------------------------------------
(* The writing phases *)

(* What a phase writes differs from the copy in the identity only. *)
LEMMA TargetType ==
    ASSUME IInv, NEW c \in DOMAIN rot.creds, Writing
    PROVE  /\ [rot.files[c] EXCEPT !.route = Target(c)] \in Contents
           /\ [rot.files[c] EXCEPT !.route = Target(c)].route = Target(c)
           /\ Alike([rot.files[c] EXCEPT !.route = Target(c)], rot.files[c])
           /\ Target(c) \in UpTo(Fresh)
           /\ rot.step # "next" => Target(c) \in UpTo(Fresh - 1)
<1>1. rot.files[c] \in Contents /\ rot.files[c].route = rot.creds[c].route
      /\ rot.files[c].route \in UpTo(Fresh - 1)
  BY DEF IInv, Rotating, Held, Fresher
<1>2. Fresh \in 0..MaxRotations /\ UpTo(Fresh - 1) \subseteq UpTo(Fresh)
  BY FreshType DEF IInv, UpTo
<1>3. Target(c) \in UpTo(Fresh) /\ (rot.step # "next" => Target(c) \in UpTo(Fresh - 1))
  BY <1>1, <1>2 DEF Target, UpTo
<1>4. UpTo(Fresh) \subseteq Routes
  BY <1>2, CredentialFilesAssumption DEF UpTo, Routes, Earlier
<1>5. QED
  BY <1>1, <1>3, <1>4 DEF Contents, Alike

LEMMA PhaseBeginInv ==
    ASSUME IInv, PhaseBegin
    PROVE  IInv'
<1>1. UNCHANGED <<file, mem, policy, synced, failed, guard, rot, rules, backups, queued,
                pending, auths, owned, updated, stopped, budget, edited, missed>>
  BY DEF PhaseBegin, store, ruling, hosted, context
<1>2. Budgeted' /\ Fresh' = Fresh
  BY <1>1, BudgetSame DEF IInv
<1>3. Stored'
  BY <1>1, <1>2, StoredSame DEF IInv
<1>4. Registered'
  BY <1>1, <1>2, RegisteredSame DEF IInv
<1>5. Rotating'
  BY <1>1, <1>2, RotatingSame DEF IInv
<1>6. Ruling'
  BY <1>1, <1>2, RulingSame DEF IInv, Present
<1>7. Guarding'
  BY <1>1 DEF PhaseBegin, IInv, Guarding, Free, Rotating, Reading, Writing, Held
<1>8. Locking'
  BY <1>1 DEF PhaseBegin, Locking, Free
<1>9. Fresher'
  BY <1>1, <1>2, FresherSame DEF PhaseBegin, IInv, Free
<1>10. Copied'
  BY <1>1, <1>2, CopiedSame DEF IInv
<1>11. IdentitiesBackedUp'
  BY <1>1, <1>2, BackedSame DEF IInv
<1>12. QED
  BY <1>2, <1>3, <1>4, <1>5, <1>6, <1>7, <1>8, <1>9, <1>10, <1>11 DEF IInv

LEMMA PhaseCompareInv ==
    ASSUME IInv, NEW c \in Creds, PhaseCompare(c)
    PROVE  IInv'
<1>1. UNCHANGED <<file, mem, policy, synced, failed, guard, rot, rules, backups, queued,
                pending, auths, owned, updated, stopped, budget, edited, missed>>
  BY DEF PhaseCompare, store, ruling, hosted, context
<1>2. Budgeted' /\ Fresh' = Fresh
  BY <1>1, BudgetSame DEF IInv
<1>3. Stored'
  BY <1>1, <1>2, StoredSame DEF IInv
<1>4. Registered'
  BY <1>1, <1>2, RegisteredSame DEF IInv
<1>5. Rotating'
  BY <1>1, <1>2, RotatingSame DEF IInv
<1>6. Ruling'
  BY <1>1, <1>2, RulingSame DEF IInv, Present
<1>7. Guarding'
  BY <1>1 DEF PhaseCompare, IInv, Guarding, Locking, Rotating, Reading, Writing, Held
<1>8. Locking'
  <2>1. lock.by = "rotate" /\ rot.step \in {"canonical", "next"} /\ Writing /\ c \in DOMAIN rot.creds
    BY DEF PhaseCompare, IInv, Guarding, Rotating, Writing
  <2>2. /\ lock' = [lock EXCEPT !.step = "write", !.cred = c, !.raced = FALSE, !.next = lock'.next]
        /\ lock'.next = [rot.files[c] EXCEPT !.route = Target(c)]
    BY DEF PhaseCompare, IInv, Locking
  <2>3. Target(c)' = Target(c)
    BY <1>1, <1>2 DEF Target
  <2>4. file[c] \in Contents /\ Alike(file[c], rot.files[c])
    BY <2>1 DEF PhaseCompare, Expected, IInv, Rotating, Held, Writing, Alike
  <2>5. Alike(file[c], lock'.next)
    BY <2>1, <2>2, <2>4, TargetType DEF Alike
  <2>6. lock'.step = "write" /\ lock'.cred = c /\ lock'.by = "rotate" /\ lock'.raced = FALSE
        /\ lock' = [by |-> lock'.by, step |-> lock'.step, cred |-> lock'.cred,
                    seen |-> lock'.seen, next |-> lock'.next, raced |-> lock'.raced]
    BY <2>1, <2>2 DEF IInv, Locking
  <2>7. Alike(file[lock.cred], lock.next)'
    BY <1>1, <2>5, <2>6 DEF Alike
  <2>8. QED
    BY <1>1, <2>1, <2>2, <2>3, <2>4, <2>6, <2>7 DEF Locking
<1>9. Fresher'
  BY <1>1, <1>2, FresherSame DEF PhaseCompare, IInv, Locking
<1>10. Copied'
  BY <1>1, <1>2, CopiedSame DEF IInv
<1>11. IdentitiesBackedUp'
  BY <1>1, <1>2, BackedSame DEF IInv
<1>12. QED
  BY <1>2, <1>3, <1>4, <1>5, <1>6, <1>7, <1>8, <1>9, <1>10, <1>11 DEF IInv

LEMMA PhaseRefusedInv ==
    ASSUME IInv, PhaseRefused
    PROVE  IInv'
<1>1. UNCHANGED <<file, mem, policy, synced, failed, guard, rules, backups, queued, pending,
                auths, owned, updated, stopped, edited, missed>>
  BY DEF PhaseRefused, store, ruling, hosted, context, PhaseFails
<1>2. Budgeted' /\ Fresh' = Fresh
  BY SpendingOthers, BudgetSame DEF IInv, PhaseRefused, PhaseFails
<1>3. Stored'
  BY <1>1, <1>2, StoredSame DEF IInv
<1>4. Registered'
  BY <1>1, <1>2, RegisteredSame DEF IInv
<1>5. Rotating'
  <2>1. rot' = [rot EXCEPT !.step = "rollback",
                           !.left = {c \in DOMAIN rot.written : rot.written[c] # None}]
    BY DEF PhaseRefused, PhaseFails
  <2>2. Writing /\ rot'.step = "rollback" /\ Writing'
    BY <2>1 DEF PhaseRefused, PhaseFails, IInv, Guarding, Rotating, Writing, Awaiting
  <2>3. QED
    BY <2>1, <2>2 DEF IInv, Rotating, Reading, Writing, Held
<1>6. Ruling'
  BY <1>1, <1>2, RulingSame DEF IInv, Present
<1>7. Guarding'
  BY <1>1 DEF PhaseRefused, PhaseFails, IInv, Guarding, Free, Awaiting, Rotating, Reading, Writing, Held
<1>8. Locking'
  BY LockFree DEF PhaseRefused, PhaseFails
<1>9. Fresher'
  BY <1>1, <1>2 DEF PhaseRefused, PhaseFails, IInv, Guarding, Awaiting, Free, Rotating, Fresher, Before, Reading, Writing
<1>10. Copied'
  BY <1>1 DEF PhaseRefused, PhaseFails, IInv, Guarding, Awaiting, Rotating, Copied, Writing
<1>11. IdentitiesBackedUp'
  BY <1>1, <1>2, BackedSame DEF IInv
<1>12. QED
  BY <1>2, <1>3, <1>4, <1>5, <1>6, <1>7, <1>8, <1>9, <1>10, <1>11 DEF IInv

LEMMA PhaseWriteInv ==
    ASSUME IInv, PhaseWrite
    PROVE  IInv'
<1>1. UNCHANGED <<policy, synced, failed, guard, rules, backups, pending, auths, owned,
                updated, stopped, budget, edited, missed>>
  BY DEF PhaseWrite, store, ruling, hosted, context
<1>2. Budgeted' /\ Fresh' = Fresh
  BY <1>1, BudgetSame DEF IInv
<1>3. Stored'
  <2>1. Writing /\ lock.cred \in DOMAIN rot.creds /\ lock.cred \in Creds
        /\ rot.creds[lock.cred] \in Memories
    BY DEF PhaseWrite, IInv, Guarding, Locking, Rotating, Writing
  <2>2. lock.next \in Contents /\ Target(lock.cred) \in UpTo(Fresh)
    BY <2>1, TargetType DEF PhaseWrite, IInv, Locking
  <2>3. UpTo(Fresh) \subseteq Routes
    BY FreshType, CredentialFilesAssumption DEF IInv, UpTo, Routes, Earlier
  <2>4. [rot.creds[lock.cred] EXCEPT !.route = Target(lock.cred)] \in Memories
    BY <2>1, <2>2, <2>3 DEF Memories
  <2>5. file' \in [Creds -> Contents \cup {None}] /\ mem' \in [Creds -> Memories \cup {None}]
    BY <2>1, <2>2, <2>4 DEF PhaseWrite, IInv, Stored
  <2>6. queued' \subseteq Creds /\ \A c \in queued' : file'[c] \in Contents
    BY <2>1, <2>2 DEF PhaseWrite, IInv, Stored
  <2>7. QED
    BY <1>1, <2>5, <2>6 DEF IInv, Stored
<1>4. Registered'
  BY <1>1, <1>2, RegisteredSame DEF IInv
<1>5. Rotating'
  <2>1. Writing /\ lock.cred \in DOMAIN rot.creds /\ rot.step \in {"canonical", "next"}
        /\ lock.by = "rotate" /\ lock.step = "write"
    BY DEF PhaseWrite, IInv, Guarding, Locking, Rotating, Writing
  <2>2. lock.next \in Contents /\ Alike(lock.next, rot.files[lock.cred])
    BY <2>1, TargetType DEF IInv, Locking
  <2>3. /\ rot' = [rot EXCEPT !.written = rot'.written, !.left = rot'.left]
        /\ rot'.written = [rot.written EXCEPT ![lock.cred] = lock.next]
        /\ rot'.left = rot.left \ {lock.cred}
    BY DEF PhaseWrite, IInv, Rotating
  <2>4. rot'.written = [c \in DOMAIN rot.creds |-> rot'.written[c]]
        /\ \A c \in DOMAIN rot.creds :
             rot'.written[c] = IF c = lock.cred THEN lock.next ELSE rot.written[c]
    BY <2>1, <2>3 DEF IInv, Rotating
  <2>5. rot'.step = rot.step /\ rot'.creds = rot.creds /\ rot'.files = rot.files
        /\ rot'.left \subseteq rot.left
        /\ rot' = [step |-> rot'.step, left |-> rot'.left, creds |-> rot'.creds, files |-> rot'.files,
                   written |-> rot'.written, restored |-> rot'.restored]
    BY <2>3 DEF IInv, Rotating
  <2>6. \A c \in DOMAIN rot.creds : rot'.written[c] # None =>
         /\ rot'.written[c] \in Contents
         /\ rot'.written[c].mark = rot.files[c].mark
         /\ rot'.written[c].extra = rot.files[c].extra
    BY <2>1, <2>2, <2>4 DEF IInv, Rotating, Alike
  <2>7. QED
    BY <2>1, <2>4, <2>5, <2>6 DEF IInv, Rotating, Reading, Writing, Held
<1>6. Ruling'
  <2>1. lock.cred \in DOMAIN rot.creds /\ rot.creds[lock.cred] \in Memories /\ Writing
    BY DEF PhaseWrite, IInv, Guarding, Locking, Rotating, Writing
  <2>2. Target(lock.cred) \in UpTo(Fresh) /\ UpTo(Fresh) \subseteq Routes
    <3>1. Target(lock.cred) \in UpTo(Fresh)
      BY <2>1, TargetType
    <3>2. Fresh \in 0..MaxRotations
      BY FreshType DEF IInv
    <3>3. QED
      BY <3>1, <3>2, CredentialFilesAssumption DEF UpTo, Routes, Earlier
  <2>3. [rot.creds[lock.cred] EXCEPT !.route = Target(lock.cred)] \in Memories
    BY <2>1, <2>2 DEF Memories
  <2>4. Present \subseteq Present'
    BY <2>3, CredentialFilesAssumption DEF PhaseWrite, IInv, Stored, Present
  <2>5. QED
    BY <1>1, <2>4, RulingSame DEF IInv
<1>7. Guarding'
  BY <1>1 DEF PhaseWrite, IInv, Guarding, Free, Rotating, Reading, Writing, Held
<1>8. Locking'
  BY <1>1 DEF PhaseWrite, Locking, Free
<1>9. Fresher'
  <2>1. Writing /\ lock.cred \in DOMAIN rot.creds /\ lock.cred \in Creds
        /\ rot'.step = rot.step /\ rot'.creds = rot.creds /\ rot'.files = rot.files
    BY DEF PhaseWrite, IInv, Guarding, Locking, Rotating, Writing
  <2>2. lock.next.route = Target(lock.cred)
    BY <2>1, TargetType DEF PhaseWrite, IInv, Locking
  <2>3. lock.next.route \in UpTo(Fresh) /\ (Before => lock.next.route \in UpTo(Fresh - 1))
    BY <2>1, <2>2, TargetType DEF Before
  <2>4. \A c \in Creds : file'[c] = IF c = lock.cred THEN lock.next ELSE file[c]
    BY DEF PhaseWrite, IInv, Stored
  <2>5. lock'.by = "rotate" /\ Before' = Before
    BY <2>1 DEF PhaseWrite, Free, Before
  <2>6. QED
    BY <1>1, <1>2, <2>1, <2>3, <2>4, <2>5 DEF IInv, Fresher, Reading, Writing
<1>10. Copied'
  <2>1. rot'.step = rot.step /\ rot'.creds = rot.creds /\ rot'.files = rot.files
        /\ rot.step # "backup"
    BY DEF PhaseWrite, IInv, Rotating, Guarding
  <2>2. QED
    BY <1>1, <2>1 DEF IInv, Copied, Writing
<1>11. IdentitiesBackedUp'
  <2>1. Writing /\ lock.cred \in DOMAIN rot.creds /\ lock.cred \in Creds
    BY DEF PhaseWrite, IInv, Guarding, Locking, Rotating, Writing
  <2>2. Alike(lock.next, rot.files[lock.cred])
    BY <2>1, TargetType DEF PhaseWrite, IInv, Locking
  <2>3. <<lock.cred, rot.files[lock.cred]>> \in backups /\ rot.files[lock.cred].route # Fresh
    <3>1. Fresh \in 0..MaxRotations
      BY FreshType DEF IInv
    <3>2. QED
      BY <2>1, <3>1, CredentialFilesAssumption DEF IInv, Copied, Fresher, Rotating, UpTo, Writing
  <2>4. \A c \in Creds : file'[c] = IF c = lock.cred THEN lock.next ELSE file[c]
    BY DEF PhaseWrite, IInv, Stored
  <2>5. ASSUME NEW d \in Creds \ edited, file'[d] # None, file'[d].route \notin {None, Earlier}
        PROVE  \E b \in backups :
                 /\ b[1] = d /\ b[2].mark = file'[d].mark /\ b[2].extra = file'[d].extra
                 /\ file'[d].route = Fresh => b[2].route # Fresh
    <3>1. CASE d = lock.cred
      <4>1. file'[d] = lock.next
        BY <2>4, <3>1
      <4>2. LET b == <<lock.cred, rot.files[lock.cred]>> IN
              b[1] = d /\ b[2].mark = file'[d].mark /\ b[2].extra = file'[d].extra
              /\ b[2].route # Fresh
        BY <2>2, <2>3, <3>1, <4>1 DEF Alike
      <4>3. QED
        BY <2>3, <4>2
    <3>2. CASE d # lock.cred
      BY <2>4, <2>5, <3>2 DEF IInv, IdentitiesBackedUp
    <3>3. QED
      BY <3>1, <3>2
  <2>6. QED
    BY <1>1, <1>2, <2>5 DEF IdentitiesBackedUp
<1>12. QED
  BY <1>2, <1>3, <1>4, <1>5, <1>6, <1>7, <1>8, <1>9, <1>10, <1>11 DEF IInv

LEMMA PhaseDoneInv ==
    ASSUME IInv, PhaseDone
    PROVE  IInv'
<1>1. UNCHANGED <<file, mem, policy, synced, failed, guard, rules, backups, queued, pending,
                auths, owned, updated, stopped, budget, edited, missed>>
  BY DEF PhaseDone, store, ruling, hosted, context
<1>2. Budgeted' /\ Fresh' = Fresh
  BY <1>1, BudgetSame DEF IInv
<1>3. Stored'
  BY <1>1, <1>2, StoredSame DEF IInv
<1>4. Registered'
  BY <1>1, <1>2, RegisteredSame DEF IInv
<1>5. Rotating'
  BY DEF PhaseDone, Goto, IInv, Guarding, Rotating, Reading, Writing, Held
<1>6. Ruling'
  BY <1>1, <1>2, RulingSame DEF IInv, Present
<1>7. Guarding'
  BY <1>1 DEF PhaseDone, Goto, IInv, Guarding, Free, Rotating, Reading, Writing, Held
<1>8. Locking'
  BY LockFree DEF PhaseDone
<1>9. Fresher'
  BY <1>1, <1>2 DEF PhaseDone, Goto, IInv, Guarding, Free, Rotating, Fresher, Before, Reading, Writing
<1>10. Copied'
  BY <1>1 DEF PhaseDone, Goto, IInv, Guarding, Rotating, Copied, Writing
<1>11. IdentitiesBackedUp'
  BY <1>1, <1>2, BackedSame DEF IInv
<1>12. QED
  BY <1>2, <1>3, <1>4, <1>5, <1>6, <1>7, <1>8, <1>9, <1>10, <1>11 DEF IInv

-----------------------------------------------------------------------------
(* The waiting and the rollback *)

LEMMA RotationConfirmedInv ==
    ASSUME IInv, RotationConfirmed
    PROVE  IInv'
<1>1. UNCHANGED <<file, mem, policy, synced, failed, lock, rules, backups, queued, pending,
                auths, owned, updated, stopped, budget, edited, missed>>
  BY DEF RotationConfirmed, store, ruling, hosted, context
<1>2. Budgeted' /\ Fresh' = Fresh
  BY <1>1, BudgetSame DEF IInv
<1>3. Stored'
  BY <1>1, <1>2, StoredSame DEF IInv
<1>4. Registered'
  BY <1>1, <1>2, RegisteredSame DEF IInv
<1>5. Rotating'
  BY DEF RotationConfirmed, Awaiting, Answer, Goto, IInv, Rotating, Reading, Writing, Held
<1>6. Ruling'
  BY <1>1, <1>2, RulingSame DEF IInv, Present
<1>7. Guarding'
  BY <1>1 DEF RotationConfirmed, Awaiting, Answer, Goto, IInv, Guarding, Rotating, Reading, Writing, Held
<1>8. Locking'
  BY <1>1, <1>2, LockingSame DEF RotationConfirmed, Awaiting, IInv, Guarding
<1>9. Fresher'
  BY <1>1, <1>2 DEF RotationConfirmed, Awaiting, Answer, Goto, IInv, Rotating, Fresher, Before, Reading, Writing
<1>10. Copied'
  BY <1>1 DEF RotationConfirmed, Awaiting, Answer, Goto, IInv, Rotating, Copied, Writing
<1>11. IdentitiesBackedUp'
  BY <1>1, <1>2, BackedSame DEF IInv
<1>12. QED
  BY <1>2, <1>3, <1>4, <1>5, <1>6, <1>7, <1>8, <1>9, <1>10, <1>11 DEF IInv

LEMMA AwaitFailsInv ==
    ASSUME IInv, AwaitFails
    PROVE  IInv'
<1>1. UNCHANGED <<file, mem, policy, synced, failed, guard, lock, rules, backups, queued,
                pending, auths, owned, updated, stopped, edited, missed>>
  BY DEF AwaitFails, store, ruling, hosted, context
<1>2. Budgeted' /\ Fresh' = Fresh
  BY SpendingOthers, BudgetSame DEF IInv, AwaitFails
<1>3. Stored'
  BY <1>1, <1>2, StoredSame DEF IInv
<1>4. Registered'
  BY <1>1, <1>2, RegisteredSame DEF IInv
<1>5. Rotating'
  <2>1. rot' = [rot EXCEPT !.step = "rollback",
                           !.left = {c \in DOMAIN rot.written : rot.written[c] # None}]
    BY DEF AwaitFails
  <2>2. Writing /\ rot'.step = "rollback" /\ Writing'
    BY <2>1 DEF AwaitFails, IInv, Rotating, Writing, Awaiting
  <2>3. QED
    BY <2>1, <2>2 DEF IInv, Rotating, Reading, Writing, Held
<1>6. Ruling'
  BY <1>1, <1>2, RulingSame DEF IInv, Present
<1>7. Guarding'
  BY <1>1 DEF AwaitFails, IInv, Guarding, Awaiting, Rotating, Reading, Writing, Held
<1>8. Locking'
  BY <1>1, <1>2, LockingSame DEF AwaitFails, Awaiting, IInv, Guarding
<1>9. Fresher'
  BY <1>1, <1>2 DEF AwaitFails, IInv, Guarding, Awaiting, Rotating, Fresher, Before, Reading, Writing
<1>10. Copied'
  BY <1>1 DEF AwaitFails, IInv, Guarding, Awaiting, Rotating, Copied, Writing
<1>11. IdentitiesBackedUp'
  BY <1>1, <1>2, BackedSame DEF IInv
<1>12. QED
  BY <1>2, <1>3, <1>4, <1>5, <1>6, <1>7, <1>8, <1>9, <1>10, <1>11 DEF IInv

LEMMA RollbackBeginInv ==
    ASSUME IInv, RollbackBegin
    PROVE  IInv'
<1>1. UNCHANGED <<file, mem, policy, synced, failed, guard, rot, rules, backups, queued,
                pending, auths, owned, updated, stopped, budget, edited, missed>>
  BY DEF RollbackBegin, store, ruling, hosted, context
<1>2. Budgeted' /\ Fresh' = Fresh
  BY <1>1, BudgetSame DEF IInv
<1>3. Stored'
  BY <1>1, <1>2, StoredSame DEF IInv
<1>4. Registered'
  BY <1>1, <1>2, RegisteredSame DEF IInv
<1>5. Rotating'
  BY <1>1, <1>2, RotatingSame DEF IInv
<1>6. Ruling'
  BY <1>1, <1>2, RulingSame DEF IInv, Present
<1>7. Guarding'
  BY <1>1 DEF RollbackBegin, IInv, Guarding, Free, Rotating, Reading, Writing, Held
<1>8. Locking'
  BY <1>1 DEF RollbackBegin, Locking, Free
<1>9. Fresher'
  BY <1>1, <1>2, FresherSame DEF RollbackBegin, IInv, Free
<1>10. Copied'
  BY <1>1, <1>2, CopiedSame DEF IInv
<1>11. IdentitiesBackedUp'
  BY <1>1, <1>2, BackedSame DEF IInv
<1>12. QED
  BY <1>2, <1>3, <1>4, <1>5, <1>6, <1>7, <1>8, <1>9, <1>10, <1>11 DEF IInv

LEMMA RollbackCompareInv ==
    ASSUME IInv, NEW c \in Creds, RollbackCompare(c)
    PROVE  IInv'
<1>1. UNCHANGED <<file, mem, policy, synced, failed, guard, rot, rules, backups, queued,
                pending, auths, owned, updated, stopped, budget, edited, missed>>
  BY DEF RollbackCompare, store, ruling, hosted, context
<1>2. Budgeted' /\ Fresh' = Fresh
  BY <1>1, BudgetSame DEF IInv
<1>3. Stored'
  BY <1>1, <1>2, StoredSame DEF IInv
<1>4. Registered'
  BY <1>1, <1>2, RegisteredSame DEF IInv
<1>5. Rotating'
  BY <1>1, <1>2, RotatingSame DEF IInv
<1>6. Ruling'
  BY <1>1, <1>2, RulingSame DEF IInv, Present
<1>7. Guarding'
  BY <1>1 DEF RollbackCompare, IInv, Guarding, Locking, Rotating, Reading, Writing, Held
<1>8. Locking'
  <2>1. lock.by = "restore" /\ rot.step = "rollback" /\ c \in rot.left /\ c \in DOMAIN rot.creds
    BY DEF RollbackCompare, IInv, Guarding, Rotating, Writing
  <2>2. /\ lock' = [lock EXCEPT !.step = "write", !.cred = c, !.raced = FALSE, !.next = lock'.next]
        /\ lock'.next = rot.files[c]
    BY DEF RollbackCompare, IInv, Locking
  <2>3. file[c] \in Contents /\ Alike(file[c], rot.files[c])
    BY <2>1 DEF RollbackCompare, IInv, Rotating, Held, Writing, Alike
  <2>4. lock'.step = "write" /\ lock'.cred = c /\ lock'.by = "restore" /\ lock'.raced = FALSE
        /\ lock' = [by |-> lock'.by, step |-> lock'.step, cred |-> lock'.cred,
                    seen |-> lock'.seen, next |-> lock'.next, raced |-> lock'.raced]
    BY <2>1, <2>2 DEF IInv, Locking
  <2>5. Alike(file[lock.cred], lock.next)'
    BY <1>1, <2>2, <2>3, <2>4 DEF Alike
  <2>6. QED
    BY <1>1, <2>1, <2>2, <2>3, <2>4, <2>5 DEF Locking
<1>9. Fresher'
  BY <1>1, <1>2, FresherSame DEF RollbackCompare, IInv, Locking
<1>10. Copied'
  BY <1>1, <1>2, CopiedSame DEF IInv
<1>11. IdentitiesBackedUp'
  BY <1>1, <1>2, BackedSame DEF IInv
<1>12. QED
  BY <1>2, <1>3, <1>4, <1>5, <1>6, <1>7, <1>8, <1>9, <1>10, <1>11 DEF IInv

LEMMA RollbackWriteInv ==
    ASSUME IInv, RollbackWrite
    PROVE  IInv'
<1>1. UNCHANGED <<policy, synced, failed, guard, rules, backups, pending, auths, owned,
                updated, stopped, budget, edited, missed>>
  BY DEF RollbackWrite, store, ruling, hosted, context
<1>2. Budgeted' /\ Fresh' = Fresh
  BY <1>1, BudgetSame DEF IInv
<1>3. Stored'
  <2>1. Writing /\ lock.cred \in DOMAIN rot.creds /\ lock.cred \in Creds
        /\ rot.creds[lock.cred] \in Memories /\ lock.next \in Contents
    BY DEF RollbackWrite, IInv, Guarding, Locking, Rotating, Writing, Held
  <2>2. file' \in [Creds -> Contents \cup {None}] /\ mem' \in [Creds -> Memories \cup {None}]
    BY <2>1 DEF RollbackWrite, IInv, Stored
  <2>3. queued' \subseteq Creds /\ \A c \in queued' : file'[c] \in Contents
    BY <2>1 DEF RollbackWrite, IInv, Stored
  <2>4. QED
    BY <1>1, <2>2, <2>3 DEF IInv, Stored
<1>4. Registered'
  BY <1>1, <1>2, RegisteredSame DEF IInv
<1>5. Rotating'
  BY DEF RollbackWrite, IInv, Guarding, Rotating, Reading, Writing, Held
<1>6. Ruling'
  <2>1. rot.creds[lock.cred] \in Memories
    BY DEF RollbackWrite, IInv, Guarding, Locking, Rotating, Writing
  <2>2. Present \subseteq Present'
    BY <2>1, CredentialFilesAssumption DEF RollbackWrite, IInv, Stored, Present
  <2>3. QED
    BY <1>1, <2>2, RulingSame DEF IInv
<1>7. Guarding'
  BY <1>1 DEF RollbackWrite, IInv, Guarding, Free, Rotating, Reading, Writing, Held
<1>8. Locking'
  BY <1>1 DEF RollbackWrite, Locking, Free
<1>9. Fresher'
  <2>1. lock.cred \in DOMAIN rot.creds /\ lock.cred \in Creds /\ lock.next = rot.files[lock.cred]
        /\ rot.step = "rollback"
        /\ rot'.step = rot.step /\ rot'.creds = rot.creds /\ rot'.files = rot.files
    BY DEF RollbackWrite, IInv, Guarding, Locking, Rotating, Writing
  <2>2. lock.next.route \in UpTo(Fresh - 1) /\ UpTo(Fresh - 1) \subseteq UpTo(Fresh)
    BY <2>1, FreshType DEF IInv, Fresher, Rotating, Writing, UpTo
  <2>3. \A c \in Creds : file'[c] = IF c = lock.cred THEN lock.next ELSE file[c]
    BY DEF RollbackWrite, IInv, Stored
  <2>4. lock'.by = "restore" /\ ~Before'
    BY <2>1 DEF RollbackWrite, Free, Before
  <2>5. QED
    BY <1>1, <1>2, <2>1, <2>2, <2>3, <2>4 DEF IInv, Fresher, Reading, Writing
<1>10. Copied'
  <2>1. rot'.step = rot.step /\ rot'.creds = rot.creds /\ rot'.files = rot.files
        /\ rot.step # "backup"
    BY DEF RollbackWrite, IInv, Rotating, Guarding
  <2>2. QED
    BY <1>1, <2>1 DEF IInv, Copied, Writing
<1>11. IdentitiesBackedUp'
  <2>1. Writing /\ lock.cred \in DOMAIN rot.creds /\ lock.cred \in Creds
        /\ lock.next = rot.files[lock.cred]
    BY DEF RollbackWrite, IInv, Guarding, Locking, Rotating, Writing
  <2>2. <<lock.cred, lock.next>> \in backups /\ lock.next.route # Fresh
    <3>1. Fresh \in 0..MaxRotations
      BY FreshType DEF IInv
    <3>2. QED
      BY <2>1, <3>1, CredentialFilesAssumption DEF IInv, Copied, Fresher, Rotating, UpTo, Writing
  <2>3. \A c \in Creds : file'[c] = IF c = lock.cred THEN lock.next ELSE file[c]
    BY DEF RollbackWrite, IInv, Stored
  <2>4. QED
    BY <1>1, <1>2, <2>2, <2>3 DEF IInv, IdentitiesBackedUp
<1>12. QED
  BY <1>2, <1>3, <1>4, <1>5, <1>6, <1>7, <1>8, <1>9, <1>10, <1>11 DEF IInv

LEMMA RollbackSkipsInv ==
    ASSUME IInv, NEW c \in Creds, RollbackSkips(c)
    PROVE  IInv'
<1>1. UNCHANGED <<file, mem, policy, synced, failed, guard, rules, backups, queued, pending,
                auths, owned, updated, stopped, edited, missed>>
  BY DEF RollbackSkips, store, ruling, hosted, context
<1>2. Budgeted' /\ Fresh' = Fresh
  BY SpendingOthers, BudgetSame DEF IInv, RollbackSkips
<1>3. Stored'
  BY <1>1, <1>2, StoredSame DEF IInv
<1>4. Registered'
  BY <1>1, <1>2, RegisteredSame DEF IInv
<1>5. Rotating'
  BY DEF RollbackSkips, IInv, Guarding, Rotating, Reading, Writing, Held
<1>6. Ruling'
  BY <1>1, <1>2, RulingSame DEF IInv, Present
<1>7. Guarding'
  BY <1>1 DEF RollbackSkips, IInv, Guarding, Free, Rotating, Reading, Writing, Held
<1>8. Locking'
  BY <1>1 DEF RollbackSkips, Locking, Free
<1>9. Fresher'
  BY <1>1, <1>2 DEF RollbackSkips, IInv, Guarding, Free, Rotating, Fresher, Before, Reading, Writing
<1>10. Copied'
  BY <1>1 DEF RollbackSkips, IInv, Guarding, Rotating, Copied, Writing
<1>11. IdentitiesBackedUp'
  BY <1>1, <1>2, BackedSame DEF IInv
<1>12. QED
  BY <1>2, <1>3, <1>4, <1>5, <1>6, <1>7, <1>8, <1>9, <1>10, <1>11 DEF IInv

LEMMA RollbackDoneInv ==
    ASSUME IInv, RollbackDone
    PROVE  IInv'
<1>1. UNCHANGED <<file, mem, policy, synced, failed, rules, backups, queued, pending, auths,
                owned, updated, stopped, budget, edited, missed>>
  BY DEF RollbackDone, store, ruling, hosted, context
<1>2. Budgeted' /\ Fresh' = Fresh
  BY <1>1, BudgetSame DEF IInv
<1>3. Stored'
  BY <1>1, <1>2, StoredSame DEF IInv
<1>4. Registered'
  BY <1>1, <1>2, RegisteredSame DEF IInv
<1>5. Rotating'
  BY DEF RollbackDone, Answer, Goto, IInv, Guarding, Rotating, Reading, Writing, Held
<1>6. Ruling'
  BY <1>1, <1>2, RulingSame DEF IInv, Present
<1>7. Guarding'
  BY <1>1 DEF RollbackDone, Answer, Goto, IInv, Guarding, Free, Rotating, Reading, Writing, Held
<1>8. Locking'
  BY LockFree DEF RollbackDone
<1>9. Fresher'
  BY <1>1, <1>2 DEF RollbackDone, Answer, Goto, IInv, Guarding, Free, Rotating, Fresher, Before, Reading, Writing
<1>10. Copied'
  BY <1>1 DEF RollbackDone, Answer, Goto, IInv, Guarding, Rotating, Copied, Writing
<1>11. IdentitiesBackedUp'
  BY <1>1, <1>2, BackedSame DEF IInv
<1>12. QED
  BY <1>2, <1>3, <1>4, <1>5, <1>6, <1>7, <1>8, <1>9, <1>10, <1>11 DEF IInv

-----------------------------------------------------------------------------
(* The rules *)

LEMMA RulesEnterInv ==
    ASSUME IInv, RulesEnter
    PROVE  IInv'
<1>1. UNCHANGED <<file, mem, policy, synced, failed, lock, rot, backups, queued, pending,
                auths, owned, updated, stopped, edited, missed>>
  BY DEF RulesEnter, store, ruling, hosted, context
<1>2. Budgeted' /\ Fresh' = Fresh
  BY SpendingOthers, BudgetSame DEF IInv, RulesEnter
<1>3. Stored'
  BY <1>1, <1>2, StoredSame DEF IInv
<1>4. Registered'
  BY <1>1, <1>2, RegisteredSame DEF IInv
<1>5. Rotating'
  BY <1>1, <1>2, RotatingSame DEF IInv
<1>6. Ruling'
  <2>1. PICK new \in Rules \cup {None} :
          rules' = [NoSync EXCEPT !.step = IF new = None THEN "sync" ELSE "publish", !.new = new,
                                  !.snap = mem, !.left = Present]
    BY DEF RulesEnter
  <2>2. rules' = [step |-> IF new = None THEN "sync" ELSE "publish", left |-> Present, snap |-> mem,
                  new |-> new, cred |-> None, ok |-> TRUE]
    BY <2>1 DEF NoSync
  <2>3. Present' = Present
    BY <1>1 DEF Present
  <2>4. QED
    BY <2>2, <2>3 DEF Ruling
<1>7. Guarding'
  <2>1. rules'.step # "idle" /\ guard' = "rules" /\ rot.step = rot'.step /\ lock.by # "sync"
    BY <1>1 DEF RulesEnter, NoSync, IInv, Guarding
  <2>2. QED
    BY <1>1, <2>1 DEF RulesEnter, IInv, Guarding, Reading, Writing
<1>8. Locking'
  BY <1>1, <1>2, LockingSame DEF IInv
<1>9. Fresher'
  BY <1>1, <1>2, FresherSame DEF IInv
<1>10. Copied'
  BY <1>1, <1>2, CopiedSame DEF IInv
<1>11. IdentitiesBackedUp'
  BY <1>1, <1>2, BackedSame DEF IInv
<1>12. QED
  BY <1>2, <1>3, <1>4, <1>5, <1>6, <1>7, <1>8, <1>9, <1>10, <1>11 DEF IInv

LEMMA RulesPublishInv ==
    ASSUME IInv, RulesPublish
    PROVE  IInv'
<1>1. UNCHANGED <<file, mem, synced, failed, lock, rot, backups, queued, pending, auths, owned,
                updated, stopped, edited, missed>>
  BY DEF RulesPublish, store, ruling, hosted, context
<1>2. Budgeted' /\ Fresh' = Fresh
  BY SpendingOthers, BudgetSame DEF IInv, RulesPublish
<1>3. Stored'
  BY <1>1 DEF RulesPublish, IInv, Stored, Ruling
<1>4. Registered'
  BY <1>1, <1>2, RegisteredSame DEF IInv
<1>5. Rotating'
  BY <1>1, <1>2, RotatingSame DEF IInv
<1>6. Ruling'
  <2>1. Present' = Present
    BY <1>1 DEF Present
  <2>2. CASE rules' = NoSync
    BY <2>2 DEF NoSync, Ruling
  <2>3. CASE rules' = [rules EXCEPT !.step = "sync", !.snap = mem, !.left = Present]
    <3>1. rules' = [step |-> "sync", left |-> Present, snap |-> mem,
                    new |-> rules.new, cred |-> rules.cred, ok |-> rules.ok]
      BY <2>3 DEF IInv, Ruling
    <3>2. QED
      BY <2>1, <3>1 DEF IInv, Ruling
  <2>4. QED
    BY <2>2, <2>3 DEF RulesPublish
<1>7. Guarding'
  <2>1. lock.by = "free" /\ lock'.by = "free"
    BY <1>1 DEF RulesPublish, Free
  <2>2. (rules'.step = "idle" /\ guard' = "idle") \/ (rules'.step = "sync" /\ guard' = guard)
    <3>1. CASE rules' = NoSync /\ guard' = "idle"
      BY <3>1 DEF NoSync
    <3>2. CASE rules' = [rules EXCEPT !.step = "sync", !.snap = mem, !.left = Present] /\ guard' = guard
      <4>1. DOMAIN rules = {"step", "left", "snap", "new", "cred", "ok"}
        BY DEF IInv, Ruling
      <4>2. rules'.step = "sync"
        BY <3>2, <4>1
      <4>3. QED
        BY <3>2, <4>2
    <3>3. QED
      BY <3>1, <3>2 DEF RulesPublish
  <2>3. guard = "rules"
    BY DEF RulesPublish, IInv, Guarding
  <2>4. QED
    BY <1>1, <2>1, <2>2, <2>3 DEF IInv, Guarding, Reading, Writing
<1>8. Locking'
  BY <1>1, <1>2, LockingSame DEF IInv
<1>9. Fresher'
  BY <1>1, <1>2, FresherSame DEF IInv
<1>10. Copied'
  BY <1>1, <1>2, CopiedSame DEF IInv
<1>11. IdentitiesBackedUp'
  BY <1>1, <1>2, BackedSame DEF IInv
<1>12. QED
  BY <1>2, <1>3, <1>4, <1>5, <1>6, <1>7, <1>8, <1>9, <1>10, <1>11 DEF IInv

LEMMA SyncOpenInv ==
    ASSUME IInv, NEW c \in Creds, SyncOpen(c)
    PROVE  IInv'
<1>1. UNCHANGED <<file, mem, policy, synced, failed, guard, rot, backups, queued, pending,
                auths, owned, updated, stopped, budget, edited, missed>>
  BY DEF SyncOpen, store, ruling, hosted, context
<1>2. Budgeted' /\ Fresh' = Fresh
  BY <1>1, BudgetSame DEF IInv
<1>3. Stored'
  BY <1>1, <1>2, StoredSame DEF IInv
<1>4. Registered'
  BY <1>1, <1>2, RegisteredSame DEF IInv
<1>5. Rotating'
  BY <1>1, <1>2, RotatingSame DEF IInv
<1>6. Ruling'
  BY <1>1 DEF SyncOpen, Outcome, IInv, Ruling, Present
<1>7. Guarding'
  BY <1>1 DEF SyncOpen, Outcome, Free, IInv, Ruling, Guarding, Reading, Writing
<1>8. Locking'
  <2>1. CASE lock' = lock
    BY <1>1, <1>2, <2>1, LockingSame DEF IInv
  <2>2. CASE lock' = [Free EXCEPT !.by = "sync", !.step = "compare", !.cred = c,
                                  !.seen = file[c], !.next = [file[c] EXCEPT !.rules = policy.rules]]
             /\ Matches(file[c], mem[c])
    <3>1. file[c] \in Contents /\ policy.rules \in Rules
      BY <2>2 DEF Matches, IInv, Stored
    <3>2. [file[c] EXCEPT !.rules = policy.rules] \in Contents
          /\ [file[c] EXCEPT !.rules = policy.rules].route = file[c].route
          /\ Alike([file[c] EXCEPT !.rules = policy.rules], file[c])
      BY <3>1 DEF Contents, Alike
    <3>3. QED
      BY <2>2, <3>1, <3>2 DEF Locking, Free
  <2>3. QED
    BY <2>1, <2>2 DEF SyncOpen
<1>9. Fresher'
  <2>1. CASE lock' = lock
    BY <1>1, <1>2, <2>1, FresherSame DEF IInv
  <2>2. CASE lock' = [Free EXCEPT !.by = "sync", !.step = "compare", !.cred = c,
                                  !.seen = file[c], !.next = [file[c] EXCEPT !.rules = policy.rules]]
             /\ Matches(file[c], mem[c])
    <3>1. file[c] \in Contents /\ file[c] # None
      BY <2>2 DEF Matches, IInv, Stored
    <3>2. lock'.next.route = file[c].route
      BY <2>2, <3>1 DEF Contents, Free
    <3>3. QED
      BY <1>1, <1>2, <3>1, <3>2 DEF IInv, Fresher, Before, Reading, Writing
  <2>3. QED
    BY <2>1, <2>2 DEF SyncOpen
<1>10. Copied'
  BY <1>1, <1>2, CopiedSame DEF IInv
<1>11. IdentitiesBackedUp'
  BY <1>1, <1>2, BackedSame DEF IInv
<1>12. QED
  BY <1>2, <1>3, <1>4, <1>5, <1>6, <1>7, <1>8, <1>9, <1>10, <1>11 DEF IInv

LEMMA CompareInv ==
    ASSUME IInv, Compare
    PROVE  IInv'
<1>1. UNCHANGED <<file, mem, policy, synced, failed, guard, rot, rules, backups, queued,
                pending, auths, owned, updated, stopped, budget, edited, missed>>
  BY DEF Compare, store, ruling, hosted, context
<1>2. Budgeted' /\ Fresh' = Fresh
  BY <1>1, BudgetSame DEF IInv
<1>3. Stored'
  BY <1>1, <1>2, StoredSame DEF IInv
<1>4. Registered'
  BY <1>1, <1>2, RegisteredSame DEF IInv
<1>5. Rotating'
  BY <1>1, <1>2, RotatingSame DEF IInv
<1>6. Ruling'
  BY <1>1, <1>2, RulingSame DEF IInv, Present
<1>7. Guarding'
  BY <1>1 DEF Compare, IInv, Locking, Guarding, Reading, Writing
<1>8. Locking'
  <2>1. lock.by \in {"sync", "parse"} /\ file[lock.cred] = lock.seen
    BY DEF Compare
  <2>2. Alike(lock.seen, lock.next)
    BY <2>1 DEF IInv, Locking, Alike
  <2>3. lock' = [lock EXCEPT !.step = "write", !.raced = FALSE]
    BY DEF Compare
  <2>4. /\ lock'.step = "write" /\ lock'.raced = FALSE /\ lock'.by = lock.by
        /\ lock'.cred = lock.cred /\ lock'.seen = lock.seen /\ lock'.next = lock.next
        /\ lock' = [by |-> lock'.by, step |-> lock'.step, cred |-> lock'.cred,
                    seen |-> lock'.seen, next |-> lock'.next, raced |-> lock'.raced]
    BY <2>3 DEF IInv, Locking
  <2>5. QED
    BY <1>1, <2>1, <2>2, <2>4 DEF IInv, Locking
<1>9. Fresher'
  BY <1>1, <1>2 DEF Compare, IInv, Locking, Fresher, Before, Reading, Writing
<1>10. Copied'
  BY <1>1, <1>2, CopiedSame DEF IInv
<1>11. IdentitiesBackedUp'
  BY <1>1, <1>2, BackedSame DEF IInv
<1>12. QED
  BY <1>2, <1>3, <1>4, <1>5, <1>6, <1>7, <1>8, <1>9, <1>10, <1>11 DEF IInv

LEMMA SyncFailsInv ==
    ASSUME IInv, SyncFails
    PROVE  IInv'
<1>1. UNCHANGED <<file, mem, policy, synced, failed, guard, rot, backups, queued, pending,
                auths, owned, updated, stopped, edited, missed>>
  BY DEF SyncFails, store, ruling, hosted, context, Trouble
<1>2. Budgeted' /\ Fresh' = Fresh
  BY SpendingOthers, BudgetSame DEF IInv, SyncFails, Trouble
<1>3. Stored'
  BY <1>1, <1>2, StoredSame DEF IInv
<1>4. Registered'
  BY <1>1, <1>2, RegisteredSame DEF IInv
<1>5. Rotating'
  BY <1>1, <1>2, RotatingSame DEF IInv
<1>6. Ruling'
  BY <1>1 DEF SyncFails, Outcome, IInv, Ruling, Guarding, Present
<1>7. Guarding'
  BY <1>1 DEF SyncFails, Outcome, Free, IInv, Ruling, Guarding, Reading, Writing
<1>8. Locking'
  BY LockFree DEF SyncFails
<1>9. Fresher'
  BY <1>1, <1>2, FresherSame DEF SyncFails, Free, IInv
<1>10. Copied'
  BY <1>1, <1>2, CopiedSame DEF IInv
<1>11. IdentitiesBackedUp'
  BY <1>1, <1>2, BackedSame DEF IInv
<1>12. QED
  BY <1>2, <1>3, <1>4, <1>5, <1>6, <1>7, <1>8, <1>9, <1>10, <1>11 DEF IInv

LEMMA SyncWriteInv ==
    ASSUME IInv, SyncWrite
    PROVE  IInv'
<1>1. UNCHANGED <<policy, synced, failed, guard, rot, backups, pending, auths, owned, updated,
                stopped, budget, edited, missed>>
  BY DEF SyncWrite, store, ruling, hosted, context
<1>2. Budgeted' /\ Fresh' = Fresh
  BY <1>1, BudgetSame DEF IInv
<1>3. Stored'
  <2>1. lock.cred \in Creds /\ lock.next \in Contents /\ policy.rules \in Rules
    BY DEF SyncWrite, IInv, Locking, Stored
  <2>2. file' \in [Creds -> Contents \cup {None}]
        /\ queued' \subseteq Creds /\ \A c \in queued' : file'[c] \in Contents
    BY <2>1 DEF SyncWrite, IInv, Stored
  <2>3. mem' \in [Creds -> Memories \cup {None}]
    <3>1. mem[lock.cred] \in Memories
      BY <2>1 DEF SyncWrite, IInv, Stored, Guarding, Ruling, Present
    <3>2. [mem[lock.cred] EXCEPT !.rules = policy.rules] \in Memories
      BY <2>1, <3>1 DEF Memories
    <3>3. mem' = [mem EXCEPT ![lock.cred] = [mem[lock.cred] EXCEPT !.rules = policy.rules]]
      BY DEF SyncWrite
    <3>4. QED
      BY <2>1, <3>2, <3>3 DEF IInv, Stored
  <2>4. QED
    BY <1>1, <2>2, <2>3 DEF IInv, Stored
<1>4. Registered'
  BY <1>1, <1>2, RegisteredSame DEF IInv
<1>5. Rotating'
  BY <1>1, <1>2, RotatingSame DEF IInv
<1>6. Ruling'
  <2>1. lock.cred \in Creds /\ mem[lock.cred] \in Memories /\ policy.rules \in Rules
    BY DEF SyncWrite, IInv, Locking, Stored, Guarding, Ruling, Present
  <2>2. [mem[lock.cred] EXCEPT !.rules = policy.rules] \in Memories
    BY <2>1 DEF Memories
  <2>3. mem' = [mem EXCEPT ![lock.cred] = [mem[lock.cred] EXCEPT !.rules = policy.rules]]
    BY DEF SyncWrite
  <2>4. Present \subseteq Present'
    BY <2>1, <2>2, <2>3, CredentialFilesAssumption DEF IInv, Stored, Present
  <2>5. rules' = [rules EXCEPT !.cred = lock.cred, !.ok = TRUE]
    BY DEF SyncWrite, Outcome
  <2>6. QED
    BY <2>1, <2>4, <2>5 DEF IInv, Ruling
<1>7. Guarding'
  BY <1>1 DEF SyncWrite, Outcome, Free, IInv, Ruling, Guarding, Reading, Writing
<1>8. Locking'
  BY LockFree DEF SyncWrite
<1>9. Fresher'
  <2>1. lock.cred \in Creds
        /\ \A c \in Creds : file'[c] = file[c] \/ (c = lock.cred /\ file'[c] = lock.next)
    <3>1. file' = file \/ file' = [file EXCEPT ![lock.cred] = lock.next]
      BY DEF SyncWrite
    <3>2. lock.cred \in Creds
      BY DEF SyncWrite, IInv, Locking
    <3>3. QED
      BY <3>1, <3>2 DEF IInv, Stored
  <2>2. lock.by \in {"sync", "parse"} /\ (lock'.by = "free" \/ lock'.next = lock.next)
    BY DEF SyncWrite, Free, IInv, Locking
  <2>3. lock'.by = "free" => lock'.by \notin {"sync", "parse"}
    OBVIOUS
  <2>4. QED
    BY <1>1, <1>2, <2>1, <2>2, <2>3 DEF IInv, Fresher, Before, Reading, Writing
<1>10. Copied'
  BY <1>1, <1>2, CopiedSame DEF IInv
<1>11. IdentitiesBackedUp'
  <2>1. lock.cred \in Creds
        /\ \A c \in Creds : file'[c] = file[c] \/ (c = lock.cred /\ file'[c] = lock.next)
    <3>1. file' = file \/ file' = [file EXCEPT ![lock.cred] = lock.next]
      BY DEF SyncWrite
    <3>2. lock.cred \in Creds
      BY DEF SyncWrite, IInv, Locking
    <3>3. QED
      BY <3>1, <3>2 DEF IInv, Stored
  <2>2. lock.cred \notin edited =>
          /\ file[lock.cred] \in Contents /\ Alike(file[lock.cred], lock.next)
          /\ file[lock.cred].route = lock.next.route
    BY DEF SyncWrite, IInv, Locking
  <2>3. ASSUME NEW d \in Creds \ edited, file'[d] # None, file'[d].route \notin {None, Earlier}
        PROVE  \E b \in backups :
                 /\ b[1] = d /\ b[2].mark = file'[d].mark /\ b[2].extra = file'[d].extra
                 /\ file'[d].route = Fresh => b[2].route # Fresh
    <3>1. CASE file'[d] = file[d]
      BY <2>3, <3>1 DEF IInv, IdentitiesBackedUp
    <3>2. CASE d = lock.cred /\ file'[d] = lock.next
      <4>1. file[d] # None
        BY <2>2, <2>3, <3>2, CredentialFilesAssumption
      <4>2. QED
        BY <2>2, <2>3, <3>2, <4>1 DEF IInv, IdentitiesBackedUp, Alike
    <3>3. QED
      BY <2>1, <3>1, <3>2
  <2>4. QED
    BY <1>1, <1>2, <2>3 DEF IdentitiesBackedUp
<1>12. QED
  BY <1>2, <1>3, <1>4, <1>5, <1>6, <1>7, <1>8, <1>9, <1>10, <1>11 DEF IInv

LEMMA SyncMarkInv ==
    ASSUME IInv, SyncMark
    PROVE  IInv'
<1>1. UNCHANGED <<file, mem, policy, guard, lock, rot, backups, queued, pending, auths, owned,
                updated, stopped, budget, edited, missed>>
  BY DEF SyncMark, store, ruling, hosted, context
<1>2. Budgeted' /\ Fresh' = Fresh
  BY <1>1, BudgetSame DEF IInv
<1>3. Stored'
  BY <1>1 DEF SyncMark, MarkSynced, IInv, Stored, Ruling
<1>4. Registered'
  BY <1>1, <1>2, RegisteredSame DEF IInv
<1>5. Rotating'
  BY <1>1, <1>2, RotatingSame DEF IInv
<1>6. Ruling'
  BY <1>1 DEF SyncMark, IInv, Ruling, Present
<1>7. Guarding'
  BY <1>1 DEF SyncMark, IInv, Ruling, Guarding, Reading, Writing
<1>8. Locking'
  BY <1>1, <1>2, LockingSame DEF IInv
<1>9. Fresher'
  BY <1>1, <1>2, FresherSame DEF IInv
<1>10. Copied'
  BY <1>1, <1>2, CopiedSame DEF IInv
<1>11. IdentitiesBackedUp'
  BY <1>1, <1>2, BackedSame DEF IInv
<1>12. QED
  BY <1>2, <1>3, <1>4, <1>5, <1>6, <1>7, <1>8, <1>9, <1>10, <1>11 DEF IInv

LEMMA RulesDoneInv ==
    ASSUME IInv, RulesDone
    PROVE  IInv'
<1>1. UNCHANGED <<file, mem, policy, synced, failed, lock, rot, backups, queued, pending,
                auths, owned, updated, stopped, budget, edited, missed>>
  BY DEF RulesDone, store, ruling, hosted, context
<1>2. Budgeted' /\ Fresh' = Fresh
  BY <1>1, BudgetSame DEF IInv
<1>3. Stored'
  BY <1>1, <1>2, StoredSame DEF IInv
<1>4. Registered'
  BY <1>1, <1>2, RegisteredSame DEF IInv
<1>5. Rotating'
  BY <1>1, <1>2, RotatingSame DEF IInv
<1>6. Ruling'
  BY <1>1 DEF RulesDone, NoSync, IInv, Ruling, Present
<1>7. Guarding'
  BY <1>1 DEF RulesDone, NoSync, IInv, Ruling, Guarding, Reading, Writing
<1>8. Locking'
  BY <1>1, <1>2, LockingSame DEF IInv
<1>9. Fresher'
  BY <1>1, <1>2, FresherSame DEF IInv
<1>10. Copied'
  BY <1>1, <1>2, CopiedSame DEF IInv
<1>11. IdentitiesBackedUp'
  BY <1>1, <1>2, BackedSame DEF IInv
<1>12. QED
  BY <1>2, <1>3, <1>4, <1>5, <1>6, <1>7, <1>8, <1>9, <1>10, <1>11 DEF IInv

-----------------------------------------------------------------------------
(* The watcher and everybody outside *)

LEMMA ParseReadInv ==
    ASSUME IInv, NEW c \in Creds, ParseRead(c)
    PROVE  IInv'
<1>1. UNCHANGED <<file, mem, policy, synced, failed, guard, rot, rules, backups, pending,
                auths, owned, updated, stopped, budget, edited, missed>>
  BY DEF ParseRead, store, ruling, hosted, context
<1>2. Budgeted' /\ Fresh' = Fresh
  BY <1>1, BudgetSame DEF IInv
<1>3. Stored'
  BY <1>1 DEF ParseRead, IInv, Stored
<1>4. Registered'
  BY <1>1, <1>2, RegisteredSame DEF IInv
<1>5. Rotating'
  BY <1>1, <1>2, RotatingSame DEF IInv
<1>6. Ruling'
  BY <1>1, <1>2, RulingSame DEF IInv, Present
<1>7. Guarding'
  BY <1>1, GuardingSame DEF ParseRead, Free, IInv
<1>8. Locking'
  <2>1. file[c] \in Contents /\ policy.rules \in Rules
    BY DEF ParseRead, IInv, Stored
  <2>2. [file[c] EXCEPT !.rules = policy.rules] \in Contents
        /\ [file[c] EXCEPT !.rules = policy.rules].route = file[c].route
        /\ Alike([file[c] EXCEPT !.rules = policy.rules], file[c])
    BY <2>1 DEF Contents, Alike
  <2>3. lock' = [by |-> "parse", step |-> lock'.step, cred |-> c, seen |-> file[c],
                 next |-> [file[c] EXCEPT !.rules = policy.rules], raced |-> FALSE]
        /\ lock'.step \in {"marked", "failed", "compare"}
    BY DEF ParseRead, Free
  <2>4. lock'.by = "parse" /\ lock'.cred = c /\ lock'.seen = file[c] /\ lock'.raced = FALSE
        /\ lock'.next = [file[c] EXCEPT !.rules = policy.rules]
        /\ lock' = [by |-> lock'.by, step |-> lock'.step, cred |-> lock'.cred,
                    seen |-> lock'.seen, next |-> lock'.next, raced |-> lock'.raced]
    BY <2>3
  <2>5. lock'.next \in Contents /\ lock'.next.route = lock'.seen.route /\ lock'.seen \in Contents
        /\ Alike(lock.next, lock.seen)'
    BY <2>1, <2>2, <2>4 DEF Alike
  <2>6. c \in Creds
    OBVIOUS
  <2>7. QED
    BY <2>3, <2>4, <2>5, <2>6 DEF Locking
<1>9. Fresher'
  <2>1. file[c] \in Contents /\ file[c] # None
    BY CredentialFilesAssumption DEF ParseRead, IInv, Stored
  <2>2. lock'.next.route = file[c].route
    BY <2>1 DEF ParseRead, Contents, Free
  <2>3. QED
    BY <1>1, <1>2, <2>1, <2>2 DEF IInv, Fresher, Before, Reading, Writing
<1>10. Copied'
  BY <1>1, <1>2, CopiedSame DEF IInv
<1>11. IdentitiesBackedUp'
  BY <1>1, <1>2, BackedSame DEF IInv
<1>12. QED
  BY <1>2, <1>3, <1>4, <1>5, <1>6, <1>7, <1>8, <1>9, <1>10, <1>11 DEF IInv

LEMMA ParseFailsInv ==
    ASSUME IInv, ParseFails
    PROVE  IInv'
<1>1. UNCHANGED <<file, mem, policy, synced, failed, guard, rot, rules, backups, queued,
                pending, auths, owned, updated, stopped, edited, missed>>
  BY DEF ParseFails, store, ruling, hosted, context, Trouble
<1>2. Budgeted' /\ Fresh' = Fresh
  BY SpendingOthers, BudgetSame DEF IInv, ParseFails, Trouble
<1>3. Stored'
  BY <1>1, <1>2, StoredSame DEF IInv
<1>4. Registered'
  BY <1>1, <1>2, RegisteredSame DEF IInv
<1>5. Rotating'
  BY <1>1, <1>2, RotatingSame DEF IInv
<1>6. Ruling'
  BY <1>1, <1>2, RulingSame DEF IInv, Present
<1>7. Guarding'
  BY <1>1, GuardingSame DEF ParseFails, IInv, Locking
<1>8. Locking'
  BY <1>1 DEF ParseFails, IInv, Locking, Alike
<1>9. Fresher'
  BY <1>1, <1>2 DEF ParseFails, IInv, Locking, Fresher, Before, Reading, Writing
<1>10. Copied'
  BY <1>1, <1>2, CopiedSame DEF IInv
<1>11. IdentitiesBackedUp'
  BY <1>1, <1>2, BackedSame DEF IInv
<1>12. QED
  BY <1>2, <1>3, <1>4, <1>5, <1>6, <1>7, <1>8, <1>9, <1>10, <1>11 DEF IInv

LEMMA ParseWriteInv ==
    ASSUME IInv, ParseWrite
    PROVE  IInv'
<1>1. UNCHANGED <<mem, policy, synced, failed, guard, rot, rules, backups, pending, auths,
                owned, updated, stopped, budget, edited, missed>>
  BY DEF ParseWrite, store, ruling, hosted, context
<1>2. Budgeted' /\ Fresh' = Fresh
  BY <1>1, BudgetSame DEF IInv
<1>3. Stored'
  <2>1. lock.cred \in Creds /\ lock.next \in Contents
    BY DEF ParseWrite, IInv, Locking
  <2>2. QED
    BY <1>1, <2>1 DEF ParseWrite, IInv, Stored
<1>4. Registered'
  BY <1>1, <1>2, RegisteredSame DEF IInv
<1>5. Rotating'
  BY <1>1, <1>2, RotatingSame DEF IInv
<1>6. Ruling'
  BY <1>1, <1>2, RulingSame DEF IInv, Present
<1>7. Guarding'
  BY <1>1, GuardingSame DEF ParseWrite, IInv, Locking
<1>8. Locking'
  BY <1>1 DEF ParseWrite, IInv, Locking, Alike
<1>9. Fresher'
  <2>1. lock.cred \in Creds
        /\ \A c \in Creds : file'[c] = file[c] \/ (c = lock.cred /\ file'[c] = lock.next)
    <3>1. file' = file \/ file' = [file EXCEPT ![lock.cred] = lock.next]
      BY DEF ParseWrite
    <3>2. lock.cred \in Creds
      BY DEF ParseWrite, IInv, Locking
    <3>3. QED
      BY <3>1, <3>2 DEF IInv, Stored
  <2>2. lock.by \in {"sync", "parse"} /\ (lock'.by = "free" \/ lock'.next = lock.next)
    BY DEF ParseWrite, Free, IInv, Locking
  <2>3. lock'.by = "free" => lock'.by \notin {"sync", "parse"}
    OBVIOUS
  <2>4. QED
    BY <1>1, <1>2, <2>1, <2>2, <2>3 DEF IInv, Fresher, Before, Reading, Writing
<1>10. Copied'
  BY <1>1, <1>2, CopiedSame DEF IInv
<1>11. IdentitiesBackedUp'
  <2>1. lock.cred \in Creds
        /\ \A c \in Creds : file'[c] = file[c] \/ (c = lock.cred /\ file'[c] = lock.next)
    <3>1. file' = file \/ file' = [file EXCEPT ![lock.cred] = lock.next]
      BY DEF ParseWrite
    <3>2. lock.cred \in Creds
      BY DEF ParseWrite, IInv, Locking
    <3>3. QED
      BY <3>1, <3>2 DEF IInv, Stored
  <2>2. lock.cred \notin edited =>
          /\ file[lock.cred] \in Contents /\ Alike(file[lock.cred], lock.next)
          /\ file[lock.cred].route = lock.next.route
    BY DEF ParseWrite, IInv, Locking
  <2>3. ASSUME NEW d \in Creds \ edited, file'[d] # None, file'[d].route \notin {None, Earlier}
        PROVE  \E b \in backups :
                 /\ b[1] = d /\ b[2].mark = file'[d].mark /\ b[2].extra = file'[d].extra
                 /\ file'[d].route = Fresh => b[2].route # Fresh
    <3>1. CASE file'[d] = file[d]
      BY <2>3, <3>1 DEF IInv, IdentitiesBackedUp
    <3>2. CASE d = lock.cred /\ file'[d] = lock.next
      <4>1. file[d] # None
        BY <2>2, <2>3, <3>2, CredentialFilesAssumption
      <4>2. QED
        BY <2>2, <2>3, <3>2, <4>1 DEF IInv, IdentitiesBackedUp, Alike
    <3>3. QED
      BY <2>1, <3>1, <3>2
  <2>4. QED
    BY <1>1, <1>2, <2>3 DEF IdentitiesBackedUp
<1>12. QED
  BY <1>2, <1>3, <1>4, <1>5, <1>6, <1>7, <1>8, <1>9, <1>10, <1>11 DEF IInv

LEMMA ParseCommitInv ==
    ASSUME IInv, ParseCommit
    PROVE  IInv'
<1>1. UNCHANGED <<file, policy, guard, rot, rules, backups, queued, auths, owned, updated,
                stopped, budget, edited>>
  BY DEF ParseCommit, store, ruling, hosted, context
<1>2. Budgeted' /\ Fresh' = Fresh
  BY <1>1, BudgetSame DEF IInv
<1>3. Stored'
  <2>1. lock.cred \in Creds /\ lock.seen \in Contents /\ policy.rules \in Rules
    BY DEF ParseCommit, IInv, Locking, Stored
  <2>2. Loaded(lock.seen, policy.rules) \in Memories
    BY <2>1 DEF Loaded, Contents, Memories
  <2>3. mem' \in [Creds -> Memories \cup {None}]
    BY <2>1, <2>2 DEF ParseCommit, IInv, Stored
  <2>4. synced' \in [Creds -> Rules \cup {None}] /\ failed' \subseteq Creds
    BY <2>1 DEF ParseCommit, MarkSynced, IInv, Stored
  <2>5. QED
    BY <1>1, <2>3, <2>4 DEF IInv, Stored
<1>4. Registered'
  <2>1. lock.seen.route \in Routes
    BY DEF ParseCommit, IInv, Locking, Contents
  <2>2. RoutingID(lock.seen) \in Identities
    BY <2>1 DEF RoutingID, Routes, Identities
  <2>3. QED
    BY <1>1, <2>2 DEF ParseCommit, IInv, Registered
<1>5. Rotating'
  BY <1>1, <1>2, RotatingSame DEF IInv
<1>6. Ruling'
  <2>1. lock.cred \in Creds /\ lock.seen \in Contents /\ policy.rules \in Rules
    BY DEF ParseCommit, IInv, Locking, Stored
  <2>2. Loaded(lock.seen, policy.rules) \in Memories
    BY <2>1 DEF Loaded, Contents, Memories
  <2>3. Present \subseteq Present'
    BY <2>1, <2>2, CredentialFilesAssumption DEF ParseCommit, IInv, Stored, Present
  <2>4. QED
    BY <1>1, <2>3, RulingSame DEF IInv
<1>7. Guarding'
  BY <1>1, GuardingSame DEF ParseCommit, IInv
<1>8. Locking'
  BY LockFree DEF ParseCommit
<1>9. Fresher'
  BY <1>1, <1>2, FresherSame DEF ParseCommit, Free, IInv
<1>10. Copied'
  BY <1>1, <1>2, CopiedSame DEF IInv
<1>11. IdentitiesBackedUp'
  BY <1>1, <1>2, BackedSame DEF IInv
<1>12. QED
  BY <1>2, <1>3, <1>4, <1>5, <1>6, <1>7, <1>8, <1>9, <1>10, <1>11 DEF IInv

LEMMA RegisterInv ==
    ASSUME IInv, NEW c \in Creds, Register(c)
    PROVE  IInv'
<1>1. UNCHANGED <<file, mem, policy, synced, failed, guard, lock, rot, rules, backups, queued,
                stopped, budget, edited, missed>>
  BY DEF Register, store, ruling, hosted, context
<1>2. Budgeted' /\ Fresh' = Fresh
  BY <1>1, BudgetSame DEF IInv
<1>3. Stored'
  BY <1>1 DEF Register, IInv, Stored
<1>4. Registered'
  BY <1>1 DEF Register, IInv, Registered
<1>5. Rotating'
  BY <1>1, <1>2, RotatingSame DEF IInv
<1>6. Ruling'
  BY <1>1, <1>2, RulingSame DEF IInv, Present
<1>7. Guarding'
  BY <1>1, <1>2, GuardingSame DEF IInv
<1>8. Locking'
  BY <1>1, <1>2, LockingSame DEF IInv
<1>9. Fresher'
  BY <1>1, <1>2, FresherSame DEF IInv
<1>10. Copied'
  BY <1>1, <1>2, CopiedSame DEF IInv
<1>11. IdentitiesBackedUp'
  BY <1>1, <1>2, BackedSame DEF IInv
<1>12. QED
  BY <1>2, <1>3, <1>4, <1>5, <1>6, <1>7, <1>8, <1>9, <1>10, <1>11 DEF IInv

LEMMA Edited ==
    ASSUME IInv, NEW c \in Creds, Edit(c)
    PROVE  \E r \in Contents : /\ file' = [file EXCEPT ![c] = r] /\ r # None
                               /\ r.route \in {file[c].route} \cup UpTo(Fresh - 1)
<1>1. file[c] \in Contents
  BY DEF Edit, IInv, Stored
<1>2. PICK r : /\ file' = [file EXCEPT ![c] = r]
               /\ \/ r = [file[c] EXCEPT !.mark = 1 - file[c].mark]
                  \/ r = [file[c] EXCEPT !.extra = 1 - file[c].extra]
                  \/ \E l \in Rules : r = [file[c] EXCEPT !.rules = l]
                  \/ <<c, r>> \in backups
  BY DEF Edit
<1>3. CASE <<c, r>> \in backups
  <2>1. r \in Contents /\ r.route \in UpTo(Fresh - 1)
    BY <1>3 DEF IInv, Stored, Fresher
  <2>2. QED
    BY <1>2, <2>1, CredentialFilesAssumption
<1>4. CASE r = [file[c] EXCEPT !.mark = 1 - file[c].mark]
  <2>1. 1 - file[c].mark \in {0, 1}
    BY <1>1 DEF Contents
  <2>2. r \in Contents /\ r.route = file[c].route
    BY <1>1, <1>4, <2>1 DEF Contents
  <2>3. QED
    BY <1>2, <2>2, CredentialFilesAssumption
<1>5. CASE r = [file[c] EXCEPT !.extra = 1 - file[c].extra]
  <2>1. 1 - file[c].extra \in {0, 1}
    BY <1>1 DEF Contents
  <2>2. r \in Contents /\ r.route = file[c].route
    BY <1>1, <1>5, <2>1 DEF Contents
  <2>3. QED
    BY <1>2, <2>2, CredentialFilesAssumption
<1>6. CASE \E l \in Rules : r = [file[c] EXCEPT !.rules = l]
  BY <1>1, <1>2, <1>6, CredentialFilesAssumption DEF Contents
<1>7. QED
  BY <1>2, <1>3, <1>4, <1>5, <1>6

LEMMA EditInv ==
    ASSUME IInv, NEW c \in Creds, Edit(c)
    PROVE  IInv'
<1>1. UNCHANGED <<mem, policy, synced, failed, guard, rot, rules, backups, pending, auths,
                owned, updated, stopped, missed>>
  BY DEF Edit, store, ruling, hosted, context
<1>2. Budgeted' /\ Fresh' = Fresh
  BY Spending DEF Edit, IInv, Counters, Fresh
<1>3. Stored'
  <2>1. PICK r \in Contents : file' = [file EXCEPT ![c] = r] /\ r # None
    BY Edited
  <2>2. QED
    BY <1>1, <2>1 DEF Edit, IInv, Stored
<1>4. Registered'
  BY <1>1, <1>2, RegisteredSame DEF IInv
<1>5. Rotating'
  BY <1>1, <1>2, RotatingSame DEF IInv
<1>6. Ruling'
  BY <1>1, <1>2, RulingSame DEF IInv, Present
<1>7. Guarding'
  <2>1. lock'.by = lock.by /\ lock'.cred = lock.cred /\ lock'.step = lock.step
    BY DEF Edit, IInv, Locking
  <2>2. QED
    BY <1>1, <2>1 DEF IInv, Guarding, Reading, Writing
<1>8. Locking'
  <2>1. PICK r \in Contents : file' = [file EXCEPT ![c] = r] /\ r # None
    BY Edited
  <2>2. /\ lock'.by = lock.by /\ lock'.cred = lock.cred /\ lock'.step = lock.step
        /\ lock'.seen = lock.seen /\ lock'.next = lock.next
        /\ lock' = [by |-> lock'.by, step |-> lock'.step, cred |-> lock'.cred,
                    seen |-> lock'.seen, next |-> lock'.next, raced |-> lock'.raced]
        /\ lock'.raced = (IF lock.cred = c /\ lock.step = "write" THEN TRUE ELSE lock.raced)
    BY DEF Edit, IInv, Locking
  <2>3. lock.step = "write" /\ ~lock'.raced => ~lock.raced /\ file'[lock.cred] = file[lock.cred]
    BY <2>1, <2>2 DEF IInv, Locking, Stored
  <2>4. lock.step = "write" /\ lock'.raced => lock.cred \in edited'
    BY <2>2 DEF Edit, IInv, Locking
  <2>5. lock'.raced \in BOOLEAN
    BY <2>2 DEF IInv, Locking
  <2>6. Target(lock.cred)' = Target(lock.cred)
    BY <1>1, <1>2, <2>2 DEF Target
  <2>7. QED
    BY <1>1, <2>2, <2>3, <2>4, <2>5, <2>6 DEF IInv, Locking, Alike
<1>9. Fresher'
  <2>1. PICK r \in Contents : /\ file' = [file EXCEPT ![c] = r] /\ r # None
                              /\ r.route \in {file[c].route} \cup UpTo(Fresh - 1)
    BY Edited
  <2>2. file[c] # None /\ UpTo(Fresh - 1) \subseteq UpTo(Fresh)
    BY FreshType DEF Edit, IInv, UpTo
  <2>3. \A d \in Creds : file'[d] = IF d = c THEN r ELSE file[d]
    BY <2>1 DEF IInv, Stored
  <2>4. lock'.by = lock.by /\ lock'.next = lock.next
    BY DEF Edit, IInv, Locking
  <2>5. QED
    BY <1>1, <1>2, <2>1, <2>2, <2>3, <2>4 DEF IInv, Fresher, Before, Reading, Writing
<1>10. Copied'
  BY <1>1, <1>2, CopiedSame DEF IInv
<1>11. IdentitiesBackedUp'
  <2>1. \A d \in Creds \ edited' : file'[d] = file[d] /\ d \notin edited
    BY DEF Edit, IInv, Stored
  <2>2. QED
    BY <1>1, <1>2, <2>1 DEF IInv, IdentitiesBackedUp
<1>12. QED
  BY <1>2, <1>3, <1>4, <1>5, <1>6, <1>7, <1>8, <1>9, <1>10, <1>11 DEF IInv

LEMMA StopInv ==
    ASSUME IInv, Stop
    PROVE  IInv'
<1>1. UNCHANGED <<file, mem, policy, synced, failed, guard, lock, rot, rules, backups, queued,
                pending, auths, owned, updated, edited, missed>>
  BY DEF Stop, store, ruling, hosted, context
<1>2. Budgeted' /\ Fresh' = Fresh
  BY SpendingOthers, BudgetSame DEF IInv, Stop
<1>3. Stored'
  BY <1>1, <1>2, StoredSame DEF IInv
<1>4. Registered'
  BY <1>1, <1>2, RegisteredSame DEF IInv
<1>5. Rotating'
  BY <1>1, <1>2, RotatingSame DEF IInv
<1>6. Ruling'
  BY <1>1, <1>2, RulingSame DEF IInv, Present
<1>7. Guarding'
  BY <1>1, <1>2, GuardingSame DEF IInv
<1>8. Locking'
  BY <1>1, <1>2, LockingSame DEF IInv
<1>9. Fresher'
  BY <1>1, <1>2, FresherSame DEF IInv
<1>10. Copied'
  BY <1>1, <1>2, CopiedSame DEF IInv
<1>11. IdentitiesBackedUp'
  BY <1>1, <1>2, BackedSame DEF IInv
<1>12. QED
  BY <1>2, <1>3, <1>4, <1>5, <1>6, <1>7, <1>8, <1>9, <1>10, <1>11 DEF IInv

LEMMA RestartInv ==
    ASSUME IInv, Restart
    PROVE  IInv'
<1>1. UNCHANGED <<file, backups, edited>>
  BY DEF Restart, store, ruling, hosted, context
<1>2. Budgeted' /\ Fresh' = Fresh
  BY SpendingOthers, BudgetSame DEF IInv, Restart
<1>3. Stored'
  <2>1. policy' \in [rules : Rules, saved : Rules \cup {None}]
    BY CredentialFilesAssumption DEF Restart, IInv, Stored
  <2>2. QED
    BY <1>1, <2>1 DEF Restart, IInv, Stored, Exist
<1>4. Registered'
  BY DEF Restart, Registered
<1>5. Rotating'
  BY DEF Restart, NoRotation, Rotating, Reading, Writing
<1>6. Ruling'
  BY DEF Restart, NoSync, Ruling
<1>7. Guarding'
  BY DEF Restart, NoSync, NoRotation, Free, Guarding, Reading, Writing
<1>8. Locking'
  BY LockFree DEF Restart
<1>9. Fresher'
  BY <1>1, <1>2 DEF Restart, NoRotation, Free, IInv, Fresher, Before, Reading, Writing
<1>10. Copied'
  BY DEF Restart, NoRotation, Copied, Writing
<1>11. IdentitiesBackedUp'
  BY <1>1, <1>2, BackedSame DEF IInv
<1>12. QED
  BY <1>2, <1>3, <1>4, <1>5, <1>6, <1>7, <1>8, <1>9, <1>10, <1>11 DEF IInv

-----------------------------------------------------------------------------
LEMMA InitInv == Init => IInv
<1> SUFFICES ASSUME Init PROVE IInv
  OBVIOUS
<1>1. IsWorld(budget)
  BY CredentialFilesAssumption DEF Init
<1>2. /\ budget = [creds |-> budget.creds, routes |-> budget.routes, policy |-> budget.policy,
                   slow |-> budget.slow, rotations |-> budget.rotations, edits |-> budget.edits,
                   faults |-> budget.faults, stops |-> budget.stops,
                   crashes |-> budget.crashes, puts |-> budget.puts]
      /\ budget.routes \subseteq {None, Earlier} /\ budget.policy \in Rules \cup {None}
      /\ budget.rotations \in 0..MaxRotations
      /\ {budget.edits, budget.faults, budget.stops, budget.crashes, budget.puts} \subseteq Nat
  BY <1>1 DEF IsWorld
<1>3. Budgeted
  BY <1>2 DEF Budgeted
<1>4. \A c \in Creds : file[c] # None =>
        file[c] \in Contents /\ file[c].route \in {None, Earlier}
  <2>1. [route : budget.routes, mark : {0}, extra : {0}, rules : {DefaultRules}]
          \subseteq {r \in Contents : r.route \in {None, Earlier}}
    BY <1>2, CredentialFilesAssumption DEF Contents, Routes, Earlier
  <2>2. QED
    BY <2>1 DEF Init
<1>5. file \in [Creds -> Contents \cup {None}]
  BY <1>4 DEF Init
<1>6. policy.rules \in Rules /\ policy \in [rules : Rules, saved : Rules \cup {None}]
  BY <1>2, CredentialFilesAssumption DEF Init
<1>7. Stored
  <2>1. \A c \in Creds : file[c] # None => Loaded(file[c], policy.rules) \in Memories
    BY <1>4, <1>6 DEF Loaded, Contents, Memories
  <2>2. mem \in [Creds -> Memories \cup {None}]
    BY <2>1 DEF Init
  <2>3. synced \in [Creds -> Rules \cup {None}] /\ failed \subseteq Creds
    BY <1>6 DEF Init, Exist
  <2>4. QED
    BY <1>5, <1>6, <2>2, <2>3 DEF Init, Stored
<1>8. Registered
  <2>1. \A c \in Creds : owned[c] \in Identities \cup {None}
    BY CredentialFilesAssumption DEF Init, Identities, Earlier
  <2>2. owned \in [Creds -> Identities \cup {None}]
    BY <2>1 DEF Init
  <2>3. auths \in [Creds -> SUBSET Identities]
    <3>1. {Name, Earlier} \subseteq Identities
      BY CredentialFilesAssumption DEF Identities, Earlier
    <3>2. QED
      BY <2>1, <3>1 DEF Init
  <2>4. QED
    BY <2>2, <2>3 DEF Init, Registered
<1>9. Rotating /\ Copied
  BY DEF Init, NoRotation, Rotating, Copied, Reading, Writing
<1>10. Ruling
  BY DEF Init, NoSync, Ruling
<1>11. Guarding /\ Locking
  BY DEF Init, NoRotation, NoSync, Free, Guarding, Locking, Reading, Writing
<1>12. Fresher
  <2>1. rot.step = "idle" /\ lock.by = "free" /\ backups = {}
    BY DEF Init, NoRotation, Free
  <2>2. {None, Earlier} \subseteq UpTo(Fresh)
    BY <1>3, FreshType DEF UpTo, Earlier
  <2>3. QED
    BY <1>4, <2>1, <2>2 DEF Fresher, Before, Reading, Writing
<1>13. IdentitiesBackedUp
  BY <1>4 DEF IdentitiesBackedUp
<1>14. QED
  BY <1>3, <1>7, <1>8, <1>9, <1>10, <1>11, <1>12, <1>13 DEF IInv

LEMMA NextInv == IInv /\ [Next]_vars => IInv'
<1> SUFFICES ASSUME IInv, [Next]_vars PROVE IInv'
  OBVIOUS
<1>1. CASE UNCHANGED vars
  BY <1>1, Stuttering
<1>2. CASE RotateBegin \/ RotateLock
  BY <1>2, RotateBeginInv, RotateEnterInv, PhaseBeginInv, RollbackBeginInv DEF RotateLock
<1>3. CASE RotateStep
  <2>1. CASE \/ RotateRejected \/ BackupBegin \/ BackupDone \/ PhaseRefused \/ PhaseWrite
             \/ PhaseDone \/ RotationConfirmed \/ AwaitFails \/ RollbackWrite \/ RollbackDone
    BY <2>1, RotateRejectedInv, BackupBeginInv, BackupDoneInv, PhaseRefusedInv, PhaseWriteInv,
       PhaseDoneInv, RotationConfirmedInv, AwaitFailsInv, RollbackWriteInv, RollbackDoneInv
  <2>2. ASSUME NEW c \in Creds,
               \/ RotateRead(c) \/ BackupFile(c) \/ PhaseCompare(c)
               \/ RollbackCompare(c) \/ RollbackSkips(c)
        PROVE  IInv'
    BY <2>2, RotateReadInv, BackupFileInv, PhaseCompareInv, RollbackCompareInv, RollbackSkipsInv
  <2>3. QED
    BY <1>3, <2>1, <2>2 DEF RotateStep
<1>4. CASE RulesEnter \/ RulesStep
  BY <1>4, RulesEnterInv, RulesPublishInv, SyncFailsInv, SyncWriteInv, SyncMarkInv, RulesDoneInv,
     SyncOpenInv DEF RulesStep
<1>5. CASE ParseStep
  BY <1>5, CompareInv, ParseFailsInv, ParseWriteInv, ParseCommitInv DEF ParseStep
<1>6. CASE \E c \in Creds : ParseRead(c) \/ Register(c) \/ Edit(c)
  BY <1>6, ParseReadInv, RegisterInv, EditInv
<1>7. CASE Stop \/ Restart
  BY <1>7, StopInv, RestartInv
<1>8. QED
  BY <1>1, <1>2, <1>3, <1>4, <1>5, <1>6, <1>7 DEF Next

LEMMA Invariant == Spec => []IInv
BY InitInv, NextInv, PTL DEF Spec

-----------------------------------------------------------------------------
(* The variables have their types, the two locks are held by whom they should:
   a rotation and a rule update hold credentialMu, and one of them or a callback
   authFileMu (affinity.go:225-226, 296; error_rules.go:249, 303, 360). *)
THEOREM TypeCorrect == Spec => []TypeOK
<1>1. IInv => TypeOK
  <2> SUFFICES ASSUME IInv PROVE TypeOK
    OBVIOUS
  <2>1. /\ file \in [Creds -> Contents \cup {None}] /\ mem \in [Creds -> Memories \cup {None}]
        /\ \A b \in backups : b[1] \in Creds /\ b[2] \in Contents
        /\ policy \in [rules : Rules, saved : Rules \cup {None}]
        /\ synced \in [Creds -> Rules \cup {None}]
    BY DEF IInv, Stored
  <2>2. {failed, queued, updated, edited, rot.left, rules.left} \subseteq SUBSET Creds
    BY DEF IInv, Stored, Rotating, Ruling, Present
  <2>3. /\ guard \in {"idle", "rotate", "rules"}
        /\ (guard = "rules") = (rules.step # "idle")
        /\ lock.by \in {"free", "rotate", "restore", "sync", "parse"}
        /\ lock.by \in {"rotate", "restore"} => guard = "rotate"
        /\ lock.by = "sync" => guard = "rules"
    BY DEF IInv, Guarding, Writing
  <2>4. (guard = "rotate")
          <=> (rot.step \in {"read", "backup", "canonical", "next", "rollback"} \/ Awaiting)
    BY DEF IInv, Guarding, Reading, Writing, Awaiting
  <2>5. (guard = "rotate")
          = (rot.step \in {"read", "backup", "canonical", "next", "rollback"} \/ Awaiting)
    BY <2>4
  <2>6. auths \in [Creds -> SUBSET Identities]
        /\ {owned, pending} \subseteq [Creds -> Identities \cup {None}]
    BY DEF IInv, Registered
  <2>7. QED
    BY <2>1, <2>2, <2>3, <2>5, <2>6 DEF TypeOK
<1>2. QED
  BY <1>1, Invariant, PTL

(* Whatever ends a rotation, a file with an identity it was given has a recovery
   copy that differs in nothing but rules and identity, and has the identity of
   before (affinity.go:255-263). *)
THEOREM CopiesAreKept == Spec => []IdentitiesBackedUp
<1>1. IInv => IdentitiesBackedUp
  BY DEF IInv
<1>2. QED
  BY <1>1, Invariant, PTL

Surviving(c) ==
    file'[c] # file[c] /\ budget'.edits = budget.edits /\ ~lock.raced =>
      file'[c].mark = file[c].mark /\ file'[c].extra = file[c].extra

(* No write of a phase, a rollback, a rule update or a callback undoes what
   somebody else wrote to a field the plugin does not own, unless the edit came
   between its last comparison and its rename (affinity.go:277, 306;
   error_rules.go:319, 373). *)
THEOREM ForeignEditsSurvive == Spec => EditsSurvive
<1>1. IInv /\ [Next]_vars => [\A c \in Creds : Surviving(c)]_vars
  <2> SUFFICES ASSUME IInv, [Next]_vars, NEW c \in Creds, file'[c] # file[c],
                      budget'.edits = budget.edits, ~lock.raced
               PROVE  file'[c].mark = file[c].mark /\ file'[c].extra = file[c].extra
    BY DEF Surviving
  <2>1. ASSUME NEW d \in Creds, Edit(d) PROVE FALSE
    <3>1. budget'.edits = budget.edits - 1 /\ budget.edits \in Nat
      BY <2>1, Spending DEF Edit, IInv, Counters, Budgeted
    <3>2. QED
      BY <3>1
  <2>2. (PhaseWrite \/ RollbackWrite \/ SyncWrite \/ ParseWrite) \/ UNCHANGED file
    BY <2>1 DEF Next, RotateBegin, RotateStep, RotateLock, RulesEnter, RulesStep, ParseStep,
       RotateRejected, BackupBegin, BackupDone, PhaseRefused, PhaseDone, RotationConfirmed,
       AwaitFails, RollbackDone, RotateRead, BackupFile, PhaseCompare, RollbackCompare,
       RollbackSkips, RotateEnter, PhaseBegin, RollbackBegin, RulesPublish, SyncFails, SyncMark,
       RulesDone, SyncOpen, Compare, ParseFails, ParseCommit, ParseRead, Register, Stop, Restart,
       store, vars
  <2>3. lock.step = "write" /\ (file' = file \/ file' = [file EXCEPT ![lock.cred] = lock.next])
    BY <2>2 DEF PhaseWrite, RollbackWrite, SyncWrite, ParseWrite
  <2>4. c = lock.cred /\ file'[c] = lock.next
    BY <2>3 DEF IInv, Stored
  <2>5. QED
    BY <2>3, <2>4 DEF IInv, Locking, Alike
<1>2. QED
  BY <1>1, Invariant, PTL DEF Spec, EditsSurvive, Surviving

-----------------------------------------------------------------------------
(* The rules on file *)

Reporting(c) == lock.by = "parse" /\ lock.cred = c

(* What synced claims of c: the rules on file are the published ones. *)
OnFile(c) ==
    c \notin queued \cup missed /\ file[c] # None /\ ~Reporting(c) => file[c].rules = policy.rules

Checks ==
    /\ lock.by \in {"sync", "parse"} => lock.next.rules = policy.rules
    /\ lock.by \in {"sync", "parse"} /\ lock.step = "write" /\ lock.raced => lock.cred \in queued
    /\ lock.by \in {"sync", "parse"} /\ lock.step = "write" /\ ~lock.raced =>
         file[lock.cred] = lock.seen
    /\ lock.by = "parse" /\ lock.step = "marked" /\ lock.cred \notin queued =>
         file[lock.cred].rules = policy.rules
    /\ rules.step # "sync" => rules.cred = None
    /\ rules.cred # None => rules.cred \in Present
    /\ rules.cred # None /\ rules.ok => OnFile(rules.cred)
    /\ \A c \in Creds :
         /\ synced[c] # None => c \in Present
         /\ synced[c] # None /\ c \notin failed =>
              synced[c] = policy.rules \/ (rules.step = "sync" /\ c \in rules.left)
         /\ synced[c] = policy.rules /\ c \notin failed => OnFile(c)

LEMMA ChecksSame ==
    ASSUME Checks, Present \subseteq Present',
           UNCHANGED <<file, queued, missed, failed, synced, policy, rules>>,
           lock' = lock \/ (lock.by # "parse" /\ lock'.by \notin {"sync", "parse"})
    PROVE  Checks'
BY DEF Checks, OnFile, Reporting

(* A file that is written and reported cannot disagree. *)
LEMMA ChecksWrite ==
    ASSUME Checks, Present \subseteq Present', NEW c \in Creds,
           UNCHANGED <<missed, failed, synced, policy, rules>>,
           c \in queued', queued \subseteq queued',
           \A d \in Creds \ {c} : file'[d] = file[d],
           rules.cred \in Creds \cup {None},
           \/ lock.by # "parse" /\ lock'.by \notin {"sync", "parse"}
           \/ /\ lock.cred = c /\ lock'.by = lock.by /\ lock'.cred = lock.cred
              /\ lock'.next = lock.next /\ lock'.step # "write"
    PROVE  Checks'
BY DEF Checks, OnFile, Reporting

LEMMA ChecksInit == Init => Checks
<1> SUFFICES ASSUME Init PROVE Checks
  OBVIOUS
<1>1. IInv
  BY InitInv
<1>2. lock.by = "free" /\ lock.step = "none" /\ rules.step = "idle" /\ rules.cred = None
      /\ queued = {} /\ missed = {}
  BY DEF Init, Free, NoSync
<1>3. ASSUME NEW c \in Creds, synced[c] # None
      PROVE  c \in Present /\ synced[c] = policy.rules /\ file[c].rules = policy.rules
  <2>1. file[c] # None /\ file[c].rules = policy.rules /\ synced[c] = policy.rules
    BY <1>3 DEF Init
  <2>2. mem[c] \in Memories
    BY <2>1, <1>1 DEF IInv, Stored, Init, Loaded, Contents, Memories
  <2>3. QED
    BY <2>1, <2>2, CredentialFilesAssumption DEF Present
<1>4. policy.rules # None
  BY <1>1, CredentialFilesAssumption DEF IInv, Stored
<1>5. QED
  BY <1>2, <1>3, <1>4 DEF Checks, OnFile, Reporting

LEMMA ChecksNext == IInv /\ Checks /\ [Next]_vars => Checks'
<1> SUFFICES ASSUME IInv, Checks, [Next]_vars PROVE Checks'
  OBVIOUS
<1>1. CASE UNCHANGED vars
  BY <1>1, ChecksSame DEF vars, Present
<1>2. CASE RotateBegin
  BY <1>2, ChecksSame DEF RotateBegin, store, ruling, hosted, context, Present
<1>3. CASE RotateLock
  <2>1. UNCHANGED <<file, mem, queued, missed, failed, synced, policy, rules>>
    BY <1>3 DEF RotateLock, RotateEnter, PhaseBegin, RollbackBegin, store, ruling, hosted, context
  <2>2. CASE RotateEnter
    BY <2>1, <2>2, ChecksSame DEF RotateEnter, Present
  <2>3. CASE PhaseBegin \/ RollbackBegin
    <3>1. lock.by = "free" /\ lock'.by \in {"rotate", "restore"}
      <4>1. lock = Free /\ \/ lock' = [Free EXCEPT !.by = "rotate", !.step = "pick"]
                           \/ lock' = [Free EXCEPT !.by = "restore", !.step = "pick"]
        BY <2>3 DEF PhaseBegin, RollbackBegin
      <4>2. QED
        BY <4>1 DEF Free
    <3>2. QED
      BY <2>1, <3>1, ChecksSame DEF Present
  <2>4. QED
    BY <1>3, <2>2, <2>3 DEF RotateLock
<1>4. CASE \/ RotateRejected \/ BackupBegin \/ BackupDone \/ PhaseRefused \/ PhaseDone
           \/ RotationConfirmed \/ AwaitFails \/ RollbackDone
  BY <1>4, ChecksSame DEF RotateRejected, BackupBegin, BackupDone, PhaseRefused, PhaseFails,
     PhaseDone, RotationConfirmed, AwaitFails, RollbackDone, Free,
     store, ruling, hosted, context, Present
<1>5. ASSUME NEW c \in Creds,
             \/ RotateRead(c) \/ BackupFile(c) \/ PhaseCompare(c)
             \/ RollbackCompare(c) \/ RollbackSkips(c)
      PROVE  Checks'
  <2>1. lock' = lock \/ (lock.by # "parse" /\ lock'.by \notin {"sync", "parse"})
    BY <1>5 DEF RotateRead, BackupFile, PhaseCompare, RollbackCompare, RollbackSkips, Free,
       IInv, Locking
  <2>2. UNCHANGED <<file, mem, queued, missed, failed, synced, policy, rules>>
    BY <1>5 DEF RotateRead, BackupFile, PhaseCompare, RollbackCompare, RollbackSkips,
       store, ruling, hosted, context
  <2>3. QED
    BY <2>1, <2>2, ChecksSame DEF Present
<1>6. CASE PhaseWrite \/ RollbackWrite
  <2>1. IInv'
    BY <1>6, PhaseWriteInv, RollbackWriteInv
  <2>2. lock.cred \in Creds
    BY <1>6 DEF PhaseWrite, RollbackWrite, IInv, Guarding, Locking, Rotating, Writing
  <2>3. \A c \in Creds : c # lock.cred => mem'[c] = mem[c] /\ file'[c] = file[c]
    BY <1>6 DEF PhaseWrite, RollbackWrite, IInv, Stored
  <2>4. mem'[lock.cred] # None
    <3>1. CASE PhaseWrite
      <4>1. lock.cred \in DOMAIN rot.creds /\ rot.creds[lock.cred] \in Memories /\ Writing
        BY <3>1 DEF PhaseWrite, IInv, Guarding, Locking, Rotating, Writing
      <4>2. Target(lock.cred) \in UpTo(Fresh)
        BY <4>1, TargetType
      <4>3. Fresh \in 0..MaxRotations
        BY FreshType DEF IInv
      <4>4. [rot.creds[lock.cred] EXCEPT !.route = Target(lock.cred)] \in Memories
        BY <4>1, <4>2, <4>3, CredentialFilesAssumption DEF UpTo, Routes, Earlier, Memories
      <4>5. QED
        BY <2>2, <3>1, <4>4, CredentialFilesAssumption DEF PhaseWrite, IInv, Stored
    <3>2. CASE RollbackWrite
      <4>1. rot.creds[lock.cred] \in Memories
        BY <3>2 DEF RollbackWrite, IInv, Guarding, Locking, Rotating, Writing
      <4>2. QED
        BY <2>2, <3>2, <4>1, CredentialFilesAssumption DEF RollbackWrite, IInv, Stored
    <3>3. QED
      BY <1>6, <3>1, <3>2
  <2>5. Present \subseteq Present'
    BY <2>3, <2>4 DEF Present
  <2>6. /\ UNCHANGED <<missed, failed, synced, policy, rules>> /\ queued' = queued \cup {lock.cred}
        /\ lock.by # "parse" /\ lock'.by \notin {"sync", "parse"}
    BY <1>6 DEF PhaseWrite, RollbackWrite, Free, ruling, context
  <2>7. rules.cred \in Creds \cup {None}
    BY DEF IInv, Ruling
  <2>8. QED
    BY <2>2, <2>3, <2>5, <2>6, <2>7, ChecksWrite
<1>7. CASE RulesEnter
  <2>1. rules'.cred = None /\ rules'.step \in {"sync", "publish"}
    BY <1>7 DEF RulesEnter, NoSync
  <2>2. rules.step = "idle"
    BY <1>7 DEF RulesEnter, IInv, Guarding, Ruling
  <2>3. Present' = Present /\ UNCHANGED <<file, queued, missed, failed, synced, policy, lock>>
    BY <1>7 DEF RulesEnter, store, ruling, hosted, context, Present
  <2>4. rules'.step = "sync" => rules'.left = Present
    BY <1>7 DEF RulesEnter, NoSync
  <2>5. QED
    BY <2>1, <2>2, <2>3, <2>4 DEF Checks, OnFile, Reporting
<1>8. CASE RulesPublish
  <2>1. Present' = Present /\ UNCHANGED <<file, queued, missed, failed, synced, lock>>
        /\ rules.step = "publish" /\ rules.cred = None /\ lock.by = "free" /\ lock.step = "none"
    BY <1>8 DEF RulesPublish, Free, store, hosted, context, Present, Checks
  <2>2. CASE rules' = NoSync /\ policy' = policy
    BY <2>1, <2>2 DEF NoSync, Checks, OnFile, Reporting
  <2>3. CASE rules' = [rules EXCEPT !.step = "sync", !.snap = mem, !.left = Present]
    <3>1. rules'.step = "sync" /\ rules'.left = Present /\ rules'.cred = None
      BY <2>1, <2>3 DEF IInv, Ruling
    <3>2. policy'.rules # None
      <4>1. policy'.rules \in Rules
        BY <1>8, RulesPublishInv DEF IInv, Stored
      <4>2. QED
        BY <4>1, CredentialFilesAssumption
    <3>3. \A c \in Creds : synced[c] = policy'.rules /\ c \notin failed => policy'.rules = policy.rules
      BY <2>1, <3>2 DEF Checks
    <3>4. QED
      BY <2>1, <3>1, <3>3 DEF Checks, OnFile, Reporting
  <2>4. QED
    BY <1>8, <2>2, <2>3 DEF RulesPublish
<1>9. ASSUME NEW c \in Creds, SyncOpen(c) PROVE Checks'
  <2>1. Present' = Present /\ UNCHANGED <<file, queued, missed, failed, synced, policy>>
        /\ rules.step = "sync" /\ lock.by = "free" /\ lock.step = "none"
    BY <1>9 DEF SyncOpen, Free, store, ruling, hosted, context, Present
  <2>2. CASE lock' = lock /\ rules' = [rules EXCEPT !.cred = c, !.ok = FALSE]
    <3>1. rules'.step = "sync" /\ rules'.left = rules.left /\ rules'.ok = FALSE /\ rules'.cred = c
      BY <2>1, <2>2 DEF IInv, Ruling
    <3>a. c \in Present'
      BY <1>9, <2>1 DEF SyncOpen, IInv, Ruling
    <3>2. QED
      BY <2>1, <2>2, <3>1, <3>a DEF Checks, OnFile, Reporting
  <2>3. CASE /\ lock' = [Free EXCEPT !.by = "sync", !.step = "compare", !.cred = c, !.seen = file[c],
                                     !.next = [file[c] EXCEPT !.rules = policy.rules]]
             /\ rules' = rules /\ Matches(file[c], mem[c])
    <3>1. file[c] \in Contents
      BY <2>3 DEF Matches, IInv, Stored
    <3>2. lock'.by = "sync" /\ lock'.step = "compare" /\ lock'.next.rules = policy.rules
      BY <2>3, <3>1 DEF Contents, Free
    <3>3. QED
      BY <2>1, <2>3, <3>2 DEF Checks, OnFile, Reporting
  <2>4. QED
    BY <1>9, <2>2, <2>3 DEF SyncOpen, Outcome
<1>10. CASE Compare
  <2>1. /\ lock'.by = lock.by /\ lock'.cred = lock.cred /\ lock'.next = lock.next
        /\ lock'.step = "write" /\ lock'.raced = FALSE /\ lock'.seen = lock.seen
        /\ file[lock.cred] = lock.seen
    BY <1>10 DEF Compare, IInv, Locking
  <2>2. QED
    BY <1>10, <2>1 DEF Compare, store, ruling, hosted, context, Present, Checks, OnFile, Reporting
<1>11. CASE SyncFails
  <2>1. rules'.step = rules.step /\ rules'.left = rules.left /\ rules'.ok = FALSE
        /\ rules.step = "sync" /\ lock.by = "sync" /\ lock'.by = "free" /\ lock'.step = "none"
        /\ rules'.cred = lock.cred /\ lock.cred \in Present
    BY <1>11 DEF SyncFails, Outcome, Free, IInv, Ruling, Guarding
  <2>2. QED
    BY <1>11, <2>1 DEF SyncFails, store, ruling, hosted, context, Present, Checks, OnFile, Reporting
<1>12. CASE SyncWrite
  <2>1. /\ rules'.step = "sync" /\ rules'.left = rules.left /\ rules'.cred = lock.cred
        /\ rules.step = "sync" /\ lock.by = "sync" /\ lock'.by = "free" /\ lock'.step = "none"
        /\ lock.step = "write" /\ lock.cred \in Creds /\ lock.cred \in Present
    BY <1>12 DEF SyncWrite, Outcome, Free, IInv, Ruling, Guarding, Locking
  <2>2. Present \subseteq Present'
    <3>1. mem[lock.cred] \in Memories /\ policy.rules \in Rules
      BY <1>12 DEF SyncWrite, IInv, Locking, Stored, Guarding, Ruling, Present
    <3>2. [mem[lock.cred] EXCEPT !.rules = policy.rules] \in Memories
      BY <3>1 DEF Memories
    <3>3. mem' = [mem EXCEPT ![lock.cred] = [mem[lock.cred] EXCEPT !.rules = policy.rules]]
      BY <1>12 DEF SyncWrite
    <3>4. QED
      BY <2>1, <3>2, <3>3, CredentialFilesAssumption DEF IInv, Stored, Present
  <2>3. UNCHANGED <<missed, failed, synced, policy>>
    BY <1>12 DEF SyncWrite, ruling, context
  <2>4. CASE file' = file /\ queued' = queued /\ lock.seen = lock.next
    <3>1. ASSUME lock.cred \notin queued
          PROVE  file[lock.cred].rules = policy.rules
      <4>1. ~lock.raced /\ lock.next.rules = policy.rules
        BY <2>1, <3>1 DEF Checks
      <4>2. lock.seen = lock.next
        BY <2>4
      <4>3. file[lock.cred] = lock.seen
        BY <2>1, <4>1 DEF Checks
      <4>4. QED
        BY <4>1, <4>2, <4>3
    <3>2. QED
      BY <2>1, <2>2, <2>3, <2>4, <3>1 DEF Checks, OnFile, Reporting
  <2>5. CASE file' = [file EXCEPT ![lock.cred] = lock.next] /\ queued' = queued \cup {lock.cred}
    <3>1. \A d \in Creds : d # lock.cred => file'[d] = file[d]
      BY <2>5 DEF IInv, Stored
    <3>2. QED
      BY <2>1, <2>2, <2>3, <2>5, <3>1 DEF Checks, OnFile, Reporting
  <2>6. QED
    BY <1>12, <2>4, <2>5 DEF SyncWrite
<1>13. CASE SyncMark
  <2>1. /\ rules.cred \in Creds /\ rules.step = "sync" /\ rules'.step = "sync"
        /\ rules'.cred = None /\ rules'.left = rules.left \ {rules.cred}
        /\ UNCHANGED <<file, queued, missed, policy, lock>> /\ Present' = Present
    <3>1. rules.cred \in Creds /\ rules.step = "sync"
      BY <1>13 DEF SyncMark, IInv, Ruling, Checks
    <3>2. UNCHANGED <<file, mem, queued, missed, policy, lock>>
      BY <1>13 DEF SyncMark, store, hosted, context
    <3>3. rules'.step = rules.step /\ rules'.cred = None /\ rules'.left = rules.left \ {rules.cred}
      BY <1>13 DEF SyncMark, IInv, Ruling
    <3>4. QED
      BY <3>1, <3>2, <3>3 DEF Present
  <2>2. CASE rules.ok
    <3>1. synced' = [synced EXCEPT ![rules.cred] = policy.rules] /\ failed' = failed \ {rules.cred}
      BY <1>13, <2>2 DEF SyncMark, MarkSynced
    <3>2. \A d \in Creds : synced'[d] = IF d = rules.cred THEN policy.rules ELSE synced[d]
      BY <2>1, <3>1 DEF IInv, Stored
    <3>3. OnFile(rules.cred)
      BY <1>13, <2>2 DEF SyncMark, Checks
    <3>4. rules.cred \in Present
      BY <1>13 DEF SyncMark, Checks
    <3>5. QED
      BY <2>1, <3>1, <3>2, <3>3, <3>4 DEF Checks, OnFile, Reporting
  <2>3. CASE ~rules.ok
    <3>1. synced' = synced /\ failed' = failed \cup {rules.cred}
      BY <1>13, <2>3 DEF SyncMark, MarkSynced
    <3>2. QED
      BY <2>1, <3>1 DEF Checks, OnFile, Reporting
  <2>4. QED
    BY <2>2, <2>3
<1>14. CASE RulesDone
  <2>1. rules'.step = "idle" /\ rules'.cred = None /\ rules.left = {} /\ rules.step = "sync"
    BY <1>14 DEF RulesDone, NoSync
  <2>2. QED
    BY <1>14, <2>1 DEF RulesDone, store, ruling, hosted, context, Present, Checks, OnFile, Reporting
<1>15. ASSUME NEW c \in Creds, ParseRead(c) PROVE Checks'
  <2>1. file[c] \in Contents
    BY <1>15 DEF ParseRead, IInv, Stored
  <2>2. /\ lock'.by = "parse" /\ lock'.cred = c /\ lock'.next.rules = policy.rules
        /\ lock'.step \in {"marked", "failed", "compare"}
        /\ lock'.step = "marked" => file[c].rules = policy.rules
    BY <1>15, <2>1 DEF ParseRead, Free, Contents
  <2>3. /\ UNCHANGED <<file, missed, failed, synced, policy, rules>> /\ Present' = Present
        /\ queued' = queued \ {c} /\ lock.by = "free"
    BY <1>15 DEF ParseRead, Free, store, ruling, context, Present
  <2>4. QED
    BY <2>2, <2>3 DEF Checks, OnFile, Reporting
<1>16. CASE ParseFails
  <2>1. /\ lock'.by = "parse" /\ lock'.cred = lock.cred /\ lock'.next = lock.next
        /\ lock.by = "parse" /\ lock'.step = "failed"
    BY <1>16 DEF ParseFails, IInv, Locking
  <2>2. QED
    BY <1>16, <2>1 DEF ParseFails, store, ruling, hosted, context, Present, Checks, OnFile, Reporting
<1>17. CASE ParseWrite
  <2>1. /\ lock'.by = lock.by /\ lock'.cred = lock.cred /\ lock'.next = lock.next
        /\ lock.cred \in Creds
    BY <1>17 DEF ParseWrite, IInv, Locking
  <2>2. \A d \in Creds \ {lock.cred} : file'[d] = file[d]
    BY <1>17 DEF ParseWrite, IInv, Stored
  <2>3. rules.cred \in Creds \cup {None}
    BY DEF IInv, Ruling
  <2>4. Present' = Present /\ UNCHANGED <<missed, failed, synced, policy, rules>>
        /\ queued' = queued \cup {lock.cred} /\ lock'.step = "marked"
    BY <1>17 DEF ParseWrite, IInv, Locking, ruling, context, Present
  <2>5. QED
    BY <2>1, <2>2, <2>3, <2>4, ChecksWrite
<1>18. CASE ParseCommit
  <2>1. /\ lock.by = "parse" /\ lock.cred \in Creds /\ lock.step \in {"marked", "failed"}
        /\ lock'.by = "free" /\ lock'.step = "none"
        /\ UNCHANGED <<file, queued, policy, rules>>
    BY <1>18 DEF ParseCommit, Free, IInv, Locking
  <2>2. Present \subseteq Present' /\ lock.cred \in Present'
    <3>1. lock.seen \in Contents /\ policy.rules \in Rules
      BY <1>18 DEF ParseCommit, IInv, Locking, Stored
    <3>2. Loaded(lock.seen, policy.rules) \in Memories
      BY <3>1 DEF Loaded, Contents, Memories
    <3>3. QED
      BY <1>18, <2>1, <3>2, CredentialFilesAssumption DEF ParseCommit, IInv, Stored, Present
  <2>3. CASE lock.step = "marked"
    <3>1. synced' = [synced EXCEPT ![lock.cred] = policy.rules] /\ failed' = failed \ {lock.cred}
          /\ missed' = missed \ {lock.cred}
      BY <1>18, <2>3 DEF ParseCommit, MarkSynced
    <3>2. \A d \in Creds : synced'[d] = IF d = lock.cred THEN policy.rules ELSE synced[d]
      BY <2>1, <3>1 DEF IInv, Stored
    <3>3. lock.cred \notin queued => file[lock.cred].rules = policy.rules
      BY <2>1, <2>3 DEF Checks
    <3>4. QED
      BY <2>1, <2>2, <3>1, <3>2, <3>3 DEF Checks, OnFile, Reporting
  <2>4. CASE lock.step = "failed"
    <3>1. synced' = synced /\ failed' = failed \cup {lock.cred}
          /\ missed' = IF rules.cred = lock.cred THEN missed \cup {lock.cred} ELSE missed \ {lock.cred}
      BY <1>18, <2>4 DEF ParseCommit, MarkSynced
    <3>2. QED
      BY <2>1, <2>2, <3>1 DEF Checks, OnFile, Reporting
  <2>5. QED
    BY <2>1, <2>3, <2>4
<1>19. ASSUME NEW c \in Creds, Register(c) PROVE Checks'
  BY <1>19, ChecksSame DEF Register, store, ruling, context, Present
<1>20. ASSUME NEW c \in Creds, Edit(c) PROVE Checks'
  <2>1. \A d \in Creds : d # c => file'[d] = file[d]
    BY <1>20 DEF Edit, IInv, Stored
  <2>2. /\ lock'.by = lock.by /\ lock'.cred = lock.cred /\ lock'.step = lock.step
        /\ lock'.next = lock.next /\ lock'.seen = lock.seen
        /\ lock'.raced = (IF lock.cred = c /\ lock.step = "write" THEN TRUE ELSE lock.raced)
    BY <1>20 DEF Edit, IInv, Locking
  <2>3. UNCHANGED <<missed, failed, synced, policy, rules>> /\ Present' = Present
        /\ queued' = queued \cup {c}
    BY <1>20 DEF Edit, ruling, context, Present
  <2>4. (lock.by \in {"sync", "parse"} => lock.cred \in Creds) /\ rules.cred \in Creds \cup {None}
    BY DEF IInv, Locking, Ruling
  <2>5. QED
    BY <2>1, <2>2, <2>3, <2>4 DEF Checks, OnFile, Reporting
<1>21. CASE Stop
  BY <1>21, ChecksSame DEF Stop, store, ruling, hosted, Present
<1>22. CASE Restart
  <2>1. lock'.by = "free" /\ lock'.step = "none" /\ rules'.step = "idle" /\ rules'.cred = None
        /\ \A c \in Creds : synced'[c] = None
    BY <1>22 DEF Restart, Free, NoSync
  <2>2. policy'.rules # None
    <3>1. policy'.rules \in Rules
      BY <1>22, RestartInv DEF IInv, Stored
    <3>2. QED
      BY <3>1, CredentialFilesAssumption
  <2>3. QED
    BY <2>1, <2>2 DEF Checks
<1>23. QED
  BY <1>1, <1>2, <1>3, <1>4, <1>5, <1>6, <1>7, <1>8, <1>9, <1>10, <1>11, <1>12, <1>13, <1>14,
     <1>15, <1>16, <1>17, <1>18, <1>19, <1>20, <1>21, <1>22
     DEF Next, RotateStep, RulesStep, ParseStep

(* An account whose rules are shown as synchronised has them on file, once the
   watcher has seen the last edit (error_rules.go:224-229). *)
THEOREM SyncedMeansOnFile == Spec => []SyncedRulesOnFile
<1>1. Spec => []Checks
  BY ChecksInit, ChecksNext, Invariant, PTL DEF Spec
<1>2. Checks => SyncedRulesOnFile
  BY DEF Checks, OnFile, Reporting, SyncedRulesOnFile, Free
<1>3. QED
  BY <1>1, <1>2, PTL

-----------------------------------------------------------------------------
(* The answers of a rotation *)

Busy == Reading \/ rot.step = "backup" \/ Writing

(* What a callback has read of a file that nobody else has written, and what
   memory has of it, is the identity the file carries. *)
Agreeing ==
    /\ lock.by = "parse" => pending[lock.cred] = None
    /\ \A c \in Creds \ edited :
         /\ lock.by = "parse" /\ lock.cred = c =>
              file[c] # None /\ file[c].route = lock.seen.route
         /\ file[c] # None /\ mem[c] # None => mem[c].route = file[c].route

Original(c) ==
    /\ file[c] # None /\ file[c].route = rot.files[c].route
    /\ mem[c] # None /\ mem[c].route = rot.files[c].route

(* A file that no phase has written, or that the rollback has written, is as the
   rotation found it. *)
Keeping ==
    /\ Busy => DOMAIN rot.creds \subseteq Present
    /\ rot.step \in {"reset", "restored"} => DOMAIN rot.files \subseteq Creds
    /\ \A c \in DOMAIN rot.files \ edited :
         /\ Busy /\ rot.written[c] = None => Original(c)
         /\ rot.step = "rollback" /\ rot.restored /\ c \notin rot.left => Original(c)
         /\ rot.step = "restored" => Original(c)

Given(n) == {None, Stable, Name} \cup 0..n
Late == rot.step \in {"next", "awaitNext", "reset"}

(* Once the host has the fresh identity of a file that nobody else has written,
   no callback brings back another. *)
Answering ==
    /\ \A c \in Creds :
         /\ auths[c] \subseteq Given(Fresh) /\ pending[c] \in Given(Fresh)
         /\ Before => auths[c] \subseteq Given(Fresh - 1) /\ pending[c] \in Given(Fresh - 1)
    /\ Late => \A c \in Creds \ edited :
         /\ Fresh \in auths[c] => pending[c] \in {None, Fresh}
         /\ Fresh \in auths[c] \/ pending[c] = Fresh => file[c] # None /\ file[c].route = Fresh
    /\ rot.step = "reset" => \A c \in DOMAIN rot.files \ edited : auths[c] = {Fresh}

SameRoute(r, q) == (r = None <=> q = None) /\ (r # None => r.route = q.route)

(* A step that leaves the rotation and the host alone, and the identities of
   the files that nobody else has written. *)
Gentle ==
    /\ UNCHANGED <<rot, pending, auths>> /\ Fresh' = Fresh /\ edited \subseteq edited'
    /\ \A c \in Creds : SameRoute(mem'[c], mem[c])
    /\ \A c \in Creds \ edited' : SameRoute(file'[c], file[c])

LockKept ==
    lock'.by = "parse" =>
      lock.by = "parse" /\ lock'.cred = lock.cred /\ lock'.seen = lock.seen

LEMMA GentleAgreeing == ASSUME Agreeing, Gentle, LockKept, lock.by = "parse" => lock.cred \in Creds
                        PROVE  Agreeing'
BY DEF Agreeing, Gentle, SameRoute, LockKept

LEMMA GentleKeeping ==
    ASSUME Keeping, IInv, Gentle
    PROVE  Keeping'
<1>1. rot' = rot /\ Present \subseteq Present' /\ edited \subseteq edited'
  BY DEF Gentle, SameRoute, Present
<1>2. Busy \/ rot.step = "restored" => DOMAIN rot.files \subseteq Creds
  BY DEF Busy, Keeping, IInv, Rotating, Reading, Writing
<1>3. ASSUME NEW c \in DOMAIN rot.files \ edited', Original(c), c \in Creds PROVE Original(c)'
  BY <1>1, <1>3 DEF Gentle, SameRoute, Original
<1>4. Busy' = Busy
  BY <1>1 DEF Busy, Reading, Writing
<1>5. rot.step = "rollback" => Busy
  BY DEF Busy, Writing
<1>6. QED
  BY <1>1, <1>2, <1>3, <1>4, <1>5 DEF Keeping

LEMMA GentleAnswering == ASSUME Answering, IInv, Gentle PROVE Answering'
BY DEF Answering, Gentle, SameRoute, Before, Late

LEMMA WriteIsGentle ==
    ASSUME IInv, lock.by \in {"sync", "parse"}, lock.step = "write", edited' = edited,
           file' = file \/ file' = [file EXCEPT ![lock.cred] = lock.next]
    PROVE  \A c \in Creds \ edited' : SameRoute(file'[c], file[c])
<1>1. lock.cred \in Creds /\ lock.next \in Contents /\ file[lock.cred] \in Contents \cup {None}
  BY DEF IInv, Locking, Stored
<1>2. lock.cred \notin edited => file[lock.cred] \in Contents
                                 /\ file[lock.cred].route = lock.next.route
  BY DEF IInv, Locking
<1>3. \A c \in Creds : c # lock.cred => file'[c] = file[c]
  BY DEF IInv, Stored
<1>4. file' = file \/ file'[lock.cred] = lock.next
  BY <1>1 DEF IInv, Stored
<1>5. QED
  BY <1>1, <1>2, <1>3, <1>4, CredentialFilesAssumption DEF SameRoute

LEMMA GentleSteps ==
    ASSUME IInv,
           \/ RulesEnter \/ RulesStep \/ Compare \/ ParseFails \/ ParseWrite \/ Stop
           \/ \E c \in Creds : ParseRead(c) \/ Edit(c)
    PROVE  Gentle
<1>1. CASE RulesEnter \/ RulesPublish \/ SyncFails \/ Compare \/ ParseFails \/ Stop
  <2>1. UNCHANGED <<file, mem, rot, pending, auths, edited>>
    BY <1>1 DEF RulesEnter, RulesPublish, SyncFails, Compare, ParseFails, Stop,
       store, hosted, context
  <2>2. Fresh' = Fresh
    BY <1>1, SpendingOthers, BudgetSame DEF IInv, RulesEnter, RulesPublish, SyncFails, Compare,
       ParseFails, Stop, Trouble
  <2>3. QED
    BY <2>1, <2>2 DEF Gentle, SameRoute
<1>2. CASE SyncMark \/ RulesDone \/ \E c \in Creds : SyncOpen(c) \/ ParseRead(c)
  <2>1. UNCHANGED <<file, mem, rot, pending, auths, edited, budget>>
    BY <1>2 DEF SyncMark, RulesDone, SyncOpen, ParseRead, store, hosted, context
  <2>2. Fresh' = Fresh
    BY <2>1 DEF Fresh
  <2>3. QED
    BY <2>1, <2>2 DEF Gentle, SameRoute
<1>3. CASE SyncWrite
  <2>1. UNCHANGED <<rot, pending, auths, edited, budget>>
    BY <1>3 DEF SyncWrite, context
  <2>2. \A c \in Creds : SameRoute(mem'[c], mem[c])
    <3>1. mem' = [mem EXCEPT ![lock.cred] = [mem[lock.cred] EXCEPT !.rules = policy.rules]]
      BY <1>3 DEF SyncWrite
    <3>2. lock.cred \in Creds /\ mem[lock.cred] \in Memories /\ policy.rules \in Rules
      BY <1>3 DEF SyncWrite, IInv, Guarding, Ruling, Stored, Present
    <3>3. [mem[lock.cred] EXCEPT !.rules = policy.rules] \in Memories
          /\ [mem[lock.cred] EXCEPT !.rules = policy.rules].route = mem[lock.cred].route
      BY <3>2 DEF Memories
    <3>4. \A c \in Creds : mem'[c] = IF c = lock.cred
                                     THEN [mem[lock.cred] EXCEPT !.rules = policy.rules] ELSE mem[c]
      BY <3>1 DEF IInv, Stored
    <3>5. QED
      BY <3>2, <3>3, <3>4, CredentialFilesAssumption DEF SameRoute
  <2>3. \A c \in Creds \ edited' : SameRoute(file'[c], file[c])
    BY <1>3, <2>1, WriteIsGentle DEF SyncWrite
  <2>4. QED
    BY <2>1, <2>2, <2>3 DEF Gentle, Fresh
<1>4. CASE ParseWrite
  <2>1. UNCHANGED <<mem, rot, pending, auths, edited, budget>>
    BY <1>4 DEF ParseWrite, context
  <2>2. \A c \in Creds \ edited' : SameRoute(file'[c], file[c])
    BY <1>4, <2>1, WriteIsGentle DEF ParseWrite
  <2>3. QED
    BY <2>1, <2>2 DEF Gentle, Fresh, SameRoute
<1>5. ASSUME NEW c \in Creds, Edit(c) PROVE Gentle
  <2>1. UNCHANGED <<mem, rot, pending, auths>> /\ edited' = edited \cup {c}
    BY <1>5 DEF Edit
  <2>2. Fresh' = Fresh
    BY <1>5, Spending DEF Edit, IInv, Counters, Fresh
  <2>3. \A d \in Creds : d # c => file'[d] = file[d]
    BY <1>5 DEF Edit, IInv, Stored
  <2>4. QED
    BY <2>1, <2>2, <2>3 DEF Gentle, SameRoute
<1>6. QED
  BY <1>1, <1>2, <1>3, <1>4, <1>5 DEF RulesStep

LEMMA GentleLocks ==
    ASSUME IInv,
           \/ RulesEnter \/ RulesStep \/ Compare \/ ParseFails \/ ParseWrite \/ Stop
           \/ \E c \in Creds : Edit(c)
    PROVE  LockKept
<1>1. CASE RulesEnter \/ RulesPublish \/ SyncMark \/ RulesDone \/ Stop
  BY <1>1 DEF RulesEnter, RulesPublish, SyncMark, RulesDone, Stop, LockKept
<1>2. CASE SyncFails \/ SyncWrite
  <2>1. lock' = Free
    BY <1>2 DEF SyncFails, SyncWrite
  <2>2. QED
    BY <2>1 DEF Free, LockKept
<1>3. CASE Compare \/ ParseFails \/ ParseWrite
  BY <1>3 DEF Compare, ParseFails, ParseWrite, LockKept, IInv, Locking
<1>4. ASSUME NEW c \in Creds, SyncOpen(c) PROVE LockKept
  BY <1>4 DEF SyncOpen, LockKept, Free
<1>5. ASSUME NEW c \in Creds, Edit(c) PROVE LockKept
  BY <1>5 DEF Edit, LockKept, IInv, Locking
<1>6. QED
  BY <1>1, <1>2, <1>3, <1>4, <1>5 DEF RulesStep

-----------------------------------------------------------------------------
(* What the rotation's steps change of files and memory *)

Paperwork ==
    \/ RotateBegin \/ RotateLock \/ RotateRejected \/ BackupBegin \/ BackupDone \/ PhaseRefused
    \/ PhaseDone \/ RotationConfirmed \/ AwaitFails \/ RollbackDone
    \/ \E c \in Creds : RotateRead(c) \/ PhaseCompare(c) \/ RollbackCompare(c) \/ RollbackSkips(c)

LEMMA PaperworkSame ==
    ASSUME IInv, Paperwork
    PROVE  UNCHANGED <<file, mem, pending, auths, edited>> /\ LockKept
<1>1. UNCHANGED <<file, mem, pending, auths, edited>>
  BY DEF Paperwork, RotateBegin, RotateLock, RotateEnter, PhaseBegin, RollbackBegin,
     RotateRejected, BackupBegin, BackupDone, PhaseRefused, PhaseDone, RotationConfirmed,
     AwaitFails, RollbackDone, RotateRead, PhaseCompare, RollbackCompare, RollbackSkips,
     store, hosted, context
<1>2. CASE lock' = lock
  BY <1>1, <1>2 DEF LockKept
<1>3. CASE PhaseBegin \/ RollbackBegin \/ PhaseRefused \/ PhaseDone \/ RollbackDone
  <2>1. \/ lock' = Free
        \/ lock' = [Free EXCEPT !.by = "rotate", !.step = "pick"]
        \/ lock' = [Free EXCEPT !.by = "restore", !.step = "pick"]
    BY <1>3 DEF PhaseBegin, RollbackBegin, PhaseRefused, PhaseFails, PhaseDone, RollbackDone
  <2>2. ASSUME lock' = Free PROVE lock'.by # "parse"
    BY <2>2 DEF Free
  <2>3. ASSUME lock' = [Free EXCEPT !.by = "rotate", !.step = "pick"] PROVE lock'.by # "parse"
    BY <2>3 DEF Free
  <2>4. ASSUME lock' = [Free EXCEPT !.by = "restore", !.step = "pick"] PROVE lock'.by # "parse"
    BY <2>4 DEF Free
  <2>5. QED
    BY <1>1, <2>1, <2>2, <2>3, <2>4 DEF LockKept
<1>4. ASSUME NEW c \in Creds, PhaseCompare(c) \/ RollbackCompare(c) \/ RollbackSkips(c)
      PROVE  LockKept
  BY <1>4 DEF PhaseCompare, RollbackCompare, RollbackSkips, Free, LockKept, IInv, Locking
<1>5. QED
  BY <1>1, <1>2, <1>3, <1>4 DEF Paperwork, RotateBegin, RotateLock, RotateEnter, RotateRejected,
     BackupBegin, BackupDone, RotationConfirmed, AwaitFails, RotateRead

LEMMA PhaseWrites ==
    ASSUME IInv, PhaseWrite
    PROVE  /\ lock.cred \in DOMAIN rot.creds /\ lock.cred \in Creds /\ lock.next # None
           /\ file'[lock.cred] = lock.next /\ lock.next.route = Target(lock.cred)
           /\ mem'[lock.cred] # None /\ mem'[lock.cred].route = Target(lock.cred)
           /\ \A c \in Creds : c # lock.cred => file'[c] = file[c] /\ mem'[c] = mem[c]
           /\ UNCHANGED <<pending, auths, edited, budget>> /\ lock'.by = "rotate"
<1> DEFINE t == Target(lock.cred)
<1>1. /\ lock.cred \in DOMAIN rot.creds /\ Writing
      /\ lock.next = [rot.files[lock.cred] EXCEPT !.route = t]
  BY DEF PhaseWrite, IInv, Guarding, Locking, Rotating, Writing
<1>2. /\ lock.cred \in Creds /\ rot.creds[lock.cred] \in Memories
      /\ rot.files[lock.cred] \in Contents
  BY <1>1 DEF IInv, Rotating, Held, Writing
<1>3. t \in Routes
  <2>1. t \in UpTo(Fresh)
    BY <1>1, TargetType
  <2>2. Fresh \in 0..MaxRotations
    BY FreshType DEF IInv
  <2>3. QED
    BY <2>1, <2>2, CredentialFilesAssumption DEF UpTo, Routes, Earlier
<1> HIDE DEF t
<1>4. lock.next \in Contents /\ lock.next.route = t
  BY <1>1, <1>2, <1>3 DEF Contents
<1>5. [rot.creds[lock.cred] EXCEPT !.route = t] \in Memories
      /\ [rot.creds[lock.cred] EXCEPT !.route = t].route = t
  BY <1>2, <1>3 DEF Memories
<1>6. /\ file' = [file EXCEPT ![lock.cred] = lock.next]
      /\ mem' = [mem EXCEPT ![lock.cred] = [rot.creds[lock.cred] EXCEPT !.route = t]]
  BY DEF PhaseWrite, t
<1>7. UNCHANGED <<pending, auths, edited, budget>> /\ lock'.by = "rotate"
  BY DEF PhaseWrite, Free, context
<1>8. DOMAIN file = Creds /\ DOMAIN mem = Creds
  BY DEF IInv, Stored
<1>9. QED
  BY <1>1, <1>2, <1>4, <1>5, <1>6, <1>7, <1>8, CredentialFilesAssumption DEF t

LEMMA RollbackWrites ==
    ASSUME IInv, RollbackWrite
    PROVE  /\ lock.cred \in DOMAIN rot.creds /\ lock.cred \in Creds /\ rot.step = "rollback"
           /\ file'[lock.cred] = rot.files[lock.cred] /\ rot.files[lock.cred] # None
           /\ mem'[lock.cred] # None /\ mem'[lock.cred].route = rot.files[lock.cred].route
           /\ \A c \in Creds : c # lock.cred => file'[c] = file[c] /\ mem'[c] = mem[c]
           /\ UNCHANGED <<pending, auths, edited, budget>> /\ lock'.by = "restore"
           /\ rot'.step = rot.step /\ rot'.files = rot.files /\ rot'.creds = rot.creds
           /\ rot'.written = rot.written /\ rot'.left = rot.left \ {lock.cred}
           /\ rot'.restored = rot.restored
<1>1. /\ lock.cred \in rot.left /\ rot.step = "rollback" /\ lock.next = rot.files[lock.cred]
  BY DEF RollbackWrite, IInv, Guarding, Locking
<1>2. /\ lock.cred \in DOMAIN rot.creds /\ lock.cred \in Creds
      /\ rot.creds[lock.cred] \in Memories /\ rot.files[lock.cred] \in Contents
      /\ rot.files[lock.cred].route = rot.creds[lock.cred].route
  BY <1>1 DEF IInv, Rotating, Held, Writing
<1>3. /\ file' = [file EXCEPT ![lock.cred] = lock.next]
      /\ mem' = [mem EXCEPT ![lock.cred] = rot.creds[lock.cred]]
      /\ rot' = [rot EXCEPT !.left = rot.left \ {lock.cred}]
  BY DEF RollbackWrite
<1>4. UNCHANGED <<pending, auths, edited, budget>> /\ lock'.by = "restore"
  BY DEF RollbackWrite, Free, context
<1>5. DOMAIN file = Creds /\ DOMAIN mem = Creds
  BY DEF IInv, Stored
<1>6. rot'.step = rot.step /\ rot'.files = rot.files /\ rot'.creds = rot.creds
      /\ rot'.written = rot.written /\ rot'.left = rot.left \ {lock.cred}
      /\ rot'.restored = rot.restored
  BY <1>3 DEF IInv, Rotating
<1>7. QED
  BY <1>1, <1>2, <1>3, <1>4, <1>5, <1>6, CredentialFilesAssumption

LEMMA AgreeingNext == IInv /\ Agreeing /\ [Next]_vars => Agreeing'
<1> SUFFICES ASSUME IInv, Agreeing, [Next]_vars PROVE Agreeing'
  OBVIOUS
<1>a. lock.by = "parse" => lock.cred \in Creds
  BY DEF IInv, Locking
<1>1. CASE UNCHANGED vars
  BY <1>1 DEF vars, Agreeing
<1>2. CASE \/ RulesEnter \/ RulesStep \/ Compare \/ ParseFails \/ ParseWrite \/ Stop
           \/ \E c \in Creds : Edit(c)
  BY <1>2, <1>a, GentleSteps, GentleLocks, GentleAgreeing
<1>3. CASE Paperwork
  BY <1>3, <1>a, PaperworkSame DEF Agreeing, LockKept
<1>4. CASE PhaseWrite
  BY <1>4, PhaseWrites DEF Agreeing
<1>5. CASE RollbackWrite
  BY <1>5, RollbackWrites DEF Agreeing
<1>6. ASSUME NEW c \in Creds, BackupFile(c) PROVE Agreeing'
  <2>1. UNCHANGED <<file, mem, lock, pending>>
    BY <1>6 DEF BackupFile, hosted
  <2>2. \A d \in Creds \ edited' :
          d \notin edited \/ (d = c /\ file[c] = rot.files[c] /\ lock.cred # c
                               /\ mem[c].route = rot.files[c].route)
    BY <1>6 DEF BackupFile
  <2>3. QED
    BY <2>1, <2>2 DEF Agreeing
<1>7. ASSUME NEW c \in Creds, ParseRead(c) PROVE Agreeing'
  <2>1. UNCHANGED <<file, mem, pending, edited>> /\ pending[c] = None
    BY <1>7 DEF ParseRead, store, context
  <2>2. lock'.by = "parse" /\ lock'.cred = c /\ lock'.seen = file[c]
    BY <1>7 DEF ParseRead, Free
  <2>3. file[c] # None
    BY <1>7, CredentialFilesAssumption DEF ParseRead, IInv, Stored
  <2>4. QED
    BY <2>1, <2>2, <2>3 DEF Agreeing
<1>8. CASE ParseCommit
  <2>1. UNCHANGED <<file, edited>> /\ lock'.by = "free" /\ lock.by = "parse"
    BY <1>8 DEF ParseCommit, Free
  <2>2. \A c \in Creds : mem'[c] = IF c = lock.cred THEN Loaded(lock.seen, policy.rules) ELSE mem[c]
    BY <1>8 DEF ParseCommit, IInv, Stored
  <2>3. Loaded(lock.seen, policy.rules).route = lock.seen.route
    BY DEF Loaded
  <2>4. QED
    BY <2>1, <2>2, <2>3 DEF Agreeing
<1>9. ASSUME NEW c \in Creds, Register(c) PROVE Agreeing'
  <2>1. UNCHANGED <<file, mem, lock, edited>> /\ pending' = [pending EXCEPT ![c] = None]
    BY <1>9 DEF Register, store, context
  <2>2. \A d \in Creds : pending'[d] = IF d = c THEN None ELSE pending[d]
    BY <2>1 DEF IInv, Registered
  <2>3. QED
    BY <1>a, <2>1, <2>2 DEF Agreeing
<1>10. CASE Restart
  BY <1>10 DEF Restart, Free, Agreeing
<1>11. QED
  BY <1>1, <1>2, <1>3, <1>4, <1>5, <1>6, <1>7, <1>8, <1>9, <1>10
     DEF Next, RotateStep, ParseStep, Paperwork

LEMMA KeepingNext == IInv /\ Agreeing /\ Keeping /\ [Next]_vars => Keeping'
<1> SUFFICES ASSUME IInv, Agreeing, Keeping, [Next]_vars PROVE Keeping'
  OBVIOUS
<1>a. Busy => /\ DOMAIN rot.creds \subseteq Creds /\ DOMAIN rot.files \subseteq DOMAIN rot.creds
              /\ DOMAIN rot.written = DOMAIN rot.creds
              /\ \A c \in DOMAIN rot.files : rot.files[c] \in Contents
  BY DEF IInv, Rotating, Busy, Reading, Writing, Held
<1>b. DOMAIN rot = {"step", "left", "creds", "files", "written", "restored"}
  BY DEF IInv, Rotating
<1>1. CASE UNCHANGED vars
  BY <1>1 DEF vars, Keeping, Original, Present, Busy, Reading, Writing
<1>2. CASE \/ RulesEnter \/ RulesStep \/ Compare \/ ParseFails \/ ParseWrite \/ Stop
           \/ \E c \in Creds : ParseRead(c) \/ Edit(c)
  BY <1>2, GentleSteps, GentleKeeping
<1>3. CASE Paperwork
  <2>1. UNCHANGED <<file, mem, edited>> /\ Present' = Present
    BY <1>3, PaperworkSame DEF Present
  <2>2. CASE UNCHANGED rot
    BY <2>1, <2>2 DEF Keeping, Original, Busy, Reading, Writing
  <2>3. CASE RotateBegin
    <3>1. rot'.step = "begun" /\ rot'.files = <<>>
      BY <2>3 DEF RotateBegin, NoRotation
    <3>2. QED
      BY <3>1 DEF Keeping, Busy, Reading, Writing
  <2>4. CASE RotateEnter
    <3>1. rot.step = "begun" /\ DOMAIN rot.files = {}
      BY <2>4 DEF RotateEnter, IInv, Rotating
    <3>2. rot'.files = rot.files /\ \/ rot'.step = "rejected"
                                    \/ rot'.step = "read" /\ rot'.creds = [c \in Present |-> mem[c]]
      BY <1>b, <2>4 DEF RotateEnter, Goto
    <3>3. QED
      BY <2>1, <3>1, <3>2 DEF Keeping, Busy, Reading, Writing
  <2>5. CASE RotateRejected
    <3>1. rot'.step = "rejected"
      BY <1>b, <2>5 DEF RotateRejected, Answer, Goto
    <3>2. QED
      BY <3>1 DEF Keeping, Busy, Reading, Writing
  <2>6. CASE BackupBegin \/ BackupDone \/ PhaseDone
    <3>1. /\ rot'.step \in {"backup", "canonical", "next", "awaitCanonical", "awaitNext"}
          /\ rot'.creds = rot.creds /\ rot'.files = rot.files /\ rot'.written = rot.written
          /\ Busy
      BY <1>b, <2>6 DEF BackupBegin, BackupDone, PhaseDone, Goto, Busy, Reading, Writing,
         IInv, Guarding
    <3>2. QED
      BY <2>1, <3>1 DEF Keeping, Original, Busy, Reading, Writing
  <2>7. CASE RotationConfirmed
    <3>1. /\ rot'.step \in {"next", "reset"} /\ rot'.creds = rot.creds /\ rot'.files = rot.files
          /\ rot'.written = rot.written /\ Busy
      BY <1>b, <2>7 DEF RotationConfirmed, Awaiting, Answer, Goto, Busy, Writing
    <3>2. QED
      BY <1>a, <2>1, <3>1 DEF Keeping, Original, Busy, Reading, Writing
  <2>8. CASE PhaseRefused \/ AwaitFails
    <3>1. /\ rot'.step = "rollback" /\ rot'.creds = rot.creds /\ rot'.files = rot.files
          /\ rot'.written = rot.written
          /\ rot'.left = {c \in DOMAIN rot.written : rot.written[c] # None} /\ Busy
      BY <1>b, <2>8 DEF PhaseRefused, PhaseFails, AwaitFails, Awaiting, Busy, Writing,
         IInv, Guarding
    <3>2. QED
      BY <1>a, <2>1, <3>1 DEF Keeping, Original, Busy, Reading, Writing
  <2>9. CASE RollbackDone
    <3>1. /\ rot.step = "rollback" /\ rot.left = {} /\ rot'.files = rot.files /\ Busy
          /\ rot'.step = IF rot.restored THEN "restored" ELSE "partial"
      BY <1>b, <2>9 DEF RollbackDone, Answer, Goto, IInv, Guarding, Busy, Writing
    <3>2. QED
      BY <1>a, <2>1, <3>1 DEF Keeping, Original, Busy, Reading, Writing
  <2>10. ASSUME NEW c \in Creds, RotateRead(c) PROVE Keeping'
    <3>1. /\ rot.step = "read" /\ c \in DOMAIN rot.creds /\ Matches(file[c], rot.creds[c])
          /\ rot' = [rot EXCEPT !.files = [d \in DOMAIN rot.files \cup {c} |->
                                             IF d = c THEN file[c] ELSE rot.files[d]],
                                !.left = rot.left \ {c}]
      BY <2>10 DEF RotateRead, IInv, Rotating, Reading
    <3>2. /\ rot'.step = "read" /\ rot'.creds = rot.creds /\ rot'.written = rot.written
          /\ DOMAIN rot'.files = DOMAIN rot.files \cup {c}
          /\ rot'.files[c] = file[c] /\ \A d \in DOMAIN rot.files \ {c} : rot'.files[d] = rot.files[d]
      BY <1>b, <3>1
    <3>3. Busy /\ c \in Present
      BY <3>1 DEF Keeping, Busy, Reading
    <3>4. c \notin edited => Original(c)'
      BY <2>1, <3>1, <3>2, <3>3 DEF Agreeing, Original, Matches, Present
    <3>5. \A d \in DOMAIN rot.files \ edited : d # c /\ rot.written[d] = None => Original(d)'
      BY <2>1, <3>2, <3>3 DEF Keeping, Original
    <3>6. QED
      BY <2>1, <3>2, <3>3, <3>4, <3>5 DEF Keeping, Busy, Reading, Writing
  <2>11. ASSUME NEW c \in Creds, RollbackSkips(c) PROVE Keeping'
    <3>1. /\ rot.step = "rollback" /\ rot'.step = "rollback" /\ rot'.restored = FALSE /\ Busy
          /\ rot'.files = rot.files /\ rot'.creds = rot.creds /\ rot'.written = rot.written
      BY <1>b, <2>11 DEF RollbackSkips, IInv, Guarding, Busy, Writing
    <3>2. QED
      BY <2>1, <3>1 DEF Keeping, Original, Busy, Reading, Writing
  <2>12. QED
    BY <1>3, <2>2, <2>3, <2>4, <2>5, <2>6, <2>7, <2>8, <2>9, <2>10, <2>11
       DEF Paperwork, RotateLock, PhaseBegin, RollbackBegin, PhaseCompare, RollbackCompare
<1>4. CASE PhaseWrite
  <2>1. /\ rot'.step = rot.step /\ rot.step \in {"canonical", "next"}
        /\ rot'.files = rot.files /\ rot'.creds = rot.creds
        /\ rot'.written = [rot.written EXCEPT ![lock.cred] = lock.next]
    BY <1>b, <1>4 DEF PhaseWrite, IInv, Guarding
  <2>2. Busy /\ Busy'
    BY <2>1 DEF Busy, Writing
  <2>3. rot'.written[lock.cred] # None /\ edited' = edited
        /\ \A c \in DOMAIN rot.creds : c # lock.cred => rot'.written[c] = rot.written[c]
    BY <1>4, <1>a, <2>1, <2>2, PhaseWrites
  <2>4. Present \subseteq Present'
    BY <1>4, PhaseWrites DEF Present
  <2>5. \A c \in Creds : c # lock.cred /\ Original(c) => Original(c)'
    BY <1>4, <2>1, PhaseWrites DEF Original
  <2>6. QED
    BY <1>a, <2>1, <2>2, <2>3, <2>4, <2>5 DEF Keeping
<1>5. CASE RollbackWrite
  <2>1. Busy /\ Busy' /\ edited' = edited
    BY <1>5, RollbackWrites DEF Busy, Writing
  <2>2. Present \subseteq Present'
    BY <1>5, RollbackWrites DEF Present
  <2>3. \A c \in Creds : c = lock.cred => Original(c)'
    BY <1>5, RollbackWrites DEF Original
  <2>4. \A c \in Creds : Original(c) => Original(c)'
    BY <1>5, <2>3, RollbackWrites DEF Original
  <2>5. /\ rot.step = "rollback" /\ rot'.step = "rollback"
        /\ rot'.files = rot.files /\ rot'.creds = rot.creds /\ rot'.written = rot.written
        /\ rot'.left = rot.left \ {lock.cred} /\ rot'.restored = rot.restored
    BY <1>5, RollbackWrites
  <2>6. QED
    BY <1>a, <2>1, <2>2, <2>3, <2>4, <2>5 DEF Keeping
<1>6. ASSUME NEW c \in Creds, BackupFile(c) PROVE Keeping'
  <2>1. /\ rot.step = "backup" /\ rot'.step = "backup" /\ c \in rot.left
        /\ rot'.files = rot.files /\ rot'.creds = rot.creds /\ rot'.written = rot.written
    BY <1>b, <1>6 DEF BackupFile
  <2>2. UNCHANGED <<file, mem>> /\ Busy /\ Present' = Present
    BY <1>6, <2>1 DEF BackupFile, Busy, Present
  <2>3. \A d \in Creds \ edited' :
          d \notin edited \/ (d = c /\ file[c] = rot.files[c] /\ mem[c] # None
                               /\ mem[c].route = rot.files[c].route)
    BY <1>6 DEF BackupFile
  <2>4. \A d \in DOMAIN rot.files \ edited' : rot.written[d] = None => Original(d)
    BY <1>a, <2>2, <2>3, CredentialFilesAssumption DEF Keeping, Original
  <2>5. \A d \in DOMAIN rot.files : Original(d) => Original(d)'
    BY <2>1, <2>2 DEF Original
  <2>6. QED
    BY <2>1, <2>2, <2>4, <2>5 DEF Keeping, Busy, Reading, Writing
<1>7. CASE ParseCommit
  <2>1. UNCHANGED <<file, rot, edited>> /\ lock.by = "parse" /\ lock.cred \in Creds
    BY <1>7 DEF ParseCommit, IInv, Locking
  <2>2. \A c \in Creds : mem'[c] = IF c = lock.cred THEN Loaded(lock.seen, policy.rules) ELSE mem[c]
    BY <1>7 DEF ParseCommit, IInv, Stored
  <2>3. Loaded(lock.seen, policy.rules).route = lock.seen.route
        /\ Loaded(lock.seen, policy.rules) # None
    <3>1. lock.seen \in Contents /\ policy.rules \in Rules
      BY <2>1 DEF IInv, Locking, Stored
    <3>2. Loaded(lock.seen, policy.rules) \in Memories
      BY <3>1 DEF Loaded, Contents, Memories
    <3>3. QED
      BY <3>2, CredentialFilesAssumption DEF Loaded
  <2>4. Present \subseteq Present'
    BY <2>2, <2>3 DEF Present
  <2>5. \A c \in Creds \ edited : Original(c) => Original(c)'
    BY <2>1, <2>2, <2>3 DEF Original, Agreeing
  <2>6. rot.step = "restored" \/ Busy => DOMAIN rot.files \subseteq Creds
    BY <1>a DEF Keeping
  <2>7. (rot.step = "rollback" => Busy) /\ Busy' = Busy
    BY <2>1 DEF Busy, Reading, Writing
  <2>8. QED
    BY <2>1, <2>4, <2>5, <2>6, <2>7 DEF Keeping
<1>8. ASSUME NEW c \in Creds, Register(c) PROVE Keeping'
  BY <1>8 DEF Register, store, context, Keeping, Original, Present, Busy, Reading, Writing
<1>9. CASE Restart
  <2>1. rot'.step = "idle" /\ rot'.files = <<>>
    BY <1>9 DEF Restart, NoRotation
  <2>2. QED
    BY <2>1 DEF Keeping, Busy, Reading, Writing
<1>10. QED
  BY <1>1, <1>2, <1>3, <1>4, <1>5, <1>6, <1>7, <1>8, <1>9
     DEF Next, RotateStep, ParseStep, Paperwork

(* A step of the rotation that neither begins it nor ends it with success. *)
LEMMA PaperworkAnswering ==
    ASSUME IInv, Answering, UNCHANGED <<file, pending, auths, edited>>, Fresh' = Fresh,
           rot'.step # "reset", Before' => Before, Late' => Late \/ Before
    PROVE  Answering'
<1>1. Fresh \notin Given(Fresh - 1)
  <2>1. Fresh \in 0..MaxRotations
    BY FreshType DEF IInv
  <2>2. Fresh \notin {None, Stable, Name} /\ Fresh \notin 0..(Fresh - 1)
    BY <2>1, CredentialFilesAssumption
  <2>3. QED
    BY <2>2 DEF Given
<1>2. QED
  BY <1>1 DEF Answering

LEMMA AnsweringNext == IInv /\ Agreeing /\ Keeping /\ Answering /\ [Next]_vars => Answering'
<1> SUFFICES ASSUME IInv, Agreeing, Keeping, Answering, [Next]_vars PROVE Answering'
  OBVIOUS
<1>a. DOMAIN rot = {"step", "left", "creds", "files", "written", "restored"}
  BY DEF IInv, Rotating
<1>b. Fresh \in 0..MaxRotations /\ Fresh \notin {None, Stable, Name}
  BY FreshType, CredentialFilesAssumption DEF IInv
<1>1. CASE UNCHANGED vars
  BY <1>1 DEF vars, Answering, Before, Late, Fresh
<1>2. CASE \/ RulesEnter \/ RulesStep \/ Compare \/ ParseFails \/ ParseWrite \/ Stop
           \/ \E c \in Creds : ParseRead(c) \/ Edit(c)
  <2>1. Gentle
    BY <1>2, GentleSteps
  <2>2. QED
    BY <2>1, GentleAnswering
<1>3. CASE Paperwork
  <2>1. UNCHANGED <<file, pending, auths, edited>>
    BY <1>3, PaperworkSame
  <2>2. CASE RotateBegin
    <3>1. rot'.step = "begun"
      BY <2>2 DEF RotateBegin, NoRotation
    <3>2. Fresh' = Fresh + 1
      BY <2>2, Spending, CredentialFilesAssumption DEF RotateBegin, IInv, Counters, Fresh, Budgeted
    <3>3. Given(Fresh) \subseteq Given(Fresh') /\ Given(Fresh' - 1) = Given(Fresh)
      BY <1>b, <3>2 DEF Given
    <3>4. QED
      BY <2>1, <3>1, <3>2, <3>3 DEF Answering, Late
  <2>3. ASSUME ~RotateBegin PROVE Fresh' = Fresh
    BY <1>3, <2>3, SpendingOthers, BudgetSame
       DEF Paperwork, RotateLock, RotateEnter, PhaseBegin, RollbackBegin, RotateRejected,
       BackupBegin, BackupDone, PhaseRefused, PhaseDone, RotationConfirmed, AwaitFails,
       RollbackDone, RotateRead, PhaseCompare, RollbackCompare, RollbackSkips, IInv
  <2>4. CASE ~RotateBegin /\ ~RotationConfirmed
    <3>1. rot'.step # "reset" \/ rot' = rot
      BY <1>3, <1>a, <2>4 DEF Paperwork, RotateLock, RotateEnter, PhaseBegin, RollbackBegin,
         RotateRejected, BackupBegin, BackupDone, PhaseRefused, PhaseFails, PhaseDone, AwaitFails,
         RollbackDone, RotateRead, PhaseCompare, RollbackCompare, RollbackSkips, Answer, Goto,
         IInv, Guarding
    <3>2. Before' => Before
      BY <1>3, <1>a, <2>4 DEF Paperwork, RotateLock, RotateEnter, PhaseBegin, RollbackBegin,
         RotateRejected, BackupBegin, BackupDone, PhaseRefused, PhaseFails, PhaseDone, AwaitFails,
         RollbackDone, RotateRead, PhaseCompare, RollbackCompare, RollbackSkips, Answer, Goto,
         IInv, Guarding, Before
    <3>3. Late' => Late \/ Before
      BY <1>3, <1>a, <2>4 DEF Paperwork, RotateLock, RotateEnter, PhaseBegin, RollbackBegin,
         RotateRejected, BackupBegin, BackupDone, PhaseRefused, PhaseFails, PhaseDone, AwaitFails,
         RollbackDone, RotateRead, PhaseCompare, RollbackCompare, RollbackSkips, Answer, Goto,
         IInv, Guarding, Before, Late
    <3>4. CASE rot' = rot
      BY <2>1, <2>3, <2>4, <3>4 DEF Answering, Before, Late
    <3>5. QED
      BY <2>1, <2>3, <2>4, <3>1, <3>2, <3>3, <3>4, PaperworkAnswering
  <2>5. CASE RotationConfirmed /\ rot.step = "awaitCanonical"
    <3>1. rot'.step = "next"
      BY <1>a, <2>5 DEF RotationConfirmed
    <3>2. Fresh' = Fresh
      BY <2>5 DEF RotationConfirmed, Fresh
    <3>3. QED
      BY <2>1, <2>5, <3>1, <3>2, PaperworkAnswering DEF Before, Late
  <2>6. CASE RotationConfirmed /\ rot.step = "awaitNext"
    <3>1. rot'.step = "reset" /\ rot'.files = rot.files /\ Fresh' = Fresh
      BY <1>a, <2>6 DEF RotationConfirmed, Answer, Goto, Fresh
    <3>2. \A c \in DOMAIN rot.files : auths[c] = {Fresh}
      BY <2>6 DEF RotationConfirmed, Confirmed, NewIdentity, IInv, Rotating, Writing
    <3>3. QED
      BY <2>1, <2>6, <3>1, <3>2 DEF Answering, Before, Late
  <2>7. RotationConfirmed => rot.step \in {"awaitCanonical", "awaitNext"}
    BY DEF RotationConfirmed, Awaiting
  <2>8. QED
    BY <2>2, <2>4, <2>5, <2>6, <2>7
<1>4. CASE PhaseWrite
  <2>1. rot'.step = rot.step /\ rot.step \in {"canonical", "next"}
    BY <1>4, <1>a DEF PhaseWrite, IInv, Guarding
  <2>2. rot.step = "next" => Target(lock.cred) = Fresh
    BY DEF Target
  <2>3. Fresh' = Fresh
    BY <1>4, PhaseWrites DEF Fresh
  <2>4. QED
    BY <1>4, <2>1, <2>2, <2>3, PhaseWrites DEF Answering, Before, Late
<1>5. CASE RollbackWrite
  <2>1. Fresh' = Fresh
    BY <1>5, RollbackWrites DEF Fresh
  <2>2. QED
    BY <1>5, <2>1, RollbackWrites DEF Answering, Before, Late
<1>6. ASSUME NEW c \in Creds, BackupFile(c) PROVE Answering'
  <2>1. rot.step = "backup" /\ rot'.step = "backup"
    BY <1>6, <1>a DEF BackupFile
  <2>2. UNCHANGED <<pending, auths>> /\ Fresh' = Fresh
    BY <1>6 DEF BackupFile, hosted, Fresh
  <2>3. QED
    BY <2>1, <2>2 DEF Answering, Before, Late
<1>7. CASE ParseCommit
  <2> DEFINE new == RoutingID(lock.seen)
  <2>1. /\ UNCHANGED <<file, rot, edited, auths>> /\ Fresh' = Fresh
        /\ lock.by = "parse" /\ lock.cred \in Creds
    BY <1>7 DEF ParseCommit, IInv, Locking, Fresh
  <2>2. \A c \in Creds : pending'[c] = IF c = lock.cred THEN new ELSE pending[c]
    BY <1>7 DEF ParseCommit, IInv, Registered
  <2>3. new = IF lock.seen.route = None THEN Name ELSE lock.seen.route
    BY DEF RoutingID
  <2>4. /\ lock.seen.route \in UpTo(Fresh)
        /\ Before => lock.seen.route \in UpTo(Fresh - 1)
    BY <2>1 DEF IInv, Fresher, Locking
  <2>5. new \in Given(Fresh) /\ (Before => new \in Given(Fresh - 1))
    BY <2>3, <2>4 DEF Given, UpTo
  <2>6. lock.cred \notin edited => file[lock.cred] # None /\ lock.seen.route = file[lock.cred].route
    BY <2>1 DEF Agreeing
  <2>7. new = Fresh <=> lock.seen.route = Fresh
    BY <1>b, <2>3
  <2> HIDE DEF new
  <2>8. QED
    BY <2>1, <2>2, <2>5, <2>6, <2>7 DEF Answering, Before, Late
<1>8. ASSUME NEW c \in Creds, Register(c) PROVE Answering'
  <2>1. UNCHANGED <<file, rot, edited>> /\ Fresh' = Fresh /\ pending[c] # None
    BY <1>8 DEF Register, store, context, Fresh
  <2>2. \A d \in Creds : pending'[d] = IF d = c THEN None ELSE pending[d]
    BY <1>8 DEF Register, IInv, Registered
  <2>3. \A d \in Creds : auths'[d] = IF d = c THEN (auths[c] \ {owned[c]}) \cup {pending[c]}
                                     ELSE auths[d]
    BY <1>8 DEF Register, IInv, Registered
  <2>4. None \in Given(Fresh) /\ None \in Given(Fresh - 1)
    BY DEF Given
  <2>5. rot.step = "reset" => DOMAIN rot.files \subseteq Creds
    BY DEF Keeping
  <2>6. ASSUME Late, NEW d \in Creds \ edited, Fresh \in auths'[d] \/ pending'[d] = Fresh
        PROVE  /\ pending'[d] \in {None, Fresh} /\ file[d] # None /\ file[d].route = Fresh
    BY <1>b, <2>1, <2>2, <2>3, <2>6 DEF Answering
  <2>7. ASSUME rot.step = "reset", NEW d \in DOMAIN rot.files \ edited PROVE auths'[d] = {Fresh}
    <3>1. auths[d] = {Fresh} /\ d \in Creds /\ Late
      BY <2>5, <2>7 DEF Answering, Late
    <3>2. pending[d] \in {None, Fresh}
      BY <2>7, <3>1 DEF Answering
    <3>3. QED
      BY <2>1, <2>3, <3>1, <3>2
  <2>8. QED
    BY <2>1, <2>2, <2>3, <2>4, <2>6, <2>7 DEF Answering, Before, Late
<1>9. CASE Restart
  <2>1. rot'.step = "idle" /\ \A c \in Creds : auths'[c] = {} /\ pending'[c] = None
    BY <1>9 DEF Restart, NoRotation
  <2>2. QED
    BY <2>1 DEF Answering, Before, Late, Given
<1>10. QED
  BY <1>1, <1>2, <1>3, <1>4, <1>5, <1>6, <1>7, <1>8, <1>9
     DEF Next, RotateStep, ParseStep, Paperwork

LEMMA AnswersInit == Init => Agreeing /\ Keeping /\ Answering
<1> SUFFICES ASSUME Init PROVE Agreeing /\ Keeping /\ Answering
  OBVIOUS
<1>1. rot.step = "idle" /\ lock.by = "free" /\ rot.files = <<>>
  BY DEF Init, NoRotation, Free
<1>2. Agreeing
  BY <1>1 DEF Init, Agreeing, Loaded
<1>3. Keeping
  BY <1>1 DEF Keeping, Busy, Reading, Writing
<1>4. Answering
  <2>1. Fresh \in 0..MaxRotations
    BY InitInv, FreshType DEF IInv
  <2>2. {Stable, Name, Earlier, None} \subseteq Given(Fresh)
    BY <2>1 DEF Given, Earlier
  <2>3. \A c \in Creds : auths[c] \subseteq {Stable, Name, Earlier}
    BY DEF Init
  <2>4. \A c \in Creds : pending[c] = None
    BY DEF Init
  <2>5. QED
    BY <1>1, <2>2, <2>3, <2>4 DEF Answering, Before, Late
<1>5. QED
  BY <1>2, <1>3, <1>4

(* The answers an operator acts on mean what they say: after "restored" every
   file that nobody else has touched has its former identity, in memory too;
   after "reset" no identity from before is registered for any account, nor
   comes back by a late callback (affinity.go:173, 288-291, 319). *)
THEOREM AnswersAreTrue == Spec => []RotationAnswersAreTrue
<1>1. Spec => [](Agreeing /\ Keeping /\ Answering)
  BY AnswersInit, AgreeingNext, KeepingNext, AnsweringNext, Invariant, PTL DEF Spec
<1>2. Keeping /\ Answering => RotationAnswersAreTrue
  <2>1. Keeping => RestoredFilesAreOriginal
    BY DEF Keeping, RestoredFilesAreOriginal, Original
  <2>2. ASSUME Keeping, Answering, rot.step = "reset", NEW c \in DOMAIN rot.files \ edited
        PROVE  file[c].route = Fresh /\ auths[c] = {Fresh}
    <3>1. c \in Creds \ edited /\ Late /\ auths[c] = {Fresh}
      BY <2>2 DEF Keeping, Answering, Late
    <3>2. QED
      BY <2>2, <3>1 DEF Answering
  <2>3. QED
    BY <2>1, <2>2 DEF RotationAnswersAreTrue, OldIdentitiesGone
<1>3. QED
  BY <1>1, <1>2, PTL

===============================================================================
