--------------------------- MODULE QuotaGuardProofs ---------------------------
(***************************************************************************)
(* Proofs about QuotaGuard, for any credentials, keys, accounts, clocks,    *)
(* outside writes, faults and restarts: what is deleted stays deleted, a    *)
(* block stays in the account that earned it, the operator's choice         *)
(* outlives every quota write, an exhausted credential stays paused, and    *)
(* what memory and file disagree on is flagged.                             *)
(***************************************************************************)
EXTENDS QuotaGuard, TLAPS, FiniteSetTheorems, WellFoundedInduction

Shape(r) == r = [key |-> r.key, disabled |-> r.disabled, block |-> r.block,
                 ident |-> r.ident, rev |-> r.rev]
BlockShape(b) == b = [key |-> b.key, manual |-> b.manual, observed |-> b.observed,
                      limits |-> b.limits, accounts |-> b.accounts]

(* A copy of a credential, wherever it is, whose block the account of the
   block's key has earned. *)
EarnedBlock(b) == b # NoBlock => BlockShape(b) /\ b.accounts = {AccountOf[b.key]}
Earned(r) == Shape(r) /\ EarnedBlock(r.block)
Sound(r) == r # Absent => Earned(r)

(* What is about to be written, or adopted, says what the operator chose. *)
Told(r) == Manual(r) = r.disabled

GoodGuard(g) ==
  /\ g = [op |-> g.op, base |-> g.base, next |-> g.next]
  /\ g.op \in {"idle", "publish", "write", "save"} /\ (g.op = "idle" => g = IdleGuard)
  /\ DOMAIN g.next \subseteq Creds
  /\ \A c \in DOMAIN g.next : Earned(g.next[c])
  /\ g.op = "save" => \A c \in DOMAIN g.next : Told(g.next[c])

GoodFile(f) ==
  /\ f = [by |-> f.by, cred |-> f.cred, orig |-> f.orig, next |-> f.next,
          checked |-> f.checked]
  /\ f.by \in {"free", "persist", "save", "parse"} /\ (f.by = "free" => f = FreeFile)
  /\ f.by # "free" => f.cred \in Creds /\ Earned(f.orig)
  /\ f.by \in {"persist", "save"} => Earned(f.next) /\ Told(f.next)
  /\ f.by = "persist" => f.next.disabled = Manual(f.orig)

Locks ==
  /\ GoodGuard(guard) /\ GoodFile(file)
  /\ file.by = "persist" => guard.op = "write"
  /\ file.by = "save" => guard.op = "save"

Copies ==
  /\ DOMAIN mem = Creds /\ DOMAIN disk = Creds /\ DOMAIN host = Creds /\ DOMAIN gone = Creds
  /\ \A c \in Creds : Sound(mem[c]) /\ Sound(disk[c]) /\ Sound(host[c]) /\ Sound(gone[c])

(* A file that is being worked on is there, and only a deletion through the
   plugin leaves a content behind that a callback could bring back. *)
Deleted ==
  /\ \A c \in Creds : gone[c] # Absent => disk[c] = Absent /\ c \in revoked
  /\ file.by # "free" => disk[file.cred] # Absent

(* Every change of a file is yet to be reported, being read, or in memory. *)
Reading(c) == file.by = "parse" /\ file.cred = c
Chosen ==
  /\ DOMAIN choice = Creds
  /\ \A c \in Creds : disk[c] # Absent =>
       /\ Manual(disk[c]) = choice[c]
       /\ Present(c) /\ c \notin queued /\ ~Reading(c) => mem[c].disabled = choice[c]
  /\ file.by = "parse" => disk[file.cred] = file.orig \/ file.cred \in queued

Bounded == budget \in Worlds /\ writeErr \subseteq Creds

Asked(u) ==
  /\ u = [kind |-> u.kind, cred |-> u.cred, key |-> u.key, started |-> u.started,
          answer |-> u.answer, at |-> u.at, reset |-> u.reset]
  /\ u.cred \in Creds
Calling == \A u \in calls : Asked(u)

IInv == Locks /\ Copies /\ Deleted /\ Chosen /\ Bounded /\ Calling

-----------------------------------------------------------------------------
(* Operators on credentials *)

LEMMA Normalizing ==
  ASSUME NEW r, Earned(r)
  PROVE  LET n == Normalize(r) IN
         /\ Earned(n) /\ n.key = r.key /\ n.disabled = r.disabled /\ Told(n)
         /\ n.block # NoBlock => n.block.key = r.key
         /\ n.block # NoBlock => n.block.accounts = {AccountOf[r.key]}
         /\ n.ident \in {r.key, NoKey}
<1>1. PICK i, b : /\ i = (IF r.ident = r.key THEN r.ident ELSE NoKey)
                  /\ b = (IF r.block = NoBlock \/ r.block.key # r.key THEN NoBlock
                          ELSE [r.block EXCEPT !.manual = r.disabled])
  OBVIOUS
<1>2. PICK n : n = [r EXCEPT !.ident = i, !.block = b]
  OBVIOUS
<1>3. Normalize(r) = n
  BY <1>1, <1>2 DEF Normalize
<1>4. Shape(n) /\ n.key = r.key /\ n.disabled = r.disabled /\ n.block = b /\ n.ident = i
  BY <1>2 DEF Earned, Shape
<1>5. ASSUME b # NoBlock
      PROVE  BlockShape(b) /\ b.key = r.key /\ b.manual = r.disabled
             /\ b.accounts = {AccountOf[r.key]}
  <2>1. r.block # NoBlock /\ r.block.key = r.key /\ b = [r.block EXCEPT !.manual = r.disabled]
    BY <1>1, <1>5
  <2>2. BlockShape(r.block) /\ r.block.accounts = {AccountOf[r.key]}
    BY <2>1 DEF Earned, EarnedBlock
  <2>3. QED
    BY <2>1, <2>2 DEF BlockShape
<1>6. QED
  BY <1>1, <1>3, <1>4, <1>5 DEF Earned, EarnedBlock, Told, Manual

(* A change of anything but the block. *)
LEMMA Changing ==
  ASSUME NEW r, Earned(r), NEW v
  PROVE  /\ LET n == [r EXCEPT !.disabled = v] IN
            Earned(n) /\ n.key = r.key /\ n.disabled = v /\ n.block = r.block
         /\ LET n == [r EXCEPT !.key = v] IN
            Earned(n) /\ n.disabled = r.disabled /\ n.block = r.block
         /\ LET n == [r EXCEPT !.ident = v] IN
            Earned(n) /\ n.key = r.key /\ n.disabled = r.disabled /\ n.block = r.block
         /\ LET n == [r EXCEPT !.rev = v] IN
            Earned(n) /\ n.key = r.key /\ n.disabled = r.disabled /\ n.block = r.block
BY DEF Earned, Shape

LEMMA Blocking ==
  ASSUME NEW r, Earned(r), NEW b, EarnedBlock(b)
  PROVE  LET n == [r EXCEPT !.block = b] IN
         Earned(n) /\ n.key = r.key /\ n.disabled = r.disabled
BY DEF Earned, Shape

LEMMA Quoting ==
  ASSUME NEW r, Earned(r), NEW b, EarnedBlock(b), NEW i
  PROVE  LET n == [r EXCEPT !.block = b, !.ident = i] IN
         Earned(n) /\ n.key = r.key /\ n.disabled = r.disabled
<1>1. PICK n : n = [r EXCEPT !.block = b, !.ident = i]
  OBVIOUS
<1>2. Shape(n) /\ n.key = r.key /\ n.disabled = r.disabled /\ n.block = b
  BY <1>1 DEF Earned, Shape
<1>3. QED
  BY <1>1, <1>2 DEF Earned

LEMMA Revising ==
  ASSUME NEW r, Earned(r), NEW b, EarnedBlock(b), NEW i, NEW v
  PROVE  LET n == [r EXCEPT !.rev = v, !.block = b, !.ident = i] IN
         Earned(n) /\ n.key = r.key /\ n.disabled = r.disabled
<1>1. PICK n : n = [r EXCEPT !.rev = v, !.block = b, !.ident = i]
  OBVIOUS
<1>2. Shape(n) /\ n.key = r.key /\ n.disabled = r.disabled /\ n.block = b
  BY <1>1 DEF Earned, Shape
<1>3. QED
  BY <1>1, <1>2 DEF Earned

LEMMA Merging ==
  ASSUME NEW r, NEW cores, \A b \in cores : b.accounts = {AccountOf[r.key]}
  PROVE  EarnedBlock(MergeBlocks(r, cores))
<1>1. CASE cores = {}
  BY <1>1 DEF MergeBlocks, EarnedBlock
<1>2. CASE cores # {}
  <2>1. UNION {b.accounts : b \in cores} = {AccountOf[r.key]}
    BY <1>2
  <2>2. PICK manual, observed, limits, accounts :
          /\ accounts = UNION {b.accounts : b \in cores}
          /\ MergeBlocks(r, cores) = [key |-> r.key, manual |-> manual, observed |-> observed,
                                      limits |-> limits, accounts |-> accounts]
    BY <1>2 DEF MergeBlocks
  <2>3. QED
    BY <2>1, <2>2 DEF EarnedBlock, BlockShape
<1>3. QED
  BY <1>1, <1>2

(* A group shares the account of its source, as far as any is verified. *)
LEMMA Grouping ==
  ASSUME IInv, NEW c \in Creds, Present(c), NEW account,
         account \in {{}, {AccountOf[mem[c].key]}}
  PROVE  /\ DOMAIN QuotaGroup(c, account) \subseteq Creds
         /\ \A d \in DOMAIN QuotaGroup(c, account) : LET r == QuotaGroup(c, account)[d] IN
              /\ Earned(r) /\ AccountOf[r.key] = AccountOf[mem[c].key]
              /\ \A b \in Cores(r) : b.accounts = {AccountOf[r.key]}
<1> DEFINE members == {d \in Creds \ revoked : /\ Present(d)
                         /\ \/ d = c
                            \/ account # {} /\ AccountHash(d, mem[d]) = account}
           Member(d) == LET r == Normalize(mem[d]) IN
                        IF account = {} THEN r ELSE [r EXCEPT !.ident = r.key]
<1>1. QuotaGroup(c, account) = [d \in members |-> Member(d)]
  BY DEF QuotaGroup
<1>2. ASSUME NEW d \in members
      PROVE  /\ Earned(Member(d)) /\ AccountOf[Member(d).key] = AccountOf[mem[c].key]
             /\ \A b \in Cores(Member(d)) : b.accounts = {AccountOf[Member(d).key]}
  <2>1. Earned(mem[d]) /\ d \in Creds
    BY DEF IInv, Copies, Sound, Present
  <2>2. PICK n : n = Normalize(mem[d])
    OBVIOUS
  <2>3. /\ Earned(n) /\ n.key = mem[d].key /\ n.ident \in {mem[d].key, NoKey}
        /\ n.block # NoBlock => n.block.accounts = {AccountOf[n.key]}
    BY <2>1, <2>2, Normalizing
  <2>4. PICK m : m = Member(d)
    OBVIOUS
  <2>5. m \in {n, [n EXCEPT !.ident = n.key]}
    BY <2>2, <2>4
  <2>6. Earned(m) /\ m.key = n.key /\ m.block = n.block
    <3>1. CASE m = n
      BY <2>3, <3>1
    <3>2. CASE m = [n EXCEPT !.ident = n.key]
      BY <2>3, <3>2 DEF Earned, Shape
    <3>3. QED
      BY <2>5, <3>1, <3>2
  <2>7. AccountOf[mem[d].key] = AccountOf[mem[c].key]
    <3>1. CASE d = c
      BY <3>1
    <3>2. CASE d # c
      <4>1. account # {} /\ AccountHash(d, mem[d]) = account
        BY <3>2
      <4>2. AccountHash(d, mem[d]) \in {{}, {AccountOf[mem[d].key]}}
        BY <2>2, <2>3 DEF AccountHash
      <4>3. QED
        BY <4>1, <4>2
    <3>3. QED
      BY <3>1, <3>2
  <2>8. \A b \in Cores(m) : b.accounts = {AccountOf[m.key]}
    BY <2>3, <2>6 DEF Cores, Core
  <2>9. QED
    BY <2>3, <2>4, <2>6, <2>7, <2>8
<1>3. members \subseteq Creds
  OBVIOUS
<1> HIDE DEF members, Member
<1>4. QED
  BY <1>1, <1>2, <1>3

(* A call whose key is still its credential's concerns a credential we know. *)
LEMMA CurrentIsKnown ==
  ASSUME IInv, NEW u \in calls, Current(u)
  PROVE  u.cred \in Creds /\ Present(u.cred) /\ mem[u.cred].key = u.key
BY DEF IInv, Current, Calling, Asked

LEMMA HashIsOwn ==
  ASSUME IInv, NEW c \in Creds, Present(c)
  PROVE  AccountHash(c, mem[c]) \in {{}, {AccountOf[mem[c].key]}}
<1>1. Earned(mem[c])
  BY DEF IInv, Copies, Sound, Present
<1>2. PICK n : n = Normalize(mem[c])
  OBVIOUS
<1>3. n.ident \in {mem[c].key, NoKey}
  BY <1>1, <1>2, Normalizing
<1>4. QED
  BY <1>2, <1>3 DEF AccountHash

-----------------------------------------------------------------------------
(* Steps that change no copy of a credential *)

copies == <<mem, disk, host, gone, revoked, choice, queued>>

LEMMA QuietInv ==
  ASSUME IInv, UNCHANGED copies, UNCHANGED <<guard, file, budget, writeErr>>, Calling'
  PROVE  IInv'
BY DEF IInv, Locks, Copies, Deleted, Chosen, Reading, Present, Bounded, copies

LEMMA GuardInv ==
  ASSUME IInv, UNCHANGED copies, UNCHANGED file, Bounded', Calling',
         guard = IdleGuard, GoodGuard(guard')
  PROVE  IInv'
<1>1. file.by \notin {"persist", "save"}
  BY DEF IInv, Locks, IdleGuard
<1>2. Locks'
  BY <1>1 DEF IInv, Locks
<1>3. QED
  BY <1>2 DEF IInv, Copies, Deleted, Chosen, Reading, Present, Bounded, copies

LEMMA QuietSteps ==
  ASSUME IInv,
         \/ \E c \in Creds : StartRequest(c) \/ StartUsage(c)
         \/ \E u \in calls : UsageAnswer(u) \/ CallEnds(u)
         \/ Tick \/ UNCHANGED vars
  PROVE  IInv'
<1>1. UNCHANGED copies /\ UNCHANGED <<guard, file, budget, writeErr>>
  BY DEF StartRequest, StartUsage, UsageAnswer, CallEnds, Tick, vars, copies, outside, history
<1>2. Calling'
  <2>1. ASSUME NEW c \in Creds, StartRequest(c) \/ StartUsage(c) PROVE Calling'
    <3>1. PICK u, v, w : /\ u = Call("request", c) /\ v = [u EXCEPT !.started = 0]
                         /\ w = Call("usage", c)
      OBVIOUS
    <3>2. Asked(v) /\ Asked(w)
      BY <3>1 DEF Call, Asked
    <3>3. calls' \in {calls \cup {v}, calls \cup {w}}
      BY <2>1, <3>1 DEF StartRequest, StartUsage
    <3>4. QED
      BY <3>2, <3>3 DEF IInv, Calling
  <2>2. ASSUME NEW u \in calls, UsageAnswer(u) PROVE Calling'
    <3>1. PICK a, reset, v : /\ v = [u EXCEPT !.answer = a, !.at = clock, !.reset = reset]
                             /\ calls' = (calls \ {u}) \cup {v}
      BY <2>2 DEF UsageAnswer
    <3>2. Asked(u)
      BY DEF IInv, Calling
    <3>3. Asked(v)
      BY <3>1, <3>2 DEF Asked
    <3>4. QED
      BY <3>1, <3>3 DEF IInv, Calling
  <2>3. CASE Tick \/ UNCHANGED vars \/ \E u \in calls : CallEnds(u)
    BY <2>3 DEF Tick, vars, CallEnds, IInv, Calling
  <2>4. QED
    BY <2>1, <2>2, <2>3
<1>3. QED
  BY <1>1, <1>2, QuietInv

LEMMA ErrorInv == ASSUME IInv, NEW u \in calls, ObserveError(u) PROVE IInv'
<1>1. UNCHANGED copies /\ UNCHANGED <<file, budget, writeErr>> /\ guard = IdleGuard /\ Calling'
  BY DEF ObserveError, copies, outside, IInv, Calling
<1>2. CASE guard' = guard
  BY <1>1, <1>2, QuietInv
<1>3. CASE guard' # guard
  <2>1. PICK group : group = QuotaGroup(u.cred, AccountHash(u.cred, mem[u.cred]))
    OBVIOUS
  <2>a. Current(u) /\ \E limits :
          LET e == [observed |-> clock, limits |-> limits, accounts |-> {AccountOf[u.key]}]
          IN guard' = [op |-> "publish", base |-> Absent, next |->
                         [c \in DOMAIN group |->
                          [group[c] EXCEPT !.block = MergeBlocks(group[c], Cores(group[c]) \cup {e})]]]
    BY <1>3, <2>1 DEF ObserveError
  <2>b. PICK limits :
          LET e == [observed |-> clock, limits |-> limits, accounts |-> {AccountOf[u.key]}]
          IN guard' = [op |-> "publish", base |-> Absent, next |->
                         [c \in DOMAIN group |->
                          [group[c] EXCEPT !.block = MergeBlocks(group[c], Cores(group[c]) \cup {e})]]]
    BY <2>a
  <2>c. PICK e : e = [observed |-> clock, limits |-> limits, accounts |-> {AccountOf[u.key]}]
    OBVIOUS
  <2>d. PICK n : n = [c \in DOMAIN group |->
                  [group[c] EXCEPT !.block = MergeBlocks(group[c], Cores(group[c]) \cup {e})]]
    OBVIOUS
  <2>2. e.accounts = {AccountOf[u.key]} /\ guard' = [op |-> "publish", base |-> Absent, next |-> n]
    BY <2>b, <2>c, <2>d
  <2>3. /\ u.cred \in Creds /\ Present(u.cred) /\ mem[u.cred].key = u.key
        /\ AccountHash(u.cred, mem[u.cred]) \in {{}, {AccountOf[mem[u.cred].key]}}
    BY <2>a, CurrentIsKnown, HashIsOwn
  <2>4. /\ DOMAIN group \subseteq Creds
        /\ \A d \in DOMAIN group : /\ Earned(group[d]) /\ AccountOf[group[d].key] = AccountOf[u.key]
                                   /\ \A b \in Cores(group[d]) : b.accounts = {AccountOf[group[d].key]}
    BY <2>1, <2>3, Grouping
  <2>5. ASSUME NEW d \in DOMAIN n PROVE Earned(n[d]) /\ d \in Creds
    <3>1. PICK b : b = MergeBlocks(group[d], Cores(group[d]) \cup {e})
      OBVIOUS
    <3>2. EarnedBlock(b)
      BY <2>2, <2>4, <2>d, <3>1, Merging
    <3>3. n[d] = [group[d] EXCEPT !.block = b] /\ d \in DOMAIN group
      BY <2>d, <3>1
    <3>4. QED
      BY <2>4, <3>2, <3>3, Blocking
  <2>6. GoodGuard(guard')
    BY <2>2, <2>5 DEF GoodGuard
  <2>7. QED
    BY <1>1, <2>6, GuardInv DEF IInv, Bounded
<1>4. QED
  BY <1>2, <1>3

LEMMA UsageInv == ASSUME IInv, NEW u \in calls, ObserveUsage(u) PROVE IInv'
<1>1. UNCHANGED copies /\ UNCHANGED <<file, budget, writeErr>> /\ guard = IdleGuard /\ Calling'
  BY DEF ObserveUsage, copies, outside, IInv, Calling
<1>2. CASE guard' = guard
  BY <1>1, <1>2, QuietInv
<1>3. CASE guard' # guard
  <2>a. PICK account : account = (IF cache[u.cred] = u.key THEN {AccountOf[u.key]}
                                  ELSE AccountHash(u.cred, mem[u.cred]))
    OBVIOUS
  <2>b. PICK group : group = QuotaGroup(u.cred, account)
    OBVIOUS
  <2>c. PICK full : full = {w \in Windows : u.answer.seen[w] = "full"}
    OBVIOUS
  <2>d. PICK e : e = (IF full = {} THEN {}
                      ELSE {[observed |-> u.at, limits |-> [w \in full |-> u.reset],
                             accounts |-> {AccountOf[u.key]}]})
    OBVIOUS
  <2>p. PICK parts : parts = UNION {Cores(group[c]) : c \in DOMAIN group}
    OBVIOUS
  <2>e. PICK cores : cores = parts \cup e
    OBVIOUS
  <2>f. PICK n : n = [c \in DOMAIN group |-> [group[c] EXCEPT !.block =
                   LET b == MergeBlocks(group[c], cores)
                   IN IF full = {} /\ b # NoBlock /\ HasRoom(b, u.answer, u.started)
                      THEN NoBlock ELSE b]]
    OBVIOUS
  <2>g. guard' = [op |-> "publish", base |-> Absent, next |-> n] /\ Current(u)
    <3>1. Current(u)
      BY <1>3 DEF ObserveUsage
    <3>2. guard' = [op |-> "publish", base |-> Absent, next |-> n]
      <4>0. LET a == IF cache[u.cred] = u.key THEN {AccountOf[u.key]}
                     ELSE AccountHash(u.cred, mem[u.cred])
                g == QuotaGroup(u.cred, a)
                f == {w \in Windows : u.answer.seen[w] = "full"}
                x == IF f = {} THEN {}
                     ELSE {[observed |-> u.at, limits |-> [w \in f |-> u.reset],
                            accounts |-> {AccountOf[u.key]}]}
                k == (UNION {Cores(g[c]) : c \in DOMAIN g}) \cup x
            IN guard' = [op |-> "publish", base |-> Absent, next |->
                 [c \in DOMAIN g |-> [g[c] EXCEPT !.block =
                   LET b == MergeBlocks(g[c], k)
                   IN IF f = {} /\ b # NoBlock /\ HasRoom(b, u.answer, u.started)
                      THEN NoBlock ELSE b]]]
        BY <3>1, ZenonT(30) DEF ObserveUsage
      <4>1. LET g == QuotaGroup(u.cred, account)
                f == {w \in Windows : u.answer.seen[w] = "full"}
                x == IF f = {} THEN {}
                     ELSE {[observed |-> u.at, limits |-> [w \in f |-> u.reset],
                            accounts |-> {AccountOf[u.key]}]}
                k == (UNION {Cores(g[c]) : c \in DOMAIN g}) \cup x
            IN guard' = [op |-> "publish", base |-> Absent, next |->
                 [c \in DOMAIN g |-> [g[c] EXCEPT !.block =
                   LET b == MergeBlocks(g[c], k)
                   IN IF f = {} /\ b # NoBlock /\ HasRoom(b, u.answer, u.started)
                      THEN NoBlock ELSE b]]]
        BY <4>0, <2>a
      <4>2. LET k == (UNION {Cores(group[c]) : c \in DOMAIN group}) \cup e
            IN guard' = [op |-> "publish", base |-> Absent, next |->
                 [c \in DOMAIN group |-> [group[c] EXCEPT !.block =
                   LET b == MergeBlocks(group[c], k)
                   IN IF full = {} /\ b # NoBlock /\ HasRoom(b, u.answer, u.started)
                      THEN NoBlock ELSE b]]]
        BY <4>1, <2>b, <2>c, <2>d
      <4>3. LET k == parts \cup e
            IN guard' = [op |-> "publish", base |-> Absent, next |->
                 [c \in DOMAIN group |-> [group[c] EXCEPT !.block =
                   LET b == MergeBlocks(group[c], k)
                   IN IF full = {} /\ b # NoBlock /\ HasRoom(b, u.answer, u.started)
                      THEN NoBlock ELSE b]]]
        BY <4>2, <2>p
      <4>4. QED
        BY <4>3, <2>e, <2>f
    <3>3. QED
      BY <3>1, <3>2
  <2>h. \A b \in e : b.accounts = {AccountOf[u.key]}
    BY <2>d
  <2>2. /\ u.cred \in Creds /\ Present(u.cred) /\ mem[u.cred].key = u.key
        /\ AccountHash(u.cred, mem[u.cred]) \in {{}, {AccountOf[mem[u.cred].key]}}
    BY <2>g, CurrentIsKnown, HashIsOwn
  <2>3. account \in {{}, {AccountOf[mem[u.cred].key]}}
    BY <2>a, <2>2
  <2>4. /\ DOMAIN group \subseteq Creds
        /\ \A d \in DOMAIN group : /\ Earned(group[d]) /\ AccountOf[group[d].key] = AccountOf[u.key]
                                   /\ \A b \in Cores(group[d]) : b.accounts = {AccountOf[group[d].key]}
    BY <2>b, <2>2, <2>3, Grouping
  <2>5. \A b \in cores : b.accounts = {AccountOf[u.key]}
    <3>1. ASSUME NEW b \in cores, b \notin e PROVE b.accounts = {AccountOf[u.key]}
      <4>1. PICK d \in DOMAIN group : b \in Cores(group[d])
        <5>1. b \in parts
          BY <2>e, <3>1
        <5>2. QED
          BY <2>p, <5>1
      <4>2. b.accounts = {AccountOf[group[d].key]} /\ AccountOf[group[d].key] = AccountOf[u.key]
        BY <2>4, <4>1
      <4>3. QED
        BY <4>2
    <3>2. QED
      BY <2>h, <3>1
  <2>6. ASSUME NEW d \in DOMAIN n PROVE Earned(n[d]) /\ d \in Creds
    <3>0. d \in DOMAIN group
      BY <2>f
    <3>1. PICK b : /\ n[d] = [group[d] EXCEPT !.block = b]
                   /\ b \in {NoBlock, MergeBlocks(group[d], cores)}
      <4>1. PICK b : b = (LET m == MergeBlocks(group[d], cores)
                          IN IF full = {} /\ m # NoBlock /\ HasRoom(m, u.answer, u.started)
                             THEN NoBlock ELSE m)
        OBVIOUS
      <4>2. n[d] = [group[d] EXCEPT !.block = b]
        BY <2>f, <3>0, <4>1
      <4>3. b \in {NoBlock, MergeBlocks(group[d], cores)}
        BY <4>1
      <4>4. QED
        BY <4>2, <4>3
    <3>2. EarnedBlock(NoBlock) /\ EarnedBlock(MergeBlocks(group[d], cores))
      <4>1. \A x \in cores : x.accounts = {AccountOf[group[d].key]}
        BY <2>4, <2>5, <3>0
      <4>2. EarnedBlock(MergeBlocks(group[d], cores))
        BY <4>1, Merging
      <4>3. QED
        BY <4>2 DEF EarnedBlock
    <3>3. EarnedBlock(b)
      BY <3>1, <3>2
    <3>4. QED
      BY <2>4, <3>0, <3>1, <3>3, Blocking
  <2>7. GoodGuard(guard')
    BY <2>g, <2>6 DEF GoodGuard
  <2>8. QED
    BY <1>1, <2>7, GuardInv DEF IInv, Bounded
<1>4. QED
  BY <1>2, <1>3

-----------------------------------------------------------------------------
(* Steps that leave the files as they are *)

LEMMA IdleIsGood == GoodGuard(IdleGuard) /\ GoodFile(FreeFile)
BY DEF GoodGuard, GoodFile, IdleGuard, FreeFile

LEMMA WrittenIsGood ==
  ASSUME GoodGuard(guard), guard.op = "write", NEW c
  PROVE  GoodGuard(Written(c)) /\ Written(c).op # "save"
<1>1. PICK rest, n : rest = DOMAIN guard.next \ {c} /\ n = [d \in rest |-> guard.next[d]]
  OBVIOUS
<1>2. CASE rest = {}
  <2>1. Written(c) = IdleGuard /\ IdleGuard.op # "save"
    BY <1>1, <1>2 DEF Written, IdleGuard
  <2>2. QED
    BY <2>1, IdleIsGood
<1>3. CASE rest # {}
  <2>1. PICK g : g = [guard EXCEPT !.next = n]
    OBVIOUS
  <2>2. Written(c) = g
    BY <1>1, <1>3, <2>1 DEF Written
  <2>3. g = [op |-> "write", base |-> guard.base, next |-> n]
    BY <2>1 DEF GoodGuard
  <2>4. GoodGuard(g) /\ g.op # "save"
    BY <1>1, <2>3 DEF GoodGuard
  <2>5. QED
    BY <2>2, <2>4
<1>4. QED
  BY <1>2, <1>3

(* Memory may change, but for the operator's choice; a callback goes on reading. *)
LEMMA MemoryInv ==
  ASSUME IInv, UNCHANGED <<disk, host, gone, revoked, choice, queued, calls>>,
         Bounded', Locks', DOMAIN mem' = Creds,
         \A c \in Creds : \/ mem'[c] = mem[c]
                          \/ Present(c) /\ Earned(mem'[c]) /\ mem'[c].disabled = mem[c].disabled,
         file.by = "parse" \/ file'.by = "parse" => file' = file,
         file'.by # "free" => disk[file'.cred] # Absent
  PROVE  IInv'
<1>1. Copies'
  BY DEF IInv, Copies, Sound
<1>2. Deleted'
  BY DEF IInv, Deleted
<1>3. Chosen'
  <2>1. ASSUME NEW c \in Creds, disk[c] # Absent, Present(c)', c \notin queued, ~Reading(c)'
        PROVE  mem'[c].disabled = choice[c]
    <3>1. Present(c) /\ ~Reading(c)
      BY <2>1 DEF Present, Reading
    <3>2. mem'[c].disabled = mem[c].disabled
      OBVIOUS
    <3>3. QED
      BY <2>1, <3>1, <3>2 DEF IInv, Chosen
  <2>2. file'.by = "parse" => disk[file'.cred] = file'.orig \/ file'.cred \in queued
    BY DEF IInv, Chosen
  <2>3. QED
    BY <2>1, <2>2 DEF IInv, Chosen
<1>4. QED
  BY <1>1, <1>2, <1>3 DEF IInv, Bounded, Calling

LEMMA BudgetSteps ==
  ASSUME budget \in Worlds
  PROVE  /\ Fault => budget' \in Worlds
         /\ budget.saves > 0 => [budget EXCEPT !.saves = @ - 1] \in Worlds
         /\ budget.edits > 0 => /\ [budget EXCEPT !.edits = @ - 1] \in Worlds
                                /\ [budget EXCEPT !.edits = @ - 1].edits < budget.edits
         /\ budget.crashes > 0 => [budget EXCEPT !.crashes = @ - 1] \in Worlds
BY DEF Worlds, Fault

LEMMA SaveQuotaGroupInv == ASSUME IInv, SaveQuotaGroup PROVE IInv'
<1>1. /\ UNCHANGED <<disk, host, gone, revoked, choice, queued, calls, file, budget, writeErr>>
      /\ guard.op = "publish"
  BY DEF SaveQuotaGroup, outside, history
<1>a. PICK kept, changed, writes, n :
        /\ kept = {c \in DOMAIN guard.next : Present(c) /\ mem[c].key = guard.next[c].key}
        /\ changed = {c \in kept : ~QuotaStateEqual(mem[c], guard.next[c])}
        /\ writes = changed \cup (kept \cap writeErr)
        /\ n = [c \in writes |-> guard.next[c]]
  OBVIOUS
<1>b. PICK q : q = [c \in Creds |-> [mem[c] EXCEPT !.block = guard.next[c].block,
                                              !.ident = guard.next[c].ident,
                                              !.rev = FreshRevision(c)]]
  OBVIOUS
<1>c. guard' = IF writes = {} THEN IdleGuard
              ELSE [op |-> "write", base |-> Absent, next |-> n]
  BY <1>a DEF SaveQuotaGroup
<1>d. mem' = [c \in Creds |-> IF c \in changed /\ guard.next[c].block # NoBlock
                             THEN q[c] ELSE mem[c]]
  <2>1. mem' = [c \in Creds |-> IF c \in changed /\ guard.next[c].block # NoBlock
                             THEN [mem[c] EXCEPT !.block = guard.next[c].block,
                                                 !.ident = guard.next[c].ident,
                                                 !.rev = FreshRevision(c)]
                             ELSE mem[c]]
    BY <1>a, Zenon DEF SaveQuotaGroup
  <2>2. QED
    BY <1>b, <2>1
<1>e. /\ DOMAIN n = writes /\ writes \subseteq DOMAIN guard.next
      /\ \A c \in writes : n[c] = guard.next[c]
  BY <1>a
<1>3. GoodGuard(guard')
  <2>1. CASE writes = {}
    BY <1>c, <2>1, IdleIsGood
  <2>2. CASE writes # {}
    <3>1. guard' = [op |-> "write", base |-> Absent, next |-> n]
      BY <1>c, <2>2
    <3>2. QED
      BY <1>e, <3>1 DEF IInv, Locks, GoodGuard
  <2>3. QED
    BY <2>1, <2>2
<1>4. file.by \notin {"persist", "save"}
  BY <1>1 DEF IInv, Locks
<1>5. Locks'
  BY <1>1, <1>3, <1>4 DEF IInv, Locks
<1>6. ASSUME NEW c \in Creds
      PROVE  \/ mem'[c] = mem[c]
             \/ Present(c) /\ Earned(mem'[c]) /\ mem'[c].disabled = mem[c].disabled
  <2>1. CASE c \in changed /\ guard.next[c].block # NoBlock
    <3>1. PICK x, i, v : /\ x = guard.next[c].block /\ i = guard.next[c].ident
                         /\ v = FreshRevision(c)
      OBVIOUS
    <3>2. PICK m : m = [mem[c] EXCEPT !.block = x, !.ident = i, !.rev = v]
      OBVIOUS
    <3>3. mem'[c] = m
      <4>1. q[c] = m
        BY <1>b, <3>1, <3>2, Zenon
      <4>2. QED
        BY <1>d, <2>1, <4>1
    <3>4. Present(c) /\ Earned(mem[c]) /\ EarnedBlock(x)
      BY <1>a, <2>1, <3>1 DEF IInv, Copies, Sound, Present, Locks, GoodGuard, Earned
    <3>5. Shape(m) /\ m.disabled = mem[c].disabled /\ m.block = x
      BY <3>2, <3>4 DEF Earned, Shape
    <3>6. QED
      BY <3>3, <3>4, <3>5 DEF Earned
  <2>2. CASE ~(c \in changed /\ guard.next[c].block # NoBlock)
    BY <1>d, <2>2
  <2>3. QED
    BY <2>1, <2>2
<1>7. DOMAIN mem' = Creds
  BY <1>d
<1>8. file.by # "free" => disk[file.cred] # Absent
  BY DEF IInv, Deleted
<1>9. QED
  <2>1. Bounded' /\ file' = file
    BY <1>1 DEF IInv, Bounded
  <2>2. \A c \in Creds : \/ mem'[c] = mem[c]
                         \/ Present(c) /\ Earned(mem'[c]) /\ mem'[c].disabled = mem[c].disabled
    BY <1>6
  <2>3. UNCHANGED <<disk, host, gone, revoked, choice, queued, calls>>
    BY <1>1
  <2>4. file'.by # "free" => disk[file'.cred] # Absent
    BY <1>8, <2>1
  <2>5. QED
    BY <1>5, <1>7, <2>1, <2>2, <2>3, <2>4, MemoryInv

LEMMA ReconcileInv == ASSUME IInv, Reconcile PROVE IInv'
<1>1. PICK n : /\ n = [c \in {d \in writeErr : Present(d)} |-> Normalize(mem[c])]
               /\ guard' = [op |-> "write", base |-> Absent, next |-> n]
  BY DEF Reconcile
<1>2. UNCHANGED copies /\ UNCHANGED <<file, budget, writeErr, calls>> /\ guard = IdleGuard
  BY DEF Reconcile, copies, outside, history
<1>3. \A c \in DOMAIN n : c \in Creds /\ Earned(n[c])
  <2>1. SUFFICES ASSUME NEW c \in writeErr, Present(c) PROVE c \in Creds /\ Earned(Normalize(mem[c]))
    BY <1>1
  <2>2. c \in Creds
    BY DEF IInv, Bounded
  <2>3. Earned(mem[c])
    BY <2>1, <2>2 DEF IInv, Copies, Sound, Present
  <2>4. QED
    BY <2>2, <2>3, Normalizing
<1>4. GoodGuard(guard')
  BY <1>1, <1>3 DEF GoodGuard
<1>5. QED
  BY <1>2, <1>4, GuardInv DEF IInv, Bounded, Calling

LEMMA SaveBeginInv ==
  ASSUME IInv, NEW c \in Creds, SetEnabled(c) \/ UpdateCredential(c)
  PROVE  IInv'
<1>1. PICK new : SaveBegin(c, new) /\ (Earned(mem[c]) => Earned(new))
  <2>1. CASE SetEnabled(c)
    <3>1. PICK v : SaveBegin(c, [mem[c] EXCEPT !.disabled = v])
      BY <2>1 DEF SetEnabled
    <3>2. Earned(mem[c]) => Earned([mem[c] EXCEPT !.disabled = v])
      BY Changing
    <3>3. QED
      BY <3>1, <3>2
  <2>2. CASE UpdateCredential(c)
    <3>1. PICK v : SaveBegin(c, [mem[c] EXCEPT !.key = v])
      BY <2>2 DEF UpdateCredential
    <3>2. Earned(mem[c]) => Earned([mem[c] EXCEPT !.key = v])
      BY Changing
    <3>3. QED
      BY <3>1, <3>2
  <2>3. QED
    BY <2>1, <2>2
<1>2. UNCHANGED copies /\ UNCHANGED <<file, writeErr, calls>> /\ guard = IdleGuard /\ Present(c)
  BY <1>1 DEF SaveBegin, copies, history
<1>3. Earned(new)
  BY <1>1, <1>2 DEF IInv, Copies, Sound, Present
<1>4. PICK r, s, n : /\ r = Normalize(new) /\ s = [r EXCEPT !.rev = 0]
                     /\ n = IF new.key = mem[c].key THEN r ELSE s
  OBVIOUS
<1>5. Earned(r) /\ Told(r)
  BY <1>3, <1>4, Normalizing
<1>6. Earned(s) /\ Told(s)
  <2>1. Earned(s) /\ s.disabled = r.disabled /\ s.block = r.block
    BY <1>4, <1>5 DEF Earned, Shape
  <2>2. QED
    BY <1>5, <2>1 DEF Told, Manual
<1>7. Earned(n) /\ Told(n)
  BY <1>4, <1>5, <1>6
<1>8. PICK f : f = [d \in {c} |-> n]
  OBVIOUS
<1>9. guard' = [op |-> "save", base |-> mem[c], next |-> f]
  BY <1>1, <1>4, <1>8 DEF SaveBegin
<1>10. GoodGuard(guard')
  BY <1>7, <1>8, <1>9 DEF GoodGuard
<1>11. Bounded'
  BY <1>1, <1>2, BudgetSteps DEF SaveBegin, IInv, Bounded
<1>12. QED
  BY <1>2, <1>10, <1>11, GuardInv DEF IInv, Calling

LEMMA PersistOpenInv == ASSUME IInv, NEW c \in Creds, PersistOpen(c) PROVE IInv'
<1>1. /\ UNCHANGED <<disk, host, gone, revoked, choice, queued, calls>>
      /\ guard.op = "write" /\ c \in DOMAIN guard.next /\ file = FreeFile
  BY DEF PersistOpen, history
<1>2. GoodGuard(guard) /\ Earned(guard.next[c]) /\ file.by = "free" /\ GoodFile(file)
  BY <1>1 DEF IInv, Locks, GoodGuard, FreeFile
<1>3. CASE ~Present(c) \/ mem[c].key # guard.next[c].key
  <2>1. guard' = Written(c) /\ UNCHANGED <<mem, writeErr, file, budget>>
    BY <1>3 DEF PersistOpen
  <2>2. GoodGuard(guard')
    BY <1>1, <1>2, <2>1, WrittenIsGood
  <2>3. Locks' /\ Bounded' /\ DOMAIN mem' = Creds
    BY <1>2, <2>1, <2>2 DEF IInv, Locks, Bounded, Copies
  <2>4. \A d \in Creds : mem'[d] = mem[d]
    BY <2>1
  <2>5. file' = file /\ file'.by = "free"
    BY <1>2, <2>1
  <2>6. QED
    BY <1>1, <2>3, <2>4, <2>5, MemoryInv
<1>4. CASE Present(c) /\ mem[c].key = guard.next[c].key
  <2>a. PICK g, v : g = guard.next[c] /\ v = FreshRevision(c)
    OBVIOUS
  <2>b. PICK x : x = [g EXCEPT !.disabled = mem[c].disabled]
    OBVIOUS
  <2>c. PICK y, next : y = Normalize(x) /\ next = [y EXCEPT !.rev = v]
    OBVIOUS
  <2>d. PICK taken, m :
          /\ taken = (IF next.block # NoBlock THEN next ELSE mem[c])
          /\ m = [mem[c] EXCEPT !.rev = next.rev, !.block = taken.block, !.ident = taken.ident]
    OBVIOUS
  <2>1. x = [g EXCEPT !.disabled = mem[c].disabled] /\ y = Normalize(x) /\ next = [y EXCEPT !.rev = v]
        /\ taken = (IF next.block # NoBlock THEN next ELSE mem[c])
        /\ m = [mem[c] EXCEPT !.rev = next.rev, !.block = taken.block, !.ident = taken.ident]
    BY <2>b, <2>c, <2>d
  <2>2. NextQuota(c) = next
    BY <2>a, <2>b, <2>c, Zenon DEF NextQuota
  <2>3. Earned(x) /\ x.disabled = mem[c].disabled
    BY <1>2, <2>a, <2>1 DEF Earned, Shape
  <2>4. Earned(y) /\ y.disabled = mem[c].disabled /\ Told(y)
    BY <2>1, <2>3, Normalizing
  <2>5. Earned(next) /\ next.disabled = mem[c].disabled /\ next.block = y.block
    BY <2>1, <2>4 DEF Earned, Shape
  <2>6. Told(next)
    BY <2>4, <2>5 DEF Told, Manual
  <2>7. Earned(mem[c]) /\ DOMAIN mem = Creds
    BY <1>4 DEF IInv, Copies, Sound, Present
  <2>8. EarnedBlock(taken.block)
    BY <2>1, <2>5, <2>7 DEF Earned
  <2>9. Earned(m) /\ m.disabled = mem[c].disabled
    <3>1. Shape(m) /\ m.disabled = mem[c].disabled /\ m.block = taken.block
      BY <2>1, <2>7 DEF Earned, Shape
    <3>2. QED
      BY <2>8, <3>1 DEF Earned
  <2>10. mem' = [mem EXCEPT ![c] = m]
    <3>1. LET u == IF NextQuota(c).block # NoBlock THEN NextQuota(c) ELSE mem[c]
          IN mem' = [mem EXCEPT ![c] = [@ EXCEPT !.rev = NextQuota(c).rev, !.block = u.block,
                                                 !.ident = u.ident]]
      BY <1>4, Zenon DEF PersistOpen
    <3>2. PICK q : q = NextQuota(c)
      OBVIOUS
    <3>3. LET u == IF q.block # NoBlock THEN q ELSE mem[c]
          IN mem' = [mem EXCEPT ![c] = [@ EXCEPT !.rev = q.rev, !.block = u.block, !.ident = u.ident]]
      BY <3>1, <3>2, Zenon
    <3>4. q = next
      BY <2>2, <3>2
    <3>5. mem' = [mem EXCEPT ![c] = [@ EXCEPT !.rev = next.rev, !.block = taken.block,
                                              !.ident = taken.ident]]
      BY <2>d, <3>3, <3>4
    <3>6. QED
      BY <2>d, <3>5
  <2>11. DOMAIN mem' = Creds /\ \A d \in Creds : mem'[d] = IF d = c THEN m ELSE mem[d]
    BY <2>7, <2>10
  <2>12. \A d \in Creds : \/ mem'[d] = mem[d]
                          \/ Present(d) /\ Earned(mem'[d]) /\ mem'[d].disabled = mem[d].disabled
    BY <1>4, <2>9, <2>11
  <2>13. CASE /\ Matches(disk[c], mem[c])
              /\ file' = [by |-> "persist", cred |-> c, orig |-> disk[c],
                          next |-> next, checked |-> FALSE]
              /\ UNCHANGED <<guard, writeErr, budget>>
    <3>1. disk[c] # Absent /\ Manual(disk[c]) = mem[c].disabled
      BY <2>13 DEF Matches
    <3>2. Earned(disk[c])
      BY <3>1 DEF IInv, Copies, Sound
    <3>3. GoodFile(file')
      BY <2>5, <2>6, <2>13, <3>1, <3>2 DEF GoodFile
    <3>4. Locks' /\ Bounded'
      BY <1>1, <1>2, <2>13, <3>3 DEF IInv, Locks, Bounded
    <3>5. file'.by = "persist" /\ file'.cred = c
      BY <2>13
    <3>6. QED
      BY <1>1, <1>2, <2>11, <2>12, <3>1, <3>4, <3>5, MemoryInv
  <2>14. CASE /\ budget' = budget \/ Fault
              /\ writeErr' = writeErr \cup {c}
              /\ guard' = Written(c)
              /\ file' = file
    <3>1. GoodGuard(guard')
      BY <1>1, <1>2, <2>14, WrittenIsGood
    <3>2. Locks'
      BY <1>2, <2>14, <3>1 DEF IInv, Locks
    <3>3. Bounded'
      BY <2>14, BudgetSteps DEF IInv, Bounded
    <3>4. QED
      BY <1>1, <1>2, <2>11, <2>12, <2>14, <3>2, <3>3, MemoryInv
  <2>15. QED
    <3>1. \/ /\ Matches(disk[c], mem[c])
             /\ file' = [by |-> "persist", cred |-> c, orig |-> disk[c],
                         next |-> NextQuota(c), checked |-> FALSE]
             /\ UNCHANGED <<guard, writeErr, budget>>
          \/ /\ \/ ~Matches(disk[c], mem[c]) /\ budget' = budget
                \/ Fault
             /\ writeErr' = writeErr \cup {c}
             /\ guard' = Written(c)
             /\ file' = file
      BY <1>4, Zenon DEF PersistOpen
    <3>2. CASE /\ Matches(disk[c], mem[c])
               /\ file' = [by |-> "persist", cred |-> c, orig |-> disk[c],
                           next |-> NextQuota(c), checked |-> FALSE]
               /\ UNCHANGED <<guard, writeErr, budget>>
      <4>1. file' = [by |-> "persist", cred |-> c, orig |-> disk[c],
                     next |-> next, checked |-> FALSE]
        BY <2>2, <3>2
      <4>2. Matches(disk[c], mem[c]) /\ UNCHANGED <<guard, writeErr, budget>>
        BY <3>2
      <4>3. QED
        BY <2>13, <4>1, <4>2
    <3>3. CASE /\ \/ ~Matches(disk[c], mem[c]) /\ budget' = budget
                  \/ Fault
               /\ writeErr' = writeErr \cup {c}
               /\ guard' = Written(c)
               /\ file' = file
      <4>1. budget' = budget \/ Fault
        BY <3>3
      <4>2. QED
        BY <2>14, <3>3, <4>1
    <3>4. QED
      BY <3>1, <3>2, <3>3
<1>5. QED
  BY <1>3, <1>4

LEMMA SaveOpenInv == ASSUME IInv, NEW c \in Creds, SaveOpen(c) PROVE IInv'
<1>1. /\ UNCHANGED <<mem, disk, host, gone, revoked, choice, queued, calls, writeErr>>
      /\ guard.op = "save" /\ c \in DOMAIN guard.next /\ file = FreeFile
  BY DEF SaveOpen, history
<1>2. /\ GoodGuard(guard) /\ Earned(guard.next[c]) /\ Told(guard.next[c]) /\ file.by = "free"
      /\ GoodFile(file) /\ DOMAIN mem' = Creds /\ \A d \in Creds : mem'[d] = mem[d]
  BY <1>1 DEF IInv, Locks, GoodGuard, FreeFile, Copies
<1>3. CASE /\ Matches(disk[c], mem[c])
           /\ file' = [by |-> "save", cred |-> c, orig |-> disk[c],
                       next |-> guard.next[c], checked |-> FALSE]
           /\ UNCHANGED <<guard, budget>>
  <2>1. disk[c] # Absent
    BY <1>3 DEF Matches
  <2>2. Earned(disk[c])
    BY <2>1 DEF IInv, Copies, Sound
  <2>3. PICK next : next = guard.next[c]
    OBVIOUS
  <2>4. file' = [by |-> "save", cred |-> c, orig |-> disk[c], next |-> next, checked |-> FALSE]
    BY <1>3, <2>3
  <2>5. GoodFile(file') /\ file'.by = "save" /\ file'.cred = c
    BY <1>2, <2>2, <2>3, <2>4 DEF GoodFile
  <2>6. Locks' /\ Bounded'
    BY <1>1, <1>2, <1>3, <2>5 DEF IInv, Locks, Bounded
  <2>7. QED
    BY <1>1, <1>2, <2>1, <2>5, <2>6, MemoryInv
<1>4. CASE /\ budget' = budget \/ Fault
           /\ guard' = IdleGuard /\ file' = file
  <2>1. Bounded'
    BY <1>1, <1>4, BudgetSteps DEF IInv, Bounded
  <2>2. Locks'
    BY <1>2, <1>4, IdleIsGood DEF IInv, Locks
  <2>3. QED
    BY <1>1, <1>2, <1>4, <2>1, <2>2, MemoryInv
<1>5. QED
  <2>1. \/ /\ Matches(disk[c], mem[c])
           /\ file' = [by |-> "save", cred |-> c, orig |-> disk[c],
                       next |-> guard.next[c], checked |-> FALSE]
           /\ UNCHANGED <<guard, budget>>
        \/ /\ budget' = budget \/ Fault
           /\ guard' = IdleGuard /\ file' = file
    BY DEF SaveOpen
  <2>2. QED
    BY <1>3, <1>4, <2>1

LEMMA CompareInv == ASSUME IInv, Compare PROVE IInv'
<1>1. /\ UNCHANGED <<mem, disk, host, gone, revoked, choice, queued, calls, writeErr, guard, budget>>
      /\ file.by \in {"persist", "save"} /\ file' = [file EXCEPT !.checked = TRUE]
  BY DEF Compare, outside, history
<1>2. GoodFile(file) /\ GoodFile(file') /\ file'.by = file.by /\ file'.cred = file.cred
  BY <1>1 DEF IInv, Locks, GoodFile
<1>3. Locks' /\ Bounded'
  BY <1>1, <1>2 DEF IInv, Locks, Bounded
<1>4. file'.by # "free" => disk[file'.cred] # Absent
  BY <1>2 DEF IInv, Deleted
<1>5. DOMAIN mem' = Creds /\ \A d \in Creds : mem'[d] = mem[d]
  BY <1>1 DEF IInv, Copies
<1>6. QED
  BY <1>1, <1>2, <1>3, <1>4, <1>5, MemoryInv

LEMMA FailInv == ASSUME IInv, PersistFails \/ SaveFails PROVE IInv'
<1>1. /\ UNCHANGED <<mem, disk, host, gone, revoked, choice, queued, calls>>
      /\ file.by \in {"persist", "save"} /\ file' = FreeFile
      /\ budget' = budget \/ Fault
  BY DEF PersistFails, SaveFails, FileTrouble, history
<1>2. file.cred \in Creds
  BY <1>1 DEF IInv, Locks, GoodFile
<1>3. Bounded'
  <2>1. budget' \in Worlds
    BY <1>1, BudgetSteps DEF IInv, Bounded
  <2>2. writeErr' \subseteq writeErr \cup {file.cred}
    BY DEF PersistFails, SaveFails
  <2>3. QED
    BY <1>2, <2>1, <2>2 DEF IInv, Bounded
<1>4. Locks'
  <2>1. CASE PersistFails
    <3>1. guard.op = "write" /\ guard' = Written(file.cred)
      BY <2>1 DEF PersistFails, IInv, Locks
    <3>2. QED
      BY <1>1, <3>1, WrittenIsGood, IdleIsGood DEF IInv, Locks, FreeFile
  <2>2. CASE SaveFails
    BY <1>1, <2>2, IdleIsGood DEF SaveFails, Locks, FreeFile
  <2>3. QED
    BY <2>1, <2>2
<1>5. DOMAIN mem' = Creds /\ \A d \in Creds : mem'[d] = mem[d]
  BY <1>1 DEF IInv, Copies
<1>6. file'.by = "free"
  BY <1>1 DEF FreeFile
<1>7. QED
  BY <1>1, <1>3, <1>4, <1>5, <1>6, MemoryInv

-----------------------------------------------------------------------------
(* Steps that write or delete a file *)

(* A written file is still to be reported, so memory may differ from it. *)
LEMMA WriteInv ==
  ASSUME IInv, NEW c \in Creds, NEW d, NEW m, Earned(d), Sound(m),
         DOMAIN disk' = Creds, \A e \in Creds : disk'[e] = IF e = c THEN d ELSE disk[e],
         DOMAIN mem' = Creds, \A e \in Creds : mem'[e] = IF e = c THEN m ELSE mem[e],
         DOMAIN choice' = Creds,
         \A e \in Creds : choice'[e] = IF e = c THEN Manual(d) ELSE choice[e],
         queued' = queued \cup {c}, revoked' = revoked, calls' = calls,
         DOMAIN host' = Creds, \A e \in Creds : Sound(host'[e]),
         DOMAIN gone' = Creds,
         \A e \in Creds : gone'[e] = Absent \/ (e # c /\ gone'[e] = gone[e]),
         Locks', Bounded',
         (file' = file /\ d # Absent) \/ (file'.by = "free" /\ file.by # "parse")
  PROVE  IInv'
<1>1. Copies'
  <2>1. ASSUME NEW e \in Creds
        PROVE  Sound(mem'[e]) /\ Sound(disk'[e]) /\ Sound(host'[e]) /\ Sound(gone'[e])
    BY DEF IInv, Copies, Sound
  <2>2. QED
    BY <2>1 DEF Copies, Sound
<1>2. Deleted'
  <2>1. ASSUME NEW e \in Creds, gone'[e] # Absent PROVE disk'[e] = Absent /\ e \in revoked'
    BY <2>1 DEF IInv, Deleted
  <2>2. file'.by # "free" => disk'[file'.cred] # Absent
    <3>1. ASSUME file'.by # "free" PROVE disk'[file'.cred] # Absent
      <4>1. file' = file /\ file.by # "free"
        BY <3>1
      <4>2. file.cred \in Creds
        BY <4>1 DEF IInv, Locks, GoodFile
      <4>3. QED
        BY <4>1, <4>2 DEF IInv, Deleted
    <3>2. QED
      BY <3>1
  <2>3. QED
    BY <2>1, <2>2 DEF Deleted
<1>3. Chosen'
  <2>1. ASSUME NEW e \in Creds, disk'[e] # Absent
        PROVE  /\ Manual(disk'[e]) = choice'[e]
               /\ Present(e)' /\ e \notin queued' /\ ~Reading(e)' => mem'[e].disabled = choice'[e]
    <3>1. CASE e = c
      BY <3>1
    <3>2. CASE e # c
      <4>1. disk'[e] = disk[e] /\ mem'[e] = mem[e] /\ choice'[e] = choice[e]
        BY <3>2
      <4>2. ~Reading(e)' => ~Reading(e)
        BY DEF Reading
      <4>3. QED
        BY <2>1, <4>1, <4>2 DEF IInv, Chosen, Present
    <3>3. QED
      BY <3>1, <3>2
  <2>2. file'.by = "parse" => disk'[file'.cred] = file'.orig \/ file'.cred \in queued'
    <3>1. ASSUME file'.by = "parse" PROVE disk'[file'.cred] = file'.orig \/ file'.cred \in queued'
      <4>1. file' = file /\ file.by = "parse"
        BY <3>1
      <4>2. file.cred \in Creds
        BY <4>1 DEF IInv, Locks, GoodFile
      <4>3. QED
        BY <4>1, <4>2 DEF IInv, Chosen
    <3>2. QED
      BY <3>1
  <2>3. QED
    BY <2>1, <2>2 DEF Chosen
<1>4. QED
  BY <1>1, <1>2, <1>3 DEF IInv, Calling

LEMMA PersistWriteInv == ASSUME IInv, PersistWrite PROVE IInv'
<1>1. PICK c, next : c = file.cred /\ next = file.next
  OBVIOUS
<1>2. PICK m : m = [mem[c] EXCEPT !.block = next.block, !.ident = next.ident]
  OBVIOUS
<1>3. /\ file.by = "persist" /\ disk' = [disk EXCEPT ![c] = next]
      /\ \/ Present(c) /\ mem' = [mem EXCEPT ![c] = m]
         \/ mem' = mem
      /\ writeErr' \in {writeErr, writeErr \ {c}}
      /\ guard' = Written(c) /\ file' = FreeFile
      /\ queued' = queued \cup {c}
      /\ choice' = [choice EXCEPT ![c] = IF disk[c] = file.orig THEN choice[c] ELSE next.disabled]
      /\ UNCHANGED <<revoked, calls, host, gone, budget>>
  BY <1>1, <1>2 DEF PersistWrite, Newest, outside
<1>4. /\ guard.op = "write" /\ c \in Creds /\ Earned(next) /\ Told(next)
      /\ next.disabled = Manual(file.orig) /\ disk[c] # Absent /\ GoodGuard(guard)
  BY <1>1, <1>3 DEF IInv, Locks, GoodFile, Deleted
<1>5. /\ DOMAIN mem = Creds /\ DOMAIN disk = Creds /\ DOMAIN host = Creds /\ DOMAIN gone = Creds
      /\ DOMAIN choice = Creds /\ Sound(mem[c]) /\ gone[c] = Absent
      /\ \A e \in Creds : Sound(host[e])
  BY <1>4 DEF IInv, Copies, Chosen, Deleted
<1>6. EarnedBlock(next.block)
  BY <1>4 DEF Earned
<1>7. Present(c) => Earned(m)
  <2>1. ASSUME Present(c) PROVE Earned(m)
    <3>1. Earned(mem[c])
      BY <1>5, <2>1 DEF Sound, Present
    <3>2. QED
      BY <1>2, <1>6, <3>1, Quoting
  <2>2. QED
    BY <2>1
<1>8. Sound(mem'[c]) /\ DOMAIN mem' = Creds /\ \A e \in Creds \ {c} : mem'[e] = mem[e]
  BY <1>3, <1>4, <1>5, <1>7 DEF Sound
<1>9. PICK n : n = mem'[c]
  OBVIOUS
<1>10. Sound(n) /\ \A e \in Creds : mem'[e] = IF e = c THEN n ELSE mem[e]
  BY <1>8, <1>9
<1>11. DOMAIN disk' = Creds /\ \A e \in Creds : disk'[e] = IF e = c THEN next ELSE disk[e]
  BY <1>3, <1>4, <1>5
<1>12. DOMAIN choice' = Creds /\ \A e \in Creds : choice'[e] = IF e = c THEN Manual(next) ELSE choice[e]
  <2>1. Manual(next) = next.disabled
    BY <1>4 DEF Told
  <2>2. disk[c] = file.orig => choice[c] = next.disabled
    BY <1>4 DEF IInv, Chosen
  <2>3. QED
    BY <1>3, <1>4, <1>5, <2>1, <2>2
<1>13. Locks'
  <2>1. GoodGuard(guard')
    BY <1>3, <1>4, WrittenIsGood
  <2>2. file'.by = "free"
    BY <1>3 DEF FreeFile
  <2>3. QED
    BY <1>3, <2>1, <2>2, IdleIsGood DEF Locks
<1>14. Bounded'
  BY <1>3 DEF IInv, Bounded
<1>15. /\ queued' = queued \cup {c} /\ revoked' = revoked /\ calls' = calls
       /\ DOMAIN host' = Creds /\ (\A e \in Creds : Sound(host'[e]))
       /\ DOMAIN gone' = Creds
       /\ \A e \in Creds : gone'[e] = Absent \/ (e # c /\ gone'[e] = gone[e])
       /\ file'.by = "free" /\ file.by # "parse"
  BY <1>3, <1>5 DEF FreeFile
<1>16. QED
  BY <1>4, <1>8, <1>10, <1>11, <1>12, <1>13, <1>14, <1>15, WriteInv

LEMMA SaveWriteInv == ASSUME IInv, SaveWrite PROVE IInv'
<1>1. PICK c, next : c = file.cred /\ next = file.next
  OBVIOUS
<1>3. /\ file.by = "save" /\ disk' = [disk EXCEPT ![c] = next]
      /\ mem' = [mem EXCEPT ![c] = next]
      /\ writeErr' \subseteq writeErr
      /\ guard' = IdleGuard /\ file' = FreeFile
      /\ queued' = queued \cup {c}
      /\ choice' = [choice EXCEPT ![c] = next.disabled]
      /\ UNCHANGED <<revoked, calls, host, gone, budget>>
  BY <1>1 DEF SaveWrite, outside
<1>4. c \in Creds /\ Earned(next) /\ Told(next) /\ disk[c] # Absent
  BY <1>1, <1>3 DEF IInv, Locks, GoodFile, Deleted
<1>5. /\ DOMAIN mem = Creds /\ DOMAIN disk = Creds /\ DOMAIN host = Creds /\ DOMAIN gone = Creds
      /\ DOMAIN choice = Creds /\ gone[c] = Absent
      /\ \A e \in Creds : Sound(host[e])
  BY <1>4 DEF IInv, Copies, Chosen, Deleted
<1>6. Sound(next) /\ Manual(next) = next.disabled
  BY <1>4 DEF Sound, Told
<1>7. DOMAIN mem' = Creds /\ \A e \in Creds : mem'[e] = IF e = c THEN next ELSE mem[e]
  BY <1>3, <1>4, <1>5
<1>8. DOMAIN disk' = Creds /\ \A e \in Creds : disk'[e] = IF e = c THEN next ELSE disk[e]
  BY <1>3, <1>4, <1>5
<1>9. DOMAIN choice' = Creds /\ \A e \in Creds : choice'[e] = IF e = c THEN Manual(next) ELSE choice[e]
  BY <1>3, <1>4, <1>5, <1>6
<1>10. Locks'
  BY <1>3, IdleIsGood DEF Locks, FreeFile
<1>11. Bounded'
  BY <1>3 DEF IInv, Bounded
<1>12. /\ queued' = queued \cup {c} /\ revoked' = revoked /\ calls' = calls
       /\ DOMAIN host' = Creds /\ (\A e \in Creds : Sound(host'[e]))
       /\ DOMAIN gone' = Creds
       /\ \A e \in Creds : gone'[e] = Absent \/ (e # c /\ gone'[e] = gone[e])
       /\ file'.by = "free" /\ file.by # "parse"
  BY <1>3, <1>5 DEF FreeFile
<1>13. QED
  BY <1>4, <1>6, <1>7, <1>8, <1>9, <1>10, <1>11, <1>12, WriteInv

LEMMA EditInv ==
  ASSUME IInv, NEW c \in Creds, NEW d, Edit(c, d), Earned(d),
         DOMAIN host' = Creds, \A e \in Creds : Sound(host'[e]),
         DOMAIN gone' = Creds,
         \A e \in Creds : gone'[e] = Absent \/ (e # c /\ gone'[e] = gone[e])
  PROVE  IInv'
<1>1. /\ disk' = [disk EXCEPT ![c] = d] /\ choice' = [choice EXCEPT ![c] = Manual(d)]
      /\ d # Absent /\ queued' = queued \cup {c} /\ revoked' = revoked /\ calls' = calls
      /\ UNCHANGED <<mem, writeErr, guard, file>>
  BY DEF Edit
<1>2. Sound(mem[c]) /\ DOMAIN mem = Creds /\ DOMAIN disk = Creds /\ DOMAIN choice = Creds
  BY DEF IInv, Copies, Chosen
<1>3. PICK m : m = mem[c]
  OBVIOUS
<1>4. Sound(m) /\ DOMAIN mem' = Creds /\ \A e \in Creds : mem'[e] = IF e = c THEN m ELSE mem[e]
  BY <1>1, <1>2, <1>3
<1>5. DOMAIN disk' = Creds /\ \A e \in Creds : disk'[e] = IF e = c THEN d ELSE disk[e]
  BY <1>1, <1>2
<1>6. DOMAIN choice' = Creds /\ \A e \in Creds : choice'[e] = IF e = c THEN Manual(d) ELSE choice[e]
  BY <1>1, <1>2
<1>7. Locks'
  BY <1>1 DEF IInv, Locks
<1>8. Bounded'
  <2>1. budget.edits > 0 /\ budget' = [budget EXCEPT !.edits = @ - 1]
    BY DEF Edit
  <2>2. QED
    BY <1>1, <2>1, BudgetSteps DEF IInv, Bounded
<1>9. QED
  BY <1>1, <1>4, <1>5, <1>6, <1>7, <1>8, WriteInv

LEMMA OutsideInv ==
  ASSUME IInv, NEW c \in Creds, EditFile(c) \/ HostSave(c) \/ RestoreFile(c)
  PROVE  IInv'
<1>1. /\ DOMAIN host = Creds /\ DOMAIN gone = Creds
      /\ \A e \in Creds : Sound(disk[e]) /\ Sound(host[e]) /\ Sound(gone[e])
      /\ disk[c] # Absent => gone[c] = Absent
  BY DEF IInv, Copies, Deleted
<1>2. CASE EditFile(c)
  <2>1. PICK d : Edit(c, d) /\ (Earned(disk[c]) => Earned(d))
    <3>1. CASE Edit(c, [disk[c] EXCEPT !.disabled = ~@])
      <4>1. PICK v : v = ~disk[c].disabled
        OBVIOUS
      <4>2. Edit(c, [disk[c] EXCEPT !.disabled = v])
        BY <3>1, <4>1, Zenon
      <4>3. Earned(disk[c]) => Earned([disk[c] EXCEPT !.disabled = v])
        BY Changing
      <4>4. QED
        BY <4>2, <4>3
    <3>2. CASE \E k \in budget.keys : Edit(c, [disk[c] EXCEPT !.key = k])
      <4>1. PICK k : Edit(c, [disk[c] EXCEPT !.key = k])
        BY <3>2
      <4>2. Earned(disk[c]) => Earned([disk[c] EXCEPT !.key = k])
        BY Changing
      <4>3. QED
        BY <4>1, <4>2
    <3>3. QED
      BY <1>2, <3>1, <3>2 DEF EditFile
  <2>2. disk[c] # Absent /\ host' = host /\ gone' = gone
    BY <1>2 DEF EditFile
  <2>3. Earned(d)
    BY <1>1, <2>1, <2>2 DEF Sound
  <2>4. /\ DOMAIN host' = Creds /\ (\A e \in Creds : Sound(host'[e]))
        /\ DOMAIN gone' = Creds
        /\ \A e \in Creds : gone'[e] = Absent \/ (e # c /\ gone'[e] = gone[e])
    BY <1>1, <2>2
  <2>5. QED
    BY <2>1, <2>3, <2>4, EditInv
<1>3. CASE HostSave(c)
  <2>1. PICK v : v = (host[c].disabled \/ host[c].block # NoBlock)
    OBVIOUS
  <2>2. PICK d : d = [host[c] EXCEPT !.disabled = v]
    OBVIOUS
  <2>3. Edit(c, d)
    <3>1. Edit(c, [host[c] EXCEPT !.disabled = @ \/ host[c].block # NoBlock])
      BY <1>3 DEF HostSave
    <3>2. QED
      BY <2>1, <2>2, <3>1, Zenon
  <2>4. disk[c] # Absent /\ host[c] # Absent /\ host' = [host EXCEPT ![c] = Absent] /\ gone' = gone
    BY <1>3 DEF HostSave
  <2>5. Earned(host[c])
    BY <1>1, <2>4 DEF Sound
  <2>6. Earned(d)
    BY <2>2, <2>5, Changing
  <2>7. /\ DOMAIN host' = Creds /\ (\A e \in Creds : Sound(host'[e]))
        /\ DOMAIN gone' = Creds
        /\ \A e \in Creds : gone'[e] = Absent \/ (e # c /\ gone'[e] = gone[e])
    BY <1>1, <2>4 DEF Sound
  <2>8. QED
    BY <2>3, <2>6, <2>7, EditInv
<1>4. CASE RestoreFile(c)
  <2>1. /\ Edit(c, gone[c]) /\ gone[c] # Absent
        /\ gone' = [gone EXCEPT ![c] = Absent] /\ host' = host
    BY <1>4 DEF RestoreFile
  <2>2. Earned(gone[c])
    BY <1>1, <2>1 DEF Sound
  <2>3. /\ DOMAIN host' = Creds /\ (\A e \in Creds : Sound(host'[e]))
        /\ DOMAIN gone' = Creds
        /\ \A e \in Creds : gone'[e] = Absent \/ (e # c /\ gone'[e] = gone[e])
    BY <1>1, <2>1
  <2>4. QED
    BY <2>1, <2>2, <2>3, EditInv
<1>5. QED
  BY <1>2, <1>3, <1>4

LEMMA DeleteInv == ASSUME IInv, NEW c \in Creds, DeleteCredential(c) PROVE IInv'
<1>1. /\ guard' = IdleGuard /\ file = FreeFile /\ file' = FreeFile /\ disk[c] # Absent
      /\ disk' = [disk EXCEPT ![c] = Absent] /\ mem' = [mem EXCEPT ![c] = Absent]
      /\ revoked' = revoked \cup {c} /\ queued' = queued \cup {c}
      /\ gone' = [gone EXCEPT ![c] = disk[c]] /\ host' = [host EXCEPT ![c] = Absent]
      /\ UNCHANGED <<writeErr, calls, choice>>
  BY DEF DeleteCredential
<1>2. Locks'
  BY <1>1, IdleIsGood DEF Locks, FreeFile
<1>3. Copies'
  <2>1. /\ DOMAIN mem' = Creds /\ DOMAIN disk' = Creds /\ DOMAIN host' = Creds
        /\ DOMAIN gone' = Creds
    BY <1>1 DEF IInv, Copies
  <2>2. ASSUME NEW e \in Creds
        PROVE  Sound(mem'[e]) /\ Sound(disk'[e]) /\ Sound(host'[e]) /\ Sound(gone'[e])
    BY <1>1 DEF IInv, Copies, Sound
  <2>3. QED
    BY <2>1, <2>2 DEF Copies, Sound
<1>4. Deleted'
  <2>1. ASSUME NEW e \in Creds, gone'[e] # Absent PROVE disk'[e] = Absent /\ e \in revoked'
    BY <1>1, <2>1 DEF IInv, Copies, Deleted
  <2>2. file'.by = "free"
    BY <1>1 DEF FreeFile
  <2>3. QED
    BY <2>1, <2>2 DEF Deleted
<1>5. Chosen'
  <2>1. DOMAIN choice' = Creds
    BY <1>1 DEF IInv, Chosen
  <2>2. ASSUME NEW e \in Creds, disk'[e] # Absent
        PROVE  /\ Manual(disk'[e]) = choice'[e]
               /\ Present(e)' /\ e \notin queued' /\ ~Reading(e)' => mem'[e].disabled = choice'[e]
    <3>1. e # c /\ disk'[e] = disk[e] /\ mem'[e] = mem[e] /\ choice'[e] = choice[e]
      BY <1>1, <2>2 DEF IInv, Copies
    <3>2. ~Reading(e)
      BY <1>1 DEF Reading, FreeFile
    <3>3. e \notin queued' => e \notin queued
      BY <1>1
    <3>4. QED
      BY <2>2, <3>1, <3>2, <3>3 DEF IInv, Chosen, Present
  <2>3. file'.by # "parse"
    BY <1>1 DEF FreeFile
  <2>4. QED
    BY <2>1, <2>2, <2>3 DEF Chosen
<1>6. Bounded'
  <2>1. budget.saves > 0 /\ budget' = [budget EXCEPT !.saves = @ - 1]
    BY DEF DeleteCredential
  <2>2. QED
    BY <1>1, <2>1, BudgetSteps DEF IInv, Bounded
<1>7. QED
  BY <1>1, <1>2, <1>3, <1>4, <1>5, <1>6 DEF IInv, Calling

-----------------------------------------------------------------------------
(* The watcher's callback, and a restart *)

LEMMA ParseReadInv == ASSUME IInv, NEW c \in Creds, ParseRead(c) PROVE IInv'
<1>1. /\ file = FreeFile /\ queued' = queued \ {c}
      /\ UNCHANGED <<mem, disk, host, gone, revoked, choice, guard, budget, writeErr, calls>>
  BY DEF ParseRead, outside, history
<1>2. file.by = "free" /\ GoodGuard(guard) /\ Bounded' /\ Copies' /\ Calling'
  BY <1>1 DEF IInv, Locks, Bounded, Copies, Calling, FreeFile
<1>3. CASE disk[c] = Absent
  <2>1. gone[c] # Absent => c \in revoked
    BY DEF IInv, Deleted
  <2>2. file' = file
    BY <1>3, <2>1 DEF ParseRead
  <2>3. Locks' /\ Deleted'
    BY <1>1, <2>2 DEF IInv, Locks, Deleted
  <2>4. Chosen'
    <3>1. ASSUME NEW e \in Creds, disk'[e] # Absent
          PROVE  /\ Manual(disk'[e]) = choice'[e]
                 /\ Present(e)' /\ e \notin queued' /\ ~Reading(e)' => mem'[e].disabled = choice'[e]
      <4>1. e # c /\ disk[e] # Absent /\ ~Reading(e)
        BY <1>1, <1>2, <1>3, <3>1 DEF Reading
      <4>2. e \notin queued' => e \notin queued
        BY <1>1, <4>1
      <4>3. QED
        BY <1>1, <4>1, <4>2 DEF IInv, Chosen, Present
    <3>2. file'.by # "parse" /\ DOMAIN choice' = Creds
      BY <1>1, <1>2, <2>2 DEF IInv, Chosen
    <3>3. QED
      BY <3>1, <3>2 DEF Chosen
  <2>5. QED
    BY <1>2, <2>3, <2>4 DEF IInv
<1>4. CASE disk[c] # Absent
  <2>1. PICK checked : file' = [by |-> "parse", cred |-> c, orig |-> disk[c], next |-> Absent,
                                checked |-> checked]
    BY <1>4 DEF ParseRead
  <2>2. Earned(disk[c])
    BY <1>4 DEF IInv, Copies, Sound
  <2>3. GoodFile(file') /\ file'.by = "parse" /\ file'.cred = c /\ file'.orig = disk[c]
    BY <2>1, <2>2 DEF GoodFile
  <2>4. Locks'
    BY <1>1, <1>2, <2>3 DEF Locks
  <2>5. Deleted'
    BY <1>1, <1>4, <2>3 DEF IInv, Deleted
  <2>6. Chosen'
    <3>1. ASSUME NEW e \in Creds, disk'[e] # Absent
          PROVE  /\ Manual(disk'[e]) = choice'[e]
                 /\ Present(e)' /\ e \notin queued' /\ ~Reading(e)' => mem'[e].disabled = choice'[e]
      <4>1. disk[e] # Absent /\ ~Reading(e)
        BY <1>1, <1>2, <3>1 DEF Reading
      <4>2. ~Reading(e)' => e # c
        BY <2>3 DEF Reading
      <4>3. e \notin queued' /\ e # c => e \notin queued
        BY <1>1
      <4>4. QED
        BY <1>1, <4>1, <4>2, <4>3 DEF IInv, Chosen, Present
    <3>2. disk'[file'.cred] = file'.orig /\ DOMAIN choice' = Creds
      BY <1>1, <2>3 DEF IInv, Chosen
    <3>3. QED
      BY <3>1, <3>2 DEF Chosen
  <2>7. QED
    BY <1>2, <2>4, <2>5, <2>6 DEF IInv
<1>5. QED
  BY <1>3, <1>4

LEMMA AdoptedIsSound ==
  ASSUME IInv, NEW c \in Creds, NEW orig, Earned(orig)
  PROVE  LET r == Adopted(c, Parsed(orig)) IN
         Earned(r) /\ r.disabled = Manual(orig) /\ Earned(Normalize(r))
<1>1. PICK v : v = Manual(orig)
  OBVIOUS
<1>2. PICK d : d = [orig EXCEPT !.disabled = v]
  OBVIOUS
<1>3. PICK p : p = Normalize(d)
  OBVIOUS
<1>4. Parsed(orig) = p
  BY <1>1, <1>2, <1>3, Zenon DEF Parsed
<1>5. Earned(d) /\ d.disabled = v
  BY <1>2, Changing
<1>6. Earned(p) /\ p.disabled = v
  BY <1>3, <1>5, Normalizing
<1>7. PICK a : a = [p EXCEPT !.block = mem[c].block, !.ident = mem[c].ident, !.rev = mem[c].rev]
  OBVIOUS
<1>8. PICK r : r = Adopted(c, p)
  OBVIOUS
<1>9. r = p \/ (Present(c) /\ r = a)
  BY <1>7, <1>8 DEF Adopted
<1>10. ASSUME Present(c) PROVE Earned(a) /\ a.disabled = v
  <2>1. EarnedBlock(mem[c].block)
    BY <1>10 DEF IInv, Copies, Sound, Present, Earned
  <2>2. Shape(a) /\ a.disabled = p.disabled /\ a.block = mem[c].block
    BY <1>6, <1>7 DEF Earned, Shape
  <2>3. QED
    BY <1>6, <2>1, <2>2 DEF Earned
<1>11. Earned(r) /\ r.disabled = v
  BY <1>6, <1>9, <1>10
<1>12. Earned(Normalize(r))
  BY <1>11, Normalizing
<1>13. QED
  BY <1>1, <1>4, <1>8, <1>11, <1>12

LEMMA ParseCommitInv == ASSUME IInv, ParseCommit PROVE IInv'
<1>1. PICK c, r : c = file.cred /\ r = Adopted(c, Parsed(file.orig))
  OBVIOUS
<1>2. PICK n : n = Normalize(r)
  OBVIOUS
<1>3. /\ file.by = "parse" /\ file' = FreeFile
      /\ mem' = [mem EXCEPT ![c] = r] /\ host' = [host EXCEPT ![c] = n]
      /\ revoked' \in {revoked, revoked \ {c}}
      /\ writeErr' \subseteq writeErr \cup {c}
      /\ UNCHANGED <<disk, guard, calls, queued, gone, budget, choice>>
  BY <1>1, <1>2 DEF ParseCommit
<1>4. /\ c \in Creds /\ Earned(file.orig) /\ disk[c] # Absent /\ GoodGuard(guard)
      /\ disk[c] = file.orig \/ c \in queued
      /\ gone[c] = Absent
  BY <1>1, <1>3 DEF IInv, Locks, GoodFile, Deleted, Chosen
<1>5. Earned(r) /\ r.disabled = Manual(file.orig) /\ Earned(n)
  BY <1>1, <1>2, <1>4, AdoptedIsSound
<1>6. Locks'
  BY <1>3, <1>4, IdleIsGood DEF Locks, FreeFile
<1>7. Copies'
  <2>1. /\ DOMAIN mem' = Creds /\ DOMAIN disk' = Creds /\ DOMAIN host' = Creds
        /\ DOMAIN gone' = Creds
    BY <1>3 DEF IInv, Copies
  <2>2. ASSUME NEW e \in Creds
        PROVE  Sound(mem'[e]) /\ Sound(disk'[e]) /\ Sound(host'[e]) /\ Sound(gone'[e])
    BY <1>3, <1>5 DEF IInv, Copies, Sound
  <2>3. QED
    BY <2>1, <2>2 DEF Copies, Sound
<1>8. Deleted'
  <2>1. ASSUME NEW e \in Creds, gone'[e] # Absent PROVE disk'[e] = Absent /\ e \in revoked'
    BY <1>3, <1>4, <2>1 DEF IInv, Deleted
  <2>2. file'.by = "free"
    BY <1>3 DEF FreeFile
  <2>3. QED
    BY <2>1, <2>2 DEF Deleted
<1>9. Chosen'
  <2>1. ASSUME NEW e \in Creds, disk'[e] # Absent
        PROVE  /\ Manual(disk'[e]) = choice'[e]
               /\ Present(e)' /\ e \notin queued' /\ ~Reading(e)' => mem'[e].disabled = choice'[e]
    <3>1. disk[e] # Absent /\ Manual(disk[e]) = choice[e] /\ Manual(disk'[e]) = choice'[e]
      BY <1>3, <2>1 DEF IInv, Chosen
    <3>2. CASE e = c
      <4>1. mem'[e] = r
        BY <1>3, <1>4, <3>2 DEF IInv, Copies
      <4>2. e \notin queued => Manual(file.orig) = choice[e]
        BY <1>4, <3>1, <3>2
      <4>3. QED
        BY <1>3, <1>5, <3>1, <4>1, <4>2
    <3>3. CASE e # c
      <4>1. ~Reading(e) /\ mem'[e] = mem[e]
        BY <1>1, <1>3, <3>3 DEF Reading, IInv, Copies
      <4>2. QED
        BY <1>3, <3>1, <4>1 DEF IInv, Chosen, Present
    <3>4. QED
      BY <3>2, <3>3
  <2>2. file'.by # "parse" /\ DOMAIN choice' = Creds
    BY <1>3 DEF IInv, Chosen, FreeFile
  <2>3. QED
    BY <2>1, <2>2 DEF Chosen
<1>10. Bounded' /\ Calling'
  BY <1>3, <1>4 DEF IInv, Bounded, Calling
<1>11. QED
  BY <1>6, <1>7, <1>8, <1>9, <1>10 DEF IInv

LEMMA RestartInv == ASSUME IInv, Restart PROVE IInv'
<1>1. /\ mem' = [c \in Creds |-> Absent] /\ host' = mem' /\ gone' = mem'
      /\ calls' = {} /\ writeErr' = {} /\ guard' = IdleGuard /\ file' = FreeFile
      /\ UNCHANGED <<disk, choice>>
  BY DEF Restart
<1>2. Locks'
  BY <1>1, IdleIsGood DEF Locks, FreeFile
<1>3. Copies'
  BY <1>1 DEF IInv, Copies, Sound
<1>4. Deleted'
  BY <1>1 DEF Deleted, FreeFile
<1>5. Chosen'
  BY <1>1 DEF IInv, Chosen, Present, FreeFile
<1>6. Bounded'
  <2>1. budget.crashes > 0 /\ budget' = [budget EXCEPT !.crashes = @ - 1]
    BY DEF Restart
  <2>2. QED
    BY <1>1, <2>1, BudgetSteps DEF IInv, Bounded
<1>7. QED
  BY <1>1, <1>2, <1>3, <1>4, <1>5, <1>6 DEF IInv, Calling

-----------------------------------------------------------------------------
(* The invariant *)

LEMMA InitInv == Init => IInv
<1> SUFFICES ASSUME Init PROVE IInv
  OBVIOUS
<1>1. budget \in Worlds
  BY QuotaAssumption DEF Init
<1>2. ASSUME NEW c \in Creds
      PROVE  Sound(disk[c]) /\ (disk[c] # Absent => Manual(disk[c]) = FALSE /\ disk[c].disabled = FALSE)
  <2>1. PICK i : disk[c] = IF c \notin budget.creds THEN Absent
                           ELSE [key |-> FirstKey[c], disabled |-> FALSE, block |-> NoBlock,
                                 ident |-> i, rev |-> 0]
    BY DEF Init
  <2>2. QED
    BY <2>1 DEF Sound, Earned, Shape, EarnedBlock, Manual
<1>3. Locks
  BY IdleIsGood DEF Init, Locks, FreeFile
<1>4. Copies
  <2>1. ASSUME NEW c \in Creds
        PROVE  Sound(mem[c]) /\ Sound(disk[c]) /\ Sound(host[c]) /\ Sound(gone[c])
    BY <1>2 DEF Init, Sound
  <2>2. QED
    BY <2>1 DEF Init, Copies
<1>5. Deleted
  BY DEF Init, Deleted, FreeFile
<1>6. Chosen
  <2>1. ASSUME NEW c \in Creds, disk[c] # Absent
        PROVE  /\ Manual(disk[c]) = choice[c]
               /\ Present(c) /\ c \notin queued /\ ~Reading(c) => mem[c].disabled = choice[c]
    <3>1. choice[c] = FALSE /\ mem[c] = disk[c]
      BY DEF Init
    <3>2. QED
      BY <1>2, <2>1, <3>1
  <2>2. file.by # "parse" /\ DOMAIN choice = Creds
    BY DEF Init, FreeFile
  <2>3. QED
    BY <2>1, <2>2 DEF Chosen
<1>7. Bounded /\ Calling
  BY <1>1 DEF Init, Bounded, Calling
<1>8. QED
  BY <1>3, <1>4, <1>5, <1>6, <1>7 DEF IInv

LEMMA NextInv == IInv /\ [Next]_vars => IInv'
<1> SUFFICES ASSUME IInv, [Next]_vars PROVE IInv'
  OBVIOUS
<1>1. CASE CallStep
  BY <1>1, QuietSteps, ErrorInv, UsageInv DEF CallStep
<1>2. CASE SaveQuotaGroup \/ Reconcile
  BY <1>2, SaveQuotaGroupInv, ReconcileInv
<1>3. CASE FileStep
  BY <1>3, CompareInv, FailInv, PersistWriteInv, SaveWriteInv, ParseCommitInv DEF FileStep
<1>4. ASSUME NEW c \in Creds,
             PersistOpen(c) \/ SetEnabled(c) \/ UpdateCredential(c) \/ SaveOpen(c)
             \/ DeleteCredential(c) \/ ParseRead(c)
      PROVE  IInv'
  BY <1>4, PersistOpenInv, SaveBeginInv, SaveOpenInv, DeleteInv, ParseReadInv
<1>5. CASE Outside
  BY <1>5, OutsideInv, RestartInv, QuietSteps DEF Outside
<1>6. CASE UNCHANGED vars
  BY <1>6, QuietSteps
<1>7. QED
  BY <1>1, <1>2, <1>3, <1>4, <1>5, <1>6 DEF Next

LEMMA Invariant == Spec => []IInv
<1>1. QED
  BY InitInv, NextInv, PTL DEF Spec

-----------------------------------------------------------------------------
(* The theorems *)

(* A block that pauses a credential was earned by the account of the very key
   it pauses, whatever keys were replaced, files edited or saved late, and
   however observations and restarts interleave (observeQuotaError,
   normalizeQuotaCredential, parseAuth). *)
THEOREM BlocksStay == Spec => []BlockStaysInItsAccount
<1>1. IInv => BlockStaysInItsAccount
  <2>1. ASSUME IInv, NEW c \in Creds, Present(c), Normalize(mem[c]).block # NoBlock
        PROVE  mem[c].block.accounts = {AccountOf[mem[c].key]}
    <3>1. Earned(mem[c])
      BY <2>1 DEF IInv, Copies, Sound, Present
    <3>2. mem[c].block # NoBlock /\ mem[c].block.key = mem[c].key
      <4>1. PICK i, b : /\ i = (IF mem[c].ident = mem[c].key THEN mem[c].ident ELSE NoKey)
                        /\ b = (IF mem[c].block = NoBlock \/ mem[c].block.key # mem[c].key
                                THEN NoBlock
                                ELSE [mem[c].block EXCEPT !.manual = mem[c].disabled])
        OBVIOUS
      <4>2. PICK n : n = [mem[c] EXCEPT !.ident = i, !.block = b]
        OBVIOUS
      <4>3. Normalize(mem[c]) = n
        BY <4>1, <4>2 DEF Normalize
      <4>4. n.block = b
        BY <3>1, <4>2 DEF Earned, Shape
      <4>5. b # NoBlock
        BY <2>1, <4>3, <4>4
      <4>6. QED
        BY <4>1, <4>5
    <3>3. QED
      BY <3>1, <3>2 DEF Earned, EarnedBlock
  <2>2. QED
    BY <2>1 DEF BlockStaysInItsAccount
<1>2. QED
  BY <1>1, Invariant, PTL

(* The file says the operator's last choice, through every quota write, host
   save and restart, and memory says it once the watcher is through
   (Credential.UnmarshalJSON, persistQuotaCredential, parseAuth). *)
THEOREM ChoiceIsKept == Spec => []ManualChoiceKept
<1>1. IInv => ManualChoiceKept
  BY DEF IInv, Chosen, ManualChoiceKept, Reading, FreeFile
<1>2. QED
  BY <1>1, Invariant, PTL

(* A deleted credential comes back only with a physical file, and no write of
   the plugin recreates that file: a late callback, a write that was under way
   and the repair of an old write error all leave it deleted (parseAuth's
   check of revoked, deleteCredential, persistQuotaCredential). *)
THEOREM DeletedStays == Spec => DeletedStaysDeleted
<1> DEFINE Stays == \A c \in Creds :
                     /\ mem[c] = Absent /\ mem'[c] # Absent => disk[c] # Absent
                     /\ disk[c] = Absent /\ disk'[c] # Absent => budget'.edits < budget.edits
<1>1. IInv /\ [Next]_vars => Stays
  <2> SUFFICES ASSUME IInv, [Next]_vars PROVE Stays
    OBVIOUS
  <2>1. CASE UNCHANGED <<mem, disk>>
    BY <2>1
  <2>2. CASE SaveQuotaGroup
    <3>1. UNCHANGED disk
      BY <2>2 DEF SaveQuotaGroup
    <3>2. ASSUME NEW c \in Creds, mem[c] = Absent PROVE mem'[c] = Absent
      <4>1. PICK kept, changed, q :
              /\ kept = {d \in DOMAIN guard.next : Present(d) /\ mem[d].key = guard.next[d].key}
              /\ changed = {d \in kept : ~QuotaStateEqual(mem[d], guard.next[d])}
              /\ q = [d \in Creds |-> [mem[d] EXCEPT !.block = guard.next[d].block,
                                                     !.ident = guard.next[d].ident,
                                                     !.rev = FreshRevision(d)]]
        OBVIOUS
      <4>2. mem' = [d \in Creds |-> IF d \in changed /\ guard.next[d].block # NoBlock
                                    THEN [mem[d] EXCEPT !.block = guard.next[d].block,
                                                        !.ident = guard.next[d].ident,
                                                        !.rev = FreshRevision(d)]
                                    ELSE mem[d]]
        BY <2>2, <4>1, Zenon DEF SaveQuotaGroup
      <4>3. c \notin changed
        BY <3>2, <4>1 DEF Present
      <4>4. mem' = [d \in Creds |-> IF d \in changed /\ guard.next[d].block # NoBlock
                                    THEN q[d] ELSE mem[d]]
        BY <4>1, <4>2
      <4>5. QED
        BY <3>2, <4>3, <4>4
    <3>3. QED
      BY <3>1, <3>2
  <2>3. ASSUME NEW c \in Creds, PersistOpen(c) PROVE Stays
    <3>1. UNCHANGED disk
      BY <2>3 DEF PersistOpen
    <3>2. mem' = mem \/ (Present(c) /\ \E m : mem' = [mem EXCEPT ![c] = m])
      <4>1. CASE ~Present(c) \/ mem[c].key # guard.next[c].key
        BY <2>3, <4>1 DEF PersistOpen
      <4>2. CASE Present(c) /\ mem[c].key = guard.next[c].key
        <5>1. LET u == IF NextQuota(c).block # NoBlock THEN NextQuota(c) ELSE mem[c]
              IN mem' = [mem EXCEPT ![c] = [@ EXCEPT !.rev = NextQuota(c).rev, !.block = u.block,
                                                     !.ident = u.ident]]
          BY <2>3, <4>2, Zenon DEF PersistOpen
        <5>2. QED
          BY <4>2, <5>1, Zenon
      <4>3. QED
        BY <4>1, <4>2
    <3>3. QED
      BY <3>1, <3>2 DEF IInv, Copies, Present
  <2>4. CASE PersistWrite \/ SaveWrite \/ ParseCommit
    <3>1. PICK c : c = file.cred
      OBVIOUS
    <3>2. c \in Creds /\ disk[c] # Absent
      BY <2>4, <3>1 DEF PersistWrite, SaveWrite, ParseCommit, IInv, Locks, GoodFile, Deleted
    <3>3. /\ disk' = disk \/ \E d : disk' = [disk EXCEPT ![c] = d]
          /\ mem' = mem \/ \E m : mem' = [mem EXCEPT ![c] = m]
      BY <2>4, <3>1 DEF PersistWrite, SaveWrite, ParseCommit
    <3>4. QED
      BY <3>2, <3>3 DEF IInv, Copies
  <2>5. ASSUME NEW c \in Creds, DeleteCredential(c) PROVE Stays
    BY <2>5 DEF DeleteCredential, IInv, Copies
  <2>6. ASSUME NEW c \in Creds, NEW d, Edit(c, d) PROVE Stays
    <3>1. UNCHANGED mem /\ budget.edits > 0 /\ budget' = [budget EXCEPT !.edits = @ - 1]
      BY <2>6 DEF Edit
    <3>2. budget'.edits < budget.edits
      BY <3>1, BudgetSteps DEF IInv, Bounded
    <3>3. QED
      BY <3>1, <3>2
  <2>7. ASSUME NEW c \in Creds, EditFile(c) \/ HostSave(c) \/ RestoreFile(c) PROVE Stays
    BY <2>6, <2>7 DEF EditFile, HostSave, RestoreFile
  <2>8. CASE Restart
    BY <2>8 DEF Restart
  <2>9. CASE \/ CallStep \/ Reconcile \/ Compare \/ PersistFails \/ SaveFails \/ Tick \/ UNCHANGED vars
             \/ \E c \in Creds : SetEnabled(c) \/ UpdateCredential(c) \/ SaveOpen(c) \/ ParseRead(c)
    <3>1. UNCHANGED <<mem, disk>>
      BY <2>9 DEF CallStep, StartRequest, StartUsage, UsageAnswer, CallEnds, ObserveError,
         ObserveUsage, Reconcile, Compare, PersistFails, SaveFails, Tick, vars, SetEnabled,
         UpdateCredential, SaveBegin, SaveOpen, ParseRead
    <3>2. QED
      BY <2>1, <3>1
  <2>10. QED
    BY <2>2, <2>3, <2>4, <2>5, <2>7, <2>8, <2>9 DEF Next, FileStep, Outside
<1>2. QED
  BY <1>1, Invariant, PTL DEF Spec, DeletedStaysDeleted

-----------------------------------------------------------------------------
(* Least elements give induction over the numbers; from it, the latest of a
   set of times and an unused revision. *)

Below == {p \in Nat \X Nat : p[1] < p[2]}

LEMMA BelowIsWellFounded == IsWellFoundedOn(Below, Nat)
BY NatLessThanWellFounded DEF OpToRel, Below

LEMMA Least ==
  ASSUME NEW S, S \subseteq Nat, S # {}
  PROVE  \E n \in S : \A m \in S : n <= m
<1>1. PICK n \in S : \A m \in S : ~(<<m, n>> \in Below)
  BY BelowIsWellFounded, WFMin
<1>2. ASSUME NEW m \in S PROVE n <= m
  <2>1. PICK p : p = <<m, n>>
    OBVIOUS
  <2>2. p \in Nat \X Nat /\ p[1] = m /\ p[2] = n
    BY <2>1
  <2>3. ~(m < n)
    BY <1>1, <2>1, <2>2 DEF Below
  <2>4. QED
    BY <2>3
<1>3. QED
  BY <1>2

LEMMA LatestIs ==
  ASSUME NEW S, S \subseteq Times, S # {}
  PROVE  Latest(S) \in S /\ \A t \in S : t <= Latest(S)
<1>0. MaxTime \in Nat
  BY QuotaAssumption
<1>1. PICK T : T = {MaxTime - s : s \in S}
  OBVIOUS
<1>2. T \subseteq Nat /\ T # {}
  <2>1. ASSUME NEW s \in S PROVE MaxTime - s \in Nat
    <3>1. s \in 0..MaxTime
      BY DEF Times
    <3>2. QED
      BY <1>0, <3>1
  <2>2. QED
    BY <1>1, <2>1
<1>3. PICK n \in T : \A m \in T : n <= m
  BY <1>2, Least
<1>4. PICK s \in S : n = MaxTime - s
  BY <1>1
<1>5. ASSUME NEW t \in S PROVE t <= s
  <2>1. n <= MaxTime - t
    BY <1>1, <1>3
  <2>2. QED
    BY <1>0, <1>4, <2>1 DEF Times
<1>6. \E t \in S : \A u \in S : u <= t
  BY <1>5
<1>7. QED
  BY <1>6 DEF Latest

LEMMA Unused ==
  ASSUME NEW held, IsFiniteSet(held)
  PROVE  \E n \in 1..(Cardinality(held) + 1) :
            n \notin held /\ \A m \in 1..(n - 1) : m \in held
<1>1. PICK k : k = Cardinality(held) + 1
  OBVIOUS
<1>2. Cardinality(held) \in Nat /\ k \in Nat
  BY <1>1, FS_CardinalityType
<1>3. PICK free : free = {n \in 1..k : n \notin held}
  OBVIOUS
<1>4. free # {}
  <2>1. SUFFICES ASSUME free = {} PROVE FALSE
    OBVIOUS
  <2>2. 1..k \subseteq held
    BY <1>3, <2>1
  <2>3. Cardinality(1..k) <= Cardinality(held)
    BY <2>2, FS_Subset
  <2>4. Cardinality(1..k) = k
    <3>1. Cardinality(1..k) = IF 1 > k THEN 0 ELSE k - 1 + 1
      BY <1>2, FS_Interval
    <3>2. QED
      BY <1>1, <1>2, <3>1
  <2>5. QED
    BY <1>1, <1>2, <2>3, <2>4
<1>5. PICK n \in free : \A m \in free : n <= m
  <2>1. free \subseteq Nat
    BY <1>2, <1>3
  <2>2. QED
    BY <1>4, <2>1, Least
<1>6. ASSUME NEW m \in 1..(n - 1) PROVE m \in held
  <2>1. n \in 1..k /\ m \in 1..k /\ ~(n <= m)
    BY <1>2, <1>3
  <2>2. QED
    BY <1>3, <1>5, <2>1
<1>7. QED
  BY <1>1, <1>3, <1>5, <1>6

LEMMA FreshIs ==
  ASSUME NEW c
  PROVE  /\ FreshRevision(c) \in Nat /\ FreshRevision(c) # 0
         /\ \A r \in {mem[c], disk[c], host[c], gone[c], file.orig, file.next} :
              r # Absent => r.rev # FreshRevision(c)
<1>1. PICK some : some = {r \in {mem[c], disk[c], host[c], gone[c], file.orig, file.next} : r # Absent}
  OBVIOUS
<1>2. PICK copy : copy = some \cup (IF c \in DOMAIN guard.next THEN {guard.next[c]} ELSE {})
  OBVIOUS
<1>3. PICK held : held = {r.rev : r \in copy}
  OBVIOUS
<1>4. IsFiniteSet(held)
  <2>1. \A S, x : IsFiniteSet(S) => IsFiniteSet(S \cup {x})
    BY FS_AddElement
  <2>2. IsFiniteSet(((((((({} \cup {mem[c].rev}) \cup {disk[c].rev}) \cup {host[c].rev})
          \cup {gone[c].rev}) \cup {file.orig.rev}) \cup {file.next.rev})
          \cup {guard.next[c].rev}))
    BY <2>1, FS_EmptySet
  <2>3. held \subseteq {mem[c].rev, disk[c].rev, host[c].rev, gone[c].rev, file.orig.rev,
                       file.next.rev, guard.next[c].rev}
    BY <1>1, <1>2, <1>3
  <2>4. IsFiniteSet({mem[c].rev, disk[c].rev, host[c].rev, gone[c].rev, file.orig.rev,
                     file.next.rev, guard.next[c].rev})
    BY <2>2
  <2>5. QED
    BY <2>3, <2>4, FS_Subset
<1>5. PICK n : n = FreshRevision(c)
  OBVIOUS
<1>6. n = CHOOSE i \in 1..(Cardinality(held) + 1) : i \notin held /\ \A m \in 1..(i - 1) : m \in held
  BY <1>1, <1>2, <1>3, <1>5 DEF FreshRevision
<1>7. n \in 1..(Cardinality(held) + 1) /\ n \notin held
  BY <1>4, <1>6, Unused
<1>8. n \in Nat /\ n # 0
  BY <1>4, <1>7, FS_CardinalityType
<1>9. \A r \in some : r.rev # n
  BY <1>2, <1>3, <1>7
<1>10. QED
  BY <1>1, <1>5, <1>8, <1>9

(* A copy of a credential that may come to be in force: with a block it has a
   revision. *)
Stamped(r) == r \in Credentials /\ (r.block # NoBlock => r.rev # 0)
(* No quota state of another key. *)
Keyed(r) == r.block # NoBlock => r.block.key = r.key

TypedCopies ==
  \A c \in Creds :
    /\ mem[c] # Absent => Stamped(mem[c]) /\ Keyed(mem[c])
    /\ disk[c] # Absent => Stamped(disk[c])
    /\ host[c] # Absent => Stamped(host[c])
    /\ gone[c] # Absent => Stamped(gone[c])

TypedWork ==
  /\ \A c \in DOMAIN guard.next :
       /\ guard.next[c] \in Credentials /\ Keyed(guard.next[c]) /\ Present(c)
       /\ guard.op = "save" => Stamped(guard.next[c]) /\ guard.base \in Credentials
  /\ file.by # "free" => Stamped(file.orig)
  /\ file.by \in {"persist", "save"} =>
       Stamped(file.next) /\ Keyed(file.next) /\ file.cred \in DOMAIN guard.next

Exhaustions == [key : Keys, observed : Times, limits : Limits]
TypedRest ==
  /\ clock \in 1..MaxTime /\ cache \in [Creds -> Keys \cup {NoKey}]
  /\ choice \in [Creds -> BOOLEAN]
  /\ revoked \subseteq Creds /\ queued \subseteq Creds /\ foreign \subseteq Creds

TypedCalls ==
  /\ IsFiniteSet(calls) /\ Cardinality(calls) <= budget.calls
  /\ \A u \in calls : /\ u.key \in Keys /\ u.started \in Times /\ u.at \in Times /\ u.reset \in Times
                      /\ u.answer # Absent => u.answer \in Answers

TypedHistory ==
  /\ DOMAIN owed = Creds /\ DOMAIN news = Creds
  /\ \A c \in Creds : /\ owed[c] # Absent => owed[c] \in Exhaustions
                      /\ news[c] # Absent => news[c] \in Exhaustions

TInv == TypedCopies /\ TypedWork /\ TypedRest /\ TypedCalls /\ TypedHistory

-----------------------------------------------------------------------------
(* What is owed is recorded: by the block in force, and by every copy that
   would be adopted in its place because it carries the same revision. *)
Alike(r, s) == r # Absent /\ r.rev = s.rev
Held(c, r, o) == Alike(r, mem[c]) => Records(r.block, o)
InForce(c, o) ==
  /\ o.key = mem[c].key /\ Records(mem[c].block, o) /\ mem[c].rev # 0
  /\ Held(c, disk[c], o) /\ Held(c, host[c], o) /\ Held(c, gone[c], o)
  /\ file.by # "free" /\ file.cred = c => Held(c, file.orig, o)
  /\ file.by \in {"persist", "save"} /\ file.cred = c => Held(c, file.next, o)

(* After a restart the file is all there is. *)
Remembered(c, o) ==
  /\ disk[c] # Absent /\ Records(disk[c].block, o)
  /\ host[c] = Absent /\ gone[c] = Absent
  /\ file.by = "parse" /\ file.cred = c => Records(file.orig.block, o)

(* The holder of credentialMu goes on to write what is owed. *)
Carried(c, o) ==
  guard.op \in {"publish", "write"} /\ c \in DOMAIN guard.next /\ guard.next[c].key = o.key
  => Records(guard.next[c].block, o)

Covered(c) ==
  owed[c] # Absent =>
    /\ Present(c) => InForce(c, owed[c])
    /\ ~Present(c) => Remembered(c, owed[c])
    /\ Carried(c, owed[c])

OwedIsRecorded == \A c \in Creds : Covered(c)

NewsIsCarried ==
  \A c \in Creds : news[c] # Absent =>
    /\ guard.op = "publish" /\ c \in DOMAIN guard.next
    /\ guard.next[c].key = news[c].key /\ Records(guard.next[c].block, news[c])

(* An operator's save keeps the quota state and the revision of an unchanged key. *)
SaveKeeps ==
  /\ guard.op = "save" => \A c \in DOMAIN guard.next :
       IF guard.next[c].key = guard.base.key
       THEN Cores(guard.next[c]) = Cores(Normalize(guard.base)) /\ guard.next[c].rev = guard.base.rev
       ELSE guard.next[c].rev = 0
  /\ file.by = "save" => mem[file.cred] = guard.base /\ file.next = guard.next[file.cred]

PInv == OwedIsRecorded /\ NewsIsCarried /\ SaveKeeps

-----------------------------------------------------------------------------
(* What the operators on credentials do to a typed copy, and to what its block
   records. *)

LEMMA BlockFields ==
  ASSUME NEW b \in Blocks
  PROVE  /\ b.key \in Keys /\ b.manual \in BOOLEAN /\ b.observed \in Times
         /\ b.accounts \subseteq Accounts
         /\ b.limits \in Limits /\ b # NoBlock
BY QuotaAssumption DEF Blocks, Limits

LEMMA LimitFields ==
  ASSUME NEW l \in Limits
  PROVE  /\ DOMAIN l \subseteq Types /\ DOMAIN l # {}
         /\ \A t \in DOMAIN l : l[t] \in Times
BY DEF Limits

LEMMA Editing ==
  ASSUME NEW r \in Credentials
  PROVE  /\ \A k \in Keys : [r EXCEPT !.key = k] \in Credentials
         /\ \A v \in BOOLEAN : [r EXCEPT !.disabled = v] \in Credentials
         /\ \A n \in Nat : [r EXCEPT !.rev = n] \in Credentials
         /\ \A i \in Keys \cup {NoKey} : [r EXCEPT !.ident = i] \in Credentials
         /\ \A b \in Blocks \cup {NoBlock} : [r EXCEPT !.block = b] \in Credentials
BY DEF Credentials

(* The normalised copy: what it keeps. *)
Kept(r, n) ==
  /\ n.key = r.key /\ n.rev = r.rev
  /\ n.block # NoBlock => r.block # NoBlock
  /\ r.block # NoBlock /\ r.block.key = r.key =>
       /\ n.block # NoBlock /\ n.block.key = r.block.key
       /\ n.block.observed = r.block.observed /\ n.block.limits = r.block.limits
       /\ Cores(n) = Cores(r)

LEMMA NormalTyped ==
  ASSUME NEW r \in Credentials
  PROVE  LET n == Normalize(r) IN
         /\ n \in Credentials /\ Keyed(n) /\ Kept(r, n) /\ n.disabled = r.disabled
         /\ n.ident = IF r.ident = r.key THEN r.ident ELSE NoKey
<1>1. PICK i, b : /\ i = (IF r.ident = r.key THEN r.ident ELSE NoKey)
                  /\ b = (IF r.block = NoBlock \/ r.block.key # r.key THEN NoBlock
                          ELSE [r.block EXCEPT !.manual = r.disabled])
  OBVIOUS
<1>2. PICK n : n = [r EXCEPT !.ident = i, !.block = b]
  OBVIOUS
<1>3. Normalize(r) = n
  BY <1>1, <1>2 DEF Normalize
<1>4. /\ i \in Keys \cup {NoKey} /\ r.disabled \in BOOLEAN /\ r.key \in Keys
      /\ r.block \in Blocks \cup {NoBlock}
  BY <1>1 DEF Credentials
<1>5. ASSUME r.block # NoBlock, r.block.key = r.key
      PROVE  /\ b \in Blocks /\ b # NoBlock /\ b.key = r.key /\ b.observed = r.block.observed
             /\ b.limits = r.block.limits /\ b.accounts = r.block.accounts
  <2>1. b = [r.block EXCEPT !.manual = r.disabled] /\ r.block \in Blocks
    BY <1>1, <1>4, <1>5
  <2>2. b \in Blocks /\ b.key = r.key /\ b.observed = r.block.observed
        /\ b.limits = r.block.limits /\ b.accounts = r.block.accounts
    BY <1>4, <1>5, <2>1 DEF Blocks
  <2>3. QED
    BY <2>2, BlockFields
<1>6. b \in Blocks \cup {NoBlock} /\ (b # NoBlock => r.block # NoBlock /\ r.block.key = r.key)
  BY <1>1, <1>5
<1>7. /\ n \in Credentials /\ n.key = r.key /\ n.rev = r.rev /\ n.disabled = r.disabled
      /\ n.block = b /\ n.ident = i
  BY <1>2, <1>4, <1>6 DEF Credentials
<1>8. Keyed(n)
  BY <1>5, <1>6, <1>7 DEF Keyed
<1>9. Kept(r, n)
  <2>1. ASSUME r.block # NoBlock, r.block.key = r.key PROVE Cores(n) = Cores(r)
    BY <1>5, <1>7, <2>1 DEF Cores, Core
  <2>2. QED
    BY <1>5, <1>6, <1>7, <2>1 DEF Kept
<1>10. QED
  BY <1>1, <1>3, <1>7, <1>8, <1>9

(* A normalised copy of the same key records what the copy recorded. *)
LEMMA KeptRecords ==
  ASSUME NEW r, NEW n, Kept(r, n), NEW o, Records(r.block, o), o.key = r.key
  PROVE  Records(n.block, o)
BY DEF Kept, Records

IsCore(x) == x.observed \in Times /\ x.limits \in Limits /\ x.accounts \subseteq Accounts

(* A merged block records whatever any of its parts does. *)
LEMMA MergeTyped ==
  ASSUME NEW r, r.key \in Keys, r.disabled \in BOOLEAN,
         NEW cores, cores # {}, \A x \in cores : IsCore(x)
  PROVE  LET m == MergeBlocks(r, cores) IN
         /\ m \in Blocks /\ m.key = r.key
         /\ \A x \in cores :
              /\ x.observed <= m.observed
              /\ \A t \in DOMAIN x.limits : t \in DOMAIN m.limits /\ x.limits[t] <= m.limits[t]
<1>1. PICK dom : dom = UNION {DOMAIN x.limits : x \in cores}
  OBVIOUS
<1>2. PICK lim : lim = [t \in dom |-> Latest({x.limits[t] : x \in {y \in cores : t \in DOMAIN y.limits}})]
  OBVIOUS
<1>3. PICK obs, acc : obs = Latest({x.observed : x \in cores}) /\ acc = UNION {x.accounts : x \in cores}
  OBVIOUS
<1>4. PICK m : m = [key |-> r.key, manual |-> r.disabled, observed |-> obs,
                    limits |-> lim, accounts |-> acc]
  OBVIOUS
<1>5. MergeBlocks(r, cores) = m
  BY <1>1, <1>2, <1>3, <1>4 DEF MergeBlocks
<1>6. obs \in Times /\ \A x \in cores : x.observed <= obs
  <2>1. {x.observed : x \in cores} \subseteq Times /\ {x.observed : x \in cores} # {}
    BY DEF IsCore
  <2>2. QED
    BY <1>3, <2>1, LatestIs
<1>7. dom \subseteq Types /\ dom # {}
  BY <1>1, LimitFields DEF IsCore
<1>8. ASSUME NEW t \in dom
      PROVE  /\ lim[t] \in Times
             /\ \A x \in cores : t \in DOMAIN x.limits => x.limits[t] <= lim[t]
  <2>1. PICK S : S = {x.limits[t] : x \in {y \in cores : t \in DOMAIN y.limits}}
    OBVIOUS
  <2>2. S \subseteq Times /\ S # {}
    BY <1>1, <2>1, LimitFields DEF IsCore
  <2>3. lim[t] = Latest(S)
    BY <1>2, <2>1
  <2>4. QED
    BY <2>1, <2>2, <2>3, LatestIs
<1>9. lim \in [dom -> Times]
  BY <1>2, <1>8
<1>10. lim \in Limits
  BY <1>7, <1>9 DEF Limits
<1>11. acc \subseteq Accounts
  BY <1>3 DEF IsCore
<1>12. m \in Blocks
  BY <1>4, <1>6, <1>10, <1>11 DEF Blocks
<1>13. /\ m.key = r.key /\ m.observed = obs /\ m.limits = lim
       /\ DOMAIN lim = dom
  BY <1>2, <1>4
<1>14. ASSUME NEW x \in cores
       PROVE  /\ x.observed <= m.observed
              /\ \A t \in DOMAIN x.limits : t \in DOMAIN m.limits /\ x.limits[t] <= m.limits[t]
  BY <1>1, <1>6, <1>8, <1>13
<1>15. QED
  BY <1>5, <1>12, <1>13, <1>14

LEMMA CoreTyped ==
  ASSUME NEW r \in Credentials, NEW x \in Cores(r)
  PROVE  IsCore(x) /\ r.block # NoBlock
         /\ x.observed = r.block.observed /\ x.limits = r.block.limits
<1>1. r.block # NoBlock /\ x = [observed |-> r.block.observed, limits |-> r.block.limits,
                                accounts |-> r.block.accounts]
  BY DEF Cores, Core
<1>2. r.block \in Blocks
  BY <1>1 DEF Credentials
<1>3. QED
  BY <1>1, <1>2, BlockFields DEF IsCore

-----------------------------------------------------------------------------
(* Steps that leave the copies of a credential alone *)

LEMMA Undisturbed ==
  ASSUME NEW e \in Creds, Covered(e),
         mem'[e] = mem[e], disk'[e] = disk[e], host'[e] = host[e], gone'[e] = gone[e],
         owed'[e] \in {owed[e], Absent},
         file'.by # "free" /\ file'.cred = e =>
           /\ file.by = file'.by /\ file.cred = e
           /\ file'.orig = file.orig /\ file'.next = file.next,
         guard'.op \in {"publish", "write"} /\ e \in DOMAIN guard'.next =>
           /\ guard.op \in {"publish", "write"} /\ e \in DOMAIN guard.next
           /\ guard'.next[e] = guard.next[e]
  PROVE  Covered(e)'
<1>1. ASSUME owed'[e] # Absent PROVE owed'[e] = owed[e] /\ owed[e] # Absent
  BY <1>1
<1>2. ASSUME owed'[e] # Absent, Present(e)' PROVE InForce(e, owed[e])'
  <2>1. InForce(e, owed[e])
    BY <1>1, <1>2 DEF Covered, Present
  <2>2. Held(e, disk[e], owed[e])' /\ Held(e, host[e], owed[e])' /\ Held(e, gone[e], owed[e])'
    BY <1>1, <1>2, <2>1 DEF InForce, Held, Alike
  <2>3. file'.by # "free" /\ file'.cred = e => Held(e, file.orig, owed[e])'
    BY <1>1, <1>2, <2>1 DEF InForce, Held, Alike
  <2>4. file'.by \in {"persist", "save"} /\ file'.cred = e => Held(e, file.next, owed[e])'
    BY <1>1, <1>2, <2>1 DEF InForce, Held, Alike
  <2>5. QED
    BY <1>1, <1>2, <2>1, <2>2, <2>3, <2>4 DEF InForce
<1>3. ASSUME owed'[e] # Absent, ~Present(e)' PROVE Remembered(e, owed[e])'
  BY <1>1, <1>3 DEF Covered, Present, Remembered
<1>4. ASSUME owed'[e] # Absent PROVE Carried(e, owed[e])'
  BY <1>1, <1>4 DEF Covered, Carried
<1>5. QED
  BY <1>2, <1>3, <1>4 DEF Covered

Resting == TypedCopies /\ TypedWork /\ PInv

LEMMA QuietRest ==
  ASSUME Resting, UNCHANGED <<mem, disk, host, gone, guard, file, owed, news>>
  PROVE  Resting'
<1>1. TypedCopies' /\ TypedWork' /\ NewsIsCarried' /\ SaveKeeps'
  BY DEF Resting, TypedCopies, TypedWork, PInv, NewsIsCarried, SaveKeeps, Present
<1>2. OwedIsRecorded'
  BY Undisturbed DEF Resting, PInv, OwedIsRecorded
<1>3. QED
  BY <1>1, <1>2 DEF Resting, PInv

(* An operation takes credentialMu. *)
LEMMA GuardRest ==
  ASSUME Resting, IInv, UNCHANGED <<mem, disk, host, gone, file>>, guard = IdleGuard,
         \A c \in DOMAIN guard'.next :
           /\ guard'.next[c] \in Credentials /\ Keyed(guard'.next[c]) /\ Present(c)
           /\ guard'.op = "save" => Stamped(guard'.next[c]) /\ guard'.base \in Credentials,
         \A c \in Creds : owed'[c] # Absent =>
           owed'[c] = owed[c] /\ Carried(c, owed[c])',
         NewsIsCarried',
         guard'.op = "save" => (\A c \in DOMAIN guard'.next :
           IF guard'.next[c].key = guard'.base.key
           THEN /\ Cores(guard'.next[c]) = Cores(Normalize(guard'.base))
                /\ guard'.next[c].rev = guard'.base.rev
           ELSE guard'.next[c].rev = 0)
  PROVE  Resting'
<1>1. file.by \notin {"persist", "save"}
  BY DEF IInv, Locks, IdleGuard
<1>2. TypedCopies' /\ TypedWork' /\ SaveKeeps'
  BY <1>1 DEF Resting, TypedCopies, TypedWork, SaveKeeps, Present
<1>3. ASSUME NEW e \in Creds PROVE Covered(e)'
  <2>1. Covered(e)
    BY DEF Resting, PInv, OwedIsRecorded
  <2>2. ASSUME owed'[e] # Absent PROVE owed'[e] = owed[e] /\ owed[e] # Absent /\ Carried(e, owed[e])'
    BY <2>2
  <2>3. ASSUME owed'[e] # Absent, Present(e)' PROVE InForce(e, owed[e])'
    BY <2>1, <2>2, <2>3 DEF Covered, Present, InForce, Held, Alike
  <2>4. ASSUME owed'[e] # Absent, ~Present(e)' PROVE Remembered(e, owed[e])'
    BY <2>1, <2>2, <2>4 DEF Covered, Present, Remembered
  <2>5. QED
    BY <2>2, <2>3, <2>4 DEF Covered
<1>4. QED
  BY <1>2, <1>3 DEF Resting, PInv, OwedIsRecorded

-----------------------------------------------------------------------------
(* Types of what is not a copy of a credential *)

LEMMA ManualTyped == ASSUME NEW d \in Credentials PROVE Manual(d) \in BOOLEAN
BY BlockFields DEF Credentials, Manual

LEMMA FileTyped ==
  ASSUME IInv, TypedWork, file.by \in {"persist", "save"}
  PROVE  file.cred \in Creds /\ file.next.disabled \in BOOLEAN
BY DEF IInv, Locks, GoodFile, TypedWork, Stamped, Credentials

LEMMA EditTyped ==
  ASSUME TypedCopies, IInv, NEW c \in Creds, EditFile(c) \/ HostSave(c) \/ RestoreFile(c)
  PROVE  \E d \in Credentials :
           /\ Edit(c, d) /\ Stamped(d)
           /\ \/ /\ disk[c] # Absent /\ d.block = disk[c].block /\ d.rev = disk[c].rev
                 /\ host' = host /\ gone' = gone
              \/ /\ disk[c] # Absent /\ host[c] # Absent
                 /\ d.block = host[c].block /\ d.rev = host[c].rev
                 /\ host' = [host EXCEPT ![c] = Absent] /\ gone' = gone
              \/ /\ disk[c] = Absent /\ gone[c] # Absent /\ d = gone[c]
                 /\ gone' = [gone EXCEPT ![c] = Absent] /\ host' = host
<1>0. budget.keys \subseteq Keys
  BY DEF IInv, Bounded, Worlds
<1>1. CASE EditFile(c)
  <2>1. disk[c] \in Credentials /\ Stamped(disk[c]) /\ host' = host /\ gone' = gone /\ disk[c] # Absent
    BY <1>1 DEF EditFile, TypedCopies, Stamped
  <2>4. CASE Edit(c, [disk[c] EXCEPT !.disabled = ~@])
    <3>1. PICK v : v = ~disk[c].disabled
      OBVIOUS
    <3>2. Edit(c, [disk[c] EXCEPT !.disabled = v])
      BY <2>4, <3>1, Zenon
    <3>3. v \in BOOLEAN
      BY <3>1
    <3>4. PICK d : d = [disk[c] EXCEPT !.disabled = v]
      OBVIOUS
    <3>5. d \in Credentials
      BY <2>1, <3>3, <3>4, Editing
    <3>6. d.block = disk[c].block /\ d.rev = disk[c].rev
      BY <2>1, <3>4 DEF Credentials
    <3>7. Stamped(d)
      BY <2>1, <3>5, <3>6 DEF Stamped
    <3>8. QED
      BY <2>1, <3>2, <3>4, <3>5, <3>6, <3>7
  <2>5. CASE \E k \in budget.keys : Edit(c, [disk[c] EXCEPT !.key = k])
    <3>1. PICK k \in budget.keys : Edit(c, [disk[c] EXCEPT !.key = k])
      BY <2>5
    <3>4. PICK d : d = [disk[c] EXCEPT !.key = k]
      OBVIOUS
    <3>5. d \in Credentials
      BY <1>0, <2>1, <3>4, Editing
    <3>6. d.block = disk[c].block /\ d.rev = disk[c].rev
      BY <2>1, <3>4 DEF Credentials
    <3>7. Stamped(d)
      BY <2>1, <3>5, <3>6 DEF Stamped
    <3>8. QED
      BY <2>1, <3>1, <3>4, <3>5, <3>6, <3>7
  <2>6. QED
    BY <1>1, <2>4, <2>5 DEF EditFile
<1>2. CASE HostSave(c)
  <2>1. host[c] \in Credentials /\ Stamped(host[c]) /\ host[c] # Absent /\ disk[c] # Absent
    BY <1>2 DEF HostSave, TypedCopies, Stamped
  <2>2. host' = [host EXCEPT ![c] = Absent] /\ gone' = gone
    BY <1>2 DEF HostSave
  <2>3. PICK v : v = (host[c].disabled \/ host[c].block # NoBlock)
    OBVIOUS
  <2>4. PICK d : d = [host[c] EXCEPT !.disabled = v]
    OBVIOUS
  <2>5. Edit(c, d)
    <3>1. Edit(c, [host[c] EXCEPT !.disabled = @ \/ host[c].block # NoBlock])
      BY <1>2 DEF HostSave
    <3>2. QED
      BY <2>3, <2>4, <3>1, Zenon
  <2>6. v \in BOOLEAN
    BY <2>3
  <2>7. d \in Credentials
    BY <2>1, <2>4, <2>6, Editing
  <2>8. d.block = host[c].block /\ d.rev = host[c].rev
    BY <2>1, <2>4 DEF Credentials
  <2>9. Stamped(d)
    BY <2>1, <2>7, <2>8 DEF Stamped
  <2>10. QED
    BY <2>1, <2>2, <2>5, <2>7, <2>8, <2>9
<1>3. CASE RestoreFile(c)
  <2>1. /\ gone[c] \in Credentials /\ Stamped(gone[c]) /\ Edit(c, gone[c]) /\ disk[c] = Absent
        /\ gone[c] # Absent /\ gone' = [gone EXCEPT ![c] = Absent] /\ host' = host
    BY <1>3 DEF RestoreFile, TypedCopies, Stamped
  <2>2. QED
    BY <2>1
<1>4. QED
  BY <1>1, <1>2, <1>3

LEMMA RestTyped ==
  ASSUME IInv, TypedCopies, TypedWork, TypedRest, TypedCalls, [Next]_vars
  PROVE  TypedRest'
<1>0. /\ MaxTime \in Nat /\ clock \in 1..MaxTime /\ budget.time \in 0..MaxTime
      /\ DOMAIN choice = Creds
  BY QuotaAssumption DEF IInv, Bounded, Worlds, Times, TypedRest
<1>1. CASE \/ \E c \in Creds : \/ StartRequest(c) \/ StartUsage(c) \/ PersistOpen(c) \/ SetEnabled(c)
                               \/ UpdateCredential(c) \/ SaveOpen(c)
           \/ \E u \in calls : CallEnds(u) \/ ObserveError(u) \/ ObserveUsage(u)
           \/ SaveQuotaGroup \/ Reconcile \/ Compare \/ PersistFails \/ SaveFails
           \/ UNCHANGED vars
  <2>1. UNCHANGED <<clock, cache, choice, revoked, queued, foreign>>
    BY <1>1 DEF StartRequest, StartUsage, PersistOpen, SetEnabled, UpdateCredential, SaveBegin,
       SaveOpen, CallEnds, ObserveError, ObserveUsage, SaveQuotaGroup, Reconcile, Compare,
       PersistFails, SaveFails, vars, history
  <2>2. QED
    BY <2>1 DEF TypedRest
<1>2. ASSUME NEW u \in calls, UsageAnswer(u) PROVE TypedRest'
  <2>1. /\ UNCHANGED <<clock, choice, revoked, queued, foreign>>
        /\ cache' = cache \/ cache' = [cache EXCEPT ![u.cred] = u.key]
    BY <1>2 DEF UsageAnswer, history
  <2>2. u.key \in Keys
    BY DEF TypedCalls
  <2>3. QED
    BY <2>1, <2>2 DEF TypedRest
<1>3. ASSUME NEW c \in Creds, ParseRead(c) PROVE TypedRest'
  BY <1>3 DEF ParseRead, history, TypedRest
<1>4. CASE PersistWrite
  <2>1. /\ UNCHANGED <<clock, cache, revoked>> /\ file.by = "persist"
        /\ queued' = queued \cup {file.cred} /\ foreign' = foreign \ {file.cred}
        /\ \/ choice' = [choice EXCEPT ![file.cred] = choice[file.cred]]
           \/ choice' = [choice EXCEPT ![file.cred] = file.next.disabled]
    BY <1>4 DEF PersistWrite
  <2>2. file.cred \in Creds /\ file.next.disabled \in BOOLEAN
    BY <2>1, FileTyped
  <2>3. QED
    BY <2>1, <2>2 DEF TypedRest
<1>5. CASE SaveWrite
  <2>1. /\ UNCHANGED <<clock, cache, revoked>> /\ file.by = "save"
        /\ queued' = queued \cup {file.cred} /\ foreign' = foreign \ {file.cred}
        /\ choice' = [choice EXCEPT ![file.cred] = file.next.disabled]
    BY <1>5 DEF SaveWrite
  <2>2. file.cred \in Creds /\ file.next.disabled \in BOOLEAN
    BY <2>1, FileTyped
  <2>3. QED
    BY <2>1, <2>2 DEF TypedRest
<1>6. CASE ParseCommit
  <2>1. /\ UNCHANGED <<clock, cache, choice, queued>> /\ revoked' \subseteq revoked
        /\ foreign' \subseteq foreign
    BY <1>6 DEF ParseCommit
  <2>2. QED
    BY <2>1 DEF TypedRest
<1>7. ASSUME NEW c \in Creds, EditFile(c) \/ HostSave(c) \/ RestoreFile(c) PROVE TypedRest'
  <2>1. PICK d \in Credentials : Edit(c, d)
    BY <1>7, EditTyped
  <2>2. /\ UNCHANGED <<clock, cache, revoked>> /\ queued' = queued \cup {c}
        /\ foreign' \subseteq foreign \cup {c} /\ choice' = [choice EXCEPT ![c] = Manual(d)]
    BY <2>1 DEF Edit
  <2>3. Manual(d) \in BOOLEAN
    BY ManualTyped
  <2>4. QED
    BY <2>2, <2>3 DEF TypedRest
<1>8. ASSUME NEW c \in Creds, DeleteCredential(c) PROVE TypedRest'
  BY <1>8 DEF DeleteCredential, TypedRest
<1>9. CASE Tick
  <2>1. clock' \in 1..MaxTime
    BY <1>0, <1>9 DEF Tick
  <2>2. UNCHANGED <<cache, choice, revoked, queued, foreign>>
    BY <1>9 DEF Tick, history
  <2>3. QED
    BY <2>1, <2>2 DEF TypedRest
<1>10. CASE Restart
  BY <1>10 DEF Restart, TypedRest
<1>11. QED
  BY <1>1, <1>2, <1>3, <1>4, <1>5, <1>6, <1>7, <1>8, <1>9, <1>10
     DEF Next, CallStep, FileStep, Outside

(* The calls in flight. *)
LEMMA CallsKept ==
  ASSUME TypedCalls, budget \in Worlds, calls' \subseteq calls, budget'.calls = budget.calls
  PROVE  TypedCalls'
<1>1. IsFiniteSet(calls') /\ Cardinality(calls') <= Cardinality(calls)
  BY FS_Subset DEF TypedCalls
<1>2. Cardinality(calls) \in Nat /\ Cardinality(calls') \in Nat /\ budget.calls \in Nat
  BY <1>1, FS_CardinalityType DEF TypedCalls, Worlds
<1>3. Cardinality(calls') <= budget'.calls
  BY <1>1, <1>2 DEF TypedCalls
<1>4. QED
  BY <1>1, <1>3 DEF TypedCalls

LEMMA SpentCalls ==
  ASSUME budget \in Worlds
  PROVE  /\ Fault => budget'.calls = budget.calls
         /\ [budget EXCEPT !.saves = @ - 1].calls = budget.calls
         /\ [budget EXCEPT !.edits = @ - 1].calls = budget.calls
         /\ [budget EXCEPT !.crashes = @ - 1].calls = budget.calls
BY DEF Worlds, Fault

LEMMA CallsTyped ==
  ASSUME IInv, TypedCopies, TypedRest, TypedCalls, [Next]_vars
  PROVE  TypedCalls'
<1>0. /\ MaxTime \in Nat \ {0} /\ clock \in Times /\ 0 \in Times
      /\ budget \in Worlds /\ budget.resets \subseteq Times /\ budget.answers \subseteq Answers
  BY QuotaAssumption DEF IInv, Bounded, Worlds, Times, TypedRest
<1>1. CASE /\ calls' \subseteq calls
           /\ \/ budget' = budget \/ Fault
              \/ budget' = [budget EXCEPT !.saves = @ - 1]
              \/ budget' = [budget EXCEPT !.edits = @ - 1]
              \/ budget' = [budget EXCEPT !.crashes = @ - 1]
  BY <1>0, <1>1, SpentCalls, CallsKept
<1>2. ASSUME NEW c \in Creds, StartRequest(c) \/ StartUsage(c) PROVE TypedCalls'
  <2>1. PICK u, v, w : /\ u = Call("request", c) /\ v = [u EXCEPT !.started = 0]
                       /\ w = Call("usage", c)
    OBVIOUS
  <2>2. mem[c].key \in Keys
    BY <1>2 DEF StartRequest, StartUsage, Selectable, Present, TypedCopies, Stamped, Credentials
  <2>3. /\ v.key \in Keys /\ v.started \in Times /\ v.at \in Times /\ v.reset \in Times
        /\ v.answer = Absent
        /\ w.key \in Keys /\ w.started \in Times /\ w.at \in Times /\ w.reset \in Times
        /\ w.answer = Absent
    BY <1>0, <2>1, <2>2 DEF Call
  <2>4. /\ calls' \in {calls \cup {v}, calls \cup {w}} /\ budget' = budget
        /\ Cardinality(calls) < budget.calls
    BY <1>2, <2>1 DEF StartRequest, StartUsage, outside
  <2>5. PICK x \in {v, w} : calls' = calls \cup {x}
    BY <2>4
  <2>6. IsFiniteSet(calls') /\ Cardinality(calls') <= Cardinality(calls) + 1
    <3>1. Cardinality(calls') = IF x \in calls THEN Cardinality(calls) ELSE Cardinality(calls) + 1
      BY <2>5, FS_AddElement DEF TypedCalls
    <3>2. IsFiniteSet(calls') /\ Cardinality(calls) \in Nat
      BY <2>5, FS_AddElement, FS_CardinalityType DEF TypedCalls
    <3>3. QED
      BY <3>1, <3>2
  <2>7. Cardinality(calls') <= budget'.calls
    <3>1. Cardinality(calls) \in Nat /\ Cardinality(calls') \in Nat /\ budget.calls \in Nat
      BY <1>0, <2>6, FS_CardinalityType DEF TypedCalls, Worlds
    <3>2. QED
      BY <2>4, <2>6, <3>1
  <2>8. QED
    BY <2>3, <2>5, <2>6, <2>7 DEF TypedCalls
<1>3. ASSUME NEW u \in calls, UsageAnswer(u) PROVE TypedCalls'
  <2>1. PICK a \in budget.answers, reset \in budget.resets :
          calls' = (calls \ {u}) \cup {[u EXCEPT !.answer = a, !.at = clock, !.reset = reset]}
    BY <1>3 DEF UsageAnswer
  <2>2. PICK v : v = [u EXCEPT !.answer = a, !.at = clock, !.reset = reset]
    OBVIOUS
  <2>3. Asked(u) /\ u.key \in Keys /\ u.started \in Times
    BY DEF IInv, Calling, TypedCalls
  <2>4. /\ v.key \in Keys /\ v.started \in Times /\ v.at \in Times /\ v.reset \in Times
        /\ v.answer \in Answers
    BY <1>0, <2>2, <2>3 DEF Asked
  <2>5. budget' = budget /\ calls' = (calls \ {u}) \cup {v}
    BY <1>3, <2>1, <2>2 DEF UsageAnswer, outside
  <2>6. PICK rest : rest = calls \ {u}
    OBVIOUS
  <2>7. /\ IsFiniteSet(rest) /\ Cardinality(rest) = Cardinality(calls) - 1
        /\ Cardinality(calls) \in Nat
    BY <2>6, FS_RemoveElement, FS_CardinalityType DEF TypedCalls
  <2>8. IsFiniteSet(calls') /\ Cardinality(calls') <= Cardinality(rest) + 1
    <3>1. calls' = rest \cup {v}
      BY <2>5, <2>6
    <3>2. Cardinality(calls') = IF v \in rest THEN Cardinality(rest) ELSE Cardinality(rest) + 1
      BY <2>7, <3>1, FS_AddElement
    <3>3. IsFiniteSet(calls') /\ Cardinality(rest) \in Nat
      BY <2>7, <3>1, FS_AddElement, FS_CardinalityType
    <3>4. QED
      BY <3>2, <3>3
  <2>9. Cardinality(calls') <= budget'.calls
    <3>1. /\ Cardinality(calls') \in Nat /\ Cardinality(rest) \in Nat /\ budget.calls \in Nat
          /\ Cardinality(calls) <= budget.calls
      BY <1>0, <2>7, <2>8, FS_CardinalityType DEF TypedCalls, Worlds
    <3>2. QED
      BY <2>5, <2>7, <2>8, <3>1
  <2>10. QED
    BY <2>4, <2>5, <2>8, <2>9 DEF TypedCalls
<1>4. ASSUME NEW u \in calls, CallEnds(u) \/ ObserveError(u) \/ ObserveUsage(u) PROVE TypedCalls'
  <2>1. calls' \subseteq calls /\ budget' = budget
    BY <1>4 DEF CallEnds, ObserveError, ObserveUsage, outside
  <2>2. QED
    BY <1>1, <2>1
<1>5. CASE SaveQuotaGroup \/ Reconcile \/ FileStep
  <2>1. calls' \subseteq calls /\ (budget' = budget \/ Fault)
    BY <1>5 DEF SaveQuotaGroup, Reconcile, FileStep, Compare, PersistFails, PersistWrite,
       SaveFails, SaveWrite, ParseCommit, FileTrouble, outside
  <2>2. QED
    BY <1>1, <2>1
<1>6. ASSUME NEW c \in Creds, PersistOpen(c) PROVE TypedCalls'
  <2>1. calls' \subseteq calls /\ (budget' = budget \/ Fault)
    BY <1>6, Zenon DEF PersistOpen
  <2>2. QED
    BY <1>1, <2>1
<1>7. ASSUME NEW c \in Creds, SaveOpen(c) \/ ParseRead(c) PROVE TypedCalls'
  <2>1. calls' \subseteq calls /\ (budget' = budget \/ Fault)
    BY <1>7 DEF SaveOpen, ParseRead, outside
  <2>2. QED
    BY <1>1, <2>1
<1>8. ASSUME NEW c \in Creds, SetEnabled(c) \/ UpdateCredential(c) \/ DeleteCredential(c)
      PROVE  TypedCalls'
  <2>1. calls' \subseteq calls /\ budget' = [budget EXCEPT !.saves = @ - 1]
    BY <1>8 DEF SetEnabled, UpdateCredential, SaveBegin, DeleteCredential
  <2>2. QED
    BY <1>1, <2>1
<1>9. CASE Outside
  <2>1. calls' \subseteq calls
    BY <1>9 DEF Outside, EditFile, HostSave, RestoreFile, Edit, Tick, Restart
  <2>2. \/ budget' = budget \/ budget' = [budget EXCEPT !.edits = @ - 1]
        \/ budget' = [budget EXCEPT !.crashes = @ - 1]
    BY <1>9 DEF Outside, EditFile, HostSave, RestoreFile, Edit, Tick, Restart, outside
  <2>3. QED
    BY <1>1, <2>1, <2>2
<1>10. CASE UNCHANGED vars
  BY <1>1, <1>10 DEF vars
<1>11. QED
  BY <1>2, <1>3, <1>4, <1>5, <1>6, <1>7, <1>8, <1>9, <1>10 DEF Next, CallStep

-----------------------------------------------------------------------------
(* Observations *)

(* The members of a group are copies of what memory says. *)
LEMMA GroupTyped ==
  ASSUME IInv, TypedCopies, NEW c \in Creds, Present(c), NEW account
  PROVE  /\ DOMAIN QuotaGroup(c, account) =
              {d \in Creds \ revoked : /\ Present(d)
                 /\ \/ d = c
                    \/ account # {} /\ AccountHash(d, mem[d]) = account}
         /\ \A d \in DOMAIN QuotaGroup(c, account) : LET r == QuotaGroup(c, account)[d] IN
              /\ d \in Creds /\ Present(d)
              /\ r \in Credentials /\ Keyed(r) /\ Kept(mem[d], r)
<1> DEFINE members == {d \in Creds \ revoked : /\ Present(d)
                         /\ \/ d = c
                            \/ account # {} /\ AccountHash(d, mem[d]) = account}
           Member(d) == LET r == Normalize(mem[d]) IN
                        IF account = {} THEN r ELSE [r EXCEPT !.ident = r.key]
<1>1. QuotaGroup(c, account) = [d \in members |-> Member(d)]
  BY DEF QuotaGroup
<1>2. ASSUME NEW d \in members
      PROVE  /\ d \in Creds /\ Present(d)
             /\ Member(d) \in Credentials /\ Keyed(Member(d)) /\ Kept(mem[d], Member(d))
  <2>1. mem[d] \in Credentials /\ d \in Creds /\ Present(d)
    BY DEF TypedCopies, Stamped, Present
  <2>2. PICK n : n = Normalize(mem[d])
    OBVIOUS
  <2>3. n \in Credentials /\ Keyed(n) /\ Kept(mem[d], n)
    BY <2>1, <2>2, NormalTyped
  <2>4. PICK m : m = Member(d)
    OBVIOUS
  <2>5. m \in {n, [n EXCEPT !.ident = n.key]}
    BY <2>2, <2>4
  <2>6. /\ m \in Credentials /\ m.key = n.key /\ m.block = n.block /\ m.rev = n.rev
    <3>1. n.key \in Keys
      BY <2>3 DEF Credentials
    <3>2. QED
      BY <2>3, <2>5, <3>1 DEF Credentials
  <2>7. Keyed(m) /\ Kept(mem[d], m)
    <3>1. Cores(m) = Cores(n)
      BY <2>6 DEF Cores
    <3>2. QED
      BY <2>3, <2>6, <3>1 DEF Keyed, Kept
  <2>8. QED
    BY <2>1, <2>4, <2>6, <2>7
<1> HIDE DEF Member
<1>3. QED
  BY <1>1, <1>2

(* What a member's block recorded is in its core. *)
LEMMA KeptCore ==
  ASSUME NEW m \in Credentials, NEW r \in Credentials, Kept(m, r),
         NEW o, Records(m.block, o), o.key = m.key
  PROVE  \E x \in Cores(r) : /\ o.observed <= x.observed
                             /\ \A t \in DOMAIN o.limits : t \in DOMAIN x.limits
                                                          /\ o.limits[t] <= x.limits[t]
<1>1. PICK x : x = Core(r.block)
  OBVIOUS
<1>2. /\ r.block # NoBlock /\ r.block.observed = m.block.observed
      /\ r.block.limits = m.block.limits
  BY DEF Kept, Records
<1>3. x \in Cores(r) /\ x.observed = m.block.observed /\ x.limits = m.block.limits
  BY <1>1, <1>2 DEF Cores, Core
<1>4. QED
  BY <1>3 DEF Records

(* A block merged from a part that says what o says records o. *)
LEMMA MergeRecords ==
  ASSUME NEW r, NEW o, o.key = r.key, o \in Exhaustions,
         NEW m \in Blocks, m.key = r.key,
         NEW x, IsCore(x), x.observed <= m.observed,
         \A t \in DOMAIN x.limits : t \in DOMAIN m.limits /\ x.limits[t] <= m.limits[t],
         o.observed <= x.observed,
         \A t \in DOMAIN o.limits : t \in DOMAIN x.limits /\ o.limits[t] <= x.limits[t]
  PROVE  Records(m, o)
<1>1. m # NoBlock /\ m.observed \in Nat /\ m.limits \in Limits /\ MaxTime \in Nat
  BY BlockFields, QuotaAssumption DEF Times
<1>2. o.observed \in Nat /\ o.limits \in Limits /\ x.observed \in Nat /\ x.limits \in Limits
  BY <1>1 DEF Exhaustions, IsCore, Times
<1>3. o.observed <= m.observed
  BY <1>1, <1>2
<1>4. ASSUME NEW t \in DOMAIN o.limits PROVE t \in DOMAIN m.limits /\ o.limits[t] <= m.limits[t]
  <2>1. t \in DOMAIN x.limits /\ t \in DOMAIN m.limits
    OBVIOUS
  <2>2. o.limits[t] \in Nat /\ x.limits[t] \in Nat /\ m.limits[t] \in Nat
    BY <1>1, <1>2, <2>1, LimitFields DEF Times
  <2>3. o.limits[t] <= x.limits[t] /\ x.limits[t] <= m.limits[t]
    BY <2>1
  <2>4. QED
    BY <2>1, <2>2, <2>3
<1>5. QED
  BY <1>1, <1>3, <1>4 DEF Records

(* A verified credential's account is that of its key. *)
LEMMA VerifiedHash ==
  ASSUME NEW f \in Creds, mem[f] \in Credentials, Verified(f)
  PROVE  AccountHash(f, mem[f]) = {AccountOf[mem[f].key]}
<1>1. PICK n : n = Normalize(mem[f])
  OBVIOUS
<1>2. n.ident = (IF mem[f].ident = mem[f].key THEN mem[f].ident ELSE NoKey)
  BY <1>1, NormalTyped
<1>3. mem[f].key # NoKey
  BY QuotaAssumption DEF Credentials
<1>4. QED
  BY <1>1, <1>2, <1>3 DEF AccountHash, Verified

(* What is about to be published concerns members of the group only. *)
LEMMA NewsTyped ==
  ASSUME IInv, TypedCopies, NEW c \in Creds, Present(c), mem[c].key \in Keys,
         NEW account, account = {AccountOf[mem[c].key]} \/ account = AccountHash(c, mem[c]),
         NEW e, e.observed \in Times, e.limits \in Limits,
         NEW d \in Creds, Exhausting(c, e)[d] # Absent
  PROVE  LET o == Exhausting(c, e)[d] IN
         /\ d \in DOMAIN QuotaGroup(c, account) /\ o \in Exhaustions
         /\ o.key = mem[d].key /\ o.observed = e.observed /\ o.limits = e.limits
<1>1. d \in Concerned(c)
  BY DEF Exhausting
<1>2. PICK o : o = Exhausting(c, e)[d]
  OBVIOUS
<1>3. o = [key |-> mem[d].key, observed |-> e.observed, limits |-> e.limits]
  BY <1>1, <1>2 DEF Exhausting
<1>4. Present(d) /\ d \in Creds \ revoked
  BY <1>1 DEF Concerned
<1>5. mem[d] \in Credentials /\ mem[c] \in Credentials
  BY <1>4 DEF TypedCopies, Stamped, Present
<1>6. o \in Exhaustions
  BY <1>3, <1>5 DEF Exhaustions, Credentials
<1>7. d = c \/ (account # {} /\ AccountHash(d, mem[d]) = account)
  <2>1. CASE d = c
    BY <2>1
  <2>2. CASE d # c
    <3>1. Verified(c) /\ Verified(d) /\ AccountOf[mem[d].key] = AccountOf[mem[c].key]
      BY <1>1, <2>2 DEF Concerned
    <3>2. AccountHash(d, mem[d]) = {AccountOf[mem[d].key]}
      BY <1>5, <3>1, VerifiedHash
    <3>3. AccountHash(c, mem[c]) = {AccountOf[mem[c].key]}
      BY <1>5, <3>1, VerifiedHash
    <3>4. QED
      BY <3>1, <3>2, <3>3
  <2>3. QED
    BY <2>1, <2>2
<1>8. d \in DOMAIN QuotaGroup(c, account)
  BY <1>4, <1>7, GroupTyped
<1>9. QED
  BY <1>2, <1>3, <1>6, <1>8

(* A check that is enough to drop a block is evidence against every exhaustion
   the block records. *)
LEMMA RoomIsEvidence ==
  ASSUME NEW b \in Blocks, NEW o \in Exhaustions, Records(b, o), NEW u,
         u.started \in Times, HasRoom(b, u.answer, u.started)
  PROVE  Evidence(u, o)
<1>0. MaxTime \in Nat /\ "quota" \notin Windows
  BY QuotaAssumption
<1>1. b.observed \in Nat /\ b.limits \in Limits /\ o.observed \in Nat /\ o.limits \in Limits
      /\ u.started \in Nat
  BY <1>0, BlockFields DEF Exhaustions, Times
<1>2. /\ DOMAIN b.limits \subseteq Types /\ DOMAIN b.limits # {}
      /\ \A t \in DOMAIN b.limits : b.limits[t] \in Nat
      /\ \A t \in DOMAIN o.limits : o.limits[t] \in Nat
  BY <1>0, <1>1, LimitFields DEF Times
<1>3. PICK roomy, named : /\ roomy = {w \in Windows : u.answer.seen[w] = "room"}
                          /\ named = DOMAIN o.limits \ {"quota"}
  OBVIOUS
<1>4. u.answer.plan /\ o.observed < u.started
  BY <1>1 DEF HasRoom, Records
<1>5. named \subseteq roomy
  BY <1>2, <1>3 DEF HasRoom, Records, Types
<1>6. roomy # {}
  <2>1. PICK t \in DOMAIN b.limits : t \in Types
    BY <1>2
  <2>2. CASE t = "quota"
    BY <1>3, <2>1, <2>2 DEF HasRoom
  <2>3. CASE t # "quota"
    BY <1>3, <2>1, <2>3 DEF HasRoom, Types
  <2>4. QED
    BY <2>2, <2>3
<1>7. ASSUME NEW t \in DOMAIN o.limits PROVE o.limits[t] <= u.started
  <2>1. t \in DOMAIN b.limits /\ o.limits[t] <= b.limits[t]
    BY DEF Records
  <2>2. b.limits[t] <= u.started
    BY <2>1 DEF HasRoom
  <2>3. QED
    BY <1>1, <1>2, <2>1, <2>2
<1>8. QED
  BY <1>3, <1>4, <1>5, <1>6, <1>7 DEF Evidence

(* What observeQuotaUsage hands to saveQuotaGroup, part by part. *)
UsageParts(u, account, group, full, e, cores, n) ==
  /\ account = (IF cache[u.cred] = u.key THEN {AccountOf[u.key]}
                ELSE AccountHash(u.cred, mem[u.cred]))
  /\ group = QuotaGroup(u.cred, account)
  /\ full = {w \in Windows : u.answer.seen[w] = "full"}
  /\ e = (IF full = {} THEN {}
          ELSE {[observed |-> u.at, limits |-> [w \in full |-> u.reset],
                 accounts |-> {AccountOf[u.key]}]})
  /\ cores = (UNION {Cores(group[c]) : c \in DOMAIN group}) \cup e
  /\ n = [c \in DOMAIN group |-> [group[c] EXCEPT !.block =
           LET b == MergeBlocks(group[c], cores)
           IN IF full = {} /\ b # NoBlock /\ HasRoom(b, u.answer, u.started)
              THEN NoBlock ELSE b]]
  /\ guard' = [op |-> "publish", base |-> Absent, next |-> n]
  /\ IF full = {} THEN owed' = ClearedBy(u) /\ news' = news
     ELSE owed' = owed /\ \E x \in e : news' = Exhausting(u.cred, x)

LEMMA UsageShape ==
  ASSUME NEW u, ObserveUsage(u), Current(u)
  PROVE  \E account, group, full, e, cores, n : UsageParts(u, account, group, full, e, cores, n)
<1>a. PICK account : account = (IF cache[u.cred] = u.key THEN {AccountOf[u.key]}
                                ELSE AccountHash(u.cred, mem[u.cred]))
  OBVIOUS
<1>b. PICK group : group = QuotaGroup(u.cred, account)
  OBVIOUS
<1>c. PICK full : full = {w \in Windows : u.answer.seen[w] = "full"}
  OBVIOUS
<1>d. PICK e : e = (IF full = {} THEN {}
                    ELSE {[observed |-> u.at, limits |-> [w \in full |-> u.reset],
                           accounts |-> {AccountOf[u.key]}]})
  OBVIOUS
<1>e. PICK cores : cores = (UNION {Cores(group[c]) : c \in DOMAIN group}) \cup e
  OBVIOUS
<1>f. PICK n : n = [c \in DOMAIN group |-> [group[c] EXCEPT !.block =
                 LET b == MergeBlocks(group[c], cores)
                 IN IF full = {} /\ b # NoBlock /\ HasRoom(b, u.answer, u.started)
                    THEN NoBlock ELSE b]]
  OBVIOUS
<1>1. LET a == IF cache[u.cred] = u.key THEN {AccountOf[u.key]}
               ELSE AccountHash(u.cred, mem[u.cred])
          g == QuotaGroup(u.cred, a)
          f == {w \in Windows : u.answer.seen[w] = "full"}
          x == IF f = {} THEN {}
               ELSE {[observed |-> u.at, limits |-> [w \in f |-> u.reset],
                      accounts |-> {AccountOf[u.key]}]}
          k == (UNION {Cores(g[c]) : c \in DOMAIN g}) \cup x
      IN /\ guard' = [op |-> "publish", base |-> Absent, next |->
                       [c \in DOMAIN g |-> [g[c] EXCEPT !.block =
                         LET b == MergeBlocks(g[c], k)
                         IN IF f = {} /\ b # NoBlock /\ HasRoom(b, u.answer, u.started)
                            THEN NoBlock ELSE b]]]
         /\ IF f = {} THEN owed' = ClearedBy(u) /\ news' = news
            ELSE owed' = owed /\ \E y \in x : news' = Exhausting(u.cred, y)
  BY ZenonT(30) DEF ObserveUsage
<1>2. LET g == QuotaGroup(u.cred, account)
          f == {w \in Windows : u.answer.seen[w] = "full"}
          x == IF f = {} THEN {}
               ELSE {[observed |-> u.at, limits |-> [w \in f |-> u.reset],
                      accounts |-> {AccountOf[u.key]}]}
          k == (UNION {Cores(g[c]) : c \in DOMAIN g}) \cup x
      IN guard' = [op |-> "publish", base |-> Absent, next |->
                    [c \in DOMAIN g |-> [g[c] EXCEPT !.block =
                      LET b == MergeBlocks(g[c], k)
                      IN IF f = {} /\ b # NoBlock /\ HasRoom(b, u.answer, u.started)
                         THEN NoBlock ELSE b]]]
  BY <1>1, <1>a
<1>3. LET k == (UNION {Cores(group[c]) : c \in DOMAIN group}) \cup e
      IN guard' = [op |-> "publish", base |-> Absent, next |->
                    [c \in DOMAIN group |-> [group[c] EXCEPT !.block =
                      LET b == MergeBlocks(group[c], k)
                      IN IF full = {} /\ b # NoBlock /\ HasRoom(b, u.answer, u.started)
                         THEN NoBlock ELSE b]]]
  BY <1>2, <1>b, <1>c, <1>d
<1>4. guard' = [op |-> "publish", base |-> Absent, next |-> n]
  BY <1>3, <1>e, <1>f
<1>5. LET f == {w \in Windows : u.answer.seen[w] = "full"}
          x == IF f = {} THEN {}
               ELSE {[observed |-> u.at, limits |-> [w \in f |-> u.reset],
                      accounts |-> {AccountOf[u.key]}]}
      IN IF f = {} THEN owed' = ClearedBy(u) /\ news' = news
         ELSE owed' = owed /\ \E y \in x : news' = Exhausting(u.cred, y)
  BY <1>1, Zenon
<1>6. IF full = {} THEN owed' = ClearedBy(u) /\ news' = news
      ELSE owed' = owed /\ \E y \in e : news' = Exhausting(u.cred, y)
  BY <1>5, <1>c, <1>d
<1>7. UsageParts(u, account, group, full, e, cores, n)
  BY <1>a, <1>b, <1>c, <1>d, <1>e, <1>f, <1>4, <1>6 DEF UsageParts
<1>8. QED
  BY <1>7

LEMMA MemberNext ==
  ASSUME NEW r \in Credentials, NEW b \in Blocks \cup {NoBlock}, b # NoBlock => b.key = r.key,
         NEW n, n = [r EXCEPT !.block = b]
  PROVE  n \in Credentials /\ Keyed(n) /\ n.key = r.key /\ n.block = b /\ n.rev = r.rev
<1>1. n \in Credentials
  BY Editing
<1>2. n.key = r.key /\ n.block = b /\ n.rev = r.rev
  BY DEF Credentials
<1>3. QED
  BY <1>1, <1>2 DEF Keyed

LEMMA PublishRest ==
  ASSUME IInv, Resting, UNCHANGED <<mem, disk, host, gone, file>>, guard = IdleGuard,
         NEW n, guard' = [op |-> "publish", base |-> Absent, next |-> n],
         \A c \in DOMAIN n : /\ c \in Creds /\ Present(c) /\ n[c] \in Credentials /\ Keyed(n[c])
                             /\ n[c].key = mem[c].key,
         \A c \in Creds : owed'[c] # Absent =>
           owed'[c] = owed[c] /\ (c \in DOMAIN n => Records(n[c].block, owed[c])),
         \A c \in Creds : news'[c] # Absent =>
           c \in DOMAIN n /\ n[c].key = news'[c].key /\ Records(n[c].block, news'[c])
  PROVE  Resting'
<1>1. guard'.op = "publish" /\ guard'.next = n
  OBVIOUS
<1>2. \A c \in Creds : owed'[c] # Absent => owed'[c] = owed[c] /\ Carried(c, owed[c])'
  BY <1>1 DEF Carried
<1>3. NewsIsCarried'
  <2>1. ASSUME NEW c \in Creds, news'[c] # Absent
        PROVE  /\ guard'.op = "publish" /\ c \in DOMAIN guard'.next
               /\ guard'.next[c].key = news'[c].key /\ Records(guard'.next[c].block, news'[c])
    BY <1>1, <2>1
  <2>2. QED
    BY <2>1 DEF NewsIsCarried, Records
<1>4. \A c \in DOMAIN guard'.next :
        /\ guard'.next[c] \in Credentials /\ Keyed(guard'.next[c]) /\ Present(c)
        /\ guard'.op = "save" => Stamped(guard'.next[c]) /\ guard'.base \in Credentials
  BY <1>1
<1>5. guard'.op # "save"
  BY <1>1
<1>6. QED
  BY <1>2, <1>3, <1>4, <1>5, GuardRest

(* The block merged for a member of the group records what the member owes. *)
LEMMA OwedIsMerged ==
  ASSUME Resting, TypedHistory, NEW c \in Creds, Present(c), owed[c] # Absent,
         NEW r \in Credentials, Kept(mem[c], r),
         NEW cores, Cores(r) \subseteq cores, \A x \in cores : IsCore(x)
  PROVE  LET m == MergeBlocks(r, cores) IN
         m \in Blocks /\ m.key = r.key /\ Records(m, owed[c])
<1>1. PICK o, m : o = owed[c] /\ m = MergeBlocks(r, cores)
  OBVIOUS
<1>2. /\ o \in Exhaustions /\ o.key = mem[c].key /\ Records(mem[c].block, o)
      /\ mem[c] \in Credentials
  BY <1>1 DEF Resting, PInv, OwedIsRecorded, Covered, InForce, TypedHistory, TypedCopies, Stamped,
     Present
<1>3. PICK x \in Cores(r) :
        /\ o.observed <= x.observed
        /\ \A t \in DOMAIN o.limits : t \in DOMAIN x.limits /\ o.limits[t] <= x.limits[t]
  BY <1>2, KeptCore
<1>4. r.key \in Keys /\ r.disabled \in BOOLEAN
  BY DEF Credentials
<1>5. x \in cores /\ IsCore(x)
  BY <1>3
<1>6. /\ m \in Blocks /\ m.key = r.key
      /\ x.observed <= m.observed
      /\ \A t \in DOMAIN x.limits : t \in DOMAIN m.limits /\ x.limits[t] <= m.limits[t]
  BY <1>1, <1>4, <1>5, MergeTyped
<1>7. o.key = r.key
  BY <1>2 DEF Kept
<1>8. Records(m, o)
  BY <1>2, <1>3, <1>5, <1>6, <1>7, MergeRecords
<1>9. QED
  BY <1>1, <1>6, <1>8

LEMMA ErrorRest ==
  ASSUME IInv, TInv, PInv, NEW u \in calls, ObserveError(u)
  PROVE  Resting' /\ TypedHistory'
<1>0. /\ Resting /\ TypedHistory /\ UNCHANGED <<mem, disk, host, gone, file, owed>>
      /\ guard = IdleGuard
  BY DEF TInv, Resting, ObserveError, outside
<1>1. CASE ~Current(u)
  <2>1. UNCHANGED <<guard, news>>
    BY <1>1 DEF ObserveError
  <2>2. QED
    BY <1>0, <2>1, QuietRest DEF TypedHistory
<1>2. CASE Current(u)
  <2>1. PICK group : group = QuotaGroup(u.cred, AccountHash(u.cred, mem[u.cred]))
    OBVIOUS
  <2>2. PICK t \in ErrorTypes, reset \in budget.resets :
          LET e == [observed |-> clock, limits |-> [x \in {t} |-> reset], accounts |-> {AccountOf[u.key]}]
          IN /\ guard' = [op |-> "publish", base |-> Absent, next |->
                           [c \in DOMAIN group |->
                            [group[c] EXCEPT !.block = MergeBlocks(group[c], Cores(group[c]) \cup {e})]]]
             /\ news' = Exhausting(u.cred, e)
    BY <1>2, <2>1 DEF ObserveError
  <2>3. PICK e : e = [observed |-> clock, limits |-> [x \in {t} |-> reset], accounts |-> {AccountOf[u.key]}]
    OBVIOUS
  <2>4. PICK n : n = [c \in DOMAIN group |->
                  [group[c] EXCEPT !.block = MergeBlocks(group[c], Cores(group[c]) \cup {e})]]
    OBVIOUS
  <2>5. /\ guard' = [op |-> "publish", base |-> Absent, next |-> n]
        /\ news' = Exhausting(u.cred, e)
    BY <2>2, <2>3, <2>4
  <2>6. u.cred \in Creds /\ Present(u.cred) /\ mem[u.cred].key = u.key /\ u.key \in Keys
    BY <1>2, CurrentIsKnown DEF TInv, TypedCalls
  <2>7. IsCore(e) /\ e.observed = clock
    <3>1. clock \in Times /\ reset \in Times /\ t \in Types /\ AccountOf[u.key] \in Accounts
      BY <2>6, QuotaAssumption DEF TInv, TypedRest, Times, IInv, Bounded, Worlds
    <3>2. [x \in {t} |-> reset] \in [{t} -> Times]
      BY <3>1
    <3>3. [x \in {t} |-> reset] \in Limits
      BY <3>1, <3>2 DEF Limits
    <3>4. QED
      BY <2>3, <3>1, <3>3 DEF IsCore
  <2>8. \A c \in DOMAIN group :
          /\ c \in Creds /\ Present(c)
          /\ group[c] \in Credentials /\ Keyed(group[c]) /\ Kept(mem[c], group[c])
    BY <1>0, <2>1, <2>6, GroupTyped DEF Resting
  <2>9. ASSUME NEW c \in DOMAIN group
        PROVE  LET r == group[c]
                   m == MergeBlocks(r, Cores(r) \cup {e}) IN
               /\ m \in Blocks /\ m.key = r.key /\ m # NoBlock
               /\ e.observed <= m.observed
               /\ \A w \in DOMAIN e.limits : w \in DOMAIN m.limits /\ e.limits[w] <= m.limits[w]
               /\ n[c] \in Credentials /\ Keyed(n[c]) /\ n[c].key = mem[c].key /\ n[c].block = m
               /\ owed[c] # Absent => Records(m, owed[c])
    <3>1. PICK r, m : r = group[c] /\ m = MergeBlocks(r, Cores(r) \cup {e})
      OBVIOUS
    <3>2. r \in Credentials /\ Kept(mem[c], r) /\ c \in Creds /\ Present(c)
      BY <2>8, <3>1
    <3>3. \A x \in Cores(r) \cup {e} : IsCore(x)
      BY <2>7, <3>2, CoreTyped
    <3>4. r.key \in Keys /\ r.disabled \in BOOLEAN /\ r.key = mem[c].key
      BY <3>2 DEF Credentials, Kept
    <3>5. /\ m \in Blocks /\ m.key = r.key
          /\ e.observed <= m.observed
          /\ \A w \in DOMAIN e.limits : w \in DOMAIN m.limits /\ e.limits[w] <= m.limits[w]
      BY <3>1, <3>3, <3>4, MergeTyped
    <3>6. n[c] = [r EXCEPT !.block = m]
      BY <2>4, <3>1
    <3>7. /\ n[c] \in Credentials /\ Keyed(n[c]) /\ n[c].key = r.key /\ n[c].block = m
      BY <3>2, <3>5, <3>6, MemberNext
    <3>8. owed[c] # Absent => Records(m, owed[c])
      BY <1>0, <3>1, <3>2, <3>3, OwedIsMerged
    <3>9. m # NoBlock
      BY <3>5, BlockFields
    <3>10. QED
      BY <3>1, <3>4, <3>5, <3>7, <3>8, <3>9
  <2>10. ASSUME NEW c \in Creds, news'[c] # Absent
         PROVE  /\ c \in DOMAIN n /\ n[c].key = news'[c].key /\ Records(n[c].block, news'[c])
                /\ news'[c] \in Exhaustions
    <3>1. PICK o : o = news'[c]
      OBVIOUS
    <3>2. /\ c \in DOMAIN group /\ o \in Exhaustions /\ o.key = mem[c].key
          /\ o.observed = e.observed /\ o.limits = e.limits
      BY <1>0, <2>1, <2>5, <2>6, <2>7, <2>10, <3>1, NewsTyped DEF IsCore, Resting
    <3>3. PICK m : m = MergeBlocks(group[c], Cores(group[c]) \cup {e})
      OBVIOUS
    <3>4. /\ m \in Blocks /\ m.key = group[c].key /\ e.observed <= m.observed
          /\ \A w \in DOMAIN e.limits : w \in DOMAIN m.limits /\ e.limits[w] <= m.limits[w]
          /\ n[c].key = mem[c].key /\ n[c].block = m /\ group[c].key = mem[c].key
      BY <2>8, <2>9, <3>2, <3>3 DEF Kept
    <3>5. o.observed <= e.observed /\ \A w \in DOMAIN o.limits : o.limits[w] <= e.limits[w]
      <4>1. e.observed \in Nat /\ e.limits \in Limits /\ MaxTime \in Nat
        BY <2>7, QuotaAssumption DEF IsCore, Times
      <4>2. \A w \in DOMAIN e.limits : e.limits[w] \in Nat
        BY <4>1, LimitFields DEF Times
      <4>3. QED
        BY <3>2, <4>1, <4>2
    <3>6. Records(m, o)
      BY <2>7, <3>2, <3>4, <3>5, MergeRecords
    <3>7. QED
      BY <2>4, <3>1, <3>2, <3>4, <3>6
  <2>11. Resting'
    <3>1. \A c \in DOMAIN n : /\ c \in Creds /\ Present(c) /\ n[c] \in Credentials /\ Keyed(n[c])
                              /\ n[c].key = mem[c].key
      BY <2>4, <2>8, <2>9
    <3>2. \A c \in Creds : owed'[c] # Absent =>
            owed'[c] = owed[c] /\ (c \in DOMAIN n => Records(n[c].block, owed[c]))
      BY <1>0, <2>4, <2>9
    <3>3. \A c \in Creds : news'[c] # Absent =>
            c \in DOMAIN n /\ n[c].key = news'[c].key /\ Records(n[c].block, news'[c])
      BY <2>10
    <3>4. QED
      BY <1>0, <2>5, <3>1, <3>2, <3>3, PublishRest
  <2>12. TypedHistory'
    <3>1. DOMAIN news' = Creds
      BY <2>5 DEF Exhausting
    <3>2. QED
      BY <1>0, <2>10, <3>1 DEF TypedHistory
  <2>13. QED
    BY <2>11, <2>12
<1>3. QED
  BY <1>1, <1>2

LEMMA UsageRest ==
  ASSUME IInv, TInv, PInv, NEW u \in calls, ObserveUsage(u)
  PROVE  Resting' /\ TypedHistory'
<1>0. /\ Resting /\ TypedHistory /\ UNCHANGED <<mem, disk, host, gone, file>>
      /\ guard = IdleGuard
  BY DEF TInv, Resting, ObserveUsage, outside
<1>1. CASE ~Current(u)
  <2>1. UNCHANGED <<guard, owed, news>>
    BY <1>1, Zenon DEF ObserveUsage
  <2>2. QED
    BY <1>0, <2>1, QuietRest DEF TypedHistory
<1>2. CASE Current(u)
  <2>1. PICK account, group, full, e, cores, n : UsageParts(u, account, group, full, e, cores, n)
    BY <1>2, UsageShape
  <2>2. group = QuotaGroup(u.cred, account) /\ guard' = [op |-> "publish", base |-> Absent, next |-> n]
    BY <2>1 DEF UsageParts
  <2>3. u.cred \in Creds /\ Present(u.cred) /\ mem[u.cred].key = u.key /\ u.key \in Keys
    BY <1>2, CurrentIsKnown DEF TInv, TypedCalls
  <2>4. account = {AccountOf[mem[u.cred].key]} \/ account = AccountHash(u.cred, mem[u.cred])
    BY <2>1, <2>3 DEF UsageParts
  <2>5. /\ u.started \in Times /\ u.at \in Times /\ u.reset \in Times
        /\ AccountOf[u.key] \in Accounts
    BY <2>3, QuotaAssumption DEF TInv, TypedCalls
  <2>6. ASSUME NEW x \in e
        PROVE  IsCore(x) /\ x.observed \in Times /\ x.limits \in Limits
    <3>1. full # {} /\ full \subseteq Windows
      BY <2>1 DEF UsageParts
    <3>2. x = [observed |-> u.at, limits |-> [w \in full |-> u.reset], accounts |-> {AccountOf[u.key]}]
      BY <2>1, <3>1 DEF UsageParts
    <3>3. [w \in full |-> u.reset] \in [full -> Times] /\ full \subseteq Types
      BY <2>5, <3>1 DEF Types
    <3>4. [w \in full |-> u.reset] \in Limits
      BY <3>1, <3>3 DEF Limits
    <3>5. QED
      BY <2>5, <3>2, <3>4 DEF IsCore
  <2>7. \A c \in DOMAIN group :
          /\ c \in Creds /\ Present(c)
          /\ group[c] \in Credentials /\ Keyed(group[c]) /\ Kept(mem[c], group[c])
    BY <1>0, <2>2, <2>3, GroupTyped DEF Resting
  <2>8. \A x \in cores : IsCore(x)
    <3>1. ASSUME NEW x \in cores, x \notin e PROVE IsCore(x)
      <4>1. PICK c \in DOMAIN group : x \in Cores(group[c])
        BY <2>1, <3>1 DEF UsageParts
      <4>2. QED
        BY <2>7, <4>1, CoreTyped
    <3>2. QED
      BY <2>6, <3>1
  <2>9. \A c \in DOMAIN group : Cores(group[c]) \subseteq cores
    BY <2>1 DEF UsageParts
  <2>10. e \subseteq cores
    BY <2>1 DEF UsageParts
  <2>11. \A c \in Creds : owed'[c] # Absent => owed'[c] = owed[c]
    BY <2>1, <1>0 DEF UsageParts, ClearedBy, TypedHistory
  <2>12. ASSUME NEW c \in DOMAIN group
         PROVE  LET r == group[c]
                    m == MergeBlocks(r, cores) IN
                /\ n[c] \in Credentials /\ Keyed(n[c]) /\ n[c].key = mem[c].key
                /\ owed'[c] # Absent => Records(n[c].block, owed[c])
                /\ \A x \in e : /\ n[c].block = m /\ m \in Blocks /\ m.key = mem[c].key
                                /\ x.observed <= m.observed
                                /\ \A w \in DOMAIN x.limits : /\ w \in DOMAIN m.limits
                                                              /\ x.limits[w] <= m.limits[w]
    <3>1. PICK r, m : r = group[c] /\ m = MergeBlocks(r, cores)
      OBVIOUS
    <3>2. r \in Credentials /\ Kept(mem[c], r) /\ c \in Creds /\ Present(c)
      BY <2>7, <3>1
    <3>3. r.key \in Keys /\ r.disabled \in BOOLEAN /\ r.key = mem[c].key
      BY <3>2 DEF Credentials, Kept
    <3>4. cores # {} => /\ m \in Blocks /\ m.key = r.key
                        /\ \A x \in cores :
                             /\ x.observed <= m.observed
                             /\ \A w \in DOMAIN x.limits : /\ w \in DOMAIN m.limits
                                                           /\ x.limits[w] <= m.limits[w]
      BY <2>8, <3>1, <3>3, MergeTyped
    <3>5. m \in Blocks \cup {NoBlock} /\ (m # NoBlock => m.key = r.key)
      <4>1. CASE cores = {}
        BY <3>1, <4>1 DEF MergeBlocks
      <4>2. CASE cores # {}
        BY <3>4, <4>2
      <4>3. QED
        BY <4>1, <4>2
    <3>6. PICK b : b = (IF full = {} /\ m # NoBlock /\ HasRoom(m, u.answer, u.started)
                        THEN NoBlock ELSE m)
      OBVIOUS
    <3>7. n[c] = [r EXCEPT !.block = b]
      <4>1. n = [d \in DOMAIN group |-> [group[d] EXCEPT !.block =
                   LET k == MergeBlocks(group[d], cores)
                   IN IF full = {} /\ k # NoBlock /\ HasRoom(k, u.answer, u.started)
                      THEN NoBlock ELSE k]]
        BY <2>1 DEF UsageParts
      <4>2. n[c] = [group[c] EXCEPT !.block =
                      LET k == MergeBlocks(group[c], cores)
                      IN IF full = {} /\ k # NoBlock /\ HasRoom(k, u.answer, u.started)
                         THEN NoBlock ELSE k]
        BY <4>1
      <4>3. QED
        BY <3>1, <3>6, <4>2
    <3>8. b \in Blocks \cup {NoBlock} /\ (b # NoBlock => b.key = r.key)
      BY <3>5, <3>6
    <3>9. n[c] \in Credentials /\ Keyed(n[c]) /\ n[c].key = r.key /\ n[c].block = b
      BY <3>2, <3>7, <3>8, MemberNext
    <3>10. ASSUME owed'[c] # Absent PROVE Records(b, owed[c])
      <4>1. owed[c] # Absent /\ owed'[c] = owed[c]
        BY <2>11, <3>2, <3>10
      <4>2. m \in Blocks /\ m.key = r.key /\ Records(m, owed[c])
        BY <1>0, <2>8, <2>9, <3>1, <3>2, <4>1, OwedIsMerged
      <4>3. CASE full = {} /\ HasRoom(m, u.answer, u.started)
        <5>1. owed[c] \in Exhaustions
          BY <1>0, <3>2, <4>1 DEF TypedHistory
        <5>2. Evidence(u, owed[c])
          BY <2>5, <4>2, <4>3, <5>1, RoomIsEvidence
        <5>3. owed' = ClearedBy(u)
          BY <2>1, <4>3 DEF UsageParts
        <5>4. AccountOf[owed[c].key] = AccountOf[u.key]
          <6>1. owed[c].key = mem[c].key
            BY <1>0, <3>2, <4>1 DEF Resting, PInv, OwedIsRecorded, Covered, InForce
          <6>2. AccountOf[group[c].key] = AccountOf[mem[u.cred].key]
            <7>1. account \in {{}, {AccountOf[mem[u.cred].key]}}
              BY <2>3, <2>4, HashIsOwn
            <7>2. QED
              BY <2>2, <2>3, <7>1, Grouping
          <6>3. QED
            BY <2>3, <3>1, <3>3, <6>1, <6>2
        <5>5. owed'[c] = Absent
          BY <3>2, <4>1, <5>2, <5>3, <5>4 DEF ClearedBy
        <5>6. QED
          BY <3>10, <5>5
      <4>4. CASE ~(full = {} /\ HasRoom(m, u.answer, u.started))
        BY <3>6, <4>2, <4>4
      <4>5. QED
        BY <4>3, <4>4
    <3>11. ASSUME NEW x \in e
           PROVE  /\ b = m /\ m \in Blocks /\ m.key = mem[c].key
                  /\ x.observed <= m.observed
                  /\ \A w \in DOMAIN x.limits : w \in DOMAIN m.limits /\ x.limits[w] <= m.limits[w]
      <4>1. full # {}
        BY <2>1 DEF UsageParts
      <4>2. QED
        BY <2>10, <3>3, <3>4, <3>6, <4>1
    <3>12. QED
      BY <3>1, <3>3, <3>9, <3>10, <3>11
  <2>13. ASSUME NEW c \in Creds, news'[c] # Absent
         PROVE  /\ c \in DOMAIN n /\ n[c].key = news'[c].key /\ Records(n[c].block, news'[c])
                /\ news'[c] \in Exhaustions
    <3>1. CASE full = {}
      <4>1. news' = news
        BY <2>1, <3>1 DEF UsageParts
      <4>2. guard.op = "publish"
        BY <1>0, <2>13, <4>1 DEF Resting, PInv, NewsIsCarried
      <4>3. QED
        BY <1>0, <4>2 DEF IdleGuard
    <3>2. CASE full # {}
      <4>1. PICK x \in e : news' = Exhausting(u.cred, x)
        BY <2>1, <3>2 DEF UsageParts
      <4>2. PICK o : o = news'[c]
        OBVIOUS
      <4>3. IsCore(x) /\ x.observed \in Times /\ x.limits \in Limits
        BY <2>6
      <4>4. /\ c \in DOMAIN group /\ o \in Exhaustions /\ o.key = mem[c].key
            /\ o.observed = x.observed /\ o.limits = x.limits
        BY <1>0, <2>2, <2>3, <2>4, <2>13, <4>1, <4>2, <4>3, NewsTyped DEF Resting
      <4>5. PICK m : m = MergeBlocks(group[c], cores)
        OBVIOUS
      <4>6. /\ n[c].key = mem[c].key /\ n[c].block = m /\ m \in Blocks /\ m.key = mem[c].key
            /\ x.observed <= m.observed
            /\ \A w \in DOMAIN x.limits : w \in DOMAIN m.limits /\ x.limits[w] <= m.limits[w]
        BY <2>12, <4>4, <4>5
      <4>7. o.observed <= x.observed /\ \A w \in DOMAIN o.limits : o.limits[w] <= x.limits[w]
        <5>1. x.observed \in Nat /\ MaxTime \in Nat
          BY <4>3, QuotaAssumption DEF Times
        <5>2. \A w \in DOMAIN x.limits : x.limits[w] \in Nat
          BY <4>3, <5>1, LimitFields DEF Times
        <5>3. QED
          BY <4>4, <5>1, <5>2
      <4>8. Records(m, o)
        BY <4>3, <4>4, <4>6, <4>7, MergeRecords
      <4>9. DOMAIN n = DOMAIN group
        BY <2>1 DEF UsageParts
      <4>10. QED
        BY <4>2, <4>4, <4>6, <4>8, <4>9
    <3>3. QED
      BY <3>1, <3>2
  <2>14. DOMAIN n = DOMAIN group
    BY <2>1 DEF UsageParts
  <2>15. Resting'
    <3>1. \A c \in DOMAIN n : /\ c \in Creds /\ Present(c) /\ n[c] \in Credentials /\ Keyed(n[c])
                              /\ n[c].key = mem[c].key
      BY <2>7, <2>12, <2>14
    <3>2. \A c \in Creds : owed'[c] # Absent =>
            owed'[c] = owed[c] /\ (c \in DOMAIN n => Records(n[c].block, owed[c]))
      BY <2>11, <2>12, <2>14
    <3>3. \A c \in Creds : news'[c] # Absent =>
            c \in DOMAIN n /\ n[c].key = news'[c].key /\ Records(n[c].block, news'[c])
      BY <2>13
    <3>4. QED
      BY <1>0, <2>2, <3>1, <3>2, <3>3, PublishRest
  <2>16. TypedHistory'
    <3>1. DOMAIN news' = Creds /\ DOMAIN owed' = Creds
      BY <1>0, <2>1 DEF Exhausting, ClearedBy, TypedHistory, UsageParts
    <3>2. QED
      BY <1>0, <2>11, <2>13, <3>1 DEF TypedHistory
  <2>17. QED
    BY <2>15, <2>16
<1>3. QED
  BY <1>1, <1>2

LEMMA ReconcileRest == ASSUME IInv, TInv, PInv, Reconcile PROVE Resting'
<1>1. PICK n : /\ n = [c \in {d \in writeErr : Present(d)} |-> Normalize(mem[c])]
               /\ guard' = [op |-> "write", base |-> Absent, next |-> n]
  BY DEF Reconcile
<1>2. UNCHANGED <<mem, disk, host, gone, file, owed, news>> /\ guard = IdleGuard /\ Resting
  BY DEF Reconcile, outside, history, Resting, TInv
<1>3. ASSUME NEW c \in DOMAIN n
      PROVE  /\ c \in Creds /\ Present(c) /\ n[c] \in Credentials /\ Keyed(n[c])
             /\ owed[c] # Absent => Records(n[c].block, owed[c])
  <2>1. c \in Creds /\ Present(c) /\ n[c] = Normalize(mem[c])
    BY <1>1 DEF IInv, Bounded
  <2>2. mem[c] \in Credentials
    BY <2>1 DEF TInv, TypedCopies, Stamped, Present
  <2>3. n[c] \in Credentials /\ Keyed(n[c]) /\ Kept(mem[c], n[c])
    BY <2>1, <2>2, NormalTyped
  <2>4. owed[c] # Absent => owed[c].key = mem[c].key /\ Records(mem[c].block, owed[c])
    BY <2>1 DEF PInv, OwedIsRecorded, Covered, InForce
  <2>5. QED
    BY <2>1, <2>3, <2>4, KeptRecords
<1>4. guard'.op = "write" /\ guard'.next = n
  BY <1>1
<1>5. \A c \in Creds : owed'[c] # Absent => owed'[c] = owed[c] /\ Carried(c, owed[c])'
  BY <1>2, <1>3, <1>4 DEF Carried
<1>6. NewsIsCarried'
  BY <1>2 DEF Resting, PInv, NewsIsCarried, IdleGuard
<1>7. \A c \in DOMAIN guard'.next :
        /\ guard'.next[c] \in Credentials /\ Keyed(guard'.next[c]) /\ Present(c)
        /\ guard'.op = "save" => Stamped(guard'.next[c]) /\ guard'.base \in Credentials
  BY <1>3, <1>4
<1>8. guard'.op # "save"
  BY <1>4
<1>9. QED
  BY <1>2, <1>5, <1>6, <1>7, <1>8, GuardRest

LEMMA SaveBeginRest ==
  ASSUME IInv, TInv, PInv, NEW c \in Creds, SetEnabled(c) \/ UpdateCredential(c)
  PROVE  Resting'
<1>0. budget.keys \subseteq Keys /\ Resting
  BY DEF IInv, Bounded, Worlds, TInv, Resting
<1>1. PICK new : SaveBegin(c, new) /\ \/ \E v \in BOOLEAN : new = [mem[c] EXCEPT !.disabled = v]
                                      \/ \E k \in Keys : new = [mem[c] EXCEPT !.key = k]
  BY <1>0 DEF SetEnabled, UpdateCredential
<1>2. /\ UNCHANGED <<mem, disk, host, gone, file, owed, news>> /\ guard = IdleGuard
      /\ Present(c)
  BY <1>1 DEF SaveBegin, history
<1>3. mem[c] \in Credentials /\ Stamped(mem[c]) /\ Keyed(mem[c])
  BY <1>2 DEF TInv, TypedCopies, Stamped, Present
<1>4. /\ new \in Credentials /\ new.rev = mem[c].rev /\ new.block = mem[c].block
      /\ new.key = mem[c].key \/ new.disabled = mem[c].disabled
  <2>1. new \in Credentials
    BY <1>1, <1>3, Editing
  <2>2. QED
    BY <1>1, <1>3, <2>1 DEF Credentials
<1>5. PICK r, s, n : /\ r = Normalize(new) /\ s = [r EXCEPT !.rev = 0]
                     /\ n = IF new.key = mem[c].key THEN r ELSE s
  OBVIOUS
<1>6. r \in Credentials /\ Keyed(r) /\ Kept(new, r)
  BY <1>4, <1>5, NormalTyped
<1>7. /\ s \in Credentials /\ s.rev = 0 /\ s.key = r.key /\ s.block = r.block
  <2>1. s \in Credentials
    BY <1>5, <1>6, Editing
  <2>2. QED
    BY <1>5, <1>6, <2>1 DEF Credentials
<1>8. /\ n \in Credentials /\ n.key = new.key /\ Keyed(n)
      /\ n.block # NoBlock => new.key = mem[c].key /\ n = r
  <2>1. n.key = new.key /\ n \in Credentials /\ n.block = r.block
    BY <1>5, <1>6, <1>7 DEF Kept
  <2>2. Keyed(n)
    BY <1>6, <2>1 DEF Keyed, Kept
  <2>3. ASSUME n.block # NoBlock PROVE new.key = mem[c].key
    <3>1. r.block # NoBlock /\ r.block.key = new.key
      BY <1>6, <2>1, <2>3 DEF Keyed, Kept
    <3>2. new.block # NoBlock /\ new.block.key = new.key
      <4>1. PICK i, b : /\ i = (IF new.ident = new.key THEN new.ident ELSE NoKey)
                        /\ b = (IF new.block = NoBlock \/ new.block.key # new.key THEN NoBlock
                                ELSE [new.block EXCEPT !.manual = new.disabled])
        OBVIOUS
      <4>2. PICK m : m = [new EXCEPT !.ident = i, !.block = b]
        OBVIOUS
      <4>3. r = m
        BY <1>5, <4>1, <4>2 DEF Normalize
      <4>4. m.block = b
        BY <1>4, <4>2 DEF Credentials
      <4>5. QED
        BY <3>1, <4>1, <4>3, <4>4
    <3>3. QED
      BY <1>3, <1>4, <3>2 DEF Keyed
  <2>4. QED
    BY <1>5, <2>1, <2>2, <2>3
<1>9. Stamped(n)
  <2>1. ASSUME n.block # NoBlock PROVE n.rev # 0
    <3>1. n.rev = mem[c].rev /\ new.block # NoBlock
      BY <1>4, <1>6, <1>8, <2>1 DEF Kept
    <3>2. QED
      BY <1>3, <1>4, <3>1 DEF Stamped
  <2>2. QED
    BY <1>8, <2>1 DEF Stamped
<1>10. PICK f : f = [d \in {c} |-> n]
  OBVIOUS
<1>11. guard' = [op |-> "save", base |-> mem[c], next |-> f]
  BY <1>1, <1>5, <1>10 DEF SaveBegin
<1>12. guard'.op = "save" /\ guard'.base = mem[c] /\ DOMAIN guard'.next = {c} /\ guard'.next[c] = n
  BY <1>10, <1>11
<1>13. IF n.key = mem[c].key THEN Cores(n) = Cores(Normalize(mem[c])) /\ n.rev = mem[c].rev
       ELSE n.rev = 0
  <2>1. CASE n.key # mem[c].key
    BY <1>5, <1>7, <1>8, <2>1
  <2>2. CASE n.key = mem[c].key
    <3>1. n = r /\ new.key = mem[c].key
      BY <1>5, <1>8, <2>2
    <3>2. PICK q : q = Normalize(mem[c])
      OBVIOUS
    <3>3. Kept(mem[c], q)
      BY <1>3, <3>2, NormalTyped
    <3>4. Cores(r) = Cores(new) /\ Cores(q) = Cores(mem[c])
      BY <1>3, <1>4, <1>6, <3>1, <3>3 DEF Kept, Keyed, Cores
    <3>5. Cores(new) = Cores(mem[c])
      BY <1>4 DEF Cores
    <3>6. r.rev = mem[c].rev
      BY <1>4, <1>6 DEF Kept
    <3>7. QED
      BY <2>2, <3>1, <3>2, <3>4, <3>5, <3>6
  <2>3. QED
    BY <2>1, <2>2
<1>14. \A d \in Creds : owed'[d] # Absent => owed'[d] = owed[d] /\ Carried(d, owed[d])'
  BY <1>2, <1>12 DEF Carried
<1>15. NewsIsCarried'
  BY <1>0, <1>2 DEF Resting, PInv, NewsIsCarried, IdleGuard
<1>16. \A d \in DOMAIN guard'.next :
         /\ guard'.next[d] \in Credentials /\ Keyed(guard'.next[d]) /\ Present(d)
         /\ guard'.op = "save" => Stamped(guard'.next[d]) /\ guard'.base \in Credentials
  BY <1>2, <1>3, <1>8, <1>9, <1>12
<1>17. guard'.op = "save" => \A d \in DOMAIN guard'.next :
         IF guard'.next[d].key = guard'.base.key
         THEN /\ Cores(guard'.next[d]) = Cores(Normalize(guard'.base))
              /\ guard'.next[d].rev = guard'.base.rev
         ELSE guard'.next[d].rev = 0
  BY <1>12, <1>13
<1>18. QED
  BY <1>0, <1>2, <1>14, <1>15, <1>16, <1>17, GuardRest

-----------------------------------------------------------------------------
(* Steps that work on one credential *)

(* Whatever happens to c, the others are as they were. *)
LEMMA OthersRest ==
  ASSUME OwedIsRecorded, NEW c,
         \A e \in Creds \ {c} : /\ mem'[e] = mem[e] /\ disk'[e] = disk[e]
                                /\ host'[e] = host[e] /\ gone'[e] = gone[e]
                                /\ owed'[e] \in {owed[e], Absent},
         \/ file' = file \/ file'.by = "free" \/ file'.cred = c
         \/ /\ file'.by = file.by /\ file'.cred = file.cred
            /\ file'.orig = file.orig /\ file'.next = file.next,
         guard'.op \in {"publish", "write"} => \A e \in DOMAIN guard'.next :
           /\ guard.op \in {"publish", "write"} /\ e \in DOMAIN guard.next
           /\ guard'.next[e] = guard.next[e],
         c \in Creds => Covered(c)'
  PROVE  OwedIsRecorded'
<1>1. ASSUME NEW e \in Creds \ {c} PROVE Covered(e)'
  <2>1. Covered(e) /\ e # c
    BY DEF OwedIsRecorded
  <2>2. file'.by # "free" /\ file'.cred = e =>
          /\ file.by = file'.by /\ file.cred = e
          /\ file'.orig = file.orig /\ file'.next = file.next
    BY <2>1
  <2>3. guard'.op \in {"publish", "write"} /\ e \in DOMAIN guard'.next =>
          /\ guard.op \in {"publish", "write"} /\ e \in DOMAIN guard.next
          /\ guard'.next[e] = guard.next[e]
    OBVIOUS
  <2>4. QED
    BY <2>1, <2>2, <2>3, Undisturbed
<1>2. QED
  BY <1>1 DEF OwedIsRecorded

LEMMA WrittenGuard ==
  ASSUME IInv, guard.op = "write", NEW c
  PROVE  LET g == Written(c) IN
         /\ g.op \in {"idle", "write"}
         /\ DOMAIN g.next \subseteq DOMAIN guard.next \ {c}
         /\ \A e \in DOMAIN g.next : guard.next[e] = g.next[e]
<1>1. PICK rest, n : rest = DOMAIN guard.next \ {c} /\ n = [d \in rest |-> guard.next[d]]
  OBVIOUS
<1>2. CASE rest = {}
  <2>1. Written(c) = IdleGuard
    BY <1>1, <1>2 DEF Written
  <2>2. IdleGuard.op = "idle" /\ DOMAIN IdleGuard.next = {}
    BY DEF IdleGuard
  <2>3. QED
    BY <2>1, <2>2
<1>3. CASE rest # {}
  <2>1. PICK g : g = [guard EXCEPT !.next = n]
    OBVIOUS
  <2>2. Written(c) = g
    BY <1>1, <1>3, <2>1 DEF Written
  <2>3. g = [op |-> "write", base |-> guard.base, next |-> n]
    BY <2>1 DEF IInv, Locks, GoodGuard
  <2>4. g.op = "write" /\ g.next = n
    BY <2>3
  <2>5. QED
    BY <1>1, <2>2, <2>4
<1>4. QED
  BY <1>2, <1>3

(* Between the first read of a file and its writing nothing that matters here
   changes: the second read, and every failure. *)
LEMMA FileOnlyRest ==
  ASSUME IInv, Resting, UNCHANGED <<mem, disk, host, gone, owed, news>>,
         guard.op # "publish",
         \/ file' = file \/ file'.by = "free"
         \/ /\ file'.by = file.by /\ file'.cred = file.cred /\ guard' = guard
            /\ file'.orig = file.orig /\ file'.next = file.next,
         guard' = guard \/ guard' = IdleGuard
           \/ (guard.op = "write" /\ \E c : guard' = Written(c)),
         guard' # guard => file'.by = "free"
  PROVE  Resting'
<1>1. /\ guard'.op \in {"idle", "write", guard.op} /\ DOMAIN guard'.next \subseteq DOMAIN guard.next
      /\ \A e \in DOMAIN guard'.next : guard'.next[e] = guard.next[e]
      /\ guard'.op # "idle" => guard'.op = guard.op
      /\ guard'.op = "save" => guard' = guard
  <2>1. CASE guard' = guard
    BY <2>1
  <2>2. CASE guard' = IdleGuard
    <3>1. guard'.op = "idle" /\ DOMAIN guard'.next = {}
      BY <2>2 DEF IdleGuard
    <3>2. QED
      BY <3>1
  <2>3. CASE guard.op = "write" /\ \E c : guard' = Written(c)
    BY <2>3, WrittenGuard
  <2>4. QED
    BY <2>1, <2>2, <2>3
<1>2. TypedCopies' /\ NewsIsCarried'
  BY DEF Resting, TypedCopies, PInv, NewsIsCarried
<1>3. TypedWork'
  <2>1. \A e \in DOMAIN guard'.next :
          /\ guard'.next[e] \in Credentials /\ Keyed(guard'.next[e]) /\ Present(e)'
          /\ guard'.op = "save" => Stamped(guard'.next[e]) /\ guard'.base \in Credentials
    BY <1>1 DEF Resting, TypedWork, Present
  <2>2. file'.by # "free" => Stamped(file'.orig)
    BY DEF Resting, TypedWork
  <2>3. file'.by \in {"persist", "save"} =>
          Stamped(file'.next) /\ Keyed(file'.next) /\ file'.cred \in DOMAIN guard'.next
    BY DEF Resting, TypedWork
  <2>4. QED
    BY <2>1, <2>2, <2>3 DEF TypedWork
<1>4. SaveKeeps'
  BY <1>1 DEF Resting, PInv, SaveKeeps
<1>5. ASSUME NEW e \in Creds PROVE Covered(e)'
  <2>1. Covered(e)
    BY DEF Resting, PInv, OwedIsRecorded
  <2>2. file'.by # "free" /\ file'.cred = e =>
          /\ file.by = file'.by /\ file.cred = e
          /\ file'.orig = file.orig /\ file'.next = file.next
    OBVIOUS
  <2>3. guard'.op \in {"publish", "write"} /\ e \in DOMAIN guard'.next =>
          /\ guard.op \in {"publish", "write"} /\ e \in DOMAIN guard.next
          /\ guard'.next[e] = guard.next[e]
    BY <1>1
  <2>4. QED
    BY <2>1, <2>2, <2>3, Undisturbed
<1>6. QED
  BY <1>2, <1>3, <1>4, <1>5 DEF Resting, PInv, OwedIsRecorded

LEMMA CompareRest == ASSUME IInv, Resting, Compare PROVE Resting'
<1>1. /\ UNCHANGED <<mem, disk, host, gone, owed, news, guard>>
      /\ file.by \in {"persist", "save"} /\ file' = [file EXCEPT !.checked = TRUE]
  BY DEF Compare, outside, history
<1>2. guard.op # "publish"
  BY <1>1 DEF IInv, Locks
<1>3. /\ file'.by = file.by /\ file'.cred = file.cred
      /\ file'.orig = file.orig /\ file'.next = file.next
  BY <1>1 DEF IInv, Locks, GoodFile
<1>4. QED
  BY <1>1, <1>2, <1>3, FileOnlyRest

LEMMA FailRest == ASSUME IInv, Resting, PersistFails \/ SaveFails PROVE Resting'
<1>1. /\ UNCHANGED <<mem, disk, host, gone, owed, news>>
      /\ file.by \in {"persist", "save"} /\ file' = FreeFile
  BY DEF PersistFails, SaveFails, history
<1>2. guard.op # "publish" /\ file'.by = "free"
  BY <1>1 DEF IInv, Locks, FreeFile
<1>3. \/ guard' = IdleGuard
      \/ guard.op = "write" /\ \E c : guard' = Written(c)
  BY DEF PersistFails, SaveFails, IInv, Locks
<1>4. QED
  BY <1>1, <1>2, <1>3, FileOnlyRest

-----------------------------------------------------------------------------
(* Quota state under a new revision *)

(* What quota state another record says replaces that of a credential. *)
Requoted(r, b, i, v) == [r EXCEPT !.rev = v, !.block = b, !.ident = i]

LEMMA Requota ==
  ASSUME NEW r \in Credentials, NEW b \in Blocks \cup {NoBlock}, b # NoBlock => b.key = r.key,
         NEW i \in Keys \cup {NoKey}, NEW v, v \in Nat, v # 0
  PROVE  LET m == Requoted(r, b, i, v) IN
         /\ m \in Credentials /\ Stamped(m) /\ Keyed(m)
         /\ m.key = r.key /\ m.block = b /\ m.rev = v /\ m # Absent
<1>0. PICK m : m = Requoted(r, b, i, v)
  OBVIOUS
<1>1. m \in Credentials /\ m.key = r.key /\ m.block = b /\ m.rev = v
  BY <1>0 DEF Credentials, Requoted
<1>2. QED
  BY <1>0, <1>1, QuotaAssumption DEF Stamped, Keyed

(* A copy under a fresh revision stands apart from all others. *)
LEMMA FreshInForce ==
  ASSUME IInv, NEW c \in Creds, NEW o, NEW m, mem'[c] = m,
         m.rev = FreshRevision(c), m.key = o.key, Records(m.block, o),
         UNCHANGED <<disk, host, gone>>,
         \/ file' = file
         \/ file'.orig = disk[c] /\ file'.next.rev = m.rev /\ Records(file'.next.block, o)
  PROVE  InForce(c, o)'
<1>1. /\ FreshRevision(c) \in Nat /\ FreshRevision(c) # 0
      /\ \A r \in {mem[c], disk[c], host[c], gone[c], file.orig, file.next} :
           r # Absent => r.rev # FreshRevision(c)
  BY FreshIs
<1>2. Held(c, disk[c], o)' /\ Held(c, host[c], o)' /\ Held(c, gone[c], o)'
  BY <1>1 DEF Held, Alike
<1>3. Held(c, file.orig, o)' /\ Held(c, file.next, o)'
  <2>1. CASE file' = file
    BY <1>1, <2>1 DEF Held, Alike
  <2>2. CASE file'.orig = disk[c] /\ file'.next.rev = m.rev /\ Records(file'.next.block, o)
    <3>1. Held(c, file.next, o)'
      BY <2>2 DEF Held, Records
    <3>2. Held(c, file.orig, o)'
      BY <1>1, <2>2 DEF Held, Alike
    <3>3. QED
      BY <3>1, <3>2
  <2>3. QED
    BY <2>1, <2>2
<1>4. o.key = mem'[c].key /\ Records(mem'[c].block, o) /\ mem'[c].rev # 0
  BY <1>1
<1>5. Records(mem[c].block, o)'
  BY <1>4 DEF Records
<1>6. QED
  BY <1>2, <1>3, <1>4, <1>5 DEF InForce

LEMMA SaveQuotaGroupRest == ASSUME IInv, TInv, PInv, SaveQuotaGroup PROVE Resting' /\ TypedHistory'
<1>1. /\ UNCHANGED <<disk, host, gone, file>> /\ guard.op = "publish" /\ Resting
      /\ owed' = [c \in Creds |-> Owing(c)] /\ news' = [c \in Creds |-> Absent]
  BY DEF SaveQuotaGroup, outside, Resting, TInv
<1>a. PICK kept, changed, writes, n :
        /\ kept = {c \in DOMAIN guard.next : Present(c) /\ mem[c].key = guard.next[c].key}
        /\ changed = {c \in kept : ~QuotaStateEqual(mem[c], guard.next[c])}
        /\ writes = changed \cup (kept \cap writeErr)
        /\ n = [c \in writes |-> guard.next[c]]
  OBVIOUS
<1>b. PICK q : q = [c \in Creds |-> [mem[c] EXCEPT !.rev = FreshRevision(c),
                                              !.block = guard.next[c].block,
                                              !.ident = guard.next[c].ident]]
  OBVIOUS
<1>c. guard' = IF writes = {} THEN IdleGuard
              ELSE [op |-> "write", base |-> Absent, next |-> n]
  BY <1>a DEF SaveQuotaGroup
<1>d. mem' = [c \in Creds |-> IF c \in changed /\ guard.next[c].block # NoBlock
                             THEN q[c] ELSE mem[c]]
  <2>1. mem' = [c \in Creds |-> IF c \in changed /\ guard.next[c].block # NoBlock
                             THEN [mem[c] EXCEPT !.block = guard.next[c].block,
                                                 !.ident = guard.next[c].ident,
                                                 !.rev = FreshRevision(c)]
                             ELSE mem[c]]
    BY <1>a, Zenon DEF SaveQuotaGroup
  <2>2. ASSUME NEW c \in changed
        PROVE  q[c] = [mem[c] EXCEPT !.block = guard.next[c].block,
                                     !.ident = guard.next[c].ident,
                                     !.rev = FreshRevision(c)]
    <3>1. PICK b, i, v : b = guard.next[c].block /\ i = guard.next[c].ident /\ v = FreshRevision(c)
      OBVIOUS
    <3>2. c \in Creds /\ mem[c] \in Credentials
      BY <1>a DEF IInv, Locks, GoodGuard, Resting, TypedCopies, Stamped, Present, TInv
    <3>3. q[c] = [mem[c] EXCEPT !.rev = v, !.block = b, !.ident = i]
      BY <1>b, <3>1, <3>2
    <3>4. [mem[c] EXCEPT !.rev = v, !.block = b, !.ident = i]
            = [mem[c] EXCEPT !.block = b, !.ident = i, !.rev = v]
      BY <3>2 DEF Credentials
    <3>5. QED
      BY <3>1, <3>3, <3>4
  <2>3. \A c \in Creds : mem'[c] = IF c \in changed /\ guard.next[c].block # NoBlock
                                   THEN q[c] ELSE mem[c]
    BY <2>1, <2>2
  <2>4. mem' = [c \in Creds |-> mem'[c]]
    BY <2>1
  <2>5. QED
    BY <2>3, <2>4
<1>e. /\ guard'.op \in {"idle", "write"} /\ DOMAIN guard'.next \subseteq DOMAIN guard.next
      /\ \A c \in DOMAIN guard'.next : guard'.next[c] = guard.next[c]
  <2>1. CASE writes = {}
    BY <1>c, <2>1 DEF IdleGuard
  <2>2. CASE writes # {}
    <3>1. guard'.op = "write" /\ guard'.next = n
      BY <1>c, <2>2
    <3>2. QED
      BY <1>a, <3>1
  <2>3. QED
    BY <2>1, <2>2
<1>2. ASSUME NEW c \in changed
      PROVE  /\ c \in Creds /\ c \in DOMAIN guard.next /\ mem[c].key = guard.next[c].key
             /\ Present(c) /\ Stamped(q[c]) /\ Keyed(q[c]) /\ q[c] # Absent
             /\ q[c].key = mem[c].key /\ q[c].block = guard.next[c].block
             /\ q[c].rev = FreshRevision(c)
  <2>1. /\ c \in DOMAIN guard.next /\ c \in Creds /\ Present(c) /\ mem[c].key = guard.next[c].key
        /\ mem[c] \in Credentials /\ guard.next[c] \in Credentials /\ Keyed(guard.next[c])
    BY <1>a DEF IInv, Locks, GoodGuard, TInv, TypedCopies, TypedWork, Stamped, Present
  <2>2. PICK b, i, v : b = guard.next[c].block /\ i = guard.next[c].ident /\ v = FreshRevision(c)
    OBVIOUS
  <2>3. /\ b \in Blocks \cup {NoBlock} /\ i \in Keys \cup {NoKey}
        /\ b # NoBlock => b.key = mem[c].key
    BY <2>1, <2>2 DEF Credentials, Keyed
  <2>4. v \in Nat /\ v # 0
    BY <2>2, FreshIs
  <2>5. q[c] = [mem[c] EXCEPT !.rev = v, !.block = b, !.ident = i]
    BY <1>b, <2>1, <2>2
  <2>6. /\ Stamped(q[c]) /\ Keyed(q[c]) /\ q[c].key = mem[c].key /\ q[c].block = b
        /\ q[c].rev = v /\ q[c] # Absent
    <3>0. PICK r : r = mem[c]
      OBVIOUS
    <3>1. PICK m : m = Requoted(r, b, i, v)
      OBVIOUS
    <3>2. r \in Credentials
      BY <2>1, <3>0
    <3>3. b # NoBlock => b.key = r.key
      BY <2>3, <3>0
    <3>4. b \in Blocks \cup {NoBlock}
      BY <2>3
    <3>5. i \in Keys \cup {NoKey}
      BY <2>3
    <3>6. v \in Nat
      BY <2>4
    <3>7. v # 0
      BY <2>4
    <3>8. /\ Stamped(m) /\ Keyed(m) /\ m.key = r.key /\ m.block = b /\ m.rev = v /\ m # Absent
      BY <3>1, <3>2, <3>3, <3>4, <3>5, <3>6, <3>7, Requota
    <3>9. q[c] = m
      BY <2>5, <3>0, <3>1 DEF Requoted
    <3>10. QED
      BY <3>0, <3>8, <3>9
  <2>7. QED
    BY <2>1, <2>2, <2>6
<1>3. \A c \in Creds : \/ mem'[c] = mem[c]
                       \/ mem'[c] = q[c] /\ c \in changed
  BY <1>d
<1>4. TypedCopies'
  <2>1. ASSUME NEW c \in Creds, mem'[c] # Absent PROVE Stamped(mem'[c]) /\ Keyed(mem'[c])
    BY <1>1, <1>2, <1>3, <2>1 DEF Resting, TypedCopies
  <2>2. QED
    BY <1>1, <2>1 DEF Resting, TypedCopies
<1>5. file.by \notin {"persist", "save"}
  BY <1>1 DEF IInv, Locks
<1>6. TypedWork'
  <2>1. ASSUME NEW c \in DOMAIN guard'.next
        PROVE  guard'.next[c] \in Credentials /\ Keyed(guard'.next[c]) /\ Present(c)'
    <3>1. guard.next[c] \in Credentials /\ Keyed(guard.next[c]) /\ Present(c) /\ c \in Creds
      BY <1>e DEF TInv, TypedWork, IInv, Locks, GoodGuard
    <3>2. Present(c)'
      BY <1>2, <1>3, <3>1 DEF Present
    <3>3. QED
      BY <1>e, <3>1, <3>2
  <2>2. file'.by # "free" => Stamped(file'.orig)
    BY <1>1 DEF TInv, TypedWork
  <2>3. QED
    BY <1>1, <1>5, <1>e, <2>1, <2>2 DEF TypedWork
<1>7. SaveKeeps'
  BY <1>1, <1>5, <1>e DEF SaveKeeps
<1>8. NewsIsCarried'
  BY <1>1 DEF NewsIsCarried
<1>9. ASSUME NEW c \in Creds PROVE Covered(c)'
  <2>0. Covered(c) /\ owed'[c] = Owing(c)
    BY <1>1 DEF Resting, PInv, OwedIsRecorded
  <2>1. ASSUME owed'[c] = owed[c], mem'[c] = mem[c] PROVE Covered(c)'
    <3>1. guard'.op \in {"publish", "write"} /\ c \in DOMAIN guard'.next =>
            /\ guard.op \in {"publish", "write"} /\ c \in DOMAIN guard.next
            /\ guard'.next[c] = guard.next[c]
      BY <1>1, <1>e
    <3>2. QED
      BY <1>1, <2>0, <2>1, <3>1, Undisturbed
  <2>2. ASSUME NEW o, owed'[c] = o, c \in changed, mem'[c] = q[c], o.key = mem[c].key,
               Records(guard.next[c].block, o)
        PROVE  Covered(c)'
    <3>1. /\ q[c].key = o.key /\ Records(q[c].block, o) /\ q[c].rev = FreshRevision(c)
          /\ q[c] # Absent
      BY <1>2, <2>2
    <3>2. InForce(c, o)'
      BY <1>1, <2>2, <3>1, FreshInForce
    <3>3. Carried(c, o)'
      BY <1>e, <2>2 DEF Carried, Records
    <3>4. Present(c)' /\ InForce(c, owed[c])' /\ Carried(c, owed[c])'
      BY <2>2, <3>1, <3>2, <3>3 DEF Present, InForce, Carried, Held, Records
    <3>5. QED
      BY <3>4 DEF Covered
  <2>3. CASE owed'[c] = owed[c] /\ mem'[c] # mem[c]
    <3>1. c \in changed /\ mem'[c] = q[c]
      BY <1>3, <2>3
    <3>2. CASE owed[c] = Absent
      BY <2>3, <3>2 DEF Covered
    <3>3. CASE owed[c] # Absent
      <4>1. /\ c \in DOMAIN guard.next /\ mem[c].key = guard.next[c].key /\ Present(c)
        BY <1>2, <3>1
      <4>2. owed[c].key = mem[c].key /\ Records(guard.next[c].block, owed[c])
        BY <1>1, <2>0, <3>3, <4>1 DEF Covered, InForce, Carried
      <4>3. QED
        BY <2>2, <2>3, <3>1, <4>2
    <3>4. QED
      BY <3>2, <3>3
  <2>4. CASE owed'[c] # owed[c]
    <3>1. /\ owed'[c] = news[c] /\ news[c] # Absent /\ Present(c) /\ mem[c].key = news[c].key
          /\ ~Records(mem[c].block, news[c])
      BY <2>0, <2>4 DEF Owing
    <3>2. /\ c \in DOMAIN guard.next /\ guard.next[c].key = news[c].key
          /\ Records(guard.next[c].block, news[c])
      BY <1>1, <3>1 DEF Resting, PInv, NewsIsCarried
    <3>3. c \in changed
      BY <1>a, <3>1, <3>2 DEF QuotaStateEqual
    <3>4. mem'[c] = q[c]
      BY <1>d, <3>2, <3>3 DEF Records
    <3>5. QED
      BY <2>2, <3>1, <3>2, <3>3, <3>4
  <2>5. QED
    BY <2>1, <2>3, <2>4
<1>10. TypedHistory'
  <2>1. DOMAIN owed' = Creds /\ DOMAIN news' = Creds
    BY <1>1
  <2>2. \A c \in Creds : owed'[c] \in {owed[c], news[c]} /\ news'[c] = Absent
    BY <1>1 DEF Owing
  <2>3. QED
    BY <2>1, <2>2 DEF TInv, TypedHistory
<1>11. QED
  BY <1>4, <1>6, <1>7, <1>8, <1>9, <1>10 DEF Resting, PInv, OwedIsRecorded

LEMMA PersistOpenRest == ASSUME IInv, Resting, NEW c \in Creds, PersistOpen(c) PROVE Resting'
<1>1. /\ UNCHANGED <<disk, host, gone, owed, news>>
      /\ guard.op = "write" /\ c \in DOMAIN guard.next /\ file = FreeFile
  BY DEF PersistOpen, history
<1>2. file.by = "free" /\ OwedIsRecorded
  BY <1>1 DEF FreeFile, Resting, PInv
<1>3. NewsIsCarried'
  BY <1>1 DEF Resting, PInv, NewsIsCarried
<1>4. CASE ~Present(c) \/ mem[c].key # guard.next[c].key
  <2>1. guard' = Written(c) /\ UNCHANGED <<mem, file>>
    BY <1>4 DEF PersistOpen
  <2>2. guard' # guard => file'.by = "free"
    BY <1>2, <2>1
  <2>3. guard.op # "publish"
    BY <1>1
  <2>4. QED
    BY <1>1, <2>1, <2>2, <2>3, FileOnlyRest
<1>5. CASE Present(c) /\ mem[c].key = guard.next[c].key
  <2>a. PICK g, v : g = guard.next[c] /\ v = FreshRevision(c)
    OBVIOUS
  <2>b. PICK x : x = [g EXCEPT !.disabled = mem[c].disabled]
    OBVIOUS
  <2>c. PICK y, next : y = Normalize(x) /\ next = [y EXCEPT !.rev = v]
    OBVIOUS
  <2>d. PICK taken : taken = (IF next.block # NoBlock THEN next ELSE mem[c])
    OBVIOUS
  <2>e. PICK m : m = Requoted(mem[c], taken.block, taken.ident, next.rev)
    OBVIOUS
  <2>1. NextQuota(c) = next
    BY <2>a, <2>b, <2>c, Zenon DEF NextQuota
  <2>2. /\ mem[c] \in Credentials /\ Stamped(mem[c]) /\ Keyed(mem[c]) /\ mem[c] # Absent
        /\ g \in Credentials /\ Keyed(g)
        /\ DOMAIN mem = Creds
    BY <1>1, <1>5, <2>a DEF Resting, TypedCopies, TypedWork, Stamped, Present, IInv, Copies
  <2>3. x \in Credentials /\ x.key = g.key /\ x.block = g.block
    <3>1. mem[c].disabled \in BOOLEAN
      BY <2>2 DEF Credentials
    <3>2. x \in Credentials
      BY <2>2, <2>b, <3>1, Editing
    <3>3. QED
      BY <2>2, <2>b, <3>2 DEF Credentials
  <2>4. y \in Credentials /\ Keyed(y) /\ Kept(x, y)
    BY <2>3, <2>c, NormalTyped
  <2>5. v \in Nat /\ v # 0
    BY <2>a, FreshIs
  <2>6. /\ next \in Credentials /\ next.rev = v /\ next.block = y.block /\ next.key = y.key
        /\ next.ident = y.ident
    <3>1. next \in Credentials
      BY <2>4, <2>5, <2>c, Editing
    <3>2. QED
      BY <2>4, <2>c, <3>1 DEF Credentials
  <2>7. Stamped(next) /\ Keyed(next) /\ next.key = mem[c].key
    BY <1>5, <2>3, <2>4, <2>5, <2>6, <2>a DEF Stamped, Keyed, Kept
  <2>8. /\ taken.block \in Blocks \cup {NoBlock} /\ taken.ident \in Keys \cup {NoKey}
        /\ taken.block # NoBlock => taken.block.key = mem[c].key
    BY <2>2, <2>6, <2>7, <2>d DEF Credentials, Keyed
  <2>9. /\ Stamped(m) /\ Keyed(m) /\ m.key = mem[c].key /\ m.block = taken.block
        /\ m.rev = v /\ m # Absent
    <3>0. PICK r, b, i : r = mem[c] /\ b = taken.block /\ i = taken.ident
      OBVIOUS
    <3>1. m = Requoted(r, b, i, v)
      BY <2>6, <2>e, <3>0
    <3>2. r \in Credentials
      BY <2>2, <3>0
    <3>3. b # NoBlock => b.key = r.key
      BY <2>8, <3>0
    <3>4. b \in Blocks \cup {NoBlock}
      BY <2>8, <3>0
    <3>5. i \in Keys \cup {NoKey}
      BY <2>8, <3>0
    <3>6. v \in Nat
      BY <2>5
    <3>7. v # 0
      BY <2>5
    <3>8. /\ Stamped(m) /\ Keyed(m) /\ m.key = r.key /\ m.block = b /\ m.rev = v /\ m # Absent
      BY <3>1, <3>2, <3>3, <3>4, <3>5, <3>6, <3>7, Requota
    <3>9. QED
      BY <3>0, <3>8
  <2>10. mem' = [mem EXCEPT ![c] = m]
    <3>1. LET u == IF NextQuota(c).block # NoBlock THEN NextQuota(c) ELSE mem[c]
          IN mem' = [mem EXCEPT ![c] = [@ EXCEPT !.rev = NextQuota(c).rev, !.block = u.block,
                                                 !.ident = u.ident]]
      BY <1>5, Zenon DEF PersistOpen
    <3>2. PICK q : q = NextQuota(c)
      OBVIOUS
    <3>3. LET u == IF q.block # NoBlock THEN q ELSE mem[c]
          IN mem' = [mem EXCEPT ![c] = [@ EXCEPT !.rev = q.rev, !.block = u.block, !.ident = u.ident]]
      BY <3>1, <3>2, Zenon
    <3>4. q = next
      BY <2>1, <3>2
    <3>5. mem' = [mem EXCEPT ![c] = [@ EXCEPT !.rev = next.rev, !.block = taken.block,
                                              !.ident = taken.ident]]
      BY <2>d, <3>3, <3>4
    <3>6. QED
      BY <2>e, <3>5 DEF Requoted
  <2>11. mem'[c] = m /\ \A e \in Creds \ {c} : mem'[e] = mem[e]
    BY <2>2, <2>10
  <2>12. TypedCopies'
    <3>1. ASSUME NEW e \in Creds, mem'[e] # Absent PROVE Stamped(mem'[e]) /\ Keyed(mem'[e])
      BY <2>9, <2>11, <3>1 DEF Resting, TypedCopies
    <3>2. QED
      BY <1>1, <3>1 DEF Resting, TypedCopies
  <2>13. ASSUME owed[c] # Absent PROVE Records(m.block, owed[c]) /\ Records(next.block, owed[c])
                                       /\ owed[c].key = mem[c].key
    <3>1. owed[c].key = mem[c].key /\ Records(g.block, owed[c])
      BY <1>1, <1>2, <1>5, <2>13, <2>a DEF OwedIsRecorded, Covered, InForce, Carried
    <3>2. Records(x.block, owed[c]) /\ owed[c].key = x.key
      BY <1>5, <2>3, <2>a, <3>1
    <3>3. Records(y.block, owed[c])
      BY <2>4, <3>2, KeptRecords
    <3>4. next.block # NoBlock /\ Records(next.block, owed[c])
      BY <2>6, <3>3 DEF Records
    <3>5. QED
      BY <2>9, <2>d, <3>1, <3>4
  <2>14. ASSUME DOMAIN guard'.next \subseteq DOMAIN guard.next,
                \A e \in DOMAIN guard'.next : guard'.next[e] = guard.next[e],
                guard'.op \in {"idle", "write"},
                \/ file' = file
                \/ /\ file'.by = "persist" /\ file'.cred = c /\ file'.orig = disk[c]
                   /\ file'.next = next /\ disk[c] # Absent /\ guard' = guard
         PROVE  Resting'
    <3>1. TypedWork'
      <4>1. \A e \in DOMAIN guard'.next :
              /\ guard'.next[e] \in Credentials /\ Keyed(guard'.next[e])
              /\ mem'[e] # Absent
        <5>1. ASSUME NEW e \in DOMAIN guard'.next
              PROVE  /\ guard'.next[e] \in Credentials /\ Keyed(guard'.next[e])
                     /\ mem'[e] # Absent
          <6>1. /\ guard.next[e] \in Credentials /\ Keyed(guard.next[e]) /\ mem[e] # Absent
                /\ e \in Creds
            BY <2>14 DEF Resting, TypedWork, Present, IInv, Locks, GoodGuard
          <6>2. QED
            BY <2>9, <2>11, <2>14, <6>1
        <5>2. QED
          BY <5>1
      <4>2. file'.by # "free" => Stamped(file'.orig)
        BY <1>2, <2>14 DEF Resting, TypedCopies
      <4>3. file'.by \in {"persist", "save"} =>
              Stamped(file'.next) /\ Keyed(file'.next) /\ file'.cred \in DOMAIN guard'.next
        BY <1>1, <1>2, <2>7, <2>14
      <4>4. QED
        BY <2>14, <4>1, <4>2, <4>3 DEF TypedWork, Present
    <3>2. SaveKeeps'
      BY <1>2, <2>14 DEF SaveKeeps
    <3>3. Covered(c)'
      <4>1. SUFFICES ASSUME owed[c] # Absent PROVE Covered(c)'
        BY <1>1 DEF Covered
      <4>2. PICK o : o = owed[c]
        OBVIOUS
      <4>3. /\ m.rev = FreshRevision(c) /\ m.key = o.key /\ Records(m.block, o)
            /\ file' = file \/ (file'.orig = disk[c] /\ file'.next.rev = m.rev
                                /\ Records(file'.next.block, o))
        BY <2>6, <2>9, <2>13, <2>14, <2>a, <4>1, <4>2
      <4>4. UNCHANGED <<disk, host, gone>> /\ mem'[c] = m
        BY <1>1, <2>11
      <4>5. InForce(c, o)'
        BY <4>3, <4>4, FreshInForce
      <4>6. Carried(c, o)'
        BY <1>1, <1>2, <2>14, <4>1, <4>2 DEF Carried, OwedIsRecorded, Covered, Records
      <4>7. owed'[c] = o /\ Present(c)'
        BY <1>1, <2>9, <2>11, <4>2 DEF Present
      <4>8. QED
        BY <4>5, <4>6, <4>7 DEF Covered, InForce, Carried, Held, Records
    <3>4. OwedIsRecorded'
      <4>1. \A e \in Creds \ {c} : /\ mem'[e] = mem[e] /\ disk'[e] = disk[e]
                                   /\ host'[e] = host[e] /\ gone'[e] = gone[e]
                                   /\ owed'[e] \in {owed[e], Absent}
        BY <1>1, <2>11
      <4>2. file' = file \/ file'.by = "free" \/ file'.cred = c
        BY <2>14
      <4>3. guard'.op \in {"publish", "write"} => \A e \in DOMAIN guard'.next :
              /\ guard.op \in {"publish", "write"} /\ e \in DOMAIN guard.next
              /\ guard'.next[e] = guard.next[e]
        BY <1>1, <2>14
      <4>4. QED
        BY <1>2, <3>3, <4>1, <4>2, <4>3, OthersRest
    <3>5. QED
      BY <1>3, <2>12, <3>1, <3>2, <3>4 DEF Resting, PInv
  <2>15. \/ /\ Matches(disk[c], mem[c])
            /\ file' = [by |-> "persist", cred |-> c, orig |-> disk[c],
                        next |-> NextQuota(c), checked |-> FALSE]
            /\ guard' = guard
         \/ guard' = Written(c) /\ file' = file
    BY <1>5, Zenon DEF PersistOpen
  <2>16. CASE /\ Matches(disk[c], mem[c])
              /\ file' = [by |-> "persist", cred |-> c, orig |-> disk[c],
                          next |-> NextQuota(c), checked |-> FALSE]
              /\ guard' = guard
    <3>1. file' = [by |-> "persist", cred |-> c, orig |-> disk[c], next |-> next, checked |-> FALSE]
      BY <2>1, <2>16
    <3>2. disk[c] # Absent
      BY <2>16 DEF Matches
    <3>3. /\ file'.by = "persist" /\ file'.cred = c /\ file'.orig = disk[c] /\ file'.next = next
      BY <3>1
    <3>4. QED
      BY <1>1, <2>14, <2>16, <3>2, <3>3
  <2>17. CASE guard' = Written(c) /\ file' = file
    <3>1. /\ guard'.op \in {"idle", "write"} /\ DOMAIN guard'.next \subseteq DOMAIN guard.next
          /\ \A e \in DOMAIN guard'.next : guard'.next[e] = guard.next[e]
      BY <1>1, <2>17, WrittenGuard
    <3>2. QED
      BY <2>14, <2>17, <3>1
  <2>18. QED
    BY <2>15, <2>16, <2>17
<1>6. QED
  BY <1>4, <1>5

LEMMA PersistWriteRest == ASSUME IInv, Resting, PersistWrite PROVE Resting'
<1>a. PICK c, next : c = file.cred /\ next = file.next
  OBVIOUS
<1>b. PICK m : m = [mem[c] EXCEPT !.block = next.block, !.ident = next.ident]
  OBVIOUS
<1>1. /\ file.by = "persist" /\ disk' = [disk EXCEPT ![c] = next]
      /\ \/ Newest(c, next) /\ mem' = [mem EXCEPT ![c] = m]
         \/ mem' = mem
      /\ guard' = Written(c) /\ file' = FreeFile
      /\ UNCHANGED <<host, gone, owed, news>>
  BY <1>a, <1>b DEF PersistWrite, outside
<1>2. /\ guard.op = "write" /\ c \in Creds /\ c \in DOMAIN guard.next
      /\ Stamped(next) /\ Keyed(next) /\ Stamped(mem[c]) /\ Keyed(mem[c]) /\ mem[c] # Absent
      /\ DOMAIN mem = Creds /\ DOMAIN disk = Creds
  BY <1>1, <1>a DEF IInv, Locks, GoodFile, Copies, Resting, TypedWork, TypedCopies, Present
<1>3. /\ guard'.op \in {"idle", "write"} /\ DOMAIN guard'.next \subseteq DOMAIN guard.next \ {c}
      /\ \A e \in DOMAIN guard'.next : guard'.next[e] = guard.next[e]
  BY <1>1, <1>2, WrittenGuard
<1>4. file'.by = "free" /\ OwedIsRecorded
  BY <1>1 DEF FreeFile, Resting, PInv
<1>5. ASSUME Newest(c, next)
      PROVE  /\ m \in Credentials /\ Stamped(m) /\ Keyed(m) /\ m # Absent
             /\ m.key = mem[c].key /\ m.rev = mem[c].rev /\ m.block = next.block
             /\ next.rev = mem[c].rev
  <2>1. /\ m \in Credentials /\ m.key = mem[c].key /\ m.rev = mem[c].rev /\ m.block = next.block
    BY <1>2, <1>b DEF Stamped, Credentials
  <2>2. mem[c].key = next.key /\ mem[c].rev = next.rev
    BY <1>5 DEF Newest
  <2>3. QED
    BY <1>2, <2>1, <2>2, QuotaAssumption DEF Stamped, Keyed
<1>6. /\ \A e \in Creds \ {c} : mem'[e] = mem[e] /\ disk'[e] = disk[e]
      /\ disk'[c] = next
      /\ mem'[c] = mem[c] \/ (mem'[c] = m /\ Newest(c, next))
  BY <1>1, <1>2
<1>7. TypedCopies'
  <2>1. ASSUME NEW e \in Creds, mem'[e] # Absent PROVE Stamped(mem'[e]) /\ Keyed(mem'[e])
    BY <1>2, <1>5, <1>6, <2>1 DEF Resting, TypedCopies
  <2>2. ASSUME NEW e \in Creds, disk'[e] # Absent PROVE Stamped(disk'[e])
    BY <1>2, <1>6, <2>2 DEF Resting, TypedCopies
  <2>3. QED
    BY <1>1, <2>1, <2>2 DEF Resting, TypedCopies
<1>8. TypedWork'
  <2>1. ASSUME NEW e \in DOMAIN guard'.next
        PROVE  guard'.next[e] \in Credentials /\ Keyed(guard'.next[e]) /\ Present(e)'
    <3>1. guard.next[e] \in Credentials /\ Keyed(guard.next[e]) /\ Present(e) /\ e \in Creds
      BY <1>3 DEF Resting, TypedWork, IInv, Locks, GoodGuard
    <3>2. QED
      BY <1>2, <1>3, <1>5, <1>6, <3>1 DEF Present
  <2>2. QED
    BY <1>3, <1>4, <2>1 DEF TypedWork
<1>9. SaveKeeps' /\ NewsIsCarried'
  BY <1>1, <1>2, <1>3, <1>4 DEF SaveKeeps, NewsIsCarried, Resting, PInv
<1>10. Covered(c)'
  <2>1. SUFFICES ASSUME owed[c] # Absent PROVE Covered(c)'
    BY <1>1 DEF Covered
  <2>2. PICK o : o = owed[c]
    OBVIOUS
  <2>3. InForce(c, o)
    BY <1>2, <1>4, <2>1, <2>2 DEF OwedIsRecorded, Covered, Present
  <2>4. Held(c, next, o) /\ next # Absent
    <3>1. next # Absent
      BY <1>2, QuotaAssumption DEF Stamped
    <3>2. QED
      BY <1>1, <1>a, <2>3, <3>1 DEF InForce
  <2>5. o.key = mem'[c].key /\ Records(mem'[c].block, o) /\ mem'[c].rev = mem[c].rev
        /\ mem'[c] # Absent
    BY <1>2, <1>5, <1>6, <2>3, <2>4 DEF InForce, Held, Alike
  <2>6. Held(c, disk[c], o)' /\ Held(c, host[c], o)' /\ Held(c, gone[c], o)'
    BY <1>1, <1>6, <2>3, <2>4, <2>5 DEF InForce, Held, Alike
  <2>7. InForce(c, o)'
    BY <1>4, <2>3, <2>5, <2>6 DEF InForce, Records
  <2>8. Carried(c, o)' /\ owed'[c] = o /\ Present(c)'
    BY <1>1, <1>3, <2>2, <2>5 DEF Carried, Present
  <2>9. QED
    BY <2>7, <2>8 DEF Covered, InForce, Carried, Held, Records
<1>11. OwedIsRecorded'
  <2>1. \A e \in Creds \ {c} : /\ mem'[e] = mem[e] /\ disk'[e] = disk[e]
                               /\ host'[e] = host[e] /\ gone'[e] = gone[e]
                               /\ owed'[e] \in {owed[e], Absent}
    BY <1>1, <1>6
  <2>2. guard'.op \in {"publish", "write"} => \A e \in DOMAIN guard'.next :
          /\ guard.op \in {"publish", "write"} /\ e \in DOMAIN guard.next
          /\ guard'.next[e] = guard.next[e]
    BY <1>2, <1>3
  <2>3. QED
    BY <1>4, <1>10, <2>1, <2>2, OthersRest
<1>12. QED
  BY <1>7, <1>8, <1>9, <1>11 DEF Resting, PInv

LEMMA SaveOpenRest == ASSUME IInv, Resting, NEW c \in Creds, SaveOpen(c) PROVE Resting'
<1>1. /\ UNCHANGED <<mem, disk, host, gone, owed, news>>
      /\ guard.op = "save" /\ c \in DOMAIN guard.next /\ file = FreeFile
  BY DEF SaveOpen, history
<1>2. file.by = "free" /\ OwedIsRecorded /\ SaveKeeps
  BY <1>1 DEF FreeFile, Resting, PInv
<1>3. CASE guard' = IdleGuard /\ file' = file
  <2>1. guard.op # "publish" /\ file'.by = "free"
    BY <1>1, <1>2, <1>3
  <2>2. QED
    BY <1>1, <1>3, <2>1, FileOnlyRest
<1>4. CASE /\ mem[c] = guard.base /\ Matches(disk[c], mem[c])
           /\ file' = [by |-> "save", cred |-> c, orig |-> disk[c],
                       next |-> guard.next[c], checked |-> FALSE]
           /\ guard' = guard
  <2>1. PICK next : next = guard.next[c]
    OBVIOUS
  <2>2. file' = [by |-> "save", cred |-> c, orig |-> disk[c], next |-> next, checked |-> FALSE]
    BY <1>4, <2>1
  <2>3. /\ file'.by = "save" /\ file'.cred = c /\ file'.orig = disk[c] /\ file'.next = next
        /\ disk[c] # Absent /\ guard' = guard
    BY <1>4, <2>2 DEF Matches
  <2>4. /\ Stamped(next) /\ Keyed(next) /\ Present(c) /\ Stamped(mem[c]) /\ Keyed(mem[c])
        /\ Stamped(disk[c])
    BY <1>1, <2>1, <2>3 DEF Resting, TypedWork, TypedCopies, Present
  <2>5. TypedCopies' /\ NewsIsCarried'
    BY <1>1, <2>3 DEF Resting, TypedCopies, PInv, NewsIsCarried
  <2>6. TypedWork'
    BY <1>1, <2>3, <2>4 DEF Resting, TypedWork, Present
  <2>7. SaveKeeps'
    BY <1>1, <1>2, <1>4, <2>1, <2>3 DEF SaveKeeps
  <2>8. ASSUME NEW o, InForce(c, o) PROVE Held(c, next, o)
    <3>1. SUFFICES ASSUME next.rev = mem[c].rev PROVE Records(next.block, o)
      BY DEF Held, Alike
    <3>2. /\ next.key = mem[c].key /\ Cores(next) = Cores(Normalize(mem[c]))
      BY <1>1, <1>2, <1>4, <2>1, <2>8, <3>1 DEF SaveKeeps, InForce
    <3>3. PICK q : q = Normalize(mem[c])
      OBVIOUS
    <3>4. Kept(mem[c], q)
      BY <2>4, <3>3, NormalTyped DEF Stamped
    <3>5. /\ mem[c].block # NoBlock /\ mem[c].block.key = mem[c].key /\ o.key = mem[c].key
          /\ Records(mem[c].block, o)
      BY <2>4, <2>8 DEF InForce, Records, Keyed
    <3>6. Cores(next) = Cores(mem[c])
      BY <3>2, <3>3, <3>4, <3>5 DEF Kept
    <3>7. /\ next.block # NoBlock /\ next.block.observed = mem[c].block.observed
          /\ next.block.limits = mem[c].block.limits
      <4>1. PICK x, y : x = Core(next.block) /\ y = Core(mem[c].block)
        OBVIOUS
      <4>2. next.block # NoBlock /\ x = y
        BY <3>5, <3>6, <4>1 DEF Cores
      <4>3. /\ x.observed = next.block.observed /\ x.limits = next.block.limits
            /\ y.observed = mem[c].block.observed /\ y.limits = mem[c].block.limits
        BY <4>1 DEF Core
      <4>4. QED
        BY <4>2, <4>3
    <3>8. next.block.key = o.key
      BY <2>4, <3>2, <3>5, <3>7 DEF Keyed
    <3>9. QED
      BY <3>5, <3>7, <3>8 DEF Records
  <2>9. Covered(c)'
    <3>1. SUFFICES ASSUME owed[c] # Absent PROVE Covered(c)'
      BY <1>1 DEF Covered
    <3>2. PICK o : o = owed[c]
      OBVIOUS
    <3>3. InForce(c, o) /\ Carried(c, o)
      BY <1>2, <2>4, <3>1, <3>2 DEF OwedIsRecorded, Covered
    <3>4. Held(c, next, o) /\ Held(c, disk[c], o)
      BY <2>8, <3>3 DEF InForce
    <3>5. Held(c, file.next, o)' /\ Held(c, file.orig, o)'
      BY <1>1, <2>3, <3>4 DEF Held, Alike
    <3>6. InForce(c, o)'
      BY <1>1, <3>3, <3>5 DEF InForce, Held, Alike
    <3>7. Carried(c, o)' /\ owed'[c] = o /\ Present(c)'
      BY <1>1, <2>3, <2>4, <3>2, <3>3 DEF Carried, Present
    <3>8. QED
      BY <3>6, <3>7 DEF Covered, InForce, Carried, Held, Records
  <2>10. OwedIsRecorded'
    <3>1. \A e \in Creds \ {c} : /\ mem'[e] = mem[e] /\ disk'[e] = disk[e]
                                 /\ host'[e] = host[e] /\ gone'[e] = gone[e]
                                 /\ owed'[e] \in {owed[e], Absent}
      BY <1>1
    <3>2. guard'.op \notin {"publish", "write"} /\ file'.cred = c
      BY <1>1, <2>3
    <3>3. QED
      BY <1>2, <2>9, <3>1, <3>2, OthersRest
  <2>11. QED
    BY <2>5, <2>6, <2>7, <2>10 DEF Resting, PInv
<1>5. QED
  <2>1. \/ /\ mem[c] = guard.base /\ Matches(disk[c], mem[c])
           /\ file' = [by |-> "save", cred |-> c, orig |-> disk[c],
                       next |-> guard.next[c], checked |-> FALSE]
           /\ guard' = guard
        \/ guard' = IdleGuard /\ file' = file
    BY DEF SaveOpen
  <2>2. QED
    BY <1>3, <1>4, <2>1

(* A step that frees all the locks and touches one credential. *)
LEMMA LockFreeRest ==
  ASSUME Resting, NEW c \in Creds, guard' = IdleGuard, file'.by = "free",
         \A e \in Creds \ {c} : /\ mem'[e] = mem[e] /\ disk'[e] = disk[e]
                                /\ host'[e] = host[e] /\ gone'[e] = gone[e]
                                /\ owed'[e] \in {owed[e], Absent},
         mem'[c] # Absent => Stamped(mem'[c]) /\ Keyed(mem'[c]),
         disk'[c] # Absent => Stamped(disk'[c]),
         host'[c] # Absent => Stamped(host'[c]),
         gone'[c] # Absent => Stamped(gone'[c]),
         Covered(c)', UNCHANGED news, guard.op # "publish"
  PROVE  Resting'
<1>1. guard'.op = "idle" /\ DOMAIN guard'.next = {}
  BY DEF IdleGuard
<1>2. TypedCopies'
  BY DEF Resting, TypedCopies
<1>3. TypedWork' /\ SaveKeeps' /\ NewsIsCarried'
  BY <1>1 DEF TypedWork, SaveKeeps, NewsIsCarried, Resting, PInv
<1>4. OwedIsRecorded'
  BY <1>1, OthersRest DEF Resting, PInv
<1>5. QED
  BY <1>2, <1>3, <1>4 DEF Resting, PInv

LEMMA SaveWriteRest == ASSUME IInv, Resting, TypedHistory, SaveWrite PROVE Resting' /\ TypedHistory'
<1>a. PICK c, next : c = file.cred /\ next = file.next
  OBVIOUS
<1>1. /\ file.by = "save" /\ disk' = [disk EXCEPT ![c] = next]
      /\ mem' = [mem EXCEPT ![c] = next]
      /\ guard' = IdleGuard /\ file' = FreeFile
      /\ owed' = [owed EXCEPT ![c] = Fresh(c, next)]
      /\ UNCHANGED <<host, gone, news>>
  BY <1>a DEF SaveWrite, outside
<1>2. /\ guard.op = "save" /\ c \in Creds /\ c \in DOMAIN guard.next
      /\ Stamped(next) /\ Keyed(next) /\ Present(c) /\ next # Absent
      /\ DOMAIN mem = Creds /\ DOMAIN disk = Creds /\ DOMAIN owed = Creds
      /\ mem[c] = guard.base /\ next = guard.next[c]
  BY <1>1, <1>a, QuotaAssumption
     DEF IInv, Locks, GoodFile, Copies, Resting, TypedWork, PInv, SaveKeeps, Stamped, TypedHistory
<1>3. /\ \A e \in Creds \ {c} : mem'[e] = mem[e] /\ disk'[e] = disk[e] /\ owed'[e] = owed[e]
      /\ disk'[c] = next /\ mem'[c] = next /\ owed'[c] = Fresh(c, next)
      /\ file'.by = "free" /\ guard'.op = "idle"
  BY <1>1, <1>2 DEF FreeFile, IdleGuard
<1>4. Covered(c)'
  <2>1. SUFFICES ASSUME owed'[c] # Absent PROVE Covered(c)'
    BY DEF Covered
  <2>2. PICK o : o = owed[c]
    OBVIOUS
  <2>3. owed'[c] = o /\ o # Absent /\ o.key = next.key
    BY <1>3, <2>1, <2>2 DEF Fresh
  <2>4. InForce(c, o)
    BY <1>2, <2>2, <2>3 DEF Resting, PInv, OwedIsRecorded, Covered
  <2>5. next.key = mem[c].key
    BY <2>3, <2>4 DEF InForce
  <2>6. next.rev = mem[c].rev
    BY <1>2, <2>5 DEF Resting, PInv, SaveKeeps
  <2>7. Records(next.block, o)
    BY <1>1, <1>2, <1>a, <2>4, <2>6 DEF InForce, Held, Alike
  <2>8. mem'[c].rev # 0 /\ Held(c, disk[c], o)' /\ Held(c, host[c], o)' /\ Held(c, gone[c], o)'
    BY <1>1, <1>3, <2>4, <2>6, <2>7 DEF InForce, Held, Alike, Records
  <2>9. InForce(c, o)'
    BY <1>3, <2>3, <2>7, <2>8 DEF InForce, Records
  <2>10. Carried(c, o)' /\ Present(c)'
    BY <1>2, <1>3 DEF Carried, Present
  <2>11. QED
    BY <2>3, <2>9, <2>10 DEF Covered, InForce, Carried, Held, Records
<1>5. /\ mem'[c] # Absent => Stamped(mem'[c]) /\ Keyed(mem'[c])
      /\ disk'[c] # Absent => Stamped(disk'[c])
      /\ host'[c] # Absent => Stamped(host'[c])
      /\ gone'[c] # Absent => Stamped(gone'[c])
  BY <1>1, <1>2, <1>3 DEF Resting, TypedCopies
<1>6. Resting'
  BY <1>1, <1>2, <1>3, <1>4, <1>5, LockFreeRest
<1>7. TypedHistory'
  <2>1. owed'[c] \in {owed[c], Absent} /\ DOMAIN owed' = Creds
    BY <1>1, <1>2, <1>3 DEF Fresh
  <2>2. QED
    BY <1>1, <1>2, <1>3, <2>1 DEF TypedHistory
<1>8. QED
  BY <1>6, <1>7

LEMMA DeleteRest ==
  ASSUME IInv, Resting, TypedHistory, NEW c \in Creds, DeleteCredential(c)
  PROVE  Resting' /\ TypedHistory'
<1>1. /\ guard = IdleGuard /\ guard' = guard /\ file = FreeFile /\ file' = file
      /\ disk[c] # Absent
      /\ disk' = [disk EXCEPT ![c] = Absent] /\ mem' = [mem EXCEPT ![c] = Absent]
      /\ gone' = [gone EXCEPT ![c] = disk[c]] /\ host' = [host EXCEPT ![c] = Absent]
      /\ owed' = [owed EXCEPT ![c] = Absent] /\ news' = news
  BY DEF DeleteCredential
<1>2. /\ DOMAIN mem = Creds /\ DOMAIN disk = Creds /\ DOMAIN gone = Creds /\ DOMAIN host = Creds
      /\ DOMAIN owed = Creds
  BY DEF IInv, Copies, TypedHistory
<1>3. /\ \A e \in Creds \ {c} : /\ mem'[e] = mem[e] /\ disk'[e] = disk[e]
                                /\ host'[e] = host[e] /\ gone'[e] = gone[e]
                                /\ owed'[e] \in {owed[e], Absent}
      /\ mem'[c] = Absent /\ disk'[c] = Absent /\ host'[c] = Absent /\ gone'[c] = disk[c]
      /\ owed'[c] = Absent
  BY <1>1, <1>2
<1>4. Covered(c)' /\ guard.op # "publish" /\ file'.by = "free" /\ Stamped(disk[c])
  BY <1>1, <1>3 DEF Covered, IdleGuard, FreeFile, Resting, TypedCopies
<1>5. Resting'
  BY <1>1, <1>3, <1>4, LockFreeRest
<1>6. TypedHistory'
  BY <1>1, <1>2, <1>3 DEF TypedHistory
<1>7. QED
  BY <1>5, <1>6

-----------------------------------------------------------------------------
(* The watcher's callback, outside writes and a restart *)

LEMMA ParseReadRest == ASSUME IInv, Resting, NEW c \in Creds, ParseRead(c) PROVE Resting'
<1>1. UNCHANGED <<mem, disk, host, gone, owed, news, guard>> /\ file = FreeFile
  BY DEF ParseRead, outside, history
<1>2. file.by = "free" /\ OwedIsRecorded
  BY <1>1 DEF FreeFile, Resting, PInv
<1>3. CASE file' = file
  BY <1>1, <1>3, QuietRest
<1>4. CASE file' # file
  <2>1. disk[c] # Absent
    <3>1. gone[c] # Absent => c \in revoked
      BY DEF IInv, Deleted
    <3>2. QED
      BY <1>4, <3>1 DEF ParseRead
  <2>2. file'.by = "parse" /\ file'.cred = c /\ file'.orig = disk[c]
    <3>1. PICK checked : file' = [by |-> "parse", cred |-> c, orig |-> disk[c], next |-> Absent,
                                  checked |-> checked]
      BY <2>1 DEF ParseRead
    <3>2. QED
      BY <3>1
  <2>3. TypedCopies' /\ NewsIsCarried'
    BY <1>1 DEF Resting, TypedCopies, PInv, NewsIsCarried
  <2>4. TypedWork'
    <3>1. Stamped(disk[c])
      BY <2>1 DEF Resting, TypedCopies
    <3>2. QED
      BY <1>1, <2>2, <3>1 DEF Resting, TypedWork, Present
  <2>5. SaveKeeps'
    BY <1>1, <2>2 DEF Resting, PInv, SaveKeeps
  <2>6. Covered(c)'
    <3>1. SUFFICES ASSUME owed[c] # Absent PROVE Covered(c)'
      BY <1>1 DEF Covered
    <3>2. PICK o : o = owed[c]
      OBVIOUS
    <3>3. Carried(c, o) /\ (Present(c) => InForce(c, o)) /\ (~Present(c) => Remembered(c, o))
      BY <1>2, <3>1, <3>2 DEF OwedIsRecorded, Covered
    <3>4. Present(c) => InForce(c, o)'
      BY <1>1, <2>2, <3>3 DEF InForce, Held, Alike, Records
    <3>5. ~Present(c) => Remembered(c, o)'
      BY <1>1, <2>2, <3>3 DEF Remembered, Records
    <3>6. Carried(c, o)'
      BY <1>1, <3>3 DEF Carried, Records
    <3>7. owed'[c] = o /\ (Present(c)' <=> Present(c))
      BY <1>1, <3>2 DEF Present
    <3>8. QED
      BY <3>4, <3>5, <3>6, <3>7 DEF Covered, InForce, Remembered, Carried, Held, Records
  <2>7. OwedIsRecorded'
    <3>1. \A e \in Creds \ {c} : /\ mem'[e] = mem[e] /\ disk'[e] = disk[e]
                                 /\ host'[e] = host[e] /\ gone'[e] = gone[e]
                                 /\ owed'[e] \in {owed[e], Absent}
      BY <1>1
    <3>2. guard'.op \in {"publish", "write"} => \A e \in DOMAIN guard'.next :
            /\ guard.op \in {"publish", "write"} /\ e \in DOMAIN guard.next
            /\ guard'.next[e] = guard.next[e]
      BY <1>1
    <3>3. QED
      BY <1>2, <2>2, <2>6, <3>1, <3>2, OthersRest
  <2>8. QED
    BY <2>3, <2>4, <2>5, <2>7 DEF Resting, PInv
<1>5. QED
  BY <1>3, <1>4

(* What parseAuth arrives at: the file's copy, or its copy with the quota state
   in memory. *)
AdoptsMemory(c, p) == Present(c) /\ mem[c].key = p.key /\ mem[c].rev \notin {0, p.rev}

LEMMA ParsedTyped ==
  ASSUME NEW d, Stamped(d)
  PROVE  LET p == Parsed(d) IN
         /\ p \in Credentials /\ Stamped(p) /\ Keyed(p) /\ p.key = d.key /\ p.rev = d.rev
         /\ \A o : Records(d.block, o) /\ o.key = d.key => Records(p.block, o)
<1>1. PICK v : v = Manual(d)
  OBVIOUS
<1>2. PICK x : x = [d EXCEPT !.disabled = v]
  OBVIOUS
<1>3. PICK p : p = Normalize(x)
  OBVIOUS
<1>4. Parsed(d) = p
  BY <1>1, <1>2, <1>3, Zenon DEF Parsed
<1>5. d \in Credentials /\ v \in BOOLEAN
  BY <1>1, ManualTyped DEF Stamped
<1>6. x \in Credentials
  BY <1>2, <1>5, Editing
<1>7. x.key = d.key /\ x.rev = d.rev /\ x.block = d.block
  BY <1>2, <1>5 DEF Credentials
<1>8. p \in Credentials /\ Keyed(p) /\ Kept(x, p)
  BY <1>3, <1>6, NormalTyped
<1>9. Stamped(p) /\ p.key = d.key /\ p.rev = d.rev
  BY <1>7, <1>8 DEF Stamped, Kept
<1>10. ASSUME NEW o, Records(d.block, o), o.key = d.key PROVE Records(p.block, o)
  <2>1. Records(x.block, o) /\ o.key = x.key
    BY <1>7, <1>10
  <2>2. QED
    BY <1>8, <2>1, KeptRecords
<1>11. QED
  BY <1>4, <1>8, <1>9, <1>10

LEMMA AdoptedTyped ==
  ASSUME IInv, Resting, NEW c \in Creds, NEW p, p \in Credentials, Stamped(p), Keyed(p)
  PROVE  LET r == Adopted(c, p) IN
         /\ r \in Credentials /\ Stamped(r) /\ Keyed(r) /\ r.key = p.key /\ r # Absent
         /\ AdoptsMemory(c, p) => r.block = mem[c].block /\ r.rev = mem[c].rev
         /\ ~AdoptsMemory(c, p) => r = p
<1>1. PICK a : a = [p EXCEPT !.block = mem[c].block, !.ident = mem[c].ident, !.rev = mem[c].rev]
  OBVIOUS
<1>2. PICK r : r = Adopted(c, p)
  OBVIOUS
<1>3. /\ AdoptsMemory(c, p) => r = a
      /\ ~AdoptsMemory(c, p) => r = p
  BY <1>1, <1>2 DEF Adopted, AdoptsMemory
<1>4. ASSUME AdoptsMemory(c, p)
      PROVE  /\ a \in Credentials /\ Stamped(a) /\ Keyed(a) /\ a.key = p.key
             /\ a.block = mem[c].block /\ a.rev = mem[c].rev
  <2>1. Stamped(mem[c]) /\ Keyed(mem[c]) /\ mem[c].key = p.key
    BY <1>4 DEF Resting, TypedCopies, AdoptsMemory, Present
  <2>2. /\ a \in Credentials /\ a.key = p.key /\ a.block = mem[c].block /\ a.rev = mem[c].rev
    BY <1>1, <2>1 DEF Stamped, Credentials
  <2>3. QED
    BY <2>1, <2>2 DEF Stamped, Keyed
<1>5. p # Absent /\ (AdoptsMemory(c, p) => a # Absent)
  BY <1>4, QuotaAssumption
<1>6. QED
  BY <1>2, <1>3, <1>4, <1>5

LEMMA ParseCommitRest ==
  ASSUME IInv, Resting, TypedHistory, ParseCommit PROVE Resting' /\ TypedHistory'
<1>a. PICK c, p : c = file.cred /\ p = Parsed(file.orig)
  OBVIOUS
<1>b. PICK r : r = Adopted(c, p)
  OBVIOUS
<1>c. PICK n : n = Normalize(r)
  OBVIOUS
<1>1. /\ file.by = "parse" /\ file' = FreeFile
      /\ mem' = [mem EXCEPT ![c] = r] /\ host' = [host EXCEPT ![c] = n]
      /\ owed' = [owed EXCEPT ![c] = Fresh(c, r)]
      /\ UNCHANGED <<disk, guard, gone, news>>
  BY <1>a, <1>b, <1>c DEF ParseCommit
<1>2. /\ c \in Creds /\ Stamped(file.orig) /\ file'.by = "free"
      /\ DOMAIN mem = Creds /\ DOMAIN host = Creds /\ DOMAIN owed = Creds
      /\ OwedIsRecorded
  BY <1>1, <1>a DEF IInv, Locks, GoodFile, Copies, Resting, PInv, TypedWork, TypedHistory, FreeFile
<1>3. /\ p \in Credentials /\ Stamped(p) /\ Keyed(p) /\ p.key = file.orig.key
      /\ p.rev = file.orig.rev
      /\ \A o : Records(file.orig.block, o) /\ o.key = file.orig.key => Records(p.block, o)
  BY <1>2, <1>a, ParsedTyped
<1>4. /\ r \in Credentials /\ Stamped(r) /\ Keyed(r) /\ r.key = p.key /\ r # Absent
      /\ AdoptsMemory(c, p) => r.block = mem[c].block /\ r.rev = mem[c].rev
      /\ ~AdoptsMemory(c, p) => r = p
  BY <1>2, <1>3, <1>b, AdoptedTyped
<1>5. n \in Credentials /\ Kept(r, n) /\ Stamped(n)
  <2>1. n \in Credentials /\ Kept(r, n)
    BY <1>4, <1>c, NormalTyped
  <2>2. QED
    BY <1>4, <2>1 DEF Stamped, Kept
<1>6. /\ \A e \in Creds \ {c} : mem'[e] = mem[e] /\ host'[e] = host[e] /\ owed'[e] = owed[e]
      /\ mem'[c] = r /\ host'[c] = n /\ owed'[c] = Fresh(c, r)
  BY <1>1, <1>2
<1>7. TypedCopies'
  <2>1. ASSUME NEW e \in Creds, mem'[e] # Absent PROVE Stamped(mem'[e]) /\ Keyed(mem'[e])
    BY <1>4, <1>6, <2>1 DEF Resting, TypedCopies
  <2>2. ASSUME NEW e \in Creds, host'[e] # Absent PROVE Stamped(host'[e])
    BY <1>5, <1>6, <2>2 DEF Resting, TypedCopies
  <2>3. QED
    BY <1>1, <2>1, <2>2 DEF Resting, TypedCopies
<1>8. TypedWork'
  <2>1. ASSUME NEW e \in DOMAIN guard.next
        PROVE  /\ guard.next[e] \in Credentials /\ Keyed(guard.next[e]) /\ mem'[e] # Absent
               /\ guard.op = "save" => Stamped(guard.next[e]) /\ guard.base \in Credentials
    <3>1. /\ guard.next[e] \in Credentials /\ Keyed(guard.next[e]) /\ mem[e] # Absent /\ e \in Creds
          /\ guard.op = "save" => Stamped(guard.next[e]) /\ guard.base \in Credentials
      BY DEF Resting, TypedWork, IInv, Locks, GoodGuard, Present
    <3>2. QED
      BY <1>4, <1>6, <3>1
  <2>2. QED
    BY <1>1, <1>2, <2>1 DEF TypedWork, Present
<1>9. SaveKeeps' /\ NewsIsCarried'
  BY <1>1, <1>2 DEF SaveKeeps, NewsIsCarried, Resting, PInv
<1>10. Covered(c)'
  <2>1. SUFFICES ASSUME owed'[c] # Absent PROVE Covered(c)'
    BY DEF Covered
  <2>2. PICK o : o = owed[c]
    OBVIOUS
  <2>3. owed'[c] = o /\ o # Absent /\ o.key = r.key
    BY <1>6, <2>1, <2>2 DEF Fresh
  <2>4. Carried(c, o) /\ (Present(c) => InForce(c, o)) /\ (~Present(c) => Remembered(c, o))
    BY <1>2, <2>2, <2>3 DEF OwedIsRecorded, Covered
  <2>5. ASSUME Records(file.orig.block, o) PROVE Records(p.block, o) /\ p.rev # 0
    <3>1. Records(p.block, o)
      BY <1>3, <1>4, <2>3, <2>5
    <3>2. QED
      BY <1>3, <3>1 DEF Stamped, Records
  <2>6. Records(r.block, o) /\ r.rev # 0 /\ (Present(c) => r.rev = mem[c].rev)
    <3>1. CASE AdoptsMemory(c, p)
      BY <1>4, <2>4, <3>1 DEF AdoptsMemory, InForce
    <3>2. CASE ~AdoptsMemory(c, p) /\ Present(c)
      <4>1. r = p /\ mem[c].key = p.key /\ mem[c].rev # 0 /\ mem[c].rev = p.rev
        BY <1>4, <2>3, <2>4, <3>2 DEF AdoptsMemory, InForce
      <4>2. file.orig # Absent
        BY <1>2, QuotaAssumption DEF Stamped
      <4>3. Records(file.orig.block, o)
        BY <1>1, <1>3, <1>a, <2>4, <3>2, <4>1, <4>2 DEF InForce, Held, Alike
      <4>4. QED
        BY <2>5, <4>1, <4>3
    <3>3. CASE ~Present(c)
      <4>1. Records(file.orig.block, o)
        BY <1>1, <1>a, <2>4, <3>3 DEF Remembered
      <4>2. r = p
        BY <1>4, <3>3 DEF AdoptsMemory
      <4>3. QED
        BY <2>5, <3>3, <4>1, <4>2
    <3>4. QED
      BY <3>1, <3>2, <3>3
  <2>7. Records(n.block, o)
    BY <1>5, <2>3, <2>6, KeptRecords
  <2>8. Held(c, disk[c], o)' /\ Held(c, gone[c], o)' /\ Held(c, host[c], o)'
    <3>1. Held(c, host[c], o)'
      BY <1>6, <2>7 DEF Held, Records
    <3>2. CASE Present(c)
      BY <1>1, <1>6, <2>4, <2>6, <3>1, <3>2 DEF InForce, Held, Alike, Records
    <3>3. CASE ~Present(c)
      BY <1>1, <2>4, <3>1, <3>3 DEF Remembered, Held, Alike, Records
    <3>4. QED
      BY <3>2, <3>3
  <2>9. InForce(c, o)'
    BY <1>2, <1>6, <2>3, <2>6, <2>8 DEF InForce, Records
  <2>10. Carried(c, o)' /\ Present(c)'
    BY <1>1, <1>4, <1>6, <2>4 DEF Carried, Present, Records
  <2>11. QED
    BY <2>3, <2>9, <2>10 DEF Covered, InForce, Carried, Held, Records
<1>11. OwedIsRecorded'
  <2>1. \A e \in Creds \ {c} : /\ mem'[e] = mem[e] /\ disk'[e] = disk[e]
                               /\ host'[e] = host[e] /\ gone'[e] = gone[e]
                               /\ owed'[e] \in {owed[e], Absent}
    BY <1>1, <1>6
  <2>2. guard'.op \in {"publish", "write"} => \A e \in DOMAIN guard'.next :
          /\ guard.op \in {"publish", "write"} /\ e \in DOMAIN guard.next
          /\ guard'.next[e] = guard.next[e]
    BY <1>1
  <2>3. QED
    BY <1>2, <1>10, <2>1, <2>2, OthersRest
<1>12. TypedHistory'
  <2>1. owed'[c] \in {owed[c], Absent} /\ DOMAIN owed' = Creds
    BY <1>1, <1>2, <1>6 DEF Fresh
  <2>2. QED
    BY <1>1, <1>2, <1>6, <2>1 DEF TypedHistory
<1>13. QED
  BY <1>7, <1>8, <1>9, <1>11, <1>12 DEF Resting, PInv

LEMMA EditRest ==
  ASSUME IInv, Resting, NEW c \in Creds, EditFile(c) \/ HostSave(c) \/ RestoreFile(c)
  PROVE  Resting'
<1>1. PICK d \in Credentials :
        /\ Edit(c, d) /\ Stamped(d)
        /\ \/ /\ disk[c] # Absent /\ d.block = disk[c].block /\ d.rev = disk[c].rev
              /\ host' = host /\ gone' = gone
           \/ /\ disk[c] # Absent /\ host[c] # Absent
              /\ d.block = host[c].block /\ d.rev = host[c].rev
              /\ host' = [host EXCEPT ![c] = Absent] /\ gone' = gone
           \/ /\ disk[c] = Absent /\ gone[c] # Absent /\ d = gone[c]
              /\ gone' = [gone EXCEPT ![c] = Absent] /\ host' = host
  BY EditTyped DEF Resting
<1>2. /\ UNCHANGED <<mem, guard, file, owed, news>> /\ disk' = [disk EXCEPT ![c] = d]
      /\ DOMAIN disk = Creds /\ DOMAIN host = Creds /\ DOMAIN gone = Creds /\ OwedIsRecorded
  BY <1>1 DEF Edit, IInv, Copies, Resting, PInv
<1>3. /\ \A e \in Creds \ {c} : disk'[e] = disk[e] /\ host'[e] = host[e] /\ gone'[e] = gone[e]
      /\ disk'[c] = d /\ host'[c] \in {host[c], Absent} /\ gone'[c] \in {gone[c], Absent}
  BY <1>1, <1>2
<1>4. TypedCopies'
  <2>1. ASSUME NEW e \in Creds
        PROVE  /\ disk'[e] # Absent => Stamped(disk'[e])
               /\ host'[e] # Absent => Stamped(host'[e])
               /\ gone'[e] # Absent => Stamped(gone'[e])
    BY <1>1, <1>3 DEF Resting, TypedCopies
  <2>2. QED
    BY <1>2, <2>1 DEF Resting, TypedCopies
<1>5. TypedWork' /\ SaveKeeps' /\ NewsIsCarried'
  BY <1>2 DEF Resting, TypedWork, PInv, SaveKeeps, NewsIsCarried, Present
<1>6. Covered(c)'
  <2>1. SUFFICES ASSUME owed[c] # Absent PROVE Covered(c)'
    BY <1>2 DEF Covered
  <2>2. PICK o : o = owed[c]
    OBVIOUS
  <2>3. Carried(c, o) /\ (Present(c) => InForce(c, o)) /\ (~Present(c) => Remembered(c, o))
    BY <1>2, <2>1, <2>2 DEF OwedIsRecorded, Covered
  <2>4. ASSUME Present(c) PROVE InForce(c, o)'
    <3>1. Held(c, d, o)
      BY <1>1, <2>3, <2>4 DEF InForce, Held, Alike
    <3>2. Held(c, disk[c], o)' /\ Held(c, host[c], o)' /\ Held(c, gone[c], o)'
      BY <1>2, <1>3, <2>3, <2>4, <3>1 DEF InForce, Held, Alike, Records
    <3>3. QED
      BY <1>2, <2>3, <2>4, <3>2 DEF InForce, Held, Alike, Records
  <2>5. ASSUME ~Present(c) PROVE Remembered(c, o)'
    <3>1. disk[c] # Absent /\ host[c] = Absent /\ Records(disk[c].block, o)
      BY <2>3, <2>5 DEF Remembered
    <3>2. d.block = disk[c].block /\ host' = host /\ gone' = gone /\ d # Absent
      BY <1>1, <3>1, QuotaAssumption
    <3>3. QED
      BY <1>2, <1>3, <2>3, <2>5, <3>1, <3>2 DEF Remembered, Records
  <2>6. Carried(c, o)' /\ owed'[c] = o /\ (Present(c)' <=> Present(c))
    BY <1>2, <2>2, <2>3 DEF Carried, Present, Records
  <2>7. QED
    BY <2>4, <2>5, <2>6 DEF Covered, InForce, Remembered, Carried, Held, Records
<1>7. OwedIsRecorded'
  <2>1. \A e \in Creds \ {c} : /\ mem'[e] = mem[e] /\ disk'[e] = disk[e]
                               /\ host'[e] = host[e] /\ gone'[e] = gone[e]
                               /\ owed'[e] \in {owed[e], Absent}
    BY <1>2, <1>3
  <2>2. file' = file
    BY <1>2
  <2>3. guard'.op \in {"publish", "write"} => \A e \in DOMAIN guard'.next :
          /\ guard.op \in {"publish", "write"} /\ e \in DOMAIN guard.next
          /\ guard'.next[e] = guard.next[e]
    BY <1>2
  <2>4. QED
    BY <1>2, <1>6, <2>1, <2>2, <2>3, OthersRest
<1>8. QED
  BY <1>4, <1>5, <1>7 DEF Resting, PInv

LEMMA RestartRest == ASSUME IInv, Resting, TypedHistory, Restart PROVE Resting' /\ TypedHistory'
<1>1. /\ mem' = [c \in Creds |-> Absent] /\ host' = mem' /\ gone' = mem' /\ news' = mem'
      /\ guard' = IdleGuard /\ file' = FreeFile /\ UNCHANGED disk
      /\ owed' = [c \in Creds |->
                    IF disk[c] # Absent /\ owed[c] # Absent /\ Records(disk[c].block, owed[c])
                    THEN owed[c] ELSE Absent]
  BY DEF Restart
<1>2. file'.by = "free" /\ guard'.op = "idle" /\ DOMAIN guard'.next = {}
  BY <1>1 DEF FreeFile, IdleGuard
<1>3. TypedCopies'
  BY <1>1 DEF Resting, TypedCopies
<1>4. TypedWork' /\ SaveKeeps'
  BY <1>2 DEF TypedWork, SaveKeeps
<1>5. NewsIsCarried'
  BY <1>1 DEF NewsIsCarried
<1>6. ASSUME NEW c \in Creds PROVE Covered(c)'
  <2>1. SUFFICES ASSUME owed'[c] # Absent PROVE Covered(c)'
    BY DEF Covered
  <2>2. PICK o : o = owed[c]
    OBVIOUS
  <2>3. owed'[c] = o /\ disk[c] # Absent /\ Records(disk[c].block, o)
    BY <1>1, <2>1, <2>2
  <2>4. Remembered(c, o)' /\ ~Present(c)'
    BY <1>1, <1>2, <2>3 DEF Remembered, Present, Records
  <2>5. Carried(c, o)'
    BY <1>2 DEF Carried
  <2>6. QED
    BY <2>3, <2>4, <2>5 DEF Covered, Remembered, Carried, Records
<1>7. TypedHistory'
  <2>1. \A c \in Creds : owed'[c] \in {owed[c], Absent} /\ news'[c] = Absent
    BY <1>1
  <2>2. DOMAIN owed' = Creds /\ DOMAIN news' = Creds
    BY <1>1
  <2>3. QED
    BY <2>1, <2>2 DEF TypedHistory
<1>8. QED
  BY <1>3, <1>4, <1>5, <1>6, <1>7 DEF Resting, PInv, OwedIsRecorded

-----------------------------------------------------------------------------
(* The second invariant *)

LEMMA InitRest == Init => TInv /\ PInv
<1> SUFFICES ASSUME Init PROVE TInv /\ PInv
  OBVIOUS
<1>0. budget \in Worlds /\ MaxTime \in Nat \ {0} /\ FirstKey \in [Creds -> Keys]
  BY QuotaAssumption DEF Init
<1>1. ASSUME NEW c \in Creds, disk[c] # Absent PROVE Stamped(disk[c]) /\ Keyed(disk[c])
  <2>1. PICK i : /\ disk[c] = [key |-> FirstKey[c], disabled |-> FALSE, block |-> NoBlock,
                               ident |-> i, rev |-> 0]
                 /\ i \in {FirstKey[c], NoKey}
    BY <1>1 DEF Init
  <2>2. disk[c] \in Credentials /\ disk[c].block = NoBlock
    BY <1>0, <2>1 DEF Credentials
  <2>3. QED
    BY <2>2 DEF Stamped, Keyed
<1>2. TypedCopies
  BY <1>1 DEF Init, TypedCopies
<1>3. TypedWork /\ SaveKeeps
  BY DEF Init, TypedWork, SaveKeeps, IdleGuard, FreeFile
<1>4. TypedRest
  BY <1>0 DEF Init, TypedRest
<1>5. TypedCalls
  <2>1. Cardinality({}) = 0 /\ IsFiniteSet({})
    BY FS_EmptySet
  <2>2. budget.calls \in Nat
    BY <1>0 DEF Worlds
  <2>3. QED
    BY <2>1, <2>2 DEF Init, TypedCalls
<1>6. TypedHistory /\ NewsIsCarried /\ OwedIsRecorded
  BY DEF Init, TypedHistory, NewsIsCarried, OwedIsRecorded, Covered
<1>7. QED
  BY <1>2, <1>3, <1>4, <1>5, <1>6 DEF TInv, PInv

LEMMA NextRest == IInv /\ TInv /\ PInv /\ [Next]_vars => (TInv /\ PInv)'
<1> SUFFICES ASSUME IInv, TInv, PInv, [Next]_vars PROVE (TInv /\ PInv)'
  OBVIOUS
<1>0. Resting /\ TypedHistory /\ TypedCopies /\ TypedWork /\ TypedRest /\ TypedCalls
  BY DEF TInv, Resting
<1>1. TypedRest' /\ TypedCalls'
  BY <1>0, RestTyped, CallsTyped
<1>2. SUFFICES Resting' /\ TypedHistory'
  BY <1>1 DEF TInv, Resting
<1>3. CASE \/ \E c \in Creds : StartRequest(c) \/ StartUsage(c)
           \/ \E u \in calls : UsageAnswer(u) \/ CallEnds(u)
           \/ Tick \/ UNCHANGED vars
  <2>1. UNCHANGED <<mem, disk, host, gone, guard, file, owed, news>>
    BY <1>3 DEF StartRequest, StartUsage, UsageAnswer, CallEnds, Tick, vars, outside, history
  <2>2. QED
    BY <1>0, <2>1, QuietRest DEF TypedHistory
<1>4. ASSUME NEW u \in calls, ObserveError(u) \/ ObserveUsage(u) PROVE Resting' /\ TypedHistory'
  BY <1>4, ErrorRest, UsageRest
<1>5. CASE SaveQuotaGroup
  BY <1>5, SaveQuotaGroupRest
<1>6. CASE SaveWrite \/ ParseCommit \/ Restart
  BY <1>0, <1>6, SaveWriteRest, ParseCommitRest, RestartRest
<1>7. ASSUME NEW c \in Creds, DeleteCredential(c) PROVE Resting' /\ TypedHistory'
  BY <1>0, <1>7, DeleteRest
<1>8. CASE Reconcile \/ Compare \/ PersistFails \/ SaveFails \/ PersistWrite
  <2>1. UNCHANGED <<owed, news>>
    BY <1>8 DEF Reconcile, Compare, PersistFails, SaveFails, PersistWrite, history
  <2>2. Resting'
    BY <1>0, <1>8, ReconcileRest, CompareRest, FailRest, PersistWriteRest
  <2>3. QED
    BY <1>0, <2>1, <2>2 DEF TypedHistory
<1>9. ASSUME NEW c \in Creds,
             \/ PersistOpen(c) \/ SetEnabled(c) \/ UpdateCredential(c) \/ SaveOpen(c)
             \/ ParseRead(c) \/ EditFile(c) \/ HostSave(c) \/ RestoreFile(c)
      PROVE  Resting' /\ TypedHistory'
  <2>1. UNCHANGED <<owed, news>>
    BY <1>9, Zenon DEF PersistOpen, SetEnabled, UpdateCredential, SaveBegin, SaveOpen, ParseRead,
       EditFile, HostSave, RestoreFile, Edit, history
  <2>2. Resting'
    BY <1>0, <1>9, PersistOpenRest, SaveBeginRest, SaveOpenRest, ParseReadRest, EditRest
  <2>3. QED
    BY <1>0, <2>1, <2>2 DEF TypedHistory
<1>10. QED
  BY <1>3, <1>4, <1>5, <1>6, <1>7, <1>8, <1>9 DEF Next, CallStep, FileStep, Outside

LEMMA PauseInvariant == Spec => [](IInv /\ TInv /\ PInv)
<1>1. QED
  BY InitInv, NextInv, InitRest, NextRest, PTL DEF Spec

(* A credential whose account ran out stays paused. Whatever was under way when
   the exhaustion was published - other observations, a reconciler's write, an
   operator's save, a callback that had read the file before - and whatever the
   watcher, a host's late save, a failed or a lost write or a restart from a
   saved block brings in later, its key is not selectable until a check that
   began afterwards found room (observeQuotaError, saveQuotaGroup,
   persistQuotaCredential, and parseAuth's rule on revisions). *)
THEOREM PauseHolds == Spec => []ExhaustedStaysPaused
<1>1. IInv /\ TInv /\ PInv => ExhaustedStaysPaused
  <2>1. ASSUME TInv, PInv, NEW c \in Creds, owed[c] # Absent, Present(c)
        PROVE  Normalize(mem[c]).block # NoBlock
    <3>1. mem[c] \in Credentials /\ Keyed(mem[c]) /\ mem[c].block # NoBlock
      BY <2>1 DEF TInv, TypedCopies, Stamped, Present, PInv, OwedIsRecorded, Covered, InForce, Records
    <3>2. PICK n : n = Normalize(mem[c])
      OBVIOUS
    <3>3. Kept(mem[c], n)
      BY <3>1, <3>2, NormalTyped
    <3>4. QED
      BY <3>1, <3>2, <3>3 DEF Kept, Keyed
  <2>2. QED
    BY <2>1 DEF ExhaustedStaysPaused, Selectable
<1>2. QED
  BY <1>1, PauseInvariant, PTL

(* Every copy of a credential, in memory, in its file and in the hands of the
   host, is one the code can have, and a lock's variable says what its holder
   is doing. *)
THEOREM QuotaTypes == Spec => []TypeOK
<1>1. IInv /\ TInv => TypeOK
  <2> SUFFICES ASSUME IInv, TInv PROVE TypeOK
    OBVIOUS
  <2>1. \A c \in Creds : \A r \in {mem[c], disk[c], host[c], gone[c]} : r = Absent \/ r \in Credentials
    BY DEF TInv, TypedCopies, Stamped
  <2>2. /\ revoked \subseteq Creds /\ writeErr \subseteq Creds /\ queued \subseteq Creds
        /\ foreign \subseteq Creds
        /\ cache \in [Creds -> Keys \cup {NoKey}] /\ choice \in [Creds -> BOOLEAN]
        /\ clock \in 1..MaxTime /\ Cardinality(calls) <= budget.calls
    BY DEF TInv, TypedRest, TypedCalls, IInv, Bounded
  <2>3. /\ guard.op \in {"idle", "publish", "write", "save"}
        /\ (guard.op = "idle") = (guard = IdleGuard)
    BY DEF IInv, Locks, GoodGuard, IdleGuard
  <2>4. \A c \in DOMAIN guard.next : c \in Creds /\ guard.next[c] \in Credentials
    BY DEF IInv, Locks, GoodGuard, TInv, TypedWork
  <2>5. /\ file.by \in {"free", "persist", "save", "parse"}
        /\ (file.by = "free") = (file = FreeFile)
    BY DEF IInv, Locks, GoodFile, FreeFile
  <2>6. /\ file.by = "persist" => guard.op = "write" /\ file.cred \in DOMAIN guard.next
        /\ file.by = "save" => guard.op = "save"
    BY DEF IInv, Locks, TInv, TypedWork
  <2>7. QED
    BY <2>1, <2>2, <2>3, <2>4, <2>5, <2>6 DEF TypeOK
<1>2. QED
  BY <1>1, PauseInvariant, PTL

-----------------------------------------------------------------------------
(* What memory and file disagree on *)

(* What the block of a file records for a key. *)
Saved(d, k) == IF d.block # NoBlock /\ d.block.key = k THEN {Core(d.block)} ELSE {}

(* The holder of credentialMu has yet to write the quota state of c. *)
InWork(c) ==
  guard.op = "write" /\ c \in DOMAIN guard.next /\ guard.next[c].key = mem[c].key

(* Memory and file record the same, whether or not the watcher has been there,
   unless a write is under way or has failed, or somebody else wrote. *)
Recorded(c) ==
  Present(c) /\ disk[c] # Absent /\ c \notin foreign \cup writeErr /\ ~InWork(c)
  => Cores(mem[c]) = Saved(disk[c], mem[c].key)

(* What a callback has read has the block that the file still has. *)
Reads(c) == Reading(c) /\ c \notin foreign => disk[c].block = file.orig.block

(* A changed key is yet to be reported. *)
Reported(c) ==
  Present(c) /\ disk[c] # Absent /\ c \notin queued /\ ~Reading(c) => mem[c].key = disk[c].key

Flags(c) == Recorded(c) /\ Reads(c) /\ Reported(c)

(* And nothing overtakes a write that has opened its file. *)
FInv ==
  /\ \A c \in Creds : Flags(c)
  /\ file.by = "persist" => Newest(file.cred, file.next)

LEMMA SavedIs ==
  ASSUME NEW d \in Credentials
  PROVE  /\ Keyed(d) => Cores(d) = Saved(d, d.key)
         /\ Cores(Normalize(d)) = Saved(d, d.key) /\ Cores(Parsed(d)) = Saved(d, d.key)
<1>1. ASSUME NEW x \in Credentials PROVE Cores(Normalize(x)) = Saved(x, x.key)
  <2>1. CASE x.block # NoBlock /\ x.block.key = x.key
    <3>1. PICK n : n = Normalize(x)
      OBVIOUS
    <3>2. Kept(x, n)
      BY <1>1, <3>1, NormalTyped
    <3>3. Cores(n) = Cores(x)
      BY <2>1, <3>2 DEF Kept
    <3>4. QED
      BY <2>1, <3>1, <3>3 DEF Cores, Saved
  <2>2. CASE ~(x.block # NoBlock /\ x.block.key = x.key)
    <3>1. PICK i : i = (IF x.ident = x.key THEN x.ident ELSE NoKey)
      OBVIOUS
    <3>2. PICK n : n = [x EXCEPT !.ident = i, !.block = NoBlock]
      OBVIOUS
    <3>3. Normalize(x) = n
      BY <2>2, <3>1, <3>2 DEF Normalize
    <3>4. n.block = NoBlock
      BY <1>1, <3>2 DEF Credentials
    <3>5. QED
      BY <2>2, <3>3, <3>4 DEF Cores, Saved
  <2>3. QED
    BY <2>1, <2>2
<1>2. PICK v : v = Manual(d)
  OBVIOUS
<1>3. PICK x : x = [d EXCEPT !.disabled = v]
  OBVIOUS
<1>4. Parsed(d) = Normalize(x)
  BY <1>2, <1>3, Zenon DEF Parsed
<1>5. x \in Credentials /\ x.key = d.key /\ x.block = d.block
  <2>1. v \in BOOLEAN
    BY <1>2, ManualTyped
  <2>2. QED
    BY <1>3, <2>1 DEF Credentials
<1>6. Saved(x, x.key) = Saved(d, d.key)
  BY <1>5 DEF Saved
<1>7. QED
  BY <1>1, <1>4, <1>5, <1>6 DEF Saved, Cores, Keyed

(* A credential that a step leaves alone. *)
LEMMA SameFlags ==
  ASSUME NEW e \in Creds, Flags(e), mem'[e] = mem[e], disk'[e] = disk[e],
         e \in queued => e \in queued', e \in foreign => e \in foreign',
         e \in writeErr => e \in writeErr', InWork(e) => InWork(e)',
         Reading(e) => Reading(e)',
         Reading(e)' => Reading(e) /\ file'.orig = file.orig
  PROVE  Flags(e)'
<1>1. Recorded(e)'
  BY DEF Flags, Recorded, Present, Saved, Cores, Core
<1>2. Reads(e)' /\ Reported(e)'
  BY DEF Flags, Reads, Reported, Present
<1>3. QED
  BY <1>1, <1>2 DEF Flags

(* Steps that leave both sides alone; who holds credentialMu may change, but for
   the work under way. *)
LEMMA QuietFlags ==
  ASSUME FInv, UNCHANGED <<mem, disk, queued, foreign, writeErr>>,
         guard' = guard \/ guard.op # "write",
         file.by = "parse" \/ file'.by = "parse" => file' = file,
         file'.by = "persist" =>
           file.by = "persist" /\ file'.cred = file.cred /\ file'.next = file.next
  PROVE  FInv'
<1>1. ASSUME NEW e \in Creds PROVE Flags(e)'
  <2>1. InWork(e) => InWork(e)'
    BY DEF InWork
  <2>2. Reading(e) => Reading(e)'
    BY DEF Reading
  <2>3. Reading(e)' => Reading(e) /\ file'.orig = file.orig
    BY DEF Reading
  <2>4. QED
    BY <2>1, <2>2, <2>3, SameFlags DEF FInv
<1>2. file'.by = "persist" => Newest(file.cred, file.next)'
  BY DEF FInv, Newest, Present
<1>3. QED
  BY <1>1, <1>2 DEF FInv, Newest, Present

LEMMA QuietStepsFlags ==
  ASSUME IInv, FInv,
         \/ \E c \in Creds : StartRequest(c) \/ StartUsage(c)
         \/ \E u \in calls : UsageAnswer(u) \/ CallEnds(u) \/ ObserveError(u) \/ ObserveUsage(u)
         \/ Tick \/ UNCHANGED vars \/ Reconcile
         \/ \E c \in Creds : SetEnabled(c) \/ UpdateCredential(c)
  PROVE  FInv'
<1>1. /\ UNCHANGED <<mem, disk, queued, foreign, writeErr, file>>
      /\ guard' = guard \/ guard = IdleGuard
  BY Zenon DEF StartRequest, StartUsage, UsageAnswer, CallEnds, ObserveError, ObserveUsage, Tick, vars,
     outside, history, Reconcile, SetEnabled, UpdateCredential, SaveBegin
<1>2. guard = IdleGuard => guard.op # "write"
  BY DEF IdleGuard
<1>3. QED
  BY <1>1, <1>2, QuietFlags

LEMMA SaveStepsFlags ==
  ASSUME IInv, FInv, Compare \/ SaveFails \/ \E c \in Creds : SaveOpen(c)
  PROVE  FInv'
<1>1. UNCHANGED <<mem, disk, queued, foreign, writeErr>>
  BY DEF Compare, SaveFails, SaveOpen, outside, history
<1>2. CASE Compare
  <2>1. guard' = guard /\ file.by \in {"persist", "save"} /\ file' = [file EXCEPT !.checked = TRUE]
    BY <1>2 DEF Compare, outside, history
  <2>2. file'.by = file.by /\ file'.cred = file.cred /\ file'.next = file.next
    BY <2>1 DEF IInv, Locks, GoodFile
  <2>3. QED
    BY <1>1, <2>1, <2>2, QuietFlags
<1>3. CASE SaveFails
  <2>1. file.by = "save" /\ file' = FreeFile
    BY <1>3 DEF SaveFails
  <2>2. guard.op # "write" /\ file'.by = "free"
    BY <2>1 DEF IInv, Locks, FreeFile
  <2>3. QED
    BY <1>1, <2>1, <2>2, QuietFlags
<1>4. ASSUME NEW c \in Creds, SaveOpen(c) PROVE FInv'
  <2>1. /\ guard.op = "save" /\ file = FreeFile
        /\ file' = file \/ \E orig, next : file' = [by |-> "save", cred |-> c, orig |-> orig,
                                                     next |-> next, checked |-> FALSE]
    BY <1>4 DEF SaveOpen
  <2>2. file.by = "free" /\ file'.by \in {"free", "save"}
    BY <2>1 DEF FreeFile
  <2>3. QED
    BY <1>1, <2>1, <2>2, QuietFlags
<1>5. QED
  BY <1>2, <1>3, <1>4

(* A published block is on its way to the file. *)
LEMMA SaveQuotaGroupFlags == ASSUME IInv, TInv, FInv, SaveQuotaGroup PROVE FInv'
<1>1. UNCHANGED <<disk, queued, foreign, writeErr, file>> /\ guard.op = "publish"
  BY DEF SaveQuotaGroup, outside
<1>a. PICK kept, changed, writes, n :
        /\ kept = {c \in DOMAIN guard.next : Present(c) /\ mem[c].key = guard.next[c].key}
        /\ changed = {c \in kept : ~QuotaStateEqual(mem[c], guard.next[c])}
        /\ writes = changed \cup (kept \cap writeErr)
        /\ n = [c \in writes |-> guard.next[c]]
  OBVIOUS
<1>b. PICK q : q = [c \in Creds |-> [mem[c] EXCEPT !.block = guard.next[c].block,
                                              !.ident = guard.next[c].ident,
                                              !.rev = FreshRevision(c)]]
  OBVIOUS
<1>c. guard' = IF writes = {} THEN IdleGuard
              ELSE [op |-> "write", base |-> Absent, next |-> n]
  BY <1>a DEF SaveQuotaGroup
<1>d. mem' = [c \in Creds |-> IF c \in changed /\ guard.next[c].block # NoBlock
                             THEN q[c] ELSE mem[c]]
  <2>1. mem' = [c \in Creds |-> IF c \in changed /\ guard.next[c].block # NoBlock
                             THEN [mem[c] EXCEPT !.block = guard.next[c].block,
                                                 !.ident = guard.next[c].ident,
                                                 !.rev = FreshRevision(c)]
                             ELSE mem[c]]
    BY <1>a, Zenon DEF SaveQuotaGroup
  <2>2. QED
    BY <1>b, <2>1
<1>2. file.by # "persist"
  BY <1>1 DEF IInv, Locks
<1>3. ASSUME NEW e \in Creds
      PROVE  /\ mem'[e] = mem[e] \/ (e \in writes /\ Present(e) /\ mem'[e].key = mem[e].key)
  <2>1. CASE e \in changed /\ guard.next[e].block # NoBlock
    <3>1. PICK x, i, v : /\ x = guard.next[e].block /\ i = guard.next[e].ident
                         /\ v = FreshRevision(e)
      OBVIOUS
    <3>2. PICK m : m = [mem[e] EXCEPT !.block = x, !.ident = i, !.rev = v]
      OBVIOUS
    <3>3. mem'[e] = m
      <4>1. q[e] = m
        BY <1>b, <3>1, <3>2, Zenon
      <4>2. QED
        BY <1>d, <2>1, <4>1
    <3>4. Present(e) /\ mem[e] \in Credentials /\ e \in writes
      BY <1>a, <2>1 DEF TInv, TypedCopies, Stamped, Present
    <3>5. m.key = mem[e].key
      BY <3>2, <3>4 DEF Credentials
    <3>6. QED
      BY <3>3, <3>4, <3>5
  <2>2. CASE ~(e \in changed /\ guard.next[e].block # NoBlock)
    BY <1>d, <2>2
  <2>3. QED
    BY <2>1, <2>2
<1>4. ASSUME NEW e \in writes, e \in Creds, mem'[e].key = mem[e].key PROVE InWork(e)'
  <2>1. guard' = [op |-> "write", base |-> Absent, next |-> n]
    BY <1>c, <1>4
  <2>2. guard'.op = "write" /\ guard'.next = n
    BY <2>1
  <2>3. e \in DOMAIN n /\ n[e].key = mem[e].key
    BY <1>a, <1>4
  <2>4. QED
    BY <1>4, <2>2, <2>3 DEF InWork
<1>5. ASSUME NEW e \in Creds PROVE Flags(e)'
  <2>1. CASE mem'[e] = mem[e]
    <3>1. ~InWork(e) /\ (Reading(e)' <=> Reading(e)) /\ file'.orig = file.orig
      BY <1>1 DEF InWork, Reading
    <3>2. QED
      BY <1>1, <2>1, <3>1, SameFlags DEF FInv
  <2>2. CASE e \in writes /\ Present(e) /\ mem'[e].key = mem[e].key
    <3>1. InWork(e)' /\ Flags(e)
      BY <1>4, <2>2 DEF FInv
    <3>2. QED
      BY <1>1, <2>2, <3>1 DEF Flags, Recorded, Reads, Reported, Reading
  <2>3. QED
    BY <1>3, <2>1, <2>2
<1>6. QED
  BY <1>1, <1>2, <1>5 DEF FInv

-----------------------------------------------------------------------------
(* Steps that write one credential *)

LEMMA OneFlags ==
  ASSUME FInv, NEW c \in Creds, Flags(c)',
         \A e \in Creds \ {c} :
           /\ mem'[e] = mem[e] /\ disk'[e] = disk[e]
           /\ e \in queued => e \in queued'
           /\ e \in foreign => e \in foreign'
           /\ e \in writeErr => e \in writeErr'
           /\ InWork(e) => InWork(e)',
         file' = file \/ ((file.by = "parse" => file.cred = c) /\ (file'.by = "parse" => file'.cred = c)),
         (file.by = "persist" => Newest(file.cred, file.next))'
  PROVE  FInv'
<1>1. ASSUME NEW e \in Creds \ {c} PROVE Flags(e)'
  <2>1. Reading(e)' <=> Reading(e)
    BY DEF Reading
  <2>2. Reading(e)' => file'.orig = file.orig
    BY DEF Reading
  <2>3. QED
    BY <2>1, <2>2, SameFlags DEF FInv
<1>2. QED
  BY <1>1 DEF FInv

(* The other writes stay in the work of whoever holds credentialMu. *)
LEMMA WrittenKeeps ==
  ASSUME IInv, guard.op = "write", NEW c, guard' = Written(c),
         NEW e \in Creds \ {c}, mem'[e] = mem[e], InWork(e)
  PROVE  InWork(e)'
<1>1. PICK rest, n : rest = DOMAIN guard.next \ {c} /\ n = [d \in rest |-> guard.next[d]]
  OBVIOUS
<1>2. e \in rest /\ guard.next[e].key = mem[e].key
  BY <1>1 DEF InWork
<1>3. PICK g : g = [guard EXCEPT !.next = n]
  OBVIOUS
<1>4. guard' = g
  BY <1>1, <1>2, <1>3 DEF Written
<1>5. g = [op |-> "write", base |-> guard.base, next |-> n]
  BY <1>3 DEF IInv, Locks, GoodGuard
<1>6. guard'.op = "write" /\ guard'.next = n
  BY <1>4, <1>5
<1>7. QED
  BY <1>1, <1>2, <1>6 DEF InWork

LEMMA PersistOpenFlags ==
  ASSUME IInv, TInv, PInv, FInv, NEW c \in Creds, PersistOpen(c) PROVE FInv'
<1>1. /\ UNCHANGED <<disk, queued, foreign>>
      /\ guard.op = "write" /\ c \in DOMAIN guard.next /\ file = FreeFile
  BY DEF PersistOpen, history
<1>2. file.by = "free" /\ Present(c) /\ DOMAIN mem = Creds /\ Flags(c)
      /\ mem[c] \in Credentials /\ guard.next[c] \in Credentials
  BY <1>1 DEF FreeFile, TInv, TypedWork, TypedCopies, Stamped, Present, IInv, Copies, FInv
<1>3. CASE mem[c].key # guard.next[c].key
  <2>1. guard' = Written(c) /\ UNCHANGED <<mem, writeErr, file>>
    BY <1>3 DEF PersistOpen
  <2>2. ~InWork(c) /\ ~Reading(c) /\ ~Reading(c)'
    BY <1>2, <1>3, <2>1 DEF InWork, Reading
  <2>3. Flags(c)'
    BY <1>1, <1>2, <2>1, <2>2, SameFlags
  <2>4. \A e \in Creds \ {c} : InWork(e) => InWork(e)'
    BY <1>1, <2>1, WrittenKeeps
  <2>5. (file.by = "persist" => Newest(file.cred, file.next))'
    BY <1>2, <2>1
  <2>6. QED
    BY <1>1, <2>1, <2>3, <2>4, <2>5, OneFlags
<1>4. CASE mem[c].key = guard.next[c].key
  <2>a. PICK g, v : g = guard.next[c] /\ v = FreshRevision(c)
    OBVIOUS
  <2>b. PICK x : x = [g EXCEPT !.disabled = mem[c].disabled]
    OBVIOUS
  <2>c. PICK y, next : y = Normalize(x) /\ next = [y EXCEPT !.rev = v]
    OBVIOUS
  <2>1. NextQuota(c) = next
    BY <2>a, <2>b, <2>c, Zenon DEF NextQuota
  <2>2. next.key = mem[c].key
    <3>1. mem[c].disabled \in BOOLEAN
      BY <1>2 DEF Credentials
    <3>2. x \in Credentials /\ x.key = g.key
      BY <1>2, <2>a, <2>b, <3>1 DEF Credentials
    <3>3. y \in Credentials /\ y.key = x.key
      BY <2>c, <3>2, NormalTyped DEF Kept
    <3>4. next.key = y.key
      BY <2>c, <3>3 DEF Credentials
    <3>5. QED
      BY <1>4, <2>a, <3>2, <3>3, <3>4
  <2>3. \E b, i : mem' = [mem EXCEPT ![c] = [mem[c] EXCEPT !.rev = next.rev, !.block = b, !.ident = i]]
    <3>1. LET u == IF NextQuota(c).block # NoBlock THEN NextQuota(c) ELSE mem[c]
          IN mem' = [mem EXCEPT ![c] = [@ EXCEPT !.rev = NextQuota(c).rev, !.block = u.block,
                                                 !.ident = u.ident]]
      BY <1>2, <1>4, Zenon DEF PersistOpen
    <3>2. PICK q : q = NextQuota(c)
      OBVIOUS
    <3>3. LET u == IF q.block # NoBlock THEN q ELSE mem[c]
          IN mem' = [mem EXCEPT ![c] = [@ EXCEPT !.rev = q.rev, !.block = u.block, !.ident = u.ident]]
      BY <3>1, <3>2, Zenon
    <3>4. PICK u : u = IF q.block # NoBlock THEN q ELSE mem[c]
      OBVIOUS
    <3>5. mem' = [mem EXCEPT ![c] = [@ EXCEPT !.rev = q.rev, !.block = u.block, !.ident = u.ident]]
      BY <3>3, <3>4
    <3>6. q = next
      BY <2>1, <3>2
    <3>7. QED
      BY <3>5, <3>6
  <2>4. PICK m : /\ mem' = [mem EXCEPT ![c] = m] /\ m.key = mem[c].key
                 /\ m.rev = next.rev
    <3>1. PICK b, i : mem' = [mem EXCEPT ![c] = [mem[c] EXCEPT !.rev = next.rev, !.block = b, !.ident = i]]
      BY <2>3
    <3>2. PICK m : m = [mem[c] EXCEPT !.rev = next.rev, !.block = b, !.ident = i]
      OBVIOUS
    <3>3. mem' = [mem EXCEPT ![c] = m]
      BY <3>1, <3>2
    <3>4. m.key = mem[c].key /\ m.rev = next.rev
      BY <1>2, <3>2 DEF Credentials
    <3>5. QED
      BY <3>3, <3>4
  <2>5. mem'[c] = m /\ \A e \in Creds \ {c} : mem'[e] = mem[e]
    BY <1>2, <2>4
  <2>6. Reported(c)'
    BY <1>1, <1>2, <2>4, <2>5 DEF Flags, Reported, Reading
  <2>7. CASE /\ guard' = guard /\ UNCHANGED writeErr
             /\ file' = [by |-> "persist", cred |-> c, orig |-> disk[c],
                         next |-> NextQuota(c), checked |-> FALSE]
    <3>1. file' = [by |-> "persist", cred |-> c, orig |-> disk[c], next |-> next, checked |-> FALSE]
      BY <2>1, <2>7
    <3>2. file'.by = "persist" /\ file'.cred = c /\ file'.next = next
      BY <3>1
    <3>3. Present(c)'
      BY <1>1, <2>7, PersistOpenRest DEF TInv, Resting, TypedWork
    <3>4. (file.by = "persist" => Newest(file.cred, file.next))'
      BY <2>2, <2>4, <2>5, <3>2, <3>3 DEF Newest, Present
    <3>5. InWork(c)'
      BY <1>1, <1>4, <2>4, <2>5, <2>7 DEF InWork
    <3>6. Flags(c)'
      BY <2>6, <3>2, <3>5 DEF Flags, Recorded, Reads, Reading
    <3>7. \A e \in Creds \ {c} : InWork(e) => InWork(e)'
      BY <2>5, <2>7 DEF InWork
    <3>8. QED
      BY <1>1, <1>2, <2>5, <2>7, <3>2, <3>4, <3>6, <3>7, OneFlags
  <2>8. CASE guard' = Written(c) /\ file' = file /\ writeErr' = writeErr \cup {c}
    <3>1. Flags(c)'
      BY <1>2, <2>6, <2>8 DEF Flags, Recorded, Reads, Reading
    <3>2. \A e \in Creds \ {c} : InWork(e) => InWork(e)'
      BY <1>1, <2>5, <2>8, WrittenKeeps
    <3>3. (file.by = "persist" => Newest(file.cred, file.next))'
      BY <1>2, <2>8
    <3>4. QED
      BY <1>1, <2>5, <2>8, <3>1, <3>2, <3>3, OneFlags
  <2>9. \/ /\ guard' = guard /\ UNCHANGED writeErr
           /\ file' = [by |-> "persist", cred |-> c, orig |-> disk[c],
                       next |-> NextQuota(c), checked |-> FALSE]
        \/ guard' = Written(c) /\ file' = file /\ writeErr' = writeErr \cup {c}
    BY <1>2, <1>4, Zenon DEF PersistOpen
  <2>10. QED
    BY <2>7, <2>8, <2>9
<1>5. QED
  BY <1>3, <1>4

LEMMA PersistFailsFlags == ASSUME IInv, TInv, FInv, PersistFails PROVE FInv'
<1>a. PICK c : c = file.cred
  OBVIOUS
<1>1. /\ UNCHANGED <<mem, disk, queued, foreign>> /\ file.by = "persist" /\ file' = FreeFile
      /\ guard' = Written(c) /\ writeErr' = writeErr \cup {c}
  BY <1>a DEF PersistFails, history, FInv
<1>2. c \in Creds /\ guard.op = "write" /\ file'.by = "free" /\ Flags(c)
  BY <1>1, <1>a DEF IInv, Locks, GoodFile, FreeFile, FInv
<1>3. Flags(c)'
  BY <1>1, <1>2 DEF Flags, Recorded, Reads, Reported, Reading, Present
<1>4. \A e \in Creds \ {c} : InWork(e) => InWork(e)'
  BY <1>1, <1>2, WrittenKeeps
<1>5. QED
  BY <1>1, <1>2, <1>3, <1>4, OneFlags

LEMMA PersistWriteFlags == ASSUME IInv, TInv, FInv, PersistWrite PROVE FInv'
<1>a. PICK c, next : c = file.cred /\ next = file.next
  OBVIOUS
<1>b. PICK m : m = [mem[c] EXCEPT !.block = next.block, !.ident = next.ident]
  OBVIOUS
<1>0. file.by = "persist" /\ Newest(c, next)
  BY <1>a DEF PersistWrite, FInv
<1>1. /\ disk' = [disk EXCEPT ![c] = next] /\ mem' = [mem EXCEPT ![c] = m]
      /\ writeErr' = writeErr \ {c} /\ queued' = queued \cup {c} /\ foreign' = foreign \ {c}
      /\ guard' = Written(c) /\ file' = FreeFile
  BY <1>0, <1>a, <1>b DEF PersistWrite
<1>2. /\ c \in Creds /\ guard.op = "write" /\ file'.by = "free" /\ Flags(c)
      /\ Stamped(next) /\ Keyed(next) /\ mem[c] \in Credentials
      /\ DOMAIN mem = Creds /\ DOMAIN disk = Creds
  BY <1>0, <1>1, <1>a DEF IInv, Locks, GoodFile, FreeFile, FInv, Copies, TInv, TypedWork, TypedCopies,
     Stamped, Newest, Present
<1>3. /\ mem'[c] = m /\ disk'[c] = next
      /\ \A e \in Creds \ {c} : mem'[e] = mem[e] /\ disk'[e] = disk[e]
  BY <1>1, <1>2
<1>4. m.key = next.key /\ m.block = next.block
  BY <1>0, <1>2, <1>b DEF Credentials, Newest
<1>5. Cores(m) = Saved(next, m.key)
  <2>1. Cores(next) = Saved(next, next.key)
    BY <1>2, SavedIs DEF Stamped
  <2>2. QED
    BY <1>4, <2>1 DEF Cores
<1>6. Flags(c)'
  BY <1>2, <1>3, <1>4, <1>5 DEF Flags, Recorded, Reads, Reported, Reading, Saved, Cores
<1>7. \A e \in Creds \ {c} : InWork(e) => InWork(e)'
  BY <1>1, <1>2, <1>3, WrittenKeeps
<1>8. QED
  BY <1>0, <1>1, <1>2, <1>3, <1>6, <1>7, OneFlags

LEMMA SaveWriteFlags == ASSUME IInv, TInv, FInv, SaveWrite PROVE FInv'
<1>a. PICK c, next : c = file.cred /\ next = file.next
  OBVIOUS
<1>1. /\ file.by = "save" /\ disk' = [disk EXCEPT ![c] = next] /\ mem' = [mem EXCEPT ![c] = next]
      /\ writeErr' \in {writeErr, writeErr \ {c}}
      /\ queued' = queued \cup {c} /\ foreign' = foreign \ {c}
      /\ guard' = IdleGuard /\ file' = FreeFile
  BY <1>a DEF SaveWrite
<1>2. /\ c \in Creds /\ guard.op = "save" /\ file'.by = "free"
      /\ Stamped(next) /\ Keyed(next) /\ DOMAIN mem = Creds /\ DOMAIN disk = Creds
  BY <1>1, <1>a DEF IInv, Locks, GoodFile, FreeFile, Copies, TInv, TypedWork
<1>3. /\ mem'[c] = next /\ disk'[c] = next
      /\ \A e \in Creds \ {c} : mem'[e] = mem[e] /\ disk'[e] = disk[e]
  BY <1>1, <1>2
<1>4. Cores(next) = Saved(next, next.key)
  BY <1>2, SavedIs DEF Stamped
<1>5. Flags(c)'
  BY <1>2, <1>3, <1>4 DEF Flags, Recorded, Reads, Reported, Reading, Saved, Cores
<1>6. \A e \in Creds \ {c} : ~InWork(e)
  BY <1>2 DEF InWork
<1>7. QED
  BY <1>1, <1>2, <1>3, <1>5, <1>6, OneFlags

LEMMA DeleteFlags ==
  ASSUME IInv, FInv, NEW c \in Creds, DeleteCredential(c) PROVE FInv'
<1>1. /\ guard = IdleGuard /\ file = FreeFile
      /\ disk' = [disk EXCEPT ![c] = Absent] /\ mem' = [mem EXCEPT ![c] = Absent]
      /\ queued' = queued \cup {c} /\ foreign' = foreign \ {c}
      /\ UNCHANGED <<writeErr, guard, file>>
  BY DEF DeleteCredential
<1>2. guard.op = "idle" /\ file.by = "free" /\ DOMAIN mem = Creds /\ DOMAIN disk = Creds
  BY <1>1 DEF IdleGuard, FreeFile, IInv, Copies
<1>3. /\ mem'[c] = Absent /\ \A e \in Creds \ {c} : mem'[e] = mem[e] /\ disk'[e] = disk[e]
  BY <1>1, <1>2
<1>4. Flags(c)'
  BY <1>1, <1>2, <1>3 DEF Flags, Recorded, Reads, Reported, Reading, Present
<1>5. \A e \in Creds \ {c} : ~InWork(e)
  BY <1>2 DEF InWork
<1>6. QED
  BY <1>1, <1>2, <1>3, <1>4, <1>5, OneFlags

LEMMA ParseReadFlags ==
  ASSUME IInv, FInv, NEW c \in Creds, ParseRead(c) PROVE FInv'
<1>1. /\ UNCHANGED <<mem, disk, foreign, writeErr, guard>> /\ queued' = queued \ {c}
      /\ file = FreeFile
  BY DEF ParseRead, history
<1>2. file.by = "free" /\ Flags(c)
  BY <1>1 DEF FreeFile, FInv
<1>3. (InWork(c)' <=> InWork(c)) /\ \A e \in Creds \ {c} : InWork(e) => InWork(e)'
  BY <1>1 DEF InWork
<1>4. CASE disk[c] = Absent
  <2>1. file' = file
    <3>1. gone[c] # Absent => c \in revoked
      BY DEF IInv, Deleted
    <3>2. QED
      BY <1>4, <3>1 DEF ParseRead
  <2>2. Flags(c)'
    BY <1>1, <1>2, <1>4, <2>1 DEF Flags, Recorded, Reads, Reported, Reading
  <2>3. QED
    BY <1>1, <1>2, <1>3, <2>1, <2>2, OneFlags
<1>5. CASE disk[c] # Absent
  <2>1. PICK checked : file' = [by |-> "parse", cred |-> c, orig |-> disk[c], next |-> Absent,
                                checked |-> checked]
    BY <1>5 DEF ParseRead
  <2>2. file'.by = "parse" /\ file'.cred = c /\ file'.orig = disk[c]
    BY <2>1
  <2>3. Recorded(c)'
    BY <1>1, <1>2, <1>3 DEF Flags, Recorded, Present, Saved, Cores
  <2>4. Reads(c)' /\ Reported(c)'
    BY <1>1, <2>2 DEF Reads, Reported, Reading
  <2>5. Flags(c)'
    BY <2>3, <2>4 DEF Flags
  <2>6. QED
    BY <1>1, <1>2, <1>3, <2>2, <2>5, OneFlags
<1>6. QED
  BY <1>4, <1>5

LEMMA ParseCommitFlags == ASSUME IInv, TInv, PInv, FInv, ParseCommit PROVE FInv'
<1>a. PICK c, d, p : c = file.cred /\ d = file.orig /\ p = Parsed(d)
  OBVIOUS
<1>b. PICK r : r = Adopted(c, p)
  OBVIOUS
<1>c. PICK cleared : cleared = IF Present(c) /\ mem[c].key # r.key THEN {c} ELSE {}
  OBVIOUS
<1>1. /\ file.by = "parse" /\ file' = FreeFile
      /\ mem' = [mem EXCEPT ![c] = r]
      /\ UNCHANGED <<disk, guard, queued>>
      /\ foreign' = IF r = p /\ disk[c] = d THEN foreign \ {c} ELSE foreign
  BY <1>a, <1>b DEF ParseCommit
<1>2. writeErr \ cleared \subseteq writeErr'
  BY <1>a, <1>b, <1>c DEF ParseCommit
<1>3. /\ c \in Creds /\ Stamped(d) /\ file'.by = "free" /\ DOMAIN mem = Creds /\ Flags(c)
      /\ Reading(c) /\ (disk[c] = d \/ c \in queued)
  BY <1>1, <1>a DEF IInv, Locks, GoodFile, Copies, TInv, TypedWork, FreeFile, FInv, Reading, Chosen
<1>4. p \in Credentials /\ Stamped(p) /\ Keyed(p) /\ p.key = d.key
  BY <1>3, <1>a, ParsedTyped
<1>5. /\ r.key = p.key /\ (AdoptsMemory(c, p) => r.block = mem[c].block)
      /\ (~AdoptsMemory(c, p) => r = p)
  BY <1>3, <1>4, <1>b, AdoptedTyped DEF TInv, Resting
<1>6. mem'[c] = r /\ \A e \in Creds \ {c} : mem'[e] = mem[e]
  BY <1>1, <1>3
<1>7. Cores(p) = Saved(d, p.key)
  BY <1>3, <1>4, <1>a, SavedIs DEF Stamped
<1>8. ASSUME r = p, disk[c] = d \/ c \notin foreign PROVE Cores(r) = Saved(disk[c], r.key)
  <2>1. disk[c].block = d.block
    BY <1>3, <1>8, <1>a DEF Flags, Reads
  <2>2. QED
    BY <1>7, <1>8, <2>1 DEF Saved
<1>9. Recorded(c)'
  <2>1. SUFFICES ASSUME disk[c] # Absent, c \notin foreign', c \notin writeErr', ~InWork(c)'
                 PROVE  Cores(r) = Saved(disk[c], r.key)
    BY <1>1, <1>6 DEF Recorded, Cores, Saved
  <2>2. CASE r = p
    BY <1>1, <1>8, <2>1, <2>2
  <2>3. CASE r # p
    <3>1. AdoptsMemory(c, p) /\ c \notin foreign
      BY <1>1, <1>5, <2>1, <2>3
    <3>2. Present(c) /\ mem[c].key = r.key /\ Cores(r) = Cores(mem[c])
      BY <1>5, <3>1 DEF AdoptsMemory, Cores
    <3>3. c \notin writeErr /\ ~InWork(c)
      BY <1>1, <1>2, <1>6, <1>c, <2>1, <3>2 DEF InWork
    <3>4. Cores(mem[c]) = Saved(disk[c], mem[c].key)
      BY <1>3, <2>1, <3>1, <3>2, <3>3 DEF Flags, Recorded
    <3>5. QED
      BY <3>2, <3>4
  <2>4. QED
    BY <2>2, <2>3
<1>10. Flags(c)'
  <2>1. Reads(c)'
    BY <1>3 DEF Reads, Reading
  <2>2. Reported(c)'
    BY <1>1, <1>3, <1>4, <1>5, <1>6 DEF Reported
  <2>3. QED
    BY <1>9, <2>1, <2>2 DEF Flags
<1>11. ASSUME NEW e \in Creds \ {c}
       PROVE  /\ e \in foreign => e \in foreign'
              /\ e \in writeErr => e \in writeErr'
              /\ InWork(e) => InWork(e)'
  BY <1>1, <1>2, <1>6, <1>c DEF InWork
<1>12. QED
  BY <1>1, <1>3, <1>6, <1>10, <1>11, <1>a, OneFlags

LEMMA EditFlags ==
  ASSUME IInv, TInv, FInv, NEW c \in Creds, EditFile(c) \/ HostSave(c) \/ RestoreFile(c)
  PROVE  FInv'
<1>1. PICK d \in Credentials : Edit(c, d)
  BY EditTyped DEF TInv
<1>2. /\ UNCHANGED <<mem, guard, file, writeErr>> /\ disk' = [disk EXCEPT ![c] = d]
      /\ queued' = queued \cup {c} /\ DOMAIN disk = Creds
      /\ foreign' = IF disk[c] # Absent /\ d.block = disk[c].block THEN foreign ELSE foreign \cup {c}
  BY <1>1, Zenon DEF Edit, IInv, Copies
<1>3. disk'[c] = d /\ \A e \in Creds \ {c} : disk'[e] = disk[e]
  BY <1>2
<1>4. \A e \in Creds : (InWork(e)' <=> InWork(e)) /\ (Reading(e)' <=> Reading(e))
  BY <1>2 DEF InWork, Reading
<1>5. c \notin foreign' => disk[c] # Absent /\ d.block = disk[c].block /\ c \notin foreign
  BY <1>2
<1>6. Flags(c)'
  <2>1. Flags(c)
    BY DEF FInv
  <2>2. Recorded(c)'
    BY <1>2, <1>3, <1>4, <1>5, <2>1 DEF Flags, Recorded, Present, Saved, Cores
  <2>3. Reads(c)' /\ Reported(c)'
    BY <1>2, <1>3, <1>4, <1>5, <2>1 DEF Flags, Reads, Reported
  <2>4. QED
    BY <2>2, <2>3 DEF Flags
<1>7. (file.by = "persist" => Newest(file.cred, file.next))'
  BY <1>2 DEF FInv, Newest, Present
<1>8. QED
  BY <1>2, <1>3, <1>4, <1>6, <1>7, OneFlags

LEMMA RestartFlags == Restart => FInv'
<1> SUFFICES ASSUME Restart PROVE FInv'
  OBVIOUS
<1>1. mem' = [c \in Creds |-> Absent] /\ file' = FreeFile
  BY DEF Restart
<1>2. file'.by = "free"
  BY <1>1 DEF FreeFile
<1>3. ASSUME NEW c \in Creds PROVE Flags(c)'
  BY <1>1, <1>2 DEF Flags, Recorded, Reads, Reported, Reading, Present
<1>4. QED
  BY <1>2, <1>3 DEF FInv

LEMMA InitFlags == Init => FInv
<1> SUFFICES ASSUME Init PROVE FInv
  OBVIOUS
<1>1. mem = disk /\ file.by = "free"
  BY DEF Init, FreeFile
<1>2. ASSUME NEW c \in Creds, disk[c] # Absent PROVE disk[c].block = NoBlock
  BY <1>2 DEF Init
<1>3. ASSUME NEW c \in Creds PROVE Flags(c)
  BY <1>1, <1>2 DEF Flags, Recorded, Reads, Reported, Reading, Present, Saved, Cores
<1>4. QED
  BY <1>1, <1>3 DEF FInv

LEMMA NextFlags == IInv /\ TInv /\ PInv /\ FInv /\ [Next]_vars => FInv'
<1> SUFFICES ASSUME IInv, TInv, PInv, FInv, [Next]_vars PROVE FInv'
  OBVIOUS
<1>1. CASE \/ \E c \in Creds : StartRequest(c) \/ StartUsage(c)
           \/ \E u \in calls : UsageAnswer(u) \/ CallEnds(u) \/ ObserveError(u) \/ ObserveUsage(u)
           \/ Tick \/ UNCHANGED vars \/ Reconcile
           \/ \E c \in Creds : SetEnabled(c) \/ UpdateCredential(c)
  BY <1>1, QuietStepsFlags
<1>2. CASE SaveQuotaGroup \/ PersistFails \/ PersistWrite \/ SaveWrite \/ ParseCommit \/ Restart
  BY <1>2, SaveQuotaGroupFlags, PersistFailsFlags, PersistWriteFlags, SaveWriteFlags,
     ParseCommitFlags, RestartFlags
<1>3. CASE Compare \/ SaveFails \/ \E c \in Creds : SaveOpen(c)
  BY <1>3, SaveStepsFlags
<1>4. ASSUME NEW c \in Creds,
             \/ PersistOpen(c) \/ DeleteCredential(c) \/ ParseRead(c)
             \/ EditFile(c) \/ HostSave(c) \/ RestoreFile(c)
      PROVE  FInv'
  BY <1>4, PersistOpenFlags, DeleteFlags, ParseReadFlags, EditFlags
<1>5. QED
  BY <1>1, <1>2, <1>3, <1>4 DEF Next, CallStep, FileStep, Outside

(* Quota state that memory and file disagree on is recorded as a write error,
   so that the reconciler takes it up. Between two operations nothing else
   hides a difference: not a callback that read the file before a write, nor
   two writes of one group of which one failed; only a file that an outside
   write left with other quota state escapes (saveQuotaGroup,
   quotaPersistenceError, parseAuth). *)
THEOREM DivergenceFlagged == Spec => []DivergenceIsFlagged
<1>1. IInv /\ TInv /\ FInv => DivergenceIsFlagged
  <2> SUFFICES ASSUME IInv, TInv, FInv, guard = IdleGuard, file = FreeFile,
                      NEW c \in Creds, Present(c), disk[c] # Absent, c \notin queued \cup foreign,
                      c \notin writeErr
               PROVE  Cores(Normalize(mem[c])) = Cores(Parsed(disk[c]))
    BY DEF DivergenceIsFlagged
  <2>1. ~InWork(c) /\ ~Reading(c)
    BY DEF InWork, Reading, IdleGuard, FreeFile
  <2>2. mem[c].key = disk[c].key /\ Cores(mem[c]) = Saved(disk[c], mem[c].key)
    BY <2>1 DEF FInv, Flags, Recorded, Reported
  <2>3. mem[c] \in Credentials /\ Keyed(mem[c]) /\ disk[c] \in Credentials
    BY DEF TInv, TypedCopies, Stamped, Present
  <2>4. /\ Cores(Normalize(mem[c])) = Saved(mem[c], mem[c].key)
        /\ Cores(mem[c]) = Saved(mem[c], mem[c].key)
        /\ Cores(Parsed(disk[c])) = Saved(disk[c], disk[c].key)
    BY <2>3, SavedIs
  <2>5. QED
    BY <2>2, <2>4
<1>2. QED
  BY <1>1, InitFlags, NextFlags, PauseInvariant, PTL DEF Spec

===============================================================================
