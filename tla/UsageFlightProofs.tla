---------------------------- MODULE UsageFlightProofs ----------------------------
(* Proofs about UsageFlight, for any number of calls, credentials and slots. *)
EXTENDS UsageFlight, FunctionTheorems, FiniteSetTheorems, TLAPS

-----------------------------------------------------------------------------
(* Types *)

\* What a call has at each step.
Placed(s) ==
  /\ s \in QueryRecords
  /\ s.step # "idle" => s.cred \in Creds
  /\ s.step \in Flying \cup {"waiting"} => s.tag # 0
  /\ s.step \in Flying \ {"release"} => s.key \in Keys

\* The types, but for the slots, which FlightsAccounted counts.
Typed ==
  /\ identity \in [Creds -> [key : Keys \cup {None}, account : Accounts \cup {None}]]
  /\ key \in [Creds -> Keys \cup {None}]
  /\ cache \in [Creds -> Entries]
  /\ DOMAIN query = Queries /\ query = [q \in Queries |-> query[q]]
  /\ \A q \in Queries : Placed(query[q])
  /\ sampler \in [step : {"off", "idle", "round", "drain"}, todo : SUBSET Creds]
  /\ stopped \in BOOLEAN /\ clock \in Times
  /\ left \in [edits : SUBSET (Creds \X (Keys \cup {None})), stops : Nat, ticks : Times]

LEMMA Constants ==
  /\ IsFiniteSet(Queries) /\ None \notin Keys \cup Accounts
  /\ AccountOf \in [Keys -> Accounts] /\ FirstKey \in [Creds -> Keys]
  /\ Slots \in Nat \ {0} /\ MaxTime \in Nat
  /\ Budgets \subseteq [edits : SUBSET (Creds \X (Keys \cup {None})), stops : Nat, ticks : Times]
BY UsageAssumption

LEMMA Blank ==
  /\ NoValue \in Values /\ NoEntry \in Entries /\ Idle \in QueryRecords
  /\ NoEntry.tag = 0 /\ NoEntry.flight = FALSE /\ NoEntry.value.pending = FALSE
  /\ NoEntry.value.status = "none" /\ Idle.step = "idle" /\ Placed(Idle)
<1>1. NoValue \in Values
  BY Constants DEF NoValue, Values, Times
<1>2. NoEntry \in Entries /\ Idle \in QueryRecords
  BY <1>1 DEF NoEntry, Entries, Idle, QueryRecords
<1>3. /\ NoEntry.tag = 0 /\ NoEntry.flight = FALSE /\ NoEntry.value.pending = FALSE
      /\ NoEntry.value.status = "none" /\ Idle.step = "idle"
  BY DEF NoEntry, NoValue, Idle
<1>4. QED
  BY <1>1, <1>2, <1>3 DEF Placed, Flying

\* The update of one call and of one entry.
LEMMA QueryUpdate ==
  ASSUME Typed, NEW q \in Queries, NEW s, query' = [query EXCEPT ![q] = s]
  PROVE  /\ query'[q] = s /\ \A p \in Queries \ {q} : query'[p] = query[p]
         /\ DOMAIN query' = Queries /\ query' = [p \in Queries |-> query'[p]]
         /\ Placed(s) => \A p \in Queries : Placed(query'[p])
<1>1. /\ query'[q] = s /\ \A p \in Queries \ {q} : query'[p] = query[p]
      /\ DOMAIN query' = Queries /\ query' = [p \in Queries |-> query'[p]]
  BY DEF Typed
<1>2. QED
  BY <1>1 DEF Typed

LEMMA CacheUpdate ==
  ASSUME Typed, NEW c \in Creds, NEW e, cache' = [cache EXCEPT ![c] = e]
  PROVE  /\ cache'[c] = e /\ \A d \in Creds \ {c} : cache'[d] = cache[d]
         /\ e \in Entries => cache' \in [Creds -> Entries]
BY DEF Typed

\* A tag that neither the entry nor any call has.
LEMMA FreshTags ==
  ASSUME Typed, NEW c \in Creds
  PROVE  /\ FreshTag(c) \in Nat \ {0} /\ FreshTag(c) # cache[c].tag
         /\ \A q \in Queries : query[q].cred = c => query[q].tag # FreshTag(c)
<1> DEFINE mine == {q \in Queries : query[q].cred = c}
           theirs == {query[q].tag : q \in mine}
           taken == {cache[c].tag} \cup theirs
           n == Cardinality(taken)
<1>1. IsFiniteSet(mine)
  BY Constants, FS_Subset
<1>2. IsFiniteSet(theirs)
  <2> DEFINE f == [q \in mine |-> query[q].tag]
  <2>1. f \in Surjection(mine, theirs)
    BY DEF Surjection
  <2> HIDE DEF f
  <2>2. QED
    BY <1>1, <2>1, FS_Surjection
<1>3. IsFiniteSet(taken)
  <2>1. IsFiniteSet(theirs \cup {cache[c].tag})
    BY <1>2, FS_AddElement
  <2>2. theirs \cup {cache[c].tag} = taken
    OBVIOUS
  <2>3. QED
    BY <2>1, <2>2
<1> HIDE DEF taken
<1>4. n \in Nat
  BY <1>3, FS_CardinalityType
<1>5. \E i \in 1..(n + 1) : i \notin taken
  <2>1. IsFiniteSet(1..(n + 1)) /\ Cardinality(1..(n + 1)) = n + 1
    BY <1>4, FS_Interval
  <2>2. ~(1..(n + 1) \subseteq taken)
    BY <1>3, <1>4, <2>1, FS_Subset
  <2>3. QED
    BY <2>2
<1>6. FreshTag(c) \in 1..(n + 1) /\ FreshTag(c) \notin taken
  <2>1. FreshTag(c) = CHOOSE i \in 1..(n + 1) : i \notin taken
    BY DEF FreshTag, taken
  <2>2. QED
    BY <1>5, <2>1
<1>7. FreshTag(c) \in Nat \ {0}
  BY <1>4, <1>6
<1>8. QED
  BY <1>6, <1>7 DEF taken

LEMMA Presents ==
  ASSUME Typed, NEW c \in Creds, key[c] # None
  PROVE  /\ Present(c) \in Entries /\ Present(c).tag # 0 /\ key[c] \in Keys
         /\ \/ Present(c) = cache[c]
            \/ /\ Present(c).tag = FreshTag(c) /\ Present(c).flight = FALSE
               /\ Present(c).value.status = "none" /\ Present(c).value.pending = FALSE
<1>1. key[c] \in Keys /\ cache[c] \in Entries
  BY DEF Typed
<1>2. CASE cache[c].tag # 0 /\ cache[c].key = key[c]
  BY <1>1, <1>2 DEF Present
<1>3. CASE ~(cache[c].tag # 0 /\ cache[c].key = key[c])
  <2> DEFINE e == [NoEntry EXCEPT !.tag = FreshTag(c), !.key = key[c]]
  <2>1. Present(c) = e
    BY <1>3 DEF Present
  <2>2. FreshTag(c) \in Nat /\ FreshTag(c) # 0
    BY FreshTags
  <2>3. /\ e \in Entries /\ e.tag = FreshTag(c) /\ e.flight = FALSE
        /\ e.value = NoValue
    BY <1>1, <2>2, Blank DEF NoEntry, Entries
  <2> HIDE DEF e
  <2>4. QED
    BY <1>1, <2>1, <2>2, <2>3 DEF NoValue
<1>4. QED
  BY <1>2, <1>3

\* The steps of a flight: the call moves on, and keeps its entry.
Steady(q, step) ==
  /\ query'[q].step = step
  /\ query'[q].cred = query[q].cred /\ query'[q].tag = query[q].tag
  /\ \A p \in Queries \ {q} : query'[p] = query[p]
  /\ \A c \in Creds : cache'[c].tag = cache[c].tag /\ cache'[c].flight = cache[c].flight

LEMMA TypedKept ==
  ASSUME Typed, NEW q \in Queries, NEW s, Placed(s), query' = [query EXCEPT ![q] = s],
         cache' \in [Creds -> Entries], UNCHANGED <<sampler, world>>
  PROVE  Typed'
BY QueryUpdate DEF Typed, world

LEMMA Fails ==
  ASSUME Typed, NEW v \in Values
  PROVE  Failed(v) \in Values
BY DEF Typed, Failed, Values

\* The records a call moves on to.
LEMMA OnlyStep ==
  ASSUME Typed, NEW q \in Queries, NEW step \in Flying, query[q].step \in Flying \ {"release"}
  PROVE  LET s == [query[q] EXCEPT !.step = step]
         IN Placed(s) /\ s.step = step /\ s.cred = query[q].cred /\ s.tag = query[q].tag
<1>1. Placed(query[q])
  BY DEF Typed
<1>2. QED
  BY <1>1 DEF Placed, QueryRecords, Flying

LEMMA StepAndValue ==
  ASSUME Typed, NEW q \in Queries, query[q].step \in Flying \ {"release"}, NEW v \in Values
  PROVE  LET s == [query[q] EXCEPT !.step = "publish", !.value = v]
         IN Placed(s) /\ s.step = "publish" /\ s.cred = query[q].cred /\ s.tag = query[q].tag
<1>1. Placed(query[q])
  BY DEF Typed
<1>2. QED
  BY <1>1 DEF Placed, QueryRecords, Flying

LEMMA DoneFields ==
  ASSUME Typed, NEW q \in Queries, query[q].step \in Flying
  PROVE  /\ Placed(Done(q)) /\ Done(q).step = "release"
         /\ Done(q).cred = query[q].cred /\ Done(q).tag = query[q].tag
<1>1. Placed(query[q])
  BY DEF Typed
<1>2. QED
  BY <1>1, Blank DEF Placed, QueryRecords, Flying, Done

LEMMA SlotSteps ==
  ASSUME Typed, NEW q \in Queries,
         TakeSlot(q) \/ SlotRefused(q) \/ FetchOk(q) \/ FetchFails(q)
  PROVE  /\ Typed' /\ cache' = cache
         /\ query[q].step \in {"slot", "fetching"}
         /\ \/ TakeSlot(q) /\ Steady(q, "fetching")
            \/ ~TakeSlot(q) /\ Steady(q, "publish")
<1>1. Placed(query[q]) /\ cache \in [Creds -> Entries]
  BY DEF Typed
<1>2. UNCHANGED <<cache, sampler, world>> /\ query[q].step \in {"slot", "fetching"}
  BY DEF TakeSlot, SlotRefused, FetchOk, FetchFails, At
<1>3. query[q].step \in Flying \ {"release"} /\ query[q].value \in Values
  BY <1>1, <1>2 DEF Flying, Placed, QueryRecords
<1>4. CASE TakeSlot(q)
  <2> DEFINE s == [query[q] EXCEPT !.step = "fetching"]
  <2>1. query' = [query EXCEPT ![q] = s]
    BY <1>4 DEF TakeSlot, Go
  <2>2. Placed(s) /\ s.step = "fetching" /\ s.cred = query[q].cred /\ s.tag = query[q].tag
    BY <1>3, OnlyStep DEF Flying
  <2> HIDE DEF s
  <2>3. Steady(q, "fetching")
    BY <1>2, <2>1, <2>2, QueryUpdate DEF Steady
  <2>4. Typed'
    BY <1>1, <1>2, <2>1, <2>2, TypedKept
  <2>5. QED
    BY <1>2, <1>4, <2>3, <2>4
<1>5. CASE ~TakeSlot(q)
  <2>1. PICK v \in Values : query' = [query EXCEPT ![q].step = "publish", ![q].value = v]
    <3>1. CASE SlotRefused(q) \/ FetchFails(q)
      BY <1>3, <3>1, Fails DEF SlotRefused, FetchFails
    <3>2. CASE FetchOk(q)
      <4>1. PICK account \in {query[q].value.account, AccountOf[query[q].key], None} :
              query' = [query EXCEPT ![q].step = "publish", ![q].value = Checked(q, account)]
        BY <3>2 DEF FetchOk
      <4>2. account \in Accounts \cup {None} /\ AccountOf[query[q].key] \in Accounts
        BY <1>1, <1>3, Constants DEF Placed, Values
      <4>3. Checked(q, account) \in Values
        BY <4>2 DEF Checked, Values, Typed
      <4>4. QED
        BY <4>1, <4>3
    <3>3. QED
      BY <1>5, <3>1, <3>2
  <2> DEFINE s == [query[q] EXCEPT !.step = "publish", !.value = v]
  <2>2. query' = [query EXCEPT ![q] = s]
    BY <2>1
  <2>3. Placed(s) /\ s.step = "publish" /\ s.cred = query[q].cred /\ s.tag = query[q].tag
    BY <1>3, StepAndValue
  <2> HIDE DEF s
  <2>4. Steady(q, "publish")
    BY <1>2, <2>2, <2>3, QueryUpdate DEF Steady
  <2>5. Typed'
    BY <1>1, <1>2, <2>2, <2>3, TypedKept
  <2>6. QED
    BY <1>2, <1>5, <2>4, <2>5
<1>6. QED
  BY <1>4, <1>5

\* A value that has been looked at.
LEMMA PendingFields ==
  ASSUME NEW v \in Values, NEW p \in BOOLEAN
  PROVE  LET w == [v EXCEPT !.pending = p]
         IN w \in Values /\ w.pending = p /\ w.status = v.status /\ w.account = v.account
BY DEF Values

LEMMA ValueFields ==
  ASSUME NEW e \in Entries, NEW v \in Values
  PROVE  LET f == [e EXCEPT !.value = v]
         IN f \in Entries /\ f.value = v /\ f.tag = e.tag /\ f.flight = e.flight /\ f.key = e.key
BY DEF Entries

LEMMA PublishSteps ==
  ASSUME Typed, NEW q \in Queries, Publish(q)
  PROVE  /\ Typed' /\ query[q].step = "publish" /\ slots' = slots
         /\ Steady(q, "observe") \/ Steady(q, "release")
         /\ \A d \in Creds : cache'[d].value.pending =>
              \/ cache[d].value.pending
              \/ d = query[q].cred /\ Live(q) /\ Steady(q, "observe")
<1> DEFINE c == query[q].cred
           p == query[q].value.pending /\ Valid(q)
           v == [query[q].value EXCEPT !.pending = p]
           w == [v EXCEPT !.pending = FALSE]
<1>1. Placed(query[q]) /\ query[q].step = "publish" /\ cache \in [Creds -> Entries]
  BY DEF Typed, Publish, At
<1>2. c \in Creds /\ query[q].value \in Values /\ query[q].step \in Flying \ {"release"}
  BY <1>1 DEF Placed, Flying, QueryRecords
<1>3. p \in BOOLEAN
  BY <1>2 DEF Values
<1>4. v \in Values /\ (v.pending <=> p)
  BY <1>2, <1>3, PendingFields
<1>5. w \in Values /\ ~w.pending
  BY <1>4, PendingFields
<1>6. /\ cache' = [d \in Creds |->
            IF d = c /\ Live(q) THEN [cache[d] EXCEPT !.value = v]
            ELSE IF Valid(q) /\ Shares(c, v, d) THEN [cache[d] EXCEPT !.value = w]
                 ELSE cache[d]]
      /\ UNCHANGED <<slots, sampler, world>>
  BY DEF Publish
<1>7. query' = [query EXCEPT ![q] =
        IF Valid(q) THEN [query[q] EXCEPT !.step = "observe"] ELSE Done(q)]
  BY DEF Publish
<1>p. p => Valid(q)
  OBVIOUS
<1>l. Valid(q) => Live(q)
  BY DEF Valid
<1> HIDE DEF p, v, w
<1>8. ASSUME NEW d \in Creds
      PROVE  /\ cache'[d] \in Entries
             /\ cache'[d].tag = cache[d].tag /\ cache'[d].flight = cache[d].flight
             /\ cache'[d].value.pending =>
                  cache[d].value.pending \/ (d = c /\ Live(q) /\ Valid(q))
  <2>1. cache[d] \in Entries
    BY <1>1
  <2>2. CASE d = c /\ Live(q)
    <3>1. cache'[d] = [cache[d] EXCEPT !.value = v]
      BY <1>6, <2>2
    <3>2. QED
      BY <1>4, <1>p, <2>1, <2>2, <3>1, ValueFields
  <2>3. CASE ~(d = c /\ Live(q)) /\ Valid(q) /\ Shares(c, v, d)
    <3>1. cache'[d] = [cache[d] EXCEPT !.value = w]
      BY <1>6, <2>3
    <3>2. QED
      BY <1>5, <2>1, <3>1, ValueFields
  <2>4. CASE ~(d = c /\ Live(q)) /\ ~(Valid(q) /\ Shares(c, v, d))
    <3>1. cache'[d] = cache[d]
      BY <1>6, <2>4
    <3>2. QED
      BY <2>1, <3>1
  <2>5. QED
    BY <2>2, <2>3, <2>4
<1>9. cache' \in [Creds -> Entries]
  BY <1>6, <1>8
<1>10. CASE Valid(q)
  <2> DEFINE s == [query[q] EXCEPT !.step = "observe"]
  <2>1. query' = [query EXCEPT ![q] = s]
    BY <1>7, <1>10
  <2>2. Placed(s) /\ s.step = "observe" /\ s.cred = query[q].cred /\ s.tag = query[q].tag
    BY <1>2, OnlyStep DEF Flying
  <2> HIDE DEF s
  <2>3. Steady(q, "observe")
    BY <1>8, <2>1, <2>2, QueryUpdate DEF Steady
  <2>4. Typed'
    BY <1>6, <1>9, <2>1, <2>2, TypedKept
  <2>5. QED
    BY <1>1, <1>6, <1>8, <2>3, <2>4
<1>11. CASE ~Valid(q)
  <2>1. query' = [query EXCEPT ![q] = Done(q)]
    BY <1>7, <1>11
  <2>2. Steady(q, "release")
    BY <1>2, <1>8, <2>1, DoneFields, QueryUpdate DEF Steady
  <2>3. Typed'
    BY <1>2, <1>6, <1>9, <2>1, DoneFields, TypedKept
  <2>4. QED
    BY <1>1, <1>6, <1>8, <1>11, <2>2, <2>3
<1>12. QED
  BY <1>10, <1>11

LEMMA ObserveSteps ==
  ASSUME Typed, NEW q \in Queries, Observe(q)
  PROVE  /\ Typed' /\ query[q].step = "observe" /\ slots' = slots
         /\ Steady(q, "release")
         /\ \A d \in Creds : cache'[d].value.pending =>
              cache[d].value.pending /\ ~(d = query[q].cred /\ Live(q))
<1> DEFINE c == query[q].cred
           v == query[q].value
           verified == v.status = "ok" /\ v.account # None /\ key[c] = query[q].key
           identified(e) == IF verified /\ e.tag # 0
                            THEN [e EXCEPT !.value.account = v.account] ELSE e
           applied(e) == IF Live(q) THEN [e EXCEPT !.value.pending = FALSE] ELSE e
           i == identified(cache[c])
           a == applied(i)
<1>1. Placed(query[q]) /\ query[q].step = "observe" /\ cache \in [Creds -> Entries]
  BY DEF Typed, Observe, At
<1>2. c \in Creds /\ v \in Values /\ query[q].step \in Flying /\ cache[c] \in Entries
  BY <1>1 DEF Placed, Flying, QueryRecords
<1>3. /\ cache' = [cache EXCEPT ![c] = a] /\ query' = [query EXCEPT ![q] = Done(q)]
      /\ identity' = [identity EXCEPT ![c] =
           IF verified THEN [key |-> key[c], account |-> v.account] ELSE identity[c]]
      /\ UNCHANGED <<slots, sampler, key, stopped, clock, left>>
  BY DEF Observe
<1>4. /\ i \in Entries /\ i.tag = cache[c].tag /\ i.flight = cache[c].flight
      /\ i.value.pending = cache[c].value.pending
  <2> DEFINE j == [cache[c] EXCEPT !.value.account = v.account]
  <2>1. /\ j \in Entries /\ j.tag = cache[c].tag /\ j.flight = cache[c].flight
        /\ j.value.pending = cache[c].value.pending
    BY <1>2 DEF Entries, Values
  <2>2. i = j \/ i = cache[c]
    OBVIOUS
  <2> HIDE DEF i, j
  <2>3. QED
    BY <1>2, <2>1, <2>2
<1> HIDE DEF i, v, identified, verified
<1>5. /\ a \in Entries /\ a.tag = cache[c].tag /\ a.flight = cache[c].flight
      /\ a.value.pending => cache[c].value.pending /\ ~Live(q)
  <2> DEFINE b == [i EXCEPT !.value.pending = FALSE]
  <2>1. b \in Entries /\ b.tag = i.tag /\ b.flight = i.flight /\ ~b.value.pending
    BY <1>4 DEF Entries, Values
  <2>2. (Live(q) /\ a = b) \/ (~Live(q) /\ a = i)
    OBVIOUS
  <2> HIDE DEF a, b
  <2>3. QED
    BY <1>4, <2>1, <2>2
<1> HIDE DEF a, applied
<1>6. /\ cache'[c] = a /\ \A d \in Creds \ {c} : cache'[d] = cache[d]
      /\ cache' \in [Creds -> Entries]
  BY <1>2, <1>3, <1>5, CacheUpdate
<1>7. identity' \in [Creds -> [key : Keys \cup {None}, account : Accounts \cup {None}]]
  <2>1. v.account \in Accounts \cup {None} /\ key[c] \in Keys \cup {None}
    BY <1>2 DEF Values, v, Typed
  <2>2. QED
    BY <1>2, <1>3, <2>1 DEF Typed
<1>8. /\ query'[q] = Done(q) /\ \A p \in Queries \ {q} : query'[p] = query[p]
      /\ DOMAIN query' = Queries /\ query' = [p \in Queries |-> query'[p]]
      /\ \A p \in Queries : Placed(query'[p])
  BY <1>2, <1>3, DoneFields, QueryUpdate
<1>9. Typed'
  BY <1>3, <1>6, <1>7, <1>8 DEF Typed
<1>10. Steady(q, "release")
  BY <1>2, <1>5, <1>6, <1>8, DoneFields DEF Steady
<1>11. QED
  BY <1>1, <1>3, <1>5, <1>6, <1>9, <1>10

-----------------------------------------------------------------------------
(* The invariant *)

\* Flights and entries belong together, one flight to an entry, and whoever
\* waits waits for a flight.
Flights ==
  /\ \A c \in Creds :
       cache[c].flight => \E q \in Queries : Airborne(q) /\ query[q].cred = c /\ Live(q)
  /\ \A q \in Queries :
       /\ Airborne(q) /\ Live(q) => Entry(q).flight
       /\ At(q, "waiting") => \E p \in Queries : Airborne(p) /\ Awaits(q, p)
  /\ \A p, q \in Queries :
       Airborne(p) /\ Airborne(q) /\ query[p].cred = query[q].cred
       /\ query[p].tag = query[q].tag => p = q

Fetching == {q \in Queries : At(q, "fetching")}
Counted == slots = Cardinality(Fetching) /\ slots <= Slots

\* What has yet to be applied is about to be, by the flight of its entry.
Applied ==
  \A c \in Creds : cache[c].value.pending =>
    \E q \in Queries : At(q, "observe") /\ query[q].cred = c /\ Live(q)

IInv == Typed /\ Flights /\ Counted /\ Applied

LEMMA FlightsKept ==
  ASSUME Typed, Flights,
         \A c \in Creds : cache'[c].tag = cache[c].tag /\ cache'[c].flight = cache[c].flight,
         \A q \in Queries : Airborne(q)' <=> Airborne(q),
         \A q \in Queries : Airborne(q) \/ At(q, "waiting")' =>
           query'[q].cred = query[q].cred /\ query'[q].tag = query[q].tag,
         \A q \in Queries : At(q, "waiting")' => At(q, "waiting")
  PROVE  Flights'
<1>1. \A q \in Queries : Airborne(q) =>
        query[q].cred \in Creds /\ (Live(q)' <=> Live(q)) /\ (Entry(q).flight)' = Entry(q).flight
  BY DEF Typed, Placed, Airborne, Flying, Live, Entry
<1>2. ASSUME NEW c \in Creds, cache'[c].flight
      PROVE  \E q \in Queries : Airborne(q)' /\ query'[q].cred = c /\ Live(q)'
  <2>1. PICK q \in Queries : Airborne(q) /\ query[q].cred = c /\ Live(q)
    BY <1>2 DEF Flights
  <2>2. QED
    BY <1>1, <2>1
<1>3. ASSUME NEW q \in Queries, Airborne(q)', Live(q)' PROVE (Entry(q).flight)'
  BY <1>1, <1>3 DEF Flights
<1>4. ASSUME NEW q \in Queries, At(q, "waiting")'
      PROVE  \E p \in Queries : Airborne(p)' /\ Awaits(q, p)'
  <2>1. PICK p \in Queries : Airborne(p) /\ Awaits(q, p)
    BY <1>4 DEF Flights
  <2>2. QED
    BY <1>4, <2>1 DEF Awaits
<1>5. ASSUME NEW p \in Queries, NEW q \in Queries, Airborne(p)', Airborne(q)',
             query'[p].cred = query'[q].cred, query'[p].tag = query'[q].tag
      PROVE  p = q
  BY <1>5 DEF Flights
<1>6. QED
  BY <1>2, <1>3, <1>4, <1>5 DEF Flights

\* A flight that goes on.
LEMMA SteadyFlights ==
  ASSUME Typed, Flights, NEW q \in Queries, query[q].step \in Flying,
         NEW step \in Flying, Steady(q, step)
  PROVE  Flights'
BY FlightsKept DEF Steady, Airborne, Flying, At

LEMMA CountedKept ==
  ASSUME Counted, slots' = slots,
         \A q \in Queries : At(q, "fetching")' <=> At(q, "fetching")
  PROVE  Counted'
<1>1. Fetching' = Fetching
  BY DEF Fetching
<1>2. QED
  BY <1>1 DEF Counted

LEMMA AppliedKept ==
  ASSUME Applied, Typed,
         \A c \in Creds : cache'[c].tag = cache[c].tag
           /\ (cache'[c].value.pending => cache[c].value.pending),
         \A q \in Queries : At(q, "observe") => query'[q] = query[q]
  PROVE  Applied'
<1>1. ASSUME NEW c \in Creds, cache'[c].value.pending
      PROVE  \E q \in Queries : At(q, "observe")' /\ query'[q].cred = c /\ Live(q)'
  <2>1. PICK q \in Queries : At(q, "observe") /\ query[q].cred = c /\ Live(q)
    BY <1>1 DEF Applied
  <2>2. QED
    BY <2>1 DEF At, Live, Entry
<1>2. QED
  BY <1>1 DEF Applied

\* The slots in use.
LEMMA SlotsTyped ==
  ASSUME Counted
  PROVE  slots \in 0..Slots /\ IsFiniteSet(Fetching)
<1>1. IsFiniteSet(Fetching)
  BY Constants, FS_Subset DEF Fetching
<1>2. QED
  BY <1>1, Constants, FS_CardinalityType DEF Counted

LEMMA StepsOfSlots ==
  ASSUME IInv, NEW q \in Queries,
         TakeSlot(q) \/ SlotRefused(q) \/ FetchOk(q) \/ FetchFails(q)
  PROVE  IInv'
<1>1. /\ Typed' /\ cache' = cache /\ query[q].step \in {"slot", "fetching"}
      /\ \/ TakeSlot(q) /\ Steady(q, "fetching")
         \/ ~TakeSlot(q) /\ Steady(q, "publish")
  BY SlotSteps DEF IInv
<1>2. Flights'
  BY <1>1, SteadyFlights DEF IInv, Flying
<1>3. Applied'
  BY <1>1, AppliedKept DEF IInv, Steady, At
<1>4. Counted'
  <2>1. IsFiniteSet(Fetching) /\ slots \in 0..Slots /\ slots = Cardinality(Fetching)
    BY SlotsTyped DEF IInv, Counted
  <2>2. CASE TakeSlot(q)
    <3>1. q \notin Fetching /\ slots < Slots /\ slots' = slots + 1
      BY <2>2 DEF TakeSlot, Fetching, At
    <3>2. Steady(q, "fetching")
      BY <1>1, <2>2
    <3>3. Fetching' = Fetching \cup {q}
      BY <3>2 DEF Steady, Fetching, At
    <3>4. Cardinality(Fetching') = Cardinality(Fetching) + 1
      BY <2>1, <3>1, <3>3, FS_AddElement
    <3>5. QED
      BY <2>1, <3>1, <3>4, Constants DEF Counted
  <2>3. CASE ~TakeSlot(q)
    <3>1. Steady(q, "publish")
      BY <1>1, <2>3
    <3>2. Fetching' = Fetching \ {q}
      BY <3>1 DEF Steady, Fetching, At
    <3>3. CASE SlotRefused(q)
      <4>1. q \notin Fetching /\ slots' = slots
        BY <3>3 DEF SlotRefused, Fetching, At
      <4>2. Fetching' = Fetching
        BY <3>2, <4>1
      <4>3. QED
        BY <2>1, <4>1, <4>2 DEF Counted
    <3>4. CASE FetchOk(q) \/ FetchFails(q)
      <4>1. q \in Fetching /\ slots' = slots - 1
        BY <3>4 DEF FetchOk, FetchFails, Fetching, At
      <4>2. Cardinality(Fetching') = Cardinality(Fetching) - 1
        BY <2>1, <3>2, <4>1, FS_RemoveElement
      <4>3. QED
        BY <2>1, <4>1, <4>2, Constants DEF Counted
    <3>5. QED
      BY <2>3, <3>3, <3>4
  <2>4. QED
    BY <2>2, <2>3
<1>5. QED
  BY <1>1, <1>2, <1>3, <1>4 DEF IInv

LEMMA StepOfPublish ==
  ASSUME IInv, NEW q \in Queries, Publish(q)
  PROVE  IInv'
<1>1. /\ Typed' /\ query[q].step = "publish" /\ slots' = slots
      /\ Steady(q, "observe") \/ Steady(q, "release")
      /\ \A d \in Creds : cache'[d].value.pending =>
           \/ cache[d].value.pending
           \/ d = query[q].cred /\ Live(q) /\ Steady(q, "observe")
  BY PublishSteps DEF IInv
<1>2. Flights'
  BY <1>1, SteadyFlights DEF IInv, Flying
<1>3. Counted'
  BY <1>1, CountedKept DEF IInv, Steady, At
<1>4. ASSUME NEW d \in Creds, cache'[d].value.pending
      PROVE  \E p \in Queries : At(p, "observe")' /\ query'[p].cred = d /\ Live(p)'
  <2>1. \A c \in Creds : cache'[c].tag = cache[c].tag
    BY <1>1 DEF Steady
  <2>2. CASE cache[d].value.pending
    <3>1. PICK p \in Queries : At(p, "observe") /\ query[p].cred = d /\ Live(p)
      BY <2>2 DEF IInv, Applied
    <3>2. query'[p] = query[p]
      BY <1>1, <3>1 DEF Steady, At
    <3>3. QED
      BY <2>1, <3>1, <3>2 DEF At, Live, Entry
  <2>3. CASE d = query[q].cred /\ Live(q) /\ Steady(q, "observe")
    BY <2>1, <2>3 DEF Steady, At, Live, Entry
  <2>4. QED
    BY <1>1, <1>4, <2>2, <2>3
<1>5. QED
  BY <1>1, <1>2, <1>3, <1>4 DEF IInv, Applied

LEMMA StepOfObserve ==
  ASSUME IInv, NEW q \in Queries, Observe(q)
  PROVE  IInv'
<1>1. /\ Typed' /\ query[q].step = "observe" /\ slots' = slots
      /\ Steady(q, "release")
      /\ \A d \in Creds : cache'[d].value.pending =>
           cache[d].value.pending /\ ~(d = query[q].cred /\ Live(q))
  BY ObserveSteps DEF IInv
<1>2. Flights'
  BY <1>1, SteadyFlights DEF IInv, Flying
<1>3. Counted'
  BY <1>1, CountedKept DEF IInv, Steady, At
<1>4. ASSUME NEW d \in Creds, cache'[d].value.pending
      PROVE  \E p \in Queries : At(p, "observe")' /\ query'[p].cred = d /\ Live(p)'
  <2>1. PICK p \in Queries : At(p, "observe") /\ query[p].cred = d /\ Live(p)
    BY <1>1, <1>4 DEF IInv, Applied
  <2>2. p # q
    BY <1>1, <1>4, <2>1
  <2>3. query'[p] = query[p] /\ \A c \in Creds : cache'[c].tag = cache[c].tag
    BY <1>1, <2>2 DEF Steady
  <2>4. QED
    BY <2>1, <2>3 DEF At, Live, Entry
<1>5. QED
  BY <1>1, <1>2, <1>3, <1>4 DEF IInv, Applied

\* A call that neither waits nor flies, before and after.
LEMMA OnTheGround ==
  ASSUME IInv, NEW q \in Queries, ~Airborne(q), NEW s, Placed(s), s.step \in {"idle", "lookup"},
         query' = [query EXCEPT ![q] = s], UNCHANGED <<cache, slots, world>>,
         sampler' \in [step : {"off", "idle", "round", "drain"}, todo : SUBSET Creds]
  PROVE  IInv'
<1>1. /\ query'[q] = s /\ \A p \in Queries \ {q} : query'[p] = query[p]
      /\ DOMAIN query' = Queries /\ query' = [p \in Queries |-> query'[p]]
      /\ \A p \in Queries : Placed(query'[p])
  BY QueryUpdate DEF IInv
<1>2. Typed'
  BY <1>1 DEF IInv, Typed, world
<1>3. query[q].step \notin Flying
  BY DEF Airborne
<1>4. Flights'
  BY <1>1, <1>3, FlightsKept DEF IInv, Airborne, At, Flying
<1>5. Counted'
  BY <1>1, <1>3, CountedKept DEF IInv, At, Flying
<1>6. Applied'
  BY <1>1, <1>3, AppliedKept DEF IInv, At, Flying
<1>7. QED
  BY <1>2, <1>4, <1>5, <1>6 DEF IInv

LEMMA Asks ==
  ASSUME NEW c \in Creds, NEW refresh \in BOOLEAN
  PROVE  LET s == [Idle EXCEPT !.step = "lookup", !.cred = c, !.refresh = refresh]
         IN Placed(s) /\ s.step = "lookup"
BY Blank DEF Idle, QueryRecords, Placed, Flying

LEMMA StepsOnTheGround ==
  ASSUME IInv, NEW q \in Queries,
         \/ \E c \in Creds : UserAsks(q, c)
         \/ LookupGone(q) \/ LookupCached(q) \/ WaitEnds(q)
         \/ q \in Workers /\ \E c \in Creds : HandOut(q, c) /\ Ask(q, c, FALSE)
  PROVE  IInv'
<1>1. query[q].step \in {"idle", "lookup", "waiting"} /\ UNCHANGED <<cache, slots, world>>
  BY DEF UserAsks, Ask, LookupGone, LookupCached, WaitEnds, HandOut, At
<1>2. ~Airborne(q)
  BY <1>1 DEF Airborne, Flying
<1>3. sampler' \in [step : {"off", "idle", "round", "drain"}, todo : SUBSET Creds]
  <2>1. sampler \in [step : {"off", "idle", "round", "drain"}, todo : SUBSET Creds]
    BY DEF IInv, Typed
  <2>2. sampler' = sampler \/ \E c \in Creds : sampler' = [sampler EXCEPT !.todo = @ \ {c}]
    BY DEF UserAsks, LookupGone, LookupCached, WaitEnds, HandOut
  <2>3. QED
    BY <2>1, <2>2
<1>4. CASE LookupGone(q) \/ LookupCached(q) \/ WaitEnds(q)
  <2>1. query' = [query EXCEPT ![q] = Idle]
    BY <1>4 DEF LookupGone, LookupCached, WaitEnds, Return
  <2>2. QED
    BY <1>1, <1>2, <1>3, <2>1, Blank, OnTheGround
<1>5. ASSUME NEW c \in Creds, NEW refresh \in BOOLEAN, Ask(q, c, refresh) PROVE IInv'
  <2> DEFINE s == [Idle EXCEPT !.step = "lookup", !.cred = c, !.refresh = refresh]
  <2>1. query' = [query EXCEPT ![q] = s]
    BY <1>5 DEF Ask
  <2>2. Placed(s) /\ s.step = "lookup"
    BY Asks
  <2> HIDE DEF s
  <2>3. QED
    BY <1>1, <1>2, <1>3, <2>1, <2>2, OnTheGround
<1>6. QED
  BY <1>4, <1>5 DEF UserAsks

LEMMA StepOfLookupWaits ==
  ASSUME IInv, NEW q \in Queries, LookupWaits(q)
  PROVE  IInv'
<1> DEFINE c == query[q].cred
           s == [query[q] EXCEPT !.step = "waiting", !.tag = Present(c).tag]
<1>1. /\ query[q].step = "lookup" /\ key[c] # None /\ Present(c).flight
      /\ query' = [query EXCEPT ![q] = s] /\ UNCHANGED <<cache, slots, sampler, world>>
  BY DEF LookupWaits, At
<1>2. Placed(query[q]) /\ c \in Creds
  BY <1>1 DEF IInv, Typed, Placed
<1>3. Present(c) = cache[c] /\ Present(c) \in Entries /\ Present(c).tag # 0
  BY <1>1, <1>2, Presents DEF IInv
<1>4. /\ Placed(s) /\ s.step = "waiting" /\ s.cred = c /\ s.tag = cache[c].tag
  BY <1>1, <1>2, <1>3 DEF Placed, QueryRecords, Entries, Flying
<1>5. PICK p \in Queries : Airborne(p) /\ query[p].cred = c /\ Live(p)
  BY <1>1, <1>2, <1>3 DEF IInv, Flights
<1> HIDE DEF s
<1>6. /\ query'[q] = s /\ \A r \in Queries \ {q} : query'[r] = query[r]
      /\ Typed'
  BY <1>1, <1>2, <1>4, QueryUpdate, TypedKept DEF IInv, Typed
<1>7. ~Airborne(q) /\ ~Airborne(q)'
  BY <1>1, <1>4, <1>6 DEF Airborne, Flying
<1>8. Flights'
  <2>1. \A r \in Queries : (Airborne(r)' <=> Airborne(r))
          /\ (Airborne(r) => query'[r] = query[r] /\ (Live(r)' <=> Live(r))
                             /\ (Entry(r).flight)' = Entry(r).flight)
    BY <1>1, <1>6, <1>7 DEF Airborne, Live, Entry
  <2>2. Awaits(q, p)'
    <3>1. query'[p] = query[p] /\ query[p].tag = cache[c].tag
      BY <1>5, <1>6, <1>7 DEF Live, Entry
    <3>2. QED
      BY <1>4, <1>5, <1>6, <3>1 DEF Awaits, At
  <2>3. ASSUME NEW r \in Queries, At(r, "waiting")'
        PROVE  \E o \in Queries : Airborne(o)' /\ Awaits(r, o)'
    <3>1. CASE r = q
      BY <1>5, <2>1, <2>2, <3>1
    <3>2. CASE r # q
      <4>1. At(r, "waiting") /\ query'[r] = query[r]
        BY <1>6, <2>3, <3>2 DEF At
      <4>2. PICK o \in Queries : Airborne(o) /\ Awaits(r, o)
        BY <4>1 DEF IInv, Flights
      <4>3. QED
        BY <2>1, <4>1, <4>2 DEF Awaits, At
    <3>3. QED
      BY <3>1, <3>2
  <2>4. ASSUME NEW d \in Creds, cache'[d].flight
        PROVE  \E r \in Queries : Airborne(r)' /\ query'[r].cred = d /\ Live(r)'
    <3>1. PICK r \in Queries : Airborne(r) /\ query[r].cred = d /\ Live(r)
      BY <1>1, <2>4 DEF IInv, Flights
    <3>2. QED
      BY <2>1, <3>1
  <2>5. QED
    BY <2>1, <2>3, <2>4 DEF IInv, Flights
<1>9. Counted' /\ Applied'
  BY <1>1, <1>4, <1>6, CountedKept, AppliedKept DEF IInv, At
<1>10. QED
  BY <1>6, <1>8, <1>9 DEF IInv

LEMMA FlightFields ==
  ASSUME NEW e \in Entries, NEW f \in BOOLEAN
  PROVE  LET g == [e EXCEPT !.flight = f]
         IN g \in Entries /\ g.flight = f /\ g.tag = e.tag /\ g.value = e.value
BY DEF Entries

LEMMA StepOfLookupFlies ==
  ASSUME IInv, NEW q \in Queries, LookupFlies(q)
  PROVE  IInv'
<1> DEFINE c == query[q].cred
           e == Present(c)
           f == [e EXCEPT !.flight = TRUE]
           s == [Idle EXCEPT !.step = "slot", !.cred = c, !.tag = e.tag,
                             !.key = key[c], !.value = e.value]
<1>1. /\ query[q].step = "lookup" /\ key[c] # None /\ ~e.flight
      /\ cache' = [cache EXCEPT ![c] = f] /\ query' = [query EXCEPT ![q] = s]
      /\ UNCHANGED <<slots, sampler, world>>
  BY DEF LookupFlies, At
<1>2. Placed(query[q]) /\ c \in Creds
  BY <1>1 DEF IInv, Typed, Placed
<1>3. /\ e \in Entries /\ e.tag # 0 /\ key[c] \in Keys
      /\ \/ e = cache[c]
         \/ e.tag = FreshTag(c) /\ ~e.value.pending
  BY <1>1, <1>2, Presents DEF IInv
<1> HIDE DEF e
<1>4. Placed(s) /\ s.step = "slot" /\ s.cred = c /\ s.tag = e.tag
  BY <1>2, <1>3, Blank DEF Idle, QueryRecords, Placed, Flying, Entries
<1>5. f \in Entries /\ f.flight /\ f.tag = e.tag /\ f.value = e.value
  BY <1>3, FlightFields
<1>6. \A p \in Queries : Airborne(p) /\ query[p].cred = c => query[p].tag # e.tag
  <2>1. CASE e = cache[c]
    BY <1>1, <1>2, <2>1 DEF IInv, Flights, Live, Entry
  <2>2. CASE e.tag = FreshTag(c)
    BY <1>2, <2>2, FreshTags DEF IInv
  <2>3. QED
    BY <1>3, <2>1, <2>2
<1>7. ~e.value.pending
  <2>1. CASE e = cache[c]
    BY <1>1, <1>2, <2>1 DEF IInv, Applied, Flights, Live, Entry, At, Airborne, Flying
  <2>2. QED
    BY <1>3, <2>1
<1> HIDE DEF s, f
<1>8. /\ query'[q] = s /\ \A p \in Queries \ {q} : query'[p] = query[p]
      /\ cache'[c] = f /\ \A d \in Creds \ {c} : cache'[d] = cache[d]
      /\ cache' \in [Creds -> Entries]
  BY <1>1, <1>2, <1>5, QueryUpdate, CacheUpdate DEF IInv
<1>9. Typed'
  BY <1>1, <1>4, <1>8, TypedKept DEF IInv
<1>10. ~Airborne(q) /\ Airborne(q)' /\ query'[q].cred = c /\ Live(q)'
  BY <1>1, <1>4, <1>5, <1>8 DEF Airborne, Flying, Live, Entry
<1>11. Flights'
  <2>1. \A p \in Queries \ {q} : (Airborne(p)' <=> Airborne(p)) /\ (At(p, "waiting")' <=> At(p, "waiting"))
    BY <1>8 DEF Airborne, At
  <2>2. ASSUME NEW d \in Creds, cache'[d].flight
        PROVE  \E p \in Queries : Airborne(p)' /\ query'[p].cred = d /\ Live(p)'
    <3>1. CASE d = c
      BY <1>10, <3>1
    <3>2. CASE d # c
      <4>1. PICK p \in Queries : Airborne(p) /\ query[p].cred = d /\ Live(p)
        BY <1>8, <2>2, <3>2 DEF IInv, Flights
      <4>2. p # q
        BY <1>10, <4>1
      <4>3. query'[p] = query[p] /\ cache'[d] = cache[d]
        BY <1>8, <3>2, <4>2
      <4>4. QED
        BY <2>1, <4>1, <4>2, <4>3 DEF Live, Entry
    <3>3. QED
      BY <3>1, <3>2
  <2>3. ASSUME NEW p \in Queries, Airborne(p)', Live(p)' PROVE (Entry(p).flight)'
    <3>1. CASE p = q
      BY <1>5, <1>8, <1>10, <3>1 DEF Entry
    <3>2. CASE p # q
      <4>1. Airborne(p) /\ query'[p] = query[p]
        BY <1>8, <2>1, <2>3, <3>2
      <4>2. query[p].cred # c
        BY <1>5, <1>6, <1>8, <2>3, <4>1 DEF Live, Entry
      <4>3. query[p].cred \in Creds
        BY <4>1 DEF IInv, Typed, Placed, Airborne, Flying
      <4>4. cache'[query[p].cred] = cache[query[p].cred]
        BY <1>8, <4>2, <4>3
      <4>5. QED
        BY <2>3, <4>1, <4>4 DEF IInv, Flights, Live, Entry
    <3>3. QED
      BY <3>1, <3>2
  <2>4. ASSUME NEW p \in Queries, At(p, "waiting")'
        PROVE  \E o \in Queries : Airborne(o)' /\ Awaits(p, o)'
    <3>1. p # q
      BY <1>4, <1>8, <2>4 DEF At
    <3>2. PICK o \in Queries : Airborne(o) /\ Awaits(p, o)
      BY <2>1, <2>4, <3>1 DEF IInv, Flights
    <3>3. o # q
      BY <1>10, <3>2
    <3>4. QED
      BY <1>8, <2>1, <2>4, <3>1, <3>2, <3>3 DEF Awaits
  <2>5. ASSUME NEW o \in Queries, NEW p \in Queries, Airborne(o)', Airborne(p)',
               query'[o].cred = query'[p].cred, query'[o].tag = query'[p].tag
        PROVE  o = p
    <3>1. CASE o # q /\ p # q
      BY <1>8, <2>1, <2>5, <3>1 DEF IInv, Flights
    <3>2. CASE o = q /\ p # q
      BY <1>4, <1>6, <1>8, <2>1, <2>5, <3>2
    <3>3. CASE o # q /\ p = q
      BY <1>4, <1>6, <1>8, <2>1, <2>5, <3>3
    <3>4. QED
      BY <3>1, <3>2, <3>3
  <2>6. QED
    BY <2>2, <2>3, <2>4, <2>5 DEF Flights
<1>12. Counted'
  BY <1>1, <1>4, <1>8, CountedKept DEF IInv, At
<1>13. Applied'
  <2>1. ASSUME NEW d \in Creds, cache'[d].value.pending
        PROVE  \E p \in Queries : At(p, "observe")' /\ query'[p].cred = d /\ Live(p)'
    <3>1. d # c /\ cache'[d] = cache[d]
      BY <1>5, <1>7, <1>8, <2>1
    <3>2. PICK p \in Queries : At(p, "observe") /\ query[p].cred = d /\ Live(p)
      BY <2>1, <3>1 DEF IInv, Applied
    <3>3. p # q
      BY <1>1, <3>2 DEF At
    <3>4. QED
      BY <1>8, <3>1, <3>2, <3>3 DEF At, Live, Entry
  <2>2. QED
    BY <2>1 DEF Applied
<1>14. QED
  BY <1>9, <1>11, <1>12, <1>13 DEF IInv

LEMMA StepOfRelease ==
  ASSUME IInv, NEW q \in Queries, Release(q)
  PROVE  IInv'
<1> DEFINE c == query[q].cred
           f == IF Live(q) THEN [cache[c] EXCEPT !.flight = FALSE] ELSE cache[c]
           w(p) == [query[p] EXCEPT !.step = "lookup", !.tag = 0]
<1>1. /\ query[q].step = "release" /\ cache' = [cache EXCEPT ![c] = f]
      /\ query' = [p \in Queries |-> IF p = q THEN Idle
                                     ELSE IF Awaits(p, q) THEN w(p) ELSE query[p]]
      /\ UNCHANGED <<slots, sampler, world>>
  BY DEF Release, At
<1>2. Airborne(q) /\ c \in Creds /\ cache[c] \in Entries
  BY <1>1 DEF Airborne, Flying, IInv, Typed, Placed
<1>3. /\ f \in Entries /\ f.tag = cache[c].tag /\ f.value = cache[c].value
      /\ f.flight => cache[c].flight /\ ~Live(q)
  <2>1. CASE Live(q)
    <3>1. [cache[c] EXCEPT !.flight = FALSE] \in Entries
          /\ [cache[c] EXCEPT !.flight = FALSE].flight = FALSE
          /\ [cache[c] EXCEPT !.flight = FALSE].tag = cache[c].tag
          /\ [cache[c] EXCEPT !.flight = FALSE].value = cache[c].value
      BY <1>2, FlightFields
    <3>2. QED
      BY <2>1, <3>1
  <2>2. CASE ~Live(q)
    BY <1>2, <2>2
  <2>3. QED
    BY <2>1, <2>2
<1> HIDE DEF f
<1>4. /\ cache'[c] = f /\ \A d \in Creds \ {c} : cache'[d] = cache[d]
      /\ cache' \in [Creds -> Entries]
  BY <1>1, <1>2, <1>3, CacheUpdate DEF IInv
<1>5. ASSUME NEW p \in Queries
      PROVE  /\ Placed(query'[p])
             /\ p = q => query'[p].step = "idle"
             /\ p # q => \/ query'[p] = query[p] /\ ~Awaits(p, q)
                         \/ query'[p].step = "lookup" /\ Awaits(p, q)
  <2>1. Placed(query[p])
    BY DEF IInv, Typed
  <2>2. CASE p = q
    BY <1>1, <2>2, Blank
  <2>3. CASE p # q /\ ~Awaits(p, q)
    BY <1>1, <2>1, <2>3
  <2>4. CASE p # q /\ Awaits(p, q)
    <3>1. query'[p] = w(p) /\ query[p].step = "waiting"
      BY <1>1, <2>4 DEF Awaits, At
    <3>2. Placed(w(p)) /\ w(p).step = "lookup"
      BY <2>1, <3>1 DEF Placed, QueryRecords, Flying
    <3>3. QED
      BY <2>4, <3>1, <3>2
  <2>5. QED
    BY <2>2, <2>3, <2>4
<1> HIDE DEF w
<1>6. DOMAIN query' = Queries /\ query' = [p \in Queries |-> query'[p]]
  BY <1>1
<1>7. Typed'
  BY <1>1, <1>4, <1>5, <1>6 DEF IInv, Typed, world
<1>8. ~Airborne(q)' /\ ~At(q, "waiting")'
  BY <1>5 DEF Airborne, Flying, At
<1>9. ASSUME NEW p \in Queries, Airborne(p), p # q
      PROVE  /\ query'[p] = query[p] /\ Airborne(p)' /\ (Live(p)' <=> Live(p))
             /\ query[p].cred \in Creds
             /\ Live(p) => (Entry(p).flight)'
  <2>1. query'[p] = query[p] /\ query[p].cred \in Creds
    BY <1>5, <1>9 DEF Awaits, At, Airborne, Flying, IInv, Typed, Placed
  <2>2. Airborne(p)' /\ (Live(p)' <=> Live(p))
    BY <1>3, <1>4, <1>9, <2>1 DEF Airborne, Live, Entry
  <2>3. ASSUME Live(p) PROVE (Entry(p).flight)'
    <3>1. cache[query[p].cred].flight
      BY <1>9, <2>3 DEF IInv, Flights, Entry
    <3>2. ~(query[p].cred = c /\ Live(q))
      <4>1. ASSUME query[p].cred = c, Live(q) PROVE p = q
        BY <1>2, <1>9, <2>3, <4>1 DEF IInv, Flights, Live, Entry
      <4>2. QED
        BY <1>9, <4>1
    <3>3. cache'[query[p].cred] = cache[query[p].cred]
      BY <1>4, <2>1, <3>2 DEF f
    <3>4. QED
      BY <2>1, <3>1, <3>3 DEF Entry
  <2>4. QED
    BY <2>1, <2>2, <2>3
<1>10. ASSUME NEW p \in Queries, Airborne(p)' PROVE p # q /\ Airborne(p)
  BY <1>5, <1>8, <1>10 DEF Airborne, Flying
<1>11. Flights'
  <2>1. ASSUME NEW d \in Creds, cache'[d].flight
        PROVE  \E p \in Queries : Airborne(p)' /\ query'[p].cred = d /\ Live(p)'
    <3>1. cache[d].flight /\ ~(d = c /\ Live(q))
      BY <1>3, <1>4, <2>1
    <3>2. PICK p \in Queries : Airborne(p) /\ query[p].cred = d /\ Live(p)
      BY <3>1 DEF IInv, Flights
    <3>3. p # q
      BY <3>1, <3>2
    <3>4. QED
      BY <1>9, <3>2, <3>3
  <2>2. ASSUME NEW p \in Queries, Airborne(p)', Live(p)' PROVE (Entry(p).flight)'
    BY <1>9, <1>10, <2>2
  <2>3. ASSUME NEW p \in Queries, At(p, "waiting")'
        PROVE  \E o \in Queries : Airborne(o)' /\ Awaits(p, o)'
    <3>1. p # q /\ query'[p] = query[p] /\ ~Awaits(p, q)
      BY <1>5, <1>8, <2>3 DEF At
    <3>2. PICK o \in Queries : Airborne(o) /\ Awaits(p, o)
      BY <2>3, <3>1 DEF IInv, Flights, At
    <3>3. o # q
      BY <3>1, <3>2
    <3>4. QED
      BY <1>9, <3>1, <3>2, <3>3 DEF Awaits, At
  <2>4. ASSUME NEW o \in Queries, NEW p \in Queries, Airborne(o)', Airborne(p)',
               query'[o].cred = query'[p].cred, query'[o].tag = query'[p].tag
        PROVE  o = p
    BY <1>9, <1>10, <2>4 DEF IInv, Flights
  <2>5. QED
    BY <2>1, <2>2, <2>3, <2>4 DEF Flights
<1>12. Counted'
  BY <1>1, <1>5, CountedKept DEF IInv, At, Awaits
<1>13. Applied'
  <2>1. ASSUME NEW d \in Creds, cache'[d].value.pending
        PROVE  \E p \in Queries : At(p, "observe")' /\ query'[p].cred = d /\ Live(p)'
    <3>1. cache[d].value.pending
      BY <1>3, <1>4, <2>1
    <3>2. PICK p \in Queries : At(p, "observe") /\ query[p].cred = d /\ Live(p)
      BY <3>1 DEF IInv, Applied
    <3>3. p # q /\ Airborne(p)
      BY <1>1, <3>2 DEF At, Airborne, Flying
    <3>4. QED
      BY <1>9, <3>2, <3>3 DEF At
  <2>2. QED
    BY <2>1 DEF Applied
<1>14. QED
  BY <1>7, <1>11, <1>12, <1>13 DEF IInv

LEMMA StepOfDelete ==
  ASSUME IInv, NEW c \in Creds, DeleteCredential(c)
  PROVE  IInv'
<1>1. /\ cache' = [cache EXCEPT ![c] = NoEntry] /\ key' = [key EXCEPT ![c] = None]
      /\ left' = [left EXCEPT !.edits = @ \ {<<c, None>>}]
      /\ UNCHANGED <<identity, query, slots, sampler, stopped, clock>>
  BY DEF DeleteCredential
<1>2. /\ cache'[c] = NoEntry /\ \A d \in Creds \ {c} : cache'[d] = cache[d]
      /\ cache' \in [Creds -> Entries]
  BY <1>1, Blank, CacheUpdate DEF IInv
<1>3. Typed'
  BY <1>1, <1>2 DEF IInv, Typed
<1>4. \A q \in Queries : (Airborne(q)' <=> Airborne(q)) /\ (Airborne(q) => query[q].tag # 0)
  BY <1>1 DEF Airborne, Flying, IInv, Typed, Placed
<1>5. ASSUME NEW q \in Queries, Airborne(q)
      PROVE  /\ Live(q)' <=> Live(q) /\ query[q].cred # c
             /\ query[q].cred # c => Entry(q)' = Entry(q)
  <2>1. query[q].cred \in Creds /\ query'[q] = query[q] /\ query[q].tag # 0
    BY <1>1, <1>4, <1>5 DEF Airborne, Flying, IInv, Typed, Placed
  <2>2. QED
    BY <1>2, <2>1, Blank DEF Live, Entry
<1>6. Flights'
  <2>1. ASSUME NEW d \in Creds, cache'[d].flight
        PROVE  \E q \in Queries : Airborne(q)' /\ query'[q].cred = d /\ Live(q)'
    <3>1. d # c /\ cache[d].flight
      BY <1>2, <2>1, Blank
    <3>2. PICK q \in Queries : Airborne(q) /\ query[q].cred = d /\ Live(q)
      BY <3>1 DEF IInv, Flights
    <3>3. QED
      BY <1>1, <1>4, <1>5, <3>1, <3>2
  <2>2. ASSUME NEW q \in Queries, Airborne(q)', Live(q)' PROVE (Entry(q).flight)'
    BY <1>4, <1>5, <2>2 DEF IInv, Flights
  <2>3. \A q \in Queries : At(q, "waiting")' =>
          \E p \in Queries : Airborne(p)' /\ Awaits(q, p)'
    BY <1>1, <1>4 DEF IInv, Flights, Awaits, At
  <2>4. \A p, q \in Queries : Airborne(p)' /\ Airborne(q)' /\ query'[p].cred = query'[q].cred
          /\ query'[p].tag = query'[q].tag => p = q
    BY <1>1, <1>4 DEF IInv, Flights
  <2>5. QED
    BY <2>1, <2>2, <2>3, <2>4 DEF Flights
<1>7. Counted'
  BY <1>1, CountedKept DEF IInv, At
<1>8. Applied'
  <2>1. ASSUME NEW d \in Creds, cache'[d].value.pending
        PROVE  \E q \in Queries : At(q, "observe")' /\ query'[q].cred = d /\ Live(q)'
    <3>1. d # c /\ cache[d].value.pending
      BY <1>2, <2>1, Blank
    <3>2. PICK q \in Queries : At(q, "observe") /\ query[q].cred = d /\ Live(q)
      BY <3>1 DEF IInv, Applied
    <3>3. QED
      BY <1>1, <1>5, <3>1, <3>2 DEF At, Airborne, Flying
  <2>2. QED
    BY <2>1 DEF Applied
<1>9. QED
  BY <1>3, <1>6, <1>7, <1>8 DEF IInv

\* Steps that touch no call, no entry and no slot.
LEMMA StepsElsewhere ==
  ASSUME IInv, UNCHANGED <<cache, query, slots>>, Typed'
  PROVE  IInv'
<1>1. Flights'
  BY FlightsKept DEF IInv, Airborne, At
<1>2. Counted'
  BY CountedKept DEF IInv, At
<1>3. Applied'
  BY AppliedKept DEF IInv
<1>4. QED
  BY <1>1, <1>2, <1>3 DEF IInv

LEMMA StepsOfTheRest ==
  ASSUME IInv,
         \/ StartSampler \/ RoundCloses \/ RoundEnds \/ SamplerStops \/ Sample
         \/ Tick \/ Quiesce \/ Revive \/ UNCHANGED vars
         \/ \E c \in Creds, k \in Keys : ReplaceKey(c, k)
         \/ \E w \in Workers, c \in Creds : HandOut(w, c) /\ UNCHANGED query
  PROVE  IInv'
<1>1. UNCHANGED <<cache, query, slots>>
  BY DEF StartSampler, RoundCloses, RoundEnds, SamplerStops, Sample, Tick, Quiesce, Revive,
         ReplaceKey, HandOut, vars
<1>t. Typed
  BY DEF IInv
<1>2. CASE StartSampler \/ RoundCloses \/ RoundEnds \/ SamplerStops
  BY <1>t, <1>1, <1>2, StepsElsewhere
     DEF StartSampler, RoundCloses, RoundEnds, SamplerStops, Typed, world
<1>3. CASE Sample
  <2>1. PICK rest \in Rests : sampler' = [step |-> "round", todo |-> Targets(rest)]
    BY <1>3 DEF Sample
  <2>2. Targets(rest) \subseteq Creds
    BY DEF Targets
  <2>3. sampler' \in [step : {"off", "idle", "round", "drain"}, todo : SUBSET Creds]
    BY <2>1, <2>2
  <2>4. QED
    BY <1>t, <1>1, <1>3, <2>3, StepsElsewhere DEF Sample, Typed, world
<1>4. CASE Tick \/ Quiesce \/ Revive \/ UNCHANGED vars
  <2>1. /\ UNCHANGED <<identity, sampler, key>> /\ stopped' \in BOOLEAN /\ clock' \in Times
        /\ left' \in [edits : SUBSET (Creds \X (Keys \cup {None})), stops : Nat, ticks : Times]
    <3>1. CASE Tick
      <4>1. clock' = clock + 1 /\ clock < MaxTime /\ left.ticks > 0
            /\ left' = [left EXCEPT !.ticks = left.ticks - 1]
            /\ UNCHANGED <<identity, sampler, key, stopped>>
        BY <3>1 DEF Tick
      <4>2. left.ticks - 1 \in Times /\ clock + 1 \in Times
        BY <1>t, <4>1, Constants DEF Typed, Times
      <4>3. left' \in [edits : SUBSET (Creds \X (Keys \cup {None})), stops : Nat, ticks : Times]
        BY <1>t, <4>1, <4>2 DEF Typed
      <4>4. QED
        BY <1>t, <4>1, <4>2, <4>3 DEF Typed
    <3>2. CASE Quiesce
      <4>1. stopped' = TRUE /\ left.stops > 0 /\ left' = [left EXCEPT !.stops = left.stops - 1]
            /\ UNCHANGED <<identity, sampler, key, clock>>
        BY <3>2 DEF Quiesce
      <4>2. left.stops - 1 \in Nat
        BY <1>t, <4>1 DEF Typed
      <4>3. left' \in [edits : SUBSET (Creds \X (Keys \cup {None})), stops : Nat, ticks : Times]
        BY <1>t, <4>1, <4>2 DEF Typed
      <4>4. QED
        BY <1>t, <4>1, <4>3 DEF Typed
    <3>3. CASE Revive \/ UNCHANGED vars
      BY <1>t, <3>3 DEF Revive, vars, Typed
    <3>4. QED
      BY <1>4, <3>1, <3>2, <3>3
  <2>2. QED
    BY <1>t, <1>1, <2>1, StepsElsewhere DEF Typed
<1>5. ASSUME NEW c \in Creds, NEW k \in Keys, ReplaceKey(c, k) PROVE IInv'
  <2>1. /\ UNCHANGED <<identity, sampler, stopped, clock>> /\ key' \in [Creds -> Keys \cup {None}]
        /\ left' \in [edits : SUBSET (Creds \X (Keys \cup {None})), stops : Nat, ticks : Times]
    BY <1>t, <1>5 DEF ReplaceKey, Typed
  <2>2. QED
    BY <1>t, <1>1, <2>1, StepsElsewhere DEF Typed
<1>6. ASSUME NEW w \in Workers, NEW c \in Creds, HandOut(w, c), UNCHANGED query PROVE IInv'
  <2>1. UNCHANGED world /\ sampler' = [sampler EXCEPT !.todo = @ \ {c}]
    BY <1>6 DEF HandOut
  <2>2. sampler' \in [step : {"off", "idle", "round", "drain"}, todo : SUBSET Creds]
    BY <1>t, <2>1 DEF Typed
  <2>3. QED
    BY <1>t, <1>1, <2>1, <2>2, StepsElsewhere DEF Typed, world
<1>7. QED
  BY <1>2, <1>3, <1>4, <1>5, <1>6

LEMMA InitInv == Init => IInv
<1> SUFFICES ASSUME Init PROVE IInv
  OBVIOUS
<1>1. /\ cache = [c \in Creds |-> NoEntry] /\ query = [q \in Queries |-> Idle]
      /\ slots = 0 /\ key = FirstKey /\ stopped = FALSE /\ clock = 0 /\ left \in Budgets
      /\ identity = [c \in Creds |-> [key |-> None, account |-> None]]
      /\ sampler = [step |-> "off", todo |-> {}]
  BY DEF Init
<1>2. Typed
  <2>1. \A q \in Queries : Placed(query[q])
    BY <1>1, Blank
  <2>2. cache \in [Creds -> Entries]
    BY <1>1, Blank
  <2>3. clock \in Times /\ key \in [Creds -> Keys \cup {None}]
    BY <1>1, Constants DEF Times
  <2>4. DOMAIN query = Queries /\ query = [q \in Queries |-> query[q]]
    BY <1>1
  <2>5. left \in [edits : SUBSET (Creds \X (Keys \cup {None})), stops : Nat, ticks : Times]
    BY <1>1, Constants
  <2>6. QED
    BY <1>1, <2>1, <2>2, <2>3, <2>4, <2>5 DEF Typed
<1>3. \A q \in Queries : query[q].step = "idle"
  BY <1>1, Blank
<1>4. \A c \in Creds : ~cache[c].flight /\ ~cache[c].value.pending
  BY <1>1, Blank
<1>5. Flights /\ Applied
  BY <1>3, <1>4 DEF Flights, Applied, Airborne, Flying, At
<1>6. Counted
  <2>1. Fetching = {}
    BY <1>3 DEF Fetching, At
  <2>2. QED
    BY <1>1, <2>1, FS_EmptySet, Constants DEF Counted
<1>7. QED
  BY <1>2, <1>5, <1>6 DEF IInv

LEMMA StepInv == IInv /\ [Next]_vars => IInv'
<1> SUFFICES ASSUME IInv, [Next]_vars PROVE IInv'
  OBVIOUS
<1>1. ASSUME NEW q \in Queries, QueryStep(q) PROVE IInv'
  <2>1. CASE LookupGone(q) \/ LookupCached(q) \/ WaitEnds(q)
    BY <2>1, StepsOnTheGround
  <2>2. CASE TakeSlot(q) \/ SlotRefused(q) \/ FetchOk(q) \/ FetchFails(q)
    BY <2>2, StepsOfSlots
  <2>3. CASE LookupWaits(q) \/ LookupFlies(q)
    BY <2>3, StepOfLookupWaits, StepOfLookupFlies
  <2>4. CASE Publish(q) \/ Observe(q) \/ Release(q)
    BY <2>4, StepOfPublish, StepOfObserve, StepOfRelease
  <2>5. QED
    BY <1>1, <2>1, <2>2, <2>3, <2>4 DEF QueryStep
<1>2. CASE SamplerStep
  <2>1. ASSUME NEW w \in Workers, NEW c \in Creds, HandOut(w, c) PROVE IInv'
    <3>1. w \in Queries
      BY DEF Queries
    <3>2. CASE Ask(w, c, FALSE)
      BY <2>1, <3>1, <3>2, StepsOnTheGround
    <3>3. CASE UNCHANGED query
      BY <2>1, <3>3, StepsOfTheRest
    <3>4. QED
      BY <2>1, <3>2, <3>3 DEF HandOut
  <2>2. QED
    BY <1>2, <2>1, StepsOfTheRest DEF SamplerStep
<1>3. CASE Sample \/ UNCHANGED vars
  BY <1>3, StepsOfTheRest
<1>4. CASE Outside
  <2>1. ASSUME NEW q \in Users, NEW c \in Creds, UserAsks(q, c) PROVE IInv'
    <3>1. q \in Queries
      BY DEF Queries
    <3>2. QED
      BY <2>1, <3>1, StepsOnTheGround
  <2>2. ASSUME NEW c \in Creds, DeleteCredential(c) PROVE IInv'
    BY <2>2, StepOfDelete
  <2>3. QED
    BY <1>4, <2>1, <2>2, StepsOfTheRest DEF Outside
<1>5. QED
  BY <1>1, <1>2, <1>3, <1>4 DEF Next

LEMMA Invariant == Spec => []IInv
<1>1. Init => IInv
  BY InitInv
<1>2. IInv /\ [Next]_vars => IInv'
  BY StepInv
<1>3. QED
  BY <1>1, <1>2, PTL DEF Spec

-----------------------------------------------------------------------------
(* Whose limits a check shows *)

\* A call on its flight that still has its key and its value.
Carries(q) == query[q].step \in Flying \ {"release"}

\* The key will not be given to the credential again: a behaviour gives each
\* key at most once to a credential, beside the one it starts with.
Past(c, k) == <<c, k>> \notin left.edits

Own(v, k) == v.account \in {None, AccountOf[k]} /\ v.source \in {None, AccountOf[k]}

\* An entry shows its own account.  It may name another one, of a late check, but
\* then its key is gone for good, and nothing is shared into it.
OwnEntry(c, e) ==
  /\ e.tag = 0 => e.value.source = None
  /\ e.tag # 0 =>
       /\ e.key \in Keys /\ e.value.source \in {None, AccountOf[e.key]}
       /\ \/ e.value.account \in {None, AccountOf[e.key]}
          \/ key[c] # e.key /\ Past(c, e.key)

OwnEntries == \A c \in Creds : OwnEntry(c, cache[c])

\* What a call has found, and that it writes into an entry of its key.
OwnCall(q) ==
  /\ Carries(q) => Own(query[q].value, query[q].key)
  /\ Carries(q) /\ Live(q) => Entry(q).key = query[q].key
  /\ query[q].step = "release" => query[q].value.source = None

\* The key and the entry that came after those of a call under way came with an
\* edit: neither is going to come a second time.
KeysAdvance(q) ==
  LET c == query[q].cred IN
  Carries(q) =>
    /\ key[c] \notin {None, query[q].key} => Past(c, key[c])
    /\ cache[c].tag # 0 /\ cache[c].key # query[q].key => Past(c, cache[c].key)

AccountsInv == OwnEntries /\ \A q \in Queries : OwnCall(q) /\ KeysAdvance(q)

LEMMA CarriesFields ==
  ASSUME Typed, NEW q \in Queries, Carries(q)
  PROVE  /\ query[q].cred \in Creds /\ query[q].key \in Keys /\ query[q].tag # 0
         /\ query[q].value \in Values /\ query[q].step \in Flying /\ Airborne(q)
         /\ query[q].step # "release"
<1>1. Placed(query[q])
  BY DEF Typed
<1>2. QED
  BY <1>1 DEF Carries, Placed, QueryRecords, Flying, Airborne

\* Steps that give no key and make no entry.
LEMMA AccountsKept ==
  ASSUME Typed, AccountsInv, key' = key, left'.edits = left.edits,
         \A q \in Queries : Carries(q)' =>
           /\ Carries(q) /\ query'[q].cred = query[q].cred /\ query'[q].tag = query[q].tag
           /\ query'[q].key = query[q].key /\ Own(query'[q].value, query[q].key),
         \A q \in Queries : query'[q].step = "release" => query'[q].value.source = None,
         \A c \in Creds : /\ cache'[c].tag = cache[c].tag /\ cache'[c].key = cache[c].key
                          /\ OwnEntry(c, cache'[c])
  PROVE  AccountsInv'
<1>1. OwnEntries'
  BY DEF OwnEntries, OwnEntry, Past
<1>2. ASSUME NEW q \in Queries PROVE OwnCall(q)' /\ KeysAdvance(q)'
  <2>1. CASE Carries(q)'
    <3>1. /\ Carries(q) /\ query'[q].cred = query[q].cred /\ query'[q].tag = query[q].tag
          /\ query'[q].key = query[q].key /\ Own(query'[q].value, query[q].key)
      BY <2>1
    <3>2. query[q].cred \in Creds
      BY <3>1, CarriesFields
    <3>3. OwnCall(q) /\ KeysAdvance(q)
      BY DEF AccountsInv
    <3>4. (Live(q)' <=> Live(q)) /\ (Entry(q).key)' = Entry(q).key
      BY <3>1, <3>2 DEF Live, Entry
    <3>5. OwnCall(q)'
      BY <3>1, <3>3, <3>4 DEF OwnCall, Own
    <3>6. KeysAdvance(q)'
      BY <2>1, <3>1, <3>2, <3>3 DEF KeysAdvance, Past
    <3>7. QED
      BY <3>5, <3>6
  <2>2. CASE ~Carries(q)'
    BY <2>2 DEF OwnCall, KeysAdvance
  <2>3. QED
    BY <2>1, <2>2
<1>3. QED
  BY <1>1, <1>2 DEF AccountsInv

\* The same, when one call moves on and the entries stay.
LEMMA AccountsOfCall ==
  ASSUME Typed, AccountsInv, key' = key, left'.edits = left.edits, cache' = cache,
         NEW q \in Queries, \A p \in Queries \ {q} : query'[p] = query[p],
         Carries(q)' =>
           /\ Carries(q) /\ query'[q].cred = query[q].cred /\ query'[q].tag = query[q].tag
           /\ query'[q].key = query[q].key /\ Own(query'[q].value, query[q].key),
         query'[q].step # "release"
  PROVE  AccountsInv'
<1>1. \A p \in Queries : Carries(p)' =>
        /\ Carries(p) /\ query'[p].cred = query[p].cred /\ query'[p].tag = query[p].tag
        /\ query'[p].key = query[p].key /\ Own(query'[p].value, query[p].key)
  BY DEF Carries, AccountsInv, OwnCall
<1>2. \A p \in Queries : query'[p].step = "release" => query'[p].value.source = None
  BY DEF AccountsInv, OwnCall
<1>3. \A c \in Creds : OwnEntry(c, cache'[c])
  BY DEF AccountsInv, OwnEntries
<1>4. QED
  BY <1>1, <1>2, <1>3, AccountsKept

LEMMA FailsFields ==
  ASSUME NEW v \in Values
  PROVE  Failed(v).account = v.account /\ Failed(v).source = v.source
BY DEF Failed, Values

LEMMA CallFields ==
  ASSUME Typed, NEW q \in Queries, NEW step, NEW v
  PROVE  LET s == [query[q] EXCEPT !.step = step]
             t == [query[q] EXCEPT !.step = "publish", !.value = v]
         IN /\ s.step = step /\ s.cred = query[q].cred /\ s.tag = query[q].tag
            /\ s.key = query[q].key /\ s.value = query[q].value
            /\ t.step = "publish" /\ t.cred = query[q].cred /\ t.tag = query[q].tag
            /\ t.key = query[q].key /\ t.value = v
<1>1. query[q] \in QueryRecords
  BY DEF Typed, Placed
<1>2. QED
  BY <1>1 DEF QueryRecords

\* A read finds the limits of the account of its key; a failed one keeps what the
\* call had.
LEMMA AccountsOfReads ==
  ASSUME IInv, AccountsInv, NEW q \in Queries,
         TakeSlot(q) \/ SlotRefused(q) \/ FetchOk(q) \/ FetchFails(q)
  PROVE  AccountsInv'
<1>t. Typed
  BY DEF IInv
<1>1. query[q].step \in {"slot", "fetching"} /\ UNCHANGED <<cache, world>>
  BY DEF TakeSlot, SlotRefused, FetchOk, FetchFails, At
<1>2. Carries(q) /\ query[q].value \in Values /\ query[q].key \in Keys
  BY <1>t, <1>1, CarriesFields DEF Carries, Flying
<1>3. Own(query[q].value, query[q].key)
  BY <1>2 DEF AccountsInv, OwnCall
<1>4. CASE TakeSlot(q)
  <2> DEFINE s == [query[q] EXCEPT !.step = "fetching"]
  <2>1. query' = [query EXCEPT ![q] = s]
    BY <1>4 DEF TakeSlot, Go
  <2>2. /\ s.step = "fetching" /\ s.cred = query[q].cred /\ s.tag = query[q].tag
        /\ s.key = query[q].key /\ s.value = query[q].value
    BY <1>t, CallFields
  <2> HIDE DEF s
  <2>3. query'[q] = s /\ \A p \in Queries \ {q} : query'[p] = query[p]
    BY <1>t, <2>1, QueryUpdate
  <2>4. QED
    BY <1>t, <1>1, <1>2, <1>3, <2>2, <2>3, AccountsOfCall DEF world
<1>5. CASE ~TakeSlot(q)
  <2>1. PICK v : /\ query' = [query EXCEPT ![q].step = "publish", ![q].value = v]
                 /\ Own(v, query[q].key)
    <3>1. CASE SlotRefused(q) \/ FetchFails(q)
      <4>1. query' = [query EXCEPT ![q].step = "publish", ![q].value = Failed(query[q].value)]
        BY <3>1 DEF SlotRefused, FetchFails
      <4>2. Own(Failed(query[q].value), query[q].key)
        BY <1>2, <1>3, FailsFields DEF Own
      <4>3. QED
        BY <4>1, <4>2
    <3>2. CASE FetchOk(q)
      <4>1. PICK account \in {query[q].value.account, AccountOf[query[q].key], None} :
              query' = [query EXCEPT ![q].step = "publish", ![q].value = Checked(q, account)]
        BY <3>2 DEF FetchOk
      <4>2. Own(Checked(q, account), query[q].key)
        BY <1>3, <4>1 DEF Own, Checked
      <4>3. QED
        BY <4>1, <4>2
    <3>3. QED
      BY <1>5, <3>1, <3>2
  <2> DEFINE s == [query[q] EXCEPT !.step = "publish", !.value = v]
  <2>2. query' = [query EXCEPT ![q] = s]
    BY <2>1
  <2>3. /\ s.step = "publish" /\ s.cred = query[q].cred /\ s.tag = query[q].tag
        /\ s.key = query[q].key /\ s.value = v
    BY <1>t, CallFields
  <2> HIDE DEF s
  <2>4. query'[q] = s /\ \A p \in Queries \ {q} : query'[p] = query[p]
    BY <1>t, <2>2, QueryUpdate
  <2>5. QED
    BY <1>t, <1>1, <1>2, <2>1, <2>3, <2>4, AccountsOfCall DEF world
<1>6. QED
  BY <1>4, <1>5

LEMMA AccountsOnTheGround ==
  ASSUME IInv, AccountsInv, NEW q \in Queries, query'[q].step \in {"idle", "lookup", "waiting"},
         \A p \in Queries \ {q} : query'[p] = query[p], cache' = cache, key' = key, left' = left
  PROVE  AccountsInv'
<1>1. Typed /\ ~Carries(q)' /\ query'[q].step # "release"
  BY DEF IInv, Carries, Flying
<1>2. QED
  BY <1>1, AccountsOfCall

LEMMA AccountsOfLookups ==
  ASSUME IInv, AccountsInv, NEW q \in Queries,
         \/ \E c \in Creds, refresh \in BOOLEAN : Ask(q, c, refresh) /\ UNCHANGED <<cache, world>>
         \/ LookupGone(q) \/ LookupCached(q) \/ LookupWaits(q) \/ WaitEnds(q)
  PROVE  AccountsInv'
<1>t. Typed /\ cache' = cache /\ key' = key /\ left' = left
  BY DEF IInv, LookupGone, LookupCached, LookupWaits, WaitEnds, world
<1>1. CASE LookupGone(q) \/ LookupCached(q) \/ WaitEnds(q)
  <2>1. query' = [query EXCEPT ![q] = Idle]
    BY <1>1 DEF LookupGone, LookupCached, WaitEnds, Return
  <2>2. query'[q].step = "idle" /\ \A p \in Queries \ {q} : query'[p] = query[p]
    BY <1>t, <2>1, Blank, QueryUpdate
  <2>3. QED
    BY <1>t, <2>2, AccountsOnTheGround
<1>2. CASE LookupWaits(q)
  <2> DEFINE s == [query[q] EXCEPT !.step = "waiting", !.tag = Present(query[q].cred).tag]
  <2>1. query' = [query EXCEPT ![q] = s]
    BY <1>2 DEF LookupWaits
  <2>2. s.step = "waiting"
    BY <1>t DEF Typed, Placed, QueryRecords
  <2> HIDE DEF s
  <2>3. query'[q] = s /\ \A p \in Queries \ {q} : query'[p] = query[p]
    BY <1>t, <2>1, QueryUpdate
  <2>4. QED
    BY <1>t, <2>2, <2>3, AccountsOnTheGround
<1>3. ASSUME NEW c \in Creds, NEW refresh \in BOOLEAN, Ask(q, c, refresh) PROVE AccountsInv'
  <2> DEFINE s == [Idle EXCEPT !.step = "lookup", !.cred = c, !.refresh = refresh]
  <2>1. query' = [query EXCEPT ![q] = s]
    BY <1>3 DEF Ask
  <2>2. s.step = "lookup"
    BY Asks
  <2> HIDE DEF s
  <2>3. query'[q] = s /\ \A p \in Queries \ {q} : query'[p] = query[p]
    BY <1>t, <2>1, QueryUpdate
  <2>4. QED
    BY <1>t, <2>2, <2>3, AccountsOnTheGround
<1>4. QED
  BY <1>1, <1>2, <1>3

LEMMA PendingAccounts ==
  ASSUME NEW v \in Values, NEW p \in BOOLEAN
  PROVE  LET w == [v EXCEPT !.pending = p]
         IN w \in Values /\ w.status = v.status /\ w.account = v.account /\ w.source = v.source
BY DEF Values

\* A check goes into the entry of its key, and to siblings that verified the
\* account it shows.
LEMMA AccountsOfPublish ==
  ASSUME IInv, AccountsInv, NEW q \in Queries, Publish(q)
  PROVE  AccountsInv'
<1> DEFINE c == query[q].cred
           k == query[q].key
           v == [query[q].value EXCEPT !.pending = query[q].value.pending /\ Valid(q)]
           w == [v EXCEPT !.pending = FALSE]
<1>1. Typed /\ cache \in [Creds -> Entries] /\ query[q].step = "publish"
  BY DEF IInv, Typed, Publish, At
<1>2. Carries(q)
  BY <1>1 DEF Carries, Flying
<1>3. /\ c \in Creds /\ k \in Keys /\ query[q].tag # 0 /\ query[q].value \in Values
      /\ query[q].step \in Flying
  BY <1>1, <1>2, CarriesFields
<1>4. Own(query[q].value, k) /\ (Live(q) => cache[c].key = k)
  BY <1>2 DEF AccountsInv, OwnCall, Entry
<1>5. v \in Values /\ v.account = query[q].value.account /\ v.source = query[q].value.source
  <2>1. (query[q].value.pending /\ Valid(q)) \in BOOLEAN
    OBVIOUS
  <2>2. QED
    BY <1>3, <2>1, PendingAccounts
<1>6. /\ cache' = [d \in Creds |->
            IF d = c /\ Live(q) THEN [cache[d] EXCEPT !.value = v]
            ELSE IF Valid(q) /\ Shares(c, v, d) THEN [cache[d] EXCEPT !.value = w]
                 ELSE cache[d]]
      /\ UNCHANGED <<slots, sampler, world>>
      /\ query' = [query EXCEPT ![q] =
           IF Valid(q) THEN [query[q] EXCEPT !.step = "observe"] ELSE Done(q)]
  BY DEF Publish
<1> HIDE DEF v
<1>7. w \in Values /\ w.account = v.account /\ w.source = v.source
  BY <1>5, PendingAccounts
<1> HIDE DEF w
<1>8. ASSUME NEW d \in Creds
      PROVE  /\ cache'[d].tag = cache[d].tag /\ cache'[d].key = cache[d].key
             /\ OwnEntry(d, cache'[d])
  <2>1. cache[d] \in Entries /\ OwnEntry(d, cache[d])
    BY <1>1 DEF AccountsInv, OwnEntries
  <2>2. CASE d = c /\ Live(q)
    <3>1. cache'[d] = [cache[d] EXCEPT !.value = v]
      BY <1>6, <2>2
    <3>2. /\ cache'[d].value = v /\ cache'[d].tag = cache[d].tag
          /\ cache'[d].key = cache[d].key
      BY <1>5, <2>1, <3>1, ValueFields
    <3>3. cache[d].tag # 0 /\ cache[d].key = k
      BY <1>3, <1>4, <2>2 DEF Live, Entry
    <3>4. v.account \in {None, AccountOf[k]} /\ v.source \in {None, AccountOf[k]}
      BY <1>4, <1>5 DEF Own
    <3>5. OwnEntry(d, cache'[d])
      BY <1>3, <3>2, <3>3, <3>4 DEF OwnEntry
    <3>6. QED
      BY <3>2, <3>5
  <2>3. CASE ~(d = c /\ Live(q)) /\ Valid(q) /\ Shares(c, v, d)
    <3>1. cache'[d] = [cache[d] EXCEPT !.value = w]
      BY <1>6, <2>3
    <3>2. /\ cache'[d].value = w /\ cache'[d].tag = cache[d].tag
          /\ cache'[d].key = cache[d].key
      BY <1>7, <2>1, <3>1, ValueFields
    <3>3. /\ cache[d].tag # 0 /\ cache[d].key = key[d]
          /\ cache[d].value.account = v.account /\ v.account # None
      BY <2>3 DEF Shares
    <3>4. cache[d].key \in Keys /\ v.account = AccountOf[cache[d].key]
      BY <2>1, <3>3 DEF OwnEntry
    <3>5. v.account = AccountOf[k] /\ v.source \in {None, AccountOf[k]}
      BY <1>4, <1>5, <3>3 DEF Own
    <3>6. OwnEntry(d, cache'[d])
      BY <1>7, <3>2, <3>3, <3>4, <3>5 DEF OwnEntry
    <3>7. QED
      BY <3>2, <3>6
  <2>4. CASE ~(d = c /\ Live(q)) /\ ~(Valid(q) /\ Shares(c, v, d))
    <3>1. cache'[d] = cache[d]
      BY <1>6, <2>4
    <3>2. QED
      BY <2>1, <3>1
  <2>5. QED
    BY <2>2, <2>3, <2>4
<1>9. PICK s : /\ query' = [query EXCEPT ![q] = s]
               /\ \/ /\ s.step = "observe" /\ s.cred = c /\ s.tag = query[q].tag
                     /\ s.key = k /\ s.value = query[q].value
                  \/ s.step = "release" /\ s.value = NoValue
  <2>1. CASE Valid(q)
    <3>1. query' = [query EXCEPT ![q] = [query[q] EXCEPT !.step = "observe"]]
      BY <1>6, <2>1
    <3> DEFINE t == [query[q] EXCEPT !.step = "observe"]
    <3>2. /\ t.step = "observe" /\ t.cred = c /\ t.tag = query[q].tag
          /\ t.key = k /\ t.value = query[q].value
      BY <1>1, CallFields
    <3> HIDE DEF t
    <3>3. query' = [query EXCEPT ![q] = t]
      BY <3>1 DEF t
    <3>4. QED
      BY <3>2, <3>3
  <2>2. CASE ~Valid(q)
    <3>1. query' = [query EXCEPT ![q] = Done(q)]
      BY <1>6, <2>2
    <3>2. Done(q).step = "release" /\ Done(q).value = NoValue
      BY <1>1 DEF Done, Typed, Placed, QueryRecords
    <3>3. QED
      BY <3>1, <3>2
  <2>3. QED
    BY <2>1, <2>2
<1>10. query'[q] = s /\ \A p \in Queries \ {q} : query'[p] = query[p]
  BY <1>1, <1>9, QueryUpdate
<1>11. \A p \in Queries : Carries(p)' =>
         /\ Carries(p) /\ query'[p].cred = query[p].cred /\ query'[p].tag = query[p].tag
         /\ query'[p].key = query[p].key /\ Own(query'[p].value, query[p].key)
  BY <1>2, <1>4, <1>9, <1>10 DEF Carries, AccountsInv, OwnCall
<1>12. \A p \in Queries : query'[p].step = "release" => query'[p].value.source = None
  BY <1>9, <1>10 DEF AccountsInv, OwnCall, NoValue
<1>13. QED
  BY <1>1, <1>6, <1>8, <1>11, <1>12, AccountsKept DEF world

\* The account of a check becomes that of the present entry, whichever key it has:
\* with another one, its key is gone for good.
LEMMA AccountsOfObserve ==
  ASSUME IInv, AccountsInv, NEW q \in Queries, Observe(q)
  PROVE  AccountsInv'
<1> DEFINE c == query[q].cred
           k == query[q].key
           v == query[q].value
           verified == v.status = "ok" /\ v.account # None /\ key[c] = query[q].key
           identified(e) == IF verified /\ e.tag # 0
                            THEN [e EXCEPT !.value.account = v.account] ELSE e
           applied(e) == IF Live(q) THEN [e EXCEPT !.value.pending = FALSE] ELSE e
           i == identified(cache[c])
           a == applied(i)
<1>1. Typed /\ cache \in [Creds -> Entries] /\ query[q].step = "observe"
  BY DEF IInv, Typed, Observe, At
<1>2. Carries(q)
  BY <1>1 DEF Carries, Flying
<1>3. c \in Creds /\ k \in Keys /\ query[q].tag # 0 /\ v \in Values /\ cache[c] \in Entries
  BY <1>1, <1>2, CarriesFields
<1>4. Own(v, k) /\ KeysAdvance(q) /\ OwnEntry(c, cache[c])
  BY <1>2, <1>3 DEF AccountsInv, OwnCall, OwnEntries
<1>5. /\ cache' = [cache EXCEPT ![c] = a] /\ query' = [query EXCEPT ![q] = Done(q)]
      /\ key' = key /\ left' = left
  BY DEF Observe
<1>6. /\ i \in Entries /\ i.tag = cache[c].tag /\ i.key = cache[c].key
      /\ i.value.source = cache[c].value.source
      /\ \/ i.value.account = cache[c].value.account
         \/ verified /\ cache[c].tag # 0 /\ i.value.account = v.account
  <2> DEFINE j == [cache[c] EXCEPT !.value.account = v.account]
  <2>1. /\ j \in Entries /\ j.tag = cache[c].tag /\ j.key = cache[c].key
        /\ j.value.source = cache[c].value.source /\ j.value.account = v.account
    BY <1>3 DEF Entries, Values
  <2>2. (i = j /\ verified /\ cache[c].tag # 0) \/ i = cache[c]
    OBVIOUS
  <2> HIDE DEF i, j, verified
  <2>3. QED
    BY <1>3, <2>1, <2>2
<1>7. verified => v.account = AccountOf[k] /\ key[c] = k
  BY <1>4 DEF Own
<1> HIDE DEF i, v, identified, verified
<1>8. /\ a.tag = i.tag /\ a.key = i.key /\ a.value.source = i.value.source
      /\ a.value.account = i.value.account
  <2> DEFINE b == [i EXCEPT !.value.pending = FALSE]
  <2>1. /\ b.tag = i.tag /\ b.key = i.key /\ b.value.source = i.value.source
        /\ b.value.account = i.value.account
    BY <1>6 DEF Entries, Values
  <2>2. a = b \/ a = i
    OBVIOUS
  <2> HIDE DEF a, b
  <2>3. QED
    BY <2>1, <2>2
<1> HIDE DEF a, applied
<1>9. OwnEntry(c, a)
  <2>1. CASE a.value.account = cache[c].value.account
    BY <1>4, <1>6, <1>8, <2>1 DEF OwnEntry
  <2>2. CASE verified /\ cache[c].tag # 0 /\ a.value.account = v.account
    <3>1. CASE cache[c].key = k
      BY <1>4, <1>6, <1>7, <1>8, <2>2, <3>1 DEF OwnEntry
    <3>2. CASE cache[c].key # k
      <4>1. Past(c, cache[c].key) /\ key[c] # cache[c].key
        BY <1>2, <1>4, <1>7, <2>2, <3>2 DEF KeysAdvance
      <4>2. QED
        BY <1>4, <1>6, <1>8, <4>1 DEF OwnEntry
    <3>3. QED
      BY <3>1, <3>2
  <2>3. QED
    BY <1>6, <1>8, <2>1, <2>2
<1>10. cache'[c] = a /\ \A d \in Creds \ {c} : cache'[d] = cache[d]
  BY <1>1, <1>3, <1>5, CacheUpdate
<1>11. query'[q] = Done(q) /\ \A p \in Queries \ {q} : query'[p] = query[p]
  BY <1>1, <1>5, QueryUpdate
<1>12. Done(q).step = "release" /\ Done(q).value = NoValue
  BY <1>1 DEF Done, Typed, Placed, QueryRecords
<1>13. \A p \in Queries : Carries(p)' =>
         /\ Carries(p) /\ query'[p].cred = query[p].cred /\ query'[p].tag = query[p].tag
         /\ query'[p].key = query[p].key /\ Own(query'[p].value, query[p].key)
  BY <1>11, <1>12 DEF Carries, AccountsInv, OwnCall
<1>14. \A p \in Queries : query'[p].step = "release" => query'[p].value.source = None
  BY <1>11, <1>12 DEF AccountsInv, OwnCall, NoValue
<1>15. \A d \in Creds : /\ cache'[d].tag = cache[d].tag /\ cache'[d].key = cache[d].key
                        /\ OwnEntry(d, cache'[d])
  BY <1>6, <1>8, <1>9, <1>10 DEF AccountsInv, OwnEntries
<1>16. QED
  BY <1>1, <1>5, <1>13, <1>14, <1>15, AccountsKept

\* A flight begins with the entry of the present key, and what it shows is of that
\* key's account.
LEMMA AccountsOfFlies ==
  ASSUME IInv, AccountsInv, NEW q \in Queries, LookupFlies(q)
  PROVE  AccountsInv'
<1> DEFINE c == query[q].cred
           e == Present(c)
           f == [e EXCEPT !.flight = TRUE]
           s == [Idle EXCEPT !.step = "slot", !.cred = c, !.tag = e.tag,
                             !.key = key[c], !.value = e.value]
<1>1. /\ query[q].step = "lookup" /\ key[c] # None
      /\ cache' = [cache EXCEPT ![c] = f] /\ query' = [query EXCEPT ![q] = s]
      /\ key' = key /\ left' = left
  BY DEF LookupFlies, At, world
<1>2. Typed /\ cache \in [Creds -> Entries] /\ c \in Creds
  BY <1>1 DEF IInv, Typed, Placed
<1>3. e \in Entries /\ e.tag # 0 /\ key[c] \in Keys
  BY <1>1, <1>2, Presents
<1>4. /\ e.key = key[c] /\ Own(e.value, key[c])
      /\ e.tag = cache[c].tag => e = cache[c]
      /\ e = cache[c] \/ (e.tag = FreshTag(c) /\ e.tag # cache[c].tag)
  <2>1. CASE cache[c].tag # 0 /\ cache[c].key = key[c]
    <3>1. e = cache[c]
      BY <2>1 DEF Present
    <3>2. OwnEntry(c, cache[c])
      BY <1>2 DEF AccountsInv, OwnEntries
    <3>3. QED
      BY <2>1, <3>1, <3>2 DEF OwnEntry, Own
  <2>2. CASE ~(cache[c].tag # 0 /\ cache[c].key = key[c])
    <3> DEFINE g == [NoEntry EXCEPT !.tag = FreshTag(c), !.key = key[c]]
    <3>1. e = g
      BY <2>2 DEF Present
    <3>2. FreshTag(c) \in Nat /\ FreshTag(c) # 0 /\ FreshTag(c) # cache[c].tag
      BY <1>2, FreshTags
    <3>3. /\ g.tag = FreshTag(c) /\ g.key = key[c]
          /\ g.value.account = None /\ g.value.source = None
      BY DEF NoEntry, NoValue
    <3> HIDE DEF g, e
    <3>4. QED
      BY <3>1, <3>2, <3>3 DEF Own
  <2>3. QED
    BY <2>1, <2>2
<1> HIDE DEF e
<1>5. /\ s.step = "slot" /\ s.cred = c /\ s.tag = e.tag /\ s.key = key[c]
      /\ s.value = e.value
  BY DEF Idle
<1>6. f.tag = e.tag /\ f.key = e.key /\ f.value = e.value
  BY <1>3 DEF Entries
<1> HIDE DEF s, f
<1>7. /\ query'[q] = s /\ \A p \in Queries \ {q} : query'[p] = query[p]
      /\ cache'[c] = f /\ \A d \in Creds \ {c} : cache'[d] = cache[d]
  BY <1>1, <1>2, QueryUpdate, CacheUpdate
<1>8. OwnEntries'
  <2>1. ASSUME NEW d \in Creds PROVE OwnEntry(d, cache'[d])
    <3>1. CASE d = c
      BY <1>3, <1>4, <1>6, <1>7, <3>1 DEF OwnEntry, Own
    <3>2. CASE d # c
      BY <1>7, <3>2 DEF AccountsInv, OwnEntries
    <3>3. QED
      BY <3>1, <3>2
  <2>2. QED
    BY <1>1, <2>1 DEF OwnEntries, OwnEntry, Past
<1>9. OwnCall(q)' /\ KeysAdvance(q)'
  <2>1. Live(q)' => (Entry(q).key)' = key[c]
    BY <1>4, <1>5, <1>6, <1>7 DEF Entry
  <2>2. OwnCall(q)'
    BY <1>4, <1>5, <1>7, <2>1 DEF OwnCall, Own
  <2>3. KeysAdvance(q)'
    BY <1>1, <1>4, <1>5, <1>6, <1>7 DEF KeysAdvance
  <2>4. QED
    BY <2>2, <2>3
<1>10. ASSUME NEW p \in Queries, p # q PROVE OwnCall(p)' /\ KeysAdvance(p)'
  <2>1. OwnCall(p) /\ KeysAdvance(p) /\ query'[p] = query[p]
    BY <1>7, <1>10 DEF AccountsInv
  <2>2. CASE Carries(p)
    <3>1. query[p].cred \in Creds
      BY <1>2, <2>2, CarriesFields
    <3>2. CASE query[p].cred # c
      <4>1. cache'[query[p].cred] = cache[query[p].cred]
        BY <1>7, <3>1, <3>2
      <4>2. QED
        BY <1>1, <2>1, <4>1 DEF OwnCall, KeysAdvance, Carries, Live, Entry, Own, Past
    <3>3. CASE query[p].cred = c
      <4>1. query[p].tag = e.tag => cache[c] = e /\ Live(p)
        BY <1>2, <1>4, <3>3, FreshTags DEF Live, Entry
      <4>2. Live(p)' => Live(p) /\ cache'[c].key = cache[c].key
        BY <1>6, <1>7, <2>1, <3>3, <4>1 DEF Live, Entry
      <4>3. OwnCall(p)'
        BY <2>1, <3>3, <4>2 DEF OwnCall, Carries, Entry, Own
      <4>4. key[c] # query[p].key => Past(c, key[c])
        BY <1>1, <2>1, <2>2, <3>3 DEF KeysAdvance
      <4>5. KeysAdvance(p)'
        BY <1>1, <1>4, <1>6, <1>7, <2>1, <3>3, <4>4 DEF KeysAdvance, Past
      <4>6. QED
        BY <4>3, <4>5
    <3>4. QED
      BY <3>2, <3>3
  <2>3. CASE ~Carries(p)
    BY <2>1, <2>3 DEF OwnCall, KeysAdvance, Carries
  <2>4. QED
    BY <2>2, <2>3
<1>11. QED
  BY <1>8, <1>9, <1>10 DEF AccountsInv

\* The flight is over, the values stay.
LEMMA AccountsOfRelease ==
  ASSUME IInv, AccountsInv, NEW q \in Queries, Release(q)
  PROVE  AccountsInv'
<1> DEFINE c == query[q].cred
           g == IF Live(q) THEN [cache[c] EXCEPT !.flight = FALSE] ELSE cache[c]
<1>1. /\ query[q].step = "release" /\ cache' = [cache EXCEPT ![c] = g]
      /\ key' = key /\ left' = left
      /\ query' = [p \in Queries |->
           IF p = q THEN Idle
           ELSE IF Awaits(p, q) THEN [query[p] EXCEPT !.step = "lookup", !.tag = 0]
           ELSE query[p]]
  BY DEF Release, At, world
<1>2. Typed /\ cache \in [Creds -> Entries] /\ c \in Creds
  BY <1>1 DEF IInv, Typed, Placed, Flying
<1>3. g.tag = cache[c].tag /\ g.key = cache[c].key /\ g.value = cache[c].value
  <2>1. cache[c] \in Entries
    BY <1>2
  <2>2. QED
    BY <2>1 DEF Entries
<1> HIDE DEF g
<1>4. cache'[c] = g /\ \A d \in Creds \ {c} : cache'[d] = cache[d]
  BY <1>1, <1>2, CacheUpdate
<1>5. \A d \in Creds : /\ cache'[d].tag = cache[d].tag /\ cache'[d].key = cache[d].key
                       /\ OwnEntry(d, cache'[d])
  BY <1>3, <1>4 DEF AccountsInv, OwnEntries, OwnEntry
<1>6. ASSUME NEW p \in Queries
      PROVE  query'[p] = query[p] \/ query'[p].step \in {"idle", "lookup"}
  <2>1. query[p] \in QueryRecords
    BY <1>2 DEF Typed, Placed
  <2>2. QED
    BY <1>1, <2>1, Blank DEF QueryRecords
<1>7. \A p \in Queries : Carries(p)' =>
        /\ Carries(p) /\ query'[p].cred = query[p].cred /\ query'[p].tag = query[p].tag
        /\ query'[p].key = query[p].key /\ Own(query'[p].value, query[p].key)
  BY <1>6 DEF Carries, Flying, AccountsInv, OwnCall
<1>8. \A p \in Queries : query'[p].step = "release" => query'[p].value.source = None
  BY <1>6 DEF AccountsInv, OwnCall
<1>9. QED
  BY <1>1, <1>2, <1>5, <1>7, <1>8, AccountsKept

LEMMA AccountsOfDelete ==
  ASSUME IInv, AccountsInv, NEW c \in Creds, DeleteCredential(c)
  PROVE  AccountsInv'
<1>1. /\ cache' = [cache EXCEPT ![c] = NoEntry] /\ key' = [key EXCEPT ![c] = None]
      /\ query' = query /\ left'.edits \subseteq left.edits
  BY DEF DeleteCredential, IInv, Typed
<1>2. Typed /\ key \in [Creds -> Keys \cup {None}] /\ None \notin Keys
  BY Constants DEF IInv, Typed
<1>3. /\ cache'[c] = NoEntry /\ \A d \in Creds \ {c} : cache'[d] = cache[d]
      /\ key'[c] = None /\ \A d \in Creds \ {c} : key'[d] = key[d]
  BY <1>1, <1>2, CacheUpdate
<1>4. ASSUME NEW d \in Creds PROVE OwnEntry(d, cache[d])'
  <2>1. CASE d = c
    BY <1>3, <2>1, Blank DEF OwnEntry, NoEntry, NoValue
  <2>2. CASE d # c
    BY <1>1, <1>3, <2>2 DEF AccountsInv, OwnEntries, OwnEntry, Past
  <2>3. QED
    BY <2>1, <2>2
<1>5. ASSUME NEW q \in Queries PROVE OwnCall(q)' /\ KeysAdvance(q)'
  <2>1. OwnCall(q) /\ KeysAdvance(q) /\ query'[q] = query[q]
    BY <1>1 DEF AccountsInv
  <2>2. CASE Carries(q)
    <3>1. query[q].cred \in Creds /\ query[q].tag # 0
      BY <1>2, <2>2, CarriesFields
    <3>2. Live(q)' => query[q].cred # c /\ Live(q)
      BY <1>3, <2>1, <3>1, Blank DEF Live, Entry
    <3>3. OwnCall(q)'
      BY <1>3, <2>1, <3>1, <3>2 DEF OwnCall, Carries, Entry, Own
    <3>4. KeysAdvance(q)'
      <4>1. CASE query[q].cred = c
        BY <1>3, <2>1, <4>1, Blank DEF KeysAdvance
      <4>2. CASE query[q].cred # c
        BY <1>1, <1>3, <2>1, <3>1, <4>2 DEF KeysAdvance, Carries, Past
      <4>3. QED
        BY <4>1, <4>2
    <3>5. QED
      BY <3>3, <3>4
  <2>3. CASE ~Carries(q)
    BY <2>1, <2>3 DEF OwnCall, KeysAdvance, Carries
  <2>4. QED
    BY <2>2, <2>3
<1>6. QED
  BY <1>4, <1>5 DEF AccountsInv, OwnEntries

\* The new key has never been in an entry that names another account, nor the key
\* of a check under way that has since been replaced: its edit was still to come.
LEMMA AccountsOfReplace ==
  ASSUME IInv, AccountsInv, NEW c \in Creds, NEW k \in Keys, ReplaceKey(c, k)
  PROVE  AccountsInv'
<1>1. /\ <<c, k>> \in left.edits /\ key' = [key EXCEPT ![c] = k]
      /\ cache' = cache /\ query' = query
      /\ left'.edits = left.edits \ {<<c, k>>}
  BY DEF ReplaceKey, IInv, Typed
<1>2. Typed /\ key \in [Creds -> Keys \cup {None}]
  BY DEF IInv, Typed
<1>3. key'[c] = k /\ \A d \in Creds \ {c} : key'[d] = key[d]
  BY <1>1, <1>2
<1>4. ~Past(c, k) /\ (\A d, j : Past(d, j) => Past(d, j)') /\ Past(c, k)'
  BY <1>1 DEF Past
<1>5. ASSUME NEW d \in Creds PROVE OwnEntry(d, cache[d])'
  <2>1. OwnEntry(d, cache[d])
    BY DEF AccountsInv, OwnEntries
  <2>2. key[d] # cache[d].key /\ Past(d, cache[d].key) =>
          key'[d] # cache[d].key /\ <<d, cache[d].key>> \notin left'.edits
    BY <1>1, <1>3, <1>4 DEF Past
  <2>3. QED
    BY <1>1, <2>1, <2>2 DEF OwnEntry, Past
<1>6. ASSUME NEW q \in Queries PROVE OwnCall(q)' /\ KeysAdvance(q)'
  <2>1. OwnCall(q) /\ KeysAdvance(q) /\ query'[q] = query[q]
    BY <1>1 DEF AccountsInv
  <2>2. OwnCall(q)'
    BY <1>1, <2>1 DEF OwnCall, Carries, Live, Entry, Own
  <2>3. KeysAdvance(q)'
    <3>1. CASE ~Carries(q)
      BY <2>1, <3>1 DEF KeysAdvance, Carries
    <3>2. CASE Carries(q)
      <4>1. query[q].cred \in Creds
        BY <1>2, <3>2, CarriesFields
      <4>2. key'[query[q].cred] \notin {None, query[q].key} =>
              <<query[q].cred, key'[query[q].cred]>> \notin left'.edits
        BY <1>1, <1>3, <2>1, <3>2, <4>1 DEF KeysAdvance, Past
      <4>3. cache[query[q].cred].tag # 0 /\ cache[query[q].cred].key # query[q].key =>
              <<query[q].cred, cache[query[q].cred].key>> \notin left'.edits
        BY <1>1, <2>1, <3>2 DEF KeysAdvance, Past
      <4>4. QED
        BY <1>1, <2>1, <4>2, <4>3 DEF KeysAdvance, Past
    <3>3. QED
      BY <3>1, <3>2
  <2>4. QED
    BY <2>2, <2>3
<1>7. QED
  BY <1>5, <1>6 DEF AccountsInv, OwnEntries

LEMMA AccountsOfTheRest ==
  ASSUME IInv, AccountsInv, UNCHANGED <<cache, query, key>>, left'.edits = left.edits
  PROVE  AccountsInv'
BY DEF AccountsInv, OwnEntries, OwnEntry, OwnCall, KeysAdvance, Carries, Live, Entry, Own, Past

LEMMA InitAccounts == Init => AccountsInv
<1> SUFFICES ASSUME Init PROVE AccountsInv
  OBVIOUS
<1>1. /\ \A c \in Creds : cache[c].tag = 0 /\ cache[c].value.source = None
      /\ \A q \in Queries : query[q].step = "idle"
  BY DEF Init, NoEntry, NoValue, Idle
<1>2. QED
  BY <1>1 DEF AccountsInv, OwnEntries, OwnEntry, OwnCall, KeysAdvance, Carries, Flying

LEMMA StepAccounts == IInv /\ AccountsInv /\ [Next]_vars => AccountsInv'
<1> SUFFICES ASSUME IInv, AccountsInv, [Next]_vars PROVE AccountsInv'
  OBVIOUS
<1>1. ASSUME NEW q \in Queries, QueryStep(q) PROVE AccountsInv'
  <2>1. CASE LookupGone(q) \/ LookupCached(q) \/ LookupWaits(q) \/ WaitEnds(q)
    BY <2>1, AccountsOfLookups
  <2>2. CASE TakeSlot(q) \/ SlotRefused(q) \/ FetchOk(q) \/ FetchFails(q)
    BY <2>2, AccountsOfReads
  <2>3. CASE LookupFlies(q) \/ Publish(q) \/ Observe(q) \/ Release(q)
    BY <2>3, AccountsOfFlies, AccountsOfPublish, AccountsOfObserve, AccountsOfRelease
  <2>4. QED
    BY <1>1, <2>1, <2>2, <2>3 DEF QueryStep
<1>2. ASSUME NEW w \in Workers, NEW c \in Creds, HandOut(w, c) PROVE AccountsInv'
  <2>1. w \in Queries /\ UNCHANGED <<cache, world>>
    BY <1>2 DEF Queries, HandOut
  <2>2. CASE Ask(w, c, FALSE)
    BY <2>1, <2>2, AccountsOfLookups
  <2>3. CASE UNCHANGED query
    BY <2>1, <2>3, AccountsOfTheRest DEF world
  <2>4. QED
    BY <1>2, <2>2, <2>3 DEF HandOut
<1>3. CASE SamplerStep
  <2>1. CASE StartSampler \/ RoundCloses \/ RoundEnds \/ SamplerStops
    BY <2>1, AccountsOfTheRest DEF StartSampler, RoundCloses, RoundEnds, SamplerStops, world
  <2>2. QED
    BY <1>2, <1>3, <2>1 DEF SamplerStep
<1>4. CASE Sample \/ UNCHANGED vars
  BY <1>4, AccountsOfTheRest DEF Sample, world, vars
<1>5. CASE Outside
  <2>1. ASSUME NEW q \in Users, NEW c \in Creds, UserAsks(q, c) PROVE AccountsInv'
    <3>1. q \in Queries /\ UNCHANGED <<cache, world>>
      BY <2>1 DEF Queries, UserAsks
    <3>2. \E refresh \in BOOLEAN : Ask(q, c, refresh)
      BY <2>1 DEF UserAsks
    <3>3. QED
      BY <3>1, <3>2, AccountsOfLookups
  <2>2. CASE Tick \/ Quiesce \/ Revive
    <3>1. left'.edits = left.edits
      BY <2>2 DEF Tick, Quiesce, Revive, IInv, Typed
    <3>2. QED
      BY <2>2, <3>1, AccountsOfTheRest DEF Tick, Quiesce, Revive
  <2>3. ASSUME NEW c \in Creds, DeleteCredential(c) PROVE AccountsInv'
    BY <2>3, AccountsOfDelete
  <2>4. ASSUME NEW c \in Creds, NEW k \in Keys, ReplaceKey(c, k) PROVE AccountsInv'
    BY <2>4, AccountsOfReplace
  <2>5. QED
    BY <1>5, <2>1, <2>2, <2>3, <2>4 DEF Outside
<1>6. QED
  BY <1>1, <1>3, <1>4, <1>5 DEF Next

-----------------------------------------------------------------------------
(* Theorems *)

\* Every variable stays in its type: what a call does not have at its step it
\* does not use, and the slots in use stay within cap(usageSlots).
THEOREM TypeCorrect == Spec => []TypeOK
<1>1. IInv => TypeOK
  <2>1. Typed => query \in [Queries -> QueryRecords]
    BY DEF Typed, Placed
  <2>2. QED
    BY <2>1, SlotsTyped DEF IInv, Typed, TypeOK
<1>2. QED
  BY <1>1, Invariant, PTL

\* Whatever happens to keys, entries and timers meanwhile, for any number of
\* calls: a flight is that of one call, its waiters wait for a call that is under
\* way, and the slots in use are the reads under way.
THEOREM NoFlightIsLost == Spec => []FlightsAccounted
<1>1. IInv => FlightsAccounted
  BY DEF IInv, Flights, Counted, Fetching, FlightsAccounted
<1>2. QED
  BY <1>1, Invariant, PTL

\* Nobody is served a check from the cache before its pause or recovery is in
\* force, though the value is published under the lock earlier.
THEOREM AppliedBeforeRead == Spec => ReadersSeeAppliedState
<1>1. ASSUME IInv, [Next]_vars, NEW q \in Queries, At(q, "lookup"), query'[q].step = "idle",
             key[query[q].cred] # None
      PROVE  ~cache[query[q].cred].value.pending
  <2> DEFINE c == query[q].cred
  <2>1. c \in Creds
    BY <1>1 DEF At, IInv, Typed, Placed
  <2>2. LookupCached(q)
    <3>1. ~(query' = query)
      BY <1>1 DEF At
    <3>2. ASSUME NEW p \in Queries, QueryStep(p), p # q PROVE FALSE
      <4>1. CASE Release(p)
        BY <1>1, <3>2, <4>1 DEF Release, Awaits, At
      <4>2. CASE ~Release(p)
        <5>1. query'[q] = query[q]
          <6>1. CASE TakeSlot(p) \/ SlotRefused(p) \/ FetchOk(p) \/ FetchFails(p)
            BY <1>1, <3>2, <6>1, SlotSteps DEF IInv, Steady
          <6>2. CASE Publish(p) \/ Observe(p)
            BY <1>1, <3>2, <6>2, PublishSteps, ObserveSteps DEF IInv, Steady
          <6>3. CASE LookupGone(p) \/ LookupCached(p) \/ WaitEnds(p)
            BY <1>1, <3>2, <6>3, QueryUpdate DEF IInv, LookupGone, LookupCached, WaitEnds, Return
          <6>4. CASE LookupWaits(p)
            BY <1>1, <3>2, <6>4, QueryUpdate DEF IInv, LookupWaits
          <6>5. CASE LookupFlies(p)
            BY <1>1, <3>2, <6>5, QueryUpdate DEF IInv, LookupFlies
          <6>6. QED
            BY <3>2, <4>2, <6>1, <6>2, <6>3, <6>4, <6>5 DEF QueryStep
        <5>2. QED
          BY <1>1, <5>1 DEF At
      <4>3. QED
        BY <4>1, <4>2
    <3>3. ASSUME QueryStep(q) PROVE LookupCached(q)
      <4>1. Idle.step = "idle"
        BY Blank
      <4>2. ~LookupWaits(q)
        <5> DEFINE s == [query[q] EXCEPT !.step = "waiting", !.tag = Present(c).tag]
        <5>1. s.step = "waiting"
          BY <1>1 DEF IInv, Typed, Placed, QueryRecords
        <5>2. LookupWaits(q) => query' = [query EXCEPT ![q] = s]
          BY DEF LookupWaits
        <5> HIDE DEF s
        <5>3. QED
          BY <1>1, <5>1, <5>2, QueryUpdate DEF IInv
      <4>3. ~LookupFlies(q)
        <5> DEFINE s == [Idle EXCEPT !.step = "slot", !.cred = c, !.tag = Present(c).tag,
                                     !.key = key[c], !.value = Present(c).value]
        <5>1. s.step = "slot"
          BY DEF Idle
        <5>2. LookupFlies(q) => query' = [query EXCEPT ![q] = s]
          BY DEF LookupFlies
        <5> HIDE DEF s
        <5>3. QED
          BY <1>1, <5>1, <5>2, QueryUpdate DEF IInv
      <4>4. QED
        BY <1>1, <3>3, <4>2, <4>3 DEF QueryStep, LookupGone, WaitEnds, TakeSlot, SlotRefused,
             FetchOk, FetchFails, Publish, Observe, Release, At
    <3>4. ASSUME NEW p \in Queries, NEW d \in Creds, NEW refresh \in BOOLEAN, Ask(p, d, refresh)
          PROVE  FALSE
      <4>1. CASE p = q
        BY <1>1, <3>4, <4>1 DEF Ask, At
      <4>2. CASE p # q
        BY <1>1, <3>4, <4>2 DEF Ask, At, IInv, Typed
      <4>3. QED
        BY <4>1, <4>2
    <3>5. ~SamplerStep
      BY <3>1, <3>4 DEF SamplerStep, StartSampler, RoundCloses, RoundEnds, SamplerStops, HandOut,
                        Queries
    <3>6. ~Outside
      BY <3>1, <3>4 DEF Outside, UserAsks, DeleteCredential, ReplaceKey, Tick, Quiesce, Revive,
                        Queries
    <3>7. QED
      BY <1>1, <3>1, <3>2, <3>3, <3>5, <3>6 DEF Next, Sample, vars
  <2>3. ~Present(c).flight /\ Present(c).value.status # "none"
    BY <2>2 DEF LookupCached, Fresh
  <2>4. Present(c) = cache[c]
    BY <1>1, <2>1, <2>3, Presents DEF IInv
  <2>5. QED
    BY <1>1, <2>1, <2>3, <2>4 DEF IInv, Applied, Flights, Live, Entry, At, Airborne, Flying
<1>2. IInv /\ [Next]_vars =>
        [\A q \in Queries :
           LET c == query[q].cred IN
           /\ At(q, "lookup") /\ query'[q].step = "idle" /\ key[c] # None
           => ~cache[c].value.pending]_vars
  BY <1>1
<1>3. QED
  BY <1>2, Invariant, PTL DEF Spec, ReadersSeeAppliedState

\* No entry and no call ever shows the limits of another account, however late a
\* check of a replaced key ends and wherever it is shared, for any number of calls
\* and keys: as long as no credential is given a key a second time (Past).
THEOREM ValuesStay == Spec => []ValuesStayInTheirAccount
<1>1. IInv /\ AccountsInv => ValuesStayInTheirAccount
  <2> SUFFICES ASSUME IInv, AccountsInv PROVE ValuesStayInTheirAccount
    OBVIOUS
  <2>1. Typed /\ None \notin Keys
    BY Constants DEF IInv
  <2>2. ASSUME NEW c \in Creds, cache[c].value.source # None
        PROVE  cache[c].key # None /\ cache[c].value.source = AccountOf[cache[c].key]
    BY <2>1, <2>2 DEF AccountsInv, OwnEntries, OwnEntry
  <2>3. ASSUME NEW q \in Queries, Airborne(q), query[q].value.source # None
        PROVE  query[q].key # None /\ query[q].value.source = AccountOf[query[q].key]
    <3>1. OwnCall(q)
      BY DEF AccountsInv
    <3>2. Carries(q)
      BY <2>3, <3>1 DEF OwnCall, Airborne, Carries
    <3>3. query[q].key \in Keys
      BY <2>1, <3>2, CarriesFields
    <3>4. QED
      BY <2>1, <2>3, <3>1, <3>2, <3>3 DEF OwnCall, Own
  <2>4. QED
    BY <2>2, <2>3 DEF ValuesStayInTheirAccount
<1>2. Spec => []AccountsInv
  <2>1. Init => AccountsInv
    BY InitAccounts
  <2>2. IInv /\ AccountsInv /\ [Next]_vars => AccountsInv'
    BY StepAccounts
  <2>3. QED
    BY <2>1, <2>2, Invariant, PTL DEF Spec
<1>3. QED
  BY <1>1, <1>2, Invariant, PTL

===============================================================================
