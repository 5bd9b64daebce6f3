--------------------------- MODULE UpstreamOpenProofs ---------------------------
(* Proofs about UpstreamOpen, for any number of requests. *)
EXTENDS UpstreamOpen, TLAPS

-----------------------------------------------------------------------------
(* Types *)

LEMMA Ends ==
  /\ \A s \in AttemptRecords : Closed(s) \in AttemptRecords
  /\ \A l \in LogicalRecords : Finished(l) \in LogicalRecords
  /\ \A state \in {"none", "live", "cancelled", "finished"} :
       Cancelled(state) \in {"none", "live", "cancelled", "finished"}
BY DEF Closed, Finished, Cancelled, AttemptRecords, LogicalRecords

\* Opens stay within the turns of a request and its one retry.
Budget(r) ==
  /\ call[r].opens <= (IF call[r].step \in {"new", "request", "open"}
                       THEN call[r].loop - 1 ELSE call[r].loop)
                      + (IF call[r].fallback THEN 1 ELSE 0)
  /\ call[r].step \in {"rejection", "exact"}
       \/ (call[r].step = "closing" /\ call[r].then = "exact") => ~call[r].fallback
  /\ call[r].step = "again" \/ (call[r].step = "closing" /\ call[r].then = "again") =>
       call[r].loop = 1
  /\ call[r].step \in {"transport", "waiting", "register", "operation", "sending", "offer",
                       "publish", "opened", "rejection", "session", "closing"} =>
       call[r].opens >= 1

\* Where a call may go: to another step, nothing else of it changes.
LEMMA GoFields ==
  ASSUME TypeOK, NEW r \in Requests, NEW step, Go(r, step)
  PROVE  /\ call'[r].step = step /\ call'[r].then = call[r].then
         /\ call'[r].opens = call[r].opens /\ call'[r].loop = call[r].loop
         /\ call'[r].options = call[r].options /\ call'[r].fallback = call[r].fallback
         /\ \A q \in Requests \ {r} : call'[q] = call[q]
         /\ step \in Steps => call' \in [Requests -> CallRecords]
BY DEF TypeOK, Go, CallRecords

\* The update of one record.
LEMMA CallUpdate ==
  ASSUME TypeOK, NEW r \in Requests, NEW s, call' = [call EXCEPT ![r] = s]
  PROVE  /\ call'[r] = s /\ \A q \in Requests \ {r} : call'[q] = call[q]
         /\ s \in CallRecords => call' \in [Requests -> CallRecords]
BY DEF TypeOK

LEMMA AttemptUpdate ==
  ASSUME TypeOK, NEW a \in Attempts, NEW s, attempt' = [attempt EXCEPT ![a] = s]
  PROVE  /\ attempt'[a] = s /\ \A b \in Attempts \ {a} : attempt'[b] = attempt[b]
         /\ s \in AttemptRecords => attempt' \in [Attempts -> AttemptRecords]
BY DEF TypeOK

LEMMA LogicalUpdate ==
  ASSUME TypeOK, NEW l \in Logicals, NEW s, logical' = [logical EXCEPT ![l] = s]
  PROVE  /\ logical'[l] = s /\ \A k \in Logicals \ {l} : logical'[k] = logical[k]
         /\ s \in LogicalRecords => logical' \in [Logicals -> LogicalRecords]
BY DEF TypeOK

LEMMA ClosingFields ==
  ASSUME TypeOK, NEW r \in Requests, NEW then \in {"failed", "exact", "again", "over"},
         call' = [call EXCEPT ![r] = [@ EXCEPT !.step = "closing", !.then = then]]
  PROVE  /\ call'[r].step = "closing" /\ call'[r].then = then
         /\ call'[r].opens = call[r].opens /\ call'[r].loop = call[r].loop
         /\ call'[r].options = call[r].options /\ call'[r].fallback = call[r].fallback
         /\ \A q \in Requests \ {r} : call'[q] = call[q]
         /\ call' \in [Requests -> CallRecords]
<1> DEFINE s == [call[r] EXCEPT !.step = "closing", !.then = then]
<1>1. call[r] \in CallRecords
  BY DEF TypeOK
<1>2. /\ s \in CallRecords /\ s.step = "closing" /\ s.then = then
      /\ s.opens = call[r].opens /\ s.loop = call[r].loop
      /\ s.options = call[r].options /\ s.fallback = call[r].fallback
  BY <1>1 DEF CallRecords, Steps
<1>3. call' = [call EXCEPT ![r] = s]
  OBVIOUS
<1> HIDE DEF s
<1>4. QED
  BY <1>2, <1>3, CallUpdate

LEMMA OpenFields ==
  ASSUME TypeOK, NEW r \in Requests, Budget(r), call[r].step = "open",
         call' = [call EXCEPT ![r] = [@ EXCEPT !.step = "transport", !.opens = call[r].opens + 1]]
  PROVE  /\ call'[r].step = "transport" /\ call'[r].then = call[r].then
         /\ call'[r].opens = call[r].opens + 1 /\ call'[r].loop = call[r].loop
         /\ call'[r].options = call[r].options /\ call'[r].fallback = call[r].fallback
         /\ \A q \in Requests \ {r} : call'[q] = call[q]
         /\ call' \in [Requests -> CallRecords]
<1>1. /\ call[r] \in CallRecords /\ call[r].opens \in 0..3 /\ call[r].loop \in {1, 2}
      /\ call[r].fallback \in BOOLEAN
  BY DEF TypeOK, CallRecords, Loops, MaxOpens
<1>2. call[r].opens + 1 \in 0..3
  BY <1>1 DEF Budget
<1> DEFINE s == [call[r] EXCEPT !.step = "transport", !.opens = call[r].opens + 1]
<1>3. /\ s \in CallRecords /\ s.step = "transport" /\ s.opens = call[r].opens + 1
      /\ s.then = call[r].then /\ s.loop = call[r].loop
      /\ s.options = call[r].options /\ s.fallback = call[r].fallback
  BY <1>1, <1>2 DEF CallRecords, Steps, MaxOpens
<1>4. call' = [call EXCEPT ![r] = s]
  OBVIOUS
<1> HIDE DEF s
<1>5. QED
  BY <1>3, <1>4, CallUpdate

\* The number of an attempt of the call's own.
LEMMA MineTypes ==
  ASSUME TypeOK, NEW r \in Requests, Budget(r),
         call[r].step \in {"transport", "waiting", "register", "operation", "sending", "offer",
                           "publish", "opened", "rejection", "session", "closing"}
  PROVE  Mine(r) \in Attempts /\ call[r].opens \in 1..MaxOpens
BY DEF TypeOK, CallRecords, Budget, Mine, Attempts, MaxOpens

LEMMA TurnTypes ==
  ASSUME TypeOK, NEW r \in Requests
  PROVE  Turn(r) \in Logicals
BY DEF TypeOK, CallRecords, Turn, Logicals

\* The initial states.
LEMMA TypeInit == Init => TypeOK
<1> SUFFICES ASSUME Init PROVE TypeOK
  OBVIOUS
<1>1. call \in [Requests -> CallRecords]
  <2>1. \A o \in BOOLEAN : [step |-> "new", then |-> "over", opens |-> 0, loop |-> 1,
                            options |-> o, fallback |-> FALSE] \in CallRecords
    BY DEF CallRecords, Steps, Loops, MaxOpens
  <2>2. QED
    BY <2>1 DEF Init
<1>2. attempt \in [Attempts -> AttemptRecords]
  BY DEF Init, AttemptRecords, Loops, Answers
<1>3. logical \in [Logicals -> LogicalRecords]
  BY DEF Init, LogicalRecords, MaxOpens
<1>4. edits \in 0..MaxEdits /\ pooled \in BOOLEAN
  BY UpstreamOpenAssumption DEF Init
<1>5. /\ shutdown = [step |-> "running", toClose |-> {}]
      /\ registered = {} /\ published = {} /\ active = {} /\ expired = {}
      /\ stopped = FALSE /\ poolClosed = FALSE
  BY DEF Init
<1>6. QED
  BY <1>1, <1>2, <1>3, <1>4, <1>5 DEF TypeOK

-----------------------------------------------------------------------------
(* One request at a time *)

\* What of r a step may touch is left as it is.
Same(r) ==
  /\ call'[r] = call[r]
  /\ \A n \in 1..MaxOpens :
       /\ attempt'[<<r, n>>] = attempt[<<r, n>>]
       /\ <<r, n>> \in registered' <=> <<r, n>> \in registered
       /\ <<r, n>> \in published' <=> <<r, n>> \in published
       /\ <<r, n>> \in active' <=> <<r, n>> \in active
  /\ r \in active' <=> r \in active
  /\ \A k \in Loops : logical'[<<r, k>>] = logical[<<r, k>>]

\* A step of r alone.
Apart(r) == \A q \in Requests \ {r} : Same(q)

\* The steps at which a call has a stream, keeps it in a map, is under way in
\* openEgress, and is inside requestWithRoutingFallback.
Uses == {"register", "offer", "publish", "opened", "rejection", "session", "closing"}
Keeps == {"opened", "rejection", "session", "closing"}
Opens == {"operation", "sending", "offer", "publish"}
InRequest(r) ==
  \/ call[r].step \in {"open", "transport", "waiting", "register", "operation", "sending",
                       "offer", "publish", "opened", "rejection", "exact", "failed"}
  \/ call[r].step = "closing" /\ call[r].then \in {"failed", "exact"}

Current(r, n) == n = call[r].opens

\* Who answers for what an attempt holds: the goroutine inside the host, the
\* call that is at this attempt, or nobody, and then there is nothing.
Accounted(r, n) ==
  /\ n > call[r].opens \/ (Current(r, n) /\ call[r].step = "transport") =>
       /\ attempt[<<r, n>>].step = "unborn" /\ attempt[<<r, n>>].op = "none"
       /\ attempt[<<r, n>>].stream = "none" /\ <<r, n>> \notin active
  /\ attempt[<<r, n>>].stream = "open" =>
       attempt[<<r, n>>].step = "answered" \/ (Current(r, n) /\ call[r].step \in Uses)
  /\ <<r, n>> \in registered => Current(r, n) /\ call[r].step \in Keeps
  /\ <<r, n>> \in published => Current(r, n) /\ call[r].step \in Keeps \cup {"publish"}
  /\ attempt[<<r, n>>].op \in {"live", "cancelled"} =>
       Current(r, n) /\ call[r].step \in Keeps \cup {"sending", "offer", "publish"}
  /\ attempt[<<r, n>>].step \in {"calling", "answered"} => <<r, n>> \in active
  /\ attempt[<<r, n>>].step = "calling" => attempt[<<r, n>>].stream = "none"
  /\ attempt[<<r, n>>].step = "answered"
       /\ attempt[<<r, n>>].answer \in {"none", "failed", "nameless"} =>
         attempt[<<r, n>>].stream # "open"
  /\ attempt[<<r, n>>].step \in {"watching", "closing"} => attempt[<<r, n>>].op # "none"

\* What openEgress has made of the attempt that the call is at.
Opening(r, n) ==
  Current(r, n) /\ call[r].step \in Opens =>
    /\ <<r, n>> \in active /\ attempt[<<r, n>>].step = "unborn"
    /\ call[r].step # "operation" => attempt[<<r, n>>].op # "none"
    /\ call[r].step \in {"sending", "offer"} =>
         /\ attempt[<<r, n>>].loop = call[r].loop
         /\ HasLogical(r) => attempt[<<r, n>>].child

\* A logical operation is that of the running request, or some attempt keeps it.
Spanned(r, k) ==
  /\ logical[<<r, k>>].state \in {"live", "cancelled"} /\ logical[<<r, k>>].keeper = 0 =>
       call[r].loop = k /\ InRequest(r)
  /\ logical[<<r, k>>].keeper > 0 => logical[<<r, k>>].state # "none"

InOrder(r) ==
  /\ Budget(r)
  /\ r \in active <=> call[r].step \notin {"new", "ended"}
  /\ \A n \in 1..MaxOpens : Accounted(r, n) /\ Opening(r, n)
  /\ \A k \in Loops : Spanned(r, k)

LEMMA SameInOrder ==
  ASSUME NEW r \in Requests, Same(r), InOrder(r), call[r].loop \in Loops
  PROVE  InOrder(r)'
<1>1. Budget(r)' /\ (r \in active' <=> call'[r].step \notin {"new", "ended"})
  BY DEF Same, InOrder, Budget
<1>2. ASSUME NEW n \in 1..MaxOpens PROVE Accounted(r, n)' /\ Opening(r, n)'
  <2>1. Accounted(r, n) /\ Opening(r, n)
    BY DEF InOrder
  <2>2. HasLogical(r)' <=> HasLogical(r)
    BY DEF Same, HasLogical, Turn
  <2>3. QED
    BY <2>1, <2>2 DEF Same, Accounted, Opening, Current
<1>3. \A k \in Loops : Spanned(r, k)'
  BY DEF Same, InOrder, Spanned, InRequest
<1>4. QED
  BY <1>1, <1>2, <1>3 DEF InOrder

\* A step that moves the call of r to another step, or changes its options, and
\* touches neither an attempt nor an operation of it.
LEMMA Moved ==
  ASSUME NEW r \in Requests, TypeOK, InOrder(r), Budget(r)',
         call'[r].opens = call[r].opens,
         \A n \in 1..MaxOpens :
           /\ attempt'[<<r, n>>] = attempt[<<r, n>>]
           /\ <<r, n>> \in registered' <=> <<r, n>> \in registered
           /\ <<r, n>> \in published' <=> <<r, n>> \in published
           /\ <<r, n>> \in active' <=> <<r, n>> \in active,
         r \in active' <=> call'[r].step \notin {"new", "ended"},
         \A k \in Loops : logical'[<<r, k>>] = logical[<<r, k>>],
         call[r].step \in Uses => call'[r].step \in Uses,
         call[r].step \in Keeps => call'[r].step \in Keeps,
         call[r].step \notin {"sending", "offer", "publish"},
         call'[r].step \notin Opens \cup {"transport"},
         InRequest(r) => InRequest(r)' /\ call'[r].loop = call[r].loop
  PROVE  InOrder(r)'
<1>1. ASSUME NEW n \in 1..MaxOpens PROVE Accounted(r, n)' /\ Opening(r, n)'
  <2>1. Accounted(r, n) /\ Opening(r, n)
    BY DEF InOrder
  <2>2. Opening(r, n)'
    BY DEF Opening, Opens
  <2>3. Accounted(r, n)'
    BY <2>1 DEF Accounted, Current
  <2>4. QED
    BY <2>2, <2>3
<1>2. \A k \in Loops : Spanned(r, k)'
  BY DEF InOrder, Spanned
<1>3. QED
  BY <1>1, <1>2 DEF InOrder

-----------------------------------------------------------------------------
(* The steps of a call *)

\* A call that moves on by itself.
LEMMA Walks ==
  ASSUME TypeOK, NEW r \in Requests, InOrder(r), Budget(r)',
         UNCHANGED <<attempt, logical, maps, active, service, world>>,
         call' \in [Requests -> CallRecords], \A q \in Requests \ {r} : call'[q] = call[q],
         call'[r].opens = call[r].opens,
         call[r].step \notin {"new", "ended", "sending", "offer", "publish"},
         call'[r].step \notin Opens \cup {"transport", "new", "ended"},
         call[r].step \in Uses => call'[r].step \in Uses,
         call[r].step \in Keeps => call'[r].step \in Keeps,
         InRequest(r) => InRequest(r)' /\ call'[r].loop = call[r].loop
  PROVE  TypeOK' /\ Apart(r) /\ InOrder(r)'
<1>1. TypeOK'
  BY DEF TypeOK, maps, service, world
<1>2. Apart(r)
  BY DEF Apart, Same, maps
<1>3. r \in active' <=> call'[r].step \notin {"new", "ended"}
  BY DEF InOrder
<1>4. QED
  BY <1>1, <1>2, <1>3, Moved DEF maps

LEMMA StepsOfWalks ==
  ASSUME TypeOK, NEW r \in Requests, InOrder(r),
         \/ GiveUp(r) \/ ReadRejection(r) \/ RejectionEnds(r) \/ SessionEnds(r)
         \/ Retry(r) \/ Again(r)
         \/ (BeginHost(r) /\ stopped) \/ (BeginLocal(r) /\ stopped)
         \/ Open(r) /\ ~MayOpen(r)
  PROVE  TypeOK' /\ Apart(r) /\ InOrder(r)'
<1> USE DEF At
<1>t. call[r].opens \in Nat /\ call[r].loop \in {1, 2} /\ call[r].fallback \in BOOLEAN
        /\ Budget(r)
  BY DEF TypeOK, CallRecords, Loops, MaxOpens, InOrder
<1>1. CASE GiveUp(r)
  <2>1. Go(r, "failed") /\ call[r].step = "waiting"
    BY <1>1 DEF GiveUp
  <2>2. Budget(r)'
    BY <1>t, <2>1, GoFields DEF Budget
  <2>3. QED
    BY <1>1, <2>1, <2>2, GoFields, Walks DEF GiveUp, Uses, Keeps, Opens, InRequest, Steps
<1>2. CASE ReadRejection(r)
  <2>1. Go(r, "rejection") /\ call[r].step = "opened" /\ ~call[r].fallback
    BY <1>2 DEF ReadRejection, Retryable
  <2>2. Budget(r)'
    BY <1>t, <2>1, GoFields DEF Budget
  <2>3. QED
    BY <1>2, <2>1, <2>2, GoFields, Walks
       DEF ReadRejection, Uses, Keeps, Opens, InRequest, Steps
<1>3. CASE RejectionEnds(r)
  <2>1. PICK then \in {"exact", "failed"} : Closing(r, then)
    BY <1>3 DEF RejectionEnds
  <2>2. call' = [call EXCEPT ![r] = [@ EXCEPT !.step = "closing", !.then = then]]
    BY <2>1 DEF Closing
  <2>3. call[r].step = "rejection"
    BY <1>3 DEF RejectionEnds
  <2>4. Budget(r)'
    BY <1>t, <2>2, <2>3, ClosingFields DEF Budget
  <2>5. QED
    BY <2>1, <2>2, <2>3, <2>4, ClosingFields, Walks DEF Closing, Uses, Keeps, Opens, InRequest
<1>4. CASE SessionEnds(r)
  <2>1. PICK then \in {"over", "again"} : Closing(r, then) /\ (then = "again" => call[r].loop = 1)
    BY <1>4 DEF SessionEnds
  <2>2. call' = [call EXCEPT ![r] = [@ EXCEPT !.step = "closing", !.then = then]]
    BY <2>1 DEF Closing
  <2>3. call[r].step = "session"
    BY <1>4 DEF SessionEnds
  <2>4. Budget(r)'
    BY <1>t, <2>1, <2>2, <2>3, ClosingFields DEF Budget
  <2>5. QED
    BY <2>1, <2>2, <2>3, <2>4, ClosingFields, Walks DEF Closing, Uses, Keeps, Opens, InRequest
<1>5. CASE Retry(r)
  <2>1. CASE Go(r, "failed")
    <3>1. call[r].step = "exact"
      BY <1>5 DEF Retry
    <3>2. Budget(r)'
      BY <1>t, <2>1, <3>1, GoFields DEF Budget
    <3>3. QED
      BY <1>5, <2>1, <3>1, <3>2, GoFields, Walks DEF Retry, Uses, Keeps, Opens, InRequest, Steps
  <2>2. CASE call' = [call EXCEPT ![r] =
                [@ EXCEPT !.step = "open", !.fallback = TRUE, !.options = FALSE]]
    <3> DEFINE s == [call[r] EXCEPT !.step = "open", !.fallback = TRUE, !.options = FALSE]
    <3>1. call[r].step = "exact" /\ call[r] \in CallRecords
      BY <1>5 DEF Retry, TypeOK
    <3>2. /\ s \in CallRecords /\ s.step = "open" /\ s.fallback = TRUE
          /\ s.opens = call[r].opens /\ s.loop = call[r].loop
      BY <3>1 DEF CallRecords, Steps
    <3>3. call' = [call EXCEPT ![r] = s]
      BY <2>2
    <3> HIDE DEF s
    <3>4. /\ call'[r] = s /\ \A q \in Requests \ {r} : call'[q] = call[q]
          /\ call' \in [Requests -> CallRecords]
      BY <3>2, <3>3, CallUpdate
    <3>5. Budget(r)'
      BY <1>t, <3>1, <3>2, <3>4 DEF Budget
    <3>6. QED
      BY <1>5, <3>1, <3>2, <3>4, <3>5, Walks DEF Retry, Uses, Keeps, Opens, InRequest
  <2>3. QED
    BY <1>5, <2>1, <2>2 DEF Retry
<1>6. CASE Again(r)
  <2> DEFINE s == [call[r] EXCEPT !.step = "request", !.loop = 2]
  <2>1. call[r].step = "again" /\ call[r] \in CallRecords
    BY <1>6 DEF Again, TypeOK
  <2>2. /\ s \in CallRecords /\ s.step = "request" /\ s.loop = 2
        /\ s.opens = call[r].opens /\ s.fallback = call[r].fallback
    BY <2>1 DEF CallRecords, Steps, Loops
  <2>3. call' = [call EXCEPT ![r] = s]
    BY <1>6 DEF Again
  <2> HIDE DEF s
  <2>4. /\ call'[r] = s /\ \A q \in Requests \ {r} : call'[q] = call[q]
        /\ call' \in [Requests -> CallRecords]
    BY <2>2, <2>3, CallUpdate
  <2>5. Budget(r)'
    BY <1>t, <2>1, <2>2, <2>4 DEF Budget
  <2>6. QED
    BY <1>6, <2>1, <2>2, <2>4, <2>5, Walks DEF Again, Uses, Keeps, Opens, InRequest
<1>7. CASE (BeginHost(r) \/ BeginLocal(r)) /\ stopped
  <2>1. /\ Go(r, "failed") /\ call[r].step = "transport"
        /\ UNCHANGED <<attempt, logical, maps, active, service, world>>
    BY <1>7 DEF BeginHost, BeginLocal
  <2>2. Budget(r)'
    BY <1>t, <2>1, GoFields DEF Budget
  <2>3. QED
    BY <2>1, <2>2, GoFields, Walks DEF Uses, Keeps, Opens, InRequest, Steps
<1>8. CASE Open(r) /\ ~MayOpen(r)
  <2>1. Go(r, "failed") /\ call[r].step = "open"
    BY <1>8 DEF Open
  <2>2. Budget(r)'
    BY <1>t, <2>1, GoFields DEF Budget
  <2>3. QED
    BY <1>8, <2>1, <2>2, GoFields, Walks DEF Open, Uses, Keeps, Opens, InRequest, Steps
<1>9. QED
  BY <1>1, <1>2, <1>3, <1>4, <1>5, <1>6, <1>7, <1>8

\* A request is not an attempt.
LEMMA Disjoint ==
  \A q \in Requests, n \in 1..MaxOpens : <<q, n>> \in Attempts /\ \A r \in Requests : <<q, n>> # r
BY UpstreamOpenAssumption DEF Attempts

\* The first and the last step, and those that begin or finish the logical operation.
LEMMA StepsOfOperations ==
  ASSUME TypeOK, NEW r \in Requests, InOrder(r),
         Begin(r) \/ End(r) \/ Enter(r) \/ Return(r) \/ Fail(r)
  PROVE  TypeOK' /\ Apart(r) /\ InOrder(r)'
<1> USE DEF At
<1>t. /\ call[r].opens \in 0..3 /\ call[r].loop \in {1, 2} /\ call[r].fallback \in BOOLEAN
      /\ Budget(r) /\ Turn(r) \in Logicals /\ call[r].step \in Steps
  BY TurnTypes DEF TypeOK, CallRecords, Loops, MaxOpens, InOrder
<1>l. \A k \in Loops : <<r, k>> \in Logicals /\ (<<r, k>> = Turn(r) <=> k = call[r].loop)
  BY DEF Logicals, Turn
<1>1. CASE Begin(r)
  <2>1. /\ call[r].step = "new" /\ UNCHANGED <<attempt, logical, maps, service, world>>
        /\ \/ Go(r, "ended") /\ active' = active
           \/ Go(r, "request") /\ active' = active \cup {r}
    BY <1>1 DEF Begin
  <2>2. call' \in [Requests -> CallRecords] /\ active' \subseteq Requests \cup Attempts
    BY <2>1, GoFields DEF TypeOK, Steps
  <2>3. TypeOK'
    BY <2>1, <2>2 DEF TypeOK, maps, service, world
  <2>4. Apart(r)
    BY <2>1, GoFields, Disjoint DEF Apart, Same, maps
  <2>5. Budget(r)'
    BY <1>t, <2>1, GoFields DEF Budget
  <2>6. r \in active' <=> call'[r].step \notin {"new", "ended"}
    BY <2>1, GoFields DEF InOrder
  <2>7. InOrder(r)'
    BY <2>1, <2>5, <2>6, GoFields, Disjoint, Moved DEF maps, Uses, Keeps, Opens, InRequest
  <2>8. QED
    BY <2>3, <2>4, <2>7
<1>2. CASE End(r)
  <2>1. /\ call[r].step = "over" /\ Go(r, "ended") /\ active' = active \ {r}
        /\ UNCHANGED <<attempt, logical, maps, service, world>>
    BY <1>2 DEF End
  <2>2. call' \in [Requests -> CallRecords] /\ active' \subseteq Requests \cup Attempts
    BY <2>1, GoFields DEF TypeOK, Steps
  <2>3. TypeOK'
    BY <2>1, <2>2 DEF TypeOK, maps, service, world
  <2>4. Apart(r)
    BY <2>1, GoFields, Disjoint DEF Apart, Same, maps
  <2>5. Budget(r)'
    BY <1>t, <2>1, GoFields DEF Budget
  <2>6. r \in active' <=> call'[r].step \notin {"new", "ended"}
    BY <2>1, GoFields
  <2>7. InOrder(r)'
    BY <2>1, <2>5, <2>6, GoFields, Disjoint, Moved DEF maps, Uses, Keeps, Opens, InRequest
  <2>8. QED
    BY <2>3, <2>4, <2>7
<1>3. ASSUME NEW step \in {"open", "failed", "session", "over"}, Go(r, step),
             NEW s \in LogicalRecords, logical' = [logical EXCEPT ![Turn(r)] = s],
             UNCHANGED <<attempt, maps, active, service, world>>,
             Budget(r)', call[r].step \notin {"new", "ended"} \cup Opens,
             call[r].step \in Uses => step \in Uses, call[r].step \in Keeps => step \in Keeps,
             s.keeper > 0 => s.state # "none",
             s.state \in {"live", "cancelled"} /\ s.keeper = 0 => step = "open"
      PROVE  TypeOK' /\ Apart(r) /\ InOrder(r)'
  <2>1. /\ logical'[Turn(r)] = s /\ \A l \in Logicals \ {Turn(r)} : logical'[l] = logical[l]
        /\ logical' \in [Logicals -> LogicalRecords]
    BY <1>t, <1>3, LogicalUpdate
  <2>2. /\ call' \in [Requests -> CallRecords]
        /\ call'[r].step = step /\ call'[r].loop = call[r].loop /\ call'[r].opens = call[r].opens
        /\ \A q \in Requests \ {r} : call'[q] = call[q]
    BY <1>3, GoFields DEF Steps
  <2>3. TypeOK'
    BY <1>3, <2>1, <2>2 DEF TypeOK, maps, service, world
  <2>4. Apart(r)
    <3>1. \A q \in Requests \ {r}, k \in Loops : <<q, k>> \in Logicals \ {Turn(r)}
      BY DEF Logicals, Turn
    <3>2. QED
      BY <1>3, <2>1, <2>2, <3>1 DEF Apart, Same, maps
  <2>5. ASSUME NEW n \in 1..MaxOpens PROVE Accounted(r, n)' /\ Opening(r, n)'
    <3>1. Accounted(r, n)
      BY DEF InOrder
    <3>2. Opening(r, n)'
      BY <1>3, <2>2 DEF Opening, Opens
    <3>3. Accounted(r, n)'
      BY <1>3, <2>2, <3>1 DEF Accounted, Current, Opens, maps
    <3>4. QED
      BY <3>2, <3>3
  <2>6. ASSUME NEW k \in Loops PROVE Spanned(r, k)'
    <3>1. CASE k = call[r].loop
      <4>1. logical'[<<r, k>>] = s
        BY <2>1, <3>1 DEF Turn
      <4>2. step = "open" => InRequest(r)'
        BY <2>2 DEF InRequest
      <4>3. QED
        BY <1>3, <2>2, <3>1, <4>1, <4>2 DEF Spanned
    <3>2. CASE k # call[r].loop
      BY <1>l, <2>1, <3>2 DEF InOrder, Spanned
    <3>3. QED
      BY <3>1, <3>2
  <2>7. InOrder(r)'
    BY <1>3, <2>2, <2>5, <2>6 DEF InOrder
  <2>8. QED
    BY <2>3, <2>4, <2>7
<1>s. logical[Turn(r)] \in LogicalRecords /\ Spanned(r, call[r].loop)
  BY <1>t DEF TypeOK, InOrder, Loops
<1>n. \A step : call'[r].step = step /\ step \notin {"new", "request", "rejection", "exact",
                  "closing", "again", "transport", "waiting", "register", "operation",
                  "sending", "offer", "publish", "opened"} /\ Go(r, step)
        /\ (step = "session" => call[r].step = "opened") /\ (step = "open" => call[r].step = "request")
        => Budget(r)'
  BY <1>t, GoFields DEF Budget
<1>4. CASE Enter(r)
  <2>1. call[r].step = "request" /\ UNCHANGED <<attempt, maps, active, service, world>>
    BY <1>4 DEF Enter
  <2>2. CASE Go(r, "open") /\ logical' = [logical EXCEPT ![Turn(r)].state = "live"]
    <3> DEFINE s == [logical[Turn(r)] EXCEPT !.state = "live"]
    <3>1. s \in LogicalRecords /\ s.state = "live"
      BY <1>s DEF LogicalRecords
    <3>2. logical' = [logical EXCEPT ![Turn(r)] = s]
      BY <2>2
    <3> HIDE DEF s
    <3>3. QED
      BY <1>3, <1>n, <2>1, <2>2, <3>1, <3>2, GoFields DEF Uses, Keeps, Opens
  <2>3. CASE (Go(r, "open") \/ Go(r, "failed")) /\ UNCHANGED logical
    <3>1. PICK step \in {"open", "failed"} : Go(r, step)
      BY <2>3
    <3>2. Budget(r)'
      BY <1>t, <2>1, <3>1, GoFields DEF Budget
    <3>3. logical' = [logical EXCEPT ![Turn(r)] = logical[Turn(r)]]
      BY <1>t, <2>3 DEF TypeOK
    <3>4. ~InRequest(r)
      BY <2>1 DEF InRequest
    <3>5. QED
      BY <1>3, <1>s, <2>1, <3>1, <3>2, <3>3, <3>4 DEF Spanned, Turn, Uses, Keeps, Opens
  <2>4. QED
    BY <1>4, <2>2, <2>3 DEF Enter
<1>5. CASE Return(r)
  <2>1. /\ call[r].step = "opened" /\ Go(r, "session")
        /\ UNCHANGED <<attempt, maps, active, service, world>>
    BY <1>5 DEF Return
  <2>2. PICK s \in {[logical[Turn(r)] EXCEPT !.keeper = call[r].opens],
                    Finished(logical[Turn(r)])} :
          /\ logical' = [logical EXCEPT ![Turn(r)] = s]
          /\ s = [logical[Turn(r)] EXCEPT !.keeper = call[r].opens] => HasLogical(r)
                 \/ s = Finished(logical[Turn(r)])
    BY <1>5 DEF Return
  <2>3. CASE s = [logical[Turn(r)] EXCEPT !.keeper = call[r].opens] /\ HasLogical(r)
    <3>1. /\ s \in LogicalRecords /\ s.state = logical[Turn(r)].state
          /\ s.keeper = call[r].opens /\ s.keeper > 0
      BY <1>s, <1>t, <2>1, <2>3 DEF LogicalRecords, Budget, MaxOpens
    <3>2. Budget(r)'
      BY <1>n, <2>1, GoFields DEF Steps
    <3>3. s.state # "none" /\ ~(s.state \in {"live", "cancelled"} /\ s.keeper = 0)
      BY <2>3, <3>1 DEF HasLogical
    <3>4. logical' = [logical EXCEPT ![Turn(r)] = s]
      BY <2>2
    <3> HIDE <2>2, <2>3
    <3>5. QED
      BY <1>3, <2>1, <3>1, <3>2, <3>3, <3>4 DEF Uses, Keeps, Opens
  <2>4. CASE s = Finished(logical[Turn(r)])
    <3>1. /\ s \in LogicalRecords /\ s.state \in {"none", "finished"}
          /\ s.keeper = logical[Turn(r)].keeper /\ (s.state = "none" <=> logical[Turn(r)].state = "none")
      BY <1>s, <2>4 DEF LogicalRecords, Finished
    <3>2. QED
      BY <1>3, <1>n, <1>s, <2>1, <2>2, <3>1, GoFields DEF Spanned, Turn, Uses, Keeps, Opens
  <2>5. QED
    BY <2>2, <2>3, <2>4
<1>6. CASE Fail(r)
  <2> DEFINE s == Finished(logical[Turn(r)])
  <2>1. /\ call[r].step = "failed" /\ Go(r, "over")
        /\ UNCHANGED <<attempt, maps, active, service, world>>
        /\ logical' = [logical EXCEPT ![Turn(r)] = s]
    BY <1>6 DEF Fail
  <2>2. /\ s \in LogicalRecords /\ s.state \in {"none", "finished"}
        /\ s.keeper = logical[Turn(r)].keeper /\ (s.state = "none" <=> logical[Turn(r)].state = "none")
    BY <1>s DEF LogicalRecords, Finished
  <2> HIDE DEF s
  <2>3. QED
    BY <1>3, <1>n, <1>s, <2>1, <2>2, GoFields DEF Spanned, Turn, Uses, Keeps, Opens
<1>7. QED
  BY <1>1, <1>2, <1>4, <1>5, <1>6

\* What a step leaves of the attempts when it works at one of them.
OnlyAt(r, m) ==
  /\ \A b \in Attempts \ {<<r, m>>} :
       /\ attempt'[b] = attempt[b]
       /\ b \in registered' <=> b \in registered
       /\ b \in published' <=> b \in published
       /\ b \in active' <=> b \in active
  /\ \A q \in Requests : q \in active' <=> q \in active

Typed ==
  /\ call' \in [Requests -> CallRecords] /\ attempt' \in [Attempts -> AttemptRecords]
  /\ registered' \subseteq Attempts /\ published' \subseteq Attempts
  /\ active' \subseteq Requests \cup Attempts

LEMMA MineSteps ==
  ASSUME TypeOK, NEW r \in Requests, InOrder(r), NEW m \in 1..MaxOpens, m = call[r].opens,
         OnlyAt(r, m), Typed, UNCHANGED <<logical, service, world>>,
         \A q \in Requests \ {r} : call'[q] = call[q],
         call'[r].opens = call[r].opens, call'[r].loop = call[r].loop, Budget(r)',
         call[r].step \notin {"new", "ended"}, call'[r].step \notin {"new", "ended"},
         InRequest(r) => InRequest(r)',
         Accounted(r, m)', Opening(r, m)'
  PROVE  TypeOK' /\ Apart(r) /\ InOrder(r)'
<1>1. TypeOK'
  BY DEF TypeOK, Typed, service, world
<1>2. Apart(r)
  <2>1. \A q \in Requests \ {r}, n \in 1..MaxOpens : <<q, n>> \in Attempts \ {<<r, m>>}
    BY DEF Attempts
  <2>2. QED
    BY <2>1 DEF Apart, Same, OnlyAt
<1>3. ASSUME NEW n \in 1..MaxOpens, n # m PROVE Accounted(r, n)' /\ Opening(r, n)'
  <2>1. <<r, n>> \in Attempts \ {<<r, m>>}
    BY <1>3 DEF Attempts
  <2>2. Accounted(r, n)
    BY DEF InOrder
  <2>3. ~Current(r, n) /\ ~Current(r, n)'
    BY <1>3 DEF Current
  <2>4. QED
    BY <2>1, <2>2, <2>3 DEF OnlyAt, Accounted, Opening
<1>4. \A k \in Loops : Spanned(r, k)'
  BY DEF InOrder, Spanned
<1>5. r \in active' <=> call'[r].step \notin {"new", "ended"}
  BY DEF InOrder, OnlyAt
<1>6. QED
  BY <1>1, <1>2, <1>3, <1>4, <1>5 DEF InOrder

LEMMA GoroutineSteps ==
  ASSUME TypeOK, NEW r \in Requests, InOrder(r), NEW m \in 1..MaxOpens,
         OnlyAt(r, m), Typed, UNCHANGED <<call, logical>>,
         Accounted(r, m)', Opening(r, m)'
  PROVE  Apart(r) /\ InOrder(r)'
<1>1. Apart(r)
  <2>1. \A q \in Requests \ {r}, n \in 1..MaxOpens : <<q, n>> \in Attempts \ {<<r, m>>}
    BY DEF Attempts
  <2>2. QED
    BY <2>1 DEF Apart, Same, OnlyAt
<1>2. ASSUME NEW n \in 1..MaxOpens, n # m PROVE Accounted(r, n)' /\ Opening(r, n)'
  <2>1. <<r, n>> \in Attempts \ {<<r, m>>}
    BY <1>2 DEF Attempts
  <2>2. Accounted(r, n) /\ Opening(r, n)
    BY DEF InOrder
  <2>3. HasLogical(r)' <=> HasLogical(r)
    BY DEF HasLogical, Turn
  <2>4. QED
    BY <2>1, <2>2, <2>3 DEF OnlyAt, Accounted, Opening, Current
<1>3. \A k \in Loops : Spanned(r, k)'
  BY DEF InOrder, Spanned, InRequest
<1>4. Budget(r)' /\ (r \in active' <=> call'[r].step \notin {"new", "ended"})
  BY DEF InOrder, OnlyAt, Budget
<1>5. QED
  BY <1>1, <1>2, <1>3, <1>4 DEF InOrder

LEMMA ClosedFields ==
  ASSUME NEW s \in AttemptRecords
  PROVE  /\ Closed(s) \in AttemptRecords
         /\ Closed(s).step = s.step /\ Closed(s).answer = s.answer
         /\ Closed(s).stream # "open" /\ Closed(s).op \in {"none", "finished"}
         /\ Closed(s).op = "none" <=> s.op = "none"
         /\ s.stream = "none" => Closed(s).stream = "none"
         /\ Closed(s).loop = s.loop /\ Closed(s).child = s.child
BY DEF Closed, AttemptRecords

\* The call of r at its own attempt.
LEMMA StepsAtMine ==
  ASSUME TypeOK, NEW r \in Requests, InOrder(r),
         \/ (BeginHost(r) /\ ~stopped) \/ Register(r) \/ (BeginLocal(r) /\ ~stopped)
         \/ Operate(r) \/ SendFails(r) \/ SendAnswers(r) \/ Offer(r) \/ Publish(r)
         \/ CloseMine(r)
  PROVE  TypeOK' /\ Apart(r) /\ InOrder(r)'
<1> USE DEF At
<1>s. call[r].step \in {"transport", "register", "operation", "sending", "offer", "publish", "closing"}
  BY DEF BeginHost, Register, BeginLocal, Operate, SendFails, SendAnswers, Offer, Publish, CloseMine
<1>m. PICK m \in 1..MaxOpens : m = call[r].opens
  BY <1>s, MineTypes DEF InOrder
<1> DEFINE a == <<r, m>>
<1>t. /\ call[r].loop \in {1, 2} /\ call[r].fallback \in BOOLEAN /\ m >= 1
      /\ Budget(r) /\ a \in Attempts /\ a = <<r, m>> /\ Mine(r) = a
      /\ attempt[a] \in AttemptRecords /\ attempt \in [Attempts -> AttemptRecords]
      /\ call[r] \in CallRecords
  BY <1>m DEF TypeOK, CallRecords, Loops, InOrder, Mine, Attempts
<1>i. Accounted(r, m) /\ Opening(r, m)
  BY DEF InOrder
<1>c. Current(r, m)
  BY <1>m DEF Current
<1>d. \A q \in Requests : a # q
  BY <1>t, Disjoint
<1> HIDE DEF a
<1>b. ASSUME NEW step, Go(r, step),
             step \in {"waiting", "failed", "opened", "operation", "sending", "offer", "publish",
                       "over"} \/ (step = "closing" /\ FALSE)
      PROVE  /\ Budget(r)' /\ call' \in [Requests -> CallRecords]
             /\ call'[r].step = step /\ call'[r].opens = m /\ call'[r].loop = call[r].loop
             /\ \A q \in Requests \ {r} : call'[q] = call[q]
  BY <1>b, <1>m, <1>s, <1>t, GoFields DEF Budget, Steps
<1>u. ASSUME NEW s \in AttemptRecords, attempt' = [attempt EXCEPT ![a] = s]
      PROVE  /\ attempt'[<<r, m>>] = s
             /\ \A b \in Attempts \ {<<r, m>>} : attempt'[b] = attempt[b]
             /\ attempt' \in [Attempts -> AttemptRecords]
  BY <1>t, <1>u
<1>1. CASE BeginHost(r) /\ ~stopped
  <2> DEFINE s == [attempt[a] EXCEPT !.step = "calling", !.loop = call[r].loop]
  <2>1. /\ call[r].step = "transport" /\ Go(r, "waiting") /\ active' = active \cup {a}
        /\ attempt' = [attempt EXCEPT ![a] = s]
        /\ UNCHANGED <<logical, maps, service, world>>
    BY <1>1, <1>t DEF BeginHost
  <2>2. /\ s \in AttemptRecords /\ s.step = "calling" /\ s.op = attempt[a].op
        /\ s.stream = attempt[a].stream /\ s.answer = attempt[a].answer
    BY <1>t DEF AttemptRecords, Loops
  <2> HIDE DEF s
  <2>3. OnlyAt(r, m) /\ Typed
    BY <1>b, <1>d, <1>t, <1>u, <2>1, <2>2 DEF OnlyAt, Typed, maps, TypeOK
  <2>4. attempt[a].op = "none" /\ attempt[a].stream = "none"
    BY <1>c, <1>i, <1>t, <2>1 DEF Accounted
  <2>5. Accounted(r, m)'
    BY <1>b, <1>i, <1>t, <1>u, <2>1, <2>2, <2>4 DEF Accounted, Current, Keeps, maps
  <2>6. Opening(r, m)'
    BY <1>b, <2>1 DEF Opening, Opens
  <2>7. InRequest(r)'
    BY <1>b, <2>1 DEF InRequest
  <2>8. QED
    BY <1>b, <1>m, <1>t, <2>1, <2>3, <2>5, <2>6, <2>7, MineSteps
<1>2. CASE BeginLocal(r) /\ ~stopped
  <2>1. /\ call[r].step = "transport" /\ Go(r, "operation") /\ active' = active \cup {a}
        /\ UNCHANGED <<attempt, logical, maps, service, world>>
    BY <1>2, <1>t DEF BeginLocal
  <2>2. OnlyAt(r, m) /\ Typed
    BY <1>b, <1>d, <1>t, <2>1 DEF OnlyAt, Typed, maps, TypeOK
  <2>3. attempt[a].op = "none" /\ attempt[a].stream = "none" /\ attempt[a].step = "unborn"
    BY <1>c, <1>i, <1>t, <2>1 DEF Accounted
  <2>4. Accounted(r, m)'
    BY <1>b, <1>i, <1>t, <2>1, <2>3 DEF Accounted, Current, Keeps, maps
  <2>5. Opening(r, m)'
    BY <1>b, <1>t, <2>1, <2>3 DEF Opening, Opens
  <2>6. InRequest(r)'
    BY <1>b, <2>1 DEF InRequest
  <2>7. QED
    BY <1>b, <1>m, <1>t, <2>1, <2>2, <2>4, <2>5, <2>6, MineSteps
<1>3. CASE Register(r)
  <2>1. /\ call[r].step = "register" /\ UNCHANGED <<attempt, logical, published, active, service, world>>
        /\ \/ call' = [call EXCEPT ![r] = [@ EXCEPT !.step = "closing", !.then = "failed"]]
                /\ registered' = registered
           \/ Go(r, "opened") /\ registered' = registered \cup {a}
    BY <1>3, <1>t DEF Register
  <2>2. /\ Budget(r)' /\ call' \in [Requests -> CallRecords]
        /\ call'[r].opens = m /\ call'[r].loop = call[r].loop
        /\ \A q \in Requests \ {r} : call'[q] = call[q]
        /\ \/ call'[r].step = "closing" /\ call'[r].then = "failed" /\ registered' = registered
           \/ call'[r].step = "opened" /\ registered' = registered \cup {a}
    <3>1. CASE call' = [call EXCEPT ![r] = [@ EXCEPT !.step = "closing", !.then = "failed"]]
                 /\ registered' = registered
      BY <1>t, <2>1, <3>1, <1>m, ClosingFields DEF Budget
    <3>2. CASE Go(r, "opened") /\ registered' = registered \cup {a}
      BY <1>b, <3>2
    <3>3. QED
      BY <2>1, <3>1, <3>2
  <2>3. OnlyAt(r, m) /\ Typed
    BY <1>t, <2>1, <2>2 DEF OnlyAt, Typed, TypeOK
  <2>4. Accounted(r, m)'
    BY <1>c, <1>i, <1>t, <2>1, <2>2 DEF Accounted, Current, Keeps, Uses
  <2>5. Opening(r, m)'
    BY <2>2 DEF Opening, Opens
  <2>6. InRequest(r)'
    BY <2>2 DEF InRequest
  <2>7. QED
    BY <1>m, <1>t, <2>1, <2>2, <2>3, <2>4, <2>5, <2>6, MineSteps
<1>4. ASSUME NEW s \in AttemptRecords, attempt' = [attempt EXCEPT ![a] = s],
             s.step = "unborn", s.stream # "open", s.op \in {"none", "finished"},
             LocalFailed(r), call[r].step \in Opens,
             published' = published \ {a}, UNCHANGED <<logical, registered, service, world>>
      PROVE  TypeOK' /\ Apart(r) /\ InOrder(r)'
  <2>1. Go(r, "failed") /\ active' = active \ {a}
    BY <1>4, <1>t DEF LocalFailed
  <2>2. OnlyAt(r, m) /\ Typed
    BY <1>4, <1>b, <1>d, <1>t, <1>u, <2>1 DEF OnlyAt, Typed, TypeOK
  <2>3. Accounted(r, m)'
    BY <1>4, <1>b, <1>c, <1>i, <1>t, <1>u, <2>1 DEF Accounted, Current, Keeps, Opens
  <2>4. Opening(r, m)'
    BY <1>b, <2>1 DEF Opening, Opens
  <2>5. InRequest(r)'
    BY <1>b, <2>1 DEF InRequest
  <2>6. call[r].step \notin {"new", "ended"}
    BY <1>s
  <2>7. QED
    BY <1>4, <1>b, <1>m, <1>t, <2>1, <2>2, <2>3, <2>4, <2>5, <2>6, MineSteps
<1>o. call[r].step \in Opens =>
        /\ attempt[a].step = "unborn" /\ a \in active /\ a \notin registered
        /\ call[r].step = "operation" =>
             attempt[a].op \notin {"live", "cancelled"} /\ attempt[a].stream # "open"
        /\ call[r].step \in {"operation", "sending", "offer"} => a \notin published
        /\ call[r].step \in {"sending", "offer"} =>
             /\ attempt[a].loop = call[r].loop /\ (HasLogical(r) => attempt[a].child)
        /\ call[r].step # "operation" => attempt[a].op # "none"
        /\ call[r].step = "sending" => attempt[a].stream # "open"
  BY <1>c, <1>i, <1>t DEF Accounted, Opening, Opens, Uses, Keeps
<1>k. /\ Closed(attempt[a]) \in AttemptRecords /\ Closed(attempt[a]).step = attempt[a].step
      /\ Closed(attempt[a]).stream # "open" /\ Closed(attempt[a]).op \in {"none", "finished"}
  BY <1>t, ClosedFields
<1>5. CASE Operate(r)
  <2>1. call[r].step = "operation" /\ UNCHANGED <<logical, maps, service, world>>
    BY <1>5 DEF Operate
  <2>2. CASE LocalFailed(r) /\ UNCHANGED attempt
    <3>1. attempt' = [attempt EXCEPT ![a] = attempt[a]]
      BY <1>t, <2>2
    <3>2. attempt[a].op \in {"none", "finished"}
      BY <1>o, <1>t, <2>1 DEF Opens, AttemptRecords
    <3>3. published' = published \ {a} /\ registered' = registered
      BY <1>o, <2>1 DEF Opens, maps
    <3>4. QED
      BY <1>4, <1>o, <1>t, <2>1, <2>2, <3>1, <3>2, <3>3 DEF Opens
  <2>3. CASE /\ Go(r, "sending") /\ UNCHANGED active
             /\ attempt' = [attempt EXCEPT ![Mine(r)] =
                  [@ EXCEPT !.local = TRUE, !.op = "live", !.loop = call[r].loop,
                            !.child = HasLogical(r)]]
    <3> DEFINE s == [attempt[a] EXCEPT !.local = TRUE, !.op = "live", !.loop = call[r].loop,
                                       !.child = HasLogical(r)]
    <3>1. attempt' = [attempt EXCEPT ![a] = s]
      BY <1>t, <2>3
    <3>2. HasLogical(r) \in BOOLEAN
      BY DEF HasLogical
    <3>3. /\ s \in AttemptRecords /\ s.op = "live" /\ s.loop = call[r].loop
          /\ s.child = HasLogical(r) /\ s.step = attempt[a].step /\ s.stream = attempt[a].stream
      BY <1>t, <3>2 DEF AttemptRecords, Loops
    <3> HIDE DEF s
    <3>4. OnlyAt(r, m) /\ Typed
      BY <1>b, <1>t, <1>u, <2>1, <2>3, <3>1, <3>3 DEF OnlyAt, Typed, TypeOK, maps
    <3>5. Accounted(r, m)'
      BY <1>b, <1>o, <1>t, <1>u, <2>1, <2>3, <3>1, <3>3 DEF Accounted, Current, Opens, maps
    <3>6. HasLogical(r)' <=> HasLogical(r)
      BY <1>b, <2>1, <2>3 DEF HasLogical, Turn
    <3>7. Opening(r, m)'
      BY <1>b, <1>o, <1>t, <1>u, <2>1, <2>3, <3>1, <3>3, <3>6 DEF Opening, Current, Opens
    <3>8. InRequest(r)'
      BY <1>b, <2>3 DEF InRequest
    <3>9. QED
      BY <1>b, <1>m, <1>t, <2>1, <2>3, <3>4, <3>5, <3>7, <3>8, MineSteps
  <2>4. QED
    BY <1>5, <2>2, <2>3 DEF Operate
<1>6. CASE SendFails(r)
  <2>1. /\ call[r].step = "sending" /\ LocalFailed(r) /\ UNCHANGED <<logical, maps, service, world>>
        /\ attempt' = [attempt EXCEPT ![a] = Closed(attempt[a])]
    BY <1>6, <1>t DEF SendFails
  <2>2. published' = published \ {a} /\ registered' = registered
    BY <1>o, <2>1 DEF Opens, maps
  <2>3. QED
    BY <1>4, <1>k, <1>o, <2>1, <2>2 DEF Opens
<1>7. CASE SendAnswers(r)
  <2>1. PICK answer \in {"ok", "forbidden"} :
          attempt' = [attempt EXCEPT ![Mine(r)] = [@ EXCEPT !.stream = "open", !.answer = answer]]
    BY <1>7 DEF SendAnswers
  <2>2. /\ call[r].step = "sending" /\ Go(r, "offer")
        /\ UNCHANGED <<logical, maps, active, service, world>>
    BY <1>7 DEF SendAnswers
  <2> DEFINE s == [attempt[a] EXCEPT !.stream = "open", !.answer = answer]
  <2>3. attempt' = [attempt EXCEPT ![a] = s]
    BY <1>t, <2>1
  <2>4. /\ s \in AttemptRecords /\ s.op = attempt[a].op /\ s.loop = attempt[a].loop
        /\ s.child = attempt[a].child /\ s.step = attempt[a].step
    BY <1>t DEF AttemptRecords, Answers
  <2> HIDE DEF s
  <2>5. OnlyAt(r, m) /\ Typed
    BY <1>b, <1>t, <1>u, <2>2, <2>3, <2>4 DEF OnlyAt, Typed, TypeOK, maps
  <2>6. Accounted(r, m)'
    BY <1>b, <1>o, <1>t, <1>u, <2>2, <2>3, <2>4 DEF Accounted, Current, Opens, Uses, maps
  <2>7. HasLogical(r)' <=> HasLogical(r)
    BY <1>b, <2>2 DEF HasLogical, Turn
  <2>8. Opening(r, m)'
    BY <1>b, <1>o, <1>t, <1>u, <2>2, <2>3, <2>4, <2>7 DEF Opening, Current, Opens
  <2>9. InRequest(r)'
    BY <1>b, <2>2 DEF InRequest
  <2>10. QED
    BY <1>b, <1>m, <1>t, <2>2, <2>5, <2>6, <2>8, <2>9, MineSteps
<1>8. CASE Offer(r)
  <2>1. call[r].step = "offer" /\ UNCHANGED <<logical, registered, service, world>>
    BY <1>8 DEF Offer
  <2>2. CASE /\ attempt' = [attempt EXCEPT ![Mine(r)] = Closed(@)]
             /\ LocalFailed(r) /\ UNCHANGED published
    <3>1. attempt' = [attempt EXCEPT ![a] = Closed(attempt[a])]
      BY <1>t, <2>2
    <3>2. published' = published \ {a}
      BY <1>o, <2>1, <2>2 DEF Opens
    <3>3. QED
      BY <1>4, <1>k, <1>o, <2>1, <2>2, <3>1, <3>2 DEF Opens
  <2>3. CASE /\ Go(r, "publish") /\ published' = published \cup {Mine(r)}
             /\ UNCHANGED <<attempt, active>>
    <3>1. OnlyAt(r, m) /\ Typed
      BY <1>b, <1>t, <2>1, <2>3 DEF OnlyAt, Typed, TypeOK
    <3>2. Accounted(r, m)'
      BY <1>b, <1>o, <1>t, <2>1, <2>3 DEF Accounted, Current, Opens, Uses
    <3>3. Opening(r, m)'
      BY <1>b, <1>o, <1>t, <2>1, <2>3 DEF Opening, Current, Opens
    <3>4. InRequest(r)'
      BY <1>b, <2>3 DEF InRequest
    <3>5. QED
      BY <1>b, <1>m, <1>t, <2>1, <2>3, <3>1, <3>2, <3>3, <3>4, MineSteps
  <2>4. QED
    BY <1>8, <2>2, <2>3 DEF Offer
<1>9. CASE Publish(r)
  <2>1. call[r].step = "publish" /\ UNCHANGED <<logical, service, world>>
    BY <1>9 DEF Publish
  <2>2. CASE /\ attempt' = [attempt EXCEPT ![Mine(r)] = Closed(@)]
             /\ published' = published \ {Mine(r)}
             /\ LocalFailed(r) /\ UNCHANGED registered
    <3>1. attempt' = [attempt EXCEPT ![a] = Closed(attempt[a])] /\ published' = published \ {a}
      BY <1>t, <2>2
    <3>2. QED
      BY <1>4, <1>k, <1>o, <2>1, <2>2, <3>1 DEF Opens
  <2>3. CASE /\ attempt' = [attempt EXCEPT ![Mine(r)].step = "watching"]
             /\ registered' = registered \cup {Mine(r)}
             /\ Go(r, "opened") /\ active' = active \ {Mine(r)} /\ UNCHANGED published
    <3> DEFINE s == [attempt[a] EXCEPT !.step = "watching"]
    <3>1. attempt' = [attempt EXCEPT ![a] = s]
      BY <1>t, <2>3
    <3>2. /\ s \in AttemptRecords /\ s.op = attempt[a].op /\ s.stream = attempt[a].stream
          /\ s.step = "watching"
      BY <1>t DEF AttemptRecords
    <3> HIDE DEF s
    <3>3. OnlyAt(r, m) /\ Typed
      BY <1>b, <1>d, <1>t, <1>u, <2>1, <2>3, <3>1, <3>2 DEF OnlyAt, Typed, TypeOK
    <3>4. Accounted(r, m)'
      BY <1>b, <1>o, <1>t, <1>u, <2>1, <2>3, <3>1, <3>2 DEF Accounted, Current, Opens, Uses, Keeps
    <3>5. Opening(r, m)'
      BY <1>b, <2>3 DEF Opening, Opens
    <3>6. InRequest(r)'
      BY <1>b, <2>3 DEF InRequest
    <3>7. QED
      BY <1>b, <1>m, <1>t, <2>1, <2>3, <3>3, <3>4, <3>5, <3>6, MineSteps
  <2>4. QED
    BY <1>9, <2>2, <2>3 DEF Publish
<1>10. CASE CloseMine(r)
  <2>1. /\ call[r].step = "closing" /\ Go(r, call[r].then) /\ Close(a)
        /\ UNCHANGED <<logical, active, service, world>>
    BY <1>10, <1>t DEF CloseMine
  <2>2. /\ attempt' = [attempt EXCEPT ![a] = Closed(attempt[a])]
        /\ published' = published \ {a} /\ registered' = registered \ {a}
    BY <2>1 DEF Close
  <2>3. call[r].then \in {"failed", "exact", "again", "over"}
    BY <1>t DEF CallRecords
  <2>4. /\ call' \in [Requests -> CallRecords] /\ call'[r].step = call[r].then
        /\ call'[r].opens = m /\ call'[r].loop = call[r].loop
        /\ \A q \in Requests \ {r} : call'[q] = call[q]
    BY <1>m, <2>1, <2>3, GoFields DEF Steps
  <2>5. Budget(r)'
    BY <1>m, <1>t, <2>1, <2>3, GoFields DEF Budget
  <2>6. OnlyAt(r, m) /\ Typed
    BY <1>k, <1>t, <1>u, <2>1, <2>2, <2>4 DEF OnlyAt, Typed, TypeOK
  <2>7. /\ Closed(attempt[a]).answer = attempt[a].answer
        /\ (Closed(attempt[a]).op = "none" <=> attempt[a].op = "none")
        /\ (attempt[a].stream = "none" => Closed(attempt[a]).stream = "none")
    BY <1>t, ClosedFields
  <2>8. Accounted(r, m)'
    BY <1>c, <1>i, <1>k, <1>t, <1>u, <2>1, <2>2, <2>3, <2>4, <2>7 DEF Accounted, Current
  <2>9. Opening(r, m)'
    BY <2>3, <2>4 DEF Opening, Opens
  <2>10. InRequest(r) => InRequest(r)'
    BY <2>1, <2>3, <2>4 DEF InRequest
  <2>11. QED
    BY <1>m, <1>t, <2>1, <2>3, <2>4, <2>5, <2>6, <2>8, <2>9, <2>10, MineSteps
<1>11. QED
  BY <1>1, <1>2, <1>3, <1>5, <1>6, <1>7, <1>8, <1>9, <1>10

LEMMA StepOfOpen ==
  ASSUME TypeOK, NEW r \in Requests, InOrder(r), Open(r), MayOpen(r)
  PROVE  TypeOK' /\ Apart(r) /\ InOrder(r)'
<1>1. /\ call[r].step = "open" /\ UNCHANGED <<attempt, logical, maps, active, service, world>>
      /\ call' = [call EXCEPT ![r] =
           [@ EXCEPT !.step = "transport", !.opens = call[r].opens + 1]]
  BY DEF Open, At
<1>2. Budget(r)
  BY DEF InOrder
<1>3. /\ call'[r].step = "transport" /\ call'[r].then = call[r].then
      /\ call'[r].opens = call[r].opens + 1 /\ call'[r].loop = call[r].loop
      /\ call'[r].fallback = call[r].fallback
      /\ \A q \in Requests \ {r} : call'[q] = call[q]
      /\ call' \in [Requests -> CallRecords]
  BY <1>1, <1>2, OpenFields
<1>4. TypeOK'
  BY <1>1, <1>3 DEF TypeOK, maps, service, world
<1>5. Apart(r)
  BY <1>1, <1>3 DEF Apart, Same, maps
<1>6. call[r].opens \in Nat /\ call[r].loop \in {1, 2} /\ call[r].fallback \in BOOLEAN
  BY DEF TypeOK, CallRecords, Loops, MaxOpens
<1>7. Budget(r)'
  BY <1>1, <1>2, <1>3, <1>6 DEF Budget
<1>8. ASSUME NEW n \in 1..MaxOpens PROVE Accounted(r, n)' /\ Opening(r, n)'
  <2>1. Accounted(r, n) /\ n \in Nat
    BY DEF InOrder, MaxOpens
  <2>2. n >= call[r].opens + 1 => n > call[r].opens
    BY <1>6, <2>1
  <2>3. Opening(r, n)'
    BY <1>3 DEF Opening, Opens
  <2>4. Accounted(r, n)'
    BY <1>1, <1>3, <1>6, <2>1, <2>2 DEF Accounted, Current, Uses, Keeps, maps
  <2>5. QED
    BY <2>3, <2>4
<1>9. \A k \in Loops : Spanned(r, k)'
  BY <1>1, <1>3 DEF InOrder, Spanned, InRequest
<1>10. r \in active' <=> call'[r].step \notin {"new", "ended"}
  BY <1>1, <1>3 DEF InOrder
<1>11. QED
  BY <1>4, <1>5, <1>7, <1>8, <1>9, <1>10 DEF InOrder

-----------------------------------------------------------------------------
(* The goroutines of an attempt, the context of a turn *)

LEMMA StepsOfGoroutines ==
  ASSUME TypeOK, NEW r \in Requests, InOrder(r), NEW m \in 1..MaxOpens,
         \/ HostAnswers(<<r, m>>) \/ Abandoned(<<r, m>>) \/ ContextEnds(<<r, m>>)
         \/ WatcherCloses(<<r, m>>) \/ ShutdownCloses(<<r, m>>)
  PROVE  TypeOK' /\ Apart(r) /\ InOrder(r)'
<1> DEFINE a == <<r, m>>
<1>t. /\ a \in Attempts /\ attempt[a] \in AttemptRecords
      /\ attempt \in [Attempts -> AttemptRecords] /\ a = <<r, m>>
  BY DEF TypeOK, Attempts
<1>i. Accounted(r, m) /\ Opening(r, m)
  BY DEF InOrder
<1>d. \A q \in Requests : a # q
  BY Disjoint
<1> HIDE DEF a
<1>k. /\ Closed(attempt[a]) \in AttemptRecords /\ Closed(attempt[a]).step = attempt[a].step
      /\ Closed(attempt[a]).stream # "open" /\ Closed(attempt[a]).op \in {"none", "finished"}
      /\ Closed(attempt[a]).answer = attempt[a].answer
      /\ (Closed(attempt[a]).op = "none" <=> attempt[a].op = "none")
      /\ (attempt[a].stream = "none" => Closed(attempt[a]).stream = "none")
      /\ Closed(attempt[a]).loop = attempt[a].loop /\ Closed(attempt[a]).child = attempt[a].child
  BY <1>t, ClosedFields
<1>h. call' = call /\ logical' = logical => (HasLogical(r)' <=> HasLogical(r))
  BY DEF HasLogical, Turn
\* What each of them comes to.
<1>1. ASSUME NEW s \in AttemptRecords, attempt' = [attempt EXCEPT ![a] = s],
             UNCHANGED <<call, logical, stopped, poolClosed, world>>,
             shutdown' \in [step : {"running", "pool", "streams", "done"}, toClose : SUBSET Attempts],
             registered' \in {registered, registered \ {a}},
             published' \in {published, published \ {a}},
             s.step = attempt[a].step \/ attempt[a].step # "unborn",
             s.step = attempt[a].step \/ s.step # "unborn",
             active' = active \/ (active' = active \ {a} /\ s.step = "done"),
             s.step \in {"answered", "calling"} => attempt[a].step \in {"answered", "calling"},
             s.step = "calling" => s.stream = "none",
             s.stream = "open" => attempt[a].stream = "open" \/ s.step = "answered",
             s.stream = "open" /\ attempt[a].step = "answered" => s.step = "answered",
             s.stream = "none" \/ attempt[a].stream # "none" \/ attempt[a].step # "unborn",
             s.step = "answered" /\ s.answer \in {"none", "failed", "nameless"} => s.stream # "open",
             s.op \in {"live", "cancelled"} => attempt[a].op \in {"live", "cancelled"},
             s.op = "none" <=> attempt[a].op = "none",
             s.step = "closing" => attempt[a].step \in {"watching", "closing"},
             s.step = "watching" => attempt[a].step = "watching",
             s.loop = attempt[a].loop, s.child = attempt[a].child
      PROVE  TypeOK' /\ Apart(r) /\ InOrder(r)'
  <2>1. /\ attempt'[a] = s /\ \A b \in Attempts \ {<<r, m>>} : attempt'[b] = attempt[b]
        /\ attempt' \in [Attempts -> AttemptRecords]
    BY <1>1, <1>t
  <2>2. OnlyAt(r, m) /\ Typed
    BY <1>1, <1>d, <1>t, <2>1 DEF OnlyAt, Typed, TypeOK
  <2>3. TypeOK'
    BY <1>1, <2>2 DEF Typed, TypeOK, world
  <2>4. a \in active' => a \in active
    BY <1>1
  <2>5. s.step \in {"calling", "answered"} => active' = active
    BY <1>1
  <2>6. Accounted(r, m)'
    <3>1. attempt[a].step = "unborn" => s.step = "unborn"
      BY <1>1
    <3>2. QED
      BY <1>1, <1>i, <1>t, <2>1, <2>4, <2>5, <3>1 DEF Accounted, Current
  <2>7. Opening(r, m)'
    BY <1>1, <1>h, <1>i, <1>t, <2>1 DEF Opening, Current
  <2>8. QED
    BY <1>1, <2>2, <2>3, <2>6, <2>7, GoroutineSteps
<1>2. CASE HostAnswers(a)
  <2>1. PICK answer \in Answers \ {"none"} :
          attempt' = [attempt EXCEPT ![a] =
            [@ EXCEPT !.step = "answered", !.answer = answer,
               !.stream = IF answer \in {"failed", "nameless"} THEN "none" ELSE "open"]]
    BY <1>2 DEF HostAnswers
  <2> DEFINE stream == IF answer \in {"failed", "nameless"} THEN "none" ELSE "open"
             s == [attempt[a] EXCEPT !.step = "answered", !.answer = answer, !.stream = stream]
  <2>2. attempt' = [attempt EXCEPT ![a] = s]
    BY <2>1
  <2>3. stream \in {"none", "open"} /\ (answer \in {"none", "failed", "nameless"} => stream # "open")
    OBVIOUS
  <2> HIDE DEF stream
  <2>4. /\ s \in AttemptRecords /\ s.step = "answered" /\ s.op = attempt[a].op
        /\ s.answer = answer /\ s.stream = stream /\ s.loop = attempt[a].loop
        /\ s.child = attempt[a].child
    BY <1>t, <2>3 DEF AttemptRecords
  <2>5. attempt[a].step = "calling"
    BY <1>2 DEF HostAnswers
  <2> HIDE DEF s
  <2>6. /\ UNCHANGED <<call, logical, stopped, poolClosed, world, registered, published, active>>
        /\ shutdown' = shutdown
    BY <1>2 DEF HostAnswers, maps, service
  <2>7. shutdown' \in [step : {"running", "pool", "streams", "done"}, toClose : SUBSET Attempts]
    BY <2>6 DEF TypeOK
  <2>8. QED
    BY <1>1, <2>2, <2>3, <2>4, <2>5, <2>6, <2>7
<1>3. CASE Abandoned(a)
  <2> DEFINE s == [Closed(attempt[a]) EXCEPT !.step = "done"]
  <2>1. /\ attempt' = [attempt EXCEPT ![a] = s] /\ attempt[a].step = "answered"
        /\ registered' = registered \ {a} /\ active' = active \ {a}
        /\ UNCHANGED <<call, logical, published, stopped, poolClosed, shutdown, world>>
    BY <1>3 DEF Abandoned, service
  <2>2. /\ s \in AttemptRecords /\ s.step = "done" /\ s.op = Closed(attempt[a]).op
        /\ s.answer = attempt[a].answer /\ s.stream = Closed(attempt[a]).stream
        /\ s.loop = attempt[a].loop /\ s.child = attempt[a].child
    BY <1>k DEF AttemptRecords
  <2> HIDE DEF s
  <2>3. shutdown' \in [step : {"running", "pool", "streams", "done"}, toClose : SUBSET Attempts]
    BY <2>1 DEF TypeOK
  <2>4. QED
    BY <1>1, <1>k, <2>1, <2>2, <2>3
<1>4. CASE ContextEnds(a)
  <2> DEFINE s == [attempt[a] EXCEPT !.step = "closing"]
  <2>1. /\ attempt' = [attempt EXCEPT ![a] = s] /\ attempt[a].step = "watching"
        /\ UNCHANGED <<call, logical, registered, published, active, stopped, poolClosed,
                       shutdown, world>>
    BY <1>4 DEF ContextEnds, service, maps
  <2>2. /\ s \in AttemptRecords /\ s.step = "closing" /\ s.op = attempt[a].op
        /\ s.answer = attempt[a].answer /\ s.stream = attempt[a].stream
        /\ s.loop = attempt[a].loop /\ s.child = attempt[a].child
    BY <1>t DEF AttemptRecords
  <2> HIDE DEF s
  <2>3. shutdown' \in [step : {"running", "pool", "streams", "done"}, toClose : SUBSET Attempts]
    BY <2>1 DEF TypeOK
  <2>4. QED
    BY <1>1, <2>1, <2>2, <2>3
<1>5. CASE WatcherCloses(a)
  <2> DEFINE s == [Closed(attempt[a]) EXCEPT !.step = "done"]
  <2>1. /\ attempt' = [attempt EXCEPT ![a] = s] /\ attempt[a].step = "closing"
        /\ registered' = registered \ {a} /\ published' = published \ {a}
        /\ UNCHANGED <<call, logical, active, stopped, poolClosed, shutdown, world>>
    BY <1>5 DEF WatcherCloses, service
  <2>2. /\ s \in AttemptRecords /\ s.step = "done" /\ s.op = Closed(attempt[a]).op
        /\ s.answer = attempt[a].answer /\ s.stream = Closed(attempt[a]).stream
        /\ s.loop = attempt[a].loop /\ s.child = attempt[a].child
    BY <1>k DEF AttemptRecords
  <2> HIDE DEF s
  <2>3. shutdown' \in [step : {"running", "pool", "streams", "done"}, toClose : SUBSET Attempts]
    BY <2>1 DEF TypeOK
  <2>4. QED
    BY <1>1, <1>k, <2>1, <2>2, <2>3
<1>6. CASE ShutdownCloses(a)
  <2>1. /\ attempt' = [attempt EXCEPT ![a] = Closed(attempt[a])]
        /\ registered' = registered \ {a} /\ published' = published \ {a}
        /\ UNCHANGED <<call, logical, active, stopped, poolClosed, world>>
        /\ shutdown' = [shutdown EXCEPT !.toClose = shutdown.toClose \ {a}]
    BY <1>6 DEF ShutdownCloses, Close
  <2>2. shutdown' \in [step : {"running", "pool", "streams", "done"}, toClose : SUBSET Attempts]
    BY <2>1 DEF TypeOK
  <2>3. QED
    BY <1>1, <1>i, <1>k, <1>t, <2>1, <2>2 DEF Accounted
<1>7. QED
  BY <1>2, <1>3, <1>4, <1>5, <1>6 DEF a

LEMMA StepOfHandOver ==
  ASSUME TypeOK, NEW r \in Requests, InOrder(r), NEW m \in 1..MaxOpens, HandOver(<<r, m>>)
  PROVE  TypeOK' /\ Apart(r) /\ InOrder(r)'
<1> DEFINE a == <<r, m>>
           s == [attempt[a] EXCEPT !.step = "done"]
<1>1. /\ call[r].step = "waiting" /\ m = call[r].opens /\ attempt[a].step = "answered"
      /\ attempt' = [attempt EXCEPT ![a] = s] /\ active' = active \ {a}
      /\ UNCHANGED <<logical, maps, service, world>>
  BY DEF HandOver, Waited, At, Mine
<1>2. /\ a \in Attempts /\ attempt[a] \in AttemptRecords /\ a = <<r, m>>
      /\ call[r] \in CallRecords
  BY DEF TypeOK, Attempts
<1>3. /\ s \in AttemptRecords /\ s.step = "done" /\ s.op = attempt[a].op
      /\ s.stream = attempt[a].stream
  BY <1>2 DEF AttemptRecords
<1>4. /\ Budget(r) /\ Accounted(r, m) /\ \A q \in Requests : a # q
      /\ call[r].loop \in {1, 2} /\ call[r].fallback \in BOOLEAN
  BY <1>2, Disjoint DEF InOrder, CallRecords, Loops
<1>c. /\ call' \in [Requests -> CallRecords] /\ Budget(r)'
      /\ \A q \in Requests \ {r} : call'[q] = call[q]
      /\ call'[r].opens = call[r].opens /\ call'[r].loop = call[r].loop
      /\ \/ call'[r].step = "register" \/ (call'[r].step = "closing" /\ call'[r].then = "failed")
         \/ call'[r].step = "failed" /\ attempt[a].answer \in {"none", "failed", "nameless"}
  <2> DEFINE c == IF attempt[a].answer \in {"ok", "forbidden"}
                  THEN [call[r] EXCEPT !.step = "register"]
                  ELSE IF attempt[a].answer = "failedOpen"
                  THEN [call[r] EXCEPT !.step = "closing", !.then = "failed"]
                  ELSE [call[r] EXCEPT !.step = "failed"]
  <2>1. call' = [call EXCEPT ![r] = c]
    BY DEF HandOver
  <2>2. attempt[a].answer \in Answers
    BY <1>2 DEF AttemptRecords
  <2> DEFINE c1 == [call[r] EXCEPT !.step = "register"]
             c2 == [call[r] EXCEPT !.step = "closing", !.then = "failed"]
             c3 == [call[r] EXCEPT !.step = "failed"]
  <2>5. /\ c1 \in CallRecords /\ c1.step = "register"
        /\ c1.opens = call[r].opens /\ c1.loop = call[r].loop /\ c1.fallback = call[r].fallback
    BY <1>2 DEF CallRecords, Steps
  <2>6. /\ c2 \in CallRecords /\ c2.step = "closing" /\ c2.then = "failed"
        /\ c2.opens = call[r].opens /\ c2.loop = call[r].loop /\ c2.fallback = call[r].fallback
    BY <1>2 DEF CallRecords, Steps
  <2>7. /\ c3 \in CallRecords /\ c3.step = "failed"
        /\ c3.opens = call[r].opens /\ c3.loop = call[r].loop /\ c3.fallback = call[r].fallback
    BY <1>2 DEF CallRecords, Steps
  <2>8. \/ c = c1 \/ c = c2
        \/ c = c3 /\ attempt[a].answer \in {"none", "failed", "nameless"}
    BY <2>2 DEF Answers
  <2> HIDE DEF c1, c2, c3, c
  <2>3. /\ c \in CallRecords /\ c.opens = call[r].opens /\ c.loop = call[r].loop
        /\ c.fallback = call[r].fallback
        /\ \/ c.step = "register" \/ (c.step = "closing" /\ c.then = "failed")
           \/ c.step = "failed" /\ attempt[a].answer \in {"none", "failed", "nameless"}
    BY <2>5, <2>6, <2>7, <2>8
  <2> HIDE DEF a
  <2>4. /\ call'[r] = c /\ \A q \in Requests \ {r} : call'[q] = call[q]
        /\ call' \in [Requests -> CallRecords]
    BY <2>1, <2>3, CallUpdate
  <2>9. Budget(r)'
    BY <1>1, <1>4, <2>3, <2>4 DEF Budget
  <2>10. QED
    BY <2>3, <2>4, <2>9
<1> HIDE DEF s, a
<1>5. /\ attempt'[a] = s /\ \A b \in Attempts \ {a} : attempt'[b] = attempt[b]
      /\ attempt' \in [Attempts -> AttemptRecords]
  BY <1>1, <1>2, <1>3, AttemptUpdate
<1>6. OnlyAt(r, m) /\ Typed
  BY <1>1, <1>2, <1>4, <1>5, <1>c DEF OnlyAt, Typed, TypeOK, maps
<1>7. Accounted(r, m)'
  BY <1>1, <1>2, <1>3, <1>4, <1>5, <1>c DEF Accounted, Current, Uses, Keeps, maps
<1>8. Opening(r, m)' /\ InRequest(r)'
  BY <1>c DEF Opening, Opens, InRequest
<1>9. QED
  BY <1>1, <1>6, <1>7, <1>8, <1>c, MineSteps

LEMMA StepOfFinishKept ==
  ASSUME TypeOK, NEW r \in Requests, InOrder(r), NEW k \in Loops, FinishKept(<<r, k>>)
  PROVE  TypeOK' /\ Apart(r) /\ InOrder(r)'
<1> DEFINE l == <<r, k>>
           s == [logical[l] EXCEPT !.state = "finished"]
<1>1. /\ logical' = [logical EXCEPT ![l] = s]
      /\ UNCHANGED <<call, attempt, maps, active, service, world>>
  BY DEF FinishKept
<1>2. l \in Logicals /\ logical[l] \in LogicalRecords /\ l = <<r, k>>
  BY DEF TypeOK, Logicals
<1>3. s \in LogicalRecords /\ s.state = "finished"
  BY <1>2 DEF LogicalRecords
<1> HIDE DEF s, l
<1>4. /\ logical'[l] = s /\ \A j \in Logicals \ {l} : logical'[j] = logical[j]
      /\ logical' \in [Logicals -> LogicalRecords]
  BY <1>1, <1>2, <1>3, LogicalUpdate
<1>5. TypeOK'
  BY <1>1, <1>4 DEF TypeOK, maps, service, world
<1>6. \A q \in Requests, j \in Loops : <<q, j>> \in Logicals
  BY DEF Logicals
<1>7. Apart(r)
  BY <1>1, <1>2, <1>4, <1>6 DEF Apart, Same, maps
<1>8. ASSUME NEW j \in Loops PROVE Spanned(r, j)' /\
                (logical'[<<r, j>>].state = "none" => logical[<<r, j>>].state = "none")
  BY <1>1, <1>2, <1>3, <1>4, <1>6 DEF InOrder, Spanned, InRequest
<1>9. HasLogical(r)' => HasLogical(r)
  <2>1. logical[l].state # "none"
    <3>1. logical[l].keeper > 0
      BY <1>2 DEF FinishKept, Unkept
    <3>2. QED
      BY <1>2, <3>1 DEF InOrder, Spanned
  <2>2. call[r].loop \in Loops
    BY DEF TypeOK, CallRecords
  <2>3. QED
    BY <1>1, <1>2, <1>4, <1>6, <2>1, <2>2 DEF HasLogical, Turn
<1>10. ASSUME NEW n \in 1..MaxOpens PROVE Accounted(r, n)' /\ Opening(r, n)'
  BY <1>1, <1>9 DEF InOrder, Accounted, Opening, Current, maps
<1>11. Budget(r)' /\ (r \in active' <=> call'[r].step \notin {"new", "ended"})
  BY <1>1 DEF InOrder, Budget
<1>12. QED
  BY <1>5, <1>7, <1>8, <1>10, <1>11 DEF InOrder

\* A cancellation of some contexts: the callback's, or all of the pool.
LEMMA Cancels ==
  ASSUME TypeOK, NEW r \in Requests, InOrder(r), call' = call,
         UNCHANGED <<maps, active>>,
         \A n \in 1..MaxOpens :
           \/ attempt'[<<r, n>>] = attempt[<<r, n>>]
           \/ attempt'[<<r, n>>] = [attempt[<<r, n>>] EXCEPT !.op = Cancelled(@)],
         \A k \in Loops :
           \/ logical'[<<r, k>>] = logical[<<r, k>>]
           \/ logical'[<<r, k>>] = [logical[<<r, k>>] EXCEPT !.state = Cancelled(@)]
  PROVE  InOrder(r)'
<1>t. /\ call[r].loop \in Loops
      /\ \A n \in 1..MaxOpens : attempt[<<r, n>>] \in AttemptRecords
      /\ \A k \in Loops : logical[<<r, k>>] \in LogicalRecords
  BY DEF TypeOK, CallRecords, Attempts, Logicals
<1>1. ASSUME NEW n \in 1..MaxOpens
      PROVE  /\ attempt'[<<r, n>>].step = attempt[<<r, n>>].step
             /\ attempt'[<<r, n>>].stream = attempt[<<r, n>>].stream
             /\ attempt'[<<r, n>>].answer = attempt[<<r, n>>].answer
             /\ attempt'[<<r, n>>].loop = attempt[<<r, n>>].loop
             /\ attempt'[<<r, n>>].child = attempt[<<r, n>>].child
             /\ attempt'[<<r, n>>].op = "none" <=> attempt[<<r, n>>].op = "none"
             /\ attempt'[<<r, n>>].op \in {"live", "cancelled"} =>
                  attempt[<<r, n>>].op \in {"live", "cancelled"}
  <2>1. attempt[<<r, n>>] \in AttemptRecords
    BY <1>t
  <2>2. CASE attempt'[<<r, n>>] = attempt[<<r, n>>]
    BY <2>2
  <2>3. CASE attempt'[<<r, n>>] = [attempt[<<r, n>>] EXCEPT !.op = Cancelled(@)]
    BY <2>1, <2>3 DEF AttemptRecords, Cancelled
  <2>4. QED
    BY <2>2, <2>3
<1>2. ASSUME NEW k \in Loops
      PROVE  /\ logical'[<<r, k>>].keeper = logical[<<r, k>>].keeper
             /\ logical'[<<r, k>>].state = "none" <=> logical[<<r, k>>].state = "none"
             /\ logical'[<<r, k>>].state \in {"live", "cancelled"} =>
                  logical[<<r, k>>].state \in {"live", "cancelled"}
  <2>1. logical[<<r, k>>] \in LogicalRecords
    BY <1>t
  <2>2. CASE logical'[<<r, k>>] = logical[<<r, k>>]
    BY <2>2
  <2>3. CASE logical'[<<r, k>>] = [logical[<<r, k>>] EXCEPT !.state = Cancelled(@)]
    BY <2>1, <2>3 DEF LogicalRecords, Cancelled
  <2>4. QED
    BY <2>2, <2>3
<1>3. HasLogical(r)' <=> HasLogical(r)
  BY <1>t, <1>2 DEF HasLogical, Turn
<1>4. ASSUME NEW n \in 1..MaxOpens PROVE Accounted(r, n)' /\ Opening(r, n)'
  <2>1. Accounted(r, n) /\ Opening(r, n)
    BY DEF InOrder
  <2>2. Accounted(r, n)'
    BY <1>1, <2>1 DEF Accounted, Current, maps
  <2>3. Opening(r, n)'
    BY <1>1, <1>3, <2>1 DEF Opening, Current
  <2>4. QED
    BY <2>2, <2>3
<1>5. \A k \in Loops : Spanned(r, k)'
  BY <1>2 DEF InOrder, Spanned, InRequest
<1>6. Budget(r)' /\ (r \in active' <=> call'[r].step \notin {"new", "ended"})
  BY DEF InOrder, Budget
<1>7. QED
  BY <1>4, <1>5, <1>6 DEF InOrder

LEMMA StepsOfCancels ==
  ASSUME TypeOK, (\E r \in Requests : Cancel(r)) \/ ClosePool
  PROVE  TypeOK' /\ \A q \in Requests : InOrder(q) => InOrder(q)'
<1>a. \A a \in Attempts : /\ attempt[a] \in AttemptRecords
                          /\ [attempt[a] EXCEPT !.op = Cancelled(@)] \in AttemptRecords
  BY Ends DEF TypeOK, AttemptRecords
<1>l. \A l \in Logicals : /\ logical[l] \in LogicalRecords
                          /\ [logical[l] EXCEPT !.state = Cancelled(@)] \in LogicalRecords
  BY Ends DEF TypeOK, LogicalRecords
<1>p. \A q \in Requests : /\ \A n \in 1..MaxOpens : <<q, n>> \in Attempts
                          /\ \A k \in Loops : <<q, k>> \in Logicals
  BY DEF Attempts, Logicals
<1>1. ASSUME NEW r \in Requests, Cancel(r)
      PROVE  TypeOK' /\ \A q \in Requests : InOrder(q) => InOrder(q)'
  <2>1. /\ \A l \in Logicals : logical'[l] =
             IF l[1] = r THEN [logical[l] EXCEPT !.state = Cancelled(@)] ELSE logical[l]
        /\ \A a \in Attempts : attempt'[a] =
             IF a[1] = r THEN [attempt[a] EXCEPT !.op = Cancelled(@)] ELSE attempt[a]
        /\ UNCHANGED <<call, maps, active, service, world>>
    BY <1>1 DEF Cancel
  <2>2. attempt' \in [Attempts -> AttemptRecords] /\ logical' \in [Logicals -> LogicalRecords]
    BY <1>1, <1>a, <1>l DEF Cancel
  <2>3. TypeOK'
    BY <2>1, <2>2 DEF TypeOK, maps, service, world
  <2>4. QED
    BY <1>p, <2>1, <2>3, Cancels
<1>2. CASE ClosePool
  <2>1. /\ \A l \in Logicals : logical'[l] = [logical[l] EXCEPT !.state = Cancelled(@)]
        /\ \A a \in Attempts : attempt'[a] = [attempt[a] EXCEPT !.op = Cancelled(@)]
        /\ UNCHANGED <<call, maps, active, stopped, world>> /\ poolClosed' = TRUE
        /\ shutdown' = [step |-> "streams", toClose |-> shutdown.toClose \cup published]
    BY <1>2 DEF ClosePool
  <2>2. attempt' \in [Attempts -> AttemptRecords] /\ logical' \in [Logicals -> LogicalRecords]
    BY <1>2, <1>a, <1>l DEF ClosePool
  <2>3. TypeOK'
    BY <2>1, <2>2 DEF TypeOK, maps, world
  <2>4. QED
    BY <1>p, <2>1, <2>3, Cancels
<1>3. QED
  BY <1>1, <1>2

\* The deadline, the switch of the pool and the shutdown's own steps.
LEMMA StepsAround ==
  ASSUME TypeOK, \/ \E r \in Requests : Expire(r)
                 \/ TogglePool \/ ShutdownStops \/ ShutdownWaits
  PROVE  TypeOK' /\ \A q \in Requests : Same(q)
<1>1. UNCHANGED <<call, attempt, logical, maps, active>>
  BY DEF Expire, TogglePool, ShutdownStops, ShutdownWaits
<1>2. \A q \in Requests : Same(q)
  BY <1>1 DEF Same, maps
<1>3. TypeOK'
  <2>1. ASSUME NEW r \in Requests, Expire(r) PROVE TypeOK'
    BY <1>1, <2>1 DEF Expire, TypeOK, maps, service
  <2>2. CASE TogglePool
    BY <1>1, <2>2, UpstreamOpenAssumption DEF TogglePool, TypeOK, maps, service
  <2>3. CASE ShutdownStops
    BY <1>1, <2>3 DEF ShutdownStops, TypeOK, maps, world
  <2>4. CASE ShutdownWaits
    BY <1>1, <2>4 DEF ShutdownWaits, TypeOK, maps, world
  <2>5. QED
    BY <2>1, <2>2, <2>3, <2>4
<1>4. QED
  BY <1>2, <1>3

-----------------------------------------------------------------------------
(* The invariant *)

\* The shutdown has begun once Service.stopped is set, and returns with nobody
\* in the WaitGroup: after stopped nobody joins it.
Joined ==
  /\ stopped <=> shutdown.step # "running"
  /\ shutdown.step = "done" => active = {}

IInv == TypeOK /\ (\A r \in Requests : InOrder(r)) /\ Joined

LEMMA InitInv == Init => IInv
<1> SUFFICES ASSUME Init PROVE IInv
  OBVIOUS
<1>1. TypeOK
  BY TypeInit
<1>2. Joined
  BY DEF Init, Joined
<1>3. ASSUME NEW r \in Requests PROVE InOrder(r)
  <2>1. /\ call[r].step = "new" /\ call[r].opens = 0 /\ call[r].loop = 1
        /\ call[r].fallback = FALSE /\ r \notin active
    BY DEF Init
  <2>2. ASSUME NEW n \in 1..MaxOpens PROVE Accounted(r, n) /\ Opening(r, n)
    <3>1. <<r, n>> \in Attempts
      BY DEF Attempts
    <3>2. /\ attempt[<<r, n>>].step = "unborn" /\ attempt[<<r, n>>].op = "none"
          /\ attempt[<<r, n>>].stream = "none" /\ <<r, n>> \notin active
          /\ <<r, n>> \notin registered /\ <<r, n>> \notin published
      BY <3>1 DEF Init
    <3>3. QED
      BY <2>1, <3>2 DEF Accounted, Opening, Current, Opens
  <2>3. ASSUME NEW k \in Loops PROVE Spanned(r, k)
    BY DEF Init, Spanned, Logicals
  <2>4. Budget(r)
    BY <2>1 DEF Budget
  <2>5. QED
    BY <2>1, <2>2, <2>3, <2>4 DEF InOrder
<1>4. QED
  BY <1>1, <1>2, <1>3 DEF IInv

\* After stopped the WaitGroup only shrinks, and only the shutdown itself goes on.
LEMMA NobodyJoins ==
  ASSUME Joined, TypeOK, [Next]_vars
  PROVE  Joined'
<1>1. ASSUME UNCHANGED service, stopped => active' \subseteq active PROVE Joined'
  BY <1>1 DEF Joined, service
<1>2. CASE UNCHANGED vars
  BY <1>2, <1>1 DEF vars, service
<1>3. ASSUME NEW r \in Requests, Begin(r) PROVE Joined'
  BY <1>3, <1>1 DEF Begin
<1>4. ASSUME NEW r \in Requests, Proceed(r) PROVE Joined'
  <2>1. CASE BeginHost(r) \/ BeginLocal(r) \/ Open(r) \/ Enter(r) \/ Register(r) \/ ReadRejection(r)
    BY <2>1, <1>1 DEF BeginHost, BeginLocal, Open, Enter, Register, ReadRejection
  <2>2. CASE Operate(r) \/ Offer(r) \/ Publish(r) \/ Return(r) \/ Retry(r)
    BY <2>2, <1>1 DEF Operate, Offer, Publish, LocalFailed, Return, Retry
  <2>3. CASE CloseMine(r) \/ Fail(r) \/ Again(r) \/ End(r)
    BY <2>3, <1>1 DEF CloseMine, Fail, Again, End
  <2>4. QED
    BY <1>4, <2>1, <2>2, <2>3 DEF Proceed
<1>5. ASSUME NEW r \in Requests,
             GiveUp(r) \/ SendFails(r) \/ SendAnswers(r) \/ RejectionEnds(r) \/ SessionEnds(r)
             \/ Expire(r) \/ Cancel(r)
      PROVE  Joined'
  BY <1>5, <1>1 DEF GiveUp, SendFails, LocalFailed, SendAnswers, RejectionEnds, SessionEnds, Closing,
                    Expire, Cancel
<1>6. ASSUME NEW a \in Attempts, HostAnswers(a) \/ Goroutine(a) PROVE Joined'
  BY <1>6, <1>1 DEF HostAnswers, Goroutine, HandOver, Abandoned, ContextEnds, WatcherCloses
<1>7. ASSUME NEW l \in Logicals, FinishKept(l) PROVE Joined'
  BY <1>7, <1>1 DEF FinishKept
<1>8. CASE ShutdownStops
  BY <1>8 DEF ShutdownStops, Joined
<1>9. CASE ClosePool
  BY <1>9 DEF ClosePool, Joined
<1>10. ASSUME NEW a \in Attempts, ShutdownCloses(a) PROVE Joined'
  BY <1>10 DEF ShutdownCloses, Joined, TypeOK
<1>11. CASE ShutdownWaits
  BY <1>11 DEF ShutdownWaits, Joined, TypeOK
<1>12. CASE TogglePool
  BY <1>12, <1>1 DEF TogglePool
<1>13. QED
  BY <1>2, <1>3, <1>4, <1>5, <1>6, <1>7, <1>8, <1>9, <1>10, <1>11, <1>12 DEF Next, Stopping

LEMMA StepInv == IInv /\ [Next]_vars => IInv'
<1> SUFFICES ASSUME IInv, [Next]_vars PROVE IInv'
  OBVIOUS
<1>i. TypeOK /\ \A q \in Requests : InOrder(q) /\ call[q].loop \in Loops
  BY DEF IInv, TypeOK, CallRecords
<1>j. Joined'
  BY NobodyJoins DEF IInv
<1> DEFINE Goal == TypeOK' /\ \A q \in Requests : InOrder(q)'
<1>a. ASSUME NEW r \in Requests, TypeOK', Apart(r), InOrder(r)' PROVE Goal
  BY <1>a, <1>i, SameInOrder DEF Apart
<1>s. ASSUME TypeOK', \A q \in Requests : Same(q) PROVE Goal
  BY <1>s, <1>i, SameInOrder
<1>p. \A a \in Attempts : \E r \in Requests, m \in 1..MaxOpens : a = <<r, m>>
  BY DEF Attempts
<1>q. \A l \in Logicals : \E r \in Requests, k \in Loops : l = <<r, k>>
  BY DEF Logicals
<1> HIDE DEF Goal
<1>2. ASSUME NEW r \in Requests,
             Begin(r) \/ Proceed(r) \/ GiveUp(r) \/ SendFails(r) \/ SendAnswers(r)
             \/ RejectionEnds(r) \/ SessionEnds(r)
      PROVE  Goal
  <2>1. InOrder(r)
    BY <1>i
  <2>2. CASE Begin(r) \/ End(r) \/ Enter(r) \/ Return(r) \/ Fail(r)
    BY <1>a, <1>i, <2>1, <2>2, StepsOfOperations
  <2>3. CASE \/ GiveUp(r) \/ ReadRejection(r) \/ RejectionEnds(r) \/ SessionEnds(r)
             \/ Retry(r) \/ Again(r)
             \/ (BeginHost(r) /\ stopped) \/ (BeginLocal(r) /\ stopped)
             \/ Open(r) /\ ~MayOpen(r)
    BY <1>a, <1>i, <2>1, <2>3, StepsOfWalks
  <2>4. CASE \/ (BeginHost(r) /\ ~stopped) \/ Register(r) \/ (BeginLocal(r) /\ ~stopped)
             \/ Operate(r) \/ SendFails(r) \/ SendAnswers(r) \/ Offer(r) \/ Publish(r)
             \/ CloseMine(r)
    BY <1>a, <1>i, <2>1, <2>4, StepsAtMine
  <2>5. CASE Open(r) /\ MayOpen(r)
    BY <1>a, <1>i, <2>1, <2>5, StepOfOpen
  <2>6. QED
    BY <1>2, <2>2, <2>3, <2>4, <2>5 DEF Proceed
<1>3. ASSUME NEW a \in Attempts, HostAnswers(a) \/ Goroutine(a) \/ ShutdownCloses(a)
      PROVE  Goal
  <2>1. PICK r \in Requests, m \in 1..MaxOpens : a = <<r, m>>
    BY <1>p
  <2>2. InOrder(r)
    BY <1>i
  <2>3. CASE HandOver(a)
    BY <1>a, <1>i, <2>1, <2>2, <2>3, StepOfHandOver
  <2>4. CASE HostAnswers(a) \/ Abandoned(a) \/ ContextEnds(a) \/ WatcherCloses(a)
             \/ ShutdownCloses(a)
    BY <1>a, <1>i, <2>1, <2>2, <2>4, StepsOfGoroutines
  <2>5. QED
    BY <1>3, <2>3, <2>4 DEF Goroutine
<1>4. ASSUME NEW l \in Logicals, FinishKept(l) PROVE Goal
  <2>1. PICK r \in Requests, k \in Loops : l = <<r, k>>
    BY <1>q
  <2>2. QED
    BY <1>4, <1>a, <1>i, <2>1, StepOfFinishKept
<1>5. ASSUME (\E r \in Requests : Expire(r)) \/ TogglePool \/ ShutdownStops \/ ShutdownWaits
      PROVE  Goal
  BY <1>5, <1>i, <1>s, StepsAround
<1>6. ASSUME (\E r \in Requests : Cancel(r)) \/ ClosePool PROVE Goal
  BY <1>6, <1>i, StepsOfCancels DEF Goal
<1>7. Goal
  <2>1. CASE Next
    BY <2>1, <1>2, <1>3, <1>4, <1>5, <1>6 DEF Next, Stopping
  <2>2. CASE UNCHANGED vars
    <3>1. TypeOK'
      BY <2>2, <1>i DEF vars, TypeOK
    <3>2. \A q \in Requests : Same(q)
      BY <2>2 DEF vars, Same
    <3>3. QED
      BY <3>1, <3>2, <1>s
  <2>3. QED
    BY <2>1, <2>2
<1>8. QED
  BY <1>7, <1>j DEF Goal, IInv

LEMMA Invariant == Spec => []IInv
<1>1. Init => IInv
  BY InitInv
<1>2. IInv /\ [Next]_vars => IInv'
  BY StepInv
<1>3. QED
  BY <1>1, <1>2, PTL DEF Spec

-----------------------------------------------------------------------------
(* Theorems *)

\* Every variable stays in its type, and no request opens more than MaxOpens
\* streams: execute's two turns and the one retry of requestWithRoutingFallback.
THEOREM TypeCorrect == Spec => []TypeOK
<1>1. IInv => TypeOK
  BY DEF IInv
<1>2. QED
  BY <1>1, Invariant, PTL

LEMMA SettledIsClean ==
  ASSUME IInv, NEW r \in Requests, Settled(r)
  PROVE  /\ \A n \in 1..MaxOpens :
              /\ NoStreamOf(<<r, n>>)
              /\ attempt[<<r, n>>].op \in {"none", "finished"}
              /\ attempt[<<r, n>>].step \in {"unborn", "done"}
         /\ \A n \in Loops : logical[<<r, n>>].state \in {"none", "finished"}
<1>1. InOrder(r) /\ call[r].step = "ended"
  BY DEF IInv, Settled, At
<1>2. ASSUME NEW n \in 1..MaxOpens
      PROVE  /\ NoStreamOf(<<r, n>>)
             /\ attempt[<<r, n>>].op \in {"none", "finished"}
             /\ attempt[<<r, n>>].step \in {"unborn", "done"}
  <2>1. Accounted(r, n) /\ ~Busy(<<r, n>>)
    BY <1>1 DEF InOrder, Settled
  <2>2. attempt[<<r, n>>] \in AttemptRecords
    BY DEF IInv, TypeOK, Attempts
  <2>3. attempt[<<r, n>>].op \in {"none", "finished"}
    BY <1>1, <2>1, <2>2 DEF Accounted, Keeps, AttemptRecords
  <2>4. attempt[<<r, n>>].step \in {"unborn", "done"}
    BY <2>1, <2>2, <2>3 DEF Busy, ContextDone, AttemptRecords
  <2>5. NoStreamOf(<<r, n>>)
    BY <1>1, <2>1, <2>4 DEF Accounted, Keeps, Uses, NoStreamOf
  <2>6. QED
    BY <2>3, <2>4, <2>5
<1>3. ASSUME NEW k \in Loops PROVE logical[<<r, k>>].state \in {"none", "finished"}
  <2>1. Spanned(r, k) /\ ~Unkept(<<r, k>>) /\ logical[<<r, k>>] \in LogicalRecords
    BY <1>1 DEF InOrder, Settled, IInv, TypeOK, Logicals
  <2>2. ~InRequest(r)
    BY <1>1 DEF InRequest
  <2>3. CASE logical[<<r, k>>].keeper = 0
    BY <2>1, <2>2, <2>3 DEF Spanned, LogicalRecords
  <2>4. CASE logical[<<r, k>>].keeper # 0
    <3>1. logical[<<r, k>>].keeper \in 1..MaxOpens /\ logical[<<r, k>>].keeper > 0
      BY <2>1, <2>4 DEF LogicalRecords, MaxOpens
    <3>2. attempt[<<r, logical[<<r, k>>].keeper>>].op # "live"
      BY <1>2, <3>1
    <3>3. ContextDone(<<<<r, k>>[1], logical[<<r, k>>].keeper>>)
      BY <3>2 DEF ContextDone
    <3>4. QED
      BY <2>1, <3>1, <3>3 DEF Unkept
  <2>5. QED
    BY <2>3, <2>4
<1>4. QED
  BY <1>2, <1>3

LEMMA StoppedIsClean ==
  ASSUME IInv, shutdown.step = "done"
  PROVE  /\ \A r \in Requests : call[r].step \in {"new", "ended"}
         /\ \A a \in Attempts :
              NoStreamOf(a) /\ attempt[a].step \notin {"calling", "answered"}
<1>1. active = {}
  BY DEF IInv, Joined
<1>2. \A r \in Requests : InOrder(r) /\ call[r].step \in {"new", "ended"}
  BY <1>1 DEF IInv, InOrder
<1>3. ASSUME NEW a \in Attempts
      PROVE  NoStreamOf(a) /\ attempt[a].step \notin {"calling", "answered"}
  <2>1. PICK r \in Requests, n \in 1..MaxOpens : a = <<r, n>>
    BY DEF Attempts
  <2>2. Accounted(r, n) /\ call[r].step \in {"new", "ended"}
    BY <1>2 DEF InOrder
  <2>3. QED
    BY <1>1, <2>1, <2>2 DEF Accounted, Keeps, Uses, NoStreamOf
<1>4. QED
  BY <1>2, <1>3

\* However late the host answers, and whatever is cancelled, rejected or shut
\* down in between: a settled request holds no stream, no registration, no
\* operation and no goroutine, and a shutdown that has returned left none of any
\* request behind.
THEOREM NothingStaysBehind == Spec => []NothingLeftBehind
<1>1. IInv => NothingLeftBehind
  BY SettledIsClean, StoppedIsClean
     DEF NothingLeftBehind, NothingLeaks, ShutdownLeavesNothing
<1>2. QED
  BY <1>1, Invariant, PTL

\* What only Offer publishes.
LEMMA WhoPublishes ==
  ASSUME [Next]_vars, NEW a \in published' \ published
  PROVE  \E r \in Requests :
           Offer(r) /\ ~(poolClosed \/ ContextDone(Mine(r))) /\ a = Mine(r)
<1>1. ASSUME NEW r \in Requests, Offer(r)
      PROVE  ~(poolClosed \/ ContextDone(Mine(r))) /\ a = Mine(r)
  BY <1>1 DEF Offer
<1>2. ASSUME NEW r \in Requests, Proceed(r), ~Offer(r) PROVE FALSE
  <2>1. published' \subseteq published
    BY <1>2 DEF Proceed, Enter, Open, BeginHost, Register, BeginLocal, Operate, Publish,
                ReadRejection, Return, Retry, CloseMine, Close, Fail, Again, End, maps
  <2>2. QED
    BY <2>1
<1>3. ASSUME NEW r \in Requests,
             \/ Begin(r) \/ GiveUp(r) \/ SendFails(r) \/ SendAnswers(r) \/ RejectionEnds(r)
             \/ SessionEnds(r) \/ Expire(r) \/ Cancel(r)
      PROVE  FALSE
  BY <1>3 DEF Begin, GiveUp, SendFails, SendAnswers, RejectionEnds, SessionEnds, Closing, Expire,
              Cancel, maps
<1>4. ASSUME NEW b \in Attempts, HostAnswers(b) \/ Goroutine(b) \/ ShutdownCloses(b) PROVE FALSE
  BY <1>4 DEF HostAnswers, Goroutine, HandOver, Abandoned, ContextEnds, WatcherCloses,
              ShutdownCloses, Close, maps
<1>5. ASSUME (\E l \in Logicals : FinishKept(l)) \/ ShutdownStops \/ ClosePool \/ ShutdownWaits
             \/ TogglePool \/ UNCHANGED vars
      PROVE  FALSE
  BY <1>5 DEF FinishKept, ShutdownStops, ClosePool, ShutdownWaits, TogglePool, maps, vars
<1>6. QED
  BY <1>1, <1>2, <1>3, <1>4, <1>5 DEF Next, Stopping

\* A callback that was cancelled, even while the rejected response before a
\* retry was being closed, gets no further response of the pool published.
THEOREM CancelsAreFinal == Spec => CancelIsFinal
<1>1. ASSUME IInv, [Next]_vars, NEW a \in published' \ published
      PROVE  logical[Turn(a[1])].state \in {"none", "live"}
  <2>1. PICK r \in Requests :
          Offer(r) /\ ~(poolClosed \/ ContextDone(Mine(r))) /\ a = Mine(r)
    BY <1>1, WhoPublishes
  <2>2. /\ InOrder(r) /\ call[r].step = "offer" /\ a[1] = r /\ a = <<r, call[r].opens>>
        /\ call[r].opens \in 1..MaxOpens
    BY <1>1, <2>1, MineTypes DEF IInv, Offer, At, Mine, InOrder
  <2>3. /\ attempt[a].loop = call[r].loop
        /\ HasLogical(r) => attempt[a].child
    BY <2>2 DEF InOrder, Opening, Current, Opens
  <2>4. attempt[a].child => ~LogicalDone(Turn(r))
    BY <2>1, <2>2, <2>3 DEF ContextDone, Turn
  <2>5. QED
    BY <2>2, <2>3, <2>4 DEF HasLogical, LogicalDone
<1>2. IInv /\ [Next]_vars =>
        [\A a \in published' \ published : logical[Turn(a[1])].state \in {"none", "live"}]_vars
  BY <1>1
<1>3. QED
  BY <1>2, Invariant, PTL DEF Spec, CancelIsFinal

===============================================================================
