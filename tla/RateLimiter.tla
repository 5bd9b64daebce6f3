----------------------------- MODULE RateLimiter -----------------------------
(***************************************************************************)
(* The per-key recovery windows of rate_limit.go: a 429 "team limit" for a  *)
(* (credential, model, fingerprint) key closes the key until RetryAt, then  *)
(* exactly one request at a time may probe it, and only what such a probe   *)
(* learns reopens the key for everybody.                                    *)
(*                                                                          *)
(* A request is used once: a retry by the host is another request.  Each    *)
(* operation runs under rateLimiter.mu, so it is one action.  What a        *)
(* request does between its operations (egress, upstream, stream) is the    *)
(* passing of time plus the choice of the fault it ends with.               *)
(***************************************************************************)
EXTENDS Naturals

CONSTANTS
  Requests,     \* executor calls, model tests and provider probes
  Keys,         \* rateKey: credential, upstream model, usage fingerprint
  Credentials,
  CredentialOf, \* the credential a key belongs to
  None,         \* the nil pointer of rateWindow.probe
  RetryAfters,  \* delays an upstream 429 asks for
  ProbePause,   \* the 5 seconds a failed probe adds
  IdleExpiry,   \* the 10 minutes an expired window is kept
  MaxTime       \* bound of the clock

ASSUME RateLimiterAssumption ==
  /\ CredentialOf \in [Keys -> Credentials]
  /\ None \notin Requests
  /\ RetryAfters \subseteq Nat
  /\ ProbePause \in Nat /\ IdleExpiry \in Nat /\ MaxTime \in Nat

VARIABLES
  now,         \* rateLimiter.now
  windows,     \* rateLimiter.windows; id 0 stands for an absent entry
  lastId,      \* window ids handed out
  lease,       \* what each request holds: its progress and its rateLease
  \* History variables, read by the properties only.
  limits,      \* team limits reported so far, by key
  closedUntil, \* the time before which a key must admit nobody
  proven       \* has a key been shown open since its newest limit?

stateVars == <<now, windows, lastId, lease>>
historyVars == <<limits, closedUntil, proven>>
vars == <<now, windows, lastId, lease, limits, closedUntil, proven>>

Faults == {"none", "team_limit", "cooldown", "request"}
Statuses == {"new", "running", "answered", "ended", "suppressed"}

WindowRecords ==
  [id : Nat, retryAt : Nat, epoch : Nat, probe : Requests \cup {None}]

(* key, state (by its window's id, 0 for nil) and epoch are the rateLease;  *)
(* slot and seen are history: the request was admitted as the recovery      *)
(* probe and has not reported back yet, and the limits known on admission.  *)
LeaseRecords ==
  [status : Statuses, key : Keys, state : Nat, epoch : Nat,
   fault : Faults, retryAt : Nat, slot : BOOLEAN, seen : Nat]

NoWindow == [id |-> 0, retryAt |-> 0, epoch |-> 0, probe |-> None]

Later(a, b) == IF a >= b THEN a ELSE b

Present(k) == windows[k].id # 0
InFlight(r) == lease[r].status \in {"running", "answered"}

TypeOK ==
  /\ now \in Nat
  /\ windows \in [Keys -> WindowRecords]
  /\ lastId \in Nat
  /\ lease \in [Requests -> LeaseRecords]
  /\ limits \in [Keys -> Nat]
  /\ closedUntil \in [Keys -> Nat]
  /\ proven \in [Keys -> BOOLEAN]

Init ==
  /\ now = 0
  /\ windows = [k \in Keys |-> NoWindow]
  /\ lastId = 0
  /\ \E keyOf \in [Requests -> Keys] :
       lease = [r \in Requests |->
         [status |-> "new", key |-> keyOf[r], state |-> 0, epoch |-> 0,
          fault |-> "none", retryAt |-> 0, slot |-> FALSE, seen |-> 0]]
  /\ limits = [k \in Keys |-> 0]
  /\ closedUntil = [k \in Keys |-> 0]
  /\ proven = [k \in Keys |-> TRUE]

-----------------------------------------------------------------------------
(* acquire *)

\* (A faulty variant, for LimitsAreRespected: live probes are not spared.)
StaleWithProbe(k) ==
  /\ Present(k)
  /\ now > windows[k].retryAt + IdleExpiry

\* A window nobody probes and whose time passed long ago carries no quota
\* meaning: acquire drops every such window before it looks at its own key.
Stale(k) ==
  /\ Present(k)
  /\ windows[k].probe = None
  /\ now > windows[k].retryAt + IdleExpiry

Kept == [k \in Keys |-> IF Stale(k) THEN NoWindow ELSE windows[k]]

Closed(w) == now < w.retryAt \/ w.probe # None

Admit(r, window, isProbe) ==
  lease' = [lease EXCEPT ![r] =
    [@ EXCEPT !.status = "running", !.state = window.id, !.epoch = window.epoch,
              !.slot = isProbe, !.seen = limits[lease[r].key]]]

\* No window: the request runs without any bookkeeping (lease.state is nil).
AcquireUnrestricted(r) ==
  /\ lease[r].status = "new"
  /\ Kept[lease[r].key].id = 0
  /\ Admit(r, NoWindow, FALSE)
  /\ windows' = Kept
  /\ UNCHANGED <<now, lastId, historyVars>>

\* An expired window without a probe: the request becomes its single probe.
AcquireProbe(r) ==
  LET k == lease[r].key IN
  /\ lease[r].status = "new"
  /\ Kept[k].id # 0
  /\ ~Closed(Kept[k])
  /\ Admit(r, Kept[k], TRUE)
  /\ windows' = [Kept EXCEPT ![k].probe = r]
  /\ UNCHANGED <<now, lastId, historyVars>>

\* Otherwise the caller gets a local 429 and no upstream request is sent.
Suppress(r) ==
  LET k == lease[r].key IN
  /\ lease[r].status = "new"
  /\ Kept[k].id # 0
  /\ Closed(Kept[k])
  /\ lease' = [lease EXCEPT ![r].status = "suppressed"]
  /\ windows' = Kept
  /\ UNCHANGED <<now, lastId, historyVars>>

-----------------------------------------------------------------------------
(* finish and finishRequestRateLease *)

\* The request owns the probe slot of the very window it was admitted under.
HoldsProbe(r) ==
  LET w == windows[lease[r].key] IN
  /\ w.id # 0
  /\ w.id = lease[r].state
  /\ w.probe = r

\* A team limit opens a window or extends the one there is, whoever reports it.
Limited(w, r) ==
  [id |-> IF w.id = 0 THEN lastId + 1 ELSE w.id,
   retryAt |-> Later(w.retryAt, lease[r].retryAt),
   epoch |-> w.epoch + 1,
   probe |-> IF w.probe = r THEN None ELSE w.probe]

\* A success clears the window only if no newer limit arrived meanwhile.
Recovered(w, r) ==
  IF w.epoch = lease[r].epoch THEN NoWindow ELSE [w EXCEPT !.probe = None]

\* A failed probe proves nothing: the next one waits a little longer.
PausedProbe(w) ==
  [w EXCEPT !.probe = None, !.retryAt = Later(@, now + ProbePause)]

\* (A faulty variant, for UnrestrictedNeedsEvidence: any end is a recovery.)
ReleasedAsRecovery(w) == NoWindow

\* A request or service fault only gives the slot back.
ReleasedProbe(w) == [w EXCEPT !.probe = None]

Finished(r, fault) ==
  LET w == windows[lease[r].key] IN
  CASE fault = "team_limit" -> Limited(w, r)
    [] fault # "team_limit" /\ ~HoldsProbe(r) -> w
    [] fault = "none" /\ HoldsProbe(r) -> Recovered(w, r)
    [] fault = "cooldown" /\ HoldsProbe(r) -> PausedProbe(w)
    [] fault = "request" /\ HoldsProbe(r) -> ReleasedProbe(w)

\* What the report means for the key, in the terms of the properties.
Reported(r, fault) ==
  LET k == lease[r].key IN
  /\ limits' = IF fault = "team_limit"
               THEN [limits EXCEPT ![k] = @ + 1] ELSE limits
  /\ closedUntil' =
       CASE fault = "team_limit" ->
              [closedUntil EXCEPT ![k] = Later(@, lease[r].retryAt)]
         [] fault = "cooldown" /\ lease[r].slot ->
              [closedUntil EXCEPT ![k] = Later(@, now + ProbePause)]
         [] fault = "none" /\ lease[r].seen = limits[k] ->
              [closedUntil EXCEPT ![k] = 0]
         [] OTHER -> closedUntil
  /\ proven' =
       CASE fault = "team_limit" -> [proven EXCEPT ![k] = FALSE]
         [] fault = "none" /\ lease[r].seen = limits[k] ->
              [proven EXCEPT ![k] = TRUE]
         [] OTHER -> proven

Finish(r, fault) ==
  LET k == lease[r].key IN
  /\ windows' = [windows EXCEPT ![k] = Finished(r, fault)]
  /\ lastId' = IF fault = "team_limit" /\ windows[k].id = 0
               THEN lastId + 1 ELSE lastId
  /\ Reported(r, fault)
  /\ UNCHANGED now

\* A stream reports success as soon as the first completion frame is read; the
\* stream goes on and reports again when it ends.
FirstOutput(r) ==
  /\ lease[r].status = "running"
  /\ Finish(r, "none")
  /\ lease' = [lease EXCEPT ![r].slot = FALSE]

\* The call's outcome is known; a team limit fixes its RetryAt at that moment.
Answer(r) ==
  /\ lease[r].status = "running"
  /\ \/ \E fault \in Faults \ {"team_limit"} :
          lease' = [lease EXCEPT ![r] =
                      [@ EXCEPT !.status = "answered", !.fault = fault]]
     \/ \E d \in RetryAfters :
          lease' = [lease EXCEPT ![r] =
                      [@ EXCEPT !.status = "answered", !.fault = "team_limit",
                                !.retryAt = now + d]]
  /\ UNCHANGED <<now, windows, lastId, historyVars>>

\* The deferred finishRequestRateLease of every caller of acquire.
End(r) ==
  /\ lease[r].status = "answered"
  /\ Finish(r, lease[r].fault)
  /\ lease' = [lease EXCEPT ![r] = [@ EXCEPT !.status = "ended", !.slot = FALSE]]

-----------------------------------------------------------------------------
(* resetSchedulingWindows: the operator clears a credential's cooldown.     *)

\* A window with a live probe stays, so that no second probe is admitted.
ResetWindow(w) ==
  IF w.id = 0 THEN w
  ELSE IF w.probe # None THEN [w EXCEPT !.retryAt = now] ELSE NoWindow

Reset(c) ==
  /\ windows' = [k \in Keys |->
       IF CredentialOf[k] = c THEN ResetWindow(windows[k]) ELSE windows[k]]
  /\ closedUntil' = [k \in Keys |->
       IF CredentialOf[k] = c THEN 0 ELSE closedUntil[k]]
  /\ proven' = [k \in Keys |-> IF CredentialOf[k] = c THEN TRUE ELSE proven[k]]
  /\ UNCHANGED <<now, lastId, lease, limits>>

Tick ==
  /\ now < MaxTime
  /\ now' = now + 1
  /\ UNCHANGED <<windows, lastId, lease, historyVars>>

Next ==
  \/ \E r \in Requests :
       \/ AcquireUnrestricted(r) \/ AcquireProbe(r) \/ Suppress(r)
       \/ FirstOutput(r) \/ Answer(r) \/ End(r)
  \/ \E c \in Credentials : Reset(c)
  \/ Tick

Spec == Init /\ [][Next]_vars

-----------------------------------------------------------------------------
(* Properties *)

Admitted(r) == lease[r].status = "new" /\ lease'[r].status = "running"

\* The probe slot of a window is held by exactly the requests that owe a
\* report on it: an unfinished probe cannot lose its slot to a reset, to the
\* expiry of idle windows or to another request's report, and a finished one
\* never keeps it (which would suppress the key for ever).
SlotMatchesProbe ==
  \A r \in Requests, k \in Keys :
    /\ InFlight(r) /\ lease[r].slot /\ lease[r].key = k
       <=> windows[k].probe = r
    /\ windows[k].probe = r => lease[r].state = windows[k].id

\* While a recovery probe is out nobody else is admitted to its key, whatever
\* limits, resets, expiries and late reports happen meanwhile.
ProbeIsAlone ==
  [][\A r, p \in Requests :
       Admitted(r) /\ InFlight(p) /\ lease[p].slot
       => lease[p].key # lease[r].key]_vars

\* Until the latest RetryAt reported for a key since it was last shown open (or
\* the pause after a failed probe) has passed, the key admits nobody: the success of a call that began
\* before the limit does not reopen it, nor does the end of an older probe.
ClosedKeyAdmitsNobody ==
  [][\A r \in Requests : Admitted(r) => now >= closedUntil[lease[r].key]]_vars

\* A limited key admits nobody early, and one request at a time thereafter.
LimitsAreRespected == ProbeIsAlone /\ ClosedKeyAdmitsNobody

\* After a limit a key admits requests freely again only on evidence: a call
\* admitted after the newest limit reached model output, the operator reset the
\* cooldown, or the limit lies further back than the idle expiry.
UnrestrictedNeedsEvidence ==
  [][\A r \in Requests :
       Admitted(r) /\ lease'[r].state = 0
       => \/ proven[lease[r].key]
          \/ now > closedUntil[lease[r].key] + IdleExpiry]_vars

-----------------------------------------------------------------------------
(* The inductive strengthening used by LimitsAndLogProofs. *)

AbsentIsNoWindow == \A k \in Keys : windows[k].id = 0 => windows[k] = NoWindow

IdsAreOld == \A k \in Keys : windows[k].id <= lastId

\* A held slot says which window it is on and how far that window has moved.
SlotTracksWindow ==
  \A r \in Requests :
    lease[r].slot =>
      LET w == windows[lease[r].key] IN
      /\ InFlight(r)
      /\ w.id # 0 /\ w.id = lease[r].state /\ w.probe = r
      /\ w.epoch >= lease[r].epoch
      /\ limits[lease[r].key] = lease[r].seen + (w.epoch - lease[r].epoch)
      /\ (w.epoch = lease[r].epoch => closedUntil[lease[r].key] <= now)

ProbeOwesReport ==
  \A k \in Keys : windows[k].probe # None =>
    lease[windows[k].probe].slot /\ lease[windows[k].probe].key = k

\* What the properties remember of a key's closure is in its window, unless it
\* is so old that no window needs to say it.
LongPast(k) == now > closedUntil[k] + IdleExpiry

ClosureIsKept ==
  \A k \in Keys :
    /\ windows[k].id # 0 => closedUntil[k] <= windows[k].retryAt \/ LongPast(k)
    /\ windows[k].id = 0 => closedUntil[k] = 0 \/ LongPast(k)
    /\ windows[k].id = 0 => proven[k] \/ LongPast(k)

IInv ==
  /\ TypeOK
  /\ AbsentIsNoWindow
  /\ IdsAreOld
  /\ SlotTracksWindow
  /\ ProbeOwesReport
  /\ ClosureIsKept

=============================================================================
