--------------------------- MODULE MCQuotaGuard ---------------------------
(* Small worlds of QuotaGuard: k1 and k2 are keys of one account, k3 a key
   of another. *)
EXTENDS QuotaGuard

CONSTANTS cr1, cr2, k1, k2, k3, acc1, acc2

MCAccountOf == [k \in Keys |-> IF k = k3 THEN acc2 ELSE acc1]
MCFirstKey == [c \in Creds |-> IF c = cr1 THEN k1 ELSE k2]

(* What a check that reads the plan finds in every window. *)
Finds(states) == {[seen |-> [w \in Windows |-> s], plan |-> TRUE] : s \in states}

(* One credential with every disturbance but a restart. *)
Disturbed == [creds |-> {cr1}, known |-> {}, keys |-> {k1, k3}, answers |-> Finds({"room"}),
              resets |-> {0}, time |-> 1, calls |-> 1,
              edits |-> 1, faults |-> 1, crashes |-> 0, saves |-> 1]

(* More time for fewer disturbances. *)
Edited == [Disturbed EXCEPT !.time = 2, !.faults = 0]
Failing == [Disturbed EXCEPT !.time = 2, !.edits = 0]

(* Two siblings of one account, two calls at once and resets that lie ahead. *)
Siblings == [creds |-> {cr1, cr2}, known |-> {cr1, cr2}, keys |-> {},
             answers |-> Finds({"room", "full"}), resets |-> {3}, time |-> 3, calls |-> 2,
             edits |-> 0, faults |-> 0, crashes |-> 0, saves |-> 0]

(* One credential that keeps its key, with a restart. *)
Restarting == [Disturbed EXCEPT !.time = 2, !.keys = {k1}, !.crashes = 1, !.saves = 0]

MCGuarded == {Disturbed, Edited, Failing, Siblings}
MCRestarted == {Restarting}
=============================================================================
