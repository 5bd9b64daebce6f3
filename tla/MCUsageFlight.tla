---------------------------- MODULE MCUsageFlight ----------------------------
(* A small instance of UsageFlight: two credentials whose keys k1 and k2 belong
   to one account, and a key k3 of another one. *)
EXTENDS UsageFlight

CONSTANTS u1, u2, w1, cr1, cr2, k1, k2, k3, acc1, acc2

MCAccountOf == [k \in Keys |-> IF k = k3 THEN acc2 ELSE acc1]
MCFirstKey == [c \in Creds |-> IF c = cr1 THEN k1 ELSE k2]
(* The block of cr1 ends while its last check may still be fresh. *)
MCResetAt == [c \in Creds |-> IF c = cr1 THEN 1 ELSE 0]
(* cr2 gets the key of another account, or cr1 is deleted and put back, or the
   service is quiesced. *)
MCBudgets ==
  {[edits |-> {<<cr2, k3>>}, stops |-> 0, ticks |-> 1],
   [edits |-> {<<cr1, None>>, <<cr1, k1>>}, stops |-> 0, ticks |-> 0],
   [edits |-> {}, stops |-> 1, ticks |-> 1]}
=============================================================================
