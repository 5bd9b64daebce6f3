----------------------------- MODULE MCStatistics -----------------------------
(* A small instance of Statistics: an instance and its replacement, two old    *)
(* requests on two days, one of them below the cutoff of the average rate.     *)
EXTENDS Statistics

CONSTANTS old, new, d1, d2

MCOldDay == [r \in OldRequests |-> IF r = 1 THEN d1 ELSE d2]
===============================================================================
