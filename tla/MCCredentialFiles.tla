------------------------- MODULE MCCredentialFiles -------------------------
(* Small worlds of CredentialFiles: two accounts. *)
EXTENDS CredentialFiles

CONSTANTS cr1, cr2

Quiet == [creds |-> {cr1, cr2}, routes |-> {None, Earlier}, policy |-> None, slow |-> FALSE,
          rotations |-> 1, edits |-> 0, faults |-> 0, stops |-> 0, crashes |-> 0, puts |-> 0]

Disturbed == [Quiet EXCEPT !.slow = TRUE, !.edits = 1, !.faults = 1, !.stops = 1]
Ruled == [Quiet EXCEPT !.creds = {cr1}, !.routes = {None}, !.policy = 0, !.slow = TRUE,
          !.edits = 1, !.faults = 1, !.puts = 1]
Killed == [Quiet EXCEPT !.slow = TRUE, !.crashes = 1]

MCWorlds == {Quiet, Disturbed, Ruled, Killed}
=============================================================================
