---------------------------- MODULE MCRateLimiter ----------------------------
(* A small instance of RateLimiter: one credential with two keys (two models), *)
(* and one-shot requests.                                                     *)
EXTENDS RateLimiter, TLC

CONSTANTS r1, r2, r3, r4, k1, k2, c1

MCRequests == {r1, r2, r3, r4}
MCKeys == {k1, k2}
MCCredentials == {c1}
MCCredentialOf == [k \in MCKeys |-> c1]
MCRetryAfters == {1, 2}

\* Requests differ in nothing but their name, and so do the two keys.
Symmetry == Permutations(MCRequests) \cup Permutations(MCKeys)
=============================================================================
