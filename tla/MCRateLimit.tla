----------------------------- MODULE MCRateLimit -----------------------------
(* Bounded instance of RateLimit: requests in excess of every allowance,   *)
(* and time for a window to pass.                                          *)
EXTENDS RateLimit, TLC

\* Requests and processes are interchangeable; no liveness is checked.
Symmetry == Permutations(Request) \cup Permutations(Process)
=============================================================================
