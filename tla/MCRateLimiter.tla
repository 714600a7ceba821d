---------------------------- MODULE MCRateLimiter ----------------------------
(***************************************************************************)
(* Small instances of RateLimiter: one key with a limit of two calls per   *)
(* window, and counts up to four, twice the limit, past the anomaly        *)
(* threshold.  Keys share nothing.  No symmetry: liveness is checked.      *)
(***************************************************************************)
EXTENDS RateLimiter

CONSTANTS k1, r1, r2, r3

TwoPerWindow == [k \in Keys |-> 2]
===============================================================================
