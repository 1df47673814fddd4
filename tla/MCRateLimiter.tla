---------------------------- MODULE MCRateLimiter ----------------------------
(* Two goroutines for TLC. *)
EXTENDS RateLimiter

CONSTANTS c1, c2
MCCallers == {c1, c2}
=============================================================================
