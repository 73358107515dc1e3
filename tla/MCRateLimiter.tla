---------------------------- MODULE MCRateLimiter ----------------------------
(* RateLimiter for TLC, alone. *)
EXTENDS RateLimiter

Limits  == [upload |-> 1, api |-> 2]
Windows == [upload |-> 3, api |-> 2]
=============================================================================
