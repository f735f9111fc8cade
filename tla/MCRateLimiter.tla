--------------------------- MODULE MCRateLimiter ----------------------------
(***************************************************************************)
(* The rate limiter for TLC: two clients and room for one of them, two     *)
(* handlers that may be a tick late, and a bucket of two requests that     *)
(* needs four ticks, between one and two seconds, to fill.                 *)
(***************************************************************************)
EXTENDS RateLimiter, TLC

Interchangeable == Permutations(Handlers) \cup Permutations(Clients)
=============================================================================
