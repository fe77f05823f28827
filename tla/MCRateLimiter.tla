---------------------------- MODULE MCRateLimiter ----------------------------
(* A small instance of RateLimiter for TLC; its values are all in the cfg. *)
EXTENDS RateLimiter
=============================================================================
