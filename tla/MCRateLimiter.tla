---------------------------- MODULE MCRateLimiter ----------------------------
(* Two threads on RateLimiter for TLC; module MCGuard has one thread.      *)
EXTENDS RateLimiter, TLC
CONSTANTS t1, t2, acme, decrypt

MCSymmetry == Permutations(Threads) \cup Permutations(Tenants)
=============================================================================
