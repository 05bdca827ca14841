------------------------- MODULE MCProviderLimiter -------------------------
(* Small instances of ProviderLimiter. *)
EXTENDS ProviderLimiter, TLC

\* The requests are interchangeable.
Requests == Permutations(Caller)
=============================================================================
