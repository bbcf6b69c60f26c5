--------------------------- MODULE MCRateLimiter ---------------------------
(* An instance of RateLimiter for TLC. *)
EXTENDS RateLimiter, TLC

CONSTANTS k1, k2, k3, t1, t2

MCKeys == {k1, k2, k3}
MCThreads == {t1, t2}

Symmetries == Permutations(MCKeys) \union Permutations(MCThreads)
=============================================================================
