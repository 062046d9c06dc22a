--------------------------- MODULE MCCacheRemoval ---------------------------
(* Model values for CacheRemoval. *)
EXTENDS CacheRemoval, TLC

Symmetry == Permutations(Clients) \cup Permutations(Sessions)
=============================================================================
