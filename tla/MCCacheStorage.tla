--------------------------- MODULE MCCacheStorage ---------------------------
(* Three keys over a cache of two: every fill can evict, and the evicted   *)
(* key can come back.                                                      *)
EXTENDS CacheStorage

Symmetry == Permutations(Key) \cup Permutations(Value)

=============================================================================
