-------------------------------- MODULE MCLru --------------------------------
(***************************************************************************)
(* Instance for TLC: three interchangeable keys, and weights of which one  *)
(* alone exceeds the cache.                                                *)
(***************************************************************************)
EXTENDS WeightedLRU

CONSTANTS k1, k2, k3, v1, v2

MCSymmetry == Permutations({k1, k2, k3}) \cup Permutations({v1, v2})
=============================================================================
