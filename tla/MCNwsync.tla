------------------------------ MODULE MCNwsync ------------------------------
(***************************************************************************)
(* Instance for TLC: two manifests that share a resource's contents, the   *)
(* larger one with the same contents under two names.                      *)
(***************************************************************************)
EXTENDS NwsyncRepository, TLC

CONSTANTS m1, m2, r1, r2, h1, h2, d1, w1, w2

MCEntries == (m1 :> (r1 :> h1 @@ r2 :> h2)) @@ (m2 :> (r1 :> h1 @@ r2 :> h1))
MCDirOf == (h1 :> d1) @@ (h2 :> d1)

\* The writers are interchangeable.
Symmetry == Permutations({w1, w2})
=============================================================================
