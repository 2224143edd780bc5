--------------------------- MODULE MCIdentifiers ---------------------------
(***************************************************************************)
(* Instance for TLC: three names, two of them with one hash, that begin at *)
(* one slot with "#globals"; a keyword in the way; searches that wrap.     *)
(***************************************************************************)
EXTENDS IdentifierTable, TLC

CONSTANTS a, b, c

MCHash == a :> 6 @@ b :> 6 @@ c :> 7 @@ Loader :> 15 @@ Globals :> 14
=============================================================================
