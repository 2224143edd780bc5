---------------------------- MODULE MCScriptComp ----------------------------
(***************************************************************************)
(* Small instances of ScriptComp: three scripts in two directories that    *)
(* both have an include "inc", which the installation has as well.         *)
(***************************************************************************)
EXTENDS ScriptComp

CONSTANTS f1, f2, f3, d1, d2, b1, b2, b3, w1, w2

MCDirOf == (f1 :> d1 @@ f2 :> d2 @@ f3 :> d2)

MCStemOf == (f1 :> "a" @@ f2 :> "b" @@ f3 :> "c")

\* d1 lacks "lib", which d2 and the installation have; nobody has "none".
MCIncludes == (f1 :> <<"inc", "lib">> @@ f2 :> <<"inc">> @@ f3 :> <<"none">>)

MCHolds == (d1 :> {"a", "inc"} @@ d2 :> {"a", "b", "c", "inc", "lib"}
            @@ b1 :> {"lib"} @@ b2 :> {"lib", "lang", "inc"} @@ b3 :> {"lib"})

MCBase == <<b1, b2>>
MCLargerBase == <<b1, b2, b3>>

MCSymmetry == Permutations({w1, w2})
=============================================================================
