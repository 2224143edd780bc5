--------------------------- MODULE ContainerList ---------------------------
(***************************************************************************)
(* The list of containers a ResMan (neverwinter/resman.nim) looks through, *)
(* from its first element on.                                              *)
(***************************************************************************)
EXTENDS Integers, SequencesExt

\* add.
AddedLast(cs, c) == Append(cs, c)  \* variant
Added(cs, c) == <<c>> \o cs

\* seq.del: the last element takes the place of the one deleted.
SwappedOut(cs, i) == [cs EXCEPT ![i] = Last(cs)]  \* variant
SwapRemoved(cs, i) == Front([cs EXCEPT ![i] = Last(cs)])

\* del.
NotDeleted(cs, c) == cs  \* variant
Deleted(cs, c) ==
  IF Contains(cs, c) THEN SwapRemoved(cs, CHOOSE i \in DOMAIN cs : cs[i] = c) ELSE cs
=============================================================================
