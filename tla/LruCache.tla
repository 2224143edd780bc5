------------------------------ MODULE LruCache ------------------------------
(***************************************************************************)
(* neverwinter/lru.nim: the two structures of a weighted LRU cache and     *)
(* what each procedure does to them.  A cache is a record                  *)
(*   list    the cachelist, most recently used first; it decides what is   *)
(*           evicted                                                       *)
(*   map     the keys of cachemap, whose values point into the list        *)
(*   weight  currentWeight, a running total                                *)
(***************************************************************************)
EXTENDS Integers, SequencesExt

CONSTANTS
  MaxWeight,   \* newWeightedLRU(maxWeight, ...)
  MinSize      \* newWeightedLRU(..., minSize)

ASSUME LruAssumption == MaxWeight \in Nat \ {0} /\ MinSize \in Nat

EmptyCache == [list |-> <<>>, map |-> {}, weight |-> 0]

HasKey(c, k) == k \in c.map

\* The position of the node the map has for k.
Position(c, k) == CHOOSE i \in 1..Len(c.list) : c.list[i].key = k
Node(c, k) == c.list[Position(c, k)]

\* `[]` on a key that is there: the node moves to the front.
TouchedInPlace(c, k) ==
  [c EXCEPT !.list[Position(c, k)].usecount = @ + 1]  \* variant
Touched(c, k) ==
  [list   |-> <<[Node(c, k) EXCEPT !.usecount = @ + 1]>> \o RemoveAt(c.list, Position(c, k)),
   map    |-> c.map,
   weight |-> c.weight]

\* del on a key that is there.
DroppedUnweighed(c, k) ==
  [c EXCEPT !.list = RemoveAt(@, Position(c, k)), !.map = @ \ {k}]  \* variant
Dropped(c, k) ==
  [list   |-> RemoveAt(c.list, Position(c, k)),
   map    |-> c.map \ {k},
   weight |-> c.weight - Node(c, k).weight]

\* `[]=` on a key that is there keeps the node where it is.
Reweighed(c, k, w, v) ==
  [c EXCEPT !.list[Position(c, k)].weight = w,
            !.weight = @ - Node(c, k).weight + w]  \* variant
OldUnweighed(c, k, w, v) ==
  [c EXCEPT !.list[Position(c, k)] = [@ EXCEPT !.value = v, !.weight = w],
            !.weight = @ - Node(c, k).weight]  \* variant
Updated(c, k, w, v) ==
  [list   |-> [c.list EXCEPT ![Position(c, k)] = [@ EXCEPT !.value = v, !.weight = w]],
   map    |-> c.map,
   weight |-> c.weight - Node(c, k).weight + w]

\* `[]=` on a new key prepends a node.
Inserted(c, k, w, v) ==
  [list   |-> <<[key |-> k, value |-> v, weight |-> w, usecount |-> 0]>> \o c.list,
   map    |-> c.map \cup {k},
   weight |-> c.weight + w]

TotalWeight(nodes) ==
  LET sum[i \in 0..Len(nodes)] == IF i = 0 THEN 0 ELSE sum[i-1] + nodes[i].weight
  IN  sum[Len(nodes)]

\* The cache without all nodes behind the first n.
CutTo(c, n) ==
  LET tail == SubSeq(c.list, n + 1, Len(c.list)) IN
  [list   |-> SubSeq(c.list, 1, n),
   map    |-> c.map \ {tail[i].key : i \in 1..Len(tail)},
   weight |-> c.weight - TotalWeight(tail)]

\* The loop that chops off tails stops at n nodes.
FitsEarly(c, n) == n <= MinSize + 1 \/ CutTo(c, n).weight <= MaxWeight  \* variant
Fits(c, n) == n <= MinSize \/ CutTo(c, n).weight <= MaxWeight

\* The one result of that loop.
Trimmed(c) ==
  {CutTo(c, n) : n \in {m \in 0..Len(c.list) :
                          Fits(c, m) /\ \A l \in m+1..Len(c.list) : ~Fits(c, l)}}

\* `[]=`.
Stored(c, k, w, v) ==
  Trimmed(IF HasKey(c, k) THEN Updated(c, k, w, v) ELSE Inserted(c, k, w, v))

-----------------------------------------------------------------------------
(* What the two structures have to agree on.                               *)

KeysOf(c) == {c.list[i].key : i \in 1..Len(c.list)}

\* Each node of the list is the one the map has for its key.
Linked(c) ==
  /\ KeysOf(c) = c.map
  /\ \A i, j \in 1..Len(c.list) : c.list[i].key = c.list[j].key => i = j
=============================================================================
