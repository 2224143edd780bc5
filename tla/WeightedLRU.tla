---------------------------- MODULE WeightedLRU ----------------------------
(***************************************************************************)
(* A WeightedLRU (neverwinter/lru.nim) in use: any sequence of lookups,    *)
(* stores, deletions and getOrPut calls.  The closure whenMissing that     *)
(* getOrPut calls may use the same cache before it returns.                *)
(***************************************************************************)
EXTENDS LruCache

CONSTANTS
  Key, Value,
  Weight,      \* the weights callers give
  None,        \* none(V)
  MaxUses,     \* bound: lookups of one entry
  MaxDepth     \* bound: closures running inside each other

ASSUME UseAssumption ==
  /\ Weight \subseteq Nat
  /\ None \notin Value
  /\ MaxUses \in Nat /\ MaxDepth \in Nat

VARIABLES
  cache,       \* the cache
  loading,     \* keys whose closure is running, the innermost first
  answer,      \* what the last lookup or getOrPut returned
  recency      \* history: all keys, in the order of their last use

vars == <<cache, loading, answer, recency>>

\* Most recent first; a key counts as used when it is found or inserted.
Used(k) ==
  <<k>> \o IF Contains(recency, k)
           THEN RemoveAt(recency, CHOOSE i \in 1..Len(recency) : recency[i] = k)
           ELSE recency

Init ==
  /\ cache = EmptyCache
  /\ loading = <<>>
  /\ answer = None
  /\ recency = <<>>

\* `[]` and the first half of getOrPut.
Hit(k) ==
  /\ HasKey(cache, k)
  /\ Node(cache, k).usecount < MaxUses
  /\ answer' = Node(cache, k).value
  /\ cache' = Touched(cache, k)
  /\ recency' = Used(k)
  /\ UNCHANGED loading

Miss(k) ==
  /\ ~HasKey(cache, k)
  /\ answer' = None
  /\ UNCHANGED <<cache, loading, recency>>

\* getOrPut calls whenMissing ...
Load(k) ==
  /\ ~HasKey(cache, k)
  /\ Len(loading) < MaxDepth
  /\ answer' = None
  /\ loading' = <<k>> \o loading
  /\ UNCHANGED <<cache, recency>>

\* ... which returns: its result is stored, whatever happened meanwhile.
Loaded(w, v) ==
  /\ loading # <<>>
  /\ LET k == Head(loading) IN
       /\ cache' \in Stored(cache, k, w, v)
       /\ recency' = IF HasKey(cache, k) THEN recency ELSE Used(k)
  /\ answer' = v
  /\ loading' = Tail(loading)

Put(k, w, v) ==
  /\ cache' \in Stored(cache, k, w, v)
  /\ recency' = IF HasKey(cache, k) THEN recency ELSE Used(k)
  /\ UNCHANGED <<loading, answer>>

Del(k) ==
  /\ cache' = IF HasKey(cache, k) THEN Dropped(cache, k) ELSE cache
  /\ UNCHANGED <<loading, answer, recency>>

Clear ==
  /\ cache' = EmptyCache
  /\ UNCHANGED <<loading, answer, recency>>

Next ==
  \/ \E k \in Key, w \in Weight, v \in Value : Put(k, w, v)
  \/ \E k \in Key : Hit(k) \/ Miss(k) \/ Load(k) \/ Del(k)
  \/ \E w \in Weight, v \in Value : Loaded(w, v)
  \/ Clear

Spec == Init /\ [][Next]_vars

-----------------------------------------------------------------------------
(* Properties.                                                             *)

NodeType == [key : Key, value : Value, weight : Nat, usecount : Nat]

\* Every variable has its type; lru.nim asserts that currentWeight does not
\* become negative.
TypeOK ==
  /\ DOMAIN cache = {"list", "map", "weight"}
  /\ cache.list \in Seq(NodeType)
  /\ cache.map \subseteq Key
  /\ cache.weight \in Nat
  /\ loading \in Seq(Key)
  /\ answer \in Value \cup {None}

\* The list, the map and the running total stay in agreement through any
\* sequence of calls, those made from inside a closure included: each key has
\* one node, the map leads to every node of the list and to no other, so that
\* nothing evicted or deleted can still be found, and currentWeight is what the
\* entries weigh.
Agreement == Linked(cache) /\ cache.weight = TotalWeight(cache.list)

\* The cache never stays above its weight with more than minSize entries.
Bounded == Len(cache.list) <= MinSize \/ cache.weight <= MaxWeight

Evicted == cache.map \ cache'.map

\* A store evicts in the order of use: what it keeps was used after
\* everything it evicts, except that storing a key anew is no use of it.
EvictsLeastRecent ==
  [][\A k \in Key, w \in Weight, v \in Value :
       Put(k, w, v) =>
         \A gone \in Evicted, kept \in cache'.map :
           \E i, j \in 1..Len(recency') : i < j /\ recency'[i] = kept /\ recency'[j] = gone]_vars

\* Users see a map that forgets, never one that mixes values up.
Forgetful == INSTANCE ForgetfulMap
  WITH held <- [k \in cache.map |-> Node(cache, k).value]

IsForgetfulMap == Forgetful!Spec
=============================================================================
