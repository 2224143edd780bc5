-------------------------- MODULE WeightedLRUProofs --------------------------
(***************************************************************************)
(* Theorems about WeightedLRU, for every set of keys and values and every  *)
(* size of the cache: its two structures and the running total stay in     *)
(* agreement, it is not too heavy, it evicts in the order of use, and its  *)
(* users see a map that only forgets.                                      *)
(***************************************************************************)
EXTENDS WeightedLRU, LruCacheProofs

\* The map a cache stands for.
Contents(c) == [k \in c.map |-> Node(c, k).value]

-----------------------------------------------------------------------------
(* The inductive invariant: the two structures have their types, each      *)
(* leads to the nodes of the other, and the running total is what the list *)
(* weighs.                                                                 *)

Sound(c) ==
  /\ DOMAIN c = {"list", "map", "weight"}
  /\ Shaped(c, Key, Value) /\ Linked(c)
  /\ Exact(c) /\ c.weight \in Nat
  /\ Len(c.list) <= MinSize \/ c.weight <= MaxWeight

Inv == Sound(cache) /\ loading \in Seq(Key) /\ answer \in Value \cup {None}

LEMMA EmptySound == Sound(EmptyCache)
<1>1. EmptyCache.list = <<>> /\ EmptyCache.map = {} /\ EmptyCache.weight = 0
      /\ DOMAIN EmptyCache = {"list", "map", "weight"}
  BY DEF EmptyCache
<1> HIDE DEF EmptyCache
<1>2. Exact(EmptyCache)
  BY <1>1, NothingWeighs DEF Exact
<1>3. Shaped(EmptyCache, Key, Value) /\ Linked(EmptyCache)
  BY <1>1, EmptySeq DEF Shaped, Linked, KeysOf
<1>4. Len(EmptyCache.list) <= MinSize
  BY <1>1, LruAssumption
<1>5. QED
  BY <1>1, <1>2, <1>3, <1>4 DEF Sound

LEMMA TouchedSound ==
  ASSUME NEW c, Sound(c), NEW k \in c.map
  PROVE  Sound(Touched(c, k))
<1>1. Shaped(c, Key, Value) /\ Linked(c) /\ Exact(c) /\ c.weight \in Nat
  BY DEF Sound
<1>2. Shaped(Touched(c, k), Key, Value) /\ Linked(Touched(c, k))
  BY <1>1, TouchedKeeps
<1>3. /\ Exact(Touched(c, k)) /\ Touched(c, k).weight = c.weight
      /\ Len(Touched(c, k).list) = Len(c.list)
  BY <1>1, TouchedWeighs
<1>4. DOMAIN Touched(c, k) = {"list", "map", "weight"}
  BY DEF Touched
<1>5. QED
  BY <1>1, <1>2, <1>3, <1>4 DEF Sound

LEMMA DroppedSound ==
  ASSUME NEW c, Sound(c), NEW k \in c.map
  PROVE  Sound(Dropped(c, k))
<1>1. Shaped(c, Key, Value) /\ Linked(c) /\ Exact(c) /\ c.weight \in Nat
  BY DEF Sound
<1>2. Shaped(Dropped(c, k), Key, Value) /\ Linked(Dropped(c, k))
  BY <1>1, DroppedKeeps
<1>3. /\ Exact(Dropped(c, k)) /\ Dropped(c, k).weight \in Nat
      /\ Dropped(c, k).weight <= c.weight
      /\ Len(Dropped(c, k).list) = Len(c.list) - 1
  BY <1>1, DroppedWeighs
<1>4. DOMAIN Dropped(c, k) = {"list", "map", "weight"}
  BY DEF Dropped
<1>5. Len(c.list) \in Nat
  BY <1>1 DEF Shaped
<1>6. Len(Dropped(c, k).list) <= MinSize \/ Dropped(c, k).weight <= MaxWeight
  BY <1>1, <1>3, <1>5, LruAssumption DEF Sound
<1>7. QED
  BY <1>2, <1>3, <1>4, <1>6 DEF Sound

LEMMA StoredSound ==
  ASSUME NEW c, Sound(c), NEW k \in Key, NEW w \in Nat, NEW v \in Value,
         NEW d \in Stored(c, k, w, v)
  PROVE  Sound(d)
<1>1. Shaped(c, Key, Value) /\ Linked(c) /\ Exact(c)
  BY DEF Sound
<1>2. DOMAIN d = {"list", "map", "weight"} /\ Shaped(d, Key, Value) /\ Linked(d)
  BY <1>1, StoredKeeps
<1>3. Exact(d) /\ d.weight \in Nat /\ (Len(d.list) <= MinSize \/ d.weight <= MaxWeight)
  BY <1>1, StoredWeighs
<1>4. QED
  BY <1>2, <1>3 DEF Sound

LEMMA InitInv == Init => Inv
BY EmptySound, EmptySeq DEF Init, Inv

\* Every step keeps the invariant.
LEMMA StepInv == Inv /\ [Next]_vars => Inv'
<1> SUFFICES ASSUME Inv, [Next]_vars PROVE Inv'
  OBVIOUS
<1>1. Sound(cache) /\ loading \in Seq(Key) /\ answer \in Value \cup {None}
  BY DEF Inv
<1>2. ASSUME Sound(cache'), loading' \in Seq(Key), answer' \in Value \cup {None}
      PROVE  Inv'
  BY <1>2 DEF Inv, Sound, Shaped, Linked, KeysOf, Exact
<1>3. ASSUME NEW k \in Key, Hit(k) PROVE Inv'
  <2>1. k \in cache.map /\ cache' = Touched(cache, k) /\ answer' = Node(cache, k).value
        /\ loading' = loading
    BY <1>3 DEF Hit, HasKey
  <2>2. Sound(cache')
    BY <1>1, <2>1, TouchedSound
  <2>3. Node(cache, k) \in Nodes(Key, Value)
    BY <1>1, <2>1, NodeProperties DEF Sound
  <2>4. answer' \in Value \cup {None}
    BY <2>1, <2>3 DEF Nodes
  <2>5. QED
    BY <1>1, <1>2, <2>1, <2>2, <2>4
<1>4. ASSUME NEW k \in Key, Miss(k) PROVE Inv'
  BY <1>1, <1>2, <1>4 DEF Miss
<1>5. ASSUME NEW k \in Key, Load(k) PROVE Inv'
  <2>1. loading' \in Seq(Key)
    BY <1>1, <1>5 DEF Load
  <2>2. QED
    BY <1>1, <1>2, <1>5, <2>1 DEF Load
<1>6. ASSUME NEW k \in Key, NEW w \in Weight, NEW v \in Value, Put(k, w, v) PROVE Inv'
  <2>1. w \in Nat /\ cache' \in Stored(cache, k, w, v)
    BY <1>6, UseAssumption DEF Put
  <2>2. Sound(cache')
    BY <1>1, <2>1, StoredSound
  <2>3. QED
    BY <1>1, <1>2, <1>6, <2>2 DEF Put
<1>7. ASSUME NEW w \in Weight, NEW v \in Value, Loaded(w, v) PROVE Inv'
  <2>1. /\ w \in Nat /\ Head(loading) \in Key /\ Tail(loading) \in Seq(Key)
        /\ cache' \in Stored(cache, Head(loading), w, v)
    BY <1>1, <1>7, UseAssumption DEF Loaded
  <2>2. Sound(cache')
    BY <1>1, <2>1, StoredSound
  <2>3. QED
    BY <1>2, <1>7, <2>1, <2>2 DEF Loaded
<1>8. ASSUME NEW k \in Key, Del(k) PROVE Inv'
  <2>1. CASE HasKey(cache, k)
    <3>1. k \in cache.map /\ cache' = Dropped(cache, k)
      BY <1>8, <2>1 DEF Del, HasKey
    <3>2. Sound(cache')
      BY <1>1, <3>1, DroppedSound
    <3>3. QED
      BY <1>1, <1>2, <1>8, <3>2 DEF Del
  <2>2. CASE ~HasKey(cache, k)
    BY <1>1, <1>2, <1>8, <2>2 DEF Del
  <2>3. QED
    BY <2>1, <2>2
<1>9. CASE Clear
  BY <1>1, <1>2, <1>9, EmptySound DEF Clear
<1>10. CASE UNCHANGED vars
  BY <1>1, <1>2, <1>10 DEF vars
<1>11. QED
  BY <1>3, <1>4, <1>5, <1>6, <1>7, <1>8, <1>9, <1>10 DEF Next

LEMMA Invariance == Spec => []Inv
<1>1. Init => Inv
  BY InitInv
<1>2. Inv /\ [Next]_vars => Inv'
  BY StepInv
<1>3. QED
  BY <1>1, <1>2, PTL DEF Spec

\* Every variable keeps its type: currentWeight, which each procedure of
\* lru.nim adjusts for itself, never becomes negative (assert in del and []=).
THEOREM TypeCorrect == Spec => []TypeOK
<1>1. Inv => TypeOK
  <2>1. NodeType = Nodes(Key, Value)
    BY DEF NodeType, Nodes
  <2>2. QED
    BY <2>1 DEF Inv, Sound, Shaped, TypeOK
<1>2. QED
  BY <1>1, Invariance, PTL

\* Whatever calls are made, and from whatever closures, the map and the list of
\* lru.nim never come apart, and currentWeight is what the entries weigh, although
\* it is only ever added to and subtracted from.
THEOREM AgreesAlways == Spec => []Agreement
<1>1. Inv => Agreement
  BY DEF Inv, Sound, Exact, Agreement
<1>2. QED
  BY <1>1, Invariance, PTL

\* After every call the cache has at most minSize entries or weighs at most
\* maxWeight: no sequence of calls leaves it heavier than the loop of []= does.
THEOREM BoundedAlways == Spec => []Bounded
<1>1. Inv => Bounded
  BY DEF Inv, Sound, Bounded
<1>2. QED
  BY <1>1, Invariance, PTL

-----------------------------------------------------------------------------
(* The refinement.                                                         *)

LEMMA InitAbstract == Init => Forgetful!Init
<1> SUFFICES ASSUME Init PROVE Forgetful!Init
  OBVIOUS
<1>1. cache.map = {} /\ answer = None
  BY DEF Init, EmptyCache
<1>2. QED
  BY <1>1 DEF Forgetful!Init

LEMMA StepAbstract ==
  Inv /\ [Next]_vars => [Forgetful!Next]_<<Contents(cache), answer>>
<1> SUFFICES ASSUME Inv, [Next]_vars
             PROVE  [Forgetful!Next]_<<Contents(cache), answer>>
  OBVIOUS
<1>1. Shaped(cache, Key, Value) /\ Linked(cache)
  BY DEF Inv, Sound
<1>2. ASSUME NEW k \in Key, Hit(k) PROVE Forgetful!Hit(k)
  <2>1. k \in cache.map /\ cache' = Touched(cache, k) /\ answer' = Node(cache, k).value
    BY <1>2 DEF Hit, HasKey
  <2>2. /\ cache'.map = cache.map
        /\ \A x \in cache.map : Node(cache', x).value = Node(cache, x).value
    BY <1>1, <2>1, TouchedKeeps
  <2>3. [x \in cache'.map |-> Node(cache', x).value] =
          [x \in cache.map |-> Node(cache, x).value]
    BY <2>2
  <2>4. QED
    BY <2>1, <2>3 DEF Forgetful!Hit
<1>3. ASSUME NEW k \in Key, Miss(k) PROVE Forgetful!Miss(k)
  BY <1>3 DEF Miss, HasKey, Forgetful!Miss
<1>4. ASSUME NEW k \in Key, Load(k) PROVE Forgetful!Miss(k)
  BY <1>4 DEF Load, HasKey, Forgetful!Miss
<1>5. ASSUME NEW k \in Key, NEW w \in Nat, NEW v \in Value,
             cache' \in Stored(cache, k, w, v), answer' \in {answer, v}
      PROVE  Forgetful!Store(k, v)
  <2>1. /\ cache'.map \subseteq cache.map \cup {k}
        /\ \A x \in cache'.map : Node(cache', x).value =
                                   IF x = k THEN v ELSE Node(cache, x).value
    BY <1>1, <1>5, StoredKeeps
  <2>2. [x \in cache'.map |-> Node(cache', x).value] =
          [x \in cache'.map |-> IF x = k THEN v
                                ELSE [y \in cache.map |-> Node(cache, y).value][x]]
    BY <2>1
  <2>3. QED
    BY <1>5, <2>1, <2>2 DEF Forgetful!Store
<1>6. ASSUME NEW k \in Key, Del(k) PROVE Forgetful!Delete(k)
  <2>1. CASE HasKey(cache, k)
    <3>1. k \in cache.map /\ cache' = Dropped(cache, k) /\ answer' = answer
      BY <1>6, <2>1 DEF Del, HasKey
    <3>2. /\ cache'.map = cache.map \ {k}
          /\ \A x \in cache.map \ {k} : Node(cache', x).value = Node(cache, x).value
      BY <1>1, <3>1, DroppedKeeps
    <3>3. QED
      BY <3>1, <3>2 DEF Forgetful!Delete
  <2>2. CASE ~HasKey(cache, k)
    <3>1. cache' = cache /\ answer' = answer /\ k \notin cache.map
      BY <1>6, <2>2 DEF Del, HasKey
    <3>2. QED
      BY <3>1 DEF Forgetful!Delete
  <2>3. QED
    BY <2>1, <2>2
<1>7. ASSUME Clear PROVE Forgetful!Clear
  <2>1. cache'.map = {} /\ answer' = answer
    BY <1>7 DEF Clear, EmptyCache
  <2>2. QED
    BY <2>1 DEF Forgetful!Clear
<1>8. ASSUME NEW k \in Key, NEW w \in Weight, NEW v \in Value, Put(k, w, v)
      PROVE  Forgetful!Store(k, v)
  BY <1>5, <1>8, UseAssumption DEF Put
<1>9. ASSUME NEW w \in Weight, NEW v \in Value, Loaded(w, v)
      PROVE  \E k \in Key : Forgetful!Store(k, v)
  <2>1. Head(loading) \in Key /\ w \in Nat
    BY <1>9, UseAssumption DEF Loaded, Inv
  <2>2. cache' \in Stored(cache, Head(loading), w, v) /\ answer' = v
    BY <1>9 DEF Loaded
  <2>3. Forgetful!Store(Head(loading), v)
    BY <1>5, <2>1, <2>2
  <2>4. QED
    BY <2>1, <2>3
<1>10. CASE UNCHANGED vars
  BY <1>10 DEF vars, Contents
<1>11. QED
  BY <1>2, <1>3, <1>4, <1>6, <1>7, <1>8, <1>9, <1>10 DEF Next, Forgetful!Next

\* Every run of the cache is a run of a map that forgets: what a lookup
\* returns is the value last stored for its key.
THEOREM Implements == Spec => IsForgetfulMap
<1>1. Init => Forgetful!Init
  BY InitAbstract
<1>2. Inv /\ [Next]_vars => [Forgetful!Next]_<<[k \in cache.map |-> Node(cache, k).value], answer>>
  BY StepAbstract DEF Contents
<1>3. QED
  BY <1>1, <1>2, Invariance, PTL DEF Spec, IsForgetfulMap, Forgetful!Spec

-----------------------------------------------------------------------------
(* The order of eviction.  The list is in the order of use: this is the    *)
(* invariant, and it needs what each procedure does to that order.         *)

Once(r) == \A i, j \in 1..Len(r) : r[i] = r[j] => i = j

Before(r, x, y) == \E i, j \in 1..Len(r) : i < j /\ r[i] = x /\ r[j] = y

RecencyInv ==
  /\ recency \in Seq(Key) /\ Once(recency)
  /\ \A k \in cache.map : Contains(recency, k)
  /\ \A x, y : Ahead(cache.list, x, y) => Before(recency, x, y)

\* The uses without those of k.
Others(r, k) ==
  IF Contains(r, k) THEN RemoveAt(r, CHOOSE i \in 1..Len(r) : r[i] = k) ELSE r

LEMMA OthersProperties ==
  ASSUME NEW r \in Seq(Key), Once(r), NEW k \in Key
  PROVE  /\ Others(r, k) \in Seq(Key) /\ Once(Others(r, k)) /\ ~Contains(Others(r, k), k)
         /\ \A x : x # k /\ Contains(r, x) => Contains(Others(r, k), x)
         /\ \A x, y : x # k /\ y # k /\ Before(r, x, y) => Before(Others(r, k), x, y)
<1>1. CASE ~Contains(r, k)
  BY <1>1 DEF Others
<1>2. CASE Contains(r, k)
  <2> DEFINE p == CHOOSE i \in 1..Len(r) : r[i] = k
             q == RemoveAt(r, p)
             At(i) == IF i < p THEN i ELSE i - 1
  <2>1. p \in 1..Len(r) /\ r[p] = k
    BY <1>2 DEF Contains
  <2>2. Others(r, k) = q
    BY <1>2 DEF Others
  <2> HIDE DEF p
  <2>10. /\ RemoveAt(r, p) \in Seq(Key) /\ Len(RemoveAt(r, p)) = Len(r) - 1
        /\ \A j \in 1..Len(r)-1 : RemoveAt(r, p)[j] = IF j < p THEN r[j] ELSE r[j+1]
    BY <2>1, RemoveAtProperties
  <2>3. /\ q \in Seq(Key) /\ Len(q) = Len(r) - 1 /\ Len(r) \in Nat
        /\ \A j \in 1..Len(r)-1 : q[j] = IF j < p THEN r[j] ELSE r[j+1]
    BY <2>10
  <2> HIDE DEF q
  <2>4. \A i \in 1..Len(r) : r[i] # k => At(i) \in 1..Len(q) /\ q[At(i)] = r[i]
    <3>1. SUFFICES ASSUME NEW i \in 1..Len(r), r[i] # k
                   PROVE  At(i) \in 1..Len(q) /\ q[At(i)] = r[i]
      OBVIOUS
    <3>2. i < p \/ i > p
      BY <2>1, <2>3, <3>1
    <3>3. CASE i < p
      BY <2>1, <2>3, <3>3
    <3>4. CASE i > p
      <4>1. i - 1 \in 1..Len(r)-1 /\ ~(i - 1 < p) /\ ~(i < p) /\ (i - 1) + 1 = i
        BY <2>1, <2>3, <3>4
      <4>2. QED
        BY <2>3, <4>1
    <3>5. QED
      BY <3>2, <3>3, <3>4
  <2>5. \A i, j \in 1..Len(r) : i < j /\ r[i] # k /\ r[j] # k => At(i) < At(j)
    BY <2>1, <2>3
  <2> HIDE DEF At
  <2>6. Once(q)
    <3>1. SUFFICES ASSUME NEW i \in 1..Len(q), NEW j \in 1..Len(q), q[i] = q[j] PROVE i = j
      BY DEF Once
    <3> DEFINE a == IF i < p THEN i ELSE i + 1
               b == IF j < p THEN j ELSE j + 1
    <3>2. a \in 1..Len(r) /\ b \in 1..Len(r) /\ r[a] = r[b]
      BY <2>1, <2>3, <3>1
    <3>3. a = b
      BY <3>2 DEF Once
    <3>4. QED
      BY <2>1, <2>3, <3>3
  <2>7. ~Contains(q, k)
    <3>1. SUFFICES ASSUME NEW i \in 1..Len(q), q[i] = k PROVE FALSE
      BY DEF Contains
    <3> DEFINE a == IF i < p THEN i ELSE i + 1
    <3>2. a \in 1..Len(r) /\ r[a] = k /\ a # p
      BY <2>1, <2>3, <3>1
    <3>3. QED
      BY <2>1, <3>2 DEF Once
  <2>8. \A x : x # k /\ Contains(r, x) => Contains(q, x)
    BY <2>4 DEF Contains
  <2>9. ASSUME NEW x, NEW y, x # k, y # k, Before(r, x, y) PROVE Before(q, x, y)
    <3>1. PICK i, j \in 1..Len(r) : i < j /\ r[i] = x /\ r[j] = y
      BY <2>9 DEF Before
    <3>2. At(i) < At(j) /\ At(i) \in 1..Len(q) /\ At(j) \in 1..Len(q)
          /\ q[At(i)] = x /\ q[At(j)] = y
      BY <2>4, <2>5, <2>9, <3>1
    <3>3. QED
      BY <3>2 DEF Before
  <2>11. QED
    BY <2>2, <2>3, <2>6, <2>7, <2>8, <2>9
<1>3. QED
  BY <1>1, <1>2

\* A use of k brings it before all others, whose order it keeps.
LEMMA UsedProperties ==
  ASSUME recency \in Seq(Key), Once(recency), NEW k \in Key
  PROVE  /\ Used(k) \in Seq(Key) /\ Once(Used(k)) /\ Contains(Used(k), k)
         /\ \A x : Contains(recency, x) => Contains(Used(k), x)
         /\ \A x : x # k /\ Contains(recency, x) => Before(Used(k), k, x)
         /\ \A x, y : x # k /\ y # k /\ Before(recency, x, y) => Before(Used(k), x, y)
<1> DEFINE q == Others(recency, k)
           t == <<k>> \o q
<1>1. /\ q \in Seq(Key) /\ Once(q) /\ ~Contains(q, k)
      /\ \A x : x # k /\ Contains(recency, x) => Contains(q, x)
      /\ \A x, y : x # k /\ y # k /\ Before(recency, x, y) => Before(q, x, y)
  BY OthersProperties
<1>2. Used(k) = t
  BY DEF Used, Others
<1> HIDE DEF q
<1>3. /\ t \in Seq(Key) /\ Len(t) = Len(q) + 1 /\ Len(q) \in Nat /\ t[1] = k
      /\ \A i \in 1..Len(q) : t[i+1] = q[i]
  BY <1>1
<1> HIDE DEF t
<1>4. \A i \in 1..Len(t) : i = 1 \/ (i - 1 \in 1..Len(q) /\ t[i] = q[i-1])
  <2>1. TAKE i \in 1..Len(t)
  <2>2. i = 1 \/ i - 1 \in 1..Len(q)
    BY <1>3
  <2>3. ASSUME i - 1 \in 1..Len(q) PROVE t[i] = q[i-1]
    <3>1. t[(i-1)+1] = q[i-1]
      BY <1>3, <2>3
    <3>2. QED
      BY <1>3, <3>1
  <2>4. QED
    BY <2>2, <2>3
<1>5. Once(t)
  <2>1. SUFFICES ASSUME NEW i \in 1..Len(t), NEW j \in 1..Len(t), t[i] = t[j] PROVE i = j
    BY DEF Once
  <2>2. CASE i = 1 \/ j = 1
    <3>1. \A l \in 1..Len(q) : q[l] # k
      BY <1>1 DEF Contains
    <3>2. \A l \in 1..Len(t) : l = 1 <=> t[l] = k
      BY <1>3, <1>4, <3>1
    <3>3. QED
      BY <2>1, <2>2, <3>2
  <2>3. CASE i # 1 /\ j # 1
    <3>1. i - 1 \in 1..Len(q) /\ j - 1 \in 1..Len(q) /\ q[i-1] = q[j-1]
      BY <1>4, <2>1, <2>3
    <3>2. i - 1 = j - 1
      BY <1>1, <3>1 DEF Once
    <3>3. QED
      BY <1>3, <3>2
  <2>4. QED
    BY <2>2, <2>3
<1>6. 1 \in 1..Len(t)
  BY <1>3
<1>7. \A i \in 1..Len(q) : i + 1 \in 1..Len(t) /\ 1 < i + 1
  BY <1>3
<1>8. Contains(t, k)
  BY <1>3, <1>6 DEF Contains
<1>9. ASSUME NEW x, x # k, Contains(recency, x) PROVE Contains(t, x) /\ Before(t, k, x)
  <2>1. PICK i \in 1..Len(q) : q[i] = x
    BY <1>1, <1>9 DEF Contains
  <2>2. i + 1 \in 1..Len(t) /\ 1 < i + 1 /\ t[i+1] = x
    BY <1>3, <1>7, <2>1
  <2>3. QED
    BY <1>3, <1>6, <2>2 DEF Contains, Before
<1>10. ASSUME NEW x, NEW y, x # k, y # k, Before(recency, x, y) PROVE Before(t, x, y)
  <2>1. PICK i, j \in 1..Len(q) : i < j /\ q[i] = x /\ q[j] = y
    BY <1>1, <1>10 DEF Before
  <2>2. i + 1 \in 1..Len(t) /\ j + 1 \in 1..Len(t) /\ i + 1 < j + 1 /\ t[i+1] = x /\ t[j+1] = y
    BY <1>3, <1>7, <2>1
  <2>3. QED
    BY <2>2 DEF Before
<1>11. QED
  BY <1>2, <1>3, <1>5, <1>8, <1>9, <1>10

\* A store uses a key that was not there.
LEMMA StoreRecency ==
  ASSUME Inv, RecencyInv, NEW k \in Key, NEW w \in Nat, NEW v \in Value,
         cache' \in Stored(cache, k, w, v),
         recency' = IF HasKey(cache, k) THEN recency ELSE Used(k)
  PROVE  /\ RecencyInv'
         /\ \A gone \in Evicted, kept \in cache'.map : Before(recency', kept, gone)
<1>1. Shaped(cache, Key, Value) /\ Linked(cache)
  BY DEF Inv, Sound
<1>2. /\ recency \in Seq(Key) /\ Once(recency)
      /\ \A x \in cache.map : Contains(recency, x)
      /\ \A x, y : Ahead(cache.list, x, y) => Before(recency, x, y)
  BY DEF RecencyInv
<1>3. cache'.map \subseteq cache.map \cup {k}
  BY <1>1, StoredKeeps
<1>4. ASSUME NEW x, NEW y,
             Ahead(cache'.list, x, y) \/ (x \in cache'.map /\ y \in cache.map \ cache'.map)
      PROVE  Ahead(cache.list, x, y) \/ (k \notin cache.map /\ x = k /\ y \in cache.map)
  BY <1>1, <1>4, StoredOrder
<1>5. \A x, y : Ahead(cache.list, x, y) => x \in cache.map /\ y \in cache.map
  BY <1>1 DEF Ahead, Linked, KeysOf
<1>6. CASE HasKey(cache, k)
  <2>1. recency' = recency /\ k \in cache.map
    BY <1>6 DEF HasKey
  <2>2. \A x \in cache'.map : Contains(recency', x)
    BY <1>2, <1>3, <2>1
  <2>3. \A x, y : Ahead(cache'.list, x, y) => Before(recency', x, y)
    BY <1>2, <1>4, <2>1
  <2>4. \A gone \in Evicted, kept \in cache'.map : Before(recency', kept, gone)
    BY <1>2, <1>4, <2>1 DEF Evicted
  <2>5. recency' \in Seq(Key) /\ Once(recency')
    BY <1>2, <2>1
  <2>6. QED
    BY <2>2, <2>3, <2>4, <2>5 DEF RecencyInv, Once, Before, Contains, Ahead
<1>7. CASE ~HasKey(cache, k)
  <2>1. recency' = Used(k) /\ k \notin cache.map
    BY <1>7 DEF HasKey
  <2>2. /\ Used(k) \in Seq(Key) /\ Once(Used(k)) /\ Contains(Used(k), k)
        /\ \A x : Contains(recency, x) => Contains(Used(k), x)
        /\ \A x : x # k /\ Contains(recency, x) => Before(Used(k), k, x)
        /\ \A x, y : x # k /\ y # k /\ Before(recency, x, y) => Before(Used(k), x, y)
    BY <1>2, UsedProperties
  <2>3. ASSUME NEW x, NEW y,
               Ahead(cache'.list, x, y) \/ (x \in cache'.map /\ y \in cache.map \ cache'.map)
        PROVE  Before(recency', x, y)
    <3>1. Ahead(cache.list, x, y) \/ (x = k /\ y \in cache.map)
      BY <1>4, <2>3
    <3>2. CASE Ahead(cache.list, x, y)
      <4>1. x # k /\ y # k /\ Before(recency, x, y)
        BY <1>2, <1>5, <2>1, <3>2
      <4>2. QED
        BY <2>1, <2>2, <4>1
    <3>3. CASE x = k /\ y \in cache.map
      <4>1. y # k /\ Contains(recency, y)
        BY <1>2, <2>1, <3>3
      <4>2. QED
        BY <2>1, <2>2, <3>3, <4>1
    <3>4. QED
      BY <3>1, <3>2, <3>3
  <2>4. \A x \in cache'.map : Contains(recency', x)
    BY <1>2, <1>3, <2>1, <2>2
  <2>5. \A gone \in Evicted, kept \in cache'.map : Before(recency', kept, gone)
    BY <2>3 DEF Evicted
  <2>6. recency' \in Seq(Key) /\ Once(recency')
    BY <2>1, <2>2
  <2>7. QED
    BY <2>3, <2>4, <2>5, <2>6 DEF RecencyInv, Once, Before, Contains, Ahead
<1>8. QED
  BY <1>6, <1>7

\* Every step keeps the list in the order of use.
LEMMA StepRecency == Inv /\ RecencyInv /\ [Next]_vars => RecencyInv'
<1> SUFFICES ASSUME Inv, RecencyInv, [Next]_vars PROVE RecencyInv'
  OBVIOUS
<1>1. Shaped(cache, Key, Value) /\ Linked(cache)
  BY DEF Inv, Sound
<1>2. /\ recency \in Seq(Key) /\ Once(recency)
      /\ \A x \in cache.map : Contains(recency, x)
      /\ \A x, y : Ahead(cache.list, x, y) => Before(recency, x, y)
  BY DEF RecencyInv
<1>3. \A x, y : Ahead(cache.list, x, y) => x \in cache.map /\ y \in cache.map
  BY <1>1 DEF Ahead, Linked, KeysOf
<1>4. ASSUME recency' \in Seq(Key), Once(recency'),
             \A x \in cache'.map : Contains(recency', x),
             \A x, y : Ahead(cache'.list, x, y) => Before(recency', x, y)
      PROVE  RecencyInv'
  BY <1>4 DEF RecencyInv, Once, Before, Contains, Ahead
<1>5. ASSUME NEW k \in Key, Hit(k) PROVE RecencyInv'
  <2>1. k \in cache.map /\ cache' = Touched(cache, k) /\ recency' = Used(k)
    BY <1>5 DEF Hit, HasKey
  <2>2. /\ Used(k) \in Seq(Key) /\ Once(Used(k)) /\ Contains(Used(k), k)
        /\ \A x : Contains(recency, x) => Contains(Used(k), x)
        /\ \A x : x # k /\ Contains(recency, x) => Before(Used(k), k, x)
        /\ \A x, y : x # k /\ y # k /\ Before(recency, x, y) => Before(Used(k), x, y)
    BY <1>2, UsedProperties
  <2>3. cache'.map = cache.map
    BY <2>1 DEF Touched
  <2>4. ASSUME NEW x, NEW y, Ahead(cache'.list, x, y) PROVE Before(recency', x, y)
    <3>1. Ahead(Touched(cache, k).list, x, y)
      BY <2>1, <2>4
    <3>2. \/ Ahead(cache.list, x, y) /\ x # k /\ y # k
          \/ x = k /\ y \in cache.map \ {k}
      BY <1>1, <2>1, <3>1, TouchedOrder
    <3>3. QED
      BY <1>2, <2>1, <2>2, <3>2
  <2>5. QED
    BY <1>2, <1>4, <2>1, <2>2, <2>3, <2>4
<1>6. ASSUME NEW k \in Key, Miss(k) PROVE RecencyInv'
  BY <1>2, <1>4, <1>6 DEF Miss
<1>7. ASSUME NEW k \in Key, Load(k) PROVE RecencyInv'
  BY <1>2, <1>4, <1>7 DEF Load
<1>8. ASSUME NEW k \in Key, NEW w \in Weight, NEW v \in Value, Put(k, w, v) PROVE RecencyInv'
  BY <1>8, UseAssumption, StoreRecency DEF Put
<1>9. ASSUME NEW w \in Weight, NEW v \in Value, Loaded(w, v) PROVE RecencyInv'
  <2>1. Head(loading) \in Key /\ w \in Nat
    BY <1>9, UseAssumption DEF Loaded, Inv
  <2>2. /\ cache' \in Stored(cache, Head(loading), w, v)
        /\ recency' = IF HasKey(cache, Head(loading)) THEN recency ELSE Used(Head(loading))
    BY <1>9 DEF Loaded
  <2>3. QED
    BY <2>1, <2>2, StoreRecency
<1>10. ASSUME NEW k \in Key, Del(k) PROVE RecencyInv'
  <2>1. CASE HasKey(cache, k)
    <3>1. k \in cache.map /\ cache' = Dropped(cache, k) /\ recency' = recency
      BY <1>10, <2>1 DEF Del, HasKey
    <3>2. cache'.map \subseteq cache.map /\ cache'.list = RemoveAt(cache.list, Position(cache, k))
      BY <3>1 DEF Dropped
    <3>3. \A x, y : Ahead(cache'.list, x, y) => Ahead(cache.list, x, y)
      BY <1>1, <3>1, <3>2, RemovedOrder
    <3>4. QED
      BY <1>2, <1>4, <3>1, <3>2, <3>3
  <2>2. CASE ~HasKey(cache, k)
    BY <1>2, <1>4, <1>10, <2>2 DEF Del
  <2>3. QED
    BY <2>1, <2>2
<1>11. CASE Clear
  <2>1. cache'.map = {} /\ cache'.list = <<>> /\ recency' = recency
    BY <1>11 DEF Clear, EmptyCache
  <2>2. \A x, y : ~Ahead(cache'.list, x, y)
    BY <2>1 DEF Ahead
  <2>3. QED
    BY <1>2, <1>4, <2>1, <2>2
<1>12. CASE UNCHANGED vars
  BY <1>2, <1>4, <1>12 DEF vars
<1>13. QED
  BY <1>5, <1>6, <1>7, <1>8, <1>9, <1>10, <1>11, <1>12 DEF Next

LEMMA RecencyInvariance == Spec => []RecencyInv
<1>1. Init => RecencyInv
  <2> SUFFICES ASSUME Init PROVE RecencyInv
    OBVIOUS
  <2>1. cache.map = {} /\ cache.list = <<>> /\ recency = <<>>
    BY DEF Init, EmptyCache
  <2>2. \A x, y : ~Ahead(cache.list, x, y)
    BY <2>1 DEF Ahead
  <2>3. QED
    BY <2>1, <2>2, EmptySeq DEF RecencyInv, Once
<1>2. Inv /\ RecencyInv /\ [Next]_vars => RecencyInv'
  BY StepRecency
<1>3. QED
  BY <1>1, <1>2, Invariance, PTL DEF Spec

\* The loop of []= chops off tails in the order of use, for caches of every
\* size and through any sequence of calls, those of closures included: what a
\* store keeps was used after everything it evicts.
THEOREM EvictsInOrder == Spec => EvictsLeastRecent
<1>1. ASSUME Inv, RecencyInv
      PROVE  \A k \in Key, w \in Weight, v \in Value :
               Put(k, w, v) =>
                 \A gone \in Evicted, kept \in cache'.map :
                   \E i, j \in 1..Len(recency') : i < j /\ recency'[i] = kept /\ recency'[j] = gone
  <2>1. SUFFICES ASSUME NEW k \in Key, NEW w \in Weight, NEW v \in Value, Put(k, w, v)
                 PROVE  \A gone \in Evicted, kept \in cache'.map : Before(recency', kept, gone)
    BY DEF Before
  <2>2. w \in Nat
    BY UseAssumption
  <2>3. QED
    BY <1>1, <2>1, <2>2, StoreRecency DEF Put
<1>2. QED
  BY <1>1, Invariance, RecencyInvariance, PTL DEF EvictsLeastRecent
=============================================================================
