----------------------------- MODULE ResManProofs -----------------------------
(***************************************************************************)
(* Theorems about ResMan, for any number of names and containers, any size *)
(* of the cache and any changes to the files: what a lookup finds, what it *)
(* cannot miss, and what the cache hides.                                  *)
(***************************************************************************)
EXTENDS ResMan, ContainerListProofs, LruCacheProofs

-----------------------------------------------------------------------------
(* The inductive invariant.                                                *)

\* The types.  A container is in the list once, and the history has the same
\* containers, in the same order as long as none was deleted.
Typed ==
  /\ disk \in [Container -> [Name -> Size \cup {None}]]
  /\ known \in [Container -> SUBSET Name]
  /\ containers \in Seq(Container) /\ IsInjective(containers)
  /\ added \in Seq(Container) /\ IsInjective(added)
  /\ ToSet(containers) = ToSet(added)
  /\ mixed \subseteq {"late", "deleted"}
  /\ "deleted" \notin mixed => containers = added

\* The cache is sound, and empty before the first lookup.
CacheInv ==
  /\ Shaped(cache, Name, Container) /\ Linked(cache)
  /\ outcome \in Ending \cup {None}
  /\ outcome = None => cache.map = {}

\* A walk has left no container behind that lists the name ...
WalkInv ==
  /\ call \in Lookup \cup {None}
  /\ call # None =>
       /\ call.at <= Len(containers) + 1
       /\ call.phase \in {"fetch", "stat"} => call.at <= Len(containers)
       /\ \A i \in 1..call.at-1 : call.name \notin known[containers[i]]

\* ... and as long as no file is removed, it has one before it that does once
\* contains has said so: a directory object has the name, and its file exists.
Has(kn, dk, c, n) == n \in Name /\ n \in kn[c] /\ dk[c][n] # None

Finds(kn, dk, cs, cl) ==
  cl # None /\ cl.calm = TRUE =>
    /\ cl.op = "get" /\ cl.phase = "demand" =>
         \E i \in 1..Len(cs) : i >= cl.at /\ Has(kn, dk, cs[i], cl.name)
    /\ cl.phase \in {"fetch", "stat"} => Has(kn, dk, cs[cl.at], cl.name)

FindInv == Finds(known, disk, containers, call)

Inv == Typed /\ CacheInv /\ WalkInv /\ FindInv /\ GetIsTotal /\ CacheTopmost

-----------------------------------------------------------------------------
(* The lists.                                                              *)

\* Taking an element out of a list that has it once.
LEMMA RemovedOne ==
  ASSUME NEW S, NEW s \in Seq(S), IsInjective(s), NEW i \in 1..Len(s)
  PROVE  /\ RemoveAt(s, i) \in Seq(S) /\ IsInjective(RemoveAt(s, i))
         /\ ToSet(RemoveAt(s, i)) = ToSet(s) \ {s[i]}
<1> DEFINE n == Len(s)
           t == RemoveAt(s, i)
<1>1. n \in Nat /\ i \in 1..n /\ DOMAIN s = 1..n
      /\ \A j, k \in 1..n : s[j] = s[k] => j = k
  BY LenProperties DEF IsInjective
<1>2. /\ t \in Seq(S) /\ Len(t) = n - 1
      /\ \A j \in 1..n-1 : t[j] = IF j < i THEN s[j] ELSE s[j+1]
  BY RemoveAtProperties
<1> HIDE DEF n, t
<1>3. DOMAIN t = 1..n-1
  BY <1>2, LenProperties
<1> DEFINE Old(j) == IF j < i THEN j ELSE j + 1
<1>4. \A j \in 1..n-1 : Old(j) \in 1..n /\ Old(j) # i /\ t[j] = s[Old(j)]
  BY <1>1, <1>2
<1>5. IsInjective(t)
  <2> SUFFICES ASSUME NEW j \in 1..n-1, NEW k \in 1..n-1, t[j] = t[k] PROVE j = k
    BY <1>3 DEF IsInjective
  <2>1. Old(j) = Old(k)
    BY <1>1, <1>4
  <2>2. QED
    BY <1>1, <2>1
<1>6. \A j \in 1..n-1 : t[j] \in ToSet(s) \ {s[i]}
  BY <1>1, <1>4 DEF ToSet
<1>7. ASSUME NEW x \in ToSet(s) \ {s[i]} PROVE \E j \in 1..n-1 : t[j] = x
  <2>1. PICK k \in 1..n : x = s[k]
    BY <1>1 DEF ToSet
  <2>2. k # i
    BY <1>7, <2>1
  <2>3. CASE k < i
    <3>1. k \in 1..n-1 /\ t[k] = s[k]
      BY <1>1, <1>2, <2>3
    <3>2. QED
      BY <2>1, <3>1
  <2>4. CASE k > i
    <3>1. k-1 \in 1..n-1 /\ ~(k-1 < i) /\ (k-1)+1 = k
      BY <1>1, <2>4
    <3>2. t[k-1] = s[k]
      BY <1>2, <3>1
    <3>3. QED
      BY <2>1, <3>1, <3>2
  <2>5. QED
    BY <1>1, <2>2, <2>3, <2>4
<1>8. ToSet(t) = ToSet(s) \ {s[i]}
  BY <1>3, <1>6, <1>7 DEF ToSet
<1>9. QED
  BY <1>2, <1>5, <1>8 DEF t

\* The containers added after one that is in the history are in front of it.
LEMMA NewerInFront ==
  ASSUME Typed, NEW i \in 1..Len(added)
  PROVE  Newer(added[i]) = {added[j] : j \in 1..i-1}
<1>1. Len(added) \in Nat /\ DOMAIN added = 1..Len(added)
      /\ \A j, k \in 1..Len(added) : added[j] = added[k] => j = k
  BY DEF Typed, IsInjective
<1>2. ASSUME NEW d \in Newer(added[i]) PROVE \E j \in 1..i-1 : d = added[j]
  <2>1. PICK j \in 1..Len(added), k \in 1..Len(added) : j < k /\ added[j] = d /\ added[k] = added[i]
    BY <1>1 DEF Newer
  <2>2. k = i /\ j \in 1..i-1
    BY <1>1, <2>1
  <2>3. QED
    BY <2>1, <2>2
<1>3. ASSUME NEW j \in 1..i-1 PROVE added[j] \in Newer(added[i])
  <2>1. j \in 1..Len(added) /\ j < i
    BY <1>1
  <2>2. added[j] \in ToSet(added)
    BY <1>1, <2>1 DEF ToSet
  <2>3. QED
    BY <1>1, <2>1, <2>2 DEF Newer
<1>4. QED
  BY <1>2, <1>3

LEMMA NewerAdded == \A c : Newer(c) \subseteq ToSet(added)
BY DEF Newer

\* A directory object only ever forgets names, and none whose file is there.
LEMMA Forgetting ==
  ASSUME known \in [Container -> SUBSET Name], NEW c \in Container, NEW n \in Name
  PROVE  /\ ForgottenBy(c, n) \in [Container -> SUBSET Name]
         /\ \A d \in Container : ForgottenBy(c, n)[d] \subseteq known[d]
         /\ \A d \in Container : d # c => ForgottenBy(c, n)[d] = known[d]
         /\ There(c, n) => ForgottenBy(c, n) = known
         /\ ~There(c, n) => n \notin ForgottenBy(c, n)[c]
BY DEF ForgottenBy, There

-----------------------------------------------------------------------------
(* Types are kept.                                                         *)

LEMMA TypedInit ==
  ASSUME Init
  PROVE  Typed
<1>1. \A c \in Container : OnDisk(c) \subseteq Name
  BY DEF OnDisk
<1>2. IsInjective(<<>>) /\ <<>> \in Seq(Container)
  BY EmptySeq DEF IsInjective
<1>3. QED
  BY <1>1, <1>2 DEF Init, Typed

LEMMA TypedStep ==
  ASSUME Typed, WalkInv, [Next]_vars
  PROVE  Typed'
<1> USE ResManAssumption
<1>1. /\ disk \in [Container -> [Name -> Size \cup {None}]]
      /\ known \in [Container -> SUBSET Name]
      /\ containers \in Seq(Container) /\ IsInjective(containers)
      /\ added \in Seq(Container) /\ IsInjective(added)
      /\ ToSet(containers) = ToSet(added)
      /\ mixed \subseteq {"late", "deleted"}
      /\ "deleted" \notin mixed => containers = added
  BY DEF Typed
<1>2. \A c \in Container : Contains(containers, c) <=> c \in ToSet(added)
  <2>1. DOMAIN containers = 1..Len(containers)
    BY <1>1
  <2>2. \A c : Contains(containers, c) <=> c \in ToSet(containers)
    BY <2>1 DEF Contains, ToSet
  <2>3. QED
    BY <1>1, <2>2
<1>3. ASSUME known' \in [Container -> SUBSET Name],
             UNCHANGED <<disk, containers, added, mixed>>
      PROVE  Typed'
  BY <1>1, <1>3 DEF Typed
<1>4. ASSUME NEW c \in Container, Open(c) PROVE Typed'
  <2>1. OnDisk(c) \subseteq Name
    BY DEF OnDisk
  <2>2. known' \in [Container -> SUBSET Name]
    BY <1>1, <1>4, <2>1 DEF Open
  <2>3. QED
    BY <1>3, <1>4, <2>2 DEF Open
<1>5. ASSUME NEW c \in Container, Add(c) PROVE Typed'
  <2>1. c \notin ToSet(containers) /\ c \notin ToSet(added)
    BY <1>1, <1>2, <1>5 DEF Add
  <2>2. /\ Added(containers, c) \in Seq(Container) /\ IsInjective(Added(containers, c))
        /\ ToSet(Added(containers, c)) = ToSet(containers) \cup {c}
    BY <1>1, <2>1, AddedOne
  <2>3. /\ Added(added, c) \in Seq(Container) /\ IsInjective(Added(added, c))
        /\ ToSet(Added(added, c)) = ToSet(added) \cup {c}
    BY <1>1, <2>1, AddedOne
  <2>4. containers' = Added(containers, c) /\ added' = Added(added, c)
    BY <1>5 DEF Add, Added
  <2>5. /\ mixed' \subseteq {"late", "deleted"}
        /\ "deleted" \notin mixed' => "deleted" \notin mixed
    BY <1>1, <1>5 DEF Add
  <2>6. disk' = disk /\ known' = known
    BY <1>5 DEF Add
  <2>7. QED
    BY <1>1, <2>2, <2>3, <2>4, <2>5, <2>6 DEF Typed
<1>6. ASSUME NEW c \in Container, Del(c) PROVE Typed'
  <2>1. CASE ~Contains(containers, c)
    <3>1. ~Contains(added, c)
      BY <1>1, <1>2, <2>1 DEF Contains, ToSet
    <3>2. QED
      BY <1>1, <1>6, <2>1, <3>1 DEF Del, Deleted, Typed
  <2>2. CASE Contains(containers, c)
    <3> DEFINE p == CHOOSE i \in 1..Len(added) : added[i] = c
    <3>1. PICK i \in 1..Len(containers) : containers[i] = c
      BY <2>2 DEF Contains
    <3>2. /\ Deleted(containers, c) \in Seq(Container) /\ IsInjective(Deleted(containers, c))
          /\ ToSet(Deleted(containers, c)) = ToSet(containers) \ {c}
      BY <1>1, <3>1, DeletedOne
    <3>3. Contains(added, c)
      BY <1>1, <1>2, <2>2 DEF Contains, ToSet
    <3>4. p \in 1..Len(added) /\ added[p] = c
      BY <3>3 DEF Contains
    <3>5. added' = RemoveAt(added, p) /\ containers' = Deleted(containers, c)
          /\ mixed' = mixed \cup {"deleted"} /\ disk' = disk /\ known' = known
      BY <1>6, <2>2, <3>3 DEF Del
    <3> HIDE DEF p
    <3>6. /\ RemoveAt(added, p) \in Seq(Container) /\ IsInjective(RemoveAt(added, p))
          /\ ToSet(RemoveAt(added, p)) = ToSet(added) \ {added[p]}
      BY <1>1, <3>4, RemovedOne
    <3>7. QED
      BY <1>1, <3>2, <3>4, <3>5, <3>6 DEF Typed
  <2>3. QED
    BY <2>1, <2>2
<1>7. ASSUME NEW op \in {"get", "demand"}, NEW n \in Name, Hit(op, n) PROVE Typed'
  BY <1>1, <1>3, <1>7 DEF Hit
<1>8. ASSUME NEW op \in {"get", "demand"}, NEW n \in Name, NEW u \in BOOLEAN, Ask(op, n, u)
      PROVE  Typed'
  BY <1>1, <1>3, <1>8 DEF Ask
<1>9. ASSUME Probe \/ Fetch PROVE Typed'
  <2>1. known' = ForgottenBy(Here, call.name) /\ UNCHANGED <<disk, containers, added, mixed>>
    BY <1>9 DEF Probe, Fetch
  <2>2. call \in Lookup /\ call.at \in 1..Len(containers)
    BY <1>9 DEF Probe, Fetch, Asking, WalkInv, Lookup
  <2>3. Here \in Container /\ call.name \in Name
    BY <1>1, <2>2 DEF Here, Lookup
  <2>4. known' \in [Container -> SUBSET Name]
    BY <1>1, <2>1, <2>3, Forgetting
  <2>5. QED
    BY <1>3, <2>1, <2>4
<1>10. ASSUME Exhausted \/ Stat PROVE Typed'
  BY <1>1, <1>3, <1>10 DEF Exhausted, Stat
<1>11. ASSUME NEW c \in Container, NEW n \in Name, NEW size \in Size \cup {None},
              Change(c, n, size)
       PROVE  Typed'
  BY <1>1, <1>11 DEF Change, Typed
<1>12. CASE UNCHANGED vars
  BY <1>1, <1>3, <1>12 DEF vars
<1>13. QED
  BY <1>4, <1>5, <1>6, <1>7, <1>8, <1>9, <1>10, <1>11, <1>12 DEF Next

-----------------------------------------------------------------------------
(* The walk and the cache.                                                 *)

\* Where a running lookup is.
LEMMA CallFacts ==
  ASSUME Typed, WalkInv, call # None
  PROVE  /\ call \in Lookup /\ call.name \in Name /\ call.op \in {"get", "demand"}
         /\ call.at \in Nat \ {0} /\ call.at <= Len(containers) + 1
         /\ call.phase \in {"contains", "demand", "fetch", "stat"}
         /\ call.calm \in BOOLEAN /\ call.cached \in BOOLEAN
         /\ call.at <= Len(containers) => call.at \in 1..Len(containers) /\ Here \in Container
<1>1. call \in Lookup /\ call.at <= Len(containers) + 1
  BY DEF WalkInv
<1>2. call.at \in Nat \ {0}
  BY <1>1 DEF Lookup
<1>3. Len(containers) \in Nat /\ \A i \in 1..Len(containers) : containers[i] \in Container
  BY DEF Typed
<1>4. call.at <= Len(containers) => call.at \in 1..Len(containers)
  BY <1>2, <1>3
<1>5. QED
  BY <1>1, <1>2, <1>3, <1>4 DEF Lookup, Here

\* How a lookup ends.
LEMMA EndFacts ==
  ASSUME Typed, WalkInv, call # None, NEW from \in Container \cup {None},
         NEW kind \in {"cached", "found", "none", "raised", "nil", "crash"}, End(kind, from)
  PROVE  /\ outcome' \in Ending /\ outcome' # None /\ call' = None
         /\ outcome'.op = call.op /\ outcome'.name = call.name /\ outcome'.kind = kind
         /\ outcome'.from = from /\ outcome'.calm = call.calm
<1>1. call.name \in Name /\ call.op \in {"get", "demand"} /\ call.calm \in BOOLEAN
  BY CallFacts
<1>2. outcome' = [op |-> call.op, name |-> call.name, kind |-> kind,
                  from |-> from, calm |-> call.calm]
      /\ call' = None
  BY DEF End
<1>3. outcome' \in Ending
  BY <1>1, <1>2 DEF Ending
<1>4. QED
  BY <1>2, <1>3, ResManAssumption

\* What a step of a walk makes of its lookup.
LEMMA ProbeFacts ==
  ASSUME Typed, WalkInv, Probe
  PROVE  /\ call # None /\ call' \in Lookup /\ call' # None /\ outcome' = outcome
         /\ call.phase \in {"contains", "demand"}
         /\ call.at \in 1..Len(containers) /\ Here \in Container /\ call.name \in Name
         /\ call'.op = call.op /\ call'.name = call.name /\ call'.calm = call.calm
         /\ call'.cached = call.cached
         /\ known' = ForgottenBy(Here, call.name)
         /\ \/ ~There(Here, call.name) /\ call'.phase = call.phase /\ call'.at = call.at + 1
            \/ There(Here, call.name) /\ call.phase = "contains"
               /\ call'.phase = "demand" /\ call'.at = 1
            \/ There(Here, call.name) /\ call.phase = "demand"
               /\ call'.phase = "fetch" /\ call'.at = call.at
<1>1. /\ call # None /\ call.phase \in {"contains", "demand"} /\ call.at <= Len(containers)
      /\ known' = ForgottenBy(Here, call.name) /\ outcome' = outcome
      /\ call' = IF ~There(Here, call.name) THEN [call EXCEPT !.at = @ + 1]
                 ELSE IF call.phase = "contains" THEN [call EXCEPT !.phase = "demand", !.at = 1]
                 ELSE [call EXCEPT !.phase = "fetch"]
  BY DEF Probe, Asking
<1>2. /\ call \in Lookup /\ call.name \in Name /\ call.at \in Nat \ {0}
      /\ call.at \in 1..Len(containers) /\ Here \in Container
  BY <1>1, CallFacts
<1>3. CASE ~There(Here, call.name)
  <2>1. call' = [call EXCEPT !.at = @ + 1]
    BY <1>1, <1>3
  <2>2. call' \in Lookup /\ call'.at = call.at + 1 /\ call'.phase = call.phase
        /\ call'.op = call.op /\ call'.name = call.name /\ call'.calm = call.calm
        /\ call'.cached = call.cached
    BY <1>2, <2>1 DEF Lookup
  <2>3. QED
    BY <1>1, <1>2, <1>3, <2>2, ResManAssumption
<1>4. CASE There(Here, call.name) /\ call.phase = "contains"
  <2>1. call' = [call EXCEPT !.phase = "demand", !.at = 1]
    BY <1>1, <1>4
  <2> DEFINE next == [call EXCEPT !.phase = "demand"]
  <2>2. next \in Lookup /\ next.phase = "demand"
        /\ next.op = call.op /\ next.name = call.name /\ next.calm = call.calm
        /\ next.cached = call.cached
    BY <1>2 DEF Lookup
  <2>3. call' = [next EXCEPT !.at = 1]
    BY <2>1
  <2> HIDE DEF next
  <2>4. call' \in Lookup /\ call'.at = 1 /\ call'.phase = next.phase
        /\ call'.op = next.op /\ call'.name = next.name /\ call'.calm = next.calm
        /\ call'.cached = next.cached
    BY <2>2, <2>3 DEF Lookup
  <2>5. QED
    BY <1>1, <1>2, <1>4, <2>2, <2>4, ResManAssumption
<1>5. CASE There(Here, call.name) /\ call.phase = "demand"
  <2>1. call' = [call EXCEPT !.phase = "fetch"]
    BY <1>1, <1>5
  <2>2. call' \in Lookup /\ call'.at = call.at /\ call'.phase = "fetch"
        /\ call'.op = call.op /\ call'.name = call.name /\ call'.calm = call.calm
        /\ call'.cached = call.cached
    BY <1>2, <2>1 DEF Lookup
  <2>3. QED
    BY <1>1, <1>2, <1>5, <2>2, ResManAssumption
<1>6. QED
  BY <1>1, <1>3, <1>4, <1>5

LEMMA FetchFacts ==
  ASSUME Typed, WalkInv, Fetch
  PROVE  /\ call # None /\ call.phase = "fetch"
         /\ call.at \in 1..Len(containers) /\ Here \in Container /\ call.name \in Name
         /\ known' = ForgottenBy(Here, call.name)
         /\ \/ /\ There(Here, call.name) /\ outcome' = outcome
               /\ call' \in Lookup /\ call' # None
               /\ call'.op = call.op /\ call'.name = call.name /\ call'.calm = call.calm
               /\ call'.phase = "stat" /\ call'.at = call.at
            \/ /\ ~There(Here, call.name)
               /\ End("crash", Here) \/ End("nil", Here)
<1>1. call # None /\ call.phase = "fetch" /\ known' = ForgottenBy(Here, call.name)
  BY DEF Fetch, Asking
<1>2. call.at <= Len(containers)
  BY <1>1 DEF WalkInv
<1>3. /\ call \in Lookup /\ call.name \in Name /\ call.at \in Nat \ {0}
      /\ call.at \in 1..Len(containers) /\ Here \in Container /\ call.cached \in BOOLEAN
  BY <1>1, <1>2, CallFacts
<1>4. CASE There(Here, call.name)
  <2>1. call' = [call EXCEPT !.phase = "stat"] /\ outcome' = outcome
    BY <1>4 DEF Fetch
  <2>2. call' \in Lookup /\ call'.at = call.at /\ call'.phase = "stat"
        /\ call'.op = call.op /\ call'.name = call.name /\ call'.calm = call.calm
    BY <1>3, <2>1 DEF Lookup
  <2>3. QED
    BY <1>1, <1>3, <1>4, <2>1, <2>2, ResManAssumption
<1>5. CASE ~There(Here, call.name)
  <2>1. End(IF call.cached THEN "crash" ELSE "nil", Here)
    BY <1>5 DEF Fetch
  <2>2. End("crash", Here) \/ End("nil", Here)
    BY <2>1
  <2>3. QED
    BY <1>1, <1>3, <1>5, <2>2
<1>6. QED
  BY <1>4, <1>5

LEMMA StatFacts ==
  ASSUME Typed, WalkInv, Stat
  PROVE  /\ call # None /\ call.phase = "stat"
         /\ call.at \in 1..Len(containers) /\ Here \in Container /\ call.name \in Name
         /\ known' = known
         /\ \/ disk[Here][call.name] = None /\ End("raised", None) /\ cache' = cache
            \/ /\ disk[Here][call.name] \in Size /\ End("found", Here)
               /\ \/ cache' = cache
                  \/ cache' \in Stored(cache, call.name, disk[Here][call.name], Here)
<1>1. call # None /\ call.phase = "stat" /\ known' = known
  BY DEF Stat, Asking
<1>2. call.at <= Len(containers)
  BY <1>1 DEF WalkInv
<1>3. /\ call \in Lookup /\ call.name \in Name /\ call.at \in Nat \ {0}
      /\ call.at \in 1..Len(containers) /\ Here \in Container
  BY <1>1, <1>2, CallFacts
<1>4. disk[Here][call.name] \in Size \cup {None}
  BY <1>3 DEF Typed
<1>5. CASE disk[Here][call.name] = None
  BY <1>1, <1>3, <1>5 DEF Stat
<1>6. CASE disk[Here][call.name] # None
  <2>1. End("found", Here)
        /\ cache' \in IF call.cached THEN Stored(cache, call.name, disk[Here][call.name], Here)
                      ELSE {cache}
    BY <1>6 DEF Stat
  <2>2. \/ cache' = cache
        \/ cache' \in Stored(cache, call.name, disk[Here][call.name], Here)
    BY <2>1
  <2>3. QED
    BY <1>1, <1>3, <1>4, <1>6, <2>1, <2>2
<1>7. QED
  BY <1>5, <1>6

LEMMA HitFacts ==
  ASSUME CacheInv, NEW op \in {"get", "demand"}, NEW n \in Name, Hit(op, n)
  PROVE  /\ call = None /\ call' = call /\ n \in cache.map /\ cache' = Touched(cache, n)
         /\ known' = known /\ added' = added /\ mixed' = mixed /\ disk' = disk
         /\ outcome' \in Ending /\ outcome' # None /\ outcome'.kind = "cached"
<1>1. /\ call = None /\ call' = call /\ n \in cache.map /\ cache' = Touched(cache, n)
      /\ known' = known /\ added' = added /\ mixed' = mixed /\ disk' = disk
      /\ outcome' = [op |-> op, name |-> n, kind |-> "cached",
                     from |-> Node(cache, n).value, calm |-> TRUE]
  BY DEF Hit, Cached, HasKey
<1>2. Node(cache, n) \in Nodes(Name, Container)
  BY <1>1, NodeProperties DEF CacheInv
<1>3. Node(cache, n).value \in Container
  BY <1>2 DEF Nodes
<1>4. outcome' \in Ending
  BY <1>1, <1>3 DEF Ending
<1>5. QED
  BY <1>1, <1>4, ResManAssumption

LEMMA AskFacts ==
  ASSUME NEW op \in {"get", "demand"}, NEW n \in Name, NEW u \in BOOLEAN, Ask(op, n, u)
  PROVE  /\ call = None /\ call' \in Lookup /\ call'.at = 1
         /\ call'.phase \in {"contains", "demand"} /\ (op = "get" => call'.phase = "contains")
         /\ call'.op = op
         /\ UNCHANGED <<disk, known, containers, cache, outcome, added, mixed>>
<1>1. /\ call = None
      /\ UNCHANGED <<disk, known, containers, cache, outcome, added, mixed>>
  BY DEF Ask
<1> DEFINE phase == IF op = "get" THEN "contains" ELSE "demand"
           usecache == Caching /\ u
<1>2. call' = [op |-> op, name |-> n, cached |-> usecache, calm |-> TRUE,
               phase |-> phase, at |-> 1]
  BY DEF Ask
<1>3. phase \in {"contains", "demand"} /\ (op = "get" => phase = "contains")
  OBVIOUS
<1>4. usecache \in BOOLEAN
  OBVIOUS
<1> HIDE DEF phase, usecache
<1>5. call' \in Lookup
  BY <1>2, <1>3, <1>4 DEF Lookup
<1>6. QED
  BY <1>1, <1>2, <1>3, <1>5

LEMMA ExhaustedFacts ==
  ASSUME Typed, WalkInv, Exhausted
  PROVE  /\ call # None /\ call.at = Len(containers) + 1
         /\ UNCHANGED <<disk, known, containers, cache, added, mixed>>
         /\ \/ call.phase = "contains" /\ End("none", None)
            \/ call.phase = "demand" /\ End("raised", None)
<1>1. /\ call # None /\ call.phase \in {"contains", "demand"} /\ call.at > Len(containers)
      /\ UNCHANGED <<disk, known, containers, cache, added, mixed>>
      /\ End(IF call.phase = "contains" THEN "none" ELSE "raised", None)
  BY DEF Exhausted, Asking
<1>2. call.at \in Nat \ {0} /\ call.at <= Len(containers) + 1 /\ Len(containers) \in Nat
  BY <1>1, CallFacts DEF Typed
<1>3. call.at = Len(containers) + 1
  BY <1>1, <1>2
<1>4. CASE call.phase = "contains"
  BY <1>1, <1>3, <1>4
<1>5. CASE call.phase = "demand"
  BY <1>1, <1>3, <1>5
<1>6. QED
  BY <1>1, <1>4, <1>5

LEMMA ChangeFacts ==
  ASSUME Typed, WalkInv, NEW c \in Container, NEW n \in Name, NEW size \in Size \cup {None},
         Change(c, n, size)
  PROVE  /\ UNCHANGED <<known, containers, cache, outcome, added, mixed>>
         /\ disk' = [disk EXCEPT ![c][n] = size]
         /\ call = None => call' = None
         /\ call # None =>
              /\ call' \in Lookup /\ call' # None
              /\ call'.op = call.op /\ call'.name = call.name /\ call'.phase = call.phase
              /\ call'.at = call.at
              /\ call'.calm = IF size = None THEN FALSE ELSE call.calm
<1>1. /\ UNCHANGED <<known, containers, cache, outcome, added, mixed>>
      /\ disk' = [disk EXCEPT ![c][n] = size]
      /\ call' = IF call # None /\ size = None THEN [call EXCEPT !.calm = FALSE] ELSE call
  BY DEF Change
<1>2. CASE call = None
  BY <1>1, <1>2
<1>3. CASE call # None /\ size # None
  BY <1>1, <1>3, CallFacts
<1>4. CASE call # None /\ size = None
  <2>1. call \in Lookup
    BY <1>4, CallFacts
  <2>2. call' = [call EXCEPT !.calm = FALSE]
    BY <1>1, <1>4
  <2>3. call' \in Lookup /\ call'.calm = FALSE
        /\ call'.op = call.op /\ call'.name = call.name /\ call'.phase = call.phase
        /\ call'.at = call.at
    BY <2>1, <2>2 DEF Lookup
  <2>4. QED
    BY <1>1, <1>4, <2>3, ResManAssumption
<1>5. QED
  BY <1>2, <1>3, <1>4

-----------------------------------------------------------------------------
(* The cache stays sound.                                                  *)

LEMMA CacheStep ==
  ASSUME Typed, WalkInv, CacheInv, [Next]_vars
  PROVE  CacheInv'
<1>1. /\ Shaped(cache, Name, Container) /\ Linked(cache)
      /\ outcome \in Ending \cup {None} /\ (outcome = None => cache.map = {})
  BY DEF CacheInv
<1>2. ASSUME cache' = cache, outcome' = outcome PROVE CacheInv'
  BY <1>1, <1>2 DEF CacheInv, Shaped, Linked, KeysOf
<1>3. ASSUME Shaped(cache', Name, Container), Linked(cache'), outcome' \in Ending, outcome' # None
      PROVE  CacheInv'
  BY <1>3 DEF CacheInv, Shaped, Linked, KeysOf
<1>4. ASSUME cache' = cache, outcome' \in Ending, outcome' # None PROVE CacheInv'
  BY <1>1, <1>3, <1>4
<1>5. ASSUME NEW c \in Container, Open(c) \/ Add(c) \/ Del(c) PROVE CacheInv'
  BY <1>2, <1>5 DEF Open, Add, Del
<1>6. ASSUME NEW op \in {"get", "demand"}, NEW n \in Name, Hit(op, n) PROVE CacheInv'
  <2>1. n \in cache.map /\ cache' = Touched(cache, n) /\ outcome' \in Ending /\ outcome' # None
    BY <1>6, HitFacts
  <2>2. Shaped(cache', Name, Container) /\ Linked(cache')
    BY <1>1, <2>1, TouchedKeeps
  <2>3. QED
    BY <1>3, <2>1, <2>2
<1>7. ASSUME NEW op \in {"get", "demand"}, NEW n \in Name, NEW u \in BOOLEAN, Ask(op, n, u)
      PROVE  CacheInv'
  BY <1>2, <1>7, AskFacts
<1>8. ASSUME Probe PROVE CacheInv'
  BY <1>2, <1>8 DEF Probe
<1>9. ASSUME Exhausted PROVE CacheInv'
  <2>1. End("none", None) \/ End("raised", None)
    BY <1>9, ExhaustedFacts
  <2>2. outcome' \in Ending /\ outcome' # None
    BY <1>9, <2>1, ExhaustedFacts, EndFacts
  <2>3. QED
    BY <1>4, <1>9, <2>2 DEF Exhausted
<1>10. ASSUME Fetch PROVE CacheInv'
  <2>1. cache' = cache
    BY <1>10 DEF Fetch
  <2>2. call # None /\ Here \in Container
        /\ (outcome' = outcome \/ End("crash", Here) \/ End("nil", Here))
    BY <1>10, FetchFacts
  <2>3. CASE outcome' = outcome
    BY <1>2, <2>1, <2>3
  <2>4. CASE End("crash", Here) \/ End("nil", Here)
    <3>1. outcome' \in Ending /\ outcome' # None
      BY <2>2, <2>4, EndFacts
    <3>2. QED
      BY <1>4, <2>1, <3>1
  <2>5. QED
    BY <2>2, <2>3, <2>4
<1>11. ASSUME Stat PROVE CacheInv'
  <2>1. /\ call # None /\ Here \in Container /\ call.name \in Name
        /\ \/ disk[Here][call.name] = None /\ End("raised", None) /\ cache' = cache
           \/ /\ disk[Here][call.name] \in Size /\ End("found", Here)
              /\ \/ cache' = cache
                 \/ cache' \in Stored(cache, call.name, disk[Here][call.name], Here)
    BY <1>11, StatFacts
  <2>2. outcome' \in Ending /\ outcome' # None
    BY <2>1, EndFacts
  <2>3. CASE cache' = cache
    BY <1>4, <2>2, <2>3
  <2>4. CASE disk[Here][call.name] \in Size
             /\ cache' \in Stored(cache, call.name, disk[Here][call.name], Here)
    <3>1. disk[Here][call.name] \in Nat
      BY <2>4, ResManAssumption
    <3>2. Shaped(cache', Name, Container) /\ Linked(cache')
      BY <1>1, <2>1, <2>4, <3>1, StoredKeeps
    <3>3. QED
      BY <1>3, <2>2, <3>2
  <2>5. QED
    BY <2>1, <2>3, <2>4
<1>12. ASSUME NEW c \in Container, NEW n \in Name, NEW size \in Size \cup {None},
              Change(c, n, size)
       PROVE  CacheInv'
  BY <1>2, <1>12 DEF Change
<1>13. CASE UNCHANGED vars
  BY <1>2, <1>13 DEF vars
<1>14. QED
  BY <1>5, <1>6, <1>7, <1>8, <1>9, <1>10, <1>11, <1>12, <1>13 DEF Next

-----------------------------------------------------------------------------
(* The walk.                                                               *)

LEMMA WalkStep ==
  ASSUME Typed, CacheInv, WalkInv, [Next]_vars
  PROVE  WalkInv'
<1>1. /\ known \in [Container -> SUBSET Name] /\ containers \in Seq(Container)
      /\ Len(containers) \in Nat
      /\ \A i \in 1..Len(containers) : containers[i] \in Container
  BY DEF Typed
<1>2. ASSUME call' = None PROVE WalkInv'
  BY <1>2 DEF WalkInv
<1>3. ASSUME call' \in Lookup, call'.at = 1, call'.phase \in {"contains", "demand"},
             containers' = containers
      PROVE  WalkInv'
  <2>1. call'.at <= Len(containers') + 1
    BY <1>1, <1>3
  <2>2. \A i \in 1..call'.at-1 : FALSE
    BY <1>3
  <2>3. QED
    BY <1>3, <2>1, <2>2 DEF WalkInv
\* What was left behind stays so, since names are only forgotten.
<1>4. ASSUME call # None, call' \in Lookup, call'.name = call.name, call'.at = call.at,
             call'.phase \in {"fetch", "stat"} => call.at <= Len(containers),
             containers' = containers, \A d \in Container : known'[d] \subseteq known[d]
      PROVE  WalkInv'
  <2>1. /\ call.at \in Nat \ {0} /\ call.at <= Len(containers) + 1
        /\ \A i \in 1..call.at-1 : call.name \notin known[containers[i]]
    BY <1>4, CallFacts DEF WalkInv
  <2>2. \A i \in 1..call'.at-1 : call'.name \notin known'[containers'[i]]
    <3>1. TAKE i \in 1..call'.at-1
    <3>2. i \in 1..call.at-1 /\ i \in 1..Len(containers)
      BY <1>1, <1>4, <2>1
    <3>3. QED
      BY <1>1, <1>4, <2>1, <3>2
  <2>3. QED
    BY <1>4, <2>1, <2>2 DEF WalkInv
<1>5. ASSUME NEW c \in Container, Open(c) \/ Add(c) \/ Del(c) PROVE WalkInv'
  BY <1>2, <1>5 DEF Open, Add, Del
<1>6. ASSUME NEW op \in {"get", "demand"}, NEW n \in Name, Hit(op, n) PROVE WalkInv'
  BY <1>2, <1>6, HitFacts
<1>7. ASSUME NEW op \in {"get", "demand"}, NEW n \in Name, NEW u \in BOOLEAN, Ask(op, n, u)
      PROVE  WalkInv'
  BY <1>3, <1>7, AskFacts
<1>8. ASSUME Probe PROVE WalkInv'
  <2>1. /\ call # None /\ call' \in Lookup /\ call'.name = call.name
        /\ call.phase \in {"contains", "demand"}
        /\ call.at \in 1..Len(containers) /\ Here \in Container /\ call.name \in Name
        /\ known' = ForgottenBy(Here, call.name) /\ containers' = containers
    BY <1>8, ProbeFacts DEF Probe
  <2>2. /\ \A d \in Container : known'[d] \subseteq known[d]
        /\ ~There(Here, call.name) => call.name \notin known'[Here]
    BY <1>1, <2>1, Forgetting
  <2>3. CASE ~There(Here, call.name) /\ call'.phase = call.phase /\ call'.at = call.at + 1
    <3>1. \A i \in 1..call.at-1 : call.name \notin known[containers[i]]
      BY <2>1 DEF WalkInv
    <3>2. \A i \in 1..call'.at-1 : call'.name \notin known'[containers'[i]]
      <4>1. TAKE i \in 1..call'.at-1
      <4>2. i \in 1..Len(containers) /\ (i = call.at \/ i \in 1..call.at-1)
        BY <1>1, <2>1, <2>3
      <4>3. CASE i = call.at
        BY <2>1, <2>2, <2>3, <4>3 DEF Here
      <4>4. CASE i \in 1..call.at-1
        BY <1>1, <2>1, <2>2, <3>1, <4>2, <4>4
      <4>5. QED
        BY <4>2, <4>3, <4>4
    <3>3. call'.at <= Len(containers') + 1 /\ call'.phase \notin {"fetch", "stat"}
      BY <1>1, <2>1, <2>3
    <3>4. QED
      BY <2>1, <3>2, <3>3 DEF WalkInv
  <2>4. CASE call'.phase = "demand" /\ call'.at = 1
    BY <1>3, <2>1, <2>4
  <2>5. CASE call'.phase = "fetch" /\ call'.at = call.at
    <3>1. call.at <= Len(containers)
      BY <1>1, <2>1
    <3>2. QED
      BY <1>4, <2>1, <2>2, <2>5, <3>1
  <2>6. QED
    BY <1>8, <2>3, <2>4, <2>5, ProbeFacts
<1>9. ASSUME Exhausted PROVE WalkInv'
  BY <1>2, <1>9 DEF Exhausted, End
<1>10. ASSUME Fetch PROVE WalkInv'
  <2>1. /\ call # None /\ call.at \in 1..Len(containers)
        /\ known' = ForgottenBy(Here, call.name) /\ Here \in Container /\ call.name \in Name
        /\ containers' = containers
        /\ \/ /\ call' \in Lookup /\ call'.name = call.name /\ call'.phase = "stat"
              /\ call'.at = call.at
           \/ call' = None
    BY <1>10, FetchFacts DEF Fetch, End
  <2>2. \A d \in Container : known'[d] \subseteq known[d]
    BY <1>1, <2>1, Forgetting
  <2>3. call.at <= Len(containers)
    BY <1>1, <2>1
  <2>4. QED
    BY <1>2, <1>4, <2>1, <2>2, <2>3
<1>11. ASSUME Stat PROVE WalkInv'
  BY <1>2, <1>11, StatFacts DEF End
<1>12. ASSUME NEW c \in Container, NEW n \in Name, NEW size \in Size \cup {None},
              Change(c, n, size)
       PROVE  WalkInv'
  <2>1. CASE call = None
    BY <1>2, <1>12, <2>1, ChangeFacts
  <2>2. CASE call # None
    <3>1. /\ call' \in Lookup /\ call'.name = call.name /\ call'.at = call.at
          /\ call'.phase = call.phase /\ containers' = containers /\ known' = known
      BY <1>12, <2>2, ChangeFacts DEF Change
    <3>2. call'.phase \in {"fetch", "stat"} => call.at <= Len(containers)
      BY <2>2, <3>1 DEF WalkInv
    <3>3. QED
      BY <1>4, <2>2, <3>1, <3>2
  <2>3. QED
    BY <2>1, <2>2
<1>13. CASE UNCHANGED vars
  BY <1>13 DEF vars, WalkInv
<1>14. QED
  BY <1>5, <1>6, <1>7, <1>8, <1>9, <1>10, <1>11, <1>12, <1>13 DEF Next

-----------------------------------------------------------------------------
(* What contains has found is still there for demand.                      *)

LEMMA ThereHas == \A c, n : There(c, n) <=> Has(known, disk, c, n)
BY DEF There, OnDisk, Has

LEMMA FindStep ==
  ASSUME Typed, CacheInv, WalkInv, FindInv, [Next]_vars
  PROVE  FindInv'
<1>1. /\ known \in [Container -> SUBSET Name] /\ containers \in Seq(Container)
      /\ disk \in [Container -> [Name -> Size \cup {None}]]
      /\ Len(containers) \in Nat
      /\ \A i \in 1..Len(containers) : containers[i] \in Container
  BY DEF Typed
<1>2. ASSUME call' = None PROVE FindInv'
  BY <1>2 DEF FindInv, Finds
<1>3. ASSUME NEW c \in Container, Open(c) \/ Add(c) \/ Del(c) PROVE FindInv'
  BY <1>2, <1>3 DEF Open, Add, Del
<1>4. ASSUME NEW op \in {"get", "demand"}, NEW n \in Name, Hit(op, n) PROVE FindInv'
  BY <1>2, <1>4, HitFacts
<1>5. ASSUME NEW op \in {"get", "demand"}, NEW n \in Name, NEW u \in BOOLEAN, Ask(op, n, u)
      PROVE  FindInv'
  BY <1>5, AskFacts DEF FindInv, Finds
<1>6. ASSUME Probe PROVE FindInv'
  <2>1. /\ call # None /\ call'.op = call.op /\ call'.name = call.name
        /\ call'.calm = call.calm /\ call.phase \in {"contains", "demand"}
        /\ call.at \in 1..Len(containers) /\ Here \in Container /\ call.name \in Name
        /\ known' = ForgottenBy(Here, call.name)
        /\ containers' = containers /\ disk' = disk
    BY <1>6, ProbeFacts DEF Probe
  <2>2. CASE ~There(Here, call.name) /\ call'.phase = call.phase /\ call'.at = call.at + 1
    <3>1. SUFFICES ASSUME call.calm = TRUE, call.op = "get", call.phase = "demand"
                   PROVE  \E i \in 1..Len(containers) :
                            i >= call.at + 1 /\ Has(known', disk, containers[i], call.name)
      BY <2>1, <2>2 DEF FindInv, Finds
    <3>2. PICK i \in 1..Len(containers) :
            i >= call.at /\ Has(known, disk, containers[i], call.name)
      BY <2>1, <3>1 DEF FindInv, Finds
    <3>3. containers[i] # Here
      BY <2>2, <3>2, ThereHas
    <3>4. i >= call.at + 1
      BY <2>1, <3>2, <3>3 DEF Here
    <3>5. known'[containers[i]] = known[containers[i]]
      BY <1>1, <2>1, <3>3, Forgetting
    <3>6. QED
      BY <3>2, <3>4, <3>5 DEF Has
  <2>3. CASE There(Here, call.name)
    <3>1. known' = known /\ Has(known', disk', containers'[call.at], call'.name)
      BY <1>1, <2>1, <2>3, Forgetting, ThereHas DEF Here
    <3>2. CASE call'.phase = "demand" /\ call'.at = 1
      <4>1. call.at >= call'.at /\ call.at \in 1..Len(containers')
        BY <1>1, <2>1, <3>2
      <4>2. QED
        BY <3>1, <3>2, <4>1 DEF FindInv, Finds
    <3>3. CASE call'.phase = "fetch" /\ call'.at = call.at
      BY <3>1, <3>3 DEF FindInv, Finds
    <3>4. QED
      BY <1>6, <2>3, <3>2, <3>3, ProbeFacts
  <2>4. QED
    BY <1>6, <2>2, <2>3, ProbeFacts
<1>7. ASSUME Exhausted PROVE FindInv'
  BY <1>2, <1>7 DEF Exhausted, End
<1>8. ASSUME Fetch PROVE FindInv'
  <2>1. CASE There(Here, call.name) /\ call'.name = call.name /\ call'.phase = "stat"
             /\ call'.at = call.at
    <3>1. Here \in Container /\ call.name \in Name /\ known' = ForgottenBy(Here, call.name)
          /\ containers' = containers /\ disk' = disk
      BY <1>8, FetchFacts DEF Fetch
    <3>2. known' = known
      BY <1>1, <2>1, <3>1, Forgetting
    <3>3. Has(known', disk', containers'[call'.at], call'.name)
      BY <2>1, <3>1, <3>2, ThereHas DEF Here
    <3>4. QED
      BY <2>1, <3>3 DEF FindInv, Finds
  <2>2. CASE End("crash", Here) \/ End("nil", Here)
    BY <1>2, <2>2 DEF End
  <2>3. QED
    BY <1>8, <2>1, <2>2, FetchFacts
<1>9. ASSUME Stat PROVE FindInv'
  BY <1>2, <1>9, StatFacts DEF End
<1>10. ASSUME NEW c \in Container, NEW n \in Name, NEW size \in Size \cup {None},
              Change(c, n, size)
       PROVE  FindInv'
  <2>1. CASE call = None
    BY <1>2, <1>10, <2>1, ChangeFacts
  <2>2. CASE call # None
    <3>1. /\ known' = known /\ containers' = containers /\ disk' = [disk EXCEPT ![c][n] = size]
          /\ call'.op = call.op /\ call'.name = call.name /\ call'.phase = call.phase
          /\ call'.at = call.at
          /\ call'.calm = IF size = None THEN FALSE ELSE call.calm
      BY <1>10, <2>2, ChangeFacts
    <3>2. CASE size = None
      BY <3>1, <3>2 DEF FindInv, Finds
    <3>3. CASE size # None
      <4>1. call'.calm = call.calm
        BY <3>1, <3>3
      \* Without a removal, no file goes.
      <4>2. ASSUME NEW d \in Container, NEW m, Has(known, disk, d, m)
            PROVE  Has(known', disk', d, m)
        BY <1>1, <3>1, <3>3, <4>2 DEF Has
      <4>3. call.at <= Len(containers) => call.at \in 1..Len(containers)
        BY <2>2, CallFacts
      <4>4. ASSUME call.calm = TRUE, call.op = "get", call.phase = "demand"
            PROVE  \E i \in 1..Len(containers) :
                     i >= call.at /\ Has(known', disk', containers[i], call.name)
        <5>1. PICK i \in 1..Len(containers) :
                i >= call.at /\ Has(known, disk, containers[i], call.name)
          BY <2>2, <4>4 DEF FindInv, Finds
        <5>2. QED
          BY <1>1, <4>2, <5>1
      <4>5. ASSUME call.calm = TRUE, call.phase \in {"fetch", "stat"}
            PROVE  Has(known', disk', containers[call.at], call.name)
        <5>1. Has(known, disk, containers[call.at], call.name) /\ call.at \in 1..Len(containers)
          BY <2>2, <4>3, <4>5 DEF FindInv, Finds, WalkInv
        <5>2. QED
          BY <1>1, <4>2, <5>1
      <4>6. QED
        BY <3>1, <4>1, <4>4, <4>5 DEF FindInv, Finds
    <3>4. QED
      BY <3>2, <3>3
  <2>3. QED
    BY <2>1, <2>2
<1>11. CASE UNCHANGED vars
  BY <1>11 DEF vars, FindInv
<1>12. QED
  BY <1>3, <1>4, <1>5, <1>6, <1>7, <1>8, <1>9, <1>10, <1>11 DEF Next

\* So [] neither raises nor gets nil for a name that contains said is there.
LEMMA TotalStep ==
  ASSUME Typed, CacheInv, WalkInv, FindInv, GetIsTotal, [Next]_vars
  PROVE  GetIsTotal'
<1>1. ASSUME outcome' = outcome PROVE GetIsTotal'
  BY <1>1 DEF GetIsTotal
<1>2. ASSUME outcome'.kind \in {"found", "cached", "none"} PROVE GetIsTotal'
  BY <1>2 DEF GetIsTotal
<1>3. ASSUME outcome'.op # "get" \/ outcome'.calm # TRUE, outcome' \in Ending PROVE GetIsTotal'
  <2>1. outcome'.calm \in BOOLEAN
    BY <1>3 DEF Ending
  <2>2. QED
    BY <1>3, <2>1 DEF GetIsTotal
<1>4. ASSUME NEW c \in Container, Open(c) \/ Add(c) \/ Del(c) PROVE GetIsTotal'
  BY <1>1, <1>4 DEF Open, Add, Del
<1>5. ASSUME NEW op \in {"get", "demand"}, NEW n \in Name, Hit(op, n) PROVE GetIsTotal'
  BY <1>2, <1>5, HitFacts
<1>6. ASSUME NEW op \in {"get", "demand"}, NEW n \in Name, NEW u \in BOOLEAN, Ask(op, n, u)
      PROVE  GetIsTotal'
  BY <1>1, <1>6, AskFacts
<1>7. ASSUME Probe PROVE GetIsTotal'
  BY <1>1, <1>7 DEF Probe
<1>8. ASSUME Exhausted PROVE GetIsTotal'
  <2>1. /\ call # None /\ call.at = Len(containers) + 1 /\ Len(containers) \in Nat
        /\ \/ call.phase = "contains" /\ End("none", None)
           \/ call.phase = "demand" /\ End("raised", None)
    BY <1>8, ExhaustedFacts DEF Typed
  <2>2. CASE End("none", None)
    BY <1>2, <2>1, <2>2, EndFacts
  <2>3. CASE call.phase = "demand" /\ End("raised", None)
    <3>1. call.op # "get" \/ call.calm # TRUE
      <4>1. ~\E i \in 1..Len(containers) : i >= call.at
        BY <2>1
      <4>2. QED
        BY <2>1, <2>3, <4>1 DEF FindInv, Finds
    <3>2. outcome' \in Ending /\ outcome'.op = call.op /\ outcome'.calm = call.calm
      BY <2>1, <2>3, EndFacts
    <3>3. QED
      BY <1>3, <3>1, <3>2
  <2>4. QED
    BY <2>1, <2>2, <2>3
<1>9. ASSUME Fetch PROVE GetIsTotal'
  <2>1. CASE outcome' = outcome
    BY <1>1, <2>1
  <2>2. CASE ~There(Here, call.name) /\ (End("crash", Here) \/ End("nil", Here))
    <3>1. call # None /\ call.phase = "fetch" /\ Here \in Container
      BY <1>9, FetchFacts
    <3>2. call.calm # TRUE
      BY <2>2, <3>1, ThereHas DEF FindInv, Finds, Here
    <3>3. outcome' \in Ending /\ outcome'.calm = call.calm
      BY <2>2, <3>1, EndFacts
    <3>4. QED
      BY <1>3, <3>2, <3>3
  <2>3. QED
    BY <1>9, <2>1, <2>2, FetchFacts
<1>10. ASSUME Stat PROVE GetIsTotal'
  <2>1. call # None /\ call.phase = "stat" /\ Here \in Container
    BY <1>10, StatFacts
  <2>2. CASE End("found", Here)
    BY <1>2, <2>1, <2>2, EndFacts
  <2>3. CASE disk[Here][call.name] = None /\ End("raised", None)
    <3>1. call.calm # TRUE
      BY <2>1, <2>3 DEF FindInv, Finds, Has, Here
    <3>2. outcome' \in Ending /\ outcome'.calm = call.calm
      BY <2>1, <2>3, EndFacts
    <3>3. QED
      BY <1>3, <3>1, <3>2
  <2>4. QED
    BY <1>10, <2>2, <2>3, StatFacts
<1>11. ASSUME NEW c \in Container, NEW n \in Name, NEW size \in Size \cup {None},
              Change(c, n, size)
       PROVE  GetIsTotal'
  BY <1>1, <1>11 DEF Change
<1>12. CASE UNCHANGED vars
  BY <1>1, <1>12 DEF vars
<1>13. QED
  BY <1>4, <1>5, <1>6, <1>7, <1>8, <1>9, <1>10, <1>11, <1>12 DEF Next

-----------------------------------------------------------------------------
(* What is in front of what was found.                                     *)

\* As long as none was deleted, the containers a walk has behind it are those
\* that were added after the one it is at.
LEMMA NewerHere ==
  ASSUME Typed, WalkInv, call # None, call.at \in 1..Len(containers), "deleted" \notin mixed
  PROVE  \A c \in Newer(Here) : call.name \notin known[c]
<1>1. containers = added
  BY DEF Typed
<1>2. Newer(Here) = {containers[j] : j \in 1..call.at-1}
  BY <1>1, NewerInFront DEF Here
<1>3. QED
  BY <1>2 DEF WalkInv

LEMMA TopStep ==
  ASSUME Typed, CacheInv, WalkInv, CacheTopmost, [Next]_vars
  PROVE  CacheTopmost'
<1> DEFINE From(c, n) == Node(c, n).value
           Fronts(a, x) ==
             {d \in ToSet(a) : \E i, j \in DOMAIN a : i < j /\ a[i] = d /\ a[j] = x}
<1>1. /\ known \in [Container -> SUBSET Name] /\ ToSet(containers) = ToSet(added)
      /\ containers \in Seq(Container) /\ added \in Seq(Container)
      /\ Shaped(cache, Name, Container) /\ Linked(cache)
  BY DEF Typed, CacheInv
<1>2. \A c : Newer(c) = Fronts(added, c)
  BY DEF Newer
<1>3. CacheTopmost' =
        (mixed' = {} => \A n \in cache'.map : \A c \in Fronts(added', From(cache', n)) :
                          n \notin known'[c])
  BY DEF CacheTopmost, Newer, Node, Position
<1>4. mixed = {} => \A n \in cache.map : \A c \in Fronts(added, From(cache, n)) : n \notin known[c]
  BY <1>2 DEF CacheTopmost
<1>5. \A x : Fronts(added, x) \subseteq Container
  BY <1>1 DEF ToSet
<1> HIDE DEF Fronts, From
<1>6. ASSUME mixed' = mixed, added' = added, cache'.map \subseteq cache.map,
             \A n \in cache'.map : From(cache', n) = From(cache, n),
             \A c \in Container : known'[c] \subseteq known[c]
      PROVE  CacheTopmost'
  BY <1>3, <1>4, <1>5, <1>6
<1>7. ASSUME NEW c \in Container, Open(c) PROVE CacheTopmost'
  <2>1. UNCHANGED <<mixed, added, cache>>
    BY <1>7 DEF Open
  <2>2. c \notin ToSet(added)
    <3>1. DOMAIN containers = 1..Len(containers)
      BY <1>1
    <3>2. c \notin ToSet(containers)
      BY <1>7, <3>1 DEF Open, Contains, ToSet
    <3>3. QED
      BY <1>1, <3>2
  <2>3. \A x : c \notin Fronts(added, x)
    BY <2>2 DEF Fronts
  <2>4. \A d \in Container : d # c => known'[d] = known[d]
    BY <1>1, <1>7 DEF Open
  <2>5. QED
    BY <1>3, <1>4, <1>5, <2>1, <2>3, <2>4
<1>8. ASSUME NEW c \in Container, Add(c) PROVE CacheTopmost'
  <2>1. CASE outcome # None
    BY <1>3, <1>8, <2>1 DEF Add
  <2>2. CASE outcome = None
    <3>1. cache'.map = {}
      BY <1>8, <2>2 DEF Add, CacheInv
    <3>2. QED
      BY <1>3, <3>1
  <2>3. QED
    BY <2>1, <2>2
<1>9. ASSUME NEW c \in Container, Del(c) PROVE CacheTopmost'
  <2>1. CASE Contains(containers, c)
    BY <1>3, <1>9, <2>1 DEF Del
  <2>2. CASE ~Contains(containers, c)
    <3>1. ~Contains(added, c)
      <4>1. DOMAIN containers = 1..Len(containers) /\ DOMAIN added = 1..Len(added)
        BY <1>1
      <4>2. QED
        BY <1>1, <2>2, <4>1 DEF Contains, ToSet
    <3>2. UNCHANGED <<mixed, added, cache, known>>
      BY <1>9, <2>2, <3>1 DEF Del
    <3>3. QED
      BY <1>6, <3>2
  <2>3. QED
    BY <2>1, <2>2
<1>10. ASSUME NEW op \in {"get", "demand"}, NEW n \in Name, Hit(op, n) PROVE CacheTopmost'
  <2>1. n \in cache.map /\ cache' = Touched(cache, n)
        /\ UNCHANGED <<mixed, added, known>>
    BY <1>10, HitFacts DEF CacheInv
  <2>2. /\ cache'.map = cache.map
        /\ \A x \in cache.map : Node(cache', x).value = Node(cache, x).value
    BY <1>1, <2>1, TouchedKeeps
  <2>3. QED
    BY <1>6, <2>1, <2>2 DEF From
<1>11. ASSUME NEW op \in {"get", "demand"}, NEW n \in Name, NEW u \in BOOLEAN, Ask(op, n, u)
       PROVE  CacheTopmost'
  BY <1>6, <1>11, AskFacts
<1>12. ASSUME Probe \/ Fetch PROVE CacheTopmost'
  <2>1. Here \in Container /\ call.name \in Name /\ known' = ForgottenBy(Here, call.name)
        /\ UNCHANGED <<mixed, added, cache>>
    BY <1>12, ProbeFacts, FetchFacts DEF Probe, Fetch
  <2>2. \A d \in Container : known'[d] \subseteq known[d]
    BY <1>1, <2>1, Forgetting
  <2>3. QED
    BY <1>6, <2>1, <2>2
<1>13. ASSUME Exhausted PROVE CacheTopmost'
  BY <1>6, <1>13 DEF Exhausted
<1>14. ASSUME Stat PROVE CacheTopmost'
  <2>1. UNCHANGED <<mixed, added, known>>
    BY <1>14 DEF Stat
  <2>2. CASE cache' = cache
    BY <1>6, <2>1, <2>2
  <2>3. CASE disk[Here][call.name] \in Size
             /\ cache' \in Stored(cache, call.name, disk[Here][call.name], Here)
    <3>1. /\ call # None /\ call.at \in 1..Len(containers)
          /\ Here \in Container /\ call.name \in Name /\ disk[Here][call.name] \in Nat
      BY <1>14, <2>3, StatFacts, ResManAssumption
    <3>2. /\ cache'.map \subseteq cache.map \cup {call.name}
          /\ \A x \in cache'.map : Node(cache', x).value =
                                     IF x = call.name THEN Here ELSE Node(cache, x).value
      BY <1>1, <2>3, <3>1, StoredKeeps
    <3>3. mixed = {} => \A c \in Fronts(added, Here) : call.name \notin known[c]
      BY <1>2, <3>1, NewerHere
    <3>4. \A x \in cache'.map : \/ x = call.name /\ From(cache', x) = Here
                                \/ x \in cache.map /\ From(cache', x) = From(cache, x)
      BY <3>2 DEF From
    <3>5. QED
      BY <1>3, <1>4, <2>1, <3>3, <3>4
  <2>4. QED
    BY <1>14, <2>2, <2>3, StatFacts
<1>15. ASSUME NEW c \in Container, NEW n \in Name, NEW size \in Size \cup {None},
              Change(c, n, size)
       PROVE  CacheTopmost'
  BY <1>6, <1>15 DEF Change
<1>16. CASE UNCHANGED vars
  BY <1>6, <1>16 DEF vars
<1>17. QED
  BY <1>7, <1>8, <1>9, <1>10, <1>11, <1>12, <1>13, <1>14, <1>15, <1>16 DEF Next

-----------------------------------------------------------------------------
(* The theorems.                                                           *)

LEMMA InitInv == Init => Inv
<1> SUFFICES ASSUME Init PROVE Inv
  OBVIOUS
<1>1. Typed
  BY TypedInit
<1>2. cache.list = <<>> /\ cache.map = {} /\ cache.weight = 0 /\ call = None /\ outcome = None
  BY DEF Init, EmptyCache
<1>3. Shaped(cache, Name, Container) /\ Linked(cache)
  BY <1>2, EmptySeq DEF Shaped, Linked, KeysOf
<1>4. QED
  BY <1>1, <1>2, <1>3 DEF Inv, CacheInv, WalkInv, FindInv, Finds, GetIsTotal, CacheTopmost

LEMMA Invariance == Spec => []Inv
<1>1. Init => Inv
  BY InitInv
<1>2. Inv /\ [Next]_vars => Inv'
  BY TypedStep, CacheStep, WalkStep, FindStep, TotalStep, TopStep DEF Inv
<1>3. QED
  BY <1>1, <1>2, PTL DEF Spec

\* Every variable of ResMan keeps its type; del and add leave a container in
\* the list once, and the list is what was added and not deleted.
THEOREM TypeCorrect == Spec => []TypeOK
<1>1. Inv => TypeOK
  BY DEF Inv, Typed, CacheInv, WalkInv, Shaped, TypeOK
<1>2. QED
  BY <1>1, Invariance, PTL

\* [] of ResMan, which asks contains and then demand of the same containers
\* again, returns a Res or none if no file is removed while it runs, for any
\* number of containers and whatever their objects still list by then.
THEOREM GetAlwaysTotal == Spec => []GetIsTotal
<1>1. Inv => GetIsTotal
  BY DEF Inv
<1>2. QED
  BY <1>1, Invariance, PTL

\* If all containers are added before the first lookup and none is deleted,
\* what ResMan.demand put into the cache never hides a file of a container
\* that was added later, however the cache evicts and however files change.
THEOREM CacheHidesNothing == Spec => []CacheTopmost
<1>1. Inv => CacheTopmost
  BY DEF Inv
<1>2. QED
  BY <1>1, Invariance, PTL

\* As long as no container was deleted, the loop of ResMan.demand finds a name
\* in the container added last among those that list it, though files come and
\* go while it runs.
THEOREM FindsTopmost == Spec => TopmostFound
<1>1. ASSUME Inv, [Next]_vars
      PROVE  Ends /\ outcome'.kind = "found" /\ "deleted" \notin mixed =>
               \A c \in Newer(outcome'.from) : outcome'.name \notin known'[c]
  <2>1. SUFFICES ASSUME call # None, call' = None, outcome'.kind = "found", "deleted" \notin mixed
                 PROVE  \A c \in Newer(outcome'.from) : outcome'.name \notin known'[c]
    BY DEF Ends
  <2>2. Typed /\ WalkInv /\ CacheInv
    BY <1>1 DEF Inv
  <2>3. CASE Exhausted
    <3>1. outcome'.kind \in {"none", "raised"}
      BY <2>2, <2>3, ExhaustedFacts, EndFacts
    <3>2. QED
      BY <2>1, <3>1
  <2>4. CASE Fetch
    <3>1. outcome'.kind \in {"crash", "nil"}
      BY <2>1, <2>2, <2>4, FetchFacts, EndFacts
    <3>2. QED
      BY <2>1, <3>1
  <2>5. CASE Stat
    <3>1. /\ call.at \in 1..Len(containers) /\ Here \in Container /\ known' = known
          /\ End("raised", None) \/ End("found", Here)
      BY <2>2, <2>5, StatFacts
    <3>2. CASE End("raised", None)
      <4>1. outcome'.kind = "raised"
        BY <2>1, <2>2, <3>2, EndFacts
      <4>2. QED
        BY <2>1, <4>1
    <3>3. CASE End("found", Here)
      <4>1. outcome'.name = call.name /\ outcome'.from = Here
        BY <2>1, <2>2, <3>1, <3>3, EndFacts
      <4>2. QED
        BY <2>1, <2>2, <3>1, <4>1, NewerHere
    <3>4. QED
      BY <3>1, <3>2, <3>3
  <2>6. ASSUME NEW c \in Container, Open(c) \/ Add(c) \/ Del(c) PROVE FALSE
    BY <2>1, <2>6 DEF Open, Add, Del
  <2>7. ASSUME NEW op \in {"get", "demand"}, NEW n \in Name, NEW u \in BOOLEAN,
               Hit(op, n) \/ Ask(op, n, u)
        PROVE  FALSE
    BY <2>1, <2>7 DEF Hit, Ask
  <2>8. ASSUME Probe PROVE FALSE
    BY <2>1, <2>2, <2>8, ProbeFacts
  <2>9. ASSUME NEW c \in Container, NEW n \in Name, NEW size \in Size \cup {None},
               Change(c, n, size)
        PROVE  FALSE
    BY <2>1, <2>2, <2>9, ChangeFacts
  <2>10. CASE UNCHANGED vars
    BY <2>1, <2>10 DEF vars
  <2>11. QED
    BY <1>1, <2>3, <2>4, <2>5, <2>6, <2>7, <2>8, <2>9, <2>10 DEF Next
<1>2. QED
  BY <1>1, Invariance, PTL DEF TopmostFound, Spec

\* contains of ResMan says no only if every container says no: a walk that
\* finds nothing leaves none that lists the name, although each was asked at
\* another time.
THEOREM MissesNothing == Spec => NothingMissed
<1>1. ASSUME Inv, [Next]_vars
      PROVE  Ends /\ outcome'.kind = "none" =>
               \A c \in ToSet(containers) : outcome'.name \notin known'[c]
  <2>1. SUFFICES ASSUME call # None, call' = None, outcome'.kind = "none"
                 PROVE  \A c \in ToSet(containers) : outcome'.name \notin known'[c]
    BY DEF Ends
  <2>2. Typed /\ WalkInv /\ CacheInv
    BY <1>1 DEF Inv
  <2>3. CASE Exhausted
    <3>1. call.at = Len(containers) + 1 /\ known' = known /\ outcome'.name = call.name
      BY <2>2, <2>3, ExhaustedFacts, EndFacts
    <3>2. Len(containers) \in Nat /\ DOMAIN containers = 1..Len(containers)
      BY <2>2 DEF Typed
    <3>3. \A i \in 1..Len(containers) : call.name \notin known[containers[i]]
      BY <2>1, <2>2, <3>1, <3>2 DEF WalkInv
    <3>4. QED
      BY <3>1, <3>2, <3>3 DEF ToSet
  <2>4. CASE Fetch
    <3>1. outcome'.kind \in {"crash", "nil"}
      BY <2>1, <2>2, <2>4, FetchFacts, EndFacts
    <3>2. QED
      BY <2>1, <3>1
  <2>5. CASE Stat
    <3>1. outcome'.kind \in {"raised", "found"}
      BY <2>1, <2>2, <2>5, StatFacts, EndFacts
    <3>2. QED
      BY <2>1, <3>1
  <2>6. ASSUME NEW c \in Container, Open(c) \/ Add(c) \/ Del(c) PROVE FALSE
    BY <2>1, <2>6 DEF Open, Add, Del
  <2>7. ASSUME NEW op \in {"get", "demand"}, NEW n \in Name, NEW u \in BOOLEAN,
               Hit(op, n) \/ Ask(op, n, u)
        PROVE  FALSE
    BY <2>1, <2>7 DEF Hit, Ask
  <2>8. ASSUME Probe PROVE FALSE
    BY <2>1, <2>2, <2>8, ProbeFacts
  <2>9. ASSUME NEW c \in Container, NEW n \in Name, NEW size \in Size \cup {None},
               Change(c, n, size)
        PROVE  FALSE
    BY <2>1, <2>2, <2>9, ChangeFacts
  <2>10. CASE UNCHANGED vars
    BY <2>1, <2>10 DEF vars
  <2>11. QED
    BY <1>1, <2>3, <2>4, <2>5, <2>6, <2>7, <2>8, <2>9, <2>10 DEF Next
<1>2. QED
  BY <1>1, Invariance, PTL DEF NothingMissed, Spec
=============================================================================
