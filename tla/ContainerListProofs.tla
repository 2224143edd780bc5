------------------------- MODULE ContainerListProofs -------------------------
(***************************************************************************)
(* What add and del do to the list of containers, for containers of any    *)
(* kind.                                                                   *)
(***************************************************************************)
EXTENDS ContainerList, SequenceTheorems, TLAPS

LEMMA DeletedType ==
  ASSUME NEW S, NEW cs \in Seq(S), NEW c
  PROVE  Deleted(cs, c) \in Seq(S)
<1>1. CASE ~Contains(cs, c)
  BY <1>1 DEF Deleted
<1>2. CASE Contains(cs, c)
  <2> DEFINE i == CHOOSE i \in DOMAIN cs : cs[i] = c
             ds == [cs EXCEPT ![i] = Last(cs)]
  <2>1. i \in 1..Len(cs) /\ Len(cs) \in Nat
    BY <1>2 DEF Contains
  <2>2. Last(cs) \in S
    BY <2>1 DEF Last
  <2> HIDE DEF i
  <2>3. ds \in Seq(S) /\ Len(ds) = Len(cs)
    BY <2>1, <2>2, ExceptSeq
  <2>4. Front(ds) \in Seq(S)
    BY <2>1, <2>3, SubSeqProperties DEF Front
  <2>5. QED
    BY <1>2, <2>4 DEF Deleted, SwapRemoved, i
<1>3. QED
  BY <1>1, <1>2

\* Deleting from a list that has a container once puts the last in its place.
LEMMA DeletedValues ==
  ASSUME NEW S, NEW cs \in Seq(S), IsInjective(cs), NEW i \in 1..Len(cs)
  PROVE  /\ Deleted(cs, cs[i]) \in Seq(S) /\ Len(Deleted(cs, cs[i])) = Len(cs) - 1
         /\ \A j \in 1..Len(cs)-1 :
              Deleted(cs, cs[i])[j] = IF j = i THEN cs[Len(cs)] ELSE cs[j]
<1> DEFINE n == Len(cs)
           ds == [cs EXCEPT ![i] = Last(cs)]
           es == Deleted(cs, cs[i])
<1>1. n \in Nat /\ i \in 1..n /\ DOMAIN cs = 1..n /\ cs[n] \in S
      /\ \A j, k \in 1..n : cs[j] = cs[k] => j = k
  BY LenProperties DEF IsInjective
<1>2. (CHOOSE j \in DOMAIN cs : cs[j] = cs[i]) = i
  BY <1>1
<1>3. es = Front(ds)
  BY <1>1, <1>2 DEF Deleted, SwapRemoved, Contains
<1>4. Last(cs) = cs[n]
  BY DEF Last
<1>5. /\ ds \in Seq(S) /\ Len(ds) = n
      /\ \A j \in 1..n : ds[j] = IF j = i THEN cs[n] ELSE cs[j]
  BY <1>1, <1>4, ExceptSeq
<1> HIDE DEF ds
<1>6. \A j \in 1..n-1 : ds[j] \in S
  BY <1>1, <1>5
<1>7. /\ es \in Seq(S) /\ Len(es) = IF 1 <= n-1 THEN n-1 ELSE 0
      /\ \A j \in 1..n-1 : es[j] = ds[j]
  BY <1>1, <1>3, <1>5, <1>6, SubSeqProperties DEF Front
<1>8. QED
  BY <1>1, <1>5, <1>7

\* It takes that container out and keeps all others once.
LEMMA DeletedOne ==
  ASSUME NEW S, NEW cs \in Seq(S), IsInjective(cs), NEW i \in 1..Len(cs)
  PROVE  /\ Deleted(cs, cs[i]) \in Seq(S) /\ IsInjective(Deleted(cs, cs[i]))
         /\ ToSet(Deleted(cs, cs[i])) = ToSet(cs) \ {cs[i]}
<1> DEFINE n == Len(cs)
           es == Deleted(cs, cs[i])
<1>1. n \in Nat /\ i \in 1..n /\ DOMAIN cs = 1..n
      /\ \A j, k \in 1..n : cs[j] = cs[k] => j = k
  BY LenProperties DEF IsInjective
<1>2. /\ es \in Seq(S) /\ Len(es) = n - 1
      /\ \A j \in 1..n-1 : es[j] = IF j = i THEN cs[n] ELSE cs[j]
  BY DeletedValues
<1> HIDE DEF n, es
<1>3. DOMAIN es = 1..n-1
  BY <1>2, LenProperties
<1>4. IsInjective(es)
  <2> SUFFICES ASSUME NEW j \in 1..n-1, NEW k \in 1..n-1, es[j] = es[k] PROVE j = k
    BY <1>3 DEF IsInjective
  <2>1. j \in 1..n /\ k \in 1..n /\ n \in 1..n /\ j # n /\ k # n
    BY <1>1
  <2>2. QED
    BY <1>1, <1>2, <2>1
<1>5. \A j \in 1..n-1 : es[j] \in ToSet(cs) \ {cs[i]}
  <2> TAKE j \in 1..n-1
  <2>1. j \in 1..n /\ n \in 1..n /\ j # n
    BY <1>1
  <2>2. CASE j = i
    BY <1>1, <1>2, <2>1, <2>2 DEF ToSet
  <2>3. CASE j # i
    BY <1>1, <1>2, <2>1, <2>3 DEF ToSet
  <2>4. QED
    BY <2>2, <2>3
<1>6. ASSUME NEW c \in ToSet(cs) \ {cs[i]} PROVE \E j \in 1..n-1 : es[j] = c
  <2>1. PICK k \in 1..n : c = cs[k]
    BY <1>1 DEF ToSet
  <2>2. k # i
    BY <1>6, <2>1
  <2>3. CASE k = n
    <3>1. i \in 1..n-1 /\ es[i] = cs[n]
      BY <1>1, <1>2, <2>2, <2>3
    <3>2. QED
      BY <2>1, <2>3, <3>1
  <2>4. CASE k # n
    <3>1. k \in 1..n-1 /\ es[k] = cs[k]
      BY <1>1, <1>2, <2>2, <2>4
    <3>2. QED
      BY <2>1, <3>1
  <2>5. QED
    BY <2>3, <2>4
<1>7. ToSet(es) = ToSet(cs) \ {cs[i]}
  BY <1>3, <1>5, <1>6 DEF ToSet
<1>8. QED
  BY <1>2, <1>4, <1>7 DEF es

\* Adding puts a new container in front.
LEMMA AddedOne ==
  ASSUME NEW S, NEW cs \in Seq(S), IsInjective(cs), NEW c \in S, c \notin ToSet(cs)
  PROVE  /\ Added(cs, c) \in Seq(S) /\ IsInjective(Added(cs, c))
         /\ ToSet(Added(cs, c)) = ToSet(cs) \cup {c}
<1> DEFINE ds == Added(cs, c)
<1>1. /\ ds \in Seq(S) /\ Len(cs) \in Nat /\ Len(ds) = Len(cs) + 1
      /\ ds[1] = c /\ \A i \in 1..Len(cs) : ds[i+1] = cs[i]
      /\ DOMAIN cs = 1..Len(cs) /\ DOMAIN ds = 1..Len(cs)+1
  BY DEF Added
<1> HIDE DEF ds
<1>2. \A i \in 1..Len(cs)+1 : i = 1 \/ (i-1 \in 1..Len(cs) /\ ds[i] = cs[i-1])
  BY <1>1
<1>3. \A i \in 1..Len(cs) : cs[i] # c
  BY <1>1 DEF ToSet
<1>4. IsInjective(ds)
  <2> SUFFICES ASSUME NEW i \in 1..Len(cs)+1, NEW j \in 1..Len(cs)+1, ds[i] = ds[j]
               PROVE  i = j
    BY <1>1 DEF IsInjective
  <2>1. CASE i = 1 \/ j = 1
    BY <1>1, <1>2, <1>3, <2>1
  <2>2. CASE i # 1 /\ j # 1
    <3>1. i-1 \in DOMAIN cs /\ j-1 \in DOMAIN cs /\ cs[i-1] = cs[j-1]
      BY <1>1, <1>2, <2>2
    <3>2. i-1 = j-1
      BY <3>1 DEF IsInjective
    <3>3. QED
      BY <1>1, <3>2
  <2>3. QED
    BY <2>1, <2>2
<1>5. ToSet(ds) = ToSet(cs) \cup {c}
  <2>1. \A i \in 1..Len(cs)+1 : ds[i] \in ToSet(cs) \cup {c}
    BY <1>1, <1>2 DEF ToSet
  <2>2. c \in ToSet(ds)
    <3>1. 1 \in DOMAIN ds
      BY <1>1
    <3>2. QED
      BY <1>1, <3>1 DEF ToSet
  <2>3. ASSUME NEW x \in ToSet(cs) PROVE x \in ToSet(ds)
    <3>1. PICK i \in 1..Len(cs) : x = cs[i]
      BY <1>1 DEF ToSet
    <3>2. i+1 \in DOMAIN ds /\ ds[i+1] = x
      BY <1>1, <3>1
    <3>3. QED
      BY <3>2 DEF ToSet
  <2>4. ToSet(ds) \subseteq ToSet(cs) \cup {c}
    <3>1. ToSet(ds) = {ds[i] : i \in 1..Len(cs)+1}
      BY <1>1 DEF ToSet
    <3>2. QED
      BY <2>1, <3>1
  <2>5. QED
    BY <2>2, <2>3, <2>4
<1>6. QED
  BY <1>1, <1>4, <1>5 DEF ds
==============================================================================
