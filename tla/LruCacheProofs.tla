--------------------------- MODULE LruCacheProofs ---------------------------
(***************************************************************************)
(* What the procedures of LruCache do to its two structures and to the     *)
(* running total, for nodes with any keys and values.                      *)
(***************************************************************************)
EXTENDS LruCache, SequenceTheorems, FiniteSetTheorems, WellFoundedInduction, TLAPS

-----------------------------------------------------------------------------
(* What nodes weigh.                                                       *)

\* A set of numbers up to n that has 0 and each successor has them all.
LEMMA IntervalInduction ==
  ASSUME NEW n \in Nat, NEW T \in SUBSET (0..n), 0 \in T,
         \A i \in 0..n : i > 0 /\ i - 1 \in T => i \in T
  PROVE  T = 0..n
<1> SUFFICES ASSUME T # 0..n PROVE FALSE
  OBVIOUS
<1> DEFINE R == StrictSubsetOrdering(0..n)
           W == {0..i : i \in (0..n) \ T}
<1>1. IsWellFoundedOn(R, FiniteSubsetsOf(0..n))
  BY FS_StrictSubsetOrderingWellFounded
<1>2. W \subseteq FiniteSubsetsOf(0..n) /\ W # {}
  <2>1. ASSUME NEW i \in 0..n PROVE 0..i \subseteq 0..n /\ IsFiniteSet(0..i)
    BY FS_Interval
  <2>2. QED
    BY <2>1 DEF FiniteSubsetsOf
<1>3. PICK x \in W : \A y \in W : <<y, x>> \notin R
  <2> HIDE DEF R, W
  <2>1. QED
    BY <1>1, <1>2, WFMin
<1>4. PICK i \in (0..n) \ T : x = 0..i
  OBVIOUS
<1>5. i - 1 \in (0..n) \ T
  OBVIOUS
<1>6. 0..(i-1) \in W
  BY <1>5
<1>7. <<0..(i-1), 0..i>> \in R
  <2>1. 0..(i-1) \subseteq 0..i /\ 0..(i-1) # 0..i /\ 0..i \subseteq 0..n
    <3>1. i \in 0..i /\ i \notin 0..(i-1)
      OBVIOUS
    <3>2. QED
      BY <3>1
  <2>2. QED
    BY <2>1 DEF StrictSubsetOrdering
<1>8. QED
  BY <1>3, <1>4, <1>6, <1>7

Weighed(s) == Len(s) \in Nat /\ \A i \in 1..Len(s) : s[i].weight \in Nat

\* The running totals of s from its front.
Totals(f, s) ==
  /\ f \in [0..Len(s) -> Nat] /\ f[0] = 0
  /\ \A i \in 1..Len(s) : f[i] = f[i-1] + s[i].weight

LEMMA TotalsExist ==
  ASSUME NEW s, Weighed(s)
  PROVE  \E f : Totals(f, s)
<1> DEFINE n == Len(s)
           Upto(f, m) == /\ f \in [0..m -> Nat] /\ f[0] = 0
                         /\ \A i \in 1..m : f[i] = f[i-1] + s[i].weight
           T == {m \in 0..n : \E f : Upto(f, m)}
<1>1. n \in Nat /\ \A i \in 1..n : s[i].weight \in Nat
  BY DEF Weighed
<1> HIDE DEF n
<1>2. 0 \in T
  <2>1. Upto([i \in 0..0 |-> 0], 0)
    OBVIOUS
  <2> HIDE DEF Upto
  <2>2. QED
    BY <1>1, <2>1
<1>3. ASSUME NEW m \in 0..n, m > 0, m - 1 \in T PROVE m \in T
  <2>1. PICK f : Upto(f, m-1)
    BY <1>3
  <2> DEFINE g == [i \in 0..m |-> IF i = m THEN f[m-1] + s[m].weight ELSE f[i]]
  <2>2. m \in 1..n /\ m-1 \in 0..m-1 /\ 0 \in 0..m-1 /\ s[m].weight \in Nat
    BY <1>1, <1>3
  <2>3. g \in [0..m -> Nat] /\ g[0] = 0
    BY <1>1, <1>3, <2>1, <2>2
  <2>4. ASSUME NEW i \in 1..m PROVE g[i] = g[i-1] + s[i].weight
    <3>1. i-1 \in 0..m /\ i-1 # m /\ g[i-1] = f[i-1]
      BY <1>1, <1>3
    <3>2. CASE i = m
      BY <1>1, <1>3, <3>1, <3>2
    <3>3. CASE i # m
      <4>1. i \in 1..m-1 /\ g[i] = f[i]
        BY <1>1, <1>3, <3>3
      <4>2. QED
        BY <2>1, <3>1, <4>1
    <3>4. QED
      BY <3>2, <3>3
  <2>5. Upto(g, m)
    BY <2>3, <2>4
  <2>6. QED
    BY <2>5
<1>4. T = 0..n
  <2> HIDE DEF T
  <2>1. T \in SUBSET (0..n)
    BY DEF T
  <2>2. \A m \in 0..n : m > 0 /\ m - 1 \in T => m \in T
    BY <1>3
  <2>3. QED
    BY <1>1, <1>2, <2>1, <2>2, IntervalInduction
<1>5. n \in T
  <2> HIDE DEF T
  <2>1. QED
    BY <1>1, <1>4
<1>6. QED
  BY <1>5 DEF Totals, n

\* The weight of s is their last value.
LEMMA TotalWeightIsLast ==
  ASSUME NEW s, Weighed(s), NEW f, Totals(f, s)
  PROVE  TotalWeight(s) = f[Len(s)] /\ TotalWeight(s) \in Nat
<1> DEFINE n == Len(s)
           Rec(h) == h = [i \in 0..n |-> IF i = 0 THEN 0 ELSE h[i-1] + s[i].weight]
           sum == CHOOSE h : Rec(h)
<1>1. n \in Nat /\ \A i \in 1..n : s[i].weight \in Nat
  BY DEF Weighed
<1>2. /\ f \in [0..n -> Nat] /\ f[0] = 0
      /\ \A i \in 1..n : f[i] = f[i-1] + s[i].weight
  BY DEF Totals
<1>3. TotalWeight(s) = sum[n]
  BY DEF TotalWeight
<1> HIDE DEF n
<1>4. Rec(f)
  <2>1. \A i \in 0..n : i # 0 => i \in 1..n
    BY <1>1
  <2>2. \A i \in 0..n : f[i] = IF i = 0 THEN 0 ELSE f[i-1] + s[i].weight
    BY <1>2, <2>1
  <2>3. QED
    BY <1>2, <2>2
<1>5. Rec(sum)
  <2> HIDE DEF Rec
  <2>1. QED
    BY <1>4
<1>6. sum = f
  <2> HIDE DEF sum
  <2>1. sum = [i \in 0..n |-> IF i = 0 THEN 0 ELSE sum[i-1] + s[i].weight]
    BY <1>5
  <2> DEFINE T == {m \in 0..n : sum[m] = f[m]}
  <2>2. 0 \in T
    BY <1>1, <1>2, <2>1
  <2>3. ASSUME NEW m \in 0..n, m > 0, m - 1 \in T PROVE m \in T
    <3>1. m \in 1..n /\ m # 0 /\ sum[m-1] = f[m-1]
      BY <1>1, <2>3
    <3>2. sum[m] = sum[m-1] + s[m].weight
      BY <2>1, <3>1
    <3>3. QED
      BY <1>2, <3>1, <3>2
  <2>4. T = 0..n
    <3> HIDE DEF T
    <3>1. T \in SUBSET (0..n)
      BY DEF T
    <3>2. QED
      BY <1>1, <2>2, <2>3, <3>1, IntervalInduction
  <2>5. \A m \in 0..n : sum[m] = f[m]
    BY <2>4
  <2>6. sum = [i \in 0..n |-> sum[i]] /\ f = [i \in 0..n |-> f[i]]
    BY <1>2, <2>1
  <2>7. QED
    BY <2>5, <2>6
<1>7. n \in 0..n
  BY <1>1
<1>8. QED
  BY <1>2, <1>3, <1>6, <1>7 DEF n

\* The weights of two sequences add up.
LEMMA ConcatWeighs ==
  ASSUME NEW S, NEW a \in Seq(S), NEW b \in Seq(S), \A x \in S : x.weight \in Nat
  PROVE  /\ TotalWeight(a \o b) = TotalWeight(a) + TotalWeight(b)
         /\ TotalWeight(a) \in Nat /\ TotalWeight(b) \in Nat
<1> DEFINE m == Len(a)
           n == Len(b)
           c == a \o b
<1>1. /\ m \in Nat /\ n \in Nat /\ Len(c) = m + n
      /\ \A i \in 1..m : c[i] = a[i] /\ a[i] \in S
      /\ \A i \in 1..n : c[m+i] = b[i] /\ b[i] \in S
      /\ \A i \in 1..m+n : c[i] \in S
  <2>1. m \in Nat /\ n \in Nat
    OBVIOUS
  <2>2. /\ c \in Seq(S) /\ Len(c) = m + n
        /\ \A i \in 1..m+n : c[i] = IF i <= m THEN a[i] ELSE b[i-m]
    BY ConcatProperties
  <2>3. /\ \A i \in 1..m : a[i] \in S
        /\ \A i \in 1..n : b[i] \in S
        /\ \A i \in 1..m+n : c[i] \in S
    BY <2>2, ElementOfSeq
  <2> HIDE DEF m, n, c
  <2>4. ASSUME NEW i \in 1..m PROVE c[i] = a[i]
    <3>1. i \in 1..m+n /\ i <= m
      BY <2>1
    <3>2. QED
      BY <2>2, <3>1
  <2>5. ASSUME NEW i \in 1..n PROVE c[m+i] = b[i]
    <3>1. m+i \in 1..m+n /\ ~(m+i <= m) /\ (m+i)-m = i
      BY <2>1
    <3>2. QED
      BY <2>2, <3>1
  <2>6. QED
    BY <2>1, <2>2, <2>3, <2>4, <2>5
<1>2. Weighed(a) /\ Weighed(b)
  BY <1>1 DEF Weighed
<1> HIDE DEF c
<1>3. Weighed(c)
  BY <1>1 DEF Weighed
<1>4. PICK f : Totals(f, a)
  BY <1>2, TotalsExist
<1>5. PICK g : Totals(g, b)
  BY <1>2, TotalsExist
<1>6. /\ TotalWeight(a) = f[m] /\ f[m] \in Nat
      /\ TotalWeight(b) = g[n] /\ g[n] \in Nat
  BY <1>2, <1>4, <1>5, TotalWeightIsLast
<1> DEFINE h == [i \in 0..m+n |-> IF i <= m THEN f[i] ELSE f[m] + g[i-m]]
<1>7. /\ f \in [0..m -> Nat] /\ f[0] = 0
      /\ \A i \in 1..m : f[i] = f[i-1] + a[i].weight
      /\ g \in [0..n -> Nat] /\ g[0] = 0
      /\ \A i \in 1..n : g[i] = g[i-1] + b[i].weight
  BY <1>4, <1>5 DEF Totals
<1> HIDE DEF m, n
<1>8. \A i \in 0..n : h[m+i] = f[m] + g[i]
  <2> TAKE i \in 0..n
  <2>1. m+i \in 0..m+n /\ (m+i)-m = i /\ (m+i <= m <=> i = 0)
    BY <1>1
  <2>2. CASE i = 0
    BY <1>1, <1>6, <1>7, <2>1, <2>2
  <2>3. CASE i # 0
    BY <1>1, <1>6, <1>7, <2>1, <2>3
  <2>4. QED
    BY <2>2, <2>3
<1>9. \A i \in 0..m : h[i] = f[i]
  BY <1>1
<1>10. h \in [0..m+n -> Nat]
  <2> SUFFICES ASSUME NEW i \in 0..m+n PROVE (IF i <= m THEN f[i] ELSE f[m] + g[i-m]) \in Nat
    OBVIOUS
  <2>1. i <= m => i \in 0..m
    BY <1>1
  <2>2. ~(i <= m) => i-m \in 0..n
    BY <1>1
  <2>3. CASE i <= m
    BY <1>7, <2>1, <2>3
  <2>4. CASE ~(i <= m)
    <3>1. g[i-m] \in Nat
      BY <1>7, <2>2, <2>4
    <3>2. QED
      BY <1>6, <2>4, <3>1
  <2>5. QED
    BY <2>3, <2>4
<1>11. h[0] = 0
  BY <1>1, <1>7, <1>9
<1>12. ASSUME NEW i \in 1..m+n PROVE h[i] = h[i-1] + c[i].weight
  <2> HIDE DEF h
  <2>1. CASE i <= m
    <3>1. i \in 1..m /\ i \in 0..m /\ i-1 \in 0..m
      BY <1>1, <2>1
    <3>2. QED
      BY <1>1, <1>7, <1>9, <3>1
  <2>2. CASE ~(i <= m)
    <3> DEFINE j == i-m
    <3>1. j \in 1..n /\ j \in 0..n /\ j-1 \in 0..n /\ m+j = i /\ m+(j-1) = i-1
      BY <1>1, <2>2
    <3>2. h[i] = f[m] + g[j] /\ h[i-1] = f[m] + g[j-1]
      BY <1>8, <3>1
    <3>3. c[i] = b[j] /\ g[j] = g[j-1] + b[j].weight
      BY <1>1, <1>7, <3>1
    <3>4. f[m] \in Nat /\ g[j-1] \in Nat /\ b[j].weight \in Nat
      BY <1>1, <1>6, <1>7, <3>1
    <3> HIDE DEF j
    <3>5. QED
      BY <3>2, <3>3, <3>4
  <2>3. QED
    BY <2>1, <2>2
<1>13. Totals(h, c)
  <2> HIDE DEF h
  <2>1. QED
    BY <1>1, <1>10, <1>11, <1>12 DEF Totals
<1>14. TotalWeight(c) = h[m+n]
  <2> HIDE DEF h
  <2>1. QED
    BY <1>1, <1>3, <1>13, TotalWeightIsLast
<1>15. h[m+n] = f[m] + g[n]
  <2> HIDE DEF h
  <2>1. n \in 0..n
    BY <1>1
  <2>2. QED
    BY <1>8, <2>1
<1>16. QED
  BY <1>6, <1>14, <1>15 DEF c

LEMMA SingleWeighs ==
  ASSUME NEW x, x.weight \in Nat
  PROVE  TotalWeight(<<x>>) = x.weight
<1> DEFINE f == [i \in 0..1 |-> IF i = 0 THEN 0 ELSE x.weight]
<1>1. Len(<<x>>) = 1 /\ <<x>>[1] = x
  OBVIOUS
<1>2. Totals(f, <<x>>) /\ Weighed(<<x>>)
  BY <1>1 DEF Totals, Weighed
<1>3. TotalWeight(<<x>>) = f[1]
  BY <1>1, <1>2, TotalWeightIsLast
<1>4. QED
  BY <1>3

LEMMA NothingWeighs ==
  TotalWeight(<<>>) = 0
<1> DEFINE f == [i \in 0..0 |-> 0]
<1>1. Totals(f, <<>>) /\ Weighed(<<>>)
  BY DEF Totals, Weighed
<1>2. TotalWeight(<<>>) = f[0]
  BY <1>1, TotalWeightIsLast
<1>3. QED
  BY <1>2

\* A sequence weighs what its parts weigh.
LEMMA SplitWeighs ==
  ASSUME NEW S, NEW s \in Seq(S), \A x \in S : x.weight \in Nat, NEW n \in 0..Len(s)
  PROVE  LET front == SubSeq(s, 1, n)
             tail == SubSeq(s, n+1, Len(s))
         IN  /\ TotalWeight(s) = TotalWeight(front) + TotalWeight(tail)
             /\ TotalWeight(front) \in Nat /\ TotalWeight(tail) \in Nat
<1> DEFINE front == SubSeq(s, 1, n)
           tail == SubSeq(s, n+1, Len(s))
<1>1. /\ front \in Seq(S) /\ Len(front) = n /\ \A i \in 1..n : front[i] = s[i]
  BY SubSeqProperties
<1>2. /\ tail \in Seq(S) /\ Len(tail) = Len(s) - n
      /\ \A i \in 1..Len(s)-n : tail[i] = s[n+i]
  BY SubSeqProperties
<1> HIDE DEF front, tail
<1>3. /\ front \o tail \in Seq(S) /\ Len(front \o tail) = Len(front) + Len(tail)
      /\ \A i \in 1..Len(front)+Len(tail) :
           (front \o tail)[i] = IF i <= Len(front) THEN front[i] ELSE tail[i-Len(front)]
  BY <1>1, <1>2, ConcatProperties
<1>4. Len(s) \in Nat /\ n \in Nat /\ n <= Len(s)
  OBVIOUS
<1>5. front \o tail = s
  <2> DEFINE c == front \o tail
  <2>1. Len(c) = Len(s) /\ c \in Seq(S)
    BY <1>1, <1>2, <1>3, <1>4
  <2>2. ASSUME NEW i \in 1..Len(s) PROVE s[i] = c[i]
    <3>1. CASE i <= n
      BY <1>1, <1>2, <1>3, <1>4, <3>1
    <3>2. CASE ~(i <= n)
      <4>1. i-n \in 1..Len(s)-n /\ n+(i-n) = i
        BY <1>4, <3>2
      <4>2. tail[i-n] = s[i]
        BY <1>2, <4>1
      <4>3. QED
        BY <1>1, <1>2, <1>3, <1>4, <3>2, <4>2
    <3>3. QED
      BY <3>1, <3>2
  <2> HIDE DEF c
  <2>3. c = s
    BY <2>1, <2>2, SeqEqual
  <2>4. QED
    BY <2>3 DEF c
<1>6. /\ TotalWeight(front \o tail) = TotalWeight(front) + TotalWeight(tail)
      /\ TotalWeight(front) \in Nat /\ TotalWeight(tail) \in Nat
  BY <1>1, <1>2, ConcatWeighs
<1>7. QED
  BY <1>5, <1>6 DEF front, tail

-----------------------------------------------------------------------------
(* Sequences of nodes.                                                     *)

\* What is left when the element at i is removed.
LEMMA RemoveAtProperties ==
  ASSUME NEW S, NEW s \in Seq(S), NEW i \in 1..Len(s)
  PROVE  /\ RemoveAt(s, i) \in Seq(S)
         /\ Len(RemoveAt(s, i)) = Len(s) - 1
         /\ \A j \in 1..Len(s)-1 : RemoveAt(s, i)[j] = IF j < i THEN s[j] ELSE s[j+1]
<1>1. /\ SubSeq(s, 1, i-1) \in Seq(S) /\ Len(SubSeq(s, 1, i-1)) = i-1
      /\ \A j \in 1..i-1 : SubSeq(s, 1, i-1)[j] = s[j]
  BY SubSeqProperties
<1>2. /\ SubSeq(s, i+1, Len(s)) \in Seq(S) /\ Len(SubSeq(s, i+1, Len(s))) = Len(s) - i
      /\ \A j \in 1..Len(s)-i : SubSeq(s, i+1, Len(s))[j] = s[i+j]
  BY SubSeqProperties
<1> DEFINE a == SubSeq(s, 1, i-1)
           b == SubSeq(s, i+1, Len(s))
<1>3. /\ a \o b \in Seq(S) /\ Len(a \o b) = Len(a) + Len(b)
      /\ \A j \in 1..Len(a)+Len(b) : (a \o b)[j] = IF j <= Len(a) THEN a[j] ELSE b[j-Len(a)]
  BY <1>1, <1>2, ConcatProperties
<1>4. Len(s) \in Nat /\ RemoveAt(s, i) = a \o b
  BY DEF RemoveAt
<1> HIDE DEF a, b
<1>5. \A j \in 1..Len(s)-1 : (a \o b)[j] = IF j < i THEN s[j] ELSE s[j+1]
  <2> SUFFICES ASSUME NEW j \in 1..Len(s)-1
               PROVE  (a \o b)[j] = IF j < i THEN s[j] ELSE s[j+1]
    OBVIOUS
  <2>1. Len(a) = i-1 /\ Len(b) = Len(s)-i
    BY <1>1, <1>2 DEF a, b
  <2>2. CASE j < i
    BY <1>1, <1>3, <1>4, <2>1, <2>2 DEF a
  <2>3. CASE ~(j < i)
    <3>1. (a \o b)[j] = b[j-(i-1)] /\ j-(i-1) \in 1..Len(s)-i
      BY <1>3, <1>4, <2>1, <2>3
    <3>2. b[j-(i-1)] = s[i+(j-(i-1))] /\ i+(j-(i-1)) = j+1
      BY <1>2, <1>4, <3>1 DEF b
    <3>3. QED
      BY <2>3, <3>1, <3>2
  <2>4. QED
    BY <2>2, <2>3
<1>6. Len(a) + Len(b) = Len(s) - 1
  <2>1. Len(a) = i-1 /\ Len(b) = Len(s)-i
    BY <1>1, <1>2 DEF a, b
  <2>2. QED
    BY <1>4, <2>1
<1>7. QED
  BY <1>3, <1>4, <1>5, <1>6

\* What a sequence weighs without the element at i, and with another there.
LEMMA AroundWeighs ==
  ASSUME NEW S, NEW s \in Seq(S), \A x \in S : x.weight \in Nat, NEW i \in 1..Len(s),
         NEW t \in Seq(S), Len(t) = Len(s), \A j \in 1..Len(s) : j # i => t[j] = s[j]
  PROVE  /\ TotalWeight(t) = TotalWeight(RemoveAt(s, i)) + t[i].weight
         /\ TotalWeight(RemoveAt(s, i)) \in Nat
<1> DEFINE a == SubSeq(s, 1, i-1)
           b == SubSeq(s, i+1, Len(s))
           x == t[i]
           ax == a \o <<x>>
           c == ax \o b
<1>1. /\ a \in Seq(S) /\ Len(a) = i-1 /\ \A j \in 1..i-1 : a[j] = s[j]
  BY SubSeqProperties
<1>2. /\ b \in Seq(S) /\ Len(b) = Len(s)-i /\ \A j \in 1..Len(s)-i : b[j] = s[i+j]
  BY SubSeqProperties
<1>3. Len(s) \in Nat /\ i \in Nat /\ 1 <= i /\ i <= Len(s) /\ x \in S /\ <<x>> \in Seq(S)
  BY ElementOfSeq
<1>4. RemoveAt(s, i) = a \o b
  BY DEF RemoveAt
<1> HIDE DEF a, b, x
<1>5. /\ ax \in Seq(S) /\ Len(ax) = i
      /\ \A j \in 1..i-1 : ax[j] = a[j]
      /\ ax[i] = x
  <2>1. Len(<<x>>) = 1 /\ <<x>>[1] = x
    OBVIOUS
  <2>2. /\ ax \in Seq(S) /\ Len(ax) = Len(a) + Len(<<x>>)
        /\ \A j \in 1..Len(a)+Len(<<x>>) :
             ax[j] = IF j <= Len(a) THEN a[j] ELSE <<x>>[j-Len(a)]
    BY <1>1, <1>3, ConcatProperties
  <2> HIDE DEF ax
  <2>3. Len(a) = i-1 /\ Len(ax) = i
    BY <1>1, <1>3, <2>1, <2>2
  <2>4. \A j \in 1..i-1 : ax[j] = a[j]
    BY <1>3, <2>1, <2>2, <2>3
  <2>5. ax[i] = x
    BY <1>3, <2>1, <2>2, <2>3
  <2>6. QED
    BY <2>2, <2>3, <2>4, <2>5
<1> HIDE DEF ax
<1>6. /\ c \in Seq(S) /\ Len(c) = Len(s)
      /\ \A j \in 1..i : c[j] = ax[j]
      /\ \A j \in i+1..Len(s) : c[j] = b[j-i]
  BY <1>2, <1>3, <1>5
<1> HIDE DEF c
<1>7. c = t
  <2> SUFFICES ASSUME NEW j \in 1..Len(c) PROVE c[j] = t[j]
    BY <1>6, SeqEqual
  <2>1. CASE j < i
    <3>1. j \in 1..i-1 /\ j \in 1..i /\ j \in 1..Len(s) /\ j # i
      BY <1>3, <1>6, <2>1
    <3>2. QED
      BY <1>1, <1>5, <1>6, <3>1
  <2>2. CASE j = i
    BY <1>3, <1>5, <1>6, <2>2 DEF x
  <2>3. CASE j > i
    <3>1. j \in i+1..Len(s) /\ j-i \in 1..Len(s)-i /\ i+(j-i) = j /\ j # i
      BY <1>3, <1>6, <2>3
    <3>2. QED
      BY <1>2, <1>6, <3>1
  <2>4. QED
    BY <1>3, <2>1, <2>2, <2>3
<1>8. /\ TotalWeight(ax) = TotalWeight(a) + x.weight
      /\ TotalWeight(a) \in Nat /\ x.weight \in Nat
  BY <1>1, <1>3, ConcatWeighs, SingleWeighs DEF ax
<1>9. TotalWeight(c) = TotalWeight(ax) + TotalWeight(b) /\ TotalWeight(b) \in Nat
  BY <1>2, <1>5, ConcatWeighs DEF c
<1>10. TotalWeight(a \o b) = TotalWeight(a) + TotalWeight(b)
  BY <1>1, <1>2, ConcatWeighs
<1>11. QED
  BY <1>4, <1>7, <1>8, <1>9, <1>10 DEF x

-----------------------------------------------------------------------------
(* Well-formed caches, and what they answer.                               *)

Nodes(K, V) == [key : K, value : V, weight : Nat, usecount : Nat]

Shaped(c, K, V) == c.list \in Seq(Nodes(K, V)) /\ c.map \subseteq K

\* In a linked cache every node is found under its key.
LEMMA NodeProperties ==
  ASSUME NEW K, NEW V, NEW c, Shaped(c, K, V), Linked(c)
  PROVE  /\ \A k \in c.map : /\ Position(c, k) \in 1..Len(c.list)
                             /\ c.list[Position(c, k)].key = k
                             /\ Node(c, k) \in Nodes(K, V)
         /\ \A i \in 1..Len(c.list) : /\ c.list[i] \in Nodes(K, V)
                                      /\ c.list[i].key \in c.map
                                      /\ Node(c, c.list[i].key) = c.list[i]
<1>1. ASSUME NEW k \in c.map
      PROVE  Position(c, k) \in 1..Len(c.list) /\ c.list[Position(c, k)].key = k
  BY DEF Linked, KeysOf, Position
<1>2. \A i \in 1..Len(c.list) : c.list[i] \in Nodes(K, V) /\ c.list[i].key \in c.map
  BY ElementOfSeq DEF Shaped, Linked, KeysOf
<1>3. ASSUME NEW i \in 1..Len(c.list) PROVE Node(c, c.list[i].key) = c.list[i]
  BY <1>1, <1>2 DEF Linked, Node
<1>4. QED
  BY <1>1, <1>2, <1>3 DEF Node

\* A cache whose nodes have the keys and values of another's nodes answers the
\* same for its keys.
LEMMA SameAnswers ==
  ASSUME NEW K, NEW V, NEW c, NEW d, Shaped(c, K, V), Linked(c), Shaped(d, K, V), Linked(d),
         \A j \in 1..Len(d.list) : \E i \in 1..Len(c.list) :
           c.list[i].key = d.list[j].key /\ c.list[i].value = d.list[j].value
  PROVE  \A k \in d.map : k \in c.map /\ Node(d, k).value = Node(c, k).value
<1> TAKE k \in d.map
<1>1. /\ \A i \in 1..Len(c.list) : c.list[i].key \in c.map /\ Node(c, c.list[i].key) = c.list[i]
      /\ \A i \in 1..Len(d.list) : Node(d, d.list[i].key) = d.list[i]
  BY NodeProperties
<1>2. PICK j \in 1..Len(d.list) : d.list[j].key = k
  BY NodeProperties
<1>3. PICK i \in 1..Len(c.list) : c.list[i].key = k /\ c.list[i].value = d.list[j].value
  BY <1>2
<1>4. Node(c, k) = c.list[i] /\ k \in c.map /\ Node(d, k) = d.list[j]
  BY <1>1, <1>2, <1>3
<1>5. QED
  BY <1>3, <1>4

\* What a removed node leaves behind.
LEMMA RemovedNode ==
  ASSUME NEW K, NEW V, NEW c, Shaped(c, K, V), Linked(c), NEW k \in c.map
  PROVE  LET s == RemoveAt(c.list, Position(c, k)) IN
         /\ s \in Seq(Nodes(K, V))
         /\ {s[i].key : i \in 1..Len(s)} = c.map \ {k}
         /\ \A i, j \in 1..Len(s) : s[i].key = s[j].key => i = j
         /\ \A i \in 1..Len(s) : \E j \in 1..Len(c.list) : s[i] = c.list[j]
<1> DEFINE p == Position(c, k)
           s == RemoveAt(c.list, p)
<1>1. p \in 1..Len(c.list) /\ c.list[p].key = k
  BY NodeProperties
<1>2. /\ s \in Seq(Nodes(K, V)) /\ Len(s) = Len(c.list) - 1
      /\ \A j \in 1..Len(c.list)-1 : s[j] = IF j < p THEN c.list[j] ELSE c.list[j+1]
  BY <1>1, RemoveAtProperties DEF Shaped
<1>3. Len(c.list) \in Nat
  BY DEF Shaped
<1> HIDE DEF p, s
<1>4. \A i \in 1..Len(s) : \E j \in 1..Len(c.list) : j # p /\ s[i] = c.list[j]
  <2> TAKE i \in 1..Len(s)
  <2> DEFINE j == IF i < p THEN i ELSE i + 1
  <2>1. j \in 1..Len(c.list) /\ j # p /\ s[i] = c.list[j]
    BY <1>1, <1>2, <1>3
  <2>2. QED
    BY <2>1
<1>5. \A j \in 1..Len(c.list) : j # p => \E i \in 1..Len(s) : s[i] = c.list[j]
  <2> SUFFICES ASSUME NEW j \in 1..Len(c.list), j # p
               PROVE  \E i \in 1..Len(s) : s[i] = c.list[j]
    OBVIOUS
  <2> DEFINE i == IF j < p THEN j ELSE j - 1
  <2>1. i \in 1..Len(s) /\ s[i] = c.list[j]
    BY <1>1, <1>2, <1>3
  <2>2. QED
    BY <2>1
<1>6. \A i, j \in 1..Len(s) : s[i].key = s[j].key => i = j
  <2> SUFFICES ASSUME NEW i \in 1..Len(s), NEW j \in 1..Len(s), s[i].key = s[j].key
               PROVE  i = j
    OBVIOUS
  <2> DEFINE a == IF i < p THEN i ELSE i + 1
             b == IF j < p THEN j ELSE j + 1
  <2>1. /\ a \in 1..Len(c.list) /\ s[i] = c.list[a]
        /\ b \in 1..Len(c.list) /\ s[j] = c.list[b]
    BY <1>1, <1>2, <1>3
  <2>2. a = b
    BY <2>1 DEF Linked
  <2>3. QED
    BY <1>1, <1>3, <2>2
<1>7. {s[i].key : i \in 1..Len(s)} = c.map \ {k}
  <2>1. ASSUME NEW i \in 1..Len(s) PROVE s[i].key \in c.map \ {k}
    <3>1. PICK j \in 1..Len(c.list) : j # p /\ s[i] = c.list[j]
      BY <1>4
    <3>2. QED
      BY <1>1, <3>1 DEF Linked, KeysOf
  <2>2. ASSUME NEW x \in c.map \ {k} PROVE \E i \in 1..Len(s) : s[i].key = x
    <3>1. PICK j \in 1..Len(c.list) : c.list[j].key = x
      BY DEF Linked, KeysOf
    <3>2. j # p
      BY <1>1, <3>1
    <3>3. QED
      BY <1>5, <3>1, <3>2
  <2>3. QED
    BY <2>1, <2>2
<1>8. QED
  BY <1>2, <1>4, <1>6, <1>7 DEF p, s

KeysIn(s) == {s[i].key : i \in 1..Len(s)}

KeyedOnce(s) == \A i, j \in 1..Len(s) : s[i].key = s[j].key => i = j

Prepended(n, s) == <<n>> \o s

\* Putting a node in front of nodes with other keys.
LEMMA PrependedNode ==
  ASSUME NEW K, NEW V, NEW s \in Seq(Nodes(K, V)), NEW n \in Nodes(K, V),
         KeyedOnce(s), n.key \notin KeysIn(s),
         NEW t, t = Prepended(n, s)
  PROVE  /\ t \in Seq(Nodes(K, V))
         /\ KeysIn(t) = KeysIn(s) \cup {n.key}
         /\ KeyedOnce(t)
         /\ Len(t) = Len(s) + 1 /\ t[1] = n
         /\ \A i \in 1..Len(s) : t[i+1] = s[i]
<1>1. /\ t \in Seq(Nodes(K, V)) /\ Len(t) = Len(s) + 1 /\ t[1] = n
      /\ \A i \in 1..Len(s) : t[i+1] = s[i]
  BY DEF Prepended
<1>2. Len(s) \in Nat
  OBVIOUS
<1>3. \A i \in 1..Len(t) : i = 1 \/ (i-1 \in 1..Len(s) /\ t[i] = s[i-1])
  BY <1>1, <1>2
<1>4. KeyedOnce(t)
  <2> USE DEF KeyedOnce, KeysIn
  <2> SUFFICES ASSUME NEW i \in 1..Len(t), NEW j \in 1..Len(t), t[i].key = t[j].key
               PROVE  i = j
    OBVIOUS
  <2>1. CASE i = 1 /\ j = 1
    BY <2>1
  <2>2. CASE i = 1 /\ j # 1
    BY <1>1, <1>3, <2>2
  <2>3. CASE i # 1 /\ j = 1
    BY <1>1, <1>3, <2>3
  <2>4. CASE i # 1 /\ j # 1
    <3>1. i-1 \in 1..Len(s) /\ j-1 \in 1..Len(s) /\ s[i-1].key = s[j-1].key
      BY <1>3, <2>4
    <3>2. i-1 = j-1
      BY <3>1
    <3>3. QED
      BY <1>1, <1>2, <3>2
  <2>5. QED
    BY <2>1, <2>2, <2>3, <2>4
<1>5. KeysIn(t) = KeysIn(s) \cup {n.key}
  <2>1. \A i \in 1..Len(s) : i+1 \in 1..Len(t) /\ t[i+1].key = s[i].key
    BY <1>1, <1>2
  <2>2. 1 \in 1..Len(t) /\ t[1].key = n.key
    BY <1>1, <1>2
  <2>3. ASSUME NEW i \in 1..Len(t)
        PROVE  t[i].key \in {s[j].key : j \in 1..Len(s)} \cup {n.key}
    BY <1>1, <1>3
  <2>4. \A i \in 1..Len(s) : s[i].key \in {t[j].key : j \in 1..Len(t)}
    <3> TAKE i \in 1..Len(s)
    <3>1. i+1 \in 1..Len(t) /\ t[i+1].key = s[i].key
      BY <2>1
    <3>2. QED
      BY <3>1
  <2>5. n.key \in {t[j].key : j \in 1..Len(t)}
    BY <2>2
  <2>6. QED
    BY <2>3, <2>4, <2>5 DEF KeysIn
<1>6. QED
  BY <1>1, <1>4, <1>5

-----------------------------------------------------------------------------
(* What each procedure keeps.                                              *)

LEMMA TouchedKeeps ==
  ASSUME NEW K, NEW V, NEW c, Shaped(c, K, V), Linked(c), NEW k \in c.map
  PROVE  /\ Shaped(Touched(c, k), K, V) /\ Linked(Touched(c, k))
         /\ Touched(c, k).map = c.map
         /\ \A x \in c.map : Node(Touched(c, k), x).value = Node(c, x).value
<1> DEFINE p == Position(c, k)
           s == RemoveAt(c.list, p)
           n == [Node(c, k) EXCEPT !.usecount = @ + 1]
           d == Touched(c, k)
<1>1. /\ p \in 1..Len(c.list) /\ c.list[p].key = k /\ Node(c, k) \in Nodes(K, V)
      /\ Node(c, k) = c.list[p]
  BY NodeProperties DEF Node
<1>2. n \in Nodes(K, V) /\ n.key = k /\ n.value = c.list[p].value
  BY <1>1 DEF Nodes
<1>3. /\ s \in Seq(Nodes(K, V))
      /\ {s[i].key : i \in 1..Len(s)} = c.map \ {k}
      /\ \A i, j \in 1..Len(s) : s[i].key = s[j].key => i = j
      /\ \A i \in 1..Len(s) : \E j \in 1..Len(c.list) : s[i] = c.list[j]
  BY RemovedNode
<1>4. d.list = Prepended(n, s) /\ d.map = c.map
  BY DEF Touched, Prepended
<1> HIDE DEF p, s, n, d
<1>5. KeyedOnce(s) /\ n.key \notin KeysIn(s)
  BY <1>2, <1>3 DEF KeyedOnce, KeysIn
<1>6. /\ d.list \in Seq(Nodes(K, V))
      /\ KeysIn(d.list) = KeysIn(s) \cup {n.key} /\ KeyedOnce(d.list)
      /\ Len(d.list) = Len(s) + 1 /\ d.list[1] = n
      /\ \A i \in 1..Len(s) : d.list[i+1] = s[i]
  BY <1>2, <1>3, <1>4, <1>5, PrependedNode
<1>7. Shaped(d, K, V) /\ Linked(d)
  <2>1. KeysIn(s) = c.map \ {k}
    BY <1>3 DEF KeysIn
  <2>2. QED
    BY <1>2, <1>4, <1>6, <2>1 DEF Shaped, Linked, KeysOf, KeysIn, KeyedOnce
<1>8. \A j \in 1..Len(d.list) : \E i \in 1..Len(c.list) :
        c.list[i].key = d.list[j].key /\ c.list[i].value = d.list[j].value
  <2> TAKE j \in 1..Len(d.list)
  <2>1. CASE j = 1
    BY <1>1, <1>2, <1>6, <2>1
  <2>2. CASE j # 1
    <3>1. j-1 \in 1..Len(s) /\ d.list[j] = s[j-1]
      BY <1>3, <1>6, <2>2
    <3>2. QED
      BY <1>3, <3>1
  <2>3. QED
    BY <2>1, <2>2
<1>9. \A x \in d.map : Node(d, x).value = Node(c, x).value
  BY <1>7, <1>8, SameAnswers
<1>10. QED
  BY <1>4, <1>7, <1>9 DEF d

LEMMA DroppedKeeps ==
  ASSUME NEW K, NEW V, NEW c, Shaped(c, K, V), Linked(c), NEW k \in c.map
  PROVE  /\ Shaped(Dropped(c, k), K, V) /\ Linked(Dropped(c, k))
         /\ Dropped(c, k).map = c.map \ {k}
         /\ \A x \in c.map \ {k} : Node(Dropped(c, k), x).value = Node(c, x).value
<1> DEFINE d == Dropped(c, k)
<1>0. /\ d.list = RemoveAt(c.list, Position(c, k)) /\ d.map = c.map \ {k}
      /\ c.map \subseteq K
  BY DEF Dropped, Shaped
<1> HIDE DEF d
<1>1. /\ d.list \in Seq(Nodes(K, V))
      /\ {d.list[i].key : i \in 1..Len(d.list)} = d.map
      /\ \A i, j \in 1..Len(d.list) : d.list[i].key = d.list[j].key => i = j
      /\ \A i \in 1..Len(d.list) : \E j \in 1..Len(c.list) : d.list[i] = c.list[j]
  <2> DEFINE s == RemoveAt(c.list, Position(c, k))
  <2>1. /\ s \in Seq(Nodes(K, V))
        /\ {s[i].key : i \in 1..Len(s)} = c.map \ {k}
        /\ \A i, j \in 1..Len(s) : s[i].key = s[j].key => i = j
        /\ \A i \in 1..Len(s) : \E j \in 1..Len(c.list) : s[i] = c.list[j]
    BY RemovedNode
  <2>2. d.list = s /\ d.map = c.map \ {k}
    BY <1>0
  <2> HIDE DEF s
  <2>3. QED
    BY <2>1, <2>2
<1>2. Shaped(d, K, V) /\ Linked(d)
  BY <1>0, <1>1 DEF Shaped, Linked, KeysOf
<1>3. \A j \in 1..Len(d.list) : \E i \in 1..Len(c.list) :
        c.list[i].key = d.list[j].key /\ c.list[i].value = d.list[j].value
  BY <1>1
<1>4. \A x \in d.map : Node(d, x).value = Node(c, x).value
  BY <1>2, <1>3, SameAnswers
<1>5. QED
  BY <1>0, <1>2, <1>4 DEF d

LEMMA UpdatedKeeps ==
  ASSUME NEW K, NEW V, NEW c, Shaped(c, K, V), Linked(c), NEW k \in c.map, NEW w \in Nat, NEW v \in V
  PROVE  /\ Shaped(Updated(c, k, w, v), K, V) /\ Linked(Updated(c, k, w, v))
         /\ Updated(c, k, w, v).map = c.map
         /\ \A x \in c.map : Node(Updated(c, k, w, v), x).value =
                               IF x = k THEN v ELSE Node(c, x).value
<1> DEFINE p == Position(c, k)
           n == [c.list[p] EXCEPT !.value = v, !.weight = w]
           d == Updated(c, k, w, v)
<1>1. p \in 1..Len(c.list) /\ c.list[p].key = k /\ c.list[p] \in Nodes(K, V)
  BY NodeProperties DEF Node
<1>2. n \in Nodes(K, V) /\ n.key = k /\ n.value = v
  BY <1>1 DEF Nodes
<1>3. d.list = [c.list EXCEPT ![p] = n] /\ d.map = c.map
  BY DEF Updated
<1> HIDE DEF p, n, d
<1>4. /\ d.list \in Seq(Nodes(K, V)) /\ Len(d.list) = Len(c.list)
      /\ \A i \in 1..Len(c.list) : d.list[i] = IF i = p THEN n ELSE c.list[i]
  BY <1>1, <1>2, <1>3, ExceptSeq DEF Shaped
<1>5. \A i \in 1..Len(c.list) : d.list[i].key = c.list[i].key
  BY <1>1, <1>2, <1>4
<1>6. Shaped(d, K, V) /\ Linked(d)
  BY <1>3, <1>4, <1>5 DEF Shaped, Linked, KeysOf
<1>7. ASSUME NEW x \in c.map
      PROVE  Node(d, x).value = IF x = k THEN v ELSE Node(c, x).value
  <2>1. PICK i \in 1..Len(c.list) : c.list[i].key = x
    BY NodeProperties
  <2>2. Node(c, x) = c.list[i]
    BY <2>1, NodeProperties
  <2>3. Node(d, x) = d.list[i]
    BY <1>4, <1>5, <1>6, <2>1, NodeProperties
  <2>4. i = p <=> x = k
    BY <1>1, <2>1 DEF Linked
  <2>5. QED
    BY <1>2, <1>4, <2>2, <2>3, <2>4
<1>8. QED
  BY <1>3, <1>6, <1>7 DEF d

LEMMA InsertedKeeps ==
  ASSUME NEW K, NEW V, NEW c, Shaped(c, K, V), Linked(c), NEW k \in K \ c.map, NEW w \in Nat, NEW v \in V
  PROVE  /\ Shaped(Inserted(c, k, w, v), K, V) /\ Linked(Inserted(c, k, w, v))
         /\ Inserted(c, k, w, v).map = c.map \cup {k}
         /\ \A x \in c.map \cup {k} : Node(Inserted(c, k, w, v), x).value =
                                        IF x = k THEN v ELSE Node(c, x).value
<1> DEFINE n == [key |-> k, value |-> v, weight |-> w, usecount |-> 0]
           d == Inserted(c, k, w, v)
<1>1. n \in Nodes(K, V) /\ n.key = k /\ n.value = v
  BY DEF Nodes
<1>2. d.list = Prepended(n, c.list) /\ d.map = c.map \cup {k}
  BY DEF Inserted, Prepended
<1>3. /\ c.list \in Seq(Nodes(K, V)) /\ Len(c.list) \in Nat
      /\ KeyedOnce(c.list) /\ KeysIn(c.list) = c.map
  BY DEF Shaped, Linked, KeysOf, KeysIn, KeyedOnce
<1>4. n.key \notin KeysIn(c.list)
  BY <1>1, <1>3
<1> HIDE DEF n, d
<1>5. /\ d.list \in Seq(Nodes(K, V))
      /\ KeysIn(d.list) = KeysIn(c.list) \cup {n.key} /\ KeyedOnce(d.list)
      /\ Len(d.list) = Len(c.list) + 1 /\ d.list[1] = n
      /\ \A i \in 1..Len(c.list) : d.list[i+1] = c.list[i]
  BY <1>1, <1>2, <1>3, <1>4, PrependedNode
<1>6. Shaped(d, K, V) /\ Linked(d)
  BY <1>1, <1>2, <1>3, <1>5 DEF Shaped, Linked, KeysOf, KeysIn, KeyedOnce
<1>7. Node(d, k).value = v
  <2>1. 1 \in 1..Len(d.list) /\ d.list[1].key = k
    BY <1>1, <1>3, <1>5
  <2>2. QED
    BY <1>1, <1>5, <1>6, <2>1, NodeProperties
<1>8. ASSUME NEW x \in c.map PROVE Node(d, x).value = Node(c, x).value
  <2>1. PICK i \in 1..Len(c.list) : c.list[i].key = x
    BY NodeProperties
  <2>2. Node(c, x) = c.list[i]
    BY <2>1, NodeProperties
  <2>3. i+1 \in 1..Len(d.list) /\ d.list[i+1] = c.list[i]
    BY <1>3, <1>5
  <2>4. Node(d, x) = d.list[i+1]
    BY <1>6, <2>1, <2>3, NodeProperties
  <2>5. QED
    BY <2>2, <2>3, <2>4
<1>9. QED
  BY <1>2, <1>6, <1>7, <1>8 DEF d

LEMMA CutKeeps ==
  ASSUME NEW K, NEW V, NEW c, Shaped(c, K, V), Linked(c), NEW n \in 0..Len(c.list)
  PROVE  /\ Shaped(CutTo(c, n), K, V) /\ Linked(CutTo(c, n))
         /\ CutTo(c, n).map \subseteq c.map
         /\ \A x \in CutTo(c, n).map : Node(CutTo(c, n), x).value = Node(c, x).value
<1> DEFINE tail == SubSeq(c.list, n + 1, Len(c.list))
           gone == {tail[i].key : i \in 1..Len(tail)}
           d == CutTo(c, n)
<1>1. c.list \in Seq(Nodes(K, V)) /\ Len(c.list) \in Nat /\ n \in Nat /\ n <= Len(c.list)
  BY DEF Shaped
<1>2. d.list = SubSeq(c.list, 1, n) /\ d.map = c.map \ gone
  BY DEF CutTo
<1>3. /\ d.list \in Seq(Nodes(K, V)) /\ Len(d.list) = n
      /\ \A i \in 1..n : d.list[i] = c.list[i]
  BY <1>1, <1>2, SubSeqProperties
<1>4. /\ Len(tail) = Len(c.list) - n
      /\ \A i \in 1..Len(c.list)-n : tail[i] = c.list[n+i]
  BY <1>1, SubSeqProperties
<1>5. gone = {c.list[i].key : i \in n+1..Len(c.list)}
  <2> HIDE DEF tail
  <2>1. ASSUME NEW i \in 1..Len(tail)
        PROVE  tail[i].key \in {c.list[j].key : j \in n+1..Len(c.list)}
    <3>1. n+i \in n+1..Len(c.list) /\ tail[i] = c.list[n+i]
      BY <1>1, <1>4
    <3>2. QED
      BY <3>1
  <2>2. ASSUME NEW i \in n+1..Len(c.list)
        PROVE  \E j \in 1..Len(tail) : tail[j].key = c.list[i].key
    <3>1. i-n \in 1..Len(tail) /\ n+(i-n) = i
      BY <1>1, <1>4
    <3>2. tail[i-n] = c.list[i]
      BY <1>4, <3>1
    <3>3. QED
      BY <3>1, <3>2
  <2>3. QED
    BY <2>1, <2>2
<1> HIDE DEF tail, gone, d
<1>6. KeysOf(d) = d.map
  <2>1. ASSUME NEW i \in 1..n PROVE c.list[i].key \in c.map \ gone
    <3>1. i \in 1..Len(c.list) /\ i \notin n+1..Len(c.list)
      BY <1>1
    <3>2. \A j \in n+1..Len(c.list) : j \in 1..Len(c.list) /\ j # i
      BY <1>1, <3>1
    <3>3. QED
      BY <1>5, <3>1, <3>2 DEF Linked, KeysOf
  <2>2. ASSUME NEW x \in c.map \ gone PROVE \E i \in 1..n : c.list[i].key = x
    <3>1. PICK i \in 1..Len(c.list) : c.list[i].key = x
      BY DEF Linked, KeysOf
    <3>2. i \notin n+1..Len(c.list)
      BY <1>5, <3>1
    <3>3. QED
      BY <1>1, <3>1, <3>2
  <2>3. KeysOf(d) = {c.list[i].key : i \in 1..n} /\ d.map = c.map \ gone
    BY <1>2, <1>3 DEF KeysOf
  <2>4. {c.list[i].key : i \in 1..n} = c.map \ gone
    BY <2>1, <2>2
  <2>5. QED
    BY <2>3, <2>4
<1>7. \A i, j \in 1..Len(d.list) : d.list[i].key = d.list[j].key => i = j
  BY <1>1, <1>3 DEF Linked
<1>8. Shaped(d, K, V) /\ Linked(d)
  BY <1>2, <1>3, <1>6, <1>7 DEF Shaped, Linked
<1>9. \A j \in 1..Len(d.list) : \E i \in 1..Len(c.list) :
        c.list[i].key = d.list[j].key /\ c.list[i].value = d.list[j].value
  <2> TAKE j \in 1..Len(d.list)
  <2>1. j \in 1..Len(c.list) /\ d.list[j] = c.list[j]
    BY <1>1, <1>3
  <2>2. QED
    BY <2>1
<1>10. \A x \in d.map : Node(d, x).value = Node(c, x).value
  BY <1>8, <1>9, SameAnswers
<1>11. QED
  BY <1>2, <1>8, <1>10 DEF d

\* A store leaves some of what was there and of the new entry, unchanged.
LEMMA StoredKeeps ==
  ASSUME NEW K, NEW V, NEW c, Shaped(c, K, V), Linked(c), NEW k \in K, NEW w \in Nat, NEW v \in V,
         NEW d \in Stored(c, k, w, v)
  PROVE  /\ DOMAIN d = {"list", "map", "weight"}
         /\ Shaped(d, K, V) /\ Linked(d)
         /\ d.map \subseteq c.map \cup {k}
         /\ \A x \in d.map : Node(d, x).value = IF x = k THEN v ELSE Node(c, x).value
<1> DEFINE e == IF HasKey(c, k) THEN Updated(c, k, w, v) ELSE Inserted(c, k, w, v)
<1>1. /\ Shaped(e, K, V) /\ Linked(e) /\ e.map = c.map \cup {k}
      /\ \A x \in e.map : Node(e, x).value = IF x = k THEN v ELSE Node(c, x).value
  <2>1. CASE HasKey(c, k)
    BY <2>1, UpdatedKeeps DEF HasKey
  <2>2. CASE ~HasKey(c, k)
    BY <2>2, InsertedKeeps DEF HasKey
  <2>3. QED
    BY <2>1, <2>2
<1>2. d \in Trimmed(e)
  BY DEF Stored
<1> HIDE DEF e
<1>3. PICK n \in 0..Len(e.list) : d = CutTo(e, n)
  BY <1>2 DEF Trimmed
<1>4. Shaped(d, K, V) /\ Linked(d) /\ d.map \subseteq e.map
      /\ \A x \in d.map : Node(d, x).value = Node(e, x).value
  BY <1>1, <1>3, CutKeeps
<1>5. DOMAIN d = {"list", "map", "weight"}
  BY <1>3 DEF CutTo
<1>6. QED
  BY <1>1, <1>4, <1>5

-----------------------------------------------------------------------------
(* What each procedure makes of the running total.                         *)

Exact(c) == c.weight = TotalWeight(c.list)

LEMMA NodesWeigh ==
  ASSUME NEW K, NEW V
  PROVE  \A x \in Nodes(K, V) : x.weight \in Nat
BY DEF Nodes

LEMMA TouchedWeighs ==
  ASSUME NEW K, NEW V, NEW c, Shaped(c, K, V), Linked(c), Exact(c), NEW k \in c.map
  PROVE  /\ Exact(Touched(c, k)) /\ Touched(c, k).weight = c.weight
         /\ Len(Touched(c, k).list) = Len(c.list)
<1> DEFINE p == Position(c, k)
           s == RemoveAt(c.list, p)
           n == [Node(c, k) EXCEPT !.usecount = @ + 1]
           d == Touched(c, k)
<1>1. /\ p \in 1..Len(c.list) /\ c.list[p] \in Nodes(K, V) /\ Node(c, k) = c.list[p]
  BY NodeProperties DEF Node
<1>2. n \in Nodes(K, V) /\ n.weight = c.list[p].weight /\ c.list[p].weight \in Nat
  BY <1>1 DEF Nodes
<1>3. d.list = <<n>> \o s /\ d.weight = c.weight
  BY DEF Touched
<1>4. c.list \in Seq(Nodes(K, V)) /\ Len(c.list) \in Nat
  BY DEF Shaped
<1> HIDE DEF p, n, d
<1>5. s \in Seq(Nodes(K, V)) /\ Len(s) = Len(c.list) - 1
  BY <1>1, <1>4, RemoveAtProperties
<1>6. TotalWeight(c.list) = TotalWeight(s) + c.list[p].weight /\ TotalWeight(s) \in Nat
  BY <1>1, <1>4, NodesWeigh, AroundWeighs
<1> HIDE DEF s
<1>7. <<n>> \in Seq(Nodes(K, V)) /\ Len(<<n>>) = 1
  BY <1>2
<1>8. TotalWeight(<<n>> \o s) = TotalWeight(<<n>>) + TotalWeight(s)
  <2> DEFINE one == <<n>>
  <2>1. one \in Seq(Nodes(K, V))
    BY <1>7
  <2> HIDE DEF one
  <2>2. TotalWeight(one \o s) = TotalWeight(one) + TotalWeight(s)
    BY <1>5, <2>1, NodesWeigh, ConcatWeighs
  <2>3. QED
    BY <2>2 DEF one
<1>9. TotalWeight(<<n>>) = n.weight
  BY <1>2, SingleWeighs
<1>10. Len(<<n>> \o s) = Len(<<n>>) + Len(s)
  BY <1>5, <1>7, ConcatProperties
<1>11. TotalWeight(d.list) = TotalWeight(c.list) /\ Len(d.list) = Len(c.list)
  BY <1>2, <1>3, <1>4, <1>5, <1>6, <1>7, <1>8, <1>9, <1>10
<1>12. QED
  BY <1>3, <1>11 DEF Exact, d

LEMMA DroppedWeighs ==
  ASSUME NEW K, NEW V, NEW c, Shaped(c, K, V), Linked(c), Exact(c), NEW k \in c.map
  PROVE  /\ Exact(Dropped(c, k)) /\ Dropped(c, k).weight \in Nat
         /\ Dropped(c, k).weight <= c.weight
         /\ Len(Dropped(c, k).list) = Len(c.list) - 1
<1> DEFINE p == Position(c, k)
           s == RemoveAt(c.list, p)
           d == Dropped(c, k)
<1>1. /\ p \in 1..Len(c.list) /\ c.list[p] \in Nodes(K, V) /\ Node(c, k) = c.list[p]
  BY NodeProperties DEF Node
<1>2. c.list[p].weight \in Nat
  BY <1>1, NodesWeigh
<1>3. d.list = s /\ d.weight = c.weight - c.list[p].weight
  BY <1>1 DEF Dropped
<1>4. c.list \in Seq(Nodes(K, V)) /\ Len(c.list) \in Nat
  BY DEF Shaped
<1> HIDE DEF p, d
<1>5. s \in Seq(Nodes(K, V)) /\ Len(s) = Len(c.list) - 1
  BY <1>1, <1>4, RemoveAtProperties
<1>6. TotalWeight(c.list) = TotalWeight(s) + c.list[p].weight /\ TotalWeight(s) \in Nat
  BY <1>1, <1>4, NodesWeigh, AroundWeighs
<1>7. c.weight = TotalWeight(c.list)
  BY DEF Exact
<1> HIDE DEF s
<1>8. d.weight = TotalWeight(s) /\ TotalWeight(s) <= c.weight
  BY <1>2, <1>3, <1>6, <1>7
<1>9. QED
  BY <1>3, <1>5, <1>6, <1>8 DEF Exact, d

LEMMA UpdatedWeighs ==
  ASSUME NEW K, NEW V, NEW c, Shaped(c, K, V), Linked(c), Exact(c), NEW k \in c.map,
         NEW w \in Nat, NEW v \in V
  PROVE  Exact(Updated(c, k, w, v))
<1> DEFINE p == Position(c, k)
           n == [c.list[p] EXCEPT !.value = v, !.weight = w]
           s == RemoveAt(c.list, p)
           t == [c.list EXCEPT ![p] = n]
           d == Updated(c, k, w, v)
<1>1. /\ p \in 1..Len(c.list) /\ c.list[p] \in Nodes(K, V) /\ Node(c, k) = c.list[p]
  BY NodeProperties DEF Node
<1>2. n \in Nodes(K, V) /\ n.weight = w /\ c.list[p].weight \in Nat
  BY <1>1 DEF Nodes
<1>3. d.list = t /\ d.weight = c.weight - c.list[p].weight + w
  BY <1>1 DEF Updated
<1>4. c.list \in Seq(Nodes(K, V)) /\ Len(c.list) \in Nat
  BY DEF Shaped
<1> HIDE DEF p, n, d
<1>5. /\ t \in Seq(Nodes(K, V)) /\ Len(t) = Len(c.list)
      /\ \A i \in 1..Len(c.list) : t[i] = IF i = p THEN n ELSE c.list[i]
  BY <1>1, <1>2, <1>4, ExceptSeq
<1> HIDE DEF t
<1>6. /\ TotalWeight(c.list) = TotalWeight(s) + c.list[p].weight /\ TotalWeight(s) \in Nat
  BY <1>1, <1>4, NodesWeigh, AroundWeighs
<1>7. TotalWeight(t) = TotalWeight(s) + t[p].weight
  <2>1. \A i \in 1..Len(c.list) : i # p => t[i] = c.list[i]
    BY <1>5
  <2>2. QED
    BY <1>1, <1>4, <1>5, <2>1, NodesWeigh, AroundWeighs
<1> HIDE DEF s
<1>8. t[p].weight = w /\ c.weight = TotalWeight(c.list)
  BY <1>1, <1>2, <1>5 DEF Exact
<1>9. d.weight = TotalWeight(t)
  BY <1>2, <1>3, <1>6, <1>7, <1>8
<1>10. QED
  BY <1>3, <1>9 DEF Exact, d

LEMMA InsertedWeighs ==
  ASSUME NEW K, NEW V, NEW c, Shaped(c, K, V), Exact(c), NEW k \in K, NEW w \in Nat, NEW v \in V
  PROVE  Exact(Inserted(c, k, w, v))
<1> DEFINE n == [key |-> k, value |-> v, weight |-> w, usecount |-> 0]
           d == Inserted(c, k, w, v)
<1>1. n \in Nodes(K, V) /\ n.weight = w
  BY DEF Nodes
<1>2. d.list = <<n>> \o c.list /\ d.weight = c.weight + w
  BY DEF Inserted
<1> HIDE DEF n, d
<1>3. c.list \in Seq(Nodes(K, V)) /\ <<n>> \in Seq(Nodes(K, V))
  BY <1>1 DEF Shaped
<1>4. /\ TotalWeight(<<n>> \o c.list) = TotalWeight(<<n>>) + TotalWeight(c.list)
      /\ TotalWeight(c.list) \in Nat
  <2> DEFINE one == <<n>>
  <2>1. one \in Seq(Nodes(K, V))
    BY <1>3
  <2> HIDE DEF one
  <2>2. /\ TotalWeight(one \o c.list) = TotalWeight(one) + TotalWeight(c.list)
        /\ TotalWeight(c.list) \in Nat
    BY <1>3, <2>1, NodesWeigh, ConcatWeighs
  <2>3. QED
    BY <2>2 DEF one
<1>5. TotalWeight(<<n>>) = w
  BY <1>1, SingleWeighs
<1>6. d.weight = TotalWeight(<<n>> \o c.list)
  BY <1>2, <1>4, <1>5 DEF Exact
<1>7. QED
  BY <1>2, <1>6 DEF Exact, d

LEMMA CutWeighs ==
  ASSUME NEW K, NEW V, NEW c, Shaped(c, K, V), Exact(c), NEW n \in 0..Len(c.list)
  PROVE  Exact(CutTo(c, n)) /\ CutTo(c, n).weight \in Nat /\ Len(CutTo(c, n).list) = n
<1> DEFINE front == SubSeq(c.list, 1, n)
           tail == SubSeq(c.list, n + 1, Len(c.list))
           d == CutTo(c, n)
<1>1. c.list \in Seq(Nodes(K, V)) /\ Len(c.list) \in Nat /\ n \in Nat /\ n <= Len(c.list)
  BY DEF Shaped
<1>2. d.list = front /\ d.weight = c.weight - TotalWeight(tail)
  BY DEF CutTo
<1>3. Len(front) = n
  BY <1>1, SubSeqProperties
<1>4. /\ TotalWeight(c.list) = TotalWeight(front) + TotalWeight(tail)
      /\ TotalWeight(front) \in Nat /\ TotalWeight(tail) \in Nat
  BY <1>1, NodesWeigh, SplitWeighs
<1> HIDE DEF front, tail, d
<1>5. d.weight = TotalWeight(front)
  BY <1>2, <1>4 DEF Exact
<1>6. QED
  BY <1>2, <1>3, <1>4, <1>5 DEF Exact, d

\* After a store the running total is exact, and the cache is not too heavy.
LEMMA StoredWeighs ==
  ASSUME NEW K, NEW V, NEW c, Shaped(c, K, V), Linked(c), Exact(c),
         NEW k \in K, NEW w \in Nat, NEW v \in V, NEW d \in Stored(c, k, w, v)
  PROVE  /\ Exact(d) /\ d.weight \in Nat
         /\ Len(d.list) <= MinSize \/ d.weight <= MaxWeight
<1> DEFINE e == IF HasKey(c, k) THEN Updated(c, k, w, v) ELSE Inserted(c, k, w, v)
<1>1. Shaped(e, K, V) /\ Exact(e)
  <2>1. CASE HasKey(c, k)
    BY <2>1, UpdatedKeeps, UpdatedWeighs DEF HasKey
  <2>2. CASE ~HasKey(c, k)
    BY <2>2, InsertedKeeps, InsertedWeighs DEF HasKey
  <2>3. QED
    BY <2>1, <2>2
<1>2. d \in Trimmed(e)
  BY DEF Stored
<1> HIDE DEF e
<1>3. PICK n \in 0..Len(e.list) : d = CutTo(e, n) /\ Fits(e, n)
  BY <1>2 DEF Trimmed
<1>4. Exact(d) /\ d.weight \in Nat /\ Len(d.list) = n
  BY <1>1, <1>3, CutWeighs
<1>5. QED
  BY <1>3, <1>4 DEF Fits

-----------------------------------------------------------------------------
(* The order of the list.                                                  *)

\* The node of key x is ahead of the one of key y.
Ahead(s, x, y) == \E i, j \in 1..Len(s) : i < j /\ s[i].key = x /\ s[j].key = y

LEMMA RemovedOrder ==
  ASSUME NEW K, NEW V, NEW c, Shaped(c, K, V), Linked(c), NEW k \in c.map, NEW x, NEW y,
         Ahead(RemoveAt(c.list, Position(c, k)), x, y)
  PROVE  Ahead(c.list, x, y) /\ x # k /\ y # k
<1> DEFINE p == Position(c, k)
           s == RemoveAt(c.list, p)
<1>1. p \in 1..Len(c.list) /\ c.list[p].key = k /\ Len(c.list) \in Nat
  BY NodeProperties DEF Shaped
<1>2. /\ Len(s) = Len(c.list) - 1
      /\ \A j \in 1..Len(c.list)-1 : s[j] = IF j < p THEN c.list[j] ELSE c.list[j+1]
  BY <1>1, RemoveAtProperties DEF Shaped
<1>3. PICK i, j \in 1..Len(s) : i < j /\ s[i].key = x /\ s[j].key = y
  BY DEF Ahead
<1> HIDE DEF p, s
<1> DEFINE a == IF i < p THEN i ELSE i + 1
           b == IF j < p THEN j ELSE j + 1
<1>4. /\ a \in 1..Len(c.list) /\ b \in 1..Len(c.list) /\ a < b /\ a # p /\ b # p
      /\ c.list[a].key = x /\ c.list[b].key = y
  BY <1>1, <1>2, <1>3
<1> HIDE DEF a, b
<1>5. x # k /\ y # k
  BY <1>1, <1>4 DEF Linked
<1>6. QED
  BY <1>4, <1>5 DEF Ahead

LEMMA PrependedOrder ==
  ASSUME NEW S, NEW s \in Seq(S), NEW n \in S, NEW x, NEW y, Ahead(Prepended(n, s), x, y)
  PROVE  Ahead(s, x, y) \/ (x = n.key /\ y \in KeysIn(s))
<1> DEFINE t == Prepended(n, s)
<1>1. /\ Len(t) = Len(s) + 1 /\ t[1] = n /\ Len(s) \in Nat
      /\ \A i \in 1..Len(s) : t[i+1] = s[i]
  BY DEF Prepended
<1>2. PICK i, j \in 1..Len(t) : i < j /\ t[i].key = x /\ t[j].key = y
  BY DEF Ahead
<1> HIDE DEF t
<1>3. j-1 \in 1..Len(s) /\ t[j] = s[j-1]
  BY <1>1, <1>2
<1>4. CASE i = 1
  BY <1>1, <1>2, <1>3, <1>4 DEF KeysIn
<1>5. CASE i # 1
  <2> DEFINE a == i - 1
             b == j - 1
  <2>1. a \in 1..Len(s) /\ t[i] = s[a] /\ a < b
    BY <1>1, <1>2, <1>5
  <2>2. a \in 1..Len(s) /\ b \in 1..Len(s) /\ a < b
    BY <1>3, <2>1
  <2>3. s[a].key = x /\ s[b].key = y
    BY <1>2, <1>3, <2>1
  <2> HIDE DEF a, b
  <2>4. Ahead(s, x, y)
    BY <2>2, <2>3 DEF Ahead
  <2>5. QED
    BY <2>4
<1>6. QED
  BY <1>4, <1>5

LEMMA TouchedOrder ==
  ASSUME NEW K, NEW V, NEW c, Shaped(c, K, V), Linked(c), NEW k \in c.map, NEW x, NEW y,
         Ahead(Touched(c, k).list, x, y)
  PROVE  \/ Ahead(c.list, x, y) /\ x # k /\ y # k
         \/ x = k /\ y \in c.map \ {k}
<1> DEFINE s == RemoveAt(c.list, Position(c, k))
           n == [Node(c, k) EXCEPT !.usecount = @ + 1]
<1>1. /\ s \in Seq(Nodes(K, V))
      /\ {s[i].key : i \in 1..Len(s)} = c.map \ {k}
  BY RemovedNode
<1>2. Node(c, k) \in Nodes(K, V) /\ Node(c, k).key = k
  BY NodeProperties DEF Node
<1>3. n \in Nodes(K, V) /\ n.key = k
  BY <1>2 DEF Nodes
<1>4. Touched(c, k).list = Prepended(n, s)
  BY DEF Touched, Prepended
<1>5. \A u, v : Ahead(s, u, v) => Ahead(c.list, u, v) /\ u # k /\ v # k
  BY RemovedOrder
<1> HIDE DEF s, n
<1>6. Ahead(s, x, y) \/ (x = n.key /\ y \in KeysIn(s))
  BY <1>1, <1>3, <1>4, PrependedOrder
<1>7. QED
  BY <1>1, <1>3, <1>5, <1>6 DEF KeysIn

LEMMA InsertedOrder ==
  ASSUME NEW K, NEW V, NEW c, Shaped(c, K, V), Linked(c), NEW k \in K \ c.map,
         NEW w \in Nat, NEW v \in V, NEW x, NEW y, Ahead(Inserted(c, k, w, v).list, x, y)
  PROVE  Ahead(c.list, x, y) \/ (x = k /\ y \in c.map)
<1> DEFINE n == [key |-> k, value |-> v, weight |-> w, usecount |-> 0]
<1>1. n \in Nodes(K, V) /\ n.key = k
  BY DEF Nodes
<1>2. Inserted(c, k, w, v).list = Prepended(n, c.list)
  BY DEF Inserted, Prepended
<1>3. c.list \in Seq(Nodes(K, V)) /\ KeysIn(c.list) = c.map
  BY DEF Shaped, KeysIn, Linked, KeysOf
<1> HIDE DEF n
<1>4. QED
  BY <1>1, <1>2, <1>3, PrependedOrder

LEMMA UpdatedOrder ==
  ASSUME NEW K, NEW V, NEW c, Shaped(c, K, V), Linked(c), NEW k \in c.map,
         NEW w \in Nat, NEW v \in V, NEW x, NEW y, Ahead(Updated(c, k, w, v).list, x, y)
  PROVE  Ahead(c.list, x, y)
<1> DEFINE p == Position(c, k)
           n == [c.list[p] EXCEPT !.value = v, !.weight = w]
           t == [c.list EXCEPT ![p] = n]
<1>1. p \in 1..Len(c.list) /\ c.list[p] \in Nodes(K, V)
  BY NodeProperties DEF Node
<1>2. n \in Nodes(K, V) /\ n.key = c.list[p].key
  BY <1>1 DEF Nodes
<1>3. Updated(c, k, w, v).list = t
  BY DEF Updated
<1>4. /\ c.list \in Seq(Nodes(K, V))
  BY DEF Shaped
<1> HIDE DEF p, n
<1>5. /\ Len(t) = Len(c.list)
      /\ \A i \in 1..Len(c.list) : t[i] = IF i = p THEN n ELSE c.list[i]
  BY <1>1, <1>2, <1>4, ExceptSeq
<1> HIDE DEF t
<1>6. \A i \in 1..Len(c.list) : t[i].key = c.list[i].key
  BY <1>2, <1>5
<1>7. QED
  BY <1>3, <1>5, <1>6 DEF Ahead

\* What is cut off is behind what stays.
LEMMA CutOrder ==
  ASSUME NEW K, NEW V, NEW c, Shaped(c, K, V), Linked(c), NEW n \in 0..Len(c.list)
  PROVE  /\ \A x, y : Ahead(CutTo(c, n).list, x, y) => Ahead(c.list, x, y)
         /\ \A x \in CutTo(c, n).map, y \in c.map \ CutTo(c, n).map : Ahead(c.list, x, y)
<1> DEFINE d == CutTo(c, n)
<1>1. c.list \in Seq(Nodes(K, V)) /\ Len(c.list) \in Nat /\ n \in Nat /\ n <= Len(c.list)
  BY DEF Shaped
<1>2. d.list = SubSeq(c.list, 1, n)
  BY DEF CutTo
<1>3. Len(d.list) = n /\ \A i \in 1..n : d.list[i] = c.list[i]
  BY <1>1, <1>2, SubSeqProperties
<1>4. Linked(d)
  BY CutKeeps
<1> HIDE DEF d
<1>5. ASSUME NEW x, NEW y, Ahead(d.list, x, y) PROVE Ahead(c.list, x, y)
  <2>1. PICK i, j \in 1..n : i < j /\ c.list[i].key = x /\ c.list[j].key = y
    BY <1>3, <1>5 DEF Ahead
  <2>2. i \in 1..Len(c.list) /\ j \in 1..Len(c.list)
    BY <1>1
  <2>3. QED
    BY <2>1, <2>2 DEF Ahead
<1>6. ASSUME NEW x \in d.map, NEW y \in c.map \ d.map PROVE Ahead(c.list, x, y)
  <2>1. PICK i \in 1..n : c.list[i].key = x
    BY <1>3, <1>4 DEF Linked, KeysOf
  <2>2. PICK j \in 1..Len(c.list) : c.list[j].key = y
    BY DEF Linked, KeysOf
  <2>3. j \notin 1..n
    BY <1>3, <1>4, <1>6, <2>2 DEF Linked, KeysOf
  <2>4. i \in 1..Len(c.list) /\ i < j
    BY <1>1, <2>3
  <2>5. QED
    BY <2>1, <2>2, <2>4 DEF Ahead
<1>7. QED
  BY <1>5, <1>6 DEF d

\* What a store keeps is in the old order, and what it evicts was behind it;
\* only a key that was not there comes to the front.
LEMMA StoredOrder ==
  ASSUME NEW K, NEW V, NEW c, Shaped(c, K, V), Linked(c), NEW k \in K, NEW w \in Nat, NEW v \in V,
         NEW d \in Stored(c, k, w, v), NEW x, NEW y,
         Ahead(d.list, x, y) \/ (x \in d.map /\ y \in c.map \ d.map)
  PROVE  Ahead(c.list, x, y) \/ (k \notin c.map /\ x = k /\ y \in c.map)
<1> DEFINE e == IF HasKey(c, k) THEN Updated(c, k, w, v) ELSE Inserted(c, k, w, v)
<1>1. Shaped(e, K, V) /\ Linked(e) /\ c.map \subseteq e.map
  <2>1. CASE HasKey(c, k)
    BY <2>1, UpdatedKeeps DEF HasKey
  <2>2. CASE ~HasKey(c, k)
    BY <2>2, InsertedKeeps DEF HasKey
  <2>3. QED
    BY <2>1, <2>2
<1>2. PICK n \in 0..Len(e.list) : d = CutTo(e, n)
  BY DEF Stored, Trimmed
<1>3. ASSUME Ahead(e.list, x, y)
      PROVE  Ahead(c.list, x, y) \/ (k \notin c.map /\ x = k /\ y \in c.map)
  <2>1. CASE HasKey(c, k)
    <3>1. k \in c.map /\ Ahead(Updated(c, k, w, v).list, x, y)
      BY <1>3, <2>1 DEF HasKey
    <3>2. QED
      BY <3>1, UpdatedOrder
  <2>2. CASE ~HasKey(c, k)
    <3>1. k \in K \ c.map /\ Ahead(Inserted(c, k, w, v).list, x, y)
      BY <1>3, <2>2 DEF HasKey
    <3>2. Ahead(c.list, x, y) \/ (x = k /\ y \in c.map)
      BY <3>1, InsertedOrder
    <3>3. QED
      BY <3>1, <3>2
  <2>3. QED
    BY <2>1, <2>2
<1> HIDE DEF e
<1>4. /\ \A a, b : Ahead(CutTo(e, n).list, a, b) => Ahead(e.list, a, b)
      /\ \A a \in CutTo(e, n).map, b \in e.map \ CutTo(e, n).map : Ahead(e.list, a, b)
  BY <1>1, CutOrder
<1>5. Ahead(e.list, x, y)
  BY <1>1, <1>2, <1>4
<1>6. QED
  BY <1>3, <1>5
=============================================================================
