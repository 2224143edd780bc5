---------------------------- MODULE NativeProofs ----------------------------
(***************************************************************************)
(* Theorems about three parts of the native compiler: IdentifierTable, for *)
(* every set of names, every hash function, every size of the table and    *)
(* any number of scripts; and, below, the linker (Relocation), for every   *)
(* code, any functions and any number of jumps between them, and the code  *)
(* that is written for it (CodeBuffer), for any length.                    *)
(***************************************************************************)
EXTENDS IdentifierTable, SequenceTheorems, WellFoundedInduction, FiniteSetTheorems, TLAPS

L == INSTANCE Relocation

\* A search stays inside the table.
LEMMA InTable ==
  ASSUME NEW n \in Identifier, NEW d \in Slot
  PROVE  At(n, d) \in Slot
<1>1. HashString[n] + d \in Nat /\ Size \in Nat /\ Size > 0
  BY ConstantsAssumption DEF Slot
<1>2. QED
  BY <1>1 DEF At, Slot

\* What a search for a name finds is a listed identifier of that name, unless
\* it searches for "#globals" and one was left behind.
LEMMA FindsListed ==
  ASSUME IInv, NEW n \in Identifier, n # Globals \/ ~leaked, NEW s \in Slot,
         Matches(list, s, n)
  PROVE  table[s].index \in Listed /\ list[table[s].index] = n
<1>1. table[s].type = "identifier" /\ table[s].hash = HashString[n] /\ list[table[s].index] = n
  BY DEF Matches
<1>2. ~Stale(table[s])
  BY <1>1, ConstantsAssumption DEF Stale, Identifier
<1>3. QED
  BY <1>1, <1>2 DEF IInv, EntryInv

\* A listed identifier is found.
LEMMA ListedIsFound ==
  ASSUME IInv, NEW i \in Listed, list[i] # Globals \/ ~leaked
  PROVE  IsDefined(list, list[i])
<1>1. PICK d \in Slot : ReachedAt(i, d)
  BY DEF IInv, ReachInv
<1>2. Matches(list, At(list[i], d), list[i])
  BY <1>1 DEF ReachedAt, Entry, Matches
<1>3. QED
  BY <1>1, <1>2 DEF ReachedAt, FoundAt, IsDefined

\* The invariant gives what LookupAgrees promises.
LEMMA Agreement == IInv => LookupAgrees
<1> SUFFICES ASSUME IInv, NEW n \in Identifier, n # Globals \/ ~leaked
             PROVE  /\ \A i \in Listed : list[i] = n => GetIdentifierByName(n) = i
                    /\ (\A i \in Listed : list[i] # n) => ~IsDefined(list, n)
  BY DEF LookupAgrees
<1>1. ASSUME NEW i \in Listed, list[i] = n
      PROVE  GetIdentifierByName(n) = i
  <2> DEFINE d == CHOOSE d \in Slot : FoundAt(list, n, d)
  <2>1. IsDefined(list, n)
    BY <1>1, ListedIsFound
  <2>2. d \in Slot /\ FoundAt(list, n, d)
    BY <2>1 DEF IsDefined
  <2> HIDE DEF d
  <2>3. At(n, d) \in Slot /\ Matches(list, At(n, d), n)
    BY <2>2, InTable DEF FoundAt
  <2>4. table[At(n, d)].index \in Listed /\ list[table[At(n, d)].index] = n
    BY <2>3, FindsListed
  <2>5. table[At(n, d)].index = i
    BY <2>4, <1>1 DEF IInv, ListInv
  <2>6. QED
    BY <2>1, <2>5 DEF GetIdentifierByName, d
<1>2. ASSUME \A i \in Listed : list[i] # n
      PROVE  ~IsDefined(list, n)
  <2> SUFFICES ASSUME NEW d \in Slot, FoundAt(list, n, d)
               PROVE  FALSE
    BY DEF IsDefined
  <2>1. At(n, d) \in Slot /\ Matches(list, At(n, d), n)
    BY InTable DEF FoundAt
  <2>2. QED
    BY <2>1, <1>2, FindsListed
<1>3. QED
  BY <1>1, <1>2

-----------------------------------------------------------------------------
(* Adding an identifier.                                                   *)

\* The common part of the actions that add one.
Adds(n) ==
  /\ HashManagerAdd(occupied, n)
  /\ stage \notin {"globals", "rest", "resolve"}
  /\ occupied + 1 < MaxIdentifiers
  /\ leaked' = leaked
  /\ \/ predefined' = predefined /\ stage # "language"
     \/ predefined' = predefined + 1 /\ stage = "language"
  /\ Listed' = Listed \cup {occupied}

\* The new entry, and all others as they were.
LEMMA AddedWhere ==
  ASSUME IInv, NEW n \in Identifier, Adds(n)
  PROVE  /\ \E d \in Slot : FirstFree(n, d) /\ table' = [table EXCEPT ![At(n, d)] = Entry(occupied, n)]
         /\ Listed = {i \in Index : i < occupied}
         /\ occupied \in Index /\ occupied \notin Listed
         /\ \A i \in Listed : list'[i] = list[i]
         /\ list'[occupied] = n
         /\ \A j \in Index : j # occupied => list'[j] = list[j]
<1>1. occupied \in Index /\ list \in [Index -> Identifier \cup {Blank}]
  BY DEF IInv, TypeOK
<1>2. Listed = {i \in Index : i < occupied} /\ occupied \notin Listed
  BY <1>1 DEF Adds, Listed, Index
<1>3. QED
  BY <1>1, <1>2 DEF Adds, HashManagerAdd

LEMMA AddKeepsTypes ==
  ASSUME IInv, NEW n \in Identifier, Adds(n)
  PROVE  /\ list' \in [Index -> Identifier \cup {Blank}]
         /\ table' \in [Slot -> EntryType]
<1>1. Entry(occupied, n) \in EntryType
  BY ConstantsAssumption DEF IInv, TypeOK, Entry, EntryType
<1>2. QED
  BY <1>1 DEF IInv, TypeOK, Adds, HashManagerAdd

LEMMA AddKeepsEntries ==
  ASSUME IInv, NEW n \in Identifier, Adds(n)
  PROVE  EntryInv'
<1>1. PICK d \in Slot : FirstFree(n, d) /\ table' = [table EXCEPT ![At(n, d)] = Entry(occupied, n)]
  BY AddedWhere
<1>2. At(n, d) \in Slot /\ table \in [Slot -> EntryType]
  BY InTable DEF IInv, TypeOK
<1> SUFFICES ASSUME NEW s \in Slot, table'[s].type = "identifier"
             PROVE  \/ table'[s].index \in Listed' /\ table'[s] = Entry(table'[s].index, list'[table'[s].index])
                    \/ Stale(table[s])' 
  BY DEF EntryInv, Entry
<1>3. CASE s = At(n, d)
  <2>1. table'[s] = Entry(occupied, n)
    BY <1>1, <1>2, <1>3
  <2>2. QED
    BY <2>1, AddedWhere DEF Adds, Entry
<1>4. CASE s # At(n, d)
  <2>1. table'[s] = table[s]
    BY <1>1, <1>2, <1>4
  <2>2. CASE table[s].index \in Listed /\ table[s] = Entry(table[s].index, list[table[s].index])
    BY <2>1, <2>2, AddedWhere DEF Adds
  <2>3. CASE Stale(table[s])
    <3>1. predefined' = predefined
      BY <2>3 DEF Stale, IInv, StageInv, Adds
    <3>2. QED
      BY <2>1, <2>3, <3>1 DEF Stale, Adds
  <2>4. QED
    BY <2>1, <2>2, <2>3 DEF IInv, EntryInv
<1>5. QED
  BY <1>3, <1>4

LEMMA AddKeepsSingle ==
  ASSUME IInv, NEW n \in Identifier, Adds(n)
  PROVE  SingleInv'
<1>1. PICK d \in Slot : FirstFree(n, d) /\ table' = [table EXCEPT ![At(n, d)] = Entry(occupied, n)]
  BY AddedWhere
<1>2. At(n, d) \in Slot /\ table \in [Slot -> EntryType]
  BY InTable DEF IInv, TypeOK
<1>3. ASSUME NEW t \in Slot, table[t] = Entry(occupied, n),
             HashString[n] # HashString[Globals] \/ ~leaked
      PROVE  FALSE
  <2>1. table[t].type = "identifier" /\ table[t].index = occupied /\ table[t].hash = HashString[n]
    BY <1>3 DEF Entry
  <2>2. ~Stale(table[t])
    BY <2>1, <1>3 DEF Stale
  <2>3. QED
    BY <2>1, <2>2, AddedWhere DEF IInv, EntryInv
<1> SUFFICES ASSUME NEW s \in Slot, NEW t \in Slot, table'[s].type = "identifier",
                    table'[s] = table'[t],
                    table'[s].hash # HashString[Globals] \/ ~leaked
             PROVE  s = t
  BY DEF SingleInv, Adds
<1>4. CASE s = At(n, d) /\ t # At(n, d)
  <2>1. table'[s] = Entry(occupied, n) /\ table'[t] = table[t]
    BY <1>1, <1>2, <1>4
  <2>2. table[t] = Entry(occupied, n)
    BY <2>1
  <2>3. table'[s].hash = HashString[n]
    BY <2>1 DEF Entry
  <2>4. QED
    BY <2>2, <2>3, <1>3
<1>5. CASE s # At(n, d) /\ t = At(n, d)
  <2>1. table'[t] = Entry(occupied, n) /\ table'[s] = table[s]
    BY <1>1, <1>2, <1>5
  <2>2. QED
    BY <2>1, <1>3 DEF Entry
<1>6. CASE s # At(n, d) /\ t # At(n, d)
  <2>1. table'[t] = table[t] /\ table'[s] = table[s]
    BY <1>1, <1>2, <1>6
  <2>2. QED
    BY <2>1 DEF IInv, SingleInv
<1>7. QED
  BY <1>4, <1>5, <1>6

\* The ways to the old entries stay closed, since only a free slot is filled.
LEMMA AddKeepsWays ==
  ASSUME IInv, NEW n \in Identifier, Adds(n), \A i \in Listed : list[i] # n,
         NEW i \in Listed, NEW k \in Slot, ReachedAt(i, k)
  PROVE  ReachedAt(i, k)'
<1>1. PICK d \in Slot : FirstFree(n, d) /\ table' = [table EXCEPT ![At(n, d)] = Entry(occupied, n)]
  BY AddedWhere
<1>2. PICK m \in Identifier : m = list[i] /\ m = list'[i] /\ m # n
  BY AddedWhere DEF IInv, ListInv
<1>3. ASSUME NEW s \in Slot, table[s].type # "unknown"
      PROVE  table'[s] = table[s]
  BY <1>1, <1>3 DEF FirstFree, IInv, TypeOK
<1>4. At(m, k) \in Slot /\ table[At(m, k)] = Entry(i, m) /\ Passes(list, m, k)
  BY <1>2, InTable DEF ReachedAt
<1>5. table'[At(m, k)] = Entry(i, m)
  BY <1>3, <1>4 DEF Entry
<1>6. ASSUME NEW e \in Slot, e < k
      PROVE  /\ At(m, e) \in Slot /\ table'[At(m, e)] = table[At(m, e)]
             /\ table[At(m, e)].type # "unknown"
             /\ ~Matches(list, At(m, e), m)
  BY <1>2, <1>3, <1>4, <1>6, InTable DEF Passes
<1>7. ASSUME NEW e \in Slot, e < k
      PROVE  ~Matches(list, At(m, e), m)'
  <2>1. table[At(m, e)].index \in Index
    BY <1>6, <1>7 DEF IInv, TypeOK, EntryType
  <2>2. list'[table[At(m, e)].index] = m => list[table[At(m, e)].index] = m
    BY <2>1, <1>2, AddedWhere
  <2>3. QED
    BY <2>2, <1>6, <1>7 DEF Matches, At
<1>8. Passes(list, m, k)'
  BY <1>6, <1>7 DEF Passes, At
<1>9. ASSUME i < predefined', NEW e \in Slot, e < k
      PROVE  Lasting(table[At(m, e)])'
  <2>1. CASE i < predefined
    <3>1. Lasting(table[At(m, e)])
      BY <2>1, <1>2, <1>9 DEF ReachedAt
    <3>2. predefined' >= predefined
      BY DEF Adds, IInv, TypeOK
    <3>3. predefined \in Nat /\ predefined' \in Nat /\ table[At(m, e)].index \in Nat
      BY <1>6, <1>9 DEF Adds, IInv, TypeOK, EntryType, Index
    <3>4. QED
      BY <3>1, <3>2, <3>3, <1>6, <1>9 DEF Lasting, At
  <2>2. CASE ~(i < predefined)
    BY <2>2, <1>9, AddedWhere DEF Adds, IInv, StageInv, TypeOK, Index
  <2>3. QED
    BY <2>1, <2>2
<1>10. QED
  BY <1>2, <1>5, <1>8, <1>9 DEF ReachedAt, At, Entry

\* The first free slot is one a search for the new name comes to.
LEMMA AddReaches ==
  ASSUME IInv, NEW n \in Identifier, Adds(n), \A i \in Listed : list[i] # n,
         n # Globals \/ ~leaked, NEW i \in Index, i = occupied
  PROVE  \E d \in Slot : ReachedAt(i, d)'
<1>1. PICK d \in Slot : FirstFree(n, d) /\ table' = [table EXCEPT ![At(n, d)] = Entry(occupied, n)]
  BY AddedWhere
<1>2. At(n, d) \in Slot /\ table'[At(n, d)] = Entry(occupied, n)
  BY <1>1, InTable DEF IInv, TypeOK
<1>3. ASSUME NEW e \in Slot, e < d
      PROVE  /\ At(n, e) \in Slot /\ table'[At(n, e)] = table[At(n, e)]
             /\ table[At(n, e)].type # "unknown" /\ table[At(n, e)] \in EntryType
  BY <1>1, <1>3, InTable DEF FirstFree, IInv, TypeOK
<1>4. ASSUME NEW e \in Slot, e < d
      PROVE  table[At(n, e)].type = "identifier" /\ table[At(n, e)].hash = HashString[n]
               => /\ table[At(n, e)].index \in Listed
                  /\ list'[table[At(n, e)].index] # n
  <2>1. ASSUME table[At(n, e)].type = "identifier", table[At(n, e)].hash = HashString[n]
        PROVE  ~Stale(table[At(n, e)])
    BY <2>1, ConstantsAssumption DEF Stale, Identifier
  <2>2. QED
    BY <2>1, <1>3, <1>4, AddedWhere DEF IInv, EntryInv
<1>5. Passes(list, n, d)'
  BY <1>3, <1>4 DEF Passes, Matches, At
<1>6. ASSUME i < predefined', NEW e \in Slot, e < d
      PROVE  Lasting(table[At(n, e)])'
  <2>1. stage = "language" /\ ~leaked /\ predefined' = predefined + 1 /\ occupied = predefined
    BY <1>6 DEF Adds, IInv, StageInv, TypeOK, Index
  <2>2. table[At(n, e)].type = "identifier" => table[At(n, e)].index < predefined'
    BY <2>1, <1>3, <1>6, AddedWhere DEF IInv, EntryInv, Stale, TypeOK, Index
  <2>3. table[At(n, e)].type \in {"keyword", "identifier"}
    BY <1>3, <1>6 DEF EntryType
  <2>4. QED
    BY <2>2, <2>3, <1>3, <1>6 DEF Lasting, At
<1>7. list'[i] = n
  BY AddedWhere
<1>8. QED
  BY <1>2, <1>5, <1>6, <1>7 DEF ReachedAt, At, Entry

LEMMA AddKeeps ==
  ASSUME IInv, NEW n \in Identifier, Adds(n), \A i \in Listed : list[i] # n
  PROVE  EntryInv' /\ SingleInv' /\ ReachInv'
<1>1. ASSUME NEW i \in Listed', list'[i] # Globals \/ ~leaked'
      PROVE  \E d \in Slot : ReachedAt(i, d)'
  <2>1. CASE i \in Listed
    <3>1. list[i] # Globals \/ ~leaked
      BY <1>1, <2>1, AddedWhere DEF Adds
    <3>2. PICK d \in Slot : ReachedAt(i, d)
      BY <2>1, <3>1 DEF IInv, ReachInv
    <3>3. QED
      BY <2>1, <3>2, AddKeepsWays
  <2>2. CASE i = occupied
    <3>1. i \in Index /\ (n # Globals \/ ~leaked)
      BY <1>1, <2>2, AddedWhere DEF Adds
    <3>2. QED
      BY <2>2, <3>1, AddReaches
  <2>3. QED
    BY <2>1, <2>2 DEF Adds
<1>2. QED
  BY <1>1, AddKeepsEntries, AddKeepsSingle DEF ReachInv

\* No name is listed twice if the one added was not listed.
LEMMA AddKeepsList ==
  ASSUME IInv, NEW n \in Identifier, Adds(n), \A i \in Listed : list[i] # n,
         stage = "language" => n \in Name,
         n = Loader => stage' \in {"walk", "globals", "rest", "resolve"},
         n = Globals => stage' \in {"globals", "rest", "resolve"},
         stage \in {"walk", "globals", "rest", "resolve"}
           => stage' \in {"walk", "globals", "rest", "resolve"}
  PROVE  ListInv'
<1>1. \A i \in Listed' : i \in Listed \/ i = occupied
  BY DEF Adds
<1>2. \A i \in Listed : list[i] # Globals
  BY DEF Adds, IInv, ListInv
<1>3. ASSUME NEW i \in Listed', i < predefined'
      PROVE  list'[i] \in Name
  <2>1. CASE i \in Listed /\ i < predefined
    BY <2>1, AddedWhere DEF IInv, ListInv
  <2>2. CASE i \in Listed /\ ~(i < predefined)
    BY <2>2, <1>3, AddedWhere DEF Adds, IInv, StageInv, TypeOK, Index
  <2>3. CASE i = occupied
    <3>1. stage = "language"
      BY <2>3, <1>3 DEF Adds, IInv, TypeOK, Index
    <3>2. QED
      BY <2>3, <3>1, AddedWhere
  <2>4. QED
    BY <2>1, <2>2, <2>3, <1>1
<1>4. QED
  BY <1>1, <1>2, <1>3, AddedWhere DEF IInv, ListInv

-----------------------------------------------------------------------------
(* Taking a script's identifiers back.                                     *)

Clears ==
  /\ ClearUserDefinedIdentifiers
  /\ predefined' = predefined
  /\ stage' = "idle"
  /\ leaked' = (leaked \/ stage = "globals")

\* What is listed afterwards was listed before under the same name.
LEMMA ClearedList ==
  ASSUME IInv, Clears
  PROVE  /\ Listed' = {i \in Index : i < predefined}
         /\ \A i \in Index : i < predefined => i \in Listed /\ list'[i] = list[i]
<1>1. predefined \in Nat /\ occupied \in Nat /\ predefined <= occupied
  BY DEF IInv, TypeOK, Index
<1>2. QED
  BY <1>1 DEF Clears, ClearUserDefinedIdentifiers, Listed, UserDefined, Index, IInv, TypeOK

\* The entries that stay are as they were, among them all lasting ones.
LEMMA ClearedEntries ==
  ASSUME IInv, Clears, NEW s \in Slot
  PROVE  /\ table'[s].type # "unknown" => table'[s] = table[s]
         /\ Lasting(table[s]) => table'[s] = table[s]
<1>1. table'[s] = IF \E i \in UserDefined : Deleted(i, s) THEN Free ELSE table[s]
  BY DEF Clears, ClearUserDefinedIdentifiers
<1>2. ASSUME Lasting(table[s]), NEW i \in UserDefined, Deleted(i, s)
      PROVE  FALSE
  <2>1. table[s].type = "identifier" /\ table[s].index = i
    BY <1>2 DEF Deleted, Entry
  <2>2. i \in Nat /\ predefined \in Nat /\ predefined <= i
    BY DEF UserDefined, Index, IInv, TypeOK
  <2>3. QED
    BY <1>2, <2>1, <2>2 DEF Lasting
<1>3. QED
  BY <1>1, <1>2 DEF Free

\* The script's own identifiers lose their entries.
LEMMA ClearedOwn ==
  ASSUME IInv, Clears, NEW s \in Slot, NEW i \in UserDefined,
         table[s] = Entry(i, list[i]), list[i] # Globals \/ ~leaked
  PROVE  table'[s] = Free
<1>1. i \in Listed
  BY DEF UserDefined, Listed
<1>2. PICK m \in Identifier : m = list[i]
  BY <1>1 DEF IInv, ListInv
<1>3. PICK d \in Slot : ReachedAt(i, d)
  BY <1>1 DEF IInv, ReachInv
<1>4. At(m, d) \in Slot /\ table[At(m, d)] = Entry(i, m) /\ Passes(list, m, d)
  BY <1>2, <1>3, InTable DEF ReachedAt
<1>5. ASSUME NEW e \in Slot, e < d
      PROVE  table[At(m, e)] # Entry(i, m)
  <2>1. ~Matches(list, At(m, e), m)
    BY <1>4, <1>5 DEF Passes
  <2>2. QED
    BY <2>1, <1>2 DEF Matches, Entry
<1>6. Deleted(i, At(m, d))
  BY <1>2, <1>4, <1>5 DEF Deleted
<1>7. HashString[m] # HashString[Globals] \/ ~leaked
  BY <1>2, ConstantsAssumption DEF Identifier
<1>8. table[s].type = "identifier" /\ table[s].hash = HashString[m]
  BY <1>2 DEF Entry
<1>9. s = At(m, d)
  BY <1>2, <1>4, <1>7, <1>8 DEF IInv, SingleInv
<1>10. QED
  BY <1>6, <1>9 DEF Clears, ClearUserDefinedIdentifiers

LEMMA ClearKeepsEntries == IInv /\ Clears => EntryInv'
<1> SUFFICES ASSUME IInv, Clears, NEW s \in Slot, table'[s].type = "identifier"
             PROVE  \/ table'[s].index \in Listed'
                       /\ table'[s] = Entry(table'[s].index, list'[table'[s].index])
                    \/ Stale(table[s])'
  BY DEF EntryInv, Entry
<1>1. table'[s] = table[s] /\ table[s].type = "identifier"
  BY ClearedEntries
<1> DEFINE i == table[s].index
<1>2. predefined \in Nat /\ i \in Nat /\ i \in Index /\ occupied \in Nat
  BY DEF IInv, TypeOK, EntryType, Index
<1>3. CASE Stale(table[s])
  BY <1>1, <1>3 DEF Stale, Clears
<1>4. CASE i \in Listed /\ table[s] = Entry(i, list[i])
  <2>1. CASE i < predefined
    BY <1>1, <1>2, <1>4, <2>1, ClearedList
  <2>2. CASE i \in UserDefined
    <3>1. list[i] = Globals /\ leaked
      BY <1>1, <1>4, <2>2, ClearedOwn DEF Free
    <3>2. table[s].hash = HashString[Globals]
      BY <1>4, <3>1 DEF Entry
    <3>3. i >= predefined
      BY <2>2 DEF UserDefined
    <3>4. QED
      BY <1>1, <3>1, <3>2, <3>3 DEF Stale, Clears
  <2>3. CASE i = occupied /\ stage = "globals"
    <3>1. list[i] = Globals /\ occupied >= predefined
      BY <2>3 DEF IInv, StageInv, TypeOK
    <3>2. table[s].hash = HashString[Globals]
      BY <1>4, <3>1 DEF Entry
    <3>3. QED
      BY <1>1, <2>3, <3>1, <3>2 DEF Stale, Clears
  <2>4. QED
    BY <1>2, <1>4, <2>1, <2>2, <2>3 DEF Listed, UserDefined
<1>5. QED
  BY <1>1, <1>3, <1>4 DEF IInv, EntryInv

LEMMA ClearKeepsSingle == IInv /\ Clears => SingleInv'
<1> SUFFICES ASSUME IInv, Clears, NEW s \in Slot, NEW t \in Slot,
                    table'[s].type = "identifier", table'[s] = table'[t],
                    table'[s].hash # HashString[Globals] \/ ~leaked'
             PROVE  s = t
  BY DEF SingleInv
<1>1. table'[s] = table[s] /\ table'[t] = table[t]
  BY ClearedEntries
<1>2. QED
  BY <1>1 DEF IInv, SingleInv, Clears

LEMMA ClearKeepsWays == IInv /\ Clears => ReachInv'
<1> SUFFICES ASSUME IInv, Clears, NEW i \in Listed', list'[i] # Globals \/ ~leaked'
             PROVE  \E d \in Slot : ReachedAt(i, d)'
  BY DEF ReachInv
<1>1. i \in Index /\ i \in Nat /\ i < predefined /\ i \in Listed /\ list'[i] = list[i]
  BY ClearedList DEF Index
<1>2. PICK m \in Identifier : m = list[i] /\ m = list'[i]
  BY <1>1 DEF IInv, ListInv
<1>3. list[i] # Globals \/ ~leaked
  BY <1>1 DEF Clears
<1>4. PICK d \in Slot : ReachedAt(i, d)
  BY <1>1, <1>3 DEF IInv, ReachInv
<1>5. At(m, d) \in Slot /\ table[At(m, d)] = Entry(i, m)
  BY <1>2, <1>4, InTable DEF ReachedAt
<1>6. table'[At(m, d)] = Entry(i, m)
  <2>1. Lasting(table[At(m, d)])
    BY <1>1, <1>5 DEF Lasting, Entry
  <2>2. QED
    BY <1>5, <2>1, ClearedEntries
<1>7. ASSUME NEW e \in Slot, e < d
      PROVE  /\ At(m, e) \in Slot /\ Lasting(table[At(m, e)])
             /\ table'[At(m, e)] = table[At(m, e)]
             /\ ~Matches(list, At(m, e), m)
  <2>1. At(m, e) \in Slot /\ Lasting(table[At(m, e)]) /\ ~Matches(list, At(m, e), m)
    BY <1>1, <1>2, <1>4, <1>7, InTable DEF ReachedAt, Passes
  <2>2. QED
    BY <2>1, ClearedEntries
<1>8. ASSUME NEW e \in Slot, e < d
      PROVE  ~Matches(list, At(m, e), m)' /\ table'[At(m, e)].type # "unknown"
  <2>1. CASE table[At(m, e)].type = "keyword"
    BY <2>1, <1>7, <1>8 DEF Matches, At
  <2>2. CASE table[At(m, e)].type = "identifier" /\ table[At(m, e)].index < predefined
    <3>1. table[At(m, e)].index \in Index
      BY <1>7, <1>8 DEF IInv, TypeOK, EntryType
    <3>2. list'[table[At(m, e)].index] = list[table[At(m, e)].index]
      BY <2>2, <3>1, ClearedList
    <3>3. QED
      BY <2>2, <3>2, <1>7, <1>8 DEF Matches, At
  <2>3. QED
    BY <2>1, <2>2, <1>7, <1>8 DEF Lasting
<1>9. Passes(list, m, d)'
  BY <1>8 DEF Passes, At
<1>10. \A e \in Slot : e < d => Lasting(table[At(m, e)])'
  BY <1>7 DEF Lasting, At, Clears
<1>11. QED
  BY <1>2, <1>6, <1>9, <1>10 DEF ReachedAt, At, Entry

LEMMA ClearKeeps == IInv /\ Clears => IInv'
<1> SUFFICES ASSUME IInv, Clears
             PROVE  IInv'
  OBVIOUS
<1>1. TypeOK'
  <2>1. Free \in EntryType /\ 0 \in Index
    BY ConstantsAssumption DEF Free, EntryType, Index
  <2>2. table' \in [Slot -> EntryType]
    BY <2>1 DEF IInv, TypeOK, Clears, ClearUserDefinedIdentifiers
  <2>3. predefined \in Index /\ predefined' \in 0 .. occupied'
    BY ConstantsAssumption DEF IInv, TypeOK, Index, Clears, ClearUserDefinedIdentifiers
  <2>4. list' \in [Index -> Identifier \cup {Blank}]
    BY DEF IInv, TypeOK, Clears, ClearUserDefinedIdentifiers
  <2>5. leaked' \in BOOLEAN
    BY DEF IInv, TypeOK, Clears
  <2>6. QED
    BY <2>2, <2>3, <2>4, <2>5 DEF TypeOK, Clears, ClearUserDefinedIdentifiers
<1>2. StageInv'
  BY DEF StageInv, Clears, ClearUserDefinedIdentifiers
<1>3. ListInv'
  <2>1. \A i \in Listed' : i \in Index /\ i < predefined /\ i \in Listed /\ list'[i] = list[i]
    BY ClearedList
  <2>2. \A i \in Listed' : list'[i] \in Name
    BY <2>1 DEF IInv, ListInv
  <2>3. \A i, j \in Listed' : list'[i] = list'[j] => i = j
    BY <2>1 DEF IInv, ListInv
  <2>4. \A i \in Listed' : list'[i] \in Identifier /\ list'[i] # Loader /\ list'[i] # Globals
    BY <2>2, ConstantsAssumption DEF Identifier
  <2>5. QED
    BY <2>2, <2>3, <2>4 DEF ListInv
<1>4. QED
  BY <1>1, <1>2, <1>3, ClearKeepsEntries, ClearKeepsSingle, ClearKeepsWays DEF IInv

-----------------------------------------------------------------------------
(* A name behind the end of the list.                                      *)

\* No search but that for "#globals" sees it.
LEMMA RenamedMatches ==
  ASSUME IInv, stage = "parse", NEW n \in Name, NEW m \in Name, NEW s \in Slot
  PROVE  Matches(Renamed(n), s, m) <=> Matches(list, s, m)
<1> SUFFICES ASSUME table[s].type = "identifier", table[s].hash = HashString[m]
             PROVE  Renamed(n)[table[s].index] = list[table[s].index]
  BY DEF Matches
<1>1. ~Stale(table[s])
  BY ConstantsAssumption DEF Stale
<1>2. table[s].index \in Listed
  BY <1>1 DEF IInv, EntryInv
<1>3. table[s].index \in Index /\ table[s].index # occupied
  BY <1>2 DEF Listed, IInv, TypeOK, Index
<1>4. QED
  BY <1>3 DEF Renamed, IInv, TypeOK

LEMMA RenamedDefined ==
  ASSUME IInv, stage = "parse", NEW n \in Name
  PROVE  IsDefined(Renamed(n), n) <=> IsDefined(list, n)
<1>1. \A d \in Slot : At(n, d) \in Slot
  BY InTable DEF Identifier
<1>2. \A d \in Slot : Matches(Renamed(n), At(n, d), n) <=> Matches(list, At(n, d), n)
  BY <1>1, RenamedMatches
<1>3. \A d \in Slot : FoundAt(Renamed(n), n, d) <=> FoundAt(list, n, d)
  BY <1>2 DEF FoundAt, Passes
<1>4. QED
  BY <1>3 DEF IsDefined

LEMMA RenameKeeps ==
  ASSUME IInv, stage = "parse", NEW n \in Name, list' = Renamed(n),
         UNCHANGED <<occupied, predefined, table, stage, leaked>>
  PROVE  IInv'
<1>1. Listed' = Listed /\ Listed = {i \in Index : i < occupied}
  BY DEF Listed
<1>2. \A i \in Listed : list'[i] = list[i]
  BY <1>1 DEF Renamed, IInv, TypeOK, Index
<1>3. TypeOK'
  BY DEF IInv, TypeOK, Renamed, Identifier
<1>4. StageInv'
  BY DEF StageInv
<1>5. ListInv'
  BY <1>1, <1>2 DEF IInv, ListInv
<1>6. EntryInv'
  BY <1>1, <1>2 DEF IInv, EntryInv, Stale, Entry
<1>7. SingleInv'
  BY DEF IInv, SingleInv
<1>8. ASSUME NEW i \in Listed
      PROVE  \E d \in Slot : ReachedAt(i, d)'
  <2>1. PICK m \in Name : m = list[i] /\ m = list'[i]
    BY <1>2, <1>8, ConstantsAssumption DEF IInv, ListInv, Identifier
  <2>2. PICK d \in Slot : ReachedAt(i, d)
    BY <1>8, <2>1, ConstantsAssumption DEF IInv, ReachInv
  <2>3. \A e \in Slot : At(m, e) \in Slot
    BY InTable DEF Identifier
  <2>4. \A e \in Slot : Matches(list, At(m, e), m)' => Matches(list, At(m, e), m)
    BY <2>3, RenamedMatches DEF Matches, At
  <2>5. Passes(list, m, d)'
    BY <2>1, <2>2, <2>4 DEF ReachedAt, Passes, At
  <2>6. QED
    BY <2>1, <2>2, <2>5 DEF ReachedAt, At, Entry, Lasting
<1>9. QED
  BY <1>1, <1>3, <1>4, <1>5, <1>6, <1>7, <1>8 DEF IInv, ReachInv

-----------------------------------------------------------------------------
(* The invariant.                                                          *)

LEMMA InitHolds == Init => IInv
<1> SUFFICES ASSUME Init
             PROVE  IInv
  OBVIOUS
<1>1. Free \in EntryType /\ Taken \in EntryType /\ 0 \in Index
  BY ConstantsAssumption DEF Free, Taken, EntryType, Index
<1>2. TypeOK
  <2>1. table \in [Slot -> EntryType]
    BY <1>1 DEF Init
  <2>2. list \in [Index -> Identifier \cup {Blank}]
    BY DEF Init
  <2>3. occupied = 0 /\ predefined = 0 /\ predefined \in 0 .. occupied
    BY DEF Init
  <2>4. QED
    BY <1>1, <2>1, <2>2, <2>3 DEF Init, TypeOK
<1>3. Listed = {}
  BY DEF Init, Listed, Index
<1>4. \A s \in Slot : table[s].type # "identifier"
  BY DEF Init, Free, Taken
<1>5. QED
  BY <1>2, <1>3, <1>4 DEF Init, IInv, StageInv, ListInv, EntryInv, SingleInv, ReachInv

\* An identifier that was not found is not listed.
LEMMA Unlisted ==
  ASSUME IInv, NEW n \in Name, ~IsDefined(list, n)
  PROVE  \A i \in Listed : list[i] # n
  BY ListedIsFound, ConstantsAssumption

\* What holds of the table does so while table, list and what is listed stay.
LEMMA TableStays ==
  ASSUME IInv, Listed' = Listed, UNCHANGED <<list, predefined, table, leaked>>
  PROVE  EntryInv' /\ SingleInv' /\ ReachInv'
<1>1. EntryInv'
  BY DEF IInv, EntryInv, Stale, Entry
<1>2. SingleInv'
  BY DEF IInv, SingleInv
<1>3. \A i \in Listed : \A d \in Slot : ReachedAt(i, d) => ReachedAt(i, d)'
  BY DEF ReachedAt, Passes, Matches, At, Entry, Lasting
<1>4. QED
  BY <1>1, <1>2, <1>3 DEF IInv, ReachInv

\* An identifier added behind the end, and counted at once.
LEMMA CountedKeeps ==
  ASSUME IInv, NEW n \in Identifier, n # Globals, HashManagerAdd(occupied, n),
         occupied + 1 < MaxIdentifiers, occupied' = occupied + 1,
         \A i \in Listed : list[i] # n, UNCHANGED leaked,
         \/ /\ stage = "language" /\ stage' = stage /\ n \in Name
            /\ predefined' = predefined + 1
         \/ stage = "parse" /\ stage' = stage /\ n \in Name /\ UNCHANGED predefined
         \/ stage = "parse" /\ stage' = "walk" /\ UNCHANGED predefined
  PROVE  IInv'
<1>1. occupied \in Nat /\ predefined \in Nat /\ MaxIdentifiers \in Nat
  BY ConstantsAssumption DEF IInv, TypeOK, Index
<1>2. Listed = {i \in Index : i < occupied} /\ Listed' = {i \in Index : i < occupied + 1}
  BY DEF Listed
<1>3. Listed' = Listed \cup {occupied}
  BY <1>1, <1>2 DEF Index
<1>4. Adds(n)
  BY <1>3 DEF Adds
<1>5. TypeOK'
  BY <1>1, <1>4, AddKeepsTypes DEF IInv, TypeOK, Index
<1>6. StageInv'
  BY DEF IInv, StageInv
<1>7. ListInv'
  BY <1>4, AddKeepsList, ConstantsAssumption
<1>8. QED
  BY <1>4, <1>5, <1>6, <1>7, AddKeeps DEF IInv

LEMMA StepHolds == IInv /\ [Next]_vars => IInv'
<1> SUFFICES ASSUME IInv, [Next]_vars
             PROVE  IInv'
  OBVIOUS
<1>1. ASSUME NEW n \in Name, ParseIdentifierList(n)
      PROVE  IInv'
  BY <1>1, Unlisted, CountedKeeps, ConstantsAssumption DEF ParseIdentifierList, Identifier
<1>2. CASE ParseIdentifierFileEnds
  <2>1. Listed' = Listed
    BY <1>2 DEF ParseIdentifierFileEnds, Listed
  <2>2. TypeOK' /\ StageInv' /\ ListInv'
    BY <1>2, <2>1 DEF ParseIdentifierFileEnds, IInv, TypeOK, StageInv, ListInv
  <2>3. QED
    BY <1>2, <2>1, <2>2, TableStays DEF ParseIdentifierFileEnds, IInv
<1>3. CASE CompileFile
  <2>1. Listed' = Listed
    BY <1>3 DEF CompileFile, Listed
  <2>2. TypeOK' /\ StageInv' /\ ListInv'
    BY <1>3, <2>1 DEF CompileFile, IInv, TypeOK, StageInv, ListInv
  <2>3. QED
    BY <1>3, <2>1, <2>2, TableStays DEF CompileFile, IInv
<1>4. ASSUME NEW n \in Name, AddUserDefinedIdentifier(n)
      PROVE  IInv'
  <2>1. CASE ~IsDefined(Renamed(n), n)
    <3>1. \A i \in Listed : list[i] # n
      BY <1>4, <2>1, RenamedDefined, Unlisted DEF AddUserDefinedIdentifier
    <3>2. QED
      BY <1>4, <2>1, <3>1, CountedKeeps, ConstantsAssumption
      DEF AddUserDefinedIdentifier, Identifier
  <2>2. CASE IsDefined(Renamed(n), n)
    BY <1>4, <2>2, RenameKeeps DEF AddUserDefinedIdentifier
  <2>3. QED
    BY <2>1, <2>2
<1>5. ASSUME NEW n \in Name, GenerateIdentifiersFromConstantVariables(n)
      PROVE  IInv'
  <2>1. CASE HashManagerAdd(occupied, n) /\ occupied' = occupied + 1
    BY <1>5, <2>1, Unlisted, CountedKeeps, ConstantsAssumption
    DEF GenerateIdentifiersFromConstantVariables, Identifier
  <2>2. CASE list' = Renamed(n) /\ UNCHANGED <<table, occupied>>
    BY <1>5, <2>2, RenameKeeps DEF GenerateIdentifiersFromConstantVariables
  <2>3. QED
    BY <1>5, <2>1, <2>2 DEF GenerateIdentifiersFromConstantVariables
<1>6. CASE CleanUpDuringCompile
  BY <1>6, ClearKeeps DEF CleanUpDuringCompile, Clears, IInv, TypeOK
<1>7. CASE InstallLoader
  <2>1. \A i \in Listed : list[i] # Loader
    BY <1>7 DEF InstallLoader, IInv, ListInv
  <2>2. CASE HashManagerAdd(occupied, Loader) /\ occupied + 1 < MaxIdentifiers
             /\ occupied' = occupied + 1
    BY <1>7, <2>1, <2>2, CountedKeeps, ConstantsAssumption DEF InstallLoader, Identifier
  <2>3. CASE UNCHANGED <<list, table, occupied>>
    <3>1. Listed' = Listed
      BY <1>7, <2>3 DEF InstallLoader, Listed
    <3>2. TypeOK' /\ StageInv' /\ ListInv'
      BY <1>7, <2>3, <3>1 DEF InstallLoader, IInv, TypeOK, StageInv, ListInv
    <3>3. QED
      BY <1>7, <2>3, <3>1, <3>2, TableStays DEF InstallLoader, IInv
  <2>4. QED
    BY <1>7, <2>2, <2>3 DEF InstallLoader
<1>8. CASE BeginGlobals
  <2>1. \A i \in Listed : list[i] # Globals
    BY <1>8 DEF BeginGlobals, IInv, ListInv
  <2>2. Listed = {i \in Index : i < occupied}
        /\ Listed' = {i \in Index : i < occupied \/ i = occupied}
    BY <1>8 DEF BeginGlobals, Listed
  <2>3. occupied \in Index
    BY DEF IInv, TypeOK
  <2>4. Listed' = Listed \cup {occupied}
    BY <2>2, <2>3
  <2>5. Globals \in Identifier /\ Adds(Globals)
    BY <1>8, <2>4 DEF BeginGlobals, Adds, Identifier
  <2>6. TypeOK'
    BY <1>8, <2>5, AddKeepsTypes DEF BeginGlobals, IInv, TypeOK
  <2>7. StageInv'
    BY <1>8, <2>5, AddedWhere DEF BeginGlobals, StageInv
  <2>8. ListInv'
    BY <1>8, <2>1, <2>5, AddKeepsList, ConstantsAssumption DEF BeginGlobals
  <2>9. QED
    BY <2>1, <2>5, <2>6, <2>7, <2>8, AddKeeps DEF IInv
<1>9. CASE EndGlobals
  <2>1. occupied \in Index /\ occupied \in Nat /\ MaxIdentifiers \in Nat
    BY ConstantsAssumption DEF IInv, TypeOK, Index
  <2>2. Listed' = {i \in Index : i < occupied + 1}
        /\ Listed = {i \in Index : i < occupied \/ i = occupied}
    BY <1>9 DEF EndGlobals, Listed
  <2>3. Listed' = Listed
    BY <2>1, <2>2 DEF Index
  <2>4. TypeOK' /\ StageInv' /\ ListInv'
    BY <1>9, <2>1, <2>3 DEF EndGlobals, IInv, TypeOK, StageInv, ListInv, Index
  <2>5. QED
    BY <1>9, <2>3, <2>4, TableStays DEF EndGlobals, IInv
<1>10. CASE ResolveLabels
  <2>1. Listed' = Listed
    BY <1>10 DEF ResolveLabels, Listed
  <2>2. TypeOK' /\ StageInv' /\ ListInv'
    BY <1>10, <2>1 DEF ResolveLabels, IInv, TypeOK, StageInv, ListInv
  <2>3. QED
    BY <1>10, <2>1, <2>2, TableStays DEF ResolveLabels, IInv
<1>11. CASE CleanUpAfterCompile
  BY <1>11, ClearKeeps DEF CleanUpAfterCompile, Clears
<1>12. CASE UNCHANGED vars
  <2>1. Listed' = Listed
    BY <1>12 DEF vars, Listed
  <2>2. TypeOK' /\ StageInv' /\ ListInv'
    BY <1>12, <2>1 DEF vars, IInv, TypeOK, StageInv, ListInv
  <2>3. QED
    BY <1>12, <2>1, <2>2, TableStays DEF vars, IInv
<1>13. QED
  BY <1>1, <1>2, <1>3, <1>4, <1>5, <1>6, <1>7, <1>8, <1>9, <1>10, <1>11, <1>12 DEF Next

\* The invariant holds of every run of the compiler.
LEMMA Invariance == Spec => []IInv
<1>1. QED
  BY InitHolds, StepHolds, PTL DEF Spec

-----------------------------------------------------------------------------
(* The theorems.                                                           *)

\* The lists, the table and the counters keep their types and bounds over any
\* number of scripts, accepted and rejected.
THEOREM TypeCorrect == Spec => []TypeOK
<1>1. IInv => TypeOK
  BY DEF IInv
<1>2. QED
  BY <1>1, Invariance, PTL

\* GetIdentifierByName, and the lexer's test for a name, answer from the hash
\* table what a search through the list would, although HashManagerDelete
\* empties slots in the middle of the ways to other entries.
THEOREM LookupsAgree == Spec => []LookupAgrees
<1>1. QED
  BY Agreement, Invariance, PTL

\* ClearUserDefinedIdentifiers leaves nothing of a script behind but entries of
\* "#globals", and those only after the walk of some script's globals failed.
THEOREM NothingElseStays == Spec => []OnlyGlobalsStay
<1>1. IInv => OnlyGlobalsStay
  <2> SUFFICES ASSUME IInv, stage = "idle", NEW s \in Slot,
                      table[s].type = "identifier", table[s].index >= predefined
               PROVE  leaked /\ table[s].hash = HashString[Globals]
    BY DEF OnlyGlobalsStay
  <2>1. table[s].index \notin Listed
    BY DEF IInv, StageInv, TypeOK, Listed, Index
  <2>2. Stale(table[s])
    BY <2>1 DEF IInv, EntryInv
  <2>3. QED
    BY <2>2 DEF Stale
<1>2. QED
  BY <1>1, Invariance, PTL

\* As long as the walk of no script's globals has failed, the jump to the code
\* of the globals finds this script's.
THEOREM GlobalsFoundBeforeFailure == Spec => [](~leaked => GlobalsFound)
<1>1. IInv => (~leaked => GlobalsFound)
  BY Agreement DEF LookupAgrees, GlobalsFound, Identifier
<1>2. QED
  BY <1>1, Invariance, PTL

-----------------------------------------------------------------------------
(* The linker.                                                             *)

\* The greatest member of a finite set of numbers is one of its members.
LEMMA GreatestNumber ==
  ASSUME NEW n \in Nat, NEW S \in SUBSET (1..n), S # {}
  PROVE  L!Max(S) \in S
<1> DEFINE R == StrictSubsetOrdering(1..n)
           W == {i..n : i \in S}
<1>1. IsWellFoundedOn(R, FiniteSubsetsOf(1..n)) /\ IsFiniteSet(1..n)
  BY FS_StrictSubsetOrderingWellFounded, FS_Interval
<1>2. W \subseteq FiniteSubsetsOf(1..n) /\ W # {}
  <2>1. ASSUME NEW i \in S PROVE i..n \subseteq 1..n /\ IsFiniteSet(i..n)
    BY FS_Interval
  <2>2. QED
    BY <2>1 DEF FiniteSubsetsOf
<1>3. PICK x \in W : \A y \in W : <<y, x>> \notin R
  <2> HIDE DEF R, W
  <2>1. QED
    BY <1>1, <1>2, WFMin
<1>4. PICK m \in S : x = m..n
  OBVIOUS
<1>5. ASSUME NEW i \in S, i > m PROVE FALSE
  <2>1. i..n \subseteq m..n /\ m..n \subseteq 1..n /\ m \in m..n /\ m \notin i..n
    BY <1>5
  <2>2. <<i..n, m..n>> \in R
    BY <2>1 DEF StrictSubsetOrdering
  <2>3. QED
    BY <1>3, <1>4, <2>2
<1>6. \A i \in S : m >= i
  BY <1>5
<1>7. QED
  BY <1>6 DEF L!Max

\* The least member of a finite set of numbers is one of its members.
LEMMA LeastNumber ==
  ASSUME NEW n \in Nat, NEW S \in SUBSET (1..n), S # {}
  PROVE  L!Min(S) \in S
<1> DEFINE R == StrictSubsetOrdering(1..n)
           W == {1..i : i \in S}
<1>1. IsWellFoundedOn(R, FiniteSubsetsOf(1..n))
  BY FS_StrictSubsetOrderingWellFounded
<1>2. W \subseteq FiniteSubsetsOf(1..n) /\ W # {}
  <2>1. ASSUME NEW i \in S PROVE 1..i \subseteq 1..n /\ IsFiniteSet(1..i)
    BY FS_Interval
  <2>2. QED
    BY <2>1 DEF FiniteSubsetsOf
<1>3. PICK x \in W : \A y \in W : <<y, x>> \notin R
  <2> HIDE DEF R, W
  <2>1. QED
    BY <1>1, <1>2, WFMin
<1>4. PICK m \in S : x = 1..m
  OBVIOUS
<1>5. ASSUME NEW i \in S, i < m PROVE FALSE
  <2>1. 1..i \subseteq 1..m /\ 1..m \subseteq 1..n /\ m \in 1..m /\ m \notin 1..i
    BY <1>5
  <2>2. <<1..i, 1..m>> \in R
    BY <2>1 DEF StrictSubsetOrdering
  <2>3. QED
    BY <1>3, <1>4, <2>2
<1>6. \A i \in S : m <= i
  BY <1>5
<1>7. QED
  BY <1>6 DEF L!Min

\* The function a piece of code is in, when there is one and no other.
LEMMA OneOwner ==
  ASSUME NEW g, L!LaidOut(g), NEW i \in DOMAIN g.code
  PROVE  /\ L!Owner(g, g.code[i].at) \in DOMAIN g.ids
         /\ \A h \in DOMAIN g.ids :
              L!Within(g, h, g.code[i].at) <=> h = L!Owner(g, g.code[i].at)
<1>1. PICK f \in DOMAIN g.ids :
        \A h \in DOMAIN g.ids : L!Within(g, h, g.code[i].at) <=> h = f
  BY DEF L!LaidOut
<1>2. L!Owner(g, g.code[i].at) = f
  BY <1>1 DEF L!Owner
<1>3. QED
  BY <1>1, <1>2

\* The instructions that are kept, and where what is at an offset of the code goes.
Kept(g) == {i \in DOMAIN g.code : L!Placed(g, L!Owner(g, g.code[i].at))}
Goes(g, at) == at + L!Moved(g, L!Owner(g, at)) - L!Header

\* The offset that a jump is meant to reach: the first label that answers the last
\* query that stands at it or, when none does, what was filled in.
Meant(g, i) ==
  LET asked == L!Asked(g, g.code[i].at)
  IN IF asked = {} THEN g.code[i].at + g.code[i].a
     ELSE g.labels[L!Min(L!Answers(g, g.queries[L!Max(asked)]))].at

Resolved(g) == g.status # "rejected" /\ L!ResolveLabels(g).status # "rejected"

\* An element of a sequence.
LEMMA ElementOf ==
  ASSUME NEW S, NEW s \in Seq(S), NEW i \in DOMAIN s
  PROVE  s[i] \in S /\ i \in Nat
OBVIOUS

\* Where instructions are, and that each has a length.
LEMMA Offsets ==
  ASSUME NEW g, L!LinkTypes(g), NEW i \in DOMAIN g.code
  PROVE  /\ g.code[i].at \in Int /\ g.code[i].a \in Int
         /\ L!Length(g.code[i].op) \in Nat \ {0}
         /\ i \in Int
<1>1. g.code[i] \in [at : Int, op : STRING, a : Int, b : Int] /\ i \in Int
  <2> DEFINE Instruction == [at : Int, op : STRING, a : Int, b : Int]
  <2>1. g.code \in Seq(Instruction)
    BY DEF L!LinkTypes
  <2> HIDE DEF Instruction
  <2>2. g.code[i] \in Instruction /\ i \in Nat
    BY <2>1, ElementOf
  <2>3. QED
    BY <2>2 DEF Instruction
<1>2. L!Length(g.code[i].op) \in Nat \ {0}
  BY DEF L!Length
<1>3. QED
  BY <1>1, <1>2

\* No two instructions go to the same place.
LEMMA GoApart ==
  ASSUME NEW g, L!Linkable(g), NEW i \in Kept(g), NEW j \in Kept(g),
         Goes(g, g.code[i].at) = Goes(g, g.code[j].at)
  PROVE  i = j
<1> DEFINE p == g.code[i].at
           q == g.code[j].at
           f == L!Owner(g, p)
           h == L!Owner(g, q)
<1>1. i \in DOMAIN g.code /\ j \in DOMAIN g.code /\ L!Placed(g, f) /\ L!Placed(g, h)
  BY DEF Kept
<1>2. p \in Int /\ q \in Int /\ i \in Int /\ j \in Int
  BY <1>1, Offsets DEF L!Linkable
<1>3. p = q => i = j
  <2>1. L!Length(g.code[i].op) \in Nat \ {0} /\ L!Length(g.code[j].op) \in Nat \ {0}
    BY <1>1, Offsets DEF L!Linkable
  <2>2. /\ i < j => p + L!Length(g.code[i].op) <= q
        /\ j < i => q + L!Length(g.code[j].op) <= p
    BY <1>1 DEF L!Linkable, L!LaidOut
  <2> HIDE DEF p, q
  <2>3. QED
    BY <1>2, <2>1, <2>2
<1>4. f \in DOMAIN g.ids /\ h \in DOMAIN g.ids /\ L!Within(g, f, p) /\ L!Within(g, h, q)
  BY <1>1, OneOwner DEF L!Linkable
<1>5. /\ g.ids[f].start \in Int /\ g.ids[f].finish \in Int /\ g.ids[f].dest \in Int
      /\ g.ids[h].start \in Int /\ g.ids[h].finish \in Int /\ g.ids[h].dest \in Int
  BY <1>4 DEF L!Linkable, L!LinkTypes
<1>6. p + g.ids[f].dest - g.ids[f].start = q + g.ids[h].dest - g.ids[h].start
  <2> DEFINE a == g.ids[f].dest
             b == g.ids[f].start
             c == g.ids[h].dest
             d == g.ids[h].start
  <2>1. p + (a - b) - 13 = q + (c - d) - 13
    BY DEF Goes, L!Moved, L!Header
  <2>2. p \in Int /\ q \in Int /\ a \in Int /\ b \in Int /\ c \in Int /\ d \in Int
    BY <1>2, <1>5
  <2> HIDE DEF p, q, a, b, c, d
  <2>3. p + a - b = q + c - d
    BY <2>1, <2>2
  <2>4. QED
    BY <2>3 DEF a, b, c, d
<1>7. CASE f = h
  <2> HIDE DEF p, q, f, h
  <2>1. QED
    BY <1>2, <1>3, <1>5, <1>6, <1>7
<1>8. CASE f # h
  <2>1. /\ g.ids[f].start <= p /\ p < g.ids[f].finish
        /\ g.ids[h].start <= q /\ q < g.ids[h].finish
    BY <1>4 DEF L!Within
  <2> HIDE DEF p, q, f, h
  <2>2. g.ids[f].start < g.ids[f].finish /\ g.ids[h].start < g.ids[h].finish
    BY <2>1, <1>2, <1>5
  <2>3. \/ g.ids[f].dest + g.ids[f].finish - g.ids[f].start <= g.ids[h].dest
        \/ g.ids[h].dest + g.ids[h].finish - g.ids[h].start <= g.ids[f].dest
    BY <2>2, <1>1, <1>4, <1>8 DEF L!Linkable, L!KeptApart
  <2>4. QED
    BY <2>1, <2>3, <1>2, <1>5, <1>6
<1>9. QED
  BY <1>7, <1>8

\* What ResolveLabels does: each jump that is kept and waits is filled in.
LEMMA FilledIn ==
  ASSUME NEW g, L!LinkTypes(g), Resolved(g)
  PROVE  /\ L!ResolveLabels(g).ids = g.ids
         /\ DOMAIN L!ResolveLabels(g).code = DOMAIN g.code
         /\ \A k \in DOMAIN g.queries :
              L!Placed(g, L!Owner(g, g.queries[k].at)) => L!Answers(g, g.queries[k]) # {}
         /\ \A i \in DOMAIN g.code :
              /\ L!ResolveLabels(g).code[i].at = g.code[i].at
              /\ L!ResolveLabels(g).code[i].op = g.code[i].op
              /\ L!ResolveLabels(g).code[i].b = g.code[i].b
              /\ i \in Kept(g) =>
                   LET asked == L!Asked(g, g.code[i].at)
                   IN L!ResolveLabels(g).code[i].a =
                        IF asked = {} THEN g.code[i].a
                        ELSE L!JumpLength(g, g.queries[L!Max(asked)])
<1> DEFINE r == L!ResolveLabels(g)
           needed == {k \in DOMAIN g.queries : L!Placed(g, L!Owner(g, g.queries[k].at))}
           askedBy(x) == {k \in needed : g.queries[k].at = x.at}
           Resolve(x) == IF askedBy(x) = {} THEN x
                         ELSE [x EXCEPT !.a = L!JumpLength(g, g.queries[L!Max(askedBy(x))])]
           filled == [i \in DOMAIN g.code |-> Resolve(g.code[i])]
<1>1. \A k \in needed : L!Answers(g, g.queries[k]) # {}
  <2>1. SUFFICES ASSUME ~\A k \in needed : L!Answers(g, g.queries[k]) # {} PROVE FALSE
    OBVIOUS
  <2>2. r = [g EXCEPT !.status = "rejected"]
    BY <2>1, Zenon DEF L!ResolveLabels, L!Require, L!Reject
  <2>3. QED
    BY <2>2 DEF Resolved, L!LinkTypes
<1>2. r = [g EXCEPT !.code = filled]
  BY <1>1, Zenon DEF L!ResolveLabels, L!Require
<1>3. r.ids = g.ids /\ r.code = filled
  <2> HIDE DEF filled, r
  <2>1. QED
    BY <1>2 DEF L!LinkTypes
<1>4. ASSUME NEW i \in DOMAIN g.code
      PROVE  /\ r.code[i].at = g.code[i].at
             /\ r.code[i].op = g.code[i].op
             /\ r.code[i].b = g.code[i].b
             /\ r.code[i].a = IF askedBy(g.code[i]) = {} THEN g.code[i].a
                              ELSE L!JumpLength(g, g.queries[L!Max(askedBy(g.code[i]))])
  <2>1. r.code[i] = Resolve(g.code[i])
    BY <1>3
  <2>2. g.code[i] \in [at : Int, op : STRING, a : Int, b : Int]
    BY ElementOf DEF L!LinkTypes
  <2> HIDE DEF r, askedBy
  <2>3. QED
    BY <2>1, <2>2
<1>5. ASSUME NEW i \in Kept(g) PROVE askedBy(g.code[i]) = L!Asked(g, g.code[i].at)
  BY DEF Kept, L!Asked
<1>6. ASSUME NEW i \in DOMAIN g.code, i \in Kept(g)
      PROVE  LET asked == L!Asked(g, g.code[i].at)
             IN r.code[i].a = IF asked = {} THEN g.code[i].a
                              ELSE L!JumpLength(g, g.queries[L!Max(asked)])
  <2> HIDE DEF r, askedBy
  <2>1. QED
    BY <1>4, <1>5, <1>6
<1>7. DOMAIN r.code = DOMAIN g.code
  BY <1>3
<1>8. \A k \in DOMAIN g.queries :
        L!Placed(g, L!Owner(g, g.queries[k].at)) => L!Answers(g, g.queries[k]) # {}
  BY <1>1
<1>9. QED
  <2>1. \A i \in DOMAIN g.code :
          /\ r.code[i].at = g.code[i].at
          /\ r.code[i].op = g.code[i].op
          /\ r.code[i].b = g.code[i].b
          /\ i \in Kept(g) =>
               LET asked == L!Asked(g, g.code[i].at)
               IN r.code[i].a = IF asked = {} THEN g.code[i].a
                                ELSE L!JumpLength(g, g.queries[L!Max(asked)])
    BY <1>4, <1>6, Zenon
  <2>2. QED
    BY <1>3, <1>7, <1>8, <2>1, Zenon

\* What WriteResolvedOutput does: the instructions that are kept are where they go,
\* and nothing else is in the binary.
LEMMA Written ==
  ASSUME NEW g, L!Linkable(g), Resolved(g)
  PROVE  LET r == L!ResolveLabels(g)
             binary == L!WriteResolvedOutput(r)
         IN /\ DOMAIN binary = {Goes(g, g.code[i].at) : i \in Kept(g)}
            /\ \A i \in Kept(g) :
                 binary[Goes(g, g.code[i].at)] =
                   [op |-> g.code[i].op, a |-> r.code[i].a, b |-> g.code[i].b]
<1> DEFINE r == L!ResolveLabels(g)
           binary == L!WriteResolvedOutput(r)
           Address(i) == r.code[i].at + L!Moved(r, L!Owner(r, r.code[i].at)) - L!Header
           Instruction(i) == [op |-> r.code[i].op, a |-> r.code[i].a, b |-> r.code[i].b]
           Chosen(at) == CHOOSE i \in Kept(r) : Address(i) = at
<1>1. /\ r.ids = g.ids /\ DOMAIN r.code = DOMAIN g.code
      /\ \A i \in DOMAIN g.code : /\ r.code[i].at = g.code[i].at
                                  /\ r.code[i].op = g.code[i].op
                                  /\ r.code[i].b = g.code[i].b
  BY FilledIn DEF L!Linkable
<1>2. binary = [at \in {Address(i) : i \in Kept(r)} |-> Instruction(Chosen(at))]
  BY Zenon DEF L!WriteResolvedOutput, Kept
<1> HIDE DEF r, binary
<1>3. \A at : L!Owner(r, at) = L!Owner(g, at)
  BY <1>1 DEF L!Owner, L!Within
<1>4. \A f : L!Placed(r, f) = L!Placed(g, f) /\ L!Moved(r, f) = L!Moved(g, f)
  BY <1>1 DEF L!Placed, L!Moved
<1>5. Kept(r) = Kept(g)
  BY <1>1, <1>3, <1>4 DEF Kept
<1>6. \A i \in Kept(g) : i \in DOMAIN g.code
  BY DEF Kept
<1>7. \A i \in Kept(g) : Address(i) = Goes(g, g.code[i].at)
  BY <1>1, <1>3, <1>4, <1>6 DEF Goes
<1> HIDE DEF Address
<1>8. DOMAIN binary = {Goes(g, g.code[i].at) : i \in Kept(g)}
  BY <1>2, <1>5, <1>7
<1>9. ASSUME NEW i \in Kept(g)
      PROVE  binary[Goes(g, g.code[i].at)] =
               [op |-> g.code[i].op, a |-> r.code[i].a, b |-> g.code[i].b]
  <2>1. PICK j : j = Chosen(Address(i))
    OBVIOUS
  <2>2. j \in Kept(g) /\ Address(j) = Address(i)
    BY <2>1, <1>5
  <2>3. j = i
    BY <2>2, <1>7, GoApart
  <2>4. binary[Address(i)] = Instruction(j)
    BY <2>1, <1>2, <1>5
  <2>5. QED
    BY <2>3, <2>4, <1>1, <1>6, <1>7
<1>10. QED
  BY <1>8, <1>9 DEF r, binary

\* Where an instruction of a function is, in the code and in the binary.
LEMMA PartOf ==
  ASSUME NEW g, L!Linkable(g), NEW f, NEW at, L!BeginsIn(g, f, at), L!Placed(g, f)
  PROVE  /\ \E j \in Kept(g) : g.code[j].at = at
         /\ at \in Int /\ L!Moved(g, f) \in Int
         /\ Goes(g, at) = at + L!Moved(g, f) - 13
<1>1. PICK j \in DOMAIN g.code : g.code[j].at = at
  BY DEF L!BeginsIn
<1>2. f \in DOMAIN g.ids /\ L!Within(g, f, g.code[j].at)
  BY <1>1 DEF L!BeginsIn
<1>3. L!Owner(g, g.code[j].at) = f
  BY <1>2, OneOwner DEF L!Linkable
<1>4. j \in Kept(g)
  BY <1>3 DEF Kept
<1>5. at \in Int
  BY <1>1, Offsets DEF L!Linkable
<1>6. L!Moved(g, f) \in Int
  BY <1>2 DEF L!Linkable, L!LinkTypes, L!Moved
<1>7. Goes(g, at) = at + L!Moved(g, f) - 13
  BY <1>1, <1>3 DEF Goes, L!Header
<1>8. QED
  BY <1>1, <1>4, <1>5, <1>6, <1>7

\* A jump that is kept reaches, from where it goes, where its target goes.
LEMMA Reaches ==
  ASSUME NEW g, L!Linkable(g), Resolved(g), NEW i \in Kept(g), g.code[i].op \in L!Jumps
  PROVE  \E j \in Kept(g) :
           /\ g.code[j].at = Meant(g, i)
           /\ Goes(g, g.code[i].at) + L!ResolveLabels(g).code[i].a = Goes(g, g.code[j].at)
<1> DEFINE p == g.code[i].at
           f == L!Owner(g, p)
           asked == L!Asked(g, p)
           a == L!ResolveLabels(g).code[i].a
<1>1. i \in DOMAIN g.code /\ L!Placed(g, f)
  BY DEF Kept
<1>2. L!BeginsIn(g, f, p)
  BY <1>1, OneOwner DEF L!Linkable, L!BeginsIn
<1>3. p \in Int /\ L!Moved(g, f) \in Int /\ Goes(g, p) = p + L!Moved(g, f) - 13
  BY <1>1, <1>2, PartOf
<1>4. a = IF asked = {} THEN g.code[i].a ELSE L!JumpLength(g, g.queries[L!Max(asked)])
  BY <1>1, FilledIn DEF L!Linkable
<1>5. CASE asked = {}
  <2> DEFINE target == p + g.code[i].a
  <2>1. L!BeginsIn(g, f, target)
    BY <1>1, <1>5 DEF L!Linkable, L!Targeted
  <2>2. /\ \E j \in Kept(g) : g.code[j].at = target
        /\ Goes(g, target) = target + L!Moved(g, f) - 13
    BY <1>1, <2>1, PartOf
  <2>3. a = g.code[i].a /\ a \in Int
    BY <1>1, <1>4, <1>5, Offsets DEF L!Linkable
  <2>4. target = Meant(g, i)
    BY <1>5 DEF Meant
  <2>5. target = p + a
    BY <2>3
  <2> HIDE DEF p, f, a, target
  <2>6. Goes(g, p) + a = Goes(g, target)
    BY <1>3, <2>2, <2>3, <2>5
  <2>7. QED
    BY <2>2, <2>4, <2>6 DEF p, a
<1>6. CASE asked # {}
  <2> DEFINE k == L!Max(asked)
             q == g.queries[k]
             answers == L!Answers(g, q)
             l == L!Min(answers)
             target == g.labels[l].at
             h == L!Home(g, q)
  <2>1. k \in asked
    <3>1. PICK n \in Nat : DOMAIN g.queries = 1..n
      BY DEF L!Linkable, L!LinkTypes
    <3>2. asked \in SUBSET (1..n)
      BY <3>1 DEF L!Asked
    <3>3. QED
      BY <1>6, <3>2, GreatestNumber
  <2>2. k \in DOMAIN g.queries /\ q.at = p
    BY <2>1 DEF L!Asked
  <2>3. answers # {}
    BY <1>1, <2>2, FilledIn DEF L!Linkable
  <2>4. l \in answers
    <3>1. PICK n \in Nat : DOMAIN g.labels = 1..n
      BY DEF L!Linkable, L!LinkTypes
    <3>2. answers \in SUBSET (1..n)
      BY <3>1 DEF L!Answers
    <3>3. QED
      BY <2>3, <3>2, LeastNumber
  <2>5. L!BeginsIn(g, h, target)
    BY <2>2, <2>4 DEF L!Linkable, L!Targeted
  <2>6. L!Placed(g, h)
    BY <1>1, <2>2, <2>3 DEF L!Linkable, L!KeptApart
  <2>7. /\ \E j \in Kept(g) : g.code[j].at = target
        /\ target \in Int /\ L!Moved(g, h) \in Int
        /\ Goes(g, target) = target + L!Moved(g, h) - 13
    BY <2>5, <2>6, PartOf
  <2>8. a = target + L!Moved(g, h) - (p + L!Moved(g, f))
    BY <1>4, <1>6, <2>2 DEF L!JumpLength
  <2>9. target = Meant(g, i)
    BY <1>6 DEF Meant
  <2> DEFINE x == L!Moved(g, f)
             y == L!Moved(g, h)
             s == Goes(g, p)
             t == Goes(g, target)
  <2>10. /\ p \in Int /\ target \in Int /\ x \in Int /\ y \in Int
         /\ s = p + x - 13 /\ t = target + y - 13 /\ a = target + y - (p + x)
    BY <1>3, <2>7, <2>8
  <2> HIDE DEF p, a, target, x, y, s, t
  <2>11. s + a = t
    BY <2>10
  <2>12. QED
    BY <2>7, <2>9, <2>11 DEF p, a, s, t
<1>7. QED
  BY <1>5, <1>6

\* For every code that can be linked, whichever functions are kept: the binary is made
\* of the instructions of the functions that are kept, each where its function went,
\* and each jump among them leads to the instruction it was meant for, the one at the
\* first label that answers its query, although its function and the label's may have
\* gone different ways (ResolveLabels, WriteResolvedOutput).
THEOREM JumpsReachTheirLabels ==
  ASSUME NEW g, L!Linkable(g), Resolved(g)
  PROVE  LET binary == L!WriteResolvedOutput(L!ResolveLabels(g))
         IN /\ DOMAIN binary = {Goes(g, g.code[i].at) : i \in Kept(g)}
            /\ \A i \in Kept(g) :
                 LET at == Goes(g, g.code[i].at)
                 IN /\ binary[at].op = g.code[i].op
                    /\ binary[at].b = g.code[i].b
                    /\ g.code[i].op \in L!Jumps =>
                         \E j \in Kept(g) :
                           /\ g.code[j].at = Meant(g, i)
                           /\ at + binary[at].a = Goes(g, g.code[j].at)
<1> DEFINE binary == L!WriteResolvedOutput(L!ResolveLabels(g))
<1>1. DOMAIN binary = {Goes(g, g.code[i].at) : i \in Kept(g)}
  BY Written
<1>2. ASSUME NEW i \in Kept(g)
      PROVE  LET at == Goes(g, g.code[i].at)
             IN /\ binary[at].op = g.code[i].op
                /\ binary[at].b = g.code[i].b
                /\ binary[at].a = L!ResolveLabels(g).code[i].a
  <2>1. binary[Goes(g, g.code[i].at)] =
          [op |-> g.code[i].op, a |-> L!ResolveLabels(g).code[i].a, b |-> g.code[i].b]
    BY Written
  <2> HIDE DEF binary
  <2>2. QED
    BY <2>1
<1> HIDE DEF binary
<1>3. ASSUME NEW i \in Kept(g), g.code[i].op \in L!Jumps
      PROVE  \E j \in Kept(g) :
               /\ g.code[j].at = Meant(g, i)
               /\ Goes(g, g.code[i].at) + binary[Goes(g, g.code[i].at)].a
                    = Goes(g, g.code[j].at)
  BY <1>2, <1>3, Reaches
<1>4. QED
  BY <1>1, <1>2, <1>3 DEF binary

\* For every code that can be linked, every jump of the binary leads to the first byte
\* of one of its instructions: what JumpsLand says of the scripts that are compiled.
THEOREM LinkedJumpsLand ==
  ASSUME NEW g, L!Linkable(g), Resolved(g)
  PROVE  L!Lands(L!WriteResolvedOutput(L!ResolveLabels(g)))
<1> DEFINE binary == L!WriteResolvedOutput(L!ResolveLabels(g))
<1>1. DOMAIN binary = {Goes(g, g.code[i].at) : i \in Kept(g)}
  BY JumpsReachTheirLabels
<1>2. \A i \in Kept(g) :
        LET at == Goes(g, g.code[i].at)
        IN binary[at].op \in L!Jumps =>
             \E j \in Kept(g) : at + binary[at].a = Goes(g, g.code[j].at)
  BY JumpsReachTheirLabels
<1> HIDE DEF binary
<1>3. QED
  BY <1>1, <1>2 DEF L!Lands, binary

-----------------------------------------------------------------------------
(* The buffer the code is written to.                                      *)

\* Operations are strings; the provers do not see by themselves that these are.
Opcode == STRING \cup {"MOVSP", "RSADD"}
Instruction == [at : Int, op : Opcode, a : Int, b : Int]
Query == [type : STRING, one : Int, two : Int, at : Int]

\* Instructions stand behind each other, behind the header and before the end of what
\* is written, and every query stands at a jump.
Tape(code, len, queries) ==
  /\ code \in Seq(Instruction) /\ len \in Int /\ queries \in Seq(Query)
  /\ \A i, j \in DOMAIN code : i < j => code[i].at + L!Length(code[i].op) <= code[j].at
  /\ \A i \in DOMAIN code :
       L!Header <= code[i].at /\ code[i].at + L!Length(code[i].op) <= len
  /\ \A k \in DOMAIN queries :
       \E i \in DOMAIN code : code[i].at = queries[k].at /\ code[i].op \in L!Jumps
  /\ L!Header <= len

\* What every step of the generator finds and leaves.
InOrder(g) == {"code", "len", "queries"} \subseteq DOMAIN g /\ Tape(g.code, g.len, g.queries)

\* The elements of a tape.
LEMMA OnTape ==
  ASSUME NEW code, NEW len, NEW queries, Tape(code, len, queries)
  PROVE  /\ Len(code) \in Nat /\ DOMAIN code = 1..Len(code)
         /\ \A i \in DOMAIN code :
              /\ code[i] \in Instruction /\ i \in Int /\ code[i].at \in Int
              /\ L!Length(code[i].op) \in Nat \ {0}
<1>1. code \in Seq(Instruction)
  BY DEF Tape
<1>2. Len(code) \in Nat /\ DOMAIN code = 1..Len(code)
  BY <1>1, LenProperties
<1>3. ASSUME NEW i \in DOMAIN code
      PROVE  code[i] \in Instruction /\ i \in Int
  BY <1>1, <1>3, ElementOf
<1>4. ASSUME NEW x \in Instruction PROVE x.at \in Int /\ L!Length(x.op) \in Nat \ {0}
  BY DEF Instruction, L!Length
<1>5. QED
  BY <1>2, <1>3, <1>4

\* One more instruction at the end.
LEMMA TapeGrows ==
  ASSUME NEW code, NEW len, NEW queries, Tape(code, len, queries),
         NEW x \in Instruction, x.at = len
  PROVE  Tape(Append(code, x), len + L!Length(x.op), queries)
<1> DEFINE n == Len(code)
           d == Append(code, x)
           e == L!Length(x.op)
<1>1. /\ code \in Seq(Instruction) /\ n \in Nat /\ DOMAIN code = 1..n
      /\ d \in Seq(Instruction) /\ Len(d) = n + 1 /\ DOMAIN d = 1..n+1
      /\ \A i \in 1..n : d[i] = code[i]
      /\ d[n+1] = x
  <2>1. code \in Seq(Instruction)
    BY DEF Tape
  <2>2. n \in Nat /\ DOMAIN code = 1..n
    BY <2>1, LenProperties
  <2>3. /\ d \in Seq(Instruction) /\ Len(d) = n + 1
        /\ (\A i \in 1..n : d[i] = code[i]) /\ d[n+1] = x
    BY <2>1, AppendProperties
  <2> HIDE DEF n, d
  <2>4. DOMAIN d = 1..n+1
    BY <2>3, LenProperties
  <2>5. QED
    BY <2>1, <2>2, <2>3, <2>4
<1>2. e \in Nat \ {0} /\ len \in Int /\ L!Header <= len
  BY DEF Instruction, L!Length, Tape
<1>3. \A i \in 1..n : L!Header <= code[i].at /\ code[i].at + L!Length(code[i].op) <= len
                      /\ code[i].at \in Int /\ L!Length(code[i].op) \in Nat \ {0}
  <2>1. \A i \in DOMAIN code : code[i].at \in Int /\ L!Length(code[i].op) \in Nat \ {0}
    BY OnTape
  <2>2. \A i \in DOMAIN code :
          L!Header <= code[i].at /\ code[i].at + L!Length(code[i].op) <= len
    BY DEF Tape
  <2>3. QED
    BY <1>1, <2>1, <2>2
<1>4. \A i, j \in 1..n : i < j => code[i].at + L!Length(code[i].op) <= code[j].at
  BY <1>1 DEF Tape
<1>5. \A k \in DOMAIN queries :
        \E i \in 1..n : code[i].at = queries[k].at /\ code[i].op \in L!Jumps
  BY <1>1 DEF Tape
<1> HIDE DEF n, d, e
<1>6. \A i, j \in DOMAIN d : i < j => d[i].at + L!Length(d[i].op) <= d[j].at
  <2>1. ASSUME NEW i \in 1..n+1, NEW j \in 1..n+1, i < j
        PROVE  d[i].at + L!Length(d[i].op) <= d[j].at
    <3>1. i \in 1..n /\ d[i] = code[i]
      BY <1>1, <2>1
    <3>2. CASE j \in 1..n
      BY <1>1, <1>4, <2>1, <3>1, <3>2
    <3>3. CASE j = n + 1
      BY <1>1, <1>3, <3>1, <3>3
    <3>4. QED
      BY <1>1, <3>2, <3>3
  <2>2. QED
    BY <1>1, <2>1
<1>7. \A i \in DOMAIN d : L!Header <= d[i].at /\ d[i].at + L!Length(d[i].op) <= len + e
  <2>1. ASSUME NEW i \in 1..n+1
        PROVE  L!Header <= d[i].at /\ d[i].at + L!Length(d[i].op) <= len + e
    <3>1. CASE i \in 1..n
      <4>1. /\ d[i] = code[i] /\ L!Header <= code[i].at
            /\ code[i].at + L!Length(code[i].op) <= len
            /\ code[i].at \in Int /\ L!Length(code[i].op) \in Nat
        BY <1>1, <1>3, <3>1
      <4>2. QED
        BY <1>2, <4>1
    <3>2. CASE i = n + 1
      BY <1>1, <1>2, <3>2 DEF e
    <3>3. QED
      BY <1>1, <3>1, <3>2
  <2>2. QED
    BY <1>1, <2>1
<1>8. \A k \in DOMAIN queries :
        \E i \in DOMAIN d : d[i].at = queries[k].at /\ d[i].op \in L!Jumps
  <2>1. ASSUME NEW k \in DOMAIN queries
        PROVE  \E i \in DOMAIN d : d[i].at = queries[k].at /\ d[i].op \in L!Jumps
    <3>1. PICK i \in 1..n : code[i].at = queries[k].at /\ code[i].op \in L!Jumps
      BY <1>5
    <3>2. i \in DOMAIN d /\ d[i] = code[i]
      BY <1>1
    <3>3. QED
      BY <3>1, <3>2
  <2>2. QED
    BY <2>1
<1>9. len + e \in Int /\ L!Header <= len + e /\ queries \in Seq(Query)
  BY <1>2 DEF Tape, L!Header
<1>10. QED
  BY <1>1, <1>6, <1>7, <1>8, <1>9 DEF Tape, d, e

\* One more query, at a jump.
LEMMA TapeAsks ==
  ASSUME NEW code, NEW len, NEW queries, Tape(code, len, queries), NEW q \in Query,
         \E i \in DOMAIN code : code[i].at = q.at /\ code[i].op \in L!Jumps
  PROVE  Tape(code, len, Append(queries, q))
<1>1. queries \in Seq(Query)
  BY DEF Tape
<1>2. /\ Append(queries, q) \in Seq(Query)
      /\ Len(Append(queries, q)) = Len(queries) + 1
      /\ \A k \in 1..Len(queries) : Append(queries, q)[k] = queries[k]
      /\ Append(queries, q)[Len(queries) + 1] = q
      /\ Len(queries) \in Nat /\ DOMAIN queries = 1..Len(queries)
      /\ DOMAIN Append(queries, q) = 1..Len(Append(queries, q))
  BY <1>1, AppendProperties, LenProperties
<1>3. ASSUME NEW k \in DOMAIN Append(queries, q)
      PROVE  \E i \in DOMAIN code :
               code[i].at = Append(queries, q)[k].at /\ code[i].op \in L!Jumps
  <2>1. CASE k \in DOMAIN queries
    BY <1>2, <2>1 DEF Tape
  <2>2. CASE k = Len(queries) + 1
    BY <1>2, <2>2
  <2>3. QED
    BY <1>2, <2>1, <2>2
<1>4. QED
  BY <1>2, <1>3 DEF Tape

\* A constant takes the place of the variable, itself and the assignment behind it.
LEMMA TapeMelds ==
  ASSUME NEW code, NEW len, NEW queries, Tape(code, len, queries), NEW n, n = Len(code), n > 2,
         code[n].op = "ASSIGN", code[n - 1].op = "CONST", code[n - 2].op = "RSADD"
  PROVE  Tape(SubSeq(code, 1, n - 3) \o <<[code[n - 1] EXCEPT !.at = code[n - 2].at]>>,
              code[n - 2].at + L!Length("CONST"), queries)
<1> DEFINE x == [code[n - 1] EXCEPT !.at = code[n - 2].at]
           s == SubSeq(code, 1, n - 3)
           d == s \o <<x>>
           at == code[n - 2].at
<1>1. n \in Nat /\ DOMAIN code = 1..n /\ code \in Seq(Instruction)
  BY OnTape DEF Tape
<1>2. \A i \in 1..n : /\ code[i] \in Instruction /\ code[i].at \in Int
                      /\ L!Length(code[i].op) \in Nat \ {0}
  BY <1>1, OnTape
<1>3. x \in Instruction /\ x.at = at /\ x.op = "CONST" /\ at \in Int
  <2>1. n - 1 \in 1..n /\ n - 2 \in 1..n
    BY <1>1
  <2>2. code[n - 1] \in Instruction /\ at \in Int
    BY <1>2, <2>1
  <2> HIDE DEF at
  <2>3. [code[n - 1] EXCEPT !.at = at] \in Instruction
    BY <2>2 DEF Instruction
  <2>4. [code[n - 1] EXCEPT !.at = at].at = at /\ [code[n - 1] EXCEPT !.at = at].op = "CONST"
    BY <2>2 DEF Instruction
  <2>5. QED
    BY <2>2, <2>3, <2>4 DEF at
<1>4. s \in Seq(Instruction) /\ Len(s) = n - 3 /\ \A i \in 1..n-3 : s[i] = code[i]
  <2>1. \A i \in 1..n-3 : code[i] \in Instruction
    BY <1>1, <1>2
  <2>2. /\ s \in Seq(Instruction)
        /\ Len(s) = IF 1 <= n-3 THEN n-3-1+1 ELSE 0
        /\ \A i \in 1..n-3-1+1 : s[i] = code[1+i-1]
    BY <1>1, <2>1, SubSeqProperties
  <2> HIDE DEF s
  <2>3. Len(s) = n - 3
    BY <1>1, <2>2
  <2>4. \A i \in 1..n-3 : s[i] = code[i]
    BY <1>1, <2>2
  <2>5. QED
    BY <2>2, <2>3, <2>4
<1>5. /\ d \in Seq(Instruction) /\ DOMAIN d = 1..n-2
      /\ \A i \in 1..n-3 : d[i] = code[i]
      /\ d[n-2] = x
  <2> DEFINE one == <<x>>
  <2>1. one \in Seq(Instruction) /\ Len(one) = 1 /\ one[1] = x
    BY <1>3
  <2> HIDE DEF one, s, x
  <2>2. /\ s \o one \in Seq(Instruction) /\ Len(s \o one) = n - 3 + 1
        /\ \A i \in 1..n-3+1 : (s \o one)[i] = IF i <= n-3 THEN s[i] ELSE one[i - (n-3)]
    <3>1. s \in Seq(Instruction) /\ Len(s) = n-3 /\ Len(one) = 1
      BY <1>4, <2>1
    <3>2. /\ s \o one \in Seq(Instruction) /\ Len(s \o one) = Len(s) + Len(one)
          /\ \A i \in 1..Len(s) + Len(one) :
               (s \o one)[i] = IF i <= Len(s) THEN s[i] ELSE one[i - Len(s)]
      BY <2>1, <3>1, ConcatProperties
    <3>3. QED
      BY <3>1, <3>2
  <2>3. DOMAIN (s \o one) = 1..n-2
    <3>1. DOMAIN (s \o one) = 1..n-3+1
      BY <2>2, LenProperties
    <3>2. n - 3 + 1 = n - 2
      BY <1>1
    <3>3. QED
      BY <3>1, <3>2
  <2>4. ASSUME NEW i \in 1..n-3 PROVE (s \o one)[i] = code[i]
    <3>1. i \in 1..n-3+1 /\ i <= n-3
      BY <1>1
    <3>2. QED
      BY <1>4, <2>2, <3>1
  <2>5. (s \o one)[n-2] = x
    <3>1. n-2 \in 1..n-3+1 /\ ~(n-2 <= n-3) /\ n-2-(n-3) = 1
      BY <1>1
    <3>2. QED
      BY <2>1, <2>2, <3>1
  <2>6. QED
    BY <2>2, <2>3, <2>4, <2>5 DEF one
<1>6. \A i, j \in 1..n : i < j => code[i].at + L!Length(code[i].op) <= code[j].at
  BY <1>1 DEF Tape
<1>7. \A i \in 1..n : L!Header <= code[i].at
  BY <1>1 DEF Tape
<1>8. L!Length("CONST") = 6 /\ L!Header = 13
  BY DEF L!Length, L!Header
<1> HIDE DEF d, x, s
<1>9. \A i, j \in DOMAIN d : i < j => d[i].at + L!Length(d[i].op) <= d[j].at
  <2>1. ASSUME NEW i \in 1..n-2, NEW j \in 1..n-2, i < j
        PROVE  d[i].at + L!Length(d[i].op) <= d[j].at
    <3>1. i \in 1..n-3 /\ d[i] = code[i] /\ i \in 1..n /\ j \in 1..n
      BY <1>1, <1>5, <2>1
    <3>2. d[j].at = code[j].at
      <4>1. j \in 1..n-3 \/ j = n-2
        BY <1>1
      <4>2. QED
        BY <1>3, <1>5, <4>1
    <3>3. QED
      BY <1>6, <2>1, <3>1, <3>2
  <2>2. QED
    BY <1>5, <2>1
<1>10. \A i \in DOMAIN d : L!Header <= d[i].at /\ d[i].at + L!Length(d[i].op) <= at + 6
  <2>1. ASSUME NEW i \in 1..n-2
        PROVE  L!Header <= d[i].at /\ d[i].at + L!Length(d[i].op) <= at + 6
    <3>1. CASE i \in 1..n-3
      <4>1. d[i] = code[i] /\ i \in 1..n /\ n-2 \in 1..n /\ i < n-2
        BY <1>1, <1>5, <3>1
      <4>2. code[i].at + L!Length(code[i].op) <= at
        BY <1>6, <4>1
      <4> HIDE DEF at
      <4>3. QED
        BY <1>2, <1>3, <1>7, <4>1, <4>2
    <3>2. CASE i = n - 2
      <4>1. n-2 \in 1..n
        BY <1>1
      <4>2. L!Header <= at
        BY <1>7, <4>1
      <4> HIDE DEF at
      <4>3. QED
        BY <1>3, <1>5, <1>8, <3>2, <4>2
    <3>3. QED
      BY <1>1, <3>1, <3>2
  <2>2. QED
    BY <1>5, <2>1
<1>11. \A k \in DOMAIN queries :
         \E i \in DOMAIN d : d[i].at = queries[k].at /\ d[i].op \in L!Jumps
  <2>1. ASSUME NEW k \in DOMAIN queries
        PROVE  \E i \in DOMAIN d : d[i].at = queries[k].at /\ d[i].op \in L!Jumps
    <3>1. PICK i \in 1..n : code[i].at = queries[k].at /\ code[i].op \in L!Jumps
      BY <1>1 DEF Tape
    <3>2. i # n /\ i # n - 1 /\ i # n - 2
      BY <3>1 DEF L!Jumps
    <3>3. i \in 1..n-3 /\ i \in 1..n-2
      BY <1>1, <3>2
    <3>4. QED
      BY <1>5, <3>1, <3>3
  <2>2. QED
    BY <2>1
<1>12. at + 6 \in Int /\ L!Header <= at + 6 /\ queries \in Seq(Query)
  <2>1. n-2 \in 1..n
    BY <1>1
  <2>2. L!Header <= at
    BY <1>7, <2>1
  <2> HIDE DEF at
  <2>3. at + 6 \in Int /\ L!Header <= at + 6
    BY <1>3, <1>8, <2>2
  <2>4. QED
    BY <2>3 DEF Tape
<1>13. Tape(d, at + 6, queries)
  BY <1>5, <1>9, <1>10, <1>11, <1>12 DEF Tape
<1>14. QED
  BY <1>8, <1>13 DEF d, s, x

\* Instructions are replaced by others of the same length, a jump by a jump.
LEMMA TapeRewritten ==
  ASSUME NEW code, NEW len, NEW queries, Tape(code, len, queries),
         NEW d \in Seq(Instruction), DOMAIN d = DOMAIN code,
         \A i \in DOMAIN code :
           /\ d[i].at = code[i].at /\ L!Length(d[i].op) = L!Length(code[i].op)
           /\ code[i].op \in L!Jumps => d[i].op \in L!Jumps
  PROVE  Tape(d, len, queries)
<1>1. /\ \A i, j \in DOMAIN d : i < j => d[i].at + L!Length(d[i].op) <= d[j].at
      /\ \A i \in DOMAIN d : L!Header <= d[i].at /\ d[i].at + L!Length(d[i].op) <= len
  BY DEF Tape
<1>2. \A k \in DOMAIN queries :
        \E i \in DOMAIN d : d[i].at = queries[k].at /\ d[i].op \in L!Jumps
  BY DEF Tape
<1>3. QED
  BY <1>1, <1>2 DEF Tape

\* The generator begins in order.
LEMMA BeginsInOrder ==
  ASSUME NEW heap, NEW ids, NEW opt
  PROVE  InOrder(L!Generator(heap, ids, opt))
<1> DEFINE g == L!Generator(heap, ids, opt)
<1>1. /\ {"code", "len", "queries"} \subseteq DOMAIN g
      /\ g.code = <<>> /\ g.len = L!Header /\ g.queries = <<>>
  BY DEF L!Generator
<1> HIDE DEF g
<1>2. Tape(<<>>, L!Header, <<>>)
  BY DEF Tape, L!Header
<1>3. InOrder(g)
  BY <1>1, <1>2 DEF InOrder
<1>4. QED
  BY <1>3 DEF g

\* What is written and asked for is kept by whatever leaves it alone.
LEMMA LeftInOrder ==
  ASSUME NEW g, NEW h, InOrder(g),
         DOMAIN g \subseteq DOMAIN h, h.code = g.code, h.len = g.len, h.queries = g.queries
  PROVE  InOrder(h)
BY DEF InOrder

LEMMA EmitsInOrder ==
  ASSUME NEW g, InOrder(g), NEW op \in Opcode, NEW a \in Int, NEW b \in Int
  PROVE  LET h == L!EmitInstruction(g, op, a, b)
         IN /\ InOrder(h) /\ h.queries = g.queries /\ DOMAIN h = DOMAIN g
            /\ \E i \in DOMAIN h.code : h.code[i].at = g.len /\ h.code[i].op = op
<1> DEFINE h == L!EmitInstruction(g, op, a, b)
           x == [at |-> g.len, op |-> op, a |-> a, b |-> b]
<1>1. Tape(g.code, g.len, g.queries) /\ {"code", "len", "queries"} \subseteq DOMAIN g
  BY DEF InOrder
<1>2. x \in Instruction /\ x.at = g.len /\ x.op = op
  BY <1>1 DEF Tape, Instruction
<1>3. /\ h.code = Append(g.code, x) /\ h.len = g.len + L!Length(op)
      /\ h.queries = g.queries /\ DOMAIN h = DOMAIN g
  BY <1>1 DEF L!EmitInstruction
<1>4. /\ Len(g.code) + 1 \in DOMAIN Append(g.code, x)
      /\ Append(g.code, x)[Len(g.code) + 1] = x
  <2>1. g.code \in Seq(Instruction)
    BY <1>1 DEF Tape
  <2> HIDE DEF x
  <2>2. /\ Append(g.code, x) \in Seq(Instruction)
        /\ Len(Append(g.code, x)) = Len(g.code) + 1
        /\ Append(g.code, x)[Len(g.code) + 1] = x
        /\ Len(g.code) \in Nat
    BY <1>2, <2>1, AppendProperties, LenProperties
  <2>3. DOMAIN Append(g.code, x) = 1..Len(g.code) + 1
    BY <2>2, LenProperties
  <2>4. QED
    BY <2>2, <2>3
<1> HIDE DEF h, x
<1>5. Tape(h.code, h.len, h.queries)
  BY <1>1, <1>2, <1>3, TapeGrows
<1>6. InOrder(h)
  BY <1>1, <1>3, <1>5 DEF InOrder
<1>7. \E i \in DOMAIN h.code : h.code[i].at = g.len /\ h.code[i].op = op
  BY <1>2, <1>3, <1>4
<1>8. QED
  BY <1>3, <1>6, <1>7 DEF h

LEMMA AsksInOrder ==
  ASSUME NEW g, InOrder(g), NEW op \in Opcode, op \in L!Jumps, NEW type \in STRING,
         NEW one \in Int, NEW two \in Int
  PROVE  InOrder(L!AddSymbolToQueryList(g, op, type, one, two))
<1> DEFINE q == [type |-> type, one |-> one, two |-> two, at |-> g.len]
           h == L!EmitInstruction(g, op, 0, 0)
           k == L!AddSymbolToQueryList(g, op, type, one, two)
<1>1. {"code", "len", "queries"} \subseteq DOMAIN g /\ q \in Query /\ q.at = g.len
  BY DEF InOrder, Tape, Query
<1>2. /\ InOrder(h) /\ h.queries = g.queries /\ DOMAIN h = DOMAIN g
      /\ \E i \in DOMAIN h.code : h.code[i].at = g.len /\ h.code[i].op = op
  <2>1. PICK zero \in Int : zero = 0
    OBVIOUS
  <2>2. /\ InOrder(L!EmitInstruction(g, op, zero, zero))
        /\ L!EmitInstruction(g, op, zero, zero).queries = g.queries
        /\ DOMAIN L!EmitInstruction(g, op, zero, zero) = DOMAIN g
        /\ \E i \in DOMAIN L!EmitInstruction(g, op, zero, zero).code :
             /\ L!EmitInstruction(g, op, zero, zero).code[i].at = g.len
             /\ L!EmitInstruction(g, op, zero, zero).code[i].op = op
    BY EmitsInOrder
  <2>3. QED
    BY <2>1, <2>2
<1>3. /\ k.code = h.code /\ k.len = h.len /\ k.queries = Append(g.queries, q)
      /\ DOMAIN k = DOMAIN g
  BY <1>1 DEF L!AddSymbolToQueryList, L!EmitInstruction
<1> HIDE DEF q, h, k
<1>4. Tape(h.code, h.len, Append(h.queries, q))
  BY <1>1, <1>2, TapeAsks DEF InOrder
<1>5. InOrder(k)
  BY <1>1, <1>2, <1>3, <1>4 DEF InOrder
<1>6. QED
  BY <1>5 DEF k

LEMMA MovesInOrder ==
  ASSUME NEW g, InOrder(g), NEW amount \in Int
  PROVE  InOrder(L!EmitModifyStackPointer(g, amount))
<1>1. InOrder(L!EmitInstruction(g, "MOVSP", amount, 0))
  <2>1. PICK zero \in Int : zero = 0
    OBVIOUS
  <2>2. "MOVSP" \in Opcode
    BY DEF Opcode
  <2>3. InOrder(L!EmitInstruction(g, "MOVSP", amount, zero))
    BY <2>2, EmitsInOrder
  <2>4. QED
    BY <2>1, <2>3
<1> DEFINE n == Len(g.code)
<1>2. ASSUME n > 2, g.code[n].op = "ASSIGN", g.code[n - 1].op = "CONST", g.code[n - 2].op = "RSADD"
      PROVE  InOrder(L!Melded(g))
  <2> DEFINE s == SubSeq(g.code, 1, n - 3) \o <<[g.code[n - 1] EXCEPT !.at = g.code[n - 2].at]>>
             l == g.code[n - 2].at + L!Length("CONST")
             h == L!Melded(g)
  <2>1. Tape(g.code, g.len, g.queries) /\ {"code", "len", "queries"} \subseteq DOMAIN g
    BY DEF InOrder
  <2>2. n \in Nat
    BY <2>1, OnTape
  <2>3. Tape(s, l, g.queries)
    BY <1>2, <2>1, TapeMelds
  <2>4. n + 1 - 2 = n - 1 /\ n + 1 - 3 = n - 2
    BY <2>2
  <2>5. h.code = s /\ h.len = l /\ h.queries = g.queries /\ DOMAIN h = DOMAIN g
    BY <2>1, <2>4 DEF L!Melded, L!Back
  <2> HIDE DEF s, l, h
  <2>6. InOrder(h)
    BY <2>1, <2>3, <2>5 DEF InOrder
  <2>7. QED
    BY <2>6 DEF h
<1>3. n \in Nat
  BY OnTape DEF InOrder
<1>4. n + 1 - 1 = n /\ n + 1 - 2 = n - 1 /\ n + 1 - 3 = n - 2
  BY <1>3
<1>5. QED
  BY <1>1, <1>2, <1>4 DEF L!EmitModifyStackPointer, L!Back

\* What was left open at an offset has room for the operation, which is a jump if it was.
Replaceable(g, at, op) ==
  \A i \in DOMAIN g.code : g.code[i].at = at =>
    /\ L!Length(g.code[i].op) = L!Length(op)
    /\ g.code[i].op \in L!Jumps => op \in L!Jumps

LEMMA RewritesInOrder ==
  ASSUME NEW g, InOrder(g), NEW at, NEW op \in Opcode, NEW a \in Int,
         Replaceable(g, at, op)
  PROVE  InOrder(L!Rewrite(g, at, op, a))
<1> DEFINE c == g.code
           h == L!Rewrite(g, at, op, a)
           d == h.code
<1>1. Tape(c, g.len, g.queries) /\ {"code", "len", "queries"} \subseteq DOMAIN g
  BY DEF InOrder
<1>2. /\ d = [i \in DOMAIN c |->
                IF c[i].at = at THEN [c[i] EXCEPT !.op = op, !.a = a] ELSE c[i]]
      /\ h.len = g.len /\ h.queries = g.queries /\ DOMAIN h = DOMAIN g
  BY <1>1 DEF L!Rewrite
<1>3. /\ Len(c) \in Nat /\ DOMAIN c = 1..Len(c)
      /\ \A i \in DOMAIN c : c[i] \in Instruction
  BY <1>1, OnTape
<1>4. \A i \in DOMAIN c : c[i].at = at =>
        /\ L!Length(c[i].op) = L!Length(op)
        /\ c[i].op \in L!Jumps => op \in L!Jumps
  BY DEF Replaceable
<1> HIDE DEF c, d, h
<1>5. ASSUME NEW i \in DOMAIN c
      PROVE  /\ d[i] \in Instruction /\ d[i].at = c[i].at
             /\ L!Length(d[i].op) = L!Length(c[i].op)
             /\ c[i].op \in L!Jumps => d[i].op \in L!Jumps
  <2>1. CASE c[i].at = at
    <3>1. d[i] = [c[i] EXCEPT !.op = op, !.a = a]
      BY <1>2, <2>1
    <3>2. d[i] \in Instruction /\ d[i].at = c[i].at /\ d[i].op = op
      BY <1>3, <3>1 DEF Instruction
    <3>3. QED
      BY <1>4, <2>1, <3>2
  <2>2. CASE c[i].at # at
    BY <1>2, <1>3, <2>2
  <2>3. QED
    BY <2>1, <2>2
<1>6. d \in Seq(Instruction) /\ DOMAIN d = DOMAIN c
  <2>1. DOMAIN d = DOMAIN c
    BY <1>2
  <2>2. d \in [1..Len(c) -> Instruction]
    BY <1>2, <1>3, <1>5
  <2>3. QED
    BY ONLY <1>3, <2>1, <2>2
<1>7. Tape(d, h.len, h.queries)
  BY <1>1, <1>2, <1>5, <1>6, TapeRewritten
<1>8. InOrder(h)
  BY <1>1, <1>2, <1>7 DEF InOrder, d
<1>9. QED
  BY <1>8 DEF h

\* The code generator writes, asks for labels, fills in and takes back by the
\* operations of CodeBuffer alone, and they keep its code in order: instructions
\* follow each other without an overlap, also when MELD_INSTRUCTIONS takes the last
\* three back and puts one in their place, and the instruction that a query stands
\* at is never taken back or made anything but a jump.  It is the first half of what
\* LaidOut and Targeted say to the linker, kept for code of any length
\* (EmitInstruction, EmitModifyStackPointer and AddSymbolToQueryList of
\* scriptcompfinalcode.cpp).
THEOREM CodeStaysInOrder ==
  /\ \A heap, ids, opt : InOrder(L!Generator(heap, ids, opt))
  /\ \A g : InOrder(g) =>
       /\ InOrder(L!Reject(g))
       /\ \A op \in Opcode, a, b \in Int : InOrder(L!EmitInstruction(g, op, a, b))
       /\ \A op \in Opcode, at, a \in Int :
            Replaceable(g, at, op) => InOrder(L!Rewrite(g, at, op, a))
       /\ \A op \in Opcode, at \in Int :
            Replaceable(g, at, op) => InOrder(L!JumpHere(g, at, op))
       /\ \A amount \in Int : InOrder(L!EmitModifyStackPointer(g, amount))
       /\ \A depth \in Int : g.depth \in Int => InOrder(L!PopTo(g, depth))
       /\ \A type, one, two : InOrder(L!AddSymbolToLabelList(g, type, one, two))
       /\ \A op \in Opcode \cap L!Jumps, type \in STRING, one, two \in Int :
            InOrder(L!AddSymbolToQueryList(g, op, type, one, two))
       /\ \A n : InOrder(L!Deeper(g, n))
       /\ \A name, depth : InOrder(L!NameVariable(g, name, depth))
       /\ \A emit \in BOOLEAN : InOrder(L!AddVariableToStack(g, emit))
<1>1. \A heap, ids, opt : InOrder(L!Generator(heap, ids, opt))
  BY BeginsInOrder
<1>2. ASSUME NEW g, InOrder(g)
      PROVE  /\ InOrder(L!Reject(g))
             /\ \A n : InOrder(L!Deeper(g, n))
             /\ \A name, depth : InOrder(L!NameVariable(g, name, depth))
             /\ \A type, one, two : InOrder(L!AddSymbolToLabelList(g, type, one, two))
  <2>1. ASSUME NEW f \in {"status", "depth", "vars", "labels"}, NEW v
        PROVE  InOrder([g EXCEPT ![f] = v])
    <3> DEFINE h == [g EXCEPT ![f] = v]
    <3>1. /\ DOMAIN h = DOMAIN g /\ h.code = g.code /\ h.len = g.len
          /\ h.queries = g.queries
      BY <1>2 DEF InOrder
    <3> HIDE DEF h
    <3>2. InOrder(h)
      BY <1>2, <3>1, LeftInOrder
    <3>3. QED
      BY <3>2 DEF h
  <2>2. InOrder(L!Reject(g))
    BY <2>1 DEF L!Reject
  <2>3. \A n : InOrder(L!Deeper(g, n))
    BY <2>1 DEF L!Deeper
  <2>4. \A name, depth : InOrder(L!NameVariable(g, name, depth))
    BY <2>1 DEF L!NameVariable
  <2>5. \A type, one, two : InOrder(L!AddSymbolToLabelList(g, type, one, two))
    BY <2>1 DEF L!AddSymbolToLabelList
  <2>6. QED
    BY <2>2, <2>3, <2>4, <2>5
<1>3. ASSUME NEW g, InOrder(g), NEW op \in Opcode, NEW a \in Int, NEW b \in Int
      PROVE  InOrder(L!EmitInstruction(g, op, a, b))
  BY <1>3, EmitsInOrder
<1>4. ASSUME NEW g, InOrder(g), NEW op \in Opcode, NEW at \in Int, NEW a \in Int,
             Replaceable(g, at, op)
      PROVE  InOrder(L!Rewrite(g, at, op, a))
  BY <1>4, RewritesInOrder
<1>5. ASSUME NEW g, InOrder(g), NEW op \in Opcode, NEW at \in Int, Replaceable(g, at, op)
      PROVE  InOrder(L!JumpHere(g, at, op))
  <2>1. PICK a \in Int : a = g.len - at
    BY <1>5 DEF InOrder, Tape
  <2>2. L!JumpHere(g, at, op) = L!Rewrite(g, at, op, a)
    BY <2>1 DEF L!JumpHere
  <2>3. QED
    BY <1>4, <1>5, <2>2
<1>6. ASSUME NEW g, InOrder(g), NEW amount \in Int
      PROVE  InOrder(L!EmitModifyStackPointer(g, amount))
  BY <1>6, MovesInOrder
<1>7. ASSUME NEW g, InOrder(g), NEW depth \in Int, g.depth \in Int
      PROVE  InOrder(L!PopTo(g, depth))
  <2>1. PICK amount \in Int : amount = (depth - g.depth) * 4
    BY <1>7
  <2>2. L!PopTo(g, depth) \in {g, L!EmitModifyStackPointer(g, amount)}
    BY <2>1 DEF L!PopTo
  <2>3. QED
    BY <1>6, <1>7, <2>2
<1>8. ASSUME NEW g, InOrder(g), NEW op \in Opcode \cap L!Jumps, NEW type \in STRING,
             NEW one \in Int, NEW two \in Int
      PROVE  InOrder(L!AddSymbolToQueryList(g, op, type, one, two))
  BY <1>8, AsksInOrder
<1>9. ASSUME NEW g, InOrder(g), NEW emit \in BOOLEAN
      PROVE  InOrder(L!AddVariableToStack(g, emit))
  <2>1. PICK zero \in Int : zero = 0
    OBVIOUS
  <2>2. PICK one \in Int : one = 1
    OBVIOUS
  <2>3. "RSADD" \in Opcode
    BY DEF Opcode
  <2>4. InOrder(L!EmitInstruction(g, "RSADD", zero, zero))
    BY <1>3, <1>9, <2>3
  <2>5. InOrder(L!Deeper(L!EmitInstruction(g, "RSADD", zero, zero), one))
        /\ InOrder(L!Deeper(g, one))
    BY <1>2, <1>9, <2>4
  <2>6. L!AddVariableToStack(g, emit) \in
          {L!Deeper(L!EmitInstruction(g, "RSADD", zero, zero), one), L!Deeper(g, one)}
    BY <2>1, <2>2 DEF L!AddVariableToStack
  <2>7. QED
    BY <2>5, <2>6
<1>10. QED
  BY <1>1, <1>2, <1>3, <1>4, <1>5, <1>6, <1>7, <1>8, <1>9
=============================================================================
