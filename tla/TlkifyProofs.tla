---------------------------- MODULE TlkifyProofs ----------------------------
(***************************************************************************)
(* Theorems about Tlkify, for every set of texts, every table to start     *)
(* from and any number of runs.                                            *)
(***************************************************************************)
EXTENDS Tlkify, TLAPS

Line == Text \cup {Blank}

\* The types, but for the range of the references.
Shape ==
  /\ tlk \in Seq(Line) /\ source \in Seq(Line) /\ written \in Seq(Line)
  /\ status \in {"absent", "whole", "torn"}
  /\ phase \in {"idle", "collect", "erf", "save", "write"}
  /\ latest \in Nat /\ fresh \in Nat /\ next \in Nat
  /\ translations \in [Text -> 0..latest \cup {None}]

\* A table that is whole has an entry, and only a save finds one torn.
Tables1 ==
  /\ status = "whole" => tlk # <<>>
  /\ status = "absent" => tlk = <<>>
  /\ phase = "write" => status = "torn"

Known(t) == translations[t] # None

\* The texts of the first n entries are translated, each to its last place.
Recorded(n) ==
  \A i \in 1..n : source[i] \in Text =>
    /\ Known(source[i])
    /\ translations[source[i]] >= i - 1
    /\ translations[source[i]] < Len(source)
    /\ source[translations[source[i]] + 1] = source[i]

\* Only the highest entry of the old table may be claimed by two texts, its own
\* and the first new one.
Shared(r) == source # <<>> /\ r = Highest(source)

Distinct ==
  /\ \A t, u \in Text :
       Known(t) /\ translations[t] = translations[u] /\ t # u
         => fresh > 0 /\ Shared(translations[t])
  /\ \A t, u, v \in Text :
       Known(t) /\ translations[t] = translations[u] /\ translations[t] = translations[v]
         => t = u \/ u = v \/ v = t

\* The loop over the old table.
Collecting ==
  phase = "collect" =>
    /\ source # <<>> /\ latest = Len(source) - 1 /\ next <= latest
    /\ Recorded(next)
    /\ \A t \in Text : Known(t) => translations[t] < next

\* After it, the references taken lie below latest, except that the first one
\* given away is the highest of the old table.
Translating ==
  phase \in {"erf", "save", "write"} =>
    /\ Recorded(Len(source))
    /\ fresh = 0 =>
         /\ latest = Highest(source)
         /\ source = <<>> => \A t \in Text : ~Known(t)
    /\ fresh > 0 =>
         /\ latest > Highest(source)
         /\ \A t \in Text : Known(t) => translations[t] < latest
         /\ \E t \in Text : translations[t] = latest - 1

\* Saving: what has been written is what was assigned.
Writing ==
  /\ phase \in {"save", "write"} => fresh > 0
  /\ phase = "save" => written = <<>>
  /\ phase = "write" =>
       /\ Len(written) = next
       /\ \A t \in Text :
            Known(t) /\ translations[t] < next /\ ~Shared(translations[t])
              => written[translations[t] + 1] = Plain[t]

Inv ==
  /\ Shape /\ Tables1
  /\ phase # "idle" => Distinct
  /\ phase = "erf" => written = <<>>
  /\ phase = "collect" => written = <<>> /\ fresh = 0
  /\ Collecting /\ Translating /\ Writing

-----------------------------------------------------------------------------

\* A whole table's highest reference is a number, and 0 without a table.
LEMMA HighestNat == ASSUME NEW s \in Seq(Line) PROVE Highest(s) \in Nat
BY DEF Highest

\* When the table is saved, its last entry is the reference given away last.
LEMMA MaxIdIs ==
  ASSUME Inv, phase \in {"save", "write"}
  PROVE  MaxId = latest - 1
<1> DEFINE S == {r \in 0..latest : TextsAt(r) # {}} \cup {Highest(source)}
<1>1. fresh > 0 /\ latest > Highest(source) /\ Highest(source) \in Nat /\ latest \in Nat
  BY HighestNat DEF Inv, Writing, Translating, Shape
<1>2. latest - 1 \in S
  <2>1. PICK t \in Text : translations[t] = latest - 1
    BY <1>1 DEF Inv, Translating
  <2>2. t \in TextsAt(latest - 1) /\ latest - 1 \in 0..latest
    BY <2>1, <1>1 DEF TextsAt
  <2>3. QED
    BY <2>2
<1>3. \A q \in S : q <= latest - 1
  <2> SUFFICES ASSUME NEW q \in 0..latest, TextsAt(q) # {} PROVE q <= latest - 1
    BY <1>1
  <2>1. PICK t \in Text : translations[t] = q
    BY DEF TextsAt
  <2>2. Known(t)
    BY <2>1, TlkifyAssumption, <1>1 DEF Known
  <2>3. QED
    BY <2>1, <2>2, <1>1 DEF Inv, Translating
<1>4. \A r \in S : r \in Nat
  BY <1>1
<1>5. MaxId \in S /\ \A q \in S : q <= MaxId
  BY <1>2, <1>3 DEF MaxId
<1>6. QED
  BY <1>1, <1>2, <1>3, <1>4, <1>5

\* The initial states satisfy Inv.
LEMMA InitInv == Init => Inv
BY TlkifyAssumption
   DEF Init, Inv, Shape, Line, Tables1, Collecting, Translating, Writing

\* Opening the table satisfies Inv.
LEMMA StartKeeps == ASSUME Inv, Start PROVE Inv'
<1>1. Shape'
  <2>1. Highest(tlk) \in Nat
    BY HighestNat DEF Inv, Shape
  <2>2. QED
    BY <2>1 DEF Start, Inv, Shape, table
<1>2. \A t \in Text : ~Known(t)'
  BY DEF Start, Known
<1>3. Tables1'
  BY DEF Start, Inv, Tables1, table, Shape
<1>4. Collecting'
  <2> SUFFICES ASSUME phase' = "collect" PROVE Collecting'
    BY DEF Collecting
  <2>1. source' = tlk /\ tlk # <<>> /\ tlk \in Seq(Line) /\ latest' = Len(tlk) - 1 /\ next' = 0
    BY DEF Start, Inv, Tables1, Shape, Highest
  <2>2. Len(tlk) \in Nat \ {0}
    BY <2>1
  <2>3. QED
    BY <1>2, <2>1, <2>2 DEF Collecting, Recorded
<1>5. Translating'
  BY <1>2 DEF Start, Inv, Tables1, Shape, Translating, Recorded, Highest
<1>6. Distinct' /\ Writing'
  BY <1>2 DEF Start, Distinct, Writing
<1>7. QED
  BY <1>1, <1>3, <1>4, <1>5, <1>6 DEF Inv, Start

\* Collecting one more entry keeps Inv: it cannot be claimed by two texts yet.
LEMMA CollectKeeps == ASSUME Inv, Collect PROVE Inv'
<1> DEFINE x == source[next + 1]
<1>1. /\ phase = "collect" /\ source # <<>> /\ source \in Seq(Line)
      /\ latest = Len(source) - 1 /\ next \in 0..latest /\ latest \in Nat
      /\ next' = next + 1 /\ source' = source /\ latest' = latest /\ fresh' = fresh
      /\ written' = written /\ fresh = 0 /\ tlk' = tlk /\ status' = status
      /\ translations \in [Text -> 0..latest \cup {None}]
  BY DEF Inv, Shape, Collecting, Collect, table
<1>2. x \in Line
  BY <1>1
<1>3. translations' = IF x \in Text THEN [translations EXCEPT ![x] = next] ELSE translations
  BY DEF Collect
<1>4. phase' = (IF next = latest THEN "erf" ELSE "collect")
  BY DEF Collect
<1>5. Shape'
  BY <1>1, <1>2, <1>3, <1>4 DEF Inv, Shape
<1>6. \A t \in Text : Known(t)' => translations'[t] < next + 1 /\ translations'[t] \in 0..next
  BY <1>1, <1>3, TlkifyAssumption DEF Known, Inv, Collecting
<1>7. Distinct'
  <2> SUFFICES ASSUME NEW t \in Text, NEW u \in Text, translations'[t] # None,
                      translations'[t] = translations'[u], t # u
               PROVE  FALSE
    BY DEF Distinct, Known
  <2>0. \A v \in Text : translations[v] # None => translations[v] < next /\ translations[v] \in Nat
    BY <1>1 DEF Inv, Collecting, Known
  <2>1. ASSUME translations[t] # None, translations[u] = translations[t] PROVE FALSE
    BY <2>0, <2>1, <1>1 DEF Inv, Distinct, Known, Highest, Shared
  <2>2. CASE x \notin Text
    BY <2>2, <2>1, <1>3
  <2>3. CASE x \in Text /\ t = x
    BY <2>3, <2>0, <1>1, <1>3
  <2>4. CASE x \in Text /\ u = x
    BY <2>4, <2>0, <1>1, <1>3
  <2>5. CASE x \in Text /\ t # x /\ u # x
    BY <2>5, <2>1, <1>1, <1>3
  <2>6. QED
    BY <2>2, <2>3, <2>4, <2>5
<1>8. Recorded(next)'
  <2> SUFFICES ASSUME NEW i \in 1..next + 1, source[i] \in Text
               PROVE  /\ translations'[source[i]] # None
                      /\ translations'[source[i]] >= i - 1
                      /\ translations'[source[i]] < Len(source)
                      /\ source[translations'[source[i]] + 1] = source[i]
    BY <1>1 DEF Recorded, Known
  <2>1. CASE source[i] = x
    BY <2>1, <1>1, <1>3, TlkifyAssumption
  <2>2. CASE source[i] # x
    <3>1. i \in 1..next /\ translations'[source[i]] = translations[source[i]]
      BY <2>2, <1>1, <1>3
    <3>2. QED
      BY <3>1, <1>1 DEF Inv, Collecting, Recorded, Known
  <2>3. QED
    BY <2>1, <2>2
<1>9. Collecting'
  BY <1>1, <1>4, <1>6, <1>8 DEF Collecting
<1>10. Translating'
  <2>1. phase' = "erf" => Recorded(Len(source))'
    BY <1>1, <1>4, <1>8 DEF Recorded
  <2>2. QED
    BY <1>1, <1>4, <2>1 DEF Translating, Highest
<1>11. Tables1' /\ Writing'
  BY <1>1, <1>4 DEF Inv, Tables1, Writing
<1>12. QED
  BY <1>1, <1>4, <1>5, <1>7, <1>9, <1>10, <1>11 DEF Inv

\* A new text takes latest, which at most the highest old entry has.
LEMMA TranslateKeeps == ASSUME Inv, NEW t \in Text, Translate(t) PROVE Inv'
<1>1. /\ phase = "erf" /\ phase' = "erf" /\ source' = source /\ source \in Seq(Line)
      /\ tlk' = tlk /\ status' = status /\ next' = next /\ written' = written
      /\ latest \in Nat /\ fresh \in Nat /\ Highest(source) \in Nat
      /\ translations \in [Text -> 0..latest \cup {None}]
  BY HighestNat DEF Inv, Shape, Translate, table
<1>2. CASE Known(t)
  <2>1. translations' = translations /\ latest' = latest /\ fresh' = fresh
    BY <1>1, <1>2 DEF Translate, Known, RefOf
  <2>2. QED
    BY <1>1, <2>1 DEF Inv, Shape, Tables1, Distinct, Collecting, Translating, Writing,
                      Recorded, Known, Shared
<1>3. CASE ~Known(t)
  <2>1. /\ translations' = [translations EXCEPT ![t] = latest]
        /\ latest' = latest + 1 /\ fresh' = fresh + 1
    BY <1>3 DEF Translate, Known, RefOf, Advanced
  <2>2. Shape'
    BY <1>1, <2>1 DEF Inv, Shape
  <2>3. \A u \in Text : translations'[u] # None => translations'[u] < latest + 1
    BY <1>1, <2>1, TlkifyAssumption
  <2>4. Recorded(Len(source))'
    <3> SUFFICES ASSUME NEW i \in 1..Len(source), source[i] \in Text
                 PROVE  /\ translations'[source[i]] # None
                        /\ translations'[source[i]] >= i - 1
                        /\ translations'[source[i]] < Len(source)
                        /\ source[translations'[source[i]] + 1] = source[i]
      BY <1>1 DEF Recorded, Known
    <3>1. source[i] # t
      BY <1>1, <1>3 DEF Inv, Translating, Recorded
    <3>2. QED
      BY <1>1, <2>1, <3>1 DEF Inv, Translating, Recorded, Known
  <2>5. Translating'
    BY <1>1, <2>1, <2>3, <2>4 DEF Inv, Translating, Known
  <2>6. Distinct'
    <3>1. ASSUME NEW u \in Text, u # t, translations[u] = latest
          PROVE  fresh = 0 /\ Known(u) /\ Shared(latest)
      BY <1>1, <3>1, TlkifyAssumption DEF Inv, Translating, Known, Shared
    <3>2. ASSUME NEW u \in Text, NEW v \in Text, translations'[u] # None,
                 translations'[u] = translations'[v], u # v
          PROVE  fresh' > 0 /\ Shared(translations'[u])
      BY <1>1, <2>1, <3>1, <3>2 DEF Inv, Distinct, Known
    <3>3. ASSUME NEW u \in Text, NEW v \in Text, NEW w \in Text, translations'[u] # None,
                 translations'[u] = translations'[v], translations'[u] = translations'[w]
          PROVE  u = v \/ v = w \/ w = u
      <4>1. ASSUME NEW x \in Text, NEW y \in Text, x # t, y # t,
                   translations[x] = latest, translations[y] = latest
            PROVE  x = y
        BY <1>1, <3>1, <4>1 DEF Inv, Distinct
      <4>2. QED
        BY <1>1, <2>1, <3>3, <4>1 DEF Inv, Distinct, Known
    <3>4. QED
      BY <1>1, <3>2, <3>3 DEF Distinct, Known, Shared
  <2>7. QED
    BY <1>1, <2>1, <2>2, <2>5, <2>6 DEF Inv, Tables1, Collecting, Writing
<1>4. QED
  BY <1>2, <1>3

\* A run that gives up leaves the file as it is.
LEMMA GiveUpKeeps == ASSUME Inv, GiveUp PROVE Inv'
BY DEF Inv, GiveUp, Shape, Tables1, Collecting, Translating, Writing, table, map

\* A run that ends its module saves only with new translations.
LEMMA EndErfKeeps == ASSUME Inv, EndErf PROVE Inv'
BY DEF Inv, EndErf, Shape, Tables1, Distinct, Collecting, Translating, Writing,
       Recorded, Known, Shared, table, map

\* Nothing is written when the file has just been opened.
LEMMA OpenForWritingKeeps == ASSUME Inv, OpenForWriting PROVE Inv'
<1>1. \A t \in Text : Known(t) => translations[t] >= 0
  BY TlkifyAssumption DEF Inv, Shape, Known
<1>2. QED
  BY <1>1 DEF Inv, OpenForWriting, Shape, Tables1, Distinct, Collecting, Translating, Writing,
              Recorded, Known, Shared, map

\* What is written for an entry some texts are translated to is one of them.
LEMMA LastAssigned ==
  ASSUME Inv, phase = "write", NEW r \in Nat, Assigned(r) # {}
  PROVE  LET c == CHOOSE t \in Assigned(r) : \A u \in Assigned(r) : u <= t
         IN  c \in Assigned(r)
<1>1. \A t \in Assigned(r) : t \in Text /\ t \in Nat /\ Known(t) /\ translations[t] = r
  BY TlkifyAssumption DEF Assigned, TextsAt, Known
<1>2. PICK t \in Assigned(r) : TRUE
  OBVIOUS
<1>3. PICK u \in Assigned(r) : u # t \/ Assigned(r) = {t}
  BY <1>2
<1>4. \A v \in Assigned(r) : v = t \/ v = u
  BY <1>1, <1>2, <1>3 DEF Inv, Distinct
<1>5. \E m \in Assigned(r) : \A v \in Assigned(r) : v <= m
  BY <1>1, <1>2, <1>3, <1>4
<1>6. QED
  BY <1>5

\* A text without "\r" is a text or none.
LEMMA PlainLines == \A text \in Line : Plain[text] \in Line
BY TlkifyAssumption DEF Line

\* Writing one more entry keeps what was written and adds what was assigned.
LEMMA WriteEntryKeeps == ASSUME Inv, WriteEntry PROVE Inv'
<1>1. /\ phase = "write" /\ phase' = "write" /\ source' = source /\ source \in Seq(Line)
      /\ tlk' = tlk /\ status' = status /\ latest' = latest /\ fresh' = fresh
      /\ translations' = translations /\ next \in Nat /\ next' = next + 1
      /\ written \in Seq(Line) /\ Len(written) = next
  BY DEF Inv, Shape, Writing, WriteEntry, table, map, Emit
<1>2. PICK text \in Line :
        /\ written' = Append(written, text)
        /\ \A t \in Text : translations[t] = next /\ ~Shared(next) => text = Plain[t]
  <2>1. CASE Assigned(next) # {}
    <3> DEFINE c == CHOOSE t \in Assigned(next) : \A u \in Assigned(next) : u <= t
    <3>1. c \in Assigned(next) /\ c \in Text /\ translations[c] = next
      BY <1>1, <2>1, LastAssigned DEF Assigned, TextsAt
    <3>2. written' = Append(written, Plain[c])
      BY <2>1 DEF WriteEntry, Emit, Reading
    <3>3. \A t \in Text : translations[t] = next /\ ~Shared(next) => c = t
      BY <1>1, <3>1, TlkifyAssumption DEF Inv, Distinct, Known
    <3>4. QED
      BY <3>1, <3>2, <3>3, PlainLines DEF Line
  <2>2. CASE Assigned(next) = {}
    <3>1. \A t \in Text : translations[t] # next
      BY <2>2 DEF Assigned, TextsAt
    <3>2. \E text \in Line : written' = Append(written, text)
      <4>1. PICK text \in Line : written' = Append(written, Plain[text])
        BY <1>1, <2>2 DEF WriteEntry, Emit, Reading, Line
      <4>2. QED
        BY <4>1, PlainLines
    <3>3. QED
      BY <3>1, <3>2
  <2>3. QED
    BY <2>1, <2>2
<1>3. Shape' /\ Len(written)' = next'
  BY <1>1, <1>2 DEF Inv, Shape
<1>4. ASSUME NEW t \in Text, translations[t] # None, translations[t] < next + 1,
             ~Shared(translations[t])
      PROVE  written'[translations[t] + 1] = Plain[t]
  <2>1. translations[t] \in Nat
    BY <1>4 DEF Inv, Shape
  <2>2. CASE translations[t] = next
    BY <1>1, <1>2, <1>4, <2>2
  <2>3. CASE translations[t] < next
    <3>1. written[translations[t] + 1] = Plain[t]
      BY <1>1, <1>4, <2>3 DEF Inv, Writing, Known
    <3>2. QED
      BY <1>1, <1>2, <2>1, <2>3, <3>1
  <2>4. QED
    BY <1>1, <1>4, <2>1, <2>2, <2>3
<1>5. Writing'
  BY <1>1, <1>3, <1>4 DEF Writing, Known, Shared, Inv
<1>6. Distinct' /\ Translating'
  BY <1>1 DEF Inv, Distinct, Translating, Recorded, Known, Shared
<1>7. QED
  BY <1>1, <1>3, <1>5, <1>6 DEF Inv, Tables1, Collecting

\* A save that fails leaves the table torn.
LEMMA ReadFailsKeeps == ASSUME Inv, ReadFails PROVE Inv'
BY DEF Inv, ReadFails, Shape, Tables1, Collecting, Translating, Writing, table, map

\* When the last entry has been written, all of them have.
LEMMA AllWritten ==
  ASSUME Inv, Save
  PROVE  /\ next >= latest /\ written # <<>>
         /\ \A t \in Text : Known(t) => translations[t] < next
<1>1. phase = "write" /\ next > MaxId
  BY DEF Save
<1>2. MaxId = latest - 1
  BY <1>1, MaxIdIs
<1>3. fresh > 0 /\ latest > Highest(source) /\ Highest(source) \in Nat /\ latest \in Nat
      /\ next \in Nat /\ Len(written) = next
  BY <1>1, HighestNat DEF Inv, Writing, Translating, Shape
<1>4. \A t \in Text : Known(t) => translations[t] \in Nat /\ translations[t] < latest
  BY <1>1, <1>3 DEF Inv, Translating, Shape, Known
<1>5. QED
  BY <1>1, <1>2, <1>3, <1>4

\* A saved table is whole and has entries.
LEMMA SaveKeeps == ASSUME Inv, Save PROVE Inv'
BY AllWritten DEF Inv, Save, Shape, Tables1, Collecting, Translating, Writing, map

\* Every step keeps Inv.
THEOREM Invariance == Spec => []Inv
<1>1. Init => Inv
  BY InitInv
<1>2. Inv /\ [Next]_vars => Inv'
  <2> SUFFICES ASSUME Inv, [Next]_vars PROVE Inv'
    OBVIOUS
  <2>1. CASE UNCHANGED vars
    BY <2>1 DEF vars, table, map, modules, Inv, Shape, Tables1, Distinct, Collecting,
                Translating, Writing, Recorded, Known, Shared
  <2>2. CASE Next
    BY <2>2, StartKeeps, CollectKeeps, TranslateKeeps, GiveUpKeeps, EndErfKeeps,
       OpenForWritingKeeps, WriteEntryKeeps, ReadFailsKeeps, SaveKeeps DEF Next
  <2>3. QED
    BY <2>1, <2>2
<1>3. QED
  BY <1>1, <1>2, PTL DEF Spec

\* Only Save makes a torn table whole.
LEMMA OnlySave ==
  ASSUME Inv, [Next]_vars, status = "torn", status' = "whole"
  PROVE  Save
BY DEF Next, vars, table, Start, Collect, Translate, GiveUp, EndErf, OpenForWriting,
       WriteEntry, ReadFails

\* A run that saves the table (nwn_erf_tlkify.nim) keeps the references of the
\* texts it found there and gives every other text of the module one of its
\* own, but for the highest entry of the old table.
THEOREM SavedAsTranslated == Spec => TranslationsSaved
<1>1. Inv /\ [Next]_vars =>
        [status = "torn" /\ status' = "whole" =>
           \A t \in Text :
             /\ translations[t] # None
             /\ source # <<>> => translations[t] # Highest(source)
             => tlk'[translations[t] + 1] = Plain[t]]_vars
  <2> SUFFICES ASSUME Inv, [Next]_vars, status = "torn", status' = "whole",
                      NEW t \in Text, Known(t), ~Shared(translations[t])
               PROVE  tlk'[translations[t] + 1] = Plain[t]
    BY DEF Known, Shared
  <2>1. Save
    BY OnlySave
  <2>2. tlk' = written /\ phase = "write" /\ translations[t] < next
    BY <2>1, AllWritten DEF Save
  <2>3. QED
    BY <2>2 DEF Inv, Writing
<1>2. QED
  BY <1>1, Invariance, PTL DEF Spec, TranslationsSaved

\* SingleTlk.write reads an entry from the file it is overwriting only if that
\* entry has no text or one that a later entry repeats: without such entries
\* no run of the tool can lose the table to its own save.
THEOREM NothingReadBack == Spec => SaveReadsNothing
<1>1. Inv /\ [Next]_vars =>
        [ReadFails =>
           \E i \in DOMAIN source :
             source[i] = Blank \/ \E j \in DOMAIN source \ {i} : source[i] = source[j]]_vars
  <2> SUFFICES ASSUME Inv, ReadFails
               PROVE  \E i \in DOMAIN source :
                        source[i] = Blank
                          \/ \E j \in DOMAIN source \ {i} : source[i] = source[j]
    OBVIOUS
  <2> DEFINE i == next + 1
  <2>1. phase = "write" /\ Assigned(next) = {} /\ next < Len(source) /\ next \in Nat
        /\ source \in Seq(Line)
    BY DEF ReadFails, Reading, Inv, Shape
  <2>2. i \in DOMAIN source /\ i \in 1..Len(source)
    BY <2>1
  <2>3. CASE source[i] \in Text
    <3> DEFINE j == translations[source[i]] + 1
    <3>1. /\ translations[source[i]] # None /\ translations[source[i]] < Len(source)
          /\ source[j] = source[i]
      BY <2>1, <2>2, <2>3 DEF Inv, Translating, Recorded, Known
    <3>2. translations[source[i]] \in Nat
      BY <2>3, <3>1 DEF Inv, Shape
    <3>3. translations[source[i]] # next
      BY <2>1, <2>3 DEF Assigned, TextsAt
    <3>4. j \in DOMAIN source \ {i}
      BY <2>1, <3>1, <3>2, <3>3
    <3>5. QED
      BY <2>2, <3>1, <3>4
  <2>4. CASE source[i] \notin Text
    BY <2>1, <2>2, <2>4 DEF Line
  <2>5. QED
    BY <2>3, <2>4
<1>2. QED
  BY <1>1, Invariance, PTL DEF Spec, SaveReadsNothing

-----------------------------------------------------------------------------

\* What the module refers to, and what the cache holds.
References ==
  /\ erf \subseteq [text : Text, ref : Nat]
  /\ phase = "collect" => erf = {}
  /\ \A p \in erf : translations[p.text] = p.ref
  /\ held \subseteq 0..Highest(source)

\* Every step keeps References: a text already referred to keeps its reference.
LEMMA ReferencesKept ==
  ASSUME Inv, References, [Next]_vars PROVE References'
<1> USE DEF References, map, modules
<1>1. Highest(source) \in Nat /\ next \in Nat
  BY HighestNat DEF Inv, Shape
<1>2. CASE UNCHANGED vars
  BY <1>2 DEF vars
<1>3. CASE Start
  BY <1>3 DEF Start
<1>4. CASE Collect
  <2>1. next \in 0..Highest(source) /\ source' = source
    BY <1>1, <1>4 DEF Collect, Inv, Collecting, Highest
  <2>2. held' \subseteq 0..Highest(source)
    BY <1>4, <2>1 DEF Collect, HeldAfter
  <2>3. QED
    BY <1>4, <2>1, <2>2 DEF Collect
<1>5. ASSUME NEW t \in Text, Translate(t) PROVE References'
  <2>1. RefOf(t) \in Nat
    BY <1>1 DEF RefOf, Inv, Shape
  <2>2. /\ erf' = erf \cup {[text |-> t, ref |-> RefOf(t)]}
        /\ translations' = [translations EXCEPT ![t] = RefOf(t)]
        /\ source' = source /\ held' = held /\ phase' = "erf"
    BY <1>5 DEF Translate, Answer
  <2>3. ASSUME NEW p \in erf' PROVE translations'[p.text] = p.ref
    <3>1. CASE p = [text |-> t, ref |-> RefOf(t)]
      BY <2>2, <3>1 DEF Inv, Shape
    <3>2. CASE p \in erf /\ p.text # t
      BY <2>2, <3>2 DEF Inv, Shape
    <3>3. CASE p \in erf /\ p.text = t
      <4>1. translations[t] = p.ref /\ p.ref \in Nat
        BY <3>3
      <4>2. RefOf(t) = p.ref
        BY <4>1, TlkifyAssumption DEF RefOf
      <4>3. QED
        BY <2>2, <3>3, <4>2 DEF Inv, Shape
    <3>4. QED
      BY <2>2, <3>1, <3>2, <3>3
  <2>4. QED
    BY <2>1, <2>2, <2>3
<1>6. CASE GiveUp \/ EndErf \/ OpenForWriting \/ ReadFails \/ Save
  BY <1>6 DEF GiveUp, EndErf, OpenForWriting, ReadFails, Save
<1>7. CASE WriteEntry
  <2>1. held' \subseteq 0..Highest(source)
    <3>1. CASE UNCHANGED held
      BY <3>1
    <3>2. CASE Reading /\ held' \in HeldAfter(next)
      <4>1. next \in 0..Highest(source)
        BY <1>1, <3>2 DEF Reading, Highest, Inv, Shape
      <4>2. QED
        BY <3>2, <4>1 DEF HeldAfter
    <3>3. QED
      BY <1>7, <3>1, <3>2 DEF WriteEntry
  <2>2. QED
    BY <1>7, <2>1 DEF WriteEntry, Emit
<1>8. QED
  BY <1>2, <1>3, <1>4, <1>5, <1>6, <1>7 DEF Next

\* The state of nwn_erf_tlkify.nim has its types, and what a module refers to
\* stays what its texts are translated to.
THEOREM TypeCorrect == Spec => []TypeOK
<1>1. Init => References
  BY DEF Init, References
<1>2. Inv /\ References => TypeOK
  BY DEF Inv, Shape, Line, References, TypeOK
<1>3. QED
  BY <1>1, <1>2, ReferencesKept, Invariance, PTL DEF Spec

-----------------------------------------------------------------------------
(* What becomes of a table over many runs, if no text is in it twice.      *)

Apart(s) == \A i, j \in DOMAIN s : s[i] = s[j] => i = j \/ s[i] = Blank

\* The tables the first run may find have no text twice, as those have that tlkify
\* has made.
StartsApart == \A s \in Tables : Apart(s)

\* No text has a "\r", so that no two texts become one in a save.
SavedAsTheyAre == \A t \in Text : Plain[t] = t

ApartInv ==
  /\ status # "torn" => Apart(tlk)
  /\ phase # "idle" => Apart(source)
  /\ phase = "write" =>
       \A i \in DOMAIN written : written[i] \in Text => translations[written[i]] = i - 1

\* Each text of such a table is translated to its own place.
LEMMA OwnPlace ==
  ASSUME Inv, Apart(source), phase \in {"erf", "save", "write"},
         NEW i \in DOMAIN source, source[i] \in Text
  PROVE  translations[source[i]] = i - 1
<1> DEFINE r == translations[source[i]]
<1>1. source \in Seq(Line) /\ i \in 1..Len(source) /\ Len(source) \in Nat
  BY DEF Inv, Shape
<1>2. r # None /\ r < Len(source) /\ source[r + 1] = source[i]
  BY <1>1 DEF Inv, Translating, Recorded, Known
<1>3. r \in Nat
  BY <1>2 DEF Inv, Shape
<1>4. r + 1 \in DOMAIN source /\ source[i] # Blank
  BY <1>1, <1>2, <1>3, TlkifyAssumption
<1>5. r + 1 = i
  BY <1>2, <1>4 DEF Apart
<1>6. QED
  BY <1>3, <1>5

\* An entry that has to be read back has no text.
LEMMA OnlyBlanksReadBack ==
  ASSUME Inv, Apart(source), phase = "write", Assigned(next) = {}, next < Len(source)
  PROVE  source[next + 1] = Blank
<1>1. source \in Seq(Line) /\ next \in Nat
  BY DEF Inv, Shape
<1>2. next + 1 \in DOMAIN source /\ source[next + 1] \in Line
  BY <1>1
<1>3. source[next + 1] \notin Text
  <2>1. SUFFICES ASSUME source[next + 1] \in Text PROVE FALSE
    OBVIOUS
  <2>2. translations[source[next + 1]] = next
    BY <1>1, <1>2, <2>1, OwnPlace
  <2>3. QED
    BY <2>1, <2>2 DEF Assigned, TextsAt
<1>4. QED
  BY <1>2, <1>3 DEF Line

\* What is written next is a text at its place, or no text.
LEMMA WrittenApart ==
  ASSUME Inv, ApartInv, SavedAsTheyAre, WriteEntry
  PROVE  \E text \in Line : /\ written' = Append(written, text)
                            /\ text \in Text => translations[text] = next
<1>1. phase = "write" /\ Apart(source) /\ next \in Nat
  BY DEF WriteEntry, ApartInv, Inv, Shape
<1>2. CASE Assigned(next) # {}
  <2> DEFINE c == CHOOSE t \in Assigned(next) : \A u \in Assigned(next) : u <= t
  <2>1. c \in Assigned(next) /\ c \in Text /\ translations[c] = next
    BY <1>1, <1>2, LastAssigned DEF Assigned, TextsAt
  <2>2. written' = Append(written, c)
    BY <1>2, <2>1 DEF WriteEntry, Emit, Reading, SavedAsTheyAre
  <2>3. QED
    BY <2>1, <2>2 DEF Line
<1>3. CASE Assigned(next) = {}
  <2>1. next < Len(source) => source[next + 1] = Blank
    BY <1>1, <1>3, OnlyBlanksReadBack
  <2>2. written' = Append(written, Blank)
    BY <1>3, <2>1, TlkifyAssumption DEF WriteEntry, Emit, Reading
  <2>3. QED
    BY <2>2, TlkifyAssumption DEF Line
<1>4. QED
  BY <1>2, <1>3

\* No step puts a text into a table twice.
LEMMA ApartStep ==
  ASSUME Inv, ApartInv, SavedAsTheyAre, [Next]_vars
  PROVE  ApartInv'
<1> USE DEF ApartInv
<1>1. CASE UNCHANGED vars
  BY <1>1 DEF vars, table, map, Apart
<1>2. CASE Start
  BY <1>2 DEF Start, table, Apart
<1>3. CASE Collect \/ (\E t \in Text : Translate(t)) \/ GiveUp \/ EndErf \/ ReadFails
  <2>1. tlk' = tlk /\ status' = status /\ source' = source /\ phase # "idle" /\ phase' # "write"
    BY <1>3 DEF Collect, Translate, GiveUp, EndErf, ReadFails, table
  <2>2. QED
    BY <2>1 DEF Apart
<1>4. CASE OpenForWriting
  <2>1. /\ status' = "torn" /\ source' = source /\ phase = "save"
        /\ written' = written /\ written = <<>>
    BY <1>4 DEF OpenForWriting, Inv, Writing
  <2>2. QED
    BY <2>1 DEF Apart
<1>5. CASE WriteEntry
  <2>1. /\ phase = "write" /\ phase' = "write" /\ source' = source /\ status' = status
        /\ tlk' = tlk /\ translations' = translations /\ status = "torn"
        /\ written \in Seq(Line) /\ Len(written) = next
    BY <1>5 DEF WriteEntry, table, map, Inv, Tables1, Shape, Writing, Emit
  <2>2. PICK text \in Line : /\ written' = Append(written, text)
                             /\ text \in Text => translations[text] = next
    BY <1>5, WrittenApart
  <2>3. ASSUME NEW i \in DOMAIN written', written'[i] \in Text
        PROVE  translations[written'[i]] = i - 1
    <3>1. i \in 1..Len(written) + 1 /\ Len(written) \in Nat
      BY <2>1, <2>2
    <3>2. CASE i \in 1..Len(written)
      <4>1. written'[i] = written[i] /\ i \in DOMAIN written
        BY <2>1, <2>2, <3>2
      <4>2. QED
        BY <2>1, <2>3, <4>1
    <3>3. CASE i = Len(written) + 1
      BY <2>1, <2>2, <2>3, <3>1, <3>3
    <3>4. QED
      BY <3>1, <3>2, <3>3
  <2>4. QED
    BY <2>1, <2>3 DEF Apart
<1>6. CASE Save
  <2>1. phase = "write" /\ phase' = "idle" /\ tlk' = written /\ written \in Seq(Line)
    BY <1>6 DEF Save, Inv, Shape
  <2>2. ASSUME NEW i \in DOMAIN written, NEW j \in DOMAIN written, written[i] = written[j],
               written[i] # Blank
        PROVE  i = j
    <3>1. written[i] \in Text /\ i \in Nat /\ j \in Nat
      BY <2>1, <2>2 DEF Line
    <3>2. translations[written[i]] = i - 1 /\ translations[written[i]] = j - 1
      BY <2>1, <2>2, <3>1
    <3>3. QED
      BY <3>1, <3>2
  <2>3. Apart(tlk)'
    BY <2>1, <2>2 DEF Apart
  <2>4. QED
    BY <2>1, <2>3
<1>7. QED
  BY <1>1, <1>2, <1>3, <1>4, <1>5, <1>6 DEF Next

\* Entry r has text t and is not the last one.
Before(s, r, t) == r + 1 < Len(s) /\ s[r + 1] = t

\* It has when the file is whole, and the run under way has found it so.
Stays(r, t) ==
  /\ status = "whole" => Before(tlk, r, t)
  /\ phase # "idle" => Before(source, r, t)
  /\ phase # "idle" /\ status # "torn" => tlk = source

\* The run under way has found the table that is there.
LEMMA SourceStep ==
  ASSUME Inv, phase # "idle" /\ status # "torn" => tlk = source, [Next]_vars
  PROVE  (phase # "idle" /\ status # "torn" => tlk = source)'
BY DEF Next, vars, table, Start, Collect, Translate, GiveUp, EndErf, OpenForWriting,
       WriteEntry, ReadFails, Save, Inv, Tables1

\* A save leaves an entry before the last as it was, and before the last.
LEMMA SaveLeaves ==
  ASSUME Inv, ApartInv, SavedAsTheyAre, Save, NEW t \in Text, NEW r \in Nat, Before(source, r, t)
  PROVE  Before(tlk', r, t)
<1>1. phase = "write" /\ Apart(source) /\ tlk' = written
  BY DEF Save, ApartInv
<1>2. /\ source \in Seq(Line) /\ Len(source) \in Nat /\ r + 1 \in DOMAIN source
      /\ Highest(source) = Len(source) - 1 /\ latest \in Nat /\ next \in Nat
  BY DEF Inv, Shape, Before, Highest
<1>3. translations[t] = r
  <2>1. source[r + 1] = t
    BY DEF Before
  <2>2. translations[source[r + 1]] = (r + 1) - 1
    BY <1>1, <1>2, <2>1, OwnPlace
  <2>3. QED
    BY <2>1, <2>2
<1>4. Known(t) /\ ~Shared(translations[t])
  BY <1>2, <1>3, TlkifyAssumption DEF Known, Shared, Before
<1>5. r < next /\ next >= latest /\ Len(written) = next
  BY <1>1, <1>3, <1>4, AllWritten DEF Inv, Writing
<1>6. written[r + 1] = t
  BY <1>1, <1>3, <1>4, <1>5 DEF Inv, Writing, SavedAsTheyAre
<1>7. latest > Highest(source)
  BY <1>1 DEF Inv, Writing, Translating
<1>8. r + 1 < Len(written)
  BY <1>2, <1>5, <1>7 DEF Before
<1>9. QED
  BY <1>1, <1>6, <1>8 DEF Before

LEMMA StaysStep ==
  ASSUME Inv, ApartInv, SavedAsTheyAre, [Next]_vars, NEW t \in Text, NEW r \in Nat,
         Stays(r, t), status # "absent"
  PROVE  Stays(r, t)' /\ status' # "absent"
<1>0. (phase # "idle" /\ status # "torn" => tlk = source)'
  BY SourceStep DEF Stays
<1>1. status' # "absent"
  BY DEF Next, vars, table, Start, Collect, Translate, GiveUp, EndErf, OpenForWriting,
         WriteEntry, ReadFails, Save
<1>2. CASE Save
  <2>1. phase = "write" /\ phase' = "idle"
    BY <1>2 DEF Save
  <2>2. Before(tlk', r, t)
    BY <1>2, <2>1, SaveLeaves DEF Stays
  <2>3. QED
    BY <1>0, <1>1, <2>1, <2>2 DEF Stays, Before
<1>3. CASE Start
  <2>1. source' = tlk /\ tlk' = tlk /\ status' = status /\ status = "whole"
    BY <1>3 DEF Start, table, Inv, Shape
  <2>2. QED
    BY <1>0, <1>1, <2>1 DEF Stays, Before
<1>4. CASE ~Save /\ ~Start
  <2>1. source' = source /\ (phase = "idle" => phase' = "idle")
    BY <1>4 DEF Next, vars, table, Collect, Translate, GiveUp, EndErf, OpenForWriting,
                WriteEntry, ReadFails
  <2>2. status' = "whole" => status = "whole" /\ tlk' = tlk
    BY <1>4 DEF Next, vars, table, Collect, Translate, GiveUp, EndErf, OpenForWriting,
                WriteEntry, ReadFails
  <2>3. QED
    BY <1>0, <1>1, <2>1, <2>2 DEF Stays, Before
<1>5. QED
  BY <1>2, <1>3, <1>4

\* Over any number of runs of nwn_erf_tlkify.nim, and whatever becomes of them: an
\* entry with a text that is not the last of the table keeps it for ever, as long as
\* the file can be read at all, if no text was in the first table twice and none has
\* a "\r" that tlk.nim takes out.  The last entry is all that a run may take from the
\* modules before it.
THEOREM EntriesOutliveRuns ==
  ASSUME StartsApart, SavedAsTheyAre, NEW t \in Text, NEW r \in Nat
  PROVE  Spec => []((status = "whole" /\ Before(tlk, r, t))
                      => [](status = "whole" => Before(tlk, r, t)))
<1> DEFINE Found == phase # "idle" /\ status # "torn" => tlk = source
           I == Inv /\ ApartInv /\ Found
           S == Stays(r, t) /\ status # "absent"
           Q == status = "whole" /\ Before(tlk, r, t)
<1>1. Init => ApartInv /\ Found
  BY DEF Init, ApartInv, StartsApart
<1>2. I /\ [Next]_vars => (ApartInv /\ Found)'
  BY ApartStep, SourceStep
<1>3. I /\ Q => S
  BY DEF Stays, Inv, Tables1
<1>4. I /\ S /\ [Next]_vars => S'
  BY StaysStep
<1>5. S => (status = "whole" => Before(tlk, r, t))
  BY DEF Stays
<1>6. Spec => []I
  BY <1>1, <1>2, Invariance, PTL DEF Spec
<1>7. QED
  BY <1>3, <1>4, <1>5, <1>6, PTL DEF Spec
=============================================================================
