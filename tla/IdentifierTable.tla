-------------------------- MODULE IdentifierTable --------------------------
(***************************************************************************)
(* The names a script compiler knows (native/scriptcompcore.cpp,           *)
(* scriptcompfinalcode.cpp): a list that the language file fills first and *)
(* every script continues, and an open hash table of indices into it.  A   *)
(* worker keeps one compiler for all of its scripts, so what a script left *)
(* in the table is met by the next one.                                    *)
(***************************************************************************)
EXTENDS Integers

CONSTANTS
  Name,            \* what the language file and scripts may declare
  Loader, Globals, \* "#loader" and "#globals", which the compiler declares
  Blank,           \* the empty string
  HashString,      \* the hash of each name
  Size,            \* SIZE_IDENTIFIER_HASH_TABLE
  Keyword,         \* slots taken by keywords and engine structures
  MaxIdentifiers   \* MAX_IDENTIFIERS; bound: no script fills the list

Identifier == Name \cup {Loader, Globals}
Slot == 0 .. Size - 1
Index == 0 .. MaxIdentifiers - 1

\* The hash has 32 bits; that no script has a name with the hash of
\* "#globals" is needed only for the entries that name leaves behind.
ASSUME ConstantsAssumption ==
  /\ Loader \notin Name /\ Globals \notin Name /\ Loader # Globals
  /\ Blank \notin Identifier
  /\ HashString \in [Identifier -> Nat]
  /\ \A n \in Name \cup {Loader} : HashString[n] # HashString[Globals]
  /\ Size \in Nat \ {0}
  /\ Keyword \subseteq Slot
  /\ MaxIdentifiers \in Nat \ {0}

VARIABLES
  list,        \* m_pcIdentifierList: the name of each identifier
  occupied,    \* m_nOccupiedIdentifiers
  predefined,  \* m_nMaxPredefinedIdentifierId
  table,       \* m_pIdentifierHashTable
  stage,       \* where the compiler is
  leaked       \* history: the walk of some script's globals failed

vars == <<list, occupied, predefined, table, stage, leaked>>

Undefined == -1  \* ERROR_UNDEFINED_IDENTIFIER

Free == [type |-> "unknown", hash |-> 0, index |-> 0]
Taken == [type |-> "keyword", hash |-> 0, index |-> 0]
Entry(i, n) == [type |-> "identifier", hash |-> HashString[n], index |-> i]

\* The slot a search for name n looks at after d others.
At(n, d) == (HashString[n] + d) % Size

\* Does the entry in slot s stand for name n, by the list l?
Matches(l, s, n) ==
  /\ table[s].type = "identifier"
  /\ table[s].hash = HashString[n]
  /\ l[table[s].index] = n

\* A search for n passes its first d slots: none is n's and none is free.
Passes(l, n, d) ==
  \A e \in Slot : e < d => ~Matches(l, At(n, e), n) /\ table[At(n, e)].type # "unknown"

FoundAt(l, n, d) == d \in Slot /\ Passes(l, n, d) /\ Matches(l, At(n, d), n)

IsDefined(l, n) == \E d \in Slot : FoundAt(l, n, d)

GetIdentifierByName(n) ==
  IF IsDefined(list, n)
  THEN table[At(n, CHOOSE d \in Slot : FoundAt(list, n, d))].index
  ELSE Undefined

FirstFree(n, d) ==
  /\ table[At(n, d)].type = "unknown"
  /\ \A e \in Slot : e < d => table[At(n, e)].type # "unknown"

\* Identifier i gets the name n and the first free slot for it.  Bound: the
\* table is never full.
HashManagerAdd(i, n) ==
  /\ list' = [list EXCEPT ![i] = n]
  /\ \E d \in Slot : FirstFree(n, d) /\ table' = [table EXCEPT ![At(n, d)] = Entry(i, n)]

\* mutant: whatever has the hash of identifier i.
DeletedByHash(i, s) ==
  \E d \in Slot :
    /\ s = At(list[i], d)
    /\ table[s].hash = HashString[list[i]]
    /\ \A e \in Slot : e < d => table[At(list[i], e)].hash # HashString[list[i]]

\* HashManagerDelete of identifier i, which looks further than a free slot:
\* the first slot that holds exactly this identifier.
Deleted(i, s) ==
  \E d \in Slot :
    /\ s = At(list[i], d)
    /\ table[s] = Entry(i, list[i])
    /\ \A e \in Slot : e < d => table[At(list[i], e)] # Entry(i, list[i])

UserDefinedButFirst == {i \in Index : predefined < i /\ i < occupied}  \* mutant
UserDefined == {i \in Index : predefined <= i /\ i < occupied}

\* All deletions of one call: no two of them clear the same slot.
ClearUserDefinedIdentifiers ==
  /\ table' = [s \in Slot |-> IF \E i \in UserDefined : Deleted(i, s) THEN Free ELSE table[s]]
  /\ list' = [i \in Index |-> IF i \in UserDefined THEN Blank ELSE list[i]]
  /\ occupied' = predefined

Init ==
  /\ list = [i \in Index |-> Blank]
  /\ occupied = 0
  /\ predefined = 0
  /\ table = [s \in Slot |-> IF s \in Keyword THEN Taken ELSE Free]
  /\ stage = "language"
  /\ leaked = FALSE

\* The next declaration of the language file.
ParseIdentifierList(n) ==
  /\ stage = "language"
  /\ ~IsDefined(list, n)
  /\ occupied + 1 < MaxIdentifiers
  /\ HashManagerAdd(occupied, n)
  /\ occupied' = occupied + 1
  /\ predefined' = predefined + 1
  /\ UNCHANGED <<stage, leaked>>

ParseIdentifierFileEnds ==
  /\ stage = "language"
  /\ stage' = "idle"
  /\ UNCHANGED <<list, occupied, predefined, table, leaked>>

CompileFile ==
  /\ stage = "idle"
  /\ stage' = "parse"
  /\ UNCHANGED <<list, occupied, predefined, table, leaked>>

\* The list with the name n behind its last identifier.
Renamed(n) == [list EXCEPT ![occupied] = n]

\* A function is declared or defined.  Its name is put behind the list before
\* it is looked up, and stays there when the function is known already.
AddUserDefinedIdentifier(n) ==
  /\ stage = "parse"
  /\ occupied + 1 < MaxIdentifiers
  /\ \/ /\ ~IsDefined(Renamed(n), n)
        /\ HashManagerAdd(occupied, n)
        /\ occupied' = occupied + 1
     \/ /\ IsDefined(Renamed(n), n)
        /\ list' = Renamed(n)
        /\ UNCHANGED <<table, occupied>>
  /\ UNCHANGED <<predefined, stage, leaked>>

\* A constant is declared; the lexer took its name for a new one.  With a value
\* that is none the name stays behind the list and the script is rejected.
GenerateIdentifiersFromConstantVariables(n) ==
  /\ stage = "parse"
  /\ ~IsDefined(list, n)
  /\ occupied + 1 < MaxIdentifiers
  /\ \/ /\ HashManagerAdd(occupied, n)
        /\ occupied' = occupied + 1
     \/ /\ list' = Renamed(n)
        /\ UNCHANGED <<table, occupied>>
  /\ UNCHANGED <<predefined, stage, leaked>>

\* mutant: the rejected script's last name counts as the language's.
CleanUpKeeping ==
  /\ stage = "parse"
  /\ ClearUserDefinedIdentifiers
  /\ stage' = "idle"
  /\ predefined' = predefined + 1
  /\ UNCHANGED leaked

\* The parser rejects the script.
CleanUpDuringCompile ==
  /\ stage = "parse"
  /\ ClearUserDefinedIdentifiers
  /\ stage' = "idle"
  /\ UNCHANGED <<predefined, leaked>>

\* A script without an entry point gets no loader and is walked all the same.
InstallLoader ==
  /\ stage = "parse"
  /\ stage' = "walk"
  /\ \/ /\ occupied + 1 < MaxIdentifiers
        /\ HashManagerAdd(occupied, Loader)
        /\ occupied' = occupied + 1
     \/ UNCHANGED <<list, table, occupied>>
  /\ UNCHANGED <<predefined, leaked>>

\* PreVisitGenerateCode of the global variables.
BeginGlobals ==
  /\ stage = "walk"
  /\ occupied + 1 < MaxIdentifiers
  /\ HashManagerAdd(occupied, Globals)
  /\ stage' = "globals"
  /\ UNCHANGED <<occupied, predefined, leaked>>

\* PostVisitGenerateCode of the global variables, behind their initialisers:
\* only now "#globals" counts as one of the identifiers.
EndGlobals ==
  /\ stage = "globals"
  /\ occupied' = occupied + 1
  /\ stage' = "rest"
  /\ UNCHANGED <<list, predefined, table, leaked>>

\* DetermineLocationOfCode and ResolveLabels, of a script with a loader, look
\* up the names that jumps refer to.
ResolveLabels ==
  /\ stage \in {"walk", "rest"}
  /\ \E i \in UserDefined : list[i] = Loader
  /\ stage' = "resolve"
  /\ UNCHANGED <<list, occupied, predefined, table, leaked>>

\* After a script is written, and after an error anywhere in the walk.
CleanUpAfterCompile ==
  /\ stage \in {"walk", "globals", "rest", "resolve"}
  /\ ClearUserDefinedIdentifiers
  /\ stage' = "idle"
  /\ leaked' = (leaked \/ stage = "globals")
  /\ UNCHANGED predefined

Next ==
  \/ \E n \in Name :
       \/ ParseIdentifierList(n)
       \/ AddUserDefinedIdentifier(n)
       \/ GenerateIdentifiersFromConstantVariables(n)
  \/ ParseIdentifierFileEnds \/ CompileFile \/ CleanUpDuringCompile
  \/ InstallLoader \/ BeginGlobals \/ EndGlobals \/ ResolveLabels
  \/ CleanUpAfterCompile

Spec == Init /\ [][Next]_vars

-----------------------------------------------------------------------------
(* Properties.                                                             *)

EntryType == [type : {"unknown", "keyword", "identifier"}, hash : Nat, index : Index]

\* Every variable has its type, and the language's identifiers come first.
TypeOK ==
  /\ list \in [Index -> Identifier \cup {Blank}]
  /\ occupied \in Index
  /\ predefined \in 0 .. occupied
  /\ table \in [Slot -> EntryType]
  /\ stage \in {"language", "idle", "parse", "walk", "globals", "rest", "resolve"}
  /\ leaked \in BOOLEAN
  /\ stage = "globals" => occupied + 1 < MaxIdentifiers

\* The identifiers of the language and of the script being compiled.
Listed == {i \in Index : i < occupied \/ (i = occupied /\ stage = "globals")}

\* A search in the hash table answers for every name what a search through the
\* list would: the identifier of that name, and none if this script and the
\* language have none, whatever collides with it and whatever earlier scripts
\* declared and where they failed.  "#globals" is excepted once the walk of
\* some script's globals has failed.
LookupAgrees ==
  \A n \in Identifier : n # Globals \/ ~leaked =>
    /\ \A i \in Listed : list[i] = n => GetIdentifierByName(n) = i
    /\ (\A i \in Listed : list[i] # n) => ~IsDefined(list, n)

\* Between two scripts the table is as the language file left it, but for
\* entries of "#globals": nothing else of a script stays behind, even if it
\* was rejected half way.
OnlyGlobalsStay ==
  stage = "idle" =>
    \A s \in Slot : table[s].type = "identifier" /\ table[s].index >= predefined
                    => leaked /\ table[s].hash = HashString[Globals]

-----------------------------------------------------------------------------
(* Why the lookups agree: the invariant of the proofs.                     *)

StageInv ==
  /\ stage \in {"language", "idle"} => occupied = predefined
  /\ stage = "language" => ~leaked
  /\ stage = "globals" => list[occupied] = Globals

\* No name is listed twice, and the compiler's own names not before their time.
ListInv ==
  /\ \A i \in Listed : list[i] \in Identifier
  /\ \A i, j \in Listed : list[i] = list[j] => i = j
  /\ \A i \in Listed : i < predefined => list[i] \in Name
  /\ \A i \in Listed : list[i] = Loader => stage \in {"walk", "globals", "rest", "resolve"}
  /\ \A i \in Listed : list[i] = Globals => stage \in {"globals", "rest", "resolve"}

\* An entry is that of a listed identifier, or a "#globals" left behind.
Stale(x) == leaked /\ x.hash = HashString[Globals] /\ x.index >= predefined

EntryInv ==
  \A s \in Slot : table[s].type = "identifier" =>
    \/ table[s].index \in Listed /\ table[s] = Entry(table[s].index, list[table[s].index])
    \/ Stale(table[s])

\* No identifier has two entries, so that one deletion is enough.
SingleInv ==
  \A s, t \in Slot :
    /\ table[s].type = "identifier"
    /\ table[s] = table[t]
    /\ table[s].hash # HashString[Globals] \/ ~leaked
    => s = t

\* The way to an identifier's entry has no gap, and that of an identifier of
\* the language leads only past entries that are never deleted.
Lasting(x) == x.type = "keyword" \/ (x.type = "identifier" /\ x.index < predefined)

ReachedAt(i, d) ==
  /\ table[At(list[i], d)] = Entry(i, list[i])
  /\ Passes(list, list[i], d)
  /\ i < predefined => \A e \in Slot : e < d => Lasting(table[At(list[i], e)])

ReachInv ==
  \A i \in Listed : list[i] # Globals \/ ~leaked => \E d \in Slot : ReachedAt(i, d)

IInv == TypeOK /\ StageInv /\ ListInv /\ EntryInv /\ SingleInv /\ ReachInv

-----------------------------------------------------------------------------
(* What the comments say and the code does not do.                         *)

\* GetIdentifierByName "will get the information on an identifier, based on
\* the name of the identifier": when the jump to the code of this script's
\* globals is resolved, the identifier found is this script's.
GlobalsFound ==
  stage = "resolve" =>
    \A i \in Listed : list[i] = Globals => GetIdentifierByName(Globals) = i
=============================================================================
