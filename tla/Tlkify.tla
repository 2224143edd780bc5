------------------------------- MODULE Tlkify -------------------------------
(***************************************************************************)
(* nwn_erf_tlkify.nim: replaces the strings of a module by references into *)
(* a talk table (neverwinter/tlk.nim), which later runs extend for other   *)
(* modules.  A run reads the old table lazily, through a cache, from the   *)
(* file it overwrites in the end.                                          *)
(***************************************************************************)
EXTENDS Integers, SequencesExt

CONSTANTS
  Text,       \* texts, numbered in the order a CritBitTree yields them
  Blank,      \* an entry without a text
  Plain,      \* Plain[t]: what is left of t when a save takes out "\r"
  None,       \* no reference
  Tables,     \* the tables the first run may find, <<>> for no file
  MaxRuns     \* bound: runs started

ASSUME TlkifyAssumption ==
  /\ Text \subseteq Nat
  /\ Blank \notin Text /\ None \notin Nat
  /\ Plain \in [Text \cup {Blank} -> Text \cup {Blank}] /\ Plain[Blank] = Blank
  /\ Tables \subseteq Seq(Text \cup {Blank})
  /\ MaxRuns \in Nat

VARIABLES
  tlk,           \* the file: the text of each entry, the one of StrRef 0 first
  status,        \* "absent", "whole", or "torn" from opening it until it is saved
  phase,         \* what the run is doing
  source,        \* the entries newTlk was opened on, <<>> from scratch
  held,          \* the StrRefs in newTlk.ioCache
  translations,  \* the StrRef of each text, or None
  latest,        \* latestStrref
  fresh,         \* newTranslations
  next,          \* the StrRef of a loop over all entries
  written,       \* the entries writeTlk has put together
  erf,           \* the texts replaced in this run's module, with their StrRefs
  promised,      \* history: the same of all runs that came to their end
  runs

table == <<tlk, status>>
map == <<translations, latest, fresh>>
modules == <<erf, promised>>
vars == <<table, phase, source, held, map, next, written, modules, runs>>

Init ==
  /\ tlk \in Tables
  /\ status = IF tlk = <<>> THEN "absent" ELSE "whole"
  /\ phase = "idle" /\ source = <<>> /\ held = {}
  /\ translations = [t \in Text |-> None] /\ latest = 0 /\ fresh = 0
  /\ next = 0 /\ written = <<>>
  /\ erf = {} /\ promised = {} /\ runs = 0

-----------------------------------------------------------------------------
(* The table as newTlk presents it.                                        *)

\* What the cache may hold after reading entry r: a WeightedLRU may forget
\* anything but what it stored last.
HeldAfter(r) == {kept \cup {r} : kept \in SUBSET held}

\* SingleTlk.highest of a table that nothing was assigned to yet.
Highest(s) == IF s = <<>> THEN 0 ELSE Len(s) - 1

\* A run starts on a whole table or, without a file, from scratch.
Start ==
  /\ phase = "idle" /\ status # "torn" /\ runs < MaxRuns
  /\ source' = tlk
  /\ held' = {}
  /\ translations' = [t \in Text |-> None]
  /\ latest' = Highest(tlk) /\ fresh' = 0
  /\ next' = 0 /\ written' = <<>> /\ erf' = {}
  /\ phase' = IF status = "whole" THEN "collect" ELSE "erf"
  /\ runs' = runs + 1
  /\ UNCHANGED <<table, promised>>

\* The loop that collects the texts of the old table; the last one wins.
Collect ==
  /\ phase = "collect"
  /\ held' \in HeldAfter(next)
  /\ translations' = IF source[next + 1] \in Text
                     THEN [translations EXCEPT ![source[next + 1]] = next] ELSE translations
  /\ next' = next + 1
  /\ phase' = IF next = latest THEN "erf" ELSE "collect"
  /\ UNCHANGED <<table, source, latest, fresh, written, modules, runs>>

-----------------------------------------------------------------------------
(* The module.                                                             *)

Taken(n) == n  \* variant
Advanced(n) == n + 1

RefOf(t) == IF translations[t] = None THEN latest ELSE translations[t]
Free(t) == latest  \* variant
Answer(t) == RefOf(t)

\* translate, for the next string of the module.
Translate(t) ==
  /\ phase = "erf"
  /\ translations' = [translations EXCEPT ![t] = RefOf(t)]
  /\ IF translations[t] = None
     THEN latest' = Advanced(latest) /\ fresh' = fresh + 1
     ELSE UNCHANGED <<latest, fresh>>
  /\ erf' = erf \cup {[text |-> t, ref |-> Answer(t)]}
  /\ UNCHANGED <<table, phase, source, held, next, written, promised, runs>>

\* An assertion fails on a string without a selected language, or the process
\* is killed: the file stays as it is.
GiveUp ==
  /\ phase # "idle"
  /\ phase' = "idle"
  /\ UNCHANGED <<table, source, held, map, next, written, modules, runs>>

\* The module is written.  Only new translations make the run save the table,
\* without them it ends here.
EndErf ==
  /\ phase = "erf"
  /\ promised' = IF fresh > 0 THEN promised ELSE promised \cup erf
  /\ phase' = IF fresh > 0 THEN "save" ELSE "idle"
  /\ UNCHANGED <<table, source, held, map, next, written, erf, runs>>

-----------------------------------------------------------------------------
(* Saving: all translations are assigned in the order of their texts, then *)
(* the file is truncated and every entry is written, the assigned ones     *)
(* from memory, the others from the cache or the file just truncated.      *)

TextsAt(r) == {t \in Text : translations[t] = r}
NewTextsAt(r) == {t \in TextsAt(r) : r >= Highest(source)}  \* variant
Assigned(r) == TextsAt(r)

MaxId ==
  LET highest == {r \in 0..latest : TextsAt(r) # {}} \cup {Highest(source)} IN
  CHOOSE r \in highest : \A q \in highest : q <= r

OpenForWriting ==
  /\ phase = "save"
  /\ status' = "torn" /\ tlk' = <<>>
  /\ next' = 0
  /\ phase' = "write"
  /\ UNCHANGED <<source, held, map, written, modules, runs>>

\* The entry to write has to be read from the file that is being rewritten.
\* Its record is that of the old table or the zeros that reserve a new one's
\* place, its text is cut from whatever the file has by then.
Reading == Assigned(next) = {} /\ next < Len(source) /\ next \notin held

\* An entry goes to the file without "\r", wherever its text comes from.
Emit(text) == written' = Append(written, Plain[text]) /\ next' = next + 1

WriteEntry ==
  /\ phase = "write" /\ next <= MaxId
  /\ \/ /\ Assigned(next) # {}
        /\ Emit(CHOOSE t \in Assigned(next) : \A u \in Assigned(next) : u <= t)
        /\ UNCHANGED held
     \/ /\ Assigned(next) = {} /\ next < Len(source) /\ next \in held
        /\ Emit(source[next + 1])
        /\ UNCHANGED held
     \/ /\ Reading
        /\ \E text \in {Blank} \cup (IF source[next + 1] = Blank THEN {} ELSE Text) : Emit(text)
        /\ held' \in HeldAfter(next)
     \/ /\ Assigned(next) = {} /\ next >= Len(source)
        /\ Emit(Blank)
        /\ UNCHANGED held
  /\ UNCHANGED <<table, phase, source, map, modules, runs>>

\* The file has less than the entry left, and the run ends with the table in
\* pieces.
ReadFails ==
  /\ phase = "write" /\ next <= MaxId /\ Reading
  /\ phase' = "idle"
  /\ UNCHANGED <<table, source, held, map, next, written, modules, runs>>

Save ==
  /\ phase = "write" /\ next > MaxId
  /\ tlk' = written /\ status' = "whole"
  /\ promised' = promised \cup erf
  /\ phase' = "idle"
  /\ UNCHANGED <<source, held, map, next, written, erf, runs>>

Next ==
  \/ Start \/ Collect \/ (\E t \in Text : Translate(t)) \/ GiveUp \/ EndErf
  \/ OpenForWriting \/ WriteEntry \/ ReadFails \/ Save

Spec == Init /\ [][Next]_vars

-----------------------------------------------------------------------------
(* Properties.                                                             *)

\* The types; what a module refers to is what translations say, and nothing
\* is translated to a reference that is not taken yet.
TypeOK ==
  /\ tlk \in Seq(Text \cup {Blank}) /\ written \in Seq(Text \cup {Blank})
  /\ status \in {"absent", "whole", "torn"}
  /\ phase \in {"idle", "collect", "erf", "save", "write"}
  /\ held \subseteq 0..Highest(source)
  /\ translations \in [Text -> 0..latest \cup {None}]
  /\ \A p \in erf : translations[p.text] = p.ref

\* A saved table has every text of the old one and every text of the module
\* where translations say, but for its "\r", except at what was the highest
\* entry: the texts that were there keep their references, new ones get
\* references of their own, also those that differ in "\r" only.
TranslationsSaved ==
  [][status = "torn" /\ status' = "whole" =>
       \A t \in Text :
         /\ translations[t] # None
         /\ source # <<>> => translations[t] # Highest(source)
         => tlk'[translations[t] + 1] = Plain[t]]_vars

\* Saving a table that has a text of its own in every entry never reads the
\* file it overwrites.
SaveReadsNothing ==
  [][ReadFails =>
       \E i \in DOMAIN source :
         source[i] = Blank \/ \E j \in DOMAIN source \ {i} : source[i] = source[j]]_vars

-----------------------------------------------------------------------------
(* What the documentation says and the code does not do.                   *)

\* "The <tlk> file will be read at startup if it exists, and new entries will
\* be merged in": what the modules of earlier runs refer to stays what it was
\* when those runs saved it.
PromisesKept ==
  phase = "idle" /\ status = "whole" =>
    \A p \in promised : p.ref < Len(tlk) /\ tlk[p.ref + 1] = Plain[p.text]
=============================================================================
