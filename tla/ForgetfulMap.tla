---------------------------- MODULE ForgetfulMap ----------------------------
(***************************************************************************)
(* What a cache promises to its users, whatever its size and policy: it    *)
(* may forget an entry whenever it takes a new one, but what it answers    *)
(* for a key is the value last stored for it.                              *)
(***************************************************************************)
CONSTANTS Key, Value, None

VARIABLES
  held,     \* the entries not forgotten: a function of some keys
  answer    \* what the last lookup returned

Init == held = [k \in {} |-> None] /\ answer = None

Hit(k) == k \in DOMAIN held /\ answer' = held[k] /\ UNCHANGED held

Miss(k) == k \notin DOMAIN held /\ answer' = None /\ UNCHANGED held

\* Keeps some of the entries; those it keeps are the ones it had, and v for k.
Store(k, v) ==
  /\ \E S \in SUBSET (DOMAIN held \cup {k}) :
       held' = [x \in S |-> IF x = k THEN v ELSE held[x]]
  /\ answer' \in {answer, v}

Delete(k) ==
  /\ held' = [x \in DOMAIN held \ {k} |-> held[x]]
  /\ UNCHANGED answer

Clear == held' = [k \in {} |-> None] /\ UNCHANGED answer

Next ==
  \/ \E k \in Key : Hit(k) \/ Miss(k) \/ Delete(k)
  \/ \E k \in Key, v \in Value : Store(k, v)
  \/ Clear

Spec == Init /\ [][Next]_<<held, answer>>
=============================================================================
