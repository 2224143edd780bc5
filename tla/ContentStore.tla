---------------------------- MODULE ContentStore ----------------------------
(***************************************************************************)
(* What an nwsync repository promises whoever fetches from it: a manifest  *)
(* is offered once all that it refers to is stored, and nothing is thrown  *)
(* away as long as a manifest that is offered refers to it.  Manifests and *)
(* contents appear and vanish in single steps; there are no files, no      *)
(* processes and no ages.                                                  *)
(***************************************************************************)
CONSTANTS
  Manifest, Content,
  Refs         \* Refs[m]: the contents manifest m refers to

VARIABLES
  offered,     \* manifests that can be fetched
  stored       \* contents that can be fetched

Init == offered = {} /\ stored = {}

\* Storing what is there already changes nothing.
Store(h) ==
  /\ stored' = stored \cup {h}
  /\ UNCHANGED offered

Offer(m) ==
  /\ Refs[m] \subseteq stored
  /\ offered' = offered \cup {m}
  /\ UNCHANGED stored

Withdraw(m) ==
  /\ offered' = offered \ {m}
  /\ UNCHANGED stored

\* Several contents may be thrown away at once, with a directory of theirs.
Reclaim(H) ==
  /\ \A m \in offered : Refs[m] \cap H = {}
  /\ stored' = stored \ H
  /\ UNCHANGED offered

Next ==
  \/ \E h \in Content : Store(h)
  \/ \E m \in Manifest : Offer(m) \/ Withdraw(m)
  \/ \E H \in SUBSET Content : Reclaim(H)

Spec == Init /\ [][Next]_<<offered, stored>>
=============================================================================
