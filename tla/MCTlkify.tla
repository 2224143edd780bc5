------------------------------ MODULE MCTlkify ------------------------------
(***************************************************************************)
(* Small instances of Tlkify.                                              *)
(***************************************************************************)
EXTENDS Tlkify

MCNone == -1

\* No table yet, or one of up to three entries, repeated and blank ones
\* among them.
MCTables == BoundedSeq(Text \cup {Blank}, 3)

MCNoTable == {<<>>}

\* The largest text is the one before it with "\r" in it.
MCPlain == [t \in Text \cup {Blank} |-> IF t = 3 THEN 2 ELSE t]

\* No text has "\r".
MCVerbatim == [t \in Text \cup {Blank} |-> t]
=============================================================================
