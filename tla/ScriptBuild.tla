---------------------------- MODULE ScriptBuild ----------------------------
(***************************************************************************)
(* What a run of the script compiler over many files promises, whatever    *)
(* the number of workers: each file is compiled in one step, as if nothing *)
(* else were going on, and only if all the sources that it names can be    *)
(* found from where it is.  There is no service thread, no message and no  *)
(* list of containers.                                                     *)
(***************************************************************************)
EXTENDS Naturals

CONSTANTS
  File, Worker, None,
  Whole,       \* the files all of whose sources can be found
  Continue     \* go on after an error

VARIABLES
  queued,      \* files nobody has begun
  working,     \* the file of each worker, None if it has none
  fate,        \* what became of each file
  errors,      \* how many could not be compiled
  aborted,     \* no more files are begun
  finished     \* all is done

vars == <<queued, working, fate, errors, aborted, finished>>

Init ==
  /\ queued = File /\ working = [w \in Worker |-> None]
  /\ fate = [f \in File |-> "pending"]
  /\ errors = 0 /\ aborted = FALSE /\ finished = FALSE

Begin(w, f) ==
  /\ ~aborted /\ working[w] = None /\ f \in queued
  /\ queued' = queued \ {f}
  /\ working' = [working EXCEPT ![w] = f]
  /\ UNCHANGED <<fate, errors, aborted, finished>>

GiveUp(f) ==
  /\ aborted /\ f \in queued
  /\ queued' = queued \ {f}
  /\ fate' = [fate EXCEPT ![f] = "aborted"]
  /\ UNCHANGED <<working, errors, aborted, finished>>

Done(w, what) ==
  /\ working[w] # None
  /\ fate' = [fate EXCEPT ![working[w]] = what]
  /\ working' = [working EXCEPT ![w] = None]

\* Nothing compiles without its sources.
Compile(w) ==
  /\ working[w] \in Whole
  /\ \E what \in {"built", "validated", "skipped"} : Done(w, what)
  /\ UNCHANGED <<queued, errors, aborted, finished>>

\* The source is wrong, or one is missing.
Reject(w) ==
  /\ Done(w, "error")
  /\ errors' = errors + 1
  /\ aborted' = (aborted \/ ~Continue)
  /\ UNCHANGED <<queued, finished>>

\* A file cannot be removed or written.
Break(w) ==
  /\ Done(w, "raised")
  /\ errors' = errors + 1
  /\ aborted' = TRUE
  /\ UNCHANGED <<queued, finished>>

Quit ==
  /\ ~finished /\ queued = {} /\ \A w \in Worker : working[w] = None
  /\ finished' = TRUE
  /\ UNCHANGED <<queued, working, fate, errors, aborted>>

Next ==
  \/ \E w \in Worker : Compile(w) \/ Reject(w) \/ Break(w) \/ \E f \in File : Begin(w, f)
  \/ \E f \in File : GiveUp(f)
  \/ Quit

Spec == Init /\ [][Next]_vars
=============================================================================
