----------------------------- MODULE ScriptComp -----------------------------
(***************************************************************************)
(* nwn_script_comp.nim compiling many files: the workers of a task pool,   *)
(* each with a compiler of its own, and the one thread that owns the       *)
(* ResMan and looks up sources for all of them, by messages.  The sources  *)
(* do not change during a run.  How a compiler asks for its files and what *)
(* comes out of it is what compiler.nim and the native compiler show to    *)
(* this program.                                                           *)
(***************************************************************************)
EXTENDS FiniteSets, ContainerList

CONSTANTS
  File,          \* the files to compile; each is also a container of its own
  Dir,           \* directories of sources, containers on the search path
  Base,          \* the containers newBasicResMan sets up, in order
  Worker,        \* threads of the pool (-j)
  DirOf,         \* the directory of each file
  StemOf,        \* its name without extension
  Includes,      \* the names it includes, in order
  Holds,         \* the names each directory or base container has
  Language,      \* the name of the language specification
  OutDir,        \* -d, or None
  Continue,      \* -y
  Simulate,      \* -s
  Debug,         \* -g
  None,          \* no container, no file
  Old, Torn,     \* a file from before the run; one that is half written
  MaxFailures    \* bound: file system calls that fail

ASSUME ScriptCompAssumption ==
  /\ IsFiniteSet(File) /\ \A f \in File : DirOf[f] \in Dir
  /\ Language \in STRING
  /\ \A f \in File : StemOf[f] \in STRING /\ Includes[f] \in Seq(STRING)
  /\ Base \in Seq(DOMAIN Holds) /\ IsInjective(Base)
  /\ Dir \subseteq DOMAIN Holds /\ ToSet(Base) \cap (Dir \cup File) = {}
  /\ Dir \cap File = {}
  /\ \E i \in DOMAIN Base : Language \in Holds[Base[i]]
  /\ {None, Old, Torn} \cap File = {} /\ Old \notin {None, Torn} /\ None \notin DOMAIN Holds
  /\ {Continue, Simulate, Debug} \subseteq BOOLEAN
  /\ MaxFailures \in Nat

VARIABLES
  queued,        \* tasks no worker has taken
  job,           \* what each worker does, for which file, the sources it still wants
  ready,         \* workers that have made their compiler
  path,          \* ThreadState.currentRMSearchPath of each worker
  requests,      \* chDemandResRef
  response,      \* chDemandResRefResponse of each worker
  rm,            \* the containers of the service's ResMan
  ncs, ndb,      \* the artifacts by place: None, Old, or whose they are
  successes, skips, errors,   \* gSuccesses, gSkips, gErrors
  aborted,       \* gAborted
  finished,      \* main has printed its summary and quit
  fate,          \* history: what became of each file
  failures       \* history: how many file system calls failed

work == <<queued, job, ready, path>>
channels == <<requests, response, rm>>
artifacts == <<ncs, ndb>>
counters == <<successes, skips, errors, aborted>>
vars == <<work, channels, artifacts, counters, finished, fate, failures>>

\* Places of artifacts.
SourcePlace(f) == <<DirOf[f], StemOf[f]>>
OutPlace(f) == <<IF OutDir = None THEN DirOf[f] ELSE OutDir, StemOf[f]>>
Places == {SourcePlace(f) : f \in File} \cup {OutPlace(f) : f \in File}

Job(f, phase, want) == [file |-> f, phase |-> phase, want |-> want, asked |-> FALSE]
Idle == Job(None, "idle", <<>>)

Init ==
  /\ queued = File /\ job = [w \in Worker |-> Idle]
  /\ ready = {} /\ path = [w \in Worker |-> <<>>]
  /\ requests = <<>> /\ response = [w \in Worker |-> <<>>] /\ rm = Base
  /\ \E x \in {None, Old} : ncs = [p \in Places |-> x]
  /\ \E x \in {None, Old} : ndb = [p \in Places |-> x]
  /\ successes = 0 /\ skips = 0 /\ errors = 0 /\ aborted = FALSE
  /\ finished = FALSE
  /\ fate = [f \in File |-> "pending"] /\ failures = 0

-----------------------------------------------------------------------------
(* The service thread.                                                     *)

HasName(c, n) == IF c \in File THEN n = StemOf[c] ELSE n \in Holds[c]

\* What the first container that has the name serves, None if none has it.
Lookup(cs, n) ==
  LET having == {i \in DOMAIN cs : HasName(cs[i], n)} IN
  IF having = {} THEN None ELSE cs[Min(having)]

\* The ResMan while a request is served, and after its search path is deleted:
\* the path is empty or a directory and a file, each added and deleted in turn.
WithPath(cs, p) == IF p = <<>> THEN cs ELSE Added(Added(cs, p[1]), p[2])
WithoutPath(cs, p) == IF p = <<>> THEN cs ELSE Deleted(Deleted(cs, p[1]), p[2])

AnsweredIfFound(r, c) ==
  IF c = None THEN response ELSE [response EXCEPT ![r.worker] = Append(@, c)]  \* variant
Answered(r, c) == [response EXCEPT ![r.worker] = Append(@, c)]

\* Takes one request, answers it and takes the search path off the ResMan.
Serve ==
  /\ requests # <<>> /\ ~finished
  /\ LET r == Head(requests) IN
       /\ response' = Answered(r, Lookup(WithPath(rm, r.path), r.name))
       /\ rm' = WithoutPath(WithPath(rm, r.path), r.path)
  /\ requests' = Tail(requests)
  /\ UNCHANGED <<work, artifacts, counters, finished, fate, failures>>

-----------------------------------------------------------------------------
(* A worker.                                                               *)

At(w, phase) == job[w].phase = phase

Goes(w, phase, want) == job' = [job EXCEPT ![w] = Job(@.file, phase, want)]

Ends(w, what) ==
  /\ fate' = [fate EXCEPT ![job[w].file] = what]
  /\ job' = [job EXCEPT ![w] = Idle]

\* A task that starts after the run was aborted returns at once; the first
\* one of a worker makes its compiler, which asks for the language.
Take(w, f) ==
  /\ At(w, "idle") /\ f \in queued
  /\ queued' = queued \ {f}
  /\ IF aborted
     THEN /\ fate' = [fate EXCEPT ![f] = "aborted"]
          /\ UNCHANGED <<job, ready>>
     ELSE /\ job' = [job EXCEPT ![w] = IF w \in ready THEN Job(f, "prepare", <<>>)
                                       ELSE Job(f, "language", <<Language>>)]
          /\ ready' = ready \cup {w}
          /\ UNCHANGED fate
  /\ UNCHANGED <<path, channels, artifacts, counters, finished, failures>>

\* An exception ends the task: the file counts as an error and the run is over.
Swallowed == UNCHANGED counters  \* variant
Counted ==
  /\ errors' = errors + 1 /\ aborted' = TRUE
  /\ UNCHANGED <<successes, skips>>

\* The compiler is there: the search path is set and the ndb file next to the
\* source is removed.
KeptNdb(f) == ndb  \* variant
RemovedNdb(f) == [ndb EXCEPT ![SourcePlace(f)] = None]

Prepare(w) ==
  /\ At(w, "prepare")
  /\ LET f == job[w].file IN
       /\ path' = [path EXCEPT ![w] = <<DirOf[f], f>>]
       /\ ndb' = RemovedNdb(f)
       /\ Goes(w, "compile", <<StemOf[f]>> \o Includes[f])
  /\ UNCHANGED <<queued, ready, channels, ncs, counters, finished, fate, failures>>

PrepareFails(w) ==
  /\ At(w, "prepare") /\ failures < MaxFailures
  /\ path' = [path EXCEPT ![w] = <<DirOf[job[w].file], job[w].file>>]
  /\ Counted /\ Ends(w, "raised")
  /\ failures' = failures + 1
  /\ UNCHANGED <<queued, ready, channels, artifacts, finished>>

\* The compiler's callback asks the service for the next source ...
Request(w) ==
  /\ job[w].want # <<>> /\ ~job[w].asked
  /\ requests' = Append(requests, [worker |-> w, name |-> Head(job[w].want), path |-> path[w]])
  /\ job' = [job EXCEPT ![w].asked = TRUE]
  /\ UNCHANGED <<queued, ready, path, response, rm, artifacts, counters, finished, fate, failures>>

\* ... and waits for the answer.
LeftInChannel(w) == response  \* variant
TakenFromChannel(w) == [response EXCEPT ![w] = Tail(@)]

Receive(w) ==
  /\ job[w].asked /\ response[w] # <<>>
  /\ response' = TakenFromChannel(w)
  /\ IF At(w, "language") THEN Goes(w, "prepare", <<>>)
     ELSE IF Head(response[w]) = None THEN Goes(w, "broken", <<>>)
     ELSE Goes(w, "compile", Tail(job[w].want))
  /\ UNCHANGED <<queued, ready, path, requests, rm, artifacts, counters, finished, fate, failures>>

Compiled(w) == At(w, "compile") /\ job[w].want = <<>>

\* Code 0, with bytecode or without (a script that was only validated).
Success(w) ==
  /\ Compiled(w)
  /\ successes' = successes + 1
  /\ \/ Goes(w, "ncs", <<>>) /\ UNCHANGED fate
     \/ Ends(w, "validated")
  /\ UNCHANGED <<queued, ready, path, channels, artifacts, skips, errors, aborted, finished, failures>>

\* Code 623: no entry point.
Skip(w) ==
  /\ Compiled(w)
  /\ skips' = skips + 1
  /\ Ends(w, "skipped")
  /\ UNCHANGED <<queued, ready, path, channels, artifacts, successes, errors, aborted, finished, failures>>

\* Any other code, the one for a source not found among them.
Error(w) ==
  /\ Compiled(w) \/ At(w, "broken")
  /\ errors' = errors + 1
  /\ aborted' = (aborted \/ ~Continue)
  /\ Ends(w, "error")
  /\ UNCHANGED <<queued, ready, path, channels, artifacts, successes, skips, finished, failures>>

WriteNcs(w) ==
  /\ At(w, "ncs")
  /\ ncs' = IF Simulate THEN ncs ELSE [ncs EXCEPT ![OutPlace(job[w].file)] = job[w].file]
  /\ Goes(w, "ndb", <<>>)
  /\ UNCHANGED <<queued, ready, path, channels, ndb, counters, finished, fate, failures>>

WriteNdb(w) ==
  /\ At(w, "ndb")
  /\ ndb' = IF Simulate \/ ~Debug THEN ndb
            ELSE [ndb EXCEPT ![OutPlace(job[w].file)] = job[w].file]
  /\ Ends(w, "built")
  /\ UNCHANGED <<queued, ready, path, channels, ncs, counters, finished, failures>>

\* writeFile fails, before or after it has truncated the file.
WriteFails(w) ==
  /\ failures < MaxFailures /\ ~Simulate
  /\ \/ /\ At(w, "ncs")
        /\ \E left \in {ncs[OutPlace(job[w].file)], Torn} :
             ncs' = [ncs EXCEPT ![OutPlace(job[w].file)] = left]
        /\ UNCHANGED ndb
     \/ /\ At(w, "ndb") /\ Debug
        /\ \E left \in {ndb[OutPlace(job[w].file)], Torn} :
             ndb' = [ndb EXCEPT ![OutPlace(job[w].file)] = left]
        /\ UNCHANGED ncs
  /\ Counted /\ Ends(w, "raised")
  /\ failures' = failures + 1
  /\ UNCHANGED <<queued, ready, path, channels, finished>>

-----------------------------------------------------------------------------
(* The main thread waits for all tasks, reports and quits.                 *)

Quit ==
  /\ ~finished /\ queued = {} /\ \A w \in Worker : At(w, "idle")
  /\ finished' = TRUE
  /\ UNCHANGED <<work, channels, artifacts, counters, fate, failures>>

Step(w) ==
  \/ Prepare(w) \/ Request(w) \/ Receive(w)
  \/ Success(w) \/ Skip(w) \/ Error(w) \/ WriteNcs(w) \/ WriteNdb(w)
  \/ \E f \in File : Take(w, f)

Next ==
  \/ Serve \/ Quit
  \/ \E w \in Worker : Step(w) \/ PrepareFails(w) \/ WriteFails(w)

\* The operating system runs every thread; nothing obliges a call to fail.
Fairness == WF_vars(Serve) /\ WF_vars(Quit) /\ \A w \in Worker : WF_vars(Step(w))

Spec == Init /\ [][Next]_vars /\ Fairness

-----------------------------------------------------------------------------
(* Properties.                                                             *)

InFlight(w) ==
  Cardinality({i \in DOMAIN requests : requests[i].worker = w}) + Len(response[w])

\* The types; the counters count files; a worker that has asked has one
\* message under way, and no other worker has any (its channel holds one).
TypeOK ==
  /\ queued \subseteq File /\ ready \subseteq Worker
  /\ path \in [Worker -> {<<>>} \cup {<<DirOf[f], f>> : f \in File}]
  /\ ncs \in [Places -> {None, Old, Torn} \cup File]
  /\ ndb \in [Places -> {None, Old, Torn} \cup File]
  /\ {successes, skips, errors} \subseteq 0..Cardinality(File)
  /\ \A w \in Worker :
       InFlight(w) = IF job[w].asked THEN 1 ELSE 0

\* What a compiler gets for a name is the file itself, else what its own
\* directory has, else what the base containers have in their order: requests
\* of other workers before, between or behind make no difference.
ResolvedForItself ==
  \A w \in Worker : response[w] # <<>> =>
    Head(response[w]) = Lookup(Reverse(path[w]) \o Base, Head(job[w].want))

\* Never does an ndb file of an earlier build lie beside an ncs file of this one.
NdbBelongs == \A p \in Places : ncs[p] \in File => ndb[p] # Old

\* If the program quits without an error, every file has been dealt with, and
\* each that was built has its own artifacts where they belong.
ExitTellsAll ==
  finished /\ errors = 0 =>
    \A f \in File :
      /\ fate[f] \in {"built", "validated", "skipped"}
      /\ fate[f] = "built" /\ ~Simulate =>
           ncs[OutPlace(f)] = f /\ (Debug => ndb[OutPlace(f)] = f)

\* Every run ends: no worker waits for an answer that does not come.
RunEnds == <>finished

\* The files all of whose sources exist in their own search path.
Resolvable ==
  {f \in File : \A n \in {StemOf[f]} \cup ToSet(Includes[f]) :
                  Lookup(<<f, DirOf[f]>> \o Base, n) # None}

\* With any number of workers and one shared ResMan, what becomes of each file
\* is what one step could have done to it that looks at its own sources alone:
\* no script is built with a source missing because another worker's request
\* was answered with one, and none is given up before an error is counted.
PrivateBuild == INSTANCE ScriptBuild WITH
  Whole <- Resolvable, working <- [w \in Worker |-> job[w].file]

IsPrivateBuild == PrivateBuild!Spec
=============================================================================
