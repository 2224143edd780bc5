-------------------------- MODULE ScriptCompProofs --------------------------
(***************************************************************************)
(* Theorems about ScriptComp, for any number of files, directories and     *)
(* workers: the messages between workers and the service thread, what a    *)
(* name resolves to, the artifacts, and what the exit status says.         *)
(***************************************************************************)
EXTENDS ScriptComp, ContainerListProofs, SequenceTheorems, FiniteSetTheorems, WellFoundedInduction, TLAPS

-----------------------------------------------------------------------------
(* The list of containers.                                                 *)

\* Every bounded set of numbers has a least one.
LEMMA LeastNumber ==
  ASSUME NEW n \in Nat, NEW S \in SUBSET (0..n), S # {}
  PROVE  Min(S) \in S /\ \A i \in S : Min(S) <= i
<1> DEFINE R == StrictSubsetOrdering(0..n)
           W == {0..i : i \in S}
<1>1. IsWellFoundedOn(R, FiniteSubsetsOf(0..n))
  BY FS_StrictSubsetOrderingWellFounded
<1>2. W \subseteq FiniteSubsetsOf(0..n) /\ W # {}
  <2>1. ASSUME NEW i \in S PROVE 0..i \subseteq 0..n /\ IsFiniteSet(0..i)
    BY FS_Interval
  <2>2. QED
    BY <2>1 DEF FiniteSubsetsOf
<1>3. PICK x \in W : \A y \in W : <<y, x>> \notin R
  <2> HIDE DEF R, W
  <2>1. QED
    BY <1>1, <1>2, WFMin
<1>4. PICK m \in S : x = 0..m
  OBVIOUS
<1>5. ASSUME NEW i \in S, i < m PROVE FALSE
  <2>1. 0..i \subseteq 0..m /\ 0..m \subseteq 0..n /\ m \in 0..m /\ m \notin 0..i
    BY <1>5
  <2>2. <<0..i, 0..m>> \in R
    BY <2>1 DEF StrictSubsetOrdering
  <2>3. QED
    BY <1>3, <1>4, <2>2
<1>6. \A i \in S : m <= i
  BY <1>5
<1>7. QED
  BY <1>6 DEF Min

\* Looking up a name answers with the first container that has it.
LEMMA LookupProperties ==
  ASSUME NEW S, NEW cs \in Seq(S), NEW n
  PROVE  \/ Lookup(cs, n) = None /\ \A i \in 1..Len(cs) : ~HasName(cs[i], n)
         \/ \E i \in 1..Len(cs) : /\ Lookup(cs, n) = cs[i] /\ HasName(cs[i], n)
                                 /\ \A j \in 1..i-1 : ~HasName(cs[j], n)
<1> DEFINE having == {i \in 1..Len(cs) : HasName(cs[i], n)}
<1>1. Len(cs) \in Nat /\ DOMAIN cs = 1..Len(cs)
  OBVIOUS
<1>2. Lookup(cs, n) = IF having = {} THEN None ELSE cs[Min(having)]
  BY <1>1 DEF Lookup
<1>3. CASE having = {}
  BY <1>2, <1>3
<1>4. CASE having # {}
  <2> DEFINE m == Min(having)
  <2>1. m \in having /\ \A i \in having : m <= i
    <3>1. having \in SUBSET (0..Len(cs))
      BY <1>1
    <3> HIDE DEF having
    <3>2. QED
      BY <1>1, <1>4, <3>1, LeastNumber
  <2>2. m \in 1..Len(cs) /\ HasName(cs[m], n) /\ Lookup(cs, n) = cs[m]
    BY <1>2, <1>4, <2>1
  <2>3. \A j \in 1..m-1 : ~HasName(cs[j], n)
    BY <1>1, <2>1, <2>2
  <2>4. QED
    BY <2>2, <2>3
<1>5. QED
  BY <1>3, <1>4

\* A container in front is asked first.
LEMMA LookupBehind ==
  ASSUME NEW S, NEW cs \in Seq(S), NEW c \in S, NEW n
  PROVE  Lookup(Added(cs, c), n) = IF HasName(c, n) THEN c ELSE Lookup(cs, n)
<1> DEFINE ds == Added(cs, c)
<1>1. /\ ds \in Seq(S) /\ Len(cs) \in Nat /\ Len(ds) = Len(cs) + 1
      /\ ds[1] = c /\ \A i \in 1..Len(cs) : ds[i+1] = cs[i]
  BY DEF Added
<1> HIDE DEF ds
<1>2. \A i \in 1..Len(ds) : i = 1 \/ (i-1 \in 1..Len(cs) /\ ds[i] = cs[i-1])
  BY <1>1
<1>3. CASE HasName(c, n)
  <2>1. PICK i \in 1..Len(ds) : /\ Lookup(ds, n) = ds[i]
                                /\ \A j \in 1..i-1 : ~HasName(ds[j], n)
    BY <1>1, <1>3, LookupProperties
  <2>2. i = 1
    BY <1>1, <1>3, <2>1
  <2>3. QED
    BY <1>1, <1>3, <2>1, <2>2 DEF ds
<1>4. CASE ~HasName(c, n) /\ \A i \in 1..Len(cs) : ~HasName(cs[i], n)
  <2>1. Lookup(cs, n) = None
    BY <1>4, LookupProperties
  <2>2. \A i \in 1..Len(ds) : ~HasName(ds[i], n)
    BY <1>1, <1>2, <1>4
  <2>3. Lookup(ds, n) = None
    BY <1>1, <2>2, LookupProperties
  <2>4. QED
    BY <1>4, <2>1, <2>3 DEF ds
<1>5. CASE ~HasName(c, n) /\ \E i \in 1..Len(cs) : HasName(cs[i], n)
  <2>1. PICK i \in 1..Len(cs) : /\ Lookup(cs, n) = cs[i] /\ HasName(cs[i], n)
                                /\ \A j \in 1..i-1 : ~HasName(cs[j], n)
    BY <1>5, LookupProperties
  <2>2. HasName(ds[i+1], n) /\ i+1 \in 1..Len(ds)
    BY <1>1, <2>1
  <2>3. PICK k \in 1..Len(ds) : /\ Lookup(ds, n) = ds[k] /\ HasName(ds[k], n)
                                /\ \A j \in 1..k-1 : ~HasName(ds[j], n)
    BY <1>1, <2>2, LookupProperties
  <2>4. k <= i+1
    BY <1>1, <2>2, <2>3
  <2>5. k # 1
    BY <1>1, <1>5, <2>3
  <2>6. k-1 \in 1..Len(cs) /\ ds[k] = cs[k-1]
    BY <1>2, <2>3, <2>5
  <2>7. k-1 >= i
    BY <1>1, <2>1, <2>3, <2>6
  <2>8. QED
    BY <1>1, <1>5, <2>1, <2>3, <2>4, <2>6, <2>7 DEF ds
<1>6. QED
  BY <1>3, <1>4, <1>5

-----------------------------------------------------------------------------
(* Types.                                                                  *)

Container == DOMAIN Holds \cup File
SearchPath == {<<>>} \cup {<<DirOf[f], f>> : f \in File}

BusyJobs == [file : File, want : Seq(STRING), asked : BOOLEAN,
             phase : {"language", "prepare", "compile", "broken", "ncs", "ndb"}]

JobsTyped ==
  /\ job \in [Worker -> {Idle} \cup BusyJobs]
  /\ \A w \in Worker : job[w].asked = TRUE => job[w].want # <<>>

Typed ==
  /\ queued \subseteq File /\ ready \subseteq Worker
  /\ JobsTyped
  /\ path \in [Worker -> SearchPath]
  /\ requests \in Seq([worker : Worker, name : STRING, path : SearchPath])
  /\ response \in [Worker -> Seq(Container \cup {None})]
  /\ rm \in Seq(Container)
  /\ ncs \in [Places -> {None, Old, Torn} \cup File]
  /\ ndb \in [Places -> {None, Old, Torn} \cup File]
  /\ successes \in Nat /\ skips \in Nat /\ errors \in Nat
  /\ fate \in [File -> {"pending", "built", "validated", "skipped", "aborted", "raised", "error"}]

-----------------------------------------------------------------------------
(* The invariant, in parts.                                                *)

\* Each request is the one its worker waits for, with the worker's search
\* path; a worker that waits has one message under way, in one of the two
\* channels, and no other worker has any.
Waiting(w) == job[w].phase \in {"language", "compile"} /\ job[w].want # <<>>

Requested ==
  \A i \in DOMAIN requests :
    /\ response[requests[i].worker] = <<>>
    /\ job[requests[i].worker].asked = TRUE
    /\ requests[i].name = Head(job[requests[i].worker].want)
    /\ requests[i].path = path[requests[i].worker]

RequestedOnce ==
  \A i, j \in DOMAIN requests : requests[i].worker = requests[j].worker => i = j

Answering ==
  \A w \in Worker :
    /\ Len(response[w]) <= 1
    /\ response[w] # <<>> => job[w].asked = TRUE
    /\ job[w].asked = TRUE =>
         response[w] # <<>> \/ \E i \in DOMAIN requests : requests[i].worker = w
    /\ job[w].asked = TRUE => Waiting(w)
    /\ job[w].want # <<>> => Waiting(w)

\* Each file is queued, with one worker, or dealt with.
Busy(w) == job[w].phase # "idle"

Placed ==
  /\ \A f \in queued : fate[f] = "pending"
  /\ \A w \in Worker : Busy(w) => job[w].file \notin queued /\ fate[job[w].file] = "pending"
  /\ \A v, w \in Worker : Busy(v) /\ Busy(w) /\ job[v].file = job[w].file => v = w
  /\ \A f \in File :
       f \in queued \/ fate[f] # "pending" \/ \E w \in Worker : Busy(w) /\ job[w].file = f

\* The counters count files.
Succeeded ==
  {f \in File : \/ fate[f] \in {"built", "validated", "raised"}
                \/ \E w \in Worker : job[w].phase \in {"ncs", "ndb"} /\ job[w].file = f}
Skipped == {f \in File : fate[f] = "skipped"}
Failed == {f \in File : fate[f] \in {"raised", "error"}}

Tallied ==
  /\ successes <= Cardinality(Succeeded)
  /\ skips <= Cardinality(Skipped)
  /\ errors <= Cardinality(Failed)

\* Nothing is left out or goes wrong without being counted.
Told ==
  errors = 0 => aborted = FALSE /\ \A f \in File : fate[f] \notin {"aborted", "raised", "error"}

\* What was written is still there.
Written ==
  ~Simulate =>
    /\ \A w \in Worker : job[w].phase = "ndb" => ncs[OutPlace(job[w].file)] = job[w].file
    /\ \A f \in File : fate[f] = "built" =>
         ncs[OutPlace(f)] = f /\ (Debug => ndb[OutPlace(f)] = f)

Ended ==
  finished = TRUE => queued = {} /\ \A w \in Worker : ~Busy(w)

\* The old debug file is gone before a script is compiled.
Removed ==
  \A w \in Worker : job[w].phase \in {"compile", "broken", "ncs", "ndb"} =>
    ndb[SourcePlace(job[w].file)] # Old

\* The ResMan has its base containers, in whatever order.
BaseInOrder == rm = Base
BaseComplete == rm \in Seq(ToSet(Base)) /\ IsInjective(rm) /\ ToSet(rm) = ToSet(Base)

-----------------------------------------------------------------------------
(* What steps do to a worker.                                              *)

\* A worker that does something, or wants something, has a file.
LEMMA BusyHasFile ==
  ASSUME Typed, NEW w \in Worker, Busy(w) \/ job[w].want # <<>> \/ job[w].asked = TRUE
  PROVE  job[w] \in BusyJobs /\ job[w].file \in File
<1>1. Idle.phase = "idle" /\ Idle.want = <<>> /\ Idle.asked = FALSE
  BY DEF Idle, Job
<1>2. job[w] \in {Idle} \cup BusyJobs
  BY DEF Typed, JobsTyped
<1>3. QED
  BY <1>1, <1>2 DEF Busy, BusyJobs

\* A worker goes on with its file.
LEMMA GoesEffect ==
  ASSUME Typed, NEW w \in Worker, Busy(w),
         NEW ph \in {"language", "prepare", "compile", "broken", "ncs", "ndb"},
         NEW want \in Seq(STRING), Goes(w, ph, want)
  PROVE  /\ JobsTyped'
         /\ \A v \in Worker : v # w => job'[v] = job[v]
         /\ job'[w].file = job[w].file /\ job'[w].phase = ph
         /\ job'[w].want = want /\ job'[w].asked = FALSE
<1>1. job[w].file \in File
  BY BusyHasFile
<1>2. job' = [job EXCEPT ![w] = Job(job[w].file, ph, want)]
  BY DEF Goes
<1>3. Job(job[w].file, ph, want) \in BusyJobs
  BY <1>1 DEF Job, BusyJobs
<1>4. /\ Job(job[w].file, ph, want).file = job[w].file
      /\ Job(job[w].file, ph, want).phase = ph
      /\ Job(job[w].file, ph, want).want = want
      /\ Job(job[w].file, ph, want).asked = FALSE
  BY DEF Job
<1>5. QED
  BY <1>2, <1>3, <1>4 DEF Typed, JobsTyped

\* A task ends.
LEMMA EndsEffect ==
  ASSUME Typed, NEW w \in Worker, Busy(w),
         NEW what \in {"built", "validated", "skipped", "raised", "error"}, Ends(w, what)
  PROVE  /\ JobsTyped'
         /\ \A v \in Worker : v # w => job'[v] = job[v]
         /\ job'[w].phase = "idle" /\ job'[w].want = <<>> /\ job'[w].asked = FALSE
         /\ job[w].file \in File /\ fate'[job[w].file] = what
         /\ \A f \in File : f # job[w].file => fate'[f] = fate[f]
         /\ fate' \in [File -> {"pending", "built", "validated", "skipped",
                                "aborted", "raised", "error"}]
<1>1. job[w].file \in File
  BY BusyHasFile
<1>2. Idle.phase = "idle" /\ Idle.want = <<>> /\ Idle.asked = FALSE
  BY DEF Idle, Job
<1>3. QED
  BY <1>1, <1>2 DEF Ends, Typed, JobsTyped

-----------------------------------------------------------------------------
(* Types are kept.                                                         *)

LEMMA PathType ==
  ASSUME ScriptCompAssumption, NEW p \in SearchPath, NEW cs \in Seq(Container)
  PROVE  /\ WithPath(cs, p) \in Seq(Container)
         /\ WithoutPath(cs, p) \in Seq(Container)
<1>1. p = <<>> \/ (p # <<>> /\ p[1] \in Container /\ p[2] \in Container)
  BY DEF SearchPath, Container, ScriptCompAssumption
<1>2. CASE p = <<>>
  BY <1>2 DEF WithPath, WithoutPath
<1>3. CASE p # <<>> /\ p[1] \in Container /\ p[2] \in Container
  BY <1>3, DeletedType DEF WithPath, WithoutPath, Added
<1>4. QED
  BY <1>1, <1>2, <1>3

LEMMA LookupType ==
  ASSUME NEW cs \in Seq(Container), NEW n
  PROVE  Lookup(cs, n) \in Container \cup {None}
BY LookupProperties

LEMMA PlacesOf ==
  \A f \in File : SourcePlace(f) \in Places /\ OutPlace(f) \in Places
BY DEF Places

LEMMA TypedInit ==
  ASSUME ScriptCompAssumption, Init
  PROVE  Typed
<1>1. rm \in Seq(Container)
  BY SeqMonotonic DEF Init, ScriptCompAssumption, Container
<1>2. QED
  BY <1>1 DEF Init, Typed, JobsTyped, SearchPath, Idle, Job

LEMMA TypedStep ==
  ASSUME ScriptCompAssumption, Typed, [Next]_vars
  PROVE  Typed'
<1> USE DEF Typed
<1>1. CASE UNCHANGED vars
  BY <1>1 DEF JobsTyped, vars, work, channels, artifacts, counters
<1>2. CASE Serve
  <2> DEFINE r == Head(requests)
             a == Lookup(WithPath(rm, r.path), r.name)
  <2>1. /\ r \in [worker : Worker, name : STRING, path : SearchPath]
        /\ Tail(requests) \in Seq([worker : Worker, name : STRING, path : SearchPath])
    BY <1>2, HeadTailProperties DEF Serve
  <2>2. a \in Container \cup {None}
    BY <2>1, PathType, LookupType
  <2>3. WithoutPath(WithPath(rm, r.path), r.path) \in Seq(Container)
    BY <2>1, PathType
  <2>4. Answered(r, a) \in [Worker -> Seq(Container \cup {None})]
    BY <2>1, <2>2, AppendProperties DEF Answered
  <2>5. /\ requests' = Tail(requests) /\ response' = Answered(r, a)
        /\ rm' = WithoutPath(WithPath(rm, r.path), r.path)
    BY <1>2 DEF Serve
  <2> HIDE DEF r, a
  <2>6. QED
    BY <1>2, <2>1, <2>3, <2>4, <2>5 DEF Serve, JobsTyped, work, artifacts, counters
<1>3. CASE Quit
  BY <1>3 DEF Quit, JobsTyped, work, channels, artifacts, counters
<1>4. ASSUME NEW w \in Worker, NEW f \in File, Take(w, f)
      PROVE  Typed'
  <2>1. /\ Job(f, "prepare", <<>>) \in BusyJobs
        /\ Job(f, "language", <<Language>>) \in BusyJobs
    BY DEF Job, BusyJobs, ScriptCompAssumption
  <2>2. CASE aborted
    BY <1>4, <2>2 DEF Take, JobsTyped, channels, artifacts, counters
  <2>3. CASE ~aborted
    <3>1. /\ job' = [job EXCEPT ![w] = IF w \in ready THEN Job(f, "prepare", <<>>)
                                       ELSE Job(f, "language", <<Language>>)]
          /\ ready' = ready \cup {w} /\ queued' = queued \ {f} /\ UNCHANGED fate
      BY <1>4, <2>3 DEF Take
    <3>2. JobsTyped'
      BY <2>1, <3>1 DEF JobsTyped, Job
    <3>3. QED
      BY <1>4, <3>1, <3>2 DEF Take, channels, artifacts, counters
  <2>4. QED
    BY <2>2, <2>3
<1>5. ASSUME NEW w \in Worker, Prepare(w) PROVE Typed'
  <2> DEFINE f == job[w].file
  <2>1. Busy(w)
    BY <1>5 DEF Prepare, At, Busy
  <2>2. f \in File
    BY <2>1, BusyHasFile
  <2>3. <<StemOf[f]>> \o Includes[f] \in Seq(STRING)
    BY <2>2 DEF ScriptCompAssumption
  <2>4. JobsTyped'
    BY <1>5, <2>1, <2>3, GoesEffect DEF Prepare
  <2>5. RemovedNdb(f) \in [Places -> {None, Old, Torn} \cup File]
    BY DEF RemovedNdb
  <2>6. path' \in [Worker -> SearchPath]
    BY <1>5, <2>2 DEF Prepare, SearchPath
  <2>7. QED
    BY <1>5, <2>4, <2>5, <2>6 DEF Prepare, channels, counters
<1>6. ASSUME NEW w \in Worker, PrepareFails(w) PROVE Typed'
  <2>1. Busy(w)
    BY <1>6 DEF PrepareFails, At, Busy
  <2>2. job[w].file \in File
    BY <2>1, BusyHasFile
  <2>3. /\ JobsTyped'
        /\ fate' \in [File -> {"pending", "built", "validated", "skipped",
                              "aborted", "raised", "error"}]
    BY <1>6, <2>1, EndsEffect DEF PrepareFails
  <2>4. path' \in [Worker -> SearchPath]
    BY <1>6, <2>2 DEF PrepareFails, SearchPath
  <2>5. QED
    BY <1>6, <2>3, <2>4 DEF PrepareFails, Counted, channels, artifacts
<1>7. ASSUME NEW w \in Worker, Request(w) PROVE Typed'
  <2>1. job[w] \in BusyJobs
    BY <1>7, BusyHasFile DEF Request
  <2>2. Head(job[w].want) \in STRING
    BY <1>7, <2>1, HeadTailProperties DEF Request, BusyJobs
  <2>3. requests' \in Seq([worker : Worker, name : STRING, path : SearchPath])
    BY <1>7, <2>2 DEF Request
  <2>4. [job[w] EXCEPT !.asked = TRUE] \in BusyJobs
    BY <2>1 DEF BusyJobs
  <2>5. JobsTyped'
    BY <1>7, <2>4 DEF Request, JobsTyped
  <2>6. QED
    BY <1>7, <2>3, <2>5 DEF Request, artifacts, counters
<1>8. ASSUME NEW w \in Worker, Receive(w) PROVE Typed'
  <2>1. job[w] \in BusyJobs
    BY <1>8, BusyHasFile DEF Receive
  <2>2. Busy(w)
    BY <2>1 DEF BusyJobs, Busy
  <2>3. <<>> \in Seq(STRING) /\ Tail(job[w].want) \in Seq(STRING)
    <3>1. job[w].want \in Seq(STRING) /\ job[w].want # <<>>
      BY <1>8, <2>1 DEF BusyJobs, Receive, JobsTyped
    <3>2. QED
      BY <3>1, EmptySeq, HeadTailProperties
  <2>4. JobsTyped'
    <3>1. CASE At(w, "language")
      BY <1>8, <2>2, <2>3, <3>1, GoesEffect DEF Receive
    <3>2. CASE ~At(w, "language") /\ Head(response[w]) = None
      BY <1>8, <2>2, <2>3, <3>2, GoesEffect DEF Receive
    <3>3. CASE ~At(w, "language") /\ Head(response[w]) # None
      BY <1>8, <2>2, <2>3, <3>3, GoesEffect DEF Receive
    <3>4. QED
      BY <3>1, <3>2, <3>3
  <2>5. response' \in [Worker -> Seq(Container \cup {None})]
    BY <1>8 DEF Receive, TakenFromChannel
  <2>6. QED
    BY <1>8, <2>4, <2>5 DEF Receive, artifacts, counters
<1>9. ASSUME NEW w \in Worker, Success(w) PROVE Typed'
  <2>1. Busy(w)
    BY <1>9 DEF Success, Compiled, At, Busy
  <2>2. CASE Goes(w, "ncs", <<>>) /\ UNCHANGED fate
    <3>1. JobsTyped'
      BY <2>1, <2>2, GoesEffect, EmptySeq
    <3>2. QED
      BY <1>9, <2>2, <3>1 DEF Success, channels, artifacts
  <2>3. CASE Ends(w, "validated")
    <3>1. /\ JobsTyped'
          /\ fate' \in [File -> {"pending", "built", "validated", "skipped",
                                "aborted", "raised", "error"}]
      BY <2>1, <2>3, EndsEffect
    <3>2. QED
      BY <1>9, <3>1 DEF Success, channels, artifacts
  <2>4. QED
    BY <1>9, <2>2, <2>3 DEF Success
<1>10. ASSUME NEW w \in Worker, Skip(w) PROVE Typed'
  <2>1. Busy(w)
    BY <1>10 DEF Skip, Compiled, At, Busy
  <2>2. /\ JobsTyped'
        /\ fate' \in [File -> {"pending", "built", "validated", "skipped",
                              "aborted", "raised", "error"}]
    BY <1>10, <2>1, EndsEffect DEF Skip
  <2>3. QED
    BY <1>10, <2>2 DEF Skip, channels, artifacts
<1>11. ASSUME NEW w \in Worker, Error(w) PROVE Typed'
  <2>1. Busy(w)
    BY <1>11 DEF Error, Compiled, At, Busy
  <2>2. /\ JobsTyped'
        /\ fate' \in [File -> {"pending", "built", "validated", "skipped",
                              "aborted", "raised", "error"}]
    BY <1>11, <2>1, EndsEffect DEF Error
  <2>3. QED
    BY <1>11, <2>2 DEF Error, channels, artifacts
<1>12. ASSUME NEW w \in Worker, WriteNcs(w) PROVE Typed'
  <2>1. Busy(w)
    BY <1>12 DEF WriteNcs, At, Busy
  <2>2. job[w].file \in File
    BY <2>1, BusyHasFile
  <2>3. ncs' \in [Places -> {None, Old, Torn} \cup File]
    BY <1>12, <2>2 DEF WriteNcs
  <2>4. JobsTyped'
    BY <1>12, <2>1, GoesEffect, EmptySeq DEF WriteNcs
  <2>5. QED
    BY <1>12, <2>3, <2>4 DEF WriteNcs, channels, counters
<1>13. ASSUME NEW w \in Worker, WriteNdb(w) PROVE Typed'
  <2>1. Busy(w)
    BY <1>13 DEF WriteNdb, At, Busy
  <2>2. job[w].file \in File
    BY <2>1, BusyHasFile
  <2>3. ndb' \in [Places -> {None, Old, Torn} \cup File]
    BY <1>13, <2>2 DEF WriteNdb
  <2>4. /\ JobsTyped'
        /\ fate' \in [File -> {"pending", "built", "validated", "skipped",
                              "aborted", "raised", "error"}]
    BY <1>13, <2>1, EndsEffect DEF WriteNdb
  <2>5. QED
    BY <1>13, <2>3, <2>4 DEF WriteNdb, channels, counters
<1>14. ASSUME NEW w \in Worker, WriteFails(w) PROVE Typed'
  <2>1. Busy(w)
    BY <1>14 DEF WriteFails, At, Busy
  <2>2. OutPlace(job[w].file) \in Places
    BY <2>1, BusyHasFile, PlacesOf
  <2>3. /\ ncs' \in [Places -> {None, Old, Torn} \cup File]
        /\ ndb' \in [Places -> {None, Old, Torn} \cup File]
    BY <1>14, <2>2 DEF WriteFails
  <2>4. /\ JobsTyped'
        /\ fate' \in [File -> {"pending", "built", "validated", "skipped",
                              "aborted", "raised", "error"}]
    BY <1>14, <2>1, EndsEffect DEF WriteFails
  <2>5. QED
    BY <1>14, <2>3, <2>4 DEF WriteFails, Counted, channels
<1>15. QED
  BY <1>1, <1>2, <1>3, <1>4, <1>5, <1>6, <1>7, <1>8, <1>9, <1>10, <1>11, <1>12, <1>13, <1>14
  DEF Next, Step

-----------------------------------------------------------------------------
(* Messages.                                                               *)

MessagesInv == Requested /\ RequestedOnce /\ Answering

LEMMA RequestType ==
  ASSUME Typed, NEW i \in DOMAIN requests
  PROVE  /\ requests[i] \in [worker : Worker, name : STRING, path : SearchPath]
         /\ requests[i].worker \in Worker
<1>1. requests \in Seq([worker : Worker, name : STRING, path : SearchPath])
  BY DEF Typed
<1>2. i \in 1..Len(requests)
  BY <1>1, LenProperties
<1>3. requests[i] \in [worker : Worker, name : STRING, path : SearchPath]
  BY <1>1, <1>2, ElementOfSeq
<1>4. QED
  BY <1>3

\* A worker that waits for nothing may go on, whatever the others do.
LEMMA OthersUndisturbed ==
  ASSUME Typed, MessagesInv, NEW w \in Worker, job[w].asked # TRUE,
         requests' = requests, response' = response,
         \A v \in Worker : v # w => job'[v] = job[v] /\ path'[v] = path[v],
         job'[w].asked = FALSE,
         job'[w].want = <<>> \/ job'[w].phase \in {"language", "compile"}
  PROVE  MessagesInv'
<1>1. \A i \in DOMAIN requests : requests[i].worker \in Worker /\ requests[i].worker # w
  <2> TAKE i \in DOMAIN requests
  <2>1. requests[i].worker \in Worker
    BY RequestType
  <2>2. job[requests[i].worker].asked = TRUE
    BY DEF MessagesInv, Requested
  <2>3. QED
    BY <2>1, <2>2
<1>2. Requested'
  BY <1>1 DEF MessagesInv, Requested
<1>3. RequestedOnce'
  BY DEF MessagesInv, RequestedOnce
<1>4. Answering'
  <2> SUFFICES ASSUME NEW v \in Worker
               PROVE  /\ Len(response[v]) <= 1
                      /\ response[v] # <<>> => job'[v].asked = TRUE
                      /\ job'[v].asked = TRUE =>
                           response[v] # <<>> \/ \E i \in DOMAIN requests : requests[i].worker = v
                      /\ job'[v].asked = TRUE => Waiting(v)'
                      /\ job'[v].want # <<>> => Waiting(v)'
    BY DEF Answering
  <2>1. CASE v = w
    <3>1. response[w] = <<>> /\ Len(response[w]) <= 1
      BY DEF MessagesInv, Answering
    <3>2. QED
      BY <2>1, <3>1 DEF Waiting
  <2>2. CASE v # w
    BY <2>2 DEF MessagesInv, Answering, Waiting
  <2>3. QED
    BY <2>1, <2>2
<1>5. QED
  BY <1>2, <1>3, <1>4 DEF MessagesInv

\* A worker in a phase without a request is not waiting.
LEMMA NotAsked ==
  ASSUME MessagesInv, NEW w \in Worker,
         job[w].phase \notin {"language", "compile"} \/ job[w].want = <<>>
  PROVE  job[w].asked # TRUE
BY DEF MessagesInv, Answering, Waiting

LEMMA MessagesInit ==
  ASSUME Init
  PROVE  MessagesInv
BY DEF Init, MessagesInv, Requested, RequestedOnce, Answering, Idle, Job

LEMMA MessagesServe ==
  ASSUME Typed, MessagesInv, Serve
  PROVE  MessagesInv'
<1> DEFINE r == requests[1]
           a == Lookup(WithPath(rm, r.path), r.name)
<1>1. /\ requests # <<>> /\ requests' = Tail(requests)
      /\ response' = [response EXCEPT ![r.worker] = Append(@, a)]
      /\ job' = job /\ path' = path
  <2>1. requests # <<>>
    BY DEF Serve
  <2>2. Head(requests) = requests[1]
    BY <2>1 DEF Typed
  <2>3. response' = Answered(r, a)
    BY <2>2 DEF Serve
  <2>4. QED
    BY <2>1, <2>3 DEF Serve, Answered, work
<1>2. /\ requests \in Seq([worker : Worker, name : STRING, path : SearchPath])
      /\ Len(requests) \in Nat \ {0} /\ DOMAIN requests = 1..Len(requests)
      /\ DOMAIN requests' = 1..Len(requests)-1
      /\ \A i \in 1..Len(requests)-1 : requests'[i] = requests[i+1]
  BY <1>1, HeadTailProperties, LenProperties, EmptySeq DEF Typed
<1>3. /\ r \in [worker : Worker, name : STRING, path : SearchPath]
      /\ \A i \in 1..Len(requests)-1 : /\ requests[i+1].worker # r.worker
                                       /\ requests[i+1].worker \in Worker
  <2>1. \A i \in DOMAIN requests :
          /\ requests[i] \in [worker : Worker, name : STRING, path : SearchPath]
          /\ requests[i].worker \in Worker
    BY RequestType
  <2>2. \A i \in 1..Len(requests)-1 : i+1 \in DOMAIN requests /\ i+1 # 1 /\ 1 \in DOMAIN requests
    BY <1>2
  <2>3. 1 \in DOMAIN requests
    BY <1>2
  <2>4. \A i \in 1..Len(requests)-1 : requests[i+1].worker # r.worker
    BY <2>2, <2>3 DEF MessagesInv, RequestedOnce
  <2>5. QED
    BY <2>1, <2>2, <2>3, <2>4
<1>4. /\ response'[r.worker] = <<a>>
      /\ \A v \in Worker : v # r.worker => response'[v] = response[v]
  <2>1. response[r.worker] = <<>> /\ r.worker \in Worker
    BY <1>2, <1>3 DEF MessagesInv, Requested
  <2>2. Append(<<>>, a) = <<a>>
    OBVIOUS
  <2>3. QED
    BY <1>1, <2>1, <2>2 DEF Typed
<1> HIDE DEF r, a
<1>5. Requested'
  <2> SUFFICES ASSUME NEW i \in 1..Len(requests)-1
               PROVE  /\ response'[requests'[i].worker] = <<>>
                      /\ job[requests'[i].worker].asked = TRUE
                      /\ requests'[i].name = Head(job[requests'[i].worker].want)
                      /\ requests'[i].path = path[requests'[i].worker]
    BY <1>1, <1>2 DEF Requested
  <2>1. i+1 \in DOMAIN requests /\ requests'[i] = requests[i+1]
    BY <1>2
  <2>2. QED
    BY <1>3, <1>4, <2>1 DEF MessagesInv, Requested
<1>6. RequestedOnce'
  <2> SUFFICES ASSUME NEW i \in 1..Len(requests)-1, NEW j \in 1..Len(requests)-1,
                      requests'[i].worker = requests'[j].worker
               PROVE  i = j
    BY <1>2 DEF RequestedOnce
  <2>1. /\ i+1 \in DOMAIN requests /\ requests'[i] = requests[i+1]
        /\ j+1 \in DOMAIN requests /\ requests'[j] = requests[j+1]
    BY <1>2
  <2>2. i+1 = j+1
    BY <2>1 DEF MessagesInv, RequestedOnce
  <2>3. QED
    BY <2>2
<1>7. Answering'
  <2> SUFFICES ASSUME NEW v \in Worker
               PROVE  /\ Len(response'[v]) <= 1
                      /\ response'[v] # <<>> => job[v].asked = TRUE
                      /\ job[v].asked = TRUE =>
                           response'[v] # <<>> \/ \E i \in DOMAIN requests' : requests'[i].worker = v
                      /\ job[v].asked = TRUE => Waiting(v)
                      /\ job[v].want # <<>> => Waiting(v)
    BY <1>1 DEF Answering, Waiting
  <2>1. CASE v = r.worker
    <3>1. job[v].asked = TRUE
      BY <1>2, <2>1 DEF MessagesInv, Requested, r
    <3>2. Len(<<a>>) = 1 /\ <<a>> # <<>>
      OBVIOUS
    <3>3. response'[v] = <<a>>
      BY <1>4, <2>1
    <3>4. Waiting(v)
      BY <3>1 DEF MessagesInv, Answering
    <3>5. QED
      BY <3>1, <3>2, <3>3, <3>4
  <2>2. CASE v # r.worker
    <3>1. ASSUME NEW i \in DOMAIN requests, requests[i].worker = v
          PROVE  \E j \in DOMAIN requests' : requests'[j].worker = v
      <4>1. i # 1
        BY <2>2, <3>1 DEF r
      <4>2. i-1 \in DOMAIN requests' /\ requests'[i-1] = requests[i]
        BY <1>2, <4>1
      <4>3. QED
        BY <3>1, <4>2
    <3>2. QED
      BY <1>4, <2>2, <3>1 DEF MessagesInv, Answering
  <2>3. QED
    BY <2>1, <2>2
<1>8. QED
  BY <1>5, <1>6, <1>7 DEF MessagesInv

LEMMA MessagesRequest ==
  ASSUME Typed, MessagesInv, NEW w \in Worker, Request(w)
  PROVE  MessagesInv'
<1> DEFINE r == [worker |-> w, name |-> Head(job[w].want), path |-> path[w]]
<1>1. /\ job[w].want # <<>> /\ job[w].asked # TRUE
      /\ requests' = Append(requests, r)
      /\ job' = [job EXCEPT ![w].asked = TRUE]
      /\ response' = response /\ path' = path
  BY DEF Request
<1>2. r \in [worker : Worker, name : STRING, path : SearchPath]
  <2>1. job[w].want \in Seq(STRING)
    BY <1>1, BusyHasFile DEF BusyJobs
  <2>2. QED
    BY <1>1, <2>1, HeadTailProperties DEF Typed
<1>3. /\ Len(requests) \in Nat /\ DOMAIN requests = 1..Len(requests)
      /\ DOMAIN requests' = 1..Len(requests)+1
      /\ \A i \in 1..Len(requests) : requests'[i] = requests[i]
      /\ requests'[Len(requests)+1] = r
  BY <1>1, <1>2, AppendProperties, LenProperties DEF Typed
<1>4. /\ job'[w].asked = TRUE /\ job'[w].want = job[w].want /\ job'[w].phase = job[w].phase
      /\ \A v \in Worker : v # w => job'[v] = job[v]
  <2>1. job[w] \in BusyJobs
    BY <1>1, BusyHasFile
  <2>2. QED
    BY <1>1, <2>1 DEF Typed, JobsTyped, BusyJobs
<1>5. r.worker = w /\ r.name = Head(job[w].want) /\ r.path = path[w]
  OBVIOUS
<1> HIDE DEF r
<1>6. \A i \in 1..Len(requests) : requests[i].worker \in Worker /\ requests[i].worker # w
  <2> TAKE i \in 1..Len(requests)
  <2>1. requests[i].worker \in Worker
    BY <1>3, RequestType
  <2>2. QED
    BY <1>1, <1>3, <2>1 DEF MessagesInv, Requested
<1>7. Requested'
  <2> SUFFICES ASSUME NEW i \in 1..Len(requests)+1
               PROVE  /\ response[requests'[i].worker] = <<>>
                      /\ job'[requests'[i].worker].asked = TRUE
                      /\ requests'[i].name = Head(job'[requests'[i].worker].want)
                      /\ requests'[i].path = path[requests'[i].worker]
    BY <1>1, <1>3 DEF Requested
  <2>1. CASE i = Len(requests)+1
    <3>1. response[w] = <<>>
      BY <1>1 DEF MessagesInv, Answering
    <3>2. QED
      BY <1>3, <1>4, <1>5, <2>1, <3>1
  <2>2. CASE i \in 1..Len(requests)
    <3>1. i \in DOMAIN requests /\ requests'[i] = requests[i]
      BY <1>3, <2>2
    <3>2. job'[requests[i].worker] = job[requests[i].worker]
      BY <1>4, <1>6, <2>2
    <3>3. QED
      BY <3>1, <3>2 DEF MessagesInv, Requested
  <2>3. i = Len(requests)+1 \/ i \in 1..Len(requests)
    BY <1>3
  <2>4. QED
    BY <2>1, <2>2, <2>3
<1>8. RequestedOnce'
  BY <1>3, <1>5, <1>6 DEF MessagesInv, RequestedOnce
<1>9. Answering'
  <2> SUFFICES ASSUME NEW v \in Worker
               PROVE  /\ Len(response[v]) <= 1
                      /\ response[v] # <<>> => job'[v].asked = TRUE
                      /\ job'[v].asked = TRUE =>
                           response[v] # <<>> \/ \E i \in DOMAIN requests' : requests'[i].worker = v
                      /\ job'[v].asked = TRUE => Waiting(v)'
                      /\ job'[v].want # <<>> => Waiting(v)'
    BY <1>1 DEF Answering
  <2>1. CASE v = w
    <3>1. Len(requests)+1 \in DOMAIN requests'
      BY <1>3
    <3>2. Waiting(w)
      BY <1>1 DEF MessagesInv, Answering
    <3>3. QED
      BY <1>3, <1>4, <1>5, <2>1, <3>1, <3>2 DEF MessagesInv, Answering, Waiting
  <2>2. CASE v # w
    <3>1. \A i \in DOMAIN requests : i \in DOMAIN requests' /\ requests'[i] = requests[i]
      BY <1>3
    <3>2. QED
      BY <1>4, <2>2, <3>1 DEF MessagesInv, Answering, Waiting
  <2>3. QED
    BY <2>1, <2>2
<1>10. QED
  BY <1>7, <1>8, <1>9 DEF MessagesInv

LEMMA ReceiveEmpties ==
  ASSUME Typed, MessagesInv, NEW w \in Worker, Receive(w)
  PROVE  response'[w] = <<>> /\ \A v \in Worker : v # w => response'[v] = response[v]
<1>1. response[w] # <<>> /\ response' = [response EXCEPT ![w] = Tail(@)]
  BY DEF Receive, TakenFromChannel
<1>2. response[w] \in Seq(Container \cup {None}) /\ Len(response[w]) = 1
  <2>1. response[w] \in Seq(Container \cup {None})
    BY DEF Typed
  <2> DEFINE n == Len(response[w])
  <2>2. n \in Nat /\ n # 0
    BY <1>1, <2>1, EmptySeq
  <2>3. n <= 1
    BY DEF MessagesInv, Answering
  <2> HIDE DEF n
  <2>4. n = 1
    BY <2>2, <2>3
  <2>5. QED
    BY <2>1, <2>4 DEF n
<1>3. Tail(response[w]) = <<>>
  <2>1. /\ Tail(response[w]) \in Seq(Container \cup {None})
        /\ Len(Tail(response[w])) = 0
    BY <1>1, <1>2, HeadTailProperties
  <2>2. QED
    BY <2>1, EmptySeq
<1>4. QED
  BY <1>1, <1>3 DEF Typed

LEMMA MessagesReceive ==
  ASSUME Typed, MessagesInv, NEW w \in Worker, Receive(w)
  PROVE  MessagesInv'
<1>1. /\ job[w].asked = TRUE /\ response[w] # <<>> /\ requests' = requests /\ path' = path
      /\ response' = [response EXCEPT ![w] = Tail(@)]
  BY DEF Receive, TakenFromChannel, MessagesInv, Answering
<1>2. response'[w] = <<>> /\ \A v \in Worker : v # w => response'[v] = response[v]
  BY ReceiveEmpties
<1>3. /\ \A v \in Worker : v # w => job'[v] = job[v]
      /\ job'[w].asked = FALSE
      /\ job'[w].want = <<>> \/ job'[w].phase \in {"language", "compile"}
  <2>1. job[w] \in BusyJobs /\ Busy(w)
    BY <1>1, BusyHasFile DEF BusyJobs, Busy
  <2>2. <<>> \in Seq(STRING) /\ Tail(job[w].want) \in Seq(STRING)
    <3>1. job[w].want \in Seq(STRING) /\ job[w].want # <<>>
      BY <1>1, <2>1 DEF BusyJobs, Typed, JobsTyped
    <3>2. QED
      BY <3>1, EmptySeq, HeadTailProperties
  <2>3. CASE At(w, "language")
    BY <2>1, <2>2, <2>3, GoesEffect DEF Receive
  <2>4. CASE ~At(w, "language") /\ Head(response[w]) = None
    BY <2>1, <2>2, <2>4, GoesEffect DEF Receive
  <2>5. CASE ~At(w, "language") /\ Head(response[w]) # None
    BY <2>1, <2>2, <2>5, GoesEffect DEF Receive
  <2>6. QED
    BY <2>3, <2>4, <2>5
<1>4. \A i \in DOMAIN requests : requests[i].worker \in Worker /\ requests[i].worker # w
  <2> TAKE i \in DOMAIN requests
  <2>1. requests[i].worker \in Worker
    BY RequestType
  <2>2. QED
    BY <1>1, <2>1 DEF MessagesInv, Requested
<1>5. Requested'
  BY <1>1, <1>2, <1>3, <1>4 DEF MessagesInv, Requested
<1>6. RequestedOnce'
  BY <1>1 DEF MessagesInv, RequestedOnce
<1>7. Answering'
  <2> SUFFICES ASSUME NEW v \in Worker
               PROVE  /\ Len(response'[v]) <= 1
                      /\ response'[v] # <<>> => job'[v].asked = TRUE
                      /\ job'[v].asked = TRUE =>
                           response'[v] # <<>> \/ \E i \in DOMAIN requests : requests[i].worker = v
                      /\ job'[v].asked = TRUE => Waiting(v)'
                      /\ job'[v].want # <<>> => Waiting(v)'
    BY <1>1 DEF Answering
  <2>1. CASE v = w
    BY <1>2, <1>3, <2>1 DEF Waiting
  <2>2. CASE v # w
    BY <1>2, <1>3, <2>2 DEF MessagesInv, Answering, Waiting
  <2>3. QED
    BY <2>1, <2>2
<1>8. QED
  BY <1>5, <1>6, <1>7 DEF MessagesInv

LEMMA MessagesStep ==
  ASSUME ScriptCompAssumption, Typed, MessagesInv, [Next]_vars
  PROVE  MessagesInv'
<1>1. CASE UNCHANGED vars
  BY <1>1 DEF MessagesInv, Requested, RequestedOnce, Answering, Waiting, vars, work, channels
<1>2. CASE Serve
  BY <1>2, MessagesServe
<1>3. CASE Quit
  BY <1>3 DEF Quit, MessagesInv, Requested, RequestedOnce, Answering, Waiting, work, channels
<1>4. ASSUME NEW w \in Worker, NEW f \in File, Take(w, f)
      PROVE  MessagesInv'
  <2>1. CASE aborted
    <3>1. UNCHANGED <<job, path, requests, response>>
      BY <1>4, <2>1 DEF Take, channels
    <3>2. QED
      BY <3>1 DEF MessagesInv, Requested, RequestedOnce, Answering, Waiting
  <2>2. CASE ~aborted
    <3>1. job' = [job EXCEPT ![w] = IF w \in ready THEN Job(f, "prepare", <<>>)
                                    ELSE Job(f, "language", <<Language>>)]
      BY <1>4, <2>2 DEF Take
    <3>2. /\ \A v \in Worker : v # w => job'[v] = job[v]
          /\ job'[w].asked = FALSE
          /\ job'[w].want = <<>> \/ job'[w].phase \in {"language", "compile"}
      BY <3>1 DEF Job, Typed, JobsTyped
    <3>3. job[w].asked # TRUE
      BY <1>4, NotAsked DEF Take, At
    <3>4. UNCHANGED <<path, requests, response>>
      BY <1>4 DEF Take, channels
    <3>5. QED
      BY <3>2, <3>3, <3>4, OthersUndisturbed
  <2>3. QED
    BY <2>1, <2>2
<1>5. ASSUME NEW w \in Worker, Prepare(w) PROVE MessagesInv'
  <2>1. Busy(w) /\ job[w].asked # TRUE
    BY <1>5, NotAsked DEF Prepare, At, Busy
  <2> DEFINE want == <<StemOf[job[w].file]>> \o Includes[job[w].file]
  <2>2. want \in Seq(STRING)
    <3>1. job[w].file \in File
      BY <2>1, BusyHasFile
    <3>2. QED
      BY <3>1 DEF ScriptCompAssumption
  <2>3. /\ \A v \in Worker : v # w => job'[v] = job[v]
        /\ job'[w].asked = FALSE /\ job'[w].phase = "compile"
    <3>1. Goes(w, "compile", want)
      BY <1>5 DEF Prepare
    <3> HIDE DEF want
    <3>2. QED
      BY <2>1, <2>2, <3>1, GoesEffect
  <2>4. /\ UNCHANGED <<requests, response>>
        /\ \A v \in Worker : v # w => path'[v] = path[v]
    BY <1>5 DEF Prepare, channels, Typed
  <2>5. QED
    BY <2>1, <2>3, <2>4, OthersUndisturbed
<1>6. ASSUME NEW w \in Worker, NEW what \in {"built", "validated", "skipped", "raised", "error"},
             Ends(w, what), Busy(w), job[w].asked # TRUE, UNCHANGED <<requests, response>>,
             \A v \in Worker : v # w => path'[v] = path[v]
      PROVE  MessagesInv'
  <2>1. /\ \A v \in Worker : v # w => job'[v] = job[v]
        /\ job'[w].asked = FALSE /\ job'[w].want = <<>>
    BY ONLY Typed, <1>6, EndsEffect
  <2>2. QED
    BY <1>6, <2>1, OthersUndisturbed
<1>7. ASSUME NEW w \in Worker, PrepareFails(w) PROVE MessagesInv'
  <2>1. Busy(w) /\ job[w].asked # TRUE
    BY <1>7, NotAsked DEF PrepareFails, At, Busy
  <2>2. /\ UNCHANGED <<requests, response>> /\ Ends(w, "raised")
        /\ \A v \in Worker : v # w => path'[v] = path[v]
    BY <1>7 DEF PrepareFails, channels, Typed
  <2>3. QED
    BY <1>6, <2>1, <2>2
<1>8. ASSUME NEW w \in Worker, Request(w) PROVE MessagesInv'
  BY <1>8, MessagesRequest
<1>9. ASSUME NEW w \in Worker, Receive(w) PROVE MessagesInv'
  BY <1>9, MessagesReceive
<1>10. ASSUME NEW w \in Worker, Success(w) PROVE MessagesInv'
  <2>1. Busy(w) /\ job[w].asked # TRUE /\ UNCHANGED <<path, requests, response>>
    BY <1>10, NotAsked DEF Success, Compiled, At, Busy, channels
  <2>2. CASE Goes(w, "ncs", <<>>)
    <3>1. /\ \A v \in Worker : v # w => job'[v] = job[v]
          /\ job'[w].asked = FALSE /\ job'[w].want = <<>>
      BY <2>1, <2>2, GoesEffect, EmptySeq
    <3>2. QED
      BY <2>1, <3>1, OthersUndisturbed
  <2>3. CASE Ends(w, "validated")
    BY <1>6, <2>1, <2>3
  <2>4. QED
    BY <1>10, <2>2, <2>3 DEF Success
<1>11. ASSUME NEW w \in Worker, Skip(w) PROVE MessagesInv'
  <2>1. /\ Busy(w) /\ job[w].asked # TRUE /\ UNCHANGED <<path, requests, response>>
        /\ Ends(w, "skipped")
    BY <1>11, NotAsked DEF Skip, Compiled, At, Busy, channels
  <2>2. QED
    BY <1>6, <2>1
<1>12. ASSUME NEW w \in Worker, Error(w) PROVE MessagesInv'
  <2>1. /\ Busy(w) /\ job[w].asked # TRUE /\ UNCHANGED <<path, requests, response>>
        /\ Ends(w, "error")
    BY <1>12, NotAsked DEF Error, Compiled, At, Busy, channels
  <2>2. QED
    BY <1>6, <2>1
<1>13. ASSUME NEW w \in Worker, WriteNcs(w) PROVE MessagesInv'
  <2>1. /\ Busy(w) /\ job[w].asked # TRUE /\ UNCHANGED <<path, requests, response>>
        /\ Goes(w, "ndb", <<>>)
    BY <1>13, NotAsked DEF WriteNcs, At, Busy, channels
  <2>2. /\ \A v \in Worker : v # w => job'[v] = job[v]
        /\ job'[w].asked = FALSE /\ job'[w].want = <<>>
    BY <2>1, GoesEffect, EmptySeq
  <2>3. QED
    BY <2>1, <2>2, OthersUndisturbed
<1>14. ASSUME NEW w \in Worker, WriteNdb(w) PROVE MessagesInv'
  <2>1. /\ Busy(w) /\ job[w].asked # TRUE /\ UNCHANGED <<path, requests, response>>
        /\ Ends(w, "built")
    BY <1>14, NotAsked DEF WriteNdb, At, Busy, channels
  <2>2. QED
    BY <1>6, <2>1
<1>15. ASSUME NEW w \in Worker, WriteFails(w) PROVE MessagesInv'
  <2>1. /\ Busy(w) /\ job[w].asked # TRUE /\ UNCHANGED <<path, requests, response>>
        /\ Ends(w, "raised")
    BY <1>15, NotAsked DEF WriteFails, At, Busy, channels
  <2>2. QED
    BY <1>6, <2>1
<1>16. QED
  BY <1>1, <1>2, <1>3, <1>4, <1>5, <1>7, <1>8, <1>9, <1>10, <1>11, <1>12, <1>13, <1>14, <1>15
  DEF Next, Step

-----------------------------------------------------------------------------
(* What becomes of a file.                                                 *)

\* A worker goes from one phase to another with its file ...
Moves(w, from, to) ==
  /\ job[w].file \in File /\ job'[w].file = job[w].file
  /\ job[w].phase \in from /\ job'[w].phase \in to
  /\ \A v \in Worker : v # w => job'[v] = job[v]
  /\ UNCHANGED <<queued, fate>>

\* ... or is done with it.
Finishes(w, from, what) ==
  /\ job[w].file \in File
  /\ job[w].phase \in from /\ job'[w].phase = "idle"
  /\ \A v \in Worker : v # w => job'[v] = job[v]
  /\ fate'[job[w].file] = what
  /\ \A f \in File : f # job[w].file => fate'[f] = fate[f]
  /\ UNCHANGED queued

LEMMA GoingMoves ==
  ASSUME Typed, NEW w \in Worker, NEW from, job[w].phase \in from, Busy(w),
         NEW ph \in {"language", "prepare", "compile", "broken", "ncs", "ndb"},
         NEW want \in Seq(STRING), Goes(w, ph, want), UNCHANGED <<queued, fate>>
  PROVE  Moves(w, from, {ph})
<1>1. /\ \A v \in Worker : v # w => job'[v] = job[v]
      /\ job'[w].file = job[w].file /\ job'[w].phase = ph
  BY GoesEffect
<1>2. job[w].file \in File
  BY BusyHasFile
<1>3. QED
  BY <1>1, <1>2 DEF Moves

LEMMA EndingFinishes ==
  ASSUME Typed, NEW w \in Worker, NEW from, job[w].phase \in from, Busy(w),
         NEW what \in {"built", "validated", "skipped", "raised", "error"}, Ends(w, what),
         UNCHANGED queued
  PROVE  Finishes(w, from, what)
<1>1. /\ \A v \in Worker : v # w => job'[v] = job[v]
      /\ job'[w].phase = "idle"
      /\ job[w].file \in File /\ fate'[job[w].file] = what
      /\ \A f \in File : f # job[w].file => fate'[f] = fate[f]
  BY EndsEffect
<1>2. QED
  BY <1>1 DEF Finishes

LEMMA PrepareMoves ==
  ASSUME ScriptCompAssumption, Typed, NEW w \in Worker, Prepare(w)
  PROVE  Moves(w, {"prepare"}, {"compile"})
<1> DEFINE want == <<StemOf[job[w].file]>> \o Includes[job[w].file]
<1>1. job[w].phase \in {"prepare"} /\ Busy(w) /\ Goes(w, "compile", want)
      /\ UNCHANGED <<queued, fate>>
  BY DEF Prepare, At, Busy
<1>2. want \in Seq(STRING)
  <2>1. job[w].file \in File
    BY <1>1, BusyHasFile
  <2>2. QED
    BY <2>1 DEF ScriptCompAssumption
<1> HIDE DEF want
<1>3. QED
  BY <1>1, <1>2, GoingMoves

LEMMA RequestMoves ==
  ASSUME Typed, NEW w \in Worker, Request(w)
  PROVE  /\ Moves(w, {job[w].phase}, {job[w].phase}) /\ Busy(w)
         /\ job'[w].want = job[w].want
<1>1. job[w] \in BusyJobs /\ job[w].file \in File
  BY BusyHasFile DEF Request
<1>2. job' = [job EXCEPT ![w].asked = TRUE] /\ UNCHANGED <<queued, fate>>
  BY DEF Request
<1>3. QED
  BY <1>1, <1>2 DEF Typed, JobsTyped, BusyJobs, Moves, Busy

LEMMA ReceiveMoves ==
  ASSUME Typed, MessagesInv, NEW w \in Worker, Receive(w)
  PROVE  \/ Moves(w, {"language"}, {"prepare"})
         \/ Moves(w, {"compile"}, {"compile", "broken"})
<1>1. /\ job[w].asked = TRUE /\ UNCHANGED <<queued, fate>>
      /\ job[w].phase \in {"language", "compile"}
  <2>1. job[w].asked = TRUE /\ UNCHANGED <<queued, fate>>
    BY DEF Receive, MessagesInv, Answering
  <2>2. QED
    BY <2>1 DEF MessagesInv, Answering, Waiting
<1>2. Busy(w) /\ <<>> \in Seq(STRING) /\ Tail(job[w].want) \in Seq(STRING)
  <2>1. job[w] \in BusyJobs
    BY <1>1, BusyHasFile
  <2>2. job[w].want \in Seq(STRING) /\ job[w].want # <<>>
    BY <1>1, <2>1 DEF BusyJobs, Typed, JobsTyped
  <2>3. QED
    BY <1>1, <2>2, EmptySeq, HeadTailProperties DEF Busy
<1>3. CASE At(w, "language")
  <2>1. Goes(w, "prepare", <<>>) /\ job[w].phase \in {"language"}
    BY <1>3 DEF Receive, At
  <2>2. QED
    BY <1>1, <1>2, <2>1, GoingMoves
<1>4. CASE ~At(w, "language") /\ Head(response[w]) = None
  <2>1. Goes(w, "broken", <<>>) /\ job[w].phase \in {"compile"}
    BY <1>1, <1>4 DEF Receive, At
  <2>2. Moves(w, {"compile"}, {"broken"})
    BY <1>1, <1>2, <2>1, GoingMoves
  <2>3. QED
    BY <2>2 DEF Moves
<1>5. CASE ~At(w, "language") /\ Head(response[w]) # None
  <2>1. Goes(w, "compile", Tail(job[w].want)) /\ job[w].phase \in {"compile"}
    BY <1>1, <1>5 DEF Receive, At
  <2>2. Moves(w, {"compile"}, {"compile"})
    BY <1>1, <1>2, <2>1, GoingMoves
  <2>3. QED
    BY <2>2 DEF Moves
<1>6. QED
  BY <1>3, <1>4, <1>5

LEMMA SuccessMoves ==
  ASSUME Typed, NEW w \in Worker, Success(w)
  PROVE  Moves(w, {"compile"}, {"ncs"}) \/ Finishes(w, {"compile"}, "validated")
<1>1. job[w].phase \in {"compile"} /\ Busy(w) /\ UNCHANGED queued
  BY DEF Success, Compiled, At, Busy
<1>2. CASE Goes(w, "ncs", <<>>) /\ UNCHANGED fate
  BY <1>1, <1>2, GoingMoves, EmptySeq
<1>3. CASE Ends(w, "validated")
  BY <1>1, <1>3, EndingFinishes
<1>4. QED
  BY <1>2, <1>3 DEF Success

LEMMA WriteNcsMoves ==
  ASSUME Typed, NEW w \in Worker, WriteNcs(w)
  PROVE  Moves(w, {"ncs"}, {"ndb"})
<1>1. job[w].phase \in {"ncs"} /\ Busy(w) /\ UNCHANGED <<queued, fate>> /\ Goes(w, "ndb", <<>>)
  BY DEF WriteNcs, At, Busy
<1>2. QED
  BY <1>1, GoingMoves, EmptySeq

LEMMA EndingSteps ==
  ASSUME Typed, NEW w \in Worker
  PROVE  /\ PrepareFails(w) => Finishes(w, {"prepare"}, "raised")
         /\ Skip(w) => Finishes(w, {"compile"}, "skipped")
         /\ Error(w) => Finishes(w, {"compile", "broken"}, "error")
         /\ WriteNdb(w) => Finishes(w, {"ndb"}, "built")
         /\ WriteFails(w) => Finishes(w, {"ncs", "ndb"}, "raised")
<1>1. ASSUME PrepareFails(w) PROVE Finishes(w, {"prepare"}, "raised")
  <2>1. job[w].phase \in {"prepare"} /\ Busy(w) /\ UNCHANGED queued /\ Ends(w, "raised")
    BY <1>1 DEF PrepareFails, At, Busy
  <2>2. QED
    BY <2>1, EndingFinishes
<1>2. ASSUME Skip(w) PROVE Finishes(w, {"compile"}, "skipped")
  <2>1. job[w].phase \in {"compile"} /\ Busy(w) /\ UNCHANGED queued /\ Ends(w, "skipped")
    BY <1>2 DEF Skip, Compiled, At, Busy
  <2>2. QED
    BY <2>1, EndingFinishes
<1>3. ASSUME Error(w) PROVE Finishes(w, {"compile", "broken"}, "error")
  <2>1. job[w].phase \in {"compile", "broken"} /\ Busy(w) /\ UNCHANGED queued /\ Ends(w, "error")
    BY <1>3 DEF Error, Compiled, At, Busy
  <2>2. QED
    BY <2>1, EndingFinishes
<1>4. ASSUME WriteNdb(w) PROVE Finishes(w, {"ndb"}, "built")
  <2>1. job[w].phase \in {"ndb"} /\ Busy(w) /\ UNCHANGED queued /\ Ends(w, "built")
    BY <1>4 DEF WriteNdb, At, Busy
  <2>2. QED
    BY <2>1, EndingFinishes
<1>5. ASSUME WriteFails(w) PROVE Finishes(w, {"ncs", "ndb"}, "raised")
  <2>1. job[w].phase \in {"ncs", "ndb"} /\ Busy(w) /\ UNCHANGED queued /\ Ends(w, "raised")
    BY <1>5 DEF WriteFails, At, Busy
  <2>2. QED
    BY <2>1, EndingFinishes
<1>6. QED
  BY <1>1, <1>2, <1>3, <1>4, <1>5

\* What Take does, to the worker or to the fate of the file.
LEMMA TakeEffect ==
  ASSUME Typed, NEW w \in Worker, NEW f \in File, Take(w, f)
  PROVE  /\ job[w].phase = "idle" /\ f \in queued /\ queued' = queued \ {f}
         /\ \A v \in Worker : v # w => job'[v] = job[v]
         /\ \/ /\ job' = job /\ fate' = [fate EXCEPT ![f] = "aborted"] /\ aborted = TRUE
            \/ /\ job'[w].file = f /\ job'[w].phase \in {"language", "prepare"}
               /\ fate' = fate
<1>1. job[w].phase = "idle" /\ f \in queued /\ queued' = queued \ {f}
  BY DEF Take, At
<1>2. CASE aborted = TRUE
  BY <1>1, <1>2 DEF Take
<1>3. CASE aborted # TRUE
  <2>1. job' = [job EXCEPT ![w] = IF w \in ready THEN Job(f, "prepare", <<>>)
                                  ELSE Job(f, "language", <<Language>>)]
        /\ fate' = fate
    BY <1>3 DEF Take
  <2>2. QED
    BY <1>1, <2>1 DEF Job, Typed, JobsTyped
<1>4. QED
  BY <1>2, <1>3

-----------------------------------------------------------------------------
(* Each file is in one place, and the program ends when none is left.      *)

FilesInv == Placed /\ Ended

LEMMA FilesMoves ==
  ASSUME Typed, FilesInv, NEW w \in Worker, NEW from, NEW to,
         "idle" \notin from, "idle" \notin to, Moves(w, from, to), finished' = finished
  PROVE  FilesInv'
<1>1. \A v \in Worker : job'[v].file = job[v].file /\ (Busy(v)' <=> Busy(v))
  BY DEF Moves, Busy
<1>2. queued' = queued /\ fate' = fate
  BY DEF Moves
<1>3. Placed'
  BY <1>1, <1>2 DEF FilesInv, Placed
<1>4. Ended'
  BY <1>1, <1>2 DEF FilesInv, Ended
<1>5. QED
  BY <1>3, <1>4 DEF FilesInv

LEMMA FilesFinishes ==
  ASSUME Typed, FilesInv, NEW w \in Worker, NEW from, "idle" \notin from,
         NEW what \in {"built", "validated", "skipped", "raised", "error"},
         Finishes(w, from, what), finished' = finished
  PROVE  FilesInv'
<1>1. /\ Busy(w) /\ ~Busy(w)' /\ queued' = queued
      /\ \A v \in Worker : v # w => job'[v] = job[v] /\ (Busy(v)' <=> Busy(v))
      /\ job[w].file \in File /\ fate'[job[w].file] = what /\ what # "pending"
      /\ \A f \in File : f # job[w].file => fate'[f] = fate[f]
  BY DEF Finishes, Busy
<1>2. Placed'
  <2>1. \A f \in queued : fate'[f] = "pending"
    BY <1>1 DEF FilesInv, Placed, Typed
  <2>2. ASSUME NEW v \in Worker, Busy(v)'
        PROVE  job'[v].file \notin queued /\ fate'[job'[v].file] = "pending"
    <3>1. v # w /\ Busy(v) /\ job'[v] = job[v] /\ job[v].file \in File
      BY <1>1, <2>2, BusyHasFile
    <3>2. job[v].file # job[w].file
      BY <1>1, <3>1 DEF FilesInv, Placed
    <3>3. QED
      BY <1>1, <3>1, <3>2 DEF FilesInv, Placed
  <2>3. \A u, v \in Worker : Busy(u)' /\ Busy(v)' /\ job'[u].file = job'[v].file => u = v
    BY <1>1 DEF FilesInv, Placed
  <2>4. ASSUME NEW f \in File, f \notin queued, fate'[f] = "pending"
        PROVE  \E v \in Worker : Busy(v)' /\ job'[v].file = f
    <3>1. f # job[w].file /\ fate[f] = "pending"
      BY <1>1, <2>4
    <3>2. PICK v \in Worker : Busy(v) /\ job[v].file = f
      BY <2>4, <3>1 DEF FilesInv, Placed
    <3>3. QED
      BY <1>1, <3>1, <3>2
  <2>5. QED
    BY <1>1, <2>1, <2>2, <2>3, <2>4 DEF Placed
<1>3. Ended'
  BY <1>1 DEF FilesInv, Ended
<1>4. QED
  BY <1>2, <1>3 DEF FilesInv

LEMMA FilesTake ==
  ASSUME Typed, FilesInv, NEW w \in Worker, NEW f \in File, Take(w, f)
  PROVE  FilesInv'
<1>1. /\ ~Busy(w) /\ f \in queued /\ queued' = queued \ {f} /\ queued \subseteq File
      /\ \A v \in Worker : v # w => job'[v] = job[v] /\ (Busy(v)' <=> Busy(v))
  BY TakeEffect DEF Busy, Typed
<1>2. finished' = finished
  BY DEF Take
<1>3. fate[f] = "pending" /\ \A v \in Worker : Busy(v) => job[v].file # f
  BY <1>1 DEF FilesInv, Placed
<1>4. CASE job' = job /\ fate' = [fate EXCEPT ![f] = "aborted"]
  <2>1. fate'[f] = "aborted" /\ \A g \in File : g # f => fate'[g] = fate[g]
    BY <1>4 DEF Typed
  <2>2. \A v \in Worker : job'[v] = job[v] /\ (Busy(v)' <=> Busy(v))
    BY <1>4 DEF Busy
  <2>3. \A g \in queued' : fate'[g] = "pending"
    BY <1>1, <2>1 DEF FilesInv, Placed
  <2>4. ASSUME NEW v \in Worker, Busy(v)'
        PROVE  job'[v].file \notin queued' /\ fate'[job'[v].file] = "pending"
    <3>1. Busy(v) /\ job[v].file \in File
      BY <2>2, <2>4, BusyHasFile
    <3>2. QED
      BY <1>1, <1>3, <2>1, <2>2, <3>1 DEF FilesInv, Placed
  <2>5. \A u, v \in Worker : Busy(u)' /\ Busy(v)' /\ job'[u].file = job'[v].file => u = v
    BY <2>2 DEF FilesInv, Placed
  <2>6. ASSUME NEW g \in File, g \notin queued', fate'[g] = "pending"
        PROVE  \E v \in Worker : Busy(v)' /\ job'[v].file = g
    <3>1. g # f
      BY <2>1, <2>6
    <3>2. g \notin queued /\ fate[g] = "pending"
      BY <1>1, <2>1, <2>6, <3>1
    <3>3. PICK v \in Worker : Busy(v) /\ job[v].file = g
      BY <3>2 DEF FilesInv, Placed
    <3>4. QED
      BY <2>2, <3>3
  <2>7. Placed'
    BY <2>3, <2>4, <2>5, <2>6 DEF Placed
  <2>8. Ended'
    BY <1>1, <1>2, <2>2 DEF FilesInv, Ended
  <2>9. QED
    BY <2>7, <2>8 DEF FilesInv
<1>5. CASE job'[w].file = f /\ job'[w].phase \in {"language", "prepare"} /\ fate' = fate
  <2>1. Busy(w)' /\ job'[w].file = f
    BY <1>5 DEF Busy
  <2>2. \A g \in queued' : fate'[g] = "pending"
    BY <1>1, <1>5 DEF FilesInv, Placed
  <2>3. ASSUME NEW v \in Worker, Busy(v)'
        PROVE  job'[v].file \notin queued' /\ fate'[job'[v].file] = "pending"
    <3>1. CASE v = w
      BY <1>1, <1>3, <1>5, <2>1, <3>1
    <3>2. CASE v # w
      BY <1>1, <1>5, <2>3, <3>2 DEF FilesInv, Placed
    <3>3. QED
      BY <3>1, <3>2
  <2>4. ASSUME NEW u \in Worker, NEW v \in Worker, Busy(u)', Busy(v)', job'[u].file = job'[v].file
        PROVE  u = v
    <3>1. CASE u = w \/ v = w
      BY <1>1, <1>3, <2>1, <2>4, <3>1
    <3>2. CASE u # w /\ v # w
      BY <1>1, <2>4, <3>2 DEF FilesInv, Placed
    <3>3. QED
      BY <3>1, <3>2
  <2>5. ASSUME NEW g \in File, g \notin queued', fate'[g] = "pending"
        PROVE  \E v \in Worker : Busy(v)' /\ job'[v].file = g
    <3>1. CASE g = f
      BY <2>1, <3>1
    <3>2. CASE g # f
      <4>1. PICK v \in Worker : Busy(v) /\ job[v].file = g
        BY <1>1, <1>5, <2>5, <3>2 DEF FilesInv, Placed
      <4>2. QED
        BY <1>1, <4>1
    <3>3. QED
      BY <3>1, <3>2
  <2>6. Placed'
    BY <2>2, <2>3, <2>4, <2>5 DEF Placed
  <2>7. Ended'
    BY <1>1, <1>2 DEF FilesInv, Ended
  <2>8. QED
    BY <2>6, <2>7 DEF FilesInv
<1>6. QED
  BY <1>4, <1>5, TakeEffect

LEMMA FilesInit ==
  ASSUME Init
  PROVE  FilesInv
BY DEF Init, FilesInv, Placed, Ended, Busy, Idle, Job

LEMMA FilesStep ==
  ASSUME ScriptCompAssumption, Typed, MessagesInv, FilesInv, [Next]_vars
  PROVE  FilesInv'
<1>1. CASE UNCHANGED vars
  BY <1>1 DEF vars, work, FilesInv, Placed, Ended, Busy
<1>2. CASE Serve
  BY <1>2 DEF Serve, work, FilesInv, Placed, Ended, Busy
<1>3. CASE Quit
  BY <1>3 DEF Quit, At, work, FilesInv, Placed, Ended, Busy
<1>4. ASSUME NEW w \in Worker, NEW f \in File, Take(w, f) PROVE FilesInv'
  BY <1>4, FilesTake
<1>5. ASSUME NEW w \in Worker, Prepare(w) PROVE FilesInv'
  <2>1. Moves(w, {"prepare"}, {"compile"}) /\ finished' = finished
    BY <1>5, PrepareMoves DEF Prepare
  <2>2. QED
    BY <2>1, FilesMoves
<1>6. ASSUME NEW w \in Worker, Request(w) PROVE FilesInv'
  <2>1. Moves(w, {job[w].phase}, {job[w].phase}) /\ job[w].phase # "idle" /\ finished' = finished
    BY <1>6, RequestMoves DEF Request, Busy
  <2>2. QED
    BY <2>1, FilesMoves
<1>7. ASSUME NEW w \in Worker, Receive(w) PROVE FilesInv'
  <2>1. finished' = finished
    BY <1>7 DEF Receive
  <2>2. QED
    BY <1>7, <2>1, ReceiveMoves, FilesMoves
<1>8. ASSUME NEW w \in Worker, Success(w) PROVE FilesInv'
  <2>1. finished' = finished
    BY <1>8 DEF Success
  <2>2. QED
    BY <1>8, <2>1, SuccessMoves, FilesMoves, FilesFinishes
<1>9. ASSUME NEW w \in Worker, WriteNcs(w) PROVE FilesInv'
  <2>1. Moves(w, {"ncs"}, {"ndb"}) /\ finished' = finished
    BY <1>9, WriteNcsMoves DEF WriteNcs
  <2>2. QED
    BY <2>1, FilesMoves
<1>10. ASSUME NEW w \in Worker, PrepareFails(w) PROVE FilesInv'
  <2>1. Finishes(w, {"prepare"}, "raised") /\ finished' = finished
    BY <1>10, EndingSteps DEF PrepareFails
  <2>2. QED
    BY <2>1, FilesFinishes
<1>11. ASSUME NEW w \in Worker, Skip(w) PROVE FilesInv'
  <2>1. Finishes(w, {"compile"}, "skipped") /\ finished' = finished
    BY <1>11, EndingSteps DEF Skip
  <2>2. QED
    BY <2>1, FilesFinishes
<1>12. ASSUME NEW w \in Worker, Error(w) PROVE FilesInv'
  <2>1. Finishes(w, {"compile", "broken"}, "error") /\ finished' = finished
    BY <1>12, EndingSteps DEF Error
  <2>2. QED
    BY <2>1, FilesFinishes
<1>13. ASSUME NEW w \in Worker, WriteNdb(w) PROVE FilesInv'
  <2>1. Finishes(w, {"ndb"}, "built") /\ finished' = finished
    BY <1>13, EndingSteps DEF WriteNdb
  <2>2. QED
    BY <2>1, FilesFinishes
<1>14. ASSUME NEW w \in Worker, WriteFails(w) PROVE FilesInv'
  <2>1. Finishes(w, {"ncs", "ndb"}, "raised") /\ finished' = finished
    BY <1>14, EndingSteps DEF WriteFails
  <2>2. QED
    BY <2>1, FilesFinishes
<1>15. QED
  BY <1>1, <1>2, <1>3, <1>4, <1>5, <1>6, <1>7, <1>8, <1>9, <1>10, <1>11, <1>12, <1>13, <1>14
  DEF Next, Step

-----------------------------------------------------------------------------
(* The counters.                                                           *)

LEMMA CountGrows ==
  ASSUME NEW S, NEW T, IsFiniteSet(T), S \subseteq T
  PROVE  /\ Cardinality(S) \in Nat /\ Cardinality(T) \in Nat
         /\ Cardinality(S) <= Cardinality(T)
         /\ \A x \in T : x \notin S => Cardinality(S) + 1 <= Cardinality(T)
<1>1. IsFiniteSet(S) /\ Cardinality(S) <= Cardinality(T)
  BY FS_Subset
<1>2. ASSUME NEW x \in T, x \notin S
      PROVE  Cardinality(S) + 1 <= Cardinality(T)
  <2>1. Cardinality(S \cup {x}) = Cardinality(S) + 1
    BY <1>1, <1>2, FS_AddElement
  <2>2. Cardinality(S \cup {x}) <= Cardinality(T)
    BY <1>2, FS_Subset
  <2>3. QED
    BY <2>1, <2>2
<1>3. QED
  BY <1>1, <1>2, FS_CardinalityType

LEMMA SetsFinite ==
  ASSUME ScriptCompAssumption
  PROVE  /\ IsFiniteSet(Succeeded) /\ IsFiniteSet(Skipped) /\ IsFiniteSet(Failed)
         /\ IsFiniteSet(Succeeded') /\ IsFiniteSet(Skipped') /\ IsFiniteSet(Failed')
<1>1. /\ Succeeded \subseteq File /\ Skipped \subseteq File /\ Failed \subseteq File
      /\ Succeeded' \subseteq File /\ Skipped' \subseteq File /\ Failed' \subseteq File
  BY DEF Succeeded, Skipped, Failed
<1>2. QED
  BY <1>1, FS_Subset DEF ScriptCompAssumption

\* A step that counts nothing takes no file out of a set.
LEMMA TallyKept ==
  ASSUME ScriptCompAssumption, Typed, Tallied,
         Succeeded \subseteq Succeeded', Skipped \subseteq Skipped', Failed \subseteq Failed'
  PROVE  /\ successes <= Cardinality(Succeeded') /\ skips <= Cardinality(Skipped')
         /\ errors <= Cardinality(Failed')
         /\ \A f \in Succeeded' : f \notin Succeeded => successes + 1 <= Cardinality(Succeeded')
         /\ \A f \in Skipped' : f \notin Skipped => skips + 1 <= Cardinality(Skipped')
         /\ \A f \in Failed' : f \notin Failed => errors + 1 <= Cardinality(Failed')
<1>1. /\ successes \in Nat /\ skips \in Nat /\ errors \in Nat
      /\ successes <= Cardinality(Succeeded) /\ skips <= Cardinality(Skipped)
      /\ errors <= Cardinality(Failed)
  BY DEF Typed, Tallied
<1>2. /\ Cardinality(Succeeded) \in Nat /\ Cardinality(Succeeded') \in Nat
      /\ Cardinality(Succeeded) <= Cardinality(Succeeded')
      /\ \A x \in Succeeded' : x \notin Succeeded =>
           Cardinality(Succeeded) + 1 <= Cardinality(Succeeded')
  BY SetsFinite, CountGrows
<1>3. /\ Cardinality(Skipped) \in Nat /\ Cardinality(Skipped') \in Nat
      /\ Cardinality(Skipped) <= Cardinality(Skipped')
      /\ \A x \in Skipped' : x \notin Skipped =>
           Cardinality(Skipped) + 1 <= Cardinality(Skipped')
  BY SetsFinite, CountGrows
<1>4. /\ Cardinality(Failed) \in Nat /\ Cardinality(Failed') \in Nat
      /\ Cardinality(Failed) <= Cardinality(Failed')
      /\ \A x \in Failed' : x \notin Failed => Cardinality(Failed) + 1 <= Cardinality(Failed')
  BY SetsFinite, CountGrows
<1>5. successes <= Cardinality(Succeeded') /\ skips <= Cardinality(Skipped')
      /\ errors <= Cardinality(Failed')
  BY <1>1, <1>2, <1>3, <1>4
<1>6. ASSUME NEW f \in Succeeded', f \notin Succeeded
      PROVE  successes + 1 <= Cardinality(Succeeded')
  <2>1. Cardinality(Succeeded) + 1 <= Cardinality(Succeeded')
    BY <1>2, <1>6
  <2>2. QED
    BY <1>1, <1>2, <2>1
<1>7. ASSUME NEW f \in Skipped', f \notin Skipped
      PROVE  skips + 1 <= Cardinality(Skipped')
  <2>1. Cardinality(Skipped) + 1 <= Cardinality(Skipped')
    BY <1>3, <1>7
  <2>2. QED
    BY <1>1, <1>3, <2>1
<1>8. ASSUME NEW f \in Failed', f \notin Failed
      PROVE  errors + 1 <= Cardinality(Failed')
  <2>1. Cardinality(Failed) + 1 <= Cardinality(Failed')
    BY <1>4, <1>8
  <2>2. QED
    BY <1>1, <1>4, <2>1
<1>9. QED
  BY <1>5, <1>6, <1>7, <1>8

\* A worker that goes on, or is done with its file, takes no file out of a set.
LEMMA SetsMove ==
  ASSUME Typed, NEW w \in Worker, NEW from, NEW to, Moves(w, from, to),
         job[w].phase \notin {"ncs", "ndb"} \/ job'[w].phase \in {"ncs", "ndb"}
  PROVE  Succeeded \subseteq Succeeded' /\ Skipped \subseteq Skipped' /\ Failed \subseteq Failed'
<1>1. fate' = fate
  BY DEF Moves
<1>2. ASSUME NEW f \in Succeeded PROVE f \in Succeeded'
  <2>1. CASE fate[f] \in {"built", "validated", "raised"}
    BY <1>1, <2>1 DEF Succeeded
  <2>2. ASSUME NEW v \in Worker, job[v].phase \in {"ncs", "ndb"}, job[v].file = f
        PROVE  f \in Succeeded'
    <3>1. job'[v].phase \in {"ncs", "ndb"} /\ job'[v].file = f
      BY <2>2 DEF Moves
    <3>2. QED
      BY <3>1 DEF Succeeded
  <2>3. QED
    BY <2>1, <2>2 DEF Succeeded
<1>3. QED
  BY <1>1, <1>2 DEF Skipped, Failed

LEMMA SetsFinish ==
  ASSUME Typed, FilesInv, NEW w \in Worker, Busy(w), NEW from, NEW what, Finishes(w, from, what),
         job[w].phase \notin {"ncs", "ndb"} \/ what \in {"built", "raised"}
  PROVE  Succeeded \subseteq Succeeded' /\ Skipped \subseteq Skipped' /\ Failed \subseteq Failed'
<1>1. /\ job[w].file \in File /\ fate[job[w].file] = "pending" /\ fate'[job[w].file] = what
      /\ \A f \in File : f # job[w].file => fate'[f] = fate[f]
  BY DEF Finishes, FilesInv, Placed
<1>2. \A f \in File : fate[f] # "pending" => fate'[f] = fate[f]
  BY <1>1
<1>3. ASSUME NEW f \in Succeeded PROVE f \in Succeeded'
  <2>1. CASE fate[f] \in {"built", "validated", "raised"}
    BY <1>2, <2>1 DEF Succeeded
  <2>2. ASSUME NEW v \in Worker, job[v].phase \in {"ncs", "ndb"}, job[v].file = f
        PROVE  f \in Succeeded'
    <3>1. CASE v = w
      BY <1>1, <2>2, <3>1 DEF Succeeded
    <3>2. CASE v # w
      <4>1. job'[v] = job[v]
        BY <3>2 DEF Finishes
      <4>2. QED
        BY <2>2, <4>1 DEF Succeeded
    <3>3. QED
      BY <3>1, <3>2
  <2>3. QED
    BY <2>1, <2>2 DEF Succeeded
<1>4. QED
  BY <1>2, <1>3 DEF Skipped, Failed

\* The file of a worker has not been counted yet, but for a success that is
\* still to be written.
LEMMA NotCounted ==
  ASSUME FilesInv, NEW w \in Worker, Busy(w)
  PROVE  /\ job[w].file \notin Skipped /\ job[w].file \notin Failed
         /\ job[w].phase \in {"ncs", "ndb"} \/ job[w].file \notin Succeeded
<1>1. fate[job[w].file] = "pending"
  BY DEF FilesInv, Placed
<1>2. \A v \in Worker : job[v].phase \in {"ncs", "ndb"} /\ job[v].file = job[w].file => v = w
  BY DEF FilesInv, Placed, Busy
<1>3. QED
  BY <1>1, <1>2 DEF Skipped, Failed, Succeeded

CountInv == Tallied /\ Told

LEMMA CountInit ==
  ASSUME ScriptCompAssumption, Init
  PROVE  CountInv
<1>1. Cardinality(Succeeded) \in Nat /\ Cardinality(Skipped) \in Nat /\ Cardinality(Failed) \in Nat
  BY SetsFinite, FS_CardinalityType
<1>2. QED
  BY <1>1 DEF Init, CountInv, Tallied, Told

\* A step without a verdict.
LEMMA CountMoves ==
  ASSUME ScriptCompAssumption, Typed, CountInv,
         NEW w \in Worker, NEW from, NEW to, Moves(w, from, to),
         job[w].phase \notin {"ncs", "ndb"} \/ job'[w].phase \in {"ncs", "ndb"},
         UNCHANGED counters
  PROVE  CountInv'
<1>1. /\ successes <= Cardinality(Succeeded') /\ skips <= Cardinality(Skipped')
      /\ errors <= Cardinality(Failed')
  BY SetsMove, TallyKept DEF CountInv
<1>2. fate' = fate
  BY DEF Moves
<1>3. QED
  BY <1>1, <1>2 DEF CountInv, Tallied, Told, counters

\* An error, by verdict or by exception.
LEMMA CountError ==
  ASSUME ScriptCompAssumption, Typed, FilesInv, CountInv,
         NEW w \in Worker, Busy(w), NEW from, NEW what \in {"raised", "error"},
         Finishes(w, from, what),
         job[w].phase \notin {"ncs", "ndb"} \/ what = "raised",
         errors' = errors + 1, UNCHANGED <<successes, skips>>
  PROVE  CountInv'
<1>1. Succeeded \subseteq Succeeded' /\ Skipped \subseteq Skipped' /\ Failed \subseteq Failed'
  BY SetsFinish
<1>2. job[w].file \in Failed' /\ job[w].file \notin Failed
  <2>1. job[w].file \in File /\ fate'[job[w].file] = what
    BY DEF Finishes
  <2>2. QED
    BY <2>1, NotCounted DEF Failed
<1>3. /\ successes <= Cardinality(Succeeded') /\ skips <= Cardinality(Skipped')
      /\ errors + 1 <= Cardinality(Failed')
  BY <1>1, <1>2, TallyKept DEF CountInv
<1>4. errors' # 0
  BY DEF Typed
<1>5. QED
  BY <1>3, <1>4 DEF CountInv, Tallied, Told

\* The end of a file that is no error.
LEMMA FineEnd ==
  ASSUME Typed, Told, NEW w \in Worker, NEW from,
         NEW what \in {"built", "validated", "skipped"}, Finishes(w, from, what),
         UNCHANGED <<errors, aborted>>
  PROVE  Told'
<1>1. /\ job[w].file \in File /\ fate'[job[w].file] = what
      /\ \A f \in File : f # job[w].file => fate'[f] = fate[f]
  BY DEF Finishes
<1>2. QED
  BY <1>1 DEF Told

LEMMA CountTake ==
  ASSUME ScriptCompAssumption, Typed, FilesInv, CountInv,
         NEW w \in Worker, NEW f \in File, Take(w, f)
  PROVE  CountInv'
<1>1. UNCHANGED counters /\ fate[f] = "pending"
  BY TakeEffect DEF Take, FilesInv, Placed
<1>2. CASE job' = job /\ fate' = [fate EXCEPT ![f] = "aborted"] /\ aborted = TRUE
  <2>1. fate'[f] = "aborted" /\ \A g \in File : g # f => fate'[g] = fate[g]
    BY <1>2 DEF Typed
  <2>2. Succeeded \subseteq Succeeded' /\ Skipped \subseteq Skipped' /\ Failed \subseteq Failed'
    BY <1>1, <1>2, <2>1 DEF Succeeded, Skipped, Failed
  <2>3. errors # 0
    BY <1>2 DEF CountInv, Told
  <2>4. QED
    BY <1>1, <2>2, <2>3, TallyKept DEF CountInv, Tallied, Told, counters
<1>3. CASE fate' = fate
  <2>1. \A v \in Worker : job[v].phase \in {"ncs", "ndb"} => job'[v] = job[v]
    BY TakeEffect
  <2>2. Succeeded \subseteq Succeeded' /\ Skipped \subseteq Skipped' /\ Failed \subseteq Failed'
    BY <1>3, <2>1 DEF Succeeded, Skipped, Failed
  <2>3. QED
    BY <1>1, <1>3, <2>2, TallyKept DEF CountInv, Tallied, Told, counters
<1>4. QED
  BY <1>2, <1>3, TakeEffect

LEMMA CountSuccess ==
  ASSUME ScriptCompAssumption, Typed, FilesInv, CountInv, NEW w \in Worker, Success(w)
  PROVE  CountInv'
<1>1. /\ Busy(w) /\ job[w].phase = "compile"
      /\ successes' = successes + 1 /\ UNCHANGED <<skips, errors, aborted>>
  BY DEF Success, Compiled, At, Busy
<1>2. job[w].file \notin Succeeded
  BY <1>1, NotCounted
<1>3. CASE Moves(w, {"compile"}, {"ncs"})
  <2>1. Succeeded \subseteq Succeeded' /\ Skipped \subseteq Skipped' /\ Failed \subseteq Failed'
    BY <1>1, <1>3, SetsMove
  <2>2. job[w].file \in Succeeded'
    BY <1>3 DEF Moves, Succeeded
  <2>3. /\ successes + 1 <= Cardinality(Succeeded') /\ skips <= Cardinality(Skipped')
        /\ errors <= Cardinality(Failed')
    BY <1>2, <2>1, <2>2, TallyKept DEF CountInv
  <2>4. Told'
    BY <1>1, <1>3 DEF CountInv, Told, Moves
  <2>5. QED
    BY <1>1, <2>3, <2>4 DEF CountInv, Tallied
<1>4. CASE Finishes(w, {"compile"}, "validated")
  <2>1. Succeeded \subseteq Succeeded' /\ Skipped \subseteq Skipped' /\ Failed \subseteq Failed'
    BY <1>1, <1>4, SetsFinish
  <2>2. job[w].file \in Succeeded'
    BY <1>4 DEF Finishes, Succeeded
  <2>3. /\ successes + 1 <= Cardinality(Succeeded') /\ skips <= Cardinality(Skipped')
        /\ errors <= Cardinality(Failed')
    BY <1>2, <2>1, <2>2, TallyKept DEF CountInv
  <2>4. Told'
    BY <1>1, <1>4, FineEnd DEF CountInv
  <2>5. QED
    BY <1>1, <2>3, <2>4 DEF CountInv, Tallied
<1>5. QED
  BY <1>3, <1>4, SuccessMoves

LEMMA CountSkip ==
  ASSUME ScriptCompAssumption, Typed, FilesInv, CountInv, NEW w \in Worker, Skip(w)
  PROVE  CountInv'
<1>1. /\ Busy(w) /\ job[w].phase = "compile" /\ Finishes(w, {"compile"}, "skipped")
      /\ skips' = skips + 1 /\ UNCHANGED <<successes, errors, aborted>>
  BY EndingSteps DEF Skip, Compiled, At, Busy
<1>2. Succeeded \subseteq Succeeded' /\ Skipped \subseteq Skipped' /\ Failed \subseteq Failed'
  BY <1>1, SetsFinish
<1>3. job[w].file \in Skipped' /\ job[w].file \notin Skipped
  BY <1>1, NotCounted DEF Finishes, Skipped
<1>4. /\ successes <= Cardinality(Succeeded') /\ skips + 1 <= Cardinality(Skipped')
      /\ errors <= Cardinality(Failed')
  BY <1>2, <1>3, TallyKept DEF CountInv
<1>5. Told'
  BY <1>1, FineEnd DEF CountInv
<1>6. QED
  BY <1>1, <1>4, <1>5 DEF CountInv, Tallied

LEMMA CountStep ==
  ASSUME ScriptCompAssumption, Typed, MessagesInv, FilesInv, CountInv, [Next]_vars
  PROVE  CountInv'
<1>1. ASSUME UNCHANGED <<job, fate, counters>> PROVE CountInv'
  <2>1. Succeeded' = Succeeded /\ Skipped' = Skipped /\ Failed' = Failed
    BY <1>1 DEF Succeeded, Skipped, Failed
  <2>2. QED
    BY <1>1, <2>1 DEF CountInv, Tallied, Told, counters
<1>2. CASE UNCHANGED vars
  BY <1>1, <1>2 DEF vars, work
<1>3. CASE Serve
  BY <1>1, <1>3 DEF Serve, work
<1>4. CASE Quit
  BY <1>1, <1>4 DEF Quit, work
<1>5. ASSUME NEW w \in Worker, NEW f \in File, Take(w, f) PROVE CountInv'
  BY <1>5, CountTake
<1>6. ASSUME NEW w \in Worker, Prepare(w) PROVE CountInv'
  <2>1. Moves(w, {"prepare"}, {"compile"}) /\ UNCHANGED counters
    BY <1>6, PrepareMoves DEF Prepare
  <2>2. job[w].phase \notin {"ncs", "ndb"}
    BY <2>1 DEF Moves
  <2>3. QED
    BY <2>1, <2>2, CountMoves
<1>7. ASSUME NEW w \in Worker, Request(w) PROVE CountInv'
  <2>1. Moves(w, {job[w].phase}, {job[w].phase}) /\ UNCHANGED counters
    BY <1>7, RequestMoves DEF Request
  <2>2. job'[w].phase = job[w].phase
    BY <2>1 DEF Moves
  <2>3. QED
    BY <2>1, <2>2, CountMoves
<1>8. ASSUME NEW w \in Worker, Receive(w) PROVE CountInv'
  <2>1. UNCHANGED counters
    BY <1>8 DEF Receive
  <2>2. job[w].phase \notin {"ncs", "ndb"}
    BY <1>8, ReceiveMoves DEF Moves
  <2>3. QED
    BY <1>8, <2>1, <2>2, ReceiveMoves, CountMoves
<1>9. ASSUME NEW w \in Worker, Success(w) PROVE CountInv'
  BY <1>9, CountSuccess
<1>10. ASSUME NEW w \in Worker, Skip(w) PROVE CountInv'
  BY <1>10, CountSkip
<1>11. ASSUME NEW w \in Worker, WriteNcs(w) PROVE CountInv'
  <2>1. Moves(w, {"ncs"}, {"ndb"}) /\ UNCHANGED counters
    BY <1>11, WriteNcsMoves DEF WriteNcs
  <2>2. job'[w].phase \in {"ncs", "ndb"}
    BY <2>1 DEF Moves
  <2>3. QED
    BY <2>1, <2>2, CountMoves
<1>12. ASSUME NEW w \in Worker, PrepareFails(w) PROVE CountInv'
  <2>1. /\ Finishes(w, {"prepare"}, "raised") /\ Busy(w)
        /\ errors' = errors + 1 /\ UNCHANGED <<successes, skips>>
    BY <1>12, EndingSteps DEF PrepareFails, Counted, At, Busy
  <2>2. QED
    BY <2>1, CountError
<1>13. ASSUME NEW w \in Worker, Error(w) PROVE CountInv'
  <2>1. /\ Finishes(w, {"compile", "broken"}, "error") /\ Busy(w)
        /\ job[w].phase \notin {"ncs", "ndb"}
        /\ errors' = errors + 1 /\ UNCHANGED <<successes, skips>>
    BY <1>13, EndingSteps DEF Error, Compiled, At, Busy
  <2>2. QED
    BY <2>1, CountError
<1>14. ASSUME NEW w \in Worker, WriteNdb(w) PROVE CountInv'
  <2>1. Finishes(w, {"ndb"}, "built") /\ Busy(w) /\ UNCHANGED counters
    BY <1>14, EndingSteps DEF WriteNdb, At, Busy
  <2>2. Succeeded \subseteq Succeeded' /\ Skipped \subseteq Skipped' /\ Failed \subseteq Failed'
    BY <2>1, SetsFinish
  <2>3. Told'
    BY <2>1, FineEnd DEF CountInv, counters
  <2>4. QED
    BY <2>1, <2>2, <2>3, TallyKept DEF CountInv, Tallied, counters
<1>15. ASSUME NEW w \in Worker, WriteFails(w) PROVE CountInv'
  <2>1. /\ Finishes(w, {"ncs", "ndb"}, "raised") /\ Busy(w)
        /\ errors' = errors + 1 /\ UNCHANGED <<successes, skips>>
    BY <1>15, EndingSteps DEF WriteFails, Counted, At, Busy
  <2>2. QED
    BY <2>1, CountError
<1>16. QED
  BY <1>2, <1>3, <1>4, <1>5, <1>6, <1>7, <1>8, <1>9, <1>10, <1>11, <1>12, <1>13, <1>14, <1>15
  DEF Next, Step

-----------------------------------------------------------------------------
(* Artifacts.                                                              *)

\* Artifacts are written next to the sources: no -d, or it names that place.
WrittenBeside == \A f \in File : OutPlace(f) = SourcePlace(f)

NdbInv == NdbBelongs /\ Removed

\* No step brings back an old debug file.
LEMMA NeverOldAgain ==
  ASSUME ScriptCompAssumption, Typed, [Next]_vars
  PROVE  \A p \in Places : ndb'[p] = Old => ndb[p] = Old
<1>1. ASSUME NEW w \in Worker, Prepare(w) PROVE \A p \in Places : ndb'[p] = Old => ndb[p] = Old
  BY <1>1 DEF Prepare, RemovedNdb, Typed, ScriptCompAssumption
<1>2. ASSUME NEW w \in Worker, WriteNdb(w) PROVE \A p \in Places : ndb'[p] = Old => ndb[p] = Old
  <2>1. job[w].file \in File
    BY <1>2, BusyHasFile DEF WriteNdb, At, Busy
  <2>2. job[w].file # Old
    BY <2>1 DEF ScriptCompAssumption
  <2>3. QED
    BY <1>2, <2>2 DEF WriteNdb, Typed
<1>3. ASSUME NEW w \in Worker, WriteFails(w) PROVE \A p \in Places : ndb'[p] = Old => ndb[p] = Old
  BY <1>3 DEF WriteFails, Typed, ScriptCompAssumption
<1>4. CASE UNCHANGED ndb
  BY <1>4
<1>5. CASE UNCHANGED vars \/ Serve \/ Quit
  BY <1>4, <1>5 DEF vars, artifacts, Serve, Quit
<1>6. ASSUME NEW w \in Worker, (\E f \in File : Take(w, f)) \/ PrepareFails(w) \/ Request(w)
                               \/ Receive(w) \/ Success(w) \/ Skip(w) \/ Error(w) \/ WriteNcs(w)
      PROVE  UNCHANGED ndb
  BY <1>6 DEF Take, PrepareFails, Request, Receive, Success, Skip, Error, WriteNcs, artifacts
<1>7. QED
  BY <1>1, <1>2, <1>3, <1>4, <1>5, <1>6 DEF Next, Step

\* A worker past the preparation has none beside its source.
LEMMA RemovedStep ==
  ASSUME ScriptCompAssumption, Typed, MessagesInv, Removed, [Next]_vars
  PROVE  Removed'
<1>1. \A p \in Places : ndb'[p] = Old => ndb[p] = Old
  BY NeverOldAgain
<1>2. ASSUME NEW w \in Worker, NEW from, NEW to, Moves(w, from, to),
             from \subseteq {"compile", "broken", "ncs", "ndb"}
             \/ to \cap {"compile", "broken", "ncs", "ndb"} = {}
      PROVE  Removed'
  <2> SUFFICES ASSUME NEW v \in Worker, job'[v].phase \in {"compile", "broken", "ncs", "ndb"}
               PROVE  ndb'[SourcePlace(job'[v].file)] # Old
    BY DEF Removed
  <2>1. job[v].phase \in {"compile", "broken", "ncs", "ndb"} /\ job'[v].file = job[v].file
    BY <1>2 DEF Moves
  <2>2. SourcePlace(job[v].file) \in Places
    BY <2>1, BusyHasFile, PlacesOf DEF Busy
  <2>3. QED
    BY <1>1, <2>1, <2>2 DEF Removed
<1>3. ASSUME NEW w \in Worker, NEW from, NEW what, Finishes(w, from, what) PROVE Removed'
  <2> SUFFICES ASSUME NEW v \in Worker, job'[v].phase \in {"compile", "broken", "ncs", "ndb"}
               PROVE  ndb'[SourcePlace(job'[v].file)] # Old
    BY DEF Removed
  <2>1. job'[v] = job[v]
    BY <1>3 DEF Finishes
  <2>2. SourcePlace(job[v].file) \in Places
    BY <2>1, BusyHasFile, PlacesOf DEF Busy
  <2>3. QED
    BY <1>1, <2>1, <2>2 DEF Removed
<1>4. CASE UNCHANGED vars \/ Serve \/ Quit
  BY <1>4 DEF vars, work, artifacts, Serve, Quit, Removed
<1>5. ASSUME NEW w \in Worker, NEW f \in File, Take(w, f) PROVE Removed'
  <2>1. ndb' = ndb
    BY <1>5 DEF Take, artifacts
  <2>2. \A v \in Worker : job'[v].phase \in {"compile", "broken", "ncs", "ndb"} => job'[v] = job[v]
    BY <1>5, TakeEffect
  <2>3. QED
    BY <2>1, <2>2 DEF Removed
<1>6. ASSUME NEW w \in Worker, Prepare(w) PROVE Removed'
  <2>1. /\ Moves(w, {"prepare"}, {"compile"}) /\ job[w].file \in File
        /\ ndb' = [ndb EXCEPT ![SourcePlace(job[w].file)] = None]
    BY <1>6, PrepareMoves DEF Prepare, RemovedNdb, Moves
  <2>2. None # Old /\ ndb'[SourcePlace(job[w].file)] = None
    BY <2>1, PlacesOf DEF Typed, ScriptCompAssumption
  <2> SUFFICES ASSUME NEW v \in Worker, job'[v].phase \in {"compile", "broken", "ncs", "ndb"}
               PROVE  ndb'[SourcePlace(job'[v].file)] # Old
    BY DEF Removed
  <2>3. CASE v = w
    BY <2>1, <2>2, <2>3 DEF Moves
  <2>4. CASE v # w
    <3>1. job'[v] = job[v]
      BY <2>1, <2>4 DEF Moves
    <3>2. SourcePlace(job[v].file) \in Places
      BY <3>1, BusyHasFile, PlacesOf DEF Busy
    <3>3. QED
      BY <1>1, <3>1, <3>2 DEF Removed
  <2>5. QED
    BY <2>3, <2>4
<1>7. ASSUME NEW w \in Worker, Request(w) PROVE Removed'
  <2>1. Moves(w, {job[w].phase}, {job[w].phase})
    BY <1>7, RequestMoves
  <2>2. QED
    BY <1>2, <2>1
<1>8. ASSUME NEW w \in Worker, Receive(w) PROVE Removed'
  BY <1>2, <1>8, ReceiveMoves
<1>9. ASSUME NEW w \in Worker, Success(w) PROVE Removed'
  BY <1>2, <1>3, <1>9, SuccessMoves
<1>10. ASSUME NEW w \in Worker, WriteNcs(w) PROVE Removed'
  <2>1. Moves(w, {"ncs"}, {"ndb"})
    BY <1>10, WriteNcsMoves
  <2>2. QED
    BY <1>2, <2>1
<1>11. ASSUME NEW w \in Worker,
              PrepareFails(w) \/ Skip(w) \/ Error(w) \/ WriteNdb(w) \/ WriteFails(w)
       PROVE  Removed'
  BY <1>3, <1>11, EndingSteps
<1>12. QED
  BY <1>4, <1>5, <1>6, <1>7, <1>8, <1>9, <1>10, <1>11 DEF Next, Step

\* A script appears where the debug file has been removed before.
LEMMA NdbStep ==
  ASSUME ScriptCompAssumption, WrittenBeside, Typed, MessagesInv, NdbInv, [Next]_vars
  PROVE  NdbInv'
<1>1. Removed'
  BY RemovedStep DEF NdbInv
<1>2. \A p \in Places : ndb'[p] = Old => ndb[p] = Old
  BY NeverOldAgain
<1>3. \A p \in Places : ncs'[p] \in File =>
        \/ ncs[p] \in File
        \/ \E w \in Worker : /\ job[w].phase \in {"ncs", "ndb"} /\ job[w].file \in File
                             /\ p = OutPlace(job[w].file)
  <2>1. ASSUME UNCHANGED ncs
        PROVE  \A p \in Places : ncs'[p] \in File => ncs[p] \in File
    BY <2>1
  <2>2. CASE UNCHANGED vars \/ Serve \/ Quit
    BY <2>1, <2>2 DEF vars, artifacts, Serve, Quit
  <2>3. ASSUME NEW w \in Worker, (\E f \in File : Take(w, f)) \/ Prepare(w) \/ PrepareFails(w)
                                 \/ Request(w) \/ Receive(w) \/ Success(w) \/ Skip(w)
                                 \/ Error(w) \/ WriteNdb(w)
        PROVE  UNCHANGED ncs
    BY <2>3 DEF Take, Prepare, PrepareFails, Request, Receive, Success, Skip, Error, WriteNdb,
                artifacts
  <2>4. ASSUME NEW w \in Worker, WriteNcs(w) \/ WriteFails(w), NEW p \in Places, p # OutPlace(job[w].file)
        PROVE  ncs'[p] = ncs[p]
    BY <2>4 DEF WriteNcs, WriteFails, Typed
  <2>5. ASSUME NEW w \in Worker, WriteNcs(w) \/ WriteFails(w)
        PROVE  job[w].phase \in {"ncs", "ndb"} /\ job[w].file \in File
    <3>1. job[w].phase \in {"ncs", "ndb"}
      BY <2>5 DEF WriteNcs, WriteFails, At
    <3>2. QED
      BY <3>1, BusyHasFile DEF Busy
  <2>6. QED
    BY <2>1, <2>2, <2>3, <2>4, <2>5 DEF Next, Step
<1>4. NdbBelongs'
  <2> SUFFICES ASSUME NEW p \in Places, ncs'[p] \in File
               PROVE  ndb'[p] # Old
    BY DEF NdbBelongs, Places, SourcePlace, OutPlace
  <2>1. CASE ncs[p] \in File
    BY <1>2, <2>1 DEF NdbInv, NdbBelongs
  <2>2. ASSUME NEW w \in Worker, job[w].phase \in {"ncs", "ndb"}, job[w].file \in File,
               p = OutPlace(job[w].file)
        PROVE  ndb'[p] # Old
    <3>1. ndb[p] # Old
      BY <2>2 DEF NdbInv, Removed, WrittenBeside
    <3>2. QED
      BY <1>2, <3>1
  <2>3. QED
    BY <1>3, <2>1, <2>2
<1>5. QED
  BY <1>1, <1>4 DEF NdbInv

LEMMA NdbInit ==
  ASSUME ScriptCompAssumption, Init
  PROVE  NdbInv
BY DEF Init, ScriptCompAssumption, NdbInv, NdbBelongs, Removed, Idle, Job

-----------------------------------------------------------------------------
(* What was built is still there.                                          *)

\* No two files have one place for their artifacts: no -d, or no two files of
\* one name.
PlacesApart == \A f, g \in File : OutPlace(f) = OutPlace(g) => f = g

\* Then the debug file that goes with a source is no other file's artifact.
LEMMA SourceNoOther ==
  ASSUME PlacesApart, NEW f \in File, NEW g \in File, SourcePlace(g) = OutPlace(f)
  PROVE  g = f
<1>1. OutPlace(g) = OutPlace(f)
  BY DEF SourcePlace, OutPlace
<1>2. QED
  BY <1>1 DEF PlacesApart

LEMMA WrittenStep ==
  ASSUME ScriptCompAssumption, PlacesApart, Typed, MessagesInv, FilesInv, Written, [Next]_vars
  PROVE  Written'
<1> SUFFICES ASSUME Simulate = FALSE PROVE Written'
  BY DEF Written, ScriptCompAssumption
<1>1. ASSUME UNCHANGED <<ncs, ndb, fate>>,
             \A w \in Worker : job'[w].phase = "ndb" =>
               job[w].phase = "ndb" /\ job'[w].file = job[w].file
      PROVE  Written'
  BY <1>1 DEF Written
<1>2. ASSUME NEW w \in Worker, NEW from, NEW what, Finishes(w, from, what), what # "built",
             UNCHANGED <<ncs, ndb>>
      PROVE  Written'
  BY <1>2 DEF Finishes, Written
<1>3. CASE UNCHANGED vars \/ Serve \/ Quit
  BY <1>1, <1>3 DEF vars, work, artifacts, Serve, Quit
<1>4. ASSUME NEW w \in Worker, NEW f \in File, Take(w, f) PROVE Written'
  <2>1. UNCHANGED <<ncs, ndb>>
    BY <1>4 DEF Take, artifacts
  <2>2. \A v \in Worker : job'[v].phase = "ndb" => job'[v] = job[v]
    BY <1>4, TakeEffect
  <2>3. \A g \in File : fate'[g] = "built" => fate[g] = "built"
    <3>1. fate' = fate \/ fate' = [fate EXCEPT ![f] = "aborted"]
      BY <1>4, TakeEffect
    <3>2. QED
      BY <3>1 DEF Typed
  <2>4. QED
    BY <2>1, <2>2, <2>3 DEF Written
<1>5. ASSUME NEW w \in Worker, Prepare(w) PROVE Written'
  <2> DEFINE g == job[w].file
  <2>1. /\ Moves(w, {"prepare"}, {"compile"}) /\ g \in File /\ fate' = fate /\ ncs' = ncs
        /\ ndb' = [ndb EXCEPT ![SourcePlace(g)] = None]
    BY <1>5, PrepareMoves DEF Prepare, RemovedNdb, Moves
  <2>2. fate[g] = "pending"
    BY <2>1 DEF FilesInv, Placed, Busy, Moves
  <2>3. \A v \in Worker : job'[v].phase = "ndb" => job'[v] = job[v]
    BY <2>1 DEF Moves
  <2>4. ASSUME NEW f \in File, fate[f] = "built" PROVE ndb'[OutPlace(f)] = ndb[OutPlace(f)]
    <3>1. SourcePlace(g) # OutPlace(f)
      BY <2>1, <2>2, <2>4, SourceNoOther
    <3>2. QED
      BY <2>1, <3>1, PlacesOf DEF Typed
  <2>5. QED
    BY <2>1, <2>3, <2>4 DEF Written
<1>6. ASSUME NEW w \in Worker, Request(w) PROVE Written'
  <2>1. Moves(w, {job[w].phase}, {job[w].phase}) /\ UNCHANGED <<ncs, ndb, fate>>
    BY <1>6, RequestMoves DEF Request, artifacts
  <2>2. QED
    BY <1>1, <2>1 DEF Moves
<1>7. ASSUME NEW w \in Worker, Receive(w) PROVE Written'
  <2>1. UNCHANGED <<ncs, ndb, fate>>
    BY <1>7 DEF Receive, artifacts
  <2>2. CASE Moves(w, {"language"}, {"prepare"})
    BY <1>1, <2>1, <2>2 DEF Moves
  <2>3. CASE Moves(w, {"compile"}, {"compile", "broken"})
    BY <1>1, <2>1, <2>3 DEF Moves
  <2>4. QED
    BY <1>7, <2>2, <2>3, ReceiveMoves
<1>8. ASSUME NEW w \in Worker, Success(w) PROVE Written'
  <2>1. UNCHANGED <<ncs, ndb>>
    BY <1>8 DEF Success, artifacts
  <2>2. CASE Moves(w, {"compile"}, {"ncs"})
    BY <1>1, <2>1, <2>2 DEF Moves
  <2>3. CASE Finishes(w, {"compile"}, "validated")
    BY <1>2, <2>1, <2>3
  <2>4. QED
    BY <1>8, <2>2, <2>3, SuccessMoves
<1>9. ASSUME NEW w \in Worker, PrepareFails(w) \/ Skip(w) \/ Error(w) PROVE Written'
  <2>1. UNCHANGED <<ncs, ndb>>
    BY <1>9 DEF PrepareFails, Skip, Error, artifacts
  <2>2. QED
    BY <1>2, <1>9, <2>1, EndingSteps
<1>10. ASSUME NEW w \in Worker, NEW v \in Worker, v # w, Busy(v), Busy(w)
       PROVE  OutPlace(job[v].file) # OutPlace(job[w].file)
  <2>1. job[v].file # job[w].file /\ job[v].file \in File /\ job[w].file \in File
    BY <1>10, BusyHasFile DEF FilesInv, Placed
  <2>2. QED
    BY <2>1 DEF PlacesApart
<1>11. ASSUME NEW w \in Worker, Busy(w), NEW f \in File, fate[f] = "built"
       PROVE  OutPlace(f) # OutPlace(job[w].file)
  <2>1. f # job[w].file /\ job[w].file \in File
    BY <1>11, BusyHasFile DEF FilesInv, Placed
  <2>2. QED
    BY <2>1 DEF PlacesApart
<1>12. ASSUME NEW w \in Worker, WriteNcs(w) PROVE Written'
  <2> DEFINE g == job[w].file
  <2>1. /\ Moves(w, {"ncs"}, {"ndb"}) /\ Busy(w) /\ g \in File /\ fate' = fate /\ ndb' = ndb
        /\ ncs' = [ncs EXCEPT ![OutPlace(g)] = g]
    BY <1>12, WriteNcsMoves DEF WriteNcs, At, Busy, Moves
  <2>2. /\ OutPlace(g) \in Places /\ ncs'[OutPlace(g)] = g
        /\ \A p \in Places : p # OutPlace(g) => ncs'[p] = ncs[p]
    BY <2>1, PlacesOf DEF Typed
  <2>3. ASSUME NEW v \in Worker, job'[v].phase = "ndb"
        PROVE  ncs'[OutPlace(job'[v].file)] = job'[v].file
    <3>1. CASE v = w
      BY <2>1, <2>2, <3>1 DEF Moves
    <3>2. CASE v # w
      <4>1. job'[v] = job[v] /\ Busy(v) /\ job[v].file \in File
        BY <2>1, <2>3, <3>2, BusyHasFile DEF Moves, Busy
      <4>2. OutPlace(job[v].file) # OutPlace(g) /\ OutPlace(job[v].file) \in Places
        BY <1>10, <2>1, <3>2, <4>1, PlacesOf
      <4>3. QED
        BY <2>2, <2>3, <4>1, <4>2 DEF Written
    <3>3. QED
      BY <3>1, <3>2
  <2>4. ASSUME NEW f \in File, fate[f] = "built"
        PROVE  ncs'[OutPlace(f)] = f /\ (Debug => ndb[OutPlace(f)] = f)
    <3>1. OutPlace(f) # OutPlace(g) /\ OutPlace(f) \in Places
      BY <1>11, <2>1, <2>4, PlacesOf
    <3>2. QED
      BY <2>2, <2>4, <3>1 DEF Written
  <2>5. QED
    BY <2>1, <2>3, <2>4 DEF Written
<1>13. ASSUME NEW w \in Worker, WriteNdb(w) PROVE Written'
  <2> DEFINE g == job[w].file
  <2>1. /\ Finishes(w, {"ndb"}, "built") /\ Busy(w) /\ g \in File /\ ncs' = ncs
        /\ job[w].phase = "ndb"
        /\ ndb' = IF Debug THEN [ndb EXCEPT ![OutPlace(g)] = g] ELSE ndb
    BY <1>13, EndingSteps DEF WriteNdb, At, Busy, Finishes
  <2>2. /\ OutPlace(g) \in Places
        /\ Debug => ndb'[OutPlace(g)] = g
        /\ \A p \in Places : p # OutPlace(g) => ndb'[p] = ndb[p]
    BY <2>1, PlacesOf DEF Typed
  <2>3. \A v \in Worker : job'[v].phase = "ndb" => job'[v] = job[v]
    BY <2>1 DEF Finishes
  <2>4. ASSUME NEW f \in File, fate'[f] = "built"
        PROVE  ncs[OutPlace(f)] = f /\ (Debug => ndb'[OutPlace(f)] = f)
    <3>1. CASE f = g
      BY <2>1, <2>2, <3>1 DEF Written
    <3>2. CASE f # g
      <4>1. fate[f] = "built"
        BY <2>1, <2>4, <3>2 DEF Finishes
      <4>2. OutPlace(f) # OutPlace(g) /\ OutPlace(f) \in Places
        BY <1>11, <2>1, <4>1, PlacesOf
      <4>3. QED
        BY <2>2, <4>1, <4>2 DEF Written
    <3>3. QED
      BY <3>1, <3>2
  <2>5. QED
    BY <2>1, <2>3, <2>4 DEF Written
<1>14. ASSUME NEW w \in Worker, WriteFails(w) PROVE Written'
  <2> DEFINE g == job[w].file
  <2>1. Finishes(w, {"ncs", "ndb"}, "raised") /\ Busy(w)
    BY <1>14, EndingSteps DEF WriteFails, At, Busy
  <2>2. \A p \in Places : p # OutPlace(g) => ncs'[p] = ncs[p] /\ ndb'[p] = ndb[p]
    BY <1>14 DEF WriteFails, Typed
  <2>3. ASSUME NEW v \in Worker, job'[v].phase = "ndb"
        PROVE  ncs'[OutPlace(job'[v].file)] = job'[v].file
    <3>1. v # w /\ job'[v] = job[v]
      BY <2>1, <2>3 DEF Finishes
    <3>2. Busy(v) /\ job[v].file \in File
      BY <2>3, <3>1, BusyHasFile DEF Busy
    <3>3. OutPlace(job[v].file) # OutPlace(g) /\ OutPlace(job[v].file) \in Places
      BY <1>10, <2>1, <3>1, <3>2, PlacesOf
    <3>4. QED
      BY <2>2, <2>3, <3>1, <3>3 DEF Written
  <2>4. ASSUME NEW f \in File, fate'[f] = "built"
        PROVE  ncs'[OutPlace(f)] = f /\ (Debug => ndb'[OutPlace(f)] = f)
    <3>1. fate[f] = "built"
      BY <2>1, <2>4 DEF Finishes
    <3>2. OutPlace(f) # OutPlace(g) /\ OutPlace(f) \in Places
      BY <1>11, <2>1, <3>1, PlacesOf
    <3>3. QED
      BY <2>2, <3>1, <3>2 DEF Written
  <2>5. QED
    BY <2>3, <2>4 DEF Written
<1>15. QED
  BY <1>3, <1>4, <1>5, <1>6, <1>7, <1>8, <1>9, <1>12, <1>13, <1>14 DEF Next, Step

LEMMA WrittenInit ==
  ASSUME Init
  PROVE  Written
BY DEF Init, Written, Idle, Job

-----------------------------------------------------------------------------
(* What a request finds.                                                   *)

\* A list that answers what the base containers answer, whatever the order.
AnswersLikeBase(cs) == \A n \in STRING : Lookup(cs, n) = Lookup(Base, n)

\* Setting up a search path and taking it down leaves the same containers.
LEMMA SameContainers ==
  ASSUME ScriptCompAssumption, BaseComplete, NEW p \in SearchPath
  PROVE  LET left == WithoutPath(WithPath(rm, p), p) IN
         left \in Seq(ToSet(Base)) /\ IsInjective(left) /\ ToSet(left) = ToSet(Base)
<1>1. CASE p = <<>>
  BY <1>1 DEF WithPath, WithoutPath, BaseComplete
<1>2. ASSUME NEW f \in File, p = <<DirOf[f], f>>
      PROVE  LET left == WithoutPath(WithPath(rm, p), p) IN
             left \in Seq(ToSet(Base)) /\ IsInjective(left) /\ ToSet(left) = ToSet(Base)
  <2> DEFINE d == DirOf[f]
             a == Added(rm, d)
             b == Added(a, f)
             e == Deleted(b, d)
             l == Deleted(e, f)
             S == ToSet(Base) \cup {d, f}
  <2>1. d \in Dir /\ d # f /\ d \notin ToSet(Base) /\ f \notin ToSet(Base)
    BY DEF ScriptCompAssumption
  <2>2. rm \in Seq(S) /\ IsInjective(rm) /\ ToSet(rm) = ToSet(Base)
    BY SeqMonotonic DEF BaseComplete
  <2>3. WithoutPath(WithPath(rm, p), p) = l
    <3>1. p # <<>> /\ p[1] = d /\ p[2] = f
      BY <1>2
    <3>2. QED
      BY <3>1 DEF WithPath, WithoutPath
  <2> HIDE DEF d, S
  <2>4. a \in Seq(S) /\ IsInjective(a) /\ ToSet(a) = ToSet(Base) \cup {d}
    BY <2>1, <2>2, AddedOne DEF S
  <2> HIDE DEF a
  <2>5. b \in Seq(S) /\ IsInjective(b) /\ ToSet(b) = ToSet(Base) \cup {d, f}
    <3>1. f \in S /\ f \notin ToSet(a)
      BY <2>1, <2>4 DEF S
    <3>2. b \in Seq(S) /\ IsInjective(b) /\ ToSet(b) = ToSet(a) \cup {f}
      BY <2>4, <3>1, AddedOne
    <3>3. QED
      BY <2>4, <3>2
  <2> HIDE DEF b
  <2>6. e \in Seq(S) /\ IsInjective(e) /\ ToSet(e) = ToSet(Base) \cup {f}
    <3>1. PICK i \in 1..Len(b) : b[i] = d
      BY <2>5 DEF ToSet
    <3>2. e \in Seq(S) /\ IsInjective(e) /\ ToSet(e) = ToSet(b) \ {d}
      BY <2>5, <3>1, DeletedOne
    <3>3. QED
      BY <2>1, <2>5, <3>2
  <2> HIDE DEF e
  <2>7. l \in Seq(S) /\ IsInjective(l) /\ ToSet(l) = ToSet(Base)
    <3>1. PICK i \in 1..Len(e) : e[i] = f
      <4>1. DOMAIN e = 1..Len(e) /\ f \in ToSet(e)
        BY <2>6, LenProperties
      <4>2. QED
        BY <4>1 DEF ToSet
    <3>2. l \in Seq(S) /\ IsInjective(l) /\ ToSet(l) = ToSet(e) \ {f}
      BY <2>6, <3>1, DeletedOne
    <3>3. QED
      BY <2>1, <2>6, <3>2
  <2> HIDE DEF l
  <2>8. l \in Seq(ToSet(Base))
    <3>1. l \in Seq(Range(l))
      BY <2>7, SeqOfRange
    <3>2. Range(l) = ToSet(l)
      BY DEF Range, ToSet
    <3>3. QED
      BY <2>7, <3>1, <3>2
  <2>9. QED
    BY <2>3, <2>7, <2>8
<1>3. QED
  BY <1>1, <1>2 DEF SearchPath

\* With at most two base containers it even leaves them in their order.
LEMMA SameOrder ==
  ASSUME ScriptCompAssumption, Len(Base) <= 2, NEW p \in SearchPath
  PROVE  WithoutPath(WithPath(Base, p), p) = Base
<1>1. CASE p = <<>>
  BY <1>1 DEF WithPath, WithoutPath
<1>2. ASSUME NEW f \in File, p = <<DirOf[f], f>>
      PROVE  WithoutPath(WithPath(Base, p), p) = Base
  <2> DEFINE d == DirOf[f]
             a == Added(Base, d)
             b == Added(a, f)
             e == Deleted(b, d)
             l == Deleted(e, f)
             S == ToSet(Base) \cup {d, f}
             n == Len(Base)
  <2>1. d \in Dir /\ d # f /\ d \notin ToSet(Base) /\ f \notin ToSet(Base)
    BY DEF ScriptCompAssumption
  <2>2. Base \in Seq(S) /\ IsInjective(Base) /\ n \in {1, 2}
    <3>1. Base \in Seq(DOMAIN Holds) /\ IsInjective(Base) /\ DOMAIN Base # {}
      BY DEF ScriptCompAssumption
    <3>2. n \in Nat /\ DOMAIN Base = 1..n
      BY <3>1, LenProperties
    <3>3. n \in {1, 2}
      <4> HIDE DEF n
      <4>1. n # 0
        BY <3>1, <3>2
      <4>2. n <= 2
        BY DEF n
      <4>3. QED
        BY <3>2, <4>1, <4>2
    <3>4. \A i \in 1..n : Base[i] \in S
      BY <3>2 DEF ToSet
    <3>5. Base \in Seq(S)
      BY <3>1, <3>4, SeqDef
    <3>6. QED
      BY <3>1, <3>3, <3>5
  <2>3. WithoutPath(WithPath(Base, p), p) = l
    <3>1. p # <<>> /\ p[1] = d /\ p[2] = f
      BY <1>2
    <3>2. QED
      BY <3>1 DEF WithPath, WithoutPath
  <2> HIDE DEF d, S
  <2>4. /\ a \in Seq(S) /\ IsInjective(a) /\ ToSet(a) = ToSet(Base) \cup {d}
        /\ Len(a) = n + 1 /\ a[1] = d /\ \A i \in 1..n : a[i+1] = Base[i]
    <3>1. a \in Seq(S) /\ IsInjective(a) /\ ToSet(a) = ToSet(Base) \cup {d}
      BY <2>1, <2>2, AddedOne DEF S
    <3>2. Len(a) = n + 1 /\ a[1] = d /\ \A i \in 1..n : a[i+1] = Base[i]
      BY <2>2 DEF Added
    <3>3. QED
      BY <3>1, <3>2
  <2> HIDE DEF a
  <2>5. /\ b \in Seq(S) /\ IsInjective(b)
        /\ Len(b) = n + 2 /\ b[1] = f /\ b[2] = d /\ \A i \in 1..n : b[i+2] = Base[i]
    <3>1. f \in S /\ f \notin ToSet(a)
      BY <2>1, <2>4 DEF S
    <3>2. b \in Seq(S) /\ IsInjective(b)
      BY <2>4, <3>1, AddedOne
    <3>3. Len(b) = n + 2 /\ b[1] = f /\ \A i \in 1..n+1 : b[i+1] = a[i]
      BY <2>2, <2>4 DEF Added
    <3>4. 1 \in 1..n+1 /\ \A i \in 1..n : i+1 \in 1..n+1 /\ (i+1)+1 = i+2
      BY <2>2
    <3>5. b[2] = d /\ \A i \in 1..n : b[i+2] = Base[i]
      BY <2>4, <3>3, <3>4
    <3>6. QED
      BY <3>2, <3>3, <3>5
  <2> HIDE DEF b
  <2>6. /\ e \in Seq(S) /\ IsInjective(e) /\ Len(e) = n + 1
        /\ e[1] = f /\ e[2] = b[n+2] /\ \A j \in 3..n+1 : e[j] = b[j]
    <3>1. 2 \in 1..Len(b)
      BY <2>2, <2>5
    <3>2. e \in Seq(S) /\ IsInjective(e)
      BY <2>5, <3>1, DeletedOne
    <3>3. /\ Len(Deleted(b, b[2])) = Len(b) - 1
          /\ \A j \in 1..Len(b)-1 :
               Deleted(b, b[2])[j] = IF j = 2 THEN b[Len(b)] ELSE b[j]
      <4>1. b \in Seq(S) /\ IsInjective(b)
        BY <2>5
      <4>2. QED
        BY <3>1, <4>1, DeletedValues
    <3>4. Deleted(b, b[2]) = e
      BY <2>5
    <3> HIDE DEF e
    <3>5. QED
      BY <2>2, <2>5, <3>2, <3>3, <3>4
  <2> HIDE DEF e
  <2>7. /\ l \in Seq(S) /\ Len(l) = n
        /\ \A j \in 1..n : l[j] = IF j = 1 THEN e[n+1] ELSE e[j]
    <3>1. 1 \in 1..Len(e)
      BY <2>2, <2>6
    <3>2. /\ Deleted(e, e[1]) \in Seq(S) /\ Len(Deleted(e, e[1])) = Len(e) - 1
          /\ \A j \in 1..Len(e)-1 :
               Deleted(e, e[1])[j] = IF j = 1 THEN e[Len(e)] ELSE e[j]
      <4>1. e \in Seq(S) /\ IsInjective(e)
        BY <2>6
      <4>2. QED
        BY <3>1, <4>1, DeletedValues
    <3>3. Deleted(e, e[1]) = l
      BY <2>6
    <3> HIDE DEF l
    <3>4. QED
      BY <2>2, <2>6, <3>2, <3>3
  <2> HIDE DEF l
  <2>8. \A j \in 1..n : l[j] = Base[j]
    <3>1. CASE n = 1
      BY <2>5, <2>6, <2>7, <3>1
    <3>2. CASE n = 2
      <4>1. e[2] = Base[2] /\ e[3] = Base[1]
        BY <2>5, <2>6, <3>2
      <4>2. QED
        BY <2>7, <3>2, <4>1
    <3>3. QED
      BY <2>2, <3>1, <3>2
  <2>9. l = Base
    BY <2>2, <2>7, <2>8, SeqEqual
  <2>10. QED
    BY <2>3, <2>9
<1>3. QED
  BY <1>1, <1>2 DEF SearchPath

\* No two base containers have a file of one name.
BaseApart ==
  \A i, j \in DOMAIN Base : i # j => Holds[Base[i]] \cap Holds[Base[j]] = {}

\* Then their order makes no difference.
LEMMA OrderMakesNoDifference ==
  ASSUME ScriptCompAssumption, BaseApart, BaseComplete
  PROVE  AnswersLikeBase(rm)
<1> SUFFICES ASSUME NEW n \in STRING PROVE Lookup(rm, n) = Lookup(Base, n)
  BY DEF AnswersLikeBase
<1>1. /\ Base \in Seq(ToSet(Base)) /\ rm \in Seq(ToSet(Base)) /\ ToSet(rm) = ToSet(Base)
      /\ DOMAIN rm = 1..Len(rm) /\ DOMAIN Base = 1..Len(Base)
  <2>1. Base \in Seq(DOMAIN Holds) /\ rm \in Seq(ToSet(Base)) /\ ToSet(rm) = ToSet(Base)
    BY DEF ScriptCompAssumption, BaseComplete
  <2>2. Base \in Seq(Range(Base)) /\ Range(Base) = ToSet(Base)
    BY <2>1, SeqOfRange DEF Range, ToSet
  <2>3. QED
    BY <2>1, <2>2, LenProperties
<1>2. \A c \in ToSet(Base) : HasName(c, n) <=> n \in Holds[c]
  BY DEF HasName, ScriptCompAssumption
<1>3. \A c, d \in ToSet(Base) : HasName(c, n) /\ HasName(d, n) => c = d
  BY <1>2 DEF BaseApart, ToSet
<1>4. \A i \in 1..Len(rm) : rm[i] \in ToSet(Base)
  BY <1>1 DEF ToSet
<1>5. \A i \in 1..Len(Base) : Base[i] \in ToSet(Base)
  BY <1>1 DEF ToSet
<1>6. \A c \in ToSet(Base) : /\ \E i \in 1..Len(rm) : rm[i] = c
                             /\ \E i \in 1..Len(Base) : Base[i] = c
  BY <1>1 DEF ToSet
<1>7. \/ Lookup(rm, n) = None /\ \A c \in ToSet(Base) : ~HasName(c, n)
      \/ Lookup(rm, n) \in ToSet(Base) /\ HasName(Lookup(rm, n), n)
  <2>1. \/ Lookup(rm, n) = None /\ \A i \in 1..Len(rm) : ~HasName(rm[i], n)
        \/ \E i \in 1..Len(rm) : Lookup(rm, n) = rm[i] /\ HasName(rm[i], n)
    BY <1>1, LookupProperties
  <2>2. QED
    BY <1>4, <1>6, <2>1
<1>8. \/ Lookup(Base, n) = None /\ \A c \in ToSet(Base) : ~HasName(c, n)
      \/ Lookup(Base, n) \in ToSet(Base) /\ HasName(Lookup(Base, n), n)
  <2>1. \/ Lookup(Base, n) = None /\ \A i \in 1..Len(Base) : ~HasName(Base[i], n)
        \/ \E i \in 1..Len(Base) : Lookup(Base, n) = Base[i] /\ HasName(Base[i], n)
    BY <1>1, LookupProperties
  <2>2. QED
    BY <1>5, <1>6, <2>1
<1>9. QED
  BY <1>3, <1>7, <1>8

\* What the service finds on a search path is what a worker should get.
LEMMA FoundForPath ==
  ASSUME ScriptCompAssumption, rm \in Seq(Container), AnswersLikeBase(rm),
         NEW p \in SearchPath, NEW n \in STRING
  PROVE  Lookup(WithPath(rm, p), n) = Lookup(Reverse(p) \o Base, n)
<1>0. Base \in Seq(Container)
  <2>1. Base \in Seq(DOMAIN Holds) /\ DOMAIN Holds \subseteq Container
    BY DEF ScriptCompAssumption, Container
  <2>2. QED
    BY <2>1, SeqMonotonic
<1>1. CASE p = <<>>
  <2>1. Reverse(p) \o Base = Base
    BY <1>0, <1>1 DEF Reverse
  <2>2. QED
    BY <1>1, <2>1 DEF WithPath, AnswersLikeBase
<1>2. ASSUME NEW f \in File, p = <<DirOf[f], f>>
      PROVE  Lookup(WithPath(rm, p), n) = Lookup(Reverse(p) \o Base, n)
  <2> DEFINE d == DirOf[f]
  <2>1. d \in Container /\ f \in Container
    BY DEF ScriptCompAssumption, Container
  <2>2. Reverse(p) \o Base = Added(Added(Base, d), f)
    <3>1. Reverse(p) = <<f, d>>
      BY <1>2 DEF Reverse
    <3>2. QED
      BY <1>0, <2>1, <3>1 DEF Added
  <2>3. WithPath(rm, p) = Added(Added(rm, d), f)
    BY <1>2 DEF WithPath
  <2>4. Added(rm, d) \in Seq(Container) /\ Added(Base, d) \in Seq(Container)
    BY <1>0, <2>1 DEF Added
  <2> HIDE DEF d
  <2>5. ASSUME NEW cs \in Seq(Container), Added(cs, d) \in Seq(Container)
        PROVE  Lookup(Added(Added(cs, d), f), n)
                 = IF HasName(f, n) THEN f ELSE IF HasName(d, n) THEN d ELSE Lookup(cs, n)
    <3>1. Lookup(Added(cs, d), n) = IF HasName(d, n) THEN d ELSE Lookup(cs, n)
      BY <2>1, LookupBehind
    <3>2. Lookup(Added(Added(cs, d), f), n)
            = IF HasName(f, n) THEN f ELSE Lookup(Added(cs, d), n)
      BY <2>1, <2>5, LookupBehind
    <3>3. QED
      BY <3>1, <3>2
  <2>6. Lookup(rm, n) = Lookup(Base, n)
    BY DEF AnswersLikeBase
  <2>7. QED
    BY <1>0, <2>2, <2>3, <2>4, <2>5, <2>6
<1>3. QED
  BY <1>1, <1>2 DEF SearchPath

-----------------------------------------------------------------------------
(* The answers.                                                            *)

\* What worker w wants next, on its own search path.
Own(w) == Lookup(Reverse(path[w]) \o Base, Head(job[w].want))

\* A step of a worker that has no answer leaves the others' answers right.
LEMMA ResolvedBeside ==
  ASSUME ResolvedForItself, NEW w \in Worker,
         \A v \in Worker : v # w => /\ response'[v] = response[v]
                                    /\ job'[v].want = job[v].want /\ path'[v] = path[v],
         \/ response'[w] = <<>>
         \/ response'[w] = response[w] /\ job'[w].want = job[w].want /\ path'[w] = path[w]
  PROVE  ResolvedForItself'
<1> SUFFICES ASSUME NEW v \in Worker, response'[v] # <<>>
             PROVE  Head(response'[v]) = Lookup(Reverse(path'[v]) \o Base, Head(job'[v].want))
  BY DEF ResolvedForItself
<1>1. /\ response'[v] = response[v] /\ job'[v].want = job[v].want /\ path'[v] = path[v]
  OBVIOUS
<1>2. QED
  BY <1>1 DEF ResolvedForItself

\* The service thread answers right, if the base containers still answer as
\* they did at the start.
LEMMA ResolvedServe ==
  ASSUME ScriptCompAssumption, Typed, MessagesInv, AnswersLikeBase(rm), ResolvedForItself, Serve
  PROVE  ResolvedForItself'
<1> DEFINE r == requests[1]
           a == Lookup(WithPath(rm, r.path), r.name)
           w == r.worker
<1>1. /\ requests # <<>> /\ job' = job /\ path' = path
      /\ response' = [response EXCEPT ![w] = Append(@, a)]
  <2>1. requests # <<>>
    BY DEF Serve
  <2>2. Head(requests) = requests[1]
    BY <2>1 DEF Typed
  <2>3. response' = Answered(r, a)
    BY <2>2 DEF Serve
  <2>4. QED
    BY <2>1, <2>3 DEF Serve, Answered, work
<1>2. 1 \in DOMAIN requests
  <2>1. requests \in Seq([worker : Worker, name : STRING, path : SearchPath])
    BY DEF Typed
  <2> DEFINE n == Len(requests)
  <2>2. n \in Nat /\ n # 0 /\ DOMAIN requests = 1..n
    BY <1>1, <2>1, EmptySeq, LenProperties
  <2>3. QED
    BY <2>2
<1>3. w \in Worker /\ r.path \in SearchPath /\ r.name \in STRING
  BY <1>2, RequestType
<1>4. /\ response[w] = <<>> /\ r.name = Head(job[w].want) /\ r.path = path[w]
  BY <1>2 DEF MessagesInv, Requested
<1>5. a = Own(w)
  <2>1. Lookup(WithPath(rm, r.path), r.name) = Lookup(Reverse(r.path) \o Base, r.name)
    BY <1>3, FoundForPath DEF Typed
  <2>2. QED
    BY <1>4, <2>1 DEF Own
<1> HIDE DEF a, w
<1>6. /\ \A v \in Worker : v # w => response'[v] = response[v]
      /\ Head(response'[w]) = a
  BY <1>1, <1>3, <1>4 DEF Typed
<1>7. QED
  BY <1>1, <1>5, <1>6 DEF ResolvedForItself, Own

\* The other steps change no answer, and the worker and its search path only
\* when there is none.
LEMMA ResolvedStep ==
  ASSUME ScriptCompAssumption, Typed, MessagesInv, AnswersLikeBase(rm), ResolvedForItself,
         [Next]_vars
  PROVE  ResolvedForItself'
<1>1. ASSUME UNCHANGED <<job, path, response>> PROVE ResolvedForItself'
  BY <1>1 DEF ResolvedForItself
<1>2. CASE UNCHANGED vars
  BY <1>1, <1>2 DEF vars, work, channels
<1>3. CASE Serve
  BY <1>3, ResolvedServe
<1>4. CASE Quit
  BY <1>1, <1>4 DEF Quit, work, channels
<1>5. ASSUME NEW w \in Worker, response' = response, job[w].asked # TRUE,
             \A v \in Worker : v # w => job'[v] = job[v] /\ path'[v] = path[v]
      PROVE  ResolvedForItself'
  <2>1. response'[w] = <<>>
    BY <1>5 DEF MessagesInv, Answering
  <2>2. QED
    BY <1>5, <2>1, ResolvedBeside
<1>6. ASSUME NEW w \in Worker, NEW f \in File, Take(w, f) PROVE ResolvedForItself'
  <2>1. \A v \in Worker : v # w => job'[v] = job[v]
    BY <1>6, TakeEffect
  <2>2. job[w].asked # TRUE
    BY <1>6, NotAsked DEF Take, At
  <2>3. UNCHANGED <<path, response>>
    BY <1>6 DEF Take, channels
  <2>4. QED
    BY <1>5, <2>1, <2>2, <2>3
<1>7. ASSUME NEW w \in Worker, Prepare(w) PROVE ResolvedForItself'
  <2>1. \A v \in Worker : v # w => job'[v] = job[v]
    BY <1>7, PrepareMoves DEF Moves
  <2>2. job[w].asked # TRUE
    BY <1>7, NotAsked DEF Prepare, At
  <2>3. response' = response /\ \A v \in Worker : v # w => path'[v] = path[v]
    BY <1>7 DEF Prepare, channels, Typed
  <2>4. QED
    BY <1>5, <2>1, <2>2, <2>3
<1>8. ASSUME NEW w \in Worker, PrepareFails(w) PROVE ResolvedForItself'
  <2>1. \A v \in Worker : v # w => job'[v] = job[v]
    BY <1>8, EndingSteps DEF Finishes
  <2>2. job[w].asked # TRUE
    BY <1>8, NotAsked DEF PrepareFails, At
  <2>3. response' = response /\ \A v \in Worker : v # w => path'[v] = path[v]
    BY <1>8 DEF PrepareFails, channels, Typed
  <2>4. QED
    BY <1>5, <2>1, <2>2, <2>3
<1>9. ASSUME NEW w \in Worker, Request(w) PROVE ResolvedForItself'
  <2>1. /\ \A v \in Worker : v # w => job'[v] = job[v]
        /\ job'[w].want = job[w].want
    BY <1>9, RequestMoves DEF Moves
  <2>2. UNCHANGED <<path, response>>
    BY <1>9 DEF Request
  <2>3. QED
    BY <2>1, <2>2, ResolvedBeside
<1>10. ASSUME NEW w \in Worker, Receive(w) PROVE ResolvedForItself'
  <2>1. \A v \in Worker : v # w => job'[v] = job[v]
    BY <1>10, ReceiveMoves DEF Moves
  <2>2. response'[w] = <<>> /\ \A v \in Worker : v # w => response'[v] = response[v]
    BY <1>10, ReceiveEmpties
  <2>3. path' = path
    BY <1>10 DEF Receive
  <2>4. QED
    BY <2>1, <2>2, <2>3, ResolvedBeside
<1>11. ASSUME NEW w \in Worker, Success(w) PROVE ResolvedForItself'
  <2>1. \A v \in Worker : v # w => job'[v] = job[v]
    BY <1>11, SuccessMoves DEF Moves, Finishes
  <2>2. job[w].asked # TRUE /\ UNCHANGED <<path, response>>
    BY <1>11, NotAsked DEF Success, Compiled, channels
  <2>3. QED
    BY <1>5, <2>1, <2>2
<1>12. ASSUME NEW w \in Worker, Skip(w) \/ Error(w) \/ WriteNdb(w) \/ WriteFails(w)
       PROVE  ResolvedForItself'
  <2>1. \A v \in Worker : v # w => job'[v] = job[v]
    BY <1>12, EndingSteps DEF Finishes
  <2>2. job[w].asked # TRUE /\ UNCHANGED <<path, response>>
    BY <1>12, NotAsked DEF Skip, Error, WriteNdb, WriteFails, Compiled, At, channels
  <2>3. QED
    BY <1>5, <2>1, <2>2
<1>13. ASSUME NEW w \in Worker, WriteNcs(w) PROVE ResolvedForItself'
  <2>1. \A v \in Worker : v # w => job'[v] = job[v]
    BY <1>13, WriteNcsMoves DEF Moves
  <2>2. job[w].asked # TRUE /\ UNCHANGED <<path, response>>
    BY <1>13, NotAsked DEF WriteNcs, At, channels
  <2>3. QED
    BY <1>5, <2>1, <2>2
<1>14. QED
  BY <1>2, <1>3, <1>4, <1>6, <1>7, <1>8, <1>9, <1>10, <1>11, <1>12, <1>13 DEF Next, Step

\* The containers change only when a request is served.
LEMMA ContainersKept ==
  ASSUME [Next]_vars, rm' # rm
  PROVE  /\ Serve /\ requests # <<>>
         /\ rm' = WithoutPath(WithPath(rm, Head(requests).path), Head(requests).path)
<1>1. Serve
  BY DEF Next, Step, vars, channels, Quit, Take, Prepare, PrepareFails, Request, Receive,
         Success, Skip, Error, WriteNcs, WriteNdb, WriteFails
<1>2. QED
  BY <1>1 DEF Serve

LEMMA ServedPath ==
  ASSUME Typed, requests # <<>>
  PROVE  Head(requests).path \in SearchPath
<1>1. requests \in Seq([worker : Worker, name : STRING, path : SearchPath])
  BY DEF Typed
<1>2. Head(requests) \in [worker : Worker, name : STRING, path : SearchPath]
  BY <1>1, HeadTailProperties
<1>3. QED
  BY <1>2

LEMMA BaseInOrderStep ==
  ASSUME ScriptCompAssumption, Len(Base) <= 2, Typed, BaseInOrder, [Next]_vars
  PROVE  BaseInOrder'
<1>1. CASE rm' = rm
  BY <1>1 DEF BaseInOrder
<1>2. CASE rm' # rm
  BY <1>2, ContainersKept, ServedPath, SameOrder DEF BaseInOrder
<1>3. QED
  BY <1>1, <1>2

LEMMA BaseCompleteStep ==
  ASSUME ScriptCompAssumption, Typed, BaseComplete, [Next]_vars
  PROVE  BaseComplete'
<1>1. CASE rm' = rm
  BY <1>1 DEF BaseComplete
<1>2. CASE rm' # rm
  <2> DEFINE p == Head(requests).path
  <2>1. p \in SearchPath /\ rm' = WithoutPath(WithPath(rm, p), p)
    BY <1>2, ContainersKept, ServedPath
  <2> HIDE DEF p
  <2>2. QED
    BY <2>1, SameContainers DEF BaseComplete
<1>3. QED
  BY <1>1, <1>2

LEMMA BaseInit ==
  ASSUME ScriptCompAssumption, Init
  PROVE  BaseInOrder /\ BaseComplete
<1>1. rm = Base /\ Base \in Seq(DOMAIN Holds) /\ IsInjective(Base)
  BY DEF Init, ScriptCompAssumption
<1>2. Base \in Seq(Range(Base)) /\ Range(Base) = ToSet(Base)
  BY <1>1, SeqOfRange DEF Range, ToSet
<1>3. QED
  BY <1>1, <1>2 DEF BaseInOrder, BaseComplete

-----------------------------------------------------------------------------
(* What the invariants say.                                                *)

\* One message is under way for a worker that has asked, none for another.
LEMMA OneInFlight ==
  ASSUME Typed, MessagesInv, NEW w \in Worker
  PROVE  InFlight(w) = IF job[w].asked THEN 1 ELSE 0
<1> DEFINE mine == {i \in DOMAIN requests : requests[i].worker = w}
<1>1. response[w] \in Seq(Container \cup {None}) /\ Len(response[w]) <= 1
  BY DEF Typed, MessagesInv, Answering
<1>2. \/ job[w].asked = FALSE /\ response[w] = <<>> /\ mine = {}
      \/ job[w].asked = TRUE /\ response[w] = <<>> /\ \E i \in mine : mine = {i}
      \/ job[w].asked = TRUE /\ response[w] # <<>> /\ mine = {}
  <2>1. job[w].asked \in BOOLEAN
    <3>1. Idle.asked = FALSE
      BY DEF Idle, Job
    <3>2. job[w] \in {Idle} \cup BusyJobs
      BY DEF Typed, JobsTyped
    <3>3. job[w] \in BusyJobs => job[w].asked \in BOOLEAN
      BY DEF BusyJobs
    <3>4. QED
      BY <3>1, <3>2, <3>3
  <2>2. \A i \in mine : response[w] = <<>> /\ job[w].asked = TRUE /\ mine = {i}
    BY DEF MessagesInv, Requested, RequestedOnce
  <2>3. job[w].asked = TRUE => response[w] # <<>> \/ mine # {}
    BY DEF MessagesInv, Answering
  <2>4. response[w] # <<>> => job[w].asked = TRUE
    BY DEF MessagesInv, Answering
  <2> HIDE DEF mine
  <2>5. QED
    BY <2>1, <2>2, <2>3, <2>4
<1>3. Cardinality(mine) = IF mine = {} THEN 0 ELSE 1
  BY <1>2, FS_EmptySet, FS_Singleton
<1>4. Len(response[w]) = IF response[w] = <<>> THEN 0 ELSE 1
  <2> DEFINE n == Len(response[w])
  <2>1. n \in Nat /\ n <= 1 /\ (response[w] = <<>> <=> n = 0)
    BY <1>1, EmptySeq
  <2> HIDE DEF n
  <2>2. QED
    BY <2>1 DEF n
<1>5. InFlight(w) = Cardinality(mine) + Len(response[w])
  BY DEF InFlight
<1> HIDE DEF mine
<1>6. CASE job[w].asked = FALSE
  BY <1>2, <1>3, <1>4, <1>5, <1>6
<1>7. CASE job[w].asked = TRUE
  <2>1. Cardinality(mine) + Len(response[w]) = 1
    BY <1>2, <1>3, <1>4, <1>7
  <2>2. QED
    BY <1>5, <1>7, <2>1
<1>8. QED
  BY <1>2, <1>6, <1>7

LEMMA CountersBounded ==
  ASSUME ScriptCompAssumption, Typed, CountInv
  PROVE  {successes, skips, errors} \subseteq 0..Cardinality(File)
<1>1. Succeeded \subseteq File /\ Skipped \subseteq File /\ Failed \subseteq File
  BY DEF Succeeded, Skipped, Failed
<1>2. /\ Cardinality(Succeeded) <= Cardinality(File) /\ Cardinality(Skipped) <= Cardinality(File)
      /\ Cardinality(Failed) <= Cardinality(File) /\ Cardinality(File) \in Nat
      /\ Cardinality(Succeeded) \in Nat /\ Cardinality(Skipped) \in Nat
      /\ Cardinality(Failed) \in Nat
  BY <1>1, CountGrows DEF ScriptCompAssumption
<1>3. QED
  BY <1>2 DEF CountInv, Tallied, Typed

LEMMA ExitFollows ==
  ASSUME ScriptCompAssumption, Typed, FilesInv, CountInv, Written
  PROVE  ExitTellsAll
<1> SUFFICES ASSUME finished = TRUE, errors = 0, NEW f \in File
             PROVE  /\ fate[f] \in {"built", "validated", "skipped"}
                    /\ fate[f] = "built" /\ ~Simulate =>
                         ncs[OutPlace(f)] = f /\ (Debug => ndb[OutPlace(f)] = f)
  BY DEF ExitTellsAll
<1>1. fate[f] # "pending"
  BY DEF FilesInv, Placed, Ended
<1>2. fate[f] \notin {"aborted", "raised", "error"}
  BY DEF CountInv, Told
<1>3. QED
  BY <1>1, <1>2 DEF Typed, Written

-----------------------------------------------------------------------------
(* The theorems.                                                           *)

\* What holds in every state, whatever the search paths and the places.
IInv == Typed /\ MessagesInv /\ FilesInv /\ CountInv

LEMMA IInvAlways ==
  Spec => []IInv
<1>1. Init => IInv
  BY TypedInit, MessagesInit, FilesInit, CountInit, ScriptCompAssumption DEF IInv
<1>2. IInv /\ [Next]_vars => IInv'
  BY TypedStep, MessagesStep, FilesStep, CountStep, ScriptCompAssumption DEF IInv
<1>3. QED
  BY <1>1, <1>2, PTL DEF Spec

\* The types; the counters count files; a worker that has asked for a source
\* has one message under way, in the demand channel or in its own, and no
\* other worker has any: neither channel can fill up (resolveFile and
\* serviceRmDemand of nwn_script_comp.nim).
THEOREM TypeCorrect ==
  Spec => []TypeOK
<1>1. IInv => TypeOK
  <2> SUFFICES ASSUME IInv PROVE TypeOK
    OBVIOUS
  <2>1. \A w \in Worker : InFlight(w) = IF job[w].asked THEN 1 ELSE 0
    BY OneInFlight DEF IInv
  <2>2. {successes, skips, errors} \subseteq 0..Cardinality(File)
    BY CountersBounded, ScriptCompAssumption DEF IInv
  <2>3. QED
    BY <2>1, <2>2 DEF TypeOK, IInv, Typed, SearchPath
<1>2. QED
  BY <1>1, IInvAlways, PTL

\* A compiler gets for a name what its own file, its own directory and the
\* base containers have, in this order, whatever requests of other workers are
\* served before (serviceRmDemand): as long as there are at most two base
\* containers or no name is in two of them.  With three that share a name,
\* taking the search path down really changes their order (run scomp_order).
THEOREM ResolvedAlone ==
  ASSUME Len(Base) <= 2 \/ BaseApart
  PROVE  Spec => []ResolvedForItself
<1> DEFINE J == IInv /\ (Len(Base) <= 2 => BaseInOrder) /\ BaseComplete
<1>1. J => AnswersLikeBase(rm)
  <2> SUFFICES ASSUME J PROVE AnswersLikeBase(rm)
    OBVIOUS
  <2>1. CASE Len(Base) <= 2
    BY <2>1 DEF BaseInOrder, AnswersLikeBase
  <2>2. CASE BaseApart
    BY <2>2, OrderMakesNoDifference, ScriptCompAssumption
  <2>3. QED
    BY <2>1, <2>2
<1>2. Init => J /\ ResolvedForItself
  <2> SUFFICES ASSUME Init PROVE J /\ ResolvedForItself
    OBVIOUS
  <2>1. IInv
    BY TypedInit, MessagesInit, FilesInit, CountInit, ScriptCompAssumption DEF IInv
  <2>2. BaseInOrder /\ BaseComplete
    BY BaseInit, ScriptCompAssumption
  <2>3. ResolvedForItself
    BY DEF Init, ResolvedForItself
  <2>4. QED
    BY <2>1, <2>2, <2>3
<1>3. J /\ ResolvedForItself /\ [Next]_vars => J' /\ ResolvedForItself'
  <2> SUFFICES ASSUME J, ResolvedForItself, [Next]_vars PROVE J' /\ ResolvedForItself'
    OBVIOUS
  <2>1. IInv'
    BY TypedStep, MessagesStep, FilesStep, CountStep, ScriptCompAssumption DEF IInv
  <2>2. BaseComplete'
    BY BaseCompleteStep, ScriptCompAssumption DEF IInv
  <2>3. Len(Base) <= 2 => BaseInOrder'
    BY BaseInOrderStep, ScriptCompAssumption DEF IInv
  <2>4. AnswersLikeBase(rm)
    BY <1>1
  <2>5. ResolvedForItself'
    BY <2>4, ResolvedStep, ScriptCompAssumption DEF IInv
  <2>6. QED
    BY <2>1, <2>2, <2>3, <2>5
<1>4. QED
  BY <1>2, <1>3, PTL DEF Spec

\* Never does a debug file of an earlier build lie beside a script of this one
\* (doCompile of nwn_script_comp.nim removes it before it compiles), where
\* artifacts are written beside their sources: doCompile looks for the old
\* file there and nowhere else.
THEOREM DebugFilesBelong ==
  ASSUME WrittenBeside
  PROVE  Spec => []NdbBelongs
<1>1. Init => NdbInv
  BY NdbInit, ScriptCompAssumption
<1>2. IInv /\ NdbInv /\ [Next]_vars => NdbInv'
  BY NdbStep, ScriptCompAssumption DEF IInv
<1>3. NdbInv => NdbBelongs
  BY DEF NdbInv
<1>4. QED
  BY <1>1, <1>2, <1>3, IInvAlways, PTL DEF Spec

\* If the program quits and has counted no error, every file was taken, none
\* failed or was given up, and each one that was built has its own artifacts
\* in their place: as long as no two of the files have one place (with -d,
\* two scripts of one name from two directories do).
THEOREM ExitTells ==
  ASSUME PlacesApart
  PROVE  Spec => []ExitTellsAll
<1>1. Init => Written
  BY WrittenInit
<1>2. IInv /\ Written /\ [Next]_vars => Written'
  BY WrittenStep, ScriptCompAssumption DEF IInv
<1>3. IInv /\ Written => ExitTellsAll
  BY ExitFollows, ScriptCompAssumption DEF IInv
<1>4. QED
  BY <1>1, <1>2, <1>3, IInvAlways, PTL DEF Spec

-----------------------------------------------------------------------------
(* Every compile is one of its own: the shared list and the messages make  *)
(* no difference to what becomes of a file.                                *)

\* Whether a name is found depends on which containers there are, not on
\* their order.
LEMMA FoundInSome ==
  ASSUME ScriptCompAssumption, NEW cs \in Seq(Container), NEW n
  PROVE  Lookup(cs, n) # None <=> \E c \in ToSet(cs) : HasName(c, n)
<1>1. None \notin Container
  BY DEF ScriptCompAssumption, Container
<1>2. ToSet(cs) = {cs[i] : i \in 1..Len(cs)} /\ \A i \in 1..Len(cs) : cs[i] \in Container
  BY DEF ToSet
<1>3. \/ Lookup(cs, n) = None /\ \A i \in 1..Len(cs) : ~HasName(cs[i], n)
      \/ \E i \in 1..Len(cs) : Lookup(cs, n) = cs[i] /\ HasName(cs[i], n)
  BY LookupProperties
<1>4. QED
  BY <1>1, <1>2, <1>3

\* What is in a sequence with one more element in front.
LEMMA ToSetMember ==
  ASSUME NEW S, NEW s \in Seq(S)
  PROVE  \A x : x \in ToSet(s) <=> \E i \in 1..Len(s) : x = s[i]
<1>1. DOMAIN s = 1..Len(s)
  OBVIOUS
<1>2. QED
  BY <1>1 DEF ToSet

LEMMA ToSetPrepend ==
  ASSUME NEW S, NEW s \in Seq(S), NEW a \in S
  PROVE  <<a>> \o s \in Seq(S) /\ ToSet(<<a>> \o s) = {a} \cup ToSet(s)
<1> DEFINE t == <<a>> \o s
<1>1. /\ t \in Seq(S) /\ Len(t) = Len(s) + 1 /\ Len(s) \in Nat
      /\ t[1] = a /\ \A i \in 1..Len(s) : t[i+1] = s[i]
  OBVIOUS
<1> HIDE DEF t
<1>2. \A x : x \in ToSet(t) <=> \E i \in 1..Len(t) : x = t[i]
  BY <1>1, ToSetMember
<1>3. \A x : x \in ToSet(s) <=> \E i \in 1..Len(s) : x = s[i]
  BY ToSetMember
<1>4. ASSUME NEW x \in ToSet(t) PROVE x = a \/ x \in ToSet(s)
  <2>1. PICK i \in 1..Len(t) : x = t[i]
    BY <1>2, <1>4
  <2>2. i = 1 \/ i-1 \in 1..Len(s)
    BY <1>1
  <2>3. i-1 \in 1..Len(s) => t[(i-1)+1] = s[i-1]
    BY <1>1
  <2>4. (i-1)+1 = i
    BY <1>1
  <2>5. i-1 \in 1..Len(s) => x = s[i-1]
    BY <2>1, <2>3, <2>4
  <2>6. QED
    BY <1>1, <1>3, <2>1, <2>2, <2>5
<1>5. ASSUME NEW x \in ToSet(s) PROVE x \in ToSet(t)
  <2>1. PICK i \in 1..Len(s) : x = s[i]
    BY <1>3, <1>5
  <2>2. i+1 \in 1..Len(t) /\ t[i+1] = x
    BY <1>1, <2>1
  <2>3. QED
    BY <1>2, <2>2
<1>6. a \in ToSet(t)
  <2>1. 1 \in 1..Len(t)
    BY <1>1
  <2>2. QED
    BY <1>1, <1>2, <2>1
<1>7. QED
  BY <1>1, <1>4, <1>5, <1>6 DEF t

LEMMA HeadAndTail ==
  ASSUME NEW S, NEW s \in Seq(S), s # <<>>
  PROVE  ToSet(s) = {Head(s)} \cup ToSet(Tail(s))
<1>1. Head(s) \in S /\ Tail(s) \in Seq(S)
  BY HeadTailProperties
<1>2. s = <<Head(s)>> \o Tail(s)
  BY <1>1
<1>3. QED
  BY <1>1, <1>2, ToSetPrepend

OwnFound(f, n) == Lookup(<<f, DirOf[f]>> \o Base, n) # None

LEMMA FoundAnyOrder ==
  ASSUME ScriptCompAssumption, BaseComplete, NEW f \in File, NEW n
  PROVE  Lookup(WithPath(rm, <<DirOf[f], f>>), n) # None <=> OwnFound(f, n)
<1> DEFINE d == DirOf[f]
           own == <<f, d>> \o Base
           with == WithPath(rm, <<d, f>>)
<1>1. d \in Container /\ f \in Container
  BY DEF ScriptCompAssumption, Container
<1>2. Base \in Seq(Container) /\ rm \in Seq(Container)
  <2>1. Base \in Seq(DOMAIN Holds) /\ ToSet(Base) \subseteq DOMAIN Holds
    BY DEF ScriptCompAssumption, ToSet
  <2>2. rm \in Seq(ToSet(Base)) /\ DOMAIN Holds \subseteq Container
    BY DEF BaseComplete, Container
  <2>3. QED
    BY <2>1, <2>2, SeqMonotonic
<1>3. own = <<f, d>> \o Base /\ with = <<f>> \o (<<d>> \o rm)
  BY DEF WithPath, Added
<1> HIDE DEF own, with, d
<1>4. own \in Seq(Container) /\ ToSet(own) = {f, d} \cup ToSet(Base)
  <2> DEFINE t == <<d>> \o Base
  <2>1. t \in Seq(Container) /\ ToSet(t) = {d} \cup ToSet(Base)
    BY <1>1, <1>2, ToSetPrepend
  <2>2. own = <<f>> \o t
    BY <1>1, <1>2, <1>3
  <2> HIDE DEF t
  <2>3. <<f>> \o t \in Seq(Container) /\ ToSet(<<f>> \o t) = {f} \cup ToSet(t)
    BY <1>1, <2>1, ToSetPrepend
  <2>4. QED
    BY <2>1, <2>2, <2>3, Zenon
<1>5. with \in Seq(Container) /\ ToSet(with) = {f, d} \cup ToSet(rm)
  <2> DEFINE t == <<d>> \o rm
  <2>1. t \in Seq(Container) /\ ToSet(t) = {d} \cup ToSet(rm)
    BY <1>1, <1>2, ToSetPrepend
  <2>2. with = <<f>> \o t
    BY <1>3
  <2> HIDE DEF t
  <2>3. <<f>> \o t \in Seq(Container) /\ ToSet(<<f>> \o t) = {f} \cup ToSet(t)
    BY <1>1, <2>1, ToSetPrepend
  <2>4. QED
    BY <2>1, <2>2, <2>3, Zenon
<1>6. ToSet(with) = ToSet(own)
  BY <1>4, <1>5 DEF BaseComplete
<1>7. Lookup(with, n) # None <=> Lookup(own, n) # None
  BY <1>4, <1>5, <1>6, FoundInSome
<1>8. QED
  BY <1>7 DEF OwnFound, own, with, d

\* While a script is compiled, the worker's search path is that of its file;
\* each of the file's sources is either still wanted or exists; and an answer
\* is there or not as the source is.
SourcesOf(w) ==
  LET f == job[w].file IN
  /\ job[w].phase = "compile" => path[w] = <<DirOf[f], f>>
  /\ job[w].phase \in {"compile", "ncs", "ndb"} =>
       \A n \in {StemOf[f]} \cup ToSet(Includes[f]) : n \in ToSet(job[w].want) \/ OwnFound(f, n)
  /\ job[w].phase = "compile" /\ response[w] # <<>> =>
       (Head(response[w]) # None <=> OwnFound(f, Head(job[w].want)))

SourcesInv == \A w \in Worker : SourcesOf(w)

LEMMA SourcesBeside ==
  ASSUME SourcesInv, NEW w \in Worker,
         \A v \in Worker : v # w =>
           job'[v] = job[v] /\ path'[v] = path[v] /\ response'[v] = response[v],
         SourcesOf(w)'
  PROVE  SourcesInv'
<1>1. ASSUME NEW v \in Worker, v # w PROVE SourcesOf(v)'
  <2>1. /\ job'[v] = job[v] /\ path'[v] = path[v] /\ response'[v] = response[v]
        /\ SourcesOf(v)
    BY <1>1 DEF SourcesInv
  <2>2. QED
    BY <2>1 DEF SourcesOf, OwnFound
<1>2. QED
  BY <1>1 DEF SourcesInv

LEMMA SourcesServe ==
  ASSUME ScriptCompAssumption, Typed, MessagesInv, BaseComplete, SourcesInv, Serve
  PROVE  SourcesInv'
<1> DEFINE r == requests[1]
           a == Lookup(WithPath(rm, r.path), r.name)
<1>1. /\ requests # <<>> /\ job' = job /\ path' = path
      /\ response' = [response EXCEPT ![r.worker] = Append(@, a)]
  <2>1. requests # <<>>
    BY DEF Serve
  <2>2. Head(requests) = requests[1]
    BY <2>1 DEF Typed
  <2>3. response' = Answered(r, a)
    BY <2>2 DEF Serve
  <2>4. QED
    BY <2>1, <2>3 DEF Serve, Answered, work
<1>2. 1 \in DOMAIN requests
  <2>1. requests \in Seq([worker : Worker, name : STRING, path : SearchPath])
    BY DEF Typed
  <2> DEFINE n == Len(requests)
  <2>2. n \in Nat /\ n # 0 /\ DOMAIN requests = 1..n
    BY <1>1, <2>1, EmptySeq, LenProperties
  <2>3. QED
    BY <2>2
<1>3. PICK w \in Worker : w = r.worker
  BY <1>2, RequestType
<1>4. /\ response[w] = <<>> /\ r.name = Head(job[w].want) /\ r.path = path[w]
  BY <1>2, <1>3 DEF MessagesInv, Requested
<1>5. ASSUME job[w].phase = "compile"
      PROVE  a # None <=> OwnFound(job[w].file, Head(job[w].want))
  <2>1. path[w] = <<DirOf[job[w].file], job[w].file>>
    BY <1>3, <1>5 DEF SourcesInv, SourcesOf
  <2>2. job[w].file \in File
    BY <1>3, <1>5, BusyHasFile DEF Busy
  <2>3. QED
    BY <1>4, <2>1, <2>2, FoundAnyOrder
<1> HIDE DEF a
<1>6. /\ \A v \in Worker : v # w => response'[v] = response[v]
      /\ Head(response'[w]) = a
  BY <1>1, <1>3, <1>4 DEF Typed
<1>7. SourcesOf(w)'
  <2>1. SourcesOf(w) /\ job'[w] = job[w] /\ path'[w] = path[w]
    BY <1>1, <1>3 DEF SourcesInv
  <2>2. QED
    BY <1>5, <1>6, <2>1 DEF SourcesOf, OwnFound
<1>8. \A v \in Worker : v # w =>
        job'[v] = job[v] /\ path'[v] = path[v] /\ response'[v] = response[v]
  BY <1>1, <1>6
<1>9. QED
  BY <1>3, <1>7, <1>8, SourcesBeside

LEMMA SourcesPrepare ==
  ASSUME ScriptCompAssumption, Typed, MessagesInv, SourcesInv, NEW w \in Worker, Prepare(w)
  PROVE  SourcesInv'
<1> DEFINE f == job[w].file
           want == <<StemOf[f]>> \o Includes[f]
<1>1. job[w].phase = "prepare" /\ Busy(w) /\ f \in File
  BY BusyHasFile DEF Prepare, At, Busy
<1>2. want \in Seq(STRING) /\ ToSet(want) = {StemOf[f]} \cup ToSet(Includes[f])
  <2>1. StemOf[f] \in STRING /\ Includes[f] \in Seq(STRING)
    BY <1>1 DEF ScriptCompAssumption
  <2>2. QED
    BY <2>1, ToSetPrepend
<1>3. Goes(w, "compile", want) /\ path' = [path EXCEPT ![w] = <<DirOf[f], f>>]
      /\ response' = response
  BY DEF Prepare, channels
<1>4. response[w] = <<>>
  <2>1. job[w].asked # TRUE
    BY <1>1, NotAsked
  <2>2. QED
    BY <2>1 DEF MessagesInv, Answering
<1> HIDE DEF want
<1>5. /\ \A v \in Worker : v # w => job'[v] = job[v]
      /\ job'[w].file = f /\ job'[w].phase = "compile" /\ job'[w].want = want
  BY <1>1, <1>2, <1>3, GoesEffect
<1>6. path'[w] = <<DirOf[f], f>> /\ \A v \in Worker : v # w => path'[v] = path[v]
  BY <1>3 DEF Typed
<1> HIDE DEF f
<1>7. SourcesOf(w)'
  BY <1>2, <1>3, <1>4, <1>5, <1>6 DEF SourcesOf
<1>8. QED
  BY <1>3, <1>5, <1>6, <1>7, SourcesBeside

LEMMA SourcesReceive ==
  ASSUME ScriptCompAssumption, Typed, MessagesInv, SourcesInv, NEW w \in Worker, Receive(w)
  PROVE  SourcesInv'
<1> DEFINE f == job[w].file
           want == job[w].want
<1>1. /\ job[w].asked = TRUE /\ response[w] # <<>> /\ path' = path
      /\ job[w].phase \in {"language", "compile"}
  BY DEF Receive, MessagesInv, Answering, Waiting
<1>2. response'[w] = <<>> /\ \A v \in Worker : v # w => response'[v] = response[v]
  BY ReceiveEmpties
<1>3. Busy(w) /\ f \in File /\ want \in Seq(STRING) /\ want # <<>>
  <2>1. job[w] \in BusyJobs /\ f \in File
    BY <1>1, BusyHasFile
  <2>2. want \in Seq(STRING)
    BY <2>1 DEF BusyJobs
  <2>3. QED
    BY <1>1, <2>1, <2>2 DEF Busy, Typed, JobsTyped
<1>4. <<>> \in Seq(STRING) /\ Tail(want) \in Seq(STRING)
  BY <1>3, EmptySeq, HeadTailProperties
<1>5. ASSUME Goes(w, "prepare", <<>>) \/ Goes(w, "broken", <<>>)
      PROVE  SourcesInv'
  <2>1. /\ \A v \in Worker : v # w => job'[v] = job[v]
        /\ job'[w].phase \in {"prepare", "broken"}
    <3>1. CASE Goes(w, "prepare", <<>>)
      BY <1>3, <1>4, <3>1, GoesEffect
    <3>2. CASE Goes(w, "broken", <<>>)
      BY <1>3, <1>4, <3>2, GoesEffect
    <3>3. QED
      BY <1>5, <3>1, <3>2
  <2>2. SourcesOf(w)'
    BY <1>5, <2>1 DEF SourcesOf
  <2>3. QED
    BY <1>1, <1>2, <2>1, <2>2, SourcesBeside
<1>6. CASE job[w].phase = "compile" /\ Head(response[w]) # None /\ Goes(w, "compile", Tail(want))
  <2>1. /\ \A v \in Worker : v # w => job'[v] = job[v]
        /\ job'[w].file = f /\ job'[w].phase = "compile" /\ job'[w].want = Tail(want)
    BY <1>3, <1>4, <1>6, GoesEffect
  <2>2. /\ path[w] = <<DirOf[f], f>>
        /\ \A n \in {StemOf[f]} \cup ToSet(Includes[f]) : n \in ToSet(want) \/ OwnFound(f, n)
        /\ OwnFound(f, Head(want))
    BY <1>1, <1>6 DEF SourcesInv, SourcesOf
  <2>3. ToSet(want) = {Head(want)} \cup ToSet(Tail(want))
    BY <1>3, HeadAndTail
  <2> HIDE DEF want, f
  <2>4. SourcesOf(w)'
    BY <1>1, <1>2, <2>1, <2>2, <2>3 DEF SourcesOf, OwnFound
  <2>5. QED
    BY <1>1, <1>2, <2>1, <2>4, SourcesBeside
<1>7. \/ Goes(w, "prepare", <<>>) \/ Goes(w, "broken", <<>>)
      \/ (job[w].phase = "compile" /\ Head(response[w]) # None /\ Goes(w, "compile", Tail(want)))
  BY <1>1 DEF Receive, At
<1>8. QED
  BY <1>5, <1>6, <1>7

\* A compiler that has all its sources ends, or its artifacts are written.
LEMMA SourcesStep ==
  ASSUME ScriptCompAssumption, Typed, MessagesInv, BaseComplete, SourcesInv, [Next]_vars
  PROVE  SourcesInv'
<1>1. ASSUME UNCHANGED <<job, path, response>> PROVE SourcesInv'
  BY <1>1 DEF SourcesInv, SourcesOf, OwnFound
<1>2. CASE UNCHANGED vars
  BY <1>1, <1>2 DEF vars, work, channels
<1>3. CASE Serve
  BY <1>3, SourcesServe
<1>4. CASE Quit
  BY <1>1, <1>4 DEF Quit, work, channels
<1>5. ASSUME NEW w \in Worker, response' = response,
             \A v \in Worker : v # w => job'[v] = job[v] /\ path'[v] = path[v],
             job'[w].phase \notin {"compile", "ncs", "ndb"}
      PROVE  SourcesInv'
  <2>1. SourcesOf(w)'
    BY <1>5 DEF SourcesOf
  <2>2. QED
    BY <1>5, <2>1, SourcesBeside
<1>6. ASSUME NEW w \in Worker, NEW f \in File, Take(w, f) PROVE SourcesInv'
  <2>1. /\ \A v \in Worker : v # w => job'[v] = job[v]
        /\ job' = job \/ job'[w].phase \in {"language", "prepare"}
    BY <1>6, TakeEffect
  <2>2. UNCHANGED <<path, response>>
    BY <1>6 DEF Take, channels
  <2>3. QED
    BY <1>1, <1>5, <2>1, <2>2
<1>7. ASSUME NEW w \in Worker, Prepare(w) PROVE SourcesInv'
  BY <1>7, SourcesPrepare
<1>8. ASSUME NEW w \in Worker, PrepareFails(w) PROVE SourcesInv'
  <2>1. (\A v \in Worker : v # w => job'[v] = job[v]) /\ job'[w].phase = "idle"
    BY <1>8, EndingSteps DEF Finishes
  <2>2. response' = response /\ \A v \in Worker : v # w => path'[v] = path[v]
    BY <1>8 DEF PrepareFails, channels, Typed
  <2>3. QED
    BY <1>5, <2>1, <2>2
<1>9. ASSUME NEW w \in Worker, Request(w) PROVE SourcesInv'
  <2>1. /\ \A v \in Worker : v # w => job'[v] = job[v]
        /\ job'[w].want = job[w].want
        /\ job'[w].file = job[w].file /\ job'[w].phase = job[w].phase
    BY <1>9, RequestMoves DEF Moves
  <2>2. UNCHANGED <<path, response>>
    BY <1>9 DEF Request
  <2>3. SourcesOf(w)'
    BY <2>1, <2>2 DEF SourcesInv, SourcesOf, OwnFound
  <2>4. QED
    BY <2>1, <2>2, <2>3, SourcesBeside
<1>10. ASSUME NEW w \in Worker, Receive(w) PROVE SourcesInv'
  BY <1>10, SourcesReceive
<1>11. ASSUME NEW w \in Worker, UNCHANGED <<path, response>>,
              job[w].phase \in {"compile", "ncs"}, job[w].want = <<>>, Busy(w),
              Goes(w, "ncs", <<>>) \/ Goes(w, "ndb", <<>>)
       PROVE  SourcesInv'
  <2>1. <<>> \in Seq(STRING)
    BY EmptySeq
  <2>2. /\ \A v \in Worker : v # w => job'[v] = job[v]
        /\ job'[w].file = job[w].file /\ job'[w].phase \in {"ncs", "ndb"} /\ job'[w].want = <<>>
    <3>1. CASE Goes(w, "ncs", <<>>)
      BY <1>11, <2>1, <3>1, GoesEffect
    <3>2. CASE Goes(w, "ndb", <<>>)
      BY <1>11, <2>1, <3>2, GoesEffect
    <3>3. QED
      BY <1>11, <3>1, <3>2
  <2>3. SourcesOf(w)'
    BY <1>11, <2>2 DEF SourcesInv, SourcesOf, OwnFound
  <2>4. QED
    BY <1>11, <2>2, <2>3, SourcesBeside
<1>12. ASSUME NEW w \in Worker, Success(w) PROVE SourcesInv'
  <2>1. /\ UNCHANGED <<path, response>> /\ job[w].phase \in {"compile", "ncs"}
        /\ job[w].want = <<>> /\ Busy(w)
    BY <1>12 DEF Success, Compiled, At, Busy, channels
  <2>2. CASE Goes(w, "ncs", <<>>)
    BY <1>11, <2>1, <2>2
  <2>3. CASE Ends(w, "validated")
    <3>1. (\A v \in Worker : v # w => job'[v] = job[v]) /\ job'[w].phase = "idle"
      BY <2>1, <2>3, EndsEffect
    <3>2. QED
      BY <1>5, <2>1, <3>1
  <2>4. QED
    BY <1>12, <2>2, <2>3 DEF Success
<1>13. ASSUME NEW w \in Worker, Skip(w) \/ Error(w) \/ WriteNdb(w) \/ WriteFails(w)
       PROVE  SourcesInv'
  <2>1. (\A v \in Worker : v # w => job'[v] = job[v]) /\ job'[w].phase = "idle"
    BY <1>13, EndingSteps DEF Finishes
  <2>2. UNCHANGED <<path, response>>
    BY <1>13 DEF Skip, Error, WriteNdb, WriteFails, channels
  <2>3. QED
    BY <1>5, <2>1, <2>2
<1>14. ASSUME NEW w \in Worker, WriteNcs(w) PROVE SourcesInv'
  <2>1. /\ UNCHANGED <<path, response>> /\ job[w].phase \in {"compile", "ncs"} /\ Busy(w)
        /\ Goes(w, "ndb", <<>>) /\ ~Waiting(w)
    BY <1>14 DEF WriteNcs, At, Busy, Waiting, channels
  <2>2. job[w].want = <<>>
    BY <2>1 DEF MessagesInv, Answering
  <2>3. QED
    BY <1>11, <2>1, <2>2
<1>15. QED
  BY <1>2, <1>3, <1>4, <1>6, <1>7, <1>8, <1>9, <1>10, <1>12, <1>13, <1>14 DEF Next, Step

LEMMA SourcesInit ==
  ASSUME Init
  PROVE  SourcesInv
<1>1. \A w \in Worker : job[w].phase = "idle"
  BY DEF Init, Idle, Job
<1>2. QED
  BY <1>1 DEF SourcesInv, SourcesOf

\* A worker that is done with a file has done something to it.
LEMMA EndsMaps ==
  ASSUME ScriptCompAssumption, Typed, NEW w \in Worker, Busy(w), NEW what, Ends(w, what)
  PROVE  PrivateBuild!Done(w, what)
<1> DEFINE working == [v \in Worker |-> job[v].file]
           after == [v \in Worker |-> job'[v].file]
<1>1. job[w].file \in File /\ job[w].file # None
  BY BusyHasFile DEF ScriptCompAssumption
<1>2. /\ fate' = [fate EXCEPT ![job[w].file] = what]
      /\ job' = [job EXCEPT ![w] = Idle] /\ Idle.file = None
  BY DEF Ends, Idle, Job
<1>3. after = [working EXCEPT ![w] = None]
  BY <1>2 DEF Typed, JobsTyped
<1>4. working[w] = job[w].file
  OBVIOUS
<1>5. QED
  BY <1>1, <1>2, <1>3, <1>4 DEF PrivateBuild!Done

\* A step of a worker that goes on with its file cannot be seen.
LEMMA MovesMaps ==
  ASSUME NEW w \in Worker, NEW from, NEW to, Moves(w, from, to),
         UNCHANGED <<errors, aborted, finished>>
  PROVE  UNCHANGED PrivateBuild!vars
<1>1. \A v \in Worker : job'[v].file = job[v].file
  BY DEF Moves
<1>2. [v \in Worker |-> job'[v].file] = [v \in Worker |-> job[v].file]
  BY <1>1
<1>3. QED
  BY <1>2 DEF Moves, PrivateBuild!vars

\* A compiler that has got all it wanted has a file whose sources exist.
LEMMA CompiledIsWhole ==
  ASSUME ScriptCompAssumption, Typed, MessagesInv, SourcesInv, NEW w \in Worker,
         job[w].phase \in {"compile", "ncs", "ndb"}, job[w].want = <<>>
  PROVE  job[w].file \in Resolvable
<1>1. job[w].file \in File
  BY BusyHasFile DEF Busy
<1>2. ToSet(<<>>) = {}
  BY DEF ToSet
<1>3. \A n \in {StemOf[job[w].file]} \cup ToSet(Includes[job[w].file]) : OwnFound(job[w].file, n)
  BY <1>2 DEF SourcesInv, SourcesOf
<1>4. QED
  BY <1>1, <1>3 DEF Resolvable, OwnFound

LEMMA TakeMaps ==
  ASSUME ScriptCompAssumption, Typed, NEW w \in Worker, NEW f \in File, Take(w, f)
  PROVE  PrivateBuild!Begin(w, f) \/ PrivateBuild!GiveUp(f)
<1> DEFINE working == [v \in Worker |-> job[v].file]
           after == [v \in Worker |-> job'[v].file]
<1>1. /\ job[w].phase = "idle" /\ f \in queued /\ queued' = queued \ {f}
      /\ UNCHANGED <<errors, aborted, finished>>
  BY DEF Take, At, counters
<1>2. job[w].file = None
  <2>1. job[w] \in {Idle} \cup BusyJobs /\ Idle.file = None
    BY DEF Typed, JobsTyped, Idle, Job
  <2>2. QED
    BY <1>1, <2>1 DEF BusyJobs
<1>3. CASE aborted
  <2>1. UNCHANGED job /\ fate' = [fate EXCEPT ![f] = "aborted"]
    BY <1>3 DEF Take
  <2>2. QED
    BY <1>1, <1>3, <2>1 DEF PrivateBuild!GiveUp
<1>4. CASE ~aborted
  <2>1. /\ job' = [job EXCEPT ![w] = IF w \in ready THEN Job(f, "prepare", <<>>)
                                     ELSE Job(f, "language", <<Language>>)]
        /\ UNCHANGED fate
    BY <1>4 DEF Take
  <2>2. (IF w \in ready THEN Job(f, "prepare", <<>>) ELSE Job(f, "language", <<Language>>)).file = f
    BY DEF Job
  <2>3. after = [working EXCEPT ![w] = f]
    BY <2>1, <2>2 DEF Typed, JobsTyped
  <2>4. working[w] = None
    BY <1>2
  <2>5. QED
    BY <1>1, <1>4, <2>1, <2>3, <2>4 DEF PrivateBuild!Begin
<1>5. QED
  BY <1>3, <1>4

LEMMA QuitMaps ==
  ASSUME Typed, Quit
  PROVE  PrivateBuild!Quit
<1>1. \A w \in Worker : job[w].file = None
  <2>1. \A w \in Worker : job[w].phase = "idle"
    BY DEF Quit, At
  <2>2. (\A w \in Worker : job[w] \in {Idle} \cup BusyJobs) /\ Idle.file = None
    BY DEF Typed, JobsTyped, Idle, Job
  <2>3. QED
    BY <2>1, <2>2 DEF BusyJobs
<1>2. \A w \in Worker : [v \in Worker |-> job[v].file][w] = None
  BY <1>1
<1>3. UNCHANGED <<queued, job, fate, errors, aborted>>
  BY DEF Quit, work, counters
<1>4. QED
  BY <1>2, <1>3 DEF Quit, PrivateBuild!Quit

\* What ends a task: the compile, the writing of its artifacts, or a failure.
LEMMA EndingMaps ==
  ASSUME ScriptCompAssumption, Typed, MessagesInv, SourcesInv, NEW w \in Worker,
         Success(w) \/ Skip(w) \/ Error(w) \/ WriteNdb(w) \/ WriteFails(w) \/ PrepareFails(w)
  PROVE  \/ PrivateBuild!Compile(w) \/ PrivateBuild!Reject(w) \/ PrivateBuild!Break(w)
         \/ UNCHANGED PrivateBuild!vars
<1> DEFINE working == [v \in Worker |-> job[v].file]
<1>0. working[w] = job[w].file
  OBVIOUS
<1>1. ASSUME NEW what \in {"built", "validated", "skipped"}, Ends(w, what), Busy(w),
             job[w].phase \in {"compile", "ndb"}, job[w].want = <<>>,
             UNCHANGED <<queued, errors, aborted, finished>>
      PROVE  PrivateBuild!Compile(w)
  <2>1. working[w] \in Resolvable
    BY <1>0, <1>1, CompiledIsWhole
  <2>2. PrivateBuild!Done(w, what)
    BY <1>1, EndsMaps
  <2>3. QED
    BY <1>1, <2>1, <2>2 DEF PrivateBuild!Compile
<1>2. CASE Success(w)
  <2>1. /\ Busy(w) /\ job[w].phase \in {"compile", "ndb"} /\ job[w].want = <<>>
        /\ UNCHANGED <<queued, errors, aborted, finished>>
    BY <1>2 DEF Success, Compiled, At, Busy
  <2>2. CASE Ends(w, "validated")
    BY <1>1, <2>1, <2>2
  <2>3. CASE Goes(w, "ncs", <<>>) /\ UNCHANGED fate
    <3>1. Moves(w, {"compile", "ndb"}, {"ncs"})
      BY <2>1, <2>3, GoingMoves, EmptySeq
    <3>2. QED
      BY <2>1, <3>1, MovesMaps
  <2>4. QED
    BY <1>2, <2>2, <2>3 DEF Success
<1>3. CASE Skip(w)
  <2>1. /\ Busy(w) /\ job[w].phase \in {"compile", "ndb"} /\ job[w].want = <<>>
        /\ UNCHANGED <<queued, errors, aborted, finished>> /\ Ends(w, "skipped")
    BY <1>3 DEF Skip, Compiled, At, Busy
  <2>2. QED
    BY <1>1, <2>1
<1>4. CASE WriteNdb(w)
  <2>1. /\ Busy(w) /\ job[w].phase \in {"compile", "ndb"} /\ ~Waiting(w)
        /\ UNCHANGED <<queued, errors, aborted, finished>> /\ Ends(w, "built")
    BY <1>4 DEF WriteNdb, At, Busy, Waiting, counters
  <2>2. job[w].want = <<>>
    BY <2>1 DEF MessagesInv, Answering
  <2>3. QED
    BY <1>1, <2>1, <2>2
<1>5. CASE Error(w)
  <2>1. /\ Busy(w) /\ Ends(w, "error") /\ errors' = errors + 1
        /\ aborted' = (aborted \/ ~Continue) /\ UNCHANGED <<queued, finished>>
    BY <1>5 DEF Error, Compiled, At, Busy
  <2>2. PrivateBuild!Done(w, "error")
    BY <2>1, EndsMaps
  <2>3. QED
    BY <2>1, <2>2 DEF PrivateBuild!Reject
<1>6. CASE WriteFails(w) \/ PrepareFails(w)
  <2>1. /\ Busy(w) /\ Ends(w, "raised") /\ errors' = errors + 1
        /\ aborted' = TRUE /\ UNCHANGED <<queued, finished>>
    BY <1>6 DEF WriteFails, PrepareFails, Counted, At, Busy
  <2>2. PrivateBuild!Done(w, "raised")
    BY <2>1, EndsMaps
  <2>3. QED
    BY <2>1, <2>2 DEF PrivateBuild!Break
<1>7. QED
  BY <1>2, <1>3, <1>4, <1>5, <1>6

LEMMA BuildMaps ==
  ASSUME ScriptCompAssumption, Typed, MessagesInv, SourcesInv, [Next]_vars
  PROVE  [PrivateBuild!Next]_(PrivateBuild!vars)
<1>1. ASSUME UNCHANGED <<queued, job, fate, errors, aborted, finished>>
      PROVE  UNCHANGED PrivateBuild!vars
  BY <1>1 DEF PrivateBuild!vars
<1>2. CASE UNCHANGED vars
  BY <1>1, <1>2 DEF vars, work, counters
<1>3. CASE Serve
  BY <1>1, <1>3 DEF Serve, work, counters
<1>4. CASE Quit
  BY <1>4, QuitMaps DEF PrivateBuild!Next
<1>5. ASSUME NEW w \in Worker, NEW f \in File, Take(w, f)
      PROVE  [PrivateBuild!Next]_(PrivateBuild!vars)
  BY <1>5, TakeMaps DEF PrivateBuild!Next
<1>6. ASSUME NEW w \in Worker, Prepare(w) \/ Request(w) \/ Receive(w) \/ WriteNcs(w)
      PROVE  UNCHANGED PrivateBuild!vars
  <2>1. UNCHANGED <<errors, aborted, finished>>
    BY <1>6 DEF Prepare, Request, Receive, WriteNcs, counters
  <2>2. CASE Prepare(w)
    BY <2>1, <2>2, PrepareMoves, MovesMaps
  <2>3. CASE Request(w)
    BY <2>1, <2>3, RequestMoves, MovesMaps
  <2>4. CASE Receive(w)
    BY <2>1, <2>4, ReceiveMoves, MovesMaps
  <2>5. CASE WriteNcs(w)
    BY <2>1, <2>5, WriteNcsMoves, MovesMaps
  <2>6. QED
    BY <1>6, <2>2, <2>3, <2>4, <2>5
<1>7. ASSUME NEW w \in Worker,
             Success(w) \/ Skip(w) \/ Error(w) \/ WriteNdb(w) \/ WriteFails(w) \/ PrepareFails(w)
      PROVE  [PrivateBuild!Next]_(PrivateBuild!vars)
  BY <1>7, EndingMaps DEF PrivateBuild!Next
<1>8. QED
  BY <1>2, <1>3, <1>4, <1>5, <1>6, <1>7 DEF Next, Step

LEMMA BuildMapsInit ==
  ASSUME Init
  PROVE  PrivateBuild!Init
<1>1. \A w \in Worker : job[w].file = None
  BY DEF Init, Idle, Job
<1>2. [w \in Worker |-> job[w].file] = [w \in Worker |-> None]
  BY <1>1
<1>3. QED
  BY <1>2 DEF Init, PrivateBuild!Init

\* With any number of workers, one service thread and whatever order the base
\* containers have got into, what becomes of each file is what one step could
\* have done to it that compiles it on its own: it is built, validated or
\* skipped only if every source it names can be found from where it is, and
\* files are given up only after an error that is counted (doCompile and
\* serviceRmDemand of nwn_script_comp.nim).  Which file an include resolves to
\* may depend on the other workers (see ResolvedAlone); whether there is one
\* never does.
THEOREM PrivatelyBuilt ==
  Spec => IsPrivateBuild
<1> DEFINE J == IInv /\ BaseComplete /\ SourcesInv
<1>1. Init => J /\ PrivateBuild!Init
  <2> SUFFICES ASSUME Init PROVE J /\ PrivateBuild!Init
    OBVIOUS
  <2>1. IInv
    BY TypedInit, MessagesInit, FilesInit, CountInit, ScriptCompAssumption DEF IInv
  <2>2. BaseComplete /\ SourcesInv
    BY BaseInit, SourcesInit, ScriptCompAssumption
  <2>3. QED
    BY <2>1, <2>2, BuildMapsInit
<1>2. J /\ [Next]_vars => J'
  <2> SUFFICES ASSUME J, [Next]_vars PROVE J'
    OBVIOUS
  <2>1. IInv'
    BY TypedStep, MessagesStep, FilesStep, CountStep, ScriptCompAssumption DEF IInv
  <2>2. BaseComplete'
    BY BaseCompleteStep, ScriptCompAssumption DEF IInv
  <2>3. SourcesInv'
    BY SourcesStep, ScriptCompAssumption DEF IInv
  <2>4. QED
    BY <2>1, <2>2, <2>3
<1>3. J /\ [Next]_vars => [PrivateBuild!Next]_(PrivateBuild!vars)
  BY BuildMaps, ScriptCompAssumption DEF IInv
<1>4. QED
  BY <1>1, <1>2, <1>3, PTL DEF Spec, IsPrivateBuild, PrivateBuild!Spec

-----------------------------------------------------------------------------
(* That a run ends, as far as it is a matter of single steps.              *)

\* How far a worker has got with the source it wants: asked for, answered.
Got(w) ==
  IF response[w] # <<>> THEN 2 ELSE IF job[w].asked = TRUE THEN 1 ELSE 0

\* The steps a task may take from its beginning; one that has its compiler, a step
\* less than three less.
Longest(f) == 10 + 3 * Len(Includes[f])

\* The steps a worker and the service may still take for the file the worker has.
Left(w) ==
  LET j == job[w]
  IN CASE j.phase = "language" -> 7 + 3 * Len(Includes[j.file]) + 3 * Len(j.want) - Got(w)
       [] j.phase = "prepare" -> 7 + 3 * Len(Includes[j.file])
       [] j.phase = "compile" -> 3 + 3 * Len(j.want) - Got(w)
       [] j.phase = "ncs" -> 2
       [] j.phase \in {"ndb", "broken"} -> 1
       [] OTHER -> 0

\* What a step may be: one of those left to a worker, the beginning of a task, or
\* the end of the program.
LeadsOn ==
  \/ /\ \E w \in Worker : /\ Left(w)' < Left(w)
                          /\ \A v \in Worker \ {w} : Left(v)' = Left(v)
     /\ UNCHANGED <<queued, finished>>
  \/ /\ \E f \in queued, w \in Worker :
          /\ queued' = queued \ {f}
          /\ Left(w) = 0 /\ Left(w)' <= Longest(f)
          /\ \A v \in Worker \ {w} : Left(v)' = Left(v)
     /\ UNCHANGED finished
  \/ /\ ~finished /\ finished'
     /\ queued' = queued /\ \A v \in Worker : Left(v)' = Left(v)

\* What a worker may do next, if anything.
MayStep(w) ==
  \/ At(w, "idle") /\ queued # {}
  \/ job[w].want # <<>> /\ ~job[w].asked
  \/ job[w].asked /\ response[w] # <<>>
  \/ Compiled(w)
  \/ job[w].phase \in {"prepare", "broken", "ncs", "ndb"}

\* A compiler that is being made wants the language.
MakingInv == \A w \in Worker : job[w].phase = "language" => job[w].want # <<>>

LEMMA LeftUnchanged ==
  ASSUME NEW w, job'[w] = job[w], response'[w] = response[w]
  PROVE  Left(w)' = Left(w)
BY DEF Left, Got

\* The parts that are left are numbers.
LEMMA LeftIs ==
  ASSUME ScriptCompAssumption, Typed, MessagesInv, NEW w \in Worker
  PROVE  /\ Left(w) \in Nat
         /\ Got(w) \in 0..2
         /\ Got(w) # 0 => job[w].asked = TRUE /\ Waiting(w)
         /\ Busy(w) => Len(Includes[job[w].file]) \in Nat /\ Len(job[w].want) \in Nat
         /\ job[w].want # <<>> => Len(job[w].want) > 0
         /\ ~Busy(w) => Left(w) = 0
<1>1. Got(w) \in 0..2
  BY DEF Got
<1>2. Got(w) # 0 => job[w].asked = TRUE /\ Waiting(w)
  BY DEF Got, MessagesInv, Answering
<1>3. ASSUME Busy(w)
      PROVE  Len(Includes[job[w].file]) \in Nat /\ job[w].want \in Seq(STRING)
  <2>1. job[w] \in BusyJobs /\ job[w].file \in File
    BY <1>3, BusyHasFile
  <2>2. Includes[job[w].file] \in Seq(STRING)
    BY <2>1 DEF ScriptCompAssumption
  <2>3. QED
    BY <2>1, <2>2, LenProperties DEF BusyJobs
<1>4. Busy(w) => Len(job[w].want) \in Nat
  BY <1>3, LenProperties
<1>5. ASSUME job[w].want # <<>> PROVE Len(job[w].want) > 0
  <2>1. job[w] \in BusyJobs
    BY <1>5, BusyHasFile
  <2>2. job[w].want \in Seq(STRING)
    BY <2>1 DEF BusyJobs
  <2>3. QED
    BY <1>5, <2>2, EmptySeq, LenProperties
<1>6. ~Busy(w) => Left(w) = 0
  BY DEF Busy, Left
<1>7. Left(w) \in Nat
  <2>1. CASE ~Busy(w)
    BY <1>6, <2>1
  <2>2. CASE Busy(w)
    <3> DEFINE n == Len(Includes[job[w].file])
               k == Len(job[w].want)
               g == Got(w)
    <3>1. n \in Nat /\ k \in Nat /\ g \in 0..2 /\ (g # 0 => k > 0)
      BY <1>1, <1>2, <1>3, <1>4, <1>5, <2>2 DEF Waiting
    <3>2. Left(w) \in {7 + 3 * n + 3 * k - g, 7 + 3 * n, 3 + 3 * k - g, 2, 1, 0}
      BY DEF Left
    <3> HIDE DEF n, k, g
    <3>3. QED
      BY <3>1, <3>2
  <2>3. QED
    BY <2>1, <2>2
<1>8. QED
  BY <1>1, <1>2, <1>3, <1>4, <1>5, <1>6, <1>7

LEMMA MakingStep ==
  ASSUME ScriptCompAssumption, Typed, MessagesInv, MakingInv, [Next]_vars
  PROVE  MakingInv'
<1>1. ASSUME job' = job PROVE MakingInv'
  BY <1>1 DEF MakingInv
<1>2. ASSUME NEW w \in Worker, \A v \in Worker : v # w => job'[v] = job[v],
             job'[w].phase = "language" => job'[w].want # <<>>
      PROVE  MakingInv'
  BY <1>2 DEF MakingInv
<1>3. CASE UNCHANGED vars \/ Serve \/ Quit
  BY <1>1, <1>3 DEF vars, work, Serve, Quit
<1>4. ASSUME NEW w \in Worker, NEW f \in File, Take(w, f) PROVE MakingInv'
  <2>1. CASE job' = job
    BY <1>1, <2>1
  <2>2. CASE job' # job
    <3>1. job' = [job EXCEPT ![w] = IF w \in ready THEN Job(f, "prepare", <<>>)
                                    ELSE Job(f, "language", <<Language>>)]
      BY <1>4, <2>2 DEF Take
    <3>2. job'[w].phase = "language" => job'[w].want # <<>>
      BY <3>1 DEF Job, Typed, JobsTyped
    <3>3. QED
      BY <1>2, <1>4, <3>2, TakeEffect
  <2>3. QED
    BY <2>1, <2>2
<1>5. ASSUME NEW w \in Worker, Prepare(w) \/ Receive(w) PROVE MakingInv'
  <2>1. (\A v \in Worker : v # w => job'[v] = job[v]) /\ job'[w].phase # "language"
    BY <1>5, PrepareMoves, ReceiveMoves DEF Moves
  <2>2. QED
    BY <1>2, <2>1
<1>6. ASSUME NEW w \in Worker, Request(w) PROVE MakingInv'
  <2>1. (\A v \in Worker : v # w => job'[v] = job[v]) /\ job'[w].want = job[w].want
    BY <1>6, RequestMoves DEF Moves
  <2>2. job[w].want # <<>>
    BY <1>6 DEF Request
  <2>3. QED
    BY <1>2, <2>1, <2>2
<1>7. ASSUME NEW w \in Worker, Success(w) \/ WriteNcs(w) \/ Skip(w) \/ Error(w) \/ WriteNdb(w)
                               \/ PrepareFails(w) \/ WriteFails(w)
      PROVE  MakingInv'
  <2>1. (\A v \in Worker : v # w => job'[v] = job[v]) /\ job'[w].phase # "language"
    <3>1. CASE Success(w)
      BY <3>1, SuccessMoves DEF Moves, Finishes
    <3>2. CASE WriteNcs(w)
      BY <3>2, WriteNcsMoves DEF Moves
    <3>3. CASE Skip(w) \/ Error(w) \/ WriteNdb(w) \/ PrepareFails(w) \/ WriteFails(w)
      BY <3>3, EndingSteps DEF Finishes
    <3>4. QED
      BY <1>7, <3>1, <3>2, <3>3
  <2>2. QED
    BY <1>2, <2>1
<1>8. QED
  BY <1>3, <1>4, <1>5, <1>6, <1>7 DEF Next, Step

LEMMA MakingInit ==
  ASSUME Init
  PROVE  MakingInv
BY DEF Init, MakingInv, Idle, Job

\* One worker has less left, and nothing else has changed that counts.
LEMMA OneLess ==
  ASSUME NEW w \in Worker, (Left(w))' < Left(w),
         \A v \in Worker : v # w => job'[v] = job[v] /\ response'[v] = response[v],
         UNCHANGED <<queued, finished>>
  PROVE  LeadsOn
<1>1. \A v \in Worker \ {w} : (Left(v))' = Left(v)
  BY LeftUnchanged
<1>2. QED
  BY <1>1 DEF LeadsOn

\* What is left to a worker that waits for an answer, and to one that does not.
LEMMA LeftWaiting ==
  ASSUME NEW w \in Worker, Waiting(w)
  PROVE  Left(w) = (IF job[w].phase = "language" THEN 7 + 3 * Len(Includes[job[w].file]) ELSE 3)
                   + 3 * Len(job[w].want) - Got(w)
BY DEF Left, Waiting

LEMMA LeadsServe ==
  ASSUME ScriptCompAssumption, Typed, MessagesInv, Serve
  PROVE  LeadsOn
<1>1. requests # <<>> /\ 1 \in DOMAIN requests /\ Head(requests) = requests[1]
  BY EmptySeq, LenProperties DEF Serve, Typed
<1>2. PICK w \in Worker : w = requests[1].worker
  BY <1>1, RequestType
<1> DEFINE n == Len(Includes[job[w].file])
           k == Len(job[w].want)
<1>3. response[w] = <<>> /\ job[w].asked = TRUE /\ Waiting(w)
  BY <1>1, <1>2 DEF MessagesInv, Requested, Answering
<1>4. PICK a : response' = [response EXCEPT ![w] = Append(@, a)]
  BY <1>1, <1>2 DEF Serve, Answered
<1>5. response'[w] = <<a>> /\ \A v \in Worker : v # w => response'[v] = response[v]
  BY <1>2, <1>3, <1>4 DEF Typed
<1>6. job' = job /\ UNCHANGED <<queued, finished>>
  BY DEF Serve, work
<1>7. Got(w) = 1 /\ (Got(w))' = 2
  BY <1>3, <1>5, <1>6 DEF Got
<1>8. n \in Nat /\ k \in Nat
  BY <1>2, <1>3, LeftIs DEF Busy, Waiting
<1>9. Left(w) = (IF job[w].phase = "language" THEN 7 + 3 * n ELSE 3) + 3 * k - 1
  BY <1>2, <1>3, <1>7, LeftWaiting
<1>10. (Left(w))' = (IF job[w].phase = "language" THEN 7 + 3 * n ELSE 3) + 3 * k - 2
  BY <1>3, <1>6, <1>7 DEF Left, Waiting
<1> HIDE DEF n, k
<1>11. (Left(w))' < Left(w)
  BY <1>8, <1>9, <1>10
<1>12. QED
  BY <1>2, <1>5, <1>6, <1>11, OneLess

LEMMA LeadsRequest ==
  ASSUME ScriptCompAssumption, Typed, MessagesInv, NEW w \in Worker, Request(w)
  PROVE  LeadsOn
<1> DEFINE n == Len(Includes[job[w].file])
           k == Len(job[w].want)
<1>1. job[w] \in BusyJobs /\ Waiting(w)
  BY BusyHasFile DEF Request, MessagesInv, Answering
<1>2. response[w] = <<>> /\ ~job[w].asked /\ job[w].asked # TRUE
  BY DEF Request, MessagesInv, Answering
<1>3. job' = [job EXCEPT ![w].asked = TRUE] /\ response' = response /\ UNCHANGED <<queued, finished>>
  BY DEF Request
<1>4. /\ job'[w].phase = job[w].phase /\ job'[w].want = job[w].want
      /\ job'[w].file = job[w].file /\ job'[w].asked = TRUE
      /\ \A v \in Worker : v # w => job'[v] = job[v]
  BY <1>1, <1>3 DEF Typed, JobsTyped, BusyJobs
<1>5. Got(w) = 0 /\ (Got(w))' = 1
  BY <1>2, <1>3, <1>4 DEF Got
<1>6. n \in Nat /\ k \in Nat
  BY <1>1, LeftIs DEF Busy, Waiting
<1>7. Left(w) = (IF job[w].phase = "language" THEN 7 + 3 * n ELSE 3) + 3 * k - 0
  BY <1>1, <1>5, LeftWaiting
<1>8. (Left(w))' = (IF job[w].phase = "language" THEN 7 + 3 * n ELSE 3) + 3 * k - 1
  BY <1>1, <1>4, <1>5 DEF Left, Waiting
<1> HIDE DEF n, k
<1>9. (Left(w))' < Left(w)
  BY <1>6, <1>7, <1>8
<1>10. QED
  BY <1>3, <1>4, <1>9, OneLess

LEMMA LeadsReceive ==
  ASSUME ScriptCompAssumption, Typed, MessagesInv, NEW w \in Worker, Receive(w)
  PROVE  LeadsOn
<1> DEFINE n == Len(Includes[job[w].file])
           k == Len(job[w].want)
<1>1. response[w] # <<>> /\ job[w].asked = TRUE /\ Waiting(w) /\ Busy(w)
  BY DEF Receive, MessagesInv, Answering, Waiting, Busy
<1>2. job[w] \in BusyJobs /\ job[w].want \in Seq(STRING) /\ job[w].want # <<>>
  BY <1>1, BusyHasFile DEF BusyJobs, Waiting
<1>3. response'[w] = <<>> /\ \A v \in Worker : v # w => response'[v] = response[v]
  BY ReceiveEmpties
<1>4. UNCHANGED <<queued, finished>>
  BY DEF Receive
<1>5. Got(w) = 2
  BY <1>1 DEF Got
<1>6. n \in Nat /\ k \in Nat /\ k > 0
  BY <1>1, <1>2, LeftIs
<1>7. Left(w) = (IF job[w].phase = "language" THEN 7 + 3 * n ELSE 3) + 3 * k - 2
  BY <1>1, <1>5, LeftWaiting
<1>8. /\ \A v \in Worker : v # w => job'[v] = job[v]
      /\ (Left(w))' = IF job[w].phase = "language" THEN 7 + 3 * n
                      ELSE IF Head(response[w]) = None THEN 1 ELSE 3 + 3 * (k - 1)
  <2>1. CASE At(w, "language")
    <3>1. Goes(w, "prepare", <<>>)
      BY <2>1 DEF Receive
    <3>2. /\ \A v \in Worker : v # w => job'[v] = job[v]
          /\ job'[w].file = job[w].file /\ job'[w].phase = "prepare"
      BY <1>1, <3>1, GoesEffect, EmptySeq
    <3>3. QED
      BY <2>1, <3>2 DEF At, Left
  <2>2. CASE ~At(w, "language") /\ Head(response[w]) = None
    <3>1. Goes(w, "broken", <<>>)
      BY <2>2 DEF Receive
    <3>2. (\A v \in Worker : v # w => job'[v] = job[v]) /\ job'[w].phase = "broken"
      BY <1>1, <3>1, GoesEffect, EmptySeq
    <3>3. QED
      BY <2>2, <3>2 DEF At, Left
  <2>3. CASE ~At(w, "language") /\ Head(response[w]) # None
    <3>1. Goes(w, "compile", Tail(job[w].want))
      BY <2>3 DEF Receive
    <3>2. Tail(job[w].want) \in Seq(STRING) /\ Len(Tail(job[w].want)) = k - 1
      BY <1>2, HeadTailProperties
    <3>3. /\ \A v \in Worker : v # w => job'[v] = job[v]
          /\ job'[w].phase = "compile" /\ job'[w].want = Tail(job[w].want)
          /\ job'[w].asked = FALSE
      BY <1>1, <3>1, <3>2, GoesEffect
    <3>4. (Got(w))' = 0
      BY <1>3, <3>3 DEF Got
    <3> HIDE DEF k
    <3>5. (Left(w))' = 3 + 3 * (k - 1) - 0
      BY <3>2, <3>3, <3>4 DEF Left
    <3>6. QED
      BY <1>6, <2>3, <3>3, <3>5 DEF At
  <2>4. QED
    BY <2>1, <2>2, <2>3
<1> HIDE DEF n, k
<1>9. (Left(w))' < Left(w)
  BY <1>6, <1>7, <1>8
<1>10. QED
  BY <1>3, <1>4, <1>8, <1>9, OneLess

LEMMA LeadsPrepare ==
  ASSUME ScriptCompAssumption, Typed, MessagesInv, NEW w \in Worker, Prepare(w)
  PROVE  LeadsOn
<1> DEFINE f == job[w].file
           n == Len(Includes[f])
           want == <<StemOf[f]>> \o Includes[f]
<1>1. job[w].phase = "prepare" /\ Busy(w) /\ f \in File
  BY BusyHasFile DEF Prepare, At, Busy
<1>2. Includes[f] \in Seq(STRING) /\ <<StemOf[f]>> \in Seq(STRING) /\ Len(<<StemOf[f]>>) = 1
  BY <1>1 DEF ScriptCompAssumption
<1>3. want \in Seq(STRING) /\ Len(want) = 1 + n /\ n \in Nat
  BY <1>2, ConcatProperties, LenProperties
<1>4. Goes(w, "compile", want) /\ response' = response /\ UNCHANGED <<queued, finished>>
  BY DEF Prepare, channels
<1> HIDE DEF want
<1>5. /\ \A v \in Worker : v # w => job'[v] = job[v]
      /\ job'[w].phase = "compile" /\ job'[w].want = want /\ job'[w].asked = FALSE
  BY <1>1, <1>3, <1>4, GoesEffect
<1>6. response[w] = <<>>
  BY <1>1 DEF MessagesInv, Answering, Waiting
<1>7. (Got(w))' = 0
  BY <1>4, <1>5, <1>6 DEF Got
<1>8. Left(w) = 7 + 3 * n
  BY <1>1 DEF Left
<1> HIDE DEF n
<1>9. (Left(w))' = 3 + 3 * (1 + n) - 0
  BY <1>3, <1>5, <1>7 DEF Left
<1>10. (Left(w))' < Left(w)
  BY <1>3, <1>8, <1>9
<1>11. QED
  BY <1>4, <1>5, <1>10, OneLess

\* A worker that goes from one of the last phases to a later one, or is done.
LEMMA LeadsToEnd ==
  ASSUME ScriptCompAssumption, Typed, MessagesInv, NEW w \in Worker,
         \/ job[w].phase = "prepare" \/ job[w].phase = "broken"
         \/ job[w].phase = "compile" /\ job[w].want = <<>>
         \/ job[w].phase = "ncs" \/ job[w].phase = "ndb",
         \/ job'[w].phase = "idle"
         \/ job[w].phase = "compile" /\ job'[w].phase = "ncs"
         \/ job[w].phase = "ncs" /\ job'[w].phase = "ndb",
         \A v \in Worker : v # w => job'[v] = job[v],
         UNCHANGED <<response, queued, finished>>
  PROVE  LeadsOn
<1> DEFINE n == Len(Includes[job[w].file])
<1>1. Busy(w) /\ n \in Nat
  BY LeftIs DEF Busy
<1>2. /\ job[w].phase = "prepare" => Left(w) = 7 + 3 * n
      /\ job[w].phase = "ncs" => Left(w) = 2
      /\ job[w].phase \in {"ndb", "broken"} => Left(w) = 1
  BY DEF Left
<1>3. ASSUME job[w].phase = "compile", job[w].want = <<>> PROVE Left(w) = 3
  <2>1. Got(w) = 0
    BY <1>3, LeftIs DEF Waiting
  <2>2. Len(job[w].want) = 0
    BY <1>3
  <2>3. QED
    BY <1>3, <2>1, <2>2 DEF Left
<1>4. /\ job'[w].phase = "idle" => (Left(w))' = 0
      /\ job'[w].phase = "ncs" => (Left(w))' = 2
      /\ job'[w].phase = "ndb" => (Left(w))' = 1
  BY DEF Left
<1> HIDE DEF n
<1>5. (Left(w))' < Left(w)
  BY <1>1, <1>2, <1>3, <1>4
<1>6. QED
  BY <1>5, OneLess

LEMMA LeadsTake ==
  ASSUME ScriptCompAssumption, Typed, MessagesInv, NEW w \in Worker, NEW f \in File, Take(w, f)
  PROVE  LeadsOn
<1> DEFINE n == Len(Includes[f])
<1>1. /\ job[w].phase = "idle" /\ f \in queued /\ queued' = queued \ {f}
      /\ \A v \in Worker : v # w => job'[v] = job[v]
  BY TakeEffect
<1>2. response' = response /\ finished' = finished
  BY DEF Take, channels
<1>3. \A v \in Worker \ {w} : (Left(v))' = Left(v)
  BY <1>1, <1>2, LeftUnchanged
<1>4. Left(w) = 0
  BY <1>1 DEF Left
<1>5. Includes[f] \in Seq(STRING) /\ n \in Nat
  BY LenProperties DEF ScriptCompAssumption
<1>6. (Left(w))' <= Longest(f)
  <2>1. CASE job' = job
    <3>1. (Left(w))' = 0
      BY <1>2, <1>4, <2>1, LeftUnchanged
    <3> HIDE DEF n
    <3>2. 0 <= 10 + 3 * n
      BY <1>5
    <3>3. QED
      BY <3>1, <3>2 DEF Longest, n
  <2>2. CASE job' # job
    <3>1. job' = [job EXCEPT ![w] = IF w \in ready THEN Job(f, "prepare", <<>>)
                                    ELSE Job(f, "language", <<Language>>)]
      BY <2>2 DEF Take
    <3>2. \/ job'[w].phase = "prepare" /\ job'[w].file = f
          \/ /\ job'[w].phase = "language" /\ job'[w].file = f
             /\ job'[w].want = <<Language>>
      BY <3>1 DEF Job, Typed, JobsTyped
    <3>3. (Got(w))' \in 0..2
      BY DEF Got
    <3>4. PICK g \in 0..2 : g = (Got(w))'
      BY <3>3
    <3>5. (Left(w))' = 7 + 3 * n \/ (Left(w))' = 7 + 3 * n + 3 * 1 - g
      BY <3>2, <3>4 DEF Left
    <3> HIDE DEF n
    <3>6. (Left(w))' <= 10 + 3 * n
      BY <1>5, <3>4, <3>5
    <3>7. QED
      BY <3>6 DEF Longest, n
  <2>3. QED
    BY <2>1, <2>2
<1>7. QED
  BY <1>1, <1>2, <1>3, <1>4, <1>6 DEF LeadsOn

LEMMA LeadsQuit ==
  ASSUME Quit
  PROVE  LeadsOn
<1>1. ~finished /\ finished' /\ queued' = queued /\ job' = job /\ response' = response
  BY DEF Quit, work, channels
<1>2. \A v \in Worker : (Left(v))' = Left(v)
  BY <1>1, LeftUnchanged
<1>3. QED
  BY <1>1, <1>2 DEF LeadsOn

LEMMA LeadsEnding ==
  ASSUME ScriptCompAssumption, Typed, MessagesInv, NEW w \in Worker,
         \/ Success(w) \/ WriteNcs(w) \/ Skip(w) \/ Error(w) \/ WriteNdb(w)
         \/ PrepareFails(w) \/ WriteFails(w)
  PROVE  LeadsOn
<1>1. UNCHANGED <<response, queued, finished>>
  BY DEF Success, WriteNcs, Skip, Error, WriteNdb, PrepareFails, WriteFails, channels
<1>2. CASE Success(w)
  <2>1. job[w].phase = "compile" /\ job[w].want = <<>>
    BY <1>2 DEF Success, Compiled, At
  <2>2. (\A v \in Worker : v # w => job'[v] = job[v]) /\ job'[w].phase \in {"ncs", "idle"}
    BY <1>2, SuccessMoves DEF Moves, Finishes
  <2>3. QED
    BY <1>1, <2>1, <2>2, LeadsToEnd
<1>3. CASE WriteNcs(w)
  <2>1. /\ \A v \in Worker : v # w => job'[v] = job[v]
        /\ job[w].phase = "ncs" /\ job'[w].phase = "ndb"
    BY <1>3, WriteNcsMoves DEF Moves
  <2>2. QED
    BY <1>1, <2>1, LeadsToEnd
<1>4. CASE Skip(w) \/ Error(w) \/ WriteNdb(w) \/ PrepareFails(w) \/ WriteFails(w)
  <2>1. (\A v \in Worker : v # w => job'[v] = job[v]) /\ job'[w].phase = "idle"
    BY <1>4, EndingSteps DEF Finishes
  <2>2. \/ job[w].phase = "prepare" \/ job[w].phase = "broken"
        \/ job[w].phase = "compile" /\ job[w].want = <<>>
        \/ job[w].phase = "ncs" \/ job[w].phase = "ndb"
    BY <1>4 DEF Skip, Error, WriteNdb, PrepareFails, WriteFails, Compiled, At
  <2>3. QED
    BY <1>1, <2>1, <2>2, LeadsToEnd
<1>5. QED
  BY <1>2, <1>3, <1>4

LEMMA LeadsStep ==
  ASSUME ScriptCompAssumption, Typed, MessagesInv, [Next]_vars
  PROVE  LeadsOn \/ UNCHANGED vars
BY LeadsServe, LeadsRequest, LeadsReceive, LeadsPrepare, LeadsTake, LeadsQuit, LeadsEnding
DEF Next, Step

LEMMA MakingAlways ==
  Spec => [](IInv /\ MakingInv)
<1>1. Init => IInv /\ MakingInv
  BY TypedInit, MessagesInit, FilesInit, CountInit, MakingInit, ScriptCompAssumption DEF IInv
<1>2. IInv /\ MakingInv /\ [Next]_vars => (IInv /\ MakingInv)'
  BY TypedStep, MessagesStep, FilesStep, CountStep, MakingStep, ScriptCompAssumption DEF IInv
<1>3. QED
  BY <1>1, <1>2, PTL DEF Spec

\* Every step of a run leads on: it takes one from what one worker has left to
\* do for its file, counting the questions it has still to ask and the answers
\* it has still to get, or it begins a file, of which there are only so many,
\* or it ends the program.  No step of another worker, of the service or of a
\* failing call gives a worker more to do: no run goes on for ever (resolveFile
\* and doCompile of nwn_script_comp.nim).
THEOREM EveryStepLeadsOn ==
  Spec => [][LeadsOn]_vars
<1>1. IInv /\ [Next]_vars => [LeadsOn]_vars
  BY LeadsStep, ScriptCompAssumption DEF IInv
<1>2. QED
  BY <1>1, IInvAlways, PTL DEF Spec

\* What is left to each worker is a number, so it can not become less for ever.
THEOREM LeftIsNumber ==
  Spec => [](\A w \in Worker : Left(w) \in Nat)
<1>1. IInv => \A w \in Worker : Left(w) \in Nat
  BY LeftIs, ScriptCompAssumption DEF IInv
<1>2. QED
  BY <1>1, IInvAlways, PTL

\* No run stands still before it is finished: a request can be served, or a
\* worker can go on, or all of them are done and main can quit.  No worker waits
\* for an answer nobody owes it, and no task for a worker that will not come
\* (resolveFile, the demandResRefThread and compileAll of nwn_script_comp.nim).
THEOREM SomebodyMayStep ==
  ASSUME Worker # {}
  PROVE  Spec => [](\/ finished \/ requests # <<>>
                    \/ queued = {} /\ \A w \in Worker : At(w, "idle")
                    \/ \E w \in Worker : MayStep(w))
<1> DEFINE Alive == \/ finished \/ requests # <<>>
                    \/ queued = {} /\ \A w \in Worker : At(w, "idle")
                    \/ \E w \in Worker : MayStep(w)
<1>1. IInv /\ MakingInv => Alive
  <2> SUFFICES ASSUME IInv, MakingInv, requests = <<>>, \A w \in Worker : ~MayStep(w)
               PROVE  queued = {} /\ \A w \in Worker : At(w, "idle")
    OBVIOUS
  <2>1. ASSUME NEW w \in Worker PROVE ~Busy(w)
    <3> SUFFICES ASSUME Busy(w) PROVE FALSE
      OBVIOUS
    <3>1. job[w].phase \in {"language", "compile"}
      <4>1. job[w] \in BusyJobs
        BY BusyHasFile DEF IInv
      <4>2. job[w].phase \notin {"prepare", "broken", "ncs", "ndb"}
        BY DEF MayStep
      <4>3. QED
        BY <4>1, <4>2 DEF BusyJobs
    <3>2. job[w].want # <<>>
      BY <3>1 DEF MakingInv, MayStep, Compiled, At
    <3>3. job[w].asked = TRUE
      <4>1. job[w].asked \in BOOLEAN
        BY BusyHasFile DEF IInv, BusyJobs
      <4>2. QED
        BY <3>2, <4>1 DEF MayStep
    <3>4. response[w] = <<>>
      BY <3>3 DEF MayStep
    <3>5. \E i \in DOMAIN requests : requests[i].worker = w
      BY <3>3, <3>4 DEF IInv, MessagesInv, Answering
    <3>6. QED
      BY <3>5
  <2>2. \A w \in Worker : At(w, "idle")
    BY <2>1 DEF Busy, At
  <2>3. queued = {}
    BY <2>2 DEF MayStep
  <2>4. QED
    BY <2>2, <2>3
<1>2. QED
  BY <1>1, MakingAlways, PTL
=============================================================================
