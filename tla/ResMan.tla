------------------------------- MODULE ResMan -------------------------------
(***************************************************************************)
(* A ResMan (neverwinter/resman.nim) over directories (resdir.nim): the    *)
(* list of containers, what each directory object believes to contain, and *)
(* the LRU cache of what was found, while other programs change the files. *)
(* A lookup asks one container after the other, each with system calls     *)
(* between which files come and go.                                        *)
(***************************************************************************)
EXTENDS LruCache, ContainerList

CONSTANTS
  Name, Container,
  Size,          \* sizes of files
  None,          \* no file, no container, no lookup
  Caching,       \* newResMan(cacheSizeMB > 0)
  MaxUses,       \* bound: hits on one cache entry
  MaxChanges     \* bound: changes to files

\* A lookup running: the container it is at, and whether no file was removed
\* since it began; and how a lookup ended.
Lookup ==
  [op : {"get", "demand"}, name : Name, cached : BOOLEAN, calm : BOOLEAN,
   phase : {"contains", "demand", "fetch", "stat"}, at : Nat \ {0}]

Ending ==
  [op : {"get", "demand"}, name : Name, calm : BOOLEAN,
   kind : {"cached", "found", "none", "raised", "nil", "crash"},
   from : Container \cup {None}]

ASSUME ResManAssumption ==
  /\ Size \subseteq Nat
  /\ None \notin Size \cup Container
  /\ None \notin Lookup /\ None \notin Ending
  /\ Caching \in BOOLEAN
  /\ MaxUses \in Nat /\ MaxChanges \in Nat

VARIABLES
  disk,          \* the size of each directory's file of each name, or None
  known,         \* ResDir.contentSet: the names a directory object lists
  containers,    \* ResMan.containers
  cache,         \* ResMan.cache
  call,          \* the lookup running, or None
  outcome,       \* how the last lookup ended, or None
  added,         \* history: the containers, the one added last first
  mixed,         \* history: "late" if a container was added after a lookup,
                 \* "deleted" if one was deleted
  changes        \* history: how many files were changed

vars == <<disk, known, containers, cache, call, outcome, added, mixed, changes>>

OnDisk(c) == {n \in Name : disk[c][n] # None}

\* checkExists: a name is there if it was when the directory was listed and
\* the file still is; the object forgets a name whose file is gone.
ThereWhenListed(c, n) == n \in known[c]  \* variant
There(c, n) == n \in known[c] /\ n \in OnDisk(c)

RememberedBy(c, n) == known  \* variant
ForgottenBy(c, n) ==
  IF n \in OnDisk(c) THEN known ELSE [known EXCEPT ![c] = @ \ {n}]

Init ==
  /\ disk \in [Container -> [Name -> Size \cup {None}]]
  /\ known = [c \in Container |-> OnDisk(c)]
  /\ containers = <<>> /\ added = <<>> /\ mixed = {}
  /\ cache = EmptyCache
  /\ call = None /\ outcome = None
  /\ changes = 0

Running == outcome # None => outcome.kind # "crash"

-----------------------------------------------------------------------------
(* Containers.                                                             *)

\* newResDir: another object for a directory that is not in use.
Open(c) ==
  /\ Running /\ call = None /\ ~Contains(containers, c)
  /\ known' = [known EXCEPT ![c] = OnDisk(c)]
  /\ UNCHANGED <<disk, containers, cache, call, outcome, added, mixed, changes>>

Add(c) ==
  /\ Running /\ call = None /\ ~Contains(containers, c)
  /\ containers' = Added(containers, c)
  /\ added' = <<c>> \o added
  /\ mixed' = IF outcome = None THEN mixed ELSE mixed \cup {"late"}
  /\ UNCHANGED <<disk, known, cache, call, outcome, changes>>

Del(c) ==
  /\ Running /\ call = None
  /\ containers' = Deleted(containers, c)
  /\ added' = IF Contains(added, c)
              THEN RemoveAt(added, CHOOSE i \in 1..Len(added) : added[i] = c) ELSE added
  /\ mixed' = IF Contains(containers, c) THEN mixed \cup {"deleted"} ELSE mixed
  /\ UNCHANGED <<disk, known, cache, call, outcome, changes>>

-----------------------------------------------------------------------------
(* Lookups: demand and [], which asks contains first.                      *)

Cached(n, usecache) == Caching /\ usecache /\ HasKey(cache, n)

\* contains answers and demand returns what the cache has.
Hit(op, n) ==
  /\ Running /\ call = None /\ Cached(n, TRUE)
  /\ Node(cache, n).usecount < MaxUses
  /\ cache' = Touched(cache, n)
  /\ outcome' = [op |-> op, name |-> n, kind |-> "cached",
                 from |-> Node(cache, n).value, calm |-> TRUE]
  /\ UNCHANGED <<disk, known, containers, call, added, mixed, changes>>

\* [] has no usecache parameter.
Ask(op, n, usecache) ==
  /\ Running /\ call = None /\ ~Cached(n, usecache)
  /\ op = "get" => usecache
  /\ call' = [op |-> op, name |-> n, cached |-> Caching /\ usecache, calm |-> TRUE,
              phase |-> IF op = "get" THEN "contains" ELSE "demand", at |-> 1]
  /\ UNCHANGED <<disk, known, containers, cache, outcome, added, mixed, changes>>

End(kind, from) ==
  /\ outcome' = [op |-> call.op, name |-> call.name, kind |-> kind,
                 from |-> from, calm |-> call.calm]
  /\ call' = None

Asking(phases) == Running /\ call # None /\ call.phase \in phases
Here == containers[call.at]

\* The next container of the loop in contains or demand.
Probe ==
  /\ Asking({"contains", "demand"}) /\ call.at <= Len(containers)
  /\ call' = IF ~There(Here, call.name) THEN [call EXCEPT !.at = @ + 1]
             ELSE IF call.phase = "contains" THEN [call EXCEPT !.phase = "demand", !.at = 1]
             ELSE [call EXCEPT !.phase = "fetch"]
  /\ known' = ForgottenBy(Here, call.name)
  /\ UNCHANGED <<disk, containers, cache, outcome, added, mixed, changes>>

\* No container has it: contains returns false, demand raises.
Exhausted ==
  /\ Asking({"contains", "demand"}) /\ call.at > Len(containers)
  /\ End(IF call.phase = "contains" THEN "none" ELSE "raised", None)
  /\ UNCHANGED <<disk, known, containers, cache, added, mixed, changes>>

\* ResDir.demand looks again; if the file is gone it returns nil, whose ioSize
\* the ResMan asks for if it has a cache.
Fetch ==
  /\ Asking({"fetch"})
  /\ IF There(Here, call.name)
     THEN call' = [call EXCEPT !.phase = "stat"] /\ UNCHANGED outcome
     ELSE End(IF call.cached THEN "crash" ELSE "nil", Here)
  /\ known' = ForgottenBy(Here, call.name)
  /\ UNCHANGED <<disk, containers, cache, added, mixed, changes>>

\* It asks for the time and size of the file, which raises if the file is gone.
Stat ==
  /\ Asking({"stat"})
  /\ LET size == disk[Here][call.name] IN
       IF size = None
       THEN End("raised", None) /\ UNCHANGED cache
       ELSE /\ End("found", Here)
            /\ cache' \in IF call.cached THEN Stored(cache, call.name, size, Here)
                          ELSE {cache}
  /\ UNCHANGED <<disk, known, containers, added, mixed, changes>>

-----------------------------------------------------------------------------
(* Other programs.                                                         *)

\* A file is created, replaced or removed.
Change(c, n, size) ==
  /\ changes < MaxChanges
  /\ size # disk[c][n]
  /\ disk' = [disk EXCEPT ![c][n] = size]
  /\ call' = IF call # None /\ size = None THEN [call EXCEPT !.calm = FALSE] ELSE call
  /\ changes' = changes + 1
  /\ UNCHANGED <<known, containers, cache, outcome, added, mixed>>

Next ==
  \/ \E c \in Container : Open(c) \/ Add(c) \/ Del(c)
  \/ \E op \in {"get", "demand"}, n \in Name : Hit(op, n) \/ \E u \in BOOLEAN : Ask(op, n, u)
  \/ Probe \/ Exhausted \/ Fetch \/ Stat
  \/ \E c \in Container, n \in Name, size \in Size \cup {None} : Change(c, n, size)

Spec == Init /\ [][Next]_vars

-----------------------------------------------------------------------------
(* Properties.                                                             *)

\* The types; a container is in the list once, and the list is what was added
\* and not deleted.
TypeOK ==
  /\ disk \in [Container -> [Name -> Size \cup {None}]]
  /\ known \in [Container -> SUBSET Name]
  /\ containers \in Seq(Container) /\ IsInjective(containers)
  /\ ToSet(containers) = ToSet(added) /\ IsInjective(added)
  /\ cache.map \subseteq Name /\ mixed \subseteq {"late", "deleted"}
  /\ call \in Lookup \cup {None} /\ outcome \in Ending \cup {None}
  /\ call # None => call.at <= Len(containers) + 1

\* The containers added after c.
Newer(c) ==
  {d \in ToSet(added) : \E i, j \in DOMAIN added : i < j /\ added[i] = d /\ added[j] = c}

Ends == call # None /\ call' = None

\* As long as no container is deleted, what a walk finds is in the container
\* added last among those that list the name; files may come and go meanwhile.
TopmostFound ==
  [][Ends /\ outcome'.kind = "found" /\ "deleted" \notin mixed =>
       \A c \in Newer(outcome'.from) : outcome'.name \notin known'[c]]_vars

\* A walk that finds nothing leaves no container that lists the name.
NothingMissed ==
  [][Ends /\ outcome'.kind = "none" =>
       \A c \in ToSet(containers) : outcome'.name \notin known'[c]]_vars

\* [] returns a Res or none, and neither raises nor crashes, if no file is
\* removed while it runs, whatever happened to the files before.
GetIsTotal ==
  outcome # None /\ outcome.op = "get" /\ outcome.calm =>
    outcome.kind \in {"found", "cached", "none"}

\* If containers are set up before the first lookup and not deleted, the cache
\* never hides a file of a container that was added later.
CacheTopmost ==
  mixed = {} =>
    \A n \in cache.map : \A c \in Newer(Node(cache, n).value) : n \notin known[c]
=============================================================================
