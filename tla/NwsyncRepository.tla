-------------------------- MODULE NwsyncRepository --------------------------
(***************************************************************************)
(* A serverside nwsync repository: a directory tree that nwn_nwsync_write  *)
(* (neverwinter/nwsync/private/libupdate.nim, reindex) adds to and         *)
(* nwn_nwsync_prune tidies.  Both are plain processes without a lock on    *)
(* the tree, so a run is a sequence of file system calls that others may   *)
(* interleave with and that may stop anywhere.                             *)
(*                                                                         *)
(*   data/sha1/<xx>/<yy>/<sha1>   one compressed file per distinct content *)
(*   manifests/<sha1>             the binary manifest                      *)
(*   manifests/<sha1>.json        its metadata                             *)
(*   manifests/<sha1>.origin      which container each resref came from    *)
(*   latest                       the manifest game servers should offer   *)
(***************************************************************************)
EXTENDS Integers, FiniteSets

CONSTANTS
  ResRef,      \* names of resources
  Hash,        \* SHA1 of a resource's contents, the name of its data file
  Manifest,    \* SHA1 of a manifest, its file name
  Entries,     \* Entries[m]: the resrefs of manifest m, each with its hash
  Dir,         \* leaf directories of the hash tree
  DirOf,       \* DirOf[h]: the directory pathForEntry computes for h
  Writer,      \* nwn_nwsync_write processes
  Pruner,      \* nwn_nwsync_prune processes
  NoManifest,  \* `latest` does not exist; a process without a job
  Nothing,     \* a process that holds no file or directory
  MinAge,      \* prune --min-age
  RunLimit,    \* environment: no writer's run takes longer than this
  Overlap,     \* environment: the kinds of runs the operator lets overlap
  MaxTime,     \* bound: the clock stops here
  MaxRuns,     \* bound: number of runs started
  MaxCrashes,  \* bound: number of writers killed
  MaxRetired   \* bound: number of manifests the operator deletes

Kind == {"write", "prune"}

ASSUME ConstantsAssumption ==
  /\ Entries \in [Manifest -> UNION {[S -> Hash] : S \in (SUBSET ResRef) \ {{}}}]
  /\ DirOf \in [Hash -> Dir]
  /\ Writer \cap Pruner = {}
  /\ NoManifest \notin Manifest
  /\ Nothing \notin Hash \cup Dir \cup Manifest
  /\ MinAge \in Nat /\ RunLimit \in Nat /\ MaxTime \in Nat
  /\ MaxRuns \in Nat /\ MaxCrashes \in Nat /\ MaxRetired \in Nat
  /\ Overlap \subseteq SUBSET Kind

VARIABLES
  now,         \* seconds, at the resolution of MinAge
  data,        \* data[h]: the data file h is absent, partial or whole
  mtime,       \* mtime[h]: last modification time of data file h
  dirs,        \* the leaf directories that exist
  manifests,   \* manifests[m]: the manifest file is absent, partial or whole
  json,        \* manifests that have a metadata file
  origin,      \* manifests that have an .origin file
  latest,      \* contents of `latest`
  writer,      \* writer[w]: the state of process w
  pruner,      \* pruner[p]: the state of process p
  runs, crashes, retired,  \* counters for the bounds
  mixed        \* history: a writer and a prune have run at the same time

tree == <<data, mtime, dirs, manifests, json, origin, latest>>
counters == <<runs, crashes, retired, mixed>>
vars == <<now, tree, writer, pruner, counters>>

FileState == {"absent", "partial", "whole"}

\* The distinct contents manifest m refers to.
Hashes(m) == {Entries[m][r] : r \in DOMAIN Entries[m]}

Published == {m \in Manifest : manifests[m] = "whole"}

\* getFilesInStorage: file names only, whatever the files contain.
InStorage == {h \in Hash : data[h] # "absent"}

\* What the manifests on disk refer to.
ReferencedByLatest == IF latest \in Published THEN Hashes(latest) ELSE {}  \* mutant
Referenced == UNION {Hashes(m) : m \in Published}

\* writtenHashes: contents that need not be written again.
ReusableDespiteForce(force) == InStorage  \* mutant
Reusable(force) == IF force THEN {} ELSE InStorage

IdleWriter == [pc |-> "idle", job |-> NoManifest, force |-> FALSE,
               known |-> {}, todo |-> {}, cur |-> Nothing, fd |-> "none",
               since |-> 0, solo |-> FALSE]

IdlePruner == [pc |-> "idle", keep |-> {}, orphans |-> {}, stamp |-> 0,
               cur |-> Nothing, dirs |-> {}, metas |-> {}]

WritersRunning == {w \in Writer : writer[w].pc # "idle"}
PrunersRunning == {p \in Pruner : pruner[p].pc # "idle"}

\* May a run of this kind start next to the ones in progress?
MayStart(kind) ==
  /\ runs < MaxRuns
  /\ WritersRunning # {} => {kind, "write"} \in Overlap
  /\ PrunersRunning # {} => {kind, "prune"} \in Overlap

\* History, for SoloRunComplete: the writers' states after another run started
\* next to them.
Joined == [w \in Writer |-> [writer[w] EXCEPT !.solo = FALSE]]

Init ==
  /\ now = 0
  /\ data = [h \in Hash |-> "absent"]
  /\ mtime = [h \in Hash |-> 0]
  /\ dirs = {}
  /\ manifests = [m \in Manifest |-> "absent"]
  /\ json = {}
  /\ origin = {}
  /\ latest = NoManifest
  /\ writer = [w \in Writer |-> IdleWriter]
  /\ pruner = [p \in Pruner |-> IdlePruner]
  /\ runs = 0 /\ crashes = 0 /\ retired = 0
  /\ mixed = FALSE

-----------------------------------------------------------------------------
(* Open files.  A writer's handle is "live" while the name still leads to  *)
(* what it truncated last, "shared" once another writer truncated the same *)
(* file under it, and "gone" once the name was removed.                    *)

IsOpenOn(w, h) == writer[w].cur = h /\ writer[w].fd # "none"

\* The writers' handles after the names in H are removed.
Unlinked(H) ==
  [w \in Writer |-> IF \E h \in H : IsOpenOn(w, h)
                    THEN [writer[w] EXCEPT !.fd = "gone"] ELSE writer[w]]

\* The data files after the names in H are removed.
Without(H) == [h \in Hash |-> IF h \in H THEN "absent" ELSE data[h]]

-----------------------------------------------------------------------------
(* reindex, with --dry-run off.  Everything up to the listing of the       *)
(* storage only reads, and a run that fails there leaves no trace.         *)

StartWrite(w, m, force) ==
  /\ writer[w].pc = "idle"
  /\ MayStart("write")
  /\ runs' = runs + 1
  /\ writer' = [Joined EXCEPT ![w] =
       [IdleWriter EXCEPT !.pc = "entries", !.job = m, !.force = force,
                          !.known = Reusable(force),
                          !.todo = DOMAIN Entries[m], !.since = now,
                          !.solo = WritersRunning = {} /\ PrunersRunning = {}]]
  /\ mixed' = (mixed \/ PrunersRunning # {})
  /\ UNCHANGED <<now, tree, pruner, crashes, retired>>

\* Next entry, already in storage: only the manifest records it.
SkipEntry(w) ==
  /\ writer[w].pc = "entries"
  /\ \E r \in writer[w].todo :
       /\ Entries[writer[w].job][r] \in writer[w].known
       /\ writer' = [writer EXCEPT ![w].todo = @ \ {r}]
  /\ UNCHANGED <<now, tree, pruner, counters>>

\* Next entry, not in storage: pathForEntry creates its directories.
MakePath(w) ==
  /\ writer[w].pc = "entries"
  /\ \E r \in writer[w].todo :
       LET h == Entries[writer[w].job][r] IN
       /\ h \notin writer[w].known
       /\ dirs' = dirs \cup {DirOf[h]}
       /\ writer' = [writer EXCEPT ![w].pc = "open", ![w].cur = h, ![w].todo = @ \ {r}]
  /\ UNCHANGED <<now, data, mtime, manifests, json, origin, latest, pruner, counters>>

\* openFileStream(path, fmWrite): truncates an existing file.
OpenData(w) ==
  LET h == writer[w].cur IN
  /\ writer[w].pc = "open"
  /\ DirOf[h] \in dirs
  /\ data' = [data EXCEPT ![h] = "partial"]
  /\ mtime' = [mtime EXCEPT ![h] = now]
  /\ writer' = [v \in Writer |->
       IF v = w THEN [writer[w] EXCEPT !.pc = "compress", !.fd = "live"]
       ELSE IF IsOpenOn(v, h) /\ writer[v].fd = "live"
            THEN [writer[v] EXCEPT !.fd = "shared"] ELSE writer[v]]
  /\ UNCHANGED <<now, dirs, manifests, json, origin, latest, pruner, counters>>

\* The directory was removed meanwhile: the exception ends the run.
OpenDataFails(w) ==
  /\ writer[w].pc = "open"
  /\ DirOf[writer[w].cur] \notin dirs
  /\ writer' = [writer EXCEPT ![w] = IdleWriter]
  /\ UNCHANGED <<now, tree, pruner, counters>>

\* compress(outstr, ...); outstr.close(); then getFileSize(path), which
\* raises when the name was removed.  Two writers of one file write the same
\* bytes; what the earlier one leaves depends on how the two streams flushed.
CloseData(w) ==
  LET h == writer[w].cur IN
  /\ writer[w].pc = "compress"
  /\ \/ /\ writer[w].fd = "live"
        /\ data' = [data EXCEPT ![h] = "whole"]
     \/ /\ writer[w].fd = "shared"
        /\ \E s \in {data[h], "whole"} : data' = [data EXCEPT ![h] = s]
     \/ /\ writer[w].fd = "gone"
        /\ UNCHANGED data
  /\ mtime' = [mtime EXCEPT ![h] = IF writer[w].fd = "gone" THEN @ ELSE now]
  /\ writer' = [writer EXCEPT ![w] =
       IF data[h] = "absent" THEN IdleWriter
       ELSE [@ EXCEPT !.pc = "entries", !.cur = Nothing, !.fd = "none"]]
  /\ UNCHANGED <<now, dirs, manifests, json, origin, latest, pruner, counters>>

EntriesStarted(w) == writer[w].pc = "entries"  \* mutant
EntriesDone(w) == writer[w].pc = "entries" /\ writer[w].todo = {}

\* The .origin file, with --write-origins.
WriteOrigin(w) ==
  /\ EntriesDone(w)
  /\ \E S \in {{}, {writer[w].job}} : origin' = origin \cup S
  /\ writer' = [writer EXCEPT ![w].pc = "latest"]
  /\ UNCHANGED <<now, data, mtime, dirs, manifests, json, latest, pruner, counters>>

\* `latest`, unless --no-latest.  It precedes the manifest it names.
WriteLatest(w) ==
  /\ writer[w].pc = "latest"
  /\ latest' \in {latest, writer[w].job}
  /\ writer' = [writer EXCEPT ![w].pc = "manifest"]
  /\ UNCHANGED <<now, data, mtime, dirs, manifests, json, origin, pruner, counters>>

\* writeFile of the manifest: the file is truncated, then filled.
OpenManifest(w) ==
  /\ writer[w].pc = "manifest"
  /\ manifests' = [manifests EXCEPT ![writer[w].job] = "partial"]
  /\ writer' = [writer EXCEPT ![w].pc = "publish"]
  /\ UNCHANGED <<now, data, mtime, dirs, json, origin, latest, pruner, counters>>

CloseManifest(w) ==
  /\ writer[w].pc = "publish"
  /\ manifests' = [manifests EXCEPT ![writer[w].job] = "whole"]
  /\ writer' = [writer EXCEPT ![w].pc = "json"]
  /\ UNCHANGED <<now, data, mtime, dirs, json, origin, latest, pruner, counters>>

\* The metadata file; the run is complete.
WriteJson(w) ==
  /\ writer[w].pc = "json"
  /\ json' = json \cup {writer[w].job}
  /\ writer' = [writer EXCEPT ![w] = IdleWriter]
  /\ UNCHANGED <<now, data, mtime, dirs, manifests, origin, latest, pruner, counters>>

\* The process is killed; what it wrote so far stays.
CrashWrite(w) ==
  /\ writer[w].pc # "idle"
  /\ crashes < MaxCrashes
  /\ crashes' = crashes + 1
  /\ writer' = [writer EXCEPT ![w] = IdleWriter]
  /\ UNCHANGED <<now, tree, pruner, runs, retired, mixed>>

WriterStep(w) ==
  \/ SkipEntry(w) \/ MakePath(w) \/ OpenData(w) \/ OpenDataFails(w)
  \/ CloseData(w) \/ WriteOrigin(w) \/ WriteLatest(w)
  \/ OpenManifest(w) \/ CloseManifest(w) \/ WriteJson(w)

-----------------------------------------------------------------------------
(* nwn_nwsync_prune, with --dry-run off.  ensureLatestHeadIsValid only     *)
(* reports.                                                                *)

\* Load all manifests.  readManifest raises on a truncated one, which ends
\* the run before anything is deleted.
StartPrune(p) ==
  /\ pruner[p].pc = "idle"
  /\ MayStart("prune")
  /\ runs' = runs + 1
  /\ \A m \in Manifest : manifests[m] # "partial"
  /\ pruner' = [pruner EXCEPT ![p] =
       [IdlePruner EXCEPT !.pc = "list",
          !.keep = Referenced]]
  /\ writer' = Joined
  /\ mixed' = (mixed \/ WritersRunning # {})
  /\ UNCHANGED <<now, tree, crashes, retired>>

\* What is in storage and in no manifest.
Stored(p) == InStorage  \* mutant
Orphans(p) == InStorage \ pruner[p].keep

\* The orphans, and the time their age is measured at.
ListStorage(p) ==
  /\ pruner[p].pc = "list"
  /\ pruner' = [pruner EXCEPT ![p] = [@ EXCEPT !.pc = "stat", !.stamp = now,
                                               !.orphans = Orphans(p)]]
  /\ UNCHANGED <<now, tree, writer, counters>>

OlderStill(p, h) == pruner[p].stamp - mtime[h] > MinAge + 1  \* mutant
OldEnough(p, h) == pruner[p].stamp - mtime[h] > MinAge

\* mutant: an orphan that is gone is looked at once more.
MeasuredAgain(p, h) ==
  IF data[h] = "absent" THEN pruner[p]
  ELSE IF OldEnough(p, h)
  THEN [pruner[p] EXCEPT !.pc = "unlink", !.cur = h, !.orphans = @ \ {h}]
  ELSE [pruner[p] EXCEPT !.orphans = @ \ {h}]

\* Pruner p once it measured orphan h; getLastModificationTime raises when
\* the file is gone.
Measured(p, h) ==
  IF data[h] = "absent" THEN IdlePruner
  ELSE IF OldEnough(p, h)
  THEN [pruner[p] EXCEPT !.pc = "unlink", !.cur = h, !.orphans = @ \ {h}]
  ELSE [pruner[p] EXCEPT !.orphans = @ \ {h}]

StatOrphan(p) ==
  /\ pruner[p].pc = "stat"
  /\ \E h \in pruner[p].orphans : pruner' = [pruner EXCEPT ![p] = Measured(p, h)]
  /\ UNCHANGED <<now, tree, writer, counters>>

\* removeFile, which accepts that the file is gone.
UnlinkOrphan(p) ==
  /\ pruner[p].pc = "unlink"
  /\ data' = Without({pruner[p].cur})
  /\ writer' = Unlinked({pruner[p].cur})
  /\ pruner' = [pruner EXCEPT ![p] = [@ EXCEPT !.pc = "stat", !.cur = Nothing]]
  /\ UNCHANGED <<now, mtime, dirs, manifests, json, origin, latest, counters>>

\* pruneEmptyDirectories walks the hash tree ...
ListDirs(p) ==
  /\ pruner[p].pc = "stat"
  /\ pruner[p].orphans = {}
  /\ pruner' = [pruner EXCEPT ![p] = [@ EXCEPT !.pc = "dirs", !.dirs = dirs]]
  /\ UNCHANGED <<now, tree, writer, counters>>

\* Data files whose name lies in directory d.
Contents(d) == {h \in InStorage : DirOf[h] = d}

\* ... looks into each directory ...
Inspected(p, d) ==
  IF Contents(d) = {}
  THEN [pruner[p] EXCEPT !.pc = "rmdir", !.cur = d, !.dirs = @ \ {d}]
  ELSE [pruner[p] EXCEPT !.dirs = @ \ {d}]

InspectDir(p) ==
  /\ pruner[p].pc = "dirs"
  /\ \E d \in pruner[p].dirs : pruner' = [pruner EXCEPT ![p] = Inspected(p, d)]
  /\ UNCHANGED <<now, tree, writer, counters>>

\* ... and calls os.removeDir on an empty one, which deletes recursively.
RemoveDir(p) ==
  LET d == pruner[p].cur IN
  /\ pruner[p].pc = "rmdir"
  /\ data' = Without(Contents(d))
  /\ writer' = Unlinked(Contents(d))
  /\ dirs' = dirs \ {d}
  /\ pruner' = [pruner EXCEPT ![p] = [@ EXCEPT !.pc = "dirs", !.cur = Nothing]]
  /\ UNCHANGED <<now, mtime, manifests, json, origin, latest, counters>>

\* pruneDanglingMetadata walks the metadata files ...
ListMetadata(p) ==
  /\ pruner[p].pc = "dirs"
  /\ pruner[p].dirs = {}
  /\ pruner' = [pruner EXCEPT ![p] = [@ EXCEPT !.pc = "meta", !.metas = json]]
  /\ UNCHANGED <<now, tree, writer, counters>>

DanglingAlways(m) == TRUE  \* mutant
Dangling(m) == manifests[m] = "absent"

\* ... looks for the manifest of each ...
Considered(p, m) ==
  IF Dangling(m)
  THEN [pruner[p] EXCEPT !.pc = "unmeta", !.cur = m, !.metas = @ \ {m}]
  ELSE [pruner[p] EXCEPT !.metas = @ \ {m}]

InspectMetadata(p) ==
  /\ pruner[p].pc = "meta"
  /\ \E m \in pruner[p].metas : pruner' = [pruner EXCEPT ![p] = Considered(p, m)]
  /\ UNCHANGED <<now, tree, writer, counters>>

\* ... and removes one that has none.
RemoveMetadata(p) ==
  /\ pruner[p].pc = "unmeta"
  /\ json' = json \ {pruner[p].cur}
  /\ pruner' = [pruner EXCEPT ![p] = [@ EXCEPT !.pc = "meta", !.cur = Nothing]]
  /\ UNCHANGED <<now, data, mtime, dirs, manifests, origin, latest, writer, counters>>

EndPrune(p) ==
  /\ pruner[p].pc = "meta"
  /\ pruner[p].metas = {}
  /\ pruner' = [pruner EXCEPT ![p] = IdlePruner]
  /\ UNCHANGED <<now, tree, writer, counters>>

\* The process is killed; what it removed so far stays removed.
CrashPrune(p) ==
  /\ pruner[p].pc # "idle"
  /\ pruner' = [pruner EXCEPT ![p] = IdlePruner]
  /\ UNCHANGED <<now, tree, writer, counters>>

PrunerStep(p) ==
  \/ ListStorage(p) \/ StatOrphan(p) \/ UnlinkOrphan(p)
  \/ ListDirs(p) \/ InspectDir(p) \/ RemoveDir(p)
  \/ ListMetadata(p) \/ InspectMetadata(p) \/ RemoveMetadata(p) \/ EndPrune(p)

-----------------------------------------------------------------------------
(* The environment: the operator deletes a manifest so that a later prune  *)
(* can reclaim its data, and time passes.                                  *)

RetireManifest(m) ==
  /\ manifests[m] = "whole"
  /\ latest # m
  /\ retired < MaxRetired
  /\ retired' = retired + 1
  /\ manifests' = [manifests EXCEPT ![m] = "absent"]
  /\ UNCHANGED <<now, data, mtime, dirs, json, origin, latest, writer, pruner, runs, crashes, mixed>>

Tick ==
  /\ now < MaxTime
  /\ \A w \in WritersRunning : now - writer[w].since < RunLimit
  /\ now' = now + 1
  /\ UNCHANGED <<tree, writer, pruner, counters>>

Next ==
  \/ \E w \in Writer :
       \/ \E m \in Manifest, force \in BOOLEAN : StartWrite(w, m, force)
       \/ WriterStep(w)
       \/ CrashWrite(w)
  \/ \E p \in Pruner : StartPrune(p) \/ PrunerStep(p) \/ CrashPrune(p)
  \/ \E m \in Manifest : RetireManifest(m)
  \/ Tick

Spec == Init /\ [][Next]_vars

\* The kernel keeps scheduling a process that has not exited.
FairSpec ==
  /\ Spec
  /\ \A w \in Writer : WF_vars(WriterStep(w))
  /\ \A p \in Pruner : WF_vars(PrunerStep(p))

-----------------------------------------------------------------------------
(* Properties.                                                             *)

WriterType ==
  [pc : {"idle", "entries", "open", "compress", "latest", "manifest",
         "publish", "json"},
   job : Manifest \cup {NoManifest}, force : BOOLEAN, known : SUBSET Hash,
   todo : SUBSET ResRef, cur : Hash \cup {Nothing},
   fd : {"none", "live", "shared", "gone"}, since : Nat, solo : BOOLEAN]

PrunerType ==
  [pc : {"idle", "list", "stat", "unlink", "dirs", "rmdir", "meta", "unmeta"},
   keep : SUBSET Hash, orphans : SUBSET Hash, stamp : Nat,
   cur : Hash \cup Dir \cup Manifest \cup {Nothing},
   dirs : SUBSET Dir, metas : SUBSET Manifest]

\* A writer that runs has a job, takes its entries from that manifest and is
\* at a file when it opens or fills one; a pruner is at what it removes, and
\* what it lists and removes is not what it found a manifest to need.
WriterState ==
  {s \in WriterType :
     /\ s.pc # "idle" => s.job \in Manifest /\ s.todo \subseteq DOMAIN Entries[s.job]
     /\ s.pc \in {"open", "compress"} => s.cur \in Hash}

PrunerState ==
  {s \in PrunerType :
     /\ s.orphans \cap s.keep = {}
     /\ s.pc = "unlink" => s.cur \in Hash \ s.keep
     /\ s.pc = "rmdir" => s.cur \in Dir
     /\ s.pc = "unmeta" => s.cur \in Manifest}

\* Every variable has its type; a process is at a manifest, file or directory
\* of the repository, and a prune's orphans are none of the files that it found
\* referenced (pruneUnreferencedFiles).
TypeOK ==
  /\ now \in Nat
  /\ data \in [Hash -> FileState]
  /\ mtime \in [Hash -> Nat]
  /\ dirs \subseteq Dir
  /\ manifests \in [Manifest -> FileState]
  /\ json \subseteq Manifest /\ origin \subseteq Manifest
  /\ latest \in Manifest \cup {NoManifest}
  /\ writer \in [Writer -> WriterState]
  /\ pruner \in [Pruner -> PrunerState]
  /\ runs \in Nat /\ crashes \in Nat /\ retired \in Nat
  /\ mixed \in BOOLEAN

\* Data file h is whole, or a writer is rewriting it at this moment.
Settled(h) ==
  \/ data[h] = "whole"
  \/ \E w \in Writer : writer[w].pc = "compress" /\ writer[w].cur = h /\ writer[w].fd = "live"

\* A client that gets a manifest from the repository gets all of its data:
\* no published manifest refers to a data file that is missing or that a
\* stopped writer left truncated (reindex's reuse of data that exists,
\* against the prune's deletions).
PublishedComplete == \A m \in Published : \A h \in Hashes(m) : Settled(h)

\* Why it holds when writers run alone and are not killed.  Nothing is left
\* truncated but the file being filled ...
OnlyCurrentPartial ==
  /\ \A h \in Hash : data[h] = "partial" => \E w \in Writer : writer[w].pc = "compress" /\ writer[w].cur = h
  /\ \A w \in Writer : writer[w].pc = "compress" => writer[w].fd = "live" /\ data[writer[w].cur] = "partial"

\* ... what the writer took for stored, and what it has been through, is whole ...
WriterSecured(w) ==
  writer[w].pc # "idle" =>
    /\ \A h \in writer[w].known : data[h] = "whole"
    /\ writer[w].pc \in {"open", "compress"} => writer[w].cur \notin writer[w].known
    /\ \A r \in DOMAIN Entries[writer[w].job] \ writer[w].todo :
         LET h == Entries[writer[w].job][r] IN
         data[h] = "whole" \/ (writer[w].pc \in {"open", "compress"} /\ h = writer[w].cur)
    /\ writer[w].pc \notin {"entries", "open", "compress"} => writer[w].todo = {}

\* ... and a pruner keeps what manifests refer to, and removes no directory with
\* files in it.
PrunerHarmless(p) ==
  pruner[p].pc # "idle" =>
    /\ \A m \in Published : Hashes(m) \subseteq pruner[p].keep
    /\ pruner[p].pc = "rmdir" => Contents(pruner[p].cur) = {}

ExclusiveInv ==
  /\ TypeOK
  /\ \A v, w \in WritersRunning : v = w
  /\ WritersRunning # {} => PrunersRunning = {}
  /\ OnlyCurrentPartial
  /\ \A w \in Writer : WriterSecured(w)
  /\ \A p \in Pruner : PrunerHarmless(p)
  /\ PublishedComplete

\* The weaker promise that survives a killed writer, and any number of writers
\* at once: as long as no prune has run beside a writer, every data file of a
\* published manifest exists, since reindex publishes a manifest only behind
\* its data, though a later run may have reused a truncated one by its name.
PublishedPresent ==
  mixed \/ \A m \in Published : Hashes(m) \subseteq InStorage

\* Once no writer runs, none was killed and no prune has run beside one, what
\* is published is complete, `latest` leads to a manifest and every manifest
\* has its metadata: reindex leaves nothing dangling when all of its writes
\* happen, not even if two writers truncated and filled the same files.
AtRest ==
  WritersRunning = {} /\ crashes = 0 /\ ~mixed =>
    /\ \A m \in Published : m \in json /\ \A h \in Hashes(m) : data[h] = "whole"
    /\ latest # NoManifest => latest \in Published

\* A prune that has gone through its orphans left none behind that was old
\* enough when it measured their ages.
OldOrphansReclaimed ==
  \A p \in Pruner : pruner[p].pc \in {"dirs", "rmdir", "meta", "unmeta"} =>
    \A h \in InStorage \ pruner[p].keep : pruner[p].stamp - mtime[h] <= MinAge

\* Running the writer again, alone, repairs what races or crashes of earlier
\* runs did to its manifest: always with -f, and without it when no writer
\* was ever killed, since a truncated file passes for stored data.
SoloRunComplete ==
  [][\A w \in Writer :
       /\ writer[w].pc = "json" /\ writer'[w].pc = "idle" /\ crashes' = crashes
       /\ writer[w].solo
       /\ writer[w].force \/ crashes = 0
       => \A h \in Hashes(writer[w].job) : data[h] = "whole"]_vars

\* What clients are promised: a manifest is only ever offered behind its data,
\* and data goes only when no manifest on offer refers to it.  All that the
\* runs do to the tree, step by step, is one of the moves of a content store,
\* as long as no prune runs beside a writer.
Fetched == INSTANCE ContentStore WITH
  Content <- Hash,
  Refs    <- [m \in Manifest |-> Hashes(m)],
  offered <- Published,
  stored  <- InStorage

IsContentStore == Fetched!Spec

\* No run waits for another: each started run ends.
RunsEnd ==
  /\ \A w \in Writer : writer[w].pc # "idle" ~> writer[w].pc = "idle"
  /\ \A p \in Pruner : pruner[p].pc # "idle" ~> pruner[p].pc = "idle"

=============================================================================
