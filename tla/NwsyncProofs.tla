---------------------------- MODULE NwsyncProofs ----------------------------
(***************************************************************************)
(* Theorems about NwsyncRepository, for every set of processes, manifests  *)
(* and contents: first where runs exclude each other and nobody is killed, *)
(* then for whatever overlaps and kills the operator lets happen.          *)
(***************************************************************************)
EXTENDS NwsyncRepository, TLAPS

-----------------------------------------------------------------------------
(* Types of the helpers.                                                   *)

\* What a manifest refers to are hashes, and its entries are resrefs.
LEMMA EntriesType ==
  ASSUME NEW m \in Manifest
  PROVE  /\ Hashes(m) \subseteq Hash
         /\ DOMAIN Entries[m] \subseteq ResRef
         /\ \A r \in DOMAIN Entries[m] : Entries[m][r] \in Hash
BY ConstantsAssumption DEF Hashes

LEMMA IdleTypes == IdleWriter \in WriterState /\ IdlePruner \in PrunerState
BY DEF IdleWriter, IdlePruner, WriterState, PrunerState, WriterType, PrunerType

\* The helpers that update files and handles keep the types.
LEMMA HelperTypes ==
  ASSUME TypeOK, NEW H
  PROVE  /\ Without(H) \in [Hash -> FileState]
         /\ Unlinked(H) \in [Writer -> WriterState]
         /\ Joined \in [Writer -> WriterState]
         /\ InStorage \subseteq Hash
         /\ Referenced \subseteq Hash
<1>1. Without(H) \in [Hash -> FileState]
  BY DEF TypeOK, Without, FileState
<1>2. Unlinked(H) \in [Writer -> WriterState]
  BY DEF TypeOK, Unlinked, WriterState, WriterType
<1>3. Joined \in [Writer -> WriterState]
  <2>1. ASSUME NEW w \in Writer
        PROVE  [writer[w] EXCEPT !.solo = FALSE] \in WriterState
    <3>1. writer[w] \in WriterState
      BY DEF TypeOK
    <3>2. [writer[w] EXCEPT !.solo = FALSE] \in WriterType
      BY <3>1 DEF WriterState, WriterType
    <3>3. QED
      BY <3>1, <3>2 DEF WriterState, WriterType
  <2>2. QED
    BY <2>1 DEF Joined
<1>4. InStorage \subseteq Hash
  BY DEF InStorage
<1>5. Referenced \subseteq Hash
  BY EntriesType DEF Referenced, Published
<1>6. QED
  BY <1>1, <1>2, <1>3, <1>4, <1>5

-----------------------------------------------------------------------------
(* Type correctness.                                                       *)

LEMMA InitType == Init => TypeOK
<1> SUFFICES ASSUME Init PROVE TypeOK
  OBVIOUS
<1>1. mixed \in BOOLEAN
  BY Zenon DEF Init
<1>2. QED
  BY <1>1, IdleTypes, ConstantsAssumption DEF Init, TypeOK, FileState

\* StartWrite is the step that gives a writer its job.
LEMMA StartWriteType ==
  ASSUME TypeOK, NEW w \in Writer, NEW m \in Manifest, NEW force \in BOOLEAN,
         StartWrite(w, m, force)
  PROVE  TypeOK'
<1>1. Reusable(force) \subseteq Hash
  BY DEF Reusable, InStorage
<1>2. DOMAIN Entries[m] \subseteq ResRef
  BY EntriesType
<1>3. Joined \in [Writer -> WriterState]
  BY HelperTypes
<1>4. writer' \in [Writer -> WriterState]
  BY <1>1, <1>2, <1>3 DEF StartWrite, TypeOK, WriterState, WriterType, IdleWriter
<1>5. runs' = runs + 1 /\ UNCHANGED <<now, tree, pruner, crashes, retired>>
  BY DEF StartWrite
<1>6. mixed' \in BOOLEAN
  BY Zenon DEF StartWrite
<1>7. QED
  BY <1>4, <1>5, <1>6 DEF TypeOK, tree

\* The other steps of a writer.
LEMMA WriterStepType ==
  ASSUME TypeOK, NEW w \in Writer, WriterStep(w) \/ CrashWrite(w)
  PROVE  TypeOK'
<1>0. writer[w] \in WriterState
  BY DEF TypeOK
<1> USE DEF TypeOK, tree, counters
<1>1. CASE SkipEntry(w)
  BY <1>0, <1>1 DEF SkipEntry, WriterState, WriterType
<1>2. CASE MakePath(w)
  <2> PICK r \in writer[w].todo :
        LET h == Entries[writer[w].job][r] IN
        /\ dirs' = dirs \cup {DirOf[h]}
        /\ writer' = [writer EXCEPT ![w].pc = "open", ![w].cur = h, ![w].todo = @ \ {r}]
    BY <1>2 DEF MakePath
  <2>1. Entries[writer[w].job][r] \in Hash
    BY <1>0, <1>2, EntriesType DEF MakePath, WriterState
  <2>2. writer' \in [Writer -> WriterState]
    <3> DEFINE s == [writer[w] EXCEPT !.pc = "open", !.cur = Entries[writer[w].job][r],
                                      !.todo = @ \ {r}]
    <3>1. s \in WriterType
      BY <1>0, <2>1 DEF WriterState, WriterType
    <3>2. s.pc = "open" /\ s.cur \in Hash /\ s.job \in Manifest
          /\ s.todo \subseteq DOMAIN Entries[s.job]
      BY <1>0, <1>2, <2>1 DEF MakePath, WriterState, WriterType
    <3>3. s \in WriterState
      BY <3>1, <3>2 DEF WriterState
    <3>4. writer'[w] = s /\ DOMAIN writer' = Writer
          /\ \A v \in Writer \ {w} : writer'[v] = writer[v]
      BY <1>0 DEF WriterState, WriterType
    <3>5. writer' = [v \in Writer |-> IF v = w THEN s ELSE writer[v]]
      BY <3>4
    <3>6. QED
      BY <3>3, <3>5
  <2>3. dirs' \subseteq Dir
    BY <2>1, ConstantsAssumption
  <2>4. QED
    BY <1>2, <2>2, <2>3 DEF MakePath
<1>3. CASE OpenData(w)
  <2>1. ASSUME NEW v \in Writer PROVE writer'[v] \in WriterState
    <3>1. writer[v] \in WriterState
      OBVIOUS
    <3>2. CASE v = w
      <4>1. writer'[v] = [writer[w] EXCEPT !.pc = "compress", !.fd = "live"]
        BY <1>3, <3>2 DEF OpenData
      <4>2. writer'[v] \in WriterType
        BY <1>0, <4>1 DEF WriterState, WriterType
      <4>3. QED
        BY <1>0, <1>3, <4>1, <4>2 DEF OpenData, WriterState, WriterType
    <3>3. CASE v # w
      <4>1. writer'[v] \in {writer[v], [writer[v] EXCEPT !.fd = "shared"]}
        BY <1>3, <3>3 DEF OpenData
      <4>2. writer'[v] \in WriterType
        BY <3>1, <4>1 DEF WriterState, WriterType
      <4>3. QED
        BY <3>1, <4>1, <4>2 DEF WriterState, WriterType
    <3>4. QED
      BY <3>2, <3>3
  <2>2. writer' \in [Writer -> WriterState]
    BY <2>1, <1>3 DEF OpenData
  <2>3. QED
    BY <2>2, <1>3 DEF OpenData, FileState
<1>4. CASE OpenDataFails(w)
  BY <1>0, <1>4, IdleTypes DEF OpenDataFails
<1>5. CASE CloseData(w)
  <2>1. writer' \in [Writer -> WriterState]
    BY <1>0, <1>5, IdleTypes DEF CloseData, WriterState, WriterType
  <2>2. data' \in [Hash -> FileState]
    BY <1>0, <1>5 DEF CloseData, WriterState, FileState
  <2>3. mtime' \in [Hash -> Nat]
    BY <1>0, <1>5 DEF CloseData
  <2>4. QED
    BY <2>1, <2>2, <2>3, <1>5 DEF CloseData
<1>6. CASE WriteOrigin(w)
  <2>1. writer' \in [Writer -> WriterState]
    BY <1>0, <1>6 DEF WriteOrigin, EntriesDone, WriterState, WriterType
  <2>2. origin' \subseteq Manifest
    BY <1>0, <1>6 DEF WriteOrigin, EntriesDone, WriterState
  <2>3. QED
    BY <2>1, <2>2, <1>6 DEF WriteOrigin
<1>7. CASE WriteLatest(w)
  BY <1>0, <1>7 DEF WriteLatest, WriterState, WriterType
<1>8. CASE OpenManifest(w)
  BY <1>0, <1>8 DEF OpenManifest, WriterState, WriterType, FileState
<1>9. CASE CloseManifest(w)
  BY <1>0, <1>9 DEF CloseManifest, WriterState, WriterType, FileState
<1>10. CASE WriteJson(w)
  <2>1. json' \subseteq Manifest
    BY <1>0, <1>10 DEF WriteJson, WriterState
  <2>2. QED
    BY <1>0, <1>10, <2>1, IdleTypes DEF WriteJson
<1>11. CASE CrashWrite(w)
  BY <1>0, <1>11, IdleTypes DEF CrashWrite
<1>12. QED
  BY <1>1, <1>2, <1>3, <1>4, <1>5, <1>6, <1>7, <1>8, <1>9, <1>10, <1>11
  DEF WriterStep

\* The steps of a pruner.
LEMMA PrunerStepType ==
  ASSUME TypeOK, NEW p \in Pruner, StartPrune(p) \/ PrunerStep(p) \/ CrashPrune(p)
  PROVE  TypeOK'
<1>0. pruner[p] \in PrunerState
  BY DEF TypeOK
<1> USE DEF TypeOK, tree, counters
<1>1. CASE StartPrune(p)
  <2>1. pruner' \in [Pruner -> PrunerState]
    BY <1>1, HelperTypes DEF StartPrune, IdlePruner, PrunerState, PrunerType
  <2>2. writer' \in [Writer -> WriterState]
    BY <1>1, HelperTypes DEF StartPrune
  <2>3. QED
    BY <2>1, <2>2, <1>1 DEF StartPrune
<1>2. CASE ListStorage(p)
  BY <1>0, <1>2, HelperTypes DEF ListStorage, Orphans, PrunerState, PrunerType
<1>3. CASE StatOrphan(p)
  <2> PICK h \in pruner[p].orphans : pruner' = [pruner EXCEPT ![p] = Measured(p, h)]
    BY <1>3 DEF StatOrphan
  <2>1. [pruner[p] EXCEPT !.pc = "unlink", !.cur = h, !.orphans = @ \ {h}] \in PrunerState
    BY <1>0 DEF PrunerState, PrunerType
  <2>2. [pruner[p] EXCEPT !.orphans = @ \ {h}] \in PrunerState
    BY <1>0, <1>3 DEF StatOrphan, PrunerState, PrunerType
  <2>3. pruner' \in [Pruner -> PrunerState]
    BY <2>1, <2>2, IdleTypes DEF Measured
  <2>4. QED
    BY <2>3, <1>3 DEF StatOrphan
<1>4. CASE UnlinkOrphan(p)
  <2>1. pruner' \in [Pruner -> PrunerState]
    BY <1>0, <1>4 DEF UnlinkOrphan, PrunerState, PrunerType
  <2>2. data' \in [Hash -> FileState] /\ writer' \in [Writer -> WriterState]
    BY <1>4, HelperTypes DEF UnlinkOrphan
  <2>3. QED
    BY <2>1, <2>2, <1>4 DEF UnlinkOrphan
<1>5. CASE ListDirs(p)
  BY <1>0, <1>5 DEF ListDirs, PrunerState, PrunerType
<1>6. CASE InspectDir(p)
  <2> PICK d \in pruner[p].dirs : pruner' = [pruner EXCEPT ![p] = Inspected(p, d)]
    BY <1>6 DEF InspectDir
  <2>1. [pruner[p] EXCEPT !.pc = "rmdir", !.dirs = @ \ {d}, !.cur = d] \in PrunerState
    BY <1>0 DEF PrunerState, PrunerType
  <2>2. [pruner[p] EXCEPT !.dirs = @ \ {d}] \in PrunerState
    BY <1>0, <1>6 DEF InspectDir, PrunerState, PrunerType
  <2>3. pruner' \in [Pruner -> PrunerState]
    BY <2>1, <2>2 DEF Inspected
  <2>4. QED
    BY <2>3, <1>6 DEF InspectDir
<1>7. CASE RemoveDir(p)
  <2>1. pruner' \in [Pruner -> PrunerState]
    BY <1>0, <1>7 DEF RemoveDir, PrunerState, PrunerType
  <2>2. data' \in [Hash -> FileState] /\ writer' \in [Writer -> WriterState]
    BY <1>7, HelperTypes DEF RemoveDir
  <2>3. QED
    BY <2>1, <2>2, <1>7 DEF RemoveDir
<1>8. CASE ListMetadata(p)
  BY <1>0, <1>8 DEF ListMetadata, PrunerState, PrunerType
<1>9. CASE InspectMetadata(p)
  <2> PICK m \in pruner[p].metas : pruner' = [pruner EXCEPT ![p] = Considered(p, m)]
    BY <1>9 DEF InspectMetadata
  <2>1. [pruner[p] EXCEPT !.pc = "unmeta", !.metas = @ \ {m}, !.cur = m] \in PrunerState
    BY <1>0 DEF PrunerState, PrunerType
  <2>2. [pruner[p] EXCEPT !.metas = @ \ {m}] \in PrunerState
    BY <1>0, <1>9 DEF InspectMetadata, PrunerState, PrunerType
  <2>3. pruner' \in [Pruner -> PrunerState]
    BY <2>1, <2>2 DEF Considered
  <2>4. QED
    BY <2>3, <1>9 DEF InspectMetadata
<1>10. CASE RemoveMetadata(p)
  BY <1>0, <1>10 DEF RemoveMetadata, PrunerState, PrunerType
<1>11. CASE EndPrune(p)
  BY <1>0, <1>11, IdleTypes DEF EndPrune
<1>12. CASE CrashPrune(p)
  BY <1>0, <1>12, IdleTypes DEF CrashPrune
<1>13. QED
  BY <1>1, <1>2, <1>3, <1>4, <1>5, <1>6, <1>7, <1>8, <1>9, <1>10, <1>11, <1>12
  DEF PrunerStep

LEMMA TypeStep == TypeOK /\ [Next]_vars => TypeOK'
<1> SUFFICES ASSUME TypeOK, [Next]_vars PROVE TypeOK'
  OBVIOUS
<1>1. ASSUME NEW m \in Manifest, RetireManifest(m) PROVE TypeOK'
  BY <1>1 DEF RetireManifest, TypeOK, FileState
<1>2. CASE Tick
  BY <1>2 DEF Tick, TypeOK, tree, counters
<1>3. CASE UNCHANGED vars
  BY <1>3 DEF vars, TypeOK, tree, counters
<1>4. QED
  BY <1>1, <1>2, <1>3, StartWriteType, WriterStepType, PrunerStepType DEF Next

\* In every reachable state the variables have their types; a running
\* process knows the manifest, file or directory it is at.
THEOREM TypeCorrect == Spec => []TypeOK
BY InitType, TypeStep, PTL DEF Spec

-----------------------------------------------------------------------------
(* Completeness of what is published, when the operator lets prunes overlap *)
(* at most each other and no writer is killed.                              *)

Exclusive == Overlap \subseteq {{"prune"}} /\ MaxCrashes = 0

LEMMA StartsAlone ==
  ASSUME Exclusive
  PROVE  /\ MayStart("write") => WritersRunning = {} /\ PrunersRunning = {}
         /\ MayStart("prune") => WritersRunning = {}
<1>1. {"write", "write"} # {"prune"} /\ {"write", "prune"} # {"prune"}
      /\ {"prune", "write"} # {"prune"}
  OBVIOUS
<1>2. QED
  BY <1>1 DEF Exclusive, MayStart

LEMMA InitExclusive == Init => ExclusiveInv
<1> SUFFICES ASSUME Init PROVE ExclusiveInv
  OBVIOUS
<1>1. TypeOK
  BY InitType
<1>2. WritersRunning = {} /\ PrunersRunning = {} /\ Published = {}
  BY DEF Init, WritersRunning, PrunersRunning, Published, IdleWriter, IdlePruner
<1>3. OnlyCurrentPartial
  BY DEF Init, OnlyCurrentPartial, IdleWriter
<1>4. (\A w \in Writer : WriterSecured(w)) /\ \A p \in Pruner : PrunerHarmless(p)
  BY DEF Init, WriterSecured, PrunerHarmless, IdleWriter, IdlePruner
<1>5. QED
  BY <1>1, <1>2, <1>3, <1>4 DEF ExclusiveInv, PublishedComplete

\* While w runs nobody else does, so its steps have to keep only these parts.
LEMMA WriterAlone ==
  ASSUME ExclusiveInv, NEW w \in Writer, writer[w].pc # "idle",
         \A v \in Writer \ {w} : writer'[v].pc = writer[v].pc,
         UNCHANGED pruner,
         TypeOK', OnlyCurrentPartial', WriterSecured(w)', PublishedComplete'
  PROVE  ExclusiveInv'
<1>1. \A v \in Writer \ {w} : writer[v].pc = "idle"
  BY DEF ExclusiveInv, WritersRunning
<1>2. \A p \in Pruner : pruner[p].pc = "idle"
  BY DEF ExclusiveInv, WritersRunning, PrunersRunning
<1>3. \A v \in Writer \ {w} : writer'[v].pc = "idle"
  BY <1>1
<1>4. PrunersRunning' = {} /\ \A p \in Pruner : PrunerHarmless(p)'
  BY <1>2 DEF PrunersRunning, PrunerHarmless
<1>5. \A u, v \in WritersRunning' : u = v
  BY <1>3 DEF WritersRunning
<1>6. \A v \in Writer : WriterSecured(v)'
  BY <1>3 DEF WriterSecured
<1>7. QED
  BY <1>4, <1>5, <1>6 DEF ExclusiveInv

\* While a pruner runs no writer does, so its steps have to keep only these
\* parts.  What a pruner removes, H, is nothing a manifest refers to.
LEMMA PrunersAlone ==
  ASSUME ExclusiveInv, WritersRunning = {}, NEW H,
         data' = [h \in Hash |-> IF h \in H THEN "absent" ELSE data[h]],
         \A m \in Published : Hashes(m) \cap H = {},
         \A w \in Writer : writer'[w].pc = writer[w].pc,
         UNCHANGED manifests,
         TypeOK', \A p \in Pruner : PrunerHarmless(p)'
  PROVE  ExclusiveInv'
<1>1. \A w \in Writer : writer[w].pc = "idle" /\ writer'[w].pc = "idle"
  BY DEF WritersRunning
<1>2. WritersRunning' = {}
  BY <1>1 DEF WritersRunning
<1>3. \A h \in Hash : data[h] # "partial" /\ data'[h] # "partial"
  BY <1>1 DEF ExclusiveInv, OnlyCurrentPartial
<1>4. OnlyCurrentPartial'
  BY <1>1, <1>3 DEF OnlyCurrentPartial
<1>5. \A w \in Writer : WriterSecured(w)'
  BY <1>1 DEF WriterSecured
<1>6. Published' = Published
  BY DEF Published
<1>7. PublishedComplete'
  <2> SUFFICES ASSUME NEW m \in Published, NEW h \in Hashes(m) PROVE data'[h] = "whole"
    BY <1>6 DEF PublishedComplete, Settled, Hashes
  <2>1. data[h] = "whole"
    BY <1>1 DEF ExclusiveInv, PublishedComplete, Settled
  <2>2. h \in Hash
    BY EntriesType DEF Published
  <2>3. QED
    BY <2>1, <2>2
<1>8. QED
  BY <1>2, <1>4, <1>5, <1>7 DEF ExclusiveInv

\* A run of the writer starts when nothing else runs; all data is then whole.
LEMMA StartWriteKeeps ==
  ASSUME Exclusive, ExclusiveInv, NEW w \in Writer, NEW m \in Manifest,
         NEW force \in BOOLEAN, StartWrite(w, m, force)
  PROVE  ExclusiveInv'
<1>1. WritersRunning = {} /\ PrunersRunning = {}
  BY StartsAlone DEF StartWrite
<1>2. \A v \in Writer : writer[v].pc = "idle"
  BY <1>1 DEF WritersRunning
<1>3. \A h \in Hash : data[h] # "partial"
  BY <1>2 DEF ExclusiveInv, OnlyCurrentPartial
<1>4. /\ writer'[w].pc = "entries" /\ writer'[w].job = m
      /\ writer'[w].known = Reusable(force) /\ writer'[w].todo = DOMAIN Entries[m]
      /\ \A v \in Writer \ {w} : writer'[v].pc = "idle"
  <2>1. Joined \in [Writer -> WriterState]
    BY HelperTypes DEF ExclusiveInv
  <2>2. \A v \in Writer : Joined[v].pc = writer[v].pc
    BY DEF ExclusiveInv, TypeOK, WriterState, WriterType, Joined
  <2>3. QED
    BY <1>2, <2>1, <2>2 DEF StartWrite, IdleWriter
<1>5. TypeOK'
  BY StartWriteType DEF ExclusiveInv
<1>6. UNCHANGED <<data, manifests, pruner>>
  BY DEF StartWrite, tree
<1>7. \A h \in Reusable(force) : data[h] = "whole"
  BY <1>3 DEF Reusable, InStorage, ExclusiveInv, TypeOK, FileState
<1>8. \A v \in Writer : WriterSecured(v)'
  BY <1>4, <1>6, <1>7 DEF WriterSecured
<1>9. OnlyCurrentPartial'
  BY <1>3, <1>4, <1>6 DEF OnlyCurrentPartial
<1>10. PublishedComplete'
  BY <1>2, <1>6 DEF ExclusiveInv, PublishedComplete, Settled, Published
<1>11. PrunersRunning' = {} /\ \A p \in Pruner : PrunerHarmless(p)'
  BY <1>1, <1>6 DEF PrunersRunning, PrunerHarmless
<1>12. \A u, v \in WritersRunning' : u = v
  BY <1>4 DEF WritersRunning
<1>13. QED
  BY <1>5, <1>8, <1>9, <1>10, <1>11, <1>12 DEF ExclusiveInv

\* Steps of a running writer that leave data and manifests alone.
LEMMA WriterBookkeeping ==
  ASSUME ExclusiveInv, NEW w \in Writer, writer[w].pc \notin {"idle", "compress"},
         writer'[w].pc # "compress",
         \A v \in Writer \ {w} : writer'[v].pc = writer[v].pc,
         UNCHANGED <<data, manifests, pruner>>,
         TypeOK', WriterSecured(w)'
  PROVE  ExclusiveInv'
<1>1. \A v \in Writer : writer[v].pc # "compress" /\ writer'[v].pc # "compress"
  BY DEF ExclusiveInv, WritersRunning
<1>2. OnlyCurrentPartial'
  BY <1>1 DEF ExclusiveInv, OnlyCurrentPartial
<1>3. PublishedComplete'
  BY <1>1 DEF ExclusiveInv, PublishedComplete, Settled, Published
<1>4. QED
  BY <1>2, <1>3, WriterAlone

LEMMA WriterStepKeeps ==
  ASSUME Exclusive, ExclusiveInv, NEW w \in Writer, WriterStep(w) \/ CrashWrite(w)
  PROVE  ExclusiveInv'
<1>0. TypeOK /\ TypeOK'
  BY WriterStepType DEF ExclusiveInv
<1>a. writer[w] \in WriterState
  BY <1>0 DEF TypeOK
<1>b. WriterSecured(w) /\ OnlyCurrentPartial
  BY DEF ExclusiveInv
<1>c. \A v \in Writer \ {w} : writer[w].pc # "idle" => writer[v].pc = "idle"
  BY DEF ExclusiveInv, WritersRunning
<1> USE DEF TypeOK, tree, counters
<1>1. CASE SkipEntry(w)
  <2>1. PICK r \in writer[w].todo :
          /\ Entries[writer[w].job][r] \in writer[w].known
          /\ writer' = [writer EXCEPT ![w].todo = @ \ {r}]
    BY <1>1 DEF SkipEntry
  <2>2. /\ writer'[w].pc = "entries" /\ writer'[w].job = writer[w].job
        /\ writer'[w].known = writer[w].known /\ writer'[w].todo = writer[w].todo \ {r}
        /\ writer'[w].cur = writer[w].cur
    BY <1>0, <1>a, <1>1, <2>1 DEF SkipEntry, WriterState, WriterType
  <2>3. WriterSecured(w)'
    BY <1>b, <1>1, <2>1, <2>2 DEF SkipEntry, WriterSecured
  <2>4. QED
    BY <1>0, <1>1, <2>1, <2>2, <2>3, WriterBookkeeping DEF SkipEntry
<1>2. CASE MakePath(w)
  <2>1. PICK r \in writer[w].todo :
        LET h == Entries[writer[w].job][r] IN
        /\ h \notin writer[w].known
        /\ writer' = [writer EXCEPT ![w].pc = "open", ![w].cur = h, ![w].todo = @ \ {r}]
    BY <1>2 DEF MakePath
  <2>2. /\ writer'[w].pc = "open" /\ writer'[w].job = writer[w].job
        /\ writer'[w].known = writer[w].known /\ writer'[w].todo = writer[w].todo \ {r}
        /\ writer'[w].cur = Entries[writer[w].job][r]
        /\ \A v \in Writer \ {w} : writer'[v].pc = writer[v].pc
    BY <1>0, <1>a, <2>1 DEF WriterState, WriterType
  <2>3. WriterSecured(w)'
    BY <1>b, <1>2, <2>1, <2>2 DEF MakePath, WriterSecured
  <2>4. QED
    BY <1>0, <1>2, <2>2, <2>3, WriterBookkeeping DEF MakePath
<1>3. CASE OpenData(w)
  <2> DEFINE h == writer[w].cur
  <2>1. /\ writer'[w].pc = "compress" /\ writer'[w].job = writer[w].job /\ writer'[w].fd = "live"
        /\ writer'[w].known = writer[w].known /\ writer'[w].todo = writer[w].todo
        /\ writer'[w].cur = h
        /\ \A v \in Writer \ {w} : writer'[v].pc = writer[v].pc
    <3>1. writer'[w] = [writer[w] EXCEPT !.pc = "compress", !.fd = "live"]
      BY <1>3 DEF OpenData
    <3>2. \A v \in Writer \ {w} : writer'[v] \in {writer[v], [writer[v] EXCEPT !.fd = "shared"]}
      BY <1>3 DEF OpenData
    <3>3. \A v \in Writer : writer[v] \in WriterType
      BY <1>0 DEF WriterState
    <3>4. QED
      BY <3>1, <3>2, <3>3 DEF WriterType
  <2>2. data' = [data EXCEPT ![h] = "partial"] /\ h \in Hash /\ writer[w].pc = "open"
    BY <1>a, <1>3 DEF OpenData, WriterState
  <2>3. WriterSecured(w)'
    BY <1>0, <1>b, <2>1, <2>2 DEF WriterSecured
  <2>4. OnlyCurrentPartial'
    BY <1>0, <1>b, <1>c, <2>1, <2>2 DEF OnlyCurrentPartial
  <2>5. PublishedComplete'
    <3> SUFFICES ASSUME NEW m \in Published, NEW g \in Hashes(m) PROVE Settled(g)'
      BY <1>3 DEF OpenData, PublishedComplete, Published, Hashes
    <3>1. CASE g = h
      BY <2>1, <3>1 DEF Settled
    <3>2. CASE g # h
      <4>1. data[g] = "whole"
        BY <1>c, <2>2 DEF ExclusiveInv, PublishedComplete, Settled
      <4>2. g \in Hash
        BY EntriesType DEF Published
      <4>3. QED
        BY <1>0, <2>2, <3>2, <4>1, <4>2 DEF Settled
    <3>3. QED
      BY <3>1, <3>2
  <2>6. QED
    BY <1>0, <1>3, <2>1, <2>2, <2>3, <2>4, <2>5, WriterAlone DEF OpenData
<1>4. CASE OpenDataFails(w)
  <2>1. writer'[w].pc = "idle" /\ \A v \in Writer \ {w} : writer'[v].pc = writer[v].pc
    BY <1>0, <1>4 DEF OpenDataFails, IdleWriter
  <2>2. QED
    BY <1>0, <1>4, <2>1, WriterBookkeeping DEF OpenDataFails, WriterSecured
<1>5. CASE CloseData(w)
  <2> DEFINE h == writer[w].cur
  <2>1. writer[w].pc = "compress" /\ writer[w].fd = "live" /\ data[h] = "partial" /\ h \in Hash
    BY <1>a, <1>b, <1>5 DEF CloseData, OnlyCurrentPartial, WriterState
  <2>2. data' = [data EXCEPT ![h] = "whole"]
    BY <1>5, <2>1 DEF CloseData
  <2>3. /\ writer'[w].pc = "entries" /\ writer'[w].job = writer[w].job
        /\ writer'[w].known = writer[w].known /\ writer'[w].todo = writer[w].todo
        /\ \A v \in Writer \ {w} : writer'[v].pc = writer[v].pc
    BY <1>0, <1>a, <1>5, <2>1 DEF CloseData, WriterState, WriterType
  <2>4. \A g \in Hash : data[g] = "whole" => data'[g] = "whole"
    BY <1>0, <2>2
  <2>5. WriterSecured(w)'
    <3>1. \A g \in writer'[w].known : data'[g] = "whole"
      BY <1>a, <1>b, <2>1, <2>3, <2>4 DEF WriterSecured, WriterState, WriterType
    <3>2. \A r \in DOMAIN Entries[writer'[w].job] \ writer'[w].todo :
            data'[Entries[writer'[w].job][r]] = "whole"
      BY <1>0, <1>a, <1>b, <2>1, <2>2, <2>3, EntriesType DEF WriterSecured, WriterState
    <3>3. QED
      BY <2>3, <3>1, <3>2 DEF WriterSecured
  <2>6. OnlyCurrentPartial'
    <3>1. \A g \in Hash : data'[g] # "partial"
      BY <1>0, <1>b, <1>c, <2>1, <2>2 DEF OnlyCurrentPartial
    <3>2. \A v \in Writer : writer'[v].pc # "compress"
      BY <1>c, <2>1, <2>3
    <3>3. QED
      BY <3>1, <3>2 DEF OnlyCurrentPartial
  <2>7. PublishedComplete'
    <3> SUFFICES ASSUME NEW m \in Published, NEW g \in Hashes(m) PROVE data'[g] = "whole"
      BY <1>5 DEF CloseData, PublishedComplete, Published, Hashes, Settled
    <3>1. g \in Hash
      BY EntriesType DEF Published
    <3>2. data[g] = "whole" \/ g = h
      BY <1>c, <2>1 DEF ExclusiveInv, PublishedComplete, Settled
    <3>3. QED
      BY <1>0, <2>2, <3>1, <3>2
  <2>8. QED
    BY <1>0, <1>5, <2>1, <2>3, <2>5, <2>6, <2>7, WriterAlone DEF CloseData
<1>6. CASE WriteOrigin(w)
  <2>1. /\ writer'[w].pc = "latest" /\ writer'[w].job = writer[w].job
        /\ writer'[w].known = writer[w].known /\ writer'[w].todo = {}
        /\ \A v \in Writer \ {w} : writer'[v].pc = writer[v].pc
    BY <1>0, <1>a, <1>6 DEF WriteOrigin, EntriesDone, WriterState, WriterType
  <2>2. WriterSecured(w)'
    BY <1>b, <1>6, <2>1 DEF WriteOrigin, EntriesDone, WriterSecured
  <2>3. QED
    BY <1>0, <1>6, <2>1, <2>2, WriterBookkeeping DEF WriteOrigin, EntriesDone
<1>7. CASE WriteLatest(w)
  <2>1. /\ writer'[w].pc = "manifest" /\ writer'[w].job = writer[w].job
        /\ writer'[w].known = writer[w].known /\ writer'[w].todo = writer[w].todo
        /\ \A v \in Writer \ {w} : writer'[v].pc = writer[v].pc
    BY <1>0, <1>a, <1>7 DEF WriteLatest, WriterState, WriterType
  <2>2. WriterSecured(w)'
    BY <1>b, <1>7, <2>1 DEF WriteLatest, WriterSecured
  <2>3. QED
    BY <1>0, <1>7, <2>1, <2>2, WriterBookkeeping DEF WriteLatest
<1>8. CASE OpenManifest(w)
  <2>1. /\ writer'[w].pc = "publish" /\ writer'[w].job = writer[w].job
        /\ writer'[w].known = writer[w].known /\ writer'[w].todo = writer[w].todo
        /\ \A v \in Writer \ {w} : writer'[v].pc = writer[v].pc
    BY <1>0, <1>a, <1>8 DEF OpenManifest, WriterState, WriterType
  <2>2. WriterSecured(w)'
    BY <1>b, <1>8, <2>1 DEF OpenManifest, WriterSecured
  <2>3. Published' \subseteq Published
    BY <1>0, <1>8 DEF OpenManifest, Published
  <2>4. \A v \in Writer : writer[v].pc # "compress" /\ writer'[v].pc # "compress"
    BY <1>c, <1>8, <2>1 DEF OpenManifest
  <2>5. OnlyCurrentPartial' /\ PublishedComplete'
    BY <1>8, <2>3, <2>4 DEF OpenManifest, ExclusiveInv, OnlyCurrentPartial,
       PublishedComplete, Settled, Hashes
  <2>6. QED
    BY <1>0, <1>8, <2>1, <2>2, <2>5, WriterAlone DEF OpenManifest
<1>9. CASE CloseManifest(w)
  <2>1. /\ writer'[w].pc = "json" /\ writer'[w].job = writer[w].job
        /\ writer'[w].known = writer[w].known /\ writer'[w].todo = writer[w].todo
        /\ \A v \in Writer \ {w} : writer'[v].pc = writer[v].pc
    BY <1>0, <1>a, <1>9 DEF CloseManifest, WriterState, WriterType
  <2>2. WriterSecured(w)'
    BY <1>b, <1>9, <2>1 DEF CloseManifest, WriterSecured
  <2>3. Published' \subseteq Published \cup {writer[w].job}
    BY <1>0, <1>9 DEF CloseManifest, Published
  <2>4. \A v \in Writer : writer[v].pc # "compress" /\ writer'[v].pc # "compress"
    BY <1>c, <1>9, <2>1 DEF CloseManifest
  <2>5. \A h \in Hashes(writer[w].job) : data[h] = "whole"
    BY <1>b, <1>9 DEF CloseManifest, WriterSecured, Hashes
  <2>6. OnlyCurrentPartial' /\ PublishedComplete'
    BY <1>9, <2>3, <2>4, <2>5 DEF CloseManifest, ExclusiveInv, OnlyCurrentPartial,
       PublishedComplete, Settled, Hashes
  <2>7. QED
    BY <1>0, <1>9, <2>1, <2>2, <2>6, WriterAlone DEF CloseManifest
<1>10. CASE WriteJson(w)
  <2>1. writer'[w].pc = "idle" /\ \A v \in Writer \ {w} : writer'[v].pc = writer[v].pc
    BY <1>0, <1>10 DEF WriteJson, IdleWriter
  <2>2. QED
    BY <1>0, <1>10, <2>1, WriterBookkeeping DEF WriteJson, WriterSecured
<1>11. CASE CrashWrite(w)
  BY <1>0, <1>11 DEF CrashWrite, Exclusive
<1>12. QED
  BY <1>1, <1>2, <1>3, <1>4, <1>5, <1>6, <1>7, <1>8, <1>9, <1>10, <1>11
  DEF WriterStep

\* No step of a pruner removes what a manifest refers to.
LEMMA PrunerStepKeeps ==
  ASSUME Exclusive, ExclusiveInv, NEW p \in Pruner,
         StartPrune(p) \/ PrunerStep(p) \/ CrashPrune(p)
  PROVE  ExclusiveInv'
<1>0. TypeOK /\ TypeOK'
  BY PrunerStepType DEF ExclusiveInv
<1>1. WritersRunning = {}
  BY StartsAlone DEF ExclusiveInv, StartPrune, PrunerStep, CrashPrune, PrunersRunning,
     ListStorage, StatOrphan, UnlinkOrphan, ListDirs, InspectDir, RemoveDir,
     ListMetadata, InspectMetadata, RemoveMetadata, EndPrune
<1>2. UNCHANGED manifests /\ Published' = Published
  BY DEF StartPrune, PrunerStep, CrashPrune, ListStorage, StatOrphan, UnlinkOrphan,
     ListDirs, InspectDir, RemoveDir, ListMetadata, InspectMetadata, RemoveMetadata,
     EndPrune, tree, Published
<1>3. /\ \A q \in Pruner : PrunerHarmless(q)
      /\ \A m \in Published : \A h \in Hashes(m) : h \in Hash
  BY EntriesType DEF ExclusiveInv, Published
<1>4. pruner[p] \in PrunerState
  BY <1>0 DEF TypeOK
<1>5. ASSUME UNCHANGED data, \A w \in Writer : writer'[w].pc = writer[w].pc,
             \A q \in Pruner \ {p} : pruner'[q] = pruner[q], PrunerHarmless(p)'
      PROVE  ExclusiveInv'
  <2>1. data' = [h \in Hash |-> IF h \in {} THEN "absent" ELSE data[h]]
    BY <1>0, <1>5 DEF TypeOK
  <2>2. \A q \in Pruner : PrunerHarmless(q)'
    BY <1>2, <1>3, <1>5 DEF PrunerHarmless, Hashes, Contents, InStorage
  <2>3. QED
    BY <1>0, <1>1, <1>2, <1>5, <2>1, <2>2, PrunersAlone
<1>6. ASSUME NEW H, data' = Without(H), writer' = Unlinked(H),
             \A m \in Published : Hashes(m) \cap H = {},
             \A q \in Pruner \ {p} : pruner'[q] = pruner[q], PrunerHarmless(p)'
      PROVE  ExclusiveInv'
  <2>1. \A w \in Writer : writer'[w].pc = writer[w].pc
    BY <1>0, <1>6 DEF TypeOK, Unlinked, WriterState, WriterType
  <2>2. InStorage' \subseteq InStorage
    BY <1>6 DEF Without, InStorage
  <2>3. \A q \in Pruner : PrunerHarmless(q)'
    BY <1>2, <1>3, <1>6, <2>2 DEF PrunerHarmless, Hashes, Contents
  <2>4. QED
    BY <1>0, <1>1, <1>2, <1>6, <2>1, <2>3, PrunersAlone DEF Without
<1> USE DEF TypeOK, tree, counters
<1>7. CASE StartPrune(p)
  <2>1. \A w \in Writer : writer'[w].pc = writer[w].pc
    BY <1>0, <1>7 DEF StartPrune, Joined, WriterState, WriterType
  <2>2. pruner'[p].pc = "list" /\ pruner'[p].keep = Referenced
    BY <1>0, <1>7 DEF StartPrune, IdlePruner
  <2>3. PrunerHarmless(p)'
    BY <1>2, <2>2 DEF PrunerHarmless, Referenced, Hashes
  <2>4. QED
    BY <1>0, <1>5, <1>7, <2>1, <2>3 DEF StartPrune
<1>8. CASE ListStorage(p)
  <2>1. /\ pruner'[p].pc = "stat" /\ pruner'[p].keep = pruner[p].keep
        /\ pruner'[p].orphans = InStorage \ pruner[p].keep
    BY <1>0, <1>4, <1>8 DEF ListStorage, Orphans, PrunerState, PrunerType
  <2>2. PrunerHarmless(p)'
    BY <1>2, <1>3, <1>8, <2>1 DEF ListStorage, PrunerHarmless, Hashes
  <2>3. QED
    BY <1>0, <1>5, <1>8, <2>2 DEF ListStorage
<1>9. CASE StatOrphan(p)
  <2>1. PICK h \in pruner[p].orphans : pruner' = [pruner EXCEPT ![p] = Measured(p, h)]
    BY <1>9 DEF StatOrphan
  <2>2. pruner'[p] = Measured(p, h)
    BY <1>0, <2>1
  <2>3. \/ pruner'[p].pc = "idle"
        \/ /\ pruner'[p].pc = "stat" /\ pruner'[p].keep = pruner[p].keep
           /\ pruner'[p].orphans = pruner[p].orphans \ {h}
        \/ /\ pruner'[p].pc = "unlink" /\ pruner'[p].keep = pruner[p].keep
           /\ pruner'[p].orphans = pruner[p].orphans \ {h} /\ pruner'[p].cur = h
    <3>1. pruner[p].pc = "stat" /\ pruner[p] \in PrunerType
      BY <1>4, <1>9 DEF StatOrphan, PrunerState
    <3>2. IdlePruner.pc = "idle"
      BY DEF IdlePruner
    <3>3. pruner'[p] \in
            {IdlePruner, [pruner[p] EXCEPT !.orphans = @ \ {h}],
             [pruner[p] EXCEPT !.pc = "unlink", !.cur = h, !.orphans = @ \ {h}]}
      BY <2>2 DEF Measured
    <3>4. CASE pruner'[p] = IdlePruner
      BY <3>2, <3>4
    <3>5. CASE pruner'[p] = [pruner[p] EXCEPT !.orphans = @ \ {h}]
      BY <3>1, <3>5 DEF PrunerType
    <3>6. CASE pruner'[p] = [pruner[p] EXCEPT !.pc = "unlink", !.cur = h, !.orphans = @ \ {h}]
      BY <3>1, <3>6 DEF PrunerType
    <3>7. QED
      BY <3>3, <3>4, <3>5, <3>6
  <2>4. PrunerHarmless(p)'
    BY <1>2, <1>3, <1>9, <2>3 DEF StatOrphan, PrunerHarmless, Hashes
  <2>5. QED
    BY <1>0, <1>5, <1>9, <2>1, <2>4 DEF StatOrphan
<1>10. CASE UnlinkOrphan(p)
  <2>1. /\ pruner'[p].pc = "stat" /\ pruner'[p].keep = pruner[p].keep
        /\ pruner'[p].orphans = pruner[p].orphans
    BY <1>0, <1>4, <1>10 DEF UnlinkOrphan, PrunerState, PrunerType
  <2>2. PrunerHarmless(p)'
    BY <1>2, <1>3, <1>10, <2>1 DEF UnlinkOrphan, PrunerHarmless, Hashes
  <2>3. \A m \in Published : Hashes(m) \cap {pruner[p].cur} = {}
    BY <1>3, <1>4, <1>10 DEF UnlinkOrphan, PrunerHarmless, PrunerState
  <2>4. QED
    BY <1>0, <1>6, <1>10, <2>2, <2>3 DEF UnlinkOrphan
<1>11. CASE ListDirs(p)
  <2>1. pruner'[p].pc = "dirs" /\ pruner'[p].keep = pruner[p].keep
    BY <1>0, <1>4, <1>11 DEF ListDirs, PrunerState, PrunerType
  <2>2. PrunerHarmless(p)'
    BY <1>2, <1>3, <1>11, <2>1 DEF ListDirs, PrunerHarmless, Hashes
  <2>3. QED
    BY <1>0, <1>5, <1>11, <2>2 DEF ListDirs
<1>12. CASE InspectDir(p)
  <2>1. PICK d \in pruner[p].dirs : pruner' = [pruner EXCEPT ![p] = Inspected(p, d)]
    BY <1>12 DEF InspectDir
  <2>2. pruner'[p] = Inspected(p, d)
    BY <1>0, <2>1
  <2>3. /\ pruner'[p].keep = pruner[p].keep
        /\ \/ pruner'[p].pc = "dirs"
           \/ pruner'[p].pc = "rmdir" /\ pruner'[p].cur = d /\ Contents(d) = {}
    BY <1>4, <1>12, <2>2 DEF InspectDir, Inspected, PrunerState, PrunerType
  <2>4. Contents(d)' = Contents(d)
    BY <1>12 DEF InspectDir, Contents, InStorage
  <2>5. PrunerHarmless(p)'
    BY <1>2, <1>3, <1>12, <2>3, <2>4 DEF InspectDir, PrunerHarmless, Hashes, Contents, InStorage
  <2>6. QED
    BY <1>0, <1>5, <1>12, <2>1, <2>5 DEF InspectDir
<1>13. CASE RemoveDir(p)
  <2>1. pruner'[p].pc = "dirs" /\ pruner'[p].keep = pruner[p].keep
    BY <1>0, <1>4, <1>13 DEF RemoveDir, PrunerState, PrunerType
  <2>2. PrunerHarmless(p)'
    BY <1>2, <1>3, <1>13, <2>1 DEF RemoveDir, PrunerHarmless, Hashes
  <2>3. Contents(pruner[p].cur) = {}
    BY <1>3, <1>13 DEF RemoveDir, PrunerHarmless
  <2>4. QED
    BY <1>0, <1>6, <1>13, <2>2, <2>3 DEF RemoveDir
<1>14. CASE ListMetadata(p)
  <2>1. pruner'[p].pc = "meta" /\ pruner'[p].keep = pruner[p].keep
    BY <1>0, <1>4, <1>14 DEF ListMetadata, PrunerState, PrunerType
  <2>2. PrunerHarmless(p)'
    BY <1>2, <1>3, <1>14, <2>1 DEF ListMetadata, PrunerHarmless, Hashes
  <2>3. QED
    BY <1>0, <1>5, <1>14, <2>2 DEF ListMetadata
<1>15. CASE InspectMetadata(p)
  <2>1. PICK m \in pruner[p].metas : pruner' = [pruner EXCEPT ![p] = Considered(p, m)]
    BY <1>15 DEF InspectMetadata
  <2>2. pruner'[p] = Considered(p, m)
    BY <1>0, <2>1
  <2>3. pruner'[p].pc \in {"meta", "unmeta"} /\ pruner'[p].keep = pruner[p].keep
    BY <1>4, <1>15, <2>2 DEF InspectMetadata, Considered, PrunerState, PrunerType
  <2>4. PrunerHarmless(p)'
    BY <1>2, <1>3, <1>15, <2>3 DEF InspectMetadata, PrunerHarmless, Hashes
  <2>5. QED
    BY <1>0, <1>5, <1>15, <2>1, <2>4 DEF InspectMetadata
<1>16. CASE RemoveMetadata(p)
  <2>1. pruner'[p].pc = "meta" /\ pruner'[p].keep = pruner[p].keep
    BY <1>0, <1>4, <1>16 DEF RemoveMetadata, PrunerState, PrunerType
  <2>2. PrunerHarmless(p)'
    BY <1>2, <1>3, <1>16, <2>1 DEF RemoveMetadata, PrunerHarmless, Hashes
  <2>3. QED
    BY <1>0, <1>5, <1>16, <2>2 DEF RemoveMetadata
<1>17. CASE EndPrune(p) \/ CrashPrune(p)
  <2>1. pruner'[p].pc = "idle"
    BY <1>0, <1>17 DEF EndPrune, CrashPrune, IdlePruner
  <2>2. PrunerHarmless(p)'
    BY <2>1 DEF PrunerHarmless
  <2>3. QED
    BY <1>0, <1>5, <1>17, <2>2 DEF EndPrune, CrashPrune
<1>18. QED
  BY <1>7, <1>8, <1>9, <1>10, <1>11, <1>12, <1>13, <1>14, <1>15, <1>16, <1>17
  DEF PrunerStep

LEMMA RetireKeeps ==
  ASSUME ExclusiveInv, NEW m \in Manifest, RetireManifest(m)
  PROVE  ExclusiveInv'
<1>1. Published' \subseteq Published /\ UNCHANGED <<data, writer, pruner>>
  BY DEF RetireManifest, Published, ExclusiveInv, TypeOK
<1>2. TypeOK'
  BY DEF RetireManifest, ExclusiveInv, TypeOK, FileState
<1>3. OnlyCurrentPartial' /\ (\A w \in Writer : WriterSecured(w)')
  BY <1>1 DEF ExclusiveInv, OnlyCurrentPartial, WriterSecured
<1>4. \A p \in Pruner : PrunerHarmless(p)'
  BY <1>1 DEF ExclusiveInv, PrunerHarmless, Hashes, Contents, InStorage
<1>5. PublishedComplete'
  BY <1>1 DEF ExclusiveInv, PublishedComplete, Settled, Hashes
<1>6. QED
  BY <1>1, <1>2, <1>3, <1>4, <1>5 DEF ExclusiveInv, WritersRunning, PrunersRunning

\* No step of any process, and none of the operator, breaks the invariant.
LEMMA ExclusiveStep ==
  ASSUME Exclusive, ExclusiveInv, [Next]_vars
  PROVE  ExclusiveInv'
<1>1. CASE Tick \/ UNCHANGED vars
  <2>1. TypeOK' /\ UNCHANGED <<data, manifests, writer, pruner>>
    BY <1>1, TypeStep DEF Tick, vars, tree, ExclusiveInv
  <2>2. QED
    BY <2>1 DEF ExclusiveInv, WritersRunning, PrunersRunning, OnlyCurrentPartial,
       WriterSecured, PrunerHarmless, PublishedComplete, Settled, Published, Hashes,
       Contents, InStorage
<1>2. QED
  BY <1>1, StartWriteKeeps, WriterStepKeeps, PrunerStepKeeps, RetireKeeps DEF Next

\* When the operator runs writers alone and none is killed, every manifest in
\* the repository has all of its data at all times, while a writer adds to it
\* and while prunes, killed ones included, remove from it.
THEOREM ExclusiveComplete == ASSUME Exclusive PROVE Spec => []PublishedComplete
<1>1. ExclusiveInv /\ [Next]_vars => ExclusiveInv'
  BY ExclusiveStep
<1>2. ExclusiveInv => PublishedComplete
  BY DEF ExclusiveInv
<1>3. QED
  BY InitExclusive, <1>1, <1>2, PTL DEF Spec

-----------------------------------------------------------------------------
(* Without a restriction: whatever runs the operator lets overlap, and     *)
(* with processes killed anywhere.  The inductive invariants.              *)

\* The clock is past every time that was taken from it ...
ClockPast ==
  /\ \A h \in Hash : mtime[h] <= now
  /\ \A p \in Pruner : pruner[p].stamp <= now

\* ... and of the files that pruner p did not keep, those it has dealt with
\* are too young, or are gone.
Dealt(p) ==
  pruner[p].pc \notin {"idle", "list"} =>
    \A h \in InStorage \ pruner[p].keep :
      \/ pruner[p].stamp - mtime[h] <= MinAge
      \/ pruner[p].pc \in {"stat", "unlink"} /\ h \in pruner[p].orphans
      \/ pruner[p].pc = "unlink" /\ h = pruner[p].cur

ReclaimInv == TypeOK /\ ClockPast /\ \A p \in Pruner : Dealt(p)

\* What a writer took for stored, and the contents it has been through, exist.
WriterPresent(w) ==
  writer[w].pc # "idle" =>
    /\ writer[w].known \subseteq InStorage
    /\ writer[w].pc = "compress" => writer[w].cur \in InStorage
    /\ \A r \in DOMAIN Entries[writer[w].job] \ writer[w].todo :
         LET h == Entries[writer[w].job][r] IN
         h \in InStorage \/ (writer[w].pc = "open" /\ h = writer[w].cur)
    /\ writer[w].pc \notin {"entries", "open", "compress"} => writer[w].todo = {}

Apart == WritersRunning = {} \/ PrunersRunning = {}

\* No prune has run beside a writer, so that pruners removed only what nothing
\* referred to.
PresentInv ==
  /\ TypeOK
  /\ ~mixed =>
       /\ Apart
       /\ \A w \in Writer : WriterPresent(w)
       /\ \A p \in Pruner : PrunerHarmless(p)
       /\ \A m \in Published : Hashes(m) \subseteq InStorage

\* Without crashes a truncated file has its writer ...
PartialAttended ==
  \A h \in Hash : data[h] = "partial" =>
    \E w \in Writer : writer[w].pc = "compress" /\ writer[w].cur = h /\ writer[w].fd = "live"

\* ... `latest` its manifest, or the writer that is about to write it ...
LatestLeads ==
  latest # NoManifest =>
    \/ latest \in Published
    \/ \E w \in Writer : writer[w].pc \in {"manifest", "publish"} /\ writer[w].job = latest

\* ... and, as long as a pruner removes the metadata of missing manifests only,
UnmetaDangles ==
  \A p \in Pruner : pruner[p].pc = "unmeta" => manifests[pruner[p].cur] = "absent"

\* a manifest has its metadata, or the writer that is about to write them.
JsonFollows ==
  \A m \in Published :
    m \in json \/ \E w \in Writer : writer[w].pc = "json" /\ writer[w].job = m

AttendedInv ==
  /\ TypeOK
  /\ ~mixed => Apart /\ UnmetaDangles
  /\ crashes = 0 => PartialAttended /\ LatestLeads /\ (~mixed => JsonFollows)

\* A writer that has run alone so far has the file it fills to itself, and
\* unless it took truncated files for stored, all it has been through is whole.
SoloWriter(w) ==
  writer[w].pc # "idle" /\ writer[w].solo =>
    /\ \A p \in Pruner : pruner[p].pc = "idle"
    /\ \A v \in Writer \ {w} : writer[v].pc = "idle"
    /\ writer[w].pc = "compress" => writer[w].fd = "live" /\ data[writer[w].cur] = "partial"
    /\ writer[w].force \/ crashes = 0 => WriterSecured(w)

SoloInv == AttendedInv /\ \A w \in Writer : SoloWriter(w)

-----------------------------------------------------------------------------
(* What the steps do to the fields of a process.                           *)

\* A run's constants: nothing but its start sets them.
SameRun(s, t) ==
  t.job = s.job /\ t.force = s.force /\ t.known = s.known /\ t.solo = s.solo

\* Up to the state of its handle and the history, s and t are alike.
Alike(s, t) ==
  /\ t.pc = s.pc /\ t.job = s.job /\ t.force = s.force /\ t.known = s.known
  /\ t.todo = s.todo /\ t.cur = s.cur

LEMMA JoinedAlike ==
  ASSUME TypeOK
  PROVE  /\ Joined \in [Writer -> WriterState]
         /\ \A v \in Writer : Alike(writer[v], Joined[v]) /\ ~Joined[v].solo
                               /\ Joined[v].fd = writer[v].fd
<1>1. ASSUME NEW v \in Writer
      PROVE  Alike(writer[v], Joined[v]) /\ ~Joined[v].solo /\ Joined[v].fd = writer[v].fd
  <2>1. writer[v] \in WriterType /\ Joined[v] = [writer[v] EXCEPT !.solo = FALSE]
    BY DEF TypeOK, WriterState, Joined
  <2>2. Joined[v].solo = FALSE
    BY <2>1 DEF WriterType
  <2>3. QED
    BY <2>1, <2>2 DEF WriterType, Alike
<1>2. QED
  BY <1>1, HelperTypes

LEMMA UnlinkedAlike ==
  ASSUME TypeOK, NEW H, writer' = Unlinked(H)
  PROVE  \A v \in Writer :
           /\ Alike(writer[v], writer'[v]) /\ writer'[v].solo = writer[v].solo
           /\ writer'[v].fd # writer[v].fd => writer[v].cur \in H
BY DEF Unlinked, IsOpenOn, TypeOK, WriterState, WriterType, Alike

LEMMA StartWriteEffect ==
  ASSUME TypeOK, NEW w \in Writer, NEW m \in Manifest, NEW force \in BOOLEAN,
         StartWrite(w, m, force)
  PROVE  /\ writer[w].pc = "idle" /\ writer'[w].pc = "entries" /\ writer'[w].job = m
         /\ writer'[w].force = force /\ writer'[w].known = Reusable(force)
         /\ writer'[w].todo = DOMAIN Entries[m] /\ writer'[w].fd = "none"
         /\ writer'[w].solo <=> WritersRunning = {} /\ PrunersRunning = {}
         /\ \A v \in Writer \ {w} : Alike(writer[v], writer'[v]) /\ ~writer'[v].solo
                                       /\ writer'[v].fd = writer[v].fd
         /\ mixed' <=> mixed \/ PrunersRunning # {}
         /\ UNCHANGED <<now, tree, pruner, crashes, retired>>
<1>1. writer' = [Joined EXCEPT ![w] =
       [IdleWriter EXCEPT !.pc = "entries", !.job = m, !.force = force,
                          !.known = Reusable(force),
                          !.todo = DOMAIN Entries[m], !.since = now,
                          !.solo = WritersRunning = {} /\ PrunersRunning = {}]]
  BY DEF StartWrite
<1>2. \A v \in Writer \ {w} : writer'[v] = Joined[v]
  BY <1>1, JoinedAlike
<1>3. /\ writer'[w].pc = "entries" /\ writer'[w].job = m
      /\ writer'[w].force = force /\ writer'[w].known = Reusable(force)
      /\ writer'[w].todo = DOMAIN Entries[m] /\ writer'[w].fd = "none"
  BY <1>1, JoinedAlike DEF IdleWriter
<1>4. writer'[w].solo = (WritersRunning = {} /\ PrunersRunning = {})
  BY <1>1, JoinedAlike DEF IdleWriter
<1>5. mixed' <=> mixed \/ PrunersRunning # {}
  BY Zenon DEF StartWrite
<1>6. writer[w].pc = "idle" /\ UNCHANGED <<now, tree, pruner, crashes, retired>>
  BY DEF StartWrite
<1>7. QED
  BY <1>2, <1>3, <1>4, <1>5, <1>6, JoinedAlike

\* A step of writer w as the others see it.
LEMMA WriterFrame ==
  ASSUME TypeOK, NEW w \in Writer, WriterStep(w) \/ CrashWrite(w)
  PROVE  /\ writer[w].pc # "idle"
         /\ \A v \in Writer \ {w} :
              /\ Alike(writer[v], writer'[v]) /\ writer'[v].solo = writer[v].solo
              /\ writer'[v].fd # writer[v].fd => OpenData(w) /\ writer[v].cur = writer[w].cur
         /\ UNCHANGED <<now, pruner, mixed, retired>>
<1>1. \A v \in Writer : writer[v] \in WriterType
  BY DEF TypeOK, WriterState
<1>2. CASE OpenData(w)
  <2>1. \A v \in Writer \ {w} :
          \/ writer'[v] = writer[v]
          \/ writer'[v] = [writer[v] EXCEPT !.fd = "shared"] /\ writer[v].cur = writer[w].cur
    BY <1>2 DEF OpenData, IsOpenOn
  <2>2. \A v \in Writer \ {w} :
          Alike(writer[v], writer'[v]) /\ writer'[v].solo = writer[v].solo
    BY <1>1, <2>1 DEF WriterType, Alike
  <2>3. QED
    BY <1>2, <2>1, <2>2 DEF OpenData, counters
<1>3. ASSUME ~OpenData(w)
      PROVE  /\ writer[w].pc # "idle"
             /\ \A v \in Writer \ {w} : writer'[v] = writer[v]
             /\ UNCHANGED <<now, pruner, mixed, retired>>
  <2>1. WriterStep(w) => \/ SkipEntry(w) \/ MakePath(w) \/ OpenDataFails(w) \/ CloseData(w)
                         \/ WriteOrigin(w) \/ WriteLatest(w) \/ OpenManifest(w)
                         \/ CloseManifest(w) \/ WriteJson(w)
    BY <1>3 DEF WriterStep
  <2> USE DEF TypeOK, counters
  <2>2. CASE SkipEntry(w)      BY <2>2 DEF SkipEntry
  <2>3. CASE MakePath(w)       BY <2>3 DEF MakePath
  <2>4. CASE OpenDataFails(w)  BY <2>4 DEF OpenDataFails
  <2>5. CASE CloseData(w)      BY <2>5 DEF CloseData
  <2>6. CASE WriteOrigin(w)    BY <2>6 DEF WriteOrigin, EntriesDone
  <2>7. CASE WriteLatest(w)    BY <2>7 DEF WriteLatest
  <2>8. CASE OpenManifest(w)   BY <2>8 DEF OpenManifest
  <2>9. CASE CloseManifest(w)  BY <2>9 DEF CloseManifest
  <2>10. CASE WriteJson(w)     BY <2>10 DEF WriteJson
  <2>11. CASE CrashWrite(w)    BY <2>11 DEF CrashWrite
  <2>12. QED
    BY <2>1, <2>2, <2>3, <2>4, <2>5, <2>6, <2>7, <2>8, <2>9, <2>10, <2>11
<1>4. QED
  BY <1>2, <1>3 DEF Alike

\* Each step of a writer as it sees it itself.
LEMMA SkipEntryEffect ==
  ASSUME TypeOK, NEW w \in Writer, SkipEntry(w)
  PROVE  /\ writer[w].pc = "entries" /\ writer'[w].pc = "entries"
         /\ SameRun(writer[w], writer'[w]) /\ UNCHANGED <<tree, crashes>>
         /\ \E r \in writer[w].todo :
              /\ Entries[writer[w].job][r] \in writer[w].known
              /\ writer'[w].todo = writer[w].todo \ {r}
BY DEF SkipEntry, TypeOK, WriterState, WriterType, SameRun, counters

LEMMA MakePathEffect ==
  ASSUME TypeOK, NEW w \in Writer, MakePath(w)
  PROVE  /\ writer[w].pc = "entries" /\ writer'[w].pc = "open"
         /\ SameRun(writer[w], writer'[w])
         /\ UNCHANGED <<data, mtime, manifests, json, latest, crashes>>
         /\ \E r \in writer[w].todo :
              /\ Entries[writer[w].job][r] \notin writer[w].known
              /\ writer'[w].cur = Entries[writer[w].job][r]
              /\ writer'[w].todo = writer[w].todo \ {r}
<1>1. PICK r \in writer[w].todo :
        /\ Entries[writer[w].job][r] \notin writer[w].known
        /\ writer' = [writer EXCEPT ![w].pc = "open", ![w].cur = Entries[writer[w].job][r],
                                    ![w].todo = @ \ {r}]
  BY DEF MakePath
<1>2. writer[w] \in WriterType
  BY DEF TypeOK, WriterState
<1>3. /\ writer'[w].pc = "open" /\ SameRun(writer[w], writer'[w])
      /\ writer'[w].cur = Entries[writer[w].job][r]
      /\ writer'[w].todo = writer[w].todo \ {r}
  BY <1>1, <1>2 DEF TypeOK, WriterType, SameRun
<1>4. QED
  BY <1>1, <1>3 DEF MakePath, counters

LEMMA OpenDataEffect ==
  ASSUME TypeOK, NEW w \in Writer, OpenData(w)
  PROVE  /\ writer[w].pc = "open" /\ writer'[w].pc = "compress"
         /\ writer'[w].fd = "live" /\ writer[w].cur \in Hash
         /\ SameRun(writer[w], writer'[w])
         /\ writer'[w].todo = writer[w].todo /\ writer'[w].cur = writer[w].cur
         /\ data' = [data EXCEPT ![writer[w].cur] = "partial"]
         /\ mtime' = [mtime EXCEPT ![writer[w].cur] = now]
         /\ UNCHANGED <<manifests, json, latest, crashes>>
<1>1. writer'[w] = [writer[w] EXCEPT !.pc = "compress", !.fd = "live"]
  BY DEF OpenData
<1>2. writer[w] \in WriterState
  BY DEF TypeOK
<1>3. QED
  BY <1>1, <1>2 DEF OpenData, WriterState, WriterType, SameRun, counters

LEMMA OpenDataFailsEffect ==
  ASSUME TypeOK, NEW w \in Writer, OpenDataFails(w)
  PROVE  writer[w].pc = "open" /\ writer'[w].pc = "idle" /\ UNCHANGED <<tree, crashes>>
BY DEF OpenDataFails, TypeOK, IdleWriter, counters

LEMMA CloseDataEffect ==
  ASSUME TypeOK, NEW w \in Writer, CloseData(w)
  PROVE  /\ writer[w].pc = "compress" /\ writer[w].cur \in Hash
         /\ IF data[writer[w].cur] = "absent" THEN writer'[w].pc = "idle"
            ELSE /\ writer'[w].pc = "entries" /\ SameRun(writer[w], writer'[w])
                 /\ writer'[w].todo = writer[w].todo
         /\ \E s \in {data[writer[w].cur], "whole"} : data' = [data EXCEPT ![writer[w].cur] = s]
         /\ writer[w].fd = "live" => data' = [data EXCEPT ![writer[w].cur] = "whole"]
         /\ \/ mtime' = [mtime EXCEPT ![writer[w].cur] = now]
            \/ UNCHANGED <<data, mtime>>
         /\ UNCHANGED <<manifests, json, latest, crashes>>
<1>1. writer[w] \in WriterState /\ writer[w].pc = "compress"
  BY DEF TypeOK, CloseData
<1>2. writer[w].cur \in Hash
  BY <1>1 DEF WriterState
<1>3. /\ data[writer[w].cur] = "absent" => writer'[w] = IdleWriter
      /\ data[writer[w].cur] # "absent" =>
           writer'[w] = [writer[w] EXCEPT !.pc = "entries", !.cur = Nothing, !.fd = "none"]
  BY DEF CloseData, TypeOK
<1>4. IF data[writer[w].cur] = "absent" THEN writer'[w].pc = "idle"
      ELSE /\ writer'[w].pc = "entries" /\ SameRun(writer[w], writer'[w])
           /\ writer'[w].todo = writer[w].todo
  <2>1. CASE data[writer[w].cur] = "absent"
    BY <1>3, <2>1 DEF IdleWriter
  <2>2. CASE data[writer[w].cur] # "absent"
    <3>1. writer'[w] = [writer[w] EXCEPT !.pc = "entries", !.cur = Nothing, !.fd = "none"]
      BY <1>3, <2>2
    <3>2. /\ writer'[w].pc = "entries" /\ SameRun(writer[w], writer'[w])
          /\ writer'[w].todo = writer[w].todo
      BY <1>1, <3>1 DEF WriterState, WriterType, SameRun
    <3>3. QED
      BY <2>2, <3>2
  <2>3. QED
    BY <2>1, <2>2
<1>5. data = [data EXCEPT ![writer[w].cur] = data[writer[w].cur]]
      /\ mtime = [mtime EXCEPT ![writer[w].cur] = mtime[writer[w].cur]]
  BY <1>2 DEF TypeOK
<1>6. writer[w].fd = "gone" => UNCHANGED <<data, mtime>>
  BY <1>2, <1>5 DEF CloseData
<1>7. ASSUME writer[w].fd # "gone" PROVE mtime' = [mtime EXCEPT ![writer[w].cur] = now]
  <2>1. mtime' = [mtime EXCEPT ![writer[w].cur] = IF writer[w].fd = "gone" THEN @ ELSE now]
    BY DEF CloseData
  <2>2. QED
    BY <1>7, <2>1, <1>2 DEF TypeOK
<1>8. \E s \in {data[writer[w].cur], "whole"} : data' = [data EXCEPT ![writer[w].cur] = s]
  BY <1>5 DEF CloseData
<1>9. QED
  BY <1>1, <1>2, <1>4, <1>6, <1>7, <1>8 DEF CloseData, counters

LEMMA WriteOriginEffect ==
  ASSUME TypeOK, NEW w \in Writer, WriteOrigin(w)
  PROVE  /\ writer[w].pc = "entries" /\ writer[w].todo = {} /\ writer'[w].pc = "latest"
         /\ SameRun(writer[w], writer'[w]) /\ writer'[w].todo = {}
         /\ UNCHANGED <<data, mtime, manifests, json, latest, crashes>>
BY DEF WriteOrigin, EntriesDone, TypeOK, WriterState, WriterType, SameRun, counters

LEMMA WriteLatestEffect ==
  ASSUME TypeOK, NEW w \in Writer, WriteLatest(w)
  PROVE  /\ writer[w].pc = "latest" /\ writer'[w].pc = "manifest"
         /\ SameRun(writer[w], writer'[w]) /\ writer'[w].todo = writer[w].todo
         /\ latest' \in {latest, writer[w].job}
         /\ UNCHANGED <<data, mtime, manifests, json, crashes>>
BY DEF WriteLatest, TypeOK, WriterState, WriterType, SameRun, counters

LEMMA OpenManifestEffect ==
  ASSUME TypeOK, NEW w \in Writer, OpenManifest(w)
  PROVE  /\ writer[w].pc = "manifest" /\ writer'[w].pc = "publish"
         /\ SameRun(writer[w], writer'[w]) /\ writer'[w].todo = writer[w].todo
         /\ Published' = Published \ {writer[w].job}
         /\ \A m \in Manifest : manifests'[m] = "absent" => manifests[m] = "absent"
         /\ UNCHANGED <<data, mtime, json, latest, crashes>>
BY DEF OpenManifest, TypeOK, WriterState, WriterType, SameRun, counters, Published

LEMMA CloseManifestEffect ==
  ASSUME TypeOK, NEW w \in Writer, CloseManifest(w)
  PROVE  /\ writer[w].pc = "publish" /\ writer'[w].pc = "json"
         /\ SameRun(writer[w], writer'[w]) /\ writer'[w].todo = writer[w].todo
         /\ Published' = Published \cup {writer[w].job}
         /\ UNCHANGED <<data, mtime, json, latest, crashes>>
<1>1. writer[w] \in WriterState /\ writer[w].pc = "publish"
  BY DEF TypeOK, CloseManifest
<1>2. writer[w].job \in Manifest
  BY <1>1 DEF WriterState
<1>3. writer'[w] = [writer[w] EXCEPT !.pc = "json"]
  BY DEF CloseManifest, TypeOK
<1>4. writer'[w].pc = "json" /\ SameRun(writer[w], writer'[w]) /\ writer'[w].todo = writer[w].todo
  BY <1>1, <1>3 DEF WriterState, WriterType, SameRun
<1>5. Published' = Published \cup {writer[w].job}
  BY <1>2 DEF CloseManifest, TypeOK, Published
<1>6. QED
  BY <1>1, <1>4, <1>5 DEF CloseManifest, counters

LEMMA WriteJsonEffect ==
  ASSUME TypeOK, NEW w \in Writer, WriteJson(w)
  PROVE  /\ writer[w].pc = "json" /\ writer'[w].pc = "idle"
         /\ json' = json \cup {writer[w].job}
         /\ UNCHANGED <<data, mtime, manifests, latest, crashes>>
BY DEF WriteJson, TypeOK, IdleWriter, counters

LEMMA CrashWriteEffect ==
  ASSUME TypeOK, NEW w \in Writer, CrashWrite(w)
  PROVE  writer'[w].pc = "idle" /\ crashes' # 0 /\ crashes' # crashes /\ UNCHANGED tree
BY DEF CrashWrite, TypeOK, IdleWriter

\* Each step of a pruner as it sees it itself.
LEMMA StartPruneEffect ==
  ASSUME TypeOK, NEW p \in Pruner, StartPrune(p)
  PROVE  /\ pruner[p].pc = "idle" /\ pruner'[p].pc = "list"
         /\ pruner'[p].keep = Referenced /\ pruner'[p].stamp = 0
         /\ writer' = Joined /\ (mixed' <=> mixed \/ WritersRunning # {})
         /\ UNCHANGED tree
<1>1. mixed' <=> mixed \/ WritersRunning # {}
  BY Zenon DEF StartPrune
<1>2. QED
  BY <1>1 DEF StartPrune, TypeOK, IdlePruner

LEMMA ListStorageEffect ==
  ASSUME TypeOK, NEW p \in Pruner, ListStorage(p)
  PROVE  /\ pruner[p].pc = "list" /\ pruner'[p].pc = "stat"
         /\ pruner'[p].keep = pruner[p].keep /\ pruner'[p].stamp = now
         /\ pruner'[p].orphans = InStorage \ pruner[p].keep
         /\ UNCHANGED <<tree, writer, mixed>>
BY DEF ListStorage, Orphans, TypeOK, PrunerState, PrunerType, counters

LEMMA StatOrphanEffect ==
  ASSUME TypeOK, NEW p \in Pruner, StatOrphan(p)
  PROVE  /\ pruner[p].pc = "stat" /\ UNCHANGED <<tree, writer, mixed>>
         /\ \/ pruner'[p].pc = "idle" /\ pruner'[p].stamp = 0
            \/ \E h \in pruner[p].orphans :
                 /\ pruner'[p].keep = pruner[p].keep
                 /\ pruner'[p].stamp = pruner[p].stamp
                 /\ pruner'[p].orphans = pruner[p].orphans \ {h}
                 /\ \/ pruner'[p].pc = "unlink" /\ pruner'[p].cur = h
                    \/ pruner'[p].pc = "stat" /\ ~OldEnough(p, h)
<1>1. PICK h \in pruner[p].orphans : pruner'[p] = Measured(p, h)
  BY DEF StatOrphan, TypeOK
<1>2. pruner[p] \in PrunerType /\ pruner[p].pc = "stat"
  BY DEF TypeOK, PrunerState, StatOrphan
<1>3. UNCHANGED <<tree, writer, mixed>>
  BY DEF StatOrphan, counters
<1>4. CASE data[h] = "absent"
  BY <1>1, <1>2, <1>3, <1>4 DEF Measured, IdlePruner
<1>5. CASE data[h] # "absent" /\ OldEnough(p, h)
  <2>1. pruner'[p] = [pruner[p] EXCEPT !.pc = "unlink", !.cur = h, !.orphans = @ \ {h}]
    BY <1>1, <1>5 DEF Measured
  <2>2. QED
    BY <1>2, <1>3, <2>1 DEF PrunerType
<1>6. CASE data[h] # "absent" /\ ~OldEnough(p, h)
  <2>1. pruner'[p] = [pruner[p] EXCEPT !.orphans = @ \ {h}]
    BY <1>1, <1>6 DEF Measured
  <2>2. QED
    BY <1>2, <1>3, <1>6, <2>1 DEF PrunerType
<1>7. QED
  BY <1>4, <1>5, <1>6

LEMMA UnlinkOrphanEffect ==
  ASSUME TypeOK, NEW p \in Pruner, UnlinkOrphan(p)
  PROVE  /\ pruner[p].pc = "unlink" /\ pruner'[p].pc = "stat"
         /\ pruner'[p].keep = pruner[p].keep /\ pruner'[p].stamp = pruner[p].stamp
         /\ pruner'[p].orphans = pruner[p].orphans
         /\ data' = Without({pruner[p].cur}) /\ writer' = Unlinked({pruner[p].cur})
         /\ UNCHANGED <<mtime, manifests, json, latest, mixed>>
BY DEF UnlinkOrphan, TypeOK, PrunerState, PrunerType, counters

LEMMA ListDirsEffect ==
  ASSUME TypeOK, NEW p \in Pruner, ListDirs(p)
  PROVE  /\ pruner[p].pc = "stat" /\ pruner[p].orphans = {} /\ pruner'[p].pc = "dirs"
         /\ pruner'[p].keep = pruner[p].keep /\ pruner'[p].stamp = pruner[p].stamp
         /\ UNCHANGED <<tree, writer, mixed>>
BY DEF ListDirs, TypeOK, PrunerState, PrunerType, counters

LEMMA InspectDirEffect ==
  ASSUME TypeOK, NEW p \in Pruner, InspectDir(p)
  PROVE  /\ pruner[p].pc = "dirs"
         /\ pruner'[p].keep = pruner[p].keep /\ pruner'[p].stamp = pruner[p].stamp
         /\ \/ pruner'[p].pc = "dirs"
            \/ pruner'[p].pc = "rmdir" /\ Contents(pruner'[p].cur) = {}
         /\ UNCHANGED <<tree, writer, mixed>>
<1>1. PICK d \in pruner[p].dirs : pruner'[p] = Inspected(p, d)
  BY DEF InspectDir, TypeOK
<1>2. pruner[p] \in PrunerType /\ pruner[p].pc = "dirs"
  BY DEF TypeOK, PrunerState, InspectDir
<1>3. CASE Contents(d) = {}
  <2>1. pruner'[p] = [pruner[p] EXCEPT !.pc = "rmdir", !.cur = d, !.dirs = @ \ {d}]
    BY <1>1, <1>3 DEF Inspected
  <2>2. QED
    BY <1>2, <1>3, <2>1 DEF PrunerType, InspectDir, counters
<1>4. CASE Contents(d) # {}
  <2>1. pruner'[p] = [pruner[p] EXCEPT !.dirs = @ \ {d}]
    BY <1>1, <1>4 DEF Inspected
  <2>2. QED
    BY <1>2, <2>1 DEF PrunerType, InspectDir, counters
<1>5. QED
  BY <1>3, <1>4

LEMMA RemoveDirEffect ==
  ASSUME TypeOK, NEW p \in Pruner, RemoveDir(p)
  PROVE  /\ pruner[p].pc = "rmdir" /\ pruner'[p].pc = "dirs"
         /\ pruner'[p].keep = pruner[p].keep /\ pruner'[p].stamp = pruner[p].stamp
         /\ data' = Without(Contents(pruner[p].cur))
         /\ writer' = Unlinked(Contents(pruner[p].cur))
         /\ UNCHANGED <<mtime, manifests, json, latest, mixed>>
BY DEF RemoveDir, TypeOK, PrunerState, PrunerType, counters

LEMMA ListMetadataEffect ==
  ASSUME TypeOK, NEW p \in Pruner, ListMetadata(p)
  PROVE  /\ pruner[p].pc = "dirs" /\ pruner'[p].pc = "meta"
         /\ pruner'[p].keep = pruner[p].keep /\ pruner'[p].stamp = pruner[p].stamp
         /\ UNCHANGED <<tree, writer, mixed>>
BY DEF ListMetadata, TypeOK, PrunerState, PrunerType, counters

LEMMA InspectMetadataEffect ==
  ASSUME TypeOK, NEW p \in Pruner, InspectMetadata(p)
  PROVE  /\ pruner[p].pc = "meta"
         /\ pruner'[p].keep = pruner[p].keep /\ pruner'[p].stamp = pruner[p].stamp
         /\ \/ pruner'[p].pc = "meta"
            \/ pruner'[p].pc = "unmeta" /\ manifests[pruner'[p].cur] = "absent"
         /\ UNCHANGED <<tree, writer, mixed>>
<1>1. PICK m \in pruner[p].metas : pruner'[p] = Considered(p, m)
  BY DEF InspectMetadata, TypeOK
<1>2. pruner[p] \in PrunerType /\ pruner[p].pc = "meta"
  BY DEF TypeOK, PrunerState, InspectMetadata
<1>3. CASE Dangling(m)
  <2>1. pruner'[p] = [pruner[p] EXCEPT !.pc = "unmeta", !.cur = m, !.metas = @ \ {m}]
    BY <1>1, <1>3 DEF Considered
  <2>2. QED
    BY <1>2, <1>3, <2>1 DEF PrunerType, InspectMetadata, Dangling, counters
<1>4. CASE ~Dangling(m)
  <2>1. pruner'[p] = [pruner[p] EXCEPT !.metas = @ \ {m}]
    BY <1>1, <1>4 DEF Considered
  <2>2. QED
    BY <1>2, <2>1 DEF PrunerType, InspectMetadata, counters
<1>5. QED
  BY <1>3, <1>4

LEMMA RemoveMetadataEffect ==
  ASSUME TypeOK, NEW p \in Pruner, RemoveMetadata(p)
  PROVE  /\ pruner[p].pc = "unmeta" /\ pruner'[p].pc = "meta"
         /\ pruner'[p].keep = pruner[p].keep /\ pruner'[p].stamp = pruner[p].stamp
         /\ json' = json \ {pruner[p].cur}
         /\ UNCHANGED <<data, mtime, manifests, latest, writer, mixed>>
BY DEF RemoveMetadata, TypeOK, PrunerState, PrunerType, counters

LEMMA EndPruneEffect ==
  ASSUME TypeOK, NEW p \in Pruner, EndPrune(p) \/ CrashPrune(p)
  PROVE  /\ pruner[p].pc # "idle" /\ pruner'[p].pc = "idle" /\ pruner'[p].stamp = 0
         /\ UNCHANGED <<tree, writer, mixed>>
BY DEF EndPrune, CrashPrune, TypeOK, IdlePruner, counters

\* A step of pruner p as everyone else sees it: files go, handles on them
\* with them, and the end of a writer's solitude.
LEMMA PrunerFrame ==
  ASSUME TypeOK, NEW p \in Pruner, StartPrune(p) \/ PrunerStep(p) \/ CrashPrune(p)
  PROVE  /\ \A q \in Pruner \ {p} : pruner'[q] = pruner[q]
         /\ \A w \in Writer : Alike(writer[w], writer'[w])
         /\ \A w \in Writer : writer'[w].solo => writer[w].solo /\ ~StartPrune(p)
         /\ \A w \in Writer : writer'[w].fd # writer[w].fd /\ writer[w].cur \in Hash
                              => data'[writer[w].cur] = "absent"
         /\ \A h \in Hash : data'[h] \in {data[h], "absent"}
         /\ UNCHANGED <<now, mtime, manifests, latest, crashes, retired>>
<1> USE DEF TypeOK, tree, counters
<1>1. /\ \A q \in Pruner \ {p} : pruner'[q] = pruner[q]
      /\ UNCHANGED <<now, mtime, manifests, latest, crashes, retired>>
  BY DEF StartPrune, PrunerStep, CrashPrune, ListStorage, StatOrphan, UnlinkOrphan,
     ListDirs, InspectDir, RemoveDir, ListMetadata, InspectMetadata, RemoveMetadata,
     EndPrune
<1>2. \/ UNCHANGED <<data, writer>>
      \/ writer' = Joined /\ UNCHANGED data
      \/ \E H \in {{pruner[p].cur}, Contents(pruner[p].cur)} :
           data' = Without(H) /\ writer' = Unlinked(H)
  BY DEF StartPrune, PrunerStep, CrashPrune, ListStorage, StatOrphan, UnlinkOrphan,
     ListDirs, InspectDir, RemoveDir, ListMetadata, InspectMetadata, RemoveMetadata,
     EndPrune
<1>3. \A w \in Writer : Alike(writer[w], writer'[w])
  BY <1>2, JoinedAlike, UnlinkedAlike DEF Alike
<1>4. \A h \in Hash : data'[h] \in {data[h], "absent"}
  BY <1>2 DEF Without
<1>5. \A w \in Writer : writer'[w].fd # writer[w].fd /\ writer[w].cur \in Hash
                        => data'[writer[w].cur] = "absent"
  BY <1>2, JoinedAlike, UnlinkedAlike DEF Without
<1>6. \A w \in Writer : writer'[w].solo => writer[w].solo /\ ~StartPrune(p)
  <2>1. StartPrune(p) => \A w \in Writer : ~writer'[w].solo
    BY JoinedAlike DEF StartPrune
  <2>2. ~StartPrune(p) => \A w \in Writer : writer'[w].solo => writer[w].solo
    BY <1>2, JoinedAlike, UnlinkedAlike
  <2>3. QED
    BY <2>1, <2>2
<1>7. QED
  BY <1>1, <1>3, <1>4, <1>5, <1>6

-----------------------------------------------------------------------------
(* What a prune promises: no old orphan survives it.                       *)

LEMMA InitReclaim == Init => ReclaimInv
<1> SUFFICES ASSUME Init PROVE ReclaimInv
  OBVIOUS
<1>1. now = 0 /\ mtime = [h \in Hash |-> 0] /\ pruner = [p \in Pruner |-> IdlePruner]
  BY DEF Init
<1>2. ClockPast /\ \A p \in Pruner : Dealt(p)
  BY <1>1 DEF ClockPast, Dealt, IdlePruner
<1>3. QED
  BY <1>2, InitType DEF ReclaimInv

\* What the others do to the files never makes one old: it is gone, or as it
\* was, or of this moment.
LEMMA FilesAge ==
  ASSUME TypeOK, [Next]_vars
  PROVE  /\ now' >= now
         /\ \A h \in Hash : \/ mtime'[h] = mtime[h] /\ (h \in InStorage' => h \in InStorage)
                            \/ mtime'[h] = now
<1>1. ASSUME NEW w \in Writer, WriterStep(w) \/ CrashWrite(w)
      PROVE  \A h \in Hash : \/ mtime'[h] = mtime[h] /\ (h \in InStorage' => h \in InStorage)
                             \/ mtime'[h] = now
  <2>1. CASE OpenData(w)
    BY <2>1, OpenDataEffect DEF TypeOK, InStorage
  <2>2. CASE CloseData(w)
    BY <2>2, CloseDataEffect DEF TypeOK, InStorage
  <2>3. CASE ~OpenData(w) /\ ~CloseData(w)
    <3>1. UNCHANGED <<data, mtime>>
      BY <1>1, <2>3 DEF WriterStep, CrashWrite, SkipEntry, MakePath, OpenDataFails,
         WriteOrigin, WriteLatest, OpenManifest, CloseManifest, WriteJson, tree
    <3>2. QED
      BY <3>1 DEF InStorage
  <2>4. QED
    BY <2>1, <2>2, <2>3
<1>2. ASSUME NEW p \in Pruner, StartPrune(p) \/ PrunerStep(p) \/ CrashPrune(p)
      PROVE  \A h \in Hash : mtime'[h] = mtime[h] /\ (h \in InStorage' => h \in InStorage)
  BY <1>2, PrunerFrame DEF InStorage
<1>3. ASSUME \/ \E w \in Writer, m \in Manifest, force \in BOOLEAN : StartWrite(w, m, force)
             \/ \E m \in Manifest : RetireManifest(m)
             \/ Tick
             \/ UNCHANGED vars
      PROVE  UNCHANGED <<data, mtime>>
  BY <1>3 DEF StartWrite, RetireManifest, Tick, vars, tree
<1>4. now' >= now
  <2>1. CASE Tick
    BY <2>1 DEF Tick, TypeOK
  <2>2. CASE ~Tick
    <3>1. UNCHANGED now
      BY <2>2, WriterFrame, PrunerFrame DEF Next, StartWrite, RetireManifest, vars
    <3>2. QED
      BY <3>1 DEF TypeOK
  <2>3. QED
    BY <2>1, <2>2
<1>5. QED
  BY <1>1, <1>2, <1>3, <1>4 DEF Next, InStorage

\* A pruner that does not step has still dealt with what it had dealt with.
LEMMA DealtStays ==
  ASSUME ReclaimInv, [Next]_vars, NEW p \in Pruner, pruner'[p] = pruner[p]
  PROVE  Dealt(p)'
<1> SUFFICES ASSUME pruner[p].pc \notin {"idle", "list"},
                    NEW h \in InStorage', h \notin pruner[p].keep
             PROVE  \/ pruner[p].stamp - mtime'[h] <= MinAge
                    \/ pruner[p].pc \in {"stat", "unlink"} /\ h \in pruner[p].orphans
                    \/ pruner[p].pc = "unlink" /\ h = pruner[p].cur
  BY DEF Dealt
<1>1. h \in Hash
  BY DEF InStorage
<1>2. CASE mtime'[h] = mtime[h] /\ h \in InStorage
  BY <1>2 DEF ReclaimInv, Dealt
<1>3. CASE mtime'[h] = now
  <2>1. pruner[p].stamp <= now /\ pruner[p].stamp \in Nat /\ now \in Nat
    BY DEF ReclaimInv, ClockPast, TypeOK, PrunerState, PrunerType
  <2>2. pruner[p].stamp - mtime'[h] <= MinAge
    BY <1>3, <2>1, ConstantsAssumption
  <2>3. QED
    BY <2>2
<1>4. QED
  BY <1>1, <1>2, <1>3, FilesAge DEF ReclaimInv

LEMMA PrunerStepReclaims ==
  ASSUME ReclaimInv, NEW p \in Pruner, StartPrune(p) \/ PrunerStep(p) \/ CrashPrune(p)
  PROVE  pruner'[p].stamp <= now /\ Dealt(p)'
<1>0. TypeOK /\ pruner[p].stamp <= now /\ Dealt(p) /\ now \in Nat
  BY DEF ReclaimInv, ClockPast, TypeOK
<1>1. ASSUME UNCHANGED <<data, mtime>>,
             pruner'[p].keep = pruner[p].keep, pruner'[p].stamp = pruner[p].stamp,
             \/ pruner[p].pc = "stat" /\ pruner[p].orphans = {}
             \/ pruner[p].pc = "dirs"
             \/ pruner[p].pc = "meta"
             \/ pruner[p].pc = "unmeta"
      PROVE  pruner'[p].stamp <= now /\ Dealt(p)'
  BY <1>0, <1>1 DEF Dealt, InStorage
<1>2. CASE StartPrune(p)
  BY <1>0, <1>2, StartPruneEffect DEF Dealt
<1>3. CASE ListStorage(p)
  BY <1>0, <1>3, ListStorageEffect DEF Dealt, InStorage, tree
<1>4. CASE StatOrphan(p)
  <2>1. CASE pruner'[p].pc = "idle" /\ pruner'[p].stamp = 0
    BY <1>0, <2>1 DEF Dealt
  <2>2. CASE \E h \in pruner[p].orphans :
               /\ pruner'[p].keep = pruner[p].keep
               /\ pruner'[p].stamp = pruner[p].stamp
               /\ pruner'[p].orphans = pruner[p].orphans \ {h}
               /\ \/ pruner'[p].pc = "unlink" /\ pruner'[p].cur = h
                  \/ pruner'[p].pc = "stat" /\ ~OldEnough(p, h)
    <3>1. PICK h \in pruner[p].orphans :
               /\ pruner'[p].keep = pruner[p].keep
               /\ pruner'[p].stamp = pruner[p].stamp
               /\ pruner'[p].orphans = pruner[p].orphans \ {h}
               /\ \/ pruner'[p].pc = "unlink" /\ pruner'[p].cur = h
                  \/ pruner'[p].pc = "stat" /\ ~OldEnough(p, h)
      BY <2>2
    <3>2. UNCHANGED <<data, mtime>> /\ pruner[p].pc = "stat"
      BY <1>0, <1>4, StatOrphanEffect DEF tree
    <3>3. h \in Hash /\ mtime[h] \in Nat /\ pruner[p].stamp \in Nat /\ MinAge \in Nat
      BY <1>0, ConstantsAssumption DEF TypeOK, PrunerState, PrunerType
    <3>4. ~OldEnough(p, h) => pruner[p].stamp - mtime[h] <= MinAge
      BY <3>3 DEF OldEnough
    <3>5. Dealt(p)'
      BY <1>0, <3>1, <3>2, <3>4 DEF Dealt, InStorage
    <3>6. QED
      BY <1>0, <3>1, <3>5
  <2>3. QED
    BY <1>0, <1>4, <2>1, <2>2, StatOrphanEffect
<1>5. CASE UnlinkOrphan(p)
  <2>1. InStorage' = InStorage \ {pruner[p].cur}
    BY <1>0, <1>5, UnlinkOrphanEffect DEF InStorage, Without
  <2>2. /\ pruner[p].pc = "unlink" /\ pruner'[p].pc = "stat"
        /\ pruner'[p].keep = pruner[p].keep /\ pruner'[p].stamp = pruner[p].stamp
        /\ pruner'[p].orphans = pruner[p].orphans /\ mtime' = mtime
    BY <1>0, <1>5, UnlinkOrphanEffect
  <2>3. QED
    BY <1>0, <2>1, <2>2 DEF Dealt
<1>6. CASE ListDirs(p)
  BY <1>0, <1>1, <1>6, ListDirsEffect DEF tree
<1>7. CASE InspectDir(p)
  BY <1>0, <1>1, <1>7, InspectDirEffect DEF tree
<1>8. CASE RemoveDir(p)
  BY <1>0, <1>8, RemoveDirEffect DEF Dealt, InStorage, Without
<1>9. CASE ListMetadata(p)
  BY <1>0, <1>1, <1>9, ListMetadataEffect DEF tree
<1>10. CASE InspectMetadata(p)
  BY <1>0, <1>1, <1>10, InspectMetadataEffect DEF tree
<1>11. CASE RemoveMetadata(p)
  BY <1>0, <1>1, <1>11, RemoveMetadataEffect
<1>12. CASE EndPrune(p) \/ CrashPrune(p)
  BY <1>0, <1>12, EndPruneEffect DEF Dealt
<1>13. QED
  BY <1>2, <1>3, <1>4, <1>5, <1>6, <1>7, <1>8, <1>9, <1>10, <1>11, <1>12 DEF PrunerStep

LEMMA ReclaimStep == ReclaimInv /\ [Next]_vars => ReclaimInv'
<1> SUFFICES ASSUME ReclaimInv, [Next]_vars PROVE ReclaimInv'
  OBVIOUS
<1>1. TypeOK /\ TypeOK'
  BY TypeStep DEF ReclaimInv
<1>2. now' >= now /\ now \in Nat /\ now' \in Nat
  BY <1>1, FilesAge DEF TypeOK
<1>3. \A h \in Hash : mtime'[h] <= now'
  <2> SUFFICES ASSUME NEW h \in Hash PROVE mtime'[h] <= now'
    OBVIOUS
  <2>1. mtime'[h] \in Nat /\ mtime[h] \in Nat /\ mtime[h] <= now
    BY <1>1 DEF TypeOK, ReclaimInv, ClockPast
  <2>2. QED
    BY <1>1, <1>2, <2>1, FilesAge
<1>4. ASSUME NEW q \in Pruner PROVE pruner'[q].stamp <= now' /\ Dealt(q)'
  <2>0. pruner'[q].stamp \in Nat /\ pruner[q].stamp <= now
    BY <1>1 DEF TypeOK, PrunerState, PrunerType, ReclaimInv, ClockPast
  <2>1. CASE pruner'[q] = pruner[q]
    BY <1>2, <2>0, <2>1, DealtStays
  <2>2. CASE StartPrune(q) \/ PrunerStep(q) \/ CrashPrune(q)
    BY <1>2, <2>0, <2>2, PrunerStepReclaims
  <2>3. pruner'[q] = pruner[q] \/ StartPrune(q) \/ PrunerStep(q) \/ CrashPrune(q)
    BY <1>1, WriterFrame, PrunerFrame DEF Next, StartWrite, RetireManifest, Tick, vars
  <2>4. QED
    BY <2>1, <2>2, <2>3
<1>5. QED
  BY <1>1, <1>3, <1>4 DEF ReclaimInv, ClockPast

\* Whatever runs beside it, a prune that has gone through its orphans left no
\* data file behind that its manifests do not refer to and that was old enough
\* when it measured the ages: the files it did not see have been written since.
THEOREM OrphansReclaimed == Spec => []OldOrphansReclaimed
<1>1. ReclaimInv => OldOrphansReclaimed
  BY DEF ReclaimInv, Dealt, OldOrphansReclaimed
<1>2. QED
  BY InitReclaim, ReclaimStep, <1>1, PTL DEF Spec

-----------------------------------------------------------------------------
(* Presence: what is published exists, until a prune runs beside a writer.  *)

\* The history is kept, and while it is clean, writers and prunes are apart.
LEMMA ApartStays ==
  ASSUME TypeOK, ~mixed => Apart, [Next]_vars, ~mixed'
  PROVE  ~mixed /\ Apart /\ Apart'
<1>1. ASSUME NEW w \in Writer, NEW m \in Manifest, NEW force \in BOOLEAN, StartWrite(w, m, force)
      PROVE  ~mixed /\ Apart'
  <2>1. ~mixed /\ PrunersRunning = {} /\ UNCHANGED pruner
    BY <1>1, StartWriteEffect
  <2>2. QED
    BY <2>1 DEF Apart, PrunersRunning
<1>2. ASSUME NEW w \in Writer, WriterStep(w) \/ CrashWrite(w)
      PROVE  ~mixed /\ Apart'
  <2>1. ~mixed /\ writer[w].pc # "idle" /\ UNCHANGED pruner
    BY <1>2, WriterFrame
  <2>2. QED
    BY <2>1 DEF Apart, WritersRunning, PrunersRunning
<1>3. ASSUME NEW p \in Pruner, StartPrune(p)
      PROVE  ~mixed /\ Apart'
  <2>1. ~mixed /\ WritersRunning = {}
    BY <1>3, StartPruneEffect
  <2>2. \A w \in Writer : writer'[w].pc = writer[w].pc
    BY <1>3, PrunerFrame DEF Alike
  <2>3. QED
    BY <2>1, <2>2 DEF Apart, WritersRunning
<1>4. ASSUME NEW p \in Pruner, PrunerStep(p) \/ CrashPrune(p)
      PROVE  ~mixed /\ Apart'
  <2>1. pruner[p].pc # "idle" /\ UNCHANGED mixed
    BY <1>4 DEF PrunerStep, CrashPrune, ListStorage, StatOrphan, UnlinkOrphan,
       ListDirs, InspectDir, RemoveDir, ListMetadata, InspectMetadata, RemoveMetadata,
       EndPrune, counters
  <2>2. ~mixed
    BY Zenon, <2>1
  <2>3. \A w \in Writer : writer'[w].pc = writer[w].pc
    BY <1>4, PrunerFrame DEF Alike
  <2>4. QED
    BY <2>1, <2>2, <2>3 DEF Apart, WritersRunning, PrunersRunning
<1>5. ASSUME UNCHANGED <<writer, pruner, mixed>> PROVE ~mixed /\ Apart'
  BY Zenon, <1>5 DEF Apart, WritersRunning, PrunersRunning
<1>6. (Tick \/ UNCHANGED vars \/ \E m \in Manifest : RetireManifest(m))
        => UNCHANGED <<writer, pruner, mixed>>
  BY DEF Tick, vars, RetireManifest, counters
<1>7. ~mixed /\ Apart'
  BY <1>1, <1>2, <1>3, <1>4, <1>5, <1>6 DEF Next
<1>8. QED
  BY <1>7

\* A writer never takes a file away.
LEMMA WritersAdd ==
  ASSUME TypeOK, NEW w \in Writer, WriterStep(w) \/ CrashWrite(w)
  PROVE  InStorage \subseteq InStorage'
<1>1. CASE OpenData(w)
  BY <1>1, OpenDataEffect DEF TypeOK, InStorage
<1>2. CASE CloseData(w)
  BY <1>2, CloseDataEffect DEF TypeOK, InStorage
<1>3. CASE ~OpenData(w) /\ ~CloseData(w)
  <2>1. UNCHANGED data
    BY <1>3 DEF WriterStep, CrashWrite, SkipEntry, MakePath, OpenDataFails,
       WriteOrigin, WriteLatest, OpenManifest, CloseManifest, WriteJson, tree
  <2>2. QED
    BY <2>1 DEF InStorage
<1>4. QED
  BY <1>1, <1>2, <1>3

\* What a writer has been through stays there while it steps.
LEMMA WriterStepPresent ==
  ASSUME TypeOK, NEW w \in Writer, WriterStep(w) \/ CrashWrite(w), WriterPresent(w)
  PROVE  WriterPresent(w)'
<1>0. writer[w].pc # "idle" /\ writer[w] \in WriterState
  BY WriterFrame DEF TypeOK
<1>1. InStorage \subseteq InStorage'
  BY WritersAdd
<1>2. /\ writer[w].job \in Manifest /\ writer[w].todo \subseteq DOMAIN Entries[writer[w].job]
      /\ \A r \in DOMAIN Entries[writer[w].job] : Entries[writer[w].job][r] \in Hash
  BY <1>0, EntriesType DEF WriterState
<1>3. ASSUME SameRun(writer[w], writer'[w]), writer'[w].pc # "compress",
             writer[w].pc \notin {"open", "compress"}, writer'[w].todo = writer[w].todo,
             writer'[w].pc \notin {"entries", "open", "compress"} => writer[w].todo = {}
      PROVE  WriterPresent(w)'
  BY <1>0, <1>1, <1>3 DEF WriterPresent, SameRun
<1>4. CASE SkipEntry(w)
  BY <1>0, <1>1, <1>2, <1>4, SkipEntryEffect DEF WriterPresent, SameRun
<1>5. CASE MakePath(w)
  BY <1>0, <1>1, <1>2, <1>5, MakePathEffect DEF WriterPresent, SameRun
<1>6. CASE OpenData(w)
  <2>1. writer[w].cur \in InStorage'
    BY <1>6, OpenDataEffect DEF TypeOK, InStorage
  <2>2. QED
    BY <1>0, <1>1, <1>6, <2>1, OpenDataEffect DEF WriterPresent, SameRun
<1>7. CASE OpenDataFails(w) \/ WriteJson(w) \/ CrashWrite(w)
  BY <1>7, OpenDataFailsEffect, WriteJsonEffect, CrashWriteEffect DEF WriterPresent
<1>8. CASE CloseData(w)
  BY <1>0, <1>1, <1>8, CloseDataEffect DEF WriterPresent, SameRun
<1>9. CASE WriteOrigin(w)
  BY <1>0, <1>3, <1>9, WriteOriginEffect
<1>10. CASE WriteLatest(w)
  BY <1>0, <1>3, <1>10, WriteLatestEffect DEF WriterPresent
<1>11. CASE OpenManifest(w)
  BY <1>0, <1>3, <1>11, OpenManifestEffect DEF WriterPresent
<1>12. CASE CloseManifest(w)
  BY <1>0, <1>3, <1>12, CloseManifestEffect DEF WriterPresent
<1>13. QED
  BY <1>4, <1>5, <1>6, <1>7, <1>8, <1>9, <1>10, <1>11, <1>12 DEF WriterStep

\* Only a writer that is done with its data publishes.
LEMMA WriterPublishes ==
  ASSUME TypeOK, NEW w \in Writer, WriterStep(w) \/ CrashWrite(w)
  PROVE  \/ Published' \subseteq Published
         \/ CloseManifest(w) /\ Published' = Published \cup {writer[w].job}
<1>1. CASE OpenManifest(w)
  BY <1>1, OpenManifestEffect
<1>2. CASE CloseManifest(w)
  BY <1>2, CloseManifestEffect
<1>3. CASE ~OpenManifest(w) /\ ~CloseManifest(w)
  <2>1. UNCHANGED manifests
    BY <1>3 DEF WriterStep, CrashWrite, SkipEntry, MakePath, OpenData, OpenDataFails,
       CloseData, WriteOrigin, WriteLatest, WriteJson, tree
  <2>2. QED
    BY <2>1 DEF Published
<1>4. QED
  BY <1>1, <1>2, <1>3

\* While no writer runs, a pruner's step removes nothing that is published,
\* and leaves every pruner harmless.
LEMMA PrunerStepPresent ==
  ASSUME TypeOK, NEW p \in Pruner, StartPrune(p) \/ PrunerStep(p) \/ CrashPrune(p),
         \A q \in Pruner : PrunerHarmless(q)
  PROVE  /\ \A q \in Pruner : PrunerHarmless(q)'
         /\ \A m \in Published : Hashes(m) \subseteq InStorage => Hashes(m) \subseteq InStorage'
<1>1. /\ Published' = Published /\ InStorage' \subseteq InStorage
      /\ \A q \in Pruner \ {p} : pruner'[q] = pruner[q]
  BY PrunerFrame DEF Published, InStorage
<1>2. \A q \in Pruner \ {p} : PrunerHarmless(q)'
  BY <1>1 DEF PrunerHarmless, Hashes, Contents
<1>3. PrunerHarmless(p)
  OBVIOUS
<1>4. ASSUME PrunerHarmless(p)', UNCHANGED data
      PROVE  /\ \A q \in Pruner : PrunerHarmless(q)'
             /\ \A m \in Published : Hashes(m) \subseteq InStorage => Hashes(m) \subseteq InStorage'
  <2>1. InStorage' = InStorage
    BY <1>4 DEF InStorage
  <2>2. QED
    BY <1>2, <1>4, <2>1
<1>5. CASE StartPrune(p)
  BY <1>1, <1>4, <1>5, StartPruneEffect DEF PrunerHarmless, Referenced, Hashes, tree
<1>6. CASE ListStorage(p)
  BY <1>1, <1>3, <1>4, <1>6, ListStorageEffect DEF PrunerHarmless, Hashes, tree
<1>7. CASE StatOrphan(p)
  <2>1. CASE pruner'[p].pc = "idle"
    BY <1>4, <1>7, <2>1, StatOrphanEffect DEF PrunerHarmless, tree
  <2>2. CASE pruner'[p].pc # "idle"
    <3>1. PICK h \in pruner[p].orphans :
            /\ pruner'[p].keep = pruner[p].keep
            /\ pruner'[p].orphans = pruner[p].orphans \ {h}
            /\ \/ pruner'[p].pc = "unlink" /\ pruner'[p].cur = h
               \/ pruner'[p].pc = "stat"
      BY <1>7, <2>2, StatOrphanEffect
    <3>2. pruner[p].pc = "stat" /\ UNCHANGED data
      BY <1>7, StatOrphanEffect DEF tree
    <3>3. PrunerHarmless(p)'
      BY <1>1, <1>3, <3>1, <3>2 DEF PrunerHarmless, Hashes
    <3>4. QED
      BY <1>4, <3>2, <3>3
  <2>3. QED
    BY <2>1, <2>2
<1>8. CASE UnlinkOrphan(p)
  <2>1. pruner[p].pc = "unlink" /\ InStorage' = InStorage \ {pruner[p].cur}
    BY <1>8, UnlinkOrphanEffect DEF InStorage, Without
  <2>2. PrunerHarmless(p)'
    BY <1>1, <1>3, <1>8, UnlinkOrphanEffect DEF PrunerHarmless, Hashes
  <2>3. \A m \in Published : pruner[p].cur \notin Hashes(m)
    BY <1>3, <2>1 DEF PrunerHarmless, TypeOK, PrunerState
  <2>4. QED
    BY <1>2, <2>1, <2>2, <2>3
<1>9. CASE ListDirs(p)
  BY <1>1, <1>3, <1>4, <1>9, ListDirsEffect DEF PrunerHarmless, Hashes, tree
<1>10. CASE InspectDir(p)
  <2>1. UNCHANGED data
    BY <1>10, InspectDirEffect DEF tree
  <2>2. PrunerHarmless(p)'
    BY <1>1, <1>3, <1>10, <2>1, InspectDirEffect DEF PrunerHarmless, Hashes, Contents, InStorage
  <2>3. QED
    BY <1>4, <2>1, <2>2
<1>11. CASE RemoveDir(p)
  <2>1. pruner[p].pc = "rmdir" /\ Contents(pruner[p].cur) = {}
    BY <1>3, <1>11, RemoveDirEffect DEF PrunerHarmless
  <2>2. UNCHANGED data
    BY <1>11, <2>1, RemoveDirEffect DEF Without, TypeOK
  <2>3. PrunerHarmless(p)'
    BY <1>1, <1>3, <1>11, RemoveDirEffect DEF PrunerHarmless, Hashes
  <2>4. QED
    BY <1>4, <2>2, <2>3
<1>12. CASE ListMetadata(p)
  BY <1>1, <1>3, <1>4, <1>12, ListMetadataEffect DEF PrunerHarmless, Hashes, tree
<1>13. CASE InspectMetadata(p)
  BY <1>1, <1>3, <1>4, <1>13, InspectMetadataEffect DEF PrunerHarmless, Hashes, tree
<1>14. CASE RemoveMetadata(p)
  BY <1>1, <1>3, <1>4, <1>14, RemoveMetadataEffect DEF PrunerHarmless, Hashes
<1>15. CASE EndPrune(p) \/ CrashPrune(p)
  BY <1>4, <1>15, EndPruneEffect DEF PrunerHarmless, tree
<1>16. QED
  BY <1>5, <1>6, <1>7, <1>8, <1>9, <1>10, <1>11, <1>12, <1>13, <1>14, <1>15 DEF PrunerStep

LEMMA InitPresent == Init => PresentInv
<1> SUFFICES ASSUME Init PROVE PresentInv
  OBVIOUS
<1>1. WritersRunning = {} /\ Published = {}
  BY DEF Init, WritersRunning, Published, IdleWriter
<1>2. (\A w \in Writer : WriterPresent(w)) /\ \A p \in Pruner : PrunerHarmless(p)
  BY DEF Init, WriterPresent, PrunerHarmless, IdleWriter, IdlePruner
<1>3. QED
  BY <1>1, <1>2, InitType DEF PresentInv, Apart

LEMMA PresentStep == PresentInv /\ [Next]_vars => PresentInv'
<1> SUFFICES ASSUME PresentInv, [Next]_vars PROVE PresentInv'
  OBVIOUS
<1>1. TypeOK /\ TypeOK'
  BY TypeStep DEF PresentInv
<1> SUFFICES ASSUME ~mixed'
             PROVE  /\ \A w \in Writer : WriterPresent(w)'
                    /\ \A p \in Pruner : PrunerHarmless(p)'
                    /\ \A m \in Published' : Hashes(m) \subseteq InStorage'
  BY <1>1, ApartStays DEF PresentInv, Hashes
<1>2. /\ ~mixed /\ Apart /\ Apart'
      /\ \A w \in Writer : WriterPresent(w)
      /\ \A p \in Pruner : PrunerHarmless(p)
      /\ \A m \in Published : Hashes(m) \subseteq InStorage
  BY <1>1, ApartStays DEF PresentInv
\* A writer's step: no pruner runs.
<1>3. ASSUME NEW w \in Writer, UNCHANGED pruner, writer'[w].pc # "idle" \/ writer[w].pc # "idle",
             InStorage \subseteq InStorage', WriterPresent(w)',
             \A v \in Writer \ {w} : Alike(writer[v], writer'[v]),
             \A m \in Published' \ Published : Hashes(m) \subseteq InStorage'
      PROVE  /\ \A v \in Writer : WriterPresent(v)'
             /\ \A p \in Pruner : PrunerHarmless(p)'
             /\ \A m \in Published' : Hashes(m) \subseteq InStorage'
  <2>1. \A v \in Writer \ {w} : WriterPresent(v)'
    BY <1>2, <1>3 DEF WriterPresent, Alike
  <2>2. \A p \in Pruner : pruner[p].pc = "idle"
    BY <1>2, <1>3 DEF Apart, WritersRunning, PrunersRunning
  <2>3. \A p \in Pruner : PrunerHarmless(p)'
    BY <1>3, <2>2 DEF PrunerHarmless
  <2>4. QED
    BY <1>2, <1>3, <2>1, <2>3
<1>4. ASSUME NEW w \in Writer, NEW m \in Manifest, NEW force \in BOOLEAN, StartWrite(w, m, force)
      PROVE  /\ \A v \in Writer : WriterPresent(v)'
             /\ \A p \in Pruner : PrunerHarmless(p)'
             /\ \A n \in Published' : Hashes(n) \subseteq InStorage'
  <2>1. InStorage' = InStorage /\ Published' = Published
    BY <1>4 DEF StartWrite, tree, InStorage, Published
  <2>2. /\ writer'[w].pc = "entries" /\ writer'[w].known = Reusable(force)
        /\ writer'[w].job = m /\ writer'[w].todo = DOMAIN Entries[m]
        /\ \A v \in Writer \ {w} : Alike(writer[v], writer'[v])
        /\ UNCHANGED pruner
    BY <1>1, <1>4, StartWriteEffect
  <2>3. Reusable(force) \subseteq InStorage
    BY DEF Reusable
  <2>4. WriterPresent(w)'
    BY <2>1, <2>2, <2>3 DEF WriterPresent
  <2>5. QED
    BY <1>3, <2>1, <2>2, <2>4
<1>5. ASSUME NEW w \in Writer, WriterStep(w) \/ CrashWrite(w)
      PROVE  /\ \A v \in Writer : WriterPresent(v)'
             /\ \A p \in Pruner : PrunerHarmless(p)'
             /\ \A m \in Published' : Hashes(m) \subseteq InStorage'
  <2>1. /\ writer[w].pc # "idle" /\ UNCHANGED pruner
        /\ \A v \in Writer \ {w} : Alike(writer[v], writer'[v])
    BY <1>1, <1>5, WriterFrame
  <2>2. InStorage \subseteq InStorage' /\ WriterPresent(w)'
    BY <1>1, <1>2, <1>5, WritersAdd, WriterStepPresent
  <2>3. \A m \in Published' \ Published : Hashes(m) \subseteq InStorage'
    <3>1. CASE Published' \subseteq Published
      BY <3>1
    <3>2. CASE CloseManifest(w) /\ Published' = Published \cup {writer[w].job}
      <4>1. writer[w].pc = "publish"
        BY <3>2 DEF CloseManifest
      <4>2. Hashes(writer[w].job) \subseteq InStorage
        BY <1>2, <4>1 DEF WriterPresent, Hashes
      <4>3. QED
        BY <2>2, <3>2, <4>2
    <3>3. QED
      BY <1>1, <1>5, <3>1, <3>2, WriterPublishes
  <2>4. QED
    BY <1>3, <2>1, <2>2, <2>3
<1>6. ASSUME NEW p \in Pruner, StartPrune(p) \/ PrunerStep(p) \/ CrashPrune(p)
      PROVE  /\ \A v \in Writer : WriterPresent(v)'
             /\ \A q \in Pruner : PrunerHarmless(q)'
             /\ \A m \in Published' : Hashes(m) \subseteq InStorage'
  <2>1. \A v \in Writer : writer'[v].pc = "idle"
    <3>1. CASE StartPrune(p)
      BY <1>1, <1>2, <3>1, StartPruneEffect, PrunerFrame DEF WritersRunning, Alike
    <3>2. CASE PrunerStep(p) \/ CrashPrune(p)
      <4>1. pruner[p].pc # "idle"
        BY <3>2 DEF PrunerStep, CrashPrune, ListStorage, StatOrphan, UnlinkOrphan,
           ListDirs, InspectDir, RemoveDir, ListMetadata, InspectMetadata, RemoveMetadata,
           EndPrune
      <4>2. \A v \in Writer : writer[v].pc = "idle"
        BY <1>2, <4>1 DEF Apart, WritersRunning, PrunersRunning
      <4>3. QED
        BY <1>1, <1>6, <4>2, PrunerFrame DEF Alike
    <3>3. QED
      BY <1>6, <3>1, <3>2
  <2>2. \A v \in Writer : WriterPresent(v)'
    BY <2>1 DEF WriterPresent
  <2>3. Published' = Published
    BY <1>1, <1>6, PrunerFrame DEF Published
  <2>4. QED
    BY <1>1, <1>2, <1>6, <2>2, <2>3, PrunerStepPresent
<1>7. ASSUME \/ Tick
             \/ UNCHANGED vars
             \/ \E m \in Manifest : RetireManifest(m)
      PROVE  /\ \A w \in Writer : WriterPresent(w)'
             /\ \A p \in Pruner : PrunerHarmless(p)'
             /\ \A m \in Published' : Hashes(m) \subseteq InStorage'
  <2>1. UNCHANGED <<data, writer, pruner>> /\ Published' \subseteq Published
    BY <1>1, <1>7 DEF Tick, vars, tree, RetireManifest, Published, TypeOK
  <2>2. QED
    BY <1>2, <2>1 DEF WriterPresent, PrunerHarmless, Hashes, Contents, InStorage
<1>8. QED
  BY <1>4, <1>5, <1>6, <1>7 DEF Next

\* Writers may overlap each other, and prunes each other, and any of them may
\* be killed: as long as no prune has run beside a writer, every data file a
\* published manifest refers to exists.
THEOREM PublishedStaysPresent == Spec => []PublishedPresent
<1>1. PresentInv => PublishedPresent
  BY DEF PresentInv, PublishedPresent
<1>2. QED
  BY InitPresent, PresentStep, <1>1, PTL DEF Spec

-----------------------------------------------------------------------------
(* At rest: nothing is left dangling when all of a run's writes happen.    *)

\* Nobody but a killed writer changes the count of them.
LEMMA CrashesStay ==
  ASSUME TypeOK, [Next]_vars, crashes' = 0
  PROVE  crashes = 0 /\ \A w \in Writer : ~CrashWrite(w)
<1>1. \A w \in Writer : ~CrashWrite(w)
  BY CrashWriteEffect
<1>2. ASSUME NEW w \in Writer, WriterStep(w) PROVE UNCHANGED crashes
  BY <1>2 DEF WriterStep, SkipEntry, MakePath, OpenData, OpenDataFails, CloseData,
     WriteOrigin, WriteLatest, OpenManifest, CloseManifest, WriteJson, counters
<1>3. UNCHANGED crashes
  BY <1>1, <1>2, PrunerFrame DEF Next, StartWrite, RetireManifest, Tick, vars, counters
<1>4. QED
  BY <1>1, <1>3

\* A step of a writer that is not at its data, or a start, leaves the files
\* being filled to the writers that fill them.
LEMMA FillersStay ==
  ASSUME PartialAttended, UNCHANGED data, NEW w \in Writer, writer[w].pc # "compress",
         \A v \in Writer \ {w} : Alike(writer[v], writer'[v]) /\ writer'[v].fd = writer[v].fd
  PROVE  PartialAttended'
<1> SUFFICES ASSUME NEW h \in Hash, data'[h] = "partial"
             PROVE  \E v \in Writer : writer'[v].pc = "compress" /\ writer'[v].cur = h
                                      /\ writer'[v].fd = "live"
  BY DEF PartialAttended
<1>1. PICK v \in Writer : writer[v].pc = "compress" /\ writer[v].cur = h /\ writer[v].fd = "live"
  BY DEF PartialAttended
<1>2. v # w
  BY <1>1
<1>3. QED
  BY <1>1, <1>2 DEF Alike

LEMMA PartialStep ==
  ASSUME TypeOK, PartialAttended, [Next]_vars, \A w \in Writer : ~CrashWrite(w)
  PROVE  PartialAttended'
<1>1. ASSUME NEW w \in Writer, NEW m \in Manifest, NEW force \in BOOLEAN, StartWrite(w, m, force)
      PROVE  PartialAttended'
  <2>1. /\ writer[w].pc # "compress" /\ UNCHANGED data
        /\ \A v \in Writer \ {w} : Alike(writer[v], writer'[v]) /\ writer'[v].fd = writer[v].fd
    BY <1>1, StartWriteEffect DEF tree
  <2>2. QED
    BY <2>1, FillersStay
<1>2. ASSUME NEW w \in Writer, WriterStep(w) PROVE PartialAttended'
  <2>1. \A v \in Writer \ {w} :
          /\ Alike(writer[v], writer'[v])
          /\ writer'[v].fd # writer[v].fd => OpenData(w) /\ writer[v].cur = writer[w].cur
    BY <1>2, WriterFrame
  <2>2. CASE OpenData(w)
    <3> DEFINE h == writer[w].cur
    <3>1. /\ h \in Hash /\ data' = [data EXCEPT ![h] = "partial"] /\ writer[w].pc = "open"
          /\ writer'[w].pc = "compress" /\ writer'[w].cur = h /\ writer'[w].fd = "live"
      BY <2>2, OpenDataEffect
    <3> SUFFICES ASSUME NEW g \in Hash, data'[g] = "partial", g # h
                 PROVE  \E v \in Writer : writer'[v].pc = "compress" /\ writer'[v].cur = g
                                          /\ writer'[v].fd = "live"
      BY <3>1 DEF PartialAttended
    <3>2. PICK v \in Writer : writer[v].pc = "compress" /\ writer[v].cur = g /\ writer[v].fd = "live"
      BY <3>1 DEF PartialAttended, TypeOK
    <3>3. v # w /\ writer[v].cur # h
      BY <3>1, <3>2
    <3>4. QED
      BY <2>1, <3>2, <3>3 DEF Alike
  <2>3. CASE CloseData(w)
    <3> DEFINE h == writer[w].cur
    <3>1. /\ h \in Hash /\ \E s \in {data[h], "whole"} : data' = [data EXCEPT ![h] = s]
          /\ writer[w].fd = "live" => data' = [data EXCEPT ![h] = "whole"]
      BY <2>3, CloseDataEffect
    <3> SUFFICES ASSUME NEW g \in Hash, data'[g] = "partial"
                 PROVE  \E v \in Writer : writer'[v].pc = "compress" /\ writer'[v].cur = g
                                          /\ writer'[v].fd = "live"
      BY DEF PartialAttended
    <3>2. data[g] = "partial"
      BY <3>1 DEF TypeOK
    <3>3. PICK v \in Writer : writer[v].pc = "compress" /\ writer[v].cur = g /\ writer[v].fd = "live"
      BY <3>2 DEF PartialAttended
    <3>4. v # w
      <4> SUFFICES ASSUME v = w PROVE FALSE
        OBVIOUS
      <4>1. data' = [data EXCEPT ![g] = "whole"]
        BY <3>1, <3>3
      <4>2. QED
        BY <4>1 DEF TypeOK
    <3>5. ~OpenData(w)
      BY <2>3 DEF OpenData, CloseData
    <3>6. QED
      BY <2>1, <3>3, <3>4, <3>5 DEF Alike
  <2>4. CASE ~OpenData(w) /\ ~CloseData(w)
    <3>1. writer[w].pc # "compress" /\ UNCHANGED data
      BY <1>2, <2>4 DEF WriterStep, SkipEntry, MakePath, OpenDataFails, WriteOrigin, EntriesDone,
         WriteLatest, OpenManifest, CloseManifest, WriteJson, tree
    <3>2. QED
      BY <2>1, <2>4, <3>1, FillersStay
  <2>5. QED
    BY <2>2, <2>3, <2>4
<1>3. ASSUME NEW p \in Pruner, StartPrune(p) \/ PrunerStep(p) \/ CrashPrune(p)
      PROVE  PartialAttended'
  <2> SUFFICES ASSUME NEW h \in Hash, data'[h] = "partial"
               PROVE  \E v \in Writer : writer'[v].pc = "compress" /\ writer'[v].cur = h
                                        /\ writer'[v].fd = "live"
    BY DEF PartialAttended
  <2>1. data[h] = "partial"
    BY <1>3, PrunerFrame
  <2>2. PICK v \in Writer : writer[v].pc = "compress" /\ writer[v].cur = h /\ writer[v].fd = "live"
    BY <2>1 DEF PartialAttended
  <2>3. Alike(writer[v], writer'[v]) /\ writer'[v].fd = writer[v].fd
    BY <1>3, <2>2, PrunerFrame
  <2>4. QED
    BY <2>2, <2>3 DEF Alike
<1>4. ASSUME Tick \/ UNCHANGED vars \/ \E m \in Manifest : RetireManifest(m)
      PROVE  PartialAttended'
  BY <1>4 DEF Tick, vars, tree, RetireManifest, PartialAttended
<1>5. QED
  BY <1>1, <1>2, <1>3, <1>4 DEF Next

LEMMA LatestStep ==
  ASSUME TypeOK, LatestLeads, [Next]_vars, \A w \in Writer : ~CrashWrite(w)
  PROVE  LatestLeads'
\* A step of w that takes no manifest away.
<1>1. ASSUME NEW w \in Writer, UNCHANGED latest, Published \subseteq Published',
             \A v \in Writer \ {w} : Alike(writer[v], writer'[v]),
             \/ writer[w].pc \notin {"manifest", "publish"}
             \/ writer[w].job \in Published'
      PROVE  LatestLeads'
  <2> SUFFICES ASSUME latest # NoManifest, latest \notin Published'
               PROVE  \E v \in Writer : writer'[v].pc \in {"manifest", "publish"}
                                        /\ writer'[v].job = latest
    BY <1>1 DEF LatestLeads
  <2>1. PICK v \in Writer : writer[v].pc \in {"manifest", "publish"} /\ writer[v].job = latest
    BY <1>1 DEF LatestLeads
  <2>2. QED
    BY <1>1, <2>1 DEF Alike
<1>2. ASSUME NEW w \in Writer, NEW m \in Manifest, NEW force \in BOOLEAN, StartWrite(w, m, force)
      PROVE  LatestLeads'
  <2>1. /\ writer[w].pc = "idle" /\ UNCHANGED <<latest, manifests>>
        /\ \A v \in Writer \ {w} : Alike(writer[v], writer'[v])
    BY <1>2, StartWriteEffect DEF tree
  <2>2. Published \subseteq Published'
    BY <2>1 DEF Published
  <2>3. QED
    BY <1>1, <2>1, <2>2
<1>3. ASSUME NEW w \in Writer, WriterStep(w) PROVE LatestLeads'
  <2>1. \A v \in Writer \ {w} : Alike(writer[v], writer'[v])
    BY <1>3, WriterFrame
  <2>2. CASE WriteLatest(w)
    <3>1. /\ writer[w].pc = "latest" /\ writer'[w].pc = "manifest"
          /\ writer'[w].job = writer[w].job /\ latest' \in {latest, writer[w].job}
          /\ UNCHANGED manifests
      BY <2>2, WriteLatestEffect DEF SameRun
    <3>2. CASE latest' = writer[w].job
      BY <3>1, <3>2 DEF LatestLeads
    <3>3. CASE UNCHANGED latest
      <4>1. Published \subseteq Published'
        BY <3>1 DEF Published
      <4>2. QED
        BY <1>1, <2>1, <3>1, <3>3, <4>1
    <3>4. QED
      BY <3>1, <3>2, <3>3
  <2>3. CASE OpenManifest(w)
    <3>1. /\ writer[w].pc = "manifest" /\ writer'[w].pc = "publish"
          /\ writer'[w].job = writer[w].job /\ Published' = Published \ {writer[w].job}
          /\ UNCHANGED latest
      BY <2>3, OpenManifestEffect DEF SameRun
    <3>2. CASE latest = writer[w].job
      BY <3>1, <3>2 DEF LatestLeads
    <3>3. CASE latest # writer[w].job
      <4> SUFFICES ASSUME latest # NoManifest, latest \notin Published'
                   PROVE  \E v \in Writer : writer'[v].pc \in {"manifest", "publish"}
                                            /\ writer'[v].job = latest
        BY <3>1 DEF LatestLeads
      <4>1. PICK v \in Writer : writer[v].pc \in {"manifest", "publish"} /\ writer[v].job = latest
        BY <3>1, <3>3 DEF LatestLeads
      <4>2. QED
        BY <2>1, <3>3, <4>1 DEF Alike
    <3>4. QED
      BY <3>2, <3>3
  <2>4. CASE CloseManifest(w)
    <3>1. /\ UNCHANGED latest /\ Published \subseteq Published'
          /\ writer[w].job \in Published'
      BY <2>4, CloseManifestEffect
    <3>2. QED
      BY <1>1, <2>1, <3>1
  <2>5. CASE ~WriteLatest(w) /\ ~OpenManifest(w) /\ ~CloseManifest(w)
    <3>1. writer[w].pc \notin {"manifest", "publish"} /\ UNCHANGED <<latest, manifests>>
      BY <1>3, <2>5 DEF WriterStep, SkipEntry, MakePath, OpenData, OpenDataFails, CloseData,
         WriteOrigin, EntriesDone, WriteJson, tree
    <3>2. Published \subseteq Published'
      BY <3>1 DEF Published
    <3>3. QED
      BY <1>1, <2>1, <3>1, <3>2
  <2>6. QED
    BY <2>2, <2>3, <2>4, <2>5
<1>4. ASSUME NEW p \in Pruner, StartPrune(p) \/ PrunerStep(p) \/ CrashPrune(p)
      PROVE  LatestLeads'
  BY <1>4, PrunerFrame DEF LatestLeads, Published, Alike
<1>5. ASSUME NEW m \in Manifest, RetireManifest(m) PROVE LatestLeads'
  BY <1>5 DEF RetireManifest, LatestLeads, Published, TypeOK
<1>6. ASSUME Tick \/ UNCHANGED vars PROVE LatestLeads'
  BY <1>6 DEF Tick, vars, tree, LatestLeads, Published
<1>7. QED
  BY <1>2, <1>3, <1>4, <1>5, <1>6 DEF Next

\* Where a prune is apart from writers, what it is about to remove the metadata
\* of stays missing.
LEMMA UnmetaStep ==
  ASSUME TypeOK, Apart, UnmetaDangles, [Next]_vars
  PROVE  UnmetaDangles'
<1>1. ASSUME UNCHANGED pruner, \A m \in Manifest : manifests[m] = "absent" => manifests'[m] = "absent"
      PROVE  UnmetaDangles'
  BY <1>1 DEF UnmetaDangles, TypeOK, PrunerState
<1>2. ASSUME NEW w \in Writer, WriterStep(w) \/ CrashWrite(w) PROVE UnmetaDangles'
  <2>1. writer[w].pc # "idle" /\ UNCHANGED pruner
    BY <1>2, WriterFrame
  <2>2. \A p \in Pruner : pruner'[p].pc = "idle"
    BY <2>1 DEF Apart, WritersRunning, PrunersRunning
  <2>3. QED
    BY <2>2 DEF UnmetaDangles
<1>3. ASSUME NEW p \in Pruner, StartPrune(p) \/ PrunerStep(p) \/ CrashPrune(p)
      PROVE  UnmetaDangles'
  <2>1. UNCHANGED manifests /\ \A q \in Pruner \ {p} : pruner'[q] = pruner[q]
    BY <1>3, PrunerFrame
  <2>2. pruner'[p].pc = "unmeta" => manifests[pruner'[p].cur] = "absent"
    <3>1. CASE InspectMetadata(p)
      BY <3>1, InspectMetadataEffect
    <3>2. CASE ~InspectMetadata(p)
      <4>1. pruner'[p].pc # "unmeta"
        BY <1>3, <3>2, StartPruneEffect, ListStorageEffect, StatOrphanEffect, UnlinkOrphanEffect,
           ListDirsEffect, InspectDirEffect, RemoveDirEffect, ListMetadataEffect,
           RemoveMetadataEffect, EndPruneEffect DEF PrunerStep
      <4>2. QED
        BY <4>1
    <3>3. QED
      BY <3>1, <3>2
  <2>3. QED
    BY <2>1, <2>2 DEF UnmetaDangles
<1>4. ASSUME NEW m \in Manifest, RetireManifest(m) PROVE UnmetaDangles'
  BY <1>1, <1>4 DEF RetireManifest, TypeOK
<1>5. ASSUME \/ Tick
             \/ UNCHANGED vars
             \/ \E w \in Writer, m \in Manifest, force \in BOOLEAN : StartWrite(w, m, force)
      PROVE  UnmetaDangles'
  BY <1>5 DEF Tick, vars, tree, StartWrite, UnmetaDangles
<1>6. QED
  BY <1>2, <1>3, <1>4, <1>5 DEF Next

LEMMA JsonStep ==
  ASSUME TypeOK, UnmetaDangles, JsonFollows, [Next]_vars, \A w \in Writer : ~CrashWrite(w)
  PROVE  JsonFollows'
\* A step of w that leaves the manifests and their metadata alone.
<1>1. ASSUME NEW w \in Writer, UNCHANGED json, Published' \subseteq Published,
             \A v \in Writer \ {w} : Alike(writer[v], writer'[v]),
             writer[w].pc # "json"
      PROVE  JsonFollows'
  <2> SUFFICES ASSUME NEW m \in Published, m \notin json
               PROVE  \E v \in Writer : writer'[v].pc = "json" /\ writer'[v].job = m
    BY <1>1 DEF JsonFollows
  <2>1. PICK v \in Writer : writer[v].pc = "json" /\ writer[v].job = m
    BY DEF JsonFollows
  <2>2. QED
    BY <1>1, <2>1 DEF Alike
<1>2. ASSUME NEW w \in Writer, NEW m \in Manifest, NEW force \in BOOLEAN, StartWrite(w, m, force)
      PROVE  JsonFollows'
  <2>1. /\ writer[w].pc = "idle" /\ UNCHANGED <<json, manifests>>
        /\ \A v \in Writer \ {w} : Alike(writer[v], writer'[v])
    BY <1>2, StartWriteEffect DEF tree
  <2>2. Published' \subseteq Published
    BY <2>1 DEF Published
  <2>3. QED
    BY <1>1, <2>1, <2>2
<1>3. ASSUME NEW w \in Writer, WriterStep(w) PROVE JsonFollows'
  <2>1. \A v \in Writer \ {w} : Alike(writer[v], writer'[v])
    BY <1>3, WriterFrame
  <2>2. CASE CloseManifest(w)
    <3>1. /\ writer[w].pc = "publish" /\ writer'[w].pc = "json"
          /\ writer'[w].job = writer[w].job /\ Published' = Published \cup {writer[w].job}
          /\ UNCHANGED json
      BY <2>2, CloseManifestEffect DEF SameRun
    <3> SUFFICES ASSUME NEW m \in Published, m \notin json, m # writer[w].job
                 PROVE  \E v \in Writer : writer'[v].pc = "json" /\ writer'[v].job = m
      BY <3>1 DEF JsonFollows
    <3>2. PICK v \in Writer : writer[v].pc = "json" /\ writer[v].job = m
      BY DEF JsonFollows
    <3>3. QED
      BY <2>1, <3>1, <3>2 DEF Alike
  <2>3. CASE WriteJson(w)
    <3>1. /\ json' = json \cup {writer[w].job} /\ UNCHANGED manifests
      BY <2>3, WriteJsonEffect
    <3> SUFFICES ASSUME NEW m \in Published, m \notin json, m # writer[w].job
                 PROVE  \E v \in Writer : writer'[v].pc = "json" /\ writer'[v].job = m
      BY <3>1 DEF JsonFollows, Published
    <3>2. PICK v \in Writer : writer[v].pc = "json" /\ writer[v].job = m
      BY DEF JsonFollows
    <3>3. QED
      BY <2>1, <3>2 DEF Alike
  <2>4. CASE ~CloseManifest(w) /\ ~WriteJson(w)
    <3>1. writer[w].pc # "json" /\ UNCHANGED json
      BY <1>3, <2>4 DEF WriterStep, SkipEntry, MakePath, OpenData, OpenDataFails, CloseData,
         WriteOrigin, EntriesDone, WriteLatest, OpenManifest, tree
    <3>2. Published' \subseteq Published
      BY <1>3, <2>4, WriterPublishes
    <3>3. QED
      BY <1>1, <2>1, <3>1, <3>2
  <2>5. QED
    BY <2>2, <2>3, <2>4
<1>4. ASSUME NEW p \in Pruner, StartPrune(p) \/ PrunerStep(p) \/ CrashPrune(p)
      PROVE  JsonFollows'
  <2>1. Published' = Published /\ \A v \in Writer : Alike(writer[v], writer'[v])
    BY <1>4, PrunerFrame DEF Published
  <2>2. Published \cap json \subseteq json'
    <3>1. CASE RemoveMetadata(p)
      <4>1. pruner[p].cur \notin Published /\ json' = json \ {pruner[p].cur}
        BY <3>1, RemoveMetadataEffect DEF UnmetaDangles, Published
      <4>2. QED
        BY <4>1
    <3>2. CASE ~RemoveMetadata(p)
      BY <1>4, <3>2 DEF StartPrune, PrunerStep, CrashPrune, ListStorage, StatOrphan,
         UnlinkOrphan, ListDirs, InspectDir, RemoveDir, ListMetadata, InspectMetadata,
         EndPrune, tree
    <3>3. QED
      BY <3>1, <3>2
  <2>3. QED
    BY <2>1, <2>2 DEF JsonFollows, Alike
<1>5. ASSUME NEW m \in Manifest, RetireManifest(m) PROVE JsonFollows'
  BY <1>5 DEF RetireManifest, JsonFollows, Published, TypeOK
<1>6. ASSUME Tick \/ UNCHANGED vars PROVE JsonFollows'
  BY <1>6 DEF Tick, vars, tree, JsonFollows, Published
<1>7. QED
  BY <1>2, <1>3, <1>4, <1>5, <1>6 DEF Next

LEMMA InitAttended == Init => AttendedInv
<1> SUFFICES ASSUME Init PROVE AttendedInv
  OBVIOUS
<1>1. Apart /\ UnmetaDangles
  BY DEF Init, Apart, WritersRunning, UnmetaDangles, IdleWriter, IdlePruner
<1>2. PartialAttended /\ LatestLeads /\ JsonFollows
  BY DEF Init, PartialAttended, LatestLeads, JsonFollows, Published
<1>3. QED
  BY <1>1, <1>2, InitType DEF AttendedInv

LEMMA AttendedStep == AttendedInv /\ [Next]_vars => AttendedInv'
<1> SUFFICES ASSUME AttendedInv, [Next]_vars PROVE AttendedInv'
  OBVIOUS
<1>1. TypeOK /\ TypeOK'
  BY TypeStep DEF AttendedInv
<1>2. ~mixed' => ~mixed /\ Apart /\ Apart' /\ UnmetaDangles /\ UnmetaDangles'
  BY <1>1, ApartStays, UnmetaStep DEF AttendedInv
<1>3. crashes' = 0 => crashes = 0 /\ \A w \in Writer : ~CrashWrite(w)
  BY <1>1, CrashesStay
<1>4. crashes' = 0 => PartialAttended' /\ LatestLeads'
  BY <1>1, <1>3, PartialStep, LatestStep DEF AttendedInv
<1>5. crashes' = 0 /\ ~mixed' => JsonFollows'
  BY <1>1, <1>2, <1>3, JsonStep DEF AttendedInv
<1>6. QED
  BY <1>1, <1>2, <1>4, <1>5 DEF AttendedInv

\* Once no writer runs, none was killed and no prune has run beside one, all
\* data that is published is whole, `latest` leads to a manifest and every
\* manifest has its metadata, however many writers raced each other over the
\* same files.
THEOREM NothingDangles == Spec => []AtRest
<1>1. PresentInv /\ AttendedInv => AtRest
  <2> SUFFICES ASSUME PresentInv, AttendedInv, WritersRunning = {}, crashes = 0, ~mixed
               PROVE  /\ \A m \in Published : m \in json /\ \A h \in Hashes(m) : data[h] = "whole"
                      /\ latest # NoManifest => latest \in Published
    BY DEF AtRest
  <2>1. \A w \in Writer : writer[w].pc = "idle"
    BY DEF WritersRunning
  <2>2. \A h \in InStorage : data[h] = "whole"
    BY <2>1 DEF AttendedInv, PartialAttended, TypeOK, FileState, InStorage
  <2>3. \A m \in Published : m \in json /\ \A h \in Hashes(m) : data[h] = "whole"
    BY <2>1, <2>2 DEF PresentInv, AttendedInv, JsonFollows
  <2>4. latest # NoManifest => latest \in Published
    BY <2>1 DEF AttendedInv, LatestLeads
  <2>5. QED
    BY <2>3, <2>4
<1>2. QED
  BY InitPresent, PresentStep, InitAttended, AttendedStep, <1>1, PTL DEF Spec

-----------------------------------------------------------------------------
(* A run of the writer that is alone from its start to its end.            *)

\* The writer starts from what is stored, all of it whole if no writer was
\* killed, or from nothing.
LEMMA SoloStarts ==
  ASSUME SoloInv, NEW w \in Writer, NEW m \in Manifest, NEW force \in BOOLEAN,
         StartWrite(w, m, force), NEW v \in Writer
  PROVE  SoloWriter(v)'
<1>0. TypeOK
  BY DEF SoloInv, AttendedInv
<1>1. CASE v # w
  BY <1>0, <1>1, StartWriteEffect DEF SoloWriter
<1>2. CASE v = w
  <2> SUFFICES ASSUME writer'[w].solo
               PROVE  SoloWriter(w)'
    BY <1>2 DEF SoloWriter
  <2>1. WritersRunning = {} /\ PrunersRunning = {}
    BY <1>0, StartWriteEffect
  <2>2. /\ \A u \in Writer : writer[u].pc = "idle"
        /\ \A p \in Pruner : pruner'[p].pc = "idle"
        /\ \A u \in Writer \ {w} : writer'[u].pc = "idle"
    BY <1>0, <2>1, StartWriteEffect DEF WritersRunning, PrunersRunning, Alike
  <2>3. /\ writer'[w].pc = "entries" /\ writer'[w].force = force
        /\ writer'[w].known = Reusable(force) /\ writer'[w].job = m
        /\ writer'[w].todo = DOMAIN Entries[m] /\ UNCHANGED <<data, crashes>>
    BY <1>0, StartWriteEffect DEF tree
  <2>4. ASSUME force \/ crashes = 0 PROVE \A h \in Reusable(force) : data[h] = "whole"
    <3>1. CASE force
      BY <3>1 DEF Reusable
    <3>2. CASE crashes = 0
      BY <1>0, <2>2, <3>2 DEF SoloInv, AttendedInv, PartialAttended, TypeOK, FileState,
         Reusable, InStorage
    <3>3. QED
      BY <2>4, <3>1, <3>2
  <2>5. force \/ crashes = 0 => WriterSecured(w)'
    BY <2>3, <2>4 DEF WriterSecured
  <2>6. QED
    BY <2>2, <2>3, <2>5 DEF SoloWriter
<1>3. QED
  BY <1>1, <1>2

\* The writer's own steps: what it opens is its own until it is filled.
LEMMA SoloSteps ==
  ASSUME SoloInv, NEW w \in Writer, WriterStep(w) \/ CrashWrite(w)
  PROVE  SoloWriter(w)'
<1>0. TypeOK /\ writer[w].pc # "idle" /\ writer[w] \in WriterState
  BY WriterFrame DEF SoloInv, AttendedInv, TypeOK
<1>1. CASE writer'[w].pc = "idle"
  BY <1>1 DEF SoloWriter
<1>2. CASE writer'[w].pc # "idle" /\ writer'[w].solo
  <2>1. SameRun(writer[w], writer'[w]) /\ UNCHANGED crashes
    BY <1>0, <1>2, SkipEntryEffect, MakePathEffect, OpenDataEffect, OpenDataFailsEffect,
       CloseDataEffect, WriteOriginEffect, WriteLatestEffect, OpenManifestEffect,
       CloseManifestEffect, WriteJsonEffect, CrashWriteEffect DEF WriterStep
  <2>2. /\ \A p \in Pruner : pruner[p].pc = "idle"
        /\ \A v \in Writer \ {w} : writer[v].pc = "idle"
        /\ writer[w].pc = "compress" => writer[w].fd = "live" /\ data[writer[w].cur] = "partial"
        /\ writer[w].force \/ crashes = 0 => WriterSecured(w)
    BY <1>0, <1>2, <2>1 DEF SoloInv, SoloWriter, SameRun
  <2>3. /\ \A p \in Pruner : pruner'[p].pc = "idle"
        /\ \A v \in Writer \ {w} : writer'[v].pc = "idle"
    BY <1>0, <2>2, WriterFrame DEF Alike
  <2>4. /\ writer[w].job \in Manifest /\ writer[w].todo \subseteq DOMAIN Entries[writer[w].job]
        /\ \A r \in DOMAIN Entries[writer[w].job] : Entries[writer[w].job][r] \in Hash
        /\ writer[w].known \subseteq Hash
    BY <1>0, EntriesType DEF WriterState, WriterType
  <2>5. ASSUME writer'[w].pc = "compress" => writer'[w].fd = "live" /\ data'[writer'[w].cur] = "partial",
               WriterSecured(w) => WriterSecured(w)'
        PROVE  SoloWriter(w)'
    BY <2>1, <2>2, <2>3, <2>5 DEF SoloWriter, SameRun
  <2>6. ASSUME UNCHANGED data, writer[w].pc \notin {"open", "compress"}, writer'[w].pc # "open",
               writer'[w].pc # "compress", writer'[w].todo = writer[w].todo,
               writer'[w].pc # "entries" => writer[w].todo = {} \/ writer[w].pc # "entries"
        PROVE  SoloWriter(w)'
    <3>1. WriterSecured(w) => WriterSecured(w)'
      BY <1>0, <2>1, <2>6 DEF WriterSecured, SameRun
    <3>2. QED
      BY <2>5, <2>6, <3>1
  <2>7. CASE SkipEntry(w)
    <3>1. WriterSecured(w) => WriterSecured(w)'
      BY <1>0, <2>1, <2>4, <2>7, SkipEntryEffect DEF WriterSecured, SameRun, tree
    <3>2. QED
      BY <1>0, <2>5, <2>7, <3>1, SkipEntryEffect
  <2>8. CASE MakePath(w)
    <3>1. WriterSecured(w) => WriterSecured(w)'
      BY <1>0, <2>1, <2>4, <2>8, MakePathEffect DEF WriterSecured, SameRun
    <3>2. QED
      BY <1>0, <2>5, <2>8, <3>1, MakePathEffect
  <2>9. CASE OpenData(w)
    <3>1. data' = [data EXCEPT ![writer[w].cur] = "partial"] /\ writer[w].cur \in Hash
          /\ writer'[w].cur = writer[w].cur /\ writer'[w].fd = "live"
          /\ writer[w].pc = "open" /\ writer'[w].pc = "compress"
          /\ writer'[w].todo = writer[w].todo
      BY <1>0, <2>9, OpenDataEffect
    <3>2. data'[writer[w].cur] = "partial"
          /\ \A g \in Hash \ {writer[w].cur} : data'[g] = data[g]
      BY <1>0, <3>1 DEF TypeOK
    <3>3. WriterSecured(w) => WriterSecured(w)'
      BY <2>1, <2>4, <3>1, <3>2 DEF WriterSecured, SameRun
    <3>4. QED
      BY <2>5, <3>1, <3>2, <3>3
  <2>10. CASE CloseData(w)
    <3>1. writer[w].pc = "compress" /\ writer[w].cur \in Hash
          /\ data' = [data EXCEPT ![writer[w].cur] = "whole"]
          /\ writer'[w].pc = "entries" /\ writer'[w].todo = writer[w].todo
      BY <1>0, <2>2, <2>10, CloseDataEffect
    <3>2. data'[writer[w].cur] = "whole"
          /\ \A g \in Hash \ {writer[w].cur} : data'[g] = data[g]
      BY <1>0, <3>1 DEF TypeOK
    <3>3. WriterSecured(w) => WriterSecured(w)'
      BY <2>1, <2>4, <3>1, <3>2 DEF WriterSecured, SameRun
    <3>4. QED
      BY <2>5, <3>1, <3>3
  <2>11. CASE WriteOrigin(w)
    BY <1>0, <2>6, <2>11, WriteOriginEffect
  <2>12. CASE WriteLatest(w)
    BY <1>0, <2>6, <2>12, WriteLatestEffect
  <2>13. CASE OpenManifest(w)
    BY <1>0, <2>6, <2>13, OpenManifestEffect
  <2>14. CASE CloseManifest(w)
    BY <1>0, <2>6, <2>14, CloseManifestEffect
  <2>15. QED
    BY <1>0, <1>2, <2>7, <2>8, <2>9, <2>10, <2>11, <2>12, <2>13, <2>14,
       OpenDataFailsEffect, WriteJsonEffect, CrashWriteEffect DEF WriterStep
<1>3. CASE ~writer'[w].solo
  BY <1>3 DEF SoloWriter
<1>4. QED
  BY <1>1, <1>2, <1>3

LEMMA SoloStep == SoloInv /\ [Next]_vars => SoloInv'
<1> SUFFICES ASSUME SoloInv, [Next]_vars, NEW w \in Writer PROVE SoloWriter(w)'
  BY AttendedStep DEF SoloInv
<1>0. TypeOK /\ SoloWriter(w)
  BY DEF SoloInv, AttendedInv
<1>1. ASSUME NEW v \in Writer, NEW m \in Manifest, NEW force \in BOOLEAN, StartWrite(v, m, force)
      PROVE  SoloWriter(w)'
  BY <1>1, SoloStarts
<1>2. ASSUME NEW v \in Writer, v # w, WriterStep(v) \/ CrashWrite(v)
      PROVE  SoloWriter(w)'
  <2>1. /\ writer[v].pc # "idle" /\ writer'[w].pc = writer[w].pc
        /\ writer'[w].solo = writer[w].solo
    BY <1>0, <1>2, WriterFrame DEF Alike
  <2>2. writer[w].pc = "idle" \/ ~writer[w].solo
    BY <1>0, <1>2, <2>1 DEF SoloWriter
  <2>3. QED
    BY <2>1, <2>2 DEF SoloWriter
<1>3. ASSUME WriterStep(w) \/ CrashWrite(w) PROVE SoloWriter(w)'
  BY <1>3, SoloSteps
<1>4. ASSUME NEW p \in Pruner, StartPrune(p) \/ PrunerStep(p) \/ CrashPrune(p)
      PROVE  SoloWriter(w)'
  <2>1. writer'[w].pc = writer[w].pc /\ (writer'[w].solo => writer[w].solo /\ ~StartPrune(p))
    BY <1>0, <1>4, PrunerFrame DEF Alike
  <2>2. ~StartPrune(p) => pruner[p].pc # "idle"
    BY <1>4 DEF PrunerStep, CrashPrune, ListStorage, StatOrphan, UnlinkOrphan, ListDirs,
       InspectDir, RemoveDir, ListMetadata, InspectMetadata, RemoveMetadata, EndPrune
  <2>3. QED
    BY <1>0, <2>1, <2>2 DEF SoloWriter
<1>5. ASSUME Tick \/ UNCHANGED vars \/ \E m \in Manifest : RetireManifest(m)
      PROVE  SoloWriter(w)'
  <2>1. UNCHANGED <<data, writer, pruner, crashes>>
    BY <1>5 DEF Tick, vars, tree, counters, RetireManifest
  <2>2. QED
    BY <1>0, <2>1 DEF SoloWriter, WriterSecured
<1>6. QED
  BY <1>1, <1>2, <1>3, <1>4, <1>5 DEF Next

\* A run of the writer that nothing overlapped leaves all the data of its
\* manifest whole, whatever earlier runs left behind: always with -f, and
\* without it if no writer was ever killed.
THEOREM SoloRunRepairs == Spec => SoloRunComplete
<1>1. Init => SoloInv
  BY InitAttended DEF SoloInv, SoloWriter, Init, IdleWriter
<1>2. SoloInv /\ [Next]_vars =>
        [\A w \in Writer :
           /\ writer[w].pc = "json" /\ writer'[w].pc = "idle" /\ crashes' = crashes
           /\ writer[w].solo
           /\ writer[w].force \/ crashes = 0
           => \A h \in Hashes(writer[w].job) : data[h] = "whole"]_vars
  BY DEF SoloInv, SoloWriter, WriterSecured, Hashes
<1>3. QED
  BY <1>1, SoloStep, <1>2, PTL DEF Spec, SoloRunComplete


-----------------------------------------------------------------------------
(* The repository as its clients see it: a store of contents, as long as   *)
(* the operator keeps the prune away from the writers.  Writers may overlap *)
(* each other, prunes each other, and any of them may be killed.           *)

KindsApart == {"write", "prune"} \notin Overlap

LEMMA UnmixedStep ==
  ASSUME KindsApart, TypeOK, ~mixed, [Next]_vars
  PROVE  ~mixed'
<1>1. ASSUME NEW w \in Writer, NEW m \in Manifest, NEW force \in BOOLEAN, StartWrite(w, m, force)
      PROVE  ~mixed'
  <2>1. PrunersRunning = {}
    BY <1>1 DEF StartWrite, MayStart, KindsApart
  <2>2. QED
    BY <1>1, <2>1, StartWriteEffect
<1>2. ASSUME NEW p \in Pruner, StartPrune(p) PROVE ~mixed'
  <2>1. {"prune", "write"} = {"write", "prune"}
    OBVIOUS
  <2>2. WritersRunning = {}
    BY <1>2, <2>1 DEF StartPrune, MayStart, KindsApart
  <2>3. QED
    BY <1>2, <2>2, StartPruneEffect
<1>3. ASSUME NEW w \in Writer, WriterStep(w) \/ CrashWrite(w) PROVE ~mixed'
  <2>1. UNCHANGED mixed
    BY <1>3, WriterFrame
  <2>2. QED
    BY Zenon, <2>1
<1>4. ASSUME NEW p \in Pruner, PrunerStep(p) \/ CrashPrune(p) PROVE ~mixed'
  <2>1. UNCHANGED mixed
    BY <1>4 DEF PrunerStep, CrashPrune, ListStorage, StatOrphan, UnlinkOrphan,
       ListDirs, InspectDir, RemoveDir, ListMetadata, InspectMetadata, RemoveMetadata,
       EndPrune, counters
  <2>2. QED
    BY Zenon, <2>1
<1>5. ASSUME Tick \/ UNCHANGED vars \/ \E m \in Manifest : RetireManifest(m) PROVE ~mixed'
  <2>1. UNCHANGED mixed
    BY <1>5 DEF Tick, vars, RetireManifest, counters
  <2>2. QED
    BY Zenon, <2>1
<1>6. QED
  BY <1>1, <1>2, <1>3, <1>4, <1>5 DEF Next

\* What a writer's step does to the files clients see.
LEMMA WriterStores ==
  ASSUME TypeOK, NEW w \in Writer, WriterStep(w) \/ CrashWrite(w), WriterPresent(w)
  PROVE  \/ Published' = Published /\ InStorage' = InStorage
         \/ \E h \in Hash : Published' = Published /\ InStorage' = InStorage \cup {h}
         \/ \E m \in Manifest : Published' = Published \ {m} /\ InStorage' = InStorage
         \/ \E m \in Manifest : /\ Hashes(m) \subseteq InStorage
                                /\ Published' = Published \cup {m} /\ InStorage' = InStorage
<1>1. writer[w].pc # "idle" /\ writer[w] \in WriterState
  BY WriterFrame DEF TypeOK
<1>2. writer[w].job \in Manifest
  BY <1>1 DEF WriterState
<1>3. CASE OpenData(w)
  BY <1>3, OpenDataEffect DEF TypeOK, InStorage, Published
<1>4. CASE CloseData(w)
  <2>1. /\ writer[w].cur \in Hash /\ Published' = Published
        /\ \E s \in {data[writer[w].cur], "whole"} : data' = [data EXCEPT ![writer[w].cur] = s]
    BY <1>4, CloseDataEffect DEF Published
  <2>2. InStorage' = InStorage \/ InStorage' = InStorage \cup {writer[w].cur}
    BY <2>1 DEF TypeOK, InStorage
  <2>3. QED
    BY <2>1, <2>2
<1>5. CASE OpenManifest(w)
  BY <1>2, <1>5, OpenManifestEffect DEF InStorage
<1>6. CASE CloseManifest(w)
  <2>1. writer[w].pc = "publish" /\ InStorage' = InStorage
    BY <1>6, CloseManifestEffect DEF InStorage
  <2>2. Hashes(writer[w].job) \subseteq InStorage
    BY <2>1 DEF WriterPresent, Hashes
  <2>3. QED
    BY <1>2, <1>6, <2>1, <2>2, CloseManifestEffect
<1>7. CASE ~OpenData(w) /\ ~CloseData(w) /\ ~OpenManifest(w) /\ ~CloseManifest(w)
  <2>1. UNCHANGED <<data, manifests>>
    BY <1>7 DEF WriterStep, CrashWrite, SkipEntry, MakePath, OpenDataFails,
       WriteOrigin, WriteLatest, WriteJson, tree
  <2>2. QED
    BY <2>1 DEF InStorage, Published
<1>8. QED
  BY <1>3, <1>4, <1>5, <1>6, <1>7

\* What a harmless pruner's step does to them.
LEMMA PrunerReclaims ==
  ASSUME TypeOK, NEW p \in Pruner, StartPrune(p) \/ PrunerStep(p) \/ CrashPrune(p),
         PrunerHarmless(p)
  PROVE  /\ Published' = Published
         /\ \/ InStorage' = InStorage
            \/ \E h \in Hash : /\ \A m \in Published : h \notin Hashes(m)
                               /\ InStorage' = InStorage \ {h}
<1>1. Published' = Published
  BY PrunerFrame DEF Published
<1>2. CASE UnlinkOrphan(p)
  <2>1. pruner[p].pc = "unlink" /\ InStorage' = InStorage \ {pruner[p].cur}
    BY <1>2, UnlinkOrphanEffect DEF InStorage, Without
  <2>2. pruner[p].cur \in Hash
    BY <2>1 DEF TypeOK, PrunerState
  <2>3. \A m \in Published : pruner[p].cur \notin Hashes(m)
    BY <2>1 DEF PrunerHarmless, TypeOK, PrunerState
  <2>4. QED
    BY <1>1, <2>1, <2>2, <2>3
<1>3. CASE RemoveDir(p)
  <2>1. Contents(pruner[p].cur) = {}
    BY <1>3, RemoveDirEffect DEF PrunerHarmless
  <2>2. UNCHANGED data
    BY <1>3, <2>1, RemoveDirEffect DEF Without, TypeOK
  <2>3. QED
    BY <1>1, <2>2 DEF InStorage
<1>4. CASE ~UnlinkOrphan(p) /\ ~RemoveDir(p)
  <2>1. UNCHANGED data
    BY <1>4 DEF StartPrune, PrunerStep, CrashPrune, ListStorage, StatOrphan,
       ListDirs, InspectDir, ListMetadata, InspectMetadata, RemoveMetadata,
       EndPrune, tree
  <2>2. QED
    BY <1>1, <2>1 DEF InStorage
<1>5. QED
  BY <1>2, <1>3, <1>4

\* Each step is a move of the store, or none of its clients' business.
LEMMA StoreStep ==
  ASSUME PresentInv, ~mixed, [Next]_vars
  PROVE  [Fetched!Next]_<<Published, InStorage>>
<1>1. /\ TypeOK
      /\ \A w \in Writer : WriterPresent(w)
      /\ \A p \in Pruner : PrunerHarmless(p)
  BY DEF PresentInv
<1>2. ASSUME Published' = Published, InStorage' = InStorage
      PROVE  [Fetched!Next]_<<Published, InStorage>>
  BY <1>2
<1>3. ASSUME NEW h \in Hash, Published' = Published, InStorage' = InStorage \cup {h}
      PROVE  Fetched!Next
  BY <1>3 DEF Fetched!Next, Fetched!Store
<1>4. ASSUME NEW m \in Manifest, Published' = Published \ {m}, InStorage' = InStorage
      PROVE  Fetched!Next
  BY <1>4 DEF Fetched!Next, Fetched!Withdraw
<1>5. ASSUME NEW m \in Manifest, Hashes(m) \subseteq InStorage,
             Published' = Published \cup {m}, InStorage' = InStorage
      PROVE  Fetched!Next
  BY <1>5 DEF Fetched!Next, Fetched!Offer
<1>6. ASSUME NEW h \in Hash, \A m \in Published : h \notin Hashes(m),
             Published' = Published, InStorage' = InStorage \ {h}
      PROVE  Fetched!Next
  <2>1. {h} \in SUBSET Hash
    BY <1>6
  <2>2. Fetched!Reclaim({h})
    BY <1>6 DEF Fetched!Reclaim, Published
  <2>3. QED
    BY <2>1, <2>2 DEF Fetched!Next
<1>7. ASSUME NEW w \in Writer, NEW m \in Manifest, NEW force \in BOOLEAN, StartWrite(w, m, force)
      PROVE  [Fetched!Next]_<<Published, InStorage>>
  BY <1>2, <1>7 DEF StartWrite, tree, InStorage, Published
<1>8. ASSUME NEW w \in Writer, WriterStep(w) \/ CrashWrite(w)
      PROVE  [Fetched!Next]_<<Published, InStorage>>
  BY <1>1, <1>2, <1>3, <1>4, <1>5, <1>8, WriterStores
<1>9. ASSUME NEW p \in Pruner, StartPrune(p) \/ PrunerStep(p) \/ CrashPrune(p)
      PROVE  [Fetched!Next]_<<Published, InStorage>>
  BY <1>1, <1>2, <1>6, <1>9, PrunerReclaims
<1>10. ASSUME NEW m \in Manifest, RetireManifest(m)
       PROVE  [Fetched!Next]_<<Published, InStorage>>
  <2>1. Published' = Published \ {m} /\ InStorage' = InStorage
    BY <1>1, <1>10 DEF RetireManifest, TypeOK, Published, InStorage
  <2>2. QED
    BY <1>4, <2>1
<1>11. ASSUME Tick \/ UNCHANGED vars PROVE [Fetched!Next]_<<Published, InStorage>>
  BY <1>2, <1>11 DEF Tick, vars, tree, InStorage, Published
<1>12. QED
  BY <1>7, <1>8, <1>9, <1>10, <1>11 DEF Next

\* As long as prunes and writers are kept apart, though not writers from each
\* other nor anyone from being killed, a client sees a store in which manifests
\* appear behind their contents and contents go only when no manifest needs
\* them.
THEOREM KeepsStore == ASSUME KindsApart PROVE Spec => IsContentStore
<1>1. Init => PresentInv /\ ~mixed /\ Fetched!Init
  <2>1. Init => Published = {} /\ InStorage = {}
    BY DEF Init, Published, InStorage
  <2>2. Init => ~mixed
    BY DEF Init
  <2>3. QED
    BY <2>1, <2>2, InitPresent DEF Fetched!Init
<1>2. PresentInv /\ ~mixed /\ [Next]_vars => (PresentInv /\ ~mixed)'
  BY PresentStep, UnmixedStep DEF PresentInv
<1>3. PresentInv /\ ~mixed /\ [Next]_vars => [Fetched!Next]_<<Published, InStorage>>
  BY StoreStep
<1>4. QED
  BY <1>1, <1>2, <1>3, PTL DEF Spec, IsContentStore, Fetched!Spec

-----------------------------------------------------------------------------
(* The same store with whole contents.                                     *)

Fetchable == {h \in Hash : Settled(h)}

WholeStore == INSTANCE ContentStore WITH
  Content <- Hash,
  Refs    <- [m \in Manifest |-> Hashes(m)],
  offered <- Published,
  stored  <- Fetchable

\* What is there is whole, when no writer meets another and none is killed.
LEMMA StoredIsWhole ==
  ASSUME ExclusiveInv
  PROVE  Fetchable = InStorage
<1>1. \A h \in Hash : data[h] \in {"absent", "partial", "whole"}
  BY DEF ExclusiveInv, TypeOK, FileState
<1>2. ASSUME NEW h \in Hash, data[h] = "partial"
      PROVE  \E w \in Writer :
               writer[w].pc = "compress" /\ writer[w].cur = h /\ writer[w].fd = "live"
  BY <1>2 DEF ExclusiveInv, OnlyCurrentPartial
<1>3. ASSUME NEW w \in Writer, writer[w].pc = "compress"
      PROVE  data[writer[w].cur] = "partial"
  BY <1>3 DEF ExclusiveInv, OnlyCurrentPartial
<1>4. ASSUME NEW h \in Hash PROVE Settled(h) <=> data[h] # "absent"
  BY <1>1, <1>2, <1>3 DEF Settled
<1>5. QED
  BY <1>4 DEF Fetchable, InStorage

\* Each step moves the store of whole contents as it moves the names.
LEMMA WholeStoreStep ==
  ASSUME PresentInv, ~mixed, [Next]_vars, Fetchable = InStorage, (Fetchable = InStorage)'
  PROVE  [WholeStore!Next]_<<Published, Fetchable>>
<1>1. [Fetched!Next]_<<Published, InStorage>>
  BY StoreStep
<1>2. QED
  BY <1>1
  DEF Fetched!Next, Fetched!Store, Fetched!Offer, Fetched!Withdraw, Fetched!Reclaim,
      WholeStore!Next, WholeStore!Store, WholeStore!Offer, WholeStore!Withdraw,
      WholeStore!Reclaim

\* When the operator runs writers alone and none is killed, the repository is a
\* content store in full: what a client can fetch for a manifest on offer is whole,
\* or being filled with the same bytes at that moment by a writer with -f, and no
\* run, however it is interleaved with prunes, ever moves the store otherwise.
THEOREM KeepsWholeStore == ASSUME Exclusive PROVE Spec => WholeStore!Spec
<1> DEFINE I == ExclusiveInv /\ PresentInv /\ ~mixed
<1>1. KindsApart
  <2>1. {"write", "prune"} # {"prune"}
    OBVIOUS
  <2>2. QED
    BY <2>1 DEF Exclusive, KindsApart
<1>2. Init => I /\ WholeStore!Init
  <2>1. SUFFICES ASSUME Init PROVE I /\ WholeStore!Init
    OBVIOUS
  <2>2. ExclusiveInv /\ PresentInv /\ ~mixed /\ Published = {} /\ InStorage = {}
    BY <2>1, InitExclusive, InitPresent DEF Init, Published, InStorage
  <2>3. QED
    BY <2>2, StoredIsWhole DEF WholeStore!Init
<1>3. I /\ [Next]_vars => I'
  <2>1. SUFFICES ASSUME I, [Next]_vars PROVE I'
    OBVIOUS
  <2>2. ExclusiveInv'
    BY <2>1, ExclusiveStep
  <2>3. PresentInv' /\ ~mixed'
    BY <1>1, <2>1, PresentStep, UnmixedStep DEF PresentInv
  <2>4. QED
    BY <2>2, <2>3
<1>4. I => Fetchable = InStorage
  BY StoredIsWhole
<1>5. /\ I /\ [Next]_vars
      /\ Fetchable = InStorage /\ (Fetchable = InStorage)'
      => [WholeStore!Next]_<<Published, Fetchable>>
  BY WholeStoreStep
<1>6. QED
  BY <1>2, <1>3, <1>4, <1>5, PTL DEF Spec, WholeStore!Spec

-----------------------------------------------------------------------------
(* That runs end, as far as it is a matter of single steps.                *)

\* How far a writer is from its end, where it is in the program.
WriterRest == [open |-> 7, compress |-> 6, entries |-> 5, latest |-> 4,
               manifest |-> 3, publish |-> 2, json |-> 1, idle |-> 0]

\* A writer goes through its entries and comes to its end behind the last.
WriterShorter(s, t) ==
  \/ t.pc = "idle"
  \/ t.todo # s.todo /\ t.todo \subseteq s.todo
  \/ t.todo = s.todo /\ WriterRest[t.pc] < WriterRest[s.pc]

\* What a pruner goes through where it is.
Listed(s) ==
  CASE s.pc \in {"stat", "unlink"} -> s.orphans
    [] s.pc \in {"dirs", "rmdir"} -> s.dirs
    [] s.pc \in {"meta", "unmeta"} -> s.metas
    [] OTHER -> {}

\* The part of the program it is in.
Part(s) ==
  CASE s.pc = "list" -> 4
    [] s.pc \in {"stat", "unlink"} -> 3
    [] s.pc \in {"dirs", "rmdir"} -> 2
    [] s.pc \in {"meta", "unmeta"} -> 1
    [] OTHER -> 0

\* It goes to a later part, or gets on with the list of this one.
PrunerShorter(s, t) ==
  \/ Part(t) < Part(s)
  \/ Part(t) = Part(s) /\ Listed(t) # Listed(s) /\ Listed(t) \subseteq Listed(s)
  \/ /\ Part(t) = Part(s) /\ Listed(t) = Listed(s)
     /\ s.pc \in {"unlink", "rmdir", "unmeta"} /\ t.pc \in {"stat", "dirs", "meta"}

\* A process that runs has less to do after a step of its own, and never more
\* after a step of somebody else.
RunsShorten ==
  /\ \A w \in Writer : writer[w].pc # "idle" =>
       /\ WriterStep(w) => WriterShorter(writer[w], writer'[w])
       /\ \/ WriterShorter(writer[w], writer'[w])
          \/ writer'[w].pc = writer[w].pc /\ writer'[w].todo = writer[w].todo
  /\ \A p \in Pruner : pruner[p].pc # "idle" =>
       /\ PrunerStep(p) => PrunerShorter(pruner[p], pruner'[p])
       /\ PrunerShorter(pruner[p], pruner'[p]) \/ pruner'[p] = pruner[p]

\* What the next step of a writer needs.
WriterMayStep(w) ==
  \/ writer[w].pc = "entries" /\ writer[w].todo # {}
  \/ EntriesDone(w)
  \/ writer[w].pc = "compress" /\ writer[w].fd # "none"
  \/ writer[w].pc \in {"open", "latest", "manifest", "publish", "json"}

\* A writer that fills a file has it open.
HandleInv == \A w \in Writer : writer[w].pc = "compress" => writer[w].fd # "none"

LEMMA WriterStepShortens ==
  ASSUME TypeOK, NEW w \in Writer, WriterStep(w) \/ CrashWrite(w)
  PROVE  WriterShorter(writer[w], writer'[w])
<1>1. CASE SkipEntry(w)
  BY <1>1, SkipEntryEffect DEF WriterShorter
<1>2. CASE MakePath(w)
  BY <1>2, MakePathEffect DEF WriterShorter
<1>3. CASE OpenData(w)
  BY <1>3, OpenDataEffect DEF WriterShorter, WriterRest
<1>4. CASE OpenDataFails(w) \/ WriteJson(w) \/ CrashWrite(w)
  BY <1>4, OpenDataFailsEffect, WriteJsonEffect, CrashWriteEffect DEF WriterShorter
<1>5. CASE CloseData(w)
  <2>1. /\ writer[w].pc = "compress"
        /\ \/ writer'[w].pc = "idle"
           \/ writer'[w].pc = "entries" /\ writer'[w].todo = writer[w].todo
    BY <1>5, CloseDataEffect
  <2>2. QED
    BY <2>1 DEF WriterShorter, WriterRest
<1>6. CASE WriteOrigin(w)
  BY <1>6, WriteOriginEffect DEF WriterShorter, WriterRest
<1>7. CASE WriteLatest(w)
  BY <1>7, WriteLatestEffect DEF WriterShorter, WriterRest
<1>8. CASE OpenManifest(w)
  BY <1>8, OpenManifestEffect DEF WriterShorter, WriterRest
<1>9. CASE CloseManifest(w)
  BY <1>9, CloseManifestEffect DEF WriterShorter, WriterRest
<1>10. QED
  BY <1>1, <1>2, <1>3, <1>4, <1>5, <1>6, <1>7, <1>8, <1>9 DEF WriterStep

LEMMA PrunerStepShortens ==
  ASSUME TypeOK, NEW p \in Pruner, PrunerStep(p) \/ CrashPrune(p)
  PROVE  PrunerShorter(pruner[p], pruner'[p])
<1> DEFINE s == pruner[p]
           t == pruner'[p]
<1>1. s \in PrunerType
  BY DEF TypeOK, PrunerState
<1>2. ASSUME s.pc # "idle", t.pc = "idle" PROVE PrunerShorter(s, t)
  <2>1. Part(t) = 0
    BY <1>2 DEF Part
  <2>2. Part(s) \in {1, 2, 3, 4}
    BY <1>1, <1>2 DEF Part, PrunerType
  <2>3. QED
    BY <2>1, <2>2 DEF PrunerShorter
<1>3. CASE ListStorage(p)
  BY <1>3, ListStorageEffect DEF PrunerShorter, Part
<1>4. CASE StatOrphan(p)
  <2>1. CASE t.pc = "idle"
    BY <1>2, <1>4, <2>1, StatOrphanEffect
  <2>2. CASE t.pc # "idle"
    <3>1. PICK h \in s.orphans :
            /\ s.pc = "stat" /\ t.pc \in {"stat", "unlink"} /\ t.orphans = s.orphans \ {h}
      BY <1>4, <2>2, StatOrphanEffect
    <3>2. Part(s) = 3 /\ Part(t) = 3 /\ Listed(s) = s.orphans /\ Listed(t) = t.orphans
      BY <3>1 DEF Part, Listed
    <3>3. QED
      BY <3>1, <3>2 DEF PrunerShorter
  <2>3. QED
    BY <2>1, <2>2
<1>5. CASE UnlinkOrphan(p)
  <2>1. s.pc = "unlink" /\ t.pc = "stat" /\ t.orphans = s.orphans
    BY <1>5, UnlinkOrphanEffect
  <2>2. QED
    BY <2>1 DEF PrunerShorter, Part, Listed
<1>6. CASE ListDirs(p)
  BY <1>6, ListDirsEffect DEF PrunerShorter, Part
<1>7. CASE InspectDir(p)
  <2>1. PICK d \in s.dirs : t = Inspected(p, d)
    BY <1>7 DEF InspectDir, TypeOK
  <2>2. s.pc = "dirs" /\ t.pc \in {"dirs", "rmdir"} /\ t.dirs = s.dirs \ {d}
    BY <1>1, <1>7, <2>1 DEF InspectDir, Inspected, PrunerType
  <2>3. Part(s) = 2 /\ Part(t) = 2 /\ Listed(s) = s.dirs /\ Listed(t) = t.dirs
    BY <2>2 DEF Part, Listed
  <2>4. QED
    BY <2>2, <2>3 DEF PrunerShorter
<1>8. CASE RemoveDir(p)
  <2>1. s.pc = "rmdir" /\ t.pc = "dirs" /\ t.dirs = s.dirs
    BY <1>1, <1>8 DEF RemoveDir, TypeOK, PrunerType
  <2>2. QED
    BY <2>1 DEF PrunerShorter, Part, Listed
<1>9. CASE ListMetadata(p)
  BY <1>9, ListMetadataEffect DEF PrunerShorter, Part
<1>10. CASE InspectMetadata(p)
  <2>1. PICK m \in s.metas : t = Considered(p, m)
    BY <1>10 DEF InspectMetadata, TypeOK
  <2>2. s.pc = "meta" /\ t.pc \in {"meta", "unmeta"} /\ t.metas = s.metas \ {m}
    BY <1>1, <1>10, <2>1 DEF InspectMetadata, Considered, PrunerType
  <2>3. Part(s) = 1 /\ Part(t) = 1 /\ Listed(s) = s.metas /\ Listed(t) = t.metas
    BY <2>2 DEF Part, Listed
  <2>4. QED
    BY <2>2, <2>3 DEF PrunerShorter
<1>11. CASE RemoveMetadata(p)
  <2>1. s.pc = "unmeta" /\ t.pc = "meta" /\ t.metas = s.metas
    BY <1>1, <1>11 DEF RemoveMetadata, TypeOK, PrunerType
  <2>2. QED
    BY <2>1 DEF PrunerShorter, Part, Listed
<1>12. CASE EndPrune(p) \/ CrashPrune(p)
  BY <1>2, <1>12, EndPruneEffect
<1>13. QED
  BY <1>3, <1>4, <1>5, <1>6, <1>7, <1>8, <1>9, <1>10, <1>11, <1>12 DEF PrunerStep

LEMMA ShortenStep ==
  ASSUME TypeOK, [Next]_vars
  PROVE  RunsShorten \/ UNCHANGED vars
<1> DEFINE WritersKept == \A w \in Writer : writer[w].pc # "idle" =>
             writer'[w].pc = writer[w].pc /\ writer'[w].todo = writer[w].todo
           PrunersKept == \A p \in Pruner : pruner[p].pc # "idle" => pruner'[p] = pruner[p]
<1>1. \A w \in Writer : WriterStep(w) => WriterShorter(writer[w], writer'[w])
  BY WriterStepShortens
<1>2. \A p \in Pruner : PrunerStep(p) => PrunerShorter(pruner[p], pruner'[p])
  BY PrunerStepShortens
<1>3. ASSUME NEW w \in Writer, WriterStep(w) \/ CrashWrite(w) PROVE RunsShorten
  <2>1. PrunersKept
    BY <1>3, WriterFrame
  <2>2. \A v \in Writer \ {w} : writer'[v].pc = writer[v].pc /\ writer'[v].todo = writer[v].todo
    BY <1>3, WriterFrame DEF Alike
  <2>3. WriterShorter(writer[w], writer'[w])
    BY <1>3, WriterStepShortens
  <2>4. QED
    BY <1>1, <1>2, <2>1, <2>2, <2>3 DEF RunsShorten
<1>4. ASSUME NEW p \in Pruner, StartPrune(p) \/ PrunerStep(p) \/ CrashPrune(p) PROVE RunsShorten
  <2>1. WritersKept
    BY <1>4, PrunerFrame DEF Alike
  <2>2. \A q \in Pruner \ {p} : pruner'[q] = pruner[q]
    BY <1>4, PrunerFrame
  <2>3. pruner[p].pc # "idle" => PrunerShorter(pruner[p], pruner'[p])
    BY <1>4, PrunerStepShortens DEF StartPrune
  <2>4. QED
    BY <1>1, <1>2, <2>1, <2>2, <2>3 DEF RunsShorten
<1>5. ASSUME NEW w \in Writer, NEW m \in Manifest, NEW force \in BOOLEAN, StartWrite(w, m, force)
      PROVE  RunsShorten
  <2>1. WritersKept
    BY <1>5, StartWriteEffect DEF Alike
  <2>2. PrunersKept
    BY <1>5, StartWriteEffect
  <2>3. QED
    BY <1>1, <1>2, <2>1, <2>2 DEF RunsShorten
<1>6. CASE Tick \/ \E m \in Manifest : RetireManifest(m)
  <2>1. WritersKept /\ PrunersKept
    BY <1>6 DEF Tick, RetireManifest
  <2>2. QED
    BY <1>1, <1>2, <2>1 DEF RunsShorten
<1>7. QED
  BY <1>3, <1>4, <1>5, <1>6 DEF Next

LEMMA HandleStep ==
  ASSUME TypeOK, HandleInv, [Next]_vars
  PROVE  HandleInv'
<1>1. ASSUME NEW w \in Writer, WriterStep(w) \/ CrashWrite(w) PROVE HandleInv'
  <2>1. writer'[w].pc = "compress" => writer'[w].fd # "none"
    <3>1. CASE OpenData(w)
      BY <3>1, OpenDataEffect
    <3>2. CASE ~OpenData(w)
      BY <1>1, <3>2, SkipEntryEffect, MakePathEffect, OpenDataFailsEffect, CloseDataEffect,
         WriteOriginEffect, WriteLatestEffect, OpenManifestEffect, CloseManifestEffect,
         WriteJsonEffect, CrashWriteEffect DEF WriterStep
    <3>3. QED
      BY <3>1, <3>2
  <2>2. ASSUME NEW v \in Writer \ {w}, writer'[v].pc = "compress" PROVE writer'[v].fd # "none"
    <3>1. writer[v].pc = "compress"
      BY <1>1, <2>2, WriterFrame DEF Alike
    <3>2. CASE OpenData(w)
      <4>1. \/ writer'[v] = writer[v]
            \/ writer'[v] = [writer[v] EXCEPT !.fd = "shared"]
        BY <3>2 DEF OpenData
      <4>2. QED
        BY <3>1, <4>1 DEF HandleInv, TypeOK, WriterState, WriterType
    <3>3. CASE ~OpenData(w)
      BY <1>1, <3>1, <3>3, WriterFrame DEF HandleInv
    <3>4. QED
      BY <3>2, <3>3
  <2>3. QED
    BY <2>1, <2>2 DEF HandleInv
<1>2. ASSUME NEW p \in Pruner, StartPrune(p) \/ PrunerStep(p) \/ CrashPrune(p) PROVE HandleInv'
  <2>1. \/ writer' = writer \/ writer' = Joined
        \/ \E H \in {{pruner[p].cur}, Contents(pruner[p].cur)} : writer' = Unlinked(H)
    BY <1>2 DEF StartPrune, PrunerStep, CrashPrune, ListStorage, StatOrphan, UnlinkOrphan,
       ListDirs, InspectDir, RemoveDir, ListMetadata, InspectMetadata, RemoveMetadata, EndPrune
  <2>2. CASE writer' = writer
    BY <2>2 DEF HandleInv
  <2>3. CASE writer' = Joined
    BY <2>3, JoinedAlike DEF HandleInv, Alike
  <2>4. ASSUME NEW H, writer' = Unlinked(H) PROVE HandleInv'
    BY <2>4 DEF HandleInv, Unlinked, TypeOK, WriterState, WriterType
  <2>5. QED
    BY <2>1, <2>2, <2>3, <2>4
<1>3. ASSUME NEW w \in Writer, NEW m \in Manifest, NEW force \in BOOLEAN, StartWrite(w, m, force)
      PROVE  HandleInv'
  BY <1>3, StartWriteEffect DEF HandleInv, Alike
<1>4. CASE UNCHANGED vars \/ Tick \/ \E m \in Manifest : RetireManifest(m)
  BY <1>4 DEF HandleInv, vars, Tick, RetireManifest
<1>5. QED
  BY <1>1, <1>2, <1>3, <1>4 DEF Next

\* A run can only come closer to its end: each step of its own takes something
\* from what it listed when it came to this part of the program, or takes it to
\* the next part, and no step of another process, no prune that deletes under a
\* writer and no writer that adds under a prune, gives it more to do (reindex of
\* libupdate.nim and the loops of nwn_nwsync_prune.nim).
THEOREM RunsOnlyShorten == Spec => [][RunsShorten]_vars
<1>1. TypeOK /\ [Next]_vars => [RunsShorten]_vars
  BY ShortenStep
<1>2. QED
  BY <1>1, TypeCorrect, PTL DEF Spec

\* No writer that runs is without a next step, whatever others have done to the
\* directory, the file or the name it is at (reindex of libupdate.nim).
THEOREM WritersMayStep ==
  Spec => [](\A w \in Writer : writer[w].pc # "idle" => WriterMayStep(w))
<1>1. Init => TypeOK /\ HandleInv
  BY InitType DEF Init, HandleInv, IdleWriter
<1>2. TypeOK /\ HandleInv /\ [Next]_vars => (TypeOK /\ HandleInv)'
  BY TypeStep, HandleStep
<1>3. TypeOK /\ HandleInv => \A w \in Writer : writer[w].pc # "idle" => WriterMayStep(w)
  <2> SUFFICES ASSUME TypeOK, HandleInv, NEW w \in Writer, writer[w].pc # "idle"
               PROVE  WriterMayStep(w)
    OBVIOUS
  <2>1. writer[w].pc \in {"entries", "open", "compress", "latest", "manifest", "publish", "json"}
    BY DEF TypeOK, WriterState, WriterType
  <2>2. QED
    BY <2>1 DEF WriterMayStep, EntriesDone, HandleInv
<1>4. QED
  BY <1>1, <1>2, <1>3, PTL DEF Spec
=============================================================================
