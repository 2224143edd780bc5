# Verification of neverwinter.nim

TLA+ models of the parts of neverwinter.nim that keep state, TLC
configurations that check them on small instances, and proofs, checked by
TLAPS, of the properties that matter most. Every definition follows the source
of the repository; `PROJECT.json` maps each of them to its file and lines.

Contents: [1 The system](#1-the-system) ·
[2 Modules](#2-modules-and-how-they-follow-the-code) ·
[3 Runs](#3-what-is-model-checked) · [4 Findings](#4-where-the-code-does-not-do-what-it-says) ·
[5 Theorems](#5-what-is-proved) · [6 Limits](#6-what-is-abstracted-and-what-is-left-out) ·
[7 Plan](#7-plan)

To repeat the checks: `tlc -config <run>.cfg <module>.tla` with the pairs of
section 3, and `tlapm` with each of the eight modules whose names end in
`Proofs`. The community modules have to be on the library path.

## 1 The system

neverwinter.nim is a library for the file formats of Neverwinter Nights
(`neverwinter/*.nim`), a wrapper around BioWare's script compiler
(`neverwinter/nwscript/`) and some twenty command line tools (`nwn_*.nim`).
Most of it is sequential code from bytes to bytes. What is hard lies where
state outlives a call: a directory tree that several processes work on without
a lock, an object that caches what the file system said earlier, one service
thread that serves a pool of workers, a file that is overwritten while it is
still the source of what is written.

| Component | State | Operations | Interacts with |
|---|---|---|---|
| **NWSync repository** (`nwsync/private/libupdate.nim`, `libshared.nim`, `nwn_nwsync_write.nim`, `nwn_nwsync_prune.nim`) | the tree `data/sha1/xx/yy/<sha1>`, `manifests/<sha1>`, `.json`, `.origin`, `latest`; per process the set of stored hashes or the orphans it listed | a writer run (`reindex`), a prune run | any number of processes, the file system, clients that download, an operator who deletes manifests |
| **Manifest format, fetch, print** (`nwsync.nim`, `nwn_nwsync_fetch.nim`, `nwn_nwsync_print.nim`) | entries and mappings of one manifest | `readManifest`, `writeManifest` | the repository's files |
| **Resource manager** (`resman.nim`, `lru.nim`, `resdir.nim`, `resfile.nim`, `resmemfile.nim`) | list of containers, LRU cache of what was found, per directory the set of names it had | `add`, `del`, `[]`, `demand`, `contents` | every tool; files that other programs change |
| **Container formats** (`key.nim`, `erf.nim`, `compressedbuf.nim`, `exo.nim`, `resnwsync.nim`) | tables of offsets and ids into a stream, opened BIFs | read, look up, write | resource manager, tools |
| **Script compiler driver** (`nwn_script_comp.nim`, `nwscript/compiler.nim`) | task pool, two kinds of channels, counters, abort flag, per thread compiler and search path | compile one file; answer one lookup | one ResMan in a service thread, the native compiler in each worker, the artifacts on disk |
| **Native script compiler** (`nwscript/native/*.cpp`, `compilerapi.cpp`) | include stack, identifier and symbol tables, generated code | `ParseFile`, `CompileScript`, delivery of a requested source | its driver through two callbacks |
| **Script VM and assembly** (`nwtestvm.nim`, `nwasm.nim`, `ndb.nim`, `langspec.nim`) | stack, stack and base pointer, call stack, saved state of deferred actions | one step per instruction | commands a host registers |
| **Talk tables** (`tlk.nim`, `languages.nim`, `nwn_tlk.nim`, `nwn_erf_tlkify.nim`) | entries assigned in memory over a file read lazily through a cache; a growing map of texts to references | look up, assign, write; tlkify a module | modules of earlier runs, which hold references |
| **GFF** (`gff.nim`, `gffjson.nim`) | a tree whose fields may still be unread | get, put, lazy `resolve`, write | tools |
| **Tables and sound sets** (`twoda.nim`, `ssf.nim`) | rows and columns | read, write | tools |
| **Names and types** (`resref.nim`, `restype.nim`, `util.nim`, `game.nim`) | a registry of types, an encoding | conversions | everything |
| **Network queries** (`nwn_net.nim`, `private/asyncnetudp.nim`, `netutil.nim`, `packets.nim`, `arpie.nim`) | one socket and one pending read per query | `ask` with a timeout | game servers over UDP |
| **Command line utilities** | options | front ends | all of the above |
| **Vendored code** (`private/zstd`, `nancy.nim`, `termstyle.nim`) | | | |

### What is hard, and what has to hold

*NWSync repository.* A writer lists the stored hashes once and skips what is
there by its name; a prune collects what manifests refer to, then lists the
storage, then deletes, then removes empty directories and metadata without a
manifest. Nothing locks the tree, a run may be killed between any two system
calls, and the age limit that is to protect fresh data is measured once. Data
files are truncated and filled in place. What has to hold: every published
manifest can be downloaded in full, a prune removes exactly what is old and
unreferenced, a mishap can be repaired by running the writer again, runs end.

*Resource manager.* A lookup asks containers one after the other; each answer
is a system call, and the file may be gone at the next. The cache outlives
container lists and files. What has to hold: the container added last wins,
also through the cache; a lookup that finds nothing had nothing to find; the
three parts of the LRU cache agree whatever is called, closures that use the
cache from inside `getOrPut` included, and eviction respects weight and order.

*Script compiler driver.* Workers share one ResMan by messages, each with a
search path that is put on the ResMan's list and taken off again around a
request. Any call may raise; the first error aborts the rest. What has to
hold: each worker gets what its own search path says, whoever else asks; no
worker waits forever; the exit code does not hide a file that was not built,
and no artifact of an earlier build stays beside one of this build.

*Talk tables.* References written into a module must mean the same text for
ever. Saving truncates the file that unread entries come from. What has to
hold: texts keep their references, new ones get unused ones, and saving does
not depend on what it has just destroyed.

*Native compiler and VM.* Sequential, but with much state that has to agree: a
push-down parser that keeps its frames in an array and suspends one file for
another; a code generator that visits each node up to three times and keeps
book of a stack that only the binary will have, with labels named after code
offsets; optimizations that withdraw code which labels and jumps already refer
to; functions that change places while they are linked. And one compiler object
serves all scripts of a worker: its names are taken back after each script,
wherever that failed. What has to hold: the compiler takes the scripts that
are ones and no others; what it makes of them does what they mean, at every
optimization level, and leaves the stack as it found it; and no script finds
anything of the one before.

*GFF, containers.* Offsets and packed identifiers have fixed widths. These
follow in the plan.

*Network queries.* One request, one datagram, one timer: the timeout against a
late answer, and a socket nobody closes.

The list of hazards, each with its line and the properties that would notice
it going wrong, is in `PROJECT.json`.

## 2 Modules, and how they follow the code

```
NwsyncRepository <- MCNwsync                LruCache <- WeightedLRU <- MCLru
    |  implements ContentStore                  ^  implements ForgetfulMap
    |                                           |
ContainerList <- ScriptComp <- MCScriptComp     |
       ^            |  implements ScriptBuild   |
       +----------------- ResMan ---------------+     <- MCResMan
Tlkify <- MCTlkify

ParseTree <- ExpressionGrammar <- StatementGrammar <- UnitGrammar <------+
        ^                                                                |
        +--- TreeFolding <- CodeExpressions <- CodeStatements            |
               CodeBuffer <-----^                 ^                      |
                   ^                           CodeGen <- Linker <-------+
                   +------------- Relocation <--------------^            |
ScriptVm <--------------------------------------------------- NativeCompiler
ScriptMeaning <- ScriptFamilies  (instances for) MCNative --> NativeCompiler
IdentifierTable <- MCIdentifiers

LruCacheProofs <- WeightedLRUProofs     NwsyncProofs       (proofs about the module
      ^                                 TlkifyProofs        of the same name; each
ResManProofs -> ContainerListProofs                         extends it)
ScriptCompProofs -----^                 NativeProofs (IdentifierTable, Relocation, CodeBuffer)
```

`LruCache` and `ContainerList` hold the data structures as operators. They are
checked by themselves (`WeightedLRU`) and composed in the modules of their
users: `ResMan` runs lookups on both, the service thread of `ScriptComp` works
on a `ContainerList`, `Tlkify` relies on what `WeightedLRU` is proved to
implement.

Definitions marked `\* mutant` or `\* variant` are not part of a model. Each is
a faulty version of the definition below it, as a plausible bug would leave it;
replacing the definition by it must break the property that `PROJECT.json`
names, which shows that the property depends on the code.

### NwsyncRepository

The tree is the state: `data[h]` is absent, partial (opened for writing, or
left by a killed writer) or whole; `mtime`, `dirs`, `manifests`, `json`,
`origin`, `latest` are what the disk has. `writer[w]` and `pruner[p]` are the
local state of processes: `pc` names the point in the code, `known` is the set
of stored hashes read at the start (`writtenHashes`), `todo` the entries ahead,
`keep` and `orphans` what a prune computed, `stamp` its `now`.

| Actions | Code |
|---|---|
| `StartWrite` | `reindex` up to the entry loop: only reads, lists the storage unless `-f` |
| `SkipEntry`, `MakePath`, `OpenData`, `OpenDataFails`, `CloseData` | one entry: by name known, or create directories, truncate, compress, close, ask for its size |
| `WriteOrigin`, `WriteLatest`, `OpenManifest`, `CloseManifest`, `WriteJson` | the end of `reindex`, in the order of the code; options make the first two optional |
| `StartPrune`, `ListStorage`, `StatOrphan`, `UnlinkOrphan` | `pruneUnreferencedFiles`; a manifest that is not whole makes `readManifest` raise |
| `ListDirs`, `InspectDir`, `RemoveDir` | `pruneEmptyDirectories`; `removeDir` is recursive |
| `ListMetadata`, `InspectMetadata`, `RemoveMetadata`, `EndPrune` | `pruneDanglingMetadata` |
| `CrashWrite`, `CrashPrune`, `RetireManifest`, `Tick` | the environment: kills, an operator who deletes a manifest, time |

An open file survives the removal of its name, so a writer's handle is `live`,
`shared` (another writer truncated the same file) or `gone`. `Overlap` says
which kinds of runs the operator lets overlap; `solo` is history, set if
nothing ran next to a run.

`ContentStore` is what clients are promised: manifests on offer and contents in
store, each of which appears and goes in one step. `IsContentStore` is the
refinement: `offered` is `Published`, `stored` is `InStorage`. Closing the
manifest offers it; truncating it for rewriting, or the operator's deletion,
withdraws it; opening a data file stores the content; an unlinked orphan is
reclaimed. Everything else is none of the clients' business.

### LruCache, WeightedLRU, ForgetfulMap

A cache is the record of the linked list, the key set of the map and the
running total. `Touched`, `Dropped`, `Updated`, `Inserted`, `CutTo` and
`Trimmed` are the branches of `[]`, `del`, `[]=` and its eviction loop;
`WeightedLRU` calls them in every order, and `Load`/`Loaded` split `getOrPut`
at the call of its closure, between which anything may happen (`loading` is
the stack of closures). `TotalWeight` says what `currentWeight` should be: the
sum over the list, as a recursive function of a place in it. `ForgetfulMap` is the promise to users: entries may be
forgotten, answers are never mixed up; `IsForgetfulMap` is the refinement.

### ContainerList, ResMan

`Added` prepends; `Deleted` is `seq.del`, which moves the last element into the
gap. `ResMan` models `[]` and `demand` as walks: `Ask` starts one, `Probe` asks
one container (`ResDir.checkExists`: listed when the directory was opened and
on disk now, and a name found gone is struck out), `Fetch` is the second check
in `ResDir.demand`, `Stat` the size that becomes the cache's weight, `Hit` the
cached answer, `Exhausted` the end of the list. `Change` is another program
creating, replacing or removing a file between any two of these. `Lookup` and
`Ending` are the sets of walks under way and of their results.

### ScriptComp

`queued`, `job`, `ready` are the task pool and thread-local compilers;
`requests` and `response` the channels; `rm` the list of the service's ResMan.
`Serve` is one turn of the service loop (search path on, look up, search path
off, answer). A worker goes through `Take`, the language specification, `Prepare`
(search path, old `.ndb` removed), `Request`/`Receive` per source, one of
`Success`, `Skip`, `Error`, then `WriteNcs` and `WriteNdb`. `PrepareFails` and
`WriteFails` raise at the file system calls; a file that was being written is
then as it was or half written (`Torn`). `Quit` is `sync` and the exit of
the main thread. The native compiler is external: it asks for the file and its
includes in order, then reports any result the driver distinguishes.

`ScriptBuild` is what a caller may expect of a run: each file is compiled in one
step, no worker in it knows of the others, and only a file all of whose sources
can be found from where it is gets built, validated or skipped. There is no
service, no message and no list of containers. `IsPrivateBuild` is the
refinement: `working` is the file of each worker, `Whole` the files whose
sources are all in their own search path (`Resolvable`). Requests, answers and
what happens to the shared list are stutters.

### Tlkify

One run after the other on one table. `Start` opens it, `Collect` is the loop
over its entries, `Translate` the map from text to reference, `EndErf` the end
of the module, `OpenForWriting`, `WriteEntry`, `Save` are `writeTlk` on the
truncated file, `ReadFails` the entry that can no longer be read. `held` is the
cache: by theorem `Implements` of `WeightedLRUProofs` it is a map that may
forget, so it keeps any subset and the entry read last (the cache has
`minSize` 1). `promised` records what the modules of runs that came to their
end refer to. `Plain` is what a save makes of a text: `writeTlk` takes out "\r"
(`tlk.nim:179`, `tests/tlk/tnocr.nim`), and the text as it was found in a module
is not the one that the next run finds in the table.

### The native compiler, from tokens to a running script

`NativeCompiler` composes the parts. Its actions are the stages of
`CompileFile`, each a call that the code makes: `ParseSource` gives the parser
one token, `GenerateFinalCode` walks the tree with one of the sets of
optimizations, `LinkFinalCode` settles where functions go and resolves the
labels, `RunScript` is one instruction of the test machine. The parts are
operators over explicit states, since each is a sequential function of what it
is given:

| Module | Code |
|---|---|
| `ParseTree` | the parse stack (`PushSRStack`, `PopSRStack`: state, rule, term, tree) and tree nodes, as a heap in which sharing shows |
| `ExpressionGrammar`, `StatementGrammar`, `UnitGrammar` | `GenerateParseTree`, one operator per state of the grammar; `AddUserDefinedIdentifier`, global variables, `ParseSource` and includes, which suspend a file in the middle |
| `TreeFolding` | `ConstantFoldNode` and `TrimParseTree` |
| `CodeBuffer` | the code written so far, the labels and the jumps that wait for them, the generator's idea of the stack; `EmitModifyStackPointer` with the melding of instructions |
| `CodeExpressions`, `CodeStatements`, `CodeGen` | `PreVisitGenerateCode`, `InVisitGenerateCode`, `PostVisitGenerateCode` and `WalkParseTree`, one operator per kind of node and visit |
| `Linker` | `InstallLoader`, `DetermineLocationOfCode` |
| `Relocation` | `ResolveLabels` and the final copy; `Linkable`, what these two rely on, is not code |
| `ScriptVm` | `nwtestvm.nim`: one disjunct per kind of instruction |

What a script *means* is stated apart from all of this: `ScriptMeaning` has an
abstract syntax, prints it as tokens with the fewest brackets that precedence
allows, and evaluates it. `ScriptFamilies` builds the scripts from it: every
nest of two loops or switches with every jump inside, chains of the operators,
and so on, and scripts that are none. `Meaning` compares the values the binary
hands to a command with those of the evaluator.

The operators were compared with the compiler itself, built from the sources:
for each of the 208 scripts at each of the four levels the verdict and the
instructions, byte offsets included, are the same (832 of 832), as they are for
the scripts of `native_clash` (16 of 16).

### IdentifierTable

What one script leaves to the next. `list`, `occupied`, `predefined` are
`m_pcIdentifierList` with its two counters, `table` the open hash table,
`stage` where the compiler is; `leaked` is history. A search is a walk over
the slots from the hash on, up to a free slot: `Passes` says what it has gone
past, `FoundAt` where it stops.

| Actions | Code |
|---|---|
| `ParseIdentifierList`, `ParseIdentifierFileEnds` | the language file, once |
| `CompileFile`, `AddUserDefinedIdentifier`, `GenerateIdentifiersFromConstantVariables` | a script declares functions and constants; a name is written behind the list before it is known whether it counts |
| `CleanUpDuringCompile` | the parser rejects the script |
| `InstallLoader`, `BeginGlobals`, `EndGlobals`, `ResolveLabels` | the stages of the walk that add or look up names of the compiler's own |
| `CleanUpAfterCompile` | the end of a script, or an error in any of these stages |

`ClearUserDefinedIdentifiers` is one step: it deletes each identifier from the
last to the first, and no two of these deletions concern one slot.

## 3 What is model-checked

| Run (`.cfg`) | Module | States | Question and answer |
|---|---|---|---|
| `nwsync_exclusive` | MCNwsync | 43 k | One writer at a time and never beside a prune, two prunes that may overlap, prunes killed anywhere: `PublishedComplete` (every published manifest has all of its data, whole), `OldOrphansReclaimed` (a prune leaves no orphan that was old enough), `AtRest` (`latest` and metadata are in order), `RunsEnd` (no run ever waits for another), the refinement `IsContentStore`, `TypeOK` (what a prune is about to delete is nothing it keeps). |
| `nwsync_race` | MCNwsync | 9.0 M | Everything overlaps, prunes and writers too, one writer may be killed anywhere. As long as no prune has run beside a writer (`mixed` is history): `PublishedPresent` (no data file of a published manifest is missing, though one may be truncated), and `AtRest`, if nobody was killed, although two writers truncate the same files. Afterwards data may get lost; `SoloRunComplete`: a writer run alone repairs its manifest, always with `-f`, without it unless a writer was killed. |
| `lru_cache` | MCLru | 6 k | Any sequence of calls with closures two deep: `Agreement` (list, map and total weight), `Bounded`, `EvictsLeastRecent`, the refinement `IsForgetfulMap`, `TypeOK` (the weight never goes negative, which `lru.nim` asserts). |
| `resman_lookups` | MCResMan | 2.3 M | Three directories added and deleted while files change during lookups: `TopmostFound` (the container added last wins if none was deleted), `NothingMissed`, `GetIsTotal` (`[]` neither raises nor crashes unless a file vanishes while it runs), `CacheTopmost` (the cache hides nothing if containers are set up first), `TypeOK`. |
| `scomp_run` | MCScriptComp | 41 k | Three scripts, two workers, two failing calls, `-y -g`: `ResolvedForItself` (each request is answered as if it were the only one), `NdbBelongs`, `ExitTellsAll` (no error means every script was dealt with and has its own artifacts), the refinement `IsPrivateBuild` (nothing is built with a source missing, nothing given up before an error is counted), `RunEnds`, `TypeOK` (one message under way per asking worker). |
| `scomp_order` | MCScriptComp | | Finding 1. |
| `tlkify_runs` | MCTlkify | 521 k | Two runs from every table of up to three entries, with two texts that differ in "\r" only: `TranslationsSaved` (a saved table has each text where modules were told, but for one entry), `SaveReadsNothing` (a save fails only for a table with blank or repeated entries), `TypeOK`. |
| `tlkify_merge` | MCTlkify | | Finding 2. |
| `native_scripts` | MCNative | 85 k | 208 scripts at the four optimization levels: 91 nests of while, do, for and switch with a break, continue or return in them, 19 chains of operators and the same folded, side effects in conditions, 10 uses of functions with recursion, closures and default arguments, includes, dead branches, and 55 token sequences that are no scripts. `Verdict`, `Meaning`, `Balanced`, `JumpsLand`, `LabelsApart`, `TreesApart`, `LinkerInput` (what the linker is given is what the theorems about it assume), `ScriptEnds`. |
| `native_clash` | MCNative | | Finding 3. |
| `identifiers` | MCIdentifiers | 335 k | Any number of scripts through one compiler, each failing anywhere or not at all: `LookupAgrees` (a search of the hash table answers what a search of the list would), `OnlyGlobalsStay` (nothing but an entry of `#globals` outlives its script), `TypeOK`. |
| `identifiers_globals` | MCIdentifiers | | Finding 4. |

### Bounds

| Bound | Value | Why it is enough |
|---|---|---|
| `MaxRuns` | 2 or 3 runs started | three: two that collide and one that follows; two where the question is whether two runs can block each other |
| `MaxCrashes` | 0 or 1 killed writer | one truncated file is all a second kill could add; kills of prunes are not bounded |
| `MaxRetired` | 0 or 1 | one deleted manifest makes orphans |
| `MaxTime`, `MinAge`, `RunLimit` | 1, 0, 1 | an orphan can be younger than, as old as, or older than the limit |
| `Entries` | two manifests, two contents, one shared and one under two names | sharing is what reuse and reference counting can get wrong |
| `MaxUses`, `MaxDepth` | 1 hit per entry, closures 2 deep | eviction never reads the counter; two levels suffice for a closure that stores the outer key |
| `Weight`, `MaxWeight`, `MinSize` | {1,2,4}, 3, 1 (cache); {0,2}, 1, 0 (ResMan) | entries that fit, fit exactly, and never fit; empty files weigh nothing |
| `MaxChanges` | 3 file changes | gone, back and gone again within one lookup |
| `MaxFailures` | 2 | both writes of a script, or one in each of two scripts |
| `Tables`, `Text` | three entries, three texts | a repeated text, a blank and the highest entry at once |
| `Plain` | one text becomes another (`tlkify_runs`), all stay (`tlkify_merge`) | two texts that a save makes one; finding 2 does not depend on "\r" |
| `Programs` | scripts of one to four functions, nests two deep (three with the function), small non-negative integers | a statement meets each other one inside and behind it; every branch of the grammar and of the three visits for integers is taken; no sum or product comes near 32 bits, so that the widths of the constants never matter |
| `Optimizations` | the sets of `-O0`, `-O1`, `-O2`, `-O3` | all that the driver offers |
| `MaxIncludeDepth` | 3 | root, include, include of an include, and one too many |
| `Size`, `Keyword`, `MaxIdentifiers`, `MCHash` | 8 slots, 4 of them keywords, 4 identifiers, 3 names | two names with one hash, three beginning at one slot, a keyword in the way, a search that wraps; the code has 131,072 slots and 65,536 identifiers, and neither list nor table is ever full in the model |

The runs of different questions use different bounds so that each finishes in
about two minutes. Deadlock is checked for `identifiers`, whose compiler always
takes another script, and not elsewhere (`CHECK_DEADLOCK FALSE`): programs
end, and the counters of the bounds run out; the liveness properties say that
nothing stops half way. Symmetry (writers, keys, containers, workers) is used
only for safety properties.

### Fairness

`nwsync_exclusive` and `scomp_run` assume weak fairness of each writer, prune,
worker, the service thread and the main thread: the operating system goes on
scheduling a thread that can run. Nothing else is fair: no kill, failing call,
new run or passing of time has to happen. In `ScriptComp` each turn of the
service loop is one fair action because the loop polls its channel for ever.
`native_scripts` assumes that `RunScript` is fair: the loop of `run` takes the
next instruction as long as there is one. That the compiler itself ends needs
no assumption, as each of its steps uses up a token or a stage.

## 4 Where the code does not do what it says

Four runs show a disagreement of the code with its own documentation; TLC
prints the behaviour.

1. `scomp_order`: "additional search path … for this request only" is not taken
   off without a trace. `ResMan.del` swaps with the last element
   (`resman.nim:341`), so with three or more base containers every request
   rotates them and later requests may find another file.
2. `tlkify_merge`: the first new text takes the reference of the last existing
   entry (`nwn_erf_tlkify.nim:197`, `69`), so a module of an earlier run, or the
   new one, shows the wrong text. In the behaviour that TLC prints, one run
   saves a table with its only text, and the next starts from that table and
   gives reference 0 to another text. With the first free reference one higher
   in `Start` the property holds. `TranslationsSaved` is the exact remainder of
   one run: everything but that one entry is right. Over any number of runs on a
   table without repeated texts, theorem `EntriesOutliveRuns` says the same: the
   last entry is all that a run may take from the modules before it.
3. `native_clash`: a loop or switch that is the first thing in the body of a
   `do` has the same identifier as the `do`, since both are called after the
   code offset they start at and a `do` emits nothing of its own
   (`scriptcompfinalcode.cpp:5771`; the comment at 5766 considers the case and
   calls it safe). Their break and continue labels are then the same and the
   first one wins. For example the `break` in `do { while (j < 1) j++;
   if (j == 1) break; } while (0);` jumps to the end of the inner `while`, and
   the script goes round for ever. The real compiler writes the same code.
4. `identifiers_globals`: a script whose global initialiser is rejected leaves
   `#globals` in the hash table, since it is added before the initialisers and
   counted behind them (`scriptcompfinalcode.cpp:1601`, `5254`). The next script
   with globals in the same compiler is reported as a success, but the loader's
   jump to its globals is resolved with the old entry. With the real compiler,
   a script of four functions and `int g = nope;`, and then one with `int g = 5;`
   and fewer functions, give code 0 and a jump to -1; if dead functions are to be
   removed the compiler ends in a failed allocation. `LookupAgrees` and `OnlyGlobalsStay`
   are the exact remainder: every other name is found and forgotten as it
   should be, and `#globals` too until the first such failure.

Noticed while modelling, without a run of their own:

- `latest` is written before the manifest it names (`libupdate.nim:263`,
  `266`); in between, and after a kill there, it leads nowhere. `AtRest` says
  when it is back in order. The log line 262 says "not creating" and then
  creates the file.
- `.origin` files stay when a prune removes the metadata of a deleted manifest.
- A truncated data file of a killed writer passes for stored data for ever,
  unless `-f` is given: this is why `PublishedPresent` and not
  `PublishedComplete` is checked with crashes, and the second half of
  `SoloRunComplete` needs `crashes = 0`.
- `ResDir.demand` returns nil when the file vanished after `contains`; a ResMan
  with a cache then dereferences it (the outcomes "nil" and "crash" of `Fetch`).
- `ResDir.count` counts names whose files are gone.
- A container added after a name was cached does not override it.
- Storing a key anew keeps its place in the LRU list; a heavier value may evict
  itself.
- With `-d`, scripts of one name in two directories overwrite each other's
  artifacts and both count as successes.
- `-y` goes on after compile errors, but an exception still aborts all files.
- A prune with `--min-age` may still delete fresh data: `pruneEmptyDirectories`
  sees an empty directory (`nwn_nwsync_prune.nim:136`), a writer puts a file into
  it, and `removeDir` deletes recursively (line 138). The help (lines 20-21) says
  "Do not prune data files that have been written within AGE seconds". The model
  has this step; what remains true is `SoloRunComplete`.
- The old `.ndb` that "would crash the game" is removed beside the source
  (`nwn_script_comp.nim:242-245`); with `-d` and without `-g` the artifacts go
  elsewhere and the stale one stays there. With `-s` it is removed although
  nothing is written in its place.
- `filterByMatch` (`private/shared.nim:168`) lists names first and calls `get` on
  each lookup, which raises for a file removed in between; `readAll`
  (`resman.nim:248`) reads as many bytes as the file had when it was found; an
  exception in the service thread (`nwn_script_comp.nim:173`) is caught nowhere.
- A run of tlkify that saves drops the sound of every entry with a text, and if
  it cannot read back an entry of a table with blanks or repeated texts the
  table is lost, since it was truncated first.
- A text with "\r" is not found again in the saved table, so every run gives it
  a new reference. Two texts that differ in "\r" only become repeated entries,
  and a later run assigns only the last: the other may have to be read back from
  the truncated file. This is why `EntriesOutliveRuns` assumes `SavedAsTheyAre`.
- A run stopped between writing its module (`nwn_erf_tlkify.nim:211`) and saving
  the table leaves a module with references that a later run gives to other
  texts.

Noticed in the native compiler and the test machine; the scripts of
`native_scripts` avoid these shapes:

- `do ; while (x);` makes the parser follow a null pointer
  (`scriptcompparsetree.cpp:2812`), as does the default argument `(-1)` in
  `AddUserDefinedIdentifier`.
- With melding, `int i; do { i = 3; … } while (…);` takes back code from before
  the `do`, whose start then lies inside an instruction.
- A call of a void function passes for the condition of if, while, for, do and
  `?:` if an integer is on the stack (`scriptcompfinalcode.cpp:3962`), and
  `x ? v() : w();` unbalances the stack.
- `void main();` in an include and its body in the script is "no main", since
  the level of the file is taken from the first declaration
  (`scriptcompparsetree.cpp:4486`).
- Dropping dead branches changes which scripts are accepted: `if (1) return 1;`
  is then a return on all branches, a `case` inside a dropped `if (0)` is an
  unknown state, and an undefined function called by a dropped function is no
  error.
- `continue` outside a loop is reported as an unresolved label. A cycle of
  includes is an error or not, depending on what the first file had before its
  include. Assignments do not chain.
- `const int A = 1, A = 2;` is accepted and the first value counts, since the
  lexer saw both names before either was added.
- The test machine saves the base pointer before the code generator expects it
  to, so several initialised globals are read from the wrong places, and shifts
  unsigned with a signed shift.
- A second language for the same compiler deletes the list of identifiers and
  keeps the pointer (`scriptcompcore.cpp:1073`).

## 5 What is proved

TLAPS checks these for every value of the constants (any number of processes,
manifests, contents, keys, weights, texts, any bound; scripts, workers, names;
for the linker and the code buffer, code of any length).

| Module | Theorem | Statement |
|---|---|---|
| NwsyncProofs | `TypeCorrect` | `Spec => []TypeOK` |
| | `ExclusiveComplete` | `Exclusive => (Spec => []PublishedComplete)` with `Exclusive == Overlap \subseteq {{"prune"}} /\ MaxCrashes = 0` |
| | `OrphansReclaimed` | `Spec => []OldOrphansReclaimed` |
| | `PublishedStaysPresent` | `Spec => []PublishedPresent` |
| | `NothingDangles` | `Spec => []AtRest` |
| | `SoloRunRepairs` | `Spec => SoloRunComplete` |
| | `KeepsStore` | `KindsApart => (Spec => IsContentStore)` with `KindsApart == {"write", "prune"} \notin Overlap` |
| | `KeepsWholeStore` | `Exclusive => (Spec => WholeStore!Spec)`: the same with whole contents |
| | `RunsOnlyShorten` | `Spec => [][RunsShorten]_vars` |
| | `WritersMayStep` | `Spec => [](\A w \in Writer : writer[w].pc # "idle" => WriterMayStep(w))` |
| WeightedLRUProofs | `TypeCorrect` | `Spec => []TypeOK` |
| | `AgreesAlways` | `Spec => []Agreement` |
| | `BoundedAlways` | `Spec => []Bounded` |
| | `EvictsInOrder` | `Spec => EvictsLeastRecent` |
| | `Implements` | `Spec => IsForgetfulMap`: the cache implements `ForgetfulMap` |
| ResManProofs | `TypeCorrect` | `Spec => []TypeOK` |
| | `GetAlwaysTotal` | `Spec => []GetIsTotal` |
| | `CacheHidesNothing` | `Spec => []CacheTopmost` |
| | `FindsTopmost` | `Spec => TopmostFound` |
| | `MissesNothing` | `Spec => NothingMissed` |
| ScriptCompProofs | `TypeCorrect` | `Spec => []TypeOK` |
| | `ResolvedAlone` | `Len(Base) <= 2 \/ BaseApart => (Spec => []ResolvedForItself)` |
| | `DebugFilesBelong` | `WrittenBeside => (Spec => []NdbBelongs)` |
| | `ExitTells` | `PlacesApart => (Spec => []ExitTellsAll)` |
| | `PrivatelyBuilt` | `Spec => IsPrivateBuild`: the driver implements `ScriptBuild` |
| | `EveryStepLeadsOn` | `Spec => [][LeadsOn]_vars` |
| | `LeftIsNumber` | `Spec => [](\A w \in Worker : Left(w) \in Nat)` |
| | `SomebodyMayStep` | `Worker # {} => (Spec => []` (finished, or a request waits, or all is done, or `\E w : MayStep(w)`)`)` |
| TlkifyProofs | `TypeCorrect` | `Spec => []TypeOK` |
| | `SavedAsTranslated` | `Spec => TranslationsSaved` |
| | `NothingReadBack` | `Spec => SaveReadsNothing` |
| | `EntriesOutliveRuns` | `StartsApart /\ SavedAsTheyAre => (Spec => [](status = "whole" /\ Before(tlk, r, t) => [](status = "whole" => Before(tlk, r, t))))` |
| NativeProofs | `TypeCorrect` | `Spec => []TypeOK` |
| | `LookupsAgree` | `Spec => []LookupAgrees` |
| | `NothingElseStays` | `Spec => []OnlyGlobalsStay` |
| | `GlobalsFoundBeforeFailure` | `Spec => [](~leaked => GlobalsFound)` |
| | `JumpsReachTheirLabels` | `Linkable(g) /\ Resolved(g) =>` the binary has the kept instructions where their functions went, and each jump leads to where the first label that answers it went |
| | `LinkedJumpsLand` | `Linkable(g) /\ Resolved(g) => Lands(WriteResolvedOutput(ResolveLabels(g)))` |
| | `CodeStaysInOrder` | `InOrder` holds of the empty code, and each operation of `CodeBuffer` preserves it |

`LruCacheProofs` and `ContainerListProofs` have no specification of their own:
they are lemmas about the operators of `LruCache` and `ContainerList`, used by
the modules above.

*ExclusiveComplete.* `PublishedComplete` is not inductive: that a manifest is
complete when it is published depends on what the writer has been through.
`ExclusiveInv` adds that only the file being filled is truncated
(`OnlyCurrentPartial`), that all a writer took for stored or has passed is whole
(`WriterSecured`), that a prune's `keep` covers every published manifest
(`PrunerHarmless`), and that a running writer is alone. That nothing a prune
deletes is in its `keep` is part of its state's type (`PrunerState`). The last part is why the assumption is needed: with overlap, a manifest
may be published after `keep` was collected, and the theorems that follow say
what remains true then.

*The other NWSync theorems* allow any overlap and any kill. They share lemmas
that say what each system call does to its own process (`…Effect`) and what it
leaves of the others (`WriterFrame`, `PrunerFrame`).
`OrphansReclaimed`: `ReclaimInv` says that the clock is past every time taken
from it, and that each file a pruner did not keep is too young, still ahead of
it, or the one it is about to remove; a file that is written meanwhile is too
young for a `stamp` taken before.
`PublishedStaysPresent`: `PresentInv` is `ExclusiveInv` with presence in place
of wholeness, which survives kills, and holds while `mixed` is false; writers and
prunes are then apart.
`NothingDangles`: `AttendedInv` says who is still going to repair what is not
in order. A truncated file has a writer with a live handle on it, and a writer
that truncates it under another one takes that role over; `latest` without a
manifest has a writer about to write it; a manifest without metadata has one
about to write those; no prune is about to remove metadata that are not
dangling.
`SoloRunRepairs`: `SoloInv` is about the writer that nobody joined: no handle of
another process is left on the file it fills, so that what it closes is whole.
`KeepsStore`: by `PresentInv`, and since `KindsApart` keeps `mixed` false, each
step is a move of `ContentStore` or none. Only presence is claimed, since a
killed writer leaves truncated files; but kills and overlapping writers are
allowed, and prunes may overlap prunes. The
assumption is what the operator has to see to; TLC shows in `nwsync_exclusive`
that it can be met with something happening.
`KeepsWholeStore` is the same store with `stored` the contents that are
`Settled`: whole, or being filled at this moment by a writer that has the file
open. Under `Exclusive` a truncated file always has such a writer
(`OnlyCurrentPartial`), so the two stores are one (`StoredIsWhole`).

*That runs end* is liveness, which stays with TLC; what is proved is what the
argument for it rests on. A fair process comes to its end if each of its steps
brings it closer, no step of another moves it back, and it is never without a
step. For NWSync the first two are `RunsOnlyShorten`: an order on the local
states (a later part of the program, or a smaller set of what was listed) that
steps of the process descend and all others leave alone, although prunes delete
the directories that writers have just made and writers add to what prunes
have listed. `WritersMayStep` is the third for writers, with the invariant that
a writer at work on a file has a handle for it; a prune's actions cover every
value of its `pc`, so there it is plain. For `ScriptComp`, `LeadsOn` says that
each step takes one from `Left`, the number of steps a worker's file may still
need (counting the service's answers to it), or begins one of the files, or
ends the program; with `LeftIsNumber` no behaviour goes on for ever.
`SomebodyMayStep` says that none stops early: a worker that waits has its
message in one of the two channels. Of this argument, that the sets are finite
is an assumption on the constants, that `WriterMayStep` and `MayStep` are the
`ENABLED` conditions of the actions was confirmed by TLC on the instances of
section 3 only, and the last step, from these facts and fairness to
`RunsEnd` and `RunEnds`, is not proved.

*The cache.* The invariant is `Sound`: the shape of the records, `Linked` (the
map has exactly the keys of the list and no key occurs twice), `Exact` (the
running total is the weight of the list), and the bound. Lemmas say what each
branch of the code does to list, map and total; those about the total are
inductions over the places of the list, which `IntervalInduction` states for a
set of numbers and proves from the library's theorem that the finite subsets of
an interval are well-founded. The
refinement maps `held` to the value of each key's node; every store, with its
eviction, is one `Store` of the abstract map. `EvictsInOrder` needs
`RecencyInv`: the list is in the order of last use, so that cutting it at the
end evicts what was used before all the rest. The lemmas state for each branch
which pairs of nodes keep their order (`Ahead`).

*ResMan.* `Typed` has that `containers` and the history `added` have the same
members, and are the same list until something is deleted: `del` swaps.
`WalkInv` is the loop invariant of the walk: no container behind it lists the
name. It survives what other programs do, since the directory objects only
forget names. `Finds` explains why `[]` is total: between `contains` and
`demand`, as long as no file is removed, some container ahead has the name and
its file. `CacheTopmost` needs that the cache is empty before the first lookup
and that a stored entry comes from a finished walk.

*ScriptComp.* `IInv` has four parts: the types (`Typed`); the messages
(`Requested`, `RequestedOnce`, `Answering`: a worker waits for exactly one
message, which is in the demand channel once or in its own); the files (each
has a fate, is queued, or is with one worker; after the end none is under way);
and the counters (each counts the files of its fate).
`ResolvedAlone` is an invariant of the service's list at rest: putting a search
path on and taking it off again changes nothing if the base has at most two
containers (`BaseInOrder`), and permutes it otherwise (`BaseComplete`), which
makes no difference if no name is in two of them (`BaseApart`). With three that
share a name it does: that is finding 1. How many there are is up to the options
(`newDefaultResMan`, `game.nim:155`): one per key file, plus two override
directories, plus what is asked for. `--no-keys` leaves two.
`DebugFilesBelong`: the step to remember is `Removed`: from the removal of the
old file to the end of the compile no old `.ndb` comes back beside the source.
`WrittenBeside` says that artifacts go where the old file is looked for, which
`-d` without `-g` breaks (section 4). `ExitTells` needs `Written`, and
`PlacesApart`, without which two scripts may write to one place (section 4).
`PrivatelyBuilt` has no hypothesis on the base list. Which file a name resolves
to may depend on what other workers had the service do, as finding 1 shows;
whether there is one does not, because between requests the list is a permutation
of the base (`BaseComplete`) and the search path that is put on it for a request is
that of the file (`SourcesInv`). `SourcesInv` goes on to say that each source of a file
under way is still wanted or can be found, so that a compile which has asked
for everything belongs to a file of `Whole`.

*Tlkify.* The invariant says that, after collecting, every text of the old
table is translated to its last place (`Recorded`), that no two texts share a
reference except the highest one of the old table, which at most one new text
takes (`Distinct`), that `latest` is above all that is given away
(`Translating`), and that what is written agrees with what is assigned
(`Writing`). `SaveReadsNothing` follows because an entry without an assigned
text was blank or was repeated further up. `EntriesOutliveRuns` looks beyond one
run: a table without repeated texts is saved as one (`ApartInv`), as `Distinct`
keeps the references of its texts apart, and an entry before the last is found,
translated to where it is, and written there again (`Stays`). Its hypothesis
`StartsApart` is about the first table only. `SavedAsTheyAre` says that no text
has a "\r": a text with one is written without it, and if that makes it the text
of another entry, the table has a repeated text after all. `TranslationsSaved`
and `SaveReadsNothing`, which are about one run, need neither. A save that fails
ends the claim, since then there is no table.

*LookupsAgree.* Deletion empties a slot and moves nothing up, so a search may
stop before the entry it looks for. That it does not is not a property of any
one operation: the invariant `IInv` says that each entry is that of a listed
identifier or a `#globals` left behind (`EntryInv`), that no identifier has two
(`SingleInv`), that no name is listed twice (`ListInv`), and that the way to
each entry has no gap (`ReachInv`), and for an identifier of the language leads
only past keywords and other identifiers of the language, which are never
deleted. All of a script's own entries go at once, so no way is left that
could have led past them. The assumption that no other name has the hash of
`#globals` is used for the entries left behind only.

*The linker.* Jumps are noted with the addresses code has in the buffer; then
whole functions are dropped and the others moved, each by its own distance.
`JumpsReachTheirLabels` says that this comes out right for every code, provided
the code is `Linkable`: instructions do not overlap and each is part of exactly
one function, every query stands at a jump and the labels that answer it at
instructions of the function it asks for, and the functions that are kept do
not overlap where they go and need no function that is dropped. `Linkable` is
what the code generator owes, and TLC checks it as `LinkerInput` for each of the
208 scripts at each level, so the hypothesis is met by code the compiler makes.
The proof: addresses of kept instructions are distinct after moving
(two of one function keep their distance, two of different functions are in
disjoint ranges), so each address of the binary has one instruction, and
the length put into a jump is the difference of two places that both moved as
their functions did. `LinkedJumpsLand` is its corollary in the words of
`JumpsLand`. `Resolved` says that no label was missing, which the code reports
as an error.

*The code buffer.* Part of what `Linkable` asks is proved to be kept as code is
written: `InOrder` says that instructions follow each other without overlap up
to the end of the code, and that there is a jump at each query. The hard case is
melding, which takes the last three instructions back and puts one in their
place. `EmitModifyStackPointer` tells them by their operations, none of which is a jump,
so no query stands at them. Instructions that are changed
afterwards (`Replaceable`) keep their length, and a jump stays one.
`CodeStaysInOrder` is about single operations: that the three visits compose
only these is read off `CodeExpressions`, `CodeStatements` and `CodeGen`, whose
recursion over the tree the prover does not take.

Assumed are, besides the hypotheses named in the table, only the named
assumptions on constants (`ConstantsAssumption` of two modules, `LruAssumption`,
`UseAssumption`, `ResManAssumption`, `ScriptCompAssumption`, `TlkifyAssumption`),
which TLC evaluates for the instances of section 3.

Every safety and action property of the passing runs is the conclusion of a
theorem but those of `native_scripts`. Left to TLC are:

- liveness (`RunsEnd`, `RunEnds`, `ScriptEnds`), which TLAPS does not reach; of
  the first two, what single steps contribute is proved, as said above;
- the native pipeline (`Verdict`, `Meaning`, `Balanced`, `JumpsLand`,
  `LabelsApart`, `TreesApart`, `LinkerInput`): these are invariants of
  `NativeCompiler`, whose parser and code generator are recursive over trees.
  What they compute for every script would need induction over syntax, and the
  prover does not take recursive operators. `JumpsLand` is the nearest to being
  proved: by `LinkedJumpsLand` it follows from `LinkerInput`. Induction over
  numbers is possible for recursive functions, as in the cache's total, not
  over trees.

## 6 What is abstracted, and what is left out

- *NwsyncRepository.* The two levels of the hash tree are one set of leaf
  directories. Contents are their hashes; compression, limits, `module.ifo` and
  the choice of resources are settled before a run. Manifests are loaded in one
  step at the start of a prune: a manifest published during the loading is one
  published after it. A truncated file is `partial` whatever it has by then; a
  filled one may still be partial if two writers had it open, since what their
  buffers leave is not defined. Time has the resolution of the age limit.
  `--dry-run` and read-only tools change nothing and are left out.
- *ResMan.* File contents are not modelled, only existence and size; containers
  are directories, since others do not change under it. `Res.readAll` with a
  size from earlier is a hazard without a property so far.
- *ScriptComp.* Sources do not change during a run. What a compiler asks for is
  flattened to a list per script. `-o`, a missing language specification, an
  exception in the service thread, and empty source files (answered like missing
  ones) are not modelled.
- *Tlkify.* Texts are numbers in the order of the CritBitTree. No sounds and
  no encodings; of what a save does to a text only that it may become another
  one (`Plain`); tables without any entry are not generated. What is
  cut out of a file under rewriting is any text.
- *Native compiler.* Tokens come ready-made, without the lexer. The only types
  are int, void and action. Left out are strings, floats, objects, structures,
  vectors, constants, several or initialised globals, `>>>`, the debugger's
  output, the reading of the language file, and the texts of errors: an error is
  that the script is rejected. The shapes listed in section 4 are not generated,
  nor are numbers near the limits of an integer or negative operands of bit
  operators. Node blocks, string copies and their release are the heap's.
- *IdentifierTable.* Names, not what they stand for; a function declared anew
  with another signature goes on like one that is known, since its script is
  only rejected earlier. One language file per compiler, free of errors; two
  constants of one name in one declaration, a full list and a full table are
  outside of the model.
- *Not modelled* and why, per component: `PROJECT.json`, "components". Option parsing and formatting have no state; zstd is third-party code.

## 7 Plan

In this order; the first group extends what is there, the second adds parts.

1. Proofs: that `LaidOut`, `Targeted` and `KeptApart` hold of what
   `DetermineLocationOfCode` and the visits leave, beyond what `CodeStaysInOrder`
   has of them; this needs the visits as functions over an order on the nodes of
   a tree. `RunsEnd` and `RunEnds` in full, if the prover comes to take `ENABLED`.
2. ScriptComp: empty sources and exceptions of the service thread in the model.
3. ResMan: sizes that are stale when `readAll` uses them; ERF and KEY containers.
4. Native compiler: strings and structures, which have other sizes on the
   stack; constants; initialised globals, with a machine that follows the code
   generator's idea of the base pointer; the lexer; `IdentifierTable` composed
   with the pipeline, one script after another.
5. Formats as operators with bounded round trips: KEY/BIF resource identifiers
   (20 and 12 bits), ERF offsets, NWSync manifests with their mapped entries
   (`nwsync.nim` `readManifest`, `writeManifest`), GFF's shared arrays and lazy
   `resolve`.
6. Network queries: a UDP `ask` with loss, duplication and a late answer.
