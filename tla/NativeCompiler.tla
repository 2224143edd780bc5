--------------------------- MODULE NativeCompiler ---------------------------
(***************************************************************************)
(* The native compiler from the tokens of a script to what the script does *)
(* (CScriptCompiler::CompileFile and the test runner truntestvm.nim): the   *)
(* parser takes one token per step, the code is generated with one of the   *)
(* sets of optimizations, the labels are resolved, and the virtual machine  *)
(* carries the code out.                                                   *)
(***************************************************************************)
EXTENDS UnitGrammar, Linker, ScriptVm

CONSTANTS
  Programs,      \* a sequence of scripts [src, root, valid, out, fails]: src as in
                 \* ParseTree, whether it is a script, and what that takes and if
                 \* it fails
  Language,      \* the identifiers of the language file
  Optimizations  \* the sets of optimization flags

VARIABLES
  script,  \* the number of the program that is compiled, and its valid, out and fails
  phase,   \* "parsing", "generating", "linking", "running", "rejected", "crashed"
  opt,     \* the optimizations that were chosen
  parser,  \* the parser state, until the code is generated
  gen      \* the generator state, until the code is linked

vars == <<script, phase, opt, parser, gen, vmVars>>

Init ==
  /\ \E n \in DOMAIN Programs :
       /\ script = [n |-> n, valid |-> Programs[n].valid, out |-> Programs[n].out,
                    fails |-> Programs[n].fails]
       /\ parser = Parser(Programs[n].root, Programs[n].src, Language)
  /\ phase = "parsing"
  /\ opt = {}
  /\ gen = Nothing
  /\ VmOff

ParseSource ==
  /\ phase = "parsing"
  /\ parser' = ParseToken(parser)
  /\ phase' = IF parser'.status = "parsed" THEN "generating" ELSE parser'.status
  /\ UNCHANGED <<script, opt, gen, vmVars>>

GenerateFinalCode ==
  /\ phase = "generating"
  /\ opt' \in Optimizations
  /\ gen' = GenerateCode(parser, opt')
  /\ phase' = IF Generating(gen') THEN "linking" ELSE "rejected"
  /\ parser' = Nothing
  /\ UNCHANGED <<script, vmVars>>

\* The rest of GenerateFinalCodeFromParseTree; the binary is run at once.
LinkFinalCode ==
  /\ phase = "linking"
  /\ \E linked \in {ResolveLabels(DetermineLocationOfCode(gen))} :
       IF Generating(linked)
       THEN phase' = "running" /\ StartScript(WriteResolvedOutput(linked))
       ELSE phase' = "rejected" /\ UNCHANGED vmVars
  /\ gen' = Nothing
  /\ UNCHANGED <<script, opt, parser>>

RunScript ==
  /\ phase = "running"
  /\ VmStep
  /\ UNCHANGED <<script, phase, opt, parser, gen>>

Next == ParseSource \/ GenerateFinalCode \/ LinkFinalCode \/ RunScript

Spec == Init /\ [][Next]_vars

\* run does not stop while the script has an instruction.
FairSpec == Spec /\ WF_vars(RunScript)

-----------------------------------------------------------------------------

(* What has to hold of the scripts in Programs.                            *)

\* The compiler takes exactly the scripts that are ones, with every set of
\* optimizations, and crashes on none.  Its checks are spread over the parser, the
\* three visits of the code generator and the linker, and the optimizations throw
\* away what some of them look at.
Verdict ==
  /\ phase # "crashed"
  /\ phase = "rejected" => ~script.valid
  /\ phase = "running" => script.valid

\* A compiled script does what it means: the integers it hands to TakeInt are at
\* all times the first of those that its syntax tree says, all of them if it
\* halts, and it fails only where it has to.  The stack that the generator keeps
\* book of, the order of its three visits, the labels it writes down and the
\* optimizations all have to agree for that.
Meaning ==
  phase = "running" =>
    /\ IsPrefix(out, script.out)
    /\ vm = "halted" => out = script.out /\ ~script.fails
    /\ vm = "trapped" => out = script.out /\ script.fails

\* Whichever way a script takes out of its blocks, loops and functions, nothing is
\* left on the stack at the end and no more was taken off than was put there.
Balanced == vm = "halted" => stack = <<>> /\ ret = <<>> /\ bp = 0

\* Every jump and call of a binary leads to the first byte of an instruction,
\* although code that was emitted already is withdrawn again (dead branches, dead
\* functions, melded instructions) and the functions change their places when
\* they are linked.
JumpsLand == Lands(binary)

\* The nodes that hang below a node.
Below(heap, node) == {heap[node].l, heap[node].r} \ {NULL}

\* No node of a finished tree hangs in two places.  A compound assignment, for one,
\* has its left side twice: the tree is deleted and its code generated once per
\* place it hangs in.
TreesApart ==
  phase = "generating" =>
    \A node, other \in DOMAIN parser.heap :
      node # other => Below(parser.heap, node) \cap Below(parser.heap, other) = {}

\* The name of a label says which loop, switch or function it belongs to: no jump
\* that waits for its target finds two of them.
LabelsApart ==
  phase = "linking" => \A k \in DOMAIN gen.queries : Cardinality(Answers(gen, gen.queries[k])) <= 1

\* What the linker gets is code that it can link: functions that do not overlap,
\* each of whole instructions, every label at the beginning of one in the function
\* that its jumps look for it in, and no function that is kept without one it calls.
LinkerInput == phase = "linking" => Linkable(DetermineLocationOfCode(gen))

\* Every script of Programs ends, and so does each of its binaries.
ScriptEnds == phase = "running" ~> vm \in {"halted", "trapped"}
=============================================================================
