----------------------------- MODULE CodeBuffer -----------------------------
(***************************************************************************)
(* What the code generator of the native compiler writes                   *)
(* (scriptcompfinalcode.cpp): instructions at byte offsets, the labels and  *)
(* the queries that will be matched with them, and the variables it        *)
(* believes to be on the run-time stack.  A generator state is a record     *)
(*   heap      the parse tree                                              *)
(*   ids       m_pcIdentifierList, with the code each function has          *)
(*   opt       m_nOptimizationFlags                                        *)
(*   code, len the instructions [at, op, a, b] and m_nOutputCodeLength      *)
(*   vars, depth, level      m_pcVarStackList, m_nStackCurrentDepth and     *)
(*             m_nVarStackRecursionLevel                                   *)
(*   nglobals, gsize, inglob the global variables, their size, and          *)
(*             m_bGlobalVariableDefinition                                 *)
(*   declaring whether m_nVarStackVariableType is a type                    *)
(*   assigning m_bAssignmentToVariable                                     *)
(*   imp, fn, abort  the function being written and the depth it returns at *)
(*   loop, switch    the innermost loop and switch                         *)
(*   labels, queries the symbol lists                                      *)
(*   size      m_nFinalBinarySize                                          *)
(*   status    "generating" or "rejected"                                  *)
(***************************************************************************)
EXTENDS ParseTree

\* CVIRTUALMACHINE_BINARY_SCRIPT_HEADER.
Header == 13

Length(op) ==
  CASE op \in {"CONST", "MOVSP", "JMP", "JSR", "JZ", "JNZ", "INC", "DEC", "INCB", "DECB"} -> 6
    [] op \in {"ASSIGN", "ASSIGNB", "COPY", "COPYB"} -> 8
    [] op = "STORE_STATE" -> 10
    [] op = "EXECUTE_COMMAND" -> 5
    [] OTHER -> 2

Generator(heap, ids, opt) ==
  [heap |-> heap, opt |-> opt, code |-> <<>>, len |-> Header, vars |-> <<>>, depth |-> 0,
   ids |-> [i \in DOMAIN ids |-> ids[i] @@ [start |-> -1, finish |-> -1, dest |-> -1]],
   level |-> 0, nglobals |-> 0, gsize |-> 0, inglob |-> FALSE, declaring |-> FALSE,
   assigning |-> FALSE, imp |-> FALSE, fn |-> 0, abort |-> 0,
   loop |-> [id |-> 0, depth |-> 0], switch |-> [id |-> 0, depth |-> 0],
   labels |-> <<>>, queries |-> <<>>, size |-> Header, status |-> "generating"]

Reject(g) == [g EXCEPT !.status = "rejected"]
\* The generator goes on with next if ok, and reports an error otherwise.
Require(g, ok, next) == IF ok THEN next ELSE Reject(g)

EmitInstruction(g, op, a, b) ==
  [g EXCEPT !.code = Append(@, [at |-> g.len, op |-> op, a |-> a, b |-> b]),
            !.len = @ + Length(op)]

\* An instruction that was left open is filled in.
Rewrite(g, at, op, a) ==
  [g EXCEPT !.code = [i \in DOMAIN @ |->
     IF @[i].at = at THEN [@[i] EXCEPT !.op = op, !.a = a] ELSE @[i]]]

\* The jump left open at an offset goes to the end of the code.
JumpHere(g, at, op) == Rewrite(g, at, op, g.len - at)

\* InstructionLookback.
Back(g, n) == g.code[Len(g.code) + 1 - n]

\* mutant: the constant stays where it was.
MeldedInPlace(g) ==
  LET constant == Back(g, 2)
  IN [g EXCEPT !.code = SubSeq(@, 1, Len(@) - 3) \o <<constant>>,
               !.len = constant.at + Length("CONST")]

\* A constant in place of a new variable, a constant and its assignment.
Melded(g) ==
  LET constant == Back(g, 2)
      variable == Back(g, 3)
  IN [g EXCEPT !.code = SubSeq(@, 1, Len(@) - 3)
                          \o <<[constant EXCEPT !.at = variable.at]>>,
               !.len = variable.at + Length("CONST")]

EmitModifyStackPointer(g, amount) ==
  IF /\ "MELD_INSTRUCTIONS" \in g.opt
     /\ Len(g.code) > 2
     /\ Back(g, 1).op = "ASSIGN" /\ Back(g, 1).a = -8
     /\ Back(g, 2).op = "CONST" /\ Back(g, 3).op = "RSADD"
  THEN Melded(g)
  ELSE EmitInstruction(g, "MOVSP", amount, 0)

\* The stack goes to a depth; nothing is written when it is there.
PopTo(g, depth) ==
  IF g.depth = depth THEN g ELSE EmitModifyStackPointer(g, (depth - g.depth) * 4)

AddSymbolToLabelList(g, type, one, two) ==
  [g EXCEPT !.labels = Append(@, [type |-> type, one |-> one, two |-> two, at |-> g.len])]

\* A jump whose target is a label that may not exist yet.
AddSymbolToQueryList(g, op, type, one, two) ==
  EmitInstruction(
    [g EXCEPT !.queries = Append(@, [type |-> type, one |-> one, two |-> two, at |-> g.len])],
    op, 0, 0)

Deeper(g, n) == [g EXCEPT !.depth = @ + n]

\* A name for what lies on top of the stack, or will.
NameVariable(g, name, depth) ==
  [g EXCEPT !.vars = Append(@, [id |-> name, at |-> depth * 4, level |-> g.level])]

AddVariableToStack(g, emit) ==
  Deeper(IF emit THEN EmitInstruction(g, "RSADD", 0, 0) ELSE g, 1)

GetIdentifierByName(g, name) ==
  LET named == {i \in DOMAIN g.ids : g.ids[i].fn /\ g.ids[i].name = name}
  IN IF named = {} THEN NULL ELSE CHOOSE i \in named : TRUE

UserDefined(g, i) == g.ids[i].n = -1

\* A function that the compiler writes itself.
Routine(name, start) ==
  [name |-> name, fn |-> TRUE, ret |-> "void", params |-> <<>>, defaults |-> <<>>,
   impl |-> TRUE, n |-> -1, top |-> FALSE, start |-> start, finish |-> -1, dest |-> -1]
=============================================================================
