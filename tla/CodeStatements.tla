--------------------------- MODULE CodeStatements ---------------------------
(***************************************************************************)
(* What the code generator does at the nodes of statements, loops, switches *)
(* and functions.                                                          *)
(***************************************************************************)
EXTENDS CodeExpressions, TreeFolding

IsDeclaration(g, node) ==
  \/ Op(g, node) = "KEYWORD_DECLARATION"
  \/ /\ Op(g, node) = "STATEMENT_LIST"
     /\ Op(g, Left(g, Left(g, node))) = "KEYWORD_DECLARATION"

\* A statement leaves nothing on the stack but the variables it declares.
EndStatement(g, node) ==
  LET left == Left(g, node)
      popped == [PopTo(g, g.heap[node].sp) EXCEPT !.depth = g.heap[node].sp]
  IN IF left # NULL /\ IsDeclaration(g, left) THEN g ELSE popped

StartCompound(g, node) == [StartExpression(g, node) EXCEPT !.level = @ + 1]

\* The variables of the innermost level are the last ones.
EndCompound(g, node) ==
  LET kept == SelectSeq(g.vars, LAMBDA v : v.level # g.level)
      depth == g.depth - (Len(g.vars) - Len(kept))
  IN Require(g, depth = g.heap[node].sp,
             [PopTo(g, depth) EXCEPT !.vars = kept, !.depth = depth, !.level = @ - 1])

StartDeclaration(g) == [g EXCEPT !.declaring = TRUE]
EndDeclaration(g, node) == [g EXCEPT !.declaring = FALSE]

\* The else branch starts with an instruction that does nothing.
ElseBranch(g, node) ==
  LET skipping == EmitInstruction([g EXCEPT !.heap[node].pos = g.len], "JMP", 0, 0)
      reached == JumpHere(skipping, g.heap[node].n, "JZ")
  IN IF Right(g, node) = NULL THEN reached ELSE EmitInstruction(reached, "NOP", 0, 0)

EndIf(g, node) == JumpHere(g, g.heap[node].pos, "JMP")

\* mutant: the name of a loop is the depth of the stack at its beginning.
StartLoopByDepth(g, node) ==
  [g EXCEPT !.heap[node].outer = g.loop, !.heap[node].n = g.len,
            !.loop = [id |-> g.depth, depth |-> g.depth]]

\* The name of a loop is the place where its code begins.
StartLoop(g, node) ==
  [g EXCEPT !.heap[node].outer = g.loop, !.heap[node].n = g.len,
            !.loop = [id |-> g.len, depth |-> g.depth]]

LeaveLoop(g, node) ==
  [AddSymbolToLabelList(g, "BREAK", g.loop.id, 0) EXCEPT !.loop = g.heap[node].outer]

TestLoop(g, node) ==
  Require(g, IntegerOnTop(g),
          Deeper(EmitInstruction([g EXCEPT !.heap[node].pos = g.len], "JZ", 0, 0), -1))

EndWhile(g, node) ==
  LET repeated == EmitInstruction(g, "JMP", g.heap[node].n - g.len, 0)
  IN LeaveLoop(JumpHere(repeated, g.heap[node].pos, "JZ"), node)

\* Where continue goes to.
ContinueLabel(g) == AddSymbolToLabelList(g, "CONTINUE", g.loop.id, 0)

EndDo(g, node) ==
  LET tested == Deeper(EmitInstruction(g, "JZ", 12, 0), -1)
      repeated == EmitInstruction(tested, "JMP", g.heap[node].n - tested.len, 0)
  IN Require(g, IntegerOnTop(g), LeaveLoop(repeated, node))

\* mutant: the variables of the block that is left stay on the stack.
EmitBreakKeeping(g) ==
  LET id == Max({g.switch.id, g.loop.id})
  IN Require(g, id # 0, AddSymbolToQueryList(g, "JMP", "BREAK", id, 0))

\* The innermost of loop and switch is the one that began later; a switch keeps
\* its value on the stack.
EmitBreak(g) ==
  LET id == Max({g.switch.id, g.loop.id})
      depth == IF id = g.switch.id THEN g.switch.depth + 1 ELSE g.loop.depth
  IN Require(g, id # 0, AddSymbolToQueryList(PopTo(g, depth), "JMP", "BREAK", id, 0))

\* mutant: continue goes back to the test and leaves out the step of a for.
EmitContinueToTest(g) ==
  LET popped == PopTo(g, g.loop.depth)
  IN EmitInstruction(popped, "JMP", g.loop.id - popped.len, 0)

EmitContinue(g) ==
  AddSymbolToQueryList(PopTo(g, g.loop.depth), "JMP", "CONTINUE", g.loop.id, 0)

StartSwitch(g, node) ==
  [g EXCEPT !.heap[node].outer = g.switch, !.switch = [id |-> g.len, depth |-> g.depth]]

\* The value stays on the stack, under a name of its own.
SwitchValue(g, node) == Require(g, IntegerOnTop(g), NameVariable(g, "#switcheval", g.depth - 1))

EndSwitch(g, node) ==
  [AddSymbolToLabelList(g, "BREAK", g.switch.id, 0)
     EXCEPT !.vars = Front(@), !.switch = g.heap[node].outer]

CaseIsConstant(g, node) == Op(g, Left(g, node)) = "CONSTANT_INTEGER"
CaseValue(g, node) == g.heap[Left(g, node)].n

\* mutant: a label may stand behind a declaration.
CaseLabelAnywhere(g, node) ==
  LET folded == ConstantFoldNode(g, Left(g, node))
  IN Require(g, CaseIsConstant(folded, node),
             AddSymbolToLabelList(folded, "SWITCH_CASE", CaseValue(folded, node), g.switch.id))

\* Nothing may have been declared between the switch and the label.
CaseLabel(g, node) ==
  LET folded == ConstantFoldNode(g, Left(g, node))
  IN Require(g, CaseIsConstant(folded, node) /\ g.switch.depth + 1 = g.depth,
             AddSymbolToLabelList(folded, "SWITCH_CASE", CaseValue(folded, node), g.switch.id))

DefaultLabel(g) ==
  Require(g, g.switch.depth + 1 = g.depth,
          AddSymbolToLabelList(g, "SWITCH_DEFAULT", g.switch.id, 0))

RECURSIVE SwitchLabels(_, _)
\* The case and default nodes of a switch, in order; those of a switch inside are
\* not its own.
SwitchLabels(g, node) ==
  IF node = NULL THEN <<>>
  ELSE IF Op(g, node) = "SWITCH_BLOCK" THEN <<>>
  ELSE SwitchLabels(g, Left(g, node))
         \o (IF Op(g, node) \in {"CASE", "DEFAULT"} THEN <<node>> ELSE <<>>)
         \o SwitchLabels(g, Right(g, node))

RECURSIVE TestCases(_, _)
\* Each case compares a copy of the value.
TestCases(g, values) ==
  IF values = <<>> THEN g
  ELSE LET copied == EmitInstruction(g, "COPY", -4, 4)
           constant == EmitInstruction(copied, "CONST", Head(values), 0)
           compared == EmitInstruction(constant, "EQUAL", 0, 0)
       IN TestCases(AddSymbolToQueryList(compared, "JNZ", "SWITCH_CASE", Head(values),
                                         g.switch.id),
                    Tail(values))

\* The switch with the constants of its cases folded.
FoldedCases(g, cases) ==
  FoldLeft(LAMBDA folded, case : ConstantFoldNode(folded, Left(folded, case)), g, cases)

\* GenerateCodeForSwitchLabels.
TestLabels(g, node) ==
  LET labels == SwitchLabels(g, Right(g, node))
      cases == SelectSeq(labels, LAMBDA n : Op(g, n) = "CASE")
      folded == FoldedCases(g, cases)
      values == [i \in DOMAIN cases |-> CaseValue(folded, cases[i])]
      defaults == Len(labels) - Len(cases)
  IN Require(g, /\ \A i \in DOMAIN cases : CaseIsConstant(folded, cases[i])
                /\ defaults <= 1
                /\ IsInjective(values),
             AddSymbolToQueryList(TestCases(folded, values), "JMP",
                                  IF defaults = 1 THEN "SWITCH_DEFAULT" ELSE "BREAK",
                                  g.switch.id, 0))

\* A prototype has no body and makes no code.
StartFunction(g, node) ==
  LET name == g.heap[Left(g, Left(g, node))].id
      i == GetIdentifierByName(g, name)
      begun == [g EXCEPT !.imp = TRUE, !.fn = i, !.level = @ + 1, !.ids[i].start = g.len]
      entry == AddSymbolToLabelList(begun, "FUNCTION_ENTRY", i, 0)
  IN IF Right(g, node) = NULL THEN [g EXCEPT !.imp = FALSE]
     ELSE IF name = "main" THEN AddSymbolToLabelList(entry, "FUNCTION_ENTRY", 0, 2)
     ELSE entry

\* The caller has made the room for the result and pushed the parameters.
FunctionResult(g, node) ==
  LET named == AddVariableToStack(NameVariable(g, "#retval", g.depth), FALSE)
  IN [IF g.imp /\ g.ids[g.fn].ret = "int" THEN named ELSE g EXCEPT !.declaring = FALSE]

FunctionParameter(g, node) ==
  LET name == g.heap[node].id
      taken == \E i \in DOMAIN g.vars : g.vars[i].id = name /\ g.vars[i].level = g.level
      quiet == [g EXCEPT !.declaring = FALSE]
  IN IF ~g.imp THEN quiet
     ELSE Require(g, ~taken, AddVariableToStack(NameVariable(quiet, name, g.depth), FALSE))

OpenFunction(g, node) ==
  IF g.imp THEN [g EXCEPT !.heap[node].sp = g.depth, !.abort = g.depth] ELSE g

\* The result goes to the bottom of the frame, and everything above the
\* parameters is popped.
EmitReturn(g, node) ==
  LET value == Right(g, node)
      typed == IF g.ids[g.fn].ret = "int" THEN value # NULL /\ TypeOf(g, value) = "int"
               ELSE value = NULL
      stored == IF value = NULL THEN g
                ELSE EmitInstruction(g, "ASSIGN", g.gsize - g.depth * 4, 4)
  IN Require(g, typed,
             [AddSymbolToQueryList(PopTo(stored, g.abort), "JMP", "FUNCTION_EXIT", g.fn, 0)
                EXCEPT !.depth = g.depth])

RECURSIVE FoundReturnStatementOnAllBranches(_, _)
FoundReturnStatementOnAllBranches(g, node) ==
  LET Found(tree) == FoundReturnStatementOnAllBranches(g, tree)
  IN CASE node = NULL -> FALSE
       [] node # NULL /\ Op(g, node) = "RETURN" -> TRUE
       [] node # NULL /\ Op(g, node) = "IF_CHOICE" ->
            Found(Left(g, node)) /\ Found(Right(g, node))
       [] node # NULL /\ Op(g, node) \in {"COMPOUND_STATEMENT", "STATEMENT",
                                         "STATEMENT_LIST", "IF_BLOCK"} ->
            Found(Left(g, node)) \/ Found(Right(g, node))
       [] OTHER -> FALSE

\* The parameters are popped by the function, the result by the caller.
EndFunction(g, node) ==
  LET result == IF g.ids[g.fn].ret = "int" THEN 1 ELSE 0
      kept == SubSeq(g.vars, 1, g.nglobals + result)
      depth == g.depth - (Len(g.vars) - Len(kept))
      exit == AddSymbolToLabelList([g EXCEPT !.depth = depth], "FUNCTION_EXIT", g.fn, 0)
      popped == IF depth = g.heap[node].sp THEN exit
                ELSE EmitModifyStackPointer(exit, (depth - g.heap[node].sp) * 4)
      returned == EmitInstruction(popped, "RET", 0, 0)
      done == [returned EXCEPT
                 !.vars = SubSeq(@, 1, g.nglobals), !.depth = depth - result,
                 !.level = @ - 1, !.imp = FALSE, !.ids[g.fn].finish = returned.len]
  IN IF ~g.imp THEN g
     ELSE Require(g, result = 1 => FoundReturnStatementOnAllBranches(g, Right(g, node)), done)

\* The global variables are initialised by a function of their own, which then
\* calls the program with the base pointer above them.
StartGlobals(g, node) ==
  LET begun == [g EXCEPT !.imp = TRUE, !.level = @ + 1, !.inglob = TRUE,
                         !.ids = Append(@, Routine("#globals", g.len))]
  IN IF Right(g, node) = NULL THEN [g EXCEPT !.imp = FALSE]
     ELSE AddSymbolToLabelList(
            AddSymbolToLabelList(begun, "FUNCTION_ENTRY", Len(begun.ids), 0),
            "FUNCTION_ENTRY", 0, 1)

EndGlobals(g, node) ==
  LET saved == EmitInstruction([g EXCEPT !.inglob = FALSE], "SAVEBP", 0, 0)
      called == AddSymbolToQueryList(saved, "JSR", "FUNCTION_ENTRY", 0, 2)
      restored == EmitInstruction(called, "RESTBP", 0, 0)
      popped == IF g.gsize = 0 THEN restored ELSE EmitModifyStackPointer(restored, -g.gsize)
      returned == EmitInstruction(popped, "RET", 0, 0)
  IN [returned EXCEPT !.ids[Len(g.ids)].finish = returned.len]
=============================================================================
