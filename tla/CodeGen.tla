------------------------------ MODULE CodeGen ------------------------------
(***************************************************************************)
(* The walk of the parse tree that writes the code: what is done at each   *)
(* node before its left subtree, between its subtrees and after them.       *)
(***************************************************************************)
EXTENDS CodeStatements

PreVisitGenerateCode(g, node) ==
  LET op == Op(g, node)
  IN CASE op \in {"STATEMENT", "NON_VOID_EXPRESSION", "INTEGER_EXPRESSION"} ->
            StartExpression(g, node)
       [] op = "COMPOUND_STATEMENT" -> StartCompound(g, node)
       [] op = "FUNCTION" -> StartFunction(g, node)
       [] op = "GLOBAL_VARIABLES" -> StartGlobals(g, node)
       [] op = "CASE" -> CaseLabel(g, node)
       [] op = "ACTION_PARAMETER" -> StartClosure(g, node)
       [] op = "ACTION" -> StartCall(g, node)
       [] op \in {"WHILE_BLOCK", "DOWHILE_BLOCK"} -> StartLoop(g, node)
       [] op = "SWITCH_BLOCK" -> StartSwitch(g, node)
       [] op \in {"IF_CHOICE", "COND_CHOICE"} -> BranchOnCondition(g, node)
       [] op \in {"PRE_INCREMENT", "PRE_DECREMENT"} -> OpenIncrement(g, node)
       [] OTHER -> g

InVisitGenerateCode(g, node) ==
  LET op == Op(g, node)
  IN CASE op = "ASSIGNMENT" -> BeforeVariable(g, node)
       [] op = "STATEMENT" -> EndStatement(g, node)
       [] op = "SWITCH_BLOCK" -> TestLabels(g, node)
       [] op = "WHILE_BLOCK" -> TestLoop(g, node)
       [] op = "IF_CHOICE" -> ElseBranch(g, node)
       [] op = "COND_CHOICE" -> OtherValue(g, node)
       [] op = "FUNCTION" -> OpenFunction(g, node)
       [] op = "LOGICAL_AND" -> TestAnd(g, node)
       [] op = "LOGICAL_OR" -> TestOr(g, node)
       [] op = "DOWHILE_BLOCK" -> ContinueLabel(g)
       [] OTHER -> g

PostVisitGenerateCode(g, node) ==
  LET op == Op(g, node)
  IN CASE op = "ASSIGNMENT" -> StoreAssignment(g, node)
       [] op = "KEYWORD_INT" -> StartDeclaration(g)
       [] op = "KEYWORD_DECLARATION" -> EndDeclaration(g, node)
       [] op = "VARIABLE" -> VisitVariable(g, node)
       [] op = "CONSTANT_INTEGER" -> VisitConstant(g, node)
       [] op = "ACTION_ARG_LIST" -> TypeOfArguments(g, node)
       [] op = "ACTION_PARAMETER" -> EndClosure(g, node)
       [] op = "ACTION" -> EmitCall(g, node)
       [] op = "COMPOUND_STATEMENT" -> EndCompound(g, node)
       [] op \in {"IF_CONDITION", "COND_CONDITION", "WHILE_CONDITION", "DOWHILE_CONDITION"} ->
            Typed(g, node, TypeOf(g, Left(g, node)))
       [] op = "SWITCH_CONDITION" -> SwitchValue(g, node)
       [] op = "SWITCH_BLOCK" -> EndSwitch(g, node)
       [] op = "WHILE_BLOCK" -> EndWhile(g, node)
       [] op = "DOWHILE_BLOCK" -> EndDo(g, node)
       [] op = "IF_CHOICE" -> EndIf(g, node)
       [] op = "COND_CHOICE" -> EndChoice(g, node)
       [] op = "COND_BLOCK" -> TypeOfConditional(g, node)
       [] op = "NON_VOID_EXPRESSION" -> CheckExpression(g, node)
       [] op = "INTEGER_EXPRESSION" -> CheckCondition(g, node)
       [] op = "LOGICAL_AND" -> JoinAnd(g, node)
       [] op = "LOGICAL_OR" -> JoinOr(g, node)
       [] op \in DOMAIN BinaryOperations -> BinaryOperation(g, node)
       [] op \in DOMAIN UnaryOperations -> UnaryOperation(g, node)
       [] op = "FUNCTION" -> EndFunction(g, node)
       [] op = "GLOBAL_VARIABLES" -> EndGlobals(g, node)
       [] op = "FUNCTION_IDENTIFIER" -> FunctionResult(g, node)
       [] op = "FUNCTION_PARAM_NAME" -> FunctionParameter(g, node)
       [] op = "RETURN" -> EmitReturn(g, node)
       [] op \in {"PRE_INCREMENT", "PRE_DECREMENT"} -> PreIncrement(g, node)
       [] op \in {"POST_INCREMENT", "POST_DECREMENT"} -> PostIncrement(g, node)
       [] op = "DEFAULT" -> DefaultLabel(g)
       [] op = "BREAK" -> EmitBreak(g)
       [] op = "CONTINUE" -> EmitContinue(g)
       [] op = "WHILE_CONTINUE" -> ContinueLabel(g)
       [] OTHER -> g

Generating(g) == g.status = "generating"

RECURSIVE WalkParseTree(_, _)
\* A case is done when it has its label.
WalkParseTree(g, node) ==
  LET Visit(h, Handler(_, _)) ==
        IF Generating(h) THEN Handler(ConstantFoldNode(h, node), node) ELSE h
      Subtree(h, side) ==
        IF ~Generating(h) THEN h
        ELSE LET trimmed == TrimParseTree(h, h.heap[node][side])
             IN WalkParseTree([trimmed.g EXCEPT !.heap[node][side] = trimmed.tree],
                              trimmed.tree)
      before == Visit(g, PreVisitGenerateCode)
      between == Visit(Subtree(before, "l"), InVisitGenerateCode)
  IN IF node = NULL THEN g
     ELSE IF Op(g, node) = "CASE" THEN before
     ELSE Visit(Subtree(between, "r"), PostVisitGenerateCode)
=============================================================================
