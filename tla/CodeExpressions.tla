-------------------------- MODULE CodeExpressions --------------------------
(***************************************************************************)
(* What PreVisitGenerateCode, InVisitGenerateCode and PostVisitGenerateCode *)
(* do at the nodes of expressions: before the left subtree of a node is     *)
(* walked, between its subtrees, and after them.                           *)
(***************************************************************************)
EXTENDS CodeBuffer

TypeOf(g, node) == g.heap[node].type
Typed(g, node, type) == [g EXCEPT !.heap[node].type = type]
Ints(g, node) == TypeOf(g, Left(g, node)) = "int" /\ TypeOf(g, Right(g, node)) = "int"

\* The same level may not declare a name twice.
DeclareVariable(g, node) ==
  LET name == g.heap[node].id
      taken == \E i \in DOMAIN g.vars : g.vars[i].id = name /\ g.vars[i].level = g.level
      counted == IF g.inglob THEN [g EXCEPT !.nglobals = @ + 1, !.gsize = @ + 4] ELSE g
  IN Require(g, ~taken, AddVariableToStack(NameVariable(counted, name, g.depth), TRUE))

\* A variable of the innermost scope that has the name: above the base pointer
\* are the variables of the function, below it the global ones.
UseVariable(g, node) ==
  LET named == {i \in DOMAIN g.vars : g.vars[i].id = g.heap[node].id}
      at == g.vars[Max(named)].at
      found == [g EXCEPT !.heap[node].n = at, !.heap[node].type = "int"]
      copied == IF at < g.gsize /\ ~g.inglob
                THEN EmitInstruction(found, "COPYB", at - g.gsize, 4)
                ELSE EmitInstruction(found, "COPY", at - g.depth * 4, 4)
  IN IF named = {} THEN Reject(g)
     ELSE IF g.assigning THEN found
     ELSE AddVariableToStack(copied, FALSE)

VisitVariable(g, node) ==
  IF g.declaring THEN DeclareVariable(g, node) ELSE UseVariable(g, node)

VisitConstant(g, node) ==
  Typed(Deeper(EmitInstruction(g, "CONST", g.heap[node].n, 0), 1), node, "int")

\* The variable is looked up, and nothing is read from it.
BeforeVariable(g, node) ==
  Require(g, Op(g, Right(g, node)) = "VARIABLE", [g EXCEPT !.assigning = TRUE])

StoreAssignment(g, node) ==
  LET at == g.heap[Right(g, node)].n
      stored == IF at < g.gsize /\ ~g.inglob
                THEN EmitInstruction(g, "ASSIGNB", at - g.gsize, 4)
                ELSE EmitInstruction(g, "ASSIGN", at - g.depth * 4, 4)
  IN Require(g, TypeOf(g, Left(g, node)) = TypeOf(g, Right(g, node)),
             Typed([stored EXCEPT !.assigning = FALSE], node, TypeOf(g, Left(g, node))))

\* The instruction that changes the variable is left open until it is known.
OpenIncrement(g, node) ==
  EmitInstruction([g EXCEPT !.heap[node].pos = g.len], "INC", 0, 0)

Step(op) == IF op \in {"PRE_INCREMENT", "POST_INCREMENT"} THEN "INC" ELSE "DEC"
IsGlobal(g, at) == at < g.gsize /\ ~g.inglob
IsVariable(g, node) == Op(g, node) = "VARIABLE" /\ TypeOf(g, node) = "int"

PreIncrement(g, node) ==
  LET at == g.heap[Left(g, node)].n
      pos == g.heap[node].pos
      step == Step(Op(g, node))
      filled == IF IsGlobal(g, at)
                THEN Rewrite(g, pos, IF step = "INC" THEN "INCB" ELSE "DECB", at - g.gsize)
                ELSE Rewrite(g, pos, step, at - g.depth * 4 + 4)
  IN Require(g, IsVariable(g, Left(g, node)), Typed(filled, node, "int"))

PostIncrement(g, node) ==
  LET at == g.heap[Left(g, node)].n
      step == Step(Op(g, node))
      written == IF IsGlobal(g, at)
                 THEN EmitInstruction(g, IF step = "INC" THEN "INCB" ELSE "DECB",
                                      at - g.gsize, 0)
                 ELSE EmitInstruction(g, step, at - g.depth * 4, 0)
  IN Require(g, IsVariable(g, Left(g, node)), Typed(written, node, "int"))

ComparisonOps ==
  "CONDITION_EQUAL" :> "EQUAL" @@ "CONDITION_NOT_EQUAL" :> "NOT_EQUAL"
OrderingOps ==
  "CONDITION_GEQ" :> "GEQ" @@ "CONDITION_GT" :> "GT" @@ "CONDITION_LT" :> "LT"
  @@ "CONDITION_LEQ" :> "LEQ"
ArithmeticOps ==
  "ADD" :> "ADD" @@ "SUBTRACT" :> "SUB" @@ "MULTIPLY" :> "MUL" @@ "DIVIDE" :> "DIV"
  @@ "MODULUS" :> "MOD"
BitwiseOps ==
  "INCLUSIVE_OR" :> "INCOR" @@ "EXCLUSIVE_OR" :> "EXCOR" @@ "BOOLEAN_AND" :> "BOOLAND"
ShiftOps ==
  "SHIFT_LEFT" :> "SHLEFT" @@ "SHIFT_RIGHT" :> "SHRIGHT"
  @@ "UNSIGNED_SHIFT_RIGHT" :> "USHRIGHT"
UnaryOperations ==
  "NEGATION" :> "NEG" @@ "ONES_COMPLEMENT" :> "COMP" @@ "BOOLEAN_NOT" :> "NOT"
BinaryOperations == ComparisonOps @@ OrderingOps @@ ArithmeticOps @@ BitwiseOps @@ ShiftOps

\* m_pchStackTypes: with integers only, whatever lies on the stack is one, and an
\* empty stack reads the byte before the array, which is not.
IntegerOnTop(g) == g.depth > 0

\* Two integers give way to one.
BinaryOperation(g, node) ==
  Require(g, Ints(g, node),
          Typed(Deeper(EmitInstruction(g, BinaryOperations[Op(g, node)], 0, 0), -1),
                node, "int"))

UnaryOperation(g, node) ==
  Require(g, TypeOf(g, Left(g, node)) = "int",
          Typed(EmitInstruction(g, UnaryOperations[Op(g, node)], 0, 0), node, "int"))

\* Short circuit: the left value is copied, and the jump takes the copy.
TestAnd(g, node) ==
  LET copied == EmitInstruction(g, "COPY", -4, 4)
  IN Require(g, IntegerOnTop(g),
             EmitInstruction([copied EXCEPT !.heap[node].n = copied.len], "JZ", 0, 0))

JoinAnd(g, node) ==
  LET both == EmitInstruction(g, "LOGAND", 0, 0)
  IN Require(g, Ints(g, node),
             Typed(Deeper(JumpHere(both, g.heap[node].n, "JZ"), -1), node, "int"))

\* mutant: the way around the second operand leads past the operator.
JoinOrBehind(g, node) ==
  LET both == EmitInstruction(g, "LOGOR", 0, 0)
  IN Require(g, Ints(g, node),
             Typed(Deeper(JumpHere(both, g.heap[node].n, "JMP"), -1), node, "int"))

\* A value that is true is doubled instead of the right one being computed.
TestOr(g, node) ==
  LET tested == EmitInstruction(EmitInstruction(g, "COPY", -4, 4), "JZ", 20, 0)
      doubled == EmitInstruction(tested, "COPY", -4, 4)
  IN Require(g, IntegerOnTop(g),
             EmitInstruction([doubled EXCEPT !.heap[node].n = doubled.len], "JMP", 0, 0))

JoinOr(g, node) ==
  LET both == EmitInstruction(JumpHere(g, g.heap[node].n, "JMP"), "LOGOR", 0, 0)
  IN Require(g, Ints(g, node), Typed(Deeper(both, -1), node, "int"))

\* The choice of a conditional expression or of an if.
BranchOnCondition(g, node) ==
  Require(g, IntegerOnTop(g),
          Deeper(EmitInstruction([g EXCEPT !.heap[node].n = g.len], "JZ", 0, 0), -1))

\* The second value of a conditional is generated in place of the first.
OtherValue(g, node) ==
  LET skipping == EmitInstruction([g EXCEPT !.heap[node].pos = g.len], "JMP", 0, 0)
  IN Deeper(JumpHere(skipping, g.heap[node].n, "JZ"), -1)

EndChoice(g, node) ==
  Require(g, TypeOf(g, Left(g, node)) = TypeOf(g, Right(g, node)),
          Typed(JumpHere(g, g.heap[node].pos, "JMP"), node, TypeOf(g, Left(g, node))))

TypeOfConditional(g, node) == Typed(g, node, TypeOf(g, Right(g, node)))

StartExpression(g, node) == [g EXCEPT !.heap[node].sp = g.depth]

\* An expression leaves one value; a closure leaves none.
CheckExpression(g, node) ==
  LET type == TypeOf(g, Left(g, node))
      left == g.depth - g.heap[node].sp
  IN Require(g, type # "" /\ left = (IF type = "action" THEN 0 ELSE 1),
             Typed(g, node, type))

\* The condition of an if, a loop or a switch: what is looked at is the top of the
\* stack, which need not be the condition.
CheckCondition(g, node) == Require(g, IntegerOnTop(g), CheckExpression(g, node))

TypeOfArguments(g, node) == Typed(g, node, TypeOf(g, Right(g, node)))

\* A void function as an argument is code that runs later, with the stack it has
\* here; it is jumped over.
StartClosure(g, node) ==
  LET stored == EmitInstruction(g, "STORE_STATE", g.gsize, g.depth * 4 - g.gsize)
  IN EmitInstruction([stored EXCEPT !.heap[node].n = stored.len], "JMP", 0, 0)

EndClosure(g, node) ==
  LET returned == EmitInstruction(g, "RET", 0, 0)
  IN Typed(JumpHere(returned, g.heap[node].n, "JMP"), node, "action")

RECURSIVE ArgumentTypes(_, _)
\* First to last: the list hangs to the left of each argument.
ArgumentTypes(g, list) ==
  IF list = NULL THEN <<>>
  ELSE <<TypeOf(g, list)>> \o ArgumentTypes(g, Left(g, list))

Defaults(g, i, given) ==
  [k \in 1..Len(g.ids[i].params) - given |->
     g.ids[i].defaults[Len(g.ids[i].params) + 1 - k]]

RECURSIVE PushDefaults(_, _)
PushDefaults(g, values) ==
  IF values = <<>> THEN g
  ELSE PushDefaults(Deeper(EmitInstruction(g, "CONST", CHOOSE v \in Head(values) : TRUE, 0), 1),
                    Tail(values))

\* Room for the result of a function of the script, then the arguments that the
\* call leaves out, the last one first.
StartCall(g, node) ==
  LET i == GetIdentifierByName(g, g.heap[Right(g, node)].id)
      given == Len(ArgumentTypes(g, Left(g, node)))
      named == [g EXCEPT !.heap[Right(g, node)].n = i]
      room == IF UserDefined(g, i) /\ g.ids[i].ret = "int"
              THEN AddVariableToStack(named, TRUE) ELSE named
      defaults == Defaults(g, i, given)
  IN Require(g, given <= Len(g.ids[i].params) /\ {} \notin ToSet(defaults),
             PushDefaults(room, defaults))

\* The arguments are gone when the call is over.
EmitCall(g, node) ==
  LET i == g.heap[Right(g, node)].n
      id == g.ids[i]
      types == ArgumentTypes(g, Left(g, node))
      ints == {k \in DOMAIN id.params : id.params[k] = "int"}
      popped == Deeper(g, -Cardinality(ints))
      typed == IF id.ret = "int" THEN Typed(popped, node, "int") ELSE popped
  IN Require(g, types = SubSeq(id.params, 1, Len(types)),
       IF UserDefined(g, i) THEN AddSymbolToQueryList(typed, "JSR", "FUNCTION_ENTRY", i, 0)
       ELSE EmitInstruction(IF id.ret = "int" THEN Deeper(typed, 1) ELSE typed,
                            "EXECUTE_COMMAND", id.n, Len(id.params)))
=============================================================================
