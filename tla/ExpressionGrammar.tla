------------------------- MODULE ExpressionGrammar -------------------------
(***************************************************************************)
(* The grammar states of expressions in CScriptCompiler::GenerateParseTree *)
(* (scriptcompparsetree.cpp).  Each operator is one state: it takes the    *)
(* parser, the frame that was just popped and the token t = [t, id, n] and  *)
(* gives the parser after one turn of the loop.  Integers are the only     *)
(* values here; strings, floats, objects and structures have rules of the  *)
(* same form.                                                              *)
(***************************************************************************)
EXTENDS ParseTree

Identifiers == {"INT_IDENTIFIER", "VOID_IDENTIFIER"}

Constant(p, frame, t) ==
  IF t.t = "INTEGER"
  THEN LET q == Numbered(p, t.n) IN Accept(q, Newest(q))
  ELSE PARSER_ERROR(p)

Call(p, frame, t) ==
  LET id == Named(p, "ACTION_ID", t.id)
      action == New(id, "ACTION", NULL, Newest(id))
      closure == New(action, "ACTION_PARAMETER", Newest(action), NULL)
  IN IF t.t = "VOID_IDENTIFIER"
     THEN Take(Goto(closure, frame, 5, 2, Newest(closure)))
     ELSE Take(Goto(action, frame, 1, 2, Newest(action)))

Primary(p, frame, t) ==
  CASE frame.rule = 0 ->
         CASE t.t = "INTEGER" -> Await(p, frame, 2, 1, NULL, "CONSTANT")
           [] t.t = "VARIABLE" ->
                LET q == Named(p, "VARIABLE", t.id) IN Accept(q, Newest(q))
           [] t.t = "(" -> Take(Await(p, frame, 3, 2, NULL, "EXPRESSION"))
           [] t.t \in Identifiers -> Call(p, frame, t)
           [] t.t = "!" -> PushSRStack(p, "UNARY", 0, 0, NULL)
           [] OTHER -> PARSER_ERROR(p)
    [] frame.rule \in {1, 5} /\ frame.term = 2 ->
         Expect(p, t, "(", Await(p, frame, frame.rule, 3, frame.cur, "ARGUMENTS"))
    [] frame.rule = 1 /\ frame.term = 3 ->
         Expect(p, t, ")", Reduce(SetLeft(p, frame.cur, frame.ret), frame.cur))
    [] frame.rule = 5 /\ frame.term = 3 ->
         Expect(p, t, ")", Reduce(SetLeft(p, Left(p, frame.cur), frame.ret), frame.cur))
    [] frame.rule = 2 -> Reduce(p, frame.ret)
    [] frame.rule = 3 -> Expect(p, t, ")", Reduce(p, frame.ret))

Post(p, frame, t) ==
  LET Wrapped(op) == LET q == New(p, op, frame.ret, NULL) IN Accept(q, Newest(q))
  IN CASE frame.rule = 0 -> Await(p, frame, 1, 2, NULL, "PRIMARY")
       [] frame.rule = 1 -> CASE t.t = "++" -> Wrapped("POST_INCREMENT")
                              [] t.t = "--" -> Wrapped("POST_DECREMENT")
                              [] OTHER -> Reduce(p, frame.ret)

UnaryOps == "-" :> "NEGATION" @@ "~" :> "ONES_COMPLEMENT" @@ "!" :> "BOOLEAN_NOT"
            @@ "++" :> "PRE_INCREMENT" @@ "--" :> "PRE_DECREMENT"

\* The rule after a prefix names the operator; 6 and 7 stand for none.
Unary(p, frame, t) ==
  CASE frame.rule = 0 ->
         CASE t.t \in DOMAIN UnaryOps ->
                LET q == New(p, UnaryOps[t.t], NULL, NULL)
                IN Take(Await(q, frame, 1, 1, Newest(q), "POST"))
           [] t.t = "+" -> Take(Await(p, frame, 6, 1, NULL, "POST"))
           [] OTHER -> Await(p, frame, 7, 1, NULL, "POST")
    [] frame.rule = 1 -> Reduce(SetLeft(p, frame.cur, frame.ret), frame.cur)
    [] frame.rule \in {6, 7} -> Reduce(p, frame.ret)

\* A level of left-associative operators over a level that binds tighter.  The
\* rule after an operator names it; what follows only asks for the term.
Binary(p, frame, t, ops, tighter) ==
  IF frame.rule = 0 THEN Await(p, frame, 1, 1, NULL, tighter)
  ELSE IF t.t \in DOMAIN ops
  THEN LET chained == frame.term = 3
           done == IF chained THEN SetRight(p, frame.cur, frame.ret) ELSE p
           q == New(done, ops[t.t], IF chained THEN frame.cur ELSE frame.ret, NULL)
       IN Take(Await(q, frame, 2, 3, Newest(q), tighter))
  ELSE IF frame.term = 3 THEN Reduce(SetRight(p, frame.cur, frame.ret), frame.cur)
  ELSE Reduce(p, frame.ret)

Multiplicative(p, frame, t) == Binary(p, frame, t,
  "*" :> "MULTIPLY" @@ "/" :> "DIVIDE" @@ "%" :> "MODULUS", "UNARY")
Additive(p, frame, t) == Binary(p, frame, t,
  "+" :> "ADD" @@ "-" :> "SUBTRACT", "MULTIPLICATIVE")
Shift(p, frame, t) == Binary(p, frame, t,
  "<<" :> "SHIFT_LEFT" @@ ">>" :> "SHIFT_RIGHT" @@ ">>>" :> "UNSIGNED_SHIFT_RIGHT", "ADDITIVE")
Relational(p, frame, t) == Binary(p, frame, t,
  "<" :> "CONDITION_LT" @@ ">" :> "CONDITION_GT" @@ "<=" :> "CONDITION_LEQ"
  @@ ">=" :> "CONDITION_GEQ", "SHIFT")
Equality(p, frame, t) == Binary(p, frame, t,
  "==" :> "CONDITION_EQUAL" @@ "!=" :> "CONDITION_NOT_EQUAL", "RELATIONAL")
BooleanAnd(p, frame, t) == Binary(p, frame, t, "&" :> "BOOLEAN_AND", "EQUALITY")
ExclusiveOr(p, frame, t) == Binary(p, frame, t, "^" :> "EXCLUSIVE_OR", "BOOLEAN_AND")
InclusiveOr(p, frame, t) == Binary(p, frame, t, "|" :> "INCLUSIVE_OR", "EXCLUSIVE_OR")
LogicalAnd(p, frame, t) == Binary(p, frame, t, "&&" :> "LOGICAL_AND", "INCLUSIVE_OR")
LogicalOr(p, frame, t) == Binary(p, frame, t, "||" :> "LOGICAL_OR", "LOGICAL_AND")

Conditional(p, frame, t) ==
  CASE frame.rule = 0 -> Await(p, frame, 1, 1, NULL, "LOGICAL_OR")
    [] frame.rule = 1 ->
         IF t.t # "?" THEN Reduce(p, frame.ret)
         ELSE LET condition == New(p, "COND_CONDITION", frame.ret, NULL)
                  choice == New(condition, "COND_CHOICE", NULL, NULL)
                  block == New(choice, "COND_BLOCK", Newest(condition), Newest(choice))
              IN Take(Await(block, frame, 2, 3, Newest(block), "CONDITIONAL"))
    [] frame.rule = 2 /\ frame.term = 3 ->
         Expect(p, t, ":", Await(SetLeft(p, Right(p, frame.cur), frame.ret), frame, 2, 5,
                                 frame.cur, "CONDITIONAL"))
    [] frame.rule = 2 /\ frame.term = 5 ->
         Reduce(SetRight(p, Right(p, frame.cur), frame.ret), frame.cur)

\* The levels above UNARY, outermost first.
Pole == <<"ASSIGNMENT", "CONDITIONAL", "LOGICAL_OR", "LOGICAL_AND", "INCLUSIVE_OR",
          "EXCLUSIVE_OR", "BOOLEAN_AND", "EQUALITY", "RELATIONAL", "SHIFT", "ADDITIVE",
          "MULTIPLICATIVE">>

AssignmentOps ==
  "-=" :> "SUBTRACT" @@ "+=" :> "ADD" @@ "*=" :> "MULTIPLY" @@ "/=" :> "DIVIDE"
  @@ "%=" :> "MODULUS" @@ "&=" :> "BOOLEAN_AND" @@ "^=" :> "EXCLUSIVE_OR"
  @@ "|=" :> "INCLUSIVE_OR" @@ "<<=" :> "SHIFT_LEFT" @@ ">>=" :> "SHIFT_RIGHT"
  @@ ">>>=" :> "UNSIGNED_SHIFT_RIGHT"

CheckForBadLValue(p, tree) == Op(p, tree) # "VARIABLE"

UndefinedFunction(p, frame, t) ==
  t.t = "(" /\ frame.ret # NULL /\ Op(p, frame.ret) = "VARIABLE"

RECURSIVE Duplicated(_, _)
\* A copy of a tree, whose root is Newest.
Duplicated(p, tree) ==
  IF tree = NULL THEN p
  ELSE LET left == Duplicated(p, Left(p, tree))
           right == Duplicated(left, Right(p, tree))
       IN [right EXCEPT !.heap = Append(@,
             [p.heap[tree] EXCEPT
                !.l = IF @ = NULL THEN NULL ELSE Newest(left),
                !.r = IF @ = NULL THEN NULL ELSE Newest(right)])]

\* mutant: x += y has one node for both occurrences of x.
AssignSharing(p, frame, t) ==
  LET plain == t.t = "="
      operation == IF plain THEN p ELSE New(p, AssignmentOps[t.t], frame.ret, NULL)
      q == New(operation, "ASSIGNMENT", IF plain THEN NULL ELSE Newest(operation), frame.ret)
  IN Take(Await(q, frame, IF plain THEN 2 ELSE 3, 3, Newest(q), "CONDITIONAL"))

Assign(p, frame, t) ==
  IF t.t = "="
  THEN LET q == New(p, "ASSIGNMENT", NULL, frame.ret)
       IN Take(Await(q, frame, 2, 3, Newest(q), "CONDITIONAL"))
  ELSE LET copy == Duplicated(p, frame.ret)
           operation == New(copy, AssignmentOps[t.t], Newest(copy), NULL)
           q == New(operation, "ASSIGNMENT", Newest(operation), frame.ret)
       IN Take(Await(q, frame, 3, 3, Newest(q), "CONDITIONAL"))

\* The operand of an assignment is a conditional: assignments do not chain.
Assignment(p, frame, t) ==
  CASE frame.rule = 0 ->
         [p EXCEPT !.stk = @ \o [i \in DOMAIN Pole |-> Frame(Pole[i], 1, 1, NULL)]
                             \o <<Frame("UNARY", 0, 0, NULL)>>]
    [] frame.term = 1 ->
         IF t.t \notin DOMAIN AssignmentOps \cup {"="} THEN Reduce(p, frame.ret)
         ELSE IF CheckForBadLValue(p, frame.ret) THEN PARSER_ERROR(p)
         ELSE Assign(p, frame, t)
    [] frame.term = 3 ->
         IF UndefinedFunction(p, frame, t) THEN PARSER_ERROR(p)
         ELSE Reduce(IF frame.rule = 2 THEN SetLeft(p, frame.cur, frame.ret)
                     ELSE SetRight(p, Left(p, frame.cur), frame.ret), frame.cur)

Expression(p, frame, t) ==
  IF frame.rule = 0 THEN Await(p, frame, 1, 1, NULL, "ASSIGNMENT")
  ELSE Reduce(p, frame.ret)

NonVoidExpression(p, frame, t) ==
  IF frame.rule = 0 THEN Await(p, frame, 1, 1, NULL, "EXPRESSION")
  ELSE LET q == New(p, "NON_VOID_EXPRESSION", frame.ret, NULL) IN Reduce(q, Newest(q))

BooleanExpression(p, frame, t) ==
  IF frame.rule = 0 THEN Await(p, frame, 1, 1, NULL, "NON_VOID")
  ELSE LET q == New(p, "INTEGER_EXPRESSION", frame.ret, NULL) IN Reduce(q, Newest(q))

\* The list of arguments hangs to the left: the last one is generated first.
AfterArgument(p, frame, t) ==
  CASE frame.rule = 0 ->
         CASE t.t = ")" -> Reduce(p, NULL)
           [] t.t = "," -> Take(Await(p, frame, 2, 2, NULL, "NON_VOID"))
           [] OTHER -> PARSER_ERROR(p)
    [] frame.term = 2 ->
         LET q == New(p, "ACTION_ARG_LIST", NULL, frame.ret)
         IN Await(q, frame, 2, 3, Newest(q), "AFTER_ARGUMENT")
    [] frame.term = 3 -> Reduce(SetLeft(p, frame.cur, frame.ret), frame.cur)

ArgumentList(p, frame, t) ==
  CASE frame.rule = 0 ->
         CASE t.t = "}" -> PARSER_ERROR(p)
           [] t.t = ")" -> p
           [] OTHER -> Await(p, frame, 2, 1, NULL, "NON_VOID")
    [] frame.term = 1 ->
         LET q == New(p, "ACTION_ARG_LIST", NULL, frame.ret)
         IN Await(q, frame, 2, 2, Newest(q), "AFTER_ARGUMENT")
    [] frame.term = 2 -> Reduce(SetLeft(p, frame.cur, frame.ret), frame.cur)
=============================================================================
