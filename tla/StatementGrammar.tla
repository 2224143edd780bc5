-------------------------- MODULE StatementGrammar --------------------------
(***************************************************************************)
(* The grammar states of statements and declarations in                    *)
(* CScriptCompiler::GenerateParseTree.  STATEMENT stands for both          *)
(* STATEMENT and STATEMENT_NO_DEBUG, which differ in the lines they give a  *)
(* debugger.                                                               *)
(***************************************************************************)
EXTENDS ExpressionGrammar

\* The state of the declarations in a type: the int of the language.
NonVoidType(p, frame, t) ==
  IF t.t = "int" THEN LET q == New(p, "KEYWORD_INT", NULL, NULL) IN Accept(q, Newest(q))
  ELSE PARSER_ERROR(p)

AnyType(p, frame, t) ==
  CASE frame.rule = 0 ->
         IF t.t = "void"
         THEN LET q == New(p, "KEYWORD_VOID", NULL, NULL) IN Accept(q, Newest(q))
         ELSE Await(p, frame, 2, 1, NULL, "NON_VOID_TYPE")
    [] frame.rule = 2 -> Reduce(p, frame.ret)

\* A declaration of several variables is a chain of statements to the right.
Separator(p, frame, t) ==
  CASE t.t = ";" -> Reduce(p, frame.cur)
    [] t.t = "," ->
         LET type == New(p, Op(p, Left(p, Left(p, frame.cur))), NULL, NULL)
             declaration == New(type, "KEYWORD_DECLARATION", Newest(type), NULL)
             next == New(declaration, "STATEMENT", Newest(declaration), NULL)
             last == IF Right(p, frame.cur) = NULL THEN frame.cur ELSE Right(p, frame.cur)
         IN Take(PushSRStack(SetRight(next, last, Newest(next)), "VARIABLES", 0, 0,
                             Newest(next)))
    [] OTHER -> PARSER_ERROR(p)

Variables(p, frame, t) ==
  LET declaration == Left(p, frame.cur)
      Separated(q) == PushSRStack(q, "SEPARATOR", 0, 0, frame.cur)
  IN CASE frame.rule = 0 ->
            IF t.t # "VARIABLE" THEN PARSER_ERROR(p)
            ELSE LET name == Named(p, "VARIABLE", t.id)
                     list == New(name, "VARIABLE_LIST", Newest(name), NULL)
                 IN Take(Goto(SetRight(list, declaration, Newest(list)), frame, 1, 2, frame.cur))
       [] frame.rule = 1 ->
            IF t.t # "=" THEN Separated(p)
            ELSE LET name == Named(p, "VARIABLE", p.heap[Left(p, Right(p, declaration))].id)
                     assignment == New(name, "ASSIGNMENT", NULL, Newest(name))
                     q == New(assignment, "STATEMENT", Newest(assignment), NULL)
                 IN Take(Await(SetRight(q, frame.cur, Newest(q)), frame, 2, 2, frame.cur,
                               "NON_VOID"))
       [] frame.rule = 2 ->
            Separated(SetLeft(p, Left(p, Right(p, frame.cur)), frame.ret))

\* What a statement may start with.
Begin(p, frame, t) ==
  LET Leaf(op, rule) ==
        LET q == New(p, op, NULL, NULL) IN Take(Goto(q, frame, rule, 2, Newest(q)))
  IN CASE t.t = "{" -> Take(Await(p, frame, 1, 2, NULL, "COMPOUND"))
       [] t.t = "return" -> Leaf("RETURN", 6)
       [] t.t = "switch" -> Leaf("SWITCH_BLOCK", 5)
       [] t.t = "default" -> Leaf("DEFAULT", 12)
       [] t.t = "case" ->
            LET q == New(p, "CASE", NULL, NULL)
            IN Take(Await(q, frame, 13, 3, Newest(q), "CONDITIONAL"))
       [] t.t = "break" -> Leaf("BREAK", 14)
       [] t.t = "continue" -> Leaf("CONTINUE", 15)
       [] t.t = "VOID_IDENTIFIER" ->
            LET id == Named(p, "ACTION_ID", t.id)
                q == New(id, "ACTION", NULL, Newest(id))
            IN Take(Goto(q, frame, 2, 2, Newest(q)))
       [] t.t = "if" -> Take(Goto(p, frame, 3, 2, NULL))
       [] t.t = "else" -> PARSER_ERROR(p)
       [] t.t = "while" -> Take(Goto(p, frame, 7, 2, NULL))
       [] t.t = "do" -> Take(Await(p, frame, 8, 2, NULL, "STATEMENT"))
       [] t.t = "for" -> Take(Goto(p, frame, 9, 2, NULL))
       [] t.t = "int" -> Await(p, frame, 10, 2, NULL, "NON_VOID_TYPE")
       [] t.t = ";" -> Accept(p, frame.cur)
       [] OTHER -> Await(p, frame, 11, 2, NULL, "EXPRESSION")

Block(p, frame, t) ==
  CASE frame.term = 2 ->
         IF t.t # "}" THEN PARSER_ERROR(p)
         ELSE LET q == New(p, "COMPOUND_STATEMENT", frame.ret, NULL)
              IN Goto(q, frame, 1, 3, Newest(q))
    [] frame.term = 3 -> Expect(p, t, "}", Reduce(p, frame.cur))

CallStatement(p, frame, t) ==
  CASE frame.term = 2 -> Expect(p, t, "(", Await(p, frame, 2, 3, frame.cur, "ARGUMENTS"))
    [] frame.term = 3 ->
         Expect(p, t, ")", Goto(SetLeft(p, frame.cur, frame.ret), frame, 2, 4, frame.cur))
    [] frame.term = 4 -> Expect(p, t, ";", Reduce(p, frame.cur))

\* Neither branch may be the null statement.
If(p, frame, t) ==
  CASE frame.term = 2 ->
         LET choice == New(p, "IF_CHOICE", NULL, NULL)
             condition == New(choice, "IF_CONDITION", NULL, NULL)
             q == New(condition, "IF_BLOCK", Newest(condition), Newest(choice))
         IN Expect(p, t, "(", Await(q, frame, 3, 3, Newest(q), "BOOLEAN"))
    [] frame.term = 3 ->
         Expect(p, t, ")", Await(SetLeft(p, Left(p, frame.cur), frame.ret), frame, 3, 5,
                                 frame.cur, "STATEMENT"))
    [] frame.term = 5 ->
         IF frame.ret = NULL THEN PARSER_ERROR(p)
         ELSE LET branch == New(p, "STATEMENT", frame.ret, NULL)
                  q == SetLeft(branch, Right(p, frame.cur), Newest(branch))
              IN IF t.t = "else" THEN Take(Await(q, frame, 3, 7, frame.cur, "STATEMENT"))
                 ELSE Reduce(q, frame.cur)
    [] frame.term = 7 ->
         IF frame.ret = NULL THEN PARSER_ERROR(p)
         ELSE LET branch == New(p, "STATEMENT", frame.ret, NULL)
              IN Reduce(SetRight(branch, Right(p, frame.cur), Newest(branch)), frame.cur)

Switch(p, frame, t) ==
  CASE frame.term = 2 -> Expect(p, t, "(", Await(p, frame, 5, 4, frame.cur, "BOOLEAN"))
    [] frame.term = 4 ->
         LET condition == New(p, "SWITCH_CONDITION", frame.ret, NULL)
             body == New(SetLeft(condition, frame.cur, Newest(condition)), "STATEMENT",
                         NULL, NULL)
         IN Expect(p, t, ")", Await(SetRight(body, frame.cur, Newest(body)), frame, 5, 5,
                                    frame.cur, "STATEMENT"))
    [] frame.term = 5 ->
         IF frame.ret = NULL THEN PARSER_ERROR(p)
         ELSE Reduce(SetLeft(p, Right(p, frame.cur), frame.ret), frame.cur)

Return(p, frame, t) ==
  CASE frame.term = 2 ->
         IF t.t = ";" THEN Accept(p, frame.cur)
         ELSE Await(p, frame, 6, 3, frame.cur, "NON_VOID")
    [] frame.term = 3 -> Expect(p, t, ";", Reduce(SetRight(p, frame.cur, frame.ret), frame.cur))

While(p, frame, t) ==
  CASE frame.term = 2 ->
         LET q == New(p, "WHILE_BLOCK", NULL, NULL)
         IN Expect(p, t, "(", Await(q, frame, 7, 3, Newest(q), "BOOLEAN"))
    [] frame.term = 3 ->
         LET condition == New(p, "WHILE_CONDITION", frame.ret, NULL)
             choice == New(SetLeft(condition, frame.cur, Newest(condition)), "WHILE_CHOICE",
                           NULL, NULL)
         IN Expect(p, t, ")", Await(SetRight(choice, frame.cur, Newest(choice)), frame, 7, 5,
                                    frame.cur, "STATEMENT"))
    [] frame.term = 5 ->
         IF frame.ret = NULL THEN PARSER_ERROR(p)
         ELSE LET continue == New(p, "WHILE_CONTINUE", NULL, NULL)
                  after == New(continue, "STATEMENT", Newest(continue), NULL)
                  body == New(after, "STATEMENT", frame.ret, Newest(after))
              IN Reduce(SetLeft(body, Right(p, frame.cur), Newest(body)), frame.cur)

\* The body is looked at without asking whether there is one.
Do(p, frame, t) ==
  CASE frame.term = 2 ->
         IF t.t # "while" THEN PARSER_ERROR(p)
         ELSE IF frame.ret = NULL THEN Crash(p)
         ELSE LET body == New(p, "STATEMENT", frame.ret, NULL)
                  condition == New(body, "DOWHILE_CONDITION", NULL, NULL)
                  q == New(condition, "DOWHILE_BLOCK", Newest(body), Newest(condition))
              IN Take(Goto(q, frame, 8, 3, Newest(q)))
    [] frame.term = 3 -> Expect(p, t, "(", Await(p, frame, 8, 5, frame.cur, "BOOLEAN"))
    [] frame.term = 5 ->
         Expect(p, t, ")", Goto(SetLeft(p, Right(p, frame.cur), frame.ret), frame, 8, 6,
                                frame.cur))
    [] frame.term = 6 -> Expect(p, t, ";", Reduce(p, frame.cur))

\* A for is a statement list: the initialisation, then a while whose body ends
\* with the place continue goes to and the last expression.
ForBlock(p) ==
  LET base == Len(p.heap)
      N(op, left, right) ==
        Node(op, IF left = 0 THEN NULL ELSE base + left, IF right = 0 THEN NULL ELSE base + right)
  IN [p EXCEPT !.heap = @ \o
       << N("WHILE_CONTINUE", 0, 0), N("STATEMENT", 0, 0), N("STATEMENT", 0, 0),
          N("STATEMENT", 1, 2), N("WHILE_CHOICE", 3, 4), N("WHILE_CONDITION", 0, 0),
          N("WHILE_BLOCK", 6, 5), N("STATEMENT", 7, 0), N("STATEMENT", 0, 8),
          N("FOR_BLOCK", 9, 0) >>]

For(p, frame, t) ==
  LET block == frame.cur
      init == Left(p, block)
      while == Left(p, Right(p, init))
      condition == Left(p, while)
      body == Left(p, Right(p, while))
      step == Right(p, Right(p, Right(p, while)))
  IN CASE frame.term = 2 ->
            LET q == ForBlock(p) IN Expect(p, t, "(", Goto(q, frame, 9, 3, Newest(q)))
       [] frame.term = 3 ->
            IF t.t = ";" THEN Take(Goto(p, frame, 9, 5, block))
            ELSE Await(p, frame, 9, 4, block, "EXPRESSION")
       [] frame.term = 4 -> Expect(p, t, ";", Goto(SetLeft(p, init, frame.ret), frame, 9, 5, block))
       [] frame.term = 5 ->
            IF t.t # ";" THEN Await(p, frame, 9, 6, block, "BOOLEAN")
            ELSE LET one == Numbered(p, 1)
                     value == New(one, "NON_VOID_EXPRESSION", Newest(one), NULL)
                     q == New(value, "INTEGER_EXPRESSION", Newest(value), NULL)
                 IN Take(Goto(SetLeft(q, condition, Newest(q)), frame, 9, 7, block))
       [] frame.term = 6 ->
            Expect(p, t, ";", Goto(SetLeft(p, condition, frame.ret), frame, 9, 7, block))
       [] frame.term = 7 ->
            IF t.t = ")" THEN Take(Goto(p, frame, 9, 9, block))
            ELSE Await(p, frame, 9, 8, block, "EXPRESSION")
       [] frame.term = 8 -> Expect(p, t, ")", Goto(SetLeft(p, step, frame.ret), frame, 9, 9, block))
       [] frame.term = 9 -> Await(p, frame, 9, 10, block, "STATEMENT")
       [] frame.term = 10 -> Reduce(SetLeft(p, body, frame.ret), block)

Declaration(p, frame, t) ==
  CASE frame.term = 2 ->
         LET declaration == New(p, "KEYWORD_DECLARATION", frame.ret, NULL)
             statement == New(declaration, "STATEMENT", Newest(declaration), NULL)
             list == New(statement, "STATEMENT_LIST", Newest(statement), NULL)
         IN PushSRStack(Goto(list, frame, 10, 3, Newest(list)), "VARIABLES", 0, 0,
                        Newest(statement))
    [] frame.term = 3 -> Expect(p, t, ";", Reduce(p, frame.cur))

\* WITHIN_A_STATEMENT: the rule says which kind.
Statement(p, frame, t) ==
  CASE frame.rule = 0 -> Begin(p, frame, t)
    [] frame.rule = 1 -> Block(p, frame, t)
    [] frame.rule = 2 -> CallStatement(p, frame, t)
    [] frame.rule = 3 -> If(p, frame, t)
    [] frame.rule = 5 -> Switch(p, frame, t)
    [] frame.rule = 6 -> Return(p, frame, t)
    [] frame.rule = 7 -> While(p, frame, t)
    [] frame.rule = 8 -> Do(p, frame, t)
    [] frame.rule = 9 -> For(p, frame, t)
    [] frame.rule = 10 -> Declaration(p, frame, t)
    [] frame.rule = 11 -> Expect(p, t, ";", Reduce(p, frame.ret))
    [] frame.rule = 13 -> Expect(p, t, ":", Reduce(SetLeft(p, frame.cur, frame.ret), frame.cur))
    [] frame.rule = 12 -> Expect(p, t, ":", Reduce(p, frame.cur))
    [] frame.rule \in {14, 15} -> Expect(p, t, ";", Reduce(p, frame.cur))

\* The list hangs to the right; each statement waits for all that follow it.
StatementList(p, frame, t) ==
  CASE frame.rule = 0 ->
         IF t.t \in {"}", "EOF"} THEN Reduce(p, NULL)
         ELSE LET q == New(p, "STATEMENT", NULL, NULL)
                  linked == IF frame.cur = NULL THEN q ELSE SetRight(q, frame.cur, Newest(q))
              IN Await(linked, frame, 1, 1, Newest(q), "STATEMENT")
    [] frame.rule = 1 /\ frame.term = 1 ->
         PushSRStack(Goto(SetLeft(p, frame.cur, frame.ret), frame, 1, 2, frame.cur),
                     frame.st, 0, 0, frame.cur)
    [] frame.rule = 1 /\ frame.term = 2 -> Reduce(p, frame.cur)

Compound(p, frame, t) ==
  CASE frame.rule = 0 ->
         IF t.t = "}" THEN Reduce(p, frame.cur)
         ELSE Await(p, frame, 2, 1, NULL, "STATEMENT_LIST")
    [] frame.rule = 2 ->
         LET q == New(p, "STATEMENT_LIST", frame.ret, NULL) IN Reduce(q, Newest(q))
=============================================================================
