---------------------------- MODULE UnitGrammar ----------------------------
(***************************************************************************)
(* The outermost grammar states of CScriptCompiler::GenerateParseTree:     *)
(* functions and their parameters, global variables, and the include files *)
(* that are read in the middle of a program.  An identifier is a record     *)
(*   name, fn (a function, or a constant of the language file), ret,       *)
(*   params (types), defaults (of each parameter: none, or one value),     *)
(*   impl (whether a body was seen), n (the constant's value, or the       *)
(*   engine command, -1 for a function of the script), top (whether it was  *)
(*   first declared in the file that is compiled)                          *)
(***************************************************************************)
EXTENDS StatementGrammar

CONSTANT MaxIncludeDepth

AfterParameter(p, frame, t) ==
  CASE t.t = ")" -> Reduce(p, NULL)
    [] t.t = "," -> Take(PushSRStack(p, "PARAMETERS", 0, 0, NULL))
    [] OTHER -> PARSER_ERROR(p)

\* FUNCTION_PARAM_LIST; the default hangs to the right of the type.
ParameterList(p, frame, t) ==
  LET type == Right(p, frame.cur)
      Next(q) == Await(q, frame, 0, 1, frame.cur, "AFTER_PARAMETER")
  IN CASE frame.rule = 0 /\ frame.term = 0 ->
            IF t.t = ")" THEN p ELSE Await(p, frame, 1, 2, NULL, "NON_VOID_TYPE")
       [] frame.rule = 0 /\ frame.term = 1 ->
            Reduce(SetLeft(p, frame.cur, frame.ret), frame.cur)
       [] frame.term = 2 ->
            IF t.t # "VARIABLE" THEN PARSER_ERROR(p)
            ELSE LET q == Named(p, "FUNCTION_PARAM_NAME", t.id)
                 IN Take(Goto(SetRight(q, Newest(q), frame.ret), frame, 1, 3, Newest(q)))
       [] frame.term = 3 ->
            IF t.t = "=" THEN Take(Goto(p, frame, 2, 4, frame.cur)) ELSE Next(p)
       [] frame.term = 4 ->
            IF t.t # "-" THEN Await(p, frame, 2, 5, frame.cur, "PRIMARY")
            ELSE LET q == New(p, "NEGATION", NULL, NULL)
                 IN Take(Await(SetRight(q, type, Newest(q)), frame, 3, 6, frame.cur, "PRIMARY"))
       [] frame.term = 5 -> Next(SetRight(p, type, frame.ret))
       [] frame.term = 6 -> Next(SetRight(p, Right(p, type), frame.ret))

RECURSIVE Parameters(_, _)
Parameters(p, tree) ==
  IF tree = NULL THEN <<>> ELSE <<tree>> \o Parameters(p, Left(p, tree))

Default(p, parameter) == Right(p, Right(p, parameter))

\* A default is a constant, or a minus with a constant to its right: a minus in
\* brackets has its operand on the left and nothing on the right.
DefaultVerdict(p, value, late) ==
  IF value = NULL THEN IF late THEN "rejected" ELSE "parsing"
  ELSE IF Op(p, value) = "CONSTANT_INTEGER" THEN "parsing"
  ELSE IF Op(p, value) # "NEGATION" THEN "rejected"
  ELSE IF Right(p, value) = NULL THEN "crashed"
  ELSE IF Op(p, Right(p, value)) = "CONSTANT_INTEGER" THEN "parsing" ELSE "rejected"

\* Enters a function, or finds that it was declared; the defaults are taken off
\* the tree, and those of the first declaration are the ones that count.
AddUserDefinedIdentifier(p, tree, impl) ==
  LET head == Left(p, Left(p, tree))
      params == Parameters(p, Right(p, Left(p, tree)))
      Verdict(i) == DefaultVerdict(p, Default(p, params[i]),
                                   \E j \in 1..i-1 : Default(p, params[j]) # NULL)
      bad == {i \in DOMAIN params : Verdict(i) # "parsing"}
      Value(d) == IF d = NULL THEN {}
                  ELSE IF Op(p, d) = "NEGATION" THEN {-p.heap[Right(p, d)].n}
                  ELSE {p.heap[d].n}
      new == [name |-> p.heap[head].id, fn |-> TRUE, impl |-> impl, n |-> -1,
              top |-> Len(p.feed) = 1,
              ret |-> IF Op(p, Left(p, head)) = "KEYWORD_INT" THEN "int" ELSE "void",
              params |-> [i \in DOMAIN params |-> "int"],
              defaults |-> [i \in DOMAIN params |-> Value(Default(p, params[i]))]]
      bare == [p EXCEPT !.heap = [node \in DOMAIN @ |->
                 IF \E i \in DOMAIN params : node = Right(p, params[i])
                 THEN [@[node] EXCEPT !.r = NULL] ELSE @[node]]]
      known == {i \in DOMAIN p.ids : p.ids[i].fn /\ p.ids[i].name = new.name}
  IN IF bad # {} THEN [p EXCEPT !.status = Verdict(Min(bad))]
     ELSE IF known = {} THEN [bare EXCEPT !.ids = Append(@, new)]
     ELSE LET old == CHOOSE i \in known : TRUE
          IN IF \/ p.ids[old].params # new.params
                \/ p.ids[old].ret # new.ret
                \/ impl /\ p.ids[old].impl
             THEN PARSER_ERROR(p)
             ELSE [bare EXCEPT !.ids[old].impl = @ \/ impl]

\* An identifier is a variable until a function or a constant has the name.
TestIdentifierToken(p, t) ==
  LET named == {i \in DOMAIN p.ids : p.ids[i].name = t.id}
  IN IF t.t # "NAME" THEN t
     ELSE IF named = {} THEN [t EXCEPT !.t = "VARIABLE"]
     ELSE LET id == p.ids[CHOOSE i \in named : TRUE]
          IN IF ~id.fn THEN [t EXCEPT !.t = "INTEGER", !.n = id.n]
             ELSE [t EXCEPT !.t = IF id.ret = "int" THEN "INT_IDENTIFIER"
                                  ELSE "VOID_IDENTIFIER"]

RECURSIVE LastInChain(_, _)
LastInChain(p, tree) ==
  IF Right(p, tree) = NULL THEN tree ELSE LastInChain(p, Right(p, tree))

AddToGlobalVariableList(p, list) ==
  LET root == IF p.globals # NULL THEN p
              ELSE LET q == New(p, "GLOBAL_VARIABLES", NULL, NULL)
                   IN [q EXCEPT !.globals = Newest(q)]
      statement == New(root, "STATEMENT", list, NULL)
  IN SetRight(statement, LastInChain(root, root.globals), Newest(statement))

\* What looked like a function turns out to declare a global variable.
GlobalDeclaration(p, frame) ==
  LET head == Left(p, Left(p, frame.cur))
      name == p.heap[head].id
      declaration == New(SetLeft(p, head, NULL), "KEYWORD_DECLARATION", Left(p, head), NULL)
      statement == New(declaration, "STATEMENT", Newest(declaration), NULL)
      list == New(statement, "STATEMENT_LIST", Newest(statement), NULL)
      variable == Named(list, "VARIABLE", name)
      variables == New(variable, "VARIABLE_LIST", Newest(variable), NULL)
      token == TestIdentifierToken(p, [t |-> "NAME", id |-> name, n |-> 0])
  IN IF Op(p, Left(p, head)) = "KEYWORD_VOID" \/ token.t # "VARIABLE" THEN PARSER_ERROR(p)
     ELSE PushSRStack(Goto(SetRight(variables, Newest(declaration), Newest(variables)),
                           frame, 4, 3, Newest(list)),
                      "VARIABLES", 1, 2, Newest(statement))

FunctionalUnit(p, frame, t) ==
  CASE frame.rule = 0 /\ frame.term = 0 -> Await(p, frame, 0, 2, NULL, "ANY_TYPE")
    [] frame.term = 2 ->
         IF t.t \notin Identifiers \cup {"VARIABLE"} THEN PARSER_ERROR(p)
         ELSE LET id == Named(p, "FUNCTION_IDENTIFIER", t.id)
                  declaration == New(SetLeft(id, Newest(id), frame.ret),
                                     "FUNCTION_DECLARATION", Newest(id), NULL)
                  q == New(declaration, "FUNCTION", Newest(declaration), NULL)
              IN Take(Goto(q, frame, 0, 3, Newest(q)))
    [] frame.rule = 0 /\ frame.term = 3 ->
         CASE t.t = "(" -> Take(Await(p, frame, 0, 5, frame.cur, "PARAMETERS"))
           [] t.t \in {";", ",", "="} -> Goto(p, frame, 4, 0, frame.cur)
           [] OTHER -> PARSER_ERROR(p)
    [] frame.term = 5 ->
         Expect(p, t, ")", Goto(SetRight(p, Left(p, frame.cur), frame.ret), frame, 0, 6,
                                frame.cur))
    [] frame.term = 6 ->
         CASE t.t = ";" -> Accept(AddUserDefinedIdentifier(p, frame.cur, FALSE), frame.cur)
           [] t.t = "{" ->
                LET q == AddUserDefinedIdentifier(p, frame.cur, TRUE)
                    body == PushSRStack(Goto(q, frame, 2, 8, frame.cur), "STATEMENT", 1, 2, NULL)
                IN Take(PushSRStack(body, "COMPOUND", 0, 0, NULL))
           [] OTHER -> PARSER_ERROR(p)
    [] frame.term = 8 -> Reduce(SetRight(p, frame.cur, frame.ret), frame.cur)
    [] frame.rule = 4 /\ frame.term = 0 -> GlobalDeclaration(p, frame)
    [] frame.rule = 4 /\ frame.term = 3 ->
         Expect(p, t, ";", AddToGlobalVariableList(p, frame.cur))

\* The end of the outermost file leaves the program on top of the stack.
AfterProgram(p, frame, t) ==
  IF t.t # "EOF" THEN PARSER_ERROR(p)
  ELSE Accept(Goto(p, frame, 1, 1, frame.ret), frame.ret)

\* A file that is being read may not be read again; one that is not there, or
\* is empty, is an error too.
CompileFile(p, name) ==
  IF \/ Len(p.feed) >= MaxIncludeDepth
     \/ \E i \in DOMAIN p.feed : p.feed[i].name = name
     \/ name \notin DOMAIN p.src
  THEN PARSER_ERROR(p)
  ELSE [p EXCEPT !.feed = Append(@, [name |-> name, toks |-> p.src[name]])]

RECURSIVE Chain(_, _)
Chain(p, tree) == IF tree = NULL THEN <<>> ELSE <<tree>> \o Chain(p, Right(p, tree))

\* The units an include file left are taken apart, to wait for what follows.
AfterInclude(p, frame) ==
  LET units == Chain(p, frame.ret)
      apart == [p EXCEPT
        !.heap = [node \in DOMAIN @ |->
                    IF node \in ToSet(units) THEN [@[node] EXCEPT !.r = NULL] ELSE @[node]],
        !.stk = @ \o [i \in DOMAIN units |-> Frame("PROGRAM", 1, 3, units[i])]]
  IN Goto(apart, frame, 0, 0, IF units = <<>> THEN frame.cur ELSE Last(units))

Program(p, frame, t) ==
  CASE frame.rule = 0 ->
         LET q == IF frame.cur = NULL /\ Len(p.feed) <= 1
                  THEN PushSRStack(p, "AFTER_PROGRAM", 0, 0, NULL) ELSE p
         IN CASE t.t = "EOF" ->
                   IF Len(p.feed) > 1 THEN Accept(q, NULL) ELSE Reduce(q, NULL)
              [] t.t = "#include" -> Take(Goto(q, frame, 3, 1, frame.cur))
              [] OTHER -> Await(q, frame, 1, 2, NULL, "UNIT")
    [] frame.rule = 1 /\ frame.term = 2 ->
         LET q == New(p, "FUNCTIONAL_UNIT", frame.ret, NULL)
         IN Goto(Goto(q, frame, 1, 3, Newest(q)), frame, 0, 0, Newest(q))
    [] frame.rule = 1 /\ frame.term = 3 ->
         Reduce(SetRight(p, frame.cur, frame.ret), frame.cur)
    [] frame.rule = 3 /\ frame.term = 1 ->
         CASE t.t = "STRING" /\ t.id \in p.files -> Take(Goto(p, frame, 0, 0, frame.cur))
           [] t.t = "STRING" /\ t.id \notin p.files ->
                CompileFile(Take(Goto(Goto(p, frame, 3, 2, frame.cur), frame, 0, 0, frame.cur)),
                            t.id)
           [] OTHER -> p
    [] frame.rule = 3 /\ frame.term = 2 -> AfterInclude(p, frame)

Turn(p, frame, t) ==
  CASE frame.st = "PROGRAM" -> Program(p, frame, t)
    [] frame.st = "AFTER_PROGRAM" -> AfterProgram(p, frame, t)
    [] frame.st = "UNIT" -> FunctionalUnit(p, frame, t)
    [] frame.st = "PARAMETERS" -> ParameterList(p, frame, t)
    [] frame.st = "AFTER_PARAMETER" -> AfterParameter(p, frame, t)
    [] frame.st = "ANY_TYPE" -> AnyType(p, frame, t)
    [] frame.st = "NON_VOID_TYPE" -> NonVoidType(p, frame, t)
    [] frame.st = "COMPOUND" -> Compound(p, frame, t)
    [] frame.st = "STATEMENT_LIST" -> StatementList(p, frame, t)
    [] frame.st = "STATEMENT" -> Statement(p, frame, t)
    [] frame.st = "VARIABLES" -> Variables(p, frame, t)
    [] frame.st = "SEPARATOR" -> Separator(p, frame, t)
    [] frame.st = "ARGUMENTS" -> ArgumentList(p, frame, t)
    [] frame.st = "AFTER_ARGUMENT" -> AfterArgument(p, frame, t)
    [] frame.st = "BOOLEAN" -> BooleanExpression(p, frame, t)
    [] frame.st = "NON_VOID" -> NonVoidExpression(p, frame, t)
    [] frame.st = "EXPRESSION" -> Expression(p, frame, t)
    [] frame.st = "ASSIGNMENT" -> Assignment(p, frame, t)
    [] frame.st = "CONDITIONAL" -> Conditional(p, frame, t)
    [] frame.st = "LOGICAL_OR" -> LogicalOr(p, frame, t)
    [] frame.st = "LOGICAL_AND" -> LogicalAnd(p, frame, t)
    [] frame.st = "INCLUSIVE_OR" -> InclusiveOr(p, frame, t)
    [] frame.st = "EXCLUSIVE_OR" -> ExclusiveOr(p, frame, t)
    [] frame.st = "BOOLEAN_AND" -> BooleanAnd(p, frame, t)
    [] frame.st = "EQUALITY" -> Equality(p, frame, t)
    [] frame.st = "RELATIONAL" -> Relational(p, frame, t)
    [] frame.st = "SHIFT" -> Shift(p, frame, t)
    [] frame.st = "ADDITIVE" -> Additive(p, frame, t)
    [] frame.st = "MULTIPLICATIVE" -> Multiplicative(p, frame, t)
    [] frame.st = "UNARY" -> Unary(p, frame, t)
    [] frame.st = "POST" -> Post(p, frame, t)
    [] frame.st = "PRIMARY" -> Primary(p, frame, t)
    [] frame.st = "CONSTANT" -> Constant(p, frame, t)

RECURSIVE GenerateParseTree(_, _)
\* Frames are popped until one takes the token.
GenerateParseTree(p, t) ==
  IF p.taken \/ p.status # "parsing" THEN p
  ELSE IF p.stk = <<>> THEN PARSER_ERROR(p)
  ELSE GenerateParseTree(Turn(PopSRStack(p), Last(p.stk), t), t)

Parser(name, src, ids) ==
  [stk |-> <<Frame("PROGRAM", 0, 0, NULL)>>, heap |-> <<>>, taken |-> FALSE, ids |-> ids,
   globals |-> NULL, files |-> {}, src |-> src, status |-> "parsing",
   feed |-> <<[name |-> name, toks |-> src[name]]>>]

EndOfFile == [t |-> "EOF", id |-> "", n |-> 0]

\* The parser p before and q after the token t.  A file counts as included once a
\* node of the tree was made from it.
AfterToken(p, q, t) ==
  LET files == IF Len(q.heap) = Len(p.heap) THEN q.files ELSE q.files \cup {Last(p.feed).name}
      ended == t.t = "EOF" /\ q.status = "parsing"
  IN [q EXCEPT !.files = files,
               !.status = IF ended /\ Len(q.feed) = 1 THEN "parsed" ELSE @,
               !.feed = IF ended /\ Len(@) > 1 THEN Front(@) ELSE @]

\* One token of ParseSource.
ParseToken(p) ==
  LET toks == Last(p.feed).toks
      t == IF toks = <<>> THEN EndOfFile ELSE TestIdentifierToken(p, Head(toks))
      fed == [p EXCEPT !.taken = FALSE,
                       !.feed[Len(p.feed)].toks = IF toks = <<>> THEN <<>> ELSE Tail(toks)]
  IN AfterToken(p, GenerateParseTree(fed, t), t)
=============================================================================
