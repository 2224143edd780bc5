--------------------------- MODULE ScriptMeaning ---------------------------
(***************************************************************************)
(* What scripts mean, apart from how they are compiled: the abstract syntax *)
(* of expressions, statements and functions, the tokens that write it down *)
(* with no more brackets than the precedence of the operators asks for, and *)
(* an evaluator.  The meaning of a script is what it hands to TakeInt, and  *)
(* whether it ends or fails on a division by zero.                         *)
(***************************************************************************)
EXTENDS Integers, SequencesExt, Bitwise

\* Expressions.
Num(v) == [k |-> "int", v |-> v]
Var(x) == [k |-> "var", x |-> x]
Un(op, e) == [k |-> "un", op |-> op, e |-> e]
Bin(l, op, r) == [k |-> "bin", op |-> op, l |-> l, r |-> r]
Choice(c, l, r) == [k |-> "choice", c |-> c, l |-> l, r |-> r]
Pre(op, x) == [k |-> "pre", op |-> op, x |-> x]
Suf(x, op) == [k |-> "suf", op |-> op, x |-> x]
Set(x, op, e) == [k |-> "set", op |-> op, x |-> x, e |-> e]
Fun(f, args) == [k |-> "fun", f |-> f, args |-> args]

\* Statements.  Optional parts are sequences of at most one.
Do1(e) == [k |-> "do1", e |-> e]
Decl(x, init) == [k |-> "decl", x |-> x, init |-> init]
Blk(list) == [k |-> "blk", list |-> list]
IfS(c, s, else) == [k |-> "if", c |-> c, s |-> s, else |-> else]
WhileS(c, s) == [k |-> "while", c |-> c, s |-> s]
DoS(s, c) == [k |-> "dowhile", c |-> c, s |-> s]
ForS(i, c, n, s) == [k |-> "for", i |-> i, c |-> c, n |-> n, s |-> s]
SwitchS(e, list) == [k |-> "switch", e |-> e, list |-> list]
Case(e) == [k |-> "case", e |-> e]
Word(w) == [k |-> "word", w |-> w]
Ret(e) == [k |-> "ret", e |-> e]
Empty == [k |-> "empty"]
\* Tokens that are no statement, for scripts that are not valid.
Tokens(list) == [k |-> "tokens", list |-> list]

\* Units of a file.  A parameter is [x, init]; a prototype has no body.
Func(type, f, params, body) ==
  [k |-> "func", type |-> type, f |-> f, params |-> params, body |-> body]
Glob(x, init) == [k |-> "glob", x |-> x, init |-> init]
Incl(file) == [k |-> "incl", file |-> file]

-----------------------------------------------------------------------------
(* The tokens. *)

T(t) == [t |-> t, id |-> "", n |-> 0]
Name(x) == [t |-> "NAME", id |-> x, n |-> 0]

Prec ==
  [op \in {"||", "&&", "|", "^", "&", "==", "!=", "<", ">", "<=", ">=", "<<", ">>", ">>>",
           "+", "-", "*", "/", "%"} |->
     CASE op = "||" -> 3 [] op = "&&" -> 4 [] op = "|" -> 5 [] op = "^" -> 6 [] op = "&" -> 7
       [] op \in {"==", "!="} -> 8 [] op \in {"<", ">", "<=", ">="} -> 9
       [] op \in {"<<", ">>", ">>>"} -> 10 [] op \in {"+", "-"} -> 11 [] OTHER -> 12]

Level(e) ==
  CASE e.k = "set" -> 1
    [] e.k = "choice" -> 2
    [] e.k = "bin" -> Prec[e.op]
    [] e.k \in {"un", "pre"} -> 13
    [] e.k = "suf" -> 14
    [] OTHER -> 15

RECURSIVE Text(_, _)
\* An expression where one of at least this level is wanted.
Text(e, level) ==
  LET Args(args) == FlattenSeq([i \in DOMAIN args |->
                      (IF i = 1 THEN <<>> ELSE <<T(",")>>) \o Text(args[i], 1)])
      text == CASE e.k = "int" -> <<[t |-> "INTEGER", id |-> "", n |-> e.v]>>
                [] e.k = "var" -> <<Name(e.x)>>
                [] e.k = "un" -> <<T(e.op)>> \o Text(e.e, 14)
                [] e.k = "bin" ->
                     Text(e.l, Prec[e.op]) \o <<T(e.op)>> \o Text(e.r, Prec[e.op] + 1)
                [] e.k = "choice" ->
                     Text(e.c, 3) \o <<T("?")>> \o Text(e.l, 2) \o <<T(":")>> \o Text(e.r, 2)
                [] e.k = "pre" -> <<T(e.op), Name(e.x)>>
                [] e.k = "suf" -> <<Name(e.x), T(e.op)>>
                [] e.k = "set" -> <<Name(e.x), T(e.op)>> \o Text(e.e, 2)
                [] e.k = "fun" -> <<Name(e.f), T("(")>> \o Args(e.args) \o <<T(")")>>
  IN IF Level(e) < level THEN <<T("(")>> \o text \o <<T(")")>> ELSE text

Maybe(list) == IF list = <<>> THEN <<>> ELSE Text(list[1], 1)
Given(init) == IF init = <<>> THEN <<>> ELSE <<T("=")>> \o Text(init[1], 2)

RECURSIVE Lines(_)
Lines(s) ==
  LET All(list) == FlattenSeq([i \in DOMAIN list |-> Lines(list[i])])
      Braced(list) == <<T("{")>> \o All(list) \o <<T("}")>>
      In(c) == <<T("(")>> \o Text(c, 1) \o <<T(")")>>
  IN CASE s.k = "do1" -> Text(s.e, 1) \o <<T(";")>>
       [] s.k = "decl" -> <<T("int"), Name(s.x)>> \o Given(s.init) \o <<T(";")>>
       [] s.k = "blk" -> Braced(s.list)
       [] s.k = "if" -> <<T("if")>> \o In(s.c) \o Lines(s.s)
            \o (IF s.else = <<>> THEN <<>> ELSE <<T("else")>> \o Lines(s.else[1]))
       [] s.k = "while" -> <<T("while")>> \o In(s.c) \o Lines(s.s)
       [] s.k = "dowhile" ->
            <<T("do")>> \o Lines(s.s) \o <<T("while")>> \o In(s.c) \o <<T(";")>>
       [] s.k = "for" ->
            <<T("for"), T("(")>> \o Maybe(s.i) \o <<T(";")>> \o Maybe(s.c) \o <<T(";")>>
              \o Maybe(s.n) \o <<T(")")>> \o Lines(s.s)
       [] s.k = "switch" -> <<T("switch")>> \o In(s.e) \o Braced(s.list)
       [] s.k = "case" -> <<T("case")>> \o Text(s.e, 2) \o <<T(":")>>
       [] s.k = "word" -> <<T(s.w)>> \o <<T(IF s.w = "default" THEN ":" ELSE ";")>>
       [] s.k = "ret" -> <<T("return")>> \o Maybe(s.e) \o <<T(";")>>
       [] s.k = "empty" -> <<T(";")>>
       [] s.k = "tokens" -> s.list

Unit(u) ==
  LET Param(i) == (IF i = 1 THEN <<>> ELSE <<T(",")>>)
                    \o <<T("int"), Name(u.params[i].x)>> \o Given(u.params[i].init)
  IN CASE u.k = "incl" -> <<T("#include"), [t |-> "STRING", id |-> u.file, n |-> 0]>>
       [] u.k = "glob" -> <<T("int"), Name(u.x)>> \o Given(u.init) \o <<T(";")>>
       [] u.k = "func" ->
            <<T(u.type), Name(u.f), T("(")>>
              \o FlattenSeq([i \in DOMAIN u.params |-> Param(i)]) \o <<T(")")>>
              \o (IF u.body = <<>> THEN <<T(";")>> ELSE Lines(Blk(u.body[1])))

Source(files) ==
  [f \in DOMAIN files |-> FlattenSeq([i \in DOMAIN files[f] |-> Unit(files[f][i])])]

-----------------------------------------------------------------------------
(* The evaluator.  A state has the variables of the function that runs, the *)
(* global variables, what was taken, how the last statement ended and the  *)
(* value of the last expression.                                           *)

Truth01(b) == IF b THEN 1 ELSE 0

\* The quotient of a and b, rounded towards zero.
Divided(a, b) ==
  LET abs(n) == IF n < 0 THEN -n ELSE n
  IN CHOOSE q \in -abs(a)..abs(a) :
       abs(q * b) <= abs(a) /\ abs(a) - abs(q * b) < abs(b) /\ (q = 0 \/ q * b * a > 0)

Calculated(a, op, b) ==
  CASE op = "|" -> a | b [] op = "^" -> a ^^ b [] op = "&" -> a & b
    [] op = "==" -> Truth01(a = b) [] op = "!=" -> Truth01(a # b)
    [] op = "<" -> Truth01(a < b) [] op = ">" -> Truth01(a > b)
    [] op = "<=" -> Truth01(a <= b) [] op = ">=" -> Truth01(a >= b)
    [] op = "<<" -> a * 2^b [] op \in {">>", ">>>"} -> a \div 2^b
    [] op = "+" -> a + b [] op = "-" -> a - b [] op = "*" -> a * b
    [] op = "/" -> Divided(a, b) [] op = "%" -> a - b * Divided(a, b)

Compound ==
  [op \in {"+=", "-=", "*=", "/=", "%=", "&=", "^=", "|=", "<<=", ">>=", ">>>="} |->
     CASE op = "+=" -> "+" [] op = "-=" -> "-" [] op = "*=" -> "*" [] op = "/=" -> "/"
       [] op = "%=" -> "%" [] op = "&=" -> "&" [] op = "^=" -> "^" [] op = "|=" -> "|"
       [] op = "<<=" -> "<<" [] op = ">>=" -> ">>" [] op = ">>>=" -> ">>>"]

\* The innermost variable of a name; a local one hides a global one.
Local(s, x) == {i \in DOMAIN s.vars : s.vars[i].x = x}
Look(s, x) ==
  IF Local(s, x) # {} THEN s.vars[Max(Local(s, x))].v
  ELSE s.globs[CHOOSE i \in DOMAIN s.globs : s.globs[i].x = x].v
Put(s, x, v) ==
  IF Local(s, x) # {} THEN [s EXCEPT !.vars[Max(Local(s, x))].v = v]
  ELSE [s EXCEPT !.globs = [i \in DOMAIN @ |-> IF @[i].x = x THEN [x |-> x, v |-> v] ELSE @[i]]]
Yield(s, v) == [s EXCEPT !.val = v]
Going(s) == s.ctl = "go"
By(op) == IF op = "++" THEN 1 ELSE -1

RECURSIVE Eval(_, _, _), EvalArgs(_, _, _), Exec(_, _, _), ExecAll(_, _, _), Loop(_, _, _, _, _)

Eval(P, s, e) ==
  LET Binary(op, l, r) ==
        LET a == Eval(P, s, l)
            b == Eval(P, a, r)
        IN IF ~Going(b) THEN b
           ELSE IF op \in {"/", "%"} /\ b.val = 0 THEN [b EXCEPT !.ctl = "fail"]
           ELSE Yield(b, Calculated(a.val, op, b.val))
      Lazy(op, l, r) ==
        LET a == Eval(P, s, l)
            b == Eval(P, a, r)
        IN IF (a.val # 0) = (op = "||") THEN Yield(a, Truth01(a.val # 0))
           ELSE Yield(b, Truth01(b.val # 0))
  IN CASE e.k = "int" -> Yield(s, e.v)
       [] e.k = "var" -> Yield(s, Look(s, e.x))
       [] e.k = "un" ->
            LET a == Eval(P, s, e.e)
            IN Yield(a, CASE e.op = "-" -> -a.val [] e.op = "~" -> -a.val - 1
                          [] e.op = "!" -> Truth01(a.val = 0) [] e.op = "+" -> a.val)
       [] e.k = "bin" -> IF e.op \in {"||", "&&"} THEN Lazy(e.op, e.l, e.r)
                         ELSE Binary(e.op, e.l, e.r)
       [] e.k = "choice" ->
            LET c == Eval(P, s, e.c) IN Eval(P, c, IF c.val # 0 THEN e.l ELSE e.r)
       [] e.k = "pre" -> Yield(Put(s, e.x, Look(s, e.x) + By(e.op)), Look(s, e.x) + By(e.op))
       [] e.k = "suf" -> Yield(Put(s, e.x, Look(s, e.x) + By(e.op)), Look(s, e.x))
       [] e.k = "set" ->
            LET a == IF e.op = "=" THEN Eval(P, s, e.e)
                     ELSE Binary(Compound[e.op], Var(e.x), e.e)
            IN IF Going(a) THEN Put(a, e.x, a.val) ELSE a
       [] e.k = "fun" -> EvalArgs(P, [st |-> s, vals |-> <<>>], e)

\* The last argument comes first; what is left out has its default.
EvalArgs(P, w, e) ==
  IF e.f = "TakeClosure" THEN w.st
  ELSE IF e.f = "TakeInt"
  THEN LET a == Eval(P, w.st, e.args[1])
       IN IF Going(a) THEN [a EXCEPT !.out = Append(@, a.val)] ELSE a
  ELSE LET params == P[e.f].params
           left == Len(e.args) - Len(w.vals)
       IN IF ~Going(w.st) THEN w.st
          ELSE IF left > 0
          THEN LET a == Eval(P, w.st, e.args[left])
               IN EvalArgs(P, [st |-> a, vals |-> <<a.val>> \o w.vals], e)
          ELSE LET filled == [i \in DOMAIN params |->
                     [x |-> params[i].x,
                      v |-> IF i <= Len(w.vals) THEN w.vals[i]
                            ELSE Eval(P, w.st, params[i].init[1]).val]]
                   r == ExecAll(P, [w.st EXCEPT !.vars = filled], P[e.f].body[1])
               IN [r EXCEPT !.vars = w.st.vars,
                            !.ctl = IF @ = "return" THEN "go" ELSE @]

\* A block forgets the variables that it declared.
Exec(P, s, t) ==
  LET Block(list, from) ==
        LET r == ExecAll(P, from, list)
        IN [r EXCEPT !.vars = SubSeq(@, 1, Len(s.vars))]
      Cond(c) == Eval(P, s, c)
  IN CASE t.k = "do1" -> Eval(P, s, t.e)
       [] t.k = "decl" ->
            LET a == IF t.init = <<>> THEN Yield(s, 0) ELSE Eval(P, s, t.init[1])
            IN [a EXCEPT !.vars = Append(@, [x |-> t.x, v |-> a.val])]
       [] t.k = "blk" -> Block(t.list, s)
       [] t.k = "if" ->
            LET c == Cond(t.c)
            IN IF ~Going(c) THEN c
               ELSE IF c.val # 0 THEN Exec(P, c, t.s)
               ELSE IF t.else = <<>> THEN c ELSE Exec(P, c, t.else[1])
       [] t.k = "while" -> Loop(P, s, t.c, t.s, <<>>)
       [] t.k = "dowhile" ->
            LET b == Exec(P, s, t.s)
            IN IF b.ctl \in {"go", "continue"}
               THEN Loop(P, [b EXCEPT !.ctl = "go"], t.c, t.s, <<>>)
               ELSE IF b.ctl = "break" THEN [b EXCEPT !.ctl = "go"] ELSE b
       [] t.k = "for" ->
            LET i == IF t.i = <<>> THEN s ELSE Eval(P, s, t.i[1])
            IN Loop(P, i, IF t.c = <<>> THEN Num(1) ELSE t.c[1], t.s, t.n)
       [] t.k = "switch" ->
            LET v == Cond(t.e)
                list == t.list
                Is(i, w) == list[i].k = "word" /\ list[i].w = w
                cases == {i \in DOMAIN list :
                            list[i].k = "case" /\ Eval(P, s, list[i].e).val = v.val}
                others == {i \in DOMAIN list : Is(i, "default")}
                r == Block(SubSeq(list, Min(cases \cup (IF cases = {} THEN others ELSE {})),
                                  Len(list)), v)
            IN IF ~Going(v) \/ cases \cup others = {} THEN v
               ELSE IF r.ctl = "break" THEN [r EXCEPT !.ctl = "go"] ELSE r
       [] t.k \in {"case", "empty"} -> s
       [] t.k = "word" -> IF t.w \in {"break", "continue"} THEN [s EXCEPT !.ctl = t.w] ELSE s
       [] t.k = "ret" -> LET a == IF t.e = <<>> THEN s ELSE Eval(P, s, t.e[1])
                         IN IF Going(a) THEN [a EXCEPT !.ctl = "return"] ELSE a

ExecAll(P, s, list) ==
  IF list = <<>> \/ ~Going(s) THEN s ELSE ExecAll(P, Exec(P, s, Head(list)), Tail(list))

Loop(P, s, c, body, step) ==
  LET test == Eval(P, s, c)
      b == Exec(P, test, body)
      on == [b EXCEPT !.ctl = "go"]
  IN IF ~Going(test) \/ test.val = 0 THEN test
     ELSE IF b.ctl \in {"go", "continue"}
     THEN Loop(P, IF step = <<>> THEN on ELSE Eval(P, on, step[1]), c, body, step)
     ELSE IF b.ctl = "break" THEN on ELSE b

\* What a script whose files are these does: the units of an include file stand
\* where it is first included.
RECURSIVE Units(_, _)
Units(files, f) ==
  FlattenSeq([i \in DOMAIN files[f] |->
    IF files[f][i].k = "incl" THEN Units(files, files[f][i].file) ELSE <<files[f][i]>>])

Behaviour(files, root) ==
  LET units == Units(files, root)
      bodies == SelectSeq(units, LAMBDA u : u.k = "func" /\ u.body # <<>>)
      heads == SelectSeq(units, LAMBDA u : u.k = "func")
      FirstHead(f) == heads[Min({i \in DOMAIN heads : heads[i].f = f})]
      P == [f \in {bodies[i].f : i \in DOMAIN bodies} |->
              LET b == bodies[CHOOSE i \in DOMAIN bodies : bodies[i].f = f]
              IN [params |-> [i \in DOMAIN b.params |->
                                [x |-> b.params[i].x, init |-> FirstHead(f).params[i].init]],
                  body |-> b.body]]
      globals == SelectSeq(units, LAMBDA u : u.k = "glob")
      Declare(s, u) ==
        LET a == IF u.init = <<>> THEN Yield(s, 0) ELSE Eval(P, s, u.init[1])
        IN [a EXCEPT !.globs = Append(@, [x |-> u.x, v |-> a.val])]
      start == FoldLeft(Declare, [vars |-> <<>>, globs |-> <<>>, out |-> <<>>, ctl |-> "go",
                                  val |-> 0], globals)
      end == Eval(P, start, Fun("main", <<>>))
  IN [out |-> end.out, fails |-> end.ctl = "fail"]
=============================================================================
