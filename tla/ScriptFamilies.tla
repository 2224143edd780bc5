--------------------------- MODULE ScriptFamilies ---------------------------
(***************************************************************************)
(* The scripts that the native compiler is checked on.  A script is         *)
(* [files, valid]: the units of each file, main being the one that is       *)
(* compiled, and whether it is one the compiler should take.  Each family   *)
(* gets at one kind of trouble; numbers stay small, so that nothing here    *)
(* depends on the width of an integer.                                     *)
(***************************************************************************)
EXTENDS ScriptMeaning

Take(e) == Do1(Fun("TakeInt", <<e>>))
Main(list) == Func("void", "main", <<>>, <<list>>)
Script(units) == [files |-> [main |-> units], valid |-> TRUE]
Body(list) == Script(<<Main(list)>>)
NoScript(units) == [files |-> [main |-> units], valid |-> FALSE]
NoBody(list) == NoScript(<<Main(list)>>)
i == Var("i")
j == Var("j")

-----------------------------------------------------------------------------
(* A jump in a loop or switch inside another one, and behind it.  The blocks *)
(* declare variables, which the jump has to take off the stack.            *)

LoopKinds == <<"while", "do", "for", "switch">>

\* Two rounds of a loop, or one case of a switch, in which a variable counts.
Around(kind, x, list) ==
  CASE kind = "while" ->
         <<Do1(Set(x, "=", Num(0))),
           WhileS(Bin(Var(x), "<", Num(2)), Blk(<<Do1(Suf(x, "++"))>> \o list))>>
    [] kind = "do" ->
         <<Do1(Set(x, "=", Num(0))),
           DoS(Blk(<<Do1(Suf(x, "++"))>> \o list), Bin(Var(x), "<", Num(2)))>>
    [] kind = "for" ->
         <<ForS(<<Set(x, "=", Num(1))>>, <<Bin(Var(x), "<=", Num(2))>>, <<Pre("++", x)>>,
                Blk(list))>>
    [] kind = "switch" ->
         <<Do1(Set(x, "=", Num(1))),
           SwitchS(Var(x), <<Case(Num(3)), Take(Num(93)), Case(Num(1))>> \o <<Blk(list)>>
                             \o <<Word("default"), Take(Num(90))>>)>>

Jumps == <<"break", "continue", "return">>
JumpIf(jump, x) ==
  IfS(Bin(Var(x), "==", Num(1)),
      Blk(<<Decl("m", <<Num(4)>>), IF jump = "return" THEN Ret(<<>>) ELSE Word(jump)>>), <<>>)

Nest(outer, inner, where, jump) ==
  LET k == Decl("k", <<Bin(i, "*", Num(10))>>)
      within == IF where = "inner" THEN <<JumpIf(jump, "j")>> ELSE <<>>
      behind == IF where = "outer" THEN <<JumpIf(jump, "i")>> ELSE <<>>
  IN Body(<<Decl("i", <<>>), Decl("j", <<>>)>>
       \o Around(outer, "i",
            <<k>> \o Around(inner, "j",
                       <<Take(Bin(Var("k"), "+", j))>> \o within \o <<Take(Num(7))>>)
              \o behind \o <<Take(i)>>)
       \o <<Take(Num(5))>>)

\* A continue belongs to a loop.
JumpsFit(outer, inner, where, jump) ==
  jump = "continue" => outer # "switch" \/ (where = "inner" /\ inner # "switch")

Each(list, Of(_)) == FlattenSeq([n \in DOMAIN list |-> Of(list[n])])

Nests ==
  Each(LoopKinds, LAMBDA outer : Each(LoopKinds, LAMBDA inner :
    Each(<<"inner", "outer">>, LAMBDA where : Each(Jumps, LAMBDA jump :
      IF JumpsFit(outer, inner, where, jump) THEN <<Nest(outer, inner, where, jump)>>
      ELSE <<>>))))

\* A loop or switch that is the first code of the body of a do, which then leaves.
\* The nests above have a declaration in front of the inner one.
ClashOf(inner) ==
  LET first == CASE inner = "while" -> WhileS(Bin(j, "<", Num(1)), Do1(Suf("j", "++")))
                 [] inner = "do" -> DoS(Do1(Suf("j", "++")), Bin(j, "<", Num(1)))
                 [] inner = "for" -> ForS(<<>>, <<Bin(j, "<", Num(1))>>, <<Suf("j", "++")>>,
                                          Take(j))
                 [] inner = "switch" -> SwitchS(j, <<Case(Num(0)), Do1(Suf("j", "++"))>>)
  IN Body(<<Decl("j", <<>>),
            DoS(Blk(<<first, Take(j), IfS(Bin(j, "==", Num(1)), Word("break"), <<>>)>>),
                Bin(Num(0), "==", Num(1))),
            Take(Num(5))>>)

Clashes == [n \in DOMAIN LoopKinds |-> ClashOf(LoopKinds[n])]

-----------------------------------------------------------------------------
(* Operators of all levels in each other's operands, on variables and on    *)
(* constants, which are folded.                                            *)

Levels == <<"||", "&&", "|", "^", "&", "==", "<", "<<", "+", "-", "*", "/", "%", "!=", ">=",
            ">", "<=", ">>", ">>>">>
Bits == {"|", "^", "&", "<<", ">>", ">>>"}

\* Bit operations are left to numbers that are not negative, and nothing is
\* divided by zero here.
Pairs(op, x, y, z) ==
  LET fitting == SelectSeq(Levels, LAMBDA o : ~("-" \in {op, o} /\ {op, o} \cap Bits # {}))
      Value(e) == Eval(<<>>, [vars |-> <<[x |-> "a", v |-> 7], [x |-> "b", v |-> 2],
                                         [x |-> "c", v |-> 1]>>,
                              globs |-> <<>>, out |-> <<>>, ctl |-> "go", val |-> 0], e)
      two == FlattenSeq([n \in DOMAIN fitting |->
               <<Bin(x, op, Bin(y, fitting[n], z)), Bin(Bin(x, fitting[n], y), op, z)>>])
  IN SelectSeq(two, LAMBDA e : Going(Value(e)))

Takes(list) == [n \in DOMAIN list |-> Take(list[n])]
Abc == <<Decl("a", <<Num(7)>>), Decl("b", <<Num(2)>>), Decl("c", <<Num(1)>>)>>

Operators ==
  [n \in DOMAIN Levels |-> Body(Abc \o Takes(Pairs(Levels[n], Var("a"), Var("b"), Var("c"))))]
FoldedOperators ==
  [n \in DOMAIN Levels |-> Body(Takes(Pairs(Levels[n], Num(7), Num(2), Num(1))))]

a == Var("a")
b == Var("b")
c == Var("c")

\* Prefixes, conditionals, assignments and operands that have effects.
Effects == <<
  Body(Abc \o <<
    Take(Un("-", a)), Take(Un("~", b)), Take(Un("!", c)), Take(Un("!", Un("!", a))),
    Take(Un("-", Num(3))), Take(Un("~", Num(0))), Take(Un("-", Bin(a, "*", b))),
    Take(Bin(Un("-", a), "*", b)), Take(Un("+", a)),
    Take(Choice(a, b, c)), Take(Choice(Bin(a, "<", b), Num(3), Choice(c, Num(4), Num(5)))),
    Take(Bin(Num(1), "+", Choice(Num(0), a, b))), Take(Choice(Num(1), Num(8), Num(9)))>>),
  Body(Abc \o <<
    Take(Pre("++", "a")), Take(Suf("a", "++")), Take(a), Take(Pre("--", "a")),
    Take(Suf("a", "--")), Take(a), Take(Bin(a, "+", Suf("a", "++"))),
    Take(Bin(Suf("a", "--"), "-", a)), Take(Bin(Pre("++", "b"), "*", b)),
    Take(Set("c", "=", Bin(a, "+", b))), Take(c)>>),
  Body(Abc \o FlattenSeq([n \in 1..8 |->
    LET ops == <<"+=", "-=", "*=", "/=", "%=", "|=", "^=", "&=">>
    IN <<Do1(Set("a", ops[n], Bin(b, "+", Num(1)))), Take(a), Do1(Set("a", "+=", Num(5)))>>])
    \o <<Do1(Set("b", "<<=", Num(3))), Do1(Set("b", ">>=", c)), Do1(Set("b", ">>>=", c)),
         Take(b)>>),
  \* The second operand is evaluated, or not.
  Body(Abc \o <<
    Take(Bin(Bin(a, ">", b), "||", Suf("c", "++"))), Take(c),
    Take(Bin(Bin(a, "<", b), "||", Suf("c", "++"))), Take(c),
    Take(Bin(Bin(a, ">", b), "&&", Suf("c", "++"))), Take(c),
    Take(Bin(Bin(a, "<", b), "&&", Suf("c", "++"))), Take(c),
    Take(Bin(Bin(Num(0), "&&", Suf("c", "++")), "||", Suf("b", "--"))), Take(b), Take(c),
    IfS(Bin(Suf("b", "--"), "&&", Bin(Suf("b", "--"), "||", Suf("c", "++"))), Take(b),
        <<Take(c)>>),
    Take(b), Take(Choice(Suf("b", "++"), Suf("c", "++"), Suf("a", "++"))), Take(a), Take(c)>>),
  \* A division by zero is left to the script, which fails there.
  Body(Abc \o <<Take(a), Take(Bin(a, "/", Bin(b, "-", Num(2)))), Take(b)>>),
  Body(<<Take(Num(1)), Take(Bin(Num(7), "%", Num(0))), Take(Num(2))>>)>>

-----------------------------------------------------------------------------
(* Functions, global variables, include files. *)

P0(x) == [x |-> x, init |-> <<>>]
P1(x, e) == [x |-> x, init |-> <<e>>]
f == "f"

Twice == Func("int", f, <<P0("n")>>, <<<<Ret(<<Bin(Var("n"), "*", Num(2))>>)>>>>)
Factorial ==
  Func("int", f, <<P0("n")>>,
    <<<<IfS(Bin(Var("n"), "<=", Num(1)), Ret(<<Num(1)>>), <<>>),
        Ret(<<Bin(Var("n"), "*", Fun(f, <<Bin(Var("n"), "-", Num(1))>>))>>)>>>>)
\* The way out leaves two loops and their variables at once.
Search ==
  Func("int", f, <<P0("n"), P0("m")>>,
    <<<<Decl("i", <<>>),
        WhileS(Num(1),
          Blk(<<Decl("q", <<Suf("i", "++")>>),
                SwitchS(Var("q"),
                  <<Case(Num(2)), Blk(<<Decl("r", <<Bin(Var("q"), "+", Var("m"))>>),
                                        Ret(<<Bin(Var("r"), "+", Var("n"))>>)>>),
                    Word("default"), Take(Var("q"))>>)>>)),
        Ret(<<Num(0)>>)>>>>)
Defaulted ==
  Func("int", f, <<P0("x"), P1("y", Num(4)), P1("z", Un("-", Num(3)))>>,
    <<<<Ret(<<Bin(Bin(Var("x"), "*", Num(100)), "+", Bin(Var("y"), "*", Var("z")))>>)>>>>)
Branches ==
  Func("int", f, <<P0("x")>>,
    <<<<IfS(Var("x"), Blk(<<Decl("y", <<Num(3)>>), Ret(<<Var("y")>>)>>),
            <<IfS(Bin(Var("x"), "==", Num(0)), Ret(<<Num(6)>>), <<Ret(<<Num(7)>>)>>)>>)>>>>)

Functions == <<
  Script(<<Twice, Main(<<Take(Fun(f, <<Fun(f, <<Num(3)>>)>>)), Do1(Fun(f, <<Num(1)>>)),
                         Take(Bin(Fun(f, <<Num(5)>>), "+", Fun(f, <<Num(6)>>)))>>)>>),
  Script(<<Factorial, Main(<<Take(Fun(f, <<Num(4)>>))>>)>>),
  Script(<<Search, Main(<<Decl("k", <<Num(1)>>), Take(Fun(f, <<Num(10), Num(20)>>)),
                          Take(Var("k"))>>)>>),
  Script(<<Defaulted, Main(<<Take(Fun(f, <<Num(1)>>)), Take(Fun(f, <<Num(1), Num(2)>>)),
                             Take(Fun(f, <<Num(1), Num(2), Num(5)>>))>>)>>),
  Script(<<Branches, Main(<<Take(Fun(f, <<Num(1)>>)), Take(Fun(f, <<Num(0)>>))>>)>>),
  \* The arguments are evaluated from the last one on.
  Script(<<Func("int", f, <<P0("x"), P0("y")>>,
                <<<<Take(Var("x")), Take(Var("y")), Ret(<<Bin(Var("x"), "-", Var("y"))>>)>>>>),
           Main(<<Decl("a", <<Num(1)>>),
                  Take(Fun(f, <<Suf("a", "++"), Suf("a", "++")>>)), Take(a)>>)>>),
  \* Two functions that call each other, one that is never called, and a function
  \* that was declared with the defaults before.
  Script(<<Func("int", "odd", <<P1("n", Num(3))>>, <<>>),
           Func("int", "even", <<P0("n")>>,
                <<<<IfS(Bin(Var("n"), "==", Num(0)), Ret(<<Num(1)>>), <<>>),
                    Ret(<<Fun("odd", <<Bin(Var("n"), "-", Num(1))>>)>>)>>>>),
           Func("void", "idle", <<>>, <<<<Take(Fun("even", <<Num(9)>>))>>>>),
           Func("int", "odd", <<P0("n")>>,
                <<<<IfS(Bin(Var("n"), "==", Num(0)), Ret(<<Num(0)>>), <<>>),
                    Ret(<<Fun("even", <<Bin(Var("n"), "-", Num(1))>>)>>)>>>>),
           Main(<<Take(Fun("odd", <<>>)), Take(Fun("even", <<Num(2)>>))>>)>>),
  \* A void function, called as a statement, with a way out of a loop.
  Script(<<Func("void", f, <<P0("x"), P0("y")>>,
                <<<<Decl("k", <<Num(9)>>),
                    WhileS(Num(1), Blk(<<Decl("m", <<Num(2)>>),
                                         IfS(Var("x"), Blk(<<Take(Var("y")), Ret(<<>>)>>), <<>>),
                                         Word("break")>>)), Take(Var("k"))>>>>),
           Main(<<Do1(Fun(f, <<Num(1), Num(8)>>)), Do1(Fun(f, <<Num(0), Num(8)>>)),
                  Do1(Fun("TakeClosure", <<Fun("TakeInt", <<Num(6)>>)>>)), Take(Num(3))>>)>>),
  \* A global variable, and names that hide each other.
  Script(<<Glob("g", <<>>),
           Func("void", f, <<>>, <<<<Do1(Suf("g", "++")), Do1(Set("g", "+=", Num(2)))>>>>),
           Main(<<Do1(Fun(f, <<>>)), Take(Var("g")), Do1(Set("g", "=", Num(5))),
                  Take(Pre("--", "g")), Blk(<<Decl("g", <<Num(1)>>), Take(Var("g"))>>),
                  Take(Bin(Var("g"), "*", Num(2))), Do1(Set("g", "=", Num(0)))>>)>>),
  Body(<<Decl("x", <<Num(1)>>), Blk(<<Decl("x", <<Num(2)>>), Take(Var("x")),
           Blk(<<Decl("y", <<Bin(Var("x"), "+", Num(1))>>), Do1(Set("x", "=", Var("y")))>>),
           Take(Var("x"))>>), Take(Var("x"))>>)>>

\* An include that is read once, through two ways, and before what follows it.
Includes == <<
  [valid |-> TRUE,
   files |-> [main |-> <<Incl("lib"), Func("void", "h", <<>>, <<<<Take(Fun(f, <<Num(1)>>))>>>>),
                         Incl("both"), Main(<<Do1(Fun("h", <<>>)), Take(Fun("k", <<>>))>>)>>,
              lib |-> <<Twice>>,
              both |-> <<Incl("lib"), Func("int", "k", <<>>, <<<<Ret(<<Fun(f, <<Num(7)>>)>>)>>>>)>>]],
  [valid |-> FALSE, files |-> [main |-> <<Incl("nowhere"), Main(<<>>)>>]],
  \* The entry point is that of the file that is compiled.
  [valid |-> FALSE, files |-> [main |-> <<Incl("lib"), Twice>>, lib |-> <<Main(<<>>)>>]],
  \* A file that includes itself before it has declared anything.
  [valid |-> FALSE, files |-> [main |-> <<Incl("lib"), Main(<<>>)>>, lib |-> <<Incl("lib"), Twice>>]]>>
-----------------------------------------------------------------------------
(* Branches that a constant condition leaves dead, and the null statement.  *)

If(cond, then) == IfS(cond, then, <<>>)
IfElse(cond, then, else) == IfS(cond, then, <<else>>)

DeadBranches == <<
  Body(<<If(Num(1), Take(Num(1))), If(Num(0), Take(Num(2))),
         IfElse(Num(1), Take(Num(3)), Take(Num(4))), IfElse(Num(0), Take(Num(5)), Take(Num(6))),
         If(Bin(Num(2), "==", Bin(Num(1), "+", Num(1))), Take(Num(7))),
         If(Bin(Num(0), "&&", Num(1)), Take(Num(8))), If(Un("!", Num(0)), Take(Num(9))),
         IfElse(Num(0), Take(Num(10)), IfElse(Num(1), Take(Num(11)), Take(Num(12)))),
         If(Num(1), Blk(<<Decl("k", <<Num(13)>>), Take(Var("k"))>>)),
         If(Bin(Num(1), "-", Num(1)), Blk(<<Decl("k", <<Num(14)>>), Take(Var("k"))>>)),
         Take(Num(15))>>),
  \* The way out of a loop stands in a branch that is always taken.
  Body(<<Decl("i", <<>>),
         WhileS(Num(1), Blk(<<Decl("k", <<Num(1)>>), Take(Pre("++", "i")),
                              If(Num(1), Blk(<<Decl("m", <<Num(2)>>), Word("break")>>)),
                              Take(Num(9))>>)),
         Take(i)>>),
  \* A function whose only way out is in both branches of a constant condition.
  Script(<<Func("int", f, <<>>, <<<<IfElse(Num(0), Ret(<<Num(1)>>), Ret(<<Num(2)>>))>>>>),
           Main(<<Take(Fun(f, <<>>))>>)>>),
  Body(<<Decl("i", <<>>), Empty,
         ForS(<<>>, <<Bin(Suf("i", "++"), "<", Num(3))>>, <<>>, Empty), Take(i),
         ForS(<<>>, <<>>, <<Suf("i", "++")>>,
              Blk(<<If(Bin(i, ">", Num(6)), Word("break")), If(Bin(i, "==", Num(5)),
                    Word("continue")), Take(i)>>)),
         ForS(<<Set("i", "=", Num(0))>>, <<Bin(i, "<", Num(2))>>, <<Suf("i", "++")>>, Take(i)),
         SwitchS(Num(2), <<Case(Bin(Num(1), "+", Num(1))), Take(Num(20))>>),
         SwitchS(Num(2), <<Case(Un("-", Num(2))), Take(Num(20)), Word("default")>>),
         SwitchS(i, <<Word("default"), Take(Num(21)), Word("break"), Case(Num(7)),
                      Take(Num(22))>>)>>)>>

-----------------------------------------------------------------------------
(* Scripts with one mistake each.                                          *)

FunF(type, list) == Func(type, f, <<>>, <<list>>)
CallF == Take(Fun(f, <<>>))

Rejects == <<
  \* There is nothing to run, or not what runs.
  NoScript(<<>>), NoScript(<<Twice>>), NoScript(<<Func("void", "main", <<>>, <<>>)>>),
  NoScript(<<Func("int", "main", <<>>, <<<<Ret(<<Num(1)>>)>>>>)>>),
  NoScript(<<Func("void", "main", <<P0("x")>>, <<<<>>>>)>>),
  \* Functions that do not agree with themselves.
  NoScript(<<Twice, Twice, Main(<<>>)>>),
  NoScript(<<Func("int", f, <<>>, <<>>), Twice, Main(<<>>)>>),
  NoScript(<<Func("void", f, <<P0("n")>>, <<>>), Twice, Main(<<>>)>>),
  NoScript(<<Func("int", f, <<>>, <<>>), Main(<<CallF>>)>>),
  NoScript(<<Func("int", f, <<P0("n"), P0("n")>>, <<<<Ret(<<Num(1)>>)>>>>), Main(<<>>)>>),
  NoScript(<<Func("int", f, <<P1("n", Num(1)), P0("m")>>, <<<<Ret(<<Num(1)>>)>>>>), Main(<<>>)>>),
  NoScript(<<Func("int", f, <<P1("n", Un("-", Var("m")))>>, <<<<Ret(<<Num(1)>>)>>>>), Main(<<>>)>>),
  NoScript(<<Func("int", f, <<P1("n", Var("m"))>>, <<<<Ret(<<Num(1)>>)>>>>), Main(<<>>)>>),
  \* Ways out of a function.
  NoScript(<<FunF("int", <<>>), Main(<<>>)>>),
  NoScript(<<FunF("int", <<Ret(<<>>)>>), Main(<<>>)>>),
  NoScript(<<FunF("void", <<Ret(<<Num(1)>>)>>), Main(<<>>)>>),
  NoScript(<<FunF("int", <<Decl("k", <<>>), If(Var("k"), Ret(<<Num(1)>>))>>), Main(<<>>)>>),
  NoScript(<<FunF("int", <<Decl("k", <<>>), WhileS(Var("k"), Ret(<<Num(1)>>))>>), Main(<<>>)>>),
  \* Calls.
  NoScript(<<Twice, Main(<<CallF>>)>>),
  NoScript(<<Twice, Main(<<Take(Fun(f, <<Num(1), Num(2)>>))>>)>>),
  NoScript(<<FunF("void", <<>>), Main(<<CallF>>)>>),
  NoScript(<<FunF("void", <<>>), Main(<<If(Fun(f, <<>>), Take(Num(1)))>>)>>),
  NoScript(<<FunF("void", <<>>), Main(<<Decl("k", <<Fun(f, <<>>)>>)>>)>>),
  NoScript(<<FunF("void", <<>>), Main(<<Take(Bin(Num(1), "+", Fun(f, <<>>)))>>)>>),
  NoScript(<<Twice, Main(<<Do1(Fun("TakeClosure", <<Fun(f, <<Num(1)>>)>>))>>)>>),
  NoBody(<<Take(Fun("unknown", <<Num(1)>>))>>),
  NoBody(<<Decl("k", <<Fun("unknown", <<>>)>>)>>),
  \* Names.
  NoBody(<<Take(Var("k"))>>), NoBody(<<Do1(Set("k", "=", Num(1)))>>), NoBody(<<Do1(Suf("k", "++"))>>),
  NoBody(<<Decl("k", <<>>), Decl("k", <<>>)>>), NoBody(<<Blk(<<Decl("k", <<>>)>>), Take(Var("k"))>>),
  NoBody(<<Decl("TRUE", <<>>)>>), NoScript(<<Glob("g", <<>>), Glob("g", <<>>), Main(<<>>)>>),
  NoScript(<<Twice, Glob(f, <<>>), Main(<<>>)>>),
  \* Jumps and labels.
  NoBody(<<Word("break")>>), NoBody(<<Word("continue")>>),
  NoBody(<<SwitchS(Num(1), <<Case(Num(1)), Word("continue")>>)>>),
  NoBody(<<SwitchS(Num(1), <<Case(Num(1)), Case(Num(1))>>)>>),
  NoBody(<<SwitchS(Num(1), <<Case(Num(2)), Case(Bin(Num(1), "+", Num(1)))>>)>>),
  NoBody(<<SwitchS(Num(1), <<Case(Bin(Num(1), "/", Num(0)))>>)>>),
  NoBody(<<SwitchS(Num(1), <<Word("default"), Word("default")>>)>>),
  NoBody(<<Decl("k", <<>>), SwitchS(Num(1), <<Case(Var("k"))>>)>>),
  NoBody(<<SwitchS(Num(1), <<Case(Num(1)), Decl("k", <<>>), Case(Num(2))>>)>>),
  NoBody(<<SwitchS(Num(1), <<Case(Num(1)), Decl("k", <<>>), Word("default")>>)>>),
  \* What is no statement.
  NoBody(<<If(Num(1), Empty)>>), NoBody(<<IfElse(Num(1), Take(Num(1)), Empty)>>),
  NoBody(<<WhileS(Num(0), Empty)>>), NoBody(<<SwitchS(Num(1), <<>>), Tokens(<<T("}")>>)>>),
  NoBody(<<Tokens(<<T("else")>>), Take(Num(1))>>), NoBody(<<Tokens(<<T("{")>>)>>),
  NoBody(<<Tokens(Text(Bin(Num(1), "+", Num(1)), 1))>>),
  NoBody(<<Decl("k", <<>>), Tokens(<<Name("k"), T("="), Name("k"), T("="), Name("k"), T(";")>>)>>),
  NoBody(<<Tokens(Text(Num(1), 1) \o <<T("=")>> \o Text(Num(1), 1) \o <<T(";")>>)>>),
  NoBody(<<Tokens(<<T("while"), T("("), T(")"), T("{"), T("}")>>)>>)>>
=============================================================================
