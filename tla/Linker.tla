------------------------------- MODULE Linker -------------------------------
(***************************************************************************)
(* GenerateFinalCodeFromParseTree: the loader that calls the script, the    *)
(* code of the whole tree, and where the functions that are kept will be.   *)
(***************************************************************************)
EXTENDS CodeGen, Relocation

GetTopLevelIdentifierByName(g, name) ==
  LET i == GetIdentifierByName(g, name)
  IN IF i # NULL /\ g.ids[i].top THEN i ELSE NULL

InstallLoader(g, globals) ==
  LET main == GetTopLevelIdentifierByName(g, "main")
      begun == [g EXCEPT !.ids = Append(@, Routine("#loader", g.len))]
      called == AddSymbolToQueryList(begun, "JSR", "FUNCTION_ENTRY", 0,
                                     IF globals = NULL THEN 2 ELSE 1)
      returned == EmitInstruction(called, "RET", 0, 0)
  IN Require(g, main # NULL /\ g.ids[main].ret = "void" /\ g.ids[main].params = <<>>,
             [returned EXCEPT !.ids[Len(begun.ids)].finish = returned.len])

\* The global variables come before the program.
InsertGlobalVariablesInParseTree(g, globals, program) ==
  IF globals = NULL THEN [g |-> g, root |-> program]
  ELSE LET q == New(g, "FUNCTIONAL_UNIT", globals, program) IN [g |-> q, root |-> Newest(q)]

\* The part of GenerateFinalCodeFromParseTree that writes the code.
GenerateCode(p, opt) ==
  LET loaded == InstallLoader(Generator(p.heap, p.ids, opt), p.globals)
      all == InsertGlobalVariablesInParseTree(loaded, p.globals, Last(p.stk).ret)
  IN IF Generating(loaded) THEN WalkParseTree(all.g, all.root) ELSE loaded

RECURSIVE ValidateLocationOfIdentifier(_, _)
\* A function is placed when something that is placed calls it.
ValidateLocationOfIdentifier(g, i) ==
  LET placed == [g EXCEPT !.ids[i].dest = g.size,
                          !.size = @ + g.ids[i].finish - g.ids[i].start]
      calls == SelectSeq(g.queries,
                         LAMBDA q : q.type = "FUNCTION_ENTRY" /\ Within(g, i, q.at))
  IN IF Placed(g, i) THEN g
     ELSE FoldLeft(LAMBDA h, q : ValidateLocationOfIdentifier(h, EntryPoint(h, q)),
                   placed, calls)

DetermineLocationOfCode(g) ==
  IF "DEAD_FUNCTIONS" \in g.opt
  THEN ValidateLocationOfIdentifier(g, GetIdentifierByName(g, "#loader"))
  ELSE [g EXCEPT !.size = g.len,
                 !.ids = [i \in DOMAIN @ |-> [g.ids[i] EXCEPT !.dest = g.ids[i].start]]]
=============================================================================
