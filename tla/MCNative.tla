------------------------------ MODULE MCNative ------------------------------
EXTENDS NativeCompiler

F == INSTANCE ScriptFamilies

Command(name, params, n) ==
  [name |-> name, fn |-> TRUE, ret |-> "void", params |-> params,
   defaults |-> [i \in DOMAIN params |-> {}], impl |-> TRUE, n |-> n, top |-> FALSE]

\* The engine commands of the test language, and a constant.
MCLanguage ==
  <<Command("TakeInt", <<"int">>, 3), Command("TakeClosure", <<"action">>, 4),
    [name |-> "TRUE", fn |-> FALSE, ret |-> "int", params |-> <<>>, defaults |-> <<>>,
     impl |-> TRUE, n |-> 1, top |-> FALSE]>>

Tested(scripts) ==
  [k \in DOMAIN scripts |->
     LET s == scripts[k]
         means == IF s.valid THEN F!Behaviour(s.files, "main") ELSE [out |-> <<>>, fails |-> FALSE]
     IN [src |-> F!Source(s.files), root |-> "main", valid |-> s.valid] @@ means]

MCPrograms ==
  Tested(F!Nests \o F!Operators \o F!FoldedOperators \o F!Effects \o F!Functions \o F!Includes
         \o F!DeadBranches \o F!Rejects)
\* The nests that MCPrograms leaves out.
MCClashes == Tested(F!Clashes)

\* The levels -O0 to -O3.
MCOptimizations ==
  {{}, {"DEAD_FUNCTIONS"}, {"DEAD_FUNCTIONS", "DEAD_BRANCHES"},
   {"DEAD_FUNCTIONS", "DEAD_BRANCHES", "MELD_INSTRUCTIONS"}}
=============================================================================
