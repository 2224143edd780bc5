---------------------------- MODULE TreeFolding ----------------------------
(***************************************************************************)
(* What the native compiler does to the parse tree while it generates code: *)
(* constant folding (scriptcompcore.cpp) and the removal of the branches   *)
(* that a constant condition leaves dead (scriptcompfinalcode.cpp).         *)
(***************************************************************************)
EXTENDS ParseTree, Bitwise

Truth(b) == IF b THEN 1 ELSE 0
Magnitude(n) == IF n < 0 THEN -n ELSE n
\* The division of C rounds towards zero.
Quotient(a, b) ==
  (Magnitude(a) \div Magnitude(b)) * (IF (a < 0) = (b < 0) THEN 1 ELSE -1)

BinaryValue(op, a, b) ==
  CASE op = "LOGICAL_OR" -> Truth(a # 0 \/ b # 0)
    [] op = "LOGICAL_AND" -> Truth(a # 0 /\ b # 0)
    [] op = "INCLUSIVE_OR" -> a | b
    [] op = "EXCLUSIVE_OR" -> a ^^ b
    [] op = "BOOLEAN_AND" -> a & b
    [] op = "SHIFT_LEFT" -> a * 2^b
    [] op = "SHIFT_RIGHT" -> a \div 2^b
    [] op = "CONDITION_EQUAL" -> Truth(a = b)
    [] op = "CONDITION_NOT_EQUAL" -> Truth(a # b)
    [] op = "CONDITION_GEQ" -> Truth(a >= b)
    [] op = "CONDITION_GT" -> Truth(a > b)
    [] op = "CONDITION_LT" -> Truth(a < b)
    [] op = "CONDITION_LEQ" -> Truth(a <= b)
    [] op = "ADD" -> a + b
    [] op = "SUBTRACT" -> a - b
    [] op = "MULTIPLY" -> a * b
    [] op = "DIVIDE" -> Quotient(a, b)
    [] op = "MODULUS" -> a - b * Quotient(a, b)

UnaryValue(op, a) ==
  CASE op = "BOOLEAN_NOT" -> Truth(a = 0)
    [] op = "ONES_COMPLEMENT" -> -a - 1
    [] op = "NEGATION" -> -a

FoldableUnary == {"BOOLEAN_NOT", "ONES_COMPLEMENT", "NEGATION"}
FoldableBinary ==
  {"LOGICAL_OR", "LOGICAL_AND", "INCLUSIVE_OR", "EXCLUSIVE_OR", "BOOLEAN_AND", "SHIFT_LEFT",
   "SHIFT_RIGHT", "CONDITION_EQUAL", "CONDITION_NOT_EQUAL", "CONDITION_GEQ", "CONDITION_GT",
   "CONDITION_LT", "CONDITION_LEQ", "ADD", "SUBTRACT", "MULTIPLY", "DIVIDE", "MODULUS"}

IsConstant(g, node) == node # NULL /\ Op(g, node) = "CONSTANT_INTEGER"

\* A division that traps is left to the program.
CanFold(g, node) ==
  LET left == Left(g, node)
      right == Right(g, node)
  IN /\ IsConstant(g, left)
     /\ \/ Op(g, node) \in FoldableUnary
        \/ /\ IsConstant(g, right)
           /\ Op(g, node) \in {"DIVIDE", "MODULUS"} => g.heap[right].n # 0

Value(g, node) ==
  IF Op(g, node) \in FoldableUnary THEN UnaryValue(Op(g, node), g.heap[Left(g, node)].n)
  ELSE BinaryValue(Op(g, node), g.heap[Left(g, node)].n, g.heap[Right(g, node)].n)

RECURSIVE ConstantFoldNode(_, _)
ConstantFoldNode(g, node) ==
  IF node = NULL \/ Op(g, node) \notin FoldableUnary \cup FoldableBinary THEN g
  ELSE LET left == ConstantFoldNode(g, Left(g, node))
           both == ConstantFoldNode(left, Right(g, node))
       IN IF ~CanFold(both, node) THEN both
          ELSE [both EXCEPT !.heap[node] =
                  [Node("CONSTANT_INTEGER", NULL, NULL) EXCEPT !.n = Value(both, node)]]

\* The generator with the condition folded, and the tree to take instead.
TrimParseTree(g, node) ==
  IF \/ "DEAD_BRANCHES" \notin g.opt
     \/ node = NULL
     \/ node # NULL /\ Op(g, node) # "IF_BLOCK"
  THEN [g |-> g, tree |-> node]
  ELSE LET condition == Left(g, Left(g, Left(g, Left(g, node))))
           folded == ConstantFoldNode(g, condition)
           choice == Right(g, node)
       IN [g |-> folded,
           tree |-> IF ~IsConstant(folded, condition) THEN node
                    ELSE IF folded.heap[condition].n # 0 THEN Left(g, choice)
                    ELSE Right(g, choice)]
=============================================================================
