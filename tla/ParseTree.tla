----------------------------- MODULE ParseTree -----------------------------
(***************************************************************************)
(* What the native compiler's parser works on: the parse tree, whose nodes *)
(* live in a heap and are named by their place in it, and the shift-reduce *)
(* stack.  A parser state is a record                                      *)
(*   stk     the stack; a frame has a grammar state, a rule and a term, the *)
(*           tree under construction and the tree that was returned to it  *)
(*   heap    the nodes; 0 is the NULL pointer                              *)
(*   taken   whether the current token has been used up                    *)
(*   ids     m_pcIdentifierList: constants and functions                   *)
(*   globals m_pGlobalVariableParseTree                                    *)
(*   files   the files read so far, feed: the files being read             *)
(*   status  "parsing", "parsed", "rejected", or "crashed"                 *)
(***************************************************************************)
EXTENDS Integers, SequencesExt

NULL == 0

\* CScriptParseTreeNode.  n, pos and sp are nIntegerData, nIntegerData2 and
\* nStackPointer, outer is what nIntegerData3 and 4 keep of the loop or switch
\* around this one; type is "int", "action" or "".
Node(op, left, right) ==
  [op |-> op, l |-> left, r |-> right, id |-> "", n |-> 0, pos |-> 0, sp |-> 0,
   outer |-> [id |-> 0, depth |-> 0], type |-> ""]

Frame(state, rule, term, tree) ==
  [st |-> state, rule |-> rule, term |-> term, cur |-> tree, ret |-> NULL]

\* A new node; it is Newest until the next one.
New(p, op, left, right) == [p EXCEPT !.heap = Append(@, Node(op, left, right))]
Newest(p) == Len(p.heap)
Named(p, op, id) == [p EXCEPT !.heap = Append(@, [Node(op, NULL, NULL) EXCEPT !.id = id])]
Numbered(p, n) ==
  [p EXCEPT !.heap = Append(@, [Node("CONSTANT_INTEGER", NULL, NULL) EXCEPT !.n = n])]

Left(p, node) == p.heap[node].l
Right(p, node) == p.heap[node].r
Op(p, node) == p.heap[node].op
SetLeft(p, node, tree) == [p EXCEPT !.heap[node].l = tree]
SetRight(p, node, tree) == [p EXCEPT !.heap[node].r = tree]
SetOp(p, node, op) == [p EXCEPT !.heap[node].op = op]

PushSRStack(p, state, rule, term, tree) ==
  [p EXCEPT !.stk = Append(@, Frame(state, rule, term, tree))]

PopSRStack(p) == [p EXCEPT !.stk = Front(@)]

\* Hands a tree to the frame below the one that was popped.
ModifySRStackReturnTree(p, tree) ==
  IF p.stk = <<>> THEN p ELSE [p EXCEPT !.stk[Len(p.stk)].ret = tree]

\* The three ways in which the handling of a frame ends: it goes on waiting in
\* a later rule for what another grammar state returns, it returns a tree and
\* leaves the token to the frame below, or it uses the token up.
Await(p, frame, rule, term, tree, state) ==
  PushSRStack(PushSRStack(p, frame.st, rule, term, tree), state, 0, 0, NULL)
Reduce(p, tree) == ModifySRStackReturnTree(p, tree)
Take(p) == [p EXCEPT !.taken = TRUE]
Accept(p, tree) == Take(Reduce(p, tree))
Goto(p, frame, rule, term, tree) == PushSRStack(p, frame.st, rule, term, tree)

\* A terminal the rule cannot do without.
Expect(p, t, token, next) ==
  IF t.t = token THEN Take(next) ELSE [p EXCEPT !.status = "rejected"]

PARSER_ERROR(p) == [p EXCEPT !.status = "rejected"]
\* A NULL pointer is dereferenced.
Crash(p) == [p EXCEPT !.status = "crashed"]
=============================================================================
