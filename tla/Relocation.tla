----------------------------- MODULE Relocation -----------------------------
(***************************************************************************)
(* The end of GenerateFinalCodeFromParseTree: when it is known where each   *)
(* function that is kept will be, every jump to a label is filled in, and   *)
(* the functions are written behind each other.                            *)
(***************************************************************************)
EXTENDS CodeBuffer

Within(g, i, at) == g.ids[i].start <= at /\ at < g.ids[i].finish
Placed(g, i) == g.ids[i].dest # -1
Moved(g, i) == g.ids[i].dest - g.ids[i].start

\* The function a query or a label of this type asks for.
EntryPoint(g, q) ==
  IF q.two = 0 THEN q.one ELSE GetIdentifierByName(g, IF q.two = 2 THEN "main" ELSE "#globals")

\* The labels that answer a query; the first of them does.
Answers(g, q) ==
  {k \in DOMAIN g.labels :
     [type |-> g.labels[k].type, one |-> g.labels[k].one, two |-> g.labels[k].two] =
     [type |-> q.type, one |-> q.one, two |-> q.two]}

Owner(g, at) == CHOOSE i \in DOMAIN g.ids : Within(g, i, at)

\* mutant: as far as it was when the code was written.
JumpLengthUnmoved(g, q) == g.labels[Min(Answers(g, q))].at - q.at

\* The function in which the label of a query is.
Home(g, q) ==
  IF q.type \in {"FUNCTION_ENTRY", "FUNCTION_EXIT"} THEN EntryPoint(g, q) ELSE Owner(g, q.at)

\* How far it is from the jump to its label when both are where they go.
JumpLength(g, q) ==
  g.labels[Min(Answers(g, q))].at + Moved(g, Home(g, q)) - (q.at + Moved(g, Owner(g, q.at)))

ResolveLabels(g) ==
  LET needed == {k \in DOMAIN g.queries : Placed(g, Owner(g, g.queries[k].at))}
      Resolve(instruction) ==
        LET asked == {k \in needed : g.queries[k].at = instruction.at}
        IN IF asked = {} THEN instruction
           ELSE [instruction EXCEPT !.a = JumpLength(g, g.queries[Max(asked)])]
  IN Require(g, \A k \in needed : Answers(g, g.queries[k]) # {},
             [g EXCEPT !.code = [i \in DOMAIN @ |-> Resolve(@[i])]])

\* The binary, from addresses behind its header to instructions.
WriteResolvedOutput(g) ==
  LET kept == {i \in DOMAIN g.code : Placed(g, Owner(g, g.code[i].at))}
      Address(i) == g.code[i].at + Moved(g, Owner(g, g.code[i].at)) - Header
      Instruction(i) == [op |-> g.code[i].op, a |-> g.code[i].a, b |-> g.code[i].b]
  IN [at \in {Address(i) : i \in kept} |->
        Instruction(CHOOSE i \in kept : Address(i) = at)]

-----------------------------------------------------------------------------
(* What the linker relies on, and what it owes.                            *)

Jumps == {"JMP", "JSR", "JZ", "JNZ"}

\* Every jump of a binary leads to the first byte of an instruction.
Lands(binary) ==
  \A at \in DOMAIN binary :
    binary[at].op \in Jumps => at + binary[at].a \in DOMAIN binary

Asked(g, at) == {k \in DOMAIN g.queries : g.queries[k].at = at}

LinkTypes(g) ==
  /\ {"code", "ids", "labels", "queries", "status"} \subseteq DOMAIN g
  /\ g.code \in Seq([at : Int, op : STRING, a : Int, b : Int])
  /\ \A f \in DOMAIN g.ids : {g.ids[f].start, g.ids[f].finish, g.ids[f].dest} \subseteq Int
  /\ {g.queries, g.labels} \subseteq Seq([type : STRING, one : Int, two : Int, at : Int])

\* Instructions do not overlap, and each is part of exactly one function.
LaidOut(g) ==
  /\ \A i, j \in DOMAIN g.code :
       i < j => g.code[i].at + Length(g.code[i].op) <= g.code[j].at
  /\ \A i \in DOMAIN g.code :
       \E f \in DOMAIN g.ids :
         \A h \in DOMAIN g.ids : Within(g, h, g.code[i].at) <=> h = f

\* An offset of the code at which an instruction of function f begins.
BeginsIn(g, f, at) ==
  f \in DOMAIN g.ids /\ Within(g, f, at) /\ \E i \in DOMAIN g.code : g.code[i].at = at

\* Every query stands at a jump, and a label that answers it at an instruction of
\* the function it asks for; a jump that was filled in stays in its function.
Targeted(g) ==
  /\ \A k \in DOMAIN g.queries :
       /\ \E i \in DOMAIN g.code : g.code[i].at = g.queries[k].at /\ g.code[i].op \in Jumps
       /\ \A l \in Answers(g, g.queries[k]) :
            BeginsIn(g, Home(g, g.queries[k]), g.labels[l].at)
  /\ \A i \in DOMAIN g.code :
       g.code[i].op \in Jumps /\ Asked(g, g.code[i].at) = {} =>
         BeginsIn(g, Owner(g, g.code[i].at), g.code[i].at + g.code[i].a)

\* The functions that are kept do not overlap where they go, and none of them
\* needs one that has code and is not kept.
KeptApart(g) ==
  /\ \A f, h \in DOMAIN g.ids :
       f # h /\ Placed(g, f) /\ Placed(g, h)
         /\ g.ids[f].start < g.ids[f].finish /\ g.ids[h].start < g.ids[h].finish
       => \/ g.ids[f].dest + g.ids[f].finish - g.ids[f].start <= g.ids[h].dest
          \/ g.ids[h].dest + g.ids[h].finish - g.ids[h].start <= g.ids[f].dest
  /\ \A k \in DOMAIN g.queries :
       Placed(g, Owner(g, g.queries[k].at)) /\ Answers(g, g.queries[k]) # {}
         => Placed(g, Home(g, g.queries[k]))

Linkable(g) == LinkTypes(g) /\ LaidOut(g) /\ Targeted(g) /\ KeptApart(g)
=============================================================================
