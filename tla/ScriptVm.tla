------------------------------ MODULE ScriptVm ------------------------------
(***************************************************************************)
(* The virtual machine that the repository runs compiled scripts with      *)
(* (nwtestvm.nim), one action for each kind of instruction.  Every value is *)
(* an integer, every stack element is one, and sp is the length of stack.   *)
(* The engine commands are those of the test language: TakeInt takes an    *)
(* integer off the stack, and TakeClosure does nothing with what was        *)
(* stored.                                                                 *)
(***************************************************************************)
EXTENDS CodeBuffer, Bitwise

VARIABLES
  binary,  \* the instructions by their address
  ip, bp,  \* instruction and base pointer
  stack,
  ret,     \* return addresses
  saved,   \* saveIp, saveBp and saveSp
  out,     \* what TakeInt was given
  vm       \* "off", "running", "halted" or "trapped"

vmVars == <<binary, ip, bp, stack, ret, saved, out, vm>>

\* CodeAddress.high, where the script returns to when it is over.
Finished == -1
Nothing == <<>>

VmOff ==
  /\ binary = Nothing /\ ip = 0 /\ bp = 0 /\ stack = <<>> /\ ret = <<>> /\ out = <<>>
  /\ saved = [ip |-> 0, bp |-> 0, sp |-> 0]
  /\ vm = "off"

\* newVMScript and the start of run.
StartScript(code) ==
  /\ vm = "off"
  /\ binary' = code
  /\ ret' = <<Finished>>
  /\ vm' = "running"
  /\ UNCHANGED <<ip, bp, stack, saved, out>>

Instr == binary[ip]
Top == stack[Len(stack)]
Bool(b) == IF b THEN 1 ELSE 0

ConstantOps == {"RSADD", "CONST"}
UnaryVmOps == {"NEG", "COMP", "NOT"}
BinaryVmOps ==
  {"EQUAL", "NOT_EQUAL", "LT", "GT", "LEQ", "GEQ", "LOGOR", "LOGAND", "INCOR", "BOOLAND",
   "EXCOR", "SHLEFT", "SHRIGHT", "USHRIGHT", "ADD", "SUB", "MUL", "DIV", "MOD"}

\* A place on the stack, counted down from the stack or the base pointer.
Place(op, offset) ==
  (IF op \in {"COPYB", "ASSIGNB", "INCB", "DECB"} THEN bp ELSE Len(stack)) + offset \div 4 + 1

\* What a handler needs of the stack for its assertions to hold.
Runs(i) ==
  CASE i.op \in {"JZ", "JNZ", "RESTBP"} \cup UnaryVmOps -> stack # <<>>
    [] i.op \in {"DIV", "MOD"} -> Len(stack) >= 2 /\ Top # 0
    [] i.op \in BinaryVmOps \ {"DIV", "MOD"} -> Len(stack) >= 2
    [] i.op \in {"COPY", "COPYB", "INC", "INCB", "DEC", "DECB"} ->
         Place(i.op, i.a) \in DOMAIN stack
    [] i.op \in {"ASSIGN", "ASSIGNB"} -> stack # <<>> /\ Place(i.op, i.a) \in DOMAIN stack
    [] i.op = "MOVSP" -> Len(stack) + i.a \div 4 \in 0..Len(stack)
    [] i.op = "EXECUTE_COMMAND" -> i.a = 3 => stack # <<>>
    [] OTHER -> TRUE

\* The instruction at ip is one of these, and can be carried out.
At(ops) == vm = "running" /\ ip \in DOMAIN binary /\ Instr.op \in ops /\ Runs(Instr)

Next_ == ip' = ip + Length(Instr.op)
Push(values, v) == stack' = Append(values, v)

NoOperation ==
  /\ At({"NOP"})
  /\ Next_
  /\ UNCHANGED <<binary, bp, stack, ret, saved, out, vm>>

Jump ==
  /\ At({"JMP"})
  /\ ip' = ip + Instr.a
  /\ UNCHANGED <<binary, bp, stack, ret, saved, out, vm>>

JumpSubroutine ==
  /\ At({"JSR"})
  /\ ret' = Append(ret, ip + Length("JSR"))
  /\ ip' = ip + Instr.a
  /\ UNCHANGED <<binary, bp, stack, saved, out, vm>>

JumpConditionally ==
  /\ At({"JZ", "JNZ"})
  /\ stack' = Front(stack)
  /\ IF (Top = 0) = (Instr.op = "JZ") THEN ip' = ip + Instr.a ELSE Next_
  /\ UNCHANGED <<binary, bp, ret, saved, out, vm>>

\* The last return ends the script.
ReturnFromSubroutine ==
  /\ At({"RET"})
  /\ ip' = Last(ret)
  /\ ret' = Front(ret)
  /\ vm' = IF Last(ret) = Finished THEN "halted" ELSE vm
  /\ UNCHANGED <<binary, bp, stack, saved, out>>

\* The base pointer is pushed before it is moved.
SaveBasePointer ==
  /\ At({"SAVEBP"})
  /\ Push(stack, bp)
  /\ bp' = Len(stack) + 1
  /\ Next_
  /\ UNCHANGED <<binary, ret, saved, out, vm>>

RestoreBasePointer ==
  /\ At({"RESTBP"})
  /\ bp' = Top
  /\ stack' = Front(stack)
  /\ Next_
  /\ UNCHANGED <<binary, ret, saved, out, vm>>

Constants ==
  /\ At(ConstantOps)
  /\ Push(stack, IF Instr.op = "CONST" THEN Instr.a ELSE 0)
  /\ Next_
  /\ UNCHANGED <<binary, bp, ret, saved, out, vm>>

RunstackCopy ==
  /\ At({"COPY", "COPYB"})
  /\ Push(stack, stack[Place(Instr.op, Instr.a)])
  /\ Next_
  /\ UNCHANGED <<binary, bp, ret, saved, out, vm>>

\* The value stays on top.
AssignPlace ==
  /\ At({"ASSIGN", "ASSIGNB"})
  /\ stack' = [stack EXCEPT ![Place(Instr.op, Instr.a)] = Top]
  /\ Next_
  /\ UNCHANGED <<binary, bp, ret, saved, out, vm>>

ModifyStackPointer ==
  /\ At({"MOVSP"})
  /\ stack' = SubSeq(stack, 1, Len(stack) + Instr.a \div 4)
  /\ Next_
  /\ UNCHANGED <<binary, bp, ret, saved, out, vm>>

IncrementPlace ==
  /\ At({"INC", "INCB", "DEC", "DECB"})
  /\ stack' = [stack EXCEPT ![Place(Instr.op, Instr.a)] =
                 @ + (IF Instr.op \in {"INC", "INCB"} THEN 1 ELSE -1)]
  /\ Next_
  /\ UNCHANGED <<binary, bp, ret, saved, out, vm>>

UnaryResult(op, a) ==
  CASE op = "NEG" -> -a
    [] op = "COMP" -> -a - 1
    [] op = "NOT" -> Bool(a = 0)

UnaryInstruction ==
  /\ At(UnaryVmOps)
  /\ Push(Front(stack), UnaryResult(Instr.op, Top))
  /\ Next_
  /\ UNCHANGED <<binary, bp, ret, saved, out, vm>>

Towards0(a, b) ==
  LET size == (IF a < 0 THEN -a ELSE a) \div (IF b < 0 THEN -b ELSE b)
  IN IF (a < 0) = (b < 0) THEN size ELSE -size

\* The bit operations on numbers that are not negative.
BinaryResult(op, a, b) ==
  CASE op = "EQUAL" -> Bool(a = b)
    [] op = "NOT_EQUAL" -> Bool(a # b)
    [] op = "LT" -> Bool(a < b)
    [] op = "GT" -> Bool(a > b)
    [] op = "LEQ" -> Bool(a <= b)
    [] op = "GEQ" -> Bool(a >= b)
    [] op = "LOGOR" -> Bool(a # 0 \/ b # 0)
    [] op = "LOGAND" -> Bool(a # 0 /\ b # 0)
    [] op = "INCOR" -> a | b
    [] op = "BOOLAND" -> a & b
    [] op = "EXCOR" -> a ^^ b
    [] op = "SHLEFT" -> a * 2^b
    [] op \in {"SHRIGHT", "USHRIGHT"} -> a \div 2^b
    [] op = "ADD" -> a + b
    [] op = "SUB" -> a - b
    [] op = "MUL" -> a * b
    [] op = "DIV" -> Towards0(a, b)
    [] op = "MOD" -> a - b * Towards0(a, b)

BinaryInstruction ==
  /\ At(BinaryVmOps)
  /\ Push(Front(Front(stack)), BinaryResult(Instr.op, stack[Len(stack) - 1], Top))
  /\ Next_
  /\ UNCHANGED <<binary, bp, ret, saved, out, vm>>

StoreState ==
  /\ At({"STORE_STATE"})
  /\ saved' = [ip |-> ip + 16, bp |-> Instr.a, sp |-> Instr.b]
  /\ Next_
  /\ UNCHANGED <<binary, bp, stack, ret, out, vm>>

ExecuteCommand ==
  /\ At({"EXECUTE_COMMAND"})
  /\ IF Instr.a = 3 THEN stack' = Front(stack) /\ out' = Append(out, Top)
     ELSE UNCHANGED <<stack, out>>
  /\ Next_
  /\ UNCHANGED <<binary, bp, ret, saved, vm>>

\* There is no instruction at ip, or an assertion of its handler fails.
Trap ==
  /\ vm = "running"
  /\ ip \in DOMAIN binary => ~Runs(Instr)
  /\ vm' = "trapped"
  /\ UNCHANGED <<binary, ip, bp, stack, ret, saved, out>>

VmStep ==
  \/ NoOperation \/ Jump \/ JumpSubroutine \/ JumpConditionally \/ ReturnFromSubroutine
  \/ SaveBasePointer \/ RestoreBasePointer \/ Constants \/ RunstackCopy \/ AssignPlace
  \/ ModifyStackPointer \/ IncrementPlace \/ UnaryInstruction \/ BinaryInstruction
  \/ StoreState \/ ExecuteCommand \/ Trap
=============================================================================
