------------------------------- MODULE MCDocs -------------------------------
(***************************************************************************)
(* What cs8_doc/cs8.org says of the stack and indexed instructions, on     *)
(* three programs that use them.  The code does otherwise.                 *)
(***************************************************************************)
EXTENDS CS8Emulator

Limm(k)  == <<0, 0, k>>
Treg(from, to) == <<5 + 16 * from, to>>
SetAll   == Limm(18) \o Treg(rtmp, rsp0) \o Limm(17) \o Treg(rtmp, rBSE)
Program(code) == << [address |-> 0, bytes |-> SetAll \o code] >>

\* psh0 rsp0; psh0 rdst, pop0 rdst; sidx.
DocPrograms == {Program(<<6 + 16 * rsp0>>), Program(<<6, 8>>), Program(<<4>>)}
DocCharacters == {10}

\* The programs do not end; their first few instructions are enough.
FirstInstructions == rip <= 16

Executed(op) == cpu_phase = "Store0" /\ opcode = op /\ dev = "cpu"
Operand == HighNibble(rOP)

\* "psh0 /r/ -> Push register to stack 0": the word that goes to the stack is
\* the content of the register that the instruction names.
PushStoresRegister ==
  [][Executed(Push0) => bus'.data = ToUWord(reg[Operand])]_vars

\* "pop0 /r/ -> Pop register from stack 0": the register that the instruction
\* names gets the word from the stack.
PopLoadsRegister ==
  [][cpu_phase = "Load1" /\ opcode = Pop0 /\ dev = "cpu" =>
       reg'[Operand] = ToSWord(bus.data)]_vars

\* "sidx /rbse:ridx/ -> Store rtmp to memory(indirect)": rtmp goes to the
\* address rbse + ridx, the one that lidx loads from.
StoreIndexedUsesBase ==
  [][Executed(StoreIndexed) =>
       /\ bus'.address = ToUWord(reg[rBSE] + reg[ridx])
       /\ bus'.data = ToUWord(reg[rtmp])]_vars
=============================================================================
