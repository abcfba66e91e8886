------------------------------- MODULE CS8ISA -------------------------------
(***************************************************************************)
(* What the emulator promises a programmer: a machine that executes one    *)
(* whole instruction in one step.  There is no bus, no phase and no latch; *)
(* CS8Retirement shows that the emulator implements this machine.          *)
(*                                                                         *)
(* Three things of the hardware remain visible to programs, and are        *)
(* therefore part of the promise:                                          *)
(*  - an address that nothing answers reads as the word that was last on   *)
(*    the bus, which is zero at the start of an instruction;               *)
(*  - an instruction that read the serial port last, be it for its operand *)
(*    or for its own bytes, prints the character it read;                  *)
(*  - the low four bits of the operand of sidx are not specified.          *)
(***************************************************************************)
EXTENDS CS8Words, Sequences

CONSTANTS
  MemorySize, MemoryBegin, MemoryEnd,
  SerialBegin, Characters

VARIABLES
  memory, output,
  reg, shadow, pc,        \* shadow is the value rtmp had before
  state                   \* "running", "exited" or "aborted"

isaVars == <<memory, output, reg, shadow, pc, state>>

-----------------------------------------------------------------------------
Exists(a) == a - MemoryBegin \in 0 .. MemorySize - 1
IsPort(a) == a = SerialBegin
\* Claimed by the memory, which has no such word.
IsHole(a) == a \in MemoryBegin .. MemoryEnd /\ ~ Exists(a)
IsRam(a)  == a \in MemoryBegin .. MemoryEnd /\ Exists(a)

\* The words a read of address a may return, with `left' on the bus before.
ReadWord(a, left) ==
  CASE IsRam(a)  -> {memory[a - MemoryBegin]}
    [] IsHole(a) -> {}
    [] IsPort(a) -> {ToUWord(ToChar(c)) : c \in Characters}
    [] OTHER     -> {left}

\* The prefixes of the instruction at pc, of one to three words.
Address(i) == ToUWord(pc + i)
LastOf(ws) == IF ws = <<>> THEN 0 ELSE ws[Len(ws)]
Extend(ws) == {Append(ws, w) : w \in ReadWord(Address(Len(ws)), LastOf(ws))}

Fetched ==
  LET one == Extend(<<>>)
      two == UNION {Extend(ws) : ws \in one}
  IN  [n \in 1 .. 3 |-> CASE n = 1 -> one
                          [] n = 2 -> two
                          [] n = 3 -> UNION {Extend(ws) : ws \in two}]

Op(ws)   == LowNibble(ToByte(ws[1]))
Field(ws) == HighNibble(ToByte(ws[1]))

Length(op) == CASE op \in {0, 1, 2} -> 3
                [] op = 5           -> 2
                [] OTHER            -> 1

Operand(ws) == 256 * ToByte(ws[2]) + ToByte(ws[3])

\* The whole of an instruction with an opcode in ops.
Insn(ops) ==
  UNION {{ws \in Fetched[n] : Op(ws) \in ops /\ Length(Op(ws)) = n} : n \in 1 .. 3}

-----------------------------------------------------------------------------
Running == state = "running"

\* The word read last goes back to where it came from: only the port notices.
Echo(a, w) ==
  output' = IF IsPort(a) THEN Append(output, ToByte(w)) ELSE output

EchoInsn(ws) == Echo(Address(Len(ws) - 1), LastOf(ws))

Advance(ws) == pc' = ToSWord(pc + Len(ws))

SetTmp(value) ==
  /\ shadow' = reg[4]
  /\ reg' = [reg EXCEPT ![4] = ToSWord(value)]

LoadImmediate ==
  \E ws \in Insn({0}) :
    /\ Running /\ SetTmp(Operand(ws))
    /\ Advance(ws) /\ EchoInsn(ws) /\ UNCHANGED <<memory, state>>

LoadSource(ws) ==
  CASE Op(ws) = 1 -> Operand(ws)
    [] Op(ws) = 3 -> ToUWord(reg[15] + reg[3])
    [] Op(ws) = 8 -> ToUWord(reg[5])
    [] Op(ws) = 9 -> ToUWord(reg[6])

Load ==
  \E ws \in Insn({1, 3, 8, 9}) :
    \E w \in ReadWord(LoadSource(ws), LastOf(ws)) :
      /\ Running /\ SetTmp(w)
      /\ Advance(ws) /\ Echo(LoadSource(ws), w) /\ UNCHANGED <<memory, state>>

\* What a store may write to: for sidx the low bits of the base are anything.
StoreTargets(ws) ==
  CASE Op(ws) = 2 -> {Operand(ws)}
    [] Op(ws) = 4 -> {ToUWord(256 * Field(ws) + low + reg[3]) : low \in 0 .. 15}
    [] Op(ws) = 6 -> {ToUWord(reg[5])}
    [] Op(ws) = 7 -> {ToUWord(reg[6])}

Stored(ws) == ToUWord(IF Op(ws) = 4 THEN reg[Field(ws)] ELSE reg[4])

Store ==
  \E ws \in Insn({2, 4, 6, 7}) :
    \E a \in StoreTargets(ws) :
      /\ Running
      /\ memory' = IF IsRam(a)
                   THEN [memory EXCEPT ![a - MemoryBegin] = Stored(ws)]
                   ELSE memory
      /\ state' = IF IsHole(a) THEN "aborted" ELSE state
      /\ Echo(a, Stored(ws))
      /\ Advance(ws) /\ UNCHANGED <<reg, shadow>>

Transfer ==
  \E ws \in Insn({5}) :
    LET to == LowNibble(ToByte(ws[2])) IN
    /\ Running
    /\ reg' = [reg EXCEPT ![to] = reg[Field(ws)]]
    /\ shadow' = IF to = 4 THEN reg[4] ELSE shadow
    /\ Advance(ws) /\ EchoInsn(ws) /\ UNCHANGED <<memory, state>>

Result(op) ==
  CASE op = 10 -> ToSWord(reg[1] + reg[2])
    [] op = 11 -> ToSWord(reg[1] - reg[2])
    [] op = 12 -> ToSWord(reg[1] * reg[2])
    [] op = 14 -> Nand(reg[1], reg[2])

Arithmetic ==
  \E ws \in Insn({10, 11, 12, 14}) :
    /\ Running
    /\ reg' = [reg EXCEPT ![0] = Result(Op(ws))]
    /\ Advance(ws) /\ EchoInsn(ws) /\ UNCHANGED <<memory, shadow, state>>

Divide ==
  \E ws \in Insn({13}) :
    /\ Running /\ reg[2] # 0
    /\ reg' = [reg EXCEPT ![0] = ToSWord(Quotient(reg[1], reg[2])),
                          ![4] = ToSWord(Remainder(reg[1], reg[2]))]
    /\ shadow' = reg[4]
    /\ Advance(ws) /\ EchoInsn(ws) /\ UNCHANGED <<memory, state>>

\* jle (0) is conditional, jmp (1) to -1 stops the machine.
Jump ==
  \E ws \in Insn({15}) :
    /\ Running
    /\ \/ Field(ws) = 0 /\ reg[14] <= 0
       \/ Field(ws) = 1 /\ reg[4] # -1
    /\ reg' = [reg EXCEPT ![13] = ToSWord(pc + Len(ws))]
    /\ pc' = reg[4]
    /\ EchoInsn(ws) /\ UNCHANGED <<memory, shadow, state>>

RestoreTmp ==
  \E ws \in Insn({15}) :
    /\ Running /\ Field(ws) = 2
    /\ reg' = [reg EXCEPT ![4] = shadow] /\ shadow' = reg[4]
    /\ Advance(ws) /\ EchoInsn(ws) /\ UNCHANGED <<memory, state>>

NoOperation ==
  \E ws \in Insn({15}) :
    /\ Running
    /\ \/ Field(ws) = 0 /\ reg[14] > 0
       \/ Field(ws) > 2
    /\ Advance(ws) /\ EchoInsn(ws) /\ UNCHANGED <<memory, reg, shadow, state>>

Halt ==
  \E ws \in Insn({15}) :
    /\ Running /\ Field(ws) = 1 /\ reg[4] = -1
    /\ state' = "exited"
    /\ Advance(ws) /\ UNCHANGED <<memory, output, reg, shadow>>

\* The machine dies half way through an instruction that reads a hole or
\* divides by zero, and nothing of the instruction has happened.
Fault ==
  /\ Running
  /\ \/ IsHole(Address(0))
     \/ \E n \in 1 .. 2 : \E ws \in Fetched[n] :
          n < Length(Op(ws)) /\ IsHole(Address(n))
     \/ \E ws \in Insn({1, 3, 8, 9}) : IsHole(LoadSource(ws))
     \/ Insn({13}) # {} /\ reg[2] = 0
  /\ state' = "aborted"
  /\ UNCHANGED <<memory, output, reg, shadow, pc>>

Init ==
  /\ output = <<>>
  /\ reg = [r \in 0 .. 15 |-> 0] /\ shadow = 0 /\ pc = 0
  /\ state = "running"

Step ==
  \/ LoadImmediate \/ Load \/ Store \/ Transfer
  \/ Arithmetic \/ Divide
  \/ Jump \/ RestoreTmp \/ NoOperation \/ Halt
  \/ Fault

Spec == Init /\ [][Step]_isaVars
=============================================================================
