--------------------------- MODULE CS8Retirement ---------------------------
(***************************************************************************)
(* The emulator implements the instruction set CS8ISA.  An instruction     *)
(* takes between six and thirteen rounds and it retires, that is, its step *)
(* of the abstract machine happens, in one of them: the round that leaves  *)
(* Execute or Load1, or Store0 for a store.  Until then the mapped state   *)
(* does not show that it has begun, and from then on it shows the write    *)
(* that is still on the bus as done.                                       *)
(***************************************************************************)
EXTENDS CS8Emulator

\* There is a port: main() gives it the two addresses from 0x2000 on.
ASSUME PortAssumption == SerialBegin <= SerialEnd

\* Bytes of the instruction in progress that rip has gone past.
InstructionLength ==
  CASE opcode \in {LoadImm, LoadDirect, StoreDirect} -> 3
    [] opcode = TransferRegister                     -> 2
    [] OTHER                                         -> 1

Consumed ==
  CASE cpu_phase \in {"Init", "Fetch0", "Store1", "Halted"} -> 0
    [] cpu_phase \in {"Fetch1", "Decode", "GetData0"}       -> 1
    [] cpu_phase = "GetData1"                               -> 2
    [] cpu_phase = "GetData2"                               -> InstructionLength - 1
    [] OTHER                                                -> InstructionLength

RetiredPc == ToSWord(rip - Consumed)

RetiredMemory ==
  IF bus.mode = "Write" /\ dev = "memory" /\ Backed(bus.address)
  THEN [memory EXCEPT ![Cell(bus.address)] = bus.data]
  ELSE memory

RetiredOutput ==
  IF bus.mode = "Write" /\ dev \in {"memory", "serial"} /\ AtPort
  THEN Append(stdout, ToByte(bus.data))
  ELSE stdout

RetiredState ==
  CASE dev = "memory" /\ MemoryThrows -> "aborted"
    [] cpu_phase = "Halted"           -> "exited"
    [] OTHER                          -> process

ISA == INSTANCE CS8ISA WITH
         memory <- RetiredMemory, output <- RetiredOutput,
         reg    <- reg,           shadow <- rtmp2,
         pc     <- RetiredPc,     state  <- RetiredState

(***************************************************************************)
(* Every behaviour of the devices is a behaviour of the instruction set:   *)
(* the phases of the switch in CPU::simulate(), its two missing breaks and *)
(* the devices' turns add nothing that a program could see.                *)
(***************************************************************************)
ImplementsISA == ISA!Spec
=============================================================================
