---------------------------- MODULE CS8Emulator ----------------------------
(***************************************************************************)
(* The emulator (main.cxx): processor, memory and serial port on one bus.  *)
(* main() loads a program and simulates the devices one after another,     *)
(* round by round, until the processor halts.  Only the order of the list  *)
(* separates them: a device sees what the ones before it did to the bus in *)
(* the same round.                                                         *)
(***************************************************************************)
EXTENDS CS8Cpu, CS8Memory, CS8SerialPort, FiniteSetsExt, SequencesExt

CONSTANT Programs         \* the program files: sequences of segments

\* An ELF segment of type PT_LOAD, as initialize_memory() looks at it.  The
\* copy is unchecked; Programs is about files whose segments fit.
Fits(segment) ==
  /\ segment.address \in Nat
  /\ segment.bytes \in Seq(Byte)
  /\ segment.address + Len(segment.bytes) <= MemorySize

ASSUME ProgramsAssumption ==
  \A p \in Programs : p \in Seq([address : Nat, bytes : Seq(Byte)])
                      /\ \A i \in DOMAIN p : Fits(p[i])

\* No address belongs to both devices.
ASSUME AddressMapAssumption == MemoryEnd < SerialBegin \/ SerialEnd < MemoryBegin

VARIABLES
  dev,                    \* the device whose turn it is in Devices::simulate()
  process                 \* of the emulator: "running", "exited" or "aborted"

vars == <<bus, cpuVars, memory, serialVars, dev, process>>

-----------------------------------------------------------------------------
\* What cell c holds after the segments were copied one by one over a zeroed
\* buffer.  The bytes are signed chars and are widened with their sign.
LoadedCell(segments, c) ==
  LET covering == {i \in DOMAIN segments :
                     /\ segments[i].address <= c
                     /\ c < segments[i].address + Len(segments[i].bytes)}
      last     == segments[Max(covering)]
  IN  IF covering = {} THEN 0
      ELSE ToUWord(ToChar(last.bytes[c - last.address + 1]))

initialize_memory(segments) == [c \in Cells |-> LoadedCell(segments, c)]

Init ==
  /\ BusInit /\ CpuInit /\ SerialInit
  /\ \E p \in Programs : memory = initialize_memory(p)
  /\ dev = "cpu" /\ process = "running"

Turn(device, next) ==
  /\ process = "running" /\ process' = process
  /\ dev = device /\ dev' = next

\* is_running() is asked once a round, before the processor's turn.
CpuStep ==
  /\ Turn("cpu", "memory") /\ is_running
  /\ CpuSimulate
  /\ UNCHANGED <<memory, serialVars>>

MemoryStep ==
  /\ Turn("memory", "serial")
  /\ MemorySimulate
  /\ UNCHANGED <<cpuVars, serialVars>>

SerialStep ==
  /\ Turn("serial", "cpu")
  /\ SerialSimulate
  /\ UNCHANGED <<cpuVars, memory>>

Stop(how) ==
  /\ process = "running" /\ process' = how
  /\ UNCHANGED <<bus, cpuVars, memory, serialVars, dev>>

Exit  == dev = "cpu" /\ ~ is_running /\ Stop("exited")

\* The exception of the memory and the trap of a division by zero.
Abort ==
  /\ \/ dev = "cpu" /\ DivideTrap
     \/ dev = "memory" /\ MemoryThrows
  /\ Stop("aborted")

Next == CpuStep \/ MemoryStep \/ SerialStep \/ Exit \/ Abort

Spec     == Init /\ [][Next]_vars
\* One thread runs the loop; it stops only where the model says so.
FairSpec == Spec /\ WF_vars(Next)

-----------------------------------------------------------------------------
TypeOK ==
  /\ bus \in BusType
  /\ CpuType
  /\ MemoryType
  /\ SerialType
  /\ dev \in {"cpu", "memory", "serial"}
  /\ process \in {"running", "exited", "aborted"}

-----------------------------------------------------------------------------
(***************************************************************************)
(* Which phases strobe the bus: one round of Read for every byte and every *)
(* operand read, one round of Write at the end of every instruction.       *)
(***************************************************************************)
ReadPhases == {"Fetch1", "GetData1", "GetData3", "Load1"}

ModeByPhase ==
  /\ bus.mode = "Read"  <=> cpu_phase \in ReadPhases
  /\ bus.mode = "Write" <=> cpu_phase = "Store1"

\* registers[rR0] and registers[rR1] are within the sixteen pointers of the
\* array whenever Execute or Store0 may use them; the masks of Prepare are
\* three phases away, and a store comes back to Store0 one round later.
IndicesInBounds ==
  /\ cpu_phase \in {"Load0", "Load1", "Execute", "Store0"} =>
       rR0 \in Register /\ rR1 \in Register
  /\ cpu_phase \in {"Load0", "Load1"} => opcode \in LoadOps
  /\ cpu_phase = "Store0" => opcode \in StoreOps

\* From the answer to the first fetch of an instruction until its end, a bus
\* that shows an address of the memory shows the word that the memory holds
\* there.  A store breaks this when it drives its own data.
InstructionUnderWay ==
  /\ cpu_phase \notin {"Init", "Fetch0"}
  /\ ~ (cpu_phase = "Store1" /\ opcode \in StoreOps)
  /\ ~ (bus.mode = "Read" /\ dev = "memory")

BusShowsMemory ==
  InstructionUnderWay /\ InMemory(bus.address) =>
    /\ Backed(bus.address)
    /\ bus.data = memory[Cell(bus.address)]

(***************************************************************************)
(* Every instruction ends with a Write on the bus, because Execute runs on *)
(* into Store0.  Yet only the four store instructions change the memory,   *)
(* and they change the addressed cell, to the value of their register.     *)
(***************************************************************************)
OnlyStoresWrite ==
  [][memory' # memory =>
       /\ opcode \in StoreOps
       /\ memory' = [memory EXCEPT ![Cell(StoreAddress)] = ToUWord(reg[rR0])]]_vars

\* A character is printed by an instruction that is not a store only right
\* after that instruction took the same character from the input.
EchoOnlyInput ==
  [][stdout' # stdout /\ opcode \notin StoreOps =>
       /\ stdin # <<>>
       /\ Last(stdout') = ToByte(Last(stdin))]_vars

\* A device sees each request in one round only: a second round of Read would
\* take a second character, a second round of Write print one twice.
StrobeOnce ==
  [][dev = "cpu" /\ bus.mode # "Off" => bus'.mode # bus.mode]_vars

\* Code that runs where no device answers reads zeros, whatever was on the
\* bus in the instruction before.
OpenBusFetchesZero ==
  cpu_phase = "Fetch1" /\ ~ InMemory(bus.address) /\ ~ AtPort => bus.data = 0

\* rtmp2 is the value rtmp had before it was last set, so that rtm can bring
\* it back; every instruction that sets rtmp keeps the two in step.
TmpShadow ==
  [][reg'[rtmp] # reg[rtmp] \/ rtmp2' # rtmp2 => rtmp2' = reg[rtmp]]_vars

\* The loop ends up in the middle of nothing only when it waits for the
\* terminal: for a key, or for room to print.
PortBlocked ==
  /\ dev = "serial" /\ AtPort
  /\ \/ bus.mode = "Read"  /\ Len(stdin) = MaxStdin
     \/ bus.mode = "Write" /\ Len(stdout) = MaxStdout

\* Every instruction comes to its end, halts or ends the process, unless the
\* terminal never answers.
EveryInstructionEnds ==
  cpu_phase = "Fetch1" ~>
    \/ cpu_phase \in {"Store1", "Halted"}
    \/ process # "running"
    \/ PortBlocked
=============================================================================
