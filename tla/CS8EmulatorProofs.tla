------------------------- MODULE CS8EmulatorProofs -------------------------
(***************************************************************************)
(* Theorems about the emulator, for every memory size, address map, set of *)
(* programs and length of the terminal's streams.                          *)
(*                                                                         *)
(* TypeOK is not inductive: a store reads registers[rR0] and a transfer    *)
(* writes registers[rR1], and that these are registers at all was decided  *)
(* some rounds earlier, in Prepare.  Neither is the promise that only      *)
(* stores change the memory: it rests on what the bus carries when the     *)
(* ghost write comes.  IInv adds both.                                     *)
(***************************************************************************)
EXTENDS CS8Retirement, SequenceTheorems, WellFoundedInduction, TLAPS

IInv == TypeOK /\ ModeByPhase /\ IndicesInBounds /\ BusShowsMemory

-----------------------------------------------------------------------------
(* What the conversions of CS8Words return, for every argument. *)

\* The conversions land in the type they are named for.
LEMMA ConversionTypes ==
  ASSUME NEW x \in Int
  PROVE  ToByte(x) \in Byte /\ ToUWord(x) \in UWord /\ ToSWord(x) \in SWord
         /\ ToChar(x) \in Between(-128, 127)
BY DEF ToByte, ToUWord, ToSWord, ToChar, Byte, UWord, SWord, Between

\* Both halves of an instruction byte number one of the sixteen registers.
LEMMA NibbleTypes ==
  ASSUME NEW b \in Byte
  PROVE  LowNibble(b) \in 0 .. 15 /\ HighNibble(b) \in 0 .. 15
BY DEF Byte, Between, LowNibble, HighNibble

\* A register written to the bus and read back into a register is unchanged,
\* and so is a word of the bus that goes through a register: rtmp and memory
\* agree although one is signed and the other is not.
THEOREM WordRoundTrip ==
  /\ \A s \in SWord : ToSWord(ToUWord(s)) = s
  /\ \A u \in UWord : ToUWord(ToSWord(u)) = u
BY DEF SWord, UWord, Between, ToSWord, ToUWord

\* A bit of the conjunction.
LEMMA And1Type ==
  ASSUME NEW a \in Int, NEW b \in Int
  PROVE  And1(a, b) \in 0 .. 1
<1>1. (a % 2 = 0 \/ a % 2 = 1) /\ (b % 2 = 0 \/ b % 2 = 1)
  OBVIOUS
<1>2. QED
  BY <1>1 DEF And1

\* The conjunction of two words is a word.
LEMMA And16Type ==
  ASSUME NEW a \in Int, NEW b \in Int
  PROVE  And16(a, b) \in UWord
<1>1. \A x, y \in Int : And2(x, y) \in 0 .. 3
  <2> SUFFICES ASSUME NEW x \in Int, NEW y \in Int PROVE And2(x, y) \in 0 .. 3
    OBVIOUS
  <2>1. And1(x, y) \in 0 .. 1 /\ And1(x \div 2, y \div 2) \in 0 .. 1
    BY And1Type
  <2>2. QED
    BY <2>1 DEF And2
<1>2. \A x, y \in Int : And4(x, y) \in 0 .. 15
  BY <1>1 DEF And4
<1>3. \A x, y \in Int : And8(x, y) \in Byte
  BY <1>2 DEF And8, Byte, Between
<1>4. And8(a, b) \in Byte /\ And8(a \div 256, b \div 256) \in Byte
  BY <1>3
<1>5. QED
  BY <1>4 DEF And16, UWord, Byte, Between

\* So is its complement, read as signed.
LEMMA NandType ==
  ASSUME NEW a \in SWord, NEW b \in SWord
  PROVE  Nand(a, b) \in SWord
<1>1. ToUWord(a) \in Int /\ ToUWord(b) \in Int
  BY DEF SWord, Between, ToUWord
<1>2. And16(ToUWord(a), ToUWord(b)) \in Int
  BY <1>1, And16Type DEF UWord, Between
<1>3. QED
  BY <1>2, ConversionTypes DEF Nand

\* The magnitude of a number that is not zero is not zero.
LEMMA MagnitudeType ==
  ASSUME NEW x \in Int
  PROVE  Magnitude(x) \in Nat /\ (x # 0 => Magnitude(x) > 0)
BY DEF Magnitude

\* The division has a result unless it is by zero.
LEMMA QuotientType ==
  ASSUME NEW a \in Int, NEW b \in Int, b # 0
  PROVE  Quotient(a, b) \in Int /\ Remainder(a, b) \in Int
<1>1. Magnitude(a) \div Magnitude(b) \in Int
  BY MagnitudeType
<1>2. Quotient(a, b) \in Int
  BY <1>1 DEF Quotient
<1>3. QED
  BY <1>2 DEF Remainder

-----------------------------------------------------------------------------
(* Operands. *)

\* The numbers of the registers are registers.
LEMMA RegisterConstants ==
  /\ rdst \in Register /\ rsc0 \in Register /\ rsc1 \in Register
  /\ ridx \in Register /\ rtmp \in Register /\ rsp0 \in Register
  /\ rsp1 \in Register /\ rln \in Register /\ rCNT \in Register
  /\ rBSE \in Register
BY DEF Register, rdst, rsc0, rsc1, ridx, rtmp, rsp0, rsp1, rln, rCNT, rBSE

\* A register holds a number.
LEMMA RegisterIsInt ==
  ASSUME TypeOK, NEW r \in Register
  PROVE  reg[r] \in SWord /\ reg[r] \in Int /\ ToUWord(reg[r]) \in UWord
BY ConversionTypes DEF TypeOK, CpuType, SWord, Between

\* The address of a load is a word.
LEMMA LoadAddressType ==
  ASSUME TypeOK, opcode \in LoadOps
  PROVE  LoadAddress \in UWord
<1>1. /\ ToUWord(reg[rBSE] + reg[ridx]) \in UWord
      /\ ToUWord(reg[rsp0]) \in UWord
      /\ ToUWord(reg[rsp1]) \in UWord
  BY RegisterIsInt, RegisterConstants, ConversionTypes
<1>2. rAddress \in UWord
  BY DEF TypeOK, CpuType
<1>3. QED
  BY <1>1, <1>2 DEF LoadAddress, LoadOps, LoadDirect, LoadIndexed, Pop0, Pop1

\* So is the address of a store.
LEMMA StoreAddressType ==
  ASSUME TypeOK, opcode \in StoreOps
  PROVE  StoreAddress \in UWord
<1>1. rAddress \in UWord /\ rAddress \in Int
  BY DEF TypeOK, CpuType, UWord, Between
<1>2. /\ ToUWord(rAddress + reg[ridx]) \in UWord
      /\ ToUWord(reg[rsp0]) \in UWord
      /\ ToUWord(reg[rsp1]) \in UWord
  BY <1>1, RegisterIsInt, RegisterConstants, ConversionTypes
<1>3. QED
  BY <1>1, <1>2 DEF StoreAddress, StoreOps, StoreDirect, StoreIndexed, Push0, Push1

\* The result of an operation fits into a register.
LEMMA AluType ==
  ASSUME NEW op \in AluOps, NEW a \in SWord, NEW b \in SWord
  PROVE  Alu(op, a, b) \in SWord
<1>1. a \in Int /\ b \in Int
  BY DEF SWord, Between
<1>2. a + b \in Int /\ a - b \in Int /\ a * b \in Int
  BY <1>1
<1>3. /\ ToSWord(a + b) \in SWord
      /\ ToSWord(a - b) \in SWord
      /\ ToSWord(a * b) \in SWord
  BY <1>2, ConversionTypes
<1>4. Nand(a, b) \in SWord
  BY NandType
<1>5. QED
  BY <1>3, <1>4 DEF Alu, AluOps, Add, Sub, Mul, NandOp

-----------------------------------------------------------------------------
(* The steps of the processor, by what they do to the bus. *)

\* A request of a byte or a word.
LEMMA StartReadType ==
  ASSUME TypeOK, NEW a \in UWord, StartRead(a)
  PROVE  bus' \in BusType /\ bus'.mode = "Read" /\ bus'.address = a
BY DEF TypeOK, StartRead, BusType, Modes, CPU_ID

\* The bus after the answer.
LEMMA EndReadType ==
  ASSUME TypeOK, EndRead \/ EndReadDisown
  PROVE  /\ bus' \in BusType /\ bus'.mode = "Off"
         /\ bus'.address = bus.address /\ bus'.data = bus.data
BY DEF TypeOK, EndRead, EndReadDisown, BusType, Modes, BUS_UNOWNED

\* What a store, or the ghost of one, leaves on the bus.
LEMMA DriveStoreType ==
  ASSUME TypeOK, DriveStore, opcode \in StoreOps => rR0 \in Register
  PROVE  /\ bus' \in BusType /\ bus'.mode = "Write"
         /\ opcode \in StoreOps =>
              bus'.address = StoreAddress /\ bus'.data = ToUWord(reg[rR0])
         /\ opcode \notin StoreOps =>
              bus'.address = bus.address /\ bus'.data = bus.data
         /\ cpu_phase' = "Store1"
<1>1. CASE opcode \in StoreOps
  <2>1. StoreAddress \in UWord
    BY <1>1, StoreAddressType
  <2>2. ToUWord(reg[rR0]) \in UWord
    BY <1>1, RegisterIsInt
  <2>3. QED
    BY <1>1, <2>1, <2>2 DEF TypeOK, DriveStore, BusType, Modes
<1>2. CASE opcode \notin StoreOps
  BY <1>2 DEF TypeOK, DriveStore, BusType, Modes
<1>3. QED
  BY <1>1, <1>2

-----------------------------------------------------------------------------
(* The three devices preserve the invariant.                               *)

\* What a step of the processor leaves alone, and the two ways in which it
\* keeps BusShowsMemory: the bus still carries the answer it carried before,
\* or it asks for something new.
LEMMA CpuStepFrame ==
  ASSUME IInv, CpuStep
  PROVE  /\ dev = "cpu" /\ dev' = "memory" /\ memory' = memory
         /\ bus' \in BusType /\ CpuType' => TypeOK'
         /\ /\ bus'.address = bus.address /\ bus'.data = bus.data
            /\ cpu_phase \notin {"Init", "Fetch0", "Store1"}
            => BusShowsMemory'
         /\ bus'.mode = "Read" => BusShowsMemory'
         /\ cpu_phase' = "Fetch0" => BusShowsMemory'
         /\ cpu_phase' = "Store1" /\ opcode' \in StoreOps => BusShowsMemory'
<1>1. /\ dev = "cpu" /\ dev' = "memory" /\ process' = process
      /\ memory' = memory /\ stdin' = stdin /\ stdout' = stdout
  BY DEF CpuStep, Turn, serialVars
<1>2. bus' \in BusType /\ CpuType' => TypeOK'
  BY <1>1 DEF IInv, TypeOK, MemoryType, SerialType
<1>3. ASSUME bus'.address = bus.address, bus'.data = bus.data,
             cpu_phase \notin {"Init", "Fetch0", "Store1"}
      PROVE  BusShowsMemory'
  <2>1. InstructionUnderWay
    BY <1>1, <1>3 DEF InstructionUnderWay
  <2>2. InMemory(bus.address) =>
          Backed(bus.address) /\ bus.data = memory[Cell(bus.address)]
    BY <2>1 DEF IInv, BusShowsMemory
  <2>3. QED
    BY <1>1, <1>3, <2>2 DEF BusShowsMemory, InMemory, Backed, Cell
<1>4. bus'.mode = "Read" => BusShowsMemory'
  BY <1>1 DEF BusShowsMemory, InstructionUnderWay
<1>5. cpu_phase' = "Fetch0" => BusShowsMemory'
  BY DEF BusShowsMemory, InstructionUnderWay
<1>6. cpu_phase' = "Store1" /\ opcode' \in StoreOps => BusShowsMemory'
  BY DEF BusShowsMemory, InstructionUnderWay
<1>7. QED
  BY <1>1, <1>2, <1>3, <1>4, <1>5, <1>6

\* The phases that fetch, decode and load the operand.
LEMMA FetchIInv ==
  ASSUME IInv, CpuStep,
         \/ Reset \/ Fetch0 \/ Fetch1 \/ Decode
         \/ GetData0 \/ GetData1 \/ GetData2 \/ GetData3 \/ Load0
  PROVE  IInv'
<1> USE CpuStepFrame
<1>0. /\ TypeOK /\ CpuType /\ bus \in BusType /\ rip \in Int
      /\ rOP \in Byte /\ rR0 \in Byte /\ rR1 \in Byte /\ bus.data \in Int
  BY DEF IInv, TypeOK, CpuType, BusType, SWord, UWord, Between
<1>1. CASE Reset
  <2>1. bus' = bus /\ cpu_phase' = "Fetch0" /\ cpu_phase = "Init"
    BY <1>1 DEF Reset
  <2>2. CpuType'
    BY <1>0, <1>1 DEF Reset, CpuType, latches, Phases, SWord, Between
  <2>3. ModeByPhase' /\ IndicesInBounds'
    BY <2>1 DEF IInv, ModeByPhase, IndicesInBounds, ReadPhases
  <2>4. QED
    BY <1>0, <2>1, <2>2, <2>3 DEF IInv
<1>2. ASSUME NEW from, NEW to \in ReadPhases \ {"Load1"}, RequestByte(from, to)
      PROVE  IInv'
  <2>1. StartRead(ToUWord(rip)) /\ cpu_phase' = to
    BY <1>2 DEF RequestByte
  <2>2. bus' \in BusType /\ bus'.mode = "Read"
    BY <1>0, <2>1, StartReadType, ConversionTypes
  <2>3. ToSWord(rip + 1) \in SWord
    BY <1>0, ConversionTypes
  <2>4. CpuType'
    BY <1>0, <1>2, <2>3 DEF RequestByte, CpuType, latches, Phases, ReadPhases
  <2>5. ModeByPhase' /\ IndicesInBounds'
    BY <2>1, <2>2 DEF ModeByPhase, IndicesInBounds, ReadPhases
  <2>6. QED
    BY <2>2, <2>4, <2>5 DEF IInv
<1>3. CASE Fetch0 \/ GetData0 \/ GetData2
  BY <1>2, <1>3 DEF Fetch0, GetData0, GetData2, ReadPhases
<1>4. CASE Fetch1 \/ GetData1 \/ GetData3
  <2>1. /\ EndRead \/ EndReadDisown
        /\ cpu_phase \in {"Fetch1", "GetData1", "GetData3"}
        /\ cpu_phase' \in {"Decode", "GetData2", "Prepare"}
    BY <1>4 DEF Fetch1, GetData1, GetData3
  <2>2. /\ bus' \in BusType /\ bus'.mode = "Off"
        /\ bus'.address = bus.address /\ bus'.data = bus.data
    BY <1>0, <2>1, EndReadType
  <2>3. ToByte(bus.data) \in Byte
    BY <1>0, ConversionTypes
  <2>4. CpuType'
    BY <1>0, <1>4, <2>3
    DEF Fetch1, GetData1, GetData3, CpuType, registers, Phases
  <2>5. ModeByPhase' /\ IndicesInBounds'
    BY <2>1, <2>2 DEF ModeByPhase, IndicesInBounds, ReadPhases
  <2>6. QED
    BY <2>1, <2>2, <2>4, <2>5 DEF IInv
<1>5. CASE Decode
  <2>1. /\ bus' = bus /\ cpu_phase = "Decode"
        /\ cpu_phase' \in {"GetData0", "GetData2", "Prepare"}
    BY <1>5 DEF Decode
  <2>2. LowNibble(rOP) \in Register /\ HighNibble(rOP) \in Byte
    BY <1>0, NibbleTypes DEF Register, Byte, Between
  <2>3. CpuType'
    BY <1>0, <1>5, <2>1, <2>2 DEF Decode, CpuType, registers, Phases
  <2>4. ModeByPhase' /\ IndicesInBounds'
    BY <2>1 DEF IInv, ModeByPhase, IndicesInBounds, ReadPhases
  <2>5. QED
    BY <1>0, <2>1, <2>3, <2>4 DEF IInv
<1>6. CASE Load0
  <2>1. opcode \in LoadOps /\ rR0 \in Register /\ rR1 \in Register
    BY <1>6 DEF Load0, IInv, IndicesInBounds
  <2>2. bus' \in BusType /\ bus'.mode = "Read"
    BY <1>0, <1>6, <2>1, LoadAddressType, StartReadType DEF Load0
  <2>3. CpuType'
    BY <1>0, <1>6 DEF Load0, CpuType, registers, latches, Phases
  <2>4. ModeByPhase' /\ IndicesInBounds'
    BY <1>6, <2>1, <2>2 DEF Load0, latches, ModeByPhase, IndicesInBounds, ReadPhases
  <2>5. QED
    BY <2>2, <2>3, <2>4 DEF IInv
<1>7. QED
  BY <1>1, <1>3, <1>4, <1>5, <1>6

\* Prepare is where the latches become register numbers.
LEMMA PrepareIInv ==
  ASSUME IInv, CpuStep, Prepare
  PROVE  IInv'
<1> USE CpuStepFrame
<1>1. /\ CpuType /\ bus \in BusType /\ rR0 \in Byte /\ rR1 \in Byte
      /\ bus' = bus /\ cpu_phase = "Prepare"
  BY DEF IInv, TypeOK, CpuType, Prepare
<1>2. 256 * rR0 + rR1 \in UWord
  BY <1>1 DEF Byte, UWord, Between
<1>3. LowNibble(rR0) \in Register /\ LowNibble(rR1) \in Register
  BY <1>1, NibbleTypes DEF Register
<1>4. rR0' \in Byte /\ rR1' \in Byte
  BY <1>3 DEF Prepare, Register, Byte, Between
<1>5. CpuType'
  BY <1>1, <1>2, <1>4 DEF Prepare, CpuType, registers, Phases
<1>6. ModeByPhase'
  BY <1>1 DEF IInv, Prepare, ModeByPhase, ReadPhases
<1>7. IndicesInBounds'
  BY <1>3 DEF Prepare, IndicesInBounds
<1>8. QED
  BY <1>1, <1>5, <1>6, <1>7 DEF IInv

\* The ghost write: the phases that run on into Store0 without being a store.
LEMMA GhostWriteIInv ==
  ASSUME IInv, CpuStep, cpu_phase \in {"Load1", "Execute"},
         opcode \notin StoreOps, DriveStore, CpuType', opcode' = opcode
  PROVE  IInv'
<1>1. /\ bus' \in BusType /\ bus'.mode = "Write" /\ cpu_phase' = "Store1"
      /\ bus'.address = bus.address /\ bus'.data = bus.data
  BY DriveStoreType DEF IInv
<1>2. ModeByPhase' /\ IndicesInBounds'
  BY <1>1 DEF ModeByPhase, IndicesInBounds, ReadPhases
<1>3. QED
  BY <1>1, <1>2, CpuStepFrame DEF IInv

\* Every way through Execute, also from Load1.
LEMMA ExecuteIInv ==
  ASSUME IInv, CpuStep, Load1 \/ Execute
  PROVE  IInv'
<1>1. /\ CpuType /\ TypeOK /\ bus \in BusType /\ bus.data \in UWord
      /\ bus.data \in Int /\ rValue \in Int
  BY DEF IInv, TypeOK, CpuType, BusType, UWord, Between
<1>2. /\ rR0 \in Register /\ rR1 \in Register
      /\ rR0 \in Byte /\ rR1 \in Byte
      /\ reg \in [Register -> SWord]
      /\ cpu_phase \in {"Load1", "Execute"}
  BY DEF IInv, TypeOK, CpuType, IndicesInBounds, Load1, Execute, ExecuteLoadImm,
         ExecuteStore, ExecuteTransfer, ExecuteAlu, ExecuteDivMod, ExecuteJump,
         ExecuteHalt, ExecuteRestoreTmp, ExecuteNothing
<1>3. \A r \in Register : reg[r] \in SWord /\ reg[r] \in Int
  BY <1>1, RegisterIsInt
<1>4. rtmp \in Byte
  BY DEF rtmp, Byte, Between
<1>5. ASSUME NEW v \in Int, SetTmp(v)
      PROVE  reg' \in [Register -> SWord] /\ rtmp2' \in SWord
  <2>1. ToSWord(v) \in SWord
    BY ConversionTypes
  <2>2. QED
    BY <1>2, <1>3, <1>5, <2>1, RegisterConstants DEF SetTmp
<1>6. CASE Load1
  <2>1. opcode \notin StoreOps /\ DriveStore /\ opcode' = opcode
    BY <1>6 DEF Load1, LoadOps, StoreOps, LoadDirect, LoadIndexed, Pop0, Pop1,
                StoreDirect, StoreIndexed, Push0, Push1
  <2>2. cpu_phase' = "Store1"
    BY <2>1 DEF DriveStore
  <2>3. CpuType'
    BY <1>1, <1>5, <1>6, <2>2 DEF Load1, CpuType, Phases
  <2>4. QED
    BY <1>2, <2>1, <2>3, GhostWriteIInv
<1>7. CASE ExecuteLoadImm
  <2>1. opcode \notin StoreOps /\ DriveStore /\ opcode' = opcode
    BY <1>7 DEF ExecuteLoadImm, StoreOps, LoadImm, StoreDirect, StoreIndexed,
                Push0, Push1
  <2>2. cpu_phase' = "Store1"
    BY <2>1 DEF DriveStore
  <2>3. CpuType'
    BY <1>1, <1>4, <1>5, <1>7, <2>2 DEF ExecuteLoadImm, CpuType, Phases
  <2>4. QED
    BY <1>2, <2>1, <2>3, GhostWriteIInv
<1>8. CASE ExecuteStore
  <2>1. /\ bus' = bus /\ cpu_phase = "Execute" /\ cpu_phase' = "Store0"
        /\ opcode' = opcode /\ opcode \in StoreOps /\ rR1' = rR1
    BY <1>8 DEF ExecuteStore
  <2>2. rR0' \in Register /\ rR0' \in Byte
    BY <1>2, <1>4, <1>8, RegisterConstants DEF ExecuteStore
  <2>3. CpuType'
    BY <1>1, <1>8, <2>1, <2>2 DEF ExecuteStore, CpuType, registers, Phases
  <2>4. ModeByPhase'
    BY <2>1 DEF IInv, ModeByPhase, ReadPhases
  <2>5. IndicesInBounds'
    BY <1>2, <2>1, <2>2 DEF IndicesInBounds
  <2>6. QED
    BY <1>1, <2>1, <2>3, <2>4, <2>5, CpuStepFrame DEF IInv
<1>9. CASE ExecuteTransfer
  <2>1. opcode \notin StoreOps /\ DriveStore /\ opcode' = opcode
    BY <1>9 DEF ExecuteTransfer, latches, StoreOps, TransferRegister,
                StoreDirect, StoreIndexed, Push0, Push1
  <2>2. cpu_phase' = "Store1"
    BY <2>1 DEF DriveStore
  <2>3. reg' \in [Register -> SWord]
    BY <1>2, <1>3, <1>9 DEF ExecuteTransfer
  <2>4. rtmp2' \in SWord
    BY <1>1, <1>3, <1>9, RegisterConstants DEF ExecuteTransfer, CpuType
  <2>5. CpuType'
    BY <1>1, <1>9, <2>2, <2>3, <2>4 DEF ExecuteTransfer, latches, CpuType, Phases
  <2>6. QED
    BY <1>2, <2>1, <2>5, GhostWriteIInv
<1>10. CASE ExecuteAlu
  <2>1. opcode \notin StoreOps /\ DriveStore /\ opcode' = opcode
    BY <1>10 DEF ExecuteAlu, latches, AluOps, StoreOps, Add, Sub, Mul, NandOp,
                 StoreDirect, StoreIndexed, Push0, Push1
  <2>2. cpu_phase' = "Store1"
    BY <2>1 DEF DriveStore
  <2>3. Alu(opcode, reg[rsc0], reg[rsc1]) \in SWord
    BY <1>3, <1>10, RegisterConstants, AluType DEF ExecuteAlu
  <2>4. CpuType'
    BY <1>1, <1>2, <1>10, <2>2, <2>3, RegisterConstants
    DEF ExecuteAlu, latches, CpuType, Phases
  <2>5. QED
    BY <1>2, <2>1, <2>4, GhostWriteIInv
<1>11. CASE ExecuteDivMod
  <2>1. opcode \notin StoreOps /\ DriveStore /\ opcode' = opcode
    BY <1>11 DEF ExecuteDivMod, latches, StoreOps, DivMod,
                 StoreDirect, StoreIndexed, Push0, Push1
  <2>2. cpu_phase' = "Store1"
    BY <2>1 DEF DriveStore
  <2>3. /\ ToSWord(Quotient(reg[rsc0], reg[rsc1])) \in SWord
        /\ ToSWord(Remainder(reg[rsc0], reg[rsc1])) \in SWord
    BY <1>3, <1>11, RegisterConstants, QuotientType, ConversionTypes
    DEF ExecuteDivMod
  <2>4. reg' \in [Register -> SWord] /\ rtmp2' \in SWord
    BY <1>2, <1>3, <1>11, <2>3, RegisterConstants DEF ExecuteDivMod
  <2>5. CpuType'
    BY <1>1, <1>11, <2>2, <2>4 DEF ExecuteDivMod, latches, CpuType, Phases
  <2>6. QED
    BY <1>2, <2>1, <2>5, GhostWriteIInv
<1>12. CASE ExecuteJump \/ ExecuteRestoreTmp \/ ExecuteNothing
  <2>1. opcode \notin StoreOps /\ DriveStore /\ opcode' = opcode
    BY <1>12 DEF ExecuteJump, ExecuteRestoreTmp, ExecuteNothing, JumpTaken,
                 latches, Extended, StoreOps, StoreDirect, StoreIndexed, Push0, Push1
  <2>2. cpu_phase' = "Store1"
    BY <2>1 DEF DriveStore
  <2>3. reg' \in [Register -> SWord] /\ rtmp2' \in SWord /\ rip' \in SWord
    BY <1>1, <1>2, <1>3, <1>12, RegisterConstants
    DEF ExecuteJump, ExecuteRestoreTmp, ExecuteNothing, registers, CpuType
  <2>4. CpuType'
    BY <1>1, <1>12, <2>2, <2>3
    DEF ExecuteJump, ExecuteRestoreTmp, ExecuteNothing, latches, CpuType, Phases
  <2>5. QED
    BY <1>2, <2>1, <2>4, GhostWriteIInv
<1>13. CASE ExecuteHalt
  <2>1. bus' = bus /\ cpu_phase = "Execute" /\ cpu_phase' = "Halted"
    BY <1>13 DEF ExecuteHalt
  <2>2. CpuType'
    BY <1>1, <1>13 DEF ExecuteHalt, CpuType, registers, latches, Phases
  <2>3. ModeByPhase' /\ IndicesInBounds'
    BY <2>1 DEF IInv, ModeByPhase, IndicesInBounds, ReadPhases
  <2>4. QED
    BY <1>1, <2>1, <2>2, <2>3, CpuStepFrame DEF IInv
<1>14. QED
  BY <1>6, <1>7, <1>8, <1>9, <1>10, <1>11, <1>12, <1>13 DEF Execute

\* The two phases of a store.
LEMMA StoreIInv ==
  ASSUME IInv, CpuStep, Store0 \/ Store1
  PROVE  IInv'
<1> USE CpuStepFrame
<1>1. CpuType /\ TypeOK /\ bus \in BusType
  BY DEF IInv, TypeOK
<1>2. CASE Store0
  <2>1. opcode \in StoreOps /\ rR0 \in Register /\ DriveStore /\ opcode' = opcode
    BY <1>2 DEF Store0, latches, IInv, IndicesInBounds
  <2>2. bus' \in BusType /\ bus'.mode = "Write" /\ cpu_phase' = "Store1"
    BY <1>1, <2>1, DriveStoreType
  <2>3. CpuType'
    BY <1>1, <1>2, <2>2 DEF Store0, CpuType, registers, latches, Phases
  <2>4. ModeByPhase' /\ IndicesInBounds'
    BY <2>2 DEF ModeByPhase, IndicesInBounds, ReadPhases
  <2>5. QED
    BY <2>1, <2>2, <2>3, <2>4 DEF IInv
<1>3. CASE Store1
  <2>1. 0 \in UWord
    BY DEF UWord, Between
  <2>2. bus' \in BusType /\ bus'.mode = "Off" /\ cpu_phase' = "Fetch0"
    BY <1>1, <1>3, <2>1 DEF Store1, BusType, Modes
  <2>3. CpuType'
    BY <1>1, <1>3 DEF Store1, CpuType, registers, latches, Phases
  <2>4. ModeByPhase' /\ IndicesInBounds'
    BY <2>2 DEF ModeByPhase, IndicesInBounds, ReadPhases
  <2>5. QED
    BY <2>2, <2>3, <2>4 DEF IInv
<1>4. QED
  BY <1>2, <1>3

\* Every step of the processor keeps the invariant.
LEMMA CpuStepIInv ==
  ASSUME IInv, CpuStep
  PROVE  IInv'
BY FetchIInv, PrepareIInv, ExecuteIInv, StoreIInv DEF CpuStep, CpuSimulate

\* The memory answers a read, so that the bus shows what it holds, and takes a
\* write, after which it holds what the bus shows.
LEMMA MemoryStepIInv ==
  ASSUME IInv, MemoryStep
  PROVE  IInv'
<1>1. /\ dev = "memory" /\ dev' = "serial" /\ process' = process
      /\ stdin' = stdin /\ stdout' = stdout
      /\ cpu_phase' = cpu_phase /\ opcode' = opcode /\ rR0' = rR0 /\ rR1' = rR1
      /\ CpuType'
  BY DEF MemoryStep, Turn, serialVars, cpuVars, registers, latches,
         IInv, TypeOK, CpuType
<1>2. /\ bus \in BusType /\ memory \in [Cells -> UWord]
      /\ bus.address \in Int /\ bus.data \in UWord
  BY DEF IInv, TypeOK, MemoryType, BusType, UWord, Between
<1>3. Backed(bus.address) => Cell(bus.address) \in Cells
  BY <1>2, MemoryAssumption DEF Backed, InMemory, Cell, Cells, UWord, Between
<1>4. /\ bus' \in BusType /\ bus'.mode = bus.mode /\ bus'.address = bus.address
      /\ memory' \in [Cells -> UWord]
  BY <1>2, <1>3 DEF MemoryStep, MemorySimulate, MemoryIgnores, MemoryRead,
                    MemoryWrite, BusType, Modes
<1>5. TypeOK'
  BY <1>1, <1>4 DEF IInv, TypeOK, MemoryType, SerialType
<1>6. ModeByPhase' /\ IndicesInBounds'
  BY <1>1, <1>4 DEF IInv, ModeByPhase, IndicesInBounds
<1>7. BusShowsMemory'
  <2>1. CASE MemoryIgnores
    <3>1. bus' = bus /\ memory' = memory
      BY <2>1 DEF MemoryIgnores
    <3>2. CASE InMemory(bus.address)
      <4>1. bus.mode # "Read"
        BY <2>1, <3>2 DEF MemoryIgnores, BusActive
      <4>2. QED
        BY <1>1, <3>1, <4>1
        DEF IInv, BusShowsMemory, InstructionUnderWay, InMemory, Backed, Cell
    <3>3. CASE ~ InMemory(bus.address)
      BY <3>1, <3>3 DEF BusShowsMemory, InMemory
    <3>4. QED
      BY <3>2, <3>3
  <2>2. CASE MemoryRead
    <3>1. Backed(bus.address) /\ bus'.data = memory[Cell(bus.address)]
          /\ memory' = memory
      BY <1>2, <2>2 DEF MemoryRead, BusType
    <3>2. QED
      BY <1>4, <3>1 DEF BusShowsMemory, Backed, InMemory, Cell
  <2>3. CASE MemoryWrite
    <3>1. Backed(bus.address) /\ bus' = bus
          /\ memory'[Cell(bus.address)] = bus.data
      BY <1>2, <1>3, <2>3 DEF MemoryWrite
    <3>2. QED
      BY <3>1 DEF BusShowsMemory, Backed, InMemory, Cell
  <2>4. QED
    BY <2>1, <2>2, <2>3 DEF MemoryStep, MemorySimulate
<1>8. QED
  BY <1>5, <1>6, <1>7 DEF IInv

\* The port answers at an address that is not one of the memory's.
LEMMA SerialStepIInv ==
  ASSUME IInv, SerialStep
  PROVE  IInv'
<1>1. /\ dev = "serial" /\ dev' = "cpu" /\ process' = process
      /\ memory' = memory
      /\ cpu_phase' = cpu_phase /\ opcode' = opcode /\ rR0' = rR0 /\ rR1' = rR1
      /\ CpuType'
  BY DEF SerialStep, Turn, cpuVars, registers, latches, IInv, TypeOK, CpuType
<1>2. /\ bus \in BusType /\ bus.address \in UWord /\ bus.data \in Int
      /\ stdin \in Seq(InputChar) /\ stdout \in Seq(Byte)
  BY DEF IInv, TypeOK, SerialType, BusType, UWord, Between
<1>3. \A c \in Characters : c \in InputChar /\ PortWord(c) \in UWord
  <2>1. \A c \in Characters : c \in InputChar /\ c \in Int
    BY SerialAssumption DEF InputChar, Between
  <2>2. \A c \in Characters : ToChar(c) \in Int
    BY <2>1, ConversionTypes DEF Between
  <2>3. QED
    BY <2>1, <2>2, ConversionTypes DEF PortWord
<1>4. /\ bus' \in BusType /\ bus'.mode = bus.mode /\ bus'.address = bus.address
      /\ stdin' \in Seq(InputChar) /\ stdout' \in Seq(Byte)
      /\ bus'.data # bus.data => AtPort
  <2>1. CASE SerialIgnores
    BY <1>2, <2>1 DEF SerialIgnores, serialVars
  <2>2. CASE SerialRead
    <3>1. PICK c \in Characters :
            /\ bus' = [bus EXCEPT !.data = PortWord(c)]
            /\ stdin' = Append(stdin, c)
      BY <2>2 DEF SerialRead
    <3>2. bus' \in BusType /\ bus'.mode = bus.mode /\ bus'.address = bus.address
      BY <1>2, <1>3, <3>1 DEF BusType
    <3>3. stdin' \in Seq(InputChar)
      BY <1>2, <1>3, <3>1
    <3>4. QED
      BY <1>2, <2>2, <3>2, <3>3 DEF SerialRead
  <2>3. CASE SerialWrite
    <3>1. ToByte(bus.data) \in Byte
      BY <1>2, ConversionTypes
    <3>2. QED
      BY <1>2, <2>3, <3>1 DEF SerialWrite
  <2>4. QED
    BY <2>1, <2>2, <2>3 DEF SerialStep, SerialSimulate
<1>5. TypeOK'
  BY <1>1, <1>4 DEF IInv, TypeOK, MemoryType, SerialType
<1>6. ModeByPhase' /\ IndicesInBounds'
  BY <1>1, <1>4 DEF IInv, ModeByPhase, IndicesInBounds
<1>7. AtPort => ~ InMemory(bus.address)
  BY <1>2, AddressMapAssumption, MemoryAssumption, SerialAssumption
  DEF AtPort, InSerial, InMemory, UWord, Between
<1>8. BusShowsMemory'
  BY <1>1, <1>4, <1>7
  DEF IInv, BusShowsMemory, InstructionUnderWay, InMemory, Backed, Cell
<1>9. QED
  BY <1>5, <1>6, <1>8 DEF IInv

\* And so does every way to stop.
LEMMA StopIInv ==
  ASSUME IInv, Exit \/ Abort \/ UNCHANGED vars
  PROVE  IInv'
<1>1. /\ bus' = bus /\ memory' = memory /\ dev' = dev
      /\ stdin' = stdin /\ stdout' = stdout
      /\ cpu_phase' = cpu_phase /\ opcode' = opcode /\ rR0' = rR0 /\ rR1' = rR1
      /\ CpuType' /\ process' \in {"running", "exited", "aborted"}
  BY DEF Exit, Abort, Stop, vars, serialVars, cpuVars, registers, latches,
         IInv, TypeOK, CpuType
<1>2. TypeOK'
  BY <1>1 DEF IInv, TypeOK, MemoryType, SerialType
<1>3. ModeByPhase' /\ IndicesInBounds'
  BY <1>1 DEF IInv, ModeByPhase, IndicesInBounds
<1>4. BusShowsMemory'
  BY <1>1
  DEF IInv, BusShowsMemory, InstructionUnderWay, InMemory, Backed, Cell
<1>5. QED
  BY <1>2, <1>3, <1>4 DEF IInv

-----------------------------------------------------------------------------
(* The initial states: a program file fills the memory with words. *)

\* A set of segment numbers that is not empty has a largest one, the segment
\* that was copied last.
LEMMA LastSegment ==
  ASSUME NEW n \in Nat, NEW S \in SUBSET (1 .. n), S # {}
  PROVE  Max(S) \in S
<1>1. \E x \in S : \A y \in S : x >= y
  <2> DEFINE T == {n - i : i \in S}
  <2>1. T \subseteq Nat /\ T # {}
    <3>1. \A i \in S : i \in Int /\ n - i \in Nat
      OBVIOUS
    <3>2. QED
      BY <3>1
  <2>2. PICK t \in T : \A u \in T : ~ (<<u, t>> \in OpToRel(<, Nat))
    BY <2>1, NatLessThanWellFounded, WFMin
  <2>3. \A u \in T : u >= t
    <3> SUFFICES ASSUME NEW u \in T, ~ (u >= t) PROVE FALSE
      OBVIOUS
    <3>1. u \in Nat /\ t \in Nat
      BY <2>1
    <3>2. u < t
      BY <3>1
    <3>3. <<u, t>> \in OpToRel(<, Nat)
      BY <3>1, <3>2 DEF OpToRel
    <3>4. QED
      BY <2>2, <3>3
  <2>4. PICK x \in S : t = n - x
    OBVIOUS
  <2>5. \A y \in S : n - y >= n - x
    BY <2>3, <2>4
  <2>6. QED
    BY <2>4, <2>5
<1>2. QED
  BY <1>1 DEF Max

\* What the loader copies into the memory are words, wherever the segments are.
LEMMA LoadedType ==
  ASSUME NEW p \in Seq([address : Int, bytes : Seq(Byte)])
  PROVE  initialize_memory(p) \in [Cells -> UWord]
<1> SUFFICES ASSUME NEW c \in Cells PROVE LoadedCell(p, c) \in UWord
  BY DEF initialize_memory
<1>1. p \in Seq([address : Int, bytes : Seq(Byte)])
  OBVIOUS
<1>2. c \in Nat /\ 0 \in UWord
  BY MemoryAssumption DEF Cells, UWord, Between
<1> DEFINE covering == {i \in DOMAIN p :
                          /\ p[i].address <= c
                          /\ c < p[i].address + Len(p[i].bytes)}
<1>3. CASE covering = {}
  BY <1>2, <1>3 DEF LoadedCell
<1>4. CASE covering # {}
  <2> DEFINE m == Max(covering)
  <2>1. covering \in SUBSET (1 .. Len(p)) /\ Len(p) \in Nat
    BY <1>1
  <2> HIDE DEF covering
  <2>2. m \in covering
    BY <1>4, <2>1, LastSegment
  <2> USE DEF covering
  <2>3. m \in DOMAIN p /\ p[m].address <= c /\ c < p[m].address + Len(p[m].bytes)
    BY <2>2
  <2>4. p[m].address \in Int /\ p[m].bytes \in Seq(Byte)
    <3> HIDE DEF m
    <3>1. p[m] \in [address : Int, bytes : Seq(Byte)]
      BY <1>1, <2>1, <2>3, ElementOfSeq
    <3>2. QED
      BY <3>1
  <2>5. c - p[m].address + 1 \in 1 .. Len(p[m].bytes)
    BY <1>2, <2>3, <2>4
  <2>6. p[m].bytes[c - p[m].address + 1] \in Byte
    BY <2>4, <2>5
  <2>7. p[m].bytes[c - p[m].address + 1] \in Int
    BY <2>6 DEF Byte, Between
  <2>8. ToChar(p[m].bytes[c - p[m].address + 1]) \in Int
    BY <2>7, ConversionTypes DEF Between
  <2>9. ToUWord(ToChar(p[m].bytes[c - p[m].address + 1])) \in UWord
    BY <2>8, ConversionTypes
  <2>10. QED
    BY <1>4, <2>9 DEF LoadedCell
<1>5. QED
  BY <1>3, <1>4

\* The program files are such segments.
LEMMA ProgramLoaded == ASSUME NEW p \in Programs PROVE initialize_memory(p) \in [Cells -> UWord]
<1>1. p \in Seq([address : Nat, bytes : Seq(Byte)])
  BY ProgramsAssumption
<1> DEFINE segment == [address : Int, bytes : Seq(Byte)]
<1>2. p \in Seq(segment)
  <2>1. [address : Nat, bytes : Seq(Byte)] \subseteq segment
    OBVIOUS
  <2> HIDE DEF segment
  <2>2. \A i \in 1 .. Len(p) : p[i] \in segment
    BY <1>1, <2>1, ElementOfSeq
  <2>3. QED
    BY <1>1, <2>2
<1>3. QED
  BY <1>2, LoadedType

\* main() enters its loop, with any words in the memory.
Begun ==
  /\ BusInit /\ CpuInit /\ SerialInit
  /\ MemoryType /\ dev = "cpu" /\ process = "running"

\* So it does with a program file.
LEMMA InitBegun == Init => Begun
BY ProgramLoaded DEF Init, Begun, MemoryType

\* The invariant holds then.
LEMMA BegunIInv == Begun => IInv
<1> SUFFICES ASSUME Begun PROVE IInv
  OBVIOUS
<1>1. 0 \in UWord /\ 0 \in SWord /\ 0 \in Byte
  BY DEF UWord, SWord, Byte, Between
<1>2. bus \in BusType
  BY <1>1 DEF Begun, BusInit, BusType, Modes, BUS_UNOWNED
<1>3. CpuType
  BY <1>1 DEF Begun, CpuInit, CpuType, Phases, Unknown
<1>4. MemoryType
  BY DEF Begun
<1>5. TypeOK
  BY <1>2, <1>3, <1>4 DEF Begun, SerialInit, SerialType, TypeOK
<1>6. ModeByPhase /\ IndicesInBounds /\ BusShowsMemory
  BY DEF Begun, BusInit, CpuInit, ModeByPhase, ReadPhases, IndicesInBounds,
         BusShowsMemory, InstructionUnderWay
<1>7. QED
  BY <1>5, <1>6 DEF IInv

-----------------------------------------------------------------------------
\* The invariant, for every step of the loop in main().
LEMMA NextIInv == IInv /\ [Next]_vars => IInv'
BY CpuStepIInv, MemoryStepIInv, SerialStepIInv, StopIInv DEF Next

\* IInv is an invariant of the machine that main() runs: types, the mode of the
\* bus in each phase, indices in bounds, and the bus showing the memory.
THEOREM Invariance == Spec => []IInv
<1>1. Init => IInv
  BY InitBegun, BegunIInv
<1>2. QED
  BY <1>1, NextIInv, PTL DEF Spec

\* Every register, latch, bus line and memory cell keeps the width its C++
\* type has, through every conversion of the switch.
THEOREM TypeCorrect == Spec => []TypeOK
BY Invariance, PTL DEF IInv

\* No instruction indexes the array `registers' outside of its sixteen
\* pointers, and only loads and stores reach the phases made for them.
THEOREM IndicesCorrect == Spec => []IndicesInBounds
BY Invariance, PTL DEF IInv

\* The bus is in Read exactly after the phases that request a byte or an
\* operand, and in Write exactly after Store0, on every path of the switch.
THEOREM ModesCorrect == Spec => []ModeByPhase
BY Invariance, PTL DEF IInv

\* The ghost write of an instruction that is not a store puts back the word
\* the memory already holds.
THEOREM BusCorrect == Spec => []BusShowsMemory
BY Invariance, PTL DEF IInv

-----------------------------------------------------------------------------
(* Only stores change the memory.                                          *)

\* In the round in which a store strobes the bus, and until it lets go.
StoreDriven ==
  cpu_phase = "Store1" /\ opcode \in StoreOps =>
    bus.address = StoreAddress /\ bus.data = ToUWord(reg[rR0])

\* It is kept.
LEMMA StoreDrivenStep == IInv /\ StoreDriven /\ [Next]_vars => StoreDriven'
<1> SUFFICES ASSUME IInv, StoreDriven, [Next]_vars,
                    cpu_phase' = "Store1", opcode' \in StoreOps
             PROVE  bus'.address = StoreAddress' /\ bus'.data = ToUWord(reg'[rR0'])
  BY DEF StoreDriven
<1>1. CASE CpuStep
  <2>1. ASSUME DriveStore, opcode' = opcode, opcode \in StoreOps,
               reg' = reg, rR0' = rR0, rAddress' = rAddress, rR0 \in Register
        PROVE  bus'.address = StoreAddress' /\ bus'.data = ToUWord(reg'[rR0'])
    <3>1. StoreAddress' = StoreAddress
      BY <2>1 DEF StoreAddress
    <3>2. QED
      BY <2>1, <3>1, DriveStoreType DEF IInv
  <2>2. CASE Store0
    BY <2>1, <2>2 DEF Store0, registers, latches, IInv, IndicesInBounds
  <2>3. CASE Load1 \/ (Execute /\ ~ ExecuteStore /\ ~ ExecuteHalt)
    <3>1. opcode' \notin StoreOps
      BY <2>3 DEF Load1, Execute, ExecuteLoadImm, ExecuteTransfer, ExecuteAlu,
           ExecuteDivMod, ExecuteJump, ExecuteRestoreTmp, ExecuteNothing,
           JumpTaken, latches, LoadOps, AluOps, StoreOps, LoadDirect, LoadIndexed,
           Pop0, Pop1, LoadImm, TransferRegister, Add, Sub, Mul, DivMod, NandOp,
           Extended, StoreDirect, StoreIndexed, Push0, Push1
    <3>2. QED
      BY <3>1
  <2>4. cpu_phase' # "Store1" \/ Store0
        \/ Load1 \/ (Execute /\ ~ ExecuteStore /\ ~ ExecuteHalt)
    BY <1>1 DEF CpuStep, CpuSimulate, Reset, Fetch0, GetData0, GetData2, RequestByte,
         Fetch1, Decode, GetData1, GetData3, Prepare, Load0, ExecuteStore,
         ExecuteHalt, Store1
  <2>5. QED
    BY <2>2, <2>3, <2>4
<1>2. CASE MemoryStep \/ SerialStep \/ Exit \/ Abort \/ UNCHANGED vars
  <2>1. /\ cpu_phase' = cpu_phase /\ opcode' = opcode /\ reg' = reg
        /\ rR0' = rR0 /\ rAddress' = rAddress
    BY <1>2 DEF MemoryStep, SerialStep, Exit, Abort, Stop, vars, cpuVars,
                registers, latches
  <2>2. bus.mode = "Write"
    BY <2>1 DEF IInv, ModeByPhase
  <2>3. bus' = bus
    BY <1>2, <2>2
    DEF MemoryStep, MemorySimulate, MemoryIgnores, MemoryRead, MemoryWrite,
        SerialStep, SerialSimulate, SerialIgnores, SerialRead, SerialWrite,
        Exit, Abort, Stop, vars
  <2>4. StoreAddress' = StoreAddress
    BY <2>1 DEF StoreAddress
  <2>5. QED
    BY <2>1, <2>3, <2>4 DEF StoreDriven
<1>3. QED
  BY <1>1, <1>2 DEF Next

\* A step that changes the memory is a store that has driven the bus.
LEMMA WriteStep ==
  ASSUME IInv, StoreDriven, [Next]_vars, memory' # memory
  PROVE  /\ opcode \in StoreOps
         /\ memory' = [memory EXCEPT ![Cell(StoreAddress)] = ToUWord(reg[rR0])]
<1>1. MemoryStep /\ MemoryWrite
  BY DEF Next, CpuStep, MemoryStep, MemorySimulate, MemoryIgnores, MemoryRead,
         SerialStep, Exit, Abort, Stop, vars
<1>2. /\ bus.mode = "Write" /\ cpu_phase = "Store1" /\ Backed(bus.address)
      /\ memory' = [memory EXCEPT ![Cell(bus.address)] = bus.data]
  BY <1>1 DEF MemoryWrite, IInv, ModeByPhase
<1>3. opcode \in StoreOps
  <2> SUFFICES ASSUME opcode \notin StoreOps PROVE FALSE
    OBVIOUS
  <2>1. bus.data = memory[Cell(bus.address)]
    BY <1>2 DEF IInv, BusShowsMemory, InstructionUnderWay, Backed
  <2>2. memory' = memory
    BY <1>2, <2>1 DEF IInv, TypeOK, MemoryType
  <2>3. QED
    BY <2>2
<1>4. QED
  BY <1>2, <1>3 DEF StoreDriven

\* Although every instruction ends with a write on the bus, only the stores
\* change the memory: one cell, to the value of their register.
THEOREM MemorySafety == Spec => OnlyStoresWrite
<1>1. Init => StoreDriven
  BY DEF Init, CpuInit, StoreDriven
<1>2. Spec => []StoreDriven
  BY <1>1, StoreDrivenStep, Invariance, PTL DEF Spec
<1>3. IInv /\ StoreDriven /\ [Next]_vars =>
        [memory' # memory =>
           /\ opcode \in StoreOps
           /\ memory' = [memory EXCEPT ![Cell(StoreAddress)] = ToUWord(reg[rR0])]]_vars
  BY WriteStep
<1>4. QED
  BY <1>2, <1>3, Invariance, PTL DEF Spec, OnlyStoresWrite

-----------------------------------------------------------------------------
(* Only what was read is echoed.                                           *)

\* From the answer to a read on, the port's address on the bus means that the
\* data is the character read last.
PortShowsInput ==
  /\ AtPort
  /\ cpu_phase \notin {"Init", "Fetch0"}
  /\ ~ (cpu_phase = "Store1" /\ opcode \in StoreOps)
  /\ ~ (bus.mode = "Read" /\ dev \in {"memory", "serial"})
  => stdin # <<>> /\ bus.data = PortWord(Last(stdin))

\* It is kept.
LEMMA EchoStep == IInv /\ PortShowsInput /\ [Next]_vars => PortShowsInput'
<1> SUFFICES ASSUME IInv, PortShowsInput, [Next]_vars PROVE PortShowsInput'
  OBVIOUS
<1>0. bus \in BusType
  BY DEF IInv, TypeOK
<1>1. CASE CpuStep
  <2>1. dev = "cpu" /\ dev' = "memory" /\ stdin' = stdin
    BY <1>1 DEF CpuStep, Turn, serialVars
  <2>2. CASE Reset \/ Fetch0 \/ GetData0 \/ GetData2 \/ Load0 \/ Store1
    <3>1. cpu_phase' = "Fetch0" \/ bus'.mode = "Read"
      BY <1>0, <2>2 DEF Reset, Fetch0, GetData0, GetData2, RequestByte, Load0,
                        StartRead, Store1, BusType
    <3>2. QED
      BY <2>1, <3>1 DEF PortShowsInput
  <2>3. CASE \/ Fetch1 \/ Decode \/ GetData1 \/ GetData3 \/ Prepare
             \/ ExecuteStore \/ ExecuteHalt
    <3>1. /\ bus'.address = bus.address /\ bus'.data = bus.data
          /\ cpu_phase \notin {"Init", "Fetch0", "Store1"}
      BY <1>0, <2>3 DEF Fetch1, Decode, GetData1, GetData3, Prepare, ExecuteStore,
                        ExecuteHalt, EndRead, EndReadDisown, BusType
    <3>2. QED
      BY <2>1, <3>1 DEF PortShowsInput, AtPort, InSerial, PortOffset
  <2>4. CASE Load1 \/ Store0 \/ (Execute /\ ~ ExecuteStore /\ ~ ExecuteHalt)
    <3>1. DriveStore /\ opcode' = opcode
      BY <2>4 DEF Load1, Store0, Execute, ExecuteLoadImm, ExecuteTransfer, ExecuteAlu,
                  ExecuteDivMod, ExecuteJump, ExecuteRestoreTmp, ExecuteNothing, latches
    <3>2. /\ cpu_phase' = "Store1" /\ cpu_phase \notin {"Init", "Fetch0", "Store1"}
          /\ opcode \notin StoreOps => bus'.address = bus.address /\ bus'.data = bus.data
      BY <1>0, <2>4, <3>1 DEF DriveStore, Load1, Store0, Execute, ExecuteLoadImm,
         ExecuteTransfer, ExecuteAlu, ExecuteDivMod, ExecuteJump, ExecuteRestoreTmp,
         ExecuteNothing, JumpTaken, BusType
    <3>3. QED
      BY <2>1, <3>1, <3>2 DEF PortShowsInput, AtPort, InSerial, PortOffset
  <2>5. QED
    BY <1>1, <2>2, <2>3, <2>4 DEF CpuStep, CpuSimulate
<1>2. CASE MemoryStep
  <2>1. /\ dev = "memory" /\ dev' = "serial" /\ stdin' = stdin
        /\ cpu_phase' = cpu_phase /\ opcode' = opcode
    BY <1>2 DEF MemoryStep, Turn, serialVars, cpuVars, latches
  <2>2. /\ bus'.mode = bus.mode /\ bus'.address = bus.address
        /\ bus.mode # "Read" => bus' = bus
    BY <1>0, <1>2 DEF MemoryStep, MemorySimulate, MemoryIgnores, MemoryRead,
                      MemoryWrite, BusType
  <2>3. QED
    BY <2>1, <2>2 DEF PortShowsInput, AtPort, InSerial, PortOffset
<1>3. CASE SerialStep
  <2>1. dev = "serial" /\ dev' = "cpu" /\ cpu_phase' = cpu_phase /\ opcode' = opcode
    BY <1>3 DEF SerialStep, Turn, cpuVars, latches
  <2>2. CASE SerialRead
    <3>1. PICK c \in Characters :
            bus' = [bus EXCEPT !.data = PortWord(c)] /\ stdin' = Append(stdin, c)
      BY <2>2 DEF SerialRead
    <3>2. bus'.data = PortWord(c) /\ stdin \in Seq(InputChar) /\ c \in InputChar
      BY <1>0, <3>1, SerialAssumption DEF BusType, IInv, TypeOK, SerialType
    <3>3. stdin' # <<>> /\ Last(stdin') = c
      BY <3>1, <3>2 DEF Last
    <3>4. QED
      BY <3>2, <3>3 DEF PortShowsInput
  <2>3. CASE SerialIgnores \/ SerialWrite
    <3>1. bus' = bus /\ stdin' = stdin /\ (AtPort => bus.mode # "Read")
      BY <2>3 DEF SerialIgnores, SerialWrite, serialVars, BusActive
    <3>2. QED
      BY <2>1, <3>1 DEF PortShowsInput, AtPort, InSerial, PortOffset
  <2>4. QED
    BY <1>3, <2>2, <2>3 DEF SerialStep, SerialSimulate
<1>4. CASE Exit \/ Abort \/ UNCHANGED vars
  BY <1>4 DEF Exit, Abort, Stop, vars, cpuVars, latches, serialVars,
              PortShowsInput, AtPort, InSerial, PortOffset
<1>5. QED
  BY <1>1, <1>2, <1>3, <1>4 DEF Next

\* A character that no store printed was the last one taken.
LEMMA PrintStep ==
  ASSUME IInv, PortShowsInput, [Next]_vars, stdout' # stdout, opcode \notin StoreOps
  PROVE  stdin # <<>> /\ Last(stdout') = ToByte(Last(stdin))
<1>1. SerialStep /\ SerialWrite
  BY DEF Next, CpuStep, MemoryStep, SerialStep, SerialSimulate, SerialIgnores,
         SerialRead, Exit, Abort, Stop, vars, serialVars
<1>2. /\ bus.mode = "Write" /\ AtPort /\ cpu_phase = "Store1"
      /\ stdout' = Append(stdout, ToByte(bus.data))
  BY <1>1 DEF SerialWrite, IInv, ModeByPhase
<1>3. stdin # <<>> /\ bus.data = PortWord(Last(stdin))
  BY <1>2 DEF PortShowsInput
<1>4. stdin \in Seq(InputChar) /\ stdout \in Seq(Byte) /\ bus.data \in Int
  BY DEF IInv, TypeOK, SerialType, BusType, UWord, Between
<1>5. Last(stdin) \in Int
  BY <1>3, <1>4 DEF Last, InputChar, Between
<1>6. Last(stdout') = ToByte(bus.data)
  <2>1. ToByte(bus.data) \in Byte
    BY <1>4, ConversionTypes
  <2>2. QED
    BY <1>2, <1>4, <2>1 DEF Last
<1>7. \A c \in Int : ToByte(PortWord(c)) = ToByte(c)
  BY DEF ToByte, PortWord, ToUWord, ToChar
<1>8. QED
  BY <1>3, <1>5, <1>6, <1>7

\* An instruction that is not a store prints only what it has just read.
THEOREM EchoCorrect == Spec => EchoOnlyInput
<1>1. Init => PortShowsInput
  BY DEF Init, CpuInit, PortShowsInput
<1>2. Spec => []PortShowsInput
  BY <1>1, EchoStep, Invariance, PTL DEF Spec
<1>3. IInv /\ PortShowsInput /\ [Next]_vars =>
        [stdout' # stdout /\ opcode \notin StoreOps =>
           /\ stdin # <<>>
           /\ Last(stdout') = ToByte(Last(stdin))]_vars
  BY PrintStep
<1>4. QED
  BY <1>2, <1>3, Invariance, PTL DEF Spec, EchoOnlyInput

-----------------------------------------------------------------------------
(* The bus between two instructions.                                       *)

\* Store1 clears the data, and nobody puts any on the bus before the next
\* instruction asks for its first byte.
ClearedBetween ==
  /\ cpu_phase \in {"Init", "Fetch0"} => bus.data = 0
  /\ OpenBusFetchesZero

\* It is kept.
LEMMA ClearedStep == IInv /\ ClearedBetween /\ [Next]_vars => ClearedBetween'
<1> SUFFICES ASSUME IInv, ClearedBetween, [Next]_vars PROVE ClearedBetween'
  OBVIOUS
<1>0. bus \in BusType
  BY DEF IInv, TypeOK
<1>1. CASE CpuStep
  <2>1. CASE Reset
    BY <2>1 DEF Reset, ClearedBetween, OpenBusFetchesZero
  <2>2. CASE Fetch0
    BY <1>0, <2>2
    DEF Fetch0, RequestByte, StartRead, BusType, ClearedBetween, OpenBusFetchesZero
  <2>3. CASE Store1
    BY <1>0, <2>3 DEF Store1, BusType, ClearedBetween, OpenBusFetchesZero
  <2>4. CASE cpu_phase' \notin {"Init", "Fetch0", "Fetch1"}
    BY <2>4 DEF ClearedBetween, OpenBusFetchesZero
  <2>5. Reset \/ Fetch0 \/ Store1 \/ cpu_phase' \notin {"Init", "Fetch0", "Fetch1"}
    BY <1>1 DEF CpuStep, CpuSimulate, GetData0, GetData2, RequestByte, Fetch1,
         Decode, GetData1, GetData3, Prepare, Load0, Load1, Execute, ExecuteLoadImm,
         ExecuteStore, ExecuteTransfer, ExecuteAlu, ExecuteDivMod, ExecuteJump,
         ExecuteHalt, ExecuteRestoreTmp, ExecuteNothing, DriveStore, Store0
  <2>6. QED
    BY <2>1, <2>2, <2>3, <2>4, <2>5
<1>2. CASE MemoryStep \/ SerialStep \/ Exit \/ Abort \/ UNCHANGED vars
  <2>1. cpu_phase' = cpu_phase /\ bus'.address = bus.address
    BY <1>0, <1>2
    DEF MemoryStep, MemorySimulate, MemoryIgnores, MemoryRead, MemoryWrite,
        SerialStep, SerialSimulate, SerialIgnores, SerialRead, SerialWrite,
        Exit, Abort, Stop, vars, cpuVars, BusType
  <2>2. \/ bus' = bus
        \/ bus.mode = "Read" /\ (InMemory(bus.address) \/ AtPort)
    BY <1>2
    DEF MemoryStep, MemorySimulate, MemoryIgnores, MemoryRead, MemoryWrite, Backed,
        SerialStep, SerialSimulate, SerialIgnores, SerialRead, SerialWrite,
        Exit, Abort, Stop, vars
  <2>3. bus.mode = "Read" => cpu_phase \notin {"Init", "Fetch0"}
    BY DEF IInv, ModeByPhase, ReadPhases
  <2>4. QED
    BY <2>1, <2>2, <2>3
    DEF ClearedBetween, OpenBusFetchesZero, InMemory, AtPort, InSerial, PortOffset
<1>3. QED
  BY <1>1, <1>2 DEF Next

\* Code that runs where no device answers executes zeros and never the data of
\* the instruction before.
THEOREM OpenBus == Spec => []OpenBusFetchesZero
<1>1. Init => ClearedBetween
  BY DEF Init, BusInit, CpuInit, ClearedBetween, OpenBusFetchesZero
<1>2. QED
  BY <1>1, ClearedStep, Invariance, PTL DEF Spec, ClearedBetween

\* No device sees the same request twice: the processor changes the mode of a
\* bus that is on in each of its turns.
THEOREM OneStrobe == Spec => StrobeOnce
<1>1. IInv /\ IInv' /\ [Next]_vars =>
        [dev = "cpu" /\ bus.mode # "Off" => bus'.mode # bus.mode]_vars
  <2> SUFFICES ASSUME IInv, IInv', Next, dev = "cpu", bus.mode # "Off"
               PROVE  bus'.mode # bus.mode
    OBVIOUS
  <2>1. bus.mode \in {"Read", "Write"}
    BY DEF IInv, TypeOK, BusType, Modes
  <2>2. cpu_phase \in {"Fetch1", "GetData1", "GetData3", "Load1", "Store1"}
    BY <2>1 DEF IInv, ModeByPhase, ReadPhases
  <2>3. CpuStep
    BY <2>2 DEF Next, MemoryStep, SerialStep, Turn, Exit, is_running, Abort, DivideTrap
  <2>4. /\ cpu_phase \in {"Fetch1", "GetData1", "GetData3"} =>
             cpu_phase' \in {"Decode", "GetData2", "Prepare"}
        /\ cpu_phase = "Load1" => cpu_phase' = "Store1"
        /\ cpu_phase = "Store1" => cpu_phase' = "Fetch0"
    BY <2>2, <2>3 DEF CpuStep, CpuSimulate, Reset, Fetch0, GetData0, GetData2,
         RequestByte, Fetch1, Decode, GetData1, GetData3, Prepare, Load0, Load1,
         Execute, ExecuteLoadImm, ExecuteStore, ExecuteTransfer, ExecuteAlu,
         ExecuteDivMod, ExecuteJump, ExecuteHalt, ExecuteRestoreTmp, ExecuteNothing,
         DriveStore, Store0, Store1
  <2>5. QED
    BY <2>2, <2>4 DEF IInv, ModeByPhase, ReadPhases
<1>2. QED
  BY <1>1, Invariance, PTL DEF Spec, StrobeOnce

-----------------------------------------------------------------------------
\* Every instruction that sets rtmp saves its old value in rtmp2, and none
\* touches rtmp2 otherwise: rtm always has the last value to go back to.
THEOREM ShadowCorrect == Spec => TmpShadow
<1>1. IInv /\ [Next]_vars =>
        [reg'[rtmp] # reg[rtmp] \/ rtmp2' # rtmp2 => rtmp2' = reg[rtmp]]_vars
  <2> SUFFICES ASSUME IInv, Next, reg'[rtmp] # reg[rtmp] \/ rtmp2' # rtmp2
               PROVE  rtmp2' = reg[rtmp]
    OBVIOUS
  <2>1. reg \in [Register -> SWord] /\ rtmp \in Register
    BY RegisterConstants DEF IInv, TypeOK, CpuType
  <2>2. CpuStep
    BY DEF Next, MemoryStep, SerialStep, Exit, Abort, Stop, cpuVars, registers
  <2>3. CASE ExecuteTransfer
    BY <2>1, <2>3 DEF ExecuteTransfer
  <2>4. CASE ExecuteAlu \/ ExecuteJump
    BY <2>1, <2>4 DEF ExecuteAlu, ExecuteJump, rdst, rtmp, rln
  <2>5. CASE Load1 \/ ExecuteLoadImm \/ ExecuteDivMod \/ ExecuteRestoreTmp
    BY <2>5 DEF Load1, ExecuteLoadImm, SetTmp, ExecuteDivMod, ExecuteRestoreTmp
  <2>6. \/ ExecuteTransfer \/ ExecuteAlu \/ ExecuteJump
        \/ Load1 \/ ExecuteLoadImm \/ ExecuteDivMod \/ ExecuteRestoreTmp
        \/ UNCHANGED <<reg, rtmp2>>
    BY <2>2 DEF CpuStep, CpuSimulate, Reset, Fetch0, GetData0, GetData2, RequestByte,
         Fetch1, Decode, GetData1, GetData3, Prepare, Load0, Execute, ExecuteStore,
         ExecuteHalt, ExecuteNothing, Store0, Store1, registers
  <2>7. QED
    BY <2>3, <2>4, <2>5, <2>6
<1>2. QED
  BY <1>1, Invariance, PTL DEF Spec, TmpShadow

-----------------------------------------------------------------------------
(***************************************************************************)
(* The proof that the emulator implements the instruction set: each step   *)
(* of the devices is, under the refinement mapping of CS8Retirement, one   *)
(* step of CS8ISA or none.                                                 *)
(*                                                                         *)
(* The abstract machine reads a whole instruction at once where the        *)
(* processor collects it byte by byte over many rounds, so that the proof  *)
(* needs a history: in every phase there are an address p and words u, v   *)
(* and w, such that the bytes the latches hold are those of the words, and *)
(* such that the words are what the memory, the port or the empty bus      *)
(* answers at p and behind it.  History says so, and it is inductive       *)
(* together with IInv.                                                     *)
(*                                                                         *)
(* With it the steps fall into three groups.  Those that fetch, decode,    *)
(* prepare or wait, and the turns of the two devices, change nothing that  *)
(* the abstract machine sees, but for a request of an address that the     *)
(* memory claims and does not have, which is its Fault.  Those that retire *)
(* an instruction are the action of that instruction.  The end of the      *)
(* process is either seen already or the Fault of a division by zero.      *)
(***************************************************************************)

\* The history.

\* What a read of address a may find, in a memory m and with left on the bus.
Answers(m, a, left, w) ==
  \/ Backed(a) /\ w = m[Cell(a)]
  \/ ~ InMemory(a) /\ a = SerialBegin /\ \E c \in Characters : w = PortWord(c)
  \/ ~ InMemory(a) /\ a # SerialBegin /\ w = left

\* The address of the i-th byte of an instruction at p.
At(p, i) == ToUWord(p + i)

\* The words u, v and w are the first ones at p.
One(m, p, u)         == u \in UWord /\ Answers(m, At(p, 0), 0, u)
Two(m, p, u, v)      == One(m, p, u) /\ v \in UWord /\ Answers(m, At(p, 1), u, v)
Three(m, p, u, v, w) == Two(m, p, u, v) /\ w \in UWord /\ Answers(m, At(p, 2), v, w)

LongOps == {LoadImm, LoadDirect, StoreDirect}

\* The answer to the read in progress, as far as the devices have had a turn.
Answering(left) ==
  /\ dev = "memory" => bus.data = left
  /\ dev = "serial" =>
       \/ Backed(bus.address) /\ bus.data = memory[Cell(bus.address)]
       \/ ~ InMemory(bus.address) /\ bus.data = left
  /\ dev = "cpu" => Answers(memory, bus.address, left, bus.data)

\* The i-th byte of the instruction at p has been asked for.
Requested(p, i, left) ==
  rip = ToSWord(p + i + 1) /\ bus.address = At(p, i) /\ Answering(left)

\* All bytes of the instruction at p have been read.
Whole(p, u, v, w) ==
  /\ opcode = LowNibble(ToByte(u))
  /\ One(memory, p, u)
  /\ opcode \in LongOps \union {TransferRegister} => Two(memory, p, u, v)
  /\ opcode \in LongOps => Three(memory, p, u, v, w)
  /\ rip = ToSWord(p + InstructionLength)

LastWord(u, v, w) ==
  IF opcode \in LongOps THEN w ELSE IF opcode = TransferRegister THEN v ELSE u

\* The last of them is still on the bus.
OnBus(p, u, v, w) ==
  bus.address = At(p, InstructionLength - 1) /\ bus.data = LastWord(u, v, w)

Operand(v, w) == 256 * ToByte(v) + ToByte(w)

Register1(u) == HighNibble(ToByte(u))

\* What holds between two instructions.
AtRest ==
  /\ cpu_phase = "Init" => rip = 0
  /\ cpu_phase \in {"Init", "Fetch0"} => bus.data = 0
  /\ ~ (cpu_phase = "Prepare" /\ opcode \in LongOps \union {TransferRegister}) =>
       rR1 \in Register

\* How far the fetch of the instruction at p has come.
Fetching(p, u, v) ==
  /\ cpu_phase = "Fetch1" => Requested(p, 0, 0)
  /\ cpu_phase \in {"Decode", "GetData0", "GetData1"} =>
       One(memory, p, u) /\ rOP = ToByte(u)
  /\ cpu_phase = "Decode" =>
       rip = ToSWord(p + 1) /\ bus.address = At(p, 0) /\ bus.data = u
  /\ cpu_phase \in {"GetData0", "GetData1"} =>
       opcode = LowNibble(ToByte(u)) /\ opcode \in LongOps
  /\ cpu_phase = "GetData0" => rip = ToSWord(p + 1) /\ bus.data = u
  /\ cpu_phase = "GetData1" => Requested(p, 1, u)
  /\ cpu_phase \in {"GetData2", "GetData3"} =>
       /\ opcode = LowNibble(ToByte(u))
       /\ \/ opcode = TransferRegister /\ One(memory, p, u) /\ rR0 = Register1(u)
          \/ opcode \in LongOps /\ Two(memory, p, u, v) /\ rR0 = ToByte(v)
  /\ cpu_phase = "GetData2" =>
       \/ opcode = TransferRegister /\ rip = ToSWord(p + 1) /\ bus.data = u
       \/ opcode \in LongOps /\ rip = ToSWord(p + 2) /\ bus.data = v
  /\ cpu_phase = "GetData3" =>
       \/ opcode = TransferRegister /\ Requested(p, 1, u)
       \/ opcode \in LongOps /\ Requested(p, 2, v)

\* What the latches hold of it from then on.
Executing(p, u, v, w) ==
  /\ cpu_phase \in {"Prepare", "Load0", "Load1", "Execute", "Store0"} =>
       Whole(p, u, v, w)
  /\ cpu_phase \in {"Prepare", "Load0", "Execute", "Store0"} => OnBus(p, u, v, w)
  /\ cpu_phase = "Prepare" =>
       /\ rR0 = IF opcode \in LongOps THEN ToByte(v) ELSE Register1(u)
       /\ opcode \in LongOps => rR1 = ToByte(w)
       /\ opcode = TransferRegister => rR1 = ToByte(v)
  /\ cpu_phase \in {"Load0", "Load1", "Execute", "Store0"} =>
       /\ opcode \in LongOps => rAddress = Operand(v, w)
       /\ opcode = StoreIndexed =>
            \E low \in Register : rAddress = 256 * Register1(u) + low
  /\ cpu_phase = "Load1" => bus.address = LoadAddress /\ Answering(LastWord(u, v, w))
  /\ cpu_phase \in {"Load0", "Execute"} =>
       /\ opcode \notin LongOps => rR0 = Register1(u)
       /\ opcode = TransferRegister => rR1 = LowNibble(ToByte(v))
  /\ cpu_phase = "Execute" => rValue = rAddress
  /\ cpu_phase = "Store0" =>
       rR0 = IF opcode = StoreIndexed THEN Register1(u) ELSE rtmp

History ==
  /\ AtRest
  /\ \E p \in SWord, u \in UWord, v \in UWord, w \in UWord :
       Fetching(p, u, v) /\ Executing(p, u, v, w)

-----------------------------------------------------------------------------
\* The history is inductive.

\* The port is not an address of the memory.
LEMMA PortOutside == ~ InMemory(SerialBegin) /\ InSerial(SerialBegin)
BY MemoryAssumption, SerialAssumption, AddressMapAssumption, PortAssumption
DEF InMemory, InSerial, UWord, Between

\* Of its addresses only the first one answers.
LEMMA AtPortMeans == ASSUME bus \in BusType PROVE AtPort <=> bus.address = SerialBegin
BY PortOutside, SerialAssumption DEF AtPort, InSerial, PortOffset, BusType, UWord, Between

\* The conversions between the two widths of an address can be nested.
LEMMA WordSteps ==
  ASSUME NEW x \in Int
  PROVE  /\ ToUWord(ToSWord(x)) = ToUWord(x)
         /\ ToSWord(ToSWord(x)) = ToSWord(x)
         /\ ToSWord(ToSWord(x) + 1) = ToSWord(x + 1)
         /\ ToSWord(ToSWord(x) - 0) = ToSWord(x)
BY DEF ToUWord, ToSWord

\* A turn of the memory and one of the port answer what the processor asked.
LEMMA AnswerStep ==
  ASSUME IInv, MemoryStep \/ SerialStep, cpu_phase # "Store1"
  PROVE  /\ memory' = memory /\ bus'.address = bus.address
         /\ bus.mode # "Read" => bus' = bus
         /\ \A left : bus.mode = "Read" /\ Answering(left) => Answering(left)'
<1>1. bus \in BusType /\ bus.mode # "Write"
  BY DEF IInv, TypeOK, ModeByPhase
<1>2. CASE MemoryStep
  <2>1. dev = "memory" /\ dev' = "serial"
    BY <1>2 DEF MemoryStep, Turn
  <2>2. CASE MemoryIgnores
    <3>1. bus' = bus /\ memory' = memory /\ (bus.mode = "Read" => ~ InMemory(bus.address))
      BY <2>2 DEF MemoryIgnores, BusActive
    <3>2. QED
      BY <2>1, <3>1 DEF Answering, InMemory, Backed, Cell
  <2>3. CASE MemoryRead
    <3>1. /\ bus'.data = memory[Cell(bus.address)] /\ bus'.address = bus.address
          /\ memory' = memory /\ bus.mode = "Read" /\ Backed(bus.address)
      BY <1>1, <2>3 DEF MemoryRead, BusType
    <3>2. QED
      BY <2>1, <3>1 DEF Answering, InMemory, Backed, Cell
  <2>4. QED
    BY <1>1, <1>2, <2>2, <2>3 DEF MemoryStep, MemorySimulate, MemoryWrite
<1>3. CASE SerialStep
  <2>1. dev = "serial" /\ dev' = "cpu" /\ memory' = memory
    BY <1>3 DEF SerialStep, Turn
  <2>2. CASE SerialIgnores
    <3>1. bus' = bus /\ (bus.mode = "Read" => bus.address # SerialBegin)
      BY <1>1, <2>2, AtPortMeans DEF SerialIgnores, BusActive
    <3>2. QED
      BY <2>1, <3>1 DEF Answering, Answers, InMemory, Backed, Cell
  <2>3. CASE SerialRead
    <3>1. PICK c \in Characters : bus' = [bus EXCEPT !.data = PortWord(c)]
      BY <2>3 DEF SerialRead
    <3>2. /\ bus'.data = PortWord(c) /\ bus'.address = bus.address
          /\ bus.mode = "Read" /\ bus.address = SerialBegin
      BY <1>1, <2>3, <3>1, AtPortMeans DEF SerialRead, BusType
    <3>3. QED
      BY <2>1, <3>2, PortOutside DEF Answering, Answers, InMemory
  <2>4. QED
    BY <1>1, <1>3, <2>2, <2>3 DEF SerialStep, SerialSimulate, SerialWrite
<1>4. QED
  BY <1>2, <1>3

\* The devices keep the history: they answer, and nothing more.
LEMMA DeviceHistory ==
  ASSUME IInv, History, MemoryStep \/ SerialStep
  PROVE  History'
<1>1. /\ cpu_phase' = cpu_phase /\ opcode' = opcode /\ reg' = reg
      /\ rOP' = rOP /\ rR0' = rR0 /\ rR1' = rR1
      /\ rAddress' = rAddress /\ rValue' = rValue /\ rip' = rip
  BY DEF MemoryStep, SerialStep, cpuVars, registers, latches
<1>2. CASE cpu_phase = "Store1"
  BY <1>1, <1>2 DEF History, AtRest, Fetching, Executing
<1>3. CASE cpu_phase # "Store1"
  <2>1. /\ memory' = memory /\ bus'.address = bus.address
        /\ bus.mode # "Read" => bus' = bus
        /\ \A left : bus.mode = "Read" /\ Answering(left) => Answering(left)'
    BY <1>3, AnswerStep
  <2>2. bus.mode = "Read" <=> cpu_phase \in ReadPhases
    BY DEF IInv, ModeByPhase
  <2>3. \A p, i, left : cpu_phase \in ReadPhases /\ Requested(p, i, left) => Requested(p, i, left)'
    BY <1>1, <2>1, <2>2 DEF Requested
  <2>4. \A p, u, v, w : Whole(p, u, v, w) => Whole(p, u, v, w)'
    BY <1>1, <2>1 DEF Whole, InstructionLength
  <2>5. AtRest'
    BY <1>1, <2>1, <2>2 DEF History, AtRest, ReadPhases
  <2>6. \A p, u, v : Fetching(p, u, v) => Fetching(p, u, v)'
    <3> SUFFICES ASSUME NEW p, NEW u, NEW v, Fetching(p, u, v)
                 PROVE  Fetching(p, u, v)'
      OBVIOUS
    <3>1. CASE cpu_phase \notin ReadPhases
      BY <1>1, <2>1, <2>2, <3>1 DEF Fetching, ReadPhases
    <3>2. CASE cpu_phase \in ReadPhases
      BY <1>1, <2>1, <2>3, <3>2 DEF Fetching, ReadPhases
    <3>3. QED
      BY <3>1, <3>2
  <2>7. \A p, u, v, w : Executing(p, u, v, w) => Executing(p, u, v, w)'
    <3> SUFFICES ASSUME NEW p, NEW u, NEW v, NEW w, Executing(p, u, v, w)
                 PROVE  Executing(p, u, v, w)'
      OBVIOUS
    <3>0. LastWord(u, v, w)' = LastWord(u, v, w) /\ LoadAddress' = LoadAddress
      BY <1>1 DEF LastWord, LoadAddress
    <3>1. CASE cpu_phase \notin ReadPhases
      <4>1. OnBus(p, u, v, w) => OnBus(p, u, v, w)'
        BY <1>1, <2>1, <2>2, <3>0, <3>1 DEF OnBus, InstructionLength
      <4>2. QED
        BY <1>1, <2>4, <3>1, <4>1 DEF Executing, ReadPhases
    <3>2. CASE cpu_phase \in ReadPhases
      <4>1. CASE cpu_phase = "Load1"
        <5>1. Answering(LastWord(u, v, w))'
          <6> DEFINE left == LastWord(u, v, w)
          <6>1. Answering(left)
            BY <3>2, <4>1 DEF Executing
          <6>2. bus.mode = "Read"
            BY <2>2, <3>2
          <6>3. left' = left
            BY <3>0
          <6> HIDE DEF left
          <6>4. PICK x : x = left
            OBVIOUS
          <6>5. Answering(x)'
            BY <2>1, <6>1, <6>2, <6>4
          <6>6. x = left'
            BY <6>3, <6>4
          <6>7. Answering(left)'
            BY <6>5, <6>6 DEF Answering
          <6>8. QED
            BY <6>7 DEF left
        <5>2. QED
          BY <1>1, <2>1, <2>4, <3>0, <4>1, <5>1 DEF Executing
      <4>2. CASE cpu_phase # "Load1"
        BY <1>1, <3>2, <4>2 DEF Executing, ReadPhases
      <4>3. QED
        BY <4>1, <4>2
    <3>3. QED
      BY <3>1, <3>2
  <2>8. QED
    BY <2>5, <2>6, <2>7 DEF History
<1>4. QED
  BY <1>2, <1>3

\* A processor that asks for a byte does so with the address behind the last.
LEMMA RequestStep ==
  ASSUME IInv, CpuStep, NEW from, NEW to, RequestByte(from, to),
         NEW p \in SWord, NEW i \in Nat, rip = ToSWord(p + i),
         NEW left, bus.data = left
  PROVE  Requested(p, i, left)' /\ rip' = ToSWord(p + i + 1)
<1>1. bus'.address = ToUWord(rip) /\ bus'.data = bus.data /\ rip' = ToSWord(rip + 1)
  BY DEF RequestByte, StartRead, IInv, TypeOK, BusType
<1>2. dev' = "memory" /\ p + i \in Int
  BY DEF CpuStep, Turn, SWord, Between
<1>3. rip' = ToSWord(p + i + 1) /\ bus'.address = At(p, i)
  BY <1>1, <1>2, WordSteps DEF At
<1>4. Answering(left)'
  BY <1>1, <1>2 DEF Answering
<1>5. QED
  BY <1>3, <1>4 DEF Requested

\* The phases that collect the instruction.
LEMMA FetchHistory ==
  ASSUME IInv, History, CpuStep,
         Reset \/ Fetch0 \/ Fetch1 \/ Decode \/ GetData0 \/ GetData1 \/ GetData2 \/ GetData3
  PROVE  History'
<1>0. /\ memory' = memory /\ dev = "cpu" /\ dev' = "memory" /\ bus \in BusType
      /\ rip \in SWord /\ bus.data \in UWord
  BY DEF CpuStep, Turn, IInv, TypeOK, CpuType, BusType
<1>1. PICK p \in SWord, u \in UWord, v \in UWord, w \in UWord :
        Fetching(p, u, v) /\ Executing(p, u, v, w)
  BY DEF History
<1>2. AtRest
  BY DEF History
<1>3. CASE Reset
  <2>1. cpu_phase' = "Fetch0" /\ cpu_phase = "Init" /\ bus' = bus /\ rR1' = rR1
    BY <1>3 DEF Reset, latches
  <2>2. AtRest'
    BY <1>2, <2>1 DEF AtRest
  <2>3. Fetching(p, u, v)' /\ Executing(p, u, v, w)'
    BY <2>1 DEF Fetching, Executing
  <2>4. QED
    BY <2>2, <2>3 DEF History
<1>4. CASE Fetch0
  <2>1. /\ RequestByte("Fetch0", "Fetch1") /\ cpu_phase = "Fetch0"
        /\ cpu_phase' = "Fetch1" /\ rR1' = rR1 /\ bus.data = 0
    BY <1>2, <1>4 DEF Fetch0, RequestByte, latches, AtRest
  <2>2. PICK q \in SWord : q = rip
    BY <1>0
  <2>3. rip = ToSWord(q + 0)
    BY <2>2 DEF SWord, Between, ToSWord
  <2>4. Requested(q, 0, 0)'
    BY <2>1, <2>3, RequestStep
  <2>5. AtRest'
    BY <1>2, <2>1 DEF AtRest
  <2>6. Fetching(q, u, v)' /\ Executing(q, u, v, w)'
    BY <2>1, <2>4 DEF Fetching, Executing
  <2>7. QED
    BY <2>5, <2>6 DEF History
<1>5. CASE Fetch1
  <2>1. /\ cpu_phase = "Fetch1" /\ cpu_phase' = "Decode" /\ rR1' = rR1 /\ rip' = rip
        /\ rOP' = ToByte(bus.data) /\ bus'.data = bus.data /\ bus'.address = bus.address
    BY <1>0, <1>5 DEF Fetch1, registers, EndReadDisown, BusType
  <2>2. Requested(p, 0, 0)
    BY <1>1, <2>1 DEF Fetching
  <2>3. PICK x \in UWord : x = bus.data
    BY <1>0
  <2>4. /\ Answers(memory, At(p, 0), 0, x)
        /\ rip = ToSWord(p + 1) /\ bus.address = At(p, 0)
    BY <1>0, <2>2, <2>3 DEF Requested, Answering, SWord, Between
  <2>5. One(memory, p, x)'
    BY <1>0, <2>4 DEF One
  <2>6. AtRest'
    BY <1>2, <2>1 DEF AtRest
  <2>7. Fetching(p, x, v)' /\ Executing(p, x, v, w)'
    BY <2>1, <2>3, <2>4, <2>5 DEF Fetching, Executing
  <2>8. QED
    BY <2>6, <2>7 DEF History
<1>6. CASE Decode
  <2>1. /\ cpu_phase = "Decode" /\ rR1' = rR1 /\ rip' = rip /\ bus' = bus /\ rOP' = rOP
        /\ opcode' = LowNibble(rOP) /\ rR0' = HighNibble(rOP)
        /\ cpu_phase' = IF opcode' \in LongOps THEN "GetData0"
                        ELSE IF opcode' = TransferRegister THEN "GetData2"
                        ELSE "Prepare"
    BY <1>6 DEF Decode, registers, LongOps
  <2>2. /\ One(memory, p, u) /\ rOP = ToByte(u) /\ rip = ToSWord(p + 1)
        /\ bus.address = At(p, 0) /\ bus.data = u
    BY <1>1, <2>1 DEF Fetching
  <2>3. One(memory, p, u)'
    BY <1>0, <2>2 DEF One
  <2>4. AtRest'
    BY <1>2, <2>1 DEF AtRest
  <2>5. TransferRegister \notin LongOps
    BY DEF TransferRegister, LongOps, LoadImm, LoadDirect, StoreDirect
  <2>6. Fetching(p, u, v)'
    BY <2>1, <2>2, <2>3, <2>5 DEF Fetching, Register1
  <2>7. Executing(p, u, v, w)'
    <3> SUFFICES ASSUME cpu_phase' = "Prepare"
                 PROVE  Executing(p, u, v, w)'
      BY <2>1 DEF Executing
    <3>1. opcode' \notin LongOps /\ opcode' # TransferRegister
      BY <2>1
    <3>2. InstructionLength' = 1
      BY <3>1 DEF InstructionLength, LongOps
    <3>3. Whole(p, u, v, w)'
      BY <2>1, <2>2, <2>3, <3>1, <3>2 DEF Whole
    <3>4. OnBus(p, u, v, w)'
      BY <2>1, <2>2, <3>1, <3>2 DEF OnBus, LastWord
    <3>5. QED
      BY <2>1, <2>2, <3>1, <3>3, <3>4 DEF Executing, Register1
  <2>8. QED
    BY <2>4, <2>6, <2>7 DEF History
<1>7. CASE GetData0
  <2>1. /\ RequestByte("GetData0", "GetData1") /\ cpu_phase = "GetData0"
        /\ cpu_phase' = "GetData1" /\ rR1' = rR1 /\ opcode' = opcode /\ rOP' = rOP
    BY <1>7 DEF GetData0, RequestByte, latches
  <2>2. /\ One(memory, p, u) /\ rOP = ToByte(u) /\ rip = ToSWord(p + 1)
        /\ opcode = LowNibble(ToByte(u)) /\ opcode \in LongOps /\ bus.data = u
    BY <1>1, <2>1 DEF Fetching
  <2>3. Requested(p, 1, u)'
    BY <2>1, <2>2, RequestStep
  <2>4. One(memory, p, u)'
    BY <1>0, <2>2 DEF One
  <2>5. AtRest'
    BY <1>2, <2>1 DEF AtRest
  <2>6. Fetching(p, u, v)' /\ Executing(p, u, v, w)'
    BY <2>1, <2>2, <2>3, <2>4 DEF Fetching, Executing
  <2>7. QED
    BY <2>5, <2>6 DEF History
<1>8. CASE GetData1
  <2>1. /\ cpu_phase = "GetData1" /\ cpu_phase' = "GetData2" /\ rR1' = rR1
        /\ rip' = rip /\ opcode' = opcode /\ rR0' = ToByte(bus.data)
        /\ bus'.data = bus.data /\ bus'.address = bus.address
    BY <1>0, <1>8 DEF GetData1, registers, EndRead, BusType
  <2>2. /\ One(memory, p, u) /\ Requested(p, 1, u)
        /\ opcode = LowNibble(ToByte(u)) /\ opcode \in LongOps
    BY <1>1, <2>1 DEF Fetching
  <2>3. PICK y \in UWord : y = bus.data
    BY <1>0
  <2>4. Answers(memory, At(p, 1), u, y) /\ rip = ToSWord(p + 2)
    BY <1>0, <2>2, <2>3 DEF Requested, Answering, SWord, Between
  <2>5. Two(memory, p, u, y)'
    BY <1>0, <2>2, <2>4 DEF Two, One
  <2>6. AtRest'
    BY <1>2, <2>1 DEF AtRest
  <2>7. Fetching(p, u, y)' /\ Executing(p, u, y, w)'
    BY <2>1, <2>2, <2>3, <2>4, <2>5 DEF Fetching, Executing
  <2>8. QED
    BY <2>6, <2>7 DEF History
<1>9. CASE GetData2
  <2>1. /\ RequestByte("GetData2", "GetData3") /\ cpu_phase = "GetData2"
        /\ cpu_phase' = "GetData3" /\ rR1' = rR1 /\ opcode' = opcode /\ rR0' = rR0
    BY <1>9 DEF GetData2, RequestByte, latches
  <2>2. opcode = LowNibble(ToByte(u)) /\ TransferRegister \notin LongOps
    BY <1>1, <2>1
    DEF Fetching, TransferRegister, LongOps, LoadImm, LoadDirect, StoreDirect
  <2>3. AtRest'
    BY <1>2, <2>1 DEF AtRest
  <2>4. CASE opcode = TransferRegister
    <3>1. /\ One(memory, p, u) /\ rR0 = Register1(u) /\ rip = ToSWord(p + 1)
          /\ bus.data = u
      BY <1>1, <2>1, <2>2, <2>4 DEF Fetching
    <3>2. Requested(p, 1, u)'
      BY <2>1, <3>1, RequestStep
    <3>3. One(memory, p, u)'
      BY <1>0, <3>1 DEF One
    <3>4. Fetching(p, u, v)' /\ Executing(p, u, v, w)'
      BY <2>1, <2>2, <2>4, <3>1, <3>2, <3>3 DEF Fetching, Executing
    <3>5. QED
      BY <2>3, <3>4 DEF History
  <2>5. CASE opcode # TransferRegister
    <3>1. /\ opcode \in LongOps /\ Two(memory, p, u, v) /\ rR0 = ToByte(v)
          /\ rip = ToSWord(p + 2) /\ bus.data = v
      BY <1>1, <2>1, <2>5 DEF Fetching
    <3>2. Requested(p, 2, v)'
      BY <2>1, <3>1, RequestStep
    <3>3. Two(memory, p, u, v)'
      BY <1>0, <3>1 DEF Two, One
    <3>4. Fetching(p, u, v)' /\ Executing(p, u, v, w)'
      BY <2>1, <2>2, <2>5, <3>1, <3>2, <3>3 DEF Fetching, Executing
    <3>5. QED
      BY <2>3, <3>4 DEF History
  <2>6. QED
    BY <2>4, <2>5
<1>10. CASE GetData3
  <2>1. /\ cpu_phase = "GetData3" /\ cpu_phase' = "Prepare"
        /\ rip' = rip /\ opcode' = opcode /\ rR0' = rR0 /\ rR1' = ToByte(bus.data)
        /\ bus'.data = bus.data /\ bus'.address = bus.address
    BY <1>0, <1>10 DEF GetData3, registers, EndReadDisown, BusType
  <2>2. opcode = LowNibble(ToByte(u)) /\ TransferRegister \notin LongOps
    BY <1>1, <2>1
    DEF Fetching, TransferRegister, LongOps, LoadImm, LoadDirect, StoreDirect
  <2>3. opcode = TransferRegister \/ opcode \in LongOps
    BY <1>1, <2>1 DEF Fetching
  <2>4. AtRest'
    BY <2>1, <2>3 DEF AtRest
  <2>5. PICK x \in UWord : x = bus.data
    BY <1>0
  <2>6. CASE opcode = TransferRegister
    <3>1. One(memory, p, u) /\ rR0 = Register1(u) /\ Requested(p, 1, u)
      BY <1>1, <2>1, <2>2, <2>6 DEF Fetching
    <3>2. /\ Answers(memory, At(p, 1), u, x) /\ rip = ToSWord(p + 2)
          /\ bus.address = At(p, 1)
      BY <1>0, <2>5, <3>1 DEF Requested, Answering, SWord, Between
    <3>3. Two(memory, p, u, x)' /\ One(memory, p, u)'
      BY <1>0, <3>1, <3>2 DEF Two, One
    <3>4. InstructionLength' = 2
      BY <2>1, <2>2, <2>6 DEF InstructionLength, LongOps
    <3>5. Whole(p, u, x, w)'
      BY <2>1, <2>2, <2>6, <3>2, <3>3, <3>4 DEF Whole
    <3>6. OnBus(p, u, x, w)'
      BY <2>1, <2>2, <2>5, <2>6, <3>2, <3>4 DEF OnBus, LastWord
    <3>7. Fetching(p, u, x)' /\ Executing(p, u, x, w)'
      BY <2>1, <2>2, <2>5, <2>6, <3>1, <3>5, <3>6 DEF Fetching, Executing
    <3>8. QED
      BY <2>4, <3>7 DEF History
  <2>7. CASE opcode # TransferRegister
    <3>1. /\ opcode \in LongOps /\ Two(memory, p, u, v) /\ rR0 = ToByte(v)
          /\ Requested(p, 2, v)
      BY <1>1, <2>1, <2>7 DEF Fetching
    <3>2. /\ Answers(memory, At(p, 2), v, x) /\ rip = ToSWord(p + 3)
          /\ bus.address = At(p, 2)
      BY <1>0, <2>5, <3>1 DEF Requested, Answering, SWord, Between
    <3>3. Three(memory, p, u, v, x)' /\ Two(memory, p, u, v)' /\ One(memory, p, u)'
      BY <1>0, <3>1, <3>2 DEF Three, Two, One
    <3>4. InstructionLength' = 3
      BY <2>1, <2>2, <3>1 DEF InstructionLength, LongOps
    <3>5. Whole(p, u, v, x)'
      BY <2>1, <2>2, <3>1, <3>2, <3>3, <3>4 DEF Whole
    <3>6. OnBus(p, u, v, x)'
      BY <2>1, <2>5, <3>1, <3>2, <3>4 DEF OnBus, LastWord
    <3>7. Fetching(p, u, v)' /\ Executing(p, u, v, x)'
      BY <2>1, <2>2, <2>5, <2>7, <3>1, <3>5, <3>6 DEF Fetching, Executing
    <3>8. QED
      BY <2>4, <3>7 DEF History
  <2>8. QED
    BY <2>6, <2>7
<1>11. QED
  BY <1>3, <1>4, <1>5, <1>6, <1>7, <1>8, <1>9, <1>10

\* Prepare puts the two operand bytes together.
LEMMA PrepareHistory ==
  ASSUME IInv, History, CpuStep, Prepare
  PROVE  History'
<1>0. /\ memory' = memory /\ rR0 \in Byte /\ rR1 \in Byte
  BY DEF CpuStep, IInv, TypeOK, CpuType
<1>1. PICK p \in SWord, u \in UWord, v \in UWord, w \in UWord :
        Fetching(p, u, v) /\ Executing(p, u, v, w)
  BY DEF History
<1>2. /\ cpu_phase = "Prepare" /\ bus' = bus /\ opcode' = opcode /\ rip' = rip
      /\ cpu_phase' \in {"Load0", "Execute"}
      /\ rAddress' = 256 * rR0 + rR1 /\ rValue' = rAddress'
      /\ rR0' = LowNibble(rR0) /\ rR1' = LowNibble(rR1)
  BY DEF Prepare, registers
<1>3. /\ Whole(p, u, v, w) /\ OnBus(p, u, v, w)
      /\ rR0 = IF opcode \in LongOps THEN ToByte(v) ELSE Register1(u)
      /\ opcode \in LongOps => rR1 = ToByte(w)
      /\ opcode = TransferRegister => rR1 = ToByte(v)
  BY <1>1, <1>2 DEF Executing
<1>4. AtRest'
  BY <1>0, <1>2, NibbleTypes DEF AtRest, Register
<1>5. Whole(p, u, v, w)' /\ OnBus(p, u, v, w)'
  BY <1>0, <1>2, <1>3
  DEF Whole, OnBus, InstructionLength, LastWord, One, Two, Three
<1>6. Register1(u) \in Register /\ LowNibble(Register1(u)) = Register1(u)
  <2>1. Register1(u) \in 0 .. 15
    BY ConversionTypes, NibbleTypes DEF Register1, UWord, Between
  <2>2. QED
    BY <2>1 DEF Register, LowNibble
<1>7. opcode' \in LongOps => rAddress' = Operand(v, w)
  BY <1>2, <1>3 DEF Operand
<1>8. opcode' = StoreIndexed => \E low \in Register : rAddress' = 256 * Register1(u) + low
  <2> SUFFICES ASSUME opcode = StoreIndexed
               PROVE  \E low \in Register : rAddress' = 256 * Register1(u) + low
    BY <1>2
  <2>1. opcode \notin LongOps \union {TransferRegister}
    BY DEF StoreIndexed, LongOps, TransferRegister, LoadImm, LoadDirect, StoreDirect
  <2>2. rR1 \in Register
    BY <2>1 DEF History, AtRest
  <2>3. QED
    BY <1>2, <1>3, <2>1, <2>2
<1>9. opcode' \notin LongOps => rR0' = Register1(u)
  BY <1>2, <1>3, <1>6
<1>10. opcode' = TransferRegister => rR1' = LowNibble(ToByte(v))
  BY <1>2, <1>3
<1>11. Fetching(p, u, v)' /\ Executing(p, u, v, w)'
  BY <1>2, <1>5, <1>7, <1>8, <1>9, <1>10 DEF Fetching, Executing
<1>12. QED
  BY <1>4, <1>11 DEF History

\* The steps that ask for the operand of a load or compute that of a store.
LEMMA OperandHistory ==
  ASSUME IInv, History, CpuStep, Load0 \/ ExecuteStore
  PROVE  History'
<1>0. memory' = memory /\ dev' = "memory" /\ bus \in BusType
  BY DEF CpuStep, Turn, IInv, TypeOK
<1>1. PICK p \in SWord, u \in UWord, v \in UWord, w \in UWord :
        Fetching(p, u, v) /\ Executing(p, u, v, w)
  BY DEF History
<1>2. /\ cpu_phase \in {"Load0", "Execute"} /\ cpu_phase' \in {"Load1", "Store0"}
      /\ opcode' = opcode /\ rip' = rip /\ rAddress' = rAddress /\ rR1' = rR1
      /\ reg' = reg /\ bus'.data = bus.data
  BY <1>0 DEF Load0, ExecuteStore, registers, latches, StartRead, BusType
<1>3. /\ Whole(p, u, v, w) /\ OnBus(p, u, v, w)
      /\ opcode \in LongOps => rAddress = Operand(v, w)
      /\ opcode = StoreIndexed =>
            \E low \in Register : rAddress = 256 * Register1(u) + low
  BY <1>1, <1>2 DEF Executing
<1>4. AtRest'
  BY <1>2 DEF History, AtRest
<1>5. Whole(p, u, v, w)' /\ LastWord(u, v, w)' = LastWord(u, v, w)
      /\ InstructionLength' = InstructionLength
  BY <1>0, <1>2, <1>3 DEF Whole, InstructionLength, LastWord, One, Two, Three
<1>6. CASE Load0
  <2>1. /\ cpu_phase' = "Load1" /\ bus'.address = LoadAddress
        /\ LoadAddress' = LoadAddress
    BY <1>0, <1>2, <1>6 DEF Load0, StartRead, LoadAddress, BusType
  <2>2. bus'.data = LastWord(u, v, w)'
    BY <1>2, <1>3, <1>5 DEF OnBus
  <2>3. Answering(LastWord(u, v, w))'
    BY <1>0, <2>2 DEF Answering
  <2>4. Fetching(p, u, v)' /\ Executing(p, u, v, w)'
    BY <1>2, <1>3, <1>5, <2>1, <2>3 DEF Fetching, Executing
  <2>5. QED
    BY <1>4, <2>4 DEF History
<1>7. CASE ExecuteStore
  <2>1. /\ cpu_phase = "Execute" /\ cpu_phase' = "Store0" /\ bus' = bus
        /\ rR0' = IF opcode = StoreIndexed THEN rR0 ELSE rtmp
    BY <1>7 DEF ExecuteStore
  <2>2. opcode = StoreIndexed => rR0 = Register1(u)
    BY <1>1, <2>1
    DEF Executing, StoreIndexed, LongOps, LoadImm, LoadDirect, StoreDirect
  <2>3. OnBus(p, u, v, w)'
    BY <1>3, <1>5, <2>1 DEF OnBus
  <2>4. Fetching(p, u, v)' /\ Executing(p, u, v, w)'
    BY <1>2, <1>3, <1>5, <2>1, <2>2, <2>3 DEF Fetching, Executing
  <2>5. QED
    BY <1>4, <2>4 DEF History
<1>8. QED
  BY <1>6, <1>7

\* Where the instruction retires or has retired, nothing is left to remember.
LEMMA RetireHistory ==
  ASSUME IInv, History, CpuStep,
         Load1 \/ (Execute /\ ~ ExecuteStore) \/ Store0 \/ Store1
  PROVE  History'
<1>1. rR1' = rR1 /\ cpu_phase' \in {"Store1", "Halted", "Fetch0"}
      /\ (cpu_phase' = "Fetch0" => Store1)
  BY DEF Load1, Execute, ExecuteLoadImm, ExecuteTransfer, ExecuteAlu, ExecuteDivMod,
         ExecuteJump, ExecuteHalt, ExecuteRestoreTmp, ExecuteNothing, DriveStore,
         Store0, Store1, latches
<1>2. cpu_phase # "Prepare"
  BY DEF Load1, Execute, ExecuteLoadImm, ExecuteTransfer, ExecuteAlu, ExecuteDivMod,
         ExecuteJump, ExecuteHalt, ExecuteRestoreTmp, ExecuteNothing, Store0, Store1
<1>3. cpu_phase' = "Fetch0" => bus'.data = 0
  BY <1>1 DEF Store1, IInv, TypeOK, BusType
<1>4. AtRest'
  BY <1>1, <1>2, <1>3 DEF History, AtRest
<1>5. PICK p \in SWord, u \in UWord, v \in UWord, w \in UWord :
        Fetching(p, u, v) /\ Executing(p, u, v, w)
  BY DEF History
<1>6. Fetching(p, u, v)' /\ Executing(p, u, v, w)'
  BY <1>1 DEF Fetching, Executing
<1>7. QED
  BY <1>4, <1>6 DEF History

\* The end of the process leaves the history alone.
LEMMA StopHistory ==
  ASSUME History, Exit \/ Abort \/ UNCHANGED vars
  PROVE  History'
<1>1. /\ UNCHANGED <<bus, memory, dev, cpu_phase, reg, rip, rOP, rR0, rR1>>
      /\ UNCHANGED <<rAddress, rValue, opcode>>
  BY DEF Exit, Abort, Stop, vars, cpuVars, registers, latches
<1>2. \A p, u, v : Fetching(p, u, v) => Fetching(p, u, v)'
  BY <1>1 DEF Fetching, Requested, Answering, One, Two
<1>3. \A p, u, v, w : Executing(p, u, v, w) => Executing(p, u, v, w)'
  <2>1. InstructionLength' = InstructionLength /\ LoadAddress' = LoadAddress
    BY <1>1 DEF InstructionLength, LoadAddress
  <2>2. \A p, u, v, w : /\ Whole(p, u, v, w) => Whole(p, u, v, w)'
                        /\ OnBus(p, u, v, w) => OnBus(p, u, v, w)'
    BY <1>1, <2>1 DEF Whole, OnBus, LastWord, One, Two, Three
  <2>3. \A u, v, w : Answering(LastWord(u, v, w)) => Answering(LastWord(u, v, w))'
    BY <1>1 DEF Answering, LastWord
  <2>4. QED
    BY <1>1, <2>1, <2>2, <2>3 DEF Executing
<1>4. AtRest => AtRest'
  BY <1>1 DEF AtRest
<1>5. QED
  BY <1>2, <1>3, <1>4 DEF History

\* Every step keeps the history.
LEMMA HistoryStep == IInv /\ History /\ [Next]_vars => History'
<1> SUFFICES ASSUME IInv, History, [Next]_vars PROVE History'
  OBVIOUS
<1>1. CASE CpuStep
  BY <1>1, FetchHistory, PrepareHistory, OperandHistory, RetireHistory
  DEF CpuStep, CpuSimulate
<1>2. QED
  BY <1>1, DeviceHistory, StopHistory DEF Next

\* It begins with nothing read.
LEMMA BegunHistory == Begun => History
<1> SUFFICES ASSUME Begun PROVE History
  OBVIOUS
<1>1. 0 \in SWord /\ 0 \in UWord /\ 0 \in Register
  BY DEF SWord, UWord, Between, Register
<1>2. /\ cpu_phase = "Init" /\ rip = 0 /\ rR1 = 0 /\ bus.data = 0
  BY DEF Begun, CpuInit, BusInit
<1>3. AtRest
  BY <1>1, <1>2 DEF AtRest
<1>4. Fetching(0, 0, 0) /\ Executing(0, 0, 0, 0)
  BY <1>2 DEF Fetching, Executing
<1>5. QED
  BY <1>1, <1>3, <1>4 DEF History

-----------------------------------------------------------------------------
\* What the abstract machine fetches.

\* The abstract machine converts words as the emulator does.
LEMMA ISAWords ==
  /\ \A x : ISA!ToByte(x) = ToByte(x)
  /\ \A x : ISA!ToUWord(x) = ToUWord(x)
  /\ \A x : ISA!ToSWord(x) = ToSWord(x)
  /\ \A x : ISA!LowNibble(x) = LowNibble(x)
  /\ \A x : ISA!HighNibble(x) = HighNibble(x)
BY DEF ISA!ToByte, ToByte, ISA!ToUWord, ToUWord, ISA!ToSWord, ToSWord,
       ISA!LowNibble, LowNibble, ISA!HighNibble, HighNibble

\* The two levels have the same address map.
LEMMA ISAAddress ==
  ASSUME NEW a \in UWord
  PROVE  /\ ISA!IsRam(a)  <=> Backed(a)
         /\ ISA!IsHole(a) <=> InMemory(a) /\ ~ Backed(a)
         /\ ISA!IsPort(a) <=> a = SerialBegin
BY MemoryAssumption
DEF ISA!IsRam, ISA!IsHole, ISA!IsPort, ISA!Exists, Backed, InMemory, UWord, Between

\* A word the devices answer is one that the abstract machine may read.
LEMMA ISARead ==
  ASSUME NEW a \in UWord, NEW left, NEW w,
         Answers(RetiredMemory, a, left, w)
  PROVE  w \in ISA!ReadWord(a, left)
<1>1. \A c : ISA!ToUWord(ISA!ToChar(c)) = PortWord(c)
  BY DEF ISA!ToUWord, ISA!ToChar, PortWord, ToUWord, ToChar
<1>2. CASE Backed(a) /\ w = RetiredMemory[Cell(a)]
  <2>1. ISA!IsRam(a) /\ ~ ISA!IsHole(a) /\ ~ ISA!IsPort(a)
    BY <1>2, ISAAddress, PortOutside DEF Backed
  <2>2. ISA!ReadWord(a, left) = {RetiredMemory[a - MemoryBegin]}
    BY <2>1, Zenon DEF ISA!ReadWord
  <2>3. QED
    BY <1>2, <2>2 DEF Cell
<1>3. CASE ~ InMemory(a) /\ a = SerialBegin /\ \E c \in Characters : w = PortWord(c)
  <2>1. ~ ISA!IsRam(a) /\ ~ ISA!IsHole(a) /\ ISA!IsPort(a)
    BY <1>3, ISAAddress DEF Backed
  <2>2. ISA!ReadWord(a, left) = {ISA!ToUWord(ISA!ToChar(c)) : c \in Characters}
    BY <2>1, Zenon DEF ISA!ReadWord
  <2>3. QED
    BY <1>1, <1>3, <2>2
<1>4. CASE ~ InMemory(a) /\ a # SerialBegin /\ w = left
  <2>1. ~ ISA!IsRam(a) /\ ~ ISA!IsHole(a) /\ ~ ISA!IsPort(a)
    BY <1>4, ISAAddress DEF Backed
  <2>2. ISA!ReadWord(a, left) = {left}
    BY <2>1, Zenon DEF ISA!ReadWord
  <2>3. QED
    BY <1>4, <2>2
<1>5. QED
  BY <1>2, <1>3, <1>4 DEF Answers

\* Tuples of two and three words, built one by one.
LEMMA AppendLiteral ==
  ASSUME NEW S, NEW u \in S, NEW v \in S, NEW w \in S
  PROVE  /\ Append(<<u>>, v) = <<u, v>>
         /\ Append(<<u, v>>, w) = <<u, v, w>>
<1>1. <<u>> \in Seq(S) /\ <<u, v>> \in Seq(S) /\ <<u, v, w>> \in Seq(S)
  OBVIOUS
<1>2. Append(<<u>>, v) = <<u, v>>
  <2> DEFINE a == Append(<<u>>, v)
             b == <<u, v>>
  <2>1. a \in Seq(S) /\ Len(a) = 2 /\ a[1] = u /\ a[2] = v
    BY <1>1, AppendProperties
  <2>2. b \in Seq(S) /\ Len(b) = 2 /\ b[1] = u /\ b[2] = v
    BY <1>1
  <2> HIDE DEF a, b
  <2>3. \A i \in 1 .. Len(a) : a[i] = b[i]
    BY <2>1, <2>2
  <2>4. a = b
    BY <2>1, <2>2, <2>3, SeqEqual
  <2>5. QED
    BY <2>4 DEF a, b
<1>3. Append(<<u, v>>, w) = <<u, v, w>>
  <2> DEFINE a == Append(<<u, v>>, w)
             b == <<u, v, w>>
  <2>1. a \in Seq(S) /\ Len(a) = 3 /\ a[1] = u /\ a[2] = v /\ a[3] = w
    BY <1>1, AppendProperties
  <2>2. b \in Seq(S) /\ Len(b) = 3 /\ b[1] = u /\ b[2] = v /\ b[3] = w
    BY <1>1
  <2> HIDE DEF a, b
  <2>3. \A i \in 1 .. Len(a) : a[i] = b[i]
    BY <2>1, <2>2
  <2>4. a = b
    BY <2>1, <2>2, <2>3, SeqEqual
  <2>5. QED
    BY <2>4 DEF a, b
<1>4. QED
  BY <1>2, <1>3

\* The unfolding of Extend, Fetched and Insn.
LEMMA ISAExtend ==
  ASSUME NEW ws, NEW w, w \in ISA!ReadWord(ISA!Address(Len(ws)), ISA!LastOf(ws))
  PROVE  Append(ws, w) \in ISA!Extend(ws)
BY Zenon DEF ISA!Extend

\* What the instruction set fetches, one word after the other.
LEMMA ISAFetched ==
  /\ ISA!Fetched[1] = ISA!Extend(<<>>)
  /\ ISA!Fetched[2] = UNION {ISA!Extend(ws) : ws \in ISA!Fetched[1]}
  /\ ISA!Fetched[3] = UNION {ISA!Extend(ws) : ws \in ISA!Fetched[2]}
<1> DEFINE one == ISA!Extend(<<>>)
           two == UNION {ISA!Extend(ws) : ws \in one}
           three == UNION {ISA!Extend(ws) : ws \in two}
           F(n) == CASE n = 1 -> one [] n = 2 -> two [] n = 3 -> three
<1>1. ISA!Fetched = [n \in 1 .. 3 |-> F(n)]
  BY Zenon DEF ISA!Fetched
<1>2. F(1) = one
  <2>1. 1 # 2 /\ 1 # 3
    OBVIOUS
  <2>2. QED
    BY <2>1, Zenon
<1>3. F(2) = two
  <2>1. 2 # 1 /\ 2 # 3
    OBVIOUS
  <2>2. QED
    BY <2>1, Zenon
<1>4. F(3) = three
  <2>1. 3 # 1 /\ 3 # 2
    OBVIOUS
  <2>2. QED
    BY <2>1, Zenon
<1> HIDE DEF F
<1>5. 1 \in 1 .. 3 /\ 2 \in 1 .. 3 /\ 3 \in 1 .. 3
  OBVIOUS
<1>6. ISA!Fetched[1] = one /\ ISA!Fetched[2] = two /\ ISA!Fetched[3] = three
  BY <1>1, <1>2, <1>3, <1>4, <1>5, Zenon
<1>7. QED
  BY <1>6, Zenon

\* The words that the history of the emulator names are a prefix of the
\* instruction as the abstract machine fetches it.
LEMMA ISAWordsFetched ==
  ASSUME RetiredPc \in Int, NEW u \in UWord, NEW v \in UWord, NEW w \in UWord
  PROVE  /\ One(RetiredMemory, RetiredPc, u) => <<u>> \in ISA!Fetched[1]
         /\ Two(RetiredMemory, RetiredPc, u, v) => <<u, v>> \in ISA!Fetched[2]
         /\ Three(RetiredMemory, RetiredPc, u, v, w) => <<u, v, w>> \in ISA!Fetched[3]
<1>0. ASSUME NEW i \in Nat
      PROVE  ISA!Address(i) = At(RetiredPc, i) /\ At(RetiredPc, i) \in UWord
  BY ISAWords, ConversionTypes DEF ISA!Address, At
<1>1. ASSUME One(RetiredMemory, RetiredPc, u)
      PROVE  <<u>> \in ISA!Fetched[1]
  <2>1. Len(<<>>) = 0 /\ ISA!LastOf(<<>>) = 0 /\ Append(<<>>, u) = <<u>>
    BY DEF ISA!LastOf
  <2>2. u \in ISA!ReadWord(ISA!Address(0), 0)
    BY <1>0, <1>1, ISARead DEF One
  <2>3. <<u>> \in ISA!Extend(<<>>)
    BY <2>1, <2>2, ISAExtend
  <2>4. QED
    BY <2>3, ISAFetched
<1>2. ASSUME Two(RetiredMemory, RetiredPc, u, v)
      PROVE  <<u, v>> \in ISA!Fetched[2]
  <2>1. Len(<<u>>) = 1 /\ ISA!LastOf(<<u>>) = u /\ Append(<<u>>, v) = <<u, v>>
    BY AppendLiteral DEF ISA!LastOf
  <2>2. v \in ISA!ReadWord(ISA!Address(1), u)
    BY <1>0, <1>2, ISARead DEF Two
  <2>3. <<u, v>> \in ISA!Extend(<<u>>)
    BY <2>1, <2>2, ISAExtend
  <2>4. QED
    BY <1>1, <1>2, <2>3, ISAFetched DEF Two
<1>3. ASSUME Three(RetiredMemory, RetiredPc, u, v, w)
      PROVE  <<u, v, w>> \in ISA!Fetched[3]
  <2>1. Len(<<u, v>>) = 2 /\ ISA!LastOf(<<u, v>>) = v /\ Append(<<u, v>>, w) = <<u, v, w>>
    BY AppendLiteral DEF ISA!LastOf
  <2>2. w \in ISA!ReadWord(ISA!Address(2), v)
    BY <1>0, <1>3, ISARead DEF Three
  <2>3. <<u, v, w>> \in ISA!Extend(<<u, v>>)
    BY <2>1, <2>2, ISAExtend
  <2>4. QED
    BY <1>2, <1>3, <2>3, ISAFetched DEF Three
<1>4. QED
  BY <1>1, <1>2, <1>3

\* Words that were fetched are an instruction of their opcode.
LEMMA ISAInsn ==
  ASSUME NEW n \in 1 .. 3, NEW ws \in ISA!Fetched[n], NEW ops,
         ISA!Op(ws) \in ops, ISA!Length(ISA!Op(ws)) = n
  PROVE  ws \in ISA!Insn(ops)
<1> DEFINE S(k) == {x \in ISA!Fetched[k] : ISA!Op(x) \in ops /\ ISA!Length(ISA!Op(x)) = k}
<1>1. ws \in S(n)
  OBVIOUS
<1>2. ISA!Insn(ops) = UNION {S(k) : k \in 1 .. 3}
  BY Zenon DEF ISA!Insn
<1> HIDE DEF S
<1>3. QED
  BY <1>1, <1>2, Zenon

\* The opcodes are told apart by their numbers.
LEMMA OpcodeNumbers ==
  /\ LoadImm = 0 /\ LoadDirect = 1 /\ StoreDirect = 2 /\ LoadIndexed = 3
  /\ StoreIndexed = 4 /\ TransferRegister = 5 /\ Push0 = 6 /\ Push1 = 7
  /\ Pop0 = 8 /\ Pop1 = 9 /\ Add = 10 /\ Sub = 11 /\ Mul = 12 /\ DivMod = 13
  /\ NandOp = 14 /\ Extended = 15 /\ LongOps = {0, 1, 2}
  /\ LoadOps = {1, 3, 8, 9} /\ StoreOps = {2, 4, 6, 7} /\ AluOps = {10, 11, 12, 14}
BY DEF LoadImm, LoadDirect, StoreDirect, LoadIndexed, StoreIndexed, TransferRegister,
       Push0, Push1, Pop0, Pop1, Add, Sub, Mul, DivMod, NandOp, Extended, LongOps,
       LoadOps, StoreOps, AluOps

\* The words of the instruction that the history names.
Code(u, v, w) ==
  IF opcode \in LongOps THEN <<u, v, w>>
  ELSE IF opcode = TransferRegister THEN <<u, v>> ELSE <<u>>

\* When all its bytes are there, they are an instruction of the abstract machine.
LEMMA ISAWhole ==
  ASSUME NEW p \in SWord, NEW u \in UWord, NEW v \in UWord, NEW w \in UWord,
         Whole(p, u, v, w), RetiredMemory = memory, RetiredPc = p
  PROVE  /\ \A ops : opcode \in ops => Code(u, v, w) \in ISA!Insn(ops)
         /\ ISA!Op(Code(u, v, w)) = opcode
         /\ ISA!Field(Code(u, v, w)) = Register1(u)
         /\ opcode \in LongOps => ISA!Operand(Code(u, v, w)) = Operand(v, w)
         /\ opcode = TransferRegister =>
              ISA!LowNibble(ISA!ToByte(Code(u, v, w)[2])) = LowNibble(ToByte(v))
         /\ ISA!LastOf(Code(u, v, w)) = LastWord(u, v, w)
         /\ Len(Code(u, v, w)) = InstructionLength
         /\ InstructionLength \in 1 .. 3
<1> DEFINE ws == Code(u, v, w)
<1>0. RetiredPc \in Int
  BY DEF SWord, Between
<1>1. opcode \notin LongOps \/ opcode # TransferRegister
  BY OpcodeNumbers
<1>2. ws[1] = u /\ ISA!Op(ws) = opcode /\ ISA!Field(ws) = Register1(u)
  BY ISAWords DEF Code, ISA!Op, ISA!Field, Register1, Whole
<1>3. ASSUME opcode \in LongOps
      PROVE  /\ ws \in ISA!Fetched[3] /\ InstructionLength = 3 /\ Len(ws) = 3
             /\ ISA!Length(opcode) = 3 /\ ISA!LastOf(ws) = w
             /\ ISA!Operand(ws) = Operand(v, w)
  <2>1. ws = <<u, v, w>>
    BY <1>3 DEF Code
  <2>2. ws \in ISA!Fetched[3]
    <3>1. Three(RetiredMemory, RetiredPc, u, v, w)
      BY <1>3 DEF Whole
    <3>2. <<u, v, w>> \in ISA!Fetched[3]
      BY <1>0, <3>1, ISAWordsFetched, Zenon
    <3>3. QED
      BY <2>1, <3>2
  <2>3. InstructionLength = 3
    BY <1>1, <1>3, OpcodeNumbers DEF InstructionLength
  <2>4. ISA!Length(opcode) = 3
    BY <1>3, OpcodeNumbers DEF ISA!Length
  <2>5. Len(ws) = 3 /\ ws[2] = v /\ ws[3] = w /\ ws # <<>>
    BY <2>1
  <2>6. QED
    BY <2>2, <2>3, <2>4, <2>5, ISAWords DEF ISA!LastOf, ISA!Operand, Operand
<1>4. ASSUME opcode = TransferRegister
      PROVE  /\ ws \in ISA!Fetched[2] /\ InstructionLength = 2 /\ Len(ws) = 2
             /\ ISA!Length(opcode) = 2 /\ ISA!LastOf(ws) = v
             /\ ISA!LowNibble(ISA!ToByte(ws[2])) = LowNibble(ToByte(v))
  <2>1. ws = <<u, v>>
    BY <1>1, <1>4 DEF Code
  <2>2. ws \in ISA!Fetched[2]
    <3>1. Two(RetiredMemory, RetiredPc, u, v)
      BY <1>4 DEF Whole
    <3>2. <<u, v>> \in ISA!Fetched[2]
      BY <1>0, <3>1, ISAWordsFetched, Zenon
    <3>3. QED
      BY <2>1, <3>2
  <2>3. InstructionLength = 2
    BY <1>1, <1>4, OpcodeNumbers DEF InstructionLength
  <2>4. ISA!Length(opcode) = 2
    BY <1>4, OpcodeNumbers DEF ISA!Length
  <2>5. Len(ws) = 2 /\ ws[2] = v /\ ws # <<>>
    BY <2>1
  <2>6. QED
    BY <2>2, <2>3, <2>4, <2>5, ISAWords DEF ISA!LastOf
<1>5. ASSUME opcode \notin LongOps, opcode # TransferRegister
      PROVE  /\ ws \in ISA!Fetched[1] /\ InstructionLength = 1 /\ Len(ws) = 1
             /\ ISA!Length(opcode) = 1 /\ ISA!LastOf(ws) = u
  <2>1. ws = <<u>>
    BY <1>5 DEF Code
  <2>2. ws \in ISA!Fetched[1]
    <3>1. One(RetiredMemory, RetiredPc, u)
      BY <1>5 DEF Whole
    <3>2. <<u>> \in ISA!Fetched[1]
      BY <1>0, <3>1, ISAWordsFetched, Zenon
    <3>3. QED
      BY <2>1, <3>2
  <2>3. InstructionLength = 1
    BY <1>5, OpcodeNumbers DEF InstructionLength
  <2>4. ISA!Length(opcode) = 1
    BY <1>5, OpcodeNumbers DEF ISA!Length
  <2>5. Len(ws) = 1 /\ ws[1] = u /\ ws # <<>>
    BY <2>1
  <2>6. QED
    BY <2>2, <2>3, <2>4, <2>5 DEF ISA!LastOf
<1>6. \E n \in 1 .. 3 : ws \in ISA!Fetched[n] /\ ISA!Length(opcode) = n
                        /\ InstructionLength = n /\ Len(ws) = n
  BY <1>3, <1>4, <1>5
<1>7. ISA!LastOf(ws) = LastWord(u, v, w)
  BY <1>3, <1>4, <1>5 DEF LastWord
<1> HIDE DEF ws
<1>8. \A ops : opcode \in ops => ws \in ISA!Insn(ops)
  BY <1>2, <1>6, ISAInsn
<1>9. QED
  BY <1>2, <1>3, <1>4, <1>6, <1>7, <1>8 DEF ws

-----------------------------------------------------------------------------
\* The program counter of the abstract machine, and the steps it does not see.

\* Consumed by phase, and the length by opcode.
ConsumedTable ==
  /\ cpu_phase \in {"Init", "Fetch0", "Store1", "Halted"} => Consumed = 0
  /\ cpu_phase \in {"Fetch1", "Decode", "GetData0"} => Consumed = 1
  /\ cpu_phase = "GetData1" => Consumed = 2
  /\ cpu_phase = "GetData2" => Consumed = InstructionLength - 1
  /\ cpu_phase \in {"GetData3", "Prepare", "Load0", "Load1", "Execute", "Store0"} =>
       Consumed = InstructionLength

\* The table holds before and after a step.
LEMMA ConsumedBy == ConsumedTable /\ ConsumedTable'
BY Zenon DEF ConsumedTable, Consumed

LengthTable ==
  /\ opcode \in LongOps => InstructionLength = 3
  /\ opcode = TransferRegister => InstructionLength = 2
  /\ opcode \notin LongOps \union {TransferRegister} => InstructionLength = 1

\* The table holds before and after a step.
LEMMA LengthBy == LengthTable /\ LengthTable'
BY OpcodeNumbers DEF LengthTable, InstructionLength

\* Stepping back over what was stepped over, in words of 16 bits.
LEMMA BackBy ==
  ASSUME NEW r \in Int, NEW c \in Int
  PROVE  /\ ToSWord(ToSWord(r + 1) - (c + 1)) = ToSWord(r - c)
         /\ ToSWord(ToSWord(r + c) - c) = ToSWord(r)
         /\ ToSWord(ToSWord(r - c) + c) = ToSWord(r)
         /\ ToSWord(r - 0) = ToSWord(r)
BY DEF ToSWord

\* The processor's steps by which an instruction does not retire.
Waits ==
  \/ Reset \/ Fetch1 \/ Decode \/ GetData1 \/ GetData3 \/ Prepare
  \/ ExecuteStore \/ Store1

\* And those by which it asks the bus for something.
Asks == Fetch0 \/ GetData0 \/ GetData2 \/ Load0

\* Neither moves the abstract program counter: what rip gains Consumed takes back.
LEMMA PcStays ==
  ASSUME IInv, History, CpuStep, Waits \/ Asks
  PROVE  RetiredPc' = RetiredPc
<1>1. PICK p \in SWord, u \in UWord, v \in UWord, w \in UWord :
        Fetching(p, u, v) /\ Executing(p, u, v, w)
  BY DEF History
<1>2. ConsumedTable /\ ConsumedTable' /\ LengthTable /\ LengthTable'
  BY ConsumedBy, LengthBy
<1>3. rip \in Int /\ TransferRegister \notin LongOps
  BY OpcodeNumbers DEF IInv, TypeOK, CpuType, SWord, Between
<1>4. ASSUME rip' = rip, Consumed' = Consumed
      PROVE  RetiredPc' = RetiredPc
  BY <1>4 DEF RetiredPc
<1>5. ASSUME rip' = ToSWord(rip + 1), Consumed \in Int, Consumed' = Consumed + 1
      PROVE  RetiredPc' = RetiredPc
  BY <1>3, <1>5, BackBy DEF RetiredPc
<1>6. CASE Reset
  <2>1. rip' = rip
    BY <1>6 DEF Reset, History, AtRest
  <2>2. Consumed' = Consumed
    BY <1>2, <1>6 DEF Reset, ConsumedTable
  <2>3. QED
    BY <1>4, <2>1, <2>2
<1>7. CASE Fetch1 \/ Prepare \/ Load0 \/ ExecuteStore \/ Store1
  <2>1. rip' = rip
    BY <1>7 DEF Fetch1, Prepare, Load0, ExecuteStore, Store1, registers
  <2>2. cpu_phase \in {"Prepare", "Load0", "Execute"} => opcode' = opcode
    BY <1>7 DEF Fetch1, Prepare, Load0, ExecuteStore, Store1, latches
  <2>3. opcode' = opcode => InstructionLength' = InstructionLength
    BY DEF InstructionLength
  <2>4. Consumed' = Consumed
    BY <1>2, <1>7, <2>2, <2>3
    DEF Fetch1, Prepare, Load0, ExecuteStore, Store1, ConsumedTable
  <2>5. QED
    BY <1>4, <2>1, <2>4
<1>8. CASE Decode
  <2>1. /\ rip' = rip /\ cpu_phase = "Decode"
        /\ cpu_phase' = IF opcode' \in LongOps THEN "GetData0"
                        ELSE IF opcode' = TransferRegister THEN "GetData2"
                        ELSE "Prepare"
    BY <1>8 DEF Decode, registers, LongOps
  <2>2. Consumed' = Consumed
    BY <1>2, <1>3, <2>1 DEF ConsumedTable, LengthTable
  <2>3. QED
    BY <1>4, <2>1, <2>2
<1>9. CASE GetData1
  <2>1. /\ rip' = rip /\ opcode' = opcode /\ cpu_phase = "GetData1"
        /\ cpu_phase' = "GetData2" /\ opcode \in LongOps
    BY <1>1, <1>9 DEF GetData1, registers, Fetching
  <2>2. Consumed' = Consumed
    BY <1>2, <2>1 DEF ConsumedTable, LengthTable
  <2>3. QED
    BY <1>4, <2>1, <2>2
<1>10. CASE GetData3
  <2>1. /\ rip' = rip /\ opcode' = opcode /\ cpu_phase = "GetData3"
        /\ cpu_phase' = "Prepare"
    BY <1>10 DEF GetData3, registers
  <2>2. Consumed' = Consumed
    BY <1>2, <2>1 DEF ConsumedTable, InstructionLength
  <2>3. QED
    BY <1>4, <2>1, <2>2
<1>11. CASE Fetch0 \/ GetData0
  <2>1. /\ rip' = ToSWord(rip + 1)
        /\ \/ cpu_phase = "Fetch0" /\ cpu_phase' = "Fetch1"
           \/ cpu_phase = "GetData0" /\ cpu_phase' = "GetData1"
    BY <1>11 DEF Fetch0, GetData0, RequestByte
  <2>2. Consumed \in Int /\ Consumed' = Consumed + 1
    BY <1>2, <2>1 DEF ConsumedTable
  <2>3. QED
    BY <1>5, <2>1, <2>2
<1>12. CASE GetData2
  <2>1. /\ rip' = ToSWord(rip + 1) /\ opcode' = opcode
        /\ cpu_phase = "GetData2" /\ cpu_phase' = "GetData3"
    BY <1>12 DEF GetData2, RequestByte, latches
  <2>2. InstructionLength \in Int /\ InstructionLength' = InstructionLength
    BY <1>2, <2>1 DEF LengthTable, InstructionLength
  <2>3. Consumed \in Int /\ Consumed' = Consumed + 1
    BY <1>2, <2>1, <2>2 DEF ConsumedTable
  <2>4. QED
    BY <1>5, <2>1, <2>3
<1>13. QED
  BY <1>6, <1>7, <1>8, <1>9, <1>10, <1>11, <1>12 DEF Waits, Asks

\* What the abstract machine sees before a turn of the processor.
LEMMA MappedBefore ==
  ASSUME CpuStep
  PROVE  /\ RetiredMemory = memory /\ RetiredOutput = stdout
         /\ RetiredState = "running" /\ ISA!Running
<1>1. dev = "cpu" /\ process = "running" /\ cpu_phase # "Halted"
  BY DEF CpuStep, Turn, is_running
<1>2. RetiredState = "running"
  BY <1>1, Zenon DEF RetiredState
<1>3. QED
  BY <1>1, <1>2 DEF RetiredMemory, RetiredOutput, ISA!Running

\* And after one that has not switched the bus to Write.
LEMMA MappedAfter ==
  ASSUME CpuStep, bus'.mode # "Write"
  PROVE  /\ RetiredMemory' = memory /\ RetiredOutput' = stdout
         /\ ~ MemoryThrows' /\ cpu_phase' # "Halted" => RetiredState' = "running"
         /\ ~ MemoryThrows' /\ cpu_phase' = "Halted" => RetiredState' = "exited"
         /\ MemoryThrows' /\ cpu_phase' # "Halted" => RetiredState' = "aborted"
<1>1. /\ dev' = "memory" /\ process' = "running" /\ memory' = memory /\ stdout' = stdout
  BY DEF CpuStep, Turn, serialVars
<1>2. RetiredMemory' = memory /\ RetiredOutput' = stdout
  BY <1>1 DEF RetiredMemory, RetiredOutput
<1>3. ~ MemoryThrows' /\ cpu_phase' # "Halted" => RetiredState' = "running"
  BY <1>1, Zenon DEF RetiredState
<1>4. ~ MemoryThrows' /\ cpu_phase' = "Halted" => RetiredState' = "exited"
  BY <1>1, Zenon DEF RetiredState
<1>5. MemoryThrows' /\ cpu_phase' # "Halted" => RetiredState' = "aborted"
  BY <1>1, Zenon DEF RetiredState
<1>6. QED
  BY <1>2, <1>3, <1>4, <1>5

\* A waiting step is none of the abstract machine.
LEMMA WaitStutters ==
  ASSUME IInv, History, CpuStep, Waits
  PROVE  UNCHANGED ISA!isaVars
<1>1. /\ reg' = reg /\ rtmp2' = rtmp2 /\ cpu_phase' # "Halted"
  BY DEF Waits, Reset, Fetch1, Decode, GetData1, GetData3, Prepare, ExecuteStore,
         Store1, registers
<1>2. bus'.mode = "Off"
  BY DEF Waits, Reset, Fetch1, Decode, GetData1, GetData3, Prepare, ExecuteStore,
         Store1, EndRead, EndReadDisown, IInv, TypeOK, BusType, Modes, ModeByPhase,
         ReadPhases
<1>3. ~ MemoryThrows'
  BY <1>2 DEF MemoryThrows, BusActive
<1>4. QED
  BY <1>1, <1>2, <1>3, MappedBefore, MappedAfter, PcStays DEF ISA!isaVars

\* The address that a load reads, as the two levels compute it.
LEMMA LoadSourceBy ==
  ASSUME NEW p \in SWord, NEW u \in UWord, NEW v \in UWord, NEW w \in UWord,
         Whole(p, u, v, w), RetiredMemory = memory, RetiredPc = p,
         opcode \in LoadOps, opcode \in LongOps => rAddress = Operand(v, w)
  PROVE  ISA!LoadSource(Code(u, v, w)) = LoadAddress
<1> DEFINE ws == Code(u, v, w)
<1>1. /\ ISA!Op(ws) = opcode
      /\ opcode \in LongOps => ISA!Operand(ws) = Operand(v, w)
  BY ISAWhole
<1>2. \/ opcode = 1 /\ LoadAddress = Operand(v, w)
      \/ opcode = 3 /\ LoadAddress = ToUWord(reg[15] + reg[3])
      \/ opcode = 8 /\ LoadAddress = ToUWord(reg[5])
      \/ opcode = 9 /\ LoadAddress = ToUWord(reg[6])
  BY OpcodeNumbers DEF LoadAddress, rBSE, ridx, rsp0, rsp1
<1> HIDE DEF ws
<1>3. \/ opcode = 1 /\ ISA!LoadSource(ws) = ISA!Operand(ws)
      \/ opcode = 3 /\ ISA!LoadSource(ws) = ISA!ToUWord(reg[15] + reg[3])
      \/ opcode = 8 /\ ISA!LoadSource(ws) = ISA!ToUWord(reg[5])
      \/ opcode = 9 /\ ISA!LoadSource(ws) = ISA!ToUWord(reg[6])
  BY <1>1, <1>2 DEF ISA!LoadSource
<1>4. ISA!LoadSource(ws) = LoadAddress
  BY <1>1, <1>2, <1>3, ISAWords, OpcodeNumbers
<1>5. QED
  BY <1>4 DEF ws

\* A request of a hole is the end of the abstract machine; any other one it
\* does not notice.
LEMMA RequestRefines ==
  ASSUME IInv, History, CpuStep, Asks, bus' \in BusType
  PROVE  ISA!Fault \/ UNCHANGED ISA!isaVars
<1>1. PICK p \in SWord, u \in UWord, v \in UWord, w \in UWord :
        Fetching(p, u, v) /\ Executing(p, u, v, w)
  BY DEF History
<1>2. /\ reg' = reg /\ rtmp2' = rtmp2 /\ cpu_phase' # "Halted" /\ bus'.mode = "Read"
      /\ bus \in BusType
  BY DEF Asks, Fetch0, GetData0, GetData2, RequestByte, Load0, StartRead, registers,
         IInv, TypeOK, BusType
<1>3. RetiredPc' = RetiredPc
  BY PcStays
<1>4. /\ RetiredMemory = memory /\ RetiredOutput = stdout
      /\ RetiredState = "running" /\ ISA!Running
      /\ RetiredMemory' = memory /\ RetiredOutput' = stdout
  BY <1>2, MappedBefore, MappedAfter
<1>5. CASE ~ MemoryThrows'
  <2>1. RetiredState' = "running"
    BY <1>2, <1>5, MappedAfter
  <2>2. QED
    BY <1>2, <1>3, <1>4, <2>1 DEF ISA!isaVars
<1>6. CASE MemoryThrows'
  <2>1. RetiredState' = "aborted"
    BY <1>2, <1>6, MappedAfter
  <2>2. ISA!IsHole(bus'.address)
    BY <1>2, <1>6, ISAAddress DEF MemoryThrows, BusType, InMemory, Backed
  <2>3. ConsumedTable /\ LengthTable
    BY ConsumedBy, LengthBy
  <2>4. rip \in SWord /\ rip \in Int /\ p \in Int /\ TransferRegister \notin LongOps
    BY OpcodeNumbers DEF IInv, TypeOK, CpuType, SWord, Between
  <2>5. SUFFICES \/ ISA!IsHole(ISA!Address(0))
                 \/ \E n \in 1 .. 2 : \E ws \in ISA!Fetched[n] :
                      n < ISA!Length(ISA!Op(ws)) /\ ISA!IsHole(ISA!Address(n))
                 \/ \E ws \in ISA!Insn({1, 3, 8, 9}) : ISA!IsHole(ISA!LoadSource(ws))
    BY <1>2, <1>3, <1>4, <2>1 DEF ISA!Fault
  <2>6. CASE Fetch0
    <3>1. cpu_phase = "Fetch0" /\ bus'.address = ToUWord(rip)
      BY <1>2, <2>6 DEF Fetch0, RequestByte, StartRead, BusType
    <3>2. RetiredPc = rip
      BY <2>3, <2>4, <3>1 DEF RetiredPc, ConsumedTable, ToSWord, SWord, Between
    <3>3. bus'.address = ISA!Address(0)
      BY <2>4, <3>1, <3>2, ISAWords DEF ISA!Address
    <3>4. QED
      BY <2>2, <3>3
  <2>7. ASSUME NEW n \in 1 .. 2, NEW ws \in ISA!Fetched[n],
               rip = ToSWord(p + n), Consumed = n, bus'.address = ToUWord(rip),
               n < ISA!Length(ISA!Op(ws))
        PROVE  \E m \in 1 .. 2 : \E xs \in ISA!Fetched[m] :
                 m < ISA!Length(ISA!Op(xs)) /\ ISA!IsHole(ISA!Address(m))
    <3>1. RetiredPc = p
      BY <2>4, <2>7, BackBy DEF RetiredPc, ToSWord, SWord, Between
    <3>2. bus'.address = ISA!Address(n)
      BY <2>4, <2>7, <3>1, WordSteps, ISAWords DEF ISA!Address
    <3>3. QED
      BY <2>2, <2>7, <3>2
  <2>8. CASE GetData0
    <3>1. /\ cpu_phase = "GetData0" /\ bus'.address = ToUWord(rip)
      BY <1>2, <2>8 DEF GetData0, RequestByte, StartRead, BusType
    <3>2. One(memory, p, u) /\ rip = ToSWord(p + 1)
          /\ opcode = LowNibble(ToByte(u)) /\ opcode \in LongOps
      BY <1>1, <3>1 DEF Fetching
    <3>3. Consumed = 1
      BY <2>3, <3>1 DEF ConsumedTable
    <3>4. RetiredPc = p
      BY <2>4, <3>2, <3>3, BackBy DEF RetiredPc, ToSWord, SWord, Between
    <3>5. <<u>> \in ISA!Fetched[1]
      BY <1>4, <2>4, <3>2, <3>4, ISAWordsFetched
    <3>6. ISA!Op(<<u>>) = opcode
      BY <3>2, ISAWords DEF ISA!Op
    <3>7. 1 < ISA!Length(opcode)
      BY <3>2, OpcodeNumbers DEF ISA!Length
    <3>8. QED
      BY <2>7, <3>1, <3>2, <3>3, <3>5, <3>6, <3>7
  <2>9. CASE GetData2
    <3>1. /\ cpu_phase = "GetData2" /\ bus'.address = ToUWord(rip)
      BY <1>2, <2>9 DEF GetData2, RequestByte, StartRead, BusType
    <3>2. opcode = LowNibble(ToByte(u)) /\ Consumed = InstructionLength - 1
      BY <1>1, <2>3, <3>1 DEF Fetching, ConsumedTable
    <3>3. CASE opcode = TransferRegister
      <4>1. One(memory, p, u) /\ rip = ToSWord(p + 1) /\ Consumed = 1
        BY <1>1, <2>3, <2>4, <3>1, <3>2, <3>3 DEF Fetching, LengthTable
      <4>2. RetiredPc = p
        BY <2>4, <4>1, BackBy DEF RetiredPc, ToSWord, SWord, Between
      <4>3. <<u>> \in ISA!Fetched[1]
        BY <1>4, <2>4, <4>1, <4>2, ISAWordsFetched
      <4>4. ISA!Op(<<u>>) = opcode
        BY <3>2, ISAWords DEF ISA!Op
      <4>5. 1 < ISA!Length(opcode)
        BY <3>3, OpcodeNumbers DEF ISA!Length
      <4>6. QED
        BY <2>7, <3>1, <4>1, <4>3, <4>4, <4>5
    <3>4. CASE opcode # TransferRegister
      <4>1. /\ Two(memory, p, u, v) /\ rip = ToSWord(p + 2) /\ Consumed = 2
            /\ opcode \in LongOps
        BY <1>1, <2>3, <2>4, <3>1, <3>2, <3>4 DEF Fetching, LengthTable
      <4>2. RetiredPc = p
        BY <2>4, <4>1, BackBy DEF RetiredPc, ToSWord, SWord, Between
      <4>3. <<u, v>> \in ISA!Fetched[2]
        BY <1>4, <2>4, <4>1, <4>2, ISAWordsFetched
      <4>4. ISA!Op(<<u, v>>) = opcode
        BY <3>2, ISAWords DEF ISA!Op
      <4>5. 2 < ISA!Length(opcode)
        BY <4>1, OpcodeNumbers DEF ISA!Length
      <4>6. QED
        BY <2>7, <3>1, <4>1, <4>3, <4>4, <4>5
    <3>5. QED
      BY <3>3, <3>4
  <2>10. CASE Load0
    <3>1. /\ cpu_phase = "Load0" /\ bus'.address = LoadAddress /\ opcode \in LoadOps
      BY <1>2, <2>10
      DEF Load0, StartRead, BusType, IInv, IndicesInBounds
    <3>2. Whole(p, u, v, w) /\ (opcode \in LongOps => rAddress = Operand(v, w))
      BY <1>1, <3>1 DEF Executing
    <3>3. rip = ToSWord(p + InstructionLength) /\ Consumed = InstructionLength
          /\ InstructionLength \in Int
      BY <2>3, <3>1, <3>2 DEF ConsumedTable, Whole, LengthTable
    <3>4. RetiredPc = p
      BY <2>4, <3>3, BackBy DEF RetiredPc, ToSWord, SWord, Between
    <3>5. Code(u, v, w) \in ISA!Insn({1, 3, 8, 9})
      BY <1>4, <3>1, <3>2, <3>4, ISAWhole, OpcodeNumbers
    <3>6. ISA!LoadSource(Code(u, v, w)) = LoadAddress
      BY <1>4, <3>1, <3>2, <3>4, LoadSourceBy
    <3>7. QED
      BY <2>2, <3>1, <3>5, <3>6
  <2>11. QED
    BY <2>6, <2>8, <2>9, <2>10 DEF Asks
<1>7. QED
  BY <1>5, <1>6

-----------------------------------------------------------------------------
\* The steps by which an instruction retires.

\* What the abstract machine sees of the write that ends an instruction.
LEMMA MappedWrite ==
  ASSUME IInv, CpuStep, DriveStore, opcode' = opcode,
         cpu_phase \in {"Load1", "Execute", "Store0"},
         opcode \in StoreOps => cpu_phase = "Store0"
  PROVE  /\ RetiredPc' = ToSWord(rip')
         /\ RetiredMemory' = IF opcode \in StoreOps /\ Backed(StoreAddress)
                             THEN [memory EXCEPT ![Cell(StoreAddress)] = ToUWord(reg[rR0])]
                             ELSE memory
         /\ opcode \notin StoreOps =>
              RetiredOutput' = IF bus.address = SerialBegin
                               THEN Append(stdout, ToByte(bus.data)) ELSE stdout
         /\ opcode \in StoreOps =>
              RetiredOutput' = IF StoreAddress = SerialBegin
                               THEN Append(stdout, ToByte(ToUWord(reg[rR0]))) ELSE stdout
         /\ RetiredState' = IF /\ opcode \in StoreOps
                               /\ InMemory(StoreAddress) /\ ~ Backed(StoreAddress)
                            THEN "aborted" ELSE "running"
<1>1. /\ dev = "cpu" /\ dev' = "memory" /\ process' = "running"
      /\ memory' = memory /\ stdout' = stdout
  BY DEF CpuStep, Turn, serialVars
<1>2. opcode \in StoreOps => rR0 \in Register
  BY DEF IInv, IndicesInBounds
<1>3. /\ bus' \in BusType /\ bus'.mode = "Write" /\ cpu_phase' = "Store1"
      /\ opcode \in StoreOps =>
           bus'.address = StoreAddress /\ bus'.data = ToUWord(reg[rR0])
      /\ opcode \notin StoreOps =>
           bus'.address = bus.address /\ bus'.data = bus.data
  BY <1>2, DriveStoreType DEF IInv
<1>4. AtPort' <=> bus'.address = SerialBegin
  BY <1>3, PortOutside, SerialAssumption
  DEF AtPort, InSerial, PortOffset, BusType, UWord, Between
<1>5. MemoryThrows' <=> InMemory(bus'.address) /\ ~ Backed(bus'.address)
  BY <1>3 DEF MemoryThrows, BusActive, InMemory, Backed
<1>6. opcode \notin StoreOps /\ InMemory(bus.address) =>
        Backed(bus.address) /\ bus.data = memory[Cell(bus.address)]
  BY <1>1 DEF IInv, BusShowsMemory, InstructionUnderWay
<1>7. memory \in [Cells -> UWord]
  BY DEF IInv, TypeOK, MemoryType
<1>8. RetiredPc' = ToSWord(rip')
  <2>1. IInv'
    BY NextIInv DEF Next
  <2>2. rip' \in Int
    BY <2>1 DEF IInv, TypeOK, CpuType, SWord, Between
  <2>3. Consumed' = 0
    BY <1>3, ConsumedBy DEF ConsumedTable
  <2>4. QED
    BY <2>2, <2>3, BackBy DEF RetiredPc
<1>9. RetiredMemory' = IF Backed(bus'.address)
                       THEN [memory EXCEPT ![Cell(bus'.address)] = bus'.data]
                       ELSE memory
  BY <1>1, <1>3 DEF RetiredMemory, Backed, InMemory, Cell
<1>10. RetiredOutput' = IF bus'.address = SerialBegin
                        THEN Append(stdout, ToByte(bus'.data)) ELSE stdout
  BY <1>1, <1>3, <1>4 DEF RetiredOutput
<1>11. RetiredState' = IF InMemory(bus'.address) /\ ~ Backed(bus'.address)
                       THEN "aborted" ELSE "running"
  <2>1. CASE MemoryThrows'
    <3>1. RetiredState' = "aborted"
      BY <1>1, <1>3, <2>1, Zenon DEF RetiredState
    <3>2. QED
      BY <1>5, <2>1, <3>1
  <2>2. CASE ~ MemoryThrows'
    <3>1. RetiredState' = "running"
      BY <1>1, <1>3, <2>2, Zenon DEF RetiredState
    <3>2. QED
      BY <1>5, <2>2, <3>1
  <2>3. QED
    BY <2>1, <2>2
<1>12. opcode \notin StoreOps => RetiredMemory' = memory
  <2>1. ASSUME opcode \notin StoreOps, Backed(bus.address)
        PROVE  [memory EXCEPT ![Cell(bus.address)] = bus.data] = memory
    BY <1>6, <1>7, <2>1 DEF Backed
  <2>2. QED
    BY <1>3, <1>9, <2>1
<1>13. QED
  BY <1>3, <1>6, <1>8, <1>9, <1>10, <1>11, <1>12

\* What every instruction does that retires in Execute and is not a store.
LEMMA RetireFrame ==
  ASSUME IInv, CpuStep, DriveStore, opcode' = opcode, cpu_phase = "Execute",
         opcode \notin StoreOps,
         NEW p \in SWord, NEW u \in UWord, NEW v \in UWord, NEW w \in UWord,
         Executing(p, u, v, w)
  PROVE  /\ ISA!Running
         /\ \A ops : opcode \in ops => Code(u, v, w) \in ISA!Insn(ops)
         /\ ISA!Op(Code(u, v, w)) = opcode
         /\ ISA!Field(Code(u, v, w)) = Register1(u)
         /\ opcode \in LongOps => ISA!Operand(Code(u, v, w)) = rAddress
         /\ opcode = TransferRegister =>
              ISA!LowNibble(ISA!ToByte(Code(u, v, w)[2])) = rR1
         /\ ISA!EchoInsn(Code(u, v, w))
         /\ RetiredMemory' = RetiredMemory /\ RetiredState' = RetiredState
         /\ RetiredPc' = ToSWord(rip')
         /\ ISA!ToSWord(RetiredPc + Len(Code(u, v, w))) = rip
         /\ rip' = rip => ISA!Advance(Code(u, v, w))
<1> DEFINE ws == Code(u, v, w)
<1>1. /\ RetiredMemory = memory /\ RetiredOutput = stdout
      /\ RetiredState = "running" /\ ISA!Running
  BY MappedBefore
<1>2. /\ Whole(p, u, v, w) /\ OnBus(p, u, v, w)
      /\ opcode \in LongOps => rAddress = Operand(v, w)
      /\ opcode = TransferRegister => rR1 = LowNibble(ToByte(v))
  BY DEF Executing
<1>3. ConsumedTable /\ LengthTable /\ p \in Int /\ rip \in SWord /\ rip \in Int
  BY ConsumedBy, LengthBy DEF IInv, TypeOK, CpuType, SWord, Between
<1>4. InstructionLength \in Int /\ rip = ToSWord(p + InstructionLength)
      /\ Consumed = InstructionLength
  BY <1>2, <1>3 DEF ConsumedTable, LengthTable, Whole
<1>5. RetiredPc = p
  BY <1>3, <1>4, BackBy DEF RetiredPc, ToSWord, SWord, Between
<1>6. /\ \A ops : opcode \in ops => ws \in ISA!Insn(ops)
      /\ ISA!Op(ws) = opcode /\ ISA!Field(ws) = Register1(u)
      /\ opcode \in LongOps => ISA!Operand(ws) = Operand(v, w)
      /\ opcode = TransferRegister => ISA!LowNibble(ISA!ToByte(ws[2])) = LowNibble(ToByte(v))
      /\ ISA!LastOf(ws) = LastWord(u, v, w) /\ Len(ws) = InstructionLength
  BY <1>1, <1>2, <1>5, ISAWhole
<1>7. /\ RetiredPc' = ToSWord(rip') /\ RetiredMemory' = memory
      /\ RetiredState' = "running"
      /\ RetiredOutput' = IF bus.address = SerialBegin
                          THEN Append(stdout, ToByte(bus.data)) ELSE stdout
  BY MappedWrite
<1> HIDE DEF ws
<1>8. ISA!EchoInsn(ws)
  <2>1. bus.address = ISA!Address(Len(ws) - 1) /\ bus.data = ISA!LastOf(ws)
    BY <1>2, <1>5, <1>6, ISAWords DEF OnBus, At, ISA!Address
  <2>2. ISA!IsPort(bus.address) <=> bus.address = SerialBegin
    BY DEF ISA!IsPort
  <2>3. ISA!ToByte(bus.data) = ToByte(bus.data)
    BY ISAWords
  <2>4. QED
    BY <1>1, <1>7, <2>1, <2>2, <2>3 DEF ISA!EchoInsn, ISA!Echo
<1>9. ISA!ToSWord(RetiredPc + Len(ws)) = rip
  BY <1>4, <1>5, <1>6, ISAWords
<1>10. rip' = rip => ISA!Advance(ws)
  <2>1. ToSWord(rip) = rip
    BY <1>3 DEF ToSWord, SWord, Between
  <2>2. QED
    BY <1>7, <1>9, <2>1 DEF ISA!Advance
<1>11. QED
  BY <1>1, <1>2, <1>6, <1>7, <1>8, <1>9, <1>10 DEF ws

\* One lemma for each instruction of the switch in CPU::simulate().
LEMMA LoadImmRefines ==
  ASSUME IInv, History, CpuStep, ExecuteLoadImm
  PROVE  ISA!LoadImmediate
<1>1. PICK p \in SWord, u \in UWord, v \in UWord, w \in UWord :
        Fetching(p, u, v) /\ Executing(p, u, v, w)
  BY DEF History
<1>2. /\ DriveStore /\ opcode' = opcode /\ cpu_phase = "Execute" /\ rip' = rip
      /\ opcode = 0 /\ opcode \notin StoreOps /\ opcode \in LongOps
  BY OpcodeNumbers DEF ExecuteLoadImm
<1> DEFINE ws == Code(u, v, w)
<1>3. /\ ISA!Running /\ ws \in ISA!Insn({0}) /\ ISA!Operand(ws) = rAddress
      /\ ISA!EchoInsn(ws) /\ ISA!Advance(ws)
      /\ RetiredMemory' = RetiredMemory /\ RetiredState' = RetiredState
  BY <1>1, <1>2, RetireFrame
<1> HIDE DEF ws
<1>4. rValue = rAddress
  BY <1>1, <1>2 DEF Executing
<1>5. ISA!SetTmp(ISA!Operand(ws))
  BY <1>3, <1>4, ISAWords DEF ExecuteLoadImm, SetTmp, ISA!SetTmp, rtmp
<1>6. QED
  BY <1>3, <1>5 DEF ISA!LoadImmediate

\* A transfer between registers.
LEMMA TransferRefines ==
  ASSUME IInv, History, CpuStep, ExecuteTransfer
  PROVE  ISA!Transfer
<1>1. PICK p \in SWord, u \in UWord, v \in UWord, w \in UWord :
        Fetching(p, u, v) /\ Executing(p, u, v, w)
  BY DEF History
<1>2. /\ DriveStore /\ opcode' = opcode /\ cpu_phase = "Execute" /\ rip' = rip
      /\ opcode = 5 /\ opcode \notin StoreOps /\ opcode \notin LongOps
      /\ opcode = TransferRegister
  BY OpcodeNumbers DEF ExecuteTransfer, latches
<1> DEFINE ws == Code(u, v, w)
<1>3. /\ ISA!Running /\ ws \in ISA!Insn({5}) /\ ISA!Field(ws) = Register1(u)
      /\ ISA!LowNibble(ISA!ToByte(ws[2])) = rR1
      /\ ISA!EchoInsn(ws) /\ ISA!Advance(ws)
      /\ RetiredMemory' = RetiredMemory /\ RetiredState' = RetiredState
  BY <1>1, <1>2, RetireFrame
<1> HIDE DEF ws
<1>4. rR0 = Register1(u)
  BY <1>1, <1>2 DEF Executing
<1>5. /\ reg' = [reg EXCEPT ![rR1] = reg[ISA!Field(ws)]]
      /\ rtmp2' = IF rR1 = 4 THEN reg[4] ELSE rtmp2
  BY <1>3, <1>4 DEF ExecuteTransfer, rtmp
<1>6. QED
  BY <1>3, <1>5 DEF ISA!Transfer

\* Arithmetic.
LEMMA AluRefines ==
  ASSUME IInv, History, CpuStep, ExecuteAlu
  PROVE  ISA!Arithmetic
<1>1. PICK p \in SWord, u \in UWord, v \in UWord, w \in UWord :
        Fetching(p, u, v) /\ Executing(p, u, v, w)
  BY DEF History
<1>2. /\ DriveStore /\ opcode' = opcode /\ cpu_phase = "Execute" /\ rip' = rip
      /\ opcode \in {10, 11, 12, 14} /\ opcode \notin StoreOps /\ rtmp2' = rtmp2
  BY OpcodeNumbers DEF ExecuteAlu, latches
<1> DEFINE ws == Code(u, v, w)
<1>3. /\ ISA!Running /\ ws \in ISA!Insn({10, 11, 12, 14}) /\ ISA!Op(ws) = opcode
      /\ ISA!EchoInsn(ws) /\ ISA!Advance(ws)
      /\ RetiredMemory' = RetiredMemory /\ RetiredState' = RetiredState
  BY <1>1, <1>2, RetireFrame
<1> HIDE DEF ws
<1>4. ISA!Nand(reg[1], reg[2]) = Nand(reg[1], reg[2])
  BY DEF ISA!Nand, Nand, ISA!ToSWord, ToSWord, ISA!ToUWord, ToUWord, ISA!And16, And16,
         ISA!And8, And8, ISA!And4, And4, ISA!And2, And2, ISA!And1, And1
<1>5. ISA!Result(opcode) = Alu(opcode, reg[1], reg[2])
  BY <1>2, <1>4, ISAWords, OpcodeNumbers DEF ISA!Result, Alu
<1>6. reg' = [reg EXCEPT ![0] = ISA!Result(ISA!Op(ws))]
  BY <1>3, <1>5 DEF ExecuteAlu, rdst, rsc0, rsc1
<1>7. QED
  BY <1>2, <1>3, <1>6 DEF ISA!Arithmetic

\* A division that does not trap.
LEMMA DivideRefines ==
  ASSUME IInv, History, CpuStep, ExecuteDivMod
  PROVE  ISA!Divide
<1>1. PICK p \in SWord, u \in UWord, v \in UWord, w \in UWord :
        Fetching(p, u, v) /\ Executing(p, u, v, w)
  BY DEF History
<1>2. /\ DriveStore /\ opcode' = opcode /\ cpu_phase = "Execute" /\ rip' = rip
      /\ opcode = 13 /\ opcode \notin StoreOps
  BY OpcodeNumbers DEF ExecuteDivMod, latches
<1> DEFINE ws == Code(u, v, w)
<1>3. /\ ISA!Running /\ ws \in ISA!Insn({13})
      /\ ISA!EchoInsn(ws) /\ ISA!Advance(ws)
      /\ RetiredMemory' = RetiredMemory /\ RetiredState' = RetiredState
  BY <1>1, <1>2, RetireFrame
<1> HIDE DEF ws
<1>4. /\ ISA!Quotient(reg[1], reg[2]) = Quotient(reg[1], reg[2])
      /\ ISA!Remainder(reg[1], reg[2]) = Remainder(reg[1], reg[2])
  BY DEF ISA!Quotient, Quotient, ISA!Remainder, Remainder, ISA!Magnitude, Magnitude
<1>5. /\ reg[2] # 0 /\ rtmp2' = reg[4]
      /\ reg' = [reg EXCEPT ![0] = ISA!ToSWord(ISA!Quotient(reg[1], reg[2])),
                            ![4] = ISA!ToSWord(ISA!Remainder(reg[1], reg[2]))]
  BY <1>4, ISAWords DEF ExecuteDivMod, rdst, rtmp, rsc0, rsc1
<1>6. QED
  BY <1>3, <1>5 DEF ISA!Divide

\* The extended instructions that do not halt.
LEMMA ExtendedRefines ==
  ASSUME IInv, History, CpuStep, ExecuteJump \/ ExecuteRestoreTmp \/ ExecuteNothing
  PROVE  ISA!Jump \/ ISA!RestoreTmp \/ ISA!NoOperation
<1>1. PICK p \in SWord, u \in UWord, v \in UWord, w \in UWord :
        Fetching(p, u, v) /\ Executing(p, u, v, w)
  BY DEF History
<1>2. /\ DriveStore /\ opcode' = opcode /\ cpu_phase = "Execute"
      /\ opcode = 15 /\ opcode \notin StoreOps /\ opcode \notin LongOps
  BY OpcodeNumbers
  DEF ExecuteJump, JumpTaken, ExecuteRestoreTmp, ExecuteNothing, latches
<1> DEFINE ws == Code(u, v, w)
<1>3. /\ ISA!Running /\ ws \in ISA!Insn({15}) /\ ISA!Field(ws) = Register1(u)
      /\ ISA!EchoInsn(ws) /\ (rip' = rip => ISA!Advance(ws))
      /\ ISA!ToSWord(RetiredPc + Len(ws)) = rip /\ RetiredPc' = ToSWord(rip')
      /\ RetiredMemory' = RetiredMemory /\ RetiredState' = RetiredState
  BY <1>1, <1>2, RetireFrame
<1> HIDE DEF ws
<1>4. ISA!Field(ws) = rR0
  BY <1>1, <1>2, <1>3 DEF Executing
<1>5. CASE ExecuteJump
  <2>1. /\ reg' = [reg EXCEPT ![13] = rip] /\ rip' = reg[4] /\ rtmp2' = rtmp2
        /\ \/ rR0 = 0 /\ reg[14] <= 0
           \/ rR0 = 1 /\ reg[4] # -1
    BY <1>5 DEF ExecuteJump, JumpTaken, latches, rln, rtmp, rCNT
  <2>2. ToSWord(reg[4]) = reg[4]
    BY RegisterIsInt, RegisterConstants
    DEF IInv, rtmp, ToSWord, SWord, Between
  <2>3. ISA!Jump
    BY <1>3, <1>4, <2>1, <2>2 DEF ISA!Jump
  <2>4. QED
    BY <2>3
<1>6. CASE ExecuteRestoreTmp
  <2>1. /\ reg' = [reg EXCEPT ![4] = rtmp2] /\ rtmp2' = reg[4] /\ rip' = rip /\ rR0 = 2
    BY <1>6 DEF ExecuteRestoreTmp, rtmp
  <2>2. ISA!RestoreTmp
    BY <1>3, <1>4, <2>1 DEF ISA!RestoreTmp
  <2>3. QED
    BY <2>2
<1>7. CASE ExecuteNothing
  <2>1. /\ reg' = reg /\ rtmp2' = rtmp2 /\ rip' = rip
        /\ \/ rR0 = 0 /\ reg[14] > 0
           \/ rR0 > 2
    BY <1>7 DEF ExecuteNothing, registers, rCNT
  <2>2. ISA!NoOperation
    BY <1>3, <1>4, <2>1 DEF ISA!NoOperation
  <2>3. QED
    BY <2>2
<1>8. QED
  BY <1>5, <1>6, <1>7

\* Before it retires, an instruction is still at the abstract program counter.
LEMMA RetiredPcAt ==
  ASSUME IInv, NEW p \in SWord, NEW u \in UWord, NEW v \in UWord, NEW w \in UWord,
         Whole(p, u, v, w), cpu_phase \in {"Load0", "Load1", "Execute", "Store0"}
  PROVE  /\ RetiredPc = p /\ InstructionLength \in Int
         /\ rip = ToSWord(p + InstructionLength) /\ ToSWord(rip) = rip
<1>1. ConsumedTable /\ LengthTable /\ p \in Int /\ rip \in SWord /\ rip \in Int
  BY ConsumedBy, LengthBy DEF IInv, TypeOK, CpuType, SWord, Between
<1>2. InstructionLength \in Int /\ rip = ToSWord(p + InstructionLength)
      /\ Consumed = InstructionLength
  BY <1>1 DEF ConsumedTable, LengthTable, Whole
<1>3. RetiredPc = p
  BY <1>1, <1>2, BackBy DEF RetiredPc, ToSWord, SWord, Between
<1>4. ToSWord(rip) = rip
  BY <1>1 DEF ToSWord, SWord, Between
<1>5. QED
  BY <1>2, <1>3, <1>4

\* The loads, which end in Load1.
LEMMA LoadRefines ==
  ASSUME IInv, History, CpuStep, Load1
  PROVE  ISA!Load
<1>1. PICK p \in SWord, u \in UWord, v \in UWord, w \in UWord :
        Fetching(p, u, v) /\ Executing(p, u, v, w)
  BY DEF History
<1>2. /\ cpu_phase = "Load1" /\ opcode \in LoadOps /\ DriveStore /\ opcode' = opcode
      /\ rip' = rip /\ opcode \notin StoreOps /\ dev = "cpu"
  BY OpcodeNumbers DEF Load1, CpuStep, Turn
<1>3. /\ Whole(p, u, v, w) /\ (opcode \in LongOps => rAddress = Operand(v, w))
      /\ bus.address = LoadAddress
      /\ Answers(memory, LoadAddress, LastWord(u, v, w), bus.data)
  BY <1>1, <1>2 DEF Executing, Answering
<1>4. /\ RetiredMemory = memory /\ RetiredOutput = stdout
      /\ RetiredState = "running" /\ ISA!Running
  BY MappedBefore
<1>5. /\ RetiredPc = p /\ InstructionLength \in Int
      /\ rip = ToSWord(p + InstructionLength) /\ ToSWord(rip) = rip
  BY <1>2, <1>3, RetiredPcAt
<1>6. /\ RetiredPc' = ToSWord(rip') /\ RetiredMemory' = memory
      /\ RetiredState' = "running"
      /\ RetiredOutput' = IF bus.address = SerialBegin
                          THEN Append(stdout, ToByte(bus.data)) ELSE stdout
  BY <1>2, MappedWrite
<1> DEFINE ws == Code(u, v, w)
<1>7. /\ ws \in ISA!Insn({1, 3, 8, 9}) /\ ISA!LastOf(ws) = LastWord(u, v, w)
      /\ Len(ws) = InstructionLength
  BY <1>2, <1>3, <1>4, <1>5, ISAWhole, OpcodeNumbers
<1>8. ISA!LoadSource(ws) = LoadAddress
  BY <1>2, <1>3, <1>4, <1>5, LoadSourceBy
<1> HIDE DEF ws
<1>9. bus.data \in ISA!ReadWord(ISA!LoadSource(ws), ISA!LastOf(ws))
  <2>1. LoadAddress \in UWord
    BY <1>2, LoadAddressType DEF IInv
  <2>2. QED
    BY <1>3, <1>4, <1>7, <1>8, <2>1, ISARead
<1>10. ISA!SetTmp(bus.data)
  BY ISAWords DEF Load1, SetTmp, ISA!SetTmp, rtmp
<1>11. ISA!Advance(ws)
  BY <1>2, <1>5, <1>6, <1>7, ISAWords DEF ISA!Advance
<1>12. ISA!Echo(ISA!LoadSource(ws), bus.data)
  BY <1>3, <1>4, <1>6, <1>8, ISAWords DEF ISA!Echo, ISA!IsPort
<1>13. QED
  BY <1>4, <1>6, <1>7, <1>9, <1>10, <1>11, <1>12 DEF ISA!Load

\* The stores, of which the word is on the bus after Store0.
LEMMA StoreRefines ==
  ASSUME IInv, History, CpuStep, Store0
  PROVE  ISA!Store
<1>1. PICK p \in SWord, u \in UWord, v \in UWord, w \in UWord :
        Fetching(p, u, v) /\ Executing(p, u, v, w)
  BY DEF History
<1>2. /\ cpu_phase = "Store0" /\ opcode \in StoreOps /\ DriveStore /\ opcode' = opcode
      /\ rip' = rip /\ reg' = reg /\ rtmp2' = rtmp2 /\ TypeOK
  BY DEF Store0, registers, latches, IInv, IndicesInBounds
<1>3. /\ Whole(p, u, v, w) /\ (opcode \in LongOps => rAddress = Operand(v, w))
      /\ opcode = StoreIndexed =>
           \E low \in Register : rAddress = 256 * Register1(u) + low
      /\ rR0 = IF opcode = StoreIndexed THEN Register1(u) ELSE rtmp
  BY <1>1, <1>2 DEF Executing
<1>4. /\ RetiredMemory = memory /\ RetiredOutput = stdout
      /\ RetiredState = "running" /\ ISA!Running
  BY MappedBefore
<1>5. /\ RetiredPc = p /\ InstructionLength \in Int
      /\ rip = ToSWord(p + InstructionLength) /\ ToSWord(rip) = rip
  BY <1>2, <1>3, RetiredPcAt
<1>6. StoreAddress \in UWord
  BY <1>2, StoreAddressType
<1>7. /\ RetiredPc' = ToSWord(rip')
      /\ RetiredMemory' = IF Backed(StoreAddress)
                          THEN [memory EXCEPT ![Cell(StoreAddress)] = ToUWord(reg[rR0])]
                          ELSE memory
      /\ RetiredState' = IF InMemory(StoreAddress) /\ ~ Backed(StoreAddress)
                         THEN "aborted" ELSE "running"
      /\ RetiredOutput' = IF StoreAddress = SerialBegin
                          THEN Append(stdout, ToByte(ToUWord(reg[rR0]))) ELSE stdout
  BY <1>2, MappedWrite
<1> DEFINE ws == Code(u, v, w)
<1>8. /\ ws \in ISA!Insn({2, 4, 6, 7}) /\ Len(ws) = InstructionLength
      /\ ISA!Op(ws) = opcode /\ ISA!Field(ws) = Register1(u)
      /\ opcode \in LongOps => ISA!Operand(ws) = Operand(v, w)
  BY <1>2, <1>3, <1>4, <1>5, ISAWhole, OpcodeNumbers
<1> HIDE DEF ws
<1>9. ISA!Stored(ws) = ToUWord(reg[rR0])
  BY <1>3, <1>8, ISAWords, OpcodeNumbers DEF ISA!Stored, rtmp
<1>10. StoreAddress \in ISA!StoreTargets(ws)
  <2>1. CASE opcode = 2
    <3>1. StoreAddress = ISA!Operand(ws)
      BY <1>3, <1>8, <2>1, OpcodeNumbers DEF StoreAddress
    <3>2. ISA!StoreTargets(ws) = {ISA!Operand(ws)}
      BY <1>8, <2>1 DEF ISA!StoreTargets
    <3>3. QED
      BY <3>1, <3>2
  <2>2. CASE opcode = 4
    <3>1. PICK low \in Register : rAddress = 256 * Register1(u) + low
      BY <1>3, <2>2, OpcodeNumbers
    <3>2. StoreAddress = ToUWord(256 * Register1(u) + low + reg[3])
      BY <2>2, <3>1, OpcodeNumbers DEF StoreAddress, ridx
    <3>3. ISA!StoreTargets(ws) =
            {ISA!ToUWord(256 * ISA!Field(ws) + l + reg[3]) : l \in 0 .. 15}
      BY <1>8, <2>2 DEF ISA!StoreTargets
    <3>4. QED
      BY <1>8, <3>1, <3>2, <3>3, ISAWords DEF Register
  <2>3. CASE opcode = 6
    <3>1. StoreAddress = ToUWord(reg[5])
      BY <2>3, OpcodeNumbers DEF StoreAddress, rsp0
    <3>2. ISA!StoreTargets(ws) = {ISA!ToUWord(reg[5])}
      BY <1>8, <2>3 DEF ISA!StoreTargets
    <3>3. QED
      BY <3>1, <3>2, ISAWords
  <2>4. CASE opcode = 7
    <3>1. StoreAddress = ToUWord(reg[6])
      BY <2>4, OpcodeNumbers DEF StoreAddress, rsp1
    <3>2. ISA!StoreTargets(ws) = {ISA!ToUWord(reg[6])}
      BY <1>8, <2>4 DEF ISA!StoreTargets
    <3>3. QED
      BY <3>1, <3>2, ISAWords
  <2>5. QED
    BY <1>2, <2>1, <2>2, <2>3, <2>4, OpcodeNumbers
<1>11. ISA!Advance(ws)
  BY <1>2, <1>5, <1>7, <1>8, ISAWords DEF ISA!Advance
<1>12. ISA!Echo(StoreAddress, ISA!Stored(ws))
  BY <1>4, <1>7, <1>9, ISAWords DEF ISA!Echo, ISA!IsPort
<1>13. /\ RetiredMemory' = IF ISA!IsRam(StoreAddress)
                           THEN [RetiredMemory EXCEPT ![StoreAddress - MemoryBegin] = ISA!Stored(ws)]
                           ELSE RetiredMemory
       /\ RetiredState' = IF ISA!IsHole(StoreAddress) THEN "aborted" ELSE RetiredState
  BY <1>4, <1>6, <1>7, <1>9, ISAAddress DEF Cell
<1>14. QED
  BY <1>2, <1>4, <1>8, <1>10, <1>11, <1>12, <1>13 DEF ISA!Store

\* The halt.
LEMMA HaltRefines ==
  ASSUME IInv, History, CpuStep, ExecuteHalt
  PROVE  ISA!Halt
<1>1. PICK p \in SWord, u \in UWord, v \in UWord, w \in UWord :
        Fetching(p, u, v) /\ Executing(p, u, v, w)
  BY DEF History
<1>2. /\ cpu_phase = "Execute" /\ cpu_phase' = "Halted" /\ opcode = 15
      /\ opcode \notin LongOps /\ rR0 = 1 /\ reg[4] = -1
      /\ bus' = bus /\ rip' = rip /\ reg' = reg /\ rtmp2' = rtmp2
  BY OpcodeNumbers DEF ExecuteHalt, registers, rtmp
<1>3. Whole(p, u, v, w) /\ rR0 = Register1(u)
  BY <1>1, <1>2 DEF Executing
<1>4. bus.mode = "Off"
  BY <1>2 DEF IInv, TypeOK, BusType, Modes, ModeByPhase, ReadPhases
<1>5. ~ MemoryThrows'
  BY <1>2, <1>4 DEF MemoryThrows, BusActive
<1>6. /\ RetiredMemory = memory /\ RetiredOutput = stdout
      /\ RetiredState = "running" /\ ISA!Running
      /\ RetiredMemory' = memory /\ RetiredOutput' = stdout
      /\ RetiredState' = "exited"
  BY <1>2, <1>4, <1>5, MappedBefore, MappedAfter
<1>7. /\ RetiredPc = p /\ InstructionLength \in Int
      /\ rip = ToSWord(p + InstructionLength) /\ ToSWord(rip) = rip
  BY <1>2, <1>3, RetiredPcAt
<1>8. RetiredPc' = rip
  <2>1. Consumed' = 0
    BY <1>2, ConsumedBy DEF ConsumedTable
  <2>2. rip \in Int
    BY DEF IInv, TypeOK, CpuType, SWord, Between
  <2>3. QED
    BY <1>2, <1>7, <2>1, <2>2, BackBy DEF RetiredPc
<1> DEFINE ws == Code(u, v, w)
<1>9. /\ ws \in ISA!Insn({15}) /\ Len(ws) = InstructionLength
      /\ ISA!Field(ws) = Register1(u)
  BY <1>2, <1>3, <1>6, <1>7, ISAWhole
<1> HIDE DEF ws
<1>10. ISA!Advance(ws)
  BY <1>7, <1>8, <1>9, ISAWords DEF ISA!Advance
<1>11. QED
  BY <1>2, <1>3, <1>6, <1>9, <1>10 DEF ISA!Halt

\* The turns of the memory and of the port, with the write that the abstract
\* machine has already seen among them.
LEMMA DeviceStutters ==
  ASSUME IInv, MemoryStep \/ SerialStep
  PROVE  UNCHANGED ISA!isaVars
<1>1. /\ cpu_phase' = cpu_phase /\ opcode' = opcode /\ reg' = reg /\ rip' = rip
      /\ rtmp2' = rtmp2
  BY DEF MemoryStep, SerialStep, cpuVars, registers, latches
<1>2. RetiredPc' = RetiredPc
  <2>1. InstructionLength' = InstructionLength
    BY <1>1 DEF InstructionLength
  <2>2. Consumed' = Consumed
    BY <1>1, <2>1 DEF Consumed
  <2>3. QED
    BY <1>1, <2>2 DEF RetiredPc
<1>3. bus \in BusType
  BY DEF IInv, TypeOK
<1>4. CASE MemoryStep
  <2>1. /\ dev = "memory" /\ dev' = "serial" /\ process = "running"
        /\ process' = "running" /\ stdout' = stdout
    BY <1>4 DEF MemoryStep, Turn, serialVars
  <2>2. ~ MemoryThrows
    BY <1>4 DEF MemoryStep, MemorySimulate, MemoryIgnores, MemoryRead, MemoryWrite,
                MemoryThrows, BusActive
  <2>3. RetiredState' = RetiredState
    BY <1>1, <2>1, <2>2 DEF RetiredState
  <2>4. bus'.mode = bus.mode /\ (bus.mode = "Write" => bus' = bus)
    BY <1>3, <1>4 DEF MemoryStep, MemorySimulate, MemoryIgnores, MemoryRead,
                      MemoryWrite, BusType
  <2>5. memory' = RetiredMemory
    BY <1>4, <2>1 DEF MemoryStep, MemorySimulate, MemoryIgnores, MemoryRead,
         MemoryWrite, BusActive, RetiredMemory, Backed
  <2>6. RetiredMemory' = memory'
    BY <2>1 DEF RetiredMemory
  <2>7. RetiredOutput' = RetiredOutput
    BY <2>1, <2>4 DEF RetiredOutput, AtPort, InSerial, PortOffset
  <2>8. QED
    BY <1>1, <1>2, <2>3, <2>5, <2>6, <2>7 DEF ISA!isaVars
<1>5. CASE SerialStep
  <2>1. /\ dev = "serial" /\ dev' = "cpu" /\ process = "running"
        /\ process' = "running" /\ memory' = memory
    BY <1>5 DEF SerialStep, Turn
  <2>2. RetiredState' = RetiredState
    BY <1>1, <2>1 DEF RetiredState
  <2>3. RetiredMemory' = RetiredMemory
    BY <2>1 DEF RetiredMemory
  <2>4. stdout' = RetiredOutput
    BY <1>5, <2>1 DEF SerialStep, SerialSimulate, SerialIgnores, SerialRead,
         SerialWrite, serialVars, BusActive, RetiredOutput
  <2>5. RetiredOutput' = stdout'
    BY <2>1 DEF RetiredOutput
  <2>6. QED
    BY <1>1, <1>2, <2>2, <2>3, <2>4, <2>5 DEF ISA!isaVars
<1>6. QED
  BY <1>4, <1>5

\* The end of the process: the trap of a division is the end of the abstract
\* machine, which the other two have shown it before.
LEMMA StopRefines ==
  ASSUME IInv, History, Exit \/ Abort
  PROVE  ISA!Fault \/ UNCHANGED ISA!isaVars
<1>1. /\ process = "running" /\ UNCHANGED <<bus, memory, stdout, dev>>
      /\ UNCHANGED <<cpu_phase, opcode, reg, rip, rtmp2>>
  BY DEF Exit, Abort, Stop, cpuVars, registers, latches, serialVars
<1>2. RetiredPc' = RetiredPc
  <2>1. InstructionLength' = InstructionLength
    BY <1>1 DEF InstructionLength
  <2>2. Consumed' = Consumed
    BY <1>1, <2>1 DEF Consumed
  <2>3. QED
    BY <1>1, <2>2 DEF RetiredPc
<1>3. RetiredMemory' = RetiredMemory /\ RetiredOutput' = RetiredOutput
  BY <1>1 DEF RetiredMemory, RetiredOutput, AtPort, InSerial, PortOffset, Backed,
              InMemory, Cell
<1>4. MemoryThrows' <=> MemoryThrows
  BY <1>1 DEF MemoryThrows, BusActive, InMemory, Backed
<1>5. CASE Exit
  <2>1. dev = "cpu" /\ cpu_phase = "Halted" /\ dev' = "cpu" /\ cpu_phase' = "Halted"
    BY <1>1, <1>5 DEF Exit, is_running
  <2>2. RetiredState = "exited" /\ RetiredState' = "exited"
    BY <2>1 DEF RetiredState
  <2>3. QED
    BY <1>1, <1>2, <1>3, <2>2 DEF ISA!isaVars
<1>6. CASE dev = "memory" /\ MemoryThrows
  <2>1. cpu_phase # "Halted"
    BY <1>6 DEF MemoryThrows, BusActive, IInv, ModeByPhase, ReadPhases
  <2>2. RetiredState = "aborted" /\ RetiredState' = "aborted"
    BY <1>1, <1>4, <1>6, <2>1 DEF RetiredState
  <2>3. QED
    BY <1>1, <1>2, <1>3, <2>2 DEF ISA!isaVars
<1>7. CASE Abort /\ dev = "cpu" /\ DivideTrap
  <2>1. /\ cpu_phase = "Execute" /\ opcode = 13 /\ reg[2] = 0 /\ process' = "aborted"
    BY <1>7, OpcodeNumbers DEF DivideTrap, Abort, Stop, rsc1
  <2>2. RetiredState = "running" /\ RetiredState' = "aborted"
    BY <1>1, <1>7, <2>1 DEF RetiredState
  <2>3. PICK p \in SWord, u \in UWord, v \in UWord, w \in UWord :
          Executing(p, u, v, w)
    BY DEF History
  <2>4. Whole(p, u, v, w)
    BY <2>1, <2>3 DEF Executing
  <2>5. RetiredPc = p /\ RetiredMemory = memory
    BY <1>7, <2>1, <2>4, RetiredPcAt DEF RetiredMemory
  <2>6. Code(u, v, w) \in ISA!Insn({13})
    BY <2>1, <2>4, <2>5, ISAWhole
  <2>7. ISA!Fault
    BY <1>1, <1>2, <1>3, <2>1, <2>2, <2>6 DEF ISA!Fault, ISA!Running
  <2>8. QED
    BY <2>7
<1>8. QED
  BY <1>5, <1>6, <1>7 DEF Abort

-----------------------------------------------------------------------------
\* The emulator implements the instruction set.

\* The initial states are initial states of the abstract machine.
LEMMA InitRefines ==
  ASSUME Init
  PROVE  ISA!Init
<1>1. /\ bus.mode = "Off" /\ dev = "cpu" /\ process = "running" /\ cpu_phase = "Init"
      /\ stdout = <<>> /\ reg = [r \in 0 .. 15 |-> 0] /\ rtmp2 = 0 /\ rip = 0
  BY DEF Init, BusInit, CpuInit, SerialInit, Register
<1>2. RetiredOutput = <<>>
  BY <1>1 DEF RetiredOutput
<1>3. RetiredState = "running"
  BY <1>1 DEF RetiredState
<1>4. RetiredPc = 0
  <2>1. Consumed = 0
    BY <1>1, ConsumedBy DEF ConsumedTable
  <2>2. QED
    BY <1>1, <2>1 DEF RetiredPc, ToSWord
<1>5. QED
  BY <1>1, <1>2, <1>3, <1>4 DEF ISA!Init

\* Each step of the emulator is one of the abstract machine, or none.
LEMMA StepRefines == IInv /\ History /\ [Next]_vars => [ISA!Step]_ISA!isaVars
<1> SUFFICES ASSUME IInv, History, [Next]_vars PROVE ISA!Step \/ UNCHANGED ISA!isaVars
  OBVIOUS
<1>1. CASE CpuStep
  <2>1. bus' \in BusType
    BY NextIInv DEF IInv, TypeOK
  <2>2. CASE Waits
    BY <1>1, <2>2, WaitStutters
  <2>3. CASE Asks
    BY <1>1, <2>1, <2>3, RequestRefines DEF ISA!Step
  <2>4. CASE Load1 \/ Store0
    BY <1>1, <2>4, LoadRefines, StoreRefines DEF ISA!Step
  <2>5. CASE ExecuteLoadImm \/ ExecuteTransfer \/ ExecuteAlu \/ ExecuteDivMod
    BY <1>1, <2>5, LoadImmRefines, TransferRefines, AluRefines, DivideRefines
    DEF ISA!Step
  <2>6. CASE ExecuteJump \/ ExecuteRestoreTmp \/ ExecuteNothing \/ ExecuteHalt
    BY <1>1, <2>6, ExtendedRefines, HaltRefines DEF ISA!Step
  <2>7. QED
    BY <1>1, <2>2, <2>3, <2>4, <2>5, <2>6
    DEF CpuStep, CpuSimulate, Execute, Waits, Asks
<1>2. CASE MemoryStep \/ SerialStep
  BY <1>2, DeviceStutters
<1>3. CASE Exit \/ Abort
  BY <1>3, StopRefines DEF ISA!Step
<1>4. CASE UNCHANGED vars
  <2>1. /\ UNCHANGED <<bus, memory, stdout, dev, process>>
        /\ UNCHANGED <<cpu_phase, opcode, reg, rip, rtmp2>>
    BY <1>4 DEF vars, cpuVars, registers, latches, serialVars
  <2>2. InstructionLength' = InstructionLength
    BY <2>1 DEF InstructionLength
  <2>3. Consumed' = Consumed
    BY <2>1, <2>2 DEF Consumed
  <2>4. RetiredPc' = RetiredPc
    BY <2>1, <2>3 DEF RetiredPc
  <2>5. RetiredMemory' = RetiredMemory /\ RetiredOutput' = RetiredOutput
    BY <2>1 DEF RetiredMemory, RetiredOutput, AtPort, InSerial, PortOffset, Backed,
                InMemory, Cell
  <2>6. MemoryThrows' <=> MemoryThrows
    BY <2>1 DEF MemoryThrows, BusActive, InMemory, Backed
  <2>7. RetiredState' = RetiredState
    BY <2>1, <2>6 DEF RetiredState
  <2>8. QED
    BY <2>1, <2>4, <2>5, <2>7 DEF ISA!isaVars
<1>5. QED
  BY <1>1, <1>2, <1>3, <1>4 DEF Next

\* In every reachable state the bytes that the processor has latched are those
\* that the devices answer at the addresses of one instruction: although it
\* reads them in different rounds, no program sees half of an old instruction
\* and half of a new one.
THEOREM HistoryCorrect == Spec => []History
<1>1. Init => History
  BY InitBegun, BegunHistory
<1>2. QED
  BY <1>1, HistoryStep, Invariance, PTL DEF Spec

\* The emulator implements the instruction set: for every memory, address map
\* and program, what the rounds of main(), the phases of CPU::simulate() with
\* its two missing breaks, and the turns of Memory and SerialConsole do to the
\* registers, the memory and the output, is what whole instructions do that
\* execute one after the other.
THEOREM Refinement == Spec => ImplementsISA
<1>1. Init => ISA!Init
  BY InitRefines
<1>2. QED
  BY <1>1, StepRefines, HistoryCorrect, Invariance, PTL DEF Spec, ImplementsISA, ISA!Spec
-----------------------------------------------------------------------------
(* What the processor executes. *)

\* A byte of the program file, widened with its sign to a word, comes out of
\* the word unchanged.
LEMMA ByteOfWord ==
  ASSUME NEW b \in Byte
  PROVE  ToByte(ToUWord(ToChar(b))) = b
<1>1. b \in Int /\ 0 <= b /\ b <= 255
  BY DEF Byte, Between
<1>2. CASE b < 128
  <2>1. ToChar(b) = b
    BY <1>1, <1>2 DEF ToChar
  <2>2. QED
    BY <1>1, <2>1 DEF ToUWord, ToByte
<1>3. CASE b >= 128
  <2>1. ToChar(b) = b - 256
    BY <1>1, <1>3 DEF ToChar
  <2>2. ToUWord(b - 256) = b + 65280
    BY <1>1, <1>3 DEF ToUWord
  <2>3. QED
    BY <1>1, <1>3, <2>1, <2>2 DEF ToByte
<1>4. QED
  BY <1>1, <1>2, <1>3

\* An address that the memory has is answered by the memory.
LEMMA BackedAnswers ==
  ASSUME NEW x, Backed(x), NEW left, NEW w, Answers(memory, x, left, w)
  PROVE  w = memory[Cell(x)]
BY DEF Backed, Answers

\* The memory has these bytes of a program file from address a on.
Holds(a, bytes) ==
  \A j \in 1 .. Len(bytes) :
    Backed(a + j - 1) /\ memory[Cell(a + j - 1)] = ToUWord(ToChar(bytes[j]))

\* The bytes are those of one instruction.
OneInstruction(bytes) ==
  /\ bytes \in Seq(Byte) /\ Len(bytes) >= 1
  /\ LowNibble(bytes[1]) = TransferRegister => Len(bytes) >= 2
  /\ LowNibble(bytes[1]) \in LongOps => Len(bytes) >= 3

\* Where the memory holds the bytes of an instruction, the processor executes
\* that instruction, whatever it has executed before.
THEOREM ExecutesBytes ==
  ASSUME IInv, History, cpu_phase \in {"Load0", "Execute"},
         NEW bytes, OneInstruction(bytes), Holds(ToUWord(RetiredPc), bytes)
  PROVE  /\ opcode = LowNibble(bytes[1])
         /\ opcode \in LongOps => rAddress = 256 * bytes[2] + bytes[3]
         /\ opcode \notin LongOps => rR0 = HighNibble(bytes[1])
         /\ opcode = TransferRegister => rR1 = LowNibble(bytes[2])
<1>1. PICK p \in SWord, u \in UWord, v \in UWord, w \in UWord :
        Fetching(p, u, v) /\ Executing(p, u, v, w)
  BY DEF History
<1>2. /\ Whole(p, u, v, w)
      /\ opcode \in LongOps => rAddress = Operand(v, w)
      /\ opcode \notin LongOps => rR0 = Register1(u)
      /\ opcode = TransferRegister => rR1 = LowNibble(ToByte(v))
  BY <1>1 DEF Executing
<1>3. RetiredPc = p /\ p \in Int
  BY <1>2, RetiredPcAt DEF SWord, Between
<1>4. bytes \in Seq(Byte) /\ Len(bytes) \in Nat /\ Len(bytes) >= 1
  BY DEF OneInstruction
<1>5. ASSUME NEW j \in 1 .. Len(bytes), NEW left, NEW x, Answers(memory, At(p, j - 1), left, x)
      PROVE  ToByte(x) = bytes[j]
  <2>1. /\ Backed(ToUWord(p) + j - 1)
        /\ memory[Cell(ToUWord(p) + j - 1)] = ToUWord(ToChar(bytes[j]))
    BY <1>3 DEF Holds
  <2>2. j \in Int /\ j >= 1
    <3>1. Len(bytes) \in Nat
      BY <1>4
    <3>2. QED
      BY <3>1
  <2>3. At(p, j - 1) = ToUWord(p) + j - 1
    <3>1. ToUWord(p) + j - 1 <= MemoryEnd
      BY <2>1 DEF Backed, InMemory
    <3>2. MemoryEnd \in Int /\ MemoryEnd <= 65535
      BY MemoryAssumption DEF UWord, Between
    <3>3. \A q, i \in Int : i >= 0 /\ ToUWord(q) + i <= 65535 => ToUWord(q + i) = ToUWord(q) + i
      BY DEF ToUWord
    <3>4. ToUWord(p) \in Int /\ j - 1 \in Int /\ j - 1 >= 0
      BY <1>3, <2>2 DEF ToUWord
    <3>5. ToUWord(p) + (j - 1) <= 65535
      BY <2>2, <3>1, <3>2, <3>4
    <3>6. ToUWord(p + (j - 1)) = ToUWord(p) + (j - 1)
      BY <1>3, <3>3, <3>4, <3>5
    <3>7. QED
      BY <2>2, <3>4, <3>6 DEF At
  <2>4. x = ToUWord(ToChar(bytes[j]))
    BY <1>5, <2>1, <2>3, BackedAnswers
  <2>5. bytes[j] \in Byte
    BY <1>4
  <2>6. QED
    BY <2>4, <2>5, ByteOfWord
<1>6. ToByte(u) = bytes[1]
  <2>1. Answers(memory, At(p, 1 - 1), 0, u)
    BY <1>2 DEF Whole, One
  <2>2. QED
    BY <1>4, <1>5, <2>1
<1>7. opcode = LowNibble(bytes[1])
  BY <1>2, <1>6 DEF Whole
<1>8. opcode \in LongOps \union {TransferRegister} => ToByte(v) = bytes[2]
  <2> SUFFICES ASSUME opcode \in LongOps \union {TransferRegister} PROVE ToByte(v) = bytes[2]
    OBVIOUS
  <2>1. Answers(memory, At(p, 2 - 1), u, v)
    BY <1>2 DEF Whole, Two
  <2>2. 2 \in 1 .. Len(bytes)
    BY <1>4, <1>7 DEF OneInstruction
  <2>3. QED
    BY <1>5, <2>1, <2>2
<1>9. opcode \in LongOps => ToByte(w) = bytes[3]
  <2> SUFFICES ASSUME opcode \in LongOps PROVE ToByte(w) = bytes[3]
    OBVIOUS
  <2>1. Answers(memory, At(p, 3 - 1), v, w)
    BY <1>2 DEF Whole, Three
  <2>2. 3 \in 1 .. Len(bytes)
    BY <1>4, <1>7 DEF OneInstruction
  <2>3. QED
    BY <1>5, <2>1, <2>2
<1>10. QED
  BY <1>2, <1>6, <1>7, <1>8, <1>9 DEF Operand, Register1

=============================================================================
