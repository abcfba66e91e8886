------------------------------- MODULE CS8Cpu -------------------------------
(***************************************************************************)
(* The processor (class CPU in cpu.hxx).  simulate() is one switch over    *)
(* cpu_phase, so every phase is an action here.  Two of its cases end      *)
(* without a break and run into the next one, and each action is the whole *)
(* path through the switch:                                                *)
(*                                                                         *)
(*   Load1   runs on into Execute, which ends the load;                    *)
(*   Execute runs on into Store0 for every instruction that is not a       *)
(*           store: the bus is switched to Write with whatever address and *)
(*           data are still on it.  We call that the ghost write.          *)
(*                                                                         *)
(* Store1 runs on into Halted, which does nothing.                         *)
(***************************************************************************)
EXTENDS CS8Bus

VARIABLES
  cpu_phase,              \* where simulate() resumes
  reg,                    \* the sixteen registers of the array `registers'
  rtmp2, rip,             \* the shadow of rtmp, the instruction pointer
  rOP, rR0, rR1,          \* the instruction bytes
  rAddress, rValue,       \* the operand word, the word to be loaded
  opcode

registers == <<reg, rtmp2, rip>>
latches   == <<rOP, rR0, rR1, rAddress, rValue, opcode>>
cpuVars   == <<cpu_phase, registers, latches>>

\* Positions in `registers'.
Register == 0 .. 15
rdst == 0
rsc0 == 1
rsc1 == 2
ridx == 3
rtmp == 4
rsp0 == 5
rsp1 == 6
rln  == 13
rCNT == 14
rBSE == 15

\* enum class Opcode.
Unknown == -1
LoadImm == 0
LoadDirect == 1
StoreDirect == 2
LoadIndexed == 3
StoreIndexed == 4
TransferRegister == 5
Push0 == 6
Push1 == 7
Pop0 == 8
Pop1 == 9
Add == 10
Sub == 11
Mul == 12
DivMod == 13
NandOp == 14
Extended == 15

LoadOps  == {LoadDirect, LoadIndexed, Pop0, Pop1}
StoreOps == {StoreDirect, StoreIndexed, Push0, Push1}
AluOps   == {Add, Sub, Mul, NandOp}

Phases == {"Init", "Fetch0", "Fetch1", "Decode", "GetData0", "GetData1",
           "GetData2", "GetData3", "Prepare", "Load0", "Load1", "Execute",
           "Store0", "Store1", "Halted"}

CpuType ==
  /\ cpu_phase \in Phases
  /\ reg \in [Register -> SWord]
  /\ rtmp2 \in SWord /\ rip \in SWord
  /\ rOP \in Byte /\ rR0 \in Byte /\ rR1 \in Byte
  /\ rAddress \in UWord /\ rValue \in UWord
  /\ opcode \in {Unknown} \union Register

\* make_shared<CPUType>() value-initialises the object: the members without
\* an initialiser of their own are zero.
CpuInit ==
  /\ cpu_phase = "Init"
  /\ reg = [r \in Register |-> 0]
  /\ rtmp2 = 0 /\ rip = 0
  /\ rOP = 0 /\ rR0 = 0 /\ rR1 = 0
  /\ rAddress = 0 /\ rValue = 0
  /\ opcode = Unknown

is_running == cpu_phase # "Halted"

-----------------------------------------------------------------------------
(* Fetch and decode. *)

Reset ==
  /\ cpu_phase = "Init"
  /\ rip' = 0
  /\ cpu_phase' = "Fetch0"
  /\ UNCHANGED <<bus, reg, rtmp2, latches>>

\* set_bus_address(rip++), the same at the three places an instruction byte
\* is requested.
RequestByte(from, to) ==
  /\ cpu_phase = from
  /\ StartRead(ToUWord(rip))
  /\ rip' = ToSWord(rip + 1)
  /\ cpu_phase' = to
  /\ UNCHANGED <<reg, rtmp2, latches>>

Fetch0   == RequestByte("Fetch0", "Fetch1")
GetData0 == RequestByte("GetData0", "GetData1")
GetData2 == RequestByte("GetData2", "GetData3")

Fetch1 ==
  /\ cpu_phase = "Fetch1"
  /\ rOP' = ToByte(bus.data)
  /\ EndReadDisown
  /\ cpu_phase' = "Decode"
  /\ UNCHANGED <<registers, rR0, rR1, rAddress, rValue, opcode>>

Decode ==
  LET op == LowNibble(rOP) IN
  /\ cpu_phase = "Decode"
  /\ opcode' = op
  /\ rR0' = HighNibble(rOP)
  /\ cpu_phase' = IF op \in {LoadImm, LoadDirect, StoreDirect} THEN "GetData0"
                  ELSE IF op = TransferRegister THEN "GetData2"
                  ELSE "Prepare"
  /\ UNCHANGED <<bus, registers, rOP, rR1, rAddress, rValue>>

GetData1 ==
  /\ cpu_phase = "GetData1"
  /\ rR0' = ToByte(bus.data)
  /\ EndRead
  /\ cpu_phase' = "GetData2"
  /\ UNCHANGED <<registers, rOP, rR1, rAddress, rValue, opcode>>

GetData3 ==
  /\ cpu_phase = "GetData3"
  /\ rR1' = ToByte(bus.data)
  /\ EndReadDisown
  /\ cpu_phase' = "Prepare"
  /\ UNCHANGED <<registers, rOP, rR0, rAddress, rValue, opcode>>

\* Mutant: the bytes are not cut down to register numbers.
PrepareUnmasked ==
  /\ cpu_phase = "Prepare"
  /\ rAddress' = 256 * rR0 + rR1
  /\ rValue' = rAddress'
  /\ cpu_phase' = IF opcode \in LoadOps THEN "Load0" ELSE "Execute"
  /\ UNCHANGED <<bus, registers, rOP, rR0, rR1, opcode>>

\* rR1 is what the last two- or three-byte instruction left when this one is
\* a single byte long.
Prepare ==
  /\ cpu_phase = "Prepare"
  /\ rAddress' = 256 * rR0 + rR1
  /\ rValue' = rAddress'
  /\ rR0' = LowNibble(rR0)
  /\ rR1' = LowNibble(rR1)
  /\ cpu_phase' = IF opcode \in LoadOps THEN "Load0" ELSE "Execute"
  /\ UNCHANGED <<bus, registers, rOP, opcode>>

-----------------------------------------------------------------------------
(* Memory operands. *)

LoadAddress ==
  CASE opcode = LoadDirect  -> rAddress
    [] opcode = LoadIndexed -> ToUWord(reg[rBSE] + reg[ridx])
    [] opcode = Pop0        -> ToUWord(reg[rsp0])
    [] opcode = Pop1        -> ToUWord(reg[rsp1])

StoreAddress ==
  CASE opcode = StoreDirect  -> rAddress
    [] opcode = StoreIndexed -> ToUWord(rAddress + reg[ridx])
    [] opcode = Push0        -> ToUWord(reg[rsp0])
    [] opcode = Push1        -> ToUWord(reg[rsp1])

Load0 ==
  /\ cpu_phase = "Load0"
  /\ StartRead(LoadAddress)
  /\ cpu_phase' = "Load1"
  /\ UNCHANGED <<registers, latches>>

\* Mutant: the data is driven outside of the switch over the stores.
DriveStoreAlways ==
  /\ bus' = [bus EXCEPT !.mode = "Write", !.data = ToUWord(reg[rR0]),
                        !.address = IF opcode \in StoreOps THEN StoreAddress ELSE @]
  /\ cpu_phase' = "Store1"

\* The case Store0 of the switch.  Only a store sets the address and the
\* data; the owner of the bus is never set.
DriveStore ==
  /\ bus' = IF opcode \in StoreOps
            THEN [bus EXCEPT !.mode = "Write", !.address = StoreAddress,
                             !.data = ToUWord(reg[rR0])]
            ELSE [bus EXCEPT !.mode = "Write"]
  /\ cpu_phase' = "Store1"

Store0 ==
  /\ cpu_phase = "Store0"
  /\ DriveStore
  /\ UNCHANGED <<registers, latches>>

\* Mutants: the data stays on the bus; the bus stays on.
Store1KeepsData ==
  /\ cpu_phase = "Store1"
  /\ bus' = [bus EXCEPT !.mode = "Off", !.address = 0]
  /\ cpu_phase' = "Fetch0"
  /\ UNCHANGED <<registers, latches>>

Store1StaysOn ==
  /\ cpu_phase = "Store1"
  /\ bus' = [bus EXCEPT !.address = 0, !.data = 0]
  /\ cpu_phase' = "Fetch0"
  /\ UNCHANGED <<registers, latches>>

Store1 ==
  /\ cpu_phase = "Store1"
  /\ bus' = [bus EXCEPT !.mode = "Off", !.address = 0, !.data = 0]
  /\ cpu_phase' = "Fetch0"
  /\ UNCHANGED <<registers, latches>>

-----------------------------------------------------------------------------
(* Execute.  Every action but ExecuteStore and ExecuteHalt goes on with    *)
(* the code of Store0.                                                     *)

\* Mutant: registers wider than sixteen bits.
SetTmpWide(value) ==
  /\ rtmp2' = reg[rtmp]
  /\ reg' = [reg EXCEPT ![rtmp] = value]

\* rtmp2 = rtmp; rtmp = value.
SetTmp(value) ==
  /\ rtmp2' = reg[rtmp]
  /\ reg' = [reg EXCEPT ![rtmp] = ToSWord(value)]

Load1 ==
  /\ cpu_phase = "Load1" /\ opcode \in LoadOps
  /\ rValue' = bus.data
  /\ SetTmp(bus.data)
  /\ DriveStore
  /\ UNCHANGED <<rip, rOP, rR0, rR1, rAddress, opcode>>

ExecuteLoadImm ==
  /\ cpu_phase = "Execute" /\ opcode = LoadImm
  /\ rR0' = rtmp
  /\ SetTmp(rValue)
  /\ DriveStore
  /\ UNCHANGED <<rip, rOP, rR1, rAddress, rValue, opcode>>

ExecuteStore ==
  /\ cpu_phase = "Execute" /\ opcode \in StoreOps
  /\ rR0' = IF opcode = StoreIndexed THEN rR0 ELSE rtmp
  /\ cpu_phase' = "Store0"
  /\ UNCHANGED <<bus, registers, rOP, rR1, rAddress, rValue, opcode>>

\* Mutant: a transfer to rtmp leaves the shadow alone.
ExecuteTransferNoShadow ==
  /\ cpu_phase = "Execute" /\ opcode = TransferRegister
  /\ reg' = [reg EXCEPT ![rR1] = reg[rR0]]
  /\ DriveStore
  /\ UNCHANGED <<rtmp2, rip, latches>>

ExecuteTransfer ==
  /\ cpu_phase = "Execute" /\ opcode = TransferRegister
  /\ rtmp2' = IF rR1 = rtmp THEN reg[rtmp] ELSE rtmp2
  /\ reg' = [reg EXCEPT ![rR1] = reg[rR0]]
  /\ DriveStore
  /\ UNCHANGED <<rip, latches>>

Alu(op, a, b) ==
  CASE op = Add    -> ToSWord(a + b)
    [] op = Sub    -> ToSWord(a - b)
    [] op = Mul    -> ToSWord(a * b)
    [] op = NandOp -> Nand(a, b)

ExecuteAlu ==
  /\ cpu_phase = "Execute" /\ opcode \in AluOps
  /\ reg' = [reg EXCEPT ![rdst] = Alu(opcode, reg[rsc0], reg[rsc1])]
  /\ DriveStore
  /\ UNCHANGED <<rtmp2, rip, latches>>

\* On the modelled target the division instruction traps when rsc1 is zero.
DivideTrap == cpu_phase = "Execute" /\ opcode = DivMod /\ reg[rsc1] = 0

ExecuteDivMod ==
  /\ cpu_phase = "Execute" /\ opcode = DivMod /\ reg[rsc1] # 0
  /\ reg' = [reg EXCEPT ![rdst] = ToSWord(Quotient(reg[rsc0], reg[rsc1])),
                        ![rtmp] = ToSWord(Remainder(reg[rsc0], reg[rsc1]))]
  /\ rtmp2' = reg[rtmp]
  /\ DriveStore
  /\ UNCHANGED <<rip, latches>>

\* rR0 selects the extended instruction: 0 jle, 1 jmp, 2 rtm, the others none.
JumpTaken ==
  /\ opcode = Extended
  /\ \/ rR0 = 0 /\ reg[rCNT] <= 0
     \/ rR0 = 1 /\ reg[rtmp] # -1

\* Mutant: rip = rtmp before rln = rip.
ExecuteJumpLinksLate ==
  /\ cpu_phase = "Execute" /\ JumpTaken
  /\ reg' = [reg EXCEPT ![rln] = reg[rtmp]]
  /\ rip' = reg[rtmp]
  /\ DriveStore
  /\ UNCHANGED <<rtmp2, latches>>

ExecuteJump ==
  /\ cpu_phase = "Execute" /\ JumpTaken
  /\ reg' = [reg EXCEPT ![rln] = rip]
  /\ rip' = reg[rtmp]
  /\ DriveStore
  /\ UNCHANGED <<rtmp2, latches>>

ExecuteHalt ==
  /\ cpu_phase = "Execute" /\ opcode = Extended /\ rR0 = 1 /\ reg[rtmp] = -1
  /\ cpu_phase' = "Halted"
  /\ UNCHANGED <<bus, registers, latches>>

ExecuteRestoreTmp ==
  /\ cpu_phase = "Execute" /\ opcode = Extended /\ rR0 = 2
  /\ reg' = [reg EXCEPT ![rtmp] = rtmp2]
  /\ rtmp2' = reg[rtmp]
  /\ DriveStore
  /\ UNCHANGED <<rip, latches>>

\* Mutant: an extended instruction that is not defined returns from simulate().
ExecuteNothingReturns ==
  /\ cpu_phase = "Execute" /\ opcode = Extended
  /\ \/ rR0 = 0 /\ reg[rCNT] > 0 /\ DriveStore
     \/ rR0 > 2 /\ UNCHANGED <<bus, cpu_phase>>
  /\ UNCHANGED <<registers, latches>>

ExecuteNothing ==
  /\ cpu_phase = "Execute" /\ opcode = Extended
  /\ \/ rR0 = 0 /\ reg[rCNT] > 0
     \/ rR0 > 2
  /\ DriveStore
  /\ UNCHANGED <<registers, latches>>

Execute ==
  \/ ExecuteLoadImm
  \/ ExecuteStore
  \/ ExecuteTransfer
  \/ ExecuteAlu
  \/ ExecuteDivMod
  \/ ExecuteJump
  \/ ExecuteHalt
  \/ ExecuteRestoreTmp
  \/ ExecuteNothing

CpuSimulate ==
  \/ Reset
  \/ Fetch0 \/ Fetch1
  \/ Decode
  \/ GetData0 \/ GetData1 \/ GetData2 \/ GetData3
  \/ Prepare
  \/ Load0 \/ Load1
  \/ Execute
  \/ Store0 \/ Store1
=============================================================================
