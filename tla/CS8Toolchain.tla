---------------------------- MODULE CS8Toolchain ----------------------------
(***************************************************************************)
(* The whole system, from a program text to what it prints: the front end  *)
(* reads the text, the assembler makes out.elf of its tree, the emulator   *)
(* executes the file.  out.elf is all that passes from the assembler to    *)
(* the emulator.  Neither shares a definition of the instruction set with  *)
(* the other one: the assembler has the bytes in AsmTree.h, the emulator   *)
(* the opcodes in cpu.hxx.                                                 *)
(***************************************************************************)
EXTENDS CS8Assembler

CONSTANTS
  Disk, Inputs, Home, MaxOpen,
  MemorySize, MemoryBegin, MemoryEnd, SerialBegin, SerialEnd,
  Characters, MaxStdin, MaxStdout

VARIABLES
  status, input, cwd, cwds, buffers, opened, text, condition, buffer,
  expect, row, number, macro, rows,
  bus, cpu_phase, reg, rtmp2, rip, rOP, rR0, rR1, rAddress, rValue, opcode,
  memory, stdin, stdout, dev,
  process                 \* of the emulator, "off" before it is started

\* The parts, with the theorems about them.
F == INSTANCE CS8FrontendProofs
E == INSTANCE CS8EmulatorProofs WITH Programs <- {}

\* main() gives the memory the addresses from 0 on, with not more words than
\* addresses.
ASSUME MachineAssumption ==
  /\ E!MemoryAssumption /\ E!SerialAssumption /\ E!AddressMapAssumption /\ E!PortAssumption
  /\ MemoryBegin = 0 /\ MemorySize <= MemoryEnd + 1

ASSUME ReaderAssumption ==
  /\ F!IncludeAssumption /\ F!ScannerAssumption
  /\ Inputs \subseteq DOMAIN Sources

readerVars  == <<status, input, cwd, cwds, buffers, opened, text, condition, buffer,
                 expect, row, number, macro, rows>>
machineVars == <<bus, cpu_phase, reg, rtmp2, rip, rOP, rR0, rR1, rAddress,
                 rValue, opcode, memory, stdin, stdout, dev, process>>
toolVars    == <<readerVars, asmVars, machineVars>>

ToolInit ==
  /\ F!FrontInit
  /\ stage = "parse" /\ file = input
  /\ MacroInit /\ TreeInit /\ EmitInit
  /\ E!BusInit /\ E!CpuInit /\ E!SerialInit
  /\ memory = [c \in E!Cells |-> 0]
  /\ dev = "cpu" /\ process = "off"

\* Where assemble() is when invoke_parse() is there.
StageAt ==
  [start  |-> "parse",  reading |-> "parse",
   parsed |-> "expand", refused |-> "refused",
   exited |-> "terminated", terminated |-> "terminated"]

Parse ==
  /\ stage = "parse"
  /\ F!FrontNext
  /\ stage' = StageAt[status']
  /\ UNCHANGED <<file, macroVars, treeVars, emitVars, machineVars>>

Assemble == Next /\ UNCHANGED <<readerVars, machineVars>>

\* The emulator is started on the file.
Start ==
  /\ stage = "written" /\ process = "off"
  /\ memory' = E!initialize_memory(outfile.segments)
  /\ process' = "running"
  /\ UNCHANGED <<readerVars, asmVars, bus, cpu_phase, reg, rtmp2, rip, rOP, rR0, rR1,
                 rAddress, rValue, opcode, stdin, stdout, dev>>

Run == E!Next /\ UNCHANGED <<readerVars, asmVars>>

ToolNext == Parse \/ Assemble \/ Start \/ Run

ToolSpec == ToolInit /\ [][ToolNext]_toolVars /\ WF_toolVars(ToolNext)

-----------------------------------------------------------------------------
(***************************************************************************)
(* What the processor does for a mnemonic: the opcode that its switch      *)
(* takes and, for an extended instruction, the number that selects it.     *)
(***************************************************************************)
OpcodeOf(name) ==
  CASE name = "limm" -> E!LoadImm       [] name = "lmem"   -> E!LoadDirect
    [] name = "smem" -> E!StoreDirect   [] name = "lidx"   -> E!LoadIndexed
    [] name = "sidx" -> E!StoreIndexed  [] name = "tr"     -> E!TransferRegister
    [] name = "psh0" -> E!Push0         [] name = "psh1"   -> E!Push1
    [] name = "pop0" -> E!Pop0          [] name = "pop1"   -> E!Pop1
    [] name = "add"  -> E!Add           [] name = "sub"    -> E!Sub
    [] name = "mul"  -> E!Mul           [] name = "divmod" -> E!DivMod
    [] name = "nand" -> E!NandOp        [] OTHER           -> E!Extended

Extension == [jle |-> 0, jmp |-> 1, rtm |-> 2]

\* The address that an instruction of the program has in the memory.
Placed(k) == out_sections[SectionAt(k)].addr + OffsetAt(k)

Decoded(n) ==
  /\ opcode = OpcodeOf(n.name)
  /\ n.name \in DOMAIN AddressOps  => rAddress = n.operand
  /\ n.name \in DOMAIN TransferOps => rR0 = n.source /\ rR1 = n.target
  /\ n.name \in DOMAIN StackOps    => rR0 = n.source
  /\ n.name \in DOMAIN Extension   => rR0 = Extension[n.name]

\* Two segments that no cell is loaded from twice.
Apart(s, t) ==
  s.address + Len(s.bytes) <= t.address \/ t.address + Len(t.bytes) <= s.address

\* A file that the emulator can load as it was meant: every section is in it
\* and has its place in the memory to itself.
Loadable ==
  /\ DOMAIN out_sections \subseteq Range(SectionOrder)
  /\ \A i \in DOMAIN outfile.segments :
       /\ E!Fits(outfile.segments[i])
       /\ \A j \in DOMAIN outfile.segments \ {i} : Apart(outfile.segments[i], outfile.segments[j])

\* The program has not overwritten this instruction.
Intact(k) ==
  \A c \in Placed(k) .. Placed(k) + get_length(tree[k].name) - 1 :
    memory[c] = E!LoadedCell(outfile.segments, c)

\* A processor that executes what is at the address of an instruction of the
\* program, and finds it there as it was loaded, executes that instruction.
ExecutesProgram ==
  process = "running" /\ dev = "cpu" /\ cpu_phase \in {"Execute", "Load0"} /\ Loadable =>
    \A k \in DOMAIN tree :
      tree[k].kind = "instruction" /\ Placed(k) = ToUWord(E!RetiredPc) /\ Intact(k) =>
        Decoded(tree[k])
=============================================================================
