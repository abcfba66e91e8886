------------------------ MODULE CS8ToolchainProofs ------------------------
(***************************************************************************)
(* Text, file and machine together: the processor executes the program     *)
(* that was written.                                                       *)
(*                                                                         *)
(* Each part keeps the invariant of its own module while it runs, and      *)
(* hands over what the next one begins with: the front end typed lines,    *)
(* the assembler the segments of a file that has every instruction's bytes *)
(* at its place, the loader a memory of words.  ToolInv says so.  What is  *)
(* then left is arithmetic: the bytes of emit() in AsmTree.h, widened,     *)
(* fetched and cut again, select in the switch of cpu.hxx the case of the  *)
(* instruction that they were emitted for.                                 *)
(***************************************************************************)
EXTENDS CS8Toolchain, CS8AssemblerProofs

-----------------------------------------------------------------------------
(* The theorems about the parts, for the constants of the whole. *)

\* The assumptions of the emulator's modules hold.
LEMMA MachineParts ==
  /\ E!MemoryAssumption /\ E!SerialAssumption /\ E!AddressMapAssumption /\ E!PortAssumption
  /\ E!ProgramsAssumption
BY MachineAssumption DEF E!ProgramsAssumption

\* The front end begins with its invariant.
LEMMA ReaderBegins == F!FrontInit => F!FrontInv
BY ReaderAssumption, F!FrontBegins DEF F!FrontBegins

\* And keeps it.
LEMMA ReaderStep == F!FrontInv /\ [F!FrontNext]_F!frontVars => F!FrontInv'
BY ReaderAssumption, F!FrontStep DEF F!FrontStep

\* It hands over typed lines.
LEMMA ReaderTypes == F!FrontInv => F!FrontTypeOK
BY ReaderAssumption, F!FrontInvSuffices DEF F!FrontInvSuffices

\* The emulator begins with its invariant and with nothing read.
LEMMA MachineBegins == E!Begun => E!IInv /\ E!History
BY MachineParts, E!BegunIInv, E!BegunHistory DEF E!BegunIInv, E!BegunHistory

\* And keeps both.
LEMMA MachineStep == E!IInv /\ E!History /\ [E!Next]_E!vars => E!IInv' /\ E!History'
BY MachineParts, E!NextIInv, E!HistoryStep DEF E!NextIInv, E!HistoryStep

\* The bytes of any segments become words.
LEMMA MachineLoads ==
  ASSUME NEW p \in Seq([address : Int, bytes : Seq(Byte)])
  PROVE  E!initialize_memory(p) \in [E!Cells -> E!UWord]
<1>1. Byte = E!Byte
  BY DEF Byte, Between, E!Byte, E!Between
<1>2. p \in Seq([address : Int, bytes : Seq(E!Byte)])
  BY <1>1
<1>3. QED
  BY <1>2, MachineParts, E!LoadedType DEF E!LoadedType

\* Where the memory holds the bytes of an instruction, it executes that one.
LEMMA MachineExecutes ==
  ASSUME E!IInv, E!History, cpu_phase \in {"Load0", "Execute"},
         NEW bytes, E!OneInstruction(bytes), E!Holds(E!ToUWord(E!RetiredPc), bytes)
  PROVE  /\ opcode = E!LowNibble(bytes[1])
         /\ opcode \in E!LongOps => rAddress = 256 * bytes[2] + bytes[3]
         /\ opcode \notin E!LongOps => rR0 = E!HighNibble(bytes[1])
         /\ opcode = E!TransferRegister => rR1 = E!LowNibble(bytes[2])
BY MachineParts, E!ExecutesBytes DEF E!ExecutesBytes

-----------------------------------------------------------------------------
(* What the file has. *)

SegmentOf(s) == [address |-> out_sections[s].addr, bytes |-> out_sections[s].data]

\* Its segments are typed, and every section that has a place in the order has
\* its segment.
LEMMA SegmentsOfSections ==
  ASSUME TypeInv
  PROVE  /\ segments \in Seq([address : Int, bytes : Seq(Byte)])
         /\ \A s \in DOMAIN out_sections \cap Range(SectionOrder) :
              \E i \in DOMAIN segments : segments[i] = SegmentOf(s)
<1>1. PICK names : names = InOrder(SectionOrder, DOMAIN out_sections)
  OBVIOUS
<1>2. /\ names \in Seq(STRING) /\ Range(names) = Range(SectionOrder) \cap DOMAIN out_sections
      /\ \A i \in DOMAIN names : names[i] \in DOMAIN out_sections
  BY <1>1, SectionOrderAssumption, InOrderMembers
<1>3. segments = [i \in DOMAIN names |-> SegmentOf(names[i])]
  BY <1>1, Zenon DEF segments, SegmentOf
<1>4. \A s \in DOMAIN out_sections : SegmentOf(s) \in [address : Int, bytes : Seq(Byte)]
  BY DEF TypeInv, OutInv, SectionType, SegmentOf
<1>5. PICK n \in Nat : DOMAIN names = 1 .. n
  BY <1>2
<1>6. segments \in Seq([address : Int, bytes : Seq(Byte)])
  <2> DEFINE segment == [address : Int, bytes : Seq(Byte)]
  <2>1. \A i \in 1 .. n : SegmentOf(names[i]) \in segment
    BY <1>2, <1>4, <1>5
  <2> HIDE DEF segment
  <2>2. segments = [i \in 1 .. n |-> SegmentOf(names[i])]
    BY <1>3, <1>5
  <2>3. segments \in Seq(segment)
    BY <2>1, <2>2
  <2>4. QED
    BY <2>3 DEF segment
<1>7. ASSUME NEW s \in DOMAIN out_sections \cap Range(SectionOrder)
      PROVE  \E i \in DOMAIN segments : segments[i] = SegmentOf(s)
  <2>1. PICK i \in DOMAIN names : names[i] = s
    BY <1>2 DEF Range
  <2>2. QED
    BY <1>3, <2>1
<1>8. QED
  BY <1>6, <1>7

\* The stages of the assembler between those of the parser and the file.
LEMMA NextStages ==
  ASSUME Next
  PROVE  /\ stage \notin {"parse", "refused", "written", "terminated"} /\ stage' # "parse"
         /\ stage' = "written" => Save
<1>1. CASE ExpandMacros
  BY <1>1 DEF ExpandMacros, SkipLine, ReplaceInvocation, BadInvocation, EndPass, InPass, astVars, Terminate
<1>2. CASE Transform
  BY <1>2 DEF Transform, TranslateLines, NumberLabel, NumberInstruction, NumberSection, NumberDirective,
              NumberThrows, NumberEnd, ResolveLabels, Numbering, Advance, astVars, Terminate
<1>3. CASE Emit
  <2>1. CASE OpenOutput \/ EmitSymbols \/ Save
    BY <2>1 DEF OpenOutput, EmitSymbols, Save, Terminate
  <2>2. CASE EmitStep
    BY <2>2 DEF EmitStep, EmitInstruction, EmitByte, EmitWord, EmitBytes, EmitEntrypoint, EmitSection,
                EmitSecinfo, EmitGlobal, EmitWeak, EmitExtern, EmitExport, EmitNothing, EmitThrows,
                EmitDirective, Emitting, Terminate
  <2>3. QED
    BY <1>3, <2>1, <2>2 DEF Emit
<1>4. QED
  BY <1>1, <1>2, <1>3 DEF Next

-----------------------------------------------------------------------------
(* The invariant of the whole. *)

ToolInv ==
  /\ TypeInv /\ PlaceInv /\ OperandInv
  /\ stage = "parse" => F!FrontInv /\ Begin
  /\ stage = "written" => outfile.segments = segments
  /\ process = "off" => E!BusInit /\ E!CpuInit /\ E!SerialInit /\ dev = "cpu"
  /\ process # "off" => stage = "written" /\ E!IInv /\ E!History

\* What the parser hands over.
Handed == lines \in Seq(LineType) /\ macros \in Seq(MacroType) /\ status \in DOMAIN StageAt

\* The lines that the parser makes are those that the assembler takes.
LEMMA ReaderLines == F!FrontInv => Handed
<1>1. NameOrNone = F!NameOrNone
  BY DEF NameOrNone, F!NameOrNone
<1>2. ParamType = F!ParamType
  BY <1>1, Zenon DEF ParamType, F!ParamType
<1>3. LineType = F!LineType
  BY <1>2, Zenon DEF LineType, F!LineType
<1>4. MacroType = F!MacroType
  BY <1>3, Zenon DEF MacroType, F!MacroType
<1>5. F!FrontTypeOK => status \in DOMAIN StageAt
  BY DEF F!FrontTypeOK, F!TypeOK, F!Ends, StageAt
<1>6. F!FrontTypeOK => lines \in Seq(F!LineType) /\ macros \in Seq(F!MacroType)
  BY DEF F!FrontTypeOK
<1>7. QED
  BY <1>3, <1>4, <1>5, <1>6, ReaderTypes DEF Handed

\* The assembler has begun nothing while there is none, and ends with nothing
\* when the parser does.
LEMMA BeginInvs == Begin => TypeInv /\ PlaceInv /\ OperandInv
BY BeginTypeInv, BeginPlaceInv, BeginOperandInv

\* Reading a text.
LEMMA ParseToolInv == ToolInv /\ Parse => ToolInv'
<1> SUFFICES ASSUME ToolInv, Parse PROVE ToolInv'
  OBVIOUS
<1>1. /\ stage = "parse" /\ F!FrontNext /\ stage' = StageAt[status']
      /\ UNCHANGED <<file, macroVars, treeVars, emitVars, machineVars>>
  BY DEF Parse
<1>2. F!FrontInv /\ Begin /\ process = "off"
  BY <1>1 DEF ToolInv
<1>3. F!FrontInv'
  BY <1>1, <1>2, ReaderStep
<1>4. lines' \in Seq(LineType) /\ macros' \in Seq(MacroType) /\ status' \in DOMAIN StageAt
  <2>1. Handed'
    BY <1>3, ReaderLines, PTL
  <2>2. QED
    BY <2>1 DEF Handed
<1>5. stage' \in {"parse", "refused", "expand", "terminated"}
  BY <1>1, <1>4 DEF StageAt
<1>6. Begin'
  BY <1>1, <1>2, <1>4, <1>5 DEF Begin, MacroInit, TreeInit, EmitInit, macroVars, treeVars, emitVars
<1>7. TypeInv' /\ PlaceInv' /\ OperandInv'
  BY <1>6, BeginInvs, PTL
<1>8. E!BusInit' /\ E!CpuInit' /\ E!SerialInit' /\ dev' = "cpu" /\ process' = "off"
  BY <1>1, <1>2 DEF machineVars, ToolInv, E!BusInit, E!CpuInit, E!SerialInit
<1>9. QED
  BY <1>3, <1>5, <1>6, <1>7, <1>8 DEF ToolInv

\* Assembling the tree.  Save writes the segments that the sections are.
LEMMA AssembleToolInv == ToolInv /\ Assemble => ToolInv'
<1> SUFFICES ASSUME ToolInv, Assemble PROVE ToolInv'
  OBVIOUS
<1>1. Next /\ UNCHANGED machineVars
  BY DEF Assemble
<1>2. TypeInv' /\ PlaceInv' /\ OperandInv'
  BY <1>1, NextTypeInv, NextPlaceInv, NextOperandInv DEF ToolInv
<1>3. stage # "written" /\ stage' # "parse" /\ (stage' = "written" => Save)
  BY <1>1, NextStages
<1>4. stage' = "written" => outfile'.segments = segments'
  <2> SUFFICES ASSUME Save PROVE outfile'.segments = segments'
    BY <1>3
  <2>1. outfile'.segments = segments /\ UNCHANGED out_sections
    BY DEF Save
  <2>2. QED
    BY <2>1 DEF segments
<1>5. process = "off"
  BY <1>3 DEF ToolInv
<1>6. E!BusInit' /\ E!CpuInit' /\ E!SerialInit' /\ dev' = "cpu" /\ process' = "off"
  BY <1>1, <1>5 DEF machineVars, ToolInv, E!BusInit, E!CpuInit, E!SerialInit
<1>7. QED
  BY <1>2, <1>3, <1>4, <1>6 DEF ToolInv

\* The assembler's part of the invariant speaks of its own variables.
LEMMA AsmFrame ==
  ASSUME ToolInv, UNCHANGED asmVars
  PROVE  /\ TypeInv' /\ PlaceInv' /\ OperandInv' /\ stage' = stage
         /\ outfile' = outfile /\ segments' = segments
<1>1. TypeInv' /\ PlaceInv' /\ OperandInv'
  BY NextTypeInv, NextPlaceInv, NextOperandInv DEF ToolInv
<1>2. UNCHANGED <<stage, outfile, out_sections>>
  BY DEF asmVars, astVars, emitVars
<1>3. QED
  BY <1>1, <1>2 DEF segments

\* The emulator is started with the words of the file.
LEMMA StartToolInv == ToolInv /\ Start => ToolInv'
<1> SUFFICES ASSUME ToolInv, Start PROVE ToolInv'
  OBVIOUS
<1>1. /\ stage = "written" /\ process = "off" /\ process' = "running"
      /\ memory' = E!initialize_memory(segments)
      /\ UNCHANGED asmVars
      /\ UNCHANGED <<bus, cpu_phase, reg, rtmp2, rip, rOP, rR0, rR1, rAddress, rValue, opcode, stdin, stdout, dev>>
  BY DEF Start, ToolInv
<1>2. memory' \in [E!Cells -> E!UWord]
  BY <1>1, SegmentsOfSections, MachineLoads DEF ToolInv
<1>3. E!BusInit /\ E!CpuInit /\ E!SerialInit /\ dev = "cpu"
  BY <1>1 DEF ToolInv
<1>4. E!Begun'
  BY <1>1, <1>2, <1>3 DEF E!Begun, E!BusInit, E!CpuInit, E!SerialInit, E!MemoryType
<1>5. E!IInv' /\ E!History'
  BY <1>4, MachineBegins, PTL
<1>6. QED
  BY <1>1, <1>5, AsmFrame DEF ToolInv

\* The emulator runs.
LEMMA RunToolInv == ToolInv /\ Run => ToolInv'
<1> SUFFICES ASSUME ToolInv, Run PROVE ToolInv'
  OBVIOUS
<1>1. E!Next /\ UNCHANGED asmVars
  BY DEF Run
<1>2. process = "running"
  BY <1>1 DEF E!Next, E!CpuStep, E!MemoryStep, E!SerialStep, E!Exit, E!Abort, E!Turn, E!Stop
<1>3. stage = "written" /\ E!IInv /\ E!History
  BY <1>2 DEF ToolInv
<1>4. E!IInv' /\ E!History'
  BY <1>1, <1>3, MachineStep
<1>5. process' # "off"
  BY <1>4 DEF E!IInv, E!TypeOK
<1>6. QED
  BY <1>1, <1>3, <1>4, <1>5, AsmFrame DEF ToolInv

\* A step of nobody.
LEMMA IdleToolInv == ToolInv /\ UNCHANGED toolVars => ToolInv'
<1> SUFFICES ASSUME ToolInv, UNCHANGED toolVars PROVE ToolInv'
  OBVIOUS
<1>1. UNCHANGED <<readerVars, asmVars, machineVars>>
  BY DEF toolVars
<1>2. UNCHANGED F!frontVars
  BY <1>1 DEF readerVars, asmVars, astVars, F!frontVars, F!scanVars, F!readVars, F!parseVars
<1>3. UNCHANGED E!vars
  BY <1>1 DEF machineVars, E!vars, E!cpuVars, E!registers, E!latches, E!serialVars
<1>4. stage = "parse" => F!FrontInv' /\ Begin'
  <2> SUFFICES ASSUME stage = "parse" PROVE F!FrontInv' /\ Begin'
    OBVIOUS
  <2>1. F!FrontInv /\ Begin
    BY DEF ToolInv
  <2>2. Begin'
    BY <1>1, <2>1 DEF Begin, asmVars, astVars, macroVars, treeVars, emitVars, MacroInit, TreeInit, EmitInit
  <2>3. QED
    BY <1>2, <2>1, <2>2, ReaderStep
<1>5. process = "off" => E!BusInit' /\ E!CpuInit' /\ E!SerialInit' /\ dev' = "cpu"
  BY <1>1 DEF ToolInv, machineVars, E!BusInit, E!CpuInit, E!SerialInit
<1>6. process # "off" => stage = "written" /\ E!IInv' /\ E!History'
  BY <1>3, MachineStep DEF ToolInv
<1>7. process' = process
  BY <1>1 DEF machineVars
<1>8. /\ TypeInv' /\ PlaceInv' /\ OperandInv' /\ stage' = stage
      /\ outfile' = outfile /\ segments' = segments
  BY <1>1, AsmFrame
<1>9. QED
  BY <1>4, <1>5, <1>6, <1>7, <1>8 DEF ToolInv

\* Nothing has been read, and nothing begun.
LEMMA InitToolInv == ToolInit => ToolInv
<1> SUFFICES ASSUME ToolInit PROVE ToolInv
  OBVIOUS
<1>1. F!FrontInv
  BY ReaderBegins DEF ToolInit
<1>2. file \in DOMAIN Sources
  BY ReaderAssumption DEF ToolInit, F!FrontInit, F!ScanInit, F!Init
<1>3. Begin
  BY <1>1, <1>2, ReaderLines DEF ToolInit, Begin, Handed
<1>4. QED
  BY <1>1, <1>3, BeginInvs DEF ToolInit, ToolInv

\* Every step of the whole keeps the invariant.
LEMMA ToolStep == ToolInv /\ [ToolNext]_toolVars => ToolInv'
BY ParseToolInv, AssembleToolInv, StartToolInv, RunToolInv, IdleToolInv DEF ToolNext

\* For every text, every machine and every step of any part.
THEOREM ToolInvariance == ToolSpec => []ToolInv
BY InitToolInv, ToolStep, PTL DEF ToolSpec

-----------------------------------------------------------------------------
(* What the bytes of an instruction mean to the processor. *)

\* The codes of AsmTree.h are the numbers that cpu.hxx has, and those of the
\* extended instructions have the number of the instruction above 15.
LEMMA CodesAgree ==
  /\ \A x \in DOMAIN AddressOps : OpcodeOf(x) = AddressOps[x] /\ AddressOps[x] \in {0, 1, 2}
  /\ \A x \in DOMAIN TransferOps : OpcodeOf(x) = TransferOps[x] /\ TransferOps[x] = 5
  /\ \A x \in DOMAIN StackOps : OpcodeOf(x) = StackOps[x] /\ StackOps[x] \in 6 .. 9
  /\ \A x \in DOMAIN PlainOps :
       /\ OpcodeOf(x) = PlainOps[x] % 16 /\ PlainOps[x] \in 0 .. 255
       /\ OpcodeOf(x) \notin {0, 1, 2, 5}
       /\ x \in DOMAIN Extension => PlainOps[x] \div 16 = Extension[x]
<1> USE DEF OpcodeOf, E!LoadImm, E!LoadDirect, E!StoreDirect, E!LoadIndexed, E!StoreIndexed,
            E!TransferRegister, E!Push0, E!Push1, E!Pop0, E!Pop1, E!Add, E!Sub, E!Mul, E!DivMod,
            E!NandOp, E!Extended
<1>1. \A x \in DOMAIN AddressOps : OpcodeOf(x) = AddressOps[x] /\ AddressOps[x] \in {0, 1, 2}
  BY DEF AddressOps
<1>2. \A x \in DOMAIN TransferOps : OpcodeOf(x) = TransferOps[x] /\ TransferOps[x] = 5
  BY DEF TransferOps
<1>3. \A x \in DOMAIN StackOps : OpcodeOf(x) = StackOps[x] /\ StackOps[x] \in 6 .. 9
  BY DEF StackOps
<1>4. \A x \in DOMAIN PlainOps :
        /\ OpcodeOf(x) = PlainOps[x] % 16 /\ PlainOps[x] \in 0 .. 255
        /\ OpcodeOf(x) \notin {0, 1, 2, 5}
  BY DEF PlainOps
<1>5. \A x \in DOMAIN PlainOps : x \in DOMAIN Extension => PlainOps[x] \div 16 = Extension[x]
  BY DEF PlainOps, Extension
<1>6. QED
  BY <1>1, <1>2, <1>3, <1>4, <1>5

\* The first byte selects the case, the others have the address or the target.
LEMMA BytesMean ==
  ASSUME NEW n \in KnownType, NEW bytes, bytes = emit(n)
  PROVE  /\ E!OneInstruction(bytes)
         /\ E!LowNibble(bytes[1]) = OpcodeOf(n.name)
         /\ n.name \in DOMAIN AddressOps =>
              OpcodeOf(n.name) \in E!LongOps /\ 256 * bytes[2] + bytes[3] = n.operand
         /\ n.name \notin DOMAIN AddressOps => OpcodeOf(n.name) \notin E!LongOps
         /\ n.name \in DOMAIN TransferOps =>
              /\ OpcodeOf(n.name) = E!TransferRegister
              /\ E!HighNibble(bytes[1]) = n.source /\ E!LowNibble(bytes[2]) = n.target
         /\ n.name \in DOMAIN StackOps => E!HighNibble(bytes[1]) = n.source
         /\ n.name \in DOMAIN Extension => E!HighNibble(bytes[1]) = Extension[n.name]
<1>1. n.source \in 0 .. 15 /\ n.target \in 0 .. 15 /\ n.operand \in UWord /\ n.name \in Mnemonics
  BY DEF KnownType, InstructionType
<1>2. bytes \in Seq(E!Byte) /\ Len(bytes) = get_length(n.name)
  BY EmitType DEF Byte, Between, E!Byte, E!Between
<1>3. /\ E!LongOps = {0, 1, 2} /\ E!TransferRegister = 5
      /\ \A b : E!LowNibble(b) = b % 16 /\ E!HighNibble(b) = b \div 16
  BY DEF E!LongOps, E!LoadImm, E!LoadDirect, E!StoreDirect, E!TransferRegister, E!LowNibble, E!HighNibble
<1>4. CASE n.name \in DOMAIN AddressOps
  <2>1. /\ n.name \notin DOMAIN TransferOps /\ n.name \notin DOMAIN StackOps /\ n.name \notin DOMAIN Extension
    BY <1>4 DEF AddressOps, TransferOps, StackOps, Extension
  <2>2. bytes = <<AddressOps[n.name], HighByte(n.operand), LowByte(n.operand)>>
    BY <1>4, <2>1, Zenon DEF emit
  <2>3. Len(bytes) = 3 /\ bytes[1] = AddressOps[n.name] /\ 256 * bytes[2] + bytes[3] = n.operand
    BY <1>1, <2>2, HighLow
  <2>4. QED
    BY <1>2, <1>3, <1>4, <2>1, <2>3, CodesAgree DEF E!OneInstruction
<1>5. CASE n.name \in DOMAIN TransferOps
  <2>1. /\ n.name \notin DOMAIN AddressOps /\ n.name \notin DOMAIN StackOps /\ n.name \notin DOMAIN Extension
    BY <1>5 DEF AddressOps, TransferOps, StackOps, Extension
  <2>2. bytes = <<TransferOps[n.name] + 16 * n.source, n.target>>
    BY <1>5, <2>1, Zenon DEF emit
  <2>3. Len(bytes) = 2 /\ bytes[1] = 5 + 16 * n.source /\ bytes[2] = n.target
    BY <1>5, <2>2, CodesAgree
  <2>4. E!LowNibble(bytes[1]) = 5 /\ E!HighNibble(bytes[1]) = n.source /\ E!LowNibble(bytes[2]) = n.target
    BY <1>1, <1>3, <2>3
  <2>5. QED
    BY <1>2, <1>3, <1>5, <2>1, <2>3, <2>4, CodesAgree DEF E!OneInstruction
<1>6. CASE n.name \in DOMAIN StackOps
  <2>1. /\ n.name \notin DOMAIN AddressOps /\ n.name \notin DOMAIN TransferOps /\ n.name \notin DOMAIN Extension
    BY <1>6 DEF AddressOps, TransferOps, StackOps, Extension
  <2>2. bytes = <<StackOps[n.name] + 16 * n.source>>
    BY <1>6, <2>1, Zenon DEF emit
  <2>3. PICK code \in 6 .. 9 : StackOps[n.name] = code /\ OpcodeOf(n.name) = code
    BY <1>6, CodesAgree
  <2>4. Len(bytes) = 1 /\ bytes[1] = code + 16 * n.source
    BY <2>2, <2>3
  <2>5. E!LowNibble(bytes[1]) = code /\ E!HighNibble(bytes[1]) = n.source
    BY <1>1, <1>3, <2>4
  <2>6. QED
    BY <1>2, <1>3, <1>6, <2>1, <2>3, <2>4, <2>5 DEF E!OneInstruction
<1>7. CASE n.name \in DOMAIN PlainOps
  <2>1. /\ n.name \notin DOMAIN AddressOps /\ n.name \notin DOMAIN TransferOps /\ n.name \notin DOMAIN StackOps
    BY <1>7 DEF AddressOps, TransferOps, StackOps, PlainOps
  <2>2. bytes = <<PlainOps[n.name]>>
    BY <2>1, Zenon DEF emit
  <2>3. Len(bytes) = 1 /\ bytes[1] = PlainOps[n.name]
    BY <2>2
  <2>4. QED
    BY <1>2, <1>3, <1>7, <2>1, <2>3, CodesAgree DEF E!OneInstruction
<1>8. QED
  BY <1>1, <1>4, <1>5, <1>6, <1>7 DEF Mnemonics

-----------------------------------------------------------------------------
(* The processor finds them. *)

\* Where no other segment covers it, the loader takes a cell from the one
\* segment that does.
LEMMA LoadedByte ==
  ASSUME NEW segs \in Seq([address : Int, bytes : Seq(Byte)]), NEW i \in DOMAIN segs,
         \A j \in DOMAIN segs \ {i} : Apart(segs[i], segs[j]),
         NEW c \in Int, segs[i].address <= c, c < segs[i].address + Len(segs[i].bytes)
  PROVE  E!LoadedCell(segs, c) = E!ToUWord(E!ToChar(segs[i].bytes[c - segs[i].address + 1]))
<1>1. \A j \in DOMAIN segs : segs[j].address \in Int /\ Len(segs[j].bytes) \in Nat
  <2> DEFINE segment == [address : Int, bytes : Seq(Byte)]
  <2>1. \A s \in segment : s.address \in Int /\ Len(s.bytes) \in Nat
    OBVIOUS
  <2> HIDE DEF segment
  <2>2. segs \in Seq(segment)
    BY DEF segment
  <2>3. \A j \in DOMAIN segs : segs[j] \in segment
    BY <2>2
  <2>4. QED
    BY <2>1, <2>3
<1> DEFINE covering == {j \in DOMAIN segs : /\ segs[j].address <= c
                                            /\ c < segs[j].address + Len(segs[j].bytes)}
<1>2. ASSUME NEW j \in DOMAIN segs \ {i}
      PROVE  ~ (segs[j].address <= c /\ c < segs[j].address + Len(segs[j].bytes))
  <2>1. Apart(segs[i], segs[j])
    OBVIOUS
  <2>2. PICK a \in Int : a = segs[i].address
    BY <1>1
  <2>3. PICK b \in Int : b = segs[j].address
    BY <1>1
  <2>4. PICK m, n \in Int : m = Len(segs[i].bytes) /\ n = Len(segs[j].bytes)
    BY <1>1
  <2>5. a + m <= b \/ b + n <= a
    BY <2>1, <2>2, <2>3, <2>4, Zenon DEF Apart
  <2>6. a <= c /\ c < a + m
    BY <2>2, <2>4
  <2>7. ~ (b <= c /\ c < b + n)
    BY <2>5, <2>6
  <2>8. QED
    BY <2>3, <2>4, <2>7, Zenon
<1>3. covering = {i}
  BY <1>2
<1>4. E!Max(covering) = i
  <2>1. DOMAIN segs \subseteq Int
    OBVIOUS
  <2>2. E!Max({i}) \in {i}
    BY <2>1 DEF E!Max
  <2>3. QED
    BY <1>3, <2>2
<1>5. E!LoadedCell(segs, c)
        = E!ToUWord(E!ToChar(segs[E!Max(covering)].bytes[c - segs[E!Max(covering)].address + 1]))
  BY <1>3, Zenon DEF E!LoadedCell
<1>6. QED
  BY <1>4, <1>5, Zenon

\* An instruction whose section has its segment to itself is in the memory,
\* byte by byte, where it was placed.
LEMMA HoldsInstruction ==
  ASSUME ToolInv, stage = "written", Loadable, NEW k \in DOMAIN tree,
         tree[k].kind = "instruction", Placed(k) = ToUWord(E!RetiredPc), Intact(k)
  PROVE  tree[k] \in KnownType /\ E!Holds(E!ToUWord(E!RetiredPc), emit(tree[k]))
<1>1. tree \in Seq(NodeType)
  BY DEF ToolInv, TypeInv, TreeInv
<1>2. tree[k] \in KnownType
  <2>1. tree[k] \in NodeType
    BY <1>1
  <2>2. QED
    BY <2>1, NodeFields
<1>3. PICK bytes : bytes = emit(tree[k])
  OBVIOUS
<1>4. bytes \in Seq(Byte) /\ Len(bytes) = get_length(tree[k].name) /\ Len(bytes) \in Nat
  BY <1>2, <1>3, EmitType
<1>5. PICK s, offset : s = SectionAt(k) /\ offset = OffsetAt(k)
  OBVIOUS
<1>6. Stored(s, offset, bytes)
  <2>1. k \in 1 .. (Len(tree) + 1) - 1
    BY <1>1
  <2>2. Emitted(tree, Len(tree) + 1)
    BY DEF ToolInv, OperandInv
  <2>3. Stored(A!SectionAt(tree, k), A!OffsetAt(tree, k), emit(tree[k]))
    BY <2>1, <2>2 DEF Emitted
  <2>4. QED
    BY <1>3, <1>5, <2>3 DEF SectionAt, OffsetAt
<1>7. s \in DOMAIN out_sections /\ offset \in Nat /\ offset + Len(bytes) <= Len(out_sections[s].data)
  BY <1>6 DEF Stored
<1>8. PICK segs : segs = outfile.segments
  OBVIOUS
<1>9. segs = segments /\ segs \in Seq([address : Int, bytes : Seq(Byte)])
  BY <1>8, SegmentsOfSections DEF ToolInv
<1>10. PICK i \in DOMAIN segs : segs[i] = SegmentOf(s)
  BY <1>7, <1>9, SegmentsOfSections DEF ToolInv, Loadable
<1>11. segs[i].address = out_sections[s].addr /\ segs[i].bytes = out_sections[s].data
  BY <1>10 DEF SegmentOf
<1>12. /\ E!Fits(segs[i])
       /\ \A j \in DOMAIN segs \ {i} : Apart(segs[i], segs[j])
  BY <1>8 DEF Loadable
<1>13. PICK a, size \in Nat :
         /\ a = segs[i].address /\ size = Len(segs[i].bytes) /\ a + size <= MemorySize
  BY <1>12 DEF E!Fits
<1>14. /\ a = out_sections[s].addr /\ size = Len(out_sections[s].data) /\ Placed(k) = a + offset
  BY <1>5, <1>11, <1>13 DEF Placed
<1>15. MemoryBegin = 0 /\ MemorySize \in Nat /\ MemoryEnd \in Nat /\ MemorySize <= MemoryEnd + 1
  BY MachineAssumption DEF E!MemoryAssumption, E!UWord, E!Between
<1>16. PICK length \in Nat : length = Len(bytes) /\ offset + length <= size
  BY <1>4, <1>7, <1>14
<1>17. E!ToUWord(E!RetiredPc) = a + offset
  BY <1>14 DEF ToUWord, E!ToUWord
<1>18. ASSUME NEW j \in 1 .. length
       PROVE  /\ E!Backed(a + offset + j - 1)
              /\ memory[E!Cell(a + offset + j - 1)] = E!ToUWord(E!ToChar(bytes[j]))
  <2>1. PICK c \in Int : c = a + offset + j - 1
    BY <1>7
  <2>2. /\ 0 <= c /\ c < MemorySize /\ a <= c /\ c < a + size
        /\ c \in a + offset .. a + offset + length - 1 /\ c - a + 1 = offset + j
    <3>1. offset \in Nat /\ a + size <= MemorySize /\ offset + length <= size /\ MemorySize \in Nat
      BY <1>7, <1>13, <1>15, <1>16
    <3>2. QED
      BY <2>1, <3>1
  <2>3. E!Backed(c) /\ E!Cell(c) = c
    BY <1>15, <2>2 DEF E!Backed, E!InMemory, E!Cell
  <2>4. memory[c] = E!LoadedCell(segs, c)
    BY <1>3, <1>4, <1>8, <1>14, <1>16, <2>2 DEF Intact
  <2>5. E!LoadedCell(segs, c) = E!ToUWord(E!ToChar(segs[i].bytes[c - a + 1]))
    BY <1>9, <1>12, <1>13, <2>2, LoadedByte
  <2>6. segs[i].bytes[c - a + 1] = bytes[j]
    BY <1>6, <1>11, <1>16, <2>2 DEF Stored
  <2>7. QED
    BY <2>1, <2>3, <2>4, <2>5, <2>6
<1>19. QED
  BY <1>2, <1>3, <1>16, <1>17, <1>18 DEF E!Holds

\* So the processor executes the program.
LEMMA ExecutesInv == ToolInv => ExecutesProgram
<1> SUFFICES ASSUME ToolInv, process = "running", cpu_phase \in {"Load0", "Execute"}, Loadable,
                    NEW k \in DOMAIN tree, tree[k].kind = "instruction",
                    Placed(k) = ToUWord(E!RetiredPc), Intact(k)
             PROVE  Decoded(tree[k])
  BY Zenon DEF ExecutesProgram
<1>1. stage = "written" /\ E!IInv /\ E!History
  BY DEF ToolInv
<1>2. tree[k] \in KnownType /\ E!Holds(E!ToUWord(E!RetiredPc), emit(tree[k]))
  BY <1>1, HoldsInstruction
<1>3. PICK n \in KnownType : n = tree[k]
  BY <1>2
<1>4. PICK bytes : bytes = emit(n)
  OBVIOUS
<1>5. E!OneInstruction(bytes) /\ E!LowNibble(bytes[1]) = OpcodeOf(n.name)
  BY <1>4, BytesMean
<1>6. E!Holds(E!ToUWord(E!RetiredPc), bytes)
  BY <1>2, <1>3, <1>4
<1>7. /\ opcode = E!LowNibble(bytes[1])
      /\ opcode \in E!LongOps => rAddress = 256 * bytes[2] + bytes[3]
      /\ opcode \notin E!LongOps => rR0 = E!HighNibble(bytes[1])
      /\ opcode = E!TransferRegister => rR1 = E!LowNibble(bytes[2])
  BY <1>1, <1>5, <1>6, MachineExecutes
<1>8. /\ DOMAIN TransferOps \cap DOMAIN AddressOps = {}
      /\ DOMAIN StackOps \cap DOMAIN AddressOps = {}
      /\ DOMAIN Extension \cap DOMAIN AddressOps = {}
  BY DEF AddressOps, TransferOps, StackOps, Extension
<1>9. Decoded(n)
  <2>1. n.name \in DOMAIN AddressOps => rAddress = n.operand
    BY <1>4, <1>5, <1>7, BytesMean
  <2>2. n.name \in DOMAIN TransferOps => rR0 = n.source /\ rR1 = n.target
    BY <1>4, <1>5, <1>7, <1>8, BytesMean
  <2>3. n.name \in DOMAIN StackOps => rR0 = n.source
    BY <1>4, <1>5, <1>7, <1>8, BytesMean
  <2>4. n.name \in DOMAIN Extension => rR0 = Extension[n.name]
    BY <1>4, <1>5, <1>7, <1>8, BytesMean
  <2>5. QED
    BY <1>5, <1>7, <2>1, <2>2, <2>3, <2>4 DEF Decoded
<1>10. QED
  BY <1>3, <1>9

\* For every program text, every memory and every input: a processor that
\* comes to an instruction of the program, finds it as it was loaded and has a
\* place of its own for it executes the instruction that the text has there.
THEOREM ProgramExecuted == ToolSpec => []ExecutesProgram
BY ToolInvariance, ExecutesInv, PTL
=============================================================================
