------------------------- MODULE CS8AssemblerProofs -------------------------
(***************************************************************************)
(* The assembler, for every program that the parser can hand over.         *)
(*                                                                         *)
(* TypeInv: lines, nodes, sections and bytes are what they are taken for.  *)
(* PlaceInv: there is a record of the first walk, the positions and the    *)
(* current section in front of every node, that the second walk, which     *)
(* appends bytes, keeps level with.  SymbolInv: in front of a node, the    *)
(* symbols are those that the directives before it have named.             *)
(***************************************************************************)
EXTENDS CS8Assembler, CS8Lists

-----------------------------------------------------------------------------
(* Types: what the stages hand to each other. *)

\* The names of the program and the ones that the code begins with.
Names     == STRING \union {"", "flat"}
ArgType   == [name : Names, number : Int]
Mnemonics == DOMAIN AddressOps \union DOMAIN TransferOps \union DOMAIN StackOps \union DOMAIN PlainOps
KnownType ==
  {n \in InstructionType : n.name \in Mnemonics /\ (n.label # "" => n.name \in DOMAIN AddressOps)}
LabelType == [kind : {"label"}, name : STRING, position : Int, section : Names]
DirectiveType == [kind : {"directive"}, name : STRING, args : Seq(ArgType)]
NodeType  == KnownType \union LabelType \union DirectiveType

\* A string literal is not known to the provers to be in STRING.
LEMMA NamesIn ==
  /\ "" \in Names /\ "flat" \in Names /\ \A s \in STRING : s \in Names
  /\ "" \in NameOrNone /\ \A s \in STRING : s \in NameOrNone
  /\ \A n \in NameOrNone : n \in Names
BY Zenon DEF Names, NameOrNone

\* Registers have four-bit numbers.
LEMMA RegisterRange ==
  /\ \A r \in DOMAIN RegisterNumber : RegisterNumber[r] \in 0 .. 15
  /\ "bse" \in DOMAIN RegisterNumber
BY DEF RegisterNumber

\* The parts of a line.
LEMMA ParamFields ==
  ASSUME NEW line \in LineType
  PROVE  /\ line.params \in Seq(ParamType) /\ Len(line.params) \in Nat /\ line.name \in STRING
         /\ line.kind \in {"instruction", "directive", "label"}
         /\ DOMAIN line.params = 1 .. Len(line.params)
         /\ \A i \in 1 .. Len(line.params) :
              /\ line.params[i] \in ParamType /\ line.params[i].name \in NameOrNone
              /\ line.params[i].values \in Seq(Int)
              /\ line.params[i].type = "number" => line.params[i].values[1] \in Int
<1>1. line.params \in Seq(ParamType) /\ line.name \in STRING /\ line.kind \in {"instruction", "directive", "label"}
  BY DEF LineType
<1>2. \A p \in ParamType : p.values \in Seq(Int)
  <2>1. \A n \in Nat : \A v \in [1 .. n -> Int] : v \in Seq(Int)
    OBVIOUS
  <2>2. \A v \in [1 .. 1 -> Int] : v \in Seq(Int)
    BY <2>1, Zenon
  <2>3. QED
    BY <2>2 DEF ParamType
<1>4. /\ Len(line.params) \in Nat /\ DOMAIN line.params = 1 .. Len(line.params)
      /\ \A i \in 1 .. Len(line.params) : line.params[i] \in ParamType
  BY <1>1
<1>5. \A i \in 1 .. Len(line.params) :
        /\ line.params[i].name \in NameOrNone /\ line.params[i].values \in Seq(Int)
        /\ line.params[i].type = "number" => line.params[i].values[1] \in Int
  <2> SUFFICES ASSUME NEW i \in 1 .. Len(line.params)
               PROVE  /\ line.params[i].name \in NameOrNone /\ line.params[i].values \in Seq(Int)
                      /\ line.params[i].type = "number" => line.params[i].values[1] \in Int
    OBVIOUS
  <2>1. PICK p \in ParamType : p = line.params[i]
    BY <1>4
  <2>2. p.name \in NameOrNone
    BY DEF ParamType
  <2>3. p.values \in Seq(Int)
    BY <1>2
  <2>4. p.type = "number" => p.values[1] \in Int
    BY DEF ParamType
  <2>5. QED
    BY <2>1, <2>2, <2>3, <2>4, Zenon
<1>6. QED
  BY <1>1, <1>4, <1>5

\* emit() gives the bytes of an instruction.
LEMMA EmitType ==
  ASSUME NEW n \in KnownType
  PROVE  emit(n) \in Seq(Byte) /\ Len(emit(n)) = get_length(n.name)
<1>1. n.source \in 0 .. 15 /\ n.target \in 0 .. 15 /\ n.operand \in UWord /\ n.name \in Mnemonics
  BY DEF KnownType, InstructionType
<1>2. HighByte(n.operand) \in Byte /\ LowByte(n.operand) \in Byte
  BY <1>1 DEF HighByte, LowByte, Byte, UWord, Between
<1>3. CASE n.name \in DOMAIN AddressOps
  <2>1. /\ n.name \notin DOMAIN TransferOps /\ n.name \notin DOMAIN StackOps
        /\ AddressOps[n.name] \in Byte
    BY <1>3 DEF AddressOps, TransferOps, StackOps, Byte, Between
  <2>2. emit(n) = <<AddressOps[n.name], HighByte(n.operand), LowByte(n.operand)>> /\ get_length(n.name) = 3
    BY <1>3, <2>1 DEF emit, get_length
  <2>3. QED
    BY <1>2, <2>1, <2>2
<1>4. CASE n.name \in DOMAIN TransferOps
  <2>1. /\ n.name \notin DOMAIN AddressOps /\ n.name \notin DOMAIN StackOps
        /\ TransferOps[n.name] + 16 * n.source \in Byte /\ n.target \in Byte
    BY <1>1, <1>4 DEF AddressOps, TransferOps, StackOps, Byte, Between
  <2>2. emit(n) = <<TransferOps[n.name] + 16 * n.source, n.target>> /\ get_length(n.name) = 2
    BY <1>4, <2>1 DEF emit, get_length
  <2>3. QED
    BY <2>1, <2>2
<1>5. CASE n.name \in DOMAIN StackOps
  <2>1. n.name \notin DOMAIN AddressOps /\ n.name \notin DOMAIN TransferOps /\ StackOps[n.name] + 16 * n.source \in Byte
    BY <1>1, <1>5 DEF AddressOps, TransferOps, StackOps, Byte, Between
  <2>2. emit(n) = <<StackOps[n.name] + 16 * n.source>> /\ get_length(n.name) = 1
    BY <1>5, <2>1 DEF emit, get_length
  <2>3. QED
    BY <2>1, <2>2
<1>6. CASE n.name \in DOMAIN PlainOps
  <2>1. /\ n.name \notin DOMAIN AddressOps /\ n.name \notin DOMAIN TransferOps /\ n.name \notin DOMAIN StackOps
        /\ PlainOps[n.name] \in Byte
    BY <1>1, <1>6 DEF AddressOps, TransferOps, StackOps, PlainOps, Byte, Between
  <2>2. emit(n) = <<PlainOps[n.name]>> /\ get_length(n.name) = 1
    BY <1>6, <2>1 DEF emit, get_length
  <2>3. QED
    BY <2>1, <2>2
<1>7. QED
  BY <1>1, <1>3, <1>4, <1>5, <1>6 DEF Mnemonics

\* translate_instruction() makes a typed node.
LEMMA InstructionTranslated ==
  ASSUME NEW line \in LineType, NEW labels, line.kind = "instruction", Translatable(line, labels)
  PROVE  translate_instruction(line) \in KnownType
<1>0. \/ line.name \in DOMAIN AddressOps  /\ HasAddress(line, labels)
      \/ line.name \in DOMAIN TransferOps /\ HasRegisters(line, 2)
      \/ line.name \in DOMAIN StackOps    /\ HasRegisters(line, 1)
      \/ line.name \in DOMAIN PlainOps    /\ line.params = <<>>
  BY ParamFields, Zenon DEF Translatable
<1>1. \A x \in Int : ToUWord(x) \in UWord
  BY DEF ToUWord, UWord, Between
<1>2. 0 \in UWord
  BY DEF UWord, Between
<1>3. \A s, t \in 0 .. 15, o \in UWord, l \in NameOrNone :
        line.name \in Mnemonics /\ (l # "" => line.name \in DOMAIN AddressOps) => Node(line.name, s, t, o, l) \in KnownType
  BY ParamFields DEF Node, KnownType, InstructionType
<1>4. CASE line.name \in DOMAIN AddressOps  /\ HasAddress(line, labels)
  <2>1. Len(line.params) = 1 /\ line.params[1].type \in {"number", "symbol"}
    BY <1>4 DEF HasAddress
  <2>2. /\ line.params[1].name \in NameOrNone
        /\ line.params[1].type = "number" => line.params[1].values[1] \in Int
    BY <2>1, ParamFields
  <2>3. RegisterNumber["bse"] \in 0 .. 15
    BY RegisterRange
  <2>4. line.name \in Mnemonics
    BY <1>4 DEF Mnemonics
  <2>5. AddressNode(line, line.params[1]) \in KnownType
    BY NamesIn, <1>1, <1>2, <1>3, <1>4, <2>2, <2>3, <2>4 DEF AddressNode
  <2>6. QED
    BY <1>4, <2>5 DEF translate_instruction
<1>5. ASSUME line.name \notin DOMAIN AddressOps,
             \A i \in 1 .. Len(line.params) : line.params[i].type = "register" => IsRegister(line.params[i].name),
             line.name \in Mnemonics
      PROVE  translate_instruction(line) \in KnownType
  <2>1. RegisterOf(line, 1) \in 0 .. 15 /\ RegisterOf(line, 2) \in 0 .. 15
    BY <1>5, ParamFields, RegisterRange DEF RegisterOf, IsRegister
  <2>2. QED
    BY NamesIn, <1>2, <1>3, <1>5, <2>1 DEF translate_instruction
<1>6. CASE line.name \in DOMAIN TransferOps /\ HasRegisters(line, 2)
  <2>1. line.name \notin DOMAIN AddressOps /\ line.name \in Mnemonics
    BY <1>6 DEF AddressOps, TransferOps, Mnemonics
  <2>2. QED
    BY <1>5, <1>6, <2>1 DEF HasRegisters
<1>7. CASE line.name \in DOMAIN StackOps /\ HasRegisters(line, 1)
  <2>1. line.name \notin DOMAIN AddressOps /\ line.name \in Mnemonics
    BY <1>7 DEF AddressOps, StackOps, Mnemonics
  <2>2. QED
    BY <1>5, <1>7, <2>1 DEF HasRegisters
<1>8. CASE line.name \in DOMAIN PlainOps /\ line.params = <<>>
  <2>1. line.name \notin DOMAIN AddressOps /\ line.name \in Mnemonics
    BY <1>8 DEF AddressOps, PlainOps, Mnemonics
  <2>2. QED
    BY <1>5, <1>8, <2>1
<1>9. QED
  BY <1>0, <1>4, <1>6, <1>7, <1>8

SectionType  == [name : Names, addr : Int, data : Seq(Byte), flags : SUBSET Flags]

ListsInv ==
  /\ file \in DOMAIN Sources
  /\ lines \in Seq(LineType) /\ macros \in Seq(MacroType)
  /\ iter \in 1 .. Len(lines) + 1 /\ replaced_macros \in Nat

TreeInv ==
  /\ tree \in Seq(NodeType) /\ node \in 1 .. Len(tree) + 1
  /\ stage \in {"expand", "translate"} => node = 1
  /\ sections \in [DOMAIN sections -> Int] /\ DOMAIN sections \subseteq Names
  /\ current_section \in DOMAIN sections
  /\ positions \in [DOMAIN positions -> [address : Int, section : DOMAIN sections]]

OutInv ==
  /\ out_sections \in [DOMAIN out_sections -> SectionType]
  /\ entry \in Int
  /\ outfile.state \in {"old", "empty", "elf"}

TypeInv == stage \in Stages /\ ListsInv /\ TreeInv /\ OutInv

\* The invariant is stronger than the type correctness that the runs check.
LEMMA TypeInvSuffices == TypeInv => TypeOK
<1> SUFFICES ASSUME TypeInv PROVE TypeOK
  OBVIOUS
<1>1. ListsInv /\ TreeInv /\ OutInv /\ stage \in Stages
  BY DEF TypeInv
<1>2. \A i \in DOMAIN tree : tree[i].kind = "instruction" => tree[i] \in InstructionType
  <2>1. \A n \in NodeType : n.kind = "instruction" => n \in InstructionType
    BY DEF NodeType, KnownType, LabelType, DirectiveType
  <2>2. \A i \in DOMAIN tree : tree[i] \in NodeType
    BY <1>1 DEF TreeInv
  <2>3. QED
    BY <2>1, <2>2
<1>3. \A l \in DOMAIN positions : positions[l].section \in DOMAIN sections
  BY <1>1 DEF TreeInv
<1>4. \A s \in DOMAIN out_sections : out_sections[s].data \in Seq(Byte) /\ out_sections[s].flags \subseteq Flags
  BY <1>1 DEF OutInv, SectionType
<1>5. QED
  BY <1>1, <1>2, <1>3, <1>4 DEF TypeOK, ListsInv, TreeInv, OutInv

\* The parser has handed over typed lines, or nothing, and no stage behind it
\* has begun.
Begin ==
  /\ stage \in {"parse", "refused", "expand", "terminated"} /\ file \in DOMAIN Sources
  /\ lines \in Seq(LineType) /\ macros \in Seq(MacroType)
  /\ MacroInit /\ TreeInit /\ EmitInit

\* So it is when the assembler is looked at alone.
LEMMA InitBegin == Init => Begin
<1> SUFFICES ASSUME Init PROVE Begin
  OBVIOUS
<1>1. Sources[file] \in [macros : Seq(MacroType), lines : Seq(LineType)] /\ file \in DOMAIN Sources
  BY SourcesAssumption DEF Init, AstInit
<1>2. QED
  BY <1>1 DEF Init, AstInit, Parsed, source, Begin

\* Where nothing has begun, the types hold.
LEMMA BeginTypeInv == Begin => TypeInv
<1> SUFFICES ASSUME Begin PROVE TypeInv
  OBVIOUS
<1>1. ListsInv
  BY DEF Begin, MacroInit, ListsInv
<1>2. TreeInv
  <2>1. tree = <<>> /\ node = 1 /\ positions = <<>> /\ current_section = "flat" /\ sections = [s \in {"flat"} |-> 0]
    BY DEF Begin, TreeInit
  <2>2. tree \in Seq(NodeType) /\ node \in 1 .. Len(tree) + 1
    BY <2>1
  <2>3. sections \in [DOMAIN sections -> Int] /\ DOMAIN sections = {"flat"}
    BY <2>1
  <2>4. DOMAIN positions = {} /\ positions \in [DOMAIN positions -> [address : Int, section : DOMAIN sections]]
    BY <2>1
  <2>5. DOMAIN sections \subseteq Names
    BY <2>3, NamesIn, Zenon
  <2>6. QED
    BY <2>1, <2>2, <2>3, <2>4, <2>5 DEF TreeInv
<1>3. OutInv
  BY DEF Begin, EmitInit, OutInv
<1>4. stage \in Stages
  BY DEF Begin, Stages
<1>5. QED
  BY <1>1, <1>2, <1>3, <1>4 DEF TypeInv

\* So they hold at first.
LEMMA InitTypeInv == Init => TypeInv
BY InitBegin, BeginTypeInv

-----------------------------------------------------------------------------
\* The records of arguments and labels, for any fields.
LEMMA ArgIn ==
  ASSUME NEW n \in Names, NEW k \in Int
  PROVE  [name |-> n, number |-> k] \in ArgType
BY DEF ArgType

\* A label record, for any fields.
LEMMA LabelIn ==
  ASSUME NEW n \in STRING, NEW p \in Int, NEW s \in Names
  PROVE  [kind |-> "label", name |-> n, position |-> p, section |-> s] \in LabelType
BY DEF LabelType

\* A parameter of a directive becomes arguments.
LEMMA ArgsType ==
  ASSUME NEW param \in ParamType
  PROVE  Args(param) \in Seq(ArgType)
<1>1. param.name \in NameOrNone
  BY DEF ParamType
<1>2. CASE param.type \in {"symbol", "register"}
  <2>0. 0 \in Int
    OBVIOUS
  <2>1. [name |-> param.name, number |-> 0] \in ArgType
    BY <1>1, <2>0, NamesIn, ArgIn, Zenon
  <2>2. QED
    BY <1>2, <2>1 DEF Args
<1>3. CASE param.type \notin {"symbol", "register"}
  <2>1. param.values \in Seq(Int)
    <3>1. \A n \in Nat : \A v \in [1 .. n -> Int] : v \in Seq(Int)
      OBVIOUS
    <3>2. \A v \in [1 .. 1 -> Int] : v \in Seq(Int)
      BY <3>1, Zenon
    <3>3. QED
      BY <3>2 DEF ParamType
  <2>2. \A i \in 1 .. Len(param.values) : [name |-> "", number |-> param.values[i]] \in ArgType
    <3>1. \A i \in 1 .. Len(param.values) : param.values[i] \in Int
      BY <2>1
    <3>2. QED
      BY <3>1, NamesIn, ArgIn, Zenon
  <2>3. Args(param) = [i \in 1 .. Len(param.values) |-> [name |-> "", number |-> param.values[i]]]
    BY <1>3, <2>1 DEF Args
  <2>4. Len(param.values) \in Nat
    BY <2>1
  <2>5. PICK args : args = Args(param)
    OBVIOUS
  <2>6. args \in [1 .. Len(param.values) -> ArgType]
    BY <2>2, <2>3, <2>5
  <2>7. QED
    BY <2>4, <2>5, <2>6
<1>4. QED
  BY <1>2, <1>3

\* translate_line() makes a typed node of each line that it does not refuse.
LEMMA LineTranslated ==
  ASSUME NEW line \in LineType, NEW labels, Translatable(line, labels)
  PROVE  translate_line(line) \in NodeType
<1>1. CASE line.kind = "label"
  <2>1. translate_line(line) = translate_label_node(line)
    BY <1>1, Zenon DEF translate_line
  <2>2. line.name \in STRING
    BY ParamFields
  <2>3. 0 \in Int
    OBVIOUS
  <2>4. [kind |-> "label", name |-> line.name, position |-> 0, section |-> ""] \in LabelType
    BY <2>2, <2>3, NamesIn, LabelIn, Zenon
  <2>5. QED
    BY <2>1, <2>4, Zenon DEF translate_label_node, NodeType
<1>2. CASE line.kind = "directive"
  <2>1. translate_line(line) = translate_directive_node(line)
    BY <1>2, Zenon DEF translate_line
  <2> DEFINE n == Len(line.params)
             args == [i \in DOMAIN line.params |-> Args(line.params[i])]
  <2>2. n \in Nat /\ DOMAIN line.params = 1 .. n /\ \A i \in 1 .. n : Args(line.params[i]) \in Seq(ArgType)
    BY ParamFields, ArgsType
  <2>3. args \in [1 .. n -> Seq(ArgType)]
    BY <2>2
  <2>4. FlattenSeq(args) \in Seq(ArgType)
    <3> HIDE DEF args, n
    <3>1. QED
      BY <2>2, <2>3, FlattenType
  <2>5. line.name \in STRING
    BY ParamFields
  <2>6. translate_directive_node(line) = [kind |-> "directive", name |-> line.name, args |-> FlattenSeq(args)]
    BY DEF translate_directive_node
  <2> HIDE DEF args
  <2>7. QED
    BY <2>1, <2>4, <2>5, <2>6 DEF NodeType, DirectiveType
<1>3. CASE line.kind = "instruction"
  <2>1. translate_line(line) = translate_instruction(line)
    BY <1>3, Zenon DEF translate_line
  <2>2. QED
    BY <1>3, <2>1, InstructionTranslated DEF NodeType
<1>4. QED
  BY <1>1, <1>2, <1>3, ParamFields

\* The largest of some positions of a list is one of them.
LEMMA LastIn ==
  ASSUME NEW n \in Nat, NEW S \in SUBSET (1 .. n), S # {}
  PROVE  Max(S) \in S
<1> DEFINE T == {n - i : i \in S}
<1>1. \A i \in S : i \in Int /\ n - i \in Nat
  OBVIOUS
<1>2. T \in SUBSET Nat /\ T # {}
  BY <1>1
<1>3. PICK t \in T : \A u \in T : t <= u
  BY <1>2, Least
<1>4. PICK x \in S : t = n - x
  OBVIOUS
<1>5. \A y \in S : n - x <= n - y
  BY <1>3, <1>4
<1>6. \A y \in S : x >= y
  BY <1>5
<1>7. QED
  BY <1>6 DEF Max

-----------------------------------------------------------------------------
\* The macro that an invocation finds in m_macros is one of the program.
LEMMA MacroFound ==
  ASSUME ListsInv, NEW line, Invocation(line)
  PROVE  m_macros[line.name] \in MacroType
<1> DEFINE S == {i \in DOMAIN macros : macros[i].name = line.name}
<1>1. macros \in Seq(MacroType)
  BY DEF ListsInv
<1>2. line.name \in {macros[i].name : i \in DOMAIN macros}
  BY DEF Invocation, m_macros, scan_macros
<1>3. S # {} /\ S \in SUBSET (1 .. Len(macros)) /\ Len(macros) \in Nat
  BY <1>1, <1>2
<1>4. Max(S) \in S
  BY <1>3, LastIn
<1>5. m_macros[line.name] = macros[Max(S)]
  BY <1>2 DEF m_macros, scan_macros
<1>6. QED
  BY <1>1, <1>4, <1>5

\* The body of a macro with the arguments in place is a list of lines.
LEMMA BodyType ==
  ASSUME NEW line \in LineType, NEW macro \in MacroType, Expandable(macro, line)
  PROVE  Body(macro, line) \in Seq(LineType) /\ Len(Body(macro, line)) = Len(macro.lines)
<1>1. macro.lines \in Seq(LineType) /\ macro.args \in Seq(STRING)
  BY DEF MacroType
<1>2. Len(macro.args) = Len(line.params)
  BY DEF Expandable
<1>3. ASSUME NEW i \in DOMAIN macro.lines
      PROVE  Substitute(macro, line, macro.lines[i]) \in LineType
  <2>1. PICK l \in LineType : l = macro.lines[i]
    BY <1>1
  <2>2. CASE l.kind # "instruction"
    BY <2>1, <2>2 DEF Substitute
  <2>3. CASE l.kind = "instruction"
    <3>1. l.params \in Seq(ParamType)
      BY DEF LineType
    <3>2. ASSUME NEW k \in DOMAIN l.params
          PROVE  SubstituteParam(macro, line, l.params[k]) \in ParamType
      <4>1. l.params[k] \in ParamType
        BY <3>1
      <4>2. CASE l.params[k].type # "replace"
        BY <4>1, <4>2 DEF SubstituteParam
      <4>3. CASE l.params[k].type = "replace"
        <5> DEFINE S == {j \in DOMAIN macro.args : macro.args[j] = l.params[k].name}
        <5>1. Bound(macro, l.params[k])
          BY <2>1, <2>3 DEF Expandable
        <5>2. S # {} /\ S \in SUBSET (1 .. Len(macro.args)) /\ Len(macro.args) \in Nat
          BY <1>1, <4>3, <5>1 DEF Bound, Range
        <5>3. Max(S) \in 1 .. Len(line.params)
          BY <1>2, <5>2, LastIn
        <5>4. line.params[Max(S)] \in ParamType
          BY <5>3, ParamFields
        <5>5. SubstituteParam(macro, line, l.params[k]) = line.params[Max(S)]
          BY <4>3 DEF SubstituteParam, Bind
        <5>6. QED
          BY <5>4, <5>5
      <4>4. QED
        BY <4>2, <4>3
    <3> DEFINE params == [k \in DOMAIN l.params |-> SubstituteParam(macro, line, l.params[k])]
    <3>3. params \in Seq(ParamType)
      BY <3>1, <3>2
    <3>4. Substitute(macro, line, l) = [l EXCEPT !.params = params]
      BY <2>3 DEF Substitute
    <3> HIDE DEF params
    <3>5. [l EXCEPT !.params = params] \in LineType
      BY <3>3 DEF LineType
    <3>6. QED
      BY <2>1, <3>4, <3>5
  <2>4. QED
    BY <2>2, <2>3
<1>4. QED
  BY <1>1, <1>3 DEF Body

\* Steps that leave the lists, or the output, alone.
LEMMA ListsFrame == ListsInv /\ UNCHANGED <<file, lines, macros, macroVars>> => ListsInv'
BY DEF ListsInv, macroVars

\* Steps that leave the output alone.
LEMMA OutFrame == OutInv /\ UNCHANGED emitVars => OutInv'
BY DEF OutInv, emitVars

\* A list with another in the place of one of its elements.
LEMMA Splice ==
  ASSUME NEW S, NEW s \in Seq(S), NEW b \in Seq(S), NEW i \in 1 .. Len(s)
  PROVE  /\ SubSeq(s, 1, i - 1) \o b \o SubSeq(s, i + 1, Len(s)) \in Seq(S)
         /\ Len(SubSeq(s, 1, i - 1) \o b \o SubSeq(s, i + 1, Len(s))) = Len(s) - 1 + Len(b)
<1>1. PICK front, back : front = SubSeq(s, 1, i - 1) /\ back = SubSeq(s, i + 1, Len(s))
  OBVIOUS
<1>2. /\ front \in Seq(S) /\ Len(front) = i - 1
      /\ back \in Seq(S) /\ Len(back) = Len(s) - i
  BY <1>1
<1>3. front \o b \in Seq(S) /\ Len(front \o b) = i - 1 + Len(b)
  BY <1>2, ConcatProperties
<1>4. PICK most : most = front \o b
  OBVIOUS
<1>5. most \o back \in Seq(S) /\ Len(most \o back) = Len(most) + Len(back)
  BY <1>2, <1>3, <1>4, ConcatProperties
<1>6. Len(most) + Len(back) = Len(s) - 1 + Len(b) 
  <2>1. Len(s) \in Nat /\ Len(b) \in Nat /\ i \in Int
    OBVIOUS
  <2>2. Len(most) = i - 1 + Len(b) /\ Len(back) = Len(s) - i
    BY <1>2, <1>3, <1>4
  <2>3. QED
    BY <2>1, <2>2
<1>7. QED
  BY <1>1, <1>4, <1>5, <1>6

\* Replacing an invocation keeps the list of lines, and the iterator in it.
LEMMA ReplaceType ==
  ASSUME ListsInv, ReplaceInvocation
  PROVE  ListsInv'
<1>1. PICK line, macro, body :
        /\ line = lines[iter] /\ macro = m_macros[line.name] /\ body = Body(macro, line)
        /\ Invocation(line) /\ Expandable(macro, line)
        /\ lines' = SubSeq(lines, 1, iter - 1) \o body \o SubSeq(lines, iter + 1, Len(lines))
        /\ iter' = iter + Len(macro.lines)
  BY DEF ReplaceInvocation
<1>2. /\ lines \in Seq(LineType) /\ iter \in 1 .. Len(lines) /\ replaced_macros \in Nat
      /\ replaced_macros' = replaced_macros + 1 /\ UNCHANGED <<file, macros>>
  BY DEF ListsInv, ReplaceInvocation, InPass
<1>3. macro \in MacroType /\ line \in LineType
  BY <1>1, <1>2, MacroFound
<1>4. body \in Seq(LineType) /\ Len(body) = Len(macro.lines)
  BY <1>1, <1>3, BodyType
<1>5. lines' \in Seq(LineType) /\ Len(lines') = Len(lines) - 1 + Len(body)
  <2>1. PICK spliced : spliced = SubSeq(lines, 1, iter - 1) \o body \o SubSeq(lines, iter + 1, Len(lines))
    OBVIOUS
  <2>2. spliced \in Seq(LineType) /\ Len(spliced) = Len(lines) - 1 + Len(body)
    BY <1>2, <1>4, <2>1, Splice
  <2>3. lines' = spliced
    BY <1>1, <2>1
  <2>4. QED
    BY <2>2, <2>3
<1>6. iter' = iter + Len(body) /\ Len(body) \in Nat
  BY <1>1, <1>4
<1>7. iter' \in 1 .. Len(lines') + 1
  BY <1>2, <1>5, <1>6
<1>8. QED
  BY <1>2, <1>5, <1>7 DEF ListsInv

\* The expander keeps the types.
LEMMA ExpandTypeInv == TypeInv /\ ExpandMacros /\ UNCHANGED <<treeVars, emitVars>> => TypeInv'
<1> SUFFICES ASSUME TypeInv, ExpandMacros, UNCHANGED <<treeVars, emitVars>> PROVE TypeInv'
  OBVIOUS
<1>0. ListsInv /\ TreeInv /\ OutInv
  BY DEF TypeInv
<1>1. stage = "expand" /\ stage' \in Stages
  BY DEF ExpandMacros, SkipLine, ReplaceInvocation, BadInvocation, EndPass, InPass, Terminate, Stages, astVars
<1>2. TreeInv'
  BY <1>0, <1>1 DEF TreeInv, treeVars
<1>3. OutInv'
  BY <1>0, OutFrame
<1>4. ListsInv'
  <2>1. CASE SkipLine
    BY <1>0, <2>1 DEF ListsInv, SkipLine, InPass, astVars
  <2>2. CASE ReplaceInvocation
    BY <1>0, <2>2, ReplaceType
  <2>3. CASE BadInvocation
    BY <1>0, <2>3 DEF ListsInv, BadInvocation, macroVars
  <2>4. CASE EndPass
    BY <1>0, <2>4 DEF ListsInv, EndPass
  <2>5. QED
    BY <2>1, <2>2, <2>3, <2>4 DEF ExpandMacros
<1>5. QED
  BY <1>1, <1>2, <1>3, <1>4 DEF TypeInv

-----------------------------------------------------------------------------
\* map[key] = value keeps the type of a map.
LEMMA AssignType ==
  ASSUME NEW D, NEW S, NEW map \in [D -> S], NEW key, NEW value \in S
  PROVE  /\ Assign(map, key, value) \in [D \union {key} -> S]
         /\ DOMAIN Assign(map, key, value) = D \union {key}
         /\ Assign(map, key, value)[key] = value
         /\ \A k \in D : k # key => Assign(map, key, value)[k] = map[k]
BY DEF Assign

\* The parts of a node.
LEMMA NodeFields ==
  ASSUME NEW n \in NodeType
  PROVE  /\ n.kind \in {"label", "instruction", "directive"}
         /\ n.kind = "label" => n \in LabelType
         /\ n.kind = "instruction" => n \in KnownType
         /\ n.kind = "directive" => /\ n \in DirectiveType /\ n.args \in Seq(ArgType)
                                    /\ Len(n.args) \in Nat /\ DOMAIN n.args = 1 .. Len(n.args)
                                    /\ n.args # <<>> <=> 1 <= Len(n.args)
                                    /\ \A i \in 1 .. Len(n.args) : n.args[i].name \in Names /\ n.args[i].number \in Int
<1>1. /\ n.kind \in {"label", "instruction", "directive"}
      /\ n.kind = "label" => n \in LabelType
      /\ n.kind = "instruction" => n \in KnownType
      /\ n.kind = "directive" => n \in DirectiveType /\ n.args \in Seq(ArgType)
  BY DEF NodeType, LabelType, KnownType, InstructionType, DirectiveType
<1>2. \A a \in ArgType : a.name \in Names /\ a.number \in Int
  BY DEF ArgType
<1>3. ASSUME n.kind = "directive"
      PROVE  /\ Len(n.args) \in Nat /\ DOMAIN n.args = 1 .. Len(n.args)
             /\ n.args # <<>> <=> 1 <= Len(n.args)
             /\ \A i \in 1 .. Len(n.args) : n.args[i] \in ArgType
  BY <1>1, <1>3
<1>4. QED
  BY <1>1, <1>2, <1>3

\* An instruction takes one to three bytes.
LEMMA LengthType == \A name : get_length(name) \in 1 .. 3
<1> SUFFICES ASSUME NEW name PROVE get_length(name) \in {1, 2, 3}
  OBVIOUS
<1>1. get_length(name) = 1 \/ get_length(name) = 2 \/ get_length(name) = 3
  <2>1. CASE name \in DOMAIN AddressOps
    <3>1. name \notin DOMAIN TransferOps
      BY <2>1 DEF AddressOps, TransferOps
    <3>2. QED
      BY <2>1, <3>1, Zenon DEF get_length
  <2>2. CASE name \notin DOMAIN AddressOps
    BY <2>2, Zenon DEF get_length
  <2>3. QED
    BY <2>1, <2>2
<1>2. QED
  BY <1>1

\* transform() translates the program into typed nodes.
LEMMA TranslateType ==
  ASSUME ListsInv, TreeInv, TranslateLines
  PROVE  TreeInv'
<1>1. /\ stage = "translate" /\ node = 1 /\ node' = node
      /\ UNCHANGED <<sections, current_section, positions>>
  BY DEF TreeInv, TranslateLines
<1>2. lines \in Seq(LineType)
  BY DEF ListsInv
<1>3. tree' \in Seq(NodeType)
  <2>1. CASE \A i \in DOMAIN lines : Translatable(lines[i], label_scan)
    <3>1. tree' = [i \in DOMAIN lines |-> translate_line(lines[i])]
      BY <2>1 DEF TranslateLines
    <3>2. \A i \in DOMAIN lines : translate_line(lines[i]) \in NodeType
      BY <1>2, <2>1, LineTranslated
    <3>3. QED
      BY <1>2, <3>1, <3>2
  <2>2. CASE ~ \A i \in DOMAIN lines : Translatable(lines[i], label_scan)
    BY <2>2 DEF TranslateLines, TreeInv
  <2>3. QED
    BY <2>1, <2>2
<1>4. node' \in 1 .. Len(tree') + 1
  BY <1>1, <1>3
<1>5. QED
  BY <1>1, <1>3, <1>4 DEF TreeInv

\* A label gets an address and the section it is in.
LEMMA NumberLabelType ==
  ASSUME TreeInv, NumberLabel
  PROVE  TreeInv'
<1>1. /\ stage = "number" /\ stage' = stage /\ node \in 1 .. Len(tree) /\ Here.kind = "label"
      /\ tree \in Seq(NodeType)
      /\ sections \in [DOMAIN sections -> Int] /\ DOMAIN sections \subseteq Names /\ current_section \in DOMAIN sections
      /\ UNCHANGED <<sections, current_section>> /\ node' = node + 1
  BY DEF TreeInv, NumberLabel, Numbering, AtNode, astVars
<1>2. position \in Int /\ current_section \in Names
  BY <1>1 DEF position
<1> DEFINE placed == [Here EXCEPT !.position = position, !.section = current_section]
<1>3. placed \in NodeType
  <2>1. Here \in LabelType
    BY <1>1, NodeFields DEF Here
  <2>2. placed \in LabelType
    BY <1>2, <2>1 DEF LabelType
  <2>3. QED
    BY <2>2 DEF NodeType
<1>4. tree' = [tree EXCEPT ![node] = placed]
  BY DEF NumberLabel, Here
<1>5. tree' \in Seq(NodeType) /\ Len(tree') = Len(tree)
  <2> HIDE DEF placed
  <2>1. QED
    BY <1>1, <1>3, <1>4
<1>6. positions' \in [DOMAIN positions' -> [address : Int, section : DOMAIN sections]]
  <2>1. PICK P : P = [address : Int, section : DOMAIN sections]
    OBVIOUS
  <2>2. PICK v : v = [address |-> position, section |-> current_section]
    OBVIOUS
  <2>3. v \in P
    BY <1>1, <1>2, <2>1, <2>2
  <2>4. positions \in [DOMAIN positions -> P] /\ positions' = Assign(positions, Here.name, v)
    BY <2>1, <2>2 DEF TreeInv, NumberLabel
  <2>5. positions' \in [DOMAIN positions' -> P]
    <3>1. PICK D, key, next : D = DOMAIN positions /\ key = Here.name /\ next = Assign(positions, key, v)
      OBVIOUS
    <3>2. positions \in [D -> P]
      BY <2>4, <3>1
    <3>3. next \in [D \union {key} -> P] /\ DOMAIN next = D \union {key}
      <4>1. v \in P
        BY <2>3
      <4>2. Assign(positions, key, v) \in [D \union {key} -> P]
        BY <3>2, <4>1, AssignType
      <4>3. next \in [D \union {key} -> P]
        BY <3>1, <4>2
      <4>4. QED
        BY <4>3
    <3>a. positions' = next
      BY <2>4, <3>1
    <3>4. QED
      BY <3>3, <3>a
  <2>6. QED
    BY <1>1, <2>1, <2>5
<1>7. QED
  BY <1>1, <1>5, <1>6 DEF TreeInv

\* The walk goes on to the next node.
LEMMA AdvanceType ==
  ASSUME TreeInv, stage = "number", AtNode, NEW n \in Int, Advance(n)
  PROVE  TreeInv'
<1>1. /\ stage' = stage /\ node' = node + 1 /\ UNCHANGED <<tree, current_section, positions>>
      /\ sections' = [sections EXCEPT ![current_section] = @ + n]
  BY DEF Advance, astVars
<1>2. sections' \in [DOMAIN sections -> Int] /\ DOMAIN sections' = DOMAIN sections
  BY <1>1 DEF TreeInv
<1>3. node' \in 1 .. Len(tree) + 1
  BY <1>1 DEF TreeInv, AtNode
<1>4. QED
  BY <1>1, <1>2, <1>3 DEF TreeInv

\* What a directive takes of its section is a number once its arguments are.
LEMMA DataSizeType ==
  ASSUME TreeInv, Numbering("directive"), Here.name = "skip" => HasNumber(1)
  PROVE  DataSize \in Int
<1>1. Here \in NodeType /\ Here.kind = "directive"
  BY DEF TreeInv, Numbering, AtNode, Here
<1>2. Len(Here.args) \in Int /\ \A i \in 1 .. Len(Here.args) : Here.args[i].number \in Int
  BY <1>1, NodeFields
<1>3. CASE Here.name = "skip"
  <2>1. DataSize = Here.args[1].number
    BY <1>3, Zenon DEF DataSize
  <2>2. 1 \in 1 .. Len(Here.args)
    BY <1>2, <1>3 DEF HasNumber
  <2>3. QED
    BY <1>2, <2>1, <2>2
<1>4. CASE Here.name = "byte"
  <2>1. DataSize = 1
    BY <1>4, Zenon DEF DataSize
  <2>2. QED
    BY <2>1
<1>5. CASE Here.name = "word"
  <2>1. DataSize = 2
    BY <1>5, Zenon DEF DataSize
  <2>2. QED
    BY <2>1
<1>6. CASE Here.name = "bytes"
  <2>1. DataSize = Len(Here.args)
    BY <1>6, Zenon DEF DataSize
  <2>2. QED
    BY <1>2, <2>1
<1>7. CASE Here.name \notin {"skip", "byte", "word", "bytes"}
  <2>1. DataSize = 0
    BY <1>7, Zenon DEF DataSize
  <2>2. QED
    BY <2>1
<1>8. QED
  BY <1>3, <1>4, <1>5, <1>6, <1>7

\* A section directive moves the walk to a section that exists.
LEMMA NumberSectionType ==
  ASSUME TreeInv, NumberSection
  PROVE  TreeInv'
<1> DEFINE section_name == Here.args[1].name
<1>1. /\ stage = "number" /\ stage' = stage /\ node \in 1 .. Len(tree) /\ Here.kind = "directive" /\ Here.args # <<>>
      /\ tree \in Seq(NodeType) /\ Here = tree[node]
      /\ sections \in [DOMAIN sections -> Int] /\ DOMAIN sections \subseteq Names
      /\ positions \in [DOMAIN positions -> [address : Int, section : DOMAIN sections]]
      /\ UNCHANGED <<tree, positions>> /\ node' = node + 1 /\ current_section' = section_name
  BY DEF TreeInv, NumberSection, Numbering, AtNode, Here, astVars
<1>2. Here \in NodeType
  BY <1>1
<1>3. section_name \in Names
  BY <1>1, <1>2, NodeFields
<1>4. /\ sections' \in [DOMAIN sections' -> Int]
      /\ DOMAIN sections' = DOMAIN sections \union {section_name}
  <2>1. CASE section_name \in DOMAIN sections /\ UNCHANGED sections
    BY <1>1, <2>1
  <2>2. CASE HasNumber(2) /\ sections' = Assign(sections, section_name, Here.args[2].number)
    <3>1. Here.args[2].number \in Int
      BY <1>1, <1>2, <2>2, NodeFields DEF HasNumber
    <3>2. Assign(sections, section_name, Here.args[2].number) \in [DOMAIN sections \union {section_name} -> Int]
      <4>1. \A k \in DOMAIN sections : sections[k] \in Int
        BY <1>1
      <4> HIDE DEF section_name
      <4>2. QED
        BY <3>1, <4>1 DEF Assign
    <3>3. QED
      BY <2>2, <3>2
  <2>3. QED
    BY <2>1, <2>2 DEF NumberSection
<1>5. positions' \in [DOMAIN positions' -> [address : Int, section : DOMAIN sections']]
  BY <1>1, <1>4
<1> HIDE DEF section_name
<1>6. QED
  BY <1>1, <1>3, <1>4, <1>5 DEF TreeInv

\* An address that is put into an instruction has sixteen bits.
LEMMA ResolveType ==
  ASSUME TreeInv, NEW n \in NodeType
  PROVE  Resolve(n) \in NodeType
<1>1. CASE n.kind = "instruction" /\ n.label # "" /\ n.label \in DOMAIN positions
  <2>1. n \in KnownType
    BY <1>1, NodeFields
  <2>2. positions[n.label].address \in Int
    BY <1>1 DEF TreeInv
  <2>3. ToUWord(positions[n.label].address) \in UWord
    BY <2>2 DEF ToUWord, UWord, Between
  <2>4. PICK w \in UWord : w = ToUWord(positions[n.label].address)
    BY <2>3
  <2>5. [n EXCEPT !.operand = w] \in KnownType
    BY <2>1 DEF KnownType, InstructionType
  <2>6. Resolve(n) = [n EXCEPT !.operand = w]
    BY <1>1, <2>4 DEF Resolve
  <2>7. QED
    BY <2>5, <2>6 DEF NodeType
<1>2. CASE ~ (n.kind = "instruction" /\ n.label # "" /\ n.label \in DOMAIN positions)
  BY <1>2 DEF Resolve
<1>3. QED
  BY <1>1, <1>2

\* The second walk of the transformer keeps the types.
LEMMA ResolveLabelsType ==
  ASSUME TreeInv, ResolveLabels
  PROVE  TreeInv'
<1>1. /\ stage' = "open" /\ node' = 1 /\ tree \in Seq(NodeType)
      /\ tree' = [i \in DOMAIN tree |-> Resolve(tree[i])]
      /\ UNCHANGED <<sections, current_section, positions>>
  BY DEF TreeInv, ResolveLabels
<1>2. \A i \in DOMAIN tree : Resolve(tree[i]) \in NodeType
  BY <1>1, ResolveType
<1>3. tree' \in Seq(NodeType) /\ node' \in 1 .. Len(tree') + 1
  BY <1>1, <1>2
<1>4. QED
  BY <1>1, <1>3 DEF TreeInv

\* The transformer leaves lines and macros alone.
LEMMA TransformFrame ==
  ASSUME Transform
  PROVE  /\ UNCHANGED <<file, lines, macros>>
         /\ stage \in {"translate", "number", "resolve"} /\ stage' \in {"number", "resolve", "open", "terminated"}
  BY DEF Transform, TranslateLines, NumberLabel, NumberInstruction, NumberSection, NumberDirective,
         NumberThrows, NumberEnd, ResolveLabels, Advance, Numbering, Terminate, astVars

\* The transformer keeps the types.
LEMMA TransformTypeInv == TypeInv /\ Transform /\ UNCHANGED <<macroVars, emitVars>> => TypeInv'
<1> SUFFICES ASSUME TypeInv, Transform, UNCHANGED <<macroVars, emitVars>> PROVE TypeInv'
  OBVIOUS
<1>0. ListsInv /\ TreeInv /\ OutInv
  BY DEF TypeInv
<1>1. ListsInv' /\ OutInv'
  BY <1>0, TransformFrame, ListsFrame, OutFrame
<1>2. stage' \in Stages
  BY TransformFrame DEF Stages
<1>3. TreeInv'
  <2>1. CASE TranslateLines
    BY <1>0, <2>1, TranslateType
  <2>2. CASE NumberLabel
    BY <1>0, <2>2, NumberLabelType
  <2>3. CASE NumberInstruction
    <3>1. get_length(Here.name) \in Int
      BY LengthType
    <3>2. QED
      BY <1>0, <2>3, <3>1, AdvanceType DEF NumberInstruction, Numbering
  <2>4. CASE NumberSection
    BY <1>0, <2>4, NumberSectionType
  <2>5. CASE NumberDirective
    <3>1. DataSize \in Int
      BY <1>0, <2>5, DataSizeType DEF NumberDirective
    <3>2. QED
      BY <1>0, <2>5, <3>1, AdvanceType DEF NumberDirective, Numbering
  <2>6. CASE NumberThrows \/ NumberEnd
    <3>1. UNCHANGED treeVars /\ stage' \notin {"expand", "translate"}
      BY <2>6 DEF NumberThrows, NumberEnd, Terminate
    <3>2. QED
      BY <1>0, <3>1 DEF TreeInv, treeVars
  <2>7. CASE ResolveLabels
    BY <1>0, <2>7, ResolveLabelsType
  <2>8. QED
    BY <2>1, <2>2, <2>3, <2>4, <2>5, <2>6, <2>7 DEF Transform
<1>4. QED
  BY <1>1, <1>2, <1>3 DEF TypeInv

-----------------------------------------------------------------------------
\* Bytes that are appended to the current section.
LEMMA PutType ==
  ASSUME OutInv, UNCHANGED outfile, NEW bytes \in Seq(Byte), Put(bytes)
  PROVE  OutInv'
<1>1. /\ out_sections \in [DOMAIN out_sections -> SectionType] /\ out_section \in DOMAIN out_sections
      /\ out_sections' = [out_sections EXCEPT ![out_section].data = @ \o bytes]
      /\ entry' = entry
  BY DEF OutInv, Put, InSection
<1> DEFINE old  == out_sections[out_section]
           new  == [old EXCEPT !.data = old.data \o bytes]
<1>2. old \in SectionType
  BY <1>1
<1>3. PICK data : data = old.data \o bytes
  OBVIOUS
<1>4. old.data \in Seq(Byte)
  BY <1>2 DEF SectionType
<1>5. data \in Seq(Byte)
  BY <1>3, <1>4, ConcatProperties
<1>6. new \in SectionType
  BY <1>2, <1>3, <1>5 DEF SectionType
<1>7. out_sections' = [out_sections EXCEPT ![out_section] = new]
  BY <1>1
<1>8. out_sections' \in [DOMAIN out_sections -> SectionType]
  <2> HIDE DEF new
  <2>1. QED
    BY <1>1, <1>6, <1>7
<1>9. QED
  BY <1>1, <1>8 DEF OutInv

\* The current node is typed.
LEMMA HereType ==
  ASSUME TreeInv, AtNode
  PROVE  Here \in NodeType
BY DEF TreeInv, AtNode, Here

\* The conversions to a byte and to a word give a byte and a word.
LEMMA ConversionTypes ==
  ASSUME NEW x \in Int
  PROVE  ToByte(x) \in Byte /\ LowByte(x) \in Byte /\ HighByte(ToUWord(x)) \in Byte
BY DEF ToByte, LowByte, HighByte, ToUWord, Byte, Between

\* A section record, for any fields.
LEMMA SectionIn ==
  ASSUME NEW n \in Names, NEW a \in Int, NEW d \in Seq(Byte), NEW f \in SUBSET Flags
  PROVE  [name |-> n, addr |-> a, data |-> d, flags |-> f] \in SectionType
BY DEF SectionType

\* A section directive makes a typed section.
LEMMA EmitSectionType ==
  ASSUME TreeInv, OutInv, UNCHANGED outfile, EmitSection
  PROVE  OutInv'
<1> DEFINE name == Here.args[1].name
<1>1. Here \in NodeType /\ Here.kind = "directive" /\ Here.args # <<>> /\ entry' = entry
  BY HereType DEF EmitSection, EmitDirective, Emitting
<1>2. name \in Names
  BY <1>1, NodeFields
<1>3. out_sections \in [DOMAIN out_sections -> SectionType]
  BY DEF OutInv
<1>4. out_sections' \in [DOMAIN out_sections' -> SectionType]
  <2>1. CASE UNCHANGED out_sections
    BY <1>3, <2>1
  <2>2. CASE HasNumber(2) /\ out_sections' = Assign(out_sections, name, Section(name, Here.args[2].number))
    <3>1. Here.args[2].number \in Int
      BY <1>1, <2>2, NodeFields DEF HasNumber
    <3>2. Flags \in SUBSET Flags /\ <<>> \in Seq(Byte)
      OBVIOUS
    <3>3. Section(name, Here.args[2].number) \in SectionType
      <4> HIDE DEF name
      <4>1. QED
        BY <1>2, <3>1, <3>2, SectionIn, Zenon DEF Section
    <3>4. Assign(out_sections, name, Section(name, Here.args[2].number))
            \in [DOMAIN out_sections \union {name} -> SectionType]
      <4> HIDE DEF name
      <4>1. QED
        BY <1>3, <3>3, AssignType
    <3>5. QED
      BY <2>2, <3>4
  <2>3. QED
    BY <2>1, <2>2 DEF EmitSection
<1>5. QED
  BY <1>1, <1>4 DEF OutInv

\* A .secinfo keeps or makes a typed section.
LEMMA EmitSecinfoType ==
  ASSUME TreeInv, OutInv, UNCHANGED outfile, EmitSecinfo
  PROVE  OutInv'
<1>1. PICK name, old, told :
        /\ name = Here.args[1].name
        /\ old = IF name \in DOMAIN out_sections THEN out_sections[name] ELSE Section("", 0)
        /\ told = {Here.args[i].name : i \in 2 .. Len(Here.args)} \cap Flags
        /\ out_sections' = Assign(out_sections, name, [old EXCEPT !.flags = told])
  BY DEF EmitSecinfo
<1>2. out_sections \in [DOMAIN out_sections -> SectionType] /\ entry' = entry
  BY DEF OutInv, EmitSecinfo
<1>3. old \in SectionType
  <2>1. CASE name \in DOMAIN out_sections
    BY <1>1, <1>2, <2>1
  <2>2. CASE name \notin DOMAIN out_sections
    <3>1. 0 \in Int /\ <<>> \in Seq(Byte) /\ Flags \in SUBSET Flags
      OBVIOUS
    <3>2. [name |-> "", addr |-> 0, data |-> <<>>, flags |-> Flags] \in SectionType
      BY <3>1, NamesIn, SectionIn, Zenon
    <3>3. QED
      BY <1>1, <2>2, <3>2, Zenon DEF Section
  <2>3. QED
    BY <2>1, <2>2
<1>4. told \in SUBSET Flags
  BY <1>1
<1>5. [old EXCEPT !.flags = told] \in SectionType
  BY <1>3, <1>4 DEF SectionType
<1>6. Assign(out_sections, name, [old EXCEPT !.flags = told]) \in [DOMAIN out_sections \union {name} -> SectionType]
  BY <1>2, <1>5, AssignType
<1>7. QED
  BY <1>1, <1>2, <1>6 DEF OutInv

EmitNode ==
  \/ EmitInstruction \/ EmitByte \/ EmitWord \/ EmitBytes \/ EmitEntrypoint
  \/ EmitSection \/ EmitSecinfo \/ EmitGlobal \/ EmitWeak \/ EmitExtern \/ EmitNothing

\* Every node that is emitted takes the walk one further.
LEMMA EmitNodeFrame ==
  ASSUME EmitNode
  PROVE  stage = "emit" /\ AtNode /\ node' = node + 1
BY DEF EmitNode, EmitInstruction, EmitByte, EmitWord, EmitBytes, EmitEntrypoint, EmitSection, EmitSecinfo,
       EmitGlobal, EmitWeak, EmitExtern, EmitNothing, EmitExport, Export, Put, Step, EmitDirective, Emitting

\* A step of the emitter is one of five.
LEMMA EmitCases ==
  ASSUME Emit
  PROVE  \/ OpenOutput
         \/ EmitNode /\ UNCHANGED stage /\ UNCHANGED outfile
         \/ EmitThrows /\ UNCHANGED outfile
         \/ EmitSymbols /\ UNCHANGED outfile
         \/ Save
BY DEF Emit, EmitStep, EmitNode

\* Each node keeps the output typed.
LEMMA EmitNodeType ==
  ASSUME TreeInv, OutInv, EmitNode, UNCHANGED outfile
  PROVE  OutInv'
<1>1. Here \in NodeType
  BY EmitNodeFrame, HereType
<1>2. CASE EmitInstruction
  <2>1. Here \in KnownType /\ Put(emit(Here))
    BY <1>1, <1>2, NodeFields DEF EmitInstruction, Emitting
  <2>2. QED
    BY <2>1, EmitType, PutType
<1>3. ASSUME Here.kind = "directive", HasNumber(1)
      PROVE  Here.args[1].number \in Int
  BY <1>1, <1>3, NodeFields DEF HasNumber
<1>4. CASE EmitByte
  <2>1. PICK x \in Int : x = Here.args[1].number /\ Put(<<ToByte(x)>>)
    BY <1>3, <1>4 DEF EmitByte, EmitDirective, Emitting
  <2>2. <<ToByte(x)>> \in Seq(Byte)
    BY ConversionTypes
  <2>3. QED
    BY <2>1, <2>2, PutType
<1>5. CASE EmitWord
  <2>1. PICK x \in Int : x = Here.args[1].number /\ Put(<<HighByte(ToUWord(x)), LowByte(x)>>)
    BY <1>3, <1>5 DEF EmitWord, EmitDirective, Emitting
  <2>2. <<HighByte(ToUWord(x)), LowByte(x)>> \in Seq(Byte)
    BY ConversionTypes
  <2>3. QED
    BY <2>1, <2>2, PutType
<1>6. CASE EmitBytes
  <2>1. PICK n, bytes : n = Len(Here.args) /\ bytes = [i \in DOMAIN Here.args |-> ToByte(Here.args[i].number)]
    OBVIOUS
  <2>2. Put(bytes)
    BY <1>6, <2>1 DEF EmitBytes
  <2>3. n \in Nat /\ DOMAIN Here.args = 1 .. n /\ \A i \in 1 .. n : ToByte(Here.args[i].number) \in Byte
    BY <1>1, <1>6, <2>1, NodeFields, ConversionTypes DEF EmitBytes, EmitDirective, Emitting
  <2>4. bytes \in Seq(Byte)
    BY <2>1, <2>3
  <2>5. QED
    BY <2>2, <2>4, PutType
<1>7. CASE EmitEntrypoint
  BY <1>3, <1>7 DEF EmitEntrypoint, EmitDirective, Emitting, OutInv
<1>8. CASE EmitSection
  BY <1>8, EmitSectionType
<1>9. CASE EmitSecinfo
  BY <1>9, EmitSecinfoType
<1>10. CASE EmitGlobal \/ EmitWeak \/ EmitExtern \/ EmitNothing
  <2>1. UNCHANGED <<out_sections, entry>>
    BY <1>10 DEF EmitGlobal, EmitWeak, EmitExtern, EmitNothing, EmitExport, Export
  <2>2. QED
    BY <2>1 DEF OutInv
<1>11. QED
  BY <1>2, <1>4, <1>5, <1>6, <1>7, <1>8, <1>9, <1>10 DEF EmitNode

\* The emitter keeps the types.
LEMMA EmitTypeInv ==
  TypeInv /\ Emit /\ UNCHANGED <<file, lines, macros, macroVars>>
                  /\ UNCHANGED <<tree, sections, current_section, positions>> => TypeInv'
<1> SUFFICES ASSUME TypeInv, Emit, UNCHANGED <<file, lines, macros, macroVars>>,
                    UNCHANGED <<tree, sections, current_section, positions>>
             PROVE  TypeInv'
  OBVIOUS
<1>0. ListsInv /\ TreeInv /\ OutInv
  BY DEF TypeInv
<1>1. ListsInv'
  BY <1>0, ListsFrame
<1>2. ASSUME stage' \in Stages \ {"expand", "translate"}, OutInv',
             node' = node \/ (AtNode /\ node' = node + 1)
      PROVE  TypeInv'
  <2>1. node' \in 1 .. Len(tree) + 1
    BY <1>0, <1>2 DEF TreeInv, AtNode
  <2>2. TreeInv'
    BY <1>0, <1>2, <2>1 DEF TreeInv
  <2>3. QED
    BY <1>1, <1>2, <2>2 DEF TypeInv
<1>3. CASE OpenOutput
  BY <1>0, <1>2, <1>3 DEF OpenOutput, OutInv, Stages
<1>4. CASE EmitNode /\ UNCHANGED stage /\ UNCHANGED outfile
  BY <1>0, <1>2, <1>4, EmitNodeType, EmitNodeFrame DEF Stages
<1>5. CASE EmitThrows /\ UNCHANGED outfile
  BY <1>0, <1>2, <1>5 DEF EmitThrows, Terminate, OutInv, Stages
<1>6. CASE EmitSymbols /\ UNCHANGED outfile
  BY <1>0, <1>2, <1>6 DEF EmitSymbols, Terminate, OutInv, Stages
<1>7. CASE Save
  BY <1>0, <1>2, <1>7 DEF Save, OutInv, Stages
<1>8. QED
  BY <1>3, <1>4, <1>5, <1>6, <1>7, EmitCases

\* Every step keeps the types.
LEMMA NextTypeInv == TypeInv /\ [Next]_asmVars => TypeInv'
<1> SUFFICES ASSUME TypeInv, [Next]_asmVars PROVE TypeInv'
  OBVIOUS
<1>1. CASE UNCHANGED asmVars
  <2>1. UNCHANGED <<stage, file, lines, macros, macroVars, treeVars, emitVars>>
    BY <1>1 DEF asmVars, astVars
  <2>2. TreeInv'
    BY <2>1 DEF TypeInv, TreeInv, treeVars
  <2>3. QED
    BY <2>1, <2>2, ListsFrame, OutFrame DEF TypeInv
<1>2. QED
  BY <1>1, ExpandTypeInv, TransformTypeInv, EmitTypeInv DEF Next

\* The types hold throughout, for every set of programs that the parser can
\* hand over.
THEOREM AssemblerInvariance == Spec => []TypeInv
BY InitTypeInv, NextTypeInv, PTL DEF Spec

\* Whatever the program, the lists, the nodes and the sections are what the
\* stages take them for (macro_expander, AsmTreeTransformer, AsmTreeEmitter).
THEOREM AssemblerTypeCorrect == Spec => []TypeOK
BY AssemblerInvariance, TypeInvSuffices, PTL

-----------------------------------------------------------------------------
(* Two walks, the same addresses. *)

IsSection(n) == n.kind = "directive" /\ n.name = "section"
IsSkip(n)    == n.kind = "directive" /\ n.name = "skip"

\* What a node takes of the section that it is in.
Amount(n) ==
  IF n.kind = "instruction" THEN get_length(n.name)
  ELSE IF n.kind = "label" THEN 0
  ELSE IF n.name = "skip" THEN n.args[1].number
  ELSE IF n.name = "byte" THEN 1
  ELSE IF n.name = "word" THEN 2
  ELSE IF n.name = "bytes" THEN Len(n.args)
  ELSE 0

\* Node n takes the walk from the positions s0 with the current section c0 to
\* s1 and c1.
Moves(n, s0, c0, s1, c1) ==
  IF IsSection(n)
  THEN /\ c1 = n.args[1].name
       /\ DOMAIN s1 = DOMAIN s0 \union {c1}
       /\ \A s \in DOMAIN s0 : s1[s] = s0[s]
       /\ c1 \notin DOMAIN s0 => s1[c1] = n.args[2].number
  ELSE /\ c1 = c0
       /\ DOMAIN s1 = DOMAIN s0
       /\ \A s \in DOMAIN s0 : s1[s] = s0[s] + (IF s = c0 THEN Amount(n) ELSE 0)

\* hs and hc are what sections and current_section were when the first walk
\* came to each of the nodes 1 .. m.
Walked(hs, hc, m, t) ==
  /\ hc[1] = "flat" /\ DOMAIN hs[1] = {"flat"}
  /\ \A k \in 1 .. m : hc[k] \in DOMAIN hs[k] /\ hs[k] \in [DOMAIN hs[k] -> Int]
  /\ \A k \in 1 .. m - 1 : /\ Moves(t[k], hs[k], hc[k], hs[k + 1], hc[k + 1])
                           /\ t[k].kind = "label" => /\ t[k].position = hs[k][hc[k]]
                                                     /\ t[k].section = hc[k]

\* The second walk is where the first one was at the node.
Level(section) == out_sections[section].addr + Len(out_sections[section].data)

Follows(hs, hc) ==
  /\ out_section = hc[node]
  /\ DOMAIN hs[node] \subseteq {"flat"} \union DOMAIN out_sections
  /\ \A s \in DOMAIN out_sections : Shared(s) =>
       s \in DOMAIN hs[node] /\ (~ SkipsBefore(node) => hs[node][s] = Level(s))

PlaceInv ==
  /\ stage \in {"expand", "translate"} =>
       node = 1 /\ current_section = "flat" /\ DOMAIN sections = {"flat"}
  /\ stage \in {"expand", "translate", "number", "resolve"} =>
       out_section = "flat" /\ out_sections = <<>>
  /\ stage = "number" =>
       \E hs, hc : Walked(hs, hc, node, tree) /\ sections = hs[node] /\ current_section = hc[node]
  /\ stage = "resolve" => \E hs, hc : Walked(hs, hc, Len(tree) + 1, tree)
  /\ stage \in {"open", "emit"} =>
       \E hs, hc : Walked(hs, hc, Len(tree) + 1, tree) /\ Follows(hs, hc)

\* At a label the first walk's record says where the second walk is.
LEMMA PlaceInvSuffices == TypeInv /\ PlaceInv => LabelPlaced
<1> SUFFICES ASSUME TypeInv, PlaceInv, Emitting("label"), Shared(out_section), ~ SkipsBefore(node)
             PROVE  Here.section = out_section /\ Here.position = NextByte
  BY DEF LabelPlaced
<1>1. stage = "emit" /\ node \in 1 .. Len(tree) /\ Here.kind = "label" /\ Len(tree) \in Nat /\ Here = tree[node]
  BY DEF Emitting, AtNode, Here, TypeInv, TreeInv
<1>2. PICK hs, hc : Walked(hs, hc, Len(tree) + 1, tree) /\ Follows(hs, hc)
  BY <1>1 DEF PlaceInv
<1>3. node \in 1 .. (Len(tree) + 1) - 1
  BY <1>1
<1>4. Here.position = hs[node][hc[node]] /\ Here.section = hc[node]
  BY <1>1, <1>2, <1>3 DEF Walked
<1>5. out_section = hc[node] /\ out_section \in DOMAIN out_sections
  BY <1>2 DEF Follows, Shared
<1>6. hs[node][out_section] = Level(out_section)
  BY <1>2, <1>5 DEF Follows
<1>7. QED
  BY <1>4, <1>5, <1>6 DEF Level, NextByte

\* No walk has begun.
LEMMA BeginPlaceInv == Begin => PlaceInv
BY DEF Begin, TreeInit, EmitInit, PlaceInv

\* One more node of the first walk.
LEMMA WalkOn ==
  ASSUME NEW m \in Nat, m >= 1, NEW t, NEW u, NEW hs, NEW hc, Walked(hs, hc, m, t),
         \A k \in 1 .. m - 1 : u[k] = t[k],
         NEW s1, NEW c1, s1 \in [DOMAIN s1 -> Int], c1 \in DOMAIN s1,
         Moves(u[m], hs[m], hc[m], s1, c1),
         u[m].kind = "label" => u[m].position = hs[m][hc[m]] /\ u[m].section = hc[m]
  PROVE  \E gs, gc : Walked(gs, gc, m + 1, u) /\ gs[m + 1] = s1 /\ gc[m + 1] = c1
<1> DEFINE gs == [k \in 1 .. m + 1 |-> IF k <= m THEN hs[k] ELSE s1]
           gc == [k \in 1 .. m + 1 |-> IF k <= m THEN hc[k] ELSE c1]
<1>1. /\ \A k \in 1 .. m : gs[k] = hs[k] /\ gc[k] = hc[k]
      /\ gs[m + 1] = s1 /\ gc[m + 1] = c1
  OBVIOUS
<1>2. m \in 1 .. m /\ 1 \in 1 .. m
  OBVIOUS
<1> HIDE DEF gs, gc
<1>3. gc[1] = "flat" /\ DOMAIN gs[1] = {"flat"}
  BY <1>1, <1>2 DEF Walked
<1>4. ASSUME NEW k \in 1 .. m + 1
      PROVE  gc[k] \in DOMAIN gs[k] /\ gs[k] \in [DOMAIN gs[k] -> Int]
  <2>1. CASE k \in 1 .. m
    BY <1>1, <2>1 DEF Walked
  <2>2. CASE k = m + 1
    BY <1>1, <2>2
  <2>3. QED
    BY <2>1, <2>2
<1>5. ASSUME NEW k \in 1 .. (m + 1) - 1
      PROVE  /\ Moves(u[k], gs[k], gc[k], gs[k + 1], gc[k + 1])
             /\ u[k].kind = "label" => u[k].position = gs[k][gc[k]] /\ u[k].section = gc[k]
  <2>1. CASE k \in 1 .. m - 1
    <3>1. k \in 1 .. m /\ k + 1 \in 1 .. m
      BY <2>1
    <3>2. /\ Moves(t[k], hs[k], hc[k], hs[k + 1], hc[k + 1])
          /\ t[k].kind = "label" => t[k].position = hs[k][hc[k]] /\ t[k].section = hc[k]
      BY <2>1 DEF Walked
    <3>3. /\ u[k] = t[k] /\ gs[k] = hs[k] /\ gc[k] = hc[k] /\ gs[k + 1] = hs[k + 1] /\ gc[k + 1] = hc[k + 1]
      BY <1>1, <2>1, <3>1
    <3>4. QED
      BY <3>2, <3>3
  <2>2. CASE k = m
    BY <1>1, <1>2, <2>2
  <2>3. QED
    BY <2>1, <2>2
<1>6. Walked(gs, gc, m + 1, u)
  BY <1>3, <1>4, <1>5 DEF Walked
<1>7. QED
  BY <1>1, <1>6

\* What the first walk has seen when it comes to the current node.
HasWalked == \E hs, hc : Walked(hs, hc, node, tree) /\ sections = hs[node] /\ current_section = hc[node]

\* A step of number_labels() makes the record one node longer.
LEMMA NumberOn ==
  ASSUME TypeInv, TypeInv', HasWalked, node \in 1 .. Len(tree), node' = node + 1,
         \A k \in 1 .. node - 1 : tree'[k] = tree[k],
         Moves(tree'[node], sections, current_section, sections', current_section'),
         tree'[node].kind = "label" => tree'[node].position = position /\ tree'[node].section = current_section
  PROVE  HasWalked'
<1>1. PICK hs, hc : Walked(hs, hc, node, tree) /\ sections = hs[node] /\ current_section = hc[node]
  BY DEF HasWalked
<1>2. PICK m, t, u : m = node /\ t = tree /\ u = tree'
  OBVIOUS
<1>3. sections' \in [DOMAIN sections' -> Int] /\ current_section' \in DOMAIN sections'
  BY DEF TypeInv, TreeInv
<1>4. m \in Nat /\ m >= 1 /\ Walked(hs, hc, m, t) /\ \A k \in 1 .. m - 1 : u[k] = t[k]
  BY <1>1, <1>2
<1>5. /\ Moves(u[m], hs[m], hc[m], sections', current_section')
      /\ u[m].kind = "label" => u[m].position = hs[m][hc[m]] /\ u[m].section = hc[m]
  BY <1>1, <1>2 DEF position
<1>6. \E gs, gc : Walked(gs, gc, m + 1, u) /\ gs[m + 1] = sections' /\ gc[m + 1] = current_section'
  <2> HIDE <1>1, <1>2
  <2>1. PICK s1, c1 : s1 = sections' /\ c1 = current_section'
    OBVIOUS
  <2>2. s1 \in [DOMAIN s1 -> Int] /\ c1 \in DOMAIN s1 /\ Moves(u[m], hs[m], hc[m], s1, c1)
    BY <1>3, <1>5, <2>1
  <2>3. \E gs, gc : Walked(gs, gc, m + 1, u) /\ gs[m + 1] = s1 /\ gc[m + 1] = c1
    BY <1>4, <1>5, <2>2, WalkOn
  <2>4. QED
    BY <2>1, <2>3
<1>7. QED
  BY <1>2, <1>6 DEF HasWalked

\* number_labels() counts for a directive what Amount says.
LEMMA DataSizeAmount ==
  ASSUME Here.kind = "directive"
  PROVE  DataSize = Amount(Here)
<1>1. CASE Here.name = "skip"
  BY <1>1, Zenon DEF DataSize, Amount
<1>2. CASE Here.name = "byte"
  BY <1>2, Zenon DEF DataSize, Amount
<1>3. CASE Here.name = "word"
  BY <1>3, Zenon DEF DataSize, Amount
<1>4. CASE Here.name = "bytes"
  BY <1>4, Zenon DEF DataSize, Amount
<1>5. CASE Here.name \notin {"skip", "byte", "word", "bytes"}
  BY <1>5, Zenon DEF DataSize, Amount
<1>6. QED
  BY <1>1, <1>2, <1>3, <1>4, <1>5

\* An instruction or a directive of data.
LEMMA AdvanceOn ==
  ASSUME TypeInv, TypeInv', HasWalked, AtNode, ~ IsSection(Here), Here.kind # "label",
         Amount(Here) \in Int, Advance(Amount(Here))
  PROVE  HasWalked'
<1>1. node \in 1 .. Len(tree) /\ sections \in [DOMAIN sections -> Int] /\ current_section \in DOMAIN sections
  BY DEF TypeInv, TreeInv, AtNode
<1>2. /\ node' = node + 1 /\ tree' = tree /\ current_section' = current_section /\ tree'[node] = Here
      /\ sections' = [sections EXCEPT ![current_section] = @ + Amount(Here)]
  BY DEF Advance, Here
<1>3. PICK n : n = Amount(Here)
  OBVIOUS
<1>4. n \in Int /\ sections' = [sections EXCEPT ![current_section] = sections[current_section] + n]
  BY <1>2, <1>3
<1>5. /\ DOMAIN sections' = DOMAIN sections
      /\ \A s \in DOMAIN sections : sections'[s] = sections[s] + (IF s = current_section THEN n ELSE 0)
  BY <1>1, <1>4
<1>6. Moves(Here, sections, current_section, sections', current_section')
  BY <1>2, <1>3, <1>5 DEF Moves
<1>7. QED
  BY <1>1, <1>2, <1>6, NumberOn

\* A label is given the position that the walk is at.
LEMMA LabelOn ==
  ASSUME TypeInv, TypeInv', HasWalked, NumberLabel
  PROVE  HasWalked'
<1>1. /\ node \in 1 .. Len(tree) /\ sections \in [DOMAIN sections -> Int] /\ current_section \in DOMAIN sections
      /\ tree \in Seq(NodeType) /\ Here.kind = "label" /\ Here = tree[node]
  BY DEF TypeInv, TreeInv, NumberLabel, Numbering, AtNode, Here
<1> DEFINE placed == [Here EXCEPT !.position = position, !.section = current_section]
<1>2. node' = node + 1 /\ UNCHANGED <<sections, current_section>> /\ tree' = [tree EXCEPT ![node] = placed]
  BY DEF NumberLabel, Here
<1>3. Here \in LabelType
  BY <1>1, NodeFields
<1>4. placed.kind = "label" /\ placed.position = position /\ placed.section = current_section
  BY <1>3 DEF LabelType
<1> HIDE DEF placed
<1>5. tree'[node] = placed /\ \A k \in 1 .. node - 1 : tree'[k] = tree[k]
  BY <1>1, <1>2
<1>6. ~ IsSection(placed) /\ Amount(placed) = 0
  BY <1>4 DEF IsSection, Amount
<1>7. \A s \in DOMAIN sections : sections[s] = sections[s] + (IF s = current_section THEN 0 ELSE 0)
  BY <1>1
<1>8. Moves(placed, sections, current_section, sections', current_section')
  BY <1>2, <1>6, <1>7 DEF Moves
<1>9. QED
  BY <1>1, <1>2, <1>4, <1>5, <1>8, NumberOn

\* A section directive.
LEMMA SectionOn ==
  ASSUME TypeInv, TypeInv', HasWalked, NumberSection
  PROVE  HasWalked'
<1>1. /\ node \in 1 .. Len(tree) /\ sections \in [DOMAIN sections -> Int] /\ IsSection(Here)
      /\ tree' = tree /\ node' = node + 1 /\ tree'[node] = Here
  BY DEF TypeInv, TreeInv, NumberSection, Numbering, AtNode, Here, IsSection
<1>2. PICK name, number : name = Here.args[1].name /\ number = Here.args[2].number
  OBVIOUS
<1>3. /\ current_section' = name
      /\ \/ name \in DOMAIN sections /\ sections' = sections
         \/ name \notin DOMAIN sections /\ sections' = Assign(sections, name, number)
  BY <1>2 DEF NumberSection
<1>4. /\ DOMAIN sections' = DOMAIN sections \union {name}
      /\ \A s \in DOMAIN sections : sections'[s] = sections[s]
      /\ name \notin DOMAIN sections => sections'[name] = number
  <2>1. CASE name \in DOMAIN sections /\ sections' = sections
    BY <2>1
  <2>2. CASE name \notin DOMAIN sections /\ sections' = Assign(sections, name, number)
    BY <2>2 DEF Assign
  <2>3. QED
    BY <1>3, <2>1, <2>2
<1>5. Moves(Here, sections, current_section, sections', current_section')
  BY <1>1, <1>2, <1>3, <1>4 DEF Moves
<1>6. Here.kind # "label"
  BY <1>1 DEF IsSection
<1>7. QED
  BY <1>1, <1>5, <1>6, NumberOn

\* Before the first node, the record holds the section flat alone.
LEMMA FirstNode ==
  ASSUME TypeInv', node' = 1, current_section' = "flat", DOMAIN sections' = {"flat"}
  PROVE  HasWalked'
<1>1. PICK s0, t : s0 = sections' /\ t = tree'
  OBVIOUS
<1>2. s0 \in [DOMAIN s0 -> Int] /\ DOMAIN s0 = {"flat"}
  BY <1>1 DEF TypeInv, TreeInv
<1> DEFINE hs == [k \in 1 .. 1 |-> s0]
           hc == [k \in 1 .. 1 |-> "flat"]
<1>3. hs[1] = s0 /\ hc[1] = "flat"
  OBVIOUS
<1>4. \A k \in 1 .. 1 : k = 1
  OBVIOUS
<1>5. \A k \in 1 .. 1 - 1 : FALSE
  OBVIOUS
<1> HIDE DEF hs, hc
<1>6. Walked(hs, hc, 1, t)
  <2>1. hc[1] = "flat" /\ DOMAIN hs[1] = {"flat"}
    BY <1>2, <1>3
  <2>2. hc[1] \in DOMAIN hs[1] /\ hs[1] \in [DOMAIN hs[1] -> Int]
    BY <1>2, <1>3
  <2>3. QED
    BY <2>1, <2>2, <1>4, <1>5, Zenon DEF Walked
<1>7. QED
  BY <1>1, <1>3, <1>6 DEF HasWalked

\* The second walk finds the nodes as the first one did: an operand that has
\* been resolved takes no more and no fewer bytes.
LEMMA WalkedResolved ==
  ASSUME NEW m \in Nat, NEW t, NEW u, NEW hs, NEW hc, Walked(hs, hc, m, t),
         \A k \in 1 .. m - 1 : \/ u[k] = t[k]
                               \/ t[k].kind = "instruction" /\ u[k].kind = "instruction" /\ u[k].name = t[k].name
  PROVE  Walked(hs, hc, m, u)
<1>1. ASSUME NEW k \in 1 .. m - 1
      PROVE  /\ Moves(u[k], hs[k], hc[k], hs[k + 1], hc[k + 1])
             /\ u[k].kind = "label" => u[k].position = hs[k][hc[k]] /\ u[k].section = hc[k]
  <2>1. /\ Moves(t[k], hs[k], hc[k], hs[k + 1], hc[k + 1])
        /\ t[k].kind = "label" => t[k].position = hs[k][hc[k]] /\ t[k].section = hc[k]
    BY DEF Walked
  <2>2. CASE u[k] = t[k]
    BY <2>1, <2>2
  <2>3. CASE t[k].kind = "instruction" /\ u[k].kind = "instruction" /\ u[k].name = t[k].name
    <3>1. ~ IsSection(t[k]) /\ ~ IsSection(u[k]) /\ Amount(u[k]) = Amount(t[k])
      BY <2>3 DEF IsSection, Amount
    <3>2. Moves(u[k], hs[k], hc[k], hs[k + 1], hc[k + 1])
      BY <2>1, <3>1 DEF Moves
    <3>3. QED
      BY <2>3, <3>2
  <2>4. QED
    BY <2>2, <2>3
<1>2. QED
  BY <1>1 DEF Walked

\* resolving the labels keeps the record of the first walk, and the second begins.
LEMMA ResolveOn ==
  ASSUME TypeInv, TypeInv', PlaceInv, ResolveLabels, UNCHANGED emitVars
  PROVE  PlaceInv'
<1>1. /\ stage = "resolve" /\ stage' = "open" /\ node' = 1 /\ tree \in Seq(NodeType) /\ Len(tree) \in Nat
      /\ tree' = [i \in DOMAIN tree |-> Resolve(tree[i])]
      /\ UNCHANGED <<out_section, out_sections>>
  BY DEF TypeInv, TreeInv, ResolveLabels, emitVars
<1>2. PICK hs, hc : Walked(hs, hc, Len(tree) + 1, tree)
  BY <1>1 DEF PlaceInv
<1>3. out_section = "flat" /\ out_sections = <<>>
  BY <1>1 DEF PlaceInv
<1>4. PICK t, u : t = tree /\ u = tree'
  OBVIOUS
<1>5. Len(u) = Len(t) /\ Len(t) \in Nat
  BY <1>1, <1>4
<1>6. ASSUME NEW k \in 1 .. Len(t)
      PROVE  \/ u[k] = t[k]
             \/ t[k].kind = "instruction" /\ u[k].kind = "instruction" /\ u[k].name = t[k].name
  <2>1. t[k] \in NodeType /\ u[k] = Resolve(t[k])
    BY <1>1, <1>4
  <2>2. CASE t[k].kind = "instruction"
    <3>1. t[k] \in KnownType
      BY <2>1, <2>2, NodeFields
    <3>2. \A w : /\ [t[k] EXCEPT !.operand = w].kind = t[k].kind
                 /\ [t[k] EXCEPT !.operand = w].name = t[k].name
      BY <3>1 DEF KnownType, InstructionType
    <3>3. QED
      BY <2>1, <2>2, <3>2 DEF Resolve
  <2>3. CASE t[k].kind # "instruction"
    BY <2>1, <2>3 DEF Resolve
  <2>4. QED
    BY <2>2, <2>3
<1>7. Walked(hs, hc, Len(u) + 1, u)
  <2>1. PICK m : m = Len(t) + 1
    OBVIOUS
  <2>2. m \in Nat /\ m - 1 = Len(t) /\ m = Len(u) + 1 /\ Walked(hs, hc, m, t)
    BY <1>2, <1>4, <1>5, <2>1
  <2>3. Walked(hs, hc, m, u)
    BY <1>6, <2>2, WalkedResolved
  <2>4. QED
    BY <2>2, <2>3
<1>8. Follows(hs, hc)'
  <2>1. hc[1] = "flat" /\ DOMAIN hs[1] = {"flat"}
    BY <1>2 DEF Walked
  <2>2. DOMAIN out_sections' = {}
    BY <1>1, <1>3
  <2>3. QED
    BY <1>1, <1>3, <2>1, <2>2 DEF Follows
<1>9. QED
  BY <1>1, <1>4, <1>7, <1>8 DEF PlaceInv

\* The transformer keeps the invariant.
LEMMA TransformPlaceInv ==
  ASSUME TypeInv, TypeInv', PlaceInv, Transform, UNCHANGED emitVars
  PROVE  PlaceInv'
<1>1. CASE ResolveLabels
  BY <1>1, ResolveOn
<1>2. ASSUME stage \in {"translate", "number"}, stage' = "number", HasWalked'
      PROVE  PlaceInv'
  BY <1>2 DEF PlaceInv, HasWalked, emitVars
<1>3. ASSUME stage = "number" PROVE HasWalked
  BY <1>3 DEF PlaceInv, HasWalked
<1>4. ASSUME stage' = "terminated" PROVE PlaceInv'
  BY <1>4 DEF PlaceInv
<1>5. CASE TranslateLines
  <2>1. /\ stage = "translate" /\ node' = node /\ UNCHANGED <<sections, current_section>>
        /\ stage' = "number" \/ stage' = "terminated"
    BY <1>5 DEF TranslateLines, Terminate
  <2>2. HasWalked'
    BY <2>1, FirstNode DEF PlaceInv
  <2>3. QED
    BY <1>2, <1>4, <2>1, <2>2
<1>6. CASE NumberLabel
  <2>1. stage = "number" /\ stage' = "number"
    BY <1>6 DEF NumberLabel, Numbering, astVars
  <2>2. QED
    BY <1>2, <1>3, <1>6, <2>1, LabelOn
<1>7. CASE NumberInstruction
  <2>1. stage = "number" /\ stage' = "number" /\ AtNode /\ Here.kind = "instruction" /\ Advance(get_length(Here.name))
    BY <1>7 DEF NumberInstruction, Numbering, Advance, astVars
  <2>2. ~ IsSection(Here) /\ Amount(Here) = get_length(Here.name) /\ Amount(Here) \in Int
    BY <2>1, LengthType DEF IsSection, Amount
  <2>3. QED
    BY <1>2, <1>3, <2>1, <2>2, AdvanceOn
<1>8. CASE NumberSection
  <2>1. stage = "number" /\ stage' = "number"
    BY <1>8 DEF NumberSection, Numbering, astVars
  <2>2. QED
    BY <1>2, <1>3, <1>8, <2>1, SectionOn
<1>9. CASE NumberDirective
  <2>1. /\ stage = "number" /\ stage' = "number" /\ AtNode /\ Here.kind = "directive" /\ Here.name # "section"
        /\ Advance(DataSize)
    BY <1>9 DEF NumberDirective, Numbering, Advance, astVars
  <2>2. DataSize \in Int
    BY <1>9, DataSizeType DEF NumberDirective, TypeInv
  <2>3. ~ IsSection(Here) /\ Amount(Here) = DataSize
    BY <2>1, DataSizeAmount DEF IsSection
  <2>4. QED
    BY <1>2, <1>3, <2>1, <2>2, <2>3, AdvanceOn
<1>10. CASE NumberThrows
  BY <1>4, <1>10 DEF NumberThrows, Terminate
<1>11. CASE NumberEnd
  <2>1. stage = "number" /\ stage' = "resolve" /\ ~ AtNode /\ UNCHANGED treeVars
    BY <1>11 DEF NumberEnd
  <2>2. node = Len(tree) + 1
    BY <2>1 DEF AtNode, TypeInv, TreeInv
  <2>3. PICK hs, hc : Walked(hs, hc, node, tree)
    BY <1>3, <2>1 DEF HasWalked
  <2>4. Walked(hs, hc, Len(tree') + 1, tree')
    BY <2>1, <2>2, <2>3 DEF treeVars
  <2>5. QED
    BY <2>1, <2>4 DEF PlaceInv, emitVars
<1>12. QED
  BY <1>1, <1>5, <1>6, <1>7, <1>8, <1>9, <1>10, <1>11 DEF Transform

\* A node that is no section directive: both walks stay in their section, and
\* the second one puts as much into it as the first one has counted.
LEMMA FollowOn ==
  ASSUME TypeInv, NEW hs, NEW hc, Walked(hs, hc, Len(tree) + 1, tree), Follows(hs, hc),
         AtNode, node' = node + 1, tree' = tree, ~ IsSection(Here),
         out_section' = out_section,
         DOMAIN out_sections \subseteq DOMAIN out_sections',
         \A s \in DOMAIN out_sections' : Shared(s)' =>
           /\ s \in DOMAIN out_sections /\ Shared(s)
           /\ ~ IsSkip(Here) => Level(s)' = Level(s) + (IF s = out_section THEN Amount(Here) ELSE 0)
  PROVE  Follows(hs, hc)'
<1>1. node \in 1 .. Len(tree) /\ Len(tree) \in Nat /\ Here = tree[node]
  BY DEF TypeInv, TreeInv, AtNode, Here
<1>2. Moves(Here, hs[node], hc[node], hs[node + 1], hc[node + 1])
  <2>1. node \in 1 .. (Len(tree) + 1) - 1
    BY <1>1
  <2>2. QED
    BY <1>1, <2>1 DEF Walked
<1>3. /\ hc[node + 1] = hc[node] /\ DOMAIN hs[node + 1] = DOMAIN hs[node]
      /\ \A s \in DOMAIN hs[node] : hs[node + 1][s] = hs[node][s] + (IF s = hc[node] THEN Amount(Here) ELSE 0)
  BY <1>2 DEF Moves
<1>4. ASSUME NEW s \in DOMAIN out_sections', Shared(s)'
      PROVE  s \in DOMAIN hs[node'] /\ (~ SkipsBefore(node)' => hs[node'][s] = Level(s)')
  <2>1. s \in DOMAIN out_sections /\ Shared(s)
    BY <1>4
  <2>2. s \in DOMAIN hs[node] /\ (~ SkipsBefore(node) => hs[node][s] = Level(s))
    BY <2>1 DEF Follows
  <2>3. ASSUME ~ SkipsBefore(node)'
        PROVE  ~ SkipsBefore(node) /\ ~ IsSkip(Here)
    <3>1. \A i \in 1 .. node : ~ IsSkip(tree[i])
      BY <1>1, <2>3 DEF SkipsBefore, IsSkip, A!IsDirective
    <3>2. QED
      BY <1>1, <3>1 DEF SkipsBefore, IsSkip, A!IsDirective
  <2>4. hc[node] = out_section
    BY DEF Follows
  <2>5. QED
    BY <1>3, <1>4, <2>1, <2>2, <2>3, <2>4
<1>5. out_section' = hc[node']
  BY <1>3 DEF Follows
<1>6. DOMAIN hs[node'] \subseteq {"flat"} \union DOMAIN out_sections'
  BY <1>3 DEF Follows
<1>7. QED
  BY <1>4, <1>5, <1>6 DEF Follows

\* The length of what has been appended to.
LEMMA ConcatLength ==
  ASSUME NEW S, NEW a \in Seq(S), NEW b \in Seq(S)
  PROVE  Len(a \o b) = Len(a) + Len(b) /\ Len(a) \in Nat /\ Len(b) \in Nat
BY ConcatProperties

\* A node of which the bytes are appended.
LEMMA PutOn ==
  ASSUME TypeInv, NEW hs, NEW hc, Walked(hs, hc, Len(tree) + 1, tree), Follows(hs, hc),
         AtNode, tree' = tree, ~ IsSection(Here),
         NEW bytes \in Seq(Byte), Put(bytes), Len(bytes) = Amount(Here)
  PROVE  Follows(hs, hc)'
<1>1. /\ out_sections \in [DOMAIN out_sections -> SectionType] /\ out_section \in DOMAIN out_sections
      /\ out_sections' = [out_sections EXCEPT ![out_section].data = @ \o bytes]
      /\ node' = node + 1 /\ out_section' = out_section
  BY DEF TypeInv, OutInv, Put, Step, InSection
<1>2. PICK old : old = out_sections[out_section]
  OBVIOUS
<1>3. old \in SectionType /\ old.data \in Seq(Byte)
  BY <1>1, <1>2 DEF SectionType
<1>4. PICK data : data = old.data \o bytes
  OBVIOUS
<1>5. Len(data) = Len(old.data) + Len(bytes) /\ Len(old.data) \in Nat /\ Len(bytes) \in Nat
  <2>1. PICK before : before = old.data
    OBVIOUS
  <2>2. before \in Seq(Byte) /\ data = before \o bytes
    BY <1>3, <1>4, <2>1
  <2>3. Len(data) = Len(before) + Len(bytes) /\ Len(before) \in Nat /\ Len(bytes) \in Nat
    BY <2>2, ConcatLength, Zenon
  <2>4. QED
    BY <2>1, <2>3
<1>6. PICK new : new = [old EXCEPT !.data = data]
  OBVIOUS
<1>7. new.name = old.name /\ new.addr = old.addr /\ new.data = data /\ old.addr \in Int
  BY <1>3, <1>6 DEF SectionType
<1>8. out_sections' = [out_sections EXCEPT ![out_section] = new]
  BY <1>1, <1>2, <1>4, <1>6
<1>9. DOMAIN out_sections' = DOMAIN out_sections /\ out_sections'[out_section] = new
      /\ \A s \in DOMAIN out_sections : s # out_section => out_sections'[s] = out_sections[s]
  BY <1>1, <1>8
<1>10. ASSUME NEW s \in DOMAIN out_sections', Shared(s)'
       PROVE  /\ s \in DOMAIN out_sections /\ Shared(s)
              /\ Level(s)' = Level(s) + (IF s = out_section THEN Amount(Here) ELSE 0)
  <2>1. CASE s = out_section
    <3>1. Shared(s)
      BY <1>1, <1>2, <1>7, <1>9, <1>10, <2>1 DEF Shared
    <3>2. Level(s) = old.addr + Len(old.data) /\ Level(s)' = old.addr + Len(data)
      BY <1>1, <1>2, <1>7, <1>9, <2>1 DEF Level
    <3>3. QED
      BY <1>5, <1>7, <1>9, <2>1, <3>1, <3>2
  <2>2. CASE s # out_section
    <3>1. s \in DOMAIN out_sections /\ out_sections'[s] = out_sections[s]
      BY <1>9, <2>2
    <3>2. out_sections[s] \in SectionType
      BY <1>1, <3>1
    <3>3. Level(s) \in Int
      <4>1. out_sections[s].addr \in Int /\ Len(out_sections[s].data) \in Nat
        BY <3>2 DEF SectionType
      <4>2. QED
        BY <4>1 DEF Level
    <3>4. Shared(s) /\ Level(s)' = Level(s)
      BY <1>10, <3>1 DEF Shared, Level
    <3>5. QED
      BY <2>2, <3>1, <3>3, <3>4
  <2>3. QED
    BY <2>1, <2>2
<1>11. QED
  BY <1>1, <1>9, <1>10, FollowOn

\* A directive that emits nothing and counts for nothing.
LEMMA QuietOn ==
  ASSUME TypeInv, NEW hs, NEW hc, Walked(hs, hc, Len(tree) + 1, tree), Follows(hs, hc),
         AtNode, node' = node + 1, tree' = tree, ~ IsSection(Here), IsSkip(Here) \/ Amount(Here) = 0,
         UNCHANGED <<out_section, out_sections>>
  PROVE  Follows(hs, hc)'
<1>1. ASSUME NEW s \in DOMAIN out_sections
      PROVE  Level(s) \in Int
  <2>1. out_sections[s] \in SectionType
    BY DEF TypeInv, OutInv
  <2>2. out_sections[s].addr \in Int /\ Len(out_sections[s].data) \in Nat
    BY <2>1 DEF SectionType
  <2>3. QED
    BY <2>2 DEF Level
<1>2. ASSUME NEW s \in DOMAIN out_sections', Shared(s)'
      PROVE  /\ s \in DOMAIN out_sections /\ Shared(s)
             /\ ~ IsSkip(Here) => Level(s)' = Level(s) + (IF s = out_section THEN Amount(Here) ELSE 0)
  <2>1. s \in DOMAIN out_sections /\ Shared(s) /\ Level(s)' = Level(s)
    BY <1>2 DEF Shared, Level
  <2>2. QED
    BY <1>1, <2>1
<1>3. QED
  BY <1>2, FollowOn

\* A .secinfo makes at most a section without a name, which is not shared.
LEMMA SecinfoOn ==
  ASSUME TypeInv, NEW hs, NEW hc, Walked(hs, hc, Len(tree) + 1, tree), Follows(hs, hc),
         tree' = tree, EmitSecinfo
  PROVE  Follows(hs, hc)'
<1>1. AtNode /\ node' = node + 1 /\ out_section' = out_section /\ Here.kind = "directive" /\ Here.name = "secinfo"
  BY DEF EmitSecinfo, EmitDirective, Emitting, Step
<1>2. ~ IsSection(Here) /\ ~ IsSkip(Here) /\ Amount(Here) = 0
  BY <1>1 DEF IsSection, IsSkip, Amount
<1>3. PICK name, old, told, new :
        /\ old = IF name \in DOMAIN out_sections THEN out_sections[name] ELSE Section("", 0)
        /\ new = [old EXCEPT !.flags = told]
        /\ out_sections' = Assign(out_sections, name, new)
  BY DEF EmitSecinfo
<1>4. /\ DOMAIN out_sections' = DOMAIN out_sections \union {name} /\ out_sections'[name] = new
      /\ \A s \in DOMAIN out_sections : s # name => out_sections'[s] = out_sections[s]
  BY <1>3 DEF Assign
<1>5. ASSUME NEW s \in DOMAIN out_sections
      PROVE  out_sections[s] \in SectionType /\ Level(s) \in Int
  <2>1. out_sections[s] \in SectionType
    BY DEF TypeInv, OutInv
  <2>2. out_sections[s].addr \in Int /\ Len(out_sections[s].data) \in Nat
    BY <2>1 DEF SectionType
  <2>3. QED
    BY <2>1, <2>2 DEF Level
<1>6. ASSUME NEW s \in DOMAIN out_sections', Shared(s)'
      PROVE  s \in DOMAIN out_sections /\ Shared(s) /\ Level(s)' = Level(s)
  <2>1. s \notin {"flat", ""} /\ out_sections'[s].name = s
    BY <1>6 DEF Shared
  <2>2. CASE s \in DOMAIN out_sections /\ s # name
    BY <1>4, <2>1, <2>2 DEF Shared, Level
  <2>3. CASE s = name /\ name \in DOMAIN out_sections
    <3>1. old \in SectionType /\ old = out_sections[s]
      BY <1>3, <1>5, <2>3
    <3>2. new.name = old.name /\ new.addr = old.addr /\ new.data = old.data
      BY <1>3, <3>1 DEF SectionType
    <3>3. QED
      BY <1>4, <2>1, <2>3, <3>1, <3>2 DEF Shared, Level
  <2>4. CASE s = name /\ name \notin DOMAIN out_sections
    <3>1. new.name = ""
      BY <1>3, <2>4 DEF Section
    <3>2. QED
      BY <1>4, <2>1, <2>4, <3>1
  <2>5. QED
    BY <1>4, <2>2, <2>3, <2>4
<1>7. ASSUME NEW s \in DOMAIN out_sections', Shared(s)'
      PROVE  /\ s \in DOMAIN out_sections /\ Shared(s)
             /\ Level(s)' = Level(s) + (IF s = out_section THEN Amount(Here) ELSE 0)
  BY <1>2, <1>5, <1>6, <1>7
<1>8. QED
  BY <1>1, <1>2, <1>4, <1>7, FollowOn

\* A section directive creates the section for both walks, at the same address.
LEMMA SectionFollows ==
  ASSUME TypeInv, NEW hs, NEW hc, Walked(hs, hc, Len(tree) + 1, tree), Follows(hs, hc),
         tree' = tree, EmitSection
  PROVE  Follows(hs, hc)'
<1>1. PICK name, number : name = Here.args[1].name /\ number = Here.args[2].number
  OBVIOUS
<1>2. /\ AtNode /\ node' = node + 1 /\ IsSection(Here) /\ out_section' = name
      /\ \/ name \in DOMAIN out_sections /\ out_sections' = out_sections
         \/ /\ name \notin DOMAIN out_sections
            /\ out_sections' = Assign(out_sections, name, Section(name, number))
  BY <1>1 DEF EmitSection, EmitDirective, Emitting, Step, IsSection
<1>3. node \in 1 .. Len(tree) /\ Len(tree) \in Nat /\ Here = tree[node]
  BY <1>2 DEF TypeInv, TreeInv, AtNode, Here
<1>4. Moves(Here, hs[node], hc[node], hs[node + 1], hc[node + 1])
  <2>1. node \in 1 .. (Len(tree) + 1) - 1
    BY <1>3
  <2>2. QED
    BY <1>3, <2>1 DEF Walked
<1>5. /\ hc[node + 1] = name /\ DOMAIN hs[node + 1] = DOMAIN hs[node] \union {name}
      /\ \A s \in DOMAIN hs[node] : hs[node + 1][s] = hs[node][s]
      /\ name \notin DOMAIN hs[node] => hs[node + 1][name] = number
  BY <1>1, <1>2, <1>4 DEF Moves
<1>6. DOMAIN out_sections' = DOMAIN out_sections \union {name}
      /\ \A s \in DOMAIN out_sections : out_sections'[s] = out_sections[s]
  BY <1>2 DEF Assign
<1>7. SkipsBefore(node) => SkipsBefore(node)'
  BY <1>2, <1>3 DEF SkipsBefore
<1>8. ASSUME NEW s \in DOMAIN out_sections', Shared(s)'
      PROVE  s \in DOMAIN hs[node'] /\ (~ SkipsBefore(node)' => hs[node'][s] = Level(s)')
  <2>1. CASE s \in DOMAIN out_sections
    <3>1. Shared(s) /\ Level(s)' = Level(s)
      BY <1>6, <1>8, <2>1 DEF Shared, Level
    <3>2. s \in DOMAIN hs[node] /\ (~ SkipsBefore(node) => hs[node][s] = Level(s))
      BY <2>1, <3>1 DEF Follows
    <3>3. QED
      BY <1>2, <1>5, <1>7, <3>1, <3>2
  <2>2. CASE s \notin DOMAIN out_sections
    <3>1. s = name /\ s # "flat"
      BY <1>6, <1>8, <2>2 DEF Shared
    <3>2. s \notin DOMAIN hs[node]
      BY <2>2, <3>1 DEF Follows
    <3>3. out_sections'[s] = Section(name, number)
      BY <1>2, <2>2, <3>1 DEF Assign
    <3>4. number \in Int
      <4>1. node + 1 \in 1 .. Len(tree) + 1
        BY <1>3
      <4>2. hs[node + 1][name] \in Int
        BY <1>5, <4>1 DEF Walked
      <4>3. QED
        BY <1>5, <3>1, <3>2, <4>2
    <3>5. Level(s)' = number
      BY <3>3, <3>4 DEF Level, Section
    <3>6. QED
      BY <1>2, <1>5, <3>1, <3>2, <3>5
  <2>3. QED
    BY <2>1, <2>2
<1>9. DOMAIN hs[node'] \subseteq {"flat"} \union DOMAIN out_sections'
  BY <1>2, <1>5, <1>6 DEF Follows
<1>10. QED
  BY <1>2, <1>5, <1>8, <1>9 DEF Follows

\* Each node keeps the second walk level with the first.
LEMMA EmitNodeOn ==
  ASSUME TypeInv, NEW hs, NEW hc, Walked(hs, hc, Len(tree) + 1, tree), Follows(hs, hc),
         tree' = tree, EmitNode
  PROVE  Follows(hs, hc)'
<1>1. AtNode /\ node' = node + 1 /\ Here \in NodeType
  BY EmitNodeFrame, HereType DEF TypeInv
<1>2. CASE EmitInstruction
  <2>1. Here \in KnownType /\ Put(emit(Here)) /\ Here.kind = "instruction"
    BY <1>1, <1>2, NodeFields DEF EmitInstruction, Emitting
  <2>2. emit(Here) \in Seq(Byte) /\ Len(emit(Here)) = Amount(Here) /\ ~ IsSection(Here)
    BY <2>1, EmitType DEF Amount, IsSection
  <2>3. QED
    BY <1>1, <2>1, <2>2, PutOn
<1>3. ASSUME Here.kind = "directive", HasNumber(1)
      PROVE  Here.args[1].number \in Int
  BY <1>1, <1>3, NodeFields DEF HasNumber
<1>4. CASE EmitByte
  <2>1. Here.kind = "directive" /\ Here.name = "byte" /\ HasNumber(1)
    BY <1>4 DEF EmitByte, EmitDirective, Emitting
  <2>2. PICK b : b = <<ToByte(Here.args[1].number)>>
    OBVIOUS
  <2>3. Put(b)
    BY <1>4, <2>2 DEF EmitByte
  <2>4. b \in Seq(Byte) /\ Len(b) = Amount(Here) /\ ~ IsSection(Here)
    BY <1>3, <2>1, <2>2, ConversionTypes DEF Amount, IsSection
  <2>5. QED
    BY <1>1, <2>3, <2>4, PutOn
<1>5. CASE EmitWord
  <2>1. Here.kind = "directive" /\ Here.name = "word" /\ HasNumber(1)
    BY <1>5 DEF EmitWord, EmitDirective, Emitting
  <2>2. PICK b : b = <<HighByte(ToUWord(Here.args[1].number)), LowByte(Here.args[1].number)>>
    OBVIOUS
  <2>3. Put(b)
    BY <1>5, <2>2 DEF EmitWord
  <2>4. b \in Seq(Byte) /\ Len(b) = Amount(Here) /\ ~ IsSection(Here)
    BY <1>3, <2>1, <2>2, ConversionTypes DEF Amount, IsSection
  <2>5. QED
    BY <1>1, <2>3, <2>4, PutOn
<1>6. CASE EmitBytes
  <2>1. Here.kind = "directive" /\ Here.name = "bytes"
    BY <1>6 DEF EmitBytes, EmitDirective, Emitting
  <2>2. PICK n, b : n = Len(Here.args) /\ b = [i \in DOMAIN Here.args |-> ToByte(Here.args[i].number)]
    OBVIOUS
  <2>3. Put(b)
    BY <1>6, <2>2 DEF EmitBytes
  <2>4. n \in Nat /\ DOMAIN Here.args = 1 .. n /\ \A i \in 1 .. n : ToByte(Here.args[i].number) \in Byte
    BY <1>1, <2>1, <2>2, NodeFields, ConversionTypes
  <2>5. b \in Seq(Byte) /\ Len(b) = n
    BY <2>2, <2>4
  <2>6. Amount(Here) = n /\ ~ IsSection(Here)
    BY <2>1, <2>2 DEF Amount, IsSection
  <2>7. QED
    BY <1>1, <2>3, <2>5, <2>6, PutOn
<1>7. CASE EmitSection
  BY <1>7, SectionFollows
<1>8. CASE EmitSecinfo
  BY <1>8, SecinfoOn
<1>9. CASE EmitEntrypoint \/ EmitGlobal \/ EmitWeak \/ EmitExtern
  <2>1. /\ Here.kind = "directive" /\ Here.name \in {"entrypoint", "global", "weak", "extern"}
        /\ UNCHANGED <<out_section, out_sections>>
    BY <1>9 DEF EmitEntrypoint, EmitGlobal, EmitWeak, EmitExtern, EmitExport, Export, EmitDirective, Emitting
  <2>2. ~ IsSection(Here) /\ Amount(Here) = 0
    BY <2>1 DEF IsSection, Amount
  <2>3. QED
    BY <1>1, <2>1, <2>2, QuietOn
<1>10. CASE EmitNothing
  <2>1. UNCHANGED <<out_section, out_sections>>
    BY <1>10 DEF EmitNothing
  <2>2. ~ IsSection(Here) /\ (IsSkip(Here) \/ Amount(Here) = 0)
    BY <1>10 DEF EmitNothing, Emitting, Known, IsSection, IsSkip, Amount
  <2>3. QED
    BY <1>1, <2>1, <2>2, QuietOn
<1>11. QED
  BY <1>2, <1>4, <1>5, <1>6, <1>7, <1>8, <1>9, <1>10 DEF EmitNode

\* The emitter keeps the invariant.
LEMMA EmitPlaceInv ==
  ASSUME TypeInv, PlaceInv, Emit, UNCHANGED <<tree, sections, current_section, positions>>
  PROVE  PlaceInv'
<1>1. ASSUME stage' \in {"save", "written", "terminated"} PROVE PlaceInv'
  BY <1>1 DEF PlaceInv
<1>2. CASE OpenOutput
  <2>1. /\ stage = "open" /\ stage' = "emit" /\ UNCHANGED <<tree, node, out_section, out_sections>>
    BY <1>2 DEF OpenOutput
  <2>2. PICK hs, hc : Walked(hs, hc, Len(tree) + 1, tree) /\ Follows(hs, hc)
    BY <2>1 DEF PlaceInv
  <2>3. Follows(hs, hc)'
    BY <2>1, <2>2 DEF Follows, Shared, SkipsBefore, Level
  <2>4. QED
    BY <2>1, <2>2, <2>3 DEF PlaceInv
<1>3. CASE EmitNode /\ UNCHANGED stage
  <2>1. stage = "emit" /\ stage' = "emit"
    BY <1>3, EmitNodeFrame
  <2>2. PICK hs, hc : Walked(hs, hc, Len(tree) + 1, tree) /\ Follows(hs, hc)
    BY <2>1 DEF PlaceInv
  <2>3. Follows(hs, hc)'
    BY <1>3, <2>2, EmitNodeOn
  <2>4. QED
    BY <2>1, <2>2, <2>3 DEF PlaceInv
<1>4. CASE EmitThrows
  BY <1>1, <1>4 DEF EmitThrows, Terminate
<1>5. CASE EmitSymbols
  BY <1>1, <1>5 DEF EmitSymbols, Terminate
<1>6. CASE Save
  BY <1>1, <1>6 DEF Save
<1>7. QED
  BY <1>2, <1>3, <1>4, <1>5, <1>6, EmitCases

\* Every step keeps the invariant.
LEMMA NextPlaceInv == TypeInv /\ PlaceInv /\ [Next]_asmVars => PlaceInv'
<1> SUFFICES ASSUME TypeInv, PlaceInv, [Next]_asmVars PROVE PlaceInv'
  OBVIOUS
<1>0. TypeInv'
  BY NextTypeInv
<1>1. CASE UNCHANGED asmVars
  BY <1>1 DEF asmVars, astVars, treeVars, emitVars, PlaceInv, Follows, Shared, SkipsBefore, Level
<1>2. CASE ExpandMacros /\ UNCHANGED <<treeVars, emitVars>>
  <2>1. stage = "expand" /\ stage' \in {"expand", "translate", "terminated"}
    BY <1>2 DEF ExpandMacros, SkipLine, ReplaceInvocation, BadInvocation, EndPass, InPass, Terminate, astVars
  <2>2. QED
    BY <1>2, <2>1 DEF PlaceInv, treeVars, emitVars
<1>3. CASE Transform /\ UNCHANGED <<macroVars, emitVars>>
  BY <1>0, <1>3, TransformPlaceInv
<1>4. CASE Emit /\ UNCHANGED <<tree, sections, current_section, positions>>
  BY <1>4, EmitPlaceInv
<1>5. QED
  BY <1>1, <1>2, <1>3, <1>4 DEF Next

\* number_labels() and emit_binary(), which count bytes in two different ways,
\* agree on the address of every label of a section that both know, as long as
\* nothing was skipped.
THEOREM LabelsCorrect == Spec => []LabelPlaced
<1>1. Init => TypeInv /\ PlaceInv
  BY InitTypeInv, InitBegin, BeginPlaceInv
<1>2. TypeInv /\ PlaceInv /\ [Next]_asmVars => TypeInv' /\ PlaceInv'
  BY NextTypeInv, NextPlaceInv
<1>3. QED
  BY <1>1, <1>2, PlaceInvSuffices, PTL DEF Spec

-----------------------------------------------------------------------------
(* The symbols. *)

SymbolType ==
  [section : Names, flags : SUBSET Flags, type : {"global", "weak", "extern", "static"}, address : Int]

Exporting == {"global", "weak", "extern"}

Tells(n, name, directives) ==
  n.kind = "directive" /\ n.name \in directives /\ n.args # <<>> /\ n.args[1].name = name

\* A directive before node k names the symbol.
Told(name, directives, k) == \E i \in 1 .. k - 1 : Tells(tree[i], name, directives)

\* Symbols as the emitter has them in front of node k.
SymbolsAt(k) ==
  /\ \A l : Told(l, Exporting, k) => l \in DOMAIN exported_symbols
  /\ \A l \in DOMAIN exported_symbols :
       /\ Told(l, Exporting, k)
       /\ ~ Told(l, {"extern"}, k) => /\ exported_symbols[l].address = positions[l].address
                                      /\ exported_symbols[l].type # "static"

\* And when all of them are there.
SymbolsComplete ==
  \A l \in label_scan :
    /\ l \in DOMAIN exported_symbols
    /\ ~ Named(l, {"extern"}) =>
         /\ exported_symbols[l].address = positions[l].address
         /\ exported_symbols[l].type = "static" <=> ~ Named(l, {"global", "weak"})

Numbers == {"number", "resolve", "open", "emit", "save", "written"}

SymbolInv ==
  /\ exported_symbols \in [DOMAIN exported_symbols -> SymbolType]
  /\ stage \in Numbers => \A l \in label_scan : \E i \in DOMAIN tree : tree[i].kind = "label" /\ tree[i].name = l
  /\ stage = "number" => \A i \in 1 .. node - 1 : tree[i].kind = "label" => tree[i].name \in DOMAIN positions
  /\ stage \in Numbers \ {"number"} => label_scan \subseteq DOMAIN positions
  /\ stage \in {"expand", "translate", "number", "resolve", "open"} => exported_symbols = <<>>
  /\ stage = "open" => node = 1
  /\ stage = "emit" => SymbolsAt(node)
  /\ stage = "save" => SymbolsComplete
  /\ stage = "written" => SymbolTable

\* There are no symbols yet.
LEMMA InitSymbolInv == Init => SymbolInv
<1> SUFFICES ASSUME Init PROVE SymbolInv
  OBVIOUS
<1>1. stage = "expand" /\ exported_symbols = <<>>
  BY DEF Init, AstInit, EmitInit
<1>2. exported_symbols \in [DOMAIN exported_symbols -> SymbolType]
  BY <1>1
<1>3. QED
  BY <1>1, <1>2 DEF SymbolInv, Numbers

\* At the end of the walk every directive of the tree has been met.
LEMMA ToldNamed ==
  ASSUME TypeInv, NEW l, NEW directives, node = Len(tree) + 1
  PROVE  Named(l, directives) <=> Told(l, directives, node)
<1>1. Len(tree) \in Nat /\ DOMAIN tree = 1 .. node - 1
  BY DEF TypeInv, TreeInv
<1>2. QED
  BY <1>1 DEF Named, A!Naming, A!IsDirective, Told, Tells

\* A node that names no symbol.
LEMMA ToldOn ==
  ASSUME TypeInv, AtNode, NEW l, NEW directives, tree' = tree, node' = node + 1
  PROVE  Told(l, directives, node)' <=> Told(l, directives, node) \/ Tells(Here, l, directives)
<1>1. node \in 1 .. Len(tree) /\ Len(tree) \in Nat
  BY DEF TypeInv, TreeInv, AtNode
<1>2. 1 .. node' - 1 = (1 .. node - 1) \union {node}
  BY <1>1
<1>3. QED
  BY <1>2 DEF Told, Here

\* Every label of the lines becomes a label of the tree.
LEMMA TranslateSymbols ==
  ASSUME TypeInv, TypeInv', SymbolInv, TranslateLines, UNCHANGED emitVars
  PROVE  SymbolInv'
<1>1. /\ stage = "translate" /\ UNCHANGED <<lines, node, positions, exported_symbols>> /\ node = 1
      /\ lines \in Seq(LineType)
  BY DEF TypeInv, ListsInv, TreeInv, TranslateLines, emitVars
<1>2. exported_symbols' = <<>> /\ exported_symbols' \in [DOMAIN exported_symbols' -> SymbolType]
  BY <1>1 DEF SymbolInv
<1>3. CASE stage' = "terminated"
  BY <1>2, <1>3 DEF SymbolInv, Numbers
<1>4. CASE stage' = "number" /\ tree' = [i \in DOMAIN lines |-> translate_line(lines[i])]
  <2>1. label_scan' = label_scan
    BY <1>1 DEF label_scan
  <2>2. ASSUME NEW l \in label_scan
        PROVE  \E i \in DOMAIN tree' : tree'[i].kind = "label" /\ tree'[i].name = l
    <3>1. PICK i \in DOMAIN lines : lines[i].kind = "label" /\ lines[i].name = l
      BY DEF label_scan
    <3>2. translate_line(lines[i]) = translate_label_node(lines[i])
      BY <3>1, Zenon DEF translate_line
    <3>3. \A line : translate_label_node(line).kind = "label" /\ translate_label_node(line).name = line.name
      BY DEF translate_label_node
    <3>4. i \in DOMAIN tree' /\ tree'[i] = translate_label_node(lines[i])
      BY <1>4, <3>1, <3>2
    <3>5. QED
      BY <3>1, <3>3, <3>4, Zenon
  <2>3. \A i \in 1 .. node' - 1 : FALSE
    BY <1>1
  <2>4. QED
    BY <1>2, <1>4, <2>1, <2>2, <2>3 DEF SymbolInv, Numbers
<1>5. QED
  BY <1>3, <1>4 DEF TranslateLines, Terminate

\* The first walk keeps the names of the nodes.
LEMMA NumberSymbols ==
  ASSUME TypeInv, TypeInv', SymbolInv, stage = "number", stage' = "number", AtNode, node' = node + 1,
         UNCHANGED <<lines, exported_symbols>>,
         DOMAIN tree' = DOMAIN tree,
         \A i \in DOMAIN tree : tree'[i].kind = tree[i].kind /\ tree'[i].name = tree[i].name,
         DOMAIN positions \subseteq DOMAIN positions',
         Here.kind = "label" => Here.name \in DOMAIN positions'
  PROVE  SymbolInv'
<1>1. node \in 1 .. Len(tree) /\ Len(tree) \in Nat /\ DOMAIN tree = 1 .. Len(tree) /\ Here = tree[node]
  BY DEF TypeInv, TreeInv, AtNode, Here
<1>2. \A i \in 1 .. node' - 1 : tree'[i].kind = "label" => tree'[i].name \in DOMAIN positions'
  <2> SUFFICES ASSUME NEW i \in 1 .. node' - 1, tree'[i].kind = "label"
               PROVE  tree'[i].name \in DOMAIN positions'
    OBVIOUS
  <2>1. i \in DOMAIN tree /\ tree[i].kind = "label" /\ tree'[i].name = tree[i].name
    BY <1>1
  <2>2. CASE i = node
    BY <1>1, <2>1, <2>2
  <2>3. CASE i # node
    <3>1. i \in 1 .. node - 1
      BY <1>1, <2>3
    <3>2. QED
      BY <2>1, <3>1 DEF SymbolInv
  <2>4. QED
    BY <2>2, <2>3
<1>3. ASSUME NEW l \in label_scan'
      PROVE  \E i \in DOMAIN tree' : tree'[i].kind = "label" /\ tree'[i].name = l
  <2>1. l \in label_scan
    BY <1>3 DEF label_scan
  <2>2. PICK i \in DOMAIN tree : tree[i].kind = "label" /\ tree[i].name = l
    BY <2>1 DEF SymbolInv, Numbers
  <2>3. QED
    BY <2>2
<1>4. exported_symbols' = <<>> /\ exported_symbols' \in [DOMAIN exported_symbols' -> SymbolType]
  BY DEF SymbolInv
<1>5. QED
  BY <1>2, <1>3, <1>4 DEF SymbolInv, Numbers

\* When the walk has met every label, each has a position.
LEMMA TransformSymbols ==
  ASSUME TypeInv, TypeInv', SymbolInv, Transform, UNCHANGED emitVars
  PROVE  SymbolInv'
<1>0. UNCHANGED <<lines, exported_symbols>>
  BY TransformFrame DEF emitVars
<1>1. CASE TranslateLines
  BY <1>1, TranslateSymbols
<1>2. CASE NumberLabel
  <2>1. stage = "number" /\ stage' = "number" /\ AtNode /\ node' = node + 1 /\ Here.kind = "label"
    BY <1>2 DEF NumberLabel, Numbering, astVars
  <2>2. DOMAIN positions' = DOMAIN positions \union {Here.name}
    BY <1>2 DEF NumberLabel, Assign
  <2>3. PICK placed : placed = [Here EXCEPT !.position = position, !.section = current_section]
    OBVIOUS
  <2>4. tree \in Seq(NodeType) /\ node \in 1 .. Len(tree) /\ Here = tree[node]
    BY <2>1 DEF TypeInv, TreeInv, AtNode, Here
  <2>5. tree' = [tree EXCEPT ![node] = placed]
    BY <1>2, <2>3 DEF NumberLabel, Here
  <2>6. placed.kind = Here.kind /\ placed.name = Here.name
    <3>1. Here \in LabelType
      BY <2>1, <2>4, NodeFields
    <3>2. QED
      BY <2>3, <3>1 DEF LabelType
  <2>7. /\ DOMAIN tree' = DOMAIN tree
        /\ \A i \in DOMAIN tree : tree'[i].kind = tree[i].kind /\ tree'[i].name = tree[i].name
    BY <2>4, <2>5, <2>6
  <2>8. QED
    BY <1>0, <2>1, <2>2, <2>7, NumberSymbols
<1>3. CASE NumberInstruction \/ NumberSection \/ NumberDirective
  <2>1. /\ stage = "number" /\ stage' = "number" /\ AtNode /\ node' = node + 1
        /\ Here.kind # "label" /\ UNCHANGED <<tree, positions>>
    BY <1>3 DEF NumberInstruction, NumberSection, NumberDirective, Advance, Numbering, astVars
  <2>2. QED
    BY <1>0, <2>1, NumberSymbols
<1>4. CASE NumberThrows
  BY <1>0, <1>4 DEF NumberThrows, Terminate, SymbolInv, Numbers
<1>5. CASE NumberEnd
  <2>1. stage = "number" /\ stage' = "resolve" /\ ~ AtNode /\ UNCHANGED treeVars
    BY <1>5 DEF NumberEnd
  <2>2. DOMAIN tree = 1 .. node - 1
    BY <2>1 DEF AtNode, TypeInv, TreeInv
  <2>3. label_scan \subseteq DOMAIN positions
    BY <2>1, <2>2 DEF SymbolInv, Numbers
  <2>4. label_scan' = label_scan
    BY <1>0 DEF label_scan
  <2>5. QED
    BY <1>0, <2>1, <2>3, <2>4 DEF SymbolInv, Numbers, treeVars
<1>6. CASE ResolveLabels
  <2>1. /\ stage = "resolve" /\ stage' = "open" /\ node' = 1 /\ UNCHANGED positions /\ tree \in Seq(NodeType)
        /\ tree' = [i \in DOMAIN tree |-> Resolve(tree[i])]
    BY <1>6 DEF ResolveLabels, TypeInv, TreeInv
  <2>2. label_scan' = label_scan
    BY <1>0 DEF label_scan
  <2>3. ASSUME NEW l \in label_scan
        PROVE  \E i \in DOMAIN tree' : tree'[i].kind = "label" /\ tree'[i].name = l
    <3>1. PICK i \in DOMAIN tree : tree[i].kind = "label" /\ tree[i].name = l
      BY <2>1 DEF SymbolInv, Numbers
    <3>2. tree'[i] = tree[i] /\ i \in DOMAIN tree'
      BY <2>1, <3>1 DEF Resolve
    <3>3. QED
      BY <3>1, <3>2
  <2>4. QED
    BY <1>0, <2>1, <2>2, <2>3 DEF SymbolInv, Numbers
<1>7. QED
  BY <1>1, <1>2, <1>3, <1>4, <1>5, <1>6 DEF Transform

\* The expander knows no symbols.
LEMMA ExpandSymbols ==
  ASSUME SymbolInv, ExpandMacros, UNCHANGED <<treeVars, emitVars>>
  PROVE  SymbolInv'
<1>1. /\ stage = "expand" /\ stage' \in {"expand", "translate", "terminated"}
      /\ exported_symbols' = exported_symbols
  BY DEF ExpandMacros, SkipLine, ReplaceInvocation, BadInvocation, EndPass, InPass, Terminate, astVars, emitVars
<1>2. exported_symbols' = <<>> /\ exported_symbols' \in [DOMAIN exported_symbols' -> SymbolType]
  BY <1>1 DEF SymbolInv
<1>3. QED
  BY <1>1, <1>2 DEF SymbolInv, Numbers

\* A directive that names the symbol called name has been emitted.
LEMMA ExportOn ==
  ASSUME TypeInv, AtNode, NEW name, NEW directive \in Exporting, NEW symbol, NEW again \in Exporting,
         exported_symbols \in [DOMAIN exported_symbols -> SymbolType], SymbolsAt(node),
         Here.kind = "directive", Here.name = directive, Here.args # <<>>, Here.args[1].name = name,
         UNCHANGED <<tree, positions>>, node' = node + 1,
         name \in DOMAIN exported_symbols => exported_symbols' = [exported_symbols EXCEPT ![name].type = again],
         name \notin DOMAIN exported_symbols =>
           symbol \in SymbolType /\ exported_symbols' = Assign(exported_symbols, name, symbol),
         name \notin DOMAIN exported_symbols /\ directive # "extern"
           => symbol.address = positions[name].address /\ symbol.type # "static"
  PROVE  SymbolsAt(node)' /\ exported_symbols' \in [DOMAIN exported_symbols' -> SymbolType]
<1>1. \A l, directives :
        Told(l, directives, node)' <=> Told(l, directives, node) \/ (l = name /\ directive \in directives)
  <2> SUFFICES ASSUME NEW l, NEW directives
               PROVE  Told(l, directives, node)'
                        <=> Told(l, directives, node) \/ (l = name /\ directive \in directives)
    OBVIOUS
  <2>1. Told(l, directives, node)' <=> Told(l, directives, node) \/ Tells(Here, l, directives)
    BY ToldOn
  <2>2. Tells(Here, l, directives) <=> l = name /\ directive \in directives
    BY DEF Tells
  <2>3. QED
    BY <2>1, <2>2
<1>2. /\ \A l : Told(l, Exporting, node) => l \in DOMAIN exported_symbols
      /\ \A l \in DOMAIN exported_symbols : exported_symbols[l] \in SymbolType
      /\ \A l \in DOMAIN exported_symbols : Told(l, Exporting, node)
      /\ \A l \in DOMAIN exported_symbols : ~ Told(l, {"extern"}, node)
            => exported_symbols[l].address = positions[l].address /\ exported_symbols[l].type # "static"
  BY DEF SymbolsAt
<1>3. /\ DOMAIN exported_symbols' = DOMAIN exported_symbols \union {name}
      /\ exported_symbols' \in [DOMAIN exported_symbols' -> SymbolType]
      /\ \A l \in DOMAIN exported_symbols : exported_symbols'[l].address = exported_symbols[l].address
      /\ \A l \in DOMAIN exported_symbols : exported_symbols'[l].type \in {exported_symbols[l].type, again}
      /\ name \notin DOMAIN exported_symbols => exported_symbols'[name] = symbol
  <2>1. CASE name \in DOMAIN exported_symbols
    <3>1. PICK old, new : old = exported_symbols[name] /\ new = [old EXCEPT !.type = again]
      OBVIOUS
    <3>2. old \in SymbolType
      BY <1>2, <2>1, <3>1
    <3>3. new \in SymbolType /\ new.address = old.address /\ new.type = again
      BY <3>1, <3>2 DEF SymbolType, Exporting
    <3>4. exported_symbols' = [exported_symbols EXCEPT ![name] = new]
      BY <2>1, <3>1
    <3>5. /\ DOMAIN exported_symbols' = DOMAIN exported_symbols
          /\ exported_symbols'[name] = new
          /\ \A l \in DOMAIN exported_symbols : l # name => exported_symbols'[l] = exported_symbols[l]
      BY <2>1, <3>4
    <3>6. \A l \in DOMAIN exported_symbols : exported_symbols'[l] \in SymbolType
      BY <1>2, <3>3, <3>5
    <3>7. exported_symbols' \in [DOMAIN exported_symbols' -> SymbolType]
      BY <3>4, <3>5, <3>6
    <3>8. DOMAIN exported_symbols' = DOMAIN exported_symbols \union {name}
      BY <2>1, <3>5
    <3>9. \A l \in DOMAIN exported_symbols :
            /\ exported_symbols'[l].address = exported_symbols[l].address
            /\ exported_symbols'[l].type \in {exported_symbols[l].type, again}
      BY <3>1, <3>3, <3>5
    <3>10. QED
      BY <2>1, <3>7, <3>8, <3>9
  <2>2. CASE name \notin DOMAIN exported_symbols
    <3>1. symbol \in SymbolType
      BY <2>2
    <3>2. exported_symbols' = [k \in DOMAIN exported_symbols \union {name} |->
                                 IF k = name THEN symbol ELSE exported_symbols[k]]
      BY <2>2 DEF Assign
    <3>3. /\ DOMAIN exported_symbols' = DOMAIN exported_symbols \union {name}
          /\ exported_symbols'[name] = symbol
          /\ \A k \in DOMAIN exported_symbols : exported_symbols'[k] = exported_symbols[k]
      BY <2>2, <3>2
    <3>4. \A k \in DOMAIN exported_symbols' : exported_symbols'[k] \in SymbolType
      BY <1>2, <3>1, <3>3
    <3>5. exported_symbols' \in [DOMAIN exported_symbols' -> SymbolType]
      BY <3>2, <3>4
    <3>6. QED
      BY <3>3, <3>5
  <2>3. QED
    BY <2>1, <2>2
<1>4. \A l : Told(l, Exporting, node)' => l \in DOMAIN exported_symbols'
  BY <1>1, <1>2, <1>3
<1>5. \A l \in DOMAIN exported_symbols' : Told(l, Exporting, node)'
  BY <1>1, <1>2, <1>3
<1>6. ASSUME NEW l \in DOMAIN exported_symbols', ~ Told(l, {"extern"}, node)'
      PROVE  exported_symbols'[l].address = positions'[l].address /\ exported_symbols'[l].type # "static"
  <2>1. ~ Told(l, {"extern"}, node) /\ ~ (l = name /\ directive = "extern")
    BY <1>1, <1>6
  <2>2. CASE l \in DOMAIN exported_symbols
    BY <1>2, <1>3, <2>1, <2>2 DEF Exporting
  <2>3. CASE l \notin DOMAIN exported_symbols
    BY <1>3, <2>1, <2>3
  <2>4. QED
    BY <2>2, <2>3
<1>7. QED
  BY <1>3, <1>4, <1>5, <1>6 DEF SymbolsAt

\* A node that tells nothing of symbols.
LEMMA UntoldOn ==
  ASSUME TypeInv, AtNode, SymbolsAt(node), Here.kind = "directive" => Here.name \notin Exporting,
         UNCHANGED <<tree, positions, exported_symbols>>, node' = node + 1
  PROVE  SymbolsAt(node)'
<1>1. \A l : \A directives \in SUBSET Exporting :
        Told(l, directives, node)' <=> Told(l, directives, node)
  <2> SUFFICES ASSUME NEW l, NEW directives \in SUBSET Exporting
               PROVE  Told(l, directives, node)' <=> Told(l, directives, node)
    OBVIOUS
  <2>1. Told(l, directives, node)' <=> Told(l, directives, node) \/ Tells(Here, l, directives)
    BY ToldOn
  <2>2. ~ Tells(Here, l, directives)
    BY DEF Tells
  <2>3. QED
    BY <2>1, <2>2
<1>2. Exporting \in SUBSET Exporting /\ {"extern"} \in SUBSET Exporting
  BY DEF Exporting
<1>3. QED
  BY <1>1, <1>2 DEF SymbolsAt

\* A symbol that is made for a section that exists.
LEMMA SymbolMade ==
  ASSUME OutInv, NEW s \in DOMAIN out_sections, NEW type \in Exporting \union {"static"}, NEW address \in Int
  PROVE  /\ Symbol(out_sections[s], type, address) \in SymbolType
         /\ Symbol(out_sections[s], type, address).address = address
         /\ Symbol(out_sections[s], type, address).type = type
<1>1. PICK section \in SectionType : section = out_sections[s]
  BY DEF OutInv
<1>2. section.name \in Names /\ section.flags \in SUBSET Flags
  BY DEF SectionType
<1>3. QED
  BY <1>1, <1>2 DEF Symbol, SymbolType, Exporting

\* Each node keeps the symbols.
LEMMA EmitNodeSymbols ==
  ASSUME TypeInv, SymbolInv, EmitNode,
         UNCHANGED stage, UNCHANGED outfile, UNCHANGED lines, UNCHANGED <<tree, positions>>
  PROVE  SymbolInv'
<1>0. stage = "emit" /\ AtNode /\ node' = node + 1 /\ SymbolsAt(node)
      /\ exported_symbols \in [DOMAIN exported_symbols -> SymbolType]
  BY EmitNodeFrame DEF SymbolInv
<1>1. ASSUME SymbolsAt(node)', exported_symbols' \in [DOMAIN exported_symbols' -> SymbolType]
      PROVE  SymbolInv'
  <2>1. label_scan' = label_scan
    BY DEF label_scan
  <2>2. QED
    BY <1>0, <1>1, <2>1 DEF SymbolInv, Numbers
<1>2. CASE EmitInstruction \/ EmitByte \/ EmitWord \/ EmitBytes \/ EmitEntrypoint
           \/ EmitSection \/ EmitSecinfo \/ EmitNothing
  <2>1. exported_symbols' = exported_symbols /\ (Here.kind = "directive" => Here.name \notin Exporting)
    BY <1>2 DEF EmitInstruction, EmitByte, EmitWord, EmitBytes, EmitEntrypoint, EmitSection, EmitSecinfo,
                EmitNothing, Put, EmitDirective, Emitting, Known, Exporting
  <2>2. QED
    BY <1>0, <1>1, <2>1, UntoldOn
<1>3. ASSUME NEW type \in {"global", "weak"}, EmitExport(type, type)
      PROVE  SymbolInv'
  <2>1. PICK name, symbol :
          /\ name = Here.args[1].name
          /\ symbol = Symbol(out_sections[positions[name].section], type, positions[name].address)
    OBVIOUS
  <2>2. /\ Here.kind = "directive" /\ Here.name = type /\ Here.args # <<>> /\ name \in DOMAIN positions
        /\ name \in DOMAIN exported_symbols \/ Exportable(name)
        /\ Export(name, "global", symbol)
    BY <1>3, <2>1 DEF EmitExport, EmitDirective, Emitting, SymbolNamed
  <2>3. positions[name].address \in Int
    BY <2>2 DEF TypeInv, TreeInv
  <2>4. name \notin DOMAIN exported_symbols =>
          symbol \in SymbolType /\ symbol.address = positions[name].address /\ symbol.type # "static"
    BY <1>3, <2>1, <2>2, <2>3, SymbolMade DEF Exportable, TypeInv, Exporting
  <2>5. QED
    BY <1>0, <1>1, <1>3, <2>1, <2>2, <2>4, ExportOn DEF Export, Exporting
<1>4. CASE EmitExtern
  <2>1. PICK name, symbol : name = Here.args[1].name /\ symbol = Symbol(out_sections[out_section], "extern", 0)
    OBVIOUS
  <2>2. /\ Here.kind = "directive" /\ Here.name = "extern" /\ Here.args # <<>>
        /\ name \in DOMAIN exported_symbols \/ InSection
        /\ Export(name, "extern", symbol)
    BY <1>4, <2>1 DEF EmitExtern, EmitDirective, Emitting, SymbolNamed
  <2>3. name \notin DOMAIN exported_symbols => symbol \in SymbolType
    BY <2>1, <2>2, SymbolMade DEF InSection, TypeInv, Exporting
  <2>4. QED
    BY <1>0, <1>1, <2>1, <2>2, <2>3, ExportOn DEF Export, Exporting
<1>5. QED
  BY <1>2, <1>3, <1>4 DEF EmitNode, EmitGlobal, EmitWeak

\* The labels that no directive has named follow at the end.
LEMMA LabelSymbols ==
  ASSUME TypeInv, SymbolInv, EmitSymbols, UNCHANGED lines, UNCHANGED <<tree, positions>>
  PROVE  SymbolInv'
<1>0. /\ stage = "emit" /\ ~ AtNode /\ SymbolsAt(node) /\ label_scan \subseteq DOMAIN positions
      /\ exported_symbols \in [DOMAIN exported_symbols -> SymbolType] /\ label_scan' = label_scan
      /\ \A l \in label_scan : \E i \in DOMAIN tree : tree[i].kind = "label" /\ tree[i].name = l
  BY DEF EmitSymbols, SymbolInv, Numbers, label_scan
<1>1. node = Len(tree) + 1
  BY <1>0 DEF AtNode, TypeInv, TreeInv
<1>2. \A l, directives : Named(l, directives) <=> Told(l, directives, node)
  BY <1>1, ToldNamed
<1>3. CASE stage' = "terminated"
  <2>1. exported_symbols' = exported_symbols
    BY <1>3 DEF EmitSymbols
  <2>2. QED
    BY <1>0, <1>3, <2>1 DEF SymbolInv, Numbers
<1>4. CASE /\ \A l \in DOMAIN positions : positions[l].section \in DOMAIN out_sections
           /\ exported_symbols' = Insert(exported_symbols, StaticSymbols) /\ stage' = "save"
  <2>1. ASSUME NEW l \in DOMAIN positions
        PROVE  /\ StaticSymbols[l] \in SymbolType
               /\ StaticSymbols[l].address = positions[l].address
               /\ StaticSymbols[l].type = "static"
    <3>1. positions[l].section \in DOMAIN out_sections /\ positions[l].address \in Int
      BY <1>4 DEF TypeInv, TreeInv
    <3>2. StaticSymbols[l] = Symbol(out_sections[positions[l].section], "static", positions[l].address)
      BY DEF StaticSymbols
    <3>3. QED
      BY <3>1, <3>2, SymbolMade DEF TypeInv
  <2>2. DOMAIN StaticSymbols = DOMAIN positions
    BY DEF StaticSymbols
  <2>3. /\ exported_symbols' \in [DOMAIN exported_symbols' -> SymbolType]
        /\ DOMAIN exported_symbols' = DOMAIN exported_symbols \union DOMAIN positions
        /\ \A l \in DOMAIN exported_symbols : exported_symbols'[l] = exported_symbols[l]
        /\ \A l \in DOMAIN positions \ DOMAIN exported_symbols : exported_symbols'[l] = StaticSymbols[l]
    <3>1. exported_symbols' = [s \in DOMAIN exported_symbols \union DOMAIN positions |->
                                 IF s \in DOMAIN exported_symbols THEN exported_symbols[s] ELSE StaticSymbols[s]]
      BY <1>4, <2>2 DEF Insert
    <3>2. \A s \in DOMAIN exported_symbols : exported_symbols[s] \in SymbolType
      BY <1>0
    <3>3. \A s \in DOMAIN exported_symbols' : exported_symbols'[s] \in SymbolType
      BY <2>1, <3>1, <3>2
    <3>4. QED
      BY <3>1, <3>3
  <2>4. SymbolsComplete'
    <3>1. ASSUME NEW l \in label_scan
          PROVE  /\ l \in DOMAIN exported_symbols'
                 /\ ~ Named(l, {"extern"}) =>
                      /\ exported_symbols'[l].address = positions[l].address
                      /\ exported_symbols'[l].type = "static" <=> ~ Named(l, {"global", "weak"})
      <4>1. l \in DOMAIN positions /\ l \in DOMAIN exported_symbols'
        BY <1>0, <2>3
      <4>2. Told(l, Exporting, node) <=> Told(l, {"extern"}, node) \/ Told(l, {"global", "weak"}, node)
        BY DEF Told, Tells, Exporting
      <4>3. CASE l \in DOMAIN exported_symbols
        BY <1>0, <1>2, <2>3, <4>1, <4>2, <4>3 DEF SymbolsAt
      <4>4. CASE l \notin DOMAIN exported_symbols
        BY <1>0, <1>2, <2>1, <2>3, <4>1, <4>2, <4>4 DEF SymbolsAt
      <4>5. QED
        BY <4>3, <4>4
    <3>2. \A l, directives : Named(l, directives)' <=> Named(l, directives)
      BY DEF Named, A!Naming, A!IsDirective
    <3>3. QED
      BY <1>0, <3>1, <3>2 DEF SymbolsComplete
  <2>5. QED
    BY <1>0, <1>4, <2>3, <2>4 DEF SymbolInv, Numbers
<1>5. QED
  BY <1>3, <1>4 DEF EmitSymbols, Terminate

\* create_elf_symtab() writes the symbols as they are.
LEMMA SaveSymbols ==
  ASSUME SymbolInv, Save, UNCHANGED lines, UNCHANGED <<tree, positions>>
  PROVE  SymbolInv'
<1>0. /\ stage = "save" /\ stage' = "written" /\ SymbolsComplete /\ label_scan' = label_scan
      /\ exported_symbols' = exported_symbols /\ exported_symbols \in [DOMAIN exported_symbols -> SymbolType]
      /\ label_scan \subseteq DOMAIN positions
      /\ \A l \in label_scan : \E i \in DOMAIN tree : tree[i].kind = "label" /\ tree[i].name = l
      /\ outfile'.symtab = symtab
  BY DEF Save, SymbolInv, Numbers, label_scan
<1>1. ASSUME NEW l \in label_scan
      PROVE  /\ l \in DOMAIN outfile'.symtab
             /\ ~ Named(l, {"extern"}) =>
                  /\ outfile'.symtab[l].value = positions[l].address
                  /\ outfile'.symtab[l].visibility
                       = IF Named(l, {"global", "weak"}) THEN "default" ELSE "hidden"
  <2>1. /\ l \in DOMAIN exported_symbols
        /\ ~ Named(l, {"extern"}) =>
             /\ exported_symbols[l].address = positions[l].address
             /\ exported_symbols[l].type = "static" <=> ~ Named(l, {"global", "weak"})
    BY <1>0 DEF SymbolsComplete
  <2>2. DOMAIN symtab = DOMAIN exported_symbols /\ symtab[l] = ElfSymbol(exported_symbols[l])
    BY <2>1 DEF symtab
  <2>3. /\ symtab[l].value = exported_symbols[l].address
        /\ symtab[l].visibility = IF exported_symbols[l].type = "static" THEN "hidden" ELSE "default"
    BY <2>2 DEF ElfSymbol
  <2>4. QED
    BY <1>0, <2>1, <2>2, <2>3
<1>2. \A l, directives : Named(l, directives)' <=> Named(l, directives)
  BY DEF Named, A!Naming, A!IsDirective
<1>3. SymbolTable'
  BY <1>0, <1>1, <1>2 DEF SymbolTable
<1>4. QED
  BY <1>0, <1>3 DEF SymbolInv, Numbers

\* The emitter keeps the symbols.
LEMMA EmitSymbolInv ==
  ASSUME TypeInv, SymbolInv, Emit, UNCHANGED <<file, lines, macros, macroVars>>,
         UNCHANGED <<tree, sections, current_section, positions>>
  PROVE  SymbolInv'
<1>0. label_scan' = label_scan /\ UNCHANGED <<lines, tree, positions>>
  BY DEF label_scan
<1>1. CASE OpenOutput
  <2>1. stage = "open" /\ stage' = "emit" /\ node' = 1 /\ exported_symbols' = <<>>
    BY <1>1 DEF OpenOutput, SymbolInv
  <2>2. \A l, directives : ~ Told(l, directives, node)'
    BY <2>1 DEF Told
  <2>3. SymbolsAt(node)'
    BY <2>1, <2>2 DEF SymbolsAt
  <2>4. exported_symbols' \in [DOMAIN exported_symbols' -> SymbolType]
    BY <2>1
  <2>5. QED
    BY <1>0, <2>1, <2>3, <2>4 DEF SymbolInv, Numbers
<1>2. CASE EmitNode /\ UNCHANGED stage /\ UNCHANGED outfile
  BY <1>0, <1>2, EmitNodeSymbols
<1>3. CASE EmitThrows /\ UNCHANGED outfile
  BY <1>0, <1>3 DEF EmitThrows, Terminate, SymbolInv, Numbers
<1>4. CASE EmitSymbols /\ UNCHANGED outfile
  BY <1>0, <1>4, LabelSymbols
<1>5. CASE Save
  BY <1>0, <1>5, SaveSymbols
<1>6. QED
  BY <1>1, <1>2, <1>3, <1>4, <1>5, EmitCases

\* Every step keeps the symbols.
LEMMA NextSymbolInv == TypeInv /\ TypeInv' /\ SymbolInv /\ [Next]_asmVars => SymbolInv'
<1> SUFFICES ASSUME TypeInv, TypeInv', SymbolInv, [Next]_asmVars PROVE SymbolInv'
  OBVIOUS
<1>1. CASE UNCHANGED asmVars
  <2>1. UNCHANGED <<stage, lines, tree, node, positions, exported_symbols, outfile>>
    BY <1>1 DEF asmVars, astVars, treeVars, emitVars
  <2>2. label_scan' = label_scan
    BY <2>1 DEF label_scan
  <2>3. \A l, directives : Named(l, directives)' <=> Named(l, directives)
    BY <2>1 DEF Named, A!Naming, A!IsDirective
  <2>4. SymbolTable' <=> SymbolTable
    BY <2>1, <2>2, <2>3 DEF SymbolTable
  <2>5. SymbolsComplete' <=> SymbolsComplete
    BY <2>1, <2>2, <2>3 DEF SymbolsComplete
  <2>6. SymbolsAt(node)' <=> SymbolsAt(node)
    BY <2>1 DEF SymbolsAt, Told
  <2>7. QED
    BY <2>1, <2>2, <2>4, <2>5, <2>6 DEF SymbolInv, Numbers
<1>2. QED
  BY <1>1, ExpandSymbols, TransformSymbols, EmitSymbolInv DEF Next

\* The symbol table has every label with its address, hidden unless a
\* directive exports it, and only a label that was declared .extern without.
THEOREM SymbolsCorrect == Spec => []SymbolTable
<1>1. TypeInv /\ SymbolInv => SymbolTable
  BY DEF SymbolInv, SymbolTable
<1>2. QED
  BY <1>1, InitTypeInv, InitSymbolInv, NextTypeInv, NextSymbolInv, PTL DEF Spec

-----------------------------------------------------------------------------
(* What the bytes in front of a node come to. *)

\* The node after a section directive is in the section that it names.
LEMMA SectionNext ==
  ASSUME NEW t, NEW k \in Nat, k >= 1
  PROVE  A!SectionAt(t, k + 1) = IF IsSection(t[k]) THEN t[k].args[1].name ELSE A!SectionAt(t, k)
<1> DEFINE Marks(m) == {i \in 1 .. m - 1 : A!IsDirective(t[i], {"section"})}
<1>1. \A m : A!SectionAt(t, m) = IF Marks(m) = {} THEN "flat" ELSE t[A!Max(Marks(m))].args[1].name
  BY Zenon DEF A!SectionAt
<1>2. \A i : i \in 1 .. (k + 1) - 1 <=> i \in 1 .. k - 1 \/ i = k
  OBVIOUS
<1>3. A!IsDirective(t[k], {"section"}) <=> IsSection(t[k])
  BY DEF A!IsDirective, IsSection
<1>4. CASE IsSection(t[k])
  <2>1. k \in Marks(k + 1) /\ \A i \in Marks(k + 1) : i \in Int /\ i <= k
    BY <1>3, <1>4
  <2> HIDE DEF Marks
  <2>2. \A x \in Marks(k + 1) : (\A y \in Marks(k + 1) : x >= y) <=> x = k
    BY <2>1
  <2>3. A!Max(Marks(k + 1)) = k
    BY <2>1, <2>2 DEF A!Max
  <2>4. Marks(k + 1) # {}
    BY <2>1
  <2>5. QED
    BY <1>1, <1>4, <2>3, <2>4
<1>5. CASE ~ IsSection(t[k])
  <2>1. Marks(k + 1) = Marks(k)
    BY <1>2, <1>3, <1>5
  <2> HIDE DEF Marks
  <2>2. QED
    BY <1>1, <1>5, <2>1
<1>6. QED
  BY <1>4, <1>5

\* The first node is in the section flat.
LEMMA SectionFirst == \A t : A!SectionAt(t, 1) = "flat"
<1> SUFFICES ASSUME NEW t PROVE A!SectionAt(t, 1) = "flat"
  OBVIOUS
<1> DEFINE Marks == {i \in 1 .. 1 - 1 : A!IsDirective(t[i], {"section"})}
<1>1. Marks = {}
  OBVIOUS
<1>2. QED
  BY <1>1, Zenon DEF A!SectionAt

\* g[i] is what the first i nodes put into the section.
Totals(g, t, section, n) ==
  /\ g[0] = 0
  /\ \A i \in 1 .. n : g[i] = g[i - 1] + IF A!SectionAt(t, i) = section THEN A!Size(t[i]) ELSE 0

\* A node takes no negative number of bytes.
LEMMA SizeType ==
  ASSUME NEW n \in NodeType
  PROVE  A!Size(n) \in Nat /\ A!Size(n) = IF IsSkip(n) THEN 0 ELSE Amount(n)
<1>1. CASE n.kind = "instruction"
  <2>1. A!Size(n) = A!get_length(n.name)
    BY <1>1, Zenon DEF A!Size, A!IsDirective
  <2>0. A!get_length(n.name) = get_length(n.name)
    BY Zenon DEF A!get_length, get_length, A!AddressOps, AddressOps, A!TransferOps, TransferOps
  <2>2. QED
    BY <1>1, <2>0, <2>1, LengthType DEF Amount, IsSkip
<1>2. CASE n.kind = "label"
  <2>1. \A names : ~ A!IsDirective(n, names)
    BY <1>2 DEF A!IsDirective
  <2>2. A!Size(n) = 0
    BY <1>2, <2>1 DEF A!Size
  <2>3. QED
    BY <1>2, <2>2 DEF Amount, IsSkip
<1>3. CASE n.kind = "directive"
  <2>1. \A names : A!IsDirective(n, names) <=> n.name \in names
    BY <1>3 DEF A!IsDirective
  <2>2. Len(n.args) \in Nat
    BY <1>3, NodeFields
  <2>3. CASE n.name = "byte"
    BY <1>3, <2>1, <2>3 DEF A!Size, Amount, IsSkip
  <2>4. CASE n.name = "word"
    BY <1>3, <2>1, <2>4 DEF A!Size, Amount, IsSkip
  <2>5. CASE n.name = "bytes"
    BY <1>3, <2>1, <2>2, <2>5 DEF A!Size, Amount, IsSkip
  <2>6. CASE n.name \notin {"byte", "word", "bytes"}
    BY <1>3, <2>1, <2>6 DEF A!Size, Amount, IsSkip
  <2>7. QED
    BY <2>3, <2>4, <2>5, <2>6
<1>4. QED
  BY <1>1, <1>2, <1>3, NodeFields

\* The recursion that OffsetAt sums with has a result: these totals.
LEMMA OffsetTotals ==
  ASSUME NEW t \in Seq(NodeType), NEW k \in 1 .. Len(t) + 1
  PROVE  \E g : /\ Totals(g, t, A!SectionAt(t, k), k - 1)
                /\ A!OffsetAt(t, k) = g[k - 1] /\ g[k - 1] \in Nat
<1>1. PICK n \in Nat : n = k - 1 /\ n <= Len(t)
  OBVIOUS
<1> DEFINE More(i) == IF A!SectionAt(t, i) = A!SectionAt(t, k) THEN A!Size(t[i]) ELSE 0
<1>2. \A i \in 1 .. n : More(i) \in Nat
  <2>1. \A i \in 1 .. n : t[i] \in NodeType
    BY <1>1
  <2>2. QED
    BY <2>1, SizeType
<1>3. \E g : g = A!OffsetAt(t, k)
  OBVIOUS
<1> DEFINE Grow(g, i) == IF i = 0 THEN 0 ELSE g[i - 1] + More(i)
           Rec(g, m) == g = [i \in 0 .. m |-> Grow(g, i)]
<1>4. A!OffsetAt(t, k) = (CHOOSE g : Rec(g, n))[n]
  BY <1>1, Zenon DEF A!OffsetAt, A!Sum
<1> HIDE DEF More
<1> DEFINE Good(m) == \E g \in [0 .. m -> Nat] : Rec(g, m)
<1>5. Good(0)
  <2> DEFINE g == [i \in 0 .. 0 |-> 0]
  <2>1. g \in [0 .. 0 -> Nat]
    OBVIOUS
  <2>2. Rec(g, 0)
    OBVIOUS
  <2>3. QED
    BY <2>1, <2>2
<1>6. ASSUME NEW m \in 0 .. n, m < n, Good(m) PROVE Good(m + 1)
  <2>1. PICK g \in [0 .. m -> Nat] : Rec(g, m)
    BY <1>6
  <2> DEFINE h == [i \in 0 .. m + 1 |-> Grow(g, i)]
  <2>2. \A i \in 0 .. m : h[i] = g[i]
    <3>1. \A i \in 0 .. m : g[i] = Grow(g, i)
      <4> HIDE DEF Grow
      <4>1. QED
        BY <2>1
    <3> HIDE DEF Grow
    <3>2. QED
      BY <3>1
  <2>3. ASSUME NEW i \in 0 .. m + 1 PROVE h[i] = Grow(h, i) /\ h[i] \in Nat
    <3>1. CASE i = 0
      BY <3>1
    <3>2. CASE i # 0
      <4>1. i - 1 \in 0 .. m /\ i \in 1 .. n
        BY <1>6, <3>2
      <4>2. h[i] = g[i - 1] + More(i)
        BY <3>2
      <4> HIDE DEF h
      <4>3. h[i - 1] = g[i - 1] /\ g[i - 1] \in Nat
        BY <2>2, <4>1
      <4>4. More(i) \in Nat
        BY <1>2, <4>1
      <4>5. QED
        BY <3>2, <4>2, <4>3, <4>4
    <3>3. QED
      BY <3>1, <3>2
  <2>4. h \in [0 .. m + 1 -> Nat] /\ Rec(h, m + 1)
    BY <2>3
  <2>5. QED
    BY <2>4
<1>7. Good(n)
  <2> DEFINE T == {m \in 0 .. n : Good(m)}
  <2> HIDE DEF Good
  <2>1. 0 \in T /\ T \in SUBSET (0 .. n)
    BY <1>5
  <2>2. \A m \in 0 .. n : m \in T /\ m < n => m + 1 \in T
    BY <1>6
  <2>3. T = 0 .. n
    BY <2>1, <2>2, Upward
  <2>4. QED
    BY <2>3
<1>8. PICK f : Rec(f, n) /\ f = CHOOSE g : Rec(g, n)
  BY <1>7, Zenon
<1>9. \A i \in 0 .. n : f[i] = Grow(f, i)
  <2> HIDE DEF Grow
  <2>1. QED
    BY <1>8
<1>10. f[0] = 0 /\ \A i \in 1 .. n : f[i] = f[i - 1] + More(i)
  <2>1. 0 \in 0 .. n /\ \A i \in 1 .. n : i \in 0 .. n /\ i # 0
    OBVIOUS
  <2>2. QED
    BY <1>9, <2>1
<1>11. A!OffsetAt(t, k) = f[n]
  <2> HIDE DEF Rec
  <2>1. QED
    BY <1>4, <1>8
<1>12. f[n] \in Nat
  <2> DEFINE T == {m \in 0 .. n : f[m] \in Nat}
  <2>1. 0 \in T /\ T \in SUBSET (0 .. n)
    BY <1>10
  <2>2. ASSUME NEW m \in 0 .. n, m \in T, m < n PROVE m + 1 \in T
    <3>1. m + 1 \in 1 .. n /\ (m + 1) - 1 = m
      BY <2>2
    <3>2. f[m + 1] = f[m] + More(m + 1) /\ More(m + 1) \in Nat /\ f[m] \in Nat
      BY <1>2, <1>10, <2>2, <3>1
    <3>3. QED
      BY <3>1, <3>2
  <2>3. T = 0 .. n
    <3> HIDE DEF T
    <3>1. QED
      BY <2>1, <2>2, Upward
  <2>4. QED
    BY <2>3
<1>13. Totals(f, t, A!SectionAt(t, k), k - 1)
  BY <1>1, <1>10 DEF Totals, More
<1>14. QED
  BY <1>1, <1>11, <1>12, <1>13

-----------------------------------------------------------------------------
(* The segments of the file. *)

\* Names that are put in order are those that are wanted.
LEMMA InOrderMembers ==
  ASSUME NEW T, NEW names \in Seq(T), NEW S, NEW found, found = InOrder(names, S)
  PROVE  /\ found \in Seq(T) /\ Range(found) = Range(names) \cap S
         /\ \A i \in DOMAIN found : found[i] \in S
<1>1. PICK n \in Nat : n = Len(names) /\ DOMAIN names = 1 .. n
  OBVIOUS
<1>2. PICK lists : lists = [i \in DOMAIN names |-> IF names[i] \in S THEN <<names[i]>> ELSE <<>>]
  OBVIOUS
<1>3. lists \in [1 .. n -> Seq(T)]
  <2>1. \A i \in 1 .. n : names[i] \in T
    BY <1>1
  <2>2. \A x \in T : <<x>> \in Seq(T)
    OBVIOUS
  <2>3. <<>> \in Seq(T)
    OBVIOUS
  <2>4. \A i \in 1 .. n : (IF names[i] \in S THEN <<names[i]>> ELSE <<>>) \in Seq(T)
    BY <2>1, <2>2, <2>3, Zenon
  <2>5. QED
    BY <1>1, <1>2, <2>4, Zenon
<1>4. PICK p : Concatenates(p, lists, n, T) /\ FlattenSeq(lists) = p[n]
  BY <1>3, FlattenConcatenates
<1>5. found = p[n]
  BY <1>2, <1>4 DEF InOrder
<1>6. Range(p[n]) = UNION {Range(lists[i]) : i \in 1 .. n}
  BY <1>3, <1>4, ConcatenationRange
<1>7. \A i \in 1 .. n : Range(lists[i]) = IF names[i] \in S THEN {names[i]} ELSE {}
  <2> SUFFICES ASSUME NEW i \in 1 .. n
               PROVE  Range(lists[i]) = IF names[i] \in S THEN {names[i]} ELSE {}
    OBVIOUS
  <2>1. \A e : Range(<<e>>) = {e}
    BY DEF Range
  <2>2. Range(<<>>) = {}
    BY DEF Range
  <2>3. lists[i] = IF names[i] \in S THEN <<names[i]>> ELSE <<>>
    BY <1>1, <1>2
  <2>4. QED
    BY <2>1, <2>2, <2>3, Zenon
<1>8. Range(found) = Range(names) \cap S
  <2>1. Range(names) = {names[i] : i \in 1 .. n}
    BY <1>1 DEF Range
  <2>2. \A x : x \in Range(found) <=> \E i \in 1 .. n : x \in Range(lists[i])
    BY <1>5, <1>6, Zenon
  <2>3. \A i \in 1 .. n : \A x : x \in Range(lists[i]) <=> x = names[i] /\ x \in S
    BY <1>7, Zenon
  <2>4. \A x : x \in Range(found) <=> x \in Range(names) /\ x \in S
    BY <2>1, <2>2, <2>3, Zenon
  <2>5. QED
    BY <2>4
<1>9. found \in Seq(T)
  BY <1>4, <1>5 DEF Concatenates
<1>10. QED
  BY <1>8, <1>9 DEF Range

-----------------------------------------------------------------------------
(* The operands. *)

\* Node k is a label that the nodes up to m do not define again.
LastDefined(t, k, m) ==
  t[k].kind = "label" /\ \A j \in k + 1 .. m : t[j].kind = "label" => t[j].name # t[k].name

\* positions has the labels as the walk has met them last.
LabelsKnown(m) ==
  \A k \in 1 .. m : LastDefined(tree, k, m) =>
    tree[k].name \in DOMAIN positions /\ positions[tree[k].name].address = tree[k].position

\* The operands are the positions of the labels.
OperandsSet ==
  \A i, k \in 1 .. Len(tree) :
    /\ tree[i].kind = "instruction" /\ tree[i].label # ""
    /\ LastDefined(tree, k, Len(tree)) /\ tree[k].name = tree[i].label
    => tree[i].operand = ToUWord(tree[k].position)

Filled(s) == IF s \in DOMAIN out_sections THEN Len(out_sections[s].data) ELSE 0

\* The section has the bytes at that place.
Stored(s, offset, bytes) ==
  /\ s \in DOMAIN out_sections /\ offset \in Nat
  /\ offset + Len(bytes) <= Len(out_sections[s].data)
  /\ \A j \in 1 .. Len(bytes) : out_sections[s].data[offset + j] = bytes[j]

NoSkip(t, m) == \A i \in 1 .. m - 1 : ~ IsSkip(t[i])

\* What the nodes of t before node m have left in the sections.
Emitted(t, m) ==
  /\ out_section = A!SectionAt(t, m) /\ out_section \in {"flat"} \union DOMAIN out_sections
  /\ \A k \in 1 .. m - 1 : A!SectionAt(t, k) \in {"flat"} \union DOMAIN out_sections
  /\ \A s, g : Totals(g, t, s, m - 1) => Filled(s) = g[m - 1]
  /\ \A i \in 1 .. m - 1 :
       t[i].kind = "instruction" => Stored(A!SectionAt(t, i), A!OffsetAt(t, i), emit(t[i]))
  /\ \A k \in 1 .. m - 1 :
       t[k].kind = "label" /\ Shared(A!SectionAt(t, k)) /\ NoSkip(t, m)
       => t[k].position = out_sections[A!SectionAt(t, k)].addr + A!OffsetAt(t, k)

OperandInv ==
  /\ stage = "number" => LabelsKnown(node - 1)
  /\ stage = "resolve" => LabelsKnown(Len(tree))
  /\ stage \in {"expand", "translate", "number", "resolve", "open"} => out_section = "flat" /\ out_sections = <<>>
  /\ stage = "open" => node = 1
  /\ stage \in {"open", "emit", "save", "written"} => OperandsSet
  /\ stage = "emit" => Emitted(tree, node)
  /\ stage \in {"save", "written"} => Emitted(tree, Len(tree) + 1)

\* A byte is the high or the low half of a word.
LEMMA HighLow == \A w \in UWord : 256 * HighByte(w) + LowByte(w) = w
BY DEF HighByte, LowByte, UWord, Between

\* Of an instruction that has an address, it is at the second and third byte.
LEMMA AddressStored ==
  ASSUME NEW n \in KnownType, n.name \in DOMAIN AddressOps, NEW s, NEW offset, Stored(s, offset, emit(n))
  PROVE  WordAt(s, offset + 1) = n.operand
<1>1. n.operand \in UWord
  BY DEF KnownType, InstructionType
<1>2. n.name \notin DOMAIN TransferOps /\ n.name \notin DOMAIN StackOps
  BY DEF AddressOps, TransferOps, StackOps
<1>3. emit(n) = <<AddressOps[n.name], HighByte(n.operand), LowByte(n.operand)>>
  BY <1>1, <1>2, Zenon DEF emit
<1>4. PICK bytes : bytes = emit(n)
  OBVIOUS
<1>5. Len(bytes) = 3 /\ bytes[2] = HighByte(n.operand) /\ bytes[3] = LowByte(n.operand)
  BY <1>3, <1>4
<1>6. Stored(s, offset, bytes)
  BY <1>4
<1>7. /\ offset \in Nat
      /\ out_sections[s].data[offset + 2] = bytes[2] /\ out_sections[s].data[offset + 3] = bytes[3]
  BY <1>5, <1>6 DEF Stored
<1>8. (offset + 1) + 1 = offset + 2 /\ (offset + 1) + 2 = offset + 3
  BY <1>7
<1>9. QED
  BY <1>1, <1>5, <1>7, <1>8, HighLow DEF WordAt

\* Where nodes are.
LEMMA Positions == TypeInv => Len(tree) \in Nat /\ \A i \in DOMAIN tree : i \in 1 .. Len(tree)
BY DEF TypeInv, TreeInv

\* The invariant is what the file needs.
LEMMA OperandInvSuffices == TypeInv /\ OperandInv => OperandsReachLabels
<1> SUFFICES ASSUME TypeInv, OperandInv, stage = "written", ~ SkipsBefore(Len(tree) + 1),
                    NEW i \in DOMAIN tree, NEW k \in DOMAIN tree,
                    tree[i].kind = "instruction", tree[i].label # "",
                    tree[k].kind = "label", tree[k].name = tree[i].label,
                    \A j \in k + 1 .. Len(tree) : tree[j].kind = "label" => tree[j].name # tree[k].name,
                    Shared(SectionAt(k))
             PROVE  WordAt(SectionAt(i), OffsetAt(i) + 1) = ToUWord(out_sections[SectionAt(k)].addr + OffsetAt(k))
  BY DEF OperandsReachLabels
<1>1. PICK n \in Nat : n = Len(tree) /\ i \in 1 .. n /\ k \in 1 .. n /\ (n + 1) - 1 = n
  <2>1. Len(tree) \in Nat /\ i \in 1 .. Len(tree) /\ k \in 1 .. Len(tree)
    BY Positions, Zenon
  <2>2. QED
    BY ONLY <2>1
<1>2. OperandsSet /\ Emitted(tree, n + 1) /\ tree \in Seq(NodeType)
  BY <1>1 DEF OperandInv, TypeInv, TreeInv
<1>3. tree[i].operand = ToUWord(tree[k].position)
  BY <1>1, <1>2 DEF OperandsSet, LastDefined
<1>4. NoSkip(tree, n + 1)
  BY <1>1 DEF SkipsBefore, NoSkip, IsSkip, A!IsDirective
<1>5. tree[k].position = out_sections[SectionAt(k)].addr + OffsetAt(k)
  BY <1>1, <1>2, <1>4 DEF Emitted, SectionAt, OffsetAt
<1>6. WordAt(SectionAt(i), OffsetAt(i) + 1) = tree[i].operand
  <2>1. Stored(SectionAt(i), OffsetAt(i), emit(tree[i]))
    BY <1>1, <1>2 DEF Emitted, SectionAt, OffsetAt
  <2>2. tree[i] \in NodeType
    BY ONLY <1>1, <1>2
  <2>3. tree[i] \in KnownType
    BY <2>2, NodeFields, Zenon
  <2>5. tree[i].name \in DOMAIN AddressOps
    BY <2>3, Zenon DEF KnownType
  <2>4. QED
    BY <2>1, <2>3, <2>5, AddressStored, Zenon
<1>7. QED
  BY <1>3, <1>5, <1>6

\* Nothing has been emitted.
LEMMA BeginOperandInv == Begin => OperandInv
BY DEF Begin, EmitInit, OperandInv

\* What a node leaves behind.
Grows ==
  /\ \A s \in DOMAIN out_sections :
       /\ s \in DOMAIN out_sections'
       /\ out_sections'[s].addr = out_sections[s].addr /\ out_sections'[s].name = out_sections[s].name
       /\ Len(out_sections[s].data) <= Len(out_sections'[s].data)
       /\ \A j \in 1 .. Len(out_sections[s].data) : out_sections'[s].data[j] = out_sections[s].data[j]
  /\ \A s : Filled(s)' = Filled(s) + IF s = out_section THEN A!Size(Here) ELSE 0
  /\ out_section' = IF IsSection(Here) THEN Here.args[1].name ELSE out_section
  /\ out_section' \in {"flat"} \union DOMAIN out_sections'
  /\ Here.kind = "instruction" =>
       \A s, offset, bytes : s = out_section /\ offset = Filled(s) /\ bytes = emit(Here)
         => Stored(s, offset, bytes)'

\* Sections hold data.
LEMMA FilledType ==
  ASSUME OutInv, NEW s
  PROVE  /\ Filled(s) \in Nat
         /\ s \in DOMAIN out_sections => out_sections[s].data \in Seq(Byte) /\ Filled(s) = Len(out_sections[s].data)
<1>1. CASE s \in DOMAIN out_sections
  <2>1. out_sections[s] \in SectionType
    BY <1>1 DEF OutInv
  <2>2. out_sections[s].data \in Seq(Byte)
    BY <2>1 DEF SectionType
  <2>3. QED
    BY <1>1, <2>2 DEF Filled
<1>2. CASE s \notin DOMAIN out_sections
  BY <1>2 DEF Filled
<1>3. QED
  BY <1>1, <1>2

\* Bytes that are appended.
LEMMA PutGrows ==
  ASSUME OutInv, Here \in NodeType, ~ IsSection(Here), NEW bytes \in Seq(Byte), Put(bytes), Len(bytes) = A!Size(Here),
         Here.kind = "instruction" => bytes = emit(Here)
  PROVE  Grows
<1>1. /\ out_sections \in [DOMAIN out_sections -> SectionType] /\ out_section \in DOMAIN out_sections
      /\ out_sections' = [out_sections EXCEPT ![out_section].data = @ \o bytes]
      /\ out_section' = out_section
  BY DEF OutInv, Put, InSection
<1>2. PICK old \in SectionType : old = out_sections[out_section]
  BY <1>1
<1>3. PICK before \in Seq(Byte) : before = old.data
  BY DEF SectionType
<1>4. PICK data \in Seq(Byte) : data = before \o bytes
  BY ConcatProperties
<1>5. Joined(Byte, before, bytes, data)
  BY <1>4, JoinIsJoined DEF Join
<1>6. PICK n, m \in Nat : n = Len(before) /\ m = Len(bytes) /\ Len(data) = n + m
  BY <1>5 DEF Joined
<1>7. \A j \in 1 .. n : data[j] = before[j]
  <2>1. \A j \in 1 .. n : j \in 1 .. n + m /\ j <= n
    BY <1>6
  <2>2. QED
    BY <1>5, <1>6, <2>1 DEF Joined
<1>8. \A j \in 1 .. m : data[n + j] = bytes[j]
  <2>1. SUFFICES ASSUME NEW j \in 1 .. m PROVE data[n + j] = bytes[j]
    OBVIOUS
  <2>2. PICK k \in 1 .. n + m : k = n + j /\ ~ (k <= n) /\ k - n = j
    OBVIOUS
  <2>3. data[k] = bytes[k - n]
    BY <1>5, <1>6, <2>2 DEF Joined
  <2>4. QED
    BY <2>2, <2>3
<1>9. PICK new : new = [old EXCEPT !.data = data]
  OBVIOUS
<1>10. new.name = old.name /\ new.addr = old.addr /\ new.data = data
  BY <1>9 DEF SectionType
<1>11. out_sections' = [out_sections EXCEPT ![out_section] = new]
  BY <1>1, <1>2, <1>3, <1>4, <1>9
<1>12. /\ DOMAIN out_sections' = DOMAIN out_sections /\ out_sections'[out_section] = new
       /\ \A s \in DOMAIN out_sections : s # out_section => out_sections'[s] = out_sections[s]
  BY <1>1, <1>11
<1>13. \A s \in DOMAIN out_sections :
         /\ s \in DOMAIN out_sections'
         /\ out_sections'[s].addr = out_sections[s].addr /\ out_sections'[s].name = out_sections[s].name
         /\ Len(out_sections[s].data) <= Len(out_sections'[s].data)
         /\ \A j \in 1 .. Len(out_sections[s].data) : out_sections'[s].data[j] = out_sections[s].data[j]
  <2>1. SUFFICES ASSUME NEW s \in DOMAIN out_sections
                 PROVE  /\ s \in DOMAIN out_sections'
                        /\ out_sections'[s].addr = out_sections[s].addr /\ out_sections'[s].name = out_sections[s].name
                        /\ Len(out_sections[s].data) <= Len(out_sections'[s].data)
                        /\ \A j \in 1 .. Len(out_sections[s].data) : out_sections'[s].data[j] = out_sections[s].data[j]
    OBVIOUS
  <2>2. CASE s = out_section
    <3>1. n <= n + m
      OBVIOUS
    <3>2. QED
      BY <1>2, <1>3, <1>6, <1>7, <1>10, <1>12, <2>2, <3>1
  <2>3. CASE s # out_section
    <3>1. out_sections'[s] = out_sections[s] /\ s \in DOMAIN out_sections'
      BY <1>12, <2>3
    <3>2. Len(out_sections[s].data) \in Nat
      BY FilledType
    <3>3. QED
      BY <3>1, <3>2
  <2>4. QED
    BY <2>2, <2>3
<1>14. ASSUME NEW s
       PROVE  Filled(s)' = Filled(s) + IF s = out_section THEN A!Size(Here) ELSE 0
  <2>1. CASE s = out_section
    <3>1. Filled(s)' = n + m /\ Filled(s) = n
      BY <1>1, <1>2, <1>3, <1>6, <1>10, <1>12, <2>1 DEF Filled
    <3>2. QED
      BY <1>6, <2>1, <3>1
  <2>2. CASE s # out_section
    <3>1. Filled(s)' = Filled(s)
      BY <1>12, <2>2 DEF Filled
    <3>2. Filled(s) \in Nat
      BY FilledType
    <3>3. QED
      BY <2>2, <3>1, <3>2
  <2>3. QED
    BY <2>1, <2>2
<1>15. ASSUME Here.kind = "instruction", NEW s, NEW offset, NEW code,
              s = out_section, offset = Filled(s), code = emit(Here)
       PROVE  Stored(s, offset, code)'
  <2>1. code = bytes
    BY <1>15
  <2>2. offset = n
    BY <1>1, <1>2, <1>3, <1>6, <1>15 DEF Filled
  <2>3. s \in DOMAIN out_sections' /\ out_sections'[s].data = data
    BY <1>1, <1>10, <1>12, <1>15
  <2>4. m = Len(code) /\ \A j \in 1 .. m : data[n + j] = code[j]
    BY <1>6, <1>8, <2>1
  <2>5. n + m <= Len(data)
    BY <1>6
  <2>6. QED
    BY <2>2, <2>3, <2>4, <2>5 DEF Stored
<1>16. out_section' \in {"flat"} \union DOMAIN out_sections'
  BY <1>1, <1>12
<1>17. QED
  BY <1>1, <1>13, <1>14, <1>15, <1>16 DEF Grows

\* Sections of which a node changes at most the permissions, or that it creates without data.
LEMMA EmptyGrows ==
  ASSUME OutInv, A!Size(Here) = 0, Here.kind # "instruction",
         out_section' = IF IsSection(Here) THEN Here.args[1].name ELSE out_section,
         out_section' \in {"flat"} \union DOMAIN out_sections',
         \A s \in DOMAIN out_sections :
           /\ s \in DOMAIN out_sections'
           /\ out_sections'[s].addr = out_sections[s].addr /\ out_sections'[s].name = out_sections[s].name
           /\ out_sections'[s].data = out_sections[s].data,
         \A s \in DOMAIN out_sections' : s \notin DOMAIN out_sections => out_sections'[s].data = <<>>
  PROVE  Grows
<1>1. ASSUME NEW s \in DOMAIN out_sections
      PROVE  /\ s \in DOMAIN out_sections'
             /\ out_sections'[s].addr = out_sections[s].addr /\ out_sections'[s].name = out_sections[s].name
             /\ Len(out_sections[s].data) <= Len(out_sections'[s].data)
             /\ \A j \in 1 .. Len(out_sections[s].data) : out_sections'[s].data[j] = out_sections[s].data[j]
  <2>1. Len(out_sections[s].data) \in Nat
    BY FilledType
  <2>2. QED
    BY <2>1
<1>2. ASSUME NEW s
      PROVE  Filled(s)' = Filled(s) + IF s = out_section THEN A!Size(Here) ELSE 0
  <2>1. Filled(s) \in Nat
    BY FilledType
  <2>2. Filled(s)' = Filled(s)
    <3>1. CASE s \in DOMAIN out_sections
      BY <3>1 DEF Filled
    <3>2. CASE s \notin DOMAIN out_sections
      BY <3>2 DEF Filled
    <3>3. QED
      BY <3>1, <3>2
  <2>3. QED
    BY <2>1, <2>2
<1>3. QED
  BY <1>1, <1>2 DEF Grows

\* A .secinfo changes permissions.
LEMMA SecinfoGrows ==
  ASSUME OutInv, out_section \in {"flat"} \union DOMAIN out_sections, EmitSecinfo
  PROVE  Grows
<1>1. out_section' = out_section /\ Here.kind = "directive" /\ Here.name = "secinfo"
  BY DEF EmitSecinfo, EmitDirective, Emitting, Step
<1>2. ~ IsSection(Here) /\ A!Size(Here) = 0
  BY <1>1 DEF IsSection, A!Size, A!IsDirective
<1>3. PICK name, old, told, new :
        /\ old = IF name \in DOMAIN out_sections THEN out_sections[name] ELSE Section("", 0)
        /\ new = [old EXCEPT !.flags = told]
        /\ out_sections' = Assign(out_sections, name, new)
  BY DEF EmitSecinfo
<1>4. /\ DOMAIN out_sections' = DOMAIN out_sections \union {name} /\ out_sections'[name] = new
      /\ \A s \in DOMAIN out_sections : s # name => out_sections'[s] = out_sections[s]
  BY <1>3 DEF Assign
<1>5. name \in DOMAIN out_sections =>
        new.name = old.name /\ new.addr = old.addr /\ new.data = old.data /\ old = out_sections[name]
  <2>1. name \in DOMAIN out_sections => old \in SectionType
    BY <1>3 DEF OutInv
  <2>2. QED
    BY <1>3, <2>1 DEF SectionType
<1>6. name \notin DOMAIN out_sections => new.data = <<>>
  BY <1>3 DEF Section
<1>7. \A s \in DOMAIN out_sections :
        /\ s \in DOMAIN out_sections'
        /\ out_sections'[s].addr = out_sections[s].addr /\ out_sections'[s].name = out_sections[s].name
        /\ out_sections'[s].data = out_sections[s].data
  BY <1>4, <1>5
<1>8. \A s \in DOMAIN out_sections' : s \notin DOMAIN out_sections => out_sections'[s].data = <<>>
  BY <1>4, <1>6
<1>9. out_section' \in {"flat"} \union DOMAIN out_sections'
  BY <1>1, <1>4
<1>10. QED
  BY <1>1, <1>2, <1>7, <1>8, <1>9, EmptyGrows

\* A .section creates at most an empty one.
LEMMA SectionGrows == OutInv /\ EmitSection => Grows
<1> SUFFICES ASSUME OutInv, EmitSection PROVE Grows
  OBVIOUS
<1>1. PICK name, new : name = Here.args[1].name /\ new = Section(name, Here.args[2].number)
  OBVIOUS
<1>2. /\ Here.kind = "directive" /\ Here.name = "section" /\ out_section' = name
      /\ \/ name \in DOMAIN out_sections /\ out_sections' = out_sections
         \/ /\ name \notin DOMAIN out_sections
            /\ out_sections' = Assign(out_sections, name, new)
  BY <1>1 DEF EmitSection, EmitDirective, Emitting, Step
<1>3. IsSection(Here) /\ A!Size(Here) = 0
  BY <1>2 DEF IsSection, A!Size, A!IsDirective
<1>0. new.data = <<>>
  BY <1>1 DEF Section
<1>4. /\ DOMAIN out_sections' = DOMAIN out_sections \union {name}
      /\ \A s \in DOMAIN out_sections : out_sections'[s] = out_sections[s]
      /\ name \notin DOMAIN out_sections => out_sections'[name].data = <<>>
  BY <1>0, <1>2 DEF Assign
<1>5. \A s \in DOMAIN out_sections :
        /\ s \in DOMAIN out_sections'
        /\ out_sections'[s].addr = out_sections[s].addr /\ out_sections'[s].name = out_sections[s].name
        /\ out_sections'[s].data = out_sections[s].data
  BY <1>4
<1>6. \A s \in DOMAIN out_sections' : s \notin DOMAIN out_sections => out_sections'[s].data = <<>>
  BY <1>4
<1>7. /\ out_section' = IF IsSection(Here) THEN Here.args[1].name ELSE out_section
      /\ out_section' \in {"flat"} \union DOMAIN out_sections'
      /\ Here.kind # "instruction"
  BY <1>1, <1>2, <1>3, <1>4
<1>8. QED
  BY <1>3, <1>5, <1>6, <1>7, EmptyGrows

\* What each node leaves behind.
LEMMA EmitNodeGrows ==
  ASSUME TypeInv, out_section \in {"flat"} \union DOMAIN out_sections, EmitNode
  PROVE  Grows
<1>0. OutInv
  BY DEF TypeInv
<1>1. AtNode /\ Here \in NodeType
  BY EmitNodeFrame, HereType DEF TypeInv
<1>2. A!Size(Here) = IF IsSkip(Here) THEN 0 ELSE Amount(Here)
  BY <1>1, SizeType
<1>3. ASSUME Here.kind = "directive", HasNumber(1)
      PROVE  Here.args[1].number \in Int
  BY <1>1, <1>3, NodeFields DEF HasNumber
<1>4. CASE EmitInstruction
  <2>1. Here \in KnownType /\ Put(emit(Here)) /\ Here.kind = "instruction"
    BY <1>1, <1>4, NodeFields DEF EmitInstruction, Emitting
  <2>2. emit(Here) \in Seq(Byte) /\ Len(emit(Here)) = A!Size(Here) /\ ~ IsSection(Here)
    BY <1>2, <2>1, EmitType DEF Amount, IsSection, IsSkip
  <2>3. QED
    BY <1>0, <1>1, <2>1, <2>2, PutGrows
<1>5. ASSUME NEW b \in Seq(Byte), Put(b), Here.kind = "directive", ~ IsSection(Here), ~ IsSkip(Here), Len(b) = Amount(Here)
      PROVE  Grows
  BY <1>0, <1>1, <1>2, <1>5, PutGrows
<1>6. CASE EmitByte
  <2>1. Here.kind = "directive" /\ Here.name = "byte" /\ HasNumber(1)
    BY <1>6 DEF EmitByte, EmitDirective, Emitting
  <2>2. PICK b : b = <<ToByte(Here.args[1].number)>>
    OBVIOUS
  <2>3. Put(b)
    BY <1>6, <2>2 DEF EmitByte
  <2>4. b \in Seq(Byte) /\ Len(b) = Amount(Here) /\ ~ IsSection(Here) /\ ~ IsSkip(Here)
    BY <1>3, <2>1, <2>2, ConversionTypes DEF Amount, IsSection, IsSkip
  <2>5. QED
    BY <1>5, <2>1, <2>3, <2>4
<1>7. CASE EmitWord
  <2>1. Here.kind = "directive" /\ Here.name = "word" /\ HasNumber(1)
    BY <1>7 DEF EmitWord, EmitDirective, Emitting
  <2>2. PICK b : b = <<HighByte(ToUWord(Here.args[1].number)), LowByte(Here.args[1].number)>>
    OBVIOUS
  <2>3. Put(b)
    BY <1>7, <2>2 DEF EmitWord
  <2>4. b \in Seq(Byte) /\ Len(b) = Amount(Here) /\ ~ IsSection(Here) /\ ~ IsSkip(Here)
    BY <1>3, <2>1, <2>2, ConversionTypes DEF Amount, IsSection, IsSkip
  <2>5. QED
    BY <1>5, <2>1, <2>3, <2>4
<1>8. CASE EmitBytes
  <2>1. Here.kind = "directive" /\ Here.name = "bytes"
    BY <1>8 DEF EmitBytes, EmitDirective, Emitting
  <2>2. PICK n, b : n = Len(Here.args) /\ b = [i \in DOMAIN Here.args |-> ToByte(Here.args[i].number)]
    OBVIOUS
  <2>3. Put(b)
    BY <1>8, <2>2 DEF EmitBytes
  <2>4. n \in Nat /\ DOMAIN Here.args = 1 .. n /\ \A i \in 1 .. n : ToByte(Here.args[i].number) \in Byte
    BY <1>1, <2>1, <2>2, NodeFields, ConversionTypes
  <2>5. b \in Seq(Byte) /\ Len(b) = n
    BY <2>2, <2>4
  <2>6. Amount(Here) = n /\ ~ IsSection(Here) /\ ~ IsSkip(Here)
    BY <2>1, <2>2 DEF Amount, IsSection, IsSkip
  <2>7. QED
    BY <1>5, <2>1, <2>3, <2>5, <2>6
<1>9. CASE EmitSection
  BY <1>0, <1>9, SectionGrows
<1>10. CASE EmitSecinfo
  BY <1>0, <1>10, SecinfoGrows
<1>11. ASSUME UNCHANGED <<out_section, out_sections>>, ~ IsSection(Here), Here.kind # "instruction",
              IsSkip(Here) \/ Amount(Here) = 0
       PROVE  Grows
  <2>1. A!Size(Here) = 0
    BY <1>2, <1>11
  <2>2. QED
    BY <1>0, <1>11, <2>1, EmptyGrows
<1>12. CASE EmitEntrypoint \/ EmitGlobal \/ EmitWeak \/ EmitExtern
  <2>1. /\ Here.kind = "directive" /\ Here.name \in {"entrypoint", "global", "weak", "extern"}
        /\ UNCHANGED <<out_section, out_sections>>
    BY <1>12 DEF EmitEntrypoint, EmitGlobal, EmitWeak, EmitExtern, EmitExport, Export, EmitDirective, Emitting
  <2>2. ~ IsSection(Here) /\ Amount(Here) = 0
    BY <2>1 DEF IsSection, Amount
  <2>3. QED
    BY <1>11, <2>1, <2>2
<1>13. CASE EmitNothing
  <2>1. UNCHANGED <<out_section, out_sections>>
    BY <1>13 DEF EmitNothing
  <2>2. ~ IsSection(Here) /\ (IsSkip(Here) \/ Amount(Here) = 0) /\ Here.kind # "instruction"
    BY <1>13 DEF EmitNothing, Emitting, Known, IsSection, IsSkip, Amount
  <2>3. QED
    BY <1>11, <2>1, <2>2
<1>14. QED
  BY <1>4, <1>6, <1>7, <1>8, <1>9, <1>10, <1>12, <1>13 DEF EmitNode

\* What is stored stays where it is.
LEMMA StoredStays ==
  ASSUME OutInv, Grows, NEW s, NEW offset, NEW bytes \in Seq(Byte), Stored(s, offset, bytes)
  PROVE  Stored(s, offset, bytes)'
<1>1. PICK k \in Nat : k = Len(bytes)
  OBVIOUS
<1>2. /\ s \in DOMAIN out_sections /\ offset \in Nat /\ offset + k <= Len(out_sections[s].data)
      /\ \A j \in 1 .. k : out_sections[s].data[offset + j] = bytes[j]
  BY <1>1 DEF Stored
<1>3. PICK n \in Nat : n = Len(out_sections[s].data)
  BY <1>2, FilledType
<1>4. /\ s \in DOMAIN out_sections' /\ n <= Len(out_sections'[s].data)
      /\ \A j \in 1 .. n : out_sections'[s].data[j] = out_sections[s].data[j]
  BY <1>2, <1>3 DEF Grows
<1>5. ASSUME NEW j \in 1 .. k
      PROVE  out_sections'[s].data[offset + j] = bytes[j]
  <2>1. PICK i \in 1 .. n : i = offset + j
    BY <1>2, <1>3
  <2>2. QED
    BY <1>2, <1>4, <2>1
<1>6. Len(out_sections'[s].data) >= n => offset + k <= Len(out_sections'[s].data)
  <2> SUFFICES ASSUME NEW m, m = Len(out_sections'[s].data), m >= n PROVE offset + k <= m
    OBVIOUS
  <2>1. m \in Int
    OBVIOUS
  <2>2. QED
    BY <1>2, <1>3, <2>1
<1>7. QED
  BY <1>1, <1>2, <1>3, <1>4, <1>5, <1>6 DEF Stored

\* One more node has been emitted.
LEMMA EmittedOn ==
  ASSUME OutInv, NEW t \in Seq(NodeType), NEW n \in 1 .. Len(t), Here = t[n], Emitted(t, n), Grows,
         Here.kind = "label" /\ Shared(out_section) /\ NoSkip(t, n) => Here.position = Level(out_section),
         NEW m \in Nat, m = n + 1
  PROVE  Emitted(t, m)'
<1>1. n \in 1 .. Len(t) + 1 /\ n \in Nat /\ n >= 1 /\ n - 1 \in Nat /\ m - 1 = n /\ \A k \in 1 .. n : k = n \/ k \in 1 .. n - 1
  OBVIOUS
<1>2. out_section = A!SectionAt(t, n) /\ out_section \in {"flat"} \union DOMAIN out_sections
  BY DEF Emitted
<1>3. out_section' = A!SectionAt(t, m) /\ out_section' \in {"flat"} \union DOMAIN out_sections'
  <2>1. A!SectionAt(t, m) = IF IsSection(t[n]) THEN t[n].args[1].name ELSE A!SectionAt(t, n)
    BY <1>1, SectionNext
  <2>2. QED
    BY <1>2, <2>1 DEF Grows
<1>4. \A k \in 1 .. n : A!SectionAt(t, k) \in {"flat"} \union DOMAIN out_sections
  BY <1>1, <1>2 DEF Emitted
<1>5. DOMAIN out_sections \subseteq DOMAIN out_sections'
  BY DEF Grows
<1>6. ASSUME NEW s, NEW g, Totals(g, t, s, n)
      PROVE  Filled(s)' = g[n]
  <2>1. g[n] = g[n - 1] + IF A!SectionAt(t, n) = s THEN A!Size(t[n]) ELSE 0
    <3>1. \A j \in 1 .. n : g[j] = g[j - 1] + IF A!SectionAt(t, j) = s THEN A!Size(t[j]) ELSE 0
      BY <1>6, Zenon DEF Totals
    <3>2. n \in 1 .. n
      BY <1>1
    <3>3. QED
      BY <3>1, <3>2, Zenon
  <2>2. Totals(g, t, s, n - 1)
    BY <1>1, <1>6 DEF Totals
  <2>3. Filled(s) = g[n - 1]
    BY <2>2 DEF Emitted
  <2>4. Filled(s)' = Filled(s) + IF s = out_section THEN A!Size(Here) ELSE 0
    BY DEF Grows
  <2>5. QED
    BY <1>2, <2>1, <2>3, <2>4
<1>7. A!OffsetAt(t, n) = Filled(out_section)
  <2>1. PICK g : Totals(g, t, A!SectionAt(t, n), n - 1) /\ A!OffsetAt(t, n) = g[n - 1]
    BY <1>1, OffsetTotals
  <2>2. QED
    BY <1>2, <2>1 DEF Emitted
<1>8. ASSUME NEW i \in 1 .. n, t[i].kind = "instruction"
      PROVE  Stored(A!SectionAt(t, i), A!OffsetAt(t, i), emit(t[i]))'
  <2>0. emit(t[i]) \in Seq(Byte)
    <3>1. t[i] \in NodeType
      OBVIOUS
    <3>2. QED
      BY <1>8, <3>1, NodeFields, EmitType
  <2>1. CASE i = n
    BY <1>2, <1>7, <1>8, <2>1 DEF Grows
  <2>2. CASE i \in 1 .. n - 1
    <3>1. Stored(A!SectionAt(t, i), A!OffsetAt(t, i), emit(t[i]))
      BY <1>8, <2>2 DEF Emitted
    <3>2. QED
      BY <2>0, <3>1, StoredStays
  <2>3. QED
    BY <1>1, <2>1, <2>2
<1>9. ASSUME NEW k \in 1 .. n, t[k].kind = "label", Shared(A!SectionAt(t, k))', NoSkip(t, m)
      PROVE  t[k].position = out_sections'[A!SectionAt(t, k)].addr + A!OffsetAt(t, k)
  <2>1. NoSkip(t, n)
    BY <1>1, <1>9 DEF NoSkip
  <2>2. PICK s : s = A!SectionAt(t, k)
    OBVIOUS
  <2>3. s \in DOMAIN out_sections /\ Shared(s)
    BY <1>4, <1>9, <2>2 DEF Shared, Grows
  <2>4. out_sections'[s].addr = out_sections[s].addr
    BY <2>3 DEF Grows
  <2>5. CASE k = n
    <3>1. s = out_section
      BY <1>2, <2>2, <2>5
    <3>2. t[k].position = Level(out_section)
      BY <1>9, <2>1, <2>3, <2>5, <3>1
    <3>3. Filled(s) = Len(out_sections[s].data)
      BY <2>3 DEF Filled
    <3>4. QED
      BY <1>7, <2>2, <2>4, <2>5, <3>1, <3>2, <3>3 DEF Level
  <2>6. CASE k \in 1 .. n - 1
    BY <1>9, <2>1, <2>2, <2>3, <2>4, <2>6 DEF Emitted
  <2>7. QED
    BY <1>1, <2>5, <2>6
<1>10. QED
  BY <1>1, <1>3, <1>4, <1>5, <1>6, <1>8, <1>9 DEF Emitted

\* One more node has been numbered.
LEMMA KnownOn ==
  ASSUME TypeInv, NEW n \in 1 .. Len(tree), LabelsKnown(n - 1), NEW m \in Nat, m = n,
         \A k \in 1 .. n - 1 : tree'[k] = tree[k], NEW here, here = tree'[n],
         here.kind = "label" => here.name \in DOMAIN positions' /\ positions'[here.name].address = here.position,
         \A l \in DOMAIN positions : (here.kind = "label" => l # here.name) =>
           l \in DOMAIN positions' /\ positions'[l] = positions[l]
  PROVE  LabelsKnown(m)'
<1> SUFFICES ASSUME NEW k \in 1 .. m, LastDefined(tree', k, m)
             PROVE  /\ tree'[k].name \in DOMAIN positions'
                    /\ positions'[tree'[k].name].address = tree'[k].position
  BY DEF LabelsKnown
<1>1. m \in k .. m /\ \A j : j \in k + 1 .. m - 1 => j \in k + 1 .. m /\ j \in 1 .. m - 1
  BY DEF TypeInv, TreeInv
<1>2. CASE k = n
  BY <1>2 DEF LastDefined
<1>3. CASE k # n
  <2>1. k \in 1 .. n - 1 /\ n \in k + 1 .. m
    BY <1>3
  <2>2. tree'[k] = tree[k] /\ (here.kind = "label" => here.name # tree[k].name)
    BY <2>1 DEF LastDefined
  <2>3. LastDefined(tree, k, n - 1)
    BY <1>1, <2>1, <2>2 DEF LastDefined
  <2>4. tree[k].name \in DOMAIN positions /\ positions[tree[k].name].address = tree[k].position
    BY <2>1, <2>3 DEF LabelsKnown
  <2>5. QED
    BY <2>2, <2>4
<1>4. QED
  BY <1>2, <1>3

\* A label's position is known once the walk has passed it.
LEMMA LabelKnown ==
  ASSUME TypeInv, LabelsKnown(node - 1), NumberLabel, NEW m \in Nat, m = node
  PROVE  LabelsKnown(m)'
<1>1. node \in 1 .. Len(tree) /\ tree \in Seq(NodeType) /\ Here.kind = "label" /\ Here = tree[node]
  BY DEF TypeInv, TreeInv, NumberLabel, Numbering, AtNode, Here
<1>2. Here \in LabelType
  BY <1>1, NodeFields
<1>3. PICK placed : placed = [Here EXCEPT !.position = position, !.section = current_section]
  OBVIOUS
<1>4. placed.kind = "label" /\ placed.position = position /\ placed.name = Here.name
  BY <1>2, <1>3 DEF LabelType
<1>5. /\ tree' = [tree EXCEPT ![node] = placed]
      /\ positions' = Assign(positions, Here.name, [address |-> position, section |-> current_section])
  BY <1>3 DEF NumberLabel, Here
<1>6. tree'[node] = placed /\ \A k \in 1 .. node - 1 : tree'[k] = tree[k]
  BY <1>1, <1>5
<1>7. PICK known : known = [address |-> position, section |-> current_section]
  OBVIOUS
<1>8. /\ placed.name \in DOMAIN positions' /\ positions'[placed.name] = known
      /\ \A l \in DOMAIN positions : l # placed.name => l \in DOMAIN positions' /\ positions'[l] = positions[l]
  BY <1>4, <1>5, <1>7 DEF Assign
<1>9. known.address = placed.position
  BY <1>4, <1>7
<1>10. QED
  BY <1>1, <1>4, <1>6, <1>8, <1>9, KnownOn

\* The other nodes say nothing of labels.
LEMMA OtherKnown ==
  ASSUME TypeInv, LabelsKnown(node - 1), AtNode, Here.kind # "label", UNCHANGED <<tree, positions>>, NEW m \in Nat, m = node
  PROVE  LabelsKnown(m)'
<1>1. node \in 1 .. Len(tree) /\ tree'[node] = Here
  BY DEF TypeInv, TreeInv, AtNode, Here
<1>2. QED
  BY <1>1, KnownOn

\* The second walk of the transformer sets the operands.
LEMMA OperandsResolved ==
  ASSUME TypeInv, LabelsKnown(Len(tree)), ResolveLabels
  PROVE  OperandsSet'
<1>1. /\ tree \in Seq(NodeType) /\ Len(tree) \in Nat
      /\ tree' = [i \in DOMAIN tree |-> Resolve(tree[i])]
  BY DEF TypeInv, TreeInv, ResolveLabels
<1>2. PICK t, u, n : t = tree /\ u = tree' /\ n = Len(tree)
  OBVIOUS
<1>3. n \in Nat /\ Len(u) = n /\ \A i \in 1 .. n : t[i] \in NodeType /\ u[i] = Resolve(t[i])
  BY <1>1, <1>2
<1>4. ASSUME NEW i \in 1 .. n
      PROVE  /\ u[i].kind = t[i].kind
             /\ t[i].kind = "instruction" =>
                  u[i].label = t[i].label
                  /\ (t[i].label # "" /\ t[i].label \in DOMAIN positions
                        => u[i].operand = ToUWord(positions[t[i].label].address))
             /\ t[i].kind # "instruction" => u[i] = t[i]
  <2>1. CASE t[i].kind = "instruction"
    <3>1. t[i] \in KnownType
      BY <1>3, <2>1, NodeFields
    <3>2. \A w : /\ [t[i] EXCEPT !.operand = w].kind = t[i].kind
                 /\ [t[i] EXCEPT !.operand = w].label = t[i].label
                 /\ [t[i] EXCEPT !.operand = w].operand = w
      BY <3>1 DEF KnownType, InstructionType
    <3>3. QED
      BY <1>3, <2>1, <3>2 DEF Resolve
  <2>2. CASE t[i].kind # "instruction"
    BY <1>3, <2>2 DEF Resolve
  <2>3. QED
    BY <2>1, <2>2
<1>5. ASSUME NEW i \in 1 .. n, NEW k \in 1 .. n, u[i].kind = "instruction", u[i].label # "",
             LastDefined(u, k, n), u[k].name = u[i].label
      PROVE  u[i].operand = ToUWord(u[k].position)
  <2>1. t[i].kind = "instruction" /\ t[i].label = u[i].label /\ t[k].kind = "label" /\ u[k] = t[k]
    BY <1>4, <1>5 DEF LastDefined
  <2>2. ASSUME NEW j \in k + 1 .. n, t[j].kind = "label" PROVE t[j].name # t[k].name
    <3>1. j \in 1 .. n
      BY <1>3
    <3>2. u[j] = t[j]
      BY <1>4, <2>2, <3>1
    <3>3. QED
      BY <1>5, <2>1, <2>2, <3>2 DEF LastDefined
  <2>3. LastDefined(t, k, n)
    BY <2>1, <2>2 DEF LastDefined
  <2>4. t[k].name \in DOMAIN positions /\ positions[t[k].name].address = t[k].position
    BY <1>2, <2>3 DEF LabelsKnown
  <2>5. t[k].name = t[i].label
    BY <1>5, <2>1
  <2>6. u[i].operand = ToUWord(positions[t[i].label].address)
    BY <1>4, <1>5, <2>1, <2>4, <2>5
  <2>7. QED
    BY <2>1, <2>4, <2>5, <2>6
<1>6. QED
  BY <1>2, <1>3, <1>5 DEF OperandsSet

\* The transformer keeps the invariant.
LEMMA TransformOperandInv ==
  ASSUME TypeInv, OperandInv, Transform, UNCHANGED emitVars
  PROVE  OperandInv'
<1>1. /\ stage \in {"translate", "number", "resolve"} /\ stage' \in {"number", "resolve", "open", "terminated"}
      /\ out_section' = "flat" /\ out_sections' = <<>>
  BY TransformFrame DEF OperandInv, emitVars
<1>2. node \in 1 .. Len(tree) + 1 /\ Len(tree) \in Nat /\ (stage = "translate" => node = 1)
  BY DEF TypeInv, TreeInv
<1>3. ASSUME stage' = "terminated" PROVE OperandInv'
  BY <1>3 DEF OperandInv
<1>4. ASSUME stage = "number", stage' = "number", node' = node + 1, NEW m \in Nat, m = node, LabelsKnown(m)'
      PROVE  OperandInv'
  <2>1. node' - 1 = m
    BY <1>2, <1>4
  <2>2. LabelsKnown(node - 1)'
    BY <1>4, <2>1 DEF LabelsKnown
  <2>3. QED
    BY <1>1, <1>4, <2>2 DEF OperandInv
<1>5. PICK m \in Nat : m = node
  BY <1>2
<1>6. CASE TranslateLines
  <2>1. node' = 1 /\ (stage' = "number" \/ stage' = "terminated")
    BY <1>2, <1>6 DEF TranslateLines, Terminate
  <2>2. \A k \in 1 .. node' - 1 : FALSE
    BY <2>1
  <2>3. LabelsKnown(node - 1)'
    BY <2>2 DEF LabelsKnown
  <2>4. QED
    BY <1>1, <1>3, <2>1, <2>3 DEF OperandInv
<1>7. CASE NumberLabel
  <2>1. stage = "number" /\ stage' = "number" /\ node' = node + 1
    BY <1>7 DEF NumberLabel, Numbering, astVars
  <2>2. LabelsKnown(m)'
    BY <1>5, <1>7, <2>1, LabelKnown DEF OperandInv
  <2>3. QED
    BY <1>4, <1>5, <2>1, <2>2
<1>8. CASE NumberInstruction \/ NumberSection \/ NumberDirective
  <2>1. /\ stage = "number" /\ stage' = "number" /\ node' = node + 1 /\ AtNode /\ Here.kind # "label"
        /\ UNCHANGED <<tree, positions>>
    BY <1>8 DEF NumberInstruction, NumberSection, NumberDirective, Numbering, Advance, astVars
  <2>2. LabelsKnown(m)'
    BY <1>5, <2>1, OtherKnown DEF OperandInv
  <2>3. QED
    BY <1>4, <1>5, <2>1, <2>2
<1>9. CASE NumberThrows
  BY <1>3, <1>9 DEF NumberThrows, Terminate
<1>10. CASE NumberEnd
  <2>1. stage = "number" /\ stage' = "resolve" /\ ~ AtNode /\ UNCHANGED treeVars
    BY <1>10 DEF NumberEnd
  <2>2. node - 1 = Len(tree)
    BY <1>2, <2>1 DEF AtNode
  <2>3. LabelsKnown(Len(tree))
    BY <2>1, <2>2 DEF OperandInv
  <2>4. LabelsKnown(Len(tree))'
    BY <2>1, <2>3 DEF LabelsKnown, treeVars
  <2>5. QED
    BY <1>1, <2>1, <2>4 DEF OperandInv
<1>11. CASE ResolveLabels
  <2>1. stage = "resolve" /\ stage' = "open" /\ node' = 1
    BY <1>11 DEF ResolveLabels
  <2>2. OperandsSet'
    BY <1>11, <2>1, OperandsResolved DEF OperandInv
  <2>3. QED
    BY <1>1, <2>1, <2>2 DEF OperandInv
<1>12. QED
  BY <1>6, <1>7, <1>8, <1>9, <1>10, <1>11 DEF Transform

\* No node has been emitted.
LEMMA NothingEmitted ==
  ASSUME out_section' = "flat", out_sections' = <<>>, NEW t
  PROVE  Emitted(t, 1)'
<1>1. \A k \in 1 .. 1 - 1 : FALSE
  OBVIOUS
<1>2. A!SectionAt(t, 1) = "flat"
  BY SectionFirst
<1>3. \A s, g : Totals(g, t, s, 1 - 1) => Filled(s)' = g[1 - 1]
  BY DEF Totals, Filled
<1>4. QED
  BY <1>1, <1>2, <1>3 DEF Emitted

\* It speaks of the sections alone.
LEMMA EmittedFrame ==
  ASSUME UNCHANGED <<out_section, out_sections>>, NEW t, NEW m, Emitted(t, m)
  PROVE  Emitted(t, m)'
<1>1. \A s : Filled(s)' = Filled(s)
  BY DEF Filled
<1>2. \A s, offset, bytes : Stored(s, offset, bytes) => Stored(s, offset, bytes)'
  BY DEF Stored
<1>3. \A s : Shared(s)' => Shared(s)
  BY DEF Shared
<1>4. QED
  BY <1>1, <1>2, <1>3 DEF Emitted

\* The emitter keeps the invariant.
LEMMA EmitOperandInv ==
  ASSUME TypeInv, TypeInv', PlaceInv, OperandInv, Emit, UNCHANGED tree
  PROVE  OperandInv'
<1>1. tree \in Seq(NodeType) /\ node \in 1 .. Len(tree) + 1 /\ Len(tree) \in Nat
  BY DEF TypeInv, TreeInv
<1>0. PICK t, u : t = tree /\ u = Len(tree) + 1 /\ t = tree' /\ u = Len(tree') + 1
  OBVIOUS
<1>2. OperandsSet => OperandsSet'
  BY DEF OperandsSet
<1>3. CASE OpenOutput
  <2>1. /\ stage = "open" /\ stage' = "emit" /\ node' = 1 /\ out_section' = "flat" /\ out_sections' = <<>>
        /\ OperandsSet
    BY <1>3 DEF OpenOutput, OperandInv
  <2>2. Emitted(t, 1)'
    BY <2>1, NothingEmitted
  <2>3. Emitted(tree, node)'
    BY <1>0, <2>1, <2>2
  <2>4. QED
    BY <1>2, <2>1, <2>3 DEF OperandInv
<1>4. CASE EmitNode /\ UNCHANGED stage
  <2>1. stage = "emit" /\ stage' = "emit" /\ AtNode /\ node' = node + 1 /\ OperandsSet /\ Emitted(tree, node)
    BY <1>4, EmitNodeFrame DEF OperandInv
  <2>2. PICK s \in Seq(NodeType), n \in 1 .. Len(tree), m \in Nat : s = tree /\ n = node /\ m = n + 1
    BY <1>1, <2>1 DEF AtNode
  <2>3. Grows
    BY <1>4, <2>1, EmitNodeGrows DEF Emitted
  <2>4. Here.kind = "label" /\ Shared(out_section) /\ NoSkip(s, n) => Here.position = Level(out_section)
    <3>1. NoSkip(s, n) => ~ SkipsBefore(node)
      BY <2>2 DEF NoSkip, SkipsBefore, IsSkip, A!IsDirective
    <3>2. Here.kind = "label" => Emitting("label")
      BY <2>1 DEF Emitting
    <3>3. QED
      BY <3>1, <3>2, PlaceInvSuffices DEF LabelPlaced, NextByte, Level
  <2>5. Here = s[n] /\ Emitted(s, n) /\ OutInv
    BY <2>1, <2>2 DEF Here, TypeInv
  <2>6. Emitted(s, m)'
    BY <2>2, <2>3, <2>4, <2>5, EmittedOn
  <2>7. s = tree' /\ m = node'
    BY <2>1, <2>2
  <2>8. Emitted(tree, node)'
    BY <2>6, <2>7
  <2>9. QED
    BY <1>2, <2>1, <2>8 DEF OperandInv
<1>5. ASSUME stage' = "terminated" PROVE OperandInv'
  BY <1>5 DEF OperandInv
<1>6. CASE EmitThrows
  BY <1>5, <1>6 DEF EmitThrows, Terminate
<1>7. CASE EmitSymbols
  <2>1. /\ stage = "emit" /\ ~ AtNode /\ stage' \in {"save", "terminated"}
        /\ UNCHANGED <<node, out_sections, out_section>>
    BY <1>7 DEF EmitSymbols, Terminate
  <2>2. node = Len(tree) + 1 /\ OperandsSet /\ Emitted(tree, node)
    BY <1>1, <2>1 DEF AtNode, OperandInv
  <2>3. Emitted(t, u) /\ UNCHANGED <<out_section, out_sections>>
    BY <1>0, <2>1, <2>2
  <2>4. Emitted(t, u)'
    BY <2>3, EmittedFrame
  <2>5. Emitted(tree, Len(tree) + 1)'
    BY <1>0, <2>4
  <2>6. QED
    BY <1>2, <1>5, <2>1, <2>2, <2>5 DEF OperandInv
<1>8. CASE Save
  <2>1. /\ stage = "save" /\ stage' = "written" /\ UNCHANGED <<node, out_sections, out_section>>
        /\ OperandsSet /\ Emitted(tree, Len(tree) + 1)
    BY <1>8 DEF Save, OperandInv
  <2>2. Emitted(t, u) /\ UNCHANGED <<out_section, out_sections>>
    BY <1>0, <2>1
  <2>3. Emitted(t, u)'
    BY <2>2, EmittedFrame
  <2>4. Emitted(tree, Len(tree) + 1)'
    BY <1>0, <2>3
  <2>5. QED
    BY <1>2, <2>1, <2>4 DEF OperandInv
<1>9. QED
  BY <1>3, <1>4, <1>6, <1>7, <1>8, EmitCases

\* Every step keeps the invariant.
LEMMA NextOperandInv == TypeInv /\ PlaceInv /\ OperandInv /\ [Next]_asmVars => OperandInv'
<1> SUFFICES ASSUME TypeInv, PlaceInv, OperandInv, [Next]_asmVars PROVE OperandInv'
  OBVIOUS
<1>0. TypeInv'
  BY NextTypeInv
<1>1. CASE UNCHANGED asmVars
  <2>1. UNCHANGED <<stage, tree, node, positions, out_section, out_sections>>
    BY <1>1 DEF asmVars, astVars, treeVars, emitVars
  <2>2. OperandsSet => OperandsSet'
    BY <2>1 DEF OperandsSet
  <2>3. /\ LabelsKnown(node - 1) => LabelsKnown(node - 1)'
        /\ LabelsKnown(Len(tree)) => LabelsKnown(Len(tree))'
    BY <2>1 DEF LabelsKnown
  <2>4. PICK t, m, u : t = tree /\ m = node /\ u = Len(tree) + 1
    OBVIOUS
  <2>5. (Emitted(t, m) => Emitted(t, m)') /\ (Emitted(t, u) => Emitted(t, u)')
    BY <2>1, EmittedFrame
  <2>6. t = tree' /\ m = node' /\ u = Len(tree') + 1
    BY <2>1, <2>4
  <2>7. /\ Emitted(tree, node) => Emitted(tree, node)'
        /\ Emitted(tree, Len(tree) + 1) => Emitted(tree, Len(tree) + 1)'
    BY <2>4, <2>5, <2>6
  <2>8. QED
    BY <2>1, <2>2, <2>3, <2>7 DEF OperandInv
<1>2. CASE ExpandMacros /\ UNCHANGED <<treeVars, emitVars>>
  <2>1. stage = "expand" /\ stage' \in {"expand", "translate", "terminated"}
    BY <1>2 DEF ExpandMacros, SkipLine, ReplaceInvocation, BadInvocation, EndPass, InPass, Terminate, astVars
  <2>2. QED
    BY <1>2, <2>1 DEF OperandInv, emitVars
<1>3. CASE Transform /\ UNCHANGED <<macroVars, emitVars>>
  BY <1>3, TransformOperandInv
<1>4. CASE Emit /\ UNCHANGED <<tree, sections, current_section, positions>>
  BY <1>0, <1>4, EmitOperandInv
<1>5. QED
  BY <1>1, <1>2, <1>3, <1>4 DEF Next

\* In the file that is written without a .skip, each operand that was given as
\* a label is the address at which the file has what follows the label.
THEOREM OperandsCorrect == Spec => []OperandsReachLabels
<1>1. Init => TypeInv /\ PlaceInv /\ OperandInv
  BY InitTypeInv, InitBegin, BeginPlaceInv, BeginOperandInv
<1>2. TypeInv /\ PlaceInv /\ OperandInv /\ [Next]_asmVars => TypeInv' /\ PlaceInv' /\ OperandInv'
  BY NextTypeInv, NextPlaceInv, NextOperandInv
<1>3. TypeInv /\ OperandInv => OperandsReachLabels
  BY OperandInvSuffices
<1>4. QED
  BY <1>1, <1>2, <1>3, PTL DEF Spec
=============================================================================
