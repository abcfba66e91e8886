---------------------------- MODULE MCToolchain ----------------------------
(***************************************************************************)
(* The example of the repository, examples/test1.cs8s with the files it    *)
(* includes, on a small machine: the data is at 64 and the port at 96.     *)
(* And for every instruction and every register a program that executes it *)
(* between two others.  Every program is there as its text, which the      *)
(* toolchain starts from, and as the tree that it should be read as.       *)
(***************************************************************************)
EXTENDS CS8Toolchain

\* What it has for texts asks for no disk.
T == INSTANCE MCTexts WITH Disk <- <<>>

MCSectionOrder == <<"code", "data">>
MCCharacters == {10}

\* examples/cs8.cs8l, which does not end with a newline.
LinkerText ==
  ".entrypoint 0x0000\n.section code, 0x0000\n.section data, 0x40\n"
  \o ".secinfo code, execute, read\n.secinfo data, read, write"

Linker ==
  << Dir("entrypoint", <<Num(0)>>),
     Dir("section", <<Sym("code"), Num(0)>>),
     Dir("section", <<Sym("data"), Num(64)>>),
     Dir("secinfo", <<Sym("code"), Sym("execute"), Sym("read")>>),
     Dir("secinfo", <<Sym("data"), Sym("read"), Sym("write")>>) >>

\* examples/macros.cs8i: the macros that test1.cs8s uses and those they use.
MacrosText ==
  "; Load\n.macro li val, reg\nlimm \\val\ntr %tmp, \\reg\nrtm\n.endm\n"
  \o ".macro ldt val, reg\nlimm \\val\ntr %tmp, \\reg\n.endm\n\n"
  \o ".macro lxt reg\nlidx\ntr %tmp, \\reg\n.endm\n\n; Store\n"
  \o ".macro sm addr\nsmem \\addr\nrtm\n.endm\n\n\n; Branch\n"
  \o ".macro br addr\nlimm \\addr\njmp\nrtm\n.endm\n\n"
  \o ".macro be addr\nlimm \\addr\njle\nrtm\n.endm\n\n"
  \o ".macro halt\nlimm 0xFFFF\njmp\n.endm\n\n; Inc\n"
  \o ".macro inc reg\nli 1, %sc1\ntr \\reg, %sc0\nadd\ntr %dst, \\reg\n.endm\n"

Macros ==
  << Macro("li",  <<"val", "reg">>, <<Insn("limm", <<Replace("val")>>),
                                      Insn("tr", <<Reg("tmp"), Replace("reg")>>),
                                      Insn("rtm", <<>>)>>),
     Macro("ldt", <<"val", "reg">>, <<Insn("limm", <<Replace("val")>>),
                                      Insn("tr", <<Reg("tmp"), Replace("reg")>>)>>),
     Macro("lxt", <<"reg">>, <<Insn("lidx", <<>>),
                               Insn("tr", <<Reg("tmp"), Replace("reg")>>)>>),
     Macro("sm",  <<"addr">>, <<Insn("smem", <<Replace("addr")>>), Insn("rtm", <<>>)>>),
     Macro("br",  <<"addr">>, <<Insn("limm", <<Replace("addr")>>),
                                Insn("jmp", <<>>), Insn("rtm", <<>>)>>),
     Macro("be",  <<"addr">>, <<Insn("limm", <<Replace("addr")>>),
                                Insn("jle", <<>>), Insn("rtm", <<>>)>>),
     Macro("halt", <<>>, <<Insn("limm", <<Num(65535)>>), Insn("jmp", <<>>)>>),
     Macro("inc", <<"reg">>, <<Insn("li", <<Num(1), Reg("sc1")>>),
                               Insn("tr", <<Replace("reg"), Reg("sc0")>>),
                               Insn("add", <<>>),
                               Insn("tr", <<Reg("dst"), Replace("reg")>>)>>) >>

Test1Text ==
  ".include cs8.cs8l ; Include linker file\n"
  \o ".include macros.cs8i ; Include standard macros\n\n"
  \o ".section code\n.global start\n"
  \o "start: ldt message, %bse ; Load data to base register\n"
  \o " ldt 0, %idx ; Load 0 to the index register\n"
  \o "loop: lxt %cnt ; Load count and tmp from base+index\n"
  \o " inc %idx ; Increment index\n be  endloop ; If count <= 0, jump to endloop\n"
  \o " sm  0x60 ; Store tmp to 0x60\n br  loop ; Jump to loop\n"
  \o "endloop: halt ; Stop execution\n\n"
  \o ".section data\nmessage: .bytes \"Hi\\n\", 0\n"

Message == <<72, 105, 10>>

Test1 ==
  << Dir("section", <<Sym("code")>>),
     Dir("global", <<Sym("start")>>),
     Lbl("start"), Insn("ldt", <<Sym("message"), Reg("bse")>>),
                   Insn("ldt", <<Num(0), Reg("idx")>>),
     Lbl("loop"),  Insn("lxt", <<Reg("cnt")>>),
                   Insn("inc", <<Reg("idx")>>),
                   Insn("be", <<Sym("endloop")>>),
                   Insn("sm", <<Num(SerialBegin)>>),
                   Insn("br", <<Sym("loop")>>),
     Lbl("endloop"), Insn("halt", <<>>),
     Dir("section", <<Sym("data")>>),
     Lbl("message"), Dir("bytes", <<Str(Message), Num(0)>>) >>

-----------------------------------------------------------------------------
\* An instruction as it is written.  There is no sign in front of a number.
ParamText(p) ==
  CASE p.type = "register" -> " %" \o p.name
    [] p.type = "symbol"   -> " " \o p.name
    [] OTHER -> IF p.values[1] < 0 THEN " 0-" \o ToString(0 - p.values[1])
                ELSE " " \o ToString(p.values[1])

InsnText(i) ==
  i.name \o (IF Len(i.params) > 0 THEN ParamText(i.params[1]) ELSE "")
         \o (IF Len(i.params) > 1 THEN "," \o ParamText(i.params[2]) ELSE "")

\* One instruction, reached by a jump over a word of data and followed by a
\* halt; rtmp is the address of the data then.
AroundText(i) ==
  ".include cs8.cs8l ;\n.section code\nlimm over\njmp\n.word 258\n"
  \o "over:limm datum\ntr %tmp,%tmp\n" \o InsnText(i) \o "\nlimm 0xFFFF\njmp\n"
  \o ".section data\n.byte 1\ndatum:.word 0-2\n"

Around(i) ==
  << Dir("section", <<Sym("code")>>),
     Insn("limm", <<Sym("over")>>), Insn("jmp", <<>>),
     Dir("word", <<Num(258)>>),
     Lbl("over"), Insn("limm", <<Sym("datum")>>), Insn("tr", <<Reg("tmp"), Reg("tmp")>>),
     i, Insn("limm", <<Num(65535)>>), Insn("jmp", <<>>),
     Dir("section", <<Sym("data")>>),
     Dir("byte", <<Num(1)>>), Lbl("datum"), Dir("word", <<Num(-2)>>) >>

Instructions ==
  {Insn(n, <<Sym("datum")>>) : n \in DOMAIN AddressOps}
  \union {Insn(n, <<Num(v)>>) : n \in DOMAIN AddressOps, v \in {0, 7, 65, 256, -1}}
  \union {Insn(n, <<Reg(r)>>) : n \in DOMAIN StackOps, r \in DOMAIN RegisterNumber}
  \union {Insn("tr", <<Reg(r), Reg(t)>>) : r \in DOMAIN RegisterNumber, t \in {"sc0", "bse"}}
  \union {Insn("tr", <<Reg(r), Reg(t)>>) : r \in {"sc0", "bse"}, t \in DOMAIN RegisterNumber}
  \union {Insn(n, <<>>) : n \in DOMAIN PlainOps}

-----------------------------------------------------------------------------
Examples   == << <<"examples">> >>
MCHome     == <<>>
Test1Input == [absolute |-> TRUE, dirs |-> Examples, name |-> <<"test1", ".", "cs8s">>]
InsnInput(i) == [Test1Input EXCEPT !.name = <<i.name, i.params>>]

MCInputs == {Test1Input} \union {InsnInput(i) : i \in Instructions}

InsnOf(path) == Insn(path.name[1], path.name[2])

\* The files of the examples directory.
Library == (<<"cs8", ".", "cs8l">> :> LinkerText) @@ (<<"macros", ".", "cs8i">> :> MacrosText)

TextNamed(n) ==
  IF n = Test1Input.name THEN Test1Text
  ELSE IF n \in DOMAIN Library THEN Library[n] ELSE AroundText(Insn(n[1], n[2]))

ExampleFiles ==
  [f \in {T!At(Examples, n) : n \in {p.name : p \in MCInputs} \union DOMAIN Library} |->
     T!Lexed(TextNamed(f.name))]

\* A definition of its own, which TLC evaluates once.
MCDisk == ExampleFiles

Trees ==
  [p \in MCInputs |->
     IF p = Test1Input THEN Source(Macros, Linker \o Test1) ELSE Source(<<>>, Linker \o Around(InsnOf(p)))]

MCSources == Trees

-----------------------------------------------------------------------------
\* The comments of test1.cs8s: "If count <= 0, jump to endloop", "Store tmp
\* to 0x2000", "Stop execution".  The program prints its message and stops.
PrintsMessage == input = Test1Input ~> process = "exited" /\ stdout = Message
=============================================================================
