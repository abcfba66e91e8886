---------------------------- MODULE MCAssembler ----------------------------
(***************************************************************************)
(* Programs of a few lines taken from a pool that has every directive,     *)
(* every kind of instruction, every kind of mistake, two labels and two    *)
(* macros of which one invokes the other.                                  *)
(***************************************************************************)
EXTENDS CS8Assembler

MCSectionOrder == <<"code", "data", "flat">>

\* The macro li is defined twice.
Macros ==
  << Macro("li", <<"val", "reg">>, <<Insn("add", <<>>)>>),
     Macro("inc", <<"reg">>, <<Insn("li", <<Num(1), Replace("reg")>>),
                               Insn("add", <<>>)>>),
     Macro("li", <<"val", "reg">>, <<Insn("limm", <<Replace("val")>>),
                                     Insn("tr", <<Reg("tmp"), Replace("reg")>>)>>),
     Macro("odd", <<"reg">>, <<Insn("psh0", <<Replace("other")>>)>>),
     Macro("data", <<"val">>, <<Dir("byte", <<Replace("val")>>)>>) >>

Linker ==
  << Dir("section", <<Sym("code"), Num(0)>>),
     Dir("section", <<Sym("data"), Num(65534)>>) >>

Pool ==
  << Lbl("a"), Lbl("b"),
     Insn("limm", <<Sym("a")>>), Insn("lmem", <<Sym("b")>>), Insn("smem", <<Num(-2)>>),
     Insn("inc", <<Reg("sc0")>>), Insn("li", <<Sym("b"), Reg("bse")>>),
     Insn("psh1", <<Reg("dt1")>>), Insn("rtm", <<>>),
     Dir("section", <<Sym("code")>>),
     Dir("secinfo", <<Sym("data"), Sym("read"), Sym("write")>>),
     Dir("byte", <<Num(300)>>), Dir("word", <<Num(-2)>>), Dir("bytes", <<Str(<<72, 105>>), Num(0)>>),
     Dir("skip", <<Num(2)>>), Dir("entrypoint", <<Num(3)>>),
     Dir("global", <<Sym("a")>>), Dir("weak", <<Sym("a")>>), Dir("extern", <<Sym("a")>>) >>

Mistakes ==
  << Insn("inc", <<>>), Insn("odd", <<Reg("tmp")>>), Insn("data", <<Num(1)>>),
     Insn("limm", <<Reg("tmp")>>), Insn("tr", <<Reg("tmp"), Reg("nil")>>), Insn("halt", <<>>),
     Insn("add", <<Num(1)>>), Dir("section", <<>>), Dir("section", <<Sym("bss")>>),
     Dir("secinfo", <<>>), Dir("byte", <<Sym("a")>>), Dir("bytes", <<Sym("a")>>),
     Dir("skip", <<>>), Dir("global", <<Sym("c")>>), Dir("extern", <<>>), Dir("align", <<>>) >>

\* Without the linker file, with a section that .secinfo creates, and with a
\* base for flat.
Openings ==
  << <<>>,
     <<Dir("secinfo", <<Sym("data"), Sym("execute")>>), Dir("section", <<Sym("data"), Num(16)>>)>>,
     <<Dir("section", <<Sym("flat"), Num(32)>>)>> >>

N == DOMAIN Pool

Program(f) ==
  CASE f.how = "linker"  -> Linker \o <<Pool[f.i], Pool[f.j], Pool[f.k]>>
    [] f.how = "opening" -> Openings[f.i] \o <<Pool[f.j], Pool[f.k]>>
    [] f.how = "mistake" -> Linker \o <<Pool[f.i], Mistakes[f.j]>>
    [] f.how = "at once" -> <<Mistakes[f.j], Pool[f.k]>>

Files ==
  [how : {"linker"}, i : N, j : N, k : N]
  \union [how : {"opening"}, i : DOMAIN Openings, j : N, k : N]
  \union [how : {"mistake"}, i : N, j : DOMAIN Mistakes, k : {1}]
  \union [how : {"at once"}, i : {1}, j : DOMAIN Mistakes, k : {1, 9}]

MCSources == [f \in Files |-> Source(Macros, Program(f))]
=============================================================================
