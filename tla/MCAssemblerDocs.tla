-------------------------- MODULE MCAssemblerDocs --------------------------
(***************************************************************************)
(* What comments of the assembler say of it, on programs for which the     *)
(* code does something else.  Each property is violated.                   *)
(***************************************************************************)
EXTENDS CS8Assembler

MCSectionOrder == <<"code", "data", "flat">>

\* AsmTreeTransformer.h:67 "An association between present labels and their
\* addresses": a label stands for the address of what follows it, as long as
\* the program is in a section that it has named.
LabelsAddressed ==
  Emitting("label") /\ InSection => Here.position = NextByte

\* MacroExpander.cpp:84 "replace macros until no macro invocations exist
\* anymore": the expansion ends.
ExpansionEnds == <>(stage # "expand")

N == 1 .. 10
Bytes(n) == [i \in 1 .. n |-> Dir("byte", <<Num(i)>>)]

\* Bytes before and after a skip, and a label at the end.
SkipSources ==
  [f \in N \X N |->
     Source(<<>>, <<Dir("section", <<Sym("code"), Num(0)>>)>> \o Bytes(f[1])
                  \o <<Dir("skip", <<Num(2)>>), Lbl("a")>> \o Bytes(f[2]))]

\* The permissions of a section are given before its address.
SecinfoSources ==
  [f \in N \X N |->
     Source(<<>>, <<Dir("secinfo", <<Sym("data"), Sym("read")>>),
                    Dir("section", <<Sym("data"), Num(16)>>)>>
                  \o Bytes(f[1]) \o <<Lbl("a")>> \o Bytes(f[2]))]

\* A macro that is named like the instruction it stands for.
RecursiveSources ==
  [f \in N \X N |->
     Source(<<Macro("add", <<>>, <<Insn("add", <<>>)>>)>>,
            Bytes(f[1]) \o <<Insn("add", <<>>)>> \o Bytes(f[2]))]
=============================================================================
