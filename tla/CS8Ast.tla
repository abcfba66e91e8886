------------------------------- MODULE CS8Ast -------------------------------
(***************************************************************************)
(* What the parser hands to the rest of the assembler (Ast.h): the lines   *)
(* of the program and the macro definitions.  Every node of the tree is a  *)
(* value of its own, copied by duplicate(), so records stand for nodes.    *)
(***************************************************************************)
EXTENDS Integers, Sequences, FiniteSets

\* The parameters of a line.  A number carries its value, a string the codes
\* of its characters.
Param(type, name, values) == [type |-> type, name |-> name, values |-> values]

Reg(name)     == Param("register", name, <<>>)
Num(value)    == Param("number", "", <<value>>)
Sym(name)     == Param("symbol", name, <<>>)
Replace(name) == Param("replace", name, <<>>)
Str(codes)    == Param("string", "", codes)

Line(kind, name, params) == [kind |-> kind, name |-> name, params |-> params]

Insn(name, params) == Line("instruction", name, params)
Dir(name, params)  == Line("directive", name, params)
Lbl(name)          == Line("label", name, <<>>)

\* A program: its lines, and its macros in the order of their definitions.
Macro(name, args, body) == [name |-> name, args |-> args, lines |-> body]
Source(definitions, program) == [macros |-> definitions, lines |-> program]

\* What the parser makes: a number has its value, and what is only a value has
\* no name.
NameOrNone == STRING \union {""}
ParamType  ==
  [type : {"register", "symbol", "replace", "string"}, name : NameOrNone, values : Seq(Int)]
  \union [type : {"number"}, name : NameOrNone, values : [1 .. 1 -> Int]]
LineType  == [kind : {"instruction", "directive", "label"}, name : STRING, params : Seq(ParamType)]
MacroType == [name : STRING, args : Seq(STRING), lines : Seq(LineType)]
=============================================================================
