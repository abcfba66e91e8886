----------------------------- MODULE CS8Parser -----------------------------
(***************************************************************************)
(* The grammar and its actions (cs8_asm.y).  Bison shifts one token after  *)
(* another; what it expects next stands for the state of its automaton,    *)
(* and the symbols on its stack that are still needed are the line it is   *)
(* in, the expression it is in, the macro it is in and the lines so far.   *)
(*                                                                         *)
(* Values are ints of C++ that are taken not to overflow.                  *)
(***************************************************************************)
EXTENDS CS8Ast, CS8Words, SequencesExt

VARIABLES
  expect,                 \* what comes next
  row,                    \* the instruction or directive with its parameters so far
  number,                 \* math_expr: operands and operators not yet reduced
  macro,                  \* the macro whose body is being read, if any
  rows,                   \* the lines that are complete
  lines, macros           \* of the AstRootNode

parseVars == <<expect, row, number, macro, rows, lines, macros>>

NoNumber == [operands |-> <<>>, operators |-> <<>>, split |-> FALSE]
NoRow    == Insn("", <<>>)

ParseInit ==
  /\ expect = "file" /\ row = NoRow /\ number = NoNumber /\ macro = <<>>
  /\ rows = <<>> /\ lines = <<>> /\ macros = <<>>

-----------------------------------------------------------------------------
(***************************************************************************)
(* The tokens that the automaton can shift.  There is no sign in front of  *)
(* a number, parentheses and .define are in no rule, a string is an        *)
(* argument of directives only, and a macro has no labels, no macros and   *)
(* at least one line.                                                      *)
(***************************************************************************)
Operators == {"+", "-", "*", "/"}
Numeric   == {"number", "["}
Argument  == Numeric \union {"%", "\\", "name"}
Statement == {"name", "."}

Shifts ==
  [file    |-> Statement \union {"newline", ".macro"},
   line    |-> Statement \union {"newline"} \union
               (IF macro = <<>> THEN {".macro", "end"}
                ELSE IF macro[1].lines = <<>> THEN {} ELSE {".endm"}),
   name    |-> Argument \union {"newline"} \union (IF macro = <<>> THEN {":"} ELSE {}),
   args    |-> IF row.kind = "directive" THEN Argument \union {"string"} ELSE Argument,
   dir     |-> Argument \union {"string", "newline"},
   operand |-> Numeric,
   number  |-> Operators \union {",", "newline"},
   param   |-> {",", "newline"},
   head    |-> {"name", "newline"},
   arg     |-> {",", "newline"},
   endm    |-> {"newline"},
   dot     |-> {"name"}, percent |-> {"name", "["}, backslash |-> {"name"},
   constant |-> {"name"}, reg_constant |-> {"name"},
   close   |-> {"]"}, reg_close |-> {"]"},
   macro   |-> {"name"}, comma |-> {"name"}]

\* Mutant: a macro is the first thing in a program or in none.
ViableAtFirst(t) == t.tok \in Shifts[expect] /\ (expect = "line" => t.tok # ".macro")

Viable(t) == t.tok \in Shifts[expect]

\* Where an argument may begin.
Arguments == {"name", "dir", "args"}

Expect(e) == expect' = e

-----------------------------------------------------------------------------
(***************************************************************************)
(* math_expr.  + and - are weaker than *, all of them associate to the     *)
(* left.  The line %left TOK_TIMES TOK_DIV names a token that nobody       *)
(* returns, so that TOK_DIVIDE has no precedence: next to another operator *)
(* Bison does not know what to reduce, splits its stack, puts all actions  *)
(* off, and gives up when the two stacks meet at the end of the expression.*)
(***************************************************************************)
Precedence(op) == CASE op \in {"+", "-"} -> 1 [] op = "*" -> 2 [] op = "/" -> 0

Apply(op, a, b) ==
  CASE op = "+" -> a + b [] op = "-" -> a - b [] op = "*" -> a * b [] op = "/" -> Quotient(a, b)

ReduceOne(n) ==
  LET k == Len(n.operands)
  IN  [n EXCEPT !.operands = SubSeq(@, 1, k - 2) \o
                             <<Apply(Last(n.operators), n.operands[k - 1], n.operands[k])>>,
                !.operators = Front(@)]

\* Mutant: operators of the same precedence associate to the right.
ReduceRight(n, precedence) ==
  IF n.operators # <<>> /\ Precedence(Last(n.operators)) > precedence
  THEN ReduceOne(n) ELSE n

Reduce(n, precedence) ==
  IF n.operators # <<>> /\ Precedence(Last(n.operators)) >= precedence
  THEN ReduceOne(n) ELSE n

\* At most two operators wait, a * above a + or -.
ReduceAll(n, precedence) == Reduce(Reduce(n, precedence), precedence)

\* Mutant: an operator waits, whatever is in front of it.
OperatorWaits(op) == [number EXCEPT !.operators = Append(@, op)]

\* On a split stack no value is computed.
Operator(op) ==
  LET conflict == number.operators # <<>> /\ "/" \in {op, Last(number.operators)}
  IN  IF number.split \/ conflict THEN [number EXCEPT !.split = TRUE]
      ELSE LET n == ReduceAll(number, Precedence(op))
           IN  [n EXCEPT !.operators = Append(@, op)]

Operand(value) ==
  IF number.split THEN number ELSE [number EXCEPT !.operands = Append(@, value)]

\* The expression ends at any token that is not an operator, also at one that
\* is an error.
NumberEnds(t) == expect = "number" /\ t.tok \notin Operators
Ambiguous(t)  == NumberEnds(t) /\ number.split
DividesByZero(t) ==
  NumberEnds(t) /\ ~ number.split /\ number.operators = <<"/">> /\ Last(number.operands) = 0

\* Nobody fills defined_constants: at() throws at the ] of a substitution,
\* unless a split stack puts it off.
Substitutes(t) == expect \in {"close", "reg_close"} /\ t.tok = "]" /\ ~ number.split

-----------------------------------------------------------------------------
(* Lines. *)

WithParam(param) == [row EXCEPT !.params = Append(@, param)]

\* Mutant: a number that ends here is lost.
CompleteDrops == row

\* The line with the number that ends here as its last parameter.
Complete == IF expect = "number" THEN WithParam(Num(Head(ReduceAll(number, 0).operands)))
            ELSE row

AddRow(line) ==
  /\ IF macro = <<>> THEN rows' = Append(rows, line) /\ UNCHANGED macro
     ELSE macro' = <<[macro[1] EXCEPT !.lines = Append(@, line)]>> /\ UNCHANGED rows
  /\ row' = NoRow /\ number' = NoNumber /\ Expect("line")
  /\ UNCHANGED <<lines, macros>>

Begin(line, e) ==
  row' = line /\ Expect(e) /\ UNCHANGED <<number, macro, rows, lines, macros>>

\* A sign that is followed by a name or a number.
Go(e) == Expect(e) /\ UNCHANGED <<row, number, macro, rows, lines, macros>>

SkipNewline(t) == expect \in {"file", "line"} /\ t.tok = "newline" /\ UNCHANGED parseVars

Instruction(t) ==
  expect \in {"file", "line"} /\ t.tok = "name" /\ Begin(Insn(t.name, <<>>), "name")

Dot(t)       == expect \in {"file", "line"} /\ t.tok = "." /\ Go("dot")
Directive(t) == expect = "dot" /\ Begin(Dir(t.name, <<>>), "dir")

Label(t)   == expect = "name" /\ t.tok = ":" /\ AddRow(Lbl(row.name))
EndLine(t) == expect \in {"name", "dir", "number", "param"} /\ t.tok = "newline" /\ AddRow(Complete)

Comma(t) ==
  /\ expect \in {"number", "param"} /\ t.tok = ","
  /\ row' = Complete /\ number' = NoNumber /\ Expect("args")
  /\ UNCHANGED <<macro, rows, lines, macros>>

-----------------------------------------------------------------------------
(* Arguments. *)

AddParam(param) ==
  row' = WithParam(param) /\ Expect("param") /\ UNCHANGED <<number, macro, rows, lines, macros>>

AddNumber(n, e) == number' = n /\ Expect(e) /\ UNCHANGED <<row, macro, rows, lines, macros>>

Symbol(t)      == expect \in Arguments /\ t.tok = "name"   /\ AddParam(Sym(t.name))
StringParam(t) == expect \in Arguments /\ t.tok = "string" /\ AddParam(Str(t.codes))
Percent(t)     == expect \in Arguments /\ t.tok = "%"      /\ Go("percent")
Backslash(t)   == expect \in Arguments /\ t.tok = "\\"     /\ Go("backslash")
Register(t)      == expect = "percent" /\ t.tok = "name" /\ AddParam(Reg(t.name))
ReplaceSymbol(t) == expect = "backslash" /\ AddParam(Replace(t.name))

Numeral(t) ==
  expect \in Arguments \union {"operand"} /\ t.tok = "number" /\ AddNumber(Operand(t.value), "number")
MathExpr(t) == expect = "number" /\ t.tok \in Operators /\ AddNumber(Operator(t.tok), "operand")

Constant(t) ==
  \/ expect \in Arguments \union {"operand"} /\ t.tok = "[" /\ Go("constant")
  \/ expect = "constant" /\ Go("close")
RegisterConstant(t) ==
  \/ expect = "percent" /\ t.tok = "[" /\ Go("reg_constant")
  \/ expect = "reg_constant" /\ Go("reg_close")
\* Reached on a split stack only.
ConstantEnd(t) == expect = "close" /\ AddNumber(number, "number")

-----------------------------------------------------------------------------
(* Macros. *)

InMacro(m, e) == macro' = <<m>> /\ Expect(e) /\ UNCHANGED <<row, number, rows, lines, macros>>

StartMacro(t) == expect \in {"file", "line"} /\ t.tok = ".macro" /\ Go("macro")
MacroName(t)  == expect = "macro" /\ InMacro(Macro(t.name, <<>>, <<>>), "head")
MacroArg(t) ==
  /\ expect \in {"head", "comma"} /\ t.tok = "name"
  /\ InMacro([macro[1] EXCEPT !.args = Append(@, t.name)], "arg")
MacroComma(t) == expect = "arg" /\ t.tok = "," /\ Go("comma")
EndHead(t)    == expect \in {"head", "arg", "endm"} /\ t.tok = "newline" /\ Go("line")

\* The macro is in the tree at once, its lines are not in the program.
EndMacro(t) ==
  /\ expect = "line" /\ t.tok = ".endm"
  /\ macros' = Append(macros, macro[1]) /\ macro' = <<>>
  /\ Expect("endm")
  /\ UNCHANGED <<row, number, rows, lines>>

\* The lines get into the tree when the whole file is reduced.
Accept ==
  /\ lines' = rows /\ Expect("nothing")
  /\ UNCHANGED <<row, number, macro, rows, macros>>

Shift(t) ==
  \/ SkipNewline(t) \/ Instruction(t) \/ Dot(t) \/ Directive(t) \/ Label(t) \/ EndLine(t)
  \/ Comma(t) \/ Symbol(t) \/ StringParam(t) \/ Percent(t) \/ Backslash(t)
  \/ Register(t) \/ ReplaceSymbol(t)
  \/ Numeral(t) \/ MathExpr(t) \/ Constant(t) \/ RegisterConstant(t) \/ ConstantEnd(t)
  \/ StartMacro(t) \/ MacroName(t) \/ MacroArg(t) \/ MacroComma(t) \/ EndHead(t) \/ EndMacro(t)

\* What the token does to the parse: shifted, an exception, exit() or a signal.
Verdict(t) ==
  CASE DividesByZero(t)                  -> "traps"
    [] Ambiguous(t) \/ ~ Viable(t)       -> "exits"
    [] Substitutes(t)                    -> "throws"
    [] OTHER                             -> "shifted"
=============================================================================
