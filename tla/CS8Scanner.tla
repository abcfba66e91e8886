----------------------------- MODULE CS8Scanner -----------------------------
(***************************************************************************)
(* The rules of the scanner (cs8_asm.l) on the files of CS8Include.  A     *)
(* file is a sequence of lexemes, cut at every blank and wherever the      *)
(* scanner could cut it: names, numbers, signs, blanks, newlines and the   *)
(* words that begin with a dot.  Which rule takes a lexeme depends on the  *)
(* start condition, which is a global of flex: it does not go back to      *)
(* INITIAL at the end of a file.                                           *)
(*                                                                         *)
(* Numbers are taken to fit into an int.                                   *)
(***************************************************************************)
EXTENDS CS8Include, CS8Words

\* A lexeme has its spelling and the codes of its characters.
Lexeme(kind, name, codes) == [kind |-> kind, name |-> name, codes |-> codes]

Signs  == {"%", "+", "-", "*", "/", ",", ".", ":", "(", ")", "[", "]", "\\"}
Words  == {".define", ".macro", ".endm"}
Spaces == {"blank", "newline"}
Kinds  == Signs \union Words \union Spaces
          \union {"name", "number", "hex", "'", "\"", ";", ".include", "unknown"}

\* A lexeme is not empty.
ASSUME ScannerAssumption ==
  \A f \in DOMAIN Disk : \A i \in 1 .. Len(Disk[f]) :
    /\ Disk[f][i].kind \in Kinds /\ Disk[f][i].name \in STRING
    /\ Disk[f][i].codes \in Seq(Byte) \ {<<>>}

VARIABLES
  condition,              \* of flex: "INITIAL", "incl", "ch" or "str"
  buffer                  \* the characters of the string so far

scanVars == <<readVars, condition, buffer>>

ScanInit == Init /\ condition = "INITIAL" /\ buffer = <<>>

Sees(start, kinds) == Reading /\ condition = start /\ Item.kind \in kinds

\* A rule that is done with the text before p and returns nothing.
Quiet(p) == buffers' = MoveTo(p) /\ UNCHANGED <<status, input, cwd, cwds, opened, text>>
Next1    == Top.at + 1

\* The longest match: from p, all that is of these kinds.
RunEnd(p, kinds) ==
  CHOOSE e \in p .. Len(Rest) + 1 :
    /\ \A i \in p .. e - 1 : Rest[i].kind \in kinds
    /\ e <= Len(Rest) => Rest[e].kind \notin kinds

-----------------------------------------------------------------------------
EatBlanks ==
  /\ Sees("INITIAL", {"blank"}) \/ Sees("incl", {"blank"})
  /\ Quiet(Next1) /\ UNCHANGED <<condition, buffer>>

OpenTick  == Sees("INITIAL", {"'"}) /\ condition' = "ch" /\ Quiet(Next1) /\ UNCHANGED buffer
CloseTick == Sees("ch", {"'"}) /\ condition' = "INITIAL" /\ Quiet(Next1) /\ UNCHANGED buffer

OpenQuote ==
  /\ Sees("INITIAL", {"\""})
  /\ condition' = "str" /\ buffer' = <<>>
  /\ Quiet(Next1)

\* Mutant: a quote ends the string in any case.
EscapesNoQuote ==
  Item.kind = "\\" /\ Next1 <= Len(Rest) /\ Rest[Next1].kind \notin {"newline", "\""}

\* A backslash takes the character behind it along, a quote as well, but not a
\* newline and not what is in another file.
Escapes == Item.kind = "\\" /\ Next1 <= Len(Rest) /\ Rest[Next1].kind # "newline"

\* Only \n is translated, any other pair is kept as it is.
GrowString ==
  /\ Sees("str", Kinds \ {"\""})
  /\ IF Escapes
     THEN LET codes == Rest[Next1].codes IN
          /\ buffer' = buffer \o IF Head(codes) = 110 THEN <<10>> \o Tail(codes)
                                 ELSE <<92>> \o codes
          /\ Quiet(Top.at + 2)
     ELSE buffer' = buffer \o Item.codes /\ Quiet(Next1)
  /\ UNCHANGED condition

BeginInclude ==
  Sees("INITIAL", {".include"}) /\ condition' = "incl" /\ Quiet(Next1) /\ UNCHANGED buffer

\* Mutant: the newline is put back.
EchoNewlineWaits == Sees("incl", {"newline"}) /\ UNCHANGED scanVars

\* No rule of incl matches a newline; flex copies it to stdout and goes on.
EchoNewline == Sees("incl", {"newline"}) /\ Quiet(Next1) /\ UNCHANGED <<condition, buffer>>

-----------------------------------------------------------------------------
(* The name of the file: all that is written up to a blank. *)

\* The indices of a sequence that are so, and what is between such elements.
Indices(s, Here(_)) == SelectSeq([i \in DOMAIN s |-> i], Here)

Parts(s, Cut(_)) ==
  LET cuts == <<0>> \o Indices(s, LAMBDA i : Cut(s[i])) \o <<Len(s) + 1>>
  IN  [k \in 1 .. Len(cuts) - 1 |-> SubSeq(s, cuts[k] + 1, cuts[k + 1] - 1)]

PathOf(lexemes) ==
  LET parts == Parts(lexemes, LAMBDA l : l.kind = "/")
      names == [k \in DOMAIN parts |-> [i \in DOMAIN parts[k] |-> parts[k][i].name]]
  IN  Path(lexemes[1].kind = "/", SelectSeq(Front(names), LAMBDA n : n # <<>>), Last(names))

NameEnd(e) == e = RunEnd(Top.at, Kinds \ Spaces)
PathTo(e)  == PathOf(SubSeq(Rest, Top.at, e - 1))
Ahead      == Next1 .. Len(Rest) + 1

ScanInclude ==
  /\ Sees("incl", Kinds \ Spaces)
  /\ \E e \in Ahead : NameEnd(e) /\ EnterInclude(PathTo(e), e)
  /\ condition' = "INITIAL" /\ UNCHANGED buffer

ScanNoInclude ==
  /\ Sees("incl", Kinds \ Spaces)
  /\ \E e \in Ahead : NameEnd(e) /\ ~ Openable(File(cwd, PathTo(e)))
  /\ Refuse
  /\ UNCHANGED <<condition, buffer>>

-----------------------------------------------------------------------------
(* The rules that return a token. *)

Sign(tok)     == [tok |-> tok]
Name(name)    == [tok |-> "name", name |-> name]
Number(value) == [tok |-> "number", value |-> value]
String(codes) == [tok |-> "string", codes |-> codes]
Newline       == Sign("newline")
End           == Sign("end")

Digit(code) == CASE code \in 48 .. 57 -> code - 48
                 [] code \in 65 .. 70 -> code - 55
                 [] OTHER             -> code - 87

\* atoi(), and strtol() behind 0x.
Value(base, digits) ==
  LET value[n \in 0 .. Len(digits)] ==
        IF n = 0 THEN 0 ELSE base * value[n - 1] + Digit(digits[n])
  IN  value[Len(digits)]

TokenOf(lexeme) ==
  CASE lexeme.kind = "name"        -> Name(lexeme.name)
    [] lexeme.kind = "number"      -> Number(Value(10, lexeme.codes))
    [] lexeme.kind = "hex"         -> Number(Value(16, SubSeq(lexeme.codes, 3, Len(lexeme.codes))))
    [] lexeme.kind \in {"newline", ";"} -> Newline
    [] OTHER                       -> Sign(lexeme.kind)

\* Between ticks every character is a number.  Of a lexeme of several
\* characters the second number is a syntax error wherever it is, which the
\* sign stands for.
Character(codes, escaped) ==
  IF Len(codes) # 1 THEN Sign("characters")
  ELSE IF escaped /\ codes = <<110>> THEN Number(10) ELSE Number(codes[1])

ReturnsToken ==
  \/ Sees("INITIAL", Kinds \ {"blank", "'", "\"", ".include"})
  \/ Sees("ch", Kinds \ {"'"})
  \/ Sees("str", {"\""})

Token ==
  CASE condition = "INITIAL" -> TokenOf(Item)
    [] condition = "str"     -> String(buffer)
    [] condition = "ch"      -> IF Escapes THEN Character(Rest[Next1].codes, TRUE)
                                ELSE Character(Item.codes, FALSE)

\* A comment takes the newlines behind it along, and newlines each other.
LineEnd(p) == RunEnd(p, {"newline"})

TokenEnd ==
  CASE condition = "INITIAL" /\ Item.kind = "newline" -> LineEnd(Top.at)
    [] condition = "INITIAL" /\ Item.kind = ";" -> LineEnd(RunEnd(Top.at, Kinds \ {"newline"}))
    [] condition = "ch" /\ Escapes -> Top.at + 2
    [] OTHER -> Next1

Return ==
  /\ \E e \in Ahead : e = TokenEnd /\ buffers' = MoveTo(e)
  /\ text' = Append(text, Token)
  /\ condition' = IF condition = "str" THEN "INITIAL" ELSE condition
  /\ UNCHANGED <<status, input, cwd, cwds, opened, buffer>>

ScanQuietly ==
  \/ EatBlanks \/ OpenTick \/ CloseTick
  \/ OpenQuote \/ GrowString
  \/ BeginInclude \/ EchoNewline
=============================================================================
