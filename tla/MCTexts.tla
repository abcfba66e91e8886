------------------------------ MODULE MCTexts ------------------------------
(***************************************************************************)
(* Program texts for the scanner's model, from strings.                    *)
(***************************************************************************)
EXTENDS CS8Scanner, TLC

\* What of ASCII begins at 32 and at 97.
Ascii ==
  [low  |-> " !\"#$%&'()*+,-./0123456789:;<=>?@ABCDEFGHIJKLMNOPQRSTUVWXYZ[\\]^_",
   high |-> "abcdefghijklmnopqrstuvwxyz{|}~"]

Char(s, i) == SubSeq(s, i, i)
Place(char, s) == CHOOSE i \in 1 .. Len(s) : Char(s, i) = char
Code(char) ==
  CASE char = "\n" -> 10
    [] \E i \in 1 .. Len(Ascii.high) : Char(Ascii.high, i) = char -> 96 + Place(char, Ascii.high)
    [] OTHER -> 31 + Place(char, Ascii.low)
Codes(s)   == <<>> \o [i \in 1 .. Len(s) |-> Code(Char(s, i))]

IsDigit(code)  == code \in 48 .. 57
IsLetter(code) == code \in (65 .. 90) \union (97 .. 122)

IsAlnum(codes, i) == IsDigit(codes[i]) \/ IsLetter(codes[i])

\* The lexeme that is spelled so.
Kind(s, codes) ==
  CASE s = " "  -> "blank"
    [] s = "\n" -> "newline"
    [] s \in Kinds -> s
    [] IsDigit(codes[1]) -> IF Len(s) > 1 /\ Char(s, 2) = "x" THEN "hex" ELSE "number"
    [] IsLetter(codes[1]) -> "name"
    [] OTHER -> "unknown"

Cutout(s, codes, from, to) ==
  Lexeme(Kind(SubSeq(s, from, to), SubSeq(codes, from, to)),
         SubSeq(s, from, to), SubSeq(codes, from, to))

\* A text is cut but within a name, a number and a word of the scanner.
InWord(s, i) == \E w \in Words \union {".include"} :
                  i > 1 /\ i - 2 + Len(w) <= Len(s) /\ SubSeq(s, i - 1, i - 2 + Len(w)) = w

Begins(s, codes) ==
  SelectSeq([i \in 1 .. Len(s) |-> i],
            LAMBDA i : i = 1 \/ ~ ((IsAlnum(codes, i - 1) /\ IsAlnum(codes, i)) \/ InWord(s, i)))

Lexed(s) ==
  LET codes  == Codes(s)
      begins == Begins(s, codes) \o <<Len(s) + 1>>
  IN  <<>> \o [k \in 1 .. Len(begins) - 1 |-> Cutout(s, codes, begins[k], begins[k + 1] - 1)]

\* Files, and paths that name them: a name is a sequence of spellings.
At(dir, name) == [dir |-> dir, name |-> name]
=============================================================================
