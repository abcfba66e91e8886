----------------------------- MODULE MCFrontend -----------------------------
(***************************************************************************)
(* Programs of two or three snippets: every kind of statement and of       *)
(* argument, every way to leave a construct open, and an include of a      *)
(* file that includes another one and ends in the middle of a line.  And   *)
(* every expression of up to four operands.                                *)
(***************************************************************************)
EXTENDS CS8Language, MCTexts

Pool ==
  << "a:", "\n", "add\n",
     "li 9-2*3-0x1F, %r\n",
     ".b\"n \\n\\\"\\\\\",0\n",
     ".macro m x,y\n", ".macro add\n", ".endm\n", "limm\\x,y\n",
     " ;x\"\n\n",
     ".include lib/a.i", ".include\n c",
     "add[c]\n", ".b %[c]\n",
     "add 8/2\n", "add 8/2+", "add 1/0\n", "add 1/0", "add 1*4/[c]\n",
     ".b'x','\\n','\\''\n", ".b \"\\\n\"\n",
     "\"", "'x$", ",", ".define" >>

N == DOMAIN Pool

\* Pairs; an include between two snippets; a macro, open or closed; a whole
\* program.
Mains ==
  (N \X N) \union (N \X {11} \X {1, 3, 7, 10, 11, 13, 21})
  \union ({2} \X {11} \X N) \union ({6} \X {3, 9, 11} \X N)
  \union {<<4, 6, 9, 3, 8, 6, 15, 8, 11, 2, 5>>}

\* The operators of an expression.
Ops  == {"+", "-", "*", "/"}
Sums == {<<op>> : op \in Ops} \union (Ops \X Ops) \union (Ops \X Ops \X Ops)

Sum(ops) ==
  LET rest == <<"9", "8", "2">>
      upto[i \in 0 .. Len(ops)] == IF i = 0 THEN "add 7" ELSE upto[i - 1] \o ops[i] \o rest[i]
  IN  upto[Len(ops)] \o "\n"

MCHome == << <<"home">> >>
MainName(m) == <<"main", m>>
SumName(ops) == <<"sum", ops>>

Library ==
  At(<< <<"lib">> >>, <<"a", ".", "i">>) :> "x:.include b ;x\nnand 7"
  @@ At(<< <<"lib">> >>, <<"b">>) :> "nop\n"
  @@ At(<<>>, <<"b">>) :> "halt\n"

Files ==
  LET lexed == [n \in N |-> Lexed(Pool[n])] @@ <<>>
  IN  [f \in {At(<<>>, MainName(m)) : m \in Mains} |->
         FlattenSeq([i \in DOMAIN f.name[2] |-> lexed[f.name[2][i]]])]
      @@ [f \in {At(<<>>, SumName(ops)) : ops \in Sums} |-> Lexed(Sum(f.name[2]))]
      @@ [f \in DOMAIN Library |-> Lexed(Library[f])]

\* A definition of its own, which TLC evaluates once.
MCDisk == Files

MCInputs ==
  {Path(TRUE, <<>>, MainName(m)) : m \in Mains}
  \union {Path(TRUE, <<>>, SumName(ops)) : ops \in Sums}
  \union {Path(FALSE, <<>>, <<"b">>), Path(TRUE, <<>>, <<"missing">>)}

\* The hypothesis of the theorem ReadsItems: only the texts that are not
\* included leave strings open.
ASSUME MCIncludesClose == IncludesClose
=============================================================================
