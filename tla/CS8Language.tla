---------------------------- MODULE CS8Language ----------------------------
(***************************************************************************)
(* What a program text means, without a scanner that moves or a parser     *)
(* that shifts: the language of cs8_asm.l and cs8_asm.y written down as    *)
(* what is between what, against which the front end is checked.           *)
(***************************************************************************)
EXTENDS CS8Frontend

(***************************************************************************)
(* The items of a file, as CS8Include has them: each token, and each       *)
(* include with its path.  An item knows the lexeme it ends with.          *)
(***************************************************************************)
\* The kind of a quote, and those that yield a newline.
Quote    == "\""
EndsLine == {"newline", ";"}

TextItem(t, last)       == [text |-> t, last |-> last]
IncludeItem(path, last) == [include |-> path, last |-> last]

First(S, otherwise) == IF S = {} THEN otherwise ELSE Min(S)
Find(s, p, kinds)   == First({i \in p .. Len(s) : s[i].kind \in kinds}, Len(s) + 1)

\* Lexeme i is taken along by a backslash: behind an odd number of them that
\* begins at p or later, and no newline.
Taken(s, i, p) ==
  /\ s[i].kind # "newline"
  /\ Cardinality({n \in p .. i - 1 : \A k \in n .. i - 1 : s[k].kind = "\\"}) % 2 = 1

Closing(s, p, kind) ==
  First({i \in p .. Len(s) : s[i].kind = kind /\ ~ Taken(s, i, p)}, Len(s) + 1)

\* The characters of lexeme i of a string, or of a literal, that begins at p.
Escaped(s, i) == IF s[i].codes[1] = 110 THEN <<10>> \o Tail(s[i].codes) ELSE <<92>> \o s[i].codes
Takes(s, i, p) == i < Len(s) /\ s[i].kind = "\\" /\ ~ Taken(s, i, p) /\ Taken(s, i + 1, p)

CodesAt(s, i, p) ==
  CASE Takes(s, i, p) -> <<>>
    [] Taken(s, i, p) -> Escaped(s, i)
    [] OTHER          -> s[i].codes

CharAt(s, i, p) ==
  IF Takes(s, i, p) THEN <<>> ELSE <<TextItem(Character(s[i].codes, Taken(s, i, p)), i)>>

\* The same for what is between two places of it.
CodesIn(s, p, from, to) == FlattenSeq([i \in 1 .. to - from + 1 |-> CodesAt(s, from + i - 1, p)])
CharsIn(s, p, from, to) == FlattenSeq([i \in 1 .. to - from + 1 |-> CharAt(s, from + i - 1, p)])

\* What is at p, and where it ends: what is not closed comes to nothing, and
\* ends behind the end of the file.
Region(s, p) ==
  LET kind == s[p].kind
      close == Closing(s, p + 1, kind)
      name  == Find(s, p + 1, Kinds \ Spaces)
      past  == Find(s, name, Spaces)
      on    == Find(s, Find(s, p, {"newline"}), Kinds \ {"newline"})
  IN  CASE kind = "blank" -> [items |-> <<>>, next |-> p + 1]
        [] kind \in EndsLine ->
             [items |-> <<TextItem(Newline, on - 1)>>, next |-> on]
        [] kind = Quote /\ close > Len(s) -> [items |-> <<>>, next |-> Len(s) + 2]
        [] kind = Quote /\ close <= Len(s) ->
             [items |-> <<TextItem(String(CodesIn(s, p + 1, p + 1, close - 1)), close)>>,
              next  |-> close + 1]
        [] kind = "'" -> [items |-> CharsIn(s, p + 1, p + 1, close - 1), next |-> close + 1]
        [] kind = ".include" /\ name > Len(s) -> [items |-> <<>>, next |-> Len(s) + 2]
        [] kind = ".include" /\ name <= Len(s) ->
             [items |-> <<IncludeItem(PathOf(SubSeq(s, name, past - 1)), past - 1)>>,
              next  |-> past]
        [] OTHER -> [items |-> <<TextItem(TokenOf(s[p]), p)>>, next |-> p + 1]

\* What is in a file, and whether all that it opens is closed.
Contents(s) ==
  LET from[p \in 1 .. Len(s) + 2] ==
        IF p > Len(s) THEN [items |-> <<>>, closed |-> p = Len(s) + 1]
        ELSE [from[Region(s, p).next] EXCEPT !.items = Region(s, p).items \o @]
  IN  from[1]

Items(s)  == Contents(s).items
Closes(s) == Contents(s).closed

ItemsOfFiles == LET disk == Disk IN [f \in DOMAIN disk |-> Items(disk[f])]

\* The paths that a file includes.
Includes(f) == {item.include : item \in {i \in Range(ItemsOfFiles[f]) : IsInclude(i)}}

\* Reading the lexemes is reading the items: those that end before the place
\* where the scanner is have been read.
ItemAt(b) ==
  [file |-> b.file,
   at |-> 1 + Cardinality({k \in DOMAIN ItemsOfFiles[b.file] : ItemsOfFiles[b.file][k].last < b.at})]

\* (The concatenation has TLC evaluate the whole sequence.)
ItemBuffers == <<>> \o [i \in DOMAIN buffers |-> ItemAt(buffers[i])]

I == INSTANCE CS8Include WITH Disk <- ItemsOfFiles, buffers <- ItemBuffers

\* The start condition is not one of a file: what an included file leaves open
\* goes on behind the include, so that reading it is not reading its items.
IncludesClose ==
  \A f \in DOMAIN Disk, dir \in Directories : \A path \in Includes(f) :
    File(dir, path) \in DOMAIN Disk => Closes(Disk[File(dir, path)])

\* The front end reads a program as CS8Include says, item by item; what it
\* does within an item changes nothing but its own place in the file.
ImplementsInclude == I!Spec

-----------------------------------------------------------------------------
(***************************************************************************)
(* The grammar, over all the tokens of a program.                          *)
(***************************************************************************)
Toks(s) == [i \in DOMAIN s |-> s[i].tok]

\* The last of the first n tokens that is one of toks, 0 if there is none.
LastOf(s, n, toks) == Max({0} \union {i \in 1 .. n : s[i].tok \in toks})

\* What each token of toks ends: itself, and all between it and the one in
\* front of it; and what is behind the last one.
EndedAt(s, i, toks) ==
  IF s[i].tok \in toks THEN <<SubSeq(s, LastOf(s, i - 1, toks) + 1, i)>> ELSE <<>>

Ended(s, toks) == FlattenSeq([i \in DOMAIN s |-> EndedAt(s, i, toks)])

Unended(s, toks) == SubSeq(s, LastOf(s, Len(s), toks) + 1, Len(s))

\* An expression is a sum of products of numbers; a quotient stands alone.
IsExpression(a) ==
  /\ Len(a) % 2 = 1
  /\ \A i \in DOMAIN a : IF i % 2 = 1 THEN a[i].tok = "number" ELSE a[i].tok \in Operators
  /\ (\E i \in DOMAIN a : a[i].tok = "/") => Len(a) = 3 /\ a[3].value # 0

\* The sum of the terms in front of the one that operand k is in, and the
\* product of that one up to there.
TermsOf(a) ==
  LET sums[k \in 1 .. (Len(a) + 1) \div 2] ==
        LET v  == a[2 * k - 1].value
            op == a[2 * k - 2].tok
        IN  IF k = 1 THEN [before |-> 0, term |-> v]
            ELSE IF op = "*" THEN [sums[k - 1] EXCEPT !.term = @ * v]
            ELSE [before |-> sums[k - 1].before + sums[k - 1].term,
                  term   |-> IF op = "+" THEN v ELSE 0 - v]
  IN  sums[(Len(a) + 1) \div 2]

ValueOf(a) ==
  IF Len(a) = 3 /\ a[2].tok = "/" THEN Quotient(a[1].value, a[3].value)
  ELSE TermsOf(a).before + TermsOf(a).term

IsArgument(a) ==
  \/ Toks(a) \in {<<"name">>, <<"string">>, <<"%", "name">>, <<"\\", "name">>}
  \/ IsExpression(a)

ParamOf(a) ==
  CASE Toks(a) = <<"name">>       -> Sym(a[1].name)
    [] Toks(a) = <<"string">>     -> Str(a[1].codes)
    [] Toks(a) = <<"%", "name">>  -> Reg(a[2].name)
    [] Toks(a) = <<"\\", "name">> -> Replace(a[2].name)
    [] OTHER                      -> Num(ValueOf(a))

\* The arguments of a statement from p on are separated by commas, the last
\* one is ended by the newline; there may be none at all.
ArgumentsOf(s, p) ==
  LET ended == Ended(SubSeq(s, p, Len(s)), {",", "newline"})
  IN  IF Len(s) = p THEN <<>> ELSE [k \in DOMAIN ended |-> Front(ended[k])]

ParamsOf(s, p) == [k \in DOMAIN ArgumentsOf(s, p) |-> ParamOf(ArgumentsOf(s, p)[k])]

\* A statement begins with such tokens, and its newline is behind them.
Starts(s, toks) ==
  /\ Len(s) > Len(toks) /\ s[Len(s)].tok = "newline"
  /\ \A i \in DOMAIN toks : s[i].tok = toks[i]

TakesArguments(s, p) == \A k \in DOMAIN ArgumentsOf(s, p) : IsArgument(ArgumentsOf(s, p)[k])

IsHead(s) ==
  /\ Starts(s, <<".macro", "name">>)
  /\ \A k \in DOMAIN ArgumentsOf(s, 3) : Toks(ArgumentsOf(s, 3)[k]) = <<"name">>
IsDirective(s)   == Starts(s, <<".", "name">>) /\ TakesArguments(s, 3)
IsInstruction(s) == Starts(s, <<"name">>) /\ TakesArguments(s, 2) /\ "string" \notin Range(Toks(s))

HeadOf(s) ==
  Macro(s[2].name, [k \in DOMAIN ArgumentsOf(s, 3) |-> ArgumentsOf(s, 3)[k][1].name], <<>>)

\* What a newline or a colon ends.
StatementOf(s) ==
  CASE Toks(s) = <<"newline">>          -> [blank |-> TRUE]
    [] Toks(s) = <<"name", ":">>        -> [label |-> TRUE, line |-> Lbl(s[1].name)]
    [] Toks(s) = <<".endm", "newline">> -> [endm |-> TRUE]
    [] IsHead(s)        -> [head |-> HeadOf(s)]
    [] IsDirective(s)   -> [line |-> Dir(s[2].name, ParamsOf(s, 3))]
    [] IsInstruction(s) -> [line |-> Insn(s[1].name, ParamsOf(s, 2))]
    [] OTHER            -> [bad |-> TRUE]

Enders == {"newline", ":"}

Statements(t) == LET ended == Ended(t, Enders) IN [k \in DOMAIN ended |-> StatementOf(ended[k])]

Is(statement, what) == what \in DOMAIN statement

\* The head of the macro that is open behind the first n statements, 0 if
\* there is none.
OpenHead(p, n) ==
  LET last == Max({0} \union {i \in 1 .. n : Is(p[i], "head") \/ Is(p[i], "endm")})
  IN  IF last > 0 /\ Is(p[last], "head") THEN last ELSE 0

\* Of the first n statements the lines in the macro with the head h, or in none.
LineAt(p, k, h) == IF Is(p[k], "line") /\ OpenHead(p, k - 1) = h THEN <<p[k].line>> ELSE <<>>

LinesIn(p, n, h) == FlattenSeq([k \in 1 .. n |-> LineAt(p, k, h)])

\* A statement is where it may be: a macro has no labels, no macros and at
\* least one line.
Fitting(p, k) ==
  LET h == OpenHead(p, k - 1) IN
  /\ ~ Is(p[k], "bad")
  /\ Is(p[k], "head") \/ Is(p[k], "label") => h = 0
  /\ Is(p[k], "endm") => h # 0 /\ LinesIn(p, k - 1, h) # <<>>

\* Every statement but labels is followed by a newline, and there is one.
WellFormed(t) ==
  LET p == Statements(t) IN
  /\ Unended(t, Enders) = <<>>
  /\ \E k \in DOMAIN p : ~ Is(p[k], "blank")
  /\ \A k \in DOMAIN p : Fitting(p, k)
  /\ OpenHead(p, Len(p)) = 0

LinesOf(t) == LinesIn(Statements(t), Len(Statements(t)), 0)

\* The macro that statement k ends, if it ends one.
MacroEnding(p, k) ==
  LET h == OpenHead(p, k - 1)
  IN  IF Is(p[k], "endm") /\ h # 0 THEN <<[p[h].head EXCEPT !.lines = LinesIn(p, k - 1, h)]>> ELSE <<>>

MacrosOf(t) == LET p == Statements(t) IN FlattenSeq([k \in DOMAIN p |-> MacroEnding(p, k)])

-----------------------------------------------------------------------------
\* A program that is parsed is one of the language, and the tree is what it
\* says: lines and bodies in their order, and the value of every expression.
ParsesAsWritten ==
  status = "parsed" => WellFormed(text) /\ lines = LinesOf(text) /\ macros = MacrosOf(text)

\* All that the program includes is there and closes what it opens.
Included(f) ==
  LET reach[d \in 0 .. MaxOpen] ==
        IF d = 0 THEN {f}
        ELSE UNION {{File(g.dir, path) : path \in Includes(g)} : g \in reach[d - 1] \cap DOMAIN Disk}
  IN  UNION {reach[d] : d \in 0 .. MaxOpen}

\* yyerror() ends the process only for a program that is not in the language,
\* read as a whole, although the parser has seen its beginning only.
RejectsOnlyErrors ==
  LET f == File(Home, input) IN
  /\ status = "exited" /\ input.absolute
  /\ Included(f) \subseteq DOMAIN Disk /\ \A g \in Included(f) : Closes(Disk[g])
  => ~ WellFormed(I!Spliced(f))
=============================================================================
