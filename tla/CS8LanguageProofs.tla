-------------------------- MODULE CS8LanguageProofs --------------------------
(***************************************************************************)
(* The tree that the parser builds is the one that the text means.         *)
(*                                                                         *)
(* CS8Language says what a text means by what is between two commas, two   *)
(* newlines, a head and its .endm.  The parser goes through it once, with  *)
(* one token in its hand.  ParseInv says in every state of it what the     *)
(* tokens behind the last comma, the last newline and the last head are.   *)
(***************************************************************************)
EXTENDS CS8Language, CS8FrontendProofs

-----------------------------------------------------------------------------
(* The statement that is being read. *)

Cur == Unended(text, Enders)

Commas        == {",", "newline"}
From(s, p)    == SubSeq(s, p, Len(s))
Whole(s, p)   == Ended(From(s, p), Commas)
Pending(s, p) == Unended(From(s, p), Commas)

\* The arguments whose comma has been read.
Given(s, p)       == [k \in DOMAIN Whole(s, p) |-> Front(Whole(s, p)[k])]
GivenParams(s, p) == [k \in DOMAIN Given(s, p) |-> ParamOf(Given(s, p)[k])]

\* Lists of one and of two tokens.
One(a)    == <<a>>
Two(a, b) == <<a, b>>

IsOne(u, a)    == Len(u) = 1 /\ u[1].tok = a
IsTwo(u, a, b) == Len(u) = 2 /\ u[1].tok = a /\ u[2].tok = b

\* Where the arguments of a line begin, and how it has begun.
ArgsAt(line) == IF line.kind = "directive" THEN 3 ELSE 2

Begun(cur, line) ==
  /\ Len(cur) >= ArgsAt(line) - 1
  /\ \/ /\ line.kind = "directive" /\ cur[1].tok = "." /\ cur[2].tok = "name"
        /\ line.name = cur[2].name
     \/ /\ line.kind = "instruction" /\ cur[1].tok = "name" /\ line.name = cur[1].name
        /\ \A i \in DOMAIN cur : cur[i].tok # "string"

\* The arguments read so far are the parameters, and one is being read.
ArgsRead(cur, line, params) ==
  /\ Begun(cur, line)
  /\ \A k \in DOMAIN Given(cur, ArgsAt(line)) : IsArgument(Given(cur, ArgsAt(line))[k])
  /\ params = GivenParams(cur, ArgsAt(line))

InArg(cur, line) == Pending(cur, ArgsAt(line))

\* The name of the line has been read, an argument may begin, has begun with
\* a token, or is complete and already one of the parameters.
NameRead(cur, line)      == ArgsRead(cur, line, line.params) /\ Len(cur) = ArgsAt(line) - 1
ArgDue(cur, line)        == ArgsRead(cur, line, line.params) /\ InArg(cur, line) = <<>>
Behind1(cur, line, a)  == ArgsRead(cur, line, line.params) /\ IsOne(InArg(cur, line), a)
Passed(cur, line)        ==
  /\ Len(cur) >= ArgsAt(line) /\ IsArgument(InArg(cur, line))
  /\ \E params : ArgsRead(cur, line, params) /\ line.params = Append(params, ParamOf(InArg(cur, line)))

\* What the operators and operands that wait have to do with the terms.
PlusMinus == {"+", "-"}
Signed(op, x) == IF op = "+" THEN x ELSE 0 - x

NoQuotient(a) == \A i \in DOMAIN a : a[i].tok # "/"
Alternates(a) ==
  /\ Len(a) % 2 = 1
  /\ \A i \in DOMAIN a : IF i % 2 = 1 THEN a[i].tok = "number" ELSE a[i].tok \in Operators

Held(d, e) == [operands |-> d, operators |-> e, split |-> FALSE]

Ready0(x)           == Held(<<x>>, <<>>)
Ready1(op, x, y)    == Held(<<x, y>>, <<op>>)
Ready2(op, x, y, z) == Held(<<x, y, z>>, <<op, "*">>)
Open1(op, x)        == Held(<<x>>, <<op>>)
Open2(op, x, y)     == Held(<<x, y>>, <<op, "*">>)

WithOperand(n, v)   == [n EXCEPT !.operands = Append(@, v)]
WithOperator(n, op) == [n EXCEPT !.operators = Append(@, op)]

Amounts(s, before, term) == s.before = before /\ s.term = term

Stands(n, a) ==
  LET s == TermsOf(a) IN
  \/ \E x \in Int : n = Ready0(x) /\ Len(a) = 1 /\ x = a[1].value
  \/ \E x, y \in Int : n = Ready1("*", x, y) /\ Amounts(s, 0, x * y)
  \/ \E op \in PlusMinus, x, y \in Int : n = Ready1(op, x, y) /\ Amounts(s, x, Signed(op, y))
  \/ \E op \in PlusMinus, x, y, z \in Int : n = Ready2(op, x, y, z) /\ Amounts(s, x, Signed(op, y * z))

Awaits(n, op, s) ==
  \/ op = "*" /\ \E x \in Int : n = Open1(op, x) /\ Amounts(s, 0, x)
  \/ op \in PlusMinus /\ \E x \in Int : n = Open1(op, x) /\ s.before + s.term = x
  \/ op = "*" /\ \E o \in PlusMinus, x, y \in Int : n = Open2(o, x, y) /\ Amounts(s, x, Signed(o, y))

\* An expression that may end here.
Computed(n, a) ==
  /\ Alternates(a)
  /\ \/ NoQuotient(a) /\ Stands(n, a)
     \/ Len(a) = 3 /\ a[2].tok = "/" /\ n = Ready1("/", a[1].value, a[3].value)

\* One that ends with an operator.
Awaiting(n, a) ==
  /\ a # <<>> /\ Alternates(Front(a))
  /\ \/ NoQuotient(a) /\ Awaits(n, Last(a).tok, TermsOf(Front(a)))
     \/ Len(a) = 2 /\ Last(a).tok = "/" /\ n = Open1("/", a[1].value)

Names(args)    == [k \in DOMAIN args |-> args[k][1].name]
AreNames(args) == \A k \in DOMAIN args : Toks(args[k]) = <<"name">>

HeadRead(cur, m, names) ==
  /\ Len(cur) >= 2 /\ cur[1].tok = ".macro" /\ cur[2].tok = "name"
  /\ AreNames(Given(cur, 3)) /\ names = Names(Given(cur, 3))
  /\ \E all : m = <<Macro(cur[2].name, all, <<>>)>>

\* An argument may come, or one has been named.
HeadOpen(cur, m, names)  == HeadRead(cur, m, names) /\ Pending(cur, 3) = <<>> /\ m[1].args = names
HeadNamed(cur, m, names) ==
  /\ HeadRead(cur, m, names) /\ Len(cur) > 2 /\ Toks(Pending(cur, 3)) = One("name")
  /\ m[1].args = Append(names, Pending(cur, 3)[1].name)

CurIs(e, cur, line, n, m) ==
  /\ e \in {"file", "line"} => cur = <<>>
  /\ e \in {"dot", "endm", "macro"} =>
       IsOne(cur, CASE e = "dot" -> "." [] e = "endm" -> ".endm" [] e = "macro" -> ".macro")
  /\ e \in {"name", "dir"} =>
       NameRead(cur, line) /\ line.kind = IF e = "dir" THEN "directive" ELSE "instruction"
  /\ e = "args"      => ArgDue(cur, line)
  /\ e = "percent"   => Behind1(cur, line, "%")
  /\ e = "backslash" => Behind1(cur, line, "\\")
  /\ e = "param"     => Passed(cur, line)
  /\ e \in {"number", "operand"} /\ ~ n.split =>
       /\ Len(cur) >= ArgsAt(line) /\ ArgsRead(cur, line, line.params)
       /\ e = "number"  => Computed(n, InArg(cur, line))
       /\ e = "operand" => Awaiting(n, InArg(cur, line))
  /\ e = "head"  => Len(cur) = 2 /\ m[1].args = <<>> /\ \E names : HeadRead(cur, m, names)
  /\ e = "comma" => \E names : HeadOpen(cur, m, names)
  /\ e = "arg"   => \E names : HeadNamed(cur, m, names)

CurInv == CurIs(expect, Cur, row, number, macro)

-----------------------------------------------------------------------------
(* The statements that have been read. *)

MacrosIn(p, n) == FlattenSeq([k \in 1 .. n |-> MacroEnding(p, k)])

\* The macro with the head h, as the first n statements make it.
Made(p, n, h)   == [p[h].head EXCEPT !.lines = LinesIn(p, n, h)]
MacroOpen(p, h) == Made(p, Len(p), h)

\* The macro that is open, if one is.
Opened(p, h) == IF h = 0 THEN <<>> ELSE <<MacroOpen(p, h)>>

StatedIn(h, e, p, rs, m, ms) ==
  /\ \A k \in DOMAIN p : Fitting(p, k)
  /\ rs = LinesIn(p, Len(p), 0)
  /\ e = "line" => \E k \in DOMAIN p : ~ Is(p[k], "blank")
  /\ e \in InHead \union {"file", "macro"} => h = 0
  /\ e = "endm" => /\ h # 0 /\ LinesIn(p, Len(p), h) # <<>> /\ m = <<>>
                   /\ ms = Append(MacrosIn(p, Len(p)), MacroOpen(p, h))
  /\ e # "endm" => ms = MacrosIn(p, Len(p))
  /\ e \notin InHead \union {"endm"} => m = Opened(p, h)

Stated(e, p, rs, m, ms) == StatedIn(OpenHead(p, Len(p)), e, p, rs, m, ms)

StatementInv == Stated(expect, Statements(text), rows, macro, macros)

ParseInv ==
  /\ \E S : text \in Seq(S)
  /\ expect # "nothing" => CurInv /\ StatementInv
  /\ expect = "nothing" => WellFormed(text) /\ lines = LinesOf(text) /\ macros = MacrosOf(text)
  /\ status = "parsed" <=> expect = "nothing"

-----------------------------------------------------------------------------
(* What is ended, and what is not yet. *)

\* A set of numbers up to n has a maximum.
LEMMA MaxOf ==
  ASSUME NEW n \in Nat, NEW T \in SUBSET (0 .. n), T # {}
  PROVE  Max(T) \in T /\ \A x \in T : x <= Max(T)
<1>1. {n - x : x \in T} \in SUBSET Nat /\ {n - x : x \in T} # {}
  <2>1. \A x \in T : n - x \in Nat
    <3> SUFFICES ASSUME NEW x \in T PROVE n - x \in Nat
      OBVIOUS
    <3>1. x \in 0 .. n
      OBVIOUS
    <3>2. QED
      BY <3>1
  <2>2. QED
    BY <2>1, Zenon
<1>2. PICK y \in {n - x : x \in T} : \A z \in {n - x : x \in T} : y <= z
  BY <1>1, Least
<1>3. PICK m \in T : y = n - m
  BY <1>2
<1>4. \A x \in T : x <= m
  <2> SUFFICES ASSUME NEW x \in T PROVE x <= m
    OBVIOUS
  <2>1. y <= n - x
    BY <1>2
  <2>2. x \in Int /\ m \in Int
    OBVIOUS
  <2>3. QED
    BY <1>3, <2>1, <2>2
<1>5. Max(T) = CHOOSE x \in T : \A z \in T : x >= z
  BY DEF Max
<1>6. \E x \in T : \A z \in T : x >= z
  <2>1. \A z \in T : m >= z
    BY <1>4
  <2>2. QED
    BY <2>1
<1>7. Max(T) \in T /\ \A z \in T : Max(T) >= z
  BY <1>5, <1>6, Zenon
<1>8. QED
  BY <1>7

\* The last one of the first n tokens.
LEMMA LastOfIs ==
  ASSUME NEW s, NEW n \in Nat, NEW toks
  PROVE  /\ LastOf(s, n, toks) \in 0 .. n
         /\ LastOf(s, n, toks) = 0 \/ s[LastOf(s, n, toks)].tok \in toks
         /\ \A i \in 1 .. n : s[i].tok \in toks => i <= LastOf(s, n, toks)
<1> DEFINE T == {0} \union {i \in 1 .. n : s[i].tok \in toks}
<1>1. T \in SUBSET (0 .. n) /\ T # {}
  OBVIOUS
<1>2. Max(T) \in T /\ \A x \in T : x <= Max(T)
  BY <1>1, MaxOf
<1>3. LastOf(s, n, toks) = Max(T)
  BY DEF LastOf
<1>4. Max(T) \in 0 .. n /\ (Max(T) = 0 \/ s[Max(T)].tok \in toks)
  BY <1>1, <1>2
<1>5. QED
  BY <1>2, <1>3, <1>4

\* The number behind n.
Follows(m, n) == n \in Nat /\ m \in Nat /\ m = n + 1

\* One more token.
LEMMA LastOfNext ==
  ASSUME NEW s, NEW n \in Nat, NEW toks, NEW m \in Nat, Follows(m, n)
  PROVE  LastOf(s, m, toks) = IF s[m].tok \in toks THEN m ELSE LastOf(s, n, toks)
<1>1. m \in Nat /\ n \in Nat /\ m = n + 1
  BY DEF Follows
<1>2. CASE s[m].tok \in toks
  <2>1. LastOf(s, m, toks) \in 0 .. m /\ m <= LastOf(s, m, toks)
    <3>1. m \in 1 .. m
      BY <1>1
    <3>2. QED
      BY <1>1, <1>2, <3>1, LastOfIs
  <2>2. QED
    BY <1>1, <1>2, <2>1
<1>3. CASE s[m].tok \notin toks
  <2>1. {i \in 1 .. m : s[i].tok \in toks} = {i \in 1 .. n : s[i].tok \in toks}
    BY <1>1, <1>3
  <2>2. LastOf(s, m, toks) = LastOf(s, n, toks)
    BY <2>1 DEF LastOf
  <2>3. QED
    BY <1>3, <2>2
<1>4. QED
  BY <1>2, <1>3

\* It depends on these tokens only.
LEMMA LastOfSame ==
  ASSUME NEW s, NEW u, NEW n \in Nat, NEW toks, \A i \in 1 .. n : s[i] = u[i]
  PROVE  LastOf(s, n, toks) = LastOf(u, n, toks)
<1>1. {i \in 1 .. n : s[i].tok \in toks} = {i \in 1 .. n : u[i].tok \in toks}
  OBVIOUS
<1>2. QED
  BY <1>1 DEF LastOf

\* A list of lists with one more.
Extends(S, more, few, m, n) ==
  /\ Follows(m, n)
  /\ few \in [1 .. n -> Seq(S)] /\ more \in [1 .. m -> Seq(S)] /\ Agree(few, more, n)

\* It is flattened with one more.
LEMMA FlattenMore ==
  ASSUME NEW S, NEW few, NEW more, NEW n \in Nat, NEW m \in Nat, Extends(S, more, few, m, n)
  PROVE  FlattenSeq(more) = Join(FlattenSeq(few), more[m])
<1>1. /\ n \in Nat /\ m \in Nat /\ m = n + 1
      /\ few \in [1 .. n -> Seq(S)] /\ more \in [1 .. m -> Seq(S)] /\ Agree(few, more, n)
  BY DEF Extends, Follows
<1>2. PICK p : Concatenates(p, few, n, S) /\ FlattenSeq(few) = p[n]
  BY <1>1, FlattenConcatenates
<1>3. Concatenates(p, more, n, S)
  BY <1>1, <1>2 DEF Concatenates, Agree
<1>4. more[m] \in Seq(S)
  BY <1>1
<1>5. PICK q : Concatenates(q, more, m, S) /\ q[m] = Join(p[n], more[m])
  <2>1. PICK x \in Seq(S) : x = more[m]
    BY <1>4
  <2>2. \E q : Concatenates(q, more, m, S) /\ q[m] = Join(p[n], x)
    BY <1>1, <1>3, <2>1, ConcatenationGoesOn
  <2>3. QED
    BY <2>1, <2>2
<1>6. FlattenSeq(more) = q[m]
  BY <1>1, <1>5, ConcatenationFlattens
<1>7. QED
  BY <1>2, <1>5, <1>6

\* Of none nothing.
LEMMA FlattenNone == FlattenSeq(<<>>) = <<>>
BY DEF FlattenSeq

\* A part of a list that has become longer by one.
LEMMA PartOfLonger ==
  ASSUME NEW S, NEW s \in Seq(S), NEW t \in S, NEW lo \in Nat \ {0}, NEW hi \in 0 .. Len(s)
  PROVE  SubSeq(Append(s, t), lo, hi) = SubSeq(s, lo, hi)
OBVIOUS

\* What a token ends, in a list that may go on.
LEMMA EndedAtType ==
  ASSUME NEW S, NEW s \in Seq(S), NEW t \in S, NEW toks, NEW i \in 1 .. Len(s)
  PROVE  /\ EndedAt(s, i, toks) \in Seq(Seq(S))
         /\ EndedAt(Append(s, t), i, toks) = EndedAt(s, i, toks)
<1>1. PICK j \in Nat : j = i - 1
  OBVIOUS
<1>2. PICK l : l = LastOf(s, j, toks)
  OBVIOUS
<1>3. l \in 0 .. j
  BY <1>2, LastOfIs
<1>4. LastOf(Append(s, t), j, toks) = l
  <2>1. \A k \in 1 .. j : Append(s, t)[k] = s[k]
    BY <1>1
  <2>2. QED
    BY <1>2, <2>1, LastOfSame
<1>5. PICK lo \in Nat \ {0} : lo = l + 1
  BY <1>3
<1>6. SubSeq(s, lo, i) \in Seq(S) /\ SubSeq(Append(s, t), lo, i) = SubSeq(s, lo, i)
  <2>1. lo \in 1 .. Len(s) + 1 /\ i \in 0 .. Len(s) /\ lo <= i + 1
    BY <1>1, <1>3, <1>5
  <2>2. QED
    BY <2>1, Part, PartOfLonger
<1>7. Append(s, t)[i] = s[i]
  OBVIOUS
<1>8. /\ EndedAt(s, i, toks) = IF s[i].tok \in toks THEN <<SubSeq(s, lo, i)>> ELSE <<>>
      /\ EndedAt(Append(s, t), i, toks) = IF s[i].tok \in toks THEN <<SubSeq(Append(s, t), lo, i)>> ELSE <<>>
  BY <1>1, <1>2, <1>4, <1>5, <1>7 DEF EndedAt
<1>9. \A x \in Seq(S) : <<x>> \in Seq(Seq(S))
  OBVIOUS
<1>10. QED
  BY <1>6, <1>8, <1>9

\* What is not ended yet.
LEMMA UnendedType ==
  ASSUME NEW S, NEW s \in Seq(S), NEW toks
  PROVE  Unended(s, toks) \in Seq(S)
<1>1. PICK l : l = LastOf(s, Len(s), toks)
  OBVIOUS
<1>2. l \in 0 .. Len(s)
  BY <1>1, LastOfIs
<1>3. SubSeq(s, l + 1, Len(s)) \in Seq(S)
  BY <1>2
<1>4. QED
  BY <1>1, <1>3 DEF Unended

\* What is ended is a list of lists.
LEMMA EndedType ==
  ASSUME NEW S, NEW s \in Seq(S), NEW toks
  PROVE  Ended(s, toks) \in Seq(Seq(S))
<1> DEFINE few == [i \in DOMAIN s |-> EndedAt(s, i, toks)]
<1>1. PICK n \in Nat : n = Len(s) /\ DOMAIN s = 1 .. n
  OBVIOUS
<1>2. \A i \in 1 .. n : EndedAt(s, i, toks) \in Seq(Seq(S))
  <2> SUFFICES ASSUME NEW i \in 1 .. n PROVE EndedAt(s, i, toks) \in Seq(Seq(S))
    OBVIOUS
  <2>1. s[i] \in S /\ i \in 1 .. Len(s)
    BY <1>1
  <2>2. QED
    BY <2>1, EndedAtType
<1>3. few \in [1 .. n -> Seq(Seq(S))]
  BY <1>1, <1>2
<1>4. FlattenSeq(few) \in Seq(Seq(S))
  <2> HIDE DEF few
  <2>1. QED
    BY <1>3, FlattenType
<1>5. QED
  BY <1>4 DEF Ended

\* One token more: it ends what was not ended, or joins it.
LEMMA EndedMore ==
  ASSUME NEW S, NEW s \in Seq(S), NEW t \in S, NEW toks
  PROVE  /\ Ended(Append(s, t), toks) =
              IF t.tok \in toks THEN Append(Ended(s, toks), Append(Unended(s, toks), t)) ELSE Ended(s, toks)
         /\ Unended(Append(s, t), toks) =
              IF t.tok \in toks THEN <<>> ELSE Append(Unended(s, toks), t)
<1>1. PICK n \in Nat : n = Len(s)
  OBVIOUS
<1>2. PICK m \in Nat : m = n + 1
  OBVIOUS
<1>3. PICK u : u = Append(s, t)
  OBVIOUS
<1>4. /\ u \in Seq(S) /\ Len(u) = m /\ DOMAIN u = 1 .. m /\ DOMAIN s = 1 .. n /\ u[m] = t
      /\ Follows(m, n) /\ m \in 1 .. m /\ m - 1 = n
  BY <1>1, <1>2, <1>3 DEF Follows
<1>5. \A k \in 1 .. n : u[k] = s[k]
  BY <1>1, <1>3
<1>6. PICK l : l = LastOf(s, n, toks)
  OBVIOUS
<1>7. l \in 0 .. n
  BY <1>6, LastOfIs
<1>8. LastOf(u, n, toks) = l
  <2>1. {i \in 1 .. n : s[i].tok \in toks} = {i \in 1 .. n : u[i].tok \in toks}
    <3>1. \A i \in 1 .. n : s[i].tok \in toks <=> u[i].tok \in toks
      BY <1>5, Zenon
    <3>2. QED
      BY <3>1, Zenon
  <2>2. LastOf(u, n, toks) = LastOf(s, n, toks)
    BY <2>1, Zenon DEF LastOf
  <2>3. QED
    BY <1>6, <2>2
<1>9. LastOf(u, m, toks) = IF t.tok \in toks THEN m ELSE l
  <2>1. LastOf(u, m, toks) = IF u[m].tok \in toks THEN m ELSE LastOf(u, n, toks)
    <3>1. Follows(m, n)
      BY <1>4
    <3>2. QED
      BY <3>1, LastOfNext
  <2>2. QED
    BY <1>4, <1>8, <2>1
<1>10. PICK r : r = SubSeq(s, l + 1, n)
  OBVIOUS
<1>11. r \in Seq(S) /\ r = Unended(s, toks)
  <2>1. SubSeq(s, l + 1, n) \in Seq(S)
    BY <1>1, <1>7
  <2>2. QED
    BY <1>1, <1>6, <1>10, <2>1 DEF Unended
<1>12. SubSeq(u, l + 1, m) = Append(r, t)
  <2>1. PICK lo \in Nat : lo = l + 1
    BY <1>7
  <2>2. 1 <= lo /\ lo <= Len(s) + 1
    BY <1>1, <1>7, <2>1
  <2>3. SubSeq(Append(s, t), lo, Len(s) + 1) = Append(SubSeq(s, lo, Len(s)), t)
    BY <2>2
  <2>4. QED
    BY <1>1, <1>2, <1>3, <1>10, <2>1, <2>3, Zenon
<1>13. Unended(u, toks) = IF t.tok \in toks THEN <<>> ELSE Append(r, t)
  <2>1. CASE t.tok \in toks
    <3>1. Unended(u, toks) = SubSeq(u, m + 1, m)
      BY <1>4, <1>9, <2>1 DEF Unended
    <3>2. SubSeq(u, m + 1, m) = <<>>
      BY <1>4
    <3>3. QED
      BY <2>1, <3>1, <3>2
  <2>2. CASE t.tok \notin toks
    <3>1. Unended(u, toks) = SubSeq(u, l + 1, m)
      BY <1>4, <1>9, <2>2 DEF Unended
    <3>2. QED
      BY <1>12, <2>2, <3>1
  <2>3. QED
    BY <2>1, <2>2
<1>14. PICK a : a = Append(r, t)
  OBVIOUS
<1>15. EndedAt(u, m, toks) = IF t.tok \in toks THEN <<a>> ELSE <<>>
  <2>1. EndedAt(u, m, toks) = IF u[m].tok \in toks THEN <<SubSeq(u, l + 1, m)>> ELSE <<>>
    BY <1>4, <1>8 DEF EndedAt
  <2>2. QED
    BY <1>4, <1>12, <1>14, <2>1
<1>16. a \in Seq(S) /\ <<a>> \in Seq(Seq(S)) /\ <<>> \in Seq(Seq(S))
  <2>1. a \in Seq(S)
    BY <1>11, <1>14
  <2>2. QED
    BY <2>1
<1> DEFINE few  == [i \in DOMAIN s |-> EndedAt(s, i, toks)]
           more == [i \in DOMAIN u |-> EndedAt(u, i, toks)]
<1>17. \A i \in 1 .. n : EndedAt(s, i, toks) \in Seq(Seq(S)) /\ EndedAt(u, i, toks) = EndedAt(s, i, toks)
  BY <1>1, <1>3, EndedAtType
<1>18. Extends(Seq(S), more, few, m, n)
  <2>1. few \in [1 .. n -> Seq(Seq(S))]
    BY <1>4, <1>17
  <2>2. more \in [1 .. m -> Seq(Seq(S))]
    <3>1. \A i \in 1 .. m : EndedAt(u, i, toks) \in Seq(Seq(S))
      <4> SUFFICES ASSUME NEW i \in 1 .. m PROVE EndedAt(u, i, toks) \in Seq(Seq(S))
        OBVIOUS
      <4>1. i = m \/ i \in 1 .. n
        BY <1>2
      <4>2. EndedAt(u, m, toks) \in Seq(Seq(S))
        BY <1>15, <1>16
      <4>3. QED
        BY <1>17, <4>1, <4>2
    <3>2. QED
      BY <1>4, <3>1
  <2>3. Agree(few, more, n)
    <3>1. \A i \in 1 .. n : i \in DOMAIN s /\ i \in DOMAIN u
      BY <1>2, <1>4
    <3>2. QED
      BY <1>17, <3>1 DEF Agree
  <2>4. QED
    BY <1>4, <2>1, <2>2, <2>3 DEF Extends
<1>19. Ended(s, toks) = FlattenSeq(few) /\ Ended(u, toks) = FlattenSeq(more) /\ more[m] = EndedAt(u, m, toks)
  BY <1>4 DEF Ended
<1> HIDE DEF few, more
<1>20. FlattenSeq(more) = Join(FlattenSeq(few), more[m])
  BY <1>18, FlattenMore
<1>21. PICK e : e = Ended(s, toks)
  OBVIOUS
<1>22. e \in Seq(Seq(S))
  BY <1>21, EndedType
<1>23. e \o <<a>> = Append(e, a) /\ e \o <<>> = e
  BY <1>16, <1>22
<1>24. Ended(u, toks) = e \o EndedAt(u, m, toks)
  BY <1>19, <1>20, <1>21 DEF Join
<1>25. Ended(u, toks) = IF t.tok \in toks THEN Append(e, a) ELSE e
  BY <1>15, <1>23, <1>24
<1>26. QED
  BY <1>3, <1>11, <1>13, <1>14, <1>21, <1>25

\* Of no tokens nothing is ended.
LEMMA EndedNone ==
  ASSUME NEW toks
  PROVE  Ended(<<>>, toks) = <<>> /\ Unended(<<>>, toks) = <<>>
<1>1. [i \in DOMAIN <<>> |-> EndedAt(<<>>, i, toks)] = <<>>
  OBVIOUS
<1>2. Ended(<<>>, toks) = <<>>
  BY <1>1, FlattenNone DEF Ended
<1>3. Unended(<<>>, toks) = <<>>
  BY DEF Unended
<1>4. QED
  BY <1>2, <1>3

-----------------------------------------------------------------------------
(* Arguments that have been read, and the one that is being read. *)

\* A function on the first n numbers is a list.
LEMMA IsList ==
  ASSUME NEW X, NEW n \in Nat, NEW f \in [1 .. n -> X]
  PROVE  f \in Seq(X) /\ Len(f) = n /\ DOMAIN f = 1 .. n
OBVIOUS

\* A list with one element more.
LEMMA Appended ==
  ASSUME NEW X, NEW f \in Seq(X), NEW x \in X, NEW n \in Nat, Len(f) = n
  PROVE  /\ Append(f, x) \in Seq(X) /\ Len(Append(f, x)) = n + 1 /\ Append(f, x)[n + 1] = x
         /\ \A k \in 1 .. n : Append(f, x)[k] = f[k]
OBVIOUS

\* Two lists are the same if their elements are.
LEMMA SameList ==
  ASSUME NEW X, NEW f \in Seq(X), NEW g \in Seq(X), NEW n, Len(f) = n, Len(g) = n,
         \A i \in 1 .. n : f[i] = g[i]
  PROVE  f = g
OBVIOUS

\* An element of a longer list is one of the list, or the one that was added.
LEMMA OldOrNew ==
  ASSUME NEW X, NEW f \in Seq(X), NEW x \in X
  PROVE  \A k \in DOMAIN Append(f, x) : \/ k \in DOMAIN f /\ Append(f, x)[k] = f[k]
                                       \/ Append(f, x)[k] = x
OBVIOUS

\* What is there from p on.
LEMMA FromMore ==
  ASSUME NEW S, NEW s \in Seq(S), NEW t \in S, NEW p \in Nat \ {0}, p <= Len(s) + 1
  PROVE  From(s, p) \in Seq(S) /\ From(Append(s, t), p) = Append(From(s, p), t)
<1>1. SubSeq(s, p, Len(s)) \in Seq(S)
  OBVIOUS
<1>2. SubSeq(Append(s, t), p, Len(s) + 1) = Append(SubSeq(s, p, Len(s)), t)
  OBVIOUS
<1>3. Len(Append(s, t)) = Len(s) + 1
  OBVIOUS
<1>4. QED
  BY <1>1, <1>2, <1>3, Zenon DEF From

\* The arguments are lists of tokens.
LEMMA GivenType ==
  ASSUME NEW S, NEW s \in Seq(S), NEW p \in Nat \ {0}, p <= Len(s) + 1
  PROVE  Given(s, p) \in Seq(Seq(S)) /\ Pending(s, p) \in Seq(S)
<1>1. PICK f \in Seq(S) : f = From(s, p)
  <2>1. SubSeq(s, p, Len(s)) \in Seq(S)
    OBVIOUS
  <2>2. QED
    BY <2>1 DEF From
<1>2. PICK w : w = Whole(s, p)
  OBVIOUS
<1>3. w \in Seq(Seq(S))
  BY <1>1, <1>2, EndedType DEF Whole
<1>4. \A x \in Seq(S) : Front(x) \in Seq(S)
  BY DEF Front
<1>5. [k \in DOMAIN w |-> Front(w[k])] \in Seq(Seq(S))
  <2>1. PICK n \in Nat : DOMAIN w = 1 .. n /\ \A k \in 1 .. n : w[k] \in Seq(S)
    BY <1>3
  <2>2. [k \in DOMAIN w |-> Front(w[k])] \in [1 .. n -> Seq(S)]
    BY <1>4, <2>1
  <2>3. QED
    BY <2>2, IsList
<1>6. Pending(s, p) \in Seq(S)
  BY <1>1, UnendedType DEF Pending
<1>7. QED
  BY <1>2, <1>5, <1>6 DEF Given

\* There are none where nothing has been read.
LEMMA GivenNone ==
  ASSUME NEW S, NEW s \in Seq(S), NEW p, p = Len(s) + 1
  PROVE  Given(s, p) = <<>> /\ GivenParams(s, p) = <<>> /\ Pending(s, p) = <<>>
<1>1. From(s, p) = <<>>
  BY DEF From
<1>2. Whole(s, p) = <<>> /\ Pending(s, p) = <<>>
  BY <1>1, EndedNone DEF Whole, Pending
<1>3. PICK w : w = Whole(s, p)
  OBVIOUS
<1>4. PICK g : g = Given(s, p)
  OBVIOUS
<1>5. g = [k \in DOMAIN w |-> Front(w[k])] /\ w = <<>>
  BY <1>2, <1>3, <1>4 DEF Given
<1>6. g = <<>>
  BY <1>5
<1>7. GivenParams(s, p) = [k \in DOMAIN g |-> ParamOf(g[k])]
  BY <1>4 DEF GivenParams
<1>8. GivenParams(s, p) = <<>>
  BY <1>6, <1>7
<1>9. QED
  BY <1>2, <1>4, <1>6, <1>8

\* A comma or a newline ends an argument, any other token joins it.
LEMMA GivenMore ==
  ASSUME NEW S, NEW s \in Seq(S), NEW t \in S, NEW p \in Nat \ {0}, p <= Len(s) + 1
  PROVE  /\ Given(Append(s, t), p) =
              IF t.tok \in Commas THEN Append(Given(s, p), Pending(s, p)) ELSE Given(s, p)
         /\ Pending(Append(s, t), p) = IF t.tok \in Commas THEN <<>> ELSE Append(Pending(s, p), t)
<1>1. PICK f : f = From(s, p)
  OBVIOUS
<1>2. f \in Seq(S) /\ From(Append(s, t), p) = Append(f, t)
  BY <1>1, FromMore
<1>3. PICK r : r = Pending(s, p)
  OBVIOUS
<1>4. PICK w : w = Whole(s, p)
  OBVIOUS
<1>5. r \in Seq(S) /\ w \in Seq(Seq(S))
  BY <1>1, <1>2, <1>3, <1>4, EndedType, UnendedType DEF Whole, Pending
<1>6. PICK v : v = Whole(Append(s, t), p)
  OBVIOUS
<1>7. v = IF t.tok \in Commas THEN Append(w, Append(r, t)) ELSE w
  BY <1>1, <1>2, <1>3, <1>4, <1>6, EndedMore DEF Whole, Pending
<1>8. Pending(Append(s, t), p) = IF t.tok \in Commas THEN <<>> ELSE Append(r, t)
  BY <1>1, <1>2, <1>3, EndedMore DEF Pending
<1>9. Given(s, p) = [k \in DOMAIN w |-> Front(w[k])]
      /\ Given(Append(s, t), p) = [k \in DOMAIN v |-> Front(v[k])]
  BY <1>4, <1>6 DEF Given
<1>10. Front(Append(r, t)) = r
  BY <1>5 DEF Front
<1>11. CASE t.tok \in Commas
  <2>1. PICK a \in Seq(S) : a = Append(r, t) /\ Front(a) = r
    <3>1. Append(r, t) \in Seq(S)
      BY <1>5
    <3>2. QED
      BY <1>10, <3>1
  <2>2. v = Append(w, a)
    BY <1>7, <1>11, <2>1
  <2>3. PICK n \in Nat : n = Len(w) /\ DOMAIN w = 1 .. n
    BY <1>5
  <2>4. DOMAIN v = 1 .. n + 1 /\ v[n + 1] = a /\ \A k \in 1 .. n : v[k] = w[k]
    BY <1>5, <2>2, <2>3
  <2>5. PICK g : g \in [1 .. n -> Seq(S)] /\ g = [k \in DOMAIN w |-> Front(w[k])]
    <3>1. \A k \in 1 .. n : w[k] \in Seq(S)
      BY <1>5, <2>3
    <3>2. \A x \in Seq(S) : Front(x) \in Seq(S)
      BY DEF Front
    <3>3. QED
      BY <2>3, <3>1, <3>2
  <2>6. g \in Seq(Seq(S)) /\ Len(g) = n /\ \A k \in 1 .. n : g[k] = Front(w[k])
    BY <2>3, <2>5, IsList
  <2>7. PICK h : h \in [1 .. n + 1 -> Seq(S)] /\ h = [k \in DOMAIN v |-> Front(v[k])]
    <3>1. \A k \in 1 .. n + 1 : v[k] \in Seq(S)
      <4>1. v \in Seq(Seq(S))
        BY <1>5, <2>2
      <4>2. QED
        BY <2>4, <4>1
    <3>2. \A x \in Seq(S) : Front(x) \in Seq(S)
      BY DEF Front
    <3>3. QED
      BY <2>4, <3>1, <3>2
  <2>8. h \in Seq(Seq(S)) /\ Len(h) = n + 1 /\ \A k \in 1 .. n + 1 : h[k] = Front(v[k])
    <3>1. n + 1 \in Nat
      OBVIOUS
    <3>2. QED
      BY <2>4, <2>7, <3>1, IsList
  <2>9. Append(g, r) \in Seq(Seq(S)) /\ Len(Append(g, r)) = n + 1 /\ Append(g, r)[n + 1] = r
        /\ \A k \in 1 .. n : Append(g, r)[k] = g[k]
    <3>1. g \in Seq(Seq(S)) /\ Len(g) = n
      BY <2>6
    <3>2. QED
      BY <1>5, <3>1, Appended
  <2>10. \A k \in 1 .. n + 1 : h[k] = Append(g, r)[k]
    <3> SUFFICES ASSUME NEW k \in 1 .. n + 1 PROVE h[k] = Append(g, r)[k]
      OBVIOUS
    <3>1. CASE k = n + 1
      BY <2>1, <2>4, <2>8, <2>9, <3>1, Zenon
    <3>2. CASE k \in 1 .. n
      BY <2>4, <2>6, <2>8, <2>9, <3>2, Zenon
    <3>3. k = n + 1 \/ k \in 1 .. n
      OBVIOUS
    <3>4. QED
      BY <3>1, <3>2, <3>3
  <2>11. h = Append(g, r)
    BY <2>8, <2>9, <2>10, SameList
  <2>12. QED
    BY <1>3, <1>8, <1>9, <1>11, <2>5, <2>7, <2>11, Zenon
<1>12. CASE t.tok \notin Commas
  BY <1>3, <1>7, <1>8, <1>9, <1>12
<1>13. QED
  BY <1>11, <1>12

\* The parameters of one argument more.
LEMMA ParamsMore ==
  ASSUME NEW S, NEW s \in Seq(S), NEW t \in S, NEW p \in Nat \ {0}, p <= Len(s) + 1
  PROVE  GivenParams(Append(s, t), p) =
           IF t.tok \in Commas THEN Append(GivenParams(s, p), ParamOf(Pending(s, p))) ELSE GivenParams(s, p)
<1>1. PICK g : g = Given(s, p)
  OBVIOUS
<1>2. PICK h : h = Given(Append(s, t), p)
  OBVIOUS
<1>3. PICK r : r = Pending(s, p)
  OBVIOUS
<1>4. g \in Seq(Seq(S)) /\ r \in Seq(S)
  BY <1>1, <1>3, GivenType
<1>5. h = IF t.tok \in Commas THEN Append(g, r) ELSE g
  BY <1>1, <1>2, <1>3, GivenMore
<1>6. GivenParams(s, p) = [k \in DOMAIN g |-> ParamOf(g[k])]
      /\ GivenParams(Append(s, t), p) = [k \in DOMAIN h |-> ParamOf(h[k])]
  BY <1>1, <1>2 DEF GivenParams
<1>7. [k \in DOMAIN Append(g, r) |-> ParamOf(Append(g, r)[k])]
        = Append([k \in DOMAIN g |-> ParamOf(g[k])], ParamOf(r))
  <2> DEFINE X == {ParamOf(x) : x \in Seq(S)}
  <2>1. \A x \in Seq(S) : ParamOf(x) \in X
    OBVIOUS
  <2> HIDE DEF X
  <2>2. PICK h2 : h2 \in Seq(Seq(S)) /\ h2 = Append(g, r)
    <3>1. Append(g, r) \in Seq(Seq(S))
      BY <1>4
    <3>2. QED
      BY <3>1, Zenon
  <2>3. PICK n \in Nat : n = Len(g) /\ DOMAIN g = 1 .. n /\ \A k \in 1 .. n : g[k] \in Seq(S)
    BY <1>4
  <2>4. PICK m \in Nat : m = n + 1
    OBVIOUS
  <2>5. DOMAIN h2 = 1 .. m /\ h2[m] = r /\ \A k \in 1 .. n : h2[k] = g[k]
    BY <1>4, <2>2, <2>3, <2>4
  <2>6. PICK q \in [1 .. n -> X] : q = [k \in DOMAIN g |-> ParamOf(g[k])]
    BY <2>1, <2>3
  <2>7. PICK o \in [1 .. m -> X] : o = [k \in DOMAIN h2 |-> ParamOf(h2[k])]
    <3>1. \A k \in 1 .. m : h2[k] \in Seq(S)
      BY <2>2, <2>5
    <3>2. QED
      BY <2>1, <2>5, <3>1
  <2>8. /\ q \in Seq(X) /\ Len(q) = n /\ \A k \in 1 .. n : q[k] = ParamOf(g[k])
        /\ o \in Seq(X) /\ Len(o) = m /\ \A k \in 1 .. m : o[k] = ParamOf(h2[k])
    BY <2>3, <2>5, <2>6, <2>7, IsList
  <2>9. PICK x \in X : x = ParamOf(r)
    BY <1>4, <2>1
  <2>10. Append(q, x) \in Seq(X) /\ Len(Append(q, x)) = m /\ Append(q, x)[m] = x
         /\ \A k \in 1 .. n : Append(q, x)[k] = q[k]
    BY <2>4, <2>8
  <2>11. \A k \in 1 .. m : o[k] = Append(q, x)[k]
    <3> SUFFICES ASSUME NEW k \in 1 .. m PROVE o[k] = Append(q, x)[k]
      OBVIOUS
    <3>1. CASE k = m
      BY <2>5, <2>8, <2>9, <2>10, <3>1, Zenon
    <3>2. CASE k \in 1 .. n
      BY <2>5, <2>8, <2>10, <3>2, Zenon
    <3>3. k = m \/ k \in 1 .. n
      BY <2>4
    <3>4. QED
      BY <3>1, <3>2, <3>3
  <2>12. o = Append(q, x)
    BY <2>8, <2>10, <2>11, SameList
  <2>13. QED
    BY <2>2, <2>6, <2>7, <2>9, <2>12, Zenon
<1>8. QED
  BY <1>3, <1>5, <1>6, <1>7

-----------------------------------------------------------------------------
(* The line that is being read. *)

\* Where the arguments begin is in the line or just behind it.
LEMMA ArgsAtIs ==
  ASSUME NEW S, NEW cur \in Seq(S), NEW line, Begun(cur, line)
  PROVE  ArgsAt(line) \in Nat \ {0} /\ ArgsAt(line) <= Len(cur) + 1 /\ ArgsAt(line) \in {2, 3}
<1>1. ArgsAt(line) \in {2, 3}
  BY DEF ArgsAt
<1>2. Len(cur) >= ArgsAt(line) - 1
  BY DEF Begun
<1>3. QED
  BY <1>1, <1>2

\* A line remains begun.
LEMMA BegunMore ==
  ASSUME NEW S, NEW cur \in Seq(S), NEW t \in S, NEW line, Begun(cur, line),
         t.tok = "string" => line.kind = "directive"
  PROVE  Begun(Append(cur, t), line)
<1>1. PICK u : u = Append(cur, t)
  OBVIOUS
<1>2. PICK n \in Nat : n = Len(cur)
  OBVIOUS
<1>3. Len(u) = n + 1 /\ DOMAIN u = 1 .. n + 1 /\ u[n + 1] = t /\ \A i \in 1 .. n : u[i] = cur[i]
  BY <1>1, <1>2
<1>4. PICK p \in {2, 3} : p = ArgsAt(line)
  BY ArgsAtIs
<1>5. n >= p - 1
  BY <1>2, <1>4 DEF Begun
<1>6. CASE /\ line.kind = "directive" /\ cur[1].tok = "." /\ cur[2].tok = "name"
           /\ line.name = cur[2].name
  <2>1. p = 3
    BY <1>4, <1>6 DEF ArgsAt
  <2>2. u[1] = cur[1] /\ u[2] = cur[2] /\ Len(u) >= p - 1
    BY <1>3, <1>5, <2>1
  <2>3. QED
    BY <1>1, <1>4, <1>6, <2>2 DEF Begun
<1>7. CASE /\ line.kind = "instruction" /\ cur[1].tok = "name" /\ line.name = cur[1].name
           /\ \A i \in DOMAIN cur : cur[i].tok # "string"
  <2>1. u[1] = cur[1] /\ Len(u) >= p - 1
    BY <1>3, <1>4, <1>5
  <2>2. \A i \in DOMAIN u : u[i].tok # "string"
    <3> SUFFICES ASSUME NEW i \in 1 .. n + 1 PROVE u[i].tok # "string"
      BY <1>3
    <3>1. CASE i = n + 1
      BY <1>3, <1>7, <3>1
    <3>2. CASE i \in 1 .. n
      <4>1. i \in DOMAIN cur
        BY <1>2, <3>2
      <4>2. cur[i].tok # "string"
        BY <1>7, <4>1, Zenon
      <4>3. QED
        BY <1>3, <3>2, <4>2
    <3>3. QED
      BY <3>1, <3>2
  <2>3. QED
    BY <1>1, <1>4, <1>7, <2>1, <2>2 DEF Begun
<1>8. QED
  BY <1>6, <1>7 DEF Begun

\* The argument goes on.
LEMMA ArgGoesOn ==
  ASSUME NEW S, NEW cur \in Seq(S), NEW t \in S, NEW line, NEW params, ArgsRead(cur, line, params),
         t.tok \notin Commas, t.tok = "string" => line.kind = "directive"
  PROVE  /\ ArgsRead(Append(cur, t), line, params)
         /\ InArg(Append(cur, t), line) = Append(InArg(cur, line), t)
         /\ Len(Append(cur, t)) >= ArgsAt(line)
<1>1. Begun(cur, line) /\ Begun(Append(cur, t), line)
  BY BegunMore DEF ArgsRead
<1>2. PICK p \in Nat \ {0} : p = ArgsAt(line) /\ p <= Len(cur) + 1
  BY <1>1, ArgsAtIs
<1>3. Given(Append(cur, t), p) = Given(cur, p) /\ Pending(Append(cur, t), p) = Append(Pending(cur, p), t)
  BY <1>2, GivenMore
<1>4. GivenParams(Append(cur, t), p) = GivenParams(cur, p)
  BY <1>2, ParamsMore
<1>5. Len(Append(cur, t)) >= p
  BY <1>2
<1>6. PICK u : u = Append(cur, t)
  OBVIOUS
<1>7. ArgsRead(u, line, params)
  BY <1>1, <1>2, <1>3, <1>4, <1>6 DEF ArgsRead
<1>8. InArg(u, line) = Append(InArg(cur, line), t)
  BY <1>2, <1>3, <1>6 DEF InArg
<1>9. QED
  BY <1>2, <1>5, <1>6, <1>7, <1>8

\* A comma ends it.
LEMMA ArgEnds ==
  ASSUME NEW S, NEW cur \in Seq(S), NEW t \in S, NEW line, NEW params, ArgsRead(cur, line, params),
         t.tok = ",", IsArgument(InArg(cur, line))
  PROVE  /\ ArgsRead(Append(cur, t), line, Append(params, ParamOf(InArg(cur, line))))
         /\ InArg(Append(cur, t), line) = <<>>
<1>1. Begun(cur, line) /\ Begun(Append(cur, t), line)
  BY BegunMore DEF ArgsRead
<1>2. PICK p \in Nat \ {0} : p = ArgsAt(line) /\ p <= Len(cur) + 1
  BY <1>1, ArgsAtIs
<1>3. t.tok \in Commas
  BY DEF Commas
<1>4. PICK g : g = Given(cur, p)
  OBVIOUS
<1>5. PICK r : r = Pending(cur, p)
  OBVIOUS
<1>6. g \in Seq(Seq(S)) /\ r \in Seq(S) /\ r = InArg(cur, line)
  BY <1>2, <1>4, <1>5, GivenType DEF InArg
<1>7. PICK u : u = Append(cur, t)
  OBVIOUS
<1>8. Given(u, p) = Append(g, r) /\ Pending(u, p) = <<>>
  BY <1>2, <1>3, <1>4, <1>5, <1>7, GivenMore
<1>9. GivenParams(u, p) = Append(GivenParams(cur, p), ParamOf(r))
  BY <1>2, <1>3, <1>5, <1>7, ParamsMore
<1>10. \A k \in DOMAIN g : IsArgument(g[k])
  BY <1>2, <1>4 DEF ArgsRead
<1>11. \A k \in DOMAIN Append(g, r) : IsArgument(Append(g, r)[k])
  <2>1. \A k \in DOMAIN Append(g, r) : \/ k \in DOMAIN g /\ Append(g, r)[k] = g[k]
                                      \/ Append(g, r)[k] = r
    BY <1>6, OldOrNew, Zenon
  <2>2. IsArgument(r)
    BY <1>6
  <2>3. QED
    BY <1>10, <2>1, <2>2, Zenon
<1>12. params = GivenParams(cur, p)
  BY <1>2 DEF ArgsRead
<1>13. ArgsRead(u, line, Append(params, ParamOf(r)))
  BY <1>1, <1>2, <1>7, <1>8, <1>9, <1>11, <1>12, Zenon DEF ArgsRead
<1>14. InArg(u, line) = <<>>
  BY <1>2, <1>8 DEF InArg
<1>15. QED
  BY <1>6, <1>7, <1>13, <1>14

\* Only the beginning of the line counts for this, not its parameters.
LEMMA SameBeginning ==
  ASSUME NEW cur, NEW line, NEW more, line.kind = more.kind, line.name = more.name
  PROVE  /\ ArgsAt(more) = ArgsAt(line) /\ InArg(cur, more) = InArg(cur, line)
         /\ \A params : ArgsRead(cur, line, params) => ArgsRead(cur, more, params)
<1>1. ArgsAt(more) = ArgsAt(line)
  BY DEF ArgsAt
<1>2. InArg(cur, more) = InArg(cur, line)
  BY <1>1 DEF InArg
<1>3. Begun(cur, line) => Begun(cur, more)
  BY <1>1 DEF Begun
<1>4. QED
  BY <1>1, <1>2, <1>3 DEF ArgsRead

-----------------------------------------------------------------------------
(* Statements that have been read, and one more. *)

\* Where a macro begins or ends.
Turns(p, n) == {0} \union {i \in 1 .. n : Is(p[i], "head") \/ Is(p[i], "endm")}

\* The last place where one begins or ends decides.
LEMMA OpenHeadIs ==
  ASSUME NEW p, NEW n \in Nat
  PROVE  /\ Max(Turns(p, n)) \in 0 .. n
         /\ OpenHead(p, n) =
              IF Max(Turns(p, n)) > 0 /\ Is(p[Max(Turns(p, n))], "head") THEN Max(Turns(p, n)) ELSE 0
         /\ OpenHead(p, n) \in 0 .. n /\ (OpenHead(p, n) # 0 => Is(p[OpenHead(p, n)], "head"))
<1>1. Turns(p, n) \in SUBSET (0 .. n) /\ Turns(p, n) # {}
  BY DEF Turns
<1>2. PICK l \in 0 .. n : l = Max(Turns(p, n))
  BY <1>1, MaxOf
<1>3. OpenHead(p, n) = IF l > 0 /\ Is(p[l], "head") THEN l ELSE 0
  BY <1>2, Zenon DEF OpenHead, Turns
<1>4. QED
  BY <1>2, <1>3

\* It depends on these statements only.
LEMMA OpenHeadSame ==
  ASSUME NEW p, NEW q, NEW n \in Nat, Agree(p, q, n)
  PROVE  OpenHead(p, n) = OpenHead(q, n)
<1>1. Turns(p, n) = Turns(q, n)
  <2>1. {i \in 1 .. n : Is(p[i], "head") \/ Is(p[i], "endm")} =
        {i \in 1 .. n : Is(q[i], "head") \/ Is(q[i], "endm")}
    <3>1. \A i \in 1 .. n : Is(p[i], "head") \/ Is(p[i], "endm") <=> Is(q[i], "head") \/ Is(q[i], "endm")
      BY Zenon DEF Agree
    <3>2. QED
      BY <3>1, Zenon
  <2>2. QED
    BY <2>1 DEF Turns
<1>2. PICK l \in 0 .. n : l = Max(Turns(p, n)) /\ l = Max(Turns(q, n))
  <2>1. Max(Turns(p, n)) \in 0 .. n
    BY OpenHeadIs
  <2>2. QED
    BY <1>1, <2>1, Zenon
<1>3. /\ OpenHead(p, n) = IF l > 0 /\ Is(p[l], "head") THEN l ELSE 0
      /\ OpenHead(q, n) = IF l > 0 /\ Is(q[l], "head") THEN l ELSE 0
  BY <1>2, OpenHeadIs, Zenon
<1>4. l > 0 => p[l] = q[l]
  <2>1. l > 0 => l \in 1 .. n
    OBVIOUS
  <2>2. QED
    BY <2>1, Zenon DEF Agree
<1>5. CASE l > 0
  <2>1. p[l] = q[l]
    BY <1>4, <1>5
  <2>2. Is(p[l], "head") <=> Is(q[l], "head")
    BY <2>1
  <2>3. QED
    BY <1>3, <1>5, <2>2
<1>6. CASE ~ (l > 0)
  BY <1>3, <1>6, Zenon
<1>7. QED
  BY <1>5, <1>6

\* One statement more.
LEMMA OpenHeadNext ==
  ASSUME NEW p, NEW n \in Nat, NEW m \in Nat, Follows(m, n)
  PROVE  OpenHead(p, m) = IF Is(p[m], "head") THEN m
                          ELSE IF Is(p[m], "endm") THEN 0 ELSE OpenHead(p, n)
<1>1. m = n + 1
  BY DEF Follows
<1>2. CASE Is(p[m], "head") \/ Is(p[m], "endm")
  <2>1. Turns(p, m) \in SUBSET (0 .. m) /\ m \in Turns(p, m)
    BY <1>1, <1>2 DEF Turns
  <2>2. Max(Turns(p, m)) \in 0 .. m /\ m <= Max(Turns(p, m))
    <3>1. Turns(p, m) # {}
      BY <2>1
    <3>2. Max(Turns(p, m)) \in Turns(p, m) /\ \A x \in Turns(p, m) : x <= Max(Turns(p, m))
      BY <2>1, <3>1, MaxOf
    <3>3. QED
      BY <2>1, <3>2
  <2>3. Max(Turns(p, m)) = m /\ m > 0
    BY <1>1, <2>2
  <2>4. OpenHead(p, m) = IF m > 0 /\ Is(p[m], "head") THEN m ELSE 0
    BY <2>3, OpenHeadIs, Zenon
  <2>5. QED
    BY <1>2, <2>3, <2>4
<1>3. CASE ~ Is(p[m], "head") /\ ~ Is(p[m], "endm")
  <2>1. {i \in 1 .. m : Is(p[i], "head") \/ Is(p[i], "endm")} =
        {i \in 1 .. n : Is(p[i], "head") \/ Is(p[i], "endm")}
    <3>1. \A i : i \in 1 .. m <=> i \in 1 .. n \/ i = m
      BY <1>1
    <3>2. QED
      BY <1>3, <3>1, Zenon
  <2>2. Turns(p, m) = Turns(p, n)
    BY <2>1, Zenon DEF Turns
  <2>3. OpenHead(p, m) = OpenHead(p, n)
    BY <2>2, OpenHeadIs, Zenon
  <2>4. QED
    BY <1>3, <2>3
<1>4. QED
  BY <1>2, <1>3

\* The lines of some statements.
LinesAmong(P) == {x.line : x \in P}

\* A statement is a line of the macro that is open in front of it.
LEMMA LineAtIs ==
  ASSUME NEW p, NEW h, NEW n \in Nat, NEW m \in Nat, Follows(m, n)
  PROVE  LineAt(p, m, h) = IF Is(p[m], "line") /\ OpenHead(p, n) = h THEN <<p[m].line>> ELSE <<>>
<1>1. m - 1 = n
  BY DEF Follows
<1>2. QED
  BY <1>1 DEF LineAt

\* It depends on these statements only.
LEMMA LineAtSame ==
  ASSUME NEW p, NEW q, NEW h, NEW n \in Nat, Agree(p, q, n)
  PROVE  \A k \in 1 .. n : LineAt(p, k, h) = LineAt(q, k, h)
<1> SUFFICES ASSUME NEW k \in 1 .. n PROVE LineAt(p, k, h) = LineAt(q, k, h)
  OBVIOUS
<1>1. PICK j \in Nat : Follows(k, j) /\ k \in Nat /\ \A i \in 1 .. j : i \in 1 .. n
  <2>1. Follows(k, k - 1) /\ k - 1 \in Nat /\ \A i \in 1 .. k - 1 : i \in 1 .. n
    BY DEF Follows
  <2>2. QED
    BY <2>1
<1>2. OpenHead(p, j) = OpenHead(q, j)
  <2>1. Agree(p, q, j)
    BY <1>1 DEF Agree
  <2>2. QED
    BY <2>1, OpenHeadSame, Zenon
<1>3. p[k] = q[k]
  BY DEF Agree
<1>4. QED
  BY <1>1, <1>2, <1>3, LineAtIs

\* So do all the lines.
LEMMA LinesInSame ==
  ASSUME NEW p, NEW q, NEW h, NEW n \in Nat, Agree(p, q, n)
  PROVE  LinesIn(p, n, h) = LinesIn(q, n, h)
<1>1. \A k \in 1 .. n : LineAt(p, k, h) = LineAt(q, k, h)
  BY LineAtSame
<1>2. [k \in 1 .. n |-> LineAt(p, k, h)] = [k \in 1 .. n |-> LineAt(q, k, h)]
  BY <1>1
<1>3. QED
  BY <1>2 DEF LinesIn

\* The line of a statement, if any, is a list.
LEMMA LineAtType ==
  ASSUME NEW P, NEW p \in Seq(P), NEW h
  PROVE  \A k \in 1 .. Len(p) : LineAt(p, k, h) \in Seq(LinesAmong(P))
<1> SUFFICES ASSUME NEW k \in 1 .. Len(p) PROVE LineAt(p, k, h) \in Seq(LinesAmong(P))
  OBVIOUS
<1>1. PICK l : l = p[k].line
  OBVIOUS
<1>2. l \in LinesAmong(P)
  <2>1. p[k] \in P
    OBVIOUS
  <2>2. QED
    BY <1>1, <2>1 DEF LinesAmong
<1>3. <<l>> \in Seq(LinesAmong(P)) /\ <<>> \in Seq(LinesAmong(P))
  BY <1>2
<1>4. QED
  BY <1>1, <1>3 DEF LineAt

\* One statement more may be one line more.
LEMMA LinesInNext ==
  ASSUME NEW P, NEW p \in Seq(P), NEW h, NEW n \in Nat, NEW m \in 1 .. Len(p), Follows(m, n)
  PROVE  /\ LinesIn(p, n, h) \in Seq(LinesAmong(P))
         /\ LinesIn(p, m, h) = Join(LinesIn(p, n, h), LineAt(p, m, h))
<1> DEFINE few  == [k \in 1 .. n |-> LineAt(p, k, h)]
           more == [k \in 1 .. m |-> LineAt(p, k, h)]
<1>1. \A k \in 1 .. Len(p) : LineAt(p, k, h) \in Seq(LinesAmong(P))
  BY LineAtType
<1>2. m \in Nat /\ m = n + 1 /\ (\A k \in 1 .. m : k \in 1 .. Len(p)) /\ \A k \in 1 .. n : k \in 1 .. m
  BY DEF Follows
<1>3. /\ few \in [1 .. n -> Seq(LinesAmong(P))] /\ more \in [1 .. m -> Seq(LinesAmong(P))]
      /\ Agree(few, more, n) /\ more[m] = LineAt(p, m, h)
  BY <1>1, <1>2 DEF Agree
<1>4. LinesIn(p, n, h) = FlattenSeq(few) /\ LinesIn(p, m, h) = FlattenSeq(more)
  BY DEF LinesIn
<1> HIDE DEF few, more
<1>5. Extends(LinesAmong(P), more, few, m, n)
  BY <1>3 DEF Extends
<1>6. FlattenSeq(more) = Join(FlattenSeq(few), more[m])
  BY <1>2, <1>5, FlattenMore
<1>7. FlattenSeq(few) \in Seq(LinesAmong(P))
  BY <1>3, FlattenType
<1>8. QED
  BY <1>3, <1>4, <1>6, <1>7

\* Where no macro can be open there are no lines of it.
LEMMA LinesNone ==
  ASSUME NEW P, NEW p \in Seq(P), NEW h \in Nat, h > Len(p)
  PROVE  LinesIn(p, Len(p), h) = <<>>
<1>1. PICK n \in Nat : n = Len(p) /\ n < h
  OBVIOUS
<1> DEFINE T == {k \in 0 .. n : LinesIn(p, k, h) = <<>>}
<1>2. 0 \in T /\ T \in SUBSET (0 .. n)
  <2>1. [k \in 1 .. 0 |-> LineAt(p, k, h)] = <<>>
    OBVIOUS
  <2>2. LinesIn(p, 0, h) = <<>>
    BY <2>1, FlattenNone DEF LinesIn
  <2>3. QED
    BY <2>2
<1>3. ASSUME NEW k \in 0 .. n, k \in T, k < n PROVE k + 1 \in T
  <2>1. PICK m \in 1 .. Len(p) : m = k + 1 /\ Follows(m, k)
    <3>1. k + 1 \in 1 .. Len(p) /\ Follows(k + 1, k)
      BY <1>1, <1>3 DEF Follows
    <3>2. QED
      BY <3>1
  <2>2. OpenHead(p, k) # h
    BY <1>1, <1>3, OpenHeadIs
  <2>3. m \in Nat /\ k \in Nat
    OBVIOUS
  <2>4. LineAt(p, m, h) = <<>>
    BY <2>1, <2>2, <2>3, LineAtIs
  <2>5. LinesIn(p, m, h) = Join(LinesIn(p, k, h), LineAt(p, m, h))
    BY <2>1, <2>3, LinesInNext
  <2>6. LinesIn(p, k, h) = <<>>
    BY <1>3
  <2>7. Join(<<>>, <<>>) = <<>>
    BY DEF Join
  <2>8. LinesIn(p, m, h) = <<>>
    BY <2>4, <2>5, <2>6, <2>7
  <2>9. QED
    BY <1>1, <2>1, <2>8
<1>4. T = 0 .. n
  <2> HIDE DEF T
  <2>1. QED
    BY <1>2, <1>3, Upward
<1>5. n \in T
  <2> HIDE DEF T
  <2>1. QED
    BY <1>4
<1>6. QED
  BY <1>1, <1>5

\* The macro that a statement ends.
LEMMA MacroEndingIs ==
  ASSUME NEW p, NEW n \in Nat, NEW m \in Nat, Follows(m, n)
  PROVE  MacroEnding(p, m) =
           IF Is(p[m], "endm") /\ OpenHead(p, n) # 0 THEN <<Made(p, n, OpenHead(p, n))>> ELSE <<>>
<1>1. m - 1 = n
  BY DEF Follows
<1>2. QED
  BY <1>1 DEF MacroEnding, Made

\* What is made of a macro depends on these statements only.
LEMMA MadeSame ==
  ASSUME NEW p, NEW q, NEW n \in Nat, NEW h \in 1 .. n, Agree(p, q, n)
  PROVE  Made(p, n, h) = Made(q, n, h)
<1>1. p[h] = q[h]
  BY DEF Agree
<1>2. LinesIn(p, n, h) = LinesIn(q, n, h)
  BY LinesInSame
<1>3. QED
  BY <1>1, <1>2 DEF Made

\* In front of a statement fewer statements agree.
LEMMA AgreeBefore ==
  ASSUME NEW p, NEW q, NEW n \in Nat, NEW k \in 1 .. n, Agree(p, q, n)
  PROVE  \E j \in Nat : Follows(k, j) /\ j <= n /\ k - 1 = j /\ Agree(p, q, j) /\ p[k] = q[k]
<1>1. Follows(k, k - 1) /\ k - 1 \in Nat /\ k - 1 <= n /\ \A i \in 1 .. k - 1 : i \in 1 .. n
  BY DEF Follows
<1>2. Agree(p, q, k - 1) /\ p[k] = q[k]
  BY <1>1 DEF Agree
<1>3. QED
  BY <1>1, <1>2

\* So does which one a statement ends.
LEMMA MacrosInSame ==
  ASSUME NEW p, NEW q, NEW n \in Nat, Agree(p, q, n)
  PROVE  MacrosIn(p, n) = MacrosIn(q, n)
<1>1. ASSUME NEW k \in 1 .. n PROVE MacroEnding(p, k) = MacroEnding(q, k)
  <2>1. PICK j \in Nat : Follows(k, j) /\ Agree(p, q, j) /\ p[k] = q[k]
    BY AgreeBefore
  <2>2. k \in Nat
    OBVIOUS
  <2>3. PICK h : h = OpenHead(p, j)
    OBVIOUS
  <2>4. h = OpenHead(q, j) /\ h \in 0 .. j
    BY <2>1, <2>3, OpenHeadSame, OpenHeadIs
  <2>5. h # 0 => Made(p, j, h) = Made(q, j, h)
    <3> SUFFICES ASSUME h # 0 PROVE Made(p, j, h) = Made(q, j, h)
      OBVIOUS
    <3>1. h \in 1 .. j
      BY <2>4
    <3>2. QED
      BY <2>1, <3>1, MadeSame
  <2>6. /\ MacroEnding(p, k) = IF Is(p[k], "endm") /\ h # 0 THEN <<Made(p, j, h)>> ELSE <<>>
        /\ MacroEnding(q, k) = IF Is(q[k], "endm") /\ h # 0 THEN <<Made(q, j, h)>> ELSE <<>>
    BY <2>1, <2>2, <2>3, <2>4, MacroEndingIs
  <2>7. QED
    BY <2>1, <2>5, <2>6
<1>2. [k \in 1 .. n |-> MacroEnding(p, k)] = [k \in 1 .. n |-> MacroEnding(q, k)]
  BY <1>1
<1>3. QED
  BY <1>2 DEF MacrosIn

\* So does whether a statement is where it may be.
LEMMA FittingSame ==
  ASSUME NEW p, NEW q, NEW n \in Nat, NEW k \in 1 .. n, Agree(p, q, n)
  PROVE  Fitting(p, k) <=> Fitting(q, k)
<1>1. PICK j \in Nat : k - 1 = j /\ Agree(p, q, j) /\ p[k] = q[k]
  BY AgreeBefore
<1>2. PICK h : h = OpenHead(p, j) /\ h = OpenHead(q, j)
  BY <1>1, OpenHeadSame
<1>3. LinesIn(p, j, h) = LinesIn(q, j, h)
  BY <1>1, LinesInSame
<1>4. /\ Is(p[k], "bad") <=> Is(q[k], "bad")
      /\ Is(p[k], "head") <=> Is(q[k], "head")
      /\ Is(p[k], "label") <=> Is(q[k], "label")
      /\ Is(p[k], "endm") <=> Is(q[k], "endm")
  BY <1>1
<1>5. QED
  BY <1>1, <1>2, <1>3, <1>4 DEF Fitting

\* The macros that some statements make.
MacrosAmong(p) == {Made(p, n, OpenHead(p, n)) : n \in 0 .. Len(p)}

\* One statement more may be one macro more.
LEMMA MacrosInNext ==
  ASSUME NEW P, NEW p \in Seq(P), NEW n \in Nat, NEW m \in 1 .. Len(p), Follows(m, n)
  PROVE  /\ MacrosIn(p, n) \in Seq(MacrosAmong(p))
         /\ MacrosIn(p, m) = Join(MacrosIn(p, n), MacroEnding(p, m))
<1> DEFINE few  == [k \in 1 .. n |-> MacroEnding(p, k)]
           more == [k \in 1 .. m |-> MacroEnding(p, k)]
<1>1. ASSUME NEW k \in 1 .. Len(p) PROVE MacroEnding(p, k) \in Seq(MacrosAmong(p))
  <2>1. PICK j \in Nat : Follows(k, j) /\ j \in 0 .. Len(p)
    <3>1. Follows(k, k - 1) /\ k - 1 \in Nat /\ k - 1 \in 0 .. Len(p)
      BY DEF Follows
    <3>2. QED
      BY <3>1
  <2>2. PICK y : y = Made(p, j, OpenHead(p, j))
    OBVIOUS
  <2>3. y \in MacrosAmong(p)
    BY <2>1, <2>2, Zenon DEF MacrosAmong
  <2>4. <<y>> \in Seq(MacrosAmong(p)) /\ <<>> \in Seq(MacrosAmong(p))
    BY <2>3
  <2>5. k \in Nat
    OBVIOUS
  <2>6. QED
    BY <2>1, <2>2, <2>4, <2>5, MacroEndingIs
<1>2. m \in Nat /\ m = n + 1 /\ (\A k \in 1 .. m : k \in 1 .. Len(p)) /\ \A k \in 1 .. n : k \in 1 .. m
  BY DEF Follows
<1>3. /\ few \in [1 .. n -> Seq(MacrosAmong(p))] /\ more \in [1 .. m -> Seq(MacrosAmong(p))]
      /\ Agree(few, more, n) /\ more[m] = MacroEnding(p, m)
  BY <1>1, <1>2 DEF Agree
<1>4. MacrosIn(p, n) = FlattenSeq(few) /\ MacrosIn(p, m) = FlattenSeq(more)
  BY DEF MacrosIn
<1> HIDE DEF few, more
<1>5. Extends(MacrosAmong(p), more, few, m, n)
  BY <1>3 DEF Extends
<1>6. FlattenSeq(more) = Join(FlattenSeq(few), more[m])
  BY <1>2, <1>5, FlattenMore
<1>7. FlattenSeq(few) \in Seq(MacrosAmong(p))
  BY <1>3, FlattenType
<1>8. QED
  BY <1>3, <1>4, <1>6, <1>7

\* One statement more than there were.
Longer(P, q, p, x, m, n) == p \in Seq(P) /\ x \in P /\ q = Append(p, x) /\ n = Len(p) /\ Follows(m, n)

\* It is behind them.
LEMMA LongerIs ==
  ASSUME NEW P, NEW q, NEW p, NEW x, NEW m, NEW n, Longer(P, q, p, x, m, n)
  PROVE  /\ n \in Nat /\ m \in Nat /\ Follows(m, n) /\ m \in 1 .. Len(q) /\ m = n + 1
         /\ q \in Seq(P) /\ Len(q) = m /\ q[m] = x /\ Agree(p, q, n) /\ Len(p) = n
<1>1. n \in Nat /\ m \in Nat /\ m = n + 1 /\ n = Len(p) /\ p \in Seq(P) /\ x \in P /\ q = Append(p, x)
  BY DEF Longer, Follows
<1>2. q \in Seq(P) /\ Len(q) = m /\ q[m] = x
  BY <1>1
<1>3. Agree(p, q, n)
  BY <1>1 DEF Agree
<1>4. QED
  BY <1>1, <1>2, <1>3 DEF Longer

\* What it is to the macros and lines.
LEMMA StatementAdded ==
  ASSUME NEW P, NEW q, NEW p, NEW x, NEW m, NEW n, Longer(P, q, p, x, m, n)
  PROVE  /\ OpenHead(q, m) = IF Is(x, "head") THEN m ELSE IF Is(x, "endm") THEN 0 ELSE OpenHead(p, n)
         /\ \A h : LinesIn(q, m, h) = IF Is(x, "line") /\ OpenHead(p, n) = h
                                      THEN Append(LinesIn(p, n, h), x.line) ELSE LinesIn(p, n, h)
         /\ MacrosIn(q, m) = IF Is(x, "endm") /\ OpenHead(p, n) # 0
                             THEN Append(MacrosIn(p, n), Made(p, n, OpenHead(p, n))) ELSE MacrosIn(p, n)
<1>1. /\ n \in Nat /\ m \in Nat /\ Follows(m, n) /\ m \in 1 .. Len(q)
      /\ q \in Seq(P) /\ q[m] = x /\ Agree(p, q, n)
  BY LongerIs
<1>2. OpenHead(q, n) = OpenHead(p, n) /\ OpenHead(p, n) \in 0 .. n
  BY <1>1, OpenHeadSame, OpenHeadIs
<1>3. OpenHead(q, m) = IF Is(x, "head") THEN m ELSE IF Is(x, "endm") THEN 0 ELSE OpenHead(p, n)
  BY <1>1, <1>2, OpenHeadNext
<1>4. ASSUME NEW h
      PROVE  LinesIn(q, m, h) = IF Is(x, "line") /\ OpenHead(p, n) = h
                                THEN Append(LinesIn(p, n, h), x.line) ELSE LinesIn(p, n, h)
  <2>1. PICK r : r = LinesIn(p, n, h)
    OBVIOUS
  <2>2. r = LinesIn(q, n, h)
    BY <1>1, <2>1, LinesInSame
  <2>3. r \in Seq(LinesAmong(P)) /\ LinesIn(q, m, h) = Join(r, LineAt(q, m, h))
    BY <1>1, <2>2, LinesInNext
  <2>4. LineAt(q, m, h) = IF Is(x, "line") /\ OpenHead(p, n) = h THEN <<x.line>> ELSE <<>>
    BY <1>1, <1>2, LineAtIs
  <2>5. PICK l : l = x.line
    OBVIOUS
  <2>6. l \in LinesAmong(P)
    BY <2>5 DEF LinesAmong, Longer
  <2>7. Join(r, <<l>>) = Append(r, l) /\ Join(r, <<>>) = r
    BY <2>3, <2>6 DEF Join
  <2>8. QED
    BY <2>1, <2>3, <2>4, <2>5, <2>7
<1>5. MacrosIn(q, m) = IF Is(x, "endm") /\ OpenHead(p, n) # 0
                       THEN Append(MacrosIn(p, n), Made(p, n, OpenHead(p, n))) ELSE MacrosIn(p, n)
  <2>1. PICK r : r = MacrosIn(p, n)
    OBVIOUS
  <2>2. r = MacrosIn(q, n)
    BY <1>1, <2>1, MacrosInSame
  <2>3. r \in Seq(MacrosAmong(q)) /\ MacrosIn(q, m) = Join(r, MacroEnding(q, m))
    BY <1>1, <2>2, MacrosInNext
  <2>4. PICK h : h = OpenHead(p, n)
    OBVIOUS
  <2>5. h # 0 => Made(q, n, h) = Made(p, n, h)
    <3> SUFFICES ASSUME h # 0 PROVE Made(q, n, h) = Made(p, n, h)
      OBVIOUS
    <3>1. h \in 1 .. n
      BY <1>1, <1>2, <2>4
    <3>2. QED
      BY <1>1, <3>1, MadeSame
  <2>6. MacroEnding(q, m) = IF Is(x, "endm") /\ h # 0 THEN <<Made(q, n, h)>> ELSE <<>>
    BY <1>1, <1>2, <2>4, MacroEndingIs
  <2>7. PICK y : y = Made(q, n, h)
    OBVIOUS
  <2>8. y \in MacrosAmong(q)
    <3>1. n \in 0 .. Len(q)
      BY <1>1 DEF Follows
    <3>2. QED
      BY <1>2, <2>4, <2>7, <3>1, Zenon DEF MacrosAmong
  <2>9. Join(r, <<y>>) = Append(r, y) /\ Join(r, <<>>) = r
    BY <2>3, <2>8 DEF Join
  <2>10. QED
    BY <2>1, <2>3, <2>4, <2>5, <2>6, <2>7, <2>9
<1>6. QED
  BY <1>3, <1>4, <1>5

\* It is where it may be, and so were the others.
LEMMA FittingAdded ==
  ASSUME NEW P, NEW q, NEW p, NEW x, NEW m, NEW n, Longer(P, q, p, x, m, n),
         \A k \in DOMAIN p : Fitting(p, k), NEW h, h = OpenHead(p, n),
         ~ Is(x, "bad"), Is(x, "head") \/ Is(x, "label") => h = 0,
         Is(x, "endm") => h # 0 /\ LinesIn(p, n, h) # <<>>
  PROVE  \A k \in DOMAIN q : Fitting(q, k)
<1>1. /\ n \in Nat /\ m \in Nat /\ Follows(m, n) /\ m = n + 1 /\ DOMAIN q = 1 .. m
      /\ q[m] = x /\ Agree(p, q, n) /\ m - 1 = n /\ DOMAIN p = 1 .. n
  <2>1. DOMAIN q = 1 .. Len(q)
    BY LongerIs
  <2>2. DOMAIN p = 1 .. Len(p) /\ Len(p) = n
    BY DEF Longer
  <2>3. QED
    BY <2>1, <2>2, LongerIs
<1>2. Fitting(q, m)
  <2>1. OpenHead(q, n) = h
    BY <1>1, OpenHeadSame
  <2>2. LinesIn(q, n, h) = LinesIn(p, n, h)
    BY <1>1, LinesInSame
  <2>3. QED
    BY <1>1, <2>1, <2>2 DEF Fitting
<1>3. ASSUME NEW k \in 1 .. n PROVE Fitting(q, k)
  <2>1. Fitting(p, k)
    BY <1>1
  <2>2. QED
    BY <1>1, <2>1, FittingSame
<1>4. \A k \in 1 .. m : k = m \/ k \in 1 .. n
  BY <1>1
<1>5. QED
  BY <1>1, <1>2, <1>3, <1>4

-----------------------------------------------------------------------------
(* The statements of a text. *)

StatementsOver(S) == {StatementOf(x) : x \in Seq(S)}

\* They are a list.
LEMMA StatementsType ==
  ASSUME NEW S, NEW s \in Seq(S)
  PROVE  Statements(s) \in Seq(StatementsOver(S))
<1>1. PICK w : w = Ended(s, Enders)
  OBVIOUS
<1>2. w \in Seq(Seq(S))
  BY <1>1, EndedType
<1>3. PICK n \in Nat : DOMAIN w = 1 .. n /\ \A k \in 1 .. n : w[k] \in Seq(S)
  BY <1>2
<1>4. \A x \in Seq(S) : StatementOf(x) \in StatementsOver(S)
  BY DEF StatementsOver
<1>5. [k \in DOMAIN w |-> StatementOf(w[k])] \in [1 .. n -> StatementsOver(S)]
  BY <1>3, <1>4
<1>6. QED
  BY <1>1, <1>5, IsList DEF Statements

\* A newline or a colon ends a statement, any other token joins it.
LEMMA StatementsMore ==
  ASSUME NEW S, NEW s \in Seq(S), NEW t \in S
  PROVE  Statements(Append(s, t)) =
           IF t.tok \in Enders THEN Append(Statements(s), StatementOf(Append(Unended(s, Enders), t)))
           ELSE Statements(s)
<1>1. PICK w : w = Ended(s, Enders)
  OBVIOUS
<1>2. PICK v : v = Ended(Append(s, t), Enders)
  OBVIOUS
<1>3. PICK r : r = Append(Unended(s, Enders), t)
  OBVIOUS
<1>4. w \in Seq(Seq(S)) /\ r \in Seq(S)
  <2>1. PICK c \in Seq(S) : c = Unended(s, Enders)
    BY UnendedType
  <2>2. Append(c, t) \in Seq(S)
    OBVIOUS
  <2>3. QED
    BY <1>1, <1>3, <2>1, <2>2, EndedType
<1>5. v = IF t.tok \in Enders THEN Append(w, r) ELSE w
  BY <1>1, <1>2, <1>3, EndedMore
<1>6. Statements(s) = [k \in DOMAIN w |-> StatementOf(w[k])]
      /\ Statements(Append(s, t)) = [k \in DOMAIN v |-> StatementOf(v[k])]
  BY <1>1, <1>2 DEF Statements
<1>7. [k \in DOMAIN Append(w, r) |-> StatementOf(Append(w, r)[k])]
        = Append([k \in DOMAIN w |-> StatementOf(w[k])], StatementOf(r))
  <2>1. PICK X : X = StatementsOver(S)
    OBVIOUS
  <2>2. \A x \in Seq(S) : StatementOf(x) \in X
    BY <2>1 DEF StatementsOver
  <2>3. PICK h2 : h2 \in Seq(Seq(S)) /\ h2 = Append(w, r)
    <3>1. Append(w, r) \in Seq(Seq(S))
      BY <1>4
    <3>2. QED
      BY <3>1, Zenon
  <2>4. PICK n \in Nat : n = Len(w) /\ DOMAIN w = 1 .. n /\ \A k \in 1 .. n : w[k] \in Seq(S)
    BY <1>4
  <2>5. PICK m \in Nat : m = n + 1
    OBVIOUS
  <2>6. DOMAIN h2 = 1 .. m /\ h2[m] = r /\ \A k \in 1 .. n : h2[k] = w[k]
    BY <1>4, <2>3, <2>4, <2>5
  <2>7. PICK q \in [1 .. n -> X] : q = [k \in DOMAIN w |-> StatementOf(w[k])]
    BY <2>2, <2>4
  <2>8. PICK o \in [1 .. m -> X] : o = [k \in DOMAIN h2 |-> StatementOf(h2[k])]
    <3>1. \A k \in 1 .. m : h2[k] \in Seq(S)
      BY <2>3, <2>6
    <3>2. QED
      BY <2>2, <2>6, <3>1
  <2>9. /\ q \in Seq(X) /\ Len(q) = n /\ \A k \in 1 .. n : q[k] = StatementOf(w[k])
        /\ o \in Seq(X) /\ Len(o) = m /\ \A k \in 1 .. m : o[k] = StatementOf(h2[k])
    BY <2>4, <2>6, <2>7, <2>8, IsList
  <2>10. PICK x \in X : x = StatementOf(r)
    BY <1>4, <2>2
  <2>11. Append(q, x) \in Seq(X) /\ Len(Append(q, x)) = m /\ Append(q, x)[m] = x
         /\ \A k \in 1 .. n : Append(q, x)[k] = q[k]
    BY <2>5, <2>9
  <2>12. \A k \in 1 .. m : o[k] = Append(q, x)[k]
    <3> SUFFICES ASSUME NEW k \in 1 .. m PROVE o[k] = Append(q, x)[k]
      OBVIOUS
    <3>1. CASE k = m
      BY <2>6, <2>9, <2>10, <2>11, <3>1, Zenon
    <3>2. CASE k \in 1 .. n
      BY <2>6, <2>9, <2>11, <3>2, Zenon
    <3>3. k = m \/ k \in 1 .. n
      BY <2>5
    <3>4. QED
      BY <3>1, <3>2, <3>3
  <2>13. o = Append(q, x)
    BY <2>9, <2>11, <2>12, SameList
  <2>14. QED
    BY <2>3, <2>7, <2>8, <2>10, <2>13, Zenon
<1>8. QED
  BY <1>3, <1>5, <1>6, <1>7

\* A text with a statement more.
LEMMA StatementMore ==
  ASSUME NEW S, NEW s \in Seq(S), NEW t \in S, t.tok \in Enders,
         NEW x, x = StatementOf(Append(Unended(s, Enders), t))
  PROVE  Longer(StatementsOver(S), Statements(Append(s, t)), Statements(s), x,
                Len(Statements(s)) + 1, Len(Statements(s)))
<1>1. PICK p : p = Statements(s)
  OBVIOUS
<1>2. p \in Seq(StatementsOver(S))
  BY <1>1, StatementsType
<1>3. Statements(Append(s, t)) = Append(p, x)
  BY <1>1, StatementsMore
<1>4. x \in StatementsOver(S)
  <2>1. PICK c \in Seq(S) : c = Unended(s, Enders)
    BY UnendedType
  <2>2. Append(c, t) \in Seq(S)
    OBVIOUS
  <2>3. QED
    BY <2>1, <2>2 DEF StatementsOver
<1>5. Len(p) \in Nat /\ Len(p) + 1 \in Nat
  BY <1>2
<1>6. QED
  BY <1>1, <1>2, <1>3, <1>4, <1>5 DEF Longer, Follows

\* The values of a function at the elements of a longer list.
LEMMA MapMore ==
  ASSUME NEW X, NEW F, NEW f \in Seq(X), NEW x \in X
  PROVE  [k \in DOMAIN Append(f, x) |-> F[Append(f, x)[k]]] = Append([k \in DOMAIN f |-> F[f[k]]], F[x])
<1>1. PICK Y : \A y \in X : F[y] \in Y
  <2>1. \A y \in X : F[y] \in {F[z] : z \in X}
    OBVIOUS
  <2>2. QED
    BY <2>1, Zenon
<1>2. PICK h : h \in Seq(X) /\ h = Append(f, x)
  <2>1. Append(f, x) \in Seq(X)
    OBVIOUS
  <2>2. QED
    BY <2>1, Zenon
<1>3. PICK n \in Nat : n = Len(f) /\ DOMAIN f = 1 .. n /\ \A k \in 1 .. n : f[k] \in X
  OBVIOUS
<1>4. PICK m \in Nat : m = n + 1
  OBVIOUS
<1>5. DOMAIN h = 1 .. m /\ h[m] = x /\ \A k \in 1 .. n : h[k] = f[k]
  BY <1>2, <1>3, <1>4
<1>6. PICK q \in [1 .. n -> Y] : q = [k \in DOMAIN f |-> F[f[k]]]
  BY <1>1, <1>3
<1>7. PICK o \in [1 .. m -> Y] : o = [k \in DOMAIN h |-> F[h[k]]]
  <2>1. \A k \in 1 .. m : h[k] \in X
    BY <1>2, <1>5
  <2>2. QED
    BY <1>1, <1>5, <2>1
<1>8. /\ q \in Seq(Y) /\ Len(q) = n /\ \A k \in 1 .. n : q[k] = F[f[k]]
      /\ o \in Seq(Y) /\ Len(o) = m /\ \A k \in 1 .. m : o[k] = F[h[k]]
  BY <1>3, <1>5, <1>6, <1>7, IsList
<1>9. PICK y \in Y : y = F[x]
  BY <1>1
<1>10. Append(q, y) \in Seq(Y) /\ Len(Append(q, y)) = m /\ Append(q, y)[m] = y
       /\ \A k \in 1 .. n : Append(q, y)[k] = q[k]
  BY <1>4, <1>8
<1>11. \A k \in 1 .. m : o[k] = Append(q, y)[k]
  <2> SUFFICES ASSUME NEW k \in 1 .. m PROVE o[k] = Append(q, y)[k]
    OBVIOUS
  <2>1. CASE k = m
    BY <1>5, <1>8, <1>9, <1>10, <2>1, Zenon
  <2>2. CASE k \in 1 .. n
    BY <1>5, <1>8, <1>10, <2>2
  <2>3. k = m \/ k \in 1 .. n
    BY <1>4
  <2>4. QED
    BY <2>1, <2>2, <2>3
<1>12. o = Append(q, y)
  BY <1>8, <1>10, <1>11, SameList
<1>13. QED
  BY <1>2, <1>6, <1>7, <1>9, <1>12, Zenon

-----------------------------------------------------------------------------
(* What a statement is. *)

\* The kinds of the tokens of a list.
LEMMA ToksOne ==
  ASSUME NEW S, NEW u \in Seq(S), NEW a
  PROVE  Toks(u) = One(a) <=> IsOne(u, a)
<1>1. DOMAIN Toks(u) = DOMAIN u /\ \A i \in DOMAIN u : Toks(u)[i] = u[i].tok
  BY DEF Toks
<1>2. ASSUME Toks(u) = <<a>> PROVE Len(u) = 1 /\ u[1].tok = a
  <2>1. DOMAIN u = 1 .. 1 /\ Toks(u)[1] = a
    BY <1>1, <1>2
  <2>2. QED
    BY <1>1, <2>1
<1>3. ASSUME Len(u) = 1, u[1].tok = a PROVE Toks(u) = <<a>>
  BY <1>3 DEF Toks
<1>4. QED
  BY <1>2, <1>3 DEF One, IsOne

\* So it is for two of them.
LEMMA ToksTwo ==
  ASSUME NEW S, NEW u \in Seq(S), NEW a, NEW b
  PROVE  Toks(u) = Two(a, b) <=> IsTwo(u, a, b)
<1>1. DOMAIN Toks(u) = DOMAIN u /\ \A i \in DOMAIN u : Toks(u)[i] = u[i].tok
  BY DEF Toks
<1>2. ASSUME Toks(u) = <<a, b>> PROVE Len(u) = 2 /\ u[1].tok = a /\ u[2].tok = b
  <2>1. DOMAIN u = 1 .. 2 /\ Toks(u)[1] = a /\ Toks(u)[2] = b
    BY <1>1, <1>2
  <2>2. QED
    BY <1>1, <2>1
<1>3. ASSUME Len(u) = 2, u[1].tok = a, u[2].tok = b PROVE Toks(u) = <<a, b>>
  BY <1>3 DEF Toks
<1>4. QED
  BY <1>2, <1>3 DEF Two, IsTwo

\* How a statement of each kind begins and ends.
LEMMA StatementEnds ==
  ASSUME NEW S, NEW u \in Seq(S)
  PROVE  /\ Toks(u) = One("newline") => u[1].tok = "newline"
         /\ Toks(u) = Two("name", ":") => u[1].tok = "name" /\ u[Len(u)].tok = ":"
         /\ Toks(u) = Two(".endm", "newline") => u[1].tok = ".endm"
         /\ IsHead(u) => u[1].tok = ".macro"
         /\ IsDirective(u) => u[1].tok = "."
         /\ IsInstruction(u) => u[1].tok = "name" /\ u[Len(u)].tok = "newline"
<1>1. /\ Toks(u) = One("newline") <=> IsOne(u, "newline")
      /\ Toks(u) = Two("name", ":") <=> IsTwo(u, "name", ":")
      /\ Toks(u) = Two(".endm", "newline") <=> IsTwo(u, ".endm", "newline")
  BY ToksOne, ToksTwo
<1>2. ASSUME NEW a, NEW b, Starts(u, <<a, b>>) PROVE u[1].tok = a
  <2>1. 1 \in DOMAIN <<a, b>> /\ <<a, b>>[1] = a
    OBVIOUS
  <2>2. QED
    BY <1>2, <2>1 DEF Starts
<1>3. ASSUME NEW a, Starts(u, <<a>>) PROVE u[1].tok = a /\ u[Len(u)].tok = "newline"
  <2>1. 1 \in DOMAIN <<a>> /\ <<a>>[1] = a
    OBVIOUS
  <2>2. QED
    BY <1>3, <2>1 DEF Starts
<1>4. IsHead(u) => u[1].tok = ".macro"
  BY <1>2 DEF IsHead
<1>5. IsDirective(u) => u[1].tok = "."
  BY <1>2 DEF IsDirective
<1>6. IsInstruction(u) => u[1].tok = "name" /\ u[Len(u)].tok = "newline"
  BY <1>3 DEF IsInstruction
<1>7. /\ Toks(u) = One("newline") => u[1].tok = "newline"
      /\ Toks(u) = Two("name", ":") => u[1].tok = "name" /\ u[Len(u)].tok = ":"
      /\ Toks(u) = Two(".endm", "newline") => u[1].tok = ".endm"
  BY <1>1 DEF IsOne, IsTwo
<1>8. QED
  BY <1>4, <1>5, <1>6, <1>7

\* No statement is of two kinds.
LEMMA StatementIs ==
  ASSUME NEW S, NEW u \in Seq(S)
  PROVE  /\ Toks(u) = One("newline") => StatementOf(u) = [blank |-> TRUE]
         /\ Toks(u) = Two("name", ":") => StatementOf(u) = [label |-> TRUE, line |-> Lbl(u[1].name)]
         /\ Toks(u) = Two(".endm", "newline") => StatementOf(u) = [endm |-> TRUE]
         /\ IsHead(u) => StatementOf(u) = [head |-> HeadOf(u)]
         /\ IsDirective(u) => StatementOf(u) = [line |-> Dir(u[2].name, ParamsOf(u, 3))]
         /\ IsInstruction(u) => StatementOf(u) = [line |-> Insn(u[1].name, ParamsOf(u, 2))]
<1>1. StatementOf(u) =
        CASE Toks(u) = One("newline")          -> [blank |-> TRUE]
          [] Toks(u) = Two("name", ":")        -> [label |-> TRUE, line |-> Lbl(u[1].name)]
          [] Toks(u) = Two(".endm", "newline") -> [endm |-> TRUE]
          [] IsHead(u)        -> [head |-> HeadOf(u)]
          [] IsDirective(u)   -> [line |-> Dir(u[2].name, ParamsOf(u, 3))]
          [] IsInstruction(u) -> [line |-> Insn(u[1].name, ParamsOf(u, 2))]
          [] OTHER            -> [bad |-> TRUE]
  BY Zenon DEF StatementOf, One, Two
<1>2. QED
  BY <1>1, StatementEnds

\* A token behind one other.
LEMMA PutBehindOne ==
  ASSUME NEW S, NEW cur \in Seq(S), NEW t \in S, NEW a, IsOne(cur, a)
  PROVE  /\ Append(cur, t) \in Seq(S) /\ IsTwo(Append(cur, t), a, t.tok)
         /\ Append(cur, t)[1] = cur[1]
<1>1. PICK u : u = Append(cur, t)
  OBVIOUS
<1>2. /\ u \in Seq(S) /\ Len(u) = Len(cur) + 1 /\ u[Len(cur) + 1] = t
      /\ \A k \in 1 .. Len(cur) : u[k] = cur[k]
  BY <1>1
<1>3. u[1] = cur[1] /\ u[2] = t /\ Len(u) = 2
  BY <1>2 DEF IsOne
<1>4. QED
  BY <1>1, <1>2, <1>3 DEF IsOne, IsTwo

\* A newline alone.
LEMMA BlankEnds ==
  ASSUME NEW S, NEW t \in S, t.tok = "newline"
  PROVE  StatementOf(Append(<<>>, t)) = [blank |-> TRUE]
<1>1. Append(<<>>, t) \in Seq(S) /\ IsOne(Append(<<>>, t), "newline")
  BY DEF IsOne
<1>2. QED
  BY <1>1, ToksOne, StatementIs

\* A label.
LEMMA LabelEnds ==
  ASSUME NEW S, NEW cur \in Seq(S), NEW t \in S, t.tok = ":", IsOne(cur, "name")
  PROVE  StatementOf(Append(cur, t)) = [label |-> TRUE, line |-> Lbl(cur[1].name)]
<1>1. PICK u : u = Append(cur, t)
  OBVIOUS
<1>2. u \in Seq(S) /\ IsTwo(u, "name", ":") /\ u[1] = cur[1]
  BY <1>1, PutBehindOne
<1>3. StatementOf(u) = [label |-> TRUE, line |-> Lbl(u[1].name)]
  BY <1>2, ToksTwo, StatementIs
<1>4. QED
  BY <1>1, <1>2, <1>3

\* The end of a macro.
LEMMA EndmEnds ==
  ASSUME NEW S, NEW cur \in Seq(S), NEW t \in S, t.tok = "newline", IsOne(cur, ".endm")
  PROVE  StatementOf(Append(cur, t)) = [endm |-> TRUE]
<1>1. PICK u : u = Append(cur, t)
  OBVIOUS
<1>2. u \in Seq(S) /\ IsTwo(u, ".endm", "newline")
  BY <1>1, PutBehindOne
<1>3. QED
  BY <1>1, <1>2, ToksTwo, StatementIs

\* The last argument is ended by the newline, if there is one.
LEMMA ArgumentsEnd ==
  ASSUME NEW S, NEW cur \in Seq(S), NEW t \in S, t.tok = "newline", NEW p \in Nat \ {0}, p <= Len(cur) + 1
  PROVE  /\ ArgumentsOf(Append(cur, t), p) =
              IF Len(cur) = p - 1 THEN <<>> ELSE Append(Given(cur, p), Pending(cur, p))
         /\ ParamsOf(Append(cur, t), p) =
              IF Len(cur) = p - 1 THEN <<>> ELSE Append(GivenParams(cur, p), ParamOf(Pending(cur, p)))
<1>1. PICK u : u = Append(cur, t)
  OBVIOUS
<1>2. PICK a : a = ArgumentsOf(u, p)
  OBVIOUS
<1>3. a = IF Len(u) = p THEN <<>> ELSE Given(u, p)
  BY <1>2 DEF ArgumentsOf, Given, Whole, From, Commas
<1>4. Len(u) = p <=> Len(cur) = p - 1
  BY <1>1
<1>5. PICK g : g = Given(u, p)
  OBVIOUS
<1>6. t.tok \in Commas
  BY DEF Commas
<1>7. g = Append(Given(cur, p), Pending(cur, p))
  BY <1>1, <1>5, <1>6, GivenMore
<1>8. ParamsOf(u, p) = [k \in DOMAIN a |-> ParamOf(a[k])]
  BY <1>2 DEF ParamsOf
<1>9. CASE Len(cur) = p - 1
  <2>1. a = <<>>
    BY <1>3, <1>4, <1>9
  <2>2. [k \in DOMAIN a |-> ParamOf(a[k])] = <<>>
    BY <2>1
  <2>3. QED
    BY <1>1, <1>2, <1>8, <1>9, <2>1, <2>2
<1>10. CASE Len(cur) # p - 1
  <2>1. a = g
    BY <1>3, <1>4, <1>5, <1>10
  <2>2. ParamsOf(u, p) = GivenParams(u, p)
    BY <1>5, <1>8, <2>1 DEF GivenParams
  <2>3. GivenParams(u, p) = Append(GivenParams(cur, p), ParamOf(Pending(cur, p)))
    BY <1>1, <1>6, ParamsMore
  <2>4. QED
    BY <1>1, <1>2, <1>7, <1>10, <2>1, <2>2, <2>3
<1>11. QED
  BY <1>9, <1>10

\* A line whose arguments are arguments.
LEMMA LineIs ==
  ASSUME NEW S, NEW cur \in Seq(S), NEW t \in S, t.tok = "newline", NEW line, Begun(cur, line),
         TakesArguments(Append(cur, t), ArgsAt(line))
  PROVE  StatementOf(Append(cur, t)) =
           [line |-> Line(line.kind, line.name, ParamsOf(Append(cur, t), ArgsAt(line)))]
<1>1. PICK u : u = Append(cur, t)
  OBVIOUS
<1>2. Begun(u, line)
  BY <1>1, BegunMore
<1>3. /\ u \in Seq(S) /\ Len(u) = Len(cur) + 1 /\ u[Len(u)] = t /\ Len(u) \in Nat
      /\ DOMAIN u = 1 .. Len(u)
  BY <1>1
<1>4. Len(u) > ArgsAt(line) - 1
  <2>1. ArgsAt(line) \in {2, 3}
    BY ArgsAtIs
  <2>2. Len(cur) >= ArgsAt(line) - 1
    BY DEF Begun
  <2>3. QED
    BY <1>3, <2>1, <2>2
<1>5. CASE line.kind = "directive"
  <2>1. ArgsAt(line) = 3
    BY <1>5 DEF ArgsAt
  <2>2. u[1].tok = "." /\ u[2].tok = "name" /\ line.name = u[2].name
    BY <1>2, <1>5 DEF Begun
  <2>3. Len(<<".", "name">>) = 2 /\ \A i \in DOMAIN <<".", "name">> : i \in {1, 2}
    OBVIOUS
  <2>4. \A i \in DOMAIN <<".", "name">> : u[i].tok = <<".", "name">>[i]
    BY <2>2, <2>3
  <2>5. Len(u) > 2
    BY <1>4, <2>1
  <2>6. Starts(u, <<".", "name">>)
    BY <1>3, <2>3, <2>4, <2>5 DEF Starts
  <2>7. IsDirective(u)
    BY <1>1, <2>1, <2>6 DEF IsDirective
  <2>8. StatementOf(u) = [line |-> Dir(u[2].name, ParamsOf(u, 3))]
    BY <1>3, <2>7, StatementIs
  <2>9. QED
    BY <1>1, <1>5, <2>1, <2>2, <2>8 DEF Dir
<1>6. CASE line.kind # "directive"
  <2>1. ArgsAt(line) = 2
    BY <1>6 DEF ArgsAt
  <2>2. /\ line.kind = "instruction" /\ u[1].tok = "name" /\ line.name = u[1].name
        /\ \A i \in DOMAIN u : u[i].tok # "string"
    BY <1>2, <1>6 DEF Begun
  <2>3. Len(<<"name">>) = 1 /\ \A i \in DOMAIN <<"name">> : i = 1 /\ <<"name">>[i] = "name"
    OBVIOUS
  <2>4. \A i \in DOMAIN <<"name">> : u[i].tok = <<"name">>[i]
    BY <2>2, <2>3
  <2>5. Len(u) > 1
    BY <1>4, <2>1
  <2>6. Starts(u, <<"name">>)
    BY <1>3, <2>3, <2>4, <2>5 DEF Starts
  <2>7. "string" \notin Range(Toks(u))
    <3>1. DOMAIN Toks(u) = DOMAIN u /\ \A i \in DOMAIN u : Toks(u)[i] = u[i].tok
      BY DEF Toks
    <3>2. QED
      BY <2>2, <3>1 DEF Range
  <2>8. IsInstruction(u)
    BY <1>1, <2>1, <2>6, <2>7 DEF IsInstruction
  <2>9. StatementOf(u) = [line |-> Insn(u[1].name, ParamsOf(u, 2))]
    BY <1>3, <2>8, StatementIs
  <2>10. QED
    BY <1>1, <2>1, <2>2, <2>9 DEF Insn
<1>7. QED
  BY <1>5, <1>6

\* A newline ends a line without arguments.
LEMMA LineEndsShort ==
  ASSUME NEW S, NEW cur \in Seq(S), NEW t \in S, t.tok = "newline", NEW line, NEW params,
         ArgsRead(cur, line, params), Len(cur) = ArgsAt(line) - 1
  PROVE  StatementOf(Append(cur, t)) = [line |-> Line(line.kind, line.name, params)]
<1>1. Begun(cur, line)
  BY DEF ArgsRead
<1>2. PICK p \in Nat \ {0} : p = ArgsAt(line) /\ p <= Len(cur) + 1 /\ p = Len(cur) + 1 /\ Len(cur) = p - 1
  <2>1. Len(cur) \in Nat
    OBVIOUS
  <2>2. QED
    BY <1>1, <2>1, ArgsAtIs
<1>3. ArgumentsOf(Append(cur, t), p) = <<>> /\ ParamsOf(Append(cur, t), p) = <<>>
  BY <1>2, ArgumentsEnd
<1>4. TakesArguments(Append(cur, t), p)
  BY <1>3 DEF TakesArguments
<1>5. params = <<>>
  BY <1>2, GivenNone DEF ArgsRead
<1>6. QED
  BY <1>1, <1>2, <1>3, <1>4, <1>5, LineIs

\* A newline ends the last argument and the line.
LEMMA LineEnds ==
  ASSUME NEW S, NEW cur \in Seq(S), NEW t \in S, t.tok = "newline", NEW line, NEW params,
         ArgsRead(cur, line, params), Len(cur) >= ArgsAt(line), IsArgument(InArg(cur, line))
  PROVE  StatementOf(Append(cur, t)) =
           [line |-> Line(line.kind, line.name, Append(params, ParamOf(InArg(cur, line))))]
<1>1. Begun(cur, line)
  BY DEF ArgsRead
<1>2. PICK p \in Nat \ {0} : p = ArgsAt(line) /\ p <= Len(cur) + 1 /\ Len(cur) # p - 1
  <2>1. Len(cur) \in Nat
    OBVIOUS
  <2>2. QED
    BY <1>1, <2>1, ArgsAtIs
<1>3. PICK g : g = Given(cur, p)
  OBVIOUS
<1>4. PICK r : r = Pending(cur, p)
  OBVIOUS
<1>5. g \in Seq(Seq(S)) /\ r \in Seq(S) /\ r = InArg(cur, line)
  BY <1>2, <1>3, <1>4, GivenType DEF InArg
<1>6. /\ ArgumentsOf(Append(cur, t), p) = Append(g, r)
      /\ ParamsOf(Append(cur, t), p) = Append(GivenParams(cur, p), ParamOf(r))
  BY <1>2, <1>3, <1>4, ArgumentsEnd
<1>7. \A k \in DOMAIN g : IsArgument(g[k])
  BY <1>2, <1>3 DEF ArgsRead
<1>8. \A k \in DOMAIN Append(g, r) : IsArgument(Append(g, r)[k])
  <2>1. \A k \in DOMAIN Append(g, r) : \/ k \in DOMAIN g /\ Append(g, r)[k] = g[k]
                                      \/ Append(g, r)[k] = r
    BY <1>5, OldOrNew, Zenon
  <2>2. IsArgument(r)
    BY <1>5
  <2>3. QED
    BY <1>7, <2>1, <2>2, Zenon
<1>9. TakesArguments(Append(cur, t), p)
  BY <1>6, <1>8, Zenon DEF TakesArguments
<1>10. params = GivenParams(cur, p)
  BY <1>2 DEF ArgsRead
<1>11. StatementOf(Append(cur, t)) = [line |-> Line(line.kind, line.name, ParamsOf(Append(cur, t), p))]
  BY <1>1, <1>2, <1>9, LineIs
<1>12. QED
  BY <1>5, <1>6, <1>10, <1>11

-----------------------------------------------------------------------------
(* The head of a macro. *)

\* The name of an argument more.
LEMMA NamesMore ==
  ASSUME NEW S, NEW g \in Seq(Seq(S)), NEW r \in Seq(S)
  PROVE  Names(Append(g, r)) = Append(Names(g), r[1].name)
<1>1. PICK X : X = Seq(S)
  OBVIOUS
<1>2. g \in Seq(X) /\ r \in X
  BY <1>1
<1>3. PICK F : F = [x \in X |-> x[1].name]
  OBVIOUS
<1>4. PICK h : h = Append(g, r)
  OBVIOUS
<1>5. h \in Seq(X)
  BY <1>2, <1>4
<1>6. [k \in DOMAIN h |-> F[h[k]]] = Append([k \in DOMAIN g |-> F[g[k]]], F[r])
  BY <1>2, <1>4, MapMore
<1>7. \A x \in X : F[x] = x[1].name
  BY <1>3
<1>8. \A k \in DOMAIN h : F[h[k]] = h[k][1].name
  BY <1>5, <1>7
<1>9. \A k \in DOMAIN g : F[g[k]] = g[k][1].name
  BY <1>2, <1>7
<1>10. [k \in DOMAIN h |-> F[h[k]]] = Names(h)
  BY <1>8 DEF Names
<1>11. [k \in DOMAIN g |-> F[g[k]]] = Names(g)
  BY <1>9 DEF Names
<1>12. QED
  BY <1>2, <1>4, <1>6, <1>7, <1>10, <1>11

\* Names and one name more are names.
LEMMA AreNamesMore ==
  ASSUME NEW S, NEW g \in Seq(Seq(S)), NEW r \in Seq(S), AreNames(g), Toks(r) = One("name")
  PROVE  AreNames(Append(g, r))
<1>1. \A k \in DOMAIN Append(g, r) : \/ k \in DOMAIN g /\ Append(g, r)[k] = g[k]
                                    \/ Append(g, r)[k] = r
  BY OldOrNew, Zenon
<1>2. \A k \in DOMAIN g : Toks(g[k]) = One("name")
  BY Zenon DEF AreNames, One
<1>3. \A k \in DOMAIN Append(g, r) : Toks(Append(g, r)[k]) = One("name")
  BY <1>1, <1>2, Zenon
<1>4. QED
  BY <1>3, Zenon DEF AreNames, One

\* No names.
LEMMA NoNames == AreNames(<<>>) /\ Names(<<>>) = <<>>
BY DEF AreNames, Names

\* The beginning of a head.
BeginsHead(cur) == Len(cur) >= 2 /\ cur[1].tok = ".macro" /\ cur[2].tok = "name"

\* A head whose arguments are names.
LEMMA HeadIs ==
  ASSUME NEW S, NEW cur \in Seq(S), NEW t \in S, t.tok = "newline", BeginsHead(cur),
         AreNames(ArgumentsOf(Append(cur, t), 3))
  PROVE  StatementOf(Append(cur, t)) =
           [head |-> Macro(cur[2].name, Names(ArgumentsOf(Append(cur, t), 3)), <<>>)]
<1>1. PICK u : u = Append(cur, t)
  OBVIOUS
<1>2. /\ u \in Seq(S) /\ Len(u) = Len(cur) + 1 /\ u[Len(u)] = t /\ Len(u) > 2
      /\ u[1] = cur[1] /\ u[2] = cur[2]
  BY <1>1 DEF BeginsHead
<1>3. Len(<<".macro", "name">>) = 2 /\ \A i \in DOMAIN <<".macro", "name">> : i \in {1, 2}
  OBVIOUS
<1>4. \A i \in DOMAIN <<".macro", "name">> : u[i].tok = <<".macro", "name">>[i]
  BY <1>2, <1>3 DEF BeginsHead
<1>5. Starts(u, <<".macro", "name">>)
  BY <1>2, <1>3, <1>4 DEF Starts
<1>6. IsHead(u)
  BY <1>1, <1>5, Zenon DEF IsHead, AreNames
<1>7. HeadOf(u) = Macro(u[2].name, Names(ArgumentsOf(u, 3)), <<>>)
  BY DEF HeadOf, Names
<1>8. StatementOf(u) = [head |-> HeadOf(u)]
  BY <1>2, <1>6, StatementIs
<1>9. QED
  BY <1>1, <1>2, <1>7, <1>8

\* The macro that is read.
LEMMA HeadReadIs ==
  ASSUME NEW cur, NEW m, NEW names, HeadRead(cur, m, names)
  PROVE  /\ BeginsHead(cur) /\ AreNames(Given(cur, 3)) /\ names = Names(Given(cur, 3))
         /\ m[1] = Macro(cur[2].name, m[1].args, <<>>) /\ m = <<m[1]>>
<1>1. PICK all : m = <<Macro(cur[2].name, all, <<>>)>>
  BY DEF HeadRead
<1>2. m[1] = Macro(cur[2].name, all, <<>>) /\ m[1].args = all
  BY <1>1 DEF Macro
<1>3. QED
  BY <1>1, <1>2 DEF HeadRead, BeginsHead

\* A newline ends a head without arguments.
LEMMA HeadEndsShort ==
  ASSUME NEW S, NEW cur \in Seq(S), NEW t \in S, t.tok = "newline", NEW m, NEW names,
         HeadRead(cur, m, names), Len(cur) = 2, m[1].args = <<>>
  PROVE  StatementOf(Append(cur, t)) = [head |-> m[1]]
<1>1. ArgumentsOf(Append(cur, t), 3) = <<>>
  <2>1. 3 \in Nat \ {0} /\ 3 <= Len(cur) + 1 /\ Len(cur) = 3 - 1
    OBVIOUS
  <2>2. QED
    BY <2>1, ArgumentsEnd
<1>2. StatementOf(Append(cur, t)) = [head |-> Macro(cur[2].name, <<>>, <<>>)]
  BY <1>1, HeadReadIs, HeadIs, NoNames
<1>3. QED
  BY <1>2, HeadReadIs

\* A newline ends the last argument and the head.
LEMMA HeadEnds ==
  ASSUME NEW S, NEW cur \in Seq(S), NEW t \in S, t.tok = "newline", NEW m, NEW names,
         HeadNamed(cur, m, names)
  PROVE  StatementOf(Append(cur, t)) = [head |-> m[1]]
<1>1. PICK g : g = Given(cur, 3)
  OBVIOUS
<1>2. PICK r : r = Pending(cur, 3)
  OBVIOUS
<1>3. 3 \in Nat \ {0} /\ 3 <= Len(cur) + 1 /\ Len(cur) # 3 - 1
  <2>1. PICK n \in Nat : n = Len(cur)
    OBVIOUS
  <2>2. n > 2
    BY <2>1 DEF HeadNamed
  <2>3. 3 <= n + 1 /\ n # 3 - 1
    BY <2>2
  <2>4. QED
    BY <2>1, <2>3
<1>4. g \in Seq(Seq(S)) /\ r \in Seq(S)
  BY <1>1, <1>2, <1>3, GivenType
<1>5. ArgumentsOf(Append(cur, t), 3) = Append(g, r)
  BY <1>1, <1>2, <1>3, ArgumentsEnd
<1>6. BeginsHead(cur) /\ AreNames(g) /\ names = Names(g) /\ m[1] = Macro(cur[2].name, m[1].args, <<>>)
  BY <1>1, HeadReadIs DEF HeadNamed
<1>7. AreNames(Append(g, r)) /\ Names(Append(g, r)) = Append(Names(g), r[1].name)
  BY <1>2, <1>4, <1>6, AreNamesMore, NamesMore DEF HeadNamed
<1>8. StatementOf(Append(cur, t)) = [head |-> Macro(cur[2].name, Names(Append(g, r)), <<>>)]
  BY <1>5, <1>6, <1>7, HeadIs
<1>9. QED
  BY <1>2, <1>6, <1>7, <1>8 DEF HeadNamed

\* A head remains begun.
LEMMA BeginsHeadMore ==
  ASSUME NEW S, NEW cur \in Seq(S), NEW t \in S, BeginsHead(cur)
  PROVE  /\ BeginsHead(Append(cur, t)) /\ Append(cur, t)[2] = cur[2] /\ Len(Append(cur, t)) > 2
         /\ 3 \in Nat \ {0} /\ 3 <= Len(cur) + 1
<1>1. PICK u : u = Append(cur, t)
  OBVIOUS
<1>2. Len(u) = Len(cur) + 1 /\ u[1] = cur[1] /\ u[2] = cur[2] /\ Len(cur) >= 2
  BY <1>1 DEF BeginsHead
<1>3. QED
  BY <1>1, <1>2 DEF BeginsHead

\* The name of a macro.
LEMMA HeadBegins ==
  ASSUME NEW S, NEW cur \in Seq(S), NEW t \in S, t.tok = "name", IsOne(cur, ".macro")
  PROVE  /\ HeadRead(Append(cur, t), <<Macro(t.name, <<>>, <<>>)>>, <<>>) /\ Len(Append(cur, t)) = 2
<1>1. PICK u : u = Append(cur, t)
  OBVIOUS
<1>2. u \in Seq(S) /\ IsTwo(u, ".macro", "name")
  BY <1>1, PutBehindOne
<1>3. u[2] = t
  <2>1. u[Len(cur) + 1] = t
    BY <1>1
  <2>2. QED
    BY <2>1 DEF IsOne
<1>4. Len(u) = 2 /\ u[1].tok = ".macro" /\ u[2].tok = "name"
  BY <1>2 DEF IsTwo
<1>5. Given(u, 3) = <<>>
  <2>1. 3 = Len(u) + 1
    BY <1>4
  <2>2. QED
    BY <1>2, <2>1, GivenNone
<1>6. \E all : <<Macro(t.name, <<>>, <<>>)>> = <<Macro(u[2].name, all, <<>>)>>
  BY <1>3, Zenon
<1>7. HeadRead(u, <<Macro(t.name, <<>>, <<>>)>>, <<>>)
  BY <1>4, <1>5, <1>6, NoNames DEF HeadRead
<1>8. QED
  BY <1>1, <1>4, <1>7

\* The name of an argument.
LEMMA HeadName ==
  ASSUME NEW S, NEW cur \in Seq(S), NEW t \in S, t.tok = "name", NEW m, NEW names, HeadOpen(cur, m, names)
  PROVE  HeadNamed(Append(cur, t), <<[m[1] EXCEPT !.args = Append(@, t.name)]>>, names)
<1>1. PICK u : u = Append(cur, t)
  OBVIOUS
<1>2. /\ BeginsHead(cur) /\ AreNames(Given(cur, 3)) /\ names = Names(Given(cur, 3))
      /\ m[1] = Macro(cur[2].name, m[1].args, <<>>)
  BY HeadReadIs DEF HeadOpen
<1>3. BeginsHead(u) /\ u[2] = cur[2] /\ Len(u) > 2 /\ 3 \in Nat \ {0} /\ 3 <= Len(cur) + 1
  BY <1>1, <1>2, BeginsHeadMore
<1>4. t.tok \notin Commas
  BY DEF Commas
<1>5. Given(u, 3) = Given(cur, 3) /\ Pending(u, 3) = Append(Pending(cur, 3), t)
  BY <1>1, <1>3, <1>4, GivenMore
<1>6. PICK a : a = Append(<<>>, t)
  OBVIOUS
<1>7. a \in Seq(S) /\ IsOne(a, "name") /\ a[1] = t
  BY <1>6 DEF IsOne
<1>8. Toks(a) = One("name") /\ Pending(u, 3) = a
  BY <1>5, <1>6, <1>7, ToksOne DEF HeadOpen
<1>9. PICK one : one = [m[1] EXCEPT !.args = Append(@, t.name)]
  OBVIOUS
<1>10. one = Macro(cur[2].name, Append(names, t.name), <<>>)
  <2>1. m[1].args = names
    BY DEF HeadOpen
  <2>2. m[1] = Macro(cur[2].name, names, <<>>)
    BY <1>2, <2>1
  <2>3. PICK old : old = m[1]
    OBVIOUS
  <2>4. one = [old EXCEPT !.args = Append(@, t.name)] /\ old = Macro(cur[2].name, names, <<>>)
    BY <1>9, <2>2, <2>3
  <2>5. QED
    BY <2>4 DEF Macro
<1>11. one.args = Append(names, t.name)
  BY <1>10 DEF Macro
<1>12. \E all : <<one>> = <<Macro(u[2].name, all, <<>>)>>
  BY <1>3, <1>10, Zenon
<1>13. HeadRead(u, <<one>>, names)
  BY <1>2, <1>3, <1>5, <1>12 DEF HeadRead, BeginsHead
<1>14. PICK list : list = <<one>>
  OBVIOUS
<1>15. list[1].args = Append(names, Pending(u, 3)[1].name)
  BY <1>7, <1>8, <1>11, <1>14
<1>16. HeadNamed(u, list, names)
  BY <1>3, <1>8, <1>13, <1>14, <1>15 DEF HeadNamed
<1>17. QED
  BY <1>1, <1>9, <1>14, <1>16

\* The comma behind it.
LEMMA HeadComma ==
  ASSUME NEW S, NEW cur \in Seq(S), NEW t \in S, t.tok = ",", NEW m, NEW names,
         HeadNamed(cur, m, names)
  PROVE  HeadOpen(Append(cur, t), m, m[1].args) /\ Len(Append(cur, t)) > 2
<1>1. PICK u : u = Append(cur, t)
  OBVIOUS
<1>2. /\ BeginsHead(cur) /\ AreNames(Given(cur, 3)) /\ names = Names(Given(cur, 3))
      /\ m[1] = Macro(cur[2].name, m[1].args, <<>>) /\ m = <<m[1]>>
  BY HeadReadIs DEF HeadNamed
<1>3. BeginsHead(u) /\ u[2] = cur[2] /\ Len(u) > 2 /\ 3 \in Nat \ {0} /\ 3 <= Len(cur) + 1
  BY <1>1, <1>2, BeginsHeadMore
<1>4. PICK g : g = Given(cur, 3)
  OBVIOUS
<1>5. PICK r : r = Pending(cur, 3)
  OBVIOUS
<1>6. g \in Seq(Seq(S)) /\ r \in Seq(S)
  BY <1>3, <1>4, <1>5, GivenType
<1>7. t.tok \in Commas
  BY DEF Commas
<1>8. Given(u, 3) = Append(g, r) /\ Pending(u, 3) = <<>>
  BY <1>1, <1>3, <1>4, <1>5, <1>7, GivenMore
<1>9. AreNames(Append(g, r)) /\ Names(Append(g, r)) = m[1].args
  <2>1. AreNames(g) /\ Toks(r) = One("name") /\ m[1].args = Append(Names(g), r[1].name)
    BY <1>2, <1>4, <1>5 DEF HeadNamed
  <2>2. AreNames(Append(g, r)) /\ Names(Append(g, r)) = Append(Names(g), r[1].name)
    BY <1>6, <2>1, AreNamesMore, NamesMore
  <2>3. QED
    BY <2>1, <2>2
<1>10. \E all : m = <<Macro(u[2].name, all, <<>>)>>
  BY <1>2, <1>3, Zenon
<1>11. HeadRead(u, m, m[1].args)
  BY <1>3, <1>8, <1>9, <1>10 DEF HeadRead, BeginsHead
<1>12. QED
  BY <1>1, <1>3, <1>8, <1>11 DEF HeadOpen

-----------------------------------------------------------------------------
(* Sums and products. *)

\* What the next term makes of the sum.
NextTerm(s, op, v) ==
  IF op = "*" THEN [s EXCEPT !.term = @ * v]
  ELSE [before |-> s.before + s.term, term |-> IF op = "+" THEN v ELSE 0 - v]

SumStep(a, g, k) ==
  IF k = 1 THEN [before |-> 0, term |-> a[2 * k - 1].value]
  ELSE NextTerm(g[k - 1], a[2 * k - 2].tok, a[2 * k - 1].value)

Sums(a, g, n) == g = [k \in 1 .. n |-> SumStep(a, g, k)]

\* The recursion of the terms.
LEMMA TermsAre ==
  ASSUME NEW a, NEW n, n = (Len(a) + 1) \div 2
  PROVE  TermsOf(a) = (CHOOSE g : Sums(a, g, n))[n]
BY Zenon DEF TermsOf, Sums, SumStep, NextTerm

\* What it is at each place.
LEMMA SumsAre ==
  ASSUME NEW a, NEW g, NEW n \in Nat, Sums(a, g, n)
  PROVE  \A k \in 1 .. n : g[k] = SumStep(a, g, k)
BY DEF Sums

\* It has a result.
LEMMA SumsExist ==
  ASSUME NEW a, NEW n \in Nat
  PROVE  \E g : Sums(a, g, n)
<1> DEFINE T == {k \in 0 .. n : \E g : Sums(a, g, k)}
<1>1. 0 \in T /\ T \in SUBSET (0 .. n)
  <2>1. \A g : [k \in 1 .. 0 |-> SumStep(a, g, k)] = [k \in {} |-> 0]
    OBVIOUS
  <2>2. Sums(a, [k \in {} |-> 0], 0)
    BY <2>1, Zenon DEF Sums
  <2>3. QED
    BY <2>2
<1>2. ASSUME NEW k \in 0 .. n, k \in T, k < n PROVE k + 1 \in T
  <2>1. PICK g : Sums(a, g, k)
    BY <1>2
  <2> DEFINE h == [i \in 1 .. k + 1 |-> SumStep(a, g, i)]
  <2>2. \A i \in 1 .. k : g[i] = SumStep(a, g, i)
    BY <2>1, SumsAre
  <2>3. \A i \in 1 .. k + 1 : h[i] = SumStep(a, g, i)
    OBVIOUS
  <2>4. \A i \in 1 .. k : h[i] = g[i]
    <3> HIDE DEF h
    <3>1. QED
      BY <2>2, <2>3
  <2>5. ASSUME NEW i \in 1 .. k + 1 PROVE SumStep(a, h, i) = SumStep(a, g, i)
    <3> HIDE DEF h
    <3>1. CASE i = 1
      BY <3>1 DEF SumStep
    <3>2. CASE i # 1
      <4>1. i - 1 \in 1 .. k
        BY <3>2
      <4>2. h[i - 1] = g[i - 1]
        BY <2>4, <4>1
      <4>3. QED
        BY <3>2, <4>2, Zenon DEF SumStep
    <3>3. QED
      BY <3>1, <3>2
  <2>6. h = [i \in 1 .. k + 1 |-> SumStep(a, h, i)]
    BY <2>5, Zenon
  <2>7. Sums(a, h, k + 1)
    BY <2>6, Zenon DEF Sums
  <2>8. k + 1 \in 0 .. n
    BY <1>2
  <2> HIDE DEF h
  <2>9. QED
    BY <2>7, <2>8
<1>3. T = 0 .. n
  <2> HIDE DEF T
  <2>1. QED
    BY <1>1, <1>2, Upward
<1>4. n \in T
  <2> HIDE DEF T
  <2>1. QED
    BY <1>3
<1>5. QED
  BY <1>4

\* It depends on what it has come to only.
LEMMA SumsSame ==
  ASSUME NEW a, NEW b, NEW g, NEW h, NEW n \in Nat, NEW m \in Nat, n <= m, Sums(a, g, n), Sums(b, h, m),
         NEW l \in Nat, 2 * n <= l + 1, Agree(a, b, l)
  PROVE  \A k \in 1 .. n : g[k] = h[k]
<1>1. /\ \A k \in 1 .. n : g[k] = SumStep(a, g, k)
      /\ \A k \in 1 .. m : h[k] = SumStep(b, h, k)
  BY SumsAre
<1> DEFINE T == {k \in 0 .. n : k = 0 \/ g[k] = h[k]}
<1>2. 0 \in T /\ T \in SUBSET (0 .. n)
  OBVIOUS
<1>3. ASSUME NEW k \in 0 .. n, k \in T, k < n PROVE k + 1 \in T
  <2>1. PICK i \in Nat : i = k + 1
    OBVIOUS
  <2>2. i \in 1 .. n /\ i \in 1 .. m /\ i \in 0 .. n /\ i - 1 = k
    BY <1>3, <2>1
  <2>3. 2 * i - 1 \in 1 .. l /\ (i # 1 => 2 * i - 2 \in 1 .. l)
    BY <2>2
  <2>4. a[2 * i - 1] = b[2 * i - 1] /\ (i # 1 => a[2 * i - 2] = b[2 * i - 2])
    BY <2>3 DEF Agree
  <2>5. g[i] = SumStep(a, g, i) /\ h[i] = SumStep(b, h, i)
    BY <1>1, <2>2
  <2>6. CASE i = 1
    <3>1. SumStep(a, g, i) = [before |-> 0, term |-> a[2 * i - 1].value]
          /\ SumStep(b, h, i) = [before |-> 0, term |-> b[2 * i - 1].value]
      BY <2>6, Zenon DEF SumStep
    <3>2. g[i] = h[i]
      BY <2>4, <2>5, <3>1, Zenon
    <3>3. QED
      BY <2>1, <2>2, <3>2
  <2>7. CASE i # 1
    <3>1. g[i - 1] = h[i - 1]
      BY <1>3, <2>2, <2>7
    <3>2. SumStep(a, g, i) = NextTerm(g[i - 1], a[2 * i - 2].tok, a[2 * i - 1].value)
          /\ SumStep(b, h, i) = NextTerm(h[i - 1], b[2 * i - 2].tok, b[2 * i - 1].value)
      BY <2>7, Zenon DEF SumStep
    <3>3. g[i] = h[i]
      BY <2>4, <2>5, <2>7, <3>1, <3>2, Zenon
    <3>4. QED
      BY <2>1, <2>2, <3>3
  <2>8. QED
    BY <2>6, <2>7
<1>4. T = 0 .. n
  <2> HIDE DEF T
  <2>1. QED
    BY <1>2, <1>3, Upward
<1>5. ASSUME NEW k \in 1 .. n PROVE g[k] = h[k]
  <2>1. k \in T
    <3> HIDE DEF T
    <3>1. QED
      BY <1>4
  <2>2. QED
    BY <2>1
<1>6. QED
  BY <1>5

\* A sum in front of a term, and the term.
IsSum(s) == s = [before |-> s.before, term |-> s.term]

\* Each step makes such a sum.
LEMMA NextTermIs ==
  ASSUME NEW s, IsSum(s), NEW op, NEW v
  PROVE  /\ IsSum(NextTerm(s, op, v))
         /\ op = "*" => NextTerm(s, op, v).before = s.before /\ NextTerm(s, op, v).term = s.term * v
         /\ op # "*" => /\ NextTerm(s, op, v).before = s.before + s.term
                        /\ NextTerm(s, op, v).term = IF op = "+" THEN v ELSE 0 - v
<1>1. PICK x : x = s.before
  OBVIOUS
<1>2. PICK y : y = s.term
  OBVIOUS
<1>3. s = [before |-> x, term |-> y]
  BY <1>1, <1>2 DEF IsSum
<1>4. NextTerm(s, op, v) = IF op = "*" THEN [before |-> x, term |-> y * v]
                           ELSE [before |-> x + y, term |-> IF op = "+" THEN v ELSE 0 - v]
  BY <1>3 DEF NextTerm
<1>5. QED
  BY <1>1, <1>2, <1>4 DEF IsSum

\* So do all of them.
LEMMA SumsForm ==
  ASSUME NEW a, NEW g, NEW n \in Nat, Sums(a, g, n)
  PROVE  \A k \in 1 .. n : IsSum(g[k])
<1>1. \A k \in 1 .. n : g[k] = SumStep(a, g, k)
  BY SumsAre
<1> DEFINE T == {k \in 0 .. n : k = 0 \/ IsSum(g[k])}
<1>2. 0 \in T /\ T \in SUBSET (0 .. n)
  OBVIOUS
<1>3. ASSUME NEW k \in 0 .. n, k \in T, k < n PROVE k + 1 \in T
  <2>1. PICK i \in Nat : i = k + 1
    OBVIOUS
  <2>2. i \in 1 .. n /\ i \in 0 .. n /\ i - 1 = k /\ g[i] = SumStep(a, g, i)
    BY <1>1, <1>3, <2>1
  <2>3. CASE i = 1
    <3>1. SumStep(a, g, i) = [before |-> 0, term |-> a[2 * i - 1].value]
      BY <2>3, Zenon DEF SumStep
    <3>2. PICK v : v = a[2 * i - 1].value
      OBVIOUS
    <3>3. IsSum([before |-> 0, term |-> v])
      BY DEF IsSum
    <3>4. IsSum(g[i])
      BY <2>2, <3>1, <3>2, <3>3, Zenon
    <3>5. QED
      BY <2>1, <2>2, <3>4
  <2>4. CASE i # 1
    <3>1. IsSum(g[i - 1])
      BY <1>3, <2>2, <2>4
    <3>2. SumStep(a, g, i) = NextTerm(g[i - 1], a[2 * i - 2].tok, a[2 * i - 1].value)
      BY <2>4, Zenon DEF SumStep
    <3>3. \A s, op, v : IsSum(s) => IsSum(NextTerm(s, op, v))
      BY NextTermIs
    <3>4. IsSum(g[i])
      BY <2>2, <3>1, <3>2, <3>3, Zenon
    <3>5. QED
      BY <2>1, <2>2, <3>4
  <2>5. QED
    BY <2>3, <2>4
<1>4. T = 0 .. n
  <2> HIDE DEF T
  <2>1. QED
    BY <1>2, <1>3, Upward
<1>5. ASSUME NEW k \in 1 .. n PROVE IsSum(g[k])
  <2>1. k \in T
    <3> HIDE DEF T
    <3>1. QED
      BY <1>4
  <2>2. QED
    BY <2>1
<1>6. QED
  BY <1>5

\* The terms of an expression, as the recursion makes them.
LEMMA TermsSums ==
  ASSUME NEW a, NEW n \in Nat, 2 * n = Len(a) + 1, n > 0
  PROVE  \E g : /\ Sums(a, g, n) /\ TermsOf(a) = g[n] /\ g[n] = SumStep(a, g, n) /\ IsSum(g[n])
<1>1. PICK l : l = Len(a)
  OBVIOUS
<1>2. n = (l + 1) \div 2
  BY <1>1
<1>3. TermsOf(a) = (CHOOSE g : Sums(a, g, n))[n]
  BY <1>1, <1>2, TermsAre
<1>4. PICK g : g = CHOOSE h : Sums(a, h, n)
  OBVIOUS
<1>5. Sums(a, g, n)
  BY <1>4, SumsExist, Zenon
<1>6. n \in 1 .. n
  OBVIOUS
<1>7. g[n] = SumStep(a, g, n) /\ IsSum(g[n])
  BY <1>5, <1>6, SumsAre, SumsForm
<1>8. QED
  BY <1>3, <1>4, <1>5, <1>7

\* A number is one term.
LEMMA TermsOne ==
  ASSUME NEW a, Len(a) = 1
  PROVE  IsSum(TermsOf(a)) /\ TermsOf(a).before = 0 /\ TermsOf(a).term = a[1].value
<1>1. PICK n \in Nat : n = 1
  OBVIOUS
<1>2. 2 * n = Len(a) + 1 /\ n > 0
  BY <1>1
<1>3. PICK g : TermsOf(a) = g[n] /\ g[n] = SumStep(a, g, n) /\ IsSum(g[n])
  BY <1>2, TermsSums
<1>4. SumStep(a, g, n) = [before |-> 0, term |-> a[2 * n - 1].value]
  BY <1>1, Zenon DEF SumStep
<1>5. 2 * n - 1 = 1
  BY <1>1
<1>6. QED
  BY <1>3, <1>4, <1>5

\* An operator and an operand behind an expression.
Onward(S, b, a, o, x) ==
  /\ a \in Seq(S) /\ o \in S /\ x \in S /\ b = Append(Append(a, o), x)
  /\ Alternates(a)

\* Where they are.
LEMMA OnwardIs ==
  ASSUME NEW S, NEW b, NEW a, NEW o, NEW x, Onward(S, b, a, o, x)
  PROVE  \E n \in Nat : /\ n > 0 /\ Len(a) = 2 * n - 1 /\ Len(b) = 2 * n + 1 /\ b \in Seq(S)
                        /\ b[2 * n] = o /\ b[2 * n + 1] = x /\ Agree(a, b, 2 * n - 1)
<1>1. PICK l \in Nat : l = Len(a)
  BY DEF Onward
<1>2. l % 2 = 1
  BY <1>1 DEF Onward, Alternates
<1>3. PICK n \in Nat : n > 0 /\ l = 2 * n - 1
  <2>1. (l + 1) \div 2 \in Nat /\ (l + 1) \div 2 > 0 /\ l = 2 * ((l + 1) \div 2) - 1
    BY <1>2
  <2>2. QED
    BY <2>1
<1>4. PICK c : c = Append(a, o)
  OBVIOUS
<1>5. c \in Seq(S) /\ Len(c) = l + 1 /\ c[l + 1] = o /\ \A k \in 1 .. l : c[k] = a[k]
  BY <1>1, <1>4, Appended DEF Onward
<1>6. PICK m \in Nat : m = l + 1
  OBVIOUS
<1>7. Len(c) = m
  BY <1>5, <1>6
<1>8. b \in Seq(S) /\ Len(b) = m + 1 /\ b[m + 1] = x /\ \A k \in 1 .. m : b[k] = c[k]
  <2>1. b = Append(c, x)
    BY <1>4 DEF Onward
  <2>2. x \in S
    BY DEF Onward
  <2>3. QED
    BY <1>5, <1>7, <2>1, <2>2, Appended
<1>9. b[m] = o /\ \A k \in 1 .. l : b[k] = a[k]
  <2>1. m \in 1 .. m /\ \A k \in 1 .. l : k \in 1 .. m
    BY <1>6
  <2>2. QED
    BY <1>5, <1>6, <1>8, <2>1
<1>10. m = 2 * n
  BY <1>3, <1>6
<1>11. QED
  BY <1>1, <1>3, <1>8, <1>9, <1>10 DEF Agree

\* The terms with one more.
LEMMA TermsMore ==
  ASSUME NEW S, NEW b, NEW a, NEW o, NEW x, Onward(S, b, a, o, x)
  PROVE  IsSum(TermsOf(a)) /\ TermsOf(b) = NextTerm(TermsOf(a), o.tok, x.value)
<1>1. PICK n \in Nat : /\ n > 0 /\ Len(a) = 2 * n - 1 /\ Len(b) = 2 * n + 1
                       /\ b[2 * n] = o /\ b[2 * n + 1] = x /\ Agree(a, b, 2 * n - 1)
  BY OnwardIs
<1>2. PICK m \in Nat : m = n + 1
  OBVIOUS
<1>3. 2 * m = Len(b) + 1 /\ m > 0 /\ 2 * n = Len(a) + 1
  BY <1>1, <1>2
<1>4. PICK g : Sums(a, g, n) /\ TermsOf(a) = g[n] /\ IsSum(g[n])
  BY <1>1, <1>3, TermsSums
<1>5. PICK h : Sums(b, h, m) /\ TermsOf(b) = h[m] /\ h[m] = SumStep(b, h, m)
  BY <1>3, TermsSums
<1>6. PICK l \in Nat : l = 2 * n - 1
  BY <1>1
<1>7. n <= m /\ 2 * n <= l + 1 /\ Agree(a, b, l)
  BY <1>1, <1>2, <1>6
<1>8. \A k \in 1 .. n : g[k] = h[k]
  BY <1>4, <1>5, <1>7, SumsSame
<1>9. g[n] = h[n]
  <2>1. n \in 1 .. n
    BY <1>1
  <2>2. QED
    BY <1>8, <2>1
<1>10. SumStep(b, h, m) = NextTerm(h[m - 1], b[2 * m - 2].tok, b[2 * m - 1].value)
  <2>1. m # 1
    BY <1>1, <1>2
  <2>2. QED
    BY <2>1, Zenon DEF SumStep
<1>11. m - 1 = n /\ 2 * m - 2 = 2 * n /\ 2 * m - 1 = 2 * n + 1
  BY <1>2
<1>12. QED
  BY <1>1, <1>4, <1>5, <1>9, <1>10, <1>11

\* They alternate again.
LEMMA AlternatesMore ==
  ASSUME NEW S, NEW b, NEW a, NEW o, NEW x, Onward(S, b, a, o, x), o.tok \in Operators, x.tok = "number"
  PROVE  Alternates(b) /\ (NoQuotient(a) /\ o.tok # "/" => NoQuotient(b))
<1>1. PICK n \in Nat : /\ n > 0 /\ Len(a) = 2 * n - 1 /\ Len(b) = 2 * n + 1 /\ b \in Seq(S)
                       /\ b[2 * n] = o /\ b[2 * n + 1] = x /\ Agree(a, b, 2 * n - 1)
  BY OnwardIs
<1>2. DOMAIN b = 1 .. 2 * n + 1 /\ DOMAIN a = 1 .. 2 * n - 1
  BY <1>1 DEF Onward
<1>3. ASSUME NEW i \in DOMAIN b
      PROVE  \/ i \in DOMAIN a /\ b[i] = a[i]
             \/ i = 2 * n /\ i % 2 # 1 /\ b[i] = o
             \/ i = 2 * n + 1 /\ i % 2 = 1 /\ b[i] = x
  BY <1>1, <1>2 DEF Agree
<1>4. Len(b) % 2 = 1
  BY <1>1
<1>5. \A i \in DOMAIN a : IF i % 2 = 1 THEN a[i].tok = "number" ELSE a[i].tok \in Operators
  BY DEF Onward, Alternates
<1>6. Alternates(b)
  BY <1>3, <1>4, <1>5, Zenon DEF Alternates
<1>7. ASSUME NoQuotient(a), o.tok # "/" PROVE NoQuotient(b)
  BY <1>3, <1>7 DEF NoQuotient
<1>8. QED
  BY <1>6, <1>7

-----------------------------------------------------------------------------
(* Operands and operators that wait. *)

\* A list of one element.
LEMMA ListOne == ASSUME NEW X, NEW w \in Seq(X), Len(w) = 1 PROVE w = <<w[1]>>
OBVIOUS

\* Of two.
LEMMA ListTwo == ASSUME NEW X, NEW w \in Seq(X), Len(w) = 2 PROVE w = <<w[1], w[2]>>
OBVIOUS

\* What is left of a list.
LEMMA FrontIs ==
  ASSUME NEW X, NEW w \in Seq(X), NEW x \in X
  PROVE  Front(Append(w, x)) = w /\ Last(Append(w, x)) = x /\ Append(w, x) # <<>>
<1>1. PICK n \in Nat : n = Len(w)
  OBVIOUS
<1>2. PICK u : u = Append(w, x)
  OBVIOUS
<1>3. u \in Seq(X) /\ Len(u) = n + 1 /\ u[n + 1] = x /\ \A k \in 1 .. n : u[k] = w[k]
  BY <1>1, <1>2, Appended
<1>4. Last(u) = x /\ Front(u) = SubSeq(u, 1, n)
  BY <1>3 DEF Last, Front
<1>5. SubSeq(u, 1, n) \in Seq(X) /\ Len(SubSeq(u, 1, n)) = n /\ \A k \in 1 .. n : SubSeq(u, 1, n)[k] = w[k]
  BY <1>3
<1>6. SubSeq(u, 1, n) = w
  BY <1>1, <1>5, SameList
<1>7. QED
  BY <1>2, <1>3, <1>4, <1>6

\* What a reduction makes.
LEMMA ReduceOneIs ==
  ASSUME NEW n, n = [operands |-> n.operands, operators |-> n.operators, split |-> n.split]
  PROVE  LET k == Len(n.operands) IN
         ReduceOne(n) =
           [operands  |-> SubSeq(n.operands, 1, k - 2) \o
                          <<Apply(Last(n.operators), n.operands[k - 1], n.operands[k])>>,
            operators |-> Front(n.operators), split |-> n.split]
<1> DEFINE k == Len(n.operands)
<1>1. PICK w : w = SubSeq(n.operands, 1, k - 2) \o <<Apply(Last(n.operators), n.operands[k - 1], n.operands[k])>>
  OBVIOUS
<1>2. PICK o : o = Front(n.operators)
  OBVIOUS
<1>3. ReduceOne(n) = [n EXCEPT !.operands = w, !.operators = o]
  BY <1>1, <1>2, Zenon DEF ReduceOne
<1>4. PICK d : d = n.operands
  OBVIOUS
<1>5. PICK e : e = n.operators
  OBVIOUS
<1>6. PICK f : f = n.split
  OBVIOUS
<1>7. n = [operands |-> d, operators |-> e, split |-> f]
  BY <1>4, <1>5, <1>6
<1>8. ReduceOne(n) = [operands |-> w, operators |-> o, split |-> f]
  BY <1>3, <1>7
<1>9. QED
  BY <1>1, <1>2, <1>6, <1>8, Zenon

\* A reduction of one operator.
LEMMA ReduceShapes ==
  /\ \A op, x, y : ReduceOne(Ready1(op, x, y)) = Ready0(Apply(op, x, y))
  /\ \A op, x, y, z : ReduceOne(Ready2(op, x, y, z)) = Ready1(op, x, Apply("*", y, z))
<1>1. ASSUME NEW op, NEW x, NEW y PROVE ReduceOne(Ready1(op, x, y)) = Ready0(Apply(op, x, y))
  <2>1. PICK v : v = Apply(op, x, y)
    OBVIOUS
  <2>2. PICK n : n = Ready1(op, x, y)
    OBVIOUS
  <2>3. PICK d : d = n.operands
    OBVIOUS
  <2>4. PICK e : e = n.operators
    OBVIOUS
  <2>5. /\ d = <<x, y>> /\ e = <<op>> /\ n.split = FALSE
        /\ n = [operands |-> n.operands, operators |-> n.operators, split |-> n.split]
    BY <2>2, <2>3, <2>4 DEF Ready1, Held
  <2>6. d \in Seq({x, y, v}) /\ Len(d) = 2 /\ d[1] = x /\ d[2] = y
    BY <2>5
  <2>7. Last(e) = op /\ Front(e) = <<>>
    <3>1. e = Append(<<>>, op) /\ <<>> \in Seq({op})
      BY <2>5
    <3>2. QED
      BY <3>1, FrontIs
  <2>8. ReduceOne(n) = [operands |-> SubSeq(d, 1, Len(d) - 2) \o <<Apply(Last(e), d[Len(d) - 1], d[Len(d)])>>,
                        operators |-> Front(e), split |-> n.split]
    BY <2>3, <2>4, <2>5, ReduceOneIs, Zenon
  <2>9. Len(d) - 2 = 0 /\ Len(d) - 1 = 1
    BY <2>6
  <2>10. ReduceOne(n) = [operands |-> SubSeq(d, 1, 0) \o <<v>>, operators |-> <<>>, split |-> FALSE]
    BY <2>1, <2>5, <2>6, <2>7, <2>8, <2>9, Zenon
  <2>11. PICK w : w = SubSeq(d, 1, 0) \o <<v>>
    OBVIOUS
  <2>12. SubSeq(d, 1, 0) \in Seq({x, y, v}) /\ Len(SubSeq(d, 1, 0)) = 0
    BY <2>6
  <2>13. w \in Seq({x, y, v}) /\ Len(w) = 1 /\ w[1] = v
    BY <2>11, <2>12
  <2>14. w = <<v>>
    BY <2>13, ListOne
  <2>15. QED
    BY <2>1, <2>2, <2>10, <2>11, <2>14, Zenon DEF Ready0, Held
<1>2. ASSUME NEW op, NEW x, NEW y, NEW z PROVE ReduceOne(Ready2(op, x, y, z)) = Ready1(op, x, Apply("*", y, z))
  <2>1. PICK v : v = Apply("*", y, z)
    OBVIOUS
  <2>2. PICK n : n = Ready2(op, x, y, z)
    OBVIOUS
  <2>3. PICK d : d = n.operands
    OBVIOUS
  <2>4. PICK e : e = n.operators
    OBVIOUS
  <2>5. /\ d = <<x, y, z>> /\ e = <<op, "*">> /\ n.split = FALSE
        /\ n = [operands |-> n.operands, operators |-> n.operators, split |-> n.split]
    BY <2>2, <2>3, <2>4 DEF Ready2, Held
  <2>6. d \in Seq({x, y, z, v}) /\ Len(d) = 3 /\ d[1] = x /\ d[2] = y /\ d[3] = z
    BY <2>5
  <2>7. Last(e) = "*" /\ Front(e) = <<op>>
    <3>1. e = Append(<<op>>, "*") /\ <<op>> \in Seq({op, "*"})
      BY <2>5
    <3>2. QED
      BY <3>1, FrontIs
  <2>8. ReduceOne(n) = [operands |-> SubSeq(d, 1, Len(d) - 2) \o <<Apply(Last(e), d[Len(d) - 1], d[Len(d)])>>,
                        operators |-> Front(e), split |-> n.split]
    BY <2>3, <2>4, <2>5, ReduceOneIs, Zenon
  <2>9. Len(d) - 2 = 1 /\ Len(d) - 1 = 2
    BY <2>6
  <2>10. ReduceOne(n) = [operands |-> SubSeq(d, 1, 1) \o <<v>>, operators |-> <<op>>, split |-> FALSE]
    BY <2>1, <2>5, <2>6, <2>7, <2>8, <2>9, Zenon
  <2>11. PICK w : w = SubSeq(d, 1, 1) \o <<v>>
    OBVIOUS
  <2>12. SubSeq(d, 1, 1) \in Seq({x, y, z, v}) /\ Len(SubSeq(d, 1, 1)) = 1 /\ SubSeq(d, 1, 1)[1] = x
    BY <2>6
  <2>13. w \in Seq({x, y, z, v}) /\ Len(w) = 2 /\ w[1] = x /\ w[2] = v
    BY <2>11, <2>12
  <2>14. w = <<x, v>>
    BY <2>13, ListTwo
  <2>15. QED
    BY <2>1, <2>2, <2>10, <2>11, <2>14, Zenon DEF Ready1, Held
<1>3. QED
  BY <1>1, <1>2

\* What waits when all has been reduced that binds as tightly as p.
Leaves(p) ==
  /\ \A x : ReduceAll(Ready0(x), p) = Ready0(x)
  /\ \A op, x, y : /\ Precedence(op) >= p => ReduceAll(Ready1(op, x, y), p) = Ready0(Apply(op, x, y))
                   /\ ~ Precedence(op) >= p => ReduceAll(Ready1(op, x, y), p) = Ready1(op, x, y)
  /\ p <= 2 => \A op, x, y, z :
       /\ Precedence(op) >= p => ReduceAll(Ready2(op, x, y, z), p) = Ready0(Apply(op, x, Apply("*", y, z)))
       /\ ~ Precedence(op) >= p => ReduceAll(Ready2(op, x, y, z), p) = Ready1(op, x, Apply("*", y, z))

\* That is so for every precedence.
LEMMA ReduceLeaves == \A p \in Nat : Leaves(p)
<1> SUFFICES ASSUME NEW p \in Nat PROVE Leaves(p)
  OBVIOUS
<1>1. \A v : Reduce(Ready0(v), p) = Ready0(v)
  BY DEF Reduce, Ready0, Held
<1>2. ASSUME NEW op, NEW v, NEW w
      PROVE  /\ Precedence(op) >= p => Reduce(Ready1(op, v, w), p) = Ready0(Apply(op, v, w))
             /\ ~ Precedence(op) >= p => Reduce(Ready1(op, v, w), p) = Ready1(op, v, w)
  <2>1. Ready1(op, v, w).operators # <<>> /\ Last(Ready1(op, v, w).operators) = op
    BY DEF Ready1, Held, Last
  <2>2. QED
    BY <2>1, ReduceShapes, Zenon DEF Reduce
<1>3. ASSUME p <= 2, NEW op, NEW x, NEW y, NEW z
      PROVE  Reduce(Ready2(op, x, y, z), p) = Ready1(op, x, Apply("*", y, z))
  <2>1. Ready2(op, x, y, z).operators # <<>> /\ Last(Ready2(op, x, y, z).operators) = "*"
    BY DEF Ready2, Held, Last
  <2>2. Precedence("*") >= p
    BY <1>3 DEF Precedence
  <2>3. QED
    BY <2>1, <2>2, ReduceShapes, Zenon DEF Reduce
<1>4. \A x : ReduceAll(Ready0(x), p) = Ready0(x)
  BY <1>1, Zenon DEF ReduceAll
<1>5. ASSUME NEW op, NEW x, NEW y
      PROVE  /\ Precedence(op) >= p => ReduceAll(Ready1(op, x, y), p) = Ready0(Apply(op, x, y))
             /\ ~ Precedence(op) >= p => ReduceAll(Ready1(op, x, y), p) = Ready1(op, x, y)
  BY <1>1, <1>2, Zenon DEF ReduceAll
<1>6. ASSUME p <= 2, NEW op, NEW x, NEW y, NEW z
      PROVE  /\ Precedence(op) >= p => ReduceAll(Ready2(op, x, y, z), p) = Ready0(Apply(op, x, Apply("*", y, z)))
             /\ ~ Precedence(op) >= p => ReduceAll(Ready2(op, x, y, z), p) = Ready1(op, x, Apply("*", y, z))
  <2>1. PICK w : w = Apply("*", y, z)
    OBVIOUS
  <2>2. ReduceAll(Ready2(op, x, y, z), p) = Reduce(Ready1(op, x, w), p)
    BY <1>3, <1>6, <2>1, Zenon DEF ReduceAll
  <2>3. /\ Precedence(op) >= p => Reduce(Ready1(op, x, w), p) = Ready0(Apply(op, x, w))
        /\ ~ Precedence(op) >= p => Reduce(Ready1(op, x, w), p) = Ready1(op, x, w)
    BY <1>2
  <2>4. QED
    BY <2>1, <2>2, <2>3, Zenon
<1>7. QED
  BY <1>4, <1>5, <1>6, Zenon DEF Leaves

-----------------------------------------------------------------------------
(* One token more of an expression. *)

\* A sign and a product.
LEMMA SignedTimes == \A op : \A x, y \in Int : Signed(op, x) * y = Signed(op, x * y)
BY DEF Signed

\* What the operators come to.
LEMMA Applied ==
  ASSUME NEW op, NEW x \in Int, NEW y \in Int
  PROVE  /\ Apply("*", x, y) = x * y /\ x * y \in Int
         /\ op \in PlusMinus => Apply(op, x, y) = x + Signed(op, y) /\ x + Signed(op, y) \in Int
BY DEF Signed, PlusMinus, Apply

\* Of three.
LEMMA ListThree == ASSUME NEW X, NEW w \in Seq(X), Len(w) = 3 PROVE w = <<w[1], w[2], w[3]>>
OBVIOUS

\* Short lists with one element more.
LEMMA AppendShort ==
  /\ \A v : Append(<<>>, v) = <<v>>
  /\ \A x, v : Append(<<x>>, v) = <<x, v>>
  /\ \A x, y, v : Append(<<x, y>>, v) = <<x, y, v>>
<1>1. ASSUME NEW v PROVE Append(<<>>, v) = <<v>>
  OBVIOUS
<1>2. ASSUME NEW x, NEW v PROVE Append(<<x>>, v) = <<x, v>>
  <2>1. PICK u : u = <<x>>
    OBVIOUS
  <2>2. u \in Seq({x, v}) /\ Len(u) = 1 /\ u[1] = x /\ v \in {x, v} /\ 1 \in 1 .. 1
    BY <2>1
  <2>3. PICK w : w = Append(u, v)
    OBVIOUS
  <2>4. w \in Seq({x, v}) /\ Len(w) = 2 /\ w[1] = x /\ w[2] = v
    BY <2>2, <2>3, Appended
  <2>5. w = <<w[1], w[2]>>
    BY <2>4, ListTwo
  <2>6. QED
    BY <2>1, <2>3, <2>4, <2>5, Zenon
<1>3. ASSUME NEW x, NEW y, NEW v PROVE Append(<<x, y>>, v) = <<x, y, v>>
  <2>1. PICK u : u = <<x, y>>
    OBVIOUS
  <2>2. u \in Seq({x, y, v}) /\ Len(u) = 2 /\ u[1] = x /\ u[2] = y /\ v \in {x, y, v}
    BY <2>1
  <2>3. PICK w : w = Append(u, v)
    OBVIOUS
  <2>4. w \in Seq({x, y, v}) /\ Len(w) = 3 /\ w[1] = x /\ w[2] = y /\ w[3] = v
    BY <2>2, <2>3, Appended
  <2>5. w = <<w[1], w[2], w[3]>>
    BY <2>4, ListThree
  <2>6. QED
    BY <2>1, <2>3, <2>4, <2>5, Zenon
<1>4. QED
  BY <1>1, <1>2, <1>3

\* An operand or an operator more.
LEMMA OneMore ==
  \A d, e, v : /\ WithOperand(Held(d, e), v) = Held(Append(d, v), e)
               /\ WithOperator(Held(d, e), v) = Held(d, Append(e, v))
<1> SUFFICES ASSUME NEW d, NEW e, NEW v
             PROVE  /\ WithOperand(Held(d, e), v) = Held(Append(d, v), e)
                    /\ WithOperator(Held(d, e), v) = Held(d, Append(e, v))
  OBVIOUS
<1>1. PICK f : f = FALSE
  OBVIOUS
<1>2. PICK x : x = Append(d, v)
  OBVIOUS
<1>3. PICK y : y = Append(e, v)
  OBVIOUS
<1>4. PICK n : n = Held(d, e)
  OBVIOUS
<1>5. n = [operands |-> d, operators |-> e, split |-> f]
  BY <1>1, <1>4, Zenon DEF Held
<1>6. n.operands = d /\ n.operators = e
  BY <1>5
<1>7. [n EXCEPT !.operands = x] = [operands |-> x, operators |-> e, split |-> f]
  BY <1>5
<1>8. [n EXCEPT !.operators = y] = [operands |-> d, operators |-> y, split |-> f]
  BY <1>5
<1>9. [n EXCEPT !.operands = x] = Held(x, e) /\ [n EXCEPT !.operators = y] = Held(d, y)
  BY <1>1, <1>7, <1>8, Zenon DEF Held
<1>10. WithOperand(n, v) = [n EXCEPT !.operands = Append(n.operands, v)]
      /\ WithOperator(n, v) = [n EXCEPT !.operators = Append(n.operators, v)]
  BY Zenon DEF WithOperand, WithOperator
<1>11. QED
  BY <1>2, <1>3, <1>4, <1>6, <1>9, <1>10, Zenon

\* An operand behind what waits.
LEMMA OperandShapes ==
  /\ \A v : WithOperand(NoNumber, v) = Ready0(v)
  /\ \A op, x, v : WithOperand(Open1(op, x), v) = Ready1(op, x, v)
  /\ \A op, x, y, v : WithOperand(Open2(op, x, y), v) = Ready2(op, x, y, v)
<1>0. NoNumber = Held(<<>>, <<>>)
  BY DEF NoNumber, Held
<1>1. ASSUME NEW v PROVE WithOperand(NoNumber, v) = Ready0(v)
  <2>1. WithOperand(NoNumber, v) = Held(Append(<<>>, v), <<>>)
    BY <1>0, OneMore, Zenon
  <2>2. Append(<<>>, v) = <<v>>
    BY AppendShort
  <2>3. QED
    BY <2>1, <2>2, Zenon DEF Ready0
<1>2. ASSUME NEW op, NEW x, NEW v PROVE WithOperand(Open1(op, x), v) = Ready1(op, x, v)
  <2>1. WithOperand(Open1(op, x), v) = Held(Append(<<x>>, v), <<op>>)
    BY OneMore, Zenon DEF Open1
  <2>2. Append(<<x>>, v) = <<x, v>>
    BY AppendShort
  <2>3. QED
    BY <2>1, <2>2, Zenon DEF Ready1
<1>3. ASSUME NEW op, NEW x, NEW y, NEW v PROVE WithOperand(Open2(op, x, y), v) = Ready2(op, x, y, v)
  <2>1. WithOperand(Open2(op, x, y), v) = Held(Append(<<x, y>>, v), <<op, "*">>)
    BY OneMore, Zenon DEF Open2
  <2>2. Append(<<x, y>>, v) = <<x, y, v>>
    BY AppendShort
  <2>3. QED
    BY <2>1, <2>2, Zenon DEF Ready2
<1>4. QED
  BY <1>1, <1>2, <1>3

\* An operator behind it.
LEMMA OperatorShapes ==
  /\ \A op, x : WithOperator(Ready0(x), op) = Open1(op, x)
  /\ \A op, x, y : WithOperator(Ready1(op, x, y), "*") = Open2(op, x, y)
<1>1. ASSUME NEW op, NEW x PROVE WithOperator(Ready0(x), op) = Open1(op, x)
  <2>1. WithOperator(Ready0(x), op) = Held(<<x>>, Append(<<>>, op))
    BY OneMore, Zenon DEF Ready0
  <2>2. Append(<<>>, op) = <<op>>
    BY AppendShort
  <2>3. QED
    BY <2>1, <2>2, Zenon DEF Open1
<1>2. ASSUME NEW op, NEW x, NEW y PROVE WithOperator(Ready1(op, x, y), "*") = Open2(op, x, y)
  <2>1. WithOperator(Ready1(op, x, y), "*") = Held(<<x, y>>, Append(<<op>>, "*"))
    BY OneMore, Zenon DEF Ready1
  <2>2. Append(<<op>>, "*") = <<op, "*">>
    BY AppendShort
  <2>3. QED
    BY <2>1, <2>2, Zenon DEF Open2
<1>3. QED
  BY <1>1, <1>2

\* A number alone.
LEMMA NumberFirst ==
  ASSUME NEW S, NEW t \in S, t.tok = "number", t.value \in Int
  PROVE  Computed(WithOperand(NoNumber, t.value), Append(<<>>, t))
<1>1. PICK a : a = Append(<<>>, t)
  OBVIOUS
<1>2. a \in Seq(S) /\ Len(a) = 1 /\ a[1] = t /\ DOMAIN a = 1 .. 1
  BY <1>1
<1>3. \A i \in DOMAIN a : i % 2 = 1 /\ a[i] = t
  BY <1>2
<1>4. Alternates(a) /\ NoQuotient(a)
  BY <1>2, <1>3 DEF Alternates, NoQuotient
<1>5. Stands(Ready0(t.value), a)
  BY <1>2 DEF Stands
<1>6. QED
  BY <1>1, <1>4, <1>5, OperandShapes, Zenon DEF Computed

\* A list is what is in front and the last.
LEMMA FrontLast ==
  ASSUME NEW S, NEW c \in Seq(S), c # <<>>
  PROVE  Front(c) \in Seq(S) /\ Last(c) \in S /\ c = Append(Front(c), Last(c))
<1>1. PICK n \in Nat : Len(c) = n
  OBVIOUS
<1>2. n > 0
  BY <1>1
<1>3. PICK m \in Nat : n = m + 1 /\ m = n - 1
  BY <1>2
<1>4. c[n] \in S /\ Last(c) = c[n] /\ Front(c) = SubSeq(c, 1, m)
  BY <1>1, <1>2, <1>3 DEF Last, Front
<1>5. PICK f : f = SubSeq(c, 1, m)
  OBVIOUS
<1>6. f \in Seq(S) /\ Len(f) = m /\ \A i \in 1 .. m : f[i] = c[i]
  BY <1>1, <1>3, <1>5
<1>7. PICK x \in S : x = c[n]
  BY <1>4
<1>8. /\ Append(f, x) \in Seq(S) /\ Len(Append(f, x)) = m + 1 /\ Append(f, x)[m + 1] = x
      /\ \A i \in 1 .. m : Append(f, x)[i] = f[i]
  BY <1>6, Appended
<1>9. \A i \in 1 .. n : Append(f, x)[i] = c[i]
  BY <1>3, <1>6, <1>7, <1>8
<1>10. c = Append(f, x)
  BY <1>1, <1>3, <1>8, <1>9, SameList
<1>11. QED
  BY <1>4, <1>5, <1>6, <1>7, <1>10

\* A number behind an operator.
LEMMA NumberNext ==
  ASSUME NEW S, NEW c \in Seq(S), NEW t \in S, t.tok = "number", t.value \in Int, NEW n, Awaiting(n, c)
  PROVE  Computed(WithOperand(n, t.value), Append(c, t))
<1>1. PICK a : a = Front(c)
  OBVIOUS
<1>2. PICK o : o = Last(c)
  OBVIOUS
<1>3. PICK b : b = Append(c, t)
  OBVIOUS
<1>4. PICK v \in Int : v = t.value
  OBVIOUS
<1>5. PICK r : r = WithOperand(n, v)
  OBVIOUS
<1>6. c # <<>> /\ Alternates(a)
  BY <1>1 DEF Awaiting
<1>7. a \in Seq(S) /\ o \in S /\ c = Append(a, o)
  BY <1>1, <1>2, <1>6, FrontLast
<1>8. Onward(S, b, a, o, t)
  BY <1>3, <1>6, <1>7 DEF Onward
<1>9. PICK k \in Nat : Len(a) = 2 * k - 1 /\ Len(b) = 2 * k + 1 /\ b[2 * k] = o /\ b[2 * k + 1] = t /\ Agree(a, b, 2 * k - 1)
  BY <1>8, OnwardIs
<1>10. CASE Len(c) = 2 /\ o.tok = "/" /\ n = Open1("/", c[1].value)
  <2>1. Len(a) = 1 /\ c[1] = a[1]
    <3>1. PICK l \in Nat : Len(a) = l
      BY <1>7
    <3>2. Len(c) = l + 1 /\ \A i \in 1 .. l : c[i] = a[i]
      BY <1>7, <3>1, Appended
    <3>3. l + 1 = 2
      BY <1>10, <3>2
    <3>4. l = 1
      BY <3>3
    <3>5. QED
      BY <3>1, <3>2, <3>4
  <2>2. k = 1 /\ Len(b) = 3 /\ b[2] = o /\ b[3] = t /\ b[1] = a[1]
    <3>1. 2 * k - 1 = 1
      BY <1>9, <2>1
    <3>2. k = 1 /\ 1 \in 1 .. 2 * k - 1
      BY <3>1
    <3>3. QED
      BY <1>9, <3>2 DEF Agree
  <2>3. Alternates(b)
    BY <1>8, <1>10, AlternatesMore DEF Operators
  <2>4. r = Ready1("/", c[1].value, v)
    BY <1>5, <1>10, OperandShapes, Zenon
  <2>5. QED
    BY <1>3, <1>4, <1>5, <1>10, <2>1, <2>2, <2>3, <2>4, Zenon DEF Computed
<1>11. CASE NoQuotient(c) /\ Awaits(n, o.tok, TermsOf(a))
  <2>1. o.tok \in Operators /\ o.tok # "/"
    BY <1>11 DEF Awaits, Operators, PlusMinus
  <2>2. NoQuotient(a)
    <3>1. \A i \in DOMAIN a : i \in DOMAIN c /\ c[i] = a[i]
      <4>1. PICK l \in Nat : Len(a) = l
        BY <1>7
      <4>2. Len(c) = l + 1 /\ c \in Seq(S) /\ \A i \in 1 .. l : c[i] = a[i]
        BY <1>7, <4>1, Appended
      <4>3. DOMAIN a = 1 .. l /\ DOMAIN c = 1 .. l + 1
        BY <1>7, <4>1, <4>2
      <4>4. QED
        BY <4>2, <4>3
    <3>2. QED
      BY <1>11, <3>1 DEF NoQuotient
  <2>3. Alternates(b) /\ NoQuotient(b)
    BY <1>8, <2>1, <2>2, AlternatesMore
  <2>4. PICK s : s = TermsOf(a)
    OBVIOUS
  <2>5. PICK w : w = TermsOf(b)
    OBVIOUS
  <2>6. IsSum(s) /\ w = NextTerm(s, o.tok, v)
    BY <1>4, <1>8, <2>4, <2>5, TermsMore
  <2>7. /\ o.tok = "*" => w.before = s.before /\ w.term = s.term * v
        /\ o.tok # "*" => w.before = s.before + s.term /\ w.term = Signed(o.tok, v)
    BY <2>6, NextTermIs DEF Signed
  <2>8. Stands(r, b)
    <3>1. CASE o.tok = "*" /\ \E x \in Int : n = Open1(o.tok, x) /\ Amounts(s, 0, x)
      <4>1. PICK x \in Int : n = Open1("*", x) /\ Amounts(s, 0, x)
        BY <3>1
      <4>2. r = Ready1("*", x, v)
        BY <1>5, <4>1, OperandShapes, Zenon
      <4>3. Amounts(w, 0, x * v)
        BY <2>7, <3>1, <4>1 DEF Amounts
      <4>4. QED
        BY <2>5, <4>2, <4>3, Zenon DEF Stands
    <3>2. CASE o.tok \in PlusMinus /\ \E x \in Int : n = Open1(o.tok, x) /\ s.before + s.term = x
      <4>1. PICK x \in Int : n = Open1(o.tok, x) /\ s.before + s.term = x
        BY <3>2
      <4>2. r = Ready1(o.tok, x, v)
        BY <1>5, <4>1, OperandShapes, Zenon
      <4>3. Amounts(w, x, Signed(o.tok, v))
        BY <2>7, <3>2, <4>1 DEF Amounts, PlusMinus
      <4>4. QED
        BY <2>5, <3>2, <4>2, <4>3, Zenon DEF Stands
    <3>3. CASE o.tok = "*" /\ \E op \in PlusMinus, x, y \in Int : n = Open2(op, x, y) /\ Amounts(s, x, Signed(op, y))
      <4>1. PICK op \in PlusMinus, x \in Int, y \in Int : n = Open2(op, x, y) /\ Amounts(s, x, Signed(op, y))
        BY <3>3
      <4>2. r = Ready2(op, x, y, v)
        BY <1>5, <4>1, OperandShapes, Zenon
      <4>3. Signed(op, y) * v = Signed(op, y * v)
        BY SignedTimes, Zenon
      <4>4. Amounts(w, x, Signed(op, y * v))
        BY <2>7, <3>3, <4>1, <4>3, Zenon DEF Amounts
      <4>5. QED
        BY <2>5, <4>2, <4>4, Zenon DEF Stands
    <3>4. QED
      BY <1>11, <2>4, <3>1, <3>2, <3>3, Zenon DEF Awaits
  <2>9. QED
    BY <1>3, <1>4, <1>5, <2>3, <2>8, Zenon DEF Computed
<1>12. QED
  BY <1>1, <1>2, <1>10, <1>11, Zenon DEF Awaiting

\* What an operator reduces, when it splits nothing.
LEMMA OperatorIs ==
  ASSUME NEW op, ~ Operator(op).split, NEW d, NEW e, number = Held(d, e)
  PROVE  /\ Operator(op) = WithOperator(ReduceAll(number, Precedence(op)), op)
         /\ e # <<>> => op # "/" /\ Last(e) # "/"
<1>1. PICK f : f = TRUE
  OBVIOUS
<1>2. PICK n : n = number
  OBVIOUS
<1>3. n.operators = e
  BY <1>2 DEF Held
<1>4. [n EXCEPT !.split = f].split = f
  <2>1. PICK g : g = FALSE
    OBVIOUS
  <2>2. n = [operands |-> d, operators |-> e, split |-> g]
    BY <1>2, <2>1, Zenon DEF Held
  <2>3. QED
    BY <2>2
<1>5. [number EXCEPT !.split = TRUE].split
  BY <1>1, <1>2, <1>4, Zenon
<1>6. ~ (number.split \/ (number.operators # <<>> /\ "/" \in {op, Last(number.operators)}))
  BY <1>5, Zenon DEF Operator
<1>7. Operator(op) = WithOperator(ReduceAll(number, Precedence(op)), op)
  BY <1>6, Zenon DEF Operator, WithOperator
<1>8. QED
  BY <1>2, <1>3, <1>6, <1>7, Zenon

\* An operator behind a number.
LEMMA OperatorNext ==
  ASSUME NEW S, NEW a \in Seq(S), NEW t \in S, t.tok \in Operators, Computed(number, a), ~ Operator(t.tok).split
  PROVE  Awaiting(Operator(t.tok), Append(a, t))
<1>1. PICK op : op = t.tok
  OBVIOUS
<1>2. PICK b : b = Append(a, t)
  OBVIOUS
<1>3. PICK r : r = Operator(op)
  OBVIOUS
<1>4. PICK s : s = TermsOf(a)
  OBVIOUS
<1>5. PICK p \in Nat : p = Precedence(op)
  <2>1. \A o \in Operators : Precedence(o) \in {0, 1, 2}
    BY DEF Precedence, Operators
  <2>2. QED
    BY <1>1, <2>1
<1>6. /\ op \in {"+", "-", "*", "/"} /\ Precedence("*") = 2 /\ p <= 2
      /\ op \in PlusMinus => p = 1
      /\ op = "*" => p = 2
  BY <1>1, <1>5 DEF Precedence, Operators, PlusMinus
<1>7. \A o \in PlusMinus : Precedence(o) = 1
  BY DEF Precedence, PlusMinus
<1>8. b # <<>> /\ Front(b) = a /\ Last(b) = t /\ Alternates(a)
  BY <1>2, FrontIs DEF Computed
<1>9. \A d, e : number = Held(d, e) => r = WithOperator(ReduceAll(number, p), op) /\ (e # <<>> => op # "/" /\ Last(e) # "/")
  <2> SUFFICES ASSUME NEW d, NEW e, number = Held(d, e)
               PROVE  r = WithOperator(ReduceAll(number, p), op) /\ (e # <<>> => op # "/" /\ Last(e) # "/")
    OBVIOUS
  <2>1. ~ Operator(op).split
    BY <1>1, Zenon
  <2>2. /\ Operator(op) = WithOperator(ReduceAll(number, Precedence(op)), op)
        /\ e # <<>> => op # "/" /\ Last(e) # "/"
    BY <2>1, OperatorIs, Zenon
  <2>3. QED
    BY <1>3, <1>5, <2>2, Zenon
<1>10. ASSUME NoQuotient(a), op # "/" PROVE NoQuotient(b)
  <2>1. \A i \in DOMAIN b : (i \in DOMAIN a /\ b[i] = a[i]) \/ b[i] = t
    BY <1>2, OldOrNew
  <2>2. QED
    BY <1>1, <1>10, <2>1 DEF NoQuotient
<1>11. ASSUME NoQuotient(a), op # "/", Awaits(r, op, s) PROVE Awaiting(r, b)
  BY <1>1, <1>4, <1>8, <1>10, <1>11, Zenon DEF Awaiting
<1>12. \A o : <<o>> # <<>> /\ <<o, "*">> # <<>> /\ Last(<<o>>) = o
  BY DEF Last
<1>13. Leaves(p)
  BY ReduceLeaves
<1>14. \A o, x, y, z :
         /\ Precedence(o) >= p => ReduceAll(Ready2(o, x, y, z), p) = Ready0(Apply(o, x, Apply("*", y, z)))
         /\ ~ Precedence(o) >= p => ReduceAll(Ready2(o, x, y, z), p) = Ready1(o, x, Apply("*", y, z))
  BY <1>6, <1>13, Zenon DEF Leaves
<1>15. \A x : number = Ready0(x) => r = Open1(op, x)
  BY <1>9, <1>13, OperatorShapes, Zenon DEF Ready0, Leaves
<1>16. \A o, x, y : number = Ready1(o, x, y) =>
         /\ op # "/" /\ o # "/"
         /\ Precedence(o) >= p => r = Open1(op, Apply(o, x, y))
         /\ ~ Precedence(o) >= p /\ op = "*" => r = Open2(o, x, y)
  <2> SUFFICES ASSUME NEW o, NEW x, NEW y, number = Ready1(o, x, y)
               PROVE  /\ op # "/" /\ o # "/"
                      /\ Precedence(o) >= p => r = Open1(op, Apply(o, x, y))
                      /\ ~ Precedence(o) >= p /\ op = "*" => r = Open2(o, x, y)
    OBVIOUS
  <2>1. number = Held(<<x, y>>, <<o>>)
    BY Zenon DEF Ready1
  <2>2. r = WithOperator(ReduceAll(Ready1(o, x, y), p), op) /\ op # "/" /\ o # "/"
    BY <1>9, <1>12, <2>1, Zenon
  <2>3. /\ Precedence(o) >= p => ReduceAll(Ready1(o, x, y), p) = Ready0(Apply(o, x, y))
        /\ ~ Precedence(o) >= p => ReduceAll(Ready1(o, x, y), p) = Ready1(o, x, y)
    BY <1>13, Zenon DEF Leaves
  <2>4. QED
    BY <2>2, <2>3, OperatorShapes, Zenon
<1>17. \A o, x, y, z : number = Ready2(o, x, y, z) =>
         /\ op # "/"
         /\ Precedence(o) >= p => r = Open1(op, Apply(o, x, Apply("*", y, z)))
         /\ ~ Precedence(o) >= p /\ op = "*" => r = Open2(o, x, Apply("*", y, z))
  <2> SUFFICES ASSUME NEW o, NEW x, NEW y, NEW z, number = Ready2(o, x, y, z)
               PROVE  /\ op # "/"
                      /\ Precedence(o) >= p => r = Open1(op, Apply(o, x, Apply("*", y, z)))
                      /\ ~ Precedence(o) >= p /\ op = "*" => r = Open2(o, x, Apply("*", y, z))
    OBVIOUS
  <2>1. number = Held(<<x, y, z>>, <<o, "*">>)
    BY Zenon DEF Ready2
  <2>2. r = WithOperator(ReduceAll(Ready2(o, x, y, z), p), op) /\ op # "/"
    BY <1>9, <1>12, <2>1, Zenon
  <2>3. /\ Precedence(o) >= p => ReduceAll(Ready2(o, x, y, z), p) = Ready0(Apply(o, x, Apply("*", y, z)))
        /\ ~ Precedence(o) >= p => ReduceAll(Ready2(o, x, y, z), p) = Ready1(o, x, Apply("*", y, z))
    BY <1>14, Zenon
  <2>4. QED
    BY <2>2, <2>3, OperatorShapes, Zenon
<1>18. CASE NoQuotient(a) /\ \E x \in Int : number = Ready0(x) /\ Len(a) = 1 /\ x = a[1].value
  <2>1. PICK x \in Int : number = Ready0(x) /\ Len(a) = 1 /\ x = a[1].value
    BY <1>18
  <2>2. r = Open1(op, x)
    BY <1>15, <2>1
  <2>3. s.before = 0 /\ s.term = x
    BY <1>4, <2>1, TermsOne
  <2>4. CASE op = "/"
    <3>1. Len(b) = 2 /\ b[1] = a[1]
      <4>1. PICK l \in Nat : l = 1
        OBVIOUS
      <4>2. Len(a) = l
        BY <2>1, <4>1
      <4>3. Len(b) = l + 1 /\ \A k \in 1 .. l : b[k] = a[k]
        BY <1>2, <4>2, Appended
      <4>4. QED
        BY <4>1, <4>3
    <3>2. QED
      BY <1>1, <1>2, <1>3, <1>8, <2>1, <2>2, <2>4, <3>1, Zenon DEF Awaiting
  <2>5. CASE op # "/"
    <3>1. Awaits(r, op, s)
      <4>1. op = "*" \/ op \in PlusMinus
        BY <1>6, <2>5 DEF PlusMinus
      <4>2. Amounts(s, 0, x) /\ s.before + s.term = x
        BY <2>3 DEF Amounts
      <4>3. QED
        BY <2>2, <4>1, <4>2, Zenon DEF Awaits
    <3>2. QED
      BY <1>1, <1>2, <1>3, <1>11, <1>18, <2>5, <3>1, Zenon
  <2>6. QED
    BY <1>1, <1>2, <1>3, <2>4, <2>5, Zenon
<1>19. CASE NoQuotient(a) /\ \E x, y \in Int : number = Ready1("*", x, y) /\ Amounts(s, 0, x * y)
  <2>1. PICK x \in Int, y \in Int : number = Ready1("*", x, y) /\ Amounts(s, 0, x * y)
    BY <1>19
  <2>2. op # "/" /\ r = Open1(op, Apply("*", x, y))
    <3>1. Precedence("*") >= p
      BY <1>6
    <3>2. QED
      BY <1>16, <2>1, <3>1, Zenon
  <2>3. PICK v \in Int : v = x * y /\ Apply("*", x, y) = v
    BY Applied
  <2>4. op = "*" \/ op \in PlusMinus
    BY <1>6, <2>2 DEF PlusMinus
  <2>5. Amounts(s, 0, v) /\ s.before + s.term = v
    BY <2>1, <2>3 DEF Amounts
  <2>6. Awaits(r, op, s)
    BY <2>2, <2>3, <2>4, <2>5, Zenon DEF Awaits
  <2>7. QED
    BY <1>1, <1>2, <1>3, <1>11, <1>19, <2>2, <2>6, Zenon
<1>20. CASE NoQuotient(a) /\ \E o \in PlusMinus, x, y \in Int : number = Ready1(o, x, y) /\ Amounts(s, x, Signed(o, y))
  <2>1. PICK o \in PlusMinus, x \in Int, y \in Int : number = Ready1(o, x, y) /\ Amounts(s, x, Signed(o, y))
    BY <1>20
  <2>2. op # "/"
    BY <1>16, <2>1, Zenon
  <2>3. ASSUME op = "*" PROVE Awaits(r, op, s)
    <3>1. ~ Precedence(o) >= p
      BY <1>6, <1>7, <2>3
    <3>2. r = Open2(o, x, y)
      BY <1>16, <2>1, <2>3, <3>1, Zenon
    <3>3. QED
      BY <2>1, <2>3, <3>2, Zenon DEF Awaits
  <2>4. ASSUME op \in PlusMinus PROVE Awaits(r, op, s)
    <3>1. Precedence(o) >= p
      BY <1>6, <1>7, <2>4
    <3>2. r = Open1(op, Apply(o, x, y))
      BY <1>16, <2>1, <3>1, Zenon
    <3>3. PICK v \in Int : v = Apply(o, x, y) /\ v = x + Signed(o, y)
      BY Applied
    <3>4. s.before + s.term = v
      BY <2>1, <3>3, Zenon DEF Amounts
    <3>5. QED
      BY <2>4, <3>2, <3>3, <3>4, Zenon DEF Awaits
  <2>5. Awaits(r, op, s)
    BY <1>6, <2>2, <2>3, <2>4 DEF PlusMinus
  <2>6. QED
    BY <1>1, <1>2, <1>3, <1>11, <1>20, <2>2, <2>5, Zenon
<1>21. CASE NoQuotient(a) /\ \E o \in PlusMinus, x, y, z \in Int :
              number = Ready2(o, x, y, z) /\ Amounts(s, x, Signed(o, y * z))
  <2>1. PICK o \in PlusMinus, x \in Int, y \in Int, z \in Int :
               number = Ready2(o, x, y, z) /\ Amounts(s, x, Signed(o, y * z))
    BY <1>21
  <2>2. op # "/"
    BY <1>17, <2>1, Zenon
  <2>3. PICK w \in Int : w = y * z /\ Apply("*", y, z) = w
    BY Applied
  <2>4. ASSUME op = "*" PROVE Awaits(r, op, s)
    <3>1. ~ Precedence(o) >= p
      BY <1>6, <1>7, <2>4
    <3>2. r = Open2(o, x, w)
      BY <1>17, <2>1, <2>3, <2>4, <3>1, Zenon
    <3>3. Amounts(s, x, Signed(o, w))
      BY <2>1, <2>3, Zenon
    <3>4. QED
      BY <2>4, <3>2, <3>3, Zenon DEF Awaits
  <2>5. ASSUME op \in PlusMinus PROVE Awaits(r, op, s)
    <3>1. Precedence(o) >= p
      BY <1>6, <1>7, <2>5
    <3>2. r = Open1(op, Apply(o, x, w))
      BY <1>17, <2>1, <2>3, <3>1, Zenon
    <3>3. PICK v \in Int : v = Apply(o, x, w) /\ v = x + Signed(o, w)
      BY Applied
    <3>4. s.before + s.term = v
      BY <2>1, <2>3, <3>3, Zenon DEF Amounts
    <3>5. QED
      BY <2>5, <3>2, <3>3, <3>4, Zenon DEF Awaits
  <2>6. Awaits(r, op, s)
    BY <1>6, <2>2, <2>4, <2>5 DEF PlusMinus
  <2>7. QED
    BY <1>1, <1>2, <1>3, <1>11, <1>21, <2>2, <2>6, Zenon
<1>22. CASE Len(a) = 3 /\ a[2].tok = "/" /\ number = Ready1("/", a[1].value, a[3].value)
  BY <1>16, <1>22, Zenon
<1>23. QED
  BY <1>1, <1>2, <1>3, <1>4, <1>18, <1>19, <1>20, <1>21, <1>22, Zenon DEF Computed, Stands

\* The end of an expression.
LEMMA NumberEnd ==
  ASSUME NEW S, NEW a \in Seq(S), NEW n, Computed(n, a), ~ (n.operators = <<"/">> /\ Last(n.operands) = 0)
  PROVE  IsArgument(a) /\ ParamOf(a) = Num(Head(ReduceAll(n, 0).operands))
<1>1. PICK v : v = Head(ReduceAll(n, 0).operands)
  OBVIOUS
<1>2. Alternates(a)
  BY DEF Computed
<1>3. a[1].tok = "number"
  <2>1. PICK l \in Nat : l = Len(a)
    OBVIOUS
  <2>2. l % 2 = 1
    BY <1>2, <2>1 DEF Alternates
  <2>3. l > 0
    BY <2>2
  <2>4. 1 \in DOMAIN a /\ 1 % 2 = 1
    BY <2>1, <2>3
  <2>5. QED
    BY <1>2, <2>4 DEF Alternates
<1>4. /\ Toks(a) # <<"name">> /\ Toks(a) # <<"string">>
      /\ Toks(a) # <<"%", "name">> /\ Toks(a) # <<"\\", "name">>
  <2>1. Toks(a) # One("name") /\ Toks(a) # One("string")
    BY <1>3, ToksOne DEF IsOne
  <2>2. Toks(a) # Two("%", "name") /\ Toks(a) # Two("\\", "name")
    BY <1>3, ToksTwo DEF IsTwo
  <2>3. QED
    BY <2>1, <2>2, Zenon DEF One, Two
<1>5. ParamOf(a) = Num(ValueOf(a))
  BY <1>4, Zenon DEF ParamOf
<1>6. /\ Precedence("*") >= 0 /\ Precedence("/") >= 0
      /\ \A op \in PlusMinus : Precedence(op) >= 0
  BY DEF Precedence, PlusMinus
<1>7. Leaves(0) /\ 0 <= 2
  BY ReduceLeaves
<1>8. \A x : Head(Ready0(x).operands) = x
  BY DEF Ready0, Held
<1>9. CASE Len(a) = 3 /\ a[2].tok = "/" /\ n = Ready1("/", a[1].value, a[3].value)
  <2>1. n.operators = <<"/">> /\ Last(n.operands) = a[3].value
    <3>1. PICK x : x = a[1].value
      OBVIOUS
    <3>2. PICK y : y = a[3].value
      OBVIOUS
    <3>3. n.operators = <<"/">> /\ n.operands = <<x, y>>
      BY <1>9, <3>1, <3>2 DEF Ready1, Held
    <3>4. Last(<<x, y>>) = y
      BY DEF Last
    <3>5. QED
      BY <3>2, <3>3, <3>4, Zenon
  <2>2. a[3].value # 0
    BY <2>1
  <2>3. IsExpression(a)
    BY <1>2, <1>9, <2>2, Zenon DEF IsExpression, Alternates
  <2>4. ReduceAll(n, 0) = Ready0(Apply("/", a[1].value, a[3].value))
    BY <1>6, <1>7, <1>9, Zenon DEF Leaves
  <2>5. Apply("/", a[1].value, a[3].value) = Quotient(a[1].value, a[3].value)
    BY DEF Apply
  <2>6. ValueOf(a) = Quotient(a[1].value, a[3].value)
    BY <1>9, Zenon DEF ValueOf
  <2>7. v = ValueOf(a)
    BY <1>1, <1>8, <2>4, <2>5, <2>6, Zenon
  <2>8. QED
    BY <1>1, <1>5, <2>3, <2>7, Zenon DEF IsArgument
<1>10. CASE NoQuotient(a) /\ Stands(n, a)
  <2>1. PICK s : s = TermsOf(a)
    OBVIOUS
  <2>2. IsExpression(a)
    BY <1>2, <1>10 DEF IsExpression, Alternates, NoQuotient
  <2>3. ValueOf(a) = s.before + s.term
    <3>1. Len(a) = 3 => a[2].tok # "/"
      <4>1. Len(a) = 3 => 2 \in DOMAIN a
        OBVIOUS
      <4>2. QED
        BY <1>10, <4>1 DEF NoQuotient
    <3>2. QED
      BY <2>1, <3>1, Zenon DEF ValueOf
  <2>4. ASSUME NEW x \in Int, n = Ready0(x), Len(a) = 1, x = a[1].value
        PROVE  v = s.before + s.term
    <3>1. s.before + s.term = x
      BY <2>1, <2>4, TermsOne
    <3>2. v = x
      BY <1>1, <1>7, <1>8, <2>4, Zenon DEF Leaves
    <3>3. QED
      BY <3>1, <3>2
  <2>5. ASSUME NEW x \in Int, NEW y \in Int, n = Ready1("*", x, y), Amounts(s, 0, x * y)
        PROVE  v = s.before + s.term
    <3>1. PICK w \in Int : w = x * y /\ w = Apply("*", x, y)
      BY Applied
    <3>2. v = w
      <4>1. ReduceAll(n, 0) = Ready0(Apply("*", x, y))
        BY <1>6, <1>7, <2>5, Zenon DEF Leaves
      <4>2. QED
        BY <1>1, <1>8, <3>1, <4>1, Zenon
    <3>3. s.before + s.term = w
      BY <2>5, <3>1 DEF Amounts
    <3>4. QED
      BY <3>2, <3>3
  <2>6. ASSUME NEW op \in PlusMinus, NEW x \in Int, NEW y \in Int, n = Ready1(op, x, y), Amounts(s, x, Signed(op, y))
        PROVE  v = s.before + s.term
    <3>1. Apply(op, x, y) = x + Signed(op, y)
      BY Applied
    <3>2. v = Apply(op, x, y)
      BY <1>1, <1>6, <1>7, <1>8, <2>6, Zenon DEF Leaves
    <3>3. QED
      BY <2>6, <3>1, <3>2, Zenon DEF Amounts
  <2>7. ASSUME NEW op \in PlusMinus, NEW x \in Int, NEW y \in Int, NEW z \in Int, n = Ready2(op, x, y, z),
               Amounts(s, x, Signed(op, y * z))
        PROVE  v = s.before + s.term
    <3>1. PICK w \in Int : w = y * z /\ w = Apply("*", y, z)
      BY Applied
    <3>2. Apply(op, x, w) = x + Signed(op, w)
      BY Applied
    <3>3. ReduceAll(n, 0) = Ready0(Apply(op, x, Apply("*", y, z)))
      <4>1. \A o, i, j, k : Precedence(o) >= 0 => ReduceAll(Ready2(o, i, j, k), 0) = Ready0(Apply(o, i, Apply("*", j, k)))
        <5>1. Leaves(0) => (0 <= 2 => \A o, i, j, k :
                /\ Precedence(o) >= 0 => ReduceAll(Ready2(o, i, j, k), 0) = Ready0(Apply(o, i, Apply("*", j, k)))
                /\ ~ Precedence(o) >= 0 => ReduceAll(Ready2(o, i, j, k), 0) = Ready1(o, i, Apply("*", j, k)))
          BY Zenon DEF Leaves
        <5>2. QED
          BY <1>7, <5>1, Zenon
      <4>2. QED
        BY <1>6, <2>7, <4>1, Zenon
    <3>4. v = Apply(op, x, w)
      BY <1>1, <1>8, <3>1, <3>3, Zenon
    <3>5. QED
      BY <2>7, <3>1, <3>2, <3>4, Zenon DEF Amounts
  <2>8. v = ValueOf(a)
    BY <1>10, <2>1, <2>3, <2>4, <2>5, <2>6, <2>7, Zenon DEF Stands
  <2>9. QED
    BY <1>1, <1>5, <2>2, <2>8, Zenon DEF IsArgument
<1>11. QED
  BY <1>9, <1>10, Zenon DEF Computed

-----------------------------------------------------------------------------
(* One token more of a line. *)

\* A line with one parameter more.
Plus(line, param) == [line EXCEPT !.params = Append(@, param)]

IsLine(line) == line = Line(line.kind, line.name, line.params)

\* It is the same in all else.
LEMMA PlusIs ==
  ASSUME NEW line, IsLine(line), NEW param
  PROVE  /\ IsLine(Plus(line, param)) /\ Plus(line, param).params = Append(line.params, param)
         /\ Plus(line, param).kind = line.kind /\ Plus(line, param).name = line.name
<1>1. PICK k : k = line.kind
  OBVIOUS
<1>2. PICK n : n = line.name
  OBVIOUS
<1>3. PICK q : q = line.params
  OBVIOUS
<1>4. PICK x : x = Append(q, param)
  OBVIOUS
<1>5. line = [kind |-> k, name |-> n, params |-> q]
  BY <1>1, <1>2, <1>3, Zenon DEF IsLine, Line
<1>6. Plus(line, param) = [line EXCEPT !.params = x]
  BY <1>3, <1>4, Zenon DEF Plus
<1>7. PICK w : w = Plus(line, param)
  OBVIOUS
<1>8. w = [kind |-> k, name |-> n, params |-> x]
  BY <1>5, <1>6, <1>7
<1>9. w.kind = k /\ w.name = n /\ w.params = x
  BY <1>8
<1>10. IsLine(w)
  BY <1>8, <1>9, Zenon DEF IsLine, Line
<1>11. QED
  BY <1>1, <1>2, <1>3, <1>4, <1>7, <1>9, <1>10, Zenon

\* The name of an instruction.
LEMMA InstructionBegins ==
  ASSUME NEW S, NEW t \in S, t.tok = "name"
  PROVE  NameRead(Append(<<>>, t), Insn(t.name, <<>>)) /\ Insn(t.name, <<>>).kind = "instruction"
<1>1. PICK cur : cur = Append(<<>>, t)
  OBVIOUS
<1>2. cur \in Seq(S) /\ Len(cur) = 1 /\ cur[1] = t /\ DOMAIN cur = 1 .. 1
  BY <1>1
<1>3. PICK line : line = Insn(t.name, <<>>)
  OBVIOUS
<1>4. line.kind = "instruction" /\ line.name = t.name /\ line.params = <<>>
  BY <1>3 DEF Insn, Line
<1>5. ArgsAt(line) = 2
  BY <1>4 DEF ArgsAt
<1>6. 2 = Len(cur) + 1
  BY <1>2
<1>7. Given(cur, 2) = <<>> /\ GivenParams(cur, 2) = <<>>
  BY <1>2, <1>6, GivenNone
<1>8. \A i \in DOMAIN cur : cur[i].tok # "string"
  BY <1>2
<1>9. Begun(cur, line)
  BY <1>2, <1>4, <1>5, <1>8 DEF Begun
<1>10. NameRead(cur, line)
  BY <1>2, <1>4, <1>5, <1>7, <1>9 DEF NameRead, ArgsRead
<1>11. QED
  BY <1>1, <1>3, <1>4, <1>10

\* The name of a directive.
LEMMA DirectiveBegins ==
  ASSUME NEW S, NEW c \in Seq(S), IsOne(c, "."), NEW t \in S, t.tok = "name"
  PROVE  NameRead(Append(c, t), Dir(t.name, <<>>)) /\ Dir(t.name, <<>>).kind = "directive"
<1>1. PICK cur : cur = Append(c, t)
  OBVIOUS
<1>2. cur \in Seq(S) /\ IsTwo(cur, ".", "name")
  BY <1>1, PutBehindOne
<1>3. cur[2] = t
  <2>1. cur[Len(c) + 1] = t
    BY <1>1
  <2>2. QED
    BY <2>1 DEF IsOne
<1>4. PICK line : line = Dir(t.name, <<>>)
  OBVIOUS
<1>5. line.kind = "directive" /\ line.name = t.name /\ line.params = <<>>
  BY <1>4 DEF Dir, Line
<1>6. ArgsAt(line) = 3
  BY <1>5 DEF ArgsAt
<1>7. Len(cur) = 2 /\ cur[1].tok = "." /\ cur[2].tok = "name"
  BY <1>2 DEF IsTwo
<1>8. 3 = Len(cur) + 1
  BY <1>7
<1>9. Given(cur, 3) = <<>> /\ GivenParams(cur, 3) = <<>>
  BY <1>2, <1>8, GivenNone
<1>10. Begun(cur, line)
  BY <1>3, <1>5, <1>6, <1>7 DEF Begun
<1>11. NameRead(cur, line)
  BY <1>5, <1>6, <1>7, <1>9, <1>10 DEF NameRead, ArgsRead
<1>12. QED
  BY <1>1, <1>4, <1>5, <1>11

\* Behind the name the first argument may begin.
LEMMA NamedDue ==
  ASSUME NEW S, NEW cur \in Seq(S), NEW line, NameRead(cur, line)
  PROVE  ArgDue(cur, line)
<1>1. PICK p \in Nat : p = Len(cur) + 1
  OBVIOUS
<1>2. ArgsAt(line) = p
  <2>1. Begun(cur, line) /\ Len(cur) = ArgsAt(line) - 1
    BY DEF NameRead, ArgsRead
  <2>2. ArgsAt(line) \in {2, 3}
    BY <2>1, ArgsAtIs
  <2>3. QED
    BY <1>1, <2>1, <2>2
<1>3. Pending(cur, p) = <<>>
  BY <1>1, GivenNone
<1>4. QED
  BY <1>2, <1>3 DEF NameRead, ArgDue, InArg

\* An argument begins.
LEMMA ArgBegins ==
  ASSUME NEW S, NEW cur \in Seq(S), NEW line, ArgDue(cur, line), NEW t \in S, t.tok \notin Commas,
         t.tok = "string" => line.kind = "directive"
  PROVE  /\ ArgsRead(Append(cur, t), line, line.params) /\ InArg(Append(cur, t), line) = Append(<<>>, t)
         /\ Len(Append(cur, t)) >= ArgsAt(line) /\ Append(<<>>, t) \in Seq(S)
         /\ IsOne(InArg(Append(cur, t), line), t.tok)
<1>1. PICK params : params = line.params
  OBVIOUS
<1>2. ArgsRead(cur, line, params) /\ InArg(cur, line) = <<>>
  BY <1>1 DEF ArgDue
<1>3. /\ ArgsRead(Append(cur, t), line, params)
      /\ InArg(Append(cur, t), line) = Append(InArg(cur, line), t)
      /\ Len(Append(cur, t)) >= ArgsAt(line)
  BY <1>2, ArgGoesOn
<1>4. PICK a : a = Append(<<>>, t)
  OBVIOUS
<1>5. a \in Seq(S) /\ IsOne(a, t.tok)
  BY <1>4 DEF IsOne
<1>6. QED
  BY <1>1, <1>2, <1>3, <1>4, <1>5, Zenon

\* An argument that is complete is a parameter.
LEMMA ArgPasses ==
  ASSUME NEW cur, NEW line, IsLine(line), ArgsRead(cur, line, line.params), Len(cur) >= ArgsAt(line),
         IsArgument(InArg(cur, line)), NEW param, param = ParamOf(InArg(cur, line))
  PROVE  Passed(cur, Plus(line, param)) /\ IsLine(Plus(line, param))
<1>1. PICK w : w = Plus(line, param)
  OBVIOUS
<1>2. PICK q : q = line.params
  OBVIOUS
<1>3. w.params = Append(q, param) /\ w.kind = line.kind /\ w.name = line.name /\ IsLine(w)
  BY <1>1, <1>2, PlusIs, Zenon
<1>4. /\ ArgsAt(w) = ArgsAt(line) /\ InArg(cur, w) = InArg(cur, line)
      /\ \A params : ArgsRead(cur, line, params) => ArgsRead(cur, w, params)
  BY <1>3, SameBeginning
<1>5. ArgsRead(cur, w, q) /\ w.params = Append(q, ParamOf(InArg(cur, w)))
  BY <1>2, <1>3, <1>4, Zenon
<1>6. Len(cur) >= ArgsAt(w) /\ IsArgument(InArg(cur, w))
  BY <1>4
<1>7. QED
  BY <1>1, <1>3, <1>5, <1>6, Zenon DEF Passed

\* What argument one and two tokens are.
LEMMA ShortArguments ==
  ASSUME NEW S, NEW a \in Seq(S)
  PROVE  /\ IsOne(a, "name")         => IsArgument(a) /\ ParamOf(a) = Sym(a[1].name)
         /\ IsOne(a, "string")       => IsArgument(a) /\ ParamOf(a) = Str(a[1].codes)
         /\ IsTwo(a, "%", "name")    => IsArgument(a) /\ ParamOf(a) = Reg(a[2].name)
         /\ IsTwo(a, "\\", "name")   => IsArgument(a) /\ ParamOf(a) = Replace(a[2].name)
<1>1. /\ <<"name">> # <<"string">> /\ <<"name">> # <<"%", "name">> /\ <<"name">> # <<"\\", "name">>
      /\ <<"string">> # <<"%", "name">> /\ <<"string">> # <<"\\", "name">>
      /\ <<"%", "name">> # <<"\\", "name">>
  OBVIOUS
<1>2. /\ IsOne(a, "name")       => Toks(a) = <<"name">>
      /\ IsOne(a, "string")     => Toks(a) = <<"string">>
      /\ IsTwo(a, "%", "name")  => Toks(a) = <<"%", "name">>
      /\ IsTwo(a, "\\", "name") => Toks(a) = <<"\\", "name">>
  BY ToksOne, ToksTwo DEF One, Two
<1>3. PICK w : w = Toks(a)
  OBVIOUS
<1>4. CASE w = <<"name">>
  BY <1>1, <1>2, <1>3, <1>4 DEF IsArgument, ParamOf
<1>5. CASE w = <<"string">>
  BY <1>1, <1>2, <1>3, <1>5 DEF IsArgument, ParamOf
<1>6. CASE w = <<"%", "name">>
  BY <1>1, <1>2, <1>3, <1>6 DEF IsArgument, ParamOf
<1>7. CASE w = <<"\\", "name">>
  BY <1>1, <1>2, <1>3, <1>7 DEF IsArgument, ParamOf
<1>8. QED
  BY <1>2, <1>3, <1>4, <1>5, <1>6, <1>7, Zenon

\* A name or a string is a parameter.
LEMMA PassesOne ==
  ASSUME NEW S, NEW cur \in Seq(S), NEW line, IsLine(line), ArgDue(cur, line), NEW t \in S,
         t.tok \in {"name", "string"}, t.tok = "string" => line.kind = "directive",
         NEW param, param = IF t.tok = "name" THEN Sym(t.name) ELSE Str(t.codes)
  PROVE  Passed(Append(cur, t), Plus(line, param)) /\ IsLine(Plus(line, param))
<1>1. PICK c : c = Append(cur, t)
  OBVIOUS
<1>2. PICK a : a = Append(<<>>, t)
  OBVIOUS
<1>3. t.tok \notin Commas
  BY DEF Commas
<1>4. /\ ArgsRead(c, line, line.params) /\ InArg(c, line) = a /\ Len(c) >= ArgsAt(line)
      /\ a \in Seq(S) /\ IsOne(a, t.tok)
  <2>1. /\ ArgsRead(Append(cur, t), line, line.params) /\ InArg(Append(cur, t), line) = Append(<<>>, t)
        /\ Len(Append(cur, t)) >= ArgsAt(line) /\ Append(<<>>, t) \in Seq(S)
        /\ IsOne(InArg(Append(cur, t), line), t.tok)
    BY <1>3, ArgBegins
  <2>2. QED
    BY <1>1, <1>2, <2>1, Zenon
<1>5. a[1] = t
  BY <1>2
<1>6. IsArgument(a) /\ ParamOf(a) = param
  <2>1. CASE t.tok = "name"
    BY <1>4, <1>5, <2>1, ShortArguments
  <2>2. CASE t.tok = "string"
    BY <1>4, <1>5, <2>2, ShortArguments
  <2>3. QED
    BY <2>1, <2>2
<1>7. IsArgument(InArg(c, line)) /\ param = ParamOf(InArg(c, line))
  BY <1>4, <1>6
<1>8. QED
  BY <1>1, <1>4, <1>7, ArgPasses

\* A name behind the sign of a register or of a replacement.
LEMMA PassesTwo ==
  ASSUME NEW S, NEW cur \in Seq(S), NEW line, IsLine(line), NEW sign \in {"%", "\\"},
         Behind1(cur, line, sign), NEW t \in S, t.tok = "name",
         NEW param, param = IF sign = "%" THEN Reg(t.name) ELSE Replace(t.name)
  PROVE  Passed(Append(cur, t), Plus(line, param)) /\ IsLine(Plus(line, param))
<1>1. PICK c : c = Append(cur, t)
  OBVIOUS
<1>2. PICK b : b = InArg(cur, line)
  OBVIOUS
<1>3. ArgsRead(cur, line, line.params) /\ IsOne(b, sign) /\ Begun(cur, line)
  BY <1>2 DEF Behind1, ArgsRead
<1>4. b \in Seq(S)
  <2>1. ArgsAt(line) \in Nat \ {0} /\ ArgsAt(line) <= Len(cur) + 1
    BY <1>3, ArgsAtIs
  <2>2. QED
    BY <1>2, <2>1, GivenType DEF InArg
<1>5. PICK a : a = Append(b, t)
  OBVIOUS
<1>6. a \in Seq(S) /\ IsTwo(a, sign, "name")
  BY <1>3, <1>4, <1>5, PutBehindOne
<1>7. a[2] = t
  <2>1. Len(b) = 1
    BY <1>3 DEF IsOne
  <2>2. a[Len(b) + 1] = t
    BY <1>4, <1>5
  <2>3. QED
    BY <2>1, <2>2
<1>8. t.tok \notin Commas /\ (t.tok = "string" => line.kind = "directive")
  BY DEF Commas
<1>9. PICK params : params = line.params
  OBVIOUS
<1>10. ArgsRead(c, line, params) /\ InArg(c, line) = a /\ Len(c) >= ArgsAt(line)
  BY <1>1, <1>2, <1>3, <1>5, <1>8, <1>9, ArgGoesOn
<1>11. IsArgument(a) /\ ParamOf(a) = param
  <2>1. CASE sign = "%"
    BY <1>6, <1>7, <2>1, ShortArguments
  <2>2. CASE sign = "\\"
    BY <1>6, <1>7, <2>2, ShortArguments
  <2>3. QED
    BY <2>1, <2>2
<1>12. IsArgument(InArg(c, line)) /\ param = ParamOf(InArg(c, line)) /\ ArgsRead(c, line, line.params)
  BY <1>9, <1>10, <1>11
<1>13. QED
  BY <1>1, <1>10, <1>12, ArgPasses

\* A comma behind an argument.
LEMMA CommaEnds ==
  ASSUME NEW S, NEW cur \in Seq(S), NEW line, Passed(cur, line), NEW t \in S, t.tok = ","
  PROVE  ArgDue(Append(cur, t), line)
<1>1. PICK a : a = ParamOf(InArg(cur, line))
  OBVIOUS
<1>2. PICK params : ArgsRead(cur, line, params) /\ line.params = Append(params, a)
  BY <1>1, Zenon DEF Passed
<1>3. IsArgument(InArg(cur, line))
  BY DEF Passed
<1>4. /\ ArgsRead(Append(cur, t), line, Append(params, ParamOf(InArg(cur, line))))
      /\ InArg(Append(cur, t), line) = <<>>
  BY <1>2, <1>3, ArgEnds
<1>5. QED
  BY <1>1, <1>2, <1>4, Zenon DEF ArgDue

\* A newline behind it.
LEMMA NewlineEnds ==
  ASSUME NEW S, NEW cur \in Seq(S), NEW line, IsLine(line), NEW t \in S, t.tok = "newline",
         Passed(cur, line) \/ NameRead(cur, line)
  PROVE  StatementOf(Append(cur, t)) = [line |-> line]
<1>1. CASE Passed(cur, line)
  <2>1. PICK a : a = ParamOf(InArg(cur, line))
    OBVIOUS
  <2>2. PICK params : ArgsRead(cur, line, params) /\ line.params = Append(params, a)
    BY <1>1, <2>1, Zenon DEF Passed
  <2>3. IsArgument(InArg(cur, line)) /\ Len(cur) >= ArgsAt(line)
    BY <1>1 DEF Passed
  <2>4. StatementOf(Append(cur, t)) =
          [line |-> Line(line.kind, line.name, Append(params, ParamOf(InArg(cur, line))))]
    BY <2>2, <2>3, LineEnds
  <2>5. line = Line(line.kind, line.name, line.params)
    BY DEF IsLine
  <2>6. Line(line.kind, line.name, Append(params, ParamOf(InArg(cur, line)))) = line
    BY <2>1, <2>2, <2>5, Zenon
  <2>7. QED
    BY <2>4, <2>6, Zenon
<1>2. CASE NameRead(cur, line)
  <2>1. PICK params : params = line.params
    OBVIOUS
  <2>2. ArgsRead(cur, line, params) /\ Len(cur) = ArgsAt(line) - 1
    BY <1>2, <2>1 DEF NameRead
  <2>3. StatementOf(Append(cur, t)) = [line |-> Line(line.kind, line.name, params)]
    BY <2>2, LineEndsShort
  <2>4. QED
    BY <2>1, <2>3, Zenon DEF IsLine
<1>3. QED
  BY <1>1, <1>2

-----------------------------------------------------------------------------
(* One token more: what is behind the last newline or colon. *)

\* The line that a newline or a comma completes.
LEMMA Completes ==
  ASSUME NumberInv, RowsInv, CurInv, expect \in {"number", "param"}, NEW t, Verdict(t) = "shifted",
         t.tok \notin Operators, NEW S, Cur \in Seq(S)
  PROVE  Passed(Cur, Complete) /\ IsLine(Complete)
<1>1. IsLine(row)
  <2>1. row \in LineType
    BY DEF RowsInv, InLine
  <2>2. QED
    BY <2>1 DEF LineType, IsLine, Line
<1>2. CASE expect = "param"
  <2>1. Passed(Cur, row)
    BY <1>2 DEF CurInv, CurIs
  <2>2. Complete = row
    BY <1>2 DEF Complete
  <2>3. QED
    BY <1>1, <2>1, <2>2
<1>3. CASE expect = "number"
  <2>1. ~ number.split /\ ~ (number.operators = <<"/">> /\ Last(number.operands) = 0)
    BY <1>3 DEF Verdict, Ambiguous, DividesByZero, NumberEnds
  <2>2. PICK a : a = InArg(Cur, row)
    OBVIOUS
  <2>3. Len(Cur) >= ArgsAt(row) /\ ArgsRead(Cur, row, row.params) /\ Computed(number, a)
    BY <1>3, <2>1, <2>2 DEF CurInv, CurIs
  <2>4. a \in Seq(S)
    <3>1. Begun(Cur, row)
      BY <2>3 DEF ArgsRead
    <3>2. ArgsAt(row) \in Nat \ {0} /\ ArgsAt(row) <= Len(Cur) + 1
      BY <3>1, ArgsAtIs
    <3>3. QED
      BY <2>2, <3>2, GivenType DEF InArg
  <2>5. PICK param : param = Num(Head(ReduceAll(number, 0).operands))
    OBVIOUS
  <2>6. IsArgument(a) /\ ParamOf(a) = param
    BY <2>1, <2>3, <2>4, <2>5, NumberEnd
  <2>7. IsArgument(InArg(Cur, row)) /\ param = ParamOf(InArg(Cur, row))
    BY <2>2, <2>6
  <2>8. Passed(Cur, Plus(row, param)) /\ IsLine(Plus(row, param))
    BY <1>1, <2>3, <2>7, ArgPasses
  <2>9. Complete = Plus(row, param)
    BY <1>3, <2>5 DEF Complete, WithParam, Plus
  <2>10. QED
    BY <2>8, <2>9
<1>4. QED
  BY <1>2, <1>3

\* Where an argument may begin, and what may begin it.
LEMMA ArgMayBegin ==
  ASSUME CurInv, expect \in Arguments, NEW t, Verdict(t) = "shifted", NEW S, Cur \in Seq(S)
  PROVE  ArgDue(Cur, row) /\ (t.tok = "string" => row.kind = "directive")
<1>1. t.tok \in Shifts[expect]
  BY DEF Verdict, Viable
<1>2. CASE expect \in {"name", "dir"}
  <2>1. NameRead(Cur, row) /\ row.kind = IF expect = "dir" THEN "directive" ELSE "instruction"
    BY <1>2 DEF CurInv, CurIs
  <2>2. ArgDue(Cur, row)
    BY <2>1, NamedDue
  <2>3. t.tok = "string" => expect = "dir"
    <3>1. "string" \notin Shifts["name"]
      BY DEF Shifts, Argument, Numeric
    <3>2. QED
      BY <1>1, <1>2, <3>1
  <2>4. QED
    BY <2>1, <2>2, <2>3
<1>3. CASE expect = "args"
  <2>1. ArgDue(Cur, row)
    BY <1>3 DEF CurInv, CurIs
  <2>2. Shifts["args"] = IF row.kind = "directive" THEN Argument \union {"string"} ELSE Argument
    BY DEF Shifts
  <2>3. "string" \notin Argument
    BY DEF Argument, Numeric
  <2>4. QED
    BY <1>1, <1>3, <2>1, <2>2, <2>3
<1>4. QED
  BY <1>2, <1>3 DEF Arguments

\* An operand behind nothing or behind an operator.
LEMMA OperandCur ==
  ASSUME NumberInv, CurInv, NEW t, TokenTyped(t), Verdict(t) = "shifted", t.tok = "number",
         expect \in Arguments \union {"operand"}, NEW S, Cur \in Seq(S), t \in S, NEW m
  PROVE  CurIs("number", Append(Cur, t), row, Operand(t.value), m)
<1>1. t.value \in Int
  BY DEF TokenTyped
<1>2. PICK c : c = Append(Cur, t)
  OBVIOUS
<1>3. PICK n : n = Operand(t.value)
  OBVIOUS
<1>4. t.tok \notin Commas /\ (t.tok = "string" => row.kind = "directive")
  BY DEF Commas
<1>5. ~ n.split => /\ Len(c) >= ArgsAt(row) /\ ArgsRead(c, row, row.params)
                   /\ Computed(n, InArg(c, row))
  <2> SUFFICES ASSUME ~ n.split
               PROVE  Len(c) >= ArgsAt(row) /\ ArgsRead(c, row, row.params) /\ Computed(n, InArg(c, row))
    OBVIOUS
  <2>1. ~ number.split /\ n = WithOperand(number, t.value)
    <3>1. CASE number.split
      BY <1>3, <3>1 DEF Operand
    <3>2. CASE ~ number.split
      BY <1>3, <3>2 DEF Operand, WithOperand
    <3>3. QED
      BY <3>1, <3>2
  <2>2. CASE expect \in Arguments
    <3>1. ArgDue(Cur, row)
      BY <2>2, ArgMayBegin
    <3>2. /\ ArgsRead(Append(Cur, t), row, row.params) /\ InArg(Append(Cur, t), row) = Append(<<>>, t)
          /\ Len(Append(Cur, t)) >= ArgsAt(row)
      BY <1>4, <3>1, ArgBegins
    <3>3. number = NoNumber
      BY <2>2 DEF NumberInv, InNumber, Arguments
    <3>4. Computed(WithOperand(NoNumber, t.value), Append(<<>>, t))
      BY <1>1, NumberFirst
    <3>5. QED
      BY <1>2, <2>1, <3>2, <3>3, <3>4, Zenon
  <2>3. CASE expect = "operand"
    <3>1. PICK a : a = InArg(Cur, row)
      OBVIOUS
    <3>2. PICK params : params = row.params
      OBVIOUS
    <3>3. ArgsRead(Cur, row, params) /\ Awaiting(number, a)
      BY <2>1, <2>3, <3>1, <3>2 DEF CurInv, CurIs
    <3>4. a \in Seq(S)
      <4>1. Begun(Cur, row)
        BY <3>3 DEF ArgsRead
      <4>2. ArgsAt(row) \in Nat \ {0} /\ ArgsAt(row) <= Len(Cur) + 1
        BY <4>1, ArgsAtIs
      <4>3. QED
        BY <3>1, <4>2, GivenType DEF InArg
    <3>5. /\ ArgsRead(Append(Cur, t), row, params)
          /\ InArg(Append(Cur, t), row) = Append(InArg(Cur, row), t)
          /\ Len(Append(Cur, t)) >= ArgsAt(row)
      BY <1>4, <3>3, ArgGoesOn
    <3>6. Computed(WithOperand(number, t.value), Append(a, t))
      BY <1>1, <3>3, <3>4, NumberNext
    <3>7. QED
      BY <1>2, <2>1, <3>1, <3>2, <3>5, <3>6, Zenon
  <2>4. QED
    BY <2>2, <2>3
<1>6. CurIs("number", c, row, n, m)
  BY <1>5, Zenon DEF CurIs
<1>7. QED
  BY <1>2, <1>3, <1>6

\* An operator behind an operand.
LEMMA OperatorCur ==
  ASSUME NumberInv, CurInv, NEW t, expect = "number", t.tok \in Operators,
         NEW S, Cur \in Seq(S), t \in S, NEW m
  PROVE  CurIs("operand", Append(Cur, t), row, Operator(t.tok), m)
<1>1. PICK c : c = Append(Cur, t)
  OBVIOUS
<1>2. PICK n : n = Operator(t.tok)
  OBVIOUS
<1>3. t.tok \notin Commas /\ (t.tok = "string" => row.kind = "directive")
  BY DEF Commas, Operators
<1>4. ~ n.split => /\ Len(c) >= ArgsAt(row) /\ ArgsRead(c, row, row.params)
                   /\ Awaiting(n, InArg(c, row))
  <2> SUFFICES ASSUME ~ n.split
               PROVE  Len(c) >= ArgsAt(row) /\ ArgsRead(c, row, row.params) /\ Awaiting(n, InArg(c, row))
    OBVIOUS
  <2>1. ~ number.split
    <3>1. SUFFICES ASSUME number.split PROVE n.split
      OBVIOUS
    <3>2. NumberType(number)
      BY DEF NumberInv
    <3>3. n = [number EXCEPT !.split = TRUE]
      BY <1>2, <3>1 DEF Operator
    <3>4. QED
      BY <3>2, <3>3 DEF NumberType
  <2>2. PICK a : a = InArg(Cur, row)
    OBVIOUS
  <2>3. PICK params : params = row.params
    OBVIOUS
  <2>4. ArgsRead(Cur, row, params) /\ Computed(number, a)
    BY <2>1, <2>2, <2>3 DEF CurInv, CurIs
  <2>5. a \in Seq(S)
    <3>1. Begun(Cur, row)
      BY <2>4 DEF ArgsRead
    <3>2. ArgsAt(row) \in Nat \ {0} /\ ArgsAt(row) <= Len(Cur) + 1
      BY <3>1, ArgsAtIs
    <3>3. QED
      BY <2>2, <3>2, GivenType DEF InArg
  <2>6. /\ ArgsRead(Append(Cur, t), row, params)
        /\ InArg(Append(Cur, t), row) = Append(InArg(Cur, row), t)
        /\ Len(Append(Cur, t)) >= ArgsAt(row)
    BY <1>3, <2>4, ArgGoesOn
  <2>7. Awaiting(Operator(t.tok), Append(a, t))
    BY <1>2, <2>4, <2>5, OperatorNext
  <2>8. QED
    BY <1>1, <1>2, <2>2, <2>3, <2>6, <2>7, Zenon
<1>5. CurIs("operand", c, row, n, m)
  BY <1>4, Zenon DEF CurIs
<1>6. QED
  BY <1>1, <1>2, <1>5

\* What a token leaves of the statement that is being read.
Leftover(cur, t) == IF t.tok \in Enders THEN <<>> ELSE Append(cur, t)

\* States in which nothing is known of it.
LEMMA CurAny ==
  ASSUME NEW e \in {"constant", "close", "reg_constant", "reg_close"}, NEW cur, NEW line, NEW n, NEW m
  PROVE  CurIs(e, cur, line, n, m)
BY DEF CurIs

\* A statement has not begun.
LEMMA CurNone ==
  ASSUME NEW e \in {"file", "line"}, NEW line, NEW n, NEW m
  PROVE  CurIs(e, <<>>, line, n, m)
BY DEF CurIs

\* Every token that is shifted belongs to what is behind it.
LEMMA ShiftCur ==
  ASSUME NumberInv, RowsInv, CurInv, NEW t, TokenTyped(t), Verdict(t) = "shifted", Shift(t),
         NEW S, Cur \in Seq(S), t \in S
  PROVE  CurIs(expect', Leftover(Cur, t), row', number', macro')
<1>1. t.tok \in Shifts[expect]
  BY DEF Verdict, Viable
<1>2. /\ Shifts["dot"] = {"name"} /\ Shifts["backslash"] = {"name"} /\ Shifts["macro"] = {"name"}
      /\ Shifts["close"] = {"]"}
  BY DEF Shifts
<1>3. /\ expect \in {"dot", "backslash", "macro"} => t.tok = "name"
      /\ expect = "close" => t.tok = "]"
  BY <1>1, <1>2
<1>4. PICK c : c = Leftover(Cur, t)
  OBVIOUS
<1>5. /\ t.tok \in Enders => c = <<>>
      /\ t.tok \notin Enders => c = Append(Cur, t)
  BY <1>4 DEF Leftover
<1>6. "newline" \in Enders /\ ":" \in Enders /\ \A a \in Enders : a \in {"newline", ":"}
  BY DEF Enders
<1>7. /\ expect \in {"file", "line"} => Cur = <<>>
      /\ expect = "dot" => IsOne(Cur, ".")
      /\ expect = "macro" => IsOne(Cur, ".macro")
  BY DEF CurInv, CurIs
<1>8. expect \in InLine => IsLine(row)
  <2>1. expect \in InLine => row \in LineType
    BY DEF RowsInv
  <2>2. QED
    BY <2>1 DEF LineType, IsLine, Line
<1>9. IsOne(Append(<<>>, t), t.tok)
  BY DEF IsOne
<1>10. CASE SkipNewline(t)
  BY <1>5, <1>6, <1>10, CurNone, <1>4 DEF SkipNewline, parseVars
<1>11. CASE Label(t) \/ EndLine(t) \/ EndHead(t)
  <2>1. expect' = "line" /\ t.tok \in Enders
    BY <1>6, <1>11 DEF Label, EndLine, EndHead, AddRow, Go, Expect
  <2>2. QED
    BY <1>4, <1>5, <2>1, CurNone
<1>12. CASE Instruction(t)
  <2>1. row' = Insn(t.name, <<>>) /\ expect' = "name" /\ t.tok = "name" /\ Cur = <<>>
    BY <1>7, <1>12 DEF Instruction, Begin, Expect
  <2>2. c = Append(<<>>, t)
    BY <1>5, <1>6, <2>1
  <2>3. NameRead(c, row') /\ row'.kind = "instruction"
    <3>1. NameRead(Append(<<>>, t), Insn(t.name, <<>>)) /\ Insn(t.name, <<>>).kind = "instruction"
      BY <2>1, InstructionBegins
    <3>2. QED
      BY <2>1, <2>2, <3>1, Zenon
  <2>4. CurIs("name", c, row', number', macro')
    BY <2>3 DEF CurIs
  <2>5. QED
    BY <1>4, <2>1, <2>4
<1>13. CASE Directive(t)
  <2>1. row' = Dir(t.name, <<>>) /\ expect' = "dir" /\ t.tok = "name" /\ IsOne(Cur, ".")
    BY <1>3, <1>7, <1>13 DEF Directive, Begin, Expect
  <2>2. c = Append(Cur, t)
    BY <1>5, <1>6, <2>1
  <2>3. NameRead(c, row') /\ row'.kind = "directive"
    <3>1. NameRead(Append(Cur, t), Dir(t.name, <<>>)) /\ Dir(t.name, <<>>).kind = "directive"
      BY <2>1, DirectiveBegins
    <3>2. QED
      BY <2>1, <2>2, <3>1, Zenon
  <2>4. CurIs("dir", c, row', number', macro')
    BY <2>3 DEF CurIs
  <2>5. QED
    BY <1>4, <2>1, <2>4
<1>14. CASE Dot(t) \/ StartMacro(t) \/ EndMacro(t)
  <2>1. /\ expect \in {"file", "line"}
        /\ \/ expect' = "dot" /\ t.tok = "."
           \/ expect' = "macro" /\ t.tok = ".macro"
           \/ expect' = "endm" /\ t.tok = ".endm"
    BY <1>14 DEF Dot, StartMacro, EndMacro, Go, Expect
  <2>2. c = Append(<<>>, t)
    BY <1>5, <1>6, <1>7, <2>1
  <2>3. IsOne(c, t.tok)
    BY <1>9, <2>2
  <2>4. CurIs(expect', c, row', number', macro')
    BY <2>1, <2>3 DEF CurIs
  <2>5. QED
    BY <1>4, <2>4
<1>15. CASE Comma(t)
  <2>1. expect \in {"number", "param"} /\ t.tok = "," /\ row' = Complete /\ expect' = "args"
    BY <1>15 DEF Comma, Expect
  <2>2. t.tok \notin Operators /\ c = Append(Cur, t)
    BY <1>5, <1>6, <2>1 DEF Operators
  <2>3. Passed(Cur, Complete)
    BY <2>1, <2>2, Completes
  <2>4. ArgDue(Append(Cur, t), Complete)
    BY <2>1, <2>3, CommaEnds
  <2>5. ArgDue(c, row')
    BY <2>1, <2>2, <2>4, Zenon
  <2>6. CurIs("args", c, row', number', macro')
    BY <2>5 DEF CurIs
  <2>7. QED
    BY <1>4, <2>1, <2>6
<1>16. CASE Symbol(t) \/ StringParam(t)
  <2>1. expect \in Arguments /\ t.tok \in {"name", "string"}
    BY <1>16 DEF Symbol, StringParam
  <2>2. PICK param : param = IF t.tok = "name" THEN Sym(t.name) ELSE Str(t.codes)
    OBVIOUS
  <2>3. AddParam(param)
    BY <1>16, <2>2 DEF Symbol, StringParam
  <2>4. row' = Plus(row, param) /\ expect' = "param"
    BY <2>3 DEF AddParam, WithParam, Plus, Expect
  <2>5. c = Append(Cur, t) /\ expect \in InLine
    BY <1>5, <1>6, <2>1 DEF Arguments, InLine
  <2>6. ArgDue(Cur, row) /\ (t.tok = "string" => row.kind = "directive")
    BY <2>1, ArgMayBegin
  <2>7. Passed(Append(Cur, t), Plus(row, param))
    BY <1>8, <2>1, <2>2, <2>5, <2>6, PassesOne
  <2>8. Passed(c, row')
    BY <2>4, <2>5, <2>7, Zenon
  <2>9. CurIs("param", c, row', number', macro')
    BY <2>8 DEF CurIs
  <2>10. QED
    BY <1>4, <2>4, <2>9
<1>17. CASE Percent(t) \/ Backslash(t)
  <2>1. /\ expect \in Arguments /\ row' = row
        /\ \/ t.tok = "%" /\ expect' = "percent"
           \/ t.tok = "\\" /\ expect' = "backslash"
    BY <1>17 DEF Percent, Backslash, Go, Expect
  <2>2. c = Append(Cur, t) /\ t.tok \notin Commas
    BY <1>5, <1>6, <2>1 DEF Commas
  <2>3. ArgDue(Cur, row) /\ (t.tok = "string" => row.kind = "directive")
    BY <2>1, ArgMayBegin
  <2>4. ArgsRead(Append(Cur, t), row, row.params) /\ IsOne(InArg(Append(Cur, t), row), t.tok)
    BY <2>2, <2>3, ArgBegins
  <2>5. Behind1(c, row, t.tok)
    BY <2>2, <2>4, Zenon DEF Behind1
  <2>6. Behind1(c, row', t.tok)
    BY <2>1, <2>5
  <2>7. CurIs(expect', c, row', number', macro')
    BY <2>1, <2>6 DEF CurIs
  <2>8. QED
    BY <1>4, <2>7
<1>18. CASE Register(t) \/ ReplaceSymbol(t)
  <2>1. PICK sign : sign = IF expect = "percent" THEN "%" ELSE "\\"
    OBVIOUS
  <2>2. PICK param : param = IF sign = "%" THEN Reg(t.name) ELSE Replace(t.name)
    OBVIOUS
  <2>3. t.tok = "name" /\ AddParam(param) /\ expect \in {"percent", "backslash"}
    BY <1>3, <1>18, <2>1, <2>2 DEF Register, ReplaceSymbol
  <2>4. row' = Plus(row, param) /\ expect' = "param"
    BY <2>3 DEF AddParam, WithParam, Plus, Expect
  <2>5. c = Append(Cur, t) /\ expect \in InLine
    BY <1>5, <1>6, <2>3 DEF InLine
  <2>6. Behind1(Cur, row, sign) /\ sign \in {"%", "\\"}
    BY <2>1, <2>3 DEF CurInv, CurIs
  <2>7. Passed(Append(Cur, t), Plus(row, param))
    BY <1>8, <2>2, <2>3, <2>5, <2>6, PassesTwo
  <2>8. Passed(c, row')
    BY <2>4, <2>5, <2>7, Zenon
  <2>9. CurIs("param", c, row', number', macro')
    BY <2>8 DEF CurIs
  <2>10. QED
    BY <1>4, <2>4, <2>9
<1>19. CASE Numeral(t)
  <2>1. /\ expect \in Arguments \union {"operand"} /\ t.tok = "number" /\ row' = row
        /\ number' = Operand(t.value) /\ expect' = "number"
    BY <1>19 DEF Numeral, AddNumber, Expect
  <2>2. c = Append(Cur, t)
    BY <1>5, <1>6, <2>1
  <2>3. CurIs("number", Append(Cur, t), row, Operand(t.value), macro')
    BY <2>1, OperandCur
  <2>4. QED
    BY <1>4, <2>1, <2>2, <2>3
<1>20. CASE MathExpr(t)
  <2>1. /\ expect = "number" /\ t.tok \in Operators /\ row' = row
        /\ number' = Operator(t.tok) /\ expect' = "operand"
    BY <1>20 DEF MathExpr, AddNumber, Expect
  <2>2. c = Append(Cur, t)
    BY <1>5, <1>6, <2>1 DEF Operators
  <2>3. CurIs("operand", Append(Cur, t), row, Operator(t.tok), macro')
    BY <2>1, OperatorCur
  <2>4. QED
    BY <1>4, <2>1, <2>2, <2>3
<1>21. CASE Constant(t) \/ RegisterConstant(t)
  <2>1. expect' \in {"constant", "close", "reg_constant", "reg_close"}
    BY <1>21 DEF Constant, RegisterConstant, Go, Expect
  <2>2. QED
    BY <2>1, CurAny
<1>22. CASE ConstantEnd(t)
  <2>1. expect = "close" /\ number' = number /\ expect' = "number"
    BY <1>22 DEF ConstantEnd, AddNumber, Expect
  <2>2. number.split
    BY <1>3, <2>1 DEF Verdict, Substitutes, DividesByZero, Ambiguous, NumberEnds, Viable
  <2>3. CurIs("number", c, row', number', macro')
    BY <2>1, <2>2 DEF CurIs
  <2>4. QED
    BY <1>4, <2>1, <2>3
<1>23. CASE MacroName(t)
  <2>1. /\ IsOne(Cur, ".macro") /\ t.tok = "name" /\ macro' = <<Macro(t.name, <<>>, <<>>)>>
        /\ expect' = "head"
    BY <1>3, <1>7, <1>23 DEF MacroName, InMacro, Expect
  <2>2. c = Append(Cur, t)
    BY <1>5, <1>6, <2>1
  <2>3. HeadRead(c, macro', <<>>) /\ Len(c) = 2
    <3>1. HeadRead(Append(Cur, t), <<Macro(t.name, <<>>, <<>>)>>, <<>>) /\ Len(Append(Cur, t)) = 2
      BY <2>1, HeadBegins
    <3>2. QED
      BY <2>1, <2>2, <3>1, Zenon
  <2>4. macro'[1].args = <<>>
    BY <2>1 DEF Macro
  <2>5. CurIs("head", c, row', number', macro')
    BY <2>3, <2>4 DEF CurIs
  <2>6. QED
    BY <1>4, <2>1, <2>5
<1>24. CASE MacroArg(t)
  <2>1. /\ expect \in {"head", "comma"} /\ t.tok = "name" /\ expect' = "arg"
        /\ macro' = <<[macro[1] EXCEPT !.args = Append(@, t.name)]>>
    BY <1>24 DEF MacroArg, InMacro, Expect
  <2>2. c = Append(Cur, t)
    BY <1>5, <1>6, <2>1
  <2>3. PICK names : HeadOpen(Cur, macro, names)
    <3>1. CASE expect = "comma"
      BY <3>1 DEF CurInv, CurIs
    <3>2. CASE expect = "head"
      <4>1. PICK names : HeadRead(Cur, macro, names)
        BY <3>2 DEF CurInv, CurIs
      <4>2. Len(Cur) = 2 /\ macro[1].args = <<>>
        BY <3>2 DEF CurInv, CurIs
      <4>3. Given(Cur, 3) = <<>> /\ Pending(Cur, 3) = <<>>
        <5>1. 3 = Len(Cur) + 1
          BY <4>2
        <5>2. QED
          BY <5>1, GivenNone
      <4>4. names = <<>>
        BY <4>1, <4>3, NoNames DEF HeadRead
      <4>5. HeadOpen(Cur, macro, names)
        BY <4>1, <4>2, <4>3, <4>4 DEF HeadOpen
      <4>6. QED
        BY <4>5
    <3>3. QED
      BY <2>1, <3>1, <3>2
  <2>4. HeadNamed(Append(Cur, t), <<[macro[1] EXCEPT !.args = Append(@, t.name)]>>, names)
    BY <2>1, <2>3, HeadName
  <2>5. HeadNamed(c, macro', names)
    BY <2>1, <2>2, <2>4, Zenon
  <2>6. CurIs("arg", c, row', number', macro')
    BY <2>5 DEF CurIs
  <2>7. QED
    BY <1>4, <2>1, <2>6
<1>25. CASE MacroComma(t)
  <2>1. expect = "arg" /\ t.tok = "," /\ expect' = "comma" /\ macro' = macro
    BY <1>25 DEF MacroComma, Go, Expect
  <2>2. c = Append(Cur, t)
    BY <1>5, <1>6, <2>1
  <2>3. PICK names : HeadNamed(Cur, macro, names)
    BY <2>1 DEF CurInv, CurIs
  <2>4. HeadOpen(Append(Cur, t), macro, macro[1].args)
    BY <2>1, <2>3, HeadComma
  <2>5. HeadOpen(c, macro', macro[1].args)
    BY <2>1, <2>2, <2>4, Zenon
  <2>6. CurIs("comma", c, row', number', macro')
    BY <2>5 DEF CurIs
  <2>7. QED
    BY <1>4, <2>1, <2>6
<1>26. QED
  BY <1>10, <1>11, <1>12, <1>13, <1>14, <1>15, <1>16, <1>17, <1>18, <1>19, <1>20, <1>21, <1>22, <1>23,
     <1>24, <1>25 DEF Shift

-----------------------------------------------------------------------------
(* One token more: the statements in front. *)

\* A macro is open unless there is none.
LEMMA OpenedIs ==
  ASSUME NEW p, NEW h
  PROVE  /\ Opened(p, h) = <<>> <=> h = 0
         /\ h # 0 => Opened(p, h)[1] = MacroOpen(p, h)
<1>1. \A y : <<y>> # <<>> /\ <<y>>[1] = y
  OBVIOUS
<1>2. QED
  BY <1>1 DEF Opened

\* A token within a statement.
LEMMA StatedInside ==
  ASSUME NEW e, NEW p, NEW rs, NEW m, NEW ms, Stated(e, p, rs, m, ms), e # "endm",
         NEW f, NEW w, f \notin {"line", "endm"},
         f \in InHead \union {"file", "macro"} =>
           \/ e \in InHead \union {"file", "macro"}
           \/ e \notin InHead /\ m = <<>>,
         f \notin InHead => e \notin InHead /\ w = m
  PROVE  Stated(f, p, rs, w, ms)
<1>1. PICK h : h = OpenHead(p, Len(p)) /\ StatedIn(h, e, p, rs, m, ms)
  BY Zenon DEF Stated
<1>2. PICK o : o = Opened(p, h)
  OBVIOUS
<1>3. o = <<>> <=> h = 0
  BY <1>2, OpenedIs
<1>4. /\ e \in InHead \union {"file", "macro"} => h = 0
      /\ e \notin InHead \union {"endm"} => m = o
  BY <1>1, <1>2, Zenon DEF StatedIn
<1>5. /\ f \in InHead \union {"file", "macro"} => h = 0
      /\ f \notin InHead \union {"endm"} => w = o
  BY <1>3, <1>4
<1>6. /\ \A k \in DOMAIN p : Fitting(p, k)
      /\ rs = LinesIn(p, Len(p), 0) /\ ms = MacrosIn(p, Len(p))
  BY <1>1, Zenon DEF StatedIn
<1>7. StatedIn(h, f, p, rs, w, ms)
  BY <1>2, <1>5, <1>6, Zenon DEF StatedIn
<1>8. QED
  BY <1>1, <1>7, Zenon DEF Stated

\* The macro that is open ends.
LEMMA StatedEndm ==
  ASSUME NEW p, NEW rs, NEW m, NEW ms, Stated("line", p, rs, m, ms),
         NEW one \in MacroType, m = <<one>>, one.lines # <<>>
  PROVE  Stated("endm", p, rs, <<>>, Append(ms, one))
<1>1. PICK h : h = OpenHead(p, Len(p)) /\ StatedIn(h, "line", p, rs, m, ms)
  BY Zenon DEF Stated
<1>2. PICK o : o = Opened(p, h)
  OBVIOUS
<1>5. "line" \notin InHead \union {"endm", "file", "macro"} /\ "endm" \notin InHead \union {"file", "macro"}
  BY DEF InHead
<1>6. /\ \A k \in DOMAIN p : Fitting(p, k)
      /\ rs = LinesIn(p, Len(p), 0) /\ ms = MacrosIn(p, Len(p)) /\ m = o
  BY <1>1, <1>2, <1>5 DEF StatedIn
<1>7. h # 0 /\ MacroOpen(p, h) = one
  <2>1. m # <<>> /\ m[1] = one
    OBVIOUS
  <2>2. h # 0 /\ o[1] = MacroOpen(p, h)
    BY <1>2, <1>6, <2>1, OpenedIs
  <2>3. QED
    BY <1>6, <2>1, <2>2
<1>8. LinesIn(p, Len(p), h) = one.lines
  <2>1. PICK q : q = p[h].head
    OBVIOUS
  <2>2. PICK k : k = LinesIn(p, Len(p), h)
    OBVIOUS
  <2>3. one = [q EXCEPT !.lines = k]
    BY <1>7, <2>1, <2>2 DEF MacroOpen, Made
  <2>4. DOMAIN one = DOMAIN q /\ "lines" \in DOMAIN one
    <3>1. DOMAIN one = DOMAIN q
      BY <2>3
    <3>2. "lines" \in DOMAIN one
      BY DEF MacroType
    <3>3. QED
      BY <3>1, <3>2
  <2>5. one.lines = k
    BY <2>3, <2>4
  <2>6. QED
    BY <2>2, <2>5
<1>9. PICK b : b = Append(ms, one)
  OBVIOUS
<1>10. b = Append(MacrosIn(p, Len(p)), MacroOpen(p, h)) /\ LinesIn(p, Len(p), h) # <<>>
  BY <1>6, <1>7, <1>8, <1>9, Zenon
<1>11. StatedIn(h, "endm", p, rs, <<>>, b)
  BY <1>5, <1>6, <1>7, <1>10 DEF StatedIn
<1>12. QED
  BY <1>1, <1>9, <1>11, Zenon DEF Stated

\* That there is more than empty lines remains so.
LEMMA StillMore ==
  ASSUME NEW P, NEW q, NEW p, NEW x, NEW k, NEW n, Longer(P, q, p, x, k, n)
  PROVE  /\ (\E i \in DOMAIN p : ~ Is(p[i], "blank")) => \E i \in DOMAIN q : ~ Is(q[i], "blank")
         /\ ~ Is(x, "blank") => \E i \in DOMAIN q : ~ Is(q[i], "blank")
<1>1. /\ n \in Nat /\ k = n + 1 /\ DOMAIN q = 1 .. k /\ DOMAIN p = 1 .. n /\ q[k] = x
      /\ \A i \in 1 .. n : q[i] = p[i]
  <2>1. /\ n \in Nat /\ k \in Nat /\ k = n + 1 /\ q \in Seq(P) /\ Len(q) = k /\ q[k] = x
        /\ Agree(p, q, n) /\ Len(p) = n
    BY LongerIs
  <2>2. p \in Seq(P)
    BY DEF Longer
  <2>3. QED
    BY <2>1, <2>2 DEF Agree
<1>2. k \in DOMAIN q /\ DOMAIN p \subseteq DOMAIN q
  BY <1>1
<1>3. \A i \in DOMAIN p : q[i] = p[i]
  BY <1>1
<1>4. QED
  BY <1>1, <1>2, <1>3, Zenon

\* An empty line.
LEMMA StatedBlank ==
  ASSUME NEW P, NEW q, NEW p, NEW x, NEW k, NEW n, Longer(P, q, p, x, k, n), NEW e \in {"file", "line"},
         NEW rs, NEW m, NEW ms, Stated(e, p, rs, m, ms), DOMAIN x = {"blank"}
  PROVE  Stated(e, q, rs, m, ms)
<1>1. PICK h : h = OpenHead(p, Len(p)) /\ StatedIn(h, e, p, rs, m, ms)
  BY Zenon DEF Stated
<1>2. ~ Is(x, "head") /\ ~ Is(x, "endm") /\ ~ Is(x, "line") /\ ~ Is(x, "label") /\ ~ Is(x, "bad")
  BY DEF Is
<1>3. n = Len(p) /\ k = Len(q)
  BY LongerIs
<1>4. /\ OpenHead(q, k) = OpenHead(p, n) /\ (\A g : LinesIn(q, k, g) = LinesIn(p, n, g))
      /\ MacrosIn(q, k) = MacrosIn(p, n)
  BY <1>2, StatementAdded
<1>5. OpenHead(q, Len(q)) = h /\ h = OpenHead(p, n)
  BY <1>1, <1>3, <1>4
<1>6. \A i \in DOMAIN p : Fitting(p, i)
  BY <1>1 DEF StatedIn
<1>7. \A i \in DOMAIN q : Fitting(q, i)
  BY <1>2, <1>5, <1>6, FittingAdded
<1>8. e # "endm" /\ e \notin InHead \union {"endm"}
  BY DEF InHead
<1>9. /\ rs = LinesIn(q, Len(q), 0) /\ ms = MacrosIn(q, Len(q))
      /\ e \in InHead \union {"file", "macro"} => h = 0
  BY <1>1, <1>3, <1>4, <1>8 DEF StatedIn
<1>10. e = "line" => \E i \in DOMAIN q : ~ Is(q[i], "blank")
  <2>1. e = "line" => \E i \in DOMAIN p : ~ Is(p[i], "blank")
    BY <1>1, Zenon DEF StatedIn
  <2>2. QED
    BY <2>1, StillMore
<1>11. m = Opened(q, h)
  <2>1. m = Opened(p, h)
    BY <1>1, <1>8, Zenon DEF StatedIn
  <2>2. h # 0 => MacroOpen(q, h) = MacroOpen(p, h)
    <3> SUFFICES ASSUME h # 0 PROVE MacroOpen(q, h) = MacroOpen(p, h)
      OBVIOUS
    <3>1. p[h] = q[h]
      <4>1. n \in Nat /\ Agree(p, q, n)
        BY LongerIs
      <4>2. OpenHead(p, n) \in 0 .. n
        BY <4>1, OpenHeadIs
      <4>3. h \in 1 .. n
        BY <1>5, <4>1, <4>2
      <4>4. QED
        BY <4>1, <4>3 DEF Agree
    <3>2. LinesIn(q, Len(q), h) = LinesIn(p, Len(p), h)
      BY <1>3, <1>4
    <3>3. QED
      BY <3>1, <3>2, Zenon DEF MacroOpen, Made
  <2>3. QED
    BY <2>1, <2>2, Zenon DEF Opened
<1>12. StatedIn(h, e, q, rs, m, ms)
  BY <1>7, <1>8, <1>9, <1>10, <1>11, Zenon DEF StatedIn
<1>13. QED
  BY <1>5, <1>12, Zenon DEF Stated

\* A line, or a label where no macro is open.
AddsLine(x, line, m) ==
  /\ Is(x, "line") /\ x.line = line
  /\ ~ Is(x, "head") /\ ~ Is(x, "endm") /\ ~ Is(x, "bad") /\ ~ Is(x, "blank")
  /\ Is(x, "label") => m = <<>>

\* It is one of the program or of the macro.
LEMMA StatedLine ==
  ASSUME NEW P, NEW q, NEW p, NEW x, NEW k, NEW n, Longer(P, q, p, x, k, n),
         NEW e, e \notin InHead \union {"endm"}, NEW rs, NEW m, NEW ms, Stated(e, p, rs, m, ms), IsMacro(m),
         NEW line, AddsLine(x, line, m)
  PROVE  /\ m = <<>> => Stated("line", q, Append(rs, line), m, ms)
         /\ m # <<>> => Stated("line", q, rs, <<[m[1] EXCEPT !.lines = Append(@, line)]>>, ms)
<1>1. PICK h : h = OpenHead(p, Len(p)) /\ StatedIn(h, e, p, rs, m, ms)
  BY Zenon DEF Stated
<1>2. /\ Is(x, "line") /\ x.line = line /\ ~ Is(x, "head") /\ ~ Is(x, "endm") /\ ~ Is(x, "bad")
      /\ ~ Is(x, "blank") /\ (Is(x, "label") => m = <<>>)
  BY DEF AddsLine
<1>3. n = Len(p) /\ k = Len(q)
  BY LongerIs
<1>4. /\ OpenHead(q, k) = OpenHead(p, n) /\ MacrosIn(q, k) = MacrosIn(p, n)
      /\ \A g : LinesIn(q, k, g) = IF OpenHead(p, n) = g THEN Append(LinesIn(p, n, g), line)
                                   ELSE LinesIn(p, n, g)
  BY <1>2, StatementAdded
<1>5. OpenHead(q, Len(q)) = h /\ h = OpenHead(p, n)
  BY <1>1, <1>3, <1>4
<1>6. m = Opened(p, h) /\ e # "endm"
  BY <1>1, Zenon DEF StatedIn
<1>7. m = <<>> <=> h = 0
  BY <1>6, OpenedIs
<1>8. \A i \in DOMAIN p : Fitting(p, i)
  BY <1>1 DEF StatedIn
<1>9. \A i \in DOMAIN q : Fitting(q, i)
  BY <1>2, <1>5, <1>7, <1>8, FittingAdded
<1>10. "line" # "endm" /\ "line" \notin InHead \union {"endm", "file", "macro"}
  BY DEF InHead
<1>11. /\ rs = LinesIn(p, n, 0) /\ ms = MacrosIn(q, Len(q))
  BY <1>1, <1>3, <1>4, <1>6 DEF StatedIn
<1>12. \E i \in DOMAIN q : ~ Is(q[i], "blank")
  BY <1>2, StillMore
<1>13. CASE m = <<>>
  <2>1. h = 0 /\ m = Opened(q, h)
    BY <1>7, <1>13, OpenedIs
  <2>2. Append(rs, line) = LinesIn(q, Len(q), 0)
    BY <1>3, <1>4, <1>5, <1>11, <2>1
  <2>3. StatedIn(h, "line", q, Append(rs, line), m, ms)
    BY <1>9, <1>10, <1>11, <1>12, <2>1, <2>2, Zenon DEF StatedIn
  <2>4. QED
    BY <1>5, <1>13, <2>3, Zenon DEF Stated
<1>14. CASE m # <<>>
  <2>1. h # 0 /\ m[1] = MacroOpen(p, h)
    BY <1>6, <1>7, <1>14, OpenedIs
  <2>2. rs = LinesIn(q, Len(q), 0)
    BY <1>3, <1>4, <1>5, <1>11, <2>1
  <2>3. p[h] = q[h]
    <3>1. n \in Nat /\ Agree(p, q, n)
      BY LongerIs
    <3>2. OpenHead(p, n) \in 0 .. n
      BY <3>1, OpenHeadIs
    <3>3. h \in 1 .. n
      BY <1>5, <2>1, <3>1, <3>2
    <3>4. QED
      BY <3>1, <3>3 DEF Agree
  <2>4. PICK g : g = p[h].head
    OBVIOUS
  <2>5. PICK l : l = LinesIn(p, n, h)
    OBVIOUS
  <2>6. PICK one : one = m[1]
    OBVIOUS
  <2>7. one = [g EXCEPT !.lines = l]
    BY <1>3, <2>1, <2>4, <2>5, <2>6 DEF MacroOpen, Made
  <2>8. LinesIn(q, Len(q), h) = Append(l, line)
    BY <1>3, <1>4, <1>5, <2>5
  <2>9. MacroOpen(q, h) = [g EXCEPT !.lines = Append(l, line)]
    BY <2>3, <2>4, <2>8, Zenon DEF MacroOpen, Made
  <2>10. one.lines = l
    <3>1. PICK z \in MacroType : m = <<z>>
      BY <1>14 DEF IsMacro
    <3>2. "lines" \in DOMAIN one
      BY <2>6, <3>1 DEF MacroType
    <3>3. DOMAIN one = DOMAIN g
      BY <2>7
    <3>4. QED
      BY <2>7, <3>2, <3>3
  <2>11. [one EXCEPT !.lines = Append(@, line)] = MacroOpen(q, h)
    <3>1. PICK w : w = Append(l, line)
      OBVIOUS
    <3>2. [one EXCEPT !.lines = Append(@, line)] = [one EXCEPT !.lines = w]
      BY <2>10, <3>1, Zenon
    <3>3. [one EXCEPT !.lines = w] = [g EXCEPT !.lines = w]
      BY <2>7
    <3>4. QED
      BY <2>9, <3>1, <3>2, <3>3, Zenon
  <2>12. PICK r : r = <<[m[1] EXCEPT !.lines = Append(@, line)]>>
    OBVIOUS
  <2>13. r = Opened(q, h)
    BY <2>1, <2>6, <2>11, <2>12, Zenon DEF Opened
  <2>14. StatedIn(h, "line", q, rs, r, ms)
    BY <1>9, <1>10, <1>11, <1>12, <2>2, <2>13, Zenon DEF StatedIn
  <2>15. QED
    BY <1>5, <1>14, <2>12, <2>14, Zenon DEF Stated
<1>15. QED
  BY <1>13, <1>14

\* The head of a macro, in which there is no line yet.
LEMMA StatedHead ==
  ASSUME NEW P, NEW q, NEW p, NEW x, NEW k, NEW n, Longer(P, q, p, x, k, n),
         NEW e \in InHead, NEW rs, NEW m, NEW ms, Stated(e, p, rs, m, ms),
         DOMAIN x = {"head"}, NEW one \in MacroType, x.head = one, one.lines = <<>>
  PROVE  Stated("line", q, rs, <<one>>, ms)
<1>1. StatedIn(OpenHead(p, Len(p)), e, p, rs, m, ms)
  BY Zenon DEF Stated
<1>2. Is(x, "head") /\ ~ Is(x, "endm") /\ ~ Is(x, "line") /\ ~ Is(x, "label") /\ ~ Is(x, "bad") /\ ~ Is(x, "blank")
  BY DEF Is
<1>3. /\ n = Len(p) /\ k = Len(q) /\ n \in Nat /\ k = n + 1 /\ q[k] = x
  BY LongerIs
<1>4. e # "endm" /\ e \in InHead \union {"file", "macro"}
  BY DEF InHead
<1>5. OpenHead(p, Len(p)) = 0 /\ rs = LinesIn(p, n, 0) /\ ms = MacrosIn(p, n)
  BY <1>1, <1>3, <1>4 DEF StatedIn
<1>6. /\ OpenHead(q, k) = k /\ MacrosIn(q, k) = MacrosIn(p, n)
      /\ \A g : LinesIn(q, k, g) = LinesIn(p, n, g)
  BY <1>2, StatementAdded
<1>7. \A i \in DOMAIN p : Fitting(p, i)
  BY <1>1 DEF StatedIn
<1>8. \A i \in DOMAIN q : Fitting(q, i)
  BY <1>2, <1>3, <1>5, <1>7, FittingAdded
<1>9. LinesIn(q, k, k) = <<>>
  <2>1. p \in Seq(P) /\ k \in Nat /\ k > Len(p)
    BY <1>3 DEF Longer
  <2>2. LinesIn(p, Len(p), k) = <<>>
    BY <2>1, LinesNone
  <2>3. QED
    BY <1>3, <1>6, <2>2
<1>10. MacroOpen(q, k) = one
  <2>1. MacroOpen(q, k) = [one EXCEPT !.lines = <<>>]
    BY <1>3, <1>9 DEF MacroOpen, Made
  <2>2. QED
    BY <2>1 DEF MacroType
<1>11. <<one>> = Opened(q, k)
  <2>1. k # 0
    BY <1>3
  <2>2. QED
    BY <1>10, <2>1 DEF Opened
<1>12. "line" # "endm" /\ "line" \notin InHead \union {"endm", "file", "macro"}
  BY DEF InHead
<1>13. \E i \in DOMAIN q : ~ Is(q[i], "blank")
  BY <1>2, StillMore
<1>14. rs = LinesIn(q, Len(q), 0) /\ ms = MacrosIn(q, Len(q)) /\ k = OpenHead(q, Len(q))
  BY <1>3, <1>5, <1>6
<1>15. StatedIn(k, "line", q, rs, <<one>>, ms)
  BY <1>8, <1>11, <1>12, <1>13, <1>14, Zenon DEF StatedIn
<1>16. QED
  BY <1>14, <1>15, Zenon DEF Stated

\* The end of a macro.
LEMMA StatedEnd ==
  ASSUME NEW P, NEW q, NEW p, NEW x, NEW k, NEW n, Longer(P, q, p, x, k, n),
         NEW rs, NEW m, NEW ms, Stated("endm", p, rs, m, ms), DOMAIN x = {"endm"}
  PROVE  Stated("line", q, rs, m, ms)
<1>1. PICK h : h = OpenHead(p, Len(p)) /\ StatedIn(h, "endm", p, rs, m, ms)
  BY Zenon DEF Stated
<1>2. ~ Is(x, "head") /\ Is(x, "endm") /\ ~ Is(x, "line") /\ ~ Is(x, "label") /\ ~ Is(x, "bad") /\ ~ Is(x, "blank")
  BY DEF Is
<1>3. n = Len(p) /\ k = Len(q)
  BY LongerIs
<1>4. /\ h # 0 /\ LinesIn(p, Len(p), h) # <<>> /\ m = <<>>
      /\ ms = Append(MacrosIn(p, Len(p)), MacroOpen(p, h)) /\ rs = LinesIn(p, Len(p), 0)
      /\ \A i \in DOMAIN p : Fitting(p, i)
  BY <1>1, Zenon DEF StatedIn
<1>5. h = OpenHead(p, n) /\ LinesIn(p, n, h) # <<>>
  BY <1>1, <1>3, <1>4
<1>6. /\ OpenHead(q, k) = 0 /\ (\A g : LinesIn(q, k, g) = LinesIn(p, n, g))
      /\ MacrosIn(q, k) = Append(MacrosIn(p, n), Made(p, n, h))
  BY <1>2, <1>4, <1>5, StatementAdded
<1>7. \A i \in DOMAIN q : Fitting(q, i)
  BY <1>2, <1>4, <1>5, FittingAdded
<1>8. ms = MacrosIn(q, Len(q)) /\ rs = LinesIn(q, Len(q), 0) /\ OpenHead(q, Len(q)) = 0
  BY <1>3, <1>4, <1>6 DEF MacroOpen
<1>9. m = Opened(q, 0)
  BY <1>4 DEF Opened
<1>10. "line" # "endm" /\ "line" \notin InHead \union {"endm", "file", "macro"}
  BY DEF InHead
<1>11. \E i \in DOMAIN q : ~ Is(q[i], "blank")
  BY <1>2, StillMore
<1>12. StatedIn(0, "line", q, rs, m, ms)
  BY <1>7, <1>8, <1>9, <1>10, <1>11, Zenon DEF StatedIn
<1>13. QED
  BY <1>8, <1>12, Zenon DEF Stated

\* A token that goes on with a statement.
LEMMA ShiftWithin ==
  ASSUME NEW t, Verdict(t) = "shifted", ~ SkipNewline(t), ~ Label(t), ~ EndLine(t), ~ EndHead(t), ~ EndMacro(t),
         Shift(t)
  PROVE  /\ t.tok \notin Enders /\ rows' = rows /\ macros' = macros
         /\ expect # "endm" /\ expect' \notin {"line", "endm"}
         /\ expect' \in InHead \union {"file", "macro"} =>
              \/ expect \in InHead \union {"file", "macro"}
              \/ expect \notin InHead /\ macro = <<>>
         /\ expect' \notin InHead => expect \notin InHead /\ macro' = macro
<1>1. t.tok \in Shifts[expect]
  BY DEF Verdict, Viable
<1>2. /\ Shifts["dot"] = {"name"} /\ Shifts["backslash"] = {"name"} /\ Shifts["macro"] = {"name"}
      /\ Shifts["close"] = {"]"} /\ Shifts["reg_close"] = {"]"}
      /\ Shifts["constant"] = {"name"} /\ Shifts["reg_constant"] = {"name"}
      /\ macro # <<>> => ".macro" \notin Shifts["line"]
  BY DEF Shifts, Statement
<1>3. /\ expect \in {"dot", "backslash", "macro", "constant", "reg_constant"} => t.tok = "name"
      /\ expect \in {"close", "reg_close"} => t.tok = "]"
      /\ expect = "line" /\ t.tok = ".macro" => macro = <<>>
  BY <1>1, <1>2
<1>4. CASE Instruction(t) \/ Dot(t)
  BY <1>4 DEF Instruction, Dot, Begin, Go, Expect, Enders, InHead
<1>5. CASE Directive(t) \/ ReplaceSymbol(t)
  BY <1>3, <1>5 DEF Directive, ReplaceSymbol, AddParam, Begin, Go, Expect, Enders, InHead
<1>6. CASE Comma(t)
  BY <1>6 DEF Comma, Expect, Enders, InHead
<1>7. CASE Symbol(t) \/ StringParam(t) \/ Register(t)
  BY <1>7 DEF Symbol, StringParam, Register, AddParam, Expect, Enders, InHead, Arguments
<1>8. CASE Percent(t) \/ Backslash(t)
  BY <1>8 DEF Percent, Backslash, Go, Expect, Enders, InHead, Arguments
<1>9. CASE Numeral(t) \/ MathExpr(t)
  BY <1>9 DEF Numeral, MathExpr, AddNumber, Expect, Enders, InHead, Arguments, Operators
<1>10. CASE Constant(t) \/ RegisterConstant(t)
  BY <1>3, <1>10 DEF Constant, RegisterConstant, Go, Expect, Enders, InHead, Arguments
<1>11. CASE ConstantEnd(t)
  BY <1>3, <1>11 DEF ConstantEnd, AddNumber, Expect, Enders, InHead
<1>12. CASE StartMacro(t)
  BY <1>3, <1>12 DEF StartMacro, Go, Expect, Enders, InHead
<1>13. CASE MacroName(t)
  BY <1>3, <1>13 DEF MacroName, InMacro, Expect, Enders, InHead
<1>14. CASE MacroArg(t) \/ MacroComma(t)
  BY <1>14 DEF MacroArg, MacroComma, InMacro, Go, Expect, Enders, InHead
<1>15. QED
  BY <1>4, <1>5, <1>6, <1>7, <1>8, <1>9, <1>10, <1>11, <1>12, <1>13, <1>14 DEF Shift

\* A line that is complete joins the others of the program or of the macro.
LEMMA RowAdded ==
  ASSUME NEW P, NEW q, NEW p, NEW x, NEW k, NEW n, Longer(P, q, p, x, k, n),
         NEW e, e \notin InHead \union {"endm"}, Stated(e, p, rows, macro, macros), IsMacro(macro),
         NEW line, AddsLine(x, line, macro), AddRow(line)
  PROVE  Stated("line", q, rows', macro', macros')
<1>1. PICK rs : rs = rows
  OBVIOUS
<1>2. PICK m : m = macro
  OBVIOUS
<1>3. PICK ms : ms = macros
  OBVIOUS
<1>4. /\ m = <<>> => Stated("line", q, Append(rs, line), m, ms)
      /\ m # <<>> => Stated("line", q, rs, <<[m[1] EXCEPT !.lines = Append(@, line)]>>, ms)
  <2>1. Stated(e, p, rs, m, ms) /\ IsMacro(m) /\ AddsLine(x, line, m)
    BY <1>1, <1>2, <1>3
  <2>2. QED
    BY <2>1, StatedLine
<1>5. CASE m = <<>>
  <2>1. rows' = Append(rs, line) /\ macro' = m /\ macros' = ms
    BY <1>1, <1>2, <1>3, <1>5 DEF AddRow
  <2>2. QED
    BY <1>4, <1>5, <2>1, Zenon
<1>6. CASE m # <<>>
  <2>1. rows' = rs /\ macro' = <<[m[1] EXCEPT !.lines = Append(@, line)]>> /\ macros' = ms
    BY <1>1, <1>2, <1>3, <1>6 DEF AddRow
  <2>2. QED
    BY <1>4, <1>6, <2>1, Zenon
<1>7. QED
  BY <1>5, <1>6

\* Every token that is shifted keeps the statements.
LEMMA ShiftStatements ==
  ASSUME NumberInv, RowsInv, CurInv, StatementInv, NEW t, TokenTyped(t), Verdict(t) = "shifted", Shift(t),
         NEW S, text \in Seq(S), t \in S
  PROVE  Stated(expect', Statements(Append(text, t)), rows', macro', macros')
<1>1. PICK p : p = Statements(text)
  OBVIOUS
<1>2. PICK q : q = Statements(Append(text, t))
  OBVIOUS
<1>3. PICK x : x = StatementOf(Append(Cur, t))
  OBVIOUS
<1>4. Stated(expect, p, rows, macro, macros)
  BY <1>1, Zenon DEF StatementInv
<1>5. Cur \in Seq(S)
  BY UnendedType DEF Cur
<1>6. t.tok \notin Enders => q = p
  BY <1>1, <1>2, StatementsMore
<1>7. PICK P, k, n : t.tok \in Enders => Longer(P, q, p, x, k, n)
  <2>1. CASE t.tok \in Enders
    <3>1. Longer(StatementsOver(S), Statements(Append(text, t)), Statements(text), x,
                 Len(Statements(text)) + 1, Len(Statements(text)))
      BY <1>3, <2>1, StatementMore DEF Cur
    <3>2. QED
      BY <1>1, <1>2, <3>1, Zenon
  <2>2. QED
    BY <2>1
<1>8. IsMacro(macro) /\ (expect \in InHead => macro # <<>>)
  BY DEF RowsInv
<1>9. t.tok \in Shifts[expect]
  BY DEF Verdict, Viable
<1>10. CASE SkipNewline(t)
  <2>1. t.tok = "newline" /\ t.tok \in Enders /\ expect \in {"file", "line"}
        /\ UNCHANGED <<expect, rows, macro, macros>>
    BY <1>10 DEF SkipNewline, parseVars, Enders
  <2>2. Cur = <<>>
    BY <2>1 DEF CurInv, CurIs
  <2>3. x = [blank |-> TRUE]
    BY <1>3, <2>1, <2>2, BlankEnds
  <2>4. DOMAIN x = {"blank"}
    BY <2>3
  <2>5. Stated(expect, q, rows, macro, macros)
    BY <1>4, <1>7, <2>1, <2>4, StatedBlank
  <2>6. QED
    BY <1>2, <2>1, <2>5
<1>11. CASE Label(t)
  <2>1. t.tok = ":" /\ t.tok \in Enders /\ expect = "name" /\ AddRow(Lbl(row.name)) /\ expect' = "line"
    BY <1>11 DEF Label, AddRow, Expect, Enders
  <2>2. macro = <<>>
    <3>1. macro # <<>> => ":" \notin Shifts["name"]
      BY DEF Shifts, Argument, Numeric
    <3>2. QED
      BY <1>9, <2>1, <3>1
  <2>3. IsOne(Cur, "name") /\ Cur[1].name = row.name
    <3>1. NameRead(Cur, row) /\ row.kind = "instruction"
      BY <2>1 DEF CurInv, CurIs
    <3>2. Begun(Cur, row) /\ Len(Cur) = ArgsAt(row) - 1 /\ ArgsAt(row) = 2
      BY <3>1 DEF NameRead, ArgsRead, ArgsAt
    <3>3. QED
      BY <3>1, <3>2 DEF Begun, IsOne
  <2>4. PICK line : line = Lbl(row.name)
    OBVIOUS
  <2>5. x = [label |-> TRUE, line |-> line]
    BY <1>3, <1>5, <2>1, <2>3, <2>4, LabelEnds
  <2>6. AddsLine(x, line, macro)
    <3>1. DOMAIN x = {"label", "line"} /\ x.line = line
      BY <2>5
    <3>2. QED
      BY <2>2, <3>1 DEF AddsLine, Is
  <2>7. expect \notin InHead \union {"endm"}
    BY <2>1 DEF InHead
  <2>8. Longer(P, q, p, x, k, n) /\ AddRow(line)
    BY <1>7, <2>1, <2>4
  <2>9. Stated("line", q, rows', macro', macros')
    BY <1>4, <1>8, <2>6, <2>7, <2>8, RowAdded
  <2>10. QED
    BY <1>2, <2>1, <2>9
<1>12. CASE EndLine(t)
  <2>1. /\ expect \in {"name", "dir", "number", "param"} /\ t.tok = "newline" /\ t.tok \in Enders
        /\ AddRow(Complete) /\ expect' = "line"
    BY <1>12 DEF EndLine, AddRow, Expect, Enders
  <2>2. IsLine(Complete) /\ (Passed(Cur, Complete) \/ NameRead(Cur, Complete))
    <3>1. CASE expect \in {"number", "param"}
      <4>1. t.tok \notin Operators
        BY <2>1 DEF Operators
      <4>2. QED
        BY <1>5, <3>1, <4>1, Completes
    <3>2. CASE expect \in {"name", "dir"}
      <4>1. Complete = row
        BY <3>2 DEF Complete
      <4>2. NameRead(Cur, row)
        BY <3>2 DEF CurInv, CurIs
      <4>3. row \in LineType
        BY <3>2 DEF RowsInv, InLine
      <4>4. QED
        BY <4>1, <4>2, <4>3 DEF LineType, IsLine, Line
    <3>3. QED
      BY <2>1, <3>1, <3>2
  <2>3. PICK line : line = Complete
    OBVIOUS
  <2>4. x = [line |-> line]
    BY <1>3, <1>5, <2>1, <2>2, <2>3, NewlineEnds
  <2>5. AddsLine(x, line, macro)
    <3>1. DOMAIN x = {"line"} /\ x.line = line
      BY <2>4
    <3>2. QED
      BY <3>1 DEF AddsLine, Is
  <2>6. expect \notin InHead \union {"endm"}
    BY <2>1 DEF InHead
  <2>7. Longer(P, q, p, x, k, n) /\ AddRow(line)
    BY <1>7, <2>1, <2>3
  <2>8. Stated("line", q, rows', macro', macros')
    BY <1>4, <1>8, <2>5, <2>6, <2>7, RowAdded
  <2>9. QED
    BY <1>2, <2>1, <2>8
<1>13. CASE EndHead(t)
  <2>1. /\ expect \in {"head", "arg", "endm"} /\ t.tok = "newline" /\ t.tok \in Enders /\ expect' = "line"
        /\ UNCHANGED <<rows, macro, macros>>
    BY <1>13 DEF EndHead, Go, Expect, Enders
  <2>2. Longer(P, q, p, x, k, n)
    BY <1>7, <2>1
  <2>3. CASE expect = "endm"
    <3>1. IsOne(Cur, ".endm")
      BY <2>3 DEF CurInv, CurIs
    <3>2. x = [endm |-> TRUE]
      BY <1>3, <1>5, <2>1, <3>1, EndmEnds
    <3>3. DOMAIN x = {"endm"}
      BY <3>2
    <3>4. Stated("line", q, rows, macro, macros)
      BY <1>4, <2>2, <2>3, <3>3, StatedEnd
    <3>5. QED
      BY <1>2, <2>1, <3>4
  <2>4. CASE expect \in {"head", "arg"}
    <3>1. expect \in InHead
      BY <2>4 DEF InHead
    <3>2. PICK one \in MacroType : macro = <<one>>
      BY <1>8, <3>1 DEF IsMacro
    <3>3. macro[1] = one
      BY <3>2
    <3>4. PICK names : /\ HeadRead(Cur, macro, names)
                       /\ expect = "arg" => HeadNamed(Cur, macro, names)
                       /\ expect = "head" => Len(Cur) = 2 /\ macro[1].args = <<>>
      <4>1. CASE expect = "head"
        BY <4>1 DEF CurInv, CurIs
      <4>2. CASE expect = "arg"
        <5>1. PICK names : HeadNamed(Cur, macro, names)
          BY <4>2 DEF CurInv, CurIs
        <5>2. HeadRead(Cur, macro, names)
          BY <5>1 DEF HeadNamed
        <5>3. QED
          BY <4>2, <5>1, <5>2
      <4>3. QED
        BY <2>4, <4>1, <4>2
    <3>5. StatementOf(Append(Cur, t)) = [head |-> macro[1]]
      <4>1. CASE expect = "head"
        BY <1>5, <2>1, <3>4, <4>1, HeadEndsShort
      <4>2. CASE expect = "arg"
        BY <1>5, <2>1, <3>4, <4>2, HeadEnds
      <4>3. QED
        BY <2>4, <4>1, <4>2
    <3>6. one.lines = <<>>
      <4>1. macro[1] = Macro(Cur[2].name, macro[1].args, <<>>)
        BY <3>4, HeadReadIs
      <4>2. PICK y : y = Cur[2].name
        OBVIOUS
      <4>3. one = Macro(y, one.args, <<>>)
        BY <3>3, <4>1, <4>2
      <4>4. QED
        BY <4>3 DEF Macro
    <3>7. DOMAIN x = {"head"} /\ x.head = one
      BY <1>3, <3>3, <3>5
    <3>8. Stated("line", q, rows, <<one>>, macros)
      BY <1>4, <2>2, <3>1, <3>6, <3>7, StatedHead
    <3>9. QED
      BY <1>2, <2>1, <3>2, <3>8, Zenon
  <2>5. QED
    BY <2>1, <2>3, <2>4
<1>14. CASE EndMacro(t)
  <2>1. /\ expect = "line" /\ t.tok = ".endm" /\ expect' = "endm"
        /\ macros' = Append(macros, macro[1]) /\ macro' = <<>> /\ rows' = rows
    BY <1>14 DEF EndMacro, Expect
  <2>2. macro # <<>> /\ macro[1].lines # <<>>
    <3>1. /\ macro = <<>> => ".endm" \notin Shifts["line"]
          /\ macro # <<>> /\ macro[1].lines = <<>> => ".endm" \notin Shifts["line"]
      BY DEF Shifts, Statement
    <3>2. QED
      BY <1>9, <2>1, <3>1
  <2>3. PICK one \in MacroType : macro = <<one>>
    BY <1>8, <2>2 DEF IsMacro
  <2>4. macro[1] = one /\ one.lines # <<>>
    BY <2>2, <2>3
  <2>5. Stated("endm", p, rows, <<>>, Append(macros, one))
    BY <1>4, <2>1, <2>3, <2>4, StatedEndm
  <2>6. q = p
    BY <1>6, <2>1 DEF Enders
  <2>7. QED
    BY <1>2, <2>1, <2>4, <2>5, <2>6, Zenon
<1>15. CASE ~ SkipNewline(t) /\ ~ Label(t) /\ ~ EndLine(t) /\ ~ EndHead(t) /\ ~ EndMacro(t)
  <2>1. /\ t.tok \notin Enders /\ rows' = rows /\ macros' = macros
        /\ expect # "endm" /\ expect' \notin {"line", "endm"}
        /\ expect' \in InHead \union {"file", "macro"} =>
             \/ expect \in InHead \union {"file", "macro"}
             \/ expect \notin InHead /\ macro = <<>>
        /\ expect' \notin InHead => expect \notin InHead /\ macro' = macro
    BY <1>15, ShiftWithin
  <2>2. Stated(expect', p, rows, macro', macros)
    BY <1>4, <2>1, StatedInside
  <2>3. QED
    BY <1>2, <1>6, <2>1, <2>2, Zenon
<1>16. QED
  BY <1>10, <1>11, <1>12, <1>13, <1>14, <1>15

\* The parser goes on until the program ends.
LEMMA GoesOn ==
  ASSUME NEW t, Shift(t), expect # "nothing"
  PROVE  expect' # "nothing"
<1>1. CASE SkipNewline(t)
  BY <1>1 DEF SkipNewline, parseVars
<1>2. CASE Instruction(t) \/ Dot(t) \/ Directive(t) \/ Percent(t) \/ Backslash(t) \/ Constant(t)
           \/ RegisterConstant(t) \/ StartMacro(t) \/ MacroComma(t) \/ EndHead(t)
  BY <1>2 DEF Instruction, Dot, Directive, Percent, Backslash, Constant, RegisterConstant, StartMacro,
              MacroComma, EndHead, Begin, Go, Expect
<1>3. CASE Label(t) \/ EndLine(t) \/ Comma(t) \/ EndMacro(t)
  BY <1>3 DEF Label, EndLine, Comma, EndMacro, AddRow, Expect
<1>4. CASE Symbol(t) \/ StringParam(t) \/ Register(t) \/ ReplaceSymbol(t) \/ Numeral(t) \/ MathExpr(t)
           \/ ConstantEnd(t)
  BY <1>4 DEF Symbol, StringParam, Register, ReplaceSymbol, Numeral, MathExpr, ConstantEnd, AddParam,
              AddNumber, Expect
<1>5. CASE MacroName(t) \/ MacroArg(t)
  BY <1>5 DEF MacroName, MacroArg, InMacro, Expect
<1>6. QED
  BY <1>1, <1>2, <1>3, <1>4, <1>5 DEF Shift

\* No text has been read.
LEMMA ParseBegins == FrontInit => ParseInv
<1> SUFFICES ASSUME FrontInit PROVE ParseInv
  OBVIOUS
<1>1. /\ text = <<>> /\ status = "start" /\ expect = "file" /\ macro = <<>> /\ rows = <<>> /\ macros = <<>>
  BY DEF FrontInit, ScanInit, ParseInit, Init
<1>2. Ended(text, Enders) = <<>> /\ Cur = <<>>
  BY <1>1, EndedNone DEF Cur
<1>3. CurInv
  BY <1>1, <1>2, CurNone DEF CurInv
<1>4. PICK p : p = Statements(text)
  OBVIOUS
<1>5. p = <<>>
  BY <1>2, <1>4 DEF Statements
<1>6. Len(p) = 0 /\ DOMAIN p = {}
  BY <1>5
<1>7. OpenHead(p, 0) = 0
  <2>1. OpenHead(p, 0) \in 0 .. 0
    BY OpenHeadIs
  <2>2. QED
    BY <2>1
<1>8. LinesIn(p, 0, 0) = <<>> /\ MacrosIn(p, 0) = <<>>
  <2>1. [k \in 1 .. 0 |-> LineAt(p, k, 0)] = <<>> /\ [k \in 1 .. 0 |-> MacroEnding(p, k)] = <<>>
    OBVIOUS
  <2>2. QED
    BY <2>1, FlattenNone, Zenon DEF LinesIn, MacrosIn
<1>9. StatedIn(0, "file", p, rows, macro, macros)
  BY <1>1, <1>6, <1>8 DEF StatedIn, Opened
<1>10. StatementInv
  BY <1>1, <1>4, <1>6, <1>7, <1>9 DEF StatementInv, Stated
<1>11. \E S : text \in Seq(S)
  BY <1>1
<1>12. QED
  BY <1>1, <1>3, <1>10, <1>11 DEF ParseInv

\* A token more.
LEMMA ParseTokenKeeps ==
  ASSUME FrontInv, ParseInv, ParseToken
  PROVE  ParseInv'
<1>1. PICK t : t = Token
  OBVIOUS
<1>2. /\ status = "reading" /\ Verdict(t) = "shifted" /\ Shift(t) /\ text' = Append(text, t) /\ status' = status
      /\ TokenTyped(t)
  <2>1. ReturnsToken /\ Return /\ Verdict(Token) = "shifted" /\ Shift(Token)
    BY DEF ParseToken
  <2>2. status = "reading"
    BY <2>1 DEF ReturnsToken, Sees, Reading
  <2>3. TokenTyped(Token)
    BY <2>1, TokenType DEF FrontInv
  <2>4. text' = Append(text, Token) /\ status' = status
    BY <2>1 DEF Return
  <2>5. QED
    BY <1>1, <2>1, <2>2, <2>3, <2>4, Zenon
<1>3. expect # "nothing" /\ CurInv /\ StatementInv
  BY <1>2 DEF ParseInv
<1>4. PICK S : text \in Seq(S) /\ t \in S
  <2>1. PICK R : text \in Seq(R)
    BY DEF ParseInv
  <2>2. text \in Seq(R \union {t}) /\ t \in R \union {t}
    BY <2>1
  <2>3. QED
    BY <2>2
<1>5. Cur \in Seq(S)
  BY <1>4, UnendedType DEF Cur
<1>6. NumberInv /\ RowsInv
  BY DEF FrontInv
<1>7. Cur' = Leftover(Cur, t)
  <2>1. Unended(Append(text, t), Enders) =
          IF t.tok \in Enders THEN <<>> ELSE Append(Unended(text, Enders), t)
    BY <1>4, EndedMore
  <2>2. Cur' = Unended(Append(text, t), Enders)
    BY <1>2 DEF Cur
  <2>3. QED
    BY <2>1, <2>2 DEF Leftover, Cur
<1>8. CurIs(expect', Leftover(Cur, t), row', number', macro')
  BY <1>2, <1>3, <1>4, <1>5, <1>6, ShiftCur
<1>9. CurInv'
  <2>1. CurIs(expect', Cur', row', number', macro')
    BY <1>7, <1>8, Zenon
  <2>2. QED
    BY <2>1 DEF CurInv
<1>10. Stated(expect', Statements(Append(text, t)), rows', macro', macros')
  BY <1>2, <1>3, <1>4, <1>6, ShiftStatements
<1>11. StatementInv'
  <2>1. Stated(expect', Statements(text'), rows', macro', macros')
    BY <1>2, <1>10, Zenon
  <2>2. QED
    BY <2>1 DEF StatementInv
<1>12. expect' # "nothing" /\ status' # "parsed"
  BY <1>2, <1>3, GoesOn
<1>13. \E R : text' \in Seq(R)
  BY <1>2, <1>4
<1>14. QED
  BY <1>9, <1>11, <1>12, <1>13 DEF ParseInv

\* The end of the program: all that the text means has been read.
LEMMA ParseEndKeeps ==
  ASSUME FrontInv, ParseInv, ParseEnd
  PROVE  ParseInv'
<1>1. /\ status = "reading" /\ Verdict(End) = "shifted" /\ text' = text /\ status' = "parsed"
      /\ lines' = rows /\ expect' = "nothing" /\ macros' = macros
  BY DEF ParseEnd, AtEnd, EndOfFile, EndInput, Accept, Expect
<1>2. expect # "nothing" /\ CurInv /\ StatementInv
  BY <1>1 DEF ParseInv
<1>3. expect = "line" /\ macro = <<>>
  <2>1. "end" \in Shifts[expect]
    BY <1>1 DEF Verdict, Viable, End, Sign
  <2>2. expect \in DOMAIN Shifts
    BY <1>2 DEF FrontInv, NumberInv
  <2>3. \A e \in DOMAIN Shifts : "end" \in Shifts[e] => e = "line"
    <3>1. DOMAIN Shifts = {"file", "line", "name", "args", "dir", "operand", "number", "param", "head", "arg",
                           "endm", "dot", "percent", "backslash", "constant", "reg_constant", "close",
                           "reg_close", "macro", "comma"}
      BY DEF Shifts
    <3>2. /\ "end" \notin Shifts["file"] /\ "end" \notin Shifts["name"] /\ "end" \notin Shifts["args"]
          /\ "end" \notin Shifts["dir"] /\ "end" \notin Shifts["operand"] /\ "end" \notin Shifts["number"]
      BY DEF Shifts, Statement, Argument, Numeric, Operators
    <3>3. /\ "end" \notin Shifts["param"] /\ "end" \notin Shifts["head"] /\ "end" \notin Shifts["arg"]
          /\ "end" \notin Shifts["endm"] /\ "end" \notin Shifts["dot"] /\ "end" \notin Shifts["percent"]
          /\ "end" \notin Shifts["backslash"] /\ "end" \notin Shifts["constant"]
          /\ "end" \notin Shifts["reg_constant"] /\ "end" \notin Shifts["close"]
          /\ "end" \notin Shifts["reg_close"] /\ "end" \notin Shifts["macro"]
          /\ "end" \notin Shifts["comma"]
      BY DEF Shifts
    <3>4. QED
      BY <3>1, <3>2, <3>3
  <2>4. macro # <<>> => "end" \notin Shifts["line"]
    BY DEF Shifts, Statement
  <2>5. QED
    BY <2>1, <2>2, <2>3, <2>4
<1>4. Unended(text, Enders) = <<>>
  BY <1>2, <1>3 DEF CurInv, CurIs, Cur
<1>5. PICK p : p = Statements(text)
  OBVIOUS
<1>6. PICK h : h = OpenHead(p, Len(p)) /\ StatedIn(h, "line", p, rows, macro, macros)
  <2>1. Stated("line", p, rows, macro, macros)
    BY <1>2, <1>3, <1>5 DEF StatementInv
  <2>2. QED
    BY <2>1, Zenon DEF Stated
<1>7. "line" \notin InHead \union {"endm"}
  BY DEF InHead
<1>8. h = 0
  <2>1. macro = Opened(p, h)
    BY <1>6, <1>7, Zenon DEF StatedIn
  <2>2. QED
    BY <1>3, <2>1, OpenedIs
<1>9. /\ rows = LinesIn(p, Len(p), 0) /\ macros = MacrosIn(p, Len(p))
      /\ (\A k \in DOMAIN p : Fitting(p, k)) /\ \E k \in DOMAIN p : ~ Is(p[k], "blank")
  BY <1>6, <1>7 DEF StatedIn
<1>10. WellFormed(text)
  BY <1>4, <1>5, <1>6, <1>8, <1>9, Zenon DEF WellFormed
<1>11. rows = LinesOf(text)
  BY <1>5, <1>9 DEF LinesOf
<1>12. macros = MacrosOf(text)
  <2>1. PICK S : text \in Seq(S)
    BY DEF ParseInv
  <2>2. p \in Seq(StatementsOver(S))
    BY <1>5, <2>1, StatementsType
  <2>3. DOMAIN p = 1 .. Len(p)
    BY <2>2
  <2>4. QED
    BY <1>5, <1>9, <2>3 DEF MacrosOf, MacrosIn
<1>13. \E S : text' \in Seq(S)
  BY <1>1 DEF ParseInv
<1>14. WellFormed(text)' /\ (lines = LinesOf(text))' /\ (macros = MacrosOf(text))'
  BY <1>1, <1>10, <1>11, <1>12
<1>15. QED
  BY <1>1, <1>13, <1>14 DEF ParseInv

\* Each step of the scanner and the parser keeps what has been read.
LEMMA ParseStep == FrontInv /\ ParseInv /\ [FrontNext]_frontVars => ParseInv'
<1> SUFFICES ASSUME FrontInv, ParseInv, [FrontNext]_frontVars PROVE ParseInv'
  OBVIOUS
<1>1. ASSUME UNCHANGED <<text, parseVars>>, status' = "parsed" <=> status = "parsed"
      PROVE  ParseInv'
  <2>1. UNCHANGED <<text, expect, row, number, macro, rows, lines, macros>>
    BY <1>1 DEF parseVars
  <2>2. CurInv' <=> CurInv
    BY <2>1 DEF CurInv, Cur
  <2>3. StatementInv' <=> StatementInv
    BY <2>1 DEF StatementInv
  <2>4. QED
    BY <1>1, <2>1, <2>2, <2>3 DEF ParseInv
<1>2. CASE ParseToken
  BY <1>2, ParseTokenKeeps
<1>3. CASE ParseEnd
  BY <1>3, ParseEndKeeps
<1>4. CASE (NoDirectory \/ OpenInput) /\ UNCHANGED <<condition, buffer, parseVars>>
  <2>1. UNCHANGED text /\ status = "start" /\ status' \in {"terminated", "reading", "refused"}
    BY <1>4 DEF NoDirectory, OpenInput, Refuse
  <2>2. QED
    BY <1>1, <1>4, <2>1
<1>5. CASE (ScanQuietly \/ ScanInclude \/ ScanNoInclude) /\ UNCHANGED parseVars
  <2>1. UNCHANGED text /\ status = "reading" /\ status' \in {"reading", "refused"}
    BY <1>5 DEF ScanQuietly, EatBlanks, OpenTick, CloseTick, OpenQuote, GrowString, BeginInclude, EchoNewline,
                ScanInclude, ScanNoInclude, EnterInclude, Refuse, Quiet, Sees, Reading
  <2>2. QED
    BY <1>1, <1>5, <2>1
<1>6. CASE FailAtToken
  <2>1. UNCHANGED <<text, parseVars>> /\ status = "reading" /\ status' \in {"refused", "exited", "terminated"}
    BY <1>6 DEF FailAtToken, ReturnsToken, Sees, Reading, Fail, Dies, Die, Refuse
  <2>2. QED
    BY <1>1, <2>1
<1>7. CASE Leave
  <2>1. UNCHANGED <<text, parseVars>> /\ status' = status
    BY <1>7 DEF Leave, EndInclude
  <2>2. QED
    BY <1>1, <2>1
<1>8. CASE FailAtEnd
  <2>1. UNCHANGED <<text, parseVars>> /\ status = "reading" /\ status' \in {"exited", "terminated"}
    BY <1>8 DEF FailAtEnd, AtEnd, EndOfFile, Dies, Die
  <2>2. QED
    BY <1>1, <2>1
<1>9. CASE UNCHANGED frontVars
  <2>1. UNCHANGED <<text, parseVars>> /\ status' = status
    BY <1>9 DEF frontVars, scanVars, readVars
  <2>2. QED
    BY <1>1, <2>1
<1>10. QED
  BY <1>2, <1>3, <1>4, <1>5, <1>6, <1>7, <1>8, <1>9 DEF FrontNext

\* When the program has been read to its end, the tree is what it says.
LEMMA ParseInvSuffices == ParseInv => ParsesAsWritten
<1> SUFFICES ASSUME ParseInv PROVE ParsesAsWritten
  OBVIOUS
<1>1. status = "parsed" => expect = "nothing"
  BY DEF ParseInv
<1>2. expect = "nothing" => WellFormed(text) /\ lines = LinesOf(text) /\ macros = MacrosOf(text)
  BY DEF ParseInv
<1>3. QED
  BY <1>1, <1>2, Zenon DEF ParsesAsWritten

\* A program that is parsed is one of the language, and its tree is what the
\* text says: each line and body in its order, each macro where it ends, and
\* the value of each expression, whatever the texts are and however they
\* include each other.
THEOREM ParsesCorrect == FrontSpec => []ParsesAsWritten
BY FrontBegins, FrontStep, ParseBegins, ParseStep, ParseInvSuffices, PTL DEF FrontSpec
=============================================================================
