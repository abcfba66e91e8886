------------------------ MODULE CS8TranslationProofs ------------------------
(***************************************************************************)
(* The assembler implements A!Spec: for every set of programs, the file    *)
(* that it writes is the one that their lines say, and it dies for those   *)
(* that have none.  First the macro expander, for every program whose      *)
(* passes come to an end: the lines that the translation begins with are   *)
(* A!FullExpansion.                                                        *)
(*                                                                         *)
(* ExpandInv: the lines in front of the iterator are what the first lines  *)
(* of some depth unfold to, the ones behind it are the rest of that depth. *)
(* A pass that replaces nothing has found a depth without an invocation;   *)
(* the number of macros is then deep enough, since a longer trail of       *)
(* invocations meets a macro twice and never ends.                         *)
(***************************************************************************)
EXTENDS CS8AssemblerProofs, FiniteSetTheorems

-----------------------------------------------------------------------------
ProgramType == [macros : Seq(MacroType), lines : Seq(LineType)]

\* A line that invokes nothing stays what it is.
Quiet(s, ls) == \A i \in DOMAIN ls : ~ A!Invokes(s, ls[i])

\* An invocation has the arguments that the macro wants.
Suits(s, line) == A!Invokes(s, line) => A!Fits(A!Definition(s, line.name), line)

\* Every line unfolds to lines.
Unfoldable(s, line) == A!UnfoldLine(s, line) \in Seq(LineType) /\ Suits(s, line)
Fitting(s, ls) == \A i \in DOMAIN ls : Unfoldable(s, ls[i])

\* u[k] are the lines of the program at depth k.
Deepens(s, u, d) ==
  /\ u \in [0 .. d -> Seq(LineType)] /\ u[0] = s.lines
  /\ \A k \in 1 .. d : u[k] = A!Unfold(s, u[k - 1]) /\ Fitting(s, u[k - 1])

\* The lines that each line of ls unfolds to.
Unfolded(s, ls) == [i \in DOMAIN ls |-> A!UnfoldLine(s, ls[i])]

\* The operators of the instance are the ones of the module.
LEMMA SameFlatten == \A seqs : A!FlattenSeq(seqs) = FlattenSeq(seqs)
BY DEF A!FlattenSeq, FlattenSeq

\* So is the largest of some positions.
LEMMA SameMax == \A S : A!Max(S) = Max(S)
BY DEF A!Max, Max

\* So are the elements of a list.
LEMMA SameRange == \A f : A!Range(f) = Range(f)
BY DEF A!Range, Range

\* What the look-up table and the parameters of the code amount to.
LEMMA InvocationUnfolds ==
  ASSUME NEW line, macros = source.macros
  PROVE  /\ Invocation(line) <=> A!Invokes(source, line)
         /\ ~ Invocation(line) => A!UnfoldLine(source, line) = <<line>>
         /\ Invocation(line) => A!UnfoldLine(source, line) = Body(m_macros[line.name], line)
         /\ Invocation(line) => (Expandable(m_macros[line.name], line) <=> Suits(source, line))
<1>1. Invocation(line) <=> A!Invokes(source, line)
  BY DEF Invocation, A!Invokes, m_macros, scan_macros
<1>2. ~ Invocation(line) => A!UnfoldLine(source, line) = <<line>>
  BY <1>1 DEF A!UnfoldLine
<1>3. ASSUME Invocation(line)
      PROVE  /\ A!UnfoldLine(source, line) = Body(m_macros[line.name], line)
             /\ Expandable(m_macros[line.name], line) <=> Suits(source, line)
  <2>1. PICK macro : macro = m_macros[line.name]
    OBVIOUS
  <2>2. A!Definition(source, line.name) = macro
    <3>1. line.name \in {macros[i].name : i \in DOMAIN macros}
      BY <1>3 DEF Invocation, m_macros, scan_macros
    <3>2. macro = macros[Max({i \in DOMAIN macros : macros[i].name = line.name})]
      BY <2>1, <3>1 DEF m_macros, scan_macros
    <3>3. QED
      BY <3>2, SameMax, Zenon DEF A!Definition
  <2>9. Expandable(macro, line) <=> Suits(source, line)
    <3>1. \A i : (\A k \in DOMAIN macro.lines[i].params : Bound(macro, macro.lines[i].params[k]))
                 <=> \A p \in Range(macro.lines[i].params) : p.type = "replace" => p.name \in Range(macro.args)
      BY DEF Bound, Range
    <3>2. Expandable(macro, line) <=> A!Fits(macro, line)
      BY <3>1, SameRange, Zenon DEF Expandable, A!Fits
    <3>3. QED
      BY <1>1, <1>3, <2>2, <3>2, Zenon DEF Suits
  <2>3. \A param : A!Actual(macro, line, param) = SubstituteParam(macro, line, param)
    BY SameMax, Zenon DEF A!Actual, SubstituteParam, Bind
  <2>4. \A i : Substitute(macro, line, macro.lines[i])
               = IF macro.lines[i].kind # "instruction" THEN macro.lines[i]
                 ELSE [macro.lines[i] EXCEPT !.params = [k \in DOMAIN @ |-> A!Actual(macro, line, @[k])]]
    BY <2>3, Zenon DEF Substitute
  <2> DEFINE Unfolds(i) == IF macro.lines[i].kind # "instruction" THEN macro.lines[i]
                           ELSE [macro.lines[i] EXCEPT !.params =
                                   [k \in DOMAIN @ |-> A!Actual(macro, line, @[k])]]
  <2>5. A!UnfoldLine(source, line) = [i \in DOMAIN macro.lines |-> Unfolds(i)]
    BY <1>1, <1>3, <2>2, Zenon DEF A!UnfoldLine
  <2>6. \A i : Substitute(macro, line, macro.lines[i]) = Unfolds(i)
    BY <2>4
  <2> HIDE DEF Unfolds
  <2>7. [i \in DOMAIN macro.lines |-> Unfolds(i)] = [i \in DOMAIN macro.lines |-> Substitute(macro, line, macro.lines[i])]
    BY <2>6
  <2>8. QED
    BY <2>1, <2>5, <2>7, <2>9, Zenon DEF Body
<1>4. QED
  BY <1>1, <1>2, <1>3

\* Lines that unfold to p[Len(ls)] one after another.
LEMMA UnfoldConcatenates ==
  ASSUME NEW s, NEW ls \in Seq(LineType), NEW p, Concatenates(p, Unfolded(s, ls), Len(ls), LineType),
         \A i \in 1 .. Len(ls) : A!UnfoldLine(s, ls[i]) \in Seq(LineType)
  PROVE  A!Unfold(s, ls) = p[Len(ls)]
<1>1. PICK n \in Nat : n = Len(ls) /\ DOMAIN ls = 1 .. n
  OBVIOUS
<1>2. PICK all : all = Unfolded(s, ls)
  OBVIOUS
<1>3. all \in [1 .. n -> Seq(LineType)]
  BY <1>1, <1>2 DEF Unfolded
<1>4. FlattenSeq(all) = p[n]
  BY <1>1, <1>2, <1>3, ConcatenationFlattens
<1>5. QED
  BY <1>1, <1>2, <1>4, SameFlatten, Zenon DEF A!Unfold, Unfolded

\* Nothing is left to unfold.
LEMMA QuietUnfolds ==
  ASSUME NEW s, NEW ls \in Seq(LineType), Quiet(s, ls)
  PROVE  A!Unfold(s, ls) = ls
<1>1. PICK n \in Nat : n = Len(ls) /\ DOMAIN ls = 1 .. n
  OBVIOUS
<1>2. \A i \in 1 .. n : A!UnfoldLine(s, ls[i]) = <<ls[i]>> /\ ls[i] \in LineType
  <2>1. \A i \in 1 .. n : ls[i] \in LineType
    BY <1>1
  <2>2. \A i \in 1 .. n : A!UnfoldLine(s, ls[i]) = <<ls[i]>>
    BY <1>1, Zenon DEF Quiet, A!UnfoldLine
  <2>3. QED
    BY <2>1, <2>2, Zenon
<1> DEFINE p == [i \in 0 .. n |-> SubSeq(ls, 1, i)]
<1>3. p \in [0 .. n -> Seq(LineType)]
  BY <1>1
<1>4. p[0] = <<>> /\ p[n] = ls
  BY <1>1
<1>5. ASSUME NEW i \in 1 .. n PROVE p[i] = p[i - 1] \o <<ls[i]>>
  <2>1. p[i] = SubSeq(ls, 1, i) /\ p[i - 1] = SubSeq(ls, 1, i - 1)
    OBVIOUS
  <2>2. SubSeq(ls, 1, i) = SubSeq(ls, 1, i - 1) \o <<ls[i]>>
    BY <1>1
  <2>3. QED
    BY <2>1, <2>2
<1> HIDE DEF p
<1>6. \A i \in 1 .. n : p[i] = p[i - 1] \o Unfolded(s, ls)[i]
  BY <1>1, <1>2, <1>5 DEF Unfolded
<1>7. Concatenates(p, Unfolded(s, ls), n, LineType)
  BY <1>3, <1>4, <1>6 DEF Concatenates
<1>8. \A i \in 1 .. n : A!UnfoldLine(s, ls[i]) \in Seq(LineType)
  <2>1. \A l \in LineType : <<l>> \in Seq(LineType)
    OBVIOUS
  <2>2. QED
    BY <1>2, <2>1, Zenon
<1>9. QED
  BY <1>1, <1>4, <1>7, <1>8, UnfoldConcatenates

\* The macros that a list of lines invokes, and those that a macro invokes.
Called(s, ls) == {x.name : x \in {y \in Range(ls) : A!Invokes(s, y)}}
Calls(s, name) == Called(s, A!Definition(s, name).lines)

\* The definition that counts is one of the macros of the program.
LEMMA DefinitionType ==
  ASSUME NEW s \in ProgramType, NEW line, A!Invokes(s, line)
  PROVE  A!Definition(s, line.name) \in MacroType
<1> DEFINE S == {i \in DOMAIN s.macros : s.macros[i].name = line.name}
<1>1. s.macros \in Seq(MacroType)
  BY DEF ProgramType
<1>2. S # {} /\ S \in SUBSET (1 .. Len(s.macros)) /\ Len(s.macros) \in Nat
  BY <1>1 DEF A!Invokes
<1>3. A!Max(S) \in S
  <2> HIDE DEF S
  <2>1. PICK n \in Nat : n = Len(s.macros)
    BY <1>2
  <2>2. S \in SUBSET (1 .. n)
    BY <1>2, <2>1
  <2>3. Max(S) \in S
    BY <1>2, <2>2, LastIn
  <2>4. QED
    BY <2>3, SameMax, Zenon
<1>4. A!Definition(s, line.name) = s.macros[A!Max(S)]
  BY DEF A!Definition
<1>5. A!Max(S) \in DOMAIN s.macros
  BY <1>3
<1>6. \A i \in DOMAIN s.macros : s.macros[i] \in MacroType
  BY <1>1
<1>7. QED
  BY <1>4, <1>5, <1>6, Zenon

\* A body invokes the same macros whatever the arguments are.
LEMMA UnfoldedCalls ==
  ASSUME NEW s \in ProgramType, NEW line, A!UnfoldLine(s, line) \in Seq(LineType)
  PROVE  Called(s, A!UnfoldLine(s, line)) = IF A!Invokes(s, line) THEN Calls(s, line.name) ELSE {}
<1>1. CASE ~ A!Invokes(s, line)
  <2>1. A!UnfoldLine(s, line) = <<line>> /\ Range(<<line>>) = {line}
    BY <1>1 DEF A!UnfoldLine, Range
  <2>2. QED
    BY <1>1, <2>1 DEF Called
<1>2. CASE A!Invokes(s, line)
  <2>1. PICK macro \in MacroType : macro = A!Definition(s, line.name)
    BY <1>2, DefinitionType
  <2>2. macro.lines \in Seq(LineType)
    BY DEF MacroType
  <2>3. PICK body : body = A!UnfoldLine(s, line)
    OBVIOUS
  <2>4. DOMAIN body = DOMAIN macro.lines
    BY <1>2, <2>1, <2>3 DEF A!UnfoldLine
  <2>5. ASSUME NEW i \in DOMAIN body
        PROVE  body[i].kind = macro.lines[i].kind /\ body[i].name = macro.lines[i].name
    <3>1. PICK l \in LineType : l = macro.lines[i]
      BY <2>2, <2>4
    <3>2. \A ps : [l EXCEPT !.params = ps].kind = l.kind /\ [l EXCEPT !.params = ps].name = l.name
      BY DEF LineType
    <3>3. body[i] = l \/ \E ps : body[i] = [l EXCEPT !.params = ps]
      BY <1>2, <2>1, <2>3, <2>4, <3>1, Zenon DEF A!UnfoldLine
    <3>4. QED
      BY <3>1, <3>2, <3>3
  <2>6. \A i \in DOMAIN body : A!Invokes(s, body[i]) <=> A!Invokes(s, macro.lines[i])
    BY <2>5 DEF A!Invokes
  <2>7. Called(s, body) = Called(s, macro.lines)
    BY <2>4, <2>5, <2>6 DEF Called, Range
  <2>8. QED
    BY <1>2, <2>1, <2>3, <2>7 DEF Calls
<1>3. QED
  BY <1>1, <1>2

\* One level deeper, the macros invoked are those that the ones invoked here invoke.
LEMMA CalledNext ==
  ASSUME NEW s \in ProgramType, NEW ls \in Seq(LineType), Fitting(s, ls)
  PROVE  Called(s, A!Unfold(s, ls)) = UNION {Calls(s, name) : name \in Called(s, ls)}
<1>1. PICK n \in Nat : n = Len(ls) /\ DOMAIN ls = 1 .. n
  OBVIOUS
<1>2. PICK all : all = Unfolded(s, ls)
  OBVIOUS
<1>3. all \in [1 .. n -> Seq(LineType)] /\ \A i \in 1 .. n : all[i] = A!UnfoldLine(s, ls[i])
  BY <1>1, <1>2 DEF Unfolded, Fitting, Unfoldable
<1>4. PICK p : Concatenates(p, all, n, LineType) /\ FlattenSeq(all) = p[n]
  BY <1>3, FlattenConcatenates
<1>5. A!Unfold(s, ls) = p[n]
  BY <1>2, <1>4, SameFlatten, Zenon DEF A!Unfold, Unfolded
<1>6. \A x : x \in Range(p[n]) <=> \E i \in 1 .. n : x \in Range(all[i])
  <2>1. Range(p[n]) = UNION {Range(all[i]) : i \in 1 .. n}
    BY <1>3, <1>4, ConcatenationRange
  <2>2. QED
    BY <2>1
<1>7. \A name : name \in Called(s, p[n]) <=> \E i \in 1 .. n : name \in Called(s, all[i])
  BY <1>6 DEF Called
<1>8. \A i \in 1 .. n : Called(s, all[i]) = IF A!Invokes(s, ls[i]) THEN Calls(s, ls[i].name) ELSE {}
  BY <1>1, <1>3, UnfoldedCalls DEF Fitting, Unfoldable
<1>9. \A name : name \in Called(s, ls) <=> \E i \in 1 .. n : A!Invokes(s, ls[i]) /\ name = ls[i].name
  BY <1>1 DEF Called, Range
<1>10. \A name : name \in Called(s, p[n]) <=> \E i \in 1 .. n : A!Invokes(s, ls[i]) /\ name \in Calls(s, ls[i].name)
  BY <1>7, <1>8, Zenon
<1>11. \A name : name \in Called(s, p[n]) <=> \E caller \in Called(s, ls) : name \in Calls(s, caller)
  BY <1>9, <1>10, Zenon
<1>12. Called(s, p[n]) = UNION {Calls(s, name) : name \in Called(s, ls)}
  BY <1>11
<1>13. QED
  BY <1>5, <1>12, Zenon

\* Lines are quiet when they call no macro.
LEMMA QuietCalls ==
  ASSUME NEW s, NEW ls
  PROVE  Quiet(s, ls) <=> Called(s, ls) = {}
BY DEF Quiet, Called, Range

\* Names invoked one by the other, from the lines of the program down to depth k.
Trail(s, u, t, k) ==
  /\ t \in [0 .. k -> {s.macros[i].name : i \in 1 .. Len(s.macros)}]
  /\ \A i \in 0 .. k : t[i] \in Called(s, u[i])
  /\ \A i \in 1 .. k : t[i] \in Calls(s, t[i - 1])

\* Whatever is invoked at some depth, a trail leads to it.
LEMMA TrailTo ==
  ASSUME NEW s \in ProgramType, NEW d \in Nat, NEW u, Deepens(s, u, d)
  PROVE  \A k \in 0 .. d : \A name \in Called(s, u[k]) : \E t : Trail(s, u, t, k) /\ t[k] = name
<1> DEFINE N == {s.macros[i].name : i \in 1 .. Len(s.macros)}
           T == {k \in 0 .. d : \A name \in Called(s, u[k]) : \E t : Trail(s, u, t, k) /\ t[k] = name}
<1>0. \A k \in 0 .. d : \A name \in Called(s, u[k]) : name \in N
  <2>1. s.macros \in Seq(MacroType)
    BY DEF ProgramType
  <2>2. QED
    BY <2>1 DEF Called, A!Invokes
<1>1. 0 \in T
  <2> SUFFICES ASSUME NEW name \in Called(s, u[0]) PROVE \E t : Trail(s, u, t, 0) /\ t[0] = name
    OBVIOUS
  <2> DEFINE t == [i \in 0 .. 0 |-> name]
  <2>1. name \in N
    BY <1>0
  <2>2. t \in [0 .. 0 -> N] /\ t[0] = name /\ 0 .. 0 = {0} /\ 1 .. 0 = {}
    BY <2>1
  <2> HIDE DEF t
  <2>3. Trail(s, u, t, 0)
    BY <2>2 DEF Trail
  <2>4. QED
    BY <2>2, <2>3
<1>2. ASSUME NEW k \in 0 .. d, k \in T, k < d PROVE k + 1 \in T
  <2>0. k + 1 \in 1 .. d /\ k + 1 \in 0 .. d /\ (k + 1) - 1 = k /\ k \in Nat
    BY <1>2
  <2> SUFFICES ASSUME NEW name \in Called(s, u[k + 1])
               PROVE  \E t : Trail(s, u, t, k + 1) /\ t[k + 1] = name
    BY <2>0
  <2>1. u[k + 1] = A!Unfold(s, u[k]) /\ Fitting(s, u[k]) /\ u[k] \in Seq(LineType)
    BY <2>0 DEF Deepens
  <2>2. PICK caller \in Called(s, u[k]) : name \in Calls(s, caller)
    BY <2>1, CalledNext
  <2>3. PICK t : Trail(s, u, t, k) /\ t[k] = caller
    BY <1>2
  <2> DEFINE v == [i \in 0 .. k + 1 |-> IF i = k + 1 THEN name ELSE t[i]]
  <2>4. name \in N
    BY <1>0, <2>0
  <2>5. /\ v \in [0 .. k + 1 -> N] /\ v[k + 1] = name /\ \A i \in 0 .. k : v[i] = t[i]
    BY <2>0, <2>3, <2>4 DEF Trail
  <2> HIDE DEF v, N
  <2>6. \A i \in 0 .. k + 1 : v[i] \in Called(s, u[i])
    <3> SUFFICES ASSUME NEW i \in 0 .. k + 1 PROVE v[i] \in Called(s, u[i])
      OBVIOUS
    <3>1. CASE i = k + 1
      BY <3>1, <2>5
    <3>2. CASE i # k + 1
      <4>1. i \in 0 .. k
        BY <3>2
      <4>2. t[i] \in Called(s, u[i])
        BY <4>1, <2>3 DEF Trail
      <4>3. QED
        BY <4>1, <4>2, <2>5
    <3>3. QED
      BY <3>1, <3>2
  <2>7. \A i \in 1 .. k + 1 : v[i] \in Calls(s, v[i - 1])
    <3> SUFFICES ASSUME NEW i \in 1 .. k + 1 PROVE v[i] \in Calls(s, v[i - 1])
      OBVIOUS
    <3>1. CASE i = k + 1
      <4>1. i - 1 = k /\ k \in 0 .. k
        BY <3>1, <2>0
      <4>2. v[i] = name /\ v[i - 1] = caller
        BY <4>1, <3>1, <2>3, <2>5
      <4>3. QED
        BY <4>2, <2>2
    <3>2. CASE i # k + 1
      <4>1. i \in 1 .. k /\ i \in 0 .. k /\ i - 1 \in 0 .. k
        BY <3>2
      <4>2. t[i] \in Calls(s, t[i - 1])
        BY <4>1, <2>3 DEF Trail
      <4>3. QED
        BY <4>1, <4>2, <2>5
    <3>3. QED
      BY <3>1, <3>2
  <2>8. Trail(s, u, v, k + 1)
    BY <2>5, <2>6, <2>7 DEF Trail, N
  <2>9. QED
    BY <2>5, <2>8
<1>3. T = 0 .. d
  <2>1. T \in SUBSET (0 .. d)
    OBVIOUS
  <2> HIDE DEF T
  <2>2. QED
    BY <1>1, <1>2, <2>1, Upward
<1>4. QED
  BY <1>3

\* If the lines have no invocation left at some depth, they have none left at
\* the depth of the number of macros: a longer trail meets a macro twice, and
\* then there are invocations at every depth.
LEMMA DeepEnough ==
  ASSUME NEW s \in ProgramType, NEW d \in Nat, NEW u, Deepens(s, u, d), Quiet(s, u[d]),
         Len(s.macros) < d
  PROVE  Quiet(s, u[Len(s.macros)])
<1>1. PICK M \in Nat : M = Len(s.macros) /\ DOMAIN s.macros = 1 .. M /\ M \in 0 .. d
  BY DEF ProgramType
<1> DEFINE N == {s.macros[i].name : i \in 1 .. Len(s.macros)}
<1>2. SUFFICES ASSUME NEW name \in Called(s, u[M]) PROVE FALSE
  BY <1>1, QuietCalls
<1>3. PICK t : Trail(s, u, t, M)
  BY <1>1, TrailTo
<1>4. \E i, j \in 0 .. M : i # j /\ t[i] = t[j]
  <2> DEFINE f == [i \in 1 .. M |-> s.macros[i].name]
  <2>1. f \in Surjection(1 .. M, N)
    BY <1>1 DEF Surjection
  <2>2. ExistsSurjection(1 .. M, N)
    BY <2>1 DEF ExistsSurjection
  <2>3. Cardinality(N) <= M /\ IsFiniteSet(N)
    <3>1. IsFiniteSet(1 .. M)
      BY FS_Interval
    <3> HIDE DEF N, f
    <3>2. QED
      BY <2>1, <2>2, <3>1, FS_SurjCardinalityBound, FS_Surjection
  <2>4. IsFiniteSet(0 .. M) /\ Cardinality(0 .. M) = M + 1
    BY FS_Interval
  <2>5. t \in [0 .. M -> N]
    BY <1>3 DEF Trail
  <2>6. Cardinality(N) < Cardinality(0 .. M)
    <3>1. Cardinality(N) \in Nat
      BY <2>3, FS_CardinalityType
    <3>2. QED
      BY <2>3, <2>4, <3>1
  <2> HIDE DEF N
  <2>7. \E x, y \in 0 .. M : x # y /\ t[x] = t[y]
    BY <2>3, <2>4, <2>5, <2>6, FS_PigeonHole
  <2>8. QED
    BY <2>7
<1>5. PICK i, j \in 0 .. M : i < j /\ t[i] = t[j]
  BY <1>4
<1> DEFINE C == {t[k] : k \in i .. j - 1}
<1>6. ASSUME NEW n \in C PROVE Calls(s, n) \intersect C # {}
  <2>1. PICK k \in i .. j - 1 : n = t[k]
    OBVIOUS
  <2>2. k + 1 \in 1 .. M /\ (k + 1) - 1 = k /\ k \in Nat
    OBVIOUS
  <2>3. t[k + 1] \in Calls(s, n)
    BY <1>3, <2>1, <2>2 DEF Trail
  <2>4. t[k + 1] \in C
    <3>1. CASE k = j - 1
      <4>1. k + 1 = j /\ i \in i .. j - 1
        BY <1>5, <3>1
      <4>2. QED
        BY <1>5, <4>1
    <3>2. CASE k # j - 1
      <4>1. k + 1 \in i .. j - 1
        BY <3>2
      <4>2. QED
        BY <4>1
    <3>3. QED
      BY <3>1, <3>2
  <2>5. QED
    BY <2>3, <2>4
<1>7. t[i] \in C /\ t[i] \in Called(s, u[i])
  <2>1. i \in i .. j - 1 /\ i \in 0 .. M
    BY <1>5
  <2>2. QED
    BY <2>1, <1>3 DEF Trail
<1> DEFINE T == {k \in 0 .. d : k < i \/ Called(s, u[k]) \intersect C # {}}
<1> HIDE DEF C
<1>8. 0 \in T
  BY <1>7
<1>9. ASSUME NEW k \in 0 .. d, k \in T, k < d PROVE k + 1 \in T
  <2>1. k + 1 \in 1 .. d /\ k + 1 \in 0 .. d /\ (k + 1) - 1 = k
    BY <1>9
  <2>2. CASE k + 1 < i
    BY <2>1, <2>2
  <2>3. CASE k + 1 = i
    BY <2>1, <2>3, <1>7
  <2>4. CASE k + 1 > i
    <3>1. PICK n \in C : n \in Called(s, u[k])
      BY <2>4, <1>9
    <3>2. PICK m \in C : m \in Calls(s, n)
      BY <1>6
    <3>3. u[k + 1] = A!Unfold(s, u[k]) /\ Fitting(s, u[k]) /\ u[k] \in Seq(LineType)
      BY <2>1 DEF Deepens
    <3>4. m \in Called(s, u[k + 1])
      BY <3>1, <3>2, <3>3, CalledNext
    <3>5. QED
      BY <2>1, <3>2, <3>4
  <2>5. QED
    BY <2>2, <2>3, <2>4
<1>10. T = 0 .. d
  <2>1. T \in SUBSET (0 .. d)
    OBVIOUS
  <2> HIDE DEF T
  <2>2. QED
    BY <1>8, <1>9, <2>1, Upward
<1>11. d \in T /\ ~ (d < i)
  BY <1>10, <1>1
<1>12. Called(s, u[d]) # {}
  BY <1>11
<1>13. QED
  BY <1>12, QuietCalls

\* Nothing changes any more once no invocation is left.
LEMMA QuietStays ==
  ASSUME NEW s, NEW d \in Nat, NEW u, Deepens(s, u, d), NEW m \in 0 .. d, Quiet(s, u[m])
  PROVE  u[d] = u[m]
<1> DEFINE T == {k \in 0 .. d : k < m \/ u[k] = u[m]}
<1>1. 0 \in T /\ T \in SUBSET (0 .. d)
  OBVIOUS
<1>2. ASSUME NEW k \in 0 .. d, k \in T, k < d PROVE k + 1 \in T
  <2>1. k + 1 \in 1 .. d /\ k + 1 \in 0 .. d /\ (k + 1) - 1 = k
    BY <1>2
  <2>2. CASE k + 1 <= m
    BY <2>1, <2>2
  <2>3. CASE ~ (k + 1 <= m)
    <3>1. u[k] = u[m]
      BY <1>2, <2>3
    <3>2. u[k + 1] = A!Unfold(s, u[k]) /\ u[k] \in Seq(LineType)
      BY <2>1 DEF Deepens
    <3>3. u[k + 1] = u[m]
      BY <3>1, <3>2, QuietUnfolds
    <3>4. QED
      BY <2>1, <3>3
  <2>4. QED
    BY <2>2, <2>3
<1>3. T = 0 .. d
  <2> HIDE DEF T
  <2>1. QED
    BY <1>1, <1>2, Upward
<1>4. d \in T
  BY <1>3
<1>5. QED
  BY <1>4

\* As many levels as there are macros are enough, and more change nothing.
LEMMA FullyExpanded ==
  ASSUME NEW s \in ProgramType, NEW d \in Nat, NEW u, Deepens(s, u, d), Quiet(s, u[d])
  PROVE  A!FullExpansion(s) = u[d]
<1>1. PICK M \in Nat : M = Len(s.macros)
  BY DEF ProgramType
<1>2. u[d] \in Seq(LineType) /\ A!Unfold(s, u[d]) = u[d]
  <2>1. u[d] \in Seq(LineType)
    BY DEF Deepens
  <2>2. QED
    BY <2>1, QuietUnfolds
<1> DEFINE v == [k \in 0 .. M |-> IF k <= d THEN u[k] ELSE u[d]]
<1>3. v[0] = s.lines
  BY DEF Deepens
<1>4. v[M] = u[d]
  <2>1. CASE M < d
    <3>1. Quiet(s, u[M]) /\ M \in 0 .. d
      BY <1>1, <2>1, DeepEnough
    <3>2. u[d] = u[M]
      BY <3>1, QuietStays
    <3>3. QED
      BY <3>2, <2>1
  <2>2. CASE ~ (M < d)
    <3>1. CASE M = d
      BY <3>1
    <3>2. CASE M # d
      BY <3>2, <2>2
    <3>3. QED
      BY <3>1, <3>2
  <2>3. QED
    BY <2>1, <2>2
<1>5. ASSUME NEW k \in 1 .. M PROVE v[k] = A!Unfold(s, v[k - 1])
  <2>1. CASE k <= d
    <3>1. k \in 1 .. d /\ v[k] = u[k] /\ v[k - 1] = u[k - 1]
      BY <2>1
    <3>2. QED
      BY <3>1 DEF Deepens
  <2>2. CASE k = d + 1
    <3>1. v[k] = u[d] /\ v[k - 1] = u[d]
      BY <2>2
    <3>2. QED
      BY <3>1, <1>2
  <2>3. CASE k > d + 1
    <3>1. v[k] = u[d] /\ v[k - 1] = u[d]
      BY <2>3
    <3>2. QED
      BY <3>1, <1>2
  <2>4. QED
    BY <2>1, <2>2, <2>3
<1> DEFINE Rec(f) == f = [k \in 0 .. M |-> IF k = 0 THEN s.lines ELSE A!Unfold(s, f[k - 1])]
<1>6. Rec(v)
  <2>1. \A k \in 0 .. M : v[k] = IF k = 0 THEN s.lines ELSE A!Unfold(s, v[k - 1])
    <3> HIDE DEF v
    <3>1. QED
      BY <1>3, <1>5
  <2>2. v = [k \in 0 .. M |-> v[k]]
    OBVIOUS
  <2> HIDE DEF v
  <2>3. QED
    BY <2>1, <2>2
<1> HIDE DEF v
<1>7. PICK f : f = A!Depths(s) /\ Rec(f)
  BY <1>1, <1>6, Zenon DEF A!Depths
<1>8. \A k \in 0 .. M : f[k] = IF k = 0 THEN s.lines ELSE A!Unfold(s, f[k - 1])
  BY <1>7
<1> DEFINE T == {k \in 0 .. M : f[k] = v[k]}
<1>9. 0 \in T /\ T \in SUBSET (0 .. M)
  BY <1>3, <1>8
<1>10. ASSUME NEW k \in 0 .. M, k \in T, k < M PROVE k + 1 \in T
  <2>1. k + 1 \in 1 .. M /\ k + 1 \in 0 .. M /\ (k + 1) - 1 = k /\ k + 1 # 0
    BY <1>10
  <2>2. f[k + 1] = A!Unfold(s, f[k]) /\ v[k + 1] = A!Unfold(s, v[k])
    <3> HIDE DEF Rec
    <3>1. QED
      BY <2>1, <1>5, <1>8
  <2>3. QED
    BY <2>1, <2>2, <1>10
<1>11. T = 0 .. M
  <2> HIDE DEF T
  <2>1. QED
    BY <1>9, <1>10, Upward
<1>12. f[M] = v[M]
  <2>1. M \in T
    BY <1>11
  <2>2. QED
    BY <2>1
<1>13. QED
  BY <1>1, <1>4, <1>7, <1>12, Zenon DEF A!FullExpansion

\* The first j lines of ls are unfolded, the others still to be looked at.
AtPass(s, ls, all, at, replaced) ==
  \E j \in 0 .. Len(ls) : \E p :
    /\ Concatenates(p, Unfolded(s, ls), j, LineType)
    /\ \A i \in 1 .. j : Unfoldable(s, ls[i])
    /\ Left(all, p[j], ls, j + 1) /\ at = Len(p[j]) + 1
    /\ replaced = 0 <=> \A i \in 1 .. j : ~ A!Invokes(s, ls[i])

\* A new pass has unfolded nothing yet.
LEMMA PassBegins ==
  ASSUME NEW s, NEW ls \in Seq(LineType)
  PROVE  AtPass(s, ls, ls, 1, 0)
<1> DEFINE p == [k \in 0 .. 0 |-> <<>>]
<1>1. Concatenates(p, Unfolded(s, ls), 0, LineType) /\ p[0] = <<>>
  <2>1. <<>> \in Seq(LineType)
    OBVIOUS
  <2>2. QED
    BY <2>1 DEF Concatenates
<1> HIDE DEF p
<1>2. Left(ls, p[0], ls, 0 + 1) /\ 1 = Len(p[0]) + 1
  BY <1>1 DEF Left, Join
<1>3. 0 \in 0 .. Len(ls)
  OBVIOUS
<1>4. \A i \in 1 .. 0 : Unfoldable(s, ls[i]) /\ ~ A!Invokes(s, ls[i])
  OBVIOUS
<1>5. QED
  BY <1>1, <1>2, <1>3, <1>4 DEF AtPass

\* The pass has begun with the lines of some depth.
ExpandInv ==
  /\ stage = "expand" =>
       /\ macros = source.macros
       /\ \E d \in Nat : \E u : Deepens(source, u, d) /\ AtPass(source, u[d], lines, iter, replaced_macros)
  /\ ExpansionCorrect

\* The first pass begins with the lines of the program.
LEMMA InitExpandInv == Init => ExpandInv
<1> SUFFICES ASSUME Init PROVE ExpandInv
  OBVIOUS
<1>1. /\ stage = "expand" /\ macros = source.macros /\ lines = source.lines
      /\ iter = 1 /\ replaced_macros = 0
  BY DEF Init, AstInit, MacroInit, Parsed
<1>2. PICK s \in ProgramType : s = source
  BY SourcesAssumption DEF Init, AstInit, source, ProgramType
<1> DEFINE u == [k \in 0 .. 0 |-> s.lines]
<1>3. s.lines \in Seq(LineType)
  BY DEF ProgramType
<1>4. Deepens(s, u, 0) /\ u[0] = s.lines
  BY <1>3 DEF Deepens
<1> HIDE DEF u
<1>5. AtPass(s, s.lines, s.lines, 1, 0)
  BY <1>3, PassBegins
<1>6. ExpansionCorrect
  BY <1>1 DEF ExpansionCorrect
<1>7. QED
  BY <1>1, <1>2, <1>4, <1>5, <1>6 DEF ExpandInv

\* The line at which a pass is unfolds to body, and is counted if it is replaced.
Finds(s, all, at, replaced, body, new) ==
  /\ at <= Len(all) /\ body = A!UnfoldLine(s, all[at]) /\ Suits(s, all[at])
  /\ new = IF A!Invokes(s, all[at]) THEN replaced + 1 ELSE replaced

\* The body has come in the place of the line, and the pass is behind it.
Moved(s, ls, all, at, body, new) ==
  \E front, one, rest \in Seq(LineType) :
    /\ Splits(LineType, all, front, one, rest) /\ Len(front) = at - 1 /\ one = <<all[at]>>
    /\ AtPass(s, ls, Join(Join(front, body), rest), at + Len(body), new)

\* A line more: it stays, or its body comes in its place.
LEMMA PassOn ==
  ASSUME NEW s, NEW ls \in Seq(LineType), NEW all \in Seq(LineType), NEW at, NEW replaced \in Nat,
         AtPass(s, ls, all, at, replaced),
         NEW body \in Seq(LineType), NEW new, Finds(s, all, at, replaced, body, new)
  PROVE  Moved(s, ls, all, at, body, new)
<1>0. /\ at <= Len(all) /\ body = A!UnfoldLine(s, all[at]) /\ Suits(s, all[at])
      /\ new = IF A!Invokes(s, all[at]) THEN replaced + 1 ELSE replaced
  BY DEF Finds
<1>1. PICK j, p :
        /\ j \in 0 .. Len(ls)
        /\ Concatenates(p, Unfolded(s, ls), j, LineType)
        /\ \A i \in 1 .. j : Unfoldable(s, ls[i])
        /\ Left(all, p[j], ls, j + 1) /\ at = Len(p[j]) + 1
        /\ replaced = 0 <=> \A i \in 1 .. j : ~ A!Invokes(s, ls[i])
  BY DEF AtPass
<1>2. PICK front \in Seq(LineType) : front = p[j]
  BY <1>1 DEF Concatenates
<1>3. PICK n \in 1 .. Len(ls) + 1 : n = j + 1 /\ j = n - 1
  BY <1>1
<1>4. NextOf(LineType, all, front, ls, n)
  <2>1. Left(all, front, ls, n) /\ Len(front) + 1 <= Len(all)
    BY <1>0, <1>1, <1>2, <1>3
  <2>2. QED
    BY <2>1, Behind
<1>5. PICK one, rest \in Seq(LineType) :
        /\ n \in 1 .. Len(ls) /\ ls[n] \in LineType /\ one = <<ls[n]>> /\ Len(one) = 1
        /\ rest = SubSeq(ls, n + 1, Len(ls)) /\ Splits(LineType, all, front, one, rest)
  BY <1>4 DEF NextOf
<1>6. Len(front) \in Nat /\ at = Len(front) + 1 /\ Len(front) = at - 1
  BY <1>1, <1>2
<1>7. ls[n] = all[at]
  <2>1. all[Len(front) + 1] = one[1] /\ one[1] = ls[n]
    BY <1>5 DEF Splits
  <2>2. QED
    BY <1>6, <2>1
<1>8. Unfolded(s, ls)[n] = body
  <2>1. Unfolded(s, ls)[n] = A!UnfoldLine(s, ls[n])
    BY <1>5 DEF Unfolded
  <2>2. QED
    BY <1>0, <1>7, <2>1
<1>9. PICK q : Concatenates(q, Unfolded(s, ls), n, LineType) /\ q[n] = Join(front, body)
  <2>1. PICK seqs : seqs = Unfolded(s, ls)
    OBVIOUS
  <2>2. j \in Nat /\ Concatenates(p, seqs, j, LineType) /\ body = seqs[n]
    BY <1>1, <1>8, <2>1
  <2>3. PICK q : Concatenates(q, seqs, n, LineType) /\ q[n] = Join(p[j], body)
    BY <1>3, <2>2, ConcatenationGoesOn
  <2>4. QED
    BY <1>2, <2>1, <2>3
<1>10. Len(q[n]) + 1 = at + Len(body)
  <2>1. Joined(LineType, front, body, q[n])
    BY <1>9, JoinIsJoined
  <2>2. Len(q[n]) = Len(front) + Len(body) /\ Len(body) \in Nat
    BY <2>1 DEF Joined
  <2>3. QED
    BY <1>6, <2>2
<1>11. \A i \in 1 .. n : i \in 1 .. j \/ i = n
  BY <1>3
<1>12. \A i \in 1 .. n : Unfoldable(s, ls[i])
  BY <1>0, <1>1, <1>7, <1>11, Zenon DEF Unfoldable
<1>13. new = 0 <=> \A i \in 1 .. n : ~ A!Invokes(s, ls[i])
  <2>1. n \in 1 .. n /\ \A i \in 1 .. j : i \in 1 .. n
    BY <1>3
  <2>2. replaced + 1 # 0
    OBVIOUS
  <2>3. QED
    BY <1>0, <1>1, <1>7, <1>11, <2>1, <2>2, Zenon
<1>14. n \in 0 .. Len(ls)
  BY <1>5
<1>15. Left(Join(Join(front, body), rest), q[n], ls, n + 1)
  BY <1>5, <1>9, Zenon DEF Left
<1>16. AtPass(s, ls, Join(Join(front, body), rest), at + Len(body), new)
  BY <1>9, <1>10, <1>12, <1>13, <1>14, <1>15, Zenon DEF AtPass
<1>17. one = <<all[at]>>
  BY <1>5, <1>7, Zenon
<1>18. QED
  BY <1>5, <1>6, <1>16, <1>17, Zenon DEF Moved

\* ReplaceInvocation puts the body in the place of the line.
LEMMA ReplaceOn ==
  ASSUME ListsInv, macros = source.macros, ReplaceInvocation,
         NEW ls \in Seq(LineType), AtPass(source, ls, lines, iter, replaced_macros)
  PROVE  AtPass(source, ls, lines', iter', replaced_macros')
<1>1. PICK line, macro, body :
        /\ line = lines[iter] /\ macro = m_macros[line.name] /\ body = Body(macro, line)
        /\ Invocation(line) /\ Expandable(macro, line)
        /\ lines' = SubSeq(lines, 1, iter - 1) \o body \o SubSeq(lines, iter + 1, Len(lines))
        /\ iter' = iter + Len(macro.lines) /\ replaced_macros' = replaced_macros + 1
  BY DEF ReplaceInvocation
<1>2. /\ lines \in Seq(LineType) /\ iter \in 1 .. Len(lines) /\ replaced_macros \in Nat
      /\ iter <= Len(lines)
  BY DEF ListsInv, ReplaceInvocation, InPass
<1>3. macro \in MacroType /\ line \in LineType
  BY <1>1, <1>2, MacroFound
<1>4. body \in Seq(LineType) /\ Len(body) = Len(macro.lines)
  BY <1>1, <1>3, BodyType
<1>5. body = A!UnfoldLine(source, line) /\ A!Invokes(source, line) /\ Suits(source, line)
  BY <1>1, InvocationUnfolds
<1>6. PICK new : new = replaced_macros'
  OBVIOUS
<1>7. PICK front, one, rest \in Seq(LineType) :
        /\ Splits(LineType, lines, front, one, rest) /\ Len(front) = iter - 1
        /\ AtPass(source, ls, Join(Join(front, body), rest), iter + Len(body), new)
  <2>1. Finds(source, lines, iter, replaced_macros, body, new)
    BY <1>1, <1>2, <1>5, <1>6, Zenon DEF Finds
  <2>2. Moved(source, ls, lines, iter, body, new)
    BY <1>2, <1>4, <2>1, PassOn
  <2>3. QED
    BY <2>2, Zenon DEF Moved
<1>8. SubSeq(lines, 1, iter - 1) = front /\ SubSeq(lines, iter + 1, Len(lines)) = rest
  <2>1. iter + 1 = Len(front) + 2
    BY <1>2, <1>7
  <2>2. QED
    BY <1>7, <2>1 DEF Splits
<1>9. lines' = Join(Join(front, body), rest)
  BY <1>1, <1>8, Zenon DEF Join
<1>10. QED
  BY <1>1, <1>4, <1>6, <1>7, <1>9

\* SkipLine leaves the line where it is.
LEMMA SkipOn ==
  ASSUME ListsInv, macros = source.macros, SkipLine,
         NEW ls \in Seq(LineType), AtPass(source, ls, lines, iter, replaced_macros)
  PROVE  AtPass(source, ls, lines', iter', replaced_macros')
<1>1. PICK line, body : line = lines[iter] /\ body = <<line>> /\ Len(body) = 1 /\ ~ Invocation(line)
  <2>1. PICK line : line = lines[iter] /\ ~ Invocation(line)
    BY DEF SkipLine
  <2>2. Len(<<line>>) = 1
    OBVIOUS
  <2>3. QED
    BY <2>1, <2>2
<1>2. /\ lines \in Seq(LineType) /\ iter \in 1 .. Len(lines) /\ replaced_macros \in Nat
      /\ iter <= Len(lines) /\ iter' = iter + 1 /\ lines' = lines /\ replaced_macros' = replaced_macros
  BY DEF ListsInv, SkipLine, InPass, astVars
<1>3. body \in Seq(LineType)
  <2>1. line \in LineType
    BY <1>1, <1>2
  <2>2. QED
    BY <1>1, <2>1
<1>4. body = A!UnfoldLine(source, line) /\ ~ A!Invokes(source, line) /\ Suits(source, line)
  BY <1>1, InvocationUnfolds DEF Suits
<1>5. PICK new : new = replaced_macros
  OBVIOUS
<1>6. PICK front, one, rest \in Seq(LineType) :
        /\ Splits(LineType, lines, front, one, rest) /\ one = <<line>>
        /\ AtPass(source, ls, Join(Join(front, body), rest), iter + Len(body), new)
  <2>1. Finds(source, lines, iter, replaced_macros, body, new)
    BY <1>1, <1>2, <1>4, <1>5, Zenon DEF Finds
  <2>2. Moved(source, ls, lines, iter, body, new)
    BY <1>2, <1>3, <2>1, PassOn
  <2>3. QED
    BY <1>1, <2>2, Zenon DEF Moved
<1>7. lines = Join(Join(front, body), rest)
  BY <1>1, <1>6 DEF Splits
<1>8. QED
  BY <1>1, <1>2, <1>5, <1>6, <1>7

\* At the end of a pass the lines of the next depth are there.
LEMMA PassEnds ==
  ASSUME NEW s, NEW ls \in Seq(LineType), NEW all \in Seq(LineType), NEW at, NEW replaced \in Nat,
         AtPass(s, ls, all, at, replaced), at > Len(all)
  PROVE  /\ all = A!Unfold(s, ls) /\ Fitting(s, ls)
         /\ replaced = 0 => Quiet(s, ls)
<1>1. PICK j, p :
        /\ j \in 0 .. Len(ls)
        /\ Concatenates(p, Unfolded(s, ls), j, LineType)
        /\ \A i \in 1 .. j : Unfoldable(s, ls[i])
        /\ Left(all, p[j], ls, j + 1) /\ at = Len(p[j]) + 1
        /\ replaced = 0 <=> \A i \in 1 .. j : ~ A!Invokes(s, ls[i])
  BY DEF AtPass
<1>2. PICK front \in Seq(LineType) : front = p[j]
  BY <1>1 DEF Concatenates
<1>3. PICK back : back = SubSeq(ls, j + 1, Len(ls))
  OBVIOUS
<1>4. back \in Seq(LineType) /\ Len(back) = Len(ls) - j
  BY <1>1, <1>3
<1>5. Joined(LineType, front, back, all) /\ all = front \o back
  BY <1>1, <1>2, <1>3, <1>4, JoinIsJoined DEF Left, Join
<1>6. j = Len(ls)
  <2>1. Len(all) = Len(front) + Len(back) /\ Len(front) \in Nat /\ at = Len(front) + 1
    BY <1>1, <1>2, <1>5 DEF Joined
  <2>2. j \in 0 .. Len(ls) /\ Len(ls) \in Nat
    BY <1>1
  <2>3. Len(back) \in Nat /\ Len(back) = Len(ls) - j
    BY <1>4
  <2>4. QED
    BY <2>1, <2>2, <2>3
<1>7. all = p[Len(ls)]
  <2>1. back = <<>>
    BY <1>4, <1>6
  <2>2. QED
    BY <1>2, <1>5, <1>6, <2>1
<1>8. DOMAIN ls = 1 .. j
  BY <1>6
<1>9. all = A!Unfold(s, ls)
  BY <1>1, <1>6, <1>7, UnfoldConcatenates DEF Unfoldable
<1>10. Fitting(s, ls) /\ (replaced = 0 => Quiet(s, ls))
  BY <1>1, <1>8 DEF Fitting, Quiet
<1>11. QED
  BY <1>9, <1>10

\* The pass at the end of the lines either begins again, one level deeper, or is
\* the last one.
LEMMA EndPassOn ==
  ASSUME ListsInv, file' = file, EndPass, NEW d \in Nat, NEW u,
         source \in ProgramType, Deepens(source, u, d), AtPass(source, u[d], lines, iter, replaced_macros)
  PROVE  /\ replaced_macros > 0 =>
              \E e \in Nat : \E v : Deepens(source, v, e) /\ AtPass(source, v[e], lines', iter', replaced_macros')
         /\ ~ (replaced_macros > 0) => lines' = A!FullExpansion(source)
<1>1. /\ lines \in Seq(LineType) /\ iter \in Int /\ replaced_macros \in Nat
      /\ iter > Len(lines) /\ lines' = lines
  BY DEF ListsInv, EndPass
<1>2. PICK ls \in Seq(LineType) : ls = u[d]
  BY DEF Deepens
<1>3. lines = A!Unfold(source, ls) /\ Fitting(source, ls) /\ (replaced_macros = 0 => Quiet(source, ls))
  BY <1>1, <1>2, PassEnds
<1>4. ASSUME replaced_macros > 0
      PROVE  \E e \in Nat : \E v : Deepens(source, v, e) /\ AtPass(source, v[e], lines', iter', replaced_macros')
  <2>1. iter' = 1 /\ replaced_macros' = 0
    BY <1>4 DEF EndPass
  <2>2. PICK e \in Nat : e = d + 1
    OBVIOUS
  <2> DEFINE v == [k \in 0 .. e |-> IF k = e THEN lines ELSE u[k]]
  <2>3. v \in [0 .. e -> Seq(LineType)] /\ v[e] = lines /\ \A k \in 0 .. d : v[k] = u[k]
    BY <1>1, <2>2 DEF Deepens
  <2> HIDE DEF v
  <2>4. v[0] = source.lines
    BY <2>3 DEF Deepens
  <2>5. ASSUME NEW k \in 1 .. e
        PROVE  v[k] = A!Unfold(source, v[k - 1]) /\ Fitting(source, v[k - 1])
    <3>1. CASE k = e
      <4>1. k - 1 = d /\ d \in 0 .. d
        BY <2>2, <3>1
      <4>2. v[k - 1] = ls /\ v[k] = lines
        BY <1>2, <2>3, <3>1, <4>1
      <4>3. QED
        BY <1>3, <4>2
    <3>2. CASE k # e
      <4>1. k \in 1 .. d /\ k \in 0 .. d /\ k - 1 \in 0 .. d
        BY <2>2, <3>2
      <4>2. v[k] = u[k] /\ v[k - 1] = u[k - 1]
        BY <2>3, <4>1
      <4>3. QED
        BY <4>1, <4>2 DEF Deepens
    <3>3. QED
      BY <3>1, <3>2
  <2>6. Deepens(source, v, e)
    BY <2>3, <2>4, <2>5 DEF Deepens
  <2>7. AtPass(source, v[e], lines', iter', replaced_macros')
    BY <1>1, <2>1, <2>3, PassBegins
  <2>8. QED
    BY <2>6, <2>7
<1>5. ASSUME ~ (replaced_macros > 0) PROVE lines' = A!FullExpansion(source)
  <2>1. replaced_macros = 0
    BY <1>1, <1>5
  <2>2. Quiet(source, u[d])
    BY <1>2, <1>3, <2>1
  <2>3. lines = u[d]
    BY <1>2, <1>3, <2>2, QuietUnfolds
  <2>4. A!FullExpansion(source) = u[d]
    BY <2>2, FullyExpanded
  <2>5. QED
    BY <1>1, <2>3, <2>4
<1>6. QED
  BY <1>4, <1>5

\* No step of the assembler leaves the invariant.
LEMMA NextExpandInv == TypeInv /\ ExpandInv /\ [Next]_asmVars => ExpandInv'
<1> SUFFICES ASSUME TypeInv, ExpandInv, [Next]_asmVars PROVE ExpandInv'
  OBVIOUS
<1>1. ListsInv /\ file \in DOMAIN Sources /\ source \in ProgramType
  BY SourcesAssumption DEF TypeInv, ListsInv, source, ProgramType
<1>2. CASE SkipLine \/ ReplaceInvocation
  <2>1. stage = "expand" /\ stage' = stage /\ macros' = macros /\ file' = file
    BY <1>2 DEF SkipLine, ReplaceInvocation, InPass, astVars
  <2>2. PICK d, u : /\ d \in Nat
                    /\ macros = source.macros /\ Deepens(source, u, d)
                    /\ AtPass(source, u[d], lines, iter, replaced_macros)
    BY <2>1 DEF ExpandInv
  <2>3. u[d] \in Seq(LineType)
    BY <2>2 DEF Deepens
  <2>4. AtPass(source, u[d], lines', iter', replaced_macros')
    BY <1>1, <1>2, <2>2, <2>3, SkipOn, ReplaceOn
  <2>5. source' = source
    BY <2>1 DEF source
  <2>6. \E e \in Nat : \E v : Deepens(source', v, e) /\ AtPass(source', v[e], lines', iter', replaced_macros')
    BY <2>2, <2>4, <2>5
  <2>7. stage' # "translate" /\ macros' = source'.macros
    BY <2>1, <2>2, <2>5
  <2>8. QED
    BY <2>6, <2>7 DEF ExpandInv, ExpansionCorrect
<1>3. CASE EndPass
  <2>1. stage = "expand" /\ macros' = macros /\ file' = file
    BY <1>3 DEF EndPass
  <2>2. PICK d, u : /\ d \in Nat
                    /\ macros = source.macros /\ Deepens(source, u, d)
                    /\ AtPass(source, u[d], lines, iter, replaced_macros)
    BY <2>1 DEF ExpandInv
  <2>3. source' = source
    BY <2>1 DEF source
  <2>4. CASE replaced_macros > 0
    <3>1. stage' # "translate"
      BY <1>3, <2>1, <2>4 DEF EndPass
    <3>2. \E e \in Nat : \E v : Deepens(source, v, e) /\ AtPass(source, v[e], lines', iter', replaced_macros')
      BY <1>1, <1>3, <2>1, <2>2, <2>4, EndPassOn
    <3>3. \E e \in Nat : \E v : Deepens(source', v, e) /\ AtPass(source', v[e], lines', iter', replaced_macros')
      BY <2>3, <3>2
    <3>4. macros' = source'.macros
      BY <2>1, <2>2, <2>3
    <3>5. QED
      BY <3>1, <3>3, <3>4 DEF ExpandInv, ExpansionCorrect
  <2>5. CASE ~ (replaced_macros > 0)
    <3>1. stage' = "translate"
      BY <1>3, <2>5 DEF EndPass
    <3>2. lines' = A!FullExpansion(source)
      BY <1>1, <1>3, <2>1, <2>2, <2>5, EndPassOn
    <3>3. lines' = A!FullExpansion(source')
      BY <2>3, <3>2
    <3>4. QED
      BY <3>1, <3>3 DEF ExpandInv, ExpansionCorrect, source, A!FullExpansion, A!Depths, A!Unfold, A!UnfoldLine, A!Invokes, A!Definition, A!Actual
  <2>6. QED
    BY <2>4, <2>5
<1>4. CASE BadInvocation \/ Transform \/ Emit
  <2>1. stage' \notin {"expand", "translate"}
    <3>1. CASE BadInvocation
      BY <3>1 DEF BadInvocation, Terminate
    <3>2. CASE Transform
      BY <3>2, TransformFrame
    <3>3. CASE Emit
      <4>1. ASSUME EmitNode, UNCHANGED stage PROVE stage' \notin {"expand", "translate"}
        BY <4>1, EmitNodeFrame
      <4>2. ASSUME OpenOutput \/ EmitThrows \/ EmitSymbols \/ Save PROVE stage' \notin {"expand", "translate"}
        BY <4>2 DEF OpenOutput, EmitThrows, EmitSymbols, Save, Terminate
      <4>3. QED
        BY <3>3, <4>1, <4>2, EmitCases
    <3>4. QED
      BY <1>4, <3>1, <3>2, <3>3
  <2>2. QED
    BY <2>1 DEF ExpandInv, ExpansionCorrect
<1>5. CASE UNCHANGED asmVars
  <2>1. UNCHANGED <<stage, file, lines, macros, iter, replaced_macros>>
    BY <1>5 DEF asmVars, astVars, macroVars
  <2>2. source' = source
    BY <2>1 DEF source
  <2>3. QED
    BY <2>1, <2>2 DEF ExpandInv, ExpansionCorrect
<1>6. QED
  BY <1>2, <1>3, <1>4, <1>5 DEF Next, ExpandMacros

\* When the passes have come to an end, the lines of the program are the ones
\* that its invocations unfold to, level by level.
THEOREM ExpansionIsCorrect == Spec => []ExpansionCorrect
<1>1. ExpandInv => ExpansionCorrect
  BY DEF ExpandInv
<1>2. QED
  BY <1>1, AssemblerInvariance, InitExpandInv, NextExpandInv, PTL DEF Spec

-----------------------------------------------------------------------------
(* The programs that can be expanded. *)

\* The recursion that the depths are defined with has a result.
LEMMA DepthsUnfold ==
  ASSUME NEW s \in ProgramType
  PROVE  /\ A!Depths(s)[0] = s.lines
         /\ \A d \in 1 .. Len(s.macros) : A!Depths(s)[d] = A!Unfold(s, A!Depths(s)[d - 1])
<1>1. PICK M \in Nat : M = Len(s.macros)
  BY DEF ProgramType
<1> DEFINE Deep(g, i) == IF i = 0 THEN s.lines ELSE A!Unfold(s, g[i - 1])
           Rec(g, m) == g = [i \in 0 .. m |-> Deep(g, i)]
           Good(m) == \E g : Rec(g, m)
<1>2. Good(0)
  <2> DEFINE g == [i \in 0 .. 0 |-> s.lines]
  <2>1. Rec(g, 0)
    OBVIOUS
  <2>2. QED
    BY <2>1
<1>3. ASSUME NEW m \in 0 .. M, m < M, Good(m) PROVE Good(m + 1)
  <2>1. PICK g : Rec(g, m)
    BY <1>3
  <2> DEFINE h == [i \in 0 .. m + 1 |-> Deep(g, i)]
  <2>2. \A i \in 0 .. m : h[i] = g[i]
    <3>1. \A i \in 0 .. m : g[i] = Deep(g, i)
      <4> HIDE DEF Deep
      <4>1. QED
        BY <2>1
    <3> HIDE DEF Deep
    <3>2. QED
      BY <3>1
  <2>3. ASSUME NEW i \in 0 .. m + 1 PROVE Deep(g, i) = Deep(h, i)
    <3>1. CASE i = 0
      BY <3>1
    <3>2. CASE i # 0
      <4>1. i - 1 \in 0 .. m
        BY <1>3, <3>2
      <4> HIDE DEF h
      <4>2. h[i - 1] = g[i - 1]
        BY <2>2, <4>1
      <4>3. QED
        BY <3>2, <4>2
    <3>3. QED
      BY <3>1, <3>2
  <2>4. Rec(h, m + 1)
    <3> HIDE DEF Deep
    <3>1. QED
      BY <2>3
  <2>5. QED
    BY <2>4
<1>4. Good(M)
  <2> DEFINE T == {m \in 0 .. M : Good(m)}
  <2> HIDE DEF Good
  <2>1. 0 \in T /\ T \in SUBSET (0 .. M)
    BY <1>2
  <2>2. \A m \in 0 .. M : m \in T /\ m < M => m + 1 \in T
    BY <1>3
  <2>3. T = 0 .. M
    BY <2>1, <2>2, Upward
  <2>4. QED
    BY <2>3
<1>5. PICK f : f = A!Depths(s) /\ Rec(f, M)
  BY <1>1, <1>4, Zenon DEF A!Depths
<1>6. \A i \in 0 .. M : f[i] = Deep(f, i)
  <2> HIDE DEF Deep
  <2>1. QED
    BY <1>5
<1>7. f[0] = s.lines /\ \A i \in 1 .. M : f[i] = A!Unfold(s, f[i - 1])
  BY <1>6
<1>8. QED
  BY <1>1, <1>5, <1>7

\* As deep as the lines unfold, the depths are what they unfold to.
LEMMA DepthIs ==
  ASSUME NEW s \in ProgramType, NEW d \in Nat, NEW u, Deepens(s, u, d)
  PROVE  \A e \in 0 .. d : e <= Len(s.macros) => A!Depths(s)[e] = u[e]
<1>1. PICK M \in Nat : M = Len(s.macros)
  BY DEF ProgramType
<1>2. PICK f : f = A!Depths(s)
  OBVIOUS
<1>3. f[0] = s.lines /\ \A e \in 1 .. M : f[e] = A!Unfold(s, f[e - 1])
  BY <1>1, <1>2, DepthsUnfold
<1>4. u[0] = s.lines /\ \A e \in 1 .. d : u[e] = A!Unfold(s, u[e - 1])
  BY DEF Deepens
<1> DEFINE T == {e \in 0 .. d : e <= M => f[e] = u[e]}
<1>5. 0 \in T /\ T \in SUBSET (0 .. d)
  BY <1>3, <1>4
<1>6. ASSUME NEW e \in 0 .. d, e \in T, e < d PROVE e + 1 \in T
  <2>1. CASE e + 1 <= M
    <3>1. e + 1 \in 1 .. M /\ e + 1 \in 1 .. d /\ (e + 1) - 1 = e /\ f[e] = u[e]
      BY <1>6, <2>1
    <3>2. f[e + 1] = u[e + 1]
      BY <1>3, <1>4, <3>1
    <3>3. QED
      BY <3>1, <3>2
  <2>2. CASE ~ (e + 1 <= M)
    BY <1>6, <2>2
  <2>3. QED
    BY <2>1, <2>2
<1>7. T = 0 .. d
  <2> HIDE DEF T
  <2>1. QED
    BY <1>5, <1>6, Upward
<1>8. QED
  BY <1>1, <1>2, <1>7

\* When a depth is quiet, the deeper ones are the same.
LEMMA DepthsStay ==
  ASSUME NEW s \in ProgramType, NEW d \in Nat, NEW u, Deepens(s, u, d), Quiet(s, u[d])
  PROVE  \A e \in 0 .. Len(s.macros) : d <= e => A!Depths(s)[e] = u[d]
<1>1. PICK M \in Nat : M = Len(s.macros)
  BY DEF ProgramType
<1>2. PICK f : f = A!Depths(s)
  OBVIOUS
<1>3. \A e \in 1 .. M : f[e] = A!Unfold(s, f[e - 1])
  BY <1>1, <1>2, DepthsUnfold
<1>4. A!Unfold(s, u[d]) = u[d]
  <2>1. u[d] \in Seq(LineType)
    BY DEF Deepens
  <2>2. QED
    BY <2>1, QuietUnfolds
<1>5. d <= M => f[d] = u[d]
  BY <1>1, <1>2, DepthIs
<1> DEFINE T == {e \in 0 .. M : d <= e => f[e] = u[d]}
<1>6. 0 \in T /\ T \in SUBSET (0 .. M)
  BY <1>5
<1>7. ASSUME NEW e \in 0 .. M, e \in T, e < M PROVE e + 1 \in T
  <2>1. e + 1 \in 1 .. M /\ (e + 1) - 1 = e
    BY <1>7
  <2>2. f[e + 1] = A!Unfold(s, f[e])
    BY <1>3, <2>1
  <2>3. CASE d <= e
    <3>1. f[e + 1] = u[d]
      BY <1>4, <1>7, <2>2, <2>3
    <3>2. QED
      BY <2>1, <3>1
  <2>4. CASE d = e + 1
    BY <1>5, <2>1, <2>4
  <2>5. CASE e + 1 < d
    BY <2>1, <2>5
  <2>6. QED
    BY <2>3, <2>4, <2>5
<1>8. T = 0 .. M
  <2> HIDE DEF T
  <2>1. QED
    BY <1>6, <1>7, Upward
<1>9. QED
  BY <1>1, <1>2, <1>8

\* A program whose passes come to an end has an expansion.
LEMMA EndsExpanded ==
  ASSUME NEW s \in ProgramType, NEW d \in Nat, NEW u, Deepens(s, u, d), Quiet(s, u[d])
  PROVE  A!Expands(s)
<1>1. PICK M \in Nat : M = Len(s.macros)
  BY DEF ProgramType
<1>2. SUFFICES ASSUME NEW e \in 0 .. M, NEW line \in Range(A!Depths(s)[e]), A!Invokes(s, line)
               PROVE  e < M /\ A!Fits(A!Definition(s, line.name), line)
  BY <1>1, SameRange, Zenon DEF A!Expands
<1>3. ASSUME d <= e PROVE FALSE
  <2>1. A!Depths(s)[e] = u[d]
    BY <1>1, <1>3, DepthsStay
  <2>2. PICK i \in DOMAIN u[d] : line = u[d][i]
    BY <2>1 DEF Range
  <2>3. QED
    BY <1>2, <2>2 DEF Quiet
<1>4. e < d /\ A!Depths(s)[e] = u[e]
  BY <1>1, <1>3, DepthIs
<1>5. PICK i \in DOMAIN u[e] : line = u[e][i]
  BY <1>4 DEF Range
<1>6. Fitting(s, u[e])
  <2>1. e + 1 \in 1 .. d /\ (e + 1) - 1 = e
    BY <1>4
  <2>2. QED
    BY <2>1 DEF Deepens
<1>7. A!Fits(A!Definition(s, line.name), line)
  BY <1>2, <1>5, <1>6 DEF Fitting, Unfoldable, Suits
<1>8. ASSUME e = M PROVE FALSE
  <2>1. Quiet(s, u[M])
    BY <1>1, <1>4, <1>8, DeepEnough
  <2>2. QED
    BY <1>2, <1>5, <1>8, <2>1 DEF Quiet
<1>9. QED
  BY <1>7, <1>8

\* One that has an invocation at some depth that does not fit has none.
LEMMA BadExpansion ==
  ASSUME NEW s \in ProgramType, NEW d \in Nat, NEW u, Deepens(s, u, d),
         NEW i \in DOMAIN u[d], A!Invokes(s, u[d][i]), ~ Suits(s, u[d][i])
  PROVE  ~ A!Expands(s)
<1>1. PICK M \in Nat : M = Len(s.macros)
  BY DEF ProgramType
<1>2. SUFFICES ASSUME A!Expands(s) PROVE FALSE
  OBVIOUS
<1>3. \A e \in 0 .. M : \A line \in Range(A!Depths(s)[e]) :
        A!Invokes(s, line) => e < M /\ A!Fits(A!Definition(s, line.name), line)
  BY <1>1, <1>2, SameRange, Zenon DEF A!Expands
<1>4. u[d][i] \in Range(u[d])
  BY DEF Range
<1>5. CASE d <= M
  <2>1. d \in 0 .. M /\ A!Depths(s)[d] = u[d]
    BY <1>1, <1>5, DepthIs
  <2>2. QED
    BY <1>3, <1>4, <2>1 DEF Suits
<1>6. CASE M < d
  <2>1. M \in 0 .. d /\ d \in 0 .. d /\ M \in 0 .. M /\ ~ (M < M) /\ A!Depths(s)[M] = u[M]
    BY <1>1, <1>6, DepthIs
  <2>2. u[d][i].name \in Called(s, u[d])
    BY <1>4 DEF Called
  <2>3. PICK t : Trail(s, u, t, d)
    BY <2>1, <2>2, TrailTo
  <2>4. t[M] \in Called(s, u[M])
    BY <2>1, <2>3 DEF Trail
  <2>5. PICK line \in Range(u[M]) : A!Invokes(s, line)
    BY <2>4 DEF Called
  <2>6. QED
    BY <1>3, <2>1, <2>5
<1>7. QED
  BY <1>1, <1>5, <1>6

-----------------------------------------------------------------------------
(* The nodes of the program. *)

\* The tables and conversions of the instance are the ones of the module.
LEMMA SameTables ==
  /\ A!AddressOps = AddressOps /\ A!TransferOps = TransferOps
  /\ A!StackOps = StackOps /\ A!PlainOps = PlainOps /\ A!RegisterNumber = RegisterNumber
  /\ \A x : A!ToUWord(x) = ToUWord(x) /\ A!ToByte(x) = ToByte(x)
  /\ \A x : A!HighByte(x) = HighByte(x) /\ A!LowByte(x) = LowByte(x)
<1>1. /\ A!AddressOps = AddressOps /\ A!TransferOps = TransferOps
      /\ A!StackOps = StackOps /\ A!PlainOps = PlainOps
  BY DEF A!AddressOps, AddressOps, A!TransferOps, TransferOps, A!StackOps, StackOps, A!PlainOps, PlainOps
<1>2. A!RegisterNumber = RegisterNumber
  BY DEF A!RegisterNumber, RegisterNumber
<1>3. \A x : A!ToUWord(x) = ToUWord(x) /\ A!ToByte(x) = ToByte(x)
  BY DEF A!ToUWord, ToUWord, A!ToByte, ToByte
<1>4. \A x : A!HighByte(x) = HighByte(x) /\ A!LowByte(x) = LowByte(x)
  BY DEF A!HighByte, HighByte, A!LowByte, LowByte
<1>5. QED
  BY <1>1, <1>2, <1>3, <1>4

\* So are the translation of a line and the conditions for it.
LEMMA SameInstruction == \A line : A!translate_instruction(line) = translate_instruction(line)
<1> SUFFICES ASSUME NEW line PROVE A!translate_instruction(line) = translate_instruction(line)
  OBVIOUS
<1>1. \A i : A!RegisterOf(line, i) = RegisterOf(line, i)
  BY SameTables, Zenon DEF A!RegisterOf, RegisterOf
<1>2. \A n, s, d, o, l : A!Node(n, s, d, o, l) = Node(n, s, d, o, l)
  BY DEF A!Node, Node
<1>3. \A param : A!AddressNode(line, param) = AddressNode(line, param)
  BY <1>2, SameTables, Zenon DEF A!AddressNode, AddressNode
<1>4. DOMAIN A!AddressOps = DOMAIN AddressOps
  BY SameTables
<1>5. CASE line.name \in DOMAIN AddressOps
  BY <1>3, <1>4, <1>5, Zenon DEF A!translate_instruction, translate_instruction
<1>6. CASE line.name \notin DOMAIN AddressOps
  <2>1. A!Node(line.name, A!RegisterOf(line, 1), A!RegisterOf(line, 2), 0, "")
        = Node(line.name, RegisterOf(line, 1), RegisterOf(line, 2), 0, "")
    <3>1. A!RegisterOf(line, 1) = RegisterOf(line, 1) /\ A!RegisterOf(line, 2) = RegisterOf(line, 2)
      BY <1>1
    <3>2. QED
      BY <3>1 DEF A!Node, Node
  <2>2. QED
    BY <1>4, <1>6, <2>1, Zenon DEF A!translate_instruction, translate_instruction
<1>7. QED
  BY <1>5, <1>6

\* So do the two tables of the other lines.
LEMMA SameLine == \A line : A!translate_line(line) = translate_line(line)
<1> SUFFICES ASSUME NEW line PROVE A!translate_line(line) = translate_line(line)
  OBVIOUS
<1>1. A!translate_label_node(line) = translate_label_node(line)
  BY DEF A!translate_label_node, translate_label_node
<1>2. A!translate_directive_node(line) = translate_directive_node(line)
  <2>1. \A param : A!Args(param) = Args(param)
    BY DEF A!Args, Args
  <2>2. [i \in DOMAIN line.params |-> A!Args(line.params[i])] = [i \in DOMAIN line.params |-> Args(line.params[i])]
    BY <2>1
  <2>3. QED
    BY <2>2, SameFlatten, Zenon DEF A!translate_directive_node, translate_directive_node
<1>3. A!translate_instruction(line) = translate_instruction(line)
  BY SameInstruction
<1>4. QED
  BY <1>1, <1>2, <1>3, Zenon DEF A!translate_line, translate_line

\* And they can translate the same lines.
LEMMA SameTranslatable == \A line, labels : A!Translatable(line, labels) <=> Translatable(line, labels)
<1> SUFFICES ASSUME NEW line, NEW labels PROVE A!Translatable(line, labels) <=> Translatable(line, labels)
  OBVIOUS
<1>1. A!HasAddress(line, labels) <=> HasAddress(line, labels)
  BY DEF A!HasAddress, HasAddress
<1>2. \A n : A!HasRegisters(line, n) <=> HasRegisters(line, n)
  BY SameTables, Zenon DEF A!HasRegisters, HasRegisters, A!IsRegister, IsRegister
<1>3. QED
  BY <1>1, <1>2, SameTables, Zenon DEF A!Translatable, Translatable

\* The lines that transform() is given can all be translated, or it throws.
LEMMA SameTranslates == A!Translates(lines) <=> \A i \in DOMAIN lines : Translatable(lines[i], label_scan)
<1>1. {l.name : l \in {m \in A!Range(lines) : m.kind = "label"}} = label_scan
  BY SameRange DEF label_scan, Range
<1>2. \A line : line \in A!Range(lines) <=> \E i \in DOMAIN lines : line = lines[i]
  BY SameRange DEF Range
<1>3. QED
  BY <1>1, <1>2, SameTranslatable, Zenon DEF A!Translates

-----------------------------------------------------------------------------
(* What the nodes in front of one say. *)

\* One of the nodes before node k names the section or the symbol.
Says(t, name, directives, k) == \E i \in 1 .. k - 1 : Tells(t[i], name, directives)

\* The next node adds what it says itself.
LEMMA SaysNext ==
  ASSUME NEW t, NEW k \in Nat, k >= 1, NEW m, m = k + 1, NEW name, NEW directives
  PROVE  Says(t, name, directives, m) <=> Says(t, name, directives, k) \/ Tells(t[k], name, directives)
<1>1. \A i : i \in 1 .. m - 1 <=> i \in 1 .. k - 1 \/ i = k
  OBVIOUS
<1>2. QED
  BY <1>1, Zenon DEF Says

\* The nodes that name it.
LEMMA NamingIs ==
  ASSUME NEW t \in Seq(NodeType), NEW name, NEW directives
  PROVE  /\ A!Naming(t, name, directives) \in SUBSET (1 .. Len(t))
         /\ \A i : i \in A!Naming(t, name, directives) <=> i \in 1 .. Len(t) /\ Tells(t[i], name, directives)
<1>1. DOMAIN t = 1 .. Len(t)
  OBVIOUS
<1>2. QED
  BY <1>1 DEF A!Naming, A!IsDirective, Tells

\* The ones before a node.
LEMMA BeforeIs ==
  ASSUME NEW t \in Seq(NodeType), NEW name, NEW directives, NEW k \in 1 .. Len(t) + 1
  PROVE  /\ A!Before(k, A!Naming(t, name, directives)) \in SUBSET (1 .. Len(t))
         /\ \A i : i \in A!Before(k, A!Naming(t, name, directives)) <=> i \in 1 .. k - 1 /\ Tells(t[i], name, directives)
         /\ A!Before(k, A!Naming(t, name, directives)) # {} <=> Says(t, name, directives, k)
<1>1. PICK S : S = A!Naming(t, name, directives)
  OBVIOUS
<1>2. S \in SUBSET (1 .. Len(t)) /\ \A i : i \in S <=> i \in 1 .. Len(t) /\ Tells(t[i], name, directives)
  BY <1>1, NamingIs
<1>3. \A i : i \in A!Before(k, S) <=> i \in S /\ i < k
  BY DEF A!Before
<1>4. \A i : i \in 1 .. Len(t) /\ i < k <=> i \in 1 .. k - 1
  OBVIOUS
<1>5. \A i : i \in A!Before(k, S) <=> i \in 1 .. k - 1 /\ Tells(t[i], name, directives)
  BY <1>2, <1>3, <1>4, Zenon
<1>6. A!Before(k, S) # {} <=> Says(t, name, directives, k)
  BY <1>5, Zenon DEF Says
<1>7. QED
  BY <1>1, <1>2, <1>3, <1>5, <1>6

\* The largest and the least of some positions.
LEMMA MaxIs ==
  ASSUME NEW S \in SUBSET Int, NEW x \in S, \A y \in S : y <= x
  PROVE  A!Max(S) = x
<1>1. \A z \in S : (\A y \in S : z >= y) <=> z = x
  OBVIOUS
<1>2. QED
  BY <1>1 DEF A!Max

\* As for the largest.
LEMMA MinIs ==
  ASSUME NEW S \in SUBSET Int, NEW x \in S, \A y \in S : x <= y
  PROVE  A!Min(S) = x
<1>1. \A z \in S : (\A y \in S : z <= y) <=> z = x
  OBVIOUS
<1>2. QED
  BY <1>1 DEF A!Min

\* A node that names it, and none before it does.
FirstSays(t, name, directives, k) == Tells(t[k], name, directives) /\ ~ Says(t, name, directives, k)

\* It is the first in the order of the nodes.
LEMMA FirstIs ==
  ASSUME NEW t \in Seq(NodeType), NEW name, NEW directives, NEW k \in 1 .. Len(t), FirstSays(t, name, directives, k)
  PROVE  A!Min(A!Naming(t, name, directives)) = k
<1>1. PICK S : S = A!Naming(t, name, directives)
  OBVIOUS
<1>2. S \in SUBSET (1 .. Len(t)) /\ \A i : i \in S <=> i \in 1 .. Len(t) /\ Tells(t[i], name, directives)
  BY <1>1, NamingIs
<1>3. k \in S
  BY <1>2 DEF FirstSays
<1>4. ASSUME NEW i \in S PROVE k <= i
  <2>1. i \in 1 .. Len(t) /\ ~ (i \in 1 .. k - 1)
    BY <1>2, <1>4 DEF FirstSays, Says
  <2>2. QED
    BY <2>1
<1>5. QED
  BY <1>1, <1>2, <1>3, <1>4, MinIs

\* Whoever is named is named by a first node.
LEMMA SomeFirst ==
  ASSUME NEW t, NEW k \in Nat, NEW name, NEW directives, Says(t, name, directives, k)
  PROVE  \E i \in 1 .. k - 1 : FirstSays(t, name, directives, i)
<1> DEFINE S == {i \in 1 .. k - 1 : Tells(t[i], name, directives)}
<1>1. S \in SUBSET Nat /\ S # {}
  BY DEF Says
<1>2. PICK i \in S : \A j \in S : i <= j
  <2> HIDE DEF S
  <2>1. QED
    BY <1>1, Least
<1>3. i \in 1 .. k - 1 /\ Tells(t[i], name, directives)
  BY <1>2
<1>4. ASSUME NEW j \in 1 .. i - 1, Tells(t[j], name, directives) PROVE FALSE
  <2>1. j \in S /\ j < i
    BY <1>3, <1>4
  <2>2. QED
    BY <1>2, <1>3, <2>1
<1>5. QED
  BY <1>3, <1>4 DEF FirstSays, Says

\* The permissions of a section: the last .secinfo counts.
LEMMA FlagsNext ==
  ASSUME NEW t \in Seq(NodeType), NEW s, NEW k \in 1 .. Len(t), NEW m, m = k + 1
  PROVE  A!FlagsAt(t, s, m) = IF Tells(t[k], s, {"secinfo"})
                              THEN {t[k].args[i].name : i \in 2 .. Len(t[k].args)} \cap Flags
                              ELSE A!FlagsAt(t, s, k)
<1>0. A!Flags = Flags
  BY DEF A!Flags, Flags
<1> DEFINE P(j) == A!Before(j, A!Naming(t, s, {"secinfo"}))
<1>1. k \in 1 .. Len(t) + 1 /\ m \in 1 .. Len(t) + 1 /\ k \in 1 .. m - 1
  OBVIOUS
<1>2. P(m) \in SUBSET (1 .. Len(t)) /\ \A i : i \in P(m) <=> i \in 1 .. m - 1 /\ Tells(t[i], s, {"secinfo"})
  BY <1>1, BeforeIs
<1>3. \A i : i \in P(k) <=> i \in 1 .. k - 1 /\ Tells(t[i], s, {"secinfo"})
  BY <1>1, BeforeIs
<1>4. \A j : A!FlagsAt(t, s, j) = IF P(j) = {} THEN Flags
                                  ELSE {t[A!Max(P(j))].args[i].name : i \in 2 .. Len(t[A!Max(P(j))].args)} \cap Flags
  BY <1>0, Zenon DEF A!FlagsAt
<1> HIDE DEF P
<1>5. CASE Tells(t[k], s, {"secinfo"})
  <2>1. k \in P(m) /\ \A i \in P(m) : i <= k
    BY <1>1, <1>2, <1>5
  <2>2. A!Max(P(m)) = k /\ P(m) # {}
    BY <1>2, <2>1, MaxIs
  <2>3. QED
    BY <1>4, <1>5, <2>2
<1>6. CASE ~ Tells(t[k], s, {"secinfo"})
  <2>1. \A i : i \in 1 .. m - 1 <=> i \in 1 .. k - 1 \/ i = k
    OBVIOUS
  <2>2. P(m) = P(k)
    BY <1>2, <1>3, <1>6, <2>1
  <2>3. QED
    BY <1>4, <1>6, <2>2
<1>7. QED
  BY <1>5, <1>6

\* Before the first secinfo that names it a section has the default flags.
LEMMA FlagsNone ==
  ASSUME NEW t \in Seq(NodeType), NEW s, NEW k \in 1 .. Len(t) + 1, ~ Says(t, s, {"secinfo"}, k)
  PROVE  A!FlagsAt(t, s, k) = Flags
<1>1. A!Before(k, A!Naming(t, s, {"secinfo"})) = {}
  BY BeforeIs
<1>2. A!Flags = Flags
  BY DEF A!Flags, Flags
<1>3. QED
  BY <1>1, <1>2 DEF A!FlagsAt

-----------------------------------------------------------------------------
(* The addresses. *)

\* The arguments that number_labels() takes numbers from are there.
SkipNumbered(t, m) == \A i \in 1 .. m - 1 : IsSkip(t[i]) => t[i].args # <<>>

\* What is skipped is a number, and what a node counts for is its size or that.
LEMMA AmountType ==
  ASSUME NEW n \in NodeType, IsSkip(n) => n.args # <<>>
  PROVE  /\ A!Size(n) \in Nat /\ A!Skipped(n) \in Int /\ Amount(n) \in Int
         /\ Amount(n) = A!Size(n) + A!Skipped(n)
<1>1. A!Size(n) \in Nat /\ A!Size(n) = IF IsSkip(n) THEN 0 ELSE Amount(n)
  BY SizeType
<1>2. A!Skipped(n) = IF IsSkip(n) THEN n.args[1].number ELSE 0
  BY DEF A!Skipped, A!IsDirective, IsSkip
<1>3. CASE IsSkip(n)
  <2>1. n.args # <<>> /\ n.kind = "directive"
    BY <1>3 DEF IsSkip
  <2>2. n.args[1].number \in Int
    BY <2>1, NodeFields
  <2>3. Amount(n) = n.args[1].number
    BY <1>3 DEF Amount, IsSkip
  <2>4. QED
    BY <1>1, <1>2, <1>3, <2>2, <2>3
<1>4. CASE ~ IsSkip(n)
  BY <1>1, <1>2, <1>4
<1>5. QED
  BY <1>3, <1>4

\* g[i] is what the first i nodes count for in the section.
Counts(g, t, section, n) ==
  /\ g[0] = 0
  /\ \A i \in 1 .. n : g[i] = g[i - 1] + IF A!SectionAt(t, i) = section THEN Amount(t[i]) ELSE 0

\* It is a number.
LEMMA CountsType ==
  ASSUME NEW t \in Seq(NodeType), NEW n \in 0 .. Len(t), SkipNumbered(t, n + 1), NEW s, NEW g, Counts(g, t, s, n)
  PROVE  \A m \in 0 .. n : g[m] \in Int
<1>1. \A i \in 1 .. n : Amount(t[i]) \in Int
  <2>1. \A i \in 1 .. n : t[i] \in NodeType /\ (IsSkip(t[i]) => t[i].args # <<>>)
    BY DEF SkipNumbered
  <2>2. QED
    BY <2>1, AmountType
<1> DEFINE T == {m \in 0 .. n : g[m] \in Int}
<1>2. 0 \in T /\ T \in SUBSET (0 .. n)
  BY DEF Counts
<1>3. ASSUME NEW m \in 0 .. n, m \in T, m < n PROVE m + 1 \in T
  <2>1. m + 1 \in 1 .. n /\ (m + 1) - 1 = m
    BY <1>3
  <2>2. g[m + 1] = g[m] + IF A!SectionAt(t, m + 1) = s THEN Amount(t[m + 1]) ELSE 0
    BY <2>1 DEF Counts
  <2>3. g[m] \in Int /\ Amount(t[m + 1]) \in Int
    BY <1>1, <1>3, <2>1
  <2>4. g[m + 1] \in Int
    BY <2>2, <2>3
  <2>5. QED
    BY <2>1, <2>4
<1>4. T = 0 .. n
  <2> HIDE DEF T
  <2>1. QED
    BY <1>2, <1>3, Upward
<1>5. QED
  BY <1>4

\* A section that no node is in counts for nothing.
LEMMA CountsNothing ==
  ASSUME NEW t, NEW n \in Nat, NEW s, NEW g, Counts(g, t, s, n), \A i \in 1 .. n : A!SectionAt(t, i) # s
  PROVE  g[n] = 0
<1> DEFINE T == {m \in 0 .. n : g[m] = 0}
<1>1. 0 \in T /\ T \in SUBSET (0 .. n)
  BY DEF Counts
<1>2. ASSUME NEW m \in 0 .. n, m \in T, m < n PROVE m + 1 \in T
  <2>1. m + 1 \in 1 .. n /\ (m + 1) - 1 = m
    BY <1>2
  <2>2. g[m + 1] = g[m] + 0
    BY <2>1 DEF Counts
  <2>3. QED
    BY <1>2, <2>1, <2>2
<1>3. T = 0 .. n
  <2> HIDE DEF T
  <2>1. QED
    BY <1>1, <1>2, Upward
<1>4. QED
  BY <1>3

\* g[i] is what the first i nodes skip in the section.
Skips(g, t, section, n) ==
  /\ g[0] = 0
  /\ \A i \in 1 .. n : g[i] = g[i - 1] + IF A!SectionAt(t, i) = section THEN A!Skipped(t[i]) ELSE 0

\* The recursion that sums what is skipped has a result: these totals.
LEMMA SkipTotals ==
  ASSUME NEW t \in Seq(NodeType), NEW k \in 1 .. Len(t) + 1, SkipNumbered(t, k)
  PROVE  \E g : /\ Skips(g, t, A!SectionAt(t, k), k - 1)
                /\ A!Sum(t, k, A!Skipped) = g[k - 1] /\ \A m \in 0 .. k - 1 : g[m] \in Int
<1>1. PICK n \in Nat : n = k - 1 /\ n <= Len(t)
  OBVIOUS
<1> DEFINE More(i) == IF A!SectionAt(t, i) = A!SectionAt(t, k) THEN A!Skipped(t[i]) ELSE 0
<1>2. \A i \in 1 .. n : More(i) \in Int
  <2>1. \A i \in 1 .. n : t[i] \in NodeType /\ (IsSkip(t[i]) => t[i].args # <<>>)
    BY <1>1 DEF SkipNumbered
  <2>2. QED
    BY <2>1, AmountType
<1> DEFINE Grow(g, i) == IF i = 0 THEN 0 ELSE g[i - 1] + More(i)
           Rec(g, m) == g = [i \in 0 .. m |-> Grow(g, i)]
<1>4. A!Sum(t, k, A!Skipped) = (CHOOSE g : Rec(g, n))[n]
  BY <1>1, Zenon DEF A!Sum
<1> HIDE DEF More
<1> DEFINE Good(m) == \E g \in [0 .. m -> Int] : Rec(g, m)
<1>5. Good(0)
  <2> DEFINE g == [i \in 0 .. 0 |-> 0]
  <2>1. g \in [0 .. 0 -> Int]
    OBVIOUS
  <2>2. Rec(g, 0)
    OBVIOUS
  <2>3. QED
    BY <2>1, <2>2
<1>6. ASSUME NEW m \in 0 .. n, m < n, Good(m) PROVE Good(m + 1)
  <2>1. PICK g \in [0 .. m -> Int] : Rec(g, m)
    BY <1>6
  <2> DEFINE h == [i \in 0 .. m + 1 |-> Grow(g, i)]
  <2>2. \A i \in 0 .. m : h[i] = g[i]
    <3>1. \A i \in 0 .. m : g[i] = Grow(g, i)
      <4> HIDE DEF Grow
      <4>1. QED
        BY <2>1
    <3> HIDE DEF Grow
    <3>2. QED
      BY <3>1
  <2>3. ASSUME NEW i \in 0 .. m + 1 PROVE h[i] = Grow(h, i) /\ h[i] \in Int
    <3>1. CASE i = 0
      BY <3>1
    <3>2. CASE i # 0
      <4>1. i - 1 \in 0 .. m /\ i \in 1 .. n
        BY <1>6, <3>2
      <4>2. h[i] = g[i - 1] + More(i)
        BY <3>2
      <4> HIDE DEF h
      <4>3. h[i - 1] = g[i - 1] /\ g[i - 1] \in Int
        BY <2>2, <4>1
      <4>4. More(i) \in Int
        BY <1>2, <4>1
      <4>5. QED
        BY <3>2, <4>2, <4>3, <4>4
    <3>3. QED
      BY <3>1, <3>2
  <2>4. h \in [0 .. m + 1 -> Int] /\ Rec(h, m + 1)
    BY <2>3
  <2>5. QED
    BY <2>4
<1>7. Good(n)
  <2> DEFINE T == {m \in 0 .. n : Good(m)}
  <2> HIDE DEF Good
  <2>1. 0 \in T /\ T \in SUBSET (0 .. n)
    BY <1>5
  <2>2. \A m \in 0 .. n : m \in T /\ m < n => m + 1 \in T
    BY <1>6
  <2>3. T = 0 .. n
    BY <2>1, <2>2, Upward
  <2>4. QED
    BY <2>3
<1>8. PICK f : Rec(f, n) /\ f = CHOOSE g : Rec(g, n)
  BY <1>7, Zenon
<1>9. \A i \in 0 .. n : f[i] = Grow(f, i)
  <2> HIDE DEF Grow
  <2>1. QED
    BY <1>8
<1>10. f[0] = 0 /\ \A i \in 1 .. n : f[i] = f[i - 1] + More(i)
  <2>1. 0 \in 0 .. n /\ \A i \in 1 .. n : i \in 0 .. n /\ i # 0
    OBVIOUS
  <2>2. QED
    BY <1>9, <2>1
<1>11. A!Sum(t, k, A!Skipped) = f[n]
  <2> HIDE DEF Rec
  <2>1. QED
    BY <1>4, <1>8
<1> DEFINE T == {m \in 0 .. n : f[m] \in Int}
<1>12. T = 0 .. n
  <2>1. 0 \in T /\ T \in SUBSET (0 .. n)
    BY <1>10
  <2>2. ASSUME NEW m \in 0 .. n, m \in T, m < n PROVE m + 1 \in T
    <3>1. m + 1 \in 1 .. n /\ (m + 1) - 1 = m
      BY <2>2
    <3>2. f[m + 1] = f[m] + More(m + 1) /\ More(m + 1) \in Int /\ f[m] \in Int
      BY <1>2, <1>10, <2>2, <3>1
    <3>3. QED
      BY <3>1, <3>2
  <2>3. QED
    <3> HIDE DEF T
    <3>1. QED
      BY <2>1, <2>2, Upward
<1>13. Skips(f, t, A!SectionAt(t, k), k - 1)
  BY <1>1, <1>10 DEF Skips, More
<1>14. \A m \in 0 .. k - 1 : f[m] \in Int
  BY <1>1, <1>12
<1>15. QED
  BY <1>1, <1>11, <1>13, <1>14

\* Where a label in front of node k is.
PlaceOf(t, k) == A!Start(t, A!SectionAt(t, k)) + A!OffsetAt(t, k) + A!Sum(t, k, A!Skipped)

\* What is in front of it in its section, and what is skipped there, is what is counted.
LEMMA PlaceCounts ==
  ASSUME NEW t \in Seq(NodeType), NEW k \in 1 .. Len(t) + 1, SkipNumbered(t, k)
  PROVE  \E g : /\ Counts(g, t, A!SectionAt(t, k), k - 1) /\ g[k - 1] \in Int
                /\ A!OffsetAt(t, k) \in Int /\ A!Sum(t, k, A!Skipped) \in Int
                /\ A!OffsetAt(t, k) + A!Sum(t, k, A!Skipped) = g[k - 1]
<1>1. PICK s : s = A!SectionAt(t, k)
  OBVIOUS
<1>2. PICK n \in Nat : n = k - 1 /\ n <= Len(t)
  OBVIOUS
<1>3. PICK a : Totals(a, t, s, n) /\ A!OffsetAt(t, k) = a[n]
  BY <1>1, <1>2, OffsetTotals
<1>4. PICK b : Skips(b, t, s, n) /\ A!Sum(t, k, A!Skipped) = b[n] /\ \A m \in 0 .. n : b[m] \in Int
  BY <1>1, <1>2, SkipTotals
<1>5. \A i \in 1 .. n : /\ A!Size(t[i]) \in Nat /\ A!Skipped(t[i]) \in Int /\ Amount(t[i]) \in Int
                        /\ Amount(t[i]) = A!Size(t[i]) + A!Skipped(t[i])
  <2>1. \A i \in 1 .. n : t[i] \in NodeType /\ (IsSkip(t[i]) => t[i].args # <<>>)
    BY <1>2 DEF SkipNumbered
  <2>2. QED
    BY <2>1, AmountType
<1>6. \A m \in 0 .. n : a[m] \in Int
  <2> DEFINE T == {m \in 0 .. n : a[m] \in Int}
  <2>1. 0 \in T /\ T \in SUBSET (0 .. n)
    BY <1>3 DEF Totals
  <2>2. ASSUME NEW m \in 0 .. n, m \in T, m < n PROVE m + 1 \in T
    <3>1. m + 1 \in 1 .. n /\ (m + 1) - 1 = m
      BY <2>2
    <3>2. a[m + 1] = a[m] + IF A!SectionAt(t, m + 1) = s THEN A!Size(t[m + 1]) ELSE 0
      BY <1>3, <3>1 DEF Totals
    <3>3. A!Size(t[m + 1]) \in Nat /\ a[m] \in Int
      BY <1>5, <2>2, <3>1
    <3>4. a[m + 1] \in Int
      BY <3>2, <3>3
    <3>5. QED
      BY <3>1, <3>4
  <2>3. T = 0 .. n
    <3> HIDE DEF T
    <3>1. QED
      BY <2>1, <2>2, Upward
  <2>4. QED
    BY <2>3
<1> DEFINE g == [m \in 0 .. n |-> a[m] + b[m]]
<1>7. g[0] = 0
  BY <1>3, <1>4 DEF Totals, Skips
<1>8. ASSUME NEW i \in 1 .. n
      PROVE  g[i] = g[i - 1] + IF A!SectionAt(t, i) = s THEN Amount(t[i]) ELSE 0
  <2>1. /\ a[i] = a[i - 1] + IF A!SectionAt(t, i) = s THEN A!Size(t[i]) ELSE 0
        /\ b[i] = b[i - 1] + IF A!SectionAt(t, i) = s THEN A!Skipped(t[i]) ELSE 0
    BY <1>3, <1>4 DEF Totals, Skips
  <2>2. g[i] = a[i] + b[i] /\ g[i - 1] = a[i - 1] + b[i - 1]
    OBVIOUS
  <2> HIDE DEF g
  <2>3. a[i - 1] \in Int /\ b[i - 1] \in Int
    BY <1>4, <1>6
  <2>4. CASE A!SectionAt(t, i) = s
    BY <1>5, <2>1, <2>2, <2>3, <2>4
  <2>5. CASE A!SectionAt(t, i) # s
    BY <2>1, <2>2, <2>3, <2>5
  <2>6. QED
    BY <2>4, <2>5
<1>9. Counts(g, t, s, n)
  <2> HIDE DEF g
  <2>1. QED
    BY <1>7, <1>8 DEF Counts
<1>10. g[n] = a[n] + b[n] /\ a[n] \in Int /\ b[n] \in Int
  BY <1>4, <1>6
<1>11. g[n] \in Int
  BY <1>10
<1> HIDE DEF g
<1>12. A!OffsetAt(t, k) \in Int /\ A!Sum(t, k, A!Skipped) \in Int /\ A!OffsetAt(t, k) + A!Sum(t, k, A!Skipped) = g[n]
  BY <1>3, <1>4, <1>10
<1>13. QED
  BY <1>1, <1>2, <1>9, <1>11, <1>12

-----------------------------------------------------------------------------
(* The first walk. *)

\* What number_labels() wants of node k.
NumberedAt(t, k) ==
  /\ IsSkip(t[k]) => A!HasNumberAt(t[k], 1)
  /\ IsSection(t[k]) =>
       /\ t[k].args # <<>>
       /\ \/ t[k].args[1].name = "flat" \/ A!HasNumberAt(t[k], 2)
          \/ Says(t, t[k].args[1].name, {"section"}, k)

\* number_labels() gets through a program when it gets over every node.
LEMMA NumberedIs ==
  ASSUME NEW t \in Seq(NodeType)
  PROVE  A!Numbered(t) <=> \A k \in 1 .. Len(t) : NumberedAt(t, k)
<1>1. DOMAIN t = 1 .. Len(t)
  OBVIOUS
<1>2. ASSUME NEW k \in 1 .. Len(t)
      PROVE  A!Before(k, A!Naming(t, t[k].args[1].name, {"section"})) # {} <=> Says(t, t[k].args[1].name, {"section"}, k)
  <2>1. k \in 1 .. Len(t) + 1
    OBVIOUS
  <2>2. QED
    BY <2>1, BeforeIs
<1>3. ASSUME NEW k \in 1 .. Len(t)
      PROVE  /\ A!IsDirective(t[k], {"skip"}) <=> IsSkip(t[k])
             /\ A!IsDirective(t[k], {"section"}) <=> IsSection(t[k])
  BY DEF A!IsDirective, IsSkip, IsSection
<1>4. QED
  BY <1>1, <1>2, <1>3, Zenon DEF A!Numbered, NumberedAt

\* The nodes of the tree are those of t, but for the operands of instructions
\* and for what labels are told of where they are.
Alike(t) ==
  /\ Len(tree) = Len(t)
  /\ \A k \in 1 .. Len(t) :
       /\ tree[k].kind = t[k].kind /\ tree[k].name = t[k].name
       /\ t[k].kind = "directive" => tree[k] = t[k]

Mirrors(t) == Alike(t) /\ \A k \in 1 .. Len(t) : t[k].kind = "instruction" => tree[k] = t[k]

\* A node counts for the same in both.
LEMMA AlikeNode ==
  ASSUME NEW t \in Seq(NodeType), Alike(t), NEW k \in 1 .. Len(t)
  PROVE  /\ IsSection(tree[k]) <=> IsSection(t[k])
         /\ IsSkip(tree[k]) <=> IsSkip(t[k])
         /\ Amount(tree[k]) = Amount(t[k])
         /\ IsSection(t[k]) \/ IsSkip(t[k]) => tree[k] = t[k]
         /\ t[k].kind \in {"label", "instruction", "directive"}
<1>1. /\ tree[k].kind = t[k].kind /\ tree[k].name = t[k].name
      /\ t[k].kind = "directive" => tree[k] = t[k]
  BY DEF Alike
<1>2. t[k].kind \in {"label", "instruction", "directive"}
  BY NodeFields
<1>3. Amount(tree[k]) = Amount(t[k])
  <2>1. CASE t[k].kind = "directive"
    BY <1>1, <2>1
  <2>2. CASE t[k].kind = "label"
    BY <1>1, <2>2 DEF Amount
  <2>3. CASE t[k].kind = "instruction"
    BY <1>1, <2>3, Zenon DEF Amount
  <2>4. QED
    BY <1>2, <2>1, <2>2, <2>3
<1>4. QED
  BY <1>1, <1>2, <1>3 DEF IsSection, IsSkip

\* Before node k, positions has each label as it was defined last.
PositionsKnown(t, k) ==
  /\ \A l \in DOMAIN positions : \E i \in 1 .. k - 1 : t[i].kind = "label" /\ t[i].name = l
  /\ \A i \in 1 .. k - 1 : LastDefined(t, i, k - 1) =>
       /\ t[i].name \in DOMAIN positions
       /\ positions[t[i].name] = [address |-> PlaceOf(t, i), section |-> A!SectionAt(t, i)]

\* What the first walk has done before node k.
NumberedTo(t, k) ==
  /\ current_section = A!SectionAt(t, k)
  /\ \A s : s \in DOMAIN sections <=> s = "flat" \/ Says(t, s, {"section"}, k)
  /\ \A i \in 1 .. k : A!SectionAt(t, i) \in DOMAIN sections
  /\ \A s \in DOMAIN sections : A!Start(t, s) \in Int
  /\ \A s, g : s \in DOMAIN sections /\ Counts(g, t, s, k - 1) => sections[s] = A!Start(t, s) + g[k - 1]
  /\ \A i \in 1 .. k - 1 : NumberedAt(t, i)
  /\ PositionsKnown(t, k)

\* The walk begins.
LEMMA FirstNumbered ==
  ASSUME sections' = [s \in {"flat"} |-> 0], current_section' = "flat", positions' = <<>>, NEW t
  PROVE  NumberedTo(t, 1)'
<1>1. A!SectionAt(t, 1) = "flat"
  BY SectionFirst
<1>2. \A s, D : ~ Says(t, s, D, 1)
  BY DEF Says
<1>3. A!Start(t, "flat") = 0
  BY DEF A!Start
<1>4. \A s, g : Counts(g, t, s, 1 - 1) => g[1 - 1] = 0
  BY DEF Counts
<1>5. PositionsKnown(t, 1)'
  BY DEF PositionsKnown
<1>6. DOMAIN sections' = {"flat"} /\ sections'["flat"] = 0
  OBVIOUS
<1>7. \A s, g : s \in DOMAIN sections' /\ Counts(g, t, s, 1 - 1) => sections'[s] = A!Start(t, s) + g[1 - 1]
  BY <1>3, <1>4, <1>6
<1>8. (\A i \in 1 .. 1 - 1 : NumberedAt(t, i)) /\ \A i \in 1 .. 1 : A!SectionAt(t, i) \in DOMAIN sections'
  BY <1>1, <1>6
<1>9. QED
  BY <1>1, <1>2, <1>3, <1>5, <1>6, <1>7, <1>8 DEF NumberedTo

\* Where the walk is in the section is where the next label in it is.
LEMMA PlaceHere ==
  ASSUME NEW t \in Seq(NodeType), NEW k \in 1 .. Len(t) + 1, NumberedTo(t, k), SkipNumbered(t, k)
  PROVE  position = PlaceOf(t, k)
<1>1. PICK s : s = A!SectionAt(t, k)
  OBVIOUS
<1>2. s = current_section /\ s \in DOMAIN sections /\ A!Start(t, s) \in Int
  <2>1. k \in 1 .. k
    OBVIOUS
  <2>2. QED
    BY <1>1, <2>1 DEF NumberedTo
<1>3. PICK g : /\ Counts(g, t, s, k - 1) /\ g[k - 1] \in Int
               /\ A!OffsetAt(t, k) \in Int /\ A!Sum(t, k, A!Skipped) \in Int
               /\ A!OffsetAt(t, k) + A!Sum(t, k, A!Skipped) = g[k - 1]
  BY <1>1, PlaceCounts
<1>4. sections[s] = A!Start(t, s) + g[k - 1]
  BY <1>2, <1>3 DEF NumberedTo
<1>5. A!Start(t, s) + A!OffsetAt(t, k) + A!Sum(t, k, A!Skipped) = A!Start(t, s) + g[k - 1]
  BY <1>2, <1>3
<1>6. QED
  BY <1>1, <1>2, <1>4, <1>5 DEF PlaceOf, position

\* Nodes that want numbers have them.
LEMMA NumberedSkips ==
  ASSUME NEW t \in Seq(NodeType), NEW k \in 1 .. Len(t) + 1, \A i \in 1 .. k - 1 : NumberedAt(t, i)
  PROVE  SkipNumbered(t, k)
<1> SUFFICES ASSUME NEW i \in 1 .. k - 1, IsSkip(t[i]) PROVE t[i].args # <<>>
  BY DEF SkipNumbered
<1>1. A!HasNumberAt(t[i], 1)
  BY DEF NumberedAt
<1>2. 1 <= Len(t[i].args)
  BY <1>1 DEF A!HasNumberAt
<1>3. t[i] \in NodeType /\ t[i].kind = "directive"
  BY DEF IsSkip
<1>4. QED
  BY <1>2, <1>3, NodeFields

\* A directive begins the section that it names.
LEMMA TellsSection ==
  ASSUME NEW n, NEW s
  PROVE  Tells(n, s, {"section"}) <=> IsSection(n) /\ n.args # <<>> /\ n.args[1].name = s
BY DEF Tells, IsSection

\* Where a section starts is said where it is named first.
LEMMA StartHere ==
  ASSUME NEW t \in Seq(NodeType), NEW k \in 1 .. Len(t), NEW s, s # "flat", FirstSays(t, s, {"section"}, k)
  PROVE  A!Start(t, s) = t[k].args[2].number
<1>1. A!Min(A!Naming(t, s, {"section"})) = k
  BY FirstIs
<1>2. QED
  BY <1>1 DEF A!Start

\* One more node has been numbered.
LEMMA NumberGoesOn ==
  ASSUME TypeInv, TypeInv', NEW t \in Seq(NodeType), NEW k \in 1 .. Len(t), NumberedTo(t, k), NumberedAt(t, k),
         NEW m, m = k + 1, Moves(t[k], sections, current_section, sections', current_section'),
         PositionsKnown(t, m)'
  PROVE  NumberedTo(t, m)'
<1>1. /\ current_section = A!SectionAt(t, k) /\ current_section \in DOMAIN sections
      /\ \A s : s \in DOMAIN sections <=> s = "flat" \/ Says(t, s, {"section"}, k)
      /\ \A s \in DOMAIN sections : A!Start(t, s) \in Int
      /\ sections \in [DOMAIN sections -> Int] /\ sections' \in [DOMAIN sections' -> Int]
  BY DEF NumberedTo, TypeInv, TreeInv
<1>2. A!SectionAt(t, m) = IF IsSection(t[k]) THEN t[k].args[1].name ELSE A!SectionAt(t, k)
  BY SectionNext
<1>3. current_section' = A!SectionAt(t, m)
  BY <1>1, <1>2 DEF Moves
<1>4. /\ DOMAIN sections' = DOMAIN sections \union {current_section'}
      /\ current_section' \notin DOMAIN sections =>
           /\ IsSection(t[k]) /\ current_section' = t[k].args[1].name
           /\ sections'[current_section'] = t[k].args[2].number
  BY <1>1 DEF Moves
<1>5. \A s : Says(t, s, {"section"}, m) <=> Says(t, s, {"section"}, k) \/ Tells(t[k], s, {"section"})
  BY SaysNext
<1>6. \A s : s \in DOMAIN sections' <=> s = "flat" \/ Says(t, s, {"section"}, m)
  <2>1. CASE IsSection(t[k])
    <3>1. t[k].args # <<>> /\ current_section' = t[k].args[1].name
      BY <1>2, <1>3, <2>1 DEF NumberedAt
    <3>2. \A s : Tells(t[k], s, {"section"}) <=> s = current_section'
      BY <2>1, <3>1, TellsSection
    <3>3. QED
      BY <1>1, <1>4, <1>5, <3>2
  <2>2. CASE ~ IsSection(t[k])
    <3>1. current_section' \in DOMAIN sections /\ \A s : ~ Tells(t[k], s, {"section"})
      BY <1>1, <1>2, <1>3, <2>2, TellsSection
    <3>2. DOMAIN sections' = DOMAIN sections
      BY <1>4, <3>1
    <3>3. QED
      BY <1>1, <1>5, <3>1, <3>2
  <2>3. QED
    BY <2>1, <2>2
<1>7. \A i \in 1 .. m : A!SectionAt(t, i) \in DOMAIN sections'
  <2>1. \A i \in 1 .. k : A!SectionAt(t, i) \in DOMAIN sections
    BY DEF NumberedTo
  <2>2. \A i \in 1 .. m : i \in 1 .. k \/ i = m
    OBVIOUS
  <2>3. QED
    BY <1>3, <1>4, <2>1, <2>2
<1>8. ASSUME NEW s \in DOMAIN sections', s \notin DOMAIN sections
      PROVE  A!Start(t, s) = sections'[s] /\ A!Start(t, s) \in Int
  <2>1. s = current_section' /\ s # "flat" /\ IsSection(t[k]) /\ s = t[k].args[1].name
    BY <1>1, <1>4, <1>8
  <2>2. t[k].args # <<>>
    BY <2>1 DEF NumberedAt
  <2>3. FirstSays(t, s, {"section"}, k)
    BY <1>1, <1>8, <2>1, <2>2, TellsSection DEF FirstSays
  <2>4. A!Start(t, s) = t[k].args[2].number
    BY <2>1, <2>3, StartHere
  <2>5. QED
    BY <1>1, <1>4, <1>8, <2>1, <2>4
<1>9. \A s \in DOMAIN sections' : A!Start(t, s) \in Int
  BY <1>1, <1>8
<1>10. \A i \in 1 .. m - 1 : NumberedAt(t, i)
  <2>1. \A i \in 1 .. m - 1 : i \in 1 .. k - 1 \/ i = k
    OBVIOUS
  <2>2. QED
    BY <2>1 DEF NumberedTo
<1>11. ASSUME NEW s \in DOMAIN sections', NEW g, Counts(g, t, s, m - 1)
       PROVE  sections'[s] = A!Start(t, s) + g[m - 1]
  <2>0. m - 1 = k /\ k \in Nat
    OBVIOUS
  <2>1. SkipNumbered(t, k + 1)
    <3>1. m \in 1 .. Len(t) + 1
      OBVIOUS
    <3>2. QED
      BY <1>10, <3>1, NumberedSkips
  <2>2. /\ g[k] \in Int /\ g[k - 1] \in Int
        /\ g[k] = g[k - 1] + IF A!SectionAt(t, k) = s THEN Amount(t[k]) ELSE 0
        /\ Counts(g, t, s, k - 1)
    <3>1. Counts(g, t, s, k)
      BY <1>11, <2>0
    <3>2. k \in 0 .. Len(t) /\ k \in 0 .. k /\ k - 1 \in 0 .. k /\ k \in 1 .. k
      OBVIOUS
    <3>3. g[k] \in Int /\ g[k - 1] \in Int
      BY <2>1, <3>1, <3>2, CountsType
    <3>4. \A i \in 1 .. k - 1 : i \in 1 .. k
      OBVIOUS
    <3>5. QED
      BY <3>1, <3>2, <3>3, <3>4 DEF Counts
  <2>3. CASE s \in DOMAIN sections
    <3>1. sections[s] = A!Start(t, s) + g[k - 1] /\ sections[s] \in Int /\ A!Start(t, s) \in Int
      BY <1>1, <2>2, <2>3 DEF NumberedTo
    <3>2. CASE IsSection(t[k])
      <4>1. sections'[s] = sections[s] /\ Amount(t[k]) = 0
        BY <2>3, <3>2, Zenon DEF Moves, Amount, IsSection
      <4>2. g[k] = g[k - 1]
        BY <2>2, <4>1
      <4>3. QED
        BY <2>0, <3>1, <4>1, <4>2
    <3>3. CASE ~ IsSection(t[k])
      <4>1. sections'[s] = sections[s] + (IF s = current_section THEN Amount(t[k]) ELSE 0)
        BY <2>3, <3>3 DEF Moves
      <4>2. Amount(t[k]) \in Int
        <5>1. t[k] \in NodeType /\ (IsSkip(t[k]) => t[k].args # <<>>)
          BY <2>0, <2>1 DEF SkipNumbered
        <5>2. QED
          BY <5>1, AmountType
      <4>3. QED
        BY <1>1, <2>0, <2>2, <3>1, <4>1, <4>2
    <3>4. QED
      BY <3>2, <3>3
  <2>4. CASE s \notin DOMAIN sections
    <3>1. \A i \in 1 .. k : A!SectionAt(t, i) # s
      BY <2>4 DEF NumberedTo
    <3>2. g[m - 1] = 0
      BY <1>11, <2>0, <3>1, CountsNothing
    <3>3. QED
      BY <1>8, <2>4, <3>2
  <2>5. QED
    BY <2>3, <2>4
<1>12. QED
  BY <1>3, <1>6, <1>7, <1>9, <1>10, <1>11 DEF NumberedTo

\* What a node does to the positions of the labels.
Records(t, k) ==
  IF t[k].kind = "label"
  THEN positions' = Assign(positions, t[k].name, [address |-> PlaceOf(t, k), section |-> A!SectionAt(t, k)])
  ELSE positions' = positions

\* The positions stay right from one node to the next.
LEMMA PositionsNext ==
  ASSUME NEW t, NEW k \in Nat, k >= 1, PositionsKnown(t, k), Records(t, k), NEW m, m = k + 1
  PROVE  PositionsKnown(t, m)'
<1>1. \A i : i \in 1 .. m - 1 <=> i \in 1 .. k - 1 \/ i = k
  OBVIOUS
<1>2. PICK known : known = [address |-> PlaceOf(t, k), section |-> A!SectionAt(t, k)]
  OBVIOUS
<1>3. t[k].kind = "label" =>
        /\ t[k].name \in DOMAIN positions' /\ positions'[t[k].name] = known
        /\ DOMAIN positions' = DOMAIN positions \union {t[k].name}
        /\ \A l \in DOMAIN positions : l # t[k].name => positions'[l] = positions[l]
  BY <1>2 DEF Records, Assign
<1>4. ASSUME NEW l \in DOMAIN positions' PROVE \E i \in 1 .. m - 1 : t[i].kind = "label" /\ t[i].name = l
  <2>1. l \in DOMAIN positions \/ (t[k].kind = "label" /\ l = t[k].name)
    <3>1. CASE t[k].kind = "label"
      BY <1>3, <1>4, <3>1
    <3>2. CASE t[k].kind # "label"
      BY <1>4, <3>2, Zenon DEF Records
    <3>3. QED
      BY <3>1, <3>2
  <2>2. CASE l \in DOMAIN positions
    <3>1. PICK i \in 1 .. k - 1 : t[i].kind = "label" /\ t[i].name = l
      BY <2>2 DEF PositionsKnown
    <3>2. QED
      BY <1>1, <3>1
  <2>3. CASE t[k].kind = "label" /\ l = t[k].name
    BY <1>1, <2>3
  <2>4. QED
    BY <2>1, <2>2, <2>3
<1>5. ASSUME NEW i \in 1 .. m - 1, LastDefined(t, i, m - 1)
      PROVE  /\ t[i].name \in DOMAIN positions'
             /\ positions'[t[i].name] = [address |-> PlaceOf(t, i), section |-> A!SectionAt(t, i)]
  <2>1. CASE i = k
    BY <1>2, <1>3, <1>5, <2>1 DEF LastDefined
  <2>2. CASE i # k
    <3>1. i \in 1 .. k - 1 /\ k \in i + 1 .. m - 1 /\ \A j \in i + 1 .. k - 1 : j \in i + 1 .. m - 1
      BY <1>1, <2>2
    <3>2. LastDefined(t, i, k - 1) /\ (t[k].kind = "label" => t[i].name # t[k].name)
      BY <1>5, <3>1 DEF LastDefined
    <3>3. /\ t[i].name \in DOMAIN positions
          /\ positions[t[i].name] = [address |-> PlaceOf(t, i), section |-> A!SectionAt(t, i)]
      BY <3>1, <3>2 DEF PositionsKnown
    <3>4. QED
      BY <1>3, <3>2, <3>3 DEF Records
  <2>3. QED
    BY <2>1, <2>2
<1>6. QED
  BY <1>4, <1>5 DEF PositionsKnown

\* A step of the walk at node k that does what the node says.
LEMMA NumberAnother ==
  ASSUME TypeInv, TypeInv', NEW t \in Seq(NodeType), NEW k \in 1 .. Len(t), k = node, node' = node + 1,
         NumberedTo(t, k), NumberedAt(t, k), Records(t, k),
         Moves(t[k], sections, current_section, sections', current_section')
  PROVE  NumberedTo(t, node)'
<1>1. PICK m : m = k + 1
  OBVIOUS
<1>2. node' = m /\ k \in Nat /\ k >= 1
  BY <1>1
<1>3. PositionsKnown(t, k)
  BY DEF NumberedTo
<1>4. PositionsKnown(t, m)'
  BY <1>1, <1>2, <1>3, PositionsNext
<1>5. NumberedTo(t, m)'
  BY <1>1, <1>4, NumberGoesOn
<1>6. QED
  BY <1>2, <1>5

\* The walk is at a node of t.
LEMMA MirrorHere ==
  ASSUME TypeInv, NEW t \in Seq(NodeType), Mirrors(t), AtNode
  PROVE  /\ node \in 1 .. Len(t) /\ Here = tree[node] /\ Here \in NodeType
         /\ Here.kind = t[node].kind /\ Here.name = t[node].name
         /\ Here.kind # "label" => Here = t[node]
         /\ tree \in Seq(NodeType) /\ Len(tree) = Len(t)
<1>1. node \in 1 .. Len(t) /\ tree \in Seq(NodeType) /\ Len(tree) = Len(t)
  BY DEF Mirrors, Alike, AtNode, TypeInv, TreeInv
<1>2. PICK k : k = node
  OBVIOUS
<1>3. k \in 1 .. Len(t) /\ Here = tree[k] /\ Here \in NodeType
  BY <1>1, <1>2 DEF Here
<1>4. tree[k].kind = t[k].kind /\ tree[k].name = t[k].name /\ (t[k].kind \in {"directive", "instruction"} => tree[k] = t[k])
  BY <1>3 DEF Mirrors, Alike
<1>5. Here.kind \in {"label", "instruction", "directive"}
  BY <1>3, NodeFields
<1>6. QED
  BY <1>1, <1>2, <1>3, <1>4, <1>5

\* number_labels() at a label.
LEMMA LabelNumbered ==
  ASSUME TypeInv, TypeInv', NEW t \in Seq(NodeType), Mirrors(t), NumberedTo(t, node), NumberLabel
  PROVE  Mirrors(t)' /\ NumberedTo(t, node)'
<1>1. /\ node \in 1 .. Len(t) /\ Here = tree[node] /\ Here \in NodeType /\ Here.kind = "label" /\ AtNode
      /\ Here.kind = t[node].kind /\ Here.name = t[node].name
      /\ tree \in Seq(NodeType) /\ Len(tree) = Len(t)
  BY MirrorHere DEF NumberLabel, Numbering
<1>2. PICK k \in 1 .. Len(t) : k = node
  BY <1>1
<1>3. t[k] \in NodeType /\ t[k].kind = "label" /\ NumberedTo(t, k)
  BY <1>1, <1>2
<1>4. PICK placed : placed = [Here EXCEPT !.position = position, !.section = current_section]
  OBVIOUS
<1>5. placed.kind = "label" /\ placed.name = Here.name
  <2>1. Here \in LabelType
    BY <1>1, NodeFields
  <2>2. QED
    BY <1>1, <1>4, <2>1 DEF LabelType
<1>6. /\ tree' = [tree EXCEPT ![k] = placed] /\ node' = node + 1 /\ UNCHANGED <<sections, current_section>>
      /\ positions' = Assign(positions, Here.name, [address |-> position, section |-> current_section])
  BY <1>2, <1>4 DEF NumberLabel, Here
<1>7. Mirrors(t)'
  <2>1. PICK u : u = tree'
    OBVIOUS
  <2>2. Len(u) = Len(t) /\ u[k] = placed /\ \A i \in 1 .. Len(t) : i # k => u[i] = tree[i]
    BY <1>1, <1>6, <2>1
  <2>3. \A i \in 1 .. Len(t) :
          /\ tree[i].kind = t[i].kind /\ tree[i].name = t[i].name
          /\ t[i].kind = "directive" => tree[i] = t[i]
          /\ t[i].kind = "instruction" => tree[i] = t[i]
    BY DEF Mirrors, Alike
  <2>4. \A i \in 1 .. Len(t) :
          /\ u[i].kind = t[i].kind /\ u[i].name = t[i].name
          /\ t[i].kind = "directive" => u[i] = t[i]
          /\ t[i].kind = "instruction" => u[i] = t[i]
    BY <1>1, <1>2, <1>3, <1>5, <2>2, <2>3
  <2>5. QED
    BY <2>1, <2>2, <2>4 DEF Mirrors, Alike
<1>8. SkipNumbered(t, k)
  <2>1. k \in 1 .. Len(t) + 1
    OBVIOUS
  <2>2. QED
    BY <1>3, <2>1, NumberedSkips DEF NumberedTo
<1>9. position = PlaceOf(t, k) /\ current_section = A!SectionAt(t, k)
  <2>1. k \in 1 .. Len(t) + 1
    OBVIOUS
  <2>2. QED
    BY <1>3, <1>8, <2>1, PlaceHere DEF NumberedTo
<1>10. Records(t, k)
  BY <1>1, <1>2, <1>3, <1>6, <1>9 DEF Records
<1>11. NumberedAt(t, k)
  BY <1>3 DEF NumberedAt, IsSkip, IsSection
<1>12. Moves(t[k], sections, current_section, sections', current_section')
  <2>1. ~ IsSection(t[k]) /\ Amount(t[k]) = 0
    BY <1>3 DEF IsSection, Amount
  <2>2. \A s \in DOMAIN sections : sections[s] = sections[s] + (IF s = current_section THEN 0 ELSE 0)
    BY DEF TypeInv, TreeInv
  <2>3. QED
    BY <1>6, <2>1, <2>2 DEF Moves
<1>13. NumberedTo(t, node)'
  BY <1>2, <1>3, <1>6, <1>10, <1>11, <1>12, NumberAnother
<1>14. QED
  BY <1>7, <1>13

\* Another node of the first walk.
LEMMA OtherNumbered ==
  ASSUME TypeInv, TypeInv', NEW t \in Seq(NodeType), Mirrors(t), NumberedTo(t, node), AtNode, Here.kind # "label",
         tree' = tree, positions' = positions, node' = node + 1, NumberedAt(t, node),
         Moves(Here, sections, current_section, sections', current_section')
  PROVE  Mirrors(t)' /\ NumberedTo(t, node)'
<1>1. /\ node \in 1 .. Len(t) /\ Here = t[node]
  BY MirrorHere
<1>2. PICK k \in 1 .. Len(t) : k = node
  BY <1>1
<1>3. Records(t, k)
  BY <1>1, <1>2 DEF Records
<1>4. NumberedTo(t, k) /\ NumberedAt(t, k) /\ Moves(t[k], sections, current_section, sections', current_section')
  BY <1>1, <1>2
<1>5. NumberedTo(t, node)'
  BY <1>2, <1>3, <1>4, NumberAnother
<1>6. Mirrors(t)'
  BY DEF Mirrors, Alike
<1>7. QED
  BY <1>5, <1>6

\* An argument is a number for both.
LEMMA SameNumber == \A n, i : A!HasNumberAt(n, i) <=> i <= Len(n.args) /\ Numeric(n.args[i])
BY DEF A!HasNumberAt, A!Numeric, Numeric

\* The instructions and the directives that are counted.
LEMMA SizeNumbered ==
  ASSUME TypeInv, TypeInv', NEW t \in Seq(NodeType), Mirrors(t), NumberedTo(t, node), AtNode, Here.kind # "label",
         ~ IsSection(Here), IsSkip(Here) => HasNumber(1), NEW n \in Int, n = Amount(Here), Advance(n)
  PROVE  Mirrors(t)' /\ NumberedTo(t, node)'
<1>1. Here = t[node]
  BY MirrorHere
<1>2. NumberedAt(t, node)
  BY <1>1, SameNumber DEF NumberedAt, HasNumber
<1>3. tree' = tree /\ positions' = positions /\ node' = node + 1 /\ current_section' = current_section
  BY DEF Advance
<1>4. sections \in [DOMAIN sections -> Int] /\ sections' = [sections EXCEPT ![current_section] = sections[current_section] + n]
  BY DEF TypeInv, TreeInv, Advance
<1>5. /\ DOMAIN sections' = DOMAIN sections
      /\ \A s \in DOMAIN sections : sections'[s] = sections[s] + (IF s = current_section THEN n ELSE 0)
  BY <1>4
<1>6. Moves(Here, sections, current_section, sections', current_section')
  BY <1>3, <1>5 DEF Moves
<1>7. QED
  BY <1>2, <1>3, <1>6, OtherNumbered

\* A section directive.
LEMMA SectionNumbered ==
  ASSUME TypeInv, TypeInv', NEW t \in Seq(NodeType), Mirrors(t), NumberedTo(t, node), NumberSection
  PROVE  Mirrors(t)' /\ NumberedTo(t, node)'
<1>1. /\ AtNode /\ IsSection(Here) /\ Here.kind # "label" /\ Here.args # <<>>
      /\ tree' = tree /\ positions' = positions /\ node' = node + 1
  BY DEF NumberSection, Numbering, IsSection
<1>2. Here = t[node]
  BY <1>1, MirrorHere
<1>3. PICK name, number : name = Here.args[1].name /\ number = Here.args[2].number
  OBVIOUS
<1>4. /\ current_section' = name
      /\ \/ name \in DOMAIN sections /\ sections' = sections
         \/ name \notin DOMAIN sections /\ HasNumber(2) /\ sections' = Assign(sections, name, number)
  BY <1>3 DEF NumberSection
<1>5. /\ DOMAIN sections' = DOMAIN sections \union {name}
      /\ \A s \in DOMAIN sections : sections'[s] = sections[s]
      /\ name \notin DOMAIN sections => sections'[name] = number
  <2>1. CASE name \in DOMAIN sections /\ sections' = sections
    BY <2>1
  <2>2. CASE name \notin DOMAIN sections /\ sections' = Assign(sections, name, number)
    BY <2>2 DEF Assign
  <2>3. QED
    BY <1>4, <2>1, <2>2
<1>6. Moves(Here, sections, current_section, sections', current_section')
  BY <1>1, <1>3, <1>4, <1>5 DEF Moves
<1>7. name = "flat" \/ A!HasNumberAt(Here, 2) \/ Says(t, name, {"section"}, node)
  BY <1>4, SameNumber DEF NumberedTo, HasNumber
<1>8. NumberedAt(t, node)
  BY <1>1, <1>2, <1>3, <1>7, Zenon DEF NumberedAt, IsSkip, IsSection
<1>9. QED
  BY <1>1, <1>6, <1>8, OtherNumbered

\* Each node that number_labels() goes on from.
NumberNode == NumberLabel \/ NumberInstruction \/ NumberSection \/ NumberDirective

\* Each of them keeps what is known of the first walk.
LEMMA NodeNumbered ==
  ASSUME TypeInv, TypeInv', NEW t \in Seq(NodeType), Mirrors(t), NumberedTo(t, node), NumberNode
  PROVE  Mirrors(t)' /\ NumberedTo(t, node)'
<1>1. CASE NumberLabel
  BY <1>1, LabelNumbered
<1>2. CASE NumberSection
  BY <1>2, SectionNumbered
<1>3. CASE NumberInstruction
  <2>1. AtNode /\ Here.kind = "instruction" /\ Advance(get_length(Here.name))
    BY <1>3 DEF NumberInstruction, Numbering
  <2>2. ~ IsSection(Here) /\ ~ IsSkip(Here) /\ Amount(Here) = get_length(Here.name) /\ get_length(Here.name) \in Int
    BY <2>1, LengthType DEF IsSection, IsSkip, Amount
  <2>3. QED
    BY <2>1, <2>2, SizeNumbered
<1>4. CASE NumberDirective
  <2>1. /\ AtNode /\ Here.kind = "directive" /\ Here.name # "section" /\ Numbering("directive")
        /\ (Here.name = "skip" => HasNumber(1)) /\ Advance(DataSize)
    BY <1>4 DEF NumberDirective, Numbering
  <2>2. DataSize \in Int /\ DataSize = Amount(Here)
    BY <2>1, DataSizeType, DataSizeAmount DEF TypeInv
  <2>3. ~ IsSection(Here) /\ (IsSkip(Here) => HasNumber(1))
    BY <2>1 DEF IsSection, IsSkip
  <2>4. QED
    BY <2>1, <2>2, <2>3, SizeNumbered
<1>5. QED
  BY <1>1, <1>2, <1>3, <1>4 DEF NumberNode

\* It throws at a node that has no number where one is wanted.
LEMMA NotNumbered ==
  ASSUME TypeInv, NEW t \in Seq(NodeType), Mirrors(t), NumberedTo(t, node), NumberThrows
  PROVE  ~ A!Numbered(t)
<1>1. AtNode /\ Here.kind = "directive"
  BY DEF NumberThrows, Numbering
<1>2. node \in 1 .. Len(t) /\ Here = t[node]
  BY <1>1, MirrorHere
<1>3. CASE Here.name = "skip" /\ ~ HasNumber(1)
  <2>1. IsSkip(t[node]) /\ ~ A!HasNumberAt(t[node], 1)
    BY <1>1, <1>2, <1>3, SameNumber DEF IsSkip, HasNumber
  <2>2. QED
    BY <1>2, <2>1, NumberedIs DEF NumberedAt
<1>4. CASE Here.name = "section" /\ Here.args = <<>>
  <2>1. IsSection(t[node]) /\ t[node].args = <<>>
    BY <1>1, <1>2, <1>4 DEF IsSection
  <2>2. QED
    BY <1>2, <2>1, NumberedIs DEF NumberedAt
<1>5. CASE Here.name = "section" /\ Here.args # <<>> /\ Here.args[1].name \notin DOMAIN sections /\ ~ HasNumber(2)
  <2>1. IsSection(t[node]) /\ ~ A!HasNumberAt(t[node], 2)
    BY <1>1, <1>2, <1>5, SameNumber DEF IsSection, HasNumber
  <2>2. t[node].args[1].name # "flat" /\ ~ Says(t, t[node].args[1].name, {"section"}, node)
    BY <1>2, <1>5 DEF NumberedTo
  <2>3. QED
    BY <1>2, <2>1, <2>2, NumberedIs DEF NumberedAt
<1>6. QED
  BY <1>3, <1>4, <1>5 DEF NumberThrows

\* At the end every node has what it wants.
LEMMA AllNumbered ==
  ASSUME TypeInv, NEW t \in Seq(NodeType), Mirrors(t), NumberedTo(t, node), ~ AtNode
  PROVE  A!Numbered(t) /\ PositionsKnown(t, Len(t) + 1)
<1>1. node = Len(t) + 1 /\ node - 1 = Len(t)
  BY DEF Mirrors, Alike, AtNode, TypeInv, TreeInv
<1>2. QED
  BY <1>1, NumberedIs DEF NumberedTo

-----------------------------------------------------------------------------
(* The walk begins with the nodes of the program. *)

\* The labels of a program are the names of its label nodes.
LEMMA LabelsAre ==
  ASSUME NEW t \in Seq(NodeType), NEW l
  PROVE  l \in A!Labels(t) <=> \E k \in 1 .. Len(t) : t[k].kind = "label" /\ t[k].name = l
<1>1. DOMAIN t = 1 .. Len(t)
  OBVIOUS
<1>2. QED
  BY <1>1, Zenon DEF A!Labels

\* An instruction names a label of the program.
Labelled(t) ==
  \A k \in 1 .. Len(t) : t[k].kind = "instruction" /\ t[k].label # "" => t[k].label \in A!Labels(t)

\* What kind a node is of, and what it names.
LEMMA NodeShapes ==
  /\ \A line : translate_label_node(line).kind = "label" /\ translate_label_node(line).name = line.name
  /\ \A line : translate_directive_node(line).kind = "directive"
BY DEF translate_label_node, translate_directive_node

\* Of an instruction, the label is the last part.
LEMMA NodeLabel ==
  ASSUME NEW name, NEW from, NEW to, NEW operand, NEW label, NEW n, n = Node(name, from, to, operand, label)
  PROVE  n.label = label
BY DEF Node

\* The label that a line names is one that is scanned.
LEMMA LabelNamed ==
  ASSUME NEW line \in LineType, NEW labels, Translatable(line, labels), translate_line(line).kind = "instruction"
  PROVE  translate_line(line).label = "" \/ translate_line(line).label \in labels
<1>0. PICK n : n = translate_line(line)
  OBVIOUS
<1>1. line.kind = "instruction"
  <2>1. CASE line.kind = "label"
    <3>1. n = translate_label_node(line)
      BY <1>0, <2>1, Zenon DEF translate_line
    <3>2. n.kind = "label"
      BY <3>1, NodeShapes, Zenon
    <3>3. QED
      BY <1>0, <3>2
  <2>2. CASE line.kind = "directive"
    <3>1. n = translate_directive_node(line)
      BY <1>0, <2>2, Zenon DEF translate_line
    <3>2. n.kind = "directive"
      BY <3>1, NodeShapes, Zenon
    <3>3. QED
      BY <1>0, <3>2
  <2>3. QED
    BY <2>1, <2>2, ParamFields
<1>2. n = translate_instruction(line)
  BY <1>0, <1>1, Zenon DEF translate_line
<1>4. CASE line.name \notin DOMAIN AddressOps
  <2>1. PICK zero, none : zero = 0 /\ none = ""
    OBVIOUS
  <2>2. n = Node(line.name, RegisterOf(line, 1), RegisterOf(line, 2), zero, none)
    BY <1>2, <1>4, <2>1, Zenon DEF translate_instruction
  <2>3. n.label = none
    BY <2>2, NodeLabel
  <2>4. QED
    BY <1>0, <2>1, <2>3
<1>5. CASE line.name \in DOMAIN AddressOps
  <2>1. n = AddressNode(line, line.params[1])
    BY <1>2, <1>5, Zenon DEF translate_instruction
  <2>2. n.label = "" \/ (line.params[1].type # "number" /\ n.label = line.params[1].name)
    <3>1. PICK zero, none, param : zero = 0 /\ none = "" /\ param = line.params[1]
      OBVIOUS
    <3>2. \/ /\ param.type = "number"
             /\ n = Node(line.name, RegisterNumber["bse"], RegisterNumber["bse"], ToUWord(param.values[1]), none)
          \/ /\ param.type # "number"
             /\ n = Node(line.name, RegisterNumber["bse"], RegisterNumber["bse"], zero, param.name)
      BY <2>1, <3>1, Zenon DEF AddressNode
    <3>3. n.label = none \/ (param.type # "number" /\ n.label = param.name)
      BY <3>2, NodeLabel
    <3>4. QED
      BY <3>1, <3>3
  <2>3. HasAddress(line, labels)
    <3>1. \/ HasAddress(line, labels)
          \/ line.name \in DOMAIN TransferOps \/ line.name \in DOMAIN StackOps \/ line.name \in DOMAIN PlainOps
      BY <1>1, Zenon DEF Translatable
    <3>2. QED
      BY <1>5, <3>1 DEF AddressOps, TransferOps, StackOps, PlainOps
  <2>4. QED
    BY <1>0, <2>2, <2>3 DEF HasAddress
<1>6. QED
  BY <1>4, <1>5

\* The nodes of lines that can all be translated.
LEMMA NodesMade ==
  ASSUME TypeInv, \A i \in DOMAIN lines : Translatable(lines[i], label_scan),
         NEW t, t = [i \in DOMAIN lines |-> translate_line(lines[i])]
  PROVE  t \in Seq(NodeType) /\ Labelled(t)
<1>1. PICK ls, labels : ls = lines /\ labels = label_scan
  OBVIOUS
<1>2. ls \in Seq(LineType) /\ \A i \in 1 .. Len(ls) : ls[i] \in LineType /\ Translatable(ls[i], labels)
  BY <1>1 DEF TypeInv, ListsInv
<1>3. Len(ls) \in Nat /\ t = [i \in 1 .. Len(ls) |-> translate_line(ls[i])]
  BY <1>1, <1>2
<1>4. \A i \in 1 .. Len(ls) : translate_line(ls[i]) \in NodeType
  BY <1>2, LineTranslated
<1>5. t \in Seq(NodeType) /\ Len(t) = Len(ls) /\ \A i \in 1 .. Len(ls) : t[i] = translate_line(ls[i])
  BY <1>3, <1>4
<1>6. ASSUME NEW l \in labels PROVE l \in A!Labels(t)
  <2>1. PICK i \in 1 .. Len(ls) : ls[i].kind = "label" /\ ls[i].name = l
    BY <1>1, <1>2, <1>6 DEF label_scan
  <2>2. t[i] = translate_label_node(ls[i])
    BY <1>5, <2>1, Zenon DEF translate_line
  <2>3. t[i].kind = "label" /\ t[i].name = l
    BY <2>1, <2>2, NodeShapes, Zenon
  <2>4. QED
    BY <1>5, <2>3, LabelsAre
<1>7. ASSUME NEW k \in 1 .. Len(t), t[k].kind = "instruction", t[k].label # "" PROVE t[k].label \in A!Labels(t)
  <2>1. ls[k] \in LineType /\ Translatable(ls[k], labels) /\ t[k] = translate_line(ls[k])
    BY <1>2, <1>5
  <2>2. t[k].label \in labels
    <3>1. translate_line(ls[k]).kind = "instruction"
      BY <1>7, <2>1
    <3>2. translate_line(ls[k]).label = "" \/ translate_line(ls[k]).label \in labels
      BY <2>1, <3>1, LabelNamed
    <3>3. QED
      BY <1>7, <2>1, <3>2
  <2>3. QED
    BY <1>6, <2>2
<1>8. QED
  BY <1>5, <1>7 DEF Labelled

\* What the walk begins with.
Unnumbered == sections = [s \in {"flat"} |-> 0] /\ current_section = "flat" /\ positions = <<>>

\* The nodes of the program are those of the lines that its expansion comes to.
LEMMA ProgramNodes ==
  ASSUME lines = A!FullExpansion(source)
  PROVE  A!Nodes(source) = [i \in DOMAIN lines |-> translate_line(lines[i])]
BY SameLine, Zenon DEF A!Nodes

\* transform() makes the nodes of the program of its lines.
LEMMA Translated ==
  ASSUME TypeInv, TranslateLines, stage' = "number", Unnumbered, lines = A!FullExpansion(source), NEW t, t = A!Nodes(source)
  PROVE  /\ A!Translates(A!FullExpansion(source)) /\ t \in Seq(NodeType) /\ Labelled(t)
         /\ Mirrors(t)' /\ NumberedTo(t, node)'
<1>1. \A i \in DOMAIN lines : Translatable(lines[i], label_scan)
  BY DEF TranslateLines, Terminate
<1>2. A!Translates(A!FullExpansion(source))
  BY <1>1, SameTranslates
<1>3. t = [i \in DOMAIN lines |-> translate_line(lines[i])]
  BY ProgramNodes
<1>4. t \in Seq(NodeType) /\ Labelled(t)
  BY <1>1, <1>3, NodesMade
<1>5. tree' = t /\ node' = 1 /\ UNCHANGED <<sections, current_section, positions>>
  BY <1>1, <1>3 DEF TranslateLines, TypeInv, TreeInv
<1>6. Mirrors(t)'
  BY <1>5 DEF Mirrors, Alike
<1>7. NumberedTo(t, 1)'
  <2>1. sections' = [s \in {"flat"} |-> 0] /\ current_section' = "flat" /\ positions' = <<>>
    BY <1>5 DEF Unnumbered
  <2>2. QED
    BY <2>1, FirstNumbered
<1>8. QED
  BY <1>2, <1>4, <1>5, <1>6, <1>7

\* It throws for lines that cannot be translated.
LEMMA NotTranslated ==
  ASSUME TranslateLines, stage' = "terminated", lines = A!FullExpansion(source)
  PROVE  ~ A!Translates(A!FullExpansion(source))
<1>1. ~ \A i \in DOMAIN lines : Translatable(lines[i], label_scan)
  BY DEF TranslateLines
<1>2. QED
  BY <1>1, SameTranslates

\* The expander ends a pass without an invocation for programs that can be expanded.
LEMMA Expanded ==
  ASSUME TypeInv, ExpandInv, EndPass, stage' = "translate"
  PROVE  A!Expands(source)
<1>1. stage = "expand" /\ iter > Len(lines) /\ ~ (replaced_macros > 0) /\ source \in ProgramType /\ replaced_macros \in Nat
      /\ lines \in Seq(LineType)
  BY SourcesAssumption DEF EndPass, TypeInv, ListsInv, source, ProgramType
<1>2. PICK d \in Nat : \E u : Deepens(source, u, d) /\ AtPass(source, u[d], lines, iter, replaced_macros)
  BY <1>1 DEF ExpandInv
<1>3. PICK u : Deepens(source, u, d) /\ AtPass(source, u[d], lines, iter, replaced_macros)
  BY <1>2
<1>4. u[d] \in Seq(LineType) /\ replaced_macros = 0
  BY <1>1, <1>3 DEF Deepens
<1>5. Quiet(source, u[d])
  BY <1>1, <1>3, <1>4, PassEnds
<1>6. QED
  BY <1>1, <1>3, <1>5, EndsExpanded

\* It dies at an invocation that does not fit.
LEMMA NotExpanded ==
  ASSUME TypeInv, ExpandInv, BadInvocation
  PROVE  ~ A!Expands(source)
<1>1. stage = "expand" /\ iter <= Len(lines) /\ source \in ProgramType /\ replaced_macros \in Nat
      /\ lines \in Seq(LineType) /\ macros = source.macros
  BY SourcesAssumption DEF BadInvocation, InPass, ExpandInv, TypeInv, ListsInv, source, ProgramType
<1>2. PICK d \in Nat : \E u : Deepens(source, u, d) /\ AtPass(source, u[d], lines, iter, replaced_macros)
  BY <1>1 DEF ExpandInv
<1>3. PICK u : Deepens(source, u, d) /\ AtPass(source, u[d], lines, iter, replaced_macros)
  BY <1>2
<1>4. PICK line : line = lines[iter]
  OBVIOUS
<1>5. A!Invokes(source, line) /\ ~ Suits(source, line)
  BY <1>1, <1>4, InvocationUnfolds DEF BadInvocation
<1>6. \E i \in DOMAIN u[d] : u[d][i] = line
  <2>1. PICK ls, all, at : ls = u[d] /\ all = lines /\ at = iter
    OBVIOUS
  <2>2. ls \in Seq(LineType) /\ AtPass(source, ls, all, at, replaced_macros) /\ at <= Len(all) /\ all[at] = line
    BY <1>1, <1>3, <1>4, <2>1 DEF Deepens
  <2>3. PICK j \in 0 .. Len(ls) : \E p :
          /\ Concatenates(p, Unfolded(source, ls), j, LineType)
          /\ Left(all, p[j], ls, j + 1) /\ at = Len(p[j]) + 1
    BY <2>2 DEF AtPass
  <2>4. PICK p : /\ Concatenates(p, Unfolded(source, ls), j, LineType)
                 /\ Left(all, p[j], ls, j + 1) /\ at = Len(p[j]) + 1
    BY <2>3
  <2>5. PICK i : i = j + 1
    OBVIOUS
  <2>6. i \in 1 .. Len(ls) + 1 /\ p[j] \in Seq(LineType) /\ Left(all, p[j], ls, i) /\ Len(p[j]) + 1 <= Len(all)
    BY <2>2, <2>4, <2>5 DEF Concatenates
  <2>7. NextOf(LineType, all, p[j], ls, i)
    BY <2>2, <2>6, Behind
  <2>8. i \in 1 .. Len(ls) /\ all[at] = ls[i]
    BY <2>4, <2>7 DEF NextOf, Splits
  <2>9. QED
    BY <2>1, <2>2, <2>8
<1>7. QED
  BY <1>1, <1>3, <1>5, <1>6, BadExpansion

-----------------------------------------------------------------------------
(* The addresses of the labels. *)

\* Some positions of a list have a last one.
LEMMA SomeLast ==
  ASSUME NEW n \in Nat, NEW S \in SUBSET (1 .. n), S # {}
  PROVE  \E x \in S : \A y \in S : y <= x
<1> DEFINE T == {n - i : i \in S}
<1>1. T \in SUBSET Nat /\ T # {}
  <2>1. \A i \in S : i \in Int /\ i <= n
    OBVIOUS
  <2>2. \A i \in S : n - i \in Nat
    BY <2>1
  <2>3. QED
    BY <2>2
<1>2. PICK z \in T : \A y \in T : z <= y
  <2> HIDE DEF T
  <2>1. QED
    BY <1>1, Least
<1>3. PICK x \in S : z = n - x
  BY <1>2
<1>4. ASSUME NEW y \in S PROVE y <= x
  <2>1. n - y \in T /\ x \in Nat /\ y \in Nat
    BY <1>3
  <2>2. n - x <= n - y
    BY <1>2, <1>3, <2>1
  <2>3. QED
    BY <2>1, <2>2
<1>5. QED
  BY <1>4

\* A label counts where it is defined last.
LEMMA LabelLast ==
  ASSUME NEW t \in Seq(NodeType), NEW l \in A!Labels(t)
  PROVE  /\ A!LabelAt(t, l) \in 1 .. Len(t) /\ t[A!LabelAt(t, l)].name = l
         /\ LastDefined(t, A!LabelAt(t, l), Len(t))
<1>1. PICK S : S = {k \in DOMAIN t : t[k].kind = "label" /\ t[k].name = l}
  OBVIOUS
<1>2. DOMAIN t = 1 .. Len(t) /\ Len(t) \in Nat
  OBVIOUS
<1>3. S \in SUBSET (1 .. Len(t)) /\ S # {}
  BY <1>1, <1>2, LabelsAre
<1>4. PICK x \in S : \A y \in S : y <= x
  BY <1>2, <1>3, SomeLast
<1>5. A!LabelAt(t, l) = x
  <2>1. S \in SUBSET Int
    BY <1>3
  <2>2. A!Max(S) = x
    BY <1>4, <2>1, MaxIs
  <2>3. QED
    BY <1>1, <2>2 DEF A!LabelAt
<1>6. x \in 1 .. Len(t) /\ t[x].kind = "label" /\ t[x].name = l
  BY <1>1, <1>2, <1>4
<1>7. ASSUME NEW j \in x + 1 .. Len(t), t[j].kind = "label" PROVE t[j].name # l
  <2>1. j \in 1 .. Len(t) /\ ~ (j <= x)
    BY <1>6
  <2>2. j \notin S
    BY <1>4, <2>1
  <2>3. QED
    BY <1>1, <1>2, <1>7, <2>1, <2>2
<1>8. QED
  BY <1>5, <1>6, <1>7 DEF LastDefined

\* Every label has its address and section.
Placed(t) ==
  /\ \A l : l \in DOMAIN positions <=> l \in A!Labels(t)
  /\ \A l \in A!Labels(t) : positions[l] = [address |-> A!Address(t, l), section |-> A!LabelSection(t, l)]

\* At the end of the walk they do.
LEMMA PositionsPlaced ==
  ASSUME NEW t \in Seq(NodeType), PositionsKnown(t, Len(t) + 1)
  PROVE  Placed(t)
<1>1. PICK n \in Nat : n = Len(t)
  OBVIOUS
<1>2. PICK m : m = n + 1
  OBVIOUS
<1>3. m - 1 = n /\ PositionsKnown(t, m)
  BY <1>1, <1>2
<1>4. ASSUME NEW l \in DOMAIN positions PROVE l \in A!Labels(t)
  BY <1>1, <1>3, LabelsAre DEF PositionsKnown
<1>5. ASSUME NEW l \in A!Labels(t)
      PROVE  /\ l \in DOMAIN positions
             /\ positions[l] = [address |-> A!Address(t, l), section |-> A!LabelSection(t, l)]
  <2>1. PICK k : k = A!LabelAt(t, l)
    OBVIOUS
  <2>2. k \in 1 .. n /\ t[k].name = l /\ LastDefined(t, k, n)
    BY <1>1, <2>1, LabelLast
  <2>3. l \in DOMAIN positions /\ positions[l] = [address |-> PlaceOf(t, k), section |-> A!SectionAt(t, k)]
    BY <1>3, <2>2 DEF PositionsKnown
  <2>4. A!LabelSection(t, l) = A!SectionAt(t, k)
    BY <2>1 DEF A!LabelSection
  <2>5. A!Address(t, l) = PlaceOf(t, k)
    BY <2>1 DEF A!Address, PlaceOf
  <2>6. QED
    BY <2>3, <2>4, <2>5
<1>6. QED
  BY <1>4, <1>5 DEF Placed

\* The two parts of a position.
LEMMA PlacedFields ==
  ASSUME NEW t, Placed(t), NEW l \in A!Labels(t)
  PROVE  /\ l \in DOMAIN positions
         /\ positions[l].address = A!Address(t, l) /\ positions[l].section = A!LabelSection(t, l)
<1>1. PICK a, s : a = A!Address(t, l) /\ s = A!LabelSection(t, l)
  OBVIOUS
<1>2. positions[l] = [address |-> a, section |-> s] /\ l \in DOMAIN positions
  BY <1>1, Zenon DEF Placed
<1>3. QED
  BY <1>1, <1>2

\* The instruction with the address of the label that it names.
Final(t, n) == IF n.label = "" THEN n ELSE [n EXCEPT !.operand = ToUWord(A!Address(t, n.label))]

Resolved(t) == Alike(t) /\ \A k \in 1 .. Len(t) : t[k].kind = "instruction" => tree[k] = Final(t, t[k])

\* The second walk of the transformer.
LEMMA LabelsResolved ==
  ASSUME TypeInv, NEW t \in Seq(NodeType), Mirrors(t), Labelled(t), Placed(t), ResolveLabels
  PROVE  Resolved(t)' /\ Placed(t)'
<1>1. tree' = [i \in DOMAIN tree |-> Resolve(tree[i])] /\ positions' = positions /\ tree \in Seq(NodeType) /\ Len(tree) = Len(t)
  BY DEF ResolveLabels, TypeInv, TreeInv, Mirrors, Alike
<1>2. PICK u : u = tree'
  OBVIOUS
<1>3. Len(u) = Len(t) /\ \A i \in 1 .. Len(t) : u[i] = Resolve(tree[i])
  BY <1>1, <1>2
<1>4. ASSUME NEW i \in 1 .. Len(t)
      PROVE  /\ u[i].kind = t[i].kind /\ u[i].name = t[i].name
             /\ t[i].kind = "directive" => u[i] = t[i]
             /\ t[i].kind = "instruction" => u[i] = Final(t, t[i])
  <2>1. /\ tree[i].kind = t[i].kind /\ tree[i].name = t[i].name
        /\ t[i].kind \in {"directive", "instruction"} => tree[i] = t[i]
    BY DEF Mirrors, Alike
  <2>2. CASE t[i].kind = "instruction"
    <3>1. t[i] \in KnownType
      BY <2>2, NodeFields
    <3>2. \A w : [t[i] EXCEPT !.operand = w].kind = t[i].kind /\ [t[i] EXCEPT !.operand = w].name = t[i].name
      BY <3>1 DEF KnownType, InstructionType
    <3>3. CASE t[i].label = ""
      <4>1. u[i] = t[i] /\ Final(t, t[i]) = t[i]
        BY <1>3, <2>1, <2>2, <3>3, Zenon DEF Resolve, Final
      <4>2. QED
        BY <2>2, <4>1
    <3>4. CASE t[i].label # ""
      <4>1. t[i].label \in A!Labels(t)
        BY <2>2, <3>4 DEF Labelled
      <4>2. t[i].label \in DOMAIN positions /\ positions[t[i].label].address = A!Address(t, t[i].label)
        BY <4>1, PlacedFields
      <4>3. u[i] = [t[i] EXCEPT !.operand = ToUWord(A!Address(t, t[i].label))]
        <5>1. tree[i] = t[i] /\ u[i] = Resolve(t[i])
          BY <1>3, <2>1, <2>2
        <5>2. u[i] = [t[i] EXCEPT !.operand = ToUWord(positions[t[i].label].address)]
          BY <2>2, <3>4, <4>2, <5>1, Zenon DEF Resolve
        <5>3. QED
          BY <4>2, <5>2
      <4>4. Final(t, t[i]) = [t[i] EXCEPT !.operand = ToUWord(A!Address(t, t[i].label))]
        BY <3>4 DEF Final
      <4>5. QED
        BY <2>2, <3>2, <4>3, <4>4
    <3>5. QED
      BY <3>3, <3>4
  <2>3. CASE t[i].kind # "instruction"
    <3>1. u[i] = tree[i]
      BY <1>3, <2>1, <2>3 DEF Resolve
    <3>2. QED
      BY <2>1, <2>3, <3>1
  <2>4. QED
    BY <2>2, <2>3
<1>5. Resolved(t)'
  BY <1>2, <1>3, <1>4 DEF Resolved, Alike
<1>6. QED
  BY <1>1, <1>5 DEF Placed

-----------------------------------------------------------------------------
(* What emit_binary() puts into the sections. *)

\* The bytes of an instruction are the same in the instance.
LEMMA SameEmit == \A n : A!emit(n) = emit(n)
BY SameTables, Zenon DEF A!emit, emit

\* The bytes of a node.
LEMMA BytesAre ==
  ASSUME NEW t, NEW n, n.kind \in {"label", "instruction", "directive"}
  PROVE  /\ n.kind = "instruction" => A!BytesOf(t, n) = emit(Final(t, n))
         /\ n.kind = "label" => A!BytesOf(t, n) = <<>>
         /\ n.kind = "directive" =>
              /\ n.name = "byte" => A!BytesOf(t, n) = <<ToByte(n.args[1].number)>>
              /\ n.name = "word" => A!BytesOf(t, n) = <<HighByte(ToUWord(n.args[1].number)), LowByte(n.args[1].number)>>
              /\ n.name = "bytes" => A!BytesOf(t, n) = [i \in DOMAIN n.args |-> ToByte(n.args[i].number)]
              /\ n.name \notin {"byte", "word", "bytes"} => A!BytesOf(t, n) = <<>>
<1>1. CASE n.kind = "instruction"
  <2>1. A!BytesOf(t, n) = A!emit(IF n.label = "" THEN n ELSE [n EXCEPT !.operand = A!ToUWord(A!Address(t, n.label))])
    BY <1>1, Zenon DEF A!BytesOf, A!IsDirective
  <2>2. PICK address : address = A!Address(t, n.label)
    OBVIOUS
  <2>3. A!ToUWord(address) = ToUWord(address)
    BY SameTables
  <2>4. A!BytesOf(t, n) = A!emit(Final(t, n))
    BY <2>1, <2>2, <2>3, Zenon DEF Final
  <2>5. QED
    BY <1>1, <2>4, SameEmit
<1>2. CASE n.kind = "label"
  <2>1. A!BytesOf(t, n) = <<>>
    BY <1>2, Zenon DEF A!BytesOf, A!IsDirective
  <2>2. QED
    BY <1>2, <2>1
<1>3. CASE n.kind = "directive"
  <2>1. n.name = "byte" => A!BytesOf(t, n) = <<ToByte(n.args[1].number)>>
    BY <1>3, SameTables, Zenon DEF A!BytesOf, A!IsDirective
  <2>2. n.name = "word" => A!BytesOf(t, n) = <<HighByte(ToUWord(n.args[1].number)), LowByte(n.args[1].number)>>
    BY <1>3, SameTables, Zenon DEF A!BytesOf, A!IsDirective
  <2>3. n.name = "bytes" => A!BytesOf(t, n) = [i \in DOMAIN n.args |-> ToByte(n.args[i].number)]
    <3>1. n.name = "bytes" => A!BytesOf(t, n) = [i \in DOMAIN n.args |-> A!ToByte(n.args[i].number)]
      BY <1>3, Zenon DEF A!BytesOf, A!IsDirective
    <3>2. QED
      BY <3>1, SameTables
  <2>4. n.name \notin {"byte", "word", "bytes"} => A!BytesOf(t, n) = <<>>
    BY <1>3, Zenon DEF A!BytesOf, A!IsDirective
  <2>5. QED
    BY <1>3, <2>1, <2>2, <2>3, <2>4
<1>4. QED
  BY <1>1, <1>2, <1>3

Data(s) == IF s \in DOMAIN out_sections THEN out_sections[s].data ELSE <<>>

\* What node k adds to section s.
PieceAt(t, s, k) == IF A!SectionAt(t, k) = s THEN A!BytesOf(t, t[k]) ELSE <<>>

\* p[i] is what the first i nodes put into the section.
Builds(p, t, s, n) == p[0] = <<>> /\ \A i \in 1 .. n : p[i] = p[i - 1] \o PieceAt(t, s, i)

Making == {"section", "secinfo"}

\* The sections in front of node k.
SectionsTo(t, k) ==
  /\ out_section = A!SectionAt(t, k)
  /\ \A s : s \in DOMAIN out_sections <=> Says(t, s, Making, k)
  /\ \A s \in DOMAIN out_sections : /\ out_sections[s].addr = A!Base(t, s) /\ out_sections[s].name = A!Title(t, s)
                                    /\ out_sections[s].flags = A!FlagsAt(t, s, k)
  /\ \A s, p : Builds(p, t, s, k - 1) => Data(s) = p[k - 1]

\* The permissions that a .secinfo tells.
ToldFlags(n) == {n.args[i].name : i \in 2 .. Len(n.args)} \cap Flags

\* What node k does to the sections.
Fills(t, k) ==
  /\ out_section' = IF IsSection(t[k]) THEN t[k].args[1].name ELSE out_section
  /\ \A s : s \in DOMAIN out_sections' <=> s \in DOMAIN out_sections \/ Tells(t[k], s, Making)
  /\ \A s \in DOMAIN out_sections :
       /\ out_sections'[s].addr = out_sections[s].addr /\ out_sections'[s].name = out_sections[s].name
       /\ out_sections'[s].flags = IF Tells(t[k], s, {"secinfo"}) THEN ToldFlags(t[k]) ELSE out_sections[s].flags
  /\ \A s \in DOMAIN out_sections' : s \notin DOMAIN out_sections =>
       /\ out_sections'[s].addr = IF t[k].name = "section" THEN t[k].args[2].number ELSE 0
       /\ out_sections'[s].name = IF t[k].name = "section" THEN s ELSE ""
       /\ out_sections'[s].flags = IF t[k].name = "section" THEN Flags ELSE ToldFlags(t[k])
  /\ \A s : Data(s)' = IF s = out_section THEN Data(s) \o A!BytesOf(t, t[k]) ELSE Data(s)

\* The first directive that names a section says where it is and what it is called.
LEMMA MadeHere ==
  ASSUME NEW t \in Seq(NodeType), NEW k \in 1 .. Len(t), NEW s, FirstSays(t, s, Making, k)
  PROVE  /\ A!Base(t, s) = IF t[k].name = "section" THEN t[k].args[2].number ELSE 0
         /\ A!Title(t, s) = IF t[k].name = "section" THEN s ELSE ""
<1>1. A!Min(A!Naming(t, s, Making)) = k
  BY FirstIs
<1>2. A!Origin(t, s) = t[k]
  BY <1>1 DEF A!Origin, A!Origins, Making
<1>3. QED
  BY <1>2, Zenon DEF A!Base, A!Title

\* One more node has been emitted.
LEMMA FillsOn ==
  ASSUME OutInv, NEW t \in Seq(NodeType), NEW k \in 1 .. Len(t), SectionsTo(t, k), Fills(t, k), NEW m, m = k + 1
  PROVE  SectionsTo(t, m)'
<1>1. out_section' = A!SectionAt(t, m)
  <2>1. A!SectionAt(t, m) = IF IsSection(t[k]) THEN t[k].args[1].name ELSE A!SectionAt(t, k)
    <3>1. k \in Nat /\ k >= 1
      OBVIOUS
    <3>2. A!SectionAt(t, k + 1) = IF IsSection(t[k]) THEN t[k].args[1].name ELSE A!SectionAt(t, k)
      BY <3>1, SectionNext
    <3>3. QED
      BY <3>2
  <2>2. QED
    BY <2>1 DEF Fills, SectionsTo
<1>2. \A s, D : Says(t, s, D, m) <=> Says(t, s, D, k) \/ Tells(t[k], s, D)
  BY SaysNext
<1>3. \A s : s \in DOMAIN out_sections' <=> Says(t, s, Making, m)
  BY <1>2 DEF Fills, SectionsTo
<1>4. ASSUME NEW s \in DOMAIN out_sections'
      PROVE  /\ out_sections'[s].addr = A!Base(t, s) /\ out_sections'[s].name = A!Title(t, s)
             /\ out_sections'[s].flags = A!FlagsAt(t, s, m)
  <2>1. A!FlagsAt(t, s, m) = IF Tells(t[k], s, {"secinfo"}) THEN ToldFlags(t[k]) ELSE A!FlagsAt(t, s, k)
    <3>1. A!FlagsAt(t, s, m) = IF Tells(t[k], s, {"secinfo"})
                               THEN {t[k].args[i].name : i \in 2 .. Len(t[k].args)} \cap Flags
                               ELSE A!FlagsAt(t, s, k)
      BY FlagsNext
    <3>2. QED
      BY <3>1, Zenon DEF ToldFlags
  <2>2. CASE s \in DOMAIN out_sections
    BY <2>1, <2>2 DEF Fills, SectionsTo
  <2>3. CASE s \notin DOMAIN out_sections
    <3>1. ~ Says(t, s, Making, k) /\ Tells(t[k], s, Making)
      BY <1>4, <2>3 DEF Fills, SectionsTo
    <3>2. FirstSays(t, s, Making, k)
      BY <3>1 DEF FirstSays
    <3>3. A!FlagsAt(t, s, k) = Flags
      <4>1. ~ Says(t, s, {"secinfo"}, k) /\ k \in 1 .. Len(t) + 1
        BY <3>1 DEF Says, Tells, Making
      <4>2. QED
        BY <4>1, FlagsNone
    <3>4. Tells(t[k], s, {"secinfo"}) <=> t[k].name # "section"
      BY <3>1 DEF Tells, Making
    <3>5. /\ out_sections'[s].addr = IF t[k].name = "section" THEN t[k].args[2].number ELSE 0
          /\ out_sections'[s].name = IF t[k].name = "section" THEN s ELSE ""
          /\ out_sections'[s].flags = IF t[k].name = "section" THEN Flags ELSE ToldFlags(t[k])
      BY <1>4, <2>3, Zenon DEF Fills
    <3>6. out_sections'[s].addr = A!Base(t, s) /\ out_sections'[s].name = A!Title(t, s)
      BY <3>2, <3>5, MadeHere
    <3>7. out_sections'[s].flags = A!FlagsAt(t, s, m)
      BY <2>1, <3>3, <3>4, <3>5
    <3>8. QED
      BY <3>6, <3>7
  <2>4. QED
    BY <2>2, <2>3
<1>5. ASSUME NEW s, NEW p, Builds(p, t, s, m - 1) PROVE Data(s)' = p[m - 1]
  <2>1. m - 1 = k /\ k \in Nat /\ k \in 1 .. k /\ \A i \in 1 .. k - 1 : i \in 1 .. k
    OBVIOUS
  <2>2. Builds(p, t, s, k - 1) /\ p[k] = p[k - 1] \o PieceAt(t, s, k)
    BY <1>5, <2>1 DEF Builds
  <2>3. Data(s) = p[k - 1] /\ out_section = A!SectionAt(t, k)
    BY <2>2 DEF SectionsTo
  <2>4. Data(s)' = IF s = out_section THEN Data(s) \o A!BytesOf(t, t[k]) ELSE Data(s)
    BY DEF Fills
  <2>5. CASE s = out_section
    BY <2>1, <2>2, <2>3, <2>4, <2>5 DEF PieceAt
  <2>6. CASE s # out_section
    <3>1. p[k] = Data(s) \o <<>>
      BY <2>2, <2>3, <2>6 DEF PieceAt
    <3>2. Data(s) \in Seq(Byte)
      BY DEF Data, OutInv, SectionType
    <3>3. Data(s) \o <<>> = Data(s)
      BY <3>2
    <3>4. QED
      BY <2>1, <2>4, <2>6, <3>1, <3>3
  <2>7. QED
    BY <2>5, <2>6
<1>6. QED
  BY <1>1, <1>3, <1>4, <1>5 DEF SectionsTo

\* The second walk is at a node of t.
LEMMA ResolvedHere ==
  ASSUME TypeInv, NEW t \in Seq(NodeType), Resolved(t), AtNode
  PROVE  /\ node \in 1 .. Len(t) /\ Here \in NodeType
         /\ Here.kind = t[node].kind /\ Here.name = t[node].name
         /\ Here.kind = "directive" => Here = t[node]
         /\ Here.kind = "instruction" => Here = Final(t, t[node])
<1>1. node \in 1 .. Len(t) /\ tree \in Seq(NodeType) /\ Len(tree) = Len(t)
  BY DEF Resolved, Alike, AtNode, TypeInv, TreeInv
<1>2. PICK k : k = node
  OBVIOUS
<1>3. k \in 1 .. Len(t) /\ Here = tree[k] /\ Here \in NodeType
  BY <1>1, <1>2 DEF Here
<1>4. /\ tree[k].kind = t[k].kind /\ tree[k].name = t[k].name /\ (t[k].kind = "directive" => tree[k] = t[k])
      /\ t[k].kind = "instruction" => tree[k] = Final(t, t[k])
  BY <1>3 DEF Resolved, Alike
<1>5. QED
  BY <1>2, <1>3, <1>4

\* Bytes that are put into the current section.
LEMMA PutFills ==
  ASSUME OutInv, NEW t, NEW k, ~ IsSection(t[k]), \A s : ~ Tells(t[k], s, Making),
         NEW bytes, bytes = A!BytesOf(t, t[k]), Put(bytes)
  PROVE  Fills(t, k)
<1>1. /\ out_sections \in [DOMAIN out_sections -> SectionType] /\ out_section \in DOMAIN out_sections
      /\ out_sections' = [out_sections EXCEPT ![out_section].data = @ \o bytes]
      /\ out_section' = out_section
  BY DEF OutInv, Put, InSection
<1>2. PICK old \in SectionType : old = out_sections[out_section]
  BY <1>1
<1>3. PICK data : data = old.data \o bytes
  OBVIOUS
<1>4. PICK new : new = [old EXCEPT !.data = data]
  OBVIOUS
<1>5. new.name = old.name /\ new.addr = old.addr /\ new.flags = old.flags /\ new.data = data
  BY <1>4 DEF SectionType
<1>6. out_sections' = [out_sections EXCEPT ![out_section] = new]
  BY <1>1, <1>2, <1>3, <1>4
<1>7. /\ DOMAIN out_sections' = DOMAIN out_sections /\ out_sections'[out_section] = new
      /\ \A s \in DOMAIN out_sections : s # out_section => out_sections'[s] = out_sections[s]
  BY <1>1, <1>6
<1>8. \A s \in DOMAIN out_sections :
        /\ out_sections'[s].addr = out_sections[s].addr /\ out_sections'[s].name = out_sections[s].name
        /\ out_sections'[s].flags = out_sections[s].flags
  BY <1>2, <1>5, <1>7
<1>9. \A s : Data(s)' = IF s = out_section THEN Data(s) \o bytes ELSE Data(s)
  BY <1>1, <1>2, <1>3, <1>5, <1>7 DEF Data
<1>10. \A s : ~ Tells(t[k], s, {"secinfo"})
  BY DEF Tells, Making
<1>11. QED
  BY <1>1, <1>7, <1>8, <1>9, <1>10 DEF Fills

\* A directive that makes or tells of sections puts nothing into them.
LEMMA NothingPut ==
  ASSUME OutInv, NEW t, NEW k, A!BytesOf(t, t[k]) = <<>>,
         \A s \in DOMAIN out_sections : s \in DOMAIN out_sections' /\ out_sections'[s].data = out_sections[s].data,
         \A s \in DOMAIN out_sections' : s \notin DOMAIN out_sections => out_sections'[s].data = <<>>
  PROVE  \A s : Data(s)' = IF s = out_section THEN Data(s) \o A!BytesOf(t, t[k]) ELSE Data(s)
<1>1. \A s : Data(s)' = Data(s)
  BY DEF Data
<1>2. \A s : Data(s) \in Seq(Byte)
  BY DEF Data, OutInv, SectionType
<1>3. \A d \in Seq(Byte) : d \o <<>> = d
  OBVIOUS
<1>4. QED
  BY <1>1, <1>2, <1>3

\* A .section directive.
LEMMA SectionFills ==
  ASSUME OutInv, NEW t, NEW k, Here = t[k], A!BytesOf(t, t[k]) = <<>>, EmitSection
  PROVE  Fills(t, k)
<1>1. PICK name, address, new : name = Here.args[1].name /\ address = Here.args[2].number /\ new = Section(name, address)
  OBVIOUS
<1>2. /\ Here.kind = "directive" /\ Here.name = "section" /\ Here.args # <<>> /\ out_section' = name
      /\ \/ name \in DOMAIN out_sections /\ out_sections' = out_sections
         \/ /\ name \notin DOMAIN out_sections
            /\ out_sections' = Assign(out_sections, name, new)
  BY <1>1 DEF EmitSection, EmitDirective, Emitting, Step
<1>3. new.name = name /\ new.addr = address /\ new.data = <<>> /\ new.flags = Flags
  BY <1>1 DEF Section
<1>4. /\ DOMAIN out_sections' = DOMAIN out_sections \union {name}
      /\ \A s \in DOMAIN out_sections : out_sections'[s] = out_sections[s]
      /\ name \notin DOMAIN out_sections => out_sections'[name] = new
  BY <1>2 DEF Assign
<1>5. \A s : Data(s)' = IF s = out_section THEN Data(s) \o A!BytesOf(t, t[k]) ELSE Data(s)
  BY <1>3, <1>4, NothingPut
<1>6. /\ IsSection(t[k]) /\ t[k].name = "section" /\ t[k].args[1].name = name /\ t[k].args[2].number = address
      /\ \A s : (Tells(t[k], s, Making) <=> s = name) /\ ~ Tells(t[k], s, {"secinfo"})
  BY <1>1, <1>2 DEF IsSection, Tells, Making
<1>7. QED
  BY <1>2, <1>3, <1>4, <1>5, <1>6 DEF Fills

\* A .secinfo directive.
LEMMA SecinfoFills ==
  ASSUME OutInv, NEW t, NEW k, Here = t[k], A!BytesOf(t, t[k]) = <<>>, EmitSecinfo
  PROVE  Fills(t, k)
<1>1. out_section' = out_section /\ Here.kind = "directive" /\ Here.name = "secinfo" /\ Here.args # <<>>
  BY DEF EmitSecinfo, EmitDirective, Emitting, Step
<1>2. PICK name, old, told, new :
        /\ name = Here.args[1].name /\ told = ToldFlags(Here)
        /\ old = IF name \in DOMAIN out_sections THEN out_sections[name] ELSE Section("", 0)
        /\ new = [old EXCEPT !.flags = told]
        /\ out_sections' = Assign(out_sections, name, new)
  BY DEF EmitSecinfo, ToldFlags
<1>3. /\ DOMAIN out_sections' = DOMAIN out_sections \union {name} /\ out_sections'[name] = new
      /\ \A s \in DOMAIN out_sections : s # name => out_sections'[s] = out_sections[s]
  BY <1>2 DEF Assign
<1>4. name \in DOMAIN out_sections =>
        /\ new.name = out_sections[name].name /\ new.addr = out_sections[name].addr
        /\ new.data = out_sections[name].data /\ new.flags = told
  <2>1. name \in DOMAIN out_sections => old \in SectionType /\ old = out_sections[name]
    BY <1>2 DEF OutInv
  <2>2. QED
    BY <1>2, <2>1 DEF SectionType
<1>5. name \notin DOMAIN out_sections => new.name = "" /\ new.addr = 0 /\ new.data = <<>> /\ new.flags = told
  BY <1>2 DEF Section
<1>6. \A s : Data(s)' = IF s = out_section THEN Data(s) \o A!BytesOf(t, t[k]) ELSE Data(s)
  BY <1>3, <1>4, <1>5, NothingPut
<1>7. /\ ~ IsSection(t[k]) /\ t[k].name # "section" /\ ToldFlags(t[k]) = told
      /\ \A s : (Tells(t[k], s, Making) <=> s = name) /\ (Tells(t[k], s, {"secinfo"}) <=> s = name)
  BY <1>1, <1>2 DEF IsSection, Tells, Making
<1>8. QED
  BY <1>1, <1>3, <1>4, <1>5, <1>6, <1>7 DEF Fills

\* A node that the sections are not told of.
LEMMA IdleFills ==
  ASSUME OutInv, NEW t, NEW k, A!BytesOf(t, t[k]) = <<>>, UNCHANGED <<out_section, out_sections>>,
         ~ IsSection(t[k]), \A s : ~ Tells(t[k], s, Making)
  PROVE  Fills(t, k)
<1>1. \A s : Data(s)' = IF s = out_section THEN Data(s) \o A!BytesOf(t, t[k]) ELSE Data(s)
  BY NothingPut
<1>2. \A s : ~ Tells(t[k], s, {"secinfo"})
  BY DEF Tells, Making
<1>3. QED
  BY <1>1, <1>2 DEF Fills

\* Those of an instruction.
LEMMA InstructionBytes ==
  ASSUME NEW t, NEW n, n.kind = "instruction"
  PROVE  A!BytesOf(t, n) = emit(Final(t, n))
<1>1. n.kind \in {"label", "instruction", "directive"}
  OBVIOUS
<1>2. QED
  BY <1>1, BytesAre

\* What each node does to the sections.
LEMMA EmitNodeFills ==
  ASSUME TypeInv, NEW t \in Seq(NodeType), Resolved(t), EmitNode, NEW k, k = node
  PROVE  Fills(t, k)
<1>0. OutInv
  BY DEF TypeInv
<1>1. /\ AtNode /\ Here \in NodeType /\ Here.kind = t[k].kind /\ Here.name = t[k].name
      /\ Here.kind = "directive" => Here = t[k]
      /\ Here.kind = "instruction" => Here = Final(t, t[k])
      /\ t[k].kind \in {"label", "instruction", "directive"}
  <2>1. AtNode
    BY EmitNodeFrame
  <2>2. t[node] \in NodeType
    BY <2>1, ResolvedHere
  <2>3. QED
    BY <2>1, <2>2, ResolvedHere, NodeFields
<1>2. ~ (t[k].kind = "directive" /\ t[k].name \in Making) => ~ IsSection(t[k]) /\ \A s : ~ Tells(t[k], s, Making)
  BY DEF IsSection, Tells, Making
<1>3. CASE EmitInstruction
  <2>1. Here.kind = "instruction" /\ Put(emit(Here))
    BY <1>3 DEF EmitInstruction, Emitting
  <2>2. emit(Here) = A!BytesOf(t, t[k])
    <3>1. t[k].kind = "instruction"
      BY <1>1, <2>1
    <3>2. A!BytesOf(t, t[k]) = emit(Final(t, t[k]))
      BY <3>1, InstructionBytes
    <3>3. QED
      BY <1>1, <2>1, <3>2, Zenon
  <2>3. QED
    BY <1>0, <1>1, <1>2, <2>1, <2>2, PutFills
<1>4. CASE EmitByte
  <2>1. Here.kind = "directive" /\ Here.name = "byte" /\ Put(<<ToByte(Here.args[1].number)>>)
    BY <1>4 DEF EmitByte, EmitDirective, Emitting
  <2>2. <<ToByte(Here.args[1].number)>> = A!BytesOf(t, t[k])
    BY <1>1, <2>1, BytesAre
  <2>3. QED
    BY <1>0, <1>1, <1>2, <2>1, <2>2, PutFills DEF Making
<1>5. CASE EmitWord
  <2>1. PICK b : b = <<HighByte(ToUWord(Here.args[1].number)), LowByte(Here.args[1].number)>>
    OBVIOUS
  <2>2. Here.kind = "directive" /\ Here.name = "word" /\ Put(b)
    BY <1>5, <2>1 DEF EmitWord, EmitDirective, Emitting
  <2>3. b = A!BytesOf(t, t[k])
    BY <1>1, <2>1, <2>2, BytesAre
  <2>4. QED
    BY <1>0, <1>1, <1>2, <2>2, <2>3, PutFills DEF Making
<1>6. CASE EmitBytes
  <2>1. PICK b : b = [i \in DOMAIN Here.args |-> ToByte(Here.args[i].number)]
    OBVIOUS
  <2>2. Here.kind = "directive" /\ Here.name = "bytes" /\ Put(b)
    BY <1>6, <2>1 DEF EmitBytes, EmitDirective, Emitting
  <2>3. b = A!BytesOf(t, t[k])
    BY <1>1, <2>1, <2>2, BytesAre
  <2>4. QED
    BY <1>0, <1>1, <1>2, <2>2, <2>3, PutFills DEF Making
<1>7. (t[k].kind = "directive" /\ t[k].name \notin {"byte", "word", "bytes"}) \/ t[k].kind = "label" => A!BytesOf(t, t[k]) = <<>>
  BY <1>1, BytesAre
<1>8. CASE EmitSection
  <2>1. Here.kind = "directive" /\ Here.name = "section"
    BY <1>8 DEF EmitSection, EmitDirective, Emitting
  <2>2. QED
    BY <1>0, <1>1, <1>7, <1>8, <2>1, SectionFills
<1>9. CASE EmitSecinfo
  <2>1. Here.kind = "directive" /\ Here.name = "secinfo"
    BY <1>9 DEF EmitSecinfo, EmitDirective, Emitting
  <2>2. QED
    BY <1>0, <1>1, <1>7, <1>9, <2>1, SecinfoFills
<1>10. CASE EmitEntrypoint \/ EmitGlobal \/ EmitWeak \/ EmitExtern
  <2>1. /\ Here.kind = "directive" /\ Here.name \in {"entrypoint", "global", "weak", "extern"}
        /\ UNCHANGED <<out_section, out_sections>>
    BY <1>10 DEF EmitEntrypoint, EmitGlobal, EmitWeak, EmitExtern, EmitExport, Export, EmitDirective, Emitting
  <2>2. t[k].kind = "directive" /\ t[k].name \notin {"byte", "word", "bytes"} \union Making
    BY <1>1, <2>1 DEF Making
  <2>3. QED
    BY <1>0, <1>2, <1>7, <2>1, <2>2, IdleFills
<1>11. CASE EmitNothing
  <2>1. UNCHANGED <<out_section, out_sections>>
    BY <1>11 DEF EmitNothing
  <2>2. t[k].kind = "label" \/ (t[k].kind = "directive" /\ t[k].name \notin {"byte", "word", "bytes"} \union Making)
    BY <1>1, <1>11 DEF EmitNothing, Emitting, Known, Making
  <2>3. QED
    BY <1>0, <1>2, <1>7, <2>1, <2>2, IdleFills
<1>12. QED
  BY <1>3, <1>4, <1>5, <1>6, <1>8, <1>9, <1>10, <1>11 DEF EmitNode

-----------------------------------------------------------------------------
(* The symbols and the entry. *)

\* The section of the symbol that node i makes.
SymbolSection(t, l, i) == IF t[i].name = "extern" THEN A!SectionAt(t, i) ELSE A!LabelSection(t, l)

\* The symbol is as node i has made it.
MadeBy(symbol, t, l, i) ==
  /\ symbol.address = IF t[i].name = "extern" THEN 0 ELSE A!Address(t, l)
  /\ symbol.section = A!Title(t, SymbolSection(t, l, i))
  /\ symbol.flags = A!FlagsAt(t, SymbolSection(t, l, i), i)

\* The symbols in front of node k.
SymbolsTo(t, k) ==
  /\ \A l : l \in DOMAIN exported_symbols <=> Says(t, l, Exporting, k)
  /\ \A l : \A i \in 1 .. k - 1 : FirstSays(t, l, Exporting, i) =>
       /\ MadeBy(exported_symbols[l], t, l, i) /\ exported_symbols[l].type # "static"
       /\ exported_symbols[l].type = "weak"
            <=> (t[i].name = "weak" /\ \A j \in i + 1 .. k - 1 : ~ Tells(t[j], l, Exporting))

\* What node k does to the symbols.
Registers(t, k) ==
  /\ \A l : l \in DOMAIN exported_symbols' <=> l \in DOMAIN exported_symbols \/ Tells(t[k], l, Exporting)
  /\ \A l \in DOMAIN exported_symbols :
       /\ exported_symbols'[l].address = exported_symbols[l].address
       /\ exported_symbols'[l].section = exported_symbols[l].section
       /\ exported_symbols'[l].flags = exported_symbols[l].flags
       /\ IF Tells(t[k], l, Exporting) THEN exported_symbols'[l].type \in {"global", "extern"}
          ELSE exported_symbols'[l].type = exported_symbols[l].type
  /\ \A l \in DOMAIN exported_symbols' : l \notin DOMAIN exported_symbols =>
       MadeBy(exported_symbols'[l], t, l, k) /\ exported_symbols'[l].type = t[k].name

\* One more node has been emitted.
LEMMA RegistersOn ==
  ASSUME NEW t, NEW k \in Nat, k >= 1, SymbolsTo(t, k), Registers(t, k), NEW m, m = k + 1
  PROVE  SymbolsTo(t, m)'
<1>1. \A l : l \in DOMAIN exported_symbols' <=> Says(t, l, Exporting, m)
  <2>1. \A l : Says(t, l, Exporting, m) <=> Says(t, l, Exporting, k) \/ Tells(t[k], l, Exporting)
    BY SaysNext
  <2>2. QED
    BY <2>1 DEF SymbolsTo, Registers
<1>2. ASSUME NEW l, NEW i \in 1 .. m - 1, FirstSays(t, l, Exporting, i)
      PROVE  /\ MadeBy(exported_symbols'[l], t, l, i) /\ exported_symbols'[l].type # "static"
             /\ exported_symbols'[l].type = "weak"
                  <=> (t[i].name = "weak" /\ \A j \in i + 1 .. m - 1 : ~ Tells(t[j], l, Exporting))
  <2>1. CASE i \in 1 .. k - 1
    <3>1. Tells(t[i], l, Exporting)
      BY <1>2 DEF FirstSays
    <3>2. l \in DOMAIN exported_symbols
      BY <2>1, <3>1 DEF Says, SymbolsTo
    <3>3. /\ MadeBy(exported_symbols[l], t, l, i) /\ exported_symbols[l].type # "static"
          /\ exported_symbols[l].type = "weak"
               <=> (t[i].name = "weak" /\ \A j \in i + 1 .. k - 1 : ~ Tells(t[j], l, Exporting))
      BY <1>2, <2>1 DEF SymbolsTo
    <3>4. /\ exported_symbols'[l].address = exported_symbols[l].address
          /\ exported_symbols'[l].section = exported_symbols[l].section
          /\ exported_symbols'[l].flags = exported_symbols[l].flags
          /\ IF Tells(t[k], l, Exporting) THEN exported_symbols'[l].type \in {"global", "extern"}
             ELSE exported_symbols'[l].type = exported_symbols[l].type
      BY <3>2, Zenon DEF Registers
    <3>5. MadeBy(exported_symbols'[l], t, l, i)
      BY <3>3, <3>4, Zenon DEF MadeBy
    <3>6. (\A j \in i + 1 .. m - 1 : ~ Tells(t[j], l, Exporting))
            <=> (\A j \in i + 1 .. k - 1 : ~ Tells(t[j], l, Exporting)) /\ ~ Tells(t[k], l, Exporting)
      <4>1. /\ \A j \in i + 1 .. m - 1 : j \in i + 1 .. k - 1 \/ j = k
            /\ k \in i + 1 .. m - 1
            /\ \A j \in i + 1 .. k - 1 : j \in i + 1 .. m - 1
        BY <2>1
      <4>2. QED
        BY <4>1, Zenon
    <3>7. QED
      BY <3>3, <3>4, <3>5, <3>6
  <2>2. CASE i = k
    <3>1. Tells(t[k], l, Exporting) /\ l \notin DOMAIN exported_symbols
      BY <1>2, <2>2 DEF FirstSays, SymbolsTo
    <3>2. l \in DOMAIN exported_symbols'
      BY <3>1 DEF Registers
    <3>3. MadeBy(exported_symbols'[l], t, l, k) /\ exported_symbols'[l].type = t[k].name
      BY <3>1, <3>2 DEF Registers
    <3>4. t[k].name \in Exporting
      BY <3>1 DEF Tells
    <3>5. \A j \in i + 1 .. m - 1 : FALSE
      BY <2>2
    <3>6. exported_symbols'[l].type # "static"
      BY <3>3, <3>4 DEF Exporting
    <3>7. QED
      BY <2>2, <3>3, <3>5, <3>6
  <2>3. QED
    BY <2>1, <2>2
<1>3. QED
  BY <1>1, <1>2 DEF SymbolsTo

\* A directive that names a symbol.
LEMMA ExportRegisters ==
  ASSUME exported_symbols \in [DOMAIN exported_symbols -> SymbolType], NEW t, NEW k,
         t[k].kind = "directive", t[k].name \in Exporting, t[k].args # <<>>, NEW name, name = t[k].args[1].name,
         NEW again \in {"global", "extern"}, NEW symbol,
         Export(name, again, symbol),
         name \notin DOMAIN exported_symbols => MadeBy(symbol, t, name, k) /\ symbol.type = t[k].name
  PROVE  Registers(t, k)
<1>1. \A l : Tells(t[k], l, Exporting) <=> l = name
  BY DEF Tells
<1>2. CASE name \in DOMAIN exported_symbols
  <2>1. PICK old \in SymbolType : old = exported_symbols[name]
    BY <1>2
  <2>2. PICK new : new = [old EXCEPT !.type = again]
    OBVIOUS
  <2>3. new.address = old.address /\ new.section = old.section /\ new.flags = old.flags /\ new.type = again
    BY <2>2 DEF SymbolType
  <2>4. exported_symbols' = [exported_symbols EXCEPT ![name] = new]
    BY <1>2, <2>1, <2>2 DEF Export
  <2>5. /\ DOMAIN exported_symbols' = DOMAIN exported_symbols
        /\ exported_symbols'[name] = new
        /\ \A l \in DOMAIN exported_symbols : l # name => exported_symbols'[l] = exported_symbols[l]
    BY <1>2, <2>4
  <2>6. QED
    BY <1>1, <1>2, <2>1, <2>3, <2>5 DEF Registers
<1>3. CASE name \notin DOMAIN exported_symbols
  <2>1. exported_symbols' = Assign(exported_symbols, name, symbol)
    BY <1>3 DEF Export
  <2>2. /\ DOMAIN exported_symbols' = DOMAIN exported_symbols \union {name}
        /\ exported_symbols'[name] = symbol
        /\ \A l \in DOMAIN exported_symbols : exported_symbols'[l] = exported_symbols[l]
    BY <1>3, <2>1 DEF Assign
  <2>3. QED
    BY <1>1, <1>3, <2>2 DEF Registers
<1>4. QED
  BY <1>2, <1>3

\* A node that names no symbol.
LEMMA IdleRegisters ==
  ASSUME NEW t, NEW k, \A l : ~ Tells(t[k], l, Exporting), UNCHANGED exported_symbols
  PROVE  Registers(t, k)
BY DEF Registers

\* The symbol for a section that is there.
LEMMA SymbolFields ==
  ASSUME NEW section, NEW type, NEW address
  PROVE  /\ Symbol(section, type, address).section = section.name
         /\ Symbol(section, type, address).flags = section.flags
         /\ Symbol(section, type, address).type = type /\ Symbol(section, type, address).address = address
BY DEF Symbol

\* A .global or .weak directive.
LEMMA EmitExportRegisters ==
  ASSUME exported_symbols \in [DOMAIN exported_symbols -> SymbolType], NEW t, Placed(t), NEW k, SectionsTo(t, k),
         Here = t[k], NEW directive \in {"global", "weak"}, EmitExport(directive, directive)
  PROVE  Registers(t, k)
<1>1. PICK name, address, section, symbol :
        /\ name = Here.args[1].name /\ address = positions[name].address
        /\ section = out_sections[positions[name].section] /\ symbol = Symbol(section, directive, address)
  OBVIOUS
<1>2. /\ t[k].kind = "directive" /\ t[k].name = directive /\ t[k].args # <<>>
      /\ name \in DOMAIN positions /\ (name \in DOMAIN exported_symbols \/ Exportable(name))
      /\ Export(name, "global", symbol)
  BY <1>1 DEF EmitExport, EmitDirective, Emitting, SymbolNamed
<1>3. ASSUME name \notin DOMAIN exported_symbols
      PROVE  MadeBy(symbol, t, name, k) /\ symbol.type = t[k].name
  <2>1. PICK s : s = positions[name].section
    OBVIOUS
  <2>2. s \in DOMAIN out_sections /\ s = A!LabelSection(t, name) /\ positions[name].address = A!Address(t, name)
    <3>1. name \in A!Labels(t)
      BY <1>2 DEF Placed
    <3>2. QED
      BY <1>2, <1>3, <2>1, <3>1, PlacedFields DEF Exportable
  <2>3. symbol.section = section.name /\ symbol.flags = section.flags /\ symbol.type = directive /\ symbol.address = address
    <3>1. \A x, y : /\ Symbol(x, directive, y).section = x.name /\ Symbol(x, directive, y).flags = x.flags
                   /\ Symbol(x, directive, y).type = directive /\ Symbol(x, directive, y).address = y
      BY SymbolFields
    <3>2. symbol = Symbol(section, directive, address)
      BY <1>1
    <3>3. symbol.section = section.name
      BY <3>1, <3>2
    <3>4. symbol.flags = section.flags
      BY <3>1, <3>2
    <3>5. symbol.type = directive
      BY <3>1, <3>2
    <3>6. symbol.address = address
      BY <3>1, <3>2
    <3>7. QED
      BY <3>3, <3>4, <3>5, <3>6
  <2>4. section.name = A!Title(t, s) /\ section.flags = A!FlagsAt(t, s, k)
    BY <1>1, <2>1, <2>2 DEF SectionsTo
  <2>5. SymbolSection(t, name, k) = s /\ t[k].name # "extern"
    BY <1>2, <2>2 DEF SymbolSection
  <2>6. address = A!Address(t, name)
    BY <1>1, <2>2
  <2>7. QED
    BY <1>2, <2>3, <2>4, <2>5, <2>6 DEF MadeBy
<1>4. t[k].name \in Exporting /\ name = t[k].args[1].name
  BY <1>1, <1>2 DEF Exporting
<1>5. QED
  BY <1>2, <1>3, <1>4, ExportRegisters

\* An .extern directive.
LEMMA EmitExternRegisters ==
  ASSUME exported_symbols \in [DOMAIN exported_symbols -> SymbolType], NEW t, NEW k, SectionsTo(t, k),
         Here = t[k], EmitExtern
  PROVE  Registers(t, k)
<1>1. PICK name, zero, symbol :
        name = Here.args[1].name /\ zero = 0 /\ symbol = Symbol(out_sections[out_section], "extern", zero)
  OBVIOUS
<1>2. /\ t[k].kind = "directive" /\ t[k].name = "extern" /\ t[k].args # <<>>
      /\ (name \in DOMAIN exported_symbols \/ InSection)
      /\ Export(name, "extern", symbol)
  BY <1>1 DEF EmitExtern, EmitDirective, Emitting, SymbolNamed
<1>3. ASSUME name \notin DOMAIN exported_symbols
      PROVE  MadeBy(symbol, t, name, k) /\ symbol.type = t[k].name
  <2>1. PICK s : s = out_section
    OBVIOUS
  <2>2. s \in DOMAIN out_sections /\ s = A!SectionAt(t, k)
    BY <1>2, <1>3, <2>1 DEF InSection, SectionsTo
  <2>3. /\ symbol.section = out_sections[s].name /\ symbol.flags = out_sections[s].flags
        /\ symbol.type = "extern" /\ symbol.address = zero
    BY <1>1, <2>1, SymbolFields
  <2>4. out_sections[s].name = A!Title(t, s) /\ out_sections[s].flags = A!FlagsAt(t, s, k)
    BY <2>2 DEF SectionsTo
  <2>5. SymbolSection(t, name, k) = s
    BY <1>2, <2>2 DEF SymbolSection
  <2>6. symbol.address = 0 /\ symbol.section = A!Title(t, s) /\ symbol.flags = A!FlagsAt(t, s, k)
    BY <1>1, <2>3, <2>4, Zenon
  <2>7. QED
    BY <1>2, <2>3, <2>5, <2>6, Zenon DEF MadeBy
<1>4. t[k].name \in Exporting /\ name = t[k].args[1].name
  BY <1>1, <1>2 DEF Exporting
<1>5. QED
  BY <1>2, <1>3, <1>4, ExportRegisters

\* What each node does to the symbols.
LEMMA EmitNodeRegisters ==
  ASSUME TypeInv, exported_symbols \in [DOMAIN exported_symbols -> SymbolType], NEW t \in Seq(NodeType),
         Resolved(t), Placed(t), NEW k, k = node, SectionsTo(t, k), EmitNode
  PROVE  Registers(t, k)
<1>1. AtNode /\ Here.kind = t[k].kind /\ Here.name = t[k].name /\ (Here.kind = "directive" => Here = t[k])
  <2>1. AtNode
    BY EmitNodeFrame
  <2>2. QED
    BY <2>1, ResolvedHere
<1>2. CASE EmitGlobal
  <2>1. Here = t[k] /\ EmitExport("global", "global")
    BY <1>1, <1>2 DEF EmitGlobal, EmitExport, EmitDirective, Emitting
  <2>2. QED
    BY <2>1, EmitExportRegisters
<1>3. CASE EmitWeak
  <2>1. Here = t[k] /\ EmitExport("weak", "weak")
    BY <1>1, <1>3 DEF EmitWeak, EmitExport, EmitDirective, Emitting
  <2>2. QED
    BY <2>1, EmitExportRegisters
<1>4. CASE EmitExtern
  <2>1. Here = t[k]
    BY <1>1, <1>4 DEF EmitExtern, EmitDirective, Emitting
  <2>2. QED
    BY <1>4, <2>1, EmitExternRegisters
<1>5. CASE EmitInstruction \/ EmitByte \/ EmitWord \/ EmitBytes \/ EmitEntrypoint \/ EmitSection \/ EmitSecinfo \/ EmitNothing
  <2>1. UNCHANGED exported_symbols /\ (Here.kind = "directive" => Here.name \notin Exporting)
    BY <1>5 DEF EmitInstruction, EmitByte, EmitWord, EmitBytes, EmitEntrypoint, EmitSection, EmitSecinfo, EmitNothing,
                EmitDirective, Emitting, Put, Known, Exporting
  <2>2. \A l : ~ Tells(t[k], l, Exporting)
    BY <1>1, <2>1 DEF Tells
  <2>3. QED
    BY <2>1, <2>2, IdleRegisters
<1>6. QED
  BY <1>2, <1>3, <1>4, <1>5 DEF EmitNode

IsEntry(n) == n.kind = "directive" /\ n.name = "entrypoint"

\* The last .entrypoint in front of node k counts.
EntryTo(t, k) ==
  /\ (\A i \in 1 .. k - 1 : ~ IsEntry(t[i])) => entry = 0
  /\ \A i \in 1 .. k - 1 : IsEntry(t[i]) /\ (\A j \in i + 1 .. k - 1 : ~ IsEntry(t[j])) => entry = t[i].args[1].number

\* One more node has been emitted.
LEMMA EntryOn ==
  ASSUME NEW t, NEW k \in Nat, k >= 1, EntryTo(t, k), NEW m, m = k + 1,
         entry' = IF IsEntry(t[k]) THEN t[k].args[1].number ELSE entry
  PROVE  EntryTo(t, m)'
<1>1. /\ \A i \in 1 .. m - 1 : i \in 1 .. k - 1 \/ i = k
      /\ k \in 1 .. m - 1
      /\ \A i \in 1 .. k - 1 : i \in 1 .. m - 1 /\ k \in i + 1 .. m - 1
      /\ \A i : \A j \in i + 1 .. k - 1 : i \in 1 .. k - 1 => j \in i + 1 .. m - 1
  OBVIOUS
<1>2. ASSUME \A i \in 1 .. m - 1 : ~ IsEntry(t[i]) PROVE entry' = 0
  BY <1>1, <1>2 DEF EntryTo
<1>3. ASSUME NEW i \in 1 .. m - 1, IsEntry(t[i]), \A j \in i + 1 .. m - 1 : ~ IsEntry(t[j])
      PROVE  entry' = t[i].args[1].number
  <2>1. CASE i = k
    BY <1>3, <2>1
  <2>2. CASE i \in 1 .. k - 1
    <3>1. ~ IsEntry(t[k]) /\ \A j \in i + 1 .. k - 1 : ~ IsEntry(t[j])
      BY <1>1, <1>3, <2>2
    <3>2. QED
      BY <1>3, <2>2, <3>1 DEF EntryTo
  <2>3. QED
    BY <1>1, <2>1, <2>2
<1>4. QED
  BY <1>2, <1>3 DEF EntryTo

\* At the end it is the entry of the program.
LEMMA EntryIs ==
  ASSUME NEW t \in Seq(NodeType), EntryTo(t, Len(t) + 1)
  PROVE  entry = A!EntryOf(t)
<1>1. PICK n \in Nat : n = Len(t) /\ DOMAIN t = 1 .. n
  OBVIOUS
<1>2. PICK told : told = {k \in DOMAIN t : A!IsDirective(t[k], {"entrypoint"})}
  OBVIOUS
<1>3. told \in SUBSET (1 .. n) /\ \A i : i \in told <=> i \in 1 .. n /\ IsEntry(t[i])
  BY <1>1, <1>2 DEF A!IsDirective, IsEntry
<1>4. A!EntryOf(t) = IF told = {} THEN 0 ELSE t[A!Max(told)].args[1].number
  BY <1>2, Zenon DEF A!EntryOf
<1>5. \A i : i \in 1 .. (n + 1) - 1 <=> i \in 1 .. n
  OBVIOUS
<1>6. CASE told = {}
  BY <1>1, <1>3, <1>4, <1>5, <1>6 DEF EntryTo
<1>7. CASE told # {}
  <2>1. PICK x \in told : \A y \in told : y <= x
    BY <1>1, <1>3, <1>7, SomeLast
  <2>2. A!Max(told) = x
    <3>1. told \in SUBSET Int
      BY <1>3
    <3>2. QED
      BY <2>1, <3>1, MaxIs
  <2>3. x \in 1 .. n /\ IsEntry(t[x]) /\ \A j \in x + 1 .. n : ~ IsEntry(t[j])
    BY <1>3, <2>1
  <2>4. entry = t[x].args[1].number
    <3>1. EntryTo(t, n + 1) /\ x \in 1 .. (n + 1) - 1 /\ \A j \in x + 1 .. (n + 1) - 1 : ~ IsEntry(t[j])
      BY <1>1, <1>3, <2>3
    <3>2. QED
      BY <2>3, <3>1 DEF EntryTo
  <2>5. QED
    BY <1>4, <1>7, <2>2, <2>4
<1>8. QED
  BY <1>6, <1>7

-----------------------------------------------------------------------------
(* What emit_binary() needs. *)

\* A section exists in front of a node when one of the nodes makes it.
LEMMA ExistsIs ==
  ASSUME NEW t \in Seq(NodeType), NEW k \in 1 .. Len(t) + 1, SectionsTo(t, k), NEW s
  PROVE  A!Exists(t, s, k) <=> s \in DOMAIN out_sections
<1>1. A!Before(k, A!Naming(t, s, Making)) # {} <=> Says(t, s, Making, k)
  BY BeforeIs
<1>2. A!Exists(t, s, k) <=> Says(t, s, Making, k)
  BY <1>1 DEF A!Exists, A!Origins, Making
<1>3. QED
  BY <1>2 DEF SectionsTo

\* What the emitter wants of node n where it is.
CanEmit(n) ==
  /\ n.kind = "instruction" \/ A!IsDirective(n, {"byte", "word", "bytes"}) => InSection
  /\ A!IsDirective(n, {"byte", "word", "entrypoint"}) => A!HasNumberAt(n, 1)
  /\ A!IsDirective(n, {"bytes"}) => \A i \in DOMAIN n.args : A!Numeric(n.args[i])
  /\ A!IsDirective(n, {"section", "secinfo"} \union Exporting) => n.args # <<>>
  /\ A!IsDirective(n, {"section"}) => n.args[1].name \in DOMAIN out_sections \/ A!HasNumberAt(n, 2)
  /\ A!IsDirective(n, {"global", "weak"}) =>
       n.args[1].name \in DOMAIN positions /\ (n.args[1].name \in DOMAIN exported_symbols \/ Exportable(n.args[1].name))
  /\ A!IsDirective(n, {"extern"}) => n.args[1].name \in DOMAIN exported_symbols \/ InSection

\* That is what the program has to provide.
LEMMA EmittableIs ==
  ASSUME NEW t \in Seq(NodeType), NEW k \in 1 .. Len(t), Placed(t), SectionsTo(t, k), SymbolsTo(t, k)
  PROVE  A!Emittable(t, k) <=> CanEmit(t[k])
<1>1. PICK n, name : n = t[k] /\ name = n.args[1].name
  OBVIOUS
<1>2. k \in 1 .. Len(t) + 1
  OBVIOUS
<1>3. A!Exists(t, A!SectionAt(t, k), k) <=> InSection
  <2>1. A!Exists(t, A!SectionAt(t, k), k) <=> A!SectionAt(t, k) \in DOMAIN out_sections
    BY <1>2, ExistsIs
  <2>2. QED
    BY <2>1 DEF InSection, SectionsTo
<1>4. A!Before(k, A!Naming(t, name, A!Exports)) # {} <=> name \in DOMAIN exported_symbols
  <2>1. A!Before(k, A!Naming(t, name, Exporting)) # {} <=> Says(t, name, Exporting, k)
    BY <1>2, BeforeIs
  <2>2. A!Exports = Exporting
    BY DEF A!Exports, Exporting
  <2>3. QED
    BY <2>1, <2>2 DEF SymbolsTo
<1>5. A!Exists(t, name, k) <=> name \in DOMAIN out_sections
  BY <1>2, ExistsIs
<1>6. name \in A!Labels(t) <=> name \in DOMAIN positions
  BY DEF Placed
<1>7. name \in DOMAIN positions => (A!Exists(t, A!LabelSection(t, name), k) <=> Exportable(name))
  <2>1. A!Exists(t, A!LabelSection(t, name), k) <=> A!LabelSection(t, name) \in DOMAIN out_sections
    BY <1>2, ExistsIs
  <2>2. name \in DOMAIN positions => positions[name].section = A!LabelSection(t, name)
    BY <1>6, PlacedFields
  <2>3. QED
    BY <2>1, <2>2 DEF Exportable
<1>8. A!Exports = Exporting
  BY DEF A!Exports, Exporting
<1>9. A!Emittable(t, k) <=>
  /\ n.kind = "instruction" \/ A!IsDirective(n, {"byte", "word", "bytes"}) => InSection
  /\ A!IsDirective(n, {"byte", "word", "entrypoint"}) => A!HasNumberAt(n, 1)
  /\ A!IsDirective(n, {"bytes"}) => \A i \in DOMAIN n.args : A!Numeric(n.args[i])
  /\ A!IsDirective(n, {"section", "secinfo"} \union Exporting) => n.args # <<>>
  /\ A!IsDirective(n, {"section"}) => A!Exists(t, name, k) \/ A!HasNumberAt(n, 2)
  /\ A!IsDirective(n, {"global", "weak"}) =>
       name \in A!Labels(t) /\ (name \in DOMAIN exported_symbols \/ A!Exists(t, A!LabelSection(t, name), k))
  /\ A!IsDirective(n, {"extern"}) => name \in DOMAIN exported_symbols \/ InSection
  BY <1>1, <1>3, <1>4, <1>8, Zenon DEF A!Emittable
<1>10. QED
  BY <1>1, <1>5, <1>6, <1>7, <1>9, Zenon DEF CanEmit

\* What a directive needs, for each name.
LEMMA CanEmitDirective ==
  ASSUME NEW n, n.kind = "directive"
  PROVE  CanEmit(n) <=>
           /\ n.name \in {"byte", "word", "bytes"} => InSection
           /\ n.name \in {"byte", "word", "entrypoint"} => A!HasNumberAt(n, 1)
           /\ n.name = "bytes" => \A i \in DOMAIN n.args : Numeric(n.args[i])
           /\ n.name \in {"section", "secinfo"} \union Exporting => n.args # <<>>
           /\ n.name = "section" => n.args[1].name \in DOMAIN out_sections \/ A!HasNumberAt(n, 2)
           /\ n.name \in {"global", "weak"} =>
                n.args[1].name \in DOMAIN positions
                /\ (n.args[1].name \in DOMAIN exported_symbols \/ Exportable(n.args[1].name))
           /\ n.name = "extern" => n.args[1].name \in DOMAIN exported_symbols \/ InSection
<1>1. \A x : A!Numeric(x) <=> Numeric(x)
  BY DEF A!Numeric, Numeric
<1>2. \A names : A!IsDirective(n, names) <=> n.name \in names
  BY DEF A!IsDirective
<1>3. n.kind # "instruction"
  OBVIOUS
<1>4. \A x, y : x \in {y} <=> x = y
  OBVIOUS
<1>5. QED
  BY <1>1, <1>2, <1>3, <1>4, Zenon DEF CanEmit

\* What the others need.
LEMMA CanEmitOther ==
  ASSUME NEW n, n.kind \in {"label", "instruction"}
  PROVE  CanEmit(n) <=> (n.kind = "instruction" => InSection)
<1>1. \A names : ~ A!IsDirective(n, names)
  BY DEF A!IsDirective
<1>2. QED
  BY <1>1, Zenon DEF CanEmit

\* A node that is emitted had what it needs.
LEMMA NodeCanEmit ==
  ASSUME TypeInv, NEW t \in Seq(NodeType), Resolved(t), EmitNode, NEW k, k = node
  PROVE  CanEmit(t[k])
<1>1. AtNode
  BY EmitNodeFrame
<1>2. PICK n : n = t[k]
  OBVIOUS
<1>3. /\ n \in NodeType /\ n.kind \in {"label", "instruction", "directive"} /\ Here.kind = n.kind /\ Here.name = n.name
      /\ n.kind = "directive" => Here = n
  <2>1. k \in 1 .. Len(t)
    BY <1>1, ResolvedHere
  <2>2. n \in NodeType
    BY <1>2, <2>1
  <2>3. QED
    BY <1>1, <1>2, <2>2, ResolvedHere, NodeFields
<1>4. CASE n.kind # "directive"
  <2>1. n.kind = "instruction" => InSection
    BY <1>3, <1>4 DEF EmitNode, EmitInstruction, EmitByte, EmitWord, EmitBytes, EmitEntrypoint, EmitSection, EmitSecinfo,
       EmitGlobal, EmitWeak, EmitExtern, EmitNothing, EmitExport, EmitDirective, Emitting, Put
  <2>2. QED
    BY <1>2, <1>3, <1>4, <2>1, CanEmitOther
<1>5. CASE n.kind = "directive"
  <2>0. Here = n /\ \A i : A!HasNumberAt(n, i) <=> HasNumber(i)
    BY <1>3, <1>5, SameNumber DEF HasNumber
  <2>1. CASE EmitInstruction
    BY <1>3, <1>5, <2>1 DEF EmitInstruction, Emitting
  <2>2. CASE EmitByte
    <3>1. n.name = "byte" /\ InSection /\ HasNumber(1)
      BY <1>3, <2>2 DEF EmitByte, EmitDirective, Put
    <3>2. QED
      BY <1>2, <1>5, <2>0, <3>1, CanEmitDirective DEF Exporting
  <2>3. CASE EmitWord
    <3>1. n.name = "word" /\ InSection /\ HasNumber(1)
      BY <1>3, <2>3 DEF EmitWord, EmitDirective, Put
    <3>2. QED
      BY <1>2, <1>5, <2>0, <3>1, CanEmitDirective DEF Exporting
  <2>4. CASE EmitBytes
    <3>1. n.name = "bytes" /\ InSection /\ \A i \in DOMAIN n.args : Numeric(n.args[i])
      BY <1>3, <2>0, <2>4 DEF EmitBytes, EmitDirective, Put, HasNumber
    <3>2. QED
      BY <1>2, <1>5, <3>1, CanEmitDirective DEF Exporting
  <2>5. CASE EmitEntrypoint
    <3>1. n.name = "entrypoint" /\ HasNumber(1)
      BY <1>3, <2>5 DEF EmitEntrypoint, EmitDirective
    <3>2. QED
      BY <1>2, <1>5, <2>0, <3>1, CanEmitDirective DEF Exporting
  <2>6. CASE EmitSection
    <3>1. n.name = "section" /\ n.args # <<>> /\ (n.args[1].name \in DOMAIN out_sections \/ HasNumber(2))
      BY <1>3, <2>0, <2>6 DEF EmitSection, EmitDirective
    <3>2. QED
      BY <1>2, <1>5, <2>0, <3>1, CanEmitDirective DEF Exporting
  <2>7. CASE EmitSecinfo
    <3>1. n.name = "secinfo" /\ n.args # <<>>
      BY <1>3, <2>0, <2>7 DEF EmitSecinfo, EmitDirective
    <3>2. QED
      BY <1>2, <1>5, <3>1, CanEmitDirective DEF Exporting
  <2>8. CASE EmitGlobal \/ EmitWeak
    <3>1. /\ n.name \in {"global", "weak"} /\ n.args # <<>> /\ n.args[1].name \in DOMAIN positions
          /\ n.args[1].name \in DOMAIN exported_symbols \/ Exportable(n.args[1].name)
      BY <1>3, <2>0, <2>8 DEF EmitGlobal, EmitWeak, EmitExport, EmitDirective, SymbolNamed
    <3>2. QED
      BY <1>2, <1>5, <3>1, CanEmitDirective DEF Exporting
  <2>9. CASE EmitExtern
    <3>1. n.name = "extern" /\ n.args # <<>> /\ (n.args[1].name \in DOMAIN exported_symbols \/ InSection)
      BY <1>3, <2>0, <2>9 DEF EmitExtern, EmitDirective, SymbolNamed
    <3>2. QED
      BY <1>2, <1>5, <3>1, CanEmitDirective DEF Exporting
  <2>10. CASE EmitNothing
    <3>1. n.name \notin Known
      BY <1>3, <1>5, <2>10 DEF EmitNothing, Emitting
    <3>2. QED
      BY <1>2, <1>5, <3>1, CanEmitDirective DEF Exporting, Known
  <2>11. QED
    BY <2>1, <2>2, <2>3, <2>4, <2>5, <2>6, <2>7, <2>8, <2>9, <2>10 DEF EmitNode
<1>6. QED
  BY <1>4, <1>5

\* It throws when the node has not.
LEMMA ThrowsCannotEmit ==
  ASSUME TypeInv, NEW t \in Seq(NodeType), Resolved(t), EmitThrows, NEW k, k = node
  PROVE  ~ CanEmit(t[k])
<1>1. AtNode
  BY DEF EmitThrows
<1>2. PICK n : n = t[k]
  OBVIOUS
<1>3. /\ n \in NodeType /\ n.kind \in {"label", "instruction", "directive"} /\ Here.kind = n.kind /\ Here.name = n.name
      /\ n.kind = "directive" => Here = n
  <2>1. k \in 1 .. Len(t)
    BY <1>1, ResolvedHere
  <2>2. n \in NodeType
    BY <1>2, <2>1
  <2>3. QED
    BY <1>1, <1>2, <2>2, ResolvedHere, NodeFields
<1>4. CASE n.kind # "directive"
  <2>1. n.kind = "instruction" /\ ~ InSection
    BY <1>3, <1>4 DEF EmitThrows, EmitDirective, Emitting
  <2>2. QED
    BY <1>2, <1>3, <1>4, <2>1, CanEmitOther
<1>5. CASE n.kind = "directive"
  <2>0. Here = n /\ \A i : A!HasNumberAt(n, i) <=> HasNumber(i)
    BY <1>3, <1>5, SameNumber DEF HasNumber
  <2>1. DOMAIN n.args = 1 .. Len(n.args) /\ Len(n.args) \in Nat
    BY <1>3, <1>5, NodeFields
  <2>2. \/ n.name \in {"byte", "word", "bytes"} /\ ~ InSection
        \/ n.name \in {"byte", "word", "entrypoint"} /\ ~ HasNumber(1)
        \/ n.name = "bytes" /\ \E i \in DOMAIN n.args : ~ Numeric(n.args[i])
        \/ n.name = "section" /\ (n.args # <<>> => n.args[1].name \notin DOMAIN out_sections /\ ~ HasNumber(2))
        \/ n.name = "secinfo" /\ n.args = <<>>
        \/ n.name \in {"global", "weak"} /\
             (n.args # <<>> => \/ n.args[1].name \notin DOMAIN positions
                               \/ n.args[1].name \notin DOMAIN exported_symbols /\ ~ Exportable(n.args[1].name))
        \/ n.name = "extern" /\ (n.args # <<>> => n.args[1].name \notin DOMAIN exported_symbols /\ ~ InSection)
    <3>1. \A i \in DOMAIN n.args : HasNumber(i) <=> Numeric(n.args[i])
      BY <2>0, <2>1 DEF HasNumber
    <3>2. QED
      BY <1>3, <1>5, <2>0, <3>1 DEF EmitThrows, EmitDirective, Emitting
  <2>3. QED
    BY <1>2, <1>5, <2>0, <2>2, CanEmitDirective DEF Exporting
<1>6. QED
  BY <1>4, <1>5

-----------------------------------------------------------------------------
(* The third walk. *)

\* What has been emitted in front of node k.
EmittedTo(t, k) ==
  /\ SectionsTo(t, k) /\ SymbolsTo(t, k) /\ EntryTo(t, k)
  /\ \A i \in 1 .. k - 1 : A!Emittable(t, i)

\* Each node that is emitted.
LEMMA NodeEmitted ==
  ASSUME TypeInv, exported_symbols \in [DOMAIN exported_symbols -> SymbolType], NEW t \in Seq(NodeType),
         Resolved(t), Placed(t), EmittedTo(t, node), EmitNode
  PROVE  EmittedTo(t, node)'
<1>1. AtNode /\ node' = node + 1
  BY EmitNodeFrame
<1>2. node \in 1 .. Len(t) /\ Here.kind = t[node].kind /\ Here.name = t[node].name /\ (Here.kind = "directive" => Here = t[node])
  BY <1>1, ResolvedHere
<1>3. PICK k \in 1 .. Len(t) : k = node
  BY <1>2
<1>4. PICK m : m = k + 1
  OBVIOUS
<1>5. k \in Nat /\ k >= 1 /\ node' = m
  BY <1>1, <1>3, <1>4
<1>6. EmittedTo(t, k) /\ OutInv
  BY <1>3 DEF TypeInv
<1>7. SectionsTo(t, m)'
  <2>1. Fills(t, k)
    BY <1>3, EmitNodeFills
  <2>2. SectionsTo(t, k)
    BY <1>6 DEF EmittedTo
  <2>3. QED
    BY <1>4, <1>6, <2>1, <2>2, FillsOn
<1>8. SymbolsTo(t, m)'
  <2>1. SectionsTo(t, k) /\ SymbolsTo(t, k)
    BY <1>6 DEF EmittedTo
  <2>2. Registers(t, k)
    BY <1>3, <2>1, EmitNodeRegisters
  <2>3. QED
    BY <1>4, <1>5, <2>1, <2>2, RegistersOn
<1>9. EntryTo(t, m)'
  <2>1. entry' = IF IsEntry(t[k]) THEN t[k].args[1].number ELSE entry
    <3>1. entry' = IF IsEntry(Here) THEN Here.args[1].number ELSE entry
      BY DEF EmitNode, EmitInstruction, EmitByte, EmitWord, EmitBytes, EmitEntrypoint, EmitSection, EmitSecinfo,
         EmitGlobal, EmitWeak, EmitExtern, EmitNothing, EmitExport, EmitDirective, Emitting, Put, Export, Known, IsEntry
    <3>2. QED
      BY <1>2, <1>3, <3>1 DEF IsEntry
  <2>2. EntryTo(t, k)
    BY <1>6 DEF EmittedTo
  <2>3. QED
    BY <1>4, <1>5, <2>1, <2>2, EntryOn
<1>10. A!Emittable(t, k)
  <2>1. CanEmit(t[k])
    BY <1>3, NodeCanEmit
  <2>2. QED
    BY <1>6, <2>1, EmittableIs DEF EmittedTo
<1>11. \A i \in 1 .. m - 1 : A!Emittable(t, i)
  <2>1. \A i \in 1 .. m - 1 : i \in 1 .. k - 1 \/ i = k
    BY <1>4, <1>5
  <2>2. QED
    BY <1>6, <1>10, <2>1, Zenon DEF EmittedTo
<1>12. EmittedTo(t, m)'
  BY <1>7, <1>8, <1>9, <1>11 DEF EmittedTo
<1>13. QED
  BY <1>5, <1>12 DEF EmittedTo, SectionsTo, SymbolsTo, EntryTo, Says, Data

\* A program for which the emitter throws has no file.
LEMMA NotEmitted ==
  ASSUME TypeInv, NEW t \in Seq(NodeType), Resolved(t), Placed(t), EmittedTo(t, node), EmitThrows
  PROVE  ~ A!Emits(t)
<1>1. AtNode
  BY DEF EmitThrows
<1>2. PICK k \in 1 .. Len(t) : k = node
  BY <1>1, ResolvedHere
<1>3. ~ CanEmit(t[k])
  BY <1>2, ThrowsCannotEmit
<1>4. ~ A!Emittable(t, k)
  <2>1. SectionsTo(t, k) /\ SymbolsTo(t, k)
    BY <1>2 DEF EmittedTo
  <2>2. QED
    BY <1>3, <2>1, EmittableIs
<1>5. QED
  BY <1>4 DEF A!Emits

-----------------------------------------------------------------------------
(* The symbol table of the program. *)

\* The symbol that a directive makes.
LEMMA SymbolOfMade ==
  ASSUME NEW t \in Seq(NodeType), NEW l, NEW i \in 1 .. Len(t), FirstSays(t, l, Exporting, i),
         NEW section, section = SymbolSection(t, l, i)
  PROVE  /\ A!SymbolOf(t, l).value = IF t[i].name = "extern" THEN 0 ELSE A!Address(t, l)
         /\ A!SymbolOf(t, l).bind = IF t[i].name = "weak" /\ \A j \in i + 1 .. Len(t) : ~ Tells(t[j], l, Exporting)
                                    THEN "weak" ELSE "global"
         /\ A!SymbolOf(t, l).type = IF "execute" \in A!FlagsAt(t, section, i) THEN "func" ELSE "object"
         /\ A!SymbolOf(t, l).visibility = "default"
         /\ A!SymbolOf(t, l).section = A!Title(t, section)
<1>1. PICK n \in Nat : n = Len(t)
  OBVIOUS
<1>2. PICK told : told = A!Naming(t, l, Exporting)
  OBVIOUS
<1>3. told \in SUBSET (1 .. n) /\ \A j : j \in told <=> j \in 1 .. n /\ Tells(t[j], l, Exporting)
  BY <1>1, <1>2, NamingIs
<1>4. A!Min(told) = i
  BY <1>2, FirstIs
<1>5. i \in told /\ told # {} /\ \A j \in told : ~ (j < i)
  <2>1. Tells(t[i], l, Exporting) /\ \A j \in 1 .. i - 1 : ~ Tells(t[j], l, Exporting)
    BY DEF FirstSays, Says
  <2>2. \A j \in 1 .. n : j < i => j \in 1 .. i - 1
    OBVIOUS
  <2>3. QED
    BY <1>1, <1>3, <2>1, <2>2
<1>6. (Cardinality(told) = 1) <=> \A j \in i + 1 .. n : ~ Tells(t[j], l, Exporting)
  <2>1. IsFiniteSet(told)
    <3>1. IsFiniteSet(1 .. n)
      BY FS_Interval
    <3>2. QED
      BY <1>3, <3>1, FS_Subset
  <2>2. (Cardinality(told) = 1) <=> \E x : told = {x}
    BY <2>1, FS_Singleton
  <2>3. (\E x : told = {x}) <=> \A j \in told : j = i
    <3>1. (\E x : told = {x}) => \A j \in told : j = i
      BY <1>5
    <3>2. (\A j \in told : j = i) => told = {i}
      BY <1>5
    <3>3. QED
      BY <3>1, <3>2
  <2>4. PICK first \in 1 .. n : first = i
    BY <1>1
  <2>5. /\ \A j \in 1 .. n : j \in first + 1 .. n \/ j = first \/ j < first
        /\ \A j \in first + 1 .. n : j \in 1 .. n /\ j # first
    OBVIOUS
  <2>6. (\A j \in told : j = i) <=> \A j \in i + 1 .. n : j \notin told
    <3>1. \A j \in told : j \in first + 1 .. n \/ j = first
      BY <1>3, <1>5, <2>4, <2>5
    <3>2. QED
      BY <2>4, <2>5, <3>1, Zenon
  <2>7. \A j \in i + 1 .. n : j \in told <=> Tells(t[j], l, Exporting)
    BY <1>3, <2>4, <2>5
  <2>8. QED
    BY <2>2, <2>3, <2>6, <2>7
<1>7. A!Exports = Exporting /\ \A S : A!Cardinality(S) = Cardinality(S)
  BY DEF A!Exports, Exporting, A!Cardinality, Cardinality
<1>8. PICK weak, flags, value :
        /\ weak = (Cardinality(told) = 1 /\ t[i].name = "weak")
        /\ flags = A!FlagsAt(t, section, i)
        /\ value = IF t[i].name = "extern" THEN 0 ELSE A!Address(t, l)
  OBVIOUS
<1>9. A!SymbolOf(t, l) = [value |-> value, bind |-> IF weak THEN "weak" ELSE "global",
                          type |-> IF "execute" \in flags THEN "func" ELSE "object",
                          visibility |-> "default", section |-> A!Title(t, section)]
  BY <1>2, <1>4, <1>5, <1>7, <1>8, Zenon DEF A!SymbolOf, SymbolSection
<1>10. weak <=> t[i].name = "weak" /\ \A j \in i + 1 .. Len(t) : ~ Tells(t[j], l, Exporting)
  BY <1>1, <1>6, <1>8
<1>11. QED
  BY <1>8, <1>9, <1>10

\* The symbol of a label that no directive names.
LEMMA SymbolOfLabel ==
  ASSUME NEW t \in Seq(NodeType), NEW l, ~ Says(t, l, Exporting, Len(t) + 1), NEW section, section = A!LabelSection(t, l)
  PROVE  /\ A!SymbolOf(t, l).value = A!Address(t, l)
         /\ A!SymbolOf(t, l).bind = "global"
         /\ A!SymbolOf(t, l).type = IF "execute" \in A!FlagsAt(t, section, Len(t) + 1) THEN "func" ELSE "object"
         /\ A!SymbolOf(t, l).visibility = "hidden"
         /\ A!SymbolOf(t, l).section = A!Title(t, section)
<1>1. PICK n \in Nat : n = Len(t)
  OBVIOUS
<1>2. PICK told : told = A!Naming(t, l, Exporting)
  OBVIOUS
<1>3. told = {}
  <2>1. told \in SUBSET (1 .. n) /\ \A j : j \in told <=> j \in 1 .. n /\ Tells(t[j], l, Exporting)
    BY <1>1, <1>2, NamingIs
  <2>2. \A j \in 1 .. n : j \in 1 .. (n + 1) - 1
    OBVIOUS
  <2>3. QED
    BY <1>1, <2>1, <2>2 DEF Says
<1>4. Cardinality(told) # 1
  BY <1>3, FS_EmptySet
<1>5. A!Exports = Exporting /\ \A S : A!Cardinality(S) = Cardinality(S)
  BY DEF A!Exports, Exporting, A!Cardinality, Cardinality
<1>6. PICK flags, address : flags = A!FlagsAt(t, section, Len(t) + 1) /\ address = A!Address(t, l)
  OBVIOUS
<1>7. A!SymbolOf(t, l) = [value |-> address, bind |-> "global",
                          type |-> IF "execute" \in flags THEN "func" ELSE "object",
                          visibility |-> "hidden", section |-> A!Title(t, section)]
  BY <1>2, <1>3, <1>4, <1>5, <1>6, Zenon DEF A!SymbolOf
<1>8. QED
  BY <1>6, <1>7

\* What is named by directives that all name something.
LEMMA NamedIs ==
  ASSUME NEW t \in Seq(NodeType), NEW D, \A k \in 1 .. Len(t) : A!IsDirective(t[k], D) => t[k].args # <<>>, NEW l
  PROVE  l \in A!Named(t, D) <=> Says(t, l, D, Len(t) + 1)
<1>1. PICK n \in Nat : n = Len(t) /\ DOMAIN t = 1 .. n
  OBVIOUS
<1>2. l \in A!Named(t, D) <=> \E k \in 1 .. n : A!IsDirective(t[k], D) /\ l = t[k].args[1].name
  BY <1>1 DEF A!Named
<1>3. \A k \in 1 .. n : Tells(t[k], l, D) <=> A!IsDirective(t[k], D) /\ l = t[k].args[1].name
  BY <1>1 DEF Tells, A!IsDirective
<1>4. \A k : k \in 1 .. (n + 1) - 1 <=> k \in 1 .. n
  OBVIOUS
<1>5. QED
  BY <1>1, <1>2, <1>3, <1>4 DEF Says

\* The directives that name a section or a symbol have an argument.
LEMMA NamesGiven ==
  ASSUME NEW t \in Seq(NodeType), \A k \in 1 .. Len(t) : A!Emittable(t, k)
  PROVE  /\ \A k \in 1 .. Len(t) : A!IsDirective(t[k], Making) => t[k].args # <<>>
         /\ \A k \in 1 .. Len(t) : A!IsDirective(t[k], Exporting) => t[k].args # <<>>
<1>1. SUFFICES ASSUME NEW k \in 1 .. Len(t), A!IsDirective(t[k], Making) \/ A!IsDirective(t[k], Exporting)
               PROVE  t[k].args # <<>>
  OBVIOUS
<1>2. A!IsDirective(t[k], {"section", "secinfo"} \union A!Exports)
  BY <1>1 DEF A!IsDirective, Making, Exporting, A!Exports
<1>3. A!Emittable(t, k)
  OBVIOUS
<1>4. QED
  BY <1>2, <1>3, Zenon DEF A!Emittable

\* The symbols are those of the program.
SymbolsDone(t) ==
  /\ \A l : l \in DOMAIN exported_symbols <=> l \in A!Symbols(t)
  /\ \A l \in DOMAIN exported_symbols : ElfSymbol(exported_symbols[l]) = A!SymbolOf(t, l)

\* The parts of a symbol as create_elf_symtab() writes it.
LEMMA SameSymbol ==
  ASSUME NEW symbol, NEW t, NEW l,
         symbol.address = A!SymbolOf(t, l).value,
         A!SymbolOf(t, l).bind = IF symbol.type = "weak" THEN "weak" ELSE "global",
         A!SymbolOf(t, l).type = IF "execute" \in symbol.flags THEN "func" ELSE "object",
         A!SymbolOf(t, l).visibility = IF symbol.type = "static" THEN "hidden" ELSE "default",
         A!SymbolOf(t, l).section = symbol.section
  PROVE  ElfSymbol(symbol) = A!SymbolOf(t, l)
<1>1. PICK x : x = A!SymbolOf(t, l)
  OBVIOUS
<1>2. x = [value |-> x.value, bind |-> x.bind, type |-> x.type, visibility |-> x.visibility, section |-> x.section]
  <2>1. \E v, b, y, w, z : x = [value |-> v, bind |-> b, type |-> y, visibility |-> w, section |-> z]
    BY <1>1, Zenon DEF A!SymbolOf
  <2>2. QED
    BY <2>1
<1>3. QED
  BY <1>1, <1>2, Zenon DEF ElfSymbol

\* The symbols that directives have made.
LEMMA DirectiveSymbols ==
  ASSUME NEW t \in Seq(NodeType), NEW n, n = Len(t), SymbolsTo(t, n + 1), NEW l \in DOMAIN exported_symbols
  PROVE  ElfSymbol(exported_symbols[l]) = A!SymbolOf(t, l)
<1>1. Says(t, l, Exporting, n + 1) /\ n \in Nat
  BY DEF SymbolsTo
<1>2. PICK i \in 1 .. n : FirstSays(t, l, Exporting, i)
  <2>1. \E i \in 1 .. (n + 1) - 1 : FirstSays(t, l, Exporting, i)
    BY <1>1, SomeFirst
  <2>2. QED
    BY <1>1, <2>1
<1>3. PICK symbol : symbol = exported_symbols[l]
  OBVIOUS
<1>4. /\ MadeBy(symbol, t, l, i) /\ symbol.type # "static"
      /\ symbol.type = "weak" <=> (t[i].name = "weak" /\ \A j \in i + 1 .. Len(t) : ~ Tells(t[j], l, Exporting))
  <2>1. i \in 1 .. (n + 1) - 1 /\ (n + 1) - 1 = n
    BY <1>1
  <2>2. /\ MadeBy(symbol, t, l, i) /\ symbol.type # "static"
        /\ symbol.type = "weak" <=> (t[i].name = "weak" /\ \A j \in i + 1 .. (n + 1) - 1 : ~ Tells(t[j], l, Exporting))
    BY <1>2, <1>3, <2>1, Zenon DEF SymbolsTo
  <2>3. QED
    BY <2>1, <2>2
<1>5. PICK section : section = SymbolSection(t, l, i)
  OBVIOUS
<1>6. /\ A!SymbolOf(t, l).value = IF t[i].name = "extern" THEN 0 ELSE A!Address(t, l)
      /\ A!SymbolOf(t, l).bind = IF t[i].name = "weak" /\ \A j \in i + 1 .. Len(t) : ~ Tells(t[j], l, Exporting)
                                 THEN "weak" ELSE "global"
      /\ A!SymbolOf(t, l).type = IF "execute" \in A!FlagsAt(t, section, i) THEN "func" ELSE "object"
      /\ A!SymbolOf(t, l).visibility = "default"
      /\ A!SymbolOf(t, l).section = A!Title(t, section)
  BY <1>2, <1>5, SymbolOfMade
<1>7. symbol.address = A!SymbolOf(t, l).value /\ A!SymbolOf(t, l).section = symbol.section
  BY <1>4, <1>5, <1>6, Zenon DEF MadeBy
<1>8. A!SymbolOf(t, l).bind = IF symbol.type = "weak" THEN "weak" ELSE "global"
  BY <1>4, <1>6, Zenon
<1>9. A!SymbolOf(t, l).type = IF "execute" \in symbol.flags THEN "func" ELSE "object"
  BY <1>4, <1>5, <1>6, Zenon DEF MadeBy
<1>10. A!SymbolOf(t, l).visibility = IF symbol.type = "static" THEN "hidden" ELSE "default"
  BY <1>4, <1>6, Zenon
<1>11. ElfSymbol(symbol) = A!SymbolOf(t, l)
  BY <1>7, <1>8, <1>9, <1>10, SameSymbol
<1>12. QED
  BY <1>3, <1>11

\* The symbol of a label that none has made.
LEMMA LabelSymbol ==
  ASSUME NEW t \in Seq(NodeType), NEW n, n = Len(t), SectionsTo(t, n + 1), Placed(t),
         NEW l \in A!Labels(t), ~ Says(t, l, Exporting, n + 1),
         positions[l].section \in DOMAIN out_sections,
         NEW symbol, symbol = Symbol(out_sections[positions[l].section], "static", positions[l].address)
  PROVE  ElfSymbol(symbol) = A!SymbolOf(t, l)
<1>1. PICK s, address, section : s = positions[l].section /\ address = positions[l].address /\ section = out_sections[s]
  OBVIOUS
<1>2. s = A!LabelSection(t, l) /\ address = A!Address(t, l)
  BY <1>1, PlacedFields
<1>3. section.name = A!Title(t, s) /\ section.flags = A!FlagsAt(t, s, n + 1)
  BY <1>1 DEF SectionsTo
<1>4. symbol.section = section.name /\ symbol.flags = section.flags /\ symbol.type = "static" /\ symbol.address = address
  <2>1. symbol = Symbol(section, "static", address)
    BY <1>1
  <2>2. symbol = [section |-> section.name, flags |-> section.flags, type |-> "static", address |-> address]
    BY <2>1 DEF Symbol
  <2>3. QED
    BY <2>2
<1>5. /\ A!SymbolOf(t, l).value = A!Address(t, l)
      /\ A!SymbolOf(t, l).bind = "global"
      /\ A!SymbolOf(t, l).type = IF "execute" \in A!FlagsAt(t, s, n + 1) THEN "func" ELSE "object"
      /\ A!SymbolOf(t, l).visibility = "hidden"
      /\ A!SymbolOf(t, l).section = A!Title(t, s)
  BY <1>2, SymbolOfLabel
<1>6. symbol.address = A!SymbolOf(t, l).value /\ A!SymbolOf(t, l).section = symbol.section
  BY <1>2, <1>3, <1>4, <1>5, Zenon
<1>7. A!SymbolOf(t, l).bind = IF symbol.type = "weak" THEN "weak" ELSE "global"
  BY <1>4, <1>5
<1>8. A!SymbolOf(t, l).type = IF "execute" \in symbol.flags THEN "func" ELSE "object"
  BY <1>3, <1>4, <1>5, Zenon
<1>9. A!SymbolOf(t, l).visibility = IF symbol.type = "static" THEN "hidden" ELSE "default"
  BY <1>4, <1>5
<1>10. QED
  BY <1>6, <1>7, <1>8, <1>9, SameSymbol

\* A program has a file when its nodes have been emitted and its labels are in
\* sections that exist.
LEMMA EmitsIs ==
  ASSUME NEW t \in Seq(NodeType), Placed(t), NEW n, n = Len(t), EmittedTo(t, n + 1)
  PROVE  A!Emits(t) <=> \A l \in DOMAIN positions : positions[l].section \in DOMAIN out_sections
<1>1. n \in Nat /\ n + 1 \in 1 .. Len(t) + 1 /\ DOMAIN t = 1 .. n /\ \A i : i \in 1 .. (n + 1) - 1 <=> i \in 1 .. n
  OBVIOUS
<1>2. \A k \in DOMAIN t : A!Emittable(t, k)
  BY <1>1 DEF EmittedTo
<1>3. \A s : A!Exists(t, s, Len(t) + 1) <=> s \in DOMAIN out_sections
  BY <1>1, ExistsIs DEF EmittedTo
<1>4. \A l : l \in DOMAIN positions <=> l \in A!Labels(t)
  BY DEF Placed
<1>5. \A l \in A!Labels(t) : positions[l].section = A!LabelSection(t, l)
  BY PlacedFields
<1>6. QED
  BY <1>2, <1>3, <1>4, <1>5, Zenon DEF A!Emits

\* The file is ready to be written.
ReadyToSave(t) == SectionsTo(t, Len(t) + 1) /\ EntryTo(t, Len(t) + 1) /\ SymbolsDone(t) /\ A!Emits(t)

\* The labels become symbols.
LEMMA AllEmitted ==
  ASSUME TypeInv, NEW t \in Seq(NodeType), Resolved(t), Placed(t), EmittedTo(t, node), EmitSymbols
  PROVE  IF stage' = "save" THEN ReadyToSave(t)' ELSE stage' = "terminated" /\ ~ A!Emits(t)
<1>1. PICK n \in Nat : n = Len(t) /\ node = n + 1
  BY DEF Resolved, Alike, EmitSymbols, AtNode, TypeInv, TreeInv
<1>2. EmittedTo(t, n + 1)
  BY <1>1
<1>3. A!Emits(t) <=> \A l \in DOMAIN positions : positions[l].section \in DOMAIN out_sections
  BY <1>1, <1>2, EmitsIs
<1>4. CASE ~ A!Emits(t)
  <2>1. stage' = "terminated"
    BY <1>3, <1>4 DEF EmitSymbols, Terminate
  <2>2. QED
    BY <1>4, <2>1
<1>5. CASE A!Emits(t)
  <2>1. /\ stage' = "save" /\ exported_symbols' = Insert(exported_symbols, StaticSymbols)
        /\ UNCHANGED <<out_sections, out_section, entry>>
    BY <1>3, <1>5 DEF EmitSymbols
  <2>2. SectionsTo(t, n + 1) /\ SymbolsTo(t, n + 1) /\ EntryTo(t, n + 1)
    BY <1>2 DEF EmittedTo
  <2>3. SectionsTo(t, n + 1)' /\ EntryTo(t, n + 1)'
    BY <2>1, <2>2 DEF SectionsTo, EntryTo, Data
  <2>4. PICK symbols : symbols = exported_symbols'
    OBVIOUS
  <2>5. /\ DOMAIN symbols = DOMAIN exported_symbols \union DOMAIN positions
        /\ \A l \in DOMAIN exported_symbols : symbols[l] = exported_symbols[l]
        /\ \A l \in DOMAIN positions : l \notin DOMAIN exported_symbols =>
             symbols[l] = Symbol(out_sections[positions[l].section], "static", positions[l].address)
    BY <2>1, <2>4 DEF Insert, StaticSymbols
  <2>6. \A l : l \in DOMAIN symbols <=> l \in A!Symbols(t)
    <3>1. \A l : l \in DOMAIN exported_symbols <=> Says(t, l, Exporting, n + 1)
      BY <2>2 DEF SymbolsTo
    <3>2. \A k \in 1 .. Len(t) : A!Emittable(t, k)
      BY <1>1, <1>5 DEF A!Emits
    <3>3. \A k \in 1 .. Len(t) : A!IsDirective(t[k], Exporting) => t[k].args # <<>>
      BY <3>2, NamesGiven
    <3>4. \A l : l \in A!Named(t, Exporting) <=> Says(t, l, Exporting, n + 1)
      BY <1>1, <3>3, NamedIs
    <3>5. A!Symbols(t) = A!Labels(t) \union A!Named(t, Exporting)
      BY DEF A!Symbols, A!Exports, Exporting
    <3>6. \A l : l \in DOMAIN positions <=> l \in A!Labels(t)
      BY DEF Placed
    <3>7. QED
      BY <2>5, <3>1, <3>4, <3>5, <3>6
  <2>7. ASSUME NEW l \in DOMAIN symbols PROVE ElfSymbol(symbols[l]) = A!SymbolOf(t, l)
    <3>1. CASE l \in DOMAIN exported_symbols
      BY <1>1, <2>2, <2>5, <3>1, DirectiveSymbols
    <3>2. CASE l \notin DOMAIN exported_symbols
      <4>1. l \in DOMAIN positions /\ positions[l].section \in DOMAIN out_sections
        BY <1>3, <1>5, <2>5, <3>2
      <4>2. l \in A!Labels(t) /\ ~ Says(t, l, Exporting, n + 1)
        BY <2>2, <3>2, <4>1 DEF Placed, SymbolsTo
      <4>3. PICK symbol : symbol = Symbol(out_sections[positions[l].section], "static", positions[l].address)
        OBVIOUS
      <4>4. symbols[l] = symbol
        BY <2>5, <3>2, <4>1, <4>3
      <4>5. ElfSymbol(symbol) = A!SymbolOf(t, l)
        BY <1>1, <2>2, <4>1, <4>2, <4>3, LabelSymbol
      <4>6. QED
        BY <4>4, <4>5
    <3>3. QED
      BY <3>1, <3>2
  <2>8. SymbolsDone(t)'
    BY <2>4, <2>6, <2>7 DEF SymbolsDone
  <2>9. QED
    BY <1>1, <1>5, <2>1, <2>3, <2>8 DEF ReadyToSave
<1>6. QED
  BY <1>4, <1>5

-----------------------------------------------------------------------------
(* The file. *)

\* The order is the same in the instance.
LEMMA SameOrder == \A names, S : A!InOrder(names, S) = InOrder(names, S)
BY SameFlatten, Zenon DEF A!InOrder, InOrder

\* The bytes of a node that can be emitted.
LEMMA NodeBytes ==
  ASSUME TypeInv, NEW t \in Seq(NodeType), Resolved(t), NEW k \in 1 .. Len(t), A!Emittable(t, k)
  PROVE  A!BytesOf(t, t[k]) \in Seq(Byte)
<1>1. PICK n \in NodeType : n = t[k]
  OBVIOUS
<1>2. n.kind \in {"label", "instruction", "directive"}
  BY NodeFields
<1>3. CASE n.kind = "instruction"
  <2>1. tree[k] = Final(t, n) /\ tree[k].kind = n.kind /\ tree[k] \in NodeType
    BY <1>1, <1>3 DEF Resolved, Alike, TypeInv, TreeInv
  <2>2. Final(t, n) \in KnownType
    BY <1>3, <2>1, NodeFields
  <2>3. emit(Final(t, n)) \in Seq(Byte)
    BY <2>2, EmitType
  <2>4. QED
    BY <1>1, <1>3, <2>3, InstructionBytes
<1>4. CASE n.kind = "label"
  <2>1. A!BytesOf(t, n) = <<>>
    BY <1>2, <1>4, BytesAre
  <2>2. QED
    BY <1>1, <2>1
<1>5. CASE n.kind = "directive"
  <2>1. /\ Len(n.args) \in Nat /\ DOMAIN n.args = 1 .. Len(n.args)
        /\ \A i \in 1 .. Len(n.args) : n.args[i].number \in Int
    BY <1>5, NodeFields
  <2>2. n.name \in {"byte", "word"} => n.args[1].number \in Int
    <3>1. n.name \in {"byte", "word"} => A!HasNumberAt(n, 1)
      BY <1>1, <1>5 DEF A!Emittable, A!IsDirective
    <3>2. QED
      BY <2>1, <3>1 DEF A!HasNumberAt
  <2>3. CASE n.name = "byte"
    <3>1. PICK x \in Int : x = n.args[1].number
      BY <2>2, <2>3
    <3>2. A!BytesOf(t, n) = <<ToByte(x)>>
      BY <1>5, <2>3, <3>1, BytesAre
    <3>3. QED
      BY <1>1, <3>2, ConversionTypes
  <2>4. CASE n.name = "word"
    <3>1. PICK x \in Int : x = n.args[1].number
      BY <2>2, <2>4
    <3>2. A!BytesOf(t, n) = <<HighByte(ToUWord(x)), LowByte(x)>>
      BY <1>5, <2>4, <3>1, BytesAre
    <3>3. QED
      BY <1>1, <3>2, ConversionTypes
  <2>5. CASE n.name = "bytes"
    <3>1. PICK m, b : m = Len(n.args) /\ b = [i \in DOMAIN n.args |-> ToByte(n.args[i].number)]
      OBVIOUS
    <3>2. A!BytesOf(t, n) = b
      BY <1>2, <1>5, <2>5, <3>1, BytesAre
    <3>3. m \in Nat /\ DOMAIN n.args = 1 .. m /\ \A i \in 1 .. m : ToByte(n.args[i].number) \in Byte
      BY <2>1, <3>1, ConversionTypes
    <3>4. b \in Seq(Byte)
      BY <3>1, <3>3
    <3>5. QED
      BY <1>1, <3>2, <3>4
  <2>6. CASE n.name \notin {"byte", "word", "bytes"}
    <3>1. A!BytesOf(t, n) = <<>>
      BY <1>2, <1>5, <2>6, BytesAre
    <3>2. QED
      BY <1>1, <3>1
  <2>7. QED
    BY <2>3, <2>4, <2>5, <2>6
<1>6. QED
  BY <1>2, <1>3, <1>4, <1>5

\* What has been put into a section is what the nodes of the program say.
LEMMA ContentsAre ==
  ASSUME TypeInv, NEW t \in Seq(NodeType), Resolved(t), SectionsTo(t, Len(t) + 1),
         \A k \in 1 .. Len(t) : A!Emittable(t, k), NEW s \in DOMAIN out_sections
  PROVE  out_sections[s].data = A!Contents(t, s)
<1>1. PICK n \in Nat : n = Len(t) /\ DOMAIN t = 1 .. n /\ (n + 1) - 1 = n
  OBVIOUS
<1>2. PICK pieces : pieces = [k \in DOMAIN t |-> IF A!SectionAt(t, k) = s THEN A!BytesOf(t, t[k]) ELSE <<>>]
  OBVIOUS
<1>3. \A k \in 1 .. n : A!BytesOf(t, t[k]) \in Seq(Byte)
  BY <1>1, NodeBytes
<1>4. pieces \in [1 .. n -> Seq(Byte)] /\ \A k \in 1 .. n : pieces[k] = PieceAt(t, s, k)
  BY <1>1, <1>2, <1>3 DEF PieceAt
<1>5. PICK p : Concatenates(p, pieces, n, Byte) /\ FlattenSeq(pieces) = p[n]
  BY <1>4, FlattenConcatenates
<1>6. Builds(p, t, s, n)
  BY <1>4, <1>5 DEF Builds, Concatenates
<1>7. Data(s) = p[n]
  <2>1. Builds(p, t, s, (n + 1) - 1)
    BY <1>1, <1>6
  <2>2. Data(s) = p[(n + 1) - 1]
    BY <1>1, <2>1 DEF SectionsTo
  <2>3. QED
    BY <1>1, <2>2
<1>8. A!Contents(t, s) = FlattenSeq(pieces)
  BY <1>2, SameFlatten, Zenon DEF A!Contents
<1>9. QED
  BY <1>5, <1>7, <1>8 DEF Data

\* The file that is saved is the one that the program says.
LEMMA SavedImage ==
  ASSUME TypeInv, NEW t \in Seq(NodeType), Resolved(t), ReadyToSave(t), Save
  PROVE  outfile' = A!Image(t)
<1>1. PICK n \in Nat : n = Len(t) /\ DOMAIN t = 1 .. n
  OBVIOUS
<1>2. SectionsTo(t, Len(t) + 1) /\ EntryTo(t, Len(t) + 1) /\ SymbolsDone(t) /\ A!Emits(t)
  BY DEF ReadyToSave
<1>3. \A k \in 1 .. Len(t) : A!Emittable(t, k)
  BY <1>1, <1>2 DEF A!Emits
<1>4. entry = A!EntryOf(t)
  BY <1>2, EntryIs
<1>5. segments = A!Segments(t)
  <2>1. \A s : s \in DOMAIN out_sections <=> s \in A!Named(t, {"section", "secinfo"})
    <3>1. \A k \in 1 .. Len(t) : A!IsDirective(t[k], Making) => t[k].args # <<>>
      BY <1>3, NamesGiven
    <3>2. \A s : s \in A!Named(t, Making) <=> Says(t, s, Making, Len(t) + 1)
      BY <3>1, NamedIs
    <3>3. QED
      BY <1>2, <3>2 DEF SectionsTo, Making
  <2>2. DOMAIN out_sections = A!Named(t, {"section", "secinfo"})
    BY <2>1
  <2>3. PICK names : names = InOrder(SectionOrder, DOMAIN out_sections)
    OBVIOUS
  <2>4. names = A!InOrder(SectionOrder, A!Named(t, {"section", "secinfo"}))
    BY <2>2, <2>3, SameOrder
  <2>5. \A i \in DOMAIN names : names[i] \in DOMAIN out_sections
    BY <2>3, SectionOrderAssumption, InOrderMembers
  <2>6. \A s \in DOMAIN out_sections : out_sections[s].addr = A!Base(t, s) /\ out_sections[s].data = A!Contents(t, s)
    BY <1>2, <1>3, ContentsAre DEF SectionsTo
  <2>7. segments = [i \in DOMAIN names |-> [address |-> out_sections[names[i]].addr, bytes |-> out_sections[names[i]].data]]
    BY <2>3, Zenon DEF segments
  <2>8. A!Segments(t) = [i \in DOMAIN names |-> [address |-> A!Base(t, names[i]), bytes |-> A!Contents(t, names[i])]]
    BY <2>4, Zenon DEF A!Segments
  <2>9. \A i \in DOMAIN names :
          [address |-> out_sections[names[i]].addr, bytes |-> out_sections[names[i]].data]
            = [address |-> A!Base(t, names[i]), bytes |-> A!Contents(t, names[i])]
    BY <2>5, <2>6
  <2>10. QED
    BY <2>7, <2>8, <2>9, Zenon
<1>6. symtab = [name \in A!Symbols(t) |-> A!SymbolOf(t, name)]
  <2>1. DOMAIN exported_symbols = A!Symbols(t)
    BY <1>2 DEF SymbolsDone
  <2>2. symtab = [s \in A!Symbols(t) |-> ElfSymbol(exported_symbols[s])]
    BY <2>1, Zenon DEF symtab
  <2>3. \A s \in A!Symbols(t) : ElfSymbol(exported_symbols[s]) = A!SymbolOf(t, s)
    BY <1>2, <2>1 DEF SymbolsDone
  <2>4. QED
    BY <2>2, <2>3, Zenon
<1>7. outfile' = [state |-> "elf", entry |-> entry, segments |-> segments, symtab |-> symtab]
  BY DEF Save
<1>8. QED
  BY <1>4, <1>5, <1>6, <1>7, Zenon DEF A!Image

-----------------------------------------------------------------------------
(* The assembler implements the translation. *)

\* The nodes that the program comes to.
Program == A!Nodes(source)

\* Nothing has been put out.
Silent == entry = 0 /\ outfile = [state |-> "old"]

\* What each stage has done for the program.
TranslationInv ==
  /\ stage \in {"expand", "translate"} => Unnumbered
  /\ stage \in {"expand", "translate", "number", "resolve", "open"} => Silent
  /\ stage = "translate" => A!Expands(source)
  /\ stage \in {"number", "resolve"} =>
       /\ A!Expands(source) /\ A!Translates(A!FullExpansion(source))
       /\ Program \in Seq(NodeType) /\ Labelled(Program) /\ Mirrors(Program)
  /\ stage = "number" => NumberedTo(Program, node)
  /\ stage = "resolve" => A!Numbered(Program) /\ Placed(Program)
  /\ stage \in {"open", "emit", "save"} =>
       A!Sound(source) /\ Program \in Seq(NodeType) /\ Resolved(Program) /\ Placed(Program)
  /\ stage \in {"emit", "save"} => outfile = [state |-> "empty"]
  /\ stage = "emit" => EmittedTo(Program, node)
  /\ stage = "save" => ReadyToSave(Program)

\* A step of the assembler is one of the translation or none.
Refines == [A!Next]_<<file, outfile, stage \in {"written", "terminated"}>>

\* Most steps are none.
LEMMA StepUnseen ==
  ASSUME UNCHANGED <<file, outfile>>, stage \notin {"written", "terminated"}, stage' \notin {"written", "terminated"}
  PROVE  Refines
BY DEF Refines

\* The assembler dies before it opens the file.
LEMMA FailsEarly ==
  ASSUME UNCHANGED <<file, outfile>>, Silent, stage \notin {"written", "terminated"}, stage' = "terminated",
         ~ A!Sound(source)
  PROVE  Refines
<1>1. outfile.state = "old"
  BY DEF Silent
<1>2. A!Fail
  BY <1>1 DEF A!Fail, source
<1>3. QED
  BY <1>2 DEF Refines, A!Next

\* Or afterwards.
LEMMA FailsLate ==
  ASSUME UNCHANGED <<file, outfile>>, outfile = [state |-> "empty"], stage = "emit", stage' = "terminated",
         ~ A!Emits(Program)
  PROVE  Refines
<1>1. outfile.state = "empty"
  OBVIOUS
<1>2. A!Fail
  BY <1>1 DEF A!Fail, source, Program
<1>3. QED
  BY <1>2 DEF Refines, A!Next

\* The program stays the same.
LEMMA SameProgram ==
  ASSUME UNCHANGED file
  PROVE  source' = source /\ Program' = Program
BY DEF source, Program

\* The expander.
LEMMA ExpandTranslation ==
  ASSUME TypeInv, ExpandInv, TranslationInv, ExpandMacros, UNCHANGED <<treeVars, emitVars>>
  PROVE  TranslationInv' /\ Refines
<1>1. stage = "expand" /\ UNCHANGED <<file, outfile>> /\ Silent /\ Unnumbered
  BY DEF ExpandMacros, SkipLine, ReplaceInvocation, BadInvocation, EndPass, InPass, TranslationInv, astVars, emitVars
<1>2. Silent' /\ Unnumbered'
  BY <1>1 DEF Silent, Unnumbered, treeVars, emitVars
<1>3. CASE stage' = "expand"
  BY <1>1, <1>2, <1>3, StepUnseen DEF TranslationInv
<1>4. CASE EndPass /\ stage' = "translate"
  <2>1. A!Expands(source)
    BY <1>4, Expanded
  <2>2. A!Expands(source)'
    BY <1>1, <2>1 DEF source
  <2>3. QED
    BY <1>1, <1>2, <1>4, <2>2, StepUnseen DEF TranslationInv
<1>5. CASE BadInvocation
  <2>1. stage' = "terminated"
    BY <1>5 DEF BadInvocation, Terminate
  <2>2. ~ A!Sound(source)
    BY <1>5, NotExpanded DEF A!Sound
  <2>3. QED
    BY <1>1, <2>1, <2>2, FailsEarly DEF TranslationInv
<1>6. QED
  BY <1>1, <1>3, <1>4, <1>5 DEF ExpandMacros, SkipLine, ReplaceInvocation, EndPass, InPass, astVars

\* The transformer.
LEMMA TransformTranslation ==
  ASSUME TypeInv, TypeInv', ExpandInv, TranslationInv, Transform, UNCHANGED emitVars
  PROVE  TranslationInv' /\ Refines
<1>1. /\ stage \in {"translate", "number", "resolve"} /\ stage' \in {"number", "resolve", "open", "terminated"}
      /\ UNCHANGED <<file, outfile>> /\ Silent /\ Silent'
  BY TransformFrame DEF TranslationInv, Silent, emitVars
<1>2. PICK t : t = Program
  OBVIOUS
<1>3. source' = source /\ t = Program'
  BY <1>1, <1>2, SameProgram
<1>4. CASE TranslateLines
  <2>1. stage = "translate" /\ lines = A!FullExpansion(source) /\ Unnumbered /\ A!Expands(source)
    BY <1>4 DEF TranslateLines, ExpandInv, ExpansionCorrect, TranslationInv
  <2>2. CASE stage' = "number"
    <3>1. /\ A!Translates(A!FullExpansion(source)) /\ t \in Seq(NodeType) /\ Labelled(t)
          /\ Mirrors(t)' /\ NumberedTo(t, node)'
      BY <1>2, <1>4, <2>1, <2>2, Translated DEF Program
    <3>2. TranslationInv'
      BY <1>1, <1>3, <2>1, <2>2, <3>1 DEF TranslationInv
    <3>3. QED
      BY <1>1, <2>2, <3>2, StepUnseen
  <2>3. CASE stage' = "terminated"
    <3>1. ~ A!Sound(source)
      BY <1>4, <2>1, <2>3, NotTranslated DEF A!Sound
    <3>2. QED
      BY <1>1, <2>3, <3>1, FailsEarly DEF TranslationInv
  <2>4. QED
    BY <1>4, <2>2, <2>3 DEF TranslateLines, Terminate
<1>5. ASSUME stage = "number"
      PROVE  /\ A!Expands(source) /\ A!Translates(A!FullExpansion(source))
             /\ t \in Seq(NodeType) /\ Labelled(t) /\ Mirrors(t) /\ NumberedTo(t, node)
  BY <1>2, <1>5 DEF TranslationInv
<1>6. CASE NumberNode
  <2>1. stage = "number" /\ stage' = "number"
    BY <1>6 DEF NumberNode, NumberLabel, NumberInstruction, NumberSection, NumberDirective, Numbering, Advance, astVars
  <2>2. Mirrors(t)' /\ NumberedTo(t, node)'
    BY <1>5, <1>6, <2>1, NodeNumbered
  <2>3. TranslationInv'
    BY <1>1, <1>3, <1>5, <2>1, <2>2 DEF TranslationInv
  <2>4. QED
    BY <1>1, <2>1, <2>3, StepUnseen
<1>7. CASE NumberThrows
  <2>1. stage = "number" /\ stage' = "terminated"
    BY <1>7 DEF NumberThrows, Numbering, Terminate
  <2>2. ~ A!Numbered(t)
    BY <1>5, <1>7, <2>1, NotNumbered
  <2>3. ~ A!Sound(source)
    BY <1>2, <2>2 DEF A!Sound, Program
  <2>4. QED
    BY <1>1, <2>1, <2>3, FailsEarly DEF TranslationInv
<1>8. CASE NumberEnd
  <2>1. stage = "number" /\ stage' = "resolve" /\ ~ AtNode /\ UNCHANGED treeVars
    BY <1>8 DEF NumberEnd
  <2>2. A!Numbered(t) /\ PositionsKnown(t, Len(t) + 1)
    BY <1>5, <2>1, AllNumbered
  <2>3. Placed(t)
    BY <1>5, <2>1, <2>2, PositionsPlaced
  <2>4. Placed(t)' /\ Mirrors(t)'
    BY <1>5, <2>1, <2>3 DEF Placed, Mirrors, Alike, treeVars
  <2>5. TranslationInv'
    BY <1>1, <1>3, <1>5, <2>1, <2>2, <2>4 DEF TranslationInv
  <2>6. QED
    BY <1>1, <2>1, <2>5, StepUnseen
<1>9. CASE ResolveLabels
  <2>1. stage = "resolve" /\ stage' = "open"
    BY <1>9 DEF ResolveLabels
  <2>2. /\ A!Expands(source) /\ A!Translates(A!FullExpansion(source)) /\ A!Numbered(t)
        /\ t \in Seq(NodeType) /\ Labelled(t) /\ Mirrors(t) /\ Placed(t)
    BY <1>2, <2>1 DEF TranslationInv
  <2>3. Resolved(t)' /\ Placed(t)'
    BY <1>9, <2>2, LabelsResolved
  <2>4. A!Sound(source)
    BY <1>2, <2>2 DEF A!Sound, Program
  <2>5. TranslationInv'
    BY <1>1, <1>3, <2>1, <2>2, <2>3, <2>4 DEF TranslationInv
  <2>6. QED
    BY <1>1, <2>1, <2>5, StepUnseen
<1>10. QED
  BY <1>4, <1>6, <1>7, <1>8, <1>9 DEF Transform, NumberNode

\* The walk of the emitter begins.
LEMMA NoneEmitted ==
  ASSUME out_section' = "flat", out_sections' = <<>>, exported_symbols' = <<>>, entry' = 0, NEW t
  PROVE  EmittedTo(t, 1)'
<1>1. 1 .. 1 - 1 = {}
  OBVIOUS
<1>2. \A s, D : ~ Says(t, s, D, 1)
  BY <1>1 DEF Says
<1>3. DOMAIN out_sections' = {} /\ DOMAIN exported_symbols' = {}
  OBVIOUS
<1>4. SectionsTo(t, 1)'
  <2>1. A!SectionAt(t, 1) = "flat"
    BY SectionFirst
  <2>2. \A s, p : Builds(p, t, s, 1 - 1) => Data(s)' = p[1 - 1]
    BY <1>3 DEF Builds, Data
  <2>3. QED
    BY <1>2, <1>3, <2>1, <2>2 DEF SectionsTo
<1>5. SymbolsTo(t, 1)'
  BY <1>1, <1>2, <1>3 DEF SymbolsTo
<1>6. EntryTo(t, 1)'
  BY <1>1 DEF EntryTo
<1>7. QED
  BY <1>1, <1>4, <1>5, <1>6 DEF EmittedTo

\* The emitter.
LEMMA EmitTranslation ==
  ASSUME TypeInv, SymbolInv, OperandInv, TranslationInv, Emit, UNCHANGED <<file, lines, macros, macroVars>>,
         UNCHANGED <<tree, sections, current_section, positions>>
  PROVE  TranslationInv' /\ Refines
<1>1. PICK t : t = Program
  OBVIOUS
<1>2. source' = source /\ t = Program'
  BY <1>1, SameProgram
<1>3. ASSUME stage \in {"open", "emit", "save"}
      PROVE  /\ A!Sound(source) /\ t \in Seq(NodeType) /\ Resolved(t) /\ Placed(t)
             /\ Resolved(t)' /\ Placed(t)' /\ A!Sound(source')
  <2>1. A!Sound(source) /\ t \in Seq(NodeType) /\ Resolved(t) /\ Placed(t)
    BY <1>1, <1>3 DEF TranslationInv
  <2>2. Resolved(t)' /\ Placed(t)'
    BY <2>1 DEF Resolved, Alike, Placed
  <2>3. QED
    BY <1>2, <2>1, <2>2
<1>4. exported_symbols \in [DOMAIN exported_symbols -> SymbolType]
  BY DEF SymbolInv
<1>5. CASE OpenOutput
  <2>1. stage = "open" /\ stage' = "emit" /\ outfile' = [state |-> "empty"] /\ Silent
    BY <1>5 DEF OpenOutput, TranslationInv
  <2>2. node' = 1 /\ out_section' = "flat" /\ out_sections' = <<>> /\ exported_symbols' = <<>> /\ entry' = 0
    BY <1>5, <2>1 DEF OpenOutput, SymbolInv, OperandInv, Silent
  <2>3. EmittedTo(t, 1)'
    BY <2>2, NoneEmitted
  <2>4. EmittedTo(t, node)'
    BY <2>2, <2>3 DEF EmittedTo, SectionsTo, SymbolsTo, EntryTo, Data
  <2>5. TranslationInv'
    BY <1>2, <1>3, <2>1, <2>4 DEF TranslationInv
  <2>6. A!Open
    <3>1. outfile.state = "old"
      BY <2>1 DEF Silent
    <3>2. A!Sound(Sources[file])
      BY <1>3, <2>1 DEF source
    <3>3. QED
      BY <2>1, <3>1, <3>2 DEF A!Open
  <2>7. QED
    BY <2>5, <2>6 DEF Refines, A!Next
<1>6. ASSUME stage = "emit"
      PROVE  EmittedTo(t, node) /\ outfile = [state |-> "empty"]
  BY <1>1, <1>6 DEF TranslationInv
<1>7. CASE EmitNode /\ UNCHANGED stage /\ UNCHANGED outfile
  <2>1. stage = "emit" /\ stage' = "emit"
    BY <1>7, EmitNodeFrame
  <2>2. EmittedTo(t, node)'
    BY <1>3, <1>4, <1>6, <1>7, <2>1, NodeEmitted
  <2>3. TranslationInv'
    BY <1>2, <1>3, <1>6, <1>7, <2>1, <2>2 DEF TranslationInv
  <2>4. QED
    BY <1>7, <2>1, <2>3, StepUnseen
<1>8. CASE EmitThrows /\ UNCHANGED outfile
  <2>1. stage = "emit" /\ stage' = "terminated"
    BY <1>8 DEF EmitThrows, Terminate
  <2>2. ~ A!Emits(t)
    BY <1>3, <1>6, <1>8, <2>1, NotEmitted
  <2>3. QED
    BY <1>1, <1>6, <1>8, <2>1, <2>2, FailsLate DEF TranslationInv
<1>9. CASE EmitSymbols /\ UNCHANGED outfile
  <2>1. stage = "emit"
    BY <1>9 DEF EmitSymbols
  <2>2. IF stage' = "save" THEN ReadyToSave(t)' ELSE stage' = "terminated" /\ ~ A!Emits(t)
    BY <1>3, <1>6, <1>9, <2>1, AllEmitted
  <2>3. CASE stage' = "save"
    <3>1. TranslationInv'
      BY <1>2, <1>3, <1>6, <1>9, <2>1, <2>2, <2>3 DEF TranslationInv
    <3>2. QED
      BY <1>9, <2>1, <2>3, <3>1, StepUnseen
  <2>4. CASE stage' # "save"
    BY <1>1, <1>6, <1>9, <2>1, <2>2, <2>4, FailsLate DEF TranslationInv
  <2>5. QED
    BY <2>3, <2>4
<1>10. CASE Save
  <2>1. stage = "save" /\ stage' = "written"
    BY <1>10 DEF Save
  <2>2. ReadyToSave(t) /\ outfile = [state |-> "empty"]
    BY <1>1, <2>1 DEF TranslationInv
  <2>3. outfile' = A!Image(t) /\ A!Emits(t)
    BY <1>3, <1>10, <2>1, <2>2, SavedImage DEF ReadyToSave
  <2>4. A!Write
    <3>1. outfile.state = "empty"
      BY <2>2
    <3>2. A!Emits(A!Nodes(Sources[file])) /\ outfile' = A!Image(A!Nodes(Sources[file]))
      BY <1>1, <2>3 DEF Program, source
    <3>3. QED
      BY <2>1, <3>1, <3>2 DEF A!Write
  <2>5. TranslationInv'
    BY <2>1 DEF TranslationInv
  <2>6. QED
    BY <2>4, <2>5 DEF Refines, A!Next
<1>11. QED
  BY <1>5, <1>7, <1>8, <1>9, <1>10, EmitCases

\* Nothing has been done.
LEMMA InitTranslation == Init => TranslationInv /\ A!Init
BY DEF Init, AstInit, TreeInit, EmitInit, TranslationInv, Unnumbered, Silent, A!Init

\* Every step keeps the invariant, and is one of the translation.
LEMMA NextTranslation ==
  TypeInv /\ TypeInv' /\ ExpandInv /\ SymbolInv /\ OperandInv /\ TranslationInv /\ [Next]_asmVars
    => TranslationInv' /\ Refines
<1> SUFFICES ASSUME TypeInv, TypeInv', ExpandInv, SymbolInv, OperandInv, TranslationInv, [Next]_asmVars
             PROVE  TranslationInv' /\ Refines
  OBVIOUS
<1>1. CASE Next
  BY <1>1, ExpandTranslation, TransformTranslation, EmitTranslation DEF Next
<1>2. CASE UNCHANGED asmVars
  <2>1. UNCHANGED <<file, stage, node, tree, sections, current_section, positions, outfile, entry>>
    BY <1>2 DEF asmVars, astVars, treeVars, emitVars
  <2>2. UNCHANGED <<exported_symbols, out_section, out_sections>>
    BY <1>2 DEF asmVars, emitVars
  <2>3. PICK t : t = Program
    OBVIOUS
  <2>4. source' = source /\ Program' = t
    BY <2>1, <2>3, SameProgram
  <2>5. (Silent' <=> Silent) /\ (Unnumbered' <=> Unnumbered)
    BY <2>1 DEF Silent, Unnumbered
  <2>6. (Mirrors(t)' <=> Mirrors(t)) /\ (Resolved(t)' <=> Resolved(t))
    BY <2>1 DEF Mirrors, Resolved, Alike
  <2>7. (NumberedTo(t, node)' <=> NumberedTo(t, node)) /\ (Placed(t)' <=> Placed(t))
    BY <2>1 DEF NumberedTo, PositionsKnown, Placed
  <2>8. SectionsTo(t, node)' <=> SectionsTo(t, node)
    BY <2>1, <2>2 DEF SectionsTo, Data
  <2>9. SymbolsTo(t, node)' <=> SymbolsTo(t, node)
    BY <2>1, <2>2 DEF SymbolsTo
  <2>10. EntryTo(t, node)' <=> EntryTo(t, node)
    BY <2>1, <2>2 DEF EntryTo
  <2>11. EmittedTo(t, node)' <=> EmittedTo(t, node)
    BY <2>1, <2>8, <2>9, <2>10 DEF EmittedTo
  <2>12. SymbolsDone(t)' <=> SymbolsDone(t)
    BY <2>2 DEF SymbolsDone
  <2>13. ReadyToSave(t)' <=> ReadyToSave(t)
    BY <2>1, <2>2, <2>12 DEF ReadyToSave, SectionsTo, Data, EntryTo
  <2>14. TranslationInv'
    BY <2>1, <2>3, <2>4, <2>5, <2>6, <2>7, <2>11, <2>13, Zenon DEF TranslationInv
  <2>15. QED
    BY <2>1, <2>14 DEF Refines
<1>3. QED
  BY <1>1, <1>2

\* For every set of programs that the parser can hand over, what the assembler
\* does to out.elf is what the translation says.
THEOREM AssemblerTranslates == Spec => ImplementsTranslation
<1>1. Init => TypeInv /\ ExpandInv /\ SymbolInv /\ PlaceInv /\ OperandInv /\ TranslationInv /\ A!Init
  BY InitTypeInv, InitExpandInv, InitSymbolInv, InitBegin, BeginPlaceInv, BeginOperandInv, InitTranslation
<1>2. TypeInv /\ ExpandInv /\ SymbolInv /\ PlaceInv /\ OperandInv /\ TranslationInv /\ [Next]_asmVars
        => TypeInv' /\ ExpandInv' /\ SymbolInv' /\ PlaceInv' /\ OperandInv' /\ TranslationInv' /\ Refines
  BY NextTypeInv, NextExpandInv, NextSymbolInv, NextPlaceInv, NextOperandInv, NextTranslation
<1>3. Refines => [A!Next]_<<file, outfile, stage \in {"written", "terminated"}>>
  BY DEF Refines
<1>4. QED
  BY <1>1, <1>2, <1>3, PTL DEF Spec, ImplementsTranslation, A!Spec
=============================================================================
