------------------------------ MODULE CS8Lists ------------------------------
(***************************************************************************)
(* Facts about lists that the proofs about the assembler share: what a     *)
(* list of lists comes to when it is flattened.  FlattenSeq is a recursive *)
(* function; that the recursion has a result, and only one, is shown by    *)
(* looking at the least length for which it would fail.                    *)
(***************************************************************************)
EXTENDS SequencesExt, SequenceTheorems, WellFoundedInduction, NaturalsInduction, TLAPS

\* Every set of natural numbers that is not empty has a least element.
LEMMA Least ==
  ASSUME NEW T \in SUBSET Nat, T # {}
  PROVE  \E x \in T : \A y \in T : x <= y
<1>1. PICK t \in T : \A u \in T : ~ (<<u, t>> \in OpToRel(<, Nat))
  BY NatLessThanWellFounded, WFMin
<1>2. \A u \in T : t <= u
  <2> SUFFICES ASSUME NEW u \in T, ~ (t <= u) PROVE FALSE
    OBVIOUS
  <2>1. u < t
    OBVIOUS
  <2>2. <<u, t>> \in OpToRel(<, Nat)
    BY <2>1 DEF OpToRel
  <2>3. QED
    BY <1>1, <2>2
<1>3. QED
  BY <1>2

\* Induction over a set of numbers: what holds first and goes on holds for all.
LEMMA Upward ==
  ASSUME NEW n \in Nat, NEW T \in SUBSET (0 .. n),
         0 \in T, \A k \in 0 .. n : k \in T /\ k < n => k + 1 \in T
  PROVE  T = 0 .. n
<1> DEFINE Bad == (0 .. n) \ T
<1>1. SUFFICES ASSUME Bad # {} PROVE FALSE
  OBVIOUS
<1>2. Bad \in SUBSET Nat
  OBVIOUS
<1>3. PICK k \in Bad : \A y \in Bad : k <= y
  BY <1>1, <1>2, Least
<1>4. k # 0 /\ k - 1 \in 0 .. n /\ k - 1 < n
  BY <1>3
<1>5. k - 1 \in T
  BY <1>3, <1>4
<1>6. (k - 1) + 1 \in T
  BY <1>4, <1>5
<1>7. QED
  BY <1>3, <1>6

\* A name for the concatenation: the provers see it where it is expanded only.
Join(s, t) == s \o t

\* p[i] is the concatenation of the first i lists.
Concatenates(p, seqs, n, S) ==
  /\ p \in [0 .. n -> Seq(S)] /\ p[0] = <<>>
  /\ \A i \in 1 .. n : p[i] = p[i - 1] \o seqs[i]

\* FlattenSeq concatenates the lists one after another.
LEMMA FlattenConcatenates ==
  ASSUME NEW S, NEW n \in Nat, NEW seqs \in [1 .. n -> Seq(S)]
  PROVE  \E p : Concatenates(p, seqs, n, S) /\ FlattenSeq(seqs) = p[n]
<1> DEFINE Concat(g, i) == IF i = 1 THEN seqs[i] ELSE g[i - 1] \o seqs[i]
           Rec(g, k) == g = [i \in 1 .. k |-> Concat(g, i)]
           Good(k) == \E g \in [1 .. k -> Seq(S)] : Rec(g, k)
<1>0. seqs \in Seq(Seq(S)) /\ Len(seqs) = n /\ \A i \in 1 .. n : seqs[i] \in Seq(S)
  OBVIOUS
<1>1. CASE n = 0
  <2>1. FlattenSeq(seqs) = seqs
    BY <1>0, <1>1 DEF FlattenSeq
  <2>2. seqs = <<>>
    BY <1>0, <1>1
  <2> DEFINE p == [i \in 0 .. n |-> <<>>]
  <2>3. <<>> \in Seq(S)
    OBVIOUS
  <2>4. Concatenates(p, seqs, n, S) /\ p[n] = <<>>
    BY <1>1, <2>3 DEF Concatenates
  <2>5. QED
    BY <2>1, <2>2, <2>4
<1>2. CASE n # 0
  <2>1. FlattenSeq(seqs) = (CHOOSE g : Rec(g, n))[n]
    BY <1>0, <1>2, Zenon DEF FlattenSeq
  <2>2. Good(0)
    <3>1. \A g : g = [i \in 1 .. 0 |-> Concat(g, i)] <=> g = [i \in {} |-> 0]
      OBVIOUS
    <3>2. [i \in {} |-> 0] \in [1 .. 0 -> Seq(S)]
      OBVIOUS
    <3>3. QED
      BY <3>1, <3>2
  <2>3. ASSUME NEW k \in Nat, k < n, Good(k)
        PROVE  Good(k + 1)
    <3>1. PICK g \in [1 .. k -> Seq(S)] : Rec(g, k)
      BY <2>3
    <3> DEFINE h == [i \in 1 .. k + 1 |-> Concat(g, i)]
    <3>a. \A i \in 1 .. k : g[i] = Concat(g, i)
      <4> HIDE DEF Concat
      <4>1. QED
        BY <3>1
    <3>2. \A i \in 1 .. k : h[i] = g[i]
      <4> HIDE DEF Concat
      <4>1. QED
        BY <3>a
    <3>3. \A i \in 1 .. k + 1 : h[i] = Concat(h, i) /\ h[i] \in Seq(S)
      <4> SUFFICES ASSUME NEW i \in 1 .. k + 1
                   PROVE  h[i] = Concat(h, i) /\ h[i] \in Seq(S)
        OBVIOUS
      <4>1. i \in 1 .. n /\ seqs[i] \in Seq(S) /\ h[i] = Concat(g, i)
        BY <1>0, <2>3
      <4>2. CASE i = 1
        BY <4>1, <4>2
      <4>3. CASE i # 1
        <5>1. i - 1 \in 1 .. k /\ h[i - 1] = g[i - 1] /\ g[i - 1] \in Seq(S)
          <6> HIDE DEF h
          <6>1. i - 1 \in 1 .. k
            BY <4>3
          <6>2. QED
            BY <3>2, <6>1
        <5>2. h[i] = g[i - 1] \o seqs[i] /\ Concat(h, i) = h[i - 1] \o seqs[i]
          BY <4>1, <4>3
        <5> HIDE DEF h
        <5>3. g[i - 1] \o seqs[i] \in Seq(S)
          BY <4>1, <5>1, ConcatProperties
        <5>4. QED
          BY <5>1, <5>2, <5>3
      <4>4. QED
        BY <4>2, <4>3
    <3>4. h \in [1 .. k + 1 -> Seq(S)] /\ Rec(h, k + 1)
      BY <3>3
    <3>5. QED
      BY <3>4
  <2>4. Good(n)
    <3> DEFINE T == {k \in 0 .. n : Good(k)}
    <3> HIDE DEF Good
    <3>1. 0 \in T /\ T \in SUBSET (0 .. n)
      BY <2>2
    <3>2. \A k \in 0 .. n : k \in T /\ k < n => k + 1 \in T
      BY <2>3
    <3>3. T = 0 .. n
      BY <3>1, <3>2, Upward
    <3>4. QED
      BY <3>3
  <2>5. PICK f : Rec(f, n) /\ f = CHOOSE g : Rec(g, n)
    BY <2>4, Zenon
  <2>6. \A i \in 1 .. n : f[i] = Concat(f, i)
    <3> HIDE DEF Concat
    <3>1. QED
      BY <2>5
  <2> DEFINE p == [i \in 0 .. n |-> IF i = 0 THEN <<>> ELSE f[i]]
  <2>7. p[0] = <<>> /\ p[n] = f[n] /\ \A i \in 1 .. n : p[i] = f[i]
    BY <1>2
  <2>8. \A i \in 1 .. n : p[i] = p[i - 1] \o seqs[i]
    <3> SUFFICES ASSUME NEW i \in 1 .. n PROVE p[i] = p[i - 1] \o seqs[i]
      OBVIOUS
    <3>1. p[i] = Concat(f, i) /\ seqs[i] \in Seq(S)
      BY <1>0, <2>6, <2>7
    <3>2. CASE i = 1
      <4>1. p[i - 1] = <<>>
        BY <3>2, <2>7
      <4>2. <<>> \o seqs[i] = seqs[i]
        BY <3>1, ConcatEmptySeq
      <4>3. QED
        BY <3>1, <3>2, <4>1, <4>2
    <3>3. CASE i # 1
      <4>1. i - 1 \in 1 .. n
        BY <3>3
      <4>2. p[i - 1] = f[i - 1]
        BY <4>1, <2>7
      <4>3. QED
        BY <3>1, <3>3, <4>2
    <3>4. QED
      BY <3>2, <3>3
  <2>9. p \in [0 .. n -> Seq(S)]
    <3> DEFINE T == {k \in 0 .. n : p[k] \in Seq(S)}
    <3>1. 0 \in T /\ T \in SUBSET (0 .. n)
      BY <2>7
    <3>2. ASSUME NEW k \in 0 .. n, k \in T, k < n PROVE k + 1 \in T
      <4>1. k + 1 \in 1 .. n /\ (k + 1) - 1 = k
        BY <3>2
      <4>2. p[k + 1] = p[k] \o seqs[k + 1] /\ seqs[k + 1] \in Seq(S) /\ p[k] \in Seq(S)
        <5> HIDE DEF p
        <5>1. QED
          BY <4>1, <2>8, <1>0, <3>2
      <4> HIDE DEF p
      <4>3. p[k + 1] \in Seq(S)
        BY <4>2, ConcatProperties
      <4>4. QED
        BY <4>1, <4>3
    <3>3. T = 0 .. n
      <4> HIDE DEF T
      <4>1. QED
        BY <3>1, <3>2, Upward
    <3>4. QED
      BY <3>3
  <2>10. FlattenSeq(seqs) = p[n]
    <3> HIDE DEF Rec
    <3>1. QED
      BY <1>2, <2>1, <2>5, <2>7
  <2> HIDE DEF p
  <2>11. QED
    BY <2>7, <2>8, <2>9, <2>10 DEF Concatenates
<1>3. QED
  BY <1>1, <1>2

\* A list of lists flattens to a list of the same elements.
LEMMA FlattenType ==
  ASSUME NEW S, NEW n \in Nat, NEW seqs \in [1 .. n -> Seq(S)]
  PROVE  FlattenSeq(seqs) \in Seq(S)
<1>1. PICK p : Concatenates(p, seqs, n, S) /\ FlattenSeq(seqs) = p[n]
  BY FlattenConcatenates
<1>2. QED
  BY <1>1 DEF Concatenates

\* There is only one way to concatenate them.
LEMMA OneConcatenation ==
  ASSUME NEW S, NEW n \in Nat, NEW m \in 0 .. n, NEW s, NEW t, NEW p, NEW q,
         Concatenates(p, s, m, S), Concatenates(q, t, n, S), \A i \in 1 .. m : s[i] = t[i]
  PROVE  \A i \in 0 .. m : p[i] = q[i]
<1> DEFINE T == {k \in 0 .. m : p[k] = q[k]}
<1>1. 0 \in T /\ T \in SUBSET (0 .. m)
  BY DEF Concatenates
<1>2. ASSUME NEW k \in 0 .. m, k \in T, k < m PROVE k + 1 \in T
  <2>1. k + 1 \in 1 .. m /\ k + 1 \in 1 .. n /\ (k + 1) - 1 = k
    BY <1>2
  <2>2. p[k + 1] = p[k] \o s[k + 1] /\ q[k + 1] = q[k] \o t[k + 1]
    BY <2>1 DEF Concatenates
  <2>3. p[k] = q[k] /\ s[k + 1] = t[k + 1]
    BY <2>1, <1>2
  <2>4. p[k + 1] = q[k + 1]
    BY <2>2, <2>3, Zenon
  <2>5. QED
    BY <2>1, <2>4
<1>3. T = 0 .. m
  <2> HIDE DEF T
  <2>1. QED
    BY <1>1, <1>2, Upward
<1>4. QED
  BY <1>3

\* Concatenating the lists one by one gives what FlattenSeq gives.
LEMMA ConcatenationFlattens ==
  ASSUME NEW S, NEW n \in Nat, NEW seqs \in [1 .. n -> Seq(S)], NEW p, Concatenates(p, seqs, n, S)
  PROVE  FlattenSeq(seqs) = p[n]
<1>1. PICK q : Concatenates(q, seqs, n, S) /\ FlattenSeq(seqs) = q[n]
  BY FlattenConcatenates
<1>2. n \in 0 .. n
  OBVIOUS
<1>3. QED
  BY <1>1, <1>2, OneConcatenation

\* One more list.
LEMMA ConcatenationGoesOn ==
  ASSUME NEW S, NEW n \in Nat, NEW m, m = n + 1, NEW seqs, NEW p, Concatenates(p, seqs, n, S),
         NEW x \in Seq(S), x = seqs[m]
  PROVE  \E q : Concatenates(q, seqs, m, S) /\ q[m] = Join(p[n], x)
<1>1. PICK last \in Seq(S) : last = p[n] \o seqs[n + 1]
  <2>1. p[n] \in Seq(S)
    BY DEF Concatenates
  <2>2. QED
    BY <2>1, ConcatProperties
<1> DEFINE q == [i \in 0 .. n + 1 |-> IF i = n + 1 THEN last ELSE p[i]]
<1>2. /\ q \in [0 .. n + 1 -> Seq(S)] /\ q[n + 1] = last
      /\ \A i \in 0 .. n : q[i] = p[i]
  BY DEF Concatenates
<1> HIDE DEF q
<1>3. \A i \in 1 .. n + 1 : q[i] = q[i - 1] \o seqs[i]
  <2> SUFFICES ASSUME NEW i \in 1 .. n + 1 PROVE q[i] = q[i - 1] \o seqs[i]
    OBVIOUS
  <2>1. CASE i = n + 1
    <3>1. q[i] = last /\ q[i - 1] = p[n] /\ seqs[i] = seqs[n + 1]
      BY <2>1, <1>2
    <3>2. QED
      BY <3>1, <1>1, Zenon
  <2>2. CASE i # n + 1
    <3>1. i \in 1 .. n /\ i - 1 \in 0 .. n /\ i \in 0 .. n
      BY <2>2
    <3>2. p[i] = p[i - 1] \o seqs[i]
      BY <3>1 DEF Concatenates
    <3>3. QED
      BY <3>1, <3>2, <1>2, Zenon
  <2>3. QED
    BY <2>1, <2>2
<1>4. q[0] = <<>>
  BY <1>2 DEF Concatenates
<1>5. Concatenates(q, seqs, n + 1, S)
  BY <1>2, <1>3, <1>4, Zenon DEF Concatenates
<1>6. q[m] = Join(p[n], x)
  BY <1>1, <1>2 DEF Join
<1>7. QED
  BY <1>5, <1>6

\* The flattened list has the elements of the lists in it, and no others.
LEMMA ConcatenationRange ==
  ASSUME NEW S, NEW n \in Nat, NEW seqs \in [1 .. n -> Seq(S)], NEW p, Concatenates(p, seqs, n, S)
  PROVE  Range(p[n]) = UNION {Range(seqs[i]) : i \in 1 .. n}
<1> DEFINE T == {k \in 0 .. n : Range(p[k]) = UNION {Range(seqs[i]) : i \in 1 .. k}}
<1>1. 0 \in T /\ T \in SUBSET (0 .. n)
  <2>1. Range(p[0]) = {}
    BY DEF Concatenates, Range
  <2>2. QED
    BY <2>1
<1>2. ASSUME NEW k \in 0 .. n, k \in T, k < n PROVE k + 1 \in T
  <2>1. k + 1 \in 1 .. n /\ (k + 1) - 1 = k
    BY <1>2
  <2>2. p[k + 1] = p[k] \o seqs[k + 1] /\ p[k] \in Seq(S) /\ seqs[k + 1] \in Seq(S)
    BY <2>1 DEF Concatenates
  <2>3. Range(p[k + 1]) = Range(p[k]) \union Range(seqs[k + 1])
    BY <2>2, RangeConcatenation
  <2>4. \A i : i \in 1 .. k + 1 <=> i \in 1 .. k \/ i = k + 1
    OBVIOUS
  <2>5. \A x : x \in UNION {Range(seqs[i]) : i \in 1 .. k + 1}
               <=> x \in UNION {Range(seqs[i]) : i \in 1 .. k} \/ x \in Range(seqs[k + 1])
    BY <2>4, Zenon
  <2>6. \A x : x \in Range(p[k + 1]) <=> x \in UNION {Range(seqs[i]) : i \in 1 .. k + 1}
    BY <2>3, <2>5, <1>2, Zenon
  <2>7. Range(p[k + 1]) = UNION {Range(seqs[i]) : i \in 1 .. k + 1}
    BY <2>6, Zenon
  <2>8. QED
    BY <2>1, <2>7
<1>3. T = 0 .. n
  <2> HIDE DEF T
  <2>1. QED
    BY <1>1, <1>2, Upward
<1>4. n \in T
  <2> HIDE DEF T
  <2>1. QED
    BY <1>3
<1>5. QED
  BY <1>4, Zenon

\* A part of a list.
LEMMA Part ==
  ASSUME NEW S, NEW s \in Seq(S), NEW lo \in 1 .. Len(s) + 1, NEW hi \in 0 .. Len(s), lo <= hi + 1
  PROVE  /\ SubSeq(s, lo, hi) \in Seq(S) /\ Len(SubSeq(s, lo, hi)) = hi - lo + 1
         /\ \A i \in 1 .. hi - lo + 1 : SubSeq(s, lo, hi)[i] = s[lo + i - 1]
OBVIOUS

\* Two lists put together come apart again.
LEMMA ConcatApart ==
  ASSUME NEW S, NEW a \in Seq(S), NEW b \in Seq(S)
  PROVE  SubSeq(a \o b, 1, Len(a)) = a /\ SubSeq(a \o b, Len(a) + 1, Len(a \o b)) = b
<1>1. PICK m, n \in Nat : m = Len(a) /\ n = Len(b)
  OBVIOUS
<1>2. PICK all : all = a \o b
  OBVIOUS
<1>3. PICK one, lo, hi \in Int : one = 1 /\ lo = m + 1 /\ hi = m + n
  OBVIOUS
<1>4. /\ all \in Seq(S) /\ Len(all) = hi
      /\ \A i \in 1 .. hi : all[i] = IF i <= m THEN a[i] ELSE b[i - m]
  BY <1>1, <1>2, <1>3, ConcatProperties
<1>5. PICK c : c = SubSeq(all, one, m)
  OBVIOUS
<1>6. PICK d : d = SubSeq(all, lo, hi)
  OBVIOUS
<1>7. c \in Seq(S) /\ Len(c) = m /\ \A i \in 1 .. m : c[i] = a[i]
  <2>1. one \in 1 .. Len(all) + 1 /\ m \in 0 .. Len(all) /\ one <= m + 1
    BY <1>3, <1>4
  <2>2. c \in Seq(S) /\ Len(c) = m - one + 1 /\ \A i \in 1 .. m - one + 1 : c[i] = all[one + i - 1]
    BY <1>4, <1>5, <2>1
  <2>3. m - one + 1 = m /\ \A i \in 1 .. m : one + i - 1 = i /\ i \in 1 .. hi /\ i <= m
    BY <1>3
  <2>4. \A i \in 1 .. m : c[i] = a[i]
    BY <1>4, <2>2, <2>3
  <2>5. QED
    BY <2>2, <2>3, <2>4
<1>8. d \in Seq(S) /\ Len(d) = n /\ \A i \in 1 .. n : d[i] = b[i]
  <2>1. lo \in 1 .. Len(all) + 1 /\ hi \in 0 .. Len(all) /\ lo <= hi + 1
    BY <1>3, <1>4
  <2>2. d \in Seq(S) /\ Len(d) = hi - lo + 1 /\ \A i \in 1 .. hi - lo + 1 : d[i] = all[lo + i - 1]
    BY <1>4, <1>6, <2>1
  <2>3. hi - lo + 1 = n
    BY <1>3
  <2>4. ASSUME NEW i \in 1 .. n PROVE d[i] = b[i]
    <3>1. PICK k \in 1 .. hi : k = lo + i - 1 /\ ~ (k <= m) /\ k - m = i
      BY <1>3
    <3>2. d[i] = all[k] /\ all[k] = b[k - m]
      BY <1>4, <2>2, <2>3, <3>1
    <3>3. QED
      BY <3>1, <3>2
  <2>5. QED
    BY <2>2, <2>3, <2>4
<1>9. c = a /\ d = b
  BY <1>1, <1>7, <1>8, SeqEqual
<1>10. QED
  BY <1>1, <1>2, <1>3, <1>4, <1>5, <1>6, <1>9

\* What a list is that two lists make.
Joined(S, s, t, all) ==
  /\ all \in Seq(S) /\ Len(all) = Len(s) + Len(t)
  /\ \A i \in 1 .. Len(s) + Len(t) : all[i] = IF i <= Len(s) THEN s[i] ELSE t[i - Len(s)]

\* Join joins.
LEMMA JoinIsJoined ==
  ASSUME NEW S, NEW s \in Seq(S), NEW t \in Seq(S)
  PROVE  Joined(S, s, t, Join(s, t)) /\ Join(s, t) \in Seq(S)
BY ConcatProperties DEF Joined, Join

\* It does not matter which two of three are joined first.
LEMMA JoinAssociative ==
  ASSUME NEW S, NEW a \in Seq(S), NEW b \in Seq(S), NEW c \in Seq(S)
  PROVE  Join(a, Join(b, c)) = Join(Join(a, b), c)
BY ConcatAssociative DEF Join

ComesApart(all, a, b) ==
  SubSeq(all, 1, Len(a)) = a /\ SubSeq(all, Len(a) + 1, Len(all)) = b

\* What has been joined comes apart at the same place.
LEMMA JoinApart ==
  ASSUME NEW S, NEW a \in Seq(S), NEW b \in Seq(S)
  PROVE  ComesApart(Join(a, b), a, b)
BY ConcatApart DEF Join, ComesApart

\* What is in front of an element, the element, and what is behind it.
Splits(S, all, front, one, rest) ==
  /\ all \in Seq(S) /\ Len(all) = Len(front) + 1 + Len(rest)
  /\ all = Join(Join(front, one), rest) /\ all[Len(front) + 1] = one[1]
  /\ SubSeq(all, 1, Len(front)) = front /\ SubSeq(all, Len(front) + 2, Len(all)) = rest

\* A list of one between two others is split off from them.
LEMMA Around ==
  ASSUME NEW S, NEW front \in Seq(S), NEW one \in Seq(S), Len(one) = 1,
         NEW rest \in Seq(S), NEW all, all = Join(front, Join(one, rest))
  PROVE  Splits(S, all, front, one, rest)
<1>1. all = Join(Join(front, one), rest)
  BY JoinAssociative
<1>2. PICK more \in Seq(S) : more = Join(front, one)
  BY JoinIsJoined
<1>3. PICK back \in Seq(S) : back = Join(one, rest)
  BY JoinIsJoined
<1>4. PICK k, m \in Nat : k = Len(front) /\ m = Len(rest)
  OBVIOUS
<1>5. PICK x \in S : Len(one) = 1 /\ one[1] = x
  <2>1. 1 \in 1 .. Len(one)
    OBVIOUS
  <2>2. QED
    BY <2>1, ElementOfSeq
<1>6. Len(more) = k + 1 /\ more[k + 1] = x
  <2>1. Joined(S, front, one, more)
    BY <1>2, JoinIsJoined
  <2>2. k + 1 \in 1 .. k + 1 /\ ~ (k + 1 <= k) /\ (k + 1) - k = 1
    OBVIOUS
  <2>3. QED
    BY <1>4, <1>5, <2>1, <2>2 DEF Joined
<1>7. all \in Seq(S) /\ Len(all) = k + 1 + m /\ all[k + 1] = x
  <2>1. PICK l \in Nat : l = k + 1 /\ Len(more) = l
    BY <1>6
  <2>2. Joined(S, more, rest, all)
    BY <1>1, <1>2, JoinIsJoined
  <2>3. l \in 1 .. l + m /\ l <= l
    BY <2>1, <1>4
  <2>4. all \in Seq(S) /\ Len(all) = l + m /\ all[l] = more[l]
    BY <1>4, <2>1, <2>2, <2>3 DEF Joined
  <2>5. QED
    BY <1>6, <2>1, <2>4
<1>8. SubSeq(all, 1, Len(front)) = front
  <2>1. ComesApart(all, front, back)
    BY <1>3, JoinApart
  <2>2. QED
    BY <2>1 DEF ComesApart
<1>9. SubSeq(all, Len(front) + 2, Len(all)) = rest
  <2>1. SubSeq(all, Len(more) + 1, Len(all)) = rest
    <3>1. all = Join(more, rest)
      BY <1>1, <1>2
    <3>2. ComesApart(all, more, rest)
      BY <3>1, JoinApart
    <3>3. QED
      BY <3>2 DEF ComesApart
  <2>2. Len(more) + 1 = Len(front) + 2
    BY <1>4, <1>6
  <2>3. QED
    BY <2>1, <2>2
<1>10. QED
  BY <1>1, <1>4, <1>5, <1>7, <1>8, <1>9 DEF Splits

\* A list from one of its elements on.
LEMMA FromHere ==
  ASSUME NEW S, NEW ls \in Seq(S), NEW i \in 1 .. Len(ls)
  PROVE  /\ SubSeq(ls, i, Len(ls)) = <<ls[i]>> \o SubSeq(ls, i + 1, Len(ls))
         /\ SubSeq(ls, i + 1, Len(ls)) \in Seq(S) /\ <<ls[i]>> \in Seq(S) /\ ls[i] \in S
         /\ Len(SubSeq(ls, i, Len(ls))) = Len(ls) - i + 1
<1>1. PICK n \in Nat : n = Len(ls) /\ n \in i .. Len(ls) /\ i + 1 \in 1 .. Len(ls) + 1
  OBVIOUS
<1>2. SubSeq(ls, i, n) = <<ls[i]>> \o SubSeq(ls, i + 1, n)
  BY <1>1, SubSeqRecursiveFirst
<1>3. PICK lo \in 1 .. Len(ls) + 1 : lo = i + 1 /\ lo <= n + 1
  BY <1>1
<1>4. SubSeq(ls, lo, n) \in Seq(S)
  BY <1>1, <1>3
<1>5. ls[i] \in S
  OBVIOUS
<1>6. <<ls[i]>> \in Seq(S)
  BY <1>5
<1>7. Len(SubSeq(ls, i, n)) = n - i + 1
  BY <1>1
<1>8. QED
  BY <1>1, <1>2, <1>3, <1>4, <1>5, <1>6, <1>7

\* Of ls there is in all what comes behind front.
Left(all, front, ls, i) == all = Join(front, SubSeq(ls, i, Len(ls)))

\* The next element of it.
NextOf(S, all, front, ls, i) ==
  \E one, rest \in Seq(S) :
    /\ i \in 1 .. Len(ls) /\ ls[i] \in S /\ one = <<ls[i]>> /\ Len(one) = 1
    /\ rest = SubSeq(ls, i + 1, Len(ls)) /\ Splits(S, all, front, one, rest)

\* If there is more than what is in front, the next element is there.
LEMMA Behind ==
  ASSUME NEW S, NEW front \in Seq(S), NEW ls \in Seq(S), NEW i \in 1 .. Len(ls) + 1,
         NEW all, Left(all, front, ls, i), Len(front) + 1 <= Len(all)
  PROVE  NextOf(S, all, front, ls, i)
<1>1. PICK back : back = SubSeq(ls, i, Len(ls)) /\ all = Join(front, back)
  BY DEF Left
<1>2. i \in 1 .. Len(ls)
  <2>1. SUFFICES ASSUME i = Len(ls) + 1 PROVE FALSE
    BY <1>1
  <2>2. back = <<>>
    BY <1>1, <2>1, SubSeqEmpty
  <2>3. front \o <<>> = front
    BY ConcatEmptySeq
  <2>4. all = front
    BY <1>1, <2>2, <2>3, Zenon DEF Join
  <2>5. Len(front) \in Nat /\ Len(all) = Len(front)
    BY <2>4
  <2>6. QED
    BY <2>5
<1>3. PICK x \in S, one \in Seq(S), rest \in Seq(S) :
        x = ls[i] /\ one = <<x>> /\ one[1] = x /\ rest = SubSeq(ls, i + 1, Len(ls)) /\ back = Join(one, rest)
  <2>1. PICK x \in S : x = ls[i]
    BY <1>2, ElementOfSeq
  <2>2. PICK one, rest : one = <<ls[i]>> /\ rest = SubSeq(ls, i + 1, Len(ls))
    OBVIOUS
  <2>3. back = one \o rest /\ one \in Seq(S) /\ rest \in Seq(S)
    BY <1>1, <1>2, <2>2, FromHere
  <2>4. back = Join(one, rest)
    BY <2>3 DEF Join
  <2>5. QED
    BY <2>1, <2>2, <2>3, <2>4
<1>4. Splits(S, all, front, one, rest)
  <2>1. all = Join(front, Join(one, rest))
    BY <1>1, <1>3
  <2>2. Len(one) = 1
    BY <1>3
  <2>3. QED
    BY <2>1, <2>2, Around
<1>5. Len(one) = 1
  BY <1>3
<1>6. QED
  BY <1>2, <1>3, <1>4, <1>5, Zenon DEF NextOf

\* The first n lists are the same.
Agree(s, t, n) == \A i \in 1 .. n : s[i] = t[i]

\* What is concatenated first does not depend on what comes behind it.
LEMMA SamePrefix ==
  ASSUME NEW S, NEW few \in Nat, NEW many \in Nat, few <= many, NEW s, NEW t, NEW p, NEW q,
         Concatenates(p, s, few, S), Concatenates(q, t, many, S), Agree(s, t, few)
  PROVE  p[few] = q[few]
<1>1. few \in 0 .. many /\ few \in 0 .. few
  OBVIOUS
<1>2. \A i \in 1 .. few : s[i] = t[i]
  BY DEF Agree
<1>3. \A i \in 0 .. few : p[i] = q[i]
  BY <1>1, <1>2, OneConcatenation
<1>4. QED
  BY <1>1, <1>3

\* A list of lists that goes on where another one ends.
Continues(S, all, seqs, more, n, m, k) ==
  /\ n \in Nat /\ m \in Nat /\ k \in Nat /\ k = n + m
  /\ seqs \in [1 .. n -> Seq(S)] /\ more \in [1 .. m -> Seq(S)] /\ all \in [1 .. k -> Seq(S)]
  /\ \A i \in 1 .. n : all[i] = seqs[i]
  /\ \A j \in 1 .. m : all[n + j] = more[j]

\* Two lists of lists, one after the other, flatten one after the other.
LEMMA FlattenJoin ==
  ASSUME NEW S, NEW n, NEW m, NEW k, NEW all, NEW seqs, NEW more,
         Continues(S, all, seqs, more, n, m, k)
  PROVE  FlattenSeq(all) = Join(FlattenSeq(seqs), FlattenSeq(more))
<1>0. /\ n \in Nat /\ m \in Nat /\ k \in Nat
      /\ seqs \in [1 .. n -> Seq(S)] /\ more \in [1 .. m -> Seq(S)] /\ all \in [1 .. k -> Seq(S)]
  BY DEF Continues
<1> USE <1>0
<1>1. n \in 0 .. k
  BY DEF Continues
<1>4. PICK p : Concatenates(p, seqs, n, S) /\ FlattenSeq(seqs) = p[n]
  BY FlattenConcatenates
<1>5. PICK q : Concatenates(q, more, m, S) /\ FlattenSeq(more) = q[m]
  BY FlattenConcatenates
<1>6. PICK r : Concatenates(r, all, k, S) /\ FlattenSeq(all) = r[k]
  BY FlattenConcatenates
<1>7. r[n] = p[n]
  <2>1. Agree(seqs, all, n)
    BY DEF Agree, Continues
  <2>2. n <= k
    BY <1>1
  <2>3. Concatenates(p, seqs, n, S) /\ Concatenates(r, all, k, S)
    BY <1>4, <1>6
  <2>4. QED
    BY <2>1, <2>2, <2>3, SamePrefix
<1>8. PICK front \in Seq(S) : front = p[n]
  BY <1>4 DEF Concatenates
<1> DEFINE T == {j \in 0 .. m : r[n + j] = Join(front, q[j])}
<1>9. 0 \in T /\ T \in SUBSET (0 .. m)
  <2>1. q[0] = <<>>
    BY <1>5 DEF Concatenates
  <2>2. Join(front, <<>>) = front
    BY ConcatEmptySeq DEF Join
  <2>3. n + 0 = n /\ 0 \in 0 .. m
    OBVIOUS
  <2>4. QED
    BY <1>7, <1>8, <2>1, <2>2, <2>3
<1>10. ASSUME NEW j \in 0 .. m, j \in T, j < m PROVE j + 1 \in T
  <2>1. PICK i \in 1 .. m, l \in 1 .. k : i = j + 1 /\ i - 1 = j /\ l = n + i /\ l - 1 = n + j
    <3>1. j + 1 \in 1 .. m /\ n + (j + 1) \in 1 .. k /\ (j + 1) - 1 = j /\ (n + (j + 1)) - 1 = n + j
      <4> HIDE DEF T
      <4>1. QED
        BY <1>10 DEF Continues
    <3>2. QED
      BY <3>1
  <2>2. PICK next \in Seq(S) : next = all[l] /\ next = more[i]
    BY <2>1 DEF Continues
  <2>3. PICK back \in Seq(S) : back = q[j]
    BY <1>5 DEF Concatenates
  <2>4. r[l] = Join(r[l - 1], next)
    BY <1>6, <2>2 DEF Concatenates, Join
  <2>5. r[l - 1] = Join(front, back)
    BY <1>10, <2>1, <2>3
  <2>6. q[i] = Join(back, next)
    BY <1>5, <2>1, <2>2, <2>3 DEF Concatenates, Join
  <2>7. r[l] = Join(front, q[i])
    BY <2>4, <2>5, <2>6, JoinAssociative
  <2>8. QED
    BY <2>1, <2>7
<1>11. T = 0 .. m
  <2> HIDE DEF T
  <2>1. QED
    BY <1>9, <1>10, Upward
<1>12. m \in T
  <2> HIDE DEF T
  <2>1. QED
    BY <1>11
<1>13. r[k] = Join(front, q[m])
  BY <1>12 DEF Continues
<1>14. QED
  BY <1>4, <1>5, <1>6, <1>8, <1>13

\* A list of one list flattens to it.
LEMMA FlattenOne ==
  ASSUME NEW S, NEW s \in Seq(S), NEW one \in [1 .. 1 -> Seq(S)], one[1] = s
  PROVE  FlattenSeq(one) = s
<1>1. 1 \in Nat
  OBVIOUS
<1>2. PICK p : Concatenates(p, one, 1, S) /\ FlattenSeq(one) = p[1]
  BY <1>1, FlattenConcatenates, Zenon
<1>3. p[1] = p[0] \o one[1] /\ p[0] = <<>>
  <2>1. 1 \in 1 .. 1 /\ 1 - 1 = 0
    OBVIOUS
  <2>2. QED
    BY <1>2, <2>1 DEF Concatenates
<1>4. <<>> \o s = s
  BY ConcatEmptySeq
<1>5. QED
  BY <1>1, <1>2, <1>3, <1>4, Zenon

\* What is taken apart into single elements flattens to what it was.
LEMMA FlattenSingles ==
  ASSUME NEW S, NEW s \in Seq(S), NEW n \in Nat, n = Len(s), NEW singles \in [1 .. n -> Seq(S)],
         \A i \in 1 .. n : singles[i] = <<s[i]>>
  PROVE  FlattenSeq(singles) = s
<1>1. PICK p : Concatenates(p, singles, n, S) /\ FlattenSeq(singles) = p[n]
  BY FlattenConcatenates
<1> DEFINE First(k) == SubSeq(s, 1, k)
           T == {k \in 0 .. n : p[k] = First(k)}
<1>2. First(0) = <<>> /\ First(n) = s
  BY SubSeqEmpty, SubSeqFull
<1>3. ASSUME NEW i \in 1 .. n
      PROVE  First(i) = First(i - 1) \o <<s[i]>>
  BY SubSeqRecursiveSecond
<1> HIDE DEF First
<1>4. 0 \in T /\ T \in SUBSET (0 .. n)
  <2>1. p[0] = <<>>
    BY <1>1 DEF Concatenates
  <2>2. QED
    BY <1>2, <2>1
<1>5. ASSUME NEW k \in 0 .. n, k \in T, k < n PROVE k + 1 \in T
  <2>1. PICK i \in 1 .. n : i = k + 1 /\ i - 1 = k
    BY <1>5
  <2>2. p[i] = p[i - 1] \o <<s[i]>> /\ p[k] = First(k)
    BY <1>1, <1>5, <2>1, Zenon DEF Concatenates
  <2>3. First(i) = First(i - 1) \o <<s[i]>>
    BY <1>3
  <2>4. p[i] = First(i)
    BY <2>1, <2>2, <2>3, Zenon
  <2>5. QED
    BY <2>1, <2>4
<1>6. T = 0 .. n
  <2> HIDE DEF T
  <2>1. QED
    BY <1>4, <1>5, Upward
<1>7. n \in T
  <2> HIDE DEF T
  <2>1. QED
    BY <1>6
<1>8. QED
  BY <1>1, <1>2, <1>7
=============================================================================
