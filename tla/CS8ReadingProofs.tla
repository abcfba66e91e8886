-------------------------- MODULE CS8ReadingProofs --------------------------
(***************************************************************************)
(* The scanner of cs8_asm.l reads its files as CS8Include says.            *)
(*                                                                         *)
(* CS8Include has items: tokens and includes.  CS8Scanner has lexemes, a   *)
(* start condition, a buffer for strings and backslashes.  An account ties *)
(* them together: what has been read of a file, followed by what remains   *)
(* of it under the start condition, are the items of the file.  ItemsInv   *)
(* keeps one for the innermost file, and one for each file below it, which *)
(* is outside of strings and literals; there what has been read is what    *)
(* ends in front of the scanner, so that the map of CS8Language goes on    *)
(* item by item.                                                           *)
(*                                                                         *)
(* That the files below are outside of strings holds because the files     *)
(* above them close what they open (IncludesClose): the start condition is *)
(* one variable for all files.                                             *)
(***************************************************************************)
EXTENDS CS8LanguageProofs, FiniteSetTheorems

-----------------------------------------------------------------------------
(* Where the first one of a kind is. *)

\* A file is a list of lexemes.
IsFile(s) ==
  /\ Len(s) \in Nat /\ DOMAIN s = 1 .. Len(s)
  /\ \A i \in 1 .. Len(s) : s[i].kind \in Kinds

\* A file of the disk is such a list.
LEMMA DiskFile == \A f \in DOMAIN Disk : IsFile(Disk[f])
BY IncludeAssumption, ScannerAssumption DEF IsFile

\* The least of a set of numbers.
LEMMA FirstIs ==
  ASSUME NEW T \in SUBSET Nat, NEW none
  PROVE  /\ T = {} => First(T, none) = none
         /\ T # {} => First(T, none) \in T /\ \A x \in T : First(T, none) <= x
<1>1. CASE T = {}
  BY <1>1 DEF First
<1>2. CASE T # {}
  <2>1. First(T, none) = CHOOSE x \in T : \A y \in T : x =< y
    BY <1>2 DEF First, Min
  <2>2. \E x \in T : \A y \in T : x =< y
    BY <1>2, Least
  <2>3. First(T, none) \in T /\ \A y \in T : First(T, none) =< y
    BY <2>1, <2>2, Zenon
  <2>4. QED
    BY <1>2, <2>3
<1>3. QED
  BY <1>1, <1>2

\* What is found is the first one from p on.
FoundAt(s, p, kinds, e) ==
  /\ e \in p .. Len(s) + 1
  /\ \A i \in p .. e - 1 : s[i].kind \notin kinds
  /\ e <= Len(s) => s[e].kind \in kinds

\* Find(s, p, kinds) is the first place from p on with one of the kinds.
LEMMA FindIs ==
  ASSUME NEW s, Len(s) \in Nat, NEW p \in 1 .. Len(s) + 1, NEW kinds
  PROVE  FoundAt(s, p, kinds, Find(s, p, kinds))
<1> DEFINE T == {i \in p .. Len(s) : s[i].kind \in kinds}
<1>1. T \in SUBSET Nat
  OBVIOUS
<1>2. Find(s, p, kinds) = First(T, Len(s) + 1)
  BY DEF Find
<1>3. CASE T = {}
  <2>1. Find(s, p, kinds) = Len(s) + 1
    BY <1>1, <1>2, <1>3, FirstIs
  <2>2. \A i \in p .. Len(s) : s[i].kind \notin kinds
    BY <1>3
  <2>3. QED
    BY <2>1, <2>2 DEF FoundAt
<1>4. CASE T # {}
  <2>0. First(T, Len(s) + 1) \in T /\ \A x \in T : First(T, Len(s) + 1) <= x
    <3> HIDE DEF T
    <3>1. QED
      BY <1>1, <1>4, FirstIs
  <2>1. PICK e : e = Find(s, p, kinds) /\ e \in T /\ \A x \in T : e <= x
    BY <1>2, <2>0
  <2>2. e \in p .. Len(s) /\ s[e].kind \in kinds
    BY <2>1
  <2>3. \A i \in p .. e - 1 : s[i].kind \notin kinds
    BY <2>1, <2>2
  <2>4. QED
    BY <2>1, <2>2, <2>3 DEF FoundAt
<1>5. QED
  BY <1>3, <1>4

\* There is only one such place.
LEMMA FoundOnce ==
  ASSUME NEW s, Len(s) \in Nat, NEW p \in 1 .. Len(s) + 1, NEW kinds, NEW e, NEW f,
         FoundAt(s, p, kinds, e), FoundAt(s, p, kinds, f)
  PROVE  e = f
<1>1. e \in Int /\ f \in Int
  BY DEF FoundAt
<1>2. ~ (e < f)
  BY DEF FoundAt
<1>3. ~ (f < e)
  BY DEF FoundAt
<1>4. QED
  BY <1>1, <1>2, <1>3

\* The scanner's longest match ends where the first of the others is.
LEMMA RunEndFinds ==
  ASSUME IsFile(Rest), NEW p \in 1 .. Len(Rest) + 1, NEW kinds
  PROVE  RunEnd(p, kinds) = Find(Rest, p, Kinds \ kinds)
<1> DEFINE P(e) == /\ \A i \in p .. e - 1 : Rest[i].kind \in kinds
                   /\ e <= Len(Rest) => Rest[e].kind \notin kinds
<1>1. Len(Rest) \in Nat /\ \A i \in 1 .. Len(Rest) : Rest[i].kind \in Kinds
  BY DEF IsFile
<1>2. RunEnd(p, kinds) = CHOOSE e \in p .. Len(Rest) + 1 : P(e)
  BY DEF RunEnd
<1>3. \A e \in p .. Len(Rest) + 1 : P(e) <=> FoundAt(Rest, p, Kinds \ kinds, e)
  <2> SUFFICES ASSUME NEW e \in p .. Len(Rest) + 1 PROVE P(e) <=> FoundAt(Rest, p, Kinds \ kinds, e)
    OBVIOUS
  <2>1. e <= Len(Rest) => e \in 1 .. Len(Rest)
    BY <1>1
  <2>2. \A i \in p .. e - 1 : i \in 1 .. Len(Rest)
    BY <1>1
  <2>3. QED
    BY <1>1, <2>1, <2>2 DEF FoundAt
<1> HIDE DEF P
<1>4. FoundAt(Rest, p, Kinds \ kinds, Find(Rest, p, Kinds \ kinds))
  BY <1>1, FindIs
<1>5. \E e \in p .. Len(Rest) + 1 : P(e)
  BY <1>3, <1>4 DEF FoundAt
<1>6. RunEnd(p, kinds) \in p .. Len(Rest) + 1 /\ P(RunEnd(p, kinds))
  BY <1>2, <1>5, Zenon
<1>7. QED
  BY <1>1, <1>3, <1>4, <1>6, FoundOnce

-----------------------------------------------------------------------------
(* What a backslash takes along. *)

\* The backslashes right in front of lexeme i.
Slashes(s, i, p) == {n \in p .. i - 1 : \A k \in n .. i - 1 : s[k].kind = "\\"}

\* A lexeme is taken along if it is no newline and behind an odd number of backslashes.
LEMMA TakenIs ==
  ASSUME NEW s, NEW i, NEW p
  PROVE  Taken(s, i, p) <=> s[i].kind # "newline" /\ Cardinality(Slashes(s, i, p)) % 2 = 1
BY DEF Taken, Slashes

\* One lexeme further they are one more, or none at all.
LEMMA SlashesNext ==
  ASSUME NEW s, NEW p \in Nat, NEW i \in Nat, p <= i
  PROVE  /\ IsFiniteSet(Slashes(s, i, p)) /\ i \notin Slashes(s, i, p)
         /\ Slashes(s, i + 1, p) =
              IF s[i].kind = "\\" THEN Slashes(s, i, p) \union {i} ELSE {}
<1>1. Slashes(s, i, p) \in SUBSET (p .. i - 1)
  BY DEF Slashes
<1>2. IsFiniteSet(p .. i - 1)
  BY FS_Interval
<1>3. IsFiniteSet(Slashes(s, i, p))
  BY <1>1, <1>2, FS_Subset
<1>4. i \notin Slashes(s, i, p)
  BY <1>1
<1>5. CASE s[i].kind = "\\"
  <2>1. ASSUME NEW n PROVE n \in Slashes(s, i + 1, p) <=> n \in Slashes(s, i, p) \union {i}
    <3>1. n \in p .. i <=> n \in p .. i - 1 \/ n = i
      OBVIOUS
    <3>2. ASSUME n \in p .. i
          PROVE  (\A k \in n .. i : s[k].kind = "\\") <=> (\A k \in n .. i - 1 : s[k].kind = "\\")
      <4>1. \A k : k \in n .. i <=> k \in n .. i - 1 \/ k = i
        BY <3>2
      <4>2. QED
        BY <4>1, <1>5
    <3>3. i + 1 - 1 = i /\ i .. i - 1 = {}
      OBVIOUS
    <3>4. QED
      BY <3>1, <3>2, <3>3 DEF Slashes
  <2>2. QED
    BY <2>1, <1>3, <1>4, <1>5
<1>6. CASE s[i].kind # "\\"
  <2>1. \A n \in p .. i : i \in n .. i
    OBVIOUS
  <2>2. Slashes(s, i + 1, p) = {}
    <3>1. i + 1 - 1 = i
      OBVIOUS
    <3>2. QED
      BY <2>1, <1>6, <3>1 DEF Slashes
  <2>3. QED
    BY <2>2, <1>3, <1>4, <1>6
<1>7. QED
  BY <1>5, <1>6

\* At the beginning nothing is taken; further on what is behind a backslash
\* that is not itself taken.
LEMMA TakenFirst ==
  ASSUME NEW s, NEW p \in Nat
  PROVE  ~ Taken(s, p, p)
<1>1. Slashes(s, p, p) = {}
  BY DEF Slashes
<1>2. Cardinality({}) = 0
  BY FS_EmptySet
<1>3. QED
  BY <1>1, <1>2, TakenIs

\* A lexeme is taken along by the backslash in front of it, unless that one is taken along.
LEMMA TakenNext ==
  ASSUME NEW s, NEW p \in Nat, NEW i \in Nat, p <= i
  PROVE  Taken(s, i + 1, p) <=>
           s[i + 1].kind # "newline" /\ s[i].kind = "\\" /\ ~ Taken(s, i, p)
<1> DEFINE here == Slashes(s, i, p)
<1>1. /\ IsFiniteSet(here) /\ i \notin here
      /\ Slashes(s, i + 1, p) = IF s[i].kind = "\\" THEN here \union {i} ELSE {}
  BY SlashesNext
<1>2. PICK c \in Nat : c = Cardinality(here)
  BY <1>1, FS_CardinalityType
<1>3. Cardinality(here \union {i}) = c + 1
  BY <1>1, <1>2, FS_AddElement
<1> HIDE DEF here
<1>4. CASE s[i].kind # "\\"
  <2>1. Cardinality(Slashes(s, i + 1, p)) = 0
    BY <1>1, <1>4, FS_EmptySet
  <2>2. QED
    BY <2>1, <1>4, TakenIs
<1>5. CASE s[i].kind = "\\"
  <2>1. Cardinality(Slashes(s, i + 1, p)) = c + 1
    BY <1>1, <1>3, <1>5
  <2>2. (c + 1) % 2 = 1 <=> ~ (c % 2 = 1)
    BY <1>2
  <2>3. Taken(s, i, p) <=> c % 2 = 1
    BY <1>2, <1>5, TakenIs DEF here
  <2>4. Taken(s, i + 1, p) <=> s[i + 1].kind # "newline" /\ (c + 1) % 2 = 1
    BY <2>1, TakenIs
  <2>5. QED
    BY <2>2, <2>3, <2>4, <1>5
<1>6. QED
  BY <1>4, <1>5

\* The first one that closes, and is not taken along.
ClosesAt(s, p, kind, e) ==
  /\ e \in p .. Len(s) + 1
  /\ \A i \in p .. e - 1 : s[i].kind = kind => Taken(s, i, p)
  /\ e <= Len(s) => s[e].kind = kind /\ ~ Taken(s, e, p)

\* Closing(s, p, kind) is that place.
LEMMA ClosingIs ==
  ASSUME NEW s, Len(s) \in Nat, NEW p \in 1 .. Len(s) + 1, NEW kind
  PROVE  ClosesAt(s, p, kind, Closing(s, p, kind))
<1> DEFINE T == {i \in p .. Len(s) : s[i].kind = kind /\ ~ Taken(s, i, p)}
<1>1. T \in SUBSET Nat
  OBVIOUS
<1>2. Closing(s, p, kind) = First(T, Len(s) + 1)
  BY DEF Closing
<1>3. CASE T = {}
  <2>1. Closing(s, p, kind) = Len(s) + 1
    BY <1>1, <1>2, <1>3, FirstIs
  <2>2. \A i \in p .. Len(s) : s[i].kind = kind => Taken(s, i, p)
    BY <1>3
  <2>3. QED
    BY <2>1, <2>2 DEF ClosesAt
<1>4. CASE T # {}
  <2>1. PICK e : e = Closing(s, p, kind) /\ e \in T /\ \A x \in T : e <= x
    BY <1>1, <1>2, <1>4, FirstIs
  <2>2. e \in p .. Len(s) /\ s[e].kind = kind /\ ~ Taken(s, e, p)
    BY <2>1
  <2>3. \A i \in p .. e - 1 : s[i].kind = kind => Taken(s, i, p)
    BY <2>1, <2>2
  <2>4. QED
    BY <2>1, <2>2, <2>3 DEF ClosesAt
<1>5. QED
  BY <1>3, <1>4

-----------------------------------------------------------------------------
(* What is at a place. *)

OnFrom(s, p)   == Find(s, Find(s, p, {"newline"}), Kinds \ {"newline"})
NameAt(s, p)   == Find(s, p + 1, Kinds \ Spaces)
PastFrom(s, p) == Find(s, NameAt(s, p), Spaces)

NewlineItem(s, p) == TextItem(Newline, OnFrom(s, p) - 1)
StringItem(s, p, e) == TextItem(String(CodesIn(s, p + 1, p + 1, e - 1)), e)
IncludeAt(s, p) ==
  IncludeItem(PathOf(SubSeq(s, NameAt(s, p), PastFrom(s, p) - 1)), PastFrom(s, p) - 1)
TokenItem(s, p) == TextItem(TokenOf(s[p]), p)

IsRegion(s, p, items, next) == Region(s, p).items = items /\ Region(s, p).next = next

Alone == Kinds \ ({"blank", Quote, "'", ".include"} \union EndsLine)

\* A quote is no other kind.  (As a word it is beyond one of the provers.)
LEMMA QuoteOnly ==
  /\ Quote \in Kinds
  /\ Quote # "blank" /\ Quote # "newline" /\ Quote # "'" /\ Quote # ".include"
  /\ Quote # "\\" /\ Quote \notin EndsLine
BY Zenon DEF Quote, Kinds, EndsLine

\* Nor is what ends a line.
LEMMA EndsLineOnly ==
  /\ EndsLine \subseteq Kinds /\ "newline" \in EndsLine
  /\ "blank" \notin EndsLine /\ "'" \notin EndsLine /\ ".include" \notin EndsLine
  /\ "\\" \notin EndsLine
BY Zenon DEF Kinds, EndsLine, Spaces

\* A blank is no item (cs8_asm.l: the rule for [ \t]+ returns nothing).
LEMMA RegionBlank ==
  ASSUME NEW s, NEW p, s[p].kind = "blank"
  PROVE  IsRegion(s, p, <<>>, p + 1)
BY QuoteOnly, EndsLineOnly DEF Region, IsRegion

\* All that ends a line, with the newlines behind it, is one newline.
LEMMA RegionNewline ==
  ASSUME NEW s, NEW p, s[p].kind \in EndsLine
  PROVE  IsRegion(s, p, <<NewlineItem(s, p)>>, OnFrom(s, p))
BY QuoteOnly, EndsLineOnly DEF Region, IsRegion, NewlineItem, OnFrom

\* A string is one item, or nothing if it is not closed.
LEMMA RegionString ==
  ASSUME NEW s, NEW p, Len(s) \in Nat, s[p].kind = Quote, NEW e \in Nat, e = Closing(s, p + 1, Quote)
  PROVE  IF e > Len(s) THEN IsRegion(s, p, <<>>, Len(s) + 2)
         ELSE IsRegion(s, p, <<StringItem(s, p, e)>>, e + 1)
<1>1. CASE e > Len(s)
  <2>1. Closing(s, p + 1, Quote) > Len(s) /\ ~ (Closing(s, p + 1, Quote) <= Len(s))
    BY <1>1
  <2>2. IsRegion(s, p, <<>>, Len(s) + 2)
    BY <2>1, QuoteOnly, EndsLineOnly DEF Region, IsRegion
  <2>3. QED
    BY <1>1, <2>2
<1>2. CASE ~ (e > Len(s))
  <2>1. e <= Len(s)
    BY <1>2
  <2>2. QED
    BY <1>2, <2>1, QuoteOnly, EndsLineOnly DEF Region, IsRegion, StringItem
<1>3. QED
  BY <1>1, <1>2

\* A literal is an item for each of its characters.
LEMMA RegionTick ==
  ASSUME NEW s, NEW p, s[p].kind = "'", NEW e, e = Closing(s, p + 1, "'")
  PROVE  IsRegion(s, p, CharsIn(s, p + 1, p + 1, e - 1), e + 1)
BY QuoteOnly, EndsLineOnly DEF Region, IsRegion

\* An include is one item, or nothing if it has no name.
LEMMA RegionInclude ==
  ASSUME NEW s, NEW p, Len(s) \in Nat, s[p].kind = ".include", NameAt(s, p) \in Nat
  PROVE  IF NameAt(s, p) > Len(s) THEN IsRegion(s, p, <<>>, Len(s) + 2)
         ELSE IsRegion(s, p, <<IncludeAt(s, p)>>, PastFrom(s, p))
<1>1. CASE NameAt(s, p) > Len(s)
  <2>1. NameAt(s, p) > Len(s) /\ ~ (NameAt(s, p) <= Len(s))
    BY <1>1
  <2>2. IsRegion(s, p, <<>>, Len(s) + 2)
    BY <2>1, QuoteOnly, EndsLineOnly DEF Region, IsRegion, NameAt
  <2>3. QED
    BY <1>1, <2>2
<1>2. CASE ~ (NameAt(s, p) > Len(s))
  <2>1. NameAt(s, p) <= Len(s)
    BY <1>2
  <2>2. QED
    BY <1>2, <2>1, QuoteOnly, EndsLineOnly DEF Region, IsRegion, NameAt, PastFrom, IncludeAt
<1>3. QED
  BY <1>1, <1>2

\* Everything else is an item of its own.
LEMMA RegionToken ==
  ASSUME NEW s, NEW p, s[p].kind \in Alone
  PROVE  IsRegion(s, p, <<TokenItem(s, p)>>, p + 1)
BY QuoteOnly, EndsLineOnly DEF Region, IsRegion, TokenItem, Alone

-----------------------------------------------------------------------------
(* The characters between two ticks, and those of a string. *)

\* An item that ends at one of these lexemes.
Within(S, items, lo, hi) ==
  /\ items \in Seq(S) /\ \A k \in 1 .. Len(items) : items[k].last \in lo .. hi

CharItems(s) == {TextItem(Character(s[i].codes, b), i) : i \in Nat, b \in BOOLEAN}

\* A lexeme of a literal is at most one item, and that ends with it.
LEMMA CharAtType ==
  ASSUME NEW s, NEW i \in Nat, NEW p
  PROVE  /\ CharAt(s, i, p) \in Seq(CharItems(s))
         /\ \A x \in Range(CharAt(s, i, p)) : x.last = i
<1>1. Taken(s, i, p) \in BOOLEAN
  BY DEF Taken
<1>2. TextItem(Character(s[i].codes, Taken(s, i, p)), i) \in CharItems(s)
  BY <1>1 DEF CharItems
<1>3. CASE Takes(s, i, p)
  BY <1>3 DEF CharAt, Range
<1>4. CASE ~ Takes(s, i, p)
  <2>1. CharAt(s, i, p) = <<TextItem(Character(s[i].codes, Taken(s, i, p)), i)>>
    BY <1>4 DEF CharAt
  <2>2. QED
    BY <1>2, <2>1 DEF Range, TextItem
<1>5. QED
  BY <1>3, <1>4

CharLists(s, p, from, to) == [i \in 1 .. to - from + 1 |-> CharAt(s, from + i - 1, p)]

\* So the lexemes of a part of a literal are a list of such lists.
LEMMA CharListsType ==
  ASSUME NEW s, NEW p, NEW from \in Nat, NEW to \in Int, from <= to + 1
  PROVE  /\ to - from + 1 \in Nat
         /\ CharLists(s, p, from, to) \in [1 .. to - from + 1 -> Seq(CharItems(s))]
<1>1. \A i \in 1 .. to - from + 1 : from + i - 1 \in Nat
  OBVIOUS
<1>2. QED
  BY <1>1, CharAtType DEF CharLists

\* The items of a part of a literal end within that part.
LEMMA CharsWithin ==
  ASSUME NEW s, NEW p, NEW from \in Nat, NEW to \in Int, from <= to + 1
  PROVE  Within(CharItems(s), CharsIn(s, p, from, to), from, to)
<1>1. PICK n \in Nat : n = to - from + 1
  OBVIOUS
<1>2. PICK lists \in [1 .. n -> Seq(CharItems(s))] : lists = CharLists(s, p, from, to)
  BY <1>1, CharListsType
<1>3. CharsIn(s, p, from, to) = FlattenSeq(lists)
  BY <1>2 DEF CharsIn, CharLists
<1>4. PICK q : Concatenates(q, lists, n, CharItems(s)) /\ FlattenSeq(lists) = q[n]
  BY FlattenConcatenates
<1>5. Range(q[n]) = UNION {Range(lists[i]) : i \in 1 .. n}
  BY <1>4, ConcatenationRange
<1>6. q[n] \in Seq(CharItems(s))
  BY <1>4 DEF Concatenates
<1>7. ASSUME NEW k \in 1 .. Len(q[n]) PROVE q[n][k].last \in from .. to
  <2>1. q[n][k] \in Range(q[n])
    BY <1>6 DEF Range
  <2>2. PICK i \in 1 .. n : q[n][k] \in Range(lists[i])
    BY <2>1, <1>5
  <2>3. lists[i] = CharAt(s, from + i - 1, p) /\ from + i - 1 \in Nat /\ from + i - 1 \in from .. to
    BY <1>1, <1>2 DEF CharLists
  <2>4. q[n][k].last = from + i - 1
    BY <2>2, <2>3, CharAtType
  <2>5. QED
    BY <2>3, <2>4
<1>8. QED
  BY <1>3, <1>4, <1>6, <1>7 DEF Within

\* What there is up to a place, and behind it.
LEMMA CharsSplit ==
  ASSUME NEW s, NEW p, NEW from \in Nat, NEW mid \in Int, NEW to \in Int,
         from <= mid + 1, mid <= to
  PROVE  CharsIn(s, p, from, to) = Join(CharsIn(s, p, from, mid), CharsIn(s, p, mid + 1, to))
<1> DEFINE S == CharItems(s)
<1>1. PICK n, m, k \in Nat : n = mid - from + 1 /\ m = to - mid /\ k = to - from + 1 /\ k = n + m
  <2>1. mid - from + 1 \in Nat /\ to - mid \in Nat /\ to - from + 1 \in Nat
    OBVIOUS
  <2>2. to - from + 1 = (mid - from + 1) + (to - mid)
    OBVIOUS
  <2>3. QED
    BY <2>1, <2>2
<1>2. PICK few \in [1 .. n -> Seq(S)] : few = CharLists(s, p, from, mid)
  BY <1>1, CharListsType
<1>3. PICK more \in [1 .. m -> Seq(S)] : more = CharLists(s, p, mid + 1, to)
  <2>1. mid + 1 \in Nat /\ mid + 1 <= to + 1 /\ to - (mid + 1) + 1 = m
    BY <1>1
  <2>2. CharLists(s, p, mid + 1, to) \in [1 .. m -> Seq(S)]
    BY <2>1, CharListsType
  <2>3. QED
    BY <2>2
<1>4. PICK all \in [1 .. k -> Seq(S)] : all = CharLists(s, p, from, to)
  <2>1. from <= to + 1
    OBVIOUS
  <2>2. CharLists(s, p, from, to) \in [1 .. k -> Seq(S)]
    BY <1>1, <2>1, CharListsType
  <2>3. QED
    BY <2>2
<1> HIDE DEF S
<1>5. \A i \in 1 .. n : all[i] = few[i]
  BY <1>1, <1>2, <1>4 DEF CharLists
<1>6. ASSUME NEW j \in 1 .. m PROVE all[n + j] = more[j]
  <2>1. n + j \in 1 .. to - from + 1 /\ j \in 1 .. to - (mid + 1) + 1
    BY <1>1
  <2>2. from + (n + j) - 1 = (mid + 1) + j - 1
    BY <1>1
  <2>3. QED
    BY <2>1, <2>2, <1>3, <1>4 DEF CharLists
<1>7. Continues(S, all, few, more, n, m, k)
  BY <1>1, <1>5, <1>6 DEF Continues
<1>8. FlattenSeq(all) = Join(FlattenSeq(few), FlattenSeq(more))
  BY <1>7, FlattenJoin
<1>9. QED
  BY <1>2, <1>3, <1>4, <1>8 DEF CharsIn, CharLists

\* The items of one lexeme,
LEMMA CharsOne ==
  ASSUME NEW s, NEW p, NEW i \in Nat
  PROVE  CharsIn(s, p, i, i) = CharAt(s, i, p)
<1>1. i - i + 1 = 1 /\ i <= i + 1 /\ i + 1 - 1 = i
  OBVIOUS
<1>2. PICK one \in [1 .. 1 -> Seq(CharItems(s))] : one = CharLists(s, p, i, i)
  <2>0. PICK to \in Int : to = i
    OBVIOUS
  <2>1. CharLists(s, p, i, to) \in [1 .. to - i + 1 -> Seq(CharItems(s))]
    BY <1>1, <2>0, CharListsType
  <2>3. to - i + 1 = 1
    BY <2>0
  <2>2. QED
    BY <2>0, <2>1, <2>3
<1>3. one[1] = CharAt(s, i, p)
  BY <1>1, <1>2 DEF CharLists
<1>4. CharAt(s, i, p) \in Seq(CharItems(s))
  BY CharAtType
<1>5. FlattenSeq(one) = CharAt(s, i, p)
  BY <1>3, <1>4, FlattenOne
<1>6. QED
  BY <1>2, <1>5 DEF CharsIn, CharLists

\* and those of none.
LEMMA CharsNone ==
  ASSUME NEW s, NEW p, NEW i \in Nat
  PROVE  CharsIn(s, p, i, i - 1) = <<>>
<1>1. 1 .. i - 1 - i + 1 = {}
  OBVIOUS
<1>2. CharLists(s, p, i, i - 1) = <<>>
  BY <1>1 DEF CharLists
<1>3. QED
  BY <1>2, FlattenNone DEF CharsIn, CharLists

\* The first of them, and the others.
LEMMA CharsFirst ==
  ASSUME NEW s, NEW p, NEW i \in Nat, NEW to \in Int, i <= to
  PROVE  CharsIn(s, p, i, to) = Join(CharAt(s, i, p), CharsIn(s, p, i + 1, to))
<1>1. CharsIn(s, p, i, to) = Join(CharsIn(s, p, i, i), CharsIn(s, p, i + 1, to))
  <2>1. i \in Int /\ i <= i + 1
    OBVIOUS
  <2>2. QED
    BY <2>1, CharsSplit
<1>2. QED
  BY <1>1, CharsOne

-----------------------------------------------------------------------------
(* The same for the codes in a string. *)

\* Every lexeme has codes.
HasCodes(s) == \A i \in 1 .. Len(s) : s[i].codes \in Seq(Byte) \ {<<>>}

\* Every lexeme of a file of the disk does.
LEMMA DiskCodes == \A f \in DOMAIN Disk : HasCodes(Disk[f])
BY ScannerAssumption DEF HasCodes

\* What a lexeme adds to a string is a list of bytes.
LEMMA CodesAtType ==
  ASSUME NEW s, HasCodes(s), NEW i \in 1 .. Len(s), NEW p
  PROVE  CodesAt(s, i, p) \in Seq(Byte)
<1>1. PICK codes \in Seq(Byte) : codes = s[i].codes /\ codes # <<>>
  BY DEF HasCodes
<1>2. <<10>> \in Seq(Byte) /\ <<92>> \in Seq(Byte)
  BY DEF Byte, Between
<1>3. Tail(codes) \in Seq(Byte)
  BY <1>1
<1>4. <<10>> \o Tail(codes) \in Seq(Byte) /\ <<92>> \o codes \in Seq(Byte)
  BY <1>2, <1>3, ConcatProperties
<1>5. CASE Takes(s, i, p)
  <2>1. <<>> \in Seq(Byte)
    OBVIOUS
  <2>2. CodesAt(s, i, p) = <<>>
    BY <1>5 DEF CodesAt, Takes
  <2>3. QED
    BY <2>1, <2>2
<1>6. CASE ~ Takes(s, i, p) /\ Taken(s, i, p)
  BY <1>1, <1>4, <1>6 DEF CodesAt, Escaped
<1>7. CASE ~ Takes(s, i, p) /\ ~ Taken(s, i, p)
  BY <1>1, <1>7 DEF CodesAt
<1>8. QED
  BY <1>5, <1>6, <1>7

CodeLists(s, p, from, to) == [i \in 1 .. to - from + 1 |-> CodesAt(s, from + i - 1, p)]

\* The bytes up to a lexeme are those in front of it and its own.
LEMMA CodesMore ==
  ASSUME NEW s, HasCodes(s), NEW p, NEW from \in Nat \ {0}, NEW to \in 1 .. Len(s), from <= to
  PROVE  CodesIn(s, p, from, to) = Join(CodesIn(s, p, from, to - 1), CodesAt(s, to, p))
<1>1. PICK n, m \in Nat : n = to - from /\ m = to - from + 1 /\ m = n + 1 /\ n = to - 1 - from + 1
  OBVIOUS
<1>2. \A i \in 1 .. m : from + i - 1 \in 1 .. Len(s)
  BY <1>1
<1>3. PICK more : more = CodeLists(s, p, from, to) /\ more \in [1 .. m -> Seq(Byte)]
  <2>1. \A i \in 1 .. m : CodesAt(s, from + i - 1, p) \in Seq(Byte)
    BY <1>1, <1>2, CodesAtType
  <2>2. CodeLists(s, p, from, to) = [i \in 1 .. m |-> CodesAt(s, from + i - 1, p)]
    BY <1>1 DEF CodeLists
  <2>3. QED
    BY <2>1, <2>2
<1>4. PICK few : few = CodeLists(s, p, from, to - 1) /\ few \in [1 .. n -> Seq(Byte)]
  <2>1. \A i \in 1 .. n : CodesAt(s, from + i - 1, p) \in Seq(Byte)
    BY <1>1, <1>2, CodesAtType
  <2>2. CodeLists(s, p, from, to - 1) = [i \in 1 .. n |-> CodesAt(s, from + i - 1, p)]
    BY <1>1 DEF CodeLists
  <2>3. QED
    BY <2>1, <2>2
<1>5. Agree(few, more, n)
  BY <1>1, <1>3, <1>4 DEF CodeLists, Agree
<1>6. more[m] = CodesAt(s, to, p)
  <2>1. m \in 1 .. to - from + 1 /\ from + m - 1 = to
    BY <1>1
  <2>2. QED
    BY <2>1, <1>3 DEF CodeLists
<1>7. Extends(Byte, more, few, m, n)
  BY <1>1, <1>3, <1>4, <1>5 DEF Extends, Follows
<1>8. FlattenSeq(more) = Join(FlattenSeq(few), more[m])
  BY <1>7, FlattenMore
<1>9. QED
  BY <1>3, <1>4, <1>6, <1>8 DEF CodesIn, CodeLists

\* The bytes of a part of a string are bytes,
LEMMA CodesInType ==
  ASSUME NEW s, HasCodes(s), NEW p, NEW from \in Nat \ {0}, NEW to \in Int,
         from <= to + 1, to <= Len(s), Len(s) \in Nat
  PROVE  CodesIn(s, p, from, to) \in Seq(Byte)
<1>1. PICK n \in Nat : n = to - from + 1
  OBVIOUS
<1>2. \A i \in 1 .. n : from + i - 1 \in 1 .. Len(s)
  BY <1>1
<1>3. \A i \in 1 .. n : CodesAt(s, from + i - 1, p) \in Seq(Byte)
  BY <1>2, CodesAtType
<1>4. PICK lists \in [1 .. n -> Seq(Byte)] : lists = CodeLists(s, p, from, to)
  <2>1. CodeLists(s, p, from, to) = [i \in 1 .. n |-> CodesAt(s, from + i - 1, p)]
    BY <1>1 DEF CodeLists
  <2>2. QED
    BY <1>3, <2>1
<1>5. FlattenSeq(lists) \in Seq(Byte)
  BY FlattenType
<1>6. QED
  BY <1>4, <1>5 DEF CodesIn, CodeLists

\* and there are none where there are no lexemes.
LEMMA CodesNone ==
  ASSUME NEW s, NEW p, NEW i \in Nat
  PROVE  CodesIn(s, p, i, i - 1) = <<>>
<1>1. 1 .. i - 1 - i + 1 = {}
  OBVIOUS
<1>2. CodeLists(s, p, i, i - 1) = <<>>
  BY <1>1 DEF CodeLists
<1>3. QED
  BY <1>2, FlattenNone DEF CodesIn, CodeLists

-----------------------------------------------------------------------------
(* The items of a file. *)

ItemsAt(s) == UNION {Range(Region(s, p).items) : p \in 1 .. Len(s)}
Entry(s)   == [items : Seq(ItemsAt(s)), closed : BOOLEAN]

\* Contents goes on from place to place.
OneRegion(s, g, p) ==
  IF p > Len(s) THEN [items |-> <<>>, closed |-> p = Len(s) + 1]
  ELSE [g[Region(s, p).next] EXCEPT !.items = Region(s, p).items \o @]

Follow(s, g) == g = [p \in 1 .. Len(s) + 2 |-> OneRegion(s, g, p)]

\* Contents(s) is what such a function has for the first place.
LEMMA ContentsAre ==
  ASSUME NEW s
  PROVE  Contents(s) = (CHOOSE g : Follow(s, g))[1]
BY Zenon DEF Contents, Follow, OneRegion

\* What is at a place is a list, and something is behind it.
Regular(s, p) ==
  /\ Region(s, p).next \in p + 1 .. Len(s) + 2
  /\ Within(ItemsAt(s), Region(s, p).items, p, Len(s))

\* A list is one of what is in it.
LEMMA ListOfItems ==
  ASSUME NEW s, NEW S, NEW p \in 1 .. Len(s), Within(S, Region(s, p).items, p, Len(s))
  PROVE  Within(ItemsAt(s), Region(s, p).items, p, Len(s))
<1>1. PICK items \in Seq(S) : items = Region(s, p).items
  BY DEF Within
<1>2. \A k \in 1 .. Len(items) : items[k] \in Range(items)
  BY DEF Range
<1>3. Range(items) \subseteq ItemsAt(s)
  BY <1>1 DEF ItemsAt
<1>4. items \in Seq(ItemsAt(s))
  BY <1>1, <1>2, <1>3
<1>5. QED
  BY <1>1, <1>4 DEF Within

\* A region that is one item is regular,
LEMMA OneItem ==
  ASSUME NEW s, NEW p \in 1 .. Len(s), NEW x, NEW next \in p + 1 .. Len(s) + 2,
         IsRegion(s, p, <<x>>, next), x.last \in p .. Len(s)
  PROVE  Regular(s, p)
<1>1. Within({x}, <<x>>, p, Len(s))
  BY DEF Within
<1>2. QED
  BY <1>1, ListOfItems DEF IsRegion, Regular

\* and so is one without items.
LEMMA NoItem ==
  ASSUME NEW s, NEW p \in 1 .. Len(s), NEW next \in p + 1 .. Len(s) + 2, IsRegion(s, p, <<>>, next)
  PROVE  Regular(s, p)
<1>1. Within({}, <<>>, p, Len(s))
  BY DEF Within
<1>2. QED
  BY <1>1, ListOfItems DEF IsRegion, Regular

\* The newlines from one on, and the rest of the line.
LEMMA OnIs ==
  ASSUME NEW s, IsFile(s), NEW p \in 1 .. Len(s), s[p].kind \in EndsLine
  PROVE  OnFrom(s, p) \in p + 1 .. Len(s) + 1
<1>1. Len(s) \in Nat /\ p \in 1 .. Len(s) + 1 /\ p \in Nat
  BY DEF IsFile
<1>2. PICK q : q = Find(s, p, {"newline"}) /\ FoundAt(s, p, {"newline"}, q)
  BY <1>1, FindIs
<1>3. q \in p .. Len(s) + 1 /\ q \in 1 .. Len(s) + 1 /\ (q <= Len(s) => s[q].kind = "newline")
  BY <1>1, <1>2 DEF FoundAt
<1>4. PICK e : e = OnFrom(s, p) /\ FoundAt(s, q, Kinds \ {"newline"}, e)
  BY <1>1, <1>2, <1>3, FindIs DEF OnFrom
<1>5. e \in q .. Len(s) + 1 /\ (e <= Len(s) => s[e].kind # "newline")
  BY <1>4 DEF FoundAt
<1>6. CASE q = p
  <2>1. e # q
    <3>1. q <= Len(s) /\ s[q].kind \in EndsLine
      BY <1>1, <1>6, EndsLineOnly
    <3>2. s[q].kind = "newline"
      BY <1>3, <3>1
    <3>3. QED
      BY <1>5, <3>1, <3>2
  <2>2. QED
    BY <1>1, <1>3, <1>4, <1>5, <1>6, <2>1
<1>7. CASE q # p
  <2>1. q \in p + 1 .. Len(s) + 1
    BY <1>1, <1>3, <1>7
  <2>2. QED
    BY <1>1, <1>4, <1>5, <2>1
<1>8. QED
  BY <1>6, <1>7

\* The name of an included file, and what is behind it.
LEMMA NameIs ==
  ASSUME NEW s, IsFile(s), NEW p \in 1 .. Len(s)
  PROVE  /\ NameAt(s, p) \in p + 1 .. Len(s) + 1 /\ FoundAt(s, p + 1, Kinds \ Spaces, NameAt(s, p))
         /\ NameAt(s, p) <= Len(s) => PastFrom(s, p) \in NameAt(s, p) + 1 .. Len(s) + 1
<1>1. Len(s) \in Nat /\ p + 1 \in 1 .. Len(s) + 1
  BY DEF IsFile
<1>2. FoundAt(s, p + 1, Kinds \ Spaces, NameAt(s, p))
  BY <1>1, FindIs DEF NameAt
<1>3. PICK q : q = NameAt(s, p) /\ q \in p + 1 .. Len(s) + 1 /\ (q <= Len(s) => s[q].kind \notin Spaces)
  BY <1>2 DEF FoundAt
<1>4. ASSUME q <= Len(s) PROVE PastFrom(s, p) \in q + 1 .. Len(s) + 1
  <2>1. q \in 1 .. Len(s) + 1
    BY <1>1, <1>3
  <2>2. PICK e : e = PastFrom(s, p) /\ FoundAt(s, q, Spaces, e)
    BY <1>1, <1>3, <2>1, FindIs DEF PastFrom
  <2>3. e \in q .. Len(s) + 1 /\ (e <= Len(s) => s[e].kind \in Spaces)
    BY <2>2 DEF FoundAt
  <2>4. e # q
    BY <1>3, <1>4, <2>3
  <2>5. QED
    BY <1>1, <2>1, <2>2, <2>3, <2>4
<1>5. QED
  BY <1>2, <1>3, <1>4

\* Every region is regular: it goes forward, and its items end within it.
LEMMA RegionIs ==
  ASSUME NEW s, IsFile(s), NEW p \in 1 .. Len(s)
  PROVE  Regular(s, p)
<1>1. Len(s) \in Nat /\ s[p].kind \in Kinds /\ p + 1 \in p + 1 .. Len(s) + 2 /\ p + 1 \in Nat
  BY DEF IsFile
<1>2. Len(s) + 2 \in p + 1 .. Len(s) + 2 /\ p \in p .. Len(s) /\ p + 1 \in 1 .. Len(s) + 1
  BY <1>1
<1>3. CASE s[p].kind = "blank"
  BY <1>1, <1>3, RegionBlank, NoItem
<1>4. CASE s[p].kind \in EndsLine
  <2>1. PICK e : e = OnFrom(s, p) /\ e \in p + 1 .. Len(s) + 1
    BY <1>4, OnIs
  <2>2. e \in p + 1 .. Len(s) + 2 /\ e - 1 \in p .. Len(s)
    BY <1>1, <2>1
  <2>3. NewlineItem(s, p).last = e - 1
    BY <2>1 DEF NewlineItem, TextItem
  <2>4. IsRegion(s, p, <<NewlineItem(s, p)>>, e)
    BY <1>4, <2>1, RegionNewline
  <2>5. QED
    BY <2>2, <2>3, <2>4, OneItem
<1>5. CASE s[p].kind = Quote
  <2>1. PICK e : e = Closing(s, p + 1, Quote) /\ ClosesAt(s, p + 1, Quote, e)
    BY <1>1, <1>2, ClosingIs
  <2>2. e \in p + 1 .. Len(s) + 1 /\ e \in Nat
    BY <1>1, <2>1 DEF ClosesAt
  <2>3. IF e > Len(s) THEN IsRegion(s, p, <<>>, Len(s) + 2)
        ELSE IsRegion(s, p, <<StringItem(s, p, e)>>, e + 1)
    BY <1>1, <1>5, <2>1, <2>2, RegionString
  <2>4. CASE e > Len(s)
    BY <1>2, <2>3, <2>4, NoItem
  <2>5. CASE ~ (e > Len(s))
    <3>1. e + 1 \in p + 1 .. Len(s) + 2 /\ e \in p .. Len(s)
      BY <1>1, <2>2, <2>5
    <3>2. StringItem(s, p, e).last = e
      BY DEF StringItem, TextItem
    <3>3. QED
      BY <2>3, <2>5, <3>1, <3>2, OneItem
  <2>6. QED
    BY <2>4, <2>5
<1>6. CASE s[p].kind = "'"
  <2>1. PICK e : e = Closing(s, p + 1, "'") /\ ClosesAt(s, p + 1, "'", e)
    BY <1>1, <1>2, ClosingIs
  <2>2. e \in p + 1 .. Len(s) + 1 /\ e + 1 \in p + 1 .. Len(s) + 2 /\ p + 1 <= e - 1 + 1 /\ e - 1 \in Int
    BY <1>1, <2>1 DEF ClosesAt
  <2>3. IsRegion(s, p, CharsIn(s, p + 1, p + 1, e - 1), e + 1)
    BY <1>6, <2>1, RegionTick
  <2>4. Within(CharItems(s), CharsIn(s, p + 1, p + 1, e - 1), p + 1, e - 1)
    BY <1>1, <2>2, CharsWithin
  <2>5. \A k \in p + 1 .. e - 1 : k \in p .. Len(s)
    BY <1>1, <2>2
  <2>6. Within(CharItems(s), Region(s, p).items, p, Len(s))
    BY <2>3, <2>4, <2>5 DEF Within, IsRegion
  <2>7. QED
    BY <2>2, <2>3, <2>6, ListOfItems DEF Regular, IsRegion
<1>7. CASE s[p].kind = ".include"
  <2>1. PICK q : q = NameAt(s, p) /\ q \in p + 1 .. Len(s) + 1 /\ q \in Nat
    BY <1>1, NameIs
  <2>2. IF q > Len(s) THEN IsRegion(s, p, <<>>, Len(s) + 2)
        ELSE IsRegion(s, p, <<IncludeAt(s, p)>>, PastFrom(s, p))
    BY <1>1, <1>7, <2>1, RegionInclude
  <2>3. CASE q > Len(s)
    BY <1>2, <2>2, <2>3, NoItem
  <2>4. CASE ~ (q > Len(s))
    <3>1. PICK e : e = PastFrom(s, p) /\ e \in q + 1 .. Len(s) + 1
      <4>1. q <= Len(s)
        BY <1>1, <2>1, <2>4
      <4>2. QED
        BY <2>1, <4>1, NameIs
    <3>2. e \in p + 1 .. Len(s) + 2 /\ e - 1 \in p .. Len(s)
      BY <1>1, <2>1, <3>1
    <3>3. IncludeAt(s, p).last = e - 1
      BY <3>1 DEF IncludeAt, IncludeItem
    <3>4. QED
      BY <2>2, <2>4, <3>1, <3>2, <3>3, OneItem
  <2>5. QED
    BY <2>3, <2>4
<1>8. CASE s[p].kind \in Alone
  <2>1. TokenItem(s, p).last = p
    BY DEF TokenItem, TextItem
  <2>2. QED
    BY <1>1, <1>2, <1>8, <2>1, RegionToken, OneItem
<1>9. QED
  BY <1>1, <1>3, <1>4, <1>5, <1>6, <1>7, <1>8 DEF Alone

\* The end of the file is known; the rest depends on what is behind it.
FollowsFrom(s, g, q) ==
  /\ g = [p \in 1 .. Len(s) + 2 |-> g[p]]
  /\ \A p \in q .. Len(s) + 2 : g[p] = OneRegion(s, g, p)

\* There is such a function: every place depends only on places behind it.
LEMMA FollowExists ==
  ASSUME NEW s, IsFile(s)
  PROVE  \E g : Follow(s, g)
<1>1. PICK n \in Nat : n = Len(s)
  BY DEF IsFile
<1> DEFINE T == {k \in 0 .. n : \E g : FollowsFrom(s, g, n + 1 - k)}
<1>2. 0 \in T /\ T \in SUBSET (0 .. n)
  <2> DEFINE g == [p \in 1 .. Len(s) + 2 |-> [items |-> <<>>, closed |-> p = Len(s) + 1]]
  <2>1. \A p \in n + 1 .. Len(s) + 2 : p > Len(s) /\ p \in 1 .. Len(s) + 2
    BY <1>1
  <2>2. FollowsFrom(s, g, n + 1)
    BY <2>1 DEF FollowsFrom, OneRegion
  <2>3. n + 1 - 0 = n + 1
    OBVIOUS
  <2> HIDE DEF g
  <2>4. QED
    BY <2>2, <2>3
<1>3. ASSUME NEW k \in 0 .. n, k \in T, k < n PROVE k + 1 \in T
  <2>1. PICK g : FollowsFrom(s, g, n + 1 - k)
    BY <1>3
  <2>2. PICK q \in 1 .. n : q = n - k /\ q + 1 = n + 1 - k /\ q = n + 1 - (k + 1)
    <3>1. n - k \in 1 .. n /\ (n - k) + 1 = n + 1 - k /\ n - k = n + 1 - (k + 1)
      BY <1>3
    <3>2. QED
      BY <3>1
  <2> DEFINE h == [p \in 1 .. Len(s) + 2 |-> IF p = q THEN OneRegion(s, g, q) ELSE g[p]]
  <2>3. \A p \in q + 1 .. Len(s) + 2 : h[p] = g[p] /\ g[p] = OneRegion(s, g, p)
    BY <1>1, <2>1, <2>2 DEF FollowsFrom
  <2>4. h[q] = OneRegion(s, g, q) /\ h = [p \in 1 .. Len(s) + 2 |-> h[p]]
    BY <1>1
  <2> HIDE DEF h
  <2>5. ASSUME NEW p \in q .. Len(s) + 2 PROVE OneRegion(s, h, p) = OneRegion(s, g, p)
    <3>1. CASE p > Len(s)
      BY <3>1 DEF OneRegion
    <3>2. CASE ~ (p > Len(s))
      <4>1. p \in 1 .. Len(s)
        BY <1>1, <3>2
      <4>2. Region(s, p).next \in p + 1 .. Len(s) + 2
        BY <4>1, RegionIs DEF Regular
      <4>3. Region(s, p).next \in q + 1 .. Len(s) + 2
        BY <1>1, <4>1, <4>2
      <4>4. h[Region(s, p).next] = g[Region(s, p).next]
        BY <2>3, <4>3
      <4>5. QED
        BY <3>2, <4>4 DEF OneRegion
    <3>3. QED
      BY <3>1, <3>2
  <2>6. ASSUME NEW p \in q .. Len(s) + 2 PROVE h[p] = OneRegion(s, h, p)
    <3>1. CASE p = q
      BY <2>4, <2>5, <3>1
    <3>2. CASE p # q
      <4>1. p \in q + 1 .. Len(s) + 2
        BY <1>1, <3>2
      <4>2. QED
        BY <2>3, <2>5, <4>1
    <3>3. QED
      BY <3>1, <3>2
  <2>7. FollowsFrom(s, h, q)
    BY <2>4, <2>6 DEF FollowsFrom
  <2>8. k + 1 \in 0 .. n
    BY <1>3
  <2>9. QED
    BY <2>2, <2>7, <2>8
<1>4. T = 0 .. n
  <2> HIDE DEF T
  <2>1. QED
    BY <1>2, <1>3, Upward
<1>5. n \in T
  <2> HIDE DEF T
  <2>1. QED
    BY <1>4
<1>6. PICK g : FollowsFrom(s, g, 1)
  BY <1>5
<1>7. [p \in 1 .. Len(s) + 2 |-> g[p]] = [p \in 1 .. Len(s) + 2 |-> OneRegion(s, g, p)]
  BY <1>6 DEF FollowsFrom
<1>8. Follow(s, g)
  BY <1>6, <1>7 DEF FollowsFrom, Follow
<1>9. QED
  BY <1>8

\* What it is at each place.
Known(s, g, p) ==
  g[p] \in Entry(s) /\ Within(ItemsAt(s), g[p].items, p, Len(s))

Onwards(s, g, p) ==
  /\ g[p].items = Join(Region(s, p).items, g[Region(s, p).next].items)
  /\ g[p].closed = g[Region(s, p).next].closed

\* It has at each place what Follow says.
LEMMA FollowAt ==
  ASSUME NEW s, IsFile(s), NEW g, Follow(s, g)
  PROVE  \A p \in 1 .. Len(s) + 2 : g[p] = OneRegion(s, g, p)
BY DEF Follow

\* If it is known behind a region, it is known at the beginning of the region.
LEMMA KnownAt ==
  ASSUME NEW s, IsFile(s), NEW g, Follow(s, g), NEW p \in 1 .. Len(s),
         NEW next, next = Region(s, p).next, Known(s, g, next)
  PROVE  Known(s, g, p) /\ Onwards(s, g, p)
<1>1. Len(s) \in Nat /\ p \in 1 .. Len(s) + 2 /\ ~ (p > Len(s))
  BY DEF IsFile
<1>2. next \in p + 1 .. Len(s) + 2 /\ Within(ItemsAt(s), Region(s, p).items, p, Len(s))
  BY RegionIs DEF Regular
<1>3. g[p] = [g[next] EXCEPT !.items = Region(s, p).items \o @]
  <2>1. g[p] = OneRegion(s, g, p)
    BY <1>1, FollowAt
  <2>2. QED
    BY <1>1, <2>1 DEF OneRegion
<1>4. PICK a \in Seq(ItemsAt(s)) : /\ a = Region(s, p).items
                                   /\ \A k \in 1 .. Len(a) : a[k].last \in p .. Len(s)
  BY <1>2 DEF Within
<1>5. PICK b \in Seq(ItemsAt(s)) : /\ b = g[next].items
                                   /\ \A k \in 1 .. Len(b) : b[k].last \in next .. Len(s)
  BY DEF Known, Within
<1>6. PICK c : c = Join(a, b)
  OBVIOUS
<1>7. Joined(ItemsAt(s), a, b, c)
  BY <1>6, JoinIsJoined
<1>8. g[p] = [items |-> c, closed |-> g[next].closed] /\ g[next].closed \in BOOLEAN
  BY <1>3, <1>4, <1>5, <1>6 DEF Known, Entry, Join
<1>9. c \in Seq(ItemsAt(s)) /\ \A k \in 1 .. Len(c) : c[k].last \in p .. Len(s)
  <2>1. Len(a) \in Nat /\ Len(b) \in Nat /\ c \in Seq(ItemsAt(s)) /\ Len(c) = Len(a) + Len(b)
    BY <1>7 DEF Joined
  <2>2. ASSUME NEW k \in 1 .. Len(c) PROVE c[k].last \in p .. Len(s)
    <3>1. c[k] = IF k <= Len(a) THEN a[k] ELSE b[k - Len(a)]
      BY <1>7, <2>1 DEF Joined
    <3>2. CASE k <= Len(a)
      BY <1>4, <2>1, <3>1, <3>2
    <3>3. CASE ~ (k <= Len(a))
      <4>1. k - Len(a) \in 1 .. Len(b)
        BY <2>1, <3>3
      <4>2. c[k].last \in next .. Len(s)
        BY <1>5, <3>1, <3>3, <4>1
      <4>3. QED
        BY <1>1, <1>2, <4>2
    <3>4. QED
      BY <3>2, <3>3
  <2>3. QED
    BY <2>1, <2>2
<1>10. Known(s, g, p)
  BY <1>8, <1>9 DEF Known, Within, Entry
<1>11. Onwards(s, g, p)
  BY <1>4, <1>5, <1>6, <1>8 DEF Onwards
<1>12. QED
  BY <1>10, <1>11

\* It is known at the end of the file.
LEMMA KnownEnd ==
  ASSUME NEW s, IsFile(s), NEW g, Follow(s, g), NEW p \in Len(s) + 1 .. Len(s) + 2
  PROVE  Known(s, g, p) /\ g[p].items = <<>> /\ (g[p].closed <=> p = Len(s) + 1)
<1>1. Len(s) \in Nat /\ p \in 1 .. Len(s) + 2 /\ p > Len(s)
  BY DEF IsFile
<1>2. g[p] = OneRegion(s, g, p)
  BY <1>1, FollowAt
<1>3. g[p] = [items |-> <<>>, closed |-> p = Len(s) + 1]
  BY <1>1, <1>2 DEF OneRegion
<1>4. g[p].items = <<>> /\ (g[p].closed <=> p = Len(s) + 1) /\ g[p] \in Entry(s)
  <2>1. PICK v \in BOOLEAN : v = (p = Len(s) + 1)
    OBVIOUS
  <2>2. <<>> \in Seq(ItemsAt(s))
    OBVIOUS
  <2>3. g[p] = [items |-> <<>>, closed |-> v]
    BY <1>3, <2>1, Zenon
  <2>4. g[p].items = <<>> /\ g[p].closed = v /\ g[p] \in Entry(s)
    BY <2>2, <2>3 DEF Entry
  <2>5. QED
    BY <2>1, <2>4, Zenon
<1>5. Within(ItemsAt(s), <<>>, p, Len(s))
  BY DEF Within
<1>6. QED
  BY <1>4, <1>5 DEF Known

\* So it is known everywhere.
LEMMA KnownAll ==
  ASSUME NEW s, IsFile(s), NEW g, Follow(s, g)
  PROVE  /\ \A p \in 1 .. Len(s) + 2 : Known(s, g, p)
         /\ \A p \in 1 .. Len(s) : Onwards(s, g, p)
<1>1. PICK n \in Nat : n = Len(s)
  BY DEF IsFile
<1> DEFINE T == {k \in 0 .. n : \A p \in n + 1 - k .. n + 2 : Known(s, g, p)}
<1>2. 0 \in T /\ T \in SUBSET (0 .. n)
  <2>1. \A p \in n + 1 - 0 .. n + 2 : Known(s, g, p)
    BY <1>1, KnownEnd
  <2>2. QED
    BY <2>1
<1>3. ASSUME NEW k \in 0 .. n, k \in T, k < n PROVE k + 1 \in T
  <2>1. PICK q \in 1 .. n : q = n - k /\ q + 1 = n + 1 - k /\ q = n + 1 - (k + 1)
    <3>1. n - k \in 1 .. n /\ (n - k) + 1 = n + 1 - k /\ n - k = n + 1 - (k + 1)
      BY <1>3
    <3>2. QED
      BY <3>1
  <2>2. \A p \in q + 1 .. n + 2 : Known(s, g, p)
    BY <1>3, <2>1
  <2>3. Region(s, q).next \in q + 1 .. n + 2
    BY <1>1, RegionIs DEF Regular
  <2>4. Known(s, g, q)
    BY <1>1, <2>2, <2>3, KnownAt
  <2>5. \A p \in q .. n + 2 : p = q \/ p \in q + 1 .. n + 2
    OBVIOUS
  <2>6. \A p \in q .. n + 2 : Known(s, g, p)
    BY <2>2, <2>4, <2>5
  <2>7. k + 1 \in 0 .. n
    BY <1>3
  <2>8. QED
    BY <2>1, <2>6, <2>7
<1>4. T = 0 .. n
  <2> HIDE DEF T
  <2>1. QED
    BY <1>2, <1>3, Upward
<1>5. n \in T
  <2> HIDE DEF T
  <2>1. QED
    BY <1>4
<1>6. \A p \in 1 .. n + 2 : Known(s, g, p)
  BY <1>5
<1>7. ASSUME NEW p \in 1 .. Len(s) PROVE Onwards(s, g, p)
  <2>1. Region(s, p).next \in p + 1 .. Len(s) + 2
    BY RegionIs DEF Regular
  <2>2. Region(s, p).next \in 1 .. n + 2
    BY <1>1, <2>1
  <2>3. QED
    BY <1>6, <2>2, KnownAt
<1>8. QED
  BY <1>1, <1>6, <1>7

\* From here on: what there is from each place of a file.
Course(s) == CHOOSE g : Follow(s, g)
ItemsFrom(s, p) == Course(s)[p].items
ClosesFrom(s, p) == Course(s)[p].closed

\* All that is known of them.
LEMMA ItemsAre ==
  ASSUME NEW s, IsFile(s)
  PROVE  /\ Items(s) = ItemsFrom(s, 1) /\ Closes(s) = ClosesFrom(s, 1)
         /\ \A p \in 1 .. Len(s) + 2 : Within(ItemsAt(s), ItemsFrom(s, p), p, Len(s))
         /\ \A p \in 1 .. Len(s) + 2 : ClosesFrom(s, p) \in BOOLEAN
         /\ \A p \in Len(s) + 1 .. Len(s) + 2 :
              ItemsFrom(s, p) = <<>> /\ (ClosesFrom(s, p) <=> p = Len(s) + 1)
<1>1. Follow(s, Course(s))
  BY FollowExists, Zenon DEF Course
<1>2. Contents(s) = Course(s)[1]
  BY ContentsAre DEF Course
<1>3. \A p \in 1 .. Len(s) + 2 : Known(s, Course(s), p)
  BY <1>1, KnownAll
<1>4. \A p \in Len(s) + 1 .. Len(s) + 2 :
        Course(s)[p].items = <<>> /\ (Course(s)[p].closed <=> p = Len(s) + 1)
  BY <1>1, KnownEnd
<1>5. QED
  BY <1>2, <1>3, <1>4 DEF Known, Entry, ItemsFrom, ClosesFrom, Items, Closes

\* The items from a place on are those of its region, and those from behind it on.
LEMMA ItemsOn ==
  ASSUME NEW s, IsFile(s), NEW p \in 1 .. Len(s), NEW items, NEW next, IsRegion(s, p, items, next)
  PROVE  ItemsFrom(s, p) = Join(items, ItemsFrom(s, next)) /\ ClosesFrom(s, p) = ClosesFrom(s, next)
<1>1. Follow(s, Course(s))
  BY FollowExists, Zenon DEF Course
<1>2. Onwards(s, Course(s), p)
  BY <1>1, KnownAll
<1>3. QED
  BY <1>2 DEF Onwards, IsRegion, ItemsFrom, ClosesFrom

-----------------------------------------------------------------------------
(* Where the scanner is, and the items that are still to come. *)

AnyItems(s) == ItemsAt(s) \union CharItems(s)

\* All that is behind p, in a file of which the rest closes what it opens if the
\* whole file does.
Plain(s, p, b) == b = ItemsFrom(s, p) /\ (Closes(s) => ClosesFrom(s, p))

\* Behind the .include at q.
Naming(s, q, p, b) ==
  /\ q \in 1 .. p - 1 /\ s[q].kind = ".include" /\ p <= NameAt(s, q)
  /\ Plain(s, q, b)

\* In the string that begins at q.
Quoting(s, q, p, buf, b) ==
  /\ q \in 1 .. p - 1 /\ s[q].kind = Quote /\ p <= Closing(s, q + 1, Quote)
  /\ p <= Len(s) => ~ Taken(s, p, q + 1)
  /\ buf = CodesIn(s, q + 1, q + 1, p - 1)
  /\ Plain(s, q, b)

\* Behind the tick at q.
Ticking(s, q, p, b) ==
  /\ q \in 1 .. p - 1 /\ s[q].kind = "'" /\ p <= Closing(s, q + 1, "'")
  /\ p <= Len(s) => ~ Taken(s, p, q + 1)
  /\ \E rest : /\ Plain(s, Closing(s, q + 1, "'") + 1, rest)
               /\ b = Join(CharsIn(s, q + 1, p, Closing(s, q + 1, "'") - 1), rest)

Remains(s, p, start, buf, b) ==
  /\ p \in 1 .. Len(s) + 1
  /\ \/ start = "INITIAL" /\ Plain(s, p, b)
     \/ start = "incl" /\ \E q : Naming(s, q, p, b)
     \/ start = "str" /\ \E q : Quoting(s, q, p, buf, b)
     \/ start = "ch" /\ \E q : Ticking(s, q, p, b)

\* What is read next, and where that is all.
Yields(s, p, start, buf, b, x) ==
  /\ x.last = p - 1
  /\ \E rest : Remains(s, p, start, buf, rest) /\ b = Join(<<x>>, rest)

\* Outside of strings.
LEMMA PlainOn ==
  ASSUME NEW s, IsFile(s), NEW p \in 1 .. Len(s), NEW b, Plain(s, p, b),
         NEW items, NEW next, IsRegion(s, p, items, next)
  PROVE  \E rest : Plain(s, next, rest) /\ b = Join(items, rest)
BY ItemsOn DEF Plain

\* Behind a region without items the same remains.
LEMMA PlainQuiet ==
  ASSUME NEW s, IsFile(s), NEW p \in 1 .. Len(s), NEW b, Plain(s, p, b),
         NEW next, IsRegion(s, p, <<>>, next), next \in 1 .. Len(s) + 2
  PROVE  Plain(s, next, b)
<1>1. PICK rest : Plain(s, next, rest) /\ b = Join(<<>>, rest)
  BY PlainOn
<1>2. rest \in Seq(ItemsAt(s))
  BY <1>1, ItemsAre DEF Plain, Within
<1>3. QED
  BY <1>1, <1>2, ConcatEmptySeq DEF Join

\* Behind a blank the same remains.
LEMMA BlankOn ==
  ASSUME NEW s, IsFile(s), NEW p \in 1 .. Len(s), NEW b, Plain(s, p, b), NEW buf,
         s[p].kind = "blank"
  PROVE  Remains(s, p + 1, "INITIAL", buf, b)
<1>1. Len(s) \in Nat /\ p + 1 \in 1 .. Len(s) + 2 /\ p + 1 \in 1 .. Len(s) + 1
  BY DEF IsFile
<1>2. IsRegion(s, p, <<>>, p + 1)
  BY RegionBlank
<1>3. QED
  BY <1>1, <1>2, PlainQuiet DEF Remains

\* Behind a tick the characters of its literal remain.
LEMMA TickOn ==
  ASSUME NEW s, IsFile(s), NEW p \in 1 .. Len(s), NEW b, Plain(s, p, b), NEW buf,
         s[p].kind = "'"
  PROVE  Remains(s, p + 1, "ch", buf, b)
<1>1. Len(s) \in Nat /\ p + 1 \in 1 .. Len(s) + 1 /\ p \in 1 .. (p + 1) - 1 /\ p + 1 \in Nat
  BY DEF IsFile
<1>2. PICK c : c = Closing(s, p + 1, "'") /\ ClosesAt(s, p + 1, "'", c)
  BY <1>1, ClosingIs
<1>3. p + 1 <= c
  BY <1>1, <1>2 DEF ClosesAt
<1>4. IsRegion(s, p, CharsIn(s, p + 1, p + 1, c - 1), c + 1)
  BY <1>2, RegionTick
<1>5. PICK rest : Plain(s, c + 1, rest) /\ b = Join(CharsIn(s, p + 1, p + 1, c - 1), rest)
  BY <1>4, PlainOn
<1>6. ~ Taken(s, p + 1, p + 1)
  BY <1>1, TakenFirst
<1>7. Ticking(s, p, p + 1, b)
  BY <1>1, <1>2, <1>3, <1>5, <1>6 DEF Ticking
<1>8. QED
  BY <1>1, <1>7 DEF Remains

\* Behind a quote its string remains, of which nothing is collected.
LEMMA QuoteOn ==
  ASSUME NEW s, IsFile(s), NEW p \in 1 .. Len(s), NEW b, Plain(s, p, b), s[p].kind = Quote
  PROVE  Remains(s, p + 1, "str", <<>>, b)
<1>1. Len(s) \in Nat /\ p + 1 \in 1 .. Len(s) + 1 /\ p \in 1 .. (p + 1) - 1 /\ p + 1 \in Nat
  BY DEF IsFile
<1>2. PICK c : c = Closing(s, p + 1, Quote) /\ ClosesAt(s, p + 1, Quote, c)
  BY <1>1, ClosingIs
<1>3. p + 1 <= c
  BY <1>1, <1>2 DEF ClosesAt
<1>4. CodesIn(s, p + 1, p + 1, (p + 1) - 1) = <<>>
  BY <1>1, CodesNone
<1>5. ~ Taken(s, p + 1, p + 1)
  BY <1>1, TakenFirst
<1>6. Quoting(s, p, p + 1, <<>>, b)
  BY <1>1, <1>2, <1>3, <1>4, <1>5 DEF Quoting
<1>7. QED
  BY <1>1, <1>6 DEF Remains

\* Behind an .include the item with its name remains.
LEMMA NameOpens ==
  ASSUME NEW s, IsFile(s), NEW p \in 1 .. Len(s), NEW b, Plain(s, p, b), NEW buf,
         s[p].kind = ".include"
  PROVE  Remains(s, p + 1, "incl", buf, b)
<1>1. Len(s) \in Nat /\ p + 1 \in 1 .. Len(s) + 1 /\ p \in 1 .. (p + 1) - 1
  BY DEF IsFile
<1>2. NameAt(s, p) \in p + 1 .. Len(s) + 1
  BY NameIs
<1>3. p + 1 <= NameAt(s, p)
  BY <1>1, <1>2
<1>4. Naming(s, p, p + 1, b)
  BY <1>1, <1>3 DEF Naming
<1>5. QED
  BY <1>1, <1>4 DEF Remains

\* At the end of a line a newline is read.
LEMMA NewlineYields ==
  ASSUME NEW s, IsFile(s), NEW p \in 1 .. Len(s), NEW b, Plain(s, p, b), NEW buf,
         s[p].kind \in EndsLine
  PROVE  Yields(s, OnFrom(s, p), "INITIAL", buf, b, NewlineItem(s, p))
<1>1. OnFrom(s, p) \in p + 1 .. Len(s) + 1 /\ Len(s) \in Nat
  BY OnIs DEF IsFile
<1>2. OnFrom(s, p) \in 1 .. Len(s) + 1
  BY <1>1
<1>3. IsRegion(s, p, <<NewlineItem(s, p)>>, OnFrom(s, p))
  BY RegionNewline
<1>4. \E rest : Plain(s, OnFrom(s, p), rest) /\ b = Join(<<NewlineItem(s, p)>>, rest)
  BY <1>3, PlainOn
<1>5. NewlineItem(s, p).last = OnFrom(s, p) - 1
  BY DEF NewlineItem, TextItem
<1>6. QED
  BY <1>2, <1>4, <1>5 DEF Yields, Remains

\* At any other lexeme its token is.
LEMMA TokenYields ==
  ASSUME NEW s, IsFile(s), NEW p \in 1 .. Len(s), NEW b, Plain(s, p, b), NEW buf,
         s[p].kind \in Alone
  PROVE  Yields(s, p + 1, "INITIAL", buf, b, TokenItem(s, p))
<1>1. p + 1 \in 1 .. Len(s) + 1 /\ (p + 1) - 1 = p
  BY DEF IsFile
<1>3. IsRegion(s, p, <<TokenItem(s, p)>>, p + 1)
  BY RegionToken
<1>4. \E rest : Plain(s, p + 1, rest) /\ b = Join(<<TokenItem(s, p)>>, rest)
  BY <1>3, PlainOn
<1>5. TokenItem(s, p).last = p
  BY DEF TokenItem, TextItem
<1>6. QED
  BY <1>1, <1>4, <1>5 DEF Yields, Remains

\* In the name of an included file.
LEMMA NameWaits ==
  ASSUME NEW s, IsFile(s), NEW p \in 1 .. Len(s), NEW q, NEW b, Naming(s, q, p, b), NEW buf,
         s[p].kind \in Spaces
  PROVE  Remains(s, p + 1, "incl", buf, b)
<1>1. Len(s) \in Nat /\ p + 1 \in 1 .. Len(s) + 1 /\ q \in 1 .. Len(s) /\ q \in 1 .. (p + 1) - 1
  BY DEF IsFile, Naming
<1>2. NameAt(s, q) \in q + 1 .. Len(s) + 1 /\ FoundAt(s, q + 1, Kinds \ Spaces, NameAt(s, q))
  BY <1>1, NameIs
<1>3. NameAt(s, q) <= Len(s) => s[NameAt(s, q)].kind \notin Spaces
  BY <1>2 DEF FoundAt
<1>4. p # NameAt(s, q) /\ p <= NameAt(s, q)
  BY <1>3 DEF Naming
<1>5. p + 1 <= NameAt(s, q)
  BY <1>1, <1>2, <1>4
<1>6. Naming(s, q, p + 1, b)
  BY <1>1, <1>5 DEF Naming
<1>7. QED
  BY <1>1, <1>6 DEF Remains

\* The item for the file whose name is at p, up to e.
Named(s, p, e) == IncludeItem(PathOf(SubSeq(s, p, e - 1)), e - 1)

\* At a name the include is read, up to the end of the name.
LEMMA NameYields ==
  ASSUME NEW s, IsFile(s), NEW p \in 1 .. Len(s), NEW q, NEW b, Naming(s, q, p, b), NEW buf,
         s[p].kind \in Kinds \ Spaces, NEW e, e = Find(s, p, Kinds \ (Kinds \ Spaces))
  PROVE  e \in p + 1 .. Len(s) + 1 /\ Yields(s, e, "INITIAL", buf, b, Named(s, p, e))
<1>1. Len(s) \in Nat /\ q \in 1 .. Len(s) /\ q \in 1 .. p - 1
  BY DEF IsFile, Naming
<1>2. NameAt(s, q) \in q + 1 .. Len(s) + 1 /\ FoundAt(s, q + 1, Kinds \ Spaces, NameAt(s, q))
  BY <1>1, NameIs
<1>3. p = NameAt(s, q)
  <2>1. p <= NameAt(s, q)
    BY DEF Naming
  <2>2. p \in q + 1 .. NameAt(s, q) - 1 => s[p].kind \notin Kinds \ Spaces
    BY <1>2 DEF FoundAt
  <2>3. QED
    BY <1>1, <1>2, <2>1, <2>2
<1>4. Kinds \ (Kinds \ Spaces) = Spaces
  BY Zenon DEF Kinds
<1>5. e = PastFrom(s, q) /\ e \in p + 1 .. Len(s) + 1
  <2>1. e = Find(s, p, Spaces)
    BY <1>4, Zenon
  <2>2. e = PastFrom(s, q)
    BY <1>3, <2>1, Zenon DEF PastFrom
  <2>3. NameAt(s, q) <= Len(s)
    BY <1>1, <1>3
  <2>4. PastFrom(s, q) \in NameAt(s, q) + 1 .. Len(s) + 1
    BY <1>1, <2>3, NameIs
  <2>5. QED
    BY <1>3, <2>2, <2>4
<1>6. IsRegion(s, q, <<IncludeAt(s, q)>>, e)
  <2>1. ~ (NameAt(s, q) > Len(s)) /\ NameAt(s, q) \in Nat
    BY <1>1, <1>3
  <2>2. s[q].kind = ".include"
    BY DEF Naming
  <2>3. QED
    BY <1>1, <1>5, <2>1, <2>2, RegionInclude
<1>7. \E rest : Plain(s, e, rest) /\ b = Join(<<IncludeAt(s, q)>>, rest)
  BY <1>1, <1>6, PlainOn DEF Naming
<1>8. IncludeAt(s, q) = Named(s, p, e) /\ Named(s, p, e).last = e - 1
  BY <1>3, <1>5 DEF IncludeAt, Named, IncludeItem
<1>9. e \in 1 .. Len(s) + 1
  BY <1>1, <1>5
<1>10. QED
  BY <1>5, <1>7, <1>8, <1>9 DEF Yields, Remains

\* A backslash that is not taken along takes the next lexeme of the line.
EscapesAt(s, p) == s[p].kind = "\\" /\ p + 1 <= Len(s) /\ s[p + 1].kind # "newline"

\* In a string or a literal, at a lexeme that is not taken along.
StillOpen(s, q, p, kind) ==
  /\ q \in 1 .. p - 1 /\ p \in 1 .. Len(s) + 1 /\ p <= Closing(s, q + 1, kind)
  /\ p <= Len(s) => ~ Taken(s, p, q + 1)

\* A string or a literal that is open is closed by the first closing lexeme.
LEMMA ClosingNow ==
  ASSUME NEW s, IsFile(s), NEW p \in 1 .. Len(s), NEW q, NEW kind,
         StillOpen(s, q, p, kind), s[p].kind = kind
  PROVE  p = Closing(s, q + 1, kind)
<1>1. Len(s) \in Nat /\ q \in 1 .. Len(s) /\ q + 1 \in 1 .. Len(s) + 1 /\ q \in 1 .. p - 1
  BY DEF IsFile, StillOpen
<1>2. PICK c : c = Closing(s, q + 1, kind) /\ ClosesAt(s, q + 1, kind, c)
  BY <1>1, ClosingIs
<1>3. c \in q + 1 .. Len(s) + 1 /\ p <= c /\ (p \in q + 1 .. c - 1 => Taken(s, p, q + 1))
  BY <1>2 DEF ClosesAt, StillOpen
<1>4. ~ Taken(s, p, q + 1)
  BY <1>1 DEF StillOpen
<1>5. QED
  BY <1>1, <1>2, <1>3, <1>4

\* It stays open behind a lexeme that does not close and takes nothing along,
LEMMA OpenOne ==
  ASSUME NEW s, IsFile(s), NEW p \in 1 .. Len(s), NEW q, NEW kind,
         StillOpen(s, q, p, kind), s[p].kind # kind, ~ EscapesAt(s, p)
  PROVE  StillOpen(s, q, p + 1, kind) /\ ~ Taken(s, p, q + 1) /\ ~ Takes(s, p, q + 1)
<1>1. /\ Len(s) \in Nat /\ q \in 1 .. Len(s) /\ q + 1 \in 1 .. Len(s) + 1 /\ q \in 1 .. p - 1
      /\ p \in Nat /\ q + 1 \in Nat /\ q + 1 <= p
  BY DEF IsFile, StillOpen
<1>2. PICK c : c = Closing(s, q + 1, kind) /\ ClosesAt(s, q + 1, kind, c)
  BY <1>1, ClosingIs
<1>3. c \in q + 1 .. Len(s) + 1 /\ p <= c /\ (c <= Len(s) => s[c].kind = kind)
  BY <1>2 DEF ClosesAt, StillOpen
<1>4. p + 1 <= c
  BY <1>1, <1>3
<1>5. ~ Taken(s, p, q + 1)
  BY <1>1 DEF StillOpen
<1>6. p + 1 <= Len(s) => ~ Taken(s, p + 1, q + 1)
  BY <1>1, TakenNext DEF EscapesAt
<1>7. ~ Takes(s, p, q + 1)
  BY <1>1, <1>6 DEF Takes
<1>8. q \in 1 .. (p + 1) - 1 /\ p + 1 \in 1 .. Len(s) + 1
  BY <1>1
<1>9. QED
  BY <1>2, <1>4, <1>5, <1>6, <1>7, <1>8 DEF StillOpen

\* and behind a backslash with the lexeme that it takes along.
LEMMA OpenTwo ==
  ASSUME NEW s, IsFile(s), NEW p \in 1 .. Len(s), NEW q, NEW kind,
         StillOpen(s, q, p, kind), s[p].kind # kind, EscapesAt(s, p)
  PROVE  /\ StillOpen(s, q, p + 2, kind) /\ p + 1 \in 1 .. Len(s)
         /\ p + 2 <= Closing(s, q + 1, kind)
         /\ Takes(s, p, q + 1) /\ Taken(s, p + 1, q + 1) /\ ~ Takes(s, p + 1, q + 1)
<1>1. /\ Len(s) \in Nat /\ q \in 1 .. Len(s) /\ q + 1 \in 1 .. Len(s) + 1 /\ q \in 1 .. p - 1
      /\ p \in Nat /\ q + 1 \in Nat /\ q + 1 <= p /\ p + 1 \in 1 .. Len(s) /\ p + 1 \in Nat
      /\ q + 1 <= p + 1
  BY DEF IsFile, StillOpen, EscapesAt
<1>2. PICK c : c = Closing(s, q + 1, kind) /\ ClosesAt(s, q + 1, kind, c)
  BY <1>1, ClosingIs
<1>3. /\ c \in q + 1 .. Len(s) + 1 /\ p <= c
      /\ c <= Len(s) => s[c].kind = kind /\ ~ Taken(s, c, q + 1)
  BY <1>2 DEF ClosesAt, StillOpen
<1>4. ~ Taken(s, p, q + 1)
  BY <1>1 DEF StillOpen
<1>5. Taken(s, p + 1, q + 1)
  BY <1>1, <1>4, TakenNext DEF EscapesAt
<1>6. p # c /\ p + 1 # c
  BY <1>1, <1>3, <1>5
<1>7. p + 2 <= c
  BY <1>1, <1>3, <1>6
<1>8. ~ Taken(s, (p + 1) + 1, q + 1) /\ (p + 1) + 1 = p + 2
  <2>1. PICK r \in Nat : r = p + 1 /\ q + 1 <= r /\ r + 1 = p + 2
    BY <1>1
  <2>2. Taken(s, r, q + 1)
    BY <1>5, <2>1
  <2>3. ~ Taken(s, r + 1, q + 1)
    BY <1>1, <2>1, <2>2, TakenNext
  <2>4. QED
    BY <2>1, <2>3
<1>9. Takes(s, p, q + 1) /\ ~ Takes(s, p + 1, q + 1)
  <2>1. p < Len(s)
    BY <1>1
  <2>2. s[p].kind = "\\"
    BY DEF EscapesAt
  <2>3. QED
    BY <1>4, <1>5, <2>1, <2>2 DEF Takes
<1>10. q \in 1 .. (p + 2) - 1 /\ p + 2 \in 1 .. Len(s) + 1
  BY <1>1
<1>11. QED
  BY <1>1, <1>2, <1>5, <1>7, <1>8, <1>9, <1>10 DEF StillOpen

\* In a string.
LEMMA StringYields ==
  ASSUME NEW s, IsFile(s), NEW p \in 1 .. Len(s), NEW q, NEW buf, NEW b, Quoting(s, q, p, buf, b),
         NEW more, s[p].kind = Quote
  PROVE  Yields(s, p + 1, "INITIAL", more, b, TextItem(String(buf), p))
<1>1. Len(s) \in Nat /\ q \in 1 .. Len(s) /\ p \in Nat /\ p + 1 \in 1 .. Len(s) + 1 /\ (p + 1) - 1 = p
  BY DEF IsFile, Quoting
<1>2. StillOpen(s, q, p, Quote) /\ s[q].kind = Quote /\ Plain(s, q, b)
  BY <1>1 DEF Quoting, StillOpen
<1>3. p = Closing(s, q + 1, Quote)
  BY <1>2, ClosingNow
<1>4. IsRegion(s, q, <<StringItem(s, q, p)>>, p + 1)
  BY <1>1, <1>2, <1>3, RegionString
<1>5. \E rest : Plain(s, p + 1, rest) /\ b = Join(<<StringItem(s, q, p)>>, rest)
  BY <1>1, <1>2, <1>4, PlainOn
<1>6. StringItem(s, q, p) = TextItem(String(buf), p) /\ TextItem(String(buf), p).last = p
  BY DEF StringItem, Quoting, TextItem
<1>7. QED
  BY <1>1, <1>5, <1>6 DEF Yields, Remains

\* What is collected grows by the codes of a lexeme,
LEMMA StringGrows ==
  ASSUME NEW s, IsFile(s), HasCodes(s), NEW p \in 1 .. Len(s), NEW q, NEW buf, NEW b,
         Quoting(s, q, p, buf, b), s[p].kind # Quote, ~ EscapesAt(s, p)
  PROVE  Remains(s, p + 1, "str", Join(buf, s[p].codes), b)
<1>1. /\ Len(s) \in Nat /\ q \in 1 .. Len(s) /\ p + 1 \in 1 .. Len(s) + 1 /\ (p + 1) - 1 = p
      /\ q + 1 \in Nat \ {0} /\ q + 1 <= p
  BY DEF IsFile, Quoting
<1>2. StillOpen(s, q, p, Quote) /\ s[q].kind = Quote /\ Plain(s, q, b)
  BY <1>1 DEF Quoting, StillOpen
<1>3. StillOpen(s, q, p + 1, Quote) /\ ~ Taken(s, p, q + 1) /\ ~ Takes(s, p, q + 1)
  BY <1>2, OpenOne
<1>4. CodesAt(s, p, q + 1) = s[p].codes
  BY <1>3 DEF CodesAt
<1>5. CodesIn(s, q + 1, q + 1, p) = Join(CodesIn(s, q + 1, q + 1, p - 1), CodesAt(s, p, q + 1))
  BY <1>1, CodesMore
<1>6. Join(buf, s[p].codes) = CodesIn(s, q + 1, q + 1, (p + 1) - 1)
  BY <1>1, <1>4, <1>5 DEF Quoting
<1>7. Quoting(s, q, p + 1, Join(buf, s[p].codes), b)
  BY <1>2, <1>3, <1>6 DEF Quoting, StillOpen
<1>8. QED
  BY <1>1, <1>7 DEF Remains

\* and by the escaped ones of a lexeme behind a backslash.
LEMMA StringEscapes ==
  ASSUME NEW s, IsFile(s), HasCodes(s), NEW p \in 1 .. Len(s), NEW q, NEW buf, NEW b,
         Quoting(s, q, p, buf, b), s[p].kind # Quote, EscapesAt(s, p)
  PROVE  Remains(s, p + 2, "str", Join(buf, Escaped(s, p + 1)), b)
<1>1. /\ Len(s) \in Nat /\ q \in 1 .. Len(s) /\ p + 2 \in 1 .. Len(s) + 1 /\ p + 1 \in 1 .. Len(s)
      /\ q + 1 \in Nat \ {0} /\ q + 1 <= p /\ q + 1 <= p + 1
  BY DEF IsFile, Quoting, EscapesAt
<1>2. StillOpen(s, q, p, Quote) /\ s[q].kind = Quote /\ Plain(s, q, b)
  BY <1>1 DEF Quoting, StillOpen
<1>3. /\ StillOpen(s, q, p + 2, Quote)
      /\ Takes(s, p, q + 1) /\ Taken(s, p + 1, q + 1) /\ ~ Takes(s, p + 1, q + 1)
  BY <1>2, OpenTwo
<1>4. PICK r \in 1 .. Len(s) : r = p + 1 /\ r - 1 = p /\ r = (p + 2) - 1
  BY <1>1
<1>5. CodesAt(s, p, q + 1) = <<>>
  BY <1>3 DEF CodesAt, Takes
<1>6. CodesAt(s, r, q + 1) = Escaped(s, r)
  BY <1>3, <1>4 DEF CodesAt
<1>7. CodesIn(s, q + 1, q + 1, p) = Join(CodesIn(s, q + 1, q + 1, p - 1), <<>>)
  BY <1>1, <1>5, CodesMore
<1>8. CodesIn(s, q + 1, q + 1, r) = Join(CodesIn(s, q + 1, q + 1, p), Escaped(s, r))
  BY <1>1, <1>4, <1>6, CodesMore
<1>9. Join(buf, <<>>) = buf
  <2>1. buf \in Seq(Byte)
    <3>1. p - 1 \in Int /\ q + 1 <= (p - 1) + 1 /\ p - 1 <= Len(s)
      BY <1>1
    <3>2. QED
      BY <1>1, <3>1, CodesInType DEF Quoting
  <2>2. QED
    BY <2>1, ConcatEmptySeq DEF Join
<1>10. Join(buf, Escaped(s, p + 1)) = CodesIn(s, q + 1, q + 1, (p + 2) - 1)
  BY <1>4, <1>7, <1>8, <1>9 DEF Quoting
<1>11. Quoting(s, q, p + 2, Join(buf, Escaped(s, p + 1)), b)
  BY <1>2, <1>3, <1>10 DEF Quoting, StillOpen
<1>12. QED
  BY <1>1, <1>11 DEF Remains

\* Between two ticks.
LEMMA RestType ==
  ASSUME NEW s, IsFile(s), NEW p \in 1 .. Len(s) + 2, NEW rest, Plain(s, p, rest)
  PROVE  Within(AnyItems(s), rest, p, Len(s))
<1>1. Within(ItemsAt(s), rest, p, Len(s))
  BY ItemsAre DEF Plain
<1>2. rest \in Seq(ItemsAt(s)) /\ ItemsAt(s) \subseteq AnyItems(s)
  BY <1>1 DEF Within, AnyItems
<1>3. rest \in Seq(AnyItems(s))
  BY <1>2
<1>4. QED
  BY <1>1, <1>3 DEF Within

\* The characters of a literal are items.
LEMMA CharsType ==
  ASSUME NEW s, NEW p, NEW from \in Nat, NEW to \in Int, from <= to + 1
  PROVE  Within(AnyItems(s), CharsIn(s, p, from, to), from, to)
<1>1. Within(CharItems(s), CharsIn(s, p, from, to), from, to)
  BY CharsWithin
<1>2. CharsIn(s, p, from, to) \in Seq(CharItems(s)) /\ CharItems(s) \subseteq AnyItems(s)
  BY <1>1 DEF Within, AnyItems
<1>3. CharsIn(s, p, from, to) \in Seq(AnyItems(s))
  BY <1>2
<1>4. QED
  BY <1>1, <1>3 DEF Within

\* A character is such an item.
LEMMA CharIsItem ==
  ASSUME NEW s, NEW i \in Nat, NEW b \in BOOLEAN
  PROVE  TextItem(Character(s[i].codes, b), i) \in CharItems(s)
BY DEF CharItems

\* The first of three lists is the first of two.
LEMMA OneFirst ==
  ASSUME NEW S, NEW x, <<x>> \in Seq(S), NEW more \in Seq(S), NEW rest \in Seq(S), NEW all, NEW b,
         all = Join(<<x>>, more), b = Join(all, rest)
  PROVE  b = Join(<<x>>, Join(more, rest))
<1>1. PICK one \in Seq(S) : one = <<x>>
  OBVIOUS
<1>2. b = Join(Join(one, more), rest)
  BY <1>1, Zenon
<1>3. b = Join(one, Join(more, rest))
  BY <1>2, JoinAssociative
<1>4. QED
  BY <1>1, <1>3, Zenon

\* What Ticking means: the literal ends at c, and rest is behind it.
TicksTo(s, q, p, b, c, rest) ==
  /\ StillOpen(s, q, p, "'") /\ s[q].kind = "'" /\ c = Closing(s, q + 1, "'")
  /\ c \in p .. Len(s) + 1 /\ Plain(s, c + 1, rest)
  /\ b = Join(CharsIn(s, q + 1, p, c - 1), rest)
  /\ rest \in Seq(AnyItems(s))

\* A literal that is open ends somewhere.
LEMMA TickingIs ==
  ASSUME NEW s, IsFile(s), NEW p \in 1 .. Len(s) + 1, NEW q, NEW b, Ticking(s, q, p, b)
  PROVE  \E c, rest : TicksTo(s, q, p, b, c, rest)
<1>1. Len(s) \in Nat /\ q \in 1 .. Len(s) /\ q + 1 \in 1 .. Len(s) + 1
  BY DEF IsFile, Ticking
<1>2. PICK c : c = Closing(s, q + 1, "'") /\ ClosesAt(s, q + 1, "'", c)
  BY <1>1, ClosingIs
<1>3. c \in p .. Len(s) + 1 /\ c + 1 \in 1 .. Len(s) + 2
  BY <1>1, <1>2 DEF ClosesAt, Ticking
<1>4. PICK rest : Plain(s, c + 1, rest) /\ b = Join(CharsIn(s, q + 1, p, c - 1), rest)
  BY <1>2 DEF Ticking
<1>5. rest \in Seq(AnyItems(s))
  BY <1>3, <1>4, RestType DEF Within
<1>6. StillOpen(s, q, p, "'") /\ s[q].kind = "'"
  BY <1>1 DEF Ticking, StillOpen
<1>7. QED
  BY <1>2, <1>3, <1>4, <1>5, <1>6 DEF TicksTo

\* If that is so, the literal is open.
LEMMA TickingFrom ==
  ASSUME NEW s, IsFile(s), NEW q, NEW p \in 1 .. Len(s) + 1, StillOpen(s, q, p, "'"), s[q].kind = "'",
         NEW c, c = Closing(s, q + 1, "'"), NEW rest, Plain(s, c + 1, rest), NEW b,
         b = Join(CharsIn(s, q + 1, p, c - 1), rest), NEW buf
  PROVE  Remains(s, p, "ch", buf, b)
<1>1. Ticking(s, q, p, b)
  BY DEF Ticking, StillOpen
<1>2. QED
  BY <1>1 DEF Remains

\* Behind the closing tick what is behind the literal remains.
LEMMA TickCloses ==
  ASSUME NEW s, IsFile(s), NEW p \in 1 .. Len(s), NEW q, NEW b, Ticking(s, q, p, b), NEW buf,
         s[p].kind = "'"
  PROVE  Remains(s, p + 1, "INITIAL", buf, b)
<1>1. Len(s) \in Nat /\ p \in 1 .. Len(s) + 1 /\ p + 1 \in 1 .. Len(s) + 1 /\ p \in Nat
  BY DEF IsFile
<1>2. PICK c, rest : TicksTo(s, q, p, b, c, rest)
  BY <1>1, TickingIs
<1>3. c = p
  BY <1>2, ClosingNow DEF TicksTo
<1>4. CharsIn(s, q + 1, p, p - 1) = <<>>
  BY <1>1, CharsNone
<1>5. b = Join(<<>>, rest) /\ rest \in Seq(AnyItems(s)) /\ Plain(s, p + 1, rest)
  BY <1>2, <1>3, <1>4 DEF TicksTo
<1>6. b = rest
  BY <1>5, ConcatEmptySeq DEF Join
<1>7. QED
  BY <1>1, <1>5, <1>6 DEF Remains

\* In a literal a character is read,
LEMMA CharYields ==
  ASSUME NEW s, IsFile(s), NEW p \in 1 .. Len(s), NEW q, NEW b, Ticking(s, q, p, b), NEW buf,
         s[p].kind # "'", ~ EscapesAt(s, p)
  PROVE  Yields(s, p + 1, "ch", buf, b, TextItem(Character(s[p].codes, FALSE), p))
<1>1. Len(s) \in Nat /\ p \in 1 .. Len(s) + 1 /\ p + 1 \in 1 .. Len(s) + 1 /\ p \in Nat /\ p + 1 \in Nat
  BY DEF IsFile
<1>2. PICK c, rest : TicksTo(s, q, p, b, c, rest)
  BY <1>1, TickingIs
<1>3. /\ StillOpen(s, q, p, "'") /\ s[q].kind = "'" /\ c = Closing(s, q + 1, "'")
      /\ c \in p .. Len(s) + 1 /\ Plain(s, c + 1, rest) /\ rest \in Seq(AnyItems(s))
      /\ b = Join(CharsIn(s, q + 1, p, c - 1), rest)
  BY <1>2 DEF TicksTo
<1>4. StillOpen(s, q, p + 1, "'") /\ ~ Taken(s, p, q + 1) /\ ~ Takes(s, p, q + 1)
  BY <1>3, OpenOne
<1>5. p + 1 <= c /\ c - 1 \in Int /\ p <= c - 1 /\ p + 1 <= (c - 1) + 1
  BY <1>1, <1>3, <1>4 DEF StillOpen
<1>6. PICK x : x = TextItem(Character(s[p].codes, FALSE), p)
  OBVIOUS
<1>7. CharAt(s, p, q + 1) = <<x>> /\ x \in AnyItems(s) /\ x.last = p
  <2>1. Taken(s, p, q + 1) = FALSE
    BY <1>4 DEF Taken
  <2>2. CharAt(s, p, q + 1) = <<x>>
    BY <1>4, <1>6, <2>1, Zenon DEF CharAt
  <2>3. x \in CharItems(s)
    BY <1>1, <1>6, CharIsItem
  <2>4. QED
    BY <1>6, <2>2, <2>3 DEF AnyItems, TextItem
<1>8. PICK more : more = CharsIn(s, q + 1, p + 1, c - 1)
  OBVIOUS
<1>9. CharsIn(s, q + 1, p, c - 1) = Join(<<x>>, more)
  BY <1>1, <1>5, <1>7, <1>8, CharsFirst
<1>10. more \in Seq(AnyItems(s)) /\ <<x>> \in Seq(AnyItems(s))
  BY <1>1, <1>5, <1>7, <1>8, CharsType DEF Within
<1>11. b = Join(<<x>>, Join(more, rest))
  BY <1>3, <1>9, <1>10, OneFirst
<1>12. Remains(s, p + 1, "ch", buf, Join(more, rest))
  BY <1>1, <1>3, <1>4, <1>8, TickingFrom
<1>13. x.last = (p + 1) - 1
  BY <1>1, <1>7
<1>14. QED
  BY <1>6, <1>11, <1>12, <1>13 DEF Yields

\* or an escaped one, with its backslash.
LEMMA CharEscapes ==
  ASSUME NEW s, IsFile(s), NEW p \in 1 .. Len(s), NEW q, NEW b, Ticking(s, q, p, b), NEW buf,
         s[p].kind # "'", EscapesAt(s, p)
  PROVE  Yields(s, p + 2, "ch", buf, b, TextItem(Character(s[p + 1].codes, TRUE), p + 1))
<1>1. /\ Len(s) \in Nat /\ p \in 1 .. Len(s) + 1 /\ p + 2 \in 1 .. Len(s) + 1 /\ p \in Nat
  BY DEF IsFile, EscapesAt
<1>2. PICK c, rest : TicksTo(s, q, p, b, c, rest)
  BY <1>1, TickingIs
<1>3. /\ StillOpen(s, q, p, "'") /\ s[q].kind = "'" /\ c = Closing(s, q + 1, "'")
      /\ c \in p .. Len(s) + 1 /\ Plain(s, c + 1, rest) /\ rest \in Seq(AnyItems(s))
      /\ b = Join(CharsIn(s, q + 1, p, c - 1), rest)
  BY <1>2 DEF TicksTo
<1>4. /\ StillOpen(s, q, p + 2, "'") /\ p + 2 <= c
      /\ Takes(s, p, q + 1) /\ Taken(s, p + 1, q + 1) /\ ~ Takes(s, p + 1, q + 1)
  BY <1>3, OpenTwo
<1>5. PICK r \in Nat : r = p + 1 /\ r + 1 = p + 2
  BY <1>1
<1>6. c - 1 \in Int /\ p <= c - 1 /\ r <= c - 1 /\ p + 2 <= (c - 1) + 1 /\ p + 2 \in Nat
  <2>1. c \in Int /\ p \in Nat /\ Len(s) \in Nat
    BY <1>1, <1>3
  <2>2. p + 2 <= c
    BY <1>4
  <2>3. QED
    BY <2>1, <2>2, <1>5
<1>7. PICK x : x = TextItem(Character(s[r].codes, TRUE), r)
  OBVIOUS
<1>8. CharAt(s, r, q + 1) = <<x>> /\ x \in AnyItems(s) /\ x.last = r
  <2>1. Taken(s, r, q + 1) = TRUE
    BY <1>4, <1>5 DEF Taken
  <2>2. CharAt(s, r, q + 1) = <<x>>
    BY <1>4, <1>5, <1>7, <2>1, Zenon DEF CharAt
  <2>3. x \in CharItems(s)
    BY <1>5, <1>7, CharIsItem
  <2>4. QED
    BY <1>7, <2>2, <2>3 DEF AnyItems, TextItem
<1>9. CharAt(s, p, q + 1) = <<>>
  BY <1>4, Zenon DEF CharAt
<1>10. PICK more : more = CharsIn(s, q + 1, p + 2, c - 1)
  OBVIOUS
<1>11. more \in Seq(AnyItems(s)) /\ <<x>> \in Seq(AnyItems(s))
  BY <1>6, <1>8, <1>10, CharsType DEF Within
<1>12. CharsIn(s, q + 1, r, c - 1) = Join(<<x>>, more)
  BY <1>5, <1>6, <1>8, <1>10, CharsFirst
<1>13. CharsIn(s, q + 1, p, c - 1) = Join(<<>>, Join(<<x>>, more))
  BY <1>5, <1>6, <1>9, <1>12, CharsFirst
<1>14. CharsIn(s, q + 1, p, c - 1) = Join(<<x>>, more)
  <2>1. Join(<<x>>, more) \in Seq(AnyItems(s))
    BY <1>11, JoinIsJoined
  <2>2. QED
    BY <1>13, <2>1, ConcatEmptySeq DEF Join
<1>15. b = Join(<<x>>, Join(more, rest))
  BY <1>3, <1>11, <1>14, OneFirst
<1>16. Remains(s, p + 2, "ch", buf, Join(more, rest))
  BY <1>1, <1>3, <1>4, <1>10, TickingFrom
<1>17. x.last = (p + 2) - 1 /\ x = TextItem(Character(s[p + 1].codes, TRUE), p + 1)
  <2>1. x.last = (p + 2) - 1
    BY <1>1, <1>5, <1>8
  <2>2. QED
    BY <1>5, <1>7, <2>1, Zenon
<1>18. QED
  BY <1>15, <1>16, <1>17 DEF Yields

\* What ends within bounds ends within them when it is joined,
LEMMA JoinWithin ==
  ASSUME NEW S, NEW a, NEW b, NEW lo \in Int, NEW hi \in Int, Within(S, a, lo, hi), Within(S, b, lo, hi)
  PROVE  Within(S, Join(a, b), lo, hi)
<1>1. a \in Seq(S) /\ b \in Seq(S)
  BY DEF Within
<1>2. PICK c : c = Join(a, b)
  OBVIOUS
<1>3. Joined(S, a, b, c)
  BY <1>1, <1>2, JoinIsJoined
<1>4. ASSUME NEW k \in 1 .. Len(c) PROVE c[k].last \in lo .. hi
  <2>1. c[k] = IF k <= Len(a) THEN a[k] ELSE b[k - Len(a)]
    BY <1>3 DEF Joined
  <2>2. CASE k <= Len(a)
    <3>1. k \in 1 .. Len(a)
      BY <1>1, <2>2
    <3>2. QED
      BY <2>1, <2>2, <3>1 DEF Within
  <2>3. CASE ~ (k <= Len(a))
    <3>1. k - Len(a) \in 1 .. Len(b)
      BY <1>1, <1>3, <2>3 DEF Joined
    <3>2. QED
      BY <2>1, <2>3, <3>1 DEF Within
  <2>4. QED
    BY <2>2, <2>3
<1>5. QED
  BY <1>2, <1>3, <1>4 DEF Within, Joined

\* and within wider ones.
LEMMA WithinMore ==
  ASSUME NEW S, NEW b, NEW lo \in Int, NEW hi \in Int, Within(S, b, lo, hi),
         NEW lower \in Int, NEW upper \in Int, lower <= lo, hi <= upper
  PROVE  Within(S, b, lower, upper)
<1>1. \A x \in lo .. hi : x \in lower .. upper
  OBVIOUS
<1>2. QED
  BY <1>1 DEF Within

\* Outside of strings what remains ends behind p, and at the end of the file nothing remains.
LEMMA RemainsPlain ==
  ASSUME NEW s, IsFile(s), NEW p \in 1 .. Len(s) + 1, NEW b, Plain(s, p, b)
  PROVE  Within(AnyItems(s), b, p, Len(s)) /\ (p = Len(s) + 1 => b = <<>>)
<1>1. Len(s) \in Nat /\ p \in 1 .. Len(s) + 2
  BY DEF IsFile
<1>2. Within(AnyItems(s), b, p, Len(s))
  BY <1>1, RestType
<1>3. p = Len(s) + 1 => b = <<>>
  BY <1>1, ItemsAre DEF Plain
<1>4. QED
  BY <1>2, <1>3

\* In front of an item that is not ended.
LEMMA RemainsOne ==
  ASSUME NEW s, IsFile(s), NEW q \in 1 .. Len(s), NEW x, NEW next \in 1 .. Len(s) + 2,
         NEW p \in 1 .. Len(s) + 1, x.last \in p .. Len(s), p <= next,
         IsRegion(s, q, <<x>>, next), NEW b, Plain(s, q, b)
  PROVE  Within(AnyItems(s), b, p, Len(s))
<1>1. Len(s) \in Nat
  BY DEF IsFile
<1>2. PICK rest : Plain(s, next, rest) /\ b = Join(<<x>>, rest)
  BY PlainOn
<1>3. Within(AnyItems(s), rest, next, Len(s))
  BY <1>2, RestType
<1>4. Within(AnyItems(s), rest, p, Len(s))
  BY <1>1, <1>3, WithinMore
<1>5. Within(ItemsAt(s), <<x>>, q, Len(s))
  BY RegionIs DEF Regular, IsRegion
<1>6. x \in AnyItems(s)
  <2>1. <<x>> \in Seq(ItemsAt(s))
    BY <1>5 DEF Within
  <2>2. x \in ItemsAt(s)
    BY <2>1
  <2>3. QED
    BY <2>2 DEF AnyItems
<1>7. Within(AnyItems(s), <<x>>, p, Len(s))
  BY <1>6 DEF Within
<1>8. QED
  BY <1>1, <1>2, <1>4, <1>7, JoinWithin

\* In one that never is.
LEMMA RemainsNone ==
  ASSUME NEW s, IsFile(s), NEW q \in 1 .. Len(s), IsRegion(s, q, <<>>, Len(s) + 2),
         NEW b, Plain(s, q, b), NEW p
  PROVE  Within(AnyItems(s), b, p, Len(s)) /\ b = <<>> /\ ~ Closes(s)
<1>1. Len(s) \in Nat /\ Len(s) + 2 \in Len(s) + 1 .. Len(s) + 2
  BY DEF IsFile
<1>2. PICK rest : Plain(s, Len(s) + 2, rest) /\ b = Join(<<>>, rest)
  BY PlainOn
<1>3. ItemsFrom(s, Len(s) + 2) = <<>> /\ (ClosesFrom(s, Len(s) + 2) <=> Len(s) + 2 = Len(s) + 1)
  BY <1>1, ItemsAre
<1>4. rest = <<>> /\ ~ Closes(s)
  BY <1>1, <1>2, <1>3 DEF Plain
<1>5. b = <<>>
  BY <1>2, <1>4 DEF Join
<1>6. Within(AnyItems(s), <<>>, p, Len(s))
  BY DEF Within
<1>7. QED
  BY <1>4, <1>5, <1>6

\* In the name of a file too; at the end the file is not closed.
LEMMA RemainsNaming ==
  ASSUME NEW s, IsFile(s), NEW p \in 1 .. Len(s) + 1, NEW q, NEW b, Naming(s, q, p, b)
  PROVE  Within(AnyItems(s), b, p, Len(s)) /\ (p = Len(s) + 1 => b = <<>> /\ ~ Closes(s))
<1>1. /\ Len(s) \in Nat /\ q \in 1 .. Len(s) /\ p <= NameAt(s, q) /\ s[q].kind = ".include"
      /\ Plain(s, q, b)
  BY DEF IsFile, Naming
<1>2. NameAt(s, q) \in q + 1 .. Len(s) + 1 /\ NameAt(s, q) \in Nat
  BY <1>1, NameIs
<1>3. IF NameAt(s, q) > Len(s) THEN IsRegion(s, q, <<>>, Len(s) + 2)
      ELSE IsRegion(s, q, <<IncludeAt(s, q)>>, PastFrom(s, q))
  BY <1>1, <1>2, RegionInclude
<1>4. CASE NameAt(s, q) > Len(s)
  BY <1>1, <1>3, <1>4, RemainsNone
<1>5. CASE ~ (NameAt(s, q) > Len(s))
  <2>1. PICK next : next = PastFrom(s, q) /\ next \in NameAt(s, q) + 1 .. Len(s) + 1
    <3>1. NameAt(s, q) <= Len(s)
      BY <1>1, <1>2, <1>5
    <3>2. QED
      BY <1>1, <3>1, NameIs
  <2>2. IncludeAt(s, q).last = next - 1
    BY <2>1 DEF IncludeAt, IncludeItem
  <2>3. next - 1 \in p .. Len(s) /\ p <= next /\ next \in 1 .. Len(s) + 2 /\ p # Len(s) + 1
    BY <1>1, <1>2, <1>5, <2>1
  <2>4. Within(AnyItems(s), b, p, Len(s))
    BY <1>1, <1>3, <1>5, <2>1, <2>2, <2>3, RemainsOne
  <2>5. QED
    BY <2>3, <2>4
<1>6. QED
  BY <1>4, <1>5

\* The same in a string,
LEMMA RemainsQuoting ==
  ASSUME NEW s, IsFile(s), NEW p \in 1 .. Len(s) + 1, NEW q, NEW buf, NEW b, Quoting(s, q, p, buf, b)
  PROVE  Within(AnyItems(s), b, p, Len(s)) /\ (p = Len(s) + 1 => b = <<>> /\ ~ Closes(s))
<1>1. /\ Len(s) \in Nat /\ q \in 1 .. Len(s) /\ q + 1 \in 1 .. Len(s) + 1 /\ s[q].kind = Quote
      /\ Plain(s, q, b) /\ p <= Closing(s, q + 1, Quote)
  BY DEF IsFile, Quoting
<1>2. PICK c : c = Closing(s, q + 1, Quote) /\ ClosesAt(s, q + 1, Quote, c)
  BY <1>1, ClosingIs
<1>3. c \in q + 1 .. Len(s) + 1 /\ c \in Nat /\ p <= c
  BY <1>1, <1>2 DEF ClosesAt
<1>4. IF c > Len(s) THEN IsRegion(s, q, <<>>, Len(s) + 2)
      ELSE IsRegion(s, q, <<StringItem(s, q, c)>>, c + 1)
  BY <1>1, <1>2, <1>3, RegionString
<1>5. CASE c > Len(s)
  BY <1>1, <1>4, <1>5, RemainsNone
<1>6. CASE ~ (c > Len(s))
  <2>1. StringItem(s, q, c).last = c
    BY DEF StringItem, TextItem
  <2>2. c \in p .. Len(s) /\ p <= c + 1 /\ c + 1 \in 1 .. Len(s) + 2 /\ p # Len(s) + 1
    BY <1>1, <1>3, <1>6
  <2>3. Within(AnyItems(s), b, p, Len(s))
    BY <1>1, <1>4, <1>6, <2>1, <2>2, RemainsOne
  <2>4. QED
    BY <2>2, <2>3
<1>7. QED
  BY <1>5, <1>6

\* and in a literal.
LEMMA RemainsTicking ==
  ASSUME NEW s, IsFile(s), NEW p \in 1 .. Len(s) + 1, NEW q, NEW b, Ticking(s, q, p, b)
  PROVE  Within(AnyItems(s), b, p, Len(s)) /\ (p = Len(s) + 1 => b = <<>> /\ ~ Closes(s))
<1>1. Len(s) \in Nat /\ p \in Nat
  BY DEF IsFile
<1>2. PICK c, rest : TicksTo(s, q, p, b, c, rest)
  BY TickingIs
<1>3. /\ c \in p .. Len(s) + 1 /\ Plain(s, c + 1, rest)
      /\ b = Join(CharsIn(s, q + 1, p, c - 1), rest)
  BY <1>2 DEF TicksTo
<1>4. c - 1 \in Int /\ p <= (c - 1) + 1 /\ c + 1 \in 1 .. Len(s) + 2 /\ c - 1 <= Len(s) /\ p <= c + 1
  BY <1>1, <1>3
<1>5. Within(AnyItems(s), CharsIn(s, q + 1, p, c - 1), p, c - 1)
  BY <1>1, <1>4, CharsType
<1>6. Within(AnyItems(s), CharsIn(s, q + 1, p, c - 1), p, Len(s))
  BY <1>1, <1>4, <1>5, WithinMore
<1>7. Within(AnyItems(s), rest, c + 1, Len(s))
  BY <1>3, <1>4, RestType
<1>8. Within(AnyItems(s), rest, p, Len(s))
  BY <1>1, <1>4, <1>7, WithinMore
<1>9. Within(AnyItems(s), b, p, Len(s))
  BY <1>1, <1>3, <1>6, <1>8, JoinWithin
<1>10. ASSUME p = Len(s) + 1 PROVE b = <<>> /\ ~ Closes(s)
  <2>1. c = p /\ c + 1 = Len(s) + 2 /\ c + 1 \in Len(s) + 1 .. Len(s) + 2
    BY <1>1, <1>3, <1>10
  <2>2. CharsIn(s, q + 1, p, c - 1) = <<>>
    BY <1>1, <2>1, CharsNone
  <2>3. ItemsFrom(s, c + 1) = <<>> /\ (ClosesFrom(s, c + 1) <=> c + 1 = Len(s) + 1)
    BY <2>1, ItemsAre
  <2>4. rest = <<>> /\ ~ Closes(s)
    BY <1>1, <1>3, <2>1, <2>3 DEF Plain
  <2>5. QED
    BY <1>3, <2>2, <2>4 DEF Join
<1>11. QED
  BY <1>9, <1>10

\* What remains has not been read; at the end nothing does, and a file that
\* closes what it opens is left as it was entered.
LEMMA RemainsType ==
  ASSUME NEW s, IsFile(s), NEW p, NEW start, NEW buf, NEW b, Remains(s, p, start, buf, b)
  PROVE  /\ Within(AnyItems(s), b, p, Len(s))
         /\ p = Len(s) + 1 => b = <<>> /\ (Closes(s) => start = "INITIAL")
<1>1. p \in 1 .. Len(s) + 1
  BY DEF Remains
<1>2. CASE start = "INITIAL" /\ Plain(s, p, b)
  BY <1>1, <1>2, RemainsPlain
<1>3. CASE \E q : Naming(s, q, p, b)
  BY <1>1, <1>3, RemainsNaming
<1>4. CASE \E q : Quoting(s, q, p, buf, b)
  BY <1>1, <1>4, RemainsQuoting
<1>5. CASE \E q : Ticking(s, q, p, b)
  BY <1>1, <1>5, RemainsTicking
<1>6. QED
  BY <1>2, <1>3, <1>4, <1>5 DEF Remains

\* Of the items of a file a have been read, and what remains is to be read.
Account(s, p, start, buf, a) ==
  /\ Within(AnyItems(s), a, 1, p - 1)
  /\ \E rest : Remains(s, p, start, buf, rest) /\ Items(s) = Join(a, rest)

\* The place in the items that stands for a place in the lexemes.
PlaceOf(s, p) == 1 + Cardinality({k \in DOMAIN Items(s) : Items(s)[k].last < p})

\* What an account says.
LEMMA AccountIs ==
  ASSUME NEW s, IsFile(s), NEW p, NEW start, NEW buf, NEW a, Account(s, p, start, buf, a)
  PROVE  /\ p \in 1 .. Len(s) + 1 /\ Len(s) \in Nat
         /\ \E rest : /\ Remains(s, p, start, buf, rest) /\ Items(s) = Join(a, rest)
                      /\ Within(AnyItems(s), rest, p, Len(s)) /\ Joined(AnyItems(s), a, rest, Items(s))
<1>1. PICK rest : Remains(s, p, start, buf, rest) /\ Items(s) = Join(a, rest)
  BY DEF Account
<1>2. p \in 1 .. Len(s) + 1 /\ Len(s) \in Nat
  BY <1>1 DEF Remains, IsFile
<1>3. Within(AnyItems(s), rest, p, Len(s))
  BY <1>1, RemainsType
<1>4. a \in Seq(AnyItems(s)) /\ rest \in Seq(AnyItems(s))
  BY <1>3 DEF Account, Within
<1>5. Joined(AnyItems(s), a, rest, Items(s))
  BY <1>1, <1>4, JoinIsJoined
<1>6. QED
  BY <1>1, <1>2, <1>3, <1>5

\* The items that have been read are those that end in front of the place.
LEMMA PlaceIs ==
  ASSUME NEW s, IsFile(s), NEW p, NEW start, NEW buf, NEW a, Account(s, p, start, buf, a)
  PROVE  PlaceOf(s, p) = Len(a) + 1 /\ Len(a) \in Nat
<1>1. p \in 1 .. Len(s) + 1 /\ Len(s) \in Nat
  BY AccountIs
<1>2. PICK rest : Within(AnyItems(s), rest, p, Len(s)) /\ Joined(AnyItems(s), a, rest, Items(s))
  BY AccountIs
<1>3. PICK n : n = Len(a) /\ n \in Nat
  BY DEF Account, Within
<1>4. PICK m : m = Len(rest) /\ m \in Nat
  BY <1>2 DEF Within
<1>5. PICK all : all = Items(s) /\ DOMAIN all = 1 .. n + m
  BY <1>2, <1>3, <1>4 DEF Joined
<1>6. ASSUME NEW k \in 1 .. n + m PROVE all[k].last < p <=> k <= n
  <2>1. all[k] = IF k <= n THEN a[k] ELSE rest[k - n]
    BY <1>2, <1>3, <1>4, <1>5 DEF Joined
  <2>2. CASE k <= n
    <3>1. a[k].last \in 1 .. p - 1
      BY <1>3, <2>2 DEF Account, Within
    <3>2. QED
      BY <1>1, <2>1, <2>2, <3>1
  <2>3. CASE ~ (k <= n)
    <3>1. k - n \in 1 .. m
      BY <1>3, <1>4, <2>3
    <3>2. rest[k - n].last \in p .. Len(s)
      BY <1>2, <1>4, <3>1 DEF Within
    <3>3. QED
      BY <1>1, <2>1, <2>3, <3>2
  <2>4. QED
    BY <2>2, <2>3
<1>7. {k \in DOMAIN all : all[k].last < p} = 1 .. n
  BY <1>3, <1>4, <1>5, <1>6
<1>8. Cardinality(1 .. n) = n
  <2>1. 1 \in Int /\ n \in Int
    BY <1>3
  <2>2. Cardinality(1 .. n) = IF 1 > n THEN 0 ELSE n - 1 + 1
    BY <2>1, FS_Interval
  <2>3. QED
    BY <1>3, <2>2
<1>9. PlaceOf(s, p) = 1 + Cardinality({k \in DOMAIN all : all[k].last < p})
  BY <1>5 DEF PlaceOf
<1>10. PlaceOf(s, p) = 1 + n
  BY <1>7, <1>8, <1>9
<1>11. QED
  BY <1>3, <1>10

\* A step that reads no item.
LEMMA AccountQuiet ==
  ASSUME NEW s, IsFile(s), NEW p, NEW start, NEW buf, NEW a, Account(s, p, start, buf, a),
         NEW next \in Nat, p <= next, NEW then, NEW more,
         \A rest : Remains(s, p, start, buf, rest) => Remains(s, next, then, more, rest)
  PROVE  Account(s, next, then, more, a)
<1>1. p \in 1 .. Len(s) + 1 /\ Len(s) \in Nat
  BY AccountIs
<1>2. PICK rest : Remains(s, p, start, buf, rest) /\ Items(s) = Join(a, rest)
  BY DEF Account
<1>3. Within(AnyItems(s), a, 1, next - 1)
  <2>1. Within(AnyItems(s), a, 1, p - 1) /\ 1 <= 1 /\ p - 1 <= next - 1
    BY <1>1 DEF Account
  <2>2. p - 1 \in Int /\ next - 1 \in Int /\ 1 \in Int
    BY <1>1
  <2>3. QED
    BY <2>1, <2>2, WithinMore
<1>4. QED
  BY <1>2, <1>3 DEF Account

\* What is in front of a list is of a kind with it.
LEMMA FirstOf ==
  ASSUME NEW S, NEW x, NEW rest \in Seq(S), NEW b \in Seq(S), b = Join(<<x>>, rest)
  PROVE  x \in S /\ <<x>> \in Seq(S)
<1>1. x \in S \union {x} /\ rest \in Seq(S \union {x})
  OBVIOUS
<1>2. Len(b) = Len(rest) + 1 /\ b[1] = x
  BY <1>1, Pushed DEF Join
<1>3. 1 \in DOMAIN b
  BY <1>2
<1>4. QED
  BY <1>2, <1>3

\* A step that reads the next one.
LEMMA AccountYields ==
  ASSUME NEW s, IsFile(s), NEW p, NEW start, NEW buf, NEW a, Account(s, p, start, buf, a),
         NEW next \in Nat, p + 1 <= next, NEW then, NEW more, NEW x,
         \A rest : Remains(s, p, start, buf, rest) => Yields(s, next, then, more, rest, x)
  PROVE  /\ Account(s, next, then, more, Join(a, <<x>>))
         /\ Len(Join(a, <<x>>)) = Len(a) + 1
         /\ Len(a) + 1 \in 1 .. Len(Items(s)) /\ Items(s)[Len(a) + 1] = x
<1> DEFINE S == AnyItems(s)
<1>1. p \in 1 .. Len(s) + 1 /\ Len(s) \in Nat
  BY AccountIs
<1>2. PICK b : /\ Remains(s, p, start, buf, b) /\ Items(s) = Join(a, b)
               /\ Within(S, b, p, Len(s)) /\ Joined(S, a, b, Items(s))
  BY AccountIs
<1>3. PICK rest : Remains(s, next, then, more, rest) /\ b = Join(<<x>>, rest) /\ x.last = next - 1
  BY <1>2 DEF Yields
<1>4. Within(S, rest, next, Len(s))
  BY <1>3, RemainsType
<1>5. a \in Seq(S) /\ b \in Seq(S) /\ rest \in Seq(S) /\ Within(S, a, 1, p - 1)
  BY <1>2, <1>4 DEF Account, Within
<1> HIDE DEF S
<1>6. x \in S /\ <<x>> \in Seq(S)
  BY <1>3, <1>5, FirstOf
<1>7. PICK c : c = Join(a, <<x>>)
  OBVIOUS
<1>8. Items(s) = Join(c, rest)
  <2>1. PICK one \in Seq(S) : one = <<x>>
    BY <1>6
  <2>2. Items(s) = Join(a, Join(one, rest))
    BY <1>2, <1>3, <2>1, Zenon
  <2>3. Items(s) = Join(Join(a, one), rest)
    BY <1>5, <2>2, JoinAssociative
  <2>4. QED
    BY <1>7, <2>1, <2>3, Zenon
<1>9. Within(S, c, 1, next - 1)
  <2>1. p - 1 \in Int /\ next - 1 \in Int /\ 1 \in Int /\ 1 <= 1 /\ p - 1 <= next - 1 /\ 1 <= next - 1
    BY <1>1
  <2>2. Within(S, a, 1, next - 1)
    BY <1>5, <2>1, WithinMore
  <2>3. Within(S, <<x>>, 1, next - 1)
    BY <1>3, <1>6, <2>1 DEF Within
  <2>4. QED
    BY <1>7, <2>1, <2>2, <2>3, JoinWithin
<1>10. Account(s, next, then, more, c)
  BY <1>3, <1>8, <1>9 DEF Account, S
<1>11. Len(c) = Len(a) + 1 /\ Len(a) \in Nat
  <2>1. Joined(S, a, <<x>>, c)
    BY <1>5, <1>6, <1>7, JoinIsJoined
  <2>2. QED
    BY <1>5, <2>1 DEF Joined
<1>12. Len(b) = Len(rest) + 1 /\ b[1] = x
  BY <1>3, <1>5, <1>6, Pushed DEF Join
<1>13. Len(a) + 1 \in 1 .. Len(Items(s)) /\ Items(s)[Len(a) + 1] = x
  <2>1. PICK n, m \in Nat : n = Len(a) /\ m = Len(b) /\ m >= 1
    BY <1>5, <1>12
  <2>2. Len(Items(s)) = n + m /\ \A i \in 1 .. n + m : Items(s)[i] = IF i <= n THEN a[i] ELSE b[i - n]
    BY <1>2, <2>1 DEF Joined, S
  <2>3. n + 1 \in 1 .. n + m /\ ~ (n + 1 <= n) /\ (n + 1) - n = 1
    BY <2>1
  <2>4. QED
    BY <1>12, <2>1, <2>2, <2>3
<1>14. QED
  BY <1>7, <1>10, <1>11, <1>13

\* At the beginning none has been read.
LEMMA AccountStart ==
  ASSUME NEW s, IsFile(s), NEW buf
  PROVE  Account(s, 1, "INITIAL", buf, <<>>)
<1>1. Len(s) \in Nat /\ 1 \in 1 .. Len(s) + 1 /\ 1 \in 1 .. Len(s) + 2
  BY DEF IsFile
<1>2. Items(s) = ItemsFrom(s, 1) /\ (Closes(s) => ClosesFrom(s, 1))
  BY ItemsAre
<1>3. ItemsFrom(s, 1) \in Seq(ItemsAt(s))
  BY <1>1, ItemsAre DEF Within
<1>4. PICK b : b = ItemsFrom(s, 1)
  OBVIOUS
<1>5. Items(s) = Join(<<>>, b)
  BY <1>2, <1>3, <1>4, ConcatEmptySeq DEF Join
<1>6. Remains(s, 1, "INITIAL", buf, b)
  BY <1>1, <1>2, <1>4 DEF Remains, Plain
<1>7. Within(AnyItems(s), <<>>, 1, 1 - 1)
  BY DEF Within
<1>8. QED
  BY <1>5, <1>6, <1>7 DEF Account

\* At the end all have been.
LEMMA AccountEnd ==
  ASSUME NEW s, IsFile(s), NEW start, NEW buf, NEW a, Account(s, Len(s) + 1, start, buf, a)
  PROVE  Len(Items(s)) = Len(a) /\ (Closes(s) => start = "INITIAL")
<1>1. PICK rest : Remains(s, Len(s) + 1, start, buf, rest) /\ Joined(AnyItems(s), a, rest, Items(s))
  BY AccountIs
<1>2. rest = <<>> /\ (Closes(s) => start = "INITIAL")
  BY <1>1, RemainsType
<1>3. Len(a) \in Nat
  BY DEF Account, Within
<1>4. QED
  BY <1>1, <1>2, <1>3 DEF Joined

\* Outside of strings it does not matter what has been collected.
LEMMA AccountAny ==
  ASSUME NEW s, NEW p, NEW buf, NEW a, Account(s, p, "INITIAL", buf, a), NEW more
  PROVE  Account(s, p, "INITIAL", more, a)
BY DEF Account, Remains

\* A rule goes on to next, and what remains to be read is the same.
QuietTo(next) ==
  /\ next \in Top.at + 1 .. Len(Rest) + 1 /\ buffers' = MoveTo(next)
  /\ \A b : Remains(Rest, Top.at, condition, buffer, b) => Remains(Rest, next, condition', buffer', b)

\* It reads the item x, behind which the rest remains.
YieldsTo(next, x) ==
  /\ next \in Top.at + 1 .. Len(Rest) + 1
  /\ \A b : Remains(Rest, Top.at, condition, buffer, b) => Yields(Rest, next, condition', buffer', b, x)

\* Where a rule applies, in the innermost file and on the disk.
LEMMA HereIs ==
  ASSUME IncludeInv, Reading
  PROVE  /\ IsFile(Rest) /\ HasCodes(Rest) /\ Top.at \in 1 .. Len(Rest) /\ Top.file \in DOMAIN Disk
         /\ Len(Rest) \in Nat /\ Item = Rest[Top.at] /\ Next1 = Top.at + 1 /\ Top.at \in Nat
         /\ Top.at + 1 \in Top.at + 1 .. Len(Rest) + 1
<1>1. Top.file \in DOMAIN Disk /\ Top.at \in Nat /\ Len(Rest) \in Nat /\ InFile(Top.at + 1) /\ Top \in Buffers
  BY NextInFile
<1>2. Top.at \in 1 .. Len(Rest)
  BY <1>1 DEF Reading, Buffers, Rest
<1>3. QED
  BY <1>1, <1>2, DiskFile, DiskCodes DEF Rest, Item, Next1

\* What the start condition says of what remains.
LEMMA RemainsHas ==
  ASSUME NEW s, NEW p, NEW buf, NEW b
  PROVE  /\ Remains(s, p, "INITIAL", buf, b) => Plain(s, p, b)
         /\ Remains(s, p, "incl", buf, b) => \E q : Naming(s, q, p, b)
         /\ Remains(s, p, "str", buf, b) => \E q : Quoting(s, q, p, buf, b)
         /\ Remains(s, p, "ch", buf, b) => \E q : Ticking(s, q, p, b)
BY DEF Remains

\* A rule applies under its start condition.
LEMMA SeesIs ==
  ASSUME NEW start, NEW kinds, Sees(start, kinds)
  PROVE  Reading /\ condition = start /\ Item.kind \in kinds
BY DEF Sees

\* Of the rules that return nothing: blanks are eaten,
LEMMA EatsBlanks ==
  ASSUME IncludeInv, EatBlanks
  PROVE  \E next : QuietTo(next)
<1>1. /\ Reading /\ Item.kind = "blank" /\ condition \in {"INITIAL", "incl"}
      /\ buffers' = MoveTo(Next1) /\ condition' = condition /\ buffer' = buffer
  BY SeesIs DEF EatBlanks, Quiet
<1>2. /\ IsFile(Rest) /\ Top.at \in 1 .. Len(Rest) /\ Item = Rest[Top.at] /\ Next1 = Top.at + 1
      /\ Top.at + 1 \in Top.at + 1 .. Len(Rest) + 1
  BY <1>1, HereIs
<1>3. ASSUME NEW b, Remains(Rest, Top.at, condition, buffer, b)
      PROVE  Remains(Rest, Top.at + 1, condition, buffer, b)
  <2>1. CASE condition = "INITIAL"
    <3>1. Plain(Rest, Top.at, b)
      BY <1>3, <2>1, RemainsHas
    <3>2. QED
      BY <1>1, <1>2, <2>1, <3>1, BlankOn
  <2>2. CASE condition = "incl"
    <3>1. PICK q : Naming(Rest, q, Top.at, b)
      BY <1>3, <2>2, RemainsHas
    <3>2. "blank" \in Spaces
      BY DEF Spaces
    <3>3. QED
      BY <1>1, <1>2, <2>2, <3>1, <3>2, NameWaits
  <2>3. QED
    BY <1>1, <2>1, <2>2
<1>4. QED
  BY <1>1, <1>2, <1>3 DEF QuietTo

\* a newline in a name is echoed,
LEMMA EchoesNewline ==
  ASSUME IncludeInv, EchoNewline
  PROVE  \E next : QuietTo(next)
<1>1. /\ Reading /\ Item.kind = "newline" /\ condition = "incl"
      /\ buffers' = MoveTo(Next1) /\ condition' = condition /\ buffer' = buffer
  BY SeesIs DEF EchoNewline, Quiet
<1>2. /\ IsFile(Rest) /\ Top.at \in 1 .. Len(Rest) /\ Item = Rest[Top.at] /\ Next1 = Top.at + 1
      /\ Top.at + 1 \in Top.at + 1 .. Len(Rest) + 1
  BY <1>1, HereIs
<1>3. ASSUME NEW b, Remains(Rest, Top.at, condition, buffer, b)
      PROVE  Remains(Rest, Top.at + 1, condition, buffer, b)
  <2>1. PICK q : Naming(Rest, q, Top.at, b)
    BY <1>1, <1>3, RemainsHas
  <2>2. "newline" \in Spaces
    BY DEF Spaces
  <2>3. QED
    BY <1>1, <1>2, <2>1, <2>2, NameWaits
<1>4. QED
  BY <1>1, <1>2, <1>3 DEF QuietTo

\* a tick opens a literal,
LEMMA OpensTick ==
  ASSUME IncludeInv, OpenTick
  PROVE  \E next : QuietTo(next)
<1>1. /\ Reading /\ Item.kind = "'" /\ condition = "INITIAL"
      /\ buffers' = MoveTo(Next1) /\ condition' = "ch" /\ buffer' = buffer
  BY SeesIs DEF OpenTick, Quiet
<1>2. /\ IsFile(Rest) /\ Top.at \in 1 .. Len(Rest) /\ Item = Rest[Top.at] /\ Next1 = Top.at + 1
      /\ Top.at + 1 \in Top.at + 1 .. Len(Rest) + 1
  BY <1>1, HereIs
<1>3. ASSUME NEW b, Remains(Rest, Top.at, condition, buffer, b)
      PROVE  Remains(Rest, Top.at + 1, "ch", buffer, b)
  <2>1. Plain(Rest, Top.at, b)
    BY <1>1, <1>3, RemainsHas
  <2>2. QED
    BY <1>1, <1>2, <2>1, TickOn
<1>4. QED
  BY <1>1, <1>2, <1>3 DEF QuietTo

\* and closes one,
LEMMA ClosesTick ==
  ASSUME IncludeInv, CloseTick
  PROVE  \E next : QuietTo(next)
<1>1. /\ Reading /\ Item.kind = "'" /\ condition = "ch"
      /\ buffers' = MoveTo(Next1) /\ condition' = "INITIAL" /\ buffer' = buffer
  BY SeesIs DEF CloseTick, Quiet
<1>2. /\ IsFile(Rest) /\ Top.at \in 1 .. Len(Rest) /\ Item = Rest[Top.at] /\ Next1 = Top.at + 1
      /\ Top.at + 1 \in Top.at + 1 .. Len(Rest) + 1
  BY <1>1, HereIs
<1>3. ASSUME NEW b, Remains(Rest, Top.at, condition, buffer, b)
      PROVE  Remains(Rest, Top.at + 1, "INITIAL", buffer, b)
  <2>1. PICK q : Ticking(Rest, q, Top.at, b)
    BY <1>1, <1>3, RemainsHas
  <2>2. QED
    BY <1>1, <1>2, <2>1, TickCloses
<1>4. QED
  BY <1>1, <1>2, <1>3 DEF QuietTo

\* The rules for a quote and for what a string takes.
LEMMA QuoteRules ==
  /\ OpenQuote => Sees("INITIAL", {Quote}) /\ condition' = "str" /\ buffer' = <<>> /\ Quiet(Next1)
  /\ GrowString => Sees("str", Kinds \ {Quote})
  /\ ReturnsToken => \/ Sees("INITIAL", Kinds \ {"blank", "'", Quote, ".include"})
                     \/ Sees("ch", Kinds \ {"'"})
                     \/ Sees("str", {Quote})
BY Zenon DEF OpenQuote, GrowString, ReturnsToken, Quote

\* a quote opens a string,
LEMMA OpensQuote ==
  ASSUME IncludeInv, OpenQuote
  PROVE  \E next : QuietTo(next)
<1>1. /\ Reading /\ Item.kind = Quote /\ condition = "INITIAL"
      /\ buffers' = MoveTo(Next1) /\ condition' = "str" /\ buffer' = <<>>
  BY QuoteRules, SeesIs DEF Quiet
<1>2. /\ IsFile(Rest) /\ Top.at \in 1 .. Len(Rest) /\ Item = Rest[Top.at] /\ Next1 = Top.at + 1
      /\ Top.at + 1 \in Top.at + 1 .. Len(Rest) + 1
  BY <1>1, HereIs
<1>3. ASSUME NEW b, Remains(Rest, Top.at, condition, buffer, b)
      PROVE  Remains(Rest, Top.at + 1, "str", <<>>, b)
  <2>1. Plain(Rest, Top.at, b)
    BY <1>1, <1>3, RemainsHas
  <2>2. QED
    BY <1>1, <1>2, <2>1, QuoteOn
<1>4. QED
  BY <1>1, <1>2, <1>3 DEF QuietTo

\* an .include waits for its name,
LEMMA BeginsInclude ==
  ASSUME IncludeInv, BeginInclude
  PROVE  \E next : QuietTo(next)
<1>1. /\ Reading /\ Item.kind = ".include" /\ condition = "INITIAL"
      /\ buffers' = MoveTo(Next1) /\ condition' = "incl" /\ buffer' = buffer
  BY SeesIs DEF BeginInclude, Quiet
<1>2. /\ IsFile(Rest) /\ Top.at \in 1 .. Len(Rest) /\ Item = Rest[Top.at] /\ Next1 = Top.at + 1
      /\ Top.at + 1 \in Top.at + 1 .. Len(Rest) + 1
  BY <1>1, HereIs
<1>3. ASSUME NEW b, Remains(Rest, Top.at, condition, buffer, b)
      PROVE  Remains(Rest, Top.at + 1, "incl", buffer, b)
  <2>1. Plain(Rest, Top.at, b)
    BY <1>1, <1>3, RemainsHas
  <2>2. QED
    BY <1>1, <1>2, <2>1, NameOpens
<1>4. QED
  BY <1>1, <1>2, <1>3 DEF QuietTo

\* (the backslashes of a string and of a literal are those of EscapesAt)
LEMMA EscapesIs ==
  ASSUME IncludeInv, Reading
  PROVE  Escapes <=> EscapesAt(Rest, Top.at)
BY HereIs DEF Escapes, EscapesAt

\* and a string grows.
LEMMA GrowsString ==
  ASSUME IncludeInv, GrowString
  PROVE  \E next : QuietTo(next)
<1>1. /\ Reading /\ Item.kind # Quote /\ condition = "str" /\ condition' = condition
  <2>1. Reading /\ condition = "str" /\ Item.kind \in Kinds \ {Quote}
    BY QuoteRules, SeesIs
  <2>2. QED
    BY <2>1 DEF GrowString
<1>2. /\ IsFile(Rest) /\ HasCodes(Rest) /\ Top.at \in 1 .. Len(Rest) /\ Item = Rest[Top.at]
      /\ Next1 = Top.at + 1 /\ Top.at + 1 \in Top.at + 1 .. Len(Rest) + 1
      /\ Len(Rest) \in Nat /\ Top.at \in Nat
  BY <1>1, HereIs
<1>3. CASE Escapes
  <2>1. EscapesAt(Rest, Top.at)
    BY <1>1, <1>3, EscapesIs
  <2>2. Top.at + 2 \in Top.at + 1 .. Len(Rest) + 1 /\ Top.at + 1 \in 1 .. Len(Rest)
    BY <1>2, <2>1 DEF EscapesAt
  <2>3. buffers' = MoveTo(Top.at + 2) /\ buffer' = Join(buffer, Escaped(Rest, Top.at + 1))
    <3>1. PICK codes : codes = Rest[Top.at + 1].codes /\ codes \in Seq(Byte) \ {<<>>}
      BY <2>2, <1>2 DEF HasCodes
    <3>2. Head(codes) = codes[1]
      BY <3>1
    <3>3. /\ buffer' = buffer \o IF Head(codes) = 110 THEN <<10>> \o Tail(codes) ELSE <<92>> \o codes
          /\ buffers' = MoveTo(Top.at + 2)
      BY <1>2, <1>3, <3>1 DEF GrowString, Quiet
    <3>4. Escaped(Rest, Top.at + 1) = IF codes[1] = 110 THEN <<10>> \o Tail(codes) ELSE <<92>> \o codes
      BY <3>1 DEF Escaped
    <3>5. QED
      BY <3>2, <3>3, <3>4 DEF Join
  <2>4. ASSUME NEW b, Remains(Rest, Top.at, condition, buffer, b)
        PROVE  Remains(Rest, Top.at + 2, "str", Join(buffer, Escaped(Rest, Top.at + 1)), b)
    <3>1. PICK q : Quoting(Rest, q, Top.at, buffer, b)
      BY <1>1, <2>4, RemainsHas
    <3>2. QED
      BY <1>1, <1>2, <2>1, <3>1, StringEscapes
  <2>5. QED
    BY <1>1, <2>2, <2>3, <2>4 DEF QuietTo
<1>4. CASE ~ Escapes
  <2>1. ~ EscapesAt(Rest, Top.at)
    BY <1>1, <1>4, EscapesIs
  <2>2. buffers' = MoveTo(Top.at + 1) /\ buffer' = Join(buffer, Rest[Top.at].codes)
    BY <1>2, <1>4 DEF GrowString, Quiet, Join
  <2>3. ASSUME NEW b, Remains(Rest, Top.at, condition, buffer, b)
        PROVE  Remains(Rest, Top.at + 1, "str", Join(buffer, Rest[Top.at].codes), b)
    <3>1. PICK q : Quoting(Rest, q, Top.at, buffer, b)
      BY <1>1, <2>3, RemainsHas
    <3>2. QED
      BY <1>1, <1>2, <2>1, <3>1, StringGrows
  <2>4. QED
    BY <1>1, <1>2, <2>2, <2>3 DEF QuietTo
<1>5. QED
  BY <1>3, <1>4

\* What returns nothing reads no item.
LEMMA QuietlyOn ==
  ASSUME IncludeInv, ScanQuietly
  PROVE  \E next : QuietTo(next)
BY EatsBlanks, OpensTick, ClosesTick, OpensQuote, GrowsString, BeginsInclude, EchoesNewline
   DEF ScanQuietly

\* The rules that return tokens, with what they return and where they end.
LEMMA TokenRules ==
  /\ \A l : l.kind \in EndsLine => TokenOf(l) = Newline
  /\ condition = "INITIAL" /\ Item.kind = "newline" => TokenEnd = LineEnd(Top.at)
  /\ condition = "INITIAL" /\ Item.kind \in EndsLine \ {"newline"} =>
       TokenEnd = LineEnd(RunEnd(Top.at, Kinds \ {"newline"}))
  /\ condition = "INITIAL" /\ Item.kind \notin EndsLine => TokenEnd = Next1
  /\ condition = "ch" /\ Escapes => TokenEnd = Top.at + 2
  /\ condition = "ch" /\ ~ Escapes => TokenEnd = Next1
  /\ condition = "str" => TokenEnd = Next1
<1>1. ASSUME NEW l, l.kind \in EndsLine PROVE TokenOf(l) = Newline
  BY <1>1, Zenon DEF TokenOf, EndsLine
<1>2. ASSUME condition = "INITIAL", Item.kind = "newline" PROVE TokenEnd = LineEnd(Top.at)
  BY <1>2, Zenon DEF TokenEnd
<1>3. ASSUME condition = "INITIAL", Item.kind \in EndsLine \ {"newline"}
      PROVE  TokenEnd = LineEnd(RunEnd(Top.at, Kinds \ {"newline"}))
  BY <1>3, Zenon DEF TokenEnd, EndsLine
<1>4. ASSUME condition = "INITIAL", Item.kind \notin EndsLine PROVE TokenEnd = Next1
  BY <1>4, Zenon DEF TokenEnd, EndsLine
<1>5. ASSUME condition = "ch", Escapes PROVE TokenEnd = Top.at + 2
  BY <1>5, Zenon DEF TokenEnd
<1>6. ASSUME condition = "ch", ~ Escapes PROVE TokenEnd = Next1
  BY <1>6, Zenon DEF TokenEnd
<1>7. ASSUME condition = "str" PROVE TokenEnd = Next1
  BY <1>7, Zenon DEF TokenEnd
<1>8. QED
  BY <1>1, <1>2, <1>3, <1>4, <1>5, <1>6, <1>7

\* A newline ends where the lines go on.
LEMMA TokenEndsLine ==
  ASSUME IncludeInv, Reading, condition = "INITIAL", Item.kind \in EndsLine
  PROVE  TokenEnd = OnFrom(Rest, Top.at)
<1>1. /\ IsFile(Rest) /\ Top.at \in 1 .. Len(Rest) /\ Item = Rest[Top.at] /\ Len(Rest) \in Nat
      /\ Top.at \in 1 .. Len(Rest) + 1
  BY HereIs
<1> DEFINE end == Find(Rest, Top.at, {"newline"})
<1>2. FoundAt(Rest, Top.at, {"newline"}, end)
  BY <1>1, FindIs
<1>3. end \in 1 .. Len(Rest) + 1
  BY <1>1, <1>2 DEF FoundAt
<1>4. TokenEnd = RunEnd(end, {"newline"})
  <2>1. CASE Item.kind = "newline"
    <3>1. FoundAt(Rest, Top.at, {"newline"}, Top.at)
      BY <1>1, <2>1 DEF FoundAt
    <3>2. end = Top.at
      BY <1>1, <1>2, <3>1, FoundOnce
    <3>3. QED
      BY <2>1, <3>2, TokenRules DEF LineEnd
  <2>2. CASE Item.kind # "newline"
    <3>1. RunEnd(Top.at, Kinds \ {"newline"}) = Find(Rest, Top.at, Kinds \ (Kinds \ {"newline"}))
      BY <1>1, RunEndFinds
    <3>2. Kinds \ (Kinds \ {"newline"}) = {"newline"}
      BY EndsLineOnly
    <3>3. QED
      BY <2>2, <3>1, <3>2, TokenRules DEF LineEnd
  <2>3. QED
    BY <2>1, <2>2
<1>5. RunEnd(end, {"newline"}) = Find(Rest, end, Kinds \ {"newline"})
  <2> HIDE DEF end
  <2>1. QED
    BY <1>1, <1>3, RunEndFinds
<1>6. QED
  BY <1>4, <1>5 DEF OnFrom

\* A token is the next item.
TokenTo(next, x) ==
  YieldsTo(next, x) /\ buffers' = MoveTo(next) /\ x.text = Token /\ ~ IsInclude(x)

\* A token is an item that includes nothing.
LEMMA TextItemIs ==
  ASSUME NEW t, NEW i
  PROVE  TextItem(t, i).text = t /\ TextItem(t, i).last = i /\ ~ IsInclude(TextItem(t, i))
BY DEF TextItem, IsInclude

\* Which token is returned depends on the start condition.
LEMMA TokenIs ==
  /\ condition = "INITIAL" => Token = TokenOf(Item)
  /\ condition = "str" => Token = String(buffer)
  /\ condition = "ch" /\ Escapes => Token = Character(Rest[Next1].codes, TRUE)
  /\ condition = "ch" /\ ~ Escapes => Token = Character(Item.codes, FALSE)
BY DEF Token

\* What returning a token changes.
LEMMA ReturnIs ==
  ASSUME Return
  PROVE  /\ buffers' = MoveTo(TokenEnd) /\ buffer' = buffer /\ text' = Append(text, Token)
         /\ condition = "str" => condition' = "INITIAL"
         /\ condition # "str" => condition' = condition
BY DEF Return

\* The end of a line is the next item,
LEMMA ReturnsLine ==
  ASSUME IncludeInv, Return, Reading, condition = "INITIAL", Item.kind \in EndsLine
  PROVE  \E next, x : TokenTo(next, x)
<1>1. /\ IsFile(Rest) /\ Top.at \in 1 .. Len(Rest) /\ Item = Rest[Top.at]
  BY HereIs
<1>2. PICK next : next = OnFrom(Rest, Top.at)
  OBVIOUS
<1>3. next \in Top.at + 1 .. Len(Rest) + 1
  BY <1>1, <1>2, OnIs
<1>4. PICK x : x = NewlineItem(Rest, Top.at)
  OBVIOUS
<1>5. x.text = Newline /\ ~ IsInclude(x) /\ Token = Newline
  BY <1>4, TextItemIs, TokenIs, TokenRules DEF NewlineItem
<1>6. condition' = "INITIAL" /\ buffers' = MoveTo(next)
  BY <1>2, ReturnIs, TokenEndsLine
<1>7. ASSUME NEW b, Remains(Rest, Top.at, condition, buffer, b)
      PROVE  Yields(Rest, next, "INITIAL", buffer', b, x)
  <2>1. Plain(Rest, Top.at, b)
    BY <1>7, RemainsHas
  <2>2. QED
    BY <1>1, <1>2, <1>4, <2>1, NewlineYields
<1>8. QED
  BY <1>3, <1>5, <1>6, <1>7 DEF TokenTo, YieldsTo

\* so is a lexeme of its own,
LEMMA ReturnsWord ==
  ASSUME IncludeInv, Return, Reading, condition = "INITIAL", Item.kind \in Alone
  PROVE  \E next, x : TokenTo(next, x)
<1>1. /\ IsFile(Rest) /\ Top.at \in 1 .. Len(Rest) /\ Item = Rest[Top.at] /\ Next1 = Top.at + 1
      /\ Top.at + 1 \in Top.at + 1 .. Len(Rest) + 1
  BY HereIs
<1>2. PICK x : x = TokenItem(Rest, Top.at)
  OBVIOUS
<1>3. x.text = Token /\ ~ IsInclude(x)
  BY <1>1, <1>2, TextItemIs, TokenIs DEF TokenItem
<1>4. Item.kind \notin EndsLine
  BY DEF Alone
<1>5. condition' = "INITIAL" /\ buffers' = MoveTo(Top.at + 1)
  BY <1>1, <1>4, ReturnIs, TokenRules
<1>6. ASSUME NEW b, Remains(Rest, Top.at, condition, buffer, b)
      PROVE  Yields(Rest, Top.at + 1, "INITIAL", buffer', b, x)
  <2>1. Plain(Rest, Top.at, b)
    BY <1>6, RemainsHas
  <2>2. QED
    BY <1>1, <1>2, <2>1, TokenYields
<1>7. QED
  BY <1>1, <1>3, <1>5, <1>6 DEF TokenTo, YieldsTo

\* a string that is closed,
LEMMA ReturnsString ==
  ASSUME IncludeInv, Return, Reading, condition = "str", Item.kind = Quote
  PROVE  \E next, x : TokenTo(next, x)
<1>1. /\ IsFile(Rest) /\ Top.at \in 1 .. Len(Rest) /\ Item = Rest[Top.at] /\ Next1 = Top.at + 1
      /\ Top.at + 1 \in Top.at + 1 .. Len(Rest) + 1
  BY HereIs
<1>2. PICK x : x = TextItem(String(buffer), Top.at)
  OBVIOUS
<1>3. x.text = Token /\ ~ IsInclude(x)
  BY <1>1, <1>2, TextItemIs, TokenIs
<1>4. condition' = "INITIAL" /\ buffers' = MoveTo(Top.at + 1)
  BY <1>1, ReturnIs, TokenRules
<1>5. ASSUME NEW b, Remains(Rest, Top.at, condition, buffer, b)
      PROVE  Yields(Rest, Top.at + 1, "INITIAL", buffer', b, x)
  <2>1. PICK q : Quoting(Rest, q, Top.at, buffer, b)
    BY <1>5, RemainsHas
  <2>2. QED
    BY <1>1, <1>2, <2>1, StringYields
<1>6. QED
  BY <1>1, <1>3, <1>4, <1>5 DEF TokenTo, YieldsTo

\* and a character of a literal.
LEMMA ReturnsCharacter ==
  ASSUME IncludeInv, Return, Reading, condition = "ch", Item.kind # "'"
  PROVE  \E next, x : TokenTo(next, x)
<1>1. /\ IsFile(Rest) /\ Top.at \in 1 .. Len(Rest) /\ Item = Rest[Top.at] /\ Next1 = Top.at + 1
      /\ Top.at + 1 \in Top.at + 1 .. Len(Rest) + 1 /\ Top.at \in Nat /\ Len(Rest) \in Nat
  BY HereIs
<1>2. Escapes <=> EscapesAt(Rest, Top.at)
  BY EscapesIs
<1>3. condition' = "ch"
  BY ReturnIs
<1>4. CASE Escapes
  <2>1. PICK x : x = TextItem(Character(Rest[Top.at + 1].codes, TRUE), Top.at + 1)
    OBVIOUS
  <2>2. x.text = Token /\ ~ IsInclude(x)
    BY <1>1, <1>4, <2>1, TextItemIs, TokenIs
  <2>3. buffers' = MoveTo(Top.at + 2) /\ Top.at + 2 \in Top.at + 1 .. Len(Rest) + 1
    BY <1>1, <1>2, <1>4, ReturnIs, TokenRules DEF EscapesAt
  <2>4. ASSUME NEW b, Remains(Rest, Top.at, condition, buffer, b)
        PROVE  Yields(Rest, Top.at + 2, "ch", buffer', b, x)
    <3>1. PICK q : Ticking(Rest, q, Top.at, b)
      BY <2>4, RemainsHas
    <3>2. QED
      BY <1>1, <1>2, <1>4, <2>1, <3>1, CharEscapes
  <2>5. QED
    BY <1>3, <2>2, <2>3, <2>4 DEF TokenTo, YieldsTo
<1>5. CASE ~ Escapes
  <2>1. PICK x : x = TextItem(Character(Rest[Top.at].codes, FALSE), Top.at)
    OBVIOUS
  <2>2. x.text = Token /\ ~ IsInclude(x)
    BY <1>1, <1>5, <2>1, TextItemIs, TokenIs
  <2>3. buffers' = MoveTo(Top.at + 1)
    BY <1>1, <1>5, ReturnIs, TokenRules
  <2>4. ASSUME NEW b, Remains(Rest, Top.at, condition, buffer, b)
        PROVE  Yields(Rest, Top.at + 1, "ch", buffer', b, x)
    <3>1. PICK q : Ticking(Rest, q, Top.at, b)
      BY <2>4, RemainsHas
    <3>2. QED
      BY <1>1, <1>2, <1>5, <2>1, <3>1, CharYields
  <2>5. QED
    BY <1>1, <1>3, <2>2, <2>3, <2>4 DEF TokenTo, YieldsTo
<1>6. QED
  BY <1>4, <1>5

\* Every token that is returned is the next item.
LEMMA TokenOn ==
  ASSUME IncludeInv, ReturnsToken, Return
  PROVE  Reading /\ \E next, x : TokenTo(next, x)
<1>1. CASE Sees("INITIAL", Kinds \ {"blank", "'", Quote, ".include"})
  <2>1. Reading /\ condition = "INITIAL" /\ Item.kind \in Kinds \ {"blank", "'", Quote, ".include"}
    BY <1>1, SeesIs
  <2>2. Item.kind \in EndsLine \/ Item.kind \in Alone
    BY <2>1 DEF Alone
  <2>3. QED
    BY <2>1, <2>2, ReturnsLine, ReturnsWord
<1>2. CASE Sees("ch", Kinds \ {"'"})
  <2>1. Reading /\ condition = "ch" /\ Item.kind \in Kinds \ {"'"}
    BY <1>2, SeesIs
  <2>2. QED
    BY <2>1, ReturnsCharacter
<1>3. CASE Sees("str", {Quote})
  <2>1. Reading /\ condition = "str" /\ Item.kind \in {Quote}
    BY <1>3, SeesIs
  <2>2. QED
    BY <2>1, ReturnsString
<1>4. QED
  BY <1>1, <1>2, <1>3, QuoteRules

\* An include is the next item.
IncludeTo(next, x) ==
  /\ YieldsTo(next, x) /\ condition' = "INITIAL"
  /\ IsInclude(x) /\ EnterInclude(x.include, next)

\* The file that is included is the one of the next item.
LEMMA IncludeItemOn ==
  ASSUME IncludeInv, ScanInclude
  PROVE  Reading /\ \E next, x : IncludeTo(next, x)
<1>1. /\ Reading /\ condition = "incl" /\ Item.kind \in Kinds \ Spaces
      /\ condition' = "INITIAL" /\ buffer' = buffer
  BY SeesIs DEF ScanInclude
<1>2. /\ IsFile(Rest) /\ Top.at \in 1 .. Len(Rest) /\ Item = Rest[Top.at] /\ Len(Rest) \in Nat
      /\ Top.at \in 1 .. Len(Rest) + 1
  BY <1>1, HereIs
<1>3. PICK next \in Ahead : NameEnd(next) /\ EnterInclude(PathTo(next), next)
  BY DEF ScanInclude
<1>4. next = Find(Rest, Top.at, Kinds \ (Kinds \ Spaces))
  BY <1>2, <1>3, RunEndFinds DEF NameEnd
<1>5. PICK x : x = Named(Rest, Top.at, next)
  OBVIOUS
<1>6. IsInclude(x) /\ x.include = PathTo(next)
  BY <1>5 DEF Named, IncludeItem, IsInclude, PathTo
<1>7. next \in Top.at + 1 .. Len(Rest) + 1
  BY <1>1, <1>2, HereIs DEF Ahead
<1>8. ASSUME NEW b, Remains(Rest, Top.at, condition, buffer, b)
      PROVE  Yields(Rest, next, "INITIAL", buffer', b, x)
  <2>1. PICK q : Naming(Rest, q, Top.at, b)
    BY <1>1, <1>8, RemainsHas
  <2>2. QED
    BY <1>1, <1>2, <1>4, <1>5, <2>1, NameYields
<1>9. QED
  BY <1>1, <1>3, <1>6, <1>7, <1>8 DEF IncludeTo, YieldsTo

\* The stack as the items have it.
MapItems(bs) == <<>> \o [i \in DOMAIN bs |-> ItemAt(bs[i])]

ItemPlaces == {ItemAt(b) : b \in Buffers}

\* The buffers of the refinement are this map of the scanner's, before and after a step.
LEMMA ItemBuffersAre == ItemBuffers = MapItems(buffers) /\ ItemBuffers' = MapItems(buffers')
BY DEF ItemBuffers, MapItems, ItemAt

\* The map keeps the length, and maps each place on its own.
LEMMA MapIs ==
  ASSUME NEW bs \in Seq(Buffers)
  PROVE  /\ MapItems(bs) \in Seq(ItemPlaces) /\ Len(MapItems(bs)) = Len(bs)
         /\ \A i \in 1 .. Len(bs) : MapItems(bs)[i] = ItemAt(bs[i])
<1>1. PICK n \in Nat : n = Len(bs) /\ DOMAIN bs = 1 .. n
  OBVIOUS
<1>2. PICK map : map = [i \in 1 .. n |-> ItemAt(bs[i])]
  OBVIOUS
<1>3. \A i \in 1 .. n : ItemAt(bs[i]) \in ItemPlaces
  BY <1>1 DEF ItemPlaces
<1>4. map \in Seq(ItemPlaces) /\ Len(map) = n /\ \A i \in 1 .. n : map[i] = ItemAt(bs[i])
  BY <1>2, <1>3
<1>5. MapItems(bs) = <<>> \o map
  BY <1>1, <1>2 DEF MapItems
<1>6. MapItems(bs) = map
  BY <1>4, <1>5, ConcatEmptySeq
<1>7. QED
  BY <1>1, <1>4, <1>6

\* A place is mapped to the number of items in front of it.
LEMMA ItemAtIs ==
  ASSUME NEW b, b.file \in DOMAIN Disk
  PROVE  ItemAt(b) = [file |-> b.file, at |-> PlaceOf(Disk[b.file], b.at)]
BY DEF ItemAt, PlaceOf, ItemsOfFiles

\* The disk of the refinement has the items of each file.
LEMMA ItemsOfFilesAre ==
  DOMAIN ItemsOfFiles = DOMAIN Disk /\ \A f \in DOMAIN Disk : ItemsOfFiles[f] = Items(Disk[f])
BY DEF ItemsOfFiles

\* The first one goes on.
GoesTo(bs, n) == [bs EXCEPT ![1].at = n]

\* The map goes on with the scanner,
LEMMA MapMoves ==
  ASSUME NEW bs \in Seq(Buffers), Len(bs) >= 1, NEW b \in Buffers, b.file = bs[1].file,
         NEW next, next = [bs EXCEPT ![1] = b], NEW n, n = ItemAt(b).at
  PROVE  MapItems(next) = GoesTo(MapItems(bs), n)
<1>1. 1 \in 1 .. Len(bs) /\ bs[1] \in Buffers /\ Len(bs) \in Nat
  OBVIOUS
<1>2. next \in Seq(Buffers) /\ Len(next) = Len(bs) /\ next[1] = b
  BY <1>1
<1>3. \A i \in 2 .. Len(bs) : next[i] = bs[i]
  BY <1>1
<1>4. PICK old : /\ old = MapItems(bs) /\ old \in Seq(ItemPlaces) /\ Len(old) = Len(bs)
                 /\ \A i \in 1 .. Len(bs) : old[i] = ItemAt(bs[i])
  BY MapIs
<1>5. PICK new : /\ new = MapItems(next) /\ new \in Seq(ItemPlaces) /\ Len(new) = Len(bs)
                 /\ \A i \in 1 .. Len(bs) : new[i] = ItemAt(next[i])
  BY <1>2, MapIs
<1>6. ItemAt(b) = [ItemAt(bs[1]) EXCEPT !.at = n]
  <2>1. b.file \in DOMAIN Disk /\ bs[1].file = b.file
    BY DEF Buffers
  <2>2. PICK was, is : was = PlaceOf(Disk[b.file], bs[1].at) /\ is = PlaceOf(Disk[b.file], b.at)
    OBVIOUS
  <2>3. ItemAt(b) = [file |-> b.file, at |-> is] /\ ItemAt(bs[1]) = [file |-> b.file, at |-> was]
    BY <2>1, <2>2, ItemAtIs
  <2>4. QED
    BY <2>3
<1>7. new[1] = [old[1] EXCEPT !.at = n]
  BY <1>1, <1>2, <1>4, <1>5, <1>6
<1>8. \A i \in 2 .. Len(bs) : new[i] = old[i]
  <2>1. ASSUME NEW i \in 2 .. Len(bs) PROVE new[i] = old[i]
    <3>1. i \in 1 .. Len(bs)
      BY <1>1
    <3>2. QED
      BY <1>3, <1>4, <1>5, <3>1
  <2>2. QED
    BY <2>1
<1>9. PICK e : e = [old[1] EXCEPT !.at = n]
  OBVIOUS
<1>10. new = [old EXCEPT ![1] = e]
  <2>1. PICK m \in Nat : m = Len(bs) /\ m >= 1
    BY <1>1
  <2>2. PICK changed : changed = [old EXCEPT ![1] = e]
    OBVIOUS
  <2>3. e \in ItemPlaces
    BY <1>1, <1>5, <1>7, <1>9
  <2>4. changed \in Seq(ItemPlaces) /\ Len(changed) = m
    BY <1>4, <2>1, <2>2, <2>3
  <2>5. ASSUME NEW i \in 1 .. m PROVE new[i] = changed[i]
    <3>1. changed[i] = IF i = 1 THEN e ELSE old[i]
      BY <1>4, <2>1, <2>2
    <3>2. i = 1 \/ i \in 2 .. Len(bs)
      BY <2>1
    <3>3. QED
      BY <1>7, <1>8, <1>9, <3>1, <3>2
  <2>6. new = changed
    BY <1>5, <2>1, <2>4, <2>5, SameList
  <2>7. QED
    BY <2>2, <2>6
<1>11. QED
  BY <1>4, <1>5, <1>9, <1>10 DEF GoesTo

\* has a file in front with it,
LEMMA MapPushes ==
  ASSUME NEW bs \in Seq(Buffers), NEW b \in Buffers
  PROVE  MapItems(<<b>> \o bs) = <<ItemAt(b)>> \o MapItems(bs)
<1>1. PICK next : next = <<b>> \o bs
  OBVIOUS
<1>2. /\ next \in Seq(Buffers) /\ Len(next) = Len(bs) + 1 /\ next[1] = b
      /\ \A i \in 1 .. Len(bs) : next[i + 1] = bs[i]
  BY <1>1, Pushed
<1>3. PICK old : /\ old = MapItems(bs) /\ old \in Seq(ItemPlaces) /\ Len(old) = Len(bs)
                 /\ \A i \in 1 .. Len(bs) : old[i] = ItemAt(bs[i])
  BY MapIs
<1>4. PICK new : /\ new = MapItems(next) /\ new \in Seq(ItemPlaces) /\ Len(new) = Len(next)
                 /\ \A i \in 1 .. Len(next) : new[i] = ItemAt(next[i])
  BY <1>2, MapIs
<1>5. ItemAt(b) \in ItemPlaces
  BY DEF ItemPlaces
<1>6. PICK pushed : pushed = <<ItemAt(b)>> \o old
  OBVIOUS
<1>7. /\ pushed \in Seq(ItemPlaces) /\ Len(pushed) = Len(old) + 1 /\ pushed[1] = ItemAt(b)
      /\ \A i \in 1 .. Len(old) : pushed[i + 1] = old[i]
  BY <1>3, <1>5, <1>6, Pushed
<1>8. ASSUME NEW i \in 1 .. Len(new) PROVE new[i] = pushed[i]
  <2>1. CASE i = 1
    BY <1>2, <1>4, <1>7, <2>1
  <2>2. CASE i # 1
    <3>1. PICK k \in 1 .. Len(bs) : i = k + 1
      BY <1>2, <1>4, <2>2
    <3>2. QED
      BY <1>2, <1>3, <1>4, <1>7, <3>1
  <2>3. QED
    BY <2>1, <2>2
<1>9. new = pushed
  BY <1>2, <1>3, <1>4, <1>7, <1>8, SameList
<1>10. QED
  BY <1>1, <1>3, <1>4, <1>6, <1>9

\* and leaves that with it.
LEMMA MapPops ==
  ASSUME NEW bs \in Seq(Buffers), Len(bs) >= 1
  PROVE  MapItems(Tail(bs)) = Tail(MapItems(bs))
<1>1. PICK next : next = Tail(bs)
  OBVIOUS
<1>2. /\ next \in Seq(Buffers) /\ Len(next) = Len(bs) - 1 /\ Len(bs) \in Nat
      /\ \A i \in 1 .. Len(next) : next[i] = bs[i + 1]
  BY <1>1
<1>3. PICK old : /\ old = MapItems(bs) /\ old \in Seq(ItemPlaces) /\ Len(old) = Len(bs)
                 /\ \A i \in 1 .. Len(bs) : old[i] = ItemAt(bs[i])
  BY MapIs
<1>4. PICK new : /\ new = MapItems(next) /\ new \in Seq(ItemPlaces) /\ Len(new) = Len(next)
                 /\ \A i \in 1 .. Len(next) : new[i] = ItemAt(next[i])
  BY <1>2, MapIs
<1>5. PICK popped : popped = Tail(old)
  OBVIOUS
<1>6. /\ popped \in Seq(ItemPlaces) /\ Len(popped) = Len(old) - 1
      /\ \A i \in 1 .. Len(popped) : popped[i] = old[i + 1]
  BY <1>3, <1>5
<1>7. ASSUME NEW i \in 1 .. Len(new) PROVE new[i] = popped[i]
  <2>1. i \in 1 .. Len(next) /\ i + 1 \in 1 .. Len(bs) /\ i \in 1 .. Len(popped)
    BY <1>2, <1>3, <1>4, <1>6
  <2>2. new[i] = ItemAt(next[i]) /\ next[i] = bs[i + 1] /\ popped[i] = old[i + 1]
    BY <1>2, <1>4, <1>6, <2>1
  <2>3. QED
    BY <1>3, <2>1, <2>2
<1>8. new = popped
  BY <1>2, <1>3, <1>4, <1>6, <1>7, SameList
<1>9. QED
  BY <1>1, <1>3, <1>4, <1>5, <1>8

Accounted(b, start, buf) == \E a : Account(Disk[b.file], b.at, start, buf, a)

\* The files below the innermost one go on outside of strings and literals,
\* because those above them close what they open.
Lower(bs) ==
  /\ \A i \in 2 .. Len(bs) : Accounted(bs[i], "INITIAL", <<>>)
  /\ \A i \in 1 .. Len(bs) - 1 : Closes(Disk[bs[i].file])

ItemsInv ==
  /\ status = "start" => condition = "INITIAL"
  /\ status = "reading" => Accounted(Top, condition, buffer) /\ Lower(buffers)

\* Going on in the innermost file changes nothing below it.
LEMMA MoveKeeps ==
  ASSUME NEW bs \in Seq(Buffers), Len(bs) >= 1, Lower(bs), NEW b \in Buffers, b.file = bs[1].file,
         NEW next, next = [bs EXCEPT ![1] = b]
  PROVE  Lower(next) /\ next \in Seq(Buffers) /\ Len(next) = Len(bs) /\ next[1] = b
<1>1. next \in Seq(Buffers) /\ Len(next) = Len(bs) /\ next[1] = b /\ Len(bs) \in Nat
  OBVIOUS
<1>2. \A i \in 2 .. Len(bs) : next[i] = bs[i]
  OBVIOUS
<1>3. \A i \in 1 .. Len(bs) - 1 : next[i].file = bs[i].file
  <2>1. \A i \in 1 .. Len(bs) - 1 : i = 1 \/ i \in 2 .. Len(bs)
    BY <1>1
  <2>2. QED
    BY <1>1, <1>2, <2>1
<1>4. QED
  BY <1>1, <1>2, <1>3 DEF Lower

\* A file that closes what it opens may be put on top of one outside of strings.
LEMMA PushKeeps ==
  ASSUME NEW bs \in Seq(Buffers), Len(bs) >= 1, Lower(bs), Accounted(bs[1], "INITIAL", <<>>),
         NEW b \in Buffers, Closes(Disk[b.file]), NEW next, next = <<b>> \o bs
  PROVE  Lower(next) /\ next[1] = b
<1>1. /\ next \in Seq(Buffers) /\ Len(next) = Len(bs) + 1 /\ next[1] = b
      /\ \A i \in 1 .. Len(bs) : next[i + 1] = bs[i]
  BY Pushed
<1>2. ASSUME NEW i \in 2 .. Len(next) PROVE Accounted(next[i], "INITIAL", <<>>)
  <2>1. PICK k \in 1 .. Len(bs) : i = k + 1
    <3>1. Len(bs) \in Nat /\ i - 1 \in 1 .. Len(bs) /\ i = (i - 1) + 1
      BY <1>1
    <3>2. QED
      BY <3>1
  <2>2. next[i] = bs[k] /\ (k = 1 \/ k \in 2 .. Len(bs))
    BY <1>1, <2>1
  <2>3. QED
    BY <2>2 DEF Lower
<1>3. ASSUME NEW i \in 1 .. Len(next) - 1 PROVE Closes(Disk[next[i].file])
  <2>1. CASE i = 1
    BY <1>1, <2>1
  <2>2. CASE i # 1
    <3>1. PICK k \in 1 .. Len(bs) - 1 : i = k + 1 /\ k \in 1 .. Len(bs)
      BY <1>1, <2>2
    <3>2. next[i] = bs[k]
      BY <1>1, <3>1
    <3>3. QED
      BY <3>1, <3>2 DEF Lower
  <2>3. QED
    BY <2>1, <2>2
<1>4. QED
  BY <1>1, <1>2, <1>3 DEF Lower

\* When it is left the one below goes on outside of strings.
LEMMA PopKeeps ==
  ASSUME NEW bs \in Seq(Buffers), Len(bs) >= 2, Lower(bs), NEW next, next = Tail(bs)
  PROVE  Lower(next) /\ Accounted(next[1], "INITIAL", <<>>) /\ Closes(Disk[bs[1].file])
<1>1. /\ next \in Seq(Buffers) /\ Len(next) = Len(bs) - 1 /\ Len(bs) \in Nat
      /\ \A i \in 1 .. Len(next) : next[i] = bs[i + 1]
  OBVIOUS
<1>2. ASSUME NEW i \in 2 .. Len(next) PROVE Accounted(next[i], "INITIAL", <<>>)
  <2>1. i + 1 \in 2 .. Len(bs) /\ next[i] = bs[i + 1]
    BY <1>1
  <2>2. QED
    BY <2>1 DEF Lower
<1>3. ASSUME NEW i \in 1 .. Len(next) - 1 PROVE Closes(Disk[next[i].file])
  <2>1. i + 1 \in 1 .. Len(bs) - 1 /\ next[i] = bs[i + 1]
    BY <1>1
  <2>2. QED
    BY <2>1 DEF Lower
<1>4. next[1] = bs[2] /\ 2 \in 2 .. Len(bs) /\ 1 \in 1 .. Len(bs) - 1
  BY <1>1
<1>5. QED
  BY <1>2, <1>3, <1>4 DEF Lower

\* The innermost file and its items.
LEMMA ReadingIs ==
  ASSUME IncludeInv, ItemsInv, status = "reading"
  PROVE  /\ buffers \in Seq(Buffers) /\ Len(buffers) >= 1 /\ Lower(buffers) /\ Top = buffers[1]
         /\ Top \in Buffers /\ Top.file \in DOMAIN Disk /\ IsFile(Rest) /\ Rest = Disk[Top.file]
         /\ Len(Rest) \in Nat /\ Top.at \in 1 .. Len(Rest) + 1
         /\ cwd \in Directories /\ Len(buffers) = Len(cwds) + 1
         /\ I!Top.file = Top.file /\ I!Rest = Items(Rest)
         /\ \E a : Account(Rest, Top.at, condition, buffer, a) /\ I!Top.at = Len(a) + 1 /\ Len(a) \in Nat
<1>1. Levels
  BY DEF IncludeInv
<1>2. /\ buffers \in Seq(Buffers) /\ Len(buffers) = Len(cwds) + 1 /\ Len(cwds) \in Nat
      /\ cwd \in Directories
  BY <1>1 DEF Levels
<1>3. Top = buffers[1] /\ Top \in Buffers /\ 1 \in 1 .. Len(buffers) /\ Len(buffers) >= 1
  BY <1>2 DEF Top
<1>4. Top.file \in DOMAIN Disk /\ Rest = Disk[Top.file] /\ Top.at \in 1 .. Len(Rest) + 1
  BY <1>3 DEF Buffers, Rest
<1>5. IsFile(Rest) /\ Len(Rest) \in Nat
  BY <1>4, DiskFile DEF IsFile
<1>6. Lower(buffers) /\ Accounted(Top, condition, buffer)
  BY DEF ItemsInv
<1>7. ItemBuffers[1] = [file |-> Top.file, at |-> PlaceOf(Rest, Top.at)]
  <2>1. MapItems(buffers)[1] = ItemAt(buffers[1])
    BY <1>2, <1>3, MapIs
  <2>2. ItemAt(Top) = [file |-> Top.file, at |-> PlaceOf(Rest, Top.at)]
    BY <1>4, ItemAtIs
  <2>3. QED
    BY <1>3, <2>1, <2>2, ItemBuffersAre
<1>8. I!Top.file = Top.file /\ I!Top.at = PlaceOf(Rest, Top.at)
  BY <1>7 DEF I!Top
<1>9. I!Rest = Items(Rest)
  BY <1>4, <1>8, ItemsOfFilesAre DEF I!Rest
<1>10. PICK a : Account(Rest, Top.at, condition, buffer, a)
  BY <1>4, <1>6 DEF Accounted
<1>11. I!Top.at = Len(a) + 1 /\ Len(a) \in Nat
  BY <1>5, <1>8, <1>10, PlaceIs
<1>12. QED
  BY <1>2, <1>3, <1>4, <1>5, <1>6, <1>8, <1>9, <1>10, <1>11

\* Going on in the innermost file.
LEMMA MovedIs ==
  ASSUME IncludeInv, ItemsInv, status = "reading", NEW next \in 1 .. Len(Rest) + 1,
         NEW then, NEW more, NEW a, Account(Rest, next, then, more, a)
  PROVE  /\ MoveTo(next) \in Seq(Buffers) /\ Len(MoveTo(next)) = Len(buffers)
         /\ Lower(MoveTo(next)) /\ Accounted(MoveTo(next)[1], then, more)
         /\ MapItems(MoveTo(next)) = GoesTo(ItemBuffers, Len(a) + 1)
<1>1. /\ buffers \in Seq(Buffers) /\ Len(buffers) >= 1 /\ Lower(buffers) /\ Top = buffers[1]
      /\ Top \in Buffers /\ Top.file \in DOMAIN Disk /\ IsFile(Rest) /\ Rest = Disk[Top.file]
      /\ Len(Rest) \in Nat
  BY ReadingIs
<1>2. PICK b : b = [Top EXCEPT !.at = next]
  OBVIOUS
<1>3. b \in Buffers /\ b.file = Top.file /\ b.at = next
  BY <1>1, <1>2 DEF Buffers
<1>4. PICK moved : moved = MoveTo(next)
  OBVIOUS
<1>5. moved = [buffers EXCEPT ![1] = b]
  BY <1>1, <1>2, <1>4 DEF MoveTo
<1>6. moved \in Seq(Buffers) /\ Len(moved) = Len(buffers) /\ Lower(moved) /\ moved[1] = b
  BY <1>1, <1>3, <1>5, MoveKeeps
<1>7. Accounted(moved[1], then, more)
  BY <1>1, <1>3, <1>6 DEF Accounted
<1>8. ItemAt(b).at = Len(a) + 1
  <2>1. ItemAt(b) = [file |-> b.file, at |-> PlaceOf(Disk[b.file], b.at)]
    BY <1>1, <1>3, ItemAtIs
  <2>2. PlaceOf(Rest, next) = Len(a) + 1
    BY <1>1, PlaceIs
  <2>3. QED
    BY <1>1, <1>3, <2>1, <2>2
<1>9. MapItems(moved) = GoesTo(ItemBuffers, Len(a) + 1)
  <2>1. PICK n : n = Len(a) + 1
    OBVIOUS
  <2>2. n = ItemAt(b).at
    BY <1>8, <2>1
  <2>3. b.file = buffers[1].file
    BY <1>1, <1>3
  <2>4. MapItems(moved) = GoesTo(MapItems(buffers), n)
    BY <1>1, <1>3, <1>5, <2>2, <2>3, MapMoves
  <2>5. QED
    BY <2>1, <2>4, ItemBuffersAre
<1>10. QED
  BY <1>4, <1>6, <1>7, <1>9

\* A step of the front end is one of CS8Include, or none, and the account goes on.
Maps == ItemsInv' /\ (I!Next \/ UNCHANGED I!readVars)

\* What the items are read by is the stack, and nothing else is.
SameBuffers == ItemBuffers' = ItemBuffers

\* A step that leaves the stack leaves its map.
LEMMA Unmoved ==
  ASSUME buffers' = buffers
  PROVE  SameBuffers
BY ItemBuffersAre DEF SameBuffers

\* What returns nothing is a stutter of CS8Include.
LEMMA QuietMaps ==
  ASSUME IncludeInv, ItemsInv, status = "reading", NEW next, QuietTo(next),
         UNCHANGED <<status, input, cwd, cwds, opened, text>>
  PROVE  Maps
<1>1. /\ IsFile(Rest) /\ Len(Rest) \in Nat /\ Top.at \in 1 .. Len(Rest) + 1
      /\ buffers \in Seq(Buffers) /\ Len(buffers) >= 1
  BY ReadingIs
<1>2. PICK a : Account(Rest, Top.at, condition, buffer, a) /\ I!Top.at = Len(a) + 1
  BY ReadingIs
<1>3. /\ next \in 1 .. Len(Rest) + 1 /\ Top.at <= next /\ next \in Nat /\ buffers' = MoveTo(next)
      /\ \A b : Remains(Rest, Top.at, condition, buffer, b) => Remains(Rest, next, condition', buffer', b)
  BY <1>1 DEF QuietTo
<1>4. Account(Rest, next, condition', buffer', a)
  BY <1>1, <1>2, <1>3, AccountQuiet
<1>5. /\ Lower(buffers') /\ Accounted(buffers'[1], condition', buffer')
      /\ MapItems(buffers') = GoesTo(ItemBuffers, Len(a) + 1)
  BY <1>3, <1>4, MovedIs
<1>6. ItemsInv'
  BY <1>5 DEF ItemsInv, Top
<1>7. GoesTo(ItemBuffers, Len(a) + 1) = ItemBuffers
  <2>1. PICK n : n = Len(a) + 1 /\ ItemBuffers[1].at = n
    BY <1>2 DEF I!Top
  <2>2. ItemBuffers \in Seq(ItemPlaces) /\ Len(ItemBuffers) >= 1
    BY <1>1, MapIs, ItemBuffersAre
  <2>3. ItemBuffers[1] \in ItemPlaces
    BY <2>2
  <2>4. PICK b : ItemBuffers[1] = ItemAt(b)
    BY <2>3 DEF ItemPlaces
  <2>5. [ItemBuffers[1] EXCEPT !.at = n] = ItemBuffers[1]
    <3>1. PICK f, m : ItemBuffers[1] = [file |-> f, at |-> m]
      BY <2>4 DEF ItemAt
    <3>2. QED
      BY <2>1, <3>1
  <2>6. [ItemBuffers EXCEPT ![1] = ItemBuffers[1]] = ItemBuffers
    BY <2>2
  <2>7. QED
    BY <2>1, <2>5, <2>6 DEF GoesTo
<1>8. UNCHANGED I!readVars
  BY <1>5, <1>7, ItemBuffersAre DEF I!readVars
<1>9. QED
  BY <1>6, <1>8 DEF Maps

\* Reading the next item.
LEMMA YieldMaps ==
  ASSUME IncludeInv, ItemsInv, Reading, NEW next, NEW x, YieldsTo(next, x)
  PROVE  /\ I!Reading /\ I!Item = x /\ x \in Range(ItemsOfFiles[Top.file])
         /\ MoveTo(next) \in Seq(Buffers) /\ Len(MoveTo(next)) = Len(buffers)
         /\ Lower(MoveTo(next)) /\ Accounted(MoveTo(next)[1], condition', buffer')
         /\ MapItems(MoveTo(next)) = I!MoveTo(I!Top.at + 1)
<1>0. status = "reading"
  BY DEF Reading
<1>1. /\ IsFile(Rest) /\ Len(Rest) \in Nat /\ Top.at \in 1 .. Len(Rest) + 1
      /\ Rest = Disk[Top.file] /\ Top.file \in DOMAIN Disk /\ I!Rest = Items(Rest)
  BY <1>0, ReadingIs
<1>2. PICK a : Account(Rest, Top.at, condition, buffer, a) /\ I!Top.at = Len(a) + 1 /\ Len(a) \in Nat
  BY <1>0, ReadingIs
<1>3. /\ next \in 1 .. Len(Rest) + 1 /\ Top.at + 1 <= next /\ next \in Nat
      /\ \A b : Remains(Rest, Top.at, condition, buffer, b) => Yields(Rest, next, condition', buffer', b, x)
  BY <1>1 DEF YieldsTo
<1>4. PICK c : c = Join(a, <<x>>)
  OBVIOUS
<1>5. /\ Account(Rest, next, condition', buffer', c) /\ Len(c) = Len(a) + 1
      /\ Len(a) + 1 \in 1 .. Len(Items(Rest)) /\ Items(Rest)[Len(a) + 1] = x
  BY <1>1, <1>2, <1>3, <1>4, AccountYields
<1>6. /\ MoveTo(next) \in Seq(Buffers) /\ Len(MoveTo(next)) = Len(buffers)
      /\ Lower(MoveTo(next)) /\ Accounted(MoveTo(next)[1], condition', buffer')
      /\ MapItems(MoveTo(next)) = GoesTo(ItemBuffers, Len(c) + 1)
  BY <1>0, <1>3, <1>5, MovedIs
<1>7. I!Reading
  BY <1>0, <1>1, <1>2, <1>5 DEF I!Reading
<1>8. I!Item = x
  BY <1>1, <1>2, <1>5 DEF I!Item
<1>9. x \in Range(ItemsOfFiles[Top.file])
  <2>1. ItemsOfFiles[Top.file] = Items(Rest)
    BY <1>1, ItemsOfFilesAre
  <2>2. DOMAIN Items(Rest) = 1 .. Len(Items(Rest))
    <3>1. \E rest : Joined(AnyItems(Rest), a, rest, Items(Rest))
      BY <1>1, <1>2, AccountIs
    <3>2. QED
      BY <3>1 DEF Joined
  <2>3. QED
    BY <1>5, <2>1, <2>2 DEF Range
<1>10. MapItems(MoveTo(next)) = I!MoveTo(I!Top.at + 1)
  <2>1. Len(c) + 1 = I!Top.at + 1
    BY <1>2, <1>5
  <2>2. QED
    BY <1>6, <2>1 DEF I!MoveTo, GoesTo
<1>11. QED
  BY <1>6, <1>7, <1>8, <1>9, <1>10

\* What returns a token reads the text of the next item.
LEMMA TokenMaps ==
  ASSUME IncludeInv, ItemsInv, ParseToken
  PROVE  Maps
<1>1. ReturnsToken /\ Return
  BY DEF ParseToken
<1>2. PICK next, x : Reading /\ TokenTo(next, x)
  BY <1>1, TokenOn
<1>3. YieldsTo(next, x) /\ buffers' = MoveTo(next) /\ x.text = Token /\ ~ IsInclude(x)
  BY <1>2 DEF TokenTo
<1>4. /\ I!Reading /\ I!Item = x
      /\ Lower(buffers') /\ Accounted(buffers'[1], condition', buffer')
      /\ MapItems(buffers') = I!MoveTo(I!Top.at + 1)
  BY <1>2, <1>3, YieldMaps
<1>5. status = "reading" /\ UNCHANGED <<status, input, cwd, cwds, opened>> /\ text' = Append(text, Token)
  BY <1>1, <1>2 DEF Reading, Return
<1>6. ItemsInv'
  BY <1>4, <1>5 DEF ItemsInv, Top
<1>7. ItemBuffers' = I!NextItem
  BY <1>4, ItemBuffersAre DEF I!NextItem
<1>8. I!ReadText
  BY <1>3, <1>4, <1>5, <1>7 DEF I!ReadText, I!IsInclude, IsInclude
<1>9. QED
  BY <1>6, <1>8 DEF Maps, I!Next, I!Progress

\* A file is entered at its first item.
LEMMA EntersAtFirst ==
  ASSUME NEW f \in DOMAIN Disk, NEW buf
  PROVE  /\ Buffer(f) \in Buffers /\ Buffer(f).file = f
         /\ Accounted(Buffer(f), "INITIAL", buf) /\ ItemAt(Buffer(f)) = I!Buffer(f)
<1>1. IsFile(Disk[f]) /\ Buffer(f) \in Buffers /\ Buffer(f).file = f /\ Buffer(f).at = 1
  BY DiskFile, OnDisk DEF Buffer
<1>2. Account(Disk[f], 1, "INITIAL", buf, <<>>)
  BY <1>1, AccountStart
<1>3. PlaceOf(Disk[f], 1) = 1
  BY <1>1, <1>2, PlaceIs
<1>4. ItemAt(Buffer(f)) = [file |-> f, at |-> 1]
  BY <1>1, <1>3, ItemAtIs
<1>5. QED
  BY <1>1, <1>2, <1>4 DEF Accounted, I!Buffer

\* Both speak of the same files and directories.
LEMMA FilesAre ==
  /\ \A dir, path : I!File(dir, path) = File(dir, path) /\ I!Parent(dir, path) = Parent(dir, path)
  /\ \A f : I!Openable(f) <=> Openable(f)
  /\ I!Directories = Directories
BY ItemsOfFilesAre DEF I!File, File, I!Parent, Parent, I!Openable, Openable, I!Directories, Directories

\* An include is one, and what it includes closes what it opens.
LEMMA IncludeMaps ==
  ASSUME IncludesClose, IncludeInv, ItemsInv, ScanInclude
  PROVE  Maps
<1>1. PICK next, x : Reading /\ IncludeTo(next, x)
  BY IncludeItemOn
<1>2. /\ YieldsTo(next, x) /\ condition' = "INITIAL" /\ IsInclude(x) /\ EnterInclude(x.include, next)
  BY <1>1 DEF IncludeTo
<1>3. /\ I!Reading /\ I!Item = x /\ x \in Range(ItemsOfFiles[Top.file])
      /\ MoveTo(next) \in Seq(Buffers) /\ Len(MoveTo(next)) = Len(buffers)
      /\ Lower(MoveTo(next)) /\ Accounted(MoveTo(next)[1], condition', buffer')
      /\ MapItems(MoveTo(next)) = I!MoveTo(I!Top.at + 1)
  BY <1>1, <1>2, YieldMaps
<1>4. status = "reading" /\ Top.file \in DOMAIN Disk /\ cwd \in Directories /\ Len(buffers) >= 1
  BY <1>1, ReadingIs DEF Reading
<1>5. PICK f : f = File(cwd, x.include)
  OBVIOUS
<1>6. /\ f \in DOMAIN Disk /\ Openable(f) /\ buffers' = <<Buffer(f)>> \o MoveTo(next)
      /\ cwds' = <<cwd>> \o cwds /\ cwd' = Parent(cwd, x.include) /\ opened' = opened + 1
      /\ status' = status /\ input' = input /\ text' = text
  BY <1>2, <1>5 DEF EnterInclude, Openable
<1>7. Closes(Disk[f])
  <2>1. x.include \in Includes(Top.file)
    BY <1>2, <1>3 DEF Includes
  <2>2. QED
    BY <1>4, <1>5, <1>6, <2>1 DEF IncludesClose
<1>8. PICK moved : moved = MoveTo(next) /\ moved \in Seq(Buffers) /\ Len(moved) >= 1 /\ Lower(moved)
  BY <1>3, <1>4
<1>9. Accounted(moved[1], "INITIAL", <<>>)
  BY <1>2, <1>3, <1>8, AccountAny DEF Accounted
<1>10. /\ Buffer(f) \in Buffers /\ Buffer(f).file = f /\ Accounted(Buffer(f), "INITIAL", buffer')
       /\ ItemAt(Buffer(f)) = I!Buffer(f)
  BY <1>6, EntersAtFirst
<1>11. Lower(buffers') /\ buffers'[1] = Buffer(f)
  BY <1>6, <1>7, <1>8, <1>9, <1>10, PushKeeps
<1>12. ItemsInv'
  BY <1>2, <1>4, <1>6, <1>10, <1>11 DEF ItemsInv, Top
<1>13. ItemBuffers' = <<I!Buffer(f)>> \o I!MoveTo(I!Top.at + 1)
  <2>1. MapItems(<<Buffer(f)>> \o moved) = <<ItemAt(Buffer(f))>> \o MapItems(moved)
    BY <1>8, <1>10, MapPushes
  <2>2. QED
    BY <1>3, <1>6, <1>8, <1>10, <2>1, ItemBuffersAre
<1>14. I!EnterInclude(x.include, I!Top.at + 1)
  <2>1. I!File(cwd, x.include) = f /\ I!Parent(cwd, x.include) = Parent(cwd, x.include) /\ I!Openable(f)
    BY <1>5, <1>6, FilesAre
  <2>2. QED
    BY <1>6, <1>13, <2>1 DEF I!EnterInclude
<1>15. I!ReadInclude
  BY <1>2, <1>3, <1>14 DEF I!ReadInclude, I!IsInclude, IsInclude
<1>16. QED
  BY <1>12, <1>15 DEF Maps, I!Next, I!Progress

\* Nothing is read any more.
LEMMA EndMaps ==
  ASSUME status' \notin {"start", "reading"}
  PROVE  ItemsInv'
BY DEF ItemsInv

\* A parse that fails reads no more.
LEMMA FailMaps ==
  ASSUME status = "reading", Refuse \/ Die("exited") \/ Die("terminated")
  PROVE  Maps
<1>1. status' \in {"refused", "exited", "terminated"} /\ buffers' = buffers
  BY DEF Refuse, Die
<1>2. ItemsInv'
  BY <1>1, EndMaps
<1>3. ItemBuffers' = ItemBuffers
  BY <1>1, Unmoved DEF SameBuffers
<1>4. I!Refuse \/ I!Die("exited") \/ I!Die("terminated")
  BY <1>3 DEF Refuse, Die, I!Refuse, I!Die
<1>5. QED
  BY <1>2, <1>4 DEF Maps, I!Next, I!ParserFails

\* The end of an included file is one of its items.
LEMMA LeaveMaps ==
  ASSUME IncludeInv, ItemsInv, Leave
  PROVE  Maps
<1>1. /\ status = "reading" /\ Top.at > Len(Rest) /\ cwds # <<>>
      /\ cwd' = Head(cwds) /\ cwds' = Tail(cwds) /\ buffers' = Tail(buffers)
      /\ UNCHANGED <<status, input, opened, text, condition, buffer>>
  BY DEF Leave, EndInclude, EndOfFile
<1>2. /\ buffers \in Seq(Buffers) /\ Len(buffers) >= 1 /\ Lower(buffers) /\ Top = buffers[1]
      /\ IsFile(Rest) /\ Rest = Disk[Top.file] /\ Len(Rest) \in Nat /\ Top.at \in 1 .. Len(Rest) + 1
      /\ I!Rest = Items(Rest) /\ Len(buffers) = Len(cwds) + 1
  BY <1>1, ReadingIs
<1>3. PICK a : Account(Rest, Top.at, condition, buffer, a) /\ I!Top.at = Len(a) + 1 /\ Len(a) \in Nat
  BY <1>1, ReadingIs
<1>4. Top.at = Len(Rest) + 1
  BY <1>1, <1>2
<1>5. Len(Items(Rest)) = Len(a) /\ (Closes(Rest) => condition = "INITIAL")
  BY <1>2, <1>3, <1>4, AccountEnd
<1>6. Len(buffers) >= 2
  <2>1. cwds \in Seq(Directories)
    BY <1>1 DEF IncludeInv, Levels
  <2>2. Len(cwds) >= 1
    BY <1>1, <2>1
  <2>3. QED
    BY <1>2, <2>2
<1>7. Lower(buffers') /\ Accounted(buffers'[1], "INITIAL", <<>>) /\ Closes(Rest)
  BY <1>1, <1>2, <1>6, PopKeeps
<1>8. condition' = "INITIAL"
  BY <1>1, <1>5, <1>7
<1>9. Accounted(buffers'[1], "INITIAL", buffer')
  BY <1>7, AccountAny DEF Accounted
<1>10. ItemsInv'
  BY <1>1, <1>7, <1>8, <1>9 DEF ItemsInv, Top
<1>11. ItemBuffers' = Tail(ItemBuffers)
  BY <1>1, <1>2, MapPops, ItemBuffersAre
<1>12. I!EndOfFile
  BY <1>1, <1>2, <1>3, <1>5 DEF I!EndOfFile
<1>13. I!EndInclude
  BY <1>1, <1>11, <1>12 DEF I!EndInclude
<1>14. QED
  BY <1>10, <1>13 DEF Maps, I!Next, I!Progress

\* The end of the program is too.
LEMMA ParseEndMaps ==
  ASSUME IncludeInv, ItemsInv, ParseEnd
  PROVE  Maps
<1>1. /\ status = "reading" /\ Top.at > Len(Rest) /\ cwds = <<>>
      /\ buffers' = Tail(buffers) /\ status' = "parsed" /\ cwd' = Home /\ opened' = opened - 1
      /\ UNCHANGED <<input, cwds, text>>
  BY DEF ParseEnd, AtEnd, EndInput, EndOfFile
<1>2. /\ buffers \in Seq(Buffers) /\ Len(buffers) >= 1 /\ IsFile(Rest) /\ Len(Rest) \in Nat
      /\ Top.at \in 1 .. Len(Rest) + 1 /\ I!Rest = Items(Rest)
  BY <1>1, ReadingIs
<1>3. PICK a : Account(Rest, Top.at, condition, buffer, a) /\ I!Top.at = Len(a) + 1 /\ Len(a) \in Nat
  BY <1>1, ReadingIs
<1>4. Top.at = Len(Rest) + 1
  BY <1>1, <1>2
<1>5. Len(Items(Rest)) = Len(a)
  BY <1>2, <1>3, <1>4, AccountEnd
<1>6. ItemsInv'
  BY <1>1, EndMaps
<1>7. ItemBuffers' = Tail(ItemBuffers)
  BY <1>1, <1>2, MapPops, ItemBuffersAre
<1>8. I!EndInput
  BY <1>1, <1>2, <1>3, <1>5, <1>7 DEF I!EndInput, I!EndOfFile
<1>9. QED
  BY <1>6, <1>8 DEF Maps, I!Next, I!Progress

\* The input is opened as CS8Include opens it.
LEMMA StartMaps ==
  ASSUME IncludeInv, ItemsInv, NoDirectory \/ OpenInput, UNCHANGED <<condition, buffer>>
  PROVE  Maps
<1>1. status = "start" /\ buffers = <<>> /\ condition = "INITIAL"
  BY DEF NoDirectory, OpenInput, IncludeInv, ItemsInv
<1>2. CASE NoDirectory
  <2>1. ItemsInv' /\ SameBuffers
    BY <1>2, EndMaps, Unmoved DEF NoDirectory
  <2>2. I!NoDirectory
    BY <1>2, <2>1, FilesAre DEF NoDirectory, I!NoDirectory, SameBuffers
  <2>3. QED
    BY <2>1, <2>2 DEF Maps, I!Next, I!Progress
<1>3. CASE OpenInput
  <2>1. PICK f : f = File(Parent(cwd, input), input)
    OBVIOUS
  <2>2. I!File(I!Parent(cwd, input), input) = f /\ (I!Openable(f) <=> Openable(f))
    BY <2>1, FilesAre
  <2>3. CASE Openable(f)
    <3>1. /\ status' = "reading" /\ cwd' = Parent(cwd, input) /\ buffers' = <<Buffer(f)>>
          /\ opened' = opened + 1 /\ UNCHANGED <<input, cwds, text>>
          /\ (input.absolute \/ input.dirs # <<>>) /\ Parent(cwd, input) \in Directories
      BY <1>3, <2>1, <2>3 DEF OpenInput
    <3>2. f \in DOMAIN Disk
      BY <2>3 DEF Openable
    <3>3. /\ Buffer(f) \in Buffers /\ Accounted(Buffer(f), condition', buffer')
          /\ ItemAt(Buffer(f)) = I!Buffer(f)
      BY <1>1, <3>2, EntersAtFirst
    <3>4. Lower(buffers') /\ buffers'[1] = Buffer(f)
      BY <3>1 DEF Lower
    <3>5. ItemsInv'
      BY <3>1, <3>3, <3>4 DEF ItemsInv, Top
    <3>6. ItemBuffers' = <<I!Buffer(f)>>
      <4>1. PICK b \in Buffers : b = Buffer(f)
        BY <3>3
      <4>2. PICK bs \in Seq(Buffers) : bs = <<b>> /\ Len(bs) = 1 /\ bs[1] = b /\ 1 \in 1 .. Len(bs)
        <5>1. <<b>> \in Seq(Buffers) /\ Len(<<b>>) = 1 /\ <<b>>[1] = b
          BY <4>1
        <5>2. 1 \in 1 .. 1
          OBVIOUS
        <5>3. QED
          BY <5>1, <5>2
      <4>3. PICK map : map = MapItems(bs) /\ map \in Seq(ItemPlaces) /\ Len(map) = 1 /\ map[1] = ItemAt(b)
        BY <4>2, MapIs
      <4>4. map = <<ItemAt(b)>>
        BY <4>3
      <4>5. QED
        BY <3>1, <3>3, <4>1, <4>2, <4>3, <4>4, ItemBuffersAre
    <3>7. I!OpenInput
      BY <1>1, <2>2, <2>3, <3>1, <3>6, FilesAre DEF I!OpenInput
    <3>8. QED
      BY <3>5, <3>7 DEF Maps, I!Next, I!Progress
  <2>4. CASE ~ Openable(f)
    <3>1. /\ status' = "refused" /\ UNCHANGED <<cwd, buffers, opened, input, cwds, text>>
          /\ (input.absolute \/ input.dirs # <<>>) /\ Parent(cwd, input) \in Directories
      BY <1>3, <2>1, <2>4 DEF OpenInput
    <3>2. ItemsInv' /\ ItemBuffers' = ItemBuffers
      BY <3>1, EndMaps, Unmoved DEF SameBuffers
    <3>3. I!OpenInput
      BY <1>1, <2>2, <2>4, <3>1, <3>2, FilesAre DEF I!OpenInput
    <3>4. QED
      BY <3>2, <3>3 DEF Maps, I!Next, I!Progress
  <2>5. QED
    BY <2>3, <2>4
<1>4. QED
  BY <1>2, <1>3

\* So every step of the front end is one of CS8Include, or none.
LEMMA FrontMaps ==
  ASSUME IncludesClose, IncludeInv, ItemsInv, [FrontNext]_frontVars
  PROVE  Maps
<1>1. CASE (NoDirectory \/ OpenInput) /\ UNCHANGED <<condition, buffer, parseVars>>
  BY <1>1, StartMaps
<1>2. CASE ScanQuietly
  <2>1. PICK next : QuietTo(next)
    BY <1>2, QuietlyOn
  <2>2. status = "reading" /\ UNCHANGED <<status, input, cwd, cwds, opened, text>>
    BY <1>2 DEF ScanQuietly, EatBlanks, OpenTick, CloseTick, OpenQuote, GrowString, BeginInclude,
                EchoNewline, Sees, Reading, Quiet
  <2>3. QED
    BY <2>1, <2>2, QuietMaps
<1>3. CASE ScanInclude
  BY <1>3, IncludeMaps
<1>4. CASE ScanNoInclude
  BY <1>4, FailMaps DEF ScanNoInclude, Sees, Reading
<1>5. CASE ParseToken
  BY <1>5, TokenMaps
<1>6. CASE FailAtToken
  BY <1>6, FailMaps DEF FailAtToken, ReturnsToken, Sees, Reading, Fail, Dies
<1>7. CASE Leave
  BY <1>7, LeaveMaps
<1>8. CASE ParseEnd
  BY <1>8, ParseEndMaps
<1>9. CASE FailAtEnd
  BY <1>9, FailMaps DEF FailAtEnd, AtEnd, EndOfFile, Dies
<1>10. CASE UNCHANGED frontVars
  <2>1. UNCHANGED <<status, input, cwd, cwds, buffers, opened, text, condition, buffer>>
    BY <1>10 DEF frontVars, scanVars, readVars
  <2>2. ItemsInv'
    BY <2>1 DEF ItemsInv, Top
  <2>3. UNCHANGED I!readVars
    BY <2>1, Unmoved DEF SameBuffers, I!readVars
  <2>4. QED
    BY <2>2, <2>3 DEF Maps
<1>11. QED
  BY <1>1, <1>2, <1>3, <1>4, <1>5, <1>6, <1>7, <1>8, <1>9, <1>10 DEF FrontNext

\* If what is included closes what it opens, the scanner and the parser read
\* the items of CS8Include, one after the other and each file from where it is
\* included, whatever the texts are.
THEOREM ReadsItems == IncludesClose => (FrontSpec => ImplementsInclude)
<1> SUFFICES ASSUME IncludesClose PROVE FrontSpec => ImplementsInclude
  OBVIOUS
<1>1. FrontInit => ItemsInv /\ I!Init
  <2> SUFFICES ASSUME FrontInit PROVE ItemsInv /\ I!Init
    OBVIOUS
  <2>1. Init /\ condition = "INITIAL"
    BY DEF FrontInit, ScanInit
  <2>2. ItemBuffers = <<>>
    <3>1. buffers = <<>> /\ <<>> \in Seq(Buffers) /\ Len(<<>>) = 0
      BY <2>1 DEF Init
    <3>2. MapItems(<<>>) \in Seq(ItemPlaces) /\ Len(MapItems(<<>>)) = 0
      BY <3>1, MapIs
    <3>3. QED
      BY <3>1, <3>2, ItemBuffersAre
  <2>3. QED
    BY <2>1, <2>2 DEF Init, I!Init, ItemsInv
<1>2. IncludeInv /\ ItemsInv /\ [FrontNext]_frontVars => ItemsInv' /\ [I!Next]_(I!readVars)
  BY FrontMaps DEF Maps
<1>3. QED
  BY <1>1, <1>2, FrontIncludeInvariance, PTL DEF FrontSpec, ImplementsInclude, I!Spec
=============================================================================
