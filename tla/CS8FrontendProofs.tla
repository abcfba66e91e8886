------------------------- MODULE CS8FrontendProofs -------------------------
(***************************************************************************)
(* The front end, for every disk, every text, every nesting of includes    *)
(* and every limit of open files.  First the reader of CS8Include: where   *)
(* the next include is looked up depends on the innermost file and the     *)
(* working directory alone; but what these are after the end of an include *)
(* depends on the stacks below, so that FromOwnDirectory is inductive only *)
(* together with StacksMatch.                                              *)
(*                                                                         *)
(* What the parser gets is Spliced, although the scanner splices nothing:  *)
(* the account (GotIt) is that what has been read, followed by whatever    *)
(* the unread rest of all files on the stack comes to, is what the first   *)
(* file comes to; and that this takes no more replacements than files have *)
(* been opened, so that MaxOpen of them are enough.                        *)
(*                                                                         *)
(* Then the scanner and the parser: each step of the two is, for the       *)
(* stacks, a step of such a reader, so that its invariant carries over;    *)
(* and what is parsed has the types that the assembler takes it for.       *)
(***************************************************************************)
EXTENDS CS8Frontend, CS8Lists, TLAPS

\* The places in the files.
Buffers == {b \in [file : DOMAIN Disk, at : Nat] : b.at \in 1 .. Len(Disk[b.file]) + 1}

\* While files are read, there is always one.
Levels ==
  /\ buffers \in Seq(Buffers) /\ Len(buffers) = Len(cwds) + 1
  /\ cwds \in Seq(Directories) /\ cwd \in Directories
  /\ opened \in 1 .. MaxOpen

\* What the stacks have to do with each other, for an absolute path.
Own ==
  /\ cwd = buffers[1].file.dir
  /\ \A i \in 1 .. Len(cwds) : cwds[i] = buffers[i + 1].file.dir

\* The inductive invariant.
IncludeInv ==
  /\ TypeOK
  /\ status = "start" => cwds = <<>> /\ buffers = <<>> /\ cwd = Home /\ opened = 0
  /\ status = "reading" => Levels /\ (input.absolute => Own)
  /\ DirectoryRestored

\* The directory of the file that a path names.
LEMMA FileDirectory ==
  ASSUME NEW dir, NEW path
  PROVE  File(dir, path).dir = Parent(dir, path)
BY DEF File

\* A file on the disk is in a directory and can be a buffer.
LEMMA OnDisk ==
  ASSUME NEW f \in DOMAIN Disk
  PROVE  f.dir \in Directories /\ Buffer(f) \in Buffers /\ Buffer(f).file = f
<1>1. /\ f.dir \in Seq(Range(f.dir)) /\ Len(Disk[f]) \in Nat
  BY IncludeAssumption
<1>2. Len(f.dir) \in 0 .. Len(f.dir) /\ SubSeq(f.dir, 1, Len(f.dir)) = f.dir
  BY <1>1
<1>3. f.dir \in {SubSeq(f.dir, 1, n) : n \in 0 .. Len(f.dir)}
  BY <1>2
<1>4. f.dir \in Directories
  BY <1>3 DEF Directories
<1>5. QED
  BY <1>1, <1>4 DEF Buffer, Buffers

\* The invariant holds at the start.
LEMMA IncludeInit == Init => IncludeInv
BY IncludeAssumption DEF Init, IncludeInv, TypeOK, DirectoryRestored

\* What the stacks are made of.
LEMMA LevelsType ==
  ASSUME Levels
  PROVE  /\ \A i \in DOMAIN cwds : cwds[i] \in Directories
         /\ \A i \in DOMAIN buffers : /\ buffers[i].file \in DOMAIN Disk
                                      /\ buffers[i].at \in 1 .. Len(Disk[buffers[i].file]) + 1
         /\ opened \in 0 .. MaxOpen /\ opened - 1 \in 0 .. MaxOpen
<1>1. buffers \in Seq(Buffers) /\ cwds \in Seq(Directories) /\ opened \in 1 .. MaxOpen
  BY DEF Levels
<1>2. \A i \in DOMAIN buffers : buffers[i] \in Buffers
  BY <1>1
<1>3. QED
  BY <1>1, <1>2, IncludeAssumption DEF Buffers

\* While files are read, the stacks are all there is to show.
LEMMA LevelsSuffice ==
  ASSUME input' \in Inputs, status' = "reading", Levels', input'.absolute => Own'
  PROVE  IncludeInv'
<1>1. TypeOK'
  <2>1. buffers' \in Seq(Buffers) /\ cwds' \in Seq(Directories) /\ opened' \in 1 .. MaxOpen
    BY DEF Levels
  <2>2. /\ \A i \in DOMAIN buffers' : buffers'[i] \in Buffers
        /\ \A i \in DOMAIN cwds' : cwds'[i] \in Directories
    BY <2>1
  <2>3. QED
    BY <2>1, <2>2, IncludeAssumption DEF TypeOK, Buffers
<1>2. QED
  BY <1>1 DEF IncludeInv, DirectoryRestored

\* Going on in a file changes neither the stack nor the files on it.
LEMMA MoveType ==
  ASSUME Levels, NEW p \in 1 .. Len(Rest) + 1
  PROVE  /\ MoveTo(p) \in Seq(Buffers) /\ Len(MoveTo(p)) = Len(buffers)
         /\ \A i \in 1 .. Len(buffers) : MoveTo(p)[i].file = buffers[i].file
<1>1. 1 \in DOMAIN buffers /\ Top \in Buffers /\ buffers \in Seq(Buffers)
  BY DEF Levels, Top
<1> DEFINE next == [Top EXCEPT !.at = p]
<1>2. Len(Rest) \in Nat
  BY <1>1, IncludeAssumption DEF Rest, Buffers
<1>3. next \in Buffers /\ next.file = buffers[1].file
  BY <1>1, <1>2 DEF Buffers, Top, Rest
<1>4. MoveTo(p) = [buffers EXCEPT ![1] = next]
  BY DEF MoveTo, Top
<1> HIDE DEF next
<1>5. QED
  BY <1>1, <1>3, <1>4

\* What is below the top of a stack is one further down.
LEMMA Pushed ==
  ASSUME NEW S, NEW e \in S, NEW s \in Seq(S)
  PROVE  /\ <<e>> \o s \in Seq(S) /\ Len(<<e>> \o s) = Len(s) + 1 /\ (<<e>> \o s)[1] = e
         /\ \A i \in 1 .. Len(s) : (<<e>> \o s)[i + 1] = s[i]
OBVIOUS

\* Pushing a file and the directory to return to keeps the levels apart.
LEMMA PushLevels ==
  ASSUME Levels, NEW f \in DOMAIN Disk, NEW p \in 1 .. Len(Rest) + 1, opened < MaxOpen,
         buffers' = <<Buffer(f)>> \o MoveTo(p), cwds' = <<cwd>> \o cwds, cwd' = f.dir,
         opened' = opened + 1
  PROVE  Levels' /\ (Own => Own')
<1>0. PICK moved : moved = MoveTo(p)
  OBVIOUS
<1>1. /\ moved \in Seq(Buffers) /\ Len(moved) = Len(buffers)
      /\ \A i \in 1 .. Len(buffers) : moved[i].file = buffers[i].file
      /\ buffers' = <<Buffer(f)>> \o moved
  BY <1>0, MoveType
<1>2. /\ buffers \in Seq(Buffers) /\ cwds \in Seq(Directories) /\ Len(buffers) = Len(cwds) + 1
      /\ cwd \in Directories /\ opened \in 1 .. MaxOpen
  BY DEF Levels
<1>3. /\ buffers' \in Seq(Buffers) /\ Len(buffers') = Len(buffers) + 1 /\ buffers'[1].file = f
      /\ \A i \in 1 .. Len(buffers) : buffers'[i + 1] = moved[i]
  <2>1. Buffer(f) \in Buffers /\ Buffer(f).file = f
    BY OnDisk
  <2>2. /\ <<Buffer(f)>> \o moved \in Seq(Buffers) /\ Len(<<Buffer(f)>> \o moved) = Len(moved) + 1
        /\ (<<Buffer(f)>> \o moved)[1] = Buffer(f)
        /\ \A i \in 1 .. Len(moved) : (<<Buffer(f)>> \o moved)[i + 1] = moved[i]
    BY <1>1, <2>1, Pushed
  <2>3. QED
    BY <1>1, <2>1, <2>2
<1>4. /\ cwds' \in Seq(Directories) /\ Len(cwds') = Len(cwds) + 1 /\ cwds'[1] = cwd
      /\ \A i \in 1 .. Len(cwds) : cwds'[i + 1] = cwds[i]
  BY <1>2
<1>5. Levels'
  BY <1>2, <1>3, <1>4, OnDisk, IncludeAssumption DEF Levels
<1>6. ASSUME Own, NEW i \in 1 .. Len(cwds') PROVE cwds'[i] = buffers'[i + 1].file.dir
  <2>1. CASE i = 1
    BY <1>6, <2>1, <1>1, <1>2, <1>3, <1>4 DEF Own
  <2>2. CASE i # 1
    <3>1. i - 1 \in 1 .. Len(cwds) /\ i \in 1 .. Len(buffers) /\ (i - 1) + 1 = i
      BY <2>2, <1>2, <1>4
    <3>2. cwds[i - 1] = buffers[i].file.dir
      BY <1>6, <3>1 DEF Own
    <3>3. cwds'[i] = cwds[i - 1]
      BY <3>1, <1>4
    <3>4. buffers'[i + 1].file = buffers[i].file
      BY <3>1, <1>1, <1>3
    <3>5. QED
      BY <3>2, <3>3, <3>4
  <2>3. QED
    BY <2>1, <2>2
<1>7. QED
  BY <1>3, <1>5, <1>6 DEF Own

\* So does taking them off again.
LEMMA PopLevels ==
  ASSUME Levels, cwds # <<>>,
         buffers' = Tail(buffers), cwds' = Tail(cwds), cwd' = Head(cwds), opened' = opened
  PROVE  Levels' /\ (Own => Own')
<1>1. /\ buffers \in Seq(Buffers) /\ cwds \in Seq(Directories) /\ Len(buffers) = Len(cwds) + 1
      /\ Len(cwds) >= 1
  BY DEF Levels
<1>2. /\ buffers' \in Seq(Buffers) /\ Len(buffers') = Len(buffers) - 1
      /\ \A i \in 1 .. Len(buffers) - 1 : buffers'[i] = buffers[i + 1]
  BY <1>1
<1>3. /\ cwds' \in Seq(Directories) /\ Len(cwds') = Len(cwds) - 1
      /\ \A i \in 1 .. Len(cwds) - 1 : cwds'[i] = cwds[i + 1]
      /\ cwd' = cwds[1] /\ cwd' \in Directories
  BY <1>1
<1>4. Levels'
  BY <1>1, <1>2, <1>3 DEF Levels
<1>5. ASSUME Own PROVE Own'
  <2>1. \A i \in 1 .. Len(cwds) : cwds[i] = buffers[i + 1].file.dir
    BY <1>5 DEF Own
  <2>2. cwd' = buffers'[1].file.dir
    BY <2>1, <1>1, <1>2, <1>3
  <2>3. ASSUME NEW i \in 1 .. Len(cwds') PROVE cwds'[i] = buffers'[i + 1].file.dir
    <3>1. /\ i \in 1 .. Len(cwds) - 1 /\ i + 1 \in 1 .. Len(cwds)
          /\ i + 1 \in 1 .. Len(buffers) - 1
      BY <1>1, <1>3
    <3>2. QED
      BY <3>1, <2>1, <1>1, <1>2, <1>3
  <2>4. QED
    BY <2>2, <2>3 DEF Own
<1>6. QED
  BY <1>4, <1>5

\* The steps of a reader that includes files, whatever it does with the text
\* and wherever in its file it goes on.
InFile(p) == p \in 1 .. Len(Rest) + 1

ScanTo(p) ==
  /\ status = "reading" /\ InFile(p)
  /\ buffers' = MoveTo(p)
  /\ UNCHANGED <<status, input, cwd, cwds, opened>>

EnterFrom(path, p) == status = "reading" /\ InFile(p) /\ EnterInclude(path, p)

ReadStep ==
  \/ NoDirectory \/ OpenInput
  \/ \E p : ScanTo(p)
  \/ \E path, p : EnterFrom(path, p)
  \/ EndInclude \/ EndInput \/ ParserFails

\* The parser goes on without the scanner.
ReadUnchanged == UNCHANGED <<status, input, cwd, cwds, buffers, opened>>

\* Every step of a reader keeps the invariant.
LEMMA ReadStepKeeps ==
  ASSUME IncludeInv, ReadStep \/ ReadUnchanged
  PROVE  IncludeInv'
<1>0. /\ input \in Inputs
      /\ status = "reading" => Levels /\ (input.absolute => Own)
      /\ status = "start" => cwds = <<>> /\ buffers = <<>> /\ cwd = Home /\ opened = 0
  BY DEF IncludeInv, TypeOK
<1>1. CASE NoDirectory
  BY <1>1, <1>0, IncludeAssumption
  DEF NoDirectory, IncludeInv, TypeOK, DirectoryRestored, Ends
<1>2. CASE OpenInput
  <2>1. /\ status = "start" /\ cwds = <<>> /\ cwds' = <<>> /\ cwd = Home /\ input' = input
        /\ buffers = <<>> /\ opened = 0
    BY <1>2, <1>0 DEF OpenInput
  <2> DEFINE f == File(Parent(cwd, input), input)
  <2>2. CASE ~ Openable(f)
    BY <1>2, <1>0, <2>1, <2>2, IncludeAssumption
    DEF OpenInput, IncludeInv, TypeOK, DirectoryRestored, Ends
  <2>3. CASE Openable(f)
    <3>1. /\ f \in DOMAIN Disk /\ status' = "reading" /\ opened' = 1 /\ opened' <= MaxOpen
          /\ cwd' = Parent(cwd, input) /\ cwd' \in Directories /\ buffers' = <<Buffer(f)>>
      BY <1>2, <2>1, <2>3, IncludeAssumption DEF OpenInput, Openable
    <3>2. input'.absolute => f.dir = cwd'
      BY <2>1, <3>1, FileDirectory DEF Parent
    <3>3. Buffer(f) \in Buffers /\ Buffer(f).file = f
      BY <3>1, OnDisk
    <3> HIDE DEF f
    <3>4. Levels' /\ (input'.absolute => Own')
      BY <2>1, <3>1, <3>2, <3>3, IncludeAssumption DEF Levels, Own
    <3>5. QED
      BY <1>0, <2>1, <3>1, <3>4, LevelsSuffice
  <2>4. QED
    BY <2>2, <2>3
<1>3. ASSUME NEW p, ScanTo(p) PROVE IncludeInv'
  <2>1. /\ buffers' = MoveTo(p) /\ status = "reading" /\ status' = "reading"
        /\ p \in 1 .. Len(Rest) + 1 /\ UNCHANGED <<input, cwd, cwds, opened>>
    BY <1>3 DEF ScanTo, InFile
  <2>2. Levels /\ (input.absolute => Own)
    BY <1>0, <2>1
  <2> DEFINE moved == MoveTo(p)
  <2>3. /\ moved \in Seq(Buffers) /\ Len(moved) = Len(buffers) /\ buffers' = moved
        /\ \A i \in 1 .. Len(buffers) : moved[i].file = buffers[i].file
    BY <2>1, <2>2, MoveType
  <2> HIDE DEF moved
  <2>4. Levels'
    BY <2>1, <2>2, <2>3 DEF Levels
  <2>5. ASSUME Own PROVE Own'
    <3>1. Len(buffers) = Len(cwds) + 1 /\ Len(cwds) \in Nat
      BY <2>2 DEF Levels
    <3>2. \A i \in 1 .. Len(cwds) + 1 : buffers'[i].file = buffers[i].file
      BY <2>3, <3>1
    <3>3. 1 \in 1 .. Len(cwds) + 1 /\ \A i \in 1 .. Len(cwds) : i + 1 \in 1 .. Len(cwds) + 1
      BY <3>1
    <3>4. QED
      BY <2>1, <2>5, <3>2, <3>3 DEF Own
  <2>6. QED
    BY <1>0, <2>1, <2>2, <2>4, <2>5, LevelsSuffice
<1>4. ASSUME NEW path, NEW p, EnterFrom(path, p) PROVE IncludeInv'
  <2> DEFINE f == File(cwd, path)
  <2>1. /\ f \in DOMAIN Disk /\ status = "reading" /\ status' = "reading" /\ input' = input
        /\ p \in 1 .. Len(Rest) + 1 /\ opened < MaxOpen /\ opened' = opened + 1
        /\ buffers' = <<Buffer(f)>> \o MoveTo(p) /\ cwds' = <<cwd>> \o cwds
    BY <1>4 DEF EnterFrom, EnterInclude, Openable, InFile
  <2>2. cwd' = f.dir
    BY <1>4, FileDirectory DEF EnterFrom, EnterInclude
  <2> HIDE DEF f
  <2>3. Levels /\ (input.absolute => Own)
    BY <1>0, <2>1
  <2>4. Levels' /\ (Own => Own')
    BY <2>1, <2>2, <2>3, PushLevels
  <2>5. QED
    BY <1>0, <2>1, <2>3, <2>4, LevelsSuffice
<1>5. CASE ParserFails
  <2>1. Levels
    BY <1>5, <1>0 DEF ParserFails
  <2>2. QED
    BY <1>5, <1>0, <2>1, LevelsType
    DEF ParserFails, Refuse, Die, IncludeInv, TypeOK, Ends, DirectoryRestored
<1>6. CASE EndInclude
  <2>1. /\ cwds # <<>> /\ status = "reading" /\ status' = "reading" /\ input' = input
        /\ cwd' = Head(cwds) /\ cwds' = Tail(cwds) /\ buffers' = Tail(buffers) /\ opened' = opened
    BY <1>6 DEF EndInclude, EndOfFile
  <2>2. Levels /\ (input.absolute => Own)
    BY <1>0, <2>1
  <2>3. Levels' /\ (Own => Own')
    BY <2>1, <2>2, PopLevels
  <2>4. QED
    BY <1>0, <2>1, <2>2, <2>3, LevelsSuffice
<1>7. CASE EndInput
  <2>1. /\ status = "reading" /\ cwds = <<>> /\ buffers' = Tail(buffers) /\ status' = "parsed"
        /\ cwd' = Home /\ opened' = opened - 1 /\ UNCHANGED <<input, cwds>>
    BY <1>7 DEF EndInput, EndOfFile
  <2>2. Levels
    BY <1>0, <2>1
  <2>3. buffers' = <<>>
    BY <2>1, <2>2 DEF Levels
  <2>4. QED
    BY <1>0, <2>1, <2>2, <2>3, LevelsType DEF IncludeInv, TypeOK, Ends, DirectoryRestored
<1>8. CASE ReadUnchanged
  <2>1. UNCHANGED <<status, input, cwd, cwds, buffers, opened>>
    BY <1>8 DEF ReadUnchanged
  <2>2. QED
    BY <2>1, <1>0 DEF IncludeInv, TypeOK, Levels, Own, DirectoryRestored
<1>9. QED
  BY <1>1, <1>2, <1>3, <1>4, <1>5, <1>6, <1>7, <1>8 DEF ReadStep

\* The place behind what is there is in the file.
LEMMA NextInFile ==
  ASSUME IncludeInv, Reading
  PROVE  /\ Top \in Buffers /\ Top.file \in DOMAIN Disk /\ Top.at \in Nat /\ Len(Rest) \in Nat
         /\ InFile(Top.at + 1)
<1>1. Levels /\ Top.at <= Len(Rest)
  BY DEF IncludeInv, Reading
<1>2. Top \in Buffers
  BY <1>1 DEF Levels, Top
<1>3. Top.file \in DOMAIN Disk /\ Top.at \in 1 .. Len(Rest) + 1
  BY <1>2 DEF Buffers, Rest
<1>4. Len(Rest) \in Nat
  BY <1>3, IncludeAssumption DEF Rest
<1>5. QED
  BY <1>1, <1>2, <1>3, <1>4 DEF InFile

\* The steps of this module are steps of a reader.
LEMMA IncludeStep == IncludeInv /\ [Next]_readVars => IncludeInv'
<1> SUFFICES ASSUME IncludeInv, [Next]_readVars PROVE IncludeInv'
  OBVIOUS
<1>1. CASE ReadText
  <2>1. ScanTo(Top.at + 1)
    BY <1>1, NextInFile DEF ReadText, Reading, NextItem, ScanTo
  <2>2. QED
    BY <2>1, ReadStepKeeps DEF ReadStep
<1>2. CASE ReadInclude
  <2>1. EnterFrom(Item.include, Top.at + 1)
    BY <1>2, NextInFile DEF ReadInclude, Reading, EnterFrom
  <2>2. QED
    BY <2>1, ReadStepKeeps DEF ReadStep
<1>3. CASE NoInclude
  BY <1>3, ReadStepKeeps DEF NoInclude, Reading, ParserFails, ReadStep
<1>4. CASE NoDirectory \/ OpenInput \/ EndInclude \/ EndInput \/ ParserFails
  BY <1>4, ReadStepKeeps DEF ReadStep
<1>5. CASE UNCHANGED readVars
  BY <1>5, ReadStepKeeps DEF readVars, ReadUnchanged
<1>6. QED
  BY <1>1, <1>2, <1>3, <1>4, <1>5 DEF Next, Progress

\* What the invariant is for.
LEMMA IncludeInvSuffices ==
  ASSUME IncludeInv
  PROVE  TypeOK /\ StacksMatch /\ FromOwnDirectory /\ DirectoryRestored
<1>1. ASSUME status = "reading", input.absolute
      PROVE  /\ Len(buffers) = Len(cwds) + 1 /\ cwd = Top.file.dir
             /\ \A i \in DOMAIN cwds : cwds[i] = buffers[i + 1].file.dir
  <2>1. Levels /\ Own
    BY <1>1 DEF IncludeInv
  <2>2. DOMAIN cwds = 1 .. Len(cwds)
    BY <2>1 DEF Levels
  <2>3. QED
    BY <2>1, <2>2 DEF Levels, Own, Top
<1>2. QED
  BY <1>1 DEF IncludeInv, StacksMatch, FromOwnDirectory

\* The strengthened invariant holds throughout.
THEOREM IncludeInvariance == Spec => []IncludeInv
BY IncludeInit, IncludeStep, PTL DEF Spec

\* The directories on cwds exist, the files on the stack are there and the
\* scanner is within them, and no more files are open than there may be.
THEOREM IncludeTypeCorrect == Spec => []TypeOK
BY IncludeInvSuffices, IncludeInvariance, PTL

\* At every level of includes, cwds holds the directory of the file to which
\* the scanner returns.
THEOREM StacksCorrect == Spec => []StacksMatch
BY IncludeInvSuffices, IncludeInvariance, PTL

\* An include is looked up from the directory of the file it is written in,
\* however deep the includes and whatever came before it.
THEOREM LookupCorrect == Spec => []FromOwnDirectory
BY IncludeInvSuffices, IncludeInvariance, PTL

\* The caller of invoke_parse() has its working directory back, whether the
\* program was read or refused.
THEOREM CallerDirectory == Spec => []DirectoryRestored
BY IncludeInvSuffices, IncludeInvariance, PTL

-----------------------------------------------------------------------------
\* All items of all files, with the directory of their file.
Placings == UNION {Range(Placed(f)) : f \in DOMAIN Disk}
Lists  == Seq(Placings)

\* What an item stands for, one level deep.
Meaning(x) == IF IsInclude(x.item) THEN Placed(File(x.dir, x.item.include)) ELSE <<x>>

\* The file that an item includes is there.
Found(x) == IsInclude(x.item) => File(x.dir, x.item.include) \in DOMAIN Disk

\* All of them are.
AllFound(list) == \A i \in 1 .. Len(list) : Found(list[i])

\* No item includes anything.
Leaf(list) == \A i \in 1 .. Len(list) : ~ IsInclude(list[i].item)

\* A file is a list.
LEMMA PlacedType ==
  ASSUME NEW f \in DOMAIN Disk
  PROVE  /\ Placed(f) \in Lists /\ Len(Placed(f)) = Len(Disk[f])
         /\ \A i \in 1 .. Len(Disk[f]) : Placed(f)[i] = [dir |-> f.dir, item |-> Disk[f][i]]
<1>1. PICK n \in Nat : n = Len(Disk[f]) /\ DOMAIN Disk[f] = 1 .. n
  BY IncludeAssumption
<1>2. PICK p : p = Placed(f)
  OBVIOUS
<1>3. DOMAIN p = 1 .. n /\ \A i \in 1 .. n : p[i] = [dir |-> f.dir, item |-> Disk[f][i]]
  BY <1>1, <1>2 DEF Placed
<1>4. \A i \in 1 .. n : p[i] \in Range(Placed(f))
  BY <1>2, <1>3 DEF Range
<1>5. Range(Placed(f)) \subseteq Placings
  BY DEF Placings
<1>6. p = [i \in 1 .. n |-> p[i]]
  BY <1>1, <1>2 DEF Placed
<1>7. p \in [1 .. n -> Placings]
  BY <1>4, <1>5, <1>6
<1>8. p \in Seq(Placings) /\ Len(p) = n
  BY <1>7
<1>9. QED
  BY <1>1, <1>2, <1>3, <1>8 DEF Lists

\* What an item stands for is a list.
LEMMA MeaningType ==
  ASSUME NEW x \in Placings, Found(x)
  PROVE  Meaning(x) \in Lists
<1>1. CASE IsInclude(x.item)
  BY <1>1, PlacedType DEF Found, Meaning
<1>2. CASE ~ IsInclude(x.item)
  BY <1>2 DEF Meaning, Lists
<1>3. QED
  BY <1>1, <1>2

\* What the items of a list stand for.
Meanings(list) == [i \in 1 .. Len(list) |-> Meaning(list[i])]

\* If all files are there, the items stand for lists.
LEMMA MeaningsType ==
  ASSUME NEW list \in Lists, AllFound(list)
  PROVE  /\ Meanings(list) \in [1 .. Len(list) -> Lists] /\ Len(list) \in Nat
         /\ \A i \in 1 .. Len(list) : Meanings(list)[i] = Meaning(list[i])
<1>1. ASSUME NEW i \in 1 .. Len(list) PROVE Meaning(list[i]) \in Lists
  <2>1. list[i] \in Placings
    BY DEF Lists
  <2>2. Found(list[i])
    BY DEF AllFound
  <2>3. QED
    BY <2>1, <2>2, MeaningType
<1>2. Len(list) \in Nat
  BY DEF Lists
<1>3. QED
  BY <1>1, <1>2 DEF Meanings

\* Splicing flattens what the items stand for.
LEMMA SpliceFlattens ==
  ASSUME NEW list \in Lists
  PROVE  Splice(list) = FlattenSeq(Meanings(list))
<1>1. DOMAIN list = 1 .. Len(list)
  BY DEF Lists
<1>2. [i \in DOMAIN list |->
         IF IsInclude(list[i].item) THEN Placed(File(list[i].dir, list[i].item.include))
         ELSE <<list[i]>>] = Meanings(list)
  BY <1>1 DEF Meanings, Meaning
<1>3. QED
  BY <1>2, Zenon DEF Splice

\* Splicing gives a list.
LEMMA SpliceType ==
  ASSUME NEW list \in Lists, AllFound(list)
  PROVE  Splice(list) \in Lists
<1>0. PICK n \in Nat : n = Len(list)
  BY DEF Lists
<1>1. PICK seqs \in [1 .. n -> Seq(Placings)] : seqs = Meanings(list)
  BY <1>0, MeaningsType DEF Lists
<1>2. FlattenSeq(seqs) \in Seq(Placings)
  BY FlattenType
<1>3. QED
  BY <1>1, <1>2, SpliceFlattens DEF Lists

\* Nothing is left to splice.
LEMMA SpliceLeaf ==
  ASSUME NEW list \in Lists, Leaf(list)
  PROVE  AllFound(list) /\ Splice(list) = list
<1>1. AllFound(list)
  BY DEF Leaf, AllFound, Found
<1>0. PICK n \in Nat : n = Len(list)
  BY DEF Lists
<1>2. PICK seqs \in [1 .. n -> Seq(Placings)] : seqs = Meanings(list)
  BY <1>0, <1>1, MeaningsType DEF Lists
<1>3. \A i \in 1 .. n : seqs[i] = <<list[i]>>
  BY <1>0, <1>1, <1>2, MeaningsType DEF Meaning, Leaf
<1>4. FlattenSeq(seqs) = list
  <2>1. list \in Seq(Placings)
    BY DEF Lists
  <2>2. QED
    BY <1>0, <1>2, <1>3, <2>1, FlattenSingles
<1>5. QED
  BY <1>1, <1>2, <1>4, SpliceFlattens

\* Two lists are spliced one after the other.
LEMMA SpliceJoin ==
  ASSUME NEW a \in Lists, NEW b \in Lists
  PROVE  /\ Join(a, b) \in Lists
         /\ AllFound(Join(a, b)) <=> AllFound(a) /\ AllFound(b)
         /\ AllFound(Join(a, b)) => Splice(Join(a, b)) = Join(Splice(a), Splice(b))
<1>1. PICK c : c = Join(a, b)
  OBVIOUS
<1>2. Joined(Placings, a, b, c)
  BY <1>1, JoinIsJoined DEF Lists
<1>3. PICK n, m, k \in Nat : n = Len(a) /\ m = Len(b) /\ k = Len(c) /\ k = n + m
  BY <1>2 DEF Lists, Joined
<1>4. c \in Lists
  BY <1>2 DEF Joined, Lists
<1>5. /\ \A i \in 1 .. n : i \in 1 .. k /\ c[i] = a[i]
      /\ \A j \in 1 .. m : n + j \in 1 .. k /\ c[n + j] = b[j]
  <2>1. \A i \in 1 .. k : c[i] = IF i <= n THEN a[i] ELSE b[i - n]
    BY <1>2, <1>3 DEF Joined
  <2>2. \A j \in 1 .. m : n + j \in 1 .. k /\ ~ (n + j <= n) /\ (n + j) - n = j
    BY <1>3
  <2>3. \A i \in 1 .. n : i \in 1 .. k /\ i <= n
    BY <1>3
  <2>4. QED
    BY <2>1, <2>2, <2>3
<1>6. \A i \in 1 .. k : i \in 1 .. n \/ \E j \in 1 .. m : i = n + j
  <2>1. ASSUME NEW i \in 1 .. k, i \notin 1 .. n PROVE \E j \in 1 .. m : i = n + j
    <3>1. i - n \in 1 .. m /\ i = n + (i - n)
      BY <1>3, <2>1
    <3>2. QED
      BY <3>1
  <2>2. QED
    BY <2>1
<1>7. AllFound(c) <=> AllFound(a) /\ AllFound(b)
  <2>1. ASSUME AllFound(c) PROVE AllFound(a) /\ AllFound(b)
    <3>1. \A i \in 1 .. k : Found(c[i])
      BY <1>3, <2>1 DEF AllFound
    <3>2. (\A i \in 1 .. n : Found(a[i])) /\ (\A j \in 1 .. m : Found(b[j]))
      BY <1>5, <3>1, Zenon
    <3>3. QED
      BY <1>3, <3>2 DEF AllFound
  <2>2. ASSUME AllFound(a), AllFound(b), NEW i \in 1 .. k PROVE Found(c[i])
    <3>1. CASE i \in 1 .. n
      BY <1>3, <1>5, <2>2, <3>1 DEF AllFound
    <3>2. CASE i \notin 1 .. n
      <4>1. PICK j \in 1 .. m : i = n + j
        BY <1>6, <3>2
      <4>2. c[i] = b[j]
        BY <1>5, <4>1, Zenon
      <4>3. QED
        BY <1>3, <2>2, <4>2 DEF AllFound
    <3>3. QED
      BY <3>1, <3>2
  <2>3. AllFound(a) /\ AllFound(b) => AllFound(c)
    BY <1>3, <2>2 DEF AllFound
  <2>4. QED
    BY <2>1, <2>3
<1>8. ASSUME AllFound(c) PROVE Splice(c) = Join(Splice(a), Splice(b))
  <2>1. AllFound(a) /\ AllFound(b)
    BY <1>7, <1>8
  <2>2. PICK s, t, u : s = Meanings(a) /\ t = Meanings(b) /\ u = Meanings(c)
    OBVIOUS
  <2>3. s \in [1 .. n -> Seq(Placings)] /\ \A i \in 1 .. n : s[i] = Meaning(a[i])
    BY <1>3, <2>1, <2>2, MeaningsType DEF Lists
  <2>4. t \in [1 .. m -> Seq(Placings)] /\ \A i \in 1 .. m : t[i] = Meaning(b[i])
    BY <1>3, <2>1, <2>2, MeaningsType DEF Lists
  <2>5. u \in [1 .. k -> Seq(Placings)] /\ \A i \in 1 .. k : u[i] = Meaning(c[i])
    BY <1>3, <1>4, <1>8, <2>2, MeaningsType DEF Lists
  <2>6. Continues(Placings, u, s, t, n, m, k)
    BY <1>3, <1>5, <2>3, <2>4, <2>5 DEF Continues
  <2>7. FlattenSeq(u) = Join(FlattenSeq(s), FlattenSeq(t))
    BY <2>6, FlattenJoin
  <2>8. QED
    BY <1>4, <2>2, <2>7, SpliceFlattens
<1>9. QED
  BY <1>1, <1>4, <1>7, <1>8

\* An include is spliced into its file.
LEMMA SpliceInclude ==
  ASSUME NEW x \in Placings, IsInclude(x.item), Found(x), NEW one, one = <<x>>
  PROVE  one \in Lists /\ AllFound(one) /\ Splice(one) = Placed(File(x.dir, x.item.include))
<1>1. one \in Lists /\ Len(one) = 1 /\ one[1] = x
  BY DEF Lists
<1>2. AllFound(one)
  BY <1>1 DEF AllFound
<1>3. PICK seqs \in [1 .. 1 -> Seq(Placings)] : seqs = Meanings(one) /\ seqs[1] = Meaning(x)
  <2>1. PICK list \in Lists : list = one /\ AllFound(list) /\ Len(list) = 1 /\ list[1] = x
    BY <1>1, <1>2
  <2>2. /\ Meanings(list) \in [1 .. Len(list) -> Lists]
        /\ \A i \in 1 .. Len(list) : Meanings(list)[i] = Meaning(list[i])
    BY <2>1, MeaningsType
  <2>3. 1 \in 1 .. 1
    OBVIOUS
  <2>4. QED
    BY <2>1, <2>2, <2>3 DEF Lists
<1>4. PICK s \in Seq(Placings) : s = seqs[1]
  OBVIOUS
<1>5. FlattenSeq(seqs) = s
  BY <1>4, FlattenOne
<1>6. QED
  BY <1>1, <1>2, <1>3, <1>4, <1>5, SpliceFlattens DEF Meaning

-----------------------------------------------------------------------------
\* One list is what another is spliced to.
Goes(a, b) == a \in Lists /\ b \in Lists /\ AllFound(a) /\ b = Splice(a)

\* The lists in between.
Chain(h, a, b, d) ==
  /\ h \in [0 .. d -> Lists] /\ h[0] = a /\ h[d] = b
  /\ \A i \in 1 .. d : Goes(h[i - 1], h[i])

\* One list becomes another when it is spliced d times.
Unfolds(a, b, d) == \E h : Chain(h, a, b, d)

\* A list becomes a list.
LEMMA UnfoldsType ==
  ASSUME NEW a, NEW b, NEW d \in Nat, Unfolds(a, b, d)
  PROVE  a \in Lists /\ b \in Lists
BY DEF Unfolds, Chain

\* No time at all.
LEMMA UnfoldsNone ==
  ASSUME NEW a \in Lists
  PROVE  Unfolds(a, a, 0)
<1> DEFINE h == [i \in 0 .. 0 |-> a]
<1>1. h \in [0 .. 0 -> Lists] /\ h[0] = a /\ \A i \in 1 .. 0 : Goes(h[i - 1], h[i])
  OBVIOUS
<1> HIDE DEF h
<1>2. QED
  BY <1>1 DEF Unfolds, Chain

\* Once more.
LEMMA UnfoldsMore ==
  ASSUME NEW a, NEW b, NEW c, NEW d \in Nat, NEW e \in Nat, e = d + 1, Unfolds(a, b, d), Goes(b, c)
  PROVE  Unfolds(a, c, e)
<1>1. PICK g : Chain(g, a, b, d)
  BY DEF Unfolds
<1>2. c \in Lists
  BY DEF Goes
<1> DEFINE h == [i \in 0 .. d + 1 |-> IF i = d + 1 THEN c ELSE g[i]]
<1>3. h \in [0 .. d + 1 -> Lists] /\ h[d + 1] = c /\ \A i \in 0 .. d : h[i] = g[i]
  BY <1>1, <1>2 DEF Chain
<1> HIDE DEF h
<1>4. ASSUME NEW i \in 1 .. d + 1 PROVE Goes(h[i - 1], h[i])
  <2>1. CASE i = d + 1
    <3>1. h[i] = c /\ h[i - 1] = b
      BY <1>1, <1>3, <2>1 DEF Chain
    <3>2. QED
      BY <3>1
  <2>2. CASE i # d + 1
    <3>1. i \in 1 .. d /\ i - 1 \in 0 .. d /\ i \in 0 .. d
      BY <2>2
    <3>2. Goes(g[i - 1], g[i])
      BY <1>1, <3>1 DEF Chain
    <3>3. QED
      BY <1>3, <3>1, <3>2
  <2>3. QED
    BY <2>1, <2>2
<1>5. h[0] = a
  BY <1>1, <1>3 DEF Chain
<1>6. Chain(h, a, c, d + 1)
  BY <1>3, <1>4, <1>5 DEF Chain
<1>7. QED
  BY <1>6 DEF Unfolds

\* Once before.
LEMMA UnfoldsFirst ==
  ASSUME NEW a, NEW b, NEW c, NEW d \in Nat, NEW e \in Nat, e = d + 1, Goes(a, b), Unfolds(b, c, d)
  PROVE  Unfolds(a, c, e)
<1>1. PICK h : Chain(h, b, c, d)
  BY DEF Unfolds
<1> DEFINE T == {k \in 0 .. d : Unfolds(a, h[k], k + 1)}
<1>2. 0 \in T /\ T \in SUBSET (0 .. d)
  <2>1. Unfolds(a, a, 0)
    BY UnfoldsNone DEF Goes
  <2>2. Unfolds(a, b, 1)
    BY <2>1, UnfoldsMore
  <2>3. h[0] = b
    BY <1>1 DEF Chain
  <2>4. QED
    BY <2>2, <2>3
<1>3. ASSUME NEW k \in 0 .. d, k \in T, k < d PROVE k + 1 \in T
  <2>1. PICK i \in 1 .. d : i = k + 1 /\ i - 1 = k
    BY <1>3
  <2>2. Goes(h[k], h[i])
    BY <1>1, <2>1 DEF Chain
  <2>3. Unfolds(a, h[k], i)
    BY <1>3, <2>1
  <2>4. PICK l \in Nat : l = i + 1
    OBVIOUS
  <2>5. Unfolds(a, h[i], l)
    BY <2>2, <2>3, <2>4, UnfoldsMore
  <2>6. QED
    BY <2>1, <2>4, <2>5
<1>4. T = 0 .. d
  <2> HIDE DEF T
  <2>1. QED
    BY <1>2, <1>3, Upward
<1>5. d \in T
  <2> HIDE DEF T
  <2>1. QED
    BY <1>4
<1>6. Unfolds(a, h[d], e)
  BY <1>5
<1>7. QED
  BY <1>1, <1>6 DEF Chain

\* Where nothing is included, once more makes no difference.
LEMMA UnfoldsLeaf ==
  ASSUME NEW a, NEW b, NEW d \in Nat, NEW e \in Nat, d <= e, Unfolds(a, b, d), Leaf(b)
  PROVE  Unfolds(a, b, e)
<1>1. Goes(b, b)
  BY UnfoldsType, SpliceLeaf DEF Goes
<1>2. PICK n \in Nat : n = e - d /\ d + n = e
  OBVIOUS
<1> DEFINE T == {k \in 0 .. n : Unfolds(a, b, d + k)}
<1>3. 0 \in T /\ T \in SUBSET (0 .. n)
  OBVIOUS
<1>4. ASSUME NEW k \in 0 .. n, k \in T, k < n PROVE k + 1 \in T
  <2>1. PICK i, j \in Nat : i = d + k /\ j = i + 1 /\ j = d + (k + 1)
    OBVIOUS
  <2>2. Unfolds(a, b, i)
    BY <1>4, <2>1
  <2>3. Unfolds(a, b, j)
    BY <1>1, <2>1, <2>2, UnfoldsMore
  <2>4. QED
    BY <1>4, <2>1, <2>3
<1>5. T = 0 .. n
  <2> HIDE DEF T
  <2>1. QED
    BY <1>3, <1>4, Upward
<1>6. n \in T
  <2> HIDE DEF T
  <2>1. QED
    BY <1>5
<1>7. QED
  BY <1>2, <1>6

\* Two lists side by side go where each of them goes.
LEMMA GoesJoin ==
  ASSUME NEW a, NEW b, NEW c, NEW d, Goes(a, c), Goes(b, d)
  PROVE  Goes(Join(a, b), Join(c, d))
<1>1. a \in Lists /\ b \in Lists /\ c \in Lists /\ d \in Lists /\ AllFound(a) /\ AllFound(b)
  BY DEF Goes
<1>2. Join(a, b) \in Lists /\ AllFound(Join(a, b)) /\ Splice(Join(a, b)) = Join(c, d)
  BY <1>1, SpliceJoin DEF Goes
<1>3. Join(c, d) \in Lists
  BY <1>1, SpliceJoin
<1>4. QED
  BY <1>2, <1>3 DEF Goes

\* They become what each becomes.
LEMMA UnfoldsJoin ==
  ASSUME NEW a, NEW b, NEW c, NEW d, NEW e \in Nat, Unfolds(a, c, e), Unfolds(b, d, e)
  PROVE  Unfolds(Join(a, b), Join(c, d), e)
<1>1. PICK g : Chain(g, a, c, e)
  BY DEF Unfolds
<1>2. PICK h : Chain(h, b, d, e)
  BY DEF Unfolds
<1>3. PICK ab : ab = Join(a, b)
  OBVIOUS
<1> DEFINE T == {k \in 0 .. e : Unfolds(ab, Join(g[k], h[k]), k)}
<1>4. 0 \in T /\ T \in SUBSET (0 .. e)
  <2>1. g[0] = a /\ h[0] = b
    BY <1>1, <1>2 DEF Chain
  <2>2. ab \in Lists
    BY <1>3, UnfoldsType, SpliceJoin
  <2>3. Unfolds(ab, ab, 0)
    BY <2>2, UnfoldsNone
  <2>4. QED
    BY <1>3, <2>1, <2>3
<1>5. ASSUME NEW k \in 0 .. e, k \in T, k < e PROVE k + 1 \in T
  <2>1. PICK i \in 1 .. e : i = k + 1 /\ i - 1 = k
    BY <1>5
  <2>2. Goes(g[k], g[i]) /\ Goes(h[k], h[i])
    BY <1>1, <1>2, <2>1 DEF Chain
  <2>3. Goes(Join(g[k], h[k]), Join(g[i], h[i]))
    BY <2>2, GoesJoin
  <2>4. Unfolds(ab, Join(g[i], h[i]), i)
    BY <1>5, <2>1, <2>3, UnfoldsMore
  <2>5. QED
    BY <2>1, <2>4
<1>6. T = 0 .. e
  <2> HIDE DEF T
  <2>1. QED
    BY <1>4, <1>5, Upward
<1>7. e \in T
  <2> HIDE DEF T
  <2>1. QED
    BY <1>6
<1>8. Unfolds(ab, Join(g[e], h[e]), e)
  BY <1>7
<1>9. QED
  BY <1>1, <1>2, <1>3, <1>8 DEF Chain

\* What two lists become is what each of them becomes.
LEMMA UnfoldsApart ==
  ASSUME NEW a \in Lists, NEW b \in Lists, NEW out, NEW d \in Nat, Unfolds(Join(a, b), out, d)
  PROVE  \E c, e : out = Join(c, e) /\ Unfolds(a, c, d) /\ Unfolds(b, e, d)
<1>1. PICK h : Chain(h, Join(a, b), out, d)
  BY DEF Unfolds
<1> DEFINE Apart(k) == \E c, e : h[k] = Join(c, e) /\ Unfolds(a, c, k) /\ Unfolds(b, e, k)
           T == {k \in 0 .. d : Apart(k)}
<1>2. 0 \in T /\ T \in SUBSET (0 .. d)
  <2>1. h[0] = Join(a, b)
    BY <1>1 DEF Chain
  <2>2. QED
    BY <2>1, UnfoldsNone
<1>3. ASSUME NEW k \in 0 .. d, k \in T, k < d PROVE k + 1 \in T
  <2>1. PICK i \in 1 .. d : i = k + 1 /\ i - 1 = k
    BY <1>3
  <2>2. PICK c, e : h[k] = Join(c, e) /\ Unfolds(a, c, k) /\ Unfolds(b, e, k)
    BY <1>3
  <2>3. Goes(h[k], h[i])
    BY <1>1, <2>1 DEF Chain
  <2>4. c \in Lists /\ e \in Lists
    BY <2>2, UnfoldsType
  <2>5. AllFound(Join(c, e)) /\ h[i] = Splice(Join(c, e))
    BY <2>2, <2>3, Zenon DEF Goes
  <2>6. AllFound(c) /\ AllFound(e) /\ h[i] = Join(Splice(c), Splice(e))
    BY <2>4, <2>5, SpliceJoin
  <2>7. Goes(c, Splice(c)) /\ Goes(e, Splice(e))
    BY <2>4, <2>6, SpliceType DEF Goes
  <2>8. Unfolds(a, Splice(c), i) /\ Unfolds(b, Splice(e), i)
    BY <2>1, <2>2, <2>7, UnfoldsMore
  <2>9. Apart(i)
    BY <2>6, <2>8
  <2>10. QED
    BY <2>1, <2>9
<1>4. T = 0 .. d
  <2> HIDE DEF T
  <2>1. QED
    BY <1>2, <1>3, Upward
<1>5. d \in T
  <2> HIDE DEF T
  <2>1. QED
    BY <1>4
<1>6. PICK c, e : h[d] = Join(c, e) /\ Unfolds(a, c, d) /\ Unfolds(b, e, d)
  BY <1>5
<1>7. QED
  BY <1>1, <1>6 DEF Chain

-----------------------------------------------------------------------------
\* The text of a list.
Texts(list) == [i \in DOMAIN list |-> list[i].item.text]

\* MaxOpen replacements are what Spliced makes of a file.
LEMMA SplicedIs ==
  ASSUME NEW f \in DOMAIN Disk, NEW out, Unfolds(Placed(f), out, MaxOpen)
  PROVE  Spliced(f) = Texts(out)
<1>1. PICK M \in Nat : M = MaxOpen
  BY IncludeAssumption
<1>2. PICK v : Chain(v, Placed(f), out, M)
  BY <1>1 DEF Unfolds
<1>3. v[0] = Placed(f) /\ v[M] = out /\ \A k \in 1 .. M : v[k] = Splice(v[k - 1])
  BY <1>2 DEF Chain, Goes
<1> DEFINE Rec(g) == g = [k \in 0 .. M |-> IF k = 0 THEN Placed(f) ELSE Splice(g[k - 1])]
<1>4. Rec(v)
  <2>1. \A k \in 0 .. M : v[k] = IF k = 0 THEN Placed(f) ELSE Splice(v[k - 1])
    BY <1>3
  <2>2. v = [k \in 0 .. M |-> v[k]]
    BY <1>2 DEF Chain
  <2>3. QED
    BY <2>1, <2>2
<1>5. PICK g : g = Splices(f) /\ Rec(g)
  BY <1>1, <1>4, Zenon DEF Splices
<1>6. \A k \in 0 .. M : g[k] = IF k = 0 THEN Placed(f) ELSE Splice(g[k - 1])
  BY <1>5
<1> DEFINE T == {k \in 0 .. M : g[k] = v[k]}
<1>7. 0 \in T /\ T \in SUBSET (0 .. M)
  BY <1>3, <1>6
<1>8. ASSUME NEW k \in 0 .. M, k \in T, k < M PROVE k + 1 \in T
  <2>1. PICK i \in 1 .. M : i = k + 1 /\ i - 1 = k /\ i # 0 /\ i \in 0 .. M
    BY <1>8
  <2>2. g[i] = Splice(g[k]) /\ v[i] = Splice(v[k])
    <3> HIDE DEF Rec
    <3>1. QED
      BY <2>1, <1>3, <1>6
  <2>3. QED
    BY <2>1, <2>2, <1>8
<1>9. T = 0 .. M
  <2> HIDE DEF T
  <2>1. QED
    BY <1>7, <1>8, Upward
<1>10. g[M] = v[M]
  <2>1. M \in T
    BY <1>9
  <2>2. QED
    BY <2>1
<1>11. Splices(f)[MaxOpen] = out
  BY <1>1, <1>3, <1>5, <1>10, Zenon
<1>12. QED
  BY <1>11, Zenon DEF Spliced, Texts

\* What has been read and what is left, when k includes have been replaced: if
\* the rest comes to an end, the file comes to what was read and that.
Reads(f, done, rem, k) ==
  \A d \in Nat, out \in Lists :
    Leaf(out) /\ Unfolds(rem, out, d) =>
      \A e \in Nat : d + k <= e => Unfolds(Placed(f), Join(done, out), e)

\* Nothing has been read.
LEMMA ReadsStart ==
  ASSUME NEW f \in DOMAIN Disk
  PROVE  Reads(f, <<>>, Placed(f), 0)
<1> SUFFICES ASSUME NEW d \in Nat, NEW out \in Lists, Leaf(out), Unfolds(Placed(f), out, d),
                    NEW e \in Nat, d + 0 <= e
             PROVE  Unfolds(Placed(f), Join(<<>>, out), e)
  BY DEF Reads
<1>1. Join(<<>>, out) = out
  BY ConcatEmptySeq DEF Join, Lists
<1>2. Unfolds(Placed(f), out, e)
  BY UnfoldsLeaf
<1>3. QED
  BY <1>1, <1>2

\* An item is read that includes nothing.
LEMMA ReadsText ==
  ASSUME NEW f \in DOMAIN Disk, NEW done \in Lists, NEW rest \in Lists, NEW k \in Nat,
         NEW x \in Placings, ~ IsInclude(x.item), NEW one, one = <<x>>, NEW rem, rem = Join(one, rest),
         Reads(f, done, rem, k), NEW next, next = Join(done, one)
  PROVE  Reads(f, next, rest, k)
<1> SUFFICES ASSUME NEW d \in Nat, NEW out \in Lists, Leaf(out), Unfolds(rest, out, d),
                    NEW e \in Nat, d + k <= e
             PROVE  Unfolds(Placed(f), Join(next, out), e)
  BY DEF Reads
<1>1. one \in Lists /\ Len(one) = 1 /\ one[1] = x
  BY DEF Lists
<1>2. Leaf(one)
  BY <1>1 DEF Leaf
<1>3. PICK o \in Lists : o = one
  BY <1>1
<1>4. PICK more : more = Join(o, out)
  OBVIOUS
<1>5. more \in Lists
  BY <1>4, SpliceJoin
<1>6. Unfolds(rem, more, d)
  <2>1. Unfolds(o, o, 0)
    BY UnfoldsNone
  <2>2. Unfolds(o, o, d)
    BY <1>2, <1>3, <2>1, UnfoldsLeaf
  <2>3. Unfolds(Join(o, rest), more, d)
    BY <1>4, <2>2, UnfoldsJoin
  <2>4. QED
    BY <1>3, <2>3
<1>7. Leaf(more)
  <2>1. Joined(Placings, o, out, more)
    BY <1>4, JoinIsJoined DEF Lists
  <2>2. PICK n, m \in Nat : n = Len(o) /\ m = Len(out) /\ Len(more) = n + m
    <3>1. Len(o) \in Nat /\ Len(out) \in Nat
      BY DEF Lists
    <3>2. Len(more) = Len(o) + Len(out)
      BY <2>1 DEF Joined
    <3>3. QED
      BY <3>1, <3>2
  <2>3. ASSUME NEW i \in 1 .. n + m PROVE ~ IsInclude(more[i].item)
    <3>1. CASE i <= n
      <4>1. more[i] = o[i] /\ i \in 1 .. n
        BY <2>1, <2>2, <3>1 DEF Joined
      <4>2. QED
        BY <1>2, <1>3, <2>2, <4>1 DEF Leaf
    <3>2. CASE ~ (i <= n)
      <4>1. PICK j \in 1 .. m : j = i - n
        BY <3>2
      <4>2. more[i] = out[j]
        BY <2>1, <2>2, <3>2, <4>1 DEF Joined
      <4>3. QED
        BY <2>2, <4>2 DEF Leaf
    <3>3. QED
      BY <3>1, <3>2
  <2>4. QED
    BY <2>2, <2>3 DEF Leaf
<1>8. Unfolds(Placed(f), Join(done, more), e)
  BY <1>5, <1>6, <1>7 DEF Reads
<1>9. Join(done, more) = Join(next, out)
  <2>1. Join(done, Join(o, out)) = Join(Join(done, o), out)
    BY JoinAssociative DEF Lists
  <2>2. QED
    BY <1>3, <1>4, <2>1
<1>10. QED
  BY <1>8, <1>9

\* A file is entered.
LEMMA ReadsInclude ==
  ASSUME NEW f \in DOMAIN Disk, NEW done \in Lists, NEW rest \in Lists, NEW k \in Nat,
         NEW x \in Placings, IsInclude(x.item), Found(x), NEW one, one = <<x>>,
         NEW rem, rem = Join(one, rest), NEW file, file = Placed(File(x.dir, x.item.include)),
         Reads(f, done, rem, k), NEW next, next = Join(file, rest), NEW l \in Nat, l = k + 1
  PROVE  Reads(f, done, next, l)
<1> SUFFICES ASSUME NEW d \in Nat, NEW out \in Lists, Leaf(out), Unfolds(next, out, d),
                    NEW e \in Nat, d + l <= e
             PROVE  Unfolds(Placed(f), Join(done, out), e)
  BY DEF Reads
<1>1. PICK o \in Lists : o = one /\ AllFound(o) /\ Splice(o) = file
  BY SpliceInclude
<1>2. file \in Lists /\ Goes(o, file)
  BY <1>1, SpliceType DEF Goes
<1>3. PICK a, b : out = Join(a, b) /\ Unfolds(file, a, d) /\ Unfolds(rest, b, d)
  BY <1>2, UnfoldsApart
<1>4. a \in Lists /\ b \in Lists
  BY <1>3, UnfoldsType
<1>5. Leaf(b)
  <2>1. Joined(Placings, a, b, out)
    BY <1>3, <1>4, JoinIsJoined DEF Lists
  <2>2. PICK n, m \in Nat : n = Len(a) /\ m = Len(b) /\ Len(out) = n + m
    BY <1>4, <2>1 DEF Joined, Lists
  <2>3. ASSUME NEW j \in 1 .. m PROVE ~ IsInclude(b[j].item)
    <3>1. PICK i \in 1 .. n + m : i = n + j /\ ~ (i <= n) /\ i - n = j
      OBVIOUS
    <3>2. out[i] = b[j]
      BY <2>1, <2>2, <3>1 DEF Joined
    <3>3. QED
      BY <2>2, <3>1, <3>2 DEF Leaf
  <2>4. QED
    BY <2>2, <2>3 DEF Leaf
<1>6. PICK s \in Nat : s = d + 1
  OBVIOUS
<1>7. Unfolds(o, a, s)
  BY <1>2, <1>3, <1>6, UnfoldsFirst
<1>8. Unfolds(rest, b, s)
  BY <1>3, <1>5, <1>6, UnfoldsLeaf
<1>9. Unfolds(rem, out, s)
  <2>1. Unfolds(Join(o, rest), Join(a, b), s)
    BY <1>7, <1>8, UnfoldsJoin
  <2>2. QED
    BY <1>1, <1>3, <2>1
<1>10. s + k <= e
  BY <1>6
<1>11. QED
  BY <1>9, <1>10 DEF Reads

\* Everything has been read.
LEMMA ReadsEnd ==
  ASSUME NEW f \in DOMAIN Disk, NEW done \in Lists, NEW k \in Nat, NEW rem, rem = <<>>,
         Reads(f, done, rem, k), k <= MaxOpen
  PROVE  Spliced(f) = Texts(done)
<1>1. PICK none \in Lists : none = <<>> /\ Leaf(none)
  <2>1. <<>> \in Lists
    BY DEF Lists
  <2>2. Leaf(<<>>)
    BY DEF Leaf
  <2>3. QED
    BY <2>1, <2>2
<1>2. Unfolds(none, none, 0)
  BY UnfoldsNone
<1>3. MaxOpen \in Nat /\ 0 + k <= MaxOpen
  BY IncludeAssumption
<1>4. Unfolds(Placed(f), Join(done, none), MaxOpen)
  BY <1>1, <1>2, <1>3 DEF Reads
<1>5. Join(done, none) = done
  BY <1>1, ConcatEmptySeq DEF Join, Lists
<1>6. QED
  BY <1>4, <1>5, SplicedIs

-----------------------------------------------------------------------------
\* What is left of a file.
Unread(b) == SubSeq(Placed(b.file), b.at, Len(Placed(b.file)))

\* What is left of all files, the innermost first.
Remaining(bs) == FlattenSeq([i \in 1 .. Len(bs) |-> Unread(bs[i])])

\* A stack, its top and what is below.
Stack(all, top, below) ==
  /\ all \in Seq(Buffers) /\ below \in Seq(Buffers) /\ top \in Buffers
  /\ Len(all) = Len(below) + 1 /\ all[1] = top
  /\ \A i \in 1 .. Len(below) : all[i + 1] = below[i]

\* What is left of a file is a list.
LEMMA UnreadType ==
  ASSUME NEW b \in Buffers
  PROVE  Unread(b) \in Lists
<1>1. /\ b.file \in DOMAIN Disk /\ b.at \in 1 .. Len(Disk[b.file]) + 1
      /\ Len(Disk[b.file]) \in Nat
  BY IncludeAssumption DEF Buffers
<1>2. PICK p \in Lists : p = Placed(b.file) /\ Len(p) = Len(Disk[b.file])
  BY <1>1, PlacedType
<1>3. PICK lo \in 1 .. Len(p) + 1 : lo = b.at
  BY <1>1, <1>2
<1>4. PICK hi \in 0 .. Len(p) : hi = Len(p) /\ lo <= hi + 1
  BY <1>1, <1>2
<1>5. SubSeq(p, lo, hi) \in Seq(Placings)
  BY Part DEF Lists
<1>6. QED
  BY <1>2, <1>3, <1>4, <1>5 DEF Unread, Lists

\* What is left of all files is a list.
LEMMA RemainingType ==
  ASSUME NEW bs \in Seq(Buffers)
  PROVE  /\ [i \in 1 .. Len(bs) |-> Unread(bs[i])] \in [1 .. Len(bs) -> Lists]
         /\ Remaining(bs) \in Lists /\ Len(bs) \in Nat
<1>1. PICK n \in Nat : n = Len(bs)
  OBVIOUS
<1>2. \A i \in 1 .. n : Unread(bs[i]) \in Lists
  BY <1>1, UnreadType
<1>3. PICK seqs \in [1 .. n -> Seq(Placings)] : seqs = [i \in 1 .. Len(bs) |-> Unread(bs[i])]
  BY <1>1, <1>2 DEF Lists
<1>4. FlattenSeq(seqs) \in Seq(Placings)
  BY FlattenType
<1>5. QED
  BY <1>1, <1>3, <1>4 DEF Remaining, Lists

\* The top goes first.
LEMMA RemainingTop ==
  ASSUME NEW all, NEW top, NEW below, Stack(all, top, below)
  PROVE  Remaining(all) = Join(Unread(top), Remaining(below))
<1>1. /\ all \in Seq(Buffers) /\ below \in Seq(Buffers) /\ top \in Buffers
      /\ Len(all) = Len(below) + 1 /\ all[1] = top
      /\ \A i \in 1 .. Len(below) : all[i + 1] = below[i]
  BY DEF Stack
<1>2. PICK m, k \in Nat : m = Len(below) /\ k = Len(all) /\ k = 1 + m
  BY <1>1
<1> DEFINE one == [i \in 1 .. 1 |-> Unread(top)]
           seqs == [i \in 1 .. k |-> Unread(all[i])]
           more == [i \in 1 .. m |-> Unread(below[i])]
<1>3. one \in [1 .. 1 -> Seq(Placings)] /\ one[1] = Unread(top)
  BY <1>1, UnreadType DEF Lists
<1>4. seqs \in [1 .. k -> Seq(Placings)] /\ more \in [1 .. m -> Seq(Placings)]
  BY <1>1, <1>2, RemainingType DEF Lists
<1>5. seqs[1] = Unread(top)
  BY <1>1, <1>2
<1>6. ASSUME NEW j \in 1 .. m PROVE seqs[1 + j] = more[j]
  <2>1. 1 + j = j + 1 /\ j + 1 \in 1 .. k
    BY <1>2
  <2>2. all[j + 1] = below[j]
    BY <1>1, <1>2
  <2>3. QED
    BY <2>1, <2>2
<1>7. Remaining(all) = FlattenSeq(seqs) /\ Remaining(below) = FlattenSeq(more)
  BY <1>2 DEF Remaining
<1> HIDE DEF one, seqs, more
<1>8. Continues(Placings, seqs, one, more, 1, m, k)
  BY <1>2, <1>3, <1>4, <1>5, <1>6 DEF Continues
<1>9. FlattenSeq(one) = Unread(top)
  <2>1. PICK s \in Seq(Placings) : s = one[1]
    BY <1>3
  <2>2. FlattenSeq(one) = s
    BY <1>3, <2>1, FlattenOne
  <2>3. QED
    BY <1>3, <2>1, <2>2
<1>10. QED
  BY <1>7, <1>8, <1>9, FlattenJoin

\* The item at the place where the scanner is, and what is left behind it.
NextPiece(b, x, c) ==
  /\ c \in Buffers /\ c.file = b.file /\ c.at = b.at + 1
  /\ x \in Placings /\ x = [dir |-> b.file.dir, item |-> Disk[b.file][b.at]]
  /\ \E one : one = <<x>> /\ one \in Lists /\ Unread(b) = Join(one, Unread(c))

\* Within a file, there is an item and what is left behind it.
LEMMA UnreadNext ==
  ASSUME NEW b \in Buffers, b.at <= Len(Disk[b.file])
  PROVE  \E x, c : NextPiece(b, x, c)
<1>1. /\ b.file \in DOMAIN Disk /\ Len(Disk[b.file]) \in Nat
      /\ b.at \in 1 .. Len(Disk[b.file]) /\ b.at + 1 \in 1 .. Len(Disk[b.file]) + 1
  BY IncludeAssumption DEF Buffers
<1>2. PICK p \in Seq(Placings) : p = Placed(b.file) /\ Len(p) = Len(Disk[b.file])
  BY <1>1, PlacedType DEF Lists
<1>3. PICK i \in 1 .. Len(p) : i = b.at
  BY <1>1, <1>2
<1>4. PICK x \in Placings : x = p[i]
  BY ElementOfSeq
<1>5. x = [dir |-> b.file.dir, item |-> Disk[b.file][b.at]]
  BY <1>1, <1>2, <1>3, <1>4, PlacedType
<1>6. PICK c \in Buffers : c.file = b.file /\ c.at = b.at + 1
  <2>1. [file |-> b.file, at |-> b.at + 1] \in Buffers
    BY <1>1 DEF Buffers
  <2>2. QED
    BY <2>1
<1>7. PICK one \in Lists : one = <<x>>
  <2>1. <<x>> \in Lists
    BY DEF Lists
  <2>2. QED
    BY <2>1
<1>8. SubSeq(p, i, Len(p)) = Join(one, SubSeq(p, i + 1, Len(p)))
  <2>1. SubSeq(p, i, Len(p)) = <<p[i]>> \o SubSeq(p, i + 1, Len(p))
    BY FromHere
  <2>2. one = <<p[i]>>
    BY <1>4, <1>7
  <2>3. QED
    BY <2>1, <2>2, Zenon DEF Join
<1>9. Unread(b) = SubSeq(p, i, Len(p)) /\ Unread(c) = SubSeq(p, i + 1, Len(p))
  BY <1>2, <1>3, <1>6 DEF Unread
<1>10. QED
  BY <1>4, <1>5, <1>6, <1>7, <1>8, <1>9 DEF NextPiece

\* A file that has just been opened is all left.
LEMMA UnreadAll ==
  ASSUME NEW f \in DOMAIN Disk
  PROVE  Unread(Buffer(f)) = Placed(f)
<1>1. PICK p \in Seq(Placings) : p = Placed(f)
  BY PlacedType DEF Lists
<1>2. SubSeq(p, 1, Len(p)) = p
  BY SubSeqFull
<1>3. Buffer(f).file = f /\ Buffer(f).at = 1
  BY DEF Buffer
<1>4. QED
  BY <1>1, <1>2, <1>3 DEF Unread

\* At its end, nothing is left.
LEMMA UnreadNone ==
  ASSUME NEW b \in Buffers, b.at > Len(Disk[b.file])
  PROVE  Unread(b) = <<>>
<1>1. /\ b.file \in DOMAIN Disk /\ Len(Disk[b.file]) \in Nat
      /\ b.at = Len(Disk[b.file]) + 1
  BY IncludeAssumption DEF Buffers
<1>2. PICK p \in Seq(Placings) : p = Placed(b.file) /\ Len(p) = Len(Disk[b.file])
  BY <1>1, PlacedType DEF Lists
<1>3. PICK n \in Nat : n = Len(p) /\ b.at = n + 1
  BY <1>1, <1>2
<1>4. SubSeq(p, n + 1, n) = <<>>
  BY SubSeqEmpty
<1>5. QED
  BY <1>2, <1>3, <1>4 DEF Unread

\* One more item is put behind a list.
Adds(done, x, one, next) == one = <<x>> /\ next = Join(done, one)

\* What has been read with one item more.
LEMMA TextsMore ==
  ASSUME NEW done \in Lists, NEW x, NEW one \in Lists, NEW next, Adds(done, x, one, next)
  PROVE  Texts(next) = Append(Texts(done), x.item.text)
<1>1. Joined(Placings, done, one, next) /\ Len(one) = 1 /\ one[1] = x
  <2>1. one = <<x>> /\ next = Join(done, one)
    BY DEF Adds
  <2>2. Joined(Placings, done, one, next)
    BY <2>1, JoinIsJoined DEF Lists
  <2>3. Len(one) = 1 /\ one[1] = x
    BY <2>1
  <2>4. QED
    BY <2>2, <2>3
<1>2. PICK n \in Nat : n = Len(done) /\ Len(next) = n + 1
  BY <1>1 DEF Joined, Lists
<1>3. PICK all : all = next
  OBVIOUS
<1>4. /\ all \in Seq(Placings) /\ Len(all) = n + 1 /\ \A i \in 1 .. n : all[i] = done[i]
      /\ all[n + 1] = x
  <2>1. \A i \in 1 .. n + 1 : all[i] = IF i <= n THEN done[i] ELSE one[i - n]
    BY <1>1, <1>2, <1>3 DEF Joined
  <2>2. n + 1 \in 1 .. n + 1 /\ ~ (n + 1 <= n) /\ (n + 1) - n = 1 /\ one[1] = x
    BY <1>1
  <2>3. \A i \in 1 .. n : i \in 1 .. n + 1 /\ i <= n
    OBVIOUS
  <2>4. QED
    BY <1>1, <1>2, <1>3, <2>1, <2>2, <2>3 DEF Joined
<1>5. PICK t : t = Texts(done)
  OBVIOUS
<1> DEFINE V == {t[i] : i \in 1 .. n}
<1>6. t \in Seq(V) /\ Len(t) = n /\ \A i \in 1 .. n : t[i] = done[i].item.text
  <2>1. DOMAIN done = 1 .. n
    BY <1>2 DEF Lists
  <2>2. t = [i \in 1 .. n |-> done[i].item.text]
    BY <1>5, <2>1 DEF Texts
  <2>3. QED
    BY <2>2
<1>7. PICK u : u = Append(t, x.item.text)
  OBVIOUS
<1>8. DOMAIN u = 1 .. n + 1 /\ \A i \in 1 .. n + 1 : u[i] = all[i].item.text
  BY <1>4, <1>6, <1>7
<1>9. u = [i \in 1 .. n + 1 |-> all[i].item.text]
  <2>1. \E W : u \in Seq(W)
    <3>1. Append(t, x.item.text) \in Seq(V \union {x.item.text})
      BY <1>6
    <3>2. QED
      BY <1>7, <3>1
  <2>2. u = [i \in DOMAIN u |-> u[i]]
    BY <2>1
  <2>3. QED
    BY <1>8, <2>2
<1>10. DOMAIN all = 1 .. n + 1
  BY <1>4
<1>11. QED
  BY <1>3, <1>5, <1>7, <1>9, <1>10 DEF Texts

-----------------------------------------------------------------------------
\* Nothing is left of no file.
LEMMA RemainingNone == Remaining(<<>>) = <<>>
<1>1. PICK seqs \in [1 .. 0 -> Lists] : seqs = [i \in 1 .. Len(<<>>) |-> Unread(<<>>[i])]
  <2>1. <<>> \in Seq(Buffers) /\ Len(<<>>) = 0
    OBVIOUS
  <2>2. QED
    BY <2>1, RemainingType
<1>2. PICK p : Concatenates(p, seqs, 0, Placings) /\ FlattenSeq(seqs) = p[0]
  <2>1. 0 \in Nat /\ seqs \in [1 .. 0 -> Seq(Placings)]
    BY DEF Lists
  <2>2. QED
    BY <2>1, FlattenConcatenates
<1>3. p[0] = <<>>
  BY <1>2 DEF Concatenates
<1>4. QED
  BY <1>1, <1>2, <1>3 DEF Remaining

\* There is a file being read, and others that wait.
LEMMA StackNow ==
  ASSUME Levels
  PROVE  Stack(buffers, Top, Tail(buffers))
<1>1. buffers \in Seq(Buffers) /\ Len(buffers) = Len(cwds) + 1 /\ cwds \in Seq(Directories)
  BY DEF Levels
<1>2. Len(buffers) >= 1 /\ 1 \in 1 .. Len(buffers)
  BY <1>1
<1>3. buffers[1] \in Buffers
  BY <1>1, <1>2
<1>4. /\ Tail(buffers) \in Seq(Buffers) /\ Len(buffers) = Len(Tail(buffers)) + 1
      /\ \A i \in 1 .. Len(Tail(buffers)) : buffers[i + 1] = Tail(buffers)[i]
  BY <1>1, <1>2
<1>5. QED
  BY <1>1, <1>3, <1>4 DEF Stack, Top

\* One item is left, and the rest.
NextLeft(x, rem, rest) ==
  x \in Placings /\ rest \in Lists /\ \E one \in Lists : one = <<x>> /\ rem = Join(one, rest)

\* Reading an item leaves the rest.
LEMMA ItemNext ==
  ASSUME Levels, Reading
  PROVE  /\ NextItem \in Seq(Buffers)
         /\ NextLeft([dir |-> Top.file.dir, item |-> Item], Remaining(buffers), Remaining(NextItem))
<1>1. PICK all, top, below, next : all = buffers /\ top = Top /\ below = Tail(buffers) /\ next = NextItem
  OBVIOUS
<1>2. Stack(all, top, below)
  BY <1>1, StackNow
<1>3. top \in Buffers /\ top.at <= Len(Disk[top.file])
  BY <1>1, <1>2 DEF Stack, Reading, Rest, Top
<1>4. PICK x, c : NextPiece(top, x, c)
  BY <1>3, UnreadNext
<1>5. PICK one \in Lists : one = <<x>> /\ Unread(top) = Join(one, Unread(c))
  BY <1>4 DEF NextPiece
<1>6. x \in Placings /\ c \in Buffers /\ x = [dir |-> Top.file.dir, item |-> Item]
  BY <1>1, <1>4 DEF NextPiece, Item, Rest
<1>7. Stack(next, c, below)
  <2>1. c = [top EXCEPT !.at = top.at + 1]
    BY <1>3, <1>4 DEF NextPiece, Buffers
  <2>2. next = [all EXCEPT ![1] = c]
    BY <1>1, <2>1 DEF NextItem, MoveTo, Top
  <2>3. QED
    BY <1>2, <1>6, <2>2 DEF Stack
<1>8. PICK rest \in Lists : rest = Remaining(below)
  BY <1>2, RemainingType DEF Stack
<1>9. PICK behind \in Lists : behind = Unread(c)
  BY <1>6, UnreadType
<1>10. Remaining(next) = Join(behind, rest)
  BY <1>7, <1>8, <1>9, RemainingTop
<1>11. Remaining(all) = Join(Join(one, behind), rest)
  BY <1>2, <1>5, <1>8, <1>9, RemainingTop
<1>12. Join(Join(one, behind), rest) = Join(one, Join(behind, rest))
  BY JoinAssociative DEF Lists
<1>13. next \in Seq(Buffers) /\ Remaining(next) \in Lists
  BY <1>7, RemainingType DEF Stack
<1>14. NextLeft(x, Remaining(all), Remaining(next))
  BY <1>5, <1>6, <1>10, <1>11, <1>12, <1>13 DEF NextLeft
<1>15. QED
  BY <1>1, <1>6, <1>13, <1>14

\* What the parser has got so far is the text of what has been read.
GotIt(t, bs, f, n) ==
  \E done \in Lists, k \in Nat : k = n - 1 /\ t = Texts(done) /\ Reads(f, done, Remaining(bs), k)

\* The parser has got nothing before it starts, and what the includes mean when
\* it has ended.
IncludedInv ==
  /\ status = "start" => text = <<>>
  /\ status = "reading" /\ input.absolute =>
       File(Home, input) \in DOMAIN Disk /\ GotIt(text, buffers, File(Home, input), opened)
  /\ IncludedInPlace

\* The first file is opened: it is all left.
LEMMA OpenOn ==
  ASSUME IncludeInv, IncludedInv, OpenInput
  PROVE  IncludedInv'
<1> DEFINE f == File(Parent(cwd, input), input)
<1>1. /\ status = "start" /\ text' = text /\ text = <<>> /\ input' = input
      /\ cwd = Home /\ opened = 0
  BY DEF OpenInput, IncludeInv, IncludedInv
<1>2. CASE ~ Openable(f)
  <2>1. status' = "refused"
    BY <1>2 DEF OpenInput
  <2>2. QED
    BY <2>1 DEF IncludedInv, IncludedInPlace
<1>3. CASE Openable(f)
  <2>1. /\ status' = "reading" /\ buffers' = <<Buffer(f)>> /\ opened' = 1 /\ f \in DOMAIN Disk
    BY <1>1, <1>3 DEF OpenInput, Openable
  <2>2. ASSUME input.absolute PROVE f = File(Home, input)
    BY <2>2 DEF File, Parent
  <2> HIDE DEF f
  <2>3. PICK b, bs : b = Buffer(f) /\ bs = <<b>> /\ bs = buffers'
    BY <2>1
  <2>4. Stack(bs, b, <<>>)
    <3>1. b \in Buffers
      BY <2>1, <2>3, OnDisk
    <3>2. QED
      BY <2>3, <3>1 DEF Stack
  <2>5. Remaining(bs) = Placed(f)
    <3>1. PICK p \in Lists : p = Placed(f)
      BY <2>1, PlacedType
    <3>2. Unread(b) = p
      BY <2>1, <2>3, <3>1, UnreadAll
    <3>3. Remaining(bs) = Join(p, <<>>)
      BY <2>4, <3>2, RemainingTop, RemainingNone
    <3>4. Join(p, <<>>) = p
      BY ConcatEmptySeq DEF Join, Lists
    <3>5. QED
      BY <3>1, <3>3, <3>4
  <2>6. PICK none \in Lists : none = <<>>
    <3>1. <<>> \in Lists
      BY DEF Lists
    <3>2. QED
      BY <3>1
  <2>7. Texts(none) = <<>>
    BY <2>6 DEF Texts
  <2>8. Reads(f, none, Remaining(bs), 0)
    BY <2>1, <2>5, <2>6, ReadsStart
  <2>9. 0 \in Nat /\ 0 = 1 - 1
    OBVIOUS
  <2>10. GotIt(none, bs, f, 1)
    <3>1. none = Texts(none)
      BY <2>6, <2>7
    <3>2. QED
      BY <2>8, <2>9, <3>1 DEF GotIt
  <2>11. GotIt(text', buffers', f, opened')
    BY <1>1, <2>1, <2>3, <2>6, <2>10
  <2>12. QED
    BY <1>1, <2>1, <2>2, <2>11 DEF IncludedInv, IncludedInPlace
<1>4. QED
  BY <1>2, <1>3

\* A text is read: it goes from what is left to what has been read.
LEMMA TextOn ==
  ASSUME IncludeInv, IncludedInv, ReadText
  PROVE  IncludedInv'
<1>1. /\ status = "reading" /\ status' = "reading" /\ input' = input /\ opened' = opened
      /\ Reading /\ ~ IsInclude(Item) /\ text' = Append(text, Item.text) /\ buffers' = NextItem
  BY DEF ReadText, Reading
<1>2. SUFFICES ASSUME input.absolute
      PROVE  File(Home, input) \in DOMAIN Disk /\ GotIt(text', buffers', File(Home, input), opened')
  BY <1>1 DEF IncludedInv, IncludedInPlace
<1>3. PICK f \in DOMAIN Disk : f = File(Home, input)
  BY <1>1, <1>2 DEF IncludedInv
<1>4. PICK done \in Lists, k \in Nat :
        k = opened - 1 /\ text = Texts(done) /\ Reads(f, done, Remaining(buffers), k)
  BY <1>1, <1>2, <1>3 DEF IncludedInv, GotIt
<1>5. PICK x : x = [dir |-> Top.file.dir, item |-> Item]
  OBVIOUS
<1>6. x.item = Item
  BY <1>5
<1>7. PICK rem, bs : rem = Remaining(buffers) /\ bs = NextItem
  OBVIOUS
<1>8. NextLeft(x, rem, Remaining(bs))
  BY <1>1, <1>5, <1>7, ItemNext DEF IncludeInv
<1>9. PICK rest \in Lists : rest = Remaining(bs)
  BY <1>8 DEF NextLeft
<1>10. PICK one \in Lists : one = <<x>> /\ rem = Join(one, rest)
  BY <1>8, <1>9 DEF NextLeft
<1>11. PICK next \in Lists : next = Join(done, one)
  BY SpliceJoin
<1>12. x \in Placings /\ ~ IsInclude(x.item)
  BY <1>1, <1>6, <1>8 DEF NextLeft
<1>13. Reads(f, next, rest, k)
  BY <1>4, <1>7, <1>10, <1>11, <1>12, ReadsText
<1>14. text' = Texts(next)
  <2>1. one = <<x>>
    BY <1>10
  <2>2. Texts(next) = Append(Texts(done), x.item.text)
    <3>1. Adds(done, x, one, next)
      BY <2>1, <1>11 DEF Adds
    <3>2. QED
      BY <3>1, TextsMore
  <2>3. text' = Append(Texts(done), x.item.text)
    BY <1>1, <1>4, <1>6, Zenon
  <2>4. QED
    BY <2>2, <2>3, Zenon
<1>15. GotIt(text', bs, f, opened')
  BY <1>1, <1>4, <1>9, <1>13, <1>14 DEF GotIt
<1>16. QED
  BY <1>1, <1>3, <1>7, <1>15

\* A file is entered: it is left now, in place of the item that names it.
LEMMA IncludeOn ==
  ASSUME IncludeInv, IncludedInv, ReadInclude
  PROVE  IncludedInv'
<1> DEFINE path == Item.include
           g == File(cwd, path)
<1>1. /\ status = "reading" /\ status' = "reading" /\ input' = input /\ opened' = opened + 1
      /\ Reading /\ IsInclude(Item) /\ text' = text /\ buffers' = <<Buffer(g)>> \o NextItem
      /\ g \in DOMAIN Disk
  BY DEF ReadInclude, Reading, EnterInclude, Openable, NextItem
<1>2. SUFFICES ASSUME input.absolute
      PROVE  File(Home, input) \in DOMAIN Disk /\ GotIt(text', buffers', File(Home, input), opened')
  BY <1>1 DEF IncludedInv, IncludedInPlace
<1>3. PICK f \in DOMAIN Disk : f = File(Home, input)
  BY <1>1, <1>2 DEF IncludedInv
<1>4. PICK done \in Lists, k \in Nat :
        k = opened - 1 /\ text = Texts(done) /\ Reads(f, done, Remaining(buffers), k)
  BY <1>1, <1>2, <1>3 DEF IncludedInv, GotIt
<1>5. PICK x : x = [dir |-> Top.file.dir, item |-> Item]
  OBVIOUS
<1>6. x.item = Item /\ g = File(x.dir, x.item.include)
  <2>1. cwd = Top.file.dir
    BY <1>1, <1>2 DEF IncludeInv, Own, Top
  <2>2. x.item = Item /\ x.dir = Top.file.dir
    BY <1>5
  <2>3. QED
    BY <2>1, <2>2
<1>7. PICK rem, bs : rem = Remaining(buffers) /\ bs = NextItem
  OBVIOUS
<1>8. NextLeft(x, rem, Remaining(bs)) /\ bs \in Seq(Buffers)
  BY <1>1, <1>5, <1>7, ItemNext DEF IncludeInv
<1>9. PICK rest \in Lists : rest = Remaining(bs)
  BY <1>8 DEF NextLeft
<1>10. PICK one \in Lists : one = <<x>> /\ rem = Join(one, rest)
  BY <1>8, <1>9 DEF NextLeft
<1>11. x \in Placings /\ IsInclude(x.item) /\ Found(x)
  BY <1>1, <1>6, <1>8 DEF NextLeft, Found
<1> HIDE DEF g
<1>12. PICK b, all : b = Buffer(g) /\ all = <<b>> \o bs /\ all = buffers'
  BY <1>1, <1>7
<1>13. Stack(all, b, bs) /\ Unread(b) = Placed(g)
  <2>1. b \in Buffers
    BY <1>1, <1>12, OnDisk
  <2>2. /\ all \in Seq(Buffers) /\ Len(all) = Len(bs) + 1 /\ all[1] = b
        /\ \A i \in 1 .. Len(bs) : all[i + 1] = bs[i]
    BY <1>8, <1>12, <2>1, Pushed
  <2>3. Stack(all, b, bs)
    BY <1>8, <2>1, <2>2 DEF Stack
  <2>4. QED
    BY <1>1, <1>12, <2>3, UnreadAll
<1>14. PICK file : file = Placed(File(x.dir, x.item.include))
  OBVIOUS
<1>15. PICK next : next = Join(file, rest)
  OBVIOUS
<1>16. Remaining(all) = next
  BY <1>6, <1>9, <1>13, <1>14, <1>15, RemainingTop
<1>17. PICK l \in Nat : l = k + 1 /\ l = opened' - 1
  <2>1. opened \in Nat
    <3>1. Levels
      BY <1>1 DEF IncludeInv
    <3>2. QED
      BY <3>1, IncludeAssumption DEF Levels
  <2>2. k + 1 \in Nat /\ k + 1 = (opened + 1) - 1 /\ opened' = opened + 1
    BY <1>1, <1>4, <2>1
  <2>3. QED
    BY <2>2
<1>18. Reads(f, done, next, l)
  BY <1>4, <1>7, <1>10, <1>11, <1>14, <1>15, <1>17, ReadsInclude
<1>19. GotIt(text', all, f, opened')
  BY <1>1, <1>4, <1>16, <1>17, <1>18 DEF GotIt
<1>20. QED
  BY <1>3, <1>12, <1>19

\* A file ends: nothing of it was left.
LEMMA EndOn ==
  ASSUME IncludeInv, IncludedInv, EndInclude \/ EndInput
  PROVE  IncludedInv'
<1>1. Levels /\ status = "reading" /\ Top.at > Len(Rest) /\ input' = input /\ text' = text
  BY DEF EndInclude, EndInput, EndOfFile, IncludeInv
<1>2. PICK all, top, below : all = buffers /\ top = Top /\ below = Tail(buffers)
  OBVIOUS
<1>3. Stack(all, top, below)
  BY <1>1, <1>2, StackNow
<1>4. Unread(top) = <<>>
  BY <1>1, <1>2, <1>3, UnreadNone DEF Stack, Rest, Top
<1>5. Remaining(all) = Remaining(below)
  <2>1. PICK rest \in Lists : rest = Remaining(below)
    BY <1>3, RemainingType DEF Stack
  <2>2. Join(<<>>, rest) = rest
    BY ConcatEmptySeq DEF Join, Lists
  <2>3. QED
    BY <1>3, <1>4, <2>1, <2>2, RemainingTop
<1>6. CASE ~ input.absolute
  BY <1>1, <1>6 DEF EndInclude, EndInput, IncludedInv, IncludedInPlace
<1>7. CASE input.absolute
  <2>1. PICK f \in DOMAIN Disk : f = File(Home, input)
    BY <1>1, <1>7 DEF IncludedInv
  <2>2. PICK done \in Lists, k \in Nat :
          k = opened - 1 /\ text = Texts(done) /\ Reads(f, done, Remaining(below), k)
    BY <1>1, <1>2, <1>5, <1>7, <2>1 DEF IncludedInv, GotIt
  <2>3. CASE EndInclude
    <3>1. opened' = opened /\ buffers' = below /\ status' = "reading"
      BY <1>1, <1>2, <2>3 DEF EndInclude
    <3>2. GotIt(text', below, f, opened')
      BY <1>1, <2>2, <3>1 DEF GotIt
    <3>3. QED
      BY <1>1, <2>1, <3>1, <3>2 DEF IncludedInv, IncludedInPlace
  <2>4. CASE EndInput
    <3>1. status' = "parsed" /\ cwds = <<>>
      BY <2>4 DEF EndInput
    <3>2. below = <<>>
      BY <1>1, <1>2, <3>1 DEF Levels
    <3>3. PICK rem : rem = <<>> /\ Reads(f, done, rem, k)
      BY <2>2, <3>2, RemainingNone
    <3>4. k <= MaxOpen
      BY <1>1, <2>2, IncludeAssumption DEF Levels
    <3>5. Spliced(f) = Texts(done)
      BY <3>3, <3>4, ReadsEnd
    <3>6. IncludedInPlace'
      BY <1>1, <2>1, <2>2, <3>5 DEF IncludedInPlace
    <3>7. QED
      BY <3>1, <3>6 DEF IncludedInv
  <2>5. QED
    BY <2>3, <2>4
<1>8. QED
  BY <1>6, <1>7

\* Every step keeps the account of what has been read.
LEMMA IncludedStep == IncludeInv /\ IncludedInv /\ [Next]_readVars => IncludedInv'
<1> SUFFICES ASSUME IncludeInv, IncludedInv, [Next]_readVars PROVE IncludedInv'
  OBVIOUS
<1>1. CASE NoDirectory
  BY <1>1 DEF NoDirectory, IncludedInv, IncludedInPlace
<1>2. CASE NoInclude \/ ParserFails
  <2>1. status' \in {"refused", "exited", "terminated"}
    BY <1>2 DEF NoInclude, ParserFails, Refuse, Die
  <2>2. QED
    BY <2>1 DEF IncludedInv, IncludedInPlace
<1>3. CASE UNCHANGED readVars
  BY <1>3 DEF readVars, IncludedInv, IncludedInPlace
<1>4. CASE OpenInput \/ ReadText \/ ReadInclude \/ EndInclude \/ EndInput
  BY <1>4, OpenOn, TextOn, IncludeOn, EndOn
<1>5. QED
  BY <1>1, <1>2, <1>3, <1>4 DEF Next, Progress

\* When a program that is named by an absolute path has been read, the parser
\* has got the text of its files with every include line replaced by what it
\* names, in place and to any depth.
THEOREM IncludedCorrect == Spec => []IncludedInPlace
<1>1. Init => IncludedInv
  BY DEF Init, IncludedInv, IncludedInPlace
<1>2. IncludedInv => IncludedInPlace
  BY DEF IncludedInv
<1>3. QED
  BY <1>1, <1>2, IncludedStep, IncludeInvariance, PTL DEF Spec

-----------------------------------------------------------------------------
(***************************************************************************)
(* The scanner and the parser together.                                    *)
(***************************************************************************)
\* What a rule of the scanner may take ends in the file.
LEMMA AheadInFile ==
  ASSUME IncludeInv, Reading, NEW e \in Ahead
  PROVE  InFile(e)
<1>1. Top.at \in Nat /\ Len(Rest) \in Nat /\ Top.at + 1 \in 1 .. Len(Rest) + 1
  BY NextInFile DEF InFile
<1>2. QED
  BY <1>1 DEF Ahead, Next1, InFile

\* Also behind a backslash.
LEMMA EscapeInFile ==
  ASSUME IncludeInv, Reading, Escapes
  PROVE  InFile(Top.at + 2)
<1>1. Top.at \in Nat /\ Len(Rest) \in Nat /\ Top.at + 1 \in 1 .. Len(Rest) + 1
  BY NextInFile DEF InFile
<1>2. QED
  BY <1>1 DEF Escapes, Next1, InFile

\* A rule that returns nothing moves on within its file.
LEMMA QuietScans ==
  ASSUME IncludeInv, ScanQuietly
  PROVE  \E p : ScanTo(p)
<1>1. Reading /\ (Quiet(Next1) \/ (Escapes /\ Quiet(Top.at + 2)))
  BY DEF ScanQuietly, EatBlanks, OpenTick, CloseTick, OpenQuote, GrowString, BeginInclude,
         EchoNewline, Sees
<1>2. CASE Quiet(Next1)
  BY <1>1, <1>2, NextInFile DEF Quiet, Next1, ScanTo, Reading
<1>3. CASE Escapes /\ Quiet(Top.at + 2)
  BY <1>1, <1>3, EscapeInFile DEF Quiet, ScanTo, Reading
<1>4. QED
  BY <1>1, <1>2, <1>3

\* A rule that returns a token moves on in the file.
LEMMA ReturnScans ==
  ASSUME IncludeInv, ReturnsToken, Return
  PROVE  \E p : ScanTo(p)
<1>1. Reading
  BY DEF ReturnsToken, Sees
<1>2. PICK e \in Ahead : buffers' = MoveTo(e)
  BY DEF Return
<1>3. ScanTo(e)
  BY <1>1, <1>2, AheadInFile DEF Return, ScanTo, Reading
<1>4. QED
  BY <1>3

\* Each step of the scanner and the parser is one of a reader, or none.
LEMMA FrontReads ==
  ASSUME IncludeInv, [FrontNext]_frontVars
  PROVE  ReadStep \/ ReadUnchanged
<1>1. CASE NoDirectory \/ OpenInput
  BY <1>1 DEF ReadStep
<1>2. CASE ScanQuietly
  BY <1>2, QuietScans DEF ReadStep
<1>3. CASE ScanInclude
  <2>1. PICK e \in Ahead : EnterInclude(PathTo(e), e)
    BY <1>3 DEF ScanInclude
  <2>2. EnterFrom(PathTo(e), e)
    BY <1>3, <2>1, AheadInFile DEF ScanInclude, Sees, Reading, EnterFrom
  <2>3. QED
    BY <2>2 DEF ReadStep
<1>4. CASE ScanNoInclude
  BY <1>4 DEF ScanNoInclude, Sees, Reading, ParserFails, ReadStep
<1>5. CASE ParseToken
  BY <1>5, ReturnScans DEF ParseToken, ReadStep
<1>6. CASE FailAtToken
  BY <1>6 DEF FailAtToken, ReturnsToken, Sees, Reading, Fail, Dies, ParserFails, ReadStep
<1>7. CASE Leave
  BY <1>7 DEF Leave, ReadStep
<1>8. CASE ParseEnd
  BY <1>8 DEF ParseEnd, ReadStep
<1>9. CASE FailAtEnd
  BY <1>9 DEF FailAtEnd, AtEnd, EndOfFile, Dies, ParserFails, ReadStep
<1>10. CASE UNCHANGED frontVars
  BY <1>10 DEF frontVars, scanVars, readVars, ReadUnchanged
<1>11. QED
  BY <1>1, <1>2, <1>3, <1>4, <1>5, <1>6, <1>7, <1>8, <1>9, <1>10 DEF FrontNext

\* The invariant of the include stacks holds of the scanner and the parser, which
\* enter, leave and fail at the tokens of any text.
THEOREM FrontIncludeInvariance == FrontSpec => []IncludeInv
<1>1. FrontInit => IncludeInv
  BY IncludeInit DEF FrontInit, ScanInit
<1>2. IncludeInv /\ [FrontNext]_frontVars => IncludeInv'
  BY FrontReads, ReadStepKeeps
<1>3. QED
  BY <1>1, <1>2, PTL DEF FrontSpec

\* Whatever the texts are, at every level of includes the scanner returns to
\* the directory of the file it returns to.
THEOREM FrontStacksCorrect == FrontSpec => []StacksMatch
BY IncludeInvSuffices, FrontIncludeInvariance, PTL

\* Whatever the texts are, an include is looked up from the directory of the
\* file it is written in.
THEOREM FrontLookupCorrect == FrontSpec => []FromOwnDirectory
BY IncludeInvSuffices, FrontIncludeInvariance, PTL

\* Whether the program is parsed or an exception ends the parse at any token,
\* the caller has its working directory back.
THEOREM FrontCallerDirectory == FrontSpec => []DirectoryRestored
BY IncludeInvSuffices, FrontIncludeInvariance, PTL
-----------------------------------------------------------------------------
(***************************************************************************)
(* The string and the start condition of the scanner.                      *)
(***************************************************************************)
StringInv == condition \in {"INITIAL", "incl", "ch", "str"} /\ buffer \in Seq(Byte)

\* The bytes of a lexeme.
LEMMA CodesOf ==
  ASSUME NEW f \in DOMAIN Disk, NEW i \in 1 .. Len(Disk[f])
  PROVE  Disk[f][i].codes \in Seq(Byte) /\ Disk[f][i].codes # <<>>
BY ScannerAssumption

\* What an escape puts into the string.
LEMMA Translated ==
  ASSUME NEW codes \in Seq(Byte), codes # <<>>
  PROVE  <<10>> \o Tail(codes) \in Seq(Byte) /\ <<92>> \o codes \in Seq(Byte)
<1>1. 10 \in Byte /\ 92 \in Byte
  BY DEF Byte, Between
<1>2. QED
  BY <1>1

\* The string grows by bytes.
LEMMA GrowStringKeeps ==
  ASSUME IncludeInv, StringInv, GrowString
  PROVE  StringInv'
<1>1. Reading /\ condition' = condition
  BY DEF GrowString, Sees
<1>2. Top.file \in DOMAIN Disk /\ Top.at \in Nat /\ Len(Rest) \in Nat /\ Rest = Disk[Top.file]
      /\ Top.at + 1 \in 1 .. Len(Rest) + 1 /\ Top.at \in 1 .. Len(Rest)
  BY <1>1, NextInFile DEF InFile, Rest, Reading, Buffers
<1>3. CASE Escapes
  <2> DEFINE codes == Rest[Next1].codes
  <2>1. Next1 \in 1 .. Len(Rest)
    BY <1>2, <1>3 DEF Escapes, Next1
  <2>2. codes \in Seq(Byte) /\ codes # <<>>
    BY <1>2, <2>1, CodesOf
  <2>3. buffer' = buffer \o IF Head(codes) = 110 THEN <<10>> \o Tail(codes) ELSE <<92>> \o codes
    BY <1>3 DEF GrowString
  <2> HIDE DEF codes
  <2>4. QED
    BY <1>1, <2>2, <2>3, Translated DEF StringInv
<1>4. CASE ~ Escapes
  <2>1. Top.at \in 1 .. Len(Rest)
    BY <1>2
  <2>2. Item.codes \in Seq(Byte)
    BY <1>2, <2>1, CodesOf DEF Item
  <2>3. buffer' = buffer \o Item.codes
    BY <1>4 DEF GrowString
  <2>4. QED
    BY <1>1, <2>2, <2>3 DEF StringInv
<1>5. QED
  BY <1>3, <1>4

\* No step puts anything else into it.
LEMMA StringKept ==
  ASSUME IncludeInv, StringInv, [FrontNext]_frontVars
  PROVE  StringInv'
<1>1. CASE GrowString
  BY <1>1, GrowStringKeeps
<1>2. CASE EatBlanks \/ OpenTick \/ CloseTick \/ OpenQuote \/ BeginInclude \/ EchoNewline
  <2>1. <<>> \in Seq(Byte)
    OBVIOUS
  <2>2. /\ condition' \in {"INITIAL", "incl", "ch", "str", condition}
        /\ buffer' = buffer \/ buffer' = <<>>
    BY <1>2 DEF EatBlanks, OpenTick, CloseTick, OpenQuote, BeginInclude, EchoNewline
  <2>3. QED
    BY <2>1, <2>2 DEF StringInv
<1>3. CASE ParseToken
  BY <1>3 DEF ParseToken, Return, StringInv
<1>4. CASE ScanInclude \/ ScanNoInclude
  BY <1>4 DEF ScanInclude, ScanNoInclude, StringInv
<1>5. CASE UNCHANGED <<condition, buffer>>
  BY <1>5 DEF StringInv
<1>6. QED
  BY <1>1, <1>2, <1>3, <1>4, <1>5
  DEF FrontNext, ScanQuietly, FailAtToken, Leave, ParseEnd, FailAtEnd, frontVars, scanVars

-----------------------------------------------------------------------------
(***************************************************************************)
(* The expression that is read: how many operands and operators wait.  The *)
(* precedences bound the operators, and a division is never among others.  *)
(***************************************************************************)
Waiting(w) ==
  /\ w \in Seq(Operators) /\ Len(w) <= 2
  /\ Len(w) = 2 => w[1] \in {"+", "-"} /\ w[2] = "*"

\* n has as many operands as operators and d more.
Balanced(n, d) ==
  /\ \E S : n.operands \in Seq(S)
  /\ Len(n.operands) = Len(n.operators) + d

NumberType(n) ==
  /\ n = [operands |-> n.operands, operators |-> n.operators, split |-> n.split]
  /\ Waiting(n.operators)

\* Where an expression has begun.
InNumber == {"number", "operand", "constant", "close"}

NumberInv ==
  /\ NumberType(number)
  /\ ~ number.split /\ expect = "number"  => Balanced(number, 1)
  /\ ~ number.split /\ expect = "operand" => Balanced(number, 0)
  /\ expect \notin InNumber => number = NoNumber
  /\ expect \in DOMAIN Shifts \union {"nothing"}

\* One operator less can wait as well.
LEMMA WaitingFront ==
  ASSUME NEW w, Waiting(w), w # <<>>
  PROVE  /\ Waiting(Front(w)) /\ Len(Front(w)) = Len(w) - 1
         /\ Len(Front(w)) = 1 => Front(w)[1] \in {"+", "-"}
<1>1. w \in Seq(Operators) /\ Len(w) \in Nat /\ Len(w) <= 2
  BY DEF Waiting
<1>2. Len(w) >= 1
  BY <1>1
<1> DEFINE k == Len(w) - 1
<1>3. k \in Nat /\ k <= Len(w) /\ k = Len(w) - 1 /\ k <= 1
  BY <1>1, <1>2
<1> HIDE DEF k
<1>4. /\ SubSeq(w, 1, k) \in Seq(Operators) /\ Len(SubSeq(w, 1, k)) = k
      /\ \A i \in 1 .. k : SubSeq(w, 1, k)[i] = w[i]
  BY <1>1, <1>3
<1>5. Front(w) = SubSeq(w, 1, k)
  BY DEF Front, k
<1>6. k = 1 => Len(w) = 2 /\ 1 \in 1 .. k
  BY <1>1, <1>3
<1>7. k # 2
  BY <1>3
<1>8. Waiting(Front(w))
  BY <1>1, <1>3, <1>4, <1>5, <1>7 DEF Waiting
<1>9. QED
  BY <1>3, <1>4, <1>5, <1>6, <1>8 DEF Waiting

\* A reduction takes two operands and leaves one.
LEMMA ReduceOneKeeps ==
  ASSUME NEW n, NumberType(n), Balanced(n, 1), n.operators # <<>>
  PROVE  /\ NumberType(ReduceOne(n)) /\ Balanced(ReduceOne(n), 1)
         /\ ReduceOne(n).operators = Front(n.operators) /\ ReduceOne(n).split = n.split
<1> DEFINE k == Len(n.operands)
           value == Apply(Last(n.operators), n.operands[k - 1], n.operands[k])
           rest == SubSeq(n.operands, 1, k - 2)
           operands == rest \o <<value>>
           r == [operands |-> operands, operators |-> Front(n.operators), split |-> n.split]
<1>1. PICK S : n.operands \in Seq(S)
  BY DEF Balanced
<1>2. /\ Waiting(n.operators) /\ Len(n.operators) \in Nat /\ Len(n.operators) >= 1
      /\ k = Len(n.operators) + 1
  <2>1. Waiting(n.operators) /\ n.operators \in Seq(Operators) /\ k = Len(n.operators) + 1
    BY DEF NumberType, Balanced, Waiting
  <2>2. Len(n.operators) \in Nat /\ Len(n.operators) >= 1
    BY <2>1
  <2>3. QED
    BY <2>1, <2>2
<1>3. ReduceOne(n) = r
  <2>1. ReduceOne(n) = [n EXCEPT !.operands = operands, !.operators = Front(n.operators)]
    BY DEF ReduceOne
  <2> HIDE DEF operands
  <2>2. QED
    BY <2>1 DEF NumberType
<1>4. Waiting(Front(n.operators)) /\ Len(Front(n.operators)) = Len(n.operators) - 1
  BY <1>2, WaitingFront
<1> HIDE DEF value
<1>5. rest \in Seq(S \union {value}) /\ Len(rest) = k - 2
  BY <1>1, <1>2
<1>6. operands \in Seq(S \union {value}) /\ Len(operands) = k - 1
  BY <1>2, <1>5
<1> HIDE DEF operands
<1>7. /\ r.operands = operands /\ r.operators = Front(n.operators) /\ r.split = n.split
      /\ r = [operands |-> r.operands, operators |-> r.operators, split |-> r.split]
  OBVIOUS
<1> HIDE DEF r
<1>8. NumberType(r) /\ Balanced(r, 1)
  BY <1>2, <1>4, <1>6, <1>7 DEF NumberType, Balanced
<1>9. QED
  BY <1>3, <1>7, <1>8

\* So does a row of them.
LEMMA ReduceKeeps ==
  ASSUME NEW n, NumberType(n), Balanced(n, 1), NEW precedence
  PROVE  /\ NumberType(Reduce(n, precedence)) /\ Balanced(Reduce(n, precedence), 1)
         /\ Reduce(n, precedence).split = n.split
BY ReduceOneKeeps DEF Reduce

\* One reduction, as far as the operators are concerned.
LEMMA ReduceOperators ==
  ASSUME NEW n, NumberType(n), Balanced(n, 1), NEW precedence
  PROVE  Reduce(n, precedence).operators =
           IF n.operators # <<>> /\ Precedence(n.operators[Len(n.operators)]) >= precedence
           THEN Front(n.operators) ELSE n.operators
BY ReduceOneKeeps DEF Reduce, Last

\* Which operators are left for the next one.
LEMMA ReduceAllLeaves ==
  ASSUME NEW n, NumberType(n), Balanced(n, 1), NEW op \in {"+", "-", "*"},
         Len(n.operators) = 1 => n.operators[1] # "/"
  PROVE  LET left == ReduceAll(n, Precedence(op)).operators IN
         \/ Len(left) = 0
         \/ op = "*" /\ Len(left) = 1 /\ left[1] \in {"+", "-"}
<1> DEFINE p == Precedence(op)
           m == Reduce(n, p)
           left == ReduceAll(n, p).operators
<1>1. Precedence("+") = 1 /\ Precedence("-") = 1 /\ Precedence("*") = 2
  BY DEF Precedence
<1>2. p = IF op = "*" THEN 2 ELSE 1
  BY <1>1
<1>3. Waiting(n.operators) /\ Len(n.operators) \in Nat /\ Len(n.operators) <= 2
  BY DEF NumberType, Waiting
<1>4. NumberType(m) /\ Balanced(m, 1)
  BY ReduceKeeps
<1>5. m.operators = IF n.operators # <<>> /\ Precedence(n.operators[Len(n.operators)]) >= p
                    THEN Front(n.operators) ELSE n.operators
  BY ReduceOperators
<1>6. left = IF m.operators # <<>> /\ Precedence(m.operators[Len(m.operators)]) >= p
             THEN Front(m.operators) ELSE m.operators
  BY <1>4, ReduceOperators DEF ReduceAll
<1> HIDE DEF p, m, left
<1>7. Len(m.operators) = 0 \/ (Len(m.operators) = 1 /\ m.operators[1] \in {"+", "-"})
  <2>1. CASE Len(n.operators) = 0
    BY <1>3, <1>5, <2>1 DEF Waiting
  <2>2. CASE Len(n.operators) = 1
    <3>1. n.operators # <<>> /\ n.operators[1] \in {"+", "-", "*"}
      <4>1. n.operators \in Seq(Operators) /\ 1 \in 1 .. Len(n.operators)
        BY <1>3, <2>2 DEF Waiting
      <4>2. n.operators[1] \in Operators /\ n.operators # <<>>
        BY <4>1, <2>2
      <4>3. QED
        BY <4>2, <2>2 DEF Operators
    <3>2. Len(Front(n.operators)) = Len(n.operators) - 1
      BY <1>3, <3>1, WaitingFront
    <3>3. QED
      BY <1>1, <1>2, <1>3, <1>5, <2>2, <3>1, <3>2
  <2>3. CASE Len(n.operators) = 2
    <3>1. n.operators # <<>> /\ n.operators[2] = "*"
      BY <1>3, <2>3 DEF Waiting
    <3>2. /\ Len(Front(n.operators)) = Len(n.operators) - 1
          /\ Len(Front(n.operators)) = 1 => Front(n.operators)[1] \in {"+", "-"}
      BY <1>3, <3>1, WaitingFront
    <3>3. Len(Front(n.operators)) = 1 /\ Front(n.operators)[1] \in {"+", "-"}
      BY <2>3, <3>2
    <3>4. m.operators = Front(n.operators)
      BY <1>1, <1>2, <1>5, <2>3, <3>1
    <3>5. QED
      BY <3>3, <3>4
  <2>4. \A k \in Nat : k <= 2 => k = 0 \/ k = 1 \/ k = 2
    OBVIOUS
  <2>5. QED
    BY <1>3, <2>1, <2>2, <2>3, <2>4, Zenon
<1>8. Waiting(m.operators)
  BY <1>4 DEF NumberType
<1>9. QED
  <2>1. CASE Len(m.operators) = 0
    BY <1>6, <1>8, <2>1 DEF left, p, Waiting
  <2>2. CASE Len(m.operators) = 1
    <3>0. m.operators # <<>>
      BY <2>2
    <3>1. Len(Front(m.operators)) = Len(m.operators) - 1
      BY <1>8, <3>0, WaitingFront
    <3>2. Len(left) = 0 \/ (op = "*" /\ left = m.operators)
      BY <1>1, <1>2, <1>6, <1>7, <2>2, <3>0, <3>1
    <3>3. QED
      BY <1>7, <2>2, <3>2 DEF left, p
  <2>3. QED
    BY <1>7, <2>1, <2>2

\* An operator reduces what binds as tightly and waits.
LEMMA OperatorKeeps ==
  ASSUME NumberInv, expect = "number", NEW op \in Operators
  PROVE  NumberType(Operator(op)) /\ (~ Operator(op).split => Balanced(Operator(op), 0))
<1> DEFINE conflict == number.operators # <<>> /\ "/" \in {op, Last(number.operators)}
<1>1. NumberType(number) /\ (~ number.split => Balanced(number, 1))
  BY DEF NumberInv
<1>2. CASE number.split \/ conflict
  <2>1. Operator(op) = [number EXCEPT !.split = TRUE]
    BY <1>2 DEF Operator
  <2>2. Operator(op) = [operands |-> number.operands, operators |-> number.operators, split |-> TRUE]
    BY <1>1, <2>1 DEF NumberType
  <2>3. QED
    BY <1>1, <2>2 DEF NumberType
<1>3. CASE ~ (number.split \/ conflict)
  <2> DEFINE n == ReduceAll(number, Precedence(op))
  <2>1. Operator(op) = [n EXCEPT !.operators = Append(@, op)]
    BY <1>3 DEF Operator
  <2>2. NumberType(n) /\ Balanced(n, 1) /\ n.split = number.split
    BY <1>1, <1>3, ReduceKeeps DEF ReduceAll
  <2>3. Waiting(Append(n.operators, op)) /\ Len(n.operators) \in Nat
    <3>1. Waiting(n.operators)
      BY <2>2 DEF NumberType
    <3>2. Len(n.operators) = 0
          \/ (op = "*" /\ Len(n.operators) = 1 /\ n.operators[1] \in {"+", "-"})
      <4>1. CASE op = "/"
        <5>1. number.operators = <<>>
          BY <1>3, <4>1
        <5>2. QED
          BY <5>1 DEF ReduceAll, Reduce
      <4>2. CASE op # "/"
        <5>1. op \in {"+", "-", "*"} /\ (Len(number.operators) = 1 => number.operators[1] # "/")
          BY <1>3, <4>2 DEF Operators, Last
        <5>2. QED
          BY <1>1, <1>3, <5>1, ReduceAllLeaves
      <4>3. QED
        BY <4>1, <4>2
    <3> HIDE DEF n
    <3>3. n.operators \in Seq(Operators) /\ Len(n.operators) \in Nat
      BY <3>1 DEF Waiting
    <3>4. /\ Append(n.operators, op) \in Seq(Operators)
          /\ Len(Append(n.operators, op)) = Len(n.operators) + 1
          /\ Append(n.operators, op)[Len(n.operators) + 1] = op
          /\ \A i \in 1 .. Len(n.operators) : Append(n.operators, op)[i] = n.operators[i]
      BY <3>3
    <3>5. QED
      BY <3>2, <3>3, <3>4 DEF Waiting
  <2> HIDE DEF n
  <2>4. Operator(op) =
          [operands |-> n.operands, operators |-> Append(n.operators, op), split |-> n.split]
    BY <2>1, <2>2 DEF NumberType
  <2>5. Len(Append(n.operators, op)) = Len(n.operators) + 1 /\ Len(n.operators) \in Nat
    BY <2>2 DEF NumberType, Waiting
  <2>6. QED
    BY <2>2, <2>3, <2>4, <2>5 DEF NumberType, Balanced
<1>4. QED
  BY <1>2, <1>3

\* An operand joins the others.
LEMMA OperandKeeps ==
  ASSUME NumberInv, expect \in Arguments \union {"operand"}, NEW value
  PROVE  NumberType(Operand(value)) /\ (~ Operand(value).split => Balanced(Operand(value), 1))
<1>1. NumberType(number)
  BY DEF NumberInv
<1>2. CASE number.split
  BY <1>1, <1>2 DEF Operand
<1>3. CASE ~ number.split
  <2>1. Balanced(number, 0)
    <3>1. CASE expect = "operand"
      BY <1>3, <3>1 DEF NumberInv
    <3>2. CASE expect # "operand"
      <4>1. number = NoNumber
        BY <3>2 DEF NumberInv, Arguments, InNumber
      <4>2. <<>> \in Seq({})
        OBVIOUS
      <4>3. QED
        BY <4>1, <4>2 DEF NoNumber, Balanced
    <3>3. QED
      BY <3>1, <3>2
  <2>2. PICK S : number.operands \in Seq(S)
    BY <2>1 DEF Balanced
  <2>3. Append(number.operands, value) \in Seq(S \union {value})
        /\ Len(Append(number.operands, value)) = Len(number.operands) + 1
    BY <2>2
  <2>4. Operand(value) = [operands |-> Append(number.operands, value),
                          operators |-> number.operators, split |-> number.split]
    BY <1>1, <1>3 DEF Operand, NumberType
  <2>5. Len(number.operators) \in Nat
    BY <1>1 DEF NumberType, Waiting
  <2>6. QED
    BY <1>1, <2>1, <2>3, <2>4, <2>5 DEF NumberType, Balanced
<1>4. QED
  BY <1>2, <1>3

\* Before a number there is nothing.
LEMMA NoNumberType == NumberType(NoNumber)
<1>1. <<>> \in Seq(Operators) /\ Len(<<>>) = 0
  OBVIOUS
<1>2. QED
  BY <1>1 DEF NumberType, NoNumber, Waiting

\* The states of the automaton that the proof tells apart.
LEMMA Expected ==
  {"file", "line", "name", "args", "dir", "operand", "number", "param", "head", "arg", "endm",
   "dot", "percent", "backslash", "constant", "reg_constant", "close", "reg_close", "macro",
   "comma"} \subseteq DOMAIN Shifts
BY DEF Shifts

\* A token that neither begins nor goes on with an expression.
LEMMA OutsideKeeps ==
  ASSUME NumberInv, expect \notin InNumber \/ number' = NoNumber,
         number' = number \/ number' = NoNumber,
         expect' \in {"file", "line", "name", "args", "dir", "param", "head", "arg", "endm",
                      "dot", "percent", "backslash", "constant", "reg_constant", "close",
                      "reg_close", "macro", "comma"}
  PROVE  NumberInv'
<1>1. number' = NoNumber
  BY DEF NumberInv
<1>2. expect' \in DOMAIN Shifts' /\ expect' \notin {"number", "operand"}
  BY Expected DEF Shifts
<1>3. NumberType(number')
  BY <1>1, NoNumberType
<1>4. QED
  BY <1>1, <1>2, <1>3 DEF NumberInv

\* Every token that is shifted keeps the balance.
LEMMA ShiftKeeps ==
  ASSUME NumberInv, NEW t, Verdict(t) = "shifted", Shift(t)
  PROVE  NumberInv'
<1>1. CASE SkipNewline(t)
  <2>1. expect' = expect /\ number' = number /\ expect \in {"file", "line"}
    BY <1>1 DEF SkipNewline, parseVars
  <2>2. QED
    BY <2>1, OutsideKeeps DEF InNumber
<1>2. CASE Instruction(t) \/ Dot(t) \/ Directive(t) \/ StartMacro(t)
  BY <1>2, OutsideKeeps DEF Instruction, Dot, Directive, StartMacro, Begin, Go, Expect, InNumber
<1>3. CASE Label(t) \/ EndLine(t) \/ Comma(t)
  BY <1>3, OutsideKeeps DEF Label, EndLine, Comma, AddRow, Expect
<1>4. CASE Symbol(t) \/ StringParam(t) \/ Percent(t) \/ Backslash(t)
  BY <1>4, OutsideKeeps
  DEF Symbol, StringParam, Percent, Backslash, AddParam, Go, Expect, Arguments, InNumber
<1>5. CASE Register(t) \/ ReplaceSymbol(t) \/ RegisterConstant(t)
  BY <1>5, OutsideKeeps DEF Register, ReplaceSymbol, RegisterConstant, AddParam, Go, Expect, InNumber
<1>6. CASE MacroName(t) \/ MacroArg(t) \/ MacroComma(t) \/ EndHead(t) \/ EndMacro(t)
  BY <1>6, OutsideKeeps
  DEF MacroName, MacroArg, MacroComma, EndHead, EndMacro, InMacro, Go, Expect, InNumber
<1>7. CASE Numeral(t)
  <2>1. expect \in Arguments \union {"operand"} /\ number' = Operand(t.value) /\ expect' = "number"
    BY <1>7 DEF Numeral, AddNumber, Expect
  <2>2. NumberType(number') /\ (~ number'.split => Balanced(number', 1))
    BY <2>1, OperandKeeps
  <2>3. QED
    BY <2>1, <2>2, Expected DEF NumberInv, InNumber, Shifts
<1>8. CASE MathExpr(t)
  <2>1. expect = "number" /\ t.tok \in Operators /\ number' = Operator(t.tok) /\ expect' = "operand"
    BY <1>8 DEF MathExpr, AddNumber, Expect
  <2>2. NumberType(number') /\ (~ number'.split => Balanced(number', 0))
    BY <2>1, OperatorKeeps
  <2>3. QED
    BY <2>1, <2>2, Expected DEF NumberInv, InNumber, Shifts
<1>9. CASE Constant(t)
  <2>1. number' = number /\ expect' \in {"constant", "close"}
    BY <1>9 DEF Constant, Go, Expect
  <2>2. QED
    BY <2>1, Expected DEF NumberInv, InNumber, Shifts
<1>10. CASE ConstantEnd(t)
  <2>1. expect = "close" /\ number' = number /\ expect' = "number"
    BY <1>10 DEF ConstantEnd, AddNumber, Expect
  <2>2. number.split
    <3>1. Viable(t) /\ ~ Substitutes(t)
      BY DEF Verdict
    <3>2. t.tok = "]"
      BY <2>1, <3>1 DEF Viable, Shifts
    <3>3. QED
      BY <2>1, <3>1, <3>2 DEF Substitutes
  <2>3. QED
    BY <2>1, <2>2, Expected DEF NumberInv, InNumber, Shifts
<1>11. QED
  BY <1>1, <1>2, <1>3, <1>4, <1>5, <1>6, <1>7, <1>8, <1>9, <1>10 DEF Shift

\* So does every step of the front end.
LEMMA NumberKept ==
  ASSUME NumberInv, [FrontNext]_frontVars
  PROVE  NumberInv'
<1>1. CASE ParseToken
  BY <1>1, ShiftKeeps DEF ParseToken
<1>2. CASE ParseEnd
  <2>1. number' = number /\ expect' = "nothing" /\ Verdict(End) = "shifted"
    BY <1>2 DEF ParseEnd, Accept, Expect
  <2>2. expect \notin InNumber
    <3>1. Viable(End) /\ End.tok = "end"
      BY <2>1 DEF Verdict, End, Sign
    <3>2. /\ "end" \notin Shifts["number"] /\ "end" \notin Shifts["operand"]
          /\ "end" \notin Shifts["constant"] /\ "end" \notin Shifts["close"]
      BY DEF Shifts, Operators, Numeric
    <3>3. QED
      BY <3>1, <3>2 DEF Viable, InNumber
  <2>3. number = NoNumber
    BY <2>2 DEF NumberInv
  <2>4. QED
    BY <2>1, <2>3, NoNumberType DEF NumberInv
<1>3. CASE UNCHANGED parseVars
  <2>1. number' = number /\ expect' = expect /\ Shifts' = Shifts
    BY <1>3 DEF parseVars, Shifts
  <2>2. QED
    BY <2>1 DEF NumberInv
<1>4. QED
  BY <1>1, <1>2, <1>3 DEF FrontNext, FailAtToken, Leave, FailAtEnd, frontVars

-----------------------------------------------------------------------------
(***************************************************************************)
(* The lines.  A line that is begun is typed in every state in which       *)
(* something may be added to it, a macro is there while its head is read,  *)
(* and an expression that is not split has integers for operands.          *)
(***************************************************************************)
InLine == {"name", "dir", "args", "number", "operand", "param", "percent", "backslash",
           "constant", "close", "reg_constant", "reg_close"}
InHead == {"head", "arg", "comma"}

IsMacro(m) == m = <<>> \/ \E one \in MacroType : m = <<one>>

RowsInv ==
  /\ expect \in InLine => row \in LineType
  /\ ~ number.split => number.operands \in Seq(Int)
  /\ IsMacro(macro) /\ (expect \in InHead => macro # <<>>)
  /\ rows \in Seq(LineType) /\ lines \in Seq(LineType) /\ macros \in Seq(MacroType)

\* The value of a token is of its kind.
TokenTyped(t) ==
  /\ t.tok = "name"   => t.name \in STRING
  /\ t.tok = "number" => t.value \in Int
  /\ t.tok = "string" => t.codes \in Seq(Int)

\* The recursion of atoi() has a result, and it is a number.
LEMMA ValueType ==
  ASSUME NEW base \in Int, NEW digits \in Seq(Byte)
  PROVE  Value(base, digits) \in Int
<1>1. PICK n \in Nat : n = Len(digits)
  OBVIOUS
<1> DEFINE D(i) == Digit(digits[i])
<1>2. \A i \in 1 .. n : D(i) \in Int
  <2>1. \A i \in 1 .. n : digits[i] \in Int
    BY <1>1 DEF Byte, Between
  <2>2. \A code \in Int : Digit(code) \in Int
    BY DEF Digit
  <2>3. QED
    BY <2>1, <2>2
<1> HIDE DEF D
<1> DEFINE Step(g, i) == IF i = 0 THEN 0 ELSE base * g[i - 1] + D(i)
           Rec(g, m) == g = [i \in 0 .. m |-> Step(g, i)]
<1>3. Value(base, digits) = (CHOOSE g : Rec(g, n))[n]
  BY <1>1, Zenon DEF Value, D
<1> DEFINE Good(m) == \E g \in [0 .. m -> Int] : Rec(g, m)
<1>4. Good(0)
  <2> DEFINE g == [i \in 0 .. 0 |-> 0]
  <2>1. g \in [0 .. 0 -> Int]
    OBVIOUS
  <2>2. Rec(g, 0)
    OBVIOUS
  <2>3. QED
    BY <2>1, <2>2
<1>5. ASSUME NEW m \in 0 .. n, m < n, Good(m) PROVE Good(m + 1)
  <2>1. PICK g \in [0 .. m -> Int] : Rec(g, m)
    BY <1>5
  <2> DEFINE h == [i \in 0 .. m + 1 |-> Step(g, i)]
  <2>2. \A i \in 0 .. m : h[i] = g[i]
    <3>1. \A i \in 0 .. m : g[i] = Step(g, i)
      <4> HIDE DEF Step
      <4>1. QED
        BY <2>1
    <3> HIDE DEF Step
    <3>2. QED
      BY <3>1
  <2>3. ASSUME NEW i \in 0 .. m + 1 PROVE h[i] = Step(h, i) /\ h[i] \in Int
    <3>1. CASE i = 0
      BY <3>1
    <3>2. CASE i # 0
      <4>1. i - 1 \in 0 .. m /\ i \in 1 .. n
        BY <1>5, <3>2
      <4>2. h[i] = base * g[i - 1] + D(i)
        BY <3>2
      <4> HIDE DEF h
      <4>3. h[i - 1] = g[i - 1] /\ g[i - 1] \in Int
        BY <2>2, <4>1
      <4>4. D(i) \in Int
        BY <1>2, <4>1
      <4>5. h[i] \in Int
        BY <4>2, <4>3, <4>4
      <4>6. QED
        BY <3>2, <4>2, <4>3, <4>5
    <3>3. QED
      BY <3>1, <3>2
  <2>4. h \in [0 .. m + 1 -> Int] /\ Rec(h, m + 1)
    <3>1. \A i \in 0 .. m + 1 : h[i] \in Int
      BY <2>3
    <3>2. \A i \in 0 .. m + 1 : h[i] = Step(h, i)
      BY <2>3
    <3>3. h = [i \in 0 .. m + 1 |-> h[i]]
      OBVIOUS
    <3> HIDE DEF h, Step
    <3>4. QED
      BY <3>1, <3>2, <3>3
  <2>5. QED
    BY <2>4
<1>6. Good(n)
  <2> DEFINE T == {m \in 0 .. n : Good(m)}
  <2> HIDE DEF Good
  <2>1. 0 \in T /\ T \in SUBSET (0 .. n)
    BY <1>4
  <2>2. \A m \in 0 .. n : m \in T /\ m < n => m + 1 \in T
    BY <1>5
  <2>3. T = 0 .. n
    BY <2>1, <2>2, Upward
  <2>4. QED
    BY <2>3
<1>7. PICK f : Rec(f, n) /\ f = CHOOSE g : Rec(g, n)
  BY <1>6, Zenon
<1>8. \A i \in 0 .. n : f[i] = Step(f, i)
  <2> HIDE DEF Step
  <2>1. QED
    BY <1>7
<1>9. f[0] = 0 /\ \A i \in 1 .. n : f[i] = base * f[i - 1] + D(i)
  <2>1. 0 \in 0 .. n /\ \A i \in 1 .. n : i \in 0 .. n /\ i # 0
    OBVIOUS
  <2>2. QED
    BY <1>8, <2>1
<1>10. Value(base, digits) = f[n]
  <2> HIDE DEF Rec
  <2>1. QED
    BY <1>3, <1>7
<1>11. f[n] \in Int
  <2> DEFINE T == {m \in 0 .. n : f[m] \in Int}
  <2>1. 0 \in T /\ T \in SUBSET (0 .. n)
    BY <1>9
  <2>2. ASSUME NEW m \in 0 .. n, m \in T, m < n PROVE m + 1 \in T
    <3>1. m + 1 \in 1 .. n /\ (m + 1) - 1 = m
      BY <2>2
    <3>2. f[m + 1] = base * f[m] + D(m + 1) /\ D(m + 1) \in Int /\ f[m] \in Int
      BY <1>2, <1>9, <2>2, <3>1
    <3>3. f[m + 1] \in Int
      BY <3>2
    <3>4. QED
      BY <3>1, <3>3
  <2>3. T = 0 .. n
    <3> HIDE DEF T
    <3>1. QED
      BY <2>1, <2>2, Upward
  <2>4. QED
    BY <2>3
<1>12. QED
  BY <1>10, <1>11

\* The digits behind 0x.
LEMMA HexDigits ==
  ASSUME NEW codes \in Seq(Byte)
  PROVE  SubSeq(codes, 3, Len(codes)) \in Seq(Byte)
<1>1. Len(codes) \in Nat
  OBVIOUS
<1>2. CASE Len(codes) >= 2
  BY <1>1, <1>2
<1>3. CASE Len(codes) < 2
  <2>1. SubSeq(codes, 3, Len(codes)) = <<>>
    BY <1>1, <1>3
  <2>2. QED
    BY <2>1
<1>4. QED
  BY <1>1, <1>2, <1>3

\* The scanner returns typed tokens.
LEMMA TokenType ==
  ASSUME IncludeInv, StringInv, ReturnsToken
  PROVE  TokenTyped(Token)
<1>1. Reading /\ (condition = "INITIAL" \/ condition = "ch" \/ condition = "str")
  BY DEF ReturnsToken, Sees
<1>2. Top.file \in DOMAIN Disk /\ Top.at \in Nat /\ Len(Rest) \in Nat /\ Rest = Disk[Top.file]
      /\ Top.at \in 1 .. Len(Rest)
  BY <1>1, NextInFile DEF InFile, Rest, Reading, Buffers
<1>3. Item.kind \in Kinds /\ Item.name \in STRING /\ Item.codes \in Seq(Byte) /\ Item.codes # <<>>
  BY <1>2, ScannerAssumption DEF Item
<1>4. \A codes \in Seq(Byte) : codes \in Seq(Int)
  BY DEF Byte, Between
<1>5. CASE condition = "INITIAL"
  <2>1. Token = TokenOf(Item)
    BY <1>5 DEF Token
  <2>2. CASE Item.kind = "name"
    BY <1>3, <2>1, <2>2 DEF TokenOf, Name, TokenTyped
  <2>3. CASE Item.kind = "number"
    <3>1. Value(10, Item.codes) \in Int
      BY <1>3, ValueType
    <3>2. Token = Number(Value(10, Item.codes))
      BY <2>1, <2>3 DEF TokenOf
    <3>3. QED
      BY <3>1, <3>2 DEF Number, TokenTyped
  <2>4. CASE Item.kind = "hex"
    <3>1. Value(16, SubSeq(Item.codes, 3, Len(Item.codes))) \in Int
      <4>1. SubSeq(Item.codes, 3, Len(Item.codes)) \in Seq(Byte)
        BY <1>3, HexDigits
      <4>2. 16 \in Int
        OBVIOUS
      <4>3. QED
        BY <4>1, <4>2, ValueType
    <3>2. Token = Number(Value(16, SubSeq(Item.codes, 3, Len(Item.codes))))
      BY <2>1, <2>4 DEF TokenOf
    <3>3. QED
      BY <3>1, <3>2 DEF Number, TokenTyped
  <2>5. CASE Item.kind \in {"newline", ";"}
    BY <2>1, <2>5 DEF TokenOf, Newline, Sign, TokenTyped
  <2>6. CASE Item.kind \notin {"name", "number", "hex", "newline", ";"}
    <3>1. Token = Sign(Item.kind)
      BY <2>1, <2>6 DEF TokenOf
    <3>2. Item.kind \notin {"name", "number", "string"}
      BY <1>3, <2>6 DEF Kinds, Signs, Words, Spaces
    <3>3. QED
      BY <3>1, <3>2 DEF Sign, TokenTyped
  <2>7. QED
    BY <2>2, <2>3, <2>4, <2>5, <2>6
<1>6. CASE condition = "str"
  <2>1. Token = String(buffer) /\ buffer \in Seq(Byte)
    BY <1>6 DEF Token, StringInv
  <2>2. QED
    BY <1>4, <2>1 DEF String, TokenTyped
<1>7. CASE condition = "ch"
  <2>1. \A codes \in Seq(Byte) : \A escaped : codes # <<>> => TokenTyped(Character(codes, escaped))
    <3>1. ASSUME NEW codes \in Seq(Byte), NEW escaped, codes # <<>> PROVE TokenTyped(Character(codes, escaped))
      <4>1. codes[1] \in Int
        BY <3>1 DEF Byte, Between
      <4>2. QED
        BY <4>1 DEF Character, Sign, Number, TokenTyped
    <3>2. QED
      BY <3>1
  <2>2. Token = IF Escapes THEN Character(Rest[Next1].codes, TRUE) ELSE Character(Item.codes, FALSE)
    BY <1>7 DEF Token
  <2>3. CASE Escapes
    <3>1. Next1 \in 1 .. Len(Rest)
      BY <1>2, <2>3 DEF Escapes, Next1
    <3>2. Rest[Next1].codes \in Seq(Byte) /\ Rest[Next1].codes # <<>>
      BY <1>2, <3>1, CodesOf
    <3>3. QED
      BY <2>1, <2>2, <2>3, <3>2
  <2>4. CASE ~ Escapes
    BY <1>3, <2>1, <2>2, <2>4
  <2>5. QED
    BY <2>3, <2>4
<1>8. QED
  BY <1>1, <1>5, <1>6, <1>7

\* A name is a name or none.
LEMMA NoNameIn == "" \in NameOrNone /\ \A s \in STRING : s \in NameOrNone
BY DEF NameOrNone

\* The parameters that the actions make.
LEMMA ParamsTyped ==
  /\ \A name \in STRING : Reg(name) \in ParamType /\ Sym(name) \in ParamType /\ Replace(name) \in ParamType
  /\ \A codes \in Seq(Int) : Str(codes) \in ParamType
  /\ \A value \in Int : Num(value) \in ParamType
<1>1. ASSUME NEW name \in NameOrNone, NEW values \in Seq(Int), NEW type \in {"register", "symbol", "replace", "string"}
      PROVE  Param(type, name, values) \in ParamType
  BY <1>1 DEF Param, ParamType
<1>2. ASSUME NEW name \in NameOrNone, NEW value \in Int PROVE Param("number", name, <<value>>) \in ParamType
  BY <1>2 DEF Param, ParamType
<1>3. <<>> \in Seq(Int)
  OBVIOUS
<1>4. ASSUME NEW name \in STRING
      PROVE  Reg(name) \in ParamType /\ Sym(name) \in ParamType /\ Replace(name) \in ParamType
  <2>1. name \in NameOrNone
    BY <1>4, NoNameIn
  <2>2. QED
    BY <1>1, <1>3, <2>1 DEF Reg, Sym, Replace
<1>5. ASSUME NEW codes \in Seq(Int) PROVE Str(codes) \in ParamType
  BY <1>1, NoNameIn DEF Str
<1>6. ASSUME NEW value \in Int PROVE Num(value) \in ParamType
  BY <1>2, NoNameIn DEF Num
<1>7. QED
  BY <1>4, <1>5, <1>6

\* The lines that the actions begin.
LEMMA LinesTyped ==
  ASSUME NEW name \in STRING
  PROVE  Insn(name, <<>>) \in LineType /\ Dir(name, <<>>) \in LineType /\ Lbl(name) \in LineType
<1>1. <<>> \in Seq(ParamType)
  OBVIOUS
<1>2. QED
  BY <1>1 DEF Insn, Dir, Lbl, Line, LineType

\* A line with one parameter more.
LEMMA WithParamTyped ==
  ASSUME row \in LineType, NEW param \in ParamType
  PROVE  WithParam(param) \in LineType
<1>1. row.params \in Seq(ParamType)
  BY DEF LineType
<1>2. Append(row.params, param) \in Seq(ParamType)
  BY <1>1
<1>3. WithParam(param) = [row EXCEPT !.params = Append(row.params, param)]
  BY DEF WithParam
<1>4. QED
  BY <1>2, <1>3 DEF LineType

\* A reduction gives an integer, as no division is among other operators.
LEMMA ApplyType ==
  ASSUME NEW op \in Operators, NEW a \in Int, NEW b \in Int, op = "/" => b # 0
  PROVE  Apply(op, a, b) \in Int
<1>1. CASE op = "/"
  <2>1. Magnitude(a) \in Nat /\ Magnitude(b) \in Nat /\ Magnitude(b) > 0
    BY <1>1 DEF Magnitude
  <2>2. Magnitude(a) \div Magnitude(b) \in Int
    BY <2>1
  <2>3. Apply(op, a, b) = Quotient(a, b)
    BY <1>1 DEF Apply
  <2>4. QED
    BY <2>2, <2>3 DEF Quotient
<1>2. CASE op # "/"
  BY <1>2 DEF Operators, Apply
<1>3. QED
  BY <1>1, <1>2

\* The operands are integers, and the operator that waits can be applied.
Computes(n) ==
  /\ NumberType(n) /\ Balanced(n, 1) /\ n.operands \in Seq(Int)
  /\ Len(n.operators) = 1 /\ n.operators[1] = "/" => n.operands[Len(n.operands)] # 0

\* A reduction leaves integers.
LEMMA ReduceOneInts ==
  ASSUME NEW n, Computes(n), n.operators # <<>>
  PROVE  Computes(ReduceOne(n))
<1> DEFINE k == Len(n.operands)
           m == Len(n.operators)
           op == n.operators[m]
<1>1. NumberType(n) /\ Balanced(n, 1) /\ n.operands \in Seq(Int)
  BY DEF Computes
<1>2. Waiting(n.operators) /\ n.operators \in Seq(Operators) /\ k = m + 1
  BY <1>1 DEF NumberType, Balanced, Waiting
<1>3. m \in Nat /\ m >= 1 /\ m <= 2 /\ k \in Nat
  BY <1>1, <1>2 DEF Waiting
<1>4. /\ NumberType(ReduceOne(n)) /\ Balanced(ReduceOne(n), 1)
      /\ ReduceOne(n).operators = Front(n.operators)
  BY <1>1, ReduceOneKeeps
<1>5. Len(Front(n.operators)) = m - 1 /\ (Len(Front(n.operators)) = 1 => Front(n.operators)[1] \in {"+", "-"})
  BY <1>2, WaitingFront
<1>6. op \in Operators /\ n.operands[k - 1] \in Int /\ n.operands[k] \in Int
  <2>1. m \in 1 .. m /\ k - 1 \in 1 .. k /\ k \in 1 .. k
    BY <1>2, <1>3
  <2>2. QED
    BY <1>1, <1>2, <2>1
<1>7. op = "/" => n.operands[k] # 0
  <2>1. m = 2 => op = "*"
    BY <1>2 DEF Waiting
  <2>2. m = 1 \/ m = 2
    <3>1. \A i \in Nat : i >= 1 /\ i <= 2 => i = 1 \/ i = 2
      OBVIOUS
    <3> HIDE DEF m
    <3>2. QED
      BY <1>3, <3>1
  <2>3. m = 1 /\ n.operators[1] = "/" => n.operands[k] # 0
    BY DEF Computes
  <2>4. CASE m = 1
    BY <2>3, <2>4
  <2>5. CASE m = 2
    BY <2>1, <2>5
  <2> HIDE DEF m, op, k
  <2>6. QED
    BY <2>2, <2>4, <2>5
<1>8. Apply(op, n.operands[k - 1], n.operands[k]) \in Int
  BY <1>6, <1>7, ApplyType
<1>9. ReduceOne(n).operands \in Seq(Int)
  <2>1. ReduceOne(n).operands = SubSeq(n.operands, 1, k - 2) \o <<Apply(op, n.operands[k - 1], n.operands[k])>>
    <3>1. n.operators[Len(n.operators)] = Last(n.operators)
      BY DEF Last
    <3>2. n = [operands |-> n.operands, operators |-> n.operators, split |-> n.split]
      BY <1>1 DEF NumberType
    <3>3. QED
      BY <3>1, <3>2 DEF ReduceOne
  <2>2. SubSeq(n.operands, 1, k - 2) \in Seq(Int)
    BY <1>1, <1>2, <1>3
  <2>3. <<Apply(op, n.operands[k - 1], n.operands[k])>> \in Seq(Int)
    BY <1>8
  <2> HIDE DEF op, k
  <2>4. QED
    BY <2>1, <2>2, <2>3
<1>10. QED
  BY <1>4, <1>5, <1>9 DEF Computes

\* So does a row of them.
LEMMA ReduceInts ==
  ASSUME NEW n, Computes(n), NEW precedence
  PROVE  Computes(ReduceAll(n, precedence))
<1>1. \A m : Computes(m) => Computes(Reduce(m, precedence))
  BY ReduceOneInts DEF Reduce
<1>2. QED
  BY <1>1 DEF ReduceAll

\* A number that ends here has a value.
LEMMA CompleteType ==
  ASSUME NumberInv, RowsInv, NEW t, Verdict(t) = "shifted", t.tok \notin Operators, expect \in InLine
  PROVE  Complete \in LineType
<1>1. CASE expect = "number"
  <2>1. ~ DividesByZero(t) /\ ~ Ambiguous(t)
    BY DEF Verdict
  <2>2. ~ number.split
    BY <1>1, <2>1 DEF Ambiguous, NumberEnds
  <2>3. NumberType(number) /\ Balanced(number, 1) /\ number.operands \in Seq(Int)
    BY <1>1, <2>2 DEF NumberInv, RowsInv
  <2>4. number.operators \in Seq(Operators) /\ Len(number.operators) \in Nat /\ Len(number.operands) = Len(number.operators) + 1
    BY <2>3 DEF NumberType, Waiting, Balanced
  <2>5. Len(number.operators) = 1 /\ number.operators[1] = "/" => number.operands[Len(number.operands)] # 0
    <3>1. Len(number.operators) = 1 /\ number.operators[1] = "/" => number.operators = <<"/">>
      BY <2>4
    <3>2. number.operators = <<"/">> => Last(number.operands) # 0
      BY <1>1, <2>1, <2>2 DEF DividesByZero, NumberEnds
    <3>3. QED
      BY <3>1, <3>2 DEF Last
  <2>6. Computes(number)
    BY <2>3, <2>5 DEF Computes
  <2> DEFINE n == ReduceAll(number, 0)
  <2>7. Computes(n)
    BY <2>6, ReduceInts
  <2> HIDE DEF n
  <2>8. n.operands \in Seq(Int) /\ Len(n.operands) = Len(n.operators) + 1 /\ Len(n.operators) \in Nat
    BY <2>7 DEF Computes, Balanced, NumberType, Waiting
  <2>9. Head(n.operands) \in Int
    BY <2>8
  <2>10. Num(Head(n.operands)) \in ParamType
    BY <2>9, ParamsTyped
  <2>11. Complete = WithParam(Num(Head(n.operands)))
    BY <1>1 DEF Complete, n
  <2>12. row \in LineType
    BY DEF RowsInv
  <2>13. QED
    BY <2>10, <2>11, <2>12, WithParamTyped
<1>2. CASE expect # "number"
  BY <1>2 DEF Complete, RowsInv
<1>3. QED
  BY <1>1, <1>2

\* An operator leaves integers, or splits the stack.
LEMMA OperatorInts ==
  ASSUME NumberInv, RowsInv, expect = "number", NEW op \in Operators
  PROVE  ~ Operator(op).split => Operator(op).operands \in Seq(Int)
<1> DEFINE conflict == number.operators # <<>> /\ "/" \in {op, Last(number.operators)}
<1>1. NumberType(number) /\ (~ number.split => Balanced(number, 1))
  BY DEF NumberInv
<1>2. CASE number.split \/ conflict
  <2>1. Operator(op) = [number EXCEPT !.split = TRUE]
    BY <1>2 DEF Operator
  <2>2. Operator(op) = [operands |-> number.operands, operators |-> number.operators, split |-> TRUE]
    BY <1>1, <2>1 DEF NumberType
  <2>3. QED
    BY <2>2
<1>3. CASE ~ (number.split \/ conflict)
  <2> DEFINE n == ReduceAll(number, Precedence(op))
  <2>1. Operator(op) = [n EXCEPT !.operators = Append(@, op)]
    BY <1>3 DEF Operator
  <2>2. Computes(number)
    <3>1. number.operands \in Seq(Int)
      BY <1>3 DEF RowsInv
    <3>2. Len(number.operators) = 1 => number.operators[1] # "/"
      BY <1>3 DEF Last
    <3>3. QED
      BY <1>1, <1>3, <3>1, <3>2 DEF Computes
  <2>3. Computes(n)
    BY <2>2, ReduceInts
  <2> HIDE DEF n
  <2>4. Operator(op).operands = n.operands
    BY <2>1, <2>3 DEF Computes, NumberType
  <2>5. QED
    BY <2>3, <2>4 DEF Computes
<1>4. QED
  BY <1>2, <1>3

\* A line that is complete goes to the macro or to the program.
LEMMA AddRowKeeps ==
  ASSUME RowsInv, NEW line \in LineType, AddRow(line)
  PROVE  RowsInv'
<1>1. /\ expect' = "line" /\ number' = NoNumber /\ lines' = lines /\ macros' = macros
      /\ lines \in Seq(LineType) /\ macros \in Seq(MacroType) /\ rows \in Seq(LineType)
  BY DEF AddRow, Expect, RowsInv
<1>2. expect' \notin InLine /\ expect' \notin InHead
  BY <1>1 DEF InLine, InHead
<1>3. ~ number'.split => number'.operands \in Seq(Int)
  BY <1>1 DEF NoNumber
<1>4. CASE macro = <<>>
  <2>1. rows' = Append(rows, line) /\ macro' = macro
    BY <1>4 DEF AddRow
  <2>2. rows' \in Seq(LineType)
    BY <1>1, <2>1
  <2>3. QED
    BY <1>1, <1>2, <1>3, <1>4, <2>1, <2>2 DEF RowsInv, IsMacro, InLine, InHead
<1>5. CASE macro # <<>>
  <2>1. PICK m \in MacroType : macro = <<m>>
    BY <1>5 DEF RowsInv, IsMacro
  <2>2. rows' = rows /\ macro' = <<[m EXCEPT !.lines = Append(m.lines, line)]>>
    BY <1>5, <2>1 DEF AddRow
  <2>3. m.lines \in Seq(LineType)
    BY DEF MacroType
  <2>4. Append(m.lines, line) \in Seq(LineType)
    BY <2>3
  <2>5. [m EXCEPT !.lines = Append(m.lines, line)] \in MacroType
    BY <2>4 DEF MacroType
  <2>6. IsMacro(macro')
    BY <2>2, <2>5 DEF IsMacro
  <2>7. QED
    BY <1>1, <1>2, <1>3, <2>2, <2>6 DEF RowsInv, IsMacro, InLine, InHead
<1>6. QED
  BY <1>4, <1>5

\* Every token that is shifted keeps the lines.
LEMMA ShiftRows ==
  ASSUME NumberInv, RowsInv, NEW t, TokenTyped(t), Verdict(t) = "shifted", Shift(t)
  PROVE  RowsInv'
<1>1. Viable(t)
  BY DEF Verdict
<1>2. /\ Shifts["dot"] = {"name"} /\ Shifts["backslash"] = {"name"} /\ Shifts["macro"] = {"name"}
      /\ macro = <<>> => ".endm" \notin Shifts["line"]
  BY DEF Shifts, Statement
<1>3. /\ expect \in {"dot", "backslash", "macro"} => t.tok = "name"
      /\ expect = "line" /\ macro = <<>> => t.tok # ".endm"
  BY <1>1, <1>2 DEF Viable
<1>4. /\ rows \in Seq(LineType) /\ lines \in Seq(LineType) /\ macros \in Seq(MacroType)
      /\ IsMacro(macro) /\ (expect \in InHead => macro # <<>>)
      /\ ~ number.split => number.operands \in Seq(Int)
      /\ expect \in InLine => row \in LineType
  BY DEF RowsInv
<1>5. ~ NoNumber.split => NoNumber.operands \in Seq(Int)
  BY DEF NoNumber
<1>6. CASE SkipNewline(t)
  BY <1>4, <1>6 DEF SkipNewline, parseVars, RowsInv, IsMacro, InHead, InLine
<1>7. CASE Instruction(t) \/ Directive(t)
  <2>1. t.name \in STRING
    BY <1>3, <1>7 DEF Instruction, Directive, TokenTyped
  <2>2. row' \in LineType /\ expect' \in {"name", "dir"} /\ UNCHANGED <<number, macro, rows, lines, macros>>
    BY <1>7, <2>1, LinesTyped DEF Instruction, Directive, Begin, Expect
  <2>3. QED
    BY <1>4, <2>2 DEF RowsInv, IsMacro, InHead, InLine
<1>8. CASE Dot(t) \/ StartMacro(t) \/ EndHead(t)
  <2>1. expect' \in {"dot", "macro", "line"} /\ UNCHANGED <<number, macro, rows, lines, macros>>
    BY <1>8 DEF Dot, StartMacro, EndHead, Go, Expect
  <2>2. QED
    BY <1>4, <2>1 DEF RowsInv, IsMacro, InHead, InLine
<1>9. CASE Label(t)
  <2>1. Lbl(row.name) \in LineType
    <3>1. row.name \in STRING
      BY <1>4, <1>9 DEF Label, InLine, LineType
    <3>2. QED
      BY <3>1, LinesTyped
  <2>2. AddRow(Lbl(row.name))
    BY <1>9 DEF Label
  <2>3. QED
    BY <2>1, <2>2, AddRowKeeps
<1>10. CASE EndLine(t)
  <2>1. expect \in InLine /\ t.tok = "newline" /\ AddRow(Complete)
    BY <1>10 DEF EndLine, InLine
  <2>2. Complete \in LineType
    BY <2>1, CompleteType DEF Operators
  <2>3. QED
    BY <2>1, <2>2, AddRowKeeps
<1>11. CASE Comma(t)
  <2>1. expect \in InLine /\ t.tok = "," /\ row' = Complete /\ number' = NoNumber /\ expect' = "args"
        /\ UNCHANGED <<macro, rows, lines, macros>>
    BY <1>11 DEF Comma, InLine, Expect
  <2>2. Complete \in LineType
    BY <2>1, CompleteType DEF Operators
  <2>3. QED
    BY <1>4, <1>5, <2>1, <2>2 DEF RowsInv, IsMacro, InHead, InLine
<1>12. CASE Symbol(t) \/ StringParam(t) \/ Register(t) \/ ReplaceSymbol(t)
  <2>1. expect \in InLine
    BY <1>12 DEF Symbol, StringParam, Register, ReplaceSymbol, Arguments, InLine
  <2>2. PICK param \in ParamType : AddParam(param)
    <3>1. CASE Symbol(t)
      BY <3>1, ParamsTyped DEF Symbol, TokenTyped
    <3>2. CASE StringParam(t)
      BY <3>2, ParamsTyped DEF StringParam, TokenTyped
    <3>3. CASE Register(t)
      BY <3>3, ParamsTyped DEF Register, TokenTyped
    <3>4. CASE ReplaceSymbol(t)
      BY <1>3, <3>4, ParamsTyped DEF ReplaceSymbol, TokenTyped
    <3>5. QED
      BY <1>12, <3>1, <3>2, <3>3, <3>4
  <2>3. row' = WithParam(param) /\ expect' = "param" /\ UNCHANGED <<number, macro, rows, lines, macros>>
    BY <2>2 DEF AddParam, Expect
  <2>4. row' \in LineType
    BY <1>4, <2>1, <2>3, WithParamTyped
  <2>5. QED
    BY <1>4, <2>3, <2>4 DEF RowsInv, IsMacro, InHead, InLine
<1>13. CASE Percent(t) \/ Backslash(t) \/ Constant(t) \/ RegisterConstant(t)
  <2>1. expect \in InLine /\ expect' \in {"percent", "backslash", "constant", "close", "reg_constant", "reg_close"}
        /\ UNCHANGED <<row, number, macro, rows, lines, macros>>
    BY <1>13 DEF Percent, Backslash, Constant, RegisterConstant, Go, Expect, Arguments, InLine
  <2>2. QED
    BY <1>4, <2>1 DEF RowsInv, IsMacro, InHead, InLine
<1>14. CASE Numeral(t)
  <2>1. expect \in InLine /\ t.value \in Int /\ number' = Operand(t.value) /\ expect' = "number"
        /\ UNCHANGED <<row, macro, rows, lines, macros>>
    BY <1>14 DEF Numeral, AddNumber, Expect, TokenTyped, Arguments, InLine
  <2>2. NumberType(number)
    BY DEF NumberInv
  <2>3. ~ number'.split => number'.operands \in Seq(Int)
    <3>1. CASE number.split
      BY <2>1, <3>1 DEF Operand
    <3>2. CASE ~ number.split
      <4>1. Append(number.operands, t.value) \in Seq(Int)
        BY <1>4, <2>1, <3>2
      <4>2. Operand(t.value) = [operands |-> Append(number.operands, t.value),
                                operators |-> number.operators, split |-> number.split]
        BY <2>2, <3>2 DEF Operand, NumberType
      <4>3. QED
        BY <2>1, <4>1, <4>2
    <3>3. QED
      BY <3>1, <3>2
  <2>4. QED
    BY <1>4, <2>1, <2>3 DEF RowsInv, IsMacro, InHead, InLine
<1>15. CASE MathExpr(t)
  <2>1. expect = "number" /\ t.tok \in Operators /\ number' = Operator(t.tok) /\ expect' = "operand"
        /\ UNCHANGED <<row, macro, rows, lines, macros>>
    BY <1>15 DEF MathExpr, AddNumber, Expect
  <2>2. ~ number'.split => number'.operands \in Seq(Int)
    BY <2>1, OperatorInts
  <2>3. QED
    BY <1>4, <2>1, <2>2 DEF RowsInv, IsMacro, InHead, InLine
<1>16. CASE ConstantEnd(t)
  <2>1. expect = "close" /\ number' = number /\ expect' = "number" /\ UNCHANGED <<row, macro, rows, lines, macros>>
    BY <1>16 DEF ConstantEnd, AddNumber, Expect
  <2>2. QED
    BY <1>4, <2>1 DEF RowsInv, IsMacro, InHead, InLine
<1>17. CASE MacroName(t)
  <2>1. t.name \in STRING
    BY <1>3, <1>17 DEF MacroName, TokenTyped
  <2>2. <<>> \in Seq(STRING) /\ <<>> \in Seq(LineType)
    OBVIOUS
  <2>3. Macro(t.name, <<>>, <<>>) \in MacroType
    BY <2>1, <2>2 DEF Macro, MacroType
  <2>4. macro' = <<Macro(t.name, <<>>, <<>>)>> /\ expect' = "head" /\ UNCHANGED <<row, number, rows, lines, macros>>
    BY <1>17 DEF MacroName, InMacro, Expect
  <2>5. IsMacro(macro') /\ macro' # <<>>
    BY <2>3, <2>4 DEF IsMacro
  <2>6. QED
    BY <1>4, <2>4, <2>5 DEF RowsInv, IsMacro, InHead, InLine
<1>18. CASE MacroArg(t)
  <2>1. expect \in InHead /\ t.name \in STRING
    BY <1>18 DEF MacroArg, InHead, TokenTyped
  <2>2. PICK m \in MacroType : macro = <<m>>
    BY <1>4, <2>1 DEF IsMacro
  <2>3. m.args \in Seq(STRING)
    BY DEF MacroType
  <2>4. Append(m.args, t.name) \in Seq(STRING)
    BY <2>1, <2>3
  <2>5. [m EXCEPT !.args = Append(m.args, t.name)] \in MacroType
    BY <2>4 DEF MacroType
  <2>6. macro' = <<[m EXCEPT !.args = Append(m.args, t.name)]>> /\ expect' = "arg"
        /\ UNCHANGED <<row, number, rows, lines, macros>>
    BY <1>18, <2>2 DEF MacroArg, InMacro, Expect
  <2>7. IsMacro(macro') /\ macro' # <<>>
    BY <2>5, <2>6 DEF IsMacro
  <2>8. QED
    BY <1>4, <2>6, <2>7 DEF RowsInv, IsMacro, InHead, InLine
<1>19. CASE MacroComma(t)
  <2>1. expect \in InHead /\ expect' = "comma" /\ UNCHANGED <<row, number, macro, rows, lines, macros>>
    BY <1>19 DEF MacroComma, Go, Expect, InHead
  <2>2. QED
    BY <1>4, <2>1 DEF RowsInv, IsMacro, InHead, InLine
<1>20. CASE EndMacro(t)
  <2>1. macro # <<>> /\ macros' = Append(macros, macro[1]) /\ macro' = <<>> /\ expect' = "endm"
        /\ UNCHANGED <<row, number, rows, lines>>
    BY <1>3, <1>20 DEF EndMacro, Expect
  <2>2. PICK m \in MacroType : macro = <<m>>
    BY <1>4, <2>1 DEF IsMacro
  <2>3. macros' \in Seq(MacroType)
    BY <1>4, <2>1, <2>2
  <2>4. QED
    BY <1>4, <2>1, <2>3 DEF RowsInv, IsMacro, InHead, InLine
<1>21. QED
  BY <1>6, <1>7, <1>8, <1>9, <1>10, <1>11, <1>12, <1>13, <1>14, <1>15, <1>16, <1>17, <1>18, <1>19, <1>20
  DEF Shift

\* So does every step of the front end.
LEMMA RowsKept ==
  ASSUME IncludeInv, StringInv, NumberInv, RowsInv, [FrontNext]_frontVars
  PROVE  RowsInv'
<1>1. CASE ParseToken
  BY <1>1, ShiftRows, TokenType DEF ParseToken
<1>2. CASE ParseEnd
  <2>1. lines' = rows /\ expect' = "nothing" /\ UNCHANGED <<row, number, macro, rows, macros>>
    BY <1>2 DEF ParseEnd, Accept, Expect
  <2>2. QED
    BY <2>1 DEF RowsInv, IsMacro, InHead, InLine
<1>3. CASE UNCHANGED parseVars
  BY <1>3 DEF parseVars, RowsInv, IsMacro, InHead, InLine
<1>4. QED
  BY <1>1, <1>2, <1>3 DEF FrontNext, FailAtToken, Leave, FailAtEnd, frontVars

FrontInv == IncludeInv /\ StringInv /\ NumberInv /\ RowsInv

\* The four parts are what the type invariant asks.
LEMMA FrontInvSuffices ==
  ASSUME FrontInv
  PROVE  FrontTypeOK
<1>1. TypeOK
  BY IncludeInvSuffices DEF FrontInv
<1>2. Len(number.operators) <= 2
  BY DEF FrontInv, NumberInv, NumberType, Waiting
<1>3. QED
  BY <1>1, <1>2 DEF FrontInv, StringInv, NumberInv, RowsInv, Balanced, FrontTypeOK

\* Nothing has been read.
LEMMA FrontBegins == FrontInit => FrontInv
<1> SUFFICES ASSUME FrontInit PROVE FrontInv
  OBVIOUS
<1>1. /\ condition = "INITIAL" /\ buffer = <<>> /\ expect = "file" /\ number = NoNumber
      /\ macro = <<>> /\ rows = <<>> /\ lines = <<>> /\ macros = <<>>
  BY DEF FrontInit, ScanInit, ParseInit
<1>2. IncludeInv
  BY IncludeInit DEF FrontInit, ScanInit
<1>3. StringInv /\ NumberInv
  BY <1>1, NoNumberType, Expected DEF StringInv, NumberInv
<1>4. RowsInv
  BY <1>1 DEF RowsInv, IsMacro, InLine, InHead, NoNumber
<1>5. QED
  BY <1>2, <1>3, <1>4 DEF FrontInv

\* Each step of the scanner and the parser keeps the four parts.
LEMMA FrontStep == FrontInv /\ [FrontNext]_frontVars => FrontInv'
<1> SUFFICES ASSUME FrontInv, [FrontNext]_frontVars PROVE FrontInv'
  OBVIOUS
<1>1. IncludeInv /\ StringInv /\ NumberInv /\ RowsInv
  BY DEF FrontInv
<1>2. IncludeInv'
  BY <1>1, FrontReads, ReadStepKeeps
<1>3. StringInv'
  BY <1>1, StringKept
<1>4. NumberInv'
  BY <1>1, NumberKept
<1>5. RowsInv'
  BY <1>1, RowsKept
<1>6. QED
  BY <1>2, <1>3, <1>4, <1>5 DEF FrontInv

\* The string is one of characters, the lines and macros are what the stages
\* behind the parser take them for, and the expression that is read has an
\* operand for each operator and one more: an action that reduces finds its
\* two operands, whatever the texts are.
THEOREM FrontTypeCorrect == FrontSpec => []FrontTypeOK
BY FrontBegins, FrontStep, FrontInvSuffices, PTL DEF FrontSpec
=============================================================================
