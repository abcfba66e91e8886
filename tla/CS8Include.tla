----------------------------- MODULE CS8Include -----------------------------
(***************************************************************************)
(* Reading the program (invoke_parse() in cs8_assembler.cxx, parse() in    *)
(* cs8_asm.y and the .include rules of the scanner cs8_asm.l).  A file may *)
(* include others.  The scanner keeps a stack of buffers, and the process  *)
(* changes its working directory to that of the file it reads, so that     *)
(* includes are found from where they are written; a second stack, cwds,   *)
(* remembers the directories to go back to.                                *)
(*                                                                         *)
(* A directory is the sequence of the names from the root.  A file is a    *)
(* sequence of items, each of which is a path to include or some text; the *)
(* flex library (buffers, yyin) is external.  The parser may fail at any   *)
(* time; CS8Frontend refines this module and says when it does.            *)
(***************************************************************************)
EXTENDS Naturals, Sequences, FiniteSets, SequencesExt

CONSTANTS
  Disk,                   \* the files: [dir, name] -> items
  Inputs,                 \* what the assembler may be started with: paths
  Home,                   \* the directory it is started in
  MaxOpen                 \* files the process may have open

\* A directory and a file are finite sequences.
ASSUME IncludeAssumption ==
  /\ \A f \in DOMAIN Disk : /\ f.dir \in Seq(Range(f.dir))
                            /\ Len(Disk[f]) \in Nat /\ DOMAIN Disk[f] = 1 .. Len(Disk[f])
  /\ MaxOpen \in Nat

\* A path that is relative to a directory unless it is absolute.
Path(absolute, dirs, name) == [absolute |-> absolute, dirs |-> dirs, name |-> name]
Text(t) == [text |-> t]
Include(path) == [include |-> path]
IsInclude(item) == "include" \in DOMAIN item

VARIABLES
  status,                 \* where invoke_parse() is
  input,
  cwd, cwds,              \* the working directory and those to go back to
  buffers,                \* the stack of files being read, the innermost first
  opened,                 \* the number of files opened and not closed
  text                    \* what the parser has got

readVars == <<status, input, cwd, cwds, buffers, opened, text>>

Init ==
  /\ status = "start" /\ input \in Inputs
  /\ cwd = Home /\ cwds = <<>> /\ buffers = <<>> /\ opened = 0 /\ text = <<>>

-----------------------------------------------------------------------------
\* The directory of a path as seen from dir, and the file it names.
Parent(dir, path) == IF path.absolute THEN path.dirs ELSE dir \o path.dirs
File(dir, path)   == [dir |-> Parent(dir, path), name |-> path.name]

\* Mutant: there is always room for one more file.
OpenableAlways(f) == f \in DOMAIN Disk

Openable(f) == f \in DOMAIN Disk /\ opened < MaxOpen
Directories == UNION {{SubSeq(f.dir, 1, n) : n \in 0 .. Len(f.dir)} : f \in DOMAIN Disk}

Buffer(f) == [file |-> f, at |-> 1]
Top  == buffers[1]
Rest == Disk[Top.file]
Item == Rest[Top.at]

\* current_path() throws outside of the try block: for a file name without a
\* directory the parent path is empty, and there is no such directory.
NoDirectory ==
  /\ status = "start"
  /\ \/ ~ input.absolute /\ input.dirs = <<>>
     \/ Parent(cwd, input) \notin Directories
  /\ status' = "terminated"
  /\ UNCHANGED <<input, cwd, cwds, buffers, opened, text>>

\* The file is opened by its whole path after the change of directory.
OpenInput ==
  /\ status = "start"
  /\ input.absolute \/ input.dirs # <<>>
  /\ Parent(cwd, input) \in Directories
  /\ LET f == File(Parent(cwd, input), input) IN
     IF Openable(f)
     THEN /\ status' = "reading" /\ cwd' = Parent(cwd, input)
          /\ buffers' = <<Buffer(f)>> /\ opened' = opened + 1
     ELSE status' = "refused" /\ UNCHANGED <<cwd, buffers, opened>>
  /\ UNCHANGED <<input, cwds, text>>

Reading   == status = "reading" /\ Top.at <= Len(Rest)
MoveTo(p) == [buffers EXCEPT ![1].at = p]
NextItem  == MoveTo(Top.at + 1)

ReadText ==
  /\ Reading /\ ~ IsInclude(Item)
  /\ text' = Append(text, Item.text)
  /\ buffers' = NextItem
  /\ UNCHANGED <<status, input, cwd, cwds, opened>>

\* Mutant: the directory is changed before it is remembered.
EnterIncludeRemembersLate(path, p) ==
  /\ Openable(File(cwd, path))
  /\ buffers' = <<Buffer(File(cwd, path))>> \o MoveTo(p)
  /\ cwds' = <<Parent(cwd, path)>> \o cwds
  /\ cwd' = Parent(cwd, path)
  /\ opened' = opened + 1
  /\ UNCHANGED <<status, input, text>>

\* The file is pushed; the one that includes it goes on at p.
EnterInclude(path, p) ==
  /\ Openable(File(cwd, path))
  /\ buffers' = <<Buffer(File(cwd, path))>> \o MoveTo(p)
  /\ cwds' = <<cwd>> \o cwds
  /\ cwd' = Parent(cwd, path)
  /\ opened' = opened + 1
  /\ UNCHANGED <<status, input, text>>

ReadInclude == Reading /\ IsInclude(Item) /\ EnterInclude(Item.include, Top.at + 1)

\* Mutant: the directory is left as the scanner had it.
RefuseStays ==
  /\ status' = "refused" /\ opened' = opened - 1
  /\ UNCHANGED <<input, cwd, cwds, buffers, text>>

\* An exception of the scanner or the parser ends in invoke_parse(), which
\* closes the input file and goes back to the directory it came from.
Refuse ==
  /\ status' = "refused" /\ cwd' = Home /\ opened' = opened - 1
  /\ UNCHANGED <<input, cwds, buffers, text>>

\* Mutant: the scanner waits for the file to appear.
NoIncludeWaits ==
  /\ Reading /\ IsInclude(Item) /\ ~ Openable(File(cwd, Item.include))
  /\ UNCHANGED readVars

NoInclude == Reading /\ IsInclude(Item) /\ ~ Openable(File(cwd, Item.include)) /\ Refuse

\* The process ends within the parser: yyerror() calls exit(), and a division
\* by zero is a signal.
Die(s) == status' = s /\ UNCHANGED <<input, cwd, cwds, buffers, opened, text>>

ParserFails == status = "reading" /\ (Refuse \/ Die("exited") \/ Die("terminated"))

EndOfFile == status = "reading" /\ Top.at > Len(Rest)

\* Mutants: the rest of the including file is lost; its directory is.
EndIncludeDrops ==
  /\ EndOfFile /\ cwds # <<>>
  /\ cwd' = Last(cwds) /\ cwds' = <<>>
  /\ buffers' = <<Last(buffers)>>
  /\ UNCHANGED <<status, input, opened, text>>

EndIncludeStays ==
  /\ EndOfFile /\ cwds # <<>>
  /\ cwds' = Tail(cwds)
  /\ buffers' = Tail(buffers)
  /\ UNCHANGED <<status, input, cwd, opened, text>>

\* The end of a file that another one included.  The file stays open.
EndInclude ==
  /\ EndOfFile /\ cwds # <<>>
  /\ cwd' = Head(cwds) /\ cwds' = Tail(cwds)
  /\ buffers' = Tail(buffers)
  /\ UNCHANGED <<status, input, opened, text>>

EndInput ==
  /\ EndOfFile /\ cwds = <<>>
  /\ buffers' = Tail(buffers)
  /\ status' = "parsed" /\ cwd' = Home /\ opened' = opened - 1
  /\ UNCHANGED <<input, cwds, text>>

Progress ==
  \/ NoDirectory \/ OpenInput
  \/ ReadText \/ ReadInclude \/ NoInclude
  \/ EndInclude \/ EndInput

Next == Progress \/ ParserFails

Spec     == Init /\ [][Next]_readVars
\* One thread reads.  That the parser fails is not to be relied upon.
FairSpec == Spec /\ WF_readVars(Progress)

-----------------------------------------------------------------------------
\* How reading ends: with the program, with an exception that was caught, with
\* exit(-1), or with an exception nobody catches or a signal.
Ends == {"parsed", "refused", "exited", "terminated"}

TypeOK ==
  /\ status \in {"start", "reading"} \union Ends
  /\ input \in Inputs
  /\ \A i \in DOMAIN cwds : cwds[i] \in Directories
  /\ \A i \in DOMAIN buffers : /\ buffers[i].file \in DOMAIN Disk
                               /\ buffers[i].at \in 1 .. Len(Disk[buffers[i].file]) + 1
  /\ opened \in 0 .. MaxOpen

\* The two stacks match at every level, one entry of cwds for each file that
\* waits for the one above it.  What the innermost include does with the
\* directory is right only because of what lies below.  (An input that is
\* named by a relative path is looked up twice below it.)
StacksMatch ==
  status = "reading" /\ input.absolute =>
    /\ Len(buffers) = Len(cwds) + 1
    /\ \A i \in DOMAIN cwds : cwds[i] = buffers[i + 1].file.dir

\* An include is looked up from the directory of the file that it is written
\* in, at any depth and also after other includes have come and gone.
FromOwnDirectory == status = "reading" /\ input.absolute => cwd = Top.file.dir

\* The caller finds the working directory as it left it, however the parse
\* went.  (Unless the process dies, cwd is that of the caller at the start.)
DirectoryRestored == status \in {"parsed", "refused"} => cwd = Home

\* What the include lines mean, without stacks: each stands for the items of
\* the file it names, looked up from the directory of the file it is in.
Placed(f) == [i \in DOMAIN Disk[f] |-> [dir |-> f.dir, item |-> Disk[f][i]]]

Splice(placed) ==
  FlattenSeq([i \in DOMAIN placed |->
    IF IsInclude(placed[i].item) THEN Placed(File(placed[i].dir, placed[i].item.include))
    ELSE <<placed[i]>>])

\* The items, after the includes have been replaced that many times.
Splices(f) ==
  LET splice[d \in 0 .. MaxOpen] == IF d = 0 THEN Placed(f) ELSE Splice(splice[d - 1])
  IN  splice

Spliced(f) == LET all == Splices(f)[MaxOpen] IN [i \in DOMAIN all |-> all[i].item.text]

\* The parser gets what the include lines mean.
IncludedInPlace ==
  status = "parsed" /\ input.absolute => text = Spliced(File(Home, input))

\* A file is never closed once another has included it, and that is what
\* ends the reading of a file that includes itself.
ReadingEnds == <>(status \in Ends)
=============================================================================
