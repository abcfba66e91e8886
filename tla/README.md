# TLA+ models of the CS8 assembler and emulator

CS8 is a small computer that exists as two programs. `CS8_Assembler` turns a
source file, with includes and macros, into the ELF file `out.elf`;
`cs8_emulator` loads such a file and executes it on a processor, a memory and
a serial port that share a bus. This directory has TLA+ models of both, the
TLC configurations that check them, and proofs that TLAPS checks.

## Inventory

| Part | Source | State | Operations | Model |
|---|---|---|---|---|
| Bus | `cs8_emulator/src/bus.hxx` | data, address, mode, owner | set and get each, own, disown | `CS8Bus` |
| Processor | `cpu.hxx` | 16 registers, `rtmp2`, `rip`, instruction latches, phase | one phase of `simulate()` | `CS8Cpu` |
| Memory | `memory.hxx` | array of words | answer a read, a write | `CS8Memory` |
| Serial port | `serial_port.hxx` | none (the streams of the terminal) | `getchar()`, `printf()` | `CS8SerialPort` |
| Main loop, loader | `main.cxx`, `devices.hxx` | list of devices | load, simulate a round | `CS8Emulator` |
| Source reading | `cs8_assembler.cxx`, `cs8_asm.l`, `cs8_asm.y` | stack of files, stack of directories, working directory | open, include, end of file, fail | `CS8Include` |
| Scanner | `cs8_asm.l` | start condition, string so far, place in the file | one per rule | `CS8Scanner` |
| Parser | `cs8_asm.y` | what it expects, the line, the expression and the macro it is in | shift a token with the actions it causes | `CS8Parser` |
| Front end | `yyparse()` and `yylex()` | both of the above | scan, parse, leave a file, fail | `CS8Frontend` |
| Syntax tree | `Ast.h` | lines, macro definitions | - | `CS8Ast`, `CS8Stages` |
| Macro expander | `MacroExpander.cpp` | the list of lines, place in it, count | skip, replace, new pass | `CS8Macros` |
| Instruction set of the assembler | `AsmTree.h` | - | length and bytes of each instruction | `CS8Encoding` |
| Tree transformer | `AsmTreeTransformer.cpp` | tree, position of each section, labels | translate, number, resolve | `CS8Nodes`, `CS8Transformer` |
| Tree emitter | `asm_tree_emitter.cxx` | sections with bytes, symbols, entry | one per node and directive, save | `CS8Emitter` |
| Driver | `cs8_assembler.cxx`, `main.cpp` | stage | `assemble()` | `CS8Assembler`, `CS8Toolchain` |
| ELFIO | git submodule, not in the source | - | - | external |

**How they interact.** The devices of the emulator see each other only through
the bus. `main()` calls `simulate()` on the processor, the memory and the port,
in this order, once a round, and nothing but the order makes an answer arrive
before the processor looks for it. In the assembler the parser calls the
scanner for one token at a time and acts on it before the next one is scanned.
The stages behind it run one after another and hand over data structures: lines
from the parser to the expander, lines to the transformer, nodes and the label
map to the emitter, and a file to the emulator.

**What is hard.** Both programs have one thread, and nothing is persisted but
`out.elf`. What is hard to test is of other kinds:

* *The bus and the phases.* Two cases of the processor's switch end without a
  `break`. `Load1` runs on into `Execute`, and `Execute` runs on into `Store0`
  for every instruction that is not a store: the bus goes to Write with what an
  earlier phase left on it. We call it the *ghost write*. It is harmless only
  because of what the bus carries at that moment. Requests have side effects at
  the port; latches are stale; an address without a device reads as what was on
  the bus before; the last address of the memory has no word.
* *Independent walks that must agree.* The transformer computes addresses by
  adding lengths, the emitter by appending bytes, and the emulator has its own
  table of opcodes.
* *Order.* The definition of a macro that counts, the lines of a body that are
  inserted into the list that is being walked, symbol directives that act on
  what earlier ones did.
* *Global state of the process.* The scanner changes the working directory and
  must give it back, on every way out. Its start condition and its string
  buffer are global too, and last from one file into the next.
* *Errors in the middle.* The parser rejects, throws or traps at any token,
  with files open and operands waiting.
* *Termination.* Of an instruction, of the expansion, of nested includes.

`PROJECT.json` lists every hazard at its line with the properties that cover it.

**What makes each part correct.** The processor: registers keep their width and
the latches index within bounds; only stores change memory; each request is
seen once; an instruction ends and has the effect that the instruction set
gives it. Source reading: an include is looked up from where it is written, its
text comes in its place, and the caller has its directory back. Scanner and
parser: the tree is what the text means, and no text of the language is
rejected. The expander: the result is the program with every invocation
unfolded. Transformer and emitter: a label has the address of the byte emitted
next, operands reach their labels, the symbol table has every label. Together:
the processor decodes what the program says.

## The modules

### Emulator

* `CS8Words`: bytes, words and registers with their widths, the conversions
  between them, C++'s truncating division, and bitwise conjunction.
* `CS8Bus`, `CS8Memory`, `CS8SerialPort`, `CS8Cpu`: one per device, the state as
  the fields of the class. In `CS8Cpu` an action is the whole path through the
  switch from one call of `simulate()` to its return, so `Load1` contains
  `Execute` and every instruction but a store and a halt contains `Store0`
  (`DriveStore`). `getchar()` returns any of `Characters`, which includes EOF.
* `CS8Emulator`: composes them. `dev` is the device whose turn it is, `process`
  what became of the process. `Exit` is the end of the loop, `Abort` the
  exception of `std::array::at` and the trap of a division by zero.
* `CS8ISA`: what the emulator promises. One step per instruction; no bus, no
  phases.
* `CS8Retirement`: the refinement mapping from `CS8Emulator` to `CS8ISA`.
  `rip` is taken back to the start of the instruction until it retires, and a
  write that is on the bus but not answered is shown as done.

### Assembler, front end

* `CS8Include`: a file is a sequence of texts and includes. `cwd` is the working
  directory of the process, `cwds` the scanner's list, `buffers` flex's stack.
  The parser may fail at any time here.
* `CS8Scanner`: the rules of `cs8_asm.l`. A file is a sequence of lexemes, cut
  wherever the scanner could cut it; which rule takes one depends on the start
  condition. A rule that returns nothing is an action of its own (`ScanQuietly`),
  the ones that return a token are `Return`.
* `CS8Parser`: the grammar of `cs8_asm.y`. `expect` stands for the state of the
  automaton, `Shift` is a token with every reduction and action it causes, and
  `Verdict` says what becomes of a token: it is shifted, the program exits
  (`yyerror()`), throws, or traps (a division by zero in the action). `/` has no
  precedence: Bison splits its stack at a division next to another operator and
  gives up when the two stacks meet.
* `CS8Frontend`: composes the two. An error ends the reading before a file
  behind it is opened.
* `CS8Language`: what a text means, without a scanner that moves or a parser
  that shifts: which stretch of a text is a string, a comment or an include,
  what each newline, colon and comma ends, which macro is open at a line, what the
  terms of an expression come to. It is the reference
  for the front end, which also refines `CS8Include` (`ImplementsInclude`): its
  `Disk` is the same texts as items, and a place in a file is the number of
  items that have been read.

### Assembler, from the tree on

* `CS8Ast`: records for lines and parameters. A program (`Sources`) is what the
  parser built. `CS8Stages`: what the stages hand to each other.
* `CS8Macros`: a line per step. An invocation is *redacted* in place and removed
  by `cleanup()` in the code; nobody looks at redacted lines in between, and the
  model drops them at once.
* `CS8Encoding`, `CS8Nodes`, `CS8Transformer`: translation of all lines is one
  step (it changes nothing that could be seen when it throws), numbering a step
  per node, resolution one step. The arguments of a directive are strings in the
  code; in the model an argument has a number or a name, so that a number in the
  place of a name is the empty name.
* `CS8Emitter`: a step per node, then the static symbols, then the file. A
  `stoi()`, `stoull()` or `at()` that throws is `EmitThrows`, one disjunct for
  each call. `out.elf` is truncated before (`OpenOutput`).
* `CS8Assembler`: composes them; `stage` is where `assemble()` is. No exception
  is caught, so each ends the process (`"terminated"`), as does a failed
  assertion (the repository's run configuration builds with Debug).
* `CS8Translation`: what assembling promises. Which programs have a file, and
  which bytes and symbols it has, each said by the lines in front of it.
  `ImplementsTranslation` is that the passes and walks come to it.
* `CS8Toolchain`: the front end reads a text, the assembler goes through its
  stages on the tree, the emulator is started on `outfile` and runs. The front
  end and the emulator are instances, `F` and `E`, of the modules with the
  proofs about them. `ExecutesProgram` speaks of a file that can be loaded
  (`Loadable`: each section has its segment, and its place in the memory to
  itself) and of an instruction that the program has not overwritten (`Intact`).

Operators under a comment "Mutant:" are plausible bugs; no specification uses
them. `PROJECT.json` names for each property a mutant that breaks it.

## Runs

| Run | Configuration | Shows |
|---|---|---|
| emulator | `MCEmulator.cfg` | 215,011 states. All invariants and action properties of `CS8Emulator`, `EveryInstructionEnds`, and `ImplementsISA` |
| frontend | `MCFrontend.cfg` | 10,833 states. `ParsesAsWritten`, `RejectsOnlyErrors`, the properties of the include stacks for the scanner and the parser, `ReadingEnds`, and `ImplementsInclude` |
| include | `MCInclude.cfg` | 7,078 states. `StacksMatch`, `FromOwnDirectory`, `DirectoryRestored`, `IncludedInPlace`, `ReadingEnds` with a parser that may fail anywhere |
| assembler | `MCAssembler.cfg` | 161,978 states. `ExpansionCorrect`, `LabelPlaced`, `OperandsReachLabels`, `SymbolTable`, `AssemblyEnds`, and `ImplementsTranslation` |
| toolchain | `MCToolchain.cfg` | 55,863 states. From the text to the terminal: `ExpansionCorrect` says that the tree which is read from the text is the one the program was written down as, `ExecutesProgram` that the processor decodes it, and the example `test1.cs8s` prints its message and halts |
| push_register, pop_register, store_indexed | `PushStoresRegister.cfg`, `PopLoadsRegister.cfg`, `StoreIndexedUsesBase.cfg` | violated: the code differs from the opcode table of `cs8_doc/cs8.org` |
| skip_label, secinfo_label | `SkipMovesLabels.cfg`, `SecinfoMovesSection.cfg` | violated: labels without the address of what they label |
| recursive_macro | `RecursiveMacro.cfg` | violated: the expansion does not end |
| division | `DivisionSplits.cfg` | violated: `8/2+1` ends the assembler, although the grammar gives a quotient a precedence |

The seven violated runs are findings; `PROJECT.json` quotes the lines. The
conditions of `LabelPlaced` (a section that both walks know by its name, no
`.skip` before) are exactly the two that the findings show to be needed, and
that `flat` is not emitted unless the program opens it.

### Bounds

* `MCEmulator`: a memory of 20 words with a 21st address that has none, as in
  `main.cxx`; the port's two addresses behind it, then nothing. Programs are a
  setting of one of seven registers to one of four values (1, the last word, the
  port, -1) and one of 28 instructions; all pairs of instructions after a stack
  pointer was set; and a file with overlapping segments and negative bytes.
  Every opcode meets every device, the hole and the open bus, with fresh and
  with stale latches. `MaxStdin = MaxStdout = 2`, enough for an instruction that
  uses the port twice. Characters: a key, one that is negative as a char and
  whose low bits are an opcode, and EOF.
* `NearDevices` is a state constraint: a program that runs away over open
  addresses executes the same `limm 0` until `rip` wraps. A few are explored.
* `FirstInstructions` does the same for the three documentation runs.
* `MCFrontend`: 24 snippets of text, which are every kind of statement and
  argument, every way to leave a construct open at the end of a file, and an
  include of a file that includes another one and ends in the middle of a line.
  Programs are all pairs, snippets around an include, snippets inside a macro,
  and one whole program; and every expression of up to four operands, which is
  one more than can wait. Constructs are left open before an include and at
  the end of the main file; the included files close what they open, as
  otherwise the items of a file would depend on what was read before it.
  `MCTexts` makes lexemes of strings. `MaxOpen = 4`.
* `MCInclude`: up to two items in the main file, or three with the macros in the
  middle; nesting three deep and, for the file that includes itself, up to
  `MaxOpen` = 6 open files, which stands for the limit of the process.
* `MCAssembler`: three lines from a pool of 19 behind the sections' definitions,
  two lines behind other openings, and 16 kinds of mistake, with a doubly
  defined macro, one that invokes another, one that uses an unknown parameter
  and one with a directive. Two sections, one of which begins just below 0x10000
  so that addresses leave sixteen bits. Three lines suffice for a label between
  the two things that move it and for a symbol directive before and after
  another one.
* `MCToolchain`: the text of the repository's example, with the linker file and
  the macros it includes, and a text for every instruction with every register
  and several operands. The message is shorter, the data is at 64 and the port
  at 96 instead of 0x1000 and 0x2000.

### Fairness

Each program is one thread in a loop, so weak fairness of its next-state
relation is all that is assumed: it does not stop while it can go on. The
terminal is not assumed to answer: `EveryInstructionEnds` allows for a port that
blocks, which the model's bounds on the streams make happen.

`CHECK_DEADLOCK FALSE` is in the configurations because programs end: exited,
aborted, blocked on the terminal, written, terminated, parsed or refused.

## Proofs

Seven modules of proofs, `CS8...Proofs`, and the facts about lists that those
about the assembler and the front end share, `CS8Lists`, are checked by TLAPS. They assume what
the modules state about their constants, which TLC evaluates for the instances:
devices have sixteen-bit addresses and do not overlap, the port has an address,
the segments of a program fit (`MemoryAssumption`, `SerialAssumption`,
`AddressMapAssumption`, `PortAssumption`, `ProgramsAssumption`); directories and
files are finite (`IncludeAssumption`); a lexeme is not empty and has a name
(`ScannerAssumption`); a program is made of what the parser makes
(`SourcesAssumption`); and the order of the sections in the file is a list of
names (`SectionOrderAssumption`), which stands for the order of `std::map`. For the whole, these of the parts are
`MachineAssumption` and `ReaderAssumption`; the first one adds what `main()`
gives the memory: addresses from 0 on, and not more words than addresses. They
hold for every size of memory, address map, set of
programs, and every disk.

| Theorem | Of | Says |
|---|---|---|
| `TypeCorrect`, `IndicesCorrect`, `ModesCorrect`, `BusCorrect`, `MemorySafety`, `EchoCorrect`, `OpenBus`, `OneStrobe`, `ShadowCorrect` | emulator | each safety property of the run `emulator` |
| `Refinement` | emulator | `Spec => ImplementsISA` |
| `IncludeTypeCorrect`, `StacksCorrect`, `LookupCorrect`, `CallerDirectory`, `IncludedCorrect` | include | each of its invariants |
| `FrontTypeCorrect`, `FrontStacksCorrect`, `FrontLookupCorrect`, `FrontCallerDirectory` | front end | the same for the scanner and the parser on any text |
| `ParsesCorrect` | front end | `FrontSpec => []ParsesAsWritten` |
| `ReadsItems` | front end | `IncludesClose => (FrontSpec => ImplementsInclude)` |
| `AssemblerTypeCorrect`, `LabelsCorrect`, `SymbolsCorrect`, `OperandsCorrect`, `ExpansionIsCorrect` | assembler | each of its invariants |
| `AssemblerTranslates` | assembler | `Spec => ImplementsTranslation` |
| `ProgramExecuted` | toolchain | `ToolSpec => []ExecutesProgram` |

**Emulator** (`CS8EmulatorProofs`). The inductive invariant is
`IInv == TypeOK /\ ModeByPhase /\ IndicesInBounds /\ BusShowsMemory`.

* `TypeOK` alone is not inductive: a transfer writes `registers[rR1]`, and that
  `rR1` is a register was settled by `Prepare`, which is what `IndicesInBounds`
  remembers; that a `Load0` has an opcode that loads is needed for its address.
* `OnlyStoresWrite` needs `BusShowsMemory`: at a ghost write the bus shows the
  word of the memory at the address, so writing it back changes nothing. This in
  turn needs `ModeByPhase`, to know that no other phase writes.
* `EchoOnlyInput` has the invariant `PortShowsInput`: when a ghost write meets
  the port, the bus shows the character that the instruction has just read.
* `OpenBusFetchesZero` needs that `Store1` cleared the bus at the end of the
  instruction before, and has an invariant of its own in the proof.
* `TmpShadow` and `StrobeOnce` follow from `IInv` step by step.

**The instruction set** (also in `CS8EmulatorProofs`). The abstract machine reads a
whole instruction at once, the processor byte by byte over many rounds. The
invariant `History` says what connects them: there is an address p and there are
words u, v and w that the memory, the port or the open bus answers at p and
behind it; `rip` is where the phase has come to from p, the latches hold the
bytes of the words that have been read, and the bus shows the last one, or as
much of the answer as the devices have had their turn for. `StepRefines` goes
through the steps: fetching, decoding and the devices' turns stutter, but a
request of an address that the memory claims and does not have is the `Fault`; a
ghost write keeps the mapped memory by `BusShowsMemory`; the step that leaves
`Execute`, `Load1` or, for a store, `Store0` is the action of the instruction;
and the trap of a division is the other `Fault`. From the same invariant follows
`ExecutesBytes`: where the memory holds the bytes of one instruction, the
processor that executes there has that instruction in its latches, whatever it
has executed before.

**Includes and the front end** (`CS8FrontendProofs`).
`FromOwnDirectory` speaks of the innermost file. After the end of an include it
speaks of what was below, so it is inductive only with `StacksMatch`, which says
that the directories match the files at every level. `PushLevels` and
`PopLevels` are the two steps. The invariant is proved for a *reader*, of which
the steps are: move on in a file, enter one, leave one, fail. `FrontReads` shows
that each step of the scanner and of the parser is one of these, so that the
invariant carries over. `FrontTypeOK`, which has the types of the lines and
macros that the assembler takes for granted, needs three more: that the string
buffer holds bytes, also behind a backslash; `RowsInv`, which says in which states of
the parser there is a line or a macro to add to; and `NumberInv`, which says that between
tokens there is an operand more than operators where one may follow, as many
where an operand must, and that the precedences of the waiting operators
increase, so that two are the most.

`IncludedInPlace` says what the stacks are for: the parser gets `Spliced`, the
text in which include lines stand for files, replaced `MaxOpen` times over. The
scanner never replaces anything. `IncludedInv` accounts for what it has read:
there is a list `done` that the parser has the text of, and whenever what is
left, the unread rest of every file on the stack (`Remaining`), comes to an end
after d replacements, the whole file comes to `done` and that end after as many
more as files have been entered (`Reads`). A text moves from what is left to
`done`; an include is replaced in what is left (`ReadsInclude`, which needs that
two lists unfold independently and `FromOwnDirectory` for the file); the end of
a file takes nothing away. At the end nothing is left, and as no more than
`MaxOpen` files were opened, so many replacements are enough.

**The parser** (`CS8LanguageProofs`). `ParsesAsWritten` is about the whole text, at
its end; the parser has one token at a time and keeps what it needs in `row`,
`number`, `macro` and `rows`. `ParseInv` says in every state what these have to do
with the text so far.

* `CurInv`: what is behind the last newline or colon (`Cur`) is, up to where
  `expect` says the parser is, a line whose arguments read so far are the
  parameters in `row` (`ArgsRead`), or the head of a macro whose names are in
  `macro` (`HeadRead`).
* Within an expression the operators and operands that wait are of few shapes, and
  each is told what it stands for in the terms that `TermsOf` sums up from the
  left (`Stands`, `Awaits`): `x + y * z` waits where the sum in front is x and the
  last term y * z. That reduction by precedence comes to the same value
  (`OperatorNext`, `NumberEnd`) holds because no two operators of the same
  precedence wait; a quotient stands alone or the stack splits, of which `CurInv`
  says nothing, as such an expression is never reduced.
* `StatementInv`: the statements in front are where they may be, `rows` are the
  lines of those in no macro, `macros` are the macros that have ended, and `macro`
  is the one that is open with its lines so far (`Stated`). In the state behind
  `.endm` the macro is in the tree already, although its statement has not ended.

`EndedMore` says what one token more does to a text that is cut behind certain
tokens, for the arguments as for the statements; `StatementAdded` what one
statement more does to the lines and macros. `ShiftCur` and `ShiftStatements` go
through the actions of the parser. The types that `NumberInv` and `RowsInv` give
are needed throughout.

**The scanner** (`CS8ReadingProofs`). `CS8Include` reads items, of which `CS8Language`
cuts a file in advance: which backslashes are taken along is counted from the
beginning of a string, where a string ends is the first quote that is not taken
along. The scanner looks one lexeme ahead. `ItemsInv` keeps an *account* of the
innermost file: the items `a` that have been read, followed by what remains of it
under the start condition (`Remains`), are the items of the file.

* What remains depends on the start condition: outside of strings it is what the
  file has from this place on; in a string that began at q, of which `buffer` has
  been collected, it is the string with those codes and the ones up to its end,
  and what is behind it; in a literal, the characters up to its end; behind
  `.include`, the item with the name that is still to come.
* `Contents` is a recursive function, that goes from each place to the end of what
  begins there. That it exists (`FollowExists`), and what it is at each place
  (`KnownAll`), is shown by induction from the end of the file backwards, with
  `Upward` of `CS8Lists`.
* One lemma for each rule of `cs8_asm.l` says that it leaves what remains
  (`EatsBlanks` to `GrowsString`) or takes its first item (`ReturnsLine` to
  `ReturnsCharacter`, `IncludeItemOn`). The items read are those that end in front
  of the scanner (`PlaceIs`), which is the refinement mapping.
* The files that wait are outside of strings (`Lower`): they were left at an
  include, and the file above them is, at its end, outside of strings too. This is
  where `IncludesClose` is needed: no file that is included ends in a string, a
  literal or behind `.include`. It is a hypothesis about the texts, not a fact of
  the code: flex has one start condition for all files, and what an included file
  leaves open goes on behind the include, so that without it the theorem is false.
  The program itself may leave open what it likes. The instance satisfies it
  (`MCIncludesClose`).

That a step of the scanner and the parser which throws, exits or traps is one of
`CS8Include` as well is in `TokenMaps` and `FailMaps`.

**Expansion** (in `CS8TranslationProofs`). `ExpandMacros` walks over a list that it
changes; `FullExpansion` unfolds all lines as often as there are macros.
`ExpandInv`: the lines in front of the iterator are what the first lines of some
depth unfold to, the ones from it on are the rest of that depth, and `replaced`
is zero if and only if none of the first lines is an invocation (`AtPass`). A
pass that replaces nothing has so found a depth at which nothing is invoked. That this is no deeper
than there are macros (`DeepEnough`) is a pigeonhole: an invocation at a depth
has a `Trail` of the macros it came through, a longer one meets a macro twice,
and then the invocations would never end. Looking for this proof showed that
the model of `UnfoldLine` put arguments into labels in a body too, which the
code does not; it has been corrected.

**Assembler** (`CS8AssemblerProofs`). `TypeInv` types lines, nodes, arguments,
sections and the label map; that the body of a macro is a list of lines needs
that `Max` of the definitions is one of them, and that the flattened arguments
are arguments is shown by a least counterexample, as the folds of the library
admit no induction. `PlaceInv` connects the two walks: there is a record `hs`,
`hc` of the positions and the current section that the first walk had in front
of every node (`Walked`), and the second walk, at a node, has the same current
section, and in every shared section as many bytes as the record says
(`Follows`). Resolution keeps the record because an operand that is put in takes
no more bytes (`WalkedResolved`). A section that `.secinfo` creates has no name
and is not shared. `SymbolInv` says that in front of a node the symbols are
those that a directive before it names, with the label's address unless one of
them was `.extern` (`SymbolsAt`); at the end, `insert()` leaves them alone.
`OperandInv` is about bytes that have been emitted: whatever the node that is
emitted next, the operand of every instruction before it that names a label of a
shared section is in the bytes where `OffsetAt` says (`Emitted`), a section has as many as its nodes come to (`Totals`), and no step
takes a byte away (`Grows`, `StoredStays`). With `PlaceInv`, which gives the
operand its value, a reference to a label reaches it (`OperandsCorrect`).

**The translation** (`CS8TranslationProofs`). `CS8Translation` says of each byte
and symbol of `out.elf` what it is, by the lines in front of it and without
passes; the assembler walks three times over tables that it changes. The proof is
for every set of programs and in both directions: the assembler opens the file
only for programs that can be expanded, translated and numbered, writes it only
for those that can also be emitted, with the segments, symbols and entry that
`Image` says; and where it throws, fails an assertion or ends, the lines are to
blame. `TranslationInv` says for each stage what the tables have to do with
`Program`, the nodes that the source comes to:

* while the labels are numbered (`NumberedTo`), the positions of the sections and
  of the labels are what the nodes in front of this one count for; the sums are
  recursive functions of the node, so the invariant speaks of any function that
  grows as they do (`Counts`), which the library's lack of induction over data
  requires;
* after the resolution (`Resolved`, `Placed`), each node has its final operand and
  each label the address of its last definition;
* while nodes are emitted (`EmittedTo`), each section has the bytes of the nodes
  in front (`SectionsTo`), each symbol is as the first directive made it and the
  later ones bound it (`SymbolsTo`), and the entry is the last one given
  (`EntryTo`); and every node in front is one that the translation emits;
* before the file is saved (`ReadyToSave`), the static symbols are there too, so
  that the table has all of `Symbols`.

It rests on `ExpandInv`, for the lines, on `SymbolInv` and on `OperandInv`, for
the types of what is emitted. Each error needs a converse: `NodeNumbered` and
`NodeEmitted` show that a node over which a walk gets is sound, `NotNumbered` and
`ThrowsCannotEmit` that one where it throws is not. Planning this proof showed
that `Expands` in `CS8Translation` was wrong: it looked less deep than there are
macros, so that a recursive program with an invocation that does not fit further
down counted as sound, although the assembler dies when it gets there. Now an
invocation that is left at that depth, which is one of a recursion, is enough.

**The whole** (`CS8ToolchainProofs`). `ToolInv` says which part has its invariant
when, and what is handed over: while the parser reads, `FrontInv`, from which the
lines are those that the assembler takes (`ReaderLines`); from then on the
assembler's `TypeInv`, `PlaceInv` and `OperandInv`; when the file is written, its
segments are the sections (`SegmentsOfSections`); until the emulator is started
it is as it begins, and then `IInv` and `History` hold, for a memory loaded from
any segments of bytes (`MachineLoads`). `ProgramExecuted` then follows the bytes
of one instruction: the emitter has stored them in the section (`OperandInv`),
the loader takes each cell from the one segment that covers it (`LoadedByte`), so
that the memory holds them where the instruction was placed (`HoldsInstruction`);
they are the bytes of one instruction, and cut again by the processor they give
the case of the switch, the registers and the operand of that line
(`BytesMean`), although assembler and emulator share no table; and `ExecutesBytes`
says that the processor executes what the memory holds. For a program that
overwrites the instruction, or sections that overlap, nothing is claimed.

**Lists** (`CS8Lists`). `FlattenSeq` is recursive, and what a recursive function
computes is not to be had from the library's induction theorems. `Least` and
`Upward` are induction over a set of numbers, by the least counterexample;
`FlattenConcatenates` shows with them that `FlattenSeq` is the concatenation of
its lists, and the lemmas behind it are what the parts above need of it.

**Model-checked only.** Liveness (`EveryInstructionEnds`, `AssemblyEnds`,
`PrintsMessage`, `ReadingEnds`) is beyond the prover. `RejectsOnlyErrors` is the one
safety property without a theorem: it speaks of what the parser has not seen yet,
the items of all files behind the error, and needs, on top of `ReadsItems`, that no
continuation of the text makes a program of it, state by state of the parser. They
are checked on the instances.

## Observations

What the models made plain, and the repository says nothing about:

* A text that ends in an open string or behind `.include` is accepted without
  what is open: there is no rule for the end of a file in these start
  conditions. As the start condition outlives the file, an included file that
  leaves a string open swallows what follows the include. `RejectsOnlyErrors`
  speaks of programs that close what they open, and `ImplementsInclude` is checked
  and proved for programs whose included files do (`IncludesClose`).
* `.include b;x` looks for a file called `b;x`.
* A label in the body of a macro is a syntax error; so is the comma in
  `.macro ld, val, reg` (`src/cs8_programs/macros.cs8s:1`).
* `.define` is scanned and in no rule of the grammar; the constants that
  `[name]` refers to are never filled, so that each reference throws.

## Not modelled

* `AstMemoryManager`, including the byte that `copy_string()` writes behind its
  buffer: undefined behaviour that no property of the text depends on.
* Printing of trees, and `emit_binary()` of the nodes, which nobody calls.
* The ELF library: what is asked of it is in the state `outfile`; that it
  validates and saves is assumed.
* A segment that does not fit into the memory: the copy is unchecked and its
  behaviour undefined.
* The failing `weak_ptr` of `BusDevice`, which `main()` rules out.
* Numbers beyond an int in the source, and the depth of Bison's stack.
* A second parse in the same process, which would find the globals of the
  scanner as the first left them: the program parses once.
