---------------------------- MODULE CS8Assembler ----------------------------
(***************************************************************************)
(* The assembler (cs8_assembler::assemble()): the macros of the parsed     *)
(* program are expanded, its lines translated and numbered, and the tree   *)
(* is emitted.  The stages run one after another in one thread; what can   *)
(* go wrong is what one stage assumes of another.                          *)
(***************************************************************************)
EXTENDS CS8Macros, CS8Emitter

asmVars == <<astVars, macroVars, treeVars, emitVars>>

\* The program is one that the parser makes.
ASSUME SourcesAssumption ==
  \A f \in DOMAIN Sources : Sources[f] \in [macros : Seq(MacroType), lines : Seq(LineType)]

ASSUME SectionOrderAssumption == SectionOrder \in Seq(STRING)

Init == AstInit /\ MacroInit /\ TreeInit /\ EmitInit

Next ==
  \/ ExpandMacros /\ UNCHANGED <<treeVars, emitVars>>
  \/ Transform    /\ UNCHANGED <<macroVars, emitVars>>
  \/ Emit         /\ UNCHANGED <<file, lines, macros, macroVars>>
                  /\ UNCHANGED <<tree, sections, current_section, positions>>

Spec     == Init /\ [][Next]_asmVars
\* One thread goes through the stages.
FairSpec == Spec /\ WF_asmVars(Next)
-----------------------------------------------------------------------------
InstructionType ==
  [kind : {"instruction"}, name : STRING, source : 0 .. 15, target : 0 .. 15,
   operand : UWord, label : NameOrNone]

TypeOK ==
  /\ stage \in Stages /\ file \in DOMAIN Sources
  /\ iter \in 1 .. Len(lines) + 1 /\ replaced_macros \in Nat
  /\ \A i \in DOMAIN tree : tree[i].kind = "instruction" => tree[i] \in InstructionType
  /\ node \in 1 .. Len(tree) + 1
  /\ \A s \in DOMAIN sections : sections[s] \in Int
  /\ current_section \in DOMAIN sections
  /\ \A l \in DOMAIN positions : positions[l].section \in DOMAIN sections
  /\ \A s \in DOMAIN out_sections : /\ out_sections[s].data \in Seq(Byte)
                                    /\ out_sections[s].flags \subseteq Flags
  /\ entry \in Int
  /\ outfile.state \in {"old", "empty", "elf"}

-----------------------------------------------------------------------------
\* What all of it promises.
A == INSTANCE CS8Translation WITH ended <- stage \in {"written", "terminated"}

\* The file that is written is the one that the lines of the program say, for
\* all programs that have one; any other program ends the assembler, and
\* out.elf is what it was before, or empty if an error is found that late.
ImplementsTranslation == A!Spec

\* The passes of the expander, which put a body in the place of an invocation
\* while they walk over the list, come to that meaning of the program.
ExpansionCorrect == stage = "translate" => lines = A!FullExpansion(source)

-----------------------------------------------------------------------------
(***************************************************************************)
(* Two walks compute the same addresses: number_labels() by get_length()   *)
(* and the arguments of the data directives, emit_binary() by appending    *)
(* bytes.  They agree in a section that a .section directive has created   *)
(* for both, as long as nothing was skipped.                               *)
(***************************************************************************)
SkipsBefore(k) == \E i \in 1 .. k - 1 : A!IsDirective(tree[i], {"skip"})

\* flat exists for the first walk only, and a section that .secinfo created
\* for the second one has no name.
Shared(section) ==
  /\ section \notin {"flat", ""}
  /\ section \in DOMAIN out_sections /\ out_sections[section].name = section

NextByte == out_sections[out_section].addr + Len(out_sections[out_section].data)

\* A label has the address of the byte that is emitted next.
LabelPlaced ==
  Emitting("label") /\ Shared(out_section) /\ ~ SkipsBefore(node) =>
    Here.section = out_section /\ Here.position = NextByte

\* Where the emitter puts node k: what the nodes before it have emitted into
\* the section that is current there.
SectionAt(k) == A!SectionAt(tree, k)
OffsetAt(k)  == A!OffsetAt(tree, k)

WordAt(section, offset) ==
  256 * out_sections[section].data[offset + 1] + out_sections[section].data[offset + 2]

\* In the file, the operand of an instruction that names a label is the
\* address at which the file has what follows the last line so labelled.
OperandsReachLabels ==
  stage = "written" /\ ~ SkipsBefore(Len(tree) + 1) =>
    \A i, k \in DOMAIN tree :
      /\ tree[i].kind = "instruction" /\ tree[i].label # ""
      /\ tree[k].kind = "label" /\ tree[k].name = tree[i].label
      /\ \A j \in k + 1 .. Len(tree) : tree[j].kind = "label" => tree[j].name # tree[k].name
      /\ Shared(SectionAt(k))
      => WordAt(SectionAt(i), OffsetAt(i) + 1)
         = ToUWord(out_sections[SectionAt(k)].addr + OffsetAt(k))

-----------------------------------------------------------------------------
Named(name, directives) ==
  A!Naming(tree, name, directives) # {}

\* Every label is in the symbol table with its address, hidden unless a
\* directive exports it.  A label that was declared .extern is left out: the
\* declaration makes a symbol without an address, and no later directive
\* gives it one.
SymbolTable ==
  stage = "written" =>
    \A l \in label_scan :
      /\ l \in DOMAIN outfile.symtab
      /\ ~ Named(l, {"extern"}) =>
           /\ outfile.symtab[l].value = positions[l].address
           /\ outfile.symtab[l].visibility
                = IF Named(l, {"global", "weak"}) THEN "default" ELSE "hidden"

\* Whatever the program, the assembler writes the file or dies.
AssemblyEnds == <>(stage \in {"written", "terminated"})
=============================================================================
