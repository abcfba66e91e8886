--------------------------- MODULE CS8Transformer ---------------------------
(***************************************************************************)
(* From the lines of the program to the nodes of the AsmTree (class        *)
(* AsmTreeTransformer).  transform() translates every line, walks the      *)
(* nodes to give each label its address, and walks them again to put the   *)
(* addresses into the instructions that name a label.                      *)
(*                                                                         *)
(* Addresses are size_t.  A negative argument of .skip or .section is the  *)
(* number 2^64 below it for stoull(), so that a negative integer stands    *)
(* for the size_t that is equal to it modulo 2^64.                         *)
(***************************************************************************)
EXTENDS CS8Stages, CS8Nodes

VARIABLES
  tree,                   \* AsmTree::nodes
  node,                   \* the node a walk over the tree is at
  sections,               \* of number_labels(): section name -> its position
  current_section,
  positions               \* label -> the address and section of its last definition

treeVars == <<tree, node, sections, current_section, positions>>

TreeInit ==
  /\ tree = <<>>
  /\ node = 1
  /\ sections = [s \in {"flat"} |-> 0]
  /\ current_section = "flat"
  /\ positions = <<>>

\* map[key] = value.
Assign(map, key, value) ==
  [k \in DOMAIN map \union {key} |-> IF k = key THEN value ELSE map[k]]

-----------------------------------------------------------------------------
(* The translation. *)

label_scan == {lines[i].name : i \in {k \in DOMAIN lines : lines[k].kind = "label"}}

TranslateLines ==
  /\ stage = "translate"
  /\ IF \A i \in DOMAIN lines : Translatable(lines[i], label_scan)
     THEN /\ tree' = [i \in DOMAIN lines |-> translate_line(lines[i])]
          /\ stage' = "number"
     ELSE Terminate /\ UNCHANGED tree
  /\ UNCHANGED <<file, lines, macros, node, sections, current_section, positions>>

-----------------------------------------------------------------------------
(* number_labels(): the first walk. *)

AtNode == node <= Len(tree)
Here   == tree[node]
position == sections[current_section]

\* args.at(i), which throws when there is no such argument, and stoull() or
\* stoi() of it, which throw when it is not a number.
HasNumber(i) == i <= Len(Here.args) /\ Numeric(Here.args[i])

Numbering(kind) == stage = "number" /\ AtNode /\ Here.kind = kind

NumberLabel ==
  /\ Numbering("label")
  /\ tree' = [tree EXCEPT ![node] = [@ EXCEPT !.position = position, !.section = current_section]]
  /\ positions' = Assign(positions, Here.name, [address |-> position, section |-> current_section])
  /\ node' = node + 1
  /\ UNCHANGED <<astVars, sections, current_section>>

Advance(n) ==
  /\ sections' = [sections EXCEPT ![current_section] = @ + n]
  /\ node' = node + 1
  /\ UNCHANGED <<astVars, tree, current_section, positions>>

NumberInstruction == Numbering("instruction") /\ Advance(get_length(Here.name))

\* A section known already keeps its position, whatever the directive says.
NumberSection ==
  /\ Numbering("directive") /\ Here.name = "section" /\ Here.args # <<>>
  /\ LET section_name == Here.args[1].name IN
     /\ \/ section_name \in DOMAIN sections /\ UNCHANGED sections
        \/ /\ section_name \notin DOMAIN sections /\ HasNumber(2)
           /\ sections' = Assign(sections, section_name, Here.args[2].number)
     /\ current_section' = section_name
  /\ node' = node + 1
  /\ UNCHANGED <<astVars, tree, positions>>

\* Mutant: a word is counted like a byte.
DataSizeOfItems == CASE Here.name = "skip"            -> Here.args[1].number
                     [] Here.name \in {"byte", "word"} -> 1
                     [] Here.name = "bytes"           -> Len(Here.args)
                     [] OTHER                         -> 0

\* Bytes that a data directive accounts for.
DataSize == CASE Here.name = "skip"  -> Here.args[1].number
              [] Here.name = "byte"  -> 1
              [] Here.name = "word"  -> 2
              [] Here.name = "bytes" -> Len(Here.args)
              [] OTHER               -> 0

NumberDirective ==
  /\ Numbering("directive") /\ Here.name # "section"
  /\ Here.name = "skip" => HasNumber(1)
  /\ Advance(DataSize)

NumberThrows ==
  /\ Numbering("directive")
  /\ \/ Here.name = "skip" /\ ~ HasNumber(1)
     \/ Here.name = "section" /\ Here.args = <<>>
     \/ Here.name = "section" /\ Here.args # <<>>
        /\ Here.args[1].name \notin DOMAIN sections /\ ~ HasNumber(2)
  /\ Terminate
  /\ UNCHANGED <<file, lines, macros, treeVars>>

NumberEnd ==
  /\ stage = "number" /\ ~ AtNode
  /\ stage' = "resolve"
  /\ UNCHANGED <<file, lines, macros, treeVars>>

(* The second walk. *)

Resolve(n) ==
  IF n.kind = "instruction" /\ n.label # "" /\ n.label \in DOMAIN positions
  THEN [n EXCEPT !.operand = ToUWord(positions[n.label].address)]
  ELSE n

ResolveLabels ==
  /\ stage = "resolve"
  /\ tree' = [i \in DOMAIN tree |-> Resolve(tree[i])]
  /\ node' = 1
  /\ stage' = "open"
  /\ UNCHANGED <<file, lines, macros, sections, current_section, positions>>

Transform ==
  \/ TranslateLines
  \/ NumberLabel \/ NumberInstruction \/ NumberSection \/ NumberDirective
  \/ NumberThrows \/ NumberEnd
  \/ ResolveLabels
=============================================================================
