--------------------------- MODULE CS8Translation ---------------------------
(***************************************************************************)
(* What assembling a program promises, without passes and walks: what      *)
(* out.elf is for a program, each byte and symbol of it said by the lines  *)
(* in front of it, and for which programs there is such a file.  Until it  *)
(* is there, out.elf is what it was or empty.                              *)
(***************************************************************************)
EXTENDS CS8Nodes

CONSTANTS Sources, SectionOrder

VARIABLES
  file,                   \* the program
  outfile,                \* out.elf
  ended                   \* the assembler is no longer there

-----------------------------------------------------------------------------
(***************************************************************************)
(* Expansion: every invocation is unfolded, then every one in the result,  *)
(* as deep as there are macros.                                            *)
(***************************************************************************)
Invokes(s, line) ==
  line.kind = "instruction" /\ \E i \in DOMAIN s.macros : s.macros[i].name = line.name

\* The last definition counts.
Definition(s, name) ==
  s.macros[Max({i \in DOMAIN s.macros : s.macros[i].name = name})]

\* Arguments and parameters match, and the instructions of the body name no
\* argument that the macro does not have.
Fits(macro, line) ==
  /\ Len(macro.args) = Len(line.params)
  /\ \A i \in DOMAIN macro.lines : macro.lines[i].kind = "instruction" =>
       \A p \in Range(macro.lines[i].params) : p.type = "replace" => p.name \in Range(macro.args)

Actual(macro, line, param) ==
  IF param.type = "replace"
  THEN line.params[Max({k \in DOMAIN macro.args : macro.args[k] = param.name})]
  ELSE param

UnfoldLine(s, line) ==
  IF ~ Invokes(s, line) THEN <<line>>
  ELSE LET macro == Definition(s, line.name)
       IN  [i \in DOMAIN macro.lines |->
              IF macro.lines[i].kind # "instruction" THEN macro.lines[i]
              ELSE [macro.lines[i] EXCEPT !.params =
                      [k \in DOMAIN @ |-> Actual(macro, line, @[k])]]]

Unfold(s, ls) == FlattenSeq([i \in DOMAIN ls |-> UnfoldLine(s, ls[i])])

\* The lines at every depth.
Depths(s) ==
  LET unfold[d \in 0 .. Len(s.macros)] ==
        IF d = 0 THEN s.lines ELSE Unfold(s, unfold[d - 1])
  IN  unfold

FullExpansion(s) == Depths(s)[Len(s.macros)]

\* What does not fit is not unfolded, nor what is deeper than there are macros:
\* a recursive macro would be unfolded for ever.
Expands(s) ==
  \A d \in 0 .. Len(s.macros) : \A line \in Range(Depths(s)[d]) :
    Invokes(s, line) => d < Len(s.macros) /\ Fits(Definition(s, line.name), line)

-----------------------------------------------------------------------------
(***************************************************************************)
(* Addresses.  t is the sequence of the nodes of a program; a section has  *)
(* one address for the labels in it and one for its bytes.                 *)
(***************************************************************************)
IsDirective(n, names) == n.kind = "directive" /\ n.name \in names
HasNumberAt(n, i)     == i <= Len(n.args) /\ Numeric(n.args[i])

Naming(t, name, directives) ==
  {i \in DOMAIN t : IsDirective(t[i], directives) /\ t[i].args # <<>> /\ t[i].args[1].name = name}
Before(k, S) == {i \in S : i < k}

SectionAt(t, k) ==
  LET directives == {i \in 1 .. k - 1 : IsDirective(t[i], {"section"})}
  IN  IF directives = {} THEN "flat" ELSE t[Max(directives)].args[1].name

Size(n) ==
  CASE n.kind = "instruction"   -> get_length(n.name)
    [] IsDirective(n, {"byte"})  -> 1
    [] IsDirective(n, {"word"})  -> 2
    [] IsDirective(n, {"bytes"}) -> Len(n.args)
    [] OTHER                     -> 0

\* What is skipped counts for the labels only.
Skipped(n) == IF IsDirective(n, {"skip"}) THEN n.args[1].number ELSE 0

\* What the nodes before k in its section come to.
Sum(t, k, Amount(_)) ==
  LET sum[i \in 0 .. k - 1] ==
        IF i = 0 THEN 0
        ELSE sum[i - 1] + IF SectionAt(t, i) = SectionAt(t, k) THEN Amount(t[i]) ELSE 0
  IN  sum[k - 1]

OffsetAt(t, k) == Sum(t, k, Size)

Start(t, section) ==
  IF section = "flat" THEN 0 ELSE t[Min(Naming(t, section, {"section"}))].args[2].number

Labels(t) == {t[k].name : k \in {i \in DOMAIN t : t[i].kind = "label"}}
LabelAt(t, label) == Max({k \in DOMAIN t : t[k].kind = "label" /\ t[k].name = label})
LabelSection(t, label) == SectionAt(t, LabelAt(t, label))
Address(t, label) ==
  LET k == LabelAt(t, label)
  IN  Start(t, SectionAt(t, k)) + OffsetAt(t, k) + Sum(t, k, Skipped)

\* The directive that a section of the file comes from.
Origins(t, section) == Naming(t, section, {"section", "secinfo"})
Exists(t, section, k) == Before(k, Origins(t, section)) # {}
Origin(t, section) == t[Min(Origins(t, section))]

\* One that .secinfo has made has no name and is at zero.
Base(t, section)  == IF Origin(t, section).name = "section" THEN Origin(t, section).args[2].number ELSE 0
Title(t, section) == IF Origin(t, section).name = "section" THEN section ELSE ""

FlagsAt(t, section, k) ==
  LET told == Before(k, Naming(t, section, {"secinfo"}))
      args == t[Max(told)].args
  IN  IF told = {} THEN Flags ELSE {args[i].name : i \in 2 .. Len(args)} \cap Flags

-----------------------------------------------------------------------------
(* The programs that can be translated. *)

Translates(ls) ==
  LET labels == {l.name : l \in {m \in Range(ls) : m.kind = "label"}}
  IN  \A line \in Range(ls) : Translatable(line, labels)

\* An address is given where a section is named first.
Numbered(t) ==
  \A k \in DOMAIN t :
    /\ IsDirective(t[k], {"skip"}) => HasNumberAt(t[k], 1)
    /\ IsDirective(t[k], {"section"}) =>
         /\ t[k].args # <<>>
         /\ LET section == t[k].args[1].name
            IN  \/ section = "flat" \/ HasNumberAt(t[k], 2)
                \/ Before(k, Naming(t, section, {"section"})) # {}

Exports == {"global", "weak", "extern"}

\* What node k needs of the ones before it.
Emittable(t, k) ==
  LET n        == t[k]
      name     == n.args[1].name
      inside   == Exists(t, SectionAt(t, k), k)
      exported == Before(k, Naming(t, name, Exports)) # {}
  IN  /\ n.kind = "instruction" \/ IsDirective(n, {"byte", "word", "bytes"}) => inside
      /\ IsDirective(n, {"byte", "word", "entrypoint"}) => HasNumberAt(n, 1)
      /\ IsDirective(n, {"bytes"}) => \A i \in DOMAIN n.args : Numeric(n.args[i])
      /\ IsDirective(n, {"section", "secinfo"} \union Exports) => n.args # <<>>
      /\ IsDirective(n, {"section"}) => Exists(t, name, k) \/ HasNumberAt(n, 2)
      /\ IsDirective(n, {"global", "weak"}) =>
           name \in Labels(t) /\ (exported \/ Exists(t, LabelSection(t, name), k))
      /\ IsDirective(n, {"extern"}) => exported \/ inside

Emits(t) ==
  /\ \A k \in DOMAIN t : Emittable(t, k)
  /\ \A l \in Labels(t) : Exists(t, LabelSection(t, l), Len(t) + 1)

-----------------------------------------------------------------------------
(* The file. *)

BytesOf(t, n) ==
  CASE n.kind = "instruction" ->
         emit(IF n.label = "" THEN n ELSE [n EXCEPT !.operand = ToUWord(Address(t, n.label))])
    [] IsDirective(n, {"byte"})  -> <<ToByte(n.args[1].number)>>
    [] IsDirective(n, {"word"})  -> <<HighByte(ToUWord(n.args[1].number)), LowByte(n.args[1].number)>>
    [] IsDirective(n, {"bytes"}) -> [i \in DOMAIN n.args |-> ToByte(n.args[i].number)]
    [] OTHER -> <<>>

Contents(t, section) ==
  FlattenSeq([k \in DOMAIN t |-> IF SectionAt(t, k) = section THEN BytesOf(t, t[k]) ELSE <<>>])

Named(t, directives) == {t[k].args[1].name : k \in {i \in DOMAIN t : IsDirective(t[i], directives)}}

Segments(t) ==
  LET names == InOrder(SectionOrder, Named(t, {"section", "secinfo"}))
  IN  [i \in DOMAIN names |-> [address |-> Base(t, names[i]), bytes |-> Contents(t, names[i])]]

\* The first directive that names a symbol makes it, with what its section is
\* there; the last one says how it is bound, where .weak cannot make a symbol
\* weak again.
SymbolOf(t, name) ==
  LET told    == Naming(t, name, Exports)
      made    == IF told = {} THEN Len(t) + 1 ELSE Min(told)
      foreign == told # {} /\ t[made].name = "extern"
      section == IF foreign THEN SectionAt(t, made) ELSE LabelSection(t, name)
  IN  [value      |-> IF foreign THEN 0 ELSE Address(t, name),
       bind       |-> IF Cardinality(told) = 1 /\ t[made].name = "weak" THEN "weak" ELSE "global",
       type       |-> IF "execute" \in FlagsAt(t, section, made) THEN "func" ELSE "object",
       visibility |-> IF told = {} THEN "hidden" ELSE "default",
       section    |-> Title(t, section)]

Symbols(t) == Labels(t) \union Named(t, Exports)

EntryOf(t) ==
  LET told == {k \in DOMAIN t : IsDirective(t[k], {"entrypoint"})}
  IN  IF told = {} THEN 0 ELSE t[Max(told)].args[1].number

Image(t) ==
  [state |-> "elf", entry |-> EntryOf(t), segments |-> Segments(t),
   symtab |-> [name \in Symbols(t) |-> SymbolOf(t, name)]]

-----------------------------------------------------------------------------
Nodes(s) == LET full == FullExpansion(s) IN [i \in DOMAIN full |-> translate_line(full[i])]
Sound(s) == Expands(s) /\ Translates(FullExpansion(s)) /\ Numbered(Nodes(s))

Init == file \in DOMAIN Sources /\ outfile = [state |-> "old"] /\ ended = FALSE

\* The output is opened, and so emptied, once every line has its address.
Open ==
  /\ ~ ended /\ outfile.state = "old"
  /\ outfile' = [state |-> "empty"]
  /\ Sound(Sources[file])
  /\ UNCHANGED <<file, ended>>

Write ==
  /\ ~ ended /\ outfile.state = "empty"
  /\ ended' = TRUE
  /\ Emits(Nodes(Sources[file]))
  /\ outfile' = Image(Nodes(Sources[file]))
  /\ UNCHANGED file

Fail ==
  /\ ~ ended /\ ended' = TRUE
  /\ \/ outfile.state = "old" /\ ~ Sound(Sources[file])
     \/ outfile.state = "empty" /\ ~ Emits(Nodes(Sources[file]))
  /\ UNCHANGED <<file, outfile>>

Next == Open \/ Write \/ Fail

Spec == Init /\ [][Next]_<<file, outfile, ended>>
=============================================================================
