----------------------------- MODULE CS8Emitter -----------------------------
(***************************************************************************)
(* From the nodes of the AsmTree to the ELF file (class AsmTreeEmitter).   *)
(* emit_binary() walks the nodes a third time and collects the bytes of    *)
(* each section and the symbols; emit_elf_file() makes a loadable segment  *)
(* of every section.  The two walks share no state: both keep the current  *)
(* section by themselves, and only the labels' addresses pass from one to  *)
(* the other.                                                              *)
(*                                                                         *)
(* The ELF library is external.  It is asked to store what is described    *)
(* here, and validate() and save() are taken to succeed.                   *)
(***************************************************************************)
EXTENDS CS8Transformer

\* The names of sections in the order of std::map.
CONSTANT SectionOrder

VARIABLES
  out_sections,           \* of emit_binary(): section name -> section
  out_section,            \* the current one
  entry,
  exported_symbols,       \* symbol name -> symbol
  outfile                 \* out.elf: what was there before, empty, or the ELF file

emitVars == <<out_sections, out_section, entry, exported_symbols, outfile>>

EmitInit ==
  /\ out_sections = <<>>
  /\ out_section = "flat"
  /\ entry = 0
  /\ exported_symbols = <<>>
  /\ outfile = [state |-> "old"]

Section(name, addr) == [name |-> name, addr |-> addr, data |-> <<>>, flags |-> Flags]

\* A symbol copies its section as the section is when the symbol is made.
Symbol(section, type, address) ==
  [section |-> section.name, flags |-> section.flags, type |-> type, address |-> address]

-----------------------------------------------------------------------------
Emitting(kind)      == stage = "emit" /\ AtNode /\ Here.kind = kind
EmitDirective(name) == Emitting("directive") /\ Here.name = name

InSection == out_section \in DOMAIN out_sections

Step == node' = node + 1

OpenOutput ==
  /\ stage = "open"
  /\ outfile' = [state |-> "empty"]
  /\ stage' = "emit"
  /\ UNCHANGED <<node, out_sections, out_section, entry, exported_symbols>>

Put(bytes) ==
  /\ InSection
  /\ out_sections' = [out_sections EXCEPT ![out_section].data = @ \o bytes]
  /\ Step
  /\ UNCHANGED <<out_section, entry, exported_symbols>>

EmitInstruction == Emitting("instruction") /\ Put(emit(Here))

EmitByte == EmitDirective("byte") /\ HasNumber(1) /\ Put(<<ToByte(Here.args[1].number)>>)

EmitWord ==
  /\ EmitDirective("word") /\ HasNumber(1)
  /\ Put(<<HighByte(ToUWord(Here.args[1].number)), LowByte(Here.args[1].number)>>)

EmitBytes ==
  /\ EmitDirective("bytes") /\ \A i \in DOMAIN Here.args : HasNumber(i)
  /\ Put([i \in DOMAIN Here.args |-> ToByte(Here.args[i].number)])

EmitEntrypoint ==
  /\ EmitDirective("entrypoint") /\ HasNumber(1)
  /\ entry' = Here.args[1].number
  /\ Step
  /\ UNCHANGED <<out_sections, out_section, exported_symbols>>

EmitSection ==
  /\ EmitDirective("section") /\ Here.args # <<>>
  /\ LET name == Here.args[1].name IN
     /\ \/ name \in DOMAIN out_sections /\ UNCHANGED out_sections
        \/ /\ name \notin DOMAIN out_sections /\ HasNumber(2)
           /\ out_sections' = Assign(out_sections, name, Section(name, Here.args[2].number))
     /\ out_section' = name
  /\ Step
  /\ UNCHANGED <<entry, exported_symbols>>

\* Mutant: the permissions are added to those the section has.
EmitSecinfoAdds ==
  /\ EmitDirective("secinfo") /\ Here.args # <<>>
  /\ LET name == Here.args[1].name
         old  == IF name \in DOMAIN out_sections THEN out_sections[name] ELSE Section("", 0)
         told == {Here.args[i].name : i \in 2 .. Len(Here.args)} \cap Flags
     IN  out_sections' = Assign(out_sections, name, [old EXCEPT !.flags = @ \union told])
  /\ Step
  /\ UNCHANGED <<out_section, entry, exported_symbols>>

\* A section that is not there yet is created without a name and at zero.
EmitSecinfo ==
  /\ EmitDirective("secinfo") /\ Here.args # <<>>
  /\ LET name == Here.args[1].name
         old  == IF name \in DOMAIN out_sections THEN out_sections[name] ELSE Section("", 0)
         told == {Here.args[i].name : i \in 2 .. Len(Here.args)} \cap Flags
     IN  out_sections' = Assign(out_sections, name, [old EXCEPT !.flags = told])
  /\ Step
  /\ UNCHANGED <<out_section, entry, exported_symbols>>

\* .global and .weak need the label, and its section must have been met.
Exportable(name) ==
  name \in DOMAIN positions /\ positions[name].section \in DOMAIN out_sections

SymbolNamed == Here.args # <<>>

Export(name, again, symbol) ==
  /\ exported_symbols' = IF name \in DOMAIN exported_symbols
                         THEN [exported_symbols EXCEPT ![name].type = again]
                         ELSE Assign(exported_symbols, name, symbol)
  /\ Step
  /\ UNCHANGED <<out_sections, out_section, entry>>

\* A symbol that exists already becomes global by .weak, too.
EmitExport(directive, type) ==
  /\ EmitDirective(directive) /\ SymbolNamed
  /\ LET name == Here.args[1].name IN
     /\ name \in DOMAIN positions
     /\ name \in DOMAIN exported_symbols \/ Exportable(name)
     /\ Export(name, "global",
          Symbol(out_sections[positions[name].section], type, positions[name].address))

EmitGlobal == EmitExport("global", "global")
EmitWeak   == EmitExport("weak", "weak")

EmitExtern ==
  /\ EmitDirective("extern") /\ SymbolNamed
  /\ Here.args[1].name \in DOMAIN exported_symbols \/ InSection
  /\ Export(Here.args[1].name, "extern", Symbol(out_sections[out_section], "extern", 0))

\* Labels and the directives that emit_binary() does not know, .skip among them.
Known == {"entrypoint", "section", "global", "weak", "extern", "secinfo",
          "byte", "word", "bytes"}

EmitNothing ==
  /\ \/ Emitting("label")
     \/ Emitting("directive") /\ Here.name \notin Known
  /\ Step
  /\ UNCHANGED <<out_sections, out_section, entry, exported_symbols>>

\* at(), stoi() and stoull() throw: one disjunct for each call.
EmitThrows ==
  /\ stage = "emit" /\ AtNode
  /\ \/ Emitting("instruction") /\ ~ InSection
     \/ Emitting("directive") /\ Here.name \in {"byte", "word", "bytes"} /\ ~ InSection
     \/ Emitting("directive") /\ Here.name \in {"byte", "word", "entrypoint"} /\ ~ HasNumber(1)
     \/ EmitDirective("bytes") /\ \E i \in DOMAIN Here.args : ~ HasNumber(i)
     \/ EmitDirective("section")
        /\ (Here.args # <<>> => Here.args[1].name \notin DOMAIN out_sections /\ ~ HasNumber(2))
     \/ EmitDirective("secinfo") /\ Here.args = <<>>
     \/ Emitting("directive") /\ Here.name \in {"global", "weak"}
        /\ (Here.args # <<>> =>
              \/ Here.args[1].name \notin DOMAIN positions
              \/ /\ Here.args[1].name \notin DOMAIN exported_symbols
                 /\ ~ Exportable(Here.args[1].name))
     \/ EmitDirective("extern")
        /\ (Here.args # <<>> =>
              Here.args[1].name \notin DOMAIN exported_symbols /\ ~ InSection)
  /\ Terminate
  /\ UNCHANGED <<node, out_sections, out_section, entry, exported_symbols>>

EmitStep ==
  \/ /\ \/ EmitInstruction \/ EmitByte \/ EmitWord \/ EmitBytes
        \/ EmitEntrypoint \/ EmitSection \/ EmitSecinfo
        \/ EmitGlobal \/ EmitWeak \/ EmitExtern
        \/ EmitNothing
     /\ UNCHANGED stage
  \/ EmitThrows

\* Every label becomes a symbol, unless a directive has made it one already.
StaticSymbols ==
  [l \in DOMAIN positions |->
     Symbol(out_sections[positions[l].section], "static", positions[l].address)]

\* insert() of every symbol of t_symbols, which leaves the ones that are there.
Insert(symbols, t_symbols) ==
  [s \in DOMAIN symbols \union DOMAIN t_symbols |->
     IF s \in DOMAIN symbols THEN symbols[s] ELSE t_symbols[s]]

\* Mutant: the labels take the place of the exported symbols.
EmitSymbolsOverwrites ==
  /\ stage = "emit" /\ ~ AtNode
  /\ IF \A l \in DOMAIN positions : positions[l].section \in DOMAIN out_sections
     THEN exported_symbols' = Insert(StaticSymbols, exported_symbols) /\ stage' = "save"
     ELSE Terminate /\ UNCHANGED exported_symbols
  /\ UNCHANGED <<node, out_sections, out_section, entry>>

EmitSymbols ==
  /\ stage = "emit" /\ ~ AtNode
  /\ IF \A l \in DOMAIN positions : positions[l].section \in DOMAIN out_sections
     THEN exported_symbols' = Insert(exported_symbols, StaticSymbols) /\ stage' = "save"
     ELSE Terminate /\ UNCHANGED exported_symbols
  /\ UNCHANGED <<node, out_sections, out_section, entry>>

-----------------------------------------------------------------------------
(* emit_elf_file() and create_elf_symtab(). *)

segments ==
  LET names == InOrder(SectionOrder, DOMAIN out_sections)
  IN  [i \in DOMAIN names |-> [address |-> out_sections[names[i]].addr,
                               bytes   |-> out_sections[names[i]].data]]

ElfSymbol(symbol) ==
  [value      |-> symbol.address,
   bind       |-> IF symbol.type = "weak" THEN "weak" ELSE "global",
   type       |-> IF "execute" \in symbol.flags THEN "func" ELSE "object",
   visibility |-> IF symbol.type = "static" THEN "hidden" ELSE "default",
   section    |-> symbol.section]

symtab == [s \in DOMAIN exported_symbols |-> ElfSymbol(exported_symbols[s])]

Save ==
  /\ stage = "save"
  /\ outfile' = [state |-> "elf", entry |-> entry, segments |-> segments, symtab |-> symtab]
  /\ stage' = "written"
  /\ UNCHANGED <<node, out_sections, out_section, entry, exported_symbols>>

Emit ==
  \/ OpenOutput
  \/ (EmitStep \/ EmitSymbols) /\ UNCHANGED outfile
  \/ Save
=============================================================================
