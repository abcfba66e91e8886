------------------------------ MODULE CS8Nodes ------------------------------
(***************************************************************************)
(* The nodes of an AsmTree, and how a line becomes one (translate_line()   *)
(* and what it calls in AsmTreeTransformer).                               *)
(***************************************************************************)
EXTENDS CS8Ast, CS8Encoding, SequencesExt, Functions

\* The members of S in the order that a list of names gives.
InOrder(names, S) ==
  FlattenSeq([i \in DOMAIN names |-> IF names[i] \in S THEN <<names[i]>> ELSE <<>>])

\* Of a section.
Flags == {"read", "write", "execute"}

HasRegisters(line, n) ==
  /\ Len(line.params) = n
  /\ \A i \in 1 .. n : line.params[i].type = "register" /\ IsRegister(line.params[i].name)

HasAddress(line, labels) ==
  /\ Len(line.params) = 1
  /\ \/ line.params[1].type = "number"
     \/ line.params[1].type = "symbol" /\ line.params[1].name \in labels

\* Whether translate_line() returns a node for the line; it throws otherwise.
Translatable(line, labels) ==
  CASE line.kind = "label"     -> TRUE
    [] line.kind = "directive" -> \A i \in DOMAIN line.params : line.params[i].type # "replace"
    [] OTHER -> \/ line.name \in DOMAIN AddressOps  /\ HasAddress(line, labels)
                \/ line.name \in DOMAIN TransferOps /\ HasRegisters(line, 2)
                \/ line.name \in DOMAIN StackOps    /\ HasRegisters(line, 1)
                \/ line.name \in DOMAIN PlainOps    /\ line.params = <<>>

RegisterOf(line, i) ==
  IF i <= Len(line.params) /\ line.params[i].type = "register"
  THEN RegisterNumber[line.params[i].name]
  ELSE RegisterNumber["bse"]

\* Mutant: the operand keeps the width that it has in the source.
AddressNodeWide(line, param) ==
  IF param.type = "number"
  THEN Node(line.name, RegisterNumber["bse"], RegisterNumber["bse"], param.values[1], "")
  ELSE Node(line.name, RegisterNumber["bse"], RegisterNumber["bse"], 0, param.name)

AddressNode(line, param) ==
  IF param.type = "number"
  THEN Node(line.name, RegisterNumber["bse"], RegisterNumber["bse"], ToUWord(param.values[1]), "")
  ELSE Node(line.name, RegisterNumber["bse"], RegisterNumber["bse"], 0, param.name)

translate_instruction(line) ==
  IF line.name \in DOMAIN AddressOps
  THEN AddressNode(line, line.params[1])
  ELSE Node(line.name, RegisterOf(line, 1), RegisterOf(line, 2), 0, "")

\* The arguments of a directive are strings, of which the code wants either
\* the number or the name; a string parameter gives one for each character.
\* A number where a name is wanted is the empty name.
Args(param) ==
  IF param.type \in {"symbol", "register"}
  THEN <<[name |-> param.name, number |-> 0]>>
  ELSE [i \in DOMAIN param.values |-> [name |-> "", number |-> param.values[i]]]

Numeric(arg) == arg.name = ""

translate_directive_node(line) ==
  [kind |-> "directive", name |-> line.name,
   args |-> FlattenSeq([i \in DOMAIN line.params |-> Args(line.params[i])])]

translate_label_node(line) ==
  [kind |-> "label", name |-> line.name, position |-> 0, section |-> ""]

translate_line(line) ==
  CASE line.kind = "label"     -> translate_label_node(line)
    [] line.kind = "directive" -> translate_directive_node(line)
    [] OTHER                   -> translate_instruction(line)
=============================================================================
