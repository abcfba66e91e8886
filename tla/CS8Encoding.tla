---------------------------- MODULE CS8Encoding ----------------------------
(***************************************************************************)
(* The instructions the assembler knows and the bytes it emits for them    *)
(* (AsmTree.h).  An instruction node has all the fields any class of node  *)
(* has; the ones its mnemonic does not use keep the value they start with. *)
(***************************************************************************)
EXTENDS CS8Words, Sequences

\* The first byte, by the parameters that a mnemonic takes.
AddressOps  == [limm |-> 0, lmem |-> 1, smem |-> 2]
TransferOps == [tr |-> 5]
StackOps    == [psh0 |-> 6, psh1 |-> 7, pop0 |-> 8, pop1 |-> 9]
PlainOps    == [lidx |-> 3, sidx |-> 4, add |-> 10, sub |-> 11, mul |-> 12,
                divmod |-> 13, nand |-> 14, jle |-> 15, jmp |-> 31, rtm |-> 47]

RegisterNumber ==
  [dst |-> 0, sc0 |-> 1, sc1 |-> 2, idx |-> 3, tmp |-> 4, sp0 |-> 5, sp1 |-> 6,
   dt0 |-> 7, dt1 |-> 8, dt2 |-> 9, dt3 |-> 10, dt4 |-> 11, dt5 |-> 12,
   lnk |-> 13, cnt |-> 14, bse |-> 15]

\* register_from_name() throws for other names.
IsRegister(name) == name \in DOMAIN RegisterNumber

\* label is "" for an instruction that names none.
Node(name, source, target, operand, label) ==
  [kind |-> "instruction", name |-> name, source |-> source, target |-> target,
   operand |-> operand, label |-> label]

get_length(name) == CASE name \in DOMAIN AddressOps  -> 3
                      [] name \in DOMAIN TransferOps -> 2
                      [] OTHER                       -> 1

HighByte(word) == (word \div 256) % 256
LowByte(word)  == word % 256

\* Mutant: the two bytes of the operand are swapped.
emit_swapped(n) ==
  CASE n.name \in DOMAIN AddressOps  -> <<AddressOps[n.name], LowByte(n.operand), HighByte(n.operand)>>
    [] n.name \in DOMAIN TransferOps -> <<TransferOps[n.name] + 16 * n.source, n.target>>
    [] n.name \in DOMAIN StackOps    -> <<StackOps[n.name] + 16 * n.source>>
    [] OTHER                         -> <<PlainOps[n.name]>>

emit(n) ==
  CASE n.name \in DOMAIN AddressOps  -> <<AddressOps[n.name], HighByte(n.operand), LowByte(n.operand)>>
    [] n.name \in DOMAIN TransferOps -> <<TransferOps[n.name] + 16 * n.source, n.target>>
    [] n.name \in DOMAIN StackOps    -> <<StackOps[n.name] + 16 * n.source>>
    [] OTHER                         -> <<PlainOps[n.name]>>
=============================================================================
