----------------------------- MODULE MCEmulator -----------------------------
(***************************************************************************)
(* A small CS8: twenty words of memory with a twenty-first address that    *)
(* has no word, as in main.cxx, then the two addresses of the port, then   *)
(* nothing.  The programs set a register, execute one or two instructions  *)
(* of a pool that covers every opcode, and halt.                           *)
(***************************************************************************)
EXTENDS CS8Retirement

Data == 19                \* the last word of the memory, after the programs
Hole == 20
Port == 21
Deaf == 22                \* the second address of the port
Open == 23                \* no device

\* Instructions as the bytes of the file.
Limm(k) == <<0, k \div 256, k % 256>>
Ldir(a) == <<1, a \div 256, a % 256>>
Sdir(a) == <<2, a \div 256, a % 256>>
Lidx    == <<3>>
Sidx(r) == <<4 + 16 * r>>
Treg(from, to) == <<5 + 16 * from, to>>
Push_0  == <<6 + 16 * rsc0>>
Push_1  == <<7>>
Pop_0   == <<8>>
Pop_1   == <<9 + 16 * rsc1>>
Ext(n)  == <<15 + 16 * n>>
HaltProgram == Limm(65535) \o Ext(1)

Set(r, k) == Limm(k) \o Treg(rtmp, r)

Setups == {Set(r, k) : r \in {rsc0, rsc1, ridx, rsp0, rsp1, rCNT, rBSE},
                       k \in {1, Data, Port, 65535}}

Pool ==
  {Limm(Open), Ldir(Data), Ldir(Hole), Ldir(Port), Ldir(Deaf), Ldir(Open),
   Sdir(Data), Sdir(Hole), Sdir(Port), Sdir(6), Lidx, Sidx(0), Sidx(rtmp),
   Treg(rsc0, rdst), Treg(rBSE, rtmp), Push_0, Push_1, Pop_0, Pop_1,
   <<10>>, <<11>>, <<12>>, <<13>>, <<14>>, Ext(0), Ext(1), Ext(2), Ext(3)}

OneSegment(bytes) == << [address |-> 0, bytes |-> bytes] >>

\* A file with two segments, the second over the end of the first, and bytes
\* that are negative as chars.
Overlapping ==
  << [address |-> 0, bytes |-> Limm(40000) \o Ldir(Data) \o HaltProgram],
     [address |-> 3, bytes |-> Sdir(Data) \o Treg(rtmp, rsc1) \o Ldir(Data)
                               \o <<13>> \o HaltProgram] >>

MCPrograms ==
  {OneSegment(s \o i \o HaltProgram) : s \in Setups, i \in Pool}
  \union
  {OneSegment(Set(rsp0, Data) \o i \o j \o HaltProgram) : i, j \in Pool}
  \union
  {Overlapping}

\* A key, a character above 127 whose low nibble is that of nand, and EOF.
MCCharacters == {10, 254, -1}

\* A program that runs away over the open addresses executes some twenty
\* thousand times the same limm of zeros; a few of them are enough.
NearDevices == rip \in -1 .. Open + 4
=============================================================================
