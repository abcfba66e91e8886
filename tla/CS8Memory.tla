----------------------------- MODULE CS8Memory -----------------------------
(***************************************************************************)
(* The main memory (class Memory in memory.hxx): a buffer of MemorySize    *)
(* words that answers the bus addresses MemoryBegin .. MemoryEnd.  The     *)
(* template does not relate the two: main() instantiates it with 0x1FFF    *)
(* words for the 0x2000 addresses 0 .. 0x1FFF, and the last address has no *)
(* word behind it.  std::array::at throws there.                           *)
(***************************************************************************)
EXTENDS CS8Bus

CONSTANTS MemorySize, MemoryBegin, MemoryEnd

ASSUME MemoryAssumption ==
  /\ MemorySize \in Nat
  /\ MemoryBegin \in UWord
  /\ MemoryEnd \in UWord

VARIABLE memory

Cells == 0 .. MemorySize - 1

MemoryType == memory \in [Cells -> UWord]

InMemory(address) == address \in MemoryBegin .. MemoryEnd
Backed(address)   == InMemory(address) /\ address - MemoryBegin < MemorySize
Cell(address)     == address - MemoryBegin

MemoryIgnores ==
  /\ ~ (BusActive /\ InMemory(bus.address))
  /\ UNCHANGED <<bus, memory>>

MemoryRead ==
  /\ bus.mode = "Read" /\ Backed(bus.address)
  /\ bus' = [bus EXCEPT !.data = memory[Cell(bus.address)]]
  /\ UNCHANGED memory

MemoryWrite ==
  /\ bus.mode = "Write" /\ Backed(bus.address)
  /\ memory' = [memory EXCEPT ![Cell(bus.address)] = bus.data]
  /\ UNCHANGED bus

MemorySimulate == MemoryIgnores \/ MemoryRead \/ MemoryWrite

\* memory_buffer.at(addr) throws std::out_of_range; nothing catches it.
MemoryThrows ==
  BusActive /\ InMemory(bus.address) /\ ~ Backed(bus.address)
=============================================================================
