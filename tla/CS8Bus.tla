------------------------------- MODULE CS8Bus -------------------------------
(***************************************************************************)
(* The system bus (struct Bus in bus.hxx): four registers that every       *)
(* device may read and write through BusDevice.  There is no arbitration   *)
(* beyond the owner field, and no device looks at that field.              *)
(*                                                                         *)
(* BusDevice reaches the bus through a weak_ptr and throws when it cannot  *)
(* be locked; main() holds the bus for as long as any device is simulated, *)
(* so the lock always succeeds and that path is not modelled.              *)
(***************************************************************************)
EXTENDS CS8Words

VARIABLE bus

Modes == {"Read", "Write", "Off"}

BUS_UNOWNED == 0
CPU_ID      == 1

BusType == [data: UWord, address: UWord, mode: Modes, owner: {BUS_UNOWNED, CPU_ID}]

BusInit ==
  bus = [data |-> 0, address |-> 0, mode |-> "Off", owner |-> BUS_UNOWNED]

\* own_bus(), set_bus_mode(RW::Read), set_bus_address(address).
StartRead(address) ==
  bus' = [bus EXCEPT !.owner = CPU_ID, !.mode = "Read", !.address = address]

\* Mutant: the bus is cleared when it is released.
EndReadDisownClears ==
  bus' = [bus EXCEPT !.mode = "Off", !.owner = BUS_UNOWNED, !.data = 0]
\* Mutant: the first operand byte is taken and the bus left on.
EndReadLeavesOn == bus' = bus

\* set_bus_mode(RW::Off), with and without disown_bus().
EndRead       == bus' = [bus EXCEPT !.mode = "Off"]
EndReadDisown == bus' = [bus EXCEPT !.mode = "Off", !.owner = BUS_UNOWNED]

\* A device that answers sees the bus switched on in either direction.
BusActive == bus.mode \in {"Read", "Write"}
=============================================================================
