--------------------------- MODULE CS8SerialPort ---------------------------
(***************************************************************************)
(* The serial port (class SerialPort in serial_port.hxx).  It answers the  *)
(* bus addresses SerialBegin .. SerialEnd but acts on the first one only:  *)
(* a read takes a character from standard input, a write prints one.       *)
(*                                                                         *)
(* stdin and stdout are the histories of the characters taken and printed. *)
(* Both streams belong to the environment: MaxStdin is how many values     *)
(* getchar() gets to return before it blocks for good, MaxStdout how many  *)
(* characters fit in the pipe behind stdout before fflush() does.          *)
(***************************************************************************)
EXTENDS CS8Bus, Sequences

CONSTANTS
  SerialBegin, SerialEnd,
  Characters,             \* what getchar() may return, EOF (-1) included
  MaxStdin, MaxStdout

InputChar == Between(-1, 255)

ASSUME SerialAssumption ==
  /\ SerialBegin \in UWord
  /\ SerialEnd \in UWord
  /\ Characters \subseteq InputChar
  /\ MaxStdin \in Nat
  /\ MaxStdout \in Nat

VARIABLES stdin, stdout

serialVars == <<stdin, stdout>>

SerialType == stdin \in Seq(InputChar) /\ stdout \in Seq(Byte)

SerialInit == stdin = <<>> /\ stdout = <<>>

InSerial(address) == address \in SerialBegin .. SerialEnd
\* Begin - address: zero for the first address, negative for the others.
PortOffset(address) == SerialBegin - address

\* The word getchar() puts on the bus: (char) widened to uint16_t.
PortWord(c) == ToUWord(ToChar(c))

AtPort == InSerial(bus.address) /\ PortOffset(bus.address) = 0

SerialIgnores ==
  /\ ~ (BusActive /\ AtPort)
  /\ UNCHANGED <<bus, serialVars>>

SerialRead ==
  /\ bus.mode = "Read" /\ AtPort
  /\ Len(stdin) < MaxStdin
  /\ \E c \in Characters :
       /\ bus' = [bus EXCEPT !.data = PortWord(c)]
       /\ stdin' = Append(stdin, c)
  /\ UNCHANGED stdout

SerialWrite ==
  /\ bus.mode = "Write" /\ AtPort
  /\ Len(stdout) < MaxStdout
  /\ stdout' = Append(stdout, ToByte(bus.data))
  /\ UNCHANGED <<bus, stdin>>

SerialSimulate == SerialIgnores \/ SerialRead \/ SerialWrite
=============================================================================
