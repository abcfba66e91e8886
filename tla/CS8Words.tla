------------------------------ MODULE CS8Words ------------------------------
(***************************************************************************)
(* The machine arithmetic of the CS8 emulator: the integer types of the    *)
(* C++ source and the conversions it applies, implicitly or by a cast.     *)
(*                                                                         *)
(*   Byte   uint8_t    the latches rOP, rR0 and rR1                        *)
(*   UWord  uint16_t   bus_size_16: bus data, bus addresses, memory cells  *)
(*   SWord  int16_t    register_type: every register of the CPU            *)
(*                                                                         *)
(* The source is C++20, in which signed integers are two's complement and  *)
(* a conversion to a narrower signed type is reduction modulo 2^16.        *)
(***************************************************************************)
EXTENDS Integers

\* An interval as a comprehension: the provers see two inequalities, and not
\* the enumeration into which they unfold a literal lo .. hi.
Between(lo, hi) == {x \in Int : lo <= x /\ x <= hi}

Byte  == Between(0, 255)
UWord == Between(0, 65535)
SWord == Between(-32768, 32767)

ToByte(x)  == x % 256
ToUWord(x) == x % 65536
ToSWord(x) == ((x + 32768) % 65536) - 32768

\* (char)c on a target whose char is signed: what getchar() returned, or a
\* byte of the program file, before it is widened to a word.
ToChar(c) == ((c + 128) % 256) - 128

LowNibble(b)  == b % 16
HighNibble(b) == b \div 16

-----------------------------------------------------------------------------
(***************************************************************************)
(* Division and remainder of C++ truncate towards zero, \div and % of TLA+ *)
(* round towards minus infinity.                                           *)
(***************************************************************************)
Magnitude(x) == IF x < 0 THEN -x ELSE x

Quotient(a, b) ==
  LET q == Magnitude(a) \div Magnitude(b)
  IN  IF (a < 0) = (b < 0) THEN q ELSE -q

Remainder(a, b) == a - b * Quotient(a, b)

-----------------------------------------------------------------------------
(***************************************************************************)
(* Bitwise conjunction of two 16-bit words, by doubling the width: the     *)
(* conjunction of 2n bits is that of the low and that of the high halves.  *)
(***************************************************************************)
And1(a, b)  == (a % 2) * (b % 2)
And2(a, b)  == And1(a, b) + 2   * And1(a \div 2,   b \div 2)
And4(a, b)  == And2(a, b) + 4   * And2(a \div 4,   b \div 4)
And8(a, b)  == And4(a, b) + 16  * And4(a \div 16,  b \div 16)
And16(a, b) == And8(a, b) + 256 * And8(a \div 256, b \div 256)

\* ~(a & b) of two registers, stored back into a register.
Nand(a, b) == ToSWord(-1 - And16(ToUWord(a), ToUWord(b)))
=============================================================================
