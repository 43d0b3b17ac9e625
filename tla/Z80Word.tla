------------------------------ MODULE Z80Word ------------------------------
(***************************************************************************)
(* The fixed-width integers of the core.  std::uint8_t and std::uint16_t   *)
(* are the sets Byte and Word; a static_cast to uint16_t is W16, and a     *)
(* 16-bit pair is split into and joined from its two bytes exactly as      *)
(* registers.hpp does for AF, BC, DE and HL.                               *)
(***************************************************************************)
EXTENDS Integers

Byte == 0 .. 255
MaxWord == 65535
Word == 0 .. MaxWord

\* MUTANT of W16: the cast is missing.
Uncast(n) == n

W16(n) == n % 65536

HiByte(w) == w \div 256
LoByte(w) == w % 256
Join(hi, lo) == 256 * hi + lo

\* static_cast<std::int8_t>(b): the displacement of JR, DJNZ and (IX+d).
Signed(b) == IF b < 128 THEN b ELSE b - 256

=============================================================================
