------------------------------- MODULE Z80Alu -------------------------------
(***************************************************************************)
(* The arithmetic of instructions.cpp and flags.cpp as operators from the   *)
(* operands and F to the result and the new F.  F is a record of its eight  *)
(* bits (s, z, y, h, x, p, n, c, as in flags.hpp).  The carries and         *)
(* overflows are the bit tricks of the code, on sums as wide as it keeps    *)
(* them, and not what they are meant to compute: Z80Arithmetic says that.   *)
(***************************************************************************)
EXTENDS Z80Word, FiniteSets

Masks == {1, 2, 4, 8, 16, 32, 64, 128}

\* v & m is not zero, for m a power of two.
Has(v, m) == (v \div m) % 2 = 1

\* The byte whose bits are ms.
Weigh(ms) ==
    LET w(m) == IF m \in ms THEN m ELSE 0
    IN  w(1) + w(2) + w(4) + w(8) + w(16) + w(32) + w(64) + w(128)

And8(u, v) == Weigh({m \in Masks : Has(u, m) /\ Has(v, m)})
Or8(u, v)  == Weigh({m \in Masks : Has(u, m) \/ Has(v, m)})
Xor8(u, v) == Weigh({m \in Masks : Has(u, m) # Has(v, m)})

\* Bit m of u ^ v ^ w.
Odd(u, v, w, m) == (Has(u, m) # Has(v, m)) # Has(w, m)

Parity(v) == Cardinality({m \in Masks : Has(v, m)}) % 2 = 0

NoFlags == [s |-> FALSE, z |-> FALSE, y |-> FALSE, h |-> FALSE,
            x |-> FALSE, p |-> FALSE, n |-> FALSE, c |-> FALSE]

Sz53(v) ==
    [NoFlags EXCEPT !.s = Has(v, 128), !.z = (v = 0), !.y = Has(v, 32), !.x = Has(v, 8)]
Sz53p(v) == [Sz53(v) EXCEPT !.p = Parity(v)]

CarryIn(f, with_carry) == IF with_carry /\ f.c THEN 1 ELSE 0

-----------------------------------------------------------------------------
(* Eight bits.  A result record has the value r and the flags f.             *)

\* MUTANT of AluAdd: the overflow looks at the operand instead of the sum.
AluAddOverflow(a, v, f, with_carry) ==
    LET sum == a + v + CarryIn(f, with_carry)
        r   == sum % 256
    IN  [r |-> r,
         f |-> [Sz53(r) EXCEPT !.c = Has(sum, 256), !.h = Odd(a, v, sum, 16),
                               !.p = Has(v, 128) # Has(sum, 128)]]

AluAdd(a, v, f, with_carry) ==
    LET sum == a + v + CarryIn(f, with_carry)
        r   == sum % 256
    IN  [r |-> r,
         f |-> [Sz53(r) EXCEPT !.c = Has(sum, 256), !.h = Odd(a, v, sum, 16),
                               !.p = Has(a, 128) = Has(v, 128) /\ Has(a, 128) # Has(sum, 128)]]

\* What SUB, SBC and CP share: diff is a uint16_t.
Borrows(a, v, diff, f) ==
    [f EXCEPT !.n = TRUE, !.c = Has(diff, 256), !.h = Odd(a, v, diff, 16),
              !.p = Has(a, 128) # Has(v, 128) /\ Has(a, 128) # Has(diff, 128)]

AluSub(a, v, f, with_carry) ==
    LET diff == W16(a - v - CarryIn(f, with_carry))
    IN  [r |-> diff % 256, f |-> Borrows(a, v, diff, Sz53(diff % 256))]

\* CP shows bits 5 and 3 of the operand.
AluCp(a, v) ==
    LET diff == W16(a - v)
    IN  Borrows(a, v, diff, [Sz53(diff % 256) EXCEPT !.y = Has(v, 32), !.x = Has(v, 8)])

AluAnd(a, v) == [r |-> And8(a, v), f |-> [Sz53p(And8(a, v)) EXCEPT !.h = TRUE]]
AluOr(a, v)  == [r |-> Or8(a, v), f |-> Sz53p(Or8(a, v))]
AluXor(a, v) == [r |-> Xor8(a, v), f |-> Sz53p(Xor8(a, v))]

\* MUTANT of AluInc: C is not kept.
AluIncAdd(v, f) == AluAdd(v, 1, f, FALSE)

AluInc(v, f) ==
    LET r == (v + 1) % 256
    IN  [r |-> r, f |-> [Sz53(r) EXCEPT !.c = f.c, !.h = (r % 16 = 0), !.p = (r = 128)]]

AluDec(v, f) ==
    LET r == (v - 1) % 256
    IN  [r |-> r, f |-> [Sz53(r) EXCEPT !.c = f.c, !.n = TRUE,
                                        !.h = (r % 16 = 15), !.p = (r = 127)]]

\* MUTANT of Neg: carry and half carry as if 0 were an operand like any other.
NegCarry(a) == [r |-> (0 - a) % 256, f |-> [Sz53((0 - a) % 256) EXCEPT !.n = TRUE]]

\* NEG is written out in dispatch_ed, CPL in dispatch_unprefixed.
Neg(a) ==
    LET r == (0 - a) % 256
    IN  [r |-> r, f |-> [Sz53(r) EXCEPT !.n = TRUE, !.c = (a # 0),
                                        !.h = (a % 16 # 0), !.p = (a = 128)]]

Cpl(a, f) ==
    LET r == 255 - a
    IN  [r |-> r, f |-> [f EXCEPT !.h = TRUE, !.n = TRUE, !.y = Has(r, 32), !.x = Has(r, 8)]]

\* MUTANT of AluDaa: a carry that came in does not go out.
AluDaaDropsCarry(a, f) ==
    LET lo == IF f.h \/ a % 16 > 9 THEN 6 ELSE 0
        by == lo + (IF f.c \/ a > 153 THEN 96 ELSE 0)
        r  == (IF f.n THEN a - by ELSE a + by) % 256
    IN  [r |-> r, f |-> [Sz53p(r) EXCEPT !.n = f.n, !.c = (a > 153), !.h = Has(a, 16) # Has(r, 16)]]

AluDaa(a, f) ==
    LET lo == IF f.h \/ a % 16 > 9 THEN 6 ELSE 0
        hi == f.c \/ a > 153
        by == lo + (IF hi THEN 96 ELSE 0)
        r  == (IF f.n THEN a - by ELSE a + by) % 256
    IN  [r |-> r, f |-> [Sz53p(r) EXCEPT !.n = f.n, !.c = hi, !.h = Has(a, 16) # Has(r, 16)]]

-----------------------------------------------------------------------------
(* Rotates and shifts: r is the byte, c the bit that falls out.              *)

Left(v, in)  == [r |-> ((2 * v) % 256) + (IF in THEN 1 ELSE 0), c |-> Has(v, 128)]
Right(v, in) == [r |-> (v \div 2) + (IF in THEN 128 ELSE 0), c |-> Has(v, 1)]

\* MUTANT of Rotated: RR shifts in the bit that falls out, as RRC does.
RotatedRrAsRrc(name, v, f) ==
    IF name = "rr" THEN Right(v, Has(v, 1)) ELSE
    CASE name = "rlc" -> Left(v, Has(v, 128))
      [] name = "rl"  -> Left(v, f.c)
      [] name = "sla" -> Left(v, FALSE)
      [] name = "sll" -> Left(v, TRUE)
      [] name = "rrc" -> Right(v, Has(v, 1))
      [] name = "sra" -> Right(v, Has(v, 128))
      [] name = "srl" -> Right(v, FALSE)

Rotated(name, v, f) ==
    CASE name = "rlc" -> Left(v, Has(v, 128))
      [] name = "rl"  -> Left(v, f.c)
      [] name = "sla" -> Left(v, FALSE)
      [] name = "sll" -> Left(v, TRUE)
      [] name = "rrc" -> Right(v, Has(v, 1))
      [] name = "rr"  -> Right(v, f.c)
      [] name = "sra" -> Right(v, Has(v, 128))
      [] name = "srl" -> Right(v, FALSE)

\* cb_rlc .. cb_srl.
Cb(name, v, f) ==
    LET out == Rotated(name, v, f) IN [r |-> out.r, f |-> [Sz53p(out.r) EXCEPT !.c = out.c]]

\* MUTANT of RotateA: parity and zero as in the CB page.
RotateASets(name, a, f) ==
    LET out == Rotated(name, a, f) IN [r |-> out.r, f |-> [Sz53(out.r) EXCEPT !.c = out.c]]

\* alu_rlca .. alu_rra: S, Z and P stay.
RotateA(name, a, f) ==
    LET out == Rotated(name, a, f)
    IN  [r |-> out.r, f |-> [f EXCEPT !.c = out.c, !.h = FALSE, !.n = FALSE,
                                      !.y = Has(out.r, 32), !.x = Has(out.r, 8)]]

\* RLD and RRD: the low digit of A and the two digits of the byte m.
Rld(a, m, f) ==
    LET r == 16 * (a \div 16) + (m \div 16)
    IN  [r |-> r, m |-> 16 * (m % 16) + (a % 16), f |-> [Sz53p(r) EXCEPT !.c = f.c]]

Rrd(a, m, f) ==
    LET r == 16 * (a \div 16) + (m % 16)
    IN  [r |-> r, m |-> 16 * (a % 16) + (m \div 16), f |-> [Sz53p(r) EXCEPT !.c = f.c]]

\* cb_bit, cb_res and cb_set of the bit m; source gives bits 5 and 3.
Bit(m, v, source, f) ==
    [NoFlags EXCEPT !.c = f.c, !.h = TRUE, !.z = ~Has(v, m), !.p = ~Has(v, m),
                    !.s = (m = 128 /\ Has(v, m)), !.y = Has(source, 32), !.x = Has(source, 8)]

Set(m, v) == Or8(v, m)
Res(m, v) == And8(v, 255 - m)

-----------------------------------------------------------------------------
(* Sixteen bits.  The code keeps uint32_t sums; nothing above bit 16 of one  *)
(* is looked at.                                                             *)

\* H, C and the two undocumented flags of a 16-bit sum or difference.
PairFlags(u, v, sum, f) ==
    [f EXCEPT !.h = Odd(u, v, sum, 4096), !.c = Has(sum, 65536),
              !.y = Has(sum, 8192), !.x = Has(sum, 2048)]

Zero16(w) == [NoFlags EXCEPT !.s = Has(w, 32768), !.z = (w = 0)]

AluAdd16(d, v, f) ==
    [r |-> W16(d + v), f |-> PairFlags(d, v, d + v, [f EXCEPT !.n = FALSE])]

\* MUTANT of AluAdc16: the half carry of the low byte.
AluAdc16LowHalf(hl, v, f) ==
    LET sum == hl + v + CarryIn(f, TRUE)
    IN  [r |-> W16(sum),
         f |-> [PairFlags(hl, v, sum, Zero16(W16(sum))) EXCEPT
                  !.h = Odd(hl, v, sum, 16),
                  !.p = Has(hl, 32768) = Has(v, 32768) /\ Has(hl, 32768) # Has(sum, 32768)]]

AluAdc16(hl, v, f) ==
    LET sum == hl + v + CarryIn(f, TRUE)
    IN  [r |-> W16(sum),
         f |-> [PairFlags(hl, v, sum, Zero16(W16(sum))) EXCEPT
                  !.p = Has(hl, 32768) = Has(v, 32768) /\ Has(hl, 32768) # Has(sum, 32768)]]

AluSbc16(hl, v, f) ==
    LET diff == (hl - v - CarryIn(f, TRUE)) % 131072
    IN  [r |-> W16(diff),
         f |-> [PairFlags(hl, v, diff, Zero16(W16(diff))) EXCEPT
                  !.n = TRUE,
                  !.p = Has(hl, 32768) # Has(v, 32768) /\ Has(hl, 32768) # Has(diff, 32768)]]

=============================================================================
