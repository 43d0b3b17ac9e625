--------------------------- MODULE Z80Arithmetic ---------------------------
(***************************************************************************)
(* A program that computes on the accumulator with numbers of one byte or   *)
(* two, a byte at a time:                                                   *)
(*   sum, difference   ADD or ADC (SUB or SBC), then ADC (SBC), and DAA      *)
(*                     behind each in decimal,                              *)
(*   double, halve     a shift or rotate, then rotates, of the CB page, of  *)
(*                     A, or ADD and ADC of a byte to itself,               *)
(*   turn, turn9       rotates of one byte through eight bits or, with C,   *)
(*                     nine, in any mixture of directions,                  *)
(*   digits            RLD and RRD of A and a byte, in any mixture.         *)
(* Between two bytes an INC, DEC or CPL counts or steps an index.  Loads,   *)
(* stores and the loop's jumps touch no flag and are no steps.              *)
(***************************************************************************)
EXTENDS Z80Alu, Sequences

CONSTANTS
    Operands,     \* Operands[n]: numbers of n bytes to compute with
    Counters,     \* values of the register the program counts in
    Accumulators  \* values of A beside a byte of two digits

ASSUME OperandsAssumption ==
    /\ Len(Operands) = 2
    /\ \A n \in 1 .. 2 : Operands[n] \subseteq 0 .. 256 ^ n - 1
    /\ Counters \subseteq Byte /\ Accumulators \subseteq Byte

VARIABLES
    job,        \* what the program computes, on numbers of job.n bytes
    at,         \* bytes finished; or turns made, left less right
    due,        \* the next instruction: "compute", "adjust", "count", or "done"
    a,          \* A
    f,          \* F
    out,        \* the bytes of the result so far as a number; of digits, the byte
    cb          \* a CB rotate has set Z and P/V since the turns began

vars == <<job, at, due, a, f, out, cb>>

ByteAt(number, k) == (number \div 256 ^ k) % 256

IsDecimal(number) ==
    \A k \in 0 .. 1 : LET b == ByteAt(number, k) IN b % 16 < 10 /\ b \div 16 < 10

\* An ADD or SUB starts with C set, an ADC or SBC with either.
SumJobs(n) ==
    {j \in [kind    : {"sum", "difference"},
            n       : {n},
            x       : Operands[n],
            y       : Operands[n],
            decimal : BOOLEAN,
            chained : BOOLEAN,    \* ADC or SBC already for the first byte
            c       : BOOLEAN] :  \* C before it
        /\ j.chained \/ j.c
        /\ j.decimal => IsDecimal(j.x) /\ IsDecimal(j.y)}

ShiftJobs(n) ==
         [kind : {"double"}, n : {n}, first : {"sla", "sll", "rl", "add", "adc"},
          x : Operands[n], c : BOOLEAN]
    \cup [kind : {"halve"}, n : {n}, first : {"srl", "sra", "rr"}, x : Operands[n], c : BOOLEAN]

TurnJobs ==
         [kind : {"turn", "turn9"}, n : {1}, x : Byte, c : BOOLEAN]
    \cup [kind : {"digits"}, n : {1}, x : Byte, a : Accumulators, c : BOOLEAN]

Init ==
    /\ job \in SumJobs(1) \cup SumJobs(2) \cup ShiftJobs(1) \cup ShiftJobs(2) \cup TurnJobs
    /\ at = 0
    /\ due = "compute"
    /\ a = IF job.kind = "digits" THEN job.a ELSE ByteAt(job.x, 0)
    /\ f = [NoFlags EXCEPT !.c = job.c]
    /\ out = IF job.kind = "digits" THEN job.x ELSE 0
    /\ cb = FALSE

-----------------------------------------------------------------------------

\* The byte r goes to number, and the program counts before the next one.
Stored(r, number) ==
    /\ a' = r
    /\ out' = number
    /\ at' = at + 1
    /\ due' = IF at + 1 = job.n THEN "done" ELSE "count"
    /\ UNCHANGED <<job, cb>>

Computed(result) ==
    /\ f' = result.f
    /\ IF job.decimal
         THEN a' = result.r /\ due' = "adjust" /\ UNCHANGED <<job, at, out, cb>>
         ELSE Stored(result.r, out + 256 ^ at * result.r)

Sum ==
    /\ due = "compute" /\ job.kind = "sum"
    /\ Computed(AluAdd(ByteAt(job.x, at), ByteAt(job.y, at), f, at > 0 \/ job.chained))

Difference ==
    /\ due = "compute" /\ job.kind = "difference"
    /\ Computed(AluSub(ByteAt(job.x, at), ByteAt(job.y, at), f, at > 0 \/ job.chained))

Adjust ==
    /\ due = "adjust"
    /\ LET daa == AluDaa(a, f) IN f' = daa.f /\ Stored(daa.r, out + 256 ^ at * daa.r)

\* INC r, DEC r, or CPL of a mask: everything but C is overwritten.
Count ==
    /\ due = "count"
    /\ \E v \in Counters : f' \in {AluInc(v, f).f, AluDec(v, f).f, Cpl(v, f).f}
    /\ due' = "compute"
    /\ UNCHANGED <<job, at, a, out, cb>>

\* The result of one instruction on the byte b: CB page, A only, or ALU.
Results(name, b) ==
    CASE name \in {"sla", "sll", "sra", "srl"} -> {Cb(name, b, f)}
      [] name \in {"rl", "rr"} -> {Cb(name, b, f), RotateA(name, b, f)}
      [] name = "add" -> {AluAdd(b, b, f, FALSE)}
      [] name = "adc" -> {AluAdd(b, b, f, TRUE)}

DoubleByte ==
    /\ due = "compute" /\ job.kind = "double"
    /\ \E name \in (IF at = 0 THEN {job.first} ELSE {"rl", "adc"}) :
         \E result \in Results(name, ByteAt(job.x, at)) :
             f' = result.f /\ Stored(result.r, out + 256 ^ at * result.r)

HalveByte ==
    /\ due = "compute" /\ job.kind = "halve"
    /\ \E result \in Results(IF at = 0 THEN job.first ELSE "rr", ByteAt(job.x, job.n - 1 - at)) :
         f' = result.f /\ Stored(result.r, 256 * out + result.r)

\* One turn by a CB rotate, or by the rotate of A.
Turned(name, places, by) ==
    /\ \/ LET turn == Cb(name, a, f) IN a' = turn.r /\ f' = turn.f /\ cb' = TRUE
       \/ LET turn == RotateA(name, a, f) IN a' = turn.r /\ f' = turn.f /\ UNCHANGED cb
    /\ at' = (at + by) % places
    /\ UNCHANGED <<job, due, out>>

Turn ==
    /\ job.kind = "turn"
    /\ Turned("rlc", 8, 1) \/ Turned("rrc", 8, -1)

Turn9 ==
    /\ job.kind = "turn9"
    /\ Turned("rl", 9, 1) \/ Turned("rr", 9, -1)

TurnDigits ==
    /\ job.kind = "digits"
    /\ \/ LET turn == Rld(a, out, f)
          IN  a' = turn.r /\ out' = turn.m /\ f' = turn.f /\ at' = (at + 1) % 3
       \/ LET turn == Rrd(a, out, f)
          IN  a' = turn.r /\ out' = turn.m /\ f' = turn.f /\ at' = (at - 1) % 3
    /\ UNCHANGED <<job, due, cb>>

Done ==
    /\ due = "done"
    /\ UNCHANGED vars

Next ==
    \/ Sum \/ Difference \/ Adjust \/ Count
    \/ DoubleByte \/ HalveByte \/ Turn \/ Turn9 \/ TurnDigits
    \/ Done

Spec == Init /\ [][Next]_vars

-----------------------------------------------------------------------------
(* Properties                                                               *)

Summing == job.kind \in {"sum", "difference"}

\* The low k bytes of a number, and of a decimal number its value.
Low(number, k) == number % 256 ^ k

Digits(number) ==
    LET pair(k) == LET b == ByteAt(number, k) IN 100 ^ k * (10 * (b \div 16) + (b % 16))
    IN  pair(0) + pair(1)

One(b) == IF b THEN 1 ELSE 0
Incoming == One(job.chained /\ job.c)
Outgoing == One(f.c)

\* After k bytes the bytes stored and C make up the exact sum or difference
\* of the low k bytes of the operands, whatever was counted in between: the
\* carry of alu_add and alu_sub is right and alu_inc, alu_dec and CPL keep it.
LongExact ==
    Summing /\ ~job.decimal /\ at > 0 =>
        IF job.kind = "sum"
          THEN out + 256 ^ at * Outgoing = Low(job.x, at) + Low(job.y, at) + Incoming
          ELSE out - 256 ^ at * Outgoing = Low(job.x, at) - Low(job.y, at) - Incoming

\* At the end of a decimal sum or difference every byte is two decimal digits
\* and the number with its carry is the decimal result: DAA finds in A, C, H
\* and N, and nothing else, what to correct, and leaves the right C for the
\* next byte.
DecimalExact ==
    Summing /\ job.decimal /\ due = "done" =>
        /\ IsDecimal(out)
        /\ IF job.kind = "sum"
             THEN Digits(out) + 100 ^ job.n * Outgoing = Digits(job.x) + Digits(job.y) + Incoming
             ELSE Digits(out) - 100 ^ job.n * Outgoing = Digits(job.x) - Digits(job.y) - Incoming

\* As the program compares two numbers: after the last byte S and P/V together
\* are the sign of the exact signed result.  P/V alone says that it does not
\* fit.
AsSigned(number) == IF number < 256 ^ job.n \div 2 THEN number ELSE number - 256 ^ job.n

SignedOrder ==
    Summing /\ ~job.decimal /\ due = "done" =>
        LET exact == IF job.kind = "sum" THEN AsSigned(job.x) + AsSigned(job.y) + Incoming
                                         ELSE AsSigned(job.x) - AsSigned(job.y) - Incoming
        IN  /\ (f.s # f.p) = (exact < 0)
            /\ f.p = (exact # AsSigned(out))

\* ADD HL,rr, ADC HL,rr and SBC HL,rr agree with two 8-bit operations in
\* result and in every flag but Z, which ADC and SBC set from all sixteen bits
\* and ADD, with S and P/V, leaves alone.  The code computes the flags of a
\* pair by formulas of its own.
PairMatchesChain ==
    job.n = 2 /\ Summing /\ ~job.decimal /\ due = "done" =>
        LET before == [NoFlags EXCEPT !.c = job.c]
            pair   == IF job.kind = "sum" THEN AluAdc16(job.x, job.y, before)
                                          ELSE AluSbc16(job.x, job.y, before)
            add(g) == AluAdd16(job.x, job.y, g)
        IN  IF job.chained
              THEN pair.r = out /\ pair.f = [f EXCEPT !.z = (out = 0)]
              ELSE job.kind = "sum" =>
                     \A g \in {before, [before EXCEPT !.s = TRUE, !.z = TRUE, !.p = TRUE]} :
                         /\ add(g).r = out
                         /\ add(g).f = [f EXCEPT !.s = g.s, !.z = g.z, !.p = g.p]

\* The instructions with formulas of their own agree with the ones they
\* stand for: CP is SUB but for bits 5 and 3, NEG is SUB from zero, INC and
\* DEC are ADD and SUB of one that keep C, BIT is AND with the bit that keeps C
\* and takes bits 5 and 3 from elsewhere, RES and SET undo each other, and AND,
\* OR and XOR make up a sum.
ShortForms ==
    job.n = 1 /\ job.kind = "difference" /\ ~job.decimal /\ due = "done" =>
        LET x == job.x  y == job.y  keep == [NoFlags EXCEPT !.c = job.c]
        IN  /\ ~job.chained => [f EXCEPT !.y = Has(y, 32), !.x = Has(y, 8)] = AluCp(x, y)
            /\ Neg(x) = AluSub(0, x, keep, FALSE)
            /\ AluInc(x, keep).f = [AluAdd(x, 1, keep, FALSE).f EXCEPT !.c = job.c]
            /\ AluDec(x, keep).f = [AluSub(x, 1, keep, FALSE).f EXCEPT !.c = job.c]
            /\ \A m \in Masks :
                 /\ Bit(m, x, y, keep) = [AluAnd(x, m).f EXCEPT !.c = job.c, !.y = Has(y, 32),
                                                                !.x = Has(y, 8)]
                 /\ Res(m, Set(m, x)) = Res(m, x) /\ Set(m, Res(m, x)) = Set(m, x)
                 /\ Set(m, x) - Res(m, x) = m
            /\ AluAnd(x, y).r + AluOr(x, y).r = x + y
            /\ AluOr(x, y).r - AluAnd(x, y).r = AluXor(x, y).r

\* A number is doubled or halved exactly across its bytes: the bytes shifted
\* so far and C hold twice the low bytes with what came in below, or half the
\* high bytes (rounded down, as a signed number if SRA began) with C the bit
\* that fell out, whichever instructions carried the bit over.
ShiftExact ==
    /\ job.kind = "double" /\ at > 0 =>
         out + 256 ^ at * One(f.c) =
             2 * (job.x % 256 ^ at)
               + One(job.first = "sll" \/ (job.first \in {"rl", "adc"} /\ job.c))
    /\ job.kind = "halve" /\ at > 0 =>
         LET high == job.x \div 256 ^ (job.n - at)
             top  == CASE job.first = "srl" -> FALSE
                       [] job.first = "sra" -> 2 * high >= 256 ^ at
                       [] job.first = "rr"  -> job.c
         IN  2 * out + One(f.c) = high + One(top) * 256 ^ at

\* In eight places bit k is where the turns have put it, and Z and P/V still
\* tell of the byte that was there, if a CB turn set them, since the turns keep
\* the number of ones.
EightExact ==
    job.kind = "turn" =>
        /\ \A k \in 0 .. 7 : Has(job.x, 2 ^ k) = Has(a, 2 ^ ((k + at) % 8))
        /\ cb => f.z = (job.x = 0) /\ f.p = Parity(job.x)
        /\ ~cb => ~f.z /\ ~f.p

\* In nine places C is the ninth.
NineExact ==
    job.kind = "turn9" =>
        LET before == job.x + 256 * One(job.c)
            now    == a + 256 * One(f.c)
        IN  \A k \in 0 .. 8 : Has(before, 2 ^ k) = Has(now, 2 ^ ((k + at) % 9))

\* Three digits in a row as a number, and the number with them turned
\* i times.
DigitNumber(acc, byte) == 256 * (acc % 16) + byte
DigitTurn(n) == ((16 * n) % 4096) + (n \div 256)
DigitsTurned(n, i) ==
    CASE i = 0 -> n
      [] i = 1 -> DigitTurn(n)
      [] i = 2 -> DigitTurn(DigitTurn(n))

\* RLD and RRD turn the digits (low of A, high of the byte, low of the byte),
\* keep the high digit of A and C, and three of one, or one of each, give
\* everything back.
DigitsExact ==
    job.kind = "digits" =>
        /\ DigitNumber(a, out) = DigitsTurned(DigitNumber(job.a, job.x), at)
        /\ a \div 16 = job.a \div 16
        /\ f.c = job.c

\* Turns of a byte lose nothing, after any mixture of turns left and right, by
\* the CB page or by the instructions of A, and RLD and RRD.
TurnExact == EightExact /\ NineExact /\ DigitsExact

=============================================================================
