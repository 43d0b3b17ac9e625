------------------------ MODULE Z80ArithmeticProofs ------------------------
(***************************************************************************)
(* What the programs of Z80Arithmetic compute, for any numbers to compute   *)
(* with and any values counted between their bytes.                         *)
(***************************************************************************)
EXTENDS Z80Arithmetic, FiniteSetTheorems, TLAPS

-----------------------------------------------------------------------------
(* F as a record                                                             *)

Names == {"s", "z", "y", "h", "x", "p", "n", "c"}
IsFlags(g) == g = [q \in Names |-> g[q]]

\* Two values of F with the same bits are the same.
LEMMA SameFlags ==
    ASSUME NEW g, NEW h, IsFlags(g), IsFlags(h),
           g.s = h.s, g.z = h.z, g.y = h.y, g.h = h.h,
           g.x = h.x, g.p = h.p, g.n = h.n, g.c = h.c
    PROVE  g = h
BY SMT DEF IsFlags, Names

\* To write one bit leaves a value of F.
LEMMA Written ==
    ASSUME NEW g, NEW b, DOMAIN g = Names
    PROVE  /\ IsFlags([g EXCEPT !.h = b]) /\ IsFlags([g EXCEPT !.p = b])
           /\ IsFlags([g EXCEPT !.c = b]) /\ IsFlags([g EXCEPT !.x = b])
           /\ IsFlags([g EXCEPT !.z = b])
<1>1. IsFlags([g EXCEPT !.h = b]) BY SMT DEF IsFlags, Names
<1>2. IsFlags([g EXCEPT !.p = b]) BY SMT DEF IsFlags, Names
<1>3. IsFlags([g EXCEPT !.c = b]) BY SMT DEF IsFlags, Names
<1>4. IsFlags([g EXCEPT !.x = b]) BY SMT DEF IsFlags, Names
<1>5. IsFlags([g EXCEPT !.z = b]) BY SMT DEF IsFlags, Names
<1> QED BY <1>1, <1>2, <1>3, <1>4, <1>5

\* S, Z, Y and X come from the value; P, H, N and C are clear.
OfValue(g, v) ==
    /\ DOMAIN g = Names
    /\ g.s = Has(v, 128) /\ g.z = (v = 0) /\ g.y = Has(v, 32) /\ g.x = Has(v, 8)
    /\ g.h = FALSE /\ g.p = FALSE /\ g.n = FALSE /\ g.c = FALSE

\* That is what the table sz53 gives.
LEMMA Sz53Fields == ASSUME NEW v PROVE OfValue(Sz53(v), v)
<1>1. DOMAIN Sz53(v) = Names BY SMT DEF Names, NoFlags, Sz53
<1>2. Sz53(v).s = Has(v, 128) BY SMT DEF NoFlags, Sz53
<1>3. Sz53(v).z = (v = 0) BY SMT DEF NoFlags, Sz53
<1>4. Sz53(v).y = Has(v, 32) BY SMT DEF NoFlags, Sz53
<1>5. Sz53(v).x = Has(v, 8) BY SMT DEF NoFlags, Sz53
<1>6. Sz53(v).h = FALSE BY SMT DEF NoFlags, Sz53
<1>7. Sz53(v).p = FALSE BY SMT DEF NoFlags, Sz53
<1>8. Sz53(v).n = FALSE BY SMT DEF NoFlags, Sz53
<1>9. Sz53(v).c = FALSE BY SMT DEF NoFlags, Sz53
<1> QED BY <1>1, <1>2, <1>3, <1>4, <1>5, <1>6, <1>7, <1>8, <1>9 DEF OfValue

-----------------------------------------------------------------------------
(* The eight-bit ALU                                                         *)

\* The sum and the uint16_t difference that alu_add and alu_sub compute.
SumOf(u, v, g, w)  == u + v + CarryIn(g, w)
DiffOf(u, v, g, w) == W16(u - v - CarryIn(g, w))

\* The carry in is a bit.
LEMMA CarryInType == ASSUME NEW g, NEW w PROVE CarryIn(g, w) \in {0, 1}
BY DEF CarryIn

\* F after an addition of u and v, and after a subtraction.
AfterAdd(g, u, v, sum) ==
    /\ IsFlags(g)
    /\ g.c = Has(sum, 256) /\ g.h = Odd(u, v, sum, 16)
    /\ g.p = (Has(u, 128) = Has(v, 128) /\ Has(u, 128) # Has(sum, 128))
    /\ g.s = Has(sum % 256, 128) /\ g.z = (sum % 256 = 0)
    /\ g.y = Has(sum % 256, 32) /\ g.x = Has(sum % 256, 8)
    /\ g.n = FALSE

AfterSub(g, u, v, diff) ==
    /\ IsFlags(g)
    /\ g.c = Has(diff, 256) /\ g.h = Odd(u, v, diff, 16)
    /\ g.p = (Has(u, 128) # Has(v, 128) /\ Has(u, 128) # Has(diff, 128))
    /\ g.s = Has(diff % 256, 128) /\ g.z = (diff % 256 = 0)
    /\ g.y = Has(diff % 256, 32) /\ g.x = Has(diff % 256, 8)
    /\ g.n = TRUE

\* What ADD and ADC leave.
LEMMA AddFields ==
    ASSUME NEW u, NEW v, NEW g, NEW w
    PROVE  /\ AluAdd(u, v, g, w).r = SumOf(u, v, g, w) % 256
           /\ AfterAdd(AluAdd(u, v, g, w).f, u, v, SumOf(u, v, g, w))
<1> DEFINE sum == SumOf(u, v, g, w)
           add == AluAdd(u, v, g, w)
           r  == sum % 256
           g0 == Sz53(r)
           g1 == [g0 EXCEPT !.c = Has(sum, 256), !.h = Odd(u, v, sum, 16)]
           over == Has(u, 128) = Has(v, 128) /\ Has(u, 128) # Has(sum, 128)
<1>1. add.r = r /\ add.f = [g1 EXCEPT !.p = over] BY SMT DEF AluAdd, SumOf
<1>2. r = sum % 256 OBVIOUS
<1> HIDE DEF r, over, sum, add
<1>3. OfValue(g0, r) BY Sz53Fields
<1> HIDE DEF g0
<1>4. DOMAIN g1 = Names BY <1>3, SMT DEF OfValue
<1>5. IsFlags(add.f)
  <2> HIDE DEF g1
  <2>1. IsFlags([g1 EXCEPT !.p = over]) BY <1>4, Written
  <2> QED BY <1>1, <2>1
<1>6. add.f.c = Has(sum, 256) BY <1>1, <1>3, SMT DEF Names, OfValue
<1>7. add.f.h = Odd(u, v, sum, 16) BY <1>1, <1>3, SMT DEF Names, OfValue
<1>8. add.f.p = over BY <1>1, <1>3, SMT DEF Names, OfValue
<1>9. add.f.s = Has(r, 128) BY <1>1, <1>3, SMT DEF Names, OfValue
<1>10. add.f.z = (r = 0) BY <1>1, <1>3, SMT DEF Names, OfValue
<1>11. add.f.y = Has(r, 32) /\ add.f.x = Has(r, 8) BY <1>1, <1>3, SMT DEF Names, OfValue
<1>12. add.f.n = FALSE BY <1>1, <1>3, SMT DEF Names, OfValue
<1>13. AfterAdd(add.f, u, v, sum)
  BY <1>2, <1>5, <1>6, <1>7, <1>8, <1>9, <1>10, <1>11, <1>12 DEF AfterAdd, over
<1> QED BY <1>1, <1>2, <1>13 DEF add, sum

\* SUB, SBC and CP write C, H, P and N the same way over the bits g.
LEMMA BorrowsFields ==
    ASSUME NEW u, NEW v, NEW diff, NEW r, NEW g, OfValue(g, r), r = diff % 256
    PROVE  AfterSub(Borrows(u, v, diff, g), u, v, diff)
<1> DEFINE o == Borrows(u, v, diff, g)
           g1 == [g EXCEPT !.n = TRUE, !.c = Has(diff, 256), !.h = Odd(u, v, diff, 16)]
           over == Has(u, 128) # Has(v, 128) /\ Has(u, 128) # Has(diff, 128)
<1>1. o = [g1 EXCEPT !.p = over] BY SMT DEF Borrows
<1> HIDE DEF over, o
<1>2. DOMAIN g1 = Names BY SMT DEF OfValue
<1>3. IsFlags(o)
  <2> HIDE DEF g1
  <2>1. IsFlags([g1 EXCEPT !.p = over]) BY <1>2, Written
  <2> QED BY <1>1, <2>1
<1>4. o.n = TRUE BY <1>1, SMT DEF Names, OfValue
<1>5. o.c = Has(diff, 256) BY <1>1, SMT DEF Names, OfValue
<1>6. o.h = Odd(u, v, diff, 16) BY <1>1, SMT DEF Names, OfValue
<1>7. o.p = over BY <1>1, SMT DEF Names, OfValue
<1>8. o.s = Has(r, 128) BY <1>1, SMT DEF Names, OfValue
<1>9. o.z = (r = 0) BY <1>1, SMT DEF Names, OfValue
<1>10. o.y = Has(r, 32) /\ o.x = Has(r, 8) BY <1>1, SMT DEF Names, OfValue
<1>11. AfterSub(o, u, v, diff)
  BY <1>3, <1>4, <1>5, <1>6, <1>7, <1>8, <1>9, <1>10 DEF over, AfterSub
<1> QED BY <1>11 DEF o

\* What SUB and SBC leave.
LEMMA SubFields ==
    ASSUME NEW u, NEW v, NEW g, NEW w
    PROVE  /\ AluSub(u, v, g, w).r = DiffOf(u, v, g, w) % 256
           /\ AfterSub(AluSub(u, v, g, w).f, u, v, DiffOf(u, v, g, w))
<1> DEFINE diff == DiffOf(u, v, g, w)
           sub  == AluSub(u, v, g, w)
           r    == diff % 256
           g0   == Sz53(r)
<1>1. sub = [r |-> r, f |-> Borrows(u, v, diff, g0)] BY DEF AluSub, DiffOf
<1>2. sub.r = r /\ sub.f = Borrows(u, v, diff, g0) BY <1>1, SMT
<1>3. r = diff % 256 OBVIOUS
<1> HIDE DEF diff, sub, r
<1>4. OfValue(g0, r) BY Sz53Fields
<1> HIDE DEF g0
<1>5. AfterSub(Borrows(u, v, diff, g0), u, v, diff) BY <1>3, <1>4, BorrowsFields
<1> QED BY <1>2, <1>3, <1>5 DEF diff, sub

\* What bytes and a carry can sum up to and differ by, and bit 8 as the carry
\* out of n.
SumRange == 0 .. 511
DiffRange == -256 .. 255
SumCarries(n) == n % 256 \in Byte /\ (n % 256) + 256 * One(Has(n, 256)) = n
DiffBorrows(n) ==
    W16(n) % 256 \in Byte /\ (W16(n) % 256) - 256 * One(Has(W16(n), 256)) = n

\* Bit 8 of a sum or a difference of bytes is its carry.
LEMMA CarryBit == (\A n \in SumRange : SumCarries(n)) /\ (\A n \in DiffRange : DiffBorrows(n))
<1>1. ASSUME NEW n \in SumRange PROVE SumCarries(n)
  <2>0. n \in Int /\ 0 <= n /\ n <= 511 BY SMT DEF SumRange
  <2>1. CASE n < 256 BY <2>0, <2>1, SMT DEF Byte, One, Has, SumCarries
  <2>2. CASE n >= 256 BY <2>0, <2>2, SMT DEF Byte, One, Has, SumCarries
  <2> QED BY <2>0, <2>1, <2>2, SMT
<1>2. ASSUME NEW n \in DiffRange PROVE DiffBorrows(n)
  <2>0. n \in Int /\ -256 <= n /\ n <= 255 BY SMT DEF DiffRange
  <2>1. CASE n >= 0
    <3>1. W16(n) = n BY <2>0, <2>1, SMT DEF W16
    <3> QED BY <2>0, <2>1, <3>1, SMT DEF Byte, One, Has, DiffBorrows
  <2>2. CASE n < 0
    <3>1. W16(n) = n + 65536 BY <2>0, <2>2, SMT DEF W16
    <3> QED BY <2>0, <2>2, <3>1, SMT DEF Byte, One, Has, DiffBorrows
  <2> QED BY <2>0, <2>1, <2>2, SMT
<1> QED BY <1>1, <1>2

\* A byte r and a carry c make up u + v + k, or u - v - k.
Adds(r, c, u, v, k) == r \in Byte /\ r + 256 * One(c) = u + v + k
Takes(r, c, u, v, k) == r \in Byte /\ r - 256 * One(c) = u - v - k

\* An addition of bytes is exact, the carry counted.
LEMMA AddExact ==
    ASSUME NEW u \in Byte, NEW v \in Byte, NEW g, NEW w
    PROVE  Adds(AluAdd(u, v, g, w).r, AluAdd(u, v, g, w).f.c, u, v, CarryIn(g, w))
<1> DEFINE sum == SumOf(u, v, g, w)
           add == AluAdd(u, v, g, w)
<1>1. sum \in SumRange
  <2> DEFINE k == CarryIn(g, w)
  <2>1. k \in {0, 1} BY CarryInType
  <2> HIDE DEF k
  <2>2. u + v + k \in SumRange BY <2>1, SMT DEF Byte, SumRange
  <2> QED BY <2>2 DEF SumOf, k
<1>2. add.r = sum % 256 /\ AfterAdd(add.f, u, v, sum) BY AddFields, Zenon
<1> HIDE DEF sum, add
<1>3. add.f.c = Has(sum, 256) BY <1>2 DEF AfterAdd
<1>4. add.r \in Byte /\ add.r + 256 * One(add.f.c) = sum
  <2>1. SumCarries(sum) BY <1>1, CarryBit
  <2> QED BY ONLY <1>2, <1>3, <2>1 DEF SumCarries
<1> QED BY <1>4 DEF sum, add, SumOf, Adds

\* A subtraction of bytes is exact, the borrow counted.
LEMMA SubExact ==
    ASSUME NEW u \in Byte, NEW v \in Byte, NEW g, NEW w
    PROVE  Takes(AluSub(u, v, g, w).r, AluSub(u, v, g, w).f.c, u, v, CarryIn(g, w))
<1> DEFINE n == u - v - CarryIn(g, w)
           diff == DiffOf(u, v, g, w)
           sub == AluSub(u, v, g, w)
<1>1. n \in DiffRange
  <2> DEFINE k == CarryIn(g, w)
  <2>1. k \in {0, 1} BY CarryInType
  <2> HIDE DEF k
  <2>2. u - v - k \in DiffRange BY <2>1, SMT DEF Byte, DiffRange
  <2> QED BY <2>2 DEF k
<1>2. diff = W16(n) BY DEF DiffOf
<1>3. sub.r = diff % 256 /\ AfterSub(sub.f, u, v, diff) BY SubFields, Zenon
<1> HIDE DEF n, diff, sub
<1>4. sub.f.c = Has(diff, 256) BY <1>3 DEF AfterSub
<1>5. sub.r \in Byte /\ sub.r - 256 * One(sub.f.c) = n
  <2>1. DiffBorrows(n) BY <1>1, CarryBit
  <2> QED BY ONLY <1>2, <1>3, <1>4, <2>1 DEF DiffBorrows
<1> QED BY <1>5 DEF n, sub, Takes

-----------------------------------------------------------------------------
(* The invariant                                                             *)

Jobs == SumJobs(1) \cup SumJobs(2) \cup ShiftJobs(1) \cup ShiftJobs(2) \cup TurnJobs

\* The jobs that go through a number a byte at a time.
Walking == job.kind \in {"sum", "difference", "double", "halve"}

Shape ==
    /\ job \in Jobs /\ DOMAIN f = Names /\ a \in Byte
    /\ Walking =>
         /\ at \in 0 .. job.n
         /\ due \in {"compute", "adjust", "count", "done"}
         /\ due = "done" <=> at = job.n
         /\ due = "adjust" => Summing /\ job.decimal
         /\ due = "count" => at = 1
         /\ out \in 0 .. 256 ^ at - 1
         /\ at = 0 => out = 0 /\ (due = "compute" => f.c = job.c)
    /\ ~Walking => due = "compute" /\ at \in 0 .. 8 /\ (job.kind = "digits" => out \in Byte)

\* The carry that the next ADD, ADC, SUB or SBC takes in.
Held == CarryIn(f, at > 0 \/ job.chained)

-----------------------------------------------------------------------------
(* The jobs                                                                  *)

\* The powers of 256 that occur.
LEMMA Powers == 256 ^ 0 = 1 /\ 256 ^ 1 = 256 /\ 256 ^ 2 = 65536
BY SMT

\* Numbers of one byte are bytes, of two bytes words.
LEMMA OperandsType == Operands[1] \subseteq Byte /\ Operands[2] \subseteq Word
<1>1. \A n \in 1 .. 2 : Operands[n] \subseteq 0 .. 256 ^ n - 1 BY OperandsAssumption
<1>2. ASSUME NEW n \in 1 .. 2, NEW e \in Operands[n] PROVE e \in 0 .. 256 ^ n - 1
  BY <1>1
<1>3. ASSUME NEW e \in Operands[1] PROVE e \in Byte
  <2>1. 1 \in 1 .. 2 BY SMT
  <2>2. e \in 0 .. 256 ^ 1 - 1 BY <1>2, <2>1
  <2> QED BY <2>2, Powers, SMT DEF Byte
<1>4. ASSUME NEW e \in Operands[2] PROVE e \in Word
  <2>1. 2 \in 1 .. 2 BY SMT
  <2>2. e \in 0 .. 256 ^ 2 - 1 BY <1>2, <2>1
  <2>3. 256 ^ 2 - 1 = MaxWord BY SMT DEF MaxWord
  <2> QED BY <2>2, <2>3, Zenon DEF Word
<1> QED BY <1>3, <1>4

\* The fields of a job, by its kind.
LEMMA SumJobFields ==
    ASSUME NEW n, NEW j \in SumJobs(n)
    PROVE  /\ j.kind \in {"sum", "difference"} /\ j.n = n
           /\ j.x \in Operands[n] /\ j.y \in Operands[n]
           /\ j.decimal \in BOOLEAN /\ j.chained \in BOOLEAN /\ j.c \in BOOLEAN
           /\ j.chained \/ j.c
           /\ j.decimal => IsDecimal(j.x) /\ IsDecimal(j.y)
<1>1. /\ j \in [kind : {"sum", "difference"}, n : {n}, x : Operands[n], y : Operands[n],
                decimal : BOOLEAN, chained : BOOLEAN, c : BOOLEAN]
      /\ j.chained \/ j.c
      /\ j.decimal => IsDecimal(j.x) /\ IsDecimal(j.y)
  BY Zenon DEF SumJobs
<1>2. /\ j.kind \in {"sum", "difference"} /\ j.n \in {n}
      /\ j.x \in Operands[n] /\ j.y \in Operands[n]
      /\ j.decimal \in BOOLEAN /\ j.chained \in BOOLEAN /\ j.c \in BOOLEAN
  BY <1>1, SMT
<1> QED BY <1>1, <1>2

\* And of those that shift.
LEMMA ShiftJobFields ==
    ASSUME NEW n, NEW j \in ShiftJobs(n)
    PROVE  /\ j.n = n /\ j.x \in Operands[n] /\ j.c \in BOOLEAN
           /\ \/ j.kind = "double" /\ j.first \in {"sla", "sll", "rl", "add", "adc"}
              \/ j.kind = "halve" /\ j.first \in {"srl", "sra", "rr"}
<1>1. CASE j \in [kind : {"double"}, n : {n}, first : {"sla", "sll", "rl", "add", "adc"},
                  x : Operands[n], c : BOOLEAN]
  BY <1>1, SMT
<1>2. CASE j \in [kind : {"halve"}, n : {n}, first : {"srl", "sra", "rr"},
                  x : Operands[n], c : BOOLEAN]
  BY <1>2, SMT
<1> QED BY <1>1, <1>2 DEF ShiftJobs

\* And of those that turn.
LEMMA TurnJobFields ==
    ASSUME NEW j \in TurnJobs
    PROVE  /\ j.n = 1 /\ j.x \in Byte /\ j.c \in BOOLEAN
           /\ \/ j.kind \in {"turn", "turn9"}
              \/ j.kind = "digits" /\ j.a \in Accumulators
<1>1. CASE j \in [kind : {"turn", "turn9"}, n : {1}, x : Byte, c : BOOLEAN]
  BY <1>1, SMT
<1>2. CASE j \in [kind : {"digits"}, n : {1}, x : Byte, a : Accumulators, c : BOOLEAN]
  BY <1>2, SMT
<1> QED BY <1>1, <1>2 DEF TurnJobs

\* What a job is.
LEMMA JobType ==
    ASSUME NEW j \in Jobs
    PROVE  /\ j.n \in {1, 2} /\ j.c \in BOOLEAN /\ j.x \in Word /\ (j.n = 1 => j.x \in Byte)
           /\ j.kind \in {"sum", "difference", "double", "halve", "turn", "turn9", "digits"}
           /\ j.kind \in {"sum", "difference"} =>
                /\ j.y \in Word /\ (j.n = 1 => j.y \in Byte)
                /\ j.decimal \in BOOLEAN /\ j.chained \in BOOLEAN
                /\ j.chained \/ j.c
                /\ j.decimal => IsDecimal(j.x) /\ IsDecimal(j.y)
           /\ j.kind = "double" => j.first \in {"sla", "sll", "rl", "add", "adc"}
           /\ j.kind = "halve" => j.first \in {"srl", "sra", "rr"}
           /\ j.kind \in {"turn", "turn9", "digits"} => j.n = 1
           /\ j.kind = "digits" => j.a \in Byte
<1>1. Accumulators \subseteq Byte BY OperandsAssumption
<1>2. \A e \in Byte : e \in Word BY SMT DEF Byte, Word, MaxWord
<1>3. CASE j \in SumJobs(1) BY <1>2, <1>3, SumJobFields, OperandsType
<1>4. CASE j \in SumJobs(2) BY <1>4, SumJobFields, OperandsType
<1>5. CASE j \in ShiftJobs(1) BY <1>2, <1>5, ShiftJobFields, OperandsType
<1>6. CASE j \in ShiftJobs(2) BY <1>6, ShiftJobFields, OperandsType
<1>7. CASE j \in TurnJobs BY <1>1, <1>2, <1>7, TurnJobFields
<1> QED BY <1>3, <1>4, <1>5, <1>6, <1>7 DEF Jobs

\* The range of a byte and of a word, as inequalities.
LEMMA Ranges ==
    /\ \A b : b \in Byte <=> b \in Int /\ 0 <= b /\ b <= 255
    /\ \A b : b \in Word <=> b \in Int /\ 0 <= b /\ b <= 65535
<1>1. \A b : b \in Byte <=> b \in Int /\ 0 <= b /\ b <= 255 BY SMT DEF Byte
<1>2. \A b : b \in Word <=> b \in Int /\ 0 <= b /\ b <= MaxWord BY SMT DEF Word
<1>3. MaxWord = 65535 BY SMT DEF MaxWord
<1>4. \A b : b \in Word <=> b \in Int /\ 0 <= b /\ b <= 65535 BY <1>2, <1>3, SMT
<1> QED BY <1>1, <1>4

\* The bytes of a number and its low bytes.
LEMMA Bytes ==
    ASSUME NEW w \in Word
    PROVE  /\ ByteAt(w, 0) = w % 256 /\ ByteAt(w, 0) \in Byte
           /\ ByteAt(w, 1) = w \div 256 /\ ByteAt(w, 1) \in Byte
           /\ Low(w, 0) = 0 /\ Low(w, 1) = w % 256 /\ Low(w, 2) = w
           /\ w = 256 * ByteAt(w, 1) + ByteAt(w, 0)
<1>0. w \in Int /\ 0 <= w /\ w <= 65535 BY Ranges
<1>1. ByteAt(w, 0) = w % 256
  <2>1. w \div 256 ^ 0 = w BY <1>0, SMT
  <2> QED BY <2>1 DEF ByteAt
<1>2. ByteAt(w, 1) = w \div 256
  <2>1. w \div 256 ^ 1 = w \div 256 BY <1>0, SMT
  <2> DEFINE q == w \div 256
  <2>2. q \in Int /\ 0 <= q /\ q <= 255 BY <1>0, SMT
  <2> HIDE DEF q
  <2>3. q % 256 = q BY <2>2, SMT
  <2> QED BY <2>1, <2>3 DEF ByteAt, q
<1>3. Low(w, 0) = 0 /\ Low(w, 1) = w % 256 BY <1>0, SMT DEF Low
<1>4. Low(w, 2) = w
  <2>1. w % 65536 = w BY <1>0, SMT
  <2> QED BY <2>1, Powers DEF Low
<1>5. w % 256 \in Byte /\ w \div 256 \in Byte /\ w = 256 * (w \div 256) + (w % 256)
  BY SMT DEF Byte, Word, MaxWord
<1> QED BY <1>1, <1>2, <1>3, <1>4, <1>5

\* A byte has no second byte.
LEMMA OneByte == ASSUME NEW w \in Byte PROVE w \in Word /\ ByteAt(w, 0) = w
<1>1. w \in Int /\ 0 <= w /\ w <= 255 BY Ranges
<1>2. w \in Word /\ w % 256 = w BY <1>1, Ranges, SMT
<1> QED BY <1>2, Bytes

-----------------------------------------------------------------------------
(* Rotates and shifts                                                        *)

\* A byte r and a carry c are twice v and the bit i, or half of v with i above.
Doubles(r, c, v, i) == r \in Byte /\ r + 256 * One(c) = 2 * v + i
Halves(r, c, v, i)  == r \in Byte /\ 2 * r + One(c) = v + 256 * i

\* A shift to the left doubles, the bit that falls out counted.
LEMMA LeftExact ==
    ASSUME NEW v \in Byte, NEW in
    PROVE  Doubles(Left(v, in).r, Left(v, in).c, v, One(in))
<1>1. Left(v, in).r = ((2 * v) % 256) + One(in) /\ Left(v, in).c = Has(v, 128)
  BY SMT DEF Left, One
<1>2. One(in) \in {0, 1} BY DEF One
<1>3. One(Has(v, 128)) = v \div 128 BY SMT DEF One, Has, Byte
<1>4. ((2 * v) % 256) + 256 * (v \div 128) = 2 * v /\ (2 * v) % 256 \in 0 .. 254
  BY SMT DEF Byte
<1> DEFINE i == One(in)
<1> HIDE DEF i
<1>5. Left(v, in).r = ((2 * v) % 256) + i /\ i \in {0, 1} BY <1>1, <1>2 DEF i
<1>6. One(Left(v, in).c) = v \div 128 BY <1>1, <1>3
<1>7. Left(v, in).r \in Byte BY <1>4, <1>5, SMT DEF Byte
<1>8. Left(v, in).r + 256 * One(Left(v, in).c) = 2 * v + i
  BY <1>4, <1>5, <1>6, SMT DEF Byte
<1> QED BY <1>7, <1>8 DEF i, Doubles

\* A shift to the right halves, the bit that falls out counted.
LEMMA RightExact ==
    ASSUME NEW v \in Byte, NEW in
    PROVE  Halves(Right(v, in).r, Right(v, in).c, v, One(in))
<1> DEFINE i == One(in)
<1>1. Right(v, in).r = (v \div 2) + 128 * i /\ Right(v, in).c = Has(v, 1)
  BY SMT DEF Right, One
<1>2. i \in {0, 1} BY DEF One
<1>3. One(Has(v, 1)) = v % 2 BY SMT DEF One, Has, Byte
<1> HIDE DEF i
<1>4. One(Right(v, in).c) = v % 2 BY <1>1, <1>3
<1>5. Right(v, in).r \in Byte BY <1>1, <1>2, SMT DEF Byte
<1>6. 2 * Right(v, in).r + One(Right(v, in).c) = v + 256 * i
  <2>1. v = 2 * (v \div 2) + (v % 2) /\ v \div 2 \in Int /\ v % 2 \in Int BY SMT DEF Byte
  <2> DEFINE h == v \div 2
             l == v % 2
  <2>2. v = 2 * h + l /\ h \in Int /\ l \in Int BY <2>1
  <2>3. Right(v, in).r = h + 128 * i /\ One(Right(v, in).c) = l BY <1>1, <1>4
  <2> HIDE DEF h, l
  <2> QED BY <1>2, <2>2, <2>3, SMT
<1> QED BY <1>5, <1>6 DEF i, Halves

\* The result o has the byte and the carry of the rotate t; it sets Z and P/V
\* from the byte, or keeps those of g.
RotatesTo(o, t) == DOMAIN o.f = Names /\ o.r = t.r /\ o.f.c = t.c
SetsZP(o, t) == o.f.z = (t.r = 0) /\ o.f.p = Parity(t.r)
KeepsZP(o, g) == o.f.z = g.z /\ o.f.p = g.p

\* An instruction of the CB page and of A write the byte and C; the first sets
\* Z and P/V from the byte, the second keeps them.
LEMMA RotateFields ==
    ASSUME NEW name, NEW v, NEW g, DOMAIN g = Names
    PROVE  /\ RotatesTo(Cb(name, v, g), Rotated(name, v, g))
           /\ RotatesTo(RotateA(name, v, g), Rotated(name, v, g))
           /\ SetsZP(Cb(name, v, g), Rotated(name, v, g))
           /\ KeepsZP(RotateA(name, v, g), g)
<1> DEFINE o == Rotated(name, v, g)
           r == o.r
           g0 == Sz53(r)
<1>1. /\ Cb(name, v, g).r = r
      /\ Cb(name, v, g).f = [[g0 EXCEPT !.p = Parity(r)] EXCEPT !.c = o.c]
  BY SMT DEF Cb, Sz53p
<1>2. /\ RotateA(name, v, g).r = r
      /\ RotateA(name, v, g).f = [g EXCEPT !.c = o.c, !.h = FALSE, !.n = FALSE,
                                           !.y = Has(r, 32), !.x = Has(r, 8)]
  BY SMT DEF RotateA
<1>3. OfValue(g0, r) BY Sz53Fields
<1> DEFINE p1 == Parity(r)
<1>4. Cb(name, v, g).f = [[g0 EXCEPT !.p = p1] EXCEPT !.c = o.c] BY <1>1
<1> HIDE DEF o, g0, p1
<1>5. DOMAIN Cb(name, v, g).f = Names BY <1>3, <1>4, SMT DEF OfValue
<1>6. Cb(name, v, g).f.c = o.c BY <1>3, <1>4, SMT DEF OfValue, Names
<1>7. Cb(name, v, g).f.z = (r = 0) BY <1>3, <1>4, SMT DEF OfValue, Names
<1>8. Cb(name, v, g).f.p = p1 BY <1>3, <1>4, SMT DEF OfValue, Names
<1>9. DOMAIN RotateA(name, v, g).f = Names BY <1>2, SMT
<1>10. RotateA(name, v, g).f.c = o.c BY <1>2, SMT DEF Names
<1>11. RotateA(name, v, g).f.z = g.z BY <1>2, SMT DEF Names
<1>12. RotateA(name, v, g).f.p = g.p BY <1>2, SMT DEF Names
<1> QED BY <1>1, <1>2, <1>5, <1>6, <1>7, <1>8, <1>9, <1>10, <1>11, <1>12
   DEF o, p1, RotatesTo, SetsZP, KeepsZP

\* INC, DEC and CPL keep C.
LEMMA CountFields ==
    ASSUME NEW v, NEW g, DOMAIN g = Names, NEW h \in {AluInc(v, g).f, AluDec(v, g).f, Cpl(v, g).f}
    PROVE  DOMAIN h = Names /\ h.c = g.c
<1>1. CASE h = AluInc(v, g).f
  <2> DEFINE r == (v + 1) % 256
             g0 == Sz53(r)
             b1 == (r % 16 = 0)
             b2 == (r = 128)
  <2>1. h = [g0 EXCEPT !.c = g.c, !.h = b1, !.p = b2] BY <1>1, SMT DEF AluInc
  <2>2. OfValue(g0, r) BY Sz53Fields
  <2> HIDE DEF g0, b1, b2
  <2>3. DOMAIN h = Names BY <2>1, <2>2, SMT DEF OfValue
  <2>4. h.c = g.c BY <2>1, <2>2, SMT DEF OfValue, Names
  <2> QED BY <2>3, <2>4
<1>2. CASE h = AluDec(v, g).f
  <2> DEFINE r == (v - 1) % 256
             g0 == Sz53(r)
             b1 == (r % 16 = 15)
             b2 == (r = 127)
  <2>1. h = [g0 EXCEPT !.c = g.c, !.n = TRUE, !.h = b1, !.p = b2] BY <1>2, SMT DEF AluDec
  <2>2. OfValue(g0, r) BY Sz53Fields
  <2> HIDE DEF g0, b1, b2
  <2>3. DOMAIN h = Names BY <2>1, <2>2, SMT DEF OfValue
  <2>4. h.c = g.c BY <2>1, <2>2, SMT DEF OfValue, Names
  <2> QED BY <2>3, <2>4
<1>3. CASE h = Cpl(v, g).f
  <2>1. h = [g EXCEPT !.h = TRUE, !.n = TRUE, !.y = Has(255 - v, 32), !.x = Has(255 - v, 8)]
    BY <1>3, SMT DEF Cpl
  <2>2. DOMAIN h = Names BY <2>1, SMT
  <2>3. h.c = g.c BY <2>1, SMT DEF Names
  <2> QED BY <2>2, <2>3
<1> QED BY <1>1, <1>2, <1>3

\* What comes in below when a byte is shifted to the left.
ComesIn(name, g) == name = "sll" \/ (name \in {"rl", "adc"} /\ g.c)

\* Every way to double a byte is exact, with what comes in and what falls out.
LEMMA DoubledByte ==
    ASSUME DOMAIN f = Names, NEW b \in Byte, NEW name \in {"sla", "sll", "rl", "add", "adc"},
           NEW o \in Results(name, b)
    PROVE  DOMAIN o.f = Names /\ Doubles(o.r, o.f.c, b, One(ComesIn(name, f)))
<1> DEFINE t == Rotated(name, b, f)
<1>1. ASSUME Doubles(t.r, t.c, b, One(ComesIn(name, f))),
             o \in {Cb(name, b, f), RotateA(name, b, f)}
      PROVE  DOMAIN o.f = Names /\ Doubles(o.r, o.f.c, b, One(ComesIn(name, f)))
  <2>1. RotatesTo(o, t) BY <1>1, RotateFields
  <2> HIDE DEF t
  <2>2. DOMAIN o.f = Names /\ o.r = t.r /\ o.f.c = t.c BY <2>1 DEF RotatesTo
  <2> QED BY <1>1, <2>2
<1>2. CASE name = "sla"
  <2>1. o = Cb(name, b, f) BY <1>2 DEF Results
  <2>2. t = Left(b, FALSE) BY <1>2 DEF Rotated
  <2>3. One(ComesIn(name, f)) = One(FALSE) BY <1>2 DEF ComesIn, One
  <2>4. Doubles(t.r, t.c, b, One(ComesIn(name, f))) BY <2>2, <2>3, LeftExact, Zenon
  <2> QED BY <1>1, <2>1, <2>4
<1>3. CASE name = "sll"
  <2>1. o = Cb(name, b, f) BY <1>3 DEF Results
  <2>2. t = Left(b, TRUE) BY <1>3 DEF Rotated
  <2>3. One(ComesIn(name, f)) = One(TRUE) BY <1>3 DEF ComesIn, One
  <2>4. Doubles(t.r, t.c, b, One(ComesIn(name, f))) BY <2>2, <2>3, LeftExact, Zenon
  <2> QED BY <1>1, <2>1, <2>4
<1>4. CASE name = "rl"
  <2>1. o \in {Cb(name, b, f), RotateA(name, b, f)} BY <1>4 DEF Results
  <2>2. t = Left(b, f.c) BY <1>4 DEF Rotated
  <2>3. One(ComesIn(name, f)) = One(f.c) BY <1>4 DEF ComesIn, One
  <2>4. Doubles(t.r, t.c, b, One(ComesIn(name, f))) BY <2>2, <2>3, LeftExact, Zenon
  <2> QED BY <1>1, <2>1, <2>4
<1>5. ASSUME NEW w \in BOOLEAN, o = AluAdd(b, b, f, w),
             One(ComesIn(name, f)) = CarryIn(f, w)
      PROVE  DOMAIN o.f = Names /\ Doubles(o.r, o.f.c, b, One(ComesIn(name, f)))
  <2>1. Adds(o.r, o.f.c, b, b, CarryIn(f, w)) BY <1>5, AddExact, Zenon
  <2>2. AfterAdd(o.f, b, b, SumOf(b, b, f, w)) BY <1>5, AddFields, Zenon
  <2>3. DOMAIN o.f = Names BY <2>2 DEF AfterAdd, IsFlags
  <2>4. Doubles(o.r, o.f.c, b, CarryIn(f, w))
    BY <2>1, CarryInType, Ranges, SMT DEF Adds, Doubles
  <2> QED BY <1>5, <2>3, <2>4, Zenon
<1>6. CASE name = "add"
  <2>1. o = AluAdd(b, b, f, FALSE) BY <1>6 DEF Results
  <2>2. One(ComesIn(name, f)) = CarryIn(f, FALSE) BY <1>6 DEF ComesIn, One, CarryIn
  <2> QED BY <1>5, <2>1, <2>2, Zenon
<1>7. CASE name = "adc"
  <2>1. o = AluAdd(b, b, f, TRUE) BY <1>7 DEF Results
  <2>2. One(ComesIn(name, f)) = CarryIn(f, TRUE) BY <1>7 DEF ComesIn, One, CarryIn
  <2> QED BY <1>5, <2>1, <2>2, Zenon
<1> QED BY <1>2, <1>3, <1>4, <1>6, <1>7

\* What comes in above when a byte is shifted to the right.
ComesAbove(name, b, g) == (name = "sra" /\ Has(b, 128)) \/ (name = "rr" /\ g.c)

\* Every way to halve a byte is exact, with what comes in and what falls out.
LEMMA HalvedByte ==
    ASSUME DOMAIN f = Names, NEW b \in Byte, NEW name \in {"srl", "sra", "rr"},
           NEW o \in Results(name, b)
    PROVE  DOMAIN o.f = Names /\ Halves(o.r, o.f.c, b, One(ComesAbove(name, b, f)))
<1> DEFINE t == Rotated(name, b, f)
           i == One(ComesAbove(name, b, f))
<1>1. o \in {Cb(name, b, f), RotateA(name, b, f)} BY DEF Results
<1>2. RotatesTo(o, t) BY <1>1, RotateFields
<1>3. Halves(t.r, t.c, b, i)
  <2>1. CASE name = "srl"
    <3>1. t = Right(b, FALSE) BY <2>1 DEF Rotated
    <3>2. i = One(FALSE) BY <2>1 DEF ComesAbove, One
    <3> QED BY <3>1, <3>2, RightExact, Zenon
  <2>2. CASE name = "sra"
    <3>1. t = Right(b, Has(b, 128)) BY <2>2 DEF Rotated
    <3>2. i = One(Has(b, 128)) BY <2>2 DEF ComesAbove, One
    <3> QED BY <3>1, <3>2, RightExact, Zenon
  <2>3. CASE name = "rr"
    <3>1. t = Right(b, f.c) BY <2>3 DEF Rotated
    <3>2. i = One(f.c) BY <2>3 DEF ComesAbove, One
    <3> QED BY <3>1, <3>2, RightExact, Zenon
  <2> QED BY <2>1, <2>2, <2>3
<1> HIDE DEF t, i
<1>4. DOMAIN o.f = Names /\ o.r = t.r /\ o.f.c = t.c BY <1>2 DEF RotatesTo
<1>5. Halves(o.r, o.f.c, b, i) BY <1>3, <1>4
<1> QED BY <1>4, <1>5 DEF i

-----------------------------------------------------------------------------
(* The shape of the states                                                   *)

\* While there are bytes to go, at is the number of this one.
LEMMA ThisByte ==
    ASSUME Shape, Walking, due # "done"
    PROVE  at \in {0, 1} /\ at < job.n /\ job.n \in {1, 2} /\ job \in Jobs
<1>1. at \in 0 .. job.n /\ at # job.n /\ job \in Jobs BY DEF Shape
<1>2. job.n \in {1, 2} BY <1>1, JobType
<1> QED BY <1>1, <1>2, SMT

\* A number of k bytes, a byte put above and a byte put below.
Fits(number, k) == number \in 0 .. 256 ^ k - 1
Above(number, k, r) == number + 256 ^ k * r
Below(number, r)    == 256 * number + r

\* A byte more in the result.
LEMMA OneMoreByte ==
    ASSUME NEW k \in {0, 1}, NEW number, Fits(number, k), NEW r \in Byte
    PROVE  Fits(Above(number, k, r), k + 1) /\ Fits(Below(number, r), k + 1)
<1> USE DEF Fits, Above, Below
<1>1. CASE k = 0
  <2>1. number = 0 BY <1>1, Powers, SMT
  <2> QED BY <1>1, <2>1, Powers, Ranges, SMT
<1>2. CASE k = 1
  <2>1. number \in Int /\ 0 <= number /\ number <= 255 BY <1>2, Powers, SMT
  <2>2. number + 256 * r \in Int /\ 0 <= number + 256 * r /\ number + 256 * r <= 65535
    BY <2>1, Ranges, SMT
  <2>3. 256 * number + r \in Int /\ 0 <= 256 * number + r /\ 256 * number + r <= 65535
    BY <2>1, Ranges, SMT
  <2>4. 256 ^ (k + 1) - 1 = 65535 /\ 256 ^ k = 256 BY <1>2, Powers, SMT
  <2> QED BY <2>2, <2>3, <2>4, SMT
<1> QED BY <1>1, <1>2

\* Storing a byte keeps the shape.
LEMMA StoredShape ==
    ASSUME Shape, Walking, due # "done", DOMAIN f' = Names,
           NEW r \in Byte, NEW number, Stored(r, number), Fits(number, at + 1)
    PROVE  Shape'
<1>1. at \in {0, 1} /\ at < job.n /\ job.n \in {1, 2} /\ job \in Jobs BY ThisByte
<1>2. /\ a' = r /\ out' = number /\ at' = at + 1 /\ job' = job
      /\ due' = IF at + 1 = job.n THEN "done" ELSE "count"
  BY DEF Stored
<1>3. Walking' = Walking BY <1>2 DEF Walking
<1>4. at' \in 0 .. job'.n /\ at' # 0 BY <1>1, <1>2, SMT
<1>5. due' \in {"done", "count"} /\ (due' = "done" <=> at' = job'.n) BY <1>2
<1>6. due' = "count" => at' = 1 BY <1>1, <1>2, SMT
<1>7. out' \in 0 .. 256 ^ at' - 1 BY <1>2 DEF Fits
<1> QED BY <1>1, <1>2, <1>3, <1>4, <1>5, <1>6, <1>7 DEF Shape

\* What DAA corrects by, and what it leaves in C.
DaaBy(b, g) == (IF g.h \/ b % 16 > 9 THEN 6 ELSE 0) + (IF g.c \/ b > 153 THEN 96 ELSE 0)
DaaTo(b, g) == IF g.n THEN b - DaaBy(b, g) ELSE b + DaaBy(b, g)
DaaCarry(b, g) == g.c \/ b > 153

\* The result of DAA, its carry, and N kept.
LEMMA DaaFields ==
    ASSUME NEW b, NEW g
    PROVE  /\ AluDaa(b, g).r = DaaTo(b, g) % 256
           /\ DOMAIN AluDaa(b, g).f = Names
           /\ AluDaa(b, g).f.c = DaaCarry(b, g)
<1> DEFINE r == DaaTo(b, g) % 256
           g0 == Sz53(r)
           hi == DaaCarry(b, g)
           half == Has(b, 16) # Has(r, 16)
           p == Parity(r)
<1>1. /\ AluDaa(b, g).r = r
      /\ AluDaa(b, g).f = [[g0 EXCEPT !.p = p] EXCEPT !.n = g.n, !.c = hi, !.h = half]
  BY SMT DEF AluDaa, DaaTo, DaaBy, DaaCarry, Sz53p
<1>2. OfValue(g0, r) BY Sz53Fields
<1> DEFINE df == AluDaa(b, g).f
<1>3. df = [[g0 EXCEPT !.p = p] EXCEPT !.n = g.n, !.c = hi, !.h = half] BY <1>1
<1> HIDE DEF g0, hi, half, p, df
<1>4. DOMAIN df = Names BY <1>2, <1>3, SMT DEF OfValue
<1>5. df.c = hi BY <1>2, <1>3, SMT DEF OfValue, Names
<1> QED BY <1>1, <1>4, <1>5 DEF hi, df

\* And it is a byte.
LEMMA DaaType == ASSUME NEW b \in Byte, NEW g PROVE AluDaa(b, g).r \in Byte
<1>1. DaaBy(b, g) \in Int BY SMT DEF DaaBy
<1>2. DaaTo(b, g) \in Int BY <1>1, Ranges, SMT DEF DaaTo
<1>3. DaaTo(b, g) % 256 \in Byte
  <2> DEFINE n == DaaTo(b, g)
  <2>1. n \in Int BY <1>2
  <2> HIDE DEF n
  <2>2. n % 256 \in Int /\ 0 <= n % 256 /\ n % 256 <= 255 BY <2>1, SMT
  <2>3. n % 256 \in Byte BY <2>2, Ranges
  <2> QED BY <2>3 DEF n
<1> QED BY <1>3, DaaFields, Zenon

\* The bytes a job works on are bytes.
LEMMA OperandBytes ==
    ASSUME Shape, Walking, NEW k \in {0, 1}
    PROVE  /\ job.x \in Word /\ ByteAt(job.x, k) \in Byte
           /\ Summing => job.y \in Word /\ ByteAt(job.y, k) \in Byte
<1>1. job \in Jobs BY DEF Shape
<1>2. job.x \in Word /\ (Summing => job.y \in Word) BY <1>1, JobType DEF Summing
<1>3. \A w \in Word : ByteAt(w, k) \in Byte BY Bytes
<1> QED BY <1>2, <1>3

\* Adding or subtracting a byte keeps the shape.
LEMMA ComputedShape ==
    ASSUME Shape, Summing, due = "compute", NEW o, DOMAIN o.f = Names, o.r \in Byte, Computed(o)
    PROVE  Shape'
<1>1. Walking /\ due # "done" BY DEF Walking, Summing
<1>2. at \in {0, 1} BY <1>1, ThisByte
<1>3. f' = o.f BY DEF Computed
<1>4. CASE job.decimal
  <2>1. a' = o.r /\ due' = "adjust" /\ UNCHANGED <<job, at, out>> BY <1>4 DEF Computed
  <2>2. Walking' = Walking /\ Summing' = Summing BY <2>1 DEF Walking, Summing
  <2>3. at # job.n /\ at \in 0 .. job.n BY <1>1 DEF Shape
  <2> QED BY <1>1, <1>3, <1>4, <2>1, <2>2, <2>3 DEF Shape
<1>5. CASE ~job.decimal
  <2>1. Stored(o.r, Above(out, at, o.r)) BY <1>5 DEF Computed, Above
  <2>2. Fits(out, at) BY <1>1 DEF Shape, Fits
  <2>3. Fits(Above(out, at, o.r), at + 1) BY <1>2, <2>2, OneMoreByte
  <2> QED BY <1>1, <1>3, <2>1, <2>3, StoredShape
<1> QED BY <1>4, <1>5

\* A turn gives a byte.
LEMMA TurnType ==
    ASSUME NEW v \in Byte, NEW g, NEW name \in {"rlc", "rrc", "rl", "rr"}
    PROVE  Rotated(name, v, g).r \in Byte
<1>1. \A in : Left(v, in).r \in Byte BY LeftExact DEF Doubles
<1>2. \A in : Right(v, in).r \in Byte BY RightExact DEF Halves
<1>3. CASE name = "rlc"
  <2>1. Rotated(name, v, g) = Left(v, Has(v, 128)) BY <1>3 DEF Rotated
  <2> QED BY <1>1, <2>1
<1>4. CASE name = "rrc"
  <2>1. Rotated(name, v, g) = Right(v, Has(v, 1)) BY <1>4 DEF Rotated
  <2> QED BY <1>2, <2>1
<1>5. CASE name = "rl"
  <2>1. Rotated(name, v, g) = Left(v, g.c) BY <1>5 DEF Rotated
  <2> QED BY <1>1, <2>1
<1>6. CASE name = "rr"
  <2>1. Rotated(name, v, g) = Right(v, g.c) BY <1>6 DEF Rotated
  <2> QED BY <1>2, <2>1
<1> QED BY <1>3, <1>4, <1>5, <1>6

\* F after RLD and RRD.
LEMMA DigitFlags ==
    ASSUME NEW b, NEW m, NEW g
    PROVE  /\ DOMAIN Rld(b, m, g).f = Names /\ Rld(b, m, g).f.c = g.c
           /\ DOMAIN Rrd(b, m, g).f = Names /\ Rrd(b, m, g).f.c = g.c
<1>1. ASSUME NEW r
      PROVE  DOMAIN [Sz53p(r) EXCEPT !.c = g.c] = Names /\ [Sz53p(r) EXCEPT !.c = g.c].c = g.c
  <2> DEFINE g0 == Sz53(r)
             p == Parity(r)
  <2>1. Sz53p(r) = [g0 EXCEPT !.p = p] BY DEF Sz53p
  <2>2. OfValue(g0, r) BY Sz53Fields
  <2> HIDE DEF g0, p
  <2>3. DOMAIN [Sz53p(r) EXCEPT !.c = g.c] = Names BY <2>1, <2>2, SMT DEF OfValue
  <2>4. [Sz53p(r) EXCEPT !.c = g.c].c = g.c BY <2>1, <2>2, SMT DEF OfValue, Names
  <2> QED BY <2>3, <2>4
<1> DEFINE r1 == 16 * (b \div 16) + (m \div 16)
           r2 == 16 * (b \div 16) + (m % 16)
<1>2. Rld(b, m, g).f = [Sz53p(r1) EXCEPT !.c = g.c] BY SMT DEF Rld
<1>3. Rrd(b, m, g).f = [Sz53p(r2) EXCEPT !.c = g.c] BY SMT DEF Rrd
<1> HIDE DEF r1, r2
<1> QED BY <1>1, <1>2, <1>3

\* RLD and RRD leave bytes.
LEMMA DigitBytes ==
    ASSUME NEW b \in Byte, NEW m \in Byte, NEW g
    PROVE  /\ Rld(b, m, g).r \in Byte /\ Rld(b, m, g).m \in Byte
           /\ Rrd(b, m, g).r \in Byte /\ Rrd(b, m, g).m \in Byte
<1>1. /\ Rld(b, m, g).r = 16 * (b \div 16) + (m \div 16)
      /\ Rld(b, m, g).m = 16 * (m % 16) + (b % 16)
  BY SMT DEF Rld
<1>2. /\ Rrd(b, m, g).r = 16 * (b \div 16) + (m % 16)
      /\ Rrd(b, m, g).m = 16 * (b % 16) + (m \div 16)
  BY SMT DEF Rrd
<1>3. /\ b \div 16 \in Int /\ 0 <= b \div 16 /\ b \div 16 <= 15
      /\ m \div 16 \in Int /\ 0 <= m \div 16 /\ m \div 16 <= 15
      /\ b % 16 \in Int /\ 0 <= b % 16 /\ b % 16 <= 15
      /\ m % 16 \in Int /\ 0 <= m % 16 /\ m % 16 <= 15
  BY Ranges, SMT
<1>4. \A h, l \in Int : 0 <= h /\ h <= 15 /\ 0 <= l /\ l <= 15 => 16 * h + l \in Byte
  BY Ranges, SMT
<1> QED BY <1>1, <1>2, <1>3, <1>4

\* It holds at the start.
LEMMA InitShape == ASSUME Init PROVE Shape
<1>1. job \in Jobs BY DEF Init, Jobs
<1>2. job.x \in Word BY <1>1, JobType
<1>3. at = 0 /\ due = "compute" /\ f = [NoFlags EXCEPT !.c = job.c] BY DEF Init
<1>4. DOMAIN f = Names BY <1>3, SMT DEF NoFlags, Names
<1>5. f.c = job.c BY <1>3, SMT DEF NoFlags
<1>6. a \in Byte
  <2>1. CASE job.kind = "digits" BY <1>1, <2>1, JobType DEF Init
  <2>2. CASE job.kind # "digits" BY <1>2, <2>2, Bytes DEF Init
  <2> QED BY <2>1, <2>2
<1>7. ASSUME Walking
      PROVE  out = 0 /\ job.n \in {1, 2}
  BY <1>1, <1>7, JobType DEF Init, Walking
<1>8. 0 \in 0 .. 256 ^ 0 - 1 BY Powers, SMT
<1>9. ASSUME job.kind = "digits" PROVE out \in Byte BY <1>1, <1>9, JobType DEF Init, Jobs, Byte
<1>10. Walking => at \in 0 .. job.n /\ at # job.n BY <1>3, <1>7, SMT
<1> QED BY <1>1, <1>3, <1>4, <1>5, <1>6, <1>7, <1>8, <1>9, <1>10, SMT DEF Shape

\* A turn keeps it.
LEMMA TurnedShape ==
    ASSUME Shape, ~Walking, job.kind # "digits", NEW name \in {"rlc", "rrc", "rl", "rr"},
           NEW places \in {8, 9}, NEW by \in Int, Turned(name, places, by)
    PROVE  Shape'
<1>1. job' = job /\ due' = due BY DEF Turned
<1>2. Walking' = Walking BY <1>1 DEF Walking
<1>3. at' = (at + by) % places /\ at \in Int BY SMT DEF Turned, Shape
<1>4. at' \in 0 .. 8 BY <1>3, SMT
<1>5. a \in Byte /\ DOMAIN f = Names BY DEF Shape
<1>6. a' \in Byte /\ DOMAIN f' = Names
  <2>1. CASE a' = Cb(name, a, f).r /\ f' = Cb(name, a, f).f
    BY <1>5, <2>1, RotateFields, TurnType DEF RotatesTo
  <2>2. CASE a' = RotateA(name, a, f).r /\ f' = RotateA(name, a, f).f
    BY <1>5, <2>2, RotateFields, TurnType DEF RotatesTo
  <2> QED BY <2>1, <2>2 DEF Turned
<1> QED BY <1>1, <1>2, <1>4, <1>6 DEF Shape

\* Every step keeps it.
LEMMA NextShape == ASSUME Shape, [Next]_vars PROVE Shape'
<1>1. job \in Jobs /\ DOMAIN f = Names /\ a \in Byte BY DEF Shape
<1>2. CASE Sum
  <2> DEFINE u == ByteAt(job.x, at)
             v == ByteAt(job.y, at)
             w == at > 0 \/ job.chained
             o == AluAdd(u, v, f, w)
  <2>1. Summing /\ Walking /\ due = "compute" /\ Computed(o) BY <1>2 DEF Sum, Summing, Walking
  <2>2. u \in Byte /\ v \in Byte BY <2>1, ThisByte, OperandBytes
  <2> HIDE DEF u, v, w
  <2>3. Adds(o.r, o.f.c, u, v, CarryIn(f, w)) BY <2>2, AddExact
  <2>4. AfterAdd(o.f, u, v, SumOf(u, v, f, w)) BY AddFields
  <2> HIDE DEF o
  <2>5. o.r \in Byte /\ DOMAIN o.f = Names BY <2>3, <2>4 DEF Adds, AfterAdd, IsFlags
  <2> QED BY <2>1, <2>5, ComputedShape
<1>3. CASE Difference
  <2> DEFINE u == ByteAt(job.x, at)
             v == ByteAt(job.y, at)
             w == at > 0 \/ job.chained
             o == AluSub(u, v, f, w)
  <2>1. Summing /\ Walking /\ due = "compute" /\ Computed(o)
    BY <1>3 DEF Difference, Summing, Walking
  <2>2. u \in Byte /\ v \in Byte BY <2>1, ThisByte, OperandBytes
  <2> HIDE DEF u, v, w
  <2>3. Takes(o.r, o.f.c, u, v, CarryIn(f, w)) BY <2>2, SubExact
  <2>4. AfterSub(o.f, u, v, DiffOf(u, v, f, w)) BY SubFields
  <2> HIDE DEF o
  <2>5. o.r \in Byte /\ DOMAIN o.f = Names BY <2>3, <2>4 DEF Takes, AfterSub, IsFlags
  <2> QED BY <2>1, <2>5, ComputedShape
<1>4. CASE Adjust
  <2> DEFINE o == AluDaa(a, f)
  <2>1. due = "adjust" /\ f' = o.f /\ Stored(o.r, Above(out, at, o.r))
    BY <1>4 DEF Adjust, Above
  <2>2. Walking BY <2>1 DEF Shape
  <2>3. at \in {0, 1} /\ Fits(out, at) BY <2>1, <2>2, ThisByte DEF Shape, Fits
  <2>4. o.r \in Byte /\ DOMAIN o.f = Names BY <1>1, DaaType, DaaFields
  <2> HIDE DEF o
  <2>5. Fits(Above(out, at, o.r), at + 1) BY <2>3, <2>4, OneMoreByte
  <2> QED BY <2>1, <2>2, <2>4, <2>5, StoredShape
<1>5. CASE Count
  <2>1. due = "count" /\ due' = "compute" /\ UNCHANGED <<job, at, a, out>> BY <1>5 DEF Count
  <2>2. DOMAIN f' = Names BY <1>1, <1>5, CountFields DEF Count
  <2>3. Walking' = Walking BY <2>1 DEF Walking
  <2>4. Walking /\ at = 1 /\ at # job.n BY <2>1 DEF Shape
  <2> QED BY <1>1, <2>1, <2>2, <2>3, <2>4 DEF Shape
<1>6. CASE DoubleByte
  <2>1. due = "compute" /\ Walking /\ job.kind = "double" BY <1>6 DEF DoubleByte, Walking
  <2>2. at \in {0, 1} /\ Fits(out, at) BY <2>1, ThisByte DEF Shape, Fits
  <2>3. ByteAt(job.x, at) \in Byte BY <2>1, <2>2, OperandBytes
  <2>4. PICK name \in (IF at = 0 THEN {job.first} ELSE {"rl", "adc"}) :
          \E o \in Results(name, ByteAt(job.x, at)) :
            f' = o.f /\ Stored(o.r, Above(out, at, o.r))
    BY <1>6 DEF DoubleByte, Above
  <2>5. PICK o \in Results(name, ByteAt(job.x, at)) :
          f' = o.f /\ Stored(o.r, Above(out, at, o.r))
    BY <2>4
  <2>6. name \in {"sla", "sll", "rl", "add", "adc"} BY <1>1, <2>1, <2>4, JobType
  <2>7. o.r \in Byte /\ DOMAIN o.f = Names BY <1>1, <2>3, <2>5, <2>6, DoubledByte DEF Doubles
  <2>8. Fits(Above(out, at, o.r), at + 1) BY <2>2, <2>7, OneMoreByte
  <2> QED BY <2>1, <2>5, <2>7, <2>8, StoredShape
<1>7. CASE HalveByte
  <2> DEFINE name == IF at = 0 THEN job.first ELSE "rr"
             b == ByteAt(job.x, job.n - 1 - at)
  <2>1. due = "compute" /\ Walking /\ job.kind = "halve" BY <1>7 DEF HalveByte, Walking
  <2>2. at \in {0, 1} /\ Fits(out, at) /\ at < job.n /\ job.n \in {1, 2}
    BY <2>1, ThisByte DEF Shape, Fits
  <2>3. b \in Byte
    <3>1. job.n - 1 - at \in {0, 1} BY <2>2, SMT
    <3> QED BY <2>1, <3>1, OperandBytes
  <2>4. PICK o \in Results(name, b) : f' = o.f /\ Stored(o.r, Below(out, o.r))
    BY <1>7 DEF HalveByte, Below
  <2>5. name \in {"srl", "sra", "rr"} BY <1>1, <2>1, JobType
  <2> HIDE DEF name, b
  <2>6. o.r \in Byte /\ DOMAIN o.f = Names BY <1>1, <2>3, <2>4, <2>5, HalvedByte DEF Halves
  <2>7. Fits(Below(out, o.r), at + 1) BY <2>2, <2>6, OneMoreByte
  <2> QED BY <2>1, <2>4, <2>6, <2>7, StoredShape
<1>8. CASE Turn
  <2>1. ~Walking /\ job.kind # "digits" BY <1>8 DEF Turn, Walking
  <2>2. Turned("rlc", 8, 1) \/ Turned("rrc", 8, -1) BY <1>8 DEF Turn
  <2> QED BY <2>1, <2>2, TurnedShape
<1>9. CASE Turn9
  <2>1. ~Walking /\ job.kind # "digits" BY <1>9 DEF Turn9, Walking
  <2>2. Turned("rl", 9, 1) \/ Turned("rr", 9, -1) BY <1>9 DEF Turn9
  <2> QED BY <2>1, <2>2, TurnedShape
<1>10. CASE TurnDigits
  <2>1. job' = job /\ due' = due /\ job.kind = "digits" BY <1>10 DEF TurnDigits
  <2>2. ~Walking /\ ~Walking' BY <2>1 DEF Walking
  <2>3. out \in Byte /\ at \in Int BY <2>1, <2>2, SMT DEF Shape
  <2>4. /\ a' \in Byte /\ out' \in Byte /\ DOMAIN f' = Names
        /\ at' = (at + 1) % 3 \/ at' = (at - 1) % 3
    BY <1>1, <1>10, <2>3, DigitBytes, DigitFlags DEF TurnDigits
  <2>5. at' \in 0 .. 8 BY <2>3, <2>4, SMT
  <2> QED BY <1>1, <2>1, <2>2, <2>4, <2>5 DEF Shape
<1>11. CASE UNCHANGED vars BY <1>11 DEF vars, Shape, Walking, Summing
<1> QED
  BY <1>2, <1>3, <1>4, <1>5, <1>6, <1>7, <1>8, <1>9, <1>10, <1>11 DEF Next, Done

\* Every reachable state has it.
THEOREM ShapeHolds == Spec => []Shape
<1>1. Init => Shape BY InitShape
<1>2. Shape /\ [Next]_vars => Shape' BY NextShape
<1> QED BY <1>1, <1>2, PTL DEF Spec

-----------------------------------------------------------------------------
(* Sums and differences of several bytes                                    *)

\* number and the carry k out of it are the sum, or the difference, of the low
\* i bytes of x and y and the carry j into them.
LongSum(number, i, k, x, y, j)  == number + 256 ^ i * k = Low(x, i) + Low(y, i) + j
LongDiff(number, i, k, x, y, j) == number - 256 ^ i * k = Low(x, i) - Low(y, i) - j

LongSoFar(number, i, k) ==
    IF job.kind = "sum" THEN LongSum(number, i, k, job.x, job.y, Incoming)
                        ELSE LongDiff(number, i, k, job.x, job.y, Incoming)

LongInv == Summing /\ ~job.decimal => LongSoFar(out, at, Held)

\* Carries are bits.
LEMMA OneType == \A b : One(b) \in {0, 1}
BY DEF One

\* The low bytes of a number and the next one.
LowGrows(w, i) ==
    /\ Low(w, i) \in Int /\ Low(w, i + 1) \in Int /\ ByteAt(w, i) \in Int
    /\ Low(w, i + 1) = Low(w, i) + 256 ^ i * ByteAt(w, i)

\* So do the low bytes of any word.
LEMMA LowStep == ASSUME NEW w \in Word, NEW i \in {0, 1} PROVE LowGrows(w, i)
<1> USE DEF LowGrows
<1>1. CASE i = 0
  <2>1. Low(w, 0) = 0 /\ Low(w, 1) = ByteAt(w, 0) /\ ByteAt(w, 0) \in Int BY Bytes, Ranges
  <2> QED BY <1>1, <2>1, Powers, SMT
<1>2. CASE i = 1
  <2>1. Low(w, 1) = ByteAt(w, 0) /\ Low(w, 2) = w /\ w = 256 * ByteAt(w, 1) + ByteAt(w, 0)
    BY Bytes
  <2>2. w \in Int /\ ByteAt(w, 0) \in Int /\ ByteAt(w, 1) \in Int BY Bytes, Ranges
  <2> QED BY <1>2, <2>1, <2>2, Powers, SMT
<1> QED BY <1>1, <1>2

\* The result of one more byte continues the result so far.
LEMMA LongStep ==
    ASSUME NEW x \in Word, NEW y \in Word, NEW i \in {0, 1}, NEW number \in Int,
           NEW k \in Int, NEW inc \in Int, NEW r \in Byte, NEW c
    PROVE  /\ LongSum(number, i, k, x, y, inc) /\ Adds(r, c, ByteAt(x, i), ByteAt(y, i), k)
                => LongSum(Above(number, i, r), i + 1, One(c), x, y, inc)
           /\ LongDiff(number, i, k, x, y, inc) /\ Takes(r, c, ByteAt(x, i), ByteAt(y, i), k)
                => LongDiff(Above(number, i, r), i + 1, One(c), x, y, inc)
<1> DEFINE u == ByteAt(x, i)
           v == ByteAt(y, i)
           xl == Low(x, i)
           yl == Low(y, i)
           xh == Low(x, i + 1)
           yh == Low(y, i + 1)
           o == One(c)
<1>1. /\ xl \in Int /\ xh \in Int /\ u \in Int /\ xh = xl + 256 ^ i * u
      /\ yl \in Int /\ yh \in Int /\ v \in Int /\ yh = yl + 256 ^ i * v
  <2>1. LowGrows(x, i) /\ LowGrows(y, i) BY LowStep
  <2> QED BY <2>1 DEF LowGrows
<1>2. o \in Int BY OneType, SMT
<1>3. r \in Int BY Ranges
<1> HIDE DEF u, v, xl, yl, xh, yh, o
<1>4. ASSUME number + 256 ^ i * k = xl + yl + inc, r + 256 * o = u + v + k
      PROVE  Above(number, i, r) + 256 ^ (i + 1) * o = xh + yh + inc
  <2>1. CASE i = 0
    <3>1. 256 ^ i = 1 /\ 256 ^ (i + 1) = 256 BY <2>1, Powers
    <3> QED BY <1>1, <1>2, <1>3, <1>4, <3>1, SMT DEF Above
  <2>2. CASE i = 1
    <3>1. 256 ^ i = 256 /\ 256 ^ (i + 1) = 65536 BY <2>2, Powers
    <3> QED BY <1>1, <1>2, <1>3, <1>4, <3>1, SMT DEF Above
  <2> QED BY <2>1, <2>2
<1>5. ASSUME number - 256 ^ i * k = xl - yl - inc, r - 256 * o = u - v - k
      PROVE  Above(number, i, r) - 256 ^ (i + 1) * o = xh - yh - inc
  <2>1. CASE i = 0
    <3>1. 256 ^ i = 1 /\ 256 ^ (i + 1) = 256 BY <2>1, Powers
    <3> QED BY <1>1, <1>2, <1>3, <1>5, <3>1, SMT DEF Above
  <2>2. CASE i = 1
    <3>1. 256 ^ i = 256 /\ 256 ^ (i + 1) = 65536 BY <2>2, Powers
    <3> QED BY <1>1, <1>2, <1>3, <1>5, <3>1, SMT DEF Above
  <2> QED BY <2>1, <2>2
<1> QED BY <1>4, <1>5 DEF u, v, xl, yl, xh, yh, o, Adds, Takes, LongSum, LongDiff

\* Behind a first byte the carry comes from C.
LEMMA HeldIsC == ASSUME NEW g, NEW i \in {0, 1}, NEW b PROVE CarryIn(g, i + 1 > 0 \/ b) = One(g.c)
<1>1. i + 1 > 0 BY SMT
<1> QED BY <1>1 DEF CarryIn, One

\* In a program that sums, only these steps are taken.
LEMMA SummingSteps ==
    ASSUME Shape, [Next]_vars, Summing'
    PROVE  /\ job' = job /\ Summing /\ Walking
           /\ Sum \/ Difference \/ Adjust \/ Count \/ UNCHANGED vars
<1>1. job' = job
  BY DEF Next, Sum, Difference, Adjust, Count, DoubleByte, HalveByte, Turn, Turn9, TurnDigits,
         Done, Computed, Stored, Turned, vars
<1>2. Summing /\ Walking BY <1>1 DEF Summing, Walking
<1>3. ~DoubleByte /\ ~HalveByte /\ ~Turn /\ ~Turn9 /\ ~TurnDigits
  BY <1>2 DEF DoubleByte, HalveByte, Turn, Turn9, TurnDigits, Summing
<1> QED BY <1>1, <1>2, <1>3 DEF Next, Done

\* The state of a binary sum or difference and the byte it computes next.
LEMMA SumFacts ==
    ASSUME Shape, Sum
    PROVE  LET u == ByteAt(job.x, at)
               v == ByteAt(job.y, at)
               o == AluAdd(u, v, f, at > 0 \/ job.chained)
           IN  /\ u \in Byte /\ v \in Byte /\ at \in {0, 1} /\ at < job.n /\ job.n \in {1, 2}
               /\ job.x \in Word /\ job.y \in Word /\ out \in Int
               /\ f' = o.f /\ Adds(o.r, o.f.c, u, v, Held)
               /\ o.r = (u + v + Held) % 256 /\ AfterAdd(o.f, u, v, u + v + Held)
<1> DEFINE u == ByteAt(job.x, at)
           v == ByteAt(job.y, at)
           w == at > 0 \/ job.chained
           o == AluAdd(u, v, f, w)
<1>1. Summing /\ Walking /\ due # "done" /\ f' = o.f BY DEF Sum, Summing, Walking, Computed
<1>2. at \in {0, 1} /\ at < job.n /\ job.n \in {1, 2} BY <1>1, ThisByte
<1>3. u \in Byte /\ v \in Byte /\ job.x \in Word /\ job.y \in Word BY <1>1, <1>2, OperandBytes
<1>4. Fits(out, at) BY <1>1 DEF Shape, Fits
<1>5. out \in Int BY <1>2, <1>4, Powers, SMT DEF Fits
<1>6. Held = CarryIn(f, w) BY DEF Held
<1> HIDE DEF u, v, w
<1>7. Adds(o.r, o.f.c, u, v, CarryIn(f, w)) BY <1>3, AddExact
<1>8. o.r = SumOf(u, v, f, w) % 256 /\ AfterAdd(o.f, u, v, SumOf(u, v, f, w))
  BY AddFields, Zenon
<1>9. SumOf(u, v, f, w) = u + v + Held BY <1>6 DEF SumOf
<1> HIDE DEF o
<1>10. o.r = (u + v + Held) % 256 /\ AfterAdd(o.f, u, v, u + v + Held) BY <1>8, <1>9
<1> QED BY <1>1, <1>2, <1>3, <1>5, <1>6, <1>7, <1>10 DEF u, v, w, o

\* And for a difference.
LEMMA DifferenceFacts ==
    ASSUME Shape, Difference
    PROVE  LET u == ByteAt(job.x, at)
               v == ByteAt(job.y, at)
               o == AluSub(u, v, f, at > 0 \/ job.chained)
           IN  /\ u \in Byte /\ v \in Byte /\ at \in {0, 1} /\ at < job.n /\ job.n \in {1, 2}
               /\ job.x \in Word /\ job.y \in Word /\ out \in Int
               /\ f' = o.f /\ Takes(o.r, o.f.c, u, v, Held)
               /\ o.r = W16(u - v - Held) % 256 /\ AfterSub(o.f, u, v, W16(u - v - Held))
<1> DEFINE u == ByteAt(job.x, at)
           v == ByteAt(job.y, at)
           w == at > 0 \/ job.chained
           o == AluSub(u, v, f, w)
<1>1. Summing /\ Walking /\ due # "done" /\ f' = o.f BY DEF Difference, Summing, Walking, Computed
<1>2. at \in {0, 1} /\ at < job.n /\ job.n \in {1, 2} BY <1>1, ThisByte
<1>3. u \in Byte /\ v \in Byte /\ job.x \in Word /\ job.y \in Word BY <1>1, <1>2, OperandBytes
<1>4. Fits(out, at) BY <1>1 DEF Shape, Fits
<1>5. out \in Int BY <1>2, <1>4, Powers, SMT DEF Fits
<1>6. Held = CarryIn(f, w) BY DEF Held
<1> HIDE DEF u, v, w
<1>7. Takes(o.r, o.f.c, u, v, CarryIn(f, w)) BY <1>3, SubExact
<1>8. o.r = DiffOf(u, v, f, w) % 256 /\ AfterSub(o.f, u, v, DiffOf(u, v, f, w))
  BY SubFields, Zenon
<1>9. DiffOf(u, v, f, w) = W16(u - v - Held) BY <1>6 DEF DiffOf
<1> HIDE DEF o
<1>10. o.r = W16(u - v - Held) % 256 /\ AfterSub(o.f, u, v, W16(u - v - Held)) BY <1>8, <1>9
<1> QED BY <1>1, <1>2, <1>3, <1>5, <1>6, <1>7, <1>10 DEF u, v, w, o

\* At the start nothing is done and C is what came in.
LEMMA InitLong == ASSUME Init PROVE LongInv
<1> SUFFICES ASSUME Summing, ~job.decimal PROVE LongSoFar(out, at, Held)
  BY DEF LongInv
<1>1. Shape BY InitShape
<1>2. job.x \in Word /\ job.y \in Word BY <1>1, JobType DEF Shape, Summing
<1>3. Low(job.x, 0) = 0 /\ Low(job.y, 0) = 0 BY <1>2, Bytes
<1>4. at = 0 /\ out = 0 /\ f.c = job.c BY <1>1 DEF Init, Shape, Walking, Summing
<1>5. Held = Incoming
  <2>1. ~(at > 0) BY <1>4, SMT
  <2> QED BY <1>4, <2>1 DEF Held, CarryIn, Incoming, One
<1>6. Incoming \in Int BY OneType, SMT DEF Incoming
<1> QED BY <1>3, <1>4, <1>5, <1>6, Powers, SMT DEF LongSoFar, LongSum, LongDiff

\* Every step keeps the result so far exact.
LEMMA LongNext == ASSUME Shape, LongInv, [Next]_vars PROVE LongInv'
<1> SUFFICES ASSUME Summing', ~job'.decimal PROVE LongSoFar(out, at, Held)'
  BY DEF LongInv
<1>1. job' = job /\ Summing /\ Walking /\ ~job.decimal
  BY SummingSteps
<1>2. LongSoFar(out, at, Held) BY <1>1 DEF LongInv
<1>3. Incoming \in Int /\ Held \in Int /\ Incoming' = Incoming
  BY <1>1, OneType, CarryInType, SMT DEF Incoming, Held
<1>4. CASE Sum
  <2> DEFINE u == ByteAt(job.x, at)
             v == ByteAt(job.y, at)
             o == AluAdd(u, v, f, at > 0 \/ job.chained)
  <2>1. /\ at \in {0, 1} /\ job.x \in Word /\ job.y \in Word /\ out \in Int
        /\ f' = o.f /\ Adds(o.r, o.f.c, u, v, Held)
    BY <1>4, SumFacts
  <2>2. job.kind = "sum" /\ Stored(o.r, Above(out, at, o.r))
    BY <1>1, <1>4 DEF Sum, Computed, Above
  <2> HIDE DEF o
  <2>3. out' = Above(out, at, o.r) /\ at' = at + 1 BY <2>2 DEF Stored
  <2>4. Held' = One(o.f.c) BY <1>1, <2>1, <2>3, HeldIsC DEF Held
  <2>5. LongSum(out, at, Held, job.x, job.y, Incoming)
    BY <1>2, <2>2 DEF LongSoFar
  <2>6. o.r \in Byte BY <2>1 DEF Adds
  <2>7. LongSum(Above(out, at, o.r), at + 1, One(o.f.c), job.x, job.y, Incoming)
    BY <1>3, <2>1, <2>5, <2>6, LongStep
  <2> QED BY <1>1, <1>3, <2>2, <2>3, <2>4, <2>7 DEF LongSoFar
<1>5. CASE Difference
  <2> DEFINE u == ByteAt(job.x, at)
             v == ByteAt(job.y, at)
             o == AluSub(u, v, f, at > 0 \/ job.chained)
  <2>1. /\ at \in {0, 1} /\ job.x \in Word /\ job.y \in Word /\ out \in Int
        /\ f' = o.f /\ Takes(o.r, o.f.c, u, v, Held)
    BY <1>5, DifferenceFacts
  <2>2. job.kind = "difference" /\ Stored(o.r, Above(out, at, o.r))
    BY <1>1, <1>5 DEF Difference, Computed, Above
  <2> HIDE DEF o
  <2>3. out' = Above(out, at, o.r) /\ at' = at + 1 BY <2>2 DEF Stored
  <2>4. Held' = One(o.f.c) BY <1>1, <2>1, <2>3, HeldIsC DEF Held
  <2>5. LongDiff(out, at, Held, job.x, job.y, Incoming)
    BY <1>2, <2>2 DEF LongSoFar
  <2>6. o.r \in Byte BY <2>1 DEF Takes
  <2>7. LongDiff(Above(out, at, o.r), at + 1, One(o.f.c), job.x, job.y, Incoming)
    BY <1>3, <2>1, <2>5, <2>6, LongStep
  <2> QED BY <1>1, <1>3, <2>2, <2>3, <2>4, <2>7 DEF LongSoFar
<1>6. CASE Adjust
  <2>1. due = "adjust" BY <1>6 DEF Adjust
  <2> QED BY <1>1, <2>1 DEF Shape
<1>7. CASE Count
  <2>1. DOMAIN f = Names /\ UNCHANGED <<job, at, out>> BY <1>7 DEF Shape, Count
  <2>2. f'.c = f.c BY <1>7, <2>1, CountFields DEF Count
  <2>3. Held' = Held BY <2>1, <2>2 DEF Held, CarryIn
  <2> QED BY <1>2, <1>3, <2>1, <2>3 DEF LongSoFar
<1>8. CASE UNCHANGED vars
  <2>1. UNCHANGED <<job, at, out, f>> BY <1>8 DEF vars
  <2>2. Held' = Held BY <2>1 DEF Held, CarryIn
  <2> QED BY <1>2, <1>3, <2>1, <2>2 DEF LongSoFar
<1> QED BY <1>4, <1>5, <1>6, <1>7, <1>8, SummingSteps

\* And gives what the run checks.
LEMMA LongGives == ASSUME Shape, LongInv PROVE LongExact
<1> SUFFICES ASSUME Summing, ~job.decimal, at > 0
             PROVE  IF job.kind = "sum"
                      THEN out + 256 ^ at * Outgoing = Low(job.x, at) + Low(job.y, at) + Incoming
                      ELSE out - 256 ^ at * Outgoing = Low(job.x, at) - Low(job.y, at) - Incoming
  BY DEF LongExact
<1>1. LongSoFar(out, at, Held) BY DEF LongInv
<1>2. Held = Outgoing BY DEF Held, CarryIn, Outgoing, One
<1> QED BY <1>1, <1>2 DEF LongSoFar, LongSum, LongDiff

\* Sums and differences of any numbers of one byte or two are exact with their
\* carry, whatever is counted between the bytes: alu_add and alu_sub compute
\* the carry by Has(sum, 256), and alu_inc, alu_dec and CPL keep it.
THEOREM LongExactHolds == Spec => []LongExact
<1>1. Init => LongInv BY InitLong
<1>2. Shape /\ LongInv /\ [Next]_vars => LongInv' BY LongNext
<1>3. Shape /\ LongInv => LongExact BY LongGives
<1> QED BY <1>1, <1>2, <1>3, ShapeHolds, PTL DEF Spec

-----------------------------------------------------------------------------
(* Doubling and halving                                                      *)

\* What comes in below the number, and above it when i bytes are done.
BelowNumber == One(job.first = "sll" \/ (job.first \in {"rl", "adc"} /\ job.c))

High(i) == job.x \div 256 ^ (job.n - i)
AboveNumber(i) ==
    CASE job.first = "srl" -> FALSE
      [] job.first = "sra" -> 2 * High(i) >= 256 ^ i
      [] job.first = "rr"  -> job.c

DoubleSoFar(number, i, c) == number + 256 ^ i * One(c) = 2 * Low(job.x, i) + BelowNumber
HalfSoFar(number, i, c)   == 2 * number + One(c) = High(i) + One(AboveNumber(i)) * 256 ^ i

\* The property in these words.
LEMMA ShiftSoFar ==
    ShiftExact <=> /\ job.kind = "double" /\ at > 0 => DoubleSoFar(out, at, f.c)
                   /\ job.kind = "halve" /\ at > 0 => HalfSoFar(out, at, f.c)
BY Zenon DEF ShiftExact, DoubleSoFar, HalfSoFar, Low, BelowNumber, High, AboveNumber

\* It holds at the start, where nothing is shifted.
LEMMA InitShift == ASSUME Init PROVE ShiftExact
<1>1. ~(at > 0) BY SMT DEF Init
<1> QED BY <1>1, ShiftSoFar

\* Bit 7 of a byte is its upper half.
LEMMA TopBit == ASSUME NEW b \in Byte PROVE Has(b, 128) <=> 2 * b >= 256
BY Ranges, SMT DEF Has

\* Doubling a byte more.
LEMMA DoubleNext == ASSUME Shape, ShiftExact, DoubleByte PROVE ShiftExact'
<1>1. due = "compute" /\ Walking /\ job.kind = "double" BY DEF DoubleByte, Walking
<1>2. job \in Jobs /\ DOMAIN f = Names BY DEF Shape
<1>3. at \in {0, 1} /\ job.x \in Word BY <1>1, ThisByte, OperandBytes
<1> DEFINE b == ByteAt(job.x, at)
<1>4. b \in Byte BY <1>1, <1>3, OperandBytes
<1>5. PICK name \in (IF at = 0 THEN {job.first} ELSE {"rl", "adc"}) :
        \E o \in Results(name, b) : f' = o.f /\ Stored(o.r, Above(out, at, o.r))
  BY DEF DoubleByte, Above
<1>6. PICK o \in Results(name, b) : f' = o.f /\ Stored(o.r, Above(out, at, o.r))
  BY <1>5
<1>7. name \in {"sla", "sll", "rl", "add", "adc"} BY <1>1, <1>2, <1>5, JobType
<1>8. Doubles(o.r, f'.c, b, One(ComesIn(name, f))) BY <1>2, <1>4, <1>6, <1>7, DoubledByte
<1>9. job' = job /\ at' = at + 1 /\ out' = Above(out, at, o.r) BY <1>6 DEF Stored
<1>10. BelowNumber \in Int /\ One(f.c) \in Int /\ One(f'.c) \in Int
  BY OneType, SMT DEF BelowNumber
<1> DEFINE n1 == One(f.c)
           n2 == One(f'.c)
           xl == Low(job.x, at)
           xh == Low(job.x, at + 1)
<1>11. LowGrows(job.x, at) BY <1>3, LowStep
<1>12. xl \in Int /\ xh \in Int /\ b \in Int /\ xh = xl + 256 ^ at * b BY <1>11 DEF LowGrows
<1>13. n1 \in Int /\ n2 \in Int BY <1>10
<1>14. DoubleSoFar(Above(out, at, o.r), at + 1, f'.c)
  <2>1. CASE at = 0
    <3>1. name = job.first /\ out = 0 /\ f.c = job.c BY <1>1, <1>5, <2>1 DEF Shape
    <3>2. One(ComesIn(name, f)) = BelowNumber BY <3>1 DEF ComesIn, BelowNumber, One
    <3>3. o.r \in Int /\ o.r + 256 * n2 = 2 * b + BelowNumber
      BY <1>8, <3>2, Ranges DEF Doubles
    <3>4. Above(out, at, o.r) = o.r /\ 256 ^ (at + 1) = 256 /\ xh = b
      <4>1. xl = 0 BY <1>3, <2>1, Bytes
      <4> QED BY <1>12, <2>1, <3>1, <3>3, <4>1, Powers, SMT DEF Above
    <3> HIDE DEF b, n2, xh
    <3>5. Above(out, at, o.r) + 256 ^ (at + 1) * n2 = 2 * xh + BelowNumber
      BY <3>3, <3>4
    <3> QED BY <3>5 DEF DoubleSoFar, n2, xh
  <2>2. CASE at = 1
    <3>1. name \in {"rl", "adc"} BY <1>5, <2>2
    <3>2. One(ComesIn(name, f)) = n1 BY <3>1 DEF ComesIn, One
    <3>3. o.r \in Int /\ o.r + 256 * n2 = 2 * b + n1 BY <1>8, <3>2, Ranges DEF Doubles
    <3>4. DoubleSoFar(out, at, f.c)
      <4>1. at > 0 BY <2>2, SMT
      <4> QED BY <1>1, <4>1, ShiftSoFar
    <3>5. out + 256 * n1 = 2 * xl + BelowNumber BY <2>2, <3>4, Powers DEF DoubleSoFar
    <3>6. 256 ^ at = 256 /\ 256 ^ (at + 1) = 65536 BY <2>2, Powers
    <3>7. Above(out, at, o.r) = out + 256 * o.r /\ xh = xl + 256 * b
      BY <1>12, <3>6 DEF Above
    <3>8. out \in Int BY <1>1, <2>2, Powers, SMT DEF Shape
    <3> HIDE DEF b, n1, n2, xl, xh
    <3>9. (out + 256 * o.r) + 65536 * n2 = 2 * xh + BelowNumber
      BY <1>10, <1>12, <1>13, <3>3, <3>5, <3>7, <3>8, SMT
    <3>10. Above(out, at, o.r) + 256 ^ (at + 1) * n2 = 2 * xh + BelowNumber
      BY <3>6, <3>7, <3>9
    <3> QED BY <3>10 DEF DoubleSoFar, n2, xh
  <2> QED BY <1>3, <2>1, <2>2
<1>15. ShiftExact' <=> /\ job'.kind = "double" /\ at' > 0 => DoubleSoFar(out, at, f.c)'
                       /\ job'.kind = "halve" /\ at' > 0 => HalfSoFar(out, at, f.c)'
  BY Zenon DEF ShiftExact, DoubleSoFar, HalfSoFar, Low, BelowNumber, High, AboveNumber
<1>16. DoubleSoFar(out, at, f.c)' BY <1>9, <1>14 DEF DoubleSoFar, BelowNumber
<1> QED BY <1>1, <1>9, <1>15, <1>16

\* The high bytes of a number.
LEMMA HighBytes ==
    ASSUME NEW w \in Word
    PROVE  /\ w \div 256 ^ 0 = w /\ w \div 256 ^ 1 = ByteAt(w, 1)
           /\ w = 256 * ByteAt(w, 1) + ByteAt(w, 0)
           /\ ByteAt(w, 0) \in Byte /\ ByteAt(w, 1) \in Byte /\ w \in Int
<1>1. w \div 256 ^ 0 = w /\ w \in Int BY Ranges, SMT
<1>2. 256 ^ 1 = 256 BY Powers
<1> QED BY <1>1, <1>2, Bytes

\* Halving a byte more.
LEMMA HalveNext == ASSUME Shape, ShiftExact, HalveByte PROVE ShiftExact'
<1>1. due = "compute" /\ Walking /\ job.kind = "halve" BY DEF HalveByte, Walking
<1>2. job \in Jobs /\ DOMAIN f = Names BY DEF Shape
<1>3. at \in {0, 1} /\ at < job.n /\ job.n \in {1, 2} /\ job.x \in Word
  BY <1>1, ThisByte, OperandBytes
<1>4. job.first \in {"srl", "sra", "rr"} BY <1>1, <1>2, JobType
<1> DEFINE name == IF at = 0 THEN job.first ELSE "rr"
           k == job.n - 1 - at
           b == ByteAt(job.x, k)
<1>5. k \in {0, 1} BY <1>3, SMT
<1>6. b \in Byte BY <1>1, <1>5, OperandBytes
<1>7. PICK o \in Results(name, b) : f' = o.f /\ Stored(o.r, Below(out, o.r))
  BY DEF HalveByte, Below
<1>8. name \in {"srl", "sra", "rr"} BY <1>4
<1>9. Halves(o.r, f'.c, b, One(ComesAbove(name, b, f))) BY <1>2, <1>6, <1>7, <1>8, HalvedByte
<1>10. job' = job /\ at' = at + 1 /\ out' = Below(out, o.r) BY <1>7 DEF Stored
<1> DEFINE n1 == One(f.c)
           n2 == One(f'.c)
<1>11. n1 \in {0, 1} /\ n2 \in {0, 1} BY OneType
<1>12. HalfSoFar(Below(out, o.r), at + 1, f'.c)
  <2>1. CASE at = 0
    <3>1. name = job.first /\ out = 0 /\ f.c = job.c BY <1>1, <2>1 DEF Shape
    <3>2. High(1) = b
      <4>1. CASE job.n = 1
        <5>1. job.n - 1 = 0 /\ k = 0 BY <4>1, <2>1, SMT
        <5>2. job.x \in Byte BY <1>2, <4>1, JobType
        <5>3. b = job.x /\ job.x \div 256 ^ 0 = job.x BY <1>3, <5>1, <5>2, OneByte, HighBytes
        <5>4. High(1) = job.x BY <5>1, <5>3 DEF High
        <5> QED BY <5>3, <5>4
      <4>2. CASE job.n = 2
        <5>1. job.n - 1 = 1 /\ k = 1 BY <4>2, <2>1, SMT
        <5>2. job.x \div 256 ^ 1 = ByteAt(job.x, 1) BY <1>3, HighBytes
        <5> QED BY ONLY <5>1, <5>2, Zenon DEF High, b
      <4> QED BY <1>3, <4>1, <4>2
    <3>3. ComesAbove(name, b, f) <=> AboveNumber(1)
      <4>1. CASE job.first = "srl" BY <3>1, <4>1 DEF ComesAbove, AboveNumber
      <4>2. CASE job.first = "sra"
        <5>1. AboveNumber(1) <=> 2 * b >= 256 BY <3>2, <4>2, Powers DEF AboveNumber
        <5> HIDE DEF b
        <5> QED BY <1>6, <3>1, <4>2, <5>1, TopBit DEF ComesAbove
      <4>3. CASE job.first = "rr" BY <3>1, <4>3 DEF ComesAbove, AboveNumber
      <4> QED BY <1>4, <4>1, <4>2, <4>3
    <3>4. One(ComesAbove(name, b, f)) = One(AboveNumber(1)) BY <3>3 DEF One
    <3> DEFINE t == One(AboveNumber(1))
    <3>5. t \in {0, 1} BY OneType
    <3>6. o.r \in Int /\ 2 * o.r + n2 = b + 256 * t BY <1>9, <3>4, Ranges DEF Halves
    <3>7. Below(out, o.r) = o.r BY <3>1, <3>6, SMT DEF Below
    <3>8. b \in Int BY <1>6, Ranges
    <3>9. at + 1 = 1 BY <2>1, SMT
    <3> HIDE DEF b, n2, t
    <3>10. 2 * o.r + n2 = High(1) + t * 256 BY <1>11, <3>2, <3>5, <3>6, <3>8, SMT
    <3>11. HalfSoFar(o.r, 1, f'.c) BY <3>10, Powers DEF HalfSoFar, n2, t
    <3> QED BY <3>7, <3>9, <3>11
  <2>2. CASE at = 1
    <3>1. name = "rr" /\ job.n = 2 /\ k = 0 BY <1>3, <2>2, SMT
    <3>2. One(ComesAbove(name, b, f)) = n1 BY <3>1 DEF ComesAbove, One
    <3>3. o.r \in Int /\ 2 * o.r + n2 = b + 256 * n1 BY <1>9, <3>2, Ranges DEF Halves
    <3>4. HalfSoFar(out, at, f.c)
      <4>1. at > 0 BY <2>2, SMT
      <4> QED BY <1>1, <4>1, ShiftSoFar
    <3> DEFINE h == ByteAt(job.x, 1)
               t == One(AboveNumber(2))
    <3>5. /\ High(1) = h /\ High(2) = job.x
          /\ job.x = 256 * h + b /\ h \in Byte /\ job.x \in Int
      <4>1. job.n - 1 = 1 /\ job.n - 2 = 0 BY <3>1, SMT
      <4> QED BY <1>3, <3>1, <4>1, HighBytes DEF High
    <3>6. h \in Int /\ b \in Int /\ 0 <= b /\ b <= 255 BY <1>6, <3>5, Ranges
    <3>7. AboveNumber(1) <=> AboveNumber(2)
      <4>1. CASE job.first = "srl" BY <4>1 DEF AboveNumber
      <4>2. CASE job.first = "sra"
        <5>1. AboveNumber(1) <=> 2 * h >= 256 BY <3>5, <4>2, Powers DEF AboveNumber
        <5>2. AboveNumber(2) <=> 2 * job.x >= 65536 BY <3>5, <4>2, Powers DEF AboveNumber
        <5> HIDE DEF h, b
        <5>3. 2 * h >= 256 <=> 2 * job.x >= 65536 BY <3>5, <3>6, SMT
        <5> QED BY <5>1, <5>2, <5>3
      <4>3. CASE job.first = "rr" BY <4>3 DEF AboveNumber
      <4> QED BY <1>4, <4>1, <4>2, <4>3
    <3>8. One(AboveNumber(1)) = t BY <3>7 DEF One
    <3>9. 2 * out + n1 = h + t * 256 BY <2>2, <3>4, <3>5, <3>8, Powers DEF HalfSoFar
    <3>10. out \in Int BY <1>1, <2>2, Powers, SMT DEF Shape
    <3>11. t \in {0, 1} BY OneType
    <3>12. at + 1 = 2 BY <2>2, SMT
    <3> HIDE DEF b, h, n1, n2, t
    <3>13. 2 * (256 * out + o.r) + n2 = job.x + t * 65536
      BY <1>11, <3>3, <3>5, <3>6, <3>9, <3>10, <3>11, SMT
    <3>14. HalfSoFar(Below(out, o.r), 2, f'.c)
      BY <3>5, <3>13, Powers DEF HalfSoFar, Below, n2, t
    <3> QED BY <3>12, <3>14
  <2> QED BY <1>3, <2>1, <2>2
<1>13. ShiftExact' <=> /\ job'.kind = "double" /\ at' > 0 => DoubleSoFar(out, at, f.c)'
                       /\ job'.kind = "halve" /\ at' > 0 => HalfSoFar(out, at, f.c)'
  BY Zenon DEF ShiftExact, DoubleSoFar, HalfSoFar, Low, BelowNumber, High, AboveNumber
<1>14. HalfSoFar(out, at, f.c)' BY <1>10, <1>12 DEF HalfSoFar, High, AboveNumber
<1> QED BY <1>1, <1>10, <1>13, <1>14

\* The other steps shift nothing.
LEMMA ShiftNext == ASSUME Shape, ShiftExact, [Next]_vars PROVE ShiftExact'
<1>1. ShiftExact' <=> /\ job'.kind = "double" /\ at' > 0 => DoubleSoFar(out, at, f.c)'
                      /\ job'.kind = "halve" /\ at' > 0 => HalfSoFar(out, at, f.c)'
  BY Zenon DEF ShiftExact, DoubleSoFar, HalfSoFar, Low, BelowNumber, High, AboveNumber
<1>2. CASE DoubleByte BY <1>2, DoubleNext
<1>3. CASE HalveByte BY <1>3, HalveNext
<1>4. ASSUME UNCHANGED <<job, at, out>>, f'.c = f.c PROVE ShiftExact'
  <2>1. DoubleSoFar(out, at, f.c)' <=> DoubleSoFar(out, at, f.c)
    BY <1>4 DEF DoubleSoFar, BelowNumber, One
  <2>2. HalfSoFar(out, at, f.c)' <=> HalfSoFar(out, at, f.c)
    BY <1>4 DEF HalfSoFar, High, AboveNumber, One
  <2> QED BY <1>1, <1>4, <2>1, <2>2, ShiftSoFar
<1>5. CASE Count
  <2>1. DOMAIN f = Names BY DEF Shape
  <2>2. f'.c = f.c /\ UNCHANGED <<job, at, out>> BY <1>5, <2>1, CountFields DEF Count
  <2> QED BY <1>4, <2>2
<1>6. CASE UNCHANGED vars BY <1>4, <1>6 DEF vars
<1>7. ASSUME job.kind \notin {"double", "halve"}, job' = job PROVE ShiftExact'
  BY <1>1, <1>7
<1>8. CASE Sum \/ Difference
  <2>1. job.kind \notin {"double", "halve"} /\ job' = job
    BY <1>8 DEF Sum, Difference, Computed, Stored
  <2> QED BY <1>7, <2>1
<1>9. CASE Adjust
  <2>1. job' = job /\ due = "adjust" BY <1>9 DEF Adjust, Stored
  <2>2. job.kind \notin {"double", "halve"} BY <2>1 DEF Shape, Summing
  <2> QED BY <1>7, <2>1, <2>2
<1>10. CASE Turn \/ Turn9 \/ TurnDigits
  <2>1. job.kind \notin {"double", "halve"} /\ job' = job
    BY <1>10 DEF Turn, Turn9, TurnDigits, Turned
  <2> QED BY <1>7, <2>1
<1> QED BY <1>2, <1>3, <1>5, <1>6, <1>8, <1>9, <1>10 DEF Next, Done

\* Numbers of one byte or two are doubled and halved exactly, whichever
\* instructions of the CB page, of A or of the ALU carry the bit from one byte
\* to the next, and whatever is counted between.
THEOREM ShiftExactHolds == Spec => []ShiftExact
<1>1. Init => ShiftExact BY InitShift
<1>2. Shape /\ ShiftExact /\ [Next]_vars => ShiftExact' BY ShiftNext
<1> QED BY <1>1, <1>2, ShapeHolds, PTL DEF Spec

-----------------------------------------------------------------------------
(* The flags behind a sum or difference                                      *)

\* F tells of the last byte of the job j, into which the lower one, low, carried
\* k, and the result is number; inc is what came in at the start.
LastOf(j, inc, number, g, low, k) ==
    LET i == j.n - 1
        u == ByteAt(j.x, i)
        v == ByteAt(j.y, i)
    IN  /\ Fits(low, i)
        /\ j.kind = "sum" =>
             /\ LongSum(low, i, k, j.x, j.y, inc)
             /\ number = Above(low, i, (u + v + k) % 256) /\ AfterAdd(g, u, v, u + v + k)
        /\ j.kind = "difference" =>
             /\ LongDiff(low, i, k, j.x, j.y, inc)
             /\ number = Above(low, i, W16(u - v - k) % 256) /\ AfterSub(g, u, v, W16(u - v - k))

LastByte ==
    Summing /\ ~job.decimal /\ due = "done" =>
        \E k \in {0, 1}, low \in Byte : LastOf(job, Incoming, out, f, low, k)

\* The last instruction makes it true.
LEMMA LastNext == ASSUME Shape, LongInv, LastByte, [Next]_vars PROVE LastByte'
<1> SUFFICES ASSUME Summing', ~job'.decimal, due' = "done"
             PROVE  \E k \in {0, 1}, low \in Byte : LastOf(job', Incoming', out', f', low, k)
  BY DEF LastByte
<1>1. job' = job /\ Summing /\ Walking /\ ~job.decimal BY SummingSteps
<1>2. Incoming' = Incoming BY <1>1 DEF Incoming
<1>3. ASSUME due = "compute", at \in {0, 1}, at + 1 = job.n, job.n \in {1, 2}
      PROVE  /\ Held \in {0, 1} /\ out \in Byte /\ Fits(out, job.n - 1) /\ at = job.n - 1
             /\ LongSoFar(out, job.n - 1, Held)
  <2>1. at = job.n - 1 BY <1>3, SMT
  <2>2. Held \in {0, 1} /\ Fits(out, at) /\ LongSoFar(out, at, Held)
    BY <1>1, <1>3, CarryInType DEF Held, Shape, Fits, LongInv
  <2>3. out \in Int /\ 0 <= out /\ out <= 255
    <3>1. CASE at = 0 BY <2>2, <3>1, Powers, SMT DEF Fits
    <3>2. CASE at = 1 BY <2>2, <3>2, Powers, SMT DEF Fits
    <3> QED BY <1>3, <3>1, <3>2
  <2> QED BY <2>1, <2>2, <2>3, Ranges
<1>4. CASE Sum
  <2> DEFINE u == ByteAt(job.x, at)
             v == ByteAt(job.y, at)
             o == AluAdd(u, v, f, at > 0 \/ job.chained)
  <2>1. /\ at \in {0, 1} /\ at < job.n /\ job.n \in {1, 2} /\ f' = o.f
        /\ o.r = (u + v + Held) % 256 /\ AfterAdd(o.f, u, v, u + v + Held)
    BY <1>4, SumFacts
  <2>2. job.kind = "sum" /\ due = "compute" /\ Stored(o.r, Above(out, at, o.r))
    BY <1>1, <1>4 DEF Sum, Computed, Above
  <2> HIDE DEF o
  <2>3. out' = Above(out, at, o.r) /\ at + 1 = job.n BY <2>2 DEF Stored
  <2>4. /\ Held \in {0, 1} /\ out \in Byte /\ Fits(out, job.n - 1) /\ at = job.n - 1
        /\ LongSoFar(out, job.n - 1, Held)
    BY <1>3, <2>1, <2>2, <2>3
  <2>5. LongSum(out, job.n - 1, Held, job.x, job.y, Incoming) BY <2>2, <2>4 DEF LongSoFar
  <2>6. LastOf(job, Incoming, out', f', out, Held)
    BY <2>1, <2>2, <2>3, <2>4, <2>5, Zenon DEF LastOf
  <2> QED BY <1>1, <1>2, <2>4, <2>6
<1>5. CASE Difference
  <2> DEFINE u == ByteAt(job.x, at)
             v == ByteAt(job.y, at)
             o == AluSub(u, v, f, at > 0 \/ job.chained)
  <2>1. /\ at \in {0, 1} /\ at < job.n /\ job.n \in {1, 2} /\ f' = o.f
        /\ o.r = W16(u - v - Held) % 256 /\ AfterSub(o.f, u, v, W16(u - v - Held))
    BY <1>5, DifferenceFacts
  <2>2. job.kind = "difference" /\ due = "compute" /\ Stored(o.r, Above(out, at, o.r))
    BY <1>1, <1>5 DEF Difference, Computed, Above
  <2> HIDE DEF o
  <2>3. out' = Above(out, at, o.r) /\ at + 1 = job.n BY <2>2 DEF Stored
  <2>4. /\ Held \in {0, 1} /\ out \in Byte /\ Fits(out, job.n - 1) /\ at = job.n - 1
        /\ LongSoFar(out, job.n - 1, Held)
    BY <1>3, <2>1, <2>2, <2>3
  <2>5. LongDiff(out, job.n - 1, Held, job.x, job.y, Incoming) BY <2>2, <2>4 DEF LongSoFar
  <2>6. LastOf(job, Incoming, out', f', out, Held)
    BY <2>1, <2>2, <2>3, <2>4, <2>5, Zenon DEF LastOf
  <2> QED BY <1>1, <1>2, <2>4, <2>6
<1>6. CASE Adjust
  <2>1. due = "adjust" BY <1>6 DEF Adjust
  <2> QED BY <1>1, <2>1 DEF Shape
<1>7. CASE Count BY <1>7 DEF Count
<1>8. CASE UNCHANGED vars
  <2>1. UNCHANGED <<job, due, out, f>> BY <1>8 DEF vars
  <2> QED BY <1>1, <1>2, <2>1 DEF LastByte
<1> QED BY <1>4, <1>5, <1>6, <1>7, <1>8, SummingSteps

\* Every reachable state has it.
LEMMA LastHolds == Spec => []LastByte
<1>1. Init => LastByte BY DEF Init, LastByte
<1>2. Shape /\ LongInv /\ LastByte /\ [Next]_vars => LastByte' BY LastNext
<1>3. Init => LongInv BY InitLong
<1>4. Shape /\ LongInv /\ [Next]_vars => LongInv' BY LongNext
<1> QED BY <1>1, <1>2, <1>3, <1>4, ShapeHolds, PTL DEF Spec

-----------------------------------------------------------------------------
(* Signed results                                                            *)

\* A byte as a signed number.
Sg(b) == IF b < 128 THEN b ELSE b - 256

\* The flags tell of the signed result t, of which the byte r is left: s is the
\* sign of t if t fits, and p says that it does not.
TellsSign(s, p, t, r) == (s # p) = (t < 0) /\ p = (t # Sg(r))

\* Bit 7 is the sign of a byte.
LEMMA SignBit ==
    /\ \A b \in Byte : Has(b, 128) <=> b >= 128
    /\ \A n \in Int : Has(n, 128) <=> n % 256 >= 128
<1>1. ASSUME NEW n \in Int PROVE Has(n, 128) <=> n % 256 >= 128
  <2>1. (n \div 128) % 2 = 1 <=> n % 256 >= 128 BY SMT
  <2> QED BY <2>1 DEF Has
<1>2. ASSUME NEW b \in Byte PROVE Has(b, 128) <=> b >= 128
  <2>1. b \in Int /\ 0 <= b /\ b <= 255 BY Ranges
  <2>2. b % 256 = b BY <2>1, SMT
  <2> QED BY <1>1, <2>1, <2>2
<1> QED BY <1>1, <1>2

\* S and P/V after a sum of two bytes.
LEMMA SumSign ==
    ASSUME NEW u \in Byte, NEW v \in Byte, NEW k \in {0, 1}, NEW g, AfterAdd(g, u, v, u + v + k)
    PROVE  TellsSign(g.s, g.p, Sg(u) + Sg(v) + k, (u + v + k) % 256)
<1> DEFINE n == u + v + k
           r == n % 256
<1>1. u \in Int /\ 0 <= u /\ u <= 255 /\ v \in Int /\ 0 <= v /\ v <= 255 /\ k \in Int
  BY Ranges, SMT
<1>2. n \in Int /\ r \in Int BY <1>1, SMT
<1>3. r = IF n >= 256 THEN n - 256 ELSE n
  <2>1. n \in Int /\ 0 <= n /\ n <= 511 BY <1>1, SMT
  <2> HIDE DEF n
  <2> QED BY <2>1, SMT
<1>4. r \in Byte BY <1>1, <1>3, Ranges, SMT
<1> DEFINE hu == Has(u, 128)
           hv == Has(v, 128)
           hn == Has(n, 128)
           hr == Has(r, 128)
<1>5. hu = (u >= 128) /\ hv = (v >= 128) /\ hn = (r >= 128) /\ hr = (r >= 128)
  BY <1>2, <1>4, SignBit DEF Has
<1>6. g.s = hr /\ g.p = (hu = hv /\ hu # hn) BY DEF AfterAdd
<1>7. n = u + v + k OBVIOUS
<1> DEFINE su == Sg(u)
           sv == Sg(v)
           sr == Sg(r)
<1>8. /\ su = IF u < 128 THEN u ELSE u - 256
      /\ sv = IF v < 128 THEN v ELSE v - 256
      /\ sr = IF r < 128 THEN r ELSE r - 256
  BY DEF Sg
<1> HIDE DEF n, r, hu, hv, hn, hr, su, sv, sr
<1> DEFINE over == hu = hv /\ hu # hn
<1>9. (hr # over) <=> su + sv + k < 0 BY <1>1, <1>2, <1>3, <1>5, <1>7, <1>8, SMT
<1>10. over <=> su + sv + k # sr BY <1>1, <1>2, <1>3, <1>5, <1>7, <1>8, SMT
<1>11. (hr # over) = (su + sv + k < 0) /\ over = (su + sv + k # sr) BY <1>9, <1>10
<1> QED BY <1>6, <1>11 DEF TellsSign, over, n, r, su, sv, sr

\* S and P/V after a difference of two bytes.
LEMMA DifferenceSign ==
    ASSUME NEW u \in Byte, NEW v \in Byte, NEW k \in {0, 1}, NEW g,
           AfterSub(g, u, v, W16(u - v - k))
    PROVE  TellsSign(g.s, g.p, Sg(u) - Sg(v) - k, W16(u - v - k) % 256)
<1> DEFINE n == W16(u - v - k)
           r == n % 256
<1>1. u \in Int /\ 0 <= u /\ u <= 255 /\ v \in Int /\ 0 <= v /\ v <= 255 /\ k \in Int
  BY Ranges, SMT
<1>2. n = IF u - v - k >= 0 THEN u - v - k ELSE u - v - k + 65536
  <2> DEFINE d == u - v - k
  <2>1. d \in Int /\ -256 <= d /\ d <= 255 BY <1>1, SMT
  <2> HIDE DEF d
  <2>2. W16(d) = IF d >= 0 THEN d ELSE d + 65536 BY <2>1, SMT DEF W16
  <2> QED BY <2>2 DEF d
<1>3. n \in Int /\ r \in Int BY <1>1, <1>2, SMT
<1>4. r = IF u - v - k >= 0 THEN u - v - k ELSE u - v - k + 256
  <2> DEFINE d == u - v - k
  <2>1. d \in Int /\ -256 <= d /\ d <= 255 /\ n = IF d >= 0 THEN d ELSE d + 65536
    BY <1>1, <1>2, SMT
  <2> HIDE DEF d, n
  <2>2. n % 256 = IF d >= 0 THEN d ELSE d + 256 BY <2>1, SMT
  <2> QED BY <2>2 DEF d
<1>5. r \in Byte BY <1>1, <1>4, Ranges, SMT
<1> DEFINE hu == Has(u, 128)
           hv == Has(v, 128)
           hn == Has(n, 128)
           hr == Has(r, 128)
<1>6. hu = (u >= 128) /\ hv = (v >= 128) /\ hn = (r >= 128) /\ hr = (r >= 128)
  BY <1>3, <1>5, SignBit DEF Has
<1>7. g.s = hr /\ g.p = (hu # hv /\ hu # hn) BY DEF AfterSub
<1> DEFINE su == Sg(u)
           sv == Sg(v)
           sr == Sg(r)
<1>8. /\ su = IF u < 128 THEN u ELSE u - 256
      /\ sv = IF v < 128 THEN v ELSE v - 256
      /\ sr = IF r < 128 THEN r ELSE r - 256
  BY DEF Sg
<1> HIDE DEF n, r, hu, hv, hn, hr, su, sv, sr
<1> DEFINE over == hu # hv /\ hu # hn
<1>9. (hr # over) <=> su - sv - k < 0 BY <1>1, <1>3, <1>4, <1>6, <1>8, SMT
<1>10. over <=> su - sv - k # sr BY <1>1, <1>3, <1>4, <1>6, <1>8, SMT
<1>11. (hr # over) = (su - sv - k < 0) /\ over = (su - sv - k # sr) BY <1>9, <1>10
<1> QED BY <1>7, <1>11 DEF TellsSign, over, n, r, su, sv, sr

\* A number as its last byte and the ones below.
Splits(w, i) ==
    /\ Fits(Low(w, i), i) /\ ByteAt(w, i) \in Byte /\ w = Above(Low(w, i), i, ByteAt(w, i))

\* Any number of i + 1 bytes splits.
LEMMA LastSplit ==
    ASSUME NEW w \in Word, NEW i \in {0, 1}, i = 0 => w \in Byte
    PROVE  Splits(w, i)
<1>1. CASE i = 0
  <2>1. Low(w, 0) = 0 /\ ByteAt(w, 0) = w /\ w \in Byte BY <1>1, OneByte, Bytes
  <2>2. w \in Int BY Ranges
  <2> QED BY <1>1, <2>1, <2>2, Powers, SMT DEF Splits, Fits, Above
<1>2. CASE i = 1
  <2>1. /\ Low(w, 1) = w % 256 /\ ByteAt(w, 1) \in Byte /\ ByteAt(w, 0) = w % 256
        /\ w = 256 * ByteAt(w, 1) + ByteAt(w, 0)
    BY Bytes
  <2>2. w % 256 \in 0 .. 255 BY Ranges, SMT
  <2>3. ByteAt(w, 1) \in Int BY <2>1, Ranges
  <2> DEFINE h == ByteAt(w, 1)
             l == w % 256
  <2> HIDE DEF h, l
  <2>4. h \in Int /\ l \in 0 .. 255 /\ w = 256 * h + l BY <2>1, <2>2, <2>3 DEF h, l
  <2>5. w = l + 256 * h BY <2>4, SMT
  <2>6. Fits(l, 1) BY <2>4, Powers, SMT DEF Fits
  <2>7. w = Above(l, 1, h) BY <2>5, Powers DEF Above
  <2> QED BY <1>2, <2>1, <2>6, <2>7 DEF Splits, h, l
<1> QED BY <1>1, <1>2

\* A number with the last byte r is, signed, that byte signed and the ones below.
LEMMA SignedAbove ==
    ASSUME NEW i \in {0, 1}, job.n = i + 1, NEW low, Fits(low, i), NEW r \in Byte
    PROVE  AsSigned(Above(low, i, r)) = Above(low, i, Sg(r))
<1>1. r \in Int /\ 0 <= r /\ r <= 255 BY Ranges
<1>2. Sg(r) = IF r < 128 THEN r ELSE r - 256 BY DEF Sg
<1> DEFINE s == Sg(r)
<1>3. CASE i = 0
  <2>1. 256 ^ job.n \div 2 = 128 /\ 256 ^ job.n = 256
    <3>1. job.n = 1 BY <1>3, SMT
    <3>2. 256 ^ 1 \div 2 = 128 /\ 256 ^ 1 = 256 BY SMT
    <3> QED BY <3>1, <3>2
  <2>2. i = 0 BY <1>3
  <2>3. low = 0 BY <2>2, Powers, SMT DEF Fits
  <2>4. Above(low, i, r) = r BY <1>1, <2>2, <2>3, Powers, SMT DEF Above
  <2>5. AsSigned(r) = IF r < 128 THEN r ELSE r - 256 BY <2>1 DEF AsSigned
  <2>6. s \in Int BY <1>1, <1>2, SMT
  <2> HIDE DEF s
  <2>7. Above(low, i, s) = s BY <2>2, <2>3, <2>6, Powers, SMT DEF Above
  <2> QED BY <1>2, <2>4, <2>5, <2>7 DEF s
<1>4. CASE i = 1
  <2>1. 256 ^ job.n \div 2 = 32768 /\ 256 ^ job.n = 65536
    <3>1. job.n = 2 BY <1>4, SMT
    <3> DEFINE p == 256 ^ job.n
    <3>2. p = 256 ^ 2 BY <3>1
    <3> HIDE DEF p
    <3>3. p = 65536 BY <3>2, Powers, SMT
    <3>4. p \div 2 = 32768 BY <3>3, SMT
    <3> QED BY <3>3, <3>4 DEF p
  <2>2. i = 1 BY <1>4
  <2>3. low \in Int /\ 0 <= low /\ low <= 255 BY <2>2, Powers, SMT DEF Fits
  <2> DEFINE w == low + 256 * r
  <2>4. Above(low, i, r) = w BY <2>2, Powers DEF Above
  <2>5. w \in Int /\ (w < 32768 <=> r < 128) BY <1>1, <2>3, SMT
  <2>6. AsSigned(w) = IF w < 32768 THEN w ELSE w - 65536 BY <2>1 DEF AsSigned
  <2>7. s \in Int /\ s = IF r < 128 THEN r ELSE r - 256 BY <1>1, <1>2, SMT
  <2>8. w = low + 256 * r OBVIOUS
  <2> HIDE DEF s, w
  <2>9. Above(low, i, s) = low + 256 * s BY <2>2, Powers DEF Above
  <2>10. AsSigned(w) = low + 256 * s BY <1>1, <2>3, <2>5, <2>6, <2>7, <2>8, SMT
  <2> QED BY <2>4, <2>9, <2>10 DEF s
<1> QED BY <1>3, <1>4

\* Of two numbers with the same low bytes and of signed last bytes, the sign and
\* the equality are those of the last bytes.
SameBelow(low, i, t, s) ==
    /\ (Above(low, i, t) < 0) = (t < 0)
    /\ (Above(low, i, t) # Above(low, i, s)) = (t # s)

\* That is so for any low bytes.
LEMMA LastDecides ==
    ASSUME NEW i \in {0, 1}, NEW low, Fits(low, i), NEW t \in Int, NEW s \in Int
    PROVE  SameBelow(low, i, t, s)
<1>1. CASE i = 0
  <2>1. low = 0 BY <1>1, Powers, SMT DEF Fits
  <2>2. Above(low, i, t) = t /\ Above(low, i, s) = s BY <1>1, <2>1, Powers, SMT DEF Above
  <2> QED BY <2>2 DEF SameBelow
<1>2. CASE i = 1
  <2>1. low \in Int /\ 0 <= low /\ low <= 255 BY <1>2, Powers, SMT DEF Fits
  <2>2. Above(low, i, t) = low + 256 * t /\ Above(low, i, s) = low + 256 * s
    BY <1>2, Powers DEF Above
  <2>3. (low + 256 * t < 0 <=> t < 0) /\ (low + 256 * t # low + 256 * s <=> t # s)
    BY <2>1, SMT
  <2> QED BY <2>2, <2>3 DEF SameBelow
<1> QED BY <1>1, <1>2

\* The last job, and what its flags tell.
LEMMA LastFacts ==
    ASSUME Shape, LastByte, Summing, ~job.decimal, due = "done"
    PROVE  \E i, k \in {0, 1}, low \in Byte :
             /\ job.n = i + 1 /\ LastOf(job, Incoming, out, f, low, k) /\ Fits(low, i)
             /\ Splits(job.x, i) /\ Splits(job.y, i)
<1>1. PICK k \in {0, 1}, low \in Byte : LastOf(job, Incoming, out, f, low, k) BY DEF LastByte
<1>2. /\ job.n \in {1, 2} /\ job.x \in Word /\ job.y \in Word
      /\ job.n = 1 => job.x \in Byte /\ job.y \in Byte
  BY JobType DEF Shape, Summing
<1>3. PICK i \in {0, 1} : job.n = i + 1 /\ job.n - 1 = i BY <1>2, SMT
<1>4. i = 0 => job.n = 1 BY <1>3, SMT
<1>5. Splits(job.x, i) /\ Splits(job.y, i) BY <1>2, <1>4, LastSplit
<1>6. Fits(low, i) BY <1>1, <1>3 DEF LastOf
<1> QED BY <1>1, <1>3, <1>5, <1>6

\* S and P/V together order the numbers.
LEMMA SignedFromLast == ASSUME Shape, LastByte PROVE SignedOrder
<1> SUFFICES ASSUME Summing, ~job.decimal, due = "done"
             PROVE  LET exact == IF job.kind = "sum"
                                   THEN AsSigned(job.x) + AsSigned(job.y) + Incoming
                                   ELSE AsSigned(job.x) - AsSigned(job.y) - Incoming
                    IN  /\ (f.s # f.p) = (exact < 0)
                        /\ f.p = (exact # AsSigned(out))
  BY DEF SignedOrder
<1>1. PICK i \in {0, 1}, k \in {0, 1}, low \in Byte :
        /\ job.n = i + 1 /\ LastOf(job, Incoming, out, f, low, k) /\ Fits(low, i)
        /\ Splits(job.x, i) /\ Splits(job.y, i)
  BY LastFacts
<1> DEFINE u  == ByteAt(job.x, i)
           v  == ByteAt(job.y, i)
           xl == Low(job.x, i)
           yl == Low(job.y, i)
           inc == Incoming
<1>2. /\ u \in Byte /\ v \in Byte /\ Fits(xl, i) /\ Fits(yl, i)
      /\ job.x = Above(xl, i, u) /\ job.y = Above(yl, i, v)
  BY <1>1 DEF Splits
<1>3. AsSigned(job.x) = Above(xl, i, Sg(u)) /\ AsSigned(job.y) = Above(yl, i, Sg(v))
  BY <1>1, <1>2, SignedAbove
<1>4. Sg(u) \in Int /\ Sg(v) \in Int BY <1>2, Ranges, SMT DEF Sg
<1>5. i = job.n - 1 BY <1>1, SMT
<1>6. inc \in Int BY OneType, SMT DEF Incoming
<1> DEFINE su == Sg(u)
           sv == Sg(v)
<1>7. ASSUME NEW e \in Int, NEW t \in Int, NEW r \in Byte, e = Above(low, i, t),
             out = Above(low, i, r), TellsSign(f.s, f.p, t, r)
      PROVE  (f.s # f.p) = (e < 0) /\ f.p = (e # AsSigned(out))
  <2>1. AsSigned(out) = Above(low, i, Sg(r)) BY <1>1, <1>7, SignedAbove
  <2>2. Sg(r) \in Int BY Ranges, SMT DEF Sg
  <2>3. SameBelow(low, i, t, Sg(r)) BY <1>1, <2>2, LastDecides
  <2> QED BY <1>7, <2>1, <2>3 DEF SameBelow, TellsSign
<1>8. CASE job.kind = "sum"
  <2> DEFINE t == su + sv + k
             e == AsSigned(job.x) + AsSigned(job.y) + inc
             r == (u + v + k) % 256
  <2>1. LongSum(low, i, k, job.x, job.y, inc) /\ out = Above(low, i, r)
        /\ AfterAdd(f, u, v, u + v + k)
    BY <1>1, <1>5, <1>8, Zenon DEF LastOf
  <2>2. TellsSign(f.s, f.p, t, r) BY <1>2, <2>1, SumSign
  <2>3. r \in Byte
    <3>1. u + v + k \in Int BY <1>2, Ranges, SMT
    <3> DEFINE m == u + v + k
    <3> HIDE DEF m
    <3>2. m % 256 \in Int /\ 0 <= m % 256 /\ m % 256 <= 255 BY <3>1, SMT DEF m
    <3> QED BY <3>2, Ranges DEF m
  <2>4. low + 256 ^ i * k = xl + yl + inc BY <2>1 DEF LongSum
  <2>5. e = Above(xl, i, su) + Above(yl, i, sv) + inc BY <1>3
  <2>6. xl \in Int /\ yl \in Int /\ low \in Int
    <3>1. CASE i = 0 BY <1>1, <1>2, <3>1, Powers, SMT DEF Fits
    <3>2. CASE i = 1 BY <1>1, <1>2, <3>2, Powers, SMT DEF Fits
    <3> QED BY <3>1, <3>2
  <2>7. t = su + sv + k OBVIOUS
  <2> HIDE DEF u, v, xl, yl, su, sv, inc, e, t, r
  <2>8. su \in Int /\ sv \in Int BY <1>4 DEF su, sv
  <2>9. e = Above(low, i, t) /\ e \in Int /\ t \in Int
    <3>1. CASE i = 0
      <4>1. 256 ^ i = 1 BY <3>1, Powers
      <4> QED BY <1>6, <2>4, <2>5, <2>6, <2>7, <2>8, <4>1, SMT DEF Above
    <3>2. CASE i = 1
      <4>1. 256 ^ i = 256 BY <3>2, Powers
      <4> QED BY <1>6, <2>4, <2>5, <2>6, <2>7, <2>8, <4>1, SMT DEF Above
    <3> QED BY <3>1, <3>2
  <2>10. (f.s # f.p) = (e < 0) /\ f.p = (e # AsSigned(out)) BY <1>7, <2>1, <2>2, <2>3, <2>9
  <2> QED BY <1>8, <2>10 DEF e, inc
<1>9. CASE job.kind = "difference"
  <2> DEFINE t == su - sv - k
             e == AsSigned(job.x) - AsSigned(job.y) - inc
             r == W16(u - v - k) % 256
  <2>1. LongDiff(low, i, k, job.x, job.y, inc) /\ out = Above(low, i, r)
        /\ AfterSub(f, u, v, W16(u - v - k))
    BY <1>1, <1>5, <1>9, Zenon DEF LastOf
  <2>2. TellsSign(f.s, f.p, t, r) BY <1>2, <2>1, DifferenceSign
  <2>3. r \in Byte
    <3> HIDE DEF u, v
    <3>1. u - v - k \in DiffRange BY <1>2, SMT DEF Byte, DiffRange
    <3> QED BY <3>1, CarryBit DEF DiffBorrows
  <2>4. low - 256 ^ i * k = xl - yl - inc BY <2>1 DEF LongDiff
  <2>5. e = Above(xl, i, su) - Above(yl, i, sv) - inc BY <1>3
  <2>6. xl \in Int /\ yl \in Int /\ low \in Int
    <3>1. CASE i = 0 BY <1>1, <1>2, <3>1, Powers, SMT DEF Fits
    <3>2. CASE i = 1 BY <1>1, <1>2, <3>2, Powers, SMT DEF Fits
    <3> QED BY <3>1, <3>2
  <2>7. t = su - sv - k OBVIOUS
  <2> HIDE DEF u, v, xl, yl, su, sv, inc, e, t, r
  <2>8. su \in Int /\ sv \in Int BY <1>4 DEF su, sv
  <2>9. e = Above(low, i, t) /\ e \in Int /\ t \in Int
    <3>1. CASE i = 0
      <4>1. 256 ^ i = 1 BY <3>1, Powers
      <4> QED BY <1>6, <2>4, <2>5, <2>6, <2>7, <2>8, <4>1, SMT DEF Above
    <3>2. CASE i = 1
      <4>1. 256 ^ i = 256 BY <3>2, Powers
      <4> QED BY <1>6, <2>4, <2>5, <2>6, <2>7, <2>8, <4>1, SMT DEF Above
    <3> QED BY <3>1, <3>2
  <2>10. (f.s # f.p) = (e < 0) /\ f.p = (e # AsSigned(out)) BY <1>7, <2>1, <2>2, <2>3, <2>9
  <2>11. job.kind # "sum" BY <1>9
  <2> QED BY <2>10, <2>11 DEF e, inc
<1> QED BY <1>8, <1>9 DEF Summing

\* After the last byte of a sum or difference S and P/V together are the sign of
\* the exact signed result and P/V alone says that it does not fit.
THEOREM SignedOrderHolds == Spec => []SignedOrder
<1>1. Shape /\ LastByte => SignedOrder BY SignedFromLast
<1> QED BY <1>1, ShapeHolds, LastHolds, PTL

-----------------------------------------------------------------------------
(* Pairs                                                                     *)

\* The bits of the words x, y and s that the flags of a pair come from are bits
\* of the bytes u and v and of the sum h of bytes.
SameBits(x, y, s, u, v, h) ==
    /\ Odd(x, y, s, 4096) = Odd(u, v, h, 16) /\ Has(s, 65536) = Has(h, 256)
    /\ Has(s, 8192) = Has(h % 256, 32) /\ Has(s, 2048) = Has(h % 256, 8)
    /\ Has(x, 32768) = Has(u, 128) /\ Has(y, 32768) = Has(v, 128)
    /\ Has(s, 32768) = Has(h, 128)

\* Above the low byte w is h.
HighBits(w, h) ==
    /\ Has(w, 2048) = Has(h, 8) /\ Has(w, 4096) = Has(h, 16) /\ Has(w, 8192) = Has(h, 32)
    /\ Has(w, 32768) = Has(h, 128) /\ Has(w, 65536) = Has(h, 256)

\* A bit of a number above a byte.
LEMMA HasAbove == ASSUME NEW low \in Byte, NEW h \in Int PROVE HighBits(low + 256 * h, h)
<1>1. low \in Int /\ 0 <= low /\ low <= 255 BY Ranges
<1> DEFINE w == low + 256 * h
<1>2. w \div 2048 = h \div 8 BY <1>1, SMT
<1>3. w \div 4096 = h \div 16 BY <1>1, SMT
<1>4. w \div 8192 = h \div 32 BY <1>1, SMT
<1>5. w \div 32768 = h \div 128 BY <1>1, SMT
<1>6. w \div 65536 = h \div 256 BY <1>1, SMT
<1> HIDE DEF w
<1>7. Has(w, 2048) = Has(h, 8) BY <1>2 DEF Has
<1>8. Has(w, 4096) = Has(h, 16) BY <1>3 DEF Has
<1>9. Has(w, 8192) = Has(h, 32) BY <1>4 DEF Has
<1>10. Has(w, 32768) = Has(h, 128) BY <1>5 DEF Has
<1>11. Has(w, 65536) = Has(h, 256) BY <1>6 DEF Has
<1> QED BY <1>7, <1>8, <1>9, <1>10, <1>11 DEF w, HighBits

\* The bits of a byte of a sum.
LEMMA HasByte ==
    ASSUME NEW h \in Int
    PROVE  Has(h % 256, 8) = Has(h, 8) /\ Has(h % 256, 32) = Has(h, 32)
<1>1. ((h % 256) \div 8) % 2 = (h \div 8) % 2 BY SMT
<1>2. ((h % 256) \div 32) % 2 = (h \div 32) % 2 BY SMT
<1>3. Has(h % 256, 8) = Has(h, 8) BY <1>1 DEF Has
<1>4. Has(h % 256, 32) = Has(h, 32) BY <1>2 DEF Has
<1> QED BY <1>3, <1>4

\* The word x of the bytes low and high.
Joined(x, low, high) == x = low + 256 * high

\* So the flags of a pair see what those of the high bytes see.
LEMMA PairBits ==
    ASSUME NEW u \in Byte, NEW v \in Byte, NEW xl \in Byte, NEW yl \in Byte, NEW low \in Byte,
           NEW h \in Int, NEW x, NEW y, NEW s,
           Joined(x, xl, u), Joined(y, yl, v), Joined(s, low, h)
    PROVE  SameBits(x, y, s, u, v, h)
<1>1. u \in Int /\ v \in Int BY Ranges
<1>2. HighBits(x, u) BY <1>1, HasAbove DEF Joined
<1>3. HighBits(y, v) BY <1>1, HasAbove DEF Joined
<1>4. HighBits(s, h) BY HasAbove DEF Joined
<1>5. Has(h % 256, 8) = Has(h, 8) /\ Has(h % 256, 32) = Has(h, 32) BY HasByte
<1>6. Odd(x, y, s, 4096) = Odd(u, v, h, 16) BY <1>2, <1>3, <1>4 DEF Odd, HighBits
<1> QED BY <1>2, <1>3, <1>4, <1>5, <1>6 DEF SameBits, HighBits

\* What PairFlags writes over the bits g.
OfPair(o, u, v, sum, g) ==
    /\ DOMAIN o = Names
    /\ o.h = Odd(u, v, sum, 4096) /\ o.c = Has(sum, 65536)
    /\ o.y = Has(sum, 8192) /\ o.x = Has(sum, 2048)
    /\ o.s = g.s /\ o.z = g.z /\ o.p = g.p /\ o.n = g.n

\* It writes four bits.
LEMMA PairFields ==
    ASSUME NEW u, NEW v, NEW sum, NEW g, DOMAIN g = Names
    PROVE  OfPair(PairFlags(u, v, sum, g), u, v, sum, g) /\ IsFlags(PairFlags(u, v, sum, g))
<1> DEFINE o == PairFlags(u, v, sum, g)
           hf == Odd(u, v, sum, 4096)
           cf == Has(sum, 65536)
           yf == Has(sum, 8192)
           xf == Has(sum, 2048)
           g1 == [g EXCEPT !.h = hf, !.c = cf, !.y = yf]
<1>1. o = [g EXCEPT !.h = hf, !.c = cf, !.y = yf, !.x = xf] BY DEF PairFlags
<1>2. o = [g1 EXCEPT !.x = xf] BY <1>1, SMT
<1> HIDE DEF o, hf, cf, yf, xf
<1>3. DOMAIN g1 = Names BY SMT
<1>4. IsFlags(o)
  <2> HIDE DEF g1
  <2>1. IsFlags([g1 EXCEPT !.x = xf]) BY <1>3, Written
  <2> QED BY <1>2, <2>1
<1>5. DOMAIN o = Names BY <1>1, SMT
<1>6. o.h = hf BY <1>1, SMT DEF Names
<1>7. o.c = cf BY <1>1, SMT DEF Names
<1>8. o.y = yf /\ o.x = xf BY <1>1, SMT DEF Names
<1>9. o.s = g.s /\ o.z = g.z BY <1>1, SMT DEF Names
<1>10. o.p = g.p /\ o.n = g.n BY <1>1, SMT DEF Names
<1> QED BY <1>4, <1>5, <1>6, <1>7, <1>8, <1>9, <1>10 DEF OfPair, o, hf, cf, yf, xf

\* F after ADC HL,rr (minus FALSE) and SBC HL,rr of sum; w is the result.
AfterPair(g, u, v, sum, w, minus, over) ==
    /\ IsFlags(g) /\ g.h = Odd(u, v, sum, 4096) /\ g.c = Has(sum, 65536)
    /\ g.y = Has(sum, 8192) /\ g.x = Has(sum, 2048)
    /\ g.s = Has(w, 32768) /\ g.z = (w = 0) /\ g.n = minus /\ g.p = over

\* What ADC and SBC of a pair leave.
LEMMA LongPairFields ==
    ASSUME NEW u, NEW v, NEW sum, NEW w, NEW over
    PROVE  LET o == PairFlags(u, v, sum, Zero16(w))
           IN  /\ AfterPair([o EXCEPT !.p = over], u, v, sum, w, FALSE, over)
               /\ AfterPair([o EXCEPT !.n = TRUE, !.p = over], u, v, sum, w, TRUE, over)
<1> DEFINE g == Zero16(w)
           o == PairFlags(u, v, sum, g)
           zf == (w = 0)
           sf == Has(w, 32768)
<1>1. g = [NoFlags EXCEPT !.s = sf, !.z = zf] BY DEF Zero16
<1> HIDE DEF g, sf, zf
<1>2. DOMAIN g = Names BY <1>1, SMT DEF Names, NoFlags
<1>3. g.s = sf /\ g.z = zf BY <1>1, SMT DEF NoFlags
<1>4. g.n = FALSE BY <1>1, SMT DEF NoFlags
<1>5. OfPair(o, u, v, sum, g) BY <1>2, PairFields
<1> HIDE DEF o
<1>6. ASSUME NEW o1, NEW minus, DOMAIN o1 = Names, o1.n = minus, o1.h = o.h, o1.c = o.c,
             o1.y = o.y, o1.x = o.x, o1.s = o.s, o1.z = o.z
      PROVE  AfterPair([o1 EXCEPT !.p = over], u, v, sum, w, minus, over)
  <2> DEFINE r == [o1 EXCEPT !.p = over]
  <2>1. IsFlags(r) BY <1>6, Written
  <2>2. r = [o1 EXCEPT !.p = over] OBVIOUS
  <2> HIDE DEF r
  <2>3. r.h = o.h /\ r.c = o.c BY <1>6, <2>2, SMT DEF Names
  <2>4. r.y = o.y /\ r.x = o.x BY <1>6, <2>2, SMT DEF Names
  <2>5. r.s = o.s /\ r.z = o.z BY <1>6, <2>2, SMT DEF Names
  <2>6. r.n = minus /\ r.p = over BY <1>6, <2>2, SMT DEF Names
  <2>7. AfterPair(r, u, v, sum, w, minus, over)
    BY <1>3, <1>5, <2>1, <2>3, <2>4, <2>5, <2>6 DEF OfPair, AfterPair, sf, zf
  <2> QED BY <2>7 DEF r
<1>7. AfterPair([o EXCEPT !.p = over], u, v, sum, w, FALSE, over)
  <2>1. DOMAIN o = Names /\ o.n = FALSE BY <1>4, <1>5 DEF OfPair
  <2> QED BY <1>6, <2>1
<1>8. AfterPair([o EXCEPT !.n = TRUE, !.p = over], u, v, sum, w, TRUE, over)
  <2> DEFINE o1 == [o EXCEPT !.n = TRUE]
  <2>1. DOMAIN o = Names BY <1>5 DEF OfPair
  <2>2. DOMAIN o1 = Names BY <2>1, SMT
  <2>3. o1.n = TRUE BY <2>1, SMT DEF Names
  <2>4. o1.h = o.h /\ o1.c = o.c /\ o1.y = o.y /\ o1.x = o.x BY <2>1, SMT DEF Names
  <2>5. o1.s = o.s /\ o1.z = o.z BY <2>1, SMT DEF Names
  <2>6. [o EXCEPT !.n = TRUE, !.p = over] = [o1 EXCEPT !.p = over] BY SMT
  <2> HIDE DEF o1
  <2>7. AfterPair([o1 EXCEPT !.p = over], u, v, sum, w, TRUE, over)
    BY <1>6, <2>2, <2>3, <2>4, <2>5
  <2> QED BY <2>6, <2>7
<1> QED BY <1>7, <1>8 DEF o, g

\* The bits of the difference n of bytes, borrow and all, are in its low nine.
LEMMA BorrowBits ==
    ASSUME NEW n \in -256 .. 255, NEW u, NEW v, NEW g, AfterSub(g, u, v, W16(n))
    PROVE  AfterSub(g, u, v, n % 512) /\ W16(n) % 256 = (n % 512) % 256 /\ n % 512 \in 0 .. 511
<1> DEFINE t == W16(n)
           h == n % 512
<1>1. n \in Int /\ -256 <= n /\ n <= 255 BY SMT
<1>2. t = IF n >= 0 THEN n ELSE n + 65536 BY <1>1, SMT DEF W16
<1>3. h = IF n >= 0 THEN n ELSE n + 512 BY <1>1, SMT
<1> HIDE DEF t, h
<1>4. /\ t % 256 = h % 256 /\ (t \div 16) % 2 = (h \div 16) % 2
      /\ (t \div 128) % 2 = (h \div 128) % 2 /\ (t \div 256) % 2 = (h \div 256) % 2
  <2>1. CASE n >= 0 BY <1>2, <1>3, <2>1
  <2>2. CASE n < 0
    <3>1. t = n + 65536 /\ h = n + 512 BY <1>1, <1>2, <1>3, <2>2, SMT
    <3>2. (n + 65536) % 256 = (n + 512) % 256 BY <1>1, SMT
    <3>3. ((n + 65536) \div 16) % 2 = ((n + 512) \div 16) % 2 BY <1>1, SMT
    <3>4. ((n + 65536) \div 128) % 2 = ((n + 512) \div 128) % 2 BY <1>1, SMT
    <3>5. ((n + 65536) \div 256) % 2 = ((n + 512) \div 256) % 2 BY <1>1, SMT
    <3> QED BY <3>1, <3>2, <3>3, <3>4, <3>5
  <2> QED BY <1>1, <2>1, <2>2, SMT
<1>5. h \in 0 .. 511 BY <1>1, <1>3, SMT
<1>6. Has(t, 16) = Has(h, 16) BY <1>4 DEF Has
<1>7. Has(t, 128) = Has(h, 128) BY <1>4 DEF Has
<1>8. Has(t, 256) = Has(h, 256) BY <1>4 DEF Has
<1>9. Odd(u, v, t, 16) = Odd(u, v, h, 16) BY <1>6 DEF Odd
<1>10. AfterSub(g, u, v, t) BY DEF t
<1> DEFINE rt == t % 256
           rh == h % 256
<1>11. IsFlags(g) /\ g.c = Has(h, 256) /\ g.h = Odd(u, v, h, 16) /\ g.n = TRUE
  BY <1>8, <1>9, <1>10 DEF AfterSub
<1>12. g.p = (Has(u, 128) # Has(v, 128) /\ Has(u, 128) # Has(h, 128))
  BY <1>7, <1>10 DEF AfterSub
<1>13. g.s = Has(rh, 128) /\ g.z = (rh = 0) /\ g.y = Has(rh, 32) /\ g.x = Has(rh, 8)
  <2>1. g.s = Has(rt, 128) /\ g.z = (rt = 0) /\ g.y = Has(rt, 32) /\ g.x = Has(rt, 8)
    BY <1>10 DEF AfterSub
  <2>2. rt = rh BY <1>4
  <2> HIDE DEF rt, rh
  <2> QED BY <2>1, <2>2
<1>14. AfterSub(g, u, v, h) BY <1>11, <1>12, <1>13 DEF AfterSub
<1> QED BY <1>4, <1>5, <1>14 DEF t, h

\* w is sixteen bits of s and its high byte eight bits of h.
WordOf(s, w, h) == W16(s) = w /\ Has(w, 32768) = Has(h % 256, 128)

\* Sixteen bits of a sum are a byte and eight bits of the sum of bytes above.
LEMMA PairResult ==
    ASSUME NEW low \in Byte, NEW h \in 0 .. 511
    PROVE  WordOf(low + 256 * h, low + 256 * (h % 256), h)
<1>1. low \in Int /\ 0 <= low /\ low <= 255 /\ h \in Int /\ 0 <= h /\ h <= 511
  BY Ranges, SMT
<1> DEFINE r == h % 256
<1>2. r = IF h >= 256 THEN h - 256 ELSE h BY <1>1, SMT
<1>3. HighBits(low + 256 * r, r)
  <2>1. r \in Int BY <1>1, SMT
  <2> HIDE DEF r
  <2> QED BY <2>1, HasAbove
<1> HIDE DEF r
<1>4. W16(low + 256 * h) = low + 256 * r
  <2> DEFINE w == low + 256 * h
             e == low + 256 * r
  <2>1. w \in Int /\ 0 <= w /\ w <= 131071 BY <1>1, SMT
  <2>2. e = IF w >= 65536 THEN w - 65536 ELSE w BY <1>1, <1>2, SMT
  <2> HIDE DEF w, e
  <2>3. w % 65536 = e BY <2>1, <2>2, SMT
  <2> QED BY <2>3 DEF W16, w, e
<1> QED BY <1>3, <1>4 DEF HighBits, WordOf, r

\* To write Z leaves the rest.
LEMMA ZeroWritten ==
    ASSUME NEW g, NEW b, IsFlags(g)
    PROVE  LET e == [g EXCEPT !.z = b]
           IN  /\ IsFlags(e) /\ e.z = b
               /\ e.s = g.s /\ e.y = g.y /\ e.h = g.h /\ e.x = g.x /\ e.p = g.p /\ e.n = g.n
               /\ e.c = g.c
<1> DEFINE e == [g EXCEPT !.z = b]
<1>1. DOMAIN g = Names BY DEF IsFlags
<1>2. IsFlags(e) BY <1>1, Written
<1>3. e.s = g.s /\ e.z = b BY <1>1, SMT DEF Names
<1>4. e.y = g.y /\ e.h = g.h BY <1>1, SMT DEF Names
<1>5. e.x = g.x /\ e.p = g.p BY <1>1, SMT DEF Names
<1>6. e.n = g.n /\ e.c = g.c BY <1>1, SMT DEF Names
<1> QED BY <1>2, <1>3, <1>4, <1>5, <1>6

\* What F tells of the sum h of bytes, but for Z.
AfterBytes(g, u, v, h, minus, over) ==
    /\ IsFlags(g) /\ g.c = Has(h, 256) /\ g.h = Odd(u, v, h, 16) /\ g.s = Has(h % 256, 128)
    /\ g.y = Has(h % 256, 32) /\ g.x = Has(h % 256, 8) /\ g.n = minus /\ g.p = over

\* q is g, but with Z of w.
ZeroOf(q, g, w) == q = [g EXCEPT !.z = (w = 0)]

\* F after the bytes, with Z of the pair, is F of the pair.
LEMMA SamePair ==
    ASSUME NEW g, NEW q, NEW x, NEW y, NEW s, NEW u, NEW v, NEW h, NEW w, NEW minus, NEW over,
           SameBits(x, y, s, u, v, h), WordOf(s, w, h), AfterBytes(g, u, v, h, minus, over),
           AfterPair(q, x, y, s, w, minus, over)
    PROVE  ZeroOf(q, g, w)
<1> DEFINE zf == (w = 0)
           e == [g EXCEPT !.z = zf]
<1> HIDE DEF zf
<1>0. IsFlags(g) BY DEF AfterBytes
<1>1. /\ IsFlags(e) /\ e.z = zf
      /\ e.s = g.s /\ e.y = g.y /\ e.h = g.h /\ e.x = g.x /\ e.p = g.p /\ e.n = g.n
      /\ e.c = g.c
  BY ONLY <1>0, ZeroWritten
<1>2. e = [g EXCEPT !.z = zf] OBVIOUS
<1> HIDE DEF e
<1>3. IsFlags(q) /\ q.s = g.s /\ q.z = zf /\ q.y = g.y /\ q.h = g.h
  BY DEF AfterPair, AfterBytes, SameBits, WordOf, zf
<1>4. q.x = g.x /\ q.p = g.p /\ q.n = g.n /\ q.c = g.c
  BY DEF AfterPair, AfterBytes, SameBits
<1>5. q = e BY <1>1, <1>3, <1>4, SameFlags
<1> QED BY <1>2, <1>5 DEF zf, ZeroOf

\* The bytes of the words of a finished pair.
LEMMA PairFacts ==
    ASSUME Shape, LastByte, Summing, ~job.decimal, due = "done", job.n = 2
    PROVE  \E k \in {0, 1}, low, u, v, xl, yl \in Byte :
             /\ LastOf(job, Incoming, out, f, low, k)
             /\ u = ByteAt(job.x, 1) /\ v = ByteAt(job.y, 1)
             /\ xl = Low(job.x, 1) /\ yl = Low(job.y, 1)
             /\ job.x = xl + 256 * u /\ job.y = yl + 256 * v
<1>1. PICK i \in {0, 1}, k \in {0, 1}, low \in Byte :
        /\ job.n = i + 1 /\ LastOf(job, Incoming, out, f, low, k) /\ Fits(low, i)
        /\ Splits(job.x, i) /\ Splits(job.y, i)
  BY LastFacts
<1>2. i = 1 BY <1>1, SMT
<1>3. ASSUME NEW w, Splits(w, 1)
      PROVE  Low(w, 1) \in Byte /\ ByteAt(w, 1) \in Byte /\ w = Low(w, 1) + 256 * ByteAt(w, 1)
  <2>1. Fits(Low(w, 1), 1) /\ ByteAt(w, 1) \in Byte /\ w = Above(Low(w, 1), 1, ByteAt(w, 1))
    BY <1>3 DEF Splits
  <2> DEFINE l == Low(w, 1)
             h == ByteAt(w, 1)
  <2> HIDE DEF l, h
  <2>2. Fits(l, 1) /\ h \in Byte /\ w = Above(l, 1, h) BY <2>1 DEF l, h
  <2>3. l \in Int /\ 0 <= l /\ l <= 255 BY <2>2, Powers, SMT DEF Fits
  <2>4. w = l + 256 * h BY <2>2, Powers DEF Above
  <2> QED BY <2>2, <2>3, <2>4, Ranges DEF l, h
<1> QED BY <1>1, <1>2, <1>3

\* The low bytes xl and yl and inc give low and the carry k into the high bytes u
\* and v, and number and the flags g are what these give.
EndOfSum(number, g, u, v, xl, yl, inc, low, k) ==
    /\ low + 256 * k = xl + yl + inc
    /\ number = low + 256 * ((u + v + k) % 256) /\ AfterAdd(g, u, v, u + v + k)

EndOfDifference(number, g, u, v, xl, yl, inc, low, k) ==
    /\ low - 256 * k = xl - yl - inc
    /\ number = low + 256 * (W16(u - v - k) % 256) /\ AfterSub(g, u, v, W16(u - v - k))

\* What the last byte of a sum of pairs is.
LEMMA LastOfSum ==
    ASSUME NEW inc, NEW low \in Byte, NEW k \in {0, 1}, LastOf(job, inc, out, f, low, k),
           job.kind = "sum", job.n = 2
    PROVE  EndOfSum(out, f, ByteAt(job.x, 1), ByteAt(job.y, 1), Low(job.x, 1), Low(job.y, 1),
                    inc, low, k)
<1> DEFINE u == ByteAt(job.x, 1)
           v == ByteAt(job.y, 1)
           r == (u + v + k) % 256
<1>1. job.n - 1 = 1 BY SMT
<1>2. LongSum(low, 1, k, job.x, job.y, inc) /\ out = Above(low, 1, r) /\ AfterAdd(f, u, v, u + v + k)
  BY <1>1, Zenon DEF LastOf
<1> HIDE DEF u, v, r
<1>3. out = low + 256 * r BY <1>2, Powers DEF Above
<1>4. low + 256 * k = Low(job.x, 1) + Low(job.y, 1) + inc BY <1>2, Powers DEF LongSum
<1> QED BY <1>2, <1>3, <1>4 DEF u, v, r, EndOfSum

\* And of a difference.
LEMMA LastOfDifference ==
    ASSUME NEW inc, NEW low \in Byte, NEW k \in {0, 1}, LastOf(job, inc, out, f, low, k),
           job.kind = "difference", job.n = 2
    PROVE  EndOfDifference(out, f, ByteAt(job.x, 1), ByteAt(job.y, 1), Low(job.x, 1),
                           Low(job.y, 1), inc, low, k)
<1> DEFINE u == ByteAt(job.x, 1)
           v == ByteAt(job.y, 1)
           r == W16(u - v - k) % 256
<1>1. job.n - 1 = 1 BY SMT
<1>2. LongDiff(low, 1, k, job.x, job.y, inc) /\ out = Above(low, 1, r)
      /\ AfterSub(f, u, v, W16(u - v - k))
  BY <1>1, Zenon DEF LastOf
<1> HIDE DEF u, v, r
<1>3. out = low + 256 * r BY <1>2, Powers DEF Above
<1>4. low - 256 * k = Low(job.x, 1) - Low(job.y, 1) - inc BY <1>2, Powers DEF LongDiff
<1> QED BY <1>2, <1>3, <1>4 DEF u, v, r, EndOfDifference

\* The carry ADC and SBC take in.
CarryOf(b) == CarryIn(b, TRUE)

\* ADC and SBC HL,rr leave the result, and F but for Z, which is of all of it.
LongOf(o, g, w) == o.r = w /\ ZeroOf(o.f, g, w)

\* ADC HL,rr behind the bytes.
LEMMA AdcMatches ==
    ASSUME NEW u \in Byte, NEW v \in Byte, NEW xl \in Byte, NEW yl \in Byte, NEW low \in Byte,
           NEW k \in {0, 1}, NEW b, NEW g, NEW number,
           EndOfSum(number, g, u, v, xl, yl, CarryOf(b), low, k)
    PROVE  LongOf(AluAdc16(xl + 256 * u, yl + 256 * v, b), g, number)
<1> DEFINE x == xl + 256 * u
           y == yl + 256 * v
           h == u + v + k
           i == CarryOf(b)
           s == x + y + i
           w == low + 256 * (h % 256)
           over == Has(x, 32768) = Has(y, 32768) /\ Has(x, 32768) # Has(s, 32768)
           o == AluAdc16(x, y, b)
<1>1. o.r = W16(s) /\ o.f = [PairFlags(x, y, s, Zero16(W16(s))) EXCEPT !.p = over]
  BY SMT DEF AluAdc16, CarryOf
<1>2. h \in 0 .. 511 BY SMT DEF Byte
<1>3. s = low + 256 * h
  <2>1. i \in {0, 1} BY CarryInType DEF CarryOf
  <2>2. low + 256 * k = xl + yl + i BY DEF EndOfSum
  <2> HIDE DEF i
  <2> QED BY <2>1, <2>2, SMT DEF Byte
<1>4. w = low + 256 * (h % 256) /\ x = xl + 256 * u /\ y = yl + 256 * v OBVIOUS
<1>5. AfterAdd(g, u, v, h) /\ number = w /\ low + 256 * k = xl + yl + i BY DEF EndOfSum
<1> HIDE DEF x, y, h, i, s, w, o
<1>6. WordOf(s, w, h) BY <1>2, <1>3, <1>4, PairResult
<1>7. h \in Int BY <1>2, SMT
<1>8. SameBits(x, y, s, u, v, h)
  <2>1. Joined(x, xl, u) /\ Joined(y, yl, v) /\ Joined(s, low, h) BY <1>3, <1>4 DEF Joined
  <2> QED BY <1>7, <2>1, PairBits
<1>9. g.p = over BY <1>5, <1>8 DEF AfterAdd, SameBits
<1>10. AfterPair(o.f, x, y, s, w, FALSE, over)
  <2> HIDE DEF over
  <2>1. AfterPair([PairFlags(x, y, s, Zero16(w)) EXCEPT !.p = over], x, y, s, w, FALSE, over)
    BY LongPairFields
  <2>2. W16(s) = w BY <1>6 DEF WordOf
  <2> QED BY <1>1, <2>1, <2>2
<1>11. ZeroOf(o.f, g, w)
  <2>1. AfterBytes(g, u, v, h, FALSE, over) BY <1>5, <1>9 DEF AfterAdd, AfterBytes
  <2> DEFINE minus == FALSE
  <2> HIDE DEF over
  <2>2. AfterPair(o.f, x, y, s, w, minus, over) /\ AfterBytes(g, u, v, h, minus, over)
    BY <1>10, <2>1
  <2> HIDE DEF minus
  <2> QED BY <1>6, <1>8, <2>2, SamePair
<1>12. o.r = w BY <1>1, <1>6 DEF WordOf
<1>13. LongOf(o, g, number) BY <1>5, <1>11, <1>12 DEF LongOf
<1> QED BY <1>13 DEF o, x, y

\* SBC HL,rr behind the bytes.
LEMMA SbcMatches ==
    ASSUME NEW u \in Byte, NEW v \in Byte, NEW xl \in Byte, NEW yl \in Byte, NEW low \in Byte,
           NEW k \in {0, 1}, NEW b, NEW g, NEW number,
           EndOfDifference(number, g, u, v, xl, yl, CarryOf(b), low, k)
    PROVE  LongOf(AluSbc16(xl + 256 * u, yl + 256 * v, b), g, number)
<1> DEFINE x == xl + 256 * u
           y == yl + 256 * v
           n == u - v - k
           h == n % 512
           i == CarryOf(b)
           s == (x - y - i) % 131072
           w == low + 256 * (h % 256)
           over == Has(x, 32768) # Has(y, 32768) /\ Has(x, 32768) # Has(s, 32768)
           o == AluSbc16(x, y, b)
<1>1. o.r = W16(s) /\ o.f = [PairFlags(x, y, s, Zero16(W16(s))) EXCEPT !.n = TRUE, !.p = over]
  BY SMT DEF AluSbc16, CarryOf
<1>2. n \in -256 .. 255 BY SMT DEF Byte
<1>3. x - y - i = low + 256 * n
  <2>1. i \in {0, 1} BY CarryInType DEF CarryOf
  <2>2. low - 256 * k = xl - yl - i BY DEF EndOfDifference
  <2> HIDE DEF i
  <2> QED BY <2>1, <2>2, SMT DEF Byte
<1>4. AfterSub(g, u, v, W16(n)) /\ number = low + 256 * (W16(n) % 256) BY DEF EndOfDifference
<1>5. low \in Int /\ 0 <= low /\ low <= 255 BY Ranges
<1> DEFINE d == x - y - i
<1>6. d = low + 256 * n BY <1>3
<1>7. s = d % 131072 OBVIOUS
<1>8. x = xl + 256 * u /\ y = yl + 256 * v OBVIOUS
<1> HIDE DEF x, y, i, s, o, n, d
<1>9. AfterSub(g, u, v, h) /\ W16(n) % 256 = h % 256 /\ h \in 0 .. 511
  BY <1>2, <1>4, BorrowBits
<1>10. h = IF n >= 0 THEN n ELSE n + 512 BY <1>2, SMT
<1>11. w = low + 256 * (h % 256) OBVIOUS
<1> HIDE DEF h, w
<1>12. s = low + 256 * h
  <2>1. d \in Int /\ -65536 <= d /\ d <= 65535 /\ (d >= 0 <=> n >= 0) BY <1>2, <1>5, <1>6, SMT
  <2>2. s = IF d >= 0 THEN d ELSE d + 131072 BY <1>7, <2>1, SMT
  <2> QED BY <1>2, <1>5, <1>6, <1>10, <2>1, <2>2, SMT
<1>13. WordOf(s, w, h) BY <1>9, <1>11, <1>12, PairResult
<1>14. h \in Int BY <1>9, SMT
<1>15. SameBits(x, y, s, u, v, h)
  <2>1. Joined(x, xl, u) /\ Joined(y, yl, v) /\ Joined(s, low, h) BY <1>8, <1>12 DEF Joined
  <2> QED BY <1>14, <2>1, PairBits
<1>16. g.p = over BY <1>9, <1>15 DEF AfterSub, SameBits
<1>17. AfterPair(o.f, x, y, s, w, TRUE, over)
  <2> HIDE DEF over
  <2>1. AfterPair([PairFlags(x, y, s, Zero16(w)) EXCEPT !.n = TRUE, !.p = over], x, y, s, w, TRUE, over)
    BY LongPairFields
  <2>2. W16(s) = w BY <1>13 DEF WordOf
  <2> QED BY <1>1, <2>1, <2>2
<1>18. ZeroOf(o.f, g, w)
  <2>1. AfterBytes(g, u, v, h, TRUE, over) BY <1>9, <1>16 DEF AfterSub, AfterBytes
  <2> DEFINE minus == TRUE
  <2> HIDE DEF over
  <2>2. AfterPair(o.f, x, y, s, w, minus, over) /\ AfterBytes(g, u, v, h, minus, over)
    BY <1>17, <2>1
  <2> HIDE DEF minus
  <2> QED BY <1>13, <1>15, <2>2, SamePair
<1>19. w = number BY <1>4, <1>9, <1>11
<1>20. o.r = w BY <1>1, <1>13 DEF WordOf
<1>21. LongOf(o, g, number) BY <1>18, <1>19, <1>20 DEF LongOf
<1> QED BY <1>21 DEF o, x, y

\* ADD HL,rr leaves the result, and F but for S, Z and P/V, which it keeps.
AddOf(o, g, b, w) == o.r = w /\ o.f = [g EXCEPT !.s = b.s, !.z = b.z, !.p = b.p]

\* ADD HL,rr behind the bytes.
LEMMA AddMatches ==
    ASSUME NEW u \in Byte, NEW v \in Byte, NEW xl \in Byte, NEW yl \in Byte, NEW low \in Byte,
           NEW k \in {0, 1}, NEW b, DOMAIN b = Names, NEW g, NEW number,
           EndOfSum(number, g, u, v, xl, yl, 0, low, k)
    PROVE  AddOf(AluAdd16(xl + 256 * u, yl + 256 * v, b), g, b, number)
<1> DEFINE x == xl + 256 * u
           y == yl + 256 * v
           h == u + v + k
           s == x + y
           w == low + 256 * (h % 256)
           b0 == [b EXCEPT !.n = FALSE]
           o == AluAdd16(x, y, b)
<1>1. o.r = W16(s) /\ o.f = PairFlags(x, y, s, b0) BY SMT DEF AluAdd16
<1>2. h \in 0 .. 511 BY SMT DEF Byte
<1>3. s = low + 256 * h
  <2>1. low + 256 * k = xl + yl + 0 BY DEF EndOfSum
  <2> QED BY <2>1, SMT DEF Byte
<1>4. w = low + 256 * (h % 256) /\ x = xl + 256 * u /\ y = yl + 256 * v OBVIOUS
<1>5. AfterAdd(g, u, v, h) /\ number = w BY DEF EndOfSum
<1>6. DOMAIN b0 = Names BY SMT
<1>7. b0.s = b.s /\ b0.z = b.z BY SMT DEF Names
<1>8. b0.p = b.p /\ b0.n = FALSE BY SMT DEF Names
<1> HIDE DEF x, y, h, s, w, o, b0
<1>9. WordOf(s, w, h) BY <1>2, <1>3, <1>4, PairResult
<1>10. h \in Int BY <1>2, SMT
<1>11. SameBits(x, y, s, u, v, h)
  <2>1. Joined(x, xl, u) /\ Joined(y, yl, v) /\ Joined(s, low, h) BY <1>3, <1>4 DEF Joined
  <2> QED BY <1>10, <2>1, PairBits
<1>12. OfPair(o.f, x, y, s, b0) /\ IsFlags(o.f) BY <1>1, <1>6, PairFields
<1> DEFINE e == [g EXCEPT !.s = b.s, !.z = b.z, !.p = b.p]
<1>13. IsFlags(e) /\ e.s = b.s /\ e.z = b.z /\ e.p = b.p
  <2> DEFINE e1 == [g EXCEPT !.s = b.s, !.z = b.z]
             bp == b.p
  <2>1. DOMAIN g = Names BY <1>5 DEF AfterAdd, IsFlags
  <2>2. e = [e1 EXCEPT !.p = bp] BY SMT
  <2>3. DOMAIN e1 = Names BY <2>1, SMT
  <2>4. e.s = b.s /\ e.z = b.z BY <2>1, SMT DEF Names
  <2>5. e.p = b.p BY <2>1, SMT DEF Names
  <2> HIDE DEF e1, e, bp
  <2>6. IsFlags([e1 EXCEPT !.p = bp]) BY <2>3, Written
  <2> QED BY <2>2, <2>4, <2>5, <2>6
<1>14. e.y = g.y /\ e.h = g.h /\ e.x = g.x /\ e.n = g.n /\ e.c = g.c
  <2>1. DOMAIN g = Names BY <1>5 DEF AfterAdd, IsFlags
  <2>2. e.y = g.y /\ e.h = g.h BY <2>1, SMT DEF Names
  <2>3. e.x = g.x /\ e.n = g.n BY <2>1, SMT DEF Names
  <2>4. e.c = g.c BY <2>1, SMT DEF Names
  <2> QED BY <2>2, <2>3, <2>4
<1>15. e = [g EXCEPT !.s = b.s, !.z = b.z, !.p = b.p] OBVIOUS
<1> HIDE DEF e
<1> DEFINE q == o.f
<1>16. IsFlags(q) /\ q.s = b.s /\ q.z = b.z /\ q.p = b.p BY <1>7, <1>8, <1>12 DEF OfPair
<1>17. q.y = g.y /\ q.h = g.h /\ q.x = g.x /\ q.n = g.n /\ q.c = g.c
  <2>1. q.h = Odd(x, y, s, 4096) /\ q.c = Has(s, 65536) /\ q.y = Has(s, 8192) /\ q.x = Has(s, 2048)
    BY <1>12 DEF OfPair
  <2>2. q.h = Odd(u, v, h, 16) /\ q.c = Has(h, 256) /\ q.y = Has(h % 256, 32) /\ q.x = Has(h % 256, 8)
    BY <1>11, <2>1 DEF SameBits
  <2>3. q.n = FALSE BY <1>8, <1>12 DEF OfPair
  <2>4. g.h = Odd(u, v, h, 16) /\ g.c = Has(h, 256) BY <1>5 DEF AfterAdd
  <2>5. g.y = Has(h % 256, 32) /\ g.x = Has(h % 256, 8) /\ g.n = FALSE BY <1>5 DEF AfterAdd
  <2>6. q.h = g.h /\ q.c = g.c BY <2>2, <2>4
  <2>7. q.y = g.y BY <2>2, <2>5
  <2>8. q.x = g.x BY <2>2, <2>5
  <2> QED BY <2>3, <2>5, <2>6, <2>7, <2>8
<1> HIDE DEF q
<1>18. q = e BY <1>13, <1>14, <1>16, <1>17, SameFlags
<1>19. o.r = w BY <1>1, <1>9 DEF WordOf
<1>20. AddOf(o, g, b, number) BY <1>5, <1>15, <1>18, <1>19 DEF AddOf, q
<1> QED BY <1>20 DEF o, x, y

\* The instructions on pairs agree with two on bytes.
LEMMA PairFromLast == ASSUME Shape, LastByte PROVE PairMatchesChain
<1> DEFINE before == [NoFlags EXCEPT !.c = job.c]
           lit    == [before EXCEPT !.s = TRUE, !.z = TRUE, !.p = TRUE]
           pair   == IF job.kind = "sum" THEN AluAdc16(job.x, job.y, before)
                                         ELSE AluSbc16(job.x, job.y, before)
           add(g) == AluAdd16(job.x, job.y, g)
<1> SUFFICES ASSUME job.n = 2, Summing, ~job.decimal, due = "done"
             PROVE  IF job.chained
                      THEN pair.r = out /\ pair.f = [f EXCEPT !.z = (out = 0)]
                      ELSE job.kind = "sum" =>
                             \A g \in {before, lit} :
                               /\ add(g).r = out
                               /\ add(g).f = [f EXCEPT !.s = g.s, !.z = g.z, !.p = g.p]
  BY DEF PairMatchesChain
<1>1. PICK k \in {0, 1}, low \in Byte, u \in Byte, v \in Byte, xl \in Byte, yl \in Byte :
        /\ LastOf(job, Incoming, out, f, low, k)
        /\ u = ByteAt(job.x, 1) /\ v = ByteAt(job.y, 1)
        /\ xl = Low(job.x, 1) /\ yl = Low(job.y, 1)
        /\ job.x = xl + 256 * u /\ job.y = yl + 256 * v
  BY PairFacts
<1>2. job.c \in BOOLEAN /\ job.chained \in BOOLEAN BY JobType DEF Shape, Summing
<1>3. DOMAIN before = Names /\ before.c = job.c
  <2>1. DOMAIN before = Names BY SMT DEF NoFlags, Names
  <2>2. before.c = job.c BY SMT DEF NoFlags
  <2> QED BY <2>1, <2>2
<1>4. DOMAIN lit = Names
  <2> HIDE DEF before
  <2> QED BY <1>3, SMT
<1>5. job.chained => Incoming = CarryOf(before) BY <1>3 DEF Incoming, One, CarryIn, CarryOf
<1>6. ~job.chained => Incoming = 0 BY DEF Incoming, One
<1> HIDE DEF before, lit
<1>7. CASE job.kind = "sum"
  <2>1. EndOfSum(out, f, u, v, xl, yl, Incoming, low, k) BY <1>1, <1>7, LastOfSum
  <2>2. ASSUME job.chained PROVE pair.r = out /\ pair.f = [f EXCEPT !.z = (out = 0)]
    <3> DEFINE o == AluAdc16(xl + 256 * u, yl + 256 * v, before)
    <3>1. EndOfSum(out, f, u, v, xl, yl, CarryOf(before), low, k) BY <1>5, <2>1, <2>2
    <3>2. LongOf(o, f, out) BY <3>1, AdcMatches
    <3>3. pair = o BY <1>1, <1>7
    <3> HIDE DEF o, pair
    <3> QED BY <3>2, <3>3 DEF LongOf, ZeroOf
  <2>3. ASSUME ~job.chained, NEW g \in {before, lit}
        PROVE  add(g).r = out /\ add(g).f = [f EXCEPT !.s = g.s, !.z = g.z, !.p = g.p]
    <3> DEFINE o == AluAdd16(xl + 256 * u, yl + 256 * v, g)
    <3>1. EndOfSum(out, f, u, v, xl, yl, 0, low, k) BY <1>6, <2>1, <2>3
    <3>2. DOMAIN g = Names BY <1>3, <1>4
    <3>3. AddOf(o, f, g, out) BY <3>1, <3>2, AddMatches
    <3>4. add(g) = o BY <1>1
    <3> HIDE DEF o, add
    <3> QED BY <3>3, <3>4 DEF AddOf
  <2> QED BY <1>2, <1>7, <2>2, <2>3
<1>8. CASE job.kind = "difference"
  <2>1. EndOfDifference(out, f, u, v, xl, yl, Incoming, low, k) BY <1>1, <1>8, LastOfDifference
  <2>2. ASSUME job.chained PROVE pair.r = out /\ pair.f = [f EXCEPT !.z = (out = 0)]
    <3> DEFINE o == AluSbc16(xl + 256 * u, yl + 256 * v, before)
    <3>1. EndOfDifference(out, f, u, v, xl, yl, CarryOf(before), low, k) BY <1>5, <2>1, <2>2
    <3>2. LongOf(o, f, out) BY <3>1, SbcMatches
    <3>3. job.kind # "sum" BY <1>8
    <3>4. pair = o BY <1>1, <3>3
    <3> HIDE DEF o, pair
    <3> QED BY <3>2, <3>4 DEF LongOf, ZeroOf
  <2>3. job.kind # "sum" BY <1>8
  <2> QED BY <1>2, <2>2, <2>3
<1> QED BY <1>7, <1>8 DEF Summing

\* ADD HL,rr, ADC HL,rr and SBC HL,rr agree with two instructions on bytes in
\* the result and every flag they share.
THEOREM PairMatchesChainHolds == Spec => []PairMatchesChain
<1>1. Shape /\ LastByte => PairMatchesChain BY PairFromLast
<1> QED BY <1>1, ShapeHolds, LastHolds, PTL

-----------------------------------------------------------------------------
(* Decimal                                                                   *)

\* A byte of two decimal digits, and its value.
TwoDigits(b) == b % 16 < 10 /\ b \div 16 < 10
Dig(b) == 10 * (b \div 16) + (b % 16)

\* The digits of a byte.
LEMMA Nibbles ==
    ASSUME NEW b \in Byte
    PROVE  /\ b \div 16 \in Int /\ b % 16 \in Int /\ b = 16 * (b \div 16) + (b % 16)
           /\ 0 <= b \div 16 /\ b \div 16 <= 15 /\ 0 <= b % 16 /\ b % 16 <= 15
           /\ Has(b, 16) <=> (b \div 16) % 2 = 1
<1>1. b \in Int /\ 0 <= b /\ b <= 255 BY Ranges
<1> QED BY <1>1, SMT DEF Has

\* The digits of r and the carry c are the sum t, or the difference t.
DigitsUp(r, c, t)   == r \in Byte /\ TwoDigits(r) /\ Dig(r) + 100 * One(c) = t
DigitsDown(r, c, t) == r \in Byte /\ TwoDigits(r) /\ Dig(r) - 100 * One(c) = t

\* What DAA finds behind the sum s = 16 * h + l of decimal bytes, h and l sums
\* of digits, in A, H and C.
LEMMA DaaSum ==
    ASSUME NEW h \in Int, NEW l \in Int, 0 <= h, h <= 18, 0 <= l, l <= 19,
           NEW s, s = 16 * h + l, NEW b, b = s % 256, NEW g,
           g.n = FALSE, g.h <=> l >= 16, g.c <=> s >= 256
    PROVE  DigitsUp(DaaTo(b, g) % 256, DaaCarry(b, g), 10 * h + l)
<1> DEFINE lo == IF l >= 10 THEN 6 ELSE 0
           hi == 10 * h + l >= 100
           m  == IF l >= 10 THEN l - 10 ELSE l
           q  == IF l >= 10 THEN h + 1 ELSE h
           p  == IF hi THEN q - 10 ELSE q
           r  == DaaTo(b, g) % 256
<1>1. s \in Int /\ 0 <= s /\ s <= 307 BY SMT
<1>2. b = IF s >= 256 THEN s - 256 ELSE s BY <1>1, SMT
<1>3. b \in Int /\ 0 <= b /\ b <= 255 BY <1>1, <1>2, SMT
<1>4. b % 16 = IF l >= 16 THEN l - 16 ELSE l
  <2>1. CASE l >= 16
    <3>1. b = 16 * (h + 1) + (l - 16) \/ b = 16 * (h - 15) + (l - 16) BY <1>1, <1>2, <2>1, SMT
    <3> QED BY <2>1, <3>1, SMT
  <2>2. CASE ~(l >= 16)
    <3>1. b = 16 * h + l \/ b = 16 * (h - 16) + l BY <1>1, <1>2, <2>2, SMT
    <3> QED BY <2>2, <3>1, SMT
  <2> QED BY <2>1, <2>2
<1>5. (g.h \/ b % 16 > 9) <=> l >= 10 BY <1>4, SMT
<1>6. (g.c \/ b > 153) <=> hi BY <1>1, <1>2, SMT
<1>7. DaaTo(b, g) = b + (lo + (IF hi THEN 96 ELSE 0))
  <2>1. (IF g.h \/ b % 16 > 9 THEN 6 ELSE 0) = lo BY <1>5, SMT
  <2>2. (IF g.c \/ b > 153 THEN 96 ELSE 0) = IF hi THEN 96 ELSE 0 BY <1>6, SMT
  <2>3. DaaBy(b, g) = lo + (IF hi THEN 96 ELSE 0) BY ONLY <2>1, <2>2, SMT DEF DaaBy
  <2> HIDE DEF lo, hi
  <2> QED BY <2>3 DEF DaaTo
<1>8. p \in Int /\ m \in Int /\ 0 <= p /\ p <= 9 /\ 0 <= m /\ m <= 9 BY SMT
<1>9. r = 16 * p + m
  <2> DEFINE t == b + (lo + (IF hi THEN 96 ELSE 0))
             e == 16 * p + m
  <2>1. t = e \/ t = e + 256 BY <1>1, <1>2, SMT
  <2>2. e \in Int /\ 0 <= e /\ e <= 255 BY <1>8, SMT
  <2>3. r = t % 256 BY <1>7
  <2> HIDE DEF t, e, r
  <2>4. r = e BY <2>1, <2>2, <2>3, SMT
  <2> QED BY <2>4 DEF e
<1>10. 10 * p + m + 100 * One(hi) = 10 * h + l BY SMT DEF One
<1>11. One(DaaCarry(b, g)) = One(hi) BY <1>6 DEF DaaCarry, One
<1> HIDE DEF r, p, m, hi, lo, q
<1>12. r \div 16 = p /\ r % 16 = m BY <1>8, <1>9, SMT
<1>13. r \in Byte BY <1>8, <1>9, Ranges, SMT
<1>14. TwoDigits(r) BY <1>8, <1>12, SMT DEF TwoDigits
<1>15. Dig(r) = 10 * p + m BY <1>12 DEF Dig
<1> QED BY <1>10, <1>11, <1>13, <1>14, <1>15 DEF r, DigitsUp

\* And behind the difference s = 16 * h + l.
LEMMA DaaDifference ==
    ASSUME NEW h \in Int, NEW l \in Int, -9 <= h, h <= 9, -10 <= l, l <= 9,
           NEW s, s = 16 * h + l, NEW b, b = s % 256, NEW g,
           g.n = TRUE, g.h <=> l < 0, g.c <=> s < 0
    PROVE  DigitsDown(DaaTo(b, g) % 256, DaaCarry(b, g), 10 * h + l)
<1> DEFINE lo == IF l < 0 THEN 6 ELSE 0
           hi == 10 * h + l < 0
           m  == IF l < 0 THEN l + 10 ELSE l
           q  == IF l < 0 THEN h - 1 ELSE h
           p  == IF hi THEN q + 10 ELSE q
           r  == DaaTo(b, g) % 256
<1>1. s \in Int /\ -154 <= s /\ s <= 153 BY SMT
<1>2. b = IF s < 0 THEN s + 256 ELSE s BY <1>1, SMT
<1>3. b \in Int /\ 0 <= b /\ b <= 255 BY <1>1, <1>2, SMT
<1>4. ~(l < 0) => b % 16 = l
  <2> SUFFICES ASSUME ~(l < 0) PROVE b % 16 = l OBVIOUS
  <2>1. b = 16 * h + l \/ b = 16 * (h + 16) + l BY <1>1, <1>2, SMT
  <2> QED BY <2>1, SMT
<1>5. (g.h \/ b % 16 > 9) <=> l < 0
  <2>1. CASE l < 0 BY <2>1
  <2>2. CASE ~(l < 0)
    <3>1. ~(b % 16 > 9) BY <1>4, <2>2, SMT
    <3> QED BY <2>2, <3>1
  <2> QED BY <2>1, <2>2
<1>6. (g.c \/ b > 153) <=> hi BY <1>1, <1>2, SMT
<1>7. DaaTo(b, g) = b - (lo + (IF hi THEN 96 ELSE 0))
  <2>1. (IF g.h \/ b % 16 > 9 THEN 6 ELSE 0) = lo BY <1>5, SMT
  <2>2. (IF g.c \/ b > 153 THEN 96 ELSE 0) = IF hi THEN 96 ELSE 0 BY <1>6, SMT
  <2>3. DaaBy(b, g) = lo + (IF hi THEN 96 ELSE 0) BY ONLY <2>1, <2>2, SMT DEF DaaBy
  <2> HIDE DEF lo, hi
  <2> QED BY <2>3 DEF DaaTo
<1>8. p \in Int /\ m \in Int /\ 0 <= p /\ p <= 9 /\ 0 <= m /\ m <= 9 BY SMT
<1>9. r = 16 * p + m
  <2> DEFINE t == b - (lo + (IF hi THEN 96 ELSE 0))
             e == 16 * p + m
  <2>1. t = e \/ t = e - 256 BY <1>1, <1>2, SMT
  <2>2. e \in Int /\ 0 <= e /\ e <= 255 BY <1>8, SMT
  <2>3. r = t % 256 BY <1>7
  <2> HIDE DEF t, e, r
  <2>4. r = e BY <2>1, <2>2, <2>3, SMT
  <2> QED BY <2>4 DEF e
<1>10. (10 * p + m) - 100 * One(hi) = 10 * h + l BY SMT DEF One
<1>11. One(DaaCarry(b, g)) = One(hi) BY <1>6 DEF DaaCarry, One
<1> HIDE DEF r, p, m, hi, lo, q
<1>12. r \div 16 = p /\ r % 16 = m BY <1>8, <1>9, SMT
<1>13. r \in Byte BY <1>8, <1>9, Ranges, SMT
<1>14. TwoDigits(r) BY <1>8, <1>12, SMT DEF TwoDigits
<1>15. Dig(r) = 10 * p + m BY <1>12 DEF Dig
<1> QED BY <1>10, <1>11, <1>13, <1>14, <1>15 DEF r, DigitsDown

\* DAA behind the sum of two decimal bytes.
LEMMA SumAdjusted ==
    ASSUME NEW u \in Byte, NEW v \in Byte, TwoDigits(u), TwoDigits(v), NEW k \in {0, 1},
           NEW b, b = (u + v + k) % 256, NEW g, AfterAdd(g, u, v, u + v + k)
    PROVE  DigitsUp(AluDaa(b, g).r, AluDaa(b, g).f.c, Dig(u) + Dig(v) + k)
<1> DEFINE uh == u \div 16
           ul == u % 16
           vh == v \div 16
           vl == v % 16
           h  == uh + vh
           l  == ul + vl + k
           s  == u + v + k
<1>1. /\ uh \in Int /\ 0 <= uh /\ uh <= 9 /\ ul \in Int /\ 0 <= ul /\ ul <= 9
      /\ u = 16 * uh + ul /\ (Has(u, 16) <=> uh % 2 = 1)
  BY Nibbles, SMT DEF TwoDigits
<1>2. /\ vh \in Int /\ 0 <= vh /\ vh <= 9 /\ vl \in Int /\ 0 <= vl /\ vl <= 9
      /\ v = 16 * vh + vl /\ (Has(v, 16) <=> vh % 2 = 1)
  BY Nibbles, SMT DEF TwoDigits
<1>3. Dig(u) + Dig(v) + k = 10 * uh + ul + (10 * vh + vl) + k BY DEF Dig
<1>4. AfterAdd(g, u, v, s) /\ b = s % 256 OBVIOUS
<1>5. s = u + v + k OBVIOUS
<1> HIDE DEF uh, ul, vh, vl
<1>6. h \in Int /\ l \in Int /\ 0 <= h /\ h <= 18 /\ 0 <= l /\ l <= 19 BY <1>1, <1>2, SMT
<1>7. h = uh + vh /\ l = ul + vl + k OBVIOUS
<1>8. s = 16 * h + l BY <1>1, <1>2, SMT
<1> HIDE DEF h, l, s
<1>9. s \in Int /\ 0 <= s /\ s <= 307 BY <1>6, <1>8, SMT
<1>10. s \div 16 = IF l >= 16 THEN h + 1 ELSE h BY <1>6, <1>8, SMT
<1>11. Has(s, 16) <=> (IF l >= 16 THEN h + 1 ELSE h) % 2 = 1 BY <1>10 DEF Has
<1>12. Odd(u, v, s, 16) <=> l >= 16
  <2>1. Odd(u, v, s, 16) <=> ((uh % 2 = 1) # (vh % 2 = 1)) # ((IF l >= 16 THEN h + 1 ELSE h) % 2 = 1)
    BY <1>1, <1>2, <1>11 DEF Odd, Has
  <2>2. CASE l >= 16
    <3>1. ((uh % 2 = 1) # (vh % 2 = 1)) # ((h + 1) % 2 = 1) BY <1>1, <1>2, <1>7, SMT
    <3> QED BY <2>1, <2>2, <3>1
  <2>3. CASE ~(l >= 16)
    <3>1. ~(((uh % 2 = 1) # (vh % 2 = 1)) # (h % 2 = 1)) BY <1>1, <1>2, <1>7, SMT
    <3> QED BY <2>1, <2>3, <3>1
  <2> QED BY <2>2, <2>3
<1>13. Has(s, 256) <=> s >= 256 BY <1>9, SMT DEF Has
<1>14. g.n = FALSE /\ (g.h <=> l >= 16) /\ (g.c <=> s >= 256)
  BY <1>4, <1>12, <1>13 DEF AfterAdd
<1>15. DigitsUp(DaaTo(b, g) % 256, DaaCarry(b, g), 10 * h + l)
  BY ONLY <1>4, <1>6, <1>8, <1>14, DaaSum, ZenonT(60)
<1>16. Dig(u) + Dig(v) + k = 10 * h + l BY <1>1, <1>2, <1>3, <1>7, SMT
<1>17. AluDaa(b, g).r = DaaTo(b, g) % 256 /\ AluDaa(b, g).f.c = DaaCarry(b, g) BY DaaFields
<1> QED BY <1>15, <1>16, <1>17

\* DAA behind the difference of two decimal bytes.
LEMMA DifferenceAdjusted ==
    ASSUME NEW u \in Byte, NEW v \in Byte, TwoDigits(u), TwoDigits(v), NEW k \in {0, 1},
           NEW b, b = W16(u - v - k) % 256, NEW g, AfterSub(g, u, v, W16(u - v - k))
    PROVE  DigitsDown(AluDaa(b, g).r, AluDaa(b, g).f.c, Dig(u) - Dig(v) - k)
<1> DEFINE uh == u \div 16
           ul == u % 16
           vh == v \div 16
           vl == v % 16
           h  == uh - vh
           l  == ul - vl - k
           s  == u - v - k
           t  == W16(s)
<1>1. /\ uh \in Int /\ 0 <= uh /\ uh <= 9 /\ ul \in Int /\ 0 <= ul /\ ul <= 9
      /\ u = 16 * uh + ul /\ (Has(u, 16) <=> uh % 2 = 1)
  BY Nibbles, SMT DEF TwoDigits
<1>2. /\ vh \in Int /\ 0 <= vh /\ vh <= 9 /\ vl \in Int /\ 0 <= vl /\ vl <= 9
      /\ v = 16 * vh + vl /\ (Has(v, 16) <=> vh % 2 = 1)
  BY Nibbles, SMT DEF TwoDigits
<1>3. Dig(u) - Dig(v) - k = (10 * uh + ul) - (10 * vh + vl) - k BY DEF Dig
<1>4. AfterSub(g, u, v, t) /\ b = t % 256 OBVIOUS
<1> HIDE DEF uh, ul, vh, vl
<1>5. h \in Int /\ l \in Int /\ -9 <= h /\ h <= 9 /\ -10 <= l /\ l <= 9 BY <1>1, <1>2, SMT
<1>6. h = uh - vh /\ l = ul - vl - k /\ t = W16(s) OBVIOUS
<1>7. s = 16 * h + l BY <1>1, <1>2, SMT
<1> HIDE DEF h, l, s, t
<1>8. s \in Int /\ -154 <= s /\ s <= 153 BY <1>5, <1>7, SMT
<1>9. t = IF s < 0 THEN s + 65536 ELSE s BY <1>6, <1>8, SMT DEF W16
<1>10. b = s % 256
  <2>1. CASE s < 0
    <3>1. (s + 65536) % 256 = s % 256 BY <1>8, SMT
    <3> QED BY <1>4, <1>9, <2>1, <3>1
  <2>2. CASE ~(s < 0) BY <1>4, <1>9, <2>2
  <2> QED BY <2>1, <2>2
<1>11. t \div 16 = (IF l < 0 THEN h - 1 ELSE h) + (IF s < 0 THEN 4096 ELSE 0)
  BY <1>5, <1>7, <1>8, <1>9, SMT
<1>12. Odd(u, v, t, 16) <=> l < 0
  <2> DEFINE q == IF l < 0 THEN h - 1 ELSE h
  <2>1. (t \div 16) % 2 = q % 2 BY <1>5, <1>11, SMT
  <2>2. Odd(u, v, t, 16) <=> ((uh % 2 = 1) # (vh % 2 = 1)) # (q % 2 = 1)
    BY <1>1, <1>2, <2>1 DEF Odd, Has
  <2>3. CASE l < 0
    <3>1. ((uh % 2 = 1) # (vh % 2 = 1)) # ((h - 1) % 2 = 1) BY <1>1, <1>2, <1>6, SMT
    <3> QED BY <2>2, <2>3, <3>1
  <2>4. CASE ~(l < 0)
    <3>1. ~(((uh % 2 = 1) # (vh % 2 = 1)) # (h % 2 = 1)) BY <1>1, <1>2, <1>6, SMT
    <3> QED BY <2>2, <2>4, <3>1
  <2> QED BY <2>3, <2>4
<1>13. Has(t, 256) <=> s < 0 BY <1>8, <1>9, SMT DEF Has
<1>14. g.n = TRUE /\ (g.h <=> l < 0) /\ (g.c <=> s < 0)
  BY <1>4, <1>12, <1>13 DEF AfterSub
<1>15. DigitsDown(DaaTo(b, g) % 256, DaaCarry(b, g), 10 * h + l)
  BY ONLY <1>5, <1>7, <1>10, <1>14, DaaDifference, ZenonT(60)
<1>16. Dig(u) - Dig(v) - k = 10 * h + l BY <1>1, <1>2, <1>3, <1>6, SMT
<1>17. AluDaa(b, g).r = DaaTo(b, g) % 256 /\ AluDaa(b, g).f.c = DaaCarry(b, g) BY DaaFields
<1> QED BY <1>15, <1>16, <1>17

\* The value of two digits is a number, and no digits are worth nothing.
LEMMA DigType == (\A b \in Byte : Dig(b) \in Int) /\ Dig(0) = 0 /\ TwoDigits(0)
<1>1. ASSUME NEW b \in Byte PROVE Dig(b) \in Int
  <2> DEFINE h == b \div 16
             l == b % 16
  <2>1. h \in Int /\ l \in Int BY Nibbles
  <2> HIDE DEF h, l
  <2>2. 10 * h + l \in Int BY <2>1, SMT
  <2> QED BY <2>2 DEF Dig, h, l
<1>2. Dig(0) = 0 BY SMT DEF Dig
<1>3. TwoDigits(0) BY SMT DEF TwoDigits
<1> QED BY <1>1, <1>2, <1>3

\* The value of the digits of two bytes.
DigitsOf(w) == Dig(ByteAt(w, 0)) + 100 * Dig(ByteAt(w, 1))

\* The powers of 100 that occur.
LEMMA Hundreds == 100 ^ 0 = 1 /\ 100 ^ 1 = 100 /\ 100 ^ 2 = 10000
BY SMT

\* That is what Digits and IsDecimal say.
LEMMA DigitsBytes ==
    /\ \A w \in Word : Digits(w) = DigitsOf(w)
    /\ \A w : IsDecimal(w) <=> TwoDigits(ByteAt(w, 0)) /\ TwoDigits(ByteAt(w, 1))
<1>1. ASSUME NEW w \in Word PROVE Digits(w) = DigitsOf(w)
  <2> DEFINE p == Dig(ByteAt(w, 0))
             q == Dig(ByteAt(w, 1))
  <2>1. Digits(w) = 100 ^ 0 * p + 100 ^ 1 * q BY DEF Digits, Dig
  <2>2. p \in Int /\ q \in Int BY DigType, Bytes
  <2>3. DigitsOf(w) = p + 100 * q BY DEF DigitsOf
  <2> HIDE DEF p, q
  <2>4. 100 ^ 0 * p + 100 ^ 1 * q = 1 * p + 100 * q BY Hundreds
  <2> QED BY <2>1, <2>2, <2>3, <2>4, SMT
<1>2. ASSUME NEW w
      PROVE  IsDecimal(w) <=> TwoDigits(ByteAt(w, 0)) /\ TwoDigits(ByteAt(w, 1))
  <2>1. 0 .. 1 = {0, 1} BY SMT
  <2> QED BY <2>1 DEF IsDecimal, TwoDigits
<1> QED BY <1>1, <1>2

\* The bytes of a word made of two.
LEMMA WordBytes ==
    ASSUME NEW l \in Byte, NEW h \in Byte, NEW w, w = l + 256 * h
    PROVE  w \in Word /\ ByteAt(w, 0) = l /\ ByteAt(w, 1) = h
<1>1. l \in Int /\ 0 <= l /\ l <= 255 /\ h \in Int /\ 0 <= h /\ h <= 255 BY Ranges
<1>2. w \in Int /\ 0 <= w /\ w <= 65535 BY <1>1, SMT
<1>3. w % 256 = l /\ w \div 256 = h BY <1>1, SMT
<1>4. w \in Word BY <1>2, Ranges
<1> QED BY <1>3, <1>4, Bytes

\* Two digits r above the digits of number.
DigitsGrow(number, i, r, w) ==
    /\ Digits(number) \in Int /\ Digits(w) \in Int /\ Dig(r) \in Int
    /\ Digits(w) = Digits(number) + 100 ^ i * Dig(r)
    /\ IsDecimal(number) /\ TwoDigits(r) => IsDecimal(w)

\* A byte put above a number puts its digits above.
LEMMA DigitsAbove ==
    ASSUME NEW i \in {0, 1}, NEW number, Fits(number, i), NEW r \in Byte
    PROVE  DigitsGrow(number, i, r, Above(number, i, r))
<1>0. Dig(r) \in Int BY DigType
<1>1. 0 \in Byte BY SMT DEF Byte
<1>2. ASSUME NEW b \in Byte
      PROVE  b \in Word /\ Digits(b) = Dig(b) /\ (IsDecimal(b) <=> TwoDigits(b))
  <2>1. b = b + 256 * 0 BY Ranges, SMT
  <2>2. b \in Word /\ ByteAt(b, 0) = b /\ ByteAt(b, 1) = 0 BY <1>1, <2>1, WordBytes
  <2>3. Digits(b) = Dig(b) + 100 * Dig(0) BY <2>2, DigitsBytes DEF DigitsOf
  <2>4. Dig(b) \in Int /\ Dig(0) = 0 BY DigType
  <2>5. Digits(b) = Dig(b) BY <2>3, <2>4, SMT
  <2> QED BY <2>2, <2>5, DigitsBytes, DigType
<1>3. CASE i = 0
  <2>1. number = 0 BY <1>3, Powers, SMT DEF Fits
  <2>2. Above(number, i, r) = r BY <1>3, <2>1, Powers, Ranges, SMT DEF Above
  <2>3. Digits(number) = 0 BY <1>1, <1>2, <2>1, DigType
  <2>4. Digits(r) = Dig(r) /\ (IsDecimal(r) <=> TwoDigits(r)) BY <1>2
  <2>5. 100 ^ i = 1 BY <1>3, Hundreds
  <2>6. Digits(r) = Digits(number) + 100 ^ i * Dig(r) BY <1>0, <2>3, <2>4, <2>5, SMT
  <2>7. Digits(number) \in Int /\ Digits(r) \in Int BY <1>0, <2>3, <2>4, SMT
  <2> QED BY <1>0, <2>2, <2>4, <2>6, <2>7 DEF DigitsGrow
<1>4. CASE i = 1
  <2>1. number \in Byte BY <1>4, Powers, SMT DEF Fits, Byte
  <2> DEFINE w == Above(number, i, r)
  <2>2. w = number + 256 * r BY <1>4, Powers DEF Above
  <2> HIDE DEF w
  <2>3. w \in Word /\ ByteAt(w, 0) = number /\ ByteAt(w, 1) = r BY <2>1, <2>2, WordBytes
  <2>4. Digits(w) = Dig(number) + 100 * Dig(r) BY <2>3, DigitsBytes DEF DigitsOf
  <2>5. Digits(number) = Dig(number) /\ (IsDecimal(number) <=> TwoDigits(number)) BY <1>2, <2>1
  <2>6. Dig(number) \in Int BY <2>1, DigType
  <2>7. Digits(w) \in Int BY <1>0, <2>4, <2>6, SMT
  <2>8. 100 ^ i = 100 BY <1>4, Hundreds
  <2>9. IsDecimal(number) /\ TwoDigits(r) => IsDecimal(w) BY <2>3, <2>5, DigitsBytes
  <2> QED BY <1>0, <2>4, <2>5, <2>6, <2>7, <2>8, <2>9 DEF DigitsGrow, w
<1> QED BY <1>3, <1>4

\* So does the next byte of an operand.
LEMMA DigitsLow ==
    ASSUME NEW w \in Word, NEW i \in {0, 1}
    PROVE  DigitsGrow(Low(w, i), i, ByteAt(w, i), Low(w, i + 1))
<1>1. Fits(Low(w, i), i)
  <2>1. Low(w, 0) = 0 /\ Low(w, 1) = ByteAt(w, 0) /\ ByteAt(w, 0) \in Byte BY Bytes
  <2>2. Fits(Low(w, 0), 0) BY <2>1, Powers, SMT DEF Fits
  <2> DEFINE b == ByteAt(w, 0)
  <2>3. b \in Int /\ 0 <= b /\ b <= 255 BY <2>1, Ranges
  <2> HIDE DEF b
  <2>4. Fits(b, 1) BY <2>3, Powers, SMT DEF Fits
  <2> QED BY <2>1, <2>2, <2>4 DEF b
<1>2. ByteAt(w, i) \in Byte BY Bytes
<1>3. Low(w, i + 1) = Above(Low(w, i), i, ByteAt(w, i))
  <2>1. LowGrows(w, i) BY LowStep
  <2> QED BY ONLY <2>1 DEF LowGrows, Above
<1> QED BY <1>1, <1>2, <1>3, DigitsAbove

\* The decimal digits of number and the carry k out of them are the sum, or the
\* difference, of the digits of the low i bytes of x and y and the carry inc.
DecimalSum(number, i, k, x, y, inc) ==
    IsDecimal(number) /\ Digits(number) + 100 ^ i * k = Digits(Low(x, i)) + Digits(Low(y, i)) + inc
DecimalDiff(number, i, k, x, y, inc) ==
    IsDecimal(number) /\ Digits(number) - 100 ^ i * k = Digits(Low(x, i)) - Digits(Low(y, i)) - inc

\* The result of the job j for i bytes, in front of an addition or subtraction
\* and behind one, in front of DAA: A and F, here b and g, are what it left.
DecimalSoFar(j, inc, number, i, k) ==
    /\ j.kind = "sum" => DecimalSum(number, i, k, j.x, j.y, inc)
    /\ j.kind = "difference" => DecimalDiff(number, i, k, j.x, j.y, inc)

LeftToAdjust(j, inc, number, i, b, g, k) ==
    LET u == ByteAt(j.x, i)
        v == ByteAt(j.y, i)
    IN  /\ DecimalSoFar(j, inc, number, i, k)
        /\ j.kind = "sum" => b = (u + v + k) % 256 /\ AfterAdd(g, u, v, u + v + k)
        /\ j.kind = "difference" => b = W16(u - v - k) % 256 /\ AfterSub(g, u, v, W16(u - v - k))

DecimalInv ==
    Summing /\ job.decimal =>
        /\ due # "adjust" => DecimalSoFar(job, Incoming, out, at, Held)
        /\ due = "adjust" => \E k \in {0, 1} : LeftToAdjust(job, Incoming, out, at, a, f, k)

\* Two more digits continue the result.
LEMMA DecimalStep ==
    ASSUME NEW x \in Word, NEW y \in Word, NEW i \in {0, 1}, NEW number, Fits(number, i),
           NEW k \in {0, 1}, NEW inc \in Int, NEW r, NEW c
    PROVE  /\ DecimalSum(number, i, k, x, y, inc)
              /\ DigitsUp(r, c, Dig(ByteAt(x, i)) + Dig(ByteAt(y, i)) + k)
                => DecimalSum(Above(number, i, r), i + 1, One(c), x, y, inc)
           /\ DecimalDiff(number, i, k, x, y, inc)
              /\ DigitsDown(r, c, Dig(ByteAt(x, i)) - Dig(ByteAt(y, i)) - k)
                => DecimalDiff(Above(number, i, r), i + 1, One(c), x, y, inc)
<1> DEFINE u  == Dig(ByteAt(x, i))
           v  == Dig(ByteAt(y, i))
           xl == Digits(Low(x, i))
           yl == Digits(Low(y, i))
           xh == Digits(Low(x, i + 1))
           yh == Digits(Low(y, i + 1))
           d  == Dig(r)
           n  == Digits(number)
           w  == Above(number, i, r)
           e  == Digits(w)
           o  == One(c)
<1>1. DigitsGrow(Low(x, i), i, ByteAt(x, i), Low(x, i + 1)) BY DigitsLow
<1>2. DigitsGrow(Low(y, i), i, ByteAt(y, i), Low(y, i + 1)) BY DigitsLow
<1>3. u \in Int /\ v \in Int /\ xl \in Int /\ yl \in Int /\ xh \in Int /\ yh \in Int
  BY <1>1, <1>2 DEF DigitsGrow
<1>4. xh = xl + 100 ^ i * u /\ yh = yl + 100 ^ i * v BY <1>1, <1>2 DEF DigitsGrow
<1>5. o \in Int BY OneType, SMT
<1>6. ASSUME r \in Byte
      PROVE  /\ d \in Int /\ n \in Int /\ e = n + 100 ^ i * d
             /\ IsDecimal(number) /\ TwoDigits(r) => IsDecimal(w)
  <2>1. DigitsGrow(number, i, r, w) BY <1>6, DigitsAbove
  <2> QED BY <2>1 DEF DigitsGrow
<1>7. \/ 100 ^ i = 1 /\ 100 ^ (i + 1) = 100
      \/ 100 ^ i = 100 /\ 100 ^ (i + 1) = 10000
  <2>1. CASE i = 0
    <3>1. 100 ^ i = 1 /\ 100 ^ (i + 1) = 100 BY <2>1, Hundreds
    <3> QED BY <3>1
  <2>2. CASE i = 1
    <3>1. 100 ^ i = 100 /\ 100 ^ (i + 1) = 10000 BY <2>2, Hundreds
    <3> QED BY <3>1
  <2> QED BY <2>1, <2>2
<1>8. ASSUME DecimalSum(number, i, k, x, y, inc), DigitsUp(r, c, u + v + k)
      PROVE  DecimalSum(w, i + 1, o, x, y, inc)
  <2>1. IsDecimal(number) /\ n + 100 ^ i * k = xl + yl + inc BY <1>8 DEF DecimalSum
  <2>2. r \in Byte /\ TwoDigits(r) /\ d + 100 * o = u + v + k BY <1>8 DEF DigitsUp
  <2>3. d \in Int /\ n \in Int /\ e = n + 100 ^ i * d /\ IsDecimal(w) BY <1>6, <2>1, <2>2
  <2> HIDE DEF u, v, xl, yl, xh, yh, d, n, e, o
  <2>4. e + 100 ^ (i + 1) * o = xh + yh + inc
    <3>1. CASE 100 ^ i = 1 /\ 100 ^ (i + 1) = 100
      <4>1. n + k = xl + yl + inc /\ xh = xl + u /\ yh = yl + v /\ e = n + d
        BY <1>3, <1>4, <2>1, <2>3, <3>1, SMT
      <4> QED BY <1>3, <1>5, <2>2, <2>3, <3>1, <4>1, SMT
    <3>2. CASE 100 ^ i = 100 /\ 100 ^ (i + 1) = 10000
      <4>1. n + 100 * k = xl + yl + inc /\ xh = xl + 100 * u /\ yh = yl + 100 * v /\ e = n + 100 * d
        BY <1>4, <2>1, <2>3, <3>2
      <4> QED BY <1>3, <1>5, <2>2, <2>3, <3>2, <4>1, SMT
    <3> QED BY <1>7, <3>1, <3>2
  <2> QED BY <2>3, <2>4 DEF DecimalSum, e, xh, yh
<1>9. ASSUME DecimalDiff(number, i, k, x, y, inc), DigitsDown(r, c, u - v - k)
      PROVE  DecimalDiff(w, i + 1, o, x, y, inc)
  <2>1. IsDecimal(number) /\ n - 100 ^ i * k = xl - yl - inc BY <1>9 DEF DecimalDiff
  <2>2. r \in Byte /\ TwoDigits(r) /\ d - 100 * o = u - v - k BY <1>9 DEF DigitsDown
  <2>3. d \in Int /\ n \in Int /\ e = n + 100 ^ i * d /\ IsDecimal(w) BY <1>6, <2>1, <2>2
  <2> HIDE DEF u, v, xl, yl, xh, yh, d, n, e, o
  <2>4. e - 100 ^ (i + 1) * o = xh - yh - inc
    <3>1. CASE 100 ^ i = 1 /\ 100 ^ (i + 1) = 100
      <4>1. n - k = xl - yl - inc /\ xh = xl + u /\ yh = yl + v /\ e = n + d
        BY <1>3, <1>4, <2>1, <2>3, <3>1, SMT
      <4> QED BY <1>3, <1>5, <2>2, <2>3, <3>1, <4>1, SMT
    <3>2. CASE 100 ^ i = 100 /\ 100 ^ (i + 1) = 10000
      <4>1. n - 100 * k = xl - yl - inc /\ xh = xl + 100 * u /\ yh = yl + 100 * v /\ e = n + 100 * d
        BY <1>4, <2>1, <2>3, <3>2
      <4> QED BY <1>3, <1>5, <2>2, <2>3, <3>2, <4>1, SMT
    <3> QED BY <1>7, <3>1, <3>2
  <2> QED BY <2>3, <2>4 DEF DecimalDiff, e, xh, yh
<1> QED BY <1>8, <1>9

\* At the start nothing is done and C is what came in.
LEMMA InitDecimal == ASSUME Init PROVE DecimalInv
<1> SUFFICES ASSUME Summing, job.decimal PROVE DecimalSoFar(job, Incoming, out, at, Held)
  BY DEF DecimalInv, Init
<1>1. Shape BY InitShape
<1>2. job.x \in Word /\ job.y \in Word BY <1>1, JobType DEF Shape, Summing
<1>3. Low(job.x, 0) = 0 /\ Low(job.y, 0) = 0 BY <1>2, Bytes
<1>4. at = 0 /\ out = 0 /\ f.c = job.c BY <1>1 DEF Init, Shape, Walking, Summing
<1>5. Held = Incoming
  <2>1. ~(at > 0) BY <1>4, SMT
  <2> QED BY <1>4, <2>1 DEF Held, CarryIn, Incoming, One
<1>6. Incoming \in Int BY OneType, SMT DEF Incoming
<1>7. IsDecimal(0) /\ Digits(0) = 0
  <2>1. 0 \in Byte /\ 0 = 0 + 256 * 0 BY SMT DEF Byte
  <2>2. 0 \in Word /\ ByteAt(0, 0) = 0 /\ ByteAt(0, 1) = 0 BY <2>1, WordBytes
  <2>3. Digits(0) = Dig(0) + 100 * Dig(0) BY <2>2, DigitsBytes DEF DigitsOf
  <2>4. Digits(0) = 0 BY <2>3, DigType, SMT
  <2> QED BY <2>2, <2>4, DigitsBytes, DigType
<1> DEFINE inc == Incoming
<1>8. 0 + 100 ^ 0 * inc = 0 + 0 + inc /\ 0 - 100 ^ 0 * inc = 0 - 0 - inc
  <2>1. inc \in Int BY <1>6
  <2> HIDE DEF inc
  <2>2. 0 + 1 * inc = 0 + 0 + inc /\ 0 - 1 * inc = 0 - 0 - inc BY <2>1, SMT
  <2> QED BY <2>2, Hundreds
<1> QED BY <1>3, <1>4, <1>5, <1>7, <1>8 DEF DecimalSoFar, DecimalSum, DecimalDiff

\* DAA gives the next two digits and the carry.
LEMMA AdjustNext ==
    ASSUME Shape, DecimalInv, Adjust
    PROVE  DecimalSoFar(job, Incoming, out', at', Held')
<1> DEFINE o == AluDaa(a, f)
           r == o.r
           c == o.f.c
           u == ByteAt(job.x, at)
           v == ByteAt(job.y, at)
<1>1. due = "adjust" /\ f' = o.f /\ Stored(r, Above(out, at, r)) BY DEF Adjust, Above
<1>2. Walking /\ Summing /\ job.decimal BY <1>1 DEF Shape, Walking, Summing
<1>3. out' = Above(out, at, r) /\ at' = at + 1 /\ job' = job BY <1>1 DEF Stored
<1>4. at \in {0, 1} /\ job \in Jobs BY <1>1, <1>2, ThisByte
<1>5. Fits(out, at) BY <1>2 DEF Shape, Fits
<1>6. /\ job.x \in Word /\ job.y \in Word /\ IsDecimal(job.x) /\ IsDecimal(job.y)
  BY <1>2, <1>4, JobType DEF Summing
<1>7. u \in Byte /\ v \in Byte BY <1>2, <1>4, OperandBytes
<1>8. TwoDigits(u) /\ TwoDigits(v) BY <1>4, <1>6, DigitsBytes
<1>9. Incoming \in Int BY OneType, SMT DEF Incoming
<1>10. Held' = One(c)
  <2>1. f'.c = c /\ job'.chained = job.chained BY <1>1, <1>3
  <2> HIDE DEF c
  <2> QED BY <1>3, <1>4, <2>1, HeldIsC DEF Held
<1>11. PICK k \in {0, 1} : LeftToAdjust(job, Incoming, out, at, a, f, k)
  BY <1>1, <1>2 DEF DecimalInv
<1>12. CASE job.kind = "sum"
  <2>1. /\ DecimalSum(out, at, k, job.x, job.y, Incoming)
        /\ a = (u + v + k) % 256 /\ AfterAdd(f, u, v, u + v + k)
    BY <1>11, <1>12 DEF LeftToAdjust, DecimalSoFar
  <2>2. DigitsUp(r, c, Dig(u) + Dig(v) + k) BY <1>7, <1>8, <2>1, SumAdjusted
  <2>3. DecimalSum(out, at, k, job.x, job.y, Incoming) BY <2>1
  <2> HIDE DEF r, c
  <2>4. DecimalSum(Above(out, at, r), at + 1, One(c), job.x, job.y, Incoming)
    BY <1>4, <1>5, <1>6, <1>9, <2>2, <2>3, DecimalStep
  <2> QED BY <1>3, <1>10, <1>12, <2>4 DEF DecimalSoFar
<1>13. CASE job.kind = "difference"
  <2>1. /\ DecimalDiff(out, at, k, job.x, job.y, Incoming)
        /\ a = W16(u - v - k) % 256 /\ AfterSub(f, u, v, W16(u - v - k))
    BY <1>11, <1>13 DEF LeftToAdjust, DecimalSoFar
  <2>2. DigitsDown(r, c, Dig(u) - Dig(v) - k) BY <1>7, <1>8, <2>1, DifferenceAdjusted
  <2>3. DecimalDiff(out, at, k, job.x, job.y, Incoming) BY <2>1
  <2> HIDE DEF r, c
  <2>4. DecimalDiff(Above(out, at, r), at + 1, One(c), job.x, job.y, Incoming)
    BY <1>4, <1>5, <1>6, <1>9, <2>2, <2>3, DecimalStep
  <2> QED BY <1>3, <1>10, <1>13, <2>4 DEF DecimalSoFar
<1> QED BY <1>2, <1>12, <1>13 DEF Summing

\* Every step keeps the digits so far exact.
LEMMA DecimalNext == ASSUME Shape, DecimalInv, [Next]_vars PROVE DecimalInv'
<1> SUFFICES ASSUME Summing', job'.decimal
             PROVE  /\ due' # "adjust" => DecimalSoFar(job', Incoming', out', at', Held')
                    /\ due' = "adjust" =>
                         \E k \in {0, 1} : LeftToAdjust(job', Incoming', out', at', a', f', k)
  BY DEF DecimalInv
<1>1. job' = job /\ Summing /\ Walking /\ job.decimal BY SummingSteps
<1>2. Incoming' = Incoming BY <1>1 DEF Incoming
<1>3. due # "adjust" => DecimalSoFar(job, Incoming, out, at, Held) BY <1>1 DEF DecimalInv
<1>4. CASE Sum
  <2> DEFINE u == ByteAt(job.x, at)
             v == ByteAt(job.y, at)
             o == AluAdd(u, v, f, at > 0 \/ job.chained)
  <2>1. f' = o.f /\ o.r = (u + v + Held) % 256 /\ AfterAdd(o.f, u, v, u + v + Held)
    BY <1>4, SumFacts
  <2>2. due = "compute" /\ job.kind = "sum" /\ Computed(o) BY <1>4 DEF Sum
  <2>3. a' = o.r /\ due' = "adjust" /\ at' = at /\ out' = out BY <1>1, <2>2 DEF Computed
  <2> HIDE DEF o
  <2>4. DecimalSoFar(job, Incoming, out, at, Held) BY <1>3, <2>2
  <2>5. LeftToAdjust(job, Incoming, out, at, a', f', Held)
    BY <2>1, <2>2, <2>3, <2>4, Zenon DEF LeftToAdjust
  <2>6. Held \in {0, 1} BY CarryInType DEF Held
  <2> QED BY <1>1, <1>2, <2>3, <2>5, <2>6
<1>5. CASE Difference
  <2> DEFINE u == ByteAt(job.x, at)
             v == ByteAt(job.y, at)
             o == AluSub(u, v, f, at > 0 \/ job.chained)
  <2>1. f' = o.f /\ o.r = W16(u - v - Held) % 256 /\ AfterSub(o.f, u, v, W16(u - v - Held))
    BY <1>5, DifferenceFacts
  <2>2. due = "compute" /\ job.kind = "difference" /\ Computed(o) BY <1>5 DEF Difference
  <2>3. a' = o.r /\ due' = "adjust" /\ at' = at /\ out' = out BY <1>1, <2>2 DEF Computed
  <2> HIDE DEF o
  <2>4. DecimalSoFar(job, Incoming, out, at, Held) BY <1>3, <2>2
  <2>5. LeftToAdjust(job, Incoming, out, at, a', f', Held)
    BY <2>1, <2>2, <2>3, <2>4, Zenon DEF LeftToAdjust
  <2>6. Held \in {0, 1} BY CarryInType DEF Held
  <2> QED BY <1>1, <1>2, <2>3, <2>5, <2>6
<1>6. CASE Adjust
  <2>1. DecimalSoFar(job, Incoming, out', at', Held') BY <1>6, AdjustNext
  <2>2. due' # "adjust" BY <1>6 DEF Adjust, Stored
  <2> QED BY <1>1, <1>2, <2>1, <2>2
<1>7. CASE Count
  <2>1. DOMAIN f = Names /\ UNCHANGED <<job, at, out>> BY <1>7 DEF Shape, Count
  <2>2. due # "adjust" /\ due' # "adjust" BY <1>7 DEF Count
  <2>3. f'.c = f.c BY <1>7, <2>1, CountFields DEF Count
  <2>4. Held' = Held BY <2>1, <2>3 DEF Held, CarryIn
  <2> QED BY <1>2, <1>3, <2>1, <2>2, <2>4
<1>8. CASE UNCHANGED vars
  <2>1. UNCHANGED <<job, due, at, out, a, f>> BY <1>8 DEF vars
  <2>2. Held' = Held BY <2>1 DEF Held, CarryIn
  <2> QED BY <1>1, <1>2, <2>1, <2>2 DEF DecimalInv
<1> QED BY <1>4, <1>5, <1>6, <1>7, <1>8, SummingSteps

\* And gives what the run checks.
LEMMA DecimalGives == ASSUME Shape, DecimalInv PROVE DecimalExact
<1> SUFFICES ASSUME Summing, job.decimal, due = "done"
             PROVE  /\ IsDecimal(out)
                    /\ IF job.kind = "sum"
                         THEN Digits(out) + 100 ^ job.n * Outgoing
                                = Digits(job.x) + Digits(job.y) + Incoming
                         ELSE Digits(out) - 100 ^ job.n * Outgoing
                                = Digits(job.x) - Digits(job.y) - Incoming
  BY DEF DecimalExact
<1>1. DecimalSoFar(job, Incoming, out, at, Held) BY DEF DecimalInv
<1>2. at = job.n /\ job \in Jobs BY DEF Shape, Walking, Summing
<1>3. /\ job.n \in {1, 2} /\ job.x \in Word /\ job.y \in Word
      /\ job.n = 1 => job.x \in Byte /\ job.y \in Byte
  BY <1>2, JobType DEF Summing
<1>4. Low(job.x, at) = job.x /\ Low(job.y, at) = job.y
  <2>1. CASE job.n = 1 BY <1>2, <1>3, <2>1, Bytes, OneByte
  <2>2. CASE job.n = 2 BY <1>2, <1>3, <2>2, Bytes
  <2> QED BY <1>3, <2>1, <2>2
<1>5. Held = Outgoing
  <2>1. at > 0 BY <1>2, <1>3, SMT
  <2> QED BY <2>1 DEF Held, CarryIn, Outgoing, One
<1> QED BY <1>1, <1>2, <1>4, <1>5 DEF DecimalSoFar, DecimalSum, DecimalDiff, Summing

\* Decimal sums and differences of any numbers of one byte or two are exact with
\* their carry: alu_daa finds in A, C, H and N what to correct.
THEOREM DecimalExactHolds == Spec => []DecimalExact
<1>1. Init => DecimalInv BY InitDecimal
<1>2. Shape /\ DecimalInv /\ [Next]_vars => DecimalInv' BY DecimalNext
<1>3. Shape /\ DecimalInv => DecimalExact BY DecimalGives
<1> QED BY <1>1, <1>2, <1>3, ShapeHolds, PTL DEF Spec

-----------------------------------------------------------------------------
(* Turns                                                                     *)

\* n2 is n turned to the left in places with top the highest of them.
LeftTurn(n, n2, top) ==
    \E q \in {0, 1}, l \in Int : 0 <= l /\ l < top /\ n = top * q + l /\ n2 = 2 * l + q

\* Each bit of n2 is the one below it of n, in w places.
BitsMove(n, n2, w) == \A j \in 0 .. w - 1 : Has(n2, 2 ^ ((j + 1) % w)) = Has(n, 2 ^ j)

\* The weights of the places.
LEMMA Weights ==
    /\ 2 ^ 0 = 1 /\ 2 ^ 1 = 2 /\ 2 ^ 2 = 4 /\ 2 ^ 3 = 8 /\ 2 ^ 4 = 16
    /\ 2 ^ 5 = 32 /\ 2 ^ 6 = 64 /\ 2 ^ 7 = 128 /\ 2 ^ 8 = 256
BY SMT

\* A bit below the highest goes up one place and the highest becomes the lowest.
LEMMA TurnedBits ==
    ASSUME NEW n, NEW n2, NEW top \in {128, 256}, LeftTurn(n, n2, top)
    PROVE  /\ Has(n2, 2) = Has(n, 1) /\ Has(n2, 4) = Has(n, 2) /\ Has(n2, 8) = Has(n, 4)
           /\ Has(n2, 16) = Has(n, 8) /\ Has(n2, 32) = Has(n, 16) /\ Has(n2, 64) = Has(n, 32)
           /\ Has(n2, 128) = Has(n, 64) /\ Has(n2, 1) = Has(n, top)
           /\ top = 256 => Has(n2, 256) = Has(n, 128)
<1>1. PICK q \in {0, 1}, l \in Int : 0 <= l /\ l < top /\ n = top * q + l /\ n2 = 2 * l + q
  BY DEF LeftTurn
<1>2. n2 \div 2 = l /\ n2 % 2 = q BY <1>1, SMT
<1>3. n = l \/ n = 128 + l \/ n = 256 + l BY <1>1, SMT
<1>4. n2 \div 4 = l \div 2 /\ n2 \div 8 = l \div 4 BY <1>1, SMT
<1>5. n2 \div 16 = l \div 8 /\ n2 \div 32 = l \div 16 BY <1>1, SMT
<1>6. n2 \div 64 = l \div 32 /\ n2 \div 128 = l \div 64 BY <1>1, SMT
<1>7. n2 \div 256 = l \div 128 BY <1>1, SMT
<1>8. Has(n2, 2) = Has(n, 1)
  <2>1. (n \div 1) % 2 = l % 2 BY <1>1, <1>3, SMT
  <2> QED BY <1>2, <2>1 DEF Has
<1>9. Has(n2, 4) = Has(n, 2)
  <2>1. (n \div 2) % 2 = (l \div 2) % 2 BY <1>1, <1>3, SMT
  <2> QED BY <1>4, <2>1 DEF Has
<1>10. Has(n2, 8) = Has(n, 4)
  <2>1. (n \div 4) % 2 = (l \div 4) % 2 BY <1>1, <1>3, SMT
  <2> QED BY <1>4, <2>1 DEF Has
<1>11. Has(n2, 16) = Has(n, 8)
  <2>1. (n \div 8) % 2 = (l \div 8) % 2 BY <1>1, <1>3, SMT
  <2> QED BY <1>5, <2>1 DEF Has
<1>12. Has(n2, 32) = Has(n, 16)
  <2>1. (n \div 16) % 2 = (l \div 16) % 2 BY <1>1, <1>3, SMT
  <2> QED BY <1>5, <2>1 DEF Has
<1>13. Has(n2, 64) = Has(n, 32)
  <2>1. (n \div 32) % 2 = (l \div 32) % 2 BY <1>1, <1>3, SMT
  <2> QED BY <1>6, <2>1 DEF Has
<1>14. Has(n2, 128) = Has(n, 64)
  <2>1. (n \div 64) % 2 = (l \div 64) % 2 BY <1>1, <1>3, SMT
  <2> QED BY <1>6, <2>1 DEF Has
<1>15. Has(n2, 1) = Has(n, top)
  <2>1. (n2 \div 1) % 2 = q BY <1>1, SMT
  <2>2. (n \div top) % 2 = q
    <3>1. CASE top = 128 BY <1>1, <3>1, SMT
    <3>2. CASE top = 256 BY <1>1, <3>2, SMT
    <3> QED BY <3>1, <3>2
  <2> QED BY <2>1, <2>2 DEF Has
<1>16. top = 256 => Has(n2, 256) = Has(n, 128)
  <2> SUFFICES ASSUME top = 256 PROVE Has(n2, 256) = Has(n, 128) OBVIOUS
  <2>1. n = l \/ n = 256 + l BY <1>1, SMT
  <2>2. (n \div 128) % 2 = (l \div 128) % 2 BY <1>1, <2>1, SMT
  <2> QED BY <1>7, <2>2 DEF Has
<1> QED BY <1>8, <1>9, <1>10, <1>11, <1>12, <1>13, <1>14, <1>15, <1>16

\* So a turn moves every bit, in eight places or in nine.
LEMMA TurnMoves ==
    ASSUME NEW n, NEW n2
    PROVE  /\ LeftTurn(n, n2, 128) => BitsMove(n, n2, 8)
           /\ LeftTurn(n, n2, 256) => BitsMove(n, n2, 9)
<1>1. ASSUME NEW top \in {128, 256}, LeftTurn(n, n2, top), NEW j \in 0 .. 6
      PROVE  Has(n2, 2 ^ (j + 1)) = Has(n, 2 ^ j)
  <2> DEFINE m == 2 ^ j
  <2>1. 2 ^ (j + 1) = 2 * m /\ m \in {1, 2, 4, 8, 16, 32, 64}
    <3>1. CASE j = 0
      <4>1. j + 1 = 1 BY <3>1
      <4> QED BY <3>1, <4>1, Weights, SMT
    <3>2. CASE j = 1
      <4>1. j + 1 = 2 BY <3>2
      <4> QED BY <3>2, <4>1, Weights, SMT
    <3>3. CASE j = 2
      <4>1. j + 1 = 3 BY <3>3
      <4> QED BY <3>3, <4>1, Weights, SMT
    <3>4. CASE j = 3
      <4>1. j + 1 = 4 BY <3>4
      <4> QED BY <3>4, <4>1, Weights, SMT
    <3>5. CASE j = 4
      <4>1. j + 1 = 5 BY <3>5
      <4> QED BY <3>5, <4>1, Weights, SMT
    <3>6. CASE j = 5
      <4>1. j + 1 = 6 BY <3>6
      <4> QED BY <3>6, <4>1, Weights, SMT
    <3>7. CASE j = 6
      <4>1. j + 1 = 7 BY <3>7
      <4> QED BY <3>7, <4>1, Weights, SMT
    <3> QED BY <3>1, <3>2, <3>3, <3>4, <3>5, <3>6, <3>7, SMT
  <2> HIDE DEF m
  <2> QED BY <1>1, <2>1, TurnedBits DEF m
<1>2. ASSUME LeftTurn(n, n2, 128), NEW j \in 0 .. 7
      PROVE  Has(n2, 2 ^ ((j + 1) % 8)) = Has(n, 2 ^ j)
  <2>1. CASE j = 7
    <3>1. (j + 1) % 8 = 0 BY <2>1, SMT
    <3>2. Has(n2, 1) = Has(n, 128) BY <1>2, TurnedBits
    <3> QED BY <2>1, <3>1, <3>2, Weights
  <2>2. CASE j # 7
    <3>1. j \in 0 .. 6 /\ (j + 1) % 8 = j + 1 BY <2>2, SMT
    <3> QED BY <1>1, <1>2, <3>1
  <2> QED BY <2>1, <2>2
<1>3. ASSUME LeftTurn(n, n2, 256), NEW j \in 0 .. 8
      PROVE  Has(n2, 2 ^ ((j + 1) % 9)) = Has(n, 2 ^ j)
  <2>1. CASE j = 8
    <3>1. (j + 1) % 9 = 0 BY <2>1, SMT
    <3>2. Has(n2, 1) = Has(n, 256) BY <1>3, TurnedBits
    <3> QED BY <2>1, <3>1, <3>2, Weights
  <2>2. CASE j = 7
    <3>1. (j + 1) % 9 = 8 BY <2>2, SMT
    <3>2. Has(n2, 256) = Has(n, 128) BY <1>3, TurnedBits
    <3> QED BY <2>2, <3>1, <3>2, Weights
  <2>3. CASE j # 7 /\ j # 8
    <3>1. j \in 0 .. 6 /\ (j + 1) % 9 = j + 1 BY <2>3, SMT
    <3> QED BY <1>1, <1>3, <3>1
  <2> QED BY <2>1, <2>2, <2>3
<1>4. 8 - 1 = 7 /\ 9 - 1 = 8 BY SMT
<1> QED BY <1>2, <1>3, <1>4 DEF BitsMove

\* The bits of v among the masks S, and how many they are when one is added.
BitsIn(v, S) == {m \in S : Has(v, m)}

\* One more mask counts its bit.
LEMMA OneMoreBit ==
    ASSUME NEW v, NEW S, IsFiniteSet(S), NEW m, m \notin S
    PROVE  /\ IsFiniteSet(S \cup {m})
           /\ Cardinality(BitsIn(v, S \cup {m})) = Cardinality(BitsIn(v, S)) + One(Has(v, m))
<1>1. IsFiniteSet(S \cup {m}) BY FS_AddElement
<1>2. IsFiniteSet(BitsIn(v, S)) BY FS_Subset DEF BitsIn
<1>3. m \notin BitsIn(v, S) BY DEF BitsIn
<1>4. Cardinality(BitsIn(v, S)) \in Nat BY <1>2, FS_CardinalityType
<1>5. CASE Has(v, m)
  <2>1. BitsIn(v, S \cup {m}) = BitsIn(v, S) \cup {m} BY <1>5 DEF BitsIn
  <2>2. Cardinality(BitsIn(v, S) \cup {m}) = Cardinality(BitsIn(v, S)) + 1
    BY <1>2, <1>3, FS_AddElement
  <2>3. One(Has(v, m)) = 1 BY <1>5 DEF One
  <2> QED BY <1>1, <2>1, <2>2, <2>3
<1>6. CASE ~Has(v, m)
  <2>1. BitsIn(v, S \cup {m}) = BitsIn(v, S) BY <1>6 DEF BitsIn
  <2>2. One(Has(v, m)) = 0 BY <1>6 DEF One
  <2> QED BY <1>1, <1>4, <2>1, <2>2, SMT
<1> QED BY <1>5, <1>6

\* The number of ones in a byte.
Ones(v) ==
    One(Has(v, 1)) + One(Has(v, 2)) + One(Has(v, 4)) + One(Has(v, 8)) + One(Has(v, 16))
      + One(Has(v, 32)) + One(Has(v, 64)) + One(Has(v, 128))

\* P/V is its parity.
LEMMA ParityOfOnes == ASSUME NEW v PROVE Parity(v) = (Ones(v) % 2 = 0)
<1> DEFINE S1 == {1}
           S2 == S1 \cup {2}
           S3 == S2 \cup {4}
           S4 == S3 \cup {8}
           S5 == S4 \cup {16}
           S6 == S5 \cup {32}
           S7 == S6 \cup {64}
           S8 == S7 \cup {128}
           C(S) == Cardinality(BitsIn(v, S))
<1>1. S8 = Masks BY SMT DEF Masks
<1>2. /\ 2 \notin S1 /\ 4 \notin S2 /\ 8 \notin S3 /\ 16 \notin S4 /\ 32 \notin S5
      /\ 64 \notin S6 /\ 128 \notin S7
  BY SMT
<1>3. IsFiniteSet({}) /\ C({}) = 0
  <2>1. BitsIn(v, {}) = {} BY DEF BitsIn
  <2> QED BY <2>1, FS_EmptySet
<1>4. IsFiniteSet(S1) /\ C(S1) = One(Has(v, 1))
  <2>1. {1} = {} \cup {1} /\ 1 \notin {} OBVIOUS
  <2>2. IsFiniteSet({} \cup {1}) /\ C({} \cup {1}) = C({}) + One(Has(v, 1))
    BY <1>3, <2>1, OneMoreBit
  <2>3. One(Has(v, 1)) \in Int BY OneType, SMT
  <2> DEFINE o == One(Has(v, 1))
             c == C({})
  <2>4. c = 0 /\ o \in Int BY <1>3, <2>3
  <2> HIDE DEF o, c
  <2>5. c + o = o BY <2>4, SMT
  <2> QED BY <2>1, <2>2, <2>5 DEF o, c
<1> HIDE DEF S1
<1>5. IsFiniteSet(S2) /\ C(S2) = C(S1) + One(Has(v, 2)) BY <1>2, <1>4, OneMoreBit
<1> HIDE DEF S2
<1>6. IsFiniteSet(S3) /\ C(S3) = C(S2) + One(Has(v, 4)) BY <1>2, <1>5, OneMoreBit
<1> HIDE DEF S3
<1>7. IsFiniteSet(S4) /\ C(S4) = C(S3) + One(Has(v, 8)) BY <1>2, <1>6, OneMoreBit
<1> HIDE DEF S4
<1>8. IsFiniteSet(S5) /\ C(S5) = C(S4) + One(Has(v, 16)) BY <1>2, <1>7, OneMoreBit
<1> HIDE DEF S5
<1>9. IsFiniteSet(S6) /\ C(S6) = C(S5) + One(Has(v, 32)) BY <1>2, <1>8, OneMoreBit
<1> HIDE DEF S6
<1>10. IsFiniteSet(S7) /\ C(S7) = C(S6) + One(Has(v, 64)) BY <1>2, <1>9, OneMoreBit
<1> HIDE DEF S7
<1>11. IsFiniteSet(S8) /\ C(S8) = C(S7) + One(Has(v, 128)) BY <1>2, <1>10, OneMoreBit
<1>12. C(S8) = Ones(v) BY <1>4, <1>5, <1>6, <1>7, <1>8, <1>9, <1>10, <1>11 DEF Ones
<1>13. Parity(v) = (C(Masks) % 2 = 0) BY DEF Parity, BitsIn
<1> QED BY <1>1, <1>12, <1>13

\* A turn in eight places keeps the number of ones and whether there are any.
LEMMA TurnKeeps ==
    ASSUME NEW n, NEW n2, LeftTurn(n, n2, 128)
    PROVE  Parity(n2) = Parity(n) /\ (n2 = 0 <=> n = 0)
<1>1. /\ Has(n2, 2) = Has(n, 1) /\ Has(n2, 4) = Has(n, 2) /\ Has(n2, 8) = Has(n, 4)
      /\ Has(n2, 16) = Has(n, 8) /\ Has(n2, 32) = Has(n, 16) /\ Has(n2, 64) = Has(n, 32)
      /\ Has(n2, 128) = Has(n, 64) /\ Has(n2, 1) = Has(n, 128)
  BY TurnedBits
<1> DEFINE o(v, m) == One(Has(v, m))
<1>2. /\ o(n2, 2) = o(n, 1) /\ o(n2, 4) = o(n, 2) /\ o(n2, 8) = o(n, 4)
      /\ o(n2, 16) = o(n, 8) /\ o(n2, 32) = o(n, 16) /\ o(n2, 64) = o(n, 32)
      /\ o(n2, 128) = o(n, 64) /\ o(n2, 1) = o(n, 128)
  BY <1>1
<1>3. \A v, m : o(v, m) \in {0, 1} BY OneType
<1>4. Ones(n2) = o(n2, 1) + o(n2, 2) + o(n2, 4) + o(n2, 8) + o(n2, 16) + o(n2, 32) + o(n2, 64) + o(n2, 128)
  BY DEF Ones
<1>5. Ones(n) = o(n, 1) + o(n, 2) + o(n, 4) + o(n, 8) + o(n, 16) + o(n, 32) + o(n, 64) + o(n, 128)
  BY DEF Ones
<1> HIDE DEF o
<1>6. \A v, m : o(v, m) \in Int BY <1>3, SMT
<1>7. Ones(n2) = Ones(n) BY <1>2, <1>4, <1>5, <1>6, SMT
<1>8. Parity(n2) = Parity(n) BY <1>7, ParityOfOnes
<1>9. n2 = 0 <=> n = 0 BY SMT DEF LeftTurn
<1> QED BY <1>8, <1>9

\* A turn of a byte by itself, and through C.
LEMMA ByteTurns ==
    ASSUME NEW v \in Byte
    PROVE  /\ LeftTurn(v, Left(v, Has(v, 128)).r, 128)
           /\ LeftTurn(Right(v, Has(v, 1)).r, v, 128)
           /\ \A i : LeftTurn(v + 256 * One(i), Left(v, i).r + 256 * One(Left(v, i).c), 256)
           /\ \A i : LeftTurn(Right(v, i).r + 256 * One(Right(v, i).c), v + 256 * One(i), 256)
<1>0. v \in Int /\ 0 <= v /\ v <= 255 BY Ranges
<1>1. LeftTurn(v, Left(v, Has(v, 128)).r, 128)
  <2> DEFINE r == Left(v, Has(v, 128)).r
             q == One(Has(v, 128))
             l == v - 128 * q
  <2>1. Doubles(r, Left(v, Has(v, 128)).c, v, q) BY LeftExact, Zenon
  <2>2. Left(v, Has(v, 128)).c = Has(v, 128) BY SMT DEF Left
  <2>3. r \in Int /\ r + 256 * q = 2 * v + q BY <2>1, <2>2, Ranges DEF Doubles
  <2>4. q = v \div 128 /\ q \in {0, 1} BY <1>0, SMT DEF One, Has
  <2> HIDE DEF q, r
  <2>5. l \in Int /\ 0 <= l /\ l < 128 /\ v = 128 * q + l /\ r = 2 * l + q
    BY <1>0, <2>3, <2>4, SMT
  <2> QED BY <2>4, <2>5 DEF LeftTurn, r
<1>2. LeftTurn(Right(v, Has(v, 1)).r, v, 128)
  <2> DEFINE r == Right(v, Has(v, 1)).r
             q == One(Has(v, 1))
             l == v \div 2
  <2>1. Halves(r, Right(v, Has(v, 1)).c, v, q) BY RightExact, Zenon
  <2>2. Right(v, Has(v, 1)).c = Has(v, 1) BY SMT DEF Right
  <2>3. r \in Int /\ 2 * r + q = v + 256 * q BY <2>1, <2>2, Ranges DEF Halves
  <2>4. q = v % 2 /\ q \in {0, 1} BY <1>0, SMT DEF One, Has
  <2>5. l \in Int /\ 0 <= l /\ l < 128 /\ v = 2 * l + q BY <1>0, <2>4, SMT
  <2> HIDE DEF q, r, l
  <2>6. r = 128 * q + l BY <2>3, <2>4, <2>5, SMT
  <2> QED BY <2>4, <2>5, <2>6 DEF LeftTurn, r
<1>3. ASSUME NEW i
      PROVE  LeftTurn(v + 256 * One(i), Left(v, i).r + 256 * One(Left(v, i).c), 256)
  <2> DEFINE q == One(i)
             e == Left(v, i).r + 256 * One(Left(v, i).c)
  <2>1. Doubles(Left(v, i).r, Left(v, i).c, v, q) BY LeftExact
  <2>2. e = 2 * v + q BY <2>1 DEF Doubles
  <2>3. q \in {0, 1} BY OneType
  <2> HIDE DEF q, e
  <2>4. v + 256 * q = 256 * q + v /\ v < 256 BY <1>0, <2>3, SMT
  <2>5. LeftTurn(v + 256 * q, e, 256) BY <1>0, <2>2, <2>3, <2>4 DEF LeftTurn
  <2> QED BY <2>5 DEF q, e
<1>4. ASSUME NEW i
      PROVE  LeftTurn(Right(v, i).r + 256 * One(Right(v, i).c), v + 256 * One(i), 256)
  <2> DEFINE q == One(Right(v, i).c)
             r == Right(v, i).r
             e == v + 256 * One(i)
  <2>1. Halves(Right(v, i).r, Right(v, i).c, v, One(i)) BY RightExact
  <2>2. r \in Byte /\ e = 2 * r + q BY <2>1 DEF Halves
  <2>3. q \in {0, 1} BY OneType
  <2> HIDE DEF q, r, e
  <2>4. r + 256 * q = 256 * q + r /\ r \in Int /\ 0 <= r /\ r < 256 BY <2>2, <2>3, Ranges, SMT
  <2>5. LeftTurn(r + 256 * q, e, 256) BY <2>2, <2>3, <2>4 DEF LeftTurn
  <2> QED BY <2>5 DEF q, r, e
<1> QED BY <1>1, <1>2, <1>3, <1>4

\* Bit k of x is i places above in now.
PlacesTurned(x, now, i, w) == \A k \in 0 .. w - 1 : Has(x, 2 ^ k) = Has(now, 2 ^ ((k + i) % w))

\* One turn more, or one less.
LEMMA OneMoreTurn ==
    ASSUME NEW x, NEW n, NEW n2, NEW i \in Int, NEW w \in {8, 9}, PlacesTurned(x, n, i, w)
    PROVE  /\ BitsMove(n, n2, w) => PlacesTurned(x, n2, (i + 1) % w, w)
           /\ BitsMove(n2, n, w) => PlacesTurned(x, n2, (i + -1) % w, w)
<1>1. ASSUME NEW k \in 0 .. w - 1
      PROVE  /\ (k + i) % w \in 0 .. w - 1 /\ (((k + i) % w) + 1) % w = (k + ((i + 1) % w)) % w
             /\ (k + ((i + -1) % w)) % w \in 0 .. w - 1
             /\ (((k + ((i + -1) % w)) % w) + 1) % w = (k + i) % w
  <2>1. CASE w = 8 BY <2>1, SMT
  <2>2. CASE w = 9 BY <2>2, SMT
  <2> QED BY <2>1, <2>2
<1>2. ASSUME BitsMove(n, n2, w), NEW k \in 0 .. w - 1
      PROVE  Has(x, 2 ^ k) = Has(n2, 2 ^ ((k + ((i + 1) % w)) % w))
  <2> DEFINE j == (k + i) % w
  <2>1. j \in 0 .. w - 1 /\ (j + 1) % w = (k + ((i + 1) % w)) % w BY <1>1
  <2>2. Has(x, 2 ^ k) = Has(n, 2 ^ j) BY DEF PlacesTurned
  <2> HIDE DEF j
  <2>3. Has(n2, 2 ^ ((j + 1) % w)) = Has(n, 2 ^ j) BY <1>2, <2>1 DEF BitsMove
  <2> QED BY <2>1, <2>2, <2>3
<1>3. ASSUME BitsMove(n2, n, w), NEW k \in 0 .. w - 1
      PROVE  Has(x, 2 ^ k) = Has(n2, 2 ^ ((k + ((i + -1) % w)) % w))
  <2> DEFINE j == (k + ((i + -1) % w)) % w
  <2>1. j \in 0 .. w - 1 /\ (j + 1) % w = (k + i) % w BY <1>1
  <2>2. Has(x, 2 ^ k) = Has(n, 2 ^ ((k + i) % w)) BY DEF PlacesTurned
  <2> HIDE DEF j
  <2>3. Has(n, 2 ^ ((j + 1) % w)) = Has(n2, 2 ^ j) BY <1>3, <2>1 DEF BitsMove
  <2>4. Has(x, 2 ^ k) = Has(n2, 2 ^ j) BY <2>1, <2>2, <2>3
  <2> QED BY <2>4 DEF j
<1> QED BY <1>2, <1>3 DEF PlacesTurned

\* The numbers of three digits.
Triples == 0 .. 4095

\* A digit, three of them as a number, and two.
Digit(u) == u \in Int /\ 0 <= u /\ u <= 15
Three(u, v, w) == (256 * u + 16 * v) + w
Two(u, v) == 16 * u + v

\* A turn takes the first digit to the end.
LEMMA TurnOfDigits ==
    ASSUME NEW u, Digit(u), NEW v, Digit(v), NEW w, Digit(w)
    PROVE  DigitTurn(Three(u, v, w)) = Three(v, w, u) /\ Three(u, v, w) \in Triples
<1> DEFINE m == (256 * u + 16 * v) + w
<1>1. m \div 256 = u BY SMT DEF Digit
<1>2. 16 * m = 4096 * u + (256 * v + 16 * w) BY SMT DEF Digit
<1>3. (16 * m) % 4096 = 256 * v + 16 * w BY <1>2, SMT DEF Digit
<1>4. DigitTurn(m) = (256 * v + 16 * w) + u BY <1>1, <1>3, SMT DEF DigitTurn, Digit
<1>5. m \in Triples BY SMT DEF Digit, Triples
<1> QED BY <1>4, <1>5 DEF Three

\* Two digits in A and two in the byte hold three that turn.
LEMMA DigitsHeld ==
    ASSUME NEW h, Digit(h), NEW u, Digit(u), NEW v, Digit(v), NEW w, Digit(w)
    PROVE  DigitNumber(Two(h, u), Two(v, w)) = Three(u, v, w) /\ Two(h, u) \div 16 = h
<1>1. (16 * h + u) % 16 = u /\ (16 * h + u) \div 16 = h BY SMT DEF Digit
<1> QED BY <1>1, SMT DEF DigitNumber, Two, Three, Digit

\* A number is its three digits, and a byte its two.
LEMMA DigitsOfNumber ==
    /\ \A n \in Triples : /\ n = Three(n \div 256, (n \div 16) % 16, n % 16)
                          /\ Digit(n \div 256) /\ Digit((n \div 16) % 16) /\ Digit(n % 16)
    /\ \A b \in Byte : b = Two(b \div 16, b % 16) /\ Digit(b \div 16) /\ Digit(b % 16)
<1>1. ASSUME NEW n \in Triples
      PROVE  /\ n = Three(n \div 256, (n \div 16) % 16, n % 16)
             /\ Digit(n \div 256) /\ Digit((n \div 16) % 16) /\ Digit(n % 16)
  BY SMT DEF Triples, Three, Digit
<1>2. ASSUME NEW b \in Byte
      PROVE  b = Two(b \div 16, b % 16) /\ Digit(b \div 16) /\ Digit(b % 16)
  BY SMT DEF Byte, Two, Digit
<1> QED BY <1>1, <1>2

\* Three turns of three digits give them back.
LEMMA ThreeTurns ==
    ASSUME NEW n \in Triples
    PROVE  DigitTurn(n) \in Triples /\ DigitTurn(DigitTurn(DigitTurn(n))) = n
<1> DEFINE u == n \div 256
           v == (n \div 16) % 16
           w == n % 16
<1>1. n = Three(u, v, w) /\ Digit(u) /\ Digit(v) /\ Digit(w) BY DigitsOfNumber
<1> HIDE DEF u, v, w
<1>2. DigitTurn(n) = Three(v, w, u) BY <1>1, TurnOfDigits
<1>3. DigitTurn(DigitTurn(n)) = Three(w, u, v) BY <1>1, <1>2, TurnOfDigits
<1>4. DigitTurn(DigitTurn(DigitTurn(n))) = n BY <1>1, <1>3, TurnOfDigits
<1>5. DigitTurn(n) \in Triples BY <1>1, <1>2, TurnOfDigits
<1> QED BY <1>4, <1>5

\* RLD turns the digits one way and RRD the other, and both keep the high digit of A.
LEMMA RldRrd ==
    ASSUME NEW b \in Byte, NEW m \in Byte, NEW g
    PROVE  LET n  == DigitNumber(b, m)
               lt == Rld(b, m, g)
               rt == Rrd(b, m, g)
           IN  /\ n \in Triples /\ DigitNumber(rt.r, rt.m) \in Triples
               /\ DigitNumber(lt.r, lt.m) = DigitTurn(n) /\ lt.r \div 16 = b \div 16
               /\ DigitTurn(DigitNumber(rt.r, rt.m)) = n /\ rt.r \div 16 = b \div 16
<1> DEFINE bh == b \div 16
           bl == b % 16
           mh == m \div 16
           ml == m % 16
<1>1. /\ Rld(b, m, g).r = 16 * bh + mh /\ Rld(b, m, g).m = 16 * ml + bl
      /\ Rrd(b, m, g).r = 16 * bh + ml /\ Rrd(b, m, g).m = 16 * bl + mh
  BY SMT DEF Rld, Rrd
<1>2. Digit(bh) /\ Digit(bl) /\ Digit(mh) /\ Digit(ml) /\ b = Two(bh, bl) /\ m = Two(mh, ml)
  BY DigitsOfNumber
<1> HIDE DEF bl, mh, ml, bh
<1>3. /\ Rld(b, m, g).r = Two(bh, mh) /\ Rld(b, m, g).m = Two(ml, bl)
      /\ Rrd(b, m, g).r = Two(bh, ml) /\ Rrd(b, m, g).m = Two(bl, mh)
  BY <1>1 DEF Two
<1>4. DigitNumber(b, m) = Three(bl, mh, ml) BY <1>2, DigitsHeld
<1>5. DigitNumber(Rld(b, m, g).r, Rld(b, m, g).m) = Three(mh, ml, bl)
  BY <1>2, <1>3, DigitsHeld
<1>6. DigitNumber(Rrd(b, m, g).r, Rrd(b, m, g).m) = Three(ml, bl, mh)
  BY <1>2, <1>3, DigitsHeld
<1>7. Rld(b, m, g).r \div 16 = bh /\ Rrd(b, m, g).r \div 16 = bh BY <1>2, <1>3, DigitsHeld
<1>8. /\ DigitTurn(Three(bl, mh, ml)) = Three(mh, ml, bl) /\ Three(bl, mh, ml) \in Triples
      /\ DigitTurn(Three(ml, bl, mh)) = Three(bl, mh, ml) /\ Three(ml, bl, mh) \in Triples
  BY <1>2, TurnOfDigits
<1> QED BY <1>4, <1>5, <1>6, <1>7, <1>8 DEF bh

\* What a turn of a byte keeps, by the CB page or by the instructions of A.
LEMMA TurnCases ==
    ASSUME DOMAIN f = Names, NEW name, NEW places, NEW by, Turned(name, places, by)
    PROVE  /\ a' = Rotated(name, a, f).r /\ f'.c = Rotated(name, a, f).c
           /\ job' = job /\ at' = (at + by) % places
           /\ \/ cb' /\ f'.z = (a' = 0) /\ f'.p = Parity(a')
              \/ cb' = cb /\ f'.z = f.z /\ f'.p = f.p
<1>1. job' = job /\ at' = (at + by) % places BY DEF Turned
<1>2. CASE a' = Cb(name, a, f).r /\ f' = Cb(name, a, f).f /\ cb' = TRUE
  <2> DEFINE o == Cb(name, a, f)
             t == Rotated(name, a, f)
  <2>1. o.r = t.r /\ o.f.c = t.c /\ o.f.z = (t.r = 0) /\ o.f.p = Parity(t.r)
    BY RotateFields DEF RotatesTo, SetsZP
  <2>2. a' = o.r /\ f' = o.f BY <1>2
  <2> HIDE DEF o, t
  <2>3. a' = t.r /\ f'.c = t.c BY <2>1, <2>2
  <2>4. f'.z = (a' = 0) /\ f'.p = Parity(a') BY <2>1, <2>2
  <2> QED BY <1>1, <1>2, <2>3, <2>4 DEF t
<1>3. CASE a' = RotateA(name, a, f).r /\ f' = RotateA(name, a, f).f /\ cb' = cb
  BY <1>1, <1>3, RotateFields DEF RotatesTo, KeepsZP
<1> QED BY <1>2, <1>3 DEF Turned

\* The byte b with F in g is the byte x turned i places, in eight or, with C, in
\* nine.  Whether there is a one in it and the parity of the ones are those of x.
EightTurned(x, b, i) ==
    /\ i \in 0 .. 7 /\ PlacesTurned(x, b, i, 8)
    /\ b = 0 <=> x = 0
    /\ Parity(b) = Parity(x)

NineTurned(x, c, b, d, i) ==
    i \in 0 .. 8 /\ PlacesTurned(x + 256 * One(c), b + 256 * One(d), i, 9)

\* Z and P/V tell of x after a CB rotate and are clear before one.
FlagsTell(x, g, set) ==
    /\ set => g.z = (x = 0) /\ g.p = Parity(x)
    /\ ~set => ~g.z /\ ~g.p

\* The digits of b and m are those of b0 and m0 turned i places.
ThreeTurned(b0, m0, b, m, i) ==
    /\ i \in 0 .. 2
    /\ DigitNumber(b, m) = DigitsTurned(DigitNumber(b0, m0), i)
    /\ b \div 16 = b0 \div 16

TurnInv ==
    /\ job.kind = "turn" => EightTurned(job.x, a, at) /\ FlagsTell(job.x, f, cb)
    /\ job.kind = "turn9" => NineTurned(job.x, job.c, a, f.c, at)
    /\ job.kind = "digits" => ThreeTurned(job.a, job.x, a, out, at) /\ f.c = job.c

\* Nothing has been turned at the start.
LEMMA InitTurn == ASSUME Init PROVE TurnInv
<1>1. job \in Jobs /\ at = 0 /\ f = [NoFlags EXCEPT !.c = job.c] /\ cb = FALSE
  BY DEF Init, Jobs
<1>2. f.c = job.c BY <1>1, SMT DEF NoFlags
<1>3. f.z = FALSE BY <1>1, SMT DEF NoFlags
<1>4. f.p = FALSE BY <1>1, SMT DEF NoFlags
<1>5. ASSUME NEW x, NEW w \in {8, 9} PROVE PlacesTurned(x, x, 0, w)
  <2>1. \A k \in 0 .. w - 1 : (k + 0) % w = k
    <3>1. CASE w = 8 BY <3>1, SMT
    <3>2. CASE w = 9 BY <3>2, SMT
    <3> QED BY <3>1, <3>2
  <2> QED BY <2>1 DEF PlacesTurned
<1>6. 0 \in 0 .. 7 /\ 0 \in 0 .. 8 /\ 0 \in 0 .. 2 BY SMT
<1>7. ASSUME job.kind \in {"turn", "turn9"} PROVE a = job.x
  <2>1. job.x \in Byte BY <1>1, <1>7, JobType
  <2>2. a = ByteAt(job.x, 0) BY <1>7 DEF Init
  <2> QED BY <2>1, <2>2, OneByte
<1>8. job.kind = "turn" => EightTurned(job.x, a, at) /\ FlagsTell(job.x, f, cb)
  BY <1>1, <1>3, <1>4, <1>5, <1>6, <1>7 DEF EightTurned, FlagsTell
<1>9. job.kind = "turn9" => NineTurned(job.x, job.c, a, f.c, at)
  BY <1>1, <1>2, <1>5, <1>6, <1>7 DEF NineTurned
<1>10. job.kind = "digits" => ThreeTurned(job.a, job.x, a, out, at) /\ f.c = job.c
  BY <1>1, <1>2, <1>6 DEF Init, ThreeTurned, DigitsTurned
<1> QED BY <1>8, <1>9, <1>10 DEF TurnInv

\* A turn in eight places.
LEMMA TurnStep == ASSUME Shape, TurnInv, Turn PROVE TurnInv'
<1>1. a \in Byte /\ DOMAIN f = Names /\ job.kind = "turn" BY DEF Shape, Turn
<1>2. EightTurned(job.x, a, at) /\ FlagsTell(job.x, f, cb) BY <1>1 DEF TurnInv
<1>3. /\ at \in Int /\ PlacesTurned(job.x, a, at, 8) /\ (a = 0 <=> job.x = 0)
      /\ Parity(a) = Parity(job.x)
  BY <1>2, SMT DEF EightTurned
<1>4. EightTurned(job.x, a', at')
  <2>1. CASE Turned("rlc", 8, 1)
    <3>1. a' = Left(a, Has(a, 128)).r /\ at' = (at + 1) % 8
      <4>1. a' = Rotated("rlc", a, f).r BY <1>1, <2>1, TurnCases
      <4>2. Rotated("rlc", a, f) = Left(a, Has(a, 128)) BY DEF Rotated
      <4>3. at' = (at + 1) % 8 BY <2>1 DEF Turned
      <4> QED BY <4>1, <4>2, <4>3
    <3>2. LeftTurn(a, a', 128) BY <1>1, <3>1, ByteTurns
    <3>3. PlacesTurned(job.x, a', at', 8) BY <1>3, <3>1, <3>2, TurnMoves, OneMoreTurn
    <3>4. at' \in 0 .. 7 BY <1>3, <3>1, SMT
    <3>5. Parity(a') = Parity(a) /\ (a' = 0 <=> a = 0) BY <3>2, TurnKeeps
    <3> QED BY <1>3, <3>3, <3>4, <3>5 DEF EightTurned
  <2>2. CASE Turned("rrc", 8, -1)
    <3>1. a' = Right(a, Has(a, 1)).r /\ at' = (at + -1) % 8
      <4>1. a' = Rotated("rrc", a, f).r BY <1>1, <2>2, TurnCases
      <4>2. Rotated("rrc", a, f) = Right(a, Has(a, 1)) BY DEF Rotated
      <4>3. at' = (at + -1) % 8 BY <2>2 DEF Turned
      <4> QED BY <4>1, <4>2, <4>3
    <3>2. LeftTurn(a', a, 128) BY <1>1, <3>1, ByteTurns
    <3>3. PlacesTurned(job.x, a', at', 8) BY <1>3, <3>1, <3>2, TurnMoves, OneMoreTurn
    <3>4. at' \in 0 .. 7 BY <1>3, <3>1, SMT
    <3>5. Parity(a) = Parity(a') /\ (a = 0 <=> a' = 0) BY <3>2, TurnKeeps
    <3> QED BY <1>3, <3>3, <3>4, <3>5 DEF EightTurned
  <2> QED BY <2>1, <2>2 DEF Turn
<1>5. /\ job' = job
      /\ \/ cb' /\ f'.z = (a' = 0) /\ f'.p = Parity(a')
         \/ cb' = cb /\ f'.z = f.z /\ f'.p = f.p
  BY <1>1, TurnCases DEF Turn
<1>6. (a' = 0) = (job.x = 0) /\ Parity(a') = Parity(job.x) BY <1>4 DEF EightTurned
<1>7. FlagsTell(job.x, f', cb') BY <1>2, <1>5, <1>6 DEF FlagsTell
<1> QED BY <1>1, <1>4, <1>5, <1>7 DEF TurnInv

\* A turn in nine.
LEMMA Turn9Step == ASSUME Shape, TurnInv, Turn9 PROVE TurnInv'
<1>1. a \in Byte /\ DOMAIN f = Names /\ job.kind = "turn9" BY DEF Shape, Turn9
<1> DEFINE x   == job.x + 256 * One(job.c)
           now == a + 256 * One(f.c)
           nxt == a' + 256 * One(f'.c)
<1>2. at \in 0 .. 8 /\ PlacesTurned(x, now, at, 9) BY <1>1 DEF TurnInv, NineTurned
<1>3. at \in Int BY <1>2, SMT
<1>4. job' = job BY DEF Turn9, Turned
<1>5. PlacesTurned(x, nxt, at', 9) /\ at' \in 0 .. 8
  <2>1. CASE Turned("rl", 9, 1)
    <3>1. a' = Left(a, f.c).r /\ f'.c = Left(a, f.c).c /\ at' = (at + 1) % 9
      <4>1. a' = Rotated("rl", a, f).r /\ f'.c = Rotated("rl", a, f).c BY <1>1, <2>1, TurnCases
      <4>2. Rotated("rl", a, f) = Left(a, f.c) BY DEF Rotated
      <4>3. at' = (at + 1) % 9 BY <2>1 DEF Turned
      <4> QED BY <4>1, <4>2, <4>3
    <3>2. LeftTurn(now, nxt, 256) BY <1>1, <3>1, ByteTurns
    <3> HIDE DEF x, now, nxt
    <3>3. PlacesTurned(x, nxt, at', 9) BY <1>2, <1>3, <3>1, <3>2, TurnMoves, OneMoreTurn
    <3>4. at' \in 0 .. 8 BY <1>3, <3>1, SMT
    <3> QED BY <3>3, <3>4
  <2>2. CASE Turned("rr", 9, -1)
    <3>1. a' = Right(a, f.c).r /\ f'.c = Right(a, f.c).c /\ at' = (at + -1) % 9
      <4>1. a' = Rotated("rr", a, f).r /\ f'.c = Rotated("rr", a, f).c BY <1>1, <2>2, TurnCases
      <4>2. Rotated("rr", a, f) = Right(a, f.c) BY DEF Rotated
      <4>3. at' = (at + -1) % 9 BY <2>2 DEF Turned
      <4> QED BY <4>1, <4>2, <4>3
    <3>2. LeftTurn(nxt, now, 256) BY <1>1, <3>1, ByteTurns
    <3> HIDE DEF x, now, nxt
    <3>3. PlacesTurned(x, nxt, at', 9) BY <1>2, <1>3, <3>1, <3>2, TurnMoves, OneMoreTurn
    <3>4. at' \in 0 .. 8 BY <1>3, <3>1, SMT
    <3> QED BY <3>3, <3>4
  <2> QED BY <2>1, <2>2 DEF Turn9
<1> QED BY <1>1, <1>4, <1>5 DEF TurnInv, NineTurned

\* A turn of three digits.
LEMMA DigitsStep == ASSUME Shape, TurnInv, TurnDigits PROVE TurnInv'
<1>1. job.kind = "digits" /\ job' = job BY DEF TurnDigits
<1>2. a \in Byte /\ out \in Byte /\ job \in Jobs BY <1>1 DEF Shape, Walking
<1>3. job.a \in Byte /\ job.x \in Byte BY <1>1, <1>2, JobType
<1> DEFINE n == DigitNumber(job.a, job.x)
           m == DigitNumber(a, out)
           k == DigitNumber(a', out')
<1>4. at \in 0 .. 2 /\ m = DigitsTurned(n, at) /\ a \div 16 = job.a \div 16 /\ f.c = job.c
  BY <1>1 DEF TurnInv, ThreeTurned
<1>5. at = 0 \/ at = 1 \/ at = 2 BY <1>4, SMT
<1>6. n \in Triples BY <1>3, RldRrd
<1>7. DigitTurn(DigitTurn(DigitTurn(n))) = n /\ DigitTurn(n) \in Triples
  BY <1>6, ThreeTurns
<1>8. at' \in 0 .. 2 /\ k = DigitsTurned(n, at') /\ a' \div 16 = a \div 16 /\ f'.c = f.c
  <2>1. CASE /\ a' = Rld(a, out, f).r /\ out' = Rld(a, out, f).m /\ f' = Rld(a, out, f).f
             /\ at' = (at + 1) % 3
    <3>1. k = DigitTurn(m) /\ a' \div 16 = a \div 16 /\ f'.c = f.c
      BY <1>2, <2>1, RldRrd, DigitFlags
    <3> HIDE DEF n, m, k
    <3>2. CASE at = 0
      <4>1. at' = 1 BY <2>1, <3>2, SMT
      <4> QED BY <1>4, <3>1, <3>2, <4>1, SMT DEF DigitsTurned
    <3>3. CASE at = 1
      <4>1. at' = 2 BY <2>1, <3>3, SMT
      <4> QED BY <1>4, <3>1, <3>3, <4>1, SMT DEF DigitsTurned
    <3>4. CASE at = 2
      <4>1. at' = 0 BY <2>1, <3>4, SMT
      <4> QED BY <1>4, <1>7, <3>1, <3>4, <4>1, SMT DEF DigitsTurned
    <3> QED BY <1>5, <3>2, <3>3, <3>4
  <2>2. CASE /\ a' = Rrd(a, out, f).r /\ out' = Rrd(a, out, f).m /\ f' = Rrd(a, out, f).f
             /\ at' = (at - 1) % 3
    <3>1. k \in Triples /\ m = DigitTurn(k) /\ a' \div 16 = a \div 16 /\ f'.c = f.c
      BY <1>2, <2>2, RldRrd, DigitFlags
    <3> HIDE DEF n, m, k
    <3>2. k = DigitTurn(DigitTurn(m)) BY <3>1, ThreeTurns
    <3>3. CASE at = 0
      <4>1. at' = 2
        <5>1. \A i \in Int : i + 1 = 0 => i % 3 = 2 BY SMT
        <5>2. at - 1 \in Int /\ (at - 1) + 1 = 0 BY <3>3, SMT
        <5> QED BY <2>2, <5>1, <5>2
      <4>2. m = n BY <1>4, <3>3, SMT DEF DigitsTurned
      <4>3. k = DigitTurn(DigitTurn(n)) BY <3>2, <4>2
      <4> QED BY <3>1, <4>1, <4>3, SMT DEF DigitsTurned
    <3>4. CASE at = 1
      <4>1. at' = 0 BY <2>2, <3>4, SMT
      <4>2. m = DigitTurn(n) BY <1>4, <3>4, SMT DEF DigitsTurned
      <4>3. k = n BY <1>7, <3>2, <4>2
      <4> QED BY <3>1, <4>1, <4>3, SMT DEF DigitsTurned
    <3>5. CASE at = 2
      <4>1. at' = 1 BY <2>2, <3>5, SMT
      <4>2. m = DigitTurn(DigitTurn(n)) BY <1>4, <3>5, SMT DEF DigitsTurned
      <4>3. k = DigitTurn(n) BY <1>7, <3>2, <4>2
      <4> QED BY <3>1, <4>1, <4>3, SMT DEF DigitsTurned
    <3> QED BY <1>5, <3>3, <3>4, <3>5
  <2> QED BY <2>1, <2>2 DEF TurnDigits
<1> QED BY <1>1, <1>4, <1>8 DEF TurnInv, ThreeTurned

\* Every step keeps the turns.
LEMMA TurnNext == ASSUME Shape, TurnInv, [Next]_vars PROVE TurnInv'
<1>1. CASE Turn BY <1>1, TurnStep
<1>2. CASE Turn9 BY <1>2, Turn9Step
<1>3. CASE TurnDigits BY <1>3, DigitsStep
<1>4. CASE UNCHANGED vars BY <1>4 DEF vars, TurnInv
<1>5. CASE Sum \/ Difference \/ Adjust \/ Count \/ DoubleByte \/ HalveByte
  <2>1. job' = job BY <1>5 DEF Sum, Difference, Adjust, Count, DoubleByte, HalveByte, Computed, Stored
  <2>2. Walking
    <3>1. CASE Sum \/ Difference \/ DoubleByte \/ HalveByte
      BY <3>1 DEF Sum, Difference, DoubleByte, HalveByte, Walking
    <3>2. CASE Adjust \/ Count
      <4>1. due # "compute" BY <3>2 DEF Adjust, Count
      <4> QED BY <4>1 DEF Shape
    <3> QED BY <1>5, <3>1, <3>2
  <2> QED BY <2>1, <2>2 DEF TurnInv, Walking
<1> QED BY <1>1, <1>2, <1>3, <1>4, <1>5 DEF Next, Done

\* Turns of any byte, in any mixture and any number, lose nothing and leave Z and
\* P/V telling of the byte that was turned; three turns of RLD or RRD, or one of
\* each, give the digits back.
THEOREM TurnExactHolds == Spec => []TurnExact
<1>1. Init => TurnInv BY InitTurn
<1>2. Shape /\ TurnInv /\ [Next]_vars => TurnInv' BY TurnNext
<1>3. 8 - 1 = 7 /\ 9 - 1 = 8 BY SMT
<1>4. TurnInv => TurnExact
  <2> SUFFICES ASSUME TurnInv PROVE TurnExact OBVIOUS
  <2>1. EightExact BY <1>3 DEF TurnInv, EightTurned, FlagsTell, PlacesTurned, EightExact
  <2>2. NineExact BY <1>3 DEF TurnInv, NineTurned, PlacesTurned, NineExact
  <2>3. DigitsExact BY DEF TurnInv, ThreeTurned, DigitsExact
  <2> QED BY <2>1, <2>2, <2>3 DEF TurnExact
<1> QED BY <1>1, <1>2, <1>4, ShapeHolds, PTL DEF Spec

-----------------------------------------------------------------------------
(* The short forms                                                           *)

\* What the mask m adds to the byte whose bits are S.
Adds1(S, m) == IF m \in S THEN m ELSE 0

\* A byte by its bits.
LEMMA WeighSum ==
    ASSUME NEW S
    PROVE  /\ Weigh(S) = Adds1(S, 1) + Adds1(S, 2) + Adds1(S, 4) + Adds1(S, 8)
                           + Adds1(S, 16) + Adds1(S, 32) + Adds1(S, 64) + Adds1(S, 128)
           /\ \A m \in Masks : Adds1(S, m) \in Int
<1>1. \A m \in Masks : m \in Int /\ 0 \in Int BY SMT DEF Masks
<1> QED BY <1>1 DEF Weigh, Adds1

\* The eight bits of a number by their values.
LEMMA EightBits ==
    ASSUME NEW b0 \in {0, 1}, NEW b1 \in {0, 1}, NEW b2 \in {0, 1}, NEW b3 \in {0, 1},
           NEW b4 \in {0, 1}, NEW b5 \in {0, 1}, NEW b6 \in {0, 1}, NEW b7 \in {0, 1},
           NEW n, n = b0 + 2 * b1 + 4 * b2 + 8 * b3 + 16 * b4 + 32 * b5 + 64 * b6 + 128 * b7
    PROVE  /\ n \in Byte
           /\ (n \div 1) % 2 = b0 /\ (n \div 2) % 2 = b1
           /\ (n \div 4) % 2 = b2 /\ (n \div 8) % 2 = b3
           /\ (n \div 16) % 2 = b4 /\ (n \div 32) % 2 = b5
           /\ (n \div 64) % 2 = b6 /\ (n \div 128) % 2 = b7
<1>1. n \in Byte BY SMT DEF Byte
<1>2. (n \div 1) % 2 = b0 BY SMT
<1>3. (n \div 2) % 2 = b1 BY SMT
<1>4. (n \div 4) % 2 = b2 BY SMT
<1>5. (n \div 8) % 2 = b3 BY SMT
<1>6. (n \div 16) % 2 = b4 BY SMT
<1>7. (n \div 32) % 2 = b5 BY SMT
<1>8. (n \div 64) % 2 = b6 BY SMT
<1>9. (n \div 128) % 2 = b7 BY SMT
<1> QED BY <1>1, <1>2, <1>3, <1>4, <1>5, <1>6, <1>7, <1>8, <1>9

\* The bits of a byte built from S are S.
LEMMA WeighBits ==
    ASSUME NEW S
    PROVE  Weigh(S) \in Byte /\ \A m \in Masks : Has(Weigh(S), m) = (m \in S)
<1> DEFINE o(m) == One(m \in S)
           n == Weigh(S)
<1>1. /\ o(1) \in {0, 1} /\ o(2) \in {0, 1} /\ o(4) \in {0, 1} /\ o(8) \in {0, 1}
      /\ o(16) \in {0, 1} /\ o(32) \in {0, 1} /\ o(64) \in {0, 1} /\ o(128) \in {0, 1}
  BY OneType
<1>2. n = o(1) + 2 * o(2) + 4 * o(4) + 8 * o(8) + 16 * o(16) + 32 * o(32) + 64 * o(64) + 128 * o(128)
  <2>1. /\ Adds1(S, 1) = o(1) /\ Adds1(S, 2) = 2 * o(2) /\ Adds1(S, 4) = 4 * o(4)
        /\ Adds1(S, 8) = 8 * o(8) /\ Adds1(S, 16) = 16 * o(16) /\ Adds1(S, 32) = 32 * o(32)
        /\ Adds1(S, 64) = 64 * o(64) /\ Adds1(S, 128) = 128 * o(128)
    BY SMT DEF Adds1, One
  <2> QED BY <2>1, WeighSum
<1> HIDE DEF n
<1>3. n \in Byte BY <1>1, <1>2, EightBits, SMT
<1>4. (n \div 1) % 2 = o(1) BY <1>1, <1>2, EightBits, SMT
<1>5. (n \div 2) % 2 = o(2) BY <1>1, <1>2, EightBits, SMT
<1>6. (n \div 4) % 2 = o(4) BY <1>1, <1>2, EightBits, SMT
<1>7. (n \div 8) % 2 = o(8) BY <1>1, <1>2, EightBits, SMT
<1>8. (n \div 16) % 2 = o(16) BY <1>1, <1>2, EightBits, SMT
<1>9. (n \div 32) % 2 = o(32) BY <1>1, <1>2, EightBits, SMT
<1>10. (n \div 64) % 2 = o(64) BY <1>1, <1>2, EightBits, SMT
<1>11. (n \div 128) % 2 = o(128) BY <1>1, <1>2, EightBits, SMT
<1>12. \A m : (o(m) = 1) = (m \in S) BY DEF One
<1> HIDE DEF o
<1>13. \A m \in Masks : (n \div m) % 2 = o(m)
  BY <1>4, <1>5, <1>6, <1>7, <1>8, <1>9, <1>10, <1>11, SMT DEF Masks
<1>14. \A m \in Masks : Has(n, m) = (m \in S) BY <1>12, <1>13 DEF Has
<1> QED BY <1>3, <1>14 DEF n

\* A byte is built from its bits.
LEMMA BitsBack == ASSUME NEW v \in Byte PROVE Weigh(BitsIn(v, Masks)) = v
<1> DEFINE w(m) == Adds1(BitsIn(v, Masks), m)
<1>1. \A m \in Masks : w(m) = IF (v \div m) % 2 = 1 THEN m ELSE 0
  BY DEF Adds1, BitsIn, Has
<1>2. Weigh(BitsIn(v, Masks)) = w(1) + w(2) + w(4) + w(8) + w(16) + w(32) + w(64) + w(128)
  BY WeighSum
<1> HIDE DEF w
<1>3. v \in Int /\ 0 <= v /\ v <= 255 BY Ranges
<1>4. w(1) = v % 2 /\ w(2) = 2 * ((v \div 2) % 2) BY <1>1, <1>3, SMT DEF Masks
<1>5. w(4) = 4 * ((v \div 4) % 2) /\ w(8) = 8 * ((v \div 8) % 2) BY <1>1, <1>3, SMT DEF Masks
<1>6. w(16) = 16 * ((v \div 16) % 2) /\ w(32) = 32 * ((v \div 32) % 2)
  BY <1>1, <1>3, SMT DEF Masks
<1>7. w(64) = 64 * ((v \div 64) % 2) /\ w(128) = 128 * ((v \div 128) % 2)
  BY <1>1, <1>3, SMT DEF Masks
<1>8. v = 2 * (v \div 2) + (v % 2) /\ v \div 2 = 2 * (v \div 4) + ((v \div 2) % 2)
  BY <1>3, SMT
<1>9. /\ v \div 4 = 2 * (v \div 8) + ((v \div 4) % 2)
      /\ v \div 8 = 2 * (v \div 16) + ((v \div 8) % 2)
  BY <1>3, SMT
<1>10. /\ v \div 16 = 2 * (v \div 32) + ((v \div 16) % 2)
       /\ v \div 32 = 2 * (v \div 64) + ((v \div 32) % 2)
  BY <1>3, SMT
<1>11. v \div 64 = 2 * (v \div 128) + ((v \div 64) % 2) /\ v \div 128 = (v \div 128) % 2
  BY <1>3, SMT
<1>12. \A d \in {1, 2, 4, 8, 16, 32, 64, 128} : v \div d \in Int /\ (v \div d) % 2 \in Int
  BY <1>3, SMT
<1> DEFINE d(m) == v \div m
           e(m) == d(m) % 2
<1>13. /\ v = 2 * d(2) + (v % 2) /\ d(2) = 2 * d(4) + e(2) /\ d(4) = 2 * d(8) + e(4)
       /\ d(8) = 2 * d(16) + e(8) /\ d(16) = 2 * d(32) + e(16) /\ d(32) = 2 * d(64) + e(32)
       /\ d(64) = 2 * d(128) + e(64) /\ d(128) = e(128)
  BY <1>8, <1>9, <1>10, <1>11
<1>14. /\ w(1) = v % 2 /\ w(2) = 2 * e(2) /\ w(4) = 4 * e(4) /\ w(8) = 8 * e(8)
       /\ w(16) = 16 * e(16) /\ w(32) = 32 * e(32) /\ w(64) = 64 * e(64)
       /\ w(128) = 128 * e(128)
  BY <1>4, <1>5, <1>6, <1>7
<1>15. \A m \in {1, 2, 4, 8, 16, 32, 64, 128} : d(m) \in Int /\ e(m) \in Int BY <1>12
<1>16. v % 2 \in Int BY <1>3, SMT
<1> HIDE DEF d, e
<1>17. w(1) + w(2) + w(4) + w(8) + w(16) + w(32) + w(64) + w(128) = v
  BY <1>3, <1>13, <1>14, <1>15, <1>16, SMT
<1> QED BY <1>2, <1>17

\* Built apart and together, two sets of bits are the same sum.
LEMMA WeighTwo ==
    ASSUME NEW S, NEW T
    PROVE  Weigh(S) + Weigh(T) = Weigh(S \cup T) + Weigh(S \cap T)
<1>1. ASSUME NEW m \in Masks
      PROVE  Adds1(S, m) + Adds1(T, m) = Adds1(S \cup T, m) + Adds1(S \cap T, m)
  <2>1. m \in Int BY SMT DEF Masks
  <2>2. CASE m \in S /\ m \in T BY <2>1, <2>2 DEF Adds1
  <2>3. CASE m \in S /\ m \notin T BY <2>1, <2>3 DEF Adds1
  <2>4. CASE m \notin S /\ m \in T
    <3>1. 0 + m = m + 0 BY <2>1, SMT
    <3> QED BY <2>4, <3>1 DEF Adds1
  <2>5. CASE m \notin S /\ m \notin T BY <2>5 DEF Adds1
  <2> QED BY <2>2, <2>3, <2>4, <2>5
<1>2. /\ 1 \in Masks /\ 2 \in Masks /\ 4 \in Masks /\ 8 \in Masks
      /\ 16 \in Masks /\ 32 \in Masks /\ 64 \in Masks /\ 128 \in Masks
  BY SMT DEF Masks
<1> DEFINE U == S \cup T
           V == S \cap T
<1> HIDE DEF U, V
<1>3. \A m \in Masks : /\ Adds1(S, m) \in Int /\ Adds1(T, m) \in Int
                       /\ Adds1(U, m) \in Int /\ Adds1(V, m) \in Int
  BY WeighSum
<1>4. \A m \in Masks : Adds1(S, m) + Adds1(T, m) = Adds1(U, m) + Adds1(V, m) BY <1>1 DEF U, V
<1> DEFINE s(m) == Adds1(S, m)
           t(m) == Adds1(T, m)
           u(m) == Adds1(U, m)
           v(m) == Adds1(V, m)
           total(e(_)) == e(1) + e(2) + e(4) + e(8) + e(16) + e(32) + e(64) + e(128)
<1>5. /\ Weigh(S) = total(s) /\ Weigh(T) = total(t)
      /\ Weigh(U) = total(u) /\ Weigh(V) = total(v)
  BY WeighSum
<1>6. \A m \in Masks : s(m) \in Int /\ t(m) \in Int /\ u(m) \in Int /\ v(m) \in Int BY <1>3
<1>7. \A m \in Masks : s(m) + t(m) = u(m) + v(m) BY <1>4
<1> HIDE DEF s, t, u, v
<1>8. /\ s(1) + t(1) = u(1) + v(1) /\ s(2) + t(2) = u(2) + v(2)
      /\ s(4) + t(4) = u(4) + v(4) /\ s(8) + t(8) = u(8) + v(8)
      /\ s(16) + t(16) = u(16) + v(16) /\ s(32) + t(32) = u(32) + v(32)
      /\ s(64) + t(64) = u(64) + v(64) /\ s(128) + t(128) = u(128) + v(128)
  BY <1>2, <1>7
<1>9. /\ s(1) \in Int /\ s(2) \in Int /\ s(4) \in Int /\ s(8) \in Int
      /\ s(16) \in Int /\ s(32) \in Int /\ s(64) \in Int /\ s(128) \in Int
      /\ t(1) \in Int /\ t(2) \in Int /\ t(4) \in Int /\ t(8) \in Int
      /\ t(16) \in Int /\ t(32) \in Int /\ t(64) \in Int /\ t(128) \in Int
      /\ u(1) \in Int /\ u(2) \in Int /\ u(4) \in Int /\ u(8) \in Int
      /\ u(16) \in Int /\ u(32) \in Int /\ u(64) \in Int /\ u(128) \in Int
      /\ v(1) \in Int /\ v(2) \in Int /\ v(4) \in Int /\ v(8) \in Int
      /\ v(16) \in Int /\ v(32) \in Int /\ v(64) \in Int /\ v(128) \in Int
  BY <1>2, <1>6
<1>10. total(s) + total(t) = total(u) + total(v) BY ONLY <1>8, <1>9, SMT
<1> QED BY <1>5, <1>10 DEF U, V

\* AND, OR and XOR on the bits of two bytes.
LEMMA BitsOf ==
    ASSUME NEW u, NEW v
    PROVE  /\ And8(u, v) = Weigh(BitsIn(u, Masks) \cap BitsIn(v, Masks))
           /\ Or8(u, v) = Weigh(BitsIn(u, Masks) \cup BitsIn(v, Masks))
           /\ Xor8(u, v) = Weigh((BitsIn(u, Masks) \cup BitsIn(v, Masks))
                                   \ (BitsIn(u, Masks) \cap BitsIn(v, Masks)))
<1> DEFINE U == BitsIn(u, Masks)
           V == BitsIn(v, Masks)
<1>1. {m \in Masks : Has(u, m) /\ Has(v, m)} = U \cap V BY DEF BitsIn
<1>2. {m \in Masks : Has(u, m) \/ Has(v, m)} = U \cup V BY DEF BitsIn
<1>3. {m \in Masks : Has(u, m) # Has(v, m)} = (U \cup V) \ (U \cap V)
  <2>1. \A m : Has(u, m) \in BOOLEAN /\ Has(v, m) \in BOOLEAN BY DEF Has
  <2>2. \A m : (Has(u, m) # Has(v, m)) <=> (Has(u, m) \/ Has(v, m)) /\ ~(Has(u, m) /\ Has(v, m))
    BY <2>1
  <2> QED BY <2>2 DEF BitsIn
<1> QED BY <1>1, <1>2, <1>3 DEF And8, Or8, Xor8

\* AND and OR make up the sum of two bytes, and XOR is their difference.
LEMMA AndOrXor ==
    ASSUME NEW x \in Byte, NEW y \in Byte
    PROVE  And8(x, y) + Or8(x, y) = x + y /\ Or8(x, y) - And8(x, y) = Xor8(x, y)
<1> DEFINE X == BitsIn(x, Masks)
           Y == BitsIn(y, Masks)
           A == X \cap Y
           O == X \cup Y
           D == O \ A
<1>1. Weigh(X) = x /\ Weigh(Y) = y BY BitsBack
<1>2. And8(x, y) = Weigh(A) /\ Or8(x, y) = Weigh(O) /\ Xor8(x, y) = Weigh(D) BY BitsOf
<1>3. Weigh(X) + Weigh(Y) = Weigh(O) + Weigh(A) BY WeighTwo
<1>4. Weigh(A) + Weigh(D) = Weigh(O) + Weigh({})
  <2>1. A \cup D = O /\ A \cap D = {} OBVIOUS
  <2> QED BY <2>1, WeighTwo
<1>5. Weigh({}) = 0 BY SMT DEF Weigh
<1>6. Weigh(A) \in Int /\ Weigh(O) \in Int /\ Weigh(D) \in Int BY WeighBits, Ranges
<1> HIDE DEF X, Y, A, O, D
<1>7. Weigh(A) + Weigh(O) = x + y BY <1>1, <1>3, <1>6, SMT
<1>8. Weigh(O) - Weigh(A) = Weigh(D) BY <1>4, <1>5, <1>6, SMT
<1> QED BY <1>2, <1>7, <1>8

\* A mask has one bit.
LEMMA MaskBits ==
    ASSUME NEW m \in Masks
    PROVE  m \in Byte /\ BitsIn(m, Masks) = {m} /\ Weigh({m}) = m
<1>1. m \in Byte BY SMT DEF Masks, Byte
<1>2. \A k \in Masks : (m \div k) % 2 = 1 <=> k = m
  <2>1. CASE m \in {1, 2} BY <2>1, SMT DEF Masks
  <2>2. CASE m \in {4, 8} BY <2>2, SMT DEF Masks
  <2>3. CASE m \in {16, 32} BY <2>3, SMT DEF Masks
  <2>4. CASE m \in {64, 128} BY <2>4, SMT DEF Masks
  <2> QED BY <2>1, <2>2, <2>3, <2>4, SMT DEF Masks
<1>3. BitsIn(m, Masks) = {m} BY <1>2 DEF BitsIn, Has
<1>4. Weigh({m}) = m BY <1>1, <1>3, BitsBack
<1> QED BY <1>1, <1>3, <1>4

\* Its complement has the others.
LEMMA OtherBits == ASSUME NEW m \in Masks, NEW o, o = 255 - m PROVE BitsIn(o, Masks) = Masks \ {m}
<1>1. \A k \in Masks : (o \div k) % 2 = 1 <=> k # m
  <2>1. CASE m \in {1, 2} BY <2>1, SMT DEF Masks
  <2>2. CASE m \in {4, 8} BY <2>2, SMT DEF Masks
  <2>3. CASE m \in {16, 32} BY <2>3, SMT DEF Masks
  <2>4. CASE m \in {64, 128} BY <2>4, SMT DEF Masks
  <2> QED BY <2>1, <2>2, <2>3, <2>4, SMT DEF Masks
<1> QED BY <1>1 DEF BitsIn, Has

\* RES and SET of the same bit undo each other and differ by it.
LEMMA ResSet ==
    ASSUME NEW m \in Masks, NEW x \in Byte
    PROVE  /\ Res(m, Set(m, x)) = Res(m, x) /\ Set(m, Res(m, x)) = Set(m, x)
           /\ Set(m, x) - Res(m, x) = m
<1> DEFINE X == BitsIn(x, Masks)
           I == {m}
           S == X \cup I
           R == X \cap (Masks \ I)
<1>1. \A v : Set(m, v) = Weigh(BitsIn(v, Masks) \cup I) 
  <2>1. BitsIn(m, Masks) = I BY MaskBits
  <2>2. ASSUME NEW v PROVE Or8(v, m) = Weigh(BitsIn(v, Masks) \cup BitsIn(m, Masks)) BY BitsOf
  <2>3. \A v : Or8(v, m) = Weigh(BitsIn(v, Masks) \cup I) BY <2>1, <2>2
  <2> QED BY <2>3 DEF Set
<1>2. \A v : Res(m, v) = Weigh(BitsIn(v, Masks) \cap (Masks \ I)) 
  <2> DEFINE o == 255 - m
  <2>1. BitsIn(o, Masks) = Masks \ I BY OtherBits
  <2>2. \A v : Res(m, v) = And8(v, o) BY DEF Res
  <2> HIDE DEF o
  <2>3. ASSUME NEW v PROVE And8(v, o) = Weigh(BitsIn(v, Masks) \cap BitsIn(o, Masks)) BY BitsOf
  <2>4. \A v : And8(v, o) = Weigh(BitsIn(v, Masks) \cap (Masks \ I)) BY <2>1, <2>3
  <2> QED BY <2>2, <2>4
<1>3. ASSUME NEW T, T \subseteq Masks PROVE BitsIn(Weigh(T), Masks) = T
  BY <1>3, WeighBits DEF BitsIn
<1>4. X \subseteq Masks BY DEF BitsIn
<1>5. Set(m, x) = Weigh(S) /\ Res(m, x) = Weigh(R) BY <1>1, <1>2
<1>6. BitsIn(Weigh(S), Masks) = S /\ BitsIn(Weigh(R), Masks) = R
  <2>1. S \subseteq Masks /\ R \subseteq Masks BY <1>4
  <2> QED BY <1>3, <2>1
<1>7. S \cap (Masks \ I) = R /\ R \cup I = S BY <1>4
<1>8. Res(m, Weigh(S)) = Weigh(R) BY <1>2, <1>6, <1>7
<1>9. Set(m, Weigh(R)) = Weigh(S) BY <1>1, <1>6, <1>7
<1>10. Weigh(R) + Weigh(I) = Weigh(S) + Weigh({})
  <2>1. R \cup I = S /\ R \cap I = {} BY <1>4
  <2> QED BY <2>1, WeighTwo
<1>11. Weigh({}) = 0 BY SMT DEF Weigh
<1>12. Weigh(I) = m /\ Weigh(R) \in Int /\ Weigh(S) \in Int /\ m \in Int
  BY MaskBits, WeighBits, Ranges
<1> HIDE DEF S, R, I
<1>13. Weigh(S) - Weigh(R) = m BY <1>10, <1>11, <1>12, SMT
<1> QED BY <1>5, <1>8, <1>9, <1>13

\* AND with a mask leaves the bit or nothing, and tells of it in Z and P/V.
LEMMA AndMask ==
    ASSUME NEW m \in Masks, NEW x \in Byte, NEW r, r = And8(x, m)
    PROVE  /\ (r = 0) = ~Has(x, m) /\ Parity(r) = ~Has(x, m)
           /\ Has(r, 128) = (m = 128 /\ Has(x, m))
<1>1. r = Weigh(BitsIn(x, Masks) \cap {m})
  <2>1. BitsIn(m, Masks) = {m} BY MaskBits
  <2>2. And8(x, m) = Weigh(BitsIn(x, Masks) \cap BitsIn(m, Masks)) BY BitsOf
  <2> QED BY <2>1, <2>2
<1>2. 128 \in Masks BY SMT DEF Masks
<1>3. 0 % 2 = 0 /\ ~(1 % 2 = 0) BY SMT
<1>4. CASE Has(x, m)
  <2>1. BitsIn(x, Masks) \cap {m} = {m} BY <1>4 DEF BitsIn
  <2>2. r = m BY <1>1, <2>1, MaskBits
  <2>3. r # 0 BY <2>2, SMT DEF Masks
  <2>4. ~Parity(r)
    <3>1. {k \in Masks : Has(r, k)} = {m} BY <2>2, MaskBits DEF BitsIn
    <3>2. Cardinality({m}) = 1 BY FS_Singleton
    <3> QED BY <1>3, <3>1, <3>2 DEF Parity
  <2>5. Has(r, 128) <=> m = 128
    <3> DEFINE k == 128
    <3>1. k \in Masks BY <1>2
    <3> HIDE DEF k
    <3>2. Has(r, k) <=> k \in BitsIn(m, Masks) BY <2>2, <3>1 DEF BitsIn
    <3>3. Has(r, k) <=> m = k BY <3>2, MaskBits
    <3> QED BY <3>3 DEF k
  <2>6. Has(r, 128) \in BOOLEAN /\ Parity(r) \in BOOLEAN /\ Has(x, m) \in BOOLEAN
    BY DEF Has, Parity
  <2> QED BY <1>4, <2>3, <2>4, <2>5, <2>6
<1>5. CASE ~Has(x, m)
  <2>1. BitsIn(x, Masks) \cap {m} = {} BY <1>5 DEF BitsIn
  <2>2. r = Weigh({}) BY <1>1, <2>1
  <2>3. Weigh({}) = 0 BY SMT DEF Weigh
  <2>4. \A k \in Masks : ~Has(r, k) BY <2>2, WeighBits
  <2>5. Parity(r)
    <3>1. {k \in Masks : Has(r, k)} = {} BY <2>4
    <3>2. Cardinality({}) = 0 BY FS_EmptySet
    <3> QED BY <1>3, <3>1, <3>2 DEF Parity
  <2>6. ~Has(r, 128) BY <1>2, <2>4
  <2>7. Has(r, 128) \in BOOLEAN /\ Parity(r) \in BOOLEAN /\ Has(x, m) \in BOOLEAN
    BY DEF Has, Parity
  <2> QED BY <1>5, <2>2, <2>3, <2>5, <2>6, <2>7
<1> QED BY <1>4, <1>5

\* AND with the bit, but with C as it was and bits 5 and 3 of v.
AndWith(m, x, v, c) == [AluAnd(x, m).f EXCEPT !.c = c, !.y = Has(v, 32), !.x = Has(v, 8)]

\* That is BIT.
LEMMA BitIsAnd ==
    ASSUME NEW m \in Masks, NEW x \in Byte, NEW v, NEW g
    PROVE  Bit(m, x, v, g) = AndWith(m, x, v, g.c)
<1> DEFINE r  == And8(x, m)
           ab == ~Has(x, m)
           sb == (m = 128 /\ Has(x, m))
           p  == Parity(r)
           yb == Has(v, 32)
           xb == Has(v, 8)
           g0 == Sz53(r)
           o  == Bit(m, x, v, g)
           q1 == [[[g0 EXCEPT !.p = p] EXCEPT !.h = TRUE] EXCEPT !.c = g.c, !.y = yb]
           q  == [q1 EXCEPT !.x = xb]
           o1 == [NoFlags EXCEPT !.c = g.c, !.h = TRUE, !.z = ab, !.p = ab, !.s = sb, !.y = yb]
<1>1. o = [o1 EXCEPT !.x = xb] BY SMT DEF Bit
<1>2. AndWith(m, x, v, g.c) = q
  <2>1. AluAnd(x, m).f = [[g0 EXCEPT !.p = p] EXCEPT !.h = TRUE] BY SMT DEF AluAnd, Sz53p
  <2> HIDE DEF g0, p, yb, xb
  <2>2. [AluAnd(x, m).f EXCEPT !.c = g.c, !.y = yb, !.x = xb] = q BY <2>1, SMT
  <2> QED BY <2>2 DEF yb, xb, AndWith
<1>3. (r = 0) = ab /\ p = ab /\ Has(r, 128) = sb BY AndMask
<1>4. OfValue(g0, r) BY Sz53Fields
<1>5. g0.s = sb /\ g0.z = ab /\ g0.n = FALSE /\ DOMAIN g0 = Names BY <1>3, <1>4 DEF OfValue
<1>6. p = ab BY <1>3
<1> HIDE DEF g0, p, yb, xb, ab, sb, o, r
<1>7. DOMAIN q1 = Names BY <1>5, SMT
<1>8. DOMAIN o1 = Names BY SMT DEF NoFlags, Names
<1>9. IsFlags(o) /\ IsFlags(q)
  <2> HIDE DEF q1, o1
  <2> QED BY <1>1, <1>7, <1>8, Written
<1>10. q.s = sb BY <1>5, SMT DEF Names
<1>11. q.z = ab BY <1>5, SMT DEF Names
<1>12. q.y = yb BY <1>5, SMT DEF Names
<1>13. q.h = TRUE BY <1>5, SMT DEF Names
<1>14. q.x = xb BY <1>5, SMT DEF Names
<1>15. q.p = ab BY <1>5, <1>6, SMT DEF Names
<1>16. q.n = FALSE BY <1>5, SMT DEF Names
<1>17. q.c = g.c BY <1>5, SMT DEF Names
<1>18. o.s = sb BY <1>1, SMT DEF NoFlags
<1>19. o.z = ab BY <1>1, SMT DEF NoFlags
<1>20. o.y = yb BY <1>1, SMT DEF NoFlags
<1>21. o.h = TRUE BY <1>1, SMT DEF NoFlags
<1>22. o.x = xb BY <1>1, SMT DEF NoFlags
<1>23. o.p = ab BY <1>1, SMT DEF NoFlags
<1>24. o.n = FALSE BY <1>1, SMT DEF NoFlags
<1>25. o.c = g.c BY <1>1, SMT DEF NoFlags
<1> HIDE DEF q
<1>26. o = q
  BY <1>9, <1>10, <1>11, <1>12, <1>13, <1>14, <1>15, <1>16, <1>17, <1>18, <1>19, <1>20, <1>21,
     <1>22, <1>23, <1>24, <1>25, SameFlags
<1> QED BY <1>2, <1>26 DEF o

\* CP is SUB but for bits 5 and 3.
LEMMA CpIsSub ==
    ASSUME NEW x, NEW y, NEW g, AfterSub(g, x, y, W16(x - y))
    PROVE  [g EXCEPT !.y = Has(y, 32), !.x = Has(y, 8)] = AluCp(x, y)
<1> DEFINE d    == W16(x - y)
           r    == d % 256
           g0   == Sz53(r)
           yb   == Has(y, 32)
           xb   == Has(y, 8)
           cb1  == Has(d, 256)
           hb   == Odd(x, y, d, 16)
           over == Has(x, 128) # Has(y, 128) /\ Has(x, 128) # Has(d, 128)
           sb   == Has(r, 128)
           zb   == r = 0
           o    == AluCp(x, y)
           o1   == [[g0 EXCEPT !.y = yb, !.x = xb] EXCEPT !.n = TRUE, !.c = cb1, !.h = hb]
           q1   == [g EXCEPT !.y = yb]
           q    == [q1 EXCEPT !.x = xb]
<1>1. o = [o1 EXCEPT !.p = over] BY SMT DEF AluCp, Borrows
<1>2. /\ DOMAIN g = Names
      /\ g.c = cb1 /\ g.h = hb /\ g.p = over /\ g.s = sb /\ g.z = zb /\ g.n = TRUE
  BY DEF AfterSub, IsFlags
<1>3. [g EXCEPT !.y = yb, !.x = xb] = q
  <2> HIDE DEF yb, xb
  <2> QED BY SMT
<1>4. OfValue(g0, r) BY Sz53Fields
<1>5. g0.s = sb /\ g0.z = zb /\ DOMAIN g0 = Names BY <1>4 DEF OfValue
<1> HIDE DEF g0, yb, xb, cb1, hb, over, sb, zb, r, d, o
<1>6. DOMAIN o1 = Names BY <1>5, SMT
<1>7. DOMAIN q1 = Names BY <1>2, SMT
<1>8. IsFlags(o) /\ IsFlags(q)
  <2> HIDE DEF o1, q1
  <2> QED BY <1>1, <1>6, <1>7, Written
<1>9. o.s = sb BY <1>1, <1>5, SMT DEF Names
<1>10. o.z = zb BY <1>1, <1>5, SMT DEF Names
<1>11. o.y = yb BY <1>1, <1>5, SMT DEF Names
<1>12. o.h = hb BY <1>1, <1>5, SMT DEF Names
<1>13. o.x = xb BY <1>1, <1>5, SMT DEF Names
<1>14. o.p = over BY <1>1, <1>5, SMT DEF Names
<1>15. o.n = TRUE BY <1>1, <1>5, SMT DEF Names
<1>16. o.c = cb1 BY <1>1, <1>5, SMT DEF Names
<1>17. q.s = sb BY <1>2, SMT DEF Names
<1>18. q.z = zb BY <1>2, SMT DEF Names
<1>19. q.y = yb BY <1>2, SMT DEF Names
<1>20. q.h = hb BY <1>2, SMT DEF Names
<1>21. q.x = xb BY <1>2, SMT DEF Names
<1>22. q.p = over BY <1>2, SMT DEF Names
<1>23. q.n = TRUE BY <1>2, SMT DEF Names
<1>24. q.c = cb1 BY <1>2, SMT DEF Names
<1> HIDE DEF q
<1>25. q = o
  BY <1>8, <1>9, <1>10, <1>11, <1>12, <1>13, <1>14, <1>15, <1>16, <1>17, <1>18, <1>19, <1>20,
     <1>21, <1>22, <1>23, <1>24, SameFlags
<1> QED BY <1>3, <1>25 DEF o, yb, xb

\* Without the carry nothing comes in.
LEMMA NoCarryIn == ASSUME NEW g PROVE CarryIn(g, FALSE) = 0
BY DEF CarryIn

\* Bit tricks with a bit e that is clear.
LEMMA WithoutBit ==
    ASSUME NEW p \in BOOLEAN, NEW q \in BOOLEAN, NEW e \in BOOLEAN, ~e
    PROVE  /\ ((p # e) # q) <=> (p # q)
           /\ ((e # p) # q) <=> (p # q)
           /\ (p = e /\ p # q) <=> (~p /\ q)
           /\ (p # e /\ p # q) <=> (p /\ ~q)
           /\ (e # p /\ e # q) <=> (p /\ q)
OBVIOUS

\* A bit of a number is one or the other, and a small number has no high ones.
LEMMA HasType ==
    /\ \A n, m : Has(n, m) \in BOOLEAN
    /\ ~Has(1, 16) /\ ~Has(1, 128) /\ ~Has(0, 16) /\ ~Has(0, 128)
<1>1. \A n, m : Has(n, m) \in BOOLEAN BY DEF Has
<1>2. ~Has(1, 16) /\ ~Has(1, 128) /\ ~Has(0, 16) /\ ~Has(0, 128) BY SMT DEF Has
<1> QED BY <1>1, <1>2

\* The half carry and the overflow of a count are read off the result.
LEMMA IncBits ==
    ASSUME NEW v \in Byte, NEW n, n = v + 1
    PROVE  /\ (n % 256) % 16 = 0 <=> Odd(v, 1, n, 16)
           /\ n % 256 = 128 <=> (Has(v, 128) = Has(1, 128) /\ Has(v, 128) # Has(n, 128))
<1>1. v \in Int /\ 0 <= v /\ v <= 255 BY Ranges
<1>2. (n % 256) % 16 = 0 <=> v % 16 = 15 BY <1>1, SMT
<1>3. Has(v, 16) = ((v \div 16) % 2 = 1) /\ Has(n, 16) = ((n \div 16) % 2 = 1) BY DEF Has
<1> DEFINE e == Has(1, 16)
           t == Has(1, 128)
<1>4. e \in BOOLEAN /\ ~e /\ t \in BOOLEAN /\ ~t BY HasType
<1>5. v % 16 = 15 => (n \div 16) % 2 = 1 - ((v \div 16) % 2) BY <1>1, SMT
<1>6. v % 16 # 15 => (n \div 16) % 2 = (v \div 16) % 2 BY <1>1, SMT
<1>7. (v \div 16) % 2 = 0 \/ (v \div 16) % 2 = 1 BY <1>1, SMT
<1> DEFINE hv == Has(v, 16)
           hn == Has(n, 16)
           bv == (v \div 16) % 2
           bn == (n \div 16) % 2
           l == v % 16 = 15
           d == Odd(v, 1, n, 16)
<1>9. d = ((hv # e) # hn) BY DEF Odd
<1>10. hv = (bv = 1) /\ hn = (bn = 1) /\ hv \in BOOLEAN /\ hn \in BOOLEAN BY <1>3
<1>11. (l => bn = 1 - bv) /\ (~l => bn = bv) /\ (bv = 0 \/ bv = 1) BY <1>5, <1>6, <1>7
<1>12. l \in BOOLEAN OBVIOUS
<1> HIDE DEF hv, hn, bv, bn, l, d, e
<1>13. l <=> (hv # hn) BY <1>10, <1>11, <1>12, SMT
<1>14. d <=> (hv # hn) BY <1>4, <1>9, <1>10, WithoutBit, Zenon
<1> DEFINE tv == Has(v, 128)
           tn == Has(n, 128)
           pv == v >= 128
           pn == n >= 128 /\ n < 256
           z  == n % 256 = 128
<1>15. tv = pv BY <1>1, SMT DEF Has
<1>16. tn = pn BY <1>1, SMT DEF Has
<1>17. tv \in BOOLEAN /\ tn \in BOOLEAN BY HasType
<1>18. z <=> (~pv /\ pn) BY <1>1, SMT
<1> HIDE DEF tv, tn, t, pv, pn, z
<1>19. z <=> (tv = t /\ tv # tn) BY <1>4, <1>15, <1>16, <1>17, <1>18, WithoutBit, Zenon
<1> QED BY <1>2, <1>13, <1>14, <1>19 DEF l, d, t, tv, tn, z

\* The same of a difference of one, and of one from zero.
LEMMA DecBits ==
    ASSUME NEW v \in Byte, NEW n, n = W16(v - 1)
    PROVE  /\ n % 256 = (v - 1) % 256
           /\ (n % 256) % 16 = 15 <=> Odd(v, 1, n, 16)
           /\ n % 256 = 127 <=> (Has(v, 128) # Has(1, 128) /\ Has(v, 128) # Has(n, 128))
<1>1. v \in Int /\ 0 <= v /\ v <= 255 BY Ranges
<1>2. n = IF v = 0 THEN 65535 ELSE v - 1 BY <1>1, SMT DEF W16
<1>3. n % 256 = (v - 1) % 256 BY <1>1, <1>2, SMT
<1>4. (n % 256) % 16 = 15 <=> v % 16 = 0 BY <1>1, <1>2, SMT
<1>5. Has(v, 16) = ((v \div 16) % 2 = 1) /\ Has(n, 16) = ((n \div 16) % 2 = 1) BY DEF Has
<1> DEFINE e == Has(1, 16)
           t == Has(1, 128)
<1>6. e \in BOOLEAN /\ ~e /\ t \in BOOLEAN /\ ~t BY HasType
<1>7. v % 16 = 0 => (n \div 16) % 2 = 1 - ((v \div 16) % 2) BY <1>1, <1>2, SMT
<1>8. v % 16 # 0 => (n \div 16) % 2 = (v \div 16) % 2 BY <1>1, <1>2, SMT
<1>9. (v \div 16) % 2 = 0 \/ (v \div 16) % 2 = 1 BY <1>1, SMT
<1> DEFINE hv == Has(v, 16)
           hn == Has(n, 16)
           bv == (v \div 16) % 2
           bn == (n \div 16) % 2
           l == v % 16 = 0
           d == Odd(v, 1, n, 16)
<1>10. d = ((hv # e) # hn) BY DEF Odd
<1>11. hv = (bv = 1) /\ hn = (bn = 1) /\ hv \in BOOLEAN /\ hn \in BOOLEAN BY <1>5
<1>12. (l => bn = 1 - bv) /\ (~l => bn = bv) /\ (bv = 0 \/ bv = 1) BY <1>7, <1>8, <1>9
<1>13. l \in BOOLEAN OBVIOUS
<1> HIDE DEF hv, hn, bv, bn, l, d, e
<1>14. l <=> (hv # hn) BY <1>11, <1>12, <1>13, SMT
<1>15. d <=> (hv # hn) BY <1>6, <1>10, <1>11, WithoutBit, Zenon
<1> DEFINE tv == Has(v, 128)
           tn == Has(n, 128)
           pv == v >= 128
           pn == n >= 128 /\ (n < 256 \/ n = 65535)
           z  == n % 256 = 127
<1>16. tv = pv BY <1>1, SMT DEF Has
<1>17. tn = pn BY <1>1, <1>2, SMT DEF Has
<1>18. tv \in BOOLEAN /\ tn \in BOOLEAN BY HasType
<1>19. z <=> (pv /\ ~pn) BY <1>1, <1>2, SMT
<1> HIDE DEF tv, tn, t, pv, pn, z
<1>20. z <=> (tv # t /\ tv # tn) BY <1>6, <1>16, <1>17, <1>18, <1>19, WithoutBit, Zenon
<1> QED BY <1>3, <1>4, <1>14, <1>15, <1>20 DEF l, d, t, tv, tn, z

\* And of a difference from zero.
LEMMA NegBits ==
    ASSUME NEW v \in Byte, NEW n, n = W16(0 - v)
    PROVE  /\ n % 256 = (0 - v) % 256
           /\ v # 0 <=> Has(n, 256)
           /\ v % 16 # 0 <=> Odd(0, v, n, 16)
           /\ v = 128 <=> (Has(0, 128) # Has(v, 128) /\ Has(0, 128) # Has(n, 128))
<1>1. v \in Int /\ 0 <= v /\ v <= 255 BY Ranges
<1>2. n = IF v = 0 THEN 0 ELSE 65536 - v BY <1>1, SMT DEF W16
<1>3. n % 256 = (0 - v) % 256 BY <1>1, <1>2, SMT
<1>4. v # 0 <=> Has(n, 256) BY <1>1, <1>2, SMT DEF Has
<1>5. Has(v, 16) = ((v \div 16) % 2 = 1) /\ Has(n, 16) = ((n \div 16) % 2 = 1) BY DEF Has
<1> DEFINE e == Has(0, 16)
           t == Has(0, 128)
<1>6. e \in BOOLEAN /\ ~e /\ t \in BOOLEAN /\ ~t BY HasType
<1>7. v % 16 # 0 => (n \div 16) % 2 = 1 - ((v \div 16) % 2) BY <1>1, <1>2, SMT
<1>8. v % 16 = 0 => (n \div 16) % 2 = (v \div 16) % 2 BY <1>1, <1>2, SMT
<1>9. (v \div 16) % 2 = 0 \/ (v \div 16) % 2 = 1 BY <1>1, SMT
<1> DEFINE hv == Has(v, 16)
           hn == Has(n, 16)
           bv == (v \div 16) % 2
           bn == (n \div 16) % 2
           l == v % 16 = 0
           d == Odd(0, v, n, 16)
<1>10. d = ((e # hv) # hn) BY DEF Odd
<1>11. hv = (bv = 1) /\ hn = (bn = 1) /\ hv \in BOOLEAN /\ hn \in BOOLEAN BY <1>5
<1>12. (~l => bn = 1 - bv) /\ (l => bn = bv) /\ (bv = 0 \/ bv = 1) BY <1>7, <1>8, <1>9
<1>13. l \in BOOLEAN OBVIOUS
<1> HIDE DEF hv, hn, bv, bn, l, d, e
<1>14. ~l <=> (hv # hn) BY <1>11, <1>12, <1>13, SMT
<1>15. d <=> (hv # hn) BY <1>6, <1>10, <1>11, WithoutBit, Zenon
<1> DEFINE tv == Has(v, 128)
           tn == Has(n, 128)
           pv == v >= 128
           pn == v > 0 /\ v <= 128
           z  == v = 128
<1>16. tv = pv BY <1>1, SMT DEF Has
<1>17. tn = pn BY <1>1, <1>2, SMT DEF Has
<1>18. tv \in BOOLEAN /\ tn \in BOOLEAN BY HasType
<1>19. z <=> (pv /\ pn) BY <1>1, SMT
<1> HIDE DEF tv, tn, t, pv, pn, z
<1>20. z <=> (t # tv /\ t # tn) BY <1>6, <1>16, <1>17, <1>18, <1>19, WithoutBit, Zenon
<1> QED BY <1>3, <1>4, <1>14, <1>15, <1>20 DEF l, d, t, tv, tn, z

\* The flags g are those of the value r, with P, H, N and C as given.
FlagsOf(g, r, p, h, n, c) ==
    /\ IsFlags(g)
    /\ g.s = Has(r, 128) /\ g.z = (r = 0) /\ g.y = Has(r, 32) /\ g.x = Has(r, 8)
    /\ g.p = p /\ g.h = h /\ g.n = n /\ g.c = c

SumFlags(g, r, p, h, c)  == FlagsOf(g, r, p, h, FALSE, c)
DiffFlags(g, r, p, h, c) == FlagsOf(g, r, p, h, TRUE, c)

\* NEG, DEC and INC write them into those of their result.
NegFlags(r, p, h, c) == [Sz53(r) EXCEPT !.n = TRUE, !.c = c, !.h = h, !.p = p]
DecFlags(r, p, h, c) == [Sz53(r) EXCEPT !.c = c, !.n = TRUE, !.h = h, !.p = p]
IncFlags(r, p, h, c) == [Sz53(r) EXCEPT !.c = c, !.h = h, !.p = p]

\* And nothing else.
LEMMA WrittenFlags ==
    ASSUME NEW r, NEW p, NEW h, NEW c
    PROVE  /\ DiffFlags(NegFlags(r, p, h, c), r, p, h, c)
           /\ DiffFlags(DecFlags(r, p, h, c), r, p, h, c)
           /\ SumFlags(IncFlags(r, p, h, c), r, p, h, c)
<1> DEFINE g0 == Sz53(r)
           o1 == [g0 EXCEPT !.n = TRUE, !.c = c, !.h = h]
           o2 == [g0 EXCEPT !.c = c, !.n = TRUE, !.h = h]
           o3 == [g0 EXCEPT !.c = c, !.h = h]
           q1 == [o1 EXCEPT !.p = p]
           q2 == [o2 EXCEPT !.p = p]
           q3 == [o3 EXCEPT !.p = p]
           sb == Has(r, 128)
           zb == r = 0
           yb == Has(r, 32)
           xb == Has(r, 8)
<1>1. OfValue(g0, r) BY Sz53Fields
<1>2. DOMAIN g0 = Names /\ g0.s = sb /\ g0.z = zb /\ g0.y = yb /\ g0.x = xb /\ g0.n = FALSE
  BY <1>1 DEF OfValue
<1> HIDE DEF g0, sb, zb, yb, xb
<1>3. DOMAIN o1 = Names /\ DOMAIN o2 = Names /\ DOMAIN o3 = Names BY <1>2, SMT
<1>4. IsFlags(q1) /\ IsFlags(q2) /\ IsFlags(q3)
  <2> HIDE DEF o1, o2, o3
  <2> QED BY <1>3, Written
<1>5. q1.s = sb /\ q1.z = zb BY <1>2, SMT DEF Names
<1>6. q1.y = yb /\ q1.x = xb BY <1>2, SMT DEF Names
<1>7. q1.p = p /\ q1.h = h BY <1>2, SMT DEF Names
<1>8. q1.n = TRUE /\ q1.c = c BY <1>2, SMT DEF Names
<1>9. q2.s = sb /\ q2.z = zb BY <1>2, SMT DEF Names
<1>10. q2.y = yb /\ q2.x = xb BY <1>2, SMT DEF Names
<1>11. q2.p = p /\ q2.h = h BY <1>2, SMT DEF Names
<1>12. q2.n = TRUE /\ q2.c = c BY <1>2, SMT DEF Names
<1>13. q3.s = sb /\ q3.z = zb BY <1>2, SMT DEF Names
<1>14. q3.y = yb /\ q3.x = xb BY <1>2, SMT DEF Names
<1>15. q3.p = p /\ q3.h = h BY <1>2, SMT DEF Names
<1>16. q3.n = FALSE /\ q3.c = c BY <1>2, SMT DEF Names
<1> HIDE DEF q1, q2, q3
<1>17. FlagsOf(q1, r, p, h, TRUE, c) BY <1>4, <1>5, <1>6, <1>7, <1>8 DEF FlagsOf, sb, zb, yb, xb
<1>18. FlagsOf(q2, r, p, h, TRUE, c)
  BY <1>4, <1>9, <1>10, <1>11, <1>12 DEF FlagsOf, sb, zb, yb, xb
<1>19. FlagsOf(q3, r, p, h, FALSE, c)
  BY <1>4, <1>13, <1>14, <1>15, <1>16 DEF FlagsOf, sb, zb, yb, xb
<1>20. q1 = NegFlags(r, p, h, c) /\ q2 = DecFlags(r, p, h, c) /\ q3 = IncFlags(r, p, h, c)
  <2>1. /\ q1 = [g0 EXCEPT !.n = TRUE, !.c = c, !.h = h, !.p = p]
        /\ q2 = [g0 EXCEPT !.c = c, !.n = TRUE, !.h = h, !.p = p]
        /\ q3 = [g0 EXCEPT !.c = c, !.h = h, !.p = p]
    BY SMT DEF q1, q2, q3
  <2> QED BY <2>1 DEF g0, NegFlags, DecFlags, IncFlags
<1> QED BY <1>17, <1>18, <1>19, <1>20 DEF SumFlags, DiffFlags

\* The same value and the same bits make the same F.
LEMMA OneF ==
    ASSUME NEW g, NEW q, NEW r, NEW p, NEW h, NEW c
    PROVE  /\ SumFlags(g, r, p, h, c) /\ SumFlags(q, r, p, h, c) => g = q
           /\ DiffFlags(g, r, p, h, c) /\ DiffFlags(q, r, p, h, c) => g = q
<1>1. ASSUME NEW n, FlagsOf(g, r, p, h, n, c), FlagsOf(q, r, p, h, n, c)
      PROVE  g = q
  <2>1. /\ IsFlags(g) /\ IsFlags(q)
        /\ g.s = q.s /\ g.z = q.z /\ g.y = q.y /\ g.x = q.x
        /\ g.p = q.p /\ g.h = q.h /\ g.n = q.n /\ g.c = q.c
    BY <1>1 DEF FlagsOf
  <2> QED BY <2>1, SameFlags
<1> QED BY <1>1 DEF SumFlags, DiffFlags

\* The overflow, half carry and carry of ADD and SUB.
AddOver(u, v, d) == Has(u, 128) = Has(v, 128) /\ Has(u, 128) # Has(d, 128)
SubOver(u, v, d) == Has(u, 128) # Has(v, 128) /\ Has(u, 128) # Has(d, 128)
HalfOf(u, v, d)  == Odd(u, v, d, 16)
Ninth(d)         == Has(d, 256)
LowByte(d)       == d % 256

\* What ADD and SUB leave has the same form.
LEMMA AluFlags ==
    ASSUME NEW u, NEW v, NEW g, NEW w
    PROVE  /\ LET d == SumOf(u, v, g, w)
              IN  SumFlags(AluAdd(u, v, g, w).f, LowByte(d), AddOver(u, v, d), HalfOf(u, v, d), Ninth(d))
           /\ LET d == DiffOf(u, v, g, w)
              IN  DiffFlags(AluSub(u, v, g, w).f, LowByte(d), SubOver(u, v, d), HalfOf(u, v, d), Ninth(d))
           /\ AluSub(u, v, g, w).r = LowByte(DiffOf(u, v, g, w))
<1>1. ASSUME NEW q, NEW d
      PROVE  /\ AfterAdd(q, u, v, d) =>
                  SumFlags(q, LowByte(d), AddOver(u, v, d), HalfOf(u, v, d), Ninth(d))
             /\ AfterSub(q, u, v, d) =>
                  DiffFlags(q, LowByte(d), SubOver(u, v, d), HalfOf(u, v, d), Ninth(d))
  BY DEF AfterAdd, AfterSub, FlagsOf, SumFlags, DiffFlags, AddOver, SubOver, HalfOf, Ninth, LowByte
<1>2. /\ AfterAdd(AluAdd(u, v, g, w).f, u, v, SumOf(u, v, g, w))
      /\ AfterSub(AluSub(u, v, g, w).f, u, v, DiffOf(u, v, g, w))
      /\ AluSub(u, v, g, w).r = DiffOf(u, v, g, w) % 256
  BY AddFields, SubFields
<1> QED BY <1>1, <1>2 DEF LowByte

\* C written into them.
LEMMA WriteC ==
    ASSUME NEW g, NEW r, NEW p, NEW h, NEW c, NEW c2
    PROVE  /\ SumFlags(g, r, p, h, c) => SumFlags([g EXCEPT !.c = c2], r, p, h, c2)
           /\ DiffFlags(g, r, p, h, c) => DiffFlags([g EXCEPT !.c = c2], r, p, h, c2)
<1> SUFFICES ASSUME NEW n, FlagsOf(g, r, p, h, n, c) PROVE FlagsOf([g EXCEPT !.c = c2], r, p, h, n, c2)
  BY DEF SumFlags, DiffFlags
<1> DEFINE q == [g EXCEPT !.c = c2]
           sb == Has(r, 128)
           zb == r = 0
           yb == Has(r, 32)
           xb == Has(r, 8)
<1>1. /\ IsFlags(g) /\ g.s = sb /\ g.z = zb /\ g.y = yb /\ g.x = xb
      /\ g.p = p /\ g.h = h /\ g.n = n
  BY DEF FlagsOf
<1> HIDE DEF sb, zb, yb, xb
<1>2. DOMAIN g = Names BY <1>1 DEF IsFlags
<1>3. IsFlags(q) BY <1>2, Written
<1>4. q.s = sb /\ q.z = zb BY <1>1, <1>2, SMT DEF Names
<1>5. q.y = yb /\ q.x = xb BY <1>1, <1>2, SMT DEF Names
<1>6. q.p = p /\ q.h = h BY <1>1, <1>2, SMT DEF Names
<1>7. q.n = n /\ q.c = c2 BY <1>1, <1>2, SMT DEF Names
<1> HIDE DEF q
<1>8. FlagsOf(q, r, p, h, n, c2) BY <1>3, <1>4, <1>5, <1>6, <1>7 DEF FlagsOf, sb, zb, yb, xb
<1> QED BY <1>8 DEF q

\* INC is ADD of one that keeps C.
LEMMA IncIsAdd ==
    ASSUME NEW v \in Byte, NEW g
    PROVE  AluInc(v, g).f = [AluAdd(v, 1, g, FALSE).f EXCEPT !.c = g.c]
<1> DEFINE one == 1
           no == FALSE
           d  == v + 1
           r  == LowByte(d)
           h1 == r % 16 = 0
           p1 == r = 128
           h2 == HalfOf(v, one, d)
           p2 == AddOver(v, one, d)
           c2 == Ninth(d)
           o  == AluAdd(v, one, g, no).f
           q  == [o EXCEPT !.c = g.c]
<1>1. AluInc(v, g).f = IncFlags(r, p1, h1, g.c) BY SMT DEF AluInc, IncFlags, LowByte
<1>2. SumOf(v, one, g, no) = d
  <2> DEFINE k == CarryIn(g, no)
  <2>1. k = 0 BY NoCarryIn
  <2>2. SumOf(v, one, g, no) = (v + 1) + k BY DEF SumOf
  <2>3. v \in Int BY Ranges
  <2> HIDE DEF k
  <2>4. (v + 1) + k = v + 1 BY <2>1, <2>3, SMT
  <2> QED BY <2>2, <2>4
<1>3. (h1 <=> h2) /\ (p1 <=> p2)
  <2>1. ((d % 256) % 16 = 0) <=> Odd(v, 1, d, 16) BY IncBits
  <2>2. d % 256 = 128 <=> (Has(v, 128) = Has(1, 128) /\ Has(v, 128) # Has(d, 128)) BY IncBits
  <2> QED BY <2>1, <2>2 DEF LowByte, HalfOf, AddOver
<1>4. h1 \in BOOLEAN /\ h2 \in BOOLEAN /\ p1 \in BOOLEAN /\ p2 \in BOOLEAN
  BY DEF Odd, HalfOf, AddOver
<1> HIDE DEF one, no, d
<1>5. SumFlags(o, r, p2, h2, c2) BY <1>2, AluFlags
<1> HIDE DEF r, h1, h2, p1, p2, c2, o
<1>6. h1 = h2 /\ p1 = p2 BY <1>3, <1>4
<1>7. SumFlags(q, r, p2, h2, g.c) BY <1>5, WriteC
<1>8. SumFlags(AluInc(v, g).f, r, p1, h1, g.c) BY <1>1, WrittenFlags
<1> HIDE DEF q
<1>9. AluInc(v, g).f = q BY <1>6, <1>7, <1>8, OneF
<1> QED BY <1>9 DEF q, o, one, no

\* DEC is SUB of one that keeps C.
LEMMA DecIsSub ==
    ASSUME NEW v \in Byte, NEW g
    PROVE  AluDec(v, g).f = [AluSub(v, 1, g, FALSE).f EXCEPT !.c = g.c]
<1> DEFINE one == 1
           no == FALSE
           d  == W16(v - 1)
           r  == (v - 1) % 256
           h1 == r % 16 = 15
           p1 == r = 127
           h2 == HalfOf(v, one, d)
           p2 == SubOver(v, one, d)
           c2 == Ninth(d)
           o  == AluSub(v, one, g, no).f
           q  == [o EXCEPT !.c = g.c]
<1>1. AluDec(v, g).f = DecFlags(r, p1, h1, g.c) BY SMT DEF AluDec, DecFlags
<1>2. DiffOf(v, one, g, no) = d
  <2> DEFINE k == CarryIn(g, no)
             e == (v - 1) - k
  <2>1. k = 0 BY NoCarryIn
  <2>2. DiffOf(v, one, g, no) = W16(e) BY DEF DiffOf
  <2>3. v \in Int BY Ranges
  <2>4. e = v - 1
    <3> HIDE DEF k
    <3> QED BY <2>1, <2>3, SMT
  <2> QED BY <2>2, <2>4
<1>3. LowByte(d) = r /\ (h1 <=> h2) /\ (p1 <=> p2)
  <2>1. d % 256 = r BY DecBits
  <2>2. ((d % 256) % 16 = 15) <=> Odd(v, 1, d, 16) BY DecBits
  <2>3. d % 256 = 127 <=> (Has(v, 128) # Has(1, 128) /\ Has(v, 128) # Has(d, 128)) BY DecBits
  <2> HIDE DEF d, r
  <2> QED BY <2>1, <2>2, <2>3 DEF LowByte, HalfOf, SubOver
<1>4. h1 \in BOOLEAN /\ h2 \in BOOLEAN /\ p1 \in BOOLEAN /\ p2 \in BOOLEAN
  BY DEF Odd, HalfOf, SubOver
<1> HIDE DEF one, no, d, r
<1>5. DiffFlags(o, r, p2, h2, c2) BY <1>2, <1>3, AluFlags
<1> HIDE DEF h1, h2, p1, p2, c2, o
<1>6. h1 = h2 /\ p1 = p2 BY <1>3, <1>4
<1>7. DiffFlags(q, r, p2, h2, g.c) BY <1>5, WriteC
<1>8. DiffFlags(AluDec(v, g).f, r, p1, h1, g.c) BY <1>1, WrittenFlags
<1> HIDE DEF q
<1>9. AluDec(v, g).f = q BY <1>6, <1>7, <1>8, OneF
<1> QED BY <1>9 DEF q, o, one, no

\* NEG is SUB from zero.
LEMMA NegIsSub ==
    ASSUME NEW v \in Byte, NEW g
    PROVE  Neg(v) = AluSub(0, v, g, FALSE)
<1> DEFINE zero == 0
           no == FALSE
           d  == W16(0 - v)
           r  == (0 - v) % 256
           h1 == v % 16 # 0
           p1 == v = 128
           c1 == v # 0
           h2 == HalfOf(zero, v, d)
           p2 == SubOver(zero, v, d)
           c2 == Ninth(d)
           o  == AluSub(zero, v, g, no)
           q  == NegFlags(r, p1, h1, c1)
<1>1. Neg(v) = [r |-> r, f |-> q] BY DEF Neg, NegFlags
<1>2. DiffOf(zero, v, g, no) = d
  <2> DEFINE k == CarryIn(g, no)
             e == (0 - v) - k
  <2>1. k = 0 BY NoCarryIn
  <2>2. DiffOf(zero, v, g, no) = W16(e) BY DEF DiffOf
  <2>3. v \in Int BY Ranges
  <2>4. e = 0 - v
    <3> HIDE DEF k
    <3> QED BY <2>1, <2>3, SMT
  <2> QED BY <2>2, <2>4
<1>3. LowByte(d) = r /\ (c1 <=> c2) /\ (h1 <=> h2) /\ (p1 <=> p2)
  <2>1. d % 256 = r BY NegBits
  <2>2. c1 <=> Has(d, 256) BY NegBits
  <2>3. h1 <=> Odd(0, v, d, 16) BY NegBits
  <2>4. p1 <=> (Has(0, 128) # Has(v, 128) /\ Has(0, 128) # Has(d, 128)) BY NegBits
  <2> HIDE DEF d, r, h1, p1, c1
  <2> QED BY <2>1, <2>2, <2>3, <2>4 DEF LowByte, HalfOf, SubOver, Ninth
<1>4. /\ h1 \in BOOLEAN /\ h2 \in BOOLEAN /\ p1 \in BOOLEAN /\ p2 \in BOOLEAN
      /\ c1 \in BOOLEAN /\ c2 \in BOOLEAN
  BY DEF Odd, Has, HalfOf, SubOver, Ninth
<1>5. o = [r |-> o.r, f |-> o.f] BY SMT DEF AluSub
<1> HIDE DEF zero, no, d, r
<1>6. DiffFlags(o.f, r, p2, h2, c2) /\ o.r = r BY <1>2, <1>3, AluFlags
<1> HIDE DEF h1, h2, p1, p2, c1, c2, o
<1>7. DiffFlags(q, r, p1, h1, c1) BY WrittenFlags
<1>8. h1 = h2 /\ p1 = p2 /\ c1 = c2 BY <1>3, <1>4
<1> HIDE DEF q
<1>9. q = o.f BY <1>6, <1>7, <1>8, OneF
<1> QED BY <1>1, <1>5, <1>6, <1>9 DEF o, zero, no

\* F after SUB of one byte from another, as the program's end has it.
LEMMA OneDifference ==
    ASSUME Shape, LastByte, job.n = 1, job.kind = "difference", ~job.decimal, due = "done",
           ~job.chained
    PROVE  AfterSub(f, job.x, job.y, W16(job.x - job.y))
<1>1. PICK k \in {0, 1}, low \in Byte : LastOf(job, Incoming, out, f, low, k)
  BY DEF LastByte, Summing
<1> DEFINE x == job.x
           y == job.y
           e == (x - y) - k
<1>2. job.n - 1 = 0 BY SMT
<1>3. x \in Byte /\ y \in Byte BY JobType DEF Shape
<1>4. ByteAt(x, 0) = x /\ ByteAt(y, 0) = y BY <1>3, OneByte
<1>5. /\ Fits(low, 0) /\ LongDiff(low, 0, k, x, y, Incoming)
      /\ AfterSub(f, x, y, W16(e))
  BY <1>1, <1>2, <1>4 DEF LastOf
<1>6. Incoming = 0 BY DEF Incoming, One
<1>7. Low(x, 0) = 0 /\ Low(y, 0) = 0 BY <1>3, OneByte, Bytes
<1>8. low = 0 BY <1>5, Powers, SMT DEF Fits
<1>9. k = 0 BY <1>5, <1>6, <1>7, <1>8, Powers, SMT DEF LongDiff
<1>10. e = x - y BY <1>3, <1>9, Ranges, SMT
<1> QED BY <1>5, <1>10

\* The short forms follow from what each instruction does.
LEMMA ShortFromLast == ASSUME Shape, LastByte PROVE ShortForms
<1> SUFFICES ASSUME job.n = 1, job.kind = "difference", ~job.decimal, due = "done"
             PROVE  ShortForms
  BY DEF ShortForms
<1> DEFINE x == job.x
           y == job.y
           keep == [NoFlags EXCEPT !.c = job.c]
<1>1. x \in Byte /\ y \in Byte BY JobType DEF Shape
<1>2. keep.c = job.c BY SMT DEF NoFlags
<1>3. ~job.chained => [f EXCEPT !.y = Has(y, 32), !.x = Has(y, 8)] = AluCp(x, y)
  BY OneDifference, CpIsSub
<1> HIDE DEF keep
<1>4. Neg(x) = AluSub(0, x, keep, FALSE) BY <1>1, NegIsSub
<1>5. AluInc(x, keep).f = [AluAdd(x, 1, keep, FALSE).f EXCEPT !.c = job.c]
  BY <1>1, <1>2, IncIsAdd
<1>6. AluDec(x, keep).f = [AluSub(x, 1, keep, FALSE).f EXCEPT !.c = job.c]
  BY <1>1, <1>2, DecIsSub
<1>7. ASSUME NEW m \in Masks
      PROVE  /\ Bit(m, x, y, keep) = [AluAnd(x, m).f EXCEPT !.c = job.c, !.y = Has(y, 32),
                                                            !.x = Has(y, 8)]
             /\ Res(m, Set(m, x)) = Res(m, x) /\ Set(m, Res(m, x)) = Set(m, x)
             /\ Set(m, x) - Res(m, x) = m
  <2>1. Bit(m, x, y, keep) = AndWith(m, x, y, job.c) BY <1>1, <1>2, BitIsAnd
  <2>2. /\ Res(m, Set(m, x)) = Res(m, x) /\ Set(m, Res(m, x)) = Set(m, x)
        /\ Set(m, x) - Res(m, x) = m
    BY <1>1, ResSet
  <2> QED BY <2>1, <2>2 DEF AndWith
<1>8. AluAnd(x, y).r + AluOr(x, y).r = x + y /\ AluOr(x, y).r - AluAnd(x, y).r = AluXor(x, y).r
  <2>1. /\ AluAnd(x, y).r = And8(x, y) /\ AluOr(x, y).r = Or8(x, y)
        /\ AluXor(x, y).r = Xor8(x, y)
    BY SMT DEF AluAnd, AluOr, AluXor
  <2> QED BY <1>1, <2>1, AndOrXor
<1> QED BY ONLY <1>3, <1>4, <1>5, <1>6, <1>7, <1>8 DEF ShortForms, keep

\* CP, NEG, INC, DEC, BIT, RES and SET, and AND, OR and XOR, agree with the
\* instructions they stand for, for every byte.
THEOREM ShortFormsHolds == Spec => []ShortForms
<1>1. Shape /\ LastByte => ShortForms BY ShortFromLast
<1> QED BY <1>1, ShapeHolds, LastHolds, PTL

=============================================================================
