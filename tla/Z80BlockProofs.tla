--------------------------- MODULE Z80BlockProofs ---------------------------
(***************************************************************************)
(* The block instructions for registers of any width, any place of the      *)
(* program and the stack, and any number of interrupts: how many rounds     *)
(* they make, what they leave in memory, and what the ports see.            *)
(***************************************************************************)
EXTENDS Z80Block, TLAPS

-----------------------------------------------------------------------------
(* Arithmetic that wraps is % by the number of values, here a constant and   *)
(* no numeral.                                                               *)

\* The remainder is below the divisor.
LEMMA RemainderRange ==
    ASSUME NEW d \in Nat \ {0}, NEW n \in Int PROVE n % d \in 0 .. d - 1
BY SMT

\* A number is its quotient times the divisor and its remainder.
LEMMA Division ==
    ASSUME NEW d \in Nat \ {0}, NEW n \in Int
    PROVE  n \div d \in Int /\ n = d * (n \div d) + (n % d)
<1>1. n \div d \in Int BY SMT
<1>2. n = d * (n \div d) + (n % d) BY SMT
<1> QED BY <1>1, <1>2

\* There is one remainder.
LEMMA OneRemainder ==
    ASSUME NEW d \in Nat \ {0}, NEW p \in Int, NEW q \in Int,
           NEW r \in 0 .. d - 1, NEW s \in 0 .. d - 1,
           d * p + r = d * q + s
    PROVE  r = s
BY SMT

\* And there is one quotient.
LEMMA OneQuotient ==
    ASSUME NEW d \in Nat \ {0}, NEW p \in Int, NEW q \in Int, d * p = d * q
    PROVE  p = q
BY SMT

\* Numbers that differ by a multiple of the divisor have one remainder.
LEMMA ShiftRemainder ==
    ASSUME NEW d \in Nat \ {0}, NEW m \in Int, NEW n \in Int, NEW k \in Int,
           m = n + d * k
    PROVE  m % d = n % d
<1> DEFINE a == m \div d
           b == n \div d
           r == m % d
           s == n % d
<1>1. a \in Int /\ m = d * a + r BY Division
<1>2. b \in Int /\ n = d * b + s BY Division
<1>3. r \in 0 .. d - 1 /\ s \in 0 .. d - 1 BY RemainderRange
<1> HIDE DEF a, b, r, s
<1>4. d * (b + k) = d * b + d * k BY <1>2, SMT
<1>5. d * a + r = d * (b + k) + s
  <2>1. d * a \in Int /\ d * b \in Int /\ d * k \in Int /\ r \in Int /\ s \in Int
    BY <1>1, <1>2, <1>3, SMT
  <2> QED BY <1>1, <1>2, <1>4, <2>1, SMT
<1>6. b + k \in Int BY <1>2, SMT
<1>7. r = s BY <1>1, <1>3, <1>5, <1>6, OneRemainder
<1> QED BY <1>7 DEF r, s

\* A number below the divisor is its own remainder.
LEMMA SmallRemainder ==
    ASSUME NEW d \in Nat \ {0}, NEW n \in 0 .. d - 1 PROVE n % d = n
<1>1. n % d \in 0 .. d - 1 /\ n \div d \in Int /\ n = d * (n \div d) + (n % d)
  BY RemainderRange, Division, SMT
<1>2. d * (n \div d) + (n % d) = d * 0 + n BY <1>1, SMT
<1> DEFINE q == n \div d
           r == n % d
<1>3. q \in Int /\ r \in 0 .. d - 1 /\ d * q + r = d * 0 + n BY <1>1, <1>2
<1> HIDE DEF q, r
<1>4. r = n BY <1>3, OneRemainder, SMT
<1> QED BY <1>4 DEF r

\* Taking the remainder early changes nothing in a sum.
LEMMA EarlyRemainder ==
    ASSUME NEW d \in Nat \ {0}, NEW m \in Int, NEW n \in Int
    PROVE  ((m % d) + n) % d = (m + n) % d
<1> DEFINE q == m \div d
           r == m % d
<1>1. q \in Int /\ m = d * q + r /\ r \in Int BY Division, RemainderRange, SMT
<1> HIDE DEF q, r
<1>2. m + n = (r + n) + d * q /\ m + n \in Int /\ r + n \in Int BY <1>1, SMT
<1>3. (m + n) % d = (r + n) % d BY <1>1, <1>2, ShiftRemainder
<1> QED BY <1>3 DEF r

-----------------------------------------------------------------------------
(* Addresses                                                                *)

\* Memory is the square of a byte register's values, four addresses at least.
LEMMA Sizes ==
    /\ Base \in Nat \ {0} /\ Base > 1
    /\ Size \in Nat \ {0} /\ Size >= 4 /\ Size >= Base
    /\ Program \in 0 .. Size - 1 /\ StackTop \in 0 .. Size - 1
<1>1. Base \in Nat /\ Base > 1 BY BlockAssumption
<1>2. Base * Base >= 2 * Base /\ 2 * Base >= 4 /\ Base * Base \in Nat BY <1>1, SMT
<1>3. Size \in Nat /\ Size >= 2 * Base /\ 2 * Base >= 4 BY <1>2 DEF Size
<1>4. Size >= 4 /\ Size >= Base BY <1>1, <1>3, SMT
<1> QED BY <1>1, <1>3, <1>4, BlockAssumption, SMT DEF Addresses

\* A cast gives an address.
LEMMA WrapRange == ASSUME NEW n \in Int PROVE W(n) \in 0 .. Size - 1
BY Sizes, RemainderRange DEF W

\* An address is its own cast.
LEMMA WrapSmall == ASSUME NEW n \in 0 .. Size - 1 PROVE W(n) = n
BY Sizes, SmallRemainder DEF W

\* Casting early changes nothing in a sum.
LEMMA WrapSum == ASSUME NEW m \in Int, NEW n \in Int PROVE W(W(m) + n) = W(m + n)
BY Sizes, EarlyRemainder DEF W

\* Nor in a difference.
LEMMA WrapDifference == ASSUME NEW m \in Int, NEW n \in Int PROVE W(m - W(n)) = W(m - n)
<1> DEFINE q == n \div Size
<1>1. q \in Int /\ n = Size * q + (n % Size) /\ n % Size \in Int
  BY Sizes, Division, RemainderRange, SMT
<1>2. n % Size = W(n) BY DEF W
<1> HIDE DEF q
<1> DEFINE r == W(n)
<1>3. r \in Int /\ n = Size * q + r BY <1>1, <1>2
<1> HIDE DEF r
<1>4. Size * q \in Int /\ m - r = (m - n) + Size * q BY <1>1, <1>3, Sizes, SMT
<1>5. (m - r) % Size = (m - n) % Size
  <2>1. m - r \in Int /\ m - n \in Int BY <1>3
  <2> QED BY <1>1, <1>4, <2>1, Sizes, ShiftRemainder
<1>6. W(m - r) = W(m - n) BY <1>5 DEF W
<1> QED BY <1>6 DEF r

\* Once round memory is nowhere.
LEMMA WrapAround == ASSUME NEW n \in Int PROVE W(n + Size) = W(n)
<1> DEFINE m == n + Size
<1>1. m = n + Size * 1 /\ m \in Int /\ 1 \in Int BY Sizes, SMT
<1> HIDE DEF m
<1>2. m % Size = n % Size BY <1>1, Sizes, ShiftRemainder
<1>3. W(m) = W(n) BY <1>2 DEF W
<1> QED BY <1>3 DEF m

\* The place of an address in a block, counted from its first one.
Place(start, addr) == W(block.delta * (addr - start))

\* The address of place j has place j.
LEMMA PlaceAt ==
    ASSUME block.delta \in {1, -1}, NEW start \in Int, NEW j \in 0 .. Size - 1
    PROVE  Place(start, At(start, j)) = j
<1>1. CASE block.delta = 1
  <2>1. At(start, j) = W(start + j) BY <1>1, Sizes, SMT DEF At
  <2>2. W(start + j) \in Int BY WrapRange, Sizes
  <2>3. 1 * (W(start + j) - start) = W(start + j) + (0 - start) BY <2>2, SMT
  <2>4. W(W(start + j) + (0 - start)) = W((start + j) + (0 - start)) BY Sizes, WrapSum
  <2>5. (start + j) + (0 - start) = j BY Sizes, SMT
  <2> QED BY <1>1, <2>1, <2>3, <2>4, <2>5, WrapSmall DEF Place
<1>2. CASE block.delta = -1
  <2>1. At(start, j) = W(start - j) BY <1>2, Sizes, SMT DEF At
  <2>2. W(start - j) \in Int BY WrapRange, Sizes
  <2>3. (-1) * (W(start - j) - start) = start - W(start - j) BY <2>2, SMT
  <2>4. W(start - W(start - j)) = W(start - (start - j)) BY Sizes, WrapDifference
  <2>5. start - (start - j) = j BY Sizes, SMT
  <2> QED BY <1>2, <2>1, <2>3, <2>4, <2>5, WrapSmall DEF Place
<1> QED BY <1>1, <1>2

\* The address with the place of addr is addr.
LEMMA AtPlace ==
    ASSUME block.delta \in {1, -1}, NEW start \in Int, NEW addr \in 0 .. Size - 1
    PROVE  At(start, Place(start, addr)) = addr
<1>1. CASE block.delta = 1
  <2>1. Place(start, addr) = W(addr - start) BY <1>1, Sizes, SMT DEF Place
  <2>2. W(addr - start) \in Int BY WrapRange, Sizes
  <2>3. At(start, Place(start, addr)) = W(W(addr - start) + start)
    BY <1>1, <2>1, <2>2, SMT DEF At
  <2>4. W(W(addr - start) + start) = W((addr - start) + start) BY Sizes, WrapSum
  <2>5. (addr - start) + start = addr BY Sizes, SMT
  <2> QED BY <2>3, <2>4, <2>5, WrapSmall
<1>2. CASE block.delta = -1
  <2>1. Place(start, addr) = W(start - addr) BY <1>2, Sizes, SMT DEF Place
  <2>2. W(start - addr) \in Int BY WrapRange, Sizes
  <2>3. At(start, Place(start, addr)) = W(start - W(start - addr))
    BY <1>2, <2>1, <2>2, SMT DEF At
  <2>4. W(start - W(start - addr)) = W(start - (start - addr)) BY Sizes, WrapDifference
  <2>5. start - (start - addr) = addr BY Sizes, SMT
  <2> QED BY <2>3, <2>4, <2>5, WrapSmall
<1> QED BY <1>1, <1>2

\* The next address has the next place.
LEMMA NextAt ==
    ASSUME block.delta \in {1, -1}, NEW start \in Int, NEW j \in Int
    PROVE  W(At(start, j) + block.delta) = At(start, j + 1)
<1>1. block.delta * j \in Int /\ block.delta \in Int BY SMT
<1>2. block.delta * (j + 1) = block.delta * j + block.delta BY SMT
<1>3. start + block.delta * j \in Int BY <1>1
<1>4. W(W(start + block.delta * j) + block.delta)
        = W((start + block.delta * j) + block.delta)
  BY <1>1, <1>3, WrapSum
<1>5. (start + block.delta * j) + block.delta = start + block.delta * (j + 1)
  BY <1>1, <1>2, SMT
<1> QED BY <1>4, <1>5 DEF At

\* Every round works at an address of memory.
LEMMA AtRange ==
    ASSUME block.delta \in {1, -1}, NEW start \in Int, NEW j \in Int
    PROVE  At(start, j) \in 0 .. Size - 1
<1>1. start + block.delta * j \in Int BY SMT
<1> QED BY <1>1, WrapRange DEF At

-----------------------------------------------------------------------------
(* The invariant                                                            *)

Bytes == {"opcode", "data", "input", "frame"} \X Int

TypeOK ==
    /\ block \in Blocks
    /\ hl \in Addresses /\ de \in Addresses /\ bc \in Addresses /\ pc \in Addresses
    /\ mem \in [Addresses -> Bytes]
    /\ zf \in BOOLEAN /\ pf \in BOOLEAN
    /\ status \in {"program", "handler", "done", "elsewhere"}
    /\ rounds \in Nat /\ interrupts \in Nat
    /\ ports \in Seq(Int \X Bytes)

\* The registers tell how many rounds were made, whoever wrote to memory.
Registers ==
    /\ rounds <= Count
    /\ hl = At(block.hl, rounds)
    /\ block.kind = "ld" => de = At(block.de, rounds)
    /\ block.kind \in {"ld", "cp"} => bc = W(block.bc - rounds)
    /\ block.kind \in {"in", "out"} =>
         bc = Base * ((B(block.bc) - rounds) % Base) + (block.bc % Base)

\* The flags tell whether rounds are left.
Flags ==
    rounds > 0 =>
        /\ block.kind \in {"ld", "cp"} => pf = (rounds < Count)
        /\ block.kind \in {"in", "out"} => zf = (rounds = Count)

Found == block.kind = "cp" /\ rounds > 0 /\ zf

\* PC is on the instruction while rounds are left and behind it after the last
\* round, or after one of an instruction that does not repeat; an interrupt
\* keeps it on the stack.
Control ==
    /\ status # "elsewhere" => pc \in {Program, W(Program + 2)}
    /\ status # "elsewhere" /\ pc = Program => rounds < Count /\ ~Found
    /\ status # "elsewhere" /\ pc = W(Program + 2) =>
         rounds > 0 /\ (block.repeat => rounds = Count \/ Found)
    /\ status = "handler" => mem[W(StackTop - 2)] = Frame(pc)
    /\ status = "done" => pc = W(Program + 2) /\ (rounds = Count \/ Found)

ControlInv == TypeOK /\ Registers /\ Flags /\ Control

\* Where interrupts have written.
Exempt == IF interrupts = 0 THEN {} ELSE Stack

Copying == block.kind = "ld" =>
    \A addr \in Addresses \ Exempt : mem[addr] = Copied(rounds)[addr]

Reading == block.kind \in {"cp", "out"} =>
    \A addr \in Addresses \ Exempt : mem[addr] = Filled(block.kind)[addr]

Hit(j) == Filled("cp")[At(block.hl, j)] = block.key

Searching == block.kind = "cp" =>
    /\ \A j \in 0 .. rounds - 2 : ~Hit(j)
    /\ rounds > 0 => zf = Hit(rounds - 1)

\* What the port was told in round j.
PortOf(j) ==
    LET b == IF block.kind = "in" THEN B(block.bc) - (j - 1) ELSE B(block.bc) - j
    IN  Base * (b % Base) + (block.bc % Base)

Transmitting == block.kind \in {"in", "out"} =>
    /\ Len(ports) = rounds
    /\ \A j \in 1 .. rounds :
         /\ ports[j][1] = PortOf(j)
         /\ block.kind = "in" => ports[j][2] = Input(j) /\ mem[At(block.hl, j - 1)] = Input(j)
         /\ block.kind = "out" => ports[j][2] = Filled("out")[At(block.hl, j - 1)]

MemoryInv == Undisturbed => Copying /\ Reading /\ Searching /\ Transmitting

BlockInv == ControlInv /\ MemoryInv

-----------------------------------------------------------------------------
(* Registers that count                                                     *)

\* The fields of a block.
LEMMA BlockFields ==
    ASSUME block \in Blocks
    PROVE  /\ block.kind \in {"ld", "cp", "in", "out"} /\ block.delta \in {1, -1}
           /\ block.repeat \in BOOLEAN
           /\ block.hl \in 0 .. Size - 1 /\ block.de \in 0 .. Size - 1
           /\ block.bc \in 0 .. Size - 1
<1>1. 0 \in 0 .. Size - 1 BY Sizes, SMT
<1> QED BY <1>1 DEF Blocks, Addresses

\* A pair is made of its two halves.
LEMMA Halves ==
    ASSUME NEW h \in 0 .. Base - 1, NEW l \in 0 .. Base - 1
    PROVE  /\ Base * h + l \in 0 .. Size - 1
           /\ B(Base * h + l) = h /\ (Base * h + l) % Base = l
<1> DEFINE n == Base * h + l
<1>1. h \in Int /\ l \in Int /\ n \in Nat BY Sizes, SMT
<1>2. n <= Size - 1
  <2>1. Base * h <= Base * (Base - 1) BY Sizes, SMT
  <2>2. Base * (Base - 1) = Base * Base - Base BY Sizes, SMT
  <2>3. Base * h \in Int /\ Base * Base \in Int /\ Base * (Base - 1) \in Int
    BY <1>1, Sizes, SMT
  <2> QED BY <2>1, <2>2, <2>3, Sizes, SMT DEF Size
<1>3. n = l + Base * h BY <1>1, Sizes, SMT
<1> HIDE DEF n
<1>4. n % Base = l
  <2>1. n % Base = l % Base BY <1>1, <1>3, Sizes, ShiftRemainder
  <2> QED BY <2>1, Sizes, SmallRemainder
<1>5. n \div Base = h
  <2>1. n \div Base \in Int /\ n = Base * (n \div Base) + (n % Base)
    BY <1>1, Sizes, Division
  <2> DEFINE q == n \div Base
  <2>2. q \in Int /\ n = Base * q + l BY <1>4, <2>1
  <2> HIDE DEF q
  <2>3. Base * q = Base * h
    <3>1. Base * q \in Int /\ Base * h \in Int BY <1>1, <2>2, Sizes, SMT
    <3> QED BY <1>1, <1>3, <2>2, <3>1, SMT
  <2>4. q = h BY <1>1, <2>2, <2>3, Sizes, OneQuotient
  <2> QED BY <2>4 DEF q
<1>6. n \in 0 .. Size - 1 BY <1>1, <1>2, Sizes, SMT
<1> QED BY <1>4, <1>5, <1>6 DEF n, B

\* The upper half of a pair.
LEMMA UpperHalf == ASSUME NEW n \in 0 .. Size - 1 PROVE B(n) \in 0 .. Base - 1
<1>1. n \div Base \in Int /\ n = Base * (n \div Base) + (n % Base) /\ n % Base \in 0 .. Base - 1
  BY Sizes, Division, RemainderRange, SMT
<1> DEFINE q == n \div Base
           r == n % Base
<1>2. q \in Int /\ n = Base * q + r /\ r \in 0 .. Base - 1 BY <1>1
<1> HIDE DEF q, r
<1>3. ~(q >= Base)
  <2> SUFFICES ASSUME q >= Base PROVE FALSE OBVIOUS
  <2>1. Base * q >= Base * Base BY <1>2, Sizes, SMT
  <2>2. Base * q \in Int /\ Base * Base \in Int BY <1>2, Sizes, SMT
  <2> QED BY <1>2, <2>1, <2>2, Sizes, SMT DEF Size
<1>4. ~(q <= -1)
  <2> SUFFICES ASSUME q <= -1 PROVE FALSE OBVIOUS
  <2>1. Base * q <= -Base BY <1>2, Sizes, SMT
  <2>2. Base * q \in Int BY <1>2, Sizes, SMT
  <2> QED BY <1>2, <2>1, <2>2, Sizes, SMT
<1>5. q \in 0 .. Base - 1 BY <1>2, <1>3, <1>4, Sizes, SMT
<1> QED BY <1>5 DEF q, B

\* How many rounds a block has, at least one.
LEMMA CountRange ==
    ASSUME block \in Blocks
    PROVE  /\ Count \in 1 .. Size
           /\ block.kind \in {"in", "out"} => Count \in 1 .. Base
           /\ block.kind \in {"ld", "cp"} =>
                Count = IF block.bc = 0 THEN Size ELSE block.bc
           /\ block.kind \in {"in", "out"} =>
                Count = IF B(block.bc) = 0 THEN Base ELSE B(block.bc)
<1>1. block.bc \in 0 .. Size - 1 /\ B(block.bc) \in 0 .. Base - 1
  BY BlockFields, UpperHalf
<1>2. CASE block.kind \in {"ld", "cp"} BY <1>1, <1>2, Sizes, SMT DEF Count
<1>3. CASE block.kind \in {"in", "out"} BY <1>1, <1>3, Sizes, SMT DEF Count
<1> QED BY <1>2, <1>3, BlockFields

\* BC is zero after the last round and not before.
LEMMA CountsDown ==
    ASSUME block \in Blocks, block.kind \in {"ld", "cp"}, NEW k \in 1 .. Count
    PROVE  (W(block.bc - k) = 0) <=> (k = Count)
<1>1. /\ block.bc \in 0 .. Size - 1 /\ Count \in 1 .. Size /\ k \in Int
      /\ Count = IF block.bc = 0 THEN Size ELSE block.bc
  BY BlockFields, CountRange
<1> DEFINE n == block.bc
<1>2. CASE n = 0
  <2>1. W(n - k) = W((n - k) + Size) BY <1>1, WrapAround, Sizes, SMT
  <2>2. (n - k) + Size \in 0 .. Size - 1 BY <1>1, <1>2, Sizes, SMT
  <2>3. W(n - k) = (n - k) + Size BY <2>1, <2>2, WrapSmall
  <2> QED BY <1>1, <1>2, <2>3, Sizes, SMT
<1>3. CASE n # 0
  <2>1. n - k \in 0 .. Size - 1 BY <1>1, <1>3, Sizes, SMT
  <2>2. W(n - k) = n - k BY <2>1, WrapSmall
  <2> QED BY <1>1, <1>3, <2>2, Sizes, SMT
<1> QED BY <1>2, <1>3

\* B is zero after the last round and not before.
LEMMA CountsDownB ==
    ASSUME block \in Blocks, block.kind \in {"in", "out"}, NEW k \in 1 .. Count
    PROVE  ((B(block.bc) - k) % Base = 0) <=> (k = Count)
<1> DEFINE n == B(block.bc)
<1>1. /\ n \in 0 .. Base - 1 /\ Count \in 1 .. Base /\ k \in Int
      /\ Count = IF n = 0 THEN Base ELSE n
  BY BlockFields, CountRange, UpperHalf, Sizes, SMT
<1> HIDE DEF n
<1> DEFINE m == n - k
<1>2. m \in Int BY <1>1, Sizes, SMT
<1>3. CASE n = 0
  <2> DEFINE o == m + Base
  <2>1. o = m + Base * 1 /\ o \in 0 .. Base - 1 /\ (o = 0 <=> k = Count)
    BY <1>1, <1>3, Sizes, SMT
  <2>2. o \in Int /\ 1 \in Int BY <2>1, Sizes, SMT
  <2> HIDE DEF o, m
  <2>3. o % Base = m % Base BY <1>2, <2>1, <2>2, Sizes, ShiftRemainder
  <2>4. o % Base = o BY <2>1, Sizes, SmallRemainder
  <2> QED BY <2>1, <2>3, <2>4 DEF m, n
<1>4. CASE n # 0
  <2>1. m \in 0 .. Base - 1 /\ (m = 0 <=> k = Count) BY <1>1, <1>4, Sizes, SMT
  <2> HIDE DEF m
  <2>2. m % Base = m BY <2>1, Sizes, SmallRemainder
  <2> QED BY <2>1, <2>2 DEF m, n
<1> QED BY <1>3, <1>4

-----------------------------------------------------------------------------
(* Control and registers                                                    *)

\* The instruction is two bytes long: what is behind it is elsewhere.
LEMMA Behind == W(Program + 2) # Program /\ W(W(Program + 2) - 2) = Program
                  /\ W(Program + 2) \in 0 .. Size - 1
<1>1. W(W(Program + 2) - 2) = Program
  <2>1. W(W(Program + 2) + (0 - 2)) = W((Program + 2) + (0 - 2)) BY Sizes, WrapSum, SMT
  <2>2. (Program + 2) + (0 - 2) = Program BY Sizes, SMT
  <2>3. W(Program + 2) \in Int BY WrapRange, Sizes, SMT
  <2>4. W(Program + 2) + (0 - 2) = W(Program + 2) - 2 BY <2>3, SMT
  <2> QED BY <2>1, <2>2, <2>4, Sizes, WrapSmall
<1>2. W(Program + 2) # Program
  <2>1. CASE Program + 2 < Size
    <3>1. W(Program + 2) = Program + 2 BY <2>1, Sizes, WrapSmall, SMT
    <3> QED BY <3>1, Sizes, SMT
  <2>2. CASE Program + 2 >= Size
    <3> DEFINE n == (Program + 2) - Size
    <3>1. n \in 0 .. Size - 1 /\ n + Size = Program + 2 /\ n # Program BY <2>2, Sizes, SMT
    <3>2. n \in Int BY <3>1, Sizes, SMT
    <3> HIDE DEF n
    <3>3. W(n + Size) = n BY <3>1, <3>2, WrapAround, WrapSmall
    <3> QED BY <3>1, <3>3
  <2> QED BY <2>1, <2>2, Sizes, SMT
<1>3. W(Program + 2) \in 0 .. Size - 1 BY WrapRange, Sizes, SMT
<1> QED BY <1>1, <1>2, <1>3

\* What is in memory before the block.
LEMMA FilledType ==
    ASSUME NEW kind PROVE Filled(kind) \in [Addresses -> Bytes]
<1> SUFFICES ASSUME NEW addr \in Addresses PROVE Filled(kind)[addr] \in Bytes
  BY DEF Filled
<1>1. addr \in Int /\ addr % 5 \in Int BY Sizes, SMT DEF Addresses
<1>2. Opcode(0) \in Bytes /\ Opcode(1) \in Bytes /\ Opcode(2) \in Bytes
  BY DEF Opcode, Bytes
<1>3. Data(IF kind = "cp" THEN addr % 5 ELSE addr) \in Bytes BY <1>1 DEF Data, Bytes
<1> QED BY <1>2, <1>3 DEF Filled

\* The invariant of the registers holds at the first fetch.
LEMMA ControlInit == Init => ControlInv
<1> SUFFICES ASSUME Init PROVE ControlInv OBVIOUS
<1> USE DEF Init
<1>1. /\ block.kind \in {"ld", "cp", "in", "out"} /\ block.delta \in {1, -1}
      /\ block.hl \in Addresses /\ block.de \in Addresses /\ block.bc \in Addresses
      /\ Count \in 1 .. Size
  BY BlockFields, CountRange DEF Addresses
<1>2. TypeOK
  <2>1. mem \in [Addresses -> Bytes] BY FilledType
  <2>2. Program \in Addresses BY BlockAssumption
  <2>3. ports \in Seq(Int \X Bytes) /\ rounds \in Nat /\ interrupts \in Nat OBVIOUS
  <2> QED BY <1>1, <2>1, <2>2, <2>3 DEF TypeOK
<1>3. Registers
  <2>1. 0 <= Count BY <1>1, Sizes, SMT
  <2>2. At(block.hl, 0) = block.hl /\ At(block.de, 0) = block.de
    <3>1. /\ block.hl + block.delta * 0 = block.hl
          /\ block.de + block.delta * 0 = block.de
      BY <1>1, SMT DEF Addresses
    <3> QED BY <1>1, <3>1, WrapSmall DEF At, Addresses
  <2>3. W(block.bc - 0) = block.bc
    <3>1. block.bc - 0 = block.bc BY <1>1, Sizes, SMT DEF Addresses
    <3> QED BY <1>1, <3>1, WrapSmall DEF Addresses
  <2>4. block.bc = Base * ((B(block.bc) - 0) % Base) + (block.bc % Base)
    <3>1. B(block.bc) \in 0 .. Base - 1 BY <1>1, UpperHalf DEF Addresses
    <3>2. B(block.bc) - 0 = B(block.bc) BY <3>1, Sizes, SMT
    <3>3. B(block.bc) % Base = B(block.bc) BY <3>1, Sizes, SmallRemainder
    <3>4. block.bc \in Int BY <1>1, Sizes, SMT DEF Addresses
    <3>5. block.bc = Base * (block.bc \div Base) + (block.bc % Base)
      BY <3>4, Sizes, Division
    <3> QED BY <3>2, <3>3, <3>5 DEF B
  <2> QED BY <2>1, <2>2, <2>3, <2>4 DEF Registers
<1>4. Flags BY DEF Flags
<1>5. Control
  <2>1. 0 < Count BY <1>1, Sizes, SMT
  <2> QED BY <2>1, Behind DEF Control, Found
<1> QED BY <1>2, <1>3, <1>4, <1>5 DEF ControlInv

\* One more round is one of the block's.
LEMMA RoundCounts ==
    ASSUME ControlInv, Round
    PROVE  /\ rounds' = rounds + 1 /\ rounds + 1 \in 1 .. Count
           /\ rounds \in 0 .. Size - 1
           /\ block' = block /\ Count' = Count /\ ~Found
<1>1. rounds < Count /\ rounds \in Nat /\ block \in Blocks /\ ~Found
  BY DEF ControlInv, Control, TypeOK, Round
<1>2. Count \in 1 .. Size BY <1>1, CountRange
<1>3. ~(rounds > Size) BY <1>1, <1>2, Sizes, SMT
<1>4. rounds' = rounds + 1 /\ block' = block BY <1>3 DEF Round
<1>5. Count' = Count BY <1>4 DEF Count
<1> QED BY <1>1, <1>2, <1>4, <1>5, Sizes, SMT

\* What a pair counts next.
LEMMA NextCount ==
    ASSUME ControlInv
    PROVE  /\ block.kind \in {"ld", "cp"} => W(bc - 1) = W(block.bc - (rounds + 1))
           /\ block.kind \in {"in", "out"} =>
                /\ LowerB(bc) = Base * ((B(block.bc) - (rounds + 1)) % Base) + (block.bc % Base)
                /\ B(LowerB(bc)) = (B(block.bc) - (rounds + 1)) % Base
           /\ W(bc - 1) \in Addresses
           /\ block.kind \in {"in", "out"} => LowerB(bc) \in Addresses
<1>1. /\ block.bc \in 0 .. Size - 1 /\ rounds \in Nat /\ bc \in 0 .. Size - 1
      /\ B(block.bc) \in 0 .. Base - 1
  BY BlockFields, UpperHalf DEF ControlInv, TypeOK, Addresses
<1>2. W(bc - 1) \in Addresses BY <1>1, WrapRange, Sizes, SMT DEF Addresses
<1>3. ASSUME block.kind \in {"ld", "cp"} PROVE W(bc - 1) = W(block.bc - (rounds + 1))
  <2>1. bc = W(block.bc - rounds) BY <1>3 DEF ControlInv, Registers
  <2>2. block.bc - rounds \in Int /\ -1 \in Int BY <1>1, Sizes, SMT
  <2>3. W(W(block.bc - rounds) + (-1)) = W((block.bc - rounds) + (-1)) BY <2>2, WrapSum
  <2>4. (block.bc - rounds) + (-1) = block.bc - (rounds + 1) BY <1>1, Sizes, SMT
  <2>5. bc + (-1) = bc - 1 BY <1>1, Sizes, SMT
  <2> QED BY <2>1, <2>3, <2>4, <2>5
<1>4. ASSUME block.kind \in {"in", "out"}
      PROVE  /\ LowerB(bc) = Base * ((B(block.bc) - (rounds + 1)) % Base) + (block.bc % Base)
             /\ B(LowerB(bc)) = (B(block.bc) - (rounds + 1)) % Base
             /\ LowerB(bc) \in Addresses
  <2> DEFINE b == B(block.bc)
             l == block.bc % Base
             h == (b - rounds) % Base
             g == (b - (rounds + 1)) % Base
  <2>1. bc = Base * h + l BY <1>4 DEF ControlInv, Registers
  <2>2. b - rounds \in Int /\ b - (rounds + 1) \in Int /\ block.bc \in Int
    BY <1>1, Sizes, SMT
  <2>3. h \in 0 .. Base - 1 /\ g \in 0 .. Base - 1 /\ l \in 0 .. Base - 1
    BY <2>2, Sizes, RemainderRange
  <2>4. (h + (-1)) % Base = ((b - rounds) + (-1)) % Base
    <3>1. -1 \in Int OBVIOUS
    <3> QED BY <2>2, <3>1, Sizes, EarlyRemainder
  <2>5. (b - rounds) + (-1) = b - (rounds + 1)
    BY <1>1, Sizes, SMT
  <2>6. h + (-1) = h - 1 BY <2>3, Sizes, SMT
  <2>7. (h - 1) % Base = g BY <2>4, <2>5, <2>6
  <2> HIDE DEF h, l, g
  <2>8. B(bc) = h /\ bc % Base = l BY <2>1, <2>3, Halves
  <2>9. LowerB(bc) = Base * g + l BY <2>7, <2>8 DEF LowerB
  <2>10. B(LowerB(bc)) = g /\ LowerB(bc) \in Addresses
    BY <2>3, <2>9, Halves DEF Addresses
  <2> QED BY <2>9, <2>10 DEF g, l
<1> QED BY <1>2, <1>3, <1>4

\* Each kind of round leaves values of the registers' widths.
LEMMA RoundTypes == ASSUME ControlInv, Round PROVE TypeOK'
<1> USE DEF TypeOK
<1>1. TypeOK /\ rounds' \in Nat /\ block' = block /\ UNCHANGED <<status, interrupts>>
  BY RoundCounts, SMT DEF ControlInv, Round
<1>2. \A n \in Int : W(n) \in Addresses BY WrapRange DEF Addresses
<1>3. /\ W(hl + block.delta) \in Addresses /\ W(de + block.delta) \in Addresses
      /\ W(pc + 2) \in Addresses /\ W(W(pc + 2) - 2) \in Addresses
  <2>1. hl + block.delta \in Int /\ de + block.delta \in Int /\ pc + 2 \in Int
    BY <1>1, BlockFields, Sizes, SMT DEF Addresses
  <2>2. W(pc + 2) \in Int BY <1>2, <2>1, Sizes, SMT DEF Addresses
  <2>3. W(pc + 2) - 2 \in Int BY <2>2, SMT
  <2> QED BY <1>2, <2>1, <2>3
<1>4. ASSUME NEW again, GoBack(again) PROVE pc' \in Addresses BY <1>3, <1>4 DEF GoBack
<1>5. Len(ports) \in Nat BY <1>1
<1>6. Input(Len(ports) + 1) \in Bytes
  <2>1. Len(ports) + 1 \in Int BY <1>5
  <2> QED BY <2>1 DEF Input, Bytes
<1>7. CASE block.kind = "ld" /\ LdRound
  <2>1. hl' \in Addresses /\ de' \in Addresses /\ bc' \in Addresses
    BY <1>3, <1>7, NextCount DEF LdRound
  <2>2. pc' \in Addresses BY <1>4, <1>7 DEF LdRound
  <2>3. mem' \in [Addresses -> Bytes] BY <1>1, <1>7 DEF LdRound
  <2> QED BY <1>1, <1>7, <2>1, <2>2, <2>3 DEF LdRound
<1>8. CASE block.kind = "cp" /\ CpRound
  <2>1. hl' \in Addresses /\ bc' \in Addresses BY <1>3, <1>8, NextCount DEF CpRound
  <2>2. pc' \in Addresses BY <1>4, <1>8 DEF CpRound
  <2> QED BY <1>1, <1>8, <2>1, <2>2 DEF CpRound
<1>9. CASE block.kind = "in" /\ InRound
  <2>1. hl' \in Addresses /\ bc' \in Addresses BY <1>3, <1>9, NextCount DEF InRound
  <2>2. pc' \in Addresses BY <1>4, <1>9 DEF InRound
  <2>3. mem' \in [Addresses -> Bytes] BY <1>1, <1>6, <1>9 DEF InRound
  <2>4. bc \in Int BY <1>1, Sizes, SMT DEF Addresses
  <2>5. ports' \in Seq(Int \X Bytes)
    <3>1. <<bc, Input(Len(ports) + 1)>> \in Int \X Bytes BY <1>6, <2>4
    <3> QED BY <1>1, <1>9, <3>1 DEF InRound
  <2> QED BY <1>1, <1>9, <2>1, <2>2, <2>3, <2>5 DEF InRound
<1>10. CASE block.kind = "out" /\ OutRound
  <2>1. hl' \in Addresses /\ bc' \in Addresses BY <1>3, <1>10, NextCount DEF OutRound
  <2>2. pc' \in Addresses BY <1>4, <1>10 DEF OutRound
  <2>3. bc' \in Int /\ mem[hl] \in Bytes BY <1>1, <2>1, Sizes, SMT DEF Addresses
  <2>4. ports' \in Seq(Int \X Bytes)
    <3>1. <<bc', mem[hl]>> \in Int \X Bytes BY <2>3
    <3> QED BY <1>1, <1>10, <3>1 DEF OutRound
  <2> QED BY <1>1, <1>10, <2>1, <2>2, <2>4 DEF OutRound
<1> QED BY <1>7, <1>8, <1>9, <1>10 DEF Round

\* A round takes the registers on by one.
LEMMA RoundRegisters == ASSUME ControlInv, Round PROVE Registers'
<1>1. /\ rounds' = rounds + 1 /\ rounds' <= Count' /\ block' = block
      /\ rounds \in Int
  BY RoundCounts, Sizes, SMT
<1>2. /\ block.delta \in {1, -1} /\ block.hl \in Int /\ block.de \in Int
      /\ hl = At(block.hl, rounds)
      /\ block.kind = "ld" => de = At(block.de, rounds)
  BY BlockFields, Sizes, SMT DEF ControlInv, TypeOK, Registers
<1>3. W(hl + block.delta) = At(block.hl, rounds + 1) BY <1>1, <1>2, NextAt
<1>4. block.kind = "ld" => W(de + block.delta) = At(block.de, rounds + 1)
  BY <1>1, <1>2, NextAt
<1>5. hl' = W(hl + block.delta) /\ (block.kind = "ld" => de' = W(de + block.delta))
  BY DEF Round, LdRound, CpRound, InRound, OutRound
<1>6. hl' = W(block'.hl + block'.delta * rounds') BY <1>1, <1>3, <1>5 DEF At
<1>7. block.kind = "ld" => de' = W(block'.de + block'.delta * rounds')
  BY <1>1, <1>4, <1>5 DEF At
<1>8. block.kind \in {"ld", "cp"} => bc' = W(block'.bc - rounds')
  BY <1>1, NextCount DEF Round, LdRound, CpRound
<1>9. block.kind \in {"in", "out"} =>
        bc' = Base * ((B(block'.bc) - rounds') % Base) + (block'.bc % Base)
  BY <1>1, NextCount DEF Round, InRound, OutRound
<1> QED BY <1>1, <1>6, <1>7, <1>8, <1>9 DEF Registers, At

\* The flags of a round, and whether it goes back, agree with the rounds left.
LEMMA RoundControl == ASSUME ControlInv, Round PROVE Flags' /\ Control'
<1> DEFINE k == rounds + 1
<1>1. /\ rounds' = k /\ k \in 1 .. Count /\ block' = block /\ Count' = Count
      /\ block \in Blocks /\ pc = Program /\ status = "program" /\ status' = "program"
      /\ Count \in 1 .. Size
  BY RoundCounts, CountRange DEF ControlInv, TypeOK, Round
<1>2. /\ k > 0 /\ (k < Count <=> k # Count) /\ k > 0
  BY <1>1, Sizes, SMT
<1>3. block.kind \in {"ld", "cp", "in", "out"} /\ block.repeat \in BOOLEAN
  BY <1>1, BlockFields
<1> HIDE DEF k
<1>4. ASSUME block.kind \in {"ld", "cp"} PROVE (W(bc - 1) # 0) = (k < Count)
  <2>1. W(bc - 1) = W(block.bc - k) BY <1>4, NextCount DEF k
  <2>2. (W(block.bc - k) = 0) <=> (k = Count) BY <1>1, <1>4, CountsDown
  <2> QED BY <1>2, <2>1, <2>2
<1>5. ASSUME block.kind \in {"in", "out"} PROVE (B(LowerB(bc)) = 0) = (k = Count)
  <2>1. B(LowerB(bc)) = (B(block.bc) - k) % Base BY <1>5, NextCount DEF k
  <2>2. ((B(block.bc) - k) % Base = 0) <=> (k = Count) BY <1>1, <1>5, CountsDownB
  <2> QED BY <2>1, <2>2
<1>6. ASSUME NEW again \in BOOLEAN, GoBack(again)
      PROVE  /\ pc' = Program => block.repeat /\ again
             /\ pc' \in {Program, W(Program + 2)}
             /\ pc' = W(Program + 2) => ~(block.repeat /\ again)
  BY <1>1, <1>6, Behind DEF GoBack
<1>7. CASE block.kind = "ld" /\ LdRound
  <2>1. pf' = (k < Count) /\ GoBack(pf') /\ pf' \in BOOLEAN BY <1>4, <1>7 DEF LdRound
  <2>2. Flags' BY <1>1, <1>7, <2>1 DEF Flags
  <2>3. /\ pc' = Program => k < Count
        /\ pc' \in {Program, W(Program + 2)}
        /\ pc' = W(Program + 2) => ~(block.repeat /\ k < Count)
    <3>1. /\ pc' = Program => block.repeat /\ pf'
          /\ pc' \in {Program, W(Program + 2)}
          /\ pc' = W(Program + 2) => ~(block.repeat /\ pf')
      BY <1>6, <2>1
    <3> QED BY <2>1, <3>1
  <2>4. Control' BY <1>1, <1>2, <1>7, <2>3 DEF Control, Found
  <2> QED BY <2>2, <2>4
<1>8. CASE block.kind = "cp" /\ CpRound
  <2>1. pf' = (k < Count) /\ GoBack(k < Count /\ ~zf') /\ zf' \in BOOLEAN
    BY <1>4, <1>8 DEF CpRound
  <2>2. Flags' BY <1>1, <1>8, <2>1 DEF Flags
  <2>3. /\ pc' = Program => k < Count /\ ~zf'
        /\ pc' \in {Program, W(Program + 2)}
        /\ pc' = W(Program + 2) => ~(block.repeat /\ k < Count /\ ~zf')
    BY <1>6, <2>1
  <2>4. Control' BY <1>1, <1>2, <1>8, <2>1, <2>3 DEF Control, Found
  <2> QED BY <2>2, <2>4
<1>9. CASE block.kind \in {"in", "out"} /\ (InRound \/ OutRound)
  <2>1. zf' = (k = Count) /\ GoBack(k # Count)
    BY <1>5, <1>9 DEF InRound, OutRound
  <2>2. Flags' BY <1>1, <1>9, <2>1 DEF Flags
  <2>3. /\ pc' = Program => k # Count
        /\ pc' \in {Program, W(Program + 2)}
        /\ pc' = W(Program + 2) => ~(block.repeat /\ k # Count)
    BY <1>6, <2>1
  <2>4. Control' BY <1>1, <1>2, <1>9, <2>3 DEF Control, Found
  <2> QED BY <2>2, <2>4
<1> QED BY <1>7, <1>8, <1>9 DEF Round

\* Steps that leave the block's registers alone leave what it counts.
LEMMA RegistersStay ==
    ASSUME ControlInv, UNCHANGED <<block, hl, de, bc, zf, pf, rounds>>
    PROVE  Registers' /\ Flags' /\ Count' = Count /\ (Found' <=> Found)
BY DEF ControlInv, Registers, Flags, Count, Found, At

\* The two bytes an interrupt pushes are in memory.
LEMMA StackAddresses == W(StackTop - 2) \in Addresses /\ Stack \subseteq Addresses
                          /\ W(StackTop - 2) \in Stack
BY WrapRange, Sizes, SMT DEF Stack, Addresses

\* Every round, interrupt and return keeps it.
LEMMA ControlNext == ControlInv /\ [Next]_vars => ControlInv'
<1> SUFFICES ASSUME ControlInv, [Next]_vars PROVE ControlInv' OBVIOUS
<1> USE DEF ControlInv
<1>1. CASE Round BY <1>1, RoundTypes, RoundRegisters, RoundControl
<1>2. CASE Follow
  <2>1. /\ UNCHANGED <<block, hl, de, bc, mem, zf, pf, rounds, ports, interrupts>>
        /\ status = "program" /\ pc = W(Program + 2)
    BY <1>2 DEF Follow
  <2>2. Registers' /\ Flags' /\ Count' = Count /\ (Found' <=> Found)
    BY <2>1, RegistersStay
  <2>3. /\ rounds > 0 /\ rounds <= Count /\ (block.repeat => rounds = Count \/ Found)
        /\ block \in Blocks /\ rounds \in Nat
    BY <2>1 DEF Control, Registers, TypeOK
  <2>4. Count \in 1 .. Size BY <2>3, CountRange
  <2>5. rounds < Count \/ rounds = Count BY <2>3, <2>4, Sizes, SMT
  <2>6. CASE block.repeat /\ status' = "done" /\ UNCHANGED pc
    BY <2>1, <2>2, <2>3, <2>6, Behind DEF TypeOK, Control
  <2>7. CASE ~block.repeat /\ JumpsBack /\ pc' = Program /\ UNCHANGED status
    <3>1. rounds < Count /\ ~Found
      BY <2>3, <2>5, <2>7, BlockFields DEF JumpsBack, Flags, Found
    <3> QED BY <2>1, <2>2, <2>7, <3>1, Behind, Sizes DEF TypeOK, Control, Addresses
  <2>8. CASE ~block.repeat /\ ~JumpsBack /\ status' = "done" /\ UNCHANGED pc
    <3>1. rounds = Count \/ Found
      BY <2>3, <2>5, <2>8, BlockFields DEF JumpsBack, Flags, Found
    <3> QED BY <2>1, <2>2, <2>3, <2>8, <3>1, Behind DEF TypeOK, Control
  <2>9. CASE ~block.repeat /\ status' = "elsewhere" /\ UNCHANGED pc
    BY <2>1, <2>2, <2>9 DEF TypeOK, Control
  <2> QED BY <1>2, <2>6, <2>7, <2>8, <2>9 DEF Follow
<1>3. CASE Overwritten
  <2>1. /\ UNCHANGED <<block, hl, de, bc, pc, mem, zf, pf, rounds, ports, interrupts>>
        /\ status' = "elsewhere"
    BY <1>3 DEF Overwritten
  <2> QED BY <2>1, RegistersStay DEF TypeOK, Control
<1>4. CASE Interrupt
  <2>1. /\ UNCHANGED <<block, hl, de, bc, pc, zf, pf, rounds, ports>>
        /\ status = "program" /\ status' = "handler" /\ interrupts' = interrupts + 1
        /\ mem' = [addr \in Addresses |-> IF addr \in Stack THEN Frame(pc) ELSE mem[addr]]
    BY <1>4 DEF Interrupt
  <2>2. Frame(pc) \in Bytes /\ interrupts + 1 \in Nat
    <3>1. pc \in Int BY Sizes, SMT DEF TypeOK, Addresses
    <3> QED BY <3>1 DEF Frame, Bytes, TypeOK
  <2>3. mem' \in [Addresses -> Bytes] BY <2>1, <2>2 DEF TypeOK
  <2>4. mem'[W(StackTop - 2)] = Frame(pc') BY <2>1, StackAddresses
  <2>5. TypeOK' BY <2>1, <2>2, <2>3 DEF TypeOK
  <2> QED BY <2>1, <2>4, <2>5, RegistersStay DEF Control
<1>5. CASE Return
  <2>1. /\ UNCHANGED <<block, hl, de, bc, mem, zf, pf, rounds, ports, interrupts>>
        /\ status = "handler" /\ status' = "program"
        /\ pc' = mem[W(StackTop - 2)][2]
    BY <1>5 DEF Return
  <2>2. pc' = pc BY <2>1 DEF Control, Frame
  <2> QED BY <2>1, <2>2, RegistersStay DEF TypeOK, Control
<1>6. CASE UNCHANGED vars
  BY <1>6, RegistersStay DEF vars, TypeOK, Control
<1> QED BY <1>1, <1>2, <1>3, <1>4, <1>5, <1>6 DEF Next, Ended

\* So it holds always.
LEMMA ControlAlways == Spec => []ControlInv
BY ControlInit, ControlNext, PTL DEF Spec

\* For registers of any width, any program address and stack, and any number of
\* interrupts: a block that is done has made its rounds, no more and no fewer,
\* or was a search that found.
THEOREM RoundsAreExact == Spec => []RoundsExact
<1>1. ControlInv => RoundsExact
  <2> SUFFICES ASSUME ControlInv, status = "done" PROVE rounds = Count \/
                 (block.kind = "cp" /\ rounds < Count /\ zf)
    BY DEF RoundsExact
  <2>1. rounds <= Count /\ rounds \in Nat /\ Count \in 1 .. Size
    BY CountRange DEF ControlInv, Registers, TypeOK
  <2>2. rounds < Count \/ rounds = Count BY <2>1, Sizes, SMT
  <2> QED BY <2>2 DEF ControlInv, Control, Found
<1> QED BY ControlAlways, <1>1, PTL

-----------------------------------------------------------------------------
(* Copying                                                                  *)

\* Where the byte of place j of the destination came from.
Origin(j) == IF Distance = 0 THEN j ELSE j % Distance

CopiedByte(k, addr) ==
    Filled("ld")[IF Place(block.de, addr) < k THEN At(block.hl, Origin(Place(block.de, addr)))
                                              ELSE addr]

\* What memory holds after k rounds, address by address.
LEMMA CopiedBytes ==
    ASSUME NEW k, NEW addr \in Addresses PROVE Copied(k)[addr] = CopiedByte(k, addr)
BY DEF Copied, CopiedByte, Place, Origin

\* The distance between source and destination is an address.
LEMMA DistanceRange == ASSUME block \in Blocks PROVE Distance \in 0 .. Size - 1
<1>1. block.delta \in {1, -1} /\ block.de \in Int /\ block.hl \in Int
  BY BlockFields, Sizes, SMT
<1>2. block.delta * (block.de - block.hl) \in Int BY <1>1, SMT
<1> QED BY <1>2, WrapRange DEF Distance

\* The source lies Distance places behind the destination.
LEMMA SourcePlace ==
    ASSUME block \in Blocks, NEW k \in 0 .. Size - 1
    PROVE  Place(block.de, At(block.hl, k)) = W(k - Distance)
<1> DEFINE h == block.hl
           d == block.de
<1>1. block.delta \in {1, -1} /\ h \in Int /\ d \in Int /\ k \in Int
  BY BlockFields, Sizes, SMT
<1>2. CASE block.delta = 1
  <2>1. At(h, k) = W(h + k) /\ Distance = W(d - h) BY <1>1, <1>2, SMT DEF At, Distance
  <2>2. h + k \in Int /\ 0 - d \in Int /\ d - h \in Int BY <1>1, SMT
  <2>3. W(h + k) \in Int BY <2>2, WrapRange, Sizes
  <2>4. 1 * (W(h + k) - d) = W(h + k) + (0 - d) BY <1>1, <2>3, SMT
  <2>5. W(W(h + k) + (0 - d)) = W((h + k) + (0 - d)) BY <2>2, WrapSum
  <2>6. W(k - W(d - h)) = W(k - (d - h)) BY <1>1, <2>2, WrapDifference
  <2>7. (h + k) + (0 - d) = k - (d - h) BY <1>1, SMT
  <2> QED BY <1>2, <2>1, <2>4, <2>5, <2>6, <2>7 DEF Place
<1>3. CASE block.delta = -1
  <2>1. At(h, k) = W(h - k) /\ Distance = W(h - d) BY <1>1, <1>3, SMT DEF At, Distance
  <2>2. h - k \in Int /\ h - d \in Int BY <1>1, SMT
  <2>3. W(h - k) \in Int BY <2>2, WrapRange, Sizes
  <2>4. (-1) * (W(h - k) - d) = d - W(h - k) BY <1>1, <2>3, SMT
  <2>5. W(d - W(h - k)) = W(d - (h - k)) BY <1>1, <2>2, WrapDifference
  <2>6. W(k - W(h - d)) = W(k - (h - d)) BY <1>1, <2>2, WrapDifference
  <2>7. d - (h - k) = k - (h - d) BY <1>1, SMT
  <2> QED BY <1>3, <2>1, <2>4, <2>5, <2>6, <2>7 DEF Place
<1> QED BY <1>1, <1>2, <1>3

\* After k rounds the next source byte is still the original one, or the one
\* that was copied there Distance rounds ago.
LEMMA SourceByte ==
    ASSUME block \in Blocks, NEW k \in 0 .. Size - 1
    PROVE  Copied(k)[At(block.hl, k)] = Filled("ld")[At(block.hl, Origin(k))]
<1> DEFINE d == Distance
           p == Place(block.de, At(block.hl, k))
<1>1. d \in 0 .. Size - 1 /\ p = W(k - d) /\ k \in Int /\ d \in Int
  BY DistanceRange, SourcePlace, Sizes, SMT
<1>2. At(block.hl, k) \in Addresses
  <2>1. block.delta \in {1, -1} /\ block.hl \in Int BY BlockFields, Sizes, SMT
  <2> QED BY <1>1, <2>1, AtRange DEF Addresses
<1>3. Copied(k)[At(block.hl, k)] = CopiedByte(k, At(block.hl, k))
  BY <1>2, CopiedBytes
<1>4. CASE d = 0
  <2>1. k - d = k BY <1>1, <1>4, SMT
  <2>2. p = k BY <1>1, <2>1, WrapSmall
  <2>3. ~(p < k) BY <1>1, <2>2, SMT
  <2>4. Origin(k) = k BY <1>4 DEF Origin
  <2> QED BY <1>3, <2>3, <2>4 DEF CopiedByte
<1>5. CASE d > 0 /\ k < d
  <2>1. k - d \in Int /\ (k - d) + Size \in 0 .. Size - 1 /\ ~((k - d) + Size < k)
    BY <1>1, <1>5, Sizes, SMT
  <2>2. W((k - d) + Size) = W(k - d) BY <2>1, WrapAround
  <2>3. p = (k - d) + Size BY <1>1, <2>1, <2>2, WrapSmall
  <2>4. ~(p < k) BY <2>1, <2>3
  <2>5. k % d = k
    <3>1. d \in Nat \ {0} /\ k \in 0 .. d - 1 BY <1>1, <1>5, Sizes, SMT
    <3> HIDE DEF d
    <3> QED BY <3>1, SmallRemainder
  <2>6. Origin(k) = k BY <1>1, <1>5, <2>5, SMT DEF Origin
  <2> QED BY <1>3, <2>4, <2>6 DEF CopiedByte
<1>6. CASE d > 0 /\ ~(k < d)
  <2> DEFINE j == k - d
  <2>1. j \in 0 .. Size - 1 /\ j < k /\ j \in Int /\ k = j + d * 1 /\ d \in Nat \ {0}
    BY <1>1, <1>6, Sizes, SMT
  <2>2. p = j BY <1>1, <2>1, WrapSmall
  <2>3. k % d = j % d
    <3> HIDE DEF d, j
    <3>1. 1 \in Int OBVIOUS
    <3> QED BY <1>1, <2>1, <3>1, ShiftRemainder
  <2>4. Origin(k) = Origin(p) BY <1>6, <2>1, <2>2, <2>3, SMT DEF Origin
  <2> QED BY <1>3, <2>1, <2>2, <2>4 DEF CopiedByte
<1> QED BY <1>1, <1>4, <1>5, <1>6, Sizes, SMT

\* Writing the next byte turns the copy of k bytes into that of k + 1.
LEMMA CopyNext ==
    ASSUME block \in Blocks, NEW k \in 0 .. Size - 1, NEW addr \in Addresses
    PROVE  Copied(k + 1)[addr] = IF addr = At(block.de, k)
                                   THEN Copied(k)[At(block.hl, k)] ELSE Copied(k)[addr]
<1> DEFINE p == Place(block.de, addr)
<1>1. block.delta \in {1, -1} /\ block.de \in Int /\ k \in Int BY BlockFields, Sizes, SMT
<1>2. CASE addr = At(block.de, k)
  <2>1. p = k BY <1>1, <1>2, PlaceAt
  <2>2. p < k + 1 BY <1>1, <2>1, SMT
  <2>3. Copied(k + 1)[addr] = Filled("ld")[At(block.hl, Origin(k))]
    BY <2>1, <2>2, CopiedBytes DEF CopiedByte
  <2> QED BY <1>2, <2>3, SourceByte
<1>3. CASE addr # At(block.de, k)
  <2>1. p \in Int
    <3>1. block.delta * (addr - block.de) \in Int BY <1>1, Sizes, SMT DEF Addresses
    <3> QED BY <3>1, WrapRange, Sizes DEF Place
  <2>2. p # k
    <3>1. At(block.de, p) = addr BY <1>1, AtPlace DEF Addresses
    <3> QED BY <1>3, <3>1
  <2>3. (p < k + 1) = (p < k) BY <1>1, <2>1, <2>2, SMT
  <2>4. CopiedByte(k + 1, addr) = CopiedByte(k, addr) BY <2>3 DEF CopiedByte
  <2> QED BY <1>3, <2>4, CopiedBytes
<1> QED BY <1>2, <1>3

-----------------------------------------------------------------------------
(* Memory and ports                                                         *)

\* The places of a block are different addresses.
LEMMA PlacesDiffer ==
    ASSUME block.delta \in {1, -1}, NEW start \in Int,
           NEW i \in 0 .. Size - 1, NEW j \in 0 .. Size - 1, i # j
    PROVE  At(start, i) # At(start, j)
BY PlaceAt

\* What an interrupt may not touch, it has not touched.
LEMMA Clear ==
    ASSUME block \in Blocks, Undisturbed, NEW j \in 0 .. Count - 1
    PROVE  /\ At(block.hl, j) \in Addresses \ Exempt
           /\ block.kind = "ld" => At(block.de, j) \in Addresses \ Exempt
<1>1. block.delta \in {1, -1} /\ block.hl \in Int /\ block.de \in Int /\ j \in Int
  BY BlockFields, CountRange, Sizes, SMT
<1>2. At(block.hl, j) \in Addresses /\ At(block.de, j) \in Addresses
  BY <1>1, AtRange DEF Addresses
<1> QED BY <1>2 DEF Undisturbed, Exempt

\* Interrupts add to what they have touched and take nothing back.
LEMMA UndisturbedBefore ==
    ASSUME ControlInv, [Next]_vars, Undisturbed'
    PROVE  /\ Undisturbed /\ Exempt \subseteq Exempt' /\ block' = block
           /\ \A j \in 0 .. Count - 1 :
                /\ At(block.hl, j) \in Addresses \ Exempt'
                /\ block.kind = "ld" => At(block.de, j) \in Addresses \ Exempt'
<1>1. block' = block /\ (interrupts' = interrupts \/ interrupts' = interrupts + 1)
  BY DEF Next, Round, Follow, Overwritten, Interrupt, Return, Ended, vars
<1>2. interrupts \in Nat /\ block \in Blocks BY DEF ControlInv, TypeOK
<1>3. Exempt \subseteq Exempt' BY <1>1, <1>2, SMT DEF Exempt
<1>4. interrupts' = 0 => interrupts = 0 BY <1>1, <1>2, SMT
<1>5. Count' = Count BY <1>1 DEF Count
<1>6. Undisturbed BY <1>1, <1>4, <1>5 DEF Undisturbed, At
<1>7. ASSUME NEW j \in 0 .. Count - 1
      PROVE  /\ At(block.hl, j) \in Addresses \ Exempt'
             /\ block.kind = "ld" => At(block.de, j) \in Addresses \ Exempt'
  <2>1. /\ At(block.hl, j) \in Addresses
        /\ block.kind = "ld" => At(block.de, j) \in Addresses
    BY <1>2, <1>6, Clear
  <2> QED BY <1>1, <1>5, <2>1 DEF Undisturbed, Exempt, At
<1> QED BY <1>1, <1>3, <1>6, <1>7

\* The invariant of memory and ports holds at the first fetch.
LEMMA MemoryInit == Init => MemoryInv
<1> SUFFICES ASSUME Init PROVE Copying /\ Reading /\ Searching /\ Transmitting
  BY DEF MemoryInv
<1>1. /\ block \in Blocks /\ rounds = 0 /\ ports = <<>> /\ interrupts = 0
      /\ mem = Filled(block.kind)
  BY DEF Init
<1>2. Copying
  <2> SUFFICES ASSUME block.kind = "ld", NEW addr \in Addresses
               PROVE  mem[addr] = Copied(0)[addr]
    BY <1>1 DEF Copying
  <2>1. block.delta \in {1, -1} /\ block.de \in Int BY <1>1, BlockFields, Sizes, SMT
  <2>2. block.delta * (addr - block.de) \in Int BY <2>1, Sizes, SMT DEF Addresses
  <2>3. Place(block.de, addr) \in 0 .. Size - 1 BY <2>2, WrapRange DEF Place
  <2>4. ~(Place(block.de, addr) < 0) BY <2>3, Sizes, SMT
  <2> QED BY <1>1, <2>4, CopiedBytes DEF CopiedByte
<1>3. Reading BY <1>1 DEF Reading
<1>4. Searching BY <1>1, SMT DEF Searching
<1>5. Transmitting BY <1>1, SMT DEF Transmitting
<1> QED BY <1>2, <1>3, <1>4, <1>5

\* A step that makes no round leaves what the block has done.
LEMMA MemoryStays ==
    ASSUME ControlInv, MemoryInv, Undisturbed, Undisturbed', Exempt \subseteq Exempt',
           UNCHANGED <<block, zf, rounds, ports>>,
           \A addr \in Addresses \ Exempt' : mem'[addr] = mem[addr],
           \A j \in 0 .. Count - 1 : At(block.hl, j) \in Addresses \ Exempt'
    PROVE  MemoryInv'
<1>1. Copying /\ Reading /\ Searching /\ Transmitting BY DEF MemoryInv
<1>3. Copying'
  <2> SUFFICES ASSUME block.kind = "ld", NEW addr \in Addresses \ Exempt'
               PROVE  mem'[addr] = Copied(rounds)'[addr]
    BY DEF Copying
  <2> QED BY <1>1 DEF Copying, Copied, Distance, At
<1>4. Reading' BY <1>1 DEF Reading
<1>5. Searching' BY <1>1 DEF Searching, Hit, At
<1>6. Transmitting'
  <2> SUFFICES ASSUME block.kind \in {"in", "out"}
               PROVE  Transmitting'
    BY DEF Transmitting
  <2>1. rounds <= Count /\ rounds \in Nat /\ Count \in 1 .. Size
    BY CountRange DEF ControlInv, Registers, TypeOK
  <2>2. ASSUME NEW j \in 1 .. rounds
        PROVE  mem'[At(block.hl, j - 1)] = mem[At(block.hl, j - 1)]
    <3>1. j - 1 \in 0 .. Count - 1 BY <2>1, Sizes, SMT
    <3> QED BY <3>1
  <2> QED BY <1>1, <2>2 DEF Transmitting, PortOf, At
<1> QED BY <1>3, <1>4, <1>5, <1>6 DEF MemoryInv

\* What a round finds: its place, and what the rounds before it left there.
LEMMA RoundPlace ==
    ASSUME ControlInv, MemoryInv, Round, Undisturbed'
    PROVE  /\ Copying /\ Reading /\ Searching /\ Transmitting
           /\ hl = At(block.hl, rounds) /\ hl \in Addresses \ Exempt
           /\ block.kind = "ld" =>
                de = At(block.de, rounds) /\ de \in Addresses \ Exempt
           /\ block' = block /\ interrupts' = interrupts /\ rounds' = rounds + 1
           /\ rounds \in 0 .. Size - 1 /\ rounds \in 0 .. Count - 1
<1>1. Undisturbed BY UndisturbedBefore DEF Next
<1>2. rounds \in 0 .. Count - 1 /\ rounds \in 0 .. Size - 1 /\ block \in Blocks
  BY RoundCounts, CountRange, Sizes, SMT DEF ControlInv, TypeOK
<1>3. /\ At(block.hl, rounds) \in Addresses \ Exempt
      /\ block.kind = "ld" => At(block.de, rounds) \in Addresses \ Exempt
  BY <1>1, <1>2, Clear
<1> QED BY <1>1, <1>2, <1>3, RoundCounts DEF ControlInv, Registers, MemoryInv, Round

\* A copied byte is the one CopyNext says.
LEMMA CopyRound ==
    ASSUME ControlInv, MemoryInv, Undisturbed', Round, block.kind = "ld" PROVE MemoryInv'
<1>1. /\ Copying /\ hl = At(block.hl, rounds) /\ hl \in Addresses \ Exempt
      /\ de = At(block.de, rounds) /\ block' = block /\ interrupts' = interrupts
      /\ rounds' = rounds + 1 /\ rounds \in 0 .. Size - 1
      /\ block \in Blocks /\ mem \in [Addresses -> Bytes]
  BY RoundPlace DEF ControlInv, TypeOK
<1>2. mem' = [mem EXCEPT ![de] = mem[hl]] BY DEF Round, LdRound
<1>3. ASSUME NEW addr \in Addresses \ Exempt PROVE mem'[addr] = Copied(rounds + 1)[addr]
  <2>1. Copied(rounds + 1)[addr] =
          IF addr = de THEN Copied(rounds)[hl] ELSE Copied(rounds)[addr]
    BY <1>1, CopyNext
  <2>2. mem[addr] = Copied(rounds)[addr] /\ mem[hl] = Copied(rounds)[hl]
    BY <1>1 DEF Copying
  <2> QED BY <1>1, <1>2, <2>1, <2>2
<1>4. Exempt' = Exempt BY <1>1 DEF Exempt
<1>5. Copying' BY <1>1, <1>3, <1>4 DEF Copying, Copied, Distance, At
<1> QED BY <1>1, <1>5 DEF MemoryInv, Reading, Searching, Transmitting

\* A byte that is looked at is that of its place, and it was not met before.
LEMMA SearchRound ==
    ASSUME ControlInv, MemoryInv, Undisturbed', Round, block.kind = "cp" PROVE MemoryInv'
<1>1. /\ Reading /\ Searching /\ hl = At(block.hl, rounds) /\ hl \in Addresses \ Exempt
      /\ block' = block /\ interrupts' = interrupts /\ rounds' = rounds + 1
      /\ rounds \in 0 .. Size - 1 /\ ~Found
  BY RoundPlace, RoundCounts
<1>2. mem' = mem /\ zf' = (mem[hl] = block.key) BY DEF Round, CpRound
<1>3. Reading' BY <1>1, <1>2 DEF Reading, Exempt
<1>4. zf' = Hit(rounds) BY <1>1, <1>2 DEF Reading, Hit
<1>5. ASSUME NEW j \in 0 .. rounds - 1 PROVE ~Hit(j)
  <2>1. CASE j = rounds - 1
    <3>1. rounds > 0 BY <1>1, <2>1, Sizes, SMT
    <3>2. ~zf BY <1>1, <3>1 DEF Found
    <3> QED BY <1>1, <2>1, <3>1, <3>2 DEF Searching
  <2>2. CASE j # rounds - 1
    <3>1. j \in 0 .. rounds - 2 BY <1>1, <2>2, Sizes, SMT
    <3> QED BY <1>1, <3>1 DEF Searching
  <2> QED BY <2>1, <2>2
<1>6. Searching'
  <2>1. rounds' - 2 = rounds - 1 /\ rounds' - 1 = rounds BY <1>1, Sizes, SMT
  <2> QED BY <1>1, <1>4, <1>5, <2>1 DEF Searching, Hit, At
<1> QED BY <1>1, <1>3, <1>6 DEF MemoryInv, Copying, Transmitting

\* A byte that goes out or comes in is that of its place, and the bytes that
\* came before it stay.
LEMMA PortRound ==
    ASSUME ControlInv, MemoryInv, Undisturbed', Round, block.kind \in {"in", "out"}
    PROVE  MemoryInv'
<1>1. /\ Reading /\ Transmitting /\ hl = At(block.hl, rounds) /\ hl \in Addresses \ Exempt
      /\ block' = block /\ interrupts' = interrupts /\ rounds' = rounds + 1
      /\ rounds \in 0 .. Size - 1 /\ block \in Blocks /\ mem \in [Addresses -> Bytes]
      /\ ports \in Seq(Int \X Bytes)
      /\ block.hl \in Int /\ block.delta \in {1, -1}
  BY RoundPlace, BlockFields, Sizes, SMT DEF ControlInv, TypeOK
<1>2. /\ Len(ports) = rounds
      /\ \A j \in 1 .. rounds :
           /\ ports[j][1] = PortOf(j)
           /\ block.kind = "in" => ports[j][2] = Input(j) /\ mem[At(block.hl, j - 1)] = Input(j)
           /\ block.kind = "out" => ports[j][2] = Filled("out")[At(block.hl, j - 1)]
  BY <1>1 DEF Transmitting
<1>3. /\ block.kind = "in" => bc = PortOf(rounds + 1)
      /\ block.kind = "out" => LowerB(bc) = PortOf(rounds + 1)
  <2>1. (rounds + 1) - 1 = rounds BY <1>1, Sizes, SMT
  <2> QED BY <2>1, NextCount DEF ControlInv, Registers, PortOf
<1>4. ASSUME NEW j \in 1 .. rounds PROVE At(block.hl, j - 1) # hl
  <2>1. j - 1 \in 0 .. Size - 1 /\ j - 1 # rounds BY <1>1, Sizes, SMT
  <2> QED BY <1>1, <2>1, PlacesDiffer
<1> DEFINE entry == IF block.kind = "in" THEN <<bc, Input(rounds + 1)>>
                                          ELSE <<LowerB(bc), mem[hl]>>
<1>5. /\ ports' = Append(ports, entry)
      /\ mem' = IF block.kind = "in" THEN [mem EXCEPT ![hl] = Input(rounds + 1)] ELSE mem
  BY <1>1, <1>2 DEF Round, InRound, OutRound
<1>6. /\ Len(ports') = rounds + 1 /\ ports'[rounds + 1] = entry
      /\ \A j \in 1 .. rounds : ports'[j] = ports[j]
  <2> HIDE DEF entry
  <2>1. entry \in Int \X Bytes
    <3>1. rounds + 1 \in Int /\ rounds + 1 \in Nat BY <1>1, Sizes, SMT
    <3>2. bc \in Int /\ LowerB(bc) \in Int
      BY NextCount, Sizes, SMT DEF ControlInv, TypeOK, Addresses
    <3>3. Input(rounds + 1) \in Bytes BY <3>1 DEF Input, Bytes
    <3>4. mem[hl] \in Bytes BY <1>1
    <3> QED BY <3>2, <3>3, <3>4 DEF entry
  <2> QED BY <1>1, <1>2, <1>5, <2>1
<1>7. Reading' BY <1>1, <1>5 DEF Reading, Exempt
<1>8. ASSUME NEW j \in 1 .. rounds + 1
      PROVE  /\ ports'[j][1] = PortOf(j)
             /\ block.kind = "in" =>
                  ports'[j][2] = Input(j) /\ mem'[At(block.hl, j - 1)] = Input(j)
             /\ block.kind = "out" => ports'[j][2] = Filled("out")[At(block.hl, j - 1)]
  <2>1. CASE j = rounds + 1
    <3>1. j - 1 = rounds BY <1>1, <2>1, Sizes, SMT
    <3>2. block.kind = "out" => mem[hl] = Filled("out")[hl] BY <1>1 DEF Reading
    <3> QED BY <1>1, <1>3, <1>5, <1>6, <2>1, <3>1, <3>2
  <2>2. CASE j # rounds + 1
    <3>1. j \in 1 .. rounds BY <1>1, <2>2, Sizes, SMT
    <3>2. mem'[At(block.hl, j - 1)] = mem[At(block.hl, j - 1)]
      BY <1>1, <1>4, <1>5, <3>1
    <3> QED BY <1>2, <1>6, <3>1, <3>2
  <2> QED BY <2>1, <2>2
<1>9. Transmitting' BY <1>1, <1>6, <1>8 DEF Transmitting, PortOf, At
<1> QED BY <1>1, <1>7, <1>9 DEF MemoryInv, Copying, Searching

\* Every round keeps it, and so does an interrupt that misses the block.
LEMMA MemoryNext == ControlInv /\ MemoryInv /\ [Next]_vars => MemoryInv'
<1> SUFFICES ASSUME ControlInv, MemoryInv, [Next]_vars, Undisturbed' PROVE MemoryInv'
  BY DEF MemoryInv
<1>1. CASE Round
  <2>1. block.kind \in {"ld", "cp", "in", "out"} BY <1>1 DEF Round
  <2> QED BY <1>1, <2>1, CopyRound, SearchRound, PortRound
<1>2. CASE Follow \/ Overwritten \/ Return \/ UNCHANGED vars
  <2>1. UNCHANGED <<block, zf, rounds, ports, mem>>
    BY <1>2 DEF Follow, Overwritten, Return, vars
  <2> QED BY <2>1, UndisturbedBefore, MemoryStays
<1>3. CASE Interrupt
  <2>1. /\ UNCHANGED <<block, zf, rounds, ports>> /\ interrupts' = interrupts + 1
        /\ \A addr \in Addresses \ Stack : mem'[addr] = mem[addr]
    BY <1>3 DEF Interrupt
  <2>2. interrupts + 1 # 0 BY SMT DEF ControlInv, TypeOK
  <2>3. Exempt' = Stack BY <2>1, <2>2 DEF Exempt
  <2>4. \A addr \in Addresses \ Exempt' : mem'[addr] = mem[addr] BY <2>1, <2>3
  <2> QED BY <2>1, <2>4, UndisturbedBefore, MemoryStays
<1> QED BY <1>1, <1>2, <1>3 DEF Next, Ended

\* So the two hold always.
LEMMA BlockAlways == Spec => []BlockInv
BY ControlInit, ControlNext, MemoryInit, MemoryNext, PTL DEF Spec, BlockInv

-----------------------------------------------------------------------------
(* What the blocks promise                                                  *)

\* For registers of any width and any block in memory of any content: after
\* each round of a copy the destination holds what it should, also where the
\* block overlaps itself, the ends of memory or the instruction, and whatever
\* was interrupted; the rest of memory is as it was.
THEOREM CopiesAreExact == Spec => []TransferExact
<1>1. BlockInv => TransferExact
  BY DEF BlockInv, ControlInv, MemoryInv, Registers, Copying, Exempt, TransferExact
<1> QED BY BlockAlways, <1>1, PTL

\* A search that is done has found the first equal byte, or there is none;
\* HL, BC, Z and P/V say so.
THEOREM SearchesAreExact == Spec => []SearchExact
<1>1. BlockInv => SearchExact
  <2> DEFINE hit(j) == Filled("cp")[At(block.hl, j)] = block.key
             hits   == {j \in 0 .. Count - 1 : hit(j)}
  <2> SUFFICES ASSUME BlockInv, block.kind = "cp", status = "done", Undisturbed
               PROVE  /\ zf = (hits # {})
                      /\ hits # {} => hit(rounds - 1) /\ \A j \in hits : rounds - 1 <= j
                      /\ hits = {} => rounds = Count
                      /\ hl = At(block.hl, rounds) /\ bc = W(block.bc - rounds)
                      /\ pf = (rounds < Count)
    BY DEF SearchExact
  <2>1. /\ Searching /\ Registers /\ Flags /\ zf \in BOOLEAN
        /\ pc = W(Program + 2) /\ (rounds = Count \/ zf)
        /\ rounds > 0
    BY DEF BlockInv, ControlInv, MemoryInv, TypeOK, Control, Found
  <2>2. rounds \in 1 .. Count /\ Count \in 1 .. Size
    BY <2>1, CountRange, Sizes, SMT DEF BlockInv, ControlInv, TypeOK, Registers
  <2>3. zf = hit(rounds - 1) /\ \A j \in 0 .. rounds - 2 : ~hit(j)
    BY <2>1 DEF Searching, Hit
  <2>4. hl = At(block.hl, rounds) /\ bc = W(block.bc - rounds) /\ pf = (rounds < Count)
    BY <2>1 DEF Registers, Flags
  <2> HIDE DEF hit
  <2>5. ASSUME NEW j \in hits PROVE rounds - 1 <= j /\ j \in 0 .. Count - 1 /\ hit(j)
    <3>1. j \in 0 .. Count - 1 /\ hit(j) OBVIOUS
    <3>2. j \notin 0 .. rounds - 2 BY <2>3, <3>1
    <3> QED BY <2>2, <3>1, <3>2, Sizes, SMT
  <2>6. rounds - 1 \in 0 .. Count - 1 BY <2>2, Sizes, SMT
  <2>7. CASE zf
    <3>1. hit(rounds - 1) /\ hits # {} BY <2>3, <2>6, <2>7
    <3>2. \A j \in hits : rounds - 1 <= j BY <2>5
    <3> HIDE DEF hits
    <3>3. zf = (hits # {}) BY <2>7, <3>1
    <3> QED BY <2>4, <3>1, <3>2, <3>3
  <2>8. CASE ~zf
    <3>1. rounds = Count BY <2>1, <2>8
    <3>2. hits = {}
      <4> SUFFICES ASSUME NEW j \in hits PROVE FALSE OBVIOUS
      <4>1. j = rounds - 1 BY <2>2, <2>5, <3>1, Sizes, SMT
      <4> QED BY <2>3, <2>5, <2>8, <4>1
    <3> HIDE DEF hits
    <3>3. zf = (hits # {}) BY <2>1, <2>8, <3>2
    <3> QED BY <2>4, <3>1, <3>2, <3>3
  <2> QED BY <2>1, <2>7, <2>8
<1> QED BY BlockAlways, <1>1, PTL

\* Each byte of a block goes through its port once, in the order of memory and
\* with B counting down above it, for any length of block.
THEOREM PortsAreExact == Spec => []PortSequence
<1>1. BlockInv => PortSequence
  BY DEF BlockInv, ControlInv, MemoryInv, Registers, Transmitting, PortOf, PortSequence
<1> QED BY BlockAlways, <1>1, PTL

=============================================================================
