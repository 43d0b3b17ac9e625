--------------------------- MODULE Z80TimingProofs ---------------------------
(***************************************************************************)
(* Proofs about the decoder's timing, for every set of opcode bytes and    *)
(* any number of prefixes: the assertion of step(), the longest            *)
(* instruction, and that an instruction reads before it drives the bus.    *)
(*                                                                         *)
(* An instruction is a list of at most eleven bus cycles.  Its T-states    *)
(* are a sum of that many terms, so that lists can be measured piece by    *)
(* piece without an induction: Fits(s, c) says that s takes c T-states and *)
(* reads before it drives, and each page's opcodes are shown to fit what   *)
(* the page declares for them.                                             *)
(***************************************************************************)
EXTENDS Z80Timing, SequenceTheorems, TLAPS

-----------------------------------------------------------------------------
(* Lists of bus cycles.                                                      *)

Kinds == {"imm", "rd", "wr", "in", "out", "idle"}
Reads == {"imm", "rd", "in"}
Drives == {"wr", "out"}

\* The T-states of the k-th cycle of s, 0 behind its end, and of all of them.
Cost(s, k) == IF k \in 1 .. Len(s) THEN Length[s[k]] ELSE 0
Rest(s) == Cost(s, 1) + Cost(s, 2) + Cost(s, 3) + Cost(s, 4) + Cost(s, 5)
           + Cost(s, 6) + Cost(s, 7) + Cost(s, 8) + Cost(s, 9) + Cost(s, 10)
           + Cost(s, 11)

List(s, n) == s \in Seq(Kinds) /\ Len(s) = n

\* s drives nothing; s reads nothing; s reads nothing behind what it drives.
Passive(s) == \A k \in 1 .. Len(s) : s[k] \notin Drives
Blind(s)   == \A k \in 1 .. Len(s) : s[k] \notin Reads
Ordered(s) == \A j, k \in 1 .. Len(s) : j < k /\ s[j] \in Drives => s[k] \notin Reads

Fits(s, c) == (\E n \in 0 .. 11 : List(s, n)) /\ Ordered(s) /\ Rest(s) = c

\* A cycle of a list takes 1 to 4 T-states.
LEMMA KindLength == \A x \in Kinds : Length[x] \in 1 .. 4
  BY DEF Kinds, Length

\* A cycle's cost, inside the list or behind it.
LEMMA CostType ==
  ASSUME NEW s \in Seq(Kinds), NEW k \in Nat
  PROVE  Cost(s, k) \in 0 .. 4
<1>1. CASE k \in 1 .. Len(s)
  <2>1. s[k] \in Kinds
    BY <1>1, ElementOfSeq
  <2> QED
    BY <1>1, <2>1, KindLength DEF Cost
<1>2. CASE k \notin 1 .. Len(s)
  BY <1>2 DEF Cost
<1> QED
  BY <1>1, <1>2

\* The cycles of a \o b are those of a, then those of b, and take as long.
LEMMA Join ==
  ASSUME NEW a, NEW b, NEW m \in 0 .. 11, NEW n \in 0 .. 11, m + n <= 11,
         List(a, m), List(b, n)
  PROVE  /\ List(a \o b, m + n)
         /\ Rest(a \o b) = Rest(a) + Rest(b)
         /\ Passive(a) /\ Passive(b) => Passive(a \o b)
         /\ Blind(a) /\ Blind(b) => Blind(a \o b)
         /\ Ordered(a) /\ Ordered(b) /\ (Passive(a) \/ Blind(b)) => Ordered(a \o b)
<1> DEFINE s == a \o b
<1>1. a \in Seq(Kinds) /\ b \in Seq(Kinds) /\ Len(a) = m /\ Len(b) = n
  BY DEF List
<1>2. /\ s \in Seq(Kinds)
      /\ Len(s) = m + n
      /\ \A k \in 1 .. m + n : s[k] = IF k <= m THEN a[k] ELSE b[k - m]
  BY <1>1, ConcatProperties
<1> HIDE DEF s
<1>3. List(s, m + n)
  BY <1>2 DEF List
<1>4. \A k \in 1 .. 11 : Cost(s, k) = IF k <= m THEN Cost(a, k) ELSE Cost(b, k - m)
  BY <1>1, <1>2 DEF Cost
<1>5. \A k \in 1 .. 11 : Cost(a, k) \in Int /\ Cost(b, k) \in Int
  BY <1>1, CostType
<1>6. /\ \A k \in 1 .. 11 : k > m => Cost(a, k) = 0
      /\ \A k \in 1 .. 11 : k > n => Cost(b, k) = 0
  BY <1>1 DEF Cost
<1>7. Rest(s) = Rest(a) + Rest(b)
  <2>1. CASE m = 0
    BY <2>1, <1>4, <1>5, <1>6 DEF Rest
  <2>2. CASE m = 1
    BY <2>2, <1>4, <1>5, <1>6 DEF Rest
  <2>3. CASE m = 2
    BY <2>3, <1>4, <1>5, <1>6 DEF Rest
  <2>4. CASE m = 3
    BY <2>4, <1>4, <1>5, <1>6 DEF Rest
  <2>5. CASE m = 4
    BY <2>5, <1>4, <1>5, <1>6 DEF Rest
  <2>6. CASE m = 5
    BY <2>6, <1>4, <1>5, <1>6 DEF Rest
  <2>7. CASE m = 6
    BY <2>7, <1>4, <1>5, <1>6 DEF Rest
  <2>8. CASE m = 7
    BY <2>8, <1>4, <1>5, <1>6 DEF Rest
  <2>9. CASE m = 8
    BY <2>9, <1>4, <1>5, <1>6 DEF Rest
  <2>10. CASE m = 9
    BY <2>10, <1>4, <1>5, <1>6 DEF Rest
  <2>11. CASE m = 10
    BY <2>11, <1>4, <1>5, <1>6 DEF Rest
  <2>12. CASE m = 11
    BY <2>12, <1>4, <1>5, <1>6 DEF Rest
  <2> QED
    BY <2>1, <2>2, <2>3, <2>4, <2>5, <2>6, <2>7, <2>8, <2>9, <2>10, <2>11, <2>12
<1>8. Passive(a) /\ Passive(b) => Passive(s)
  BY <1>1, <1>2 DEF Passive
<1>9. Blind(a) /\ Blind(b) => Blind(s)
  BY <1>1, <1>2 DEF Blind
<1>10. ASSUME Ordered(a), Ordered(b), Passive(a) \/ Blind(b)
      PROVE  Ordered(s)
  <2> SUFFICES ASSUME NEW j \in 1 .. m + n, NEW k \in 1 .. m + n,
                        j < k, s[j] \in Drives
               PROVE  s[k] \notin Reads
    BY <1>2 DEF Ordered
  <2>1. CASE k <= m
    BY <2>1, <1>1, <1>2, <1>10 DEF Ordered
  <2>2. CASE j > m
    BY <2>2, <1>1, <1>2, <1>10 DEF Ordered
  <2>3. CASE j <= m /\ k > m
    BY <2>3, <1>1, <1>2, <1>10 DEF Passive, Blind
  <2> QED
    BY <2>1, <2>2, <2>3, <1>1, <1>2
<1> QED
  BY <1>3, <1>7, <1>8, <1>9, <1>10 DEF s

\* The rest of a list, behind its first cycle.
LEMMA Shift ==
  ASSUME NEW s, NEW n \in 1 .. 11, List(s, n), Ordered(s)
  PROVE  /\ List(Tail(s), n - 1) /\ Ordered(Tail(s))
         /\ Head(s) \in Kinds
         /\ Rest(s) = Length[Head(s)] + Rest(Tail(s))
         /\ Head(s) \in Drives \/ Blind(s) => Blind(Tail(s))
<1> DEFINE r == Tail(s)
<1>1. /\ s \in Seq(Kinds) /\ Len(s) = n
      /\ Head(s) = s[1] /\ s[1] \in Kinds
      /\ r \in Seq(Kinds) /\ Len(r) = n - 1
      /\ \A k \in 1 .. n - 1 : r[k] = s[k + 1]
  <2>1. s \in Seq(Kinds) /\ Len(s) = n /\ s # <<>>
    BY EmptySeq DEF List
  <2> QED
    BY <2>1, HeadTailProperties, ElementOfSeq
<1> HIDE DEF r
<1>2. List(r, n - 1)
  BY <1>1 DEF List
<1>3. \A k \in 1 .. 11 : Cost(r, k) = Cost(s, k + 1)
  BY <1>1 DEF Cost
<1>4. Cost(s, 12) = 0 /\ Cost(s, 1) = Length[Head(s)]
  BY <1>1 DEF Cost
<1>5. \A k \in 1 .. 12 : Cost(s, k) \in Int
  BY <1>1, CostType
<1>6. Rest(s) = Cost(s, 1) + Rest(r)
  BY <1>3, <1>4, <1>5 DEF Rest
<1>7. Ordered(r)
  BY <1>1 DEF Ordered
<1>8. Head(s) \in Drives \/ Blind(s) => Blind(r)
  BY <1>1 DEF Ordered, Blind
<1> QED
  BY <1>1, <1>2, <1>4, <1>6, <1>7, <1>8 DEF r

-----------------------------------------------------------------------------
(* Pieces: lists of n bus cycles that take c T-states.                       *)

Piece(s, n, c) == List(s, n) /\ Rest(s) = c /\ Ordered(s)

\* Joining two pieces, reads in front of drives.
LEMMA Joined ==
  ASSUME NEW a, NEW b, NEW m \in 0 .. 11, NEW n \in 0 .. 11, m + n <= 11,
         NEW c, NEW d, Piece(a, m, c), Piece(b, n, d), Passive(a) \/ Blind(b)
  PROVE  Piece(a \o b, m + n, c + d)
<1>1. List(a, m) /\ List(b, n)
  BY DEF Piece
<1> QED
  BY <1>1, Join DEF Piece

\* What drives nothing, twice over, drives nothing.
LEMMA Lasting ==
  ASSUME NEW a \in Seq(Kinds), NEW b \in Seq(Kinds), Passive(a), Passive(b)
  PROVE  Passive(a \o b)
  BY ConcatProperties DEF Passive

\* A piece fits its T-states.
LEMMA Fitting ==
  ASSUME NEW s, NEW n \in 0 .. 11, NEW c, Piece(s, n, c)
  PROVE  Fits(s, c)
  BY DEF Fits, Piece

\* No cycles at all.
LEMMA Nothing == Piece(<<>>, 0, 0) /\ Passive(<<>>) /\ Blind(<<>>)
<1>1. <<>> \in Seq(Kinds) /\ Len(<<>>) = 0
  BY EmptySeq
<1> QED
  BY <1>1 DEF Piece, List, Rest, Cost, Ordered, Passive, Blind

\* A number of internal cycles.
LEMMA Idles ==
  ASSUME NEW n \in 0 .. 11
  PROVE  Piece(Idle(n), n, n) /\ Passive(Idle(n)) /\ Blind(Idle(n))
<1> DEFINE s == Idle(n)
<1>1. s \in Seq(Kinds) /\ Len(s) = n /\ \A k \in 1 .. n : s[k] = "idle"
  <2>1. s \in [1 .. n -> Kinds] /\ \A k \in 1 .. n : s[k] = "idle"
    BY DEF Idle, Kinds
  <2>2. n \in Nat
    OBVIOUS
  <2>3. s \in Seq(Kinds)
    BY <2>1, <2>2, SeqDef
  <2>4. DOMAIN s = 1 .. n
    BY <2>1
  <2> QED
    BY <2>1, <2>2, <2>3, <2>4, LenProperties
<1> HIDE DEF s
<1>2. List(s, n) /\ Ordered(s) /\ Passive(s) /\ Blind(s)
  BY <1>1 DEF List, Ordered, Passive, Blind, Reads, Drives
<1>3. \A k \in 1 .. 11 : Cost(s, k) = IF k <= n THEN 1 ELSE 0
  BY <1>1 DEF Cost, Length
<1>4. Rest(s) = n
  BY <1>3 DEF Rest
<1> QED
  BY <1>2, <1>4 DEF Piece, s

\* One, two or three cycles written down.
LEMMA One ==
  ASSUME NEW x \in Kinds
  PROVE  /\ Piece(<<x>>, 1, Length[x])
         /\ x \notin Drives => Passive(<<x>>)
         /\ x \notin Reads => Blind(<<x>>)
<1>1. <<x>> \in Seq(Kinds) /\ Len(<<x>>) = 1 /\ <<x>>[1] = x
  OBVIOUS
<1>2. Length[x] \in Int
  BY KindLength
<1>3. Rest(<<x>>) = Length[x]
  BY <1>1, <1>2 DEF Rest, Cost
<1> QED
  BY <1>1, <1>3 DEF Piece, List, Ordered, Passive, Blind

\* Two of them, unless the first drives and the second reads.
LEMMA Two ==
  ASSUME NEW x \in Kinds, NEW y \in Kinds, x \notin Drives \/ y \notin Reads
  PROVE  /\ Piece(<<x, y>>, 2, Length[x] + Length[y])
         /\ x \notin Drives /\ y \notin Drives => Passive(<<x, y>>)
         /\ x \notin Reads /\ y \notin Reads => Blind(<<x, y>>)
<1> DEFINE s == <<x, y>>
<1>1. s \in Seq(Kinds) /\ Len(s) = 2 /\ s[1] = x /\ s[2] = y
  OBVIOUS
<1> HIDE DEF s
<1>2. Length[x] \in Int /\ Length[y] \in Int
  BY KindLength
<1>3. Rest(s) = Length[x] + Length[y]
  BY <1>1, <1>2 DEF Rest, Cost
<1> QED
  BY <1>1, <1>3 DEF Piece, List, Ordered, Passive, Blind, s

\* Three, of which only the last may drive.
LEMMA Three ==
  ASSUME NEW x \in Kinds, NEW y \in Kinds, NEW z \in Kinds, x \notin Drives, y \notin Drives
  PROVE  Piece(<<x, y, z>>, 3, Length[x] + Length[y] + Length[z])
<1> DEFINE s == <<x, y, z>>
<1>1. s \in Seq(Kinds) /\ Len(s) = 3 /\ s[1] = x /\ s[2] = y /\ s[3] = z
  OBVIOUS
<1> HIDE DEF s
<1>2. Length[x] \in Int /\ Length[y] \in Int /\ Length[z] \in Int
  BY KindLength
<1>3. Rest(s) = Length[x] + Length[y] + Length[z]
  BY <1>1, <1>2 DEF Rest, Cost
<1> QED
  BY <1>1, <1>3 DEF Piece, List, Ordered, s

-----------------------------------------------------------------------------
(* The pieces that the pages' instructions are made of.                      *)

\* Single cycles.
LEMMA Plain ==
  /\ Piece(<<"imm">>, 1, 3) /\ Passive(<<"imm">>)
  /\ Piece(<<"rd">>, 1, 3) /\ Passive(<<"rd">>)
  /\ Piece(<<"in">>, 1, 4)
  /\ Piece(<<"wr">>, 1, 3) /\ Blind(<<"wr">>)
  /\ Piece(<<"out">>, 1, 4)
  /\ Piece(<<"idle">>, 1, 1) /\ Passive(<<"idle">>) /\ Blind(<<"idle">>)
  BY One DEF Kinds, Reads, Drives, Length

\* Two cycles in a row.
LEMMA Pairs ==
  /\ Piece(Imm2, 2, 6) /\ Passive(Imm2)
  /\ Piece(Rd2, 2, 6) /\ Passive(Rd2)
  /\ Piece(Wr2, 2, 6) /\ Blind(Wr2)
  /\ Piece(<<"idle", "imm">>, 2, 4) /\ Passive(<<"idle", "imm">>)
  /\ Piece(<<"rd", "idle">>, 2, 4) /\ Passive(<<"rd", "idle">>)
  /\ Piece(<<"imm", "wr">>, 2, 6)
  /\ Piece(<<"imm", "out">>, 2, 7)
  /\ Piece(<<"imm", "in">>, 2, 7)
  /\ Piece(<<"rd", "wr">>, 2, 6)
  BY Two DEF Kinds, Reads, Drives, Length, Imm2, Rd2, Wr2

\* INC (HL), and the middle of INI and OUTI.
LEMMA Triples ==
  /\ Piece(<<"rd", "idle", "wr">>, 3, 7)
  /\ Piece(<<"idle", "in", "wr">>, 3, 8)
  /\ Piece(<<"idle", "rd", "out">>, 3, 8)
  BY Three DEF Kinds, Reads, Drives, Length

\* LD (nn),A and LD A,(nn).
LEMMA Operands ==
  /\ Piece(Imm2 \o <<"wr">>, 3, 9)
  /\ Piece(Imm2 \o <<"rd">>, 3, 9)
<1>1. Piece(Imm2 \o <<"wr">>, 2 + 1, 6 + 3)
  BY Plain, Pairs, Joined
<1>2. Piece(Imm2 \o <<"rd">>, 2 + 1, 6 + 3)
  BY Plain, Pairs, Joined
<1> QED
  BY <1>1, <1>2

\* LD (nn),HL and LD HL,(nn), and their relatives.
LEMMA Words == Piece(LoadWord, 4, 12) /\ Piece(StoreWord, 4, 12)
<1>1. Piece(Imm2 \o Wr2, 2 + 2, 6 + 6)
  BY Pairs, Joined
<1>2. Piece(Imm2 \o Rd2, 2 + 2, 6 + 6)
  BY Pairs, Joined
<1> QED
  BY <1>1, <1>2 DEF LoadWord, StoreWord

\* RST, and CALL.
LEMMA Pushes == Piece(Push, 3, 7) /\ Piece(Call, 5, 13)
<1>1. Piece(<<"idle">> \o Wr2, 1 + 2, 1 + 6)
  BY Plain, Pairs, Joined
<1>2. Piece(Imm2 \o Push, 2 + 3, 6 + 7)
  BY <1>1, Pairs, Joined DEF Push
<1> QED
  BY <1>1, <1>2 DEF Push, Call

\* EX (SP),HL.
LEMMA Exchange == Piece(ExchangeSP, 7, 15)
<1>1. Piece(Rd2 \o <<"idle">>, 2 + 1, 6 + 1)
  BY Plain, Pairs, Joined
<1>2. Passive(Rd2 \o <<"idle">>)
  BY Plain, Pairs, Lasting DEF Piece, List
<1>3. Piece((Rd2 \o <<"idle">>) \o Wr2, 3 + 2, 7 + 6)
  BY <1>1, <1>2, Pairs, Joined
<1>4. Piece(((Rd2 \o <<"idle">>) \o Wr2) \o Idle(2), 5 + 2, 13 + 2)
  BY <1>3, Idles, Joined
<1> QED
  BY <1>4 DEF ExchangeSP

\* A displacement, and the cycles of DJNZ.
LEMMA Jumps ==
  /\ Piece(Displaced, 6, 8) /\ Passive(Displaced)
  /\ Piece(<<"idle", "imm">> \o Idle(5), 7, 9)
  /\ Piece(<<"idle", "imm">> \o <<>>, 2, 4)
<1>1. Piece(Idle(5), 5, 5) /\ Passive(Idle(5)) /\ Blind(Idle(5))
  BY Idles
<1>2. Piece(<<"imm">> \o Idle(5), 1 + 5, 3 + 5)
  BY <1>1, Plain, Joined
<1>3. Passive(<<"imm">> \o Idle(5))
  BY <1>1, Plain, Lasting DEF Piece, List
<1>4. Piece(<<"idle", "imm">> \o Idle(5), 2 + 5, 4 + 5)
  BY <1>1, Pairs, Joined
<1>5. Piece(<<"idle", "imm">> \o <<>>, 2 + 0, 4 + 0)
  BY Nothing, Pairs, Joined
<1> QED
  BY <1>2, <1>3, <1>4, <1>5 DEF Displaced

-----------------------------------------------------------------------------
(* The base page.                                                            *)

\* The internal cycles in front of everything else.
Early(op) ==
    IF (op < 64 /\ Col(op) = 3) \/ op = \hF9 THEN 2
    ELSE IF (op >= \hC0 /\ Col(op) = 0) \/ op \in {\hC5, \hD5, \hE5, \hF5} THEN 1 ELSE 0

\* The early cycles are a piece that reads and drives nothing.
LEMMA Before ==
  ASSUME NEW op \in 0 .. 255
  PROVE  /\ Piece(PreIdle(op), Early(op), Early(op))
         /\ Passive(PreIdle(op)) /\ Early(op) \in 0 .. 2
<1> DEFINE first == When((op < 64 /\ Col(op) = 3) \/ op = \hF9, Idle(2))
           second == When((op >= \hC0 /\ Col(op) = 0)
                           \/ op \in {\hC5, \hD5, \hE5, \hF5}, Idle(1))
<1>1. \E m, n \in 0 .. 2 :
         /\ first = (IF m = 0 THEN <<>> ELSE Idle(2)) /\ m \in {0, 2}
         /\ second = (IF n = 0 THEN <<>> ELSE Idle(1)) /\ n \in {0, 1}
         /\ m + n = Early(op)
  <2>1. CASE (op < 64 /\ Col(op) = 3) \/ op = \hF9
    BY <2>1 DEF When, Early, Col
  <2>2. CASE ~((op < 64 /\ Col(op) = 3) \/ op = \hF9)
    BY <2>2 DEF When, Early
  <2> QED
    BY <2>1, <2>2
<1>2. PICK m \in {0, 2}, n \in {0, 1} :
         /\ first = (IF m = 0 THEN <<>> ELSE Idle(2))
         /\ second = (IF n = 0 THEN <<>> ELSE Idle(1))
         /\ m + n = Early(op)
  BY <1>1
<1>3. Piece(first, m, m) /\ Passive(first)
  BY <1>2, Nothing, Idles
<1>4. Piece(second, n, n) /\ Passive(second) /\ Blind(second)
  BY <1>2, Nothing, Idles
<1> HIDE DEF first, second
<1>5. Passive(first \o second)
  BY <1>3, <1>4, Lasting DEF Piece, List
<1>6. m \in 0 .. 11 /\ n \in 0 .. 11 /\ m + n <= 11 /\ m + n \in 0 .. 3
  BY <1>2
<1>7. Piece(first \o second, m + n, m + n)
  BY <1>3, <1>4, <1>6, Joined
<1>8. PreIdle(op) = first \o second
  BY DEF PreIdle, first, second
<1>9. Early(op) \in 0 .. 2
  BY DEF Early
<1> QED
  BY <1>2, <1>5, <1>7, <1>8, <1>9

\* What the opcode adds to its fetch and its early internal cycles.
Own(op, taken) == BaseDeclared(op, taken) - 4 - Early(op)

Listed00 ==
    {\h10, \h18, \h20, \h28, \h30, \h38, \h01, \h11, \h21, \h31, \h09, \h19, \h29, \h39,
     \h02, \h12, \h0A, \h1A, \h22, \h2A, \h32, \h3A, \h34, \h35, \h36}

\* 0x00 to 0x3F.
LEMMA Row00 ==
  ASSUME NEW op \in 0 .. 63, NEW taken \in BOOLEAN
  PROVE  \E n \in 0 .. 7 : Piece(Cycles00(op, taken), n, Own(op, taken))
<1>1. CASE op = \h10 /\ taken = TRUE
  <2>1. Cycles00(\h10, TRUE) = <<"idle", "imm">> \o Idle(5)
    BY DEF Cycles00, Col, When
  <2>2. Cycles00(op, taken) = <<"idle", "imm">> \o Idle(5)
    BY <1>1, <2>1
  <2>3. Own(op, taken) = 9
    BY <1>1 DEF Own, BaseDeclared, BaseT, BaseRowsLow, Early, Col
  <2>4. Piece(<<"idle", "imm">> \o Idle(5), 7, 9)
    BY Jumps
  <2> QED
    BY <2>2, <2>3, <2>4
<1>2. CASE op = \h10 /\ taken = FALSE
  <2>1. Cycles00(\h10, FALSE) = <<"idle", "imm">> \o <<>>
    BY DEF Cycles00, Col, When
  <2>2. Cycles00(op, taken) = <<"idle", "imm">> \o <<>>
    BY <1>2, <2>1
  <2>3. Own(op, taken) = 4
    BY <1>2 DEF Own, BaseDeclared, BaseT, BaseRowsLow, Early, Col
  <2>4. Piece(<<"idle", "imm">> \o <<>>, 2, 4)
    BY Jumps
  <2> QED
    BY <2>2, <2>3, <2>4
<1>3. CASE op = \h18
  <2>1. Cycles00(op, taken) = Displaced
    BY <1>3 DEF Cycles00, Col
  <2>2. Own(op, taken) = 8
    BY <1>3 DEF Own, BaseDeclared, BaseT, BaseRowsLow, Early, Col
  <2>3. Piece(Displaced, 6, 8)
    BY Jumps
  <2> QED
    BY <2>1, <2>2, <2>3
<1>4. CASE op \in {\h20, \h28, \h30, \h38} /\ taken = TRUE
  <2>1. /\ Cycles00(\h20, TRUE) = Displaced
        /\ Cycles00(\h28, TRUE) = Displaced
        /\ Cycles00(\h30, TRUE) = Displaced
        /\ Cycles00(\h38, TRUE) = Displaced
    BY DEF Cycles00, Col, When
  <2>2. op \in {\h20, \h28, \h30, \h38}
    BY <1>4
  <2>3. Cycles00(op, TRUE) = Displaced
    BY <2>1, <2>2, ZenonT(60)
  <2>4. Cycles00(op, taken) = Displaced
    BY <1>4, <2>3, Zenon
  <2>5. Own(op, taken) = 8
    BY <1>4 DEF Own, BaseDeclared, BaseT, BaseRowsLow, Early, Col
  <2>6. Piece(Displaced, 6, 8)
    BY Jumps
  <2> QED
    BY <2>4, <2>5, <2>6
<1>5. CASE op \in {\h20, \h28, \h30, \h38} /\ taken = FALSE
  <2>1. /\ Cycles00(\h20, FALSE) = <<"imm">>
        /\ Cycles00(\h28, FALSE) = <<"imm">>
        /\ Cycles00(\h30, FALSE) = <<"imm">>
        /\ Cycles00(\h38, FALSE) = <<"imm">>
    BY DEF Cycles00, Col, When
  <2>2. op \in {\h20, \h28, \h30, \h38}
    BY <1>5
  <2>3. Cycles00(op, FALSE) = <<"imm">>
    BY <2>1, <2>2, ZenonT(60)
  <2>4. Cycles00(op, taken) = <<"imm">>
    BY <1>5, <2>3, Zenon
  <2>5. Own(op, taken) = 3
    BY <1>5 DEF Own, BaseDeclared, BaseT, BaseRowsLow, Early, Col
  <2>6. Piece(<<"imm">>, 1, 3)
    BY Plain
  <2> QED
    BY <2>4, <2>5, <2>6
<1>6. CASE op \in {\h01, \h11, \h21, \h31}
  <2>1. /\ Cycles00(\h01, taken) = Imm2
        /\ Cycles00(\h11, taken) = Imm2
        /\ Cycles00(\h21, taken) = Imm2
        /\ Cycles00(\h31, taken) = Imm2
    BY DEF Cycles00, Col
  <2>2. Cycles00(op, taken) = Imm2
    BY <1>6, <2>1
  <2>3. Own(op, taken) = 6
    BY <1>6 DEF Own, BaseDeclared, BaseT, BaseRowsLow, Early, Col
  <2>4. Piece(Imm2, 2, 6)
    BY Pairs
  <2> QED
    BY <2>2, <2>3, <2>4
<1>7. CASE op \in {\h09, \h19, \h29, \h39}
  <2>1. /\ Cycles00(\h09, taken) = Idle(7)
        /\ Cycles00(\h19, taken) = Idle(7)
        /\ Cycles00(\h29, taken) = Idle(7)
        /\ Cycles00(\h39, taken) = Idle(7)
    BY DEF Cycles00, Col
  <2>2. Cycles00(op, taken) = Idle(7)
    BY <1>7, <2>1
  <2>3. Own(op, taken) = 7
    BY <1>7 DEF Own, BaseDeclared, BaseT, BaseRowsLow, Early, Col
  <2>4. Piece(Idle(7), 7, 7)
    BY Idles
  <2> QED
    BY <2>2, <2>3, <2>4
<1>8. CASE op \in {\h02, \h12}
  <2>1. /\ Cycles00(\h02, taken) = <<"wr">>
        /\ Cycles00(\h12, taken) = <<"wr">>
    BY DEF Cycles00, Col
  <2>2. Cycles00(op, taken) = <<"wr">>
    BY <1>8, <2>1
  <2>3. Own(op, taken) = 3
    BY <1>8 DEF Own, BaseDeclared, BaseT, BaseRowsLow, Early, Col
  <2>4. Piece(<<"wr">>, 1, 3)
    BY Plain
  <2> QED
    BY <2>2, <2>3, <2>4
<1>9. CASE op \in {\h0A, \h1A}
  <2>1. /\ Cycles00(\h0A, taken) = <<"rd">>
        /\ Cycles00(\h1A, taken) = <<"rd">>
    BY DEF Cycles00, Col
  <2>2. Cycles00(op, taken) = <<"rd">>
    BY <1>9, <2>1
  <2>3. Own(op, taken) = 3
    BY <1>9 DEF Own, BaseDeclared, BaseT, BaseRowsLow, Early, Col
  <2>4. Piece(<<"rd">>, 1, 3)
    BY Plain
  <2> QED
    BY <2>2, <2>3, <2>4
<1>10. CASE op = \h22
  <2>1. Cycles00(op, taken) = StoreWord
    BY <1>10 DEF Cycles00, Col
  <2>2. Own(op, taken) = 12
    BY <1>10 DEF Own, BaseDeclared, BaseT, BaseRowsLow, Early, Col
  <2>3. Piece(StoreWord, 4, 12)
    BY Words
  <2> QED
    BY <2>1, <2>2, <2>3
<1>11. CASE op = \h2A
  <2>1. Cycles00(op, taken) = LoadWord
    BY <1>11 DEF Cycles00, Col
  <2>2. Own(op, taken) = 12
    BY <1>11 DEF Own, BaseDeclared, BaseT, BaseRowsLow, Early, Col
  <2>3. Piece(LoadWord, 4, 12)
    BY Words
  <2> QED
    BY <2>1, <2>2, <2>3
<1>12. CASE op = \h32
  <2>1. Cycles00(op, taken) = Imm2 \o <<"wr">>
    BY <1>12 DEF Cycles00, Col
  <2>2. Own(op, taken) = 9
    BY <1>12 DEF Own, BaseDeclared, BaseT, BaseRowsLow, Early, Col
  <2>3. Piece(Imm2 \o <<"wr">>, 3, 9)
    BY Operands
  <2> QED
    BY <2>1, <2>2, <2>3
<1>13. CASE op = \h3A
  <2>1. Cycles00(op, taken) = Imm2 \o <<"rd">>
    BY <1>13 DEF Cycles00, Col
  <2>2. Own(op, taken) = 9
    BY <1>13 DEF Own, BaseDeclared, BaseT, BaseRowsLow, Early, Col
  <2>3. Piece(Imm2 \o <<"rd">>, 3, 9)
    BY Operands
  <2> QED
    BY <2>1, <2>2, <2>3
<1>14. CASE op \in {\h34, \h35}
  <2>1. /\ Cycles00(\h34, taken) = <<"rd", "idle", "wr">>
        /\ Cycles00(\h35, taken) = <<"rd", "idle", "wr">>
    BY DEF Cycles00, Col
  <2>2. Cycles00(op, taken) = <<"rd", "idle", "wr">>
    BY <1>14, <2>1
  <2>3. Own(op, taken) = 7
    BY <1>14 DEF Own, BaseDeclared, BaseT, BaseRowsLow, Early, Col
  <2>4. Piece(<<"rd", "idle", "wr">>, 3, 7)
    BY Triples
  <2> QED
    BY <2>2, <2>3, <2>4
<1>15. CASE op = \h36
  <2>1. Cycles00(op, taken) = <<"imm", "wr">>
    BY <1>15 DEF Cycles00, Col
  <2>2. Own(op, taken) = 6
    BY <1>15 DEF Own, BaseDeclared, BaseT, BaseRowsLow, Early, Col
  <2>3. Piece(<<"imm", "wr">>, 2, 6)
    BY Pairs
  <2> QED
    BY <2>1, <2>2, <2>3
<1>16. CASE Col(op) = 6 /\ op # \h36
  <2>1. Cycles00(op, taken) = <<"imm">>
    BY <1>16 DEF Cycles00, Col
  <2>2. Own(op, taken) = 3
    BY <1>16 DEF Own, BaseDeclared, BaseT, BaseRowsLow, Early, Col
  <2>3. Piece(<<"imm">>, 1, 3)
    BY Plain
  <2> QED
    BY <2>1, <2>2, <2>3
<1>17. CASE Col(op) # 6 /\ op \notin Listed00
  <2>1. Cycles00(op, taken) = <<>>
    BY <1>17 DEF Cycles00, Col, Listed00
  <2>2. Own(op, taken) = 0
    BY <1>17 DEF Own, BaseDeclared, BaseT, BaseRowsLow, Early, Col, Listed00
  <2>3. Piece(<<>>, 0, 0)
    BY Nothing
  <2> QED
    BY <2>1, <2>2, <2>3
<1> QED
  BY <1>1, <1>2, <1>3, <1>4, <1>5, <1>6, <1>7, <1>8, <1>9, <1>10, <1>11,
     <1>12, <1>13, <1>14, <1>15, <1>16, <1>17 DEF Listed00

\* base_timing between 0x40 and 0xBF.
LEMMA Table40 ==
  ASSUME NEW op \in 64 .. 191
  PROVE  BaseT(op) = IF op = \h76 THEN 4
                     ELSE IF Col(op) = 6 \/ op \in \h70 .. \h77 THEN 7 ELSE 4
<1>1. CASE op \in 64 .. 111
  BY <1>1 DEF BaseT, BaseRowsLow, Col
<1>2. CASE op \in 112 .. 119
  BY <1>2 DEF BaseT, BaseRowsLow, Col
<1>3. CASE op \in 120 .. 127
  BY <1>3 DEF BaseT, BaseRowsLow, Col
<1>4. CASE op \in 128 .. 191
  BY <1>4 DEF BaseT, BaseRowsHigh, Col
<1> QED
  BY <1>1, <1>2, <1>3, <1>4

\* 0x40 to 0xBF: loads between registers, and the ALU.
LEMMA Row40 ==
  ASSUME NEW op \in 64 .. 191, NEW taken \in BOOLEAN
  PROVE  \E n \in 0 .. 7 : Piece(Cycles40(op), n, Own(op, taken))
<1> DEFINE a == When(Col(op) = 6 /\ op # \h76, <<"rd">>)
           b == When(op \in \h70 .. \h77 /\ op # \h76, <<"wr">>)
<1>1. Cycles40(op) = a \o b
  BY DEF Cycles40
<1>2. BaseT(op) \in Int
  BY Table40
<1>3. Own(op, taken) = BaseT(op) - 4
  BY <1>2 DEF Own, BaseDeclared, Early
<1> HIDE DEF a, b
<1>4. CASE Col(op) = 6 /\ op # \h76
  <2>1. a = <<"rd">> /\ b = <<>>
    BY <1>4 DEF When, Col, a, b
  <2>2. Own(op, taken) = 3
    BY <1>3, <1>4, Table40
  <2>3. Piece(<<"rd">> \o <<>>, 1 + 0, 3 + 0)
    BY Plain, Nothing, Joined
  <2>4. Piece(a \o b, 1, 3)
    BY <2>1, <2>3
  <2> QED
    BY <1>1, <2>2, <2>4
<1>5. CASE op \in \h70 .. \h77 /\ op # \h76
  <2>1. a = <<>> /\ b = <<"wr">>
    BY <1>5 DEF When, Col, a, b
  <2>2. Own(op, taken) = 3
    BY <1>3, <1>5, Table40
  <2>3. Piece(<<>> \o <<"wr">>, 0 + 1, 0 + 3)
    BY Plain, Nothing, Joined
  <2>4. Piece(a \o b, 1, 3)
    BY <2>1, <2>3
  <2> QED
    BY <1>1, <2>2, <2>4
<1>6. CASE ~(Col(op) = 6 /\ op # \h76) /\ ~(op \in \h70 .. \h77 /\ op # \h76)
  <2>1. a = <<>> /\ b = <<>>
    BY <1>6 DEF When, a, b
  <2>2. Own(op, taken) = 0
    BY <1>3, <1>6, Table40
  <2>3. Piece(<<>> \o <<>>, 0 + 0, 0 + 0)
    BY Nothing, Joined
  <2>4. Piece(a \o b, 0, 0)
    BY <2>1, <2>3
  <2> QED
    BY <1>1, <2>2, <2>4
<1> QED
  BY <1>4, <1>5, <1>6

\* 0xC0 to 0xFF, without the prefixes.
LEMMA RowC0 ==
  ASSUME NEW op \in (\hC0 .. 255) \ {\hCB, \hDD, \hED, \hFD}, NEW taken \in BOOLEAN
  PROVE  \E n \in 0 .. 7 : Piece(CyclesC0(op, taken), n, Own(op, taken))
<1>1. CASE op \in {\hC0, \hC8, \hD0, \hD8, \hE0, \hE8, \hF0, \hF8} /\ taken = TRUE
  <2>1. /\ CyclesC0(\hC0, TRUE) = Rd2
        /\ CyclesC0(\hC8, TRUE) = Rd2
        /\ CyclesC0(\hD0, TRUE) = Rd2
        /\ CyclesC0(\hD8, TRUE) = Rd2
        /\ CyclesC0(\hE0, TRUE) = Rd2
        /\ CyclesC0(\hE8, TRUE) = Rd2
        /\ CyclesC0(\hF0, TRUE) = Rd2
        /\ CyclesC0(\hF8, TRUE) = Rd2
    BY DEF CyclesC0, Col, When
  <2>2. op \in {\hC0, \hC8, \hD0, \hD8, \hE0, \hE8, \hF0, \hF8}
    BY <1>1
  <2>3. CyclesC0(op, TRUE) = Rd2
    BY <2>1, <2>2, ZenonT(60)
  <2>4. CyclesC0(op, taken) = Rd2
    BY <1>1, <2>3, Zenon
  <2>5. Own(op, taken) = 6
    BY <1>1 DEF Own, BaseDeclared, BaseT, BaseRowsHigh, Early, Col
  <2>6. Piece(Rd2, 2, 6)
    BY Pairs
  <2> QED
    BY <2>4, <2>5, <2>6
<1>2. CASE op \in {\hC0, \hC8, \hD0, \hD8, \hE0, \hE8, \hF0, \hF8} /\ taken = FALSE
  <2>1. /\ CyclesC0(\hC0, FALSE) = <<>>
        /\ CyclesC0(\hC8, FALSE) = <<>>
        /\ CyclesC0(\hD0, FALSE) = <<>>
        /\ CyclesC0(\hD8, FALSE) = <<>>
        /\ CyclesC0(\hE0, FALSE) = <<>>
        /\ CyclesC0(\hE8, FALSE) = <<>>
        /\ CyclesC0(\hF0, FALSE) = <<>>
        /\ CyclesC0(\hF8, FALSE) = <<>>
    BY DEF CyclesC0, Col, When
  <2>2. op \in {\hC0, \hC8, \hD0, \hD8, \hE0, \hE8, \hF0, \hF8}
    BY <1>2
  <2>3. CyclesC0(op, FALSE) = <<>>
    BY <2>1, <2>2, ZenonT(60)
  <2>4. CyclesC0(op, taken) = <<>>
    BY <1>2, <2>3, Zenon
  <2>5. Own(op, taken) = 0
    BY <1>2 DEF Own, BaseDeclared, BaseT, BaseRowsHigh, Early, Col
  <2>6. Piece(<<>>, 0, 0)
    BY Nothing
  <2> QED
    BY <2>4, <2>5, <2>6
<1>3. CASE op \in {\hC1, \hD1, \hE1, \hF1, \hC9}
  <2>1. /\ CyclesC0(\hC1, taken) = Rd2
        /\ CyclesC0(\hD1, taken) = Rd2
        /\ CyclesC0(\hE1, taken) = Rd2
        /\ CyclesC0(\hF1, taken) = Rd2
        /\ CyclesC0(\hC9, taken) = Rd2
    BY DEF CyclesC0, Col
  <2>2. CyclesC0(op, taken) = Rd2
    BY <1>3, <2>1
  <2>3. Own(op, taken) = 6
    BY <1>3 DEF Own, BaseDeclared, BaseT, BaseRowsHigh, Early, Col
  <2>4. Piece(Rd2, 2, 6)
    BY Pairs
  <2> QED
    BY <2>2, <2>3, <2>4
<1>4. CASE op \in {\hC2, \hCA, \hD2, \hDA, \hE2, \hEA, \hF2, \hFA, \hC3}
  <2>1. /\ CyclesC0(\hC2, taken) = Imm2
        /\ CyclesC0(\hCA, taken) = Imm2
        /\ CyclesC0(\hD2, taken) = Imm2
        /\ CyclesC0(\hDA, taken) = Imm2
        /\ CyclesC0(\hE2, taken) = Imm2
        /\ CyclesC0(\hEA, taken) = Imm2
        /\ CyclesC0(\hF2, taken) = Imm2
        /\ CyclesC0(\hFA, taken) = Imm2
        /\ CyclesC0(\hC3, taken) = Imm2
    BY DEF CyclesC0, Col
  <2>2. CyclesC0(op, taken) = Imm2
    BY <1>4, <2>1
  <2>3. Own(op, taken) = 6
    BY <1>4 DEF Own, BaseDeclared, BaseT, BaseRowsHigh, Early, Col
  <2>4. Piece(Imm2, 2, 6)
    BY Pairs
  <2> QED
    BY <2>2, <2>3, <2>4
<1>5. CASE op = \hD3
  <2>1. CyclesC0(op, taken) = <<"imm", "out">>
    BY <1>5 DEF CyclesC0, Col
  <2>2. Own(op, taken) = 7
    BY <1>5 DEF Own, BaseDeclared, BaseT, BaseRowsHigh, Early, Col
  <2>3. Piece(<<"imm", "out">>, 2, 7)
    BY Pairs
  <2> QED
    BY <2>1, <2>2, <2>3
<1>6. CASE op = \hDB
  <2>1. CyclesC0(op, taken) = <<"imm", "in">>
    BY <1>6 DEF CyclesC0, Col
  <2>2. Own(op, taken) = 7
    BY <1>6 DEF Own, BaseDeclared, BaseT, BaseRowsHigh, Early, Col
  <2>3. Piece(<<"imm", "in">>, 2, 7)
    BY Pairs
  <2> QED
    BY <2>1, <2>2, <2>3
<1>7. CASE op = \hE3
  <2>1. CyclesC0(op, taken) = ExchangeSP
    BY <1>7 DEF CyclesC0, Col
  <2>2. Own(op, taken) = 15
    BY <1>7 DEF Own, BaseDeclared, BaseT, BaseRowsHigh, Early, Col
  <2>3. Piece(ExchangeSP, 7, 15)
    BY Exchange
  <2> QED
    BY <2>1, <2>2, <2>3
<1>8. CASE op \in {\hC4, \hCC, \hD4, \hDC, \hE4, \hEC, \hF4, \hFC} /\ taken = TRUE
  <2>1. /\ CyclesC0(\hC4, TRUE) = Call
        /\ CyclesC0(\hCC, TRUE) = Call
        /\ CyclesC0(\hD4, TRUE) = Call
        /\ CyclesC0(\hDC, TRUE) = Call
        /\ CyclesC0(\hE4, TRUE) = Call
        /\ CyclesC0(\hEC, TRUE) = Call
        /\ CyclesC0(\hF4, TRUE) = Call
        /\ CyclesC0(\hFC, TRUE) = Call
    BY DEF CyclesC0, Col, When
  <2>2. op \in {\hC4, \hCC, \hD4, \hDC, \hE4, \hEC, \hF4, \hFC}
    BY <1>8
  <2>3. CyclesC0(op, TRUE) = Call
    BY <2>1, <2>2, ZenonT(60)
  <2>4. CyclesC0(op, taken) = Call
    BY <1>8, <2>3, Zenon
  <2>5. Own(op, taken) = 13
    BY <1>8 DEF Own, BaseDeclared, BaseT, BaseRowsHigh, Early, Col
  <2>6. Piece(Call, 5, 13)
    BY Pushes
  <2> QED
    BY <2>4, <2>5, <2>6
<1>9. CASE op \in {\hC4, \hCC, \hD4, \hDC, \hE4, \hEC, \hF4, \hFC} /\ taken = FALSE
  <2>1. /\ CyclesC0(\hC4, FALSE) = Imm2
        /\ CyclesC0(\hCC, FALSE) = Imm2
        /\ CyclesC0(\hD4, FALSE) = Imm2
        /\ CyclesC0(\hDC, FALSE) = Imm2
        /\ CyclesC0(\hE4, FALSE) = Imm2
        /\ CyclesC0(\hEC, FALSE) = Imm2
        /\ CyclesC0(\hF4, FALSE) = Imm2
        /\ CyclesC0(\hFC, FALSE) = Imm2
    BY DEF CyclesC0, Col, When
  <2>2. op \in {\hC4, \hCC, \hD4, \hDC, \hE4, \hEC, \hF4, \hFC}
    BY <1>9
  <2>3. CyclesC0(op, FALSE) = Imm2
    BY <2>1, <2>2, ZenonT(60)
  <2>4. CyclesC0(op, taken) = Imm2
    BY <1>9, <2>3, Zenon
  <2>5. Own(op, taken) = 6
    BY <1>9 DEF Own, BaseDeclared, BaseT, BaseRowsHigh, Early, Col
  <2>6. Piece(Imm2, 2, 6)
    BY Pairs
  <2> QED
    BY <2>4, <2>5, <2>6
<1>10. CASE op \in {\hC5, \hD5, \hE5, \hF5}
  <2>1. /\ CyclesC0(\hC5, taken) = Wr2
        /\ CyclesC0(\hD5, taken) = Wr2
        /\ CyclesC0(\hE5, taken) = Wr2
        /\ CyclesC0(\hF5, taken) = Wr2
    BY DEF CyclesC0, Col
  <2>2. CyclesC0(op, taken) = Wr2
    BY <1>10, <2>1
  <2>3. Own(op, taken) = 6
    BY <1>10 DEF Own, BaseDeclared, BaseT, BaseRowsHigh, Early, Col
  <2>4. Piece(Wr2, 2, 6)
    BY Pairs
  <2> QED
    BY <2>2, <2>3, <2>4
<1>11. CASE op = \hCD
  <2>1. CyclesC0(op, taken) = Call
    BY <1>11 DEF CyclesC0, Col
  <2>2. Own(op, taken) = 13
    BY <1>11 DEF Own, BaseDeclared, BaseT, BaseRowsHigh, Early, Col
  <2>3. Piece(Call, 5, 13)
    BY Pushes
  <2> QED
    BY <2>1, <2>2, <2>3
<1>12. CASE op \in {\hC6, \hCE, \hD6, \hDE, \hE6, \hEE, \hF6, \hFE}
  <2>1. /\ CyclesC0(\hC6, taken) = <<"imm">>
        /\ CyclesC0(\hCE, taken) = <<"imm">>
        /\ CyclesC0(\hD6, taken) = <<"imm">>
        /\ CyclesC0(\hDE, taken) = <<"imm">>
        /\ CyclesC0(\hE6, taken) = <<"imm">>
        /\ CyclesC0(\hEE, taken) = <<"imm">>
        /\ CyclesC0(\hF6, taken) = <<"imm">>
        /\ CyclesC0(\hFE, taken) = <<"imm">>
    BY DEF CyclesC0, Col
  <2>2. CyclesC0(op, taken) = <<"imm">>
    BY <1>12, <2>1
  <2>3. Own(op, taken) = 3
    BY <1>12 DEF Own, BaseDeclared, BaseT, BaseRowsHigh, Early, Col
  <2>4. Piece(<<"imm">>, 1, 3)
    BY Plain
  <2> QED
    BY <2>2, <2>3, <2>4
<1>13. CASE op \in {\hC7, \hCF, \hD7, \hDF, \hE7, \hEF, \hF7, \hFF}
  <2>1. /\ CyclesC0(\hC7, taken) = Push
        /\ CyclesC0(\hCF, taken) = Push
        /\ CyclesC0(\hD7, taken) = Push
        /\ CyclesC0(\hDF, taken) = Push
        /\ CyclesC0(\hE7, taken) = Push
        /\ CyclesC0(\hEF, taken) = Push
        /\ CyclesC0(\hF7, taken) = Push
        /\ CyclesC0(\hFF, taken) = Push
    BY DEF CyclesC0, Col
  <2>2. CyclesC0(op, taken) = Push
    BY <1>13, <2>1
  <2>3. Own(op, taken) = 7
    BY <1>13 DEF Own, BaseDeclared, BaseT, BaseRowsHigh, Early, Col
  <2>4. Piece(Push, 3, 7)
    BY Pushes
  <2> QED
    BY <2>2, <2>3, <2>4
<1>14. CASE op \in {\hD9, \hE9, \hF9, \hEB, \hF3, \hFB}
  <2>1. /\ CyclesC0(\hD9, taken) = <<>>
        /\ CyclesC0(\hE9, taken) = <<>>
        /\ CyclesC0(\hF9, taken) = <<>>
        /\ CyclesC0(\hEB, taken) = <<>>
        /\ CyclesC0(\hF3, taken) = <<>>
        /\ CyclesC0(\hFB, taken) = <<>>
    BY DEF CyclesC0, Col
  <2>2. CyclesC0(op, taken) = <<>>
    BY <1>14, <2>1
  <2>3. Own(op, taken) = 0
    BY <1>14 DEF Own, BaseDeclared, BaseT, BaseRowsHigh, Early, Col
  <2>4. Piece(<<>>, 0, 0)
    BY Nothing
  <2> QED
    BY <2>2, <2>3, <2>4
<1>15. \/ op \in {\hC0, \hC8, \hD0, \hD8, \hE0, \hE8, \hF0, \hF8}
      \/ op \in {\hC1, \hD1, \hE1, \hF1, \hC9}
      \/ op \in {\hC2, \hCA, \hD2, \hDA, \hE2, \hEA, \hF2, \hFA, \hC3}
      \/ op = \hD3
      \/ op = \hDB
      \/ op = \hE3
      \/ op \in {\hC4, \hCC, \hD4, \hDC, \hE4, \hEC, \hF4, \hFC}
      \/ op \in {\hC5, \hD5, \hE5, \hF5}
      \/ op = \hCD
      \/ op \in {\hC6, \hCE, \hD6, \hDE, \hE6, \hEE, \hF6, \hFE}
      \/ op \in {\hC7, \hCF, \hD7, \hDF, \hE7, \hEF, \hF7, \hFF}
      \/ op \in {\hD9, \hE9, \hF9, \hEB, \hF3, \hFB}
  OBVIOUS
<1>16. taken = TRUE \/ taken = FALSE
  OBVIOUS
<1>17. CASE op \in {\hC0, \hC8, \hD0, \hD8, \hE0, \hE8, \hF0, \hF8}
  BY <1>1, <1>2, <1>16, <1>17, Zenon
<1>18. CASE op \in {\hC4, \hCC, \hD4, \hDC, \hE4, \hEC, \hF4, \hFC}
  BY <1>8, <1>9, <1>16, <1>18, Zenon
<1> QED
  BY <1>15, <1>17, <1>3, <1>4, <1>5, <1>6, <1>7, <1>18, <1>10,
     <1>11, <1>12, <1>13, <1>14, SMT

\* The declared T-states of the base page are at most those of EX (SP),HL.
LEMMA BaseTotal ==
  ASSUME NEW op \in 0 .. 255, NEW taken \in BOOLEAN
  PROVE  BaseDeclared(op, taken) \in Int /\ BaseDeclared(op, taken) <= 19
<1>1. BaseT(op) \in Int /\ BaseT(op) <= 19
  <2>1. CASE op \in 0 .. 31
    BY <2>1 DEF BaseT, BaseRowsLow
  <2>2. CASE op \in 32 .. 63
    BY <2>2 DEF BaseT, BaseRowsLow
  <2>3. CASE op \in 64 .. 191
    BY <2>3, Table40
  <2>4. CASE op \in 192 .. 223
    BY <2>4 DEF BaseT, BaseRowsHigh
  <2>5. CASE op \in 224 .. 255
    BY <2>5 DEF BaseT, BaseRowsHigh
  <2> QED
    BY <2>1, <2>2, <2>3, <2>4, <2>5
<1> QED
  BY <1>1 DEF BaseDeclared

\* Every opcode of the base page fits what the page declares for it.
LEMMA BaseFits ==
  ASSUME NEW op \in (0 .. 255) \ {\hCB, \hDD, \hED, \hFD}, NEW taken \in BOOLEAN
  PROVE  /\ Fits(BaseCycles(op, taken), BaseDeclared(op, taken) - 4)
         /\ BaseDeclared(op, taken) \in Int /\ BaseDeclared(op, taken) <= 19
<1> DEFINE body == CASE op < 64    -> Cycles00(op, taken)
                     [] op >= \hC0 -> CyclesC0(op, taken)
                     [] OTHER      -> Cycles40(op)
<1>1. \E n \in 0 .. 7 : Piece(body, n, Own(op, taken))
  <2>1. CASE op \in 0 .. 63
    BY <2>1, Row00
  <2>2. CASE op \in 64 .. 191
    BY <2>2, Row40
  <2>3. CASE op \in (\hC0 .. 255) \ {\hCB, \hDD, \hED, \hFD}
    BY <2>3, RowC0
  <2> QED
    BY <2>1, <2>2, <2>3
<1>2. PICK n \in 0 .. 7 : Piece(body, n, Own(op, taken))
  BY <1>1
<1>3. PICK e \in 0 .. 2 : e = Early(op)
  BY Before
<1>4. Piece(PreIdle(op), e, e) /\ Passive(PreIdle(op))
  BY <1>3, Before
<1> HIDE DEF body
<1>5. e \in 0 .. 11 /\ n \in 0 .. 11 /\ e + n <= 11 /\ e + n \in 0 .. 11
  OBVIOUS
<1>6. Piece(PreIdle(op) \o body, e + n, e + Own(op, taken))
  BY <1>2, <1>4, <1>5, Joined
<1>7. Fits(PreIdle(op) \o body, e + Own(op, taken))
  BY <1>5, <1>6, Fitting
<1>8. BaseCycles(op, taken) = PreIdle(op) \o body
  BY DEF BaseCycles, body
<1>9. BaseDeclared(op, taken) \in Int /\ BaseDeclared(op, taken) <= 19
  BY BaseTotal
<1>10. e + Own(op, taken) = BaseDeclared(op, taken) - 4
  BY <1>3, <1>9 DEF Own
<1> QED
  BY <1>7, <1>8, <1>9, <1>10

-----------------------------------------------------------------------------
(* The other pages: CB, ED, DD and FD, and CB behind DD or FD.               *)

\* Rotates, BIT, RES and SET: the opcode fetches behind CB count 8.
LEMMA CbFits ==
  ASSUME NEW op \in 0 .. 255
  PROVE  /\ Fits(CbCycles(op), CbDeclared(op) - 8)
         /\ CbDeclared(op) \in Int /\ CbDeclared(op) <= 15
<1>1. Fits(<<>>, 0)
  BY Nothing, Fitting
<1>2. Piece(<<"rd", "idle">> \o <<>>, 2 + 0, 4 + 0)
  BY Pairs, Nothing, Joined
<1>3. Piece(<<"rd", "idle">> \o <<"wr">>, 2 + 1, 4 + 3)
  BY Pairs, Plain, Joined
<1>4. Fits(<<"rd", "idle">> \o <<>>, 4)
  BY <1>2, Fitting
<1>5. Fits(<<"rd", "idle">> \o <<"wr">>, 7)
  BY <1>3, Fitting
<1> DEFINE back == When(~IsBit(op), <<"wr">>)
<1>6. CASE Col(op) # 6
  BY <1>1, <1>6 DEF CbCycles, CbDeclared, When
<1>7. CASE Col(op) = 6 /\ IsBit(op)
  <2>1. back = <<>>
    BY <1>7 DEF When
  <2>2. CbCycles(op) = <<"rd", "idle">> \o back
    BY <1>7 DEF CbCycles, When
  <2>3. CbDeclared(op) = 12
    BY <1>7 DEF CbDeclared
  <2> HIDE DEF back
  <2>4. Fits(<<"rd", "idle">> \o back, 4)
    BY <1>4, <2>1
  <2> QED
    BY <2>2, <2>3, <2>4
<1>8. CASE Col(op) = 6 /\ ~IsBit(op)
  <2>1. back = <<"wr">>
    BY <1>8 DEF When
  <2>2. CbCycles(op) = <<"rd", "idle">> \o back
    BY <1>8 DEF CbCycles, When
  <2>3. CbDeclared(op) = 15
    BY <1>8 DEF CbDeclared
  <2> HIDE DEF back
  <2>4. Fits(<<"rd", "idle">> \o back, 7)
    BY <1>5, <2>1
  <2> QED
    BY <2>2, <2>3, <2>4
<1> QED
  BY <1>6, <1>7, <1>8

\* One round of a block instruction, and the five cycles that repeat it.
LEMMA BlockFits ==
  ASSUME NEW op \in Blocks, NEW again \in BOOLEAN
  PROVE  Fits(BlockCycles(op, again), IF op \in Repeats /\ again THEN 13 ELSE 8)
<1> DEFINE body == CASE Col(op) = 0 -> <<"rd", "wr">> \o Idle(2)
                     [] Col(op) = 1 -> <<"rd">> \o Idle(5)
                     [] Col(op) = 2 -> <<"idle", "in", "wr">>
                     [] Col(op) = 3 -> <<"idle", "rd", "out">>
           repeat == When(op \in Repeats /\ again, Idle(5))
<1>1. Col(op) \in {0, 1, 2, 3}
  BY DEF Blocks, Repeats, Col
<1>2. Piece(Idle(2), 2, 2) /\ Blind(Idle(2)) /\ Piece(Idle(5), 5, 5) /\ Blind(Idle(5))
  BY Idles
<1>3. Piece(<<"rd", "wr">> \o Idle(2), 2 + 2, 6 + 2)
  BY <1>2, Pairs, Joined
<1>4. Piece(<<"rd">> \o Idle(5), 1 + 5, 3 + 5)
  BY <1>2, Plain, Joined
<1>5. PICK n \in 0 .. 6 : Piece(body, n, 8)
  <2>1. CASE Col(op) = 0
    <3>1. body = <<"rd", "wr">> \o Idle(2)
      BY <2>1
    <3> HIDE DEF body
    <3> QED
      BY <1>3, <3>1
  <2>2. CASE Col(op) = 1
    <3>1. body = <<"rd">> \o Idle(5)
      BY <2>2
    <3> HIDE DEF body
    <3> QED
      BY <1>4, <3>1
  <2>3. CASE Col(op) = 2
    <3>1. body = <<"idle", "in", "wr">>
      BY <2>3
    <3> HIDE DEF body
    <3> QED
      BY Triples, <3>1
  <2>4. CASE Col(op) = 3
    <3>1. body = <<"idle", "rd", "out">>
      BY <2>4
    <3> HIDE DEF body
    <3> QED
      BY Triples, <3>1
  <2> QED
    BY <1>1, <2>1, <2>2, <2>3, <2>4
<1>6. BlockCycles(op, again) = body \o repeat
  BY DEF BlockCycles
<1>7. CASE op \in Repeats /\ again
  <2>1. repeat = Idle(5)
    BY <1>7 DEF When
  <2> HIDE DEF body, repeat
  <2>2. Piece(repeat, 5, 5) /\ Blind(repeat)
    BY <1>2, <2>1
  <2>3. n \in 0 .. 11 /\ n + 5 \in 0 .. 11 /\ n + 5 <= 11
    OBVIOUS
  <2>4. Piece(body \o repeat, n + 5, 8 + 5)
    BY <1>5, <2>3, <2>2, Joined
  <2> QED
    BY <1>6, <1>7, <2>4, <2>3, Fitting
<1>8. CASE ~(op \in Repeats /\ again)
  <2>1. repeat = <<>>
    BY <1>8 DEF When
  <2> HIDE DEF body, repeat
  <2>2. Piece(body \o repeat, n + 0, 8 + 0)
    BY <1>5, <2>1, Nothing, Joined
  <2> QED
    BY <1>6, <1>8, <2>2, Fitting
<1> QED
  BY <1>7, <1>8

\* RRD and RLD.
LEMMA Digits == Piece(RotateDigit, 6, 10)
<1>1. Piece(Idle(4), 4, 4) /\ Passive(Idle(4)) /\ Blind(Idle(4))
  BY Idles
<1>2. Piece(<<"rd">> \o Idle(4), 1 + 4, 3 + 4)
  BY <1>1, Plain, Joined
<1>3. Passive(<<"rd">> \o Idle(4))
  BY <1>1, Plain, Lasting DEF Piece, List
<1>4. Piece((<<"rd">> \o Idle(4)) \o <<"wr">>, 5 + 1, 7 + 3)
  BY <1>2, <1>3, Plain, Joined
<1> QED
  BY <1>4 DEF RotateDigit

\* The ED page: its two opcode fetches count 8.
LEMMA EdFits ==
  ASSUME NEW op \in 0 .. 255, NEW again \in BOOLEAN
  PROVE  /\ Fits(EdCycles(op, again), EdDeclared(op, again) - 8)
         /\ EdDeclared(op, again) \in Int /\ EdDeclared(op, again) <= 21
<1>1. /\ EdDeclared(op, again) \in Int /\ EdDeclared(op, again) <= 21
  BY DEF EdDeclared
<1>2. \A x \in \h40 .. \h7F : x \notin Blocks
  BY DEF Blocks, Repeats
<1>3. CASE op \notin \h40 .. \h7F /\ op \notin Blocks
  <2>1. EdCycles(op, again) = <<>>
    BY <1>3, <1>2 DEF EdCycles, Col
  <2>2. EdDeclared(op, again) = 8
    BY <1>3, <1>2 DEF EdDeclared, Col
  <2>3. Piece(<<>>, 0, 0)
    BY Nothing
  <2> QED
    BY <2>1, <2>2, <2>3, Fitting
<1>4. CASE op \in {\h40, \h48, \h50, \h58, \h60, \h68, \h70, \h78}
  <2>1. /\ EdCycles(\h40, again) = <<"in">>
        /\ EdCycles(\h48, again) = <<"in">>
        /\ EdCycles(\h50, again) = <<"in">>
        /\ EdCycles(\h58, again) = <<"in">>
        /\ EdCycles(\h60, again) = <<"in">>
        /\ EdCycles(\h68, again) = <<"in">>
        /\ EdCycles(\h70, again) = <<"in">>
        /\ EdCycles(\h78, again) = <<"in">>
    BY <1>2 DEF EdCycles, Col
  <2>2. EdCycles(op, again) = <<"in">>
    BY <1>4, <2>1
  <2>3. EdDeclared(op, again) = 12
    BY <1>4, <1>2 DEF EdDeclared, Col
  <2>4. Piece(<<"in">>, 1, 4)
    BY Plain
  <2> QED
    BY <2>2, <2>3, <2>4, Fitting
<1>5. CASE op \in {\h41, \h49, \h51, \h59, \h61, \h69, \h71, \h79}
  <2>1. /\ EdCycles(\h41, again) = <<"out">>
        /\ EdCycles(\h49, again) = <<"out">>
        /\ EdCycles(\h51, again) = <<"out">>
        /\ EdCycles(\h59, again) = <<"out">>
        /\ EdCycles(\h61, again) = <<"out">>
        /\ EdCycles(\h69, again) = <<"out">>
        /\ EdCycles(\h71, again) = <<"out">>
        /\ EdCycles(\h79, again) = <<"out">>
    BY <1>2 DEF EdCycles, Col
  <2>2. EdCycles(op, again) = <<"out">>
    BY <1>5, <2>1
  <2>3. EdDeclared(op, again) = 12
    BY <1>5, <1>2 DEF EdDeclared, Col
  <2>4. Piece(<<"out">>, 1, 4)
    BY Plain
  <2> QED
    BY <2>2, <2>3, <2>4, Fitting
<1>6. CASE op \in {\h42, \h4A, \h52, \h5A, \h62, \h6A, \h72, \h7A}
  <2>1. /\ EdCycles(\h42, again) = Idle(7)
        /\ EdCycles(\h4A, again) = Idle(7)
        /\ EdCycles(\h52, again) = Idle(7)
        /\ EdCycles(\h5A, again) = Idle(7)
        /\ EdCycles(\h62, again) = Idle(7)
        /\ EdCycles(\h6A, again) = Idle(7)
        /\ EdCycles(\h72, again) = Idle(7)
        /\ EdCycles(\h7A, again) = Idle(7)
    BY <1>2 DEF EdCycles, Col
  <2>2. EdCycles(op, again) = Idle(7)
    BY <1>6, <2>1
  <2>3. EdDeclared(op, again) = 15
    BY <1>6, <1>2 DEF EdDeclared, Col
  <2>4. Piece(Idle(7), 7, 7)
    BY Idles
  <2> QED
    BY <2>2, <2>3, <2>4, Fitting
<1>7. CASE op \in {\h43, \h53, \h63, \h73}
  <2>1. /\ EdCycles(\h43, again) = StoreWord
        /\ EdCycles(\h53, again) = StoreWord
        /\ EdCycles(\h63, again) = StoreWord
        /\ EdCycles(\h73, again) = StoreWord
    BY <1>2 DEF EdCycles, Col
  <2>2. EdCycles(op, again) = StoreWord
    BY <1>7, <2>1
  <2>3. EdDeclared(op, again) = 20
    BY <1>7, <1>2 DEF EdDeclared, Col
  <2>4. Piece(StoreWord, 4, 12)
    BY Words
  <2> QED
    BY <2>2, <2>3, <2>4, Fitting
<1>8. CASE op \in {\h4B, \h5B, \h6B, \h7B}
  <2>1. /\ EdCycles(\h4B, again) = LoadWord
        /\ EdCycles(\h5B, again) = LoadWord
        /\ EdCycles(\h6B, again) = LoadWord
        /\ EdCycles(\h7B, again) = LoadWord
    BY <1>2 DEF EdCycles, Col
  <2>2. EdCycles(op, again) = LoadWord
    BY <1>8, <2>1
  <2>3. EdDeclared(op, again) = 20
    BY <1>8, <1>2 DEF EdDeclared, Col
  <2>4. Piece(LoadWord, 4, 12)
    BY Words
  <2> QED
    BY <2>2, <2>3, <2>4, Fitting
<1>9. CASE op \in {\h45, \h4D, \h55, \h5D, \h65, \h6D, \h75, \h7D}
  <2>1. /\ EdCycles(\h45, again) = Rd2
        /\ EdCycles(\h4D, again) = Rd2
        /\ EdCycles(\h55, again) = Rd2
        /\ EdCycles(\h5D, again) = Rd2
        /\ EdCycles(\h65, again) = Rd2
        /\ EdCycles(\h6D, again) = Rd2
        /\ EdCycles(\h75, again) = Rd2
        /\ EdCycles(\h7D, again) = Rd2
    BY <1>2 DEF EdCycles, Col
  <2>2. EdCycles(op, again) = Rd2
    BY <1>9, <2>1
  <2>3. EdDeclared(op, again) = 14
    BY <1>9, <1>2 DEF EdDeclared, Col
  <2>4. Piece(Rd2, 2, 6)
    BY Pairs
  <2> QED
    BY <2>2, <2>3, <2>4, Fitting
<1>10. CASE op \in {\h47, \h4F, \h57, \h5F}
  <2>1. /\ EdCycles(\h47, again) = <<"idle">>
        /\ EdCycles(\h4F, again) = <<"idle">>
        /\ EdCycles(\h57, again) = <<"idle">>
        /\ EdCycles(\h5F, again) = <<"idle">>
    BY <1>2 DEF EdCycles, Col
  <2>2. EdCycles(op, again) = <<"idle">>
    BY <1>10, <2>1
  <2>3. EdDeclared(op, again) = 9
    BY <1>10, <1>2 DEF EdDeclared, Col
  <2>4. Piece(<<"idle">>, 1, 1)
    BY Plain
  <2> QED
    BY <2>2, <2>3, <2>4, Fitting
<1>11. CASE op \in {\h67, \h6F}
  <2>1. /\ EdCycles(\h67, again) = RotateDigit
        /\ EdCycles(\h6F, again) = RotateDigit
    BY <1>2 DEF EdCycles, Col
  <2>2. EdCycles(op, again) = RotateDigit
    BY <1>11, <2>1
  <2>3. EdDeclared(op, again) = 18
    BY <1>11, <1>2 DEF EdDeclared, Col
  <2>4. Piece(RotateDigit, 6, 10)
    BY Digits
  <2> QED
    BY <2>2, <2>3, <2>4, Fitting
<1>12. CASE op \in {\h44, \h46, \h4C, \h4E, \h54, \h56, \h5C, \h5E, \h64, \h66,
                   \h6C, \h6E, \h74, \h76, \h7C, \h7E, \h77, \h7F}
  <2>1. /\ EdCycles(\h44, again) = <<>>
        /\ EdCycles(\h46, again) = <<>>
        /\ EdCycles(\h4C, again) = <<>>
        /\ EdCycles(\h4E, again) = <<>>
        /\ EdCycles(\h54, again) = <<>>
        /\ EdCycles(\h56, again) = <<>>
        /\ EdCycles(\h5C, again) = <<>>
        /\ EdCycles(\h5E, again) = <<>>
        /\ EdCycles(\h64, again) = <<>>
        /\ EdCycles(\h66, again) = <<>>
        /\ EdCycles(\h6C, again) = <<>>
        /\ EdCycles(\h6E, again) = <<>>
        /\ EdCycles(\h74, again) = <<>>
        /\ EdCycles(\h76, again) = <<>>
        /\ EdCycles(\h7C, again) = <<>>
        /\ EdCycles(\h7E, again) = <<>>
        /\ EdCycles(\h77, again) = <<>>
        /\ EdCycles(\h7F, again) = <<>>
    BY <1>2 DEF EdCycles, Col
  <2>2. EdCycles(op, again) = <<>>
    BY <1>12, <2>1
  <2>3. EdDeclared(op, again) = 8
    BY <1>12, <1>2 DEF EdDeclared, Col
  <2>4. Piece(<<>>, 0, 0)
    BY Nothing
  <2> QED
    BY <2>2, <2>3, <2>4, Fitting
<1>13. CASE op \in Blocks
  <2>1. EdCycles(op, again) = BlockCycles(op, again)
    BY <1>13 DEF EdCycles
  <2>2. EdDeclared(op, again) = IF op \in Repeats /\ again THEN 21 ELSE 16
    BY <1>13 DEF EdDeclared
  <2>3. Fits(BlockCycles(op, again), IF op \in Repeats /\ again THEN 13 ELSE 8)
    BY <1>13, BlockFits
  <2> QED
    BY <2>1, <2>2, <2>3, <1>1
<1>14. op \in \h40 .. \h7F =>
          \/ op \in {\h40, \h48, \h50, \h58, \h60, \h68, \h70, \h78}
          \/ op \in {\h41, \h49, \h51, \h59, \h61, \h69, \h71, \h79}
          \/ op \in {\h42, \h4A, \h52, \h5A, \h62, \h6A, \h72, \h7A}
          \/ op \in {\h43, \h53, \h63, \h73}
          \/ op \in {\h4B, \h5B, \h6B, \h7B}
          \/ op \in {\h45, \h4D, \h55, \h5D, \h65, \h6D, \h75, \h7D}
          \/ op \in {\h47, \h4F, \h57, \h5F}
          \/ op \in {\h67, \h6F}
          \/ op \in {\h44, \h46, \h4C, \h4E, \h54, \h56, \h5C, \h5E, \h64, \h66,
                   \h6C, \h6E, \h74, \h76, \h7C, \h7E, \h77, \h7F}
  OBVIOUS
<1> QED
  BY <1>1, <1>3, <1>4, <1>5, <1>6, <1>7, <1>8, <1>9, <1>10, <1>11, <1>12, <1>13, <1>14

\* Operands behind a displacement.
LEMMA Indexed ==
  /\ Piece(Displaced \o <<"wr">>, 7, 11)
  /\ Piece(Displaced \o <<"rd">>, 7, 11)
  /\ Piece(Displaced \o <<"rd", "idle", "wr">>, 9, 15)
  /\ Piece((Imm2 \o Idle(2)) \o <<"wr">>, 5, 11)
<1>1. Piece(Displaced \o <<"wr">>, 6 + 1, 8 + 3)
  BY Jumps, Plain, Joined
<1>2. Piece(Displaced \o <<"rd">>, 6 + 1, 8 + 3)
  BY Jumps, Plain, Joined
<1>3. Piece(Displaced \o <<"rd", "idle", "wr">>, 6 + 3, 8 + 7)
  BY Jumps, Triples, Joined
<1>4. Piece(Idle(2), 2, 2) /\ Passive(Idle(2)) /\ Blind(Idle(2))
  BY Idles
<1>5. Piece(Imm2 \o Idle(2), 2 + 2, 6 + 2)
  BY <1>4, Pairs, Joined
<1>6. Passive(Imm2 \o Idle(2))
  BY <1>4, Pairs, Lasting DEF Piece, List
<1>7. Piece((Imm2 \o Idle(2)) \o <<"wr">>, 4 + 1, 8 + 3)
  BY <1>5, <1>6, Plain, Joined
<1> QED
  BY <1>1, <1>2, <1>3, <1>7

\* The opcodes that DD and FD give a meaning of their own.
LEMMA IndexFits ==
  ASSUME NEW op \in IndexOps
  PROVE  /\ Fits(IndexCycles(op), IndexDeclared(op) - 4)
         /\ IndexDeclared(op) \in Int /\ IndexDeclared(op) <= 19
<1>1. /\ \A x \in IndexMemory : x \in (\h40 .. \hBF) \ {\h76}
      /\ \A x \in IndexHalves : \/ x \in {\h24, \h25, \h2C, \h2D, \hE9}
                                \/ x \in (\h40 .. \hBF) \ IndexMemory
  BY DEF IndexMemory, IndexHalves
<1>2. CASE op \in {\h09, \h19, \h29, \h39}
  <2>1. /\ IndexCycles(\h09) = Idle(7)
        /\ IndexCycles(\h19) = Idle(7)
        /\ IndexCycles(\h29) = Idle(7)
        /\ IndexCycles(\h39) = Idle(7)
    BY <1>1 DEF IndexCycles
  <2>2. IndexCycles(op) = Idle(7)
    BY <1>2, <2>1
  <2>3. IndexDeclared(op) = 11
    BY <1>2, <1>1 DEF IndexDeclared
  <2>4. Piece(Idle(7), 7, 7)
    BY Idles
  <2> QED
    BY <2>2, <2>3, <2>4, Fitting
<1>3. CASE op = \h21
  <2>1. IndexCycles(op) = Imm2
    BY <1>3, <1>1 DEF IndexCycles
  <2>2. IndexDeclared(op) = 10
    BY <1>3, <1>1 DEF IndexDeclared
  <2>3. Piece(Imm2, 2, 6)
    BY Pairs
  <2> QED
    BY <2>1, <2>2, <2>3, Fitting
<1>4. CASE op = \h22
  <2>1. IndexCycles(op) = StoreWord
    BY <1>4, <1>1 DEF IndexCycles
  <2>2. IndexDeclared(op) = 16
    BY <1>4, <1>1 DEF IndexDeclared
  <2>3. Piece(StoreWord, 4, 12)
    BY Words
  <2> QED
    BY <2>1, <2>2, <2>3, Fitting
<1>5. CASE op = \h2A
  <2>1. IndexCycles(op) = LoadWord
    BY <1>5, <1>1 DEF IndexCycles
  <2>2. IndexDeclared(op) = 16
    BY <1>5, <1>1 DEF IndexDeclared
  <2>3. Piece(LoadWord, 4, 12)
    BY Words
  <2> QED
    BY <2>1, <2>2, <2>3, Fitting
<1>6. CASE op \in {\h23, \h2B, \hF9}
  <2>1. /\ IndexCycles(\h23) = Idle(2)
        /\ IndexCycles(\h2B) = Idle(2)
        /\ IndexCycles(\hF9) = Idle(2)
    BY <1>1 DEF IndexCycles
  <2>2. IndexCycles(op) = Idle(2)
    BY <1>6, <2>1
  <2>3. IndexDeclared(op) = 6
    BY <1>6, <1>1 DEF IndexDeclared
  <2>4. Piece(Idle(2), 2, 2)
    BY Idles
  <2> QED
    BY <2>2, <2>3, <2>4, Fitting
<1>7. CASE op \in {\h26, \h2E}
  <2>1. /\ IndexCycles(\h26) = <<"imm">>
        /\ IndexCycles(\h2E) = <<"imm">>
    BY <1>1 DEF IndexCycles
  <2>2. IndexCycles(op) = <<"imm">>
    BY <1>7, <2>1
  <2>3. IndexDeclared(op) = 7
    BY <1>7, <1>1 DEF IndexDeclared
  <2>4. Piece(<<"imm">>, 1, 3)
    BY Plain
  <2> QED
    BY <2>2, <2>3, <2>4, Fitting
<1>8. CASE op \in {\h34, \h35}
  <2>1. /\ IndexCycles(\h34) = Displaced \o <<"rd", "idle", "wr">>
        /\ IndexCycles(\h35) = Displaced \o <<"rd", "idle", "wr">>
    BY <1>1 DEF IndexCycles
  <2>2. IndexCycles(op) = Displaced \o <<"rd", "idle", "wr">>
    BY <1>8, <2>1
  <2>3. IndexDeclared(op) = 19
    BY <1>8, <1>1 DEF IndexDeclared
  <2>4. Piece(Displaced \o <<"rd", "idle", "wr">>, 9, 15)
    BY Indexed
  <2> QED
    BY <2>2, <2>3, <2>4, Fitting
<1>9. CASE op = \h36
  <2>1. IndexCycles(op) = (Imm2 \o Idle(2)) \o <<"wr">>
    BY <1>9, <1>1 DEF IndexCycles
  <2>2. IndexDeclared(op) = 15
    BY <1>9, <1>1 DEF IndexDeclared
  <2>3. Piece((Imm2 \o Idle(2)) \o <<"wr">>, 5, 11)
    BY Indexed
  <2> QED
    BY <2>1, <2>2, <2>3, Fitting
<1>10. CASE op = \hE1
  <2>1. IndexCycles(op) = Rd2
    BY <1>10, <1>1 DEF IndexCycles
  <2>2. IndexDeclared(op) = 10
    BY <1>10, <1>1 DEF IndexDeclared
  <2>3. Piece(Rd2, 2, 6)
    BY Pairs
  <2> QED
    BY <2>1, <2>2, <2>3, Fitting
<1>11. CASE op = \hE5
  <2>1. IndexCycles(op) = Push
    BY <1>11, <1>1 DEF IndexCycles
  <2>2. IndexDeclared(op) = 11
    BY <1>11, <1>1 DEF IndexDeclared
  <2>3. Piece(Push, 3, 7)
    BY Pushes
  <2> QED
    BY <2>1, <2>2, <2>3, Fitting
<1>12. CASE op = \hE3
  <2>1. IndexCycles(op) = ExchangeSP
    BY <1>12, <1>1 DEF IndexCycles
  <2>2. IndexDeclared(op) = 19
    BY <1>12, <1>1 DEF IndexDeclared
  <2>3. Piece(ExchangeSP, 7, 15)
    BY Exchange
  <2> QED
    BY <2>1, <2>2, <2>3, Fitting
<1>13. CASE op \in IndexHalves
  <2>1. op \notin IndexMemory \cup {\h36}
    BY <1>13, <1>1
  <2>2. op \notin {\h09, \h19, \h29, \h39} /\ op # \h21 /\ op # \h22 /\ op # \h2A
        /\ op \notin {\h23, \h2B, \hF9} /\ op \notin {\h26, \h2E} /\ op \notin {\h34, \h35}
        /\ op # \h36 /\ op # \hE1 /\ op # \hE5 /\ op # \hE3
    BY <1>13, <1>1
  <2>3. IndexCycles(op) = <<>>
    BY <1>13, <2>1, <2>2 DEF IndexCycles
  <2>4. IndexDeclared(op) = 4
    BY <1>13, <2>1, <1>1 DEF IndexDeclared
  <2> QED
    BY <2>3, <2>4, Nothing, Fitting
<1>14. CASE op \in IndexMemory
  <2> DEFINE last == IF op \in \h70 .. \h77 THEN <<"wr">> ELSE <<"rd">>
  <2>1. op \notin IndexHalves /\ op \in \h40 .. \hBF
    BY <1>14, <1>1
  <2>2. op \notin {\h09, \h19, \h29, \h39} /\ op # \h21 /\ op # \h22 /\ op # \h2A
        /\ op \notin {\h23, \h2B, \hF9} /\ op \notin {\h26, \h2E} /\ op \notin {\h34, \h35}
        /\ op # \h36 /\ op # \hE1 /\ op # \hE5 /\ op # \hE3
    BY <1>14, <1>1
  <2>3. IndexCycles(op) = Displaced \o last
    BY <1>14, <2>1, <2>2 DEF IndexCycles
  <2>4. IndexDeclared(op) = 15
    BY <1>14, <2>1 DEF IndexDeclared
  <2>5. last = <<"wr">> \/ last = <<"rd">>
    OBVIOUS
  <2> HIDE DEF last
  <2>6. Piece(Displaced \o last, 7, 11)
    BY <2>5, Indexed
  <2> QED
    BY <2>3, <2>4, <2>6, Fitting
<1>15. \/ op \in IndexHalves \/ op \in IndexMemory
      \/ op \in {\h09, \h19, \h29, \h39}
      \/ op = \h21
      \/ op = \h22
      \/ op = \h2A
      \/ op \in {\h23, \h2B, \hF9}
      \/ op \in {\h26, \h2E}
      \/ op \in {\h34, \h35}
      \/ op = \h36
      \/ op = \hE1
      \/ op = \hE5
      \/ op = \hE3
  BY DEF IndexOps, IndexHalves
<1> QED
  BY <1>2, <1>3, <1>4, <1>5, <1>6, <1>7, <1>8, <1>9, <1>10, <1>11, <1>12, <1>13, <1>14, <1>15

\* DD CB: two opcode fetches and two operand reads, less the prefix, count 10.
LEMMA IndexCbFits ==
  ASSUME NEW op \in 0 .. 255
  PROVE  /\ Fits(IndexCbCycles(op), IndexCbDeclared(op) - 10)
         /\ IndexCbDeclared(op) \in Int /\ IndexCbDeclared(op) <= 19
<1> DEFINE head == Idle(2) \o <<"rd", "idle">>
           back == When(~IsBit(op), <<"wr">>)
<1>1. Piece(Idle(2), 2, 2) /\ Passive(Idle(2))
  BY Idles
<1>2. Piece(head, 2 + 2, 2 + 4)
  BY <1>1, Pairs, Joined
<1>3. Passive(head)
  BY <1>1, Pairs, Lasting DEF Piece, List
<1>4. IndexCbCycles(op) = head \o back
  BY DEF IndexCbCycles
<1> HIDE DEF head
<1>5. CASE IsBit(op)
  <2>1. back = <<>>
    BY <1>5 DEF When
  <2>2. IndexCbDeclared(op) = 16
    BY <1>5 DEF IndexCbDeclared
  <2> HIDE DEF back
  <2>3. Piece(head \o back, 4 + 0, 6 + 0)
    BY <1>2, <1>3, <2>1, Nothing, Joined
  <2> QED
    BY <1>4, <2>2, <2>3, Fitting
<1>6. CASE ~IsBit(op)
  <2>1. back = <<"wr">>
    BY <1>6 DEF When
  <2>2. IndexCbDeclared(op) = 19
    BY <1>6 DEF IndexCbDeclared
  <2> HIDE DEF back
  <2>3. Piece(head \o back, 4 + 1, 6 + 3)
    BY <1>2, <1>3, <2>1, Plain, Joined
  <2> QED
    BY <1>4, <2>2, <2>3, Fitting
<1> QED
  BY <1>5, <1>6

-----------------------------------------------------------------------------
(* The inductive invariant: what t and declared are while the opcode is      *)
(* looked for, and that the rest of the list makes up the difference once    *)
(* the instruction has been decoded.                                         *)

Decoding == {"base", "index", "cb", "ed", "displacement", "indexcb"}

Fetched == CASE phase \in {"base", "index"}              -> 0
             [] phase \in {"cb", "ed", "displacement"}   -> 4
             [] phase = "indexcb"                        -> 7

\* Looking for the opcode: only its bytes have been counted.
Looking ==
    phase \in Decoding =>
        /\ todo = <<>> /\ wrote = FALSE
        /\ declared = 4 * prefixes /\ t = 4 * prefixes + Fetched

\* The instruction's own cycles.
Running ==
    phase = "cycles" =>
        /\ \E n \in 0 .. 11 : List(todo, n)
        /\ Ordered(todo)
        /\ t \in Int /\ t + Rest(todo) = declared
        /\ declared <= 21 + 4 * prefixes
        /\ wrote => Blind(todo)

\* Between instructions.
Returned ==
    phase = "host" => todo = <<>> /\ t \in Int /\ t = declared /\ t <= 21 + 4 * prefixes

TimingInv ==
    /\ phase \in Decoding \cup {"host", "cycles"}
    /\ prefixes \in Nat
    /\ wrote \in BOOLEAN
    /\ Looking /\ Running /\ Returned

\* What is left to do takes no negative time.
LEMMA RestNat ==
  ASSUME NEW s, NEW n \in 0 .. 11, List(s, n)
  PROVE  Rest(s) \in Int /\ Rest(s) >= 0
<1>1. s \in Seq(Kinds)
  BY DEF List
<1>2. \A k \in 1 .. 11 : Cost(s, k) \in Int /\ Cost(s, k) >= 0
  BY <1>1, CostType
<1> QED
  BY <1>2 DEF Rest

\* Nothing left to do.
LEMMA RestNone == Rest(<<>>) = 0 /\ List(<<>>, 0) /\ Ordered(<<>>) /\ Blind(<<>>)
  BY Nothing DEF Piece

\* Decoding an instruction that fits leaves exactly its cycles to be made.
LEMMA DecodedKeeps ==
  ASSUME TimingInv, phase \in Decoding,
         NEW cycles, NEW total \in Int, NEW fetched \in Int,
         Fits(cycles, total - fetched), total <= 21,
         t' = 4 * prefixes + fetched, Decoded(cycles, total)
  PROVE  TimingInv'
<1>1. /\ phase' = "cycles" /\ todo' = cycles /\ prefixes' = prefixes
      /\ declared' = 4 * prefixes + total /\ wrote' = FALSE /\ prefixes \in Nat
  BY DEF TimingInv, Looking, Decoded
<1>2. (\E n \in 0 .. 11 : List(cycles, n)) /\ Ordered(cycles) /\ Rest(cycles) = total - fetched
  BY DEF Fits
<1>3. Running'
  BY <1>1, <1>2 DEF Running
<1> QED
  BY <1>1, <1>3 DEF TimingInv, Looking, Returned, Decoding

\* The actions keep the invariant, one by one: an instruction begins,
LEMMA BeginKeeps ==
  ASSUME TimingInv, Begin
  PROVE  TimingInv'
<1>1. /\ phase' = "base" /\ prefixes' = 0 /\ todo' = <<>>
      /\ t' = 0 /\ declared' = 0 /\ wrote' = FALSE
  BY DEF Begin
<1>2. Looking'
  BY <1>1 DEF Looking, Fetched
<1> QED
  BY <1>1, <1>2 DEF TimingInv, Running, Returned, Decoding

\* one more prefix counts four T-states on both sides,
LEMMA FetchPrefixKeeps ==
  ASSUME TimingInv, NEW op, FetchPrefix(op)
  PROVE  TimingInv'
<1>1. /\ phase \in {"base", "index"} /\ phase' = "index"
      /\ todo' = todo /\ wrote' = wrote
      /\ \/ t' = t + 4 /\ declared' = declared + 4 /\ prefixes' = prefixes + 1
         \/ t' = t /\ declared' = declared /\ prefixes' = prefixes
  BY DEF FetchPrefix, Fetch, Length
<1>2. /\ todo = <<>> /\ wrote = FALSE /\ prefixes \in Nat
      /\ declared = 4 * prefixes /\ t = 4 * prefixes
  BY <1>1 DEF TimingInv, Looking, Decoding, Fetched
<1>3. prefixes' \in Nat /\ declared' = 4 * prefixes' /\ t' = 4 * prefixes'
  BY <1>1, <1>2
<1> QED
  BY <1>1, <1>2, <1>3 DEF TimingInv, Looking, Running, Returned, Decoding, Fetched

\* Turning to another page.
LEMMA TurnKeeps ==
  ASSUME TimingInv, phase \in Decoding, NEW page \in {"cb", "ed", "displacement", "indexcb"},
         Turn(page), t' = 4 * prefixes + (IF page = "indexcb" THEN 7 ELSE 4)
  PROVE  TimingInv'
<1>1. /\ phase' = page /\ prefixes' = prefixes /\ todo' = <<>> /\ wrote' = FALSE
      /\ declared' = 4 * prefixes /\ prefixes \in Nat
  BY DEF TimingInv, Looking, Turn
<1>2. CASE page = "indexcb"
  BY <1>1, <1>2 DEF TimingInv, Looking, Running, Returned, Decoding, Fetched
<1>3. CASE page # "indexcb"
  BY <1>1, <1>3 DEF TimingInv, Looking, Running, Returned, Decoding, Fetched
<1> QED
  BY <1>2, <1>3

\* the base page is decoded or left,
LEMMA FetchBaseKeeps ==
  ASSUME TimingInv, NEW op \in 0 .. 255, NEW taken \in BOOLEAN, FetchBase(op, taken)
  PROVE  TimingInv'
<1>1. phase \in {"base", "index"} /\ op \notin Prefixes /\ t' = t + 4
  BY DEF FetchBase, Fetch, Length
<1>2. t' = 4 * prefixes + 4 /\ phase \in Decoding
  BY <1>1 DEF TimingInv, Looking, Decoding, Fetched
<1>3. CASE Turn("cb") \/ Turn("ed")
  BY <1>2, <1>3, TurnKeeps
<1>4. CASE op \notin {\hCB, \hED} /\ Decoded(BaseCycles(op, taken), BaseDeclared(op, taken))
  <2>1. op \in (0 .. 255) \ {\hCB, \hDD, \hED, \hFD}
    BY <1>1, <1>4 DEF Prefixes
  <2>2. /\ Fits(BaseCycles(op, taken), BaseDeclared(op, taken) - 4)
        /\ BaseDeclared(op, taken) \in Int /\ BaseDeclared(op, taken) <= 21
    BY <2>1, BaseFits
  <2> QED
    BY <1>2, <1>4, <2>2, DecodedKeeps
<1> QED
  BY <1>3, <1>4 DEF FetchBase

\* an opcode behind DD or FD,
LEMMA FetchIndexKeeps ==
  ASSUME TimingInv, NEW op, FetchIndex(op)
  PROVE  TimingInv'
<1>1. phase = "index" /\ t' = t + 4
  BY DEF FetchIndex, Fetch, Length
<1>2. t' = 4 * prefixes + 4 /\ phase \in Decoding
  BY <1>1 DEF TimingInv, Looking, Decoding, Fetched
<1>3. CASE Turn("displacement")
  BY <1>2, <1>3, TurnKeeps
<1>4. CASE op \in IndexOps /\ Decoded(IndexCycles(op), IndexDeclared(op))
  <2>1. /\ Fits(IndexCycles(op), IndexDeclared(op) - 4)
        /\ IndexDeclared(op) \in Int /\ IndexDeclared(op) <= 21
    BY <1>4, IndexFits
  <2> QED
    BY <1>2, <1>4, <2>1, DecodedKeeps
<1> QED
  BY <1>3, <1>4 DEF FetchIndex

\* behind CB,
LEMMA FetchCbKeeps ==
  ASSUME TimingInv, NEW op \in 0 .. 255, FetchCb(op)
  PROVE  TimingInv'
<1>1. phase = "cb" /\ t' = t + 4 /\ Decoded(CbCycles(op), CbDeclared(op))
  BY DEF FetchCb, Fetch, Length
<1>2. t' = 4 * prefixes + 8 /\ phase \in Decoding
  BY <1>1 DEF TimingInv, Looking, Decoding, Fetched
<1>3. /\ Fits(CbCycles(op), CbDeclared(op) - 8)
      /\ CbDeclared(op) \in Int /\ CbDeclared(op) <= 21
  BY CbFits
<1> QED
  BY <1>1, <1>2, <1>3, DecodedKeeps

\* behind ED,
LEMMA FetchEdKeeps ==
  ASSUME TimingInv, NEW op \in 0 .. 255, NEW again \in BOOLEAN, FetchEd(op, again)
  PROVE  TimingInv'
<1>1. phase = "ed" /\ t' = t + 4 /\ Decoded(EdCycles(op, again), EdDeclared(op, again))
  BY DEF FetchEd, Fetch, Length
<1>2. t' = 4 * prefixes + 8 /\ phase \in Decoding
  BY <1>1 DEF TimingInv, Looking, Decoding, Fetched
<1>3. /\ Fits(EdCycles(op, again), EdDeclared(op, again) - 8)
      /\ EdDeclared(op, again) \in Int /\ EdDeclared(op, again) <= 21
  BY EdFits
<1> QED
  BY <1>1, <1>2, <1>3, DecodedKeeps

\* the displacement in front of an indexed CB opcode,
LEMMA FetchDisplacementKeeps ==
  ASSUME TimingInv, FetchDisplacement
  PROVE  TimingInv'
<1>1. phase = "displacement" /\ t' = t + 3 /\ Turn("indexcb")
  BY DEF FetchDisplacement, Fetch, Length
<1>2. t' = 4 * prefixes + 7 /\ phase \in Decoding
  BY <1>1 DEF TimingInv, Looking, Decoding, Fetched
<1> QED
  BY <1>1, <1>2, TurnKeeps

\* and that opcode.
LEMMA FetchIndexCbKeeps ==
  ASSUME TimingInv, NEW op \in 0 .. 255, FetchIndexCb(op)
  PROVE  TimingInv'
<1>1. phase = "indexcb" /\ t' = t + 3 /\ Decoded(IndexCbCycles(op), IndexCbDeclared(op))
  BY DEF FetchIndexCb, Fetch, Length
<1>2. t' = 4 * prefixes + 10 /\ phase \in Decoding
  BY <1>1 DEF TimingInv, Looking, Decoding, Fetched
<1>3. /\ Fits(IndexCbCycles(op), IndexCbDeclared(op) - 10)
      /\ IndexCbDeclared(op) \in Int /\ IndexCbDeclared(op) <= 21
  BY IndexCbFits
<1> QED
  BY <1>1, <1>2, <1>3, DecodedKeeps

\* A bus cycle moves its T-states from the rest of the list into t.
LEMMA CycleKeeps ==
  ASSUME TimingInv, Cycle
  PROVE  TimingInv'
<1>1. /\ phase = "cycles" /\ phase' = "cycles" /\ todo # <<>>
      /\ t' = t + Length[Head(todo)] /\ todo' = Tail(todo)
      /\ prefixes' = prefixes /\ declared' = declared
      /\ prefixes \in Nat
      /\ t \in Int /\ t + Rest(todo) = declared /\ declared <= 21 + 4 * prefixes
      /\ Ordered(todo)
  BY DEF Cycle, TimingInv, Running
<1>2. PICK n \in 0 .. 11 : List(todo, n)
  BY <1>1 DEF TimingInv, Running
<1>3. n \in 1 .. 11
  BY <1>1, <1>2, EmptySeq DEF List
<1>4. /\ List(Tail(todo), n - 1) /\ Ordered(Tail(todo)) /\ Head(todo) \in Kinds
      /\ Rest(todo) = Length[Head(todo)] + Rest(Tail(todo))
      /\ Head(todo) \in Drives \/ Blind(todo) => Blind(Tail(todo))
  BY <1>1, <1>2, <1>3, Shift
<1>5. Length[Head(todo)] \in Int
  BY <1>4, KindLength
<1>6. Rest(Tail(todo)) \in Int /\ n - 1 \in 0 .. 11
  BY <1>3, <1>4, RestNat
<1>7. t' \in Int /\ t' + Rest(todo') = declared'
  BY <1>1, <1>4, <1>5, <1>6
<1>8. wrote' => Blind(todo')
  <2>1. wrote' => wrote \/ Head(todo) \in Drives
    BY DEF Cycle, Drives
  <2>2. wrote => Blind(todo)
    BY <1>1 DEF TimingInv, Running
  <2> QED
    BY <1>1, <1>4, <2>1, <2>2
<1>9. wrote' \in BOOLEAN
  BY DEF Cycle, TimingInv
<1>10. (\E m \in 0 .. 11 : List(todo', m)) /\ Ordered(todo')
  BY <1>1, <1>4, <1>6
<1>11. Running'
  BY <1>1, <1>7, <1>8, <1>10 DEF Running
<1> QED
  BY <1>1, <1>9, <1>11 DEF TimingInv, Looking, Returned, Decoding

\* With no cycle left, step() returns.
LEMMA ReturnKeeps ==
  ASSUME TimingInv, Return
  PROVE  TimingInv'
<1>1. /\ phase = "cycles" /\ todo = <<>> /\ phase' = "host"
      /\ UNCHANGED <<prefixes, todo, t, declared, wrote>>
  BY DEF Return
<1>2. t \in Int /\ t + 0 = declared /\ declared <= 21 + 4 * prefixes
  BY <1>1, RestNone DEF TimingInv, Running
<1> QED
  BY <1>1, <1>2 DEF TimingInv, Looking, Running, Returned, Decoding

\* The invariant of the specification.
LEMMA TimingInvariant == Spec => []TimingInv
<1>1. Init => TimingInv
  <2> SUFFICES ASSUME Init
               PROVE  TimingInv
    OBVIOUS
  <2>1. Returned
    BY DEF Init, Returned
  <2> QED
    BY <2>1 DEF Init, TimingInv, Looking, Running, Decoding
<1>2. TimingInv /\ [Next]_tvars => TimingInv'
  <2> SUFFICES ASSUME TimingInv, [Next]_tvars
               PROVE  TimingInv'
    OBVIOUS
  <2>1. CASE Begin
    BY <2>1, BeginKeeps
  <2>2. ASSUME NEW op \in Opcodes, NEW taken \in BOOLEAN,
               \/ FetchPrefix(op)
               \/ FetchBase(op, taken)
               \/ FetchIndex(op)
               \/ FetchCb(op)
               \/ FetchEd(op, taken)
               \/ FetchIndexCb(op)
        PROVE  TimingInv'
    <3>1. op \in 0 .. 255
      BY OpcodeAssumption
    <3> QED
      BY <2>2, <3>1, FetchPrefixKeeps, FetchBaseKeeps, FetchIndexKeeps, FetchCbKeeps,
         FetchEdKeeps, FetchIndexCbKeeps
  <2>3. CASE FetchDisplacement
    BY <2>3, FetchDisplacementKeeps
  <2>4. CASE Cycle
    BY <2>4, CycleKeeps
  <2>5. CASE Return
    BY <2>5, ReturnKeeps
  <2>6. CASE UNCHANGED tvars
    <3>1. /\ phase' = phase /\ prefixes' = prefixes /\ todo' = todo
          /\ t' = t /\ declared' = declared /\ wrote' = wrote
      BY <2>6 DEF tvars
    <3>2. (Looking' <=> Looking) /\ (Running' <=> Running) /\ (Returned' <=> Returned)
      BY <3>1 DEF Looking, Running, Returned, Fetched
    <3> QED
      BY <3>1, <3>2 DEF TimingInv
  <2> QED
    BY <2>1, <2>2, <2>3, <2>4, <2>5, <2>6 DEF Next, Advance
<1> QED
  BY <1>1, <1>2, PTL DEF Spec

-----------------------------------------------------------------------------

\* The assertion at the end of step(): for every opcode of every page, behind
\* any prefixes, the bus cycles made add up to the T-states declared.
THEOREM TimingAssertionHolds == Spec => []TimingAssertion
<1>1. TimingInv => TimingAssertion
  BY DEF TimingInv, Returned, TimingAssertion
<1> QED
  BY <1>1, TimingInvariant, PTL

\* How long an instruction can keep run_for and an accepted NMI waiting: 21
\* T-states, and 4 for each prefix byte.
THEOREM InstructionsAreShort == Spec => []LongestInstruction
<1>1. TimingInv => LongestInstruction
  <2> SUFFICES ASSUME TimingInv
               PROVE  LongestInstruction
    OBVIOUS
  <2>1. CASE phase \in Decoding
    <3>1. Fetched \in {0, 4, 7}
      BY <2>1 DEF Fetched, Decoding
    <3> QED
      BY <2>1, <3>1 DEF TimingInv, Looking, LongestInstruction
  <2>2. CASE phase = "cycles"
    <3>1. Rest(todo) \in Int /\ Rest(todo) >= 0
      BY <2>2, RestNat DEF TimingInv, Running
    <3> QED
      BY <2>2, <3>1 DEF TimingInv, Running, LongestInstruction
  <2>3. CASE phase = "host"
    BY <2>3 DEF TimingInv, Returned, LongestInstruction
  <2> QED
    BY <2>1, <2>2, <2>3 DEF TimingInv
<1> QED
  BY <1>1, TimingInvariant, PTL

\* Nothing is read behind the first cycle that drives the bus, so a write that
\* makes the host remap memory cannot change what the instruction reads.
THEOREM WritesComeLast == Spec => []ReadsBeforeWrites
<1>1. TimingInv => ReadsBeforeWrites
  <2> SUFFICES ASSUME TimingInv, wrote
               PROVE  \A k \in DOMAIN todo : todo[k] \notin {"rd", "imm", "in"}
    BY DEF ReadsBeforeWrites
  <2>1. CASE phase = "cycles"
    <3>1. todo \in Seq(Kinds) /\ Blind(todo)
      BY <2>1 DEF TimingInv, Running, List
    <3>2. DOMAIN todo = 1 .. Len(todo)
      BY <3>1, LenProperties
    <3> QED
      BY <3>1, <3>2 DEF Blind, Reads
  <2>2. CASE phase # "cycles"
    <3>1. todo = <<>>
      BY <2>2 DEF TimingInv, Looking, Returned
    <3>2. DOMAIN todo = {}
      BY <3>1
    <3> QED
      BY <3>2
  <2> QED
    BY <2>1, <2>2
<1> QED
  BY <1>1, TimingInvariant, PTL

=============================================================================
