-------------------------- MODULE Z80ControlProofs --------------------------
(***************************************************************************)
(* Proofs about Z80Control for every ROM, RAM, host and snapshot that its  *)
(* assumptions allow: type correctness, Iff1NeedsIff2 and HaltedOnHalt.    *)
(***************************************************************************)
EXTENDS Z80Control, TLAPS

-----------------------------------------------------------------------------
(* 16-bit arithmetic.  The solver is named: Zenon counts to 65536 in unary.   *)

\* A word is an integer of 16 bits, a byte one of 8.
LEMMA WordBounds == \A w \in Word : w \in Int /\ 0 <= w /\ w <= 65535
BY SMT DEF Word, MaxWord

LEMMA ByteBounds == \A b \in Byte : b \in Int /\ 0 <= b /\ b <= 255
BY SMT DEF Byte

\* A cast to uint16_t yields a word, and does nothing to a number of 16 bits.
LEMMA WordCast == \A n \in Int : W16(n) \in Word
BY SMT DEF W16, Word, MaxWord

LEMMA CastBounds == \A n \in Int : 0 <= n /\ n <= 65535 => W16(n) = n
BY SMT DEF W16

\* Below zero a cast wraps once around.
LEMMA CastBelow == \A n \in Int : -65536 <= n /\ n < 0 => W16(n) = n + 65536
BY SMT DEF W16

\* A number of 16 bits is a word, one of 8 a byte.
LEMMA BoundsWord == \A n \in Int : 0 <= n /\ n <= 65535 => n \in Word
BY WordCast, CastBounds, SMT

LEMMA BoundsByte == \A n \in Int : 0 <= n /\ n <= 255 => n \in Byte
BY SMT DEF Byte

\* The two bytes of a word are bytes, and joining any two gives a word.
LEMMA ByteParts == \A w \in Word : HiByte(w) \in Byte /\ LoByte(w) \in Byte
BY WordBounds, BoundsByte, SMT DEF HiByte, LoByte

LEMMA JoinedWord == \A hi, lo \in Byte : Join(hi, lo) \in Word
BY ByteBounds, BoundsWord, SMT DEF Join

\* Splitting a word and joining it again gives the word back.
LEMMA SplitJoin == \A w \in Word : Join(HiByte(w), LoByte(w)) = w
BY WordBounds, SMT DEF HiByte, LoByte, Join

\* Stepping one back from the address after x, wrap or not, gives x.
LEMMA BackOne == \A x \in Int : W16(W16(x + 1) - 1) = W16(x)
BY SMT DEF W16

-----------------------------------------------------------------------------
(* Memory.                                                                   *)

Memory == [RamAddrs -> Byte]

\* Whatever the map, a read gives a byte and a write leaves a RAM.
LEMMA ReadType == ASSUME NEW m \in Memory, NEW a PROVE ReadMem(m, a) \in Byte
BY HostAssumption DEF ReadMem, Memory

LEMMA WriteType ==
    ASSUME NEW m \in Memory, NEW a, NEW v \in Byte
    PROVE  WriteMem(m, a, v) \in Memory
BY DEF WriteMem, Memory

LEMMA ReadWordType == ASSUME NEW m \in Memory, NEW a PROVE ReadWord(m, a) \in Word
BY ReadType, JoinedWord DEF ReadWord

LEMMA PushedType ==
    ASSUME NEW m \in Memory, NEW s, NEW w \in Word
    PROVE  Pushed(m, s, w) \in Memory
BY WriteType, ByteParts DEF Pushed

\* The two addresses a push writes are different, even where SP wraps.
LEMMA PushAddresses ==
    ASSUME NEW s \in Word
    PROVE  /\ W16(s - 1) # W16(s - 2)
           /\ W16(W16(s - 2) + 1) = W16(s - 1)
           /\ W16(s - 2) \in Word
           /\ W16(W16(s - 2) + 2) = s
<1>1. s \in Int /\ 0 <= s /\ s <= 65535
  BY WordBounds
<1>2. CASE s = 0
  <2>1. W16(s - 1) = 65535 /\ W16(s - 2) = 65534
    BY <1>2, CastBelow, SMT
  <2>2. W16(W16(s - 2) + 1) = 65535 /\ W16(W16(s - 2) + 2) = 0
    BY <2>1, SMT DEF W16
  <2>3. 65534 \in Word
    BY BoundsWord, SMT
  <2> QED
    BY <1>2, <2>1, <2>2, <2>3, SMT
<1>3. CASE s = 1
  <2>1. W16(s - 1) = 0 /\ W16(s - 2) = 65535
    BY <1>3, CastBelow, CastBounds, SMT
  <2>2. W16(W16(s - 2) + 1) = 0 /\ W16(W16(s - 2) + 2) = 1
    BY <2>1, SMT DEF W16
  <2>3. 65535 \in Word
    BY BoundsWord, SMT
  <2> QED
    BY <1>3, <2>1, <2>2, <2>3, SMT
<1>4. CASE s >= 2
  <2>1. W16(s - 1) = s - 1 /\ W16(s - 2) = s - 2 /\ W16(s) = s
    BY <1>1, <1>4, CastBounds, SMT
  <2>2. s - 2 \in Word
    BY <1>1, <1>4, BoundsWord, SMT
  <2> QED
    BY <1>1, <2>1, <2>2, SMT
<1> QED
  BY <1>1, <1>2, <1>3, <1>4, SMT

\* push16 then pop16 gives back the word and the stack pointer, across the
\* wrap of SP and whatever else is in memory, when both bytes land in RAM.
THEOREM PushThenPop ==
    ASSUME NEW m \in Memory, NEW s \in Word, NEW w \in Word,
           W16(s - 1) \in RamAddrs, W16(s - 2) \in RamAddrs
    PROVE  /\ ReadWord(Pushed(m, s, w), W16(s - 2)) = w
           /\ W16(W16(s - 2) + 2) = s
<1> DEFINE hi == W16(s - 1)
           lo == W16(s - 2)
           p  == Pushed(m, s, w)
<1>1. HiByte(w) \in Byte /\ LoByte(w) \in Byte
  BY ByteParts
<1>2. hi # lo /\ W16(lo + 1) = hi
  BY PushAddresses
<1>3. p = [[m EXCEPT ![hi] = HiByte(w)] EXCEPT ![lo] = LoByte(w)]
  BY DEF Pushed, WriteMem
<1>4. p[hi] = HiByte(w) /\ p[lo] = LoByte(w)
  BY <1>2, <1>3 DEF Memory
<1>5. ReadMem(p, lo) = LoByte(w) /\ ReadMem(p, W16(lo + 1)) = HiByte(w)
  BY <1>2, <1>4 DEF ReadMem
<1>6. ReadWord(p, lo) = Join(HiByte(w), LoByte(w))
  BY <1>5 DEF ReadWord
<1> QED
  BY <1>6, SplitJoin, PushAddresses

-----------------------------------------------------------------------------
(* Type correctness.  Each group of actions keeps TypeOK.                    *)

\* What a push does to SP and RAM, and a pop to SP, keeps their types.
LEMMA PushType ==
    ASSUME TypeOK, NEW w \in Word, Push(w)
    PROVE  sp' \in Word /\ ram' \in Memory
<1>1. sp \in Word /\ sp - 2 \in Int /\ ram \in Memory
  BY WordBounds, SMT DEF TypeOK, Memory
<1> QED
  BY <1>1, WordCast, PushedType DEF Push

LEMMA PopType ==
    ASSUME TypeOK, Pop
    PROVE  sp' \in Word /\ ram' \in Memory /\ TopOfStack \in Word
<1>1. sp \in Word /\ sp + 2 \in Int /\ ram \in Memory
  BY WordBounds, SMT DEF TypeOK, Memory
<1> QED
  BY <1>1, WordCast, ReadWordType DEF Pop, TopOfStack

\* The address behind a halted processor, or PC itself, is a word.
LEMMA ResumeType == ASSUME TypeOK PROVE ResumePc \in Word
<1>1. pc \in Word /\ pc + 1 \in Int
  BY WordBounds, SMT DEF TypeOK
<1> QED
  BY <1>1, WordCast DEF ResumePc

\* The byte on the data bus leads to a word, an RST or not.
LEMMA RstType == ASSUME NEW d \in Byte PROVE RstTarget(d) \in Word
<1>1. CASE d \div 64 = 3 /\ d % 8 = 7
  <2>1. 0 <= d - 199 /\ d - 199 <= 65535 /\ d - 199 \in Int
    BY <1>1, ByteBounds, SMT
  <2> QED
    BY <1>1, <2>1, BoundsWord, SMT DEF RstTarget
<1>2. CASE ~(d \div 64 = 3 /\ d % 8 = 7)
  BY <1>2, BoundsWord, SMT DEF RstTarget
<1> QED
  BY <1>1, <1>2

\* Whatever the interrupt mode and the data bus, the vector is a word.
LEMMA VectorType ==
    ASSUME TypeOK, NEW d \in Byte, NEW m \in Memory
    PROVE  IntVector(d, m) \in Word
<1>1. RstTarget(d) \in Word
  BY RstType
<1>2. 56 \in Word
  BY BoundsWord, SMT
<1>3. ReadWord(m, Join(i, d)) \in Word
  BY ReadWordType
<1>4. ResumePc \in Word
  BY ResumeType
<1>5. im = 0 \/ im = 1 \/ im = 2
  BY SMT DEF TypeOK
<1> QED
  BY <1>1, <1>2, <1>3, <1>4, <1>5, SMT DEF IntVector

\* TypeOK without the input lines, which no instruction touches.
RegsOK ==
    /\ pc \in Word /\ sp \in Word /\ im \in 0 .. 2 /\ i \in Byte
    /\ iff1 \in BOOLEAN /\ iff2 \in BOOLEAN
    /\ halted \in BOOLEAN /\ ei_pending \in BOOLEAN
    /\ ram \in Memory

LinesOK ==
    /\ nmi_line \in BOOLEAN /\ nmi_pending \in BOOLEAN
    /\ int_line \in BOOLEAN /\ int_pulse_pending \in BOOLEAN

LEMMA TypeParts == TypeOK <=> RegsOK /\ LinesOK
BY DEF TypeOK, RegsOK, LinesOK, Memory

\* A processor that executes does so with a byte as opcode and a word as the
\* address behind it, however many prefixes came first.
LEMMA FetchedType ==
    ASSUME TypeOK, Execute
    PROVE  /\ PrefixRun \in Nat /\ Opcode \in Byte /\ Operand \in Word
           /\ Opcode = ReadMem(ram, W16(pc + PrefixRun))
<1>1. MaxPrefix \in Nat /\ pc \in Int /\ ram \in Memory
  BY HostAssumption, WordBounds, SMT DEF TypeOK, Memory
<1>2. PrefixRun \in 0 .. MaxPrefix
  BY Zenon DEF Execute, PrefixRun
<1>3. PrefixRun \in Nat
  BY <1>1, <1>2, SMT
<1>4. pc + PrefixRun + 1 \in Int
  BY <1>1, <1>3, SMT
<1> QED
  BY <1>1, <1>3, <1>4, ReadType, WordCast DEF Opcode, Operand

\* A store of the data registers, of a byte or of a word, leaves a RAM.
LEMMA StoreType ==
    ASSUME TypeOK, NEW a
    PROVE  /\ \A v \in Byte : StoreByte(a, v) => ram' \in Memory
           /\ \A w \in Word : StoreWord(a, w) => ram' \in Memory
           /\ \A w \in RegPairs : StoreByte(a, LoByte(w)) => ram' \in Memory
<1>1. ram \in Memory
  BY DEF TypeOK, Memory
<1>2. ASSUME NEW v \in Byte, StoreByte(a, v) PROVE ram' \in Memory
  BY <1>1, <1>2, WriteType DEF StoreByte
<1>3. ASSUME NEW w \in Word, StoreWord(a, w) PROVE ram' \in Memory
  <2>1. WriteMem(ram, a, LoByte(w)) \in Memory
    BY <1>1, ByteParts, WriteType
  <2> QED
    BY <1>3, <2>1, ByteParts, WriteType DEF StoreWord
<1> QED
  BY <1>2, <1>3, HostAssumption, ByteParts

\* One instruction of the plain page leaves every register its width.
LEMMA InstructionType ==
    ASSUME TypeOK, NEW op \in Byte, NEW next \in Word,
           DispatchUnprefixed(op, next)
    PROVE  RegsOK'
<1> USE DEF RegsOK, UnchangedEnables
<1>1. /\ pc \in Word /\ sp \in Word /\ im \in 0 .. 2 /\ i \in Byte
      /\ iff1 \in BOOLEAN /\ iff2 \in BOOLEAN
      /\ halted \in BOOLEAN /\ ei_pending \in BOOLEAN /\ ram \in Memory
  BY DEF TypeOK, Memory
<1>2. /\ next + 1 \in Int /\ next + 2 \in Int /\ next - 1 \in Int
      /\ sp + 1 \in Int /\ sp - 1 \in Int /\ next - 2 \in Int
  BY <1>1, WordBounds, SMT
<1>3. /\ W16(next + 1) \in Word /\ W16(next + 2) \in Word /\ W16(next - 1) \in Word
      /\ W16(sp + 1) \in Word /\ W16(sp - 1) \in Word /\ W16(next - 2) \in Word
  BY <1>2, WordCast
<1>4. ReadWord(ram, next) \in Word
  BY <1>1, ReadWordType
<1>5. ASSUME Inert(op, next) PROVE RegsOK'
  BY <1>1, <1>3, <1>5 DEF Inert
<1>6. ASSUME Ei(op, next) PROVE RegsOK'
  BY <1>1, <1>6 DEF Ei
<1>7. ASSUME Di(op, next) PROVE RegsOK'
  BY <1>1, <1>7 DEF Di
<1>8. ASSUME Halt(op, next) PROVE RegsOK'
  BY <1>1, <1>3, <1>8 DEF Halt
<1>9. ASSUME JumpRelative(op, next) PROVE RegsOK'
  <2>1. PICK taken \in BOOLEAN :
           pc' = W16(next + 1 + IF taken THEN Signed(ReadMem(ram, next)) ELSE 0)
    BY <1>9, Zenon DEF JumpRelative
  <2>2. Signed(ReadMem(ram, next)) \in Int
    <3>1. ReadMem(ram, next) \in Byte
      BY <1>1, ReadType
    <3> QED
      BY <3>1, ByteBounds, SMT DEF Signed
  <2>3. next + 1 + (IF taken THEN Signed(ReadMem(ram, next)) ELSE 0) \in Int
    BY <1>2, <2>2, SMT
  <2>4. pc' \in Word
    BY <2>1, <2>3, WordCast
  <2> QED
    BY <1>1, <1>9, <2>4 DEF JumpRelative
<1>10. ASSUME Jump(op, next) PROVE RegsOK'
  <2>1. PICK taken \in BOOLEAN :
           pc' = IF taken THEN ReadWord(ram, next) ELSE W16(next + 2)
    BY <1>10, Zenon DEF Jump
  <2>2. pc' \in Word
    BY <1>3, <1>4, <2>1
  <2> QED
    BY <1>1, <1>10, <2>2 DEF Jump
<1>11. ASSUME Call(op, next) PROVE RegsOK'
  <2>1. PICK taken \in BOOLEAN :
           IF taken THEN pc' = ReadWord(ram, next) /\ Push(W16(next + 2))
                    ELSE pc' = W16(next + 2) /\ UNCHANGED <<sp, ram>>
    BY <1>11 DEF Call
  <2>2. pc' \in Word /\ sp' \in Word /\ ram' \in Memory
    BY <1>1, <1>3, <1>4, <2>1, PushType
  <2> QED
    BY <1>1, <1>11, <2>2 DEF Call
<1>12. ASSUME Ret(op, next) PROVE RegsOK'
  <2>1. PICK taken \in BOOLEAN :
           IF taken THEN pc' = TopOfStack /\ Pop
                    ELSE pc' = next /\ UNCHANGED <<sp, ram>>
    BY <1>12 DEF Ret
  <2>2. pc' \in Word /\ sp' \in Word /\ ram' \in Memory
    BY <1>1, <2>1, PopType
  <2> QED
    BY <1>1, <1>12, <2>2 DEF Ret
<1>13. ASSUME Rst(op, next) PROVE RegsOK'
  <2>1. op - 199 \in Int /\ 0 <= op - 199 /\ op - 199 <= 65535
    BY <1>13, ByteBounds, SMT DEF Rst
  <2>2. pc' \in Word
    BY <1>13, <2>1, BoundsWord, SMT DEF Rst
  <2>3. sp' \in Word /\ ram' \in Memory
    BY <1>13, PushType DEF Rst
  <2> QED
    BY <1>1, <1>13, <2>2, <2>3 DEF Rst
<1>14. ASSUME PushPair(op, next) PROVE RegsOK'
  <2>1. sp' \in Word /\ ram' \in Memory
    BY <1>14, HostAssumption, PushType DEF PushPair
  <2> QED
    BY <1>1, <1>14, <2>1 DEF PushPair
<1>15. ASSUME PopPair(op, next) PROVE RegsOK'
  <2>1. sp' \in Word /\ ram' \in Memory
    BY <1>15, PopType DEF PopPair
  <2> QED
    BY <1>1, <1>15, <2>1 DEF PopPair
<1>16. ASSUME MoveSP(op, next) PROVE RegsOK'
  <2>1. pc' \in Word /\ sp' \in Word
    BY <1>3, <1>4, <1>16, HostAssumption, Zenon DEF MoveSP
  <2> QED
    BY <1>1, <1>16, <2>1 DEF MoveSP
<1>17. ASSUME DispatchEd(ReadMem(ram, next), W16(next + 1)) PROVE RegsOK'
  <2> DEFINE ed == ReadMem(ram, next)
             behind == W16(next + 1)
  <2>1. CASE RetN(ed, behind)
    <3>1. sp' \in Word /\ ram' \in Memory /\ TopOfStack \in Word
      BY <2>1, PopType DEF RetN
    <3> QED
      BY <1>1, <2>1, <3>1 DEF RetN
  <2>2. CASE SetIm(ed, behind)
    <3>1. ImMode(ed) \in 0 .. 2
      BY SMT DEF ImMode
    <3>2. pc' \in Word /\ im' \in 0 .. 2
      BY <1>3, <2>2, <3>1, Zenon DEF SetIm
    <3> QED
      BY <1>1, <2>2, <3>2 DEF SetIm
  <2>3. CASE LdIA(ed, behind)
    <3>1. i' \in Byte
      BY <2>3, HostAssumption, ByteParts DEF LdIA
    <3> QED
      BY <1>1, <1>3, <2>3, <3>1 DEF LdIA
  <2>4. CASE EdInert(ed, behind)
    BY <1>1, <1>3, <2>4 DEF EdInert
  <2> HIDE DEF behind
  <2>5. behind \in Word /\ W16(behind + 2) \in Word /\ W16(behind - 2) \in Word
    <3>1. behind \in Word
      BY <1>3 DEF behind
    <3>2. behind + 2 \in Int /\ behind - 2 \in Int
      BY <3>1, WordBounds, SMT
    <3> QED
      BY <3>1, <3>2, WordCast
  <2>6. CASE EdMemory(ed, behind)
    <3>1. pc' \in Word
      BY <2>5, <2>6, Zenon DEF EdMemory
    <3>2. sp' \in Word
      BY <1>1, <2>6, ReadWordType, Zenon DEF EdMemory
    <3>3. ram' \in Memory
      <4>1. \A w \in IF ed = 115 THEN {sp} ELSE RegPairs : w \in Word
        BY <1>1, HostAssumption
      <4> QED
        BY <1>1, <2>6, <4>1, StoreType, Zenon DEF EdMemory
    <3> QED
      BY <1>1, <2>6, <3>1, <3>2, <3>3, Zenon DEF EdMemory
  <2>7. CASE Block(ed, behind)
    <3>1. pc' \in Word
      BY <2>5, <2>7, Zenon DEF Block
    <3>2. ram' \in Memory
      BY <1>1, <2>7, StoreType, Zenon DEF Block
    <3> QED
      BY <1>1, <2>7, <3>1, <3>2, Zenon DEF Block
  <2> QED
    BY <1>17, <2>1, <2>2, <2>3, <2>4, <2>6, <2>7 DEF DispatchEd, behind
<1>18. ASSUME Store(op, next) PROVE RegsOK'
  <2>1. pc' \in Word
    BY <1>3, <1>18, Zenon DEF Store
  <2>2. PICK w \in RegPairs, a \in RegPairs :
           \/ StoreByte(a, LoByte(w)) \/ StoreByte(a, ReadMem(ram, next))
           \/ StoreByte(ReadWord(ram, next), LoByte(w))
           \/ StoreWord(ReadWord(ram, next), w)
           \/ ram' = Pushed(ram, W16(sp + 2), w)
    BY <1>18, Zenon DEF Store
  <2>3. w \in Word /\ ReadMem(ram, next) \in Byte
    BY <1>1, HostAssumption, ReadType
  <2>4. ram' \in Memory
    BY <1>1, <2>2, <2>3, StoreType, PushedType, Zenon
  <2> QED
    BY <1>1, <1>18, <2>1, <2>4, Zenon DEF Store
<1>19. ASSUME JumpRegister(op, next) PROVE RegsOK'
  BY <1>1, <1>19, HostAssumption, Zenon DEF JumpRegister
<1>20. ASSUME ShiftOrBit(op, next) PROVE RegsOK'
  <2>1. ram' \in Memory
    BY <1>1, <1>20, StoreType, Zenon DEF ShiftOrBit
  <2> QED
    BY <1>1, <1>3, <1>20, <2>1, Zenon DEF ShiftOrBit
<1> QED
  BY <1>5, <1>6, <1>7, <1>8, <1>9, <1>10, <1>11, <1>12, <1>13, <1>14, <1>15,
     <1>16, <1>17, <1>18, <1>19, <1>20 DEF DispatchUnprefixed

\* So does a whole step that fetches and executes.
LEMMA ExecuteType == ASSUME TypeOK, Execute PROVE TypeOK'
<1>1. Opcode \in Byte /\ Operand \in Word
  BY FetchedType
<1>2. LinesOK'
  BY DEF Execute, NothingAccepted, SpendPulse, LinesOK, TypeOK
<1>3. CASE Indexed(Opcode, Operand)
  <2>1. pc' \in Word
    <3>1. Operand + 1 \in Int /\ Operand + 2 \in Int
      BY <1>1, WordBounds, SMT
    <3>2. W16(Operand + 1) \in Word /\ W16(Operand + 2) \in Word
      BY <3>1, WordCast
    <3>3. pc' = W16(Operand + 1) \/ pc' = W16(Operand + 2)
      BY <1>3, Zenon DEF Indexed
    <3> QED
      BY <3>2, <3>3, Zenon
  <2>2. ram' \in Memory
    <3>1. ram \in Memory
      BY DEF TypeOK, Memory
    <3>2. \A a : ReadMem(ram, a) \in Byte
      BY <3>1, ReadType
    <3>3. \/ ram' = ram
          \/ \E w \in RegPairs, a \in RegPairs : StoreByte(a, LoByte(w))
          \/ \E a \in RegPairs : StoreByte(a, ReadMem(ram, W16(Operand + 1)))
      BY <1>3, Zenon DEF Indexed
    <3> QED
      BY <3>1, <3>2, <3>3, StoreType, Zenon
  <2>3. RegsOK'
    BY <1>3, <2>1, <2>2 DEF Indexed, UnchangedEnables, RegsOK, TypeOK
  <2> QED
    BY <1>2, <2>3, TypeParts DEF TypeOK, RegsOK, LinesOK, Memory
<1>4. CASE DispatchUnprefixed(Opcode, Operand)
  <2>1. RegsOK'
    BY <1>1, <1>4, InstructionType
  <2> QED
    BY <1>2, <2>1 DEF TypeOK, RegsOK, LinesOK, Memory
<1> QED
  BY <1>3, <1>4, Zenon DEF Execute

\* Every call of the host and every step keeps TypeOK.
LEMMA NextType == ASSUME TypeOK, [Next]_vars PROVE TypeOK'
<1>1. 0 \in Word /\ MaxWord \in Word /\ 102 \in Word /\ 0 \in Byte /\ 0 \in 0 .. 2
  BY BoundsWord, BoundsByte, SMT DEF MaxWord
<1>2. CASE ServiceNmi
  <2>1. pc' \in Word /\ sp' \in Word /\ ram' \in Memory
    BY <1>1, <1>2, ResumeType, PushType DEF ServiceNmi
  <2> QED
    BY <1>2, <2>1 DEF ServiceNmi, TypeOK, Memory
<1>3. ASSUME NEW d \in DataBus, AcceptInt(d) PROVE TypeOK'
  <2>1. sp' \in Word /\ ram' \in Memory
    BY <1>3, ResumeType, PushType DEF AcceptInt
  <2>2. pc' \in Word
    BY <1>3, <2>1, HostAssumption, VectorType DEF AcceptInt
  <2> QED
    BY <1>3, <2>1, <2>2 DEF AcceptInt, SpendPulse, TypeOK, Memory
<1>4. CASE HaltCycle
  BY <1>4 DEF HaltCycle, NothingAccepted, SpendPulse, TypeOK
<1>5. CASE Execute
  BY <1>5, ExecuteType
<1>6. ASSUME NEW active \in BOOLEAN, SetNmiLine(active) \/ SetIntLine(active)
      PROVE  TypeOK'
  BY <1>6 DEF SetNmiLine, SetIntLine, regs, TypeOK
<1>7. CASE PulseIntLine
  BY <1>7 DEF PulseIntLine, regs, TypeOK
<1>8. CASE Reset
  <2>1. pc' \in Word /\ sp' \in Word /\ im' \in 0 .. 2 /\ i' \in Byte
    BY <1>1, <1>8, SMT DEF Reset
  <2>2. /\ iff1' \in BOOLEAN /\ iff2' \in BOOLEAN
        /\ halted' \in BOOLEAN /\ ei_pending' \in BOOLEAN
        /\ nmi_pending' \in BOOLEAN /\ int_pulse_pending' \in BOOLEAN
    BY <1>8, Zenon DEF Reset
  <2> QED
    BY <1>8, <2>1, <2>2, SMT DEF Reset, TypeOK
<1>9. ASSUME NEW s \in Snapshots, LoadSnapshot(s) PROVE TypeOK'
  <2>1. /\ s.pc \in Word /\ s.sp \in Word /\ s.im \in 0 .. 2 /\ s.i \in Byte
        /\ s.iff1 \in BOOLEAN /\ s.iff2 \in BOOLEAN
        /\ s.halted \in BOOLEAN /\ s.ei_pending \in BOOLEAN
        /\ s.nmi_line \in BOOLEAN /\ s.nmi_pending \in BOOLEAN
        /\ s.int_line \in BOOLEAN /\ s.int_pulse_pending \in BOOLEAN
    BY SnapshotAssumption
  <2> QED
    BY <1>9, <2>1 DEF LoadSnapshot, TypeOK
<1>10. CASE UNCHANGED vars
  BY <1>10 DEF vars, regs, lines, TypeOK
<1> QED
  BY <1>2, <1>3, <1>4, <1>5, <1>6, <1>7, <1>8, <1>9, <1>10 DEF Next, Step, Host

\* Every register, latch and memory cell keeps its width, for any program and
\* any host: no path through step() lets PC or SP leave 16 bits.
THEOREM TypeCorrect == Spec => []TypeOK
<1>1. ASSUME Init PROVE TypeOK
  <2>1. 0 \in Word /\ MaxWord \in Word /\ 0 \in Byte /\ 0 \in 0 .. 2
    BY BoundsWord, BoundsByte, SMT DEF MaxWord
  <2>2. ram \in Memory
    BY <1>1, HostAssumption DEF Init, Memory
  <2>3. pc \in Word /\ sp \in Word /\ im \in 0 .. 2 /\ i \in Byte
    BY <1>1, <2>1, SMT DEF Init
  <2>4. /\ iff1 \in BOOLEAN /\ iff2 \in BOOLEAN
        /\ halted \in BOOLEAN /\ ei_pending \in BOOLEAN
        /\ nmi_line \in BOOLEAN /\ nmi_pending \in BOOLEAN
        /\ int_line \in BOOLEAN /\ int_pulse_pending \in BOOLEAN
    BY <1>1, Zenon DEF Init
  <2> QED
    BY <2>2, <2>3, <2>4, SMT DEF TypeOK, Memory
<1>2. TypeOK /\ [Next]_vars => TypeOK'
  BY NextType
<1> QED
  BY <1>1, <1>2, PTL DEF Spec

-----------------------------------------------------------------------------
(* The two enables.                                                          *)

\* IFF1 never outlives IFF2, whatever runs and whatever interrupts it, as long
\* as the host loads only snapshots that have the property themselves.
THEOREM EnablesOrdered == Spec => []Iff1NeedsIff2
<1> USE DEF Iff1NeedsIff2
<1>1. ASSUME Init PROVE Iff1NeedsIff2
  BY <1>1 DEF Init
<1>2. ASSUME Iff1NeedsIff2, [Next]_vars PROVE Iff1NeedsIff2'
  <2>1. CASE ServiceNmi
    BY <2>1 DEF ServiceNmi
  <2>2. ASSUME NEW d \in DataBus, AcceptInt(d) PROVE Iff1NeedsIff2'
    BY <2>2 DEF AcceptInt
  <2>3. CASE HaltCycle
    BY <1>2, <2>3 DEF HaltCycle
  <2>4. CASE Execute
    <3>1. CASE Indexed(Opcode, Operand)
      BY <1>2, <3>1 DEF Indexed, UnchangedEnables
    <3>2. ASSUME NEW op, NEW next, DispatchUnprefixed(op, next)
          PROVE  Iff1NeedsIff2'
      <4>1. CASE iff1' = iff1 /\ iff2' = iff2
        BY <1>2, <4>1
      <4>2. CASE Ei(op, next) \/ Di(op, next)
        BY <4>2 DEF Ei, Di
      <4>3. ASSUME NEW ed, NEW behind, RetN(ed, behind) PROVE Iff1NeedsIff2'
        BY <4>3 DEF RetN
      <4> QED
        BY <3>2, <4>1, <4>2, <4>3
        DEF DispatchUnprefixed, DispatchEd, Inert, Halt, JumpRelative, Jump, Call,
            Ret, Rst, PushPair, PopPair, MoveSP, Store, JumpRegister, ShiftOrBit,
            SetIm, LdIA, EdMemory, Block, EdInert, UnchangedEnables
    <3> QED
      BY <2>4, <3>1, <3>2 DEF Execute
  <2>5. ASSUME NEW s \in Snapshots, LoadSnapshot(s) PROVE Iff1NeedsIff2'
    BY <2>5, SnapshotAssumption DEF LoadSnapshot
  <2>6. CASE Reset
    BY <2>6 DEF Reset
  <2>7. ASSUME \/ PulseIntLine \/ UNCHANGED vars
               \/ \E active \in BOOLEAN : SetNmiLine(active) \/ SetIntLine(active)
        PROVE  Iff1NeedsIff2'
    BY <1>2, <2>7 DEF PulseIntLine, SetNmiLine, SetIntLine, vars, regs
  <2> QED
    BY <1>2, <2>1, <2>2, <2>3, <2>4, <2>5, <2>6, <2>7 DEF Next, Step, Host
<1> QED
  BY <1>1, <1>2, PTL DEF Spec

-----------------------------------------------------------------------------
(* HALT.  The invariant is inductive with TypeOK: memory changes only in steps
   that leave HALT, and HALT itself undoes the increment of its own fetch.   *)

\* The HALT that stops the processor is the byte PC is left on.
LEMMA HaltStopsOnItself ==
    ASSUME TypeOK, Execute, Halt(Opcode, Operand)
    PROVE  HaltedOnHalt'
<1>1. /\ PrefixRun \in Nat /\ Opcode = ReadMem(ram, W16(pc + PrefixRun))
  BY FetchedType
<1>2. pc + PrefixRun \in Int
  BY <1>1, WordBounds, SMT DEF TypeOK
<1>3. pc' = W16(pc + PrefixRun)
  BY <1>2, BackOne DEF Halt, Operand
<1>4. ReadMem(ram', pc') = ReadMem(ram, W16(pc + PrefixRun))
  BY <1>3 DEF Halt, ReadMem
<1>5. Opcode = 118
  BY DEF Halt
<1> QED
  BY <1>1, <1>4, <1>5 DEF HaltedOnHalt, ReadMem

\* Every other instruction leaves a running processor running.
LEMMA OnlyHaltHalts ==
    ASSUME NEW op, NEW next, DispatchUnprefixed(op, next), ~Halt(op, next)
    PROVE  halted' = halted
BY DEF DispatchUnprefixed, DispatchEd, Inert, Ei, Di, JumpRelative, Jump, Call,
       Ret, Rst, PushPair, PopPair, MoveSP, Store, JumpRegister, ShiftOrBit,
       RetN, SetIm, LdIA, EdMemory, Block, EdInert, UnchangedEnables

\* A halted processor sits on a HALT opcode for every program, every memory map
\* and every run of prefixes, at the top of memory too; the PC + 1 that both
\* interrupt services push is therefore always the address behind the HALT.
THEOREM HaltedSitsOnHalt == Spec => []HaltedOnHalt
<1>1. ASSUME Init PROVE HaltedOnHalt
  BY <1>1 DEF Init, HaltedOnHalt
<1>2. ASSUME TypeOK, HaltedOnHalt, [Next]_vars PROVE HaltedOnHalt'
  <2>1. CASE ServiceNmi
    BY <2>1 DEF ServiceNmi, HaltedOnHalt
  <2>2. ASSUME NEW d \in DataBus, AcceptInt(d) PROVE HaltedOnHalt'
    BY <2>2 DEF AcceptInt, HaltedOnHalt
  <2>3. ASSUME \/ HaltCycle \/ PulseIntLine \/ UNCHANGED vars
               \/ \E active \in BOOLEAN : SetNmiLine(active) \/ SetIntLine(active)
        PROVE  HaltedOnHalt'
    <3>1. halted' = halted /\ pc' = pc /\ ram' = ram
      BY <2>3 DEF HaltCycle, PulseIntLine, SetNmiLine, SetIntLine, vars, regs
    <3> QED
      BY <1>2, <3>1 DEF HaltedOnHalt, ReadMem
  <2>4. CASE Execute
    <3>1. ~halted
      BY <2>4 DEF Execute
    <3>2. CASE Halt(Opcode, Operand)
      BY <1>2, <2>4, <3>2, HaltStopsOnItself
    <3>3. CASE Indexed(Opcode, Operand)
      BY <3>1, <3>3 DEF Indexed, UnchangedEnables, HaltedOnHalt
    <3>4. CASE DispatchUnprefixed(Opcode, Operand) /\ ~Halt(Opcode, Operand)
      BY <3>1, <3>4, OnlyHaltHalts DEF HaltedOnHalt
    <3> QED
      BY <2>4, <3>2, <3>3, <3>4 DEF Execute
  <2>5. ASSUME NEW s \in Snapshots, LoadSnapshot(s) PROVE HaltedOnHalt'
    <3>1. s.halted => /\ s.pc \in DOMAIN Rom \ RamAddrs
                      /\ Rom[s.pc] = 118
      BY SnapshotAssumption
    <3>2. halted' = s.halted /\ pc' = s.pc /\ ram' = ram
      BY <2>5 DEF LoadSnapshot
    <3>3. CASE s.halted
      BY <3>1, <3>2, <3>3, Zenon DEF HaltedOnHalt, ReadMem
    <3>4. CASE ~s.halted
      BY <3>2, <3>4 DEF HaltedOnHalt
    <3> QED
      BY <3>3, <3>4
  <2>6. CASE Reset
    BY <2>6 DEF Reset, HaltedOnHalt
  <2> QED
    BY <1>2, <2>1, <2>2, <2>3, <2>4, <2>5, <2>6 DEF Next, Step, Host
<1> QED
  BY <1>1, <1>2, TypeCorrect, PTL DEF Spec

=============================================================================
