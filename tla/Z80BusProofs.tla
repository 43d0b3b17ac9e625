---------------------------- MODULE Z80BusProofs ----------------------------
(***************************************************************************)
(* Proofs about the grain of bus callbacks, for every program, memory map, *)
(* host and register pair: Z80BusCycles implements Z80Control, and a reset *)
(* from inside a callback leaves the interrupts off.                       *)
(***************************************************************************)
EXTENDS Z80BusReset, Z80BusRefinement, Z80ControlProofs

-----------------------------------------------------------------------------
(* The invariant of the refinement: in every phase, where the step will end, *)
(* said in the registers as they are.                                        *)

\* Types.
BusTypes ==
    /\ pc \in Word /\ sp \in Word /\ im \in 0 .. 2 /\ i \in Byte /\ ram \in Memory
    /\ end_sp \in Word
    /\ phase \in {"host", "nmiM1", "intM1", "haltM1", "M1", "edM1", "immLo", "immHi",
                  "popLo", "popHi", "pushHi", "pushLo", "vectorLo", "vectorHi"}
    /\ word \in Word /\ bus \in Word /\ databus \in Byte
    /\ phase \in {"popHi", "immHi", "vectorHi"} => word \in Byte
    /\ phase = "host" => op = NoOp
    /\ phase \in {"M1", "edM1"} => ei_pending = FALSE /\ bus = pc

\* The rest of the step changes no interrupt register.
Settled ==
    /\ end_iff1 = iff1 /\ end_iff2 = iff2 /\ end_im = im /\ end_i = i
    /\ end_halted = halted /\ end_ei_pending = ei_pending

\* It goes to target and leaves the stack alone.
Goes(target) == Settled /\ end_sp = sp /\ end_ram = ram /\ end_pc = target

\* It pushes w and goes to target.
Pushes(w, target) ==
    Settled /\ end_sp = W16(sp - 2) /\ end_ram = Pushed(ram, sp, w) /\ end_pc = target

\* It pops word w, to which a return goes with SP at top.
Pops(top, w) ==
    /\ end_iff1 = IF op = \hED THEN iff2 ELSE iff1
    /\ end_iff2 = iff2 /\ end_im = im /\ end_i = i
    /\ end_halted = halted /\ end_ei_pending = ei_pending
    /\ end_sp = top /\ end_ram = ram
    /\ end_pc = IF op = \hC9 \/ op = \hED THEN w ELSE pc

\* Where an INT goes by its mode, and where a push leads.
Vector == CASE im = 0 -> RstTarget(databus)
            [] im = 1 -> \h38
            [] im = 2 -> ReadWord(end_ram, Join(i, databus))

Leads == IF after = ByMode THEN Vector ELSE IF after = Nowhere THEN pc ELSE after

\* What an opcode does from the address behind it on.
Returns == {\h45, \h4D, \h55, \h5D, \h65, \h6D, \h75, \h7D}
Modes   == {\h46, \h4E, \h56, \h5E, \h66, \h6E, \h76, \h7E}

Operated(code, next) ==
    /\ code \in TwoByte => Goes(W16(next + 1))
    /\ code = \h18 => Goes(W16(next + 1 + Signed(ReadMem(ram, next))))
    /\ code \in ThreeByte => Goes(W16(next + 2))
    /\ code = \hC3 => Goes(ReadWord(ram, next))
    /\ code = \hCD => Pushes(W16(next + 2), ReadWord(ram, next))
    /\ code = \h31 => /\ Settled /\ end_sp = ReadWord(ram, next)
                      /\ end_ram = ram /\ end_pc = W16(next + 2)

Stacked(code, next) ==
    /\ code \in {\hC9, \hC1, \hD1, \hE1, \hF1} =>
         /\ Settled /\ end_sp = W16(sp + 2) /\ end_ram = ram
         /\ end_pc = IF code = \hC9 THEN TopOfStack ELSE next
    /\ code \in {\hC7, \hCF, \hD7, \hDF, \hE7, \hEF, \hF7, \hFF} => Pushes(next, code - \hC7)
    /\ code \in {\hC5, \hD5, \hE5, \hF5} => \E w \in RegPairs : Pushes(w, next)

Simple(code, next) ==
    /\ code \in OneByte => Goes(next)
    /\ code \in {\hFB, \hF3} =>
         /\ end_iff1 = (code = \hFB) /\ end_iff2 = (code = \hFB)
         /\ end_ei_pending = (code = \hFB)
         /\ end_im = im /\ end_i = i /\ end_halted = halted
         /\ end_sp = sp /\ end_ram = ram /\ end_pc = next
    /\ code = \h76 =>
         /\ end_halted = TRUE /\ end_iff1 = iff1 /\ end_iff2 = iff2 /\ end_im = im
         /\ end_i = i /\ end_ei_pending = ei_pending
         /\ end_sp = sp /\ end_ram = ram /\ end_pc = W16(next - 1)

EdPage(code, next) ==
    /\ code \in EdInertOps => Goes(next)
    /\ code \in Modes =>
         /\ end_im = ImMode(code) /\ end_iff1 = iff1 /\ end_iff2 = iff2 /\ end_i = i
         /\ end_halted = halted /\ end_ei_pending = ei_pending
         /\ end_sp = sp /\ end_ram = ram /\ end_pc = next
    /\ code \in Returns =>
         /\ end_iff1 = iff2 /\ end_iff2 = iff2 /\ end_im = im /\ end_i = i
         /\ end_halted = halted /\ end_ei_pending = ei_pending
         /\ end_sp = W16(sp + 2) /\ end_ram = ram /\ end_pc = TopOfStack

\* Behind a prefix the instructions on (HL) have a displacement to read.
Fetched(prefixed, code, next) ==
    IF prefixed /\ code \in IndexedReads THEN Goes(W16(next + 1))
    ELSE /\ Operated(code, next) /\ Stacked(code, next) /\ Simple(code, next)
         /\ code = \hED => EdPage(ReadMem(ram, next), W16(next + 1))

\* n prefixes stand before the opcode.
Behind(prefixed, n) ==
    OpcodeBehind(n) /\ Fetched(prefixed \/ n > 0, ReadMem(ram, W16(pc + n)), W16(pc + n + 1))

Foresight ==
    /\ phase \in {"host", "haltM1"} => Goes(pc)
    /\ phase = "nmiM1" => Pushes(pc, \h66)
    /\ phase = "intM1" => Pushes(pc, Vector)
    /\ phase = "pushHi" =>
         /\ Settled /\ bus = sp /\ end_sp = W16(sp - 1) /\ end_pc = Leads
         /\ end_ram = WriteMem(WriteMem(ram, sp, HiByte(word)), end_sp, LoByte(word))
    /\ phase = "pushLo" =>
         /\ Settled /\ bus = sp /\ end_sp = sp /\ end_pc = Leads
         /\ end_ram = WriteMem(ram, sp, LoByte(word))
    /\ phase = "vectorLo" => Goes(ReadWord(ram, bus))
    /\ phase = "vectorHi" => Goes(Join(ReadMem(ram, bus), word))
    /\ phase = "popLo" => bus = sp /\ Pops(W16(sp + 2), TopOfStack)
    /\ phase = "popHi" => bus = sp /\ Pops(W16(sp + 1), Join(ReadMem(ram, bus), word))
    /\ phase = "M1" => \E n \in 0 .. MaxPrefix : Behind(op \in IndexPrefixes, n)
    /\ phase = "edM1" => EdPage(ReadMem(ram, pc), W16(pc + 1))
    /\ phase = "immLo" =>
         bus = pc /\ IF op \in IndexedReads THEN Goes(W16(pc + 1)) ELSE Operated(op, pc)
    /\ phase = "immHi" =>
         /\ bus = pc
         /\ op \in ThreeByte => Goes(W16(pc + 1))
         /\ op = \hC3 => Goes(Join(ReadMem(ram, pc), word))
         /\ op = \hCD => Pushes(W16(pc + 1), Join(ReadMem(ram, pc), word))
         /\ op = \h31 => /\ Settled /\ end_sp = Join(ReadMem(ram, pc), word)
                         /\ end_ram = ram /\ end_pc = W16(pc + 1)

BusInv == BusTypes /\ Foresight

-----------------------------------------------------------------------------
(* The step of Z80Control that the ends make is the step of the mapped       *)
(* registers.                                                                *)

\* The operators without state are the same in both instances and here.
LEMMA SameOperators ==
    /\ \A n : Control!W16(n) = Ended!W16(n) /\ Ended!W16(n) = W16(n)
    /\ \A n : Control!HiByte(n) = Ended!HiByte(n) /\ Ended!HiByte(n) = HiByte(n)
    /\ \A n : Control!LoByte(n) = Ended!LoByte(n) /\ Ended!LoByte(n) = LoByte(n)
    /\ \A n : Control!Signed(n) = Ended!Signed(n) /\ Ended!Signed(n) = Signed(n)
    /\ \A m, n : Control!Join(m, n) = Ended!Join(m, n) /\ Ended!Join(m, n) = Join(m, n)
    /\ \A m, a : Control!ReadMem(m, a) = Ended!ReadMem(m, a)
                   /\ Ended!ReadMem(m, a) = ReadMem(m, a)
    /\ \A m, a : Control!ReadWord(m, a) = Ended!ReadWord(m, a)
                   /\ Ended!ReadWord(m, a) = ReadWord(m, a)
    /\ \A m, a, v : Control!WriteMem(m, a, v) = Ended!WriteMem(m, a, v)
                      /\ Ended!WriteMem(m, a, v) = WriteMem(m, a, v)
    /\ \A m, s, w : Control!Pushed(m, s, w) = Ended!Pushed(m, s, w)
                      /\ Ended!Pushed(m, s, w) = Pushed(m, s, w)
BY DEF W16, Ended!W16, Control!W16, HiByte, Ended!HiByte, Control!HiByte,
       LoByte, Ended!LoByte, Control!LoByte, Signed, Ended!Signed,
       Control!Signed, Join, Ended!Join, Control!Join, ReadMem, Ended!ReadMem,
       Control!ReadMem, ReadWord, Ended!ReadWord, Control!ReadWord, WriteMem,
       Ended!WriteMem, Control!WriteMem, Pushed, Ended!Pushed, Control!Pushed

\* At the beginning of a step the mapping goes from the registers, which are
\* the ends, to the new ends.
Starts == phase = "host" /\ phase' # "host" /\ Goes(pc)

\* What the mapping then gives, register by register.
LEMMA MappedEnds ==
    ASSUME Starts
    PROVE  /\ At(pc, end_pc) = end_pc
           /\ At(sp, end_sp) = end_sp
           /\ At(iff1, end_iff1) = end_iff1
           /\ At(iff2, end_iff2) = end_iff2
           /\ At(im, end_im) = end_im
           /\ At(i, end_i) = end_i
           /\ At(halted, end_halted) = end_halted
           /\ At(ei_pending, end_ei_pending) = end_ei_pending
           /\ At(ram, end_ram) = end_ram
           /\ At(pc, end_pc)' = end_pc'
           /\ At(sp, end_sp)' = end_sp'
           /\ At(iff1, end_iff1)' = end_iff1'
           /\ At(iff2, end_iff2)' = end_iff2'
           /\ At(im, end_im)' = end_im'
           /\ At(i, end_i)' = end_i'
           /\ At(halted, end_halted)' = end_halted'
           /\ At(ei_pending, end_ei_pending)' = end_ei_pending'
           /\ At(ram, end_ram)' = end_ram'
BY DEF Starts, At, Goes, Settled

\* The ED page.
LEMMA SameEd ==
    ASSUME Starts, NEW code, NEW next
    PROVE  Ended!DispatchEd(code, next) => Control!DispatchEd(code, next)
<1>1. Ended!RetN(code, next) => Control!RetN(code, next)
  BY MappedEnds, SameOperators DEF Ended!RetN, Control!RetN, Ended!TopOfStack,
         Control!TopOfStack, Ended!Pop, Control!Pop
<1>2. Ended!SetIm(code, next) => Control!SetIm(code, next)
  BY MappedEnds, SameOperators DEF Ended!SetIm, Control!SetIm, Ended!ImMode,
         Control!ImMode
<1>3. Ended!LdIA(code, next) => Control!LdIA(code, next)
  BY MappedEnds, SameOperators DEF Ended!LdIA, Control!LdIA
<1>4. Ended!EdMemory(code, next) => Control!EdMemory(code, next)
  BY MappedEnds, SameOperators DEF Ended!EdMemory, Control!EdMemory,
         Ended!WordStores, Control!WordStores, Ended!WordLoads,
         Control!WordLoads, Ended!DigitRotates, Control!DigitRotates,
         Ended!StoreByte, Control!StoreByte, Ended!StoreWord,
         Control!StoreWord, Ended!UnchangedEnables, Control!UnchangedEnables
<1>5. Ended!Block(code, next) => Control!Block(code, next)
  BY MappedEnds, SameOperators DEF Ended!Block, Control!Block, Ended!BlockOps,
         Control!BlockOps, Ended!BlockRepeats, Control!BlockRepeats,
         Ended!StoreByte, Control!StoreByte, Ended!UnchangedEnables,
         Control!UnchangedEnables
<1>6. Ended!EdInert(code, next) => Control!EdInert(code, next)
  BY MappedEnds, SameOperators DEF Ended!EdInert, Control!EdInert,
         Ended!EdInertOps, Control!EdInertOps, Ended!WordStores,
         Control!WordStores, Ended!WordLoads, Control!WordLoads,
         Ended!DigitRotates, Control!DigitRotates, Ended!BlockOps,
         Control!BlockOps, Ended!BlockRepeats, Control!BlockRepeats,
         Ended!Byte, Control!Byte, Ended!UnchangedEnables,
         Control!UnchangedEnables
<1> QED BY <1>1, <1>2, <1>3, <1>4, <1>5, <1>6 DEF Ended!DispatchEd, Control!DispatchEd

\* The forms with a displacement.
LEMMA SameIndexed ==
    ASSUME Starts, NEW code, NEW next
    PROVE  Ended!Indexed(code, next) => Control!Indexed(code, next)
BY MappedEnds, SameOperators DEF Ended!Indexed, Control!Indexed,
       Ended!IndexedReads, Control!IndexedReads, Ended!IndexedStores,
       Control!IndexedStores, Ended!ByteStores, Control!ByteStores,
       Ended!StoreByte, Control!StoreByte, Ended!UnchangedEnables,
       Control!UnchangedEnables

\* The conditional forms choose the same way.
LEMMA SameJump ==
    ASSUME Starts, NEW code, NEW next
    PROVE  Ended!Jump(code, next) => Control!Jump(code, next)
<1> SUFFICES ASSUME Ended!Jump(code, next) PROVE Control!Jump(code, next) OBVIOUS
<1>1. /\ code \in {\hC3, \hC2, \hCA, \hD2, \hDA, \hE2, \hEA, \hF2, \hFA}
      /\ At(ei_pending, end_ei_pending)' = FALSE /\ Control!UnchangedEnables
      /\ UNCHANGED <<At(sp, end_sp), At(ram, end_ram)>>
  BY MappedEnds DEF Ended!Jump, Ended!UnchangedEnables, Control!UnchangedEnables
<1>2. \/ At(pc, end_pc)' = Control!ReadWord(At(ram, end_ram), next)
      \/ code # \hC3
           /\ At(pc, end_pc)' = Control!W16(next + 2)
  <2>1. \/ end_pc' = Ended!ReadWord(end_ram, next)
        \/ code # \hC3
             /\ end_pc' = Ended!W16(next + 2)
    BY DEF Ended!Jump
  <2> QED BY <2>1, MappedEnds, SameOperators
<1>3. \E taken \in IF code = \hC3 THEN {TRUE} ELSE BOOLEAN :
          At(pc, end_pc)' = IF taken THEN Control!ReadWord(At(ram, end_ram), next)
                                   ELSE Control!W16(next + 2)
  <2>1. TRUE \in IF code = \hC3 THEN {TRUE} ELSE BOOLEAN OBVIOUS
  <2>2. code # \hC3 => FALSE \in IF code = \hC3 THEN {TRUE} ELSE BOOLEAN OBVIOUS
  <2> QED BY <1>2, <2>1, <2>2
<1> QED BY <1>1, <1>3 DEF Control!Jump

\* Calls.
LEMMA SameCall ==
    ASSUME Starts, NEW code, NEW next
    PROVE  Ended!Call(code, next) => Control!Call(code, next)
<1> SUFFICES ASSUME Ended!Call(code, next) PROVE Control!Call(code, next) OBVIOUS
<1>1. /\ code \in {\hCD, \hC4, \hCC, \hD4, \hDC, \hE4, \hEC, \hF4, \hFC}
      /\ At(ei_pending, end_ei_pending)' = FALSE /\ Control!UnchangedEnables
  BY MappedEnds DEF Ended!Call, Ended!UnchangedEnables, Control!UnchangedEnables
<1>2. \/ At(pc, end_pc)' = Control!ReadWord(At(ram, end_ram), next)
           /\ Control!Push(Control!W16(next + 2))
      \/ code # \hCD
           /\ At(pc, end_pc)' = Control!W16(next + 2)
           /\ UNCHANGED <<At(sp, end_sp), At(ram, end_ram)>>
  <2>1. \/ end_pc' = Ended!ReadWord(end_ram, next)
             /\ Ended!Push(Ended!W16(next + 2))
        \/ code # \hCD
             /\ end_pc' = Ended!W16(next + 2)
             /\ UNCHANGED <<end_sp, end_ram>>
    BY DEF Ended!Call
  <2> QED BY <2>1, MappedEnds, SameOperators DEF Ended!Push, Control!Push
<1>3. \E taken \in IF code = \hCD THEN {TRUE} ELSE BOOLEAN :
          IF taken THEN At(pc, end_pc)' = Control!ReadWord(At(ram, end_ram), next)
                    /\ Control!Push(Control!W16(next + 2))
               ELSE At(pc, end_pc)' = Control!W16(next + 2)
                    /\ UNCHANGED <<At(sp, end_sp), At(ram, end_ram)>>
  <2>1. TRUE \in IF code = \hCD THEN {TRUE} ELSE BOOLEAN OBVIOUS
  <2>2. code # \hCD => FALSE \in IF code = \hCD THEN {TRUE} ELSE BOOLEAN OBVIOUS
  <2> QED BY <1>2, <2>1, <2>2
<1> QED BY <1>1, <1>3 DEF Control!Call

\* Returns.
LEMMA SameRet ==
    ASSUME Starts, NEW code, NEW next
    PROVE  Ended!Ret(code, next) => Control!Ret(code, next)
<1> SUFFICES ASSUME Ended!Ret(code, next) PROVE Control!Ret(code, next) OBVIOUS
<1>1. /\ code \in {\hC9, \hC0, \hC8, \hD0, \hD8, \hE0, \hE8, \hF0, \hF8}
      /\ At(ei_pending, end_ei_pending)' = FALSE /\ Control!UnchangedEnables
  BY MappedEnds DEF Ended!Ret, Ended!UnchangedEnables, Control!UnchangedEnables
<1>2. \/ At(pc, end_pc)' = Control!TopOfStack /\ Control!Pop
      \/ code # \hC9
           /\ At(pc, end_pc)' = next
           /\ UNCHANGED <<At(sp, end_sp), At(ram, end_ram)>>
  <2>1. \/ end_pc' = Ended!TopOfStack /\ Ended!Pop
        \/ code # \hC9
             /\ end_pc' = next
             /\ UNCHANGED <<end_sp, end_ram>>
    BY DEF Ended!Ret
  <2> QED BY <2>1, MappedEnds, SameOperators DEF Ended!Pop, Control!Pop,
           Ended!TopOfStack, Control!TopOfStack
<1>3. \E taken \in IF code = \hC9 THEN {TRUE} ELSE BOOLEAN :
          IF taken THEN At(pc, end_pc)' = Control!TopOfStack /\ Control!Pop
               ELSE At(pc, end_pc)' = next
                    /\ UNCHANGED <<At(sp, end_sp), At(ram, end_ram)>>
  <2>1. TRUE \in IF code = \hC9 THEN {TRUE} ELSE BOOLEAN OBVIOUS
  <2>2. code # \hC9 => FALSE \in IF code = \hC9 THEN {TRUE} ELSE BOOLEAN OBVIOUS
  <2> QED BY <1>2, <2>1, <2>2
<1> QED BY <1>1, <1>3 DEF Control!Ret

\* Every instruction.
LEMMA SameInstruction ==
    ASSUME Starts, NEW code, NEW next
    PROVE  Ended!DispatchUnprefixed(code, next) => Control!DispatchUnprefixed(code, next)
<1>1. Ended!Inert(code, next) => Control!Inert(code, next)
  BY MappedEnds, SameOperators DEF Ended!Inert, Control!Inert, Ended!OneByte,
         Control!OneByte, Ended!TwoByte, Control!TwoByte, Ended!ThreeByte,
         Control!ThreeByte, Ended!UnchangedEnables, Control!UnchangedEnables
<1>2. Ended!Ei(code, next) => Control!Ei(code, next)
  BY MappedEnds, SameOperators DEF Ended!Ei, Control!Ei
<1>3. Ended!Di(code, next) => Control!Di(code, next)
  BY MappedEnds, SameOperators DEF Ended!Di, Control!Di
<1>4. Ended!Halt(code, next) => Control!Halt(code, next)
  BY MappedEnds, SameOperators DEF Ended!Halt, Control!Halt
<1>5. Ended!JumpRelative(code, next) => Control!JumpRelative(code, next)
  BY MappedEnds, SameOperators DEF Ended!JumpRelative, Control!JumpRelative,
         Ended!UnchangedEnables, Control!UnchangedEnables
<1>6. Ended!Rst(code, next) => Control!Rst(code, next)
  BY MappedEnds, SameOperators DEF Ended!Rst, Control!Rst, Ended!Push,
         Control!Push, Ended!UnchangedEnables, Control!UnchangedEnables
<1>7. Ended!PushPair(code, next) => Control!PushPair(code, next)
  BY MappedEnds, SameOperators DEF Ended!PushPair, Control!PushPair,
         Ended!Push, Control!Push, Ended!UnchangedEnables,
         Control!UnchangedEnables
<1>8. Ended!PopPair(code, next) => Control!PopPair(code, next)
  BY MappedEnds, SameOperators DEF Ended!PopPair, Control!PopPair, Ended!Pop,
         Control!Pop, Ended!UnchangedEnables, Control!UnchangedEnables
<1>9. Ended!MoveSP(code, next) => Control!MoveSP(code, next)
  BY MappedEnds, SameOperators DEF Ended!MoveSP, Control!MoveSP,
         Ended!UnchangedEnables, Control!UnchangedEnables
<1>10. Ended!Store(code, next) => Control!Store(code, next)
  BY MappedEnds, SameOperators DEF Ended!Store, Control!Store,
         Ended!ByteStores, Control!ByteStores, Ended!StoreByte,
         Control!StoreByte, Ended!StoreWord, Control!StoreWord,
         Ended!UnchangedEnables, Control!UnchangedEnables
<1>11. Ended!JumpRegister(code, next) => Control!JumpRegister(code, next)
  BY MappedEnds, SameOperators DEF Ended!JumpRegister, Control!JumpRegister,
         Ended!UnchangedEnables, Control!UnchangedEnables
<1>12. Ended!ShiftOrBit(code, next) => Control!ShiftOrBit(code, next)
  BY MappedEnds, SameOperators DEF Ended!ShiftOrBit, Control!ShiftOrBit,
         Ended!StoreByte, Control!StoreByte, Ended!UnchangedEnables,
         Control!UnchangedEnables
<1>13. code = \hED /\ Ended!DispatchEd(Ended!ReadMem(end_ram, next), Ended!W16(next + 1))
        => Control!DispatchEd(Control!ReadMem(At(ram, end_ram), next), Control!W16(next + 1))
  BY MappedEnds, SameOperators, SameEd
<1> QED BY <1>1, <1>2, <1>3, <1>4, <1>5, <1>6, <1>7, <1>8, <1>9, <1>10, <1>11,
  <1>12, <1>13, SameJump, SameCall, SameRet   DEF Ended!DispatchUnprefixed,
  Control!DispatchUnprefixed

\* An opcode is behind one number of prefixes only.
LEMMA OneOpcode ==
    ASSUME NEW m \in 0 .. MaxPrefix, NEW n \in 0 .. MaxPrefix,
           Ended!OpcodeBehind(m), Ended!OpcodeBehind(n)
    PROVE  m = n
<1> SUFFICES ASSUME m # n PROVE FALSE OBVIOUS
<1>1. m \in Int /\ n \in Int /\ m >= 0 /\ n >= 0 BY HostAssumption, SMT
<1>2. CASE m < n
  <2>1. m \in 0 .. n - 1 BY <1>1, <1>2, SMT
  <2> QED BY <2>1 DEF Ended!OpcodeBehind
<1>3. CASE n < m
  <2>1. n \in 0 .. m - 1 BY <1>1, <1>3, SMT
  <2> QED BY <2>1 DEF Ended!OpcodeBehind
<1> QED BY <1>1, <1>2, <1>3, SMT

\* Both instances find the same opcode.
LEMMA SameOpcode ==
    ASSUME Starts, NEW m \in 0 .. MaxPrefix, Ended!OpcodeBehind(m)
    PROVE  /\ Ended!PrefixRun = m /\ Control!PrefixRun = m /\ Control!OpcodeBehind(m)
           /\ Control!Opcode = Ended!Opcode /\ Control!Operand = Ended!Operand
           /\ Ended!Opcode = Ended!ReadMem(end_ram, Ended!W16(end_pc + m))
           /\ Ended!Operand = Ended!W16(end_pc + m + 1)
<1>1. ASSUME NEW n \in 0 .. MaxPrefix
      PROVE  Control!OpcodeBehind(n) <=> Ended!OpcodeBehind(n)
  BY MappedEnds, SameOperators
     DEF Ended!OpcodeBehind, Control!OpcodeBehind, Ended!IndexPrefixes, Control!IndexPrefixes
<1>2. Ended!PrefixRun \in 0 .. MaxPrefix /\ Ended!OpcodeBehind(Ended!PrefixRun)
  BY DEF Ended!PrefixRun
<1>3. Control!PrefixRun \in 0 .. MaxPrefix /\ Control!OpcodeBehind(Control!PrefixRun)
  BY <1>1 DEF Control!PrefixRun
<1>4. Ended!PrefixRun = m /\ Control!PrefixRun = m BY <1>1, <1>2, <1>3, OneOpcode
<1> QED BY <1>1, <1>4, MappedEnds, SameOperators
        DEF Ended!Opcode, Control!Opcode, Ended!Operand, Control!Operand

\* The sampled inputs are the same, and so is what is done with them.
LEMMA SameSampling ==
    ASSUME Starts
    PROVE  /\ Ended!NothingAccepted => Control!NothingAccepted
           /\ Control!TakesInt <=> Ended!TakesInt
           /\ Ended!SpendPulse <=> Control!SpendPulse
           /\ Control!ResumePc = Ended!ResumePc
           /\ \A w : Ended!Push(w) => Control!Push(w)
BY MappedEnds, SameOperators
   DEF Ended!NothingAccepted, Control!NothingAccepted, Ended!TakesInt, Control!TakesInt,
       Ended!IntActive, Control!IntActive, Ended!SpendPulse, Control!SpendPulse,
       Ended!ResumePc, Control!ResumePc, Ended!Push, Control!Push

\* A whole instruction.
LEMMA SameExecute == ASSUME Starts, Ended!Execute PROVE Control!Execute
<1>1. PICK n \in 0 .. MaxPrefix : Ended!OpcodeBehind(n) BY DEF Ended!Execute
<1>2. /\ Control!NothingAccepted /\ ~At(halted, end_halted)
      /\ \E k \in 0 .. MaxPrefix : Control!OpcodeBehind(k)
  BY <1>1, SameOpcode, SameSampling, MappedEnds DEF Ended!Execute
<1>3. Control!PrefixRun = Ended!PrefixRun /\ Control!Opcode = Ended!Opcode
        /\ Control!Operand = Ended!Operand
  BY <1>1, SameOpcode
<1>4. IF Ended!PrefixRun > 0
            /\ Ended!Opcode \in Ended!IndexedReads \cup Ended!IndexedStores \cup {\h36, \hCB}
      THEN Control!Indexed(Ended!Opcode, Ended!Operand)
      ELSE Control!DispatchUnprefixed(Ended!Opcode, Ended!Operand)
  BY SameIndexed, SameInstruction DEF Ended!Execute
<1>5. Control!IndexedReads = Ended!IndexedReads /\ Control!IndexedStores = Ended!IndexedStores
  BY DEF Ended!IndexedReads, Control!IndexedReads, Ended!IndexedStores,
         Control!IndexedStores, Ended!ByteStores, Control!ByteStores
<1> QED BY <1>2, <1>3, <1>4, <1>5 DEF Control!Execute

\* And each way of beginning a step.
LEMMA SameStep ==
    ASSUME Starts,
           \/ Ended!ServiceNmi
           \/ \E d \in DataBus : Ended!AcceptInt(d)
           \/ Ended!HaltCycle
           \/ Ended!Execute
    PROVE  Control!Step
<1>1. Ended!ServiceNmi => Control!ServiceNmi
  BY MappedEnds, SameSampling DEF Ended!ServiceNmi, Control!ServiceNmi
<1>2. ASSUME NEW d \in DataBus, Ended!AcceptInt(d) PROVE Control!AcceptInt(d)
  <2>1. Control!RstTarget(d) = Ended!RstTarget(d)
    BY DEF Ended!RstTarget, Control!RstTarget
  <2>2. Control!IntVector(d, At(ram, end_ram)') = Ended!IntVector(d, end_ram')
    BY <2>1, MappedEnds, SameOperators, SameSampling DEF Ended!IntVector, Control!IntVector
  <2> QED BY <1>2, <2>2, MappedEnds, SameSampling DEF Ended!AcceptInt, Control!AcceptInt
<1>3. Ended!HaltCycle => Control!HaltCycle
  BY MappedEnds, SameSampling DEF Ended!HaltCycle, Control!HaltCycle
<1> QED BY <1>1, <1>2, <1>3, SameExecute DEF Control!Step

-----------------------------------------------------------------------------
(* Calls of the host.                                                        *)

\* A change of an input, in mid-step or not, is one between two steps.
LEMMA LinesMapped ==
    ASSUME BusTypes, Lines, UNCHANGED ends
    PROVE  Control!Host
<1>1. UNCHANGED <<regs, ram, ends, phase>>
  BY DEF Lines, SetNmiLine, SetIntLine, PulseIntLine
<1>2. UNCHANGED <<At(pc, end_pc), At(sp, end_sp), At(iff1, end_iff1), At(iff2, end_iff2),
                  At(im, end_im), At(i, end_i), At(halted, end_halted),
                  At(ei_pending, end_ei_pending), At(ram, end_ram)>>
  BY <1>1 DEF regs, ends, At
<1>3. At(sp, end_sp) \in Word
  <2>1. sp \in Word /\ end_sp \in Word BY DEF BusTypes
  <2> QED BY <2>1 DEF At
<1>4. ASSUME NEW active \in BOOLEAN, SetNmiLine(active) PROVE Control!SetNmiLine(active)
  BY <1>2, <1>3, <1>4 DEF SetNmiLine, Control!SetNmiLine, Control!regs
<1>5. ASSUME NEW active \in BOOLEAN, SetIntLine(active) PROVE Control!SetIntLine(active)
  BY <1>2, <1>5 DEF SetIntLine, Control!SetIntLine, Control!regs
<1>6. PulseIntLine => Control!PulseIntLine
  BY <1>2 DEF PulseIntLine, Control!PulseIntLine, Control!regs
<1> QED BY <1>4, <1>5, <1>6 DEF Lines, Control!Host

\* reset() and load_snapshot() between two steps.
LEMMA ReplaceMapped == ASSUME RReplace PROVE Control!Host
<1>1. phase = "host" /\ phase' = "host" BY DEF RReplace
<1>2. Reset => Control!Reset
  BY <1>1 DEF Reset, Control!Reset, At, MaxWord, Control!MaxWord
<1>3. ASSUME NEW s \in Snapshots, LoadSnapshot(s) PROVE Control!LoadSnapshot(s)
  BY <1>1, <1>3 DEF LoadSnapshot, Control!LoadSnapshot, At
<1> QED BY <1>2, <1>3 DEF RReplace, Control!Host

-----------------------------------------------------------------------------
(* What the step of the ends does, by its opcode.                            *)

\* The opcodes of each instruction, from its guard.
Relative == {\h10, \h18, \h20, \h28, \h30, \h38}
Jumps    == {\hC3, \hC2, \hCA, \hD2, \hDA, \hE2, \hEA, \hF2, \hFA}
Calls    == {\hCD, \hC4, \hCC, \hD4, \hDC, \hE4, \hEC, \hF4, \hFC}
Rets     == {\hC9, \hC0, \hC8, \hD0, \hD8, \hE0, \hE8, \hF0, \hF8}
Rsts     == {\hC7, \hCF, \hD7, \hDF, \hE7, \hEF, \hF7, \hFF}
PushOps  == {\hC5, \hD5, \hE5, \hF5}
PopOps   == {\hC1, \hD1, \hE1, \hF1}
SpOps    == {\h31, \h33, \h3B, \hF9}
StoreOps == ByteStores \cup {\h36, \h32, \h22, \hE3}

\* Sets of opcodes are the same in the instance.
LEMMA SameSets ==
    /\ Ended!OneByte = OneByte /\ Ended!TwoByte = TwoByte /\ Ended!ThreeByte = ThreeByte
    /\ Ended!ByteStores = ByteStores /\ Ended!IndexedReads = IndexedReads
    /\ Ended!IndexedStores = IndexedStores /\ Ended!IndexPrefixes = IndexPrefixes
    /\ Ended!EdInertOps = EdInertOps /\ Ended!BlockOps = BlockOps
    /\ Ended!WordStores = WordStores /\ Ended!WordLoads = WordLoads
    /\ Ended!DigitRotates = DigitRotates
BY DEF OneByte, Ended!OneByte, TwoByte, Ended!TwoByte, ThreeByte, Ended!ThreeByte,
       ByteStores, Ended!ByteStores, IndexedReads, Ended!IndexedReads,
       IndexedStores, Ended!IndexedStores, IndexPrefixes, Ended!IndexPrefixes,
       EdInertOps, Ended!EdInertOps, BlockOps, Ended!BlockOps, Byte, Ended!Byte,
       BlockRepeats, Ended!BlockRepeats, WordStores, Ended!WordStores,
       WordLoads, Ended!WordLoads, DigitRotates, Ended!DigitRotates

\* Each instruction has its opcodes.
LEMMA Guards ==
    ASSUME NEW code, NEW next
    PROVE  /\ Ended!Inert(code, next) => code \in OneByte \cup TwoByte \cup ThreeByte
           /\ Ended!Ei(code, next) => code = \hFB
           /\ Ended!Di(code, next) => code = \hF3
           /\ Ended!Halt(code, next) => code = \h76
           /\ Ended!JumpRelative(code, next) => code \in Relative
           /\ Ended!Jump(code, next) => code \in Jumps
           /\ Ended!Call(code, next) => code \in Calls
           /\ Ended!Ret(code, next) => code \in Rets
           /\ Ended!Rst(code, next) => code \in Rsts
           /\ Ended!PushPair(code, next) => code \in PushOps
           /\ Ended!PopPair(code, next) => code \in PopOps
           /\ Ended!MoveSP(code, next) => code \in SpOps
           /\ Ended!Store(code, next) => code \in StoreOps
           /\ Ended!JumpRegister(code, next) => code = \hE9
           /\ Ended!ShiftOrBit(code, next) => code = \hCB
<1>1. Ended!Inert(code, next) => code \in OneByte \cup TwoByte \cup ThreeByte
  BY SameSets DEF Ended!Inert
<1>2. Ended!Ei(code, next) => code = \hFB BY DEF Ended!Ei
<1>3. Ended!Di(code, next) => code = \hF3 BY DEF Ended!Di
<1>4. Ended!Halt(code, next) => code = \h76 BY DEF Ended!Halt
<1>5. Ended!JumpRelative(code, next) => code \in Relative
  BY DEF Ended!JumpRelative, Relative
<1>6. Ended!Jump(code, next) => code \in Jumps BY DEF Ended!Jump, Jumps
<1>7. Ended!Call(code, next) => code \in Calls BY DEF Ended!Call, Calls
<1>8. Ended!Ret(code, next) => code \in Rets BY DEF Ended!Ret, Rets
<1>9. Ended!Rst(code, next) => code \in Rsts BY DEF Ended!Rst, Rsts
<1>10. Ended!PushPair(code, next) => code \in PushOps BY DEF Ended!PushPair, PushOps
<1>11. Ended!PopPair(code, next) => code \in PopOps BY DEF Ended!PopPair, PopOps
<1>12. Ended!MoveSP(code, next) => code \in SpOps BY DEF Ended!MoveSP, SpOps
<1>13. Ended!Store(code, next) => code \in StoreOps BY SameSets DEF Ended!Store, StoreOps
<1>14. Ended!JumpRegister(code, next) => code = \hE9 BY DEF Ended!JumpRegister
<1>15. Ended!ShiftOrBit(code, next) => code = \hCB BY DEF Ended!ShiftOrBit
<1> QED BY <1>1, <1>2, <1>3, <1>4, <1>5, <1>6, <1>7, <1>8, <1>9, <1>10, <1>11, <1>12,
           <1>13, <1>14, <1>15

\* An opcode has one instruction.
LEMMA Which ==
    ASSUME NEW code, NEW next, Ended!DispatchUnprefixed(code, next)
    PROVE  /\ code \in OneByte \cup TwoByte \cup ThreeByte => Ended!Inert(code, next)
           /\ code = \hFB => Ended!Ei(code, next)
           /\ code = \hF3 => Ended!Di(code, next)
           /\ code = \h76 => Ended!Halt(code, next)
           /\ code = \h18 => Ended!JumpRelative(code, next)
           /\ code = \hC3 => Ended!Jump(code, next)
           /\ code = \hCD => Ended!Call(code, next)
           /\ code = \hC9 => Ended!Ret(code, next)
           /\ code \in Rsts => Ended!Rst(code, next)
           /\ code \in PushOps => Ended!PushPair(code, next)
           /\ code \in PopOps => Ended!PopPair(code, next)
           /\ code = \h31 => Ended!MoveSP(code, next)
           /\ code = \hED =>
                Ended!DispatchEd(Ended!ReadMem(end_ram, next), Ended!W16(next + 1))
<1> DEFINE Inerts == OneByte \cup TwoByte \cup ThreeByte
<1>1. \/ Ended!Inert(code, next) /\ code \in Inerts
      \/ Ended!Ei(code, next) /\ code = \hFB
      \/ Ended!Di(code, next) /\ code = \hF3
      \/ Ended!Halt(code, next) /\ code = \h76
      \/ Ended!JumpRelative(code, next) /\ code \in Relative
      \/ Ended!Jump(code, next) /\ code \in Jumps
      \/ Ended!Call(code, next) /\ code \in Calls
      \/ Ended!Ret(code, next) /\ code \in Rets
      \/ Ended!Rst(code, next) /\ code \in Rsts
      \/ Ended!PushPair(code, next) /\ code \in PushOps
      \/ Ended!PopPair(code, next) /\ code \in PopOps
      \/ Ended!MoveSP(code, next) /\ code \in SpOps
      \/ code \in StoreOps \cup {\hE9, \hCB}
      \/ code = \hED /\ Ended!DispatchEd(Ended!ReadMem(end_ram, next), Ended!W16(next + 1))
  BY Guards DEF Ended!DispatchUnprefixed
<1>2. code \in Inerts =>
        code \notin {\hFB, \hF3, \h76, \hE9, \hCB, \hED} \cup Relative \cup Jumps \cup Calls
             \cup Rets \cup Rsts \cup PushOps \cup PopOps \cup SpOps \cup StoreOps
  BY SMT DEF OneByte, TwoByte, ThreeByte, Relative, Jumps, Calls, Rets, Rsts, PushOps,
             PopOps, SpOps, StoreOps, ByteStores
<1>3. code \in {\hFB, \hF3, \h76, \h18, \hC3, \hCD, \hC9, \h31, \hED} =>
        code \notin StoreOps \cup {\hE9, \hCB} \cup Rsts \cup PushOps \cup PopOps
  BY SMT DEF StoreOps, ByteStores, Rsts, PushOps, PopOps
<1>4. code \in Rsts \cup PushOps \cup PopOps =>
        code \notin {\hFB, \hF3, \h76, \hE9, \hCB, \hED} \cup Relative \cup Jumps \cup Calls
             \cup Rets \cup SpOps \cup StoreOps
  BY SMT DEF Relative, Jumps, Calls, Rets, Rsts, PushOps, PopOps, SpOps, StoreOps, ByteStores
<1>5. /\ code \in Rsts => code \notin PushOps \cup PopOps
      /\ code \in PushOps => code \notin PopOps
  BY SMT DEF Rsts, PushOps, PopOps
<1>6. /\ code \in Relative => code \notin {\hFB, \hF3, \h76, \hC3, \hCD, \hC9, \h31, \hED}
      /\ code \in Jumps => code \notin {\hFB, \hF3, \h76, \h18, \hCD, \hC9, \h31, \hED}
      /\ code \in Calls => code \notin {\hFB, \hF3, \h76, \hC3, \h18, \hC9, \h31, \hED}
      /\ code \in Rets => code \notin {\hFB, \hF3, \h76, \hC3, \hCD, \h18, \h31, \hED}
      /\ code \in SpOps => code \notin {\hFB, \hF3, \h76, \hC3, \hCD, \hC9, \h18, \hED}
  BY SMT DEF Relative, Jumps, Calls, Rets, SpOps
<1> HIDE DEF Inerts
<1>7. code \in Inerts => Ended!Inert(code, next) BY <1>1, <1>2
<1>8. /\ code \in Rsts => Ended!Rst(code, next)
      /\ code \in PushOps => Ended!PushPair(code, next)
      /\ code \in PopOps => Ended!PopPair(code, next)
  BY <1>1, <1>2, <1>4, <1>5
<1>9. ASSUME code \in {\hFB, \hF3, \h76, \h18, \hC3, \hCD, \hC9, \h31, \hED}
      PROVE  /\ code = \hFB => Ended!Ei(code, next)
             /\ code = \hF3 => Ended!Di(code, next)
             /\ code = \h76 => Ended!Halt(code, next)
             /\ code = \h18 => Ended!JumpRelative(code, next)
             /\ code = \hC3 => Ended!Jump(code, next)
             /\ code = \hCD => Ended!Call(code, next)
             /\ code = \hC9 => Ended!Ret(code, next)
             /\ code = \h31 => Ended!MoveSP(code, next)
             /\ code = \hED =>
                  Ended!DispatchEd(Ended!ReadMem(end_ram, next), Ended!W16(next + 1))
  <2>1. code \notin Inerts BY <1>2, <1>9 DEF Relative, Jumps, Calls, Rets, SpOps
  <2> QED BY <1>1, <1>3, <1>6, <1>9, <2>1
<1> QED BY <1>7, <1>8, <1>9 DEF Inerts

\* An instruction begins: the ends move, the registers do not yet.
Fetches ==
    /\ Goes(pc) /\ UNCHANGED <<pc, sp, iff1, iff2, im, i, halted, ram>>
    /\ ei_pending' = FALSE

\* The operands are foreseen.
LEMMA OperatedForeseen ==
    ASSUME Fetches, NEW code, NEW next, Ended!DispatchUnprefixed(code, next)
    PROVE  Operated(code, next)'
<1> USE SameOperators DEF Fetches, Goes, Settled, Ended!UnchangedEnables
<1>1. code \in TwoByte => Goes(W16(next + 1))'
  <2>1. code \in TwoByte => code \notin OneByte \cup ThreeByte
    BY SMT DEF OneByte, TwoByte, ThreeByte
  <2> QED BY <2>1, Which, SameSets DEF Ended!Inert
<1>2. code = \h18 => Goes(W16(next + 1 + Signed(ReadMem(ram, next))))'
  BY Which DEF Ended!JumpRelative
<1>3. code \in ThreeByte => Goes(W16(next + 2))'
  <2>1. code \in ThreeByte => code \notin OneByte \cup TwoByte
    BY SMT DEF OneByte, TwoByte, ThreeByte
  <2> QED BY <2>1, Which, SameSets DEF Ended!Inert
<1>4. ASSUME code = \hC3 PROVE Goes(ReadWord(ram, next))'
  <2>1. Ended!Jump(code, next) BY <1>4, Which
  <2>2. /\ end_pc' = Ended!ReadWord(end_ram, next) /\ end_ei_pending' = FALSE
        /\ UNCHANGED <<end_sp, end_ram>> /\ Ended!UnchangedEnables
    BY <1>4, <2>1 DEF Ended!Jump
  <2> QED BY <2>2
<1>5. ASSUME code = \hCD PROVE Pushes(W16(next + 2), ReadWord(ram, next))'
  <2>1. Ended!Call(code, next) BY <1>5, Which
  <2>2. /\ end_pc' = Ended!ReadWord(end_ram, next) /\ Ended!Push(Ended!W16(next + 2))
        /\ end_ei_pending' = FALSE /\ Ended!UnchangedEnables
    BY <1>5, <2>1 DEF Ended!Call
  <2> QED BY <2>2 DEF Ended!Push, Pushes
<1>6. ASSUME code = \h31
      PROVE  (/\ Settled /\ end_sp = ReadWord(ram, next)
              /\ end_ram = ram /\ end_pc = W16(next + 2))'
  <2>1. Ended!MoveSP(code, next) BY <1>6, Which
  <2>2. /\ end_sp' = Ended!ReadWord(end_ram, next) /\ end_pc' = Ended!W16(next + 2)
        /\ end_ei_pending' = FALSE /\ end_ram' = end_ram /\ Ended!UnchangedEnables
    BY <1>6, <2>1 DEF Ended!MoveSP
  <2> QED BY <2>2
<1> QED BY <1>1, <1>2, <1>3, <1>4, <1>5, <1>6 DEF Operated

\* What goes over the stack is foreseen.
LEMMA StackedForeseen ==
    ASSUME Fetches, NEW code, NEW next, Ended!DispatchUnprefixed(code, next)
    PROVE  Stacked(code, next)'
<1> USE SameOperators DEF Fetches, Goes, Settled, Ended!UnchangedEnables
<1>1. ASSUME code = \hC9
      PROVE  (/\ Settled /\ end_sp = W16(sp + 2) /\ end_ram = ram /\ end_pc = TopOfStack)'
  <2>1. Ended!Ret(code, next) BY <1>1, Which
  <2>2. /\ end_pc' = Ended!TopOfStack /\ Ended!Pop
        /\ end_ei_pending' = FALSE /\ Ended!UnchangedEnables
    BY <1>1, <2>1 DEF Ended!Ret
  <2> QED BY <2>2 DEF Ended!Pop, Ended!TopOfStack, TopOfStack
<1>2. ASSUME code \in PopOps
      PROVE  (/\ Settled /\ end_sp = W16(sp + 2) /\ end_ram = ram /\ end_pc = next)'
  <2>1. Ended!PopPair(code, next) BY <1>2, Which
  <2> QED BY <2>1 DEF Ended!PopPair, Ended!Pop
<1>3. ASSUME code \in Rsts PROVE Pushes(next, code - \hC7)'
  <2>1. Ended!Rst(code, next) BY <1>3, Which
  <2> QED BY <2>1 DEF Ended!Rst, Ended!Push, Pushes
<1>4. code \in PushOps => (\E w \in RegPairs : Pushes(w, next))'
  <2> SUFFICES ASSUME code \in PushOps PROVE \E w \in RegPairs : Pushes(w, next)' OBVIOUS
  <2>1. Ended!PushPair(code, next) BY Which
  <2>2. PICK w \in RegPairs : Ended!Push(w) BY <2>1 DEF Ended!PushPair
  <2>3. Pushes(w, next)' BY <2>1, <2>2 DEF Ended!PushPair, Ended!Push, Pushes
  <2> QED BY <2>3
<1> QED BY <1>1, <1>2, <1>3, <1>4 DEF Stacked, Rsts, PushOps, PopOps

\* What one fetch does is foreseen.
LEMMA SimpleForeseen ==
    ASSUME Fetches, NEW code, NEW next, Ended!DispatchUnprefixed(code, next)
    PROVE  Simple(code, next)'
<1> USE SameOperators DEF Fetches, Goes, Settled, Ended!UnchangedEnables
<1>1. code \in OneByte => Goes(next)'
  <2>1. code \in OneByte => code \notin ThreeByte \cup TwoByte
    BY SMT DEF OneByte, TwoByte, ThreeByte
  <2> QED BY <2>1, Which, SameSets DEF Ended!Inert
<1>2. code = \hFB => Ended!Ei(code, next) BY Which
<1>3. code = \hF3 => Ended!Di(code, next) BY Which
<1>4. code = \h76 => Ended!Halt(code, next) BY Which
<1> QED BY <1>1, <1>2, <1>3, <1>4 DEF Simple, Ended!Ei, Ended!Di, Ended!Halt

\* The ED page is foreseen.
LEMMA EdForeseen ==
    ASSUME Fetches, NEW code, NEW next, Ended!DispatchEd(code, next)
    PROVE  EdPage(code, next)'
<1> USE SameOperators DEF Fetches, Goes, Settled, Ended!UnchangedEnables
<1>1. \/ Ended!RetN(code, next) /\ code \in Returns
      \/ Ended!SetIm(code, next) /\ code \in Modes
      \/ Ended!EdInert(code, next) /\ code \in EdInertOps
      \/ code \in {\h47} \cup WordStores \cup WordLoads \cup DigitRotates \cup BlockOps
  BY SameSets DEF Ended!DispatchEd, Ended!RetN, Ended!SetIm, Ended!LdIA, Ended!EdMemory,
                  Ended!Block, Ended!EdInert, Returns, Modes
<1>2. /\ code \in EdInertOps => code \notin Returns \cup Modes \cup {\h47}
           \cup WordStores \cup WordLoads \cup DigitRotates \cup BlockOps
      /\ code \in Returns => code \notin Modes
      /\ code \in Returns \cup Modes =>
           code \notin {\h47} \cup WordStores \cup WordLoads \cup DigitRotates \cup BlockOps
  BY SMT DEF EdInertOps, Returns, Modes, WordStores, WordLoads, DigitRotates, BlockOps,
             BlockRepeats
<1>3. Ended!RetN(code, next) =>
        (/\ end_iff1 = iff2 /\ end_iff2 = iff2 /\ end_im = im /\ end_i = i
         /\ end_halted = halted /\ end_ei_pending = ei_pending
         /\ end_sp = W16(sp + 2) /\ end_ram = ram /\ end_pc = TopOfStack)'
  BY DEF Ended!RetN, Ended!Pop, Ended!TopOfStack, TopOfStack
<1>4. Ended!SetIm(code, next) =>
        (/\ end_im = ImMode(code) /\ end_iff1 = iff1 /\ end_iff2 = iff2 /\ end_i = i
         /\ end_halted = halted /\ end_ei_pending = ei_pending
         /\ end_sp = sp /\ end_ram = ram /\ end_pc = next)'
  BY DEF Ended!SetIm, Ended!ImMode, ImMode
<1>5. Ended!EdInert(code, next) => Goes(next)' BY DEF Ended!EdInert
<1> QED BY <1>1, <1>2, <1>3, <1>4, <1>5 DEF EdPage

\* And so is whatever stands behind the prefixes.
LEMMA FetchedForeseen ==
    ASSUME Fetches, NEW prefixed \in BOOLEAN, NEW code, NEW next,
           IF prefixed /\ code \in IndexedReads \cup IndexedStores \cup {\h36, \hCB}
           THEN Ended!Indexed(code, next) ELSE Ended!DispatchUnprefixed(code, next)
    PROVE  Fetched(prefixed, code, next)'
<1>1. CASE prefixed /\ code \in IndexedReads
  <2>1. code \notin IndexedStores \cup {\h36, \hCB}
    BY <1>1, SMT DEF IndexedReads, IndexedStores, ByteStores
  <2>2. Ended!Indexed(code, next) BY <1>1
  <2>3. Goes(W16(next + 1))'
    BY <2>1, <2>2, SameOperators, SameSets
       DEF Ended!Indexed, Ended!UnchangedEnables, Fetches, Goes, Settled
  <2> QED BY <1>1, <2>3 DEF Fetched
<1>2. CASE prefixed /\ code \in IndexedStores \cup {\h36, \hCB}
  <2>1. /\ code \notin IndexedReads \cup TwoByte \cup ThreeByte \cup OneByte
        /\ code \notin {\h18, \hC3, \hCD, \h31, \hED, \hC9, \hC1, \hD1, \hE1, \hF1, \hC7, \hCF,
                        \hD7, \hDF, \hE7, \hEF, \hF7, \hFF, \hC5, \hD5, \hE5, \hF5, \hFB, \hF3,
                        \h76}
    BY <1>2, SMT DEF IndexedReads, IndexedStores, ByteStores, OneByte, TwoByte, ThreeByte
  <2> QED BY <2>1 DEF Fetched, Operated, Stacked, Simple
<1>3. CASE ~(prefixed /\ code \in IndexedReads \cup IndexedStores \cup {\h36, \hCB})
  <2>1. Ended!DispatchUnprefixed(code, next) BY <1>3
  <2>2. Operated(code, next)' /\ Stacked(code, next)' /\ Simple(code, next)'
    BY <2>1, OperatedForeseen, StackedForeseen, SimpleForeseen
  <2>3. ASSUME code = \hED PROVE EdPage(ReadMem(ram, next), W16(next + 1))'
    <3>1. PICK byte, behind : byte = ReadMem(ram, next) /\ behind = W16(next + 1) OBVIOUS
    <3>2. Ended!DispatchEd(byte, behind)
      BY <2>1, <2>3, <3>1, Which, SameOperators DEF Fetches, Goes
    <3>3. EdPage(byte, behind)' BY <3>2, EdForeseen
    <3>4. byte = ReadMem(ram, next)' BY <3>1 DEF Fetches
    <3> QED BY <3>1, <3>3, <3>4 DEF EdPage
  <2> QED BY <1>3, <2>2, <2>3 DEF Fetched
<1> QED BY <1>1, <1>2, <1>3

\* And so is every instruction that Z80BusCycles has.
LEMMA InstructionForeseen ==
    ASSUME Fetches, Ended!Execute, phase = "host", phase' = "M1", op = NoOp, op' = op
    PROVE  \E n \in 0 .. MaxPrefix : Behind(op \in IndexPrefixes, n)'
<1>1. PICK m \in 0 .. MaxPrefix : Ended!OpcodeBehind(m) BY DEF Ended!Execute
<1>a. PICK prefixed \in BOOLEAN : prefixed <=> m > 0 OBVIOUS
<1>2. PICK code, next : code = Ended!Opcode /\ next = Ended!Operand OBVIOUS
<1>3. /\ Ended!PrefixRun = m
      /\ code = ReadMem(ram, W16(pc + m)) /\ next = W16(pc + m + 1)
  BY <1>1, <1>2, SameOpcode, SameOperators DEF Starts, Fetches, Goes
<1>4. OpcodeBehind(m)'
  BY <1>1, SameOperators, SameSets DEF Ended!OpcodeBehind, OpcodeBehind, Fetches, Goes
<1>5. Fetched(prefixed, code, next)'
  <2>1. IF m > 0 /\ code \in IndexedReads \cup IndexedStores \cup {\h36, \hCB}
        THEN Ended!Indexed(code, next) ELSE Ended!DispatchUnprefixed(code, next)
    BY <1>2, <1>3, SameSets DEF Ended!Execute
  <2>2. IF prefixed /\ code \in IndexedReads \cup IndexedStores \cup {\h36, \hCB}
        THEN Ended!Indexed(code, next) ELSE Ended!DispatchUnprefixed(code, next)
    BY <1>a, <2>1
  <2> QED BY <2>2, FetchedForeseen
<1>6. (op' \in IndexPrefixes \/ m > 0) <=> prefixed
  BY <1>a, SMT DEF NoOp, IndexPrefixes
<1>7. code = ReadMem(ram', W16(pc' + m)) /\ next = W16(pc' + m + 1)
  BY <1>3 DEF Fetches
<1>8. Behind(op \in IndexPrefixes, m)'
  BY <1>4, <1>5, <1>6, <1>7 DEF Behind
<1> QED BY <1>8

-----------------------------------------------------------------------------
(* The invariant holds: a step begins.                                       *)

\* A sum may be cast at every step or at the end.
LEMMA CastSum == ASSUME NEW x \in Int, NEW k \in Int PROVE W16(W16(x) + k) = W16(x + k)
BY SMT DEF W16

\* What the sums of the code come to, wrap or not.
LEMMA Sums ==
    ASSUME NEW x \in Word
    PROVE  /\ W16(x) = x /\ W16(x + 0) = x
           /\ W16(x + 1) \in Word /\ W16(x - 1) \in Word
           /\ W16(x + 2) \in Word /\ W16(x - 2) \in Word
           /\ W16(W16(x + 1) + 1) = W16(x + 2)
           /\ W16(W16(x - 1) - 1) = W16(x - 2)
<1>1. x \in Int /\ 0 <= x /\ x <= 65535 /\ x + 0 = x BY WordBounds, SMT
<1>2. W16(x) = x BY <1>1, CastBounds
<1>3. /\ W16(x + 1) \in Word /\ W16(x - 1) \in Word
      /\ W16(x + 2) \in Word /\ W16(x - 2) \in Word
  BY <1>1, WordCast, SMT
<1>4. W16(W16(x + 1) + 1) = W16(x + 1 + 1) BY <1>1, CastSum, SMT
<1>5. W16(W16(x - 1) + (-1)) = W16(x - 1 + (-1)) BY <1>1, CastSum, SMT
<1>6. x + 1 + 1 = x + 2 /\ x - 1 + (-1) = x - 2 BY <1>1, SMT
<1>7. W16(x - 1) + (-1) = W16(x - 1) - 1
  <2>1. W16(x - 1) \in Int BY <1>3, WordBounds
  <2> QED BY <2>1, SMT
<1> QED BY <1>1, <1>2, <1>3, <1>4, <1>5, <1>6, <1>7

\* Wherever an instruction leaves the stack pointer, it is a word.
LEMMA EndInWord ==
    ASSUME Goes(pc), sp \in Word, ram \in Memory, Ended!Execute PROVE end_sp' \in Word
<1> USE SameOperators DEF Goes, Settled
<1>1. end_sp \in Word /\ end_ram \in Memory /\ RegPairs \subseteq Word BY HostAssumption
<1>2. /\ Ended!W16(end_sp - 2) \in Word /\ Ended!W16(end_sp + 2) \in Word
      /\ Ended!W16(end_sp + 1) \in Word /\ Ended!W16(end_sp - 1) \in Word
  BY <1>1, Sums
<1>3. \A a : Ended!ReadWord(end_ram, a) \in Word BY <1>1, ReadWordType
<1>4. (\E w : Ended!Push(w)) \/ Ended!Pop \/ end_sp' = end_sp => end_sp' \in Word
  BY <1>1, <1>2 DEF Ended!Push, Ended!Pop
<1>5. ASSUME NEW code, NEW next, Ended!DispatchEd(code, next) PROVE end_sp' \in Word
  BY <1>1, <1>3, <1>4, <1>5
     DEF Ended!DispatchEd, Ended!RetN, Ended!SetIm, Ended!LdIA, Ended!EdMemory, Ended!Block,
         Ended!EdInert
<1>6. ASSUME NEW code, NEW next, Ended!Indexed(code, next) PROVE end_sp' \in Word
  BY <1>4, <1>6 DEF Ended!Indexed
<1>7. ASSUME NEW code, NEW next, Ended!DispatchUnprefixed(code, next) PROVE end_sp' \in Word
  <2>1. Ended!Call(code, next) \/ Ended!Ret(code, next) => end_sp' \in Word
    <3>1. Ended!Call(code, next) => Ended!Push(Ended!W16(next + 2)) \/ end_sp' = end_sp
      BY DEF Ended!Call
    <3>2. Ended!Ret(code, next) => Ended!Pop \/ end_sp' = end_sp BY DEF Ended!Ret
    <3> QED BY <1>4, <3>1, <3>2
  <2>2. Ended!PushPair(code, next) \/ Ended!Rst(code, next) => end_sp' \in Word
    BY <1>4 DEF Ended!PushPair, Ended!Rst
  <2>3. Ended!MoveSP(code, next) => end_sp' \in Word
    BY <1>1, <1>2, <1>3 DEF Ended!MoveSP
  <2>4. \/ Ended!Store(code, next) \/ Ended!JumpRegister(code, next)
        \/ Ended!ShiftOrBit(code, next) \/ Ended!Inert(code, next) \/ Ended!Ei(code, next)
        \/ Ended!Di(code, next) \/ Ended!Halt(code, next) \/ Ended!JumpRelative(code, next)
        \/ Ended!Jump(code, next) \/ Ended!PopPair(code, next)
        => end_sp' \in Word
    BY <1>4 DEF Ended!Store, Ended!JumpRegister, Ended!ShiftOrBit, Ended!Inert, Ended!Ei,
                Ended!Di, Ended!Halt, Ended!JumpRelative, Ended!Jump, Ended!PopPair
  <2> QED BY <1>5, <1>7, <2>1, <2>2, <2>3, <2>4 DEF Ended!DispatchUnprefixed
<1> QED BY <1>6, <1>7 DEF Ended!Execute

\* Between two steps the ends are the registers.
LEMMA HostGoes == ASSUME BusInv, phase = "host" PROVE Goes(pc) /\ op = NoOp
BY DEF BusInv, BusTypes, Foresight

\* The acceptance of an NMI is foreseen.
LEMMA NmiKeeps == ASSUME BusInv, BeginNmi, Ended!ServiceNmi PROVE BusInv'
<1> USE DEF BeginNmi, locals
<1>1. Goes(pc) /\ op = NoOp BY HostGoes
<1>2. ResumePc \in Word BY WordBounds, Sums DEF ResumePc, BusInv, BusTypes
<1>3. Pushes(pc, \h66)'
  BY <1>1, SameOperators
     DEF Goes, Settled, Pushes, Ended!ServiceNmi, Ended!Push, Ended!ResumePc, ResumePc
<1>4. BusTypes' BY <1>2, <1>3, Sums DEF BusInv, BusTypes, Memory, Pushes
<1> QED BY <1>3, <1>4 DEF BusInv, Foresight

\* And so is that of an INT.
LEMMA IntKeeps ==
    ASSUME BusInv, NEW d \in DataBus, BeginInt(d), Ended!AcceptInt(d) PROVE BusInv'
<1> USE DEF BeginInt, locals
<1>1. Goes(pc) /\ op = NoOp BY HostGoes
<1>2. ResumePc \in Word /\ d \in Byte
  BY WordBounds, Sums, HostAssumption DEF ResumePc, BusInv, BusTypes
<1>3. end_pc' = Vector'
  <2>1. im = 0 \/ im = 1 \/ im = 2 BY SMT DEF BusInv, BusTypes
  <2>2. end_pc' = Ended!IntVector(d, end_ram') BY DEF Ended!AcceptInt
  <2>3. Ended!RstTarget(d) = RstTarget(d) BY DEF RstTarget, Ended!RstTarget
  <2>4. end_im = im /\ end_i = i /\ im' = im /\ i' = i /\ databus' = d
    BY <1>1 DEF Goes, Settled
  <2> QED BY <2>1, <2>2, <2>3, <2>4, SameOperators, SMT DEF Ended!IntVector, Vector
<1>4. Pushes(pc, Vector)'
  BY <1>1, <1>3, SameOperators
     DEF Goes, Settled, Pushes, Ended!AcceptInt, Ended!Push, Ended!ResumePc, ResumePc
<1>5. BusTypes' BY <1>2, <1>4, Sums DEF BusInv, BusTypes, Memory, Pushes
<1> QED BY <1>4, <1>5 DEF BusInv, Foresight

\* And a HALT cycle or an instruction.
LEMMA InstructionKeeps ==
    ASSUME BusInv, BeginInstruction, Ended!HaltCycle \/ Ended!Execute PROVE BusInv'
<1> USE DEF BeginInstruction
<1>1. Goes(pc) /\ op = NoOp /\ phase = "host" /\ op' = op BY HostGoes
<1>2. BusTypes'
  <2>1. phase' \in {"haltM1", "M1"} BY Zenon
  <2>2. end_sp' \in Word
    BY <1>1, EndInWord DEF BusInv, BusTypes, Ended!HaltCycle, Goes
  <2> QED BY <2>1, <2>2 DEF BusInv, BusTypes, Memory
<1>3. CASE Ended!HaltCycle
  <2>1. phase' = "haltM1" BY <1>1, <1>3 DEF Ended!HaltCycle, Goes, Settled
  <2>2. Goes(pc)' BY <1>1, <1>3 DEF Ended!HaltCycle, Goes, Settled
  <2> QED BY <1>2, <2>1, <2>2 DEF BusInv, Foresight
<1>4. CASE Ended!Execute
  <2>1. phase' = "M1" BY <1>1, <1>4 DEF Ended!Execute, Goes, Settled
  <2>2. Fetches BY <1>1 DEF Fetches
  <2>3. \E n \in 0 .. MaxPrefix : Behind(op \in IndexPrefixes, n)'
    BY <1>1, <1>4, <2>1, <2>2, InstructionForeseen
  <2> QED BY <1>2, <2>1, <2>3 DEF BusInv, Foresight
<1> QED BY <1>3, <1>4

\* Every beginning of a step keeps the invariant.
LEMMA BeginKeeps == ASSUME BusInv, RBegin PROVE BusInv'
BY NmiKeeps, IntKeeps, InstructionKeeps DEF RBegin

-----------------------------------------------------------------------------
(* The invariant holds: the bus cycles of a push and of a pop.               *)

\* A word to be pushed goes to the stack high byte first.
LEMMA PushStarts ==
    ASSUME BusInv, NEW w \in Word, NEW target, Pushes(w, Leads'), StartPush(w, target),
           UNCHANGED <<iff1, iff2, im, i, halted, ei_pending, ram, ends>>
    PROVE  /\ (/\ Settled /\ bus = sp /\ end_sp = W16(sp - 1) /\ end_pc = Leads
               /\ end_ram = WriteMem(WriteMem(ram, sp, HiByte(word)), end_sp, LoByte(word)))'
           /\ sp' \in Word /\ bus' \in Word /\ word' \in Word /\ phase' = "pushHi"
<1>1. sp \in Word BY DEF BusInv, BusTypes
<1>2. sp' = W16(sp - 1) /\ bus' = sp' /\ word' = w /\ phase' = "pushHi" BY DEF StartPush
<1>3. end_sp' = W16(sp' - 1) BY <1>1, <1>2, Sums DEF Pushes, ends
<1>4. end_ram' = WriteMem(WriteMem(ram', sp', HiByte(word')), end_sp', LoByte(word'))
  BY <1>2 DEF Pushes, Pushed, ends
<1>5. Settled' /\ end_pc' = Leads' BY DEF Pushes, Settled, ends
<1> QED BY <1>1, <1>2, <1>3, <1>4, <1>5, Sums

\* The high byte is where the push puts it; the low byte is to come.
LEMMA PushHiKeeps == ASSUME BusInv, PushHi, UNCHANGED ends PROVE BusInv'
<1> USE DEF PushHi, ends
<1>1. /\ Settled /\ bus = sp /\ end_sp = W16(sp - 1) /\ end_pc = Leads
      /\ end_ram = WriteMem(WriteMem(ram, sp, HiByte(word)), end_sp, LoByte(word))
  BY DEF BusInv, Foresight
<1>2. (/\ Settled /\ bus = sp /\ end_sp = sp /\ end_pc = Leads
       /\ end_ram = WriteMem(ram, sp, LoByte(word)))'
  BY <1>1 DEF Settled, Leads, Vector
<1>3. BusTypes' BY Sums, WriteType, ByteParts DEF BusInv, BusTypes
<1> QED BY <1>2, <1>3 DEF BusInv, Foresight

\* The low byte completes the push; what follows is Leads.
LEMMA PushLoKeeps == ASSUME BusInv, PushLo, UNCHANGED ends PROVE BusInv'
<1> USE DEF PushLo, ends, Return
<1>1. /\ Settled /\ bus = sp /\ end_sp = sp /\ end_pc = Leads
      /\ end_ram = WriteMem(ram, sp, LoByte(word))
  BY DEF BusInv, Foresight
<1>2. end_ram' = ram' /\ ram' \in Memory /\ Settled' /\ end_sp' = sp'
  BY <1>1, WriteType, ByteParts DEF BusInv, BusTypes, Settled
<1>3. CASE phase' = "vectorLo"
  <2>1. after = ByMode /\ im = 2 /\ bus' = Join(i, databus) /\ UNCHANGED <<pc, word, databus>>
    BY <1>3
  <2>2. bus' \in Word BY <2>1, JoinedWord DEF BusInv, BusTypes
  <2>3. end_pc' = ReadWord(ram', bus') BY <1>1, <1>2, <2>1 DEF Leads, Vector
  <2>4. Goes(ReadWord(ram, bus))' BY <1>1, <1>2, <2>1, <2>3 DEF Goes
  <2>5. BusTypes' BY <1>2, <1>3, <2>1, <2>2 DEF BusInv, BusTypes
  <2> QED BY <1>3, <2>4, <2>5 DEF BusInv, Foresight
<1>4. CASE phase' = "host"
  <2>1. Return BY <1>4
  <2>2. pc' = end_pc /\ pc' \in Word
    <3>1. CASE after = ByMode /\ im # 2
      <4>1. im = 0 \/ im = 1 BY <3>1, SMT DEF BusInv, BusTypes
      <4>2. pc' = Vector BY <3>1, <4>1, SMT DEF Vector, ByMode, Nowhere, Word
      <4>3. RstTarget(databus) \in Word /\ \h38 \in Word
        BY RstType, BoundsWord, SMT DEF BusInv, BusTypes
      <4> QED BY <1>1, <3>1, <4>1, <4>2, <4>3, SMT DEF Leads, Vector
    <3>2. CASE after \in Word /\ pc' = after
      BY <1>1, <3>2, SMT DEF Leads, ByMode, Nowhere, Word
    <3>3. CASE after = Nowhere /\ pc' = pc
      BY <1>1, <3>3, SMT DEF Leads, ByMode, Nowhere, BusInv, BusTypes
    <3> QED BY <1>4, <3>1, <3>2, <3>3
  <2>3. Goes(pc)' BY <1>1, <1>2, <2>2 DEF Goes
  <2>4. BusTypes'
    <3>1. 0 \in Word /\ 0 \in Byte BY BoundsWord, BoundsByte, SMT
    <3> QED BY <1>2, <2>1, <2>2, <3>1 DEF BusInv, BusTypes
  <2> QED BY <1>4, <2>3, <2>4 DEF BusInv, Foresight
<1> QED BY <1>3, <1>4

\* The low byte of the top of the stack is kept in word.
LEMMA PopLoKeeps == ASSUME BusInv, PopLo, UNCHANGED ends PROVE BusInv'
<1> USE DEF PopLo, ends
<1>1. bus = sp /\ Pops(W16(sp + 2), TopOfStack) BY DEF BusInv, Foresight
<1>2. sp \in Word /\ ram \in Memory BY DEF BusInv, BusTypes
<1>3. TopOfStack = Join(ReadMem(ram', bus'), word') /\ W16(sp + 2) = W16(sp' + 1)
  BY <1>1, <1>2, Sums DEF TopOfStack, ReadWord
<1>4. (bus = sp /\ Pops(W16(sp + 1), Join(ReadMem(ram, bus), word)))'
  BY <1>1, <1>3 DEF Pops
<1>5. word' \in Byte /\ word' \in Word /\ sp' \in Word
  BY <1>2, ReadType, Sums, ByteBounds, BoundsWord
<1>6. BusTypes' BY <1>5 DEF BusInv, BusTypes
<1> QED BY <1>4, <1>6 DEF BusInv, Foresight

\* On its return to the host a step leaves its locals behind.
LEMMA ReturnKeeps ==
    ASSUME BusInv, Return, Goes(pc)', pc' \in Word, sp' \in Word, im' \in 0 .. 2,
           i' \in Byte, ram' \in Memory
    PROVE  BusInv'
<1>1. 0 \in Word /\ 0 \in Byte BY BoundsWord, BoundsByte, SMT
<1>2. BusTypes' BY <1>1 DEF Return, BusTypes, Goes
<1> QED BY <1>2 DEF Return, BusInv, Foresight

\* The high byte completes the pop, and a return goes there.
LEMMA PopHiKeeps == ASSUME BusInv, PopHi, UNCHANGED ends PROVE BusInv'
<1> USE DEF PopHi, ends
<1>1. bus = sp /\ Pops(W16(sp + 1), Join(ReadMem(ram, bus), word)) BY DEF BusInv, Foresight
<1>2. Goes(pc)' BY <1>1 DEF Pops, Goes, Settled
<1>3. Join(ReadMem(ram, bus), word) \in Word BY ReadType, JoinedWord DEF BusInv, BusTypes
<1> QED BY <1>2, <1>3, Sums, ReturnKeeps DEF BusInv, BusTypes

-----------------------------------------------------------------------------
(* The invariant holds: the acknowledge cycles.                              *)

\* An acknowledge cycle starts the push of PC.
LEMMA AckKeeps == ASSUME BusInv, AckNmi \/ AckInt, UNCHANGED ends PROVE BusInv'
<1> USE DEF AckNmi, AckInt
<1>1. pc \in Word BY DEF BusInv, BusTypes
<1>2. CASE AckNmi
  <2>1. Pushes(pc, \h66) BY <1>2 DEF BusInv, Foresight
  <2>2. after' = \h66 BY <1>2 DEF StartPush
  <2>3. Leads' = \h66 BY <2>2, SMT DEF Leads, ByMode, Nowhere
  <2>4. Pushes(pc, Leads') BY <2>1, <2>3
  <2>5. /\ (/\ Settled /\ bus = sp /\ end_sp = W16(sp - 1) /\ end_pc = Leads
            /\ end_ram = WriteMem(WriteMem(ram, sp, HiByte(word)), end_sp, LoByte(word)))'
        /\ sp' \in Word /\ bus' \in Word /\ word' \in Word /\ phase' = "pushHi"
    BY <1>1, <1>2, <2>4, PushStarts
  <2>6. BusTypes' BY <1>2, <2>5 DEF BusInv, BusTypes, ends
  <2> QED BY <2>5, <2>6 DEF BusInv, Foresight
<1>3. CASE AckInt
  <2>1. Pushes(pc, Vector) BY <1>3 DEF BusInv, Foresight
  <2>2. after' = ByMode BY <1>3 DEF StartPush
  <2>3. Leads' = Vector BY <1>3, <2>2 DEF Leads, Vector, ends
  <2>4. Pushes(pc, Leads') BY <2>1, <2>3
  <2>5. /\ (/\ Settled /\ bus = sp /\ end_sp = W16(sp - 1) /\ end_pc = Leads
            /\ end_ram = WriteMem(WriteMem(ram, sp, HiByte(word)), end_sp, LoByte(word)))'
        /\ sp' \in Word /\ bus' \in Word /\ word' \in Word /\ phase' = "pushHi"
    BY <1>1, <1>3, <2>4, PushStarts
  <2>6. BusTypes' BY <1>3, <2>5 DEF BusInv, BusTypes, ends
  <2> QED BY <2>5, <2>6 DEF BusInv, Foresight
<1> QED BY <1>2, <1>3

\* The low byte of the vector is kept in word.
LEMMA VectorLoKeeps == ASSUME BusInv, VectorLo, UNCHANGED ends PROVE BusInv'
<1> USE DEF VectorLo, ends, vars, regs
<1>1. Goes(ReadWord(ram, bus)) BY DEF BusInv, Foresight
<1>2. bus \in Word /\ ram \in Memory BY DEF BusInv, BusTypes
<1>3. Goes(Join(ReadMem(ram, bus), word))' BY <1>1 DEF Goes, Settled, ReadWord
<1>4. word' \in Byte /\ word' \in Word /\ bus' \in Word
  BY <1>2, ReadType, Sums, ByteBounds, BoundsWord
<1>5. BusTypes' BY <1>4 DEF BusInv, BusTypes
<1> QED BY <1>3, <1>5 DEF BusInv, Foresight

\* The high byte completes the vector, read from memory as the push left it.
LEMMA VectorHiKeeps == ASSUME BusInv, VectorHi, UNCHANGED ends PROVE BusInv'
<1> USE DEF VectorHi, ends
<1>1. Goes(Join(ReadMem(ram, bus), word)) BY DEF BusInv, Foresight
<1>2. Goes(pc)' BY <1>1 DEF Goes, Settled
<1>3. Join(ReadMem(ram, bus), word) \in Word BY ReadType, JoinedWord DEF BusInv, BusTypes
<1> QED BY <1>2, <1>3, ReturnKeeps DEF BusInv, BusTypes

\* The fetch of a halted processor changes nothing.
LEMMA HaltM1Keeps == ASSUME BusInv, HaltM1, UNCHANGED ends PROVE BusInv'
<1> USE DEF HaltM1, ends, vars, regs
<1>1. Goes(pc)' BY DEF BusInv, Foresight, Goes, Settled
<1> QED BY <1>1, ReturnKeeps DEF BusInv, BusTypes

-----------------------------------------------------------------------------
(* The invariant holds: the fetches.                                         *)

\* The byte fetched is the opcode that was foreseen, or one prefix less stands
\* before it.
LEMMA Foreknown ==
    ASSUME BusInv, phase = "M1"
    PROVE  /\ bus = pc /\ pc \in Word /\ ram \in Memory /\ ei_pending = FALSE
           /\ ReadMem(ram, bus) \notin IndexPrefixes =>
                Fetched(op \in IndexPrefixes, ReadMem(ram, bus), W16(bus + 1))
           /\ ReadMem(ram, bus) \in IndexPrefixes =>
                \E n \in 0 .. MaxPrefix : n > 0 /\ Behind(op \in IndexPrefixes, n)
<1>1. bus = pc /\ pc \in Word /\ ram \in Memory /\ ei_pending = FALSE
  BY DEF BusInv, BusTypes
<1>2. PICK n \in 0 .. MaxPrefix : Behind(op \in IndexPrefixes, n) BY DEF BusInv, Foresight
<1>3. n \in Int /\ n >= 0 BY HostAssumption, SMT
<1>4. CASE n = 0
  <2>1. W16(pc + n) = pc /\ W16(pc + n + 1) = W16(pc + 1)
    <3>1. pc + n = pc + 0 /\ pc + n + 1 = pc + 1 BY <1>1, <1>4, WordBounds, SMT
    <3> QED BY <1>1, <3>1, Sums
  <2>2. ReadMem(ram, pc) \notin IndexPrefixes BY <1>2, <2>1 DEF Behind, OpcodeBehind
  <2>3. (op \in IndexPrefixes \/ n > 0) <=> op \in IndexPrefixes BY <1>4, SMT
  <2>4. Fetched(op \in IndexPrefixes, ReadMem(ram, bus), W16(bus + 1))
    BY <1>1, <1>2, <2>1, <2>3 DEF Behind, Fetched
  <2> QED BY <1>1, <2>2, <2>4
<1>5. CASE n > 0
  <2>1. 0 \in 0 .. n - 1 BY <1>3, <1>5, SMT
  <2>2. ReadMem(ram, W16(pc + 0)) \in IndexPrefixes BY <1>2, <2>1 DEF Behind, OpcodeBehind
  <2> QED BY <1>1, <1>2, <1>5, <2>2, Sums
<1>6. n = 0 \/ n > 0 BY <1>3, SMT
<1> QED BY <1>4, <1>5, <1>6

\* Behind a prefix the rest of the instruction is as it was.
LEMMA PrefixBehind ==
    ASSUME BusInv, phase = "M1", ReadMem(ram, bus) \in IndexPrefixes, pc' = W16(bus + 1),
           op' = ReadMem(ram, bus), UNCHANGED <<sp, iff1, iff2, im, i, halted, ei_pending, ram>>,
           UNCHANGED ends
    PROVE  \E n \in 0 .. MaxPrefix : Behind(op \in IndexPrefixes, n)'
<1>1. bus = pc /\ pc \in Word BY Foreknown
<1>2. PICK m \in 0 .. MaxPrefix : m > 0 /\ Behind(op \in IndexPrefixes, m) BY Foreknown
<1>3. m \in Int /\ m - 1 \in 0 .. MaxPrefix /\ pc \in Int
  BY <1>1, <1>2, HostAssumption, WordBounds, SMT
<1>4. PICK n : n = m - 1 OBVIOUS
<1>5. \A k \in Int : W16(pc' + k) = W16(pc + (k + 1))
  <2> SUFFICES ASSUME NEW k \in Int PROVE W16(pc' + k) = W16(pc + (k + 1)) OBVIOUS
  <2>1. W16(W16(pc + 1) + k) = W16(pc + 1 + k) BY <1>3, CastSum
  <2>2. pc + 1 + k = pc + (k + 1) BY <1>3, SMT
  <2> QED BY <1>1, <2>1, <2>2
<1>6. W16(pc' + n) = W16(pc + m) /\ W16(pc' + n + 1) = W16(pc + m + 1)
  <2>1. n \in Int /\ n + 1 \in Int /\ n + 1 = m /\ n + 1 + 1 = m + 1 BY <1>3, <1>4, SMT
  <2>2. W16(pc' + n) = W16(pc + m) BY <1>5, <2>1
  <2>3. W16(pc' + (n + 1)) = W16(pc + (m + 1)) BY <1>5, <2>1
  <2>4. pc + (m + 1) = pc + m + 1 BY <1>3, SMT
  <2>5. pc' \in Int BY <1>1, Sums, WordBounds
  <2>6. pc' + (n + 1) = pc' + n + 1 BY <2>1, <2>5, SMT
  <2> QED BY <2>2, <2>3, <2>4, <2>6
<1>7. OpcodeBehind(n)'
  <2>1. ASSUME NEW k \in 0 .. n - 1 PROVE ReadMem(ram, W16(pc' + k)) \in IndexPrefixes
    <3>1. k \in Int /\ k + 1 \in 0 .. m - 1 BY <1>3, <1>4, SMT
    <3>2. ReadMem(ram, W16(pc + (k + 1))) \in IndexPrefixes
      BY <1>2, <3>1 DEF Behind, OpcodeBehind
    <3> QED BY <1>5, <3>1, <3>2
  <2>2. ReadMem(ram, W16(pc' + n)) \notin IndexPrefixes
    BY <1>2, <1>6 DEF Behind, OpcodeBehind
  <2> QED BY <2>1, <2>2 DEF OpcodeBehind
<1>8. PICK code, next : code = ReadMem(ram, W16(pc + m)) /\ next = W16(pc + m + 1)
  OBVIOUS
<1>9. Fetched(TRUE, code, next)'
  BY <1>2, <1>8
     DEF Behind, Fetched, ends, Operated, Stacked, Simple, EdPage, Goes, Pushes, Settled,
         TopOfStack
<1>10. code = ReadMem(ram', W16(pc' + n)) /\ next = W16(pc' + n + 1) /\ op' \in IndexPrefixes
  BY <1>6, <1>8
<1>11. Behind(op \in IndexPrefixes, n)' BY <1>7, <1>8, <1>9, <1>10 DEF Behind, Fetched
<1> QED BY <1>3, <1>4, <1>11

\* One prefix less stands before the opcode, or the ED page begins.
LEMMA FetchPrefixKeeps == ASSUME BusInv, FetchPrefix, UNCHANGED ends PROVE BusInv'
<1> USE DEF FetchPrefix
<1>1. pc' \in Word /\ bus = pc /\ ei_pending = FALSE BY Foreknown, Sums
<1>2. phase' \in {"M1", "edM1"} BY Zenon
<1>3. BusTypes' BY <1>1, <1>2 DEF BusInv, BusTypes, ends
<1>4. CASE ReadMem(ram, bus) \in IndexPrefixes
  <2>1. ReadMem(ram, bus) # \hED BY <1>4, SMT DEF IndexPrefixes
  <2>2. phase' = "M1" BY <2>1
  <2>3. \E n \in 0 .. MaxPrefix : Behind(op \in IndexPrefixes, n)' BY <1>4, PrefixBehind
  <2> QED BY <1>3, <2>2, <2>3 DEF BusInv, Foresight
<1>5. CASE ReadMem(ram, bus) \notin IndexPrefixes
  <2>1. ReadMem(ram, bus) = \hED /\ phase' = "edM1" BY <1>5
  <2>2. \hED \notin IndexedReads BY SMT DEF IndexedReads
  <2>3. EdPage(ReadMem(ram, pc'), W16(pc' + 1))
    BY <1>1, <1>5, <2>1, <2>2, Foreknown DEF Fetched
  <2>4. EdPage(ReadMem(ram, pc), W16(pc + 1))'
    BY <2>3 DEF EdPage, Goes, Settled, ends, TopOfStack
  <2> QED BY <1>3, <2>1, <2>4 DEF BusInv, Foresight
<1> QED BY <1>4, <1>5

\* The instruction that one fetch completes ends as foreseen.
LEMMA FetchSimpleKeeps == ASSUME BusInv, FetchSimple, UNCHANGED ends PROVE BusInv'
<1> USE DEF FetchSimple, ends, Settled, Goes
<1>1. PICK code, next : code = ReadMem(ram, bus) /\ next = W16(bus + 1) OBVIOUS
<1>2. /\ \/ code \in OneByte \ Displaced /\ Inert(code, next)
         \/ Ei(code, next)
         \/ Di(code, next)
         \/ Halt(code, next)
      /\ Return
  BY <1>1
<1>3. code \notin IndexPrefixes /\ ~(op \in IndexPrefixes /\ code \in IndexedReads)
  <2>1. \A c \in OneByte \cup {\hFB, \hF3, \h76} : c \notin IndexPrefixes
    BY SMT DEF OneByte, IndexPrefixes
  <2>2. \A c \in {\hFB, \hF3, \h76} : c \notin IndexedReads BY SMT DEF IndexedReads
  <2> QED BY <1>2, <2>1, <2>2 DEF Displaced, Ei, Di, Halt
<1>4. Simple(code, next) /\ next \in Word /\ ei_pending = FALSE /\ bus = pc
  BY <1>1, <1>3, Foreknown, Sums DEF Fetched
<1>5. CASE code \in OneByte \ Displaced /\ Inert(code, next)
  <2>1. code \notin TwoByte \cup ThreeByte BY <1>5, SMT DEF OneByte, TwoByte, ThreeByte
  <2>2. Goes(pc)' /\ pc' = next /\ UNCHANGED <<sp, im, i, ram>>
    BY <1>4, <1>5, <2>1 DEF Simple, Inert, UnchangedEnables
  <2> QED BY <1>2, <1>4, <2>2, ReturnKeeps DEF BusInv, BusTypes
<1>6. CASE Ei(code, next) \/ Di(code, next)
  <2>1. code \in {\hFB, \hF3} BY <1>6 DEF Ei, Di
  <2>2. /\ end_iff1 = (code = \hFB) /\ end_iff2 = (code = \hFB)
        /\ end_ei_pending = (code = \hFB)
        /\ end_im = im /\ end_i = i /\ end_halted = halted
        /\ end_sp = sp /\ end_ram = ram /\ end_pc = next
    BY <1>4, <2>1 DEF Simple
  <2>3. Ei(code, next) => end_iff1 = TRUE /\ end_iff2 = TRUE /\ end_ei_pending = TRUE
    BY <2>2 DEF Ei
  <2>4. Di(code, next) => end_iff1 = FALSE /\ end_iff2 = FALSE /\ end_ei_pending = FALSE
    <3>1. Di(code, next) => ~(code = \hFB) BY SMT DEF Di
    <3> QED BY <2>2, <3>1, Zenon
  <2>5. Goes(pc)' /\ pc' = next /\ UNCHANGED <<sp, im, i, ram>>
    BY <1>6, <2>2, <2>3, <2>4 DEF Ei, Di
  <2> QED BY <1>2, <1>4, <2>5, ReturnKeeps DEF BusInv, BusTypes
<1>7. CASE Halt(code, next)
  <2>1. Goes(pc)' /\ pc' = W16(next - 1) /\ UNCHANGED <<sp, im, i, ram>>
    BY <1>4, <1>7 DEF Simple, Halt
  <2>2. W16(next - 1) \in Word BY <1>4, Sums
  <2> QED BY <1>2, <2>1, <2>2, ReturnKeeps DEF BusInv, BusTypes
<1> QED BY <1>2, <1>5, <1>6, <1>7

\* So does one of the ED page, or it goes on to pop.
LEMMA FetchEdKeeps == ASSUME BusInv, FetchEd, UNCHANGED ends PROVE BusInv'
<1> USE DEF FetchEd, ends
<1>1. PICK code, next : code = ReadMem(ram, bus) /\ next = W16(bus + 1) OBVIOUS
<1>2. bus = pc /\ pc \in Word /\ ram \in Memory /\ ei_pending = FALSE /\ sp \in Word
  BY DEF BusInv, BusTypes
<1>3. EdPage(code, next) /\ next \in Word BY <1>1, <1>2, Sums DEF BusInv, Foresight
<1>4. CASE code \in Returns
  <2>1. /\ op' = \hED /\ pc' = next /\ phase' = "popLo" /\ bus' = sp
        /\ UNCHANGED <<sp, iff1, iff2, im, i, halted, ei_pending, ram, word, after, databus>>
    <3>1. code \notin Modes \cup EdInertOps BY <1>4, SMT DEF Returns, Modes, EdInertOps
    <3> QED BY <1>1, <1>4, <3>1 DEF SetIm, EdInert, Modes
  <2>2. (bus = sp /\ Pops(W16(sp + 2), TopOfStack))'
    BY <1>3, <1>4, <2>1 DEF EdPage, Pops, TopOfStack
  <2>3. BusTypes' BY <1>2, <1>3, <2>1 DEF BusInv, BusTypes
  <2> QED BY <2>1, <2>2, <2>3 DEF BusInv, Foresight
<1>5. CASE SetIm(code, next) /\ Return
  <2>1. Goes(pc)' /\ pc' = next /\ UNCHANGED <<sp, i, ram>>
    BY <1>2, <1>3, <1>5 DEF SetIm, EdPage, Modes, Goes, Settled
  <2>2. im' \in 0 .. 2 BY <1>5, SMT DEF SetIm, ImMode
  <2> QED BY <1>3, <1>5, <2>1, <2>2, ReturnKeeps DEF BusInv, BusTypes
<1>6. CASE EdInert(code, next) /\ Return
  <2>1. Goes(pc)' /\ pc' = next /\ UNCHANGED <<sp, im, i, ram>>
    BY <1>2, <1>3, <1>6 DEF EdInert, EdPage, Goes, Settled, UnchangedEnables
  <2> QED BY <1>3, <1>6, <2>1, ReturnKeeps DEF BusInv, BusTypes
<1> QED BY <1>1, <1>4, <1>5, <1>6 DEF Returns

\* An instruction with an operand, a pop or a push goes on as foreseen.
LEMMA FetchLongKeeps == ASSUME BusInv, FetchLong, Foreseen, UNCHANGED ends PROVE BusInv'
<1> USE DEF FetchLong, ends
<1>1. PICK code, next : code = ReadMem(ram, bus) /\ next = W16(bus + 1) OBVIOUS
<1>2. /\ op' = code /\ pc' = next /\ phase = "M1"
      /\ UNCHANGED <<iff1, iff2, im, i, halted, ei_pending, ram, databus>>
  BY <1>1
<1>3. /\ bus = pc /\ pc \in Word /\ ram \in Memory /\ ei_pending = FALSE /\ sp \in Word
      /\ next \in Word /\ word \in Word
  BY <1>1, Sums DEF BusInv, BusTypes
<1>4. code \notin IndexPrefixes =>
        IF op \in IndexPrefixes /\ code \in IndexedReads THEN Goes(W16(next + 1))
        ELSE Operated(code, next) /\ Stacked(code, next)
  BY <1>1, <1>2, <1>3, Foreknown DEF Fetched
<1>5. CASE /\ code \in {\h18, \h31, \hC3, \hCD} \cup TwoByte \cup ThreeByte \cup Displaced
           /\ phase' = "immLo" /\ bus' = pc'
           /\ UNCHANGED <<sp, word, after>>
  <2>1. code \notin IndexPrefixes
    BY <1>5, SMT DEF Displaced, IndexedReads, IndexPrefixes, TwoByte, ThreeByte
  <2>2. code \in IndexedReads => op \in IndexPrefixes
    <3>1. \A c \in {\h18, \h31, \hC3, \hCD} \cup TwoByte \cup ThreeByte : c \notin IndexedReads
      BY SMT DEF IndexedReads, TwoByte, ThreeByte
    <3> QED BY <1>5, <3>1 DEF Displaced
  <2>3. IF code \in IndexedReads THEN Goes(W16(next + 1)) ELSE Operated(code, next)
    BY <1>4, <2>1, <2>2
  <2>4. (bus = pc /\ IF op \in IndexedReads THEN Goes(W16(pc + 1)) ELSE Operated(op, pc))'
    BY <1>2, <1>5, <2>3 DEF Goes, Settled, Operated, Pushes
  <2>5. BusTypes' BY <1>2, <1>3, <1>5 DEF BusInv, BusTypes
  <2> QED BY <1>5, <2>4, <2>5 DEF BusInv, Foresight
<1>6. CASE /\ code \in {\hC9, \hC1, \hD1, \hE1, \hF1}
           /\ phase' = "popLo" /\ bus' = sp
           /\ UNCHANGED <<sp, word, after>>
  <2>1. code \notin IndexPrefixes /\ code \notin IndexedReads /\ code # \hED
    BY <1>6, SMT DEF IndexedReads, IndexPrefixes
  <2>2. /\ Settled /\ end_sp = W16(sp + 2) /\ end_ram = ram
        /\ end_pc = IF code = \hC9 THEN TopOfStack ELSE next
    BY <1>4, <1>6, <2>1 DEF Stacked
  <2>3. (bus = sp /\ Pops(W16(sp + 2), TopOfStack))'
    BY <1>2, <1>6, <2>1, <2>2 DEF Pops, Settled, TopOfStack
  <2>4. BusTypes' BY <1>2, <1>3, <1>6 DEF BusInv, BusTypes
  <2> QED BY <1>6, <2>3, <2>4 DEF BusInv, Foresight
<1>7. ASSUME code \in {\hC7, \hCF, \hD7, \hDF, \hE7, \hEF, \hF7, \hFF},
             StartPush(pc', code - \hC7)
      PROVE  BusInv'
  <2>1. code \notin IndexPrefixes /\ code \notin IndexedReads
    BY <1>7, SMT DEF IndexedReads, IndexPrefixes
  <2>2. Pushes(next, code - \hC7) BY <1>4, <1>7, <2>1 DEF Stacked
  <2>3. after' = code - \hC7 BY <1>7 DEF StartPush
  <2>4. code - \hC7 # ByMode /\ code - \hC7 # Nowhere BY <1>7, SMT DEF ByMode, Nowhere
  <2>5. Pushes(next, Leads') BY <2>2, <2>3, <2>4 DEF Leads
  <2>6. StartPush(next, code - \hC7) BY <1>2, <1>7
  <2>7. /\ (/\ Settled /\ bus = sp /\ end_sp = W16(sp - 1) /\ end_pc = Leads
            /\ end_ram = WriteMem(WriteMem(ram, sp, HiByte(word)), end_sp, LoByte(word)))'
        /\ sp' \in Word /\ bus' \in Word /\ word' \in Word /\ phase' = "pushHi"
    BY <1>2, <1>3, <2>5, <2>6, PushStarts
  <2>8. BusTypes' BY <1>2, <1>3, <2>7 DEF BusInv, BusTypes
  <2> QED BY <2>7, <2>8 DEF BusInv, Foresight
<1>8. ASSUME code \in {\hC5, \hD5, \hE5, \hF5}, NEW w \in RegPairs, StartPush(w, Nowhere)
      PROVE  BusInv'
  <2>1. code \notin IndexPrefixes /\ code \notin IndexedReads
    BY <1>8, SMT DEF IndexedReads, IndexPrefixes
  <2>2. PICK x \in RegPairs : Pushes(x, next) BY <1>4, <1>8, <2>1 DEF Stacked
  <2>3. after' = Nowhere /\ word' = w /\ w \in Word BY <1>8, HostAssumption DEF StartPush
  <2>4. end_ram = Pushed(ram, sp, w) BY <1>2, <2>3 DEF Foreseen
  <2>5. Leads' = next BY <1>2, <2>3, SMT DEF Leads, ByMode, Nowhere
  <2>6. Pushes(w, Leads') BY <2>2, <2>4, <2>5 DEF Pushes
  <2>7. /\ (/\ Settled /\ bus = sp /\ end_sp = W16(sp - 1) /\ end_pc = Leads
            /\ end_ram = WriteMem(WriteMem(ram, sp, HiByte(word)), end_sp, LoByte(word)))'
        /\ sp' \in Word /\ bus' \in Word /\ word' \in Word /\ phase' = "pushHi"
    BY <1>2, <1>8, <2>3, <2>6, PushStarts
  <2>8. BusTypes' BY <1>2, <1>3, <2>7 DEF BusInv, BusTypes
  <2> QED BY <2>7, <2>8 DEF BusInv, Foresight
<1> QED BY <1>1, <1>5, <1>6, <1>7, <1>8

\* The first operand byte completes the instruction or is kept in word.
LEMMA ImmLoKeeps == ASSUME BusInv, ImmLo, UNCHANGED ends PROVE BusInv'
<1> USE DEF ImmLo, ends
<1>1. /\ bus = pc
      /\ IF op \in IndexedReads THEN Goes(W16(pc + 1)) ELSE Operated(op, pc)
  BY DEF BusInv, Foresight
<1>2. pc \in Word /\ ram \in Memory BY DEF BusInv, BusTypes
<1>3. CASE op \in TwoByte \cup IndexedReads /\ pc' = W16(pc + 1) /\ Return
  <2>1. Goes(W16(pc + 1)) BY <1>1, <1>3 DEF Operated
  <2>2. Goes(pc)' BY <1>3, <2>1 DEF Goes, Settled
  <2> QED BY <1>2, <1>3, <2>2, Sums, ReturnKeeps DEF BusInv, BusTypes
<1>4. CASE op = \h18 /\ pc' = W16(pc + 1 + Signed(ReadMem(ram, bus))) /\ Return
  <2>1. op \notin IndexedReads BY <1>4, SMT DEF IndexedReads
  <2>2. Goes(pc') BY <1>1, <1>4, <2>1 DEF Operated
  <2>3. Goes(pc)' BY <2>2 DEF Goes, Settled
  <2>4. pc' \in Word
    <3>1. ReadMem(ram, bus) \in Byte BY <1>2, ReadType
    <3>2. Signed(ReadMem(ram, bus)) \in Int BY <3>1, ByteBounds, SMT DEF Signed
    <3>3. pc + 1 + Signed(ReadMem(ram, bus)) \in Int BY <1>2, <3>2, WordBounds, SMT
    <3> QED BY <1>4, <3>3, WordCast
  <2> QED BY <1>2, <1>4, <2>3, <2>4, ReturnKeeps DEF BusInv, BusTypes
<1>5. CASE /\ op \in {\h31, \hC3, \hCD} \cup ThreeByte
           /\ pc' = W16(pc + 1) /\ word' = ReadMem(ram, bus) /\ phase' = "immHi" /\ bus' = pc'
           /\ UNCHANGED <<op, after, databus>>
  <2>1. op \notin IndexedReads BY <1>5, SMT DEF IndexedReads, ThreeByte
  <2>2. Operated(op, pc) BY <1>1, <2>1
  <2>3. W16(pc' + 1) = W16(pc + 2) BY <1>2, <1>5, Sums
  <2>4. ReadWord(ram, pc) = Join(ReadMem(ram', pc'), word')
    BY <1>1, <1>5 DEF ReadWord
  <2>5. (/\ bus = pc
         /\ op \in ThreeByte => Goes(W16(pc + 1))
         /\ op = \hC3 => Goes(Join(ReadMem(ram, pc), word))
         /\ op = \hCD => Pushes(W16(pc + 1), Join(ReadMem(ram, pc), word))
         /\ op = \h31 => /\ Settled /\ end_sp = Join(ReadMem(ram, pc), word)
                         /\ end_ram = ram /\ end_pc = W16(pc + 1))'
    BY <1>5, <2>2, <2>3, <2>4 DEF Operated, Goes, Settled, Pushes
  <2>6. word' \in Byte /\ word' \in Word /\ pc' \in Word
    BY <1>2, <1>5, ReadType, Sums, ByteBounds, BoundsWord
  <2>7. BusTypes' BY <1>5, <2>6 DEF BusInv, BusTypes
  <2> QED BY <1>5, <2>5, <2>7 DEF BusInv, Foresight
<1> QED BY <1>3, <1>4, <1>5

\* The second completes the operand word.
LEMMA ImmHiKeeps == ASSUME BusInv, ImmHi, UNCHANGED ends PROVE BusInv'
<1> USE DEF ImmHi, ends
<1>1. PICK value : value = Join(ReadMem(ram, bus), word) OBVIOUS
<1>2. /\ bus = pc
      /\ op \in ThreeByte => Goes(W16(pc + 1))
      /\ op = \hC3 => Goes(value)
      /\ op = \hCD => Pushes(W16(pc + 1), value)
      /\ op = \h31 => /\ Settled /\ end_sp = value
                      /\ end_ram = ram /\ end_pc = W16(pc + 1)
  BY <1>1 DEF BusInv, Foresight
<1>3. /\ pc \in Word /\ ram \in Memory /\ word \in Byte /\ W16(pc + 1) \in Word
  BY Sums DEF BusInv, BusTypes
<1>4. value \in Word BY <1>1, <1>3, ReadType, JoinedWord
<1>5. CASE op = \h31 /\ sp' = value /\ pc' = W16(pc + 1) /\ Return
  <2>1. Goes(pc)' BY <1>2, <1>5 DEF Goes, Settled
  <2> QED BY <1>3, <1>4, <1>5, <2>1, ReturnKeeps DEF BusInv, BusTypes
<1>6. CASE op = \hC3 /\ pc' = value /\ Return /\ UNCHANGED sp
  <2>1. Goes(pc)' BY <1>2, <1>6 DEF Goes, Settled
  <2> QED BY <1>3, <1>4, <1>6, <2>1, ReturnKeeps DEF BusInv, BusTypes
<1>7. CASE op \in ThreeByte /\ pc' = W16(pc + 1) /\ Return /\ UNCHANGED sp
  <2>1. Goes(pc)' BY <1>2, <1>7 DEF Goes, Settled
  <2> QED BY <1>3, <1>7, <2>1, ReturnKeeps DEF BusInv, BusTypes
<1>8. CASE op = \hCD /\ pc' = W16(pc + 1) /\ StartPush(pc', value) /\ UNCHANGED <<op, databus>>
  <2>1. after' = value BY <1>8 DEF StartPush
  <2>2. value # ByMode /\ value # Nowhere BY <1>4, WordBounds, SMT DEF ByMode, Nowhere
  <2>3. Pushes(W16(pc + 1), Leads') BY <1>2, <1>8, <2>1, <2>2 DEF Leads
  <2>4. StartPush(W16(pc + 1), value) BY <1>8
  <2>5. /\ (/\ Settled /\ bus = sp /\ end_sp = W16(sp - 1) /\ end_pc = Leads
            /\ end_ram = WriteMem(WriteMem(ram, sp, HiByte(word)), end_sp, LoByte(word)))'
        /\ sp' \in Word /\ bus' \in Word /\ word' \in Word /\ phase' = "pushHi"
    BY <1>3, <2>3, <2>4, PushStarts
  <2>6. BusTypes' BY <1>3, <1>8, <2>5 DEF BusInv, BusTypes
  <2> QED BY <2>5, <2>6 DEF BusInv, Foresight
<1> QED BY <1>1, <1>5, <1>6, <1>7, <1>8

-----------------------------------------------------------------------------
(* The invariant holds always, and every step maps to a step of Z80Control.  *)

\* Every bus cycle keeps what the step will end with.
LEMMA CycleKeeps == ASSUME BusInv, RCycle PROVE BusInv'
BY PushHiKeeps, PushLoKeeps, PopLoKeeps, PopHiKeeps, AckKeeps, VectorLoKeeps,
   VectorHiKeeps, HaltM1Keeps, FetchPrefixKeeps, FetchSimpleKeeps, FetchLongKeeps,
   FetchEdKeeps, ImmLoKeeps, ImmHiKeeps
   DEF RCycle, Cycle

\* The inputs change none of it.
LEMMA LinesKeep == ASSUME BusInv, Lines \/ UNCHANGED bvars, UNCHANGED ends PROVE BusInv'
<1>1. UNCHANGED <<regs, ram, phase, locals, ends>>
  BY DEF Lines, SetNmiLine, SetIntLine, PulseIntLine, bvars, vars
<1>2. BusTypes' BY <1>1 DEF BusInv, BusTypes, regs, locals, ends
<1>3. Foresight'
  <2> USE <1>1 DEF regs, locals, ends
  <2>1. Settled' <=> Settled BY DEF Settled
  <2>2. TopOfStack' = TopOfStack /\ Vector' = Vector /\ Leads' = Leads
    BY DEF TopOfStack, Vector, Leads
  <2>3. /\ Goes(pc)' <=> Goes(pc)
        /\ Pushes(pc, \h66)' <=> Pushes(pc, \h66)
        /\ Pushes(pc, Vector)' <=> Pushes(pc, Vector)
        /\ Goes(ReadWord(ram, bus))' <=> Goes(ReadWord(ram, bus))
        /\ Goes(Join(ReadMem(ram, bus), word))' <=> Goes(Join(ReadMem(ram, bus), word))
    BY <2>1, <2>2 DEF Goes, Pushes
  <2>4. /\ Pops(W16(sp + 2), TopOfStack)' <=> Pops(W16(sp + 2), TopOfStack)
        /\ Pops(W16(sp + 1), Join(ReadMem(ram, bus), word))'
             <=> Pops(W16(sp + 1), Join(ReadMem(ram, bus), word))
    BY <2>2 DEF Pops
  <2>5. /\ EdPage(ReadMem(ram, pc), W16(pc + 1))' <=> EdPage(ReadMem(ram, pc), W16(pc + 1))
        /\ Operated(op, pc)' <=> Operated(op, pc)
        /\ Goes(W16(pc + 1))' <=> Goes(W16(pc + 1))
    BY <2>1, <2>2 DEF EdPage, Operated, Goes, Pushes
  <2>6. \A n \in 0 .. MaxPrefix :
          Behind(op \in IndexPrefixes, n)' <=> Behind(op \in IndexPrefixes, n)
    BY <2>1, <2>2
       DEF Behind, OpcodeBehind, Fetched, Operated, Stacked, Simple, EdPage, Goes, Pushes
  <2>7. (phase = "immHi" =>
           /\ bus = pc
           /\ op \in ThreeByte => Goes(W16(pc + 1))
           /\ op = \hC3 => Goes(Join(ReadMem(ram, pc), word))
           /\ op = \hCD => Pushes(W16(pc + 1), Join(ReadMem(ram, pc), word))
           /\ op = \h31 => /\ Settled /\ end_sp = Join(ReadMem(ram, pc), word)
                           /\ end_ram = ram /\ end_pc = W16(pc + 1))'
    BY <2>1 DEF BusInv, Foresight, Goes, Pushes
  <2>8. (/\ phase = "pushHi" =>
              /\ Settled /\ bus = sp /\ end_sp = W16(sp - 1) /\ end_pc = Leads
              /\ end_ram = WriteMem(WriteMem(ram, sp, HiByte(word)), end_sp, LoByte(word))
         /\ phase = "pushLo" =>
              /\ Settled /\ bus = sp /\ end_sp = sp /\ end_pc = Leads
              /\ end_ram = WriteMem(ram, sp, LoByte(word)))'
    BY <2>1, <2>2 DEF BusInv, Foresight
  <2> QED BY <2>3, <2>4, <2>5, <2>6, <2>7, <2>8 DEF BusInv, Foresight
<1> QED BY <1>2, <1>3 DEF BusInv

\* The greatest word is the same in both instances and here.
LEMMA SameMaxWord == Ended!MaxWord = MaxWord /\ Control!MaxWord = MaxWord
BY DEF MaxWord, Ended!MaxWord, Control!MaxWord

\* A reset or a snapshot sets the registers and the ends alike.
LEMMA ReplaceKeeps == ASSUME BusInv, RReplace PROVE BusInv'
<1>1. phase = "host" /\ UNCHANGED <<phase, locals>> BY DEF RReplace
<1>2. Goes(pc) BY <1>1, HostGoes
<1>3. Goes(pc)' /\ ram' = ram
  <2>1. Reset /\ Ended!Reset => Goes(pc)' /\ ram' = ram
    BY <1>2, SameMaxWord, Zenon DEF Reset, Ended!Reset, Goes, Settled
  <2>2. ASSUME NEW s \in Snapshots, LoadSnapshot(s), Ended!LoadSnapshot(s)
        PROVE  Goes(pc)' /\ ram' = ram
    BY <1>2, <2>2, Zenon DEF LoadSnapshot, Ended!LoadSnapshot, Goes, Settled
  <2> QED BY <2>1, <2>2 DEF RReplace
<1>4. pc' \in Word /\ sp' \in Word /\ im' \in 0 .. 2 /\ i' \in Byte
  <2>1. 0 \in Word /\ MaxWord \in Word /\ 0 \in 0 .. 2 /\ 0 \in Byte
    BY BoundsWord, BoundsByte, SMT DEF MaxWord
  <2>2. CASE Reset BY <2>1, <2>2 DEF Reset
  <2>3. ASSUME NEW s \in Snapshots, LoadSnapshot(s)
        PROVE  pc' \in Word /\ sp' \in Word /\ im' \in 0 .. 2 /\ i' \in Byte
    BY <2>3, SnapshotAssumption DEF LoadSnapshot
  <2> QED BY <2>2, <2>3 DEF RReplace
<1>5. BusTypes' BY <1>1, <1>3, <1>4 DEF BusInv, BusTypes, locals, Goes
<1> QED BY <1>1, <1>3, <1>5 DEF BusInv, Foresight

\* The invariant holds of a processor just constructed.
LEMMA BusInit == RInit => BusInv
<1> SUFFICES ASSUME RInit PROVE BusInv OBVIOUS
<1> USE DEF RInit, BInit, Init, Ended!Init
<1>1. 0 \in Word /\ MaxWord \in Word /\ 0 \in 0 .. 2 /\ 0 \in Byte /\ ram \in Memory
  BY BoundsWord, BoundsByte, HostAssumption, SMT DEF MaxWord, Memory
<1>2. Goes(pc) BY SameMaxWord, Zenon DEF Goes, Settled
<1>3. BusTypes BY <1>1, <1>2 DEF BusTypes, Goes
<1> QED BY <1>2, <1>3 DEF BusInv, Foresight

\* Every step keeps it.
LEMMA BusNext == BusInv /\ [RNext]_rvars => BusInv'
BY BeginKeeps, CycleKeeps, LinesKeep, ReplaceKeeps DEF RNext, rvars

\* A bus cycle is no step of Z80Control: the mapped registers keep the ends while
\* step() runs, and are the registers, which have become the ends, when it returns.
LEMMA CycleMapped == ASSUME BusInv, BusInv', RCycle PROVE UNCHANGED Control!vars
<1>1. phase # "host" /\ UNCHANGED ends /\ UNCHANGED lines
  BY DEF RCycle, Cycle, PushHi, PushLo, PopLo, PopHi, AckNmi, AckInt, VectorLo, VectorHi,
         HaltM1, FetchPrefix, FetchSimple, FetchLong, FetchEd, ImmLo, ImmHi, vars
<1>2. CASE phase' # "host"
  BY <1>1, <1>2 DEF At, ends, Control!vars, Control!regs, Control!lines, lines
<1>3. CASE phase' = "host"
  <2>1. Goes(pc)' BY <1>3 DEF BusInv, Foresight
  <2> QED
    BY <1>1, <1>3, <2>1
       DEF At, ends, Control!vars, Control!regs, Control!lines, lines, Goes, Settled
<1> QED BY <1>2, <1>3

\* The beginning of a step is the whole step of Z80Control.
LEMMA BeginMapped == ASSUME BusInv, RBegin PROVE Control!Step
<1>1. phase = "host" /\ phase' # "host"
  BY DEF RBegin, BeginNmi, BeginInt, BeginInstruction
<1>2. Starts BY <1>1, HostGoes DEF Starts
<1> QED BY <1>2, SameStep DEF RBegin

\* A processor just constructed is one of Z80Control.
LEMMA InitMapped == RInit => Control!Init
BY SameMaxWord, Zenon DEF RInit, BInit, Init, Control!Init, At

\* Every step is a step of Z80Control or leaves it as it is.
LEMMA NextMapped == BusInv /\ BusInv' /\ [RNext]_rvars => [Control!Next]_(Control!vars)
<1> SUFFICES ASSUME BusInv, BusInv', [RNext]_rvars
             PROVE  Control!Next \/ UNCHANGED Control!vars
  OBVIOUS
<1>1. CASE RBegin BY <1>1, BeginMapped DEF Control!Next
<1>2. CASE RCycle BY <1>2, CycleMapped
<1>3. CASE Lines /\ UNCHANGED ends BY <1>3, LinesMapped DEF BusInv, Control!Next
<1>4. CASE RReplace BY <1>4, ReplaceMapped DEF Control!Next
<1>5. CASE UNCHANGED rvars
  BY <1>5 DEF rvars, bvars, vars, regs, lines, ends, At, Control!vars, Control!regs,
              Control!lines
<1> QED BY <1>1, <1>2, <1>3, <1>4, <1>5 DEF RNext

\* However many bus cycles an instruction takes, and whatever the host does to the
\* inputs between them, step() behaves as one step made at the moment it was called.
THEOREM BusImplementsControl == RSpec => ImplementsControl
<1>1. RSpec => []BusInv BY BusInit, BusNext, PTL DEF RSpec
<1> QED BY <1>1, InitMapped, NextMapped, PTL DEF RSpec, ImplementsControl, Control!Spec

-----------------------------------------------------------------------------
(* A reset from inside a callback.                                           *)

\* After a reset in mid-step both enables stay off, unless the step is an EI
\* that has already come to its end.
StaysOff == fresh /\ (iff1 \/ iff2) => ei_pending /\ phase = "host"

\* While a step runs on after a reset, each of its bus cycles keeps the enables
\* off: RETN copies an IFF2 that is off, and EI is over with its one fetch.
LEMMA CycleStaysOff ==
    ASSUME StaysOff, Cycle, fresh' = fresh PROVE StaysOff'
<1> SUFFICES ASSUME fresh
             PROVE  (iff1' \/ iff2') => ei_pending' /\ phase' = "host"
  BY DEF StaysOff
<1>1. phase # "host"
  BY DEF Cycle, PushHi, PushLo, PopLo, PopHi, AckNmi, AckInt, VectorLo, VectorHi,
         HaltM1, FetchPrefix, FetchSimple, FetchLong, FetchEd, ImmLo, ImmHi
<1>2. ~iff1 /\ ~iff2
  BY <1>1 DEF StaysOff
<1>3. CASE iff1' = iff1 /\ iff2' = iff2
  BY <1>2, <1>3
<1>4. CASE PopHi
  BY <1>2, <1>4 DEF PopHi
<1>5. CASE FetchSimple
  <2>1. ASSUME NEW code, NEW next, Ei(code, next) PROVE ei_pending'
    BY <2>1 DEF Ei
  <2>2. ASSUME NEW code, NEW next, Di(code, next) PROVE ~iff1' /\ ~iff2'
    BY <2>2 DEF Di
  <2>3. ASSUME NEW code, NEW next, Inert(code, next) \/ Halt(code, next)
        PROVE  iff1' = iff1 /\ iff2' = iff2
    BY <2>3 DEF Inert, Halt, UnchangedEnables
  <2>4. phase' = "host"
    BY <1>5 DEF FetchSimple, Return
  <2> QED
    BY <1>2, <1>5, <2>1, <2>2, <2>3, <2>4 DEF FetchSimple
<1>6. CASE FetchEd
  BY <1>3, <1>6 DEF FetchEd, SetIm, EdInert, UnchangedEnables
<1>7. CASE \/ PushHi \/ PushLo \/ PopLo \/ AckNmi \/ AckInt \/ VectorHi
           \/ FetchPrefix \/ FetchLong \/ ImmLo \/ ImmHi
  BY <1>3, <1>7 DEF PushHi, PushLo, PopLo, AckNmi, AckInt, VectorHi,
                    FetchPrefix, FetchLong, ImmLo, ImmHi
<1>8. CASE VectorLo \/ HaltM1
  BY <1>3, <1>8 DEF VectorLo, HaltM1, vars, regs
<1> QED
  BY <1>4, <1>5, <1>6, <1>7, <1>8 DEF Cycle

\* Wherever in a step the host calls reset(), the step returns with INT off, a
\* fetched RETN with its suspended enable included; only the EI whose own fetch
\* it interrupts still ends with its shadow to come.
THEOREM ResetStaysSilent == WSpec => []ResetSilences
<1>1. WInit => StaysOff
  BY DEF WInit, BInit, Init, StaysOff
<1>2. ASSUME StaysOff, [WNext]_wvars PROVE StaysOff'
  <2>1. ASSUME Begin, fresh' = FALSE PROVE StaysOff'
    BY <2>1 DEF StaysOff
  <2>2. CASE Cycle /\ UNCHANGED fresh
    BY <1>2, <2>2, CycleStaysOff
  <2>3. CASE Lines /\ UNCHANGED fresh
    <3>1. UNCHANGED <<iff1, iff2, ei_pending, phase>>
      BY <2>3 DEF Lines, SetNmiLine, SetIntLine, PulseIntLine, regs
    <3> QED
      BY <1>2, <2>3, <3>1 DEF StaysOff
  <2>4. CASE ResetInside
    BY <2>4 DEF ResetInside, Reset, StaysOff
  <2>5. CASE UNCHANGED wvars
    BY <1>2, <2>5 DEF wvars, bvars, vars, regs, StaysOff
  <2> QED
    BY <1>2, <2>1, <2>2, <2>3, <2>4, <2>5 DEF WNext, WStep
<1>3. StaysOff => ResetSilences
  BY DEF StaysOff, ResetSilences
<1> QED
  BY <1>1, <1>2, <1>3, PTL DEF WSpec

=============================================================================
