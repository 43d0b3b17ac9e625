----------------------------- MODULE Z80Control -----------------------------
(***************************************************************************)
(* The control core of the Z80 at the grain of Z80::step(): one action per *)
(* path through step(), each standing for the whole call.  A path is the   *)
(* acceptance of an NMI, the acceptance of an INT, one NOP-like cycle of a  *)
(* halted processor, or one instruction.                                   *)
(*                                                                         *)
(* Kept exactly: the program counter and the stack pointer with their      *)
(* 16-bit wrap, the two interrupt enables, the interrupt mode, I, HALT,    *)
(* the EI shadow, the two interrupt inputs with their edge and pulse       *)
(* latches, and every byte written to or read from memory by control flow. *)
(* Abstracted: A, F and the other data registers (a conditional branch may *)
(* go either way, a push may store any pair of RegPairs), WZ, Q, R and the *)
(* cycle counters.  Instructions that only compute on data are the actions *)
(* Inert and EdInert; those that store to memory, or go where a register   *)
(* points, do so with any values of RegPairs.  Every opcode of every page  *)
(* has its action, so a ROM or a RAM image may hold any program.           *)
(***************************************************************************)
EXTENDS Z80Word

CONSTANTS
    Rom,        \* the bytes the host maps read-only: a function on addresses
    RamAddrs,   \* the addresses that take writes
    RamImages,  \* what RAM may hold when the processor is constructed
    OpenBus,    \* the byte read from an address nobody drives
    DataBus,    \* the bytes Bus::acknowledge_interrupt() may return
    RegPairs,   \* the values a data register pair may hold when it is used
    Snapshots,  \* the register states the host may load
    EdgeSP,     \* BOUND: the host raises NMI only while SP is one of these
    MaxPrefix   \* BOUND: the longest run of DD/FD bytes in the program

ASSUME HostAssumption ==
    /\ RamAddrs \subseteq Word /\ RamImages \subseteq [RamAddrs -> Byte]
    /\ DOMAIN Rom \subseteq Word /\ \A a \in DOMAIN Rom : Rom[a] \in Byte
    /\ OpenBus \in Byte /\ DataBus \subseteq Byte /\ RegPairs \subseteq Word
    /\ MaxPrefix \in Nat

\* What save_snapshot() can return, and so what a host may load back: a host
\* that edits IFF1 alone (zx_spectrum_host.cpp:85 does) leaves this set.  A
\* halted snapshot has its HALT in ROM, for RAM is restored by the host.
ASSUME SnapshotAssumption ==
    \A s \in Snapshots :
        /\ s \in [pc : Word, sp : Word, iff1 : BOOLEAN, iff2 : BOOLEAN, im : 0 .. 2,
                  i : Byte, halted : BOOLEAN, ei_pending : BOOLEAN,
                  nmi_line : BOOLEAN, nmi_pending : BOOLEAN,
                  int_line : BOOLEAN, int_pulse_pending : BOOLEAN]
        /\ s.iff1 => s.iff2
        /\ s.halted => s.pc \in DOMAIN Rom \ RamAddrs /\ Rom[s.pc] = \h76

VARIABLES
    pc, sp, iff1, iff2, im, i, halted, ei_pending,
    nmi_line, nmi_pending, int_line, int_pulse_pending,
    ram

regs  == <<pc, sp, iff1, iff2, im, i, halted, ei_pending>>
lines == <<nmi_line, nmi_pending, int_line, int_pulse_pending>>
vars  == <<regs, lines, ram>>

-----------------------------------------------------------------------------
(* Host memory: the ROM/RAM split of zx_spectrum_host.cpp and the open bus of
   megadrive_sound_z80_host.cpp.                                             *)

ReadMem(m, a) == IF a \in RamAddrs THEN m[a]
                 ELSE IF a \in DOMAIN Rom THEN Rom[a] ELSE OpenBus

WriteMem(m, a, v) == IF a \in RamAddrs THEN [m EXCEPT ![a] = v] ELSE m

ReadWord(m, a) == Join(ReadMem(m, W16(a + 1)), ReadMem(m, a))

StoreByte(a, v) == ram' = WriteMem(ram, a, v)
StoreWord(a, w) == ram' = WriteMem(WriteMem(ram, a, LoByte(w)), W16(a + 1), HiByte(w))

\* push16 writes the high byte first, and both writes wrap SP on their own.
Pushed(m, s, w) ==
    WriteMem(WriteMem(m, W16(s - 1), HiByte(w)), W16(s - 2), LoByte(w))

Push(w) == /\ sp' = W16(sp - 2)
           /\ ram' = Pushed(ram, sp, w)

\* pop16 moves SP past the word at the top of the stack.
TopOfStack == ReadWord(ram, sp)
Pop == sp' = W16(sp + 2) /\ UNCHANGED ram

-----------------------------------------------------------------------------
(* The inputs.  Each action is one call the host makes between two steps.    *)

\* MUTANT of SetNmiLine: the line is taken for a level.
SetNmiLevel(active) ==
    /\ active => sp \in EdgeSP
    /\ nmi_pending' = (nmi_pending \/ active)
    /\ nmi_line' = active
    /\ UNCHANGED <<regs, int_line, int_pulse_pending, ram>>

SetNmiLine(active) ==
    /\ active => sp \in EdgeSP
    /\ nmi_pending' = (nmi_pending \/ (active /\ ~nmi_line))
    /\ nmi_line' = active
    /\ UNCHANGED <<regs, int_line, int_pulse_pending, ram>>

SetIntLine(active) ==
    /\ int_line' = active
    /\ UNCHANGED <<regs, nmi_line, nmi_pending, int_pulse_pending, ram>>

PulseIntLine ==
    /\ int_pulse_pending' = TRUE
    /\ UNCHANGED <<regs, nmi_line, nmi_pending, int_line, ram>>

\* MUTANT of Reset: a halted processor stays halted.
ResetKeepsHalted ==
    /\ pc' = 0 /\ sp' = MaxWord /\ im' = 0 /\ i' = 0
    /\ iff1' = FALSE /\ iff2' = FALSE /\ ei_pending' = FALSE
    /\ nmi_pending' = FALSE /\ int_pulse_pending' = FALSE
    /\ UNCHANGED <<halted, nmi_line, int_line, ram>>

\* MUTANT of Reset: IFF1 alone is cleared.
ResetKeepsIff2 ==
    /\ pc' = 0 /\ sp' = MaxWord /\ im' = 0 /\ i' = 0
    /\ iff1' = FALSE /\ halted' = FALSE /\ ei_pending' = FALSE
    /\ nmi_pending' = FALSE /\ int_pulse_pending' = FALSE
    /\ UNCHANGED <<iff2, nmi_line, int_line, ram>>

\* reset() leaves the level of both input lines, and memory, as they are.
Reset ==
    /\ pc' = 0 /\ sp' = MaxWord /\ im' = 0 /\ i' = 0
    /\ iff1' = FALSE /\ iff2' = FALSE /\ halted' = FALSE /\ ei_pending' = FALSE
    /\ nmi_pending' = FALSE /\ int_pulse_pending' = FALSE
    /\ UNCHANGED <<nmi_line, int_line, ram>>

\* load_snapshot() overwrites every register and latch; memory is the host's.
LoadSnapshot(s) ==
    /\ pc' = s.pc /\ sp' = s.sp /\ im' = s.im /\ i' = s.i
    /\ iff1' = s.iff1 /\ iff2' = s.iff2
    /\ halted' = s.halted /\ ei_pending' = s.ei_pending
    /\ nmi_line' = s.nmi_line /\ nmi_pending' = s.nmi_pending
    /\ int_line' = s.int_line /\ int_pulse_pending' = s.int_pulse_pending
    /\ UNCHANGED ram

-----------------------------------------------------------------------------
(* step(), up to the fetch.                                                  *)

\* MUTANT of IntActive: the level is forgotten.
PulseActive == int_pulse_pending

\* MUTANT of IntActive: the pulse is forgotten.
LevelActive == int_line

IntActive == int_line \/ int_pulse_pending

\* MUTANT of TakesInt: the EI shadow is forgotten.
TakesIntAtOnce == ~nmi_pending /\ IntActive /\ iff1

\* MUTANT of TakesInt: the suspended enable is looked at too.
TakesIntOnIff2 == ~nmi_pending /\ IntActive /\ iff1 /\ iff2 /\ ~ei_pending

TakesInt  == ~nmi_pending /\ IntActive /\ iff1 /\ ~ei_pending

\* MUTANT of SpendPulse: a pulse acts as a level.
KeepPulse == UNCHANGED int_pulse_pending

\* A pulse lives until the first step that is not an NMI, taken or not.
SpendPulse == int_pulse_pending' = FALSE

\* MUTANT of ResumePc: the handler returns to the HALT.
ResumeHalt == pc

\* A halted processor sits on its HALT, so a handler returns behind it.
ResumePc == IF halted THEN W16(pc + 1) ELSE pc

\* MUTANT of ServiceNmi: IFF2 is cleared too, as handle_int does.
ServiceNmiAsInt ==
    /\ nmi_pending
    /\ nmi_pending' = FALSE
    /\ halted' = FALSE
    /\ iff1' = FALSE /\ iff2' = FALSE
    /\ Push(ResumePc)
    /\ pc' = \h66
    /\ UNCHANGED <<im, i, ei_pending, nmi_line, int_line, int_pulse_pending>>

\* handle_nmi: IFF2 keeps the enable, the EI shadow and any pulse stay.
ServiceNmi ==
    /\ nmi_pending
    /\ nmi_pending' = FALSE
    /\ halted' = FALSE
    /\ iff1' = FALSE
    /\ Push(ResumePc)
    /\ pc' = \h66
    /\ UNCHANGED <<iff2, im, i, ei_pending, nmi_line, int_line, int_pulse_pending>>

\* IM 0 runs the byte on the data bus, but only RST is known to the core.
RstTarget(d) == IF d \div 64 = 3 /\ d % 8 = 7 THEN d - \hC7 ELSE \h38

\* The IM 2 vector is read from the memory the push has already changed.
IntVector(d, m) ==
    CASE im = 0 -> RstTarget(d)
      [] im = 1 -> \h38
      [] im = 2 -> ReadWord(m, Join(i, d))
      [] OTHER  -> ResumePc

AcceptInt(d) ==
    /\ TakesInt
    /\ SpendPulse
    /\ halted' = FALSE
    /\ iff1' = FALSE /\ iff2' = FALSE
    /\ Push(ResumePc)
    /\ pc' = IntVector(d, ram')
    /\ UNCHANGED <<im, i, ei_pending, nmi_line, nmi_pending, int_line>>

\* What every step that accepts nothing does first.
NothingAccepted ==
    /\ ~nmi_pending
    /\ ~TakesInt
    /\ SpendPulse
    /\ UNCHANGED <<nmi_line, nmi_pending, int_line>>

HaltCycle ==
    /\ NothingAccepted
    /\ halted
    /\ ei_pending' = FALSE
    /\ UNCHANGED <<pc, sp, iff1, iff2, im, i, halted, ram>>

-----------------------------------------------------------------------------
(* Instructions.  op is the opcode byte and next the address behind it.      *)

UnchangedEnables == UNCHANGED <<iff1, iff2, im, i, halted>>

\* One-byte instructions that touch only abstracted registers or flags, or
\* read memory into one: NOP, rotates, INC/DEC, LD r,r', ALU A,r, EX, EXX, ...
OneByte == {\h00, \h03, \h04, \h05, \h07, \h08, \h09, \h0A, \h0B, \h0C, \h0D, \h0F,
            \h13, \h14, \h15, \h17, \h19, \h1A, \h1B, \h1C, \h1D, \h1F,
            \h23, \h24, \h25, \h27, \h29, \h2B, \h2C, \h2D, \h2F,
            \h37, \h39, \h3C, \h3D, \h3F, \hD9, \hEB}
           \cup (\h40 .. \h6F) \cup (\h78 .. \hBF)
\* With one immediate byte: LD r,n, ALU A,n, IN A,(n), OUT (n),A.
TwoByte == {\h06, \h0E, \h16, \h1E, \h26, \h2E, \h3E,
            \hC6, \hCE, \hD3, \hD6, \hDB, \hDE, \hE6, \hEE, \hF6, \hFE}
\* With an immediate word: LD rr,nn, LD HL,(nn), LD A,(nn).
ThreeByte == {\h01, \h11, \h21, \h2A, \h3A}

Inert(op, next) ==
    /\ \/ op \in OneByte   /\ pc' = next
       \/ op \in TwoByte   /\ pc' = W16(next + 1)
       \/ op \in ThreeByte /\ pc' = W16(next + 2)
    /\ ei_pending' = FALSE
    /\ UNCHANGED <<sp, ram>> /\ UnchangedEnables

\* MUTANT of Ei: no shadow.
EiAtOnce(op, next) ==
    /\ op = \hFB
    /\ iff1' = TRUE /\ iff2' = TRUE /\ ei_pending' = FALSE
    /\ pc' = next
    /\ UNCHANGED <<sp, im, i, halted, ram>>

\* MUTANT of Ei: IFF2 is left behind.
EiIff1Only(op, next) ==
    /\ op = \hFB
    /\ iff1' = TRUE /\ ei_pending' = TRUE
    /\ pc' = next
    /\ UNCHANGED <<sp, iff2, im, i, halted, ram>>

Ei(op, next) ==
    /\ op = \hFB
    /\ iff1' = TRUE /\ iff2' = TRUE /\ ei_pending' = TRUE
    /\ pc' = next
    /\ UNCHANGED <<sp, im, i, halted, ram>>

Di(op, next) ==
    /\ op = \hF3
    /\ iff1' = FALSE /\ iff2' = FALSE /\ ei_pending' = FALSE
    /\ pc' = next
    /\ UNCHANGED <<sp, im, i, halted, ram>>

\* MUTANT of Halt: PC goes back to the start of the instruction, prefixes too.
HaltOnPrefix(op, next) ==
    /\ op = \h76
    /\ halted' = TRUE
    /\ ei_pending' = FALSE
    /\ UNCHANGED <<pc, sp, iff1, iff2, im, i, ram>>

\* HALT leaves PC on its own opcode, whatever prefixes came before it.
Halt(op, next) ==
    /\ op = \h76
    /\ halted' = TRUE
    /\ pc' = W16(next - 1)
    /\ ei_pending' = FALSE
    /\ UNCHANGED <<sp, iff1, iff2, im, i, ram>>

\* JR, JR cc and DJNZ.
JumpRelative(op, next) ==
    /\ op \in {\h10, \h18, \h20, \h28, \h30, \h38}
    /\ \E taken \in IF op = \h18 THEN {TRUE} ELSE BOOLEAN :
          pc' = W16(next + 1 + IF taken THEN Signed(ReadMem(ram, next)) ELSE 0)
    /\ ei_pending' = FALSE
    /\ UNCHANGED <<sp, ram>> /\ UnchangedEnables

\* JP and JP cc.
Jump(op, next) ==
    /\ op \in {\hC3, \hC2, \hCA, \hD2, \hDA, \hE2, \hEA, \hF2, \hFA}
    /\ \E taken \in IF op = \hC3 THEN {TRUE} ELSE BOOLEAN :
          pc' = IF taken THEN ReadWord(ram, next) ELSE W16(next + 2)
    /\ ei_pending' = FALSE
    /\ UNCHANGED <<sp, ram>> /\ UnchangedEnables

\* CALL and CALL cc.
Call(op, next) ==
    /\ op \in {\hCD, \hC4, \hCC, \hD4, \hDC, \hE4, \hEC, \hF4, \hFC}
    /\ \E taken \in IF op = \hCD THEN {TRUE} ELSE BOOLEAN :
          IF taken THEN pc' = ReadWord(ram, next) /\ Push(W16(next + 2))
                   ELSE pc' = W16(next + 2) /\ UNCHANGED <<sp, ram>>
    /\ ei_pending' = FALSE
    /\ UnchangedEnables

\* RET and RET cc.
Ret(op, next) ==
    /\ op \in {\hC9, \hC0, \hC8, \hD0, \hD8, \hE0, \hE8, \hF0, \hF8}
    /\ \E taken \in IF op = \hC9 THEN {TRUE} ELSE BOOLEAN :
          IF taken THEN pc' = TopOfStack /\ Pop
                   ELSE pc' = next /\ UNCHANGED <<sp, ram>>
    /\ ei_pending' = FALSE
    /\ UnchangedEnables

Rst(op, next) ==
    /\ op \in {\hC7, \hCF, \hD7, \hDF, \hE7, \hEF, \hF7, \hFF}
    /\ pc' = op - \hC7
    /\ Push(next)
    /\ ei_pending' = FALSE
    /\ UnchangedEnables

PushPair(op, next) ==
    /\ op \in {\hC5, \hD5, \hE5, \hF5}
    /\ \E w \in RegPairs : Push(w)
    /\ pc' = next
    /\ ei_pending' = FALSE
    /\ UnchangedEnables

PopPair(op, next) ==
    /\ op \in {\hC1, \hD1, \hE1, \hF1}
    /\ Pop
    /\ pc' = next
    /\ ei_pending' = FALSE
    /\ UnchangedEnables

\* LD (rr),A, LD (HL),r, INC (HL), DEC (HL): a byte to where a pair points.
ByteStores == {\h02, \h12, \h34, \h35} \cup ((\h70 .. \h77) \ {\h76})

\* And LD (HL),n, LD (nn),A, LD (nn),HL and EX (SP),HL.
Store(op, next) ==
    /\ \E w \in RegPairs, a \in RegPairs :
          \/ op \in ByteStores /\ StoreByte(a, LoByte(w)) /\ pc' = next
          \/ op = \h36 /\ StoreByte(a, ReadMem(ram, next)) /\ pc' = W16(next + 1)
          \/ op = \h32 /\ StoreByte(ReadWord(ram, next), LoByte(w)) /\ pc' = W16(next + 2)
          \/ op = \h22 /\ StoreWord(ReadWord(ram, next), w) /\ pc' = W16(next + 2)
          \/ op = \hE3 /\ ram' = Pushed(ram, W16(sp + 2), w) /\ pc' = next
    /\ ei_pending' = FALSE
    /\ UNCHANGED sp /\ UnchangedEnables

\* JP (HL).
JumpRegister(op, next) ==
    /\ op = \hE9
    /\ pc' \in RegPairs
    /\ ei_pending' = FALSE
    /\ UNCHANGED <<sp, ram>> /\ UnchangedEnables

\* The CB page: rotates, shifts, BIT, RES and SET, on (HL) in column 6; only
\* BIT does not write.
ShiftOrBit(op, next) ==
    /\ op = \hCB
    /\ LET code == ReadMem(ram, next) IN
          IF code % 8 = 6 /\ code \div 64 # 1
          THEN \E w \in RegPairs, a \in RegPairs : StoreByte(a, LoByte(w))
          ELSE UNCHANGED ram
    /\ pc' = W16(next + 1)
    /\ ei_pending' = FALSE
    /\ UNCHANGED sp /\ UnchangedEnables

\* LD SP,nn, INC SP, DEC SP and LD SP,HL.
MoveSP(op, next) ==
    /\ \/ op = \h31 /\ sp' = ReadWord(ram, next) /\ pc' = W16(next + 2)
       \/ op = \h33 /\ sp' = W16(sp + 1) /\ pc' = next
       \/ op = \h3B /\ sp' = W16(sp - 1) /\ pc' = next
       \/ op = \hF9 /\ sp' \in RegPairs /\ pc' = next
    /\ ei_pending' = FALSE
    /\ UNCHANGED ram /\ UnchangedEnables

-----------------------------------------------------------------------------
(* The ED page: op is the byte behind the ED, next the address behind it.    *)

\* MUTANT of RetN: IFF1 stays as it is.
RetNAsRet(op, next) ==
    /\ op \in {\h45, \h4D, \h55, \h5D, \h65, \h6D, \h75, \h7D}
    /\ pc' = TopOfStack
    /\ Pop
    /\ ei_pending' = FALSE
    /\ UNCHANGED <<iff1, iff2, im, i, halted>>

\* RETN and RETI are one case in the code: both restore IFF1 from IFF2.
RetN(op, next) ==
    /\ op \in {\h45, \h4D, \h55, \h5D, \h65, \h6D, \h75, \h7D}
    /\ pc' = TopOfStack
    /\ Pop
    /\ iff1' = iff2
    /\ ei_pending' = FALSE
    /\ UNCHANGED <<iff2, im, i, halted>>

ImMode(op) == IF op \in {\h46, \h4E, \h66, \h6E} THEN 0
              ELSE IF op \in {\h56, \h76} THEN 1 ELSE 2

SetIm(op, next) ==
    /\ op \in {\h46, \h4E, \h56, \h5E, \h66, \h6E, \h76, \h7E}
    /\ im' = ImMode(op)
    /\ pc' = next
    /\ ei_pending' = FALSE
    /\ UNCHANGED <<sp, iff1, iff2, i, halted, ram>>

LdIA(op, next) ==
    /\ op = \h47
    /\ \E w \in RegPairs : i' = HiByte(w)
    /\ pc' = next
    /\ ei_pending' = FALSE
    /\ UNCHANGED <<sp, iff1, iff2, im, halted, ram>>

\* LD (nn),rr and LD rr,(nn); RRD and RLD.
WordStores == {\h43, \h53, \h63, \h73}
WordLoads  == {\h4B, \h5B, \h6B, \h7B}
DigitRotates == {\h67, \h6F}

EdMemory(op, next) ==
    /\ \/ /\ op \in WordStores /\ pc' = W16(next + 2)
          /\ \E w \in IF op = \h73 THEN {sp} ELSE RegPairs :
                StoreWord(ReadWord(ram, next), w)
       \/ op \in WordLoads /\ pc' = W16(next + 2) /\ UNCHANGED ram
       \/ /\ op \in DigitRotates /\ pc' = next
          /\ \E w \in RegPairs, a \in RegPairs : StoreByte(a, LoByte(w))
    /\ sp' = IF op = \h7B THEN ReadWord(ram, ReadWord(ram, next)) ELSE sp
    /\ ei_pending' = FALSE
    /\ UnchangedEnables

BlockRepeats == {\hB0, \hB1, \hB2, \hB3, \hB8, \hB9, \hBA, \hBB}
BlockOps     == BlockRepeats \cup {op - 16 : op \in BlockRepeats}

\* LDI and INI store a byte, CPI and OUTI none; a repeating one that is not done
\* goes back to its ED, so that interrupts are taken between two rounds.
Block(op, next) ==
    /\ op \in BlockOps
    /\ IF op % 2 = 0 THEN \E w \in RegPairs, a \in RegPairs : StoreByte(a, LoByte(w))
                     ELSE UNCHANGED ram
    /\ pc' = next \/ (op \in BlockRepeats /\ pc' = W16(next - 2))
    /\ ei_pending' = FALSE
    /\ UNCHANGED sp /\ UnchangedEnables

\* IN r,(C), OUT (C),r, SBC/ADC HL,rr, NEG, LD R,A, LD A,I, LD A,R, and the
\* unassigned codes, which do nothing.
EdInertOps ==
    Byte \ ({\h45, \h4D, \h55, \h5D, \h65, \h6D, \h75, \h7D,
             \h46, \h4E, \h56, \h5E, \h66, \h6E, \h76, \h7E, \h47}
            \cup WordStores \cup WordLoads \cup DigitRotates \cup BlockOps)

EdInert(op, next) ==
    /\ op \in EdInertOps
    /\ pc' = next
    /\ ei_pending' = FALSE
    /\ UNCHANGED <<sp, ram>> /\ UnchangedEnables

DispatchEd(op, next) ==
    \/ RetN(op, next)
    \/ SetIm(op, next)
    \/ LdIA(op, next)
    \/ EdMemory(op, next)
    \/ Block(op, next)
    \/ EdInert(op, next)

-----------------------------------------------------------------------------
(* DD and FD are consumed in a loop until another byte comes; an opcode the
   index page does not claim is then dispatched as if it stood alone.        *)

IndexPrefixes == {\hDD, \hFD}

\* LD r,(IX+d) and ALU A,(IX+d): behind a prefix, (HL) takes a displacement.
IndexedReads  == {op \in (\h40 .. \hBF) \ (\h70 .. \h77) : op % 8 = 6}
IndexedStores == ByteStores \ {\h02, \h12}

\* DD CB has its opcode behind the displacement, and writes back unless BIT.
Indexed(op, next) ==
    /\ \/ op \in IndexedReads /\ pc' = W16(next + 1) /\ UNCHANGED ram
       \/ /\ op \in IndexedStores /\ pc' = W16(next + 1)
          /\ \E w \in RegPairs, a \in RegPairs : StoreByte(a, LoByte(w))
       \/ /\ op = \h36 /\ pc' = W16(next + 2)
          /\ \E a \in RegPairs : StoreByte(a, ReadMem(ram, W16(next + 1)))
       \/ /\ op = \hCB /\ pc' = W16(next + 2)
          /\ IF ReadMem(ram, W16(next + 1)) \div 64 = 1 THEN UNCHANGED ram
             ELSE \E w \in RegPairs, a \in RegPairs : StoreByte(a, LoByte(w))
    /\ ei_pending' = FALSE
    /\ UNCHANGED sp /\ UnchangedEnables

OpcodeBehind(n) ==
    /\ \A k \in 0 .. n - 1 : ReadMem(ram, W16(pc + k)) \in IndexPrefixes
    /\ ReadMem(ram, W16(pc + n)) \notin IndexPrefixes

\* The opcode this step executes and the address behind it.
PrefixRun == CHOOSE n \in 0 .. MaxPrefix : OpcodeBehind(n)
Opcode    == ReadMem(ram, W16(pc + PrefixRun))
Operand   == W16(pc + PrefixRun + 1)

DispatchUnprefixed(op, next) ==
    \/ Inert(op, next) \/ Ei(op, next) \/ Di(op, next) \/ Halt(op, next)
    \/ JumpRelative(op, next) \/ Jump(op, next) \/ Call(op, next)
    \/ Ret(op, next) \/ Rst(op, next)
    \/ PushPair(op, next) \/ PopPair(op, next) \/ MoveSP(op, next)
    \/ Store(op, next) \/ JumpRegister(op, next) \/ ShiftOrBit(op, next)
    \/ op = \hED /\ DispatchEd(ReadMem(ram, next), W16(next + 1))

Execute ==
    /\ NothingAccepted
    /\ ~halted
    /\ \E n \in 0 .. MaxPrefix : OpcodeBehind(n)
    /\ IF PrefixRun > 0 /\ Opcode \in IndexedReads \cup IndexedStores \cup {\h36, \hCB}
       THEN Indexed(Opcode, Operand)
       ELSE DispatchUnprefixed(Opcode, Operand)

-----------------------------------------------------------------------------

Step ==
    \/ ServiceNmi
    \/ \E d \in DataBus : AcceptInt(d)
    \/ HaltCycle
    \/ Execute

Host ==
    \/ \E active \in BOOLEAN : SetNmiLine(active) \/ SetIntLine(active)
    \/ PulseIntLine
    \/ Reset
    \/ \E s \in Snapshots : LoadSnapshot(s)

Init ==
    /\ pc = 0 /\ sp = MaxWord /\ im = 0 /\ i = 0
    /\ iff1 = FALSE /\ iff2 = FALSE /\ halted = FALSE /\ ei_pending = FALSE
    /\ nmi_line = FALSE /\ nmi_pending = FALSE
    /\ int_line = FALSE /\ int_pulse_pending = FALSE
    /\ ram \in RamImages

Next == Step \/ Host

Spec == Init /\ [][Next]_vars

\* The host's loop (run_for, or a loop around step) never stops calling step.
FairSpec == Spec /\ WF_vars(Step)

-----------------------------------------------------------------------------

\* Every register, latch and memory cell keeps its width.
TypeOK ==
    /\ pc \in Word /\ sp \in Word /\ im \in 0 .. 2 /\ i \in Byte
    /\ iff1 \in BOOLEAN /\ iff2 \in BOOLEAN
    /\ halted \in BOOLEAN /\ ei_pending \in BOOLEAN
    /\ nmi_line \in BOOLEAN /\ nmi_pending \in BOOLEAN
    /\ int_line \in BOOLEAN /\ int_pulse_pending \in BOOLEAN
    /\ ram \in [RamAddrs -> Byte]

\* IFF1 never outlives IFF2: an NMI handler's RETN, which copies IFF2 to IFF1
\* (decode.cpp:1028), can therefore only give back an enable it suspended.
Iff1NeedsIff2 == iff1 => iff2

\* A halted processor always sits on a HALT opcode, even when HALT sat behind
\* prefixes, at the top of memory, or in RAM; this is what makes the PC + 1 of
\* handle_nmi and handle_int the address behind the HALT, and keeps a woken
\* processor from halting again at once.
HaltedOnHalt == halted => ReadMem(ram, pc) = \h76

=============================================================================
