---------------------------- MODULE Z80BusCycles ----------------------------
(***************************************************************************)
(* step() at the grain of its bus callbacks.  Z80::step() runs on one       *)
(* thread, but it hands control to the host at every bus cycle             *)
(* (Bus::on_m_cycle and the access that follows it), and the host may      *)
(* change the interrupt inputs from there.  phase names the bus cycle the  *)
(* processor is about to make ("host" between two steps); one action is    *)
(* the code from that callback's return to the next one.  op, bus, word,   *)
(* after and databus are the locals of the functions on the C++ stack: what *)
(* the code keeps there does not change when the host changes a register,  *)
(* and what it reads from a register again does.                           *)
(*                                                                         *)
(* A callback of an idle() cycle sees the same registers and inputs as the *)
(* one of the neighbouring bus cycle and is not a phase of its own.        *)
(* Modelled are the instructions that end with their fetch, the operand    *)
(* fetches, JR, JP, CALL, RET, RST, PUSH, POP, RETN, IM and LD SP,nn; the   *)
(* conditional forms, the stores, INC SP, DEC SP and LD I,A are in         *)
(* Z80Control only.                                                        *)
(***************************************************************************)
EXTENDS Z80Control

VARIABLES
    phase,    \* the bus cycle in progress
    op,       \* opcode being executed, or NoOp
    bus,      \* the address of the cycle in progress
    word,     \* the 16-bit value being pushed, or the low byte already read
    after,    \* where the push in progress leads: a PC, ByMode or Nowhere
    databus   \* the byte the host will drive when it is asked

locals == <<op, bus, word, after, databus>>
bvars  == <<vars, phase, locals>>

NoOp == -1
ByMode == -1    \* handle_int: IM decides after the push
Nowhere == -2   \* PUSH qq

Return ==
    phase' = "host" /\ op' = NoOp /\ bus' = 0 /\ word' = 0 /\ after' = 0 /\ databus' = 0

-----------------------------------------------------------------------------
(* The start of step(): what is decided before the first callback.           *)

BeginNmi ==
    /\ phase = "host"
    /\ nmi_pending
    /\ nmi_pending' = FALSE
    /\ pc' = ResumePc /\ halted' = FALSE
    /\ iff1' = FALSE
    /\ phase' = "nmiM1"
    /\ UNCHANGED <<sp, iff2, im, i, ei_pending, nmi_line, int_line,
                   int_pulse_pending, ram, locals>>

BeginInt(d) ==
    /\ phase = "host"
    /\ TakesInt
    /\ SpendPulse
    /\ pc' = ResumePc /\ halted' = FALSE
    /\ iff1' = FALSE /\ iff2' = FALSE
    /\ phase' = "intM1"
    /\ databus' = d
    /\ UNCHANGED <<sp, im, i, ei_pending, nmi_line, nmi_pending, int_line, ram,
                   op, bus, word, after>>

BeginInstruction ==
    /\ phase = "host"
    /\ NothingAccepted
    /\ ei_pending' = FALSE
    /\ phase' = IF halted THEN "haltM1" ELSE "M1"
    /\ bus' = pc
    /\ UNCHANGED <<pc, sp, iff1, iff2, im, i, halted, ram, op, word, after, databus>>

-----------------------------------------------------------------------------
(* push16 and pop16, one callback at a time.                                 *)

StartPush(w, target) ==
    /\ sp' = W16(sp - 1)
    /\ bus' = sp'
    /\ word' = w /\ after' = target
    /\ phase' = "pushHi"

PushHi ==
    /\ phase = "pushHi"
    /\ ram' = WriteMem(ram, bus, HiByte(word))
    /\ sp' = W16(sp - 1)
    /\ bus' = sp'
    /\ phase' = "pushLo"
    /\ UNCHANGED <<pc, iff1, iff2, im, i, halted, ei_pending, lines, op, word, after, databus>>

PushLo ==
    /\ phase = "pushLo"
    /\ ram' = WriteMem(ram, bus, LoByte(word))
    /\ \/ /\ after = ByMode /\ im = 2
          /\ bus' = Join(i, databus) /\ phase' = "vectorLo"
          /\ UNCHANGED <<pc, op, word, after, databus>>
       \/ /\ after = ByMode /\ im # 2
          /\ pc' = IF im = 0 THEN RstTarget(databus) ELSE \h38
          /\ Return
       \/ after \in Word /\ pc' = after /\ Return
       \/ after = Nowhere /\ UNCHANGED pc /\ Return
    /\ UNCHANGED <<sp, iff1, iff2, im, i, halted, ei_pending, lines>>

PopLo ==
    /\ phase = "popLo"
    /\ word' = ReadMem(ram, bus)
    /\ sp' = W16(sp + 1)
    /\ bus' = sp'
    /\ phase' = "popHi"
    /\ UNCHANGED <<pc, iff1, iff2, im, i, halted, ei_pending, lines, ram,
                   op, after, databus>>

\* RET, RETN and RETI go where they popped; POP qq only moves SP.
PopHi ==
    /\ phase = "popHi"
    /\ sp' = W16(sp + 1)
    /\ pc' = IF op = \hC9 \/ op = \hED THEN Join(ReadMem(ram, bus), word) ELSE pc
    /\ iff1' = IF op = \hED THEN iff2 ELSE iff1
    /\ Return
    /\ UNCHANGED <<iff2, im, i, halted, ei_pending, lines, ram>>

-----------------------------------------------------------------------------
(* The acknowledge cycles.                                                   *)

\* MUTANT of AckNmi: the edge is taken back only after the callback.
AckNmiLate ==
    /\ phase = "nmiM1"
    /\ nmi_pending' = FALSE
    /\ StartPush(pc, \h66)
    /\ UNCHANGED <<pc, iff1, iff2, im, i, halted, ei_pending, nmi_line, int_line,
                   int_pulse_pending, ram, op, databus>>

AckNmi ==
    /\ phase = "nmiM1"
    /\ StartPush(pc, \h66)
    /\ UNCHANGED <<pc, iff1, iff2, im, i, halted, ei_pending, lines, ram, op, databus>>

\* The data bus is read here, the mode after the push.
AckInt ==
    /\ phase = "intM1"
    /\ StartPush(pc, ByMode)
    /\ UNCHANGED <<pc, iff1, iff2, im, i, halted, ei_pending, lines, ram, op, databus>>

VectorLo ==
    /\ phase = "vectorLo"
    /\ word' = ReadMem(ram, bus)
    /\ bus' = W16(bus + 1)
    /\ phase' = "vectorHi"
    /\ UNCHANGED <<vars, op, after, databus>>

VectorHi ==
    /\ phase = "vectorHi"
    /\ pc' = Join(ReadMem(ram, bus), word)
    /\ Return
    /\ UNCHANGED <<sp, iff1, iff2, im, i, halted, ei_pending, lines, ram>>

HaltM1 ==
    /\ phase = "haltM1"
    /\ Return
    /\ UNCHANGED vars

-----------------------------------------------------------------------------
(* Instruction fetch and the operand cycles.                                 *)

\* MUTANT of FetchPrefix: PC stays on the prefix.
FetchPrefixAgain ==
    /\ phase = "M1"
    /\ ReadMem(ram, bus) \in IndexPrefixes \cup {\hED}
    /\ phase' = IF ReadMem(ram, bus) = \hED THEN "edM1" ELSE "M1"
    /\ op' = ReadMem(ram, bus)
    /\ UNCHANGED <<vars, bus, word, after, databus>>

\* The loop of dispatch_index is this action taken again, with no bound.
FetchPrefix ==
    /\ phase = "M1"
    /\ ReadMem(ram, bus) \in IndexPrefixes \cup {\hED}
    /\ pc' = W16(bus + 1) /\ bus' = pc'
    /\ phase' = IF ReadMem(ram, bus) = \hED THEN "edM1" ELSE "M1"
    /\ op' = ReadMem(ram, bus)
    /\ UNCHANGED <<sp, iff1, iff2, im, i, halted, ei_pending, lines, ram,
                   word, after, databus>>

\* (IX+d) forms, which only a prefix gives.
Displaced == IF op \in IndexPrefixes THEN IndexedReads ELSE {}

\* Instructions that end with their opcode fetch.
FetchSimple ==
    /\ phase = "M1"
    /\ LET code == ReadMem(ram, bus) IN
         /\ \/ code \in OneByte \ Displaced /\ Inert(code, W16(bus + 1))
            \/ Ei(code, W16(bus + 1))
            \/ Di(code, W16(bus + 1))
            \/ Halt(code, W16(bus + 1))
         /\ UNCHANGED lines
    /\ Return

\* Instructions that go on to read an operand or the stack, or to push.
FetchLong ==
    /\ phase = "M1"
    /\ LET code == ReadMem(ram, bus) IN
         /\ op' = code
         /\ pc' = W16(bus + 1)
         /\ \/ /\ code \in {\h18, \h31, \hC3, \hCD} \cup TwoByte \cup ThreeByte \cup Displaced
               /\ phase' = "immLo" /\ bus' = pc'
               /\ UNCHANGED <<sp, word, after>>
            \/ /\ code \in {\hC9, \hC1, \hD1, \hE1, \hF1}
               /\ phase' = "popLo" /\ bus' = sp
               /\ UNCHANGED <<sp, word, after>>
            \/ /\ code \in {\hC7, \hCF, \hD7, \hDF, \hE7, \hEF, \hF7, \hFF}
               /\ StartPush(pc', code - \hC7)
            \/ /\ code \in {\hC5, \hD5, \hE5, \hF5}
               /\ \E w \in RegPairs : StartPush(w, Nowhere)
    /\ UNCHANGED <<iff1, iff2, im, i, halted, ei_pending, lines, ram, databus>>

FetchEd ==
    /\ phase = "edM1"
    /\ LET code == ReadMem(ram, bus) IN
         \/ /\ code \in {\h45, \h4D, \h55, \h5D, \h65, \h6D, \h75, \h7D}
            /\ op' = \hED /\ pc' = W16(bus + 1)
            /\ phase' = "popLo" /\ bus' = sp
            /\ UNCHANGED <<sp, iff1, iff2, im, i, halted, ei_pending, ram,
                           word, after, databus>>
         \/ SetIm(code, W16(bus + 1)) /\ Return
         \/ EdInert(code, W16(bus + 1)) /\ Return
    /\ UNCHANGED lines

ImmLo ==
    /\ phase = "immLo"
    /\ LET byte == ReadMem(ram, bus) IN
         \/ /\ op \in TwoByte \cup IndexedReads
            /\ pc' = W16(pc + 1) /\ Return
         \/ /\ op = \h18
            /\ pc' = W16(pc + 1 + Signed(byte)) /\ Return
         \/ /\ op \in {\h31, \hC3, \hCD} \cup ThreeByte
            /\ pc' = W16(pc + 1) /\ word' = byte /\ phase' = "immHi" /\ bus' = pc'
            /\ UNCHANGED <<op, after, databus>>
    /\ UNCHANGED <<sp, iff1, iff2, im, i, halted, ei_pending, lines, ram>>

ImmHi ==
    /\ phase = "immHi"
    /\ LET value == Join(ReadMem(ram, bus), word) IN
         \/ op = \h31 /\ sp' = value /\ pc' = W16(pc + 1) /\ Return
         \/ op = \hC3 /\ pc' = value /\ Return /\ UNCHANGED sp
         \/ op \in ThreeByte /\ pc' = W16(pc + 1) /\ Return /\ UNCHANGED sp
         \/ /\ op = \hCD
            /\ pc' = W16(pc + 1) /\ StartPush(pc', value)
            /\ UNCHANGED <<op, databus>>
    /\ UNCHANGED <<iff1, iff2, im, i, halted, ei_pending, lines, ram>>

-----------------------------------------------------------------------------

Begin == BeginNmi \/ (\E d \in DataBus : BeginInt(d)) \/ BeginInstruction

Cycle ==
    \/ PushHi \/ PushLo \/ PopLo \/ PopHi
    \/ AckNmi \/ AckInt \/ VectorLo \/ VectorHi \/ HaltM1
    \/ FetchPrefix \/ FetchSimple \/ FetchLong \/ FetchEd \/ ImmLo \/ ImmHi

\* Calls the host makes between two steps and from inside any callback.
Lines ==
    /\ \/ \E active \in BOOLEAN : SetNmiLine(active) \/ SetIntLine(active)
       \/ PulseIntLine
    /\ UNCHANGED <<phase, locals>>

\* Calls that replace the registers are made between steps only.
Replace ==
    /\ phase = "host"
    /\ Reset \/ \E s \in Snapshots : LoadSnapshot(s)
    /\ UNCHANGED <<phase, locals>>

BInit ==
    /\ Init
    /\ phase = "host" /\ op = NoOp /\ bus = 0 /\ word = 0 /\ after = 0 /\ databus = 0

BNext == Begin \/ Cycle \/ Lines \/ Replace


-----------------------------------------------------------------------------

\* step() comes back to its caller: every call ends after finitely many bus
\* cycles, whatever the host does in the callbacks (z80.hpp:23, "Execute one
\* instruction. Returns the exact number of T-states consumed").
StepReturns == phase # "host" ~> phase = "host"

\* A step that returns has executed an instruction or a HALT cycle, after any
\* acknowledge it did (z80.hpp:23-24, "Execute one instruction ... including
\* any pending interrupt acknowledge that completed first").
StepExecutes ==
    [][ phase # "host" /\ phase' = "host"
          => phase \in {"M1", "haltM1"} \/ op # NoOp ]_bvars

=============================================================================
