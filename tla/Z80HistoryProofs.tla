-------------------------- MODULE Z80HistoryProofs --------------------------
(***************************************************************************)
(* Proofs about Z80ControlHistory for every program, memory map, host and  *)
(* snapshot, without any bound.  For all of them: the EI shadow, and that  *)
(* no interrupt is taken that the host did not ask for.  For the programs  *)
(* that do their part, which an action says step by step (KeepsStack,      *)
(* NmiLeftByRetN, IntLeftBehindEi): the stack, the enables across NMIs,    *)
(* and that INTs do not nest.                                              *)
(***************************************************************************)
EXTENDS Z80ControlHistory, Z80ControlProofs, SequenceTheorems

-----------------------------------------------------------------------------
(* The inductive invariant: what the latches of the code know of the past.   *)

\* The shadow is there exactly behind an EI that no instruction has followed.
EiRemembered == ei_pending <=> did = "ei"

\* The pulse that is latched is the one the host made and no step has met.
PulseRemembered == int_pulse_pending <=> pulsed

\* The edge that is outstanding is the one the host's calls made.
EdgeRemembered == (nmi_pending <=> risen) /\ nmi_line = level

HistoryInv == EiRemembered /\ PulseRemembered /\ EdgeRemembered

-----------------------------------------------------------------------------

\* Behind any prefixes, the one action for the opcode FB is EI.
LEMMA EiExecuted == ASSUME Execute, Opcode = \hFB PROVE ei_pending' = TRUE
<1>1. Opcode \notin IndexedReads \cup IndexedStores \cup {\h36, \hCB}
  BY SMT DEF IndexedReads, IndexedStores, ByteStores
<1>2. DispatchUnprefixed(Opcode, Operand)
  BY <1>1 DEF Execute
<1>3. ~Inert(Opcode, Operand)
  BY SMT DEF Inert, OneByte, TwoByte, ThreeByte
<1>4. ~Di(Opcode, Operand) /\ ~Halt(Opcode, Operand)
  BY SMT DEF Di, Halt
<1>5. /\ ~JumpRelative(Opcode, Operand) /\ ~Jump(Opcode, Operand)
      /\ ~Call(Opcode, Operand) /\ ~Ret(Opcode, Operand) /\ ~Rst(Opcode, Operand)
      /\ ~JumpRegister(Opcode, Operand)
  BY SMT DEF JumpRelative, Jump, Call, Ret, Rst, JumpRegister
<1>6. /\ ~PushPair(Opcode, Operand) /\ ~PopPair(Opcode, Operand)
      /\ ~MoveSP(Opcode, Operand) /\ ~Store(Opcode, Operand)
      /\ ~ShiftOrBit(Opcode, Operand)
  BY SMT DEF PushPair, PopPair, MoveSP, Store, ByteStores, ShiftOrBit
<1>7. Opcode # \hED
  BY SMT
<1>8. Ei(Opcode, Operand)
  BY <1>2, <1>3, <1>4, <1>5, <1>6, <1>7 DEF DispatchUnprefixed
<1> QED
  BY <1>8 DEF Ei

\* Every other opcode ends the shadow, whatever page it is on.
LEMMA OthersEndShadow == ASSUME Execute, Opcode # \hFB PROVE ei_pending' = FALSE
<1>1. CASE Indexed(Opcode, Operand)
  BY <1>1 DEF Indexed
<1>2. CASE DispatchUnprefixed(Opcode, Operand)
  <2>1. ~Ei(Opcode, Operand)
    BY DEF Ei
  <2> QED
    BY <1>2, <2>1
    DEF DispatchUnprefixed, DispatchEd, Inert, Di, Halt, JumpRelative, Jump,
        Call, Ret, Rst, PushPair, PopPair, MoveSP, Store, JumpRegister,
        ShiftOrBit, RetN, SetIm, LdIA, EdMemory, Block, EdInert
<1> QED
  BY <1>1, <1>2 DEF Execute

\* The invariant holds when the processor is made.
LEMMA HistoryInit == HInit => HistoryInv
BY DEF HInit, Init, HistoryInv, EiRemembered, PulseRemembered, EdgeRemembered

\* No call of the host breaks it: it is recorded as the code latches it.
LEMMA HostKeepsHistory == ASSUME HistoryInv, HHost PROVE HistoryInv'
<1> USE DEF HistoryInv, EiRemembered, PulseRemembered, EdgeRemembered
<1>1. ASSUME NEW active \in BOOLEAN, HNmiLine(active) PROVE HistoryInv'
  <2>1. UNCHANGED <<ei_pending, int_pulse_pending, did, pulsed>>
    BY <1>1 DEF HNmiLine, SetNmiLine, regs
  <2>2. nmi_line' = level'
    BY <1>1 DEF HNmiLine, SetNmiLine
  <2>3. risen' <=> risen \/ (active /\ ~level)
    BY <1>1 DEF HNmiLine
  <2>4. nmi_pending' <=> nmi_pending \/ (active /\ ~nmi_line)
    BY <1>1 DEF HNmiLine, SetNmiLine
  <2> QED
    BY <2>1, <2>2, <2>3, <2>4
<1>2. ASSUME NEW active \in BOOLEAN, HIntLine(active) PROVE HistoryInv'
  BY <1>2 DEF HIntLine, SetIntLine, regs, history, asked
<1>3. CASE HPulse
  BY <1>3 DEF HPulse, PulseIntLine, regs
<1>4. CASE HReset
  BY <1>4 DEF HReset, Reset
<1>5. CASE HLoad
  BY <1>5 DEF HLoad, LoadSnapshot
<1> QED
  BY <1>1, <1>2, <1>3, <1>4, <1>5 DEF HHost, HLines

\* No step breaks it: an NMI spends the edge and leaves pulse and shadow, every
\* other step spends the pulse, and only EI makes a shadow.
LEMMA StepKeepsHistory == ASSUME HistoryInv, HStep PROVE HistoryInv'
<1> USE DEF HistoryInv, EiRemembered, PulseRemembered, EdgeRemembered
<1>1. CASE HNmi
  BY <1>1 DEF HNmi, ServiceNmi
<1>2. CASE HInt
  BY <1>2 DEF HInt, AcceptInt, TakesInt, SpendPulse
<1>3. CASE HHalt
  BY <1>3 DEF HHalt, HaltCycle, NothingAccepted, SpendPulse
<1>4. CASE HExecute
  <2>1. /\ int_pulse_pending' = FALSE /\ pulsed' = FALSE
        /\ UNCHANGED <<nmi_line, nmi_pending, level, risen>>
    BY <1>4 DEF HExecute, Execute, NothingAccepted, SpendPulse
  <2>2. did' = "ei" <=> Opcode = \hFB
    BY <1>4 DEF HExecute
  <2>3. EiRemembered'
    BY <1>4, <2>2, EiExecuted, OthersEndShadow DEF HExecute
  <2> QED
    BY <2>1, <2>3
<1> QED
  BY <1>1, <1>2, <1>3, <1>4 DEF HStep

LEMMA HistoryNext == ASSUME HistoryInv, [HNext]_hvars PROVE HistoryInv'
<1>1. CASE HNext
  BY <1>1, HostKeepsHistory, StepKeepsHistory DEF HNext
<1>2. CASE UNCHANGED hvars
  BY <1>2 DEF hvars, vars, regs, lines, history, asked, HistoryInv,
              EiRemembered, PulseRemembered, EdgeRemembered
<1> QED
  BY <1>1, <1>2

-----------------------------------------------------------------------------

\* For every program and host, the step behind an EI accepts no INT, nor does
\* any NMI service between the EI and the next instruction end that protection
\* (z80.cpp:218).
THEOREM ShadowHolds == HSpec => EiShadow
<1>1. HistoryInv => (HInt => did # "ei")
  BY DEF HistoryInv, EiRemembered, HInt, AcceptInt, TakesInt
<1>2. HistoryInv /\ [HNext]_hvars => HistoryInv'
  BY HistoryNext
<1> QED
  BY <1>1, <1>2, HistoryInit, PTL DEF HSpec, EiShadow

\* For every program and host, an INT is taken only with the line high or for a
\* pulse of the host that no INT, HALT cycle or instruction has met; and with
\* IFF1 on no HALT cycle and no instruction is run in front of either, but the
\* one behind an EI: nothing is taken twice, lingers or is lost (z80.cpp:218-228).
THEOREM IntsAreAnswered == HSpec => IntAsAsked
<1>1. HistoryInv => (HInt => int_line \/ pulsed)
  BY DEF HistoryInv, PulseRemembered, HInt, AcceptInt, TakesInt, IntActive
<1>2. ASSUME HistoryInv, iff1, int_line \/ pulsed, did # "ei"
      PROVE  ~HHalt /\ ~HExecute
  <2>1. IntActive /\ ~ei_pending
    BY <1>2 DEF HistoryInv, PulseRemembered, EiRemembered, IntActive
  <2>2. ~NothingAccepted
    BY <1>2, <2>1 DEF NothingAccepted, TakesInt
  <2> QED
    BY <2>2 DEF HHalt, HaltCycle, HExecute, Execute
<1>3. HistoryInv => IF int_line \/ pulsed THEN iff1 /\ did # "ei" => ~HHalt /\ ~HExecute
                                          ELSE ~HInt
  BY <1>1, <1>2
<1>4. HistoryInv /\ [HNext]_hvars => HistoryInv'
  BY HistoryNext
<1> QED
  BY <1>3, <1>4, HistoryInit, PTL DEF HSpec, IntAsAsked

\* For every program and host, an NMI is taken exactly when the host has raised
\* the line since the last one, reset or snapshot, and by the very next step
\* (z80.cpp:123-128 and 142).
THEOREM EdgesAreNew == HSpec => NmiOncePerEdge
<1>1. HistoryInv => IF risen THEN ~HInt /\ ~HHalt /\ ~HExecute ELSE ~HNmi
  <2>1. HistoryInv => (HNmi => risen)
    BY DEF HistoryInv, EdgeRemembered, HNmi, ServiceNmi
  <2>2. HistoryInv => (HInt => ~risen)
    BY DEF HistoryInv, EdgeRemembered, HInt, AcceptInt, TakesInt
  <2>3. HistoryInv => (HHalt \/ HExecute => ~risen)
    BY DEF HistoryInv, EdgeRemembered, HHalt, HaltCycle, HExecute, Execute, NothingAccepted
  <2> QED
    BY <2>1, <2>2, <2>3
<1>2. HistoryInv /\ [HNext]_hvars => HistoryInv'
  BY HistoryNext
<1> QED
  BY <1>1, <1>2, HistoryInit, PTL DEF HSpec, NmiOncePerEdge

-----------------------------------------------------------------------------
(* The history is a step of the control core, and frames are a sequence.     *)

\* A step with history is a step without.
LEMMA CoreStep == ASSUME [HNext]_hvars PROVE [Next]_vars
<1>1. CASE HStep
  BY <1>1 DEF HStep, HNmi, HInt, HHalt, HExecute, Next, Step
<1>2. CASE HHost
  BY <1>2 DEF HHost, HLines, HPulse, HNmiLine, HIntLine, HReset, HLoad, Next, Host
<1>3. CASE UNCHANGED hvars
  BY <1>3 DEF hvars
<1> QED
  BY <1>1, <1>2, <1>3 DEF HNext

\* What a frame is made of.
Frames == [kind : Kinds, word : Word, on : BOOLEAN, touched : BOOLEAN]

FramesOK == frames \in Seq(Frames)

\* Marking frames as touched changes nothing else about them.
LEMMA TouchedFrames ==
    ASSUME NEW fs \in Seq(Frames)
    PROVE  /\ Touched(fs) \in Seq(Frames)
           /\ Len(Touched(fs)) = Len(fs) /\ DOMAIN Touched(fs) = DOMAIN fs
           /\ \A k \in DOMAIN fs :
                 /\ Touched(fs)[k].kind = fs[k].kind
                 /\ Touched(fs)[k].word = fs[k].word
                 /\ Touched(fs)[k].touched
<1>1. DOMAIN fs = 1 .. Len(fs) /\ Len(fs) \in Nat /\ \A k \in DOMAIN fs : fs[k] \in Frames
  BY ElementOfSeq, LenProperties
<1>2. \A k \in DOMAIN fs : [fs[k] EXCEPT !.touched = TRUE] \in Frames
  BY <1>1, Zenon DEF Frames
<1>3. Touched(fs) = [k \in 1 .. Len(fs) |-> [fs[k] EXCEPT !.touched = TRUE]]
  BY <1>1 DEF Touched
<1>4. Touched(fs) \in Seq(Frames) /\ Len(Touched(fs)) = Len(fs)
  BY <1>1, <1>2, <1>3, IsASeq, LenProperties
<1>5. \A k \in DOMAIN fs : Touched(fs)[k] = [fs[k] EXCEPT !.touched = TRUE]
  BY <1>1, <1>3
<1>6. ASSUME NEW k \in DOMAIN fs
      PROVE  /\ Touched(fs)[k].kind = fs[k].kind
             /\ Touched(fs)[k].word = fs[k].word
             /\ Touched(fs)[k].touched
  BY <1>1, <1>5 DEF Frames
<1> QED
  BY <1>1, <1>3, <1>4, <1>6

\* Taking the newest frame off leaves the others where they are.
LEMMA FrontFrames ==
    ASSUME NEW fs \in Seq(Frames), fs # <<>>
    PROVE  /\ Front(fs) \in Seq(Frames) /\ Len(Front(fs)) = Len(fs) - 1
           /\ \A k \in DOMAIN Front(fs) : k \in DOMAIN fs /\ Front(fs)[k] = fs[k]
<1>1. Len(fs) \in Nat /\ DOMAIN fs = 1 .. Len(fs) /\ Len(fs) # 0
  BY LenProperties, EmptySeq
<1>2. /\ Front(fs) \in Seq(Frames) /\ Len(Front(fs)) = Len(fs) - 1
      /\ \A k \in 1 .. Len(fs) - 1 : Front(fs)[k] = fs[k]
  BY <1>1, SubSeqProperties, SMT DEF Front
<1> QED
  BY <1>1, <1>2, LenProperties, SMT

\* The frames a CALL, RST, PUSH or an interrupt adds are of the right type.
LEMMA NewFrame ==
    ASSUME TypeOK, NEW kind \in Kinds, NEW w \in Word PROVE Frame(kind, w) \in Frames
BY DEF TypeOK, Frame, Frames

\* The frame an instruction adds is of the right type.
LEMMA PushedFrameType == ASSUME TypeOK, Execute PROVE PushedFrame \in Frames
<1>1. TypeOK'
  BY NextType DEF Next, Step
<1>2. Operand \in Word /\ Operand + 2 \in Int /\ ram' \in Memory
  BY <1>1, FetchedType, WordBounds, SMT DEF TypeOK, Memory
<1>3. /\ ReadWord(ram', sp') \in Word /\ Operand \in Word
      /\ W16(Operand + 2) \in Word
  BY <1>2, ReadWordType, WordCast
<1>4. "data" \in Kinds /\ "code" \in Kinds
  BY DEF Kinds
<1>5. /\ Frame("data", ReadWord(ram', sp')) \in Frames
      /\ Frame("code", Operand) \in Frames
      /\ Frame("code", W16(Operand + 2)) \in Frames
  BY <1>3, <1>4, NewFrame
<1> QED
  BY <1>5, Zenon DEF PushedFrame

\* An instruction leaves the frames alone, forgets them, adds one or pops one.
LEMMA StackAfterForms ==
    \/ StackAfter = frames \/ StackAfter = <<>>
    \/ StackAfter = Append(frames, PushedFrame)
    \/ StackAfter = Front(frames) /\ frames # <<>>
<1> DEFINE moved == Opcode \in {\h31, \h33, \h3B}
           pushed == sp' = W16(sp - 2)
<1>1. CASE sp' # sp /\ ~moved /\ ~pushed /\ frames # <<>>
  BY <1>1 DEF StackAfter
<1>2. CASE sp' = sp \/ moved \/ pushed \/ frames = <<>>
  BY <1>2 DEF StackAfter
<1> QED
  BY <1>1, <1>2

\* What a step makes of the frames, for an instruction.
LEMMA FramesAfter ==
    ASSUME TypeOK, FramesOK, HExecute
    PROVE  /\ StackAfter \in Seq(Frames)
           /\ frames' = StackAfter \/ frames' = Touched(StackAfter)
<1>1. PushedFrame \in Frames
  BY PushedFrameType DEF HExecute
<1>2. Append(frames, PushedFrame) \in Seq(Frames) /\ <<>> \in Seq(Frames)
  BY <1>1, AppendProperties, EmptySeq DEF FramesOK
<1>3. frames # <<>> => Front(frames) \in Seq(Frames)
  BY FrontFrames DEF FramesOK
<1>4. StackAfter \in Seq(Frames)
  BY <1>2, <1>3, StackAfterForms DEF FramesOK
<1>5. frames' = StackAfter \/ frames' = Touched(StackAfter)
  BY DEF HExecute
<1> QED
  BY <1>4, <1>5

\* Frames are a sequence of frames, whatever the program does to its stack.
LEMMA FramesType ==
    ASSUME TypeOK, FramesOK, [HNext]_hvars PROVE FramesOK'
<1>1. ResumePc = Interrupted /\ Interrupted \in Word
  BY ResumeType DEF ResumePc, Interrupted
<1>2. CASE HNmi
  <2>1. Frame("nmi", Interrupted) \in Frames
    BY <1>1, NewFrame DEF Kinds
  <2> QED
    BY <1>2, <2>1, AppendProperties DEF HNmi, FramesOK
<1>3. CASE HInt
  <2>1. Frame("int", Interrupted) \in Frames
    BY <1>1, NewFrame DEF Kinds
  <2>2. Touched(frames) \in Seq(Frames)
    BY TouchedFrames DEF FramesOK
  <2>3. Append(Touched(frames), Frame("int", Interrupted)) \in Seq(Frames)
    BY <2>1, <2>2, AppendProperties
  <2> QED
    BY <1>3, <2>3 DEF HInt, FramesOK
<1>4. CASE HExecute
  BY <1>4, FramesAfter, TouchedFrames DEF FramesOK
<1>5. CASE HReset \/ HLoad
  BY <1>5, EmptySeq DEF HReset, HLoad, FramesOK
<1>6. CASE frames' = frames
  BY <1>6 DEF FramesOK
<1> QED
  BY <1>2, <1>3, <1>4, <1>5, <1>6
  DEF HNext, HStep, HHost, HHalt, HLines, HPulse, HNmiLine, HIntLine,
      hvars, history

\* Registers, memory and frames are always of their types.
LEMMA HistoryTypes == HSpec => [](TypeOK /\ FramesOK)
<1>1. HSpec => Spec
  <2>1. HInit => Init
    BY DEF HInit
  <2> QED
    BY <2>1, CoreStep, PTL DEF HSpec, Spec
<1>2. HInit => FramesOK
  BY EmptySeq DEF HInit, FramesOK
<1>3. TypeOK /\ FramesOK /\ [HNext]_hvars => FramesOK'
  BY FramesType
<1> QED
  BY <1>1, <1>2, <1>3, TypeCorrect, PTL DEF HSpec

-----------------------------------------------------------------------------
(* The enables across NMIs.                                                  *)

ExecutesRetN == HExecute /\ IsRetN

InNmi(fs) == \E k \in DOMAIN fs : fs[k].kind = "nmi"

\* What EnablesAgree asks of the program and of the host: the last NMI handler
\* is left by RETN, neither by RET nor by moving SP away, and no snapshot that was
\* saved inside one is loaded.
NmiLeftByRetN ==
    /\ HExecute /\ InNmi(frames) /\ ~InNmi(frames') => ExecutesRetN
    /\ HLoad => iff1' = iff2'

\* An instruction that is no RETN leaves enables that agree in agreement.
LEMMA ExecuteKeepsAgreement ==
    ASSUME Execute, iff1 = iff2 PROVE iff1' = iff2'
<1>1. ASSUME NEW op, NEW next, DispatchUnprefixed(op, next) PROVE iff1' = iff2'
  <2>1. CASE iff1' = iff1 /\ iff2' = iff2
    BY <2>1
  <2>2. CASE Ei(op, next) \/ Di(op, next)
    BY <2>2 DEF Ei, Di
  <2>3. ASSUME NEW ed, NEW behind, RetN(ed, behind) PROVE iff1' = iff2'
    BY <2>3 DEF RetN
  <2> QED
    BY <1>1, <2>1, <2>2, <2>3
    DEF DispatchUnprefixed, DispatchEd, Inert, Halt, JumpRelative, Jump, Call,
        Ret, Rst, PushPair, PopPair, MoveSP, Store, JumpRegister, ShiftOrBit,
        SetIm, LdIA, EdMemory, Block, EdInert, UnchangedEnables
<1>2. CASE Indexed(Opcode, Operand)
  BY <1>2 DEF Indexed, UnchangedEnables
<1> QED
  BY <1>1, <1>2 DEF Execute

\* Behind any prefixes, the one action for the opcode ED is the ED page.
LEMMA EdExecuted ==
    ASSUME Execute, Opcode = \hED
    PROVE  DispatchEd(ReadMem(ram, Operand), W16(Operand + 1))
<1>1. Opcode \notin IndexedReads \cup IndexedStores \cup {\h36, \hCB}
  BY SMT DEF IndexedReads, IndexedStores, ByteStores
<1>2. DispatchUnprefixed(Opcode, Operand)
  BY <1>1 DEF Execute
<1>3. ~Inert(Opcode, Operand) /\ ~Ei(Opcode, Operand)
  BY SMT DEF Inert, OneByte, TwoByte, ThreeByte, Ei
<1>4. ~Di(Opcode, Operand) /\ ~Halt(Opcode, Operand)
  BY SMT DEF Di, Halt
<1>5. /\ ~JumpRelative(Opcode, Operand) /\ ~Jump(Opcode, Operand)
      /\ ~Call(Opcode, Operand) /\ ~Ret(Opcode, Operand) /\ ~Rst(Opcode, Operand)
      /\ ~JumpRegister(Opcode, Operand)
  BY SMT DEF JumpRelative, Jump, Call, Ret, Rst, JumpRegister
<1>6. /\ ~PushPair(Opcode, Operand) /\ ~PopPair(Opcode, Operand)
      /\ ~MoveSP(Opcode, Operand) /\ ~Store(Opcode, Operand)
      /\ ~ShiftOrBit(Opcode, Operand)
  BY SMT DEF PushPair, PopPair, MoveSP, Store, ByteStores, ShiftOrBit
<1> QED
  BY <1>2, <1>3, <1>4, <1>5, <1>6 DEF DispatchUnprefixed

\* RETN restores IFF1, and leaves IFF2 as it is.
LEMMA RetNRestores ==
    ASSUME ExecutesRetN
    PROVE  iff1' = iff2 /\ iff2' = iff2 /\ pc' = TopOfStack
<1>1. DispatchEd(ReadMem(ram, Operand), W16(Operand + 1))
  BY EdExecuted DEF ExecutesRetN, IsRetN, HExecute
<1> DEFINE ed == ReadMem(ram, Operand)
           behind == W16(Operand + 1)
<1>2. ed \in RetNs
  BY DEF ExecutesRetN, IsRetN
<1> HIDE DEF ed, behind
<1>3. ~SetIm(ed, behind) /\ ~LdIA(ed, behind)
  BY <1>2, SMT DEF RetNs, SetIm, LdIA
<1>4. ~EdMemory(ed, behind)
  BY <1>2, SMT DEF RetNs, EdMemory, WordStores, WordLoads, DigitRotates
<1>5. ~Block(ed, behind)
  BY <1>2, SMT DEF RetNs, Block, BlockOps, BlockRepeats
<1>6. ~EdInert(ed, behind)
  BY <1>2, SMT DEF RetNs, EdInert, EdInertOps
<1>7. RetN(ed, behind)
  BY <1>1, <1>3, <1>4, <1>5, <1>6 DEF DispatchEd, ed, behind
<1> QED
  BY <1>7 DEF RetN

\* No step makes the enables disagree unless it enters an NMI handler.
LEMMA AgreementKept ==
    ASSUME FramesOK, EnablesAgree, [HNext]_hvars, [NmiLeftByRetN]_hvars
    PROVE  EnablesAgree'
<1> SUFFICES ASSUME ~InNmi(frames') PROVE iff1' = iff2'
  BY DEF EnablesAgree, InNmi
<1>1. ~InNmi(frames) => iff1 = iff2
  BY DEF EnablesAgree, InNmi
<1>2. ~HNmi
  <2>1. SUFFICES ASSUME HNmi PROVE InNmi(frames')
    OBVIOUS
  <2>2. frames' = Append(frames, Frame("nmi", Interrupted)) /\ Len(frames) \in Nat
    BY <2>1, LenProperties DEF HNmi, FramesOK
  <2>3. Frame("nmi", Interrupted).kind = "nmi"
    BY DEF Frame
  <2>4. Len(frames) + 1 \in DOMAIN frames' /\ frames'[Len(frames) + 1].kind = "nmi"
    BY <2>2, <2>3 DEF FramesOK
  <2> QED
    BY <2>4 DEF InNmi
<1>3. CASE HInt
  BY <1>3 DEF HInt, AcceptInt
<1>4. CASE HExecute
  <2>1. CASE InNmi(frames)
    <3>1. NmiLeftByRetN
      <4>1. frames' # frames
        BY <2>1
      <4> QED
        BY <4>1 DEF hvars, history
    <3>2. ExecutesRetN
      BY <1>4, <2>1, <3>1 DEF NmiLeftByRetN
    <3> QED
      BY <3>2, RetNRestores
  <2>2. CASE ~InNmi(frames)
    BY <1>1, <1>4, <2>2, ExecuteKeepsAgreement DEF HExecute
  <2> QED
    BY <2>1, <2>2
<1>5. CASE HReset
  BY <1>5 DEF HReset, Reset
<1>6. CASE HLoad
  <2>1. CASE NmiLeftByRetN
    BY <1>6, <2>1 DEF NmiLeftByRetN
  <2>2. CASE UNCHANGED hvars
    <3>1. frames' = frames /\ iff1' = iff1 /\ iff2' = iff2
      BY <2>2 DEF hvars, history, vars, regs
    <3> QED
      BY <1>1, <3>1
  <2> QED
    BY <2>1, <2>2
<1>7. CASE HHalt \/ HLines \/ UNCHANGED hvars
  <2>1. frames' = frames /\ iff1' = iff1 /\ iff2' = iff2
    BY <1>7 DEF HHalt, HaltCycle, HLines, HPulse, HNmiLine, HIntLine,
                SetNmiLine, SetIntLine, PulseIntLine, hvars, history, vars, regs
  <2> QED
    BY <1>1, <2>1
<1> QED
  BY <1>2, <1>3, <1>4, <1>5, <1>6, <1>7 DEF HNext, HStep, HHost

\* In every program that leaves its NMI handlers by RETN, however interrupts
\* nest in them, the enables agree whenever none is active: code that an NMI
\* interrupted finds the enable state it left (decode.cpp:1028).
THEOREM EnablesRestored ==
    HSpec /\ [][NmiLeftByRetN]_hvars => []EnablesAgree
<1>1. HInit => EnablesAgree
  BY DEF HInit, Init, EnablesAgree
<1>2. /\ FramesOK /\ EnablesAgree /\ [HNext]_hvars /\ [NmiLeftByRetN]_hvars
      => EnablesAgree'
  BY AgreementKept
<1> QED
  BY <1>1, <1>2, HistoryTypes, PTL DEF HSpec

-----------------------------------------------------------------------------
(* The stack across calls, interrupts and NMIs.                              *)

\* The memory between SP and the oldest frame, which may wrap.
StackBytes == {W16(sp + j) : j \in 0 .. 2 * Len(frames) - 1}

\* What StackHoldsFrames asks of the program: what it and the interrupts push
\* lands in RAM, in fewer than 64 KiB; its stores miss the stack (EX (SP),HL is
\* a store); and SP is loaded from no register and no cell, for frames cannot
\* know where to.  LD SP,nn, INC SP and DEC SP are free.
KeepsStack ==
    /\ Len(frames') > Len(frames) =>
          /\ W16(sp - 1) \in RamAddrs /\ W16(sp - 2) \in RamAddrs
          /\ 2 * Len(frames) + 2 <= MaxWord + 1
    /\ sp' = sp => \A a \in StackBytes : ReadMem(ram', a) = ReadMem(ram, a)
    /\ HExecute => Opcode # \hF9 /\ ~(Opcode = \hED /\ ReadMem(ram, Operand) = \h7B)

\* The words of fs are the ones in memory m from s on, the newest first.
Holds(fs, m, s) ==
    \A k \in DOMAIN fs : ReadWord(m, W16(s + 2 * (Len(fs) - k))) = fs[k].word

\* The property, of the frames and memory there are.
LEMMA StackHolds == StackHoldsFrames <=> Holds(frames, ram, sp)
BY DEF StackHoldsFrames, Holds

\* Casts in between make no difference.
LEMMA CastSum == \A x, y \in Int : W16(W16(x) + y) = W16(x + y)
BY SMT DEF W16

\* Addresses less than 64 KiB apart are different.
LEMMA CastApart ==
    \A x, y \in Int : x < y /\ y <= x + MaxWord => W16(x) # W16(y)
BY SMT DEF W16, MaxWord

\* A push writes nothing but its two bytes.
LEMMA PushedElsewhere ==
    ASSUME NEW m \in Memory, NEW s, NEW w \in Word, NEW a,
           a # W16(s - 1), a # W16(s - 2)
    PROVE  ReadMem(Pushed(m, s, w), a) = ReadMem(m, a)
<1>1. ASSUME NEW n \in Memory, NEW b, NEW v, a # b
      PROVE  ReadMem(WriteMem(n, b, v), a) = ReadMem(n, a)
  BY <1>1 DEF ReadMem, WriteMem, Memory
<1>2. WriteMem(m, W16(s - 1), HiByte(w)) \in Memory
  BY WriteType, ByteParts
<1> QED
  BY <1>1, <1>2, Zenon DEF Pushed

\* What the frames hold survives a push above them, and the new frame holds the
\* word pushed, wherever SP wraps, as long as the stack is shorter than memory.
LEMMA HeldByPush ==
    ASSUME NEW fs \in Seq(Frames), NEW f \in Frames, NEW w \in Word, f.word = w,
           ram \in Memory, sp \in Word,
           Holds(fs, ram, sp), 2 * Len(fs) + 2 <= MaxWord + 1,
           W16(sp - 1) \in RamAddrs, W16(sp - 2) \in RamAddrs
    PROVE  Holds(Append(fs, f), Pushed(ram, sp, w), W16(sp - 2))
<1> DEFINE m == Pushed(ram, sp, w)
           g == Append(fs, f)
           n == Len(fs)
<1>1. n \in Nat /\ DOMAIN fs = 1 .. n /\ sp \in Int
  BY LenProperties, WordBounds
<1>2. /\ g \in Seq(Frames) /\ Len(g) = n + 1
      /\ \A k \in 1 .. n : g[k] = fs[k]
      /\ g[n + 1] = f
  BY AppendProperties
<1>3. DOMAIN g = 1 .. n + 1
  BY <1>2, LenProperties
<1>4. 2 * n + 2 <= MaxWord + 1 /\ MaxWord \in Int
  BY SMT DEF MaxWord
<1>5. ReadWord(m, W16(sp - 2)) = w
  BY PushThenPop
<1>6. ASSUME NEW a, a # W16(sp - 1), a # W16(sp - 2)
      PROVE  ReadMem(m, a) = ReadMem(ram, a)
  BY <1>6, PushedElsewhere
<1>7. \A k \in 1 .. n : ReadWord(ram, W16(sp + 2 * (n - k))) = fs[k].word
  BY <1>1 DEF Holds
<1> HIDE DEF m, n, g
<1>8. ASSUME NEW x \in Int, 0 <= x, x + 2 <= MaxWord, NEW y \in {1, 2}
      PROVE  W16(sp - y) # W16(sp + x)
  <2>1. /\ sp - y \in Int /\ sp + x \in Int
        /\ sp - y < sp + x /\ sp + x <= (sp - y) + MaxWord
    BY <1>1, <1>4, <1>8, SMT
  <2> QED
    BY <2>1, CastApart
<1>9. ASSUME NEW k \in 1 .. n + 1
      PROVE  ReadWord(m, W16(W16(sp - 2) + 2 * ((n + 1) - k))) = g[k].word
  <2>1. CASE k = n + 1
    <3>1. 2 * ((n + 1) - k) = 0 /\ (sp - 2) + 0 = sp - 2 /\ sp - 2 \in Int /\ 0 \in Int
      BY <1>1, <2>1, SMT
    <3>2. W16(W16(sp - 2) + 2 * ((n + 1) - k)) = W16(sp - 2)
      BY <3>1, CastSum, Zenon
    <3> QED
      BY <1>2, <1>5, <2>1, <3>2, Zenon
  <2>2. CASE k \in 1 .. n
    <3> DEFINE j == 2 * (n - k)
    <3>1. /\ j \in Int /\ j + 1 \in Int /\ 0 <= j /\ 0 <= j + 1
          /\ j + 2 <= MaxWord /\ (j + 1) + 2 <= MaxWord
      BY <1>1, <1>4, <2>2, SMT
    <3>2. W16(W16(sp - 2) + 2 * ((n + 1) - k)) = W16(sp + j)
      <4>1. /\ (sp - 2) + 2 * ((n + 1) - k) = sp + j
            /\ 2 * ((n + 1) - k) \in Int /\ sp - 2 \in Int
        BY <1>1, <2>2, SMT
      <4> QED
        BY <4>1, CastSum, Zenon
    <3>3. ReadWord(ram, W16(sp + j)) = fs[k].word
      BY <1>7, <2>2
    <3> HIDE DEF j
    <3>4. W16(W16(sp + j) + 1) = W16(sp + (j + 1))
      <4>1. sp + j \in Int /\ 1 \in Int /\ (sp + j) + 1 = sp + (j + 1)
        BY <1>1, <3>1, SMT
      <4> QED
        BY <4>1, CastSum, Zenon
    <3>5. /\ W16(sp - 1) # W16(sp + j) /\ W16(sp - 2) # W16(sp + j)
          /\ W16(sp - 1) # W16(sp + (j + 1)) /\ W16(sp - 2) # W16(sp + (j + 1))
      BY <1>8, <3>1, Zenon
    <3>6. /\ ReadMem(m, W16(sp + j)) = ReadMem(ram, W16(sp + j))
          /\ ReadMem(m, W16(W16(sp + j) + 1)) = ReadMem(ram, W16(W16(sp + j) + 1))
      BY <1>6, <3>4, <3>5, Zenon
    <3>7. ReadWord(m, W16(sp + j)) = ReadWord(ram, W16(sp + j))
      BY <3>6, Zenon DEF ReadWord
    <3> QED
      BY <1>2, <2>2, <3>2, <3>3, <3>7, Zenon
  <2> QED
    BY <1>1, <2>1, <2>2, SMT
<1>10. Holds(g, m, W16(sp - 2))
  <2>1. Len(g) = n + 1 /\ DOMAIN g = 1 .. n + 1
    BY <1>2, <1>3
  <2>2. \A k \in DOMAIN g : ReadWord(m, W16(W16(sp - 2) + 2 * (Len(g) - k))) = g[k].word
    BY <1>9, <2>1, Zenon
  <2> QED
    BY <2>2, Zenon DEF Holds
<1> QED
  BY <1>10 DEF m, g

\* A pop leaves the older frames where they are.
LEMMA HeldByPop ==
    ASSUME NEW fs \in Seq(Frames), fs # <<>>, NEW m, NEW s \in Word, Holds(fs, m, s)
    PROVE  Holds(Front(fs), m, W16(s + 2))
<1>1. /\ Front(fs) \in Seq(Frames) /\ Len(Front(fs)) = Len(fs) - 1
      /\ \A k \in DOMAIN Front(fs) : k \in DOMAIN fs /\ Front(fs)[k] = fs[k]
  BY FrontFrames
<1>2. Len(fs) \in Nat /\ DOMAIN Front(fs) = 1 .. Len(fs) - 1
  BY <1>1, LenProperties
<1>3. ASSUME NEW k \in DOMAIN Front(fs)
      PROVE  W16(W16(s + 2) + 2 * (Len(fs) - 1 - k)) = W16(s + 2 * (Len(fs) - k))
  <2>1. /\ s + 2 \in Int /\ 2 * (Len(fs) - 1 - k) \in Int
        /\ (s + 2) + 2 * (Len(fs) - 1 - k) = s + 2 * (Len(fs) - k)
    BY <1>2, WordBounds, SMT
  <2> QED
    BY <2>1, CastSum
<1> QED
  BY <1>1, <1>3 DEF Holds

\* Touching frames changes no word.
LEMMA HeldByTouch ==
    ASSUME NEW fs \in Seq(Frames), NEW m, NEW s, Holds(fs, m, s)
    PROVE  Holds(Touched(fs), m, s)
BY TouchedFrames DEF Holds

\* A step that leaves the bytes of the stack alone leaves the frames alone.
LEMMA HeldByStore ==
    ASSUME FramesOK, sp \in Word, Holds(frames, ram, sp),
           \A a \in StackBytes : ReadMem(ram', a) = ReadMem(ram, a)
    PROVE  Holds(frames, ram', sp)
<1>1. Len(frames) \in Nat /\ DOMAIN frames = 1 .. Len(frames) /\ sp \in Int
  BY LenProperties, WordBounds DEF FramesOK
<1>2. ASSUME NEW k \in DOMAIN frames
      PROVE  ReadWord(ram', W16(sp + 2 * (Len(frames) - k))) = frames[k].word
  <2> DEFINE j == 2 * (Len(frames) - k)
  <2>1. /\ j \in 0 .. 2 * Len(frames) - 1 /\ j + 1 \in 0 .. 2 * Len(frames) - 1
        /\ j \in Int
    BY <1>1, SMT
  <2>2. W16(W16(sp + j) + 1) = W16(sp + (j + 1))
    <3>1. sp + j \in Int /\ (sp + j) + 1 = sp + (j + 1)
      BY <1>1, <2>1, SMT
    <3>2. W16(W16(sp + j) + 1) = W16((sp + j) + 1)
      BY <3>1, CastSum, SMT
    <3> QED
      BY <3>1, <3>2, Zenon
  <2>3. W16(sp + j) \in StackBytes /\ W16(W16(sp + j) + 1) \in StackBytes
    BY <2>1, <2>2, Zenon DEF StackBytes
  <2>4. ReadWord(ram', W16(sp + j)) = ReadWord(ram, W16(sp + j))
    BY <2>3 DEF ReadWord
  <2> QED
    BY <2>4 DEF Holds
<1> QED
  BY <1>2 DEF Holds

MovesSP == Opcode \in {\h31, \h33, \h3B}

PushesWord(w) ==
    /\ sp' = W16(sp - 2) /\ ram' = Pushed(ram, sp, w)
    /\ W16(sp - 1) \in RamAddrs /\ W16(sp - 2) \in RamAddrs => PushedFrame.word = w

\* An instruction leaves SP alone, moves it by LD SP,nn, INC SP or DEC SP, pops,
\* or pushes the word PushedFrame names.
LEMMA StackShape ==
    ASSUME TypeOK, Execute,
           Opcode # \hF9, ~(Opcode = \hED /\ ReadMem(ram, Operand) = \h7B)
    PROVE  \/ sp' = sp
           \/ MovesSP
           \/ Pop
           \/ \E w \in Word : PushesWord(w)
<1> DEFINE op   == Opcode
           next == Operand
<1>1. op \in Byte /\ next \in Word /\ W16(next + 2) \in Word
  <2>1. op \in Byte /\ next \in Word
    BY FetchedType
  <2> QED
    BY <2>1, WordBounds, WordCast, SMT
<1>2. CASE Indexed(op, next)
  BY <1>2 DEF Indexed
<1>3. CASE DispatchUnprefixed(op, next)
  <2>1. CASE Call(op, next)
    <3>1. CASE Push(W16(next + 2))
      <4>1. op % 8 # 7 /\ (op % 8 # 5 \/ op = \hCD)
        BY <2>1, SMT DEF Call
      <4>2. PushedFrame = Frame("code", W16(next + 2))
        BY <4>1, Zenon DEF PushedFrame
      <4>3. PushedFrame.word = W16(next + 2)
        BY <4>2 DEF Frame
      <4> QED
        BY <1>1, <3>1, <4>3 DEF Push, PushesWord
    <3> QED
      BY <2>1, <3>1 DEF Call
  <2>2. CASE Ret(op, next)
    BY <2>2 DEF Ret
  <2>3. CASE Rst(op, next)
    <3>1. op % 8 = 7
      BY <2>3, SMT DEF Rst
    <3>2. PushedFrame = Frame("code", next)
      BY <3>1, SMT DEF PushedFrame
    <3>3. PushedFrame.word = next
      BY <3>2 DEF Frame
    <3> QED
      BY <1>1, <2>3, <3>3 DEF Rst, Push, PushesWord
  <2>4. CASE PushPair(op, next)
    <3>1. PICK w \in RegPairs : Push(w)
      BY <2>4 DEF PushPair
    <3>2. op % 8 = 5 /\ op # \hCD
      BY <2>4, SMT DEF PushPair
    <3>3. PushedFrame = Frame("data", ReadWord(ram', sp'))
      BY <3>2, SMT DEF PushedFrame
    <3>4. PushedFrame.word = ReadWord(ram', sp')
      BY <3>3 DEF Frame
    <3>5. w \in Word /\ ram \in Memory /\ sp \in Word
      BY HostAssumption DEF TypeOK, Memory
    <3>6. W16(sp - 1) \in RamAddrs /\ W16(sp - 2) \in RamAddrs
          => ReadWord(Pushed(ram, sp, w), W16(sp - 2)) = w
      BY <3>5, PushThenPop
    <3> QED
      BY <3>1, <3>4, <3>5, <3>6 DEF Push, PushesWord
  <2>5. CASE PopPair(op, next)
    BY <2>5 DEF PopPair
  <2>6. CASE MoveSP(op, next)
    BY <2>6 DEF MoveSP, MovesSP
  <2>7. CASE op = \hED /\ DispatchEd(ReadMem(ram, next), W16(next + 1))
    <3>1. ASSUME NEW ed, NEW behind, DispatchEd(ed, behind), ed # \h7B PROVE sp' = sp \/ Pop
      BY <3>1 DEF DispatchEd, RetN, SetIm, LdIA, EdMemory, Block, EdInert
    <3> QED
      BY <2>7, <3>1
  <2>8. CASE sp' = sp
    BY <2>8
  <2> QED
    BY <1>3, <2>1, <2>2, <2>3, <2>4, <2>5, <2>6, <2>7, <2>8
    DEF DispatchUnprefixed, Inert, Ei, Di, Halt, JumpRelative, Jump, Store,
        JumpRegister, ShiftOrBit
<1> QED
  BY <1>2, <1>3 DEF Execute

\* Two casts that differ by less than 64 KiB tell a pop, a push and neither apart.
LEMMA Moves ==
    ASSUME sp \in Word
    PROVE  W16(sp + 2) # sp /\ W16(sp - 2) # sp /\ W16(sp + 2) # W16(sp - 2)
BY WordBounds, SMT DEF W16

\* The words of the frames stay where they are when an instruction is executed.
LEMMA ExecuteHolds ==
    ASSUME TypeOK, FramesOK, StackHoldsFrames, HExecute, KeepsStack
    PROVE  StackHoldsFrames'
<1>1. /\ Execute /\ sp \in Word /\ ram \in Memory /\ Holds(frames, ram, sp)
      /\ frames \in Seq(Frames)
  BY StackHolds DEF HExecute, TypeOK, Memory, FramesOK
<1>2. W16(sp + 2) # sp /\ W16(sp - 2) # sp /\ W16(sp + 2) # W16(sp - 2)
  BY <1>1, Moves
<1>3. StackAfter \in Seq(Frames) /\ (frames' = StackAfter \/ frames' = Touched(StackAfter))
  BY FramesAfter
<1>4. Holds(StackAfter, ram', sp')
  <2>1. CASE sp' = sp
    <3>1. StackAfter = frames
      BY <2>1 DEF StackAfter
    <3>2. Holds(frames, ram', sp)
      BY <1>1, <2>1, HeldByStore DEF KeepsStack
    <3> QED
      BY <2>1, <3>1, <3>2
  <2>2. CASE sp' # sp /\ MovesSP
    <3>1. StackAfter = <<>>
      BY <2>2 DEF StackAfter, MovesSP
    <3> QED
      BY <3>1 DEF Holds
  <2>3. CASE sp' # sp /\ ~MovesSP /\ Pop
    <3>1. sp' = W16(sp + 2) /\ ram' = ram /\ sp' # W16(sp - 2)
      BY <1>2, <2>3 DEF Pop
    <3>2. CASE frames = <<>>
      <4>1. StackAfter = <<>>
        BY <2>3, <3>1, <3>2 DEF StackAfter
      <4> QED
        BY <4>1 DEF Holds
    <3>3. CASE frames # <<>>
      <4>1. StackAfter = Front(frames)
        BY <2>3, <3>1, <3>3 DEF StackAfter, MovesSP
      <4>2. Holds(Front(frames), ram, W16(sp + 2))
        BY <1>1, <3>3, HeldByPop
      <4> QED
        BY <3>1, <4>1, <4>2
    <3> QED
      BY <3>2, <3>3
  <2>4. CASE sp' # sp /\ ~MovesSP /\ \E w \in Word : PushesWord(w)
    <3>1. PICK w \in Word : PushesWord(w)
      BY <2>4
    <3>2. StackAfter = Append(frames, PushedFrame)
      BY <2>4, <3>1 DEF StackAfter, MovesSP, PushesWord
    <3>3. PushedFrame \in Frames
      BY <1>1, PushedFrameType DEF HExecute
    <3>4. Len(frames') > Len(frames)
      <4>1. Len(StackAfter) = Len(frames) + 1 /\ Len(frames) \in Nat
        BY <1>1, <3>2, <3>3, AppendProperties, LenProperties
      <4>2. Len(frames') = Len(StackAfter)
        BY <1>3, TouchedFrames
      <4> QED
        BY <4>1, <4>2, SMT
    <3>5. /\ W16(sp - 1) \in RamAddrs /\ W16(sp - 2) \in RamAddrs
          /\ 2 * Len(frames) + 2 <= MaxWord + 1
      BY <3>4 DEF KeepsStack
    <3>6. Holds(Append(frames, PushedFrame), Pushed(ram, sp, w), W16(sp - 2))
      BY <1>1, <3>1, <3>3, <3>5, HeldByPush DEF PushesWord
    <3> QED
      BY <3>1, <3>2, <3>6 DEF PushesWord
  <2> QED
    BY <1>1, <2>1, <2>2, <2>3, <2>4, StackShape DEF KeepsStack
<1>5. Holds(frames', ram', sp')
  BY <1>3, <1>4, HeldByTouch
<1> QED
  BY <1>5 DEF StackHoldsFrames, Holds

\* Nor do interrupts and host calls move them: both services push the address of
\* the instruction they kept from running, behind a HALT.
LEMMA StackKept ==
    ASSUME TypeOK, FramesOK, StackHoldsFrames, [HNext]_hvars, [KeepsStack]_hvars
    PROVE  StackHoldsFrames'
<1>1. /\ sp \in Word /\ ram \in Memory /\ Holds(frames, ram, sp)
      /\ frames \in Seq(Frames) /\ Len(frames) \in Nat
  BY StackHolds, LenProperties DEF TypeOK, Memory, FramesOK
<1>2. ResumePc = Interrupted /\ Interrupted \in Word
  BY ResumeType DEF ResumePc, Interrupted
<1>3. ASSUME NEW fs \in Seq(Frames), Holds(fs, ram, sp), Len(fs) = Len(frames),
             NEW kind \in Kinds,
             frames' = Append(fs, Frame(kind, Interrupted)), Push(ResumePc)
      PROVE  StackHoldsFrames'
  <2> DEFINE f == Frame(kind, Interrupted)
  <2>1. f \in Frames /\ f.word = Interrupted
    BY <1>2, NewFrame DEF Frame
  <2>2. Len(frames') = Len(frames) + 1
    BY <1>3, <2>1, AppendProperties
  <2>3. KeepsStack
    <3>1. frames' # frames
      BY <1>1, <2>2
    <3> QED
      BY <3>1 DEF hvars, history
  <2>4. /\ W16(sp - 1) \in RamAddrs /\ W16(sp - 2) \in RamAddrs
        /\ 2 * Len(fs) + 2 <= MaxWord + 1
    BY <1>1, <1>3, <2>2, <2>3, SMT DEF KeepsStack
  <2>5. Holds(Append(fs, f), Pushed(ram, sp, Interrupted), W16(sp - 2))
    BY <1>1, <1>2, <1>3, <2>1, <2>4, HeldByPush
  <2>6. Holds(frames', ram', sp')
    BY <1>2, <1>3, <2>5 DEF Push
  <2> QED
    BY <2>6 DEF StackHoldsFrames, Holds
<1>4. CASE HNmi
  BY <1>1, <1>3, <1>4 DEF HNmi, ServiceNmi, Kinds
<1>5. CASE HInt
  <2>1. /\ Touched(frames) \in Seq(Frames) /\ Len(Touched(frames)) = Len(frames)
        /\ Holds(Touched(frames), ram, sp)
    BY <1>1, TouchedFrames, HeldByTouch
  <2> QED
    BY <1>3, <1>5, <2>1 DEF HInt, AcceptInt, Kinds
<1>6. CASE HExecute
  <2>1. CASE KeepsStack
    BY <1>6, <2>1, ExecuteHolds
  <2>2. CASE UNCHANGED hvars
    BY <2>2 DEF hvars, history, vars, regs, StackHoldsFrames, ReadWord, ReadMem
  <2> QED
    BY <2>1, <2>2
<1>7. CASE HReset \/ HLoad
  BY <1>7 DEF HReset, HLoad, StackHoldsFrames
<1>8. CASE HHalt \/ HLines \/ UNCHANGED hvars
  <2>1. frames' = frames /\ sp' = sp /\ ram' = ram
    BY <1>8 DEF HHalt, HaltCycle, HLines, HPulse, HNmiLine, HIntLine,
                SetNmiLine, SetIntLine, PulseIntLine, hvars, history, vars, regs
  <2> QED
    BY <2>1 DEF StackHoldsFrames, ReadWord, ReadMem
<1> QED
  BY <1>4, <1>5, <1>6, <1>7, <1>8 DEF HNext, HStep, HHost

\* In every program that keeps its stack, what push16 wrote pop16 finds, across
\* any nesting of calls, INTs and NMIs, any number of host calls in between, and
\* the wrap of SP (z80.cpp:108-121).
THEOREM StackIsKept == HSpec /\ [][KeepsStack]_hvars => []StackHoldsFrames
<1>1. HInit => StackHoldsFrames
  BY DEF HInit, StackHoldsFrames
<1>2. /\ TypeOK /\ FramesOK /\ StackHoldsFrames /\ [HNext]_hvars /\ [KeepsStack]_hvars
      => StackHoldsFrames'
  BY StackKept
<1> QED
  BY <1>1, <1>2, HistoryTypes, PTL DEF HSpec

-----------------------------------------------------------------------------
(* What an NMI interrupted goes on as it was.                                *)

\* The outermost NMI found the enable that IFF2 still has, until an enable is
\* touched in its handler.
SavedEnable ==
    \A k \in DOMAIN frames :
        /\ frames[k].kind = "nmi" /\ ~frames[k].touched
        /\ \A j \in 1 .. k - 1 : frames[j].kind # "nmi"
        => frames[k].on = iff2

\* Only EI and DI touch IFF2.
LEMMA EnablesUntouched ==
    ASSUME Execute, Opcode \notin {\hFB, \hF3} PROVE iff2' = iff2
<1>1. CASE Indexed(Opcode, Operand)
  BY <1>1 DEF Indexed, UnchangedEnables
<1>2. CASE DispatchUnprefixed(Opcode, Operand)
  <2>1. ~Ei(Opcode, Operand) /\ ~Di(Opcode, Operand)
    BY DEF Ei, Di
  <2> QED
    BY <1>2, <2>1
    DEF DispatchUnprefixed, DispatchEd, Inert, Halt, JumpRelative, Jump, Call,
        Ret, Rst, PushPair, PopPair, MoveSP, Store, JumpRegister, ShiftOrBit,
        RetN, SetIm, LdIA, EdMemory, Block, EdInert, UnchangedEnables
<1> QED
  BY <1>1, <1>2 DEF Execute

\* A new frame that is no untouched NMI, above frames that know the enable.
LEMMA SavedBelow ==
    ASSUME FramesOK, SavedEnable, NEW f \in Frames, f.kind # "nmi",
           frames' = Append(frames, f), iff2' = iff2
    PROVE  SavedEnable'
<1>1. /\ frames' \in Seq(Frames) /\ Len(frames') = Len(frames) + 1 /\ Len(frames) \in Nat
      /\ \A k \in 1 .. Len(frames) : frames'[k] = frames[k]
      /\ frames'[Len(frames) + 1] = f
      /\ DOMAIN frames = 1 .. Len(frames) /\ DOMAIN frames' = 1 .. Len(frames')
  BY AppendProperties, LenProperties DEF FramesOK
<1>2. ASSUME NEW k \in DOMAIN frames', frames'[k].kind = "nmi", ~frames'[k].touched,
             \A j \in 1 .. k - 1 : frames'[j].kind # "nmi"
      PROVE  frames'[k].on = iff2'
  <2>1. k # Len(frames) + 1
    BY <1>1, <1>2
  <2>2. k \in 1 .. Len(frames) /\ \A j \in 1 .. k - 1 : j \in 1 .. Len(frames)
    BY <1>1, <2>1, SMT
  <2>3. frames'[k] = frames[k] /\ \A j \in 1 .. k - 1 : frames'[j] = frames[j]
    BY <1>1, <2>2, Zenon
  <2> QED
    BY <1>1, <1>2, <2>2, <2>3, Zenon DEF SavedEnable
<1> QED
  BY <1>2, Zenon DEF SavedEnable

\* Frames that are all touched say nothing of the enable.
LEMMA TouchedSaves ==
    ASSUME NEW fs \in Seq(Frames), frames' = Touched(fs) PROVE SavedEnable'
<1>1. DOMAIN frames' = DOMAIN fs /\ \A k \in DOMAIN fs : frames'[k].touched
  BY TouchedFrames
<1> QED
  BY <1>1 DEF SavedEnable

\* An NMI that finds no other active saves the enable both flags have; everything
\* that changes IFF2 afterwards marks it as touched.
LEMMA SavedKept ==
    ASSUME TypeOK, FramesOK, SavedEnable, EnablesAgree, [HNext]_hvars
    PROVE  SavedEnable'
<1>1. /\ frames \in Seq(Frames) /\ Len(frames) \in Nat
      /\ DOMAIN frames = 1 .. Len(frames)
      /\ Interrupted \in Word
  BY LenProperties, ResumeType DEF FramesOK, ResumePc, Interrupted
<1>2. CASE HNmi
  <2> DEFINE f == Frame("nmi", Interrupted)
  <2>1. f \in Frames /\ f.on = iff1 /\ iff2' = iff2
    BY <1>1, <1>2, NewFrame DEF Frame, Kinds, HNmi, ServiceNmi
  <2>2. frames' = Append(frames, f)
    BY <1>2 DEF HNmi
  <2> HIDE DEF f
  <2>3. /\ frames' \in Seq(Frames) /\ Len(frames') = Len(frames) + 1
        /\ \A k \in 1 .. Len(frames) : frames'[k] = frames[k]
        /\ frames'[Len(frames) + 1] = f
    BY <1>1, <2>1, <2>2, AppendProperties
  <2>4. DOMAIN frames' = 1 .. Len(frames) + 1
    BY <2>3, LenProperties
  <2>5. ASSUME NEW k \in DOMAIN frames', frames'[k].kind = "nmi", ~frames'[k].touched,
               \A j \in 1 .. k - 1 : frames'[j].kind # "nmi"
        PROVE  frames'[k].on = iff2'
    <3>1. CASE k = Len(frames) + 1
      <4>1. \A j \in 1 .. Len(frames) : j \in 1 .. k - 1
        BY <1>1, <3>1, SMT
      <4>2. \A j \in 1 .. Len(frames) : frames[j].kind # "nmi"
        BY <2>3, <2>5, <4>1
      <4>3. iff1 = iff2
        BY <1>1, <4>2 DEF EnablesAgree
      <4> QED
        BY <2>1, <2>3, <3>1, <4>3
    <3>2. CASE k # Len(frames) + 1
      <4>1. k \in 1 .. Len(frames) /\ \A j \in 1 .. k - 1 : j \in 1 .. Len(frames)
        BY <1>1, <2>4, <3>2, SMT
      <4>2. frames'[k] = frames[k] /\ \A j \in 1 .. k - 1 : frames'[j] = frames[j]
        BY <2>3, <4>1, Zenon
      <4> QED
        BY <1>1, <2>1, <2>5, <4>1, <4>2, Zenon DEF SavedEnable
    <3> QED
      BY <3>1, <3>2
  <2> QED
    BY <2>5, Zenon DEF SavedEnable
<1>3. CASE HInt
  <2> DEFINE f  == Frame("int", Interrupted)
             fs == Touched(frames)
  <2>1. f \in Frames /\ f.kind = "int"
    BY <1>1, NewFrame DEF Frame, Kinds
  <2>2. /\ fs \in Seq(Frames) /\ Len(fs) = Len(frames) /\ DOMAIN fs = DOMAIN frames
        /\ \A k \in 1 .. Len(frames) : fs[k].touched
    BY <1>1, TouchedFrames
  <2>3. frames' = Append(fs, f)
    BY <1>3 DEF HInt
  <2> HIDE DEF f, fs
  <2>4. /\ frames' \in Seq(Frames) /\ Len(frames') = Len(frames) + 1
        /\ \A k \in 1 .. Len(frames) : frames'[k] = fs[k]
        /\ frames'[Len(frames) + 1] = f
    BY <2>1, <2>2, <2>3, AppendProperties
  <2>5. DOMAIN frames' = 1 .. Len(frames) + 1
    BY <2>4, LenProperties
  <2>6. ASSUME NEW k \in DOMAIN frames' PROVE frames'[k].kind # "nmi" \/ frames'[k].touched
    <3>1. k = Len(frames) + 1 \/ k \in 1 .. Len(frames)
      BY <1>1, <2>5, SMT
    <3> QED
      BY <2>1, <2>2, <2>4, <3>1
  <2> QED
    BY <2>6, Zenon DEF SavedEnable
<1>4. CASE HExecute
  <2>1. CASE Opcode \in {\hFB, \hF3} \/ IsRetN
    BY <1>4, <2>1, FramesAfter, TouchedSaves DEF HExecute
  <2>2. CASE Opcode \notin {\hFB, \hF3} /\ ~IsRetN
    <3>1. iff2' = iff2 /\ frames' = StackAfter
      BY <1>4, <2>2, EnablesUntouched DEF HExecute
    <3>2. CASE frames' = Append(frames, PushedFrame)
      <4>1. PushedFrame.kind # "nmi"
        BY DEF PushedFrame, Frame
      <4> QED
        BY <1>4, <3>1, <3>2, <4>1, PushedFrameType, SavedBelow DEF HExecute
    <3>3. CASE frames' = Front(frames) /\ frames # <<>>
      <4>1. /\ frames' \in Seq(Frames)
            /\ \A k \in DOMAIN frames' : k \in DOMAIN frames /\ frames'[k] = frames[k]
        BY <1>1, <3>3, FrontFrames
      <4>2. DOMAIN frames' = 1 .. Len(frames') /\ Len(frames') \in Nat
        BY <4>1, LenProperties
      <4>3. \A k \in DOMAIN frames' : \A j \in 1 .. k - 1 : j \in DOMAIN frames'
        BY <4>2, SMT
      <4> QED
        BY <3>1, <4>1, <4>3, Zenon DEF SavedEnable
    <3>4. CASE frames' = <<>>
      BY <3>4 DEF SavedEnable
    <3>5. CASE frames' = frames
      BY <3>1, <3>5 DEF SavedEnable
    <3> QED
      BY <3>1, <3>2, <3>3, <3>4, <3>5, StackAfterForms
  <2> QED
    BY <2>1, <2>2
<1>5. CASE HReset \/ HLoad
  BY <1>5 DEF HReset, HLoad, SavedEnable
<1>6. CASE HHalt \/ HLines \/ UNCHANGED hvars
  <2>1. frames' = frames /\ iff2' = iff2
    BY <1>6 DEF HHalt, HaltCycle, HLines, HPulse, HNmiLine, HIntLine,
                SetNmiLine, SetIntLine, PulseIntLine, hvars, history, vars, regs
  <2> QED
    BY <2>1 DEF SavedEnable
<1> QED
  BY <1>2, <1>3, <1>4, <1>5, <1>6 DEF HNext, HStep, HHost

\* The RETN that ends the outermost NMI handler finds the interrupted address on
\* the stack and the interrupted enable in IFF2.
LEMMA RetNResumes ==
    ASSUME TypeOK, FramesOK, StackHoldsFrames, SavedEnable,
           NEW f \in Range(frames),
           f = Last(frames), f.kind = "nmi", ~f.touched, Outermost,
           IsRetN, HExecute
    PROVE  iff1' = f.on /\ pc' = f.word
<1>1. sp \in Word /\ sp \in Int /\ W16(sp) = sp
  BY WordBounds, CastBounds DEF TypeOK
<1>2. Len(frames) \in Nat /\ DOMAIN frames = 1 .. Len(frames) /\ frames \in Seq(Frames)
  BY LenProperties DEF FramesOK
<1>3. Len(frames) \in DOMAIN frames /\ f = frames[Len(frames)]
  <2>1. frames # <<>>
    BY DEF Range
  <2>2. Len(frames) # 0
    BY <1>2, <2>1, EmptySeq
  <2> QED
    BY <1>2, <2>2, SMT DEF Last
<1>4. iff1' = iff2 /\ pc' = ReadWord(ram, sp)
  BY RetNRestores DEF ExecutesRetN, TopOfStack
<1>5. ReadWord(ram, sp) = f.word
  <2>1. ReadWord(ram, W16(sp + 2 * (Len(frames) - Len(frames)))) = f.word
    BY <1>3 DEF StackHoldsFrames
  <2>2. sp + 2 * (Len(frames) - Len(frames)) = sp
    BY <1>1, <1>2, SMT
  <2> QED
    BY <1>1, <2>1, <2>2, Zenon
<1>6. f.on = iff2
  BY <1>3, Zenon DEF SavedEnable, Outermost
<1> QED
  BY <1>4, <1>5, <1>6

\* In every program that keeps its stack and leaves its NMI handlers by RETN, an
\* NMI whose handler touches no enable is not noticed: PC and IFF1 are again what
\* they were, whatever the handler called and pushed (decode.cpp:1028).
THEOREM NmiIsTransparent ==
    HSpec /\ [][NmiLeftByRetN]_hvars /\ [][KeepsStack]_hvars => NmiTransparent
<1>1. HInit => SavedEnable
  BY DEF HInit, SavedEnable
<1>2. TypeOK /\ FramesOK /\ SavedEnable /\ EnablesAgree /\ [HNext]_hvars => SavedEnable'
  BY SavedKept
<1>3. TypeOK /\ FramesOK /\ StackHoldsFrames /\ SavedEnable
      => (\A f \in Range(frames) :
            /\ f = Last(frames) /\ f.kind = "nmi" /\ ~f.touched /\ Outermost
            /\ IsRetN /\ HExecute
            => iff1' = f.on /\ pc' = f.word)
  BY RetNResumes
<1> QED
  BY <1>1, <1>2, <1>3, HistoryTypes, EnablesRestored, StackIsKept, PTL
  DEF HSpec, NmiTransparent

-----------------------------------------------------------------------------
(* One INT at a time.                                                        *)

InInt(fs) == \E k \in DOMAIN fs : fs[k].kind = "int"

\* What NoIntNesting asks of the program and of the host: the instruction behind
\* an EI ends the INT handler it is in (EI; RET and EI; RETI do), and no NMI falls
\* between the two.  That one would: its handler uses up the shadow of the EI, its
\* RETN turns INT on again, and the RET has not run yet.
IntLeftBehindEi ==
    /\ HExecute /\ InInt(frames) /\ ei_pending => ~InInt(frames')
    /\ HNmi /\ InInt(frames) => ~ei_pending

\* In an INT handler both enables are off, but in the shadow of an EI.
OffInHandler ==
    InInt(frames) => (~iff1 /\ ~iff2) \/ (ei_pending /\ ~halted)

OneInt == NoIntNesting /\ OffInHandler

\* With both enables off, only EI turns one on, and that makes a shadow.
LEMMA StaysOffOrEi ==
    ASSUME Execute, ~iff1, ~iff2
    PROVE  (~iff1' /\ ~iff2') \/ (ei_pending' /\ ~halted')
<1>1. ASSUME NEW op, NEW next, DispatchUnprefixed(op, next)
      PROVE  (~iff1' /\ ~iff2') \/ (ei_pending' /\ ~halted')
  <2>1. CASE iff1' = iff1 /\ iff2' = iff2
    BY <2>1
  <2>2. CASE Ei(op, next)
    BY <2>2 DEF Ei, Execute
  <2>3. CASE Di(op, next)
    BY <2>3 DEF Di
  <2>4. ASSUME NEW ed, NEW behind, RetN(ed, behind) PROVE ~iff1' /\ ~iff2'
    BY <2>4 DEF RetN
  <2> QED
    BY <1>1, <2>1, <2>2, <2>3, <2>4
    DEF DispatchUnprefixed, DispatchEd, Inert, Halt, JumpRelative, Jump, Call,
        Ret, Rst, PushPair, PopPair, MoveSP, Store, JumpRegister, ShiftOrBit,
        SetIm, LdIA, EdMemory, Block, EdInert, UnchangedEnables
<1>2. CASE Indexed(Opcode, Operand)
  BY <1>2 DEF Indexed, UnchangedEnables
<1> QED
  BY <1>1, <1>2 DEF Execute

\* An instruction makes no frame of an INT.
LEMMA NoNewInt ==
    ASSUME TypeOK, FramesOK, HExecute
    PROVE  \A k \in DOMAIN frames' :
              frames'[k].kind = "int" => k \in DOMAIN frames /\ frames[k].kind = "int"
<1> DEFINE Old(fs) == \A k \in DOMAIN fs :
              fs[k].kind = "int" => k \in DOMAIN frames /\ frames[k].kind = "int"
<1>1. Old(StackAfter)
  <2>1. CASE StackAfter = Append(frames, PushedFrame)
    <3>1. PushedFrame \in Frames
      BY PushedFrameType DEF HExecute
    <3>2. PushedFrame.kind # "int"
      BY DEF PushedFrame, Frame
    <3>3. /\ StackAfter \in Seq(Frames) /\ Len(StackAfter) = Len(frames) + 1
          /\ \A k \in 1 .. Len(frames) : StackAfter[k] = frames[k]
          /\ StackAfter[Len(frames) + 1] = PushedFrame
      BY <2>1, <3>1, AppendProperties DEF FramesOK
    <3>4. /\ DOMAIN StackAfter = 1 .. Len(frames) + 1
          /\ DOMAIN frames = 1 .. Len(frames) /\ Len(frames) \in Nat
      BY <3>3, LenProperties DEF FramesOK
    <3>5. \A k \in DOMAIN StackAfter : k = Len(frames) + 1 \/ k \in 1 .. Len(frames)
      BY <3>4, SMT
    <3> QED
      BY <3>2, <3>3, <3>4, <3>5, Zenon
  <2>2. CASE StackAfter = Front(frames) /\ frames # <<>>
    BY <2>2, FrontFrames DEF FramesOK
  <2>3. CASE StackAfter = <<>> \/ StackAfter = frames
    BY <2>3
  <2> QED
    BY <2>1, <2>2, <2>3, StackAfterForms
<1>2. StackAfter \in Seq(Frames) /\ (frames' = StackAfter \/ frames' = Touched(StackAfter))
  BY FramesAfter
<1>3. Old(Touched(StackAfter))
  BY <1>1, <1>2, TouchedFrames
<1> QED
  BY <1>1, <1>2, <1>3

\* An INT is accepted with IFF1 on and no shadow, so in no INT handler.
LEMMA OneIntKept ==
    ASSUME TypeOK, FramesOK, OneInt, [HNext]_hvars, [IntLeftBehindEi]_hvars
    PROVE  OneInt'
<1> USE DEF OneInt
<1>1. /\ frames \in Seq(Frames) /\ Len(frames) \in Nat
      /\ DOMAIN frames = 1 .. Len(frames)
      /\ Interrupted \in Word
  BY LenProperties, ResumeType DEF FramesOK, ResumePc, Interrupted
<1>2. CASE HNmi
  <2> DEFINE f == Frame("nmi", Interrupted)
  <2>1. f \in Frames /\ f.kind = "nmi" /\ frames' = Append(frames, f)
    BY <1>1, <1>2, NewFrame DEF Frame, Kinds, HNmi
  <2> HIDE DEF f
  <2>2. /\ frames' \in Seq(Frames) /\ Len(frames') = Len(frames) + 1
        /\ \A k \in 1 .. Len(frames) : frames'[k] = frames[k]
        /\ frames'[Len(frames) + 1] = f
    BY <1>1, <2>1, AppendProperties
  <2>3. DOMAIN frames' = 1 .. Len(frames) + 1
    BY <2>2, LenProperties
  <2>4. ASSUME NEW k \in DOMAIN frames', frames'[k].kind = "int"
        PROVE  k \in DOMAIN frames /\ frames[k].kind = "int"
    <3>1. k = Len(frames) + 1 \/ k \in 1 .. Len(frames)
      BY <1>1, <2>3, SMT
    <3> QED
      BY <1>1, <2>1, <2>2, <2>4, <3>1
  <2>5. NoIntNesting'
    BY <2>4, Zenon DEF NoIntNesting
  <2>6. IntLeftBehindEi
    <3>1. frames' # frames
      BY <1>1, <2>2
    <3> QED
      BY <3>1 DEF hvars, history
  <2>7. InInt(frames') => ~iff1 /\ ~iff2
    BY <1>2, <2>4, <2>6 DEF InInt, OffInHandler, IntLeftBehindEi
  <2>8. ~iff1' /\ iff2' = iff2
    BY <1>2 DEF HNmi, ServiceNmi
  <2> QED
    BY <2>5, <2>7, <2>8 DEF OffInHandler
<1>3. CASE HInt
  <2> DEFINE f  == Frame("int", Interrupted)
             fs == Touched(frames)
  <2>1. f \in Frames /\ frames' = Append(fs, f)
    BY <1>1, <1>3, NewFrame DEF Kinds, HInt
  <2>2. /\ fs \in Seq(Frames) /\ Len(fs) = Len(frames)
        /\ \A k \in DOMAIN frames : fs[k].kind = frames[k].kind
    BY <1>1, TouchedFrames
  <2> HIDE DEF f, fs
  <2>3. /\ frames' \in Seq(Frames) /\ Len(frames') = Len(frames) + 1
        /\ \A k \in 1 .. Len(frames) : frames'[k] = fs[k]
    BY <2>1, <2>2, AppendProperties
  <2>4. DOMAIN frames' = 1 .. Len(frames) + 1
    BY <2>3, LenProperties
  <2>5. ~InInt(frames)
    BY <1>3 DEF HInt, AcceptInt, TakesInt, OffInHandler
  <2>6. ASSUME NEW k \in DOMAIN frames', frames'[k].kind = "int" PROVE k = Len(frames) + 1
    <3>1. k = Len(frames) + 1 \/ k \in 1 .. Len(frames)
      BY <1>1, <2>4, SMT
    <3>2. ASSUME k \in 1 .. Len(frames) PROVE frames[k].kind = "int"
      BY <1>1, <2>2, <2>3, <2>6, <3>2
    <3> QED
      BY <1>1, <2>5, <3>1, <3>2 DEF InInt
  <2>7. NoIntNesting'
    BY <2>6 DEF NoIntNesting
  <2>8. ~iff1' /\ ~iff2'
    BY <1>3 DEF HInt, AcceptInt
  <2> QED
    BY <2>7, <2>8 DEF OffInHandler
<1>4. CASE HExecute
  <2>1. NoIntNesting' /\ (InInt(frames') => InInt(frames))
    BY <1>4, NoNewInt DEF NoIntNesting, InInt
  <2>2. OffInHandler'
    <3> SUFFICES ASSUME InInt(frames')
                 PROVE  (~iff1' /\ ~iff2') \/ (ei_pending' /\ ~halted')
      BY DEF OffInHandler
    <3>1. CASE IntLeftBehindEi
      <4>1. ~iff1 /\ ~iff2
        BY <1>4, <2>1, <3>1 DEF IntLeftBehindEi, OffInHandler
      <4> QED
        BY <1>4, <4>1, StaysOffOrEi DEF HExecute
    <3>2. CASE UNCHANGED hvars
      BY <2>1, <3>2 DEF hvars, vars, regs, OffInHandler
    <3> QED
      BY <3>1, <3>2
  <2> QED
    BY <2>1, <2>2
<1>5. CASE HReset \/ HLoad
  BY <1>5 DEF HReset, HLoad, NoIntNesting, OffInHandler, InInt
<1>6. CASE HHalt
  <2>1. frames' = frames /\ iff1' = iff1 /\ iff2' = iff2 /\ halted
    BY <1>6 DEF HHalt, HaltCycle
  <2> QED
    BY <2>1 DEF NoIntNesting, OffInHandler, InInt
<1>7. CASE HLines \/ UNCHANGED hvars
  <2>1. /\ frames' = frames /\ iff1' = iff1 /\ iff2' = iff2
        /\ ei_pending' = ei_pending /\ halted' = halted
    BY <1>7 DEF HLines, HPulse, HNmiLine, HIntLine,
                SetNmiLine, SetIntLine, PulseIntLine, hvars, history, vars, regs
  <2> QED
    BY <2>1 DEF NoIntNesting, OffInHandler, InInt
<1> QED
  BY <1>2, <1>3, <1>4, <1>5, <1>6, <1>7 DEF HNext, HStep, HHost

\* In every program whose INT handlers end right behind their EI, a line that is
\* held active enters no handler twice, on whatever path the handler comes to its
\* end; NMIs may nest in it anywhere but in front of that last instruction.
THEOREM IntsNeverNest ==
    HSpec /\ [][IntLeftBehindEi]_hvars => []NoIntNesting
<1>1. HInit => OneInt
  BY DEF HInit, OneInt, NoIntNesting, OffInHandler, InInt
<1>2. TypeOK /\ FramesOK /\ OneInt /\ [HNext]_hvars /\ [IntLeftBehindEi]_hvars => OneInt'
  BY OneIntKept
<1>3. OneInt => NoIntNesting
  BY DEF OneInt
<1> QED
  BY <1>1, <1>2, <1>3, HistoryTypes, PTL DEF HSpec


=============================================================================
