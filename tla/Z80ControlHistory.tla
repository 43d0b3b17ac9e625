-------------------------- MODULE Z80ControlHistory --------------------------
(***************************************************************************)
(* Z80Control with history variables that remember what a program and its  *)
(* host may rely on across many steps: which routines are active and what  *)
(* each interrupted, what the program last did, and which interrupts the   *)
(* calls of the host have asked for and not got.  They never constrain a   *)
(* step; the properties compare the registers, the bytes in memory and the *)
(* interrupts taken with them.  frames is meant for programs that use the  *)
(* stack as a stack: no EX (SP), no LD SP,HL or LD SP,(nn), and no stores  *)
(* into it.                                                                *)
(***************************************************************************)
EXTENDS Z80Control, Sequences, SequencesExt

VARIABLES
    did,      \* what the last step but NMI services, reset or load did
    frames,   \* the words the program has on its stack, newest last
    level,    \* the NMI level the host gave last
    risen,    \* the host raised it since the last NMI, reset or load
    pulsed    \* the host pulsed INT since the last step that looked at INT

asked   == <<level, risen, pulsed>>
history == <<did, frames, asked>>
hvars   == <<vars, history>>

Kinds == {"nmi", "int", "code", "data"}

Frame(kind, word) ==
    [kind |-> kind, word |-> word, on |-> iff1, touched |-> FALSE]

\* Once the enables are changed under a frame, it no longer knows them.
Touched(fs) == [k \in DOMAIN fs |-> [fs[k] EXCEPT !.touched = TRUE]]

\* The address of the instruction an interrupt keeps from running.
Interrupted == IF halted THEN W16(pc + 1) ELSE pc

\* The service of an NMI is no instruction, and it does not look at INT.
HNmi == /\ ServiceNmi
        /\ frames' = Append(frames, Frame("nmi", Interrupted))
        /\ risen' = FALSE
        /\ UNCHANGED <<did, level, pulsed>>

HInt == /\ \E d \in DataBus : AcceptInt(d)
        /\ did' = "int"
        /\ frames' = Append(Touched(frames), Frame("int", Interrupted))
        /\ pulsed' = FALSE
        /\ UNCHANGED <<level, risen>>

HHalt == /\ HaltCycle
         /\ did' = "halt"
         /\ pulsed' = FALSE
         /\ UNCHANGED <<frames, level, risen>>

\* The word a CALL, RST or PUSH leaves for the matching RET or POP.
PushedFrame ==
    CASE Opcode % 8 = 5 /\ Opcode # \hCD -> Frame("data", ReadWord(ram', sp'))
      [] Opcode % 8 = 7                  -> Frame("code", Operand)
      [] OTHER                           -> Frame("code", W16(Operand + 2))

StackAfter ==
    IF sp' = sp THEN frames
    ELSE IF Opcode \in {\h31, \h33, \h3B} \/ (sp' # W16(sp - 2) /\ frames = <<>>) THEN <<>>
    ELSE IF sp' = W16(sp - 2) THEN Append(frames, PushedFrame)
    ELSE Front(frames)

\* RETN or RETI, which are one case in the code.
RetNs == {\h45, \h4D, \h55, \h5D, \h65, \h6D, \h75, \h7D}
IsRetN == Opcode = \hED /\ ReadMem(ram, Operand) \in RetNs

\* EI, DI, and a RETN that returns into an NMI handler, change the enables.
HExecute ==
    /\ Execute
    /\ did' = IF Opcode = \hFB THEN "ei" ELSE "instruction"
    /\ frames' = IF Opcode \in {\hFB, \hF3} \/ IsRetN THEN Touched(StackAfter)
                                                    ELSE StackAfter
    /\ pulsed' = FALSE
    /\ UNCHANGED <<level, risen>>

HNmiLine(active) ==
    /\ SetNmiLine(active)
    /\ risen' = (risen \/ (active /\ ~level))
    /\ level' = active
    /\ UNCHANGED <<did, frames, pulsed>>

HIntLine(active) == SetIntLine(active) /\ UNCHANGED history

HPulse == /\ PulseIntLine
          /\ pulsed' = TRUE
          /\ UNCHANGED <<did, frames, level, risen>>

HLines == HPulse \/ \E active \in BOOLEAN : HNmiLine(active) \/ HIntLine(active)

\* A reset drops what was asked for; the host still holds its line.
HReset ==
    /\ Reset
    /\ did' = "reset" /\ frames' = <<>>
    /\ risen' = FALSE /\ pulsed' = FALSE
    /\ UNCHANGED level

HLoad ==
    \E s \in Snapshots :
        /\ LoadSnapshot(s)
        /\ did' = IF s.ei_pending THEN "ei" ELSE "load"
        /\ frames' = <<>>
        /\ level' = s.nmi_line /\ risen' = s.nmi_pending
        /\ pulsed' = s.int_pulse_pending

HInit == /\ Init
         /\ did = "reset" /\ frames = <<>>
         /\ level = FALSE /\ risen = FALSE /\ pulsed = FALSE
HStep == HNmi \/ HInt \/ HHalt \/ HExecute
HHost == HLines \/ HReset \/ HLoad
HNext == HStep \/ HHost

HSpec     == HInit /\ [][HNext]_hvars
HFairSpec == HSpec /\ WF_hvars(HStep)

-----------------------------------------------------------------------------
(* Safety.                                                                   *)

\* The bytes in memory are exactly the words the program pushed and has not
\* popped, in order: what push16 writes, across any nesting of calls, INTs and
\* NMIs and across the wrap of SP, pop16 finds again, and an interrupt pushed
\* the address of the instruction it kept from running (behind a HALT).
StackHoldsFrames ==
    \A k \in DOMAIN frames :
        ReadWord(ram, W16(sp + 2 * (Len(frames) - k))) = frames[k].word

\* Outside every NMI handler IFF1 and IFF2 agree, so a program that was not
\* inside one when it was interrupted gets the enable state it left
\* (handle_nmi saves nothing but IFF2, decode.cpp:1028 restores nothing else).
EnablesAgree ==
    (\A k \in DOMAIN frames : frames[k].kind # "nmi") => iff1 = iff2

\* RETN out of an NMI handler that touched no enable resumes what the NMI
\* interrupted with the enable it had.  Only the outermost NMI is transparent:
\* a second edge finds IFF1 already off, and its RETN turns it on again inside
\* the handler of the first.
Outermost == \A k \in 1 .. Len(frames) - 1 : frames[k].kind # "nmi"

NmiTransparent ==
    [][ \A f \in Range(frames) :
          /\ f = Last(frames) /\ f.kind = "nmi" /\ ~f.touched /\ Outermost
          /\ IsRetN /\ HExecute
          => iff1' = f.on /\ pc' = f.word ]_hvars

\* Behind an EI one instruction runs before an INT is accepted (registers.hpp:47),
\* whatever the host does to its lines meanwhile.  The service of an NMI is no
\* instruction, so the first one of the NMI handler still has the protection; it
\* is also the one that uses it up, and the instruction behind the EI has none
\* left if the handler comes back with RETN.
EiShadow == [][HInt => did # "ei"]_hvars

\* An INT is taken when it was asked for, by a high line or by a pulse behind which
\* nothing but NMI services came: never without, so that a pulse is one INT at
\* most and none once a step has met it with interrupts off; and none is lost
\* that could be taken: with IFF1 on, only the instruction behind an EI is run in
\* front of a pulse or of a high line (one that was held over reset() too).
IntAsAsked ==
    [][IF int_line \/ pulsed THEN iff1 /\ did # "ei" => ~HHalt /\ ~HExecute
                             ELSE ~HInt]_hvars

\* Each rise of the line is one NMI, taken by the very next step: none is taken
\* without one, however often the host repeats its call and whatever it holds
\* over reset() or a snapshot, and nothing else is run in front of one.
NmiOncePerEdge ==
    [][IF risen THEN ~HInt /\ ~HHalt /\ ~HExecute ELSE ~HNmi]_hvars

\* Handlers that end in EI; RET never stack up when no NMI intervenes: the EI
\* shadow covers the RET, so at most one INT is in progress even with the
\* line held active.
NoIntNesting ==
    \A j, k \in DOMAIN frames :
        frames[j].kind = "int" /\ frames[k].kind = "int" => j = k

-----------------------------------------------------------------------------
(* Liveness, under a host that keeps stepping.                               *)

HostFallsSilent == <>[][~HHost]_hvars

\* When the host stops calling and leaves INT low, interrupts end for good:
\* every pulse and every edge is served once at most, every active handler
\* comes to its end, and the main program keeps the processor.
QuietHostSettles ==
    (HostFallsSilent /\ <>[](~int_line)) => <>[](\A k \in DOMAIN frames :
                                                   frames[k].kind \notin {"int", "nmi"})

\* A host that leaves INT active is answered again and again: neither HALT nor
\* the EI shadow starves it in a program that keeps re-enabling interrupts.
LevelIntServed ==
    (HostFallsSilent /\ <>[]int_line) => []<>(did = "int")

=============================================================================
