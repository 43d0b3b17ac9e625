----------------------------- MODULE SpectrumHost -----------------------------
(***************************************************************************)
(* examples/zx_spectrum_host.cpp: the frame loop around run_for(), with the *)
(* processor of Z80Control and the T-states of Z80Timing.  The host raises  *)
(* the INT line at the end of a frame, runs a slice of T-states and lowers  *)
(* it; run_for() only looks at the clock between steps, the processor only  *)
(* at the line.  That a frame's interrupt is taken, and taken once, is a    *)
(* matter of how long instructions, critical sections and the handler last.  *)
(*                                                                         *)
(* main() does this for one frame; here it goes on.  Duration covers the    *)
(* base and ED pages and tells a branch taken from where PC went, so the    *)
(* programs have no (IX+d) or CB opcode and no branch to the next three     *)
(* bytes.  Memory is the ROM/RAM split of Z80Control; no wait states.       *)
(***************************************************************************)
EXTENDS Z80Control

CONSTANTS
    Start,    \* the program's first address
    Frame,    \* T-states run_for is asked for before the interrupt
    Window    \* T-states run_for is asked for while the line is high

ASSUME SpectrumAssumption ==
    Start \in Word /\ Frame \in Nat \ {0} /\ Window \in Nat \ {0} /\ MaxPrefix > 0

VARIABLES
    slice,   \* which of the two run_for calls is running: "frame" or "window"
    total,   \* run_for's total
    served   \* history: interrupts accepted since the line was raised, up to 2

hvars == <<vars, slice, total, served>>

Clock == INSTANCE Z80Timing WITH
    Opcodes <- Byte, phase <- "host", prefixes <- 0, idx <- 0, todo <- <<>>,
    t <- 0, declared <- 0, wrote <- FALSE

\* The acknowledge cycle, two pushes and for IM 2 two reads.
Acknowledge == IF im = 2 THEN 7 + 4 * 3 ELSE 7 + 2 * 3

\* MUTANT of HaltTime: a halted processor takes no time.
HaltFree == 0

HaltTime == 4

\* The T-states of the instruction at PC that goes on at p.
Duration(p) ==
    IF Opcode = \hED THEN Clock!EdDeclared(ReadMem(ram, Operand), p = pc)
    ELSE 4 * PrefixRun + Clock!BaseDeclared(Opcode, p \notin Operand .. Operand + 2)

Budget == IF slice = "frame" THEN Frame ELSE Window

\* The body of run_for's loop.
Serve(d) ==
    /\ total < Budget
    /\ AcceptInt(d)
    /\ total' = total + Acknowledge
    /\ served' = IF served = 2 THEN 2 ELSE served + 1
    /\ UNCHANGED slice

Idle ==
    /\ total < Budget
    /\ HaltCycle
    /\ total' = total + HaltTime
    /\ UNCHANGED <<slice, served>>

Run ==
    /\ total < Budget
    /\ Execute
    /\ total' = total + Duration(pc')
    /\ UNCHANGED <<slice, served>>

\* run_for(k_spectrum_frame_t_states) is back.
RaiseInt ==
    /\ slice = "frame" /\ total >= Frame
    /\ SetIntLine(TRUE)
    /\ slice' = "window" /\ total' = 0 /\ served' = 0

\* MUTANT of DropInt: the line stays high for the next frame.
DropNothing ==
    /\ slice = "window" /\ total >= Window
    /\ slice' = "frame" /\ total' = 0
    /\ UNCHANGED <<vars, served>>

\* run_for(64) is back.
DropInt ==
    /\ slice = "window" /\ total >= Window
    /\ SetIntLine(FALSE)
    /\ slice' = "frame" /\ total' = 0
    /\ UNCHANGED served

\* main(): reset, then a snapshot with PC, IFF1 and IM edited and IFF2 not.
HInit ==
    /\ pc = Start /\ sp = MaxWord /\ im = 1 /\ i = 0
    /\ iff1 = TRUE /\ iff2 = FALSE /\ halted = FALSE /\ ei_pending = FALSE
    /\ nmi_line = FALSE /\ nmi_pending = FALSE
    /\ int_line = FALSE /\ int_pulse_pending = FALSE
    /\ ram \in RamImages
    /\ slice = "frame" /\ total = 0 /\ served = 1

HNext == (\E d \in DataBus : Serve(d)) \/ Idle \/ Run \/ RaiseInt \/ DropInt

HSpec == HInit /\ [][HNext]_hvars /\ WF_hvars(HNext)

-----------------------------------------------------------------------------

\* No frame's interrupt is missed: whenever the line is lowered, the interrupt
\* was accepted, although the host enabled INT by editing IFF1 alone, and
\* although the line may have come up in a critical section, in an EI shadow or
\* in HALT (zx_spectrum_host.cpp:83-93, z80.cpp:218-226).
FrameServed == slice = "frame" => served > 0

\* No frame's interrupt is taken twice, by a handler that lasts as long as the
\* line (z80.cpp:224, zx_spectrum_host.cpp:91-93).
FrameOnce == served < 2

\* run_for comes back, also while the processor waits in HALT
\* (z80.cpp:228-236 and 246-252).
FramesEnd == slice = "frame" ~> slice = "window"

=============================================================================
