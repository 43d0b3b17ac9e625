----------------------------- MODULE MCPrograms -----------------------------
(***************************************************************************)
(* Programs, data bus bytes, snapshots and bounds for the instances TLC    *)
(* checks.  A program is a ROM; RAM is the sixteen bytes at the top, so     *)
(* that a stack starting at SP = 0 lives in it; all else is open bus.      *)
(***************************************************************************)
EXTENDS Integers, Sequences, TLC

\* A ROM is put together from segments: the bytes from address org on.
Bytes(org, bytes) == [a \in org .. org + Len(bytes) - 1 |-> bytes[a - org + 1]]

StackTop == \hFFF0 .. \hFFFF
MCRamImages == {[a \in StackTop |-> 0]}

ShortStack == \hFFFC .. \hFFFF
ShortImages == {[a \in ShortStack |-> 0]}

\* IM 1: wait in HALT with interrupts on; the handler saves AF and ends in EI; RET.
WaitLoop ==
    Bytes(\h00, <<\h31, 0, 0,           \* LD SP,0
                  \hED, \h56,           \* IM 1
                  \hFB,                 \* EI
                  \h76,                 \* HALT
                  \h00,                 \* NOP
                  \h18, \hFB>>)       \* JR to the EI
    @@ Bytes(\h38, <<\hF5, \hF1, \hFB, \hC9>>)   \* PUSH AF; POP AF; EI; RET
    @@ Bytes(\h66, <<\hED, \h45>>)              \* RETN

\* Three programs in one ROM: the displacements of the JR at 03 and of the JR at
\* 66 are RAM, and each image of RAM picks one program and one NMI handler.
\* IM 1: HALT, and a handler with PUSH and POP.  IM 2: calls, stack moves, DI
\* windows, two handlers, one table entry across a page.  IM 0: RST from the
\* data bus and in the program, HALT behind prefixes.
PickProgram == \h04
PickHandler == \h67

Interrupts ==
    Bytes(\h00, <<\h31, 0, 0,           \* LD SP,0
                  \h18>>)               \* 03: JR to a program
    @@ Bytes(\h05, <<\hED, \h56,         \* 05: IM 1
                  \hFB,                 \* EI
                  \h76,                 \* HALT
                  \h18, \hF8>>)         \* JR 03
    @@ Bytes(\h40, <<\hED, \h5E,         \* 40: IM 2
                  \hFB,                 \* 42: EI
                  \hCD, \hB0, 0,        \* CALL B0
                  \hF3,                 \* DI
                  \h3B, \h33,           \* DEC SP; INC SP
                  \hC3, \h42, 0>>)      \* JP 42
    @@ Bytes(\h54, <<\hED, \h46,         \* 54: IM 0
                  \hFB,                 \* 56: EI
                  \hDD, \hFD, \h76,     \* HALT
                  \hE7,                 \* RST 20
                  \h18, \hF9>>)         \* JR 56
    @@ Bytes(\hB0, <<\hED, \h47,         \* LD I,A
                  \hC8,                 \* RET Z
                  \hCC, \hB6, 0,        \* CALL Z,B6
                  \hC9>>)               \* B6: RET
    @@ Bytes(\h10, <<\hFB, \hC9>>)               \* EI; RET
    @@ Bytes(\h20, <<\hC9>>)                     \* RET
    @@ Bytes(\h38, <<\hF5, \hF1, \hFB, \hC9>>)   \* PUSH AF; POP AF; EI; RET
    @@ Bytes(\h66, <<\h18>>)                     \* JR to a handler
    @@ Bytes(\h68, <<\hED, \h45,                 \* 68: RETN
                    \hFB, \h00, \hED, \h45>>)     \* 6A: EI; NOP; RETN
    @@ Bytes(\h7F, <<\h90, \h00, \h90>>)         \* vectors at 7F and 80: 0090, 9000
    @@ Bytes(\h90, <<\hFB, \hED, \h4D>>)         \* EI; RETI
    @@ Bytes(\hD7, <<\h90, \h00>>)              \* vector at D7: 0090
    @@ Bytes(\h9000, <<\hFB, \hC9>>)            \* EI; RET

PickRam == StackTop \cup {PickProgram, PickHandler}
Picks == {[program |-> \h05, handler |-> \h68], [program |-> \h40, handler |-> \h6A],
          [program |-> \h54, handler |-> \h68]}
PickImages ==
    {[a \in PickRam |-> CASE a = PickProgram -> pick.program - \h05
                         [] a = PickHandler -> pick.handler - \h68
                         [] OTHER           -> 0] : pick \in Picks}

Registers(p, e) ==
    [pc |-> p, sp |-> 0, iff1 |-> TRUE, iff2 |-> TRUE, im |-> 1, i |-> 0,
     halted |-> ~e, ei_pending |-> e, nmi_line |-> FALSE, nmi_pending |-> FALSE,
     int_line |-> FALSE, int_pulse_pending |-> TRUE]

\* Saved on the first HALT of Interrupts with both interrupts outstanding, and
\* saved right behind its EI with a pulse outstanding.
WaitSnapshots ==
    {[Registers(\h08, FALSE) EXCEPT !.nmi_pending = TRUE, !.nmi_line = TRUE],
     Registers(\h08, TRUE)}

\* IM 2 again, for the grain of bus cycles: HALT, CALL, RST, PUSH and POP, and
\* the operand fetches.
BusLoop ==
    Bytes(\h00, <<\h31, 0, 0,           \* LD SP,0
                  \hED, \h5E,           \* IM 2
                  \hFB,                 \* 05: EI
                  \hDD, \h7E, 0,        \* LD A,(IX+0)
                  \h76,                 \* HALT
                  \hCD, \h10, 0,        \* CALL 10
                  \hF3,                 \* DI
                  \h18, \hF5>>)         \* JR 05
    @@ Bytes(\h10, <<\hE7,              \* RST 20
                  \hC3, \h18, 0>>)      \* JP 18
    @@ Bytes(\h18, <<\h3E, 0, \hC9>>)           \* LD A,0; RET
    @@ Bytes(\h20, <<\h21, 0, 0, \hED, \h44, \hC9>>) \* LD HL,0; NEG; RET
    @@ Bytes(\h38, <<\hFB, \hC9>>)               \* EI; RET
    @@ Bytes(\h66, <<\hED, \h45>>)               \* RETN
    @@ Bytes(\h7F, <<\h90, \h00>>)               \* vector at 7F: 0090
    @@ Bytes(\h90, <<\hF5, \hF1, \hFB, \hED, \h4D>>) \* PUSH AF; POP AF; EI; RETI

\* Saved on the HALT of BusLoop with both interrupts outstanding.
BusSnapshots ==
    {[Registers(9, FALSE) EXCEPT !.im = 2, !.nmi_pending = TRUE, !.nmi_line = TRUE]}

\* For resets from inside a callback: IM 2, HALT, CALL, a prefixed RET, RETN.
\* PC and SP may end up anywhere; open bus reads C7, RST 0, which starts over.
ResetLoop ==
    Bytes(\h00, <<\h31, 0, 0,           \* LD SP,0
                  \hED, \h5E,           \* IM 2
                  \hFB,                 \* 05: EI
                  \h76,                 \* HALT
                  \hCD, \h16, 0,        \* CALL 16
                  \hC3, 5, 0>>)         \* JP 05
    @@ Bytes(\h16, <<\hDD, \hC9>>)             \* RET
    @@ Bytes(\h66, <<\hED, \h45>>)             \* RETN
    @@ Bytes(\h7F, <<\h90, \h00>>)             \* vector at 7F: 0090
    @@ Bytes(\h90, <<\hED, \h4D>>)             \* RETI

\* Every instruction there is, in RAM at the reset address: all opcodes of all
\* pages, alone, behind two prefixes, and with another instruction as operand.
\* Open bus reads C3, and JP C3C3 jumps to itself.
OpcodeRam == 0 .. 2
Prefix == {\hCB, \hED, \hDD, \hFD}
OpcodeImages ==
    {<<op, \h76, \hFB>> : op \in 0 .. 255}
    \cup {<<p, op, \h06>> : p \in Prefix, op \in 0 .. 255}
    \cup {<<p, q, op>> : p \in {\hDD, \hFD}, q \in Prefix, op \in {\h76, \h45, \hFB}}
AnyOpcode == {[a \in OpcodeRam |-> image[a + 1]] : image \in OpcodeImages}
NoRom == <<>>
Registers16 == {0, 1, \hFB76}

None == {}
Acks == {\hFF, \hD7, \h00}
BusBytes == {\h7F, \h80, \hD7}
Zero == {0}
OneWord == {\hA55A}
OneLow == {\h00A5}
OneDeep == {\hFFFE}
MidPush == {\hFFFF}
OneVector == {\h7F}
=============================================================================
