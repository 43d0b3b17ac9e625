----------------------------- MODULE Z80Latches -----------------------------
(***************************************************************************)
(* Q, which a program sees only through bits 5 and 3 of F.  SCF and CCF mix *)
(* them from A, F and Q, and Q must be what the instruction before wrote to *)
(* F: F itself, or zero if that one wrote none.  No function owns Q:        *)
(* write_flags() sets flags_modified_, step() turns it into Q at the end,   *)
(* and the prefixes, both interrupt services, HALT and reset() clear it;    *)
(* instructions that load F whole bypass write_flags().  Whether Q is right *)
(* therefore hangs on each instruction calling write_flags() or not, so     *)
(* the opcodes of every page that call it are listed as the code has them.  *)
(*                                                                         *)
(* A byte is kept as the set of its bits among 5 and 3: union is |, the     *)
(* symmetric difference is ^.  n counts the DD and FD bytes in front of an   *)
(* instruction; behind any, dispatch_index has cases of its own.            *)
(***************************************************************************)
EXTENDS Z80Word

CONSTANTS
    MaxPrefix,   \* bound: DD and FD bytes in front of an opcode
    Snapshots    \* what the host may load

Bits == {5, 3}
YX   == SUBSET Bits

SnapshotType == [a : YX, f : YX, q : YX, a_alt : YX, f_alt : YX, halted : BOOLEAN]

\* save_snapshot() returns registers in which Q is F or zero (QAgrees).
ASSUME LatchAssumption ==
    /\ MaxPrefix \in Nat
    /\ Snapshots \subseteq {s \in SnapshotType : s.q \in {s.f, {}}}

VARIABLES a, f, a_alt, f_alt, q, halted,
          flags_modified,
          wrote   \* history: the step before was an instruction that affects F

lvars == <<a, f, a_alt, f_alt, q, halted, flags_modified, wrote>>

-----------------------------------------------------------------------------
(* Which opcodes call write_flags(), page by page.                           *)

\* INC r and DEC r, RLCA to RRA, ADD HL,rr, DAA, CPL, SCF, CCF, ALU A,r and A,n.
MainWrites ==
    {\h04, \h05, \h0C, \h0D, \h14, \h15, \h1C, \h1D,
     \h24, \h25, \h2C, \h2D, \h34, \h35, \h3C, \h3D,
     \h07, \h0F, \h17, \h1F, \h09, \h19, \h29, \h39, \h27, \h2F, \h37, \h3F,
     \hC6, \hCE, \hD6, \hDE, \hE6, \hEE, \hF6, \hFE}
    \cup \h80 .. \hBF

\* The cases of dispatch_index that write flags, and those that do not.  Any
\* other opcode is dispatched as if it had no prefix.
IndexWrites ==
    {\h09, \h19, \h29, \h39, \h24, \h25, \h2C, \h2D, \h34, \h35,
     \h84, \h85, \h86, \h8C, \h8D, \h8E, \h94, \h95, \h96, \h9C, \h9D, \h9E,
     \hA4, \hA5, \hA6, \hAC, \hAD, \hAE, \hB4, \hB5, \hB6, \hBC, \hBD, \hBE}
IndexSilent ==
    {\h21, \h22, \h23, \h26, \h2A, \h2B, \h2E, \h36, \hE1, \hE3, \hE5, \hE9, \hF9,
     \h44, \h45, \h46, \h4C, \h4D, \h4E, \h54, \h55, \h56, \h5C, \h5D, \h5E,
     \h7C, \h7D, \h7E}
    \cup \h60 .. \h75 \cup {\h77}

\* MUTANT of EdWrites: NEG sets F itself.
EdWritesButNeg ==
    {\h40, \h48, \h50, \h58, \h60, \h68, \h70, \h78, \h57, \h5F, \h67, \h6F,
     \h42, \h52, \h62, \h72, \h4A, \h5A, \h6A, \h7A,
     \hA0, \hA1, \hA2, \hA3, \hA8, \hA9, \hAA, \hAB,
     \hB0, \hB1, \hB2, \hB3, \hB8, \hB9, \hBA, \hBB}

\* IN r,(C), SBC and ADC HL,rr, NEG, LD A,I and LD A,R, RRD and RLD, blocks.
EdWrites ==
    {\h40, \h48, \h50, \h58, \h60, \h68, \h70, \h78,
     \h42, \h52, \h62, \h72, \h4A, \h5A, \h6A, \h7A,
     \h44, \h4C, \h54, \h5C, \h64, \h6C, \h74, \h7C, \h57, \h5F, \h67, \h6F,
     \hA0, \hA1, \hA2, \hA3, \hA8, \hA9, \hAA, \hAB,
     \hB0, \hB1, \hB2, \hB3, \hB8, \hB9, \hBA, \hBB}

\* Rotates, shifts and BIT; RES and SET leave F alone.
CbWrites == {op \in Byte : op \div 64 \in {0, 1}}
IndexCbWrites == {op \in Byte : op \div 64 \in {0, 1}}

Pages == {"main", "cb", "ed"}

\* ED behind a prefix is the plain ED page; CB behind one is a page of its own.
WritesFlags(page, op, n) ==
    CASE page = "main" -> op \in IF n = 0 THEN MainWrites
                                 ELSE IndexWrites \cup (MainWrites \ IndexSilent)
      [] page = "cb"   -> op \in IF n = 0 THEN CbWrites ELSE IndexCbWrites
      [] page = "ed"   -> op \in EdWrites

-----------------------------------------------------------------------------
(* The reference: the instructions that affect F, by where they stand in the  *)
(* table of opcodes.  An opcode is x (two bits), y (three) and z (three); a    *)
(* prefix changes what an instruction works on, never whether it affects F.   *)

X(op) == op \div 64
Y(op) == (op \div 8) % 8
Z(op) == op % 8

Affects(page, op) ==
    \/ /\ page = "main"
       /\ \/ X(op) = 0 /\ Z(op) = 1 /\ Y(op) % 2 = 1    \* ADD HL,rr
          \/ X(op) = 0 /\ Z(op) \in {4, 5, 7}           \* INC, DEC, RLCA to CCF
          \/ X(op) = 2                                  \* ALU A,r
          \/ X(op) = 3 /\ Z(op) = 6                     \* ALU A,n
    \/ page = "cb" /\ X(op) < 2
    \/ /\ page = "ed"
       /\ \/ X(op) = 1 /\ Z(op) \in {0, 2, 4}           \* IN, ADC and SBC, NEG
          \/ X(op) = 1 /\ Z(op) = 7 /\ Y(op) \in 2 .. 5 \* LD A,I to RLD
          \/ X(op) = 2 /\ Y(op) > 3 /\ Z(op) < 4        \* the block instructions

-----------------------------------------------------------------------------
(* Instructions.                                                             *)

Mixed(u, v) == (u \ v) \cup (v \ u)

\* MUTANT of QBehind: dispatch_index leaves Q alone.
QBehindKept(n) == q

\* Q as the instruction behind n prefixes finds it.
QBehind(n) == IF n = 0 THEN q ELSE {}

\* MUTANT of EndStep: flags_modified_ is not cleared when the step begins.
EndStepKept(modified) ==
    /\ flags_modified' = (flags_modified \/ modified)
    /\ q' = IF flags_modified' THEN f' ELSE {}

\* step() clears flags_modified_ first and turns it into Q last.
EndStep(modified) ==
    /\ flags_modified' = modified
    /\ q' = IF flags_modified' THEN f' ELSE {}

\* SCF and CCF, EX AF,AF' and POP AF: what they do to F is known.
ScfCcfOps  == {\h37, \h3F}
SetAfOps   == {\h08, \hF1}
KnownOps   == ScfCcfOps \cup SetAfOps

\* Any that calls write_flags() but those; many load A too.
Writer(page, op, n) ==
    /\ ~halted /\ WritesFlags(page, op, n) /\ ~(page = "main" /\ op \in KnownOps)
    /\ a' \in YX /\ f' \in YX
    /\ EndStep(TRUE)
    /\ wrote' = Affects(page, op)
    /\ UNCHANGED <<a_alt, f_alt, halted>>

\* Any that does not, so that F stays: loads, jumps, HALT.
Plain(page, op, n) ==
    /\ ~halted /\ ~WritesFlags(page, op, n) /\ ~(page = "main" /\ op \in KnownOps)
    /\ a' \in YX
    /\ halted' = (page = "main" /\ op = \h76)
    /\ EndStep(FALSE)
    /\ wrote' = Affects(page, op)
    /\ UNCHANGED <<f, a_alt, f_alt>>

ScfCcf(op, n) ==
    /\ ~halted /\ op \in ScfCcfOps
    /\ f' = Mixed(f, QBehind(n)) \cup a
    /\ EndStep(WritesFlags("main", op, n))
    /\ wrote' = Affects("main", op)
    /\ UNCHANGED <<a, a_alt, f_alt, halted>>

\* EX AF,AF' and POP AF load F with set_af().
SetAf(op, n) ==
    /\ ~halted
    /\ \/ op = \h08 /\ a' = a_alt /\ f' = f_alt /\ a_alt' = a /\ f_alt' = f
       \/ op = \hF1 /\ a' \in YX /\ f' \in YX /\ UNCHANGED <<a_alt, f_alt>>
    /\ EndStep(WritesFlags("main", op, n))
    /\ wrote' = Affects("main", op)
    /\ UNCHANGED halted

Instruction ==
    \E op \in Byte, n \in 0 .. MaxPrefix :
        \/ \E page \in Pages : Writer(page, op, n) \/ Plain(page, op, n)
        \/ ScfCcf(op, n)
        \/ SetAf(op, n)

-----------------------------------------------------------------------------
(* What else a step may be, and what the host calls between steps.           *)

ClearQ == q' = {} /\ flags_modified' = FALSE /\ wrote' = FALSE

HaltCycle ==
    /\ halted
    /\ ClearQ
    /\ UNCHANGED <<a, f, a_alt, f_alt, halted>>

\* handle_nmi and handle_int.
Interrupt ==
    /\ halted' = FALSE
    /\ ClearQ
    /\ UNCHANGED <<a, f, a_alt, f_alt>>

\* reset() and load_snapshot() do not touch flags_modified_.
Reset ==
    /\ a' = Bits /\ f' = Bits /\ a_alt' = {} /\ f_alt' = {}
    /\ q' = {} /\ halted' = FALSE /\ wrote' = FALSE
    /\ UNCHANGED flags_modified

LoadSnapshot(s) ==
    /\ a' = s.a /\ f' = s.f /\ a_alt' = s.a_alt /\ f_alt' = s.f_alt
    /\ q' = s.q /\ halted' = s.halted /\ wrote' = (s.q = s.f)
    /\ UNCHANGED flags_modified

Init ==
    /\ a = Bits /\ f = Bits /\ a_alt = {} /\ f_alt = {}
    /\ q = {} /\ halted = FALSE /\ flags_modified = FALSE /\ wrote = FALSE

Next ==
    \/ Instruction
    \/ HaltCycle \/ Interrupt \/ Reset
    \/ \E s \in Snapshots : LoadSnapshot(s)

Spec == Init /\ [][Next]_lvars

-----------------------------------------------------------------------------

\* Between two steps Q is F if the step before was an instruction that affects F,
\* and zero otherwise: every opcode of every page, prefixed or not, calls
\* write_flags() when it should and only then, and Q is never a flag byte from
\* further back, whatever prefixes, exchanges, interrupts, HALT cycles and
\* snapshots came between (z80.cpp:210 and 242; registers.hpp:48).
QAgrees == q = IF wrote THEN f ELSE {}

\* SCF and CCF take bits 5 and 3 from A alone directly behind an instruction
\* that affects F, and from A and F together behind anything else or behind a
\* prefix of their own (decode.cpp:313 and 362; CHANGELOG.md, 1.0.1).
ScfRule ==
    [][\A op \in ScfCcfOps, n \in 0 .. MaxPrefix :
         ScfCcf(op, n) => f' = a \cup (IF wrote /\ n = 0 THEN {} ELSE f)]_lvars

=============================================================================
