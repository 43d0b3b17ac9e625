------------------------------ MODULE Z80Timing ------------------------------
(***************************************************************************)
(* Decoding and timing of every opcode on every page: which bus cycles an  *)
(* instruction makes, in which order, and how many T-states the decoder    *)
(* declares for it.  The program is the environment: any byte may follow   *)
(* any other, any condition may hold.  Registers are abstracted away.      *)
(*                                                                         *)
(* t is instruction_t_states_, accumulated by machine_cycle; declared is    *)
(* the value the dispatch functions return.  step() asserts that they      *)
(* agree (z80.cpp:241), in debug builds and for the opcode that runs.      *)
(* Wait states are the host's and enter neither.                           *)
(***************************************************************************)
EXTENDS Integers, Sequences

CONSTANTS
    Opcodes,   \* the bytes the program may contain
    MaxPrefix  \* BOUND: DD/FD bytes of one instruction that t and declared
               \* count; each further one adds 4 to both

ASSUME OpcodeAssumption == Opcodes \subseteq 0 .. 255 /\ MaxPrefix \in Nat \ {0}

VARIABLES
    phase,     \* "host", the page of the next opcode byte, "cycles" or "push"
    prefixes,  \* DD/FD bytes counted so far
    idx,       \* the last of them: DD makes IX the index register, FD makes it IY
    todo,      \* the bus cycles the instruction still makes
    t, declared,
    wrote      \* the instruction has driven the bus

tvars == <<phase, prefixes, idx, todo, t, declared, wrote>>

Length == [m1 |-> 4, imm |-> 3, rd |-> 3, wr |-> 3, in |-> 4, out |-> 4, idle |-> 1]
Idle(n) == [k \in 1 .. n |-> "idle"]
When(condition, cycles) == IF condition THEN cycles ELSE <<>>

Imm2 == <<"imm", "imm">>
Rd2  == <<"rd", "rd">>
Wr2  == <<"wr", "wr">>

\* The word at the address behind the opcode, and a push with its internal cycle.
LoadWord  == Imm2 \o Rd2
StoreWord == Imm2 \o Wr2
Push      == <<"idle">> \o Wr2
Call      == Imm2 \o Push

\* A displacement byte and the five internal cycles that add it.
Displaced == <<"imm">> \o Idle(5)

\* The low field of an opcode, which the decoder's masks tell columns by.
Col(op) == op % 8

-----------------------------------------------------------------------------
(* timing.cpp: the T-states of the base page, branches not taken or plain.   *)

BaseRowsLow == <<
    <<4, 10,  7, 6,  4,  4,  7, 4,  4, 11,  7, 6,  4,  4,  7, 4>>,
    <<8, 10,  7, 6,  4,  4,  7, 4, 12, 11,  7, 6,  4,  4,  7, 4>>,
    <<7, 10, 16, 6,  4,  4,  7, 4,  7, 11, 16, 6,  4,  4,  7, 4>>,
    <<7, 10, 13, 6, 11, 11, 10, 4,  7, 11, 13, 6,  4,  4,  7, 4>>,
    <<4,  4,  4, 4,  4,  4,  7, 4,  4,  4,  4, 4,  4,  4,  7, 4>>,
    <<4,  4,  4, 4,  4,  4,  7, 4,  4,  4,  4, 4,  4,  4,  7, 4>>,
    <<4,  4,  4, 4,  4,  4,  7, 4,  4,  4,  4, 4,  4,  4,  7, 4>>,
    <<7,  7,  7, 7,  7,  7,  4, 7,  4,  4,  4, 4,  4,  4,  7, 4>> >>

BaseRowsHigh == <<
    <<4,  4,  4,  4,  4,  4, 7,  4,  4,  4,  4,  4,  4,  4, 7,  4>>,
    <<4,  4,  4,  4,  4,  4, 7,  4,  4,  4,  4,  4,  4,  4, 7,  4>>,
    <<4,  4,  4,  4,  4,  4, 7,  4,  4,  4,  4,  4,  4,  4, 7,  4>>,
    <<4,  4,  4,  4,  4,  4, 7,  4,  4,  4,  4,  4,  4,  4, 7,  4>>,
    <<5, 10, 10, 10, 10, 11, 7, 11,  5, 10, 10,  0, 10, 17, 7, 11>>,
    <<5, 10, 10, 11, 10, 11, 7, 11,  5,  4, 10, 11, 10,  0, 7, 11>>,
    <<5, 10, 10, 19, 10, 11, 7, 11,  5,  4, 10,  4, 10,  0, 7, 11>>,
    <<5, 10, 10,  4, 10, 11, 7, 11,  5,  6, 10,  4, 10,  0, 7, 11>> >>

BaseT(op) == IF op < 128 THEN BaseRowsLow[op \div 16 + 1][(op % 16) + 1]
             ELSE BaseRowsHigh[op \div 16 - 7][(op % 16) + 1]

-----------------------------------------------------------------------------
(* dispatch_unprefixed: cycles behind the opcode fetch, and the declared T.  *)

\* The idle cycles it makes before the switch.
PreIdle(op) ==
    When((op < 64 /\ Col(op) = 3) \/ op = \hF9, Idle(2))
    \o When((op >= \hC0 /\ Col(op) = 0)
            \/ op \in {\hC5, \hD5, \hE5, \hF5}, Idle(1))

\* MUTANT of ExchangeSP: the two bytes are exchanged one after the other.
ExchangeBytes == <<"rd", "wr", "rd", "wr">> \o Idle(3)

\* EX (SP),HL, IX or IY.
ExchangeSP == Rd2 \o <<"idle">> \o Wr2 \o Idle(2)

Cycles00(op, taken) ==
    CASE op = \h10                            -> <<"idle", "imm">> \o When(taken, Idle(5))
      [] op = \h18                            -> Displaced
      [] op \in {\h20, \h28, \h30, \h38}      -> IF taken THEN Displaced ELSE <<"imm">>
      [] op \in {\h01, \h11, \h21, \h31}      -> Imm2
      [] op \in {\h09, \h19, \h29, \h39}      -> Idle(7)
      [] op \in {\h02, \h12}                  -> <<"wr">>
      [] op \in {\h0A, \h1A}                  -> <<"rd">>
      [] op = \h22                            -> StoreWord
      [] op = \h2A                            -> LoadWord
      [] op = \h32                            -> Imm2 \o <<"wr">>
      [] op = \h3A                            -> Imm2 \o <<"rd">>
      [] op \in {\h34, \h35}                  -> <<"rd", "idle", "wr">>
      [] op = \h36                            -> <<"imm", "wr">>
      [] Col(op) = 6 /\ op # \h36             -> <<"imm">>
      [] OTHER                                -> <<>>

\* LD r,r' (0x40..0x7F) and ALU A,r (0x80..0xBF): column 6 reads (HL), row 6 of
\* the loads writes it, and where they cross is HALT.
Cycles40(op) ==
    When(Col(op) = 6 /\ op # \h76, <<"rd">>)
    \o When(op \in \h70 .. \h77 /\ op # \h76, <<"wr">>)

CyclesC0(op, taken) ==
    CASE Col(op) = 0                          -> When(taken, Rd2)
      [] op \in {\hC1, \hD1, \hE1, \hF1, \hC9} -> Rd2
      [] Col(op) = 2 \/ op = \hC3             -> Imm2
      [] op = \hD3                            -> <<"imm", "out">>
      [] op = \hDB                            -> <<"imm", "in">>
      [] op = \hE3                            -> ExchangeSP
      [] Col(op) = 4                          -> IF taken THEN Call ELSE Imm2
      [] op \in {\hC5, \hD5, \hE5, \hF5}      -> Wr2
      [] op = \hCD                            -> Call
      [] Col(op) = 6                          -> <<"imm">>
      [] Col(op) = 7                          -> Push
      [] OTHER                                -> <<>>

BaseCycles(op, taken) ==
    PreIdle(op) \o CASE op < 64    -> Cycles00(op, taken)
                     [] op >= \hC0 -> CyclesC0(op, taken)
                     [] OTHER      -> Cycles40(op)

BaseDeclared(op, taken) ==
    CASE op = \h10                       -> IF taken THEN 13 ELSE 8
      [] op \in {\h20, \h28, \h30, \h38} -> IF taken THEN 12 ELSE 7
      [] op >= \hC0 /\ Col(op) = 0       -> IF taken THEN 11 ELSE 5
      [] op >= \hC0 /\ Col(op) = 4       -> IF taken THEN 17 ELSE 10
      [] OTHER                           -> BaseT(op)

-----------------------------------------------------------------------------
(* dispatch_cb, dispatch_ed.                                                 *)

\* BIT (0x40..0x7F) does not write (HL) back.
IsBit(op) == op \div 64 = 1

CbCycles(op) ==
    When(Col(op) = 6, <<"rd", "idle">> \o When(~IsBit(op), <<"wr">>))

\* MUTANT of CbDeclared: BIT b,(HL) is declared like SET b,(HL).
CbDeclaredAlike(op) == IF Col(op) # 6 THEN 8 ELSE 15

CbDeclared(op) == IF Col(op) # 6 THEN 8 ELSE IF IsBit(op) THEN 12 ELSE 15

Repeats == {\hB0, \hB1, \hB2, \hB3, \hB8, \hB9, \hBA, \hBB}
Blocks  == Repeats \cup {op - 16 : op \in Repeats}

\* block_ld, block_cp, block_in and block_out; again says it is not done.
BlockCycles(op, again) ==
    (CASE Col(op) = 0 -> <<"rd", "wr">> \o Idle(2)
       [] Col(op) = 1 -> <<"rd">> \o Idle(5)
       [] Col(op) = 2 -> <<"idle", "in", "wr">>
       [] Col(op) = 3 -> <<"idle", "rd", "out">>)
    \o When(op \in Repeats /\ again, Idle(5))

\* RRD and RLD.
RotateDigit == <<"rd">> \o Idle(4) \o <<"wr">>

EdCycles(op, again) ==
    IF op \in Blocks THEN BlockCycles(op, again)
    ELSE IF op \notin \h40 .. \h7F THEN <<>>
    ELSE CASE Col(op) = 0                     -> <<"in">>
           [] Col(op) = 1                     -> <<"out">>
           [] Col(op) = 2                     -> Idle(7)
           [] op \in {\h43, \h53, \h63, \h73} -> StoreWord
           [] op \in {\h4B, \h5B, \h6B, \h7B} -> LoadWord
           [] Col(op) = 5                     -> Rd2
           [] op \in {\h47, \h4F, \h57, \h5F} -> <<"idle">>
           [] op \in {\h67, \h6F}             -> RotateDigit
           [] OTHER                           -> <<>>

EdDeclared(op, again) ==
    IF op \in Blocks THEN IF op \in Repeats /\ again THEN 21 ELSE 16
    ELSE IF op \notin \h40 .. \h7F THEN 8
    ELSE CASE Col(op) \in {0, 1}              -> 12
           [] Col(op) = 2                     -> 15
           [] Col(op) = 3                     -> 20
           [] Col(op) = 5                     -> 14
           [] op \in {\h47, \h4F, \h57, \h5F} -> 9
           [] op \in {\h67, \h6F}             -> 18
           [] OTHER                           -> 8

-----------------------------------------------------------------------------
(* dispatch_index: the opcodes that mean something of their own behind DD or
   FD, and what they add to the 4 T-states of every prefix byte.             *)

\* (HL) becomes (IX+d) or (IY+d).
IndexMemory == {op \in (\h40 .. \hBF) \ {\h76} :
                  Col(op) = 6 \/ op \in \h70 .. \h77}
\* H and L become the halves of the index register.
IndexHalves == {\h24, \h25, \h2C, \h2D, \hE9}
    \cup {op \in (\h40 .. \hBF) \ IndexMemory :
            op # \h76 /\ (Col(op) \in {4, 5} \/ op \in \h60 .. \h6F)}
IndexOps == IndexMemory \cup IndexHalves
    \cup {\h09, \h19, \h29, \h39, \h21, \h22, \h2A, \h23, \h2B, \h26, \h2E,
          \h34, \h35, \h36, \hE1, \hE5, \hE3, \hF9}

IndexCycles(op) ==
    CASE op \in IndexMemory                   -> Displaced \o IF op \in \h70 .. \h77
                                                              THEN <<"wr">> ELSE <<"rd">>
      [] op \in IndexHalves                   -> <<>>
      [] op \in {\h09, \h19, \h29, \h39}      -> Idle(7)
      [] op = \h21                            -> Imm2
      [] op = \h22                            -> StoreWord
      [] op = \h2A                            -> LoadWord
      [] op \in {\h23, \h2B, \hF9}            -> Idle(2)
      [] op \in {\h26, \h2E}                  -> <<"imm">>
      [] op \in {\h34, \h35}                  -> Displaced \o <<"rd", "idle", "wr">>
      [] op = \h36                            -> Imm2 \o Idle(2) \o <<"wr">>
      [] op = \hE1                            -> Rd2
      [] op = \hE5                            -> Push
      [] op = \hE3                            -> ExchangeSP

IndexDeclared(op) ==
    CASE op \in IndexMemory \cup {\h36}       -> 15
      [] op \in IndexHalves                   -> 4
      [] op \in {\h09, \h19, \h29, \h39, \hE5} -> 11
      [] op \in {\h21, \hE1}                  -> 10
      [] op \in {\h22, \h2A}                  -> 16
      [] op \in {\h23, \h2B, \hF9}            -> 6
      [] op \in {\h26, \h2E}                  -> 7
      [] op \in {\h34, \h35, \hE3}            -> 19

\* MUTANT of IndexCbCycles: the five internal cycles of idx_addr.
IndexCbDisplaced(op) ==
    Idle(5) \o <<"rd", "idle">> \o When(~IsBit(op), <<"wr">>)

\* dispatch_index_cb: displacement and opcode are both plain operand reads.
IndexCbCycles(op) ==
    Idle(2) \o <<"rd", "idle">> \o When(~IsBit(op), <<"wr">>)

IndexCbDeclared(op) == IF IsBit(op) THEN 16 ELSE 19

-----------------------------------------------------------------------------
(* One action per bus cycle.                                                 *)

Prefixes == {\hDD, \hFD}

Decoded(cycles, total) ==
    /\ phase' = "cycles"
    /\ todo' = cycles
    /\ declared' = declared + total
    /\ UNCHANGED <<prefixes, idx, wrote>>

Fetch(kind) == t' = t + Length[kind]

\* step() finds nothing to accept and the processor is not halted.
Begin ==
    /\ phase = "host"
    /\ phase' = "base" /\ prefixes' = 0 /\ idx' = 0 /\ todo' = <<>>
    /\ t' = 0 /\ declared' = 0 /\ wrote' = FALSE

Turn(page) ==
    /\ phase' = page
    /\ UNCHANGED <<prefixes, idx, todo, declared, wrote>>

\* DD or FD, first or repeated: the loop has no other way out than an opcode.
FetchPrefix(op) ==
    /\ phase \in {"base", "index"}
    /\ op \in Prefixes
    /\ phase' = "index" /\ idx' = op
    /\ IF prefixes < MaxPrefix
       THEN Fetch("m1") /\ declared' = declared + 4 /\ prefixes' = prefixes + 1
       ELSE UNCHANGED <<t, declared, prefixes>>
    /\ UNCHANGED <<todo, wrote>>

\* The base page, directly or when dispatch_index has no use for the opcode.
FetchBase(op, taken) ==
    /\ \/ phase = "base"
       \/ phase = "index" /\ op \notin IndexOps \cup {\hCB}
    /\ op \notin Prefixes
    /\ Fetch("m1")
    /\ \/ op = \hCB /\ Turn("cb")
       \/ op = \hED /\ Turn("ed")
       \/ op \notin {\hCB, \hED} /\ Decoded(BaseCycles(op, taken), BaseDeclared(op, taken))

FetchIndex(op) ==
    /\ phase = "index"
    /\ Fetch("m1")
    /\ \/ op \in IndexOps /\ Decoded(IndexCycles(op), IndexDeclared(op))
       \/ op = \hCB /\ Turn("displacement")

FetchCb(op) == phase = "cb" /\ Fetch("m1") /\ Decoded(CbCycles(op), CbDeclared(op))

FetchEd(op, again) ==
    phase = "ed" /\ Fetch("m1") /\ Decoded(EdCycles(op, again), EdDeclared(op, again))

FetchDisplacement == phase = "displacement" /\ Fetch("imm") /\ Turn("indexcb")

FetchIndexCb(op) ==
    phase = "indexcb" /\ Fetch("imm") /\ Decoded(IndexCbCycles(op), IndexCbDeclared(op))

\* read8, write8, io_in, io_out, idle.
Cycle ==
    /\ phase = "cycles"
    /\ todo # <<>>
    /\ t' = t + Length[Head(todo)]
    /\ wrote' = (wrote \/ Head(todo) \in {"wr", "out"})
    /\ todo' = Tail(todo)
    /\ UNCHANGED <<phase, prefixes, idx, declared>>

\* step() asserts and returns.
Return ==
    /\ phase = "cycles"
    /\ todo = <<>>
    /\ phase' = "host"
    /\ UNCHANGED <<prefixes, idx, todo, t, declared, wrote>>

Init == /\ phase = "host" /\ prefixes = 0 /\ idx = 0 /\ todo = <<>>
        /\ t = 0 /\ declared = 0 /\ wrote = FALSE

Advance ==
    \/ \E op \in Opcodes, taken \in BOOLEAN :
          \/ FetchPrefix(op)
          \/ FetchBase(op, taken)
          \/ FetchIndex(op)
          \/ FetchCb(op)
          \/ FetchEd(op, taken)
          \/ FetchIndexCb(op)
    \/ FetchDisplacement
    \/ Cycle
    \/ Return

Next == Begin \/ Advance

Spec == Init /\ [][Next]_tvars

-----------------------------------------------------------------------------

\* Every opcode of every page, behind any prefixes, taken or not, finishes with
\* the bus cycles adding up to what the decoder declares: the assertion of
\* z80.cpp:241, here for all opcodes and in the order their cycles happen.
TimingAssertion == phase = "host" => t = declared

\* An instruction reads everything it needs before it drives the bus for the
\* first time.  A host whose write handler remaps memory (the bank register of
\* megadrive_sound_z80_host.cpp:73) can therefore never change what the same
\* instruction still has to read.
ReadsBeforeWrites ==
    wrote => \A k \in DOMAIN todo : todo[k] \notin {"rd", "imm", "in"}

\* No instruction takes longer than LDIR, 21 T-states, plus 4 for each prefix
\* byte: this is how far run_for can overshoot a host's time slice and how
\* long an accepted NMI can be kept waiting, wait states apart.
LongestInstruction == t <= 21 + 4 * prefixes

=============================================================================
