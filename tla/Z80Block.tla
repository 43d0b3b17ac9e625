------------------------------ MODULE Z80Block ------------------------------
(***************************************************************************)
(* LDI, CPI, INI, OUTI, their D and R forms: one round per step, on BC, DE,  *)
(* HL, memory and the ports, with the instruction itself in the memory it    *)
(* works on and interrupts between rounds.  Behind the forms that do not     *)
(* repeat stands a conditional jump back to them, so that the program does   *)
(* by flags what the R forms do by going back two bytes.                    *)
(*                                                                         *)
(* Base is 256 in the code: the number of values of B, whose square is that  *)
(* of a register pair and of an address.  The bytes moved are opaque: each   *)
(* knows where it comes from.                                               *)
(***************************************************************************)
EXTENDS Integers, Sequences

CONSTANTS
    Base,           \* values of a byte register
    Program,        \* address of the ED byte
    StackTop,       \* SP when the block begins
    MaxInterrupts   \* bound: interrupts of one block

Size == Base * Base
Addresses == 0 .. Size - 1

ASSUME BlockAssumption ==
    /\ Base \in Nat /\ Base > 1
    /\ Program \in Addresses /\ StackTop \in Addresses
    /\ MaxInterrupts \in Nat

VARIABLES
    block,      \* which instruction, and the registers it began with
    hl, de, bc,
    pc,
    mem,
    zf, pf,     \* Z and P/V
    status,     \* "program", "handler", "done", or "elsewhere": other code runs
    rounds,     \* history: rounds completed (bound: no block has more than Size)
    ports,      \* history: <<port, byte>> of every IN and OUT
    interrupts  \* history: interrupts accepted

vars == <<block, hl, de, bc, pc, mem, zf, pf, status, rounds, ports, interrupts>>

\* uint16_t and uint8_t arithmetic.
W(n) == n % Size
B(pair) == pair \div Base
LowerB(pair) == Base * ((B(pair) - 1) % Base) + (pair % Base)

Opcode(k) == <<"opcode", k>>
Data(k)   == <<"data", k>>
Input(k)  == <<"input", k>>
Frame(k)  == <<"frame", k>>

\* Memory before the block: the instruction, the jump, and data.  A search
\* meets equal bytes, a copy bytes that are all different.
Filled(kind) ==
    [addr \in Addresses |->
        CASE addr = Program        -> Opcode(0)
          [] addr = W(Program + 1) -> Opcode(1)
          [] addr = W(Program + 2) -> Opcode(2)
          [] OTHER                 -> Data(IF kind = "cp" THEN addr % 5 ELSE addr)]

Blocks ==
         [kind : {"ld"}, delta : {1, -1}, repeat : BOOLEAN,
          hl : Addresses, de : Addresses, bc : Addresses, key : {Data(0)}]
    \cup [kind : {"cp"}, delta : {1, -1}, repeat : BOOLEAN,
          hl : Addresses, de : {0}, bc : Addresses, key : {Data(k) : k \in 0 .. 5}]
    \cup [kind : {"in", "out"}, delta : {1, -1}, repeat : BOOLEAN,
          hl : Addresses, de : {0}, bc : Addresses, key : {Data(0)}]

Init ==
    /\ block \in Blocks
    /\ hl = block.hl /\ de = block.de /\ bc = block.bc
    /\ pc = Program
    /\ mem = Filled(block.kind)
    /\ zf = FALSE /\ pf = FALSE
    /\ status = "program"
    /\ rounds = 0 /\ ports = <<>> /\ interrupts = 0

-----------------------------------------------------------------------------

Intact == mem[Program] = Opcode(0) /\ mem[W(Program + 1)] = Opcode(1)

\* The fetches leave PC behind the instruction; a repeat takes it two back.
GoBack(again) ==
    pc' = IF block.repeat /\ again THEN W(W(pc + 2) - 2) ELSE W(pc + 2)

\* MUTANT of LdRound: the byte is read before the last one was written.
LdRoundPrefetch ==
    /\ mem' = [mem EXCEPT ![de] = Filled("ld")[hl]]
    /\ hl' = W(hl + block.delta) /\ de' = W(de + block.delta) /\ bc' = W(bc - 1)
    /\ pf' = (bc' # 0)
    /\ GoBack(bc' # 0)
    /\ UNCHANGED <<zf, ports>>

\* MUTANT of LdRound: the count that ends the block is not looked at.
LdRoundAlways ==
    /\ mem' = [mem EXCEPT ![de] = mem[hl]]
    /\ hl' = W(hl + block.delta) /\ de' = W(de + block.delta) /\ bc' = W(bc - 1)
    /\ pf' = (bc' # 0)
    /\ GoBack(TRUE)
    /\ UNCHANGED <<zf, ports>>

\* block_ld
LdRound ==
    /\ mem' = [mem EXCEPT ![de] = mem[hl]]
    /\ hl' = W(hl + block.delta) /\ de' = W(de + block.delta) /\ bc' = W(bc - 1)
    /\ pf' = (bc' # 0)
    /\ GoBack(bc' # 0)
    /\ UNCHANGED <<zf, ports>>

\* MUTANT of CpRound: a match in the last place is reported as the count.
CpRoundOneMore ==
    /\ hl' = W(hl + block.delta) /\ bc' = W(bc - 1)
    /\ zf' = (mem[hl] = block.key)
    /\ pf' = (bc' # 0)
    /\ GoBack(bc # 0 /\ ~zf')
    /\ UNCHANGED <<de, mem, ports>>

\* block_cp
CpRound ==
    /\ hl' = W(hl + block.delta) /\ bc' = W(bc - 1)
    /\ zf' = (mem[hl] = block.key)
    /\ pf' = (bc' # 0)
    /\ GoBack(bc' # 0 /\ ~zf')
    /\ UNCHANGED <<de, mem, ports>>

\* MUTANT of InRound: B is decremented before the port is read.
InRoundLate ==
    LET byte == Input(Len(ports) + 1)
    IN  /\ bc' = LowerB(bc)
        /\ ports' = Append(ports, <<bc', byte>>)
        /\ mem' = [mem EXCEPT ![hl] = byte]
        /\ hl' = W(hl + block.delta)
        /\ zf' = (B(bc') = 0) /\ pf' \in BOOLEAN
        /\ GoBack(B(bc') # 0)
        /\ UNCHANGED de

\* block_in: the port is BC as it was, and P/V depends on the byte.
InRound ==
    LET byte == Input(Len(ports) + 1)
    IN  /\ ports' = Append(ports, <<bc, byte>>)
        /\ bc' = LowerB(bc)
        /\ mem' = [mem EXCEPT ![hl] = byte]
        /\ hl' = W(hl + block.delta)
        /\ zf' = (B(bc') = 0) /\ pf' \in BOOLEAN
        /\ GoBack(B(bc') # 0)
        /\ UNCHANGED de

\* block_out: the port is BC with B decremented.
OutRound ==
    /\ bc' = LowerB(bc)
    /\ ports' = Append(ports, <<bc', mem[hl]>>)
    /\ hl' = W(hl + block.delta)
    /\ zf' = (B(bc') = 0) /\ pf' \in BOOLEAN
    /\ GoBack(B(bc') # 0)
    /\ UNCHANGED <<de, mem>>

Round ==
    /\ status = "program" /\ pc = Program /\ Intact
    /\ \/ block.kind = "ld" /\ LdRound
       \/ block.kind = "cp" /\ CpRound
       \/ block.kind = "in" /\ InRound
       \/ block.kind = "out" /\ OutRound
    /\ rounds' = IF rounds > Size THEN rounds ELSE rounds + 1
    /\ UNCHANGED <<block, status, interrupts>>

\* JP PE behind LDI, JP PE unless Z behind CPI, JR NZ behind INI and OUTI.
JumpsBack ==
    CASE block.kind = "ld"           -> pf
      [] block.kind = "cp"           -> pf /\ ~zf
      [] block.kind \in {"in", "out"} -> ~zf

Follow ==
    /\ status = "program" /\ pc = W(Program + 2)
    /\ \/ block.repeat /\ status' = "done" /\ UNCHANGED pc
       \/ /\ ~block.repeat /\ mem[pc] = Opcode(2)
          /\ IF JumpsBack THEN pc' = Program /\ UNCHANGED status
                          ELSE status' = "done" /\ UNCHANGED pc
       \/ ~block.repeat /\ mem[pc] # Opcode(2) /\ status' = "elsewhere" /\ UNCHANGED pc
    /\ UNCHANGED <<block, hl, de, bc, mem, zf, pf, rounds, ports, interrupts>>

\* The block has overwritten its own instruction: what is there now runs.
Overwritten ==
    /\ status = "program" /\ pc = Program /\ ~Intact
    /\ status' = "elsewhere"
    /\ UNCHANGED <<block, hl, de, bc, pc, mem, zf, pf, rounds, ports, interrupts>>

Stack == {W(StackTop - 1), W(StackTop - 2)}

\* MUTANT of Interrupt: the frame leads behind the instruction.
InterruptSkips ==
    /\ status = "program" /\ interrupts < MaxInterrupts
    /\ mem' = [addr \in Addresses |->
                  IF addr \in Stack THEN Frame(W(Program + 2)) ELSE mem[addr]]
    /\ status' = "handler"
    /\ interrupts' = interrupts + 1
    /\ UNCHANGED <<block, hl, de, bc, pc, zf, pf, rounds, ports>>

\* handle_int, and a handler that keeps the registers and ends in EI; RET.
Interrupt ==
    /\ status = "program" /\ interrupts < MaxInterrupts
    /\ mem' = [addr \in Addresses |-> IF addr \in Stack THEN Frame(pc) ELSE mem[addr]]
    /\ status' = "handler"
    /\ interrupts' = interrupts + 1
    /\ UNCHANGED <<block, hl, de, bc, pc, zf, pf, rounds, ports>>

Return ==
    /\ status = "handler"
    /\ pc' = mem[W(StackTop - 2)][2]
    /\ status' = "program"
    /\ UNCHANGED <<block, hl, de, bc, mem, zf, pf, rounds, ports, interrupts>>

Ended ==
    /\ status \in {"done", "elsewhere"}
    /\ UNCHANGED vars

Next == Round \/ Follow \/ Overwritten \/ Interrupt \/ Return \/ Ended

Spec == Init /\ [][Next]_vars

\* The host keeps stepping; it need not interrupt.
FairSpec == Spec /\ WF_vars(Round \/ Follow \/ Overwritten \/ Return)

-----------------------------------------------------------------------------
(* Properties                                                               *)

At(start, j) == W(start + block.delta * j)

\* Zero counts as many as the register has values.
Count == LET n == IF block.kind \in {"ld", "cp"} THEN block.bc ELSE B(block.bc)
         IN  IF n # 0 THEN n ELSE IF block.kind \in {"ld", "cp"} THEN Size ELSE Base

\* No interrupt has put a frame on what the block reads or writes.
Undisturbed ==
    \/ interrupts = 0
    \/ Stack \cap (    {At(block.hl, j) : j \in 0 .. Count - 1}
                  \cup (IF block.kind = "ld" THEN {At(block.de, j) : j \in 0 .. Count - 1} ELSE {})
                  \cup {W(Program + k) : k \in 0 .. 2}) = {}

\* After k rounds of LDI, LDIR, LDD or LDDR the first k bytes of the
\* destination are the bytes of the source, or, where the destination began
\* Distance places ahead inside the source, its first Distance bytes over and
\* over; nothing else has changed but what interrupts pushed.  This goes for
\* blocks across the ends of memory, over themselves and over the instruction
\* that copies them, and however often they are interrupted.
Distance == W(block.delta * (block.de - block.hl))

Copied(k) ==
    LET origin(j) == IF Distance = 0 THEN j ELSE j % Distance
    IN  [addr \in Addresses |->
            LET j == W(block.delta * (addr - block.de))
            IN  Filled("ld")[IF j < k THEN At(block.hl, origin(j)) ELSE addr]]

TransferExact ==
    block.kind = "ld" /\ Undisturbed =>
        /\ \A addr \in Addresses \ (IF interrupts = 0 THEN {} ELSE Stack) :
               mem[addr] = Copied(rounds)[addr]
        /\ hl = At(block.hl, rounds) /\ de = At(block.de, rounds)
        /\ bc = W(block.bc - rounds)

\* A search ends behind the first byte that equals A, with Z, or behind the
\* last byte of the block, without; P/V tells whether bytes were left.
SearchExact ==
    block.kind = "cp" /\ status = "done" /\ Undisturbed =>
        LET hit(j) == Filled("cp")[At(block.hl, j)] = block.key
            hits   == {j \in 0 .. Count - 1 : hit(j)}
        IN  /\ zf = (hits # {})
            /\ hits # {} => hit(rounds - 1) /\ \A j \in hits : rounds - 1 <= j
            /\ hits = {} => rounds = Count
            /\ hl = At(block.hl, rounds) /\ bc = W(block.bc - rounds)
            /\ pf = (rounds < Count)

\* The ports see each byte once, in the order of memory, with B counting down
\* in the upper half of the address: from its first value in the IN forms,
\* from one less in the OUT forms.  What came in lies in memory in that order.
PortSequence ==
    block.kind \in {"in", "out"} /\ Undisturbed =>
        /\ Len(ports) = rounds
        /\ hl = At(block.hl, rounds)
        /\ \A j \in 1 .. rounds :
             LET b == IF block.kind = "in" THEN B(block.bc) - (j - 1) ELSE B(block.bc) - j
             IN  /\ ports[j][1] = Base * (b % Base) + (block.bc % Base)
                 /\ ports[j][2] = IF block.kind = "in"
                                    THEN mem[At(block.hl, j - 1)]
                                    ELSE Filled("out")[At(block.hl, j - 1)]
                 /\ block.kind = "in" => ports[j][2] = Input(j)

\* A block that is done has made exactly its rounds, and one that is
\* interrupted goes on where it was: never a round twice, never one left out,
\* unless a search ended early.
RoundsExact ==
    status = "done" =>
        \/ rounds = Count
        \/ block.kind = "cp" /\ rounds < Count /\ zf

\* Every block ends, or runs into what it wrote over itself.
BlockEnds == <>(status \in {"done", "elsewhere"})

=============================================================================
