-------------------------- MODULE Z80LatchesProofs --------------------------
(***************************************************************************)
(* Q is right for every opcode of every page behind any number of prefixes, *)
(* and for every set of snapshots.                                         *)
(***************************************************************************)
EXTENDS Z80Latches, TLAPS

TypeOK == /\ a \in YX /\ f \in YX /\ q \in YX /\ a_alt \in YX /\ f_alt \in YX
          /\ halted \in BOOLEAN /\ flags_modified \in BOOLEAN /\ wrote \in BOOLEAN

LIn == TypeOK /\ QAgrees

-----------------------------------------------------------------------------
(* The opcodes that call write_flags() are those that affect F.              *)

\* Behind a prefix the cases of dispatch_index and the opcodes it passes on write
\* F where the plain ones do.
LEMMA IndexAgrees ==
    ASSUME NEW op \in Byte
    PROVE  op \in IndexWrites \cup (MainWrites \ IndexSilent) <=> op \in MainWrites
BY SMT DEF Byte, IndexWrites, IndexSilent, MainWrites

LEMMA MainAgrees ==
    ASSUME NEW op \in Byte PROVE op \in MainWrites <=> Affects("main", op)
BY SMT DEF Byte, MainWrites, Affects, X, Y, Z

LEMMA EdAgrees ==
    ASSUME NEW op \in Byte PROVE op \in EdWrites <=> Affects("ed", op)
BY SMT DEF Byte, EdWrites, Affects, X, Y, Z

LEMMA CbAgrees ==
    ASSUME NEW op \in Byte
    PROVE  (op \in CbWrites <=> Affects("cb", op))
           /\ (op \in IndexCbWrites <=> Affects("cb", op))
BY SMT DEF Byte, CbWrites, IndexCbWrites, Affects, X

LEMMA WritesWhenAffects ==
    ASSUME NEW page \in Pages, NEW op \in Byte, NEW n
    PROVE  WritesFlags(page, op, n) <=> Affects(page, op)
<1>1. CASE page = "main"
  BY <1>1, IndexAgrees, MainAgrees DEF WritesFlags
<1>2. CASE page = "cb"
  BY <1>2, CbAgrees DEF WritesFlags
<1>3. CASE page = "ed"
  BY <1>3, EdAgrees DEF WritesFlags
<1> QED
  BY <1>1, <1>2, <1>3 DEF Pages

-----------------------------------------------------------------------------

\* F ^ F is nothing, and F ^ 0 is F: what the expression of SCF relies on.
LEMMA MixedSelf == \A u : Mixed(u, u) = {} /\ Mixed(u, {}) = u
  BY DEF Mixed

LEMMA LInInit == Init => LIn
  BY DEF Init, LIn, TypeOK, QAgrees, YX

\* A step that ends as the history says it should leaves Q right.
LEMMA EndStepAgrees ==
    ASSUME NEW modified \in BOOLEAN, EndStep(modified), wrote' = modified, f' \in YX
    PROVE  QAgrees' /\ q' \in YX /\ flags_modified' \in BOOLEAN /\ wrote' \in BOOLEAN
  BY DEF EndStep, QAgrees, YX

\* No instruction breaks it, because it calls write_flags() when it affects F
\* and only then.
LEMMA InstructionKeepsQ == ASSUME LIn, Instruction PROVE LIn'
<1> USE DEF LIn, TypeOK
<1>1. PICK op \in Byte, n \in 0 .. MaxPrefix :
        \/ \E page \in Pages : Writer(page, op, n) \/ Plain(page, op, n)
        \/ ScfCcf(op, n)
        \/ SetAf(op, n)
  BY DEF Instruction
<1>2. "main" \in Pages
  BY DEF Pages
<1>3. /\ WritesFlags("main", op, n) \in BOOLEAN
      /\ Affects("main", op) = WritesFlags("main", op, n)
  <2>1. WritesFlags("main", op, n) \in BOOLEAN /\ Affects("main", op) \in BOOLEAN
    BY DEF WritesFlags, Affects
  <2> QED BY <1>2, <2>1, WritesWhenAffects
<1>4. ASSUME NEW page \in Pages, Writer(page, op, n) PROVE LIn'
  <2>1. Affects(page, op) = TRUE
    <3>1. Affects(page, op)
      BY <1>4, WritesWhenAffects DEF Writer
    <3> QED BY <3>1 DEF Affects
  <2> QED BY <1>4, <2>1, EndStepAgrees DEF Writer
<1>5. ASSUME NEW page \in Pages, Plain(page, op, n) PROVE LIn'
  <2>1. Affects(page, op) = FALSE
    <3>1. ~Affects(page, op)
      BY <1>5, WritesWhenAffects DEF Plain
    <3> QED BY <3>1 DEF Affects
  <2> QED BY <1>5, <2>1, EndStepAgrees DEF Plain
<1>6. CASE ScfCcf(op, n)
  <2>1. f' \in YX
    BY <1>6 DEF ScfCcf, Mixed, QBehind, YX
  <2> QED BY <1>3, <1>6, <2>1, EndStepAgrees DEF ScfCcf
<1>7. CASE SetAf(op, n)
  BY <1>3, <1>7, EndStepAgrees DEF SetAf
<1> QED
  BY <1>1, <1>4, <1>5, <1>6, <1>7

\* Nor does anything else a step may be, nor a call of the host.
LEMMA LInNext == LIn /\ [Next]_lvars => LIn'
<1> SUFFICES ASSUME LIn, [Next]_lvars PROVE LIn'
  OBVIOUS
<1> USE DEF LIn, TypeOK, QAgrees
<1>1. CASE Instruction
  BY <1>1, InstructionKeepsQ
<1>2. CASE HaltCycle
  BY <1>2 DEF HaltCycle, ClearQ, YX
<1>3. CASE Interrupt
  BY <1>3 DEF Interrupt, ClearQ, YX
<1>4. CASE Reset
  BY <1>4 DEF Reset, YX
<1>5. ASSUME NEW s \in Snapshots, LoadSnapshot(s) PROVE LIn'
  <2>1. s \in SnapshotType /\ s.q \in {s.f, {}}
    BY LatchAssumption
  <2> QED BY <1>5, <2>1 DEF LoadSnapshot, SnapshotType
<1>6. CASE UNCHANGED lvars
  BY <1>6 DEF lvars
<1> QED
  BY <1>1, <1>2, <1>3, <1>4, <1>5, <1>6 DEF Next

\* Each of the 256 opcodes of each page calls write_flags() exactly when it affects
\* F, behind any number of prefixes, so Q is F of the step before, or zero, and
\* never a flag byte from further back (z80.cpp:210 and 242).
THEOREM QCurrent == Spec => []QAgrees
<1>1. LIn => QAgrees
  BY DEF LIn
<1> QED BY LInInit, LInNext, <1>1, PTL DEF Spec

\* SCF and CCF obey the rule of the Q latch behind any number of prefixes
\* (decode.cpp:313 and 362).
THEOREM ScfCorrect == Spec => ScfRule
<1>1. ASSUME LIn, NEW op \in ScfCcfOps, NEW n \in 0 .. MaxPrefix, ScfCcf(op, n)
      PROVE f' = a \cup (IF wrote /\ n = 0 THEN {} ELSE f)
  <2>1. QBehind(n) = IF wrote /\ n = 0 THEN f ELSE {}
    BY <1>1 DEF LIn, QAgrees, QBehind
  <2>2. f' = Mixed(f, QBehind(n)) \cup a
    BY <1>1 DEF ScfCcf
  <2> QED BY <2>1, <2>2, MixedSelf
<1>2. LIn => [\A op \in ScfCcfOps, n \in 0 .. MaxPrefix :
                ScfCcf(op, n) => f' = a \cup (IF wrote /\ n = 0 THEN {} ELSE f)]_lvars
  BY <1>1
<1> QED BY LInInit, LInNext, <1>2, PTL DEF Spec, ScfRule

=============================================================================
