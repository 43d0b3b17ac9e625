-------------------------- MODULE Z80BusRefinement --------------------------
(***************************************************************************)
(* Z80BusCycles implements Z80Control: with the host free to change the    *)
(* inputs from inside every callback, a call of step() still behaves as if *)
(* it ran to its end at the moment it was called, and everything the host  *)
(* did meanwhile came after it.                                            *)
(*                                                                         *)
(* The linearisation point is the beginning of the step, where the code    *)
(* samples its inputs.  The auxiliary variables are the registers and the  *)
(* memory the step in progress will end with, taken from Z80Control.  They *)
(* foresee the one choice a step makes, which pair PUSH qq stores: any the *)
(* step can make could have been foreseen, so they constrain nothing else. *)
(***************************************************************************)
EXTENDS Z80BusCycles

VARIABLES end_pc, end_sp, end_iff1, end_iff2, end_im, end_i,
          end_halted, end_ei_pending, end_ram

ends  == <<end_pc, end_sp, end_iff1, end_iff2, end_im, end_i,
           end_halted, end_ei_pending, end_ram>>
rvars == <<bvars, ends>>

Ended == INSTANCE Z80Control WITH
    pc <- end_pc, sp <- end_sp, iff1 <- end_iff1, iff2 <- end_iff2, im <- end_im,
    i <- end_i, halted <- end_halted, ei_pending <- end_ei_pending, ram <- end_ram

RBegin ==
    \/ BeginNmi /\ Ended!ServiceNmi
    \/ \E d \in DataBus : BeginInt(d) /\ Ended!AcceptInt(d)
    \/ BeginInstruction /\ (Ended!HaltCycle \/ Ended!Execute)

\* Replace, with the registers and the ends set by the same call.
RReplace ==
    /\ phase = "host"
    /\ \/ Reset /\ Ended!Reset
       \/ \E s \in Snapshots : LoadSnapshot(s) /\ Ended!LoadSnapshot(s)
    /\ UNCHANGED <<phase, locals>>

\* PUSH qq stores the pair that was foreseen.
Foreseen == phase = "M1" /\ after' = Nowhere => end_ram = Pushed(ram, sp, word')

RCycle == Cycle /\ Foreseen /\ UNCHANGED ends

RInit == BInit /\ Ended!Init /\ end_ram = ram
RNext == RBegin \/ RCycle \/ (Lines /\ UNCHANGED ends) \/ RReplace
RSpec     == RInit /\ [][RNext]_rvars

\* Once called, step() runs on; the host need not call it.
RFairSpec == RSpec /\ WF_rvars(RCycle)

-----------------------------------------------------------------------------
(* The refinement mapping: the registers themselves between steps, the
   registers the step will end with while it runs.                           *)

At(now, end) == IF phase = "host" THEN now ELSE end

Control == INSTANCE Z80Control WITH
    EdgeSP <- Word,   \* no bound on the abstract host
    pc <- At(pc, end_pc), sp <- At(sp, end_sp), iff1 <- At(iff1, end_iff1),
    iff2 <- At(iff2, end_iff2), im <- At(im, end_im), i <- At(i, end_i),
    halted <- At(halted, end_halted), ei_pending <- At(ei_pending, end_ei_pending),
    ram <- At(ram, end_ram)

\* Every behaviour at the grain of bus cycles, with input changes inside the
\* callbacks, is a behaviour of Z80Control: no NMI edge or INT pulse raised in
\* mid-step is lost or taken early, and the bytes pushed, the vector read after
\* the push and the final registers are those of the atomic step.
ImplementsControl == Control!Spec
=============================================================================
