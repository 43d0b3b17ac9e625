----------------------------- MODULE Z80BusReset -----------------------------
(***************************************************************************)
(* reset() called by the host from inside a callback (a reset line pulled   *)
(* in the middle of an instruction).  The registers change at once, but the *)
(* step in progress goes on with what it holds on the C++ stack: the fetch *)
(* its address, the push its word, the interrupt service its data bus byte. *)
(*                                                                         *)
(* A reset from a callback of idle() is left out (idle cycles are no phases *)
(* of Z80BusCycles), and so is load_snapshot() from a callback.             *)
(***************************************************************************)
EXTENDS Z80BusCycles

CONSTANT MaxResets   \* bound: how many times the host resets inside a step

ASSUME MaxResetsAssumption == MaxResets \in Nat

VARIABLES
    fresh,   \* reset() was called, and no step has begun since
    resets   \* how many times, counted to MaxResets

wvars == <<bvars, fresh, resets>>

ResetInside ==
    /\ phase # "host"
    /\ Reset
    /\ resets < MaxResets
    /\ fresh' = TRUE /\ resets' = resets + 1
    /\ UNCHANGED <<phase, locals>>

WInit == BInit /\ fresh = TRUE /\ resets = 0

WStep ==
    /\ \/ Begin /\ fresh' = FALSE
       \/ Cycle /\ UNCHANGED fresh
    /\ UNCHANGED resets

WNext ==
    \/ WStep
    \/ Lines /\ UNCHANGED <<fresh, resets>>
    \/ ResetInside

WSpec == WInit /\ [][WNext]_wvars

-----------------------------------------------------------------------------

\* A reset in the middle of a step cannot be undone into an enabled processor:
\* whatever the step in progress goes on to do, the fetched RETN with its
\* suspended enable included, INT stays off when it returns.  The one exception
\* is a reset in the fetch of EI itself, whose shadow is then still to come
\* (z80.cpp:29-33 against decode.cpp:734-738 and 1028).
ResetSilences == phase = "host" /\ fresh /\ iff1 => ei_pending

=============================================================================
