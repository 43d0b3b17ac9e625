----------------------------- MODULE MCZ80Block -----------------------------
(* The instances of Z80Block: sixteen addresses, the instruction across the  *)
(* end of memory.                                                           *)
EXTENDS Z80Block
=============================================================================
