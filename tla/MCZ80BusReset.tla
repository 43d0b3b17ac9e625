--------------------------- MODULE MCZ80BusReset ---------------------------
(* A reset from inside the callbacks, on the programs of MCPrograms.          *)
EXTENDS Z80BusReset, MCPrograms
=============================================================================
