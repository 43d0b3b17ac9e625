------------------------------ MODULE MCZ80Bus ------------------------------
(* The bus cycles of Z80BusRefinement on the programs of MCPrograms.         *)
EXTENDS Z80BusRefinement, MCPrograms
=============================================================================
