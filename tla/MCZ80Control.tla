---------------------------- MODULE MCZ80Control ----------------------------
(* The steps of Z80ControlHistory on the programs of MCPrograms.             *)
EXTENDS Z80ControlHistory, MCPrograms
=============================================================================
