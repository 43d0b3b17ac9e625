---------------------------- MODULE MCZ80Opcodes ----------------------------
(* The steps of Z80Control on every instruction of MCPrograms.               *)
EXTENDS Z80Control, MCPrograms
=============================================================================
