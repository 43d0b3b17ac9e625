---------------------------- MODULE MCZ80Timing ----------------------------
(* Z80Timing over every byte.                                                *)
EXTENDS Z80Timing

AllBytes == 0 .. 255
=============================================================================
