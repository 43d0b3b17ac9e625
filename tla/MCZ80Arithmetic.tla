-------------------------- MODULE MCZ80Arithmetic --------------------------
(* The instance of Z80Arithmetic: every pair of bytes, and words at the edges *)
(* of their bytes, digits and signs.                                        *)
EXTENDS Z80Arithmetic

EdgeWords == {0, 1, 9, 15, 16, 127, 128, 153, 255, 256, 4095, 4096, 6553, 32640, 32767, 32768,
              33153, 34952, 39168, 39321, 43690, 65280, 65535}

BytesAndWords == <<Byte, EdgeWords>>

EdgeCounters == {0, 1, 127, 255}

EdgeAccumulators == {0, 1, 128, 161, 255}

=============================================================================
