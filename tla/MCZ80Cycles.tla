---------------------------- MODULE MCZ80Cycles ----------------------------
(* The instances of Z80Cycles: ints of eight values and a counter of two   *)
(* ints, so that every difference and every wrap happens.                    *)
EXTENDS Z80Cycles

NegativeTarget == -1

\* As long as the last step fits.
ModestTargets == {NegativeTarget, 1, 2}
=============================================================================
