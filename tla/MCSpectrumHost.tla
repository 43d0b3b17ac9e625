---------------------------- MODULE MCSpectrumHost ----------------------------
(* The program of zx_spectrum_host.cpp, followed by a loop with a critical     *)
(* section, branches and HALT; the handler and the line last about as long.    *)
EXTENDS SpectrumHost, MCPrograms

Spectrum ==
    Bytes(\h8000, <<\h3E, 7, \hD3, \hFE, \h76,     \* LD A,7; OUT (FE),A; HALT
                    \hF3, \hC5, \hC1, \hFB,        \* 05: DI; PUSH BC; POP BC; EI
                    \h28, 4,                       \* JR Z,0F
                    \hED, \h44, \h23, 0,          \* NEG; INC HL; NOP
                    \h28, 2,                       \* 0F: JR Z,13
                    \hDD, \h76,                   \* HALT
                    \h18, \hF0>>)                 \* 13: JR 05
    @@ Bytes(\h38, <<\hF5, \hF1, \hF5, \hF1, \hFB, \hC9>>)   \* 2 x (PUSH AF; POP AF); EI; RET
=============================================================================
