---------------------------- MODULE MCZ80Latches ----------------------------
(* Z80Latches with two snapshots: one saved behind an instruction that wrote   *)
(* flags, one on a HALT.                                                       *)
EXTENDS Z80Latches

MCSnapshots ==
    {[a |-> {5}, f |-> {3}, q |-> {3}, a_alt |-> {}, f_alt |-> {5},
      halted |-> FALSE],
     [a |-> {}, f |-> {3, 5}, q |-> {}, a_alt |-> {3}, f_alt |-> {},
      halted |-> TRUE]}
=============================================================================
