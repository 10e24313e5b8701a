------------------------------ MODULE MCExtIrq ------------------------------
(* Small instances of the external interrupt chain. *)
EXTENDS ExtIrq

OneKey == {1}
TwoKeys == {1, 2}
=============================================================================
