------------------------------ MODULE MCTimer ------------------------------
(* Words of four values, and a clock that carries into the upper one. *)
EXTENDS Timer
=============================================================================
