------------------------------- MODULE MCLrSc -------------------------------
(* Small instances: threads that share one spinlock on one hart. *)
EXTENDS LrSc, TLC

CONSTANTS t1, t2

Two == {t1, t2}
TwoAlike == Permutations(Two)
=============================================================================
