----------------------------- MODULE FpThreads -----------------------------
(***************************************************************************)
(* What the floating-point unit promises to threads that share a hart:     *)
(* each has registers, accrued flags and a rounding mode of its own.       *)
(*                                                                         *)
(* The register file is one value; a rounding mode is the set of its bits. *)
(***************************************************************************)
CONSTANTS Threads, Values, Flags, RmBits, Zero, None

VARIABLES
  f, flags, rm,   \* of each thread
  read            \* what the last instruction gave to a thread

vars == <<f, flags, rm, read>>

Init ==
  /\ f = [t \in Threads |-> Zero]
  /\ flags = [t \in Threads |-> {}]
  /\ rm = [t \in Threads |-> {}]
  /\ read = None

Compute(t) ==
  /\ \E v \in Values : f' = [f EXCEPT ![t] = v]
  /\ \E raised \in SUBSET Flags : flags' = [flags EXCEPT ![t] = @ \cup raised]
  /\ read' = None
  /\ UNCHANGED rm

Move(t) == read' = <<"f", t, f[t]>> /\ UNCHANGED <<f, flags, rm>>

WriteFlags(t) ==
  /\ read' = <<"flags", t, flags[t]>>
  /\ \E s \in SUBSET Flags : flags' = [flags EXCEPT ![t] = s]
  /\ UNCHANGED <<f, rm>>

WriteMode(t) ==
  /\ read' = <<"rm", t, rm[t]>>
  /\ \E m \in SUBSET RmBits : rm' = [rm EXCEPT ![t] = m]
  /\ UNCHANGED <<f, flags>>

Next == \E t \in Threads : Compute(t) \/ Move(t) \/ WriteFlags(t) \/ WriteMode(t)

Spec == Init /\ [][Next]_vars
=============================================================================
