-------------------------------- MODULE LrSc --------------------------------
(***************************************************************************)
(* Load-reserved and store-conditional as the hart executes them, under    *)
(* threads the guest's kernel preempts between any two instructions: each  *)
(* takes a spinlock with LR and SC and increments a counter with a plain   *)
(* load and store while it holds it.                                       *)
(*                                                                         *)
(* Cpu::reservations is a set of addresses shared by whatever runs on the  *)
(* hart.  LR adds its address, SC removes its own; nothing else touches    *)
(* the set: no store, no trap, no other SC.                                *)
(***************************************************************************)
EXTENDS Integers, FiniteSets

CONSTANTS
  Contenders,   \* the threads
  Rounds,       \* rounds of each thread
  Faulting      \* accesses to the lock may page fault

ASSUME LrScAssumption == IsFiniteSet(Contenders) /\ Rounds \in Nat /\ Faulting \in BOOLEAN

VARIABLES
  reservations,     \* Cpu::reservations
  lock, counter,    \* two words of memory
  at,               \* the next instruction of each thread
  reg,              \* what it has loaded
  left              \* rounds it has yet to make

lockVars == <<reservations, lock, counter, at, reg, left>>

LockAddr == 64
Free == 0
Held == 1

LockInit ==
  /\ reservations = {}
  /\ lock = Free /\ counter = 0
  /\ at = [t \in Contenders |-> "lr"]
  /\ reg = [t \in Contenders |-> 0]
  /\ left = [t \in Contenders |-> Rounds]

Goto(t, a) == at' = [at EXCEPT ![t] = a]

(* lr.w: spin while the lock is held *)
Lr(t) ==
  /\ at[t] = "lr" /\ left[t] > 0
  /\ reg' = [reg EXCEPT ![t] = lock]
  /\ reservations' = reservations \cup {LockAddr}
  /\ Goto(t, IF lock = Free THEN "sc" ELSE "lr")
  /\ UNCHANGED <<lock, counter, left>>

(* A faulting lr.w loads 0 and reserves too; the kernel restarts it *)
LrFault(t) ==
  /\ Faulting
  /\ at[t] = "lr" /\ left[t] > 0
  /\ reg' = [reg EXCEPT ![t] = 0]
  /\ reservations' = reservations \cup {LockAddr}
  /\ UNCHANGED <<lock, counter, at, left>>

(* mutant: the reservation is kept *)
ScKeeps(t) ==
  /\ at[t] = "sc"
  /\ IF LockAddr \in reservations
     THEN lock' = Held /\ Goto(t, "load") /\ UNCHANGED reservations
     ELSE Goto(t, "lr") /\ UNCHANGED <<reservations, lock>>
  /\ UNCHANGED <<counter, reg, left>>

(* sc.w *)
Sc(t) ==
  /\ at[t] = "sc"
  /\ IF LockAddr \in reservations
     THEN reservations' = reservations \ {LockAddr} /\ lock' = Held /\ Goto(t, "load")
     ELSE Goto(t, "lr") /\ UNCHANGED <<reservations, lock>>
  /\ UNCHANGED <<counter, reg, left>>

(* mutant: a faulting sc.w counts as done when it is restarted *)
ScFaultDone(t) ==
  /\ Faulting
  /\ at[t] = "sc" /\ LockAddr \in reservations
  /\ reservations' = reservations \ {LockAddr}
  /\ Goto(t, "load")
  /\ UNCHANGED <<lock, counter, reg, left>>

(* A faulting sc.w has given its reservation up and is restarted *)
ScFault(t) ==
  /\ Faulting
  /\ at[t] = "sc" /\ LockAddr \in reservations
  /\ reservations' = reservations \ {LockAddr}
  /\ UNCHANGED <<lock, counter, at, reg, left>>

Load(t) ==
  /\ at[t] = "load"
  /\ reg' = [reg EXCEPT ![t] = counter]
  /\ Goto(t, "store")
  /\ UNCHANGED <<reservations, lock, counter, left>>

Store(t) ==
  /\ at[t] = "store"
  /\ counter' = reg[t] + 1
  /\ Goto(t, "release")
  /\ UNCHANGED <<reservations, lock, reg, left>>

Release(t) ==
  /\ at[t] = "release"
  /\ lock' = Free
  /\ left' = [left EXCEPT ![t] = @ - 1]
  /\ Goto(t, "lr")
  /\ UNCHANGED <<reservations, counter, reg>>

LockNext ==
  \E t \in Contenders :
    Lr(t) \/ LrFault(t) \/ Sc(t) \/ ScFault(t) \/ Load(t) \/ Store(t) \/ Release(t)

LockSpec == LockInit /\ [][LockNext]_lockVars

-----------------------------------------------------------------------------
Holders == {t \in Contenders : at[t] \in {"load", "store", "release"}}

(* README.md:24, "RV64IMAFDCSU fully implemented": LR and SC make a lock.
   A thread that lost the processor between its LR and its SC must not win
   a lock another one has taken meanwhile (lrw, scw). *)
MutualExclusion == Cardinality(Holders) <= 1

(* No increment is lost, however threads are preempted and accesses fault. *)
NoLostIncrement ==
  (\A t \in Contenders : left[t] = 0) => counter = Rounds * Cardinality(Contenders)
=============================================================================
