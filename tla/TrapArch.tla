------------------------------ MODULE TrapArch ------------------------------
(***************************************************************************)
(* What the trap unit of the emulated hart promises to the software that   *)
(* runs on it, without CSR layouts, devices, priorities or delegation.     *)
(*                                                                         *)
(* Each trapping level l (supervisor, machine) owns an interrupt-enable    *)
(* flag and one frame, which holds what a return from l restores.  A trap  *)
(* to l fills the frame of l and no other, a return from l consumes it,    *)
(* and software in between may edit frames but never its own mode.  An     *)
(* exception, of the software or of a device, stops the software until it  *)
(* has trapped.                                                            *)
(***************************************************************************)
EXTENDS Integers

CONSTANT AddrSpace   \* addresses are 0 .. AddrSpace - 1 (2^64 in the code)

User == 0
Supervisor == 1
Machine == 3

Modes == {User, Supervisor, Machine}
Levels == {Supervisor, Machine}
Addr == 0 .. (AddrSpace - 1)

Codes == 0 .. 15
NoExc == 16
Causes == [intr : BOOLEAN, code : Codes]

Even(a) == a - (a % 2)

(* reg with l put in or taken out, as b says *)
With(reg, l, b) == IF b THEN reg \cup {l} ELSE reg \ {l}

VARIABLES
  mode, pc,
  enabled,      \* levels whose interrupts are enabled
  retPc, retMode, retEnabled,  \* the frames: what a return from l restores
  cause,        \* why the frame was filled
  pending       \* the exception that awaits its trap, or NoExc

frames == <<retPc, retMode, retEnabled, cause>>
vars == <<mode, pc, enabled, frames, pending>>

TypeOK ==
  /\ mode \in Modes
  /\ pc \in Addr
  /\ enabled \subseteq Levels
  /\ retPc \in [Levels -> Addr]
  /\ retMode \in [Levels -> Modes]
  /\ retEnabled \subseteq Levels
  /\ cause \in [Levels -> Causes]
  /\ pending \in Codes \cup {NoExc}

Init ==
  /\ mode = Machine
  /\ pc \in Addr
  /\ enabled = {}
  /\ retPc = [l \in Levels |-> 0]
  /\ retMode = [l \in Levels |-> User]
  /\ retEnabled = {}
  /\ cause \in [Levels -> Causes]
  /\ pending = NoExc

(* A trap never lowers the privilege, records the interrupted context in
   the frame of its own level and masks that level. *)
Trap(l, c) ==
  /\ mode <= l
  /\ mode' = l
  /\ pc' \in Addr
  /\ enabled' = enabled \ {l}
  /\ retPc' = [retPc EXCEPT ![l] = Even(pc)]
  /\ retMode' = [retMode EXCEPT ![l] = mode]
  /\ retEnabled' = With(retEnabled, l, l \in enabled)
  /\ cause' = [cause EXCEPT ![l] = c]

(* No interrupt comes between an exception and its trap; a device may raise
   an exception in the step that interrupts. *)
Interrupt(l, i) ==
  /\ pending = NoExc
  /\ Trap(l, [intr |-> TRUE, code |-> i])
  /\ pending' \in Codes \cup {NoExc}

Exception(l) ==
  /\ pending # NoExc
  /\ Trap(l, [intr |-> FALSE, code |-> pending])
  /\ pending' = NoExc

(* A second exception takes the place of one that has not trapped yet. *)
Raise ==
  /\ pending' \in Codes
  /\ UNCHANGED <<mode, pc, enabled, frames>>

(* A return restores the frame of its level, and leaves a frame that can
   only lead to user mode. *)
Return(l) ==
  /\ pending = NoExc
  /\ mode >= l
  /\ mode' = retMode[l]
  /\ pc' = retPc[l]
  /\ enabled' = With(enabled, l, l \in retEnabled)
  /\ retPc' = retPc
  /\ retMode' = [retMode EXCEPT ![l] = User]
  /\ retEnabled' = retEnabled \cup {l}
  /\ UNCHANGED <<cause, pending>>

(* Any other instruction.  User mode cannot reach the machine level's
   enable flag, nor the mode and enable flag its frame restores. *)
Software ==
  /\ pending = NoExc /\ pending' = NoExc
  /\ mode' = mode
  /\ pc' \in Addr
  /\ enabled' \subseteq Levels
  /\ retPc' \in [Levels -> Addr]
  /\ retMode' \in [Levels -> Modes]
  /\ retEnabled' \subseteq Levels
  /\ cause' \in [Levels -> Causes]
  /\ mode = User => /\ Machine \in enabled' <=> Machine \in enabled
                    /\ Machine \in retEnabled' <=> Machine \in retEnabled
                    /\ retMode'[Machine] = retMode[Machine]

Next ==
  \/ \E l \in Levels : Exception(l) \/ Return(l) \/ \E i \in Codes : Interrupt(l, i)
  \/ Raise
  \/ Software

Spec == Init /\ [][Next]_vars
=============================================================================
