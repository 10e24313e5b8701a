------------------------------- MODULE MCHart -------------------------------
(* Small instances of Hart.  A guest is given by the CSR writes it makes,
   the devices by the lines they can raise in a poll. *)
EXTENDS Hart

Insn(c, o, v) == [csr |-> c, op |-> o, val |-> v]
Line(s, t, e, f) == [swi |-> s, timer |-> t, ext |-> e, fault |-> f]
Quiet == Line(FALSE, FALSE, FALSE, NoExc)

(* Firmware that prepares a return to the supervisor, a kernel that returns
   to user mode and enables interrupts (and tries to enable the firmware's),
   vectored or odd addresses in tvec and epc, delegated user ecalls and
   external interrupts, and a timer that asks to be delegated. *)
TrapGuest ==
  { Insn("mstatus", "w", {MIE, 11, MPIE, SPIE}),
    Insn("sstatus", "s", {SIE, MIE, SPIE}), Insn("mie", "s", {MTI, SEI}),
    Insn("mideleg", "s", {SEI, MTI}), Insn("medeleg", "s", {8}) }

(* The timer line and the disk's interrupt, each alone or with an access of
   the disk that fails *)
TimerAndDisk ==
  {Quiet, Line(FALSE, TRUE, TRUE, NoExc), Line(FALSE, FALSE, TRUE, LoadAccessFault)}

Odd == {1}
Zero == {0}
Illegal == {2}
LongOnly == {4}
=============================================================================
