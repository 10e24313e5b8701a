------------------------------- MODULE Timer -------------------------------
(***************************************************************************)
(* Timer and software interrupts from the registers of the CLINT to the    *)
(* kernel: Cpu::loop with the tick and the interrupt poll, firmware that   *)
(* serves the SBI calls in machine mode, and a kernel that calls it.       *)
(*                                                                         *)
(* Between two polls the hart executes one instruction: of the firmware    *)
(* while fw, what is left of the routine it runs, is not empty, and of the *)
(* kernel otherwise.  The firmware keeps MIE clear and MSIE set; software  *)
(* and timer interrupts of the supervisor are delegated and enabled in     *)
(* sie.  A kernel that masks them unmasks them in time.                    *)
(***************************************************************************)
EXTENDS Clint, Sequences

CONSTANTS
  MaxTime,   \* when the host's clock stops
  None,
  Steady,    \* the host's clock is never set back
  Careful    \* the firmware reads the clock by words

ASSUME TimerAssumption ==
  /\ MaxTime \in Times /\ None \notin Times
  /\ Steady \in BOOLEAN /\ Careful \in BOOLEAN

VARIABLES
  mip,       \* CSR MIP
  mtie,      \* CSR MIE, its MTIE bit
  sie,       \* mstatus.SIE
  phase,     \* what is next in Cpu::loop, "poll" or "exec"
  fw,        \* the instructions left to the firmware
  hi, lo,    \* registers of the firmware
  ipi,       \* the firmware's note of what was sent
  due, asked, since, event   \* as the kernel sees it: module Alarm

clint == <<mtime, mtimecmp, msip>>
firmware == <<fw, hi, lo, ipi>>
kernel == <<due, asked, since, event>>
vars == <<clint, mip, mtie, sie, phase, firmware, kernel>>

SSI == 1
STI == 5

Init ==
  /\ mtime = 0 /\ mtimecmp = 0 /\ msip = 0
  /\ mip = {} /\ mtie = FALSE /\ sie = FALSE
  /\ phase = "poll"
  /\ fw = <<>> /\ hi = 0 /\ lo = 0 /\ ipi = FALSE
  /\ due = None /\ asked = FALSE /\ since = None /\ event = None

-----------------------------------------------------------------------------
(* The firmware's routines *)

MRet == <<"mret">>
Cmp(off, len, val) == <<"mtimecmp", off, len, val>>

SetStip == <<"stip", "set">>
ClearStip == <<"stip", "clear">>
SetMtie == <<"mtie", "set">>
ClearMtie == <<"mtie", "clear">>

(* sbi_set_timer, with one store or with two *)
SetWhole(d) == << Cmp(0, 2, d), ClearStip, SetMtie, MRet >>
SetWords(d) == << Cmp(0, 1, d % Base), Cmp(1, 1, d \div Base), ClearStip, SetMtie, MRet >>
SetTimer(d) == {SetWhole(d), SetWords(d)}

SendIpi == << <<"note">>, <<"msip", 1>>, MRet >>

(* The upper word is read again, until it has not changed. *)
ReadWords == << <<"mtime", 1, 1>>, <<"mtime", 0, 1>>, <<"again">>, MRet >>
ReadWhole == << <<"mtime", 0, 2>>, MRet >>
GetTime == IF Careful THEN {ReadWords} ELSE {ReadWords, ReadWhole}

TimerHandler == << ClearMtie, SetStip, MRet >>
SoftHandler == << <<"msip", 0>>, <<"take">>, MRet >>

-----------------------------------------------------------------------------
(* The head of Cpu::loop *)

Enabled == {MSI, SSI, STI} \cup (IF mtie THEN {MTI} ELSE {})

Masked == fw # <<>> \/ ~ sie

Rank(i) == CASE i = MSI -> 2 [] i = MTI -> 3 [] i = SSI -> 5 [] i = STI -> 6

(* ClintDevice::tick: any time may have passed on the host. *)
Tick(t) ==
  /\ phase = "poll" /\ phase' = "exec"
  /\ Steady => t >= mtime
  /\ Clock(t)

PollNone(t) ==
  /\ Tick(t)
  /\ Masked \/ Ticked(mip, t) \cap Enabled = {}
  /\ mip' = Ticked(mip, t)
  /\ UNCHANGED <<mtie, sie, firmware, kernel>>

(* mutant: taking one interrupt acknowledges all that are pending *)
AcknowledgeAll(t, i) ==
  /\ i \in Ticked(mip, t) \cap Enabled
  /\ \A j \in Ticked(mip, t) \cap Enabled : Rank(i) <= Rank(j)
  /\ mip' = Ticked(mip, t) \ Enabled

(* get_pending_interrupt: the first by rank, whose bit is cleared *)
Acknowledge(t, i) ==
  /\ i \in Ticked(mip, t) \cap Enabled
  /\ \A j \in Ticked(mip, t) \cap Enabled : Rank(i) <= Rank(j)
  /\ mip' = Ticked(mip, t) \ {i}

PollMachine(t) ==
  /\ Tick(t) /\ ~ Masked
  /\ \/ Acknowledge(t, MSI) /\ fw' = SoftHandler
     \/ Acknowledge(t, MTI) /\ fw' = TimerHandler
  /\ UNCHANGED <<mtie, sie, hi, lo, ipi, kernel>>

PollSupervisor(t) ==
  /\ Tick(t) /\ ~ Masked
  /\ \/ Acknowledge(t, SSI) /\ asked' = FALSE /\ event' = <<"signal">> /\ UNCHANGED due
     \/ Acknowledge(t, STI) /\ due' = None /\ event' = <<"ring">> /\ UNCHANGED asked
  /\ sie' = FALSE
  /\ UNCHANGED <<mtie, firmware, since>>

-----------------------------------------------------------------------------
(* One instruction of the firmware *)

Insn == Head(fw)

Firmware(op) ==
  /\ phase = "exec" /\ phase' = "poll"
  /\ fw # <<>> /\ Insn[1] = op
  /\ UNCHANGED <<sie, due, asked>>

Goes == fw' = Tail(fw) /\ UNCHANGED <<since, event>>

StoreMtimecmp ==
  /\ Firmware("mtimecmp") /\ Goes
  /\ StoreCmp(Insn[2], Insn[3], Insn[4])
  /\ UNCHANGED <<mip, mtie, hi, lo, ipi>>

WriteMsip ==
  /\ Firmware("msip") /\ Goes
  /\ StoreMsip(Insn[2])
  /\ UNCHANGED <<mip, mtie, hi, lo, ipi>>

WriteMtie ==
  /\ Firmware("mtie") /\ Goes
  /\ mtie' = (Insn[2] = "set")
  /\ UNCHANGED <<clint, mip, hi, lo, ipi>>

WriteStip ==
  /\ Firmware("stip") /\ Goes
  /\ mip' = IF Insn[2] = "set" THEN mip \cup {STI} ELSE mip \ {STI}
  /\ UNCHANGED <<clint, mtie, hi, lo, ipi>>

LoadMtime ==
  /\ Firmware("mtime") /\ Goes
  /\ LET val == LoadReg(mtime, Insn[2], Insn[3])
     IN IF Insn[2] = 1 THEN hi' = val /\ UNCHANGED lo
        ELSE lo' = val /\ hi' = IF Insn[3] = 2 THEN 0 ELSE hi
  /\ UNCHANGED <<clint, mip, mtie, ipi>>

LoadAgain ==
  /\ Firmware("again")
  /\ fw' = IF LoadReg(mtime, 1, 1) = hi THEN Tail(fw) ELSE ReadWords
  /\ UNCHANGED <<clint, mip, mtie, hi, lo, ipi, since, event>>

Note ==
  /\ Firmware("note") /\ Goes
  /\ ipi' = TRUE
  /\ UNCHANGED <<clint, mip, mtie, hi, lo>>

(* What was sent is passed on, if something was. *)
Take ==
  /\ Firmware("take") /\ Goes
  /\ mip' = IF ipi THEN mip \cup {SSI} ELSE mip
  /\ ipi' = FALSE
  /\ UNCHANGED <<clint, mtie, hi, lo>>

Return ==
  /\ Firmware("mret")
  /\ fw' = <<>>
  /\ event' = IF since = None THEN None ELSE <<"time", hi * Base + lo>>
  /\ since' = None
  /\ UNCHANGED <<clint, mip, mtie, hi, lo, ipi>>

-----------------------------------------------------------------------------
(* One instruction of the kernel *)

Kernel ==
  /\ phase = "exec" /\ phase' = "poll"
  /\ fw = <<>>
  /\ UNCHANGED <<clint, mip, mtie, hi, lo, ipi>>

Work ==
  /\ Kernel
  /\ event' = None
  /\ UNCHANGED <<sie, fw, due, asked, since>>

Mask ==
  /\ Kernel /\ sie
  /\ sie' = FALSE /\ event' = None
  /\ UNCHANGED <<fw, due, asked, since>>

Unmask ==
  /\ Kernel /\ ~ sie
  /\ sie' = TRUE /\ event' = None
  /\ UNCHANGED <<fw, due, asked, since>>

CallSetTimer(d) ==
  /\ Kernel
  /\ fw' \in SetTimer(d)
  /\ due' = d /\ event' = None
  /\ UNCHANGED <<sie, asked, since>>

CallSendIpi ==
  /\ Kernel
  /\ fw' = SendIpi
  /\ asked' = TRUE /\ event' = None
  /\ UNCHANGED <<sie, due, since>>

CallGetTime ==
  /\ Kernel
  /\ fw' \in GetTime
  /\ since' = mtime /\ event' = None
  /\ UNCHANGED <<sie, due, asked>>

(* rdtime: the tick has copied mtime to CSR TIME *)
ReadTime ==
  /\ Kernel
  /\ event' = <<"time", mtime>>
  /\ UNCHANGED <<sie, fw, due, asked, since>>

Poll == \E t \in 0 .. MaxTime : PollNone(t) \/ PollMachine(t) \/ PollSupervisor(t)

RunFirmware ==
  \/ StoreMtimecmp \/ WriteMsip \/ WriteMtie \/ WriteStip
  \/ LoadMtime \/ LoadAgain \/ Note \/ Take \/ Return

RunKernel ==
  \/ Work \/ Mask \/ Unmask \/ CallSendIpi \/ CallGetTime \/ ReadTime
  \/ \E d \in 0 .. MaxTime : CallSetTimer(d)

Next == Poll \/ RunFirmware \/ RunKernel

Later == \E t \in 0 .. MaxTime :
  t > mtime /\ (PollNone(t) \/ PollMachine(t) \/ PollSupervisor(t))

Fairness == WF_vars(Next) /\ SF_vars(Later) /\ SF_vars(Unmask)

Spec == Init /\ [][Next]_vars /\ Fairness

-----------------------------------------------------------------------------
TypeOK ==
  /\ mtime \in 0 .. MaxTime /\ mtimecmp \in Times /\ msip \in Words
  /\ mip \subseteq {MSI, MTI, SSI, STI}
  /\ mtie \in BOOLEAN /\ sie \in BOOLEAN /\ ipi \in BOOLEAN
  /\ phase \in {"poll", "exec"}
  /\ hi \in Words /\ lo \in Words
  /\ due \in 0 .. MaxTime \cup {None} /\ since \in 0 .. MaxTime \cup {None}
  /\ asked \in BOOLEAN

(* While the firmware is at rest an alarm is on its way: in the compare
   register with the interrupt enabled, or already pending for the
   supervisor, which it never is without one (ClintDevice::store and tick,
   get_pending_interrupt). *)
AlarmIsArmed ==
  fw = <<>> =>
    /\ due # None => \/ mtimecmp = due /\ mtie
                     \/ STI \in mip
    /\ STI \in mip => due # None /\ due <= mtime

Promise == INSTANCE Alarm WITH now <- mtime

(* An alarm rings once and never early, a signal comes only for what was
   asked, and the time that is read is one between question and answer,
   although the clock moves between any two loads, pending bits are made
   anew at every tick and cleared when they are taken, and the software
   interrupt line outlives msip (ClintDevice, get_pending_interrupt). *)
AlarmSpec == Promise!Spec

SetAgain == fw # <<>> /\ Insn[1] = "mtimecmp"

(* An alarm that is not set again rings, once the signals, which come first,
   have ceased: no order of masking, ticks and interrupts leaves it waiting
   for ever (ClintDevice::tick, get_pending_interrupt). *)
AlarmRings ==
  <>[] ~ asked => \A d \in 0 .. MaxTime : due = d ~> due # d \/ SetAgain

(* A signal that was asked for comes, although MSIP, SSIP and the note of the
   firmware are set and cleared in three places and the interrupt of one
   request may answer another. *)
SignalComes == asked ~> ~ asked
=============================================================================
