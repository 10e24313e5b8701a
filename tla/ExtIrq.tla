------------------------------- MODULE ExtIrq -------------------------------
(***************************************************************************)
(* External interrupts from the keyboard to the driver: UART, disk line,   *)
(* PLIC, the poll of Cpu::loop and a kernel that handles them.             *)
(*                                                                         *)
(* The kernel is the guest's, not the emulator's: it is modelled from the  *)
(* registers it uses.  It claims until it reads 0, reads the receiver,   *)
(* acknowledges the disk before it looks at its ring, completes what it    *)
(* claimed, sends one transmitter load per interrupt, and enables a source *)
(* in the PLIC before the device may interrupt.                            *)
(***************************************************************************)
EXTENDS Uart, Plic

CONSTANTS
  HasDisk,   \* virtio_blk_device is not null
  TxLoads    \* transmitter loads of the longest output

ASSUME ExtIrqAssumption == HasDisk \in BOOLEAN /\ TxLoads \in Nat

VARIABLES
  phase,     \* where Cpu::loop is: "tick", "poll" or "insn"
  seip,      \* mip.SEIP
  blk,       \* the disk's isr bit 0, a level
  at,        \* what the guest is executing
  irq,       \* the interrupt its handler has claimed
  tx         \* transmitter loads it has yet to send

vars == <<slot, val, dr, ier, line, pending, enable, claim, phase, seip, blk, at, irq, tx>>
kernel == <<at, irq, tx>>

UartIrq == 10
DiskIrq == 1

(* "run": interrupts enabled; "off": sstatus.SIE clear; "firmware": machine
   mode; the others are the steps of the external interrupt handler. *)
Places == {"run", "off", "firmware", "claim", "uart", "send", "txoff", "disk", "complete"}

Init ==
  /\ UartInit /\ PlicInit
  /\ phase = "tick" /\ seip = FALSE /\ blk = FALSE
  /\ at = "run" /\ irq = NoIrq /\ tx = 0

-----------------------------------------------------------------------------
(* The host types at any time; the loop ticks the devices, polls, executes. *)

HostTypes(c) == Type(c) /\ UNCHANGED <<plicVars, phase, seip, blk, kernel>>

Tick ==
  /\ phase = "tick"
  /\ UartTick
  /\ blk' \in (IF HasDisk THEN {blk, TRUE} ELSE {blk})
  /\ phase' = "poll"
  /\ UNCHANGED <<plicVars, seip, kernel>>

(* mutant: the UART is asked first *)
AskUartFirst ==
  IF line THEN UpdatePending(UartIrq) /\ UNCHANGED uartVars
  ELSE IF blk THEN UpdatePending(DiskIrq) /\ UNCHANGED uartVars
  ELSE UNCHANGED <<uartVars, plicVars>>

(* get_pending_interrupt takes one device per poll, the disk before the UART *)
AskDevices ==
  IF blk THEN UpdatePending(DiskIrq) /\ UNCHANGED uartVars
  ELSE IF line THEN UpdatePending(UartIrq) /\ ConsumeLine
  ELSE UNCHANGED <<uartVars, plicVars>>

Raised == seip \/ blk \/ line

(* Interrupts masked: the devices are not asked *)
PollMasked ==
  /\ phase = "poll" /\ at # "run"
  /\ phase' = "insn"
  /\ UNCHANGED <<uartVars, plicVars, seip, blk, kernel>>

PollNone ==
  /\ phase = "poll" /\ at = "run" /\ ~Raised
  /\ phase' = "insn"
  /\ UNCHANGED <<uartVars, plicVars, seip, blk, kernel>>

(* mutant: the devices are asked, and SEIP is not set *)
PollTimerForgets ==
  /\ phase = "poll" /\ at = "run"
  /\ AskDevices
  /\ at' = "firmware" /\ phase' = "insn"
  /\ UNCHANGED <<seip, blk, irq, tx>>

(* A machine timer or software interrupt is pending too, and goes first *)
PollTimer ==
  /\ phase = "poll" /\ at = "run"
  /\ AskDevices
  /\ seip' = Raised
  /\ at' = "firmware" /\ phase' = "insn"
  /\ UNCHANGED <<blk, irq, tx>>

(* The supervisor external interrupt is taken, which clears SEIP again *)
PollTake ==
  /\ phase = "poll" /\ at = "run" /\ Raised
  /\ AskDevices
  /\ seip' = FALSE
  /\ at' = "claim" /\ phase' = "insn"
  /\ UNCHANGED <<blk, irq, tx>>

-----------------------------------------------------------------------------
(* One instruction of the guest, or a few that nothing comes between *)

Insn(place) == phase = "insn" /\ at = place /\ phase' = "tick"

(* Kernel code with interrupts on *)
Work ==
  /\ Insn("run")
  /\ at' \in {"run", "off"}
  /\ UNCHANGED <<uartVars, plicVars, seip, blk, irq, tx>>

EnableSource(i) ==
  /\ Insn("run")
  /\ SetEnable(enable \cup {i})
  /\ UNCHANGED <<uartVars, seip, blk, kernel>>

SwitchReceive(e) ==
  /\ Insn("run")
  /\ UartIrq \in enable
  /\ WriteIer(e)
  /\ UNCHANGED <<plicVars, seip, blk, kernel>>

StartOutput(n) ==
  /\ Insn("run")
  /\ UartIrq \in enable /\ tx = 0
  /\ WriteIer(ier \cup {"thri"})
  /\ tx' = n
  /\ UNCHANGED <<plicVars, seip, blk, at, irq>>

Run ==
  \/ Work
  \/ \E i \in {UartIrq, DiskIrq} : EnableSource(i)
  \/ \E e \in {ier \cup {"rdi"}, ier \ {"rdi"}} : SwitchReceive(e)
  \/ \E n \in 1 .. TxLoads : StartOutput(n)

(* Interrupts back on: csrs sstatus, or mret *)
Unmask ==
  /\ Insn("off") \/ Insn("firmware")
  /\ at' = "run"
  /\ UNCHANGED <<uartVars, plicVars, seip, blk, irq, tx>>

StayOff == Insn("off") /\ UNCHANGED <<uartVars, plicVars, seip, blk, kernel>>

Claim ==
  /\ Insn("claim")
  /\ irq' = claim
  /\ at' = CASE claim = NoIrq -> "run"
             [] claim = UartIrq -> "uart"
             [] claim = DiskIrq -> "disk"
  /\ UNCHANGED <<uartVars, plicVars, seip, blk, tx>>

(* One pass over the receiver, which holds one character *)
UartRead ==
  /\ Insn("uart")
  /\ IF dr THEN ReadThr ELSE UNCHANGED uartVars
  /\ at' = "send"
  /\ UNCHANGED <<plicVars, seip, blk, irq, tx>>

UartSend ==
  /\ Insn("send")
  /\ IF tx = 0 THEN UNCHANGED <<uartVars, tx>> ELSE WriteThr /\ tx' = tx - 1
  /\ at' = IF tx = 1 THEN "txoff" ELSE "complete"
  /\ UNCHANGED <<plicVars, seip, blk, irq>>

TxOff ==
  /\ Insn("txoff")
  /\ WriteIer(ier \ {"thri"})
  /\ at' = "complete"
  /\ UNCHANGED <<plicVars, seip, blk, irq, tx>>

AckDisk ==
  /\ Insn("disk")
  /\ blk' = FALSE
  /\ at' = "complete"
  /\ UNCHANGED <<uartVars, plicVars, seip, irq, tx>>

Complete ==
  /\ Insn("complete")
  /\ ClearPending(irq)
  /\ irq' = NoIrq
  /\ at' = "claim"
  /\ UNCHANGED <<uartVars, seip, blk, tx>>

Poll == PollMasked \/ PollNone \/ PollTimer \/ PollTake

Handle == Claim \/ UartRead \/ UartSend \/ TxOff \/ AckDisk \/ Complete

Loop == Tick \/ Poll \/ Run \/ Unmask \/ StayOff \/ Handle

Next == Loop \/ \E c \in Chars : HostTypes(c)

(* Cpu::run never stops; the guest does not keep interrupts off for ever,
   and the timer does not go first at every poll. *)
Spec == Init /\ [][Next]_vars
FairSpec == Spec /\ WF_vars(Loop) /\ SF_vars(Unmask) /\ SF_vars(PollTake)

-----------------------------------------------------------------------------
TypeOK ==
  /\ slot \in Chars \cup {NoChar} /\ val \in Chars \cup {NoChar}
  /\ dr \in BOOLEAN /\ ier \subseteq {"rdi", "thri"} /\ line \in BOOLEAN
  /\ pending \subseteq {PendingBit(UartIrq), PendingBit(DiskIrq)}
  /\ enable \subseteq {UartIrq, DiskIrq}
  /\ claim \in {NoIrq, UartIrq, DiskIrq} /\ irq \in {NoIrq, UartIrq, DiskIrq}
  /\ phase \in {"tick", "poll", "insn"} /\ at \in Places
  /\ seip \in BOOLEAN /\ blk \in BOOLEAN /\ tx \in 0 .. TxLoads

(* What can be claimed is enabled, and has the pending bit the code gives it
   set, though one register serves both devices, the polls of one overwrite
   the other and a completion clears it unread (update_pending,
   clear_pending).  The UART's pending bit is not the one of source 10. *)
ClaimIsPending == claim # NoIrq => PendingBit(claim) \in pending /\ claim \in enable

(* And the other way round when the UART is alone: a pending bit is there to
   be claimed, so that the completion of a claim leaves none behind.  Needs
   update_pending and clear_pending to find the same word, and no poll to
   report between a claim and its completion. *)
PendingIsClaimable == pending # {} => claim # NoIrq

(* A received character the driver has asked to be told of has an interrupt
   on its way: the edge the poll will see, a claim the handler will read, or
   the handler itself.  Many steps lie between the key and the read, and each
   hands the interrupt on (dispatch_interrupt, is_interrupting,
   update_pending, the poll). *)
DataIsAnnounced ==
  dr /\ "rdi" \in ier =>
    \/ line
    \/ claim = UartIrq /\ (seip \/ at = "claim")
    \/ at = "uart"

(* Data ready means data: a guest that finds the bit set reads a character
   and not the 0 of an empty receiver, however the reader's thread, the tick
   and the guest's reads interleave (native_cli.cpp, GpuDevice::tick).  For
   the window README.md:27 says "When typing into the SDL window, data is
   sent to the firmware through the 16550 UART interface"; there a key that
   is released takes the character back. *)
DataIsData == dr => val # NoChar

(* By the same line, what is received is read in the end. *)
DataIsRead == (dr /\ "rdi" \in ier) ~> (~dr \/ "rdi" \notin ier)

(* The disk's level is held until its driver answers, whatever else goes on. *)
DiskIsServed == (blk /\ DiskIrq \in enable) ~> ~blk

=============================================================================
