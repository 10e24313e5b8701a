---------------------------- MODULE ExtIrqProofs ----------------------------
(***************************************************************************)
(* A machine without a disk loses no receive interrupt.  The invariant     *)
(* adds to DataIsAnnounced what its steps rest on: the kernel has enabled  *)
(* the source before the device (EnabledFirst), and SEIP is clear while    *)
(* the handler runs (HandlerOwnsClaim), so that the claim a completion     *)
(* clears is never one that has not been read.                             *)
(***************************************************************************)
EXTENDS ExtIrq, TLAPS

EnabledFirst == "rdi" \in ier => UartIrq \in enable

HandlerOwnsClaim ==
  at \in {"claim", "uart", "send", "txoff", "disk", "complete"} => ~seip

NoDisk == ~blk /\ claim # DiskIrq

Inv == TypeOK /\ EnabledFirst /\ HandlerOwnsClaim /\ NoDisk /\ DataIsAnnounced

-----------------------------------------------------------------------------
(* Type correctness, with or without a disk, in either build. *)

LEMMA TickKeepsTypes == TypeOK /\ Tick => TypeOK'
<1> SUFFICES ASSUME TypeOK, Tick PROVE TypeOK'
  OBVIOUS
<1>1. slot' \in Chars \cup {NoChar} /\ val' \in Chars \cup {NoChar}
  <2>1. slot \in Chars \cup {NoChar} /\ val \in Chars \cup {NoChar}
    BY DEF TypeOK
  <2>2. CASE TakeChar
    BY <2>1, <2>2 DEF TakeChar
  <2>3. CASE KeyUp
    BY <2>1, <2>3 DEF KeyUp
  <2>4. CASE UNCHANGED uartVars
    BY <2>1, <2>4 DEF uartVars
  <2>5. CASE \E c \in Chars : KeyDown(c)
    BY <2>1, <2>5 DEF KeyDown
  <2>6. QED
    BY <2>2, <2>3, <2>4, <2>5 DEF Tick, UartTick
<1>2. dr' \in BOOLEAN /\ line' \in BOOLEAN /\ ier' \subseteq {"rdi", "thri"}
  <2>1. dr \in BOOLEAN /\ line \in BOOLEAN /\ ier \subseteq {"rdi", "thri"}
    BY DEF TypeOK
  <2>2. CASE TakeChar
    BY <2>1, <2>2 DEF TakeChar, Dispatch
  <2>3. CASE KeyUp
    BY <2>1, <2>3 DEF KeyUp
  <2>4. CASE UNCHANGED uartVars
    BY <2>1, <2>4 DEF uartVars
  <2>5. CASE \E c \in Chars : KeyDown(c)
    BY <2>1, <2>5 DEF KeyDown, Dispatch
  <2>6. QED
    BY <2>2, <2>3, <2>4, <2>5 DEF Tick, UartTick
<1>3. blk' \in BOOLEAN /\ phase' = "poll"
  BY DEF Tick, TypeOK
<1>4. UNCHANGED <<pending, enable, claim, seip, at, irq, tx>>
  BY DEF Tick, plicVars, kernel
<1>5. QED
  BY <1>1, <1>2, <1>3, <1>4 DEF TypeOK

LEMMA PollKeepsTypes == TypeOK /\ Poll => TypeOK'
<1> SUFFICES ASSUME TypeOK, Poll PROVE TypeOK'
  OBVIOUS
<1> USE DEF TypeOK, UartIrq, DiskIrq, NoIrq, NoChar, Places, kernel, uartVars, plicVars
<1>1. CASE PollMasked
  BY <1>1 DEF PollMasked
<1>2. CASE PollNone
  BY <1>2 DEF PollNone
<1>3. CASE PollTimer
  BY <1>3 DEF PollTimer, AskDevices, Raised, UpdatePending, ConsumeLine
<1>4. CASE PollTake
  BY <1>4 DEF PollTake, AskDevices, Raised, UpdatePending, ConsumeLine
<1>5. QED
  BY <1>1, <1>2, <1>3, <1>4 DEF Poll

LEMMA GuestKeepsTypes == TypeOK /\ (Run \/ Unmask \/ StayOff \/ Handle) => TypeOK'
<1> SUFFICES ASSUME TypeOK, Run \/ Unmask \/ StayOff \/ Handle PROVE TypeOK'
  OBVIOUS
<1> USE DEF TypeOK, UartIrq, DiskIrq, NoIrq, NoChar, Places, Insn, kernel, uartVars, plicVars
<1> USE ExtIrqAssumption DEF ExtIrqAssumption
<1>1. CASE Run
  <2>1. CASE Work
    BY <2>1 DEF Work
  <2>2. ASSUME NEW i \in {UartIrq, DiskIrq}, EnableSource(i) PROVE TypeOK'
    BY <2>2 DEF EnableSource, SetEnable
  <2>3. ASSUME NEW e \in {ier \cup {"rdi"}, ier \ {"rdi"}}, SwitchReceive(e) PROVE TypeOK'
    BY <2>3 DEF SwitchReceive, WriteIer, Dispatch
  <2>4. ASSUME NEW n \in 1 .. TxLoads, StartOutput(n) PROVE TypeOK'
    BY <2>4 DEF StartOutput, WriteIer, Dispatch
  <2>5. QED
    BY <1>1, <2>1, <2>2, <2>3, <2>4 DEF Run
<1>2. CASE Unmask \/ StayOff
  <2>1. at' \in Places
    BY <1>2 DEF Unmask, StayOff
  <2>2. UNCHANGED <<uartVars, plicVars, seip, blk, irq, tx>> /\ phase' = "tick"
    BY <1>2 DEF Unmask, StayOff
  <2>3. QED
    BY <2>1, <2>2
<1>3. CASE Claim
  BY <1>3 DEF Claim
<1>4. CASE UartRead
  BY <1>4 DEF UartRead, ReadThr, Dispatch
<1>5. CASE UartSend
  <2>1. tx' \in 0 .. TxLoads /\ at' \in Places
    BY <1>5 DEF UartSend
  <2>2. UNCHANGED <<uartVars, plicVars, seip, blk, irq>> /\ phase' = "tick"
    BY <1>5 DEF UartSend, WriteThr
  <2>3. QED
    BY <2>1, <2>2
<1>6. CASE TxOff
  BY <1>6 DEF TxOff, WriteIer, Dispatch
<1>7. CASE AckDisk
  BY <1>7 DEF AckDisk
<1>8. CASE Complete
  BY <1>8 DEF Complete, ClearPending
<1>9. QED
  BY <1>1, <1>2, <1>3, <1>4, <1>5, <1>6, <1>7, <1>8 DEF Handle

LEMMA StepKeepsTypes == TypeOK /\ [Next]_vars => TypeOK'
<1> SUFFICES ASSUME TypeOK, [Next]_vars PROVE TypeOK'
  OBVIOUS
<1>1. CASE UNCHANGED vars
  BY <1>1 DEF TypeOK, vars, Places
<1>2. CASE \E c \in Chars : HostTypes(c)
  BY <1>2 DEF TypeOK, HostTypes, Type, plicVars, kernel, Places
<1>3. CASE Loop
  BY <1>3, TickKeepsTypes, PollKeepsTypes, GuestKeepsTypes DEF Loop
<1>4. QED
  BY <1>1, <1>2, <1>3 DEF Next

LEMMA InitTypes == Init => TypeOK
<1> SUFFICES ASSUME Init PROVE TypeOK
  OBVIOUS
<1>1. tx \in 0 .. TxLoads
  BY ExtIrqAssumption DEF Init, ExtIrqAssumption
<1>2. QED
  BY <1>1 DEF Init, UartInit, PlicInit, TypeOK, Places, NoChar, NoIrq, UartIrq, DiskIrq

(* The registers of the UART, the PLIC and the poll keep their ranges, with
   or without a disk and in either build. *)
THEOREM TypesHold == Spec => []TypeOK
  BY InitTypes, StepKeepsTypes, PTL DEF Spec

-----------------------------------------------------------------------------
(* Without a disk the one claim register is enough. *)

LEMMA TickAnnounces == ~HasDisk /\ Inv /\ Tick => Inv'
<1> SUFFICES ASSUME ~HasDisk, Inv, Tick PROVE Inv'
  OBVIOUS
<1> USE DEF Inv, EnabledFirst, HandlerOwnsClaim, NoDisk, DataIsAnnounced, Tick,
            plicVars, kernel
<1>1. TypeOK'
  BY TickKeepsTypes
<1>2. (EnabledFirst /\ HandlerOwnsClaim /\ NoDisk /\ DataIsAnnounced)'
  <2>1. CASE Build = "native" /\ TakeChar
    BY <2>1 DEF TakeChar, Dispatch, TypeOK
  <2>2. CASE KeyUp
    BY <2>2 DEF KeyUp, TypeOK
  <2>3. CASE UNCHANGED uartVars
    BY <2>3 DEF uartVars, TypeOK
  <2>4. CASE \E c \in Chars : KeyDown(c)
    BY <2>4 DEF KeyDown, Dispatch, TypeOK
  <2>5. QED
    BY <2>1, <2>2, <2>3, <2>4 DEF UartTick
<1>3. QED
  BY <1>1, <1>2

LEMMA PollAnnounces == Inv /\ Poll => Inv'
<1> SUFFICES ASSUME Inv, Poll PROVE Inv'
  OBVIOUS
<1> USE DEF Inv, EnabledFirst, HandlerOwnsClaim, NoDisk, DataIsAnnounced,
            plicVars, uartVars, kernel
<1>1. TypeOK'
  BY PollKeepsTypes
<1>2. CASE PollMasked
  BY <1>1, <1>2 DEF PollMasked, TypeOK
<1>3. CASE PollNone
  BY <1>1, <1>3 DEF PollNone, TypeOK
<1>4. CASE PollTimer
  BY <1>1, <1>4 DEF PollTimer, AskDevices, Raised, UpdatePending, ConsumeLine, UartIrq, DiskIrq, TypeOK
<1>5. CASE PollTake
  BY <1>1, <1>5 DEF PollTake, AskDevices, Raised, UpdatePending, ConsumeLine, UartIrq, DiskIrq, TypeOK
<1>6. QED
  BY <1>2, <1>3, <1>4, <1>5 DEF Poll

LEMMA RunAnnounces == Inv /\ Run => Inv'
<1> SUFFICES ASSUME Inv, Run PROVE Inv'
  OBVIOUS
<1> USE DEF Inv, EnabledFirst, HandlerOwnsClaim, NoDisk, DataIsAnnounced, Insn,
            plicVars, uartVars, kernel
<1>1. TypeOK'
  BY GuestKeepsTypes
<1>2. CASE Work
  BY <1>1, <1>2 DEF Work, TypeOK
<1>3. ASSUME NEW i \in {UartIrq, DiskIrq}, EnableSource(i) PROVE Inv'
  BY <1>1, <1>3 DEF EnableSource, SetEnable, TypeOK
<1>4. ASSUME NEW e \in {ier \cup {"rdi"}, ier \ {"rdi"}}, SwitchReceive(e) PROVE Inv'
  BY <1>1, <1>4 DEF SwitchReceive, WriteIer, Dispatch, TypeOK
<1>5. ASSUME NEW n \in 1 .. TxLoads, StartOutput(n) PROVE Inv'
  BY <1>1, <1>5 DEF StartOutput, WriteIer, Dispatch, TypeOK
<1>6. QED
  BY <1>2, <1>3, <1>4, <1>5 DEF Run

LEMMA HandlerAnnounces == Inv /\ (Unmask \/ StayOff \/ Handle) => Inv'
<1> SUFFICES ASSUME Inv, Unmask \/ StayOff \/ Handle PROVE Inv'
  OBVIOUS
<1> USE DEF Inv, EnabledFirst, HandlerOwnsClaim, NoDisk, DataIsAnnounced, Insn,
            plicVars, uartVars, kernel, UartIrq, DiskIrq, NoIrq
<1>1. TypeOK'
  BY GuestKeepsTypes
<1>2. CASE Unmask \/ StayOff
  BY <1>1, <1>2 DEF Unmask, StayOff, TypeOK
<1>3. CASE Claim
  BY <1>1, <1>3 DEF Claim, TypeOK
<1>4. CASE UartRead
  BY <1>1, <1>4 DEF UartRead, ReadThr, Dispatch, TypeOK
<1>5. CASE UartSend
  BY <1>1, <1>5 DEF UartSend, WriteThr, TypeOK
<1>6. CASE TxOff
  BY <1>1, <1>6 DEF TxOff, WriteIer, Dispatch, TypeOK
<1>7. CASE AckDisk
  BY <1>1, <1>7 DEF AckDisk, TypeOK
<1>8. CASE Complete
  BY <1>1, <1>8 DEF Complete, ClearPending, TypeOK
<1>9. QED
  BY <1>2, <1>3, <1>4, <1>5, <1>6, <1>7, <1>8 DEF Handle

(* While the machine has no disk, a received character the driver has asked
   to be told of always has its interrupt on the way: through the edge, the
   one claim register and the handler nothing drops it. *)
THEOREM ReceiveInterruptsReachTheDriver ==
  ASSUME ~HasDisk
  PROVE  Spec => []DataIsAnnounced
<1>1. Init => Inv
  <2> SUFFICES ASSUME Init PROVE Inv
    OBVIOUS
  <2>1. TypeOK
    BY InitTypes
  <2>2. QED
    BY <2>1 DEF Init, UartInit, PlicInit, Inv, EnabledFirst, HandlerOwnsClaim, NoDisk,
                DataIsAnnounced, NoIrq, DiskIrq
<1>2. Inv /\ [Next]_vars => Inv'
  <2> SUFFICES ASSUME Inv, [Next]_vars PROVE Inv'
    OBVIOUS
  <2>1. TypeOK'
    BY StepKeepsTypes DEF Inv
  <2>2. CASE UNCHANGED vars
    BY <2>1, <2>2 DEF Inv, EnabledFirst, HandlerOwnsClaim, NoDisk, DataIsAnnounced, vars
  <2>3. CASE \E c \in Chars : HostTypes(c)
    BY <2>1, <2>3 DEF Inv, EnabledFirst, HandlerOwnsClaim, NoDisk, DataIsAnnounced,
                      HostTypes, Type, plicVars, kernel
  <2>4. CASE Loop
    BY <2>4, TickAnnounces, PollAnnounces, RunAnnounces, HandlerAnnounces DEF Loop
  <2>5. QED
    BY <2>2, <2>3, <2>4 DEF Next
<1>3. Inv => DataIsAnnounced
  BY DEF Inv
<1>4. QED
  BY <1>1, <1>2, <1>3, PTL DEF Spec

-----------------------------------------------------------------------------
(* The claim register, with or without a disk *)

LEMMA AskedIsPending == ClaimIsPending /\ AskDevices => ClaimIsPending'
BY DEF ClaimIsPending, AskDevices, UpdatePending, ConsumeLine, uartVars, plicVars

LEMMA PlicKeepsClaim == ClaimIsPending /\ UNCHANGED plicVars => ClaimIsPending'
BY DEF ClaimIsPending, plicVars

(* PlicDevice::update_pending and clear_pending: what a claim returns is a
   source that is enabled and whose pending bit, the one the code gives it,
   is set, although one register serves all the devices and a completion
   clears it unread. *)
THEOREM ClaimsArePending == Spec => []ClaimIsPending
<1>1. Init => ClaimIsPending
  BY DEF Init, PlicInit, ClaimIsPending
<1>2. ClaimIsPending /\ [Next]_vars => ClaimIsPending'
  <2> SUFFICES ASSUME ClaimIsPending, [Next]_vars PROVE ClaimIsPending'
    OBVIOUS
  <2>1. CASE Poll
    <3>1. AskDevices \/ UNCHANGED plicVars
      BY <2>1 DEF Poll, PollMasked, PollNone, PollTimer, PollTake
    <3> QED  BY <3>1, AskedIsPending, PlicKeepsClaim
  <2>2. CASE Complete
    BY <2>2 DEF Complete, ClearPending, ClaimIsPending
  <2>3. ASSUME NEW i \in {UartIrq, DiskIrq}, EnableSource(i) PROVE ClaimIsPending'
    BY <2>3 DEF EnableSource, SetEnable, ClaimIsPending
  <2>4. Tick \/ Work \/ Unmask \/ StayOff \/ Claim \/ UartRead \/ UartSend \/ TxOff \/ AckDisk
        => UNCHANGED plicVars
    BY DEF Tick, Work, Unmask, StayOff, Claim, UartRead, UartSend, TxOff, AckDisk
  <2>5. (\E e \in {ier \cup {"rdi"}, ier \ {"rdi"}} : SwitchReceive(e)) \/ (\E n \in 1 .. TxLoads : StartOutput(n))
        => UNCHANGED plicVars
    BY DEF SwitchReceive, StartOutput
  <2>6. (\E c \in Chars : HostTypes(c)) \/ UNCHANGED vars => UNCHANGED plicVars
    BY DEF HostTypes, vars, plicVars
  <2> QED  BY <2>1, <2>2, <2>3, <2>4, <2>5, <2>6, PlicKeepsClaim DEF Next, Loop, Run, Handle
<1> QED  BY <1>1, <1>2, PTL DEF Spec

-----------------------------------------------------------------------------
(* Pending bits without a disk.  Only the UART interrupts, and only with its
   source enabled (SourceFirst); no poll asks it while its handler runs, so
   that the handler completes the source that is in the claim register
   (HandlerHoldsClaim). *)

SourceFirst == line \/ ier # {} => UartIrq \in enable

HandlerHoldsClaim == at \in {"uart", "send", "txoff", "disk", "complete"} => irq = claim

OnlyUart == ~blk /\ pending \subseteq {PendingBit(UartIrq)} /\ claim \in {NoIrq, UartIrq}

AloneInv == SourceFirst /\ HandlerHoldsClaim /\ OnlyUart /\ PendingIsClaimable

(* The UART keeps to the sources the kernel has enabled. *)
LEMMA TickKeepsAlone == ~HasDisk /\ TypeOK /\ AloneInv /\ Tick => AloneInv'
<1> SUFFICES ASSUME ~HasDisk, TypeOK, AloneInv, Tick PROVE AloneInv'
  OBVIOUS
<1>1. line' => line \/ ier # {}
  BY DEF Tick, UartTick, TakeChar, KeyDown, KeyUp, Dispatch, uartVars
<1>2. ier' = ier
  BY DEF Tick, UartTick, TakeChar, KeyDown, KeyUp, uartVars
<1>3. blk' = blk /\ UNCHANGED <<pending, enable, claim, at, irq>>
  BY DEF Tick, plicVars, kernel
<1> QED
  BY <1>1, <1>2, <1>3 DEF AloneInv, SourceFirst, HandlerHoldsClaim, OnlyUart, PendingIsClaimable

LEMMA PollKeepsAlone == TypeOK /\ AloneInv /\ Poll => AloneInv'
<1> SUFFICES ASSUME TypeOK, AloneInv, Poll PROVE AloneInv'
  OBVIOUS
<1> USE DEF AloneInv, SourceFirst, HandlerHoldsClaim, OnlyUart, PendingIsClaimable
<1>1. CASE PollMasked \/ PollNone
  BY <1>1 DEF PollMasked, PollNone, uartVars, plicVars, kernel
<1>2. CASE PollTimer \/ PollTake
  <2>1. AskDevices /\ UNCHANGED blk /\ at' \in {"firmware", "claim"}
    BY <1>2 DEF PollTimer, PollTake
  <2>2. UNCHANGED <<enable, ier>> /\ (line' => line)
    BY <2>1 DEF AskDevices, UpdatePending, ConsumeLine, uartVars, plicVars
  <2>3. OnlyUart' /\ PendingIsClaimable'
    BY <2>1 DEF AskDevices, UpdatePending, ConsumeLine, uartVars, plicVars, UartIrq, NoIrq
  <2> QED
    BY <2>1, <2>2, <2>3
<1> QED
  BY <1>1, <1>2 DEF Poll

LEMMA GuestKeepsAlone == TypeOK /\ AloneInv /\ (Run \/ Unmask \/ StayOff \/ Handle) => AloneInv'
<1> SUFFICES ASSUME TypeOK, AloneInv, Run \/ Unmask \/ StayOff \/ Handle PROVE AloneInv'
  OBVIOUS
<1> USE DEF AloneInv, SourceFirst, HandlerHoldsClaim, OnlyUart, PendingIsClaimable, Insn
<1>1. CASE Work \/ Unmask \/ StayOff
  BY <1>1 DEF Work, Unmask, StayOff, uartVars, plicVars, kernel
<1>2. ASSUME NEW i \in {UartIrq, DiskIrq}, EnableSource(i) PROVE AloneInv'
  BY <1>2 DEF EnableSource, SetEnable, uartVars, kernel
<1>3. ASSUME NEW e \in {ier \cup {"rdi"}, ier \ {"rdi"}}, SwitchReceive(e) PROVE AloneInv'
  BY <1>3 DEF SwitchReceive, WriteIer, plicVars, kernel
<1>4. ASSUME NEW n \in 1 .. TxLoads, StartOutput(n) PROVE AloneInv'
  BY <1>4 DEF StartOutput, WriteIer, plicVars
<1>5. CASE Claim
  BY <1>5 DEF Claim, uartVars, plicVars
<1>6. CASE UartRead
  <2>1. /\ UNCHANGED <<ier, pending, enable, claim, blk, irq>> /\ at = "uart"
        /\ line' => line \/ ier # {}
    BY <1>6 DEF UartRead, ReadThr, Dispatch, uartVars, plicVars
  <2> QED
    BY <2>1
<1>7. CASE UartSend
  BY <1>7 DEF UartSend, WriteThr, uartVars, plicVars
<1>8. CASE TxOff
  <2>1. /\ UNCHANGED <<pending, enable, claim, blk, irq>> /\ at = "txoff"
        /\ line' \/ ier' # {} => line \/ ier # {}
    BY <1>8 DEF TxOff, WriteIer, Dispatch, plicVars
  <2> QED
    BY <2>1
<1>9. CASE AckDisk
  BY <1>9 DEF AckDisk, uartVars, plicVars
<1>10. CASE Complete
  <2>1. /\ irq = claim /\ UNCHANGED <<line, ier, enable, blk>> /\ at' = "claim"
        /\ pending' = pending \ {PendingBit(irq)} /\ claim' = NoIrq
    BY <1>10 DEF Complete, ClearPending, uartVars
  <2>2. pending' = {}
    BY <2>1
  <2> QED
    BY <2>1, <2>2
<1> QED
  BY <1>1, <1>2, <1>3, <1>4, <1>5, <1>6, <1>7, <1>8, <1>9, <1>10 DEF Run, Handle

(* Without a disk the pending bits and the claim register agree: a completion
   leaves no pending bit behind, in whatever word of the array
   PlicDevice::update_pending has put it. *)
THEOREM CompletionsClear == ASSUME ~HasDisk PROVE Spec => []PendingIsClaimable
<1>1. Init => AloneInv
  BY DEF Init, UartInit, PlicInit, AloneInv, SourceFirst, HandlerHoldsClaim, OnlyUart, PendingIsClaimable
<1>2. TypeOK /\ AloneInv /\ [Next]_vars => AloneInv'
  <2> SUFFICES ASSUME TypeOK, AloneInv, [Next]_vars PROVE AloneInv'
    OBVIOUS
  <2>1. CASE (\E c \in Chars : HostTypes(c)) \/ UNCHANGED vars
    BY <2>1 DEF HostTypes, Type, vars, plicVars, kernel, AloneInv, SourceFirst, HandlerHoldsClaim,
                OnlyUart, PendingIsClaimable
  <2>2. CASE Loop
    BY <2>2, TickKeepsAlone, PollKeepsAlone, GuestKeepsAlone DEF Loop
  <2> QED
    BY <2>1, <2>2 DEF Next
<1>3. AloneInv => PendingIsClaimable
  BY DEF AloneInv
<1> QED
  BY <1>1, <1>2, <1>3, TypesHold, PTL DEF Spec

-----------------------------------------------------------------------------
(* The receiver of the native build *)

LEMMA ReceiverKeepsData == DataIsData /\ UNCHANGED <<val, dr>> => DataIsData'
BY DEF DataIsData

(* With the native console data ready means data, however the reader's
   thread, the tick and the guest's reads interleave (GpuDevice::tick, load).
   With the window it does not: a key that is released zeroes val. *)
THEOREM NativeDataIsData == Build = "native" => (Spec => []DataIsData)
<1> SUFFICES ASSUME Build = "native" PROVE Spec => []DataIsData
  OBVIOUS
<1>1. Init => DataIsData
  BY DEF Init, UartInit, DataIsData
<1>2. DataIsData /\ [Next]_vars => DataIsData'
  <2> SUFFICES ASSUME DataIsData, [Next]_vars PROVE DataIsData'
    OBVIOUS
  <2>1. CASE Tick
    BY <2>1 DEF Tick, UartTick, TakeChar, DataIsData
  <2>2. CASE UartRead
    BY <2>2 DEF UartRead, ReadThr, uartVars, DataIsData
  <2>3. AskDevices => UNCHANGED <<val, dr>>
    BY DEF AskDevices, ConsumeLine, uartVars
  <2>4. Poll => UNCHANGED <<val, dr>>
    BY <2>3 DEF Poll, PollMasked, PollNone, PollTimer, PollTake, uartVars
  <2>5. Work \/ Unmask \/ StayOff \/ Claim \/ UartSend \/ TxOff \/ AckDisk \/ Complete => UNCHANGED <<val, dr>>
    BY DEF Work, Unmask, StayOff, Claim, UartSend, WriteThr, TxOff, WriteIer, AckDisk, Complete, uartVars
  <2>6. Run => UNCHANGED <<val, dr>>
    BY DEF Run, Work, EnableSource, SwitchReceive, StartOutput, WriteIer, uartVars
  <2>7. (\E c \in Chars : HostTypes(c)) \/ UNCHANGED vars => UNCHANGED <<val, dr>>
    BY DEF HostTypes, Type, vars
  <2> QED  BY <2>1, <2>2, <2>4, <2>5, <2>6, <2>7, ReceiverKeepsData DEF Next, Loop, Handle
<1> QED  BY <1>1, <1>2, PTL DEF Spec
=============================================================================
