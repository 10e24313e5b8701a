-------------------------------- MODULE Hart --------------------------------
(***************************************************************************)
(* One hart of the emulator: the Cpu::loop cycle, the interrupt poll, trap *)
(* entry for interrupts and exceptions, the trap returns and the CSR       *)
(* instructions that change the trap state.                                *)
(*                                                                         *)
(* A CSR whose bits matter one by one (mstatus, mie, mip, mideleg,         *)
(* medeleg) is the set of its one bits; tvec, epc and cause of the two     *)
(* levels are functions of the level.  Values written by the guest and the *)
(* lines the devices raise are inputs, taken from constants.               *)
(*                                                                         *)
(* One iteration of Cpu::loop is Poll* ("poll"), then one instruction      *)
(* ("exec"), then Trap ("trap") if there is an exception.  That may be the *)
(* instruction's, or one the disk raised in the tick before it: then the   *)
(* instruction is not executed (Skip).                                     *)
(***************************************************************************)
EXTENDS Integers

CONSTANTS
  AddrSpace,      \* size of the address space, 2^64 in the code
  RamBase,        \* RamDevice::base_addr, where the hart starts
  InsnBits,       \* guest csrrw/csrrs/csrrc on bit registers: [csr, op, val]
  AddrWrites,     \* values guest code puts in tvec and epc registers
  InsnSizes,      \* sizes of the guest's plain instructions
  JumpTargets,    \* where guest jumps and branches lead
  Faults,         \* exceptions other than ecall that an instruction raises
  DeviceLines     \* what the devices can do in a tick: [swi, timer, ext, fault]

(* Cpu modes, as numbered in common_def.hpp *)
User == 0
Supervisor == 1
Machine == 3
Invalid == 255
Modes == {User, Supervisor, Machine, Invalid}
Levels == {Supervisor, Machine}

(* Bit numbers of mstatus *)
SIE == 1
MIE == 3
SPIE == 5
MPIE == 7
SPP == 8
MPP == {11, 12}
MPRV == 17
TVM == 20
TSR == 22
StatusBits == 0 .. 22
SStatusMask == {SIE, SPIE, 6, SPP, 13, 14, 15, 16, 18, 19}

(* Interrupt numbers, their bits in mip and mie *)
SSI == 1
MSI == 3
STI == 5
MTI == 7
SEI == 9
MEI == 11
Irqs == {SSI, MSI, STI, MTI, SEI, MEI}
CauseBits == 0 .. 15

IllegalInstruction == 2
LoadAccessFault == 5
StoreAccessFault == 7
InstructionPageFault == 12
NoExc == 16

Addr == 0 .. (AddrSpace - 1)
Causes == [intr : BOOLEAN, code : CauseBits]
BitCsrs == {"mstatus", "sstatus", "mie", "sie", "mip", "sip", "mideleg", "medeleg"}

ASSUME AddrSpaceAssumption == AddrSpace \in Nat /\ AddrSpace > 0 /\ AddrSpace % 4 = 0
ASSUME InputsAssumption ==
  /\ RamBase \in Addr
  /\ InsnBits \subseteq [csr : BitCsrs, op : {"w", "s", "c"}, val : SUBSET StatusBits]
  /\ AddrWrites \subseteq Addr
  /\ InsnSizes \subseteq {2, 4}
  /\ JumpTargets \subseteq Addr
  /\ Faults \subseteq CauseBits
  /\ DeviceLines \subseteq [swi : BOOLEAN, timer : BOOLEAN, ext : BOOLEAN,
                             fault : {NoExc, LoadAccessFault, StoreAccessFault}]

VARIABLES
  mode,      \* Cpu::mode
  pc,        \* Cpu::pc
  mstatus, mie, mip, mideleg, medeleg,
  tvec,      \* stvec, mtvec
  epc,       \* sepc, mepc
  cause,     \* scause, mcause
  exc,       \* Cpu::exc_val
  phase      \* where in Cpu::loop the hart is

csrs == <<mstatus, mie, mip, mideleg, medeleg, tvec, epc, cause>>
vars == <<mode, pc, mstatus, mie, mip, mideleg, medeleg, tvec, epc, cause, exc, phase>>

Init ==
  /\ mode = Machine
  /\ pc = RamBase
  /\ mstatus = {} /\ mie = {} /\ mip = {} /\ mideleg = {} /\ medeleg = {}
  /\ tvec = [l \in Levels |-> 0]
  /\ epc = [l \in Levels |-> 0]
  /\ cause = [l \in Levels |-> [intr |-> FALSE, code |-> 0]]
  /\ exc = NoExc
  /\ phase = "poll"

-----------------------------------------------------------------------------
(* Bit operations of helper.cpp and Csr *)

(* mutant: pc is not reduced to the width of the register *)
WrapWide(a) == a

Wrap(a) == a % AddrSpace

Even(a) == a - (a % 2)

WriteBit(reg, bit, one) == IF one THEN reg \cup {bit} ELSE reg \ {bit}

(* mutant: the mode is shifted in one bit too high *)
ModeBitsOffByOne(m) == CASE m = User -> {} [] m = Supervisor -> {12} [] OTHER -> {12, 13}

(* write_mpp_mode: write_bits shifts its value in without masking it to the
   two bits of the field; Mode::Invalid is eight ones. *)
ModeBits(m) == CASE m = User       -> {}
                 [] m = Supervisor -> {11}
                 [] m = Machine    -> {11, 12}
                 [] OTHER          -> 11 .. 18

WriteMpp(reg, m) == (reg \ MPP) \cup ModeBits(m)

ReadMpp(reg) == CASE reg \cap MPP = {}   -> User
                  [] reg \cap MPP = {11} -> Supervisor
                  [] reg \cap MPP = MPP  -> Machine
                  [] OTHER               -> Invalid

ReadSpp(reg) == IF SPP \in reg THEN Supervisor ELSE User

CsrOp(op, old, val) == CASE op = "w" -> val
                         [] op = "s" -> old \cup val
                         [] op = "c" -> old \ val

(* Csr::store of a register that shows the bits of another under a mask *)
Under(mask, reg, val) == (reg \ mask) \cup (val \cap mask)

-----------------------------------------------------------------------------
(* Trap entry, common to interrupts and exceptions *)

PushS(reg, m) ==
  WriteBit(WriteBit(WriteBit(reg, SPIE, SIE \in reg), SIE, FALSE), SPP, m # User)

PushM(reg, m) ==
  WriteMpp(WriteBit(WriteBit(reg, MPIE, MIE \in reg), MIE, FALSE), m)

TrapTo(l, c, offset) ==
  /\ mode' = l
  /\ pc' = Wrap(tvec[l] - (tvec[l] % 4) + offset)
  /\ epc' = [epc EXCEPT ![l] = Even(pc)]
  /\ cause' = [cause EXCEPT ![l] = c]
  /\ mstatus' = IF l = Supervisor THEN PushS(mstatus, mode) ELSE PushM(mstatus, mode)
  /\ UNCHANGED <<mie, mideleg, medeleg, tvec>>

Target(delegated) ==
  IF delegated /\ mode \in {User, Supervisor} THEN Supervisor ELSE Machine

-----------------------------------------------------------------------------
(* The head of Cpu::loop: the devices tick, then the interrupt poll *)

(* mutant: the supervisor's enable flag is not consulted *)
MaskedMachineOnly == mode = Machine /\ MIE \notin mstatus

Masked ==
  \/ mode = Machine /\ MIE \notin mstatus
  \/ mode = Supervisor /\ SIE \notin mstatus

(* mip after Bus::tick_devices: the CLINT raises MSIP and drives MTIP *)
Ticked(d) == WriteBit(IF d.swi THEN mip \cup {MSI} ELSE mip, MTI, d.timer)

(* mip after get_pending_interrupt has polled the disk and the UART *)
Polled(d) == IF d.ext THEN Ticked(d) \cup {SEI} ELSE Ticked(d)

(* exc_val after Bus::tick_devices: an access of the disk that no device
   answers, to its ring or to a request, raises an exception on the hart. *)
Raised(d) == IF d.fault = NoExc THEN exc ELSE d.fault

Rank(i) == CASE i = MEI -> 1 [] i = MSI -> 2 [] i = MTI -> 3
             [] i = SEI -> 4 [] i = SSI -> 5 [] i = STI -> 6

PollMasked(d) ==
  /\ phase = "poll"
  /\ Masked
  /\ mip' = Ticked(d)
  /\ exc' = Raised(d)
  /\ phase' = "exec"
  /\ UNCHANGED <<mode, pc, mstatus, mie, mideleg, medeleg, tvec, epc, cause>>

PollNone(d) ==
  /\ phase = "poll"
  /\ ~Masked
  /\ Polled(d) \cap mie \cap Irqs = {}
  /\ mip' = Polled(d)
  /\ exc' = Raised(d)
  /\ phase' = "exec"
  /\ UNCHANGED <<mode, pc, mstatus, mie, mideleg, medeleg, tvec, epc, cause>>

(* mutant: taking one interrupt acknowledges all that are pending *)
PollTakeAll(d, i) ==
  /\ phase = "poll"
  /\ ~Masked
  /\ i \in Polled(d) \cap mie
  /\ mip' = Polled(d) \ mie
  /\ TrapTo(Target(i \in mideleg), [intr |-> TRUE, code |-> i], 0)
  /\ exc' = Raised(d)
  /\ phase' = "exec"

(* interrupt::process.  The machine timer is never delegated. *)
PollTake(d, i) ==
  /\ phase = "poll"
  /\ ~Masked
  /\ i \in Polled(d) \cap mie
  /\ \A j \in Polled(d) \cap mie \cap Irqs : Rank(i) <= Rank(j)
  /\ mip' = Polled(d) \ {i}
  /\ LET l == Target(i \in mideleg /\ i # MTI)
     IN TrapTo(l, [intr |-> TRUE, code |-> i], IF tvec[l] % 2 = 1 THEN 4 * i ELSE 0)
  /\ exc' = Raised(d)
  /\ phase' = "exec"

-----------------------------------------------------------------------------
(* One instruction *)

(* Mmu::fetch and _loop go on to an instruction only without an exception. *)
Fetched == phase = "exec" /\ exc = NoExc

(* An exception of the tick: the translation of pc may put a page fault in
   its place, and the instruction at pc, of the handler if the poll took an
   interrupt, is not executed. *)
Skip ==
  /\ phase = "exec" /\ exc # NoExc
  /\ \/ exc' = exc
     \/ mode # Machine /\ exc' = InstructionPageFault
  /\ phase' = "trap"
  /\ UNCHANGED <<mode, pc, csrs>>

Done(size) ==
  /\ Fetched
  /\ pc' = Wrap(pc + size)
  /\ phase' = "poll"
  /\ UNCHANGED exc

(* Cpu::set_exception in a handler: pc stays for exception::process *)
Throw(e) ==
  /\ Fetched
  /\ exc' = e
  /\ phase' = "trap"
  /\ UNCHANGED pc

(* An instruction without effect on the trap state *)
Plain(size) == Done(size) /\ UNCHANGED <<mode, csrs>>

Jump(target) ==
  /\ Fetched
  /\ pc' = target
  /\ phase' = "poll"
  /\ UNCHANGED <<mode, exc, csrs>>

(* A failed fetch or access, an illegal instruction, a breakpoint *)
Fault(e) == Throw(e) /\ UNCHANGED <<mode, csrs>>

ECall ==
  /\ Throw(IF mode = Invalid THEN IllegalInstruction ELSE 8 + mode)
  /\ UNCHANGED <<mode, csrs>>

(* mutant: SPIE is set before it is copied to SIE *)
PopSSwapped(reg) == WriteBit(reg \cup {SPIE, SIE}, SPP, FALSE)

PopS(reg) ==
  LET r == IF SPP \in reg THEN reg ELSE reg \ {MPRV}
  IN WriteBit(WriteBit(WriteBit(r, SIE, SPIE \in r), SPIE, TRUE), SPP, FALSE)

SRet ==
  IF TSR \in mstatus \/ mode = User
  THEN Fault(IllegalInstruction)
  ELSE /\ Fetched
       /\ pc' = epc[Supervisor]   \* epc - 4 in the handler, + 4 in the loop
       /\ mode' = ReadSpp(mstatus)
       /\ mstatus' = PopS(mstatus)
       /\ phase' = "poll"
       /\ UNCHANGED <<mie, mip, mideleg, medeleg, tvec, epc, cause, exc>>

PopM(reg) ==
  LET r == IF ReadMpp(reg) = Machine THEN reg ELSE reg \ {MPRV}
  IN WriteMpp(WriteBit(WriteBit(r, MIE, MPIE \in r), MPIE, TRUE), User)

(* mutant: mret does not check the mode *)
MRetUnchecked ==
  /\ Fetched
  /\ pc' = epc[Machine]
  /\ mode' = ReadMpp(mstatus)
  /\ mstatus' = PopM(mstatus)
  /\ phase' = "poll"
  /\ UNCHANGED <<mie, mip, mideleg, medeleg, tvec, epc, cause, exc>>

MRet ==
  IF mode # Machine
  THEN Fault(IllegalInstruction)
  ELSE /\ Fetched
       /\ pc' = epc[Machine]
       /\ mode' = ReadMpp(mstatus)
       /\ mstatus' = PopM(mstatus)
       /\ phase' = "poll"
       /\ UNCHANGED <<mie, mip, mideleg, medeleg, tvec, epc, cause, exc>>

(* sfence.vma and writes of satp; what they do to the TLB is in Mmu.  Both
   go on after raising the exception, which is then delivered. *)
SFenceVma ==
  IF TVM \in mstatus \/ mode = User
  THEN Fault(IllegalInstruction)
  ELSE Plain(4)

SatpWrite ==
  IF TVM \in mstatus THEN Fault(IllegalInstruction) ELSE Plain(4)

(* csrrw, csrrs and csrrc (and their immediate forms) on a bit register:
   only mstatus checks the mode, and only for user mode. *)
CsrInsn(insn) ==
  LET New(old) == CsrOp(insn.op, old, insn.val)
      only(r) == insn.csr = r
  IN IF only("mstatus") /\ mode = User
     THEN Fault(IllegalInstruction)
     ELSE /\ Done(4)
          /\ mstatus' = CASE only("mstatus") -> New(mstatus)
                          [] only("sstatus") ->
                               Under(SStatusMask, mstatus, New(mstatus \cap SStatusMask))
                          [] OTHER -> mstatus
          /\ mie' = CASE only("mie") -> New(mie) \cap CauseBits
                      [] only("sie") ->
                           Under(mideleg, mie, New(mie \cap mideleg))
                      [] OTHER -> mie
          /\ mip' = CASE only("mip") -> New(mip) \cap CauseBits
                      [] only("sip") ->
                           Under(mideleg \cap {SSI}, mip, New(mip \cap mideleg))
                      [] OTHER -> mip
          /\ mideleg' = IF only("mideleg") THEN New(mideleg) \cap CauseBits ELSE mideleg
          /\ medeleg' = IF only("medeleg") THEN New(medeleg) \cap CauseBits ELSE medeleg
          /\ UNCHANGED <<mode, tvec, epc, cause>>

(* A write of stvec, mtvec, sepc or mepc, of any value and in any mode *)
AddrInsn(l, v) ==
  /\ Done(4)
  /\ \/ tvec' = [tvec EXCEPT ![l] = v] /\ UNCHANGED epc
     \/ epc' = [epc EXCEPT ![l] = v] /\ UNCHANGED tvec
  /\ UNCHANGED <<mode, mstatus, mie, mip, mideleg, medeleg, cause>>

-----------------------------------------------------------------------------
(* The tail of Cpu::loop: exception::process, never vectored, and
   clear_exception *)
Trap ==
  /\ phase = "trap"
  /\ TrapTo(Target(exc \in medeleg), [intr |-> FALSE, code |-> exc], 0)
  /\ exc' = NoExc
  /\ phase' = "poll"
  /\ UNCHANGED mip

Poll == \E d \in DeviceLines :
          PollMasked(d) \/ PollNone(d) \/ \E i \in Irqs : PollTake(d, i)

Exec ==
  \/ \E size \in InsnSizes : Plain(size)
  \/ \E t \in JumpTargets : Jump(t)
  \/ \E e \in Faults : Fault(e)
  \/ ECall \/ SRet \/ MRet \/ SFenceVma \/ SatpWrite
  \/ \E insn \in InsnBits : CsrInsn(insn)
  \/ \E l \in Levels, v \in AddrWrites : AddrInsn(l, v)
  \/ Skip

Next == Poll \/ Exec \/ Trap

Spec == Init /\ [][Next]_vars

-----------------------------------------------------------------------------
(* What must be true of the trap unit *)

TypeOK ==
  /\ mode \in Modes
  /\ pc \in Addr
  /\ mstatus \subseteq StatusBits
  /\ mie \subseteq CauseBits /\ mip \subseteq CauseBits
  /\ mideleg \subseteq CauseBits /\ medeleg \subseteq CauseBits
  /\ tvec \in [Levels -> Addr]
  /\ epc \in [Levels -> Addr]
  /\ cause \in [Levels -> Causes]
  /\ exc \in CauseBits \cup {NoExc}
  /\ phase \in {"poll", "exec", "trap"}

(* The abstract trap architecture: each level's enable flag and frame *)
Enabled(l) == IF l = Supervisor THEN SIE \in mstatus ELSE MIE \in mstatus

archEnabled == {l \in Levels : Enabled(l)}
archMode == [l \in Levels |-> IF l = Supervisor THEN ReadSpp(mstatus) ELSE ReadMpp(mstatus)]
archSaved == {l \in Levels : IF l = Supervisor THEN SPIE \in mstatus ELSE MPIE \in mstatus}

Arch == INSTANCE TrapArch WITH
  enabled <- archEnabled, retPc <- epc, retMode <- archMode, retEnabled <- archSaved,
  pending <- exc

(* The CSR-level trap handling of interrupt.cpp and csrtypeinsn.cpp
   implements the abstract one, for guests that put no reserved mode in
   mstatus.MPP: over any nesting of interrupts, exceptions of instructions,
   exceptions of the disk's tick (which may come with an interrupt) and
   returns, nothing is executed under a pending exception, and a trap takes
   it away, reports it and frames the code it stopped. *)
TrapArchSpec == Arch!Spec

LegalMpp(reg) == ReadMpp(reg) # Invalid

(* What such a guest writes: no reserved mode from a legal one *)
LegalWrites ==
  \A insn \in InsnBits :
    insn.csr = "mstatus" =>
      \A mpp \in SUBSET MPP :
        LegalMpp(mpp) => LegalMpp(CsrOp(insn.op, mpp, insn.val))

(* No interrupt is lost between the poll and the trap: a pending bit goes
   away in a poll only with the trap that reports it, or because the CLINT
   lowers the timer line (get_pending_interrupt, interrupt::process). *)
LosesNoInterrupt ==
  phase = "poll" =>
    \A i \in mip \ mip' :
      \/ i = MTI
      \/ \E l \in Levels : /\ mode' = l
                            /\ cause'[l] = [intr |-> TRUE, code |-> i]
                            /\ epc'[l] = Even(pc)

NoLostInterrupt == [][LosesNoInterrupt]_vars

(* An interrupt never overwrites the return frame of a handler that has its
   level masked, nor enters the supervisor from machine mode. *)
SparesMaskedFrame ==
  phase = "poll" =>
    \A l \in Levels :
      epc'[l] # epc[l] \/ cause'[l] # cause[l] =>
        mode < l \/ (mode = l /\ Enabled(l))

HandlerProtected == [][SparesMaskedFrame]_vars

StackBits == {SIE, MIE, SPIE, MPIE, SPP} \cup MPP

(* Trap entry changes no mstatus bit but those of the interrupt stack: in
   particular it does not turn MPRV, SUM or FS on (write_mpp_mode). *)
WritesStackOnly == phase # "exec" => mstatus' \ StackBits = mstatus \ StackBits

TrapTouchesOnlyStack == [][WritesStackOnly]_vars

(* Privilege rises only with a trap that leaves the interrupted mode in the
   frame of its level: no return or CSR write promotes the running code. *)
PromotesByTrap ==
  mode' > mode =>
    /\ phase # "exec"
    /\ mode' = Supervisor => ReadSpp(mstatus') = mode
    /\ mode' = Machine => ReadMpp(mstatus') = mode

PrivilegeRisesOnlyByTrap == [][PromotesByTrap]_vars
=============================================================================
