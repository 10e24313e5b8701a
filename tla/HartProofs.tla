----------------------------- MODULE HartProofs -----------------------------
(***************************************************************************)
(* Theorems about Hart, for every address space, guest and device input;   *)
(* then about what the threads of a guest may rely on when its kernel      *)
(* switches them at any instruction: their own floating-point unit         *)
(* (FpContext), and a lock made with lr.w and sc.w (LrSc).                 *)
(***************************************************************************)
EXTENDS Hart, FpContext, LrSc, FiniteSetTheorems, TLAPS

-----------------------------------------------------------------------------
(* Addresses *)

(* The program counter arithmetic of Cpu::loop and of trap entry stays in
   the address space. *)
LEMMA WrapInAddr == ASSUME NEW a \in Int PROVE Wrap(a) \in Addr
BY AddrSpaceAssumption DEF Wrap, Addr

(* The low bit dropped by trap entry leaves an address. *)
LEMMA EvenInAddr == ASSUME NEW a \in Addr PROVE Even(a) \in Addr
BY AddrSpaceAssumption DEF Even, Addr

(* The handler address is an address for every tvec and cause. *)
LEMMA VectorInAddr ==
  ASSUME NEW t \in Addr, NEW off \in Int
  PROVE  Wrap(t - (t % 4) + off) \in Addr
<1>1. t - (t % 4) + off \in Int
  BY AddrSpaceAssumption DEF Addr
<1> QED
  BY <1>1, WrapInAddr

-----------------------------------------------------------------------------
(* mstatus *)

(* Pushing or popping an interrupt stack keeps mstatus within its bits. *)
LEMMA StackInStatus ==
  ASSUME NEW bits \in SUBSET StatusBits, NEW m \in Modes
  PROVE  /\ PushS(bits, m) \in SUBSET StatusBits
         /\ PushM(bits, m) \in SUBSET StatusBits
         /\ PopS(bits) \in SUBSET StatusBits
         /\ PopM(bits) \in SUBSET StatusBits
<1>1. {SIE, MIE, SPIE, MPIE, SPP} \subseteq StatusBits
  BY DEF SIE, MIE, SPIE, MPIE, SPP, StatusBits
<1>2. ModeBits(m) \subseteq StatusBits /\ ModeBits(User) \subseteq StatusBits
  BY DEF ModeBits, StatusBits, User
<1>3. PushS(bits, m) \in SUBSET StatusBits
  BY <1>1 DEF PushS, WriteBit
<1>4. PushM(bits, m) \in SUBSET StatusBits
  BY <1>1, <1>2 DEF PushM, WriteMpp, WriteBit
<1>5. PopS(bits) \in SUBSET StatusBits
  BY <1>1 DEF PopS, WriteBit
<1>6. PopM(bits) \in SUBSET StatusBits
  BY <1>1, <1>2 DEF PopM, WriteMpp, WriteBit
<1> QED
  BY <1>3, <1>4, <1>5, <1>6

(* The modes a frame can restore are modes. *)
LEMMA ReadModeInModes ==
  ASSUME NEW bits
  PROVE  ReadSpp(bits) \in Modes /\ ReadMpp(bits) \in Modes
BY DEF ReadSpp, ReadMpp, Modes

(* Trap entry puts values of the right type in the registers it writes. *)
LEMMA TrapToTypeOK ==
  ASSUME TypeOK, NEW l \in Levels, NEW c \in Causes, NEW off \in Int, TrapTo(l, c, off)
  PROVE  /\ mode' \in Modes
         /\ pc' \in Addr
         /\ mstatus' \subseteq StatusBits
         /\ mie' \subseteq CauseBits
         /\ mideleg' \subseteq CauseBits
         /\ medeleg' \subseteq CauseBits
         /\ tvec' \in [Levels -> Addr]
         /\ epc' \in [Levels -> Addr]
         /\ cause' \in [Levels -> Causes]
<1>1. tvec[l] \in Addr /\ pc \in Addr
  BY DEF TypeOK
<1>2. mode' \in Modes
  BY DEF TrapTo, Modes, Levels
<1>3. pc' \in Addr
  BY <1>1, VectorInAddr DEF TrapTo
<1>4. mstatus' \subseteq StatusBits
  BY StackInStatus DEF TrapTo, TypeOK
<1>5. epc' \in [Levels -> Addr]
  BY <1>1, EvenInAddr DEF TrapTo, TypeOK
<1>6. cause' \in [Levels -> Causes]
  BY DEF TrapTo, TypeOK
<1> QED
  BY <1>2, <1>3, <1>4, <1>5, <1>6 DEF TrapTo, TypeOK

-----------------------------------------------------------------------------
(* No exception is left when a tick begins, and there is one when
   exception::process runs.  Between the two there may be one or not. *)
ExceptionPhases ==
  /\ phase = "poll" => exc = NoExc
  /\ phase = "trap" => exc # NoExc

(* The registers have their types; exception::process is never entered
   without an exception, whose number would not be a cause. *)
LEMMA TypesAndPhases == Spec => [](TypeOK /\ ExceptionPhases)
<1>1. Init => TypeOK /\ ExceptionPhases
  BY InputsAssumption, AddrSpaceAssumption
  DEF Init, TypeOK, ExceptionPhases, Modes, Addr, Levels, Causes, CauseBits, NoExc, StatusBits
<1>2. TypeOK /\ ExceptionPhases /\ [Next]_vars => (TypeOK /\ ExceptionPhases)'
  <2> SUFFICES ASSUME TypeOK, ExceptionPhases, [Next]_vars
               PROVE  TypeOK' /\ ExceptionPhases'
    OBVIOUS
  <2>1. ASSUME NEW e \in CauseBits, Fault(e)
        PROVE  TypeOK' /\ ExceptionPhases'
    BY <2>1 DEF Fault, Throw, csrs, TypeOK, ExceptionPhases, CauseBits, NoExc
  <2>2. ASSUME NEW size \in {2, 4}, Done(size)
        PROVE  pc' \in Addr /\ exc' \in CauseBits \cup {NoExc} /\ phase' = "poll" /\ ExceptionPhases'
    <3>1. Wrap(pc + size) \in Addr
      BY WrapInAddr DEF TypeOK, Addr
    <3> QED
      BY <3>1, <2>2 DEF Done, Fetched, TypeOK, ExceptionPhases, NoExc
  <2>3. ASSUME NEW size \in {2, 4}, Plain(size)
        PROVE  TypeOK' /\ ExceptionPhases'
    BY <2>2, <2>3 DEF Plain, csrs, TypeOK
  <2>4. IllegalInstruction \in CauseBits /\ Irqs \subseteq CauseBits
    BY DEF IllegalInstruction, CauseBits, Irqs, SSI, MSI, STI, MTI, SEI, MEI
  <2>5. ASSUME NEW d \in DeviceLines
        PROVE  Polled(d) \subseteq CauseBits /\ Ticked(d) \subseteq CauseBits
    BY <2>4 DEF Polled, Ticked, WriteBit, TypeOK, Irqs
  <2>5a. ASSUME NEW d \in DeviceLines PROVE Raised(d) \in CauseBits \cup {NoExc}
    <3>1. d.fault \in CauseBits \cup {NoExc}
      BY InputsAssumption DEF LoadAccessFault, StoreAccessFault, CauseBits
    <3> QED
      BY <3>1 DEF Raised, TypeOK
  <2>6. ASSUME NEW d \in DeviceLines, PollMasked(d) \/ PollNone(d)
        PROVE  TypeOK' /\ ExceptionPhases'
    BY <2>5, <2>5a, <2>6 DEF PollMasked, PollNone, TypeOK, ExceptionPhases
  <2>7. ASSUME NEW d \in DeviceLines, NEW i \in Irqs, PollTake(d, i)
        PROVE  TypeOK' /\ ExceptionPhases'
    <3> DEFINE l == Target(i \in mideleg /\ i # MTI)
               c == [intr |-> TRUE, code |-> i]
               off == IF tvec[l] % 2 = 1 THEN 4 * i ELSE 0
    <3>1. l \in Levels /\ c \in Causes /\ off \in Int
      BY <2>4 DEF Target, Levels, Causes, CauseBits
    <3>2. TrapTo(l, c, off)
      BY <2>7 DEF PollTake
    <3>3. mip' \subseteq CauseBits
      BY <2>5, <2>7 DEF PollTake
    <3> HIDE DEF l, c, off
    <3> QED
      BY <3>1, <3>2, <3>3, <2>7, <2>5a, TrapToTypeOK DEF PollTake, TypeOK, ExceptionPhases
  <2>8. ASSUME NEW t \in JumpTargets, Jump(t)
        PROVE  TypeOK' /\ ExceptionPhases'
    BY <2>8, InputsAssumption DEF Jump, Fetched, csrs, TypeOK, ExceptionPhases
  <2>9. ASSUME ECall
        PROVE  TypeOK' /\ ExceptionPhases'
    <3>1. (IF mode = Invalid THEN IllegalInstruction ELSE 8 + mode) \in CauseBits
      BY <2>4 DEF TypeOK, Modes, User, Supervisor, Machine, CauseBits
    <3> QED
      BY <3>1, <2>1, <2>9 DEF ECall, Fault
  <2>10. ASSUME SRet \/ MRet
         PROVE  TypeOK' /\ ExceptionPhases'
    <3>1. CASE Fault(IllegalInstruction)
      BY <3>1, <2>1, <2>4
    <3>2. CASE ~Fault(IllegalInstruction)
      BY <3>2, <2>10, StackInStatus, ReadModeInModes
      DEF SRet, MRet, Fetched, TypeOK, ExceptionPhases, Levels
    <3> QED
      BY <3>1, <3>2
  <2>11. ASSUME SFenceVma \/ SatpWrite
         PROVE  TypeOK' /\ ExceptionPhases'
    BY <2>11, <2>1, <2>3, <2>4 DEF SFenceVma, SatpWrite
  <2>12. ASSUME NEW insn \in InsnBits, CsrInsn(insn)
         PROVE  TypeOK' /\ ExceptionPhases'
    <3>1. CASE Fault(IllegalInstruction)
      BY <3>1, <2>1, <2>4
    <3>2. CASE ~Fault(IllegalInstruction)
      <4>1. insn.val \subseteq StatusBits /\ insn.op \in {"w", "s", "c"}
        BY InputsAssumption
      <4>2. ASSUME NEW old \in SUBSET StatusBits
            PROVE  CsrOp(insn.op, old, insn.val) \subseteq StatusBits
        BY <4>1 DEF CsrOp
      <4>3. mstatus' \subseteq StatusBits
        BY <3>2, <2>12, <4>2 DEF CsrInsn, Under, TypeOK
      <4>4. mie' \subseteq CauseBits /\ mip' \subseteq CauseBits
        BY <3>2, <2>12 DEF CsrInsn, Under, TypeOK
      <4>5. mideleg' \subseteq CauseBits /\ medeleg' \subseteq CauseBits
        BY <3>2, <2>12 DEF CsrInsn, TypeOK
      <4> QED
        BY <3>2, <2>12, <4>3, <4>4, <4>5, <2>2 DEF CsrInsn, TypeOK
    <3> QED
      BY <3>1, <3>2
  <2>13. ASSUME NEW l \in Levels, NEW v \in AddrWrites, AddrInsn(l, v)
         PROVE  TypeOK' /\ ExceptionPhases'
    BY <2>13, <2>2, InputsAssumption DEF AddrInsn, TypeOK
  <2>14. CASE Trap
    <3> DEFINE l == Target(exc \in medeleg)
               c == [intr |-> FALSE, code |-> exc]
    <3>1. l \in Levels /\ c \in Causes /\ 0 \in Int
      BY <2>14 DEF Trap, Target, Levels, Causes, TypeOK, ExceptionPhases
    <3>2. TrapTo(l, c, 0)
      BY <2>14 DEF Trap
    <3> HIDE DEF l, c
    <3> QED
      BY <3>1, <3>2, <2>14, TrapToTypeOK DEF Trap, TypeOK, ExceptionPhases
  <2>15. CASE UNCHANGED vars
    BY <2>15 DEF vars, TypeOK, ExceptionPhases
  <2>16. CASE Poll
    BY <2>16, <2>6, <2>7 DEF Poll
  <2>16a. CASE Skip
    BY <2>16a DEF Skip, csrs, TypeOK, ExceptionPhases, InstructionPageFault, CauseBits, NoExc
  <2>17. CASE Exec
    BY <2>17, <2>16a, <2>1, <2>3, <2>8, <2>9, <2>10, <2>11, <2>12, <2>13, InputsAssumption DEF Exec
  <2> QED
    BY <2>14, <2>15, <2>16, <2>17 DEF Next
<1> QED
  BY <1>1, <1>2, PTL DEF Spec

(* The trap registers keep their types in every step of Cpu::loop. *)
THEOREM TypeCorrect == Spec => []TypeOK
BY TypesAndPhases, PTL

-----------------------------------------------------------------------------
(* The interrupt stack kept in mstatus *)

(* Entry into the supervisor saves SIE and the mode, masks the level and
   leaves the machine level's bits alone. *)
LEMMA PushSStack ==
  ASSUME NEW bits, NEW m \in {User, Supervisor}
  PROVE  /\ ReadSpp(PushS(bits, m)) = m
         /\ SPIE \in PushS(bits, m) <=> SIE \in bits
         /\ SIE \notin PushS(bits, m)
         /\ MIE \in PushS(bits, m) <=> MIE \in bits
         /\ MPIE \in PushS(bits, m) <=> MPIE \in bits
         /\ PushS(bits, m) \cap MPP = bits \cap MPP
BY DEF PushS, WriteBit, ReadSpp, User, Supervisor, SIE, MIE, SPIE, MPIE, SPP, MPP

(* Entry into machine mode saves MIE and a mode the field can hold, masks
   the level and leaves the supervisor's bits alone. *)
LEMMA PushMStack ==
  ASSUME NEW bits, NEW m \in {User, Supervisor, Machine}
  PROVE  /\ ReadMpp(PushM(bits, m)) = m
         /\ MPIE \in PushM(bits, m) <=> MIE \in bits
         /\ MIE \notin PushM(bits, m)
         /\ SIE \in PushM(bits, m) <=> SIE \in bits
         /\ SPIE \in PushM(bits, m) <=> SPIE \in bits
         /\ SPP \in PushM(bits, m) <=> SPP \in bits
<1>1. PushM(bits, m) \cap MPP = ModeBits(m) /\ ModeBits(m) \subseteq MPP
  BY DEF PushM, WriteMpp, ModeBits, User, Supervisor, Machine, MPP
<1>2. ReadMpp(PushM(bits, m)) = m
  BY <1>1 DEF ReadMpp, ModeBits, User, Supervisor, Machine, MPP
<1>3. \A b \in {SIE, SPIE, SPP, MIE, MPIE} : b \notin MPP
  BY DEF MIE, MPIE, SIE, SPIE, SPP, MPP
<1> QED
  BY <1>1, <1>2, <1>3 DEF PushM, WriteMpp, WriteBit, MIE, MPIE, SIE, SPIE, SPP

(* Return from the supervisor restores SIE and resets its frame. *)
LEMMA PopSStack ==
  ASSUME NEW bits
  PROVE  /\ SIE \in PopS(bits) <=> SPIE \in bits
         /\ SPIE \in PopS(bits)
         /\ ReadSpp(PopS(bits)) = User
         /\ MIE \in PopS(bits) <=> MIE \in bits
         /\ MPIE \in PopS(bits) <=> MPIE \in bits
         /\ PopS(bits) \cap MPP = bits \cap MPP
BY DEF PopS, WriteBit, ReadSpp, SIE, SPIE, SPP, MIE, MPIE, MPP, MPRV

(* Return from machine mode restores MIE and resets its frame. *)
LEMMA PopMStack ==
  ASSUME NEW bits
  PROVE  /\ MIE \in PopM(bits) <=> MPIE \in bits
         /\ MPIE \in PopM(bits)
         /\ ReadMpp(PopM(bits)) = User
         /\ SIE \in PopM(bits) <=> SIE \in bits
         /\ SPIE \in PopM(bits) <=> SPIE \in bits
         /\ SPP \in PopM(bits) <=> SPP \in bits
<1>1. ModeBits(User) = {}
  BY DEF ModeBits, User, Supervisor, Machine
<1> QED
  BY <1>1 DEF PopM, WriteMpp, WriteBit, ReadMpp, SIE, SPIE, SPP, MIE, MPIE, MPP, MPRV

(* The mode the field holds depends on the field alone. *)
LEMMA ReadMppLocal ==
  ASSUME NEW r1, NEW r2, r1 \cap MPP = r2 \cap MPP
  PROVE  ReadMpp(r1) = ReadMpp(r2)
BY DEF ReadMpp

-----------------------------------------------------------------------------
(* A guest that puts no reserved mode in mstatus.MPP never runs in
   Mode::Invalid (read_mpp_mode, mret). *)

LegalModes == mode # Invalid /\ LegalMpp(mstatus)

THEOREM LegalGuestKeepsLegalModes == LegalWrites => (Spec => []LegalModes)
<1> SUFFICES ASSUME LegalWrites PROVE Spec => []LegalModes
  OBVIOUS
<1>1. Init => LegalModes
  BY DEF Init, LegalModes, LegalMpp, ReadMpp, Machine, Invalid, User
<1>2. TypeOK /\ LegalModes /\ [Next]_vars => LegalModes'
  <2> SUFFICES ASSUME TypeOK, LegalModes, [Next]_vars PROVE LegalModes'
    OBVIOUS
  <2>1. mode \in {User, Supervisor, Machine}
    BY DEF TypeOK, LegalModes, Modes
  <2>2. ASSUME UNCHANGED <<mode, mstatus>> PROVE LegalModes'
    BY <2>2 DEF LegalModes, LegalMpp
  <2>3. ASSUME NEW delegated, NEW c, NEW off, TrapTo(Target(delegated), c, off)
        PROVE  LegalModes'
    <3>1. CASE Target(delegated) = Supervisor
      <4>1. mode \in {User, Supervisor} /\ mode' = Supervisor /\ mstatus' = PushS(mstatus, mode)
        BY <2>3, <3>1 DEF TrapTo, Target, Supervisor, Machine
      <4> QED
        BY <4>1, PushSStack, ReadMppLocal DEF LegalModes, LegalMpp, Supervisor, Invalid
    <3>2. CASE Target(delegated) = Machine
      <4>1. mode' = Machine /\ mstatus' = PushM(mstatus, mode)
        BY <2>3, <3>2 DEF TrapTo, Supervisor, Machine
      <4> QED
        BY <4>1, <2>1, PushMStack DEF LegalModes, LegalMpp, Machine, Invalid, User, Supervisor
    <3> QED
      BY <3>1, <3>2 DEF Target
  <2>4. CASE SRet
    BY <2>4, <2>2, PopSStack, ReadMppLocal
    DEF SRet, Fault, csrs, LegalModes, LegalMpp, ReadSpp, Supervisor, User, Invalid
  <2>5. CASE MRet
    BY <2>5, <2>2, PopMStack DEF MRet, Fault, csrs, LegalModes, LegalMpp, User, Invalid
  <2>6. ASSUME NEW insn \in InsnBits, CsrInsn(insn) PROVE LegalModes'
    <3>1. CASE insn.csr = "mstatus" /\ mode # User
      <4>1. mstatus' = CsrOp(insn.op, mstatus, insn.val) /\ UNCHANGED mode
        BY <2>6, <3>1 DEF CsrInsn
      <4>2. LegalMpp(mstatus \cap MPP)
        BY ReadMppLocal DEF LegalModes, LegalMpp
      <4>3. LegalMpp(CsrOp(insn.op, mstatus \cap MPP, insn.val))
        BY <3>1, <4>2 DEF LegalWrites
      <4>4. insn.op \in {"w", "s", "c"}
        BY InputsAssumption
      <4>5. CsrOp(insn.op, mstatus, insn.val) \cap MPP
              = CsrOp(insn.op, mstatus \cap MPP, insn.val) \cap MPP
        BY <4>4 DEF CsrOp
      <4> QED
        BY <4>1, <4>3, <4>5, ReadMppLocal DEF LegalModes, LegalMpp
    <3>2. CASE insn.csr = "sstatus"
      <4>1. mstatus' \cap MPP = mstatus \cap MPP /\ UNCHANGED mode
        BY <2>6, <3>2 DEF CsrInsn, Under, SStatusMask, MPP, SIE, SPIE, SPP
      <4> QED
        BY <4>1, ReadMppLocal DEF LegalModes, LegalMpp
    <3>3. CASE (insn.csr = "mstatus" /\ mode = User) \/ insn.csr \notin {"mstatus", "sstatus"}
      BY <2>6, <3>3, <2>2 DEF CsrInsn, Fault, csrs
    <3> QED
      BY <3>1, <3>2, <3>3
  <2>7. CASE Trap
    BY <2>7, <2>3 DEF Trap
  <2>8. CASE Poll
    BY <2>8, <2>2, <2>3 DEF Poll, PollMasked, PollNone, PollTake
  <2>9. CASE Exec
    BY <2>9, <2>2, <2>4, <2>5, <2>6
    DEF Exec, Plain, Jump, Fault, ECall, SFenceVma, SatpWrite, AddrInsn, Skip, csrs
  <2>10. CASE UNCHANGED vars
    BY <2>10, <2>2 DEF vars
  <2> QED
    BY <2>7, <2>8, <2>9, <2>10 DEF Next
<1> QED
  BY <1>1, <1>2, TypeCorrect, PTL DEF Spec

-----------------------------------------------------------------------------
(* The CSR-level trap handling implements TrapArch *)

(* The modes a legal frame restores are those of the architecture. *)
LEMMA ArchModes ==
  ASSUME NEW bits, LegalMpp(bits)
  PROVE  ReadSpp(bits) \in Arch!Modes /\ ReadMpp(bits) \in Arch!Modes
BY DEF ReadSpp, ReadMpp, LegalMpp, User, Supervisor, Machine,
       Arch!Modes, Arch!User, Arch!Supervisor, Arch!Machine

(* The two modules agree on levels, addresses and causes. *)
LEMMA ArchConstants ==
  /\ Arch!Levels = Levels /\ Arch!Addr = Addr
  /\ Arch!Codes = CauseBits /\ Arch!Causes = Causes /\ Arch!NoExc = NoExc
  /\ Arch!User = User /\ Arch!Supervisor = Supervisor /\ Arch!Machine = Machine
BY DEF Arch!Levels, Levels, Arch!Addr, Addr,
       Arch!Codes, CauseBits, Arch!Causes, Causes, Arch!NoExc, NoExc,
       Arch!User, Arch!Supervisor, Arch!Machine, User, Supervisor, Machine

(* The supervisor level's bits are not the machine level's. *)
LEMMA LevelsDiffer == Levels = {Supervisor, Machine} /\ Supervisor # Machine
BY DEF Levels, Supervisor, Machine

(* Trap entry at the CSR level is the abstract Trap. *)
LEMMA TrapToImplementsTrap ==
  ASSUME TypeOK, TypeOK', LegalModes, NEW delegated, NEW c, NEW off,
         TrapTo(Target(delegated), c, off)
  PROVE  \E l \in Arch!Levels : Arch!Trap(l, c)
<1>1. mode \in {User, Supervisor, Machine}
  BY DEF TypeOK, LegalModes, Modes
<1>2. PICK l \in Levels : l = Target(delegated)
  BY DEF Target, Levels
<1>3. mode <= l /\ mode' = l /\ pc' \in Arch!Addr
  BY <1>1, <1>2 DEF TrapTo, Target, TypeOK, Addr, Arch!Addr, User, Supervisor, Machine
<1>4. /\ epc' = [epc EXCEPT ![l] = Arch!Even(pc)]
      /\ cause' = [cause EXCEPT ![l] = c]
  BY <1>2 DEF TrapTo, Arch!Even, Even
<1>5. CASE l = Supervisor
  <2>1. mstatus' = PushS(mstatus, mode) /\ mode \in {User, Supervisor}
    BY <1>2, <1>5 DEF TrapTo, Target, Supervisor, Machine
  <2>2. archEnabled' = archEnabled \ {l}
    BY <2>1, <1>5, PushSStack, LevelsDiffer DEF archEnabled, Enabled
  <2>3. archMode' = [archMode EXCEPT ![l] = mode]
    <3>1. ReadSpp(mstatus') = mode
      BY <2>1, PushSStack
    <3>2. ReadMpp(mstatus') = ReadMpp(mstatus)
      BY <2>1, PushSStack, ReadMppLocal
    <3> QED
      BY <3>1, <3>2, <1>5, LevelsDiffer DEF archMode
  <2>4. archSaved' = Arch!With(archSaved, l, l \in archEnabled)
    BY <2>1, <1>5, PushSStack, LevelsDiffer DEF archSaved, archEnabled, Enabled, Arch!With
  <2> QED
    BY <1>3, <1>4, <2>2, <2>3, <2>4, ArchConstants DEF Arch!Trap
<1>6. CASE l = Machine
  <2>1. mstatus' = PushM(mstatus, mode)
    BY <1>2, <1>6 DEF TrapTo, Supervisor, Machine
  <2>2. archEnabled' = archEnabled \ {l}
    BY <2>1, <1>1, <1>6, PushMStack, LevelsDiffer DEF archEnabled, Enabled
  <2>3. archMode' = [archMode EXCEPT ![l] = mode]
    <3>1. ReadMpp(mstatus') = mode
      BY <2>1, <1>1, PushMStack
    <3>2. ReadSpp(mstatus') = ReadSpp(mstatus)
      BY <2>1, <1>1, PushMStack DEF ReadSpp
    <3>3. \A k \in Levels : k = Supervisor \/ k = l
      BY <1>6, LevelsDiffer
    <3> QED
      BY <3>1, <3>2, <3>3, <1>6, LevelsDiffer DEF archMode
  <2>4. archSaved' = Arch!With(archSaved, l, l \in archEnabled)
    BY <2>1, <1>1, <1>6, PushMStack, LevelsDiffer
    DEF archSaved, archEnabled, Enabled, Arch!With
  <2> QED
    BY <1>3, <1>4, <2>2, <2>3, <2>4, ArchConstants DEF Arch!Trap
<1> QED
  BY <1>5, <1>6 DEF Levels

(* sret and mret, when they are legal, are the abstract Return. *)
LEMMA ReturnsImplementReturn ==
  ASSUME TypeOK, LegalModes, SRet \/ MRet, ~Fault(IllegalInstruction)
  PROVE  \E l \in Arch!Levels : Arch!Return(l)
<1>1. mode \in {User, Supervisor, Machine} /\ exc = Arch!NoExc /\ UNCHANGED <<cause, exc>>
  BY ArchConstants DEF SRet, MRet, Fetched, TypeOK, LegalModes, Modes
<1>2. CASE SRet
  <2>1. /\ mode # User /\ mode' = ReadSpp(mstatus) /\ pc' = epc[Supervisor]
        /\ mstatus' = PopS(mstatus) /\ epc' = epc
    BY <1>2 DEF SRet
  <2>2. archEnabled' = Arch!With(archEnabled, Supervisor, Supervisor \in archSaved)
    BY <2>1, PopSStack, LevelsDiffer DEF archEnabled, archSaved, Enabled, Arch!With
  <2>3. archSaved' = archSaved \cup {Supervisor}
    BY <2>1, PopSStack, LevelsDiffer DEF archSaved
  <2>4. archMode' = [archMode EXCEPT ![Supervisor] = User] /\ mode' = archMode[Supervisor]
    BY <2>1, PopSStack, ReadMppLocal, LevelsDiffer DEF archMode
  <2>5. mode >= Supervisor
    BY <1>1, <2>1 DEF User, Supervisor, Machine
  <2> QED
    BY <1>1, <2>1, <2>2, <2>3, <2>4, <2>5, ArchConstants, LevelsDiffer DEF Arch!Return
<1>3. CASE MRet
  <2>1. /\ mode = Machine /\ mode' = ReadMpp(mstatus) /\ pc' = epc[Machine]
        /\ mstatus' = PopM(mstatus) /\ epc' = epc
    BY <1>3 DEF MRet
  <2>2. archEnabled' = Arch!With(archEnabled, Machine, Machine \in archSaved)
    BY <2>1, PopMStack, LevelsDiffer DEF archEnabled, archSaved, Enabled, Arch!With
  <2>3. archSaved' = archSaved \cup {Machine}
    BY <2>1, PopMStack, LevelsDiffer DEF archSaved
  <2>4. archMode' = [archMode EXCEPT ![Machine] = User] /\ mode' = archMode[Machine]
    BY <2>1, PopMStack, LevelsDiffer DEF archMode, ReadSpp
  <2>5. mode >= Machine
    BY <2>1 DEF Machine
  <2> QED
    BY <1>1, <2>1, <2>2, <2>3, <2>4, <2>5, ArchConstants, LevelsDiffer DEF Arch!Return
<1> QED
  BY <1>2, <1>3

(* An instruction other than a trap return leaves the mode and, in user
   mode, the machine level's stack as they were. *)
LEMMA OthersImplementSoftware ==
  ASSUME TypeOK', LegalModes', mode' = mode, exc = NoExc, UNCHANGED exc,
         mode = User => /\ MIE \in mstatus' <=> MIE \in mstatus
                        /\ MPIE \in mstatus' <=> MPIE \in mstatus
                        /\ mstatus' \cap MPP = mstatus \cap MPP
  PROVE  Arch!Software
<1>1. archEnabled' \subseteq Levels /\ archSaved' \subseteq Levels
  BY DEF archEnabled, archSaved
<1>2. archMode' \in [Levels -> Arch!Modes]
  BY ArchModes, LevelsDiffer DEF archMode, LegalModes
<1>3. /\ mode' \in Arch!Modes /\ pc' \in Addr
      /\ epc' \in [Levels -> Addr] /\ cause' \in [Levels -> Causes]
  BY DEF TypeOK, LegalModes, Modes, Arch!Modes, User, Supervisor, Machine,
         Arch!User, Arch!Supervisor, Arch!Machine
<1>4. mode = User => /\ Machine \in archEnabled' <=> Machine \in archEnabled
                     /\ Machine \in archSaved' <=> Machine \in archSaved
  BY LevelsDiffer DEF archEnabled, archSaved, Enabled
<1>5. mode = User => archMode'[Machine] = archMode[Machine]
  BY LevelsDiffer, ReadMppLocal DEF archMode
<1> QED
  BY <1>1, <1>2, <1>3, <1>4, <1>5, ArchConstants DEF Arch!Software

(* Every step of the hart is an abstract step or changes nothing abstract. *)
LEMMA StepImplementsArch ==
  ASSUME TypeOK, TypeOK', ExceptionPhases, LegalModes, LegalModes', [Next]_vars
  PROVE  [Arch!Next]_(Arch!vars)
<1>1. ASSUME UNCHANGED <<mode, pc, mstatus, epc, cause>>, exc' = exc \/ exc' # NoExc
      PROVE  [Arch!Next]_(Arch!vars)
  <2>1. UNCHANGED <<mode, pc, archEnabled, Arch!frames>>
    BY <1>1 DEF Arch!frames, archEnabled, archMode, archSaved, Enabled
  <2>2. CASE exc' = exc
    BY <2>1, <2>2 DEF Arch!vars
  <2>3. CASE exc' # NoExc
    BY <2>1, <2>3, ArchConstants DEF TypeOK, Arch!Raise, Arch!Next
  <2> QED
    BY <1>1, <2>2, <2>3
<1>2. ASSUME UNCHANGED <<mode, mstatus, exc>>, exc = NoExc PROVE Arch!Software
  BY <1>2, OthersImplementSoftware
<1>3. ASSUME NEW e, Fault(e) PROVE [Arch!Next]_(Arch!vars)
  <2>1. exc' = e /\ phase' = "trap" /\ UNCHANGED <<mode, pc, mstatus, epc, cause>>
    BY <1>3 DEF Fault, Throw, csrs
  <2>2. CASE e # NoExc
    BY <2>1, <2>2, <1>1
  <2>3. CASE e = NoExc
    BY <2>1, <2>3, <1>3, <1>1 DEF Fault, Throw, Fetched
  <2> QED
    BY <2>2, <2>3
<1>4. CASE Poll
  <2>1. PICK d \in DeviceLines : PollMasked(d) \/ PollNone(d) \/ \E i \in Irqs : PollTake(d, i)
    BY <1>4 DEF Poll
  <2>2. CASE PollMasked(d) \/ PollNone(d)
    <3>1. exc' = Raised(d) /\ UNCHANGED <<mode, pc, mstatus, epc, cause>>
      BY <2>2 DEF PollMasked, PollNone
    <3>2. exc' = exc \/ exc' # NoExc
      BY <3>1 DEF Raised
    <3> QED
      BY <3>1, <3>2, <1>1
  <2>3. CASE \E i \in Irqs : PollTake(d, i)
    <3>1. PICK i \in Irqs : PollTake(d, i)
      BY <2>3
    <3> DEFINE c == [intr |-> TRUE, code |-> i]
    <3>2. exc = NoExc /\ exc' \in CauseBits \cup {NoExc}
      BY <3>1 DEF PollTake, ExceptionPhases, TypeOK
    <3>3. PICK l \in Arch!Levels : Arch!Trap(l, c)
      BY <3>1, TrapToImplementsTrap DEF PollTake
    <3>4. i \in CauseBits
      BY DEF Irqs, SSI, MSI, STI, MTI, SEI, MEI, CauseBits
    <3> QED
      BY <3>2, <3>3, <3>4, ArchConstants DEF Arch!Interrupt, Arch!Next
  <2> QED
    BY <2>1, <2>2, <2>3
<1>5. CASE Trap
  <2>1. exc # NoExc /\ exc' = NoExc
    BY <1>5 DEF Trap, ExceptionPhases
  <2>2. PICK l \in Arch!Levels : Arch!Trap(l, [intr |-> FALSE, code |-> exc])
    BY <1>5, TrapToImplementsTrap DEF Trap
  <2> QED
    BY <2>1, <2>2, ArchConstants DEF Arch!Exception, Arch!Next
<1>6. CASE SRet \/ MRet
  BY <1>6, <1>3, ReturnsImplementReturn DEF Arch!Next
<1>7. ASSUME NEW insn \in InsnBits, CsrInsn(insn)
      PROVE  [Arch!Next]_(Arch!vars)
  <2>1. CASE insn.csr = "mstatus" /\ mode = User
    BY <2>1, <1>7, <1>3 DEF CsrInsn
  <2>2. CASE insn.csr = "mstatus" /\ mode # User
    <3>1. mode' = mode /\ exc = NoExc /\ UNCHANGED exc
      BY <2>2, <1>7 DEF CsrInsn, Done, Fetched
    <3> QED
      BY <2>2, <3>1, OthersImplementSoftware DEF Arch!Next
  <2>3. CASE insn.csr = "sstatus"
    <3>1. /\ mode' = mode /\ exc = NoExc /\ UNCHANGED exc
          /\ mstatus' = Under(SStatusMask, mstatus, CsrOp(insn.op, mstatus \cap SStatusMask, insn.val))
      BY <2>3, <1>7 DEF CsrInsn, Done, Fetched
    <3>2. \A b \in {MIE, MPIE} \cup MPP : b \notin SStatusMask
      BY DEF SStatusMask, SIE, SPIE, SPP, MIE, MPIE, MPP
    <3>3. \A b \in {MIE, MPIE} \cup MPP : b \in mstatus' <=> b \in mstatus
      BY <3>1, <3>2 DEF Under
    <3> QED
      BY <3>1, <3>3, OthersImplementSoftware DEF Arch!Next
  <2>4. CASE insn.csr \notin {"mstatus", "sstatus"}
    <3>1. UNCHANGED <<mode, mstatus, exc>> /\ exc = NoExc
      BY <2>4, <1>7 DEF CsrInsn, Done, Fetched
    <3> QED
      BY <3>1, <1>2 DEF Arch!Next
  <2> QED
    BY <2>1, <2>2, <2>3, <2>4
<1>8. CASE \/ \E size \in InsnSizes : Plain(size)
           \/ \E t \in JumpTargets : Jump(t)
           \/ \E l \in Levels, v \in AddrWrites : AddrInsn(l, v)
  BY <1>8, <1>2 DEF Plain, Done, Fetched, Jump, AddrInsn, csrs, Arch!Next
<1>9. CASE ECall \/ \E e \in Faults : Fault(e)
  BY <1>9, <1>3 DEF ECall, Fault
<1>9a. CASE Skip
  <2>1. exc' = exc \/ exc' # NoExc
    BY <1>9a DEF Skip, InstructionPageFault, NoExc
  <2> QED
    BY <1>9a, <2>1, <1>1 DEF Skip, csrs
<1>10. CASE SFenceVma \/ SatpWrite
  BY <1>10, <1>2, <1>3 DEF SFenceVma, SatpWrite, Plain, Done, Fetched, csrs, Arch!Next
<1>11. CASE UNCHANGED vars
  BY <1>11, <1>1 DEF vars
<1> QED
  BY <1>4, <1>5, <1>6, <1>7, <1>8, <1>9, <1>10, <1>11, <1>9a DEF Next, Exec

(* interrupt::process, exception::process, sret, mret and the CSR handlers
   together implement the abstract trap architecture for legal guests. *)
THEOREM HartImplementsArch == LegalWrites => (Spec => TrapArchSpec)
<1> SUFFICES ASSUME LegalWrites PROVE Spec => TrapArchSpec
  OBVIOUS
<1>1. Init => Arch!Init
  <2> SUFFICES ASSUME Init PROVE Arch!Init
    OBVIOUS
  <2>1. archEnabled = {} /\ archSaved = {}
    BY DEF Init, archEnabled, archSaved, Enabled
  <2>2. archMode = [l \in Levels |-> User]
    <3>1. ReadSpp({}) = User
      BY DEF ReadSpp
    <3>2. ReadMpp({}) = User
      BY DEF ReadMpp, MPP
    <3> QED
      BY <3>1, <3>2 DEF Init, archMode
  <2>3. cause \in [Levels -> Causes]
    BY DEF Init, Causes, CauseBits
  <2> QED
    BY <2>1, <2>2, <2>3, ArchConstants, InputsAssumption DEF Init, Arch!Init
<1>2. Spec => []LegalModes
  BY LegalGuestKeepsLegalModes
<1>3. TypeOK /\ TypeOK' /\ ExceptionPhases /\ LegalModes /\ LegalModes' /\ [Next]_vars
        => [Arch!Next]_(Arch!vars)
  BY StepImplementsArch
<1> QED
  BY <1>1, <1>2, <1>3, TypesAndPhases, PTL DEF Spec, TrapArchSpec, Arch!Spec

-----------------------------------------------------------------------------
(* What a step of the hart never does *)

(* The poll clears only the bit of the interrupt it takes. *)
THEOREM NoInterruptIsLost == Spec => NoLostInterrupt
<1>1. TypeOK /\ [Next]_vars => [LosesNoInterrupt]_vars
  <2> SUFFICES ASSUME TypeOK, Next, phase = "poll", NEW b \in mip \ mip', b # MTI
               PROVE  \E l \in Levels : /\ mode' = l
                                        /\ cause'[l] = [intr |-> TRUE, code |-> b]
                                        /\ epc'[l] = Even(pc)
    BY DEF LosesNoInterrupt
  <2>1. PICK d \in DeviceLines : PollMasked(d) \/ PollNone(d) \/ \E i \in Irqs : PollTake(d, i)
    BY DEF Next, Poll, Trap, Exec, Plain, Done, Jump, Fault, Throw, ECall, SRet, MRet,
           SFenceVma, SatpWrite, CsrInsn, AddrInsn, Skip, Fetched
  <2>2. b \in Ticked(d) /\ b \in Polled(d)
    BY DEF Ticked, Polled, WriteBit
  <2>3. PICK i \in Irqs : PollTake(d, i)
    BY <2>1, <2>2 DEF PollMasked, PollNone
  <2>4. i = b
    BY <2>2, <2>3 DEF PollTake
  <2>5. PICK l \in Levels : /\ mode' = l
                           /\ epc' = [epc EXCEPT ![l] = Even(pc)]
                           /\ cause' = [cause EXCEPT ![l] = [intr |-> TRUE, code |-> i]]
    BY <2>3 DEF PollTake, TrapTo, Target, Levels
  <2> QED
    BY <2>4, <2>5 DEF TypeOK
<1> QED
  BY <1>1, TypeCorrect, PTL DEF Spec, NoLostInterrupt

(* An interrupt enters a level only from below or with the level enabled. *)
THEOREM HandlersAreProtected == LegalWrites => (Spec => HandlerProtected)
<1> SUFFICES ASSUME LegalWrites PROVE Spec => HandlerProtected
  OBVIOUS
<1>1. TypeOK /\ LegalModes /\ [Next]_vars => [SparesMaskedFrame]_vars
  <2> SUFFICES ASSUME TypeOK, LegalModes, Next, phase = "poll", NEW k \in Levels,
                      epc'[k] # epc[k] \/ cause'[k] # cause[k]
               PROVE  mode < k \/ (mode = k /\ Enabled(k))
    BY DEF SparesMaskedFrame
  <2>1. mode \in {User, Supervisor, Machine}
    BY DEF TypeOK, LegalModes, Modes
  <2>2. PICK d \in DeviceLines : PollMasked(d) \/ PollNone(d) \/ \E i \in Irqs : PollTake(d, i)
    BY DEF Next, Poll, Trap, Exec, Plain, Done, Jump, Fault, Throw, ECall, SRet, MRet,
           SFenceVma, SatpWrite, CsrInsn, AddrInsn, Skip, Fetched
  <2>3. PICK i \in Irqs : PollTake(d, i)
    BY <2>2 DEF PollMasked, PollNone
  <2>4. PICK l \in Levels : /\ l = Target(i \in mideleg /\ i # MTI)
                           /\ epc' = [epc EXCEPT ![l] = Even(pc)]
                           /\ cause' = [cause EXCEPT ![l] = [intr |-> TRUE, code |-> i]]
    BY <2>3 DEF PollTake, TrapTo, Target, Levels
  <2>5. k = l
    BY <2>4 DEF TypeOK
  <2>6. ~Masked
    BY <2>3 DEF PollTake
  <2> QED
    BY <2>1, <2>4, <2>5, <2>6 DEF Target, Masked, Enabled, User, Supervisor, Machine
<1>2. Spec => []LegalModes
  BY LegalGuestKeepsLegalModes
<1> QED
  BY <1>1, <1>2, TypeCorrect, PTL DEF Spec, HandlerProtected

(* Entry to either level keeps the bits outside the interrupt stack. *)
THEOREM TrapKeepsOtherBits == LegalWrites => (Spec => TrapTouchesOnlyStack)
<1> SUFFICES ASSUME LegalWrites PROVE Spec => TrapTouchesOnlyStack
  OBVIOUS
<1>1. TypeOK /\ LegalModes /\ [Next]_vars => [WritesStackOnly]_vars
  <2> SUFFICES ASSUME TypeOK, LegalModes, Next, phase # "exec"
               PROVE  mstatus' \ StackBits = mstatus \ StackBits
    BY DEF WritesStackOnly
  <2>1. mode \in {User, Supervisor, Machine}
    BY DEF TypeOK, LegalModes, Modes
  <2>2. PushS(mstatus, mode) \ StackBits = mstatus \ StackBits
    BY DEF PushS, WriteBit, StackBits
  <2>3. ModeBits(mode) \subseteq MPP
    BY <2>1 DEF ModeBits, MPP, User, Supervisor, Machine
  <2>4. PushM(mstatus, mode) \ StackBits = mstatus \ StackBits
    BY <2>3 DEF PushM, WriteMpp, WriteBit, StackBits
  <2>5. CASE UNCHANGED mstatus
    BY <2>5
  <2>6. CASE mstatus' \in {PushS(mstatus, mode), PushM(mstatus, mode)}
    BY <2>2, <2>4, <2>6
  <2>7. UNCHANGED mstatus \/ mstatus' \in {PushS(mstatus, mode), PushM(mstatus, mode)}
    BY DEF Next, Poll, PollMasked, PollNone, PollTake, Trap, TrapTo, Exec, Plain, Done, Jump,
           Fault, Throw, ECall, SRet, MRet, SFenceVma, SatpWrite, CsrInsn, AddrInsn, Skip, Fetched
  <2> QED
    BY <2>5, <2>6, <2>7
<1>2. Spec => []LegalModes
  BY LegalGuestKeepsLegalModes
<1> QED
  BY <1>1, <1>2, TypeCorrect, PTL DEF Spec, TrapTouchesOnlyStack

(* Code gains privilege only by trapping, and its mode is then in the frame
   of the level it entered. *)
THEOREM PrivilegeRisesByTraps == LegalWrites => (Spec => PrivilegeRisesOnlyByTrap)
<1> SUFFICES ASSUME LegalWrites PROVE Spec => PrivilegeRisesOnlyByTrap
  OBVIOUS
<1>1. TypeOK /\ LegalModes /\ [Next]_vars => [PromotesByTrap]_vars
  <2> SUFFICES ASSUME TypeOK, LegalModes, Next, mode' > mode
               PROVE  /\ phase # "exec"
                      /\ mode' = Supervisor => ReadSpp(mstatus') = mode
                      /\ mode' = Machine => ReadMpp(mstatus') = mode
    BY DEF PromotesByTrap
  <2>1. mode \in {User, Supervisor, Machine}
    BY DEF TypeOK, LegalModes, Modes
  <2>2. ~(mode > mode)
    BY <2>1 DEF User, Supervisor, Machine
  <2>3. ASSUME Exec PROVE FALSE
    <3>1. SRet \/ MRet
      BY <2>2, <2>3 DEF Exec, Plain, Jump, Fault, ECall, SFenceVma, SatpWrite, CsrInsn, AddrInsn, Skip, Fetched, csrs
    <3>2. mode = Machine \/ (mode = Supervisor /\ mode' \in {User, Supervisor})
      BY <3>1, <2>1, <2>2 DEF SRet, MRet, Fault, ReadSpp
    <3>3. mode' \in {User, Supervisor, Machine}
      BY <3>1, <2>1 DEF SRet, MRet, Fault, ReadSpp, ReadMpp, LegalModes, LegalMpp
    <3> QED
      BY <3>2, <3>3 DEF User, Supervisor, Machine
  <2>4. ASSUME NEW delegated, NEW c, NEW off, TrapTo(Target(delegated), c, off)
        PROVE  /\ mode' = Supervisor => ReadSpp(mstatus') = mode
               /\ mode' = Machine => ReadMpp(mstatus') = mode
    <3>1. CASE Target(delegated) = Supervisor
      <4>1. mode \in {User, Supervisor} /\ mode' = Supervisor /\ mstatus' = PushS(mstatus, mode)
        BY <2>4, <3>1 DEF TrapTo, Target, Supervisor, Machine
      <4> QED
        BY <4>1, PushSStack DEF Supervisor, Machine
    <3>2. CASE Target(delegated) = Machine
      <4>1. mode' = Machine /\ mstatus' = PushM(mstatus, mode)
        BY <2>4, <3>2 DEF TrapTo, Supervisor, Machine
      <4> QED
        BY <4>1, <2>1, PushMStack DEF Supervisor, Machine
    <3> QED
      BY <3>1, <3>2 DEF Target
  <2>5. CASE Poll
    BY <2>5, <2>2, <2>4 DEF Poll, PollMasked, PollNone, PollTake
  <2>6. CASE Trap
    BY <2>6, <2>4 DEF Trap
  <2> QED
    BY <2>3, <2>5, <2>6 DEF Next
<1>2. Spec => []LegalModes
  BY LegalGuestKeepsLegalModes
<1> QED
  BY <1>1, <1>2, TypeCorrect, PTL DEF Spec, PrivilegeRisesOnlyByTrap

-----------------------------------------------------------------------------
(* The floating-point unit of a thread *)

LEMMA InitTypes == ContextInit => ContextTypeOK
  BY FpContextAssumption DEF ContextInit, ContextTypeOK, Contexts, NewThread

LEMMA LiveIsContext == ContextTypeOK => Live \in Contexts
  BY DEF ContextTypeOK, Live, ReadFcsr, Contexts

LEMMA RestoreTypes ==
  ASSUME NEW t \in Threads, ContextTypeOK, Restore(t)
  PROVE  /\ fregs' \in Values /\ owner' = t
         /\ csr' \in [fflags : SUBSET Flags, flags : SUBSET Flags, rm : SUBSET RmBits]
         /\ csr' = [fflags |-> saved[t].flags, flags |-> saved[t].flags, rm |-> saved[t].rm]
<1>1. saved[t] \in Contexts
  BY DEF ContextTypeOK
<1> QED  BY <1>1 DEF Restore, WriteFcsr, Put, Contexts

LEMMA SaveTypes ==
  ASSUME NEW t \in Threads, ContextTypeOK, Save(t)
  PROVE  saved' \in [Threads -> Contexts]
BY LiveIsContext DEF Save, ContextTypeOK

LEMMA StepTypes == ContextTypeOK /\ [ContextNext]_contextVars => ContextTypeOK'
<1> SUFFICES ASSUME ContextTypeOK, [ContextNext]_contextVars PROVE ContextTypeOK'
  OBVIOUS
<1>1. CASE Operate
  BY <1>1 DEF Operate, ContextTypeOK, kernel
<1>2. CASE LoadCompressed
  BY <1>2 DEF LoadCompressed, ContextTypeOK, kernel
<1>3. CASE Move \/ StoreCompressed
  BY <1>3 DEF Move, StoreCompressed, ContextTypeOK, kernel
<1>4. CASE AccessFflags
  BY <1>4 DEF AccessFflags, WriteFflags, Put, ContextTypeOK, kernel
<1>5. CASE AccessFrm
  BY <1>5 DEF AccessFrm, WriteFrm, ContextTypeOK, kernel
<1>6. ASSUME NEW t \in Threads, SwitchEager(t) PROVE ContextTypeOK'
  <2>1. cur \in Threads
    BY DEF ContextTypeOK
  <2> QED  BY <1>6, <2>1, RestoreTypes, SaveTypes DEF SwitchEager, ContextTypeOK
<1>7. ASSUME NEW t \in Threads, SwitchLazy(t) PROVE ContextTypeOK'
  <2>1. saved' \in [Threads -> Contexts]
    <3>1. CASE fs = "Dirty"
      BY <1>7, <3>1, SaveTypes DEF SwitchLazy, ContextTypeOK
    <3>2. CASE fs # "Dirty"
      BY <1>7, <3>2 DEF SwitchLazy, ContextTypeOK
    <3> QED  BY <3>1, <3>2
  <2> QED  BY <1>7, <2>1, RestoreTypes DEF SwitchLazy, ContextTypeOK
<1>8. ASSUME NEW t \in Threads, SwitchTrap(t) PROVE ContextTypeOK'
  BY <1>8 DEF SwitchTrap, ContextTypeOK
<1>9. CASE Denied
  <2>1. saved' \in [Threads -> Contexts]
    <3>1. CASE owner = None
      BY <1>9, <3>1 DEF Denied, ContextTypeOK
    <3>2. CASE owner # None
      BY <1>9, <3>2, SaveTypes DEF Denied, ContextTypeOK
    <3> QED  BY <3>1, <3>2
  <2>2. cur \in Threads
    BY DEF ContextTypeOK
  <2> QED  BY <1>9, <2>1, <2>2, RestoreTypes DEF Denied, ContextTypeOK
<1>10. CASE UNCHANGED contextVars
  BY <1>10 DEF contextVars, ContextTypeOK
<1> QED  BY <1>1, <1>2, <1>3, <1>4, <1>5, <1>6, <1>7, <1>8, <1>9, <1>10 DEF ContextNext

(* Every register, CSR field and saved context keeps to its width, whatever
   the kernel and the programs do. *)
THEOREM ContextTypesHold == ContextSpec => []ContextTypeOK
BY InitTypes, StepTypes, PTL DEF ContextSpec

LEMMA StepBehind == ContextTypeOK /\ FcsrBehind /\ [ContextNext]_contextVars => FcsrBehind'
<1> SUFFICES ASSUME ContextTypeOK, FcsrBehind, [ContextNext]_contextVars PROVE FcsrBehind'
  OBVIOUS
<1>1. CASE Operate
  BY <1>1 DEF Operate, ContextTypeOK, FcsrBehind
<1>2. CASE UNCHANGED csr
  BY <1>2 DEF FcsrBehind
<1>3. CASE AccessFflags
  BY <1>3 DEF AccessFflags, WriteFflags, Put, FcsrBehind
<1>4. CASE AccessFrm
  BY <1>4 DEF AccessFrm, WriteFrm, ContextTypeOK, FcsrBehind
<1>5. ASSUME NEW t \in Threads, Restore(t) PROVE FcsrBehind'
  BY <1>5, RestoreTypes DEF FcsrBehind
<1>6. UNCHANGED csr \/ Operate \/ AccessFflags \/ AccessFrm \/ \E t \in Threads : Restore(t)
  BY DEF ContextNext, contextVars, ContextTypeOK, LoadCompressed, Move, StoreCompressed,
    SwitchEager, SwitchLazy,
         SwitchTrap, Denied
<1> QED  BY <1>1, <1>2, <1>3, <1>4, <1>5, <1>6

(* A flag that a write has cleared does not come back in a read of fcsr,
   whatever the kernel and the programs do. *)
THEOREM FcsrStaysBehind == ContextSpec => []FcsrBehind
<1>1. ContextInit => FcsrBehind
  BY DEF ContextInit, FcsrBehind
<1> QED  BY <1>1, StepBehind, ContextTypesHold, PTL DEF ContextSpec

-----------------------------------------------------------------------------
(* The unit is on exactly when the thread that runs has its context in it.
   A kernel that saves what is Dirty saves nothing, so its threads may only
   read. *)
OnForOwner == fs # "Off" <=> owner = cur
NeverDirty == fs # "Dirty"
OffOnlyInTrap == policy # "trap" => fs = "Clean"
LazyIdle ==
  policy = "lazy" => /\ fregs = Zero
                     /\ csr = [fflags |-> {}, flags |-> {}, rm |-> {}]
                     /\ saved = [t \in Threads |-> NewThread]

Owned == OnForOwner /\ NeverDirty /\ OffOnlyInTrap /\ LazyIdle
Inv == ContextTypeOK /\ Owned

LEMMA InitOwned == ContextInit => Owned
  BY FpContextAssumption
  DEF ContextInit, Owned, OnForOwner, NeverDirty, OffOnlyInTrap, LazyIdle, NewThread

(* An instruction of a careful program that uses the unit finds its own
   context there, and one that writes to it does not run under "lazy". *)
LEMMA InstructionOwns ==
  ASSUME Careful, Inv, CheckFs \/ Unchecked
  PROVE  owner = cur
BY DEF Inv, Owned, OnForOwner, OffOnlyInTrap, CheckFs, Unchecked

LEMMA StepOwned == ASSUME Careful PROVE Inv /\ [ContextNext]_contextVars => Owned'
<1> SUFFICES ASSUME Inv, [ContextNext]_contextVars PROVE Owned'
  OBVIOUS
<1> USE DEF Inv, Owned, OnForOwner, NeverDirty, OffOnlyInTrap, LazyIdle
<1>1. CASE Operate \/ LoadCompressed \/ AccessFflags \/ AccessFrm
  <2>1. policy # "lazy" /\ UNCHANGED <<fs, policy, cur, owner>>
    BY <1>1 DEF Operate, LoadCompressed, AccessFflags, AccessFrm, Written, kernel
  <2> QED  BY <2>1
<1>2. CASE Move \/ StoreCompressed
  BY <1>2 DEF Move, StoreCompressed, kernel
<1>3. ASSUME NEW t \in Threads, SwitchEager(t) PROVE Owned'
  <2>1. policy = "eager" /\ UNCHANGED <<fs, policy>> /\ cur' = t /\ owner' = t
    BY <1>3 DEF SwitchEager, Restore
  <2> QED  BY <2>1
<1>4. ASSUME NEW t \in Threads, SwitchLazy(t) PROVE Owned'
  <2>1. policy = "lazy" /\ UNCHANGED <<fs, policy, saved>> /\ cur' = t /\ owner' = t
    BY <1>4 DEF SwitchLazy, Restore
  <2>2. saved[t] = NewThread
    BY <2>1
  <2>3. fregs' = Zero /\ csr' = [fflags |-> {}, flags |-> {}, rm |-> {}]
    BY <1>4, <2>2, RestoreTypes DEF SwitchLazy, Restore, NewThread
  <2> QED  BY <2>1, <2>3
<1>5. ASSUME NEW t \in Threads, SwitchTrap(t) PROVE Owned'
  BY <1>5 DEF SwitchTrap
<1>6. CASE Denied
  <2>1. policy = "trap" /\ fs' = "Clean" /\ UNCHANGED <<policy, cur>> /\ owner' = cur
    BY <1>6 DEF Denied, CheckFs, Restore, ContextTypeOK
  <2> QED  BY <2>1
<1>7. CASE UNCHANGED contextVars
  BY <1>7 DEF contextVars
<1> QED  BY <1>1, <1>2, <1>3, <1>4, <1>5, <1>6, <1>7 DEF ContextNext

-----------------------------------------------------------------------------
LEMMA InitArch == ContextInit => ContextArch!Init
<1> SUFFICES ASSUME ContextInit PROVE ContextArch!Init
  OBVIOUS
<1>1. fregs = Zero /\ csr = [fflags |-> {}, flags |-> {}, rm |-> {}] /\ read = None
  BY DEF ContextInit
<1>2. \A t \in Threads : saved[t] = NewThread
  BY DEF ContextInit
<1> QED  BY <1>1, <1>2 DEF ContextArch!Init, ThreadRegs, ThreadFlags, ThreadModes, InUnit, NewThread

(* The context of the running thread is the unit's. *)
LEMMA CurrentInUnit ==
  ASSUME ContextTypeOK, owner = cur
  PROVE  ThreadRegs[cur] = fregs /\ ThreadFlags[cur] = csr.fflags /\ ThreadModes[cur] = csr.rm
BY DEF ContextTypeOK, ThreadRegs, ThreadFlags, ThreadModes, InUnit

(* An instruction changes the context of the running thread only. *)
LEMMA InstructionTouchesItsOwn ==
  ASSUME ContextTypeOK, owner = cur, UNCHANGED <<fs, kernel>>
  PROVE  /\ ThreadRegs' = [ThreadRegs EXCEPT ![cur] = fregs']
         /\ ThreadFlags' = [ThreadFlags EXCEPT ![cur] = csr.fflags']
         /\ ThreadModes' = [ThreadModes EXCEPT ![cur] = csr.rm']
BY DEF ContextTypeOK, kernel, ThreadRegs, ThreadFlags, ThreadModes, InUnit

(* A switch that saves the context in the unit and restores another's leaves
   every thread's context as it is. *)
LEMMA ExchangeIsInvisible ==
  ASSUME ~ SavesFcsr, ContextTypeOK, NEW t \in Threads, t # owner, Restore(t),
         IF owner = None THEN UNCHANGED saved ELSE Save(owner)
  PROVE  UNCHANGED <<ThreadRegs, ThreadFlags, ThreadModes>>
<1>1. saved[t] \in Contexts /\ owner' = t /\ fregs' = saved[t].f
      /\ csr' = [fflags |-> saved[t].flags, flags |-> saved[t].flags, rm |-> saved[t].rm]
  BY RestoreTypes DEF ContextTypeOK, Restore
<1>2. ASSUME NEW u \in Threads
      PROVE  saved'[u] = IF u = owner THEN Live ELSE saved[u]
  <2>1. CASE owner = None
    BY <2>1, FpContextAssumption
  <2>2. CASE owner # None
    BY <2>2 DEF Save, ContextTypeOK
  <2> QED  BY <2>1, <2>2
<1>3. Live.f = fregs /\ Live.flags = csr.fflags /\ Live.rm = csr.rm
  BY DEF Live
<1>4. csr'.fflags = saved[t].flags /\ csr'.rm = saved[t].rm
  BY <1>1
<1>5. ThreadRegs' = ThreadRegs
  BY <1>1, <1>2, <1>3 DEF ThreadRegs, InUnit
<1>6. ThreadFlags' = ThreadFlags
  BY <1>1, <1>2, <1>3, <1>4 DEF ThreadFlags, InUnit
<1>7. ThreadModes' = ThreadModes
  BY <1>1, <1>2, <1>3, <1>4 DEF ThreadModes, InUnit
<1> QED  BY <1>5, <1>6, <1>7

LEMMA StepArch ==
  ASSUME Careful, ~ SavesFcsr
  PROVE  Inv /\ [ContextNext]_contextVars => [ContextArch!Next]_(ContextArch!vars)
<1> SUFFICES ASSUME Inv, [ContextNext]_contextVars PROVE [ContextArch!Next]_(ContextArch!vars)
  OBVIOUS
<1>c. ContextTypeOK /\ cur \in Threads
  BY DEF Inv, ContextTypeOK
<1>1. CASE Operate
  <2>1. owner = cur /\ UNCHANGED <<fs, kernel>> /\ read' = None
    BY <1>1, InstructionOwns DEF Operate
  <2>2. PICK v \in Values, raised \in SUBSET Flags :
          fregs' = v /\ csr' = [csr EXCEPT !.fflags = @ \cup raised]
    BY <1>1 DEF Operate
  <2>3. csr'.fflags = csr.fflags \cup raised /\ csr'.rm = csr.rm
    BY <1>c, <2>2 DEF ContextTypeOK
  <2>4. ThreadModes' = ThreadModes
    BY <1>c, <2>1, <2>3 DEF ContextTypeOK, kernel, ThreadModes, InUnit
  <2>5. ContextArch!Compute(cur)
    BY <1>c, <2>1, <2>2, <2>3, <2>4, CurrentInUnit, InstructionTouchesItsOwn DEF ContextArch!Compute
  <2> QED  BY <1>c, <2>5 DEF ContextArch!Next
<1>2. CASE LoadCompressed
  <2>1. owner = cur /\ UNCHANGED <<fs, kernel, csr>> /\ read' = None /\ fregs' \in Values
    BY <1>2, InstructionOwns DEF LoadCompressed
  <2>2. ThreadModes' = ThreadModes /\ ThreadFlags' = ThreadFlags
    BY <2>1 DEF kernel, ThreadModes, ThreadFlags, InUnit
  <2>3. ThreadFlags' = [ThreadFlags EXCEPT ![cur] = @ \cup {}]
    BY <1>c, <2>2 DEF ThreadFlags
  <2>4. ContextArch!Compute(cur)
    BY <1>c, <2>1, <2>2, <2>3, InstructionTouchesItsOwn DEF ContextArch!Compute
  <2> QED  BY <1>c, <2>4 DEF ContextArch!Next
<1>3. CASE Move \/ StoreCompressed
  <2>1. /\ owner = cur /\ UNCHANGED <<fregs, csr, fs, kernel>>
        /\ read' = <<"f", cur, fregs>>
    BY <1>3, InstructionOwns DEF Move, StoreCompressed
  <2>2. UNCHANGED <<ThreadRegs, ThreadFlags, ThreadModes>>
    BY <2>1 DEF kernel, ThreadRegs, ThreadFlags, ThreadModes, InUnit
  <2>3. ContextArch!Move(cur)
    BY <1>c, <2>1, <2>2, CurrentInUnit DEF ContextArch!Move
  <2> QED  BY <1>c, <2>3 DEF ContextArch!Next
<1>4. CASE AccessFflags
  <2>1. /\ owner = cur /\ UNCHANGED <<fregs, fs, kernel>>
        /\ read' = <<"flags", cur, csr.fflags>>
    BY <1>4, InstructionOwns DEF AccessFflags
  <2>2. PICK s \in SUBSET Flags : csr' = [fflags |-> s, flags |-> s, rm |-> csr.rm \cup {}]
    BY <1>4 DEF AccessFflags, WriteFflags, Put
  <2>3. csr'.fflags = s /\ csr'.rm = csr.rm
    BY <2>2
  <2>4. UNCHANGED <<ThreadRegs, ThreadModes>>
    BY <2>1, <2>3 DEF kernel, ThreadRegs, ThreadModes, InUnit
  <2>5. ContextArch!WriteFlags(cur)
    BY <1>c, <2>1, <2>3, <2>4, CurrentInUnit, InstructionTouchesItsOwn DEF ContextArch!WriteFlags
  <2> QED  BY <1>c, <2>5 DEF ContextArch!Next
<1>5. CASE AccessFrm
  <2>1. /\ owner = cur /\ UNCHANGED <<fregs, fs, kernel>>
        /\ read' = <<"rm", cur, csr.rm>>
    BY <1>5, InstructionOwns DEF AccessFrm
  <2>2. PICK m \in SUBSET RmBits : csr' = [csr EXCEPT !.rm = m]
    BY <1>5 DEF AccessFrm, WriteFrm
  <2>3. csr'.rm = m /\ csr'.fflags = csr.fflags
    BY <1>c, <2>2 DEF ContextTypeOK
  <2>4. UNCHANGED <<ThreadRegs, ThreadFlags>>
    BY <2>1, <2>3 DEF kernel, ThreadRegs, ThreadFlags, InUnit
  <2>5. ContextArch!WriteMode(cur)
    BY <1>c, <2>1, <2>3, <2>4, CurrentInUnit, InstructionTouchesItsOwn DEF ContextArch!WriteMode
  <2> QED  BY <1>c, <2>5 DEF ContextArch!Next
<1>6. ASSUME NEW t \in Threads, SwitchEager(t) PROVE UNCHANGED ContextArch!vars
  <2>1. owner = cur /\ cur # None /\ t # owner /\ Save(owner) /\ Restore(t) /\ UNCHANGED read
    BY <1>c, <1>6, FpContextAssumption DEF SwitchEager, Inv, Owned, OnForOwner, OffOnlyInTrap
  <2> QED  BY <1>c, <2>1, ExchangeIsInvisible DEF ContextArch!vars
<1>7. ASSUME NEW t \in Threads, SwitchLazy(t) PROVE UNCHANGED ContextArch!vars
  <2>1. /\ policy = "lazy" /\ policy' = "lazy" /\ UNCHANGED read
    BY <1>7 DEF SwitchLazy
  <2>2. Owned /\ Owned'
    BY StepOwned DEF Inv
  <2>3. /\ fregs = Zero /\ fregs' = Zero /\ UNCHANGED csr /\ csr.fflags = {} /\ csr.rm = {}
        /\ saved = [u \in Threads |-> NewThread] /\ saved' = saved
    BY <2>1, <2>2 DEF Owned, LazyIdle
  <2>4. \A u \in Threads : saved[u].f = Zero /\ saved[u].flags = {} /\ saved[u].rm = {}
    BY <2>3 DEF NewThread
  <2>5. UNCHANGED ThreadRegs
    BY <2>3, <2>4 DEF ThreadRegs, InUnit
  <2>6. UNCHANGED <<ThreadFlags, ThreadModes>>
    BY <2>3, <2>4 DEF ThreadFlags, ThreadModes, InUnit
  <2> QED  BY <2>1, <2>5, <2>6 DEF ContextArch!vars
<1>8. ASSUME NEW t \in Threads, SwitchTrap(t) PROVE UNCHANGED ContextArch!vars
  BY <1>8 DEF SwitchTrap, ContextArch!vars, ThreadRegs, ThreadFlags, ThreadModes, InUnit
<1>9. CASE Denied
  <2>1. /\ cur # owner /\ Restore(cur) /\ UNCHANGED read
        /\ IF owner = None THEN UNCHANGED saved ELSE Save(owner)
    BY <1>9 DEF Denied, CheckFs, Inv, Owned, OnForOwner
  <2> QED  BY <1>c, <2>1, ExchangeIsInvisible DEF ContextArch!vars
<1>10. CASE UNCHANGED contextVars
  BY <1>10 DEF contextVars, ContextArch!vars, ThreadRegs, ThreadFlags, ThreadModes, InUnit
<1> QED  BY <1>1, <1>2, <1>3, <1>4, <1>5, <1>6, <1>7, <1>8, <1>9, <1>10 DEF ContextNext

(* With programs that keep to what the emulator gets right and a kernel that
   saves fflags, each thread computes as if the unit were its own. *)
THEOREM ThreadsKeepTheirUnits == ASSUME Careful, ~ SavesFcsr PROVE ContextSpec => ThreadsSpec
<1>1. ContextInit => Inv
  BY InitTypes, InitOwned DEF Inv
<1>2. Inv /\ [ContextNext]_contextVars => Inv'
  BY StepTypes, StepOwned DEF Inv
<1> QED  BY <1>1, <1>2, InitArch, StepArch, PTL DEF ContextSpec, ThreadsSpec, ContextArch!Spec

-----------------------------------------------------------------------------
(* A lock made with lr.w and sc.w excludes two threads of one hart, and the
   counter it guards loses no increment, for any number of rounds and with
   page faults anywhere.  (Three threads break it: see MCLrSc.)

   The argument: whoever wins the lock takes the reservation away, and only
   the other thread could bring it back; a thread that waits at its sc does
   not, so StaleScFails is kept. *)

LockTypes ==
  /\ reservations \subseteq {LockAddr}
  /\ lock \in {Free, Held}
  /\ counter \in Nat
  /\ at \in [Contenders -> {"lr", "sc", "load", "store", "release"}]
  /\ reg \in [Contenders -> Nat]
  /\ left \in [Contenders -> 0 .. Rounds]

InCs(t) == at[t] \in {"load", "store", "release"}

LockHeld == \A t \in Contenders : InCs(t) => lock = Held /\ left[t] > 0

OneHolder == \A s, t \in Contenders : InCs(s) /\ InCs(t) => s = t

(* A thread that waits at its sc while another holds the lock has lost its
   reservation, and has rounds left to try again. *)
StaleScFails ==
  \A s, t \in Contenders : at[s] = "sc" /\ InCs(t) => LockAddr \notin reservations

Waiting == \A t \in Contenders : at[t] = "sc" => left[t] > 0

LockInv == LockTypes /\ LockHeld /\ OneHolder /\ StaleScFails /\ Waiting

Stored(t) == IF at[t] = "release" THEN 1 ELSE 0

(* The counter is what the two threads have stored, and a thread about to
   store has loaded it. *)
Exact(a, b) ==
  /\ counter = (Rounds - left[a]) + (Rounds - left[b]) + Stored(a) + Stored(b)
  /\ \A t \in Contenders : at[t] = "store" => reg[t] = counter

-----------------------------------------------------------------------------
LEMMA InitLock == LockInit => LockInv
  BY LrScAssumption
  DEF LockInit, LockInv, LockTypes, LockHeld, OneHolder, StaleScFails, Waiting, InCs, LrScAssumption, Free, Held

LEMMA LockKeepsTypes == LockInv /\ [LockNext]_lockVars => LockTypes'
<1> SUFFICES ASSUME LockInv, [LockNext]_lockVars PROVE LockTypes'
  OBVIOUS
<1> USE LrScAssumption DEF LockInv, LockTypes, LrScAssumption, Free, Held, Goto, InCs
<1>1. CASE UNCHANGED lockVars
  BY <1>1 DEF lockVars
<1>2. ASSUME NEW t \in Contenders, Lr(t) PROVE LockTypes'
  BY <1>2 DEF Lr
<1>3. ASSUME NEW t \in Contenders, LrFault(t) PROVE LockTypes'
  BY <1>3 DEF LrFault
<1>4. ASSUME NEW t \in Contenders, Sc(t) PROVE LockTypes'
  BY <1>4 DEF Sc
<1>5. ASSUME NEW t \in Contenders, ScFault(t) PROVE LockTypes'
  BY <1>5 DEF ScFault
<1>6. ASSUME NEW t \in Contenders, Load(t) PROVE LockTypes'
  BY <1>6 DEF Load
<1>7. ASSUME NEW t \in Contenders, Store(t) PROVE LockTypes'
  BY <1>7 DEF Store
<1>8. ASSUME NEW t \in Contenders, Release(t) PROVE LockTypes'
  <2>1. left[t] > 0
    BY <1>8 DEF Release, LockHeld
  <2>2. QED
    BY <1>8, <2>1 DEF Release
<1>9. QED
  BY <1>1, <1>2, <1>3, <1>4, <1>5, <1>6, <1>7, <1>8 DEF LockNext

LEMMA LockKeepsInv ==
  ASSUME NEW a, NEW b, Contenders = {a, b}, LockInv, [LockNext]_lockVars
  PROVE  LockInv'
<1>0. LockTypes'
  BY LockKeepsTypes
<1> USE <1>0 DEF LockInv, LockTypes, LockHeld, OneHolder, StaleScFails, Waiting, InCs, Goto, Free, Held
<1>1. CASE UNCHANGED lockVars
  BY <1>1 DEF lockVars
<1>2. ASSUME NEW t \in Contenders, Lr(t) PROVE LockInv'
  BY <1>2 DEF Lr
<1>3. ASSUME NEW t \in Contenders, LrFault(t) PROVE LockInv'
  BY <1>3 DEF LrFault
<1>4. ASSUME NEW t \in Contenders, Sc(t) PROVE LockInv'
  BY <1>4 DEF Sc
<1>5. ASSUME NEW t \in Contenders, ScFault(t) PROVE LockInv'
  BY <1>5 DEF ScFault
<1>6. ASSUME NEW t \in Contenders, Load(t) PROVE LockInv'
  BY <1>6 DEF Load
<1>7. ASSUME NEW t \in Contenders, Store(t) PROVE LockInv'
  BY <1>7 DEF Store
<1>8. ASSUME NEW t \in Contenders, Release(t) PROVE LockInv'
  BY <1>8 DEF Release
<1>9. QED
  BY <1>1, <1>2, <1>3, <1>4, <1>5, <1>6, <1>7, <1>8 DEF LockNext

LEMMA LockKeepsExact ==
  ASSUME NEW a, NEW b, a # b, Contenders = {a, b}, LockInv, Exact(a, b), [LockNext]_lockVars
  PROVE  Exact(a, b)'
<1> USE LrScAssumption DEF Exact, Stored, LockInv, LockTypes, Goto, LrScAssumption, InCs
<1>1. CASE UNCHANGED lockVars
  BY <1>1 DEF lockVars
<1>2. ASSUME NEW t \in Contenders, Lr(t) PROVE Exact(a, b)'
  BY <1>2 DEF Lr
<1>3. ASSUME NEW t \in Contenders, LrFault(t) PROVE Exact(a, b)'
  BY <1>3 DEF LrFault
<1>4. ASSUME NEW t \in Contenders, Sc(t) PROVE Exact(a, b)'
  BY <1>4 DEF Sc
<1>5. ASSUME NEW t \in Contenders, ScFault(t) PROVE Exact(a, b)'
  BY <1>5 DEF ScFault
<1>6. ASSUME NEW t \in Contenders, Load(t) PROVE Exact(a, b)'
  BY <1>6 DEF Load
<1>7. ASSUME NEW t \in Contenders, Store(t) PROVE Exact(a, b)'
  BY <1>7 DEF Store, OneHolder
<1>8. ASSUME NEW t \in Contenders, Release(t) PROVE Exact(a, b)'
  BY <1>8 DEF Release
<1>9. QED
  BY <1>1, <1>2, <1>3, <1>4, <1>5, <1>6, <1>7, <1>8 DEF LockNext

(* Two threads are never both in the critical section. *)
THEOREM TwoThreadsExclude ==
  ASSUME NEW a, NEW b, Contenders = {a, b}
  PROVE  LockSpec => []MutualExclusion
<1>1. LockInv /\ [LockNext]_lockVars => LockInv'
  BY LockKeepsInv
<1>2. LockInv => MutualExclusion
  <2> SUFFICES ASSUME LockInv PROVE MutualExclusion
    OBVIOUS
  <2>1. CASE Holders = {}
    BY <2>1, FS_EmptySet DEF MutualExclusion
  <2>2. ASSUME NEW t \in Holders PROVE MutualExclusion
    <3>1. Holders = {t}
      BY <2>2 DEF LockInv, OneHolder, InCs, Holders
    <3>2. Cardinality(Holders) = 1
      BY <3>1, FS_Singleton
    <3>3. QED
      BY <3>2 DEF MutualExclusion
  <2>3. QED
    BY <2>1, <2>2
<1>3. QED
  BY <1>1, <1>2, InitLock, PTL DEF LockSpec

(* And none of their increments is lost. *)
THEOREM TwoThreadsCount ==
  ASSUME NEW a, NEW b, a # b, Contenders = {a, b}
  PROVE  LockSpec => []NoLostIncrement
<1> DEFINE Both == LockInv /\ Exact(a, b)
<1>1. LockInit => Both
  <2>1. LockInit => Exact(a, b)
    BY LrScAssumption DEF LockInit, Exact, Stored, LrScAssumption
  <2>2. QED
    BY <2>1, InitLock
<1>2. Both /\ [LockNext]_lockVars => Both'
  BY LockKeepsInv, LockKeepsExact
<1>3. Both => NoLostIncrement
  <2> SUFFICES ASSUME Both, \A t \in Contenders : left[t] = 0
      PROVE    counter = Rounds * Cardinality(Contenders)
    BY DEF NoLostIncrement
  <2>1. Cardinality(Contenders) = 2
    <3>1. Cardinality({a}) = 1 /\ IsFiniteSet({a})
      BY FS_Singleton
    <3>2. Contenders = {a} \cup {b} /\ b \notin {a}
      OBVIOUS
    <3>3. Cardinality({a} \cup {b}) = Cardinality({a}) + 1
      BY <3>1, <3>2, FS_AddElement, Zenon
    <3>4. QED
      BY <3>1, <3>2, <3>3
  <2>2. Stored(a) = 0 /\ Stored(b) = 0
    BY DEF LockInv, LockHeld, InCs, Stored, LockTypes
  <2>3. counter = Rounds + Rounds
    BY <2>2, LrScAssumption DEF Exact, LrScAssumption
  <2>4. QED
    BY <2>1, <2>3, LrScAssumption DEF LrScAssumption
<1> HIDE DEF Both
<1>4. QED
  BY <1>1, <1>2, <1>3, PTL DEF LockSpec
=============================================================================
