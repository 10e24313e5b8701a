----------------------------- MODULE FpContext -----------------------------
(***************************************************************************)
(* Threads of a guest that share the floating-point unit, and the kernel   *)
(* that switches between them at any instruction: the FS check of the      *)
(* handlers, the CSRs FCSR, FRM and FFLAGS, and what the kernel saves.     *)
(*                                                                         *)
(* FFLAGS collects the exceptions; FCSR has a copy of them, brought up to  *)
(* date when either is written.  Nothing in the emulator sets FS to Dirty, *)
(* and the CSRs and the compressed loads and stores do not look at it.     *)
(*                                                                         *)
(* The kernel is the guest's: "eager" saves and restores at every switch,  *)
(* "trap" turns the unit off and does so when a thread first uses it,      *)
(* "lazy" saves what FS says is Dirty, as Linux does.                      *)
(***************************************************************************)
CONSTANTS
  Threads, Values, Flags, RmBits, Zero, None,   \* as in FpThreads
  Policies,   \* what kernels there are
  SavesFcsr,  \* the kernel reads the flags from FCSR, not from FFLAGS
  Careful     \* programs keep to what the emulator gets right

ASSUME FpContextAssumption ==
  /\ Policies \subseteq {"eager", "trap", "lazy"}
  /\ Zero \in Values /\ None \notin Threads
  /\ SavesFcsr \in BOOLEAN /\ Careful \in BOOLEAN

VARIABLES
  fregs,    \* Cpu::fregs, one value
  csr,      \* fflags: CSR FFLAGS; flags, rm: CSR FCSR
  fs,       \* mstatus.FS
  policy,   \* the kernel's
  cur,      \* the thread that runs
  owner,    \* the thread whose context is in the unit
  saved,    \* contexts in the kernel's memory
  read      \* what the last instruction gave to a thread

contextVars == <<fregs, csr, fs, policy, cur, owner, saved, read>>
kernel == <<policy, cur, owner, saved>>

Contexts == [f : Values, flags : SUBSET Flags, rm : SUBSET RmBits]
NewThread == [f |-> Zero, flags |-> {}, rm |-> {}]

ContextInit ==
  /\ policy \in Policies
  /\ cur \in Threads
  /\ owner = IF policy = "trap" THEN None ELSE cur
  /\ fs = IF policy = "trap" THEN "Off" ELSE "Clean"
  /\ fregs = Zero
  /\ csr = [fflags |-> {}, flags |-> {}, rm |-> {}]
  /\ saved = [t \in Threads |-> NewThread]
  /\ read = None

-----------------------------------------------------------------------------
(* mutant: the flags run over into the rounding mode *)
PutWide(flags, rm) == [fflags |-> flags, flags |-> flags, rm |-> rm \cup flags]

(* The CSR handlers.  A write to FFLAGS puts bits 5 to 7 of its operand into
   the rounding mode of FCSR. *)
Put(flags, rm) == [fflags |-> flags, flags |-> flags, rm |-> rm]

(* mutant: a write of FCSR leaves FFLAGS as it is *)
WriteFcsrOnly(flags, rm) == [fflags |-> csr.fflags, flags |-> flags, rm |-> rm]

WriteFcsr(flags, rm) == Put(flags, rm)
ReadFcsr(c) == c.flags

(* mutant: a write of FFLAGS leaves the copy in FCSR as it is *)
WriteFflagsOnly(c, flags, high) == [c EXCEPT !.fflags = flags]

WriteFflags(c, flags, high) == Put(flags, c.rm \cup high)
WriteFrm(c, rm) == [c EXCEPT !.rm = rm]

(* fdimpl::check_fs *)
CheckFs == fs # "Off"

(* A program for a kernel that turns the unit off keeps to what is checked;
   one for a kernel that relies on Dirty does not write to the unit. *)
Unchecked == Careful => policy # "trap"
Written == Careful => policy # "lazy"

(* An instruction of fdtype that writes registers and raises exceptions *)
Operate ==
  /\ Written /\ CheckFs
  /\ \E v \in Values, raised \in SUBSET Flags :
       fregs' = v /\ csr' = [csr EXCEPT !.fflags = @ \cup raised]
  /\ read' = None
  /\ UNCHANGED <<fs, kernel>>

(* c.fld and c.fldsp *)
LoadCompressed ==
  /\ Written /\ Unchecked
  /\ fregs' \in Values
  /\ read' = None
  /\ UNCHANGED <<csr, fs, kernel>>

Move ==
  /\ CheckFs
  /\ read' = <<"f", cur, fregs>>
  /\ UNCHANGED <<fregs, csr, fs, kernel>>

(* c.fsd and c.fsdsp *)
StoreCompressed ==
  /\ Unchecked
  /\ read' = <<"f", cur, fregs>>
  /\ UNCHANGED <<fregs, csr, fs, kernel>>

AccessFflags ==
  /\ Written /\ Unchecked
  /\ \E s \in SUBSET Flags, high \in SUBSET RmBits :
       /\ Careful => high = {}
       /\ csr' = WriteFflags(csr, s, high)
  /\ read' = <<"flags", cur, csr.fflags>>
  /\ UNCHANGED <<fregs, fs, kernel>>

AccessFrm ==
  /\ Written /\ Unchecked
  /\ \E m \in SUBSET RmBits : csr' = WriteFrm(csr, m)
  /\ read' = <<"rm", cur, csr.rm>>
  /\ UNCHANGED <<fregs, fs, kernel>>

-----------------------------------------------------------------------------
(* The kernel *)
Live == [f |-> fregs, flags |-> IF SavesFcsr THEN ReadFcsr(csr) ELSE csr.fflags, rm |-> csr.rm]

Save(t) == saved' = [saved EXCEPT ![t] = Live]
Restore(t) == fregs' = saved[t].f /\ csr' = WriteFcsr(saved[t].flags, saved[t].rm) /\ owner' = t

SwitchEager(t) ==
  /\ policy = "eager" /\ t # cur
  /\ Save(cur) /\ Restore(t)
  /\ cur' = t
  /\ UNCHANGED <<fs, policy, read>>

SwitchLazy(t) ==
  /\ policy = "lazy" /\ t # cur
  /\ IF fs = "Dirty" THEN Save(cur) ELSE UNCHANGED saved
  /\ Restore(t)
  /\ cur' = t
  /\ UNCHANGED <<fs, policy, read>>

SwitchTrap(t) ==
  /\ policy = "trap" /\ t # cur
  /\ fs' = IF t = owner THEN "Clean" ELSE "Off"
  /\ cur' = t
  /\ UNCHANGED <<fregs, csr, policy, owner, saved, read>>

(* The illegal-instruction trap of an instruction that finds the unit off,
   which is executed again. *)
Denied ==
  /\ ~ CheckFs
  /\ IF owner = None THEN UNCHANGED saved ELSE Save(owner)
  /\ Restore(cur)
  /\ fs' = "Clean"
  /\ UNCHANGED <<policy, cur, read>>

ContextNext ==
  \/ Operate \/ LoadCompressed \/ Move \/ StoreCompressed \/ AccessFflags \/ AccessFrm
  \/ \E t \in Threads : SwitchEager(t) \/ SwitchLazy(t) \/ SwitchTrap(t)
  \/ Denied

ContextSpec == ContextInit /\ [][ContextNext]_contextVars

-----------------------------------------------------------------------------
(* Cpu::fregs, the three fields of the CSRs and the contexts the kernel saves
   keep to their widths (csr_fcsr_handler, csr_fflags_handler). *)
ContextTypeOK ==
  /\ fregs \in Values
  /\ csr \in [fflags : SUBSET Flags, flags : SUBSET Flags, rm : SUBSET RmBits]
  /\ fs \in {"Off", "Clean", "Dirty"} /\ policy \in Policies
  /\ cur \in Threads /\ owner \in Threads \cup {None}
  /\ saved \in [Threads -> Contexts]

(* The copy of the flags in FCSR lags behind FFLAGS and is never ahead: no
   read of fcsr gives a flag that has been cleared (csr_fcsr_handler,
   csr_fflags_handler, set_fpu_exception). *)
FcsrBehind == csr.flags \subseteq csr.fflags

(* The context of each thread *)
InUnit(t) == t = owner
ThreadRegs == [t \in Threads |-> IF InUnit(t) THEN fregs ELSE saved[t].f]
ThreadFlags == [t \in Threads |-> IF InUnit(t) THEN csr.fflags ELSE saved[t].flags]
ThreadModes == [t \in Threads |-> IF InUnit(t) THEN csr.rm ELSE saved[t].rm]

ContextArch == INSTANCE FpThreads WITH f <- ThreadRegs, flags <- ThreadFlags, rm <- ThreadModes

(* README.md:24, "RV64IMAFDCSU fully implemented".  Each thread computes as
   if the floating-point unit were its own, wherever the kernel switches
   (check_fs, the FCSR, FFLAGS and FRM handlers). *)
ThreadsSpec == ContextArch!Spec
=============================================================================
