--------------------------------- MODULE Fp ---------------------------------
(***************************************************************************)
(* The floating-point handlers of fdtypeinsn.cpp, the registers of         *)
(* Fregister and what they make of the host's arithmetic and exceptions.   *)
(*                                                                         *)
(* The host computes in round-to-nearest-even, its state at every start.   *)
(* What the build and the processor decide is a choice: which NaN an       *)
(* operation without a result gives, whether a * b + c is fused, and the   *)
(* integer that an out-of-range conversion, undefined in C++, returns.     *)
(*                                                                         *)
(* A write of a float clears the upper half of the register and a read     *)
(* ignores it.  The history variable single names the registers (and the   *)
(* word of memory, 4) that hold a float, which a program does not mix up.  *)
(***************************************************************************)
EXTENDS Floats

CONSTANTS
  Single, Double, Word, Long, Insns, None,   \* as in FpIsa
  Careful,          \* programs keep to operands the emulator gets right
  Contents(_, _),   \* what a register holds when an instruction is issued
  Ambient(_),       \* frm, fflags and which registers hold floats
  MaxFaults         \* page faults it meets

VARIABLES
  fregs, xreg, mem,    \* Cpu::fregs and regs, the RAM
  fflags, frm,         \* CSR FFLAGS; FCSR's rounding mode
  insn, single,
  before,              \* fregs and single when the instruction was issued
  faults               \* bounded by MaxFaults

vars == <<fregs, xreg, mem, fflags, frm, insn, single, before, faults>>

XLEN == Width(Double)
Reg == 0 .. (2^XLEN - 1)
Low(v, n) == v % 2^n
SignedOf(v, n) == IF Low(v, n) < 2^(n - 1) THEN Low(v, n) ELSE Low(v, n) - 2^n

(* Fregister::get_value *)
Get(r, f) == Low(fregs[r], Width(f))
A(i) == Get(1, i.fmt)
B(i) == Get(2, i.fmt)
C(i) == Get(3, i.fmt)
Other(f) == IF f = Single THEN Double ELSE Single
Source(i) == IF i.op = "cvt.f" THEN Other(i.fmt) ELSE i.fmt

Fused == {"madd", "msub", "nmadd", "nmsub"}
Two == {"add", "sub", "mul", "div"}
Signs == {"sgnj", "sgnjn", "sgnjx"}
Compares == {"lt", "le", "eq"}

Operations ==
  Fused \cup Two \cup Signs \cup Compares \cup
  {"sqrt", "min", "max", "cvt.f", "cvt.w", "cvt.from", "class", "mv.x", "mv.f", "load", "store"}

ASSUME FpAssumption ==
  /\ \A f \in {Single, Double} : f.e \in Nat \ {0, 1} /\ f.m \in Nat \ {0, 1}
  /\ Width(Single) < Width(Double)
  /\ \A w \in {Word, Long} :
       w \in Nat \ {0} /\ \A f \in {Single, Double} : w < 2^(f.e - 1)    \* in its range
  /\ Careful \in BOOLEAN
  /\ Insns \ {None} \subseteq [op : Operations, fmt : {Single, Double}, rm : Modes \cup {"DYN"},
                              w : {Word, Long}, signed : BOOLEAN]
  /\ \A i \in Insns \ {None} :
       /\ \A r \in 1 .. 5 : Contents(i, r) \subseteq Reg
       /\ \A t \in Ambient(i) : t[1] \in Modes /\ t[2] \subseteq Flags

-----------------------------------------------------------------------------
(* Host arithmetic, and the NaN it may give *)
Minus(b, f) == Flip(b, f)

Accrue(r, flags) == Result(r.bits, r.flags \cup flags)
AddTo(p, c, f) == IF p.bits = NaN THEN p ELSE Accrue(Add(p.bits, c, "RNE", f), p.flags)
Product(a, b, c, fused, f) ==
  IF fused THEN Fma(a, b, c, "RNE", f)
  ELSE AddTo(Mul(a, b, "RNE", f), c, f)

HostResult(i, fused) ==
  LET f == i.fmt  a == A(i)  b == B(i)  c == C(i) IN
  CASE i.op = "add" -> Add(a, b, "RNE", f)
    [] i.op = "sub" -> Sub(a, b, "RNE", f)
    [] i.op = "mul" -> Mul(a, b, "RNE", f)
    [] i.op = "div" -> Div(a, b, "RNE", f)
    [] i.op = "sqrt" -> Sqrt(a, "RNE", f)
    [] i.op \in Fused ->
         Product(IF i.op \in {"nmsub", "nmadd"} THEN Minus(a, f) ELSE a, b,
                 IF i.op \in {"msub", "nmadd"} THEN Minus(c, f) ELSE c, fused, f)

Operands(i) ==
  CASE i.op = "sqrt" -> {A(i)}
    [] i.op \in Two -> {A(i), B(i)}
    [] i.op \in Fused ->
         {IF i.op \in {"nmsub", "nmadd"} THEN Minus(A(i), i.fmt) ELSE A(i), B(i), C(i)}

(* The default NaN of x86-64 or AArch64, or an operand made quiet *)
HostNans(i) ==
  LET f == i.fmt
      nans == {v \in Operands(i) : IsNan(v, f)}
  IN IF nans = {} THEN {CanonicalNan(f), Flip(CanonicalNan(f), f)} ELSE {Quiet(v, f) : v \in nans}

(* fdimpl::is_cnan, is_snan *)
IsCnan(v, f) == v = CanonicalNan(f)
IsSnan(v, f) == v = Infinity(f) + 1

(* set_exceptions after a handler that raised own: FE_INVALID is dropped. *)
SetExceptions(host, own) == fflags' = fflags \cup (host \ {"NV"}) \cup own
When(p, flag) == IF p THEN {flag} ELSE {}

(* Fregister::set_value *)
SetValue(v, f) ==
  /\ fregs' = [fregs EXCEPT ![0] = v]
  /\ single' = IF f = Single THEN single \cup {0} ELSE single \ {0}

-----------------------------------------------------------------------------
(* What fcvt.w and its like round with: bit 2 of the field is cut off, and
   std::round breaks ties away from zero. *)
CvtMode(rm) ==
  CASE rm \in {"RNE", "RMM"} -> "RMM"
    [] rm \in {"RUP", "DYN"} -> "RUP"
    [] rm \in {"RTZ", "RDN"} -> rm

IntMin(i) == IF i.signed THEN -(2^(i.w - 1)) ELSE 0
IntMax(i) == IF i.signed THEN 2^(i.w - 1) - 1 ELSE 2^i.w - 1

(* The bound as the comparison sees it, converted to the float type *)
MaxAs(i) == ToInt(FromInt(IntMax(i), "RNE", i.fmt).bits, "RTZ", i.fmt)
Finite(v, f) == ~ IsNan(v, f) /\ ~ IsInf(v, f)
OutOfRange(i) ==
  \/ ~ Finite(A(i), i.fmt)
  \/ LET v == ToInt(A(i), CvtMode(i.rm), i.fmt) IN v < IntMin(i) \/ v >= MaxAs(i)

-----------------------------------------------------------------------------
(* Programs that find what the architecture says *)
Mode(i) == IF i.rm = "DYN" THEN frm ELSE i.rm
Reads(i) ==
  CASE i.op \in Fused -> {1, 2, 3}
    [] i.op \in Two \cup Signs \cup Compares \cup {"min", "max"} -> {1, 2}
    [] i.op \in {"sqrt", "class", "cvt.w", "cvt.f"} \/ (i.op = "mv.x" /\ i.fmt = Double) -> {1}
    [] OTHER -> {}

Exact(i) ==
  LET f == i.fmt
      known(v) == IsSignaling(v, f) => IsSnan(v, f)
      tie == LET n == 2 * Sig(A(i), f) IN Exactly(n, Place(A(i), f), 0) /\ ~ IsInteger(A(i), f)
  IN
  /\ \A r \in Reads(i) : r \in single <=> Source(i) = Single
  /\ i.op \in Two \cup Fused \cup {"sqrt"} => Mode(i) = "RNE" /\ HostResult(i, TRUE).bits # NaN
  /\ i.op \in Fused => Mul(A(i), B(i), "RNE", f).flags = {}
  /\ i.op \in {"min", "max", "eq"} => known(A(i)) /\ known(B(i))
  /\ i.op = "class" => known(A(i))
  /\ i.op = "cvt.f" => Mode(i) = "RNE" /\ ~ IsSignaling(Get(1, Source(i)), Source(i))
  /\ i.op = "cvt.from" => Mode(i) = "RNE"
  /\ i.op = "cvt.w" =>
       /\ ~ OutOfRange(i)
       /\ CvtMode(i.rm) = Mode(i) \/ (i.rm = "RNE" /\ ~ tie)

Init ==
  /\ insn \in Insns \ {None}
  /\ \E a \in Contents(insn, 1), b \in Contents(insn, 2), c \in Contents(insn, 3) :
       fregs = [r \in 0 .. 3 |-> <<5, a, b, c>>[r + 1]]
  /\ mem \in Contents(insn, 4)
  /\ xreg \in Contents(insn, 5)
  /\ \E t \in Ambient(insn) : frm = t[1] /\ fflags = t[2] /\ single = t[3]
  /\ before = <<fregs, single>>
  /\ faults = 0
  /\ Careful => Exact(insn)

-----------------------------------------------------------------------------
Handler(ops) == insn # None /\ insn.op \in ops /\ insn' = None /\ UNCHANGED <<frm, before, faults>>
ToXreg == UNCHANGED <<fregs, single, mem>>
ToFreg == UNCHANGED <<xreg, mem>>

Finish(bits, flags) ==
  LET invalid == IF insn.op = "sqrt" THEN Less(A(insn), 0, insn.fmt) ELSE IsCnan(bits, insn.fmt)
  IN  SetValue(bits, insn.fmt) /\ SetExceptions(flags, When(invalid, "NV"))

Arithmetic ==
  /\ Handler(Two \cup Fused \cup {"sqrt"})
  /\ \E fused \in BOOLEAN, nan \in HostNans(insn) : \E r \in {HostResult(insn, fused)} :
       Finish(IF r.bits = NaN THEN nan ELSE r.bits, r.flags)
  /\ ToFreg

(* mutant: two zeros are equal, whatever their signs *)
SelectFirst(op, a, b, f) ==
  CASE IsNan(a, f) -> IF IsNan(b, f) THEN CanonicalNan(f) ELSE b
    [] ~ IsNan(a, f) ->
         IF IsNan(b, f) \/ Equal(a, b, f) \/ (Less(a, b, f) <=> op = "min") THEN a ELSE b

(* fmin, fmax *)
Select(op, a, b, f) ==
  LET first == IF op = "min" THEN Less(a, b, f) ELSE Less(b, a, f)
      second == IF op = "min" THEN Less(b, a, f) ELSE Less(a, b, f)
  IN CASE IsNan(a, f) /\ IsNan(b, f) -> CanonicalNan(f)
       [] IsNan(a, f) /\ ~ IsNan(b, f) -> b
       [] ~ IsNan(a, f) /\ IsNan(b, f) -> a
       [] ~ IsNan(a, f) /\ ~ IsNan(b, f) ->
            IF first THEN a ELSE IF second THEN b
            ELSE IF Neg(a, f) = (op = "min") THEN a ELSE b

MinMax ==
  /\ Handler({"min", "max"})
  /\ LET f == insn.fmt  a == A(insn)  b == B(insn) IN
     /\ SetValue(Select(insn.op, a, b, f), f)
     /\ SetExceptions({}, When(IsSnan(a, f) \/ IsSnan(b, f), "NV"))
  /\ ToFreg

Sign ==
  /\ Handler(Signs)
  /\ LET f == insn.fmt  a == A(insn)  b == B(insn)
         neg == CASE insn.op = "sgnj" -> Neg(b, f)
                  [] insn.op = "sgnjn" -> Neg(Minus(b, f), f)
                  [] insn.op = "sgnjx" -> Neg(a, f) # Neg(b, f)
     IN  SetValue(WithSign(neg, Mag(a, f), f), f)
  /\ SetExceptions({}, {})
  /\ ToFreg

(* fcvt *)
ConvertFloat ==
  /\ Handler({"cvt.f"})
  /\ LET g == Source(insn)
         r == Convert(Get(1, g), "RNE", g, insn.fmt)
     IN /\ SetValue(IF r.bits = NaN THEN CanonicalNan(insn.fmt) ELSE r.bits, insn.fmt)
        /\ SetExceptions(r.flags, {})
  /\ ToFreg

(* fcvtsdw *)
FromInteger ==
  /\ Handler({"cvt.from"})
  /\ LET v == IF insn.signed THEN SignedOf(xreg, insn.w) ELSE Low(xreg, insn.w)
         r == FromInt(v, "RNE", insn.fmt)
     IN SetValue(r.bits, insn.fmt) /\ SetExceptions(r.flags, {})
  /\ ToFreg

(* fcvtsd, with fdround and fd_conv_check.  A NaN differs from itself rounded. *)
ToInteger ==
  /\ Handler({"cvt.w"})
  /\ LET f == insn.fmt  a == A(insn)
         changed == IsNan(a, f) \/ (Finite(a, f) /\ ~ IsInteger(a, f))
         values == IF OutOfRange(insn) THEN Reg ELSE {ToInt(a, CvtMode(insn.rm), f)}
     IN /\ \E v \in values :
             xreg' = Low(IF insn.w = Word THEN SignedOf(v, Word) ELSE v, XLEN)
        /\ SetExceptions({}, When(changed, "NX") \cup When(OutOfRange(insn), "NV"))
  /\ ToXreg

(* fle, flt, feq *)
Compare ==
  /\ Handler(Compares)
  /\ LET f == insn.fmt  a == A(insn)  b == B(insn)
         holds == \/ insn.op # "eq" /\ Less(a, b, f)
                  \/ insn.op # "lt" /\ Equal(a, b, f)
         invalid == IF insn.op = "eq" THEN IsSnan(a, f) \/ IsSnan(b, f)
                    ELSE IsNan(a, f) \/ IsNan(b, f)
     IN /\ xreg' = IF holds THEN 1 ELSE 0
        /\ SetExceptions({}, When(invalid, "NV"))
  /\ ToXreg

FClass(a, f) ==
  CASE IsInf(a, f) -> 2^(IF Neg(a, f) THEN 0 ELSE 7)
    [] IsZero(a, f) -> 2^(IF Neg(a, f) THEN 3 ELSE 4)
    [] IsNan(a, f) -> 2^(IF IsSnan(a, f) THEN 8 ELSE 9)
    [] Mag(a, f) \in 1 .. (2^f.m - 1) -> 2^(IF Neg(a, f) THEN 2 ELSE 5)
    [] OTHER -> 2^(IF Neg(a, f) THEN 1 ELSE 6)

Classify ==
  /\ Handler({"class"})
  /\ xreg' = FClass(A(insn), insn.fmt)
  /\ SetExceptions({}, {})
  /\ ToXreg

(* fmvxwd; fmvx copies all 64 bits whatever its format *)
MoveToX ==
  /\ Handler({"mv.x"})
  /\ xreg' = Low(SignedOf(fregs[1], Width(insn.fmt)), XLEN)
  /\ SetExceptions({}, {})
  /\ ToXreg

MoveToF ==
  /\ Handler({"mv.f"})
  /\ SetValue(xreg, insn.fmt)
  /\ SetExceptions({}, {})
  /\ ToFreg

-----------------------------------------------------------------------------
(* fl: a float is boxed; fs *)
Boxed(v) == 2^XLEN - 2^Width(Single) + Low(v, Width(Single))

Load ==
  /\ Handler({"load"})
  /\ IF insn.fmt = Single THEN SetValue(Boxed(mem), Single)
     ELSE SetValue(mem, IF 4 \in single THEN Single ELSE Double)
  /\ SetExceptions({}, {})
  /\ ToFreg

Store ==
  /\ Handler({"store"})
  /\ mem' = IF insn.fmt = Single THEN mem - Low(mem, Width(Single)) + B(insn) ELSE B(insn)
  /\ single' = IF insn.fmt = Single THEN single
               ELSE IF 2 \in single THEN single \cup {4} ELSE single \ {4}
  /\ SetExceptions({}, {})
  /\ UNCHANGED <<fregs, xreg>>

(* The access faults.  fl writes the 0 that the load returns. *)
Fault ==
  /\ insn # None /\ insn.op \in {"load", "store"}
  /\ faults < MaxFaults /\ faults' = faults + 1
  /\ IF insn.op = "load" THEN SetValue(IF insn.fmt = Single THEN Boxed(0) ELSE 0, insn.fmt)
     ELSE UNCHANGED <<fregs, single>>
  /\ SetExceptions({}, {})
  /\ UNCHANGED <<xreg, mem, frm, insn, before>>

Next ==
  \/ Arithmetic \/ MinMax \/ Sign \/ ConvertFloat \/ FromInteger \/ ToInteger
  \/ Compare \/ Classify \/ MoveToX \/ MoveToF \/ Load \/ Store \/ Fault

Spec == Init /\ [][Next]_vars

-----------------------------------------------------------------------------
(* The register file of the architecture: floats are boxed, and a faulted
   load has written nothing. *)
Held(v, isSingle) == IF isSingle THEN Boxed(v) ELSE v
ArchFregs ==
  LET now == IF insn = None THEN <<fregs, single>> ELSE before
  IN  [r \in 0 .. 3 |-> Held(now[1][r], r \in now[2])]

Arch == INSTANCE FpIsa WITH fregs <- ArchFregs, mem <- Held(mem, 4 \in single)

(* README.md:24, "RV64IMAFDCSU fully implemented".  Every floating-point
   instruction leaves in its register, in memory and in fflags what the
   architecture says, once, with page faults in between (fdtypeinsn.cpp). *)
ArchSpec == Arch!Spec
=============================================================================
