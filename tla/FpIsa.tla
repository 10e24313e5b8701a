------------------------------- MODULE FpIsa --------------------------------
(***************************************************************************)
(* What a floating-point instruction promises to the program that issues   *)
(* it: the result in one of the five rounding modes, the canonical NaN     *)
(* where there is none, the flags accrued, a single-precision number boxed *)
(* in ones; or a page fault, after which it starts again.                  *)
(*                                                                         *)
(* An instruction is a record [op, fmt, rm, w, signed]: fmt its format, w  *)
(* and signed the integer it converts.  Its operands stand in registers 1, *)
(* 2 and 3 and its result goes to register 0, of the integer registers for *)
(* the operations that have their result there.                            *)
(***************************************************************************)
EXTENDS Floats

CONSTANTS
  Single, Double,   \* the two formats
  Word, Long,       \* widths of the two integer types
  Insns, None

VARIABLES
  fregs, xreg, mem,   \* fregs[0 .. 3], the integer register, a word of memory
  fflags, frm,
  insn                \* the instruction in flight

vars == <<fregs, xreg, mem, fflags, frm, insn>>

XLEN == Width(Double)
Reg == 0 .. (2^XLEN - 1)
Boxed(b) == 2^XLEN - 2^Width(Single) + b
Unboxed(v) == IF v >= Boxed(0) THEN v - Boxed(0) ELSE CanonicalNan(Single)
Wide(b, f) == IF f = Single THEN Boxed(b) ELSE b

Low(v, n) == v % 2^n
SignedOf(v, n) == IF Low(v, n) < 2^(n - 1) THEN Low(v, n) ELSE Low(v, n) - 2^n

Mode(i) == IF i.rm = "DYN" THEN frm ELSE i.rm
Operand(i, r) == IF i.fmt = Single THEN Unboxed(fregs[r]) ELSE fregs[r]
Other(f) == IF f = Single THEN Double ELSE Single

(* Arithmetic: the result and its flags *)
Computed(i) ==
  LET f == i.fmt  rm == Mode(i)
      a == Operand(i, 1)  b == Operand(i, 2)  c == Operand(i, 3)
      minus(v) == IF IsNan(v, f) THEN v ELSE Flip(v, f)
  IN CASE i.op = "add" -> Add(a, b, rm, f)
       [] i.op = "sub" -> Sub(a, b, rm, f)
       [] i.op = "mul" -> Mul(a, b, rm, f)
       [] i.op = "div" -> Div(a, b, rm, f)
       [] i.op = "sqrt" -> Sqrt(a, rm, f)
       [] i.op = "madd" -> Fma(a, b, c, rm, f)
       [] i.op = "msub" -> Fma(a, b, minus(c), rm, f)
       [] i.op = "nmsub" -> Fma(minus(a), b, c, rm, f)
       [] i.op = "nmadd" -> Fma(minus(a), b, minus(c), rm, f)
       [] i.op = "cvt.f" -> Convert(Operand([i EXCEPT !.fmt = Other(f)], 1), rm, Other(f), f)
       [] i.op = "cvt.from" ->
            FromInt(IF i.signed THEN SignedOf(xreg, i.w) ELSE Low(xreg, i.w), rm, f)

MinMax(i, a, b, f) ==
  LET flags == IF IsSignaling(a, f) \/ IsSignaling(b, f) THEN {"NV"} ELSE {}
      least == IF Less(a, b, f) \/ (Equal(a, b, f) /\ Neg(a, f)) THEN a ELSE b
      most == IF Less(b, a, f) \/ (Equal(a, b, f) /\ ~ Neg(a, f)) THEN a ELSE b
  IN IF IsNan(a, f) THEN Result(IF IsNan(b, f) THEN NaN ELSE b, flags)
     ELSE IF IsNan(b, f) THEN Result(a, flags)
     ELSE Result(IF i.op = "min" THEN least ELSE most, {})

SignOf(i, a, b, f) ==
  CASE i.op = "sgnj" -> Neg(b, f)
    [] i.op = "sgnjn" -> ~ Neg(b, f)
    [] i.op = "sgnjx" -> Neg(a, f) # Neg(b, f)

FloatResult(i) ==
  LET f == i.fmt  a == Operand(i, 1)  b == Operand(i, 2) IN
  CASE i.op \in {"min", "max"} -> MinMax(i, a, b, f)
    [] i.op \in {"sgnj", "sgnjn", "sgnjx"} -> Result(WithSign(SignOf(i, a, b, f), Mag(a, f), f), {})
    [] i.op = "mv.f" -> Result(Low(xreg, Width(f)), {})
    [] i.op = "load" -> Result(Low(mem, Width(f)), {})
    [] OTHER -> Computed(i)

(* The integer nearest to a, saturated *)
Integer(i, a, f) ==
  LET min == IF i.signed THEN -(2^(i.w - 1)) ELSE 0
      max == IF i.signed THEN 2^(i.w - 1) - 1 ELSE 2^i.w - 1
      v == ToInt(a, Mode(i), f)
  IN IF IsNan(a, f) \/ (~ Neg(a, f) /\ (IsInf(a, f) \/ v > max)) THEN Result(max, {"NV"})
     ELSE IF IsInf(a, f) \/ v < min THEN Result(min, {"NV"})
     ELSE Result(v, IF IsInteger(a, f) THEN {} ELSE {"NX"})

Class(a, f) ==
  LET kind == CASE IsInf(a, f) -> 0
                [] IsZero(a, f) -> 3
                [] ~ IsZero(a, f) /\ Mag(a, f) < 2^f.m -> 2
                [] OTHER -> 1
  IN IF IsNan(a, f) THEN 2^(IF IsSignaling(a, f) THEN 8 ELSE 9)
     ELSE 2^(IF Neg(a, f) THEN kind ELSE 7 - kind)

Compared(i, a, b, f) ==
  LET nan == IsNan(a, f) \/ IsNan(b, f)
      signaling == IsSignaling(a, f) \/ IsSignaling(b, f)
      holds == \/ i.op \in {"lt", "le"} /\ Less(a, b, f)
               \/ i.op \in {"eq", "le"} /\ Equal(a, b, f)
  IN Result(IF holds THEN 1 ELSE 0, IF signaling \/ (nan /\ i.op # "eq") THEN {"NV"} ELSE {})

IntResult(i) ==
  LET f == i.fmt  a == Operand(i, 1)  b == Operand(i, 2)
      int == Integer(i, a, f)
      register == IF i.w = Word THEN SignedOf(int.bits, Word) ELSE int.bits
  IN CASE i.op = "cvt.w" -> Result(Low(register, XLEN), int.flags)
       [] i.op \in {"lt", "le", "eq"} -> Compared(i, a, b, f)
       [] i.op = "class" -> Result(Class(a, f), {})
       [] i.op = "mv.x" -> Result(Low(SignedOf(fregs[1], Width(f)), XLEN), {})

ToXreg == {"cvt.w", "lt", "le", "eq", "class", "mv.x"}

-----------------------------------------------------------------------------
Init ==
  /\ fregs \in [0 .. 3 -> Reg] /\ xreg \in Reg /\ mem \in Reg
  /\ fflags \subseteq Flags /\ frm \in Modes
  /\ insn \in Insns

ExecuteFloat ==
  /\ insn # None /\ insn' = None
  /\ insn.op \notin ToXreg \cup {"store"}
  /\ LET r == FloatResult(insn)
         bits == IF r.bits = NaN THEN CanonicalNan(insn.fmt) ELSE r.bits
     IN  /\ fregs' = [fregs EXCEPT ![0] = Wide(bits, insn.fmt)]
         /\ fflags' = fflags \cup r.flags
  /\ UNCHANGED <<xreg, mem, frm>>

ExecuteInt ==
  /\ insn # None /\ insn' = None
  /\ insn.op \in ToXreg
  /\ xreg' = IntResult(insn).bits
  /\ fflags' = fflags \cup IntResult(insn).flags
  /\ UNCHANGED <<fregs, mem, frm>>

Store ==
  /\ insn # None /\ insn' = None
  /\ insn.op = "store"
  /\ mem' = IF insn.fmt = Double THEN fregs[2]
            ELSE mem - Low(mem, Width(Single)) + Low(fregs[2], Width(Single))
  /\ UNCHANGED <<fregs, xreg, fflags, frm>>

Next == ExecuteFloat \/ ExecuteInt \/ Store

Spec == Init /\ [][Next]_vars
=============================================================================
