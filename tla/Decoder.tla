------------------------------- MODULE Decoder -------------------------------
(***************************************************************************)
(* The decoder and the dispatch to the handlers: which operation Cpu::_loop *)
(* makes of a word, and which fields its handler takes for operands.       *)
(*                                                                         *)
(* A word is the set of its one bits, so that a mask is an intersection, | *)
(* a union and a shift moves the members.  Mmu::fetch reads 32 bits: above *)
(* a compressed instruction stand 16 bits of the next.                     *)
(***************************************************************************)
EXTENDS Encoding

CONSTANTS
  Words(_),   \* the words of a format that are fetched
  Careful,    \* programs keep to words the emulator gets right
  None

VARIABLES
  insn,   \* Decoder::insn
  form,   \* the format it was assembled by
  out     \* the operation executed, with its operands

(* The words enumerated for a format differ in the bits it leaves open. *)
ASSUME DecoderAssumption == \A f \in Forms : Words(f) \subseteq SUBSET Varying(f)

vars == <<insn, form, out>>

Init == insn = {} /\ form = None /\ out = None

-----------------------------------------------------------------------------
Shr(x, n) == {k - n : k \in {j \in x : j >= n}}
Shl(x, n) == {k + n : k \in x} \cap 0 .. 31
Bits(x, n, lo) == Num(Shr(x, lo) \cap 0 .. (n - 1))   \* (x >> lo) & (2^n - 1)

(* SIGNEXTEND_CAST2 from k + 1 bits, and >> of the int64_t it gives *)
Signed(x, k) == (x \cap 0 .. k) \cup (IF k \in x THEN (k + 1) .. 63 ELSE {})
Sar(x, n) == Shr(x, n) \cup (IF 63 \in x THEN (64 - n) .. 63 ELSE {})

Opcode(w) == Bits(w, 7, 0)
RD(w) == Bits(w, 5, 7)
RS1(w) == Bits(w, 5, 15)
RS2(w) == Bits(w, 5, 20)
RS3(w) == Bits(w \cap 27 .. 31, 5, 27)
Funct2(w) == Bits(w \cap {24, 25}, 7, 25)
Funct3(w) == Bits(w, 3, 12)
Funct7(w) == Bits(w, 7, 25)
Funct5(w) == Funct7(w) \div 4
Csr(w) == Shr(w \cap 20 .. 31, 20)

(* mutant: the mask of the upper part is one bit short *)
ImmSShort(w) == Sar(Signed(w \cap 26 .. 31, 31), 20) \cup (Shr(w, 7) \cap 0 .. 4)

imm_i(w) == Sar(Signed(w \cap 20 .. 31, 31), 20)
imm_s(w) == Sar(Signed(w \cap 25 .. 31, 31), 20) \cup (Shr(w, 7) \cap 0 .. 4)
imm_b(w) ==
  Sar(Signed(w \cap {31}, 31), 19) \cup Shl(w \cap {7}, 4)
  \cup (Shr(w, 20) \cap 5 .. 10) \cup (Shr(w, 7) \cap 1 .. 4)
imm_j(w) ==
  Sar(Signed(w \cap {31}, 31), 11) \cup (w \cap 12 .. 19)
  \cup (Shr(w, 9) \cap {11}) \cup (Shr(w, 20) \cap 1 .. 10)
imm_u(w) == Signed(w \cap 12 .. 31, 31)
fl_offset(w) == Sar(Signed(w, 31), 20)
fs_offset(w) == (fl_offset(w) \cap 5 .. 11) \cup (Shr(w, 7) \cap 0 .. 4)
shamt(w) == imm_i(w) \cap 0 .. 5

CompressedRd(w) == Bits(w, 3, 2) + 8
CompressedRs1(w) == Bits(w, 3, 7) + 8
CompressedRs2(w) == Bits(w, 3, 2) + 8
CompressedShamt(w) == (Shr(w, 7) \cap {5}) \cup (Shr(w, 2) \cap 0 .. 4)
CompressedFunct3(w) == Bits(w, 3, 13)
CompressedFunct2(w) == Bits(w, 2, 10)

(* Offsets that the compressed handlers put together themselves *)
WordOffset(w) == (Shl(w, 1) \cap {6}) \cup (Shr(w, 7) \cap 3 .. 5) \cup (Shr(w, 4) \cap {2})
DoubleOffset(w) == (Shl(w, 1) \cap {6, 7}) \cup (Shr(w, 7) \cap 3 .. 5)
DoubleLoadSp(w) == (Shl(w, 4) \cap 6 .. 8) \cup (Shr(w, 7) \cap {5}) \cup (Shr(w, 2) \cap {3, 4})
WordLoadSp(w) == (Shl(w, 4) \cap {6, 7}) \cup (Shr(w, 7) \cap {5}) \cup (Shr(w, 2) \cap 2 .. 4)
DoubleStoreSp(w) == (Shr(w, 1) \cap 6 .. 8) \cup (Shr(w, 7) \cap 3 .. 5)
WordStoreSp(w) == (Shr(w, 1) \cap {6, 7}) \cup (Shr(w, 7) \cap 2 .. 5)
Imm6(w) == Signed(CompressedShamt(w), 5)
Addi4SpnImm(w) ==
  (Shr(w, 1) \cap 6 .. 9) \cup (Shr(w, 7) \cap {4, 5}) \cup (Shr(w, 2) \cap {3}) \cup (Shr(w, 4) \cap {2})
Addi16SpImm(w) ==
  Signed((Shr(w, 3) \cap {9}) \cup (Shr(w, 2) \cap {4}) \cup (Shl(w, 1) \cap {6})
         \cup (Shl(w, 4) \cap {7, 8}) \cup (Shl(w, 3) \cap {5}), 9)
LuiImm(w) == Signed((Shl(w, 5) \cap {17}) \cup (Shl(w, 10) \cap 12 .. 16), 17)
JImm(w) ==
  Signed((Shr(w, 1) \cap {6, 8, 9, 11}) \cup (Shl(w, 2) \cap {10}) \cup (Shl(w, 1) \cap {7})
         \cup (Shl(w, 3) \cap {5}) \cup (Shr(w, 7) \cap {4}) \cup (Shr(w, 2) \cap 1 .. 3), 11)
BImm(w) ==
  Signed((Shr(w, 4) \cap {8}) \cup (Shl(w, 1) \cap {6, 7}) \cup (Shl(w, 3) \cap {5})
         \cup (Shr(w, 7) \cap {3, 4}) \cup (Shr(w, 2) \cap {1, 2}), 8)

-----------------------------------------------------------------------------
(* The enumerations of decoder.hpp: the operation that a value of the fields
   names, "none" if it names none *)
OpcodeType(o) ==
  CASE o = 3 -> "LOAD" [] o = 15 -> "FENCE" [] o = 23 -> "AUIPC" [] o = 55 -> "LUI"
    [] o = 103 -> "JALR" [] o = 111 -> "JAL" [] o = 19 -> "I" [] o = 35 -> "S"
    [] o = 51 -> "R" [] o = 99 -> "B" [] o = 7 -> "FL" [] o = 39 -> "FS"
    [] o = 67 -> "FMADD" [] o = 71 -> "FMSUB" [] o = 75 -> "FNMADD" [] o = 79 -> "FNMSUB"
    [] o = 83 -> "FOTHER" [] o = 47 -> "ATOMIC" [] o = 27 -> "I64" [] o = 59 -> "R64"
    [] o = 115 -> "CSR" [] OTHER -> "none"

LOADType(f3) == IF f3 < 4 THEN "load" ELSE IF f3 < 7 THEN "loadu" ELSE "none"
SType(f3) == IF f3 < 4 THEN "store" ELSE "none"
BType(f3) == <<"beq", "bne", "none", "none", "blt", "bge", "bltu", "bgeu">>[f3 + 1]
CsrType(f3) == <<"none", "csrw", "csrs", "csrc", "none", "csrwi", "csrsi", "csrci">>[f3 + 1]
ITypes == <<"add", "sll", "slt", "sltu", "xor", "sr", "or", "and">>

RType(f3, f7) ==
  CASE f7 = 0 -> <<"add", "sll", "slt", "sltu", "xor", "srl", "or", "and">>[f3 + 1]
    [] f7 = 1 -> <<"mul", "mulh", "mulhsu", "mulhu", "div", "divu", "rem", "remu">>[f3 + 1]
    [] f7 = 32 /\ f3 = 0 -> "sub"
    [] f7 = 32 /\ f3 = 5 -> "sra"
    [] OTHER -> "none"

(* I64Type and the shifts of IType, whose funct7 is shifted right by one *)
ShiftType(f3, f7, right) ==
  CASE f3 = 1 -> "sll"
    [] f3 = 5 /\ f7 = 0 -> "srl"
    [] f3 = 5 /\ f7 = right -> "sra"
    [] OTHER -> "none"

(* r64::funct3 looks at funct7 in two cases only. *)
R64Type(f3, f7) ==
  CASE f3 = 0 /\ f7 \in {0, 1, 32} -> IF f7 = 0 THEN "add" ELSE IF f7 = 1 THEN "mul" ELSE "sub"
    [] f3 = 5 /\ f7 \in {0, 1, 32} -> IF f7 = 0 THEN "srl" ELSE IF f7 = 1 THEN "divu" ELSE "sra"
    [] f3 \in {1, 4, 6, 7} -> <<"sll", "", "", "div", "", "rem", "remu">>[f3]
    [] OTHER -> "none"

AtomicType(f5) ==
  CASE f5 = 0 -> "amoadd" [] f5 = 1 -> "amoswap" [] f5 = 2 -> "lr" [] f5 = 3 -> "sc"
    [] f5 = 4 -> "amoxor" [] f5 = 8 -> "amoor" [] f5 = 12 -> "amoand" [] f5 = 16 -> "amomin"
    [] f5 = 20 -> "amomax" [] f5 = 24 -> "amominu" [] f5 = 28 -> "amomaxu" [] OTHER -> "none"

EnvironmentType(imm, f7) ==
  CASE f7 = 9 -> "sfence.vma"
    [] f7 \in {17, 81} -> "none"     \* hfencevma, hfencegvma: illegal instructions
    [] imm = 0 /\ f7 \notin {9, 17, 81} -> "ecall"
    [] imm = 1 /\ f7 \notin {9, 17, 81} -> "ebreak"
    [] imm = 2 /\ f7 = 8 -> "sret"
    [] imm = 2 /\ f7 = 24 -> "mret"
    [] imm = 5 /\ f7 = 8 -> "wfi"
    [] OTHER -> "none"

(* FOTHERfunct7 without its lowest bit, which is the precision *)
FDBinary(f7, f3) ==
  CASE f7 = 0 -> "fadd" [] f7 = 4 -> "fsub" [] f7 = 8 -> "fmul" [] f7 = 12 -> "fdiv"
    [] f7 = 16 /\ f3 < 3 -> <<"fsgnj", "fsgnjn", "fsgnjx">>[f3 + 1]
    [] f7 = 20 /\ f3 < 2 -> <<"fmin", "fmax">>[f3 + 1]
    [] f7 = 80 /\ f3 < 3 -> <<"fle", "flt", "feq">>[f3 + 1]
    [] OTHER -> "none"
FDUnary(f7, f3, rs2) ==
  CASE f7 = 32 -> "fcvt.f"
    [] f7 = 44 -> "fsqrt"
    [] f7 = 96 /\ rs2 < 4 -> <<"fcvt.w", "fcvt.wu", "fcvt.l", "fcvt.lu">>[rs2 + 1]
    [] f7 = 104 /\ rs2 < 4 ->
         <<"fcvt.from.w", "fcvt.from.wu", "fcvt.from.l", "fcvt.from.lu">>[rs2 + 1]
    [] f7 = 112 /\ f3 < 2 -> <<"fmv.x", "fclass">>[f3 + 1]
    [] f7 = 120 -> "fmv.f"
    [] OTHER -> "none"

-----------------------------------------------------------------------------
(* What a handler takes from the word *)
Illegal == Insn("illegal", 0, 0, 0, 0, 0, {})
Bare(op) == IF op = "none" THEN Illegal ELSE Insn(op, 0, 0, 0, 0, 0, {})
WithImm(op, n, w, imm) == IF op = "none" THEN Illegal ELSE Insn(op, n, RD(w), RS1(w), 0, 0, imm)
WithRs2(op, n, w) == IF op = "none" THEN Illegal ELSE Insn(op, n, RD(w), RS1(w), RS2(w), 0, {})
Unary(op, n, w) == WithImm(op, n, w, {})
NoRd(op, n, w, imm) == IF op = "none" THEN Illegal ELSE Insn(op, n, 0, RS1(w), RS2(w), 0, imm)

AccessWidth(w) == 8 * 2^(Funct3(w) % 4)

load(w) == WithImm(LOADType(Funct3(w)), AccessWidth(w), w, imm_i(w))
store(w) == NoRd(SType(Funct3(w)), AccessWidth(w), w, imm_s(w))
btype(w) == NoRd(BType(Funct3(w)), 64, w, imm_b(w))
rtype(w) == WithRs2(RType(Funct3(w), Funct7(w)), 64, w)
r64(w) == WithRs2(R64Type(Funct3(w), Funct7(w)), 32, w)

(* srai shifts by the whole immediate, of which the host takes six bits. *)
itype(w) ==
  IF Funct3(w) \in {1, 5}
  THEN WithImm(ShiftType(Funct3(w), IF Funct3(w) = 5 THEN Funct7(w) \div 2 ELSE 0, 16), 64, w, shamt(w))
  ELSE WithImm(ITypes[Funct3(w) + 1], 64, w, imm_i(w))

i64(w) ==
  IF Funct3(w) = 0 THEN WithImm("add", 32, w, imm_i(w))
  ELSE WithImm(ShiftType(Funct3(w), Funct7(w), 32), 32, w, shamt(w))

atomic(w) ==
  LET op == IF Funct3(w) \in {2, 3} THEN AtomicType(Funct5(w)) ELSE "none"
  IN  IF op = "lr" THEN Unary(op, AccessWidth(w), w) ELSE WithRs2(op, AccessWidth(w), w)

environment(w) ==
  LET op == EnvironmentType(RS2(w), Funct7(w))
  IN  IF op = "sfence.vma" THEN NoRd(op, 0, w, {}) ELSE Bare(op)

system(w) ==
  IF Funct3(w) = 0 THEN environment(w) ELSE WithImm(CsrType(Funct3(w)), 64, w, Csr(w))

fl(w) == WithImm(IF Funct3(w) \in {2, 3} THEN "fload" ELSE "none", AccessWidth(w), w, fl_offset(w))
fs(w) == NoRd(IF Funct3(w) \in {2, 3} THEN "fstore" ELSE "none", AccessWidth(w), w, fs_offset(w))

fma(op, w) == [WithRs2(op, 32 * (1 + Funct2(w)), w) EXCEPT !.rs3 = RS3(w)]

fother(w) ==
  LET double == Funct7(w) % 2
      f7 == Funct7(w) - double
      binary == FDBinary(f7, Funct3(w))
      n == 32 * (1 + double)
  IN  IF binary # "none" THEN WithRs2(binary, n, w) ELSE Unary(FDUnary(f7, Funct3(w), RS2(w)), n, w)

(* fnmadd computes -(v1) * v2 + v3, which the architecture calls fnmsub. *)
execute32(w) ==
  LET t == OpcodeType(Opcode(w)) IN
  CASE t = "LOAD" -> load(w)
    [] t = "FENCE" -> Bare("fence")
    [] t = "I" -> itype(w)
    [] t = "S" -> store(w)
    [] t = "R" -> rtype(w)
    [] t = "B" -> btype(w)
    [] t = "FL" -> fl(w)
    [] t = "FS" -> fs(w)
    [] t = "FMADD" -> fma("fmadd", w)
    [] t = "FMSUB" -> fma("fmsub", w)
    [] t = "FNMADD" -> fma("fnmsub", w)
    [] t = "FNMSUB" -> fma("fnmadd", w)
    [] t = "FOTHER" -> fother(w)
    [] t = "ATOMIC" -> atomic(w)
    [] t = "I64" -> i64(w)
    [] t = "R64" -> r64(w)
    [] t \in {"AUIPC", "LUI"} -> Insn(IF t = "LUI" THEN "lui" ELSE "auipc", 64, RD(w), 0, 0, 0, imm_u(w))
    [] t = "JAL" -> Insn("jal", 64, RD(w), 0, 0, 0, imm_j(w))
    [] t = "JALR" -> WithImm("jalr", 64, w, imm_i(w))
    [] t = "CSR" -> system(w)
    [] t = "none" -> Illegal

-----------------------------------------------------------------------------
(* Compressed handlers: rd is also the first source where they update it. *)
CLoad(op, n, w, imm) == Insn(op, n, CompressedRd(w), CompressedRs1(w), 0, 0, imm)
CStore(op, n, w, imm) == Insn(op, n, 0, CompressedRs1(w), CompressedRs2(w), 0, imm)
Update(op, n, rd, rs2, imm) == Insn(op, n, rd, rd, rs2, 0, imm)

(* ctype::fsd stores the floating-point register with the address register's number. *)
CFsd(w) == Insn("fstore", 64, 0, CompressedRs1(w), CompressedRs1(w), 0, DoubleOffset(w))

quadrant0(w) ==
  CASE CompressedFunct3(w) = 0 -> Insn("add", 64, CompressedRd(w), 2, 0, 0, Addi4SpnImm(w))
    [] CompressedFunct3(w) = 1 -> CLoad("fload", 64, w, DoubleOffset(w))
    [] CompressedFunct3(w) = 2 -> CLoad("load", 32, w, WordOffset(w))
    [] CompressedFunct3(w) = 3 -> CLoad("load", 64, w, DoubleOffset(w))
    [] CompressedFunct3(w) = 4 -> Illegal
    [] CompressedFunct3(w) = 5 -> CFsd(w)
    [] CompressedFunct3(w) = 6 -> CStore("store", 32, w, WordOffset(w))
    [] CompressedFunct3(w) = 7 -> CStore("store", 64, w, DoubleOffset(w))

q1op4(w) ==
  LET rd == CompressedRs1(w)  f2 == CompressedFunct2(w)
      val1 == Bits(w, 1, 12)  val2 == Bits(w, 2, 5)
  IN CASE f2 \in {0, 1} -> Update(IF f2 = 0 THEN "srl" ELSE "sra", 64, rd, 0, CompressedShamt(w))
       [] f2 = 2 -> Update("and", 64, rd, 0, Imm6(w))
       [] f2 = 3 /\ val1 = 0 -> Update(<<"sub", "xor", "or", "and">>[val2 + 1], 64, rd, CompressedRs2(w), {})
       [] f2 = 3 /\ val1 = 1 /\ val2 < 2 -> Update(<<"sub", "add">>[val2 + 1], 32, rd, CompressedRs2(w), {})
       [] OTHER -> Illegal

quadrant1(w) ==
  CASE CompressedFunct3(w) = 0 -> Update("add", 64, RD(w), 0, Imm6(w))
    [] CompressedFunct3(w) = 1 -> Update("add", 32, RD(w), 0, Imm6(w))
    [] CompressedFunct3(w) = 2 -> Insn("add", 64, RD(w), 0, 0, 0, Imm6(w))
    [] CompressedFunct3(w) = 3 ->
         (CASE RD(w) = 0 -> Bare("nop")
            [] RD(w) = 2 -> Update("add", 64, 2, 0, Addi16SpImm(w))
            [] OTHER -> Insn("lui", 64, RD(w), 0, 0, 0, LuiImm(w)))
    [] CompressedFunct3(w) = 4 -> q1op4(w)
    [] CompressedFunct3(w) = 5 -> Insn("jal", 64, 0, 0, 0, 0, JImm(w))
    [] CompressedFunct3(w) \in {6, 7} ->
         Insn(IF CompressedFunct3(w) = 6 THEN "beq" ELSE "bne", 64, 0, CompressedRs1(w), 0, 0, BImm(w))

quadrant2(w) ==
  LET rs2 == Bits(w, 5, 2)  linked == Bits(w, 1, 12) IN
  CASE CompressedFunct3(w) = 0 -> Update("sll", 64, RD(w), 0, CompressedShamt(w))
    [] CompressedFunct3(w) = 1 -> Insn("fload", 64, RD(w), 2, 0, 0, DoubleLoadSp(w))
    [] CompressedFunct3(w) = 2 -> Insn("load", 32, RD(w), 2, 0, 0, WordLoadSp(w))
    [] CompressedFunct3(w) = 3 -> Insn("load", 64, RD(w), 2, 0, 0, DoubleLoadSp(w))
    [] CompressedFunct3(w) = 4 ->
         IF rs2 = 0 THEN Insn("jalr", 64, linked, RD(w), 0, 0, {})
         ELSE Insn("add", 64, RD(w), IF linked = 1 THEN RD(w) ELSE 0, rs2, 0, {})
    [] CompressedFunct3(w) = 5 -> Insn("fstore", 64, 0, 2, rs2, 0, DoubleStoreSp(w))
    [] CompressedFunct3(w) = 6 -> Insn("store", 32, 0, 2, rs2, 0, WordStoreSp(w))
    [] CompressedFunct3(w) = 7 -> Insn("store", 64, 0, 2, rs2, 0, DoubleStoreSp(w))

-----------------------------------------------------------------------------
(* Words that mean to the emulator what their format says *)
Exact(f, w) ==
  /\ f.op = "fstore" /\ f.size = 4 => 31 \notin w
  /\ f.op = "fstore" /\ f.rs1 = Low7 => CompressedRs1(w) = CompressedRs2(w)
  /\ f \in Single => f.op = "illegal" /\ w = {}

(* 16 bits of the next instruction above a compressed one *)
Above(f) == IF f.size = 2 THEN {{}, 16 .. 31} ELSE {{}}

Fetch ==
  /\ out = None /\ form = None
  /\ \E f \in Forms : \E v \in Words(f), next \in Above(f) :
       LET w == f.ones \cup v \cup next IN
       /\ ~ Reserved(f, w)
       /\ Careful => Exact(f, w)
       /\ form' = f /\ insn' = w
  /\ UNCHANGED out

Executes(q, result) ==
  /\ form # None /\ out = None
  /\ Bits(insn, 2, 0) = q
  /\ out' = IF insn = {} THEN Illegal ELSE result
  /\ UNCHANGED <<insn, form>>

(* Cpu::execute16 and Cpu::execute32 *)
Execute0 == Executes(0, quadrant0(insn))
Execute1 == Executes(1, quadrant1(insn))
Execute2 == Executes(2, quadrant2(insn))
Execute32 == Executes(3, execute32(insn))

Retire ==
  /\ out # None
  /\ insn' = {} /\ form' = None /\ out' = None

Next == Fetch \/ Execute0 \/ Execute1 \/ Execute2 \/ Execute32 \/ Retire

Spec == Init /\ [][Next]_vars

(* README.md:24, "RV64IMAFDCSU fully implemented".  Every word of a
   format is executed as the instruction it encodes, with its registers,
   immediate and width, and one of the formats Encoding lists as Unused raises
   an illegal instruction (Cpu::_loop, the handlers' dispatch). *)
DecodesAsEncoded == out # None => out = Meaning(form, insn)
=============================================================================
