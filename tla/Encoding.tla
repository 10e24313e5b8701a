------------------------------ MODULE Encoding ------------------------------
(***************************************************************************)
(* The instruction formats of RV64GC, as the opcode map of the             *)
(* architecture lists them: for each instruction the bits that are fixed,  *)
(* where its registers stand, and which bit of the word each bit of its    *)
(* immediate is.  A compressed format is that of the full-size instruction *)
(* it abbreviates.                                                         *)
(*                                                                         *)
(* A word is the set of its one bits, and so is an immediate, in the 64    *)
(* bits of a register.                                                     *)
(***************************************************************************)
EXTENDS Integers, Sequences, FiniteSetsExt

BitsOf(v) == {k \in 0 .. 11 : (v \div 2^k) % 2 = 1}
Num(bits) ==   \* of at most seven bits
  LET Bit(k) == IF k \in bits THEN 2^k ELSE 0
  IN  Bit(0) + Bit(1) + Bit(2) + Bit(3) + Bit(4) + Bit(5) + Bit(6)
At(v, lo) == {lo + k : k \in BitsOf(v)}

(* An instruction: the operation, its width in bits, its operands *)
Insn(op, n, rd, rs1, rs2, rs3, imm) ==
  [op |-> op, n |-> n, rd |-> rd, rs1 |-> rs1, rs2 |-> rs2, rs3 |-> rs3, imm |-> imm]

(* A register operand: a field of the word, <<first bit, length, added>> *)
Rd == <<7, 5, 0>>
Rs1 == <<15, 5, 0>>
Rs2 == <<20, 5, 0>>
Rs3 == <<27, 5, 0>>
CRs2 == <<2, 5, 0>>     \* compressed, any register
Low7 == <<7, 3, 8>>     \* compressed, x8 to x15
Low2 == <<2, 3, 8>>
X(r) == <<0, 0, r>>     \* not in the word

Field(f) == f[1] .. (f[1] + f[2] - 1)
Value(w, f) == f[3] + Num({k - f[1] : k \in w \cap Field(f)})

(* Immediates: bit k of the value is bit imm[k] of the word.  Run(k, n, p) is
   n bits from k on, at p and up. *)
Run(k, n, p) == [j \in k .. (k + n - 1) |-> p + j - k]
And(f, g) == [k \in DOMAIN f \cup DOMAIN g |-> IF k \in DOMAIN f THEN f[k] ELSE g[k]]
Ran(f) == {f[k] : k \in DOMAIN f}
NoImm == [k \in {} |-> 0]
ImmI == Run(0, 12, 20)
ImmS == And(Run(0, 5, 7), Run(5, 7, 25))
ImmB == And(And(Run(1, 4, 8), Run(5, 6, 25)), And(Run(11, 1, 7), Run(12, 1, 31)))
ImmU == Run(12, 20, 12)
ImmJ == And(And(Run(1, 10, 21), Run(11, 1, 20)), And(Run(12, 8, 12), Run(20, 1, 31)))
Shamt(n) == Run(0, IF n = 32 THEN 5 ELSE 6, 20)
CImm == And(Run(0, 5, 2), Run(5, 1, 12))

-----------------------------------------------------------------------------
(* A format.  free are bits of the word that may have any value and say
   nothing of the operands. *)
Form(op, n, ones, rd, rs1, rs2, rs3, imm, signed, free, size) ==
  [op |-> op, n |-> n, ones |-> ones, rd |-> rd, rs1 |-> rs1, rs2 |-> rs2, rs3 |-> rs3,
   imm |-> imm, signed |-> signed, free |-> free, size |-> size]

Varying(f) ==
  Field(f.rd) \cup Field(f.rs1) \cup Field(f.rs2) \cup Field(f.rs3) \cup Ran(f.imm) \cup f.free

(* What word w means when f is its format *)
Meaning(f, w) ==
  LET low == {k \in DOMAIN f.imm : f.imm[k] \in w}
      sign == f.signed /\ Max(DOMAIN f.imm) \in low
  IN  Insn(f.op, f.n, Value(w, f.rd), Value(w, f.rs1), Value(w, f.rs2), Value(w, f.rs3),
           low \cup (IF sign THEN (Max(DOMAIN f.imm) + 1) .. 63 ELSE {}))

(* 32-bit instructions: major is inst[6:2] *)
Major(m, f3) == {0, 1} \cup At(m, 2) \cup At(f3, 12)

R(op, n, m, f3, f7) ==
  Form(op, n, Major(m, f3) \cup At(f7, 25), Rd, Rs1, Rs2, X(0), NoImm, FALSE, {}, 4)
I(op, n, m, f3) == Form(op, n, Major(m, f3), Rd, Rs1, X(0), X(0), ImmI, TRUE, {}, 4)
Shift(op, n, m, f3, f7) ==
  Form(op, n, Major(m, f3) \cup At(f7, 25), Rd, Rs1, X(0), X(0), Shamt(n), FALSE, {}, 4)
S(op, n, m, f3) == Form(op, n, Major(m, f3), X(0), Rs1, Rs2, X(0), ImmS, TRUE, {}, 4)
B(op, f3) == Form(op, 64, Major(24, f3), X(0), Rs1, Rs2, X(0), ImmB, TRUE, {}, 4)
U(op, m) == Form(op, 64, Major(m, 0), Rd, X(0), X(0), X(0), ImmU, TRUE, {}, 4)

Ops == <<"add", "sll", "slt", "sltu", "xor", "srl", "or", "and">>
MulDiv == <<"mul", "mulh", "mulhsu", "mulhu", "div", "divu", "rem", "remu">>
Branches == {<<0, "beq">>, <<1, "bne">>, <<4, "blt">>, <<5, "bge">>, <<6, "bltu">>, <<7, "bgeu">>}
CsrOps == {<<1, "csrw">>, <<2, "csrs">>, <<3, "csrc">>, <<5, "csrwi">>, <<6, "csrsi">>, <<7, "csrci">>}
Amos == {<<0, "amoadd">>, <<1, "amoswap">>, <<4, "amoxor">>, <<8, "amoor">>, <<12, "amoand">>,
         <<16, "amomin">>, <<20, "amomax">>, <<24, "amominu">>, <<28, "amomaxu">>, <<3, "sc">>}

Integer ==
  {I(IF f3 < 4 THEN "load" ELSE "loadu", 8 * 2^(f3 % 4), 0, f3) : f3 \in 0 .. 6}
  \cup {S("store", 8 * 2^f3, 8, f3) : f3 \in 0 .. 3}
  \cup {I(Ops[f3 + 1], 64, 4, f3) : f3 \in {0, 2, 3, 4, 6, 7}}
  \cup {I("add", 32, 6, 0)}
  \cup (UNION {{Shift("sll", s[1], s[2], 1, 0), Shift("srl", s[1], s[2], 5, 0),
                  Shift("sra", s[1], s[2], 5, 32)} : s \in {<<64, 4>>, <<32, 6>>}})
  \cup {R(Ops[f3 + 1], 64, 12, f3, 0) : f3 \in 0 .. 7}
  \cup {R(MulDiv[f3 + 1], 64, 12, f3, 1) : f3 \in 0 .. 7}
  \cup {R(Ops[f3 + 1], 32, 14, f3, 0) : f3 \in {0, 1, 5}}
  \cup {R(MulDiv[f3 + 1], 32, 14, f3, 1) : f3 \in {0, 4, 5, 6, 7}}
  \cup (UNION {{R("sub", s[1], s[2], 0, 32), R("sra", s[1], s[2], 5, 32)} : s \in {<<64, 12>>, <<32, 14>>}})
  \cup {B(b[2], b[1]) : b \in Branches}
  \cup {U("lui", 13), U("auipc", 5)}
  \cup {Form("jal", 64, Major(27, 0), Rd, X(0), X(0), X(0), ImmJ, TRUE, {}, 4), I("jalr", 64, 25, 0)}
  \cup {Form("fence", 0, Major(3, f3), X(0), X(0), X(0), X(0), NoImm, FALSE, 7 .. 11 \cup 15 .. 31, 4) :
          f3 \in {0, 1}}

System ==
  {Form(c[2], 64, Major(28, c[1]), Rd, Rs1, X(0), X(0), ImmI, FALSE, {}, 4) : c \in CsrOps}
  \cup {Form(e[1], 0, Major(28, 0) \cup At(e[2], 20), X(0), X(0), X(0), X(0), NoImm, FALSE, {}, 4) :
          e \in {<<"ecall", 0>>, <<"ebreak", 1>>, <<"sret", 258>>, <<"mret", 770>>, <<"wfi", 261>>}}
  \cup {Form("sfence.vma", 0, Major(28, 0) \cup At(9, 25), X(0), Rs1, Rs2, X(0), NoImm, FALSE, {}, 4)}

(* aq and rl order nothing on one hart. *)
Atomic ==
  UNION {
    {Form(a[2], 8 * 2^f3, Major(11, f3) \cup At(a[1], 27), Rd, Rs1, Rs2, X(0), NoImm, FALSE, {25, 26}, 4) :
       a \in Amos}
    \cup {Form("lr", 8 * 2^f3, Major(11, f3) \cup At(2, 27), Rd, Rs1, X(0), X(0), NoImm, FALSE, {25, 26}, 4)}
    : f3 \in {2, 3}}

(* Floating point: fmt is 0 for single, 1 for double precision, rm any. *)
Rm == 12 .. 14
Width(fmt) == IF fmt = 0 THEN 32 ELSE 64
Fp(op, fmt, f5, rs2, free, fixed) ==
  Form(op, Width(fmt), Major(20, 0) \cup At(fmt, 25) \cup At(f5, 27) \cup fixed,
       Rd, Rs1, rs2, X(0), NoImm, FALSE, free, 4)
Fma == {<<16, "fmadd">>, <<17, "fmsub">>, <<18, "fnmsub">>, <<19, "fnmadd">>}

Floating ==
  UNION {
    {I("fload", Width(fmt), 1, 2 + fmt), S("fstore", Width(fmt), 9, 2 + fmt)}
    \cup {Form(a[2], Width(fmt), Major(a[1], 0) \cup At(fmt, 25), Rd, Rs1, Rs2, Rs3, NoImm, FALSE, Rm, 4) :
            a \in Fma}
    \cup {Fp(a[2], fmt, a[1], Rs2, Rm, {}) : a \in {<<0, "fadd">>, <<1, "fsub">>, <<2, "fmul">>, <<3, "fdiv">>}}
    \cup {Fp("fsqrt", fmt, 11, X(0), Rm, {})}
    \cup {Fp(<<"fsgnj", "fsgnjn", "fsgnjx">>[k + 1], fmt, 4, Rs2, {}, At(k, 12)) : k \in 0 .. 2}
    \cup {Fp(<<"fmin", "fmax">>[k + 1], fmt, 5, Rs2, {}, At(k, 12)) : k \in 0 .. 1}
    \cup {Fp(<<"fle", "flt", "feq">>[k + 1], fmt, 20, Rs2, {}, At(k, 12)) : k \in 0 .. 2}
    \cup {Fp("fcvt.f", fmt, 8, X(0), Rm, At(1 - fmt, 20))}
    \cup {Fp(<<"fcvt.w", "fcvt.wu", "fcvt.l", "fcvt.lu">>[k + 1], fmt, 24, X(0), Rm, At(k, 20)) : k \in 0 .. 3}
    \cup {Fp(<<"fcvt.from.w", "fcvt.from.wu", "fcvt.from.l", "fcvt.from.lu">>[k + 1],
             fmt, 26, X(0), Rm, At(k, 20)) : k \in 0 .. 3}
    \cup {Fp("fmv.x", fmt, 28, X(0), {}, {}), Fp("fclass", fmt, 28, X(0), {}, At(1, 12)),
          Fp("fmv.f", fmt, 30, X(0), {}, {})}
    : fmt \in {0, 1}}

-----------------------------------------------------------------------------
(* 16-bit instructions: quadrant q, funct3 in bits 13 to 15 *)
C(op, n, q, f3, fixed, rd, rs1, rs2, imm, signed) ==
  Form(op, n, At(q, 0) \cup At(f3, 13) \cup fixed, rd, rs1, rs2, X(0), imm, signed, {}, 2)

ImmQ0(n) ==   \* offsets of c.lw, c.ld and their like
  IF n = 32 THEN And(And(Run(3, 3, 10), Run(2, 1, 6)), Run(6, 1, 5)) ELSE And(Run(3, 3, 10), Run(6, 2, 5))
ImmLoadSp(n) ==
  IF n = 32 THEN And(And(Run(2, 3, 4), Run(5, 1, 12)), Run(6, 2, 2))
  ELSE And(And(Run(3, 2, 5), Run(5, 1, 12)), Run(6, 3, 2))
ImmStoreSp(n) ==
  IF n = 32 THEN And(Run(2, 4, 9), Run(6, 2, 7)) ELSE And(Run(3, 3, 10), Run(6, 3, 7))
ImmCB == And(And(Run(1, 2, 3), Run(3, 2, 10)), And(And(Run(5, 1, 2), Run(6, 2, 5)), Run(8, 1, 12)))
ImmCJ ==
  And(And(And(Run(1, 3, 3), Run(4, 1, 11)), And(Run(5, 1, 2), Run(6, 1, 7))),
      And(And(Run(7, 1, 6), Run(8, 2, 9)), And(Run(10, 1, 8), Run(11, 1, 12))))
Imm4Spn == And(And(Run(2, 1, 6), Run(3, 1, 5)), And(Run(4, 2, 11), Run(6, 4, 7)))
Imm16Sp == And(And(Run(4, 1, 6), Run(5, 1, 2)), And(And(Run(6, 1, 5), Run(7, 2, 3)), Run(9, 1, 12)))

Quadrant0 ==
  {C("add", 64, 0, 0, {}, Low2, X(2), X(0), Imm4Spn, FALSE)}
  \cup {C(a[2], a[3], 0, a[1], {}, Low2, Low7, X(0), ImmQ0(a[3]), FALSE) :
          a \in {<<1, "fload", 64>>, <<2, "load", 32>>, <<3, "load", 64>>}}
  \cup {C(a[2], a[3], 0, a[1], {}, X(0), Low7, Low2, ImmQ0(a[3]), FALSE) :
          a \in {<<5, "fstore", 64>>, <<6, "store", 32>>, <<7, "store", 64>>}}

Quadrant1 ==
  {C("add", 64, 1, 0, {}, Rd, Rd, X(0), CImm, TRUE), C("add", 32, 1, 1, {}, Rd, Rd, X(0), CImm, TRUE),
   C("add", 64, 1, 2, {}, Rd, X(0), X(0), CImm, TRUE),
   C("add", 64, 1, 3, At(2, 7), X(2), X(2), X(0), Imm16Sp, TRUE),
   C("lui", 64, 1, 3, {}, Rd, X(0), X(0), And(Run(12, 5, 2), Run(17, 1, 12)), TRUE),
   C("srl", 64, 1, 4, {}, Low7, Low7, X(0), CImm, FALSE),
   C("sra", 64, 1, 4, At(1, 10), Low7, Low7, X(0), CImm, FALSE),
   C("and", 64, 1, 4, At(2, 10), Low7, Low7, X(0), CImm, TRUE),
   C("jal", 64, 1, 5, {}, X(0), X(0), X(0), ImmCJ, TRUE),
   C("beq", 64, 1, 6, {}, X(0), Low7, X(0), ImmCB, TRUE),
   C("bne", 64, 1, 7, {}, X(0), Low7, X(0), ImmCB, TRUE)}
  \cup {C(<<"sub", "xor", "or", "and">>[k + 1], 64, 1, 4, At(3, 10) \cup At(k, 5),
          Low7, Low7, Low2, NoImm, FALSE) : k \in 0 .. 3}
  \cup {C(<<"sub", "add">>[k + 1], 32, 1, 4, At(7, 10) \cup At(k, 5),
          Low7, Low7, Low2, NoImm, FALSE) : k \in 0 .. 1}

Quadrant2 ==
  {C("sll", 64, 2, 0, {}, Rd, Rd, X(0), CImm, FALSE),
   C("jalr", 64, 2, 4, {}, X(0), Rd, X(0), NoImm, FALSE),
   C("jalr", 64, 2, 4, {12}, X(1), Rd, X(0), NoImm, FALSE),
   C("add", 64, 2, 4, {}, Rd, X(0), CRs2, NoImm, FALSE),
   C("add", 64, 2, 4, {12}, Rd, Rd, CRs2, NoImm, FALSE)}
  \cup {C(a[2], a[3], 2, a[1], {}, Rd, X(2), X(0), ImmLoadSp(a[3]), FALSE) :
          a \in {<<1, "fload", 64>>, <<2, "load", 32>>, <<3, "load", 64>>}}
  \cup {C(a[2], a[3], 2, a[1], {}, X(0), X(2), CRs2, ImmStoreSp(a[3]), FALSE) :
          a \in {<<5, "fstore", 64>>, <<6, "store", 32>>, <<7, "store", 64>>}}

(* C.EBREAK, the illegal instruction, and formats with no instruction in them *)
Single ==
  {C("ebreak", 0, 2, 4, {12}, X(0), X(0), X(0), NoImm, FALSE),
   C("illegal", 0, 0, 0, {}, X(0), X(0), X(0), NoImm, FALSE)}
Unused ==
  {Form("illegal", 0, {15}, X(0), X(0), X(0), X(0), NoImm, FALSE, 2 .. 12, 2)}
  \cup {Form("illegal", 0, {0, 15} \cup At(7, 10) \cup At(k, 5), X(0), X(0), X(0), X(0), NoImm, FALSE,
             2 .. 4 \cup 7 .. 9, 2) : k \in {2, 3}}
  \cup {Form("illegal", 0, Major(m, 0), X(0), X(0), X(0), X(0), NoImm, FALSE, 7 .. 31, 4) :
          m \in 0 .. 31 \ {0, 1, 3, 4, 5, 6, 8, 9, 11, 12, 13, 14, 16, 17, 18, 19, 20, 24, 25, 27, 28}}

Compressed == Quadrant0 \cup Quadrant1 \cup Quadrant2
Forms == Integer \cup System \cup Atomic \cup Floating \cup Compressed \cup Single \cup Unused

(* The architecture reserves encodings of a format: an immediate or a register
   that must not be 0, the rd that belongs to another format. *)
Reserved(f, w) ==
  /\ f \in Compressed
  /\ LET m == Meaning(f, w) IN
     \/ m.op = "add" /\ f.imm \in {Imm4Spn, Imm16Sp} /\ m.imm = {}
     \/ m.op = "lui" /\ (m.imm = {} \/ m.rd \in {0, 2})
     \/ m.op = "add" /\ m.n = 32 /\ f.rd = Rd /\ m.rd = 0
     \/ m.op = "load" /\ f.rd = Rd /\ m.rd = 0
     \/ f.rs2 = CRs2 /\ m.op = "add" /\ m.rs2 = 0
     \/ m.op = "jalr" /\ m.rs1 = 0
=============================================================================
