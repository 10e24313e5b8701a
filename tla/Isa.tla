-------------------------------- MODULE Isa --------------------------------
(***************************************************************************)
(* What an integer instruction of RV64IMAC promises to the program that    *)
(* issues it: it happens once and as a whole, or raises an exception and   *)
(* changes nothing.  A 32-bit form computes what the 64-bit form does at   *)
(* its own width and sign-extends; a compressed form does what the         *)
(* full-size instruction it abbreviates does, and is two bytes long.       *)
(*                                                                         *)
(* An instruction is a record [kind, op, n, rd, rs1, rs2, imm, size]: n is *)
(* the width of the operation or of the access in bits, imm the decoded    *)
(* immediate as a register holds it, size 2 or 4.                          *)
(***************************************************************************)
EXTENDS Words

CONSTANT
  Insns,   \* instructions of programs
  None     \* no instruction is in flight

VARIABLES
  regs, pc, mem,   \* regs[0] is the constant 0
  insn             \* the instruction in flight

vars == <<regs, pc, mem, insn>>

Alu(op, a, b, n) ==
  LET sa == Signed(a, n)  ua == Low(a, n)
      sb == Signed(b, n)  ub == Low(b, n)
      sh == b % n
  IN ToReg(Signed(
       CASE op = "add" -> sa + sb
         [] op = "sub" -> sa - sb
         [] op = "sll" -> ua * 2^sh
         [] op = "srl" -> ua \div 2^sh
         [] op = "sra" -> sa \div 2^sh
         [] op = "slt" -> Truth(sa < sb)
         [] op = "sltu" -> Truth(ua < ub)
         [] op = "xor" -> Xor(ua, ub)
         [] op = "or" -> Or(ua, ub)
         [] op = "and" -> And(ua, ub)
         [] op = "mul" -> sa * sb
         [] op = "mulh" -> (sa * sb) \div 2^n
         [] op = "mulhsu" -> (sa * ub) \div 2^n
         [] op = "mulhu" -> (ua * ub) \div 2^n
         [] op = "div" -> IF sb = 0 THEN -1 ELSE Quot(sa, sb)
         [] op = "divu" -> IF ub = 0 THEN -1 ELSE ua \div ub
         [] op = "rem" -> IF sb = 0 THEN sa ELSE Rest(sa, sb)
         [] op = "remu" -> IF ub = 0 THEN ua ELSE ua % ub
         [] op = "swap" -> sb
         [] op = "min" -> IF sa < sb THEN sa ELSE sb
         [] op = "max" -> IF sa < sb THEN sb ELSE sa
         [] op = "minu" -> IF ua < ub THEN ua ELSE ub
         [] op = "maxu" -> IF ua < ub THEN ub ELSE ua, n))

Taken(op, a, b) ==
  LET sa == Signed(a, XLEN)  sb == Signed(b, XLEN)
  IN CASE op = "eq" -> a = b
       [] op = "ne" -> a # b
       [] op = "lt" -> sa < sb
       [] op = "ge" -> sa >= sb
       [] op = "ltu" -> a < b
       [] op = "geu" -> a >= b

(* What instruction i finds in its operands and at its address *)
Rs1(i) == regs[i.rs1]
Rs2(i) == regs[i.rs2]
Old(i) == LoadFrom(mem, ToReg(Rs1(i) + i.imm), i.n)

(* What i leaves in rd, in the pc and in memory *)
Result(i) ==
  CASE i.kind = "op" -> Alu(i.op, Rs1(i), Rs2(i), i.n)
    [] i.kind = "opimm" -> Alu(i.op, Rs1(i), i.imm, i.n)
    [] i.kind = "lui" -> i.imm
    [] i.kind = "auipc" -> ToReg(pc + i.imm)
    [] i.kind \in {"jal", "jalr"} -> ToReg(pc + i.size)
    [] i.kind = "load" -> IF i.op = "unsigned" THEN Old(i) ELSE ToReg(Signed(Old(i), i.n))
    [] i.kind = "amo" -> ToReg(Signed(Old(i), i.n))

Target(i) ==
  CASE i.kind = "jal" \/ (i.kind = "branch" /\ Taken(i.op, Rs1(i), Rs2(i))) -> ToReg(pc + i.imm)
    [] i.kind = "jalr" -> LET t == ToReg(Rs1(i) + i.imm) IN t - (t % 2)
    [] OTHER -> ToReg(pc + i.size)

Memory(i) ==
  CASE i.kind = "store" -> StoreTo(mem, ToReg(Rs1(i) + i.imm), Rs2(i), i.n)
    [] i.kind = "amo" -> StoreTo(mem, Rs1(i), Alu(i.op, Old(i), Rs2(i), i.n), i.n)
    [] OTHER -> mem

(* C.JALR of x0 is C.EBREAK; an atomic access must be aligned. *)
Raises(i) ==
  \/ i.kind = "jalr" /\ i.size = 2 /\ i.rs1 = 0
  \/ i.kind = "amo" /\ (Rs1(i) * Unit) % i.n # 0

Init ==
  /\ regs \in [{0, 1, 2} -> Reg] /\ regs[0] = 0
  /\ pc \in Reg
  /\ insn = None

Issue ==
  /\ insn = None
  /\ insn' \in Insns
  /\ UNCHANGED <<regs, pc, mem>>

Execute ==
  /\ insn # None /\ insn' = None
  /\ ~ Raises(insn)
  /\ regs' = IF insn.kind \in {"branch", "store"} \/ insn.rd = 0
             THEN regs
             ELSE [regs EXCEPT ![insn.rd] = Result(insn)]
  /\ pc' = Target(insn)
  /\ mem' = Memory(insn)

Raise ==
  /\ insn # None /\ insn' = None
  /\ Raises(insn)
  /\ UNCHANGED <<regs, pc, mem>>

Next == Issue \/ Execute \/ Raise

Spec == Init /\ [][Next]_vars
=============================================================================
