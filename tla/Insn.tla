-------------------------------- MODULE Insn --------------------------------
(***************************************************************************)
(* The integer, branch, load, store, atomic and compressed instructions as *)
(* the handlers in instructions/ execute them, between Cpu::_loop, which   *)
(* clears x0 before each fetch, and Cpu::loop, which adds the size to pc.  *)
(*                                                                         *)
(* An access may page fault: the handler goes on with the 0 that the load  *)
(* returns, or stops where it checks, and the guest's kernel maps the page *)
(* and restarts the instruction with the registers it was left with.       *)
(*                                                                         *)
(* Undefined behaviour.  A shift by the width of its operand or more takes *)
(* the count modulo the width, as both hosts' shift instructions do.  The  *)
(* host divisions of C++ that have no result (Undefined) are left out:     *)
(* they kill the emulator on x86-64 and give the dividend on AArch64.      *)
(***************************************************************************)
EXTENDS Words

CONSTANTS
  Insns, None,   \* as in Isa
  Careful,       \* programs keep to instructions the emulator gets right
  InitRegs,      \* contents of x1 and x2 when the program starts
  InitPcs, InitMems,
  MaxInsns,      \* length of the program
  MaxFaults      \* page faults it meets

VARIABLES
  regs, pc, mem,   \* Cpu::regs, Cpu::pc, the RAM
  insn,            \* the instruction being executed or restarted
  before,          \* the registers when it was issued
  issued, faults   \* counts, bounded by MaxInsns and MaxFaults

vars == <<regs, pc, mem, insn, before, issued, faults>>

Regs == {0, 1, 2}   \* x0, ra and sp, which stand for all

LowOps == {"add", "mul", "sub", "sll", "mulh", "slt", "mulhsu", "sltu", "mulhu"}
HighOps == {"xor", "div", "srl", "divu", "sra", "or", "rem", "and", "remu"}
WordOps == {"add", "mul", "sub", "div", "sll", "srl", "divu", "sra", "rem", "remu"}
ShiftOps == {"sll", "srl", "sra"}
BranchOps == {"eq", "ne", "lt", "ge", "ltu", "geu"}
AmoOps == {"add", "swap", "xor", "or", "and", "min", "max", "minu", "maxu"}

(* The instructions there are, as the decoder hands them to the handlers.  A
   compressed one reads the register it writes, or none. *)
OpForm(i) ==
  \/ i.size = 4 /\ i.n = XLEN /\ i.op \in LowOps \cup HighOps
  \/ i.size = 4 /\ i.n = W /\ i.op \in WordOps
  \/ i.size = 2 /\ i.n = XLEN /\ i.op \in {"sub", "xor", "or", "and", "add"} /\ i.rs1 = i.rd
  \/ i.size = 2 /\ i.n = XLEN /\ i.op = "add" /\ i.rs1 = 0
  \/ i.size = 2 /\ i.n = W /\ i.op \in {"sub", "add"} /\ i.rs1 = i.rd
ImmForm(i) ==
  \/ i.size = 4 /\ i.n = XLEN /\ i.op \in {"add", "slt", "sltu", "xor", "or", "and"}
  \/ i.size = 4 /\ i.n = W /\ i.op = "add"
  \/ i.size = 4 /\ i.n \in {W, XLEN} /\ i.op \in ShiftOps /\ i.imm < i.n
  \/ i.size = 2 /\ i.n = XLEN /\ i.op \in {"add", "and"}
  \/ i.size = 2 /\ i.n = XLEN /\ i.op \in ShiftOps /\ i.imm < i.n
  \/ i.size = 2 /\ i.n = W /\ i.op = "add" /\ i.rs1 = i.rd
BranchForm(i) == \/ i.size = 4 /\ i.op \in BranchOps
                 \/ i.size = 2 /\ i.op \in {"eq", "ne"} /\ i.rs2 = 0
AccessForm(i) == \/ i.size = 4 /\ i.n \in {Unit, 2 * Unit, W, XLEN}
                 \/ i.size = 2 /\ i.n \in {W, XLEN}
Encodable(i) ==
  /\ i.rd \in Regs /\ i.rs1 \in Regs /\ i.rs2 \in Regs /\ i.imm \in Reg
  /\ \/ i.kind = "op" /\ OpForm(i)
     \/ i.kind = "opimm" /\ ImmForm(i)
     \/ i.kind \in {"lui", "auipc"} /\ i.size \in {2, 4}
     \/ i.kind = "branch" /\ BranchForm(i)
     \/ i.kind = "jal" /\ (i.size = 4 \/ (i.size = 2 /\ i.rd = 0))
     \/ i.kind = "jalr" /\ (i.size = 4 \/ (i.size = 2 /\ i.rd \in {0, 1} /\ i.imm = 0))
     \/ i.kind = "load" /\ AccessForm(i)
          /\ (i.op = "signed" \/ (i.op = "unsigned" /\ i.size = 4 /\ i.n # XLEN))
     \/ i.kind = "store" /\ AccessForm(i)
     \/ i.kind = "amo" /\ i.size = 4 /\ i.n \in {W, XLEN} /\ i.imm = 0 /\ i.op \in AmoOps

ASSUME InsnAssumption ==
  /\ Careful \in BOOLEAN
  /\ InitRegs \subseteq Reg /\ InitPcs \subseteq Reg
  /\ \A m \in InitMems : m \in [DOMAIN m -> Byte]
  /\ \A i \in Insns : Encodable(i)
  /\ None \notin Insns
  /\ MaxInsns \in Nat /\ MaxFaults \in Nat

(* A program starts between two instructions of another: x0 holds what the
   last one that names it has written. *)
Init ==
  /\ \E x0 \in {0, 5}, g \in [Regs \ {0} -> InitRegs] :
       regs = [r \in Regs |-> IF r = 0 THEN x0 ELSE g[r]]
  /\ pc \in InitPcs
  /\ mem \in InitMems
  /\ insn = None
  /\ before = regs
  /\ issued = 0 /\ faults = 0

(* The registers after _loop has cleared x0 *)
live == [regs EXCEPT ![0] = 0]

-----------------------------------------------------------------------------
(* Results.  Handlers read int64_t or uint64_t; a number wraps when the
   register is written. *)

S64(v) == Signed(v, XLEN)
IntMin(n) == -(2^(n - 1))

(* rtype::add to mulhu, funct3 0 to 3 *)
RTypeLow(op, a, b) ==
  CASE op = "add" -> S64(a) + S64(b)
    [] op = "mul" -> S64(a) * S64(b)
    [] op = "sub" -> S64(a) - S64(b)
    [] op = "sll" -> a * 2^(b % XLEN)
    [] op = "mulh" -> (S64(a) * S64(b)) \div 2^XLEN
    [] op = "slt" -> Truth(S64(a) < S64(b))
    [] op = "mulhsu" ->   \* both operands as __uint128_t
         (((S64(a) % 2^(2 * XLEN)) * b) % 2^(2 * XLEN)) \div 2^XLEN
    [] op = "sltu" -> Truth(a < b)
    [] op = "mulhu" -> (a * b) \div 2^XLEN

(* rtype::xor_ to remu, funct3 4 to 7.  div tests for the least int32_t, sra
   reads its operand as an int32_t. *)
RTypeHigh(op, a, b) ==
  CASE op = "xor" -> Xor(a, b)
    [] op = "div" -> IF b = 0 THEN 2^XLEN - 1
                     ELSE IF S64(a) = IntMin(W) /\ S64(b) = -1 THEN a
                     ELSE Quot(S64(a), S64(b))
    [] op = "srl" -> a \div 2^(b % XLEN)
    [] op = "divu" -> IF b = 0 THEN 2^XLEN - 1 ELSE a \div b
    [] op = "sra" -> Signed(a, W) \div 2^(b % W)
    [] op = "or" -> Or(a, b)
    [] op = "rem" -> IF b = 0 THEN a
                     ELSE IF S64(a) = IntMin(XLEN) /\ S64(b) = -1 THEN 0
                     ELSE Rest(S64(a), S64(b))
    [] op = "and" -> And(a, b)
    [] op = "remu" -> IF b = 0 THEN a ELSE a % b

(* r64::addw to remuw.  remw keeps 64 bits of its divisor, remuw of both. *)
R64(op, a, b) ==
  LET a32 == Signed(a, W)  b32 == Signed(b, W) IN
  CASE op = "add" -> Signed(a + b, W)
    [] op = "mul" -> Signed(a * b, W)
    [] op = "sub" -> Signed(a - b, W)
    [] op = "div" -> IF b32 = 0 THEN 2^XLEN - 1
                     ELSE IF a32 = IntMin(W) /\ b32 = -1 THEN a32
                     ELSE Quot(a32, b32)
    [] op = "sll" -> Signed(a * 2^(b % W), W)
    [] op = "srl" -> Signed(Low(a, W) \div 2^(b % W), W)
    [] op = "divu" -> IF b32 = 0 THEN 2^XLEN - 1 ELSE Signed(Low(a, W) \div Low(b, W), W)
    [] op = "sra" -> a32 \div 2^(b % W)
    [] op = "rem" -> Signed(Rest(a32, S64(b)), W)
    [] op = "remu" -> a % b

(* itype.  srai shifts by the whole immediate, whose bit 10 says srai. *)
IType(op, a, imm) ==
  CASE op = "add" -> a + imm
    [] op = "sll" -> a * 2^imm
    [] op = "slt" -> Truth(S64(a) < S64(imm))
    [] op = "sltu" -> Truth(a < imm)
    [] op = "xor" -> Xor(a, imm)
    [] op = "or" -> Or(a, imm)
    [] op = "and" -> And(a, imm)
    [] op = "srl" -> a \div 2^imm
    [] op = "sra" -> S64(a) \div 2^((16 * XLEN + imm) % XLEN)

(* i64 *)
I64(op, a, imm) ==
  CASE op = "add" -> Signed(a + imm, W)
    [] op = "sll" -> Signed(a * 2^imm, W)
    [] op = "srl" -> Signed(Low(a, W) \div 2^imm, W)
    [] op = "sra" -> Signed(a, W) \div 2^imm

(* btype *)
BType(op, a, b) ==
  CASE op = "eq" -> S64(a) = S64(b)
    [] op = "ne" -> S64(a) # S64(b)
    [] op = "lt" -> S64(a) < S64(b)
    [] op = "ge" -> S64(a) >= S64(b)
    [] op = "ltu" -> a < b
    [] op = "geu" -> a >= b

(* ctype::addi4spn, addi to andi: rd is the register they read, or sp, and
   li reads none. *)
CImm(i) ==
  LET a == live[i.rs1] IN
  CASE i.op = "add" /\ i.n = W -> Signed(live[i.rd] + i.imm, W)
    [] i.op = "add" /\ i.n = XLEN -> IF i.rs1 = 0 THEN i.imm ELSE a + i.imm
    [] i.op = "sll" -> a * 2^i.imm
    [] i.op = "srl" -> a \div 2^i.imm
    [] i.op = "sra" -> S64(a) \div 2^i.imm
    [] i.op = "and" -> And(a, i.imm)

(* ctype::sub to addw, mv and add *)
CReg(i) ==
  LET a == live[i.rd]  b == live[i.rs2] IN
  CASE i.op = "sub" -> IF i.n = W THEN Signed(a - b, W) ELSE a - b
    [] i.op = "xor" -> Xor(a, b)
    [] i.op = "or" -> Or(a, b)
    [] i.op = "and" -> And(a, b)
    [] i.op = "add" -> IF i.n = W THEN Signed(a + b, W)
                       ELSE IF i.rs1 = 0 THEN b ELSE a + b

RegValue(i) ==
  LET a == live[i.rs1]  b == live[i.rs2] IN
  CASE i.size = 2 -> CReg(i)
    [] i.size = 4 /\ i.n = W -> R64(i.op, a, b)
    [] i.size = 4 /\ i.n = XLEN ->
         IF i.op \in LowOps THEN RTypeLow(i.op, a, b) ELSE RTypeHigh(i.op, a, b)

ImmValue(i) ==
  CASE i.size = 2 -> CImm(i)
    [] i.size = 4 /\ i.n = W -> I64(i.op, live[i.rs1], i.imm)
    [] i.size = 4 /\ i.n = XLEN -> IType(i.op, live[i.rs1], i.imm)

(* amo*.w and amo*.d, whose amotarget_t has n bits *)
AmoValue(op, old, val, n) ==
  LET s1 == Signed(old, n)  u1 == Low(old, n)
      s2 == Signed(val, n)  u2 == Low(val, n)
  IN CASE op = "add" -> s1 + s2
       [] op = "swap" -> s2
       [] op = "xor" -> Xor(u1, u2)
       [] op = "or" -> Or(u1, u2)
       [] op = "and" -> And(u1, u2)
       [] op = "min" -> IF s2 < s1 THEN s2 ELSE s1
       [] op = "max" -> IF s1 < s2 THEN s2 ELSE s1
       [] op = "minu" -> IF u2 < u1 THEN u2 ELSE u1
       [] op = "maxu" -> IF u1 < u2 THEN u2 ELSE u1

AmoW(op, old, val) == AmoValue(op, old, val, W)
AmoD(op, old, val) == AmoValue(op, old, val, XLEN)

Address(i) == ToReg(live[i.rs1] + i.imm)
Loaded(i) == LoadFrom(mem, Address(i), i.n)

(* amow and amod raise an exception and go on: the access fails at once. *)
Misaligned(i) == i.kind = "amo" /\ (live[i.rs1] * Unit) % i.n # 0

-----------------------------------------------------------------------------
(* Programs *)

(* The access is to the RAM, and within it. *)
Fits(i) ==
  i.kind \in {"load", "store", "amo"} => Bytes(Address(i), i.n) \subseteq DOMAIN mem

(* The C++ division has no result. *)
Undefined(i) ==
  LET a == live[i.rs1]  b == live[i.rs2] IN
  /\ i.kind = "op" /\ i.size = 4
  /\ \/ i.op = "div" /\ i.n = XLEN /\ S64(a) = IntMin(XLEN) /\ S64(b) = -1
     \/ i.op \in {"rem", "remu"} /\ i.n = W /\ b = 0

(* Operands on which the handler of i computes what the architecture says *)
Exact(i) ==
  LET a == live[i.rs1]  b == live[i.rs2] IN
  /\ i.kind = "op" /\ i.size = 4 =>
       /\ i.op = "div" /\ i.n = XLEN => S64(a) # IntMin(W) \/ S64(b) # -1
       /\ i.op = "sra" /\ i.n = XLEN => S64(a) = Signed(a, W) /\ b % XLEN < W
       /\ i.op = "rem" /\ i.n = W => S64(b) = Signed(b, W)
       /\ i.op = "remu" /\ i.n = W => a < 2^(W - 1) /\ b < 2^W
  /\ i.kind = "jalr" /\ i.size = 2 => a % 2 = 0 /\ i.rs1 # 0
  /\ Misaligned(i) => i.rd = 0

(* A restart would read what the first attempt has written. *)
Clobbers(i) ==
  /\ i.kind = "amo" \/ (i.kind = "load" /\ i.size = 2)
  /\ i.rd # 0 /\ i.rd \in {i.rs1, i.rs2}

Issue ==
  /\ insn = None /\ issued < MaxInsns
  /\ \E i \in Insns :
       /\ Fits(i) /\ ~ Undefined(i)
       /\ Careful => Exact(i)
       /\ insn' = i
  /\ before' = live
  /\ issued' = issued + 1
  /\ UNCHANGED <<regs, pc, mem, faults>>

-----------------------------------------------------------------------------
(* Execution *)

Done == insn' = None /\ UNCHANGED <<before, issued, faults>>

(* mutant: the result is not cut to the width of the register *)
PutWide(r, v) == regs' = [live EXCEPT ![r] = v]

Put(r, v) == regs' = [live EXCEPT ![r] = ToReg(v)]

(* The handler moves pc by offset, Cpu::loop by the size. *)
Move(offset) == pc' = ToReg(pc + offset + insn.size)

Compute ==
  /\ insn # None /\ insn.kind \in {"op", "opimm"}
  /\ Put(insn.rd, IF insn.kind = "op" THEN RegValue(insn) ELSE ImmValue(insn))
  /\ Move(0) /\ Done
  /\ UNCHANGED mem

(* lui, auipc and ctype::lui *)
Upper ==
  /\ insn # None /\ insn.kind \in {"lui", "auipc"}
  /\ Put(insn.rd, IF insn.kind = "lui" THEN insn.imm ELSE pc + insn.imm)
  /\ Move(0) /\ Done
  /\ UNCHANGED mem

Branch ==
  /\ insn # None /\ insn.kind = "branch" /\ insn.size = 4
  /\ LET taken == BType(insn.op, live[insn.rs1], live[insn.rs2])
     IN Move(IF taken THEN insn.imm - 4 ELSE 0)
  /\ regs' = live /\ Done
  /\ UNCHANGED mem

(* ctype::beqz and bnez *)
CBranch ==
  /\ insn # None /\ insn.kind = "branch" /\ insn.size = 2
  /\ LET taken == (live[insn.rs1] = 0) = (insn.op = "eq")
     IN Move(IF taken THEN insn.imm - 2 ELSE 0)
  /\ regs' = live /\ Done
  /\ UNCHANGED mem

Jal ==
  /\ insn # None /\ insn.kind = "jal" /\ insn.size = 4
  /\ Put(insn.rd, pc + 4)
  /\ Move(insn.imm - 4) /\ Done
  /\ UNCHANGED mem

(* ctype::j *)
CJ ==
  /\ insn # None /\ insn.kind = "jal" /\ insn.size = 2
  /\ Move(insn.imm - 2)
  /\ regs' = live /\ Done
  /\ UNCHANGED mem

(* mutant: the link is written before the target is read *)
JalrLinksFirst ==
  /\ insn # None /\ insn.kind = "jalr" /\ insn.size = 4
  /\ Put(insn.rd, pc + 4)
  /\ LET t == ToReg(regs'[insn.rs1] + insn.imm) IN pc' = t - (t % 2)
  /\ Done
  /\ UNCHANGED mem

Jalr ==
  /\ insn # None /\ insn.kind = "jalr" /\ insn.size = 4
  /\ Put(insn.rd, pc + 4)
  /\ LET t == ToReg(live[insn.rs1] + insn.imm) IN pc' = t - (t % 2)
  /\ Done
  /\ UNCHANGED mem

(* ctype::jr and jalr, which C.EBREAK reaches too: bit 0 stays *)
CJalr ==
  /\ insn # None /\ insn.kind = "jalr" /\ insn.size = 2
  /\ IF insn.rd = 0 THEN regs' = live ELSE Put(1, pc + 2)
  /\ pc' = live[insn.rs1]
  /\ Done
  /\ UNCHANGED mem

Load ==
  /\ insn # None /\ insn.kind = "load"
  /\ Put(insn.rd, IF insn.op = "unsigned" THEN Loaded(insn) ELSE Signed(Loaded(insn), insn.n))
  /\ Move(0) /\ Done
  /\ UNCHANGED mem

Store ==
  /\ insn # None /\ insn.kind = "store"
  /\ mem' = StoreTo(mem, Address(insn), live[insn.rs2], insn.n)
  /\ regs' = live
  /\ Move(0) /\ Done

(* amoaddw to amomaxud *)
Amo ==
  /\ insn # None /\ insn.kind = "amo" /\ ~ Misaligned(insn)
  /\ LET old == Loaded(insn)
         val == live[insn.rs2]
     IN /\ mem' = StoreTo(mem, Address(insn),
                          IF insn.n = W THEN AmoW(insn.op, old, val) ELSE AmoD(insn.op, old, val),
                          insn.n)
        /\ Put(insn.rd, Signed(old, insn.n))
  /\ Move(0) /\ Done

(* The exception goes to the program, and rd gets the 0 of the failed load. *)
AmoMisaligned ==
  /\ insn # None /\ Misaligned(insn)
  /\ Put(insn.rd, 0)
  /\ Done
  /\ UNCHANGED <<pc, mem>>

(* The load, or the store of an atomic access whose load went through, page
   faults.  Only the full-size loads look at exc_val before they write rd. *)
Fault ==
  /\ insn # None /\ insn.kind \in {"load", "store", "amo"}
  /\ faults < MaxFaults /\ faults' = faults + 1
  /\ Careful => ~ Clobbers(insn)
  /\ CASE insn.kind = "load" /\ insn.size = 2 -> Put(insn.rd, 0)
       [] insn.kind = "amo" ->
            \/ Put(insn.rd, 0)
            \/ ~ Misaligned(insn) /\ Put(insn.rd, Signed(Loaded(insn), insn.n))
       [] OTHER -> regs' = live
  /\ UNCHANGED <<pc, mem, insn, before, issued>>

Next ==
  \/ Issue
  \/ Compute \/ Upper
  \/ Branch \/ CBranch \/ Jal \/ CJ \/ Jalr \/ CJalr
  \/ Load \/ Store \/ Amo \/ AmoMisaligned
  \/ Fault

Spec == Init /\ [][Next]_vars

-----------------------------------------------------------------------------
TypeOK ==
  /\ regs \in [Regs -> Reg] /\ before \in [Regs -> Reg]
  /\ pc \in Reg
  /\ mem \in [DOMAIN mem -> Byte]
  /\ insn \in Insns \cup {None}
  /\ issued \in 0 .. MaxInsns /\ faults \in 0 .. MaxFaults

(* README.md:24, "RV64IMAFDCSU fully implemented".  Each instruction happens
   once and as a whole, however often it faults and is restarted, with the
   result the architecture gives it (Cpu::_loop and the handlers).  Software
   sees the registers between instructions, where x0 is 0. *)
Arch == INSTANCE Isa WITH regs <- IF insn = None THEN live ELSE before

ArchSpec == Arch!Spec
=============================================================================
