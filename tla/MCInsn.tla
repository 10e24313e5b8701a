------------------------------- MODULE MCInsn -------------------------------
(* Every form of integer, branch, memory and compressed instruction, with   *)
(* operands x1 and x2 and any destination, one at a time.                   *)
EXTENDS Insn, TLC

Form(kind, ops, ns, rds, rs1s, rs2s, imms, size) ==
  [kind : {kind}, op : ops, n : ns, rd : rds, rs1 : rs1s, rs2 : rs2s, imm : imms, size : {size}]

Two == {i \in Form("op", {"sub", "xor", "or", "and", "add"}, {XLEN, W}, {1}, {1}, {2}, {0}, 2) :
          i.n = XLEN \/ i.op \in {"sub", "add"}}

Small == {0, 3, 2^XLEN - 2}
Shifts(n) == {1, n - 1}
Near == {4, 2^XLEN - 4}
NoOp == {"none"}
Sizes == {Unit, 2 * Unit, W}

Full ==
  Form("op", LowOps \cup HighOps, {XLEN}, Regs, {1}, {2}, {0}, 4)
  \cup Form("op", {"add", "mul", "sub", "div", "sll", "srl", "divu", "sra", "rem", "remu"},
            {W}, Regs, {1}, {2}, {0}, 4)
  \cup Form("opimm", {"add", "slt", "sltu", "xor", "or", "and"}, {XLEN}, Regs, {1}, {0}, Small, 4)
  \cup Form("opimm", {"add"}, {W}, Regs, {1}, {0}, Small, 4)
  \cup UNION {Form("opimm", ShiftOps, {n}, Regs, {1}, {0}, Shifts(n), 4) : n \in {XLEN, W}}
  \cup Form("branch", BranchOps, {XLEN}, {0}, {1}, {2}, Near, 4)
  \cup Form("lui", NoOp, {XLEN}, Regs, {0}, {0}, Near, 4)
  \cup Form("auipc", NoOp, {XLEN}, Regs, {0}, {0}, Near, 4)
  \cup Form("jal", NoOp, {XLEN}, Regs, {0}, {0}, Near, 4)
  \cup Form("jalr", NoOp, {XLEN}, Regs, {0, 1}, {0}, Small, 4)
  \cup Form("load", {"signed", "unsigned"}, Sizes, Regs, {0, 1}, {0}, Small, 4)
  \cup Form("load", {"signed"}, {XLEN}, Regs, {1}, {0}, Small, 4)
  \cup Form("store", NoOp, Sizes \cup {XLEN}, {0}, {1}, {0, 2}, Small, 4)

Atomic == Form("amo", AmoOps, {W, XLEN}, Regs, {1}, {2}, {0}, 4)

CLoads == Form("load", {"signed"}, {W, XLEN}, {1, 2}, {1, 2}, {0}, {0, W}, 2)

Short ==
  Two
  \cup Form("op", {"add"}, {XLEN}, {1}, {0}, {2}, {0}, 2)                    \* mv
  \cup Form("opimm", {"add"}, {XLEN}, {1}, {0, 1, 2}, {0}, Small, 2)         \* li, addi, addi4spn
  \cup Form("opimm", {"add"}, {W}, {1}, {1}, {0}, Small, 2)
  \cup Form("opimm", {"add"}, {XLEN}, {2}, {2}, {0}, {2 * W}, 2)             \* addi16sp
  \cup Form("opimm", {"and"}, {XLEN}, {1}, {1}, {0}, Small, 2)
  \cup Form("opimm", ShiftOps, {XLEN}, {1}, {1}, {0}, Shifts(XLEN), 2)
  \cup Form("lui", NoOp, {XLEN}, {1}, {0}, {0}, Near, 2)
  \cup Form("branch", {"eq", "ne"}, {XLEN}, {0}, {1}, {0}, Near, 2)
  \cup Form("jal", NoOp, {XLEN}, {0}, {0}, {0}, Near, 2)
  \cup Form("jalr", NoOp, {XLEN}, {0, 1}, {1, 2}, {0}, {0}, 2)
  \cup Form("jalr", NoOp, {XLEN}, {1}, {0}, {0}, {0}, 2)                     \* ebreak
  \cup Form("store", NoOp, {W, XLEN}, {0}, {1, 2}, {2}, {0, W}, 2)

MCInsns == Full \cup Atomic \cup CLoads \cup Short

(* Around 0, the ends of a word and the ends of a register, and some between *)
MCRegs ==
  UNION {{ToReg(e - 1), e, e + 1} : e \in {2^(W - 1), 2^W, 2^(XLEN - 1)}}
  \cup {0, 1, 2, 4, 6, 12, 37, 90, 171, 2^XLEN - 2^(W - 1), 2^XLEN - 3, 2^XLEN - 1}
MCPcs == {2^XLEN - 2}
MCMems == {[a \in 0 .. 15 |-> (a \div 2) % 2], [a \in 0 .. 15 |-> 1]}
=============================================================================
