------------------------------- MODULE Words -------------------------------
(***************************************************************************)
(* Fixed-width numbers and bytes of memory, at a width that is a           *)
(* parameter: a byte has Unit bits, so that a 64-bit register has 8 * Unit *)
(* and a 32-bit word 4 * Unit.  The code has Unit = 8.                     *)
(***************************************************************************)
EXTENDS Integers

CONSTANT Unit

ASSUME UnitAssumption == Unit \in Nat \ {0}

XLEN == 8 * Unit
W == 4 * Unit

Reg == 0 .. (2^XLEN - 1)
Byte == 0 .. (2^Unit - 1)

(* The low n bits of v, as an unsigned and as a signed number *)
Low(v, n) == v % 2^n
Signed(v, n) == LET u == v % 2^n IN IF u < 2^(n - 1) THEN u ELSE u - 2^n

(* What a register holds after the number v is written to it *)
ToReg(v) == v % 2^XLEN

Truth(b) == IF b THEN 1 ELSE 0

(* Division rounds to zero, the remainder has the sign of the dividend. *)
Quot(a, b) ==
  LET m == (IF a < 0 THEN -a ELSE a) \div (IF b < 0 THEN -b ELSE b)
  IN  IF (a < 0) = (b < 0) THEN m ELSE -m
Rest(a, b) == a - b * Quot(a, b)

(* Bits of a register, and C++'s operators on them *)
BitsOf(v) == {k \in 0 .. (XLEN - 1) : (v \div 2^k) % 2 = 1}
NumOf(bits) ==
  LET upto[k \in 0 .. XLEN] ==
        IF k = 0 THEN 0 ELSE upto[k - 1] + (IF k - 1 \in bits THEN 2^(k - 1) ELSE 0)
  IN  upto[XLEN]
Xor(a, b) == NumOf((BitsOf(a) \cup BitsOf(b)) \ (BitsOf(a) \cap BitsOf(b)))
Or(a, b) == NumOf(BitsOf(a) \cup BitsOf(b))
And(a, b) == NumOf(BitsOf(a) \cap BitsOf(b))

(* The n bits of memory from addr on, at most eight bytes, least significant
   byte first *)
Bytes(addr, n) == addr .. (addr + n \div Unit - 1)
LoadFrom(mem, addr, n) ==
  LET Part(k) == IF k < n \div Unit THEN mem[addr + k] * 2^(Unit * k) ELSE 0
  IN  Part(0) + Part(1) + Part(2) + Part(3) + Part(4) + Part(5) + Part(6) + Part(7)
StoreTo(mem, addr, v, n) ==
  [a \in DOMAIN mem |->
     IF a \in Bytes(addr, n) THEN (v \div 2^(Unit * (a - addr))) % 2^Unit ELSE mem[a]]
=============================================================================
