----------------------------- MODULE InsnProofs -----------------------------
(***************************************************************************)
(* The handlers of integer, branch, load, store, atomic and compressed     *)
(* instructions do what the architecture says, at every width and so at    *)
(* the code's 64 bits: Insn implements Isa for careful programs.           *)
(*                                                                         *)
(* The argument: a handler and the architecture compute numbers that are   *)
(* congruent modulo 2^XLEN, or modulo the width they sign-extend from, so  *)
(* that the register holds the same (LowRows to BranchRows).  In between,  *)
(* a fault may have written rd and nothing else, and never an operand of   *)
(* the restart (Agrees).                                                   *)
(***************************************************************************)
EXTENDS Insn, FiniteSetTheorems, FunctionTheorems, WellFoundedInduction, TLAPS

(* Numbers modulo a power of two *)

(* Congruence *)
Cong(x, y, n) == \E k \in Int : x = y + k * n

(* Division with remainder, as the code and the architecture use it *)
LEMMA DivMod ==
  ASSUME NEW x \in Int, NEW n \in Nat \ {0}
  PROVE  x \div n \in Int /\ x % n \in 0 .. (n - 1) /\ x = (x \div n) * n + (x % n)
<1> DEFINE q == x \div n
<1>1. q \in Int /\ q * n <= x /\ x < q * n + n
  OBVIOUS
<1>2. x % n = x - q * n
  OBVIOUS
<1> QED  BY <1>1, <1>2

(* Products, for leaves that must not see the factors *)
LEMMA ProductInt == ASSUME NEW a \in Int, NEW b \in Int PROVE a * b \in Int
OBVIOUS

LEMMA ProductNat == ASSUME NEW a \in Nat, NEW b \in Nat PROVE a * b \in Nat
OBVIOUS

LEMMA ProductPositive == ASSUME NEW a \in Nat \ {0}, NEW b \in Nat \ {0} PROVE a * b \in Nat \ {0}
OBVIOUS

(* Two numbers between 0 and n that differ by a multiple of n are equal. *)
LEMMA SmallMultiple ==
  ASSUME NEW k \in Int, NEW n \in Nat \ {0}, NEW d \in Int, d = k * n, d < n, d > -n
  PROVE  k = 0
<1>1. k >= 1 => k * n >= n
  OBVIOUS
<1>2. k <= -1 => k * n <= -n
  OBVIOUS
<1> QED  BY <1>1, <1>2

(* The quotient and the remainder are the only ones. *)
LEMMA DivModIs ==
  ASSUME NEW x \in Int, NEW n \in Nat \ {0}, NEW q \in Int, NEW r \in 0 .. (n - 1), x = q * n + r
  PROVE  x \div n = q /\ x % n = r
<1> DEFINE p == x \div n
           s == x % n
<1>1. p \in Int /\ s \in 0 .. (n - 1) /\ x = p * n + s
  BY DivMod
<1> HIDE DEF p, s
<1>2. (p - q) * n = p * n - q * n
  BY <1>1
<1>3. (p - q) * n = r - s
  BY <1>1, <1>2, ProductInt
<1>4. p - q = 0
  BY <1>1, <1>3, SmallMultiple
<1>5. p = q
  BY <1>1, <1>4
<1> QED  BY <1>1, <1>5, ProductInt DEF p, s

(* Congruence modulo n is an equivalence that sums and products keep. *)
LEMMA CongSelf == ASSUME NEW x \in Int, NEW n \in Nat PROVE Cong(x, x, n)
<1>1. x = x + 0 * n
  OBVIOUS
<1> QED  BY <1>1 DEF Cong

LEMMA CongMod == ASSUME NEW x \in Int, NEW n \in Nat \ {0} PROVE Cong(x % n, x, n) /\ Cong(x, x % n, n)
<1> DEFINE p == x \div n
           s == x % n
<1>1. p \in Int /\ s \in 0 .. (n - 1) /\ x = p * n + s
  BY DivMod
<1> HIDE DEF p, s
<1>2. s = x + (-p) * n /\ -p \in Int /\ x = s + p * n
  BY <1>1
<1> QED  BY <1>1, <1>2 DEF Cong, s

LEMMA CongSym ==
  ASSUME NEW x \in Int, NEW y \in Int, NEW n \in Nat, Cong(x, y, n) PROVE Cong(y, x, n)
<1>1. PICK k \in Int : x = y + k * n
  BY DEF Cong
<1>2. y = x + (-k) * n /\ -k \in Int
  BY <1>1
<1> QED  BY <1>2 DEF Cong

LEMMA CongTrans ==
  ASSUME NEW x \in Int, NEW y \in Int, NEW z \in Int, NEW n \in Nat, Cong(x, y, n), Cong(y, z, n)
  PROVE  Cong(x, z, n)
<1>1. PICK k \in Int : x = y + k * n
  BY DEF Cong
<1>2. PICK j \in Int : y = z + j * n
  BY DEF Cong
<1>3. x = z + (k + j) * n /\ k + j \in Int
  BY <1>1, <1>2
<1> QED  BY <1>3 DEF Cong

LEMMA CongSum ==
  ASSUME NEW x \in Int, NEW y \in Int, NEW u \in Int, NEW v \in Int, NEW n \in Nat,
         Cong(x, u, n), Cong(y, v, n)
  PROVE  Cong(x + y, u + v, n) /\ Cong(x - y, u - v, n)
<1>1. PICK k \in Int : x = u + k * n
  BY DEF Cong
<1>2. PICK j \in Int : y = v + j * n
  BY DEF Cong
<1>3. x + y = (u + v) + (k + j) * n /\ k + j \in Int
  BY <1>1, <1>2
<1>4. x - y = (u - v) + (k - j) * n /\ k - j \in Int
  BY <1>1, <1>2
<1> QED  BY <1>3, <1>4 DEF Cong

LEMMA CongProduct ==
  ASSUME NEW x \in Int, NEW y \in Int, NEW u \in Int, NEW v \in Int, NEW n \in Nat,
         Cong(x, u, n), Cong(y, v, n)
  PROVE  Cong(x * y, u * v, n)
<1>1. PICK k \in Int : x = u + k * n
  BY DEF Cong
<1>2. PICK j \in Int : y = v + j * n
  BY DEF Cong
<1> DEFINE i == u * j + k * v + k * j * n
<1>3. x * y = u * v + i * n /\ i \in Int
  BY <1>1, <1>2
<1> QED  BY <1>3 DEF Cong

(* Numbers congruent modulo a product are congruent modulo its factor. *)
LEMMA CongFactor ==
  ASSUME NEW x \in Int, NEW y \in Int, NEW n \in Nat, NEW m \in Nat, Cong(x, y, n * m)
  PROVE  Cong(x, y, n)
<1>1. PICK k \in Int : x = y + k * (n * m)
  BY DEF Cong
<1>2. x = y + (k * m) * n /\ k * m \in Int
  BY <1>1
<1> QED  BY <1>2 DEF Cong

(* Congruent numbers have the same remainder. *)
LEMMA SameMod ==
  ASSUME NEW x \in Int, NEW y \in Int, NEW n \in Nat \ {0}, Cong(x, y, n) PROVE x % n = y % n
<1>1. PICK k \in Int : x = y + k * n
  BY DEF Cong
<1> DEFINE p == y \div n
           s == y % n
<1>2. p \in Int /\ s \in 0 .. (n - 1) /\ y = p * n + s
  BY DivMod
<1> HIDE DEF p, s
<1>3. x = (p + k) * n + s /\ p + k \in Int
  BY <1>1, <1>2
<1>4. x % n = s
  BY <1>2, <1>3, DivModIs
<1> QED  BY <1>4 DEF s

(* Division by n takes a multiple of n * m out as a multiple of m. *)
LEMMA CongQuotient ==
  ASSUME NEW x \in Int, NEW y \in Int, NEW n \in Nat \ {0}, NEW m \in Nat, Cong(x, y, n * m)
  PROVE  Cong(x \div n, y \div n, m)
<1>1. PICK k \in Int : x = y + k * (n * m)
  BY DEF Cong
<1> DEFINE p == y \div n
           s == y % n
<1>2. p \in Int /\ s \in 0 .. (n - 1) /\ y = p * n + s
  BY DivMod
<1> HIDE DEF p, s
<1>3. x = (p + k * m) * n + s /\ p + k * m \in Int
  BY <1>1, <1>2
<1>4. x \div n = p + k * m
  BY <1>2, <1>3, DivModIs
<1> QED  BY <1>4 DEF Cong, p

-----------------------------------------------------------------------------
(* Powers of two *)

(* 2^n counts the subsets of n places: that is what the library knows of it. *)
LEMMA PowerOfZero == 2^0 = 1
<1>1. IsFiniteSet({}) /\ Cardinality({}) = 0
  BY FS_EmptySet
<1>2. Cardinality(SUBSET {}) = 2^Cardinality({})
  BY <1>1, FS_SUBSET
<1>3. SUBSET {} = {{}}
  OBVIOUS
<1>4. Cardinality({{}}) = 1
  BY FS_Singleton
<1> QED  BY <1>1, <1>2, <1>3, <1>4

LEMMA PowerCounts ==
  ASSUME NEW S, IsFiniteSet(S)
  PROVE  IsFiniteSet(SUBSET S) /\ Cardinality(SUBSET S) = 2^Cardinality(S) /\ 2^Cardinality(S) \in Nat
<1>1. IsFiniteSet(SUBSET S) /\ Cardinality(SUBSET S) = 2^Cardinality(S)
  BY FS_SUBSET
<1>2. Cardinality(SUBSET S) \in Nat
  BY <1>1, FS_CardinalityType
<1> QED  BY <1>1, <1>2

LEMMA PowerOfOne == 2^1 = 2
<1>1. IsFiniteSet({0}) /\ Cardinality({0}) = 1
  BY FS_Singleton
<1>2. Cardinality(SUBSET {0}) = 2^1
  BY <1>1, PowerCounts
<1>3. SUBSET {0} = {{}} \cup {{0}}
  OBVIOUS
<1>4. IsFiniteSet({{}}) /\ Cardinality({{}}) = 1 /\ {0} \notin {{}}
  BY FS_Singleton
<1>5. Cardinality({{}} \cup {{0}}) = Cardinality({{}}) + 1
  BY <1>4, FS_AddElement
<1> QED  BY <1>2, <1>3, <1>4, <1>5

LEMMA IntervalCounts ==
  ASSUME NEW m \in Nat, NEW n \in Nat
  PROVE  IsFiniteSet((m + 1) .. (m + n)) /\ Cardinality((m + 1) .. (m + n)) = n
         /\ IsFiniteSet(1 .. m) /\ Cardinality(1 .. m) = m
         /\ IsFiniteSet(1 .. (m + n)) /\ Cardinality(1 .. (m + n)) = m + n
<1> DEFINE a == m + 1
           b == m + n
<1>1. a \in Int /\ b \in Int
  OBVIOUS
<1> HIDE DEF a, b
<1>2. /\ IsFiniteSet(a .. b) /\ Cardinality(a .. b) = IF a > b THEN 0 ELSE b - a + 1
      /\ IsFiniteSet(1 .. m) /\ Cardinality(1 .. m) = IF 1 > m THEN 0 ELSE m - 1 + 1
      /\ IsFiniteSet(1 .. b) /\ Cardinality(1 .. b) = IF 1 > b THEN 0 ELSE b - 1 + 1
  BY <1>1, FS_Interval
<1>3. (IF a > b THEN 0 ELSE b - a + 1) = n
  BY DEF a, b
<1>4. (IF 1 > b THEN 0 ELSE b - 1 + 1) = m + n
  BY DEF b
<1>5. (IF 1 > m THEN 0 ELSE m - 1 + 1) = m
  OBVIOUS
<1> QED  BY <1>2, <1>3, <1>4, <1>5 DEF a, b

(* A number of bits is a pair of subsets of places. *)
LEMMA PowerOfSum == ASSUME NEW m \in Nat, NEW n \in Nat PROVE 2^(m + n) = 2^m * 2^n
<1> DEFINE A == 1 .. m
           B == (m + 1) .. (m + n)
           C == 1 .. (m + n)
           f == [s \in SUBSET C |-> <<s \cap A, s \cap B>>]
<1>1. /\ IsFiniteSet(A) /\ Cardinality(A) = m
      /\ IsFiniteSet(B) /\ Cardinality(B) = n
      /\ IsFiniteSet(C) /\ Cardinality(C) = m + n
  BY IntervalCounts
<1>2. C = A \cup B /\ A \cap B = {}
  OBVIOUS
<1> HIDE DEF A, B, C
<1>3. f \in Bijection(SUBSET C, (SUBSET A) \X (SUBSET B))
  <2>1. f \in [SUBSET C -> (SUBSET A) \X (SUBSET B)]
    BY <1>2
  <2>2. \A s, t \in SUBSET C : f[s] = f[t] => s = t
    BY <1>2
  <2>3. \A p \in (SUBSET A) \X (SUBSET B) : \E s \in SUBSET C : f[s] = p
    <3> TAKE p \in (SUBSET A) \X (SUBSET B)
    <3>1. PICK x \in SUBSET A, y \in SUBSET B : p = <<x, y>>
      OBVIOUS
    <3>2. x \cup y \in SUBSET C /\ (x \cup y) \cap A = x /\ (x \cup y) \cap B = y
      BY <1>2
    <3> QED  BY <3>1, <3>2
  <2> HIDE DEF f
  <2> QED  BY <2>1, <2>2, <2>3, Fun_IsBij
<1>4. ExistsBijection(SUBSET C, (SUBSET A) \X (SUBSET B))
  BY <1>3 DEF ExistsBijection
<1>5. Cardinality(SUBSET C) = 2^(m + n) /\ IsFiniteSet(SUBSET C)
  BY <1>1, PowerCounts
<1>6. /\ Cardinality(SUBSET A) = 2^m /\ IsFiniteSet(SUBSET A)
      /\ Cardinality(SUBSET B) = 2^n /\ IsFiniteSet(SUBSET B)
  BY <1>1, PowerCounts
<1>7. Cardinality((SUBSET A) \X (SUBSET B)) = 2^m * 2^n
  BY <1>6, FS_Product
<1> QED  BY <1>4, <1>5, <1>7, FS_Bijection

(* 2^n is a positive natural number. *)
LEMMA PowerIsPositive == ASSUME NEW n \in Nat PROVE 2^n \in Nat \ {0}
<1>1. IsFiniteSet(1 .. n) /\ Cardinality(1 .. n) = n
  BY FS_Interval
<1>2. Cardinality(SUBSET (1 .. n)) = 2^n /\ IsFiniteSet(SUBSET (1 .. n)) /\ 2^n \in Nat
  BY <1>1, PowerCounts
<1>3. Cardinality(SUBSET (1 .. n)) # 0
  BY <1>2, FS_EmptySet
<1> QED  BY <1>2, <1>3

-----------------------------------------------------------------------------
(* Registers and words *)

(* The widths of registers and words *)
LEMMA Widths ==
  /\ Unit \in Nat \ {0} /\ XLEN \in Nat \ {0} /\ W \in Nat \ {0} /\ 2 * Unit \in Nat \ {0}
  /\ XLEN = W + W /\ W < XLEN /\ Unit <= XLEN /\ 2 * Unit <= XLEN
BY UnitAssumption DEF UnitAssumption, XLEN, W

(* Twice the half *)
LEMMA Halves ==
  ASSUME NEW n \in Nat \ {0}
  PROVE  /\ 2^n \in Nat \ {0} /\ 2^(n - 1) \in Nat \ {0}
         /\ 2^n = 2^(n - 1) + 2^(n - 1)
<1>1. n - 1 \in Nat /\ (n - 1) + 1 = n
  OBVIOUS
<1>2. 2^((n - 1) + 1) = 2^(n - 1) * 2^1
  BY <1>1, PowerOfSum
<1>3. 2^n \in Nat \ {0} /\ 2^(n - 1) \in Nat \ {0}
  BY <1>1, PowerIsPositive
<1> DEFINE h == 2^(n - 1)
<1>4. 2^n = h * 2
  BY <1>1, <1>2, PowerOfOne
<1> HIDE DEF h
<1>5. h \in Nat => h * 2 = h + h
  OBVIOUS
<1> QED  BY <1>3, <1>4, <1>5 DEF h

(* The powers of two below 2^m divide it. *)
LEMMA Divides ==
  ASSUME NEW m \in Nat, NEW n \in Nat, n <= m
  PROVE  2^m = 2^n * 2^(m - n) /\ 2^(m - n) \in Nat \ {0} /\ 2^n \in Nat \ {0} /\ 2^m \in Nat \ {0}
<1>1. m - n \in Nat /\ n + (m - n) = m
  OBVIOUS
<1>2. 2^(n + (m - n)) = 2^n * 2^(m - n)
  BY <1>1, PowerOfSum
<1> QED  BY <1>1, <1>2, PowerIsPositive

(* Low cuts a number to n bits. *)
LEMMA LowDoes ==
  ASSUME NEW v \in Int, NEW n \in Nat
  PROVE  /\ 2^n \in Nat \ {0} /\ Low(v, n) \in 0 .. (2^n - 1) /\ Low(v, n) \in Nat
         /\ Cong(Low(v, n), v, 2^n) /\ Cong(v, Low(v, n), 2^n)
<1> DEFINE p == 2^n
<1>1. p \in Nat \ {0}
  BY PowerIsPositive
<1>2. Low(v, n) = v % p
  BY DEF Low
<1> HIDE DEF p
<1>3. v % p \in 0 .. (p - 1) /\ v % p \in Nat
  BY <1>1, DivMod
<1>4. Cong(v % p, v, p) /\ Cong(v, v % p, p)
  BY <1>1, CongMod
<1> QED  BY <1>1, <1>2, <1>3, <1>4 DEF p

(* Signed is the number of n bits, from -2^(n-1) up, congruent to its argument. *)
LEMMA SignedDoes ==
  ASSUME NEW v \in Int, NEW n \in Nat \ {0}
  PROVE  /\ Signed(v, n) \in Int
         /\ -(2^(n - 1)) <= Signed(v, n) /\ Signed(v, n) < 2^(n - 1)
         /\ Cong(Signed(v, n), v, 2^n) /\ Cong(v, Signed(v, n), 2^n)
<1> DEFINE p == 2^n
           h == 2^(n - 1)
           u == v % p
<1>1. p \in Nat \ {0} /\ h \in Nat \ {0} /\ p = h + h
  BY Halves
<1>2. Signed(v, n) = IF u < h THEN u ELSE u - p
  BY DEF Signed
<1> HIDE DEF p, h
<1>3. u \in 0 .. (p - 1) /\ Cong(u, v, p)
  BY <1>1, DivMod, CongMod
<1> HIDE DEF u
<1>4. PICK k \in Int : u = v + k * p
  BY <1>3 DEF Cong
<1>5. u - p = v + (k - 1) * p /\ k - 1 \in Int
  BY <1>1, <1>3, <1>4
<1>6. Cong(u - p, v, p)
  BY <1>5 DEF Cong
<1>7. Signed(v, n) \in Int /\ -h <= Signed(v, n) /\ Signed(v, n) < h
  BY <1>1, <1>2, <1>3
<1>8. Cong(Signed(v, n), v, p)
  BY <1>2, <1>3, <1>6
<1>9. Cong(v, Signed(v, n), p)
  BY <1>1, <1>7, <1>8, CongSym
<1> QED  BY <1>7, <1>8, <1>9 DEF p, h

(* Signed only sees its argument modulo 2^n. *)
LEMMA SignedSame ==
  ASSUME NEW u \in Int, NEW v \in Int, NEW n \in Nat \ {0}, Cong(u, v, 2^n)
  PROVE  Signed(u, n) = Signed(v, n)
<1>1. u % 2^n = v % 2^n
  BY PowerIsPositive, SameMod
<1> QED  BY <1>1 DEF Signed

(* A congruent number within the range is the value of Signed. *)
LEMMA SignedIs ==
  ASSUME NEW u \in Int, NEW v \in Int, NEW n \in Nat \ {0}, Cong(u, v, 2^n),
         -(2^(n - 1)) <= u, u < 2^(n - 1)
  PROVE  Signed(v, n) = u
<1> DEFINE p == 2^n
           h == 2^(n - 1)
           s == Signed(v, n)
<1>1. p \in Nat \ {0} /\ h \in Nat \ {0} /\ p = h + h
  BY Halves
<1>2. s \in Int /\ -h <= s /\ s < h /\ Cong(s, v, p) /\ Cong(v, s, p)
  BY SignedDoes
<1>3. Cong(u, v, p) /\ -h <= u /\ u < h
  OBVIOUS
<1> HIDE DEF p, h, s
<1>4. Cong(u, s, p)
  BY <1>1, <1>2, <1>3, CongTrans
<1>5. PICK k \in Int : u = s + k * p
  BY <1>4 DEF Cong
<1>6. u - s = k * p /\ u - s < p /\ u - s > -p /\ u - s \in Int
  BY <1>1, <1>2, <1>3, <1>5, ProductInt
<1>7. k = 0
  BY <1>1, <1>6, SmallMultiple
<1>8. u = s
  BY <1>1, <1>2, <1>5, <1>7
<1> QED  BY <1>8 DEF s

LEMMA SignedFixed ==
  ASSUME NEW v \in Int, NEW n \in Nat \ {0}, -(2^(n - 1)) <= v, v < 2^(n - 1)
  PROVE  Signed(v, n) = v
<1>1. Cong(v, v, 2^n)
  BY PowerIsPositive, CongSelf
<1> QED  BY <1>1, SignedIs

(* What a register holds of a number *)
LEMMA ToRegDoes ==
  ASSUME NEW v \in Int
  PROVE  /\ ToReg(v) \in Reg /\ ToReg(v) \in Nat /\ 2^XLEN \in Nat \ {0}
         /\ Cong(ToReg(v), v, 2^XLEN) /\ Cong(v, ToReg(v), 2^XLEN)
BY Widths, LowDoes DEF Low, ToReg, Reg

LEMMA RegIsNat == ASSUME NEW v \in Reg PROVE v \in Nat /\ v < 2^XLEN /\ 2^XLEN \in Nat \ {0}
BY Widths, PowerIsPositive DEF Reg

(* Congruent numbers leave the same register. *)
LEMMA ToRegSame ==
  ASSUME NEW u \in Int, NEW v \in Int, Cong(u, v, 2^XLEN) PROVE ToReg(u) = ToReg(v)
BY Widths, PowerIsPositive, SameMod DEF ToReg

LEMMA ToRegFixed == ASSUME NEW v \in Reg PROVE ToReg(v) = v
<1> DEFINE p == 2^XLEN
<1>1. p \in Nat \ {0} /\ v \in 0 .. (p - 1)
  BY Widths, PowerIsPositive DEF Reg
<1> HIDE DEF p
<1>2. v % p = v
  BY <1>1
<1> QED  BY <1>2 DEF p, ToReg

LEMMA LowFixed == ASSUME NEW v \in Nat, NEW n \in Nat, v < 2^n PROVE Low(v, n) = v
<1> DEFINE p == 2^n
<1>1. p \in Nat \ {0} /\ v < p
  BY PowerIsPositive
<1> HIDE DEF p
<1>2. v % p = v
  BY <1>1
<1> QED  BY <1>2 DEF p, Low

(* What is congruent modulo 2^m is congruent modulo a smaller power. *)
LEMMA CongNarrow ==
  ASSUME NEW x \in Int, NEW y \in Int, NEW m \in Nat, NEW n \in Nat, n <= m, Cong(x, y, 2^m)
  PROVE  Cong(x, y, 2^n)
<1>1. Cong(x, y, 2^n * 2^(m - n)) /\ 2^n \in Nat /\ 2^(m - n) \in Nat
  BY Divides
<1> QED  BY <1>1, CongFactor

(* Sign extension from the full width is lost in the register. *)
LEMMA ToRegSigned == ASSUME NEW v \in Int PROVE ToReg(Signed(v, XLEN)) = ToReg(v)
BY Widths, SignedDoes, ToRegSame

(* What is written to a register, seen at a smaller width *)
LEMMA ToRegCong ==
  ASSUME NEW v \in Int, NEW n \in Nat, n <= XLEN PROVE Cong(ToReg(v), v, 2^n)
BY Widths, ToRegDoes, CongNarrow

-----------------------------------------------------------------------------
(* Bits.  Induction over the natural numbers comes from the well-founded
   order of the library. *)

LEMMA NatIsWellFounded == IsWellFoundedOn({ss \in Nat \X Nat : ss[1] < ss[2]}, Nat)
BY NatLessThanWellFounded DEF OpToRel

(* Every set of natural numbers has a least element. *)
LEMMA LeastOf ==
  ASSUME NEW T, T \subseteq Nat, T # {} PROVE \E x \in T : \A y \in T : x <= y
<1>1. PICK x \in T : \A y \in T : <<y, x>> \notin {ss \in Nat \X Nat : ss[1] < ss[2]}
  BY NatIsWellFounded, WFMin
<1>2. \A y \in T : ~ (y < x)
  BY <1>1
<1> QED  BY <1>2

(* Induction over the natural numbers, for a set *)
LEMMA InductiveSet ==
  ASSUME NEW S, 0 \in S, \A n \in Nat : n \in S => n + 1 \in S PROVE \A n \in Nat : n \in S
<1> SUFFICES ASSUME Nat \ S # {} PROVE FALSE
  OBVIOUS
<1>1. PICK x \in Nat \ S : \A y \in Nat \ S : x <= y
  BY LeastOf
<1>2. x # 0 /\ x - 1 \in Nat
  BY <1>1
<1>3. x - 1 \in S
  BY <1>1, <1>2
<1> QED  BY <1>1, <1>2, <1>3

(* The recursive function of NumOf exists: its partial sums do. *)
LEMMA SumsExist ==
  ASSUME NEW t \in [Nat -> Nat], NEW m \in Nat
  PROVE  \E g \in [0 .. m -> Nat] : g[0] = 0 /\ \A k \in 1 .. m : g[k] = g[k - 1] + t[k - 1]
<1> DEFINE Sums(n) == {g \in [0 .. n -> Nat] : g[0] = 0 /\ \A k \in 1 .. n : g[k] = g[k - 1] + t[k - 1]}
           S == {n \in Nat : Sums(n) # {}}
<1>1. 0 \in S
  <2>1. [k \in 0 .. 0 |-> 0] \in Sums(0)
    OBVIOUS
  <2> QED  BY <2>1
<1>2. ASSUME NEW n \in Nat, n \in S PROVE n + 1 \in S
  <2>1. PICK g : g \in Sums(n)
    BY <1>2
  <2> DEFINE h == [k \in 0 .. (n + 1) |-> IF k = n + 1 THEN g[n] + t[n] ELSE g[k]]
  <2>8. g \in [0 .. n -> Nat] /\ g[0] = 0 /\ t[n] \in Nat /\ 0 # n + 1
    BY <2>1
  <2>9. \A k \in 0 .. (n + 1) : (IF k = n + 1 THEN g[n] + t[n] ELSE g[k]) \in Nat
    <3> TAKE k \in 0 .. (n + 1)
    <3>1. CASE k = n + 1
      BY <2>8, <3>1
    <3>2. CASE k # n + 1
      <4>1. k \in 0 .. n
        BY <3>2
      <4> QED  BY <2>8, <3>2, <4>1
    <3> QED  BY <3>1, <3>2
  <2>2. h \in [0 .. (n + 1) -> Nat] /\ h[0] = 0
    <3>1. h \in [0 .. (n + 1) -> Nat]
      BY <2>9
    <3>2. h[0] = g[0]
      BY <2>8
    <3> QED  BY <2>8, <3>1, <3>2
  <2>3. \A k \in 1 .. (n + 1) : h[k] = h[k - 1] + t[k - 1]
    <3> TAKE k \in 1 .. (n + 1)
    <3>1. k - 1 \in 0 .. n /\ k \in 0 .. (n + 1) /\ h[k - 1] = g[k - 1]
      OBVIOUS
    <3>2. CASE k = n + 1
      <4>1. h[k] = g[n] + t[n] /\ k - 1 = n
        BY <3>2
      <4> QED  BY <3>1, <4>1
    <3>3. CASE k # n + 1
      <4>1. k \in 1 .. n /\ h[k] = g[k]
        BY <3>3
      <4> QED  BY <2>1, <3>1, <4>1
    <3> QED  BY <3>2, <3>3
  <2> HIDE DEF h
  <2>4. h \in Sums(n + 1)
    BY <2>2, <2>3
  <2> HIDE DEF Sums
  <2>5. Sums(n + 1) # {} /\ n + 1 \in Nat
    BY <2>4
  <2> QED  BY <2>5
<1>3. \A n \in Nat : n \in S => n + 1 \in S
  BY <1>2
<1>4. m \in S
  <2> HIDE DEF S
  <2> QED  BY <1>1, <1>3, InductiveSet
<1>5. Sums(m) # {}
  BY <1>4
<1> QED  BY <1>5

(* NumOf of any set of bits is a natural number, so C++'s ^, | and & are. *)
LEMMA NumOfIsNat == ASSUME NEW bits PROVE NumOf(bits) \in Nat
<1> DEFINE t == [k \in Nat |-> IF k \in bits THEN 2^k ELSE 0]
           Body(f) == [k \in 0 .. XLEN |->
                         IF k = 0 THEN 0 ELSE f[k - 1] + (IF k - 1 \in bits THEN 2^(k - 1) ELSE 0)]
           F == CHOOSE f : f = Body(f)
<1>1. t \in [Nat -> Nat]
  BY PowerIsPositive
<1>2. XLEN \in Nat
  BY Widths
<1>3. \E f : f = Body(f)
  <2> HIDE DEF t
  <2>1. PICK g \in [0 .. XLEN -> Nat] : g[0] = 0 /\ \A k \in 1 .. XLEN : g[k] = g[k - 1] + t[k - 1]
    BY <1>1, <1>2, SumsExist
  <2>2. \A k \in 1 .. XLEN : t[k - 1] = IF k - 1 \in bits THEN 2^(k - 1) ELSE 0
    BY <1>2 DEF t
  <2>3. \A k \in 0 .. XLEN : k # 0 => k \in 1 .. XLEN
    BY <1>2
  <2>4. \A k \in 0 .. XLEN :
          g[k] = IF k = 0 THEN 0 ELSE g[k - 1] + (IF k - 1 \in bits THEN 2^(k - 1) ELSE 0)
    BY <2>1, <2>2, <2>3
  <2>5. g = Body(g)
    BY <2>1, <2>4
  <2> QED  BY <2>5
<1>4. F = Body(F)
  BY <1>3
<1>5. NumOf(bits) = F[XLEN]
  BY DEF NumOf
<1> HIDE DEF F
<1> DEFINE S == {n \in Nat : n \in 0 .. XLEN => F[n] \in Nat}
<1>6. F[0] = 0
  BY <1>2, <1>4
<1>7. ASSUME NEW n \in Nat, n + 1 \in 0 .. XLEN, F[n] \in Nat PROVE F[n + 1] \in Nat
  <2>1. F[n + 1] = F[n] + (IF n \in bits THEN 2^n ELSE 0)
    <3>1. n + 1 # 0 /\ (n + 1) - 1 = n
      OBVIOUS
    <3> QED  BY <1>4, <1>7, <3>1
  <2>2. 2^n \in Nat
    BY PowerIsPositive
  <2> DEFINE p == 2^n
  <2> HIDE DEF p
  <2>3. (IF n \in bits THEN p ELSE 0) \in Nat
    BY <2>2 DEF p
  <2> QED  BY <1>7, <2>1, <2>3 DEF p
<1>8. \A n \in Nat : n \in S => n + 1 \in S
  BY <1>2, <1>7
<1>9. 0 \in S
  BY <1>6
<1> HIDE DEF S
<1>10. XLEN \in S
  BY <1>2, <1>8, <1>9, InductiveSet
<1> QED  BY <1>2, <1>5, <1>10 DEF S

LEMMA BitwiseIsNat ==
  ASSUME NEW a, NEW b PROVE Xor(a, b) \in Nat /\ Or(a, b) \in Nat /\ And(a, b) \in Nat
BY NumOfIsNat DEF Xor, Or, And

-----------------------------------------------------------------------------
(* Bytes of memory *)

(* The accesses there are, in bits and in bytes *)
LEMMA SizeCounts ==
  ASSUME NEW n \in {Unit, 2 * Unit, W, XLEN}
  PROVE  /\ n \in Nat \ {0} /\ n <= XLEN
         /\ n \div Unit \in {1, 2, 4, 8} /\ n = Unit * (n \div Unit)
<1>1. Unit \in Nat \ {0}
  BY UnitAssumption DEF UnitAssumption
<1>2. PICK c \in {1, 2, 4, 8} : n = c * Unit
  BY <1>1 DEF W, XLEN
<1>3. n = c * Unit + 0 /\ 0 \in 0 .. (Unit - 1) /\ c \in Int
  BY <1>1, <1>2
<1>4. n \div Unit = c
  <2> DEFINE u == Unit
  <2>1. u \in Nat \ {0}
    BY <1>1
  <2>2. \A x \in Int : x = c * u + 0 => x \div u = c
    <3> HIDE DEF u
    <3> QED  BY <2>1, <1>3, DivModIs
  <2>3. n \in Int
    BY <1>1, <1>2
  <2> QED  BY <1>3, <2>2, <2>3
<1>5. n \in Nat \ {0} /\ n <= XLEN /\ n = Unit * c
  BY <1>1, <1>2 DEF XLEN
<1> QED  BY <1>2, <1>4, <1>5

(* k bytes and one more are a number of k + 1 bytes. *)
LEMMA AppendByte ==
  ASSUME NEW k \in Nat, NEW l \in 0 .. (2^(Unit * k) - 1), NEW b \in Byte
  PROVE  l + b * 2^(Unit * k) \in 0 .. (2^(Unit * (k + 1)) - 1)
<1> DEFINE p == 2^(Unit * k)
           q == 2^Unit
           r == 2^(Unit * (k + 1))
<1>1. Unit \in Nat /\ Unit * k \in Nat /\ Unit * (k + 1) = Unit * k + Unit
  BY UnitAssumption, ProductNat DEF UnitAssumption
<1>2. p \in Nat \ {0} /\ q \in Nat \ {0} /\ r = p * q
  BY <1>1, PowerIsPositive, PowerOfSum
<1>3. l \in 0 .. (p - 1) /\ b \in 0 .. (q - 1)
  BY DEF Byte
<1> HIDE DEF p, q, r
<1>4. b * p >= 0 /\ b * p <= (q - 1) * p /\ b * p \in Int
  BY <1>2, <1>3
<1>5. (q - 1) * p = p * q - p
  BY <1>2
<1>6. l + b * p \in 0 .. (r - 1)
  BY <1>2, <1>3, <1>4, <1>5
<1> QED  BY <1>6 DEF p, r

(* A load of n bits gives a number of n bits (Bus::load). *)
LEMMA LoadFits ==
  ASSUME NEW ram, ram \in [DOMAIN ram -> Byte], NEW addr \in Int, NEW n \in {Unit, 2 * Unit, W, XLEN},
         Bytes(addr, n) \subseteq DOMAIN ram
  PROVE  LoadFrom(ram, addr, n) \in 0 .. (2^n - 1)
<1> DEFINE c == n \div Unit
           Part(k) == IF k < c THEN ram[addr + k] * 2^(Unit * k) ELSE 0
           p == [k \in 0 .. 7 |-> Part(k)]
           b == [k \in 0 .. 8 |-> 2^(Unit * k)]
<1>1. c \in {1, 2, 4, 8} /\ n = Unit * c
  BY SizeCounts
<1>2. \A k \in 0 .. 7 : k < c => ram[addr + k] \in Byte
  <2> TAKE k \in 0 .. 7
  <2> HAVE k < c
  <2>1. addr + k \in Bytes(addr, n)
    <3> HIDE DEF c
    <3>1. addr + k \in addr .. (addr + c - 1)
      BY <1>1
    <3> QED  BY <3>1 DEF Bytes, c
  <2> QED  BY <2>1
<1>3. LoadFrom(ram, addr, n) = p[0] + p[1] + p[2] + p[3] + p[4] + p[5] + p[6] + p[7]
  BY DEF LoadFrom
<1>4. \A k \in 0 .. 7 : \A l \in 0 .. (b[k] - 1) : k < c => l + p[k] \in 0 .. (b[k + 1] - 1)
  BY <1>2, AppendByte
<1>5. b[0] = 1
  <2>1. Unit * 0 = 0
    BY UnitAssumption DEF UnitAssumption
  <2>2. b[0] = 2^(Unit * 0)
    OBVIOUS
  <2>3. 2^(Unit * 0) = 2^0
    BY <2>1, Zenon
  <2> QED  BY <2>2, <2>3, PowerOfZero
<1>6. \A k \in 0 .. 7 : ~ (k < c) => p[k] = 0
  OBVIOUS
<1>7. b[c] = 2^n
  BY <1>1
<1>8. \A k \in 0 .. 8 : b[k] \in Nat
  <2>1. \A k \in 0 .. 8 : Unit * k \in Nat
    BY UnitAssumption DEF UnitAssumption
  <2> QED  BY <2>1, PowerIsPositive
<1>9. \A k \in 0 .. 7 : p[k] \in Nat
  <2> TAKE k \in 0 .. 7
  <2>1. 2^(Unit * k) \in Nat
    BY <1>8
  <2>2. k < c => ram[addr + k] \in Nat
    BY <1>2 DEF Byte
  <2> QED  BY <2>1, <2>2, ProductNat
<1> HIDE DEF p, b, c
<1> DEFINE s1 == p[0]
           s2 == s1 + p[1]
           s3 == s2 + p[2]
           s4 == s3 + p[3]
           s5 == s4 + p[4]
           s6 == s5 + p[5]
           s7 == s6 + p[6]
           s8 == s7 + p[7]
<1>10. s1 \in 0 .. (b[1] - 1)
  <2>1. 0 \in 0 .. (b[0] - 1) /\ 0 < c
    BY <1>1, <1>5
  <2>2. 0 + p[0] \in 0 .. (b[0 + 1] - 1)
    BY <1>4, <2>1
  <2> QED  BY <2>2, <1>9
<1>11. c > 1 => s2 \in 0 .. (b[2] - 1)
  BY <1>1, <1>4, <1>10
<1>12. c > 2 => s3 \in 0 .. (b[3] - 1)
  BY <1>1, <1>4, <1>11
<1>13. c > 3 => s4 \in 0 .. (b[4] - 1)
  BY <1>1, <1>4, <1>12
<1>14. c > 4 => s5 \in 0 .. (b[5] - 1)
  BY <1>1, <1>4, <1>13
<1>15. c > 5 => s6 \in 0 .. (b[6] - 1)
  BY <1>1, <1>4, <1>14
<1>16. c > 6 => s7 \in 0 .. (b[7] - 1)
  BY <1>1, <1>4, <1>15
<1>17. c > 7 => s8 \in 0 .. (b[8] - 1)
  BY <1>1, <1>4, <1>16
<1>18. s8 \in 0 .. (b[c] - 1)
  BY <1>1, <1>6, <1>8, <1>9, <1>10, <1>11, <1>13, <1>17
<1> QED  BY <1>3, <1>7, <1>18

(* A byte of a number is a byte. *)
LEMMA ByteIsByte ==
  ASSUME NEW v \in Int, NEW k \in Nat PROVE (v \div 2^(Unit * k)) % 2^Unit \in Byte
<1> DEFINE p == 2^(Unit * k)
           q == 2^Unit
<1>1. Unit \in Nat /\ Unit * k \in Nat
  BY UnitAssumption, ProductNat DEF UnitAssumption
<1>2. p \in Nat \ {0} /\ q \in Nat \ {0}
  BY <1>1, PowerIsPositive
<1> HIDE DEF p, q
<1>3. (v \div p) % q \in 0 .. (q - 1)
  BY <1>2, DivMod
<1> QED  BY <1>3 DEF p, q, Byte

(* A store leaves bytes in memory (Bus::store). *)
LEMMA StoreTypes ==
  ASSUME NEW ram, ram \in [DOMAIN ram -> Byte], NEW addr \in Int, NEW v \in Int, NEW n
  PROVE  /\ StoreTo(ram, addr, v, n) \in [DOMAIN ram -> Byte]
         /\ StoreTo(ram, addr, v, n) \in [DOMAIN StoreTo(ram, addr, v, n) -> Byte]
<1>1. \A a \in Bytes(addr, n) : a - addr \in Nat
  BY DEF Bytes
<1>2. \A a \in Bytes(addr, n) : (v \div 2^(Unit * (a - addr))) % 2^Unit \in Byte
  BY <1>1, ByteIsByte
<1>3. StoreTo(ram, addr, v, n) \in [DOMAIN ram -> Byte]
  <2> HIDE DEF Bytes, Byte
  <2> QED  BY <1>2 DEF StoreTo
<1> QED  BY <1>3

(* A store of n bits only sees its value modulo 2^n. *)
LEMMA StoreSame ==
  ASSUME NEW ram, NEW addr \in Int, NEW u \in Int, NEW v \in Int, NEW n \in {Unit, 2 * Unit, W, XLEN},
         Cong(u, v, 2^n)
  PROVE  StoreTo(ram, addr, u, n) = StoreTo(ram, addr, v, n)
<1>1. n \in Nat \ {0} /\ n \div Unit \in {1, 2, 4, 8} /\ n = Unit * (n \div Unit)
  BY SizeCounts
<1>2. ASSUME NEW a \in Bytes(addr, n)
      PROVE  (u \div 2^(Unit * (a - addr))) % 2^Unit = (v \div 2^(Unit * (a - addr))) % 2^Unit
  <2> DEFINE c == n \div Unit
             k == a - addr
             p == 2^(Unit * k)
             q == 2^Unit
  <2>1. k \in 0 .. (c - 1)
    BY <1>1, <1>2 DEF Bytes
  <2>2. Unit * k \in Nat /\ Unit \in Nat /\ Unit * k + Unit <= n
    <3> HIDE DEF c, k
    <3>1. Unit \in Nat /\ c \in {1, 2, 4, 8} /\ n = Unit * c
      BY <1>1, UnitAssumption DEF UnitAssumption, c
    <3> QED  BY <2>1, <3>1
  <2>3. p \in Nat \ {0} /\ q \in Nat \ {0}
    BY <2>2, PowerIsPositive
  <2>4. Cong(u, v, 2^(Unit * k + Unit))
    BY <1>1, <2>2, CongNarrow
  <2>5. 2^(Unit * k + Unit) = p * q
    BY <2>2, PowerOfSum
  <2> HIDE DEF p, q, k
  <2>6. Cong(u \div p, v \div p, q)
    BY <2>3, <2>4, <2>5, CongQuotient
  <2>7. u \div p \in Int /\ v \div p \in Int
    BY <2>3, DivMod
  <2>8. (u \div p) % q = (v \div p) % q
    BY <2>3, <2>6, <2>7, SameMod
  <2> QED  BY <2>8 DEF p, q, k
<1> HIDE DEF Bytes
<1> QED  BY <1>2 DEF StoreTo

-----------------------------------------------------------------------------
(* One arithmetic: Isa has its own instance of Words. *)

(* The operators of Words mean in Isa what they mean in Insn. *)
LEMMA SameWidths == Arch!XLEN = XLEN /\ Arch!W = W /\ Arch!Reg = Reg /\ Arch!Byte = Byte
BY DEF Arch!XLEN, XLEN, Arch!W, W, Arch!Reg, Reg, Arch!Byte, Byte

LEMMA SameCuts ==
  ASSUME NEW v, NEW n
  PROVE  Arch!Low(v, n) = Low(v, n) /\ Arch!Signed(v, n) = Signed(v, n) /\ Arch!ToReg(v) = ToReg(v)
         /\ Arch!Truth(v) = Truth(v) /\ Arch!Quot(v, n) = Quot(v, n) /\ Arch!Rest(v, n) = Rest(v, n)
BY SameWidths DEF Arch!Low, Low, Arch!Signed, Signed, Arch!ToReg, ToReg, Arch!Truth, Truth,
   Arch!Quot, Quot, Arch!Rest, Rest

LEMMA SameBits ==
  ASSUME NEW a, NEW b
  PROVE  Arch!Xor(a, b) = Xor(a, b) /\ Arch!Or(a, b) = Or(a, b) /\ Arch!And(a, b) = And(a, b)
<1>1. \A v : Arch!BitsOf(v) = BitsOf(v)
  BY SameWidths DEF Arch!BitsOf, BitsOf
<1>2. \A bits : Arch!NumOf(bits) = NumOf(bits)
  BY SameWidths DEF Arch!NumOf, NumOf
<1> QED  BY <1>1, <1>2 DEF Arch!Xor, Xor, Arch!Or, Or, Arch!And, And

LEMMA SameMemory ==
  ASSUME NEW ram, NEW addr, NEW v, NEW n
  PROVE  /\ Arch!LoadFrom(ram, addr, n) = LoadFrom(ram, addr, n)
         /\ Arch!StoreTo(ram, addr, v, n) = StoreTo(ram, addr, v, n)
BY DEF Arch!LoadFrom, LoadFrom, Arch!StoreTo, StoreTo, Arch!Bytes, Bytes

-----------------------------------------------------------------------------
(* Register-register forms of 64 bits *)

(* A register, as int64_t and as uint64_t *)
LEMMA RegDoes ==
  ASSUME NEW a \in Reg
  PROVE  /\ a \in Nat /\ Low(a, XLEN) = a /\ S64(a) = Signed(a, XLEN) /\ S64(a) \in Int
         /\ Cong(S64(a), a, 2^XLEN) /\ Cong(a, S64(a), 2^XLEN)
         /\ S64(a) < 2^(XLEN - 1) /\ -(2^(XLEN - 1)) <= S64(a)
BY Widths, RegIsNat, LowFixed, SignedDoes DEF S64

(* A count taken modulo the width *)
LEMMA ShiftCount == ASSUME NEW b \in Nat, NEW n \in Nat \ {0}
  PROVE  b % n \in Nat /\ b % n < n /\ 2^(b % n) \in Nat \ {0}
<1>1. b % n \in Nat /\ b % n < n
  BY DivMod
<1> QED  BY <1>1, PowerIsPositive

(* A quotient is an integer. *)
LEMMA QuotientInt == ASSUME NEW a \in Int, NEW b \in Nat \ {0} PROVE a \div b \in Int
BY DivMod

(* mulhsu multiplies two __uint128_t's. *)
LEMMA HighSignedUnsigned ==
  ASSUME NEW a \in Reg, NEW b \in Reg
  PROVE  /\ RTypeLow("mulhsu", a, b) \in Int
         /\ Cong(RTypeLow("mulhsu", a, b), (Signed(a, XLEN) * b) \div 2^XLEN, 2^XLEN)
<1> DEFINE p == 2^XLEN
           q == 2^(2 * XLEN)
           s == S64(a)
           x == ((s % q) * b) % q
<1>1. RTypeLow("mulhsu", a, b) = x \div p /\ s = Signed(a, XLEN)
  BY DEF RTypeLow, S64
<1>2. XLEN \in Nat /\ 2 * XLEN = XLEN + XLEN
  BY Widths
<1>3. p \in Nat \ {0} /\ q = p * p
  BY <1>2, PowerIsPositive, PowerOfSum
<1>4. s \in Int /\ b \in Nat
  BY RegDoes
<1> HIDE DEF p, q, s
<1>5. q \in Nat \ {0}
  BY <1>3, ProductPositive
<1>6. s % q \in Int /\ Cong(s % q, s, q)
  <2>1. Cong(s % q, s, q)
    BY <1>4, <1>5, CongMod
  <2>2. s % q \in 0 .. (q - 1)
    BY <1>4, <1>5, DivMod
  <2> QED  BY <1>5, <2>1, <2>2
<1> DEFINE y == (s % q) * b
<1>7. y \in Int /\ s * b \in Int /\ Cong(y, s * b, q)
  <2>1. Cong(b, b, q)
    BY <1>4, <1>5, CongSelf
  <2> DEFINE z == s % q
  <2>2. z \in Int /\ Cong(z, s, q) /\ b \in Int /\ q \in Nat
    BY <1>4, <1>5, <1>6
  <2> HIDE DEF z
  <2>3. Cong(z * b, s * b, q) /\ z * b \in Int /\ s * b \in Int
    BY <1>4, <2>1, <2>2, CongProduct, ProductInt
  <2> QED  BY <2>3 DEF z
<1> HIDE DEF y
<1>8. y % q \in Int /\ Cong(y % q, y, q)
  BY <1>5, <1>7, CongMod, DivMod
<1>9. Cong(y % q, s * b, q)
  BY <1>5, <1>7, <1>8, CongTrans
<1>10. Cong((y % q) \div p, (s * b) \div p, p) /\ (y % q) \div p \in Int
  BY <1>3, <1>7, <1>8, <1>9, CongQuotient, QuotientInt
<1> QED  BY <1>1, <1>10 DEF p, y

(* rtype::add to mulhu compute what the architecture says. *)
LEMMA LowRows ==
  ASSUME NEW op \in LowOps, NEW a \in Reg, NEW b \in Reg
  PROVE  /\ RTypeLow(op, a, b) \in Int
         /\ ToReg(RTypeLow(op, a, b)) = Arch!Alu(op, a, b, XLEN)
<1> DEFINE s == S64(a)  t == S64(b)
           k == 2^(b % XLEN)
           p == 2^XLEN
<1>1. /\ a \in Nat /\ Low(a, XLEN) = a /\ s = Signed(a, XLEN) /\ s \in Int
      /\ b \in Nat /\ Low(b, XLEN) = b /\ t = Signed(b, XLEN) /\ t \in Int
  BY RegDoes
<1>2. k \in Nat \ {0} /\ p \in Nat \ {0}
  BY <1>1, Widths, ShiftCount, PowerIsPositive
<1>3. \A v \in Int : ToReg(Signed(v, XLEN)) = ToReg(v)
  BY ToRegSigned
<1>4. CASE op = "add"
  <2>1. RTypeLow(op, a, b) = s + t
    BY <1>4 DEF RTypeLow
  <2>2. Arch!Alu(op, a, b, XLEN) = ToReg(Signed(s + t, XLEN))
    BY <1>1, <1>4, SameCuts DEF Arch!Alu
  <2> QED  BY <1>1, <1>3, <2>1, <2>2
<1>5. CASE op = "sub"
  <2>1. RTypeLow(op, a, b) = s - t
    BY <1>5 DEF RTypeLow
  <2>2. Arch!Alu(op, a, b, XLEN) = ToReg(Signed(s - t, XLEN))
    BY <1>1, <1>5, SameCuts DEF Arch!Alu
  <2> QED  BY <1>1, <1>3, <2>1, <2>2
<1>6. CASE op = "mul"
  <2>1. RTypeLow(op, a, b) = s * t
    BY <1>6 DEF RTypeLow
  <2>2. Arch!Alu(op, a, b, XLEN) = ToReg(Signed(s * t, XLEN))
    BY <1>1, <1>6, SameCuts DEF Arch!Alu
  <2> QED  BY <1>1, <1>3, <2>1, <2>2, ProductInt
<1>7. CASE op = "sll"
  <2>1. RTypeLow(op, a, b) = a * k
    BY <1>7 DEF RTypeLow
  <2>2. Arch!Alu(op, a, b, XLEN) = ToReg(Signed(a * k, XLEN))
    BY <1>1, <1>7, SameCuts DEF Arch!Alu
  <2> QED  BY <1>1, <1>2, <1>3, <2>1, <2>2, ProductInt
<1>8. CASE op = "mulh"
  <2>1. RTypeLow(op, a, b) = (s * t) \div p
    BY <1>8 DEF RTypeLow
  <2>2. Arch!Alu(op, a, b, XLEN) = ToReg(Signed((s * t) \div p, XLEN))
    BY <1>1, <1>8, SameCuts DEF Arch!Alu
  <2>3. (s * t) \div p \in Int
    BY <1>1, <1>2, ProductInt, QuotientInt
  <2> QED  BY <1>3, <2>1, <2>2, <2>3
<1>9. CASE op = "slt"
  <2>1. RTypeLow(op, a, b) = Truth(s < t)
    BY <1>9 DEF RTypeLow
  <2>2. Arch!Alu(op, a, b, XLEN) = ToReg(Signed(Truth(s < t), XLEN))
    BY <1>1, <1>9, SameCuts DEF Arch!Alu
  <2>3. Truth(s < t) \in Int
    BY DEF Truth
  <2> QED  BY <1>3, <2>1, <2>2, <2>3
<1>10. CASE op = "sltu"
  <2>1. RTypeLow(op, a, b) = Truth(a < b)
    BY <1>10 DEF RTypeLow
  <2>2. Arch!Alu(op, a, b, XLEN) = ToReg(Signed(Truth(a < b), XLEN))
    BY <1>1, <1>10, SameCuts DEF Arch!Alu
  <2>3. Truth(a < b) \in Int
    BY DEF Truth
  <2> QED  BY <1>3, <2>1, <2>2, <2>3
<1>11. CASE op = "mulhu"
  <2>1. RTypeLow(op, a, b) = (a * b) \div p
    BY <1>11 DEF RTypeLow
  <2>2. Arch!Alu(op, a, b, XLEN) = ToReg(Signed((a * b) \div p, XLEN))
    BY <1>1, <1>11, SameCuts DEF Arch!Alu
  <2>3. (a * b) \div p \in Int
    BY <1>1, <1>2, ProductInt, QuotientInt
  <2> QED  BY <1>3, <2>1, <2>2, <2>3
<1>12. CASE op = "mulhsu"
  <2> DEFINE x == (s * b) \div p
  <2>1. RTypeLow(op, a, b) \in Int /\ Cong(RTypeLow(op, a, b), x, p)
    BY <1>1, <1>12, HighSignedUnsigned
  <2>2. Arch!Alu(op, a, b, XLEN) = ToReg(Signed(x, XLEN))
    BY <1>1, <1>12, SameCuts DEF Arch!Alu
  <2>3. x \in Int
    BY <1>1, <1>2, ProductInt, QuotientInt
  <2> HIDE DEF x, p, s
  <2>4. ToReg(RTypeLow(op, a, b)) = ToReg(x)
    BY <2>1, <2>3, ToRegSame DEF p
  <2> QED  BY <1>3, <2>1, <2>2, <2>3, <2>4
<1> QED
  BY <1>4, <1>5, <1>6, <1>7, <1>8, <1>9, <1>10, <1>11, <1>12 DEF LowOps

(* A number of n bits is 0 for both its readings or for neither. *)
LEMMA SignedIsZero ==
  ASSUME NEW b \in Int, NEW n \in Nat \ {0} PROVE (Signed(b, n) = 0) <=> (Low(b, n) = 0)
<1> DEFINE p == 2^n
           h == 2^(n - 1)
           u == b % p
<1>1. p \in Nat \ {0} /\ h \in Nat \ {0} /\ p = h + h
  BY Halves
<1>2. Signed(b, n) = (IF u < h THEN u ELSE u - p) /\ Low(b, n) = u
  BY DEF Signed, Low
<1> HIDE DEF p, h
<1>3. u \in 0 .. (p - 1)
  BY <1>1, DivMod
<1> HIDE DEF u
<1> QED  BY <1>1, <1>2, <1>3

(* The quotient and the rest, rounded to zero, are integers. *)
LEMMA QuotInt == ASSUME NEW a \in Int, NEW b \in Int, b # 0 PROVE Quot(a, b) \in Int /\ Rest(a, b) \in Int
<1> DEFINE u == IF a < 0 THEN -a ELSE a
           v == IF b < 0 THEN -b ELSE b
           m == u \div v
<1>1. u \in Nat /\ v \in Nat \ {0}
  OBVIOUS
<1>2. Quot(a, b) = IF (a < 0) = (b < 0) THEN m ELSE -m
  BY DEF Quot
<1> HIDE DEF u, v
<1>3. m \in Int
  BY <1>1, QuotientInt
<1> HIDE DEF m
<1>4. Quot(a, b) \in Int
  BY <1>2, <1>3
<1>5. a - b * Quot(a, b) \in Int
  BY <1>4, ProductInt
<1> QED  BY <1>4, <1>5 DEF Rest

(* The quotient of the least number and -1 is its negation. *)
LEMMA QuotMinusOne ==
  ASSUME NEW a \in Int, a < 0, NEW b \in Int, b + 1 = 0 PROVE Quot(a, b) = -a /\ Rest(a, b) = 0
<1>1. (-a) \div 1 = -a
  <2>1. -a \in Int /\ -a = (-a) * 1 + 0 /\ 0 \in 0 .. (1 - 1)
    OBVIOUS
  <2> QED  BY <2>1, DivModIs
<1>2. a < 0 /\ b < 0 /\ -b = 1
  OBVIOUS
<1>3. Quot(a, b) = -a
  BY <1>1, <1>2 DEF Quot
<1>4. \A q : q = -a => a - b * q = 0
  OBVIOUS
<1> QED  BY <1>3, <1>4 DEF Rest

(* -1 and the greatest unsigned number are the same register. *)
LEMMA AllOnes == ToReg(2^XLEN - 1) = ToReg(-1) /\ 2^XLEN - 1 \in Int
<1> DEFINE p == 2^XLEN
<1>1. p \in Nat \ {0}
  BY Widths, PowerIsPositive
<1> HIDE DEF p
<1>2. p - 1 = -1 + 1 * p /\ p - 1 \in Int /\ 1 \in Int /\ -1 \in Int
  BY <1>1
<1>3. Cong(p - 1, -1, p)
  BY <1>2 DEF Cong
<1> QED  BY <1>2, <1>3, ToRegSame DEF p

(* A count of less than a word is the same count modulo a word. *)
LEMMA SmallCount == ASSUME NEW b \in Nat, b % XLEN < W PROVE b % W = b % XLEN
<1> DEFINE n == XLEN
           q == b \div n
           r == b % n
<1>1. W \in Nat \ {0} /\ n \in Nat \ {0} /\ n = W + W /\ b \in Int
  BY Widths
<1>2. q \in Int /\ r \in 0 .. (n - 1) /\ b = q * n + r
  <2> HIDE DEF n
  <2> QED  BY <1>1, DivMod
<1>3. r < W
  OBVIOUS
<1> DEFINE w == W
<1> HIDE DEF q, r, w
<1>4. w \in Nat \ {0} /\ n = w + w
  BY <1>1 DEF w
<1>5. q * (w + w) = (q + q) * w
  BY <1>2, <1>4
<1>6. b = (q + q) * W + r /\ q + q \in Int /\ r \in 0 .. (W - 1)
  BY <1>1, <1>2, <1>3, <1>4, <1>5 DEF w
<1>7. b % W = r
  BY <1>1, <1>6, DivModIs
<1> QED  BY <1>7 DEF r

(* b == 0 asks the same of int64_t and of uint64_t. *)
LEMMA RegIsZero == ASSUME NEW b \in Reg PROVE (S64(b) = 0) <=> (b = 0)
BY RegDoes, SignedIsZero, Widths

(* rtype::xor_ to remu do, where div does not meet the least int32_t over -1 and
   sra an operand that is one. *)
LEMMA HighRows ==
  ASSUME NEW op \in HighOps, NEW a \in Reg, NEW b \in Reg,
         op = "div" => S64(a) # IntMin(W) \/ S64(b) # -1,
         op = "sra" => S64(a) = Signed(a, W) /\ b % XLEN < W
  PROVE  /\ RTypeHigh(op, a, b) \in Int
         /\ ToReg(RTypeHigh(op, a, b)) = Arch!Alu(op, a, b, XLEN)
<1> DEFINE s == S64(a)  t == S64(b)
           k == 2^(b % XLEN)
<1>1. /\ a \in Nat /\ Low(a, XLEN) = a /\ s = Signed(a, XLEN) /\ s \in Int
      /\ b \in Nat /\ Low(b, XLEN) = b /\ t = Signed(b, XLEN) /\ t \in Int
      /\ Cong(s, a, 2^XLEN) /\ Cong(a, s, 2^XLEN)
  BY RegDoes
<1>2. k \in Nat \ {0}
  BY <1>1, Widths, ShiftCount
<1>3. \A v \in Int : ToReg(Signed(v, XLEN)) = ToReg(v)
  BY ToRegSigned
<1>4. t = 0 <=> b = 0
  BY RegIsZero
<1>5. CASE op \in {"xor", "or", "and"}
  <2>1. RTypeHigh(op, a, b) \in Nat
    BY <1>5, BitwiseIsNat DEF RTypeHigh
  <2>2. Arch!Alu(op, a, b, XLEN) = ToReg(Signed(RTypeHigh(op, a, b), XLEN))
    BY <1>1, <1>5, SameCuts, SameBits DEF Arch!Alu, RTypeHigh
  <2> QED  BY <1>3, <2>1, <2>2
<1>6. CASE op = "div"
  <2>1. RTypeHigh(op, a, b) = IF b = 0 THEN 2^XLEN - 1 ELSE Quot(s, t)
    BY <1>6 DEF RTypeHigh
  <2>2. Arch!Alu(op, a, b, XLEN) = ToReg(Signed(IF t = 0 THEN -1 ELSE Quot(s, t), XLEN))
    BY <1>1, <1>6, SameCuts DEF Arch!Alu
  <2>3. CASE b = 0
    <3>1. -1 \in Int
      OBVIOUS
    <3> QED  BY <1>3, <1>4, <2>1, <2>2, <2>3, <3>1, AllOnes
  <2>4. CASE b # 0
    BY <1>1, <1>3, <1>4, <2>1, <2>2, <2>4, QuotInt
  <2> QED  BY <2>3, <2>4
<1>7. CASE op = "srl"
  <2>1. RTypeHigh(op, a, b) = a \div k
    BY <1>7 DEF RTypeHigh
  <2>2. Arch!Alu(op, a, b, XLEN) = ToReg(Signed(a \div k, XLEN))
    BY <1>1, <1>7, SameCuts DEF Arch!Alu
  <2> QED  BY <1>1, <1>2, <1>3, <2>1, <2>2, QuotientInt
<1>8. CASE op = "divu"
  <2>1. RTypeHigh(op, a, b) = IF b = 0 THEN 2^XLEN - 1 ELSE a \div b
    BY <1>8 DEF RTypeHigh
  <2>2. Arch!Alu(op, a, b, XLEN) = ToReg(Signed(IF b = 0 THEN -1 ELSE a \div b, XLEN))
    BY <1>1, <1>8, SameCuts DEF Arch!Alu
  <2>3. CASE b = 0
    <3>1. -1 \in Int
      OBVIOUS
    <3> QED  BY <1>3, <2>1, <2>2, <2>3, <3>1, AllOnes
  <2>4. CASE b # 0
    BY <1>1, <1>3, <2>1, <2>2, <2>4, QuotientInt
  <2> QED  BY <2>3, <2>4
<1>9. CASE op = "sra"
  <2>1. RTypeHigh(op, a, b) = s \div k
    BY <1>1, <1>9, SmallCount DEF RTypeHigh
  <2>2. Arch!Alu(op, a, b, XLEN) = ToReg(Signed(s \div k, XLEN))
    BY <1>1, <1>9, SameCuts DEF Arch!Alu
  <2> QED  BY <1>1, <1>2, <1>3, <2>1, <2>2, QuotientInt
<1>10. CASE op = "rem"
  <2>1. RTypeHigh(op, a, b) = IF b = 0 THEN a
                              ELSE IF s = IntMin(XLEN) /\ t = -1 THEN 0 ELSE Rest(s, t)
    BY <1>10 DEF RTypeHigh
  <2>2. Arch!Alu(op, a, b, XLEN) = ToReg(Signed(IF t = 0 THEN s ELSE Rest(s, t), XLEN))
    BY <1>1, <1>10, SameCuts DEF Arch!Alu
  <2>3. CASE b = 0
    BY <1>1, <1>3, <1>4, <2>1, <2>2, <2>3, ToRegSame
  <2>4. CASE b # 0
    <3>1. s = IntMin(XLEN) /\ t = -1 => Rest(s, t) = 0
      <4> HAVE s = IntMin(XLEN) /\ t = -1
      <4>1. s < 0
        BY Widths, Halves DEF IntMin
      <4>2. t + 1 = 0
        OBVIOUS
      <4> HIDE DEF s, t
      <4> QED  BY <1>1, <4>1, <4>2, QuotMinusOne
    <3>2. RTypeHigh(op, a, b) = Rest(s, t)
      BY <2>1, <2>4, <3>1
    <3> QED  BY <1>1, <1>3, <1>4, <2>2, <2>4, <3>2, QuotInt
  <2> QED  BY <2>3, <2>4
<1>11. CASE op = "remu"
  <2>1. RTypeHigh(op, a, b) = IF b = 0 THEN a ELSE a % b
    BY <1>11 DEF RTypeHigh
  <2>2. Arch!Alu(op, a, b, XLEN) = ToReg(Signed(IF b = 0 THEN a ELSE a % b, XLEN))
    BY <1>1, <1>11, SameCuts DEF Arch!Alu
  <2>3. b # 0 => a % b \in Int
    BY <1>1, DivMod
  <2> QED  BY <1>1, <1>3, <2>1, <2>2, <2>3
<1> QED
  BY <1>5, <1>6, <1>7, <1>8, <1>9, <1>10, <1>11 DEF HighOps

-----------------------------------------------------------------------------
(* Forms of 32 bits *)

(* A register cut to a word, as int32_t and as uint32_t *)
LEMMA WordDoes ==
  ASSUME NEW a \in Nat
  PROVE  /\ Signed(a, W) \in Int /\ Low(a, W) \in Nat
         /\ Cong(Signed(a, W), a, 2^W) /\ Cong(a, Signed(a, W), 2^W)
         /\ Cong(Low(a, W), a, 2^W) /\ Cong(a, Low(a, W), 2^W)
         /\ Signed(a, W) < 2^(W - 1) /\ -(2^(W - 1)) <= Signed(a, W)
BY Widths, LowDoes, SignedDoes

(* A quotient fits where the dividend fits. *)
LEMMA QuotientFits ==
  ASSUME NEW a \in Int, NEW h \in Nat, NEW p \in Nat \ {0}, -h <= a, a < h
  PROVE  -h <= a \div p /\ a \div p < h
<1> DEFINE q == a \div p
           r == a % p
<1>1. q \in Int /\ r \in 0 .. (p - 1) /\ a = q * p + r
  BY DivMod
<1> HIDE DEF q, r
<1>2. ASSUME q < -h PROVE FALSE
  <2>1. q <= -h - 1 /\ -h - 1 < 0
    BY <1>1, <1>2
  <2>2. q * p <= (-h - 1) * p
    BY <1>1, <2>1
  <2>3. (-h - 1) * p = -(h * p) - p /\ h * p >= h /\ h * p \in Int
    OBVIOUS
  <2> QED  BY <1>1, <2>2, <2>3, ProductInt
<1>3. ASSUME q >= h PROVE FALSE
  <2>1. q * p >= h * p /\ h * p >= h /\ h * p \in Int
    BY <1>1, <1>3
  <2> QED  BY <1>1, <2>1, ProductInt
<1> QED  BY <1>1, <1>2, <1>3 DEF q

(* So does a quotient rounded to zero, but for the least number over -1. *)
LEMMA QuotFits ==
  ASSUME NEW a \in Int, NEW b \in Int, NEW h \in Nat \ {0}, -h <= a, a < h, b # 0,
         a # -h \/ b + 1 # 0
  PROVE  -h <= Quot(a, b) /\ Quot(a, b) < h
<1> DEFINE u == IF a < 0 THEN -a ELSE a
           v == IF b < 0 THEN -b ELSE b
           m == u \div v
<1>1. u \in 0 .. h /\ v \in Nat \ {0}
  OBVIOUS
<1>2. Quot(a, b) = IF (a < 0) = (b < 0) THEN m ELSE -m
  BY DEF Quot
<1>3. (a < 0) = (b < 0) /\ u = h => v > 1
  OBVIOUS
<1> DEFINE r == u % v
<1> HIDE DEF u, v
<1>4. m \in Int /\ r \in 0 .. (v - 1) /\ u = m * v + r
  BY <1>1, DivMod
<1> HIDE DEF m, r
<1>5. m * v \in Int /\ m * v <= u
  BY <1>1, <1>4, ProductInt
<1>6. m >= 0
  <2> SUFFICES ASSUME m <= -1 PROVE FALSE
    BY <1>4
  <2>1. m * v <= -v
    BY <1>1, <1>4
  <2> QED  BY <1>1, <1>4, <1>5, <2>1
<1>7. m <= m * v
  BY <1>1, <1>4, <1>6
<1>8. v > 1 /\ m > 0 => m + m <= m * v
  BY <1>1, <1>4
<1>9. m <= h /\ (m = h => u = h /\ ~ (v > 1))
  BY <1>1, <1>4, <1>5, <1>6, <1>7, <1>8
<1> QED
  BY <1>2, <1>3, <1>4, <1>6, <1>9

(* r64::addw to remuw do, where remw and remuw find operands that are words. *)
LEMMA WordRows ==
  ASSUME NEW op \in WordOps, NEW a \in Reg, NEW b \in Reg,
         op \in {"rem", "remu"} => b # 0,
         op = "rem" => S64(b) = Signed(b, W),
         op = "remu" => a < 2^(W - 1) /\ b < 2^W
  PROVE  /\ R64(op, a, b) \in Int
         /\ ToReg(R64(op, a, b)) = Arch!Alu(op, a, b, W)
<1> DEFINE s == Signed(a, W)  t == Signed(b, W)
           l == Low(a, W)  g == Low(b, W)
           k == 2^(b % W)
           h == 2^(W - 1)
           p == 2^W
<1>1. /\ a \in Nat /\ b \in Nat /\ W \in Nat \ {0}
      /\ s \in Int /\ l \in Nat /\ Cong(s, a, p) /\ Cong(a, s, p) /\ Cong(l, a, p) /\ Cong(a, l, p)
      /\ t \in Int /\ g \in Nat /\ Cong(t, b, p) /\ Cong(b, t, p)
      /\ -h <= s /\ s < h /\ -h <= t /\ t < h
      /\ h \in Nat \ {0} /\ p \in Nat \ {0} /\ p = h + h
  BY RegIsNat, WordDoes, Widths, Halves
<1>2. k \in Nat \ {0}
  BY <1>1, ShiftCount
<1>3. \A x \in Int : Signed(x, W) \in Int
  BY <1>1, SignedDoes
<1>4. \A x, y \in Int : Cong(x, y, p) => Signed(x, W) = Signed(y, W)
  BY <1>1, SignedSame
<1>5. \A x \in Int : -h <= x /\ x < h => Signed(x, W) = x
  BY <1>1, SignedFixed
<1>6. t = 0 <=> g = 0
  BY <1>1, SignedIsZero
<1>7. CASE op = "add"
  <2>1. R64(op, a, b) = Signed(a + b, W)
    BY <1>7 DEF R64
  <2>2. Arch!Alu(op, a, b, W) = ToReg(Signed(s + t, W))
    BY <1>7, SameCuts DEF Arch!Alu
  <2> HIDE DEF s, t, p
  <2>3. Cong(a + b, s + t, p)
    BY <1>1, CongSum
  <2> QED  BY <1>1, <1>3, <1>4, <2>1, <2>2, <2>3
<1>8. CASE op = "sub"
  <2>1. R64(op, a, b) = Signed(a - b, W)
    BY <1>8 DEF R64
  <2>2. Arch!Alu(op, a, b, W) = ToReg(Signed(s - t, W))
    BY <1>8, SameCuts DEF Arch!Alu
  <2> HIDE DEF s, t, p
  <2>3. Cong(a - b, s - t, p)
    BY <1>1, CongSum
  <2> QED  BY <1>1, <1>3, <1>4, <2>1, <2>2, <2>3
<1>9. CASE op = "mul"
  <2>1. R64(op, a, b) = Signed(a * b, W)
    BY <1>9 DEF R64
  <2>2. Arch!Alu(op, a, b, W) = ToReg(Signed(s * t, W))
    BY <1>9, SameCuts DEF Arch!Alu
  <2> HIDE DEF s, t, p
  <2>3. Cong(a * b, s * t, p) /\ a * b \in Int /\ s * t \in Int
    BY <1>1, CongProduct, ProductInt
  <2> QED  BY <1>3, <1>4, <2>1, <2>2, <2>3
<1>10. CASE op = "sll"
  <2>1. R64(op, a, b) = Signed(a * k, W)
    BY <1>10 DEF R64
  <2>2. Arch!Alu(op, a, b, W) = ToReg(Signed(l * k, W))
    BY <1>10, SameCuts DEF Arch!Alu
  <2> HIDE DEF l, k, p
  <2>3. Cong(k, k, p)
    BY <1>1, <1>2, CongSelf
  <2>4. Cong(a * k, l * k, p) /\ a * k \in Int /\ l * k \in Int
    BY <1>1, <1>2, <2>3, CongProduct, ProductInt
  <2> QED  BY <1>3, <1>4, <2>1, <2>2, <2>4
<1>11. CASE op = "srl"
  <2>1. R64(op, a, b) = Signed(l \div k, W)
    BY <1>11 DEF R64
  <2>2. Arch!Alu(op, a, b, W) = ToReg(Signed(l \div k, W))
    BY <1>11, SameCuts DEF Arch!Alu
  <2>3. l \div k \in Int
    BY <1>1, <1>2, QuotientInt
  <2> QED  BY <1>3, <2>1, <2>2, <2>3
<1>12. CASE op = "sra"
  <2>1. R64(op, a, b) = s \div k
    BY <1>12 DEF R64
  <2>2. Arch!Alu(op, a, b, W) = ToReg(Signed(s \div k, W))
    BY <1>12, SameCuts DEF Arch!Alu
  <2> HIDE DEF s, k, h
  <2>3. s \div k \in Int /\ -h <= s \div k /\ s \div k < h
    BY <1>1, <1>2, QuotientInt, QuotientFits
  <2> QED  BY <1>5, <2>1, <2>2, <2>3
<1>13. CASE op = "div"
  <2>1. R64(op, a, b) = IF t = 0 THEN 2^XLEN - 1
                        ELSE IF s = -h /\ t = -1 THEN s ELSE Quot(s, t)
    BY <1>13 DEF R64, IntMin
  <2>2. Arch!Alu(op, a, b, W) = ToReg(Signed(IF t = 0 THEN -1 ELSE Quot(s, t), W))
    BY <1>13, SameCuts DEF Arch!Alu
  <2> HIDE DEF s, t, h, p
  <2>3. CASE t = 0
    <3>1. -1 \in Int /\ -h <= -1 /\ -1 < h
      BY <1>1
    <3>2. Signed(-1, W) = -1
      BY <1>5, <3>1
    <3> QED  BY <2>1, <2>2, <2>3, <3>2, AllOnes
  <2>4. CASE t # 0 /\ s = -h /\ t + 1 = 0
    <3>1. Quot(s, t) = h
      BY <1>1, <2>4, QuotMinusOne
    <3>2. s = h + (-1) * p /\ -1 \in Int
      BY <1>1, <2>4
    <3>3. Cong(s, h, p)
      BY <3>2 DEF Cong
    <3>4. Signed(h, W) = Signed(s, W) /\ Signed(s, W) = s
      BY <1>1, <1>4, <1>5, <3>3
    <3>5. t = -1
      BY <1>1, <2>4
    <3> QED  BY <1>1, <2>1, <2>2, <2>4, <3>1, <3>4, <3>5
  <2>5. CASE t # 0 /\ ~ (s = -h /\ t + 1 = 0)
    <3>1. Quot(s, t) \in Int /\ -h <= Quot(s, t) /\ Quot(s, t) < h
      BY <1>1, <2>5, QuotFits, QuotInt
    <3>2. ~ (s = -h /\ t = -1)
      BY <1>1, <2>5
    <3> QED  BY <1>5, <2>1, <2>2, <2>5, <3>1, <3>2
  <2> QED  BY <2>3, <2>4, <2>5
<1>14. CASE op = "divu"
  <2>1. R64(op, a, b) = IF t = 0 THEN 2^XLEN - 1 ELSE Signed(l \div g, W)
    BY <1>14 DEF R64
  <2>2. Arch!Alu(op, a, b, W) = ToReg(Signed(IF g = 0 THEN -1 ELSE l \div g, W))
    BY <1>14, SameCuts DEF Arch!Alu
  <2> HIDE DEF t, l, g, h
  <2>3. CASE t = 0
    <3>1. -1 \in Int /\ -h <= -1 /\ -1 < h
      BY <1>1
    <3>2. Signed(-1, W) = -1
      BY <1>5, <3>1
    <3> QED  BY <1>6, <2>1, <2>2, <2>3, <3>2, AllOnes
  <2>4. CASE t # 0
    <3>1. l \div g \in Int
      BY <1>1, <1>6, <2>4, QuotientInt
    <3> QED  BY <1>3, <1>6, <2>1, <2>2, <2>4, <3>1
  <2> QED  BY <2>3, <2>4
<1>15. CASE op = "rem"
  <2>1. R64(op, a, b) = Signed(Rest(s, t), W)
    BY <1>15 DEF R64
  <2>2. Arch!Alu(op, a, b, W) = ToReg(Signed(IF t = 0 THEN s ELSE Rest(s, t), W))
    BY <1>15, SameCuts DEF Arch!Alu
  <2>3. t # 0
    BY <1>15, RegIsZero
  <2> QED  BY <1>1, <1>3, <2>1, <2>2, <2>3, QuotInt
<1>16. CASE op = "remu"
  <2>1. R64(op, a, b) = a % b
    BY <1>16 DEF R64
  <2>2. a < h /\ b < p /\ b # 0 /\ a < p
    BY <1>1, <1>16
  <2>3. l = a /\ g = b
    BY <1>1, <2>2, LowFixed
  <2>4. Arch!Alu(op, a, b, W) = ToReg(Signed(a % b, W))
    BY <1>16, <2>2, <2>3, SameCuts DEF Arch!Alu
  <2> HIDE DEF h
  <2> DEFINE d == a \div b
             r == a % b
  <2>5. b \in Nat \ {0} /\ a \in Int
    BY <1>1, <2>2
  <2>6. d \in Int /\ r \in 0 .. (b - 1) /\ a = d * b + r
    BY <2>5, DivMod
  <2>7. b > a => r = a
    BY <1>1, <2>5
  <2> HIDE DEF d, r
  <2>8. r \in Int /\ -h <= r /\ r < h
    <3>1. CASE b > a
      BY <1>1, <2>2, <2>6, <2>7, <3>1
    <3>2. CASE ~ (b > a)
      BY <1>1, <2>2, <2>6, <3>2
    <3> QED  BY <3>1, <3>2
  <2> QED  BY <1>5, <2>1, <2>4, <2>8 DEF r
<1> QED
  BY <1>7, <1>8, <1>9, <1>10, <1>11, <1>12, <1>13, <1>14, <1>15, <1>16 DEF WordOps

-----------------------------------------------------------------------------
(* Immediates, compressed sums and branches *)

(* A shift count below the width is its own remainder. *)
LEMMA SmallShift == ASSUME NEW i \in Nat, NEW n \in Nat \ {0}, i < n
  PROVE  i % n = i /\ 2^i \in Nat \ {0}
<1>1. i = 0 * n + i /\ i \in 0 .. (n - 1)
  OBVIOUS
<1>2. i % n = i
  BY <1>1, DivModIs
<1> QED  BY <1>2, PowerIsPositive

(* The bit that says srai shifts by a multiple of the width. *)
LEMMA SraiCount == ASSUME NEW i \in Nat, i < XLEN PROVE (16 * XLEN + i) % XLEN = i
<1> DEFINE n == XLEN
<1>1. n \in Nat \ {0} /\ i < n
  BY Widths
<1> HIDE DEF n
<1>2. 16 * n + i \in Int /\ i \in 0 .. (n - 1)
  BY <1>1
<1>3. (16 * n + i) % n = i
  BY <1>1, <1>2, DivModIs
<1> QED  BY <1>3 DEF n

(* itype does, shifts by less than the width. *)
LEMMA ImmRows ==
  ASSUME NEW op \in {"add", "slt", "sltu", "xor", "or", "and"} \cup ShiftOps,
         NEW a \in Reg, NEW imm \in Reg, op \in ShiftOps => imm < XLEN
  PROVE  /\ IType(op, a, imm) \in Int
         /\ ToReg(IType(op, a, imm)) = Arch!Alu(op, a, imm, XLEN)
<1> DEFINE s == S64(a)  t == S64(imm)
           k == 2^imm
<1>1. /\ a \in Nat /\ Low(a, XLEN) = a /\ s = Signed(a, XLEN) /\ s \in Int
      /\ imm \in Nat /\ Low(imm, XLEN) = imm /\ t = Signed(imm, XLEN) /\ t \in Int
      /\ Cong(s, a, 2^XLEN) /\ Cong(a, s, 2^XLEN) /\ Cong(t, imm, 2^XLEN) /\ Cong(imm, t, 2^XLEN)
  BY RegDoes
<1>2. \A v \in Int : ToReg(Signed(v, XLEN)) = ToReg(v)
  BY ToRegSigned
<1>3. CASE op = "add"
  <2>1. IType(op, a, imm) = a + imm
    BY <1>3 DEF IType
  <2>2. Arch!Alu(op, a, imm, XLEN) = ToReg(Signed(s + t, XLEN))
    BY <1>1, <1>3, SameCuts DEF Arch!Alu
  <2> DEFINE p == 2^XLEN
  <2>3. p \in Nat /\ Cong(a, s, p) /\ Cong(imm, t, p)
    BY <1>1, Widths, PowerIsPositive
  <2> HIDE DEF s, t, p
  <2>4. Cong(a + imm, s + t, p) /\ s + t \in Int /\ a + imm \in Int
    <3>1. a \in Int /\ imm \in Int /\ s \in Int /\ t \in Int /\ p \in Nat
      BY <1>1, <2>3
    <3>2. Cong(a + imm, s + t, p)
      BY <2>3, <3>1, CongSum
    <3> QED  BY <3>1, <3>2
  <2>5. ToReg(a + imm) = ToReg(s + t)
    <3> DEFINE u == a + imm
               v == s + t
    <3>1. u \in Int /\ v \in Int /\ Cong(u, v, 2^XLEN)
      BY <2>4 DEF p
    <3> HIDE DEF u, v
    <3>2. ToReg(u) = ToReg(v)
      BY <3>1, ToRegSame
    <3> QED  BY <3>2 DEF u, v
  <2> QED  BY <1>2, <2>1, <2>2, <2>4, <2>5
<1>4. CASE op = "slt"
  <2>1. IType(op, a, imm) = Truth(s < t)
    BY <1>4 DEF IType
  <2>2. Arch!Alu(op, a, imm, XLEN) = ToReg(Signed(Truth(s < t), XLEN))
    BY <1>1, <1>4, SameCuts DEF Arch!Alu
  <2>3. Truth(s < t) \in Int
    BY DEF Truth
  <2> QED  BY <1>2, <2>1, <2>2, <2>3
<1>5. CASE op = "sltu"
  <2>1. IType(op, a, imm) = Truth(a < imm)
    BY <1>5 DEF IType
  <2>2. Arch!Alu(op, a, imm, XLEN) = ToReg(Signed(Truth(a < imm), XLEN))
    BY <1>1, <1>5, SameCuts DEF Arch!Alu
  <2>3. Truth(a < imm) \in Int
    BY DEF Truth
  <2> QED  BY <1>2, <2>1, <2>2, <2>3
<1>6. CASE op \in {"xor", "or", "and"}
  <2>1. IType(op, a, imm) \in Nat
    BY <1>6, BitwiseIsNat DEF IType
  <2>2. Arch!Alu(op, a, imm, XLEN) = ToReg(Signed(IType(op, a, imm), XLEN))
    BY <1>1, <1>6, SameCuts, SameBits DEF Arch!Alu, IType
  <2> QED  BY <1>2, <2>1, <2>2
<1>7. CASE op \in ShiftOps
  <2>1. imm % XLEN = imm /\ k \in Nat \ {0} /\ (16 * XLEN + imm) % XLEN = imm
    BY <1>1, <1>7, Widths, SmallShift, SraiCount
  <2>2. CASE op = "sll"
    <3>1. IType(op, a, imm) = a * k
      BY <2>2 DEF IType
    <3>2. Arch!Alu(op, a, imm, XLEN) = ToReg(Signed(a * k, XLEN))
      BY <1>1, <2>1, <2>2, SameCuts DEF Arch!Alu
    <3>3. a * k \in Int
      BY <1>1, <2>1, ProductInt
    <3> QED  BY <1>2, <3>1, <3>2, <3>3
  <2>3. CASE op = "srl"
    <3>1. IType(op, a, imm) = a \div k
      BY <2>3 DEF IType
    <3>2. Arch!Alu(op, a, imm, XLEN) = ToReg(Signed(a \div k, XLEN))
      BY <1>1, <2>1, <2>3, SameCuts DEF Arch!Alu
    <3>3. a \div k \in Int
      BY <1>1, <2>1, QuotientInt
    <3> QED  BY <1>2, <3>1, <3>2, <3>3
  <2>4. CASE op = "sra"
    <3>1. IType(op, a, imm) = s \div k
      BY <2>1, <2>4 DEF IType
    <3>2. Arch!Alu(op, a, imm, XLEN) = ToReg(Signed(s \div k, XLEN))
      BY <1>1, <2>1, <2>4, SameCuts DEF Arch!Alu
    <3>3. s \div k \in Int
      BY <1>1, <2>1, QuotientInt
    <3> QED  BY <1>2, <3>1, <3>2, <3>3
  <2> QED  BY <1>7, <2>2, <2>3, <2>4 DEF ShiftOps
<1> QED
  BY <1>3, <1>4, <1>5, <1>6, <1>7

(* i64, and the compressed forms that work on words *)
LEMMA WordSum ==
  ASSUME NEW a \in Reg, NEW b \in Reg
  PROVE  /\ Signed(a + b, W) \in Int /\ ToReg(Signed(a + b, W)) = Arch!Alu("add", a, b, W)
         /\ Signed(a - b, W) \in Int /\ ToReg(Signed(a - b, W)) = Arch!Alu("sub", a, b, W)
<1>1. "add" \in WordOps /\ "sub" \in WordOps
  BY DEF WordOps
<1>2. R64("add", a, b) = Signed(a + b, W) /\ R64("sub", a, b) = Signed(a - b, W)
  BY DEF R64
<1> QED  BY <1>1, <1>2, WordRows

LEMMA WordImmRows ==
  ASSUME NEW op \in {"add"} \cup ShiftOps, NEW a \in Reg, NEW imm \in Reg, op \in ShiftOps => imm < W
  PROVE  /\ I64(op, a, imm) \in Int
         /\ ToReg(I64(op, a, imm)) = Arch!Alu(op, a, imm, W)
<1>1. CASE op = "add"
  BY <1>1, WordSum DEF I64
<1>2. CASE op \in ShiftOps
  <2>1. imm \in Nat /\ W \in Nat \ {0}
    BY RegIsNat, Widths
  <2>2. imm % W = imm
    BY <1>2, <2>1, SmallShift
  <2>3. I64(op, a, imm) = R64(op, a, imm)
    BY <1>2, <2>2 DEF I64, R64, ShiftOps
  <2>4. op \in WordOps /\ op \notin {"rem", "remu"}
    BY <1>2 DEF ShiftOps, WordOps
  <2> QED  BY <2>3, <2>4, WordRows
<1> QED  BY <1>1, <1>2

(* btype takes the branches that the architecture takes. *)
LEMMA BranchRows ==
  ASSUME NEW op \in BranchOps, NEW a \in Reg, NEW b \in Reg
  PROVE  BType(op, a, b) = Arch!Taken(op, a, b)
<1>1. S64(a) = S64(b) <=> a = b
  <2> SUFFICES ASSUME S64(a) = S64(b) PROVE a = b
    OBVIOUS
  <2>1. ToReg(S64(a)) = ToReg(a) /\ ToReg(S64(b)) = ToReg(b)
    BY RegDoes, ToRegSigned DEF S64
  <2> QED  BY <2>1, ToRegFixed
<1>2. S64(a) = Signed(a, XLEN) /\ S64(b) = Signed(b, XLEN)
  BY DEF S64
<1>3. Arch!Signed(a, XLEN) = S64(a) /\ Arch!Signed(b, XLEN) = S64(b) /\ Arch!XLEN = XLEN
  BY <1>2, SameCuts, SameWidths
<1> QED
  BY <1>1, <1>3 DEF BType, Arch!Taken, BranchOps

-----------------------------------------------------------------------------
(* The invariant *)

(* A restarted instruction has changed no register but the one it writes, and
   finds its operands as the first attempt did. *)
Agrees ==
  \A r \in Regs :
    \/ live[r] = before[r]
    \/ r = insn.rd /\ r # 0 /\ r \notin {insn.rs1, insn.rs2} /\ insn.kind \in {"load", "amo"}

Inv ==
  /\ TypeOK
  /\ insn # None => insn \in Insns /\ Fits(insn) /\ ~ Undefined(insn) /\ Exact(insn) /\ Agrees

(* ctype::sub subtracts the registers as unsigned numbers. *)
LEMMA RegDiff ==
  ASSUME NEW a \in Reg, NEW b \in Reg
  PROVE  a - b \in Int /\ ToReg(a - b) = Arch!Alu("sub", a, b, XLEN)
<1> DEFINE s == S64(a)  t == S64(b)
           p == 2^XLEN
           u == a - b
           v == s - t
<1>1. /\ a \in Int /\ b \in Int /\ s \in Int /\ t \in Int /\ p \in Nat
      /\ Cong(a, s, p) /\ Cong(b, t, p)
  BY RegDoes, Widths, PowerIsPositive
<1>2. "sub" \in LowOps /\ RTypeLow("sub", a, b) = v
  BY DEF LowOps, RTypeLow
<1>3. ToReg(v) = Arch!Alu("sub", a, b, XLEN)
  BY <1>2, LowRows
<1> HIDE DEF s, t, p
<1>4. Cong(u, v, p) /\ u \in Int /\ v \in Int
  BY <1>1, CongSum
<1> HIDE DEF u, v
<1>5. ToReg(u) = ToReg(v)
  BY <1>4, ToRegSame DEF p
<1> QED  BY <1>3, <1>4, <1>5 DEF u

(* 0 fits a register. *)
LEMMA ZeroIsReg == 0 \in Reg
BY Widths, PowerIsPositive DEF Reg

(* What an instruction in flight finds, once it is issued or restarted *)
LEMMA Operands ==
  ASSUME Inv, insn # None
  PROVE  /\ live \in [Regs -> Reg] /\ before \in [Regs -> Reg] /\ regs \in [Regs -> Reg]
         /\ insn.rd \in Regs /\ insn.rs1 \in Regs /\ insn.rs2 \in Regs /\ insn.imm \in Reg
         /\ Encodable(insn)
         /\ live[0] = 0 /\ before[0] = 0
         /\ live[insn.rs1] = before[insn.rs1] /\ live[insn.rs2] = before[insn.rs2]
         /\ live[insn.rs1] \in Reg /\ live[insn.rs2] \in Reg /\ live[insn.rd] \in Reg
         /\ \A r \in Regs : r # insn.rd => live[r] = before[r]
         /\ insn.kind \notin {"load", "amo"} => live = before
<1>1. live \in [Regs -> Reg] /\ before \in [Regs -> Reg] /\ live[0] = 0 /\ regs \in [Regs -> Reg]
  BY ZeroIsReg DEF Inv, TypeOK, live, Regs
<1>2. Encodable(insn) /\ insn.rd \in Regs /\ insn.rs1 \in Regs /\ insn.rs2 \in Regs /\ insn.imm \in Reg
  BY InsnAssumption DEF InsnAssumption, Inv, Encodable
<1>3. Agrees
  BY DEF Inv
<1>4. 0 \in Regs
  BY DEF Regs
<1>5. before[0] = 0
  BY <1>1, <1>3, <1>4 DEF Agrees
<1>6. insn.kind \notin {"load", "amo"} => live = before
  BY <1>1, <1>3 DEF Agrees
<1> QED
  BY <1>1, <1>2, <1>3, <1>5, <1>6 DEF Agrees

(* The register-register forms compute what the architecture says. *)
LEMMA OpsAreExact ==
  ASSUME Inv, insn # None, insn.kind = "op"
  PROVE  /\ RegValue(insn) \in Int
         /\ ToReg(RegValue(insn)) = Arch!Alu(insn.op, live[insn.rs1], live[insn.rs2], insn.n)
<1> DEFINE a == live[insn.rs1]
           b == live[insn.rs2]
<1>1. a \in Reg /\ b \in Reg /\ live[0] = 0
  BY Operands
<1>2. OpForm(insn)
  BY Operands DEF Encodable
<1>3. W # XLEN
  BY Widths
<1>4. ~ Undefined(insn) /\ Exact(insn)
  BY DEF Inv
<1>5. CASE insn.size = 4 /\ insn.n = XLEN /\ insn.op \in LowOps
  <2>1. RegValue(insn) = RTypeLow(insn.op, a, b)
    BY <1>3, <1>5 DEF RegValue
  <2> HIDE DEF a, b
  <2> QED  BY <1>1, <1>5, <2>1, LowRows DEF a, b
<1>6. CASE insn.size = 4 /\ insn.n = XLEN /\ insn.op \in HighOps
  <2>1. RegValue(insn) = RTypeHigh(insn.op, a, b)
    BY <1>3, <1>6 DEF RegValue, LowOps, HighOps
  <2>2. /\ insn.op = "div" => S64(a) # IntMin(W) \/ S64(b) # -1
        /\ insn.op = "sra" => S64(a) = Signed(a, W) /\ b % XLEN < W
    BY <1>4, <1>6 DEF Exact
  <2> HIDE DEF a, b
  <2> QED  BY <1>1, <1>6, <2>1, <2>2, HighRows DEF a, b
<1>7. CASE insn.size = 4 /\ insn.n = W /\ insn.op \in WordOps
  <2>1. RegValue(insn) = R64(insn.op, a, b)
    BY <1>3, <1>7 DEF RegValue
  <2>2. /\ insn.op \in {"rem", "remu"} => b # 0
        /\ insn.op = "rem" => S64(b) = Signed(b, W)
        /\ insn.op = "remu" => a < 2^(W - 1) /\ b < 2^W
    BY <1>4, <1>7 DEF Exact, Undefined
  <2> HIDE DEF a, b
  <2> QED  BY <1>1, <1>7, <2>1, <2>2, WordRows DEF a, b
<1>8. CASE /\ insn.size = 2 /\ insn.n = XLEN /\ insn.rs1 = insn.rd
           /\ insn.op \in {"sub", "xor", "or", "and", "add"}
  <2>1. insn.op \in {"xor", "or", "and"} =>
          RegValue(insn) = IType(insn.op, a, b)
    BY <1>8 DEF RegValue, CReg, IType
  <2>2. insn.op = "add" => RegValue(insn) = IType("add", a, b)
    <3>1. insn.rs1 = 0 => 0 + b = b /\ a = 0
      BY <1>1, RegIsNat
    <3>2. insn.op = "add" => RegValue(insn) = IF insn.rs1 = 0 THEN b ELSE a + b
      BY <1>3, <1>8 DEF RegValue, CReg
    <3>3. IType("add", a, b) = a + b
      BY DEF IType
    <3> QED  BY <3>1, <3>2, <3>3
  <2>3. insn.op = "sub" => RegValue(insn) = a - b
    BY <1>3, <1>8 DEF RegValue, CReg
  <2> HIDE DEF a, b
  <2>4. insn.op \in {"xor", "or", "and", "add"} =>
          /\ IType(insn.op, a, b) \in Int
          /\ ToReg(IType(insn.op, a, b)) = Arch!Alu(insn.op, a, b, XLEN)
    BY <1>1, ImmRows DEF ShiftOps
  <2>5. a - b \in Int /\ ToReg(a - b) = Arch!Alu("sub", a, b, XLEN)
    BY <1>1, RegDiff
  <2> QED  BY <1>8, <2>1, <2>2, <2>3, <2>4, <2>5 DEF a, b
<1>9. CASE insn.size = 2 /\ insn.n = XLEN /\ insn.op = "add" /\ insn.rs1 = 0
  <2>1. RegValue(insn) = b /\ a = 0
    BY <1>1, <1>3, <1>9 DEF RegValue, CReg
  <2>2. IType("add", a, b) = b
    BY <1>1, <2>1, RegIsNat DEF IType
  <2> HIDE DEF a, b
  <2>3. IType("add", a, b) \in Int /\ ToReg(IType("add", a, b)) = Arch!Alu("add", a, b, XLEN)
    BY <1>1, ImmRows DEF ShiftOps
  <2> QED  BY <1>9, <2>1, <2>2, <2>3 DEF a, b
<1>10. CASE insn.size = 2 /\ insn.n = W /\ insn.op \in {"sub", "add"} /\ insn.rs1 = insn.rd
  <2>1. RegValue(insn) = IF insn.op = "sub" THEN Signed(a - b, W) ELSE Signed(a + b, W)
    BY <1>10 DEF RegValue, CReg
  <2> HIDE DEF a, b
  <2> QED  BY <1>1, <1>10, <2>1, WordSum DEF a, b
<1> QED
  BY <1>2, <1>5, <1>6, <1>7, <1>8, <1>9, <1>10 DEF OpForm

(* The register-immediate forms do. *)
LEMMA ImmsAreExact ==
  ASSUME Inv, insn # None, insn.kind = "opimm"
  PROVE  /\ ImmValue(insn) \in Int
         /\ ToReg(ImmValue(insn)) = Arch!Alu(insn.op, live[insn.rs1], insn.imm, insn.n)
<1> DEFINE a == live[insn.rs1]
           b == insn.imm
<1>1. a \in Reg /\ b \in Reg /\ live[0] = 0
  BY Operands
<1>2. ImmForm(insn)
  BY Operands DEF Encodable
<1>3. W # XLEN
  BY Widths
<1>4. CASE /\ insn.size = 4 /\ insn.n = XLEN
           /\ \/ insn.op \in {"add", "slt", "sltu", "xor", "or", "and"}
              \/ insn.op \in ShiftOps /\ b < insn.n
  <2>1. ImmValue(insn) = IType(insn.op, a, b)
    BY <1>3, <1>4 DEF ImmValue
  <2>2. insn.op \in ShiftOps => b < XLEN
    BY <1>4 DEF ShiftOps
  <2> HIDE DEF a, b
  <2>3. insn.op \in {"add", "slt", "sltu", "xor", "or", "and"} \cup ShiftOps
    BY <1>4
  <2>4. IType(insn.op, a, b) \in Int /\ ToReg(IType(insn.op, a, b)) = Arch!Alu(insn.op, a, b, XLEN)
    BY ONLY <1>1, <2>2, <2>3, ImmRows
  <2>5. insn.n = XLEN
    BY <1>4
  <2> QED  BY <2>1, <2>4, <2>5 DEF a, b
<1>5. CASE insn.size = 4 /\ insn.n = W /\ (insn.op = "add" \/ (insn.op \in ShiftOps /\ b < insn.n))
  <2>1. ImmValue(insn) = I64(insn.op, a, b)
    BY <1>3, <1>5 DEF ImmValue
  <2>2. insn.op \in ShiftOps => b < W
    BY <1>5 DEF ShiftOps
  <2> HIDE DEF a, b
  <2>3. insn.op \in {"add"} \cup ShiftOps
    BY <1>5
  <2>4. I64(insn.op, a, b) \in Int /\ ToReg(I64(insn.op, a, b)) = Arch!Alu(insn.op, a, b, W)
    BY ONLY <1>1, <2>2, <2>3, WordImmRows
  <2>5. insn.n = W
    BY <1>5
  <2> QED  BY <2>1, <2>4, <2>5 DEF a, b
<1>6. CASE insn.size = 2 /\ insn.n = XLEN /\ insn.op \in {"add", "and"}
  <2>1. ImmValue(insn) = IType(insn.op, a, b)
    <3>1. insn.rs1 = 0 => 0 + b = b /\ a = 0
      BY <1>1, RegIsNat
    <3>2. insn.op = "add" => ImmValue(insn) = IF insn.rs1 = 0 THEN b ELSE a + b
      BY <1>3, <1>6 DEF ImmValue, CImm
    <3>3. insn.op = "and" => ImmValue(insn) = And(a, b)
      BY <1>3, <1>6 DEF ImmValue, CImm
    <3>4. IType("add", a, b) = a + b /\ IType("and", a, b) = And(a, b)
      BY DEF IType
    <3> QED  BY <1>6, <3>1, <3>2, <3>3, <3>4
  <2> HIDE DEF a, b
  <2> QED  BY <1>1, <1>6, <2>1, ImmRows DEF a, b, ShiftOps
<1>7. CASE insn.size = 2 /\ insn.n = XLEN /\ insn.op \in ShiftOps /\ b < insn.n
  <2>1. (16 * XLEN + b) % XLEN = b
    BY <1>1, <1>7, RegIsNat, SraiCount
  <2>2. ImmValue(insn) = IType(insn.op, a, b)
    BY <1>7, <2>1 DEF ImmValue, CImm, IType, ShiftOps
  <2>3. b < XLEN
    BY <1>7
  <2> HIDE DEF a, b
  <2>4. insn.op \in {"add", "slt", "sltu", "xor", "or", "and"} \cup ShiftOps
    BY <1>7
  <2>5. IType(insn.op, a, b) \in Int /\ ToReg(IType(insn.op, a, b)) = Arch!Alu(insn.op, a, b, XLEN)
    BY ONLY <1>1, <2>3, <2>4, ImmRows
  <2>6. insn.n = XLEN
    BY <1>7
  <2> QED  BY <2>2, <2>5, <2>6 DEF a, b
<1>8. CASE insn.size = 2 /\ insn.n = W /\ insn.op = "add" /\ insn.rs1 = insn.rd
  <2>1. ImmValue(insn) = Signed(a + b, W)
    <3>1. ImmValue(insn) = CImm(insn)
      BY <1>8 DEF ImmValue
    <3>2. CImm(insn) = Signed(live[insn.rd] + insn.imm, W)
      BY <1>3, <1>8 DEF CImm
    <3> QED  BY <1>8, <3>1, <3>2
  <2> HIDE DEF a, b
  <2> QED  BY <1>1, <1>8, <2>1, WordSum DEF a, b
<1> QED
  BY <1>2, <1>4, <1>5, <1>6, <1>7, <1>8 DEF ImmForm

(* What an atomic access stores is what the architecture stores, at its width. *)
LEMMA AmosAreExact ==
  ASSUME NEW op \in AmoOps, NEW n \in {W, XLEN}, NEW old \in Int, NEW val \in Int
  PROVE  /\ AmoValue(op, old, val, n) \in Int /\ Arch!Alu(op, old, val, n) \in Int
         /\ Cong(AmoValue(op, old, val, n), Arch!Alu(op, old, val, n), 2^n)
<1> DEFINE s == Signed(old, n)  t == Signed(val, n)
           l == Low(old, n)  g == Low(val, n)
           x == AmoValue(op, old, val, n)
           p == 2^n
<1>1. n \in Nat \ {0} /\ n <= XLEN
  BY Widths
<1>2. s \in Int /\ t \in Int /\ l \in Int /\ g \in Int /\ p \in Nat \ {0}
  <2>1. n \in Nat
    BY <1>1
  <2>2. s \in Int /\ t \in Int
    BY <1>1, SignedDoes
  <2>3. l \in Nat /\ g \in Nat /\ p \in Nat \ {0}
    BY <2>1, LowDoes
  <2> QED  BY <2>2, <2>3
<1>3. Xor(l, g) \in Int /\ Or(l, g) \in Int /\ And(l, g) \in Int
  BY BitwiseIsNat
<1>4. x \in Int
  <2>1. op \in {"xor", "or", "and"} => x \in {Xor(l, g), Or(l, g), And(l, g)}
    BY DEF AmoValue
  <2>2. op \in {"swap", "min", "max", "minu", "maxu"} => x \in {s, t, l, g}
    BY DEF AmoValue
  <2>3. op = "add" => x = s + t
    BY DEF AmoValue
  <2> HIDE DEF x, s, t, l, g
  <2> QED  BY <1>2, <1>3, <2>1, <2>2, <2>3 DEF AmoOps
<1>5. Arch!Alu(op, old, val, n) = ToReg(Signed(x, n))
  <2>1. CASE op \in {"add", "swap"}
    BY <2>1, SameCuts DEF Arch!Alu, AmoValue
  <2>2. CASE op \in {"xor", "or", "and"}
    BY <2>2, SameCuts, SameBits DEF Arch!Alu, AmoValue
  <2>3. CASE op \in {"min", "max"}
    <3>1. (IF t < s THEN t ELSE s) = (IF s < t THEN s ELSE t)
      BY <1>2
    <3> QED  BY <2>3, <3>1, SameCuts DEF Arch!Alu, AmoValue
  <2>4. CASE op \in {"minu", "maxu"}
    <3>1. (IF g < l THEN g ELSE l) = (IF l < g THEN l ELSE g)
      BY <1>2
    <3> QED  BY <2>4, <3>1, SameCuts DEF Arch!Alu, AmoValue
  <2> QED  BY <2>1, <2>2, <2>3, <2>4 DEF AmoOps
<1> HIDE DEF x, p
<1> DEFINE y == Signed(x, n)
<1>6. y \in Int /\ Cong(x, y, p)
  BY <1>1, <1>4, SignedDoes DEF p
<1> HIDE DEF y
<1>7. ToReg(y) \in Int /\ Cong(ToReg(y), y, p)
  BY <1>1, <1>6, ToRegDoes, ToRegCong DEF p
<1>8. Cong(y, ToReg(y), p)
  BY <1>2, <1>6, <1>7, CongSym
<1>9. Cong(x, ToReg(y), p)
  BY <1>2, <1>4, <1>6, <1>7, <1>8, CongTrans
<1> QED  BY <1>4, <1>5, <1>7, <1>9 DEF x, p, y

(* An access is within memory and finds what the architecture finds. *)
LEMMA Accesses ==
  ASSUME Inv, insn # None, insn.kind \in {"load", "store", "amo"}
  PROVE  /\ insn.n \in {Unit, 2 * Unit, W, XLEN}
         /\ Address(insn) \in Reg /\ Address(insn) \in Int
         /\ Arch!ToReg(before[insn.rs1] + insn.imm) = Address(insn)
         /\ Loaded(insn) \in Reg /\ Loaded(insn) \in Int
         /\ Arch!Old(insn) = Loaded(insn)
         /\ mem \in [DOMAIN mem -> Byte]
<1> DEFINE a == before[insn.rs1] + insn.imm
           n == insn.n
<1>1. n \in {Unit, 2 * Unit, W, XLEN}
  BY Operands DEF Encodable, AccessForm
<1>2. a \in Int /\ live[insn.rs1] = before[insn.rs1]
  <2>1. before[insn.rs1] \in Nat /\ insn.imm \in Nat /\ live[insn.rs1] = before[insn.rs1]
    BY Operands, RegIsNat
  <2> QED  BY <2>1
<1>3. Address(insn) = ToReg(a) /\ Arch!ToReg(a) = ToReg(a)
  BY <1>2, SameCuts DEF Address
<1> HIDE DEF a
<1>4. Address(insn) \in Reg /\ Address(insn) \in Int
  BY <1>2, <1>3, ToRegDoes
<1>5. mem \in [DOMAIN mem -> Byte] /\ Bytes(Address(insn), n) \subseteq DOMAIN mem
  BY DEF Inv, TypeOK, Fits
<1>6. Loaded(insn) \in 0 .. (2^n - 1)
  BY <1>1, <1>4, <1>5, LoadFits DEF Loaded
<1>7. Loaded(insn) \in Reg /\ Loaded(insn) \in Int
  <2> DEFINE p == 2^n
             q == 2^(XLEN - n)
             r == 2^XLEN
  <2>1. n \in Nat /\ XLEN \in Nat /\ n <= XLEN
    BY <1>1, SizeCounts, Widths
  <2>2. p \in Nat \ {0} /\ q \in Nat \ {0} /\ r = p * q
    BY <2>1, Divides
  <2>3. Loaded(insn) \in 0 .. (p - 1)
    BY <1>6
  <2> HIDE DEF p, q, r
  <2>4. p <= p * q /\ r \in Nat
    BY <2>2
  <2>5. Loaded(insn) \in 0 .. (r - 1) /\ Loaded(insn) \in Int
    BY <2>2, <2>3, <2>4
  <2> QED  BY <2>5 DEF r, Reg
<1>8. Arch!Old(insn) = Loaded(insn)
  BY <1>3, SameMemory DEF Arch!Old, Arch!Rs1, Loaded, a
<1> QED
  BY <1>1, <1>3, <1>4, <1>5, <1>7, <1>8 DEF a

-----------------------------------------------------------------------------
(* Steps *)

(* After a handler has written rd, software sees the registers of the issue with
   rd changed. *)
LEMMA PutDoes ==
  ASSUME Inv, insn # None, NEW v \in Int, Put(insn.rd, v)
  PROVE  /\ regs' \in [Regs -> Reg]
         /\ live' = IF insn.rd = 0 THEN before ELSE [before EXCEPT ![insn.rd] = ToReg(v)]
<1> DEFINE d == insn.rd
           x == ToReg(v)
           after == IF d = 0 THEN before ELSE [before EXCEPT ![d] = x]
<1>1. live \in [Regs -> Reg] /\ before \in [Regs -> Reg] /\ d \in Regs /\ live[0] = 0 /\ before[0] = 0
      /\ \A r \in Regs : r # d => live[r] = before[r]
  BY Operands
<1>2. x \in Reg
  BY ToRegDoes
<1>3. regs' = [live EXCEPT ![d] = x]
  BY DEF Put
<1>4. live' = [regs' EXCEPT ![0] = 0]
  BY DEF live
<1> HIDE DEF d, x
<1>5. regs' \in [Regs -> Reg]
  BY <1>1, <1>2, <1>3
<1>6. live' = after
  <2> DEFINE l == live
  <2> HIDE DEF l
  <2>1. l \in [Regs -> Reg] /\ l[0] = 0 /\ (\A r \in Regs : r # d => l[r] = before[r])
        /\ live' = [[l EXCEPT ![d] = x] EXCEPT ![0] = 0]
    BY <1>1, <1>3, <1>4 DEF l
  <2> QED  BY <1>1, <1>2, <2>1, ZeroIsReg DEF Regs
<1> QED  BY <1>5, <1>6 DEF d, x

(* After a handler that writes no register, it sees those of the issue. *)
LEMMA KeepDoes ==
  ASSUME Inv, insn # None, regs' = live
  PROVE  regs' \in [Regs -> Reg] /\ live' = live
<1>1. live \in [Regs -> Reg] /\ live[0] = 0
  BY Operands
<1>2. live' = [regs' EXCEPT ![0] = 0]
  BY DEF live
<1> QED  BY <1>1, <1>2 DEF Regs

(* Moving pc by an offset and the size *)
LEMMA MoveDoes ==
  ASSUME Inv, NEW d \in Int, NEW e \in Int, insn.size \in {2, 4}, d + insn.size = e, Move(d)
  PROVE  pc' = ToReg(pc + e) /\ pc' = Arch!ToReg(pc + e) /\ pc' \in Reg
<1>1. pc \in Int
  BY RegIsNat DEF Inv, TypeOK
<1>2. pc + d + insn.size = pc + e /\ pc + e \in Int
  BY <1>1
<1>3. pc' = ToReg(pc + d + insn.size)
  BY DEF Move
<1> QED  BY <1>2, <1>3, ToRegDoes, SameCuts

(* An instruction has two bytes or four. *)
LEMMA SizeIs == ASSUME Inv, insn # None PROVE insn.size \in {2, 4}
BY Operands DEF Encodable, OpForm, ImmForm, BranchForm, AccessForm

(* The types and the promise, of a step that ends the instruction *)
Ends == Inv' /\ Arch!Next

(* A handler that leaves what the architecture says is a step of Isa. *)
LEMMA EndsIf ==
  ASSUME Inv, insn # None, Done, regs' \in [Regs -> Reg], pc' \in Reg, mem' \in [DOMAIN mem' -> Byte],
         ~ Arch!Raises(insn),
         live' = IF insn.kind \in {"branch", "store"} \/ insn.rd = 0
                 THEN before ELSE [before EXCEPT ![insn.rd] = Arch!Result(insn)],
         pc' = Arch!Target(insn),
         mem' = Arch!Memory(insn)
  PROVE  Ends
<1>1. insn' = None
  BY DEF Done
<1>2. Inv'
  BY <1>1 DEF Inv, TypeOK, Done
<1>3. Arch!Execute
  BY <1>1 DEF Arch!Execute
<1> QED  BY <1>2, <1>3 DEF Ends, Arch!Next

(* The types an ending step needs *)
LEMMA PcDoes == ASSUME Inv PROVE pc \in Reg /\ pc \in Int /\ mem \in [DOMAIN mem -> Byte]
BY RegIsNat DEF Inv, TypeOK

LEMMA ImmIsInt == ASSUME Inv, insn # None PROVE insn.imm \in Int
BY Operands, RegIsNat

(* What the architecture does with an instruction that does not touch memory
   and does not jump *)
LEMMA ComputeEnds == ASSUME Inv, Compute PROVE Ends
<1>1. insn # None /\ insn.kind \in {"op", "opimm"} /\ Done /\ mem' = mem /\ Move(0)
  BY DEF Compute
<1>2. pc' = ToReg(pc + insn.size) /\ pc' = Arch!ToReg(pc + insn.size) /\ pc' \in Reg
  BY <1>1, SizeIs, MoveDoes
<1>3. live = before
  BY <1>1, Operands
<1> DEFINE v == IF insn.kind = "op" THEN RegValue(insn) ELSE ImmValue(insn)
<1>4. v \in Int /\ ToReg(v) = Arch!Result(insn)
  <2>1. CASE insn.kind = "op"
    <3>1. Arch!Result(insn) = Arch!Alu(insn.op, live[insn.rs1], live[insn.rs2], insn.n)
      BY <1>1, <1>3, <2>1 DEF Arch!Result, Arch!Rs1, Arch!Rs2
    <3> QED  BY <1>1, <2>1, <3>1, OpsAreExact
  <2>2. CASE insn.kind = "opimm"
    <3>1. Arch!Result(insn) = Arch!Alu(insn.op, live[insn.rs1], insn.imm, insn.n)
      BY <1>1, <1>3, <2>2 DEF Arch!Result, Arch!Rs1
    <3> QED  BY <1>1, <2>2, <3>1, ImmsAreExact
  <2> QED  BY <1>1, <2>1, <2>2
<1>5. Put(insn.rd, v)
  BY DEF Compute
<1> HIDE DEF v
<1>6. regs' \in [Regs -> Reg]
      /\ live' = IF insn.rd = 0 THEN before ELSE [before EXCEPT ![insn.rd] = Arch!Result(insn)]
  BY <1>1, <1>4, <1>5, PutDoes
<1>7. Arch!Target(insn) = Arch!ToReg(pc + insn.size) /\ Arch!Memory(insn) = mem /\ ~ Arch!Raises(insn)
  BY <1>1 DEF Arch!Target, Arch!Memory, Arch!Raises
<1> QED  BY <1>1, <1>2, <1>6, <1>7, PcDoes, EndsIf

(* lui and auipc, and ctype::lui *)
LEMMA UpperEnds == ASSUME Inv, Upper PROVE Ends
<1>1. insn # None /\ insn.kind \in {"lui", "auipc"} /\ Done /\ mem' = mem /\ Move(0)
  BY DEF Upper
<1>2. pc' = ToReg(pc + insn.size) /\ pc' = Arch!ToReg(pc + insn.size) /\ pc' \in Reg
  BY <1>1, SizeIs, MoveDoes
<1> DEFINE v == IF insn.kind = "lui" THEN insn.imm ELSE pc + insn.imm
<1>3. v \in Int
  BY <1>1, PcDoes, ImmIsInt
<1>4. ToReg(v) = Arch!Result(insn)
  <2>1. CASE insn.kind = "lui"
    BY <1>1, <2>1, Operands, ToRegFixed DEF Arch!Result
  <2>2. CASE insn.kind = "auipc"
    BY <1>1, <2>2, SameCuts DEF Arch!Result
  <2> QED  BY <1>1, <2>1, <2>2
<1>5. Put(insn.rd, v)
  BY DEF Upper
<1> HIDE DEF v
<1>6. regs' \in [Regs -> Reg]
      /\ live' = IF insn.rd = 0 THEN before ELSE [before EXCEPT ![insn.rd] = Arch!Result(insn)]
  BY <1>1, <1>3, <1>4, <1>5, PutDoes
<1>7. Arch!Target(insn) = Arch!ToReg(pc + insn.size) /\ Arch!Memory(insn) = mem /\ ~ Arch!Raises(insn)
  BY <1>1 DEF Arch!Target, Arch!Memory, Arch!Raises
<1> QED  BY <1>1, <1>2, <1>6, <1>7, PcDoes, EndsIf

(* A handler that leaves the registers alone and moves pc by d and the size *)
LEMMA JumpEnds ==
  ASSUME Inv, insn # None, insn.kind \notin {"load", "amo"},
         insn.kind = "branch" \/ insn.rd = 0, insn.kind # "jalr", insn.kind # "store",
         NEW d \in Int, NEW e \in Int, d + insn.size = e, Move(d), regs' = live, Done, mem' = mem,
         Arch!Target(insn) = Arch!ToReg(pc + e)
  PROVE  Ends
<1>1. pc' = Arch!ToReg(pc + e) /\ pc' \in Reg
  BY SizeIs, MoveDoes
<1>2. live = before /\ regs' \in [Regs -> Reg] /\ live' = live
  BY Operands, KeepDoes
<1>3. Arch!Memory(insn) = mem /\ ~ Arch!Raises(insn)
  BY DEF Arch!Memory, Arch!Raises
<1> QED  BY <1>1, <1>2, <1>3, PcDoes, EndsIf

(* beq to bgeu *)
LEMMA BranchEnds == ASSUME Inv, Branch PROVE Ends
<1> DEFINE taken == BType(insn.op, live[insn.rs1], live[insn.rs2])
           d == IF taken THEN insn.imm - 4 ELSE 0
           e == IF taken THEN insn.imm ELSE 4
<1>1. insn # None /\ insn.kind = "branch" /\ insn.size = 4 /\ Done /\ mem' = mem /\ regs' = live /\ Move(d)
  BY DEF Branch
<1>2. insn.op \in BranchOps /\ live = before
  BY <1>1, Operands DEF Encodable, BranchForm
<1>3. taken = Arch!Taken(insn.op, before[insn.rs1], before[insn.rs2])
  BY <1>1, <1>2, Operands, BranchRows
<1>4. Arch!Target(insn) = Arch!ToReg(IF taken THEN pc + insn.imm ELSE pc + insn.size)
  BY <1>1, <1>3 DEF Arch!Target, Arch!Rs1, Arch!Rs2
<1>5. Arch!Target(insn) = Arch!ToReg(pc + e)
  BY <1>1, <1>4
<1> HIDE DEF taken
<1>6. d \in Int /\ e \in Int /\ d + insn.size = e
  BY <1>1, ImmIsInt
<1> HIDE DEF d, e
<1> QED  BY <1>1, <1>5, <1>6, JumpEnds

(* ctype::beqz and bnez *)
LEMMA CBranchEnds == ASSUME Inv, CBranch PROVE Ends
<1> DEFINE taken == (live[insn.rs1] = 0) = (insn.op = "eq")
           d == IF taken THEN insn.imm - 2 ELSE 0
           e == IF taken THEN insn.imm ELSE 2
<1>1. insn # None /\ insn.kind = "branch" /\ insn.size = 2 /\ Done /\ mem' = mem /\ regs' = live /\ Move(d)
  BY DEF CBranch
<1>2. insn.op \in {"eq", "ne"} /\ insn.rs2 = 0 /\ live = before /\ live[0] = 0
  BY <1>1, Operands DEF Encodable, BranchForm
<1>3. taken = Arch!Taken(insn.op, before[insn.rs1], before[insn.rs2])
  BY <1>2 DEF Arch!Taken
<1>4. Arch!Target(insn) = Arch!ToReg(IF taken THEN pc + insn.imm ELSE pc + insn.size)
  BY <1>1, <1>3 DEF Arch!Target, Arch!Rs1, Arch!Rs2
<1>5. Arch!Target(insn) = Arch!ToReg(pc + e)
  BY <1>1, <1>4
<1> HIDE DEF taken
<1>6. d \in Int /\ e \in Int /\ d + insn.size = e
  BY <1>1, ImmIsInt
<1> HIDE DEF d, e
<1> QED  BY <1>1, <1>5, <1>6, JumpEnds

(* ctype::j *)
LEMMA CJEnds == ASSUME Inv, CJ PROVE Ends
<1> DEFINE d == insn.imm - 2
           e == insn.imm
<1>1. insn # None /\ insn.kind = "jal" /\ insn.size = 2 /\ Done /\ mem' = mem /\ regs' = live /\ Move(d)
  BY DEF CJ
<1>2. insn.rd = 0
  BY <1>1, Operands DEF Encodable
<1>3. Arch!Target(insn) = Arch!ToReg(pc + e)
  BY <1>1 DEF Arch!Target
<1>4. d \in Int /\ e \in Int /\ d + insn.size = e
  BY <1>1, ImmIsInt
<1> HIDE DEF d, e
<1> QED  BY <1>1, <1>2, <1>3, <1>4, JumpEnds

(* jal *)
LEMMA JalEnds == ASSUME Inv, Jal PROVE Ends
<1> DEFINE d == insn.imm - 4
           e == insn.imm
           v == pc + 4
<1>1. insn # None /\ insn.kind = "jal" /\ insn.size = 4 /\ Done /\ mem' = mem /\ Move(d) /\ Put(insn.rd, v)
  BY DEF Jal
<1>2. v \in Int /\ d \in Int /\ e \in Int /\ d + insn.size = e
  BY <1>1, ImmIsInt, PcDoes
<1>3. Arch!Target(insn) = Arch!ToReg(pc + e)
  BY <1>1 DEF Arch!Target
<1>4. ToReg(v) = Arch!Result(insn)
  BY <1>1, SameCuts DEF Arch!Result
<1> HIDE DEF v, d, e
<1>5. pc' = Arch!ToReg(pc + e) /\ pc' \in Reg
  BY <1>1, <1>2, SizeIs, MoveDoes
<1>6. regs' \in [Regs -> Reg]
      /\ live' = IF insn.rd = 0 THEN before ELSE [before EXCEPT ![insn.rd] = Arch!Result(insn)]
  BY <1>1, <1>2, <1>4, PutDoes
<1>7. Arch!Memory(insn) = mem /\ ~ Arch!Raises(insn)
  BY <1>1 DEF Arch!Memory, Arch!Raises
<1> QED  BY <1>1, <1>3, <1>5, <1>6, <1>7, PcDoes, EndsIf

(* jalr clears bit 0. *)
LEMMA EvenIsReg == ASSUME NEW t \in Reg PROVE t - (t % 2) \in Reg
<1>1. t \in Nat /\ 2 \in Nat \ {0}
  BY RegIsNat
<1> DEFINE q == t \div 2
           r == t % 2
           p == 2^XLEN
<1>2. q \in Int /\ r \in 0 .. (2 - 1) /\ t = q * 2 + r
  BY <1>1, DivMod
<1>3. r >= 0 /\ r <= t
  <2> HIDE DEF q, r
  <2> QED  BY <1>1, <1>2
<1>4. t < p /\ p \in Nat
  BY RegIsNat
<1> HIDE DEF q, r, p
<1>5. t - r \in 0 .. (p - 1)
  BY <1>1, <1>2, <1>3, <1>4
<1> QED  BY <1>5 DEF Reg, r, p

(* jalr reads its target before it links. *)
LEMMA JalrEnds == ASSUME Inv, Jalr PROVE Ends
<1> DEFINE t == ToReg(live[insn.rs1] + insn.imm)
           v == pc + 4
<1>1. insn # None /\ insn.kind = "jalr" /\ insn.size = 4 /\ Done /\ mem' = mem /\ pc' = t - (t % 2)
      /\ Put(insn.rd, v)
  BY DEF Jalr
<1>2. live[insn.rs1] \in Int /\ insn.imm \in Int /\ live = before
  BY <1>1, Operands, RegIsNat, ImmIsInt
<1>3. t \in Reg
  <2>1. live[insn.rs1] + insn.imm \in Int
    BY <1>2
  <2> QED  BY <2>1, ToRegDoes
<1>4. Arch!Target(insn) = t - (t % 2)
  BY <1>1, <1>2, SameCuts DEF Arch!Target, Arch!Rs1
<1>5. v \in Int /\ ToReg(v) = Arch!Result(insn)
  BY <1>1, PcDoes, SameCuts DEF Arch!Result
<1> HIDE DEF v, t
<1>6. pc' \in Reg
  BY <1>1, <1>3, EvenIsReg
<1>7. regs' \in [Regs -> Reg]
      /\ live' = IF insn.rd = 0 THEN before ELSE [before EXCEPT ![insn.rd] = Arch!Result(insn)]
  BY <1>1, <1>5, PutDoes
<1>8. Arch!Memory(insn) = mem /\ ~ Arch!Raises(insn)
  BY <1>1 DEF Arch!Memory, Arch!Raises
<1> QED  BY <1>1, <1>4, <1>6, <1>7, <1>8, PcDoes, EndsIf

(* ctype::jr and jalr, with an even target and not c.ebreak *)
LEMMA CJalrEnds == ASSUME Inv, CJalr PROVE Ends
<1> DEFINE a == live[insn.rs1]
           v == pc + 2
<1>1. insn # None /\ insn.kind = "jalr" /\ insn.size = 2 /\ Done /\ mem' = mem /\ pc' = a
      /\ (IF insn.rd = 0 THEN regs' = live ELSE Put(1, v))
  BY DEF CJalr
<1>2. insn.rd \in {0, 1} /\ insn.imm = 0 /\ a % 2 = 0 /\ insn.rs1 # 0
  BY <1>1, Operands DEF Encodable, Inv, Exact
<1>3. a \in Reg /\ a \in Nat /\ live = before
  BY <1>1, Operands, RegIsNat
<1>4. ToReg(a + insn.imm) = a
  <2>1. a + insn.imm = a
    BY <1>2, <1>3
  <2> QED  BY <1>3, <2>1, ToRegFixed
<1>5. Arch!Target(insn) = a
  <2>1. Arch!Target(insn) = a - (a % 2)
    BY <1>1, <1>3, <1>4, SameCuts DEF Arch!Target, Arch!Rs1
  <2> QED  BY <1>2, <1>3, <2>1
<1>6. v \in Int /\ ToReg(v) = Arch!Result(insn)
  BY <1>1, PcDoes, SameCuts DEF Arch!Result
<1> HIDE DEF v, a
<1>7. regs' \in [Regs -> Reg]
      /\ live' = IF insn.rd = 0 THEN before ELSE [before EXCEPT ![insn.rd] = Arch!Result(insn)]
  <2>1. CASE insn.rd = 0
    BY <1>1, <1>3, <2>1, KeepDoes
  <2>2. CASE insn.rd = 1
    <3>1. Put(insn.rd, v)
      BY <1>1, <2>2
    <3> QED  BY <1>1, <1>6, <3>1, PutDoes
  <2> QED  BY <1>2, <2>1, <2>2
<1>8. Arch!Memory(insn) = mem /\ ~ Arch!Raises(insn)
  BY <1>1, <1>2 DEF Arch!Memory, Arch!Raises
<1> QED  BY <1>1, <1>3, <1>5, <1>7, <1>8, PcDoes, EndsIf

(* lb to ld and the compressed loads *)
LEMMA LoadEnds == ASSUME Inv, Load PROVE Ends
<1> DEFINE v == IF insn.op = "unsigned" THEN Loaded(insn) ELSE Signed(Loaded(insn), insn.n)
<1>1. insn # None /\ insn.kind = "load" /\ Done /\ mem' = mem /\ Move(0) /\ Put(insn.rd, v)
  BY DEF Load
<1>2. pc' = ToReg(pc + insn.size) /\ pc' = Arch!ToReg(pc + insn.size) /\ pc' \in Reg
  BY <1>1, SizeIs, MoveDoes
<1>3. Loaded(insn) \in Reg /\ Loaded(insn) \in Int /\ Arch!Old(insn) = Loaded(insn)
      /\ insn.n \in {Unit, 2 * Unit, W, XLEN}
  BY <1>1, Accesses
<1>4. v \in Int
  BY <1>3, SizeCounts, SignedDoes
<1>5. ToReg(v) = Arch!Result(insn)
  <2>1. Arch!Result(insn) = IF insn.op = "unsigned" THEN Loaded(insn) ELSE ToReg(Signed(Loaded(insn), insn.n))
    BY <1>1, <1>3, SameCuts DEF Arch!Result
  <2> QED  BY <1>3, <2>1, ToRegFixed
<1> HIDE DEF v
<1>6. regs' \in [Regs -> Reg]
      /\ live' = IF insn.rd = 0 THEN before ELSE [before EXCEPT ![insn.rd] = Arch!Result(insn)]
  BY <1>1, <1>4, <1>5, PutDoes
<1>7. Arch!Target(insn) = Arch!ToReg(pc + insn.size) /\ Arch!Memory(insn) = mem /\ ~ Arch!Raises(insn)
  BY <1>1 DEF Arch!Target, Arch!Memory, Arch!Raises
<1> QED  BY <1>1, <1>2, <1>6, <1>7, PcDoes, EndsIf

(* sb to sd and the compressed stores *)
LEMMA StoreEnds == ASSUME Inv, Store PROVE Ends
<1>1. insn # None /\ insn.kind = "store" /\ Done /\ Move(0) /\ regs' = live
      /\ mem' = StoreTo(mem, Address(insn), live[insn.rs2], insn.n)
  BY DEF Store
<1>2. pc' = ToReg(pc + insn.size) /\ pc' = Arch!ToReg(pc + insn.size) /\ pc' \in Reg
  BY <1>1, SizeIs, MoveDoes
<1>3. live = before /\ live[insn.rs2] \in Int /\ regs' \in [Regs -> Reg] /\ live' = live
  BY <1>1, Operands, KeepDoes, RegIsNat
<1>4. Address(insn) \in Int /\ mem \in [DOMAIN mem -> Byte]
      /\ Arch!ToReg(before[insn.rs1] + insn.imm) = Address(insn)
  BY <1>1, Accesses
<1>5. mem' \in [DOMAIN mem' -> Byte]
  BY <1>1, <1>3, <1>4, StoreTypes
<1>6. Arch!Memory(insn) = mem'
  BY <1>1, <1>3, <1>4, SameMemory DEF Arch!Memory, Arch!Rs1, Arch!Rs2
<1>7. Arch!Target(insn) = Arch!ToReg(pc + insn.size) /\ ~ Arch!Raises(insn)
  BY <1>1 DEF Arch!Target, Arch!Raises
<1> QED  BY <1>1, <1>2, <1>3, <1>5, <1>6, <1>7, EndsIf

(* The address of an atomic access, and when it is misaligned *)
LEMMA AmoDoes ==
  ASSUME Inv, insn # None, insn.kind = "amo"
  PROVE  /\ insn.n \in {W, XLEN} /\ insn.op \in AmoOps /\ insn.imm = 0 /\ insn.size = 4
         /\ live[insn.rs1] = before[insn.rs1] /\ live[insn.rs2] = before[insn.rs2]
         /\ Address(insn) = before[insn.rs1]
         /\ (Arch!Raises(insn) <=> Misaligned(insn))
<1>1. insn.n \in {W, XLEN} /\ insn.op \in AmoOps /\ insn.imm = 0 /\ insn.size = 4
  BY Operands DEF Encodable
<1>2. live[insn.rs1] = before[insn.rs1] /\ live[insn.rs2] = before[insn.rs2]
      /\ live[insn.rs1] \in Reg /\ live[insn.rs1] \in Nat
  BY Operands, RegIsNat
<1>3. live[insn.rs1] + insn.imm = live[insn.rs1]
  BY <1>1, <1>2
<1>4. Address(insn) = before[insn.rs1]
  BY <1>2, <1>3, ToRegFixed DEF Address
<1>5. Arch!Raises(insn) <=> Misaligned(insn)
  BY <1>1, <1>2 DEF Arch!Raises, Misaligned, Arch!Rs1
<1> QED  BY <1>1, <1>2, <1>4, <1>5

(* amoaddw to amomaxud *)
LEMMA AmoEnds == ASSUME Inv, Amo PROVE Ends
<1> DEFINE old == Loaded(insn)
           val == live[insn.rs2]
           x == AmoValue(insn.op, old, val, insn.n)
           y == Arch!Alu(insn.op, old, val, insn.n)
           v == Signed(old, insn.n)
<1>1. insn # None /\ insn.kind = "amo" /\ ~ Misaligned(insn) /\ Done /\ Move(0) /\ Put(insn.rd, v)
      /\ mem' = StoreTo(mem, Address(insn),
                        IF insn.n = W THEN AmoW(insn.op, old, val) ELSE AmoD(insn.op, old, val), insn.n)
  BY DEF Amo
<1>2. /\ insn.n \in {W, XLEN} /\ insn.op \in AmoOps /\ val = before[insn.rs2]
      /\ Address(insn) = before[insn.rs1] /\ ~ Arch!Raises(insn)
  BY <1>1, AmoDoes
<1>3. pc' = ToReg(pc + insn.size) /\ pc' = Arch!ToReg(pc + insn.size) /\ pc' \in Reg
  BY <1>1, SizeIs, MoveDoes
<1>4. /\ insn.n \in {Unit, 2 * Unit, W, XLEN} /\ Address(insn) \in Int /\ mem \in [DOMAIN mem -> Byte]
      /\ old \in Int /\ Arch!Old(insn) = old /\ val \in Int
  BY <1>1, Accesses, Operands, RegIsNat
<1>5. mem' = StoreTo(mem, Address(insn), x, insn.n)
  BY <1>1, <1>2 DEF AmoW, AmoD
<1>6. x \in Int /\ y \in Int /\ Cong(x, y, 2^insn.n)
  BY <1>2, <1>4, AmosAreExact
<1>7. StoreTo(mem, Address(insn), x, insn.n) = StoreTo(mem, Address(insn), y, insn.n)
  <2> HIDE DEF x, y
  <2> QED  BY <1>4, <1>6, StoreSame
<1>8. mem' = Arch!Memory(insn)
  BY <1>1, <1>2, <1>4, <1>5, <1>7, SameMemory DEF Arch!Memory, Arch!Rs1, Arch!Rs2
<1>9. mem' \in [DOMAIN mem' -> Byte]
  <2> HIDE DEF x
  <2> QED  BY <1>4, <1>5, <1>6, StoreTypes
<1>10. v \in Int /\ ToReg(v) = Arch!Result(insn)
  <2>1. v \in Int
    BY <1>4, SizeCounts, SignedDoes
  <2> QED  BY <1>1, <1>4, <2>1, SameCuts DEF Arch!Result
<1>11. Arch!Target(insn) = Arch!ToReg(pc + insn.size)
  BY <1>1 DEF Arch!Target
<1> HIDE DEF v
<1>12. regs' \in [Regs -> Reg]
       /\ live' = IF insn.rd = 0 THEN before ELSE [before EXCEPT ![insn.rd] = Arch!Result(insn)]
  BY <1>1, <1>10, PutDoes
<1> QED  BY <1>1, <1>2, <1>3, <1>8, <1>9, <1>11, <1>12, EndsIf

(* The access is not aligned: the emulator writes 0 to rd, which is x0. *)
LEMMA AmoMisalignedEnds == ASSUME Inv, AmoMisaligned PROVE Ends
<1>1. insn # None /\ Misaligned(insn) /\ Put(insn.rd, 0) /\ Done /\ pc' = pc /\ mem' = mem
  BY DEF AmoMisaligned
<1>2. insn.kind = "amo" /\ insn.rd = 0
  BY <1>1 DEF Misaligned, Inv, Exact
<1>3. Arch!Raises(insn)
  BY <1>1, <1>2, AmoDoes
<1>4. regs' \in [Regs -> Reg] /\ live' = before
  BY <1>1, <1>2, PutDoes
<1>5. insn' = None
  BY <1>1 DEF Done
<1>6. Inv'
  BY <1>1, <1>4, <1>5 DEF Inv, TypeOK, Done
<1>7. Arch!Raise
  BY <1>1, <1>3, <1>4, <1>5 DEF Arch!Raise
<1> QED  BY <1>6, <1>7 DEF Ends, Arch!Next

(* An instruction is issued: software sees nothing yet. *)
LEMMA IssueBegins == ASSUME Careful, Inv, Issue PROVE Ends
<1>1. PICK i \in Insns : Fits(i) /\ ~ Undefined(i) /\ Exact(i) /\ insn' = i
  BY DEF Issue
<1>2. insn = None /\ issued < MaxInsns /\ before' = live /\ issued' = issued + 1
      /\ regs' = regs /\ pc' = pc /\ mem' = mem /\ faults' = faults
  BY DEF Issue
<1>3. i # None
  BY InsnAssumption DEF InsnAssumption
<1>4. live' = live /\ live \in [Regs -> Reg]
  BY <1>2, ZeroIsReg DEF live, Inv, TypeOK
<1>5. TypeOK'
  <2>1. issued' \in 0 .. MaxInsns
    BY <1>2, InsnAssumption DEF InsnAssumption, Inv, TypeOK
  <2> QED  BY <1>1, <1>2, <1>4, <2>1 DEF Inv, TypeOK
<1>6. Fits(insn)'
  BY <1>1, <1>2, <1>4 DEF Fits, Address
<1>7. ~ Undefined(insn)'
  BY <1>1, <1>2, <1>4 DEF Undefined
<1>8. Exact(insn)'
  BY <1>1, <1>2, <1>4 DEF Exact, Misaligned
<1>9. Agrees'
  BY <1>2, <1>4 DEF Agrees
<1>10. Inv'
  BY <1>1, <1>5, <1>6, <1>7, <1>8, <1>9 DEF Inv
<1>11. Arch!Issue
  BY <1>1, <1>2, <1>3 DEF Arch!Issue
<1> QED  BY <1>10, <1>11 DEF Ends, Arch!Next

(* The operands are what they were, and so is all that is said of them. *)
LEMMA Restarts ==
  ASSUME Inv, insn # None, insn' = insn, before' = before, mem' = mem, pc' = pc,
         issued' = issued, faults' \in 0 .. MaxFaults, regs' \in [Regs -> Reg],
         Agrees', live'[insn.rs1] = live[insn.rs1], live'[insn.rs2] = live[insn.rs2]
  PROVE  Inv' /\ UNCHANGED Arch!vars
<1>1. TypeOK'
  BY DEF Inv, TypeOK
<1>2. Fits(insn)'
  BY DEF Inv, Fits, Address
<1>3. ~ Undefined(insn)'
  BY DEF Inv, Undefined
<1>4. Exact(insn)'
  BY DEF Inv, Exact, Misaligned
<1>5. Inv'
  BY <1>1, <1>2, <1>3, <1>4 DEF Inv
<1>6. UNCHANGED Arch!vars
  BY DEF Arch!vars
<1> QED  BY <1>5, <1>6

(* A faulting instruction may have written its destination. *)
LEMMA FaultWrites ==
  ASSUME Inv, insn # None, insn.kind \in {"load", "amo"},
         insn.rd = 0 \/ insn.rd \notin {insn.rs1, insn.rs2}, NEW v \in Int, Put(insn.rd, v),
         insn' = insn, before' = before
  PROVE  /\ regs' \in [Regs -> Reg] /\ Agrees'
         /\ live'[insn.rs1] = live[insn.rs1] /\ live'[insn.rs2] = live[insn.rs2]
<1>1. regs' \in [Regs -> Reg]
      /\ live' = IF insn.rd = 0 THEN before ELSE [before EXCEPT ![insn.rd] = ToReg(v)]
  BY PutDoes
<1>2. /\ before \in [Regs -> Reg] /\ insn.rd \in Regs /\ insn.rs1 \in Regs /\ insn.rs2 \in Regs
      /\ live[insn.rs1] = before[insn.rs1] /\ live[insn.rs2] = before[insn.rs2]
  BY Operands
<1>3. \A r \in Regs : r # insn.rd \/ insn.rd = 0 => live'[r] = before[r]
  BY <1>1, <1>2
<1>4. Agrees'
  BY <1>3 DEF Agrees
<1> QED  BY <1>1, <1>2, <1>3, <1>4

(* A page fault is a stutter of Isa, and leaves the instruction to be restarted. *)
LEMMA FaultStays == ASSUME Careful, Inv, Fault PROVE Inv' /\ UNCHANGED Arch!vars
<1>1. /\ insn # None /\ insn.kind \in {"load", "store", "amo"} /\ ~ Clobbers(insn)
      /\ faults < MaxFaults /\ faults' = faults + 1
      /\ pc' = pc /\ mem' = mem /\ insn' = insn /\ before' = before /\ issued' = issued
  BY DEF Fault
<1>2. faults' \in 0 .. MaxFaults
  BY <1>1, InsnAssumption DEF InsnAssumption, Inv, TypeOK
<1>3. \/ \E v \in Int : Put(insn.rd, v) /\ insn.kind \in {"load", "amo"}
                        /\ (insn.kind = "load" => insn.size = 2)
      \/ regs' = live
  <2>1. 0 \in Int
    OBVIOUS
  <2>2. CASE insn.kind = "load" /\ insn.size = 2
    BY <2>1, <2>2 DEF Fault
  <2>3. CASE insn.kind = "amo"
    <3>1. Put(insn.rd, 0) \/ Put(insn.rd, Signed(Loaded(insn), insn.n))
      BY <2>3 DEF Fault
    <3>2. Signed(Loaded(insn), insn.n) \in Int
      BY <1>1, Accesses, SizeCounts, SignedDoes
    <3> QED  BY <2>1, <2>3, <3>1, <3>2
  <2>4. CASE ~ (insn.kind = "load" /\ insn.size = 2) /\ insn.kind # "amo"
    BY <2>4 DEF Fault
  <2> QED  BY <2>2, <2>3, <2>4
<1>4. CASE regs' = live
  <2>1. regs' \in [Regs -> Reg] /\ live' = live
    BY <1>1, <1>4, KeepDoes
  <2>2. Agrees'
    BY <1>1, <2>1 DEF Inv, Agrees
  <2> QED  BY <1>1, <1>2, <2>1, <2>2, Restarts
<1>5. CASE \E v \in Int : Put(insn.rd, v) /\ insn.kind \in {"load", "amo"}
                          /\ (insn.kind = "load" => insn.size = 2)
  <2>1. PICK v \in Int : Put(insn.rd, v) /\ insn.kind \in {"load", "amo"}
                         /\ (insn.kind = "load" => insn.size = 2)
    BY <1>5
  <2>2. insn.rd = 0 \/ insn.rd \notin {insn.rs1, insn.rs2}
    BY <1>1, <2>1 DEF Clobbers
  <2>3. /\ regs' \in [Regs -> Reg] /\ Agrees'
        /\ live'[insn.rs1] = live[insn.rs1] /\ live'[insn.rs2] = live[insn.rs2]
    BY <1>1, <2>1, <2>2, FaultWrites
  <2> QED  BY <1>1, <1>2, <2>3, Restarts
<1> QED  BY <1>3, <1>4, <1>5

(* A step of another part of the emulator *)
LEMMA StutterStays == ASSUME Inv, UNCHANGED vars PROVE Inv' /\ UNCHANGED Arch!vars
<1>1. /\ regs' = regs /\ pc' = pc /\ mem' = mem /\ insn' = insn /\ before' = before
      /\ issued' = issued /\ faults' = faults /\ live' = live
  BY DEF vars, live
<1>2. UNCHANGED Arch!vars
  BY <1>1 DEF Arch!vars
<1>3. CASE insn = None
  BY <1>1, <1>2, <1>3 DEF Inv, TypeOK
<1>4. CASE insn # None
  <2>1. regs' \in [Regs -> Reg] /\ faults' \in 0 .. MaxFaults /\ Agrees'
    BY <1>1, <1>4 DEF Inv, TypeOK, Agrees
  <2> QED  BY <1>1, <1>4, <2>1, Restarts
<1> QED  BY <1>2, <1>3, <1>4

(* A program starts with registers that hold registers. *)
LEMMA InitIsGood == ASSUME Init PROVE Inv /\ Arch!Init
<1>1. PICK x0 \in {0, 5}, g \in [Regs \ {0} -> InitRegs] : regs = [r \in Regs |-> IF r = 0 THEN x0 ELSE g[r]]
  BY DEF Init
<1>2. 0 \in Reg /\ 5 \in Reg
  <2> DEFINE p == 2^3
             q == 2^(XLEN - 3)
             a == 2^1
  <2>1. XLEN \in Nat /\ 3 <= XLEN
    BY UnitAssumption DEF UnitAssumption, XLEN
  <2>2. q \in Nat \ {0} /\ 2^XLEN = p * q
    BY <2>1, Divides
  <2>3. 2^(1 + 1) = 2^1 * 2^1 /\ 2^(2 + 1) = 2^2 * 2^1
    BY PowerOfSum
  <2>4. 2^2 = 4
    BY <2>3, PowerOfOne
  <2>5. p = 8
    BY <2>3, <2>4, PowerOfOne
  <2> DEFINE r == 2^XLEN
  <2>6. r = p * q
    BY <2>2
  <2> HIDE DEF p, q, r
  <2>7. r > 5
    BY <2>2, <2>5, <2>6
  <2>8. r \in Nat
    BY <2>2, <2>5, <2>6
  <2>9. 0 \in 0 .. (r - 1) /\ 5 \in 0 .. (r - 1)
    BY <2>7, <2>8
  <2> QED  BY <2>9 DEF r, Reg
<1>3. InitRegs \subseteq Reg /\ InitPcs \subseteq Reg /\ (\A m \in InitMems : m \in [DOMAIN m -> Byte])
      /\ MaxInsns \in Nat /\ MaxFaults \in Nat
  BY InsnAssumption DEF InsnAssumption
<1>4. pc \in InitPcs /\ mem \in InitMems /\ insn = None /\ before = regs /\ issued = 0 /\ faults = 0
  BY DEF Init
<1>5. regs \in [Regs -> Reg]
  BY <1>1, <1>2, <1>3
<1>6. Inv
  BY <1>3, <1>4, <1>5 DEF Inv, TypeOK
<1>7. live \in [Regs -> Reg] /\ live[0] = 0
  BY <1>2, <1>5 DEF live, Regs
<1>8. Arch!Init
  BY <1>3, <1>4, <1>7, SameWidths DEF Arch!Init, Regs
<1> QED  BY <1>6, <1>8

(* Every step keeps the invariant and is a step of Isa or a stutter. *)
LEMMA StepIsGood ==
  ASSUME Careful, Inv, [Next]_vars PROVE Inv' /\ [Arch!Next]_(Arch!vars)
<1>1. CASE UNCHANGED vars
  BY <1>1, StutterStays
<1>2. CASE Fault
  BY <1>2, FaultStays
<1>3. ASSUME Next, ~ Fault PROVE Ends
  BY <1>3, IssueBegins, ComputeEnds, UpperEnds, BranchEnds, CBranchEnds, JalEnds, CJEnds,
     JalrEnds, CJalrEnds, LoadEnds, StoreEnds, AmoEnds, AmoMisalignedEnds DEF Next
<1> QED  BY <1>1, <1>2, <1>3 DEF Ends

(* Every register, the pc and every byte of memory stay within their width,
   whatever the program does (Cpu::regs, Cpu::pc and the RAM). *)
THEOREM TypesHold == Careful => (Spec => []TypeOK)
<1> SUFFICES ASSUME Careful PROVE Spec => []TypeOK
  OBVIOUS
<1>1. Init => Inv
  BY InitIsGood
<1>2. Inv /\ [Next]_vars => Inv'
  BY StepIsGood
<1>3. Inv => TypeOK
  BY DEF Inv
<1> QED  BY <1>1, <1>2, <1>3, PTL DEF Spec

(* Each instruction of a careful program happens once and as a whole, however
   often it faults and is restarted, with the result the architecture gives it
   (Cpu::_loop and the handlers of instructions/), for registers of any width. *)
THEOREM InstructionsAreExact == Careful => (Spec => ArchSpec)
<1> SUFFICES ASSUME Careful PROVE Spec => ArchSpec
  OBVIOUS
<1>1. Init => Inv /\ Arch!Init
  BY InitIsGood
<1>2. Inv /\ [Next]_vars => Inv' /\ [Arch!Next]_(Arch!vars)
  BY StepIsGood
<1> QED  BY <1>1, <1>2, PTL DEF Spec, ArchSpec, Arch!Spec
=============================================================================
