------------------------------ MODULE FpProofs ------------------------------
(***************************************************************************)
(* The emulator computes what the architecture says: Fp implements FpIsa,  *)
(* for every two formats, width of integers and set of instructions, and   *)
(* whatever the host does of what IEEE 754 and C++ leave open.             *)
(*                                                                         *)
(* The argument.  Issued says that an instruction in flight finds the      *)
(* operands it was issued with, page faults or not.  So each handler's     *)
(* step is one of Arch!ExecuteFloat, ExecuteInt, Load or Store (the Step   *)
(* lemmas), and a fault is none.  What is hard is in four of them:         *)
(* - a product and a sum, each rounded, are the fused sum where the        *)
(*   product is exact (UnfusedIs), because a number written with more      *)
(*   digits rounds to the same datum with the same flags (RoundScales);    *)
(* - an operation that does not give a NaN gives a number and does not    *)
(*   raise invalid operation (the IsNumber lemmas), so nothing is lost     *)
(*   where the handlers drop that flag;                                    *)
(* - ties apart, rounding away from zero is rounding to even               *)
(*   (NearestOffTies);                                                     *)
(* - the largest integer of a type, converted to a format and back, is at *)
(*   most one too large (LimitDoes), which the comparison allows for.      *)
(*                                                                         *)
(* The lemmas on division, powers of two and induction are also those of   *)
(* InsnProofs, which this module cannot extend: Insn and Fp share names.   *)
(***************************************************************************)
EXTENDS Fp, FiniteSetTheorems, FunctionTheorems, WellFoundedInduction, TLAPS

(* Division with remainder, as the code and the architecture use it *)
LEMMA DivMod ==
  ASSUME NEW x \in Int, NEW n \in Nat \ {0}
  PROVE  x \div n \in Int /\ x % n \in 0 .. (n - 1) /\ x = (x \div n) * n + (x % n)
<1> DEFINE q == x \div n
<1>1. q \in Int /\ q * n <= x /\ x < q * n + n
  OBVIOUS
<1>2. x % n = x - q * n
  OBVIOUS
<1> QED  BY <1>1, <1>2

(* Products, for leaves that must not see the factors *)
LEMMA ProductInt == ASSUME NEW a \in Int, NEW b \in Int PROVE a * b \in Int
OBVIOUS

LEMMA ProductNat == ASSUME NEW a \in Nat, NEW b \in Nat PROVE a * b \in Nat
OBVIOUS

LEMMA ProductPositive == ASSUME NEW a \in Nat \ {0}, NEW b \in Nat \ {0} PROVE a * b \in Nat \ {0}
OBVIOUS

(* Two numbers between 0 and n that differ by a multiple of n are equal. *)
LEMMA SmallMultiple ==
  ASSUME NEW k \in Int, NEW n \in Nat \ {0}, NEW d \in Int, d = k * n, d < n, d > -n
  PROVE  k = 0
<1>1. k >= 1 => k * n >= n
  OBVIOUS
<1>2. k <= -1 => k * n <= -n
  OBVIOUS
<1> QED  BY <1>1, <1>2

(* The quotient and the remainder are the only ones. *)
LEMMA DivModIs ==
  ASSUME NEW x \in Int, NEW n \in Nat \ {0}, NEW q \in Int, NEW r \in 0 .. (n - 1), x = q * n + r
  PROVE  x \div n = q /\ x % n = r
<1> DEFINE p == x \div n
           s == x % n
<1>1. p \in Int /\ s \in 0 .. (n - 1) /\ x = p * n + s
  BY DivMod
<1> HIDE DEF p, s
<1>2. (p - q) * n = p * n - q * n
  BY <1>1
<1>3. (p - q) * n = r - s
  BY <1>1, <1>2, ProductInt
<1>4. p - q = 0
  BY <1>1, <1>3, SmallMultiple
<1>5. p = q
  BY <1>1, <1>4
<1> QED  BY <1>1, <1>5, ProductInt DEF p, s

(* 2^n counts the subsets of n places: that is what the library knows of it. *)
LEMMA PowerOfZero == 2^0 = 1
<1>1. IsFiniteSet({}) /\ Cardinality({}) = 0
  BY FS_EmptySet
<1>2. Cardinality(SUBSET {}) = 2^Cardinality({})
  BY <1>1, FS_SUBSET
<1>3. SUBSET {} = {{}}
  OBVIOUS
<1>4. Cardinality({{}}) = 1
  BY FS_Singleton
<1> QED  BY <1>1, <1>2, <1>3, <1>4

LEMMA PowerCounts ==
  ASSUME NEW S, IsFiniteSet(S)
  PROVE  IsFiniteSet(SUBSET S) /\ Cardinality(SUBSET S) = 2^Cardinality(S) /\ 2^Cardinality(S) \in Nat
<1>1. IsFiniteSet(SUBSET S) /\ Cardinality(SUBSET S) = 2^Cardinality(S)
  BY FS_SUBSET
<1>2. Cardinality(SUBSET S) \in Nat
  BY <1>1, FS_CardinalityType
<1> QED  BY <1>1, <1>2

LEMMA PowerOfOne == 2^1 = 2
<1>1. IsFiniteSet({0}) /\ Cardinality({0}) = 1
  BY FS_Singleton
<1>2. Cardinality(SUBSET {0}) = 2^1
  BY <1>1, PowerCounts
<1>3. SUBSET {0} = {{}} \cup {{0}}
  OBVIOUS
<1>4. IsFiniteSet({{}}) /\ Cardinality({{}}) = 1 /\ {0} \notin {{}}
  BY FS_Singleton
<1>5. Cardinality({{}} \cup {{0}}) = Cardinality({{}}) + 1
  BY <1>4, FS_AddElement
<1> QED  BY <1>2, <1>3, <1>4, <1>5

LEMMA IntervalCounts ==
  ASSUME NEW m \in Nat, NEW n \in Nat
  PROVE  IsFiniteSet((m + 1) .. (m + n)) /\ Cardinality((m + 1) .. (m + n)) = n
         /\ IsFiniteSet(1 .. m) /\ Cardinality(1 .. m) = m
         /\ IsFiniteSet(1 .. (m + n)) /\ Cardinality(1 .. (m + n)) = m + n
<1> DEFINE a == m + 1
           b == m + n
<1>1. a \in Int /\ b \in Int
  OBVIOUS
<1> HIDE DEF a, b
<1>2. /\ IsFiniteSet(a .. b) /\ Cardinality(a .. b) = IF a > b THEN 0 ELSE b - a + 1
      /\ IsFiniteSet(1 .. m) /\ Cardinality(1 .. m) = IF 1 > m THEN 0 ELSE m - 1 + 1
      /\ IsFiniteSet(1 .. b) /\ Cardinality(1 .. b) = IF 1 > b THEN 0 ELSE b - 1 + 1
  BY <1>1, FS_Interval
<1>3. (IF a > b THEN 0 ELSE b - a + 1) = n
  BY DEF a, b
<1>4. (IF 1 > b THEN 0 ELSE b - 1 + 1) = m + n
  BY DEF b
<1>5. (IF 1 > m THEN 0 ELSE m - 1 + 1) = m
  OBVIOUS
<1> QED  BY <1>2, <1>3, <1>4, <1>5 DEF a, b

(* A number of bits is a pair of subsets of places. *)
LEMMA PowerOfSum == ASSUME NEW m \in Nat, NEW n \in Nat PROVE 2^(m + n) = 2^m * 2^n
<1> DEFINE lo == 1 .. m
           hi == (m + 1) .. (m + n)
           whole == 1 .. (m + n)
           f == [s \in SUBSET whole |-> <<s \cap lo, s \cap hi>>]
<1>1. /\ IsFiniteSet(lo) /\ Cardinality(lo) = m
      /\ IsFiniteSet(hi) /\ Cardinality(hi) = n
      /\ IsFiniteSet(whole) /\ Cardinality(whole) = m + n
  BY IntervalCounts
<1>2. whole = lo \cup hi /\ lo \cap hi = {}
  OBVIOUS
<1> HIDE DEF lo, hi, whole
<1>3. f \in Bijection(SUBSET whole, (SUBSET lo) \X (SUBSET hi))
  <2>1. f \in [SUBSET whole -> (SUBSET lo) \X (SUBSET hi)]
    BY <1>2
  <2>2. \A s, t \in SUBSET whole : f[s] = f[t] => s = t
    BY <1>2
  <2>3. \A p \in (SUBSET lo) \X (SUBSET hi) : \E s \in SUBSET whole : f[s] = p
    <3> TAKE p \in (SUBSET lo) \X (SUBSET hi)
    <3>1. PICK x \in SUBSET lo, y \in SUBSET hi : p = <<x, y>>
      OBVIOUS
    <3>2. x \cup y \in SUBSET whole /\ (x \cup y) \cap lo = x /\ (x \cup y) \cap hi = y
      BY <1>2
    <3> QED  BY <3>1, <3>2
  <2> HIDE DEF f
  <2> QED  BY <2>1, <2>2, <2>3, Fun_IsBij
<1>4. ExistsBijection(SUBSET whole, (SUBSET lo) \X (SUBSET hi))
  BY <1>3 DEF ExistsBijection
<1>5. Cardinality(SUBSET whole) = 2^(m + n) /\ IsFiniteSet(SUBSET whole)
  BY <1>1, PowerCounts
<1>6. /\ Cardinality(SUBSET lo) = 2^m /\ IsFiniteSet(SUBSET lo)
      /\ Cardinality(SUBSET hi) = 2^n /\ IsFiniteSet(SUBSET hi)
  BY <1>1, PowerCounts
<1>7. Cardinality((SUBSET lo) \X (SUBSET hi)) = 2^m * 2^n
  BY <1>6, FS_Product
<1> QED  BY <1>4, <1>5, <1>7, FS_Bijection

(* 2^n is a positive natural number. *)
LEMMA PowerIsPositive == ASSUME NEW n \in Nat PROVE 2^n \in Nat \ {0}
<1>1. IsFiniteSet(1 .. n) /\ Cardinality(1 .. n) = n
  BY FS_Interval
<1>2. Cardinality(SUBSET (1 .. n)) = 2^n /\ IsFiniteSet(SUBSET (1 .. n)) /\ 2^n \in Nat
  BY <1>1, PowerCounts
<1>3. Cardinality(SUBSET (1 .. n)) # 0
  BY <1>2, FS_EmptySet
<1> QED  BY <1>2, <1>3

(* Twice the half *)
LEMMA Halves ==
  ASSUME NEW n \in Nat \ {0}
  PROVE  /\ 2^n \in Nat \ {0} /\ 2^(n - 1) \in Nat \ {0}
         /\ 2^n = 2^(n - 1) + 2^(n - 1)
<1>1. n - 1 \in Nat /\ (n - 1) + 1 = n
  OBVIOUS
<1>2. 2^((n - 1) + 1) = 2^(n - 1) * 2^1
  BY <1>1, PowerOfSum
<1>3. 2^n \in Nat \ {0} /\ 2^(n - 1) \in Nat \ {0}
  BY <1>1, PowerIsPositive
<1> DEFINE h == 2^(n - 1)
<1>4. 2^n = h * 2
  BY <1>1, <1>2, PowerOfOne
<1> HIDE DEF h
<1>5. h \in Nat => h * 2 = h + h
  OBVIOUS
<1> QED  BY <1>3, <1>4, <1>5 DEF h

(* The powers of two below 2^m divide it. *)
LEMMA Divides ==
  ASSUME NEW m \in Nat, NEW n \in Nat, n <= m
  PROVE  2^m = 2^n * 2^(m - n) /\ 2^(m - n) \in Nat \ {0} /\ 2^n \in Nat \ {0} /\ 2^m \in Nat \ {0}
<1>1. m - n \in Nat /\ n + (m - n) = m
  OBVIOUS
<1>2. 2^(n + (m - n)) = 2^n * 2^(m - n)
  BY <1>1, PowerOfSum
<1> QED  BY <1>1, <1>2, PowerIsPositive

LEMMA NatIsWellFounded == IsWellFoundedOn({ss \in Nat \X Nat : ss[1] < ss[2]}, Nat)
BY NatLessThanWellFounded DEF OpToRel

(* Every set of natural numbers has a least element. *)
LEMMA LeastOf ==
  ASSUME NEW T, T \subseteq Nat, T # {} PROVE \E x \in T : \A y \in T : x <= y
<1>1. PICK x \in T : \A y \in T : <<y, x>> \notin {ss \in Nat \X Nat : ss[1] < ss[2]}
  BY NatIsWellFounded, WFMin
<1>2. \A y \in T : ~ (y < x)
  BY <1>1
<1> QED  BY <1>2

(* Induction over the natural numbers, for a set *)
LEMMA InductiveSet ==
  ASSUME NEW S, 0 \in S, \A n \in Nat : n \in S => n + 1 \in S PROVE \A n \in Nat : n \in S
<1> SUFFICES ASSUME Nat \ S # {} PROVE FALSE
  OBVIOUS
<1>1. PICK x \in Nat \ S : \A y \in Nat \ S : x <= y
  BY LeastOf
<1>2. x # 0 /\ x - 1 \in Nat
  BY <1>1
<1>3. x - 1 \in S
  BY <1>1, <1>2
<1> QED  BY <1>1, <1>2, <1>3

-----------------------------------------------------------------------------
(* More about powers of two *)

LEMMA PowerMonotone ==
  ASSUME NEW m \in Nat, NEW n \in Nat
  PROVE  /\ m <= n => 2^m <= 2^n
         /\ m < n => 2^m + 2^m <= 2^n
         /\ 2^m < 2^n => m < n
<1>1. ASSUME NEW x \in Nat, NEW y \in Nat, x <= y PROVE 2^x <= 2^y
  <2>1. 2^y = 2^x * 2^(y - x) /\ 2^(y - x) \in Nat \ {0} /\ 2^x \in Nat \ {0}
    BY <1>1, Divides
  <2> DEFINE p == 2^x
             q == 2^(y - x)
  <2>2. 2^y = p * q /\ p \in Nat \ {0} /\ q \in Nat \ {0}
    BY <2>1
  <2> HIDE DEF p, q
  <2>3. p <= p * q
    BY <2>2
  <2> QED  BY <2>2, <2>3 DEF p
<1>2. m < n => 2^m + 2^m <= 2^n
  <2> SUFFICES ASSUME m < n PROVE 2^m + 2^m <= 2^n
    OBVIOUS
  <2>1. m + 1 \in Nat \ {0} /\ m + 1 <= n /\ (m + 1) - 1 = m
    OBVIOUS
  <2>2. 2^(m + 1) = 2^((m + 1) - 1) + 2^((m + 1) - 1)
    BY <2>1, Halves
  <2>3. 2^(m + 1) <= 2^n
    BY <2>1, <1>1
  <2> QED  BY <2>1, <2>2, <2>3
<1>3. 2^m \in Nat \ {0} /\ 2^n \in Nat \ {0}
  BY PowerIsPositive
<1>4. n <= m => 2^n <= 2^m
  BY <1>1
<1> QED  BY <1>1, <1>2, <1>3, <1>4

(* A number is less than its power. *)
LEMMA PowerExceeds == ASSUME NEW n \in Nat PROVE n < 2^n
<1> DEFINE S == {x \in Nat : x < 2^x}
<1>1. 0 \in S
  BY PowerOfZero
<1>2. ASSUME NEW x \in Nat, x \in S PROVE x + 1 \in S
  <2>1. x + 1 \in Nat \ {0} /\ (x + 1) - 1 = x
    OBVIOUS
  <2>2. 2^(x + 1) = 2^((x + 1) - 1) + 2^((x + 1) - 1) /\ 2^((x + 1) - 1) \in Nat \ {0}
    BY <2>1, Halves
  <2> QED  BY <1>2, <2>1, <2>2
<1> HIDE DEF S
<1>3. \A x \in Nat : x \in S
  BY <1>1, <1>2, InductiveSet
<1> QED  BY <1>3 DEF S

(* Products of powers and a factor, in two orders *)
LEMMA Regroup ==
  ASSUME NEW x \in Int, NEW y \in Int, NEW z \in Int
  PROVE  (x * y) * z = x * (y * z) /\ (x * y) * z = (x * z) * y
OBVIOUS

LEMMA ProductMonotone ==
  ASSUME NEW x \in Int, NEW y \in Int, NEW p \in Nat \ {0}
  PROVE  /\ x < y <=> x * p < y * p
         /\ x <= y <=> x * p <= y * p
         /\ x = y <=> x * p = y * p
<1>1. x < y => x * p < y * p
  OBVIOUS
<1>2. y < x => y * p < x * p
  OBVIOUS
<1>3. x * p \in Int /\ y * p \in Int
  OBVIOUS
<1> QED  BY <1>1, <1>2, <1>3

-----------------------------------------------------------------------------
(* The number of bits *)

LEMMA LengthIs ==
  ASSUME NEW n \in Nat \ {0}, NEW l \in Nat \ {0}, 2^(l - 1) <= n, n < 2^l
  PROVE  Length(n) = l
<1> DEFINE Fits(x) == n \div 2^(x - 1) = 1
<1>1. ASSUME NEW x \in Nat \ {0}
      PROVE  Fits(x) <=> 2^(x - 1) <= n /\ n < 2^x
  <2> DEFINE h == 2^(x - 1)
             p == 2^x
  <2>1. h \in Nat \ {0} /\ p = h + h
    BY Halves
  <2>2. Fits(x) <=> n \div h = 1
    OBVIOUS
  <2> HIDE DEF h, p, Fits
  <2>3. ASSUME h <= n, n < p PROVE n \div h = 1
    <3>1. n = 1 * h + (n - h) /\ n - h \in 0 .. (h - 1)
      BY <2>1, <2>3
    <3> QED  BY <2>1, <3>1, DivModIs
  <2>4. ASSUME n \div h = 1 PROVE h <= n /\ n < p
    <3>1. n % h \in 0 .. (h - 1) /\ n = (n \div h) * h + (n % h)
      BY <2>1, DivMod
    <3> QED  BY <2>1, <2>4, <3>1
  <2> QED  BY <2>2, <2>3, <2>4 DEF h, p
<1>2. Fits(l)
  BY <1>1
<1>3. l \in 1 .. n
  <2>1. l - 1 < 2^(l - 1) /\ l - 1 \in Nat /\ 2^(l - 1) \in Nat
    BY PowerExceeds, PowerIsPositive
  <2> QED  BY <2>1
<1>4. ASSUME NEW x \in 1 .. n, Fits(x) PROVE x = l
  <2>1. x \in Nat \ {0} /\ x - 1 \in Nat /\ l - 1 \in Nat
    OBVIOUS
  <2>2. 2^(x - 1) <= n /\ n < 2^x
    BY <1>1, <1>4, <2>1
  <2>3. 2^(x - 1) < 2^l /\ 2^(l - 1) < 2^x
    BY <2>1, <2>2, PowerIsPositive
  <2>4. x - 1 < l /\ l - 1 < x
    BY <2>1, <2>3, PowerMonotone
  <2> QED  BY <2>1, <2>4
<1>5. Length(n) = CHOOSE x \in 1 .. n : Fits(x)
  BY DEF Length
<1> HIDE DEF Fits
<1>6. Length(n) \in 1 .. n /\ Fits(Length(n))
  BY <1>2, <1>3, <1>5
<1> QED  BY <1>4, <1>6

LEMMA LengthDoes ==
  ASSUME NEW n \in Nat \ {0}
  PROVE  Length(n) \in Nat \ {0} /\ 2^(Length(n) - 1) <= n /\ n < 2^Length(n)
<1> DEFINE T == {x \in Nat : n < 2^x}
<1>1. n \in T
  BY PowerExceeds
<1>2. PICK l \in T : \A y \in T : l <= y
  BY <1>1, LeastOf
<1>3. l # 0
  <2>1. n < 2^l
    BY <1>2
  <2>2. l = 0 => 2^l = 1
    BY PowerOfZero
  <2> QED  BY <2>1, <2>2
<1>4. l - 1 \in Nat /\ l - 1 \notin T
  BY <1>2, <1>3
<1>5. 2^(l - 1) <= n
  BY <1>4, PowerIsPositive
<1>6. Length(n) = l
  BY <1>2, <1>3, <1>5, LengthIs
<1> QED  BY <1>2, <1>3, <1>5, <1>6

LEMMA LengthScales ==
  ASSUME NEW n \in Nat \ {0}, NEW j \in Nat
  PROVE  n * 2^j \in Nat \ {0} /\ Length(n * 2^j) = Length(n) + j
<1> DEFINE l == Length(n)
           p == 2^j
           h == 2^(l - 1)
<1>1. l \in Nat \ {0} /\ h <= n /\ n < 2^l
  BY LengthDoes
<1>2. p \in Nat \ {0} /\ h \in Nat \ {0} /\ 2^l \in Nat \ {0}
  BY <1>1, PowerIsPositive
<1>3. 2^(l + j) = 2^l * p
  BY <1>1, PowerOfSum
<1>4. (l + j) - 1 = (l - 1) + j /\ l - 1 \in Nat /\ l + j \in Nat \ {0}
  BY <1>1
<1>5. 2^((l + j) - 1) = h * p
  BY <1>4, PowerOfSum
<1> HIDE DEF p, h, l
<1>6. h * p <= n * p
  BY <1>1, <1>2, ProductMonotone
<1>7. n * p < 2^l * p
  BY <1>1, <1>2, ProductMonotone
<1>8. n * p \in Nat \ {0}
  BY <1>2
<1>9. Length(n * p) = l + j
  BY <1>3, <1>4, <1>5, <1>6, <1>7, <1>8, LengthIs
<1> QED  BY <1>8, <1>9 DEF p, l

-----------------------------------------------------------------------------
(* Rounding *)

(* What a rest after division rounds to *)
Up(neg, q, rest, half, rm) ==
  \/ rm = "RNE" /\ (rest > half \/ (rest = half /\ q % 2 = 1))
  \/ rm = "RMM" /\ rest >= half
  \/ rm = "RUP" /\ ~ neg /\ rest > 0
  \/ rm = "RDN" /\ neg /\ rest > 0

LEMMA RoundedAbove == ASSUME NEW neg, NEW n, NEW k, NEW e, NEW rm, k >= e
                      PROVE  Rounded(neg, n, k, e, rm) = n * 2^(k - e) /\ Exactly(n, k, e)
BY DEF Rounded, Exactly

LEMMA RoundedBelow ==
  ASSUME NEW neg, NEW n, NEW k, NEW e, NEW rm, ~ (k >= e)
  PROVE  /\ Rounded(neg, n, k, e, rm) =
              IF Up(neg, n \div 2^(e - k), n % 2^(e - k), 2^(e - k - 1), rm)
              THEN (n \div 2^(e - k)) + 1 ELSE n \div 2^(e - k)
         /\ Exactly(n, k, e) <=> n % 2^(e - k) = 0
BY DEF Rounded, Exactly, Up

LEMMA UpScales ==
  ASSUME NEW neg, NEW q, NEW rest \in Nat, NEW half \in Nat, NEW rm, NEW p \in Nat \ {0}
  PROVE  Up(neg, q, rest * p, half * p, rm) <=> Up(neg, q, rest, half, rm)
<1>1. /\ rest * p > half * p <=> rest > half
      /\ rest * p = half * p <=> rest = half
      /\ rest * p >= half * p <=> rest >= half
  BY ProductMonotone
<1>2. rest * p > 0 <=> rest > 0
  OBVIOUS
<1> QED  BY <1>1, <1>2 DEF Up

LEMMA UpNone ==
  ASSUME NEW neg, NEW q, NEW half \in Nat \ {0}, NEW rm PROVE ~ Up(neg, q, 0, half, rm)
BY DEF Up

LEMMA DivScales ==
  ASSUME NEW x \in Nat, NEW n \in Nat \ {0}, NEW p \in Nat \ {0}
  PROVE  (x * p) \div (n * p) = x \div n /\ (x * p) % (n * p) = (x % n) * p
<1> DEFINE q == x \div n
           r == x % n
<1>1. q \in Int /\ r \in 0 .. (n - 1) /\ x = q * n + r
  BY DivMod
<1> HIDE DEF q, r
<1>2. x * p = (q * n) * p + r * p /\ (q * n) * p = q * (n * p)
  BY <1>1
<1>3. r * p >= 0 /\ r * p < n * p /\ r * p \in Int /\ n * p \in Nat \ {0}
  BY <1>1, ProductMonotone
<1>4. r * p \in 0 .. (n * p - 1)
  BY <1>3
<1>5. x * p \in Int
  OBVIOUS
<1> DEFINE np == n * p
           rp == r * p
           xp == x * p
<1>6. xp = q * np + rp /\ xp \in Int /\ np \in Nat \ {0} /\ rp \in 0 .. (np - 1)
  BY <1>2, <1>3, <1>4, <1>5
<1> HIDE DEF np, rp, xp
<1>7. xp \div np = q /\ xp % np = rp
  BY <1>1, <1>6, DivModIs
<1> QED  BY <1>7 DEF np, rp, xp, q, r

(* A multiple is divided without rest. *)
LEMMA DivExact ==
  ASSUME NEW x \in Int, NEW p \in Nat \ {0} PROVE (x * p) \div p = x /\ (x * p) % p = 0
<1>1. x * p = x * p + 0 /\ x * p \in Int /\ 0 \in 0 .. (p - 1)
  OBVIOUS
<1> QED  BY <1>1, DivModIs

(* The same number, written with more digits, rounds to the same. *)
LEMMA RoundedScales ==
  ASSUME NEW neg, NEW n \in Nat, NEW k \in Int, NEW e \in Int, NEW rm, NEW j \in Nat
  PROVE  /\ Rounded(neg, n * 2^j, k - j, e, rm) = Rounded(neg, n, k, e, rm)
         /\ Exactly(n * 2^j, k - j, e) <=> Exactly(n, k, e)
<1> DEFINE p == 2^j
<1>0. p \in Nat \ {0} /\ n * p \in Nat
  BY PowerIsPositive
<1>1. CASE k - j >= e
  <2>1. k >= e /\ (k - j) - e \in Nat /\ j + ((k - j) - e) = k - e
    BY <1>1
  <2>2. 2^(k - e) = p * 2^((k - j) - e) /\ 2^((k - j) - e) \in Nat
    BY <2>1, PowerOfSum, PowerIsPositive
  <2>3. (n * p) * 2^((k - j) - e) = n * (p * 2^((k - j) - e))
    BY <1>0, <2>2, Regroup
  <2> DEFINE np == n * p
  <2>6. np * 2^((k - j) - e) = n * 2^(k - e)
    BY <2>2, <2>3
  <2> HIDE DEF np
  <2>7. Rounded(neg, np, k - j, e, rm) = np * 2^((k - j) - e) /\ Exactly(np, k - j, e)
    BY <1>1, RoundedAbove
  <2>4. Rounded(neg, n * p, k - j, e, rm) = n * 2^(k - e) /\ Exactly(n * p, k - j, e)
    BY <2>6, <2>7 DEF np
  <2>5. Rounded(neg, n, k, e, rm) = n * 2^(k - e) /\ Exactly(n, k, e)
    BY <2>1, RoundedAbove
  <2> QED  BY <2>4, <2>5 DEF p
<1>2. CASE ~ (k - j >= e) /\ k >= e
  <2> DEFINE d == e - (k - j)
             D == 2^d
             x == n * 2^(k - e)
  <2>1. d \in Nat \ {0} /\ k - e \in Nat /\ (k - e) + d = j
    BY <1>2
  <2>2. p = 2^(k - e) * D /\ 2^(k - e) \in Nat \ {0} /\ D \in Nat \ {0} /\ 2^(d - 1) \in Nat \ {0}
    BY <2>1, PowerOfSum, PowerIsPositive, Halves
  <2>3. n * p = x * D /\ x \in Nat
    BY <2>2, Regroup
  <2> HIDE DEF D, x, p
  <2>4. (n * p) \div D = x /\ (n * p) % D = 0
    BY <2>2, <2>3, DivExact
  <2>5. ~ Up(neg, x, 0, 2^(d - 1), rm)
    BY <2>2, UpNone
  <2>6. /\ Rounded(neg, n * p, k - j, e, rm) =
              IF Up(neg, (n * p) \div 2^d, (n * p) % 2^d, 2^(d - 1), rm)
              THEN ((n * p) \div 2^d) + 1 ELSE (n * p) \div 2^d
        /\ Exactly(n * p, k - j, e) <=> (n * p) % 2^d = 0
    BY <1>2, RoundedBelow
  <2>7. Rounded(neg, n * p, k - j, e, rm) = x /\ Exactly(n * p, k - j, e)
    BY <2>4, <2>5, <2>6 DEF D
  <2>8. Rounded(neg, n, k, e, rm) = x /\ Exactly(n, k, e)
    BY <1>2, RoundedAbove DEF x
  <2> QED  BY <2>7, <2>8 DEF p
<1>3. CASE ~ (k >= e)
  <2> DEFINE d == e - k
             g == e - (k - j)
             D == 2^d
             h == 2^(d - 1)
  <2>1. d \in Nat \ {0} /\ d - 1 \in Nat /\ g = d + j /\ g - 1 = (d - 1) + j /\ ~ (k - j >= e)
    BY <1>3
  <2>9. D \in Nat \ {0} /\ h \in Nat \ {0}
    BY <2>1, Halves
  <2>10. d \in Nat /\ d - 1 \in Nat /\ j \in Nat
    BY <2>1
  <2>11. 2^(d + j) = D * p
    BY <2>10, PowerOfSum
  <2>12. 2^((d - 1) + j) = h * p
    BY <2>10, PowerOfSum
  <2>2. 2^g = D * p /\ 2^(g - 1) = h * p /\ D \in Nat \ {0} /\ h \in Nat \ {0}
    <3> HIDE DEF d, g, D, h, p
    <3> QED  BY <2>1, <2>9, <2>11, <2>12
  <2> DEFINE q == n \div D
             r == n % D
  <2>3. r \in Nat
    BY <2>2, DivMod
  <2>6. /\ Rounded(neg, n * p, k - j, e, rm) =
              IF Up(neg, (n * p) \div 2^g, (n * p) % 2^g, 2^(g - 1), rm)
              THEN ((n * p) \div 2^g) + 1 ELSE (n * p) \div 2^g
        /\ Exactly(n * p, k - j, e) <=> (n * p) % 2^g = 0
    <3> DEFINE n2 == n * p
               k2 == k - j
    <3>1. ~ (k2 >= e)
      BY <2>1
    <3> HIDE DEF n2, k2
    <3>2. /\ Rounded(neg, n2, k2, e, rm) =
               IF Up(neg, n2 \div 2^(e - k2), n2 % 2^(e - k2), 2^(e - k2 - 1), rm)
               THEN (n2 \div 2^(e - k2)) + 1 ELSE n2 \div 2^(e - k2)
          /\ Exactly(n2, k2, e) <=> n2 % 2^(e - k2) = 0
      BY ONLY <3>1, RoundedBelow
    <3> QED  BY <3>2 DEF n2, k2
  <2>7. /\ Rounded(neg, n, k, e, rm) = IF Up(neg, q, r, h, rm) THEN q + 1 ELSE q
        /\ Exactly(n, k, e) <=> r = 0
    BY <1>3, RoundedBelow
  <2> HIDE DEF D, h, p, g
  <2>4. (n * p) \div (D * p) = q /\ (n * p) % (D * p) = r * p
    BY <1>0, <2>2, DivScales
  <2> HIDE DEF q, r
  <2>5. Up(neg, q, r * p, h * p, rm) <=> Up(neg, q, r, h, rm)
    BY <1>0, <2>2, <2>3, UpScales
  <2>8. r * p = 0 <=> r = 0
    BY <1>0, <2>3
  <2> QED  BY <2>2, <2>4, <2>5, <2>6, <2>7, <2>8 DEF p
<1> QED  BY <1>1, <1>2, <1>3

-----------------------------------------------------------------------------
(* Formats *)

(* The first quotients *)
LEMMA DivZero == ASSUME NEW n \in Nat \ {0}, NEW x \in 0 .. (n - 1) PROVE x \div n = 0 /\ x % n = x
<1>1. PICK q \in Int : q = 0
  OBVIOUS
<1>2. x = q * n + x /\ x \in Int
  BY <1>1
<1> QED  BY <1>1, <1>2, DivModIs

LEMMA DivOne ==
  ASSUME NEW n \in Nat \ {0}, NEW x \in n .. (n + n - 1) PROVE x \div n = 1 /\ x % n = x - n
<1>1. PICK q \in Int : q = 1
  OBVIOUS
<1>2. x = q * n + (x - n) /\ x \in Int /\ x - n \in 0 .. (n - 1)
  BY <1>1
<1> QED  BY <1>1, <1>2, DivModIs

Fmt(f) == f.e \in Nat \ {0, 1} /\ f.m \in Nat \ {0, 1}
Data(f) == 0 .. (2^Width(f) - 1)

LEMMA FormatSizes ==
  ASSUME NEW f, Fmt(f)
  PROVE  /\ 2^f.m \in Nat \ {0} /\ 2^(f.m - 1) \in Nat \ {0, 1} /\ 2^f.m = 2^(f.m - 1) + 2^(f.m - 1)
         /\ SignBit(f) \in Nat \ {0} /\ Infinity(f) = SignBit(f) - 2^f.m /\ Infinity(f) \in Nat
         /\ Infinity(f) > 2^f.m
         /\ CanonicalNan(f) = Infinity(f) + 2^(f.m - 1) /\ CanonicalNan(f) \in Nat
         /\ CanonicalNan(f) < SignBit(f)
         /\ Width(f) \in Nat \ {0} /\ 2^Width(f) = SignBit(f) + SignBit(f)
         /\ Least(f) \in Int
<1> DEFINE e == f.e
           m == f.m
           p == 2^e
           q == 2^m
           h == 2^(m - 1)
           h2 == 2^((m - 1) - 1)
           e1 == 2^(e - 1)
           e2 == 2^((e - 1) - 1)
<1>1. e \in Nat \ {0, 1} /\ m \in Nat \ {0, 1}
  BY DEF Fmt
<1> HIDE DEF e, m
<1>2. m \in Nat \ {0} /\ m - 1 \in Nat \ {0} /\ e \in Nat \ {0} /\ e - 1 \in Nat \ {0}
  BY <1>1
<1>3. q \in Nat \ {0} /\ h \in Nat \ {0} /\ q = h + h /\ h2 \in Nat \ {0} /\ h = h2 + h2
  BY <1>2, Halves
<1>4. p \in Nat \ {0} /\ e1 \in Nat \ {0} /\ p = e1 + e1 /\ e2 \in Nat \ {0} /\ e1 = e2 + e2
  BY <1>2, Halves
<1>5. 2^(e + m) = p * q
  BY <1>2, PowerOfSum
<1>6. e + m + 1 \in Nat \ {0} /\ (e + m + 1) - 1 = e + m /\ 1 + e + m = e + m + 1
  BY <1>1
<1>7. 2^(e + m + 1) = 2^(e + m) + 2^(e + m)
  BY <1>6, Halves
<1>8. 2 - e1 - m \in Int
  BY <1>2, <1>4
<1> HIDE DEF p, q, h, h2, e1, e2
<1>9. (p - 1) * q = p * q - q /\ p * q \in Nat
  BY <1>3, <1>4
<1>10. p >= 4
  BY <1>4
<1>11. q < (p - 1) * q
  <2>1. 1 < p - 1 /\ 1 \in Int /\ p - 1 \in Int
    BY <1>4, <1>10
  <2>2. 1 * q < (p - 1) * q
    BY <2>1, <1>3, ProductMonotone
  <2> QED  BY <2>2, <1>3
<1>12. SignBit(f) = p * q /\ Infinity(f) = (p - 1) * q /\ Least(f) = 2 - e1 - m
  BY <1>5 DEF SignBit, Infinity, Least, p, q, e, m, e1
<1>13. CanonicalNan(f) = Infinity(f) + h
  BY DEF CanonicalNan, h, m
<1>14. Width(f) = e + m + 1
  BY <1>6 DEF Width, e, m
<1>15. p * q > 0
  BY <1>9, <1>11, <1>3
<1> DEFINE s == p * q
           inf == (p - 1) * q
<1>16. s \in Nat /\ inf = s - q /\ q < inf /\ s > 0
  BY <1>9, <1>11, <1>15
<1> HIDE DEF s, inf
<1>17. /\ SignBit(f) = s /\ Infinity(f) = inf /\ 2^Width(f) = s + s
  BY <1>5, <1>7, <1>12, <1>14 DEF s, inf
<1>18. q = 2^f.m /\ h = 2^(f.m - 1)
  BY DEF q, h, m
<1> QED  BY <1>3, <1>6, <1>8, <1>1, <1>12, <1>13, <1>14, <1>16, <1>17, <1>18

(* A datum is a sign and a magnitude. *)
LEMMA WithSignDoes ==
  ASSUME NEW f, Fmt(f), NEW neg \in BOOLEAN, NEW mag \in 0 .. (SignBit(f) - 1)
  PROVE  /\ WithSign(neg, mag, f) \in Data(f) /\ WithSign(neg, mag, f) \in Nat
         /\ Neg(WithSign(neg, mag, f), f) = neg /\ Mag(WithSign(neg, mag, f), f) = mag
<1> DEFINE s == SignBit(f)
           b == WithSign(neg, mag, f)
<1>1. s \in Nat \ {0} /\ 2^Width(f) = s + s
  BY FormatSizes
<1>2. b = mag + (IF neg THEN s ELSE 0)
  BY DEF WithSign
<1>3. Neg(b, f) <=> b >= s
  BY DEF Neg
<1>4. Mag(b, f) = b % s
  BY DEF Mag
<1>5. Data(f) = 0 .. (s + s - 1)
  BY <1>1 DEF Data
<1> HIDE DEF s, b
<1>6. mag \in 0 .. (s - 1)
  BY DEF s
<1>7. b = (IF neg THEN 1 ELSE 0) * s + mag /\ b \in Int
  BY <1>1, <1>2, <1>6
<1>8. b % s = mag
  BY <1>1, <1>6, <1>7, DivModIs
<1>9. b \in Data(f) /\ b \in Nat
  BY <1>1, <1>2, <1>5, <1>6
<1>10. b >= s <=> neg
  BY <1>1, <1>2, <1>6
<1>11. Neg(b, f) = neg
  BY <1>3, <1>10 DEF Neg
<1> QED  BY <1>4, <1>8, <1>9, <1>11 DEF b

LEMMA DatumDoes ==
  ASSUME NEW f, Fmt(f), NEW b \in Data(f)
  PROVE  /\ Mag(b, f) \in 0 .. (SignBit(f) - 1) /\ Neg(b, f) \in BOOLEAN /\ b \in Nat
         /\ b = WithSign(Neg(b, f), Mag(b, f), f)
<1> DEFINE s == SignBit(f)
<1>1. s \in Nat \ {0} /\ 2^Width(f) = s + s
  BY FormatSizes
<1>2. b \in 0 .. (s + s - 1)
  BY <1>1 DEF Data
<1>3. (Neg(b, f) <=> b >= s) /\ Neg(b, f) \in BOOLEAN
  BY DEF Neg
<1>4. Mag(b, f) = b % s
  BY DEF Mag
<1>5. WithSign(Neg(b, f), Mag(b, f), f) = Mag(b, f) + (IF Neg(b, f) THEN s ELSE 0)
  BY DEF WithSign
<1> HIDE DEF s
<1>6. CASE b >= s
  <2>1. b \in s .. (s + s - 1) /\ b - s \in 0 .. (s - 1)
    BY <1>1, <1>2, <1>6
  <2>2. b % s = b - s
    BY <1>1, <2>1, DivOne
  <2> QED  BY <1>1, <1>2, <1>3, <1>4, <1>5, <1>6, <2>1, <2>2 DEF s
<1>7. CASE b < s
  <2>1. b \in 0 .. (s - 1)
    BY <1>1, <1>2, <1>7
  <2>2. b % s = b
    BY <1>1, <2>1, DivZero
  <2> QED  BY <1>1, <1>2, <1>3, <1>4, <1>5, <1>7, <2>1, <2>2 DEF s
<1> QED  BY <1>1, <1>2, <1>6, <1>7

LEMMA FlipDoes ==
  ASSUME NEW f, Fmt(f), NEW b \in Data(f)
  PROVE  /\ Flip(b, f) \in Data(f)
         /\ Mag(Flip(b, f), f) = Mag(b, f) /\ Neg(Flip(b, f), f) = ~ Neg(b, f)
BY DatumDoes, WithSignDoes DEF Flip

(* Digits and exponent *)
LEMMA SigDoes ==
  ASSUME NEW f, Fmt(f), NEW b \in Data(f)
  PROVE  /\ Sig(b, f) \in Nat /\ Sig(b, f) < 2^f.m + 2^f.m /\ Place(b, f) \in Int
         /\ Num(b, f) \in Int
         /\ IsZero(b, f) <=> Sig(b, f) = 0
<1> DEFINE q == 2^f.m
           mag == Mag(b, f)
<1>1. q \in Nat \ {0} /\ Least(f) \in Int
  BY FormatSizes
<1>2. mag \in Nat
  BY DatumDoes, FormatSizes
<1>3. Sig(b, f) = (mag % q) + (IF mag < q THEN 0 ELSE q)
  BY DEF Sig
<1>4. Place(b, f) = Least(f) + (IF mag \div q = 0 THEN 0 ELSE mag \div q - 1)
  BY DEF Place
<1>5. IsZero(b, f) <=> mag = 0
  BY DEF IsZero
<1> HIDE DEF q, mag
<1>6. mag % q \in 0 .. (q - 1) /\ mag \div q \in Int /\ mag = (mag \div q) * q + (mag % q)
  BY <1>1, <1>2, DivMod
<1>7. mag < q => mag % q = mag
  BY <1>1, <1>2
<1>8. Sig(b, f) \in Nat /\ Sig(b, f) < q + q
  BY <1>1, <1>3, <1>6
<1>9. Place(b, f) \in Int
  BY <1>1, <1>4, <1>6
<1>10. mag = 0 <=> Sig(b, f) = 0
  BY <1>1, <1>2, <1>3, <1>6, <1>7
<1>11. Num(b, f) \in Int
  BY <1>8 DEF Num
<1> QED  BY <1>5, <1>8, <1>9, <1>10, <1>11 DEF q

(* Data of the same magnitude *)
LEMMA SameMag ==
  ASSUME NEW f, NEW b, NEW c, Mag(b, f) = Mag(c, f)
  PROVE  /\ Sig(b, f) = Sig(c, f) /\ Place(b, f) = Place(c, f)
         /\ (IsNan(b, f) <=> IsNan(c, f)) /\ (IsInf(b, f) <=> IsInf(c, f)) /\ (IsZero(b, f) <=> IsZero(c, f))
         /\ (IsSignaling(b, f) <=> IsSignaling(c, f))
BY DEF Sig, Place, IsNan, IsInf, IsZero, IsSignaling

(* Reading back: the digits and the exponent that a magnitude was put
   together from *)
LEMMA Decodes ==
  ASSUME NEW f, Fmt(f), NEW b, NEW e \in Int, NEW n \in Nat, e >= Least(f),
         n < 2^f.m + 2^f.m, e > Least(f) => n >= 2^f.m,
         Mag(b, f) = (e - Least(f)) * 2^f.m + n
  PROVE  Sig(b, f) = n /\ Place(b, f) = e
<1> DEFINE q == 2^f.m
           mag == Mag(b, f)
           l == Least(f)
<1>1. q \in Nat \ {0} /\ l \in Int
  BY FormatSizes
<1>3. Sig(b, f) = (mag % q) + (IF mag < q THEN 0 ELSE q)
  BY DEF Sig
<1>4. Place(b, f) = l + (IF mag \div q = 0 THEN 0 ELSE mag \div q - 1)
  BY DEF Place
<1>5. mag = (e - l) * q + n /\ e >= l /\ n < q + q /\ (e > l => n >= q)
  OBVIOUS
<1> HIDE DEF q, mag, l
<1>6. (e - l) * q \in Nat
  BY <1>1, <1>5
<1>7. mag \in Nat
  BY <1>5, <1>6
<1>8. CASE n < q
  <2>1. e = l /\ mag = n
    BY <1>1, <1>5, <1>8
  <2>2. mag = n /\ n \in 0 .. (q - 1)
    BY <1>1, <2>1, <1>8
  <2>3. mag \div q = 0 /\ mag % q = n
    BY <1>1, <2>2, DivZero
  <2> QED  BY <1>1, <1>3, <1>4, <1>8, <2>1, <2>3
<1>9. CASE n >= q
  <2>1. mag = ((e - l) + 1) * q + (n - q) /\ n - q \in 0 .. (q - 1)
    BY <1>1, <1>5, <1>9
  <2> DEFINE d == (e - l) + 1
  <2>5. d \in Int /\ mag = d * q + (n - q) /\ mag \in Int
    BY <1>1, <1>7, <2>1
  <2> HIDE DEF d
  <2> DEFINE r == n - q
  <2>10. q \in Nat \ {0} /\ r \in 0 .. (q - 1) /\ mag = d * q + r
    BY <1>1, <2>1, <2>5
  <2> HIDE DEF r
  <2>11. mag \div q = d /\ mag % q = r
    BY ONLY <2>5, <2>10, DivModIs
  <2>2. mag \div q = d /\ mag % q = n - q
    BY <2>11 DEF r
  <2>3. mag >= q
    BY <1>1, <1>5, <1>6, <1>9
  <2>4. d # 0 /\ l + (d - 1) = e
    BY <1>1, <1>5 DEF d
  <2>6. (n - q) + q = n
    BY <1>1
  <2>7. ~ (mag < q)
    BY <1>1, <1>7, <2>3
  <2> QED  BY <1>3, <1>4, <2>2, <2>4, <2>6, <2>7
<1> QED  BY <1>1, <1>8, <1>9

-----------------------------------------------------------------------------
(* The parts of Round *)

Own(n, k, f) == k + Length(n) - 1 - f.m
At(n, k, f) == Larger(Own(n, k, f), Least(f))
MagOf(neg, n, k, rm, f) ==
  (At(n, k, f) - Least(f)) * 2^f.m + Rounded(neg, n, k, At(n, k, f), rm)
Over(neg, n, k, rm, f) == MagOf(neg, n, k, rm, f) >= Infinity(f)
Inexact(neg, n, k, rm, f) == Over(neg, n, k, rm, f) \/ ~ Exactly(n, k, At(n, k, f))
ToInf(neg, rm) == rm \in {"RNE", "RMM"} \/ (rm = "RUP" /\ ~ neg) \/ (rm = "RDN" /\ neg)
Capped(neg, n, k, rm, f) ==
  IF ~ Over(neg, n, k, rm, f) THEN MagOf(neg, n, k, rm, f)
  ELSE IF ToInf(neg, rm) THEN Infinity(f) ELSE Infinity(f) - 1
Tiny(neg, n, k, rm, f) ==
  \/ Own(n, k, f) < Least(f) - 1
  \/ Own(n, k, f) = Least(f) - 1 /\ Rounded(neg, n, k, Own(n, k, f), rm) < 2^(f.m + 1)
FlagsOf(neg, n, k, rm, f) ==
  (IF Inexact(neg, n, k, rm, f) THEN {"NX"} ELSE {})
  \cup (IF Over(neg, n, k, rm, f) THEN {"OF"} ELSE {})
  \cup (IF Tiny(neg, n, k, rm, f) /\ Inexact(neg, n, k, rm, f) THEN {"UF"} ELSE {})

LEMMA RoundIs ==
  ASSUME NEW neg, NEW n, NEW k, NEW rm, NEW f, n # 0
  PROVE  /\ Round(neg, n, k, rm, f).bits = WithSign(neg, Capped(neg, n, k, rm, f), f)
         /\ Round(neg, n, k, rm, f).flags = FlagsOf(neg, n, k, rm, f)
         /\ Round(neg, n, k, rm, f) =
              Result(WithSign(neg, Capped(neg, n, k, rm, f), f), FlagsOf(neg, n, k, rm, f))
BY DEF Round, Result, Capped, FlagsOf, Tiny, Inexact, ToInf, Over, MagOf, At, Own

LEMMA RoundZero ==
  ASSUME NEW neg, NEW k, NEW rm, NEW f
  PROVE  Round(neg, 0, k, rm, f) = Result(WithSign(neg, 0, f), {})
BY DEF Round

LEMMA LargerDoes ==
  ASSUME NEW x \in Int, NEW y \in Int
  PROVE  Larger(x, y) \in Int /\ Larger(x, y) >= x /\ Larger(x, y) >= y /\ Larger(x, y) \in {x, y}
BY DEF Larger

LEMMA RoundedNat ==
  ASSUME NEW neg, NEW n \in Nat, NEW k \in Int, NEW e \in Int, NEW rm
  PROVE  Rounded(neg, n, k, e, rm) \in Nat
<1>1. CASE k >= e
  <2>1. k - e \in Nat
    BY <1>1
  <2>2. 2^(k - e) \in Nat
    BY <2>1, PowerIsPositive
  <2> QED  BY <1>1, <2>2, RoundedAbove, ProductNat
<1>2. CASE ~ (k >= e)
  <2> DEFINE p == 2^(e - k)
             q == n \div p
  <2>1. e - k \in Nat
    BY <1>2
  <2>2. p \in Nat \ {0}
    BY <2>1, PowerIsPositive
  <2>3. Rounded(neg, n, k, e, rm) \in {q, q + 1}
    BY <1>2, RoundedBelow
  <2> HIDE DEF p
  <2>4. q \in Nat
    BY <2>2
  <2> HIDE DEF q
  <2> QED  BY <2>3, <2>4
<1> QED  BY <1>1, <1>2

LEMMA PlacesDo ==
  ASSUME NEW f, Fmt(f), NEW n \in Nat \ {0}, NEW k \in Int
  PROVE  /\ Own(n, k, f) \in Int /\ At(n, k, f) \in Int /\ Least(f) \in Int
         /\ At(n, k, f) >= Own(n, k, f) /\ At(n, k, f) >= Least(f)
         /\ At(n, k, f) > Least(f) => At(n, k, f) = Own(n, k, f)
<1>1. Length(n) \in Nat /\ f.m \in Nat
  BY LengthDoes DEF Fmt
<1>2. Own(n, k, f) \in Int /\ Least(f) \in Int
  BY <1>1, FormatSizes DEF Own
<1> QED  BY <1>2, LargerDoes DEF At

LEMMA MagOfNat ==
  ASSUME NEW f, Fmt(f), NEW neg, NEW n \in Nat \ {0}, NEW k \in Int, NEW rm
  PROVE  MagOf(neg, n, k, rm, f) \in Nat /\ Capped(neg, n, k, rm, f) \in 0 .. Infinity(f)
<1> DEFINE a == At(n, k, f)
           d == a - Least(f)
           q == 2^f.m
           r == Rounded(neg, n, k, a, rm)
<1>1. a \in Int /\ d \in Nat
  BY PlacesDo
<1>2. q \in Nat /\ Infinity(f) \in Nat /\ Infinity(f) > 0
  BY FormatSizes
<1> HIDE DEF a
<1>3. r \in Nat
  BY <1>1, RoundedNat
<1> HIDE DEF d, q, r
<1>4. d * q + r \in Nat
  BY <1>1, <1>2, <1>3
<1>5. MagOf(neg, n, k, rm, f) = d * q + r
  BY DEF MagOf, d, q, r, a
<1>6. MagOf(neg, n, k, rm, f) \in Nat
  BY <1>4, <1>5
<1> QED  BY <1>2, <1>6 DEF Capped, Over

(* What rounding gives: a sign and a magnitude up to infinity, and no invalid
   operation *)
LEMMA RoundDoes ==
  ASSUME NEW f, Fmt(f), NEW neg \in BOOLEAN, NEW n \in Nat, NEW k \in Int, NEW rm
  PROVE  \E mag \in 0 .. Infinity(f), flags \in SUBSET {"NX", "OF", "UF"} :
           Round(neg, n, k, rm, f) = Result(WithSign(neg, mag, f), flags)
<1>1. CASE n = 0
  <2>1. Round(neg, n, k, rm, f) = Result(WithSign(neg, 0, f), {})
    BY <1>1, RoundZero
  <2>2. 0 \in 0 .. Infinity(f) /\ {} \in SUBSET {"NX", "OF", "UF"}
    BY FormatSizes
  <2> QED  BY <2>1, <2>2
<1>2. CASE n # 0
  <2>1. n \in Nat \ {0}
    BY <1>2
  <2>2. Capped(neg, n, k, rm, f) \in 0 .. Infinity(f)
    BY <2>1, MagOfNat
  <2>3. FlagsOf(neg, n, k, rm, f) \in SUBSET {"NX", "OF", "UF"}
    BY DEF FlagsOf
  <2>4. Round(neg, n, k, rm, f) =
          Result(WithSign(neg, Capped(neg, n, k, rm, f), f), FlagsOf(neg, n, k, rm, f))
    BY <1>2, RoundIs
  <2> QED  BY <2>2, <2>3, <2>4
<1> QED  BY <1>1, <1>2

(* The same number, written with more digits, rounds to the same datum. *)
LEMMA RoundScales ==
  ASSUME NEW f, Fmt(f), NEW neg \in BOOLEAN, NEW n \in Nat, NEW k \in Int, NEW rm, NEW j \in Nat
  PROVE  Round(neg, n * 2^j, k - j, rm, f) = Round(neg, n, k, rm, f)
<1>0. 2^j \in Nat \ {0}
  BY PowerIsPositive
<1>1. CASE n = 0
  <2>1. n * 2^j = 0
    BY <1>0, <1>1
  <2> QED  BY <1>1, <2>1, RoundZero
<1>2. CASE n # 0
  <2> DEFINE N == n * 2^j
             K == k - j
  <2>1. N \in Nat \ {0} /\ Length(N) = Length(n) + j /\ Length(n) \in Nat /\ K \in Int /\ f.m \in Nat
    <3>1. n \in Nat \ {0}
      BY <1>2
    <3>2. N \in Nat \ {0} /\ Length(N) = Length(n) + j
      BY <3>1, LengthScales
    <3>3. Length(n) \in Nat
      BY <3>1, LengthDoes
    <3> HIDE DEF N
    <3> QED  BY <3>2, <3>3 DEF Fmt
  <2>2. \A e \in Int : /\ Rounded(neg, N, K, e, rm) = Rounded(neg, n, k, e, rm)
                       /\ Exactly(N, K, e) <=> Exactly(n, k, e)
    BY RoundedScales
  <2> HIDE DEF N
  <2>3. Own(N, K, f) = Own(n, k, f)
    BY <2>1 DEF Own
  <2> HIDE DEF K
  <2>4. At(N, K, f) = At(n, k, f)
    BY <2>3 DEF At
  <2>5. At(n, k, f) \in Int /\ Own(n, k, f) \in Int
    BY <1>2, PlacesDo
  <2>6. MagOf(neg, N, K, rm, f) = MagOf(neg, n, k, rm, f)
    BY <2>2, <2>4, <2>5 DEF MagOf
  <2>7. /\ Over(neg, N, K, rm, f) <=> Over(neg, n, k, rm, f)
        /\ Capped(neg, N, K, rm, f) = Capped(neg, n, k, rm, f)
    BY <2>6 DEF Over, Capped
  <2>8. /\ Inexact(neg, N, K, rm, f) <=> Inexact(neg, n, k, rm, f)
        /\ Tiny(neg, N, K, rm, f) <=> Tiny(neg, n, k, rm, f)
    BY <2>2, <2>3, <2>4, <2>5, <2>7 DEF Inexact, Tiny
  <2>9. FlagsOf(neg, N, K, rm, f) = FlagsOf(neg, n, k, rm, f)
    BY <2>7, <2>8 DEF FlagsOf
  <2>10. Round(neg, N, K, rm, f) = Result(WithSign(neg, Capped(neg, N, K, rm, f), f), FlagsOf(neg, N, K, rm, f))
    BY <2>1, RoundIs
  <2>11. Round(neg, n, k, rm, f) = Result(WithSign(neg, Capped(neg, n, k, rm, f), f), FlagsOf(neg, n, k, rm, f))
    BY <1>2, RoundIs
  <2>12. Round(neg, N, K, rm, f) = Round(neg, n, k, rm, f)
    BY <2>7, <2>9, <2>10, <2>11
  <2> QED  BY <2>12 DEF N, K
<1> QED  BY <1>1, <1>2

(* Rounding to nearest does not look at the sign. *)
LEMMA NearestUnsigned ==
  ASSUME NEW neg, NEW neg2, NEW n, NEW k, NEW f
  PROVE  Round(neg, n, k, "RNE", f).flags = Round(neg2, n, k, "RNE", f).flags
<1>1. CASE n = 0
  BY <1>1, RoundZero DEF Result
<1>2. CASE n # 0
  <2>1. \A e : Rounded(neg, n, k, e, "RNE") = Rounded(neg2, n, k, e, "RNE")
    BY DEF Rounded
  <2>2. MagOf(neg, n, k, "RNE", f) = MagOf(neg2, n, k, "RNE", f)
    BY <2>1 DEF MagOf
  <2>3. FlagsOf(neg, n, k, "RNE", f) = FlagsOf(neg2, n, k, "RNE", f)
    BY <2>1, <2>2 DEF FlagsOf, Inexact, Over, Tiny
  <2> QED  BY <1>2, <2>3, RoundIs
<1> QED  BY <1>1, <1>2

-----------------------------------------------------------------------------
(* An exact result *)

(* The digits of an exact result: as many as the format has *)
LEMMA ExactDigits ==
  ASSUME NEW f, Fmt(f), NEW neg, NEW n \in Nat \ {0}, NEW k \in Int, NEW rm,
         Exactly(n, k, At(n, k, f))
  PROVE  LET a == At(n, k, f)
             r == Rounded(neg, n, k, a, rm)
         IN  /\ r \in Nat \ {0} /\ r < 2^f.m + 2^f.m
             /\ a > Least(f) => r >= 2^f.m
             /\ \/ a <= k /\ r = n * 2^(k - a)
                \/ k <= a /\ n = r * 2^(a - k)
<1> DEFINE a == At(n, k, f)
           r == Rounded(neg, n, k, a, rm)
           l == Length(n)
           m == f.m
           q == 2^m
           lo == 2^(l - 1)
           hi == 2^l
<1>1. /\ a \in Int /\ Own(n, k, f) \in Int /\ a >= Own(n, k, f)
      /\ a > Least(f) => a = Own(n, k, f)
  BY PlacesDo
<1>2. l \in Nat \ {0} /\ lo <= n /\ n < hi
  BY LengthDoes
<1>3. lo \in Nat \ {0} /\ hi \in Nat \ {0}
  BY <1>2, PowerIsPositive
<1>4. m \in Nat /\ m + 1 \in Nat \ {0} /\ q \in Nat \ {0}
  BY PowerIsPositive DEF Fmt
<1>5. Own(n, k, f) = k + l - 1 - m
  BY DEF Own
<1>6. 2^(m + 1) = q + q
  <2>1. (m + 1) - 1 = m
    BY <1>4
  <2>2. 2^(m + 1) = 2^((m + 1) - 1) + 2^((m + 1) - 1)
    BY <1>4, Halves
  <2> QED  BY <2>1, <2>2
<1>7. Exactly(n, k, a)
  OBVIOUS
<1>8. r \in Nat
  BY <1>1, RoundedNat
<1> DEFINE own == Own(n, k, f)
<1> HIDE DEF a, l, m, own
<1>9. CASE k >= a
  <2> DEFINE d == k - a
             p == 2^d
  <2>1. d \in Nat /\ p \in Nat \ {0}
    BY <1>1, <1>9, PowerIsPositive
  <2>2. r = n * p
    BY <1>9, RoundedAbove
  <2>3. l + d <= m + 1 /\ l + d \in Nat
    BY <1>1, <1>2, <1>4, <1>5, <1>9
  <2>4. hi * p = 2^(l + d) /\ 2^(l + d) <= 2^(m + 1)
    BY <1>2, <1>4, <2>1, <2>3, PowerOfSum, PowerMonotone
  <2>5. a > Least(f) => q <= lo * p
    <3> SUFFICES ASSUME a > Least(f) PROVE q = lo * p
      BY <1>4
    <3>1. (l - 1) + d = m /\ l - 1 \in Nat
      BY <1>1, <1>2, <1>4, <1>5
    <3> QED  BY <2>1, <3>1, PowerOfSum
  <2> HIDE DEF p, d, hi, lo, q, r
  <2>6. n * p < hi * p /\ lo * p <= n * p /\ n * p \in Nat \ {0} /\ lo * p \in Nat
    BY <1>2, <1>3, <2>1, ProductMonotone
  <2>9. hi * p <= q + q /\ hi * p \in Int
    BY <1>3, <1>6, <2>1, <2>4
  <2>7. r < q + q /\ r \in Nat \ {0}
    BY <1>4, <2>2, <2>6, <2>9
  <2>8. a > Least(f) => r >= q
    BY <1>4, <2>2, <2>5, <2>6
  <2> QED  BY <1>9, <2>2, <2>7, <2>8 DEF a, r, q, m, p, d
<1>10. CASE ~ (k >= a)
  <2> DEFINE d == a - k
             p == 2^d
             h == 2^(d - 1)
  <2>1. d \in Nat \ {0} /\ p \in Nat \ {0} /\ h \in Nat \ {0}
    BY <1>1, <1>10, Halves
  <2>2. n % p = 0
    BY <1>7, <1>10, RoundedBelow
  <2>3. r = IF Up(neg, n \div p, n % p, h, rm) THEN (n \div p) + 1 ELSE n \div p
    BY <1>10, RoundedBelow
  <2>4. l <= (m + 1) + d /\ (m + 1) + d \in Nat
    BY <1>1, <1>2, <1>4, <1>5, <1>10
  <2>5. hi <= 2^((m + 1) + d) /\ 2^((m + 1) + d) = 2^(m + 1) * p
    BY <1>2, <1>4, <2>1, <2>4, PowerOfSum, PowerMonotone
  <2>6. a > Least(f) => lo = q * p
    <3> SUFFICES ASSUME a > Least(f) PROVE lo = q * p
      OBVIOUS
    <3>1. l - 1 = m + d
      BY <1>1, <1>2, <1>4, <1>5
    <3> QED  BY <1>4, <2>1, <3>1, PowerOfSum
  <2> HIDE DEF p, d, hi, lo, q, r, h
  <2>7. r = n \div p
    BY <2>1, <2>2, <2>3, UpNone
  <2>8. n = (n \div p) * p + (n % p) /\ n \div p \in Int
    BY <2>1, DivMod
  <2>9. n = r * p
    BY <1>8, <2>1, <2>2, <2>7, <2>8
  <2>10. r * p < (q + q) * p
    BY <1>2, <1>3, <1>4, <1>6, <2>1, <2>5, <2>9
  <2>11. r < q + q
    BY <1>4, <1>8, <2>1, <2>10, ProductMonotone
  <2>12. r # 0
    BY <2>1, <2>9
  <2>13. a > Least(f) => r >= q
    BY <1>2, <1>3, <1>4, <1>8, <2>1, <2>6, <2>9, ProductMonotone
  <2>14. k <= a
    BY <1>1, <1>10
  <2> QED  BY <1>8, <2>9, <2>11, <2>12, <2>13, <2>14 DEF a, r, q, m, p, d
<1> QED  BY <1>9, <1>10

(* An exact result holds the number. *)
LEMMA ExactDoes ==
  ASSUME NEW f, Fmt(f), NEW neg \in BOOLEAN, NEW n \in Nat \ {0}, NEW k \in Int, NEW rm,
         ~ Inexact(neg, n, k, rm, f)
  PROVE  LET p == Round(neg, n, k, rm, f).bits
         IN  /\ p \in Data(f) /\ Neg(p, f) = neg
             /\ ~ IsNan(p, f) /\ ~ IsInf(p, f) /\ ~ IsZero(p, f)
             /\ \/ Place(p, f) <= k /\ Sig(p, f) = n * 2^(k - Place(p, f))
                \/ k <= Place(p, f) /\ n = Sig(p, f) * 2^(Place(p, f) - k)
<1> DEFINE a == At(n, k, f)
           r == Rounded(neg, n, k, a, rm)
           p == Round(neg, n, k, rm, f).bits
           mag == MagOf(neg, n, k, rm, f)
           q == 2^f.m
<1>1. ~ (mag >= Infinity(f)) /\ Exactly(n, k, a)
  BY DEF Inexact, Over
<1>2. p = WithSign(neg, mag, f)
  BY <1>1, RoundIs DEF Capped, Over
<1>3. /\ r \in Nat \ {0} /\ r < q + q
      /\ a > Least(f) => r >= q
      /\ \/ a <= k /\ r = n * 2^(k - a)
         \/ k <= a /\ n = r * 2^(a - k)
  BY <1>1, ExactDigits
<1>4. a \in Int /\ a >= Least(f) /\ Least(f) \in Int
  BY PlacesDo
<1>5. mag = (a - Least(f)) * q + r
  BY DEF MagOf
<1>6. mag \in Nat
  BY MagOfNat
<1>7. Infinity(f) \in Nat /\ SignBit(f) \in Nat /\ Infinity(f) < SignBit(f) /\ q \in Nat \ {0}
  BY FormatSizes
<1> HIDE DEF mag, p, a, r, q
<1>8. mag \in 0 .. (SignBit(f) - 1) /\ mag < Infinity(f)
  BY <1>1, <1>6, <1>7
<1>9. p \in Data(f) /\ Neg(p, f) = neg /\ Mag(p, f) = mag
  BY <1>2, <1>8, WithSignDoes
<1>10. ~ IsNan(p, f) /\ ~ IsInf(p, f)
  BY <1>6, <1>7, <1>8, <1>9 DEF IsNan, IsInf
<1>11. Sig(p, f) = r /\ Place(p, f) = a
  <2>1. Mag(p, f) = (a - Least(f)) * 2^f.m + r /\ r \in Nat /\ r < 2^f.m + 2^f.m /\ (a > Least(f) => r >= 2^f.m)
    BY <1>3, <1>5, <1>9 DEF q
  <2> QED  BY <1>4, <2>1, Decodes
<1>12. ~ IsZero(p, f)
  <2>1. IsZero(p, f) <=> Sig(p, f) = 0
    BY <1>9, SigDoes
  <2> QED  BY <1>3, <1>11, <2>1
<1> QED  BY <1>3, <1>9, <1>10, <1>11, <1>12 DEF p

-----------------------------------------------------------------------------
(* The parts of Fma *)

NoProduct(a, b, f) == (IsInf(a, f) /\ IsZero(b, f)) \/ (IsZero(a, f) /\ IsInf(b, f))
SomeNan(a, b, c, f) == IsNan(a, f) \/ IsNan(b, f) \/ IsNan(c, f)
SomeSignaling(a, b, c, f) == IsSignaling(a, f) \/ IsSignaling(b, f) \/ IsSignaling(c, f)
ProductNeg(a, b, f) == Neg(a, f) # Neg(b, f)
ProductPlace(a, b, c, f) ==
  IF IsZero(a, f) \/ IsZero(b, f) THEN Place(c, f) ELSE Place(a, f) + Place(b, f)

(* n1 * 2^k + c, where n1 has the sign neg *)
TermPlace(k, c, f) == IF IsZero(c, f) THEN k ELSE Place(c, f)
Lesser(x, y) == IF x < y THEN x ELSE y
SumDigits(n1, k, nc, kc) == n1 * 2^(k - Lesser(k, kc)) + nc * 2^(kc - Lesser(k, kc))
Size(n) == IF n < 0 THEN -n ELSE n
SumSign(n, neg, c, rm, f) == IF n # 0 THEN n < 0 ELSE IF neg = Neg(c, f) THEN neg ELSE rm = "RDN"
RoundSum(neg, n1, k, c, rm, f) ==
  LET kc == TermPlace(k, c, f)
      n == SumDigits(n1, k, Num(c, f), kc)
  IN  Round(SumSign(n, neg, c, rm, f), Size(n), Lesser(k, kc), rm, f)
FmaNumber(a, b, c, rm, f) ==
  IF (IsInf(a, f) \/ IsInf(b, f)) /\ IsInf(c, f) /\ ProductNeg(a, b, f) # Neg(c, f) THEN Invalid
  ELSE IF IsInf(a, f) \/ IsInf(b, f) THEN Result(WithSign(ProductNeg(a, b, f), Infinity(f), f), {})
  ELSE IF IsInf(c, f) THEN Result(c, {})
  ELSE RoundSum(ProductNeg(a, b, f), Num(a, f) * Num(b, f), ProductPlace(a, b, c, f), c, rm, f)

LEMMA FmaParts ==
  ASSUME NEW a, NEW b, NEW c, NEW rm, NEW f
  PROVE  Fma(a, b, c, rm, f) =
           CASE NoProduct(a, b, f) -> Invalid
             [] ~ NoProduct(a, b, f) /\ SomeNan(a, b, c, f) ->
                  IF SomeSignaling(a, b, c, f) THEN Invalid ELSE Result(NaN, {})
             [] OTHER -> FmaNumber(a, b, c, rm, f)
BY DEF Fma, NoProduct, SomeNan, SomeSignaling, FmaNumber, RoundSum, SumSign, Size, SumDigits, Lesser,
       TermPlace, ProductPlace, ProductNeg

LEMMA FmaNoProduct ==
  ASSUME NEW a, NEW b, NEW c, NEW rm, NEW f, NoProduct(a, b, f)
  PROVE  Fma(a, b, c, rm, f) = Invalid
BY FmaParts, Zenon

LEMMA FmaNan ==
  ASSUME NEW a, NEW b, NEW c, NEW rm, NEW f, ~ NoProduct(a, b, f), SomeNan(a, b, c, f)
  PROVE  Fma(a, b, c, rm, f) = IF SomeSignaling(a, b, c, f) THEN Invalid ELSE Result(NaN, {})
BY FmaParts, Zenon

LEMMA FmaElse ==
  ASSUME NEW a, NEW b, NEW c, NEW rm, NEW f, ~ NoProduct(a, b, f), ~ SomeNan(a, b, c, f)
  PROVE  Fma(a, b, c, rm, f) = FmaNumber(a, b, c, rm, f)
BY FmaParts, Zenon

LEMMA InvalidBits ==
  /\ Invalid.bits = NaN /\ NaN = -1
  /\ \A x, y : Result(x, y).bits = x /\ Result(x, y).flags = y
BY DEF Invalid, Result, NaN

(* A result that is a number comes from operands that are. *)
LEMMA FmaOperands ==
  ASSUME NEW a, NEW b, NEW c, NEW rm, NEW f, Fma(a, b, c, rm, f).bits # NaN
  PROVE  /\ ~ NoProduct(a, b, f) /\ ~ SomeNan(a, b, c, f)
         /\ Fma(a, b, c, rm, f) = FmaNumber(a, b, c, rm, f)
<1>1. ~ NoProduct(a, b, f)
  BY FmaNoProduct, InvalidBits
<1>2. ~ SomeNan(a, b, c, f)
  BY <1>1, FmaNan, InvalidBits
<1> QED  BY <1>1, <1>2, FmaElse

-----------------------------------------------------------------------------
(* Sums and products *)

LEMMA NumDoes ==
  ASSUME NEW f, Fmt(f), NEW b \in Data(f)
  PROVE  /\ Num(b, f) \in Int /\ Sig(b, f) \in Nat
         /\ Num(b, f) = IF Neg(b, f) THEN - Sig(b, f) ELSE Sig(b, f)
         /\ IsZero(b, f) <=> Num(b, f) = 0
         /\ Neg(b, f) \in BOOLEAN
<1>1. Sig(b, f) \in Nat /\ (IsZero(b, f) <=> Sig(b, f) = 0)
  BY SigDoes
<1>2. Neg(b, f) \in BOOLEAN
  BY DatumDoes
<1> QED  BY <1>1, <1>2 DEF Num

LEMMA SizeDoes == ASSUME NEW n \in Int PROVE Size(n) \in Nat /\ (n = 0 <=> Size(n) = 0)
BY DEF Size

LEMMA SumSignDoes ==
  ASSUME NEW n, NEW neg \in BOOLEAN, NEW c, NEW rm, NEW f PROVE SumSign(n, neg, c, rm, f) \in BOOLEAN
<1>1. (n < 0) \in BOOLEAN /\ (rm = "RDN") \in BOOLEAN
  OBVIOUS
<1> QED  BY <1>1, Zenon DEF SumSign

(* A number plus zero *)
LEMMA SumZero ==
  ASSUME NEW f, Fmt(f), NEW neg, NEW n \in Int, NEW k \in Int, NEW c \in Data(f), NEW rm, IsZero(c, f)
  PROVE  RoundSum(neg, n, k, c, rm, f) = Round(SumSign(n, neg, c, rm, f), Size(n), k, rm, f)
<1>1. Num(c, f) = 0 /\ TermPlace(k, c, f) = k
  BY NumDoes DEF TermPlace
<1>2. Lesser(k, k) = k /\ k - k = 0
  BY DEF Lesser
<1>3. 2^(k - k) = 1
  BY <1>2, PowerOfZero
<1>4. SumDigits(n, k, Num(c, f), k) = n * 2^(k - k) + Num(c, f) * 2^(k - k)
  BY <1>2 DEF SumDigits
<1>5. SumDigits(n, k, Num(c, f), k) = n
  BY <1>1, <1>3, <1>4
<1> QED  BY <1>1, <1>2, <1>5 DEF RoundSum

LEMMA SizeScales ==
  ASSUME NEW n \in Int, NEW p \in Nat \ {0}
  PROVE  n * p \in Int /\ Size(n * p) = Size(n) * p /\ (n * p < 0 <=> n < 0) /\ (n * p = 0 <=> n = 0)
<1>1. n * p \in Int
  OBVIOUS
<1>2. n < 0 => n * p < 0
  OBVIOUS
<1>3. n > 0 => n * p > 0
  OBVIOUS
<1>4. n = 0 => n * p = 0
  OBVIOUS
<1>5. (-n) * p = -(n * p)
  OBVIOUS
<1> QED  BY <1>1, <1>2, <1>3, <1>4, <1>5 DEF Size

(* A sum whose first term is written with more digits *)
LEMMA SumScales ==
  ASSUME NEW f, Fmt(f), NEW neg \in BOOLEAN, NEW n \in Int, NEW k \in Int, NEW c \in Data(f), NEW rm,
         NEW j \in Nat
  PROVE  RoundSum(neg, n * 2^j, k - j, c, rm, f) = RoundSum(neg, n, k, c, rm, f)
<1> DEFINE p == 2^j
<1>0. p \in Nat \ {0} /\ n * p \in Int /\ k - j \in Int
  BY PowerIsPositive, ProductInt
<1>1. ASSUME NEW x \in Int, NEW l \in Int, NEW i \in Nat
      PROVE  Round(SumSign(x * 2^i, neg, c, rm, f), Size(x * 2^i), l - i, rm, f)
               = Round(SumSign(x, neg, c, rm, f), Size(x), l, rm, f)
  <2>1. 2^i \in Nat \ {0}
    BY PowerIsPositive
  <2>2. /\ Size(x * 2^i) = Size(x) * 2^i
        /\ x * 2^i < 0 <=> x < 0
        /\ x * 2^i = 0 <=> x = 0
    BY <2>1, SizeScales
  <2>3. SumSign(x * 2^i, neg, c, rm, f) = SumSign(x, neg, c, rm, f)
    BY <2>2 DEF SumSign
  <2>4. SumSign(x, neg, c, rm, f) \in BOOLEAN
    BY SumSignDoes
  <2>5. Size(x) \in Nat
    BY SizeDoes
  <2> QED  BY <2>2, <2>3, <2>4, <2>5, RoundScales
<1>2. CASE IsZero(c, f)
  BY <1>0, <1>1, <1>2, SumZero
<1>3. CASE ~ IsZero(c, f)
  <2> DEFINE kc == Place(c, f)
             nc == Num(c, f)
             l == Lesser(k, kc)
             l2 == Lesser(k - j, kc)
             i == l - l2
             pk == 2^(k - l)
             pc == 2^(kc - l)
             x == n * pk + nc * pc
  <2>1. kc \in Int /\ nc \in Int
    BY SigDoes
  <2> HIDE DEF kc, nc
  <2>2. l \in Int /\ l2 \in Int /\ i \in Nat /\ k - l \in Nat /\ kc - l \in Nat /\ (k - j) - l2 \in Nat
        /\ kc - l2 \in Nat /\ l - i = l2
    BY <2>1 DEF Lesser
  <2>3. /\ j + ((k - j) - l2) = (k - l) + i
        /\ kc - l2 = (kc - l) + i
    BY <2>1, <2>2
  <2> HIDE DEF l, l2, i
  <2> DEFINE pi == 2^i
             pj == 2^((k - j) - l2)
  <2>4. /\ pk \in Nat /\ pc \in Nat /\ pi \in Nat /\ pj \in Nat
        /\ 2^(j + ((k - j) - l2)) = p * pj
        /\ 2^((k - l) + i) = pk * pi
        /\ 2^((kc - l) + i) = pc * pi
    <3>1. \A u, v \in Nat : 2^u \in Nat /\ 2^(u + v) = 2^u * 2^v
      BY PowerOfSum, PowerIsPositive
    <3> QED  BY <2>2, <3>1
  <2>5. p * pj = pk * pi /\ 2^(kc - l2) = pc * pi
    BY <2>3, <2>4
  <2> HIDE DEF p, pk, pc, pi, pj
  <2>6. (n * p) * pj = (n * pk) * pi
    <3>1. (n * p) * pj = n * (p * pj) /\ n * (pk * pi) = (n * pk) * pi
      BY <1>0, <2>4
    <3> QED  BY <2>5, <3>1
  <2>7. nc * (pc * pi) = (nc * pc) * pi
    BY <2>1, <2>4
  <2>8. (n * pk) * pi + (nc * pc) * pi = x * pi
    BY <2>1, <2>4
  <2>9. SumDigits(n * p, k - j, nc, kc) = (n * p) * pj + nc * 2^(kc - l2)
    BY DEF SumDigits, l2, pj
  <2>10. SumDigits(n * p, k - j, nc, kc) = x * pi
    BY <2>5, <2>6, <2>7, <2>8, <2>9
  <2>11. SumDigits(n, k, nc, kc) = x
    BY DEF SumDigits, l, pk, pc
  <2>12. TermPlace(k, c, f) = kc /\ TermPlace(k - j, c, f) = kc
    BY <1>3 DEF TermPlace, kc
  <2>13. x \in Int
    BY <2>1, <2>4
  <2> HIDE DEF x
  <2>14. Round(SumSign(x * 2^i, neg, c, rm, f), Size(x * 2^i), l - i, rm, f)
               = Round(SumSign(x, neg, c, rm, f), Size(x), l, rm, f)
    BY <1>1, <2>2, <2>13
  <2>15. RoundSum(neg, n, k, c, rm, f) = Round(SumSign(x, neg, c, rm, f), Size(x), l, rm, f)
    BY <2>11, <2>12 DEF RoundSum, nc, l
  <2>16. RoundSum(neg, n * p, k - j, c, rm, f) = Round(SumSign(x * pi, neg, c, rm, f), Size(x * pi), l2, rm, f)
    BY <2>10, <2>12 DEF RoundSum, nc, l2
  <2> QED  BY <2>2, <2>14, <2>15, <2>16 DEF pi, p
<1> QED  BY <1>2, <1>3

(* The number one *)
LEMMA OneDoes ==
  ASSUME NEW f, Fmt(f)
  PROVE  /\ One(f) \in Data(f) /\ ~ IsNan(One(f), f) /\ ~ IsInf(One(f), f) /\ ~ IsZero(One(f), f)
         /\ Neg(One(f), f) = FALSE /\ Num(One(f), f) = 2^f.m /\ Place(One(f), f) = -f.m
<1> DEFINE q == 2^f.m
           e == f.e
           p == 2^e
           e1 == 2^(e - 1)
           e2 == 2^((e - 1) - 1)
           one == One(f)
           m == f.m
<1>1. e \in Nat \ {0} /\ e - 1 \in Nat \ {0} /\ m \in Nat \ {0}
  BY DEF Fmt
<1>2. p \in Nat \ {0} /\ e1 \in Nat \ {0} /\ p = e1 + e1 /\ e2 \in Nat \ {0} /\ e1 = e2 + e2
  BY <1>1, Halves
<1>3. /\ q \in Nat \ {0} /\ Infinity(f) \in Nat /\ SignBit(f) \in Nat \ {0}
      /\ Infinity(f) = SignBit(f) - q
  BY FormatSizes
<1>4. Infinity(f) = (p - 1) * q /\ Least(f) = 2 - e1 - m /\ one = (e1 - 1) * q
  BY DEF Infinity, Least, One
<1> HIDE DEF q, e, p, e1, e2, m
<1>5. e1 - 1 \in Nat \ {0} /\ e1 - 1 < p - 1 /\ p - 1 \in Nat
  BY <1>2
<1>6. one \in Nat \ {0} /\ one < Infinity(f)
  <2>1. (e1 - 1) * q < (p - 1) * q
    BY <1>3, <1>5, ProductMonotone
  <2>2. (e1 - 1) * q \in Nat \ {0}
    BY <1>3, <1>5, ProductPositive
  <2> QED  BY <1>4, <2>1, <2>2
<1> HIDE DEF one
<1>7. one \in 0 .. (SignBit(f) - 1)
  BY <1>3, <1>6
<1>8. one = WithSign(FALSE, one, f)
  BY <1>6 DEF WithSign
<1>9. one \in Data(f) /\ Neg(one, f) = FALSE /\ Mag(one, f) = one
  BY <1>7, <1>8, WithSignDoes
<1>10. ~ IsNan(one, f) /\ ~ IsInf(one, f) /\ ~ IsZero(one, f)
  BY <1>3, <1>6, <1>9 DEF IsNan, IsInf, IsZero
<1>11. Sig(one, f) = q /\ Place(one, f) = -m
  <2> DEFINE x == -m
  <2>1. x \in Int /\ x >= Least(f) /\ x - Least(f) = e1 - 2
    BY <1>1, <1>2, <1>4
  <2>2. (e1 - 1) * q = (e1 - 2) * q + q
    BY <1>2, <1>3
  <2>3. Mag(one, f) = (x - Least(f)) * 2^f.m + q /\ q >= 2^f.m /\ q < 2^f.m + 2^f.m /\ q \in Nat
    BY <1>3, <1>4, <1>9, <2>1, <2>2 DEF q
  <2> HIDE DEF x
  <2>4. Sig(one, f) = q /\ Place(one, f) = x
    BY <2>1, <2>3, Decodes
  <2> QED  BY <2>4 DEF x
<1>12. Num(one, f) = q
  BY <1>9, <1>11 DEF Num
<1> QED  BY <1>9, <1>10, <1>11, <1>12 DEF one, q, m

(* Infinities and zeros *)
LEMMA InfinityDoes ==
  ASSUME NEW f, Fmt(f), NEW neg \in BOOLEAN
  PROVE  LET b == WithSign(neg, Infinity(f), f)
         IN  b \in Data(f) /\ Neg(b, f) = neg /\ IsInf(b, f) /\ ~ IsNan(b, f) /\ ~ IsZero(b, f)
<1>1. Infinity(f) \in 0 .. (SignBit(f) - 1) /\ Infinity(f) # 0
  BY FormatSizes
<1>2. Infinity(f) \in Int
  BY FormatSizes
<1> QED  BY <1>1, <1>2, WithSignDoes DEF IsInf, IsNan, IsZero

LEMMA ZeroDoes ==
  ASSUME NEW f, Fmt(f), NEW neg \in BOOLEAN
  PROVE  LET b == WithSign(neg, 0, f)
         IN  b \in Data(f) /\ Neg(b, f) = neg /\ ~ IsInf(b, f) /\ ~ IsNan(b, f) /\ IsZero(b, f)
<1>1. 0 \in 0 .. (SignBit(f) - 1) /\ Infinity(f) # 0 /\ ~ (0 > Infinity(f))
  BY FormatSizes
<1> QED  BY <1>1, WithSignDoes DEF IsInf, IsNan, IsZero

LEMMA ProductNegDoes ==
  ASSUME NEW f, Fmt(f), NEW a \in Data(f), NEW b \in Data(f) PROVE ProductNeg(a, b, f) \in BOOLEAN
BY DEF ProductNeg

(* The sign and the digits of a product *)
LEMMA NumProduct ==
  ASSUME NEW f, Fmt(f), NEW a \in Data(f), NEW b \in Data(f)
  PROVE  LET n == Num(a, f) * Num(b, f)
             s == Sig(a, f) * Sig(b, f)
         IN  /\ n \in Int /\ s \in Nat /\ Size(n) = s
             /\ n = IF ProductNeg(a, b, f) THEN -s ELSE s
             /\ n = 0 <=> IsZero(a, f) \/ IsZero(b, f)
             /\ n # 0 => (n < 0 <=> ProductNeg(a, b, f))
<1> DEFINE x == Sig(a, f)
           y == Sig(b, f)
           s == x * y
           n == Num(a, f) * Num(b, f)
<1>1. /\ x \in Nat /\ y \in Nat
      /\ Num(a, f) = IF Neg(a, f) THEN -x ELSE x
      /\ Num(b, f) = IF Neg(b, f) THEN -y ELSE y
      /\ IsZero(a, f) <=> x = 0
      /\ IsZero(b, f) <=> y = 0
      /\ Neg(a, f) \in BOOLEAN /\ Neg(b, f) \in BOOLEAN
  BY NumDoes, SigDoes
<1> HIDE DEF x, y
<1>2. s \in Nat /\ (-x) * y = -s /\ x * (-y) = -s /\ (-x) * (-y) = s /\ (s = 0 <=> x = 0 \/ y = 0)
  BY <1>1
<1>3. n = IF ProductNeg(a, b, f) THEN -s ELSE s
  BY <1>1, <1>2 DEF ProductNeg
<1> HIDE DEF s, n
<1> QED  BY <1>1, <1>2, <1>3 DEF s, n, x, y, Size

(* What a product is *)
LEMMA MulIs ==
  ASSUME NEW f, Fmt(f), NEW a \in Data(f), NEW b \in Data(f), NEW rm,
         ~ NoProduct(a, b, f), ~ IsNan(a, f), ~ IsNan(b, f)
  PROVE  LET neg == ProductNeg(a, b, f)
         IN  Mul(a, b, rm, f) =
               IF IsInf(a, f) \/ IsInf(b, f) THEN Result(WithSign(neg, Infinity(f), f), {})
               ELSE IF IsZero(a, f) \/ IsZero(b, f) THEN Result(WithSign(neg, 0, f), {})
               ELSE Round(neg, Sig(a, f) * Sig(b, f), Place(a, f) + Place(b, f), rm, f)
<1> DEFINE neg == ProductNeg(a, b, f)
           z == WithSign(neg, 0, f)
           n == Num(a, f) * Num(b, f)
           s == Sig(a, f) * Sig(b, f)
           k == ProductPlace(a, b, z, f)
<1>1. Mul(a, b, rm, f) = Fma(a, b, z, rm, f) /\ neg \in BOOLEAN
  BY ProductNegDoes DEF Mul, ProductNeg
<1>2. z \in Data(f) /\ Neg(z, f) = neg /\ ~ IsInf(z, f) /\ ~ IsNan(z, f) /\ IsZero(z, f)
  BY <1>1, ZeroDoes
<1>3. /\ n \in Int /\ s \in Nat /\ Size(n) = s
      /\ n = 0 <=> IsZero(a, f) \/ IsZero(b, f)
      /\ n # 0 => (n < 0 <=> neg)
  BY NumProduct
<1> HIDE DEF z, neg, n
<1>4. Fma(a, b, z, rm, f) = FmaNumber(a, b, z, rm, f)
  BY <1>2, FmaElse DEF SomeNan
<1>5. CASE IsInf(a, f) \/ IsInf(b, f)
  BY <1>1, <1>2, <1>4, <1>5 DEF FmaNumber, neg
<1>6. CASE ~ (IsInf(a, f) \/ IsInf(b, f))
  <2>1. FmaNumber(a, b, z, rm, f) = RoundSum(neg, n, k, z, rm, f)
    BY <1>2, <1>6 DEF FmaNumber, neg, n
  <2>2. k \in Int
    BY <1>2, SigDoes DEF ProductPlace
  <2>3. RoundSum(neg, n, k, z, rm, f) = Round(SumSign(n, neg, z, rm, f), s, k, rm, f)
    BY <1>2, <1>3, <2>2, SumZero
  <2>4. SumSign(n, neg, z, rm, f) = neg
    <3>1. CASE n = 0
      BY <1>2, <3>1 DEF SumSign
    <3>2. CASE n # 0
      BY <1>1, <1>3, <3>2 DEF SumSign
    <3> QED  BY <3>1, <3>2
  <2>5. CASE IsZero(a, f) \/ IsZero(b, f)
    <3>1. s = 0
      BY <1>3, <2>5, SizeDoes
    <3> HIDE DEF s
    <3>2. Round(neg, s, k, rm, f) = Result(WithSign(neg, 0, f), {})
      BY <3>1, RoundZero
    <3> QED  BY <1>1, <1>4, <1>6, <2>1, <2>3, <2>4, <2>5, <3>2 DEF neg
  <2>6. CASE ~ (IsZero(a, f) \/ IsZero(b, f))
    <3>1. k = Place(a, f) + Place(b, f)
      BY <2>6 DEF ProductPlace
    <3> HIDE DEF k
    <3> QED  BY <1>1, <1>4, <1>6, <2>1, <2>3, <2>4, <2>6, <3>1 DEF neg
  <2> QED  BY <2>5, <2>6
<1> QED  BY <1>5, <1>6

(* Where the product is exact, the sum of the product and a number rounds as
   it does in one operation: the digits are the same. *)
LEMMA ExactProduct ==
  ASSUME NEW f, Fmt(f), NEW neg \in BOOLEAN, NEW s \in Nat \ {0}, NEW k \in Int, NEW c \in Data(f), NEW rm,
         NEW rm2, ~ Inexact(neg, s, k, rm2, f)
  PROVE  LET p == Round(neg, s, k, rm2, f).bits
             n == IF neg THEN -s ELSE s
         IN  RoundSum(neg, Num(p, f) * 2^f.m, Place(p, f) - f.m, c, rm, f) = RoundSum(neg, n, k, c, rm, f)
<1> DEFINE p == Round(neg, s, k, rm2, f).bits
           n == IF neg THEN -s ELSE s
           x == Num(p, f)
           e == Place(p, f)
           t == Sig(p, f)
<1>1. /\ p \in Data(f) /\ Neg(p, f) = neg
      /\ \/ e <= k /\ t = s * 2^(k - e)
         \/ k <= e /\ s = t * 2^(e - k)
  BY ExactDoes
<1> HIDE DEF p
<1>2. x \in Int /\ t \in Nat /\ e \in Int /\ x = IF neg THEN -t ELSE t
  BY <1>1, NumDoes, SigDoes
<1> HIDE DEF x, e, t
<1>3. f.m \in Nat
  BY DEF Fmt
<1>4. RoundSum(neg, x * 2^f.m, e - f.m, c, rm, f) = RoundSum(neg, x, e, c, rm, f)
  BY <1>2, <1>3, SumScales
<1>5. n \in Int
  OBVIOUS
<1>6. CASE e <= k /\ t = s * 2^(k - e)
  <2> DEFINE j == k - e
             q == 2^j
  <2>1. j \in Nat /\ k - j = e /\ q \in Nat
    BY <1>2, <1>6, PowerIsPositive
  <2> HIDE DEF q
  <2>2. t = s * q
    BY <1>6 DEF q
  <2>3. x = n * q
    BY <1>2, <2>1, <2>2
  <2> HIDE DEF j, n
  <2>4. RoundSum(neg, n * 2^j, k - j, c, rm, f) = RoundSum(neg, n, k, c, rm, f)
    BY <1>5, <2>1, SumScales
  <2> QED  BY <1>4, <2>1, <2>3, <2>4 DEF q, x, e, n, p
<1>7. CASE k <= e /\ s = t * 2^(e - k)
  <2> DEFINE j == e - k
             q == 2^j
  <2>1. j \in Nat /\ e - j = k /\ q \in Nat
    BY <1>2, <1>7, PowerIsPositive
  <2> HIDE DEF q
  <2>2. s = t * q
    BY <1>7 DEF q
  <2>3. n = x * q
    BY <1>2, <2>1, <2>2
  <2> HIDE DEF j, n
  <2>5. x \in Int /\ e \in Int /\ j \in Nat
    BY <1>2, <2>1
  <2>4. RoundSum(neg, x * 2^j, e - j, c, rm, f) = RoundSum(neg, x, e, c, rm, f)
    BY <2>5, SumScales
  <2> QED  BY <1>4, <2>1, <2>3, <2>4 DEF q, x, e, n, p
<1> QED  BY <1>1, <1>6, <1>7

(* A product and a sum, each rounded, where the product is exact *)
LEMMA UnfusedIs ==
  ASSUME NEW f, Fmt(f), NEW a \in Data(f), NEW b \in Data(f), NEW c \in Data(f), NEW rm,
         Fma(a, b, c, rm, f).bits # NaN, Mul(a, b, "RNE", f).flags = {}
  PROVE  LET p == Mul(a, b, "RNE", f).bits
         IN  p # NaN /\ Add(p, c, rm, f) = Fma(a, b, c, rm, f)
<1> DEFINE neg == ProductNeg(a, b, f)
           p == Mul(a, b, "RNE", f).bits
           one == One(f)
           s == Sig(a, f) * Sig(b, f)
           k == Place(a, f) + Place(b, f)
           nab == Num(a, f) * Num(b, f)
<1>1. /\ ~ NoProduct(a, b, f) /\ ~ IsNan(a, f) /\ ~ IsNan(b, f) /\ ~ IsNan(c, f)
      /\ Fma(a, b, c, rm, f) = FmaNumber(a, b, c, rm, f)
  BY FmaOperands DEF SomeNan
<1>2. neg \in BOOLEAN
  BY ProductNegDoes
<1>3. /\ one \in Data(f) /\ ~ IsNan(one, f) /\ ~ IsInf(one, f) /\ ~ IsZero(one, f)
      /\ Neg(one, f) = FALSE /\ Num(one, f) = 2^f.m /\ Place(one, f) = -f.m
  BY OneDoes
<1>4. /\ s \in Nat
      /\ nab = IF neg THEN -s ELSE s
      /\ nab = 0 <=> IsZero(a, f) \/ IsZero(b, f)
      /\ k \in Int /\ nab \in Int
  BY NumProduct, SigDoes
<1>5. Mul(a, b, "RNE", f) =
        IF IsInf(a, f) \/ IsInf(b, f) THEN Result(WithSign(neg, Infinity(f), f), {})
        ELSE IF IsZero(a, f) \/ IsZero(b, f) THEN Result(WithSign(neg, 0, f), {})
        ELSE Round(neg, s, k, "RNE", f)
  BY <1>1, MulIs
<1>6. Add(p, c, rm, f) = Fma(p, one, c, rm, f)
  BY DEF Add
<1>7. ASSUME p \in Data(f), ~ IsNan(p, f), Neg(p, f) = neg
      PROVE  /\ p # NaN /\ Fma(p, one, c, rm, f) = FmaNumber(p, one, c, rm, f)
             /\ ProductNeg(p, one, f) = neg
  <2>1. p # NaN
    BY <1>7, DatumDoes DEF NaN
  <2>2. ~ NoProduct(p, one, f) /\ ~ SomeNan(p, one, c, f)
    BY <1>1, <1>3, <1>7 DEF NoProduct, SomeNan
  <2>3. ProductNeg(p, one, f) = neg
    BY <1>2, <1>3, <1>7 DEF ProductNeg
  <2> QED  BY <2>1, <2>2, <2>3, FmaElse
<1> HIDE DEF one, s, k, nab
<1>8. CASE IsInf(a, f) \/ IsInf(b, f)
  <2>1. p = WithSign(neg, Infinity(f), f)
    BY <1>5, <1>8, InvalidBits
  <2> HIDE DEF p
  <2>2. p \in Data(f) /\ ~ IsNan(p, f) /\ Neg(p, f) = neg /\ IsInf(p, f)
    BY <1>2, <2>1, InfinityDoes
  <2>3. FmaNumber(p, one, c, rm, f) = FmaNumber(a, b, c, rm, f)
    BY <1>7, <1>8, <2>2 DEF FmaNumber
  <2> QED  BY <1>1, <1>6, <1>7, <2>2, <2>3 DEF p
<1>9. CASE ~ (IsInf(a, f) \/ IsInf(b, f)) /\ (IsZero(a, f) \/ IsZero(b, f))
  <2>1. p = WithSign(neg, 0, f)
    BY <1>5, <1>9, InvalidBits
  <2> HIDE DEF p
  <2>2. p \in Data(f) /\ ~ IsNan(p, f) /\ Neg(p, f) = neg /\ ~ IsInf(p, f) /\ IsZero(p, f)
    BY <1>2, <2>1, ZeroDoes
  <2>3. Num(p, f) = 0 /\ Num(one, f) \in Int
    BY <1>3, <2>2, NumDoes
  <2>4. Num(p, f) * Num(one, f) = nab
    BY <1>4, <1>9, <2>3
  <2>5. ProductPlace(p, one, c, f) = ProductPlace(a, b, c, f)
    BY <1>9, <2>2 DEF ProductPlace
  <2>6. FmaNumber(p, one, c, rm, f) = FmaNumber(a, b, c, rm, f)
    BY <1>3, <1>7, <1>9, <2>2, <2>4, <2>5 DEF FmaNumber, nab
  <2> QED  BY <1>1, <1>6, <1>7, <2>2, <2>6 DEF p
<1>10. CASE ~ (IsInf(a, f) \/ IsInf(b, f)) /\ ~ (IsZero(a, f) \/ IsZero(b, f))
  <2>1. p = Round(neg, s, k, "RNE", f).bits /\ Round(neg, s, k, "RNE", f).flags = {}
    BY <1>5, <1>10
  <2> HIDE DEF p
  <2>2. s \in Nat \ {0}
    BY <1>4, <1>10
  <2>3. ~ Inexact(neg, s, k, "RNE", f)
    <3>1. FlagsOf(neg, s, k, "RNE", f) = {}
      BY <2>1, <2>2, RoundIs
    <3> QED  BY <3>1 DEF FlagsOf
  <2>4. p \in Data(f) /\ Neg(p, f) = neg /\ ~ IsNan(p, f) /\ ~ IsInf(p, f) /\ ~ IsZero(p, f)
    BY <1>2, <1>4, <2>1, <2>2, <2>3, ExactDoes
  <2>5. RoundSum(neg, Num(p, f) * 2^f.m, Place(p, f) - f.m, c, rm, f) = RoundSum(neg, nab, k, c, rm, f)
    BY <1>2, <1>4, <2>1, <2>2, <2>3, ExactProduct
  <2>6. Place(p, f) + Place(one, f) = Place(p, f) - f.m
    <3>1. Place(p, f) \in Int /\ f.m \in Int
      BY <2>4, SigDoes DEF Fmt
    <3> QED  BY <1>3, <3>1
  <2>7. ProductPlace(p, one, c, f) = Place(p, f) - f.m /\ ProductPlace(a, b, c, f) = k
    BY <1>3, <1>10, <2>4, <2>6 DEF ProductPlace, k
  <2>8. CASE IsInf(c, f)
    BY <1>1, <1>3, <1>6, <1>7, <1>10, <2>4, <2>8 DEF FmaNumber, p
  <2>9. CASE ~ IsInf(c, f)
    <3>1. FmaNumber(p, one, c, rm, f) = RoundSum(neg, Num(p, f) * 2^f.m, Place(p, f) - f.m, c, rm, f)
      BY <1>3, <1>7, <2>4, <2>7, <2>9 DEF FmaNumber
    <3>2. FmaNumber(a, b, c, rm, f) = RoundSum(neg, nab, k, c, rm, f)
      BY <1>10, <2>7, <2>9 DEF FmaNumber, nab
    <3> QED  BY <1>1, <1>6, <1>7, <2>4, <2>5, <3>1, <3>2 DEF p
  <2> QED  BY <2>8, <2>9
<1> QED  BY <1>8, <1>9, <1>10

-----------------------------------------------------------------------------
(* A result that is a number: no NaN, and no invalid operation *)
IsNumber(r, f) ==
  \E neg \in BOOLEAN, mag \in 0 .. Infinity(f), flags \in SUBSET {"DZ", "NX", "OF", "UF"} :
    r = Result(WithSign(neg, mag, f), flags)

LEMMA NumberDoes ==
  ASSUME NEW f, Fmt(f), NEW r, IsNumber(r, f)
  PROVE  /\ r.bits \in Data(f) /\ r.bits # NaN /\ r.bits # CanonicalNan(f) /\ "NV" \notin r.flags
         /\ r = Result(r.bits, r.flags)
<1>1. PICK neg \in BOOLEAN, mag \in 0 .. Infinity(f), flags \in SUBSET {"DZ", "NX", "OF", "UF"} :
        r = Result(WithSign(neg, mag, f), flags)
  BY DEF IsNumber
<1>2. r.bits = WithSign(neg, mag, f) /\ r.flags = flags
  BY <1>1, InvalidBits
<1>3. /\ SignBit(f) \in Nat /\ Infinity(f) \in Nat /\ Infinity(f) < SignBit(f)
      /\ CanonicalNan(f) \in Nat /\ CanonicalNan(f) > Infinity(f) /\ CanonicalNan(f) < SignBit(f)
  BY FormatSizes
<1>4. mag \in 0 .. (SignBit(f) - 1)
  BY <1>3
<1>5. /\ WithSign(neg, mag, f) \in Data(f) /\ WithSign(neg, mag, f) \in Nat
      /\ Mag(WithSign(neg, mag, f), f) = mag
  BY <1>4, WithSignDoes
<1>6. WithSign(neg, mag, f) # CanonicalNan(f)
  BY <1>3, <1>4 DEF WithSign
<1>7. WithSign(neg, mag, f) # NaN
  BY <1>5 DEF NaN
<1> QED  BY <1>1, <1>2, <1>5, <1>6, <1>7

LEMMA RoundNumber ==
  ASSUME NEW f, Fmt(f), NEW neg \in BOOLEAN, NEW n \in Nat, NEW k \in Int, NEW rm
  PROVE  IsNumber(Round(neg, n, k, rm, f), f)
<1>1. PICK mag \in 0 .. Infinity(f), flags \in SUBSET {"NX", "OF", "UF"} :
        Round(neg, n, k, rm, f) = Result(WithSign(neg, mag, f), flags)
  BY RoundDoes
<1>2. flags \in SUBSET {"DZ", "NX", "OF", "UF"}
  OBVIOUS
<1> QED  BY <1>1, <1>2 DEF IsNumber

LEMMA ExtremeNumber ==
  ASSUME NEW f, Fmt(f), NEW neg \in BOOLEAN, NEW flags \in SUBSET {"DZ", "NX", "OF", "UF"}
  PROVE  /\ IsNumber(Result(WithSign(neg, Infinity(f), f), flags), f)
         /\ IsNumber(Result(WithSign(neg, 0, f), flags), f)
<1>1. Infinity(f) \in 0 .. Infinity(f) /\ 0 \in 0 .. Infinity(f)
  BY FormatSizes
<1> QED  BY <1>1 DEF IsNumber

LEMMA DatumNumber ==
  ASSUME NEW f, Fmt(f), NEW a \in Data(f), ~ IsNan(a, f)
  PROVE  IsNumber(Result(a, {}), f)
<1>1. Mag(a, f) \in 0 .. Infinity(f)
  <2>1. Mag(a, f) \in Nat /\ Infinity(f) \in Nat
    BY DatumDoes, FormatSizes
  <2> QED  BY <2>1 DEF IsNan
<1>2. a = WithSign(Neg(a, f), Mag(a, f), f) /\ Neg(a, f) \in BOOLEAN
  BY DatumDoes
<1>3. {} \in SUBSET {"DZ", "NX", "OF", "UF"}
  OBVIOUS
<1> QED  BY <1>1, <1>2, <1>3, Zenon DEF IsNumber

LEMMA LesserInt ==
  ASSUME NEW x \in Int, NEW y \in Int
  PROVE  Lesser(x, y) \in Int /\ x - Lesser(x, y) \in Nat /\ y - Lesser(x, y) \in Nat
BY DEF Lesser

LEMMA RoundSumNumber ==
  ASSUME NEW f, Fmt(f), NEW neg \in BOOLEAN, NEW n \in Int, NEW k \in Int, NEW c \in Data(f), NEW rm
  PROVE  IsNumber(RoundSum(neg, n, k, c, rm, f), f)
<1> DEFINE kc == TermPlace(k, c, f)
           nc == Num(c, f)
           l == Lesser(k, kc)
           x == SumDigits(n, k, nc, kc)
<1>1. kc \in Int /\ nc \in Int
  BY SigDoes DEF TermPlace
<1> HIDE DEF kc, nc
<1>2. l \in Int /\ k - l \in Nat /\ kc - l \in Nat
  BY <1>1, LesserInt
<1>3. 2^(k - l) \in Nat /\ 2^(kc - l) \in Nat
  BY <1>2, PowerIsPositive
<1>4. x \in Int
  <2>1. x = n * 2^(k - l) + nc * 2^(kc - l)
    BY DEF SumDigits
  <2>2. n * 2^(k - l) \in Int /\ nc * 2^(kc - l) \in Int
    BY <1>1, <1>3, ProductInt
  <2> QED  BY <2>1, <2>2
<1>5. RoundSum(neg, n, k, c, rm, f) = Round(SumSign(x, neg, c, rm, f), Size(x), l, rm, f)
  BY DEF RoundSum, kc, nc
<1> HIDE DEF x, l
<1>6. SumSign(x, neg, c, rm, f) \in BOOLEAN /\ Size(x) \in Nat
  BY <1>4, SumSignDoes, SizeDoes
<1> QED  BY <1>2, <1>5, <1>6, RoundNumber

LEMMA FmaIsNumber ==
  ASSUME NEW f, Fmt(f), NEW a \in Data(f), NEW b \in Data(f), NEW c \in Data(f), NEW rm,
         Fma(a, b, c, rm, f).bits # NaN
  PROVE  IsNumber(Fma(a, b, c, rm, f), f)
<1> DEFINE neg == ProductNeg(a, b, f)
           n == Num(a, f) * Num(b, f)
           k == ProductPlace(a, b, c, f)
<1>1. ~ SomeNan(a, b, c, f) /\ Fma(a, b, c, rm, f) = FmaNumber(a, b, c, rm, f)
  BY FmaOperands
<1>2. neg \in BOOLEAN /\ n \in Int
  BY ProductNegDoes, NumProduct
<1>3. k \in Int
  BY SigDoes DEF ProductPlace
<1> HIDE DEF neg, n, k
<1>4. IsNumber(Result(WithSign(neg, Infinity(f), f), {}), f)
  BY <1>2, ExtremeNumber
<1>5. IsNumber(Result(c, {}), f)
  BY <1>1, DatumNumber DEF SomeNan
<1>6. IsNumber(RoundSum(neg, n, k, c, rm, f), f)
  BY <1>2, <1>3, RoundSumNumber
<1>7. FmaNumber(a, b, c, rm, f) # Invalid
  BY <1>1, InvalidBits
<1>8. FmaNumber(a, b, c, rm, f) \in
        {Invalid, Result(WithSign(neg, Infinity(f), f), {}), Result(c, {}), RoundSum(neg, n, k, c, rm, f)}
  BY DEF FmaNumber, neg, n, k
<1> QED  BY <1>1, <1>4, <1>5, <1>6, <1>7, <1>8

LEMMA AddIsNumber ==
  ASSUME NEW f, Fmt(f), NEW a \in Data(f), NEW b \in Data(f), NEW rm
  PROVE  /\ Add(a, b, rm, f).bits # NaN => IsNumber(Add(a, b, rm, f), f)
         /\ Sub(a, b, rm, f).bits # NaN => IsNumber(Sub(a, b, rm, f), f)
         /\ Mul(a, b, rm, f).bits # NaN => IsNumber(Mul(a, b, rm, f), f)
<1>1. One(f) \in Data(f)
  BY OneDoes
<1>2. ASSUME NEW c \in Data(f), Add(a, c, rm, f).bits # NaN PROVE IsNumber(Add(a, c, rm, f), f)
  BY <1>1, <1>2, FmaIsNumber DEF Add
<1>3. (IF IsNan(b, f) THEN b ELSE Flip(b, f)) \in Data(f)
  BY FlipDoes
<1>4. Sub(a, b, rm, f).bits # NaN => IsNumber(Sub(a, b, rm, f), f)
  BY <1>2, <1>3 DEF Sub
<1>5. WithSign(Neg(a, f) # Neg(b, f), 0, f) \in Data(f)
  BY ZeroDoes
<1>6. Mul(a, b, rm, f).bits # NaN => IsNumber(Mul(a, b, rm, f), f)
  BY <1>5, FmaIsNumber DEF Mul
<1> QED  BY <1>2, <1>4, <1>6

LEMMA StickyNat == ASSUME NEW q \in Nat, NEW more PROVE Sticky(q, more) \in Nat
BY DEF Sticky

LEMMA DivIsNumber ==
  ASSUME NEW f, Fmt(f), NEW a \in Data(f), NEW b \in Data(f), NEW rm, Div(a, b, rm, f).bits # NaN
  PROVE  IsNumber(Div(a, b, rm, f), f)
<1> DEFINE neg == Neg(a, f) # Neg(b, f)
           s == 2 * f.m + 3
           x == Sig(a, f)
           y == Sig(b, f)
           n == x * 2^s
           t == Sticky(n \div y, n % y # 0)
           k == Place(a, f) - Place(b, f) - s - 1
<1>1. neg \in BOOLEAN
  OBVIOUS
<1>2. x \in Nat /\ y \in Nat /\ (IsZero(b, f) <=> y = 0) /\ s \in Nat /\ k \in Int
  BY SigDoes DEF Fmt
<1>3. Div(a, b, rm, f) \in
        {Invalid, Result(NaN, {}), Result(WithSign(neg, Infinity(f), f), {}), Result(WithSign(neg, 0, f), {}),
         Result(WithSign(neg, Infinity(f), f), {"DZ"})}
      \/ (~ IsZero(b, f) /\ Div(a, b, rm, f) = Round(neg, t, k, rm, f))
  BY DEF Div
<1> HIDE DEF neg, s, x, y
<1>4. 2^s \in Nat
  BY <1>2, PowerIsPositive
<1>5. n \in Nat
  BY <1>2, <1>4, ProductNat
<1> HIDE DEF n
<1>6. ASSUME ~ IsZero(b, f) PROVE IsNumber(Round(neg, t, k, rm, f), f)
  <2>1. n \div y \in Nat
    BY <1>2, <1>5, <1>6
  <2>2. t \in Nat
    BY <2>1, StickyNat
  <2> HIDE DEF t, k
  <2> QED  BY <1>1, <1>2, <2>2, RoundNumber DEF k
<1>7. /\ IsNumber(Result(WithSign(neg, Infinity(f), f), {}), f)
      /\ IsNumber(Result(WithSign(neg, 0, f), {}), f)
      /\ IsNumber(Result(WithSign(neg, Infinity(f), f), {"DZ"}), f)
  BY <1>1, ExtremeNumber
<1>8. Div(a, b, rm, f) # Invalid /\ Div(a, b, rm, f) # Result(NaN, {})
  BY InvalidBits
<1> QED  BY <1>3, <1>6, <1>7, <1>8

(* The integer root *)
LEMMA RootExists ==
  ASSUME NEW n \in Nat, NEW top \in Nat, n < top * top
  PROVE  \E r \in 0 .. top : r * r <= n /\ n < (r + 1) * (r + 1)
<1> DEFINE T == {r \in Nat : n < (r + 1) * (r + 1)}
<1>1. top \in T
  <2>1. (top + 1) * (top + 1) = top * top + top + top + 1 /\ top * top \in Nat
    OBVIOUS
  <2> QED  BY <2>1
<1>2. PICK r \in T : \A y \in T : r <= y
  BY <1>1, LeastOf
<1>3. r \in 0 .. top /\ n < (r + 1) * (r + 1)
  BY <1>1, <1>2
<1>4. CASE r = 0
  <2>1. r * r = 0
    BY <1>4
  <2> QED  BY <1>3, <2>1
<1>5. CASE r # 0
  <2> DEFINE y == r - 1
  <2>1. y \in Nat /\ y + 1 = r /\ y \notin T
    BY <1>2, <1>5
  <2>2. ~ (n < (y + 1) * (y + 1))
    BY <2>1
  <2>3. r * r \in Nat
    BY <1>3
  <2>4. ~ (n < r * r)
    BY <2>1, <2>2
  <2> HIDE DEF y
  <2> QED  BY <1>3, <2>3, <2>4
<1> QED  BY <1>4, <1>5

RootShift(a, f) == f.m + 3 + ((Place(a, f) + f.m + 3) % 2)
RootOf(a, f) ==
  CHOOSE r \in 0 .. 2^(f.m + 3) :
    r * r <= Sig(a, f) * 2^RootShift(a, f) /\ Sig(a, f) * 2^RootShift(a, f) < (r + 1) * (r + 1)

LEMMA RootDoes ==
  ASSUME NEW f, Fmt(f), NEW a \in Data(f)
  PROVE  RootOf(a, f) \in Nat /\ RootShift(a, f) \in Nat
<1> DEFINE s == RootShift(a, f)
           n == Sig(a, f) * 2^s
           m == f.m
           top == 2^(m + 3)
           q == 2^m
           q1 == 2^(m + 1)
<1>1. m \in Nat /\ Place(a, f) \in Int /\ Sig(a, f) \in Nat /\ Sig(a, f) < q + q
  BY SigDoes DEF Fmt
<1>2. s \in Nat /\ s <= m + 4
  BY <1>1 DEF RootShift
<1> HIDE DEF s, m
<1>3. 2^s \in Nat \ {0} /\ top \in Nat \ {0} /\ q \in Nat \ {0}
  BY <1>1, <1>2, PowerIsPositive
<1>4. q1 = q + q
  <2>1. m + 1 \in Nat \ {0} /\ (m + 1) - 1 = m
    BY <1>1
  <2>2. 2^(m + 1) = 2^((m + 1) - 1) + 2^((m + 1) - 1)
    BY <2>1, Halves
  <2> QED  BY <2>1, <2>2
<1>5. /\ 2^((m + 1) + s) = q1 * 2^s
      /\ 2^((m + 3) + (m + 3)) = top * top
      /\ 2^((m + 1) + s) <= 2^((m + 3) + (m + 3))
  <2>1. m + 1 \in Nat /\ m + 3 \in Nat /\ (m + 1) + s \in Nat /\ (m + 3) + (m + 3) \in Nat
        /\ (m + 1) + s <= (m + 3) + (m + 3)
    BY <1>1, <1>2
  <2>2. 2^((m + 1) + s) = q1 * 2^s
    BY <1>2, <2>1, PowerOfSum
  <2>3. 2^((m + 3) + (m + 3)) = top * top
    BY <2>1, PowerOfSum
  <2>4. 2^((m + 1) + s) <= 2^((m + 3) + (m + 3))
    BY <2>1, PowerMonotone
  <2> QED  BY <2>2, <2>3, <2>4
<1>6. n < q1 * 2^s /\ n \in Nat /\ q1 * 2^s \in Int /\ top * top \in Nat
  <2> HIDE DEF q1, q, top
  <2>1. Sig(a, f) < q1 /\ q1 \in Nat
    BY <1>1, <1>3, <1>4
  <2> QED  BY <1>1, <1>3, <2>1, ProductMonotone, ProductNat
<1>7. n < top * top
  BY <1>5, <1>6
<1> HIDE DEF n, top
<1>8. \E r \in 0 .. top : r * r <= n /\ n < (r + 1) * (r + 1)
  BY <1>3, <1>6, <1>7, RootExists
<1>9. RootOf(a, f) = CHOOSE r \in 0 .. top : r * r <= n /\ n < (r + 1) * (r + 1)
  BY DEF RootOf, n, top, m, s
<1>10. RootOf(a, f) \in 0 .. top
  BY <1>8, <1>9
<1> QED  BY <1>2, <1>3, <1>10 DEF s

LEMMA SqrtParts ==
  ASSUME NEW a, NEW rm, NEW f
  PROVE  Sqrt(a, rm, f) =
           IF IsNan(a, f) THEN Result(NaN, IF IsSignaling(a, f) THEN {"NV"} ELSE {})
           ELSE IF IsZero(a, f) THEN Result(a, {})
           ELSE IF Neg(a, f) THEN Invalid
           ELSE IF IsInf(a, f) THEN Result(a, {})
           ELSE Round(FALSE, Sticky(RootOf(a, f), RootOf(a, f) * RootOf(a, f) # Sig(a, f) * 2^RootShift(a, f)),
                      (Place(a, f) - RootShift(a, f)) \div 2 - 1, rm, f)
BY DEF Sqrt, RootOf, RootShift

LEMMA SqrtIsNumber ==
  ASSUME NEW f, Fmt(f), NEW a \in Data(f), NEW rm, Sqrt(a, rm, f).bits # NaN
  PROVE  IsNumber(Sqrt(a, rm, f), f) /\ ~ Less(a, 0, f)
<1>1. ~ IsNan(a, f)
  BY SqrtParts, InvalidBits
<1>2. IsZero(a, f) \/ ~ Neg(a, f)
  BY <1>1, SqrtParts, InvalidBits
<1>3. IsNumber(Result(a, {}), f)
  BY <1>1, DatumNumber
<1> DEFINE t == Sticky(RootOf(a, f), RootOf(a, f) * RootOf(a, f) # Sig(a, f) * 2^RootShift(a, f))
           k == (Place(a, f) - RootShift(a, f)) \div 2 - 1
<1>4. t \in Nat /\ k \in Int
  <2>1. RootOf(a, f) \in Nat /\ RootShift(a, f) \in Nat /\ Place(a, f) \in Int
    BY RootDoes, SigDoes
  <2>2. t \in Nat
    BY <2>1, StickyNat
  <2>3. k \in Int
    BY <2>1
  <2> QED  BY <2>2, <2>3
<1>5. Sqrt(a, rm, f) \in {Result(a, {}), Round(FALSE, t, k, rm, f)}
  BY <1>1, <1>2, SqrtParts
<1> HIDE DEF t, k
<1>6. IsNumber(Round(FALSE, t, k, rm, f), f)
  BY <1>4, RoundNumber
<1>7. ~ Less(a, 0, f)
  <2>1. 0 = WithSign(FALSE, 0, f)
    BY DEF WithSign
  <2>2. IsZero(0, f) /\ Neg(0, f) = FALSE
    BY <2>1, ZeroDoes
  <2>3. Key(0, f) = 0
    BY <2>2 DEF Key, IsZero
  <2>4. Mag(a, f) \in Nat
    BY DatumDoes
  <2>5. Key(a, f) \in Int /\ ~ (Key(a, f) < 0)
    BY <1>2, <2>4 DEF Key, IsZero
  <2> QED  BY <2>3, <2>5 DEF Less
<1> QED  BY <1>3, <1>5, <1>6, <1>7

LEMMA ConvertIsNumber ==
  ASSUME NEW f, Fmt(f), NEW g, Fmt(g), NEW a \in Data(f), NEW rm
  PROVE  /\ IsNan(a, f) => Convert(a, rm, f, g) = Result(NaN, IF IsSignaling(a, f) THEN {"NV"} ELSE {})
         /\ ~ IsNan(a, f) => IsNumber(Convert(a, rm, f, g), g)
<1>1. Neg(a, f) \in BOOLEAN /\ Sig(a, f) \in Nat /\ Place(a, f) \in Int
  BY DatumDoes, SigDoes
<1>2. IsNumber(Result(WithSign(Neg(a, f), Infinity(g), g), {}), g)
  BY <1>1, ExtremeNumber
<1>3. IsNumber(Round(Neg(a, f), Sig(a, f), Place(a, f), rm, g), g)
  BY <1>1, RoundNumber
<1> QED  BY <1>2, <1>3 DEF Convert

LEMMA FromIntIsNumber ==
  ASSUME NEW f, Fmt(f), NEW v \in Int, NEW rm PROVE IsNumber(FromInt(v, rm, f), f)
<1>1. (v < 0) \in BOOLEAN /\ (IF v < 0 THEN -v ELSE v) \in Nat /\ 0 \in Int
  OBVIOUS
<1> QED  BY <1>1, RoundNumber DEF FromInt

-----------------------------------------------------------------------------
(* Numbers as integers *)

Tie(a, f) == Exactly(2 * Sig(a, f), Place(a, f), 0) /\ ~ IsInteger(a, f)

(* Off the ties both ways to the nearest integer are the same. *)
LEMMA NearestOffTies ==
  ASSUME NEW f, Fmt(f), NEW a \in Data(f), ~ Tie(a, f)
  PROVE  ToInt(a, "RNE", f) = ToInt(a, "RMM", f)
<1> DEFINE neg == Neg(a, f)
           n == Sig(a, f)
           k == Place(a, f)
<1>1. n \in Nat /\ k \in Int
  BY SigDoes
<1> HIDE DEF n, k
<1>2. CASE k >= 0
  BY <1>1, <1>2, RoundedAbove DEF ToInt, n, k
<1>3. CASE ~ (k >= 0)
  <2> DEFINE d == 0 - k
             p == 2^d
             h == 2^(d - 1)
             q == n \div p
             r == n % p
  <2>1. d \in Nat \ {0} /\ p \in Nat \ {0} /\ h \in Nat \ {0} /\ p = h + h
    BY <1>1, <1>3, Halves
  <2>2. \A rm : Rounded(neg, n, k, 0, rm) = IF Up(neg, q, r, h, rm) THEN q + 1 ELSE q
    BY <1>3, RoundedBelow
  <2>3. (Exactly(n, k, 0) <=> r = 0) /\ (Exactly(2 * n, k, 0) <=> (2 * n) % p = 0)
    BY <1>3, RoundedBelow
  <2> HIDE DEF p, h, d
  <2>4. r \in 0 .. (p - 1) /\ q \in Int /\ n = q * p + r
    <3>1. p \in Nat \ {0} /\ n \in Int
      BY <1>1, <2>1
    <3> QED  BY <3>1, DivMod
  <2> HIDE DEF q, r
  <2>5. r # h
    <3> SUFFICES ASSUME r = h PROVE FALSE
      OBVIOUS
    <3> DEFINE z == 2 * q + 1
    <3>1. 2 * (q * p) = (2 * q) * p
      BY <2>1, <2>4
    <3>2. 2 * n = z * p /\ z \in Int
      BY <1>1, <2>1, <2>4, <3>1
    <3> HIDE DEF z
    <3>3. (2 * n) % p = 0
      BY <2>1, <3>2, DivExact
    <3>4. r # 0
      BY <2>1
    <3> QED  BY <2>3, <3>3, <3>4 DEF Tie, IsInteger, n, k
  <2>6. Up(neg, q, r, h, "RNE") <=> Up(neg, q, r, h, "RMM")
    <3>1. (r > h <=> r >= h) /\ r # h
      BY <2>1, <2>4, <2>5
    <3> QED  BY <3>1 DEF Up
  <2>7. Rounded(neg, n, k, 0, "RNE") = Rounded(neg, n, k, 0, "RMM")
    BY <2>2, <2>6
  <2> QED  BY <2>7 DEF ToInt, n, k
<1> QED  BY <1>2, <1>3

LEMMA ToIntDoes ==
  ASSUME NEW f, Fmt(f), NEW a \in Data(f), NEW rm PROVE ToInt(a, rm, f) \in Int
<1>1. Sig(a, f) \in Nat /\ Place(a, f) \in Int /\ 0 \in Int
  BY SigDoes
<1>2. Rounded(Neg(a, f), Sig(a, f), Place(a, f), 0, rm) \in Nat
  BY <1>1, RoundedNat
<1> QED  BY <1>2 DEF ToInt

LEMMA RoundedSelf ==
  ASSUME NEW neg, NEW n \in Nat, NEW k \in Int, NEW rm
  PROVE  Rounded(neg, n, k, k, rm) = n
<1>1. PICK j \in Int : j = k
  OBVIOUS
<1>2. k >= j /\ k - j = 0
  BY <1>1
<1>3. 2^(k - j) = 1
  BY <1>2, PowerOfZero
<1>4. Rounded(neg, n, k, j, rm) = n * 2^(k - j)
  BY <1>2 DEF Rounded
<1> QED  BY <1>1, <1>3, <1>4

(* Conversions, with a name for the place of the integers *)
LEMMA AtZero ==
  ASSUME NEW z \in Int, z = 0, NEW no \in BOOLEAN, ~ no, NEW f, NEW rm, NEW v \in Nat
  PROVE  FromInt(v, rm, f) = Round(no, v, z, rm, f)
<1>1. (v < 0) = no /\ (IF v < 0 THEN -v ELSE v) = v
  OBVIOUS
<1>2. FromInt(v, rm, f) = Round(v < 0, IF v < 0 THEN -v ELSE v, 0, rm, f)
  BY Zenon DEF FromInt
<1> QED  BY <1>1, <1>2, Zenon

(* The largest integer of a type, converted to a format and back, is at most
   one too large. *)
LEMMA LimitDoes ==
  ASSUME NEW f, Fmt(f), NEW p \in Nat, p < 2^(f.e - 1)
  PROVE  LET b == FromInt(2^p - 1, "RNE", f).bits
         IN  ToInt(b, "RTZ", f) \in Int /\ ToInt(b, "RTZ", f) <= 2^p
<1>i. PICK zero \in Int : zero = 0
  OBVIOUS
<1>b. PICK no \in BOOLEAN : ~ no
  OBVIOUS
<1>0. zero = 0 /\ no = FALSE
  BY <1>i, <1>b
<1> DEFINE v == 2^p - 1
           rd == Round(no, v, zero, "RNE", f)
           b == rd.bits
           m == f.m
           e == f.e
           q == 2^m
           e1 == 2^(e - 1)
           e2 == 2^((e - 1) - 1)
           l == Least(f)
           own == p - 1 - m
           r == Rounded(no, v, zero, own, "RNE")
           mag == (own - l) * q + r
<1>1. 2^p \in Nat \ {0} /\ v \in Nat
  BY PowerIsPositive
<1>2. FromInt(v, "RNE", f).bits = b
  <2> HIDE DEF v
  <2> QED  BY <1>i, <1>b, <1>1, AtZero
<1>3. b \in Data(f)
  <2>1. v \in Int
    BY <1>1
  <2> HIDE DEF v, b
  <2>2. IsNumber(FromInt(v, "RNE", f), f)
    BY <2>1, FromIntIsNumber
  <2>3. FromInt(v, "RNE", f).bits \in Data(f)
    BY <2>2, NumberDoes
  <2> QED  BY <1>2, <2>3
<1>4. ToInt(b, "RTZ", f) \in Int
  <2> HIDE DEF b
  <2> QED  BY <1>3, ToIntDoes
<1>z. ~ Neg(b, f) => ToInt(b, "RTZ", f) = Rounded(no, Sig(b, f), Place(b, f), zero, "RTZ")
  <2> HIDE DEF b
  <2> SUFFICES ASSUME ~ Neg(b, f)
               PROVE  ToInt(b, "RTZ", f) = Rounded(no, Sig(b, f), Place(b, f), zero, "RTZ")
    OBVIOUS
  <2>1. Neg(b, f) = no
    BY <1>b DEF Neg
  <2>2. ToInt(b, "RTZ", f) = Rounded(Neg(b, f), Sig(b, f), Place(b, f), 0, "RTZ")
    BY Zenon DEF ToInt
  <2> QED  BY <1>i, <2>1, <2>2, Zenon
<1>v. v <= 2^p
  BY <1>1
<1>f. SUFFICES ToInt(b, "RTZ", f) <= 2^p
  BY <1>2, <1>4
<1>5. CASE p = 0
  <2>1. v = 0
    BY <1>5, PowerOfZero
  <2>2. b = WithSign(no, 0, f)
    BY <2>1, RoundZero, InvalidBits
  <2>3. Neg(b, f) = no /\ IsZero(b, f)
    BY <2>2, ZeroDoes
  <2> HIDE DEF b
  <2> DEFINE k == Place(b, f)
  <2>4. Sig(b, f) = 0 /\ k \in Int
    BY <1>3, <2>3, SigDoes
  <2>5. PICK n \in Nat : n = 0
    OBVIOUS
  <2>6. ToInt(b, "RTZ", f) = Rounded(no, n, k, zero, "RTZ")
    BY <1>0, <1>z, <2>3, <2>4, <2>5
  <2> HIDE DEF k
  <2>7. Rounded(no, n, k, zero, "RTZ") = 0
    <3>1. CASE k >= zero
      <4>1. 2^(k - zero) \in Nat
        BY <2>4, <3>1, PowerIsPositive
      <4>2. Rounded(no, n, k, zero, "RTZ") = n * 2^(k - zero)
        BY <3>1, RoundedAbove
      <4> QED  BY <2>5, <4>1, <4>2
    <3>2. CASE ~ (k >= zero)
      <4> DEFINE d == 2^(zero - k)
      <4>1. zero - k \in Nat
        BY <2>4, <3>2
      <4>2. d \in Nat \ {0}
        BY <4>1, PowerIsPositive
      <4>3. Rounded(no, n, k, zero, "RTZ") \in {n \div d, (n \div d) + 1}
            /\ (Rounded(no, n, k, zero, "RTZ") = n \div d)
        BY <3>2, RoundedBelow DEF Up
      <4> HIDE DEF d
      <4>4. n \div d = 0
        BY <2>5, <4>2, DivZero
      <4> QED  BY <4>3, <4>4
    <3> QED  BY <3>1, <3>2
  <2> QED  BY <1>1, <2>6, <2>7
<1>6. CASE p # 0
  <2>1. e \in Nat \ {0} /\ e - 1 \in Nat \ {0} /\ m \in Nat \ {0}
    BY DEF Fmt
  <2>2. e1 \in Nat \ {0} /\ e2 \in Nat \ {0} /\ e1 = e2 + e2 /\ 2^e = e1 + e1
    BY <2>1, Halves
  <2>3. q \in Nat \ {0} /\ Infinity(f) \in Nat /\ Infinity(f) < SignBit(f) /\ SignBit(f) \in Nat
    BY FormatSizes
  <2>4. l = 2 - e1 - m /\ Infinity(f) = (2^e - 1) * q
    BY DEF Least, Infinity
  <2>5. p < e1
    OBVIOUS
  <2>6. p - 1 \in Nat /\ p \in Nat \ {0}
    BY <1>6
  <2>7. 2^p = 2^(p - 1) + 2^(p - 1) /\ 2^(p - 1) \in Nat \ {0}
    BY <2>6, Halves
  <2>8. v \in Nat \ {0} /\ 2^(p - 1) <= v /\ v < 2^p
    BY <1>1, <2>7
  <2>9. Length(v) = p
    BY <2>6, <2>8, LengthIs
  <2> HIDE DEF v, e1, e2, e, m, q, l
  <2>10. own \in Int /\ l \in Int /\ own >= l /\ own - l = p - 3 + e1
    BY <2>1, <2>2, <2>4, <2>6
  <2>11. Own(v, zero, f) = own /\ At(v, zero, f) = own
    <3>1. Own(v, zero, f) = own
      <4>1. zero + Length(v) - 1 - m = own
        BY <1>0, <2>1, <2>9
      <4> QED  BY <4>1 DEF Own, m
    <3> HIDE DEF own
    <3>2. Larger(own, l) = own
      BY <2>10 DEF Larger
    <3> QED  BY <3>1, <3>2 DEF At, l
  <2>12. MagOf(no, v, zero, "RNE", f) = mag
    BY <2>11 DEF MagOf, l, q, m
  <2>13. r \in Nat
    <3>1. v \in Nat /\ own \in Int
      BY <2>8, <2>10
    <3> HIDE DEF own
    <3> QED  BY <3>1, RoundedNat
  <2>14. ASSUME r <= q + q PROVE mag < Infinity(f) /\ mag \in Nat
    <3> HIDE DEF r, own
    <3>1. (own - l) * q \in Nat
      BY <2>3, <2>10
    <3>2. mag <= ((own - l) + 2) * q
      BY <2>3, <2>10, <2>13, <2>14, <3>1
    <3>3. (own - l) + 2 < 2^e - 1 /\ (own - l) + 2 \in Int /\ 2^e - 1 \in Int
      BY <2>2, <2>5, <2>6, <2>10
    <3>4. ((own - l) + 2) * q < (2^e - 1) * q
      BY <2>3, <3>3, ProductMonotone
    <3>5. mag \in Nat
      BY <2>13, <3>1
    <3>6. ((own - l) + 2) * q \in Int /\ (2^e - 1) * q \in Int
      BY <2>3, <3>3
    <3> QED  BY <2>4, <3>2, <3>4, <3>5, <3>6
  <2>15. CASE own <= zero
    <3> HIDE DEF own
    <3>1. zero >= own
      BY <2>10, <2>15
    <3>2. Exactly(v, zero, own)
      BY <3>1, RoundedAbove
    <3>3. r < q + q
      <4>1. Exactly(v, zero, At(v, zero, f)) /\ At(v, zero, f) = own
        BY <2>11, <3>2
      <4>2. v \in Nat \ {0} /\ zero \in Int
        BY <2>8
      <4>3. Rounded(no, v, zero, At(v, zero, f), "RNE") < 2^f.m + 2^f.m
        BY <4>1, <4>2, ExactDigits
      <4>4. q + q = 2^f.m + 2^f.m
        BY DEF q, m
      <4> QED  BY <4>1, <4>3, <4>4
    <3> HIDE DEF r
    <3>4. mag < Infinity(f) /\ mag \in Nat
      BY <2>3, <2>13, <2>14, <3>3
    <3>5. ~ Inexact(no, v, zero, "RNE", f)
      <4>1. Exactly(v, zero, At(v, zero, f))
        BY <2>11, <3>2
      <4>2. ~ (mag >= Infinity(f))
        <5> HIDE DEF mag
        <5> QED  BY <2>3, <3>4
      <4> QED  BY <2>12, <4>1, <4>2 DEF Inexact, Over
    <3> DEFINE k == Place(b, f)
               t == Sig(b, f)
    <3>6. /\ Neg(b, f) = no
          /\ \/ k <= zero /\ t = v * 2^(zero - k)
             \/ zero <= k /\ v = t * 2^(k - zero)
      <4>1. v \in Nat \ {0} /\ zero \in Int
        BY <2>8
      <4> QED  BY <3>5, <4>1, ExactDoes
    <3>7. k \in Int /\ t \in Nat
      <4> HIDE DEF b
      <4> QED  BY <1>3, SigDoes
    <3> HIDE DEF b
    <3>8. ToInt(b, "RTZ", f) = Rounded(no, t, k, zero, "RTZ")
      BY <1>0, <1>z, <3>6
    <3> HIDE DEF k, t
    <3>9. CASE k <= zero /\ t = v * 2^(zero - k)
      <4> DEFINE j == zero - k
      <4>1. j \in Nat /\ zero - j = k /\ zero \in Int /\ v \in Nat
        BY <2>8, <3>7, <3>9
      <4>2. t = v * 2^j
        BY <3>9
      <4> HIDE DEF j
      <4>3. Rounded(no, v * 2^j, zero - j, zero, "RTZ") = Rounded(no, v, zero, zero, "RTZ")
        BY <4>1, RoundedScales
      <4>4. Rounded(no, v, zero, zero, "RTZ") = v
        BY <4>1, RoundedSelf
      <4>5. ToInt(b, "RTZ", f) = v
        BY <3>8, <4>1, <4>2, <4>3, <4>4
      <4> QED  BY <1>v, <4>5
    <3>10. CASE zero <= k /\ v = t * 2^(k - zero)
      <4>1. k >= zero
        BY <3>7, <3>10
      <4>2. Rounded(no, t, k, zero, "RTZ") = t * 2^(k - zero)
        BY <4>1, RoundedAbove
      <4>3. ToInt(b, "RTZ", f) = v
        BY <3>8, <3>10, <4>2
      <4> QED  BY <1>v, <4>3
    <3> QED  BY <3>6, <3>9, <3>10 DEF k, t
  <2>16. CASE ~ (own <= zero)
    <3> DEFINE g == 2^own
               two == q + q
    <3>1. own \in Nat /\ (m + 1) + own = p /\ m + 1 \in Nat \ {0} /\ (m + 1) - 1 = m
      <4>1. own \in Nat
        BY <1>0, <2>10, <2>16
      <4> QED  BY <2>1, <4>1
    <3>2. g \in Nat \ {0} /\ 2^p = 2^(m + 1) * g
      BY <3>1, PowerIsPositive, PowerOfSum
    <3>3. 2^(m + 1) = two /\ two \in Nat \ {0}
      BY <2>3, <3>1, Halves DEF q
    <3> HIDE DEF g, two, own
    <3>4. v = (two - 1) * g + (g - 1) /\ two - 1 \in Int /\ g - 1 \in 0 .. (g - 1) /\ v \in Int
      <4>1. two * g = (two - 1) * g + g /\ two * g \in Int
        BY <3>2, <3>3
      <4> QED  BY <2>8, <3>2, <3>3, <4>1 DEF v
    <3>5. v \div g = two - 1
      <4> DEFINE x == two - 1
                 y == g - 1
      <4>1. v = x * g + y /\ x \in Int /\ y \in 0 .. (g - 1) /\ v \in Int
        BY <3>4
      <4> HIDE DEF x, y
      <4>2. v \div g = x
        BY <3>2, <4>1, DivModIs
      <4> QED  BY <4>2 DEF x
    <3>6. r = two - 1 \/ r = two
      <4>1. ~ (zero >= own) /\ own - zero = own
        BY <1>0, <3>1, <2>16
      <4>2. r = v \div 2^(own - zero) \/ r = (v \div 2^(own - zero)) + 1
        BY <4>1, RoundedBelow
      <4>3. r = v \div g \/ r = (v \div g) + 1
        BY <4>1, <4>2 DEF g
      <4> HIDE DEF r
      <4> QED  BY <3>3, <3>5, <4>3
    <3> HIDE DEF r
    <3>7. mag < Infinity(f) /\ mag \in Nat
      BY <2>14, <3>3, <3>6 DEF two
    <3>8. b = WithSign(no, mag, f)
      <4>1. v # 0
        BY <2>8
      <4>2. b = WithSign(no, Capped(no, v, zero, "RNE", f), f)
        BY <4>1, RoundIs
      <4>3. ~ (mag >= Infinity(f))
        <5> HIDE DEF mag
        <5> QED  BY <2>3, <3>7
      <4>4. Capped(no, v, zero, "RNE", f) = mag
        BY <2>12, <4>3 DEF Capped, Over
      <4> QED  BY <4>2, <4>4
    <3>9. mag \in 0 .. (SignBit(f) - 1)
      BY <2>3, <3>7
    <3> HIDE DEF b, mag
    <3>10. Mag(b, f) = mag /\ Neg(b, f) = no
      BY <3>8, <3>9, WithSignDoes
    <3>11. mag = (own - l) * q + r
      BY DEF mag
    <3>12. \A k \in Nat : Rounded(no, Sig(b, f), k, zero, "RTZ") = Sig(b, f) * 2^k
      <4> TAKE k \in Nat
      <4>1. k - zero = k /\ k >= zero
        BY <1>0
      <4>2. Rounded(no, Sig(b, f), k, zero, "RTZ") = Sig(b, f) * 2^(k - zero)
        BY <4>1, RoundedAbove
      <4> QED  BY <4>1, <4>2
    <3>13. CASE r = two - 1
      <4>1. Sig(b, f) = r /\ Place(b, f) = own
        <5>1. Mag(b, f) = (own - Least(f)) * 2^f.m + r
          BY <3>10, <3>11 DEF l, q, m
        <5>2. r \in Nat /\ r < 2^f.m + 2^f.m /\ r >= 2^f.m /\ own >= Least(f)
          BY <2>3, <2>10, <3>3, <3>13 DEF two, q, m, l
        <5> QED  BY <2>10, <5>1, <5>2, Decodes
      <4>2. ToInt(b, "RTZ", f) = r * g
        BY <1>0, <1>z, <3>1, <3>10, <3>12, <4>1 DEF g
      <4>3. (two - 1) * g <= two * g
        BY <3>2, <3>3
      <4> QED  BY <3>2, <3>3, <3>13, <4>2, <4>3
    <3>14. CASE r = two
      <4> DEFINE up == own + 1
      <4>1. up \in Nat /\ up > l /\ up - l = (own - l) + 1 /\ up >= 0
        BY <2>10, <3>1
      <4>2. ((own - l) + 1) * q + q = (own - l) * q + two
        BY <2>3, <2>10 DEF two
      <4>3. mag = (up - l) * q + q
        BY <3>11, <3>14, <4>1, <4>2
      <4>5. up \in Nat \ {0} /\ up - 1 = own
        BY <3>1
      <4>4. 2^up = g + g
        BY <4>5, Halves DEF g
      <4> HIDE DEF up
      <4>6. Sig(b, f) = q /\ Place(b, f) = up
        <5>1. Mag(b, f) = (up - Least(f)) * 2^f.m + q
          BY <3>10, <4>3 DEF l, q, m
        <5>2. q \in Nat /\ q < 2^f.m + 2^f.m /\ q >= 2^f.m /\ up >= Least(f)
          BY <2>3, <2>10, <4>1 DEF q, m, l
        <5> QED  BY <4>1, <5>1, <5>2, Decodes
      <4>7. ToInt(b, "RTZ", f) = q * 2^up
        BY <1>0, <1>z, <3>10, <3>12, <4>1, <4>6
      <4>8. q * (g + g) = two * g
        BY <2>3, <3>2 DEF two
      <4> QED  BY <3>2, <3>3, <4>4, <4>7, <4>8
    <3> QED  BY <3>6, <3>13, <3>14
  <2> QED  BY <2>10, <2>15, <2>16
<1> QED  BY <1>5, <1>6

-----------------------------------------------------------------------------
(* The architecture computes with the same operators. *)

LEMMA SameData ==
  ASSUME NEW b, NEW f
  PROVE  /\ Arch!Mag(b, f) = Mag(b, f) /\ Arch!Neg(b, f) = Neg(b, f) /\ Arch!Flip(b, f) = Flip(b, f)
         /\ Arch!IsNan(b, f) = IsNan(b, f) /\ Arch!IsInf(b, f) = IsInf(b, f)
         /\ Arch!IsZero(b, f) = IsZero(b, f) /\ Arch!IsSignaling(b, f) = IsSignaling(b, f)
         /\ Arch!CanonicalNan(f) = CanonicalNan(f) /\ Arch!Width(f) = Width(f)
BY DEF Arch!Mag, Arch!Neg, Arch!Flip, Arch!IsNan, Arch!IsInf, Arch!IsZero, Arch!IsSignaling,
       Arch!CanonicalNan, Arch!Width, Arch!SignBit, Arch!Infinity, Arch!WithSign,
       Mag, Neg, Flip, IsNan, IsInf, IsZero, IsSignaling,
       CanonicalNan, Width, SignBit, Infinity, WithSign

LEMMA SameWithSign ==
  ASSUME NEW neg, NEW mag, NEW f PROVE Arch!WithSign(neg, mag, f) = WithSign(neg, mag, f)
BY DEF Arch!WithSign, WithSign, Arch!SignBit, SignBit

LEMMA SameResult ==
  ASSUME NEW x, NEW y PROVE Arch!Result(x, y) = Result(x, y) /\ Arch!NaN = NaN
BY DEF Arch!Result, Result, Arch!NaN, NaN

LEMMA SameOrder ==
  ASSUME NEW a, NEW b, NEW f
  PROVE  Arch!Less(a, b, f) = Less(a, b, f) /\ Arch!Equal(a, b, f) = Equal(a, b, f)
BY DEF Arch!Less, Arch!Equal, Arch!Key, Arch!Mag, Arch!Neg, Arch!IsNan, Arch!SignBit, Arch!Infinity,
       Less, Equal, Key, Mag, Neg, IsNan, SignBit, Infinity

LEMMA SameRounded ==
  ASSUME NEW neg, NEW n, NEW k, NEW e, NEW rm
  PROVE  Arch!Rounded(neg, n, k, e, rm) = Rounded(neg, n, k, e, rm) /\ Arch!Exactly(n, k, e) = Exactly(n, k, e)
BY DEF Arch!Rounded, Rounded, Arch!Exactly, Exactly

LEMMA SameSig ==
  ASSUME NEW b, NEW f
  PROVE  Arch!Sig(b, f) = Sig(b, f) /\ Arch!Place(b, f) = Place(b, f) /\ Arch!Num(b, f) = Num(b, f)
BY DEF Arch!Sig, Arch!Place, Arch!Num, Arch!Mag, Arch!Neg, Arch!SignBit, Arch!Least,
       Sig, Place, Num, Mag, Neg, SignBit, Least

LEMMA SameToInt ==
  ASSUME NEW a, NEW rm, NEW f
  PROVE  Arch!ToInt(a, rm, f) = ToInt(a, rm, f) /\ Arch!IsInteger(a, f) = IsInteger(a, f)
BY SameSig, SameRounded, SameData DEF Arch!ToInt, ToInt, Arch!IsInteger, IsInteger

LEMMA SameRound ==
  ASSUME NEW neg, NEW n, NEW k, NEW rm, NEW f
  PROVE  Arch!Round(neg, n, k, rm, f) = Round(neg, n, k, rm, f)
<1>1. /\ Arch!Length(n) = Length(n) /\ Arch!Least(f) = Least(f)
      /\ Arch!Infinity(f) = Infinity(f)
  BY Zenon DEF Arch!Length, Length, Arch!Least, Least, Arch!Infinity, Infinity
<1>2. \A x, y : Arch!Larger(x, y) = Larger(x, y)
  BY Zenon DEF Arch!Larger, Larger
<1>3. \A x, y : Arch!Rounded(neg, x, k, y, rm) = Rounded(neg, x, k, y, rm)
  BY SameRounded, Zenon
<1>4. \A y : Arch!Exactly(n, k, y) = Exactly(n, k, y)
  BY SameRounded, Zenon
<1>5. \A x, y : Arch!Result(x, y) = Result(x, y)
  BY SameResult, Zenon
<1>6. \A x : Arch!WithSign(neg, x, f) = WithSign(neg, x, f)
  BY SameWithSign, Zenon
<1> QED  BY <1>1, <1>2, <1>3, <1>4, <1>5, <1>6, Zenon DEF Arch!Round, Round

LEMMA SameFma ==
  ASSUME NEW a, NEW b, NEW c, NEW rm, NEW f
  PROVE  Arch!Fma(a, b, c, rm, f) = Fma(a, b, c, rm, f)
<1>1. Arch!Invalid = Invalid /\ Arch!Infinity(f) = Infinity(f)
  BY DEF Arch!Invalid, Invalid, Arch!NaN, NaN, Arch!Result, Result, Arch!Infinity, Infinity
<1>2. \A neg, n, k : Arch!Round(neg, n, k, rm, f) = Round(neg, n, k, rm, f)
  BY SameRound
<1>3. \A x : /\ Arch!Num(x, f) = Num(x, f) /\ Arch!Place(x, f) = Place(x, f)
             /\ Arch!Neg(x, f) = Neg(x, f) /\ Arch!IsNan(x, f) = IsNan(x, f)
             /\ Arch!IsInf(x, f) = IsInf(x, f) /\ Arch!IsZero(x, f) = IsZero(x, f)
             /\ Arch!IsSignaling(x, f) = IsSignaling(x, f)
  BY SameSig, SameData
<1>4. \A neg, mag : Arch!WithSign(neg, mag, f) = WithSign(neg, mag, f)
  BY SameWithSign
<1>5. \A x, y : Arch!Result(x, y) = Result(x, y)
  BY SameResult
<1>6. Arch!NaN = NaN
  BY SameResult
<1> QED  BY <1>1, <1>2, <1>3, <1>4, <1>5, <1>6 DEF Arch!Fma, Fma

LEMMA SameOne == ASSUME NEW f PROVE Arch!One(f) = One(f)
BY DEF Arch!One, One

LEMMA SameAdd ==
  ASSUME NEW a, NEW b, NEW rm, NEW f
  PROVE  /\ Arch!Add(a, b, rm, f) = Add(a, b, rm, f)
         /\ Arch!Sub(a, b, rm, f) = Sub(a, b, rm, f)
         /\ Arch!Mul(a, b, rm, f) = Mul(a, b, rm, f)
<1>1. \A x, y : Arch!Add(x, y, rm, f) = Add(x, y, rm, f)
  BY SameFma, SameOne DEF Arch!Add, Add
<1> QED  BY <1>1, SameFma, SameData, SameWithSign DEF Arch!Sub, Sub, Arch!Mul, Mul

LEMMA SameDiv == ASSUME NEW a, NEW b, NEW rm, NEW f PROVE Arch!Div(a, b, rm, f) = Div(a, b, rm, f)
BY SameData, SameSig, SameRound, SameResult, SameWithSign
   DEF Arch!Div, Div, Arch!Invalid, Invalid, Arch!Sticky, Sticky, Arch!Infinity, Infinity

LEMMA SameSqrt == ASSUME NEW a, NEW rm, NEW f PROVE Arch!Sqrt(a, rm, f) = Sqrt(a, rm, f)
<1>1. /\ Arch!Sig(a, f) = Sig(a, f) /\ Arch!Place(a, f) = Place(a, f)
      /\ Arch!Neg(a, f) = Neg(a, f) /\ Arch!IsNan(a, f) = IsNan(a, f)
      /\ Arch!IsInf(a, f) = IsInf(a, f) /\ Arch!IsZero(a, f) = IsZero(a, f)
      /\ Arch!IsSignaling(a, f) = IsSignaling(a, f)
  BY SameSig, SameData
<1>2. Arch!Invalid = Invalid /\ Arch!NaN = NaN
  BY DEF Arch!Invalid, Invalid, Arch!NaN, NaN, Arch!Result, Result
<1>3. \A neg, n, k : Arch!Round(neg, n, k, rm, f) = Round(neg, n, k, rm, f)
  BY SameRound
<1>4. \A x, y : Arch!Result(x, y) = Result(x, y)
  BY SameResult
<1>5. \A q, more : Arch!Sticky(q, more) = Sticky(q, more)
  BY DEF Arch!Sticky, Sticky
<1> DEFINE s == f.m + 3 + ((Place(a, f) + f.m + 3) % 2)
           n == Sig(a, f) * 2^s
           root == CHOOSE r \in 0 .. 2^(f.m + 3) : r * r <= n /\ n < (r + 1) * (r + 1)
           more == root * root # n
           k == (Place(a, f) - s) \div 2 - 1
<1> DEFINE rd == Round(FALSE, Sticky(root, more), k, rm, f)
           ard == Arch!Round(FALSE, Arch!Sticky(root, more), k, rm, f)
           nan == Result(NaN, IF IsSignaling(a, f) THEN {"NV"} ELSE {})
           anan == Arch!Result(NaN, IF IsSignaling(a, f) THEN {"NV"} ELSE {})
<1>6. Sqrt(a, rm, f) =
        IF IsNan(a, f) THEN nan
        ELSE IF IsZero(a, f) THEN Result(a, {})
        ELSE IF Neg(a, f) THEN Invalid
        ELSE IF IsInf(a, f) THEN Result(a, {})
        ELSE rd
  BY DEF Sqrt
<1>7. Arch!Sqrt(a, rm, f) =
        IF IsNan(a, f) THEN anan
        ELSE IF IsZero(a, f) THEN Arch!Result(a, {})
        ELSE IF Neg(a, f) THEN Invalid
        ELSE IF IsInf(a, f) THEN Arch!Result(a, {})
        ELSE ard
  BY <1>1, <1>2 DEF Arch!Sqrt
<1> HIDE DEF s, n, root, more, k
<1>8. ard = rd /\ anan = nan /\ Arch!Result(a, {}) = Result(a, {})
  BY <1>3, <1>4, <1>5, Zenon
<1> HIDE DEF rd, ard, nan, anan
<1> QED  BY <1>6, <1>7, <1>8

LEMMA SameConvert ==
  ASSUME NEW a, NEW rm, NEW f, NEW g
  PROVE  Arch!Convert(a, rm, f, g) = Convert(a, rm, f, g)
BY SameData, SameSig, SameRound, SameResult, SameWithSign DEF Arch!Convert, Convert, Arch!Infinity, Infinity

LEMMA SameFromInt == ASSUME NEW v, NEW rm, NEW f PROVE Arch!FromInt(v, rm, f) = FromInt(v, rm, f)
BY SameRound DEF Arch!FromInt, FromInt

LEMMA SameLow ==
  ASSUME NEW v, NEW n
  PROVE  Arch!Low(v, n) = Low(v, n) /\ Arch!SignedOf(v, n) = SignedOf(v, n)
BY DEF Arch!Low, Low, Arch!SignedOf, SignedOf

LEMMA SameNames ==
  ASSUME NEW i
  PROVE  Arch!Mode(i) = Mode(i) /\ Arch!XLEN = XLEN /\ Arch!Reg = Reg /\ (\A f : Arch!Other(f) = Other(f))
BY DEF Arch!Mode, Mode, Arch!XLEN, XLEN, Arch!Reg, Reg, Arch!Width, Width, Arch!Other, Other

-----------------------------------------------------------------------------
(* Registers *)

LEMMA FormatsDo ==
  /\ Fmt(Single) /\ Fmt(Double) /\ Single # Double
  /\ Width(Single) \in Nat \ {0} /\ XLEN \in Nat \ {0} /\ Width(Single) < XLEN
  /\ Reg = Data(Double) /\ XLEN = Width(Double)
<1>1. Fmt(Single) /\ Fmt(Double)
  BY FpAssumption DEF FpAssumption, Fmt
<1>2. Width(Single) < Width(Double)
  BY FpAssumption DEF FpAssumption
<1>3. Width(Single) \in Nat \ {0} /\ Width(Double) \in Nat \ {0}
  BY <1>1, FormatSizes
<1>4. Single # Double
  BY <1>2, <1>3
<1> QED  BY <1>1, <1>2, <1>3, <1>4 DEF XLEN, Reg, Data

LEMMA LowDoes ==
  ASSUME NEW v \in Int, NEW n \in Nat
  PROVE  Low(v, n) \in Nat /\ Low(v, n) \in 0 .. (2^n - 1) /\ 2^n \in Nat \ {0}
<1>1. 2^n \in Nat \ {0}
  BY PowerIsPositive
<1>2. v % 2^n \in 0 .. (2^n - 1)
  BY <1>1, DivMod
<1> QED  BY <1>1, <1>2 DEF Low

LEMMA LowFixed == ASSUME NEW n \in Nat, NEW v \in 0 .. (2^n - 1) PROVE Low(v, n) = v
<1>1. 2^n \in Nat \ {0}
  BY PowerIsPositive
<1> QED  BY <1>1, DivZero DEF Low

(* Adding a multiple *)
LEMMA LowShift ==
  ASSUME NEW n \in Nat, NEW x \in Int, NEW z \in Int, NEW v \in 0 .. (2^n - 1), x = z * 2^n + v
  PROVE  Low(x, n) = v
<1>1. 2^n \in Nat \ {0}
  BY PowerIsPositive
<1> QED  BY <1>1, DivModIs DEF Low

(* A float in a register *)
LEMMA BoxDoes ==
  ASSUME NEW v \in Int
  PROVE  LET u == Low(v, Width(Single))
         IN  /\ Boxed(v) \in Reg /\ Low(Boxed(v), Width(Single)) = u /\ u \in Data(Single)
             /\ Boxed(v) = Arch!Boxed(u) /\ Boxed(Boxed(v)) = Boxed(v) /\ Arch!Unboxed(Boxed(v)) = u
             /\ u \in 0 .. (2^Width(Single) - 1)
<1> DEFINE w == Width(Single)
           u == Low(v, w)
           p == 2^w
           top == 2^XLEN
           q == 2^(XLEN - w)
           b == Boxed(v)
<1>1. w \in Nat /\ XLEN \in Nat /\ w <= XLEN
  BY FormatsDo
<1>2. top = p * q /\ q \in Nat \ {0} /\ p \in Nat \ {0} /\ top \in Nat \ {0}
  BY <1>1, Divides
<1>3. u \in 0 .. (p - 1) /\ Data(Single) = 0 .. (p - 1)
  BY <1>1, LowDoes DEF Data
<1>4. b = top - p + u /\ Reg = 0 .. (top - 1)
  BY DEF Boxed, Reg
<1>5. Arch!Boxed(u) = top - p + u /\ Arch!Boxed(0) = top - p + 0
  BY SameNames, SameData DEF Arch!Boxed
<1>6. Arch!Unboxed(b) = IF b >= Arch!Boxed(0) THEN b - Arch!Boxed(0) ELSE Arch!CanonicalNan(Single)
  BY DEF Arch!Unboxed
<1>7. Boxed(b) = top - p + Low(b, w)
  BY DEF Boxed
<1> HIDE DEF u, p, top, q, b, w
<1>8. p <= top
  BY <1>2
<1>9. b \in Reg /\ b \in Int
  BY <1>2, <1>3, <1>4, <1>8
<1>10. Low(b, w) = u
  <2> DEFINE z == q - 1
  <2>1. z * p = top - p /\ z \in Int
    <3>1. (q - 1) * p = p * q - p
      BY <1>2
    <3> QED  BY <1>2, <3>1
  <2> HIDE DEF z
  <2>2. b = z * p + u
    BY <1>3, <1>4, <2>1, <1>2
  <2>3. b = z * 2^w + u /\ u \in 0 .. (2^w - 1)
    BY <1>3, <2>2 DEF p
  <2> QED  BY <1>1, <1>9, <2>1, <2>3, LowShift
<1>11. Boxed(b) = b
  BY <1>4, <1>7, <1>10
<1>12. Arch!Unboxed(b) = u
  BY <1>2, <1>3, <1>4, <1>5, <1>6, <1>8
<1> QED  BY <1>3, <1>4, <1>5, <1>9, <1>10, <1>11, <1>12 DEF u, b, w, p

(* A result in a register *)
LEMMA HeldDoes ==
  ASSUME NEW f \in {Single, Double}, NEW b \in Data(f)
  PROVE  Held(b, f = Single) = Arch!Wide(b, f)
<1>1. CASE f = Single
  <2>1. b \in 0 .. (2^Width(Single) - 1) /\ b \in Int /\ Width(Single) \in Nat
    BY <1>1, FormatsDo, FormatSizes DEF Data
  <2>2. Low(b, Width(Single)) = b
    BY <2>1, LowFixed
  <2>3. Boxed(b) = Arch!Boxed(b)
    BY <2>1, <2>2, BoxDoes
  <2> QED  BY <1>1, <2>3 DEF Held, Arch!Wide
<1>2. CASE f # Single
  BY <1>2 DEF Held, Arch!Wide
<1> QED  BY <1>1, <1>2

-----------------------------------------------------------------------------
(* An instruction in flight finds its operands: a faulted load has written
   register 0 alone. *)
Issued ==
  insn # None =>
       /\ insn \in Insns
       /\ \A r \in 1 .. 3 : fregs[r] \in Reg
       /\ xreg \in Reg /\ mem \in Reg /\ frm \in Modes
       /\ fregs = [r \in 0 .. 3 |-> fregs[r]]
       /\ \A r \in 0 .. 3 :
            \/ r = 0 /\ insn.op = "load"
            \/ fregs[r] = before[1][r] /\ (r \in single <=> r \in before[2])
       /\ Careful /\ insn.op \notin {"load", "store"} => Exact(insn)

LEMMA RegIsInt == ASSUME NEW v \in Reg PROVE v \in Int /\ v \in 0 .. (2^XLEN - 1)
<1>1. 2^XLEN \in Nat
  BY FormatsDo, PowerIsPositive
<1> QED  BY <1>1 DEF Reg

LEMMA GetDoes ==
  ASSUME NEW r \in 1 .. 3, NEW f \in {Single, Double}, fregs[r] \in Reg
  PROVE  Get(r, f) \in Data(f) /\ (f = Double => Get(r, f) = fregs[r])
<1>1. fregs[r] \in Int /\ fregs[r] \in 0 .. (2^XLEN - 1)
  BY RegIsInt
<1>2. Width(f) \in Nat /\ XLEN \in Nat /\ XLEN = Width(Double)
  BY FormatsDo, FormatSizes
<1>3. Get(r, f) \in Data(f)
  BY <1>1, <1>2, LowDoes DEF Get, Data
<1>4. Low(fregs[r], XLEN) = fregs[r]
  BY <1>1, <1>2, LowFixed
<1> QED  BY <1>2, <1>3, <1>4 DEF Get

(* What the architecture's registers hold *)
LEMMA ArchRegister ==
  ASSUME Issued, insn # None, NEW r \in 1 .. 3
  PROVE  ArchFregs[r] = Held(fregs[r], r \in single)
<1>1. ArchFregs[r] = Held(before[1][r], r \in before[2])
  BY DEF ArchFregs
<1>2. fregs[r] = before[1][r] /\ (r \in single <=> r \in before[2])
  BY DEF Issued
<1> QED  BY <1>1, <1>2 DEF Held

(* An operand that is what the instruction takes it for *)
LEMMA OperandIs ==
  ASSUME Issued, insn # None, NEW r \in 1 .. 3, NEW i, i.fmt \in {Single, Double},
         r \in single <=> i.fmt = Single
  PROVE  Arch!Operand(i, r) = Get(r, i.fmt)
<1>1. fregs[r] \in Reg /\ fregs[r] \in Int
  BY RegIsInt DEF Issued
<1>2. ArchFregs[r] = Held(fregs[r], r \in single)
  BY ArchRegister
<1>3. CASE i.fmt = Single
  <2>1. ArchFregs[r] = Boxed(fregs[r])
    BY <1>2, <1>3 DEF Held
  <2>2. Arch!Unboxed(Boxed(fregs[r])) = Low(fregs[r], Width(Single))
    BY <1>1, BoxDoes
  <2> QED  BY <1>3, <2>1, <2>2 DEF Arch!Operand, Get
<1>4. CASE i.fmt # Single
  <2>1. ArchFregs[r] = fregs[r]
    BY <1>2, <1>4 DEF Held
  <2>2. Get(r, i.fmt) = fregs[r]
    BY <1>1, <1>4, GetDoes
  <2> QED  BY <1>4, <2>1, <2>2 DEF Arch!Operand
<1> QED  BY <1>3, <1>4

-----------------------------------------------------------------------------
(* Steps of the architecture *)

LEMMA InsnDoes ==
  ASSUME Issued, insn # None
  PROVE  /\ insn \in [op : Operations, fmt : {Single, Double}, rm : Modes \cup {"DYN"},
                      w : {Word, Long}, signed : BOOLEAN]
         /\ insn.op \in Operations /\ insn.fmt \in {Single, Double} /\ insn.rm \in Modes \cup {"DYN"}
         /\ insn.w \in {Word, Long} /\ insn.signed \in BOOLEAN
         /\ Fmt(insn.fmt) /\ insn.w \in Nat \ {0} /\ insn.w < 2^(insn.fmt.e - 1)
<1>1. insn \in Insns \ {None}
  BY DEF Issued
<1>2. insn \in [op : Operations, fmt : {Single, Double}, rm : Modes \cup {"DYN"},
                      w : {Word, Long}, signed : BOOLEAN]
  BY <1>1, FpAssumption DEF FpAssumption
<1>3. insn.fmt \in {Single, Double} /\ insn.w \in {Word, Long}
  BY <1>2
<1>4. insn.w \in Nat \ {0} /\ insn.w < 2^(insn.fmt.e - 1)
  BY <1>3, FpAssumption DEF FpAssumption
<1>5. Fmt(insn.fmt)
  BY <1>3, FormatsDo
<1> QED  BY <1>2, <1>3, <1>4, <1>5

LEMMA FregsWritten ==
  ASSUME Issued, insn # None, insn' = None, NEW v, NEW f, SetValue(v, f)
  PROVE  /\ ArchFregs' = [ArchFregs EXCEPT ![0] = Held(v, f = Single)]
         /\ 4 \in single' <=> 4 \in single
<1>1. fregs = [r \in 0 .. 3 |-> fregs[r]] /\ fregs' = [fregs EXCEPT ![0] = v]
  BY DEF Issued, SetValue
<1>2. single' = IF f = Single THEN single \cup {0} ELSE single \ {0}
  BY DEF SetValue
<1>3. fregs'[0] = v /\ \A r \in 1 .. 3 : fregs'[r] = fregs[r]
  BY <1>1
<1>4. (0 \in single' <=> f = Single) /\ \A r \in 1 .. 4 : r \in single' <=> r \in single
  BY <1>2
<1>5. ArchFregs' = [r \in 0 .. 3 |-> Held(fregs'[r], r \in single')]
  BY DEF ArchFregs, Held, Boxed, Low, XLEN, Width
<1>6. ArchFregs = [r \in 0 .. 3 |-> ArchFregs[r]]
  BY DEF ArchFregs
<1>7. \A r \in 1 .. 3 : ArchFregs[r] = Held(fregs[r], r \in single)
  BY ArchRegister
<1>8. \A r \in 0 .. 3 : Held(fregs'[r], r \in single') = IF r = 0 THEN Held(v, f = Single) ELSE ArchFregs[r]
  <2> TAKE r \in 0 .. 3
  <2>1. CASE r = 0
    BY <1>3, <1>4, <2>1 DEF Held
  <2>2. CASE r # 0
    <3>1. r \in 1 .. 3 /\ r \in 1 .. 4
      BY <2>2
    <3> QED  BY <1>3, <1>4, <1>7, <2>2, <3>1 DEF Held
  <2> QED  BY <2>1, <2>2
<1>9. 4 \in 1 .. 4
  OBVIOUS
<1> DEFINE h == Held(v, f = Single)
<1> HIDE DEF h
<1>10. ArchFregs' = [r \in 0 .. 3 |-> IF r = 0 THEN h ELSE ArchFregs[r]]
  BY <1>5, <1>8 DEF h
<1>11. ArchFregs' = [ArchFregs EXCEPT ![0] = h]
  BY <1>6, <1>10
<1> QED  BY <1>4, <1>9, <1>11 DEF h

LEMMA FregsKept ==
  ASSUME Issued, insn # None, insn.op # "load", insn' = None, fregs' = fregs,
         \A r \in 0 .. 3 : r \in single' <=> r \in single
  PROVE  ArchFregs' = ArchFregs
<1>1. \A r \in 0 .. 3 : before[1][r] = fregs[r] /\ (r \in before[2] <=> r \in single)
  BY DEF Issued
<1>2. ArchFregs' = [r \in 0 .. 3 |-> Held(fregs[r], r \in single')]
  BY DEF ArchFregs, Held, Boxed, Low, XLEN, Width
<1>3. ArchFregs = [r \in 0 .. 3 |-> Held(before[1][r], r \in before[2])]
  BY DEF ArchFregs
<1>4. \A r \in 0 .. 3 : Held(before[1][r], r \in before[2]) = Held(fregs[r], r \in single')
  BY <1>1 DEF Held
<1> QED  BY <1>2, <1>3, <1>4

LEMMA FloatStep ==
  ASSUME Issued, insn # None, insn' = None, insn.op \notin Arch!ToXreg \cup {"store"},
         UNCHANGED <<xreg, mem, frm>>,
         NEW v, NEW g, SetValue(v, g), NEW r, r = Arch!FloatResult(insn),
         Held(v, g = Single) = Arch!Wide(IF r.bits = NaN THEN CanonicalNan(insn.fmt) ELSE r.bits, insn.fmt),
         fflags' = fflags \cup r.flags
  PROVE  Arch!ExecuteFloat
<1>1. ArchFregs' = [ArchFregs EXCEPT ![0] = Held(v, g = Single)] /\ (4 \in single' <=> 4 \in single)
  BY FregsWritten
<1>2. Held(mem, 4 \in single)' = Held(mem, 4 \in single)
  BY <1>1 DEF Held, Boxed, Low, XLEN, Width
<1>3. Arch!NaN = NaN /\ Arch!CanonicalNan(insn.fmt) = CanonicalNan(insn.fmt)
  BY SameResult, SameData
<1> QED  BY <1>1, <1>2, <1>3 DEF Arch!ExecuteFloat

LEMMA IntStep ==
  ASSUME Issued, insn # None, insn' = None, insn.op \in Arch!ToXreg, UNCHANGED <<fregs, single, mem, frm>>,
         xreg' = Arch!IntResult(insn).bits,
         fflags' = fflags \cup Arch!IntResult(insn).flags
  PROVE  Arch!ExecuteInt
<1>1. insn.op # "load"
  BY DEF Arch!ToXreg
<1>2. ArchFregs' = ArchFregs
  BY <1>1, FregsKept
<1>3. Held(mem, 4 \in single)' = Held(mem, 4 \in single)
  BY DEF Held, Boxed, Low, XLEN, Width
<1> QED  BY <1>2, <1>3 DEF Arch!ExecuteInt

-----------------------------------------------------------------------------
(* Cases by operation *)

LEMMA ReadsAre ==
  ASSUME NEW i
  PROVE  /\ i.op \in Fused => Reads(i) = {1, 2, 3}
         /\ i.op \in Two \cup Signs \cup Compares \cup {"min", "max"} => Reads(i) = {1, 2}
         /\ i.op \in {"sqrt", "class", "cvt.w", "cvt.f"} => Reads(i) = {1}
         /\ i.op = "mv.x" /\ i.fmt = Double => Reads(i) = {1}
<1>1. i.op \in Fused => Reads(i) = {1, 2, 3}
  BY Zenon DEF Reads, Fused, Two, Signs, Compares
<1>2. i.op \in Two \cup Signs \cup Compares \cup {"min", "max"} => Reads(i) = {1, 2}
  BY Zenon DEF Reads, Fused, Two, Signs, Compares
<1>3. i.op \in {"sqrt", "class", "cvt.w", "cvt.f"} => Reads(i) = {1}
  BY Zenon DEF Reads, Fused, Two, Signs, Compares
<1>4. i.op = "mv.x" /\ i.fmt = Double => Reads(i) = {1}
  BY Zenon DEF Reads, Fused, Two, Signs, Compares
<1> QED  BY <1>1, <1>2, <1>3, <1>4

LEMMA HostResultIs ==
  ASSUME NEW i, NEW fused
  PROVE  /\ i.op = "add" => HostResult(i, fused) = Add(A(i), B(i), "RNE", i.fmt)
         /\ i.op = "sub" => HostResult(i, fused) = Sub(A(i), B(i), "RNE", i.fmt)
         /\ i.op = "mul" => HostResult(i, fused) = Mul(A(i), B(i), "RNE", i.fmt)
         /\ i.op = "div" => HostResult(i, fused) = Div(A(i), B(i), "RNE", i.fmt)
         /\ i.op = "sqrt" => HostResult(i, fused) = Sqrt(A(i), "RNE", i.fmt)
         /\ i.op \in Fused => HostResult(i, fused) =
              Product(IF i.op \in {"nmsub", "nmadd"} THEN Minus(A(i), i.fmt) ELSE A(i), B(i),
                      IF i.op \in {"msub", "nmadd"} THEN Minus(C(i), i.fmt) ELSE C(i), fused, i.fmt)
<1>1. i.op = "add" => HostResult(i, fused) = Add(A(i), B(i), "RNE", i.fmt)
  BY Zenon DEF HostResult, Fused
<1>2. i.op = "sub" => HostResult(i, fused) = Sub(A(i), B(i), "RNE", i.fmt)
  BY Zenon DEF HostResult, Fused
<1>3. i.op = "mul" => HostResult(i, fused) = Mul(A(i), B(i), "RNE", i.fmt)
  BY Zenon DEF HostResult, Fused
<1>4. i.op = "div" => HostResult(i, fused) = Div(A(i), B(i), "RNE", i.fmt)
  BY Zenon DEF HostResult, Fused
<1>5. i.op = "sqrt" => HostResult(i, fused) = Sqrt(A(i), "RNE", i.fmt)
  BY Zenon DEF HostResult, Fused
<1>6. i.op \in Fused => HostResult(i, fused) =
              Product(IF i.op \in {"nmsub", "nmadd"} THEN Minus(A(i), i.fmt) ELSE A(i), B(i),
                      IF i.op \in {"msub", "nmadd"} THEN Minus(C(i), i.fmt) ELSE C(i), fused, i.fmt)
  <2> DEFINE p == Product(IF i.op \in {"nmsub", "nmadd"} THEN Minus(A(i), i.fmt) ELSE A(i), B(i),
                      IF i.op \in {"msub", "nmadd"} THEN Minus(C(i), i.fmt) ELSE C(i), fused, i.fmt)
  <2>1. i.op \in Fused => i.op \notin {"add", "sub", "mul", "div", "sqrt"}
    BY DEF Fused
  <2> QED  BY <2>1, Zenon DEF HostResult
<1> QED  BY <1>1, <1>2, <1>3, <1>4, <1>5, <1>6

ArchMinus(v, f) == IF IsNan(v, f) THEN v ELSE Flip(v, f)

LEMMA FloatResultIs ==
  ASSUME NEW i
  PROVE  /\ i.op \in {"min", "max"} =>
              Arch!FloatResult(i) = Arch!MinMax(i, Arch!Operand(i, 1), Arch!Operand(i, 2), i.fmt)
         /\ i.op \in Signs =>
              Arch!FloatResult(i) =
                Result(WithSign(Arch!SignOf(i, Arch!Operand(i, 1), Arch!Operand(i, 2), i.fmt),
                                Mag(Arch!Operand(i, 1), i.fmt), i.fmt), {})
         /\ i.op = "mv.f" => Arch!FloatResult(i) = Result(Low(xreg, Width(i.fmt)), {})
         /\ i.op = "load" => Arch!FloatResult(i) = Result(Low(Held(mem, 4 \in single), Width(i.fmt)), {})
         /\ i.op \in Two \cup Fused \cup {"sqrt", "cvt.f", "cvt.from"} =>
              Arch!FloatResult(i) = Arch!Computed(i)
<1>1. i.op \in {"min", "max"} =>
        Arch!FloatResult(i) = Arch!MinMax(i, Arch!Operand(i, 1), Arch!Operand(i, 2), i.fmt)
  BY Zenon DEF Arch!FloatResult
<1>2. i.op \in Signs =>
        Arch!FloatResult(i) =
          Arch!Result(Arch!WithSign(Arch!SignOf(i, Arch!Operand(i, 1), Arch!Operand(i, 2), i.fmt),
                                    Arch!Mag(Arch!Operand(i, 1), i.fmt), i.fmt), {})
  BY Zenon DEF Arch!FloatResult, Signs
<1>3. i.op = "mv.f" => Arch!FloatResult(i) = Arch!Result(Arch!Low(xreg, Arch!Width(i.fmt)), {})
  BY Zenon DEF Arch!FloatResult
<1>4. i.op = "load" =>
        Arch!FloatResult(i) = Arch!Result(Arch!Low(Held(mem, 4 \in single), Arch!Width(i.fmt)), {})
  BY Zenon DEF Arch!FloatResult
<1>5. i.op \in Two \cup Fused \cup {"sqrt", "cvt.f", "cvt.from"} =>
        Arch!FloatResult(i) = Arch!Computed(i)
  <2>1. i.op \in Two \cup Fused \cup {"sqrt", "cvt.f", "cvt.from"} =>
          i.op \notin {"min", "max", "sgnj", "sgnjn", "sgnjx", "mv.f", "load"}
    BY DEF Two, Fused
  <2> QED  BY <2>1, Zenon DEF Arch!FloatResult
<1> QED  BY <1>1, <1>2, <1>3, <1>4, <1>5, SameResult, SameWithSign, SameData, SameLow

(* The reference's arithmetic, in the operators of the datapath *)
LEMMA ComputedIs ==
  ASSUME NEW i
  PROVE  /\ i.op = "sqrt" => Arch!Computed(i) = Sqrt(Arch!Operand(i, 1), Mode(i), i.fmt)
         /\ i.op = "add" => Arch!Computed(i) = Add(Arch!Operand(i, 1), Arch!Operand(i, 2), Mode(i), i.fmt)
         /\ i.op = "sub" => Arch!Computed(i) = Sub(Arch!Operand(i, 1), Arch!Operand(i, 2), Mode(i), i.fmt)
         /\ i.op = "mul" => Arch!Computed(i) = Mul(Arch!Operand(i, 1), Arch!Operand(i, 2), Mode(i), i.fmt)
         /\ i.op = "div" => Arch!Computed(i) = Div(Arch!Operand(i, 1), Arch!Operand(i, 2), Mode(i), i.fmt)
         /\ i.op = "cvt.f" =>
              Arch!Computed(i) =
                Convert(Arch!Operand([i EXCEPT !.fmt = Other(i.fmt)], 1), Mode(i), Other(i.fmt), i.fmt)
         /\ i.op = "cvt.from" =>
              Arch!Computed(i) = FromInt(IF i.signed THEN SignedOf(xreg, i.w) ELSE Low(xreg, i.w), Mode(i), i.fmt)
<1> DEFINE o1 == Arch!Operand(i, 1)
           o2 == Arch!Operand(i, 2)
           rm == Mode(i)
           f == i.fmt
<1>0. Arch!Mode(i) = rm /\ Arch!Other(f) = Other(f)
  BY SameNames
<1>1. i.op = "add" => Arch!Computed(i) = Add(o1, o2, rm, f)
  <2>1. i.op = "add" => Arch!Computed(i) = Arch!Add(o1, o2, Arch!Mode(i), f)
    BY Zenon DEF Arch!Computed
  <2> QED  BY <1>0, <2>1, SameAdd, Zenon
<1>2. i.op = "sub" => Arch!Computed(i) = Sub(o1, o2, rm, f)
  <2>1. i.op = "sub" => Arch!Computed(i) = Arch!Sub(o1, o2, Arch!Mode(i), f)
    BY Zenon DEF Arch!Computed
  <2> QED  BY <1>0, <2>1, SameAdd, Zenon
<1>3. i.op = "mul" => Arch!Computed(i) = Mul(o1, o2, rm, f)
  <2>1. i.op = "mul" => Arch!Computed(i) = Arch!Mul(o1, o2, Arch!Mode(i), f)
    BY Zenon DEF Arch!Computed
  <2> QED  BY <1>0, <2>1, SameAdd, Zenon
<1>4. i.op = "div" => Arch!Computed(i) = Div(o1, o2, rm, f)
  <2>1. i.op = "div" => Arch!Computed(i) = Arch!Div(o1, o2, Arch!Mode(i), f)
    BY Zenon DEF Arch!Computed
  <2> QED  BY <1>0, <2>1, SameDiv, Zenon
<1>5. i.op = "sqrt" => Arch!Computed(i) = Sqrt(o1, rm, f)
  <2>1. i.op = "sqrt" => Arch!Computed(i) = Arch!Sqrt(o1, Arch!Mode(i), f)
    BY Zenon DEF Arch!Computed
  <2> QED  BY <1>0, <2>1, SameSqrt, Zenon
<1>6. i.op = "cvt.f" => Arch!Computed(i) = Convert(Arch!Operand([i EXCEPT !.fmt = Other(f)], 1), rm, Other(f), f)
  <2>1. i.op = "cvt.f" =>
          Arch!Computed(i) = Arch!Convert(Arch!Operand([i EXCEPT !.fmt = Arch!Other(f)], 1), Arch!Mode(i), Arch!Other(f), f)
    BY Zenon DEF Arch!Computed
  <2> QED  BY <1>0, <2>1, SameConvert, Zenon
<1>7. i.op = "cvt.from" => Arch!Computed(i) = FromInt(IF i.signed THEN SignedOf(xreg, i.w) ELSE Low(xreg, i.w), rm, f)
  <2>1. i.op = "cvt.from" =>
          Arch!Computed(i) =
            Arch!FromInt(IF i.signed THEN Arch!SignedOf(xreg, i.w) ELSE Arch!Low(xreg, i.w), Arch!Mode(i), f)
    BY Zenon DEF Arch!Computed
  <2> QED  BY <1>0, <2>1, SameFromInt, SameLow, Zenon
<1> QED  BY <1>1, <1>2, <1>3, <1>4, <1>5, <1>6, <1>7, Zenon

(* The four fused operations *)
LEMMA FusedIs ==
  ASSUME NEW i, i.op \in Fused
  PROVE  Arch!Computed(i) =
           Fma(IF i.op \in {"nmsub", "nmadd"} THEN ArchMinus(Arch!Operand(i, 1), i.fmt) ELSE Arch!Operand(i, 1),
               Arch!Operand(i, 2),
               IF i.op \in {"msub", "nmadd"} THEN ArchMinus(Arch!Operand(i, 3), i.fmt) ELSE Arch!Operand(i, 3),
               Mode(i), i.fmt)
<1> DEFINE o1 == Arch!Operand(i, 1)
           o2 == Arch!Operand(i, 2)
           o3 == Arch!Operand(i, 3)
           f == i.fmt
           minus(v) == IF Arch!IsNan(v, f) THEN v ELSE Arch!Flip(v, f)
           x == IF i.op \in {"nmsub", "nmadd"} THEN ArchMinus(o1, f) ELSE o1
           z == IF i.op \in {"msub", "nmadd"} THEN ArchMinus(o3, f) ELSE o3
<1>0. Arch!Mode(i) = Mode(i)
  BY SameNames
<1>1. \A v : minus(v) = ArchMinus(v, f)
  BY SameData DEF ArchMinus
<1>2. i.op = "madd" => Arch!Computed(i) = Arch!Fma(o1, o2, o3, Arch!Mode(i), f)
  BY Zenon DEF Arch!Computed
<1>3. i.op = "msub" => Arch!Computed(i) = Arch!Fma(o1, o2, minus(o3), Arch!Mode(i), f)
  BY Zenon DEF Arch!Computed
<1>4. i.op = "nmsub" => Arch!Computed(i) = Arch!Fma(minus(o1), o2, o3, Arch!Mode(i), f)
  BY Zenon DEF Arch!Computed
<1>5. i.op = "nmadd" => Arch!Computed(i) = Arch!Fma(minus(o1), o2, minus(o3), Arch!Mode(i), f)
  BY Zenon DEF Arch!Computed
<1> HIDE DEF minus, o1, o2, o3, f
<1>6. Arch!Computed(i) = Arch!Fma(x, o2, z, Mode(i), f)
  <2>1. i.op \in {"madd", "msub", "nmsub", "nmadd"}
    BY DEF Fused
  <2>2. CASE i.op = "madd"
    BY <1>0, <1>2, <2>2
  <2>3. CASE i.op = "msub"
    BY <1>0, <1>1, <1>3, <2>3
  <2>4. CASE i.op = "nmsub"
    BY <1>0, <1>1, <1>4, <2>4
  <2>5. CASE i.op = "nmadd"
    BY <1>0, <1>1, <1>5, <2>5
  <2> QED  BY <2>1, <2>2, <2>3, <2>4, <2>5
<1> HIDE DEF x, z
<1>7. Arch!Computed(i) = Fma(x, o2, z, Mode(i), f)
  BY <1>6, SameFma
<1> QED  BY <1>7, Zenon DEF x, z, o1, o2, o3, f

(* What a careful program's arithmetic gives *)
LEMMA ExactOperands ==
  ASSUME Issued, insn # None, Exact(insn), insn.op \notin {"mv.x", "cvt.f"}
  PROVE  /\ 1 \in Reads(insn) => Arch!Operand(insn, 1) = A(insn) /\ A(insn) \in Data(insn.fmt)
         /\ 2 \in Reads(insn) => Arch!Operand(insn, 2) = B(insn) /\ B(insn) \in Data(insn.fmt)
         /\ 3 \in Reads(insn) => Arch!Operand(insn, 3) = C(insn) /\ C(insn) \in Data(insn.fmt)
<1>1. Source(insn) = insn.fmt
  BY DEF Source
<1>2. \A r \in Reads(insn) : r \in single <=> insn.fmt = Single
  BY <1>1 DEF Exact
<1>3. ASSUME NEW r \in 1 .. 3, r \in Reads(insn)
      PROVE  Arch!Operand(insn, r) = Get(r, insn.fmt) /\ Get(r, insn.fmt) \in Data(insn.fmt)
  <2>1. insn.fmt \in {Single, Double}
    BY InsnDoes
  <2>2. fregs[r] \in Reg
    BY DEF Issued
  <2>3. r \in single <=> insn.fmt = Single
    BY <1>2, <1>3
  <2> QED  BY <2>1, <2>2, <2>3, OperandIs, GetDoes
<1>4. 1 \in 1 .. 3 /\ 2 \in 1 .. 3 /\ 3 \in 1 .. 3
  OBVIOUS
<1> QED  BY <1>3, <1>4 DEF A, B, C

-----------------------------------------------------------------------------
(* Arithmetic *)

LEMMA MulFlagsOfFlip ==
  ASSUME NEW f, Fmt(f), NEW a \in Data(f), NEW x \in Data(f), NEW b \in Data(f), Mag(x, f) = Mag(a, f),
         ~ NoProduct(x, b, f), ~ IsNan(x, f), ~ IsNan(b, f), Mul(a, b, "RNE", f).flags = {}
  PROVE  Mul(x, b, "RNE", f).flags = {}
<1>1. /\ Sig(x, f) = Sig(a, f) /\ Place(x, f) = Place(a, f)
      /\ (IsNan(x, f) <=> IsNan(a, f)) /\ (IsInf(x, f) <=> IsInf(a, f)) /\ (IsZero(x, f) <=> IsZero(a, f))
  BY SameMag
<1>2. ~ NoProduct(a, b, f) /\ ~ IsNan(a, f)
  BY <1>1 DEF NoProduct
<1> DEFINE s == Sig(a, f) * Sig(b, f)
           k == Place(a, f) + Place(b, f)
<1>3. Mul(a, b, "RNE", f) =
        IF IsInf(a, f) \/ IsInf(b, f) THEN Result(WithSign(ProductNeg(a, b, f), Infinity(f), f), {})
        ELSE IF IsZero(a, f) \/ IsZero(b, f) THEN Result(WithSign(ProductNeg(a, b, f), 0, f), {})
        ELSE Round(ProductNeg(a, b, f), s, k, "RNE", f)
  BY <1>2, MulIs
<1>4. Mul(x, b, "RNE", f) =
        IF IsInf(a, f) \/ IsInf(b, f) THEN Result(WithSign(ProductNeg(x, b, f), Infinity(f), f), {})
        ELSE IF IsZero(a, f) \/ IsZero(b, f) THEN Result(WithSign(ProductNeg(x, b, f), 0, f), {})
        ELSE Round(ProductNeg(x, b, f), s, k, "RNE", f)
  BY <1>1, MulIs
<1> HIDE DEF s, k
<1>5. Round(ProductNeg(x, b, f), s, k, "RNE", f).flags = Round(ProductNeg(a, b, f), s, k, "RNE", f).flags
  BY NearestUnsigned
<1> QED  BY <1>3, <1>4, <1>5, InvalidBits

LEMMA ProductIs ==
  ASSUME NEW f, Fmt(f), NEW a \in Data(f), NEW b \in Data(f), NEW c \in Data(f), NEW fused \in BOOLEAN,
         Fma(a, b, c, "RNE", f).bits # NaN, Mul(a, b, "RNE", f).flags = {}
  PROVE  Product(a, b, c, fused, f) = Fma(a, b, c, "RNE", f)
<1>1. CASE fused
  BY <1>1 DEF Product
<1>2. CASE ~ fused
  <2> DEFINE p == Mul(a, b, "RNE", f)
             r == Fma(a, b, c, "RNE", f)
  <2>1. p.bits # NaN /\ Add(p.bits, c, "RNE", f) = r
    BY UnfusedIs
  <2>2. r = Result(r.bits, r.flags)
    BY FmaIsNumber, NumberDoes
  <2>3. p.flags = {}
    OBVIOUS
  <2>4. Product(a, b, c, fused, f) = AddTo(p, c, f)
    BY <1>2 DEF Product
  <2> HIDE DEF p, r
  <2>5. AddTo(p, c, f) = Result(r.bits, r.flags \cup {})
    BY <2>1, <2>3 DEF AddTo, Accrue
  <2>6. r.flags \cup {} = r.flags
    OBVIOUS
  <2> QED  BY <2>2, <2>4, <2>5, <2>6 DEF r
<1> QED  BY <1>1, <1>2

LEMMA FusedExact ==
  ASSUME Issued, insn # None, Exact(insn), insn.op \in Fused, NEW fused \in BOOLEAN
  PROVE  /\ HostResult(insn, fused) = Arch!Computed(insn)
         /\ IsNumber(HostResult(insn, fused), insn.fmt)
<1> DEFINE f == insn.fmt
           a == A(insn)
           b == B(insn)
           c == C(insn)
           x == IF insn.op \in {"nmsub", "nmadd"} THEN Minus(a, f) ELSE a
           z == IF insn.op \in {"msub", "nmadd"} THEN Minus(c, f) ELSE c
           r == Fma(x, b, z, "RNE", f)
<1>1. insn.op \notin {"mv.x", "cvt.f"} /\ Reads(insn) = {1, 2, 3}
  BY ReadsAre DEF Fused
<1>2. /\ Arch!Operand(insn, 1) = a /\ a \in Data(f)
      /\ Arch!Operand(insn, 2) = b /\ b \in Data(f)
      /\ Arch!Operand(insn, 3) = c /\ c \in Data(f)
  BY <1>1, ExactOperands
<1>3. Fmt(f) /\ Mode(insn) = "RNE" /\ HostResult(insn, TRUE).bits # NaN /\ Mul(a, b, "RNE", f).flags = {}
  BY InsnDoes DEF Exact
<1>4. \A g : HostResult(insn, g) = Product(x, b, z, g, f)
  BY HostResultIs
<1>5. Arch!Computed(insn) =
        Fma(IF insn.op \in {"nmsub", "nmadd"} THEN ArchMinus(a, f) ELSE a, b,
            IF insn.op \in {"msub", "nmadd"} THEN ArchMinus(c, f) ELSE c, "RNE", f)
  <2> DEFINE op == insn.op
  <2>1. Arch!Computed(insn) =
          Fma(IF op \in {"nmsub", "nmadd"} THEN ArchMinus(Arch!Operand(insn, 1), f) ELSE Arch!Operand(insn, 1),
              Arch!Operand(insn, 2),
              IF op \in {"msub", "nmadd"} THEN ArchMinus(Arch!Operand(insn, 3), f) ELSE Arch!Operand(insn, 3),
              Mode(insn), f)
    BY FusedIs
  <2> HIDE DEF a, b, c, f
  <2> QED  BY <1>2, <1>3, <2>1
<1> HIDE DEF a, b, c, f
<1>6. /\ x \in Data(f) /\ Mag(x, f) = Mag(a, f)
      /\ z \in Data(f) /\ Mag(z, f) = Mag(c, f)
  BY <1>2, <1>3, FlipDoes DEF Minus
<1>7. r.bits # NaN
  <2>1. Product(x, b, z, TRUE, f) = r
    BY DEF Product
  <2> HIDE DEF x, z, r
  <2> QED  BY <1>3, <1>4, <2>1
<1>8. ~ NoProduct(x, b, f) /\ ~ IsNan(x, f) /\ ~ IsNan(b, f) /\ ~ IsNan(z, f)
  BY <1>7, FmaOperands DEF SomeNan
<1>9. ~ IsNan(a, f) /\ ~ IsNan(c, f)
  BY <1>6, <1>8, SameMag
<1>10. Arch!Computed(insn) = r
  BY <1>5, <1>9 DEF ArchMinus, Minus
<1> HIDE DEF x, z
<1>11. Mul(x, b, "RNE", f).flags = {}
  BY <1>2, <1>3, <1>6, <1>8, MulFlagsOfFlip
<1>12. Product(x, b, z, fused, f) = r
  BY <1>2, <1>3, <1>6, <1>7, <1>11, ProductIs
<1>13. IsNumber(r, f)
  BY <1>2, <1>3, <1>6, <1>7, FmaIsNumber
<1> QED  BY <1>4, <1>10, <1>12, <1>13 DEF f

LEMMA ArithmeticExact ==
  ASSUME Issued, insn # None, Exact(insn), insn.op \in Two \cup Fused \cup {"sqrt"}, NEW fused \in BOOLEAN
  PROVE  /\ HostResult(insn, fused) = Arch!Computed(insn)
         /\ IsNumber(HostResult(insn, fused), insn.fmt)
         /\ insn.op = "sqrt" => ~ Less(A(insn), 0, insn.fmt)
<1> DEFINE f == insn.fmt
           a == A(insn)
           b == B(insn)
<1>1. Fmt(f) /\ Mode(insn) = "RNE" /\ HostResult(insn, TRUE).bits # NaN
  BY InsnDoes DEF Exact
<1>2. insn.op \notin {"mv.x", "cvt.f"}
  BY DEF Two, Fused
<1>3. CASE insn.op \in Fused
  <2>1. insn.op # "sqrt"
    BY <1>3 DEF Fused
  <2> QED  BY <1>3, <2>1, FusedExact
<1>4. CASE insn.op = "sqrt"
  <2>1. Reads(insn) = {1}
    BY <1>4, ReadsAre
  <2>2. Arch!Operand(insn, 1) = a /\ a \in Data(f)
    BY <1>2, <2>1, ExactOperands
  <2>3. \A g : HostResult(insn, g) = Sqrt(a, "RNE", f)
    BY <1>4, HostResultIs
  <2>4. Arch!Computed(insn) = Sqrt(a, "RNE", f)
    BY <1>1, <1>4, <2>2, ComputedIs
  <2> HIDE DEF a, f
  <2>5. IsNumber(Sqrt(a, "RNE", f), f) /\ ~ Less(a, 0, f)
    BY <1>1, <2>2, <2>3, SqrtIsNumber
  <2> QED  BY <2>3, <2>4, <2>5 DEF a, f
<1>5. CASE insn.op \in Two
  <2>1. Reads(insn) = {1, 2} /\ insn.op # "sqrt" /\ insn.op \in {"add", "sub", "mul", "div"}
    BY <1>5, ReadsAre DEF Two
  <2>2. /\ Arch!Operand(insn, 1) = a /\ a \in Data(f)
        /\ Arch!Operand(insn, 2) = b /\ b \in Data(f)
    BY <1>2, <2>1, ExactOperands
  <2>3. \A g : /\ insn.op = "add" => HostResult(insn, g) = Add(a, b, "RNE", f)
               /\ insn.op = "sub" => HostResult(insn, g) = Sub(a, b, "RNE", f)
               /\ insn.op = "mul" => HostResult(insn, g) = Mul(a, b, "RNE", f)
               /\ insn.op = "div" => HostResult(insn, g) = Div(a, b, "RNE", f)
    BY HostResultIs
  <2>4. /\ insn.op = "add" => Arch!Computed(insn) = Add(a, b, "RNE", f)
        /\ insn.op = "sub" => Arch!Computed(insn) = Sub(a, b, "RNE", f)
        /\ insn.op = "mul" => Arch!Computed(insn) = Mul(a, b, "RNE", f)
        /\ insn.op = "div" => Arch!Computed(insn) = Div(a, b, "RNE", f)
    <3> HIDE DEF a, b
    <3> QED  BY <1>1, <2>2, ComputedIs
  <2> HIDE DEF a, b, f
  <2>5. \A g : HostResult(insn, g) = Arch!Computed(insn)
    BY <2>1, <2>3, <2>4
  <2>6. /\ Add(a, b, "RNE", f).bits # NaN => IsNumber(Add(a, b, "RNE", f), f)
        /\ Sub(a, b, "RNE", f).bits # NaN => IsNumber(Sub(a, b, "RNE", f), f)
        /\ Mul(a, b, "RNE", f).bits # NaN => IsNumber(Mul(a, b, "RNE", f), f)
        /\ Div(a, b, "RNE", f).bits # NaN => IsNumber(Div(a, b, "RNE", f), f)
    BY <1>1, <2>2, AddIsNumber, DivIsNumber
  <2>7. IsNumber(HostResult(insn, TRUE), f)
    BY <1>1, <2>1, <2>3, <2>6
  <2> QED  BY <2>1, <2>5, <2>7 DEF f
<1> QED  BY <1>3, <1>4, <1>5

LEMMA ArithmeticStep == ASSUME Issued, Careful, Arithmetic PROVE Arch!ExecuteFloat
<1> DEFINE f == insn.fmt
<1>1. /\ insn # None /\ insn' = None /\ insn.op \in Two \cup Fused \cup {"sqrt"}
      /\ UNCHANGED <<xreg, mem, frm>>
  BY DEF Arithmetic, Handler, ToFreg
<1>2. insn.op \notin {"load", "store"} /\ insn.op \notin Arch!ToXreg \cup {"store"}
  BY <1>1 DEF Two, Fused, Arch!ToXreg
<1>3. Exact(insn)
  BY <1>1, <1>2 DEF Issued
<1>4. PICK fused \in BOOLEAN, nan \in HostNans(insn) :
        \E r \in {HostResult(insn, fused)} : Finish(IF r.bits = NaN THEN nan ELSE r.bits, r.flags)
  BY DEF Arithmetic
<1> DEFINE r == HostResult(insn, fused)
<1>5. Finish(IF r.bits = NaN THEN nan ELSE r.bits, r.flags)
  BY <1>4
<1>6. r = Arch!Computed(insn) /\ IsNumber(r, f) /\ (insn.op = "sqrt" => ~ Less(A(insn), 0, f))
  BY <1>1, <1>3, ArithmeticExact
<1>7. Fmt(f) /\ f \in {Single, Double}
  BY <1>1, InsnDoes
<1> HIDE DEF r
<1>8. r.bits \in Data(f) /\ r.bits # NaN /\ r.bits # CanonicalNan(f) /\ "NV" \notin r.flags
  BY <1>6, <1>7, NumberDoes
<1>9. Finish(r.bits, r.flags)
  BY <1>5, <1>8
<1>10. SetValue(r.bits, f) /\ fflags' = fflags \cup r.flags
  <2>1. ~ IsCnan(r.bits, f)
    BY <1>8 DEF IsCnan
  <2>2. SetValue(r.bits, f) /\ SetExceptions(r.flags, When(FALSE, "NV"))
    <3>1. (insn.op # "sqrt") => IsCnan(r.bits, insn.fmt) = FALSE
      BY <2>1 DEF IsCnan
    <3>2. (insn.op = "sqrt") => Less(A(insn), 0, insn.fmt) = FALSE
      BY <1>6 DEF Less
    <3>3. (IF insn.op = "sqrt" THEN Less(A(insn), 0, insn.fmt) ELSE IsCnan(r.bits, insn.fmt)) = FALSE
      BY <3>1, <3>2
    <3> HIDE DEF f
    <3>4. SetExceptions(r.flags, When(IF insn.op = "sqrt" THEN Less(A(insn), 0, insn.fmt)
                                      ELSE IsCnan(r.bits, insn.fmt), "NV"))
          /\ SetValue(r.bits, insn.fmt)
      BY <1>9, Zenon DEF Finish
    <3> QED  BY <3>3, <3>4 DEF f
  <2>3. fflags' = fflags \cup (r.flags \ {"NV"}) \cup {}
    BY <2>2 DEF SetExceptions, When
  <2>4. r.flags \ {"NV"} = r.flags
    BY <1>8
  <2> QED  BY <2>2, <2>3, <2>4
<1>11. Held(r.bits, f = Single) = Arch!Wide(r.bits, f)
  BY <1>7, <1>8, HeldDoes
<1>12. r = Arch!FloatResult(insn)
  BY <1>1, <1>6, FloatResultIs
<1> QED  BY <1>1, <1>2, <1>8, <1>10, <1>11, <1>12, FloatStep

-----------------------------------------------------------------------------
(* The least and the greatest; signs *)

(* The one signaling NaN that the handlers know *)
LEMMA SnanIs ==
  ASSUME NEW f, Fmt(f), NEW v \in Data(f), IsSignaling(v, f) => IsSnan(v, f)
  PROVE  IsSnan(v, f) <=> IsSignaling(v, f)
<1> SUFFICES ASSUME IsSnan(v, f) PROVE IsSignaling(v, f)
  OBVIOUS
<1>1. /\ Infinity(f) \in Nat /\ CanonicalNan(f) = Infinity(f) + 2^(f.m - 1) /\ 2^(f.m - 1) \in Nat \ {0, 1}
      /\ SignBit(f) \in Nat \ {0} /\ CanonicalNan(f) < SignBit(f)
  BY FormatSizes
<1>2. v = Infinity(f) + 1
  BY DEF IsSnan
<1>3. v \in 0 .. (SignBit(f) - 1)
  BY <1>1, <1>2
<1>4. Mag(v, f) = v
  BY <1>1, <1>3, DivZero DEF Mag
<1> QED  BY <1>1, <1>2, <1>4 DEF IsSignaling, IsNan

LEMMA SelectDoes ==
  ASSUME NEW op \in {"min", "max"}, NEW f, Fmt(f), NEW a \in Data(f), NEW b \in Data(f)
  PROVE  /\ IsNan(a, f) /\ IsNan(b, f) => Select(op, a, b, f) = CanonicalNan(f)
         /\ IsNan(a, f) /\ ~ IsNan(b, f) => Select(op, a, b, f) = b
         /\ ~ IsNan(a, f) /\ IsNan(b, f) => Select(op, a, b, f) = a
         /\ ~ IsNan(a, f) /\ ~ IsNan(b, f) /\ op = "min" =>
              Select(op, a, b, f) = IF Less(a, b, f) \/ (Equal(a, b, f) /\ Neg(a, f)) THEN a ELSE b
         /\ ~ IsNan(a, f) /\ ~ IsNan(b, f) /\ op = "max" =>
              Select(op, a, b, f) = IF Less(b, a, f) \/ (Equal(a, b, f) /\ ~ Neg(a, f)) THEN a ELSE b
<1> DEFINE first == IF op = "min" THEN Less(a, b, f) ELSE Less(b, a, f)
           second == IF op = "min" THEN Less(b, a, f) ELSE Less(a, b, f)
<1>1. IsNan(a, f) /\ IsNan(b, f) => Select(op, a, b, f) = CanonicalNan(f)
  BY Zenon DEF Select
<1>2. IsNan(a, f) /\ ~ IsNan(b, f) => Select(op, a, b, f) = b
  BY Zenon DEF Select
<1>3. ~ IsNan(a, f) /\ IsNan(b, f) => Select(op, a, b, f) = a
  BY Zenon DEF Select
<1>4. ~ IsNan(a, f) /\ ~ IsNan(b, f) =>
        Select(op, a, b, f) = IF first THEN a ELSE IF second THEN b
                              ELSE IF Neg(a, f) = (op = "min") THEN a ELSE b
  BY Zenon DEF Select
<1>5. ~ IsNan(a, f) /\ ~ IsNan(b, f) =>
        /\ Equal(a, b, f) <=> ~ Less(a, b, f) /\ ~ Less(b, a, f)
        /\ ~ (Less(a, b, f) /\ Less(b, a, f))
  <2>1. Key(a, f) \in Int /\ Key(b, f) \in Int
    BY DatumDoes DEF Key
  <2> QED  BY <2>1 DEF Less, Equal
<1>6. Neg(a, f) \in BOOLEAN
  BY DEF Neg
<1>7. CASE op = "min"
  <2>1. (op = "min") = TRUE
    BY <1>7
  <2> QED  BY <1>1, <1>2, <1>3, <1>4, <1>5, <1>6, <1>7
<1>8. CASE op = "max"
  BY <1>1, <1>2, <1>3, <1>4, <1>5, <1>6, <1>8
<1> QED  BY <1>7, <1>8

LEMMA MinMaxExact ==
  ASSUME NEW i, i.op \in {"min", "max"}, NEW f, Fmt(f), NEW a \in Data(f), NEW b \in Data(f),
         IsSignaling(a, f) => IsSnan(a, f), IsSignaling(b, f) => IsSnan(b, f)
  PROVE  LET r == Arch!MinMax(i, a, b, f)
         IN  /\ Select(i.op, a, b, f) = IF r.bits = NaN THEN CanonicalNan(f) ELSE r.bits
             /\ When(IsSnan(a, f) \/ IsSnan(b, f), "NV") = r.flags
             /\ Select(i.op, a, b, f) \in Data(f)
<1> DEFINE flags == IF IsSignaling(a, f) \/ IsSignaling(b, f) THEN {"NV"} ELSE {}
           least == IF Less(a, b, f) \/ (Equal(a, b, f) /\ Neg(a, f)) THEN a ELSE b
           most == IF Less(b, a, f) \/ (Equal(a, b, f) /\ ~ Neg(a, f)) THEN a ELSE b
           r == Arch!MinMax(i, a, b, f)
           s == Select(i.op, a, b, f)
<1>1. r = IF IsNan(a, f) THEN Result(IF IsNan(b, f) THEN NaN ELSE b, flags)
          ELSE IF IsNan(b, f) THEN Result(a, flags)
          ELSE Result(IF i.op = "min" THEN least ELSE most, {})
  BY SameData, SameOrder, SameResult DEF Arch!MinMax
<1>2. /\ IsNan(a, f) /\ IsNan(b, f) => s = CanonicalNan(f)
      /\ IsNan(a, f) /\ ~ IsNan(b, f) => s = b
      /\ ~ IsNan(a, f) /\ IsNan(b, f) => s = a
      /\ ~ IsNan(a, f) /\ ~ IsNan(b, f) /\ i.op = "min" => s = least
      /\ ~ IsNan(a, f) /\ ~ IsNan(b, f) /\ i.op = "max" => s = most
  BY SelectDoes
<1>3. When(IsSnan(a, f) \/ IsSnan(b, f), "NV") = flags
  BY SnanIs DEF When
<1>4. IsSignaling(a, f) \/ IsSignaling(b, f) => IsNan(a, f) \/ IsNan(b, f)
  BY DEF IsSignaling
<1>5. a \in Nat /\ b \in Nat /\ NaN \notin Nat
  BY DatumDoes DEF NaN
<1>6. CanonicalNan(f) \in Data(f)
  BY FormatSizes DEF Data
<1>7. (least = a \/ least = b) /\ (most = a \/ most = b)
  OBVIOUS
<1>8. s \in Data(f)
  BY <1>2, <1>6, <1>7
<1>9. flags = {} \/ IsNan(a, f) \/ IsNan(b, f)
  BY <1>4
<1> HIDE DEF r, s, flags, least, most
<1>10. CASE ~ IsNan(a, f) /\ ~ IsNan(b, f)
  <2>1. flags = {} /\ r.flags = {} /\ r.bits = IF i.op = "min" THEN least ELSE most
    BY <1>1, <1>9, <1>10 DEF Result
  <2>2. s = r.bits /\ r.bits # NaN
    BY <1>2, <1>5, <1>7, <1>10, <2>1
  <2> QED  BY <1>3, <1>8, <2>1, <2>2 DEF r, s
<1>11. CASE IsNan(a, f) \/ IsNan(b, f)
  <2>1. r.flags = flags /\ r.bits = IF IsNan(a, f) THEN IF IsNan(b, f) THEN NaN ELSE b ELSE a
    BY <1>1, <1>11 DEF Result
  <2>2. s = IF r.bits = NaN THEN CanonicalNan(f) ELSE r.bits
    BY <1>2, <1>5, <1>11, <2>1
  <2> QED  BY <1>3, <1>8, <2>1, <2>2 DEF r, s
<1> QED  BY <1>10, <1>11

LEMMA MinMaxStep == ASSUME Issued, Careful, MinMax PROVE Arch!ExecuteFloat
<1> DEFINE f == insn.fmt
           a == A(insn)
           b == B(insn)
           r == Arch!MinMax(insn, a, b, f)
           s == Select(insn.op, a, b, f)
<1>1. /\ insn # None /\ insn' = None /\ insn.op \in {"min", "max"}
      /\ UNCHANGED <<xreg, mem, frm>>
      /\ SetValue(s, f) /\ fflags' = fflags \cup ({} \ {"NV"}) \cup When(IsSnan(a, f) \/ IsSnan(b, f), "NV")
  BY DEF MinMax, Handler, ToFreg, SetExceptions
<1>2. insn.op \notin {"load", "store", "mv.x", "cvt.f"} /\ insn.op \notin Arch!ToXreg \cup {"store"}
  BY <1>1 DEF Arch!ToXreg
<1>3. Exact(insn)
  BY <1>1, <1>2 DEF Issued
<1>4. Reads(insn) = {1, 2}
  BY <1>1, ReadsAre
<1>5. Arch!Operand(insn, 1) = a /\ a \in Data(f) /\ Arch!Operand(insn, 2) = b /\ b \in Data(f)
  BY <1>1, <1>2, <1>3, <1>4, ExactOperands
<1>6. (IsSignaling(a, f) => IsSnan(a, f)) /\ (IsSignaling(b, f) => IsSnan(b, f))
  BY <1>1, <1>3 DEF Exact
<1>7. Fmt(f) /\ f \in {Single, Double}
  BY <1>1, InsnDoes
<1>8. r = Arch!FloatResult(insn)
  BY <1>1, <1>5, FloatResultIs
<1>9. /\ s = IF r.bits = NaN THEN CanonicalNan(f) ELSE r.bits
      /\ When(IsSnan(a, f) \/ IsSnan(b, f), "NV") = r.flags
      /\ s \in Data(f)
  <2> HIDE DEF a, b, f
  <2> QED  BY <1>1, <1>5, <1>6, <1>7, MinMaxExact
<1> HIDE DEF r, s
<1>10. Held(s, f = Single) = Arch!Wide(s, f)
  BY <1>7, <1>9, HeldDoes
<1>11. fflags' = fflags \cup r.flags
  BY <1>1, <1>9
<1> QED  BY <1>1, <1>2, <1>8, <1>9, <1>10, <1>11, FloatStep

LEMMA SignIs ==
  ASSUME NEW i, i.op \in Signs, NEW f, Fmt(f), NEW a \in Data(f), NEW b \in Data(f)
  PROVE  LET neg == CASE i.op = "sgnj" -> Neg(b, f)
                      [] i.op = "sgnjn" -> Neg(Minus(b, f), f)
                      [] i.op = "sgnjx" -> Neg(a, f) # Neg(b, f)
         IN neg = Arch!SignOf(i, a, b, f) /\ neg \in BOOLEAN
<1> DEFINE neg == CASE i.op = "sgnj" -> Neg(b, f)
                    [] i.op = "sgnjn" -> Neg(Minus(b, f), f)
                    [] i.op = "sgnjx" -> Neg(a, f) # Neg(b, f)
<1>1. Neg(Minus(b, f), f) = ~ Neg(b, f) /\ Neg(b, f) \in BOOLEAN
  BY FlipDoes, DatumDoes DEF Minus
<1>2. CASE i.op = "sgnj"
  <2>1. neg = Neg(b, f)
    BY <1>2, Zenon
  <2>2. Arch!SignOf(i, a, b, f) = Arch!Neg(b, f)
    BY <1>2, Zenon DEF Arch!SignOf
  <2> QED  BY <1>1, <2>1, <2>2, SameData
<1>3. CASE i.op = "sgnjn"
  <2>1. neg = Neg(Minus(b, f), f)
    BY <1>3, Zenon
  <2>2. Arch!SignOf(i, a, b, f) = ~ Arch!Neg(b, f)
    BY <1>3, Zenon DEF Arch!SignOf
  <2> QED  BY <1>1, <2>1, <2>2, SameData
<1>4. CASE i.op = "sgnjx"
  <2>1. neg = (Neg(a, f) # Neg(b, f))
    BY <1>4, Zenon
  <2>2. Arch!SignOf(i, a, b, f) = (Arch!Neg(a, f) # Arch!Neg(b, f))
    BY <1>4, Zenon DEF Arch!SignOf
  <2> QED  BY <2>1, <2>2, SameData
<1>5. neg = Arch!SignOf(i, a, b, f) /\ neg \in BOOLEAN
  BY <1>2, <1>3, <1>4 DEF Signs
<1> QED  BY <1>5

LEMMA SignStep == ASSUME Issued, Careful, Sign PROVE Arch!ExecuteFloat
<1> DEFINE f == insn.fmt
           a == A(insn)
           b == B(insn)
           neg == CASE insn.op = "sgnj" -> Neg(b, f)
                    [] insn.op = "sgnjn" -> Neg(Minus(b, f), f)
                    [] insn.op = "sgnjx" -> Neg(a, f) # Neg(b, f)
           v == WithSign(neg, Mag(a, f), f)
           r == Result(v, {})
<1>1. /\ insn # None /\ insn' = None /\ insn.op \in Signs
      /\ UNCHANGED <<xreg, mem, frm>>
      /\ SetValue(v, f) /\ fflags' = fflags \cup ({} \ {"NV"}) \cup {}
  BY DEF Sign, Handler, ToFreg, SetExceptions
<1>2. insn.op \notin {"load", "store", "mv.x", "cvt.f"} /\ insn.op \notin Arch!ToXreg \cup {"store"}
  BY <1>1 DEF Arch!ToXreg, Signs
<1>3. Exact(insn)
  BY <1>1, <1>2 DEF Issued
<1>4. Reads(insn) = {1, 2}
  BY <1>1, ReadsAre
<1>5. Arch!Operand(insn, 1) = a /\ a \in Data(f) /\ Arch!Operand(insn, 2) = b /\ b \in Data(f)
  BY <1>1, <1>2, <1>3, <1>4, ExactOperands
<1>6. Fmt(f) /\ f \in {Single, Double}
  BY <1>1, InsnDoes
<1>7. neg = Arch!SignOf(insn, a, b, f) /\ neg \in BOOLEAN
  <2>1. insn.op \in Signs /\ Fmt(f) /\ a \in Data(f) /\ b \in Data(f)
    BY <1>1, <1>5, <1>6
  <2> HIDE DEF f, a, b
  <2> QED  BY ONLY <2>1, SignIs
<1> HIDE DEF neg
<1>8. r = Arch!FloatResult(insn)
  BY <1>1, <1>5, <1>7, FloatResultIs
<1>9. v \in Data(f) /\ v # NaN
  <2>1. Mag(a, f) \in 0 .. (SignBit(f) - 1)
    BY <1>5, <1>6, DatumDoes
  <2>2. v \in Data(f) /\ v \in Nat
    BY <1>6, <1>7, <2>1, WithSignDoes
  <2> QED  BY <2>2 DEF NaN
<1> HIDE DEF v
<1>10. Held(v, f = Single) = Arch!Wide(v, f)
  BY <1>6, <1>9, HeldDoes
<1>11. fflags' = fflags \cup r.flags /\ r.bits = v
  BY <1>1 DEF Result
<1> HIDE DEF r
<1> QED  BY <1>1, <1>2, <1>8, <1>9, <1>10, <1>11, FloatStep

-----------------------------------------------------------------------------
(* Conversions and moves to a floating-point register *)

LEMMA ConvertFloatStep == ASSUME Issued, Careful, ConvertFloat PROVE Arch!ExecuteFloat
<1> DEFINE f == insn.fmt
           g == Source(insn)
           a == Get(1, g)
           r == Convert(a, "RNE", g, f)
           v == IF r.bits = NaN THEN CanonicalNan(f) ELSE r.bits
           j == [insn EXCEPT !.fmt = Other(f)]
<1>1. /\ insn # None /\ insn' = None /\ insn.op \in {"cvt.f"}
      /\ UNCHANGED <<xreg, mem, frm>>
      /\ SetValue(v, f) /\ fflags' = fflags \cup (r.flags \ {"NV"}) \cup {}
  BY DEF ConvertFloat, Handler, ToFreg, SetExceptions
<1>2. insn.op = "cvt.f" /\ insn.op \notin {"load", "store"} /\ insn.op \notin Arch!ToXreg \cup {"store"}
  BY <1>1 DEF Arch!ToXreg
<1>3. Exact(insn)
  BY <1>1, <1>2 DEF Issued
<1>4. Mode(insn) = "RNE" /\ ~ IsSignaling(a, g)
  BY <1>2, <1>3 DEF Exact
<1>5. g = Other(f)
  BY <1>2 DEF Source
<1>6. Fmt(f) /\ f \in {Single, Double}
  BY <1>1, InsnDoes
<1>7. g \in {Single, Double} /\ Fmt(g)
  BY <1>5, FormatsDo DEF Other
<1>8. Reads(insn) = {1}
  BY <1>2, ReadsAre
<1>9. 1 \in single <=> g = Single
  BY <1>3, <1>8 DEF Exact
<1>10. j.fmt = g
  <2>1. insn \in [op : Operations, fmt : {Single, Double}, rm : Modes \cup {"DYN"},
                  w : {Word, Long}, signed : BOOLEAN]
    BY <1>1, InsnDoes
  <2> QED  BY <1>5, <2>1
<1>11. fregs[1] \in Reg
  BY <1>1 DEF Issued
<1>12. a \in Data(g)
  BY <1>7, <1>11, GetDoes
<1>13. Arch!Operand(j, 1) = a
  <2>1. j.fmt \in {Single, Double} /\ (1 \in single <=> j.fmt = Single)
    BY <1>7, <1>9, <1>10
  <2>2. Arch!Operand(j, 1) = Get(1, j.fmt)
    <3> HIDE DEF j
    <3> QED  BY <1>1, <2>1, OperandIs
  <2> QED  BY <1>10, <2>2
<1>14. Arch!Computed(insn) = r
  <2>1. Arch!Computed(insn) =
          Convert(Arch!Operand([insn EXCEPT !.fmt = Other(f)], 1), Mode(insn), Other(f), f)
    BY <1>2, ComputedIs, Zenon
  <2> HIDE DEF a
  <2> QED  BY <1>4, <1>5, <1>13, <2>1
<1>15. r = Arch!FloatResult(insn)
  BY <1>2, <1>14, FloatResultIs
<1>16. v \in Data(f) /\ "NV" \notin r.flags
  <2>1. CASE IsNan(a, g)
    <3>1. r = Result(NaN, IF IsSignaling(a, g) THEN {"NV"} ELSE {})
      <4> HIDE DEF a, f, g
      <4> QED  BY <1>6, <1>7, <1>12, <2>1, ConvertIsNumber
    <3>2. r.bits = NaN /\ r.flags = {}
      BY <1>4, <3>1 DEF Result
    <3>3. CanonicalNan(f) \in Data(f)
      BY <1>6, FormatSizes DEF Data
    <3> QED  BY <3>2, <3>3
  <2>2. CASE ~ IsNan(a, g)
    <3>1. IsNumber(r, f)
      <4> HIDE DEF a, f, g
      <4> QED  BY <1>6, <1>7, <1>12, <2>2, ConvertIsNumber
    <3> HIDE DEF r
    <3> QED  BY <1>6, <3>1, NumberDoes
  <2> QED  BY <2>1, <2>2
<1> HIDE DEF r, f
<1>17. fflags' = fflags \cup r.flags
  BY <1>1, <1>16
<1>18. Held(v, f = Single) = Arch!Wide(v, f)
  <2> HIDE DEF v
  <2> QED  BY <1>6, <1>16, HeldDoes
<1> QED  BY <1>1, <1>2, <1>15, <1>17, <1>18, FloatStep DEF f

LEMMA FromIntegerStep == ASSUME Issued, Careful, FromInteger PROVE Arch!ExecuteFloat
<1> DEFINE f == insn.fmt
           x == IF insn.signed THEN SignedOf(xreg, insn.w) ELSE Low(xreg, insn.w)
           r == FromInt(x, "RNE", f)
<1>1. /\ insn # None /\ insn' = None /\ insn.op \in {"cvt.from"}
      /\ UNCHANGED <<xreg, mem, frm>>
      /\ SetValue(r.bits, f) /\ fflags' = fflags \cup (r.flags \ {"NV"}) \cup {}
  BY DEF FromInteger, Handler, ToFreg, SetExceptions
<1>2. insn.op = "cvt.from" /\ insn.op \notin {"load", "store"} /\ insn.op \notin Arch!ToXreg \cup {"store"}
  BY <1>1 DEF Arch!ToXreg
<1>3. Mode(insn) = "RNE"
  <2>1. Exact(insn)
    BY <1>1, <1>2 DEF Issued
  <2> QED  BY <1>2, <2>1 DEF Exact
<1>4. Fmt(f) /\ f \in {Single, Double} /\ insn.w \in Nat
  BY <1>1, InsnDoes
<1>5. xreg \in Int
  BY <1>1, RegIsInt DEF Issued
<1>6. x \in Int
  <2>1. PICK n \in Nat : n = insn.w
    BY <1>4
  <2>2. Low(xreg, n) \in Int /\ 2^n \in Int
    BY <1>5, LowDoes
  <2> QED  BY <2>1, <2>2 DEF SignedOf
<1>7. Arch!Computed(insn) = r
  <2>1. Arch!Computed(insn) = FromInt(x, Mode(insn), f)
    BY <1>2, ComputedIs, Zenon
  <2> HIDE DEF x
  <2> QED  BY <1>3, <2>1
<1>8. r = Arch!FloatResult(insn)
  BY <1>2, <1>7, FloatResultIs
<1>9. r.bits \in Data(f) /\ r.bits # NaN /\ "NV" \notin r.flags
  <2>1. IsNumber(r, f)
    <3> HIDE DEF x, f
    <3> QED  BY <1>4, <1>6, FromIntIsNumber
  <2> HIDE DEF r
  <2> QED  BY <1>4, <2>1, NumberDoes
<1> HIDE DEF r, f
<1>10. fflags' = fflags \cup r.flags
  BY <1>1, <1>9
<1>11. Held(r.bits, f = Single) = Arch!Wide(r.bits, f)
  BY <1>4, <1>9, HeldDoes
<1> QED  BY <1>1, <1>2, <1>8, <1>9, <1>10, <1>11, FloatStep DEF f

LEMMA MoveToFStep == ASSUME Issued, Careful, MoveToF PROVE Arch!ExecuteFloat
<1> DEFINE f == insn.fmt
           u == Low(xreg, Width(f))
           r == Result(u, {})
<1>1. /\ insn # None /\ insn' = None /\ insn.op \in {"mv.f"}
      /\ UNCHANGED <<xreg, mem, frm>>
      /\ SetValue(xreg, f) /\ fflags' = fflags \cup ({} \ {"NV"}) \cup {}
  BY DEF MoveToF, Handler, ToFreg, SetExceptions
<1>2. insn.op = "mv.f" /\ insn.op \notin Arch!ToXreg \cup {"store"}
  BY <1>1 DEF Arch!ToXreg
<1>3. Fmt(f) /\ f \in {Single, Double} /\ Width(f) \in Nat
  BY <1>1, InsnDoes, FormatSizes
<1>4. xreg \in Reg /\ xreg \in Int /\ xreg \in 0 .. (2^XLEN - 1)
  BY <1>1, RegIsInt DEF Issued
<1>5. r = Arch!FloatResult(insn)
  BY <1>2, FloatResultIs
<1>6. r.bits = u /\ r.flags = {}
  BY DEF Result
<1>7. u \in Nat /\ u # NaN
  BY <1>3, <1>4, LowDoes DEF NaN
<1>8. Held(xreg, f = Single) = Arch!Wide(u, f)
  <2>1. CASE f = Single
    <3>1. Boxed(xreg) = Arch!Boxed(Low(xreg, Width(Single)))
      BY <1>4, BoxDoes
    <3> QED  BY <2>1, <3>1 DEF Held, Arch!Wide
  <2>2. CASE f # Single
    <3>1. Width(f) = XLEN /\ XLEN \in Nat
      BY <1>3, <2>2, FormatsDo
    <3>2. u = xreg
      BY <1>4, <3>1, LowFixed
    <3> QED  BY <2>2, <3>2 DEF Held, Arch!Wide
  <2> QED  BY <2>1, <2>2
<1> HIDE DEF r, u, f
<1>9. fflags' = fflags \cup r.flags
  BY <1>1, <1>6
<1>10. Held(xreg, f = Single) = Arch!Wide(IF r.bits = NaN THEN CanonicalNan(f) ELSE r.bits, f)
  BY <1>6, <1>7, <1>8
<1> QED  BY <1>1, <1>2, <1>5, <1>9, <1>10, FloatStep DEF f

LEMMA LoadStep == ASSUME Issued, Careful, Load PROVE Arch!ExecuteFloat
<1> DEFINE f == insn.fmt
           m == Held(mem, 4 \in single)
           u == Low(m, Width(f))
           r == Result(u, {})
           v == IF f = Single THEN Boxed(mem) ELSE mem
           g == IF f = Single \/ 4 \in single THEN Single ELSE Double
<1>1. /\ insn # None /\ insn' = None /\ insn.op \in {"load"}
      /\ UNCHANGED <<xreg, mem, frm>> /\ fflags' = fflags \cup ({} \ {"NV"}) \cup {}
      /\ IF f = Single THEN SetValue(Boxed(mem), Single)
         ELSE SetValue(mem, IF 4 \in single THEN Single ELSE Double)
  BY DEF Load, Handler, ToFreg, SetExceptions
<1>2. SetValue(v, g)
  BY <1>1
<1>3. insn.op = "load" /\ insn.op \notin Arch!ToXreg \cup {"store"}
  BY <1>1 DEF Arch!ToXreg
<1>4. Fmt(f) /\ f \in {Single, Double} /\ Width(f) \in Nat /\ Single # Double
  BY <1>1, InsnDoes, FormatSizes, FormatsDo
<1>5. mem \in Reg /\ mem \in Int
  BY <1>1, RegIsInt DEF Issued
<1>6. Boxed(mem) \in Reg /\ Boxed(Boxed(mem)) = Boxed(mem) /\ Low(Boxed(mem), Width(Single)) = Low(mem, Width(Single))
      /\ Boxed(mem) = Arch!Boxed(Low(mem, Width(Single)))
  BY <1>5, BoxDoes
<1>7. m \in Reg /\ m \in Int /\ m \in 0 .. (2^XLEN - 1)
  <2>1. m \in Reg
    BY <1>5, <1>6 DEF Held
  <2> QED  BY <2>1, RegIsInt
<1>8. r = Arch!FloatResult(insn)
  BY <1>3, FloatResultIs
<1>9. r.bits = u /\ r.flags = {}
  BY DEF Result
<1>10. u \in Nat /\ u # NaN
  <2> HIDE DEF m
  <2> QED  BY <1>4, <1>7, LowDoes DEF NaN
<1>11. Held(v, g = Single) = Arch!Wide(u, f)
  <2>1. CASE f = Single
    <3>1. u = Low(mem, Width(Single))
      BY <2>1, <1>6 DEF Held
    <3>2. Held(v, g = Single) = Boxed(Boxed(mem))
      BY <2>1 DEF Held
    <3>3. Arch!Wide(u, f) = Arch!Boxed(u)
      BY <2>1 DEF Arch!Wide
    <3> QED  BY <1>6, <3>1, <3>2, <3>3
  <2>2. CASE f # Single
    <3>1. Width(f) = XLEN /\ XLEN \in Nat
      BY <1>4, <2>2, FormatsDo
    <3>2. u = m
      <4> HIDE DEF m
      <4> QED  BY <1>7, <3>1, LowFixed
    <3>3. Held(v, g = Single) = m
      BY <1>4, <2>2 DEF Held
    <3>4. Arch!Wide(u, f) = u
      BY <2>2 DEF Arch!Wide
    <3> QED  BY <3>2, <3>3, <3>4
  <2> QED  BY <2>1, <2>2
<1> HIDE DEF r, u, f, v, g
<1>12. fflags' = fflags \cup r.flags
  BY <1>1, <1>9
<1>13. Held(v, g = Single) = Arch!Wide(IF r.bits = NaN THEN CanonicalNan(f) ELSE r.bits, f)
  BY <1>9, <1>10, <1>11
<1> QED  BY <1>1, <1>2, <1>3, <1>8, <1>12, <1>13, FloatStep DEF f

-----------------------------------------------------------------------------
(* Results in an integer register *)

LEMMA IntResultIs ==
  ASSUME NEW i, NEW a, NEW f, f = i.fmt, a = Arch!Operand(i, 1)
  PROVE  /\ i.op = "cvt.w" =>
              Arch!IntResult(i) =
                Result(Low(IF i.w = Word THEN SignedOf(Arch!Integer(i, a, f).bits, Word)
                           ELSE Arch!Integer(i, a, f).bits, XLEN), Arch!Integer(i, a, f).flags)
         /\ i.op \in Compares => Arch!IntResult(i) = Arch!Compared(i, a, Arch!Operand(i, 2), f)
         /\ i.op = "class" => Arch!IntResult(i) = Result(Arch!Class(a, f), {})
         /\ i.op = "mv.x" => Arch!IntResult(i) = Result(Low(SignedOf(ArchFregs[1], Width(f)), XLEN), {})
<1> DEFINE int == Arch!Integer(i, a, f)
<1>1. i.op = "cvt.w" =>
        Arch!IntResult(i) =
          Arch!Result(Arch!Low(IF i.w = Word THEN Arch!SignedOf(int.bits, Word) ELSE int.bits, Arch!XLEN), int.flags)
  BY Zenon DEF Arch!IntResult
<1>2. i.op \in Compares => Arch!IntResult(i) = Arch!Compared(i, a, Arch!Operand(i, 2), f)
  <2>1. i.op \in Compares => i.op \in {"lt", "le", "eq"} /\ i.op # "cvt.w"
    BY DEF Compares
  <2> QED  BY <2>1, Zenon DEF Arch!IntResult
<1>3. i.op = "class" => Arch!IntResult(i) = Arch!Result(Arch!Class(a, f), {})
  BY Zenon DEF Arch!IntResult
<1>4. i.op = "mv.x" =>
        Arch!IntResult(i) = Arch!Result(Arch!Low(Arch!SignedOf(ArchFregs[1], Arch!Width(f)), Arch!XLEN), {})
  BY Zenon DEF Arch!IntResult
<1>5. /\ \A v, n : Arch!Low(v, n) = Low(v, n) /\ Arch!SignedOf(v, n) = SignedOf(v, n)
      /\ \A x, y : Arch!Result(x, y) = Result(x, y)
      /\ Arch!XLEN = XLEN /\ Arch!Width(f) = Width(f)
  BY SameLow, SameResult, SameNames, SameData
<1> HIDE DEF int
<1> QED  BY <1>1, <1>2, <1>3, <1>4, <1>5 DEF int

LEMMA CompareStep == ASSUME Issued, Careful, Compare PROVE Arch!ExecuteInt
<1> DEFINE f == insn.fmt
           a == A(insn)
           b == B(insn)
           op == insn.op
           holds == \/ op # "eq" /\ Less(a, b, f)
                    \/ op # "lt" /\ Equal(a, b, f)
           invalid == IF op = "eq" THEN IsSnan(a, f) \/ IsSnan(b, f)
                      ELSE IsNan(a, f) \/ IsNan(b, f)
           nan == IsNan(a, f) \/ IsNan(b, f)
           signaling == IsSignaling(a, f) \/ IsSignaling(b, f)
           r == Result(IF holds THEN 1 ELSE 0, IF signaling \/ (nan /\ op # "eq") THEN {"NV"} ELSE {})
<1>1. /\ insn # None /\ insn' = None /\ op \in Compares
      /\ UNCHANGED <<fregs, single, mem, frm>>
      /\ xreg' = (IF holds THEN 1 ELSE 0) /\ fflags' = fflags \cup ({} \ {"NV"}) \cup When(invalid, "NV")
  BY DEF Compare, Handler, ToXreg, SetExceptions
<1>2. op \notin {"load", "store", "mv.x", "cvt.f"} /\ op \in Arch!ToXreg /\ op \in {"lt", "le", "eq"}
  BY <1>1 DEF Arch!ToXreg, Compares
<1>3. Exact(insn)
  BY <1>1, <1>2 DEF Issued
<1>4. Reads(insn) = {1, 2}
  BY <1>1, ReadsAre
<1>5. Arch!Operand(insn, 1) = a /\ a \in Data(f) /\ Arch!Operand(insn, 2) = b /\ b \in Data(f)
  BY <1>1, <1>2, <1>3, <1>4, ExactOperands
<1>6. op = "eq" => (IsSignaling(a, f) => IsSnan(a, f)) /\ (IsSignaling(b, f) => IsSnan(b, f))
  BY <1>3 DEF Exact
<1>7. Fmt(f) /\ f \in {Single, Double}
  BY <1>1, InsnDoes
<1>8. When(invalid, "NV") = IF signaling \/ (nan /\ op # "eq") THEN {"NV"} ELSE {}
  <2>1. signaling => nan
    BY DEF IsSignaling
  <2>2. CASE op = "eq"
    <3> HIDE DEF a, b, f, op
    <3>1. invalid <=> signaling
      BY <1>5, <1>6, <1>7, <2>2, SnanIs
    <3> QED  BY <2>2, <3>1 DEF When
  <2>3. CASE op # "eq"
    BY <2>1, <2>3 DEF When
  <2> QED  BY <2>2, <2>3
<1>9. Arch!Compared(insn, a, b, f) = r
  <2>1. Arch!Compared(insn, a, b, f) =
          Result(IF (op \in {"lt", "le"} /\ Less(a, b, f)) \/ (op \in {"eq", "le"} /\ Equal(a, b, f)) THEN 1 ELSE 0,
                 IF signaling \/ (nan /\ op # "eq") THEN {"NV"} ELSE {})
    BY SameData, SameOrder, SameResult DEF Arch!Compared
  <2>2. (op \in {"lt", "le"} /\ Less(a, b, f)) \/ (op \in {"eq", "le"} /\ Equal(a, b, f)) <=> holds
    BY <1>2
  <2> HIDE DEF holds, signaling, nan
  <2> QED  BY <2>1, <2>2
<1>10. Arch!IntResult(insn) = r
  BY <1>1, <1>5, <1>9, IntResultIs
<1>11. r.bits = (IF holds THEN 1 ELSE 0) /\ r.flags = When(invalid, "NV")
  <2> HIDE DEF holds, invalid, signaling, nan
  <2> QED  BY <1>8 DEF Result
<1> HIDE DEF r, holds, invalid
<1>12. xreg' = Arch!IntResult(insn).bits /\ fflags' = fflags \cup Arch!IntResult(insn).flags
  BY <1>1, <1>10, <1>11
<1> QED  BY <1>1, <1>2, <1>12, IntStep

LEMMA ClassDoes ==
  ASSUME NEW f, Fmt(f), NEW a \in Data(f), IsSignaling(a, f) => IsSnan(a, f)
  PROVE  FClass(a, f) = Arch!Class(a, f)
<1> DEFINE g == Mag(a, f)
           neg == Neg(a, f)
           sub == g \in 1 .. (2^f.m - 1)
<1>1. /\ Infinity(f) \in Nat /\ 2^f.m \in Nat \ {0} /\ Infinity(f) > 2^f.m /\ g \in Nat
  BY FormatSizes, DatumDoes
<1>2. /\ IsInf(a, f) <=> g = Infinity(f)
      /\ IsZero(a, f) <=> g = 0
      /\ IsNan(a, f) <=> g > Infinity(f)
      /\ sub <=> ~ IsZero(a, f) /\ g < 2^f.m
  BY <1>1 DEF IsInf, IsZero, IsNan
<1>3. /\ ~ (IsInf(a, f) /\ IsZero(a, f)) /\ ~ (IsInf(a, f) /\ IsNan(a, f)) /\ ~ (IsInf(a, f) /\ sub)
      /\ ~ (IsZero(a, f) /\ IsNan(a, f)) /\ ~ (IsZero(a, f) /\ sub) /\ ~ (IsNan(a, f) /\ sub)
  BY <1>1, <1>2
<1>4. IsSnan(a, f) <=> IsSignaling(a, f)
  BY SnanIs
<1> DEFINE kind == CASE Arch!IsInf(a, f) -> 0
                     [] Arch!IsZero(a, f) -> 3
                     [] ~ Arch!IsZero(a, f) /\ Arch!Mag(a, f) < 2^f.m -> 2
                     [] OTHER -> 1
           akind == CASE IsInf(a, f) -> 0
                      [] IsZero(a, f) -> 3
                      [] ~ IsZero(a, f) /\ g < 2^f.m -> 2
                      [] OTHER -> 1
<1>5. Arch!Class(a, f) = IF IsNan(a, f) THEN 2^(IF IsSignaling(a, f) THEN 8 ELSE 9)
                         ELSE 2^(IF neg THEN kind ELSE 7 - kind)
  <2>1. Arch!IsNan(a, f) = IsNan(a, f) /\ Arch!IsSignaling(a, f) = IsSignaling(a, f) /\ Arch!Neg(a, f) = neg
    BY SameData
  <2>2. Arch!Class(a, f) = IF Arch!IsNan(a, f) THEN 2^(IF Arch!IsSignaling(a, f) THEN 8 ELSE 9)
                           ELSE 2^(IF Arch!Neg(a, f) THEN kind ELSE 7 - kind)
    BY Zenon DEF Arch!Class
  <2> HIDE DEF kind, neg
  <2> QED  BY <2>1, <2>2
<1>6. /\ Arch!IsInf(a, f) <=> IsInf(a, f)
      /\ Arch!IsZero(a, f) <=> IsZero(a, f)
      /\ Arch!Mag(a, f) = g
  BY SameData
<1>7. CASE IsNan(a, f)
  <2>1. FClass(a, f) = 2^(IF IsSnan(a, f) THEN 8 ELSE 9)
    BY <1>3, <1>7, Zenon DEF FClass
  <2> HIDE DEF kind
  <2> QED  BY <1>4, <1>5, <1>7, <2>1
<1>8. CASE IsInf(a, f)
  <2>1. FClass(a, f) = 2^(IF neg THEN 0 ELSE 7)
    BY <1>3, <1>8, Zenon DEF FClass
  <2>2. kind = 0
    <3>1. ~ (~ Arch!IsZero(a, f) /\ Arch!Mag(a, f) < 2^f.m) /\ ~ Arch!IsZero(a, f)
      BY <1>2, <1>3, <1>6, <1>8
    <3> QED  BY <1>6, <1>8, <3>1, Zenon
  <2> HIDE DEF kind, neg
  <2> QED  BY <1>3, <1>5, <1>8, <2>1, <2>2
<1>9. CASE IsZero(a, f)
  <2>1. FClass(a, f) = 2^(IF neg THEN 3 ELSE 4)
    BY <1>3, <1>9, Zenon DEF FClass
  <2>2. kind = 3
    <3>1. ~ Arch!IsInf(a, f) /\ Arch!IsZero(a, f)
      BY <1>3, <1>6, <1>9
    <3> QED  BY <3>1, Zenon
  <2> HIDE DEF kind, neg
  <2>3. 7 - kind = 4
    BY <2>2
  <2> QED  BY <1>3, <1>5, <1>9, <2>1, <2>2, <2>3
<1>10. CASE sub
  <2>1. FClass(a, f) = 2^(IF neg THEN 2 ELSE 5)
    BY <1>3, <1>10, Zenon DEF FClass
  <2>2. kind = 2
    <3>1. ~ Arch!IsInf(a, f) /\ ~ Arch!IsZero(a, f) /\ Arch!Mag(a, f) < 2^f.m
      BY <1>2, <1>3, <1>6, <1>10
    <3> QED  BY <3>1, Zenon
  <2> HIDE DEF kind, neg
  <2>3. 7 - kind = 5
    BY <2>2
  <2> QED  BY <1>3, <1>5, <1>10, <2>1, <2>2, <2>3
<1>11. CASE ~ IsNan(a, f) /\ ~ IsInf(a, f) /\ ~ IsZero(a, f) /\ ~ sub
  <2>1. FClass(a, f) = 2^(IF neg THEN 1 ELSE 6)
    BY <1>11, Zenon DEF FClass
  <2>2. kind = 1
    <3>1. ~ Arch!IsInf(a, f) /\ ~ Arch!IsZero(a, f) /\ ~ (Arch!Mag(a, f) < 2^f.m)
      BY <1>2, <1>6, <1>11
    <3> QED  BY <3>1, Zenon
  <2> HIDE DEF kind, neg
  <2>3. 7 - kind = 6
    BY <2>2
  <2> QED  BY <1>5, <1>11, <2>1, <2>2, <2>3
<1> QED  BY <1>7, <1>8, <1>9, <1>10, <1>11

LEMMA ClassifyStep == ASSUME Issued, Careful, Classify PROVE Arch!ExecuteInt
<1> DEFINE f == insn.fmt
           a == A(insn)
           r == Result(Arch!Class(a, f), {})
<1>1. /\ insn # None /\ insn' = None /\ insn.op \in {"class"}
      /\ UNCHANGED <<fregs, single, mem, frm>>
      /\ xreg' = FClass(a, f) /\ fflags' = fflags \cup ({} \ {"NV"}) \cup {}
  BY DEF Classify, Handler, ToXreg, SetExceptions
<1>2. insn.op = "class" /\ insn.op \notin {"load", "store", "mv.x", "cvt.f"} /\ insn.op \in Arch!ToXreg
  BY <1>1 DEF Arch!ToXreg
<1>3. Exact(insn)
  BY <1>1, <1>2 DEF Issued
<1>4. Reads(insn) = {1}
  BY <1>2, ReadsAre
<1>5. Arch!Operand(insn, 1) = a /\ a \in Data(f)
  BY <1>1, <1>2, <1>3, <1>4, ExactOperands
<1>6. IsSignaling(a, f) => IsSnan(a, f)
  BY <1>2, <1>3 DEF Exact
<1>7. Fmt(f)
  BY <1>1, InsnDoes
<1>8. FClass(a, f) = Arch!Class(a, f)
  BY <1>5, <1>6, <1>7, ClassDoes
<1>9. Arch!IntResult(insn) = r
  BY <1>2, <1>5, IntResultIs
<1>10. r.bits = Arch!Class(a, f) /\ r.flags = {}
  BY DEF Result
<1> HIDE DEF r, a, f
<1> QED  BY <1>1, <1>2, <1>8, <1>9, <1>10, IntStep

LEMMA MoveToXStep == ASSUME Issued, Careful, MoveToX PROVE Arch!ExecuteInt
<1> DEFINE f == insn.fmt
           v == fregs[1]
           r == Result(Low(SignedOf(ArchFregs[1], Width(f)), XLEN), {})
<1>1. /\ insn # None /\ insn' = None /\ insn.op \in {"mv.x"}
      /\ UNCHANGED <<fregs, single, mem, frm>>
      /\ xreg' = Low(SignedOf(v, Width(f)), XLEN) /\ fflags' = fflags \cup ({} \ {"NV"}) \cup {}
  BY DEF MoveToX, Handler, ToXreg, SetExceptions
<1>2. insn.op = "mv.x" /\ insn.op \notin {"load", "store", "cvt.f"} /\ insn.op \in Arch!ToXreg
  BY <1>1 DEF Arch!ToXreg
<1>3. Exact(insn)
  BY <1>1, <1>2 DEF Issued
<1>4. f \in {Single, Double}
  BY <1>1, InsnDoes
<1>5. v \in Reg /\ v \in Int
  BY <1>1, RegIsInt DEF Issued
<1>6. ArchFregs[1] = Held(v, 1 \in single)
  BY <1>1, ArchRegister
<1>7. SignedOf(ArchFregs[1], Width(f)) = SignedOf(v, Width(f))
  <2>1. CASE f = Single
    <3>1. Low(Boxed(v), Width(Single)) = Low(v, Width(Single))
      BY <1>5, BoxDoes
    <3>2. Low(ArchFregs[1], Width(f)) = Low(v, Width(f))
      BY <1>6, <2>1, <3>1 DEF Held
    <3> QED  BY <3>2 DEF SignedOf
  <2>2. CASE f # Single
    <3>1. f = Double /\ Source(insn) = f /\ Single # Double
      BY <1>2, <1>4, <2>2, FormatsDo DEF Source
    <3>2. Reads(insn) = {1}
      BY <1>2, <3>1, ReadsAre
    <3>3. 1 \notin single
      BY <1>3, <3>1, <3>2 DEF Exact
    <3> QED  BY <1>6, <3>3 DEF Held
  <2> QED  BY <2>1, <2>2
<1>8. Arch!IntResult(insn) = r
  BY <1>2, IntResultIs
<1>9. r.bits = Low(SignedOf(ArchFregs[1], Width(f)), XLEN) /\ r.flags = {}
  BY DEF Result
<1> HIDE DEF r, v, f
<1> QED  BY <1>1, <1>2, <1>7, <1>8, <1>9, IntStep

(* The integer that a careful program converts to, and its range *)
LEMMA RangeDoes ==
  ASSUME NEW i, Fmt(i.fmt), i.w \in Nat \ {0}, i.w < 2^(i.fmt.e - 1), i.signed \in BOOLEAN
  PROVE  MaxAs(i) \in Int /\ MaxAs(i) <= IntMax(i) + 1 /\ IntMin(i) \in Int /\ IntMax(i) \in Int
<1> DEFINE f == i.fmt
<1>1. PICK p \in Nat : p = IF i.signed THEN i.w - 1 ELSE i.w
  OBVIOUS
<1>2. 2^p \in Nat \ {0}
  BY PowerIsPositive
<1>3. IntMax(i) = 2^p - 1
  BY <1>1 DEF IntMax
<1>4. i.w - 1 \in Nat
  OBVIOUS
<1>5. 2^(i.w - 1) \in Nat
  <2>1. PICK k \in Nat : k = i.w - 1
    BY <1>4
  <2>2. 2^k \in Nat
    BY PowerIsPositive
  <2> QED  BY <2>1, <2>2
<1>6. IntMin(i) \in Int
  BY <1>5 DEF IntMin
<1>7. p < 2^(f.e - 1)
  <2>1. f.e - 1 \in Nat
    BY DEF Fmt
  <2>2. PICK k \in Nat : k = f.e - 1
    BY <2>1
  <2>3. 2^k \in Nat
    BY PowerIsPositive
  <2>4. 2^(f.e - 1) \in Nat
    BY <2>2, <2>3
  <2> QED  BY <1>1, <2>4
<1>8. MaxAs(i) = ToInt(FromInt(2^p - 1, "RNE", f).bits, "RTZ", f)
  BY <1>3 DEF MaxAs
<1>9. MaxAs(i) \in Int /\ MaxAs(i) <= 2^p
  <2> HIDE DEF f
  <2>1. Fmt(f)
    BY DEF f
  <2> QED  BY <1>7, <1>8, <2>1, LimitDoes
<1> QED  BY <1>2, <1>3, <1>6, <1>9

LEMMA ToIntegerIs ==
  ASSUME Issued, insn # None, Exact(insn), insn.op = "cvt.w"
  PROVE  LET f == insn.fmt  a == A(insn)  v == ToInt(a, CvtMode(insn.rm), f)
         IN  /\ Finite(a, f) /\ ~ OutOfRange(insn) /\ Arch!Operand(insn, 1) = a
             /\ Arch!Integer(insn, a, f) = Result(v, IF IsInteger(a, f) THEN {} ELSE {"NX"})
<1> DEFINE f == insn.fmt
           a == A(insn)
           v == ToInt(a, CvtMode(insn.rm), f)
<1>1. insn.op \notin {"mv.x", "cvt.f"} /\ Reads(insn) = {1}
  BY ReadsAre
<1>2. Arch!Operand(insn, 1) = a /\ a \in Data(f)
  BY <1>1, ExactOperands
<1>3. ~ OutOfRange(insn)
  BY DEF Exact
<1>4. Finite(a, f) /\ ~ (v < IntMin(insn)) /\ ~ (v >= MaxAs(insn))
  BY <1>3, Zenon DEF OutOfRange
<1>5. Fmt(f) /\ insn.w \in Nat \ {0} /\ insn.w < 2^(f.e - 1) /\ insn.signed \in BOOLEAN
  BY InsnDoes
<1>6. MaxAs(insn) \in Int /\ MaxAs(insn) <= IntMax(insn) + 1 /\ IntMin(insn) \in Int /\ IntMax(insn) \in Int
  BY <1>5, RangeDoes
<1>7. v \in Int
  <2> HIDE DEF a, f
  <2> QED  BY <1>2, <1>5, ToIntDoes
<1>8. ~ (v < IntMin(insn)) /\ ~ (v > IntMax(insn))
  <2> HIDE DEF v
  <2> QED  BY <1>4, <1>6, <1>7
<1>9. v = ToInt(a, Mode(insn), f)
  <2>1. \/ CvtMode(insn.rm) = Mode(insn)
        \/ insn.rm = "RNE" /\ ~ Tie(a, f)
    BY Zenon DEF Exact, Tie
  <2>2. CASE insn.rm = "RNE" /\ ~ Tie(a, f)
    <3>1. Mode(insn) = "RNE"
      BY <2>2 DEF Mode
    <3>2. CvtMode(insn.rm) = "RMM"
      <4>1. insn.rm \in {"RNE", "RMM"} /\ insn.rm \notin {"RUP", "DYN"} /\ insn.rm \notin {"RTZ", "RDN"}
        BY <2>2
      <4> QED  BY <4>1, Zenon DEF CvtMode
    <3>3. ToInt(a, "RNE", f) = ToInt(a, "RMM", f)
      <4> HIDE DEF a, f
      <4> QED  BY <1>2, <1>5, <2>2, NearestOffTies
    <3> QED  BY <3>1, <3>2, <3>3
  <2> QED  BY <2>1, <2>2
<1>10. Arch!Integer(insn, a, f) = Result(v, IF IsInteger(a, f) THEN {} ELSE {"NX"})
  <2> DEFINE min == IF insn.signed THEN -(2^(insn.w - 1)) ELSE 0
             max == IF insn.signed THEN 2^(insn.w - 1) - 1 ELSE 2^insn.w - 1
             u == Arch!ToInt(a, Arch!Mode(insn), f)
  <2>1. Arch!Integer(insn, a, f) =
          IF Arch!IsNan(a, f) \/ (~ Arch!Neg(a, f) /\ (Arch!IsInf(a, f) \/ u > max)) THEN Arch!Result(max, {"NV"})
          ELSE IF Arch!IsInf(a, f) \/ u < min THEN Arch!Result(min, {"NV"})
          ELSE Arch!Result(u, IF Arch!IsInteger(a, f) THEN {} ELSE {"NX"})
    BY Zenon DEF Arch!Integer
  <2>2. ~ Arch!IsNan(a, f) /\ ~ Arch!IsInf(a, f)
    BY <1>4, SameData DEF Finite
  <2>3. u = v
    BY <1>9, SameToInt, SameNames
  <2>4. min = IntMin(insn) /\ max = IntMax(insn)
    BY DEF IntMin, IntMax
  <2> HIDE DEF u, min, max, v
  <2>5. ~ (u > max) /\ ~ (u < min)
    BY <1>8, <2>3, <2>4
  <2>6. Arch!Integer(insn, a, f) = Arch!Result(u, IF Arch!IsInteger(a, f) THEN {} ELSE {"NX"})
    BY <2>1, <2>2, <2>5, Zenon
  <2>7. Arch!IsInteger(a, f) = IsInteger(a, f)
    BY SameToInt
  <2> QED  BY <2>3, <2>6, <2>7, SameResult
<1> QED  BY <1>2, <1>3, <1>4, <1>10

LEMMA ToIntegerStep == ASSUME Issued, Careful, ToInteger PROVE Arch!ExecuteInt
<1> DEFINE f == insn.fmt
           a == A(insn)
           v == ToInt(a, CvtMode(insn.rm), f)
           changed == IsNan(a, f) \/ (Finite(a, f) /\ ~ IsInteger(a, f))
           low == Low(IF insn.w = Word THEN SignedOf(v, Word) ELSE v, XLEN)
           flags == IF IsInteger(a, f) THEN {} ELSE {"NX"}
<1>1. /\ insn # None /\ insn' = None /\ insn.op \in {"cvt.w"}
      /\ UNCHANGED <<fregs, single, mem, frm>>
  BY DEF ToInteger, Handler, ToXreg
<1>2. insn.op = "cvt.w" /\ insn.op \notin {"load", "store"} /\ insn.op \in Arch!ToXreg
  BY <1>1 DEF Arch!ToXreg
<1>3. Exact(insn)
  BY <1>1, <1>2 DEF Issued
<1>4. /\ Finite(a, f) /\ ~ OutOfRange(insn) /\ Arch!Operand(insn, 1) = a
      /\ Arch!Integer(insn, a, f) = Result(v, flags)
  BY <1>1, <1>2, <1>3, ToIntegerIs
<1>5. xreg' = low
  BY <1>4 DEF ToInteger
<1>6. fflags' = fflags \cup flags
  <2>1. fflags' = fflags \cup ({} \ {"NV"}) \cup (When(changed, "NX") \cup When(OutOfRange(insn), "NV"))
    BY DEF ToInteger, SetExceptions
  <2>2. When(OutOfRange(insn), "NV") = {}
    BY <1>4 DEF When
  <2>3. ~ IsNan(a, f)
    BY <1>4 DEF Finite
  <2>4. When(changed, "NX") = flags
    BY <1>4, <2>3 DEF When
  <2> HIDE DEF flags, changed
  <2> QED  BY <2>1, <2>2, <2>4
<1> DEFINE int == Arch!Integer(insn, a, f)
<1>7. int.bits = v /\ int.flags = flags
  <2> HIDE DEF v, flags
  <2> QED  BY <1>4 DEF Result
<1>8. Arch!IntResult(insn) =
        Result(Low(IF insn.w = Word THEN SignedOf(int.bits, Word) ELSE int.bits, XLEN), int.flags)
  BY <1>2, <1>4, IntResultIs
<1> HIDE DEF int, v, flags
<1>9. Arch!IntResult(insn).bits = low /\ Arch!IntResult(insn).flags = flags
  BY <1>7, <1>8 DEF Result
<1> HIDE DEF low
<1> QED  BY <1>1, <1>2, <1>5, <1>6, <1>9, IntStep

-----------------------------------------------------------------------------
(* Memory and page faults *)

LEMMA StoreStep == ASSUME Issued, Store PROVE Arch!Store
<1> DEFINE w == Width(Single)
           u == Low(mem, w)
           b == Low(fregs[2], w)
           amem == Held(mem, 4 \in single)
<1>1. /\ insn # None /\ insn' = None /\ insn.op \in {"store"}
      /\ UNCHANGED <<fregs, xreg, frm>> /\ fflags' = fflags \cup ({} \ {"NV"}) \cup {}
      /\ mem' = (IF insn.fmt = Single THEN mem - Low(mem, w) + B(insn) ELSE B(insn))
      /\ single' = (IF insn.fmt = Single THEN single
                    ELSE IF 2 \in single THEN single \cup {4} ELSE single \ {4})
  BY DEF Store, Handler, SetExceptions
<1>2. \A r \in 0 .. 3 : r \in single' <=> r \in single
  BY <1>1
<1>3. ArchFregs' = ArchFregs
  BY <1>1, <1>2, FregsKept
<1>4. insn.fmt \in {Single, Double} /\ Single # Double /\ w \in Nat
  BY <1>1, InsnDoes, FormatsDo
<1>5. fregs[2] \in Reg /\ fregs[2] \in Int /\ mem \in Reg /\ mem \in Int
  BY <1>1, RegIsInt DEF Issued
<1>6. ArchFregs[2] = Held(fregs[2], 2 \in single)
  BY <1>1, ArchRegister
<1>7. Held(mem, 4 \in single)' = Held(mem', 4 \in single')
  BY DEF Held, Boxed, Low, XLEN, Width
<1>8. CASE insn.fmt # Single
  <2>1. insn.fmt = Double /\ B(insn) = fregs[2]
    BY <1>4, <1>5, <1>8, GetDoes DEF B
  <2>2. mem' = fregs[2] /\ (4 \in single' <=> 2 \in single)
    BY <1>1, <1>8, <2>1
  <2>3. Held(mem', 4 \in single') = ArchFregs[2]
    BY <1>6, <2>2 DEF Held
  <2> QED  BY <1>1, <1>3, <1>7, <2>1, <2>3 DEF Arch!Store
<1>9. CASE insn.fmt = Single
  <2>1. B(insn) = b /\ mem' = mem - u + b /\ single' = single
    BY <1>1, <1>9 DEF B, Get
  <2>2. Low(ArchFregs[2], w) = b
    <3>1. Low(Boxed(fregs[2]), w) = b
      BY <1>5, BoxDoes
    <3> QED  BY <1>6, <3>1 DEF Held
  <2>3. b \in 0 .. (2^w - 1) /\ u \in 0 .. (2^w - 1) /\ 2^w \in Nat \ {0}
    BY <1>4, <1>5, LowDoes
  <2>4. Held(mem', 4 \in single') = amem - Low(amem, w) + b
    <3>1. CASE 4 \notin single
      BY <2>1, <3>1 DEF Held
    <3>2. CASE 4 \in single
      <4> DEFINE p == 2^w
                 q == mem \div p
                 m1 == mem - u + b
      <4>1. q \in Int /\ mem = q * p + u
        <5>1. mem \div p \in Int /\ mem = (mem \div p) * p + (mem % p)
          BY <1>5, <2>3, DivMod
        <5> QED  BY <5>1 DEF Low
      <4> HIDE DEF q, p, u, b, w
      <4>2. m1 = q * p + b /\ m1 \in Int /\ p \in Int /\ b \in 0 .. (p - 1)
        BY <1>5, <2>3, <4>1 DEF p
      <4>3. Low(m1, w) = b
        BY <1>4, <2>3, <4>1, <4>2, LowShift DEF p
      <4>4. Low(Boxed(mem), w) = u
        BY <1>5, BoxDoes DEF u, w
      <4>5. Boxed(mem) = 2^XLEN - p + u /\ Boxed(m1) = 2^XLEN - p + b
        BY <4>3 DEF Boxed, u, w, p
      <4>6. 2^XLEN \in Int
        BY FormatsDo, PowerIsPositive
      <4>7. Boxed(m1) = Boxed(mem) - u + b
        BY <2>3, <4>2, <4>5, <4>6
      <4>8. Held(mem', 4 \in single') = Boxed(m1) /\ amem = Boxed(mem)
        BY <2>1, <3>2 DEF Held
      <4> QED  BY <4>4, <4>7, <4>8
    <3> QED  BY <3>1, <3>2
  <2>5. insn.fmt # Double
    BY <1>4, <1>9
  <2>6. Arch!Low(amem, Arch!Width(Single)) = Low(amem, w) /\ Arch!Low(ArchFregs[2], Arch!Width(Single)) = b
    BY <2>2, SameLow, SameData
  <2> QED  BY <1>1, <1>3, <1>7, <2>4, <2>5, <2>6 DEF Arch!Store
<1> QED  BY <1>8, <1>9

(* A fault is no step of the architecture. *)
LEMMA FaultDoes ==
  ASSUME Fault
  PROVE  /\ insn # None /\ insn.op \in {"load", "store"}
         /\ UNCHANGED <<xreg, mem, frm, insn, before, fflags>>
         /\ \A r \in 1 .. 4 : r \in single' <=> r \in single
         /\ insn.op # "load" => fregs' = fregs /\ single' = single
         /\ \E v : fregs' = [fregs EXCEPT ![0] = v] \/ fregs' = fregs
<1>1. /\ insn # None /\ insn.op \in {"load", "store"}
      /\ UNCHANGED <<xreg, mem, frm, insn, before>>
      /\ fflags' = fflags \cup ({} \ {"NV"}) \cup {}
      /\ insn.op = "load" => SetValue(IF insn.fmt = Single THEN Boxed(0) ELSE 0, insn.fmt)
      /\ insn.op # "load" => fregs' = fregs /\ single' = single
  BY DEF Fault, SetExceptions
<1>2. CASE insn.op = "load"
  <2>1. PICK v : v = IF insn.fmt = Single THEN Boxed(0) ELSE 0
    OBVIOUS
  <2>2. /\ fregs' = [fregs EXCEPT ![0] = v]
        /\ single' = IF insn.fmt = Single THEN single \cup {0} ELSE single \ {0}
    BY <1>1, <1>2, <2>1 DEF SetValue
  <2>3. \A r \in 1 .. 4 : r \in single' <=> r \in single
    BY <2>2
  <2>4. \E x : fregs' = [fregs EXCEPT ![0] = x] \/ fregs' = fregs
    BY <2>2, Zenon
  <2> QED  BY <1>1, <1>2, <2>3, <2>4
<1>3. CASE insn.op # "load"
  BY <1>1, <1>3
<1> QED  BY <1>2, <1>3

LEMMA FaultStutters == ASSUME Fault PROVE UNCHANGED Arch!vars
<1>1. /\ insn # None /\ UNCHANGED <<xreg, mem, frm, insn, before, fflags>>
      /\ 4 \in single' <=> 4 \in single
  BY FaultDoes
<1>2. Held(mem, 4 \in single)' = Held(mem, 4 \in single)
  BY <1>1 DEF Held, Boxed, Low, XLEN, Width
<1>3. ArchFregs' = ArchFregs
  <2>1. ArchFregs' = [r \in 0 .. 3 |-> Held(before'[1][r], r \in before'[2])]
    BY <1>1 DEF ArchFregs, Held, Boxed, Low, XLEN, Width
  <2>2. ArchFregs = [r \in 0 .. 3 |-> Held(before[1][r], r \in before[2])]
    BY <1>1 DEF ArchFregs
  <2> QED  BY <1>1, <2>1, <2>2
<1> QED  BY <1>1, <1>2, <1>3 DEF Arch!vars

-----------------------------------------------------------------------------
(* The instruction starts over with the operands it was issued with. *)

LEMMA SmallRegister == 5 \in Reg
<1>1. XLEN \in Nat /\ XLEN >= 5
  <2>1. Double.e \in Nat \ {0, 1} /\ Double.m \in Nat \ {0, 1}
    BY FpAssumption DEF FpAssumption
  <2> QED  BY <2>1 DEF XLEN, Width
<1>2. 2^XLEN \in Nat /\ XLEN < 2^XLEN
  BY <1>1, PowerIsPositive, PowerExceeds
<1> QED  BY <1>1, <1>2 DEF Reg

LEMMA InitDoes ==
  ASSUME Init
  PROVE  /\ insn \in Insns \ {None} /\ before = <<fregs, single>>
         /\ fregs \in [0 .. 3 -> Reg] /\ mem \in Reg /\ xreg \in Reg
         /\ frm \in Modes /\ fflags \subseteq Flags
         /\ Careful => Exact(insn)
<1>1. insn \in Insns \ {None}
  BY DEF Init
<1>2. /\ \A r \in 1 .. 5 : Contents(insn, r) \subseteq Reg
      /\ \A t \in Ambient(insn) : t[1] \in Modes /\ t[2] \subseteq Flags
  BY <1>1, FpAssumption DEF FpAssumption
<1>3. /\ Contents(insn, 1) \subseteq Reg /\ Contents(insn, 2) \subseteq Reg /\ Contents(insn, 3) \subseteq Reg
      /\ Contents(insn, 4) \subseteq Reg /\ Contents(insn, 5) \subseteq Reg
  BY <1>2
<1>4. PICK a \in Contents(insn, 1), b \in Contents(insn, 2), c \in Contents(insn, 3) :
        fregs = [r \in 0 .. 3 |-> <<5, a, b, c>>[r + 1]]
  BY DEF Init
<1>5. fregs \in [0 .. 3 -> Reg]
  <2>1. \A r \in 0 .. 3 : <<5, a, b, c>>[r + 1] \in Reg
    <3> TAKE r \in 0 .. 3
    <3>1. r + 1 \in {1, 2, 3, 4}
      OBVIOUS
    <3>2. a \in Reg /\ b \in Reg /\ c \in Reg
      BY <1>3, <1>4
    <3>3. \A j \in {1, 2, 3, 4} : <<5, a, b, c>>[j] \in Reg
      BY <3>2, SmallRegister
    <3> QED  BY <3>1, <3>3
  <2> QED  BY <1>4, <2>1
<1>6. PICK t \in Ambient(insn) : frm = t[1] /\ fflags = t[2] /\ single = t[3]
  BY DEF Init
<1>7. frm \in Modes /\ fflags \subseteq Flags
  BY <1>2, <1>6
<1>8. mem \in Reg /\ xreg \in Reg
  BY <1>3 DEF Init
<1>9. before = <<fregs, single>> /\ (Careful => Exact(insn))
  BY DEF Init
<1> QED  BY <1>1, <1>5, <1>7, <1>8, <1>9

LEMMA IssuedInit == Init => Issued
<1> SUFFICES ASSUME Init PROVE Issued
  OBVIOUS
<1>1. /\ insn \in Insns \ {None} /\ before = <<fregs, single>>
      /\ fregs \in [0 .. 3 -> Reg] /\ mem \in Reg /\ xreg \in Reg /\ frm \in Modes
      /\ Careful => Exact(insn)
  BY InitDoes
<1>2. fregs = [r \in 0 .. 3 |-> fregs[r]] /\ \A r \in 1 .. 3 : fregs[r] \in Reg
  BY <1>1
<1>3. before[1] = fregs /\ before[2] = single
  BY <1>1
<1> QED  BY <1>1, <1>2, <1>3 DEF Issued

LEMMA FaultKeepsIssued == ASSUME Issued, Fault PROVE Issued'
<1>1. /\ insn # None /\ insn.op \in {"load", "store"}
      /\ UNCHANGED <<xreg, mem, frm, insn, before, fflags>>
      /\ \A r \in 1 .. 4 : r \in single' <=> r \in single
      /\ insn.op # "load" => fregs' = fregs /\ single' = single
  BY FaultDoes
<1>2. PICK v : fregs' = [fregs EXCEPT ![0] = v] \/ fregs' = fregs
  BY FaultDoes
<1>3. /\ insn \in Insns
      /\ \A r \in 1 .. 3 : fregs[r] \in Reg
      /\ xreg \in Reg /\ mem \in Reg /\ frm \in Modes
      /\ fregs = [r \in 0 .. 3 |-> fregs[r]]
      /\ \A r \in 0 .. 3 :
           \/ r = 0 /\ insn.op = "load"
           \/ fregs[r] = before[1][r] /\ (r \in single <=> r \in before[2])
  BY <1>1 DEF Issued
<1>4. fregs' = [r \in 0 .. 3 |-> fregs'[r]] /\ \A r \in 1 .. 3 : fregs'[r] = fregs[r]
  BY <1>2, <1>3
<1>5. Reg' = Reg
  BY DEF Reg, XLEN, Width
<1>6. \A r \in 1 .. 3 : fregs'[r] \in Reg
  BY <1>3, <1>4
<1>7. \A r \in 0 .. 3 :
        \/ r = 0 /\ insn.op = "load"
        \/ fregs'[r] = before[1][r] /\ (r \in single' <=> r \in before[2])
  <2>1. CASE insn.op = "load"
    <3> TAKE r \in 0 .. 3
    <3>1. CASE r = 0
      BY <2>1, <3>1
    <3>2. CASE r # 0
      <4>1. r \in 1 .. 3 /\ r \in 1 .. 4
        BY <3>2
      <4> QED  BY <1>1, <1>3, <1>4, <3>2, <4>1
    <3> QED  BY <3>1, <3>2
  <2>2. CASE insn.op # "load"
    BY <1>1, <1>3, <2>2
  <2> QED  BY <2>1, <2>2
<1>8. ~ (insn'.op \notin {"load", "store"})
  BY <1>1
<1> QED  BY <1>1, <1>3, <1>4, <1>5, <1>6, <1>7, <1>8 DEF Issued

LEMMA IssuedNext == Issued /\ [Next]_vars => Issued'
<1> SUFFICES ASSUME Issued, [Next]_vars PROVE Issued'
  OBVIOUS
<1>1. ASSUME NEW ops, Handler(ops) PROVE Issued'
  <2>1. insn' = None
    BY <1>1 DEF Handler
  <2> QED  BY <2>1 DEF Issued
<1>2. CASE Fault
  BY <1>2, FaultKeepsIssued
<1>3. CASE UNCHANGED vars
  <2>1. Exact(insn)' <=> Exact(insn)
    BY <1>3 DEF vars, Exact, Reads, Source, Other, Mode, HostResult, Product, AddTo, Accrue, Minus, A, B, C, Get, Low,
       IsSnan, OutOfRange, IntMin, IntMax, MaxAs, Finite, CvtMode
  <2> QED  BY <1>3, <2>1 DEF vars, Issued
<1>4. CASE Next /\ ~ Fault
  <2>1. \E ops : Handler(ops)
    BY <1>4 DEF Next, Arithmetic, MinMax, Sign, ConvertFloat, FromInteger, ToInteger,
                Compare, Classify, MoveToX, MoveToF, Load, Store
  <2> QED  BY <1>1, <2>1
<1> QED  BY <1>2, <1>3, <1>4

-----------------------------------------------------------------------------
(* Every step is one of the architecture or none. *)
LEMMA ArchInit == Init => Arch!Init
<1> SUFFICES ASSUME Init PROVE Arch!Init
  OBVIOUS
<1>1. /\ insn \in Insns \ {None} /\ before = <<fregs, single>>
      /\ fregs \in [0 .. 3 -> Reg] /\ mem \in Reg /\ xreg \in Reg
      /\ frm \in Modes /\ fflags \subseteq Flags
  BY InitDoes
<1>2. \A v \in Reg : Boxed(v) \in Reg
  BY RegIsInt, BoxDoes
<1>3. Held(mem, 4 \in single) \in Reg
  BY <1>1, <1>2 DEF Held
<1>4. ArchFregs = [r \in 0 .. 3 |-> Held(fregs[r], r \in single)]
  BY <1>1 DEF ArchFregs
<1>5. \A r \in 0 .. 3 : Held(fregs[r], r \in single) \in Reg
  BY <1>1, <1>2 DEF Held
<1>6. ArchFregs \in [0 .. 3 -> Reg]
  BY <1>4, <1>5
<1>7. Arch!Reg = Reg
  BY SameNames
<1>8. Arch!Modes = Modes /\ Arch!Flags = Flags
  BY DEF Arch!Modes, Modes, Arch!Flags, Flags
<1> QED  BY <1>1, <1>3, <1>6, <1>7, <1>8 DEF Arch!Init

LEMMA ArchStep == Careful /\ Issued /\ [Next]_vars => [Arch!Next]_(Arch!vars)
<1> SUFFICES ASSUME Careful, Issued, [Next]_vars PROVE Arch!Next \/ UNCHANGED Arch!vars
  OBVIOUS
<1>1. CASE UNCHANGED vars
  <2>1. ArchFregs' = ArchFregs /\ Held(mem, 4 \in single)' = Held(mem, 4 \in single)
    BY <1>1 DEF vars, ArchFregs, Held, Boxed, Low, XLEN, Width
  <2> QED  BY <1>1, <2>1 DEF vars, Arch!vars
<1>2. CASE Fault
  BY <1>2, FaultStutters
<1>3. CASE Arithmetic \/ MinMax \/ Sign \/ ConvertFloat \/ FromInteger \/ MoveToF \/ Load
  <2>1. Arch!ExecuteFloat
    BY <1>3, ArithmeticStep, MinMaxStep, SignStep, ConvertFloatStep, FromIntegerStep, MoveToFStep, LoadStep
  <2> QED  BY <2>1 DEF Arch!Next
<1>4. CASE ToInteger \/ Compare \/ Classify \/ MoveToX
  <2>1. Arch!ExecuteInt
    BY <1>4, ToIntegerStep, CompareStep, ClassifyStep, MoveToXStep
  <2> QED  BY <2>1 DEF Arch!Next
<1>5. CASE Store
  <2>1. Arch!Store
    BY <1>5, StoreStep
  <2> QED  BY <2>1 DEF Arch!Next
<1> QED  BY <1>1, <1>2, <1>3, <1>4, <1>5 DEF Next

(* An instruction in flight finds the operands it was issued with, in
   registers that hold data of their width, until it is done: a page fault of
   fl or fs leaves all but the destination as it was (fdtype::fl, fs). *)
THEOREM OperandsStay == Spec => []Issued
<1> QED  BY IssuedInit, IssuedNext, PTL DEF Spec

(* A program that keeps to the operands and the rounding modes the emulator
   gets right finds what the architecture says after every floating-point
   instruction: the result in its register or in memory, and the flags in
   fflags, once, whatever page faults came in between, whatever NaN the host
   would have given and whether or not the build fuses a * b + c
   (fdtypeinsn.cpp). *)
THEOREM ResultsAreExact == ASSUME Careful PROVE Spec => ArchSpec
<1>1. Init => Issued /\ Arch!Init
  BY IssuedInit, ArchInit
<1>2. Issued /\ [Next]_vars => Issued' /\ [Arch!Next]_(Arch!vars)
  BY IssuedNext, ArchStep
<1> QED  BY <1>1, <1>2, PTL DEF Spec, ArchSpec, Arch!Spec

=============================================================================
