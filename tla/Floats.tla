------------------------------- MODULE Floats -------------------------------
(***************************************************************************)
(* IEEE 754 arithmetic in binary formats small enough to compute with.     *)
(*                                                                         *)
(* A format f has f.e exponent bits and f.m fraction bits; a datum is its  *)
(* bit pattern, a number.  A finite one is n * 2^k for integers n and k,   *)
(* and an operation computes the exact n and k first, then rounds.         *)
(***************************************************************************)
EXTENDS Integers

Modes == {"RNE", "RTZ", "RDN", "RUP", "RMM"}
Flags == {"NV", "DZ", "OF", "UF", "NX"}

Width(f) == 1 + f.e + f.m
SignBit(f) == 2^(f.e + f.m)
Infinity(f) == (2^f.e - 1) * 2^f.m
CanonicalNan(f) == Infinity(f) + 2^(f.m - 1)
Least(f) == 2 - 2^(f.e - 1) - f.m    \* k of the subnormal numbers

Mag(b, f) == b % SignBit(f)
Neg(b, f) == b >= SignBit(f)
WithSign(neg, mag, f) == mag + (IF neg THEN SignBit(f) ELSE 0)
Flip(b, f) == WithSign(~ Neg(b, f), Mag(b, f), f)

IsNan(b, f) == Mag(b, f) > Infinity(f)
IsInf(b, f) == Mag(b, f) = Infinity(f)
IsZero(b, f) == Mag(b, f) = 0
IsSignaling(b, f) == IsNan(b, f) /\ Mag(b, f) < CanonicalNan(f)
Quiet(b, f) == IF IsSignaling(b, f) THEN b + 2^(f.m - 1) ELSE b

(* n and k of a finite datum, n without and with its sign *)
Sig(b, f) == (Mag(b, f) % 2^f.m) + (IF Mag(b, f) < 2^f.m THEN 0 ELSE 2^f.m)
Place(b, f) == LET e == Mag(b, f) \div 2^f.m IN Least(f) + (IF e = 0 THEN 0 ELSE e - 1)
Num(b, f) == IF Neg(b, f) THEN - Sig(b, f) ELSE Sig(b, f)

Larger(a, b) == IF a < b THEN b ELSE a
Length(n) == CHOOSE l \in 1 .. n : n \div 2^(l - 1) = 1    \* of n > 0, in bits

-----------------------------------------------------------------------------
(* n * 2^k as a multiple of 2^e, rounded, and whether that changed it *)
Exactly(n, k, e) == k >= e \/ n % 2^(e - k) = 0
Rounded(neg, n, k, e, rm) ==
  IF k >= e THEN n * 2^(k - e)
  ELSE LET q == n \div 2^(e - k)
           rest == n % 2^(e - k)
           half == 2^(e - k - 1)
           up == \/ rm = "RNE" /\ (rest > half \/ (rest = half /\ q % 2 = 1))
                 \/ rm = "RMM" /\ rest >= half
                 \/ rm = "RUP" /\ ~ neg /\ rest > 0
                 \/ rm = "RDN" /\ neg /\ rest > 0
       IN  IF up THEN q + 1 ELSE q

NaN == -1    \* some NaN, which one is not the operation's business
Result(bits, flags) == [bits |-> bits, flags |-> flags]
Invalid == Result(NaN, {"NV"})

(* The datum nearest to n * 2^k.  Underflow is detected after rounding, as the
   architecture and x86-64 hosts do; AArch64 hosts detect it before. *)
Round(neg, n, k, rm, f) ==
  IF n = 0 THEN Result(WithSign(neg, 0, f), {})
  ELSE
  LET own == k + Length(n) - 1 - f.m           \* the place of its last digit
      e == Larger(own, Least(f))
      mag == (e - Least(f)) * 2^f.m + Rounded(neg, n, k, e, rm)
      over == mag >= Infinity(f)
      toInf == rm \in {"RNE", "RMM"} \/ (rm = "RUP" /\ ~ neg) \/ (rm = "RDN" /\ neg)
      inexact == over \/ ~ Exactly(n, k, e)
      tiny == \/ own < Least(f) - 1
              \/ own = Least(f) - 1 /\ Rounded(neg, n, k, own, rm) < 2^(f.m + 1)
  IN Result(WithSign(neg, IF ~ over THEN mag ELSE IF toInf THEN Infinity(f) ELSE Infinity(f) - 1, f),
            (IF inexact THEN {"NX"} ELSE {}) \cup (IF over THEN {"OF"} ELSE {})
            \cup (IF tiny /\ inexact THEN {"UF"} ELSE {}))

(* a * b + c *)
Fma(a, b, c, rm, f) ==
  LET neg == Neg(a, f) # Neg(b, f)    \* the product
      inf == IsInf(a, f) \/ IsInf(b, f)
      noProduct == (IsInf(a, f) /\ IsZero(b, f)) \/ (IsZero(a, f) /\ IsInf(b, f))
      k == IF IsZero(a, f) \/ IsZero(b, f) THEN Place(c, f) ELSE Place(a, f) + Place(b, f)
      kc == IF IsZero(c, f) THEN k ELSE Place(c, f)
      least == IF k < kc THEN k ELSE kc
      n == Num(a, f) * Num(b, f) * 2^(k - least) + Num(c, f) * 2^(kc - least)
      size == IF n < 0 THEN -n ELSE n
  IN CASE noProduct -> Invalid
       [] ~ noProduct /\ (IsNan(a, f) \/ IsNan(b, f) \/ IsNan(c, f)) ->
            IF IsSignaling(a, f) \/ IsSignaling(b, f) \/ IsSignaling(c, f) THEN Invalid ELSE Result(NaN, {})
       [] OTHER ->
            IF inf /\ IsInf(c, f) /\ neg # Neg(c, f) THEN Invalid
            ELSE IF inf THEN Result(WithSign(neg, Infinity(f), f), {})
            ELSE IF IsInf(c, f) THEN Result(c, {})
            ELSE Round(IF n # 0 THEN n < 0 ELSE IF neg = Neg(c, f) THEN neg ELSE rm = "RDN",
                       size, least, rm, f)

One(f) == (2^(f.e - 1) - 1) * 2^f.m
Add(a, b, rm, f) == Fma(a, One(f), b, rm, f)
Sub(a, b, rm, f) == Add(a, IF IsNan(b, f) THEN b ELSE Flip(b, f), rm, f)
Mul(a, b, rm, f) == Fma(a, b, WithSign(Neg(a, f) # Neg(b, f), 0, f), rm, f)

(* A quotient or a root has enough digits to round, and a last one that says
   whether there are more. *)
Sticky(q, more) == 2 * q + (IF more THEN 1 ELSE 0)

Div(a, b, rm, f) ==
  LET neg == Neg(a, f) # Neg(b, f)
      s == 2 * f.m + 3
      n == Sig(a, f) * 2^s
  IN IF IsSignaling(a, f) \/ IsSignaling(b, f) THEN Invalid
     ELSE IF IsNan(a, f) \/ IsNan(b, f) THEN Result(NaN, {})
     ELSE IF (IsInf(a, f) /\ IsInf(b, f)) \/ (IsZero(a, f) /\ IsZero(b, f)) THEN Invalid
     ELSE IF IsInf(a, f) THEN Result(WithSign(neg, Infinity(f), f), {})
     ELSE IF IsInf(b, f) THEN Result(WithSign(neg, 0, f), {})
     ELSE IF IsZero(b, f) THEN Result(WithSign(neg, Infinity(f), f), {"DZ"})
     ELSE Round(neg, Sticky(n \div Sig(b, f), n % Sig(b, f) # 0),
                Place(a, f) - Place(b, f) - s - 1, rm, f)

Sqrt(a, rm, f) ==
  LET s == f.m + 3 + ((Place(a, f) + f.m + 3) % 2)     \* makes the exponent even
      n == Sig(a, f) * 2^s
      root == CHOOSE r \in 0 .. 2^(f.m + 3) : r * r <= n /\ n < (r + 1) * (r + 1)
  IN IF IsNan(a, f) THEN Result(NaN, IF IsSignaling(a, f) THEN {"NV"} ELSE {})
     ELSE IF IsZero(a, f) THEN Result(a, {})
     ELSE IF Neg(a, f) THEN Invalid
     ELSE IF IsInf(a, f) THEN Result(a, {})
     ELSE Round(FALSE, Sticky(root, root * root # n), (Place(a, f) - s) \div 2 - 1, rm, f)

(* From format f to format g *)
Convert(a, rm, f, g) ==
  IF IsNan(a, f) THEN Result(NaN, IF IsSignaling(a, f) THEN {"NV"} ELSE {})
  ELSE IF IsInf(a, f) THEN Result(WithSign(Neg(a, f), Infinity(g), g), {})
  ELSE Round(Neg(a, f), Sig(a, f), Place(a, f), rm, g)

FromInt(v, rm, f) == Round(v < 0, IF v < 0 THEN -v ELSE v, 0, rm, f)

(* A finite datum as an integer *)
IsInteger(a, f) == Exactly(Sig(a, f), Place(a, f), 0)
ToInt(a, rm, f) ==
  LET n == Rounded(Neg(a, f), Sig(a, f), Place(a, f), 0, rm) IN IF Neg(a, f) THEN -n ELSE n

(* Data other than NaN are ordered; -0 and 0 are equal. *)
Key(a, f) == IF Neg(a, f) THEN - Mag(a, f) ELSE Mag(a, f)
Less(a, b, f) == ~ IsNan(a, f) /\ ~ IsNan(b, f) /\ Key(a, f) < Key(b, f)
Equal(a, b, f) == ~ IsNan(a, f) /\ ~ IsNan(b, f) /\ Key(a, f) = Key(b, f)
=============================================================================
