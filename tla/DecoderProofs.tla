---------------------------- MODULE DecoderProofs ----------------------------
(***************************************************************************)
(* The emulator executes every word as the instruction it encodes, for     *)
(* every word of every format (Careful leaves out those it gets wrong).    *)
(*                                                                         *)
(* The argument has four parts.                                            *)
(*  - Bits: what a mask and a shift of a word leave, and that a field of a *)
(*    word assembled by a format is the value the format fixes there.      *)
(*  - Immediates: Taken(w, a, b, p) is what a run of bits of an immediate  *)
(*    takes from the word, Pick(f, w) what a whole one does; each decoder  *)
(*    function is the Pick of the immediate of its format.                 *)
(*  - Formats: Decodes(f) says that each word of f which a careful program *)
(*    executes has the meaning f gives it.  A lemma for each kind of format*)
(*    follows the dispatch down to the handler; FormsDecode puts together  *)
(*    all formats there are.                                               *)
(*  - Runs: a fetched word was assembled by its format (Assembled), with   *)
(*    which DecodesAsEncoded is inductive.                                 *)
(***************************************************************************)
EXTENDS Decoder, TLAPS

(* Sets of bits *)

LEMMA ShrIn ==
  ASSUME NEW x \in SUBSET Int, NEW n \in Int, NEW k
  PROVE  k \in Shr(x, n) <=> k \in Nat /\ k + n \in x
<1>1. ASSUME k \in Shr(x, n) PROVE k \in Nat /\ k + n \in x
  BY <1>1 DEF Shr
<1>2. ASSUME k \in Nat, k + n \in x PROVE k \in Shr(x, n)
  <2>1. k + n >= n /\ (k + n) - n = k
    BY <1>2
  <2> QED  BY <1>2, <2>1 DEF Shr
<1> QED  BY <1>1, <1>2

LEMMA ShlIn ==
  ASSUME NEW x \in SUBSET Int, NEW n \in Int, NEW k
  PROVE  k \in Shl(x, n) <=> k \in 0 .. 31 /\ k - n \in x
<1>1. ASSUME k \in Shl(x, n) PROVE k \in 0 .. 31 /\ k - n \in x
  BY <1>1 DEF Shl
<1>2. ASSUME k \in 0 .. 31, k - n \in x PROVE k \in Shl(x, n)
  <2>1. (k - n) + n = k
    BY <1>2
  <2> QED  BY <1>2, <2>1 DEF Shl
<1> QED  BY <1>1, <1>2

(* The bits of a small number *)
LEMMA BitsBelow ==
  /\ \A v \in 0 .. 1 : BitsOf(v) \subseteq 0 .. 0
  /\ \A v \in 0 .. 3 : BitsOf(v) \subseteq 0 .. 1
  /\ \A v \in 0 .. 7 : BitsOf(v) \subseteq 0 .. 2
  /\ \A v \in 0 .. 31 : BitsOf(v) \subseteq 0 .. 4
  /\ \A v \in 0 .. 127 : BitsOf(v) \subseteq 0 .. 6
<1>1. ASSUME NEW v \in 0 .. 127
      PROVE  /\ v <= 1 => v \div 2 = 0
             /\ v <= 3 => v \div 4 = 0
             /\ v <= 7 => v \div 8 = 0
             /\ v <= 7 => v \div 16 = 0
             /\ v <= 31 => v \div 32 = 0
             /\ v <= 31 => v \div 64 = 0
             /\ v \div 128 = 0 /\ v \div 256 = 0 /\ v \div 512 = 0
             /\ v \div 1024 = 0 /\ v \div 2048 = 0
  OBVIOUS
<1>2. ASSUME NEW v \in 0 .. 127
      PROVE  /\ v <= 1 => 1 \notin BitsOf(v)
             /\ v <= 3 => 2 \notin BitsOf(v)
             /\ v <= 7 => 3 \notin BitsOf(v) /\ 4 \notin BitsOf(v)
             /\ v <= 31 => 5 \notin BitsOf(v) /\ 6 \notin BitsOf(v)
             /\ 7 \notin BitsOf(v) /\ 8 \notin BitsOf(v) /\ 9 \notin BitsOf(v)
             /\ 10 \notin BitsOf(v) /\ 11 \notin BitsOf(v)
  <2>1. 0 % 2 # 1
    OBVIOUS
  <2> QED  BY <1>1, <2>1 DEF BitsOf
<1>3. ASSUME NEW v PROVE BitsOf(v) \subseteq 0 .. 11
  BY DEF BitsOf
<1>4. \A k \in 0 .. 11 : \/ k = 0 \/ k = 1 \/ k = 2 \/ k = 3 \/ k = 4 \/ k = 5 \/ k = 6 \/ k = 7
                         \/ k = 8 \/ k = 9 \/ k = 10 \/ k = 11
  OBVIOUS
<1> QED  BY <1>2, <1>3, <1>4

LEMMA BitsOfZero == BitsOf(0) = {}
<1>1. BitsOf(0) \subseteq 0 .. 0
  BY BitsBelow
<1>2. 0 \notin BitsOf(0)
  <2>1. (0 \div 2^0) % 2 = 0
    OBVIOUS
  <2> QED  BY <2>1 DEF BitsOf
<1> QED  BY <1>1, <1>2

(* A number is the sum of its bits. *)
LEMMA NumOfBits ==
  ASSUME NEW v \in 0 .. 127
  PROVE  Num(BitsOf(v)) = v
<1> DEFINE b0 == v % 2
           b1 == (v \div 2) % 2
           b2 == (v \div 4) % 2
           b3 == (v \div 8) % 2
           b4 == (v \div 16) % 2
           b5 == (v \div 32) % 2
           b6 == (v \div 64) % 2
<1>1. v = b0 + 2 * b1 + 4 * b2 + 8 * b3 + 16 * b4 + 32 * b5 + 64 * b6
  OBVIOUS
<1>2. /\ b0 \in {0, 1} /\ b1 \in {0, 1} /\ b2 \in {0, 1} /\ b3 \in {0, 1}
      /\ b4 \in {0, 1} /\ b5 \in {0, 1} /\ b6 \in {0, 1}
  OBVIOUS
<1>3. /\ 0 \in BitsOf(v) <=> b0 = 1
      /\ 1 \in BitsOf(v) <=> b1 = 1
      /\ 2 \in BitsOf(v) <=> b2 = 1
      /\ 3 \in BitsOf(v) <=> b3 = 1
      /\ 4 \in BitsOf(v) <=> b4 = 1
      /\ 5 \in BitsOf(v) <=> b5 = 1
      /\ 6 \in BitsOf(v) <=> b6 = 1
  BY DEF BitsOf
<1> HIDE DEF b0, b1, b2, b3, b4, b5, b6
<1> QED  BY <1>1, <1>2, <1>3 DEF Num

LEMMA NumIsInt == \A bits : Num(bits) \in 0 .. 127
BY DEF Num

LEMMA NumOfNone == Num({}) = 0
BY DEF Num

LEMMA AtIn ==
  ASSUME NEW v, NEW lo \in Int, NEW k \in Int
  PROVE  k \in At(v, lo) <=> k - lo \in BitsOf(v)
<1>1. BitsOf(v) \subseteq Int
  BY DEF BitsOf
<1> QED  BY <1>1 DEF At

(* A field of a word whose bits are those of v *)
LEMMA BitsAre ==
  ASSUME NEW w \in SUBSET Int, NEW n \in 1 .. 7, NEW lo \in Nat, NEW v \in 0 .. 127,
         NEW hi \in Int, hi = n - 1, BitsOf(v) \subseteq 0 .. hi,
         \A j \in 0 .. hi : lo + j \in w <=> j \in BitsOf(v)
  PROVE  Bits(w, n, lo) = v
<1>1. ASSUME NEW k PROVE k \in Shr(w, lo) \cap 0 .. (n - 1) <=> k \in BitsOf(v)
  <2>1. k \in Nat => k + lo = lo + k
    OBVIOUS
  <2> QED  BY <2>1, ShrIn
<1>2. Shr(w, lo) \cap 0 .. (n - 1) = BitsOf(v)
  BY <1>1
<1> QED  BY <1>2, NumOfBits DEF Bits

(* Fields of the widths that instructions have *)
LEMMA TwoBits ==
  ASSUME NEW w \in SUBSET Int, NEW lo \in Nat, NEW v \in 0 .. 3,
         \A j \in 0 .. 1 : lo + j \in w <=> j \in BitsOf(v)
  PROVE  Bits(w, 2, lo) = v
<1>1. BitsOf(v) \subseteq 0 .. 1
  BY BitsBelow
<1>2. v \in 0 .. 127 /\ 1 \in Int /\ 1 = 2 - 1 /\ 2 \in 1 .. 7
  OBVIOUS
<1> QED  BY ONLY <1>1, <1>2, BitsAre, w \in SUBSET Int, lo \in Nat,
            \A j \in 0 .. 1 : lo + j \in w <=> j \in BitsOf(v)

LEMMA ThreeBits ==
  ASSUME NEW w \in SUBSET Int, NEW lo \in Nat, NEW v \in 0 .. 7,
         \A j \in 0 .. 2 : lo + j \in w <=> j \in BitsOf(v)
  PROVE  Bits(w, 3, lo) = v
<1>1. BitsOf(v) \subseteq 0 .. 2
  BY BitsBelow
<1>2. v \in 0 .. 127 /\ 2 \in Int /\ 2 = 3 - 1 /\ 3 \in 1 .. 7
  OBVIOUS
<1> QED  BY ONLY <1>1, <1>2, BitsAre, w \in SUBSET Int, lo \in Nat,
            \A j \in 0 .. 2 : lo + j \in w <=> j \in BitsOf(v)

LEMMA FiveBits ==
  ASSUME NEW w \in SUBSET Int, NEW lo \in Nat, NEW v \in 0 .. 31,
         \A j \in 0 .. 4 : lo + j \in w <=> j \in BitsOf(v)
  PROVE  Bits(w, 5, lo) = v
<1>1. BitsOf(v) \subseteq 0 .. 4
  BY BitsBelow
<1>2. v \in 0 .. 127 /\ 4 \in Int /\ 4 = 5 - 1 /\ 5 \in 1 .. 7
  OBVIOUS
<1> QED  BY ONLY <1>1, <1>2, BitsAre, w \in SUBSET Int, lo \in Nat,
            \A j \in 0 .. 4 : lo + j \in w <=> j \in BitsOf(v)

LEMMA SevenBits ==
  ASSUME NEW w \in SUBSET Int, NEW lo \in Nat, NEW v \in 0 .. 127,
         \A j \in 0 .. 6 : lo + j \in w <=> j \in BitsOf(v)
  PROVE  Bits(w, 7, lo) = v
<1>1. BitsOf(v) \subseteq 0 .. 6
  BY BitsBelow
<1>2. v \in 0 .. 127 /\ 6 \in Int /\ 6 = 7 - 1 /\ 7 \in 1 .. 7
  OBVIOUS
<1> QED  BY ONLY <1>1, <1>2, BitsAre, w \in SUBSET Int, lo \in Nat,
            \A j \in 0 .. 6 : lo + j \in w <=> j \in BitsOf(v)

LEMMA BitsIsInt == ASSUME NEW w, NEW n, NEW lo PROVE Bits(w, n, lo) \in 0 .. 127
BY NumIsInt DEF Bits

LEMMA FieldIs ==
  ASSUME NEW lo \in Int, NEW n \in Int, NEW add
  PROVE Field(<<lo, n, add>>) = lo .. (lo + n - 1)
BY DEF Field

(* A register operand is a field as the handlers take it. *)
LEMMA ValueIs ==
  ASSUME NEW w \in SUBSET Int, NEW n \in Nat, NEW lo \in Nat, NEW add \in Nat
  PROVE  Value(w, <<lo, n, add>>) = add + Bits(w, n, lo)
<1> DEFINE f == <<lo, n, add>>
<1>1. Field(f) = lo .. (lo + n - 1)
  BY FieldIs
<1>2. ASSUME NEW k
      PROVE k \in {j - lo : j \in w \cap Field(f)} <=> k \in Shr(w, lo) \cap 0 .. (n - 1)
  <2>1. ASSUME NEW j \in w \cap Field(f), k = j - lo PROVE k \in Shr(w, lo) \cap 0 .. (n - 1)
    BY <1>1, <2>1, ShrIn, (j - lo) + lo = j
  <2>2. ASSUME k \in Shr(w, lo), k \in 0 .. (n - 1)
        PROVE k + lo \in w \cap Field(f) /\ k = (k + lo) - lo
    BY <1>1, <2>2, ShrIn
  <2> QED  BY <2>1, <2>2
<1>3. {j - lo : j \in w \cap Field(f)} = Shr(w, lo) \cap 0 .. (n - 1)
  BY <1>2
<1>4. f[1] = lo /\ f[3] = add
  OBVIOUS
<1> QED  BY <1>3, <1>4 DEF Value, Bits

LEMMA ValueOfX ==
  ASSUME NEW w \in SUBSET Int, NEW r \in Nat
  PROVE  Value(w, X(r)) = r /\ Field(X(r)) = {}
<1>1. Field(<<0, 0, r>>) = 0 .. (0 + 0 - 1)
  BY FieldIs
<1>2. Shr(w, 0) \cap 0 .. (0 - 1) = {}
  OBVIOUS
<1>3. Bits(w, 0, 0) = 0
  BY <1>2, NumOfNone DEF Bits
<1> QED  BY <1>1, <1>3, ValueIs DEF X

LEMMA Registers ==
  ASSUME NEW w \in SUBSET Int
  PROVE  /\ Value(w, Rd) = RD(w) /\ Value(w, Rs1) = RS1(w) /\ Value(w, Rs2) = RS2(w)
         /\ Value(w, Rs3) = Bits(w, 5, 27) /\ Value(w, CRs2) = Bits(w, 5, 2)
         /\ Value(w, Low7) = CompressedRs1(w) /\ Value(w, Low2) = CompressedRd(w)
         /\ Value(w, Low2) = CompressedRs2(w)
         /\ Value(w, X(0)) = 0 /\ Value(w, X(1)) = 1 /\ Value(w, X(2)) = 2
<1> USE BitsIsInt
<1>1. Value(w, Rd) = RD(w)
  BY ValueIs DEF Rd, RD
<1>2. Value(w, Rs1) = RS1(w)
  BY ValueIs DEF Rs1, RS1
<1>3. Value(w, Rs2) = RS2(w)
  BY ValueIs DEF Rs2, RS2
<1>4. Value(w, Rs3) = Bits(w, 5, 27)
  BY ValueIs DEF Rs3
<1>5. Value(w, CRs2) = Bits(w, 5, 2)
  BY ValueIs DEF CRs2
<1>6. Value(w, Low7) = CompressedRs1(w)
  BY ValueIs DEF Low7, CompressedRs1
<1>7. Value(w, Low2) = CompressedRd(w) /\ Value(w, Low2) = CompressedRs2(w)
  BY ValueIs DEF Low2, CompressedRd, CompressedRs2
<1> QED  BY <1>1, <1>2, <1>3, <1>4, <1>5, <1>6, <1>7, ValueOfX

LEMMA Fields ==
  /\ Field(Rd) = 7 .. 11 /\ Field(Rs1) = 15 .. 19 /\ Field(Rs2) = 20 .. 24 /\ Field(Rs3) = 27 .. 31
  /\ Field(CRs2) = 2 .. 6 /\ Field(Low7) = 7 .. 9 /\ Field(Low2) = 2 .. 4
  /\ \A r \in Nat : Field(X(r)) = {}
<1>1. Field(Rd) = 7 .. 11
  BY FieldIs, 7 + 5 - 1 = 11 DEF Rd
<1>2. Field(Rs1) = 15 .. 19
  BY FieldIs, 15 + 5 - 1 = 19 DEF Rs1
<1>3. Field(Rs2) = 20 .. 24
  BY FieldIs, 20 + 5 - 1 = 24 DEF Rs2
<1>4. Field(Rs3) = 27 .. 31
  BY FieldIs, 27 + 5 - 1 = 31 DEF Rs3
<1>5. Field(CRs2) = 2 .. 6
  BY FieldIs, 2 + 5 - 1 = 6 DEF CRs2
<1>6. Field(Low7) = 7 .. 9
  BY FieldIs, 7 + 3 - 1 = 9 DEF Low7
<1>7. Field(Low2) = 2 .. 4
  BY FieldIs, 2 + 3 - 1 = 4 DEF Low2
<1> QED  BY <1>1, <1>2, <1>3, <1>4, <1>5, <1>6, <1>7, ValueOfX, {} \in SUBSET Int

-----------------------------------------------------------------------------
(* Immediates *)

(* The bits that a selection takes from the word, and with the sign *)
Pick(imm, w) == {k \in DOMAIN imm : imm[k] \in w}
Taken(w, lo, hi, p) == {k \in lo .. hi : p + k - lo \in w}
WithSign(top, low) == low \cup (IF top \in low THEN (top + 1) .. 63 ELSE {})

(* Where the bits of an immediate stand, and which are set in word w *)
IsImm(imm, w, dom, ran, bits) == DOMAIN imm = dom /\ Ran(imm) = ran /\ Pick(imm, w) = bits

LEMMA RunIs ==
  ASSUME NEW lo \in Nat, NEW n \in Nat, NEW p \in Nat, NEW w
  PROVE  IsImm(Run(lo, n, p), w, lo .. (lo + n - 1), p .. (p + n - 1), Taken(w, lo, lo + n - 1, p))
<1> DEFINE f == Run(lo, n, p)
           hi == lo + n - 1
<1>1. DOMAIN f = lo .. hi /\ \A j \in lo .. hi : f[j] = p + j - lo
  BY DEF Run
<1>2. ASSUME NEW i \in p .. (p + n - 1) PROVE i \in Ran(f)
  <2>1. i - p + lo \in lo .. hi /\ p + (i - p + lo) - lo = i
    OBVIOUS
  <2> QED  BY <1>1, <2>1 DEF Ran
<1>3. ASSUME NEW i \in Ran(f) PROVE i \in p .. (p + n - 1)
  BY <1>1 DEF Ran
<1>4. Pick(f, w) = Taken(w, lo, hi, p)
  <2>1. \A j \in DOMAIN f : f[j] \in w <=> p + j - lo \in w
    BY <1>1
  <2> HIDE DEF f, hi
  <2> QED  BY <1>1, <2>1 DEF Pick, Taken
<1> HIDE DEF f
<1>5. Ran(f) = p .. (p + n - 1)
  BY <1>2, <1>3
<1> QED  BY <1>1, <1>4, <1>5 DEF f, IsImm

LEMMA AndIs ==
  ASSUME NEW f, NEW g, NEW w, NEW d, NEW e, NEW p, NEW q, NEW s, NEW t,
         IsImm(f, w, d, p, s), IsImm(g, w, e, q, t), d \cap e = {}
  PROVE  IsImm(And(f, g), w, d \cup e, p \cup q, s \cup t)
<1>1. /\ DOMAIN f = d /\ DOMAIN g = e /\ Ran(f) = p /\ Ran(g) = q
      /\ Pick(f, w) = s /\ Pick(g, w) = t
  BY DEF IsImm
<1>2. /\ DOMAIN And(f, g) = d \cup e
      /\ \A k \in d : And(f, g)[k] = f[k]
      /\ \A k \in e : And(f, g)[k] = g[k]
  BY <1>1 DEF And
<1>3. ASSUME NEW i \in Ran(And(f, g)) PROVE i \in p \cup q
  BY <1>1, <1>2 DEF Ran
<1>4. ASSUME NEW i \in p PROVE i \in Ran(And(f, g))
  BY <1>1, <1>2 DEF Ran
<1>5. ASSUME NEW i \in q PROVE i \in Ran(And(f, g))
  BY <1>1, <1>2 DEF Ran
<1>6. Ran(And(f, g)) = p \cup q
  BY <1>3, <1>4, <1>5
<1>7. Pick(And(f, g), w) = s \cup t
  BY <1>1, <1>2 DEF Pick
<1> QED  BY <1>2, <1>6, <1>7 DEF IsImm

LEMMA TopIs == ASSUME NEW n \in Nat, NEW m \in Nat, m <= n PROVE Max(m .. n) = n
<1>1. n \in m .. n /\ \A y \in m .. n : n >= y
  OBVIOUS
<1>2. \A x \in m .. n : (\A y \in m .. n : x >= y) => x = n
  OBVIOUS
<1> QED  BY <1>1, <1>2 DEF Max

LEMMA ImmIIs == ASSUME NEW w PROVE
  IsImm(ImmI, w, 0 .. 11, 20 .. 31, Taken(w, 0, 11, 20))
<1>1. IsImm(Run(0, 12, 20), w, 0 .. 11, 20 .. 31, Taken(w, 0, 11, 20))
  BY RunIs, 0 + 12 - 1 = 11, 20 + 12 - 1 = 31
<1> QED  BY <1>1 DEF ImmI

LEMMA ImmUIs == ASSUME NEW w PROVE
  IsImm(ImmU, w, 12 .. 31, 12 .. 31, Taken(w, 12, 31, 12))
<1>1. IsImm(Run(12, 20, 12), w, 12 .. 31, 12 .. 31, Taken(w, 12, 31, 12))
  BY RunIs, 12 + 20 - 1 = 31, 12 + 20 - 1 = 31
<1> QED  BY <1>1 DEF ImmU

LEMMA ImmSIs == ASSUME NEW w PROVE
  IsImm(ImmS, w,
        0 .. 4 \cup 5 .. 11,
        7 .. 11 \cup 25 .. 31,
        Taken(w, 0, 4, 7) \cup Taken(w, 5, 11, 25))
<1>1. IsImm(Run(0, 5, 7), w, 0 .. 4, 7 .. 11, Taken(w, 0, 4, 7))
  BY RunIs, 0 + 5 - 1 = 4, 7 + 5 - 1 = 11
<1>2. IsImm(Run(5, 7, 25), w, 5 .. 11, 25 .. 31, Taken(w, 5, 11, 25))
  BY RunIs, 5 + 7 - 1 = 11, 25 + 7 - 1 = 31
<1>3. (0 .. 4) \cap (5 .. 11) = {}
  OBVIOUS
<1>4. IsImm(And(Run(0, 5, 7), Run(5, 7, 25)), w,
            0 .. 4 \cup 5 .. 11,
            7 .. 11 \cup 25 .. 31,
            Taken(w, 0, 4, 7) \cup Taken(w, 5, 11, 25))
  BY <1>1, <1>2, <1>3, AndIs
<1> QED  BY <1>4 DEF ImmS

LEMMA ImmBIs == ASSUME NEW w PROVE
  IsImm(ImmB, w,
        (1 .. 4 \cup 5 .. 10) \cup (11 .. 11 \cup 12 .. 12),
        (8 .. 11 \cup 25 .. 30) \cup (7 .. 7 \cup 31 .. 31),
        (Taken(w, 1, 4, 8) \cup Taken(w, 5, 10, 25))
        \cup (Taken(w, 11, 11, 7) \cup Taken(w, 12, 12, 31)))
<1>1. IsImm(Run(1, 4, 8), w, 1 .. 4, 8 .. 11, Taken(w, 1, 4, 8))
  BY RunIs, 1 + 4 - 1 = 4, 8 + 4 - 1 = 11
<1>2. IsImm(Run(5, 6, 25), w, 5 .. 10, 25 .. 30, Taken(w, 5, 10, 25))
  BY RunIs, 5 + 6 - 1 = 10, 25 + 6 - 1 = 30
<1>3. (1 .. 4) \cap (5 .. 10) = {}
  OBVIOUS
<1>4. IsImm(And(Run(1, 4, 8), Run(5, 6, 25)), w,
            1 .. 4 \cup 5 .. 10,
            8 .. 11 \cup 25 .. 30,
            Taken(w, 1, 4, 8) \cup Taken(w, 5, 10, 25))
  BY <1>1, <1>2, <1>3, AndIs
<1>5. IsImm(Run(11, 1, 7), w, 11 .. 11, 7 .. 7, Taken(w, 11, 11, 7))
  BY RunIs, 11 + 1 - 1 = 11, 7 + 1 - 1 = 7
<1>6. IsImm(Run(12, 1, 31), w, 12 .. 12, 31 .. 31, Taken(w, 12, 12, 31))
  BY RunIs, 12 + 1 - 1 = 12, 31 + 1 - 1 = 31
<1>7. (11 .. 11) \cap (12 .. 12) = {}
  OBVIOUS
<1>8. IsImm(And(Run(11, 1, 7), Run(12, 1, 31)), w,
            11 .. 11 \cup 12 .. 12,
            7 .. 7 \cup 31 .. 31,
            Taken(w, 11, 11, 7) \cup Taken(w, 12, 12, 31))
  BY <1>5, <1>6, <1>7, AndIs
<1>9. (1 .. 4 \cup 5 .. 10) \cap (11 .. 11 \cup 12 .. 12) = {}
  OBVIOUS
<1>10. IsImm(And(And(Run(1, 4, 8), Run(5, 6, 25)), And(Run(11, 1, 7), Run(12, 1, 31))), w,
            (1 .. 4 \cup 5 .. 10) \cup (11 .. 11 \cup 12 .. 12),
            (8 .. 11 \cup 25 .. 30) \cup (7 .. 7 \cup 31 .. 31),
            (Taken(w, 1, 4, 8) \cup Taken(w, 5, 10, 25))
            \cup (Taken(w, 11, 11, 7) \cup Taken(w, 12, 12, 31)))
  BY <1>4, <1>8, <1>9, AndIs
<1> QED  BY <1>10 DEF ImmB

LEMMA ImmJIs == ASSUME NEW w PROVE
  IsImm(ImmJ, w,
        (1 .. 10 \cup 11 .. 11) \cup (12 .. 19 \cup 20 .. 20),
        (21 .. 30 \cup 20 .. 20) \cup (12 .. 19 \cup 31 .. 31),
        (Taken(w, 1, 10, 21) \cup Taken(w, 11, 11, 20))
        \cup (Taken(w, 12, 19, 12) \cup Taken(w, 20, 20, 31)))
<1>1. IsImm(Run(1, 10, 21), w, 1 .. 10, 21 .. 30, Taken(w, 1, 10, 21))
  BY RunIs, 1 + 10 - 1 = 10, 21 + 10 - 1 = 30
<1>2. IsImm(Run(11, 1, 20), w, 11 .. 11, 20 .. 20, Taken(w, 11, 11, 20))
  BY RunIs, 11 + 1 - 1 = 11, 20 + 1 - 1 = 20
<1>3. (1 .. 10) \cap (11 .. 11) = {}
  OBVIOUS
<1>4. IsImm(And(Run(1, 10, 21), Run(11, 1, 20)), w,
            1 .. 10 \cup 11 .. 11,
            21 .. 30 \cup 20 .. 20,
            Taken(w, 1, 10, 21) \cup Taken(w, 11, 11, 20))
  BY <1>1, <1>2, <1>3, AndIs
<1>5. IsImm(Run(12, 8, 12), w, 12 .. 19, 12 .. 19, Taken(w, 12, 19, 12))
  BY RunIs, 12 + 8 - 1 = 19, 12 + 8 - 1 = 19
<1>6. IsImm(Run(20, 1, 31), w, 20 .. 20, 31 .. 31, Taken(w, 20, 20, 31))
  BY RunIs, 20 + 1 - 1 = 20, 31 + 1 - 1 = 31
<1>7. (12 .. 19) \cap (20 .. 20) = {}
  OBVIOUS
<1>8. IsImm(And(Run(12, 8, 12), Run(20, 1, 31)), w,
            12 .. 19 \cup 20 .. 20,
            12 .. 19 \cup 31 .. 31,
            Taken(w, 12, 19, 12) \cup Taken(w, 20, 20, 31))
  BY <1>5, <1>6, <1>7, AndIs
<1>9. (1 .. 10 \cup 11 .. 11) \cap (12 .. 19 \cup 20 .. 20) = {}
  OBVIOUS
<1>10. IsImm(And(And(Run(1, 10, 21), Run(11, 1, 20)), And(Run(12, 8, 12), Run(20, 1, 31))), w,
            (1 .. 10 \cup 11 .. 11) \cup (12 .. 19 \cup 20 .. 20),
            (21 .. 30 \cup 20 .. 20) \cup (12 .. 19 \cup 31 .. 31),
            (Taken(w, 1, 10, 21) \cup Taken(w, 11, 11, 20))
            \cup (Taken(w, 12, 19, 12) \cup Taken(w, 20, 20, 31)))
  BY <1>4, <1>8, <1>9, AndIs
<1> QED  BY <1>10 DEF ImmJ

LEMMA Shamt32Is == ASSUME NEW w PROVE
  IsImm(Shamt(32), w, 0 .. 4, 20 .. 24, Taken(w, 0, 4, 20))
<1>1. IsImm(Run(0, 5, 20), w, 0 .. 4, 20 .. 24, Taken(w, 0, 4, 20))
  BY RunIs, 0 + 5 - 1 = 4, 20 + 5 - 1 = 24
<1> QED  BY <1>1 DEF Shamt

LEMMA Shamt64Is == ASSUME NEW w PROVE
  IsImm(Shamt(64), w, 0 .. 5, 20 .. 25, Taken(w, 0, 5, 20))
<1>1. IsImm(Run(0, 6, 20), w, 0 .. 5, 20 .. 25, Taken(w, 0, 5, 20))
  BY RunIs, 0 + 6 - 1 = 5, 20 + 6 - 1 = 25
<1> QED  BY <1>1 DEF Shamt

LEMMA CImmIs == ASSUME NEW w PROVE
  IsImm(CImm, w,
        0 .. 4 \cup 5 .. 5,
        2 .. 6 \cup 12 .. 12,
        Taken(w, 0, 4, 2) \cup Taken(w, 5, 5, 12))
<1>1. IsImm(Run(0, 5, 2), w, 0 .. 4, 2 .. 6, Taken(w, 0, 4, 2))
  BY RunIs, 0 + 5 - 1 = 4, 2 + 5 - 1 = 6
<1>2. IsImm(Run(5, 1, 12), w, 5 .. 5, 12 .. 12, Taken(w, 5, 5, 12))
  BY RunIs, 5 + 1 - 1 = 5, 12 + 1 - 1 = 12
<1>3. (0 .. 4) \cap (5 .. 5) = {}
  OBVIOUS
<1>4. IsImm(And(Run(0, 5, 2), Run(5, 1, 12)), w,
            0 .. 4 \cup 5 .. 5,
            2 .. 6 \cup 12 .. 12,
            Taken(w, 0, 4, 2) \cup Taken(w, 5, 5, 12))
  BY <1>1, <1>2, <1>3, AndIs
<1> QED  BY <1>4 DEF CImm

LEMMA ImmQ032Is == ASSUME NEW w PROVE
  IsImm(ImmQ0(32), w,
        (3 .. 5 \cup 2 .. 2) \cup 6 .. 6,
        (10 .. 12 \cup 6 .. 6) \cup 5 .. 5,
        (Taken(w, 3, 5, 10) \cup Taken(w, 2, 2, 6)) \cup Taken(w, 6, 6, 5))
<1>1. IsImm(Run(3, 3, 10), w, 3 .. 5, 10 .. 12, Taken(w, 3, 5, 10))
  BY RunIs, 3 + 3 - 1 = 5, 10 + 3 - 1 = 12
<1>2. IsImm(Run(2, 1, 6), w, 2 .. 2, 6 .. 6, Taken(w, 2, 2, 6))
  BY RunIs, 2 + 1 - 1 = 2, 6 + 1 - 1 = 6
<1>3. (3 .. 5) \cap (2 .. 2) = {}
  OBVIOUS
<1>4. IsImm(And(Run(3, 3, 10), Run(2, 1, 6)), w,
            3 .. 5 \cup 2 .. 2,
            10 .. 12 \cup 6 .. 6,
            Taken(w, 3, 5, 10) \cup Taken(w, 2, 2, 6))
  BY <1>1, <1>2, <1>3, AndIs
<1>5. IsImm(Run(6, 1, 5), w, 6 .. 6, 5 .. 5, Taken(w, 6, 6, 5))
  BY RunIs, 6 + 1 - 1 = 6, 5 + 1 - 1 = 5
<1>6. (3 .. 5 \cup 2 .. 2) \cap (6 .. 6) = {}
  OBVIOUS
<1>7. IsImm(And(And(Run(3, 3, 10), Run(2, 1, 6)), Run(6, 1, 5)), w,
            (3 .. 5 \cup 2 .. 2) \cup 6 .. 6,
            (10 .. 12 \cup 6 .. 6) \cup 5 .. 5,
            (Taken(w, 3, 5, 10) \cup Taken(w, 2, 2, 6)) \cup Taken(w, 6, 6, 5))
  BY <1>4, <1>5, <1>6, AndIs
<1> QED  BY <1>7 DEF ImmQ0

LEMMA ImmQ064Is == ASSUME NEW w PROVE
  IsImm(ImmQ0(64), w,
        3 .. 5 \cup 6 .. 7,
        10 .. 12 \cup 5 .. 6,
        Taken(w, 3, 5, 10) \cup Taken(w, 6, 7, 5))
<1>1. IsImm(Run(3, 3, 10), w, 3 .. 5, 10 .. 12, Taken(w, 3, 5, 10))
  BY RunIs, 3 + 3 - 1 = 5, 10 + 3 - 1 = 12
<1>2. IsImm(Run(6, 2, 5), w, 6 .. 7, 5 .. 6, Taken(w, 6, 7, 5))
  BY RunIs, 6 + 2 - 1 = 7, 5 + 2 - 1 = 6
<1>3. (3 .. 5) \cap (6 .. 7) = {}
  OBVIOUS
<1>4. IsImm(And(Run(3, 3, 10), Run(6, 2, 5)), w,
            3 .. 5 \cup 6 .. 7,
            10 .. 12 \cup 5 .. 6,
            Taken(w, 3, 5, 10) \cup Taken(w, 6, 7, 5))
  BY <1>1, <1>2, <1>3, AndIs
<1> QED  BY <1>4 DEF ImmQ0

LEMMA ImmLoadSp32Is == ASSUME NEW w PROVE
  IsImm(ImmLoadSp(32), w,
        (2 .. 4 \cup 5 .. 5) \cup 6 .. 7,
        (4 .. 6 \cup 12 .. 12) \cup 2 .. 3,
        (Taken(w, 2, 4, 4) \cup Taken(w, 5, 5, 12)) \cup Taken(w, 6, 7, 2))
<1>1. IsImm(Run(2, 3, 4), w, 2 .. 4, 4 .. 6, Taken(w, 2, 4, 4))
  BY RunIs, 2 + 3 - 1 = 4, 4 + 3 - 1 = 6
<1>2. IsImm(Run(5, 1, 12), w, 5 .. 5, 12 .. 12, Taken(w, 5, 5, 12))
  BY RunIs, 5 + 1 - 1 = 5, 12 + 1 - 1 = 12
<1>3. (2 .. 4) \cap (5 .. 5) = {}
  OBVIOUS
<1>4. IsImm(And(Run(2, 3, 4), Run(5, 1, 12)), w,
            2 .. 4 \cup 5 .. 5,
            4 .. 6 \cup 12 .. 12,
            Taken(w, 2, 4, 4) \cup Taken(w, 5, 5, 12))
  BY <1>1, <1>2, <1>3, AndIs
<1>5. IsImm(Run(6, 2, 2), w, 6 .. 7, 2 .. 3, Taken(w, 6, 7, 2))
  BY RunIs, 6 + 2 - 1 = 7, 2 + 2 - 1 = 3
<1>6. (2 .. 4 \cup 5 .. 5) \cap (6 .. 7) = {}
  OBVIOUS
<1>7. IsImm(And(And(Run(2, 3, 4), Run(5, 1, 12)), Run(6, 2, 2)), w,
            (2 .. 4 \cup 5 .. 5) \cup 6 .. 7,
            (4 .. 6 \cup 12 .. 12) \cup 2 .. 3,
            (Taken(w, 2, 4, 4) \cup Taken(w, 5, 5, 12)) \cup Taken(w, 6, 7, 2))
  BY <1>4, <1>5, <1>6, AndIs
<1> QED  BY <1>7 DEF ImmLoadSp

LEMMA ImmLoadSp64Is == ASSUME NEW w PROVE
  IsImm(ImmLoadSp(64), w,
        (3 .. 4 \cup 5 .. 5) \cup 6 .. 8,
        (5 .. 6 \cup 12 .. 12) \cup 2 .. 4,
        (Taken(w, 3, 4, 5) \cup Taken(w, 5, 5, 12)) \cup Taken(w, 6, 8, 2))
<1>1. IsImm(Run(3, 2, 5), w, 3 .. 4, 5 .. 6, Taken(w, 3, 4, 5))
  BY RunIs, 3 + 2 - 1 = 4, 5 + 2 - 1 = 6
<1>2. IsImm(Run(5, 1, 12), w, 5 .. 5, 12 .. 12, Taken(w, 5, 5, 12))
  BY RunIs, 5 + 1 - 1 = 5, 12 + 1 - 1 = 12
<1>3. (3 .. 4) \cap (5 .. 5) = {}
  OBVIOUS
<1>4. IsImm(And(Run(3, 2, 5), Run(5, 1, 12)), w,
            3 .. 4 \cup 5 .. 5,
            5 .. 6 \cup 12 .. 12,
            Taken(w, 3, 4, 5) \cup Taken(w, 5, 5, 12))
  BY <1>1, <1>2, <1>3, AndIs
<1>5. IsImm(Run(6, 3, 2), w, 6 .. 8, 2 .. 4, Taken(w, 6, 8, 2))
  BY RunIs, 6 + 3 - 1 = 8, 2 + 3 - 1 = 4
<1>6. (3 .. 4 \cup 5 .. 5) \cap (6 .. 8) = {}
  OBVIOUS
<1>7. IsImm(And(And(Run(3, 2, 5), Run(5, 1, 12)), Run(6, 3, 2)), w,
            (3 .. 4 \cup 5 .. 5) \cup 6 .. 8,
            (5 .. 6 \cup 12 .. 12) \cup 2 .. 4,
            (Taken(w, 3, 4, 5) \cup Taken(w, 5, 5, 12)) \cup Taken(w, 6, 8, 2))
  BY <1>4, <1>5, <1>6, AndIs
<1> QED  BY <1>7 DEF ImmLoadSp

LEMMA ImmStoreSp32Is == ASSUME NEW w PROVE
  IsImm(ImmStoreSp(32), w,
        2 .. 5 \cup 6 .. 7,
        9 .. 12 \cup 7 .. 8,
        Taken(w, 2, 5, 9) \cup Taken(w, 6, 7, 7))
<1>1. IsImm(Run(2, 4, 9), w, 2 .. 5, 9 .. 12, Taken(w, 2, 5, 9))
  BY RunIs, 2 + 4 - 1 = 5, 9 + 4 - 1 = 12
<1>2. IsImm(Run(6, 2, 7), w, 6 .. 7, 7 .. 8, Taken(w, 6, 7, 7))
  BY RunIs, 6 + 2 - 1 = 7, 7 + 2 - 1 = 8
<1>3. (2 .. 5) \cap (6 .. 7) = {}
  OBVIOUS
<1>4. IsImm(And(Run(2, 4, 9), Run(6, 2, 7)), w,
            2 .. 5 \cup 6 .. 7,
            9 .. 12 \cup 7 .. 8,
            Taken(w, 2, 5, 9) \cup Taken(w, 6, 7, 7))
  BY <1>1, <1>2, <1>3, AndIs
<1> QED  BY <1>4 DEF ImmStoreSp

LEMMA ImmStoreSp64Is == ASSUME NEW w PROVE
  IsImm(ImmStoreSp(64), w,
        3 .. 5 \cup 6 .. 8,
        10 .. 12 \cup 7 .. 9,
        Taken(w, 3, 5, 10) \cup Taken(w, 6, 8, 7))
<1>1. IsImm(Run(3, 3, 10), w, 3 .. 5, 10 .. 12, Taken(w, 3, 5, 10))
  BY RunIs, 3 + 3 - 1 = 5, 10 + 3 - 1 = 12
<1>2. IsImm(Run(6, 3, 7), w, 6 .. 8, 7 .. 9, Taken(w, 6, 8, 7))
  BY RunIs, 6 + 3 - 1 = 8, 7 + 3 - 1 = 9
<1>3. (3 .. 5) \cap (6 .. 8) = {}
  OBVIOUS
<1>4. IsImm(And(Run(3, 3, 10), Run(6, 3, 7)), w,
            3 .. 5 \cup 6 .. 8,
            10 .. 12 \cup 7 .. 9,
            Taken(w, 3, 5, 10) \cup Taken(w, 6, 8, 7))
  BY <1>1, <1>2, <1>3, AndIs
<1> QED  BY <1>4 DEF ImmStoreSp

LEMMA ImmCBIs == ASSUME NEW w PROVE
  IsImm(ImmCB, w,
        (1 .. 2 \cup 3 .. 4) \cup ((5 .. 5 \cup 6 .. 7) \cup 8 .. 8),
        (3 .. 4 \cup 10 .. 11) \cup ((2 .. 2 \cup 5 .. 6) \cup 12 .. 12),
        (Taken(w, 1, 2, 3) \cup Taken(w, 3, 4, 10)) \cup ((Taken(w, 5, 5, 2) \cup Taken(w, 6, 7, 5))
        \cup Taken(w, 8, 8, 12)))
<1>1. IsImm(Run(1, 2, 3), w, 1 .. 2, 3 .. 4, Taken(w, 1, 2, 3))
  BY RunIs, 1 + 2 - 1 = 2, 3 + 2 - 1 = 4
<1>2. IsImm(Run(3, 2, 10), w, 3 .. 4, 10 .. 11, Taken(w, 3, 4, 10))
  BY RunIs, 3 + 2 - 1 = 4, 10 + 2 - 1 = 11
<1>3. (1 .. 2) \cap (3 .. 4) = {}
  OBVIOUS
<1>4. IsImm(And(Run(1, 2, 3), Run(3, 2, 10)), w,
            1 .. 2 \cup 3 .. 4,
            3 .. 4 \cup 10 .. 11,
            Taken(w, 1, 2, 3) \cup Taken(w, 3, 4, 10))
  BY <1>1, <1>2, <1>3, AndIs
<1>5. IsImm(Run(5, 1, 2), w, 5 .. 5, 2 .. 2, Taken(w, 5, 5, 2))
  BY RunIs, 5 + 1 - 1 = 5, 2 + 1 - 1 = 2
<1>6. IsImm(Run(6, 2, 5), w, 6 .. 7, 5 .. 6, Taken(w, 6, 7, 5))
  BY RunIs, 6 + 2 - 1 = 7, 5 + 2 - 1 = 6
<1>7. (5 .. 5) \cap (6 .. 7) = {}
  OBVIOUS
<1>8. IsImm(And(Run(5, 1, 2), Run(6, 2, 5)), w,
            5 .. 5 \cup 6 .. 7,
            2 .. 2 \cup 5 .. 6,
            Taken(w, 5, 5, 2) \cup Taken(w, 6, 7, 5))
  BY <1>5, <1>6, <1>7, AndIs
<1>9. IsImm(Run(8, 1, 12), w, 8 .. 8, 12 .. 12, Taken(w, 8, 8, 12))
  BY RunIs, 8 + 1 - 1 = 8, 12 + 1 - 1 = 12
<1>10. (5 .. 5 \cup 6 .. 7) \cap (8 .. 8) = {}
  OBVIOUS
<1>11. IsImm(And(And(Run(5, 1, 2), Run(6, 2, 5)), Run(8, 1, 12)), w,
            (5 .. 5 \cup 6 .. 7) \cup 8 .. 8,
            (2 .. 2 \cup 5 .. 6) \cup 12 .. 12,
            (Taken(w, 5, 5, 2) \cup Taken(w, 6, 7, 5)) \cup Taken(w, 8, 8, 12))
  BY <1>8, <1>9, <1>10, AndIs
<1>12. (1 .. 2 \cup 3 .. 4) \cap ((5 .. 5 \cup 6 .. 7) \cup 8 .. 8) = {}
  OBVIOUS
<1>13. IsImm(And(And(Run(1, 2, 3), Run(3, 2, 10)),
       And(And(Run(5, 1, 2), Run(6, 2, 5)), Run(8, 1, 12))), w,
            (1 .. 2 \cup 3 .. 4) \cup ((5 .. 5 \cup 6 .. 7) \cup 8 .. 8),
            (3 .. 4 \cup 10 .. 11) \cup ((2 .. 2 \cup 5 .. 6) \cup 12 .. 12),
            (Taken(w, 1, 2, 3) \cup Taken(w, 3, 4, 10))
            \cup ((Taken(w, 5, 5, 2) \cup Taken(w, 6, 7, 5))
            \cup Taken(w, 8, 8, 12)))
  BY <1>4, <1>11, <1>12, AndIs
<1> QED  BY <1>13 DEF ImmCB

LEMMA ImmCJIs == ASSUME NEW w PROVE
  IsImm(ImmCJ, w,
        ((1 .. 3 \cup 4 .. 4) \cup (5 .. 5 \cup 6 .. 6)) \cup ((7 .. 7 \cup 8 .. 9) \cup (10 .. 10
        \cup 11 .. 11)),
        ((3 .. 5 \cup 11 .. 11) \cup (2 .. 2 \cup 7 .. 7)) \cup ((6 .. 6 \cup 9 .. 10) \cup (8 .. 8
        \cup 12 .. 12)),
        ((Taken(w, 1, 3, 3) \cup Taken(w, 4, 4, 11))
        \cup (Taken(w, 5, 5, 2) \cup Taken(w, 6, 6, 7)))
        \cup ((Taken(w, 7, 7, 6) \cup Taken(w, 8, 9, 9))
        \cup (Taken(w, 10, 10, 8) \cup Taken(w, 11, 11, 12))))
<1>1. IsImm(Run(1, 3, 3), w, 1 .. 3, 3 .. 5, Taken(w, 1, 3, 3))
  BY RunIs, 1 + 3 - 1 = 3, 3 + 3 - 1 = 5
<1>2. IsImm(Run(4, 1, 11), w, 4 .. 4, 11 .. 11, Taken(w, 4, 4, 11))
  BY RunIs, 4 + 1 - 1 = 4, 11 + 1 - 1 = 11
<1>3. (1 .. 3) \cap (4 .. 4) = {}
  OBVIOUS
<1>4. IsImm(And(Run(1, 3, 3), Run(4, 1, 11)), w,
            1 .. 3 \cup 4 .. 4,
            3 .. 5 \cup 11 .. 11,
            Taken(w, 1, 3, 3) \cup Taken(w, 4, 4, 11))
  BY <1>1, <1>2, <1>3, AndIs
<1>5. IsImm(Run(5, 1, 2), w, 5 .. 5, 2 .. 2, Taken(w, 5, 5, 2))
  BY RunIs, 5 + 1 - 1 = 5, 2 + 1 - 1 = 2
<1>6. IsImm(Run(6, 1, 7), w, 6 .. 6, 7 .. 7, Taken(w, 6, 6, 7))
  BY RunIs, 6 + 1 - 1 = 6, 7 + 1 - 1 = 7
<1>7. (5 .. 5) \cap (6 .. 6) = {}
  OBVIOUS
<1>8. IsImm(And(Run(5, 1, 2), Run(6, 1, 7)), w,
            5 .. 5 \cup 6 .. 6,
            2 .. 2 \cup 7 .. 7,
            Taken(w, 5, 5, 2) \cup Taken(w, 6, 6, 7))
  BY <1>5, <1>6, <1>7, AndIs
<1>9. (1 .. 3 \cup 4 .. 4) \cap (5 .. 5 \cup 6 .. 6) = {}
  OBVIOUS
<1>10. IsImm(And(And(Run(1, 3, 3), Run(4, 1, 11)), And(Run(5, 1, 2), Run(6, 1, 7))), w,
            (1 .. 3 \cup 4 .. 4) \cup (5 .. 5 \cup 6 .. 6),
            (3 .. 5 \cup 11 .. 11) \cup (2 .. 2 \cup 7 .. 7),
            (Taken(w, 1, 3, 3) \cup Taken(w, 4, 4, 11))
            \cup (Taken(w, 5, 5, 2) \cup Taken(w, 6, 6, 7)))
  BY <1>4, <1>8, <1>9, AndIs
<1>11. IsImm(Run(7, 1, 6), w, 7 .. 7, 6 .. 6, Taken(w, 7, 7, 6))
  BY RunIs, 7 + 1 - 1 = 7, 6 + 1 - 1 = 6
<1>12. IsImm(Run(8, 2, 9), w, 8 .. 9, 9 .. 10, Taken(w, 8, 9, 9))
  BY RunIs, 8 + 2 - 1 = 9, 9 + 2 - 1 = 10
<1>13. (7 .. 7) \cap (8 .. 9) = {}
  OBVIOUS
<1>14. IsImm(And(Run(7, 1, 6), Run(8, 2, 9)), w,
            7 .. 7 \cup 8 .. 9,
            6 .. 6 \cup 9 .. 10,
            Taken(w, 7, 7, 6) \cup Taken(w, 8, 9, 9))
  BY <1>11, <1>12, <1>13, AndIs
<1>15. IsImm(Run(10, 1, 8), w, 10 .. 10, 8 .. 8, Taken(w, 10, 10, 8))
  BY RunIs, 10 + 1 - 1 = 10, 8 + 1 - 1 = 8
<1>16. IsImm(Run(11, 1, 12), w, 11 .. 11, 12 .. 12, Taken(w, 11, 11, 12))
  BY RunIs, 11 + 1 - 1 = 11, 12 + 1 - 1 = 12
<1>17. (10 .. 10) \cap (11 .. 11) = {}
  OBVIOUS
<1>18. IsImm(And(Run(10, 1, 8), Run(11, 1, 12)), w,
            10 .. 10 \cup 11 .. 11,
            8 .. 8 \cup 12 .. 12,
            Taken(w, 10, 10, 8) \cup Taken(w, 11, 11, 12))
  BY <1>15, <1>16, <1>17, AndIs
<1>19. (7 .. 7 \cup 8 .. 9) \cap (10 .. 10 \cup 11 .. 11) = {}
  OBVIOUS
<1>20. IsImm(And(And(Run(7, 1, 6), Run(8, 2, 9)), And(Run(10, 1, 8), Run(11, 1, 12))), w,
            (7 .. 7 \cup 8 .. 9) \cup (10 .. 10 \cup 11 .. 11),
            (6 .. 6 \cup 9 .. 10) \cup (8 .. 8 \cup 12 .. 12),
            (Taken(w, 7, 7, 6) \cup Taken(w, 8, 9, 9))
            \cup (Taken(w, 10, 10, 8) \cup Taken(w, 11, 11, 12)))
  BY <1>14, <1>18, <1>19, AndIs
<1>21. ((1 .. 3 \cup 4 .. 4) \cup (5 .. 5 \cup 6 .. 6)) \cap ((7 .. 7 \cup 8 .. 9)
       \cup (10 .. 10 \cup 11 .. 11)) = {}
  OBVIOUS
<1>22. IsImm(And(And(And(Run(1, 3, 3), Run(4, 1, 11)), And(Run(5, 1, 2), Run(6, 1, 7))),
       And(And(Run(7, 1, 6), Run(8, 2, 9)), And(Run(10, 1, 8), Run(11, 1, 12)))), w,
            ((1 .. 3 \cup 4 .. 4) \cup (5 .. 5 \cup 6 .. 6))
            \cup ((7 .. 7 \cup 8 .. 9) \cup (10 .. 10
            \cup 11 .. 11)),
            ((3 .. 5 \cup 11 .. 11) \cup (2 .. 2 \cup 7 .. 7))
            \cup ((6 .. 6 \cup 9 .. 10) \cup (8 .. 8
            \cup 12 .. 12)),
            ((Taken(w, 1, 3, 3) \cup Taken(w, 4, 4, 11))
            \cup (Taken(w, 5, 5, 2) \cup Taken(w, 6, 6, 7)))
            \cup ((Taken(w, 7, 7, 6) \cup Taken(w, 8, 9, 9))
            \cup (Taken(w, 10, 10, 8) \cup Taken(w, 11, 11, 12))))
  BY <1>10, <1>20, <1>21, AndIs
<1> QED  BY <1>22 DEF ImmCJ

LEMMA Imm4SpnIs == ASSUME NEW w PROVE
  IsImm(Imm4Spn, w,
        (2 .. 2 \cup 3 .. 3) \cup (4 .. 5 \cup 6 .. 9),
        (6 .. 6 \cup 5 .. 5) \cup (11 .. 12 \cup 7 .. 10),
        (Taken(w, 2, 2, 6) \cup Taken(w, 3, 3, 5)) \cup (Taken(w, 4, 5, 11) \cup Taken(w, 6, 9, 7)))
<1>1. IsImm(Run(2, 1, 6), w, 2 .. 2, 6 .. 6, Taken(w, 2, 2, 6))
  BY RunIs, 2 + 1 - 1 = 2, 6 + 1 - 1 = 6
<1>2. IsImm(Run(3, 1, 5), w, 3 .. 3, 5 .. 5, Taken(w, 3, 3, 5))
  BY RunIs, 3 + 1 - 1 = 3, 5 + 1 - 1 = 5
<1>3. (2 .. 2) \cap (3 .. 3) = {}
  OBVIOUS
<1>4. IsImm(And(Run(2, 1, 6), Run(3, 1, 5)), w,
            2 .. 2 \cup 3 .. 3,
            6 .. 6 \cup 5 .. 5,
            Taken(w, 2, 2, 6) \cup Taken(w, 3, 3, 5))
  BY <1>1, <1>2, <1>3, AndIs
<1>5. IsImm(Run(4, 2, 11), w, 4 .. 5, 11 .. 12, Taken(w, 4, 5, 11))
  BY RunIs, 4 + 2 - 1 = 5, 11 + 2 - 1 = 12
<1>6. IsImm(Run(6, 4, 7), w, 6 .. 9, 7 .. 10, Taken(w, 6, 9, 7))
  BY RunIs, 6 + 4 - 1 = 9, 7 + 4 - 1 = 10
<1>7. (4 .. 5) \cap (6 .. 9) = {}
  OBVIOUS
<1>8. IsImm(And(Run(4, 2, 11), Run(6, 4, 7)), w,
            4 .. 5 \cup 6 .. 9,
            11 .. 12 \cup 7 .. 10,
            Taken(w, 4, 5, 11) \cup Taken(w, 6, 9, 7))
  BY <1>5, <1>6, <1>7, AndIs
<1>9. (2 .. 2 \cup 3 .. 3) \cap (4 .. 5 \cup 6 .. 9) = {}
  OBVIOUS
<1>10. IsImm(And(And(Run(2, 1, 6), Run(3, 1, 5)), And(Run(4, 2, 11), Run(6, 4, 7))), w,
            (2 .. 2 \cup 3 .. 3) \cup (4 .. 5 \cup 6 .. 9),
            (6 .. 6 \cup 5 .. 5) \cup (11 .. 12 \cup 7 .. 10),
            (Taken(w, 2, 2, 6) \cup Taken(w, 3, 3, 5))
            \cup (Taken(w, 4, 5, 11) \cup Taken(w, 6, 9, 7)))
  BY <1>4, <1>8, <1>9, AndIs
<1> QED  BY <1>10 DEF Imm4Spn

LEMMA Imm16SpIs == ASSUME NEW w PROVE
  IsImm(Imm16Sp, w,
        (4 .. 4 \cup 5 .. 5) \cup ((6 .. 6 \cup 7 .. 8) \cup 9 .. 9),
        (6 .. 6 \cup 2 .. 2) \cup ((5 .. 5 \cup 3 .. 4) \cup 12 .. 12),
        (Taken(w, 4, 4, 6) \cup Taken(w, 5, 5, 2)) \cup ((Taken(w, 6, 6, 5) \cup Taken(w, 7, 8, 3))
        \cup Taken(w, 9, 9, 12)))
<1>1. IsImm(Run(4, 1, 6), w, 4 .. 4, 6 .. 6, Taken(w, 4, 4, 6))
  BY RunIs, 4 + 1 - 1 = 4, 6 + 1 - 1 = 6
<1>2. IsImm(Run(5, 1, 2), w, 5 .. 5, 2 .. 2, Taken(w, 5, 5, 2))
  BY RunIs, 5 + 1 - 1 = 5, 2 + 1 - 1 = 2
<1>3. (4 .. 4) \cap (5 .. 5) = {}
  OBVIOUS
<1>4. IsImm(And(Run(4, 1, 6), Run(5, 1, 2)), w,
            4 .. 4 \cup 5 .. 5,
            6 .. 6 \cup 2 .. 2,
            Taken(w, 4, 4, 6) \cup Taken(w, 5, 5, 2))
  BY <1>1, <1>2, <1>3, AndIs
<1>5. IsImm(Run(6, 1, 5), w, 6 .. 6, 5 .. 5, Taken(w, 6, 6, 5))
  BY RunIs, 6 + 1 - 1 = 6, 5 + 1 - 1 = 5
<1>6. IsImm(Run(7, 2, 3), w, 7 .. 8, 3 .. 4, Taken(w, 7, 8, 3))
  BY RunIs, 7 + 2 - 1 = 8, 3 + 2 - 1 = 4
<1>7. (6 .. 6) \cap (7 .. 8) = {}
  OBVIOUS
<1>8. IsImm(And(Run(6, 1, 5), Run(7, 2, 3)), w,
            6 .. 6 \cup 7 .. 8,
            5 .. 5 \cup 3 .. 4,
            Taken(w, 6, 6, 5) \cup Taken(w, 7, 8, 3))
  BY <1>5, <1>6, <1>7, AndIs
<1>9. IsImm(Run(9, 1, 12), w, 9 .. 9, 12 .. 12, Taken(w, 9, 9, 12))
  BY RunIs, 9 + 1 - 1 = 9, 12 + 1 - 1 = 12
<1>10. (6 .. 6 \cup 7 .. 8) \cap (9 .. 9) = {}
  OBVIOUS
<1>11. IsImm(And(And(Run(6, 1, 5), Run(7, 2, 3)), Run(9, 1, 12)), w,
            (6 .. 6 \cup 7 .. 8) \cup 9 .. 9,
            (5 .. 5 \cup 3 .. 4) \cup 12 .. 12,
            (Taken(w, 6, 6, 5) \cup Taken(w, 7, 8, 3)) \cup Taken(w, 9, 9, 12))
  BY <1>8, <1>9, <1>10, AndIs
<1>12. (4 .. 4 \cup 5 .. 5) \cap ((6 .. 6 \cup 7 .. 8) \cup 9 .. 9) = {}
  OBVIOUS
<1>13. IsImm(And(And(Run(4, 1, 6), Run(5, 1, 2)),
       And(And(Run(6, 1, 5), Run(7, 2, 3)), Run(9, 1, 12))), w,
            (4 .. 4 \cup 5 .. 5) \cup ((6 .. 6 \cup 7 .. 8) \cup 9 .. 9),
            (6 .. 6 \cup 2 .. 2) \cup ((5 .. 5 \cup 3 .. 4) \cup 12 .. 12),
            (Taken(w, 4, 4, 6) \cup Taken(w, 5, 5, 2))
            \cup ((Taken(w, 6, 6, 5) \cup Taken(w, 7, 8, 3))
            \cup Taken(w, 9, 9, 12)))
  BY <1>4, <1>11, <1>12, AndIs
<1> QED  BY <1>13 DEF Imm16Sp

LEMMA CLuiImmIs == ASSUME NEW w PROVE
  IsImm(And(Run(12, 5, 2), Run(17, 1, 12)), w,
        12 .. 16 \cup 17 .. 17,
        2 .. 6 \cup 12 .. 12,
        Taken(w, 12, 16, 2) \cup Taken(w, 17, 17, 12))
<1>1. IsImm(Run(12, 5, 2), w, 12 .. 16, 2 .. 6, Taken(w, 12, 16, 2))
  BY RunIs, 12 + 5 - 1 = 16, 2 + 5 - 1 = 6
<1>2. IsImm(Run(17, 1, 12), w, 17 .. 17, 12 .. 12, Taken(w, 17, 17, 12))
  BY RunIs, 17 + 1 - 1 = 17, 12 + 1 - 1 = 12
<1>3. (12 .. 16) \cap (17 .. 17) = {}
  OBVIOUS
<1>4. IsImm(And(Run(12, 5, 2), Run(17, 1, 12)), w,
            12 .. 16 \cup 17 .. 17,
            2 .. 6 \cup 12 .. 12,
            Taken(w, 12, 16, 2) \cup Taken(w, 17, 17, 12))
  BY <1>1, <1>2, <1>3, AndIs
<1> QED  BY <1>4

-----------------------------------------------------------------------------
(* What the handlers put together is the immediate of the format. *)

LEMMA SignedIn ==
  ASSUME NEW x \in SUBSET Int, NEW n \in Int, NEW k
  PROVE  k \in Signed(x, n) <=> (k \in 0 .. n /\ k \in x) \/ (k \in (n + 1) .. 63 /\ n \in x)
BY DEF Signed

LEMMA SarIn ==
  ASSUME NEW x \in SUBSET (0 .. 31), NEW n \in 0 .. 31, NEW k
  PROVE  k \in Sar(Signed(x, 31), n) <=>
           (k \in 0 .. (31 - n) /\ k + n \in x) \/ (k \in (32 - n) .. 63 /\ 31 \in x)
<1> DEFINE s == Signed(x, 31)
<1> HIDE DEF s
<1>1. x \in SUBSET Int
  OBVIOUS
<1>2. ASSUME NEW j PROVE j \in s <=> j \in x \/ (j \in 32 .. 63 /\ 31 \in x)
  <2>1. j \in s <=> (j \in 0 .. 31 /\ j \in x) \/ (j \in (31 + 1) .. 63 /\ 31 \in x)
    BY <1>1, SignedIn DEF s
  <2>2. j \in (31 + 1) .. 63 <=> j \in 32 .. 63
    BY 31 + 1 = 32
  <2>3. j \in x => j \in 0 .. 31
    OBVIOUS
  <2> QED  BY <2>1, <2>2, <2>3, Zenon
<1>3. s \in SUBSET Int /\ (63 \in s <=> 31 \in x)
  <2>1. x \subseteq Int /\ 32 .. 63 \subseteq Int /\ 63 \in 32 .. 63 /\ 63 \notin x
    OBVIOUS
  <2> QED  BY <1>2, <2>1, Zenon
<1>4. k \in Sar(s, n) <=> (k \in Nat /\ k + n \in s) \/ (63 \in s /\ k \in (64 - n) .. 63)
  BY <1>3, ShrIn DEF Sar
<1>5. ASSUME k \in Nat
      PROVE  k + n \in s <=> (k \in 0 .. (31 - n) /\ k + n \in x)
             \/ (31 \in x /\ k \in (32 - n) .. (63 - n))
  BY <1>2, <1>5
<1>6. k \in (32 - n) .. 63 <=> (k \in Nat /\ k \in (32 - n) .. (63 - n)) \/ k \in (64 - n) .. 63
  OBVIOUS
<1> QED  BY <1>3, <1>4, <1>5, <1>6 DEF s

LEMMA WithSignIn ==
  ASSUME NEW top \in Int, NEW low, NEW k
  PROVE  k \in WithSign(top, low) <=> k \in low \/ (k \in (top + 1) .. 63 /\ top \in low)
BY DEF WithSign

LEMMA ImmediateI ==
  ASSUME NEW w \in SUBSET (0 .. 31)
  PROVE  imm_i(w) = WithSign(11, Taken(w, 0, 11, 20))
<1> SUFFICES ASSUME NEW k PROVE k \in imm_i(w) <=> k \in WithSign(11, Taken(w, 0, 11, 20))
  OBVIOUS
<1>1. k \in imm_i(w) <=> (k \in 0 .. 11 /\ k + 20 \in w \cap 20 .. 31)
      \/ (k \in 12 .. 63 /\ 31 \in w)
  BY SarIn DEF imm_i
<1>2. k \in WithSign(11, Taken(w, 0, 11, 20)) <=>
        (k \in 0 .. 11 /\ 20 + k \in w) \/ (k \in 12 .. 63 /\ 31 \in w)
  BY WithSignIn DEF Taken
<1> QED  BY <1>1, <1>2

LEMMA ImmediateS ==
  ASSUME NEW w \in SUBSET (0 .. 31)
  PROVE  imm_s(w) = WithSign(11, Taken(w, 0, 4, 7) \cup Taken(w, 5, 11, 25))
<1> DEFINE b == Taken(w, 0, 4, 7) \cup Taken(w, 5, 11, 25)
<1> SUFFICES ASSUME NEW k PROVE k \in imm_s(w) <=> k \in WithSign(11, b)
  OBVIOUS
<1>1. k \in imm_s(w) <=> \/ k \in 0 .. 11 /\ k + 20 \in w \cap 25 .. 31
                         \/ k \in 12 .. 63 /\ 31 \in w
                         \/ k \in 0 .. 4 /\ k + 7 \in w
  BY SarIn, ShrIn DEF imm_s
<1>2. \A j : j \in b <=> (j \in 0 .. 4 /\ 7 + j \in w) \/ (j \in 5 .. 11 /\ 25 + j - 5 \in w)
  BY DEF Taken
<1> HIDE DEF b
<1> QED  BY <1>1, <1>2, WithSignIn

LEMMA ImmediateB ==
  ASSUME NEW w \in SUBSET (0 .. 31)
  PROVE  imm_b(w) = WithSign(12, (Taken(w, 1, 4, 8) \cup Taken(w, 5, 10, 25))
                                 \cup (Taken(w, 11, 11, 7) \cup Taken(w, 12, 12, 31)))
<1> DEFINE b == (Taken(w, 1, 4, 8) \cup Taken(w, 5, 10, 25))
                \cup (Taken(w, 11, 11, 7) \cup Taken(w, 12, 12, 31))
<1> SUFFICES ASSUME NEW k PROVE k \in imm_b(w) <=> k \in WithSign(12, b)
  OBVIOUS
<1>1. k \in imm_b(w) <=> \/ k \in 0 .. 12 /\ k + 19 \in w \cap {31}
                         \/ k \in 13 .. 63 /\ 31 \in w
                         \/ k \in 0 .. 31 /\ k - 4 \in w \cap {7}
                         \/ k \in 5 .. 10 /\ k + 20 \in w
                         \/ k \in 1 .. 4 /\ k + 7 \in w
  BY SarIn, ShrIn, ShlIn DEF imm_b
<1>2. \A j : j \in b <=> \/ j \in 1 .. 4 /\ 8 + j - 1 \in w
                         \/ j \in 5 .. 10 /\ 25 + j - 5 \in w
                         \/ j \in 11 .. 11 /\ 7 + j - 11 \in w
                         \/ j \in 12 .. 12 /\ 31 + j - 12 \in w
  BY DEF Taken
<1> HIDE DEF b
<1> QED  BY <1>1, <1>2, WithSignIn

LEMMA ImmediateJ ==
  ASSUME NEW w \in SUBSET (0 .. 31)
  PROVE  imm_j(w) = WithSign(20, (Taken(w, 1, 10, 21) \cup Taken(w, 11, 11, 20))
                                 \cup (Taken(w, 12, 19, 12) \cup Taken(w, 20, 20, 31)))
<1> DEFINE b == (Taken(w, 1, 10, 21) \cup Taken(w, 11, 11, 20))
                \cup (Taken(w, 12, 19, 12) \cup Taken(w, 20, 20, 31))
<1> SUFFICES ASSUME NEW k PROVE k \in imm_j(w) <=> k \in WithSign(20, b)
  OBVIOUS
<1>1. k \in imm_j(w) <=> \/ k \in 0 .. 20 /\ k + 11 \in w \cap {31}
                         \/ k \in 21 .. 63 /\ 31 \in w
                         \/ k \in 12 .. 19 /\ k \in w
                         \/ k \in {11} /\ k + 9 \in w
                         \/ k \in 1 .. 10 /\ k + 20 \in w
  BY SarIn, ShrIn DEF imm_j
<1>2. \A j : j \in b <=> \/ j \in 1 .. 10 /\ 21 + j - 1 \in w
                         \/ j \in 11 .. 11 /\ 20 + j - 11 \in w
                         \/ j \in 12 .. 19 /\ 12 + j - 12 \in w
                         \/ j \in 20 .. 20 /\ 31 + j - 20 \in w
  BY DEF Taken
<1> HIDE DEF b
<1> QED  BY <1>1, <1>2, WithSignIn

LEMMA ImmediateU ==
  ASSUME NEW w \in SUBSET (0 .. 31)
  PROVE  imm_u(w) = WithSign(31, Taken(w, 12, 31, 12))
<1> SUFFICES ASSUME NEW k PROVE k \in imm_u(w) <=> k \in WithSign(31, Taken(w, 12, 31, 12))
  OBVIOUS
<1>1. k \in imm_u(w) <=> (k \in w \cap 12 .. 31) \/ (k \in 32 .. 63 /\ 31 \in w)
  BY SignedIn DEF imm_u
<1>2. \A j : j \in Taken(w, 12, 31, 12) <=> j \in 12 .. 31 /\ 12 + j - 12 \in w
  BY DEF Taken
<1> QED  BY <1>1, <1>2, WithSignIn

(* srai has bit 10 of its immediate set, and shamt cuts it off. *)
LEMMA ShiftCounts ==
  ASSUME NEW w \in SUBSET (0 .. 31)
  PROVE  /\ shamt(w) = Taken(w, 0, 5, 20)
         /\ 25 \notin w => shamt(w) = Taken(w, 0, 4, 20)
<1>1. \A k : k \in shamt(w) <=> k \in 0 .. 5 /\ k + 20 \in w
  BY SarIn DEF shamt, imm_i
<1>2. \A k : k \in Taken(w, 0, 5, 20) <=> k \in 0 .. 5 /\ 20 + k - 0 \in w
  BY DEF Taken
<1>3. \A k : k \in Taken(w, 0, 4, 20) <=> k \in 0 .. 4 /\ 20 + k - 0 \in w
  BY DEF Taken
<1>4. shamt(w) = Taken(w, 0, 5, 20)
  BY <1>1, <1>2
<1>5. ASSUME 25 \notin w PROVE shamt(w) = Taken(w, 0, 4, 20)
  BY <1>1, <1>3, <1>5
<1> QED  BY <1>4, <1>5

LEMMA ImmediateCsr ==
  ASSUME NEW w \in SUBSET (0 .. 31)
  PROVE  Csr(w) = Taken(w, 0, 11, 20)
<1>1. \A k : k \in Csr(w) <=> k \in Nat /\ k + 20 \in w \cap 20 .. 31
  BY ShrIn DEF Csr
<1>2. \A k : k \in Taken(w, 0, 11, 20) <=> k \in 0 .. 11 /\ 20 + k - 0 \in w
  BY DEF Taken
<1> QED  BY <1>1, <1>2

LEMMA ImmediateFl ==
  ASSUME NEW w \in SUBSET (0 .. 31)
  PROVE  fl_offset(w) = WithSign(11, Taken(w, 0, 11, 20))
<1> SUFFICES ASSUME NEW k PROVE k \in fl_offset(w) <=> k \in WithSign(11, Taken(w, 0, 11, 20))
  OBVIOUS
<1>1. k \in fl_offset(w) <=> (k \in 0 .. 11 /\ k + 20 \in w) \/ (k \in 12 .. 63 /\ 31 \in w)
  BY SarIn DEF fl_offset
<1>2. \A j : j \in Taken(w, 0, 11, 20) <=> j \in 0 .. 11 /\ 20 + j - 0 \in w
  BY DEF Taken
<1> QED  BY <1>1, <1>2, WithSignIn

(* fsw and fsd do not sign-extend: right for offsets that are not negative. *)
LEMMA ImmediateFs ==
  ASSUME NEW w \in SUBSET (0 .. 31), 31 \notin w
  PROVE  fs_offset(w) = WithSign(11, Taken(w, 0, 4, 7) \cup Taken(w, 5, 11, 25))
<1> DEFINE b == Taken(w, 0, 4, 7) \cup Taken(w, 5, 11, 25)
<1> SUFFICES ASSUME NEW k PROVE k \in fs_offset(w) <=> k \in WithSign(11, b)
  OBVIOUS
<1>1. k \in fs_offset(w) <=> \/ k \in 5 .. 11 /\ k + 20 \in w
                             \/ k \in 0 .. 4 /\ k + 7 \in w
  BY SarIn, ShrIn DEF fs_offset, fl_offset
<1>2. \A j : j \in b <=> (j \in 0 .. 4 /\ 7 + j \in w) \/ (j \in 5 .. 11 /\ 25 + j - 5 \in w)
  BY DEF Taken
<1> HIDE DEF b
<1> QED  BY <1>1, <1>2, WithSignIn
-----------------------------------------------------------------------------
(* The same for the compressed handlers *)

LEMMA CShamt ==
  ASSUME NEW w \in SUBSET (0 .. 31)
  PROVE  CompressedShamt(w) =
           Taken(w, 0, 4, 2) \cup Taken(w, 5, 5, 12)
<1> DEFINE b == Taken(w, 0, 4, 2) \cup Taken(w, 5, 5, 12)
<1>1. ASSUME NEW k PROVE k \in CompressedShamt(w) <=> \/ k \in 5 .. 5 /\ k + 7 \in w
                                                      \/ k \in 0 .. 4 /\ k + 2 \in w
  BY ShrIn, ShlIn, w \in SUBSET Int DEF CompressedShamt
<1>2. ASSUME NEW k PROVE k \in b <=> \/ k \in 0 .. 4 /\ 2 + k - 0 \in w
                                     \/ k \in 5 .. 5 /\ 12 + k - 5 \in w
  BY DEF Taken
<1> HIDE DEF b
<1>3. ASSUME NEW k PROVE k \in CompressedShamt(w) <=> k \in b
  BY <1>1, <1>2
<1> QED  BY <1>3 DEF b

LEMMA CWordOffset ==
  ASSUME NEW w \in SUBSET (0 .. 31)
  PROVE  WordOffset(w) =
           (Taken(w, 3, 5, 10) \cup Taken(w, 2, 2, 6)) \cup Taken(w, 6, 6, 5)
<1> DEFINE b == (Taken(w, 3, 5, 10) \cup Taken(w, 2, 2, 6)) \cup Taken(w, 6, 6, 5)
<1>1. ASSUME NEW k PROVE k \in WordOffset(w) <=> \/ k \in 6 .. 6 /\ k - 1 \in w
                                                 \/ k \in 3 .. 5 /\ k + 7 \in w
                                                 \/ k \in 2 .. 2 /\ k + 4 \in w
  BY ShrIn, ShlIn, w \in SUBSET Int DEF WordOffset
<1>2. ASSUME NEW k PROVE k \in b <=> \/ k \in 3 .. 5 /\ 10 + k - 3 \in w
                                     \/ k \in 2 .. 2 /\ 6 + k - 2 \in w
                                     \/ k \in 6 .. 6 /\ 5 + k - 6 \in w
  BY DEF Taken
<1> HIDE DEF b
<1>3. ASSUME NEW k PROVE k \in WordOffset(w) <=> k \in b
  BY <1>1, <1>2
<1> QED  BY <1>3 DEF b

LEMMA CDoubleOffset ==
  ASSUME NEW w \in SUBSET (0 .. 31)
  PROVE  DoubleOffset(w) =
           Taken(w, 3, 5, 10) \cup Taken(w, 6, 7, 5)
<1> DEFINE b == Taken(w, 3, 5, 10) \cup Taken(w, 6, 7, 5)
<1>1. ASSUME NEW k PROVE k \in DoubleOffset(w) <=> \/ k \in 6 .. 7 /\ k - 1 \in w
                                                   \/ k \in 3 .. 5 /\ k + 7 \in w
  BY ShrIn, ShlIn, w \in SUBSET Int DEF DoubleOffset
<1>2. ASSUME NEW k PROVE k \in b <=> \/ k \in 3 .. 5 /\ 10 + k - 3 \in w
                                     \/ k \in 6 .. 7 /\ 5 + k - 6 \in w
  BY DEF Taken
<1> HIDE DEF b
<1>3. ASSUME NEW k PROVE k \in DoubleOffset(w) <=> k \in b
  BY <1>1, <1>2
<1> QED  BY <1>3 DEF b

LEMMA CDoubleLoadSp ==
  ASSUME NEW w \in SUBSET (0 .. 31)
  PROVE  DoubleLoadSp(w) =
           (Taken(w, 3, 4, 5) \cup Taken(w, 5, 5, 12)) \cup Taken(w, 6, 8, 2)
<1> DEFINE b == (Taken(w, 3, 4, 5) \cup Taken(w, 5, 5, 12)) \cup Taken(w, 6, 8, 2)
<1>1. ASSUME NEW k PROVE k \in DoubleLoadSp(w) <=> \/ k \in 6 .. 8 /\ k - 4 \in w
                                                   \/ k \in 5 .. 5 /\ k + 7 \in w
                                                   \/ k \in 3 .. 4 /\ k + 2 \in w
  BY ShrIn, ShlIn, w \in SUBSET Int DEF DoubleLoadSp
<1>2. ASSUME NEW k PROVE k \in b <=> \/ k \in 3 .. 4 /\ 5 + k - 3 \in w
                                     \/ k \in 5 .. 5 /\ 12 + k - 5 \in w
                                     \/ k \in 6 .. 8 /\ 2 + k - 6 \in w
  BY DEF Taken
<1> HIDE DEF b
<1>3. ASSUME NEW k PROVE k \in DoubleLoadSp(w) <=> k \in b
  BY <1>1, <1>2
<1> QED  BY <1>3 DEF b

LEMMA CWordLoadSp ==
  ASSUME NEW w \in SUBSET (0 .. 31)
  PROVE  WordLoadSp(w) =
           (Taken(w, 2, 4, 4) \cup Taken(w, 5, 5, 12)) \cup Taken(w, 6, 7, 2)
<1> DEFINE b == (Taken(w, 2, 4, 4) \cup Taken(w, 5, 5, 12)) \cup Taken(w, 6, 7, 2)
<1>1. ASSUME NEW k PROVE k \in WordLoadSp(w) <=> \/ k \in 6 .. 7 /\ k - 4 \in w
                                                 \/ k \in 5 .. 5 /\ k + 7 \in w
                                                 \/ k \in 2 .. 4 /\ k + 2 \in w
  BY ShrIn, ShlIn, w \in SUBSET Int DEF WordLoadSp
<1>2. ASSUME NEW k PROVE k \in b <=> \/ k \in 2 .. 4 /\ 4 + k - 2 \in w
                                     \/ k \in 5 .. 5 /\ 12 + k - 5 \in w
                                     \/ k \in 6 .. 7 /\ 2 + k - 6 \in w
  BY DEF Taken
<1> HIDE DEF b
<1>3. ASSUME NEW k PROVE k \in WordLoadSp(w) <=> k \in b
  BY <1>1, <1>2
<1> QED  BY <1>3 DEF b

LEMMA CDoubleStoreSp ==
  ASSUME NEW w \in SUBSET (0 .. 31)
  PROVE  DoubleStoreSp(w) =
           Taken(w, 3, 5, 10) \cup Taken(w, 6, 8, 7)
<1> DEFINE b == Taken(w, 3, 5, 10) \cup Taken(w, 6, 8, 7)
<1>1. ASSUME NEW k PROVE k \in DoubleStoreSp(w) <=> \/ k \in 6 .. 8 /\ k + 1 \in w
                                                    \/ k \in 3 .. 5 /\ k + 7 \in w
  BY ShrIn, ShlIn, w \in SUBSET Int DEF DoubleStoreSp
<1>2. ASSUME NEW k PROVE k \in b <=> \/ k \in 3 .. 5 /\ 10 + k - 3 \in w
                                     \/ k \in 6 .. 8 /\ 7 + k - 6 \in w
  BY DEF Taken
<1> HIDE DEF b
<1>3. ASSUME NEW k PROVE k \in DoubleStoreSp(w) <=> k \in b
  BY <1>1, <1>2
<1> QED  BY <1>3 DEF b

LEMMA CWordStoreSp ==
  ASSUME NEW w \in SUBSET (0 .. 31)
  PROVE  WordStoreSp(w) =
           Taken(w, 2, 5, 9) \cup Taken(w, 6, 7, 7)
<1> DEFINE b == Taken(w, 2, 5, 9) \cup Taken(w, 6, 7, 7)
<1>1. ASSUME NEW k PROVE k \in WordStoreSp(w) <=> \/ k \in 6 .. 7 /\ k + 1 \in w
                                                  \/ k \in 2 .. 5 /\ k + 7 \in w
  BY ShrIn, ShlIn, w \in SUBSET Int DEF WordStoreSp
<1>2. ASSUME NEW k PROVE k \in b <=> \/ k \in 2 .. 5 /\ 9 + k - 2 \in w
                                     \/ k \in 6 .. 7 /\ 7 + k - 6 \in w
  BY DEF Taken
<1> HIDE DEF b
<1>3. ASSUME NEW k PROVE k \in WordStoreSp(w) <=> k \in b
  BY <1>1, <1>2
<1> QED  BY <1>3 DEF b

LEMMA CAddi4Spn ==
  ASSUME NEW w \in SUBSET (0 .. 31)
  PROVE  Addi4SpnImm(w) =
           (Taken(w, 2, 2, 6) \cup Taken(w, 3, 3, 5))
           \cup (Taken(w, 4, 5, 11) \cup Taken(w, 6, 9, 7))
<1> DEFINE b == (Taken(w, 2, 2, 6) \cup Taken(w, 3, 3, 5))
                \cup (Taken(w, 4, 5, 11) \cup Taken(w, 6, 9, 7))
<1>1. ASSUME NEW k PROVE k \in Addi4SpnImm(w) <=> \/ k \in 6 .. 9 /\ k + 1 \in w
                                                  \/ k \in 4 .. 5 /\ k + 7 \in w
                                                  \/ k \in 3 .. 3 /\ k + 2 \in w
                                                  \/ k \in 2 .. 2 /\ k + 4 \in w
  BY ShrIn, ShlIn, w \in SUBSET Int DEF Addi4SpnImm
<1>2. ASSUME NEW k PROVE k \in b <=> \/ k \in 2 .. 2 /\ 6 + k - 2 \in w
                                     \/ k \in 3 .. 3 /\ 5 + k - 3 \in w
                                     \/ k \in 4 .. 5 /\ 11 + k - 4 \in w
                                     \/ k \in 6 .. 9 /\ 7 + k - 6 \in w
  BY DEF Taken
<1> HIDE DEF b
<1>3. ASSUME NEW k PROVE k \in Addi4SpnImm(w) <=> k \in b
  BY <1>1, <1>2
<1> QED  BY <1>3 DEF b

LEMMA CImm6 ==
  ASSUME NEW w \in SUBSET (0 .. 31)
  PROVE  Imm6(w) = WithSign(5,
           Taken(w, 0, 4, 2) \cup Taken(w, 5, 5, 12))
<1> DEFINE b == Taken(w, 0, 4, 2) \cup Taken(w, 5, 5, 12)
           c == CompressedShamt(w)
<1>1. ASSUME NEW k PROVE k \in c <=> \/ k \in 5 .. 5 /\ k + 7 \in w
                                     \/ k \in 0 .. 4 /\ k + 2 \in w
  BY ShrIn, ShlIn, w \in SUBSET Int DEF CompressedShamt
<1>2. ASSUME NEW k PROVE k \in b <=> \/ k \in 0 .. 4 /\ 2 + k - 0 \in w
                                     \/ k \in 5 .. 5 /\ 12 + k - 5 \in w
  BY DEF Taken
<1>3. Imm6(w) = Signed(c, 5)
  BY DEF Imm6
<1> HIDE DEF b, c
<1>4. c \in SUBSET (0 .. 5)
  BY <1>1
<1>5. c = b
  BY <1>1, <1>2
<1>6. Signed(c, 5) = WithSign(5, c)
  BY <1>4 DEF Signed, WithSign
<1> QED  BY <1>3, <1>5, <1>6 DEF b

LEMMA CAddi16Sp ==
  ASSUME NEW w \in SUBSET (0 .. 31)
  PROVE  Addi16SpImm(w) = WithSign(9,
           (Taken(w, 4, 4, 6) \cup Taken(w, 5, 5, 2))
           \cup ((Taken(w, 6, 6, 5) \cup Taken(w, 7, 8, 3))
           \cup Taken(w, 9, 9, 12)))
<1> DEFINE b == (Taken(w, 4, 4, 6) \cup Taken(w, 5, 5, 2))
                \cup ((Taken(w, 6, 6, 5) \cup Taken(w, 7, 8, 3))
                \cup Taken(w, 9, 9, 12))
           c == (Shr(w, 3) \cap {9}) \cup (Shr(w, 2) \cap {4}) \cup (Shl(w, 1) \cap {6})
              \cup (Shl(w, 4) \cap {7, 8})
                \cup (Shl(w, 3) \cap {5})
<1>1. ASSUME NEW k PROVE k \in c <=> \/ k \in 9 .. 9 /\ k + 3 \in w
                                     \/ k \in 4 .. 4 /\ k + 2 \in w
                                     \/ k \in 6 .. 6 /\ k - 1 \in w
                                     \/ k \in 7 .. 8 /\ k - 4 \in w
                                     \/ k \in 5 .. 5 /\ k - 3 \in w
  BY ShrIn, ShlIn, w \in SUBSET Int
<1>2. ASSUME NEW k PROVE k \in b <=> \/ k \in 4 .. 4 /\ 6 + k - 4 \in w
                                     \/ k \in 5 .. 5 /\ 2 + k - 5 \in w
                                     \/ k \in 6 .. 6 /\ 5 + k - 6 \in w
                                     \/ k \in 7 .. 8 /\ 3 + k - 7 \in w
                                     \/ k \in 9 .. 9 /\ 12 + k - 9 \in w
  BY DEF Taken
<1>3. Addi16SpImm(w) = Signed(c, 9)
  BY DEF Addi16SpImm
<1> HIDE DEF b, c
<1>4. c \in SUBSET (0 .. 9)
  BY <1>1
<1>5. c = b
  BY <1>1, <1>2
<1>6. Signed(c, 9) = WithSign(9, c)
  BY <1>4 DEF Signed, WithSign
<1> QED  BY <1>3, <1>5, <1>6 DEF b

LEMMA CLui ==
  ASSUME NEW w \in SUBSET (0 .. 31)
  PROVE  LuiImm(w) = WithSign(17,
           Taken(w, 12, 16, 2) \cup Taken(w, 17, 17, 12))
<1> DEFINE b == Taken(w, 12, 16, 2) \cup Taken(w, 17, 17, 12)
           c == (Shl(w, 5) \cap {17}) \cup (Shl(w, 10) \cap 12 .. 16)
<1>1. ASSUME NEW k PROVE k \in c <=> \/ k \in 17 .. 17 /\ k - 5 \in w
                                     \/ k \in 12 .. 16 /\ k - 10 \in w
  BY ShrIn, ShlIn, w \in SUBSET Int
<1>2. ASSUME NEW k PROVE k \in b <=> \/ k \in 12 .. 16 /\ 2 + k - 12 \in w
                                     \/ k \in 17 .. 17 /\ 12 + k - 17 \in w
  BY DEF Taken
<1>3. LuiImm(w) = Signed(c, 17)
  BY DEF LuiImm
<1> HIDE DEF b, c
<1>4. c \in SUBSET (0 .. 17)
  BY <1>1
<1>5. c = b
  BY <1>1, <1>2
<1>6. Signed(c, 17) = WithSign(17, c)
  BY <1>4 DEF Signed, WithSign
<1> QED  BY <1>3, <1>5, <1>6 DEF b

LEMMA CJ ==
  ASSUME NEW w \in SUBSET (0 .. 31)
  PROVE  JImm(w) = WithSign(11,
           ((Taken(w, 1, 3, 3) \cup Taken(w, 4, 4, 11))
           \cup (Taken(w, 5, 5, 2) \cup Taken(w, 6, 6, 7)))
           \cup ((Taken(w, 7, 7, 6) \cup Taken(w, 8, 9, 9))
           \cup (Taken(w, 10, 10, 8) \cup Taken(w, 11, 11, 12))))
<1> DEFINE b == ((Taken(w, 1, 3, 3) \cup Taken(w, 4, 4, 11))
                \cup (Taken(w, 5, 5, 2) \cup Taken(w, 6, 6, 7)))
                \cup ((Taken(w, 7, 7, 6) \cup Taken(w, 8, 9, 9))
                \cup (Taken(w, 10, 10, 8) \cup Taken(w, 11, 11, 12)))
           c == (Shr(w, 1) \cap {6, 8, 9, 11}) \cup (Shl(w, 2) \cap {10}) \cup (Shl(w, 1) \cap {7})
                \cup (Shl(w, 3) \cap {5}) \cup (Shr(w, 7) \cap {4}) \cup (Shr(w, 2) \cap 1 .. 3)
<1>1. ASSUME NEW k PROVE k \in c <=> \/ k \in {6, 8, 9, 11} /\ k + 1 \in w
                                     \/ k \in 10 .. 10 /\ k - 2 \in w
                                     \/ k \in 7 .. 7 /\ k - 1 \in w
                                     \/ k \in 5 .. 5 /\ k - 3 \in w
                                     \/ k \in 4 .. 4 /\ k + 7 \in w
                                     \/ k \in 1 .. 3 /\ k + 2 \in w
  BY ShrIn, ShlIn, w \in SUBSET Int
<1>2. ASSUME NEW k PROVE k \in b <=> \/ k \in 1 .. 3 /\ 3 + k - 1 \in w
                                     \/ k \in 4 .. 4 /\ 11 + k - 4 \in w
                                     \/ k \in 5 .. 5 /\ 2 + k - 5 \in w
                                     \/ k \in 6 .. 6 /\ 7 + k - 6 \in w
                                     \/ k \in 7 .. 7 /\ 6 + k - 7 \in w
                                     \/ k \in 8 .. 9 /\ 9 + k - 8 \in w
                                     \/ k \in 10 .. 10 /\ 8 + k - 10 \in w
                                     \/ k \in 11 .. 11 /\ 12 + k - 11 \in w
  BY DEF Taken
<1>3. JImm(w) = Signed(c, 11)
  BY DEF JImm
<1> HIDE DEF b, c
<1>4. c \in SUBSET (0 .. 11)
  BY <1>1
<1>5. c = b
  BY <1>1, <1>2
<1>6. Signed(c, 11) = WithSign(11, c)
  BY <1>4 DEF Signed, WithSign
<1> QED  BY <1>3, <1>5, <1>6 DEF b

LEMMA CB ==
  ASSUME NEW w \in SUBSET (0 .. 31)
  PROVE  BImm(w) = WithSign(8,
           (Taken(w, 1, 2, 3) \cup Taken(w, 3, 4, 10))
           \cup ((Taken(w, 5, 5, 2) \cup Taken(w, 6, 7, 5))
           \cup Taken(w, 8, 8, 12)))
<1> DEFINE b == (Taken(w, 1, 2, 3) \cup Taken(w, 3, 4, 10))
                \cup ((Taken(w, 5, 5, 2) \cup Taken(w, 6, 7, 5))
                \cup Taken(w, 8, 8, 12))
           c == (Shr(w, 4) \cap {8}) \cup (Shl(w, 1) \cap {6, 7}) \cup (Shl(w, 3) \cap {5})
              \cup (Shr(w, 7) \cap {3, 4})
                \cup (Shr(w, 2) \cap {1, 2})
<1>1. ASSUME NEW k PROVE k \in c <=> \/ k \in 8 .. 8 /\ k + 4 \in w
                                     \/ k \in 6 .. 7 /\ k - 1 \in w
                                     \/ k \in 5 .. 5 /\ k - 3 \in w
                                     \/ k \in 3 .. 4 /\ k + 7 \in w
                                     \/ k \in 1 .. 2 /\ k + 2 \in w
  BY ShrIn, ShlIn, w \in SUBSET Int
<1>2. ASSUME NEW k PROVE k \in b <=> \/ k \in 1 .. 2 /\ 3 + k - 1 \in w
                                     \/ k \in 3 .. 4 /\ 10 + k - 3 \in w
                                     \/ k \in 5 .. 5 /\ 2 + k - 5 \in w
                                     \/ k \in 6 .. 7 /\ 5 + k - 6 \in w
                                     \/ k \in 8 .. 8 /\ 12 + k - 8 \in w
  BY DEF Taken
<1>3. BImm(w) = Signed(c, 8)
  BY DEF BImm
<1> HIDE DEF b, c
<1>4. c \in SUBSET (0 .. 8)
  BY <1>1
<1>5. c = b
  BY <1>1, <1>2
<1>6. Signed(c, 8) = WithSign(8, c)
  BY <1>4 DEF Signed, WithSign
<1> QED  BY <1>3, <1>5, <1>6 DEF b

-----------------------------------------------------------------------------
(* Words of a format *)

(* The handler's view of a word, whichever quadrant it is in *)
Result(w) ==
  IF w = {} THEN Illegal
  ELSE CASE Bits(w, 2, 0) = 0 -> quadrant0(w)
         [] Bits(w, 2, 0) = 1 -> quadrant1(w)
         [] Bits(w, 2, 0) = 2 -> quadrant2(w)
         [] Bits(w, 2, 0) = 3 -> execute32(w)

(* The bits of a format lie within its size, and its words have its fixed bits. *)
Proper(f) ==
  /\ f.size \in {2, 4}
  /\ f.ones \subseteq 0 .. (8 * f.size - 1) /\ Varying(f) \subseteq 0 .. (8 * f.size - 1)
OfForm(f, w) ==
  /\ w \in SUBSET (0 .. 31)
  /\ \A k \in 0 .. (8 * f.size - 1) : k \notin Varying(f) => (k \in w <=> k \in f.ones)

Decodes(f) ==
  /\ Proper(f)
  /\ \A w : OfForm(f, w) /\ ~ Reserved(f, w) /\ Exact(f, w) => Result(w) = Meaning(f, w)

LEMMA Means ==
  ASSUME NEW f, NEW w, NEW dom, NEW ran, NEW bits, IsImm(f.imm, w, dom, ran, bits)
  PROVE  /\ f.signed = FALSE =>
              Meaning(f, w) = Insn(f.op, f.n, Value(w, f.rd), Value(w, f.rs1), Value(w, f.rs2),
                                   Value(w, f.rs3), bits)
         /\ f.signed = TRUE =>
              Meaning(f, w) = Insn(f.op, f.n, Value(w, f.rd), Value(w, f.rs1), Value(w, f.rs2),
                                   Value(w, f.rs3), WithSign(Max(dom), bits))
         /\ Varying(f) = Field(f.rd) \cup Field(f.rs1) \cup Field(f.rs2) \cup Field(f.rs3) \cup ran
            \cup f.free
<1>1. DOMAIN f.imm = dom /\ Ran(f.imm) = ran /\ {k \in DOMAIN f.imm : f.imm[k] \in w} = bits
  BY DEF IsImm, Pick
<1>2. bits \cup {} = bits
  OBVIOUS
<1> QED  BY <1>1, <1>2 DEF Meaning, Varying, WithSign

LEMMA NoImmIs == ASSUME NEW w PROVE IsImm(NoImm, w, {}, {}, {})
BY DEF NoImm, IsImm, Ran, Pick

LEMMA MajorIn ==
  ASSUME NEW m, NEW f3, NEW k \in Int
  PROVE  k \in Major(m, f3) <=> k \in {0, 1} \/ k - 2 \in BitsOf(m) \/ k - 12 \in BitsOf(f3)
BY AtIn DEF Major

(* The opcode and funct3 of a word with their bits fixed *)
LEMMA MajorOpcode ==
  ASSUME NEW w \in SUBSET (0 .. 31), NEW m \in 0 .. 31, NEW f3 \in 0 .. 7,
         \A k \in 0 .. 6 : k \in w <=> k \in Major(m, f3)
  PROVE  Opcode(w) = 3 + 4 * m /\ Result(w) = execute32(w)
<1>1. \A k \in Int : k \in Shr(w, 0) <=> k \in Nat /\ k \in w
  BY ShrIn, w \in SUBSET Int
<1>2. BitsOf(m) \subseteq 0 .. 4 /\ BitsOf(f3) \subseteq 0 .. 2
  BY BitsBelow
<1>3. /\ 0 \in w /\ 1 \in w
      /\ 2 \in w <=> 0 \in BitsOf(m)
      /\ 3 \in w <=> 1 \in BitsOf(m)
      /\ 4 \in w <=> 2 \in BitsOf(m)
      /\ 5 \in w <=> 3 \in BitsOf(m)
      /\ 6 \in w <=> 4 \in BitsOf(m)
  BY <1>2, MajorIn
<1>4. Num(BitsOf(m)) = m
  BY NumOfBits
<1>5. 5 \notin BitsOf(m) /\ 6 \notin BitsOf(m)
  BY <1>2
<1>6. Opcode(w) = 3 + 4 * m
  <2> DEFINE s == Shr(w, 0) \cap 0 .. (7 - 1)
  <2>1. \A k \in 0 .. 6 : k \in s <=> k \in w
    BY <1>1
  <2>2. Opcode(w) = Num(s)
    BY DEF Opcode, Bits
  <2> HIDE DEF s
  <2> QED  BY <2>1, <2>2, <1>3, <1>4, <1>5 DEF Num
<1>7. Bits(w, 2, 0) = 3
  <2> DEFINE s == Shr(w, 0) \cap 0 .. (2 - 1)
  <2>1. 0 \in s /\ 1 \in s /\ \A k \in 2 .. 6 : k \notin s
    BY <1>1, <1>3
  <2>2. Bits(w, 2, 0) = Num(s)
    BY DEF Bits
  <2> HIDE DEF s
  <2> QED  BY <2>1, <2>2 DEF Num
<1> QED  BY <1>3, <1>6, <1>7 DEF Result

LEMMA MajorFunct3 ==
  ASSUME NEW w \in SUBSET (0 .. 31), NEW m \in 0 .. 31, NEW f3 \in 0 .. 7,
         \A k \in 12 .. 14 : k \in w <=> k \in Major(m, f3)
  PROVE  Funct3(w) = f3
<1>1. BitsOf(m) \subseteq 0 .. 4 /\ BitsOf(f3) \subseteq 0 .. 2
  BY BitsBelow
<1>2. \A j \in 0 .. 2 : 12 + j \in w <=> j \in BitsOf(f3)
  BY <1>1, MajorIn
<1>3. w \in SUBSET Int /\ 12 \in Nat
  OBVIOUS
<1>4. Bits(w, 3, 12) = f3
  BY ONLY <1>2, <1>3, ThreeBits, f3 \in 0 .. 7
<1> QED  BY <1>4 DEF Funct3

LEMMA FixedFunct7 ==
  ASSUME NEW w \in SUBSET (0 .. 31), NEW f7 \in 0 .. 127,
         \A k \in 25 .. 31 : k \in w <=> k \in At(f7, 25)
  PROVE  Funct7(w) = f7
<1>1. BitsOf(f7) \subseteq 0 .. 6
  BY BitsBelow
<1>2. \A j \in 0 .. 6 : 25 + j \in w <=> j \in BitsOf(f7)
  BY AtIn
<1>3. w \in SUBSET Int /\ 25 \in Nat
  OBVIOUS
<1>4. Bits(w, 7, 25) = f7
  BY ONLY <1>2, <1>3, SevenBits, f7 \in 0 .. 127
<1> QED  BY <1>4 DEF Funct7
-----------------------------------------------------------------------------
(* The layouts of 32-bit instructions *)

LEMMA AtBelow ==
  /\ \A f3 \in 0 .. 7, lo \in Int : At(f3, lo) \subseteq lo .. (lo + 2)
  /\ \A m \in 0 .. 31, lo \in Int : At(m, lo) \subseteq lo .. (lo + 4)
  /\ \A f7 \in 0 .. 127, lo \in Int : At(f7, lo) \subseteq lo .. (lo + 6)
BY BitsBelow DEF At

LEMMA MajorBelow ==
  ASSUME NEW m \in 0 .. 31, NEW f3 \in 0 .. 7
  PROVE  Major(m, f3) \subseteq 0 .. 6 \cup 12 .. 14
<1>1. At(m, 2) \subseteq 2 .. 6
  BY AtBelow, 2 + 4 = 6
<1>2. At(f3, 12) \subseteq 12 .. 14
  BY AtBelow, 12 + 2 = 14
<1> QED  BY <1>1, <1>2 DEF Major

(* A format of the opcode map: the fixed bits are the opcode, sometimes funct3,
   and others above. *)
Layout(f, m, f3, extra) ==
  /\ m \in 0 .. 31 /\ f3 \in 0 .. 7
  /\ f.size = 4 /\ f.ones = Major(m, f3) \cup extra
  /\ extra \subseteq 12 .. 31 /\ Varying(f) \subseteq 7 .. 31
FixesFunct3(f, extra) == extra \subseteq 15 .. 31 /\ Varying(f) \cap 12 .. 14 = {}
FixesFunct7(f, f7, extra) ==
  f7 \in 0 .. 127 /\ extra \cap 25 .. 31 = At(f7, 25) /\ Varying(f) \cap 25 .. 31 = {}
(* A word of a format of the opcode map *)
Word32(f, m, w) ==
  /\ w \in SUBSET (0 .. 31) /\ Opcode(w) = 3 + 4 * m /\ Result(w) = execute32(w)
  /\ \A k \in 0 .. 31 : k \notin Varying(f) => (k \in w <=> k \in f.ones)

LEMMA Form32 ==
  ASSUME NEW f, NEW m, NEW f3, NEW extra, NEW w, Layout(f, m, f3, extra)
  PROVE  /\ Proper(f)
         /\ OfForm(f, w) => Word32(f, m, w)
         /\ OfForm(f, w) /\ FixesFunct3(f, extra) => Funct3(w) = f3
         /\ \A f7 : OfForm(f, w) /\ FixesFunct7(f, f7, extra) => Funct7(w) = f7
<1> USE DEF Layout
<1>1. 0 .. (8 * f.size - 1) = 0 .. 31
  BY 8 * 4 - 1 = 31
<1>2. Major(m, f3) \subseteq 0 .. 6 \cup 12 .. 14
  BY MajorBelow
<1>3. Proper(f)
  <2>1. f.ones \subseteq 0 .. 31
    <3>1. \A k \in Major(m, f3) : k \in 0 .. 31
      BY <1>2
    <3>2. \A k \in extra : k \in 0 .. 31
      OBVIOUS
    <3> QED  BY <3>1, <3>2, Zenon
  <2>2. Varying(f) \subseteq 0 .. 31
    OBVIOUS
  <2>3. f.size \in {2, 4}
    OBVIOUS
  <2> QED  BY ONLY <1>1, <2>1, <2>3, <2>2 DEF Proper
<1>4. ASSUME OfForm(f, w)
      PROVE  /\ w \in SUBSET (0 .. 31) /\ Opcode(w) = 3 + 4 * m
             /\ Result(w) = execute32(w)
             /\ \A k \in 0 .. 31 : k \notin Varying(f) => (k \in w <=> k \in f.ones)
  <2>1. w \in SUBSET (0 .. 31) /\ \A k \in 0 .. 31 : k \notin Varying(f) =>
        (k \in w <=> k \in f.ones)
    BY <1>1, <1>4 DEF OfForm
  <2>2. \A k \in 0 .. 6 : k \in w <=> k \in Major(m, f3)
    BY <2>1
  <2> QED  BY <2>1, <2>2, MajorOpcode
<1>5. ASSUME OfForm(f, w), FixesFunct3(f, extra)
      PROVE  Funct3(w) = f3
  <2>1. \A k \in 12 .. 14 : k \in w <=> k \in Major(m, f3)
    BY <1>4, <1>5 DEF FixesFunct3
  <2> QED  BY <2>1, <1>4, <1>5, MajorFunct3
<1>6. ASSUME NEW f7, OfForm(f, w), FixesFunct7(f, f7, extra)
      PROVE  Funct7(w) = f7
  <2>1. \A k \in 25 .. 31 : k \in w <=> k \in At(f7, 25)
    BY <1>2, <1>4, <1>6 DEF FixesFunct7
  <2> QED  BY <2>1, <1>4, <1>6, FixedFunct7 DEF FixesFunct7
<1> QED  BY <1>3, <1>4, <1>5, <1>6 DEF Word32

LEMMA At7Below == ASSUME NEW f7 \in 0 .. 127 PROVE At(f7, 25) \subseteq 25 .. 31
BY AtBelow, 25 + 6 = 31

-----------------------------------------------------------------------------
(* The immediate of a format: x, as the handler computes it *)

Takes(f, w, x) ==
  Meaning(f, w) = Insn(f.op, f.n, Value(w, f.rd), Value(w, f.rs1), Value(w, f.rs2), Value(w, f.rs3),
  x)

LEMMA MaxIs ==
  ASSUME NEW s \in SUBSET Int, NEW top \in s, \A y \in s : top >= y
  PROVE  Max(s) = top
<1>1. \A x \in s : (\A y \in s : x >= y) => x = top
  OBVIOUS
<1> QED  BY <1>1 DEF Max

LEMMA TakesUnsigned ==
  ASSUME NEW f, NEW w, NEW dom, NEW ran, NEW bits, NEW x, IsImm(f.imm, w, dom, ran, bits), x = bits
  PROVE  f.signed = FALSE => Takes(f, w, x)
BY Means, Zenon DEF Takes

LEMMA TakesSigned ==
  ASSUME NEW f, NEW w, NEW dom, NEW ran, NEW bits, NEW x, IsImm(f.imm, w, dom, ran, bits),
         NEW top, Max(dom) = top, x = WithSign(top, bits)
  PROVE  f.signed = TRUE => Takes(f, w, x)
BY Means, Zenon DEF Takes

LEMMA TakesI ==
  ASSUME NEW f, NEW w \in SUBSET (0 .. 31), f.imm = ImmI
  PROVE  /\ Ran(f.imm) = 20 .. 31
         /\ f.signed = TRUE => Takes(f, w, imm_i(w))
<1> DEFINE dom == 0 .. 11
           ran == 20 .. 31
           bits == Taken(w, 0, 11, 20)
<1>1. IsImm(f.imm, w, dom, ran, bits)
  BY ImmIIs
<1>2. Ran(f.imm) = 20 .. 31
  BY <1>1 DEF IsImm
<1>3. Max(dom) = 11
  <2>1. dom \in SUBSET Int /\ 11 \in dom /\ \A y \in dom : 11 >= y
    OBVIOUS
  <2> HIDE DEF dom
  <2> QED  BY <2>1, MaxIs
<1>4. f.signed = TRUE => Takes(f, w, imm_i(w))
  <2>1. imm_i(w) = WithSign(11, bits)
    BY ImmediateI
  <2> HIDE DEF dom, ran, bits
  <2> QED  BY <1>1, <1>3, <2>1, TakesSigned
<1> QED  BY <1>2, <1>4

LEMMA TakesCsr ==
  ASSUME NEW f, NEW w \in SUBSET (0 .. 31), f.imm = ImmI
  PROVE  /\ Ran(f.imm) = 20 .. 31
         /\ f.signed = FALSE => Takes(f, w, Csr(w))
<1> DEFINE dom == 0 .. 11
           ran == 20 .. 31
           bits == Taken(w, 0, 11, 20)
<1>1. IsImm(f.imm, w, dom, ran, bits)
  BY ImmIIs
<1>2. Ran(f.imm) = 20 .. 31
  BY <1>1 DEF IsImm
<1>3. f.signed = FALSE => Takes(f, w, Csr(w))
  <2>1. Csr(w) = bits
    BY ImmediateCsr
  <2> HIDE DEF dom, ran, bits
  <2> QED  BY <1>1, <2>1, TakesUnsigned
<1> QED  BY <1>2, <1>3

LEMMA TakesS ==
  ASSUME NEW f, NEW w \in SUBSET (0 .. 31), f.imm = ImmS
  PROVE  /\ Ran(f.imm) = 7 .. 11 \cup 25 .. 31
         /\ f.signed = TRUE => Takes(f, w, imm_s(w))
<1> DEFINE dom == 0 .. 4 \cup 5 .. 11
           ran == 7 .. 11 \cup 25 .. 31
           bits == Taken(w, 0, 4, 7) \cup Taken(w, 5, 11, 25)
<1>1. IsImm(f.imm, w, dom, ran, bits)
  BY ImmSIs
<1>2. Ran(f.imm) = 7 .. 11 \cup 25 .. 31
  BY <1>1 DEF IsImm
<1>3. Max(dom) = 11
  <2>1. dom \in SUBSET Int /\ 11 \in dom /\ \A y \in dom : 11 >= y
    OBVIOUS
  <2> HIDE DEF dom
  <2> QED  BY <2>1, MaxIs
<1>4. f.signed = TRUE => Takes(f, w, imm_s(w))
  <2>1. imm_s(w) = WithSign(11, bits)
    BY ImmediateS
  <2> HIDE DEF dom, ran, bits
  <2> QED  BY <1>1, <1>3, <2>1, TakesSigned
<1> QED  BY <1>2, <1>4

LEMMA TakesB ==
  ASSUME NEW f, NEW w \in SUBSET (0 .. 31), f.imm = ImmB
  PROVE  /\ Ran(f.imm) = 7 .. 11 \cup 25 .. 31
         /\ f.signed = TRUE => Takes(f, w, imm_b(w))
<1> DEFINE dom == (1 .. 4 \cup 5 .. 10) \cup (11 .. 11 \cup 12 .. 12)
           ran == (8 .. 11 \cup 25 .. 30) \cup (7 .. 7 \cup 31 .. 31)
           bits == (Taken(w, 1, 4, 8) \cup Taken(w, 5, 10, 25)) \cup (Taken(w, 11, 11, 7) \cup
                  Taken(w, 12, 12, 31))
<1>1. IsImm(f.imm, w, dom, ran, bits)
  BY ImmBIs
<1>2. Ran(f.imm) = 7 .. 11 \cup 25 .. 31
  <2>1. ran = 7 .. 11 \cup 25 .. 31
    OBVIOUS
  <2> HIDE DEF ran
  <2> QED  BY <1>1, <2>1 DEF IsImm
<1>3. Max(dom) = 12
  <2>1. dom \in SUBSET Int /\ 12 \in dom /\ \A y \in dom : 12 >= y
    OBVIOUS
  <2> HIDE DEF dom
  <2> QED  BY <2>1, MaxIs
<1>4. f.signed = TRUE => Takes(f, w, imm_b(w))
  <2>1. imm_b(w) = WithSign(12, bits)
    BY ImmediateB
  <2> HIDE DEF dom, ran, bits
  <2> QED  BY <1>1, <1>3, <2>1, TakesSigned
<1> QED  BY <1>2, <1>4

LEMMA TakesU ==
  ASSUME NEW f, NEW w \in SUBSET (0 .. 31), f.imm = ImmU
  PROVE  /\ Ran(f.imm) = 12 .. 31
         /\ f.signed = TRUE => Takes(f, w, imm_u(w))
<1> DEFINE dom == 12 .. 31
           ran == 12 .. 31
           bits == Taken(w, 12, 31, 12)
<1>1. IsImm(f.imm, w, dom, ran, bits)
  BY ImmUIs
<1>2. Ran(f.imm) = 12 .. 31
  BY <1>1 DEF IsImm
<1>3. Max(dom) = 31
  <2>1. dom \in SUBSET Int /\ 31 \in dom /\ \A y \in dom : 31 >= y
    OBVIOUS
  <2> HIDE DEF dom
  <2> QED  BY <2>1, MaxIs
<1>4. f.signed = TRUE => Takes(f, w, imm_u(w))
  <2>1. imm_u(w) = WithSign(31, bits)
    BY ImmediateU
  <2> HIDE DEF dom, ran, bits
  <2> QED  BY <1>1, <1>3, <2>1, TakesSigned
<1> QED  BY <1>2, <1>4

LEMMA TakesJ ==
  ASSUME NEW f, NEW w \in SUBSET (0 .. 31), f.imm = ImmJ
  PROVE  /\ Ran(f.imm) = 12 .. 31
         /\ f.signed = TRUE => Takes(f, w, imm_j(w))
<1> DEFINE dom == (1 .. 10 \cup 11 .. 11) \cup (12 .. 19 \cup 20 .. 20)
           ran == (21 .. 30 \cup 20 .. 20) \cup (12 .. 19 \cup 31 .. 31)
           bits == (Taken(w, 1, 10, 21) \cup Taken(w, 11, 11, 20)) \cup (Taken(w, 12, 19, 12) \cup
                  Taken(w, 20, 20, 31))
<1>1. IsImm(f.imm, w, dom, ran, bits)
  BY ImmJIs
<1>2. Ran(f.imm) = 12 .. 31
  <2>1. ran = 12 .. 31
    OBVIOUS
  <2> HIDE DEF ran
  <2> QED  BY <1>1, <2>1 DEF IsImm
<1>3. Max(dom) = 20
  <2>1. dom \in SUBSET Int /\ 20 \in dom /\ \A y \in dom : 20 >= y
    OBVIOUS
  <2> HIDE DEF dom
  <2> QED  BY <2>1, MaxIs
<1>4. f.signed = TRUE => Takes(f, w, imm_j(w))
  <2>1. imm_j(w) = WithSign(20, bits)
    BY ImmediateJ
  <2> HIDE DEF dom, ran, bits
  <2> QED  BY <1>1, <1>3, <2>1, TakesSigned
<1> QED  BY <1>2, <1>4

LEMMA TakesShamt32 ==
  ASSUME NEW f, NEW w \in SUBSET (0 .. 31), f.imm = Shamt(32)
  PROVE  /\ Ran(f.imm) = 20 .. 24
         /\ f.signed = FALSE /\ 25 \notin w => Takes(f, w, shamt(w))
<1> DEFINE dom == 0 .. 4
           ran == 20 .. 24
           bits == Taken(w, 0, 4, 20)
<1>1. IsImm(f.imm, w, dom, ran, bits)
  BY Shamt32Is
<1>2. Ran(f.imm) = 20 .. 24
  BY <1>1 DEF IsImm
<1>3. ASSUME 25 \notin w PROVE f.signed = FALSE => Takes(f, w, shamt(w))
  <2>1. shamt(w) = bits
    BY <1>3, ShiftCounts
  <2> HIDE DEF dom, ran, bits
  <2> QED  BY <1>1, <2>1, TakesUnsigned
<1> QED  BY <1>2, <1>3

LEMMA TakesShamt64 ==
  ASSUME NEW f, NEW w \in SUBSET (0 .. 31), f.imm = Shamt(64)
  PROVE  /\ Ran(f.imm) = 20 .. 25
         /\ f.signed = FALSE => Takes(f, w, shamt(w))
<1> DEFINE dom == 0 .. 5
           ran == 20 .. 25
           bits == Taken(w, 0, 5, 20)
<1>1. IsImm(f.imm, w, dom, ran, bits)
  BY Shamt64Is
<1>2. Ran(f.imm) = 20 .. 25
  BY <1>1 DEF IsImm
<1>3. f.signed = FALSE => Takes(f, w, shamt(w))
  <2>1. shamt(w) = bits
    BY ShiftCounts
  <2> HIDE DEF dom, ran, bits
  <2> QED  BY <1>1, <2>1, TakesUnsigned
<1> QED  BY <1>2, <1>3

LEMMA TakesImm6 ==
  ASSUME NEW f, NEW w \in SUBSET (0 .. 31), f.imm = CImm
  PROVE  /\ Ran(f.imm) = 2 .. 6 \cup 12 .. 12
         /\ f.signed = TRUE => Takes(f, w, Imm6(w))
<1> DEFINE dom == 0 .. 4 \cup 5 .. 5
           ran == 2 .. 6 \cup 12 .. 12
           bits == Taken(w, 0, 4, 2) \cup Taken(w, 5, 5, 12)
<1>1. IsImm(f.imm, w, dom, ran, bits)
  BY CImmIs
<1>2. Ran(f.imm) = 2 .. 6 \cup 12 .. 12
  BY <1>1 DEF IsImm
<1>3. Max(dom) = 5
  <2>1. dom \in SUBSET Int /\ 5 \in dom /\ \A y \in dom : 5 >= y
    OBVIOUS
  <2> HIDE DEF dom
  <2> QED  BY <2>1, MaxIs
<1>4. f.signed = TRUE => Takes(f, w, Imm6(w))
  <2>1. Imm6(w) = WithSign(5, bits)
    BY CImm6
  <2> HIDE DEF dom, ran, bits
  <2> QED  BY <1>1, <1>3, <2>1, TakesSigned
<1> QED  BY <1>2, <1>4

LEMMA TakesCShamt ==
  ASSUME NEW f, NEW w \in SUBSET (0 .. 31), f.imm = CImm
  PROVE  /\ Ran(f.imm) = 2 .. 6 \cup 12 .. 12
         /\ f.signed = FALSE => Takes(f, w, CompressedShamt(w))
<1> DEFINE dom == 0 .. 4 \cup 5 .. 5
           ran == 2 .. 6 \cup 12 .. 12
           bits == Taken(w, 0, 4, 2) \cup Taken(w, 5, 5, 12)
<1>1. IsImm(f.imm, w, dom, ran, bits)
  BY CImmIs
<1>2. Ran(f.imm) = 2 .. 6 \cup 12 .. 12
  BY <1>1 DEF IsImm
<1>3. f.signed = FALSE => Takes(f, w, CompressedShamt(w))
  <2>1. CompressedShamt(w) = bits
    BY CShamt
  <2> HIDE DEF dom, ran, bits
  <2> QED  BY <1>1, <2>1, TakesUnsigned
<1> QED  BY <1>2, <1>3

LEMMA TakesQ032 ==
  ASSUME NEW f, NEW w \in SUBSET (0 .. 31), f.imm = ImmQ0(32)
  PROVE  /\ Ran(f.imm) = 5 .. 6 \cup 10 .. 12
         /\ f.signed = FALSE => Takes(f, w, WordOffset(w))
<1> DEFINE dom == (3 .. 5 \cup 2 .. 2) \cup 6 .. 6
           ran == (10 .. 12 \cup 6 .. 6) \cup 5 .. 5
           bits == (Taken(w, 3, 5, 10) \cup Taken(w, 2, 2, 6)) \cup Taken(w, 6, 6, 5)
<1>1. IsImm(f.imm, w, dom, ran, bits)
  BY ImmQ032Is
<1>2. Ran(f.imm) = 5 .. 6 \cup 10 .. 12
  <2>1. ran = 5 .. 6 \cup 10 .. 12
    OBVIOUS
  <2> HIDE DEF ran
  <2> QED  BY <1>1, <2>1 DEF IsImm
<1>3. f.signed = FALSE => Takes(f, w, WordOffset(w))
  <2>1. WordOffset(w) = bits
    BY CWordOffset
  <2> HIDE DEF dom, ran, bits
  <2> QED  BY <1>1, <2>1, TakesUnsigned
<1> QED  BY <1>2, <1>3

LEMMA TakesQ064 ==
  ASSUME NEW f, NEW w \in SUBSET (0 .. 31), f.imm = ImmQ0(64)
  PROVE  /\ Ran(f.imm) = 5 .. 6 \cup 10 .. 12
         /\ f.signed = FALSE => Takes(f, w, DoubleOffset(w))
<1> DEFINE dom == 3 .. 5 \cup 6 .. 7
           ran == 10 .. 12 \cup 5 .. 6
           bits == Taken(w, 3, 5, 10) \cup Taken(w, 6, 7, 5)
<1>1. IsImm(f.imm, w, dom, ran, bits)
  BY ImmQ064Is
<1>2. Ran(f.imm) = 5 .. 6 \cup 10 .. 12
  <2>1. ran = 5 .. 6 \cup 10 .. 12
    OBVIOUS
  <2> HIDE DEF ran
  <2> QED  BY <1>1, <2>1 DEF IsImm
<1>3. f.signed = FALSE => Takes(f, w, DoubleOffset(w))
  <2>1. DoubleOffset(w) = bits
    BY CDoubleOffset
  <2> HIDE DEF dom, ran, bits
  <2> QED  BY <1>1, <2>1, TakesUnsigned
<1> QED  BY <1>2, <1>3

LEMMA TakesLoadSp32 ==
  ASSUME NEW f, NEW w \in SUBSET (0 .. 31), f.imm = ImmLoadSp(32)
  PROVE  /\ Ran(f.imm) = 2 .. 6 \cup 12 .. 12
         /\ f.signed = FALSE => Takes(f, w, WordLoadSp(w))
<1> DEFINE dom == (2 .. 4 \cup 5 .. 5) \cup 6 .. 7
           ran == (4 .. 6 \cup 12 .. 12) \cup 2 .. 3
           bits == (Taken(w, 2, 4, 4) \cup Taken(w, 5, 5, 12)) \cup Taken(w, 6, 7, 2)
<1>1. IsImm(f.imm, w, dom, ran, bits)
  BY ImmLoadSp32Is
<1>2. Ran(f.imm) = 2 .. 6 \cup 12 .. 12
  <2>1. ran = 2 .. 6 \cup 12 .. 12
    OBVIOUS
  <2> HIDE DEF ran
  <2> QED  BY <1>1, <2>1 DEF IsImm
<1>3. f.signed = FALSE => Takes(f, w, WordLoadSp(w))
  <2>1. WordLoadSp(w) = bits
    BY CWordLoadSp
  <2> HIDE DEF dom, ran, bits
  <2> QED  BY <1>1, <2>1, TakesUnsigned
<1> QED  BY <1>2, <1>3

LEMMA TakesLoadSp64 ==
  ASSUME NEW f, NEW w \in SUBSET (0 .. 31), f.imm = ImmLoadSp(64)
  PROVE  /\ Ran(f.imm) = 2 .. 6 \cup 12 .. 12
         /\ f.signed = FALSE => Takes(f, w, DoubleLoadSp(w))
<1> DEFINE dom == (3 .. 4 \cup 5 .. 5) \cup 6 .. 8
           ran == (5 .. 6 \cup 12 .. 12) \cup 2 .. 4
           bits == (Taken(w, 3, 4, 5) \cup Taken(w, 5, 5, 12)) \cup Taken(w, 6, 8, 2)
<1>1. IsImm(f.imm, w, dom, ran, bits)
  BY ImmLoadSp64Is
<1>2. Ran(f.imm) = 2 .. 6 \cup 12 .. 12
  <2>1. ran = 2 .. 6 \cup 12 .. 12
    OBVIOUS
  <2> HIDE DEF ran
  <2> QED  BY <1>1, <2>1 DEF IsImm
<1>3. f.signed = FALSE => Takes(f, w, DoubleLoadSp(w))
  <2>1. DoubleLoadSp(w) = bits
    BY CDoubleLoadSp
  <2> HIDE DEF dom, ran, bits
  <2> QED  BY <1>1, <2>1, TakesUnsigned
<1> QED  BY <1>2, <1>3

LEMMA TakesStoreSp32 ==
  ASSUME NEW f, NEW w \in SUBSET (0 .. 31), f.imm = ImmStoreSp(32)
  PROVE  /\ Ran(f.imm) = 7 .. 12
         /\ f.signed = FALSE => Takes(f, w, WordStoreSp(w))
<1> DEFINE dom == 2 .. 5 \cup 6 .. 7
           ran == 9 .. 12 \cup 7 .. 8
           bits == Taken(w, 2, 5, 9) \cup Taken(w, 6, 7, 7)
<1>1. IsImm(f.imm, w, dom, ran, bits)
  BY ImmStoreSp32Is
<1>2. Ran(f.imm) = 7 .. 12
  <2>1. ran = 7 .. 12
    OBVIOUS
  <2> HIDE DEF ran
  <2> QED  BY <1>1, <2>1 DEF IsImm
<1>3. f.signed = FALSE => Takes(f, w, WordStoreSp(w))
  <2>1. WordStoreSp(w) = bits
    BY CWordStoreSp
  <2> HIDE DEF dom, ran, bits
  <2> QED  BY <1>1, <2>1, TakesUnsigned
<1> QED  BY <1>2, <1>3

LEMMA TakesStoreSp64 ==
  ASSUME NEW f, NEW w \in SUBSET (0 .. 31), f.imm = ImmStoreSp(64)
  PROVE  /\ Ran(f.imm) = 7 .. 12
         /\ f.signed = FALSE => Takes(f, w, DoubleStoreSp(w))
<1> DEFINE dom == 3 .. 5 \cup 6 .. 8
           ran == 10 .. 12 \cup 7 .. 9
           bits == Taken(w, 3, 5, 10) \cup Taken(w, 6, 8, 7)
<1>1. IsImm(f.imm, w, dom, ran, bits)
  BY ImmStoreSp64Is
<1>2. Ran(f.imm) = 7 .. 12
  <2>1. ran = 7 .. 12
    OBVIOUS
  <2> HIDE DEF ran
  <2> QED  BY <1>1, <2>1 DEF IsImm
<1>3. f.signed = FALSE => Takes(f, w, DoubleStoreSp(w))
  <2>1. DoubleStoreSp(w) = bits
    BY CDoubleStoreSp
  <2> HIDE DEF dom, ran, bits
  <2> QED  BY <1>1, <2>1, TakesUnsigned
<1> QED  BY <1>2, <1>3

LEMMA TakesCB ==
  ASSUME NEW f, NEW w \in SUBSET (0 .. 31), f.imm = ImmCB
  PROVE  /\ Ran(f.imm) = 2 .. 6 \cup 10 .. 12
         /\ f.signed = TRUE => Takes(f, w, BImm(w))
<1> DEFINE dom == (1 .. 2 \cup 3 .. 4) \cup ((5 .. 5 \cup 6 .. 7) \cup 8 .. 8)
           ran == (3 .. 4 \cup 10 .. 11) \cup ((2 .. 2 \cup 5 .. 6) \cup 12 .. 12)
           bits == (Taken(w, 1, 2, 3) \cup Taken(w, 3, 4, 10))
                 \cup ((Taken(w, 5, 5, 2) \cup Taken(w,
                  6, 7, 5)) \cup Taken(w, 8, 8, 12))
<1>1. IsImm(f.imm, w, dom, ran, bits)
  BY ImmCBIs
<1>2. Ran(f.imm) = 2 .. 6 \cup 10 .. 12
  <2>1. ran = 2 .. 6 \cup 10 .. 12
    OBVIOUS
  <2> HIDE DEF ran
  <2> QED  BY <1>1, <2>1 DEF IsImm
<1>3. Max(dom) = 8
  <2>1. dom \in SUBSET Int /\ 8 \in dom /\ \A y \in dom : 8 >= y
    OBVIOUS
  <2> HIDE DEF dom
  <2> QED  BY <2>1, MaxIs
<1>4. f.signed = TRUE => Takes(f, w, BImm(w))
  <2>1. BImm(w) = WithSign(8, bits)
    BY CB
  <2> HIDE DEF dom, ran, bits
  <2> QED  BY <1>1, <1>3, <2>1, TakesSigned
<1> QED  BY <1>2, <1>4

LEMMA TakesCJ ==
  ASSUME NEW f, NEW w \in SUBSET (0 .. 31), f.imm = ImmCJ
  PROVE  /\ Ran(f.imm) = 2 .. 12
         /\ f.signed = TRUE => Takes(f, w, JImm(w))
<1> DEFINE dom == ((1 .. 3 \cup 4 .. 4) \cup (5 .. 5 \cup 6 .. 6)) \cup ((7 .. 7 \cup 8 .. 9) \cup
                 (10 .. 10 \cup 11 .. 11))
           ran == ((3 .. 5 \cup 11 .. 11) \cup (2 .. 2 \cup 7 .. 7))
                \cup ((6 .. 6 \cup 9 .. 10) \cup
                 (8 .. 8 \cup 12 .. 12))
           bits == ((Taken(w, 1, 3, 3) \cup Taken(w, 4, 4, 11))
                 \cup (Taken(w, 5, 5, 2) \cup Taken(w,
                  6, 6, 7))) \cup ((Taken(w, 7, 7, 6) \cup Taken(w, 8, 9, 9)) \cup (Taken(w, 10, 10,
                  8) \cup Taken(w, 11, 11, 12)))
<1>1. IsImm(f.imm, w, dom, ran, bits)
  BY ImmCJIs
<1>2. Ran(f.imm) = 2 .. 12
  <2>1. ran = 2 .. 12
    OBVIOUS
  <2> HIDE DEF ran
  <2> QED  BY <1>1, <2>1 DEF IsImm
<1>3. Max(dom) = 11
  <2>1. dom \in SUBSET Int /\ 11 \in dom /\ \A y \in dom : 11 >= y
    OBVIOUS
  <2> HIDE DEF dom
  <2> QED  BY <2>1, MaxIs
<1>4. f.signed = TRUE => Takes(f, w, JImm(w))
  <2>1. JImm(w) = WithSign(11, bits)
    BY CJ
  <2> HIDE DEF dom, ran, bits
  <2> QED  BY <1>1, <1>3, <2>1, TakesSigned
<1> QED  BY <1>2, <1>4

LEMMA Takes4Spn ==
  ASSUME NEW f, NEW w \in SUBSET (0 .. 31), f.imm = Imm4Spn
  PROVE  /\ Ran(f.imm) = 5 .. 12
         /\ f.signed = FALSE => Takes(f, w, Addi4SpnImm(w))
<1> DEFINE dom == (2 .. 2 \cup 3 .. 3) \cup (4 .. 5 \cup 6 .. 9)
           ran == (6 .. 6 \cup 5 .. 5) \cup (11 .. 12 \cup 7 .. 10)
           bits == (Taken(w, 2, 2, 6) \cup Taken(w, 3, 3, 5)) \cup (Taken(w, 4, 5, 11) \cup Taken(w,
                  6, 9, 7))
<1>1. IsImm(f.imm, w, dom, ran, bits)
  BY Imm4SpnIs
<1>2. Ran(f.imm) = 5 .. 12
  <2>1. ran = 5 .. 12
    OBVIOUS
  <2> HIDE DEF ran
  <2> QED  BY <1>1, <2>1 DEF IsImm
<1>3. f.signed = FALSE => Takes(f, w, Addi4SpnImm(w))
  <2>1. Addi4SpnImm(w) = bits
    BY CAddi4Spn
  <2> HIDE DEF dom, ran, bits
  <2> QED  BY <1>1, <2>1, TakesUnsigned
<1> QED  BY <1>2, <1>3

LEMMA Takes16Sp ==
  ASSUME NEW f, NEW w \in SUBSET (0 .. 31), f.imm = Imm16Sp
  PROVE  /\ Ran(f.imm) = 2 .. 6 \cup 12 .. 12
         /\ f.signed = TRUE => Takes(f, w, Addi16SpImm(w))
<1> DEFINE dom == (4 .. 4 \cup 5 .. 5) \cup ((6 .. 6 \cup 7 .. 8) \cup 9 .. 9)
           ran == (6 .. 6 \cup 2 .. 2) \cup ((5 .. 5 \cup 3 .. 4) \cup 12 .. 12)
           bits == (Taken(w, 4, 4, 6) \cup Taken(w, 5, 5, 2)) \cup ((Taken(w, 6, 6, 5) \cup Taken(w,
                  7, 8, 3)) \cup Taken(w, 9, 9, 12))
<1>1. IsImm(f.imm, w, dom, ran, bits)
  BY Imm16SpIs
<1>2. Ran(f.imm) = 2 .. 6 \cup 12 .. 12
  <2>1. ran = 2 .. 6 \cup 12 .. 12
    OBVIOUS
  <2> HIDE DEF ran
  <2> QED  BY <1>1, <2>1 DEF IsImm
<1>3. Max(dom) = 9
  <2>1. dom \in SUBSET Int /\ 9 \in dom /\ \A y \in dom : 9 >= y
    OBVIOUS
  <2> HIDE DEF dom
  <2> QED  BY <2>1, MaxIs
<1>4. f.signed = TRUE => Takes(f, w, Addi16SpImm(w))
  <2>1. Addi16SpImm(w) = WithSign(9, bits)
    BY CAddi16Sp
  <2> HIDE DEF dom, ran, bits
  <2> QED  BY <1>1, <1>3, <2>1, TakesSigned
<1> QED  BY <1>2, <1>4

LEMMA TakesCLui ==
  ASSUME NEW f, NEW w \in SUBSET (0 .. 31), f.imm = And(Run(12, 5, 2), Run(17, 1, 12))
  PROVE  /\ Ran(f.imm) = 2 .. 6 \cup 12 .. 12
         /\ f.signed = TRUE => Takes(f, w, LuiImm(w))
<1> DEFINE dom == 12 .. 16 \cup 17 .. 17
           ran == 2 .. 6 \cup 12 .. 12
           bits == Taken(w, 12, 16, 2) \cup Taken(w, 17, 17, 12)
<1>1. IsImm(f.imm, w, dom, ran, bits)
  BY CLuiImmIs
<1>2. Ran(f.imm) = 2 .. 6 \cup 12 .. 12
  BY <1>1 DEF IsImm
<1>3. Max(dom) = 17
  <2>1. dom \in SUBSET Int /\ 17 \in dom /\ \A y \in dom : 17 >= y
    OBVIOUS
  <2> HIDE DEF dom
  <2> QED  BY <2>1, MaxIs
<1>4. f.signed = TRUE => Takes(f, w, LuiImm(w))
  <2>1. LuiImm(w) = WithSign(17, bits)
    BY CLui
  <2> HIDE DEF dom, ran, bits
  <2> QED  BY <1>1, <1>3, <2>1, TakesSigned
<1> QED  BY <1>2, <1>4

LEMMA TakesNone ==
  ASSUME NEW f, NEW w, f.imm = NoImm
  PROVE  /\ Ran(f.imm) = {}
         /\ f.signed = FALSE => Takes(f, w, {})
<1>1. IsImm(f.imm, w, {}, {}, {})
  BY NoImmIs
<1> QED  BY <1>1, TakesUnsigned DEF IsImm
-----------------------------------------------------------------------------
(* What a word of each 32-bit layout gives its handler *)

LEMMA RLayout ==
  ASSUME NEW op, NEW n, NEW m, NEW f3, NEW f7, NEW w,
         m \in 0 .. 31, f3 \in 0 .. 7, f7 \in 0 .. 127
  PROVE  /\ Proper(R(op, n, m, f3, f7))
         /\ OfForm(R(op, n, m, f3, f7), w) =>
              /\ Word32(R(op, n, m, f3, f7), m, w)
              /\ Funct3(w) = f3
              /\ Funct7(w) = f7
              /\ Meaning(R(op, n, m, f3, f7), w) = Insn(op, n, RD(w), RS1(w), RS2(w), 0, {})
<1> DEFINE f == R(op, n, m, f3, f7)
           extra == At(f7, 25)
<1>1. /\ f.op = op /\ f.n = n /\ f.ones = Major(m, f3) \cup extra /\ f.size = 4
      /\ f.rd = Rd /\ f.rs1 = Rs1 /\ f.rs2 = Rs2 /\ f.rs3 = X(0)
      /\ f.imm = NoImm /\ f.signed = FALSE /\ f.free = {}
  BY DEF R, Form
<1> HIDE DEF f
<1>2. Varying(f) = 7 .. 11 \cup 15 .. 24
  <2>1. Ran(f.imm) = {}
    BY <1>1, TakesNone
  <2> QED  BY <1>1, <2>1, Fields DEF Varying
<1>3. extra \subseteq 15 .. 31
  BY At7Below
<1> HIDE DEF extra
<1>4. /\ Layout(f, m, f3, extra)
      /\ FixesFunct3(f, extra)
      /\ FixesFunct7(f, f7, extra)
  <2>1. Layout(f, m, f3, extra)
    BY <1>1, <1>2, <1>3 DEF Layout
  <2>2. FixesFunct3(f, extra)
    BY <1>2, <1>3 DEF FixesFunct3
  <2>3. FixesFunct7(f, f7, extra)
    BY <1>2, <1>3, At7Below DEF FixesFunct7, extra
  <2> QED  BY <2>1, <2>2, <2>3
<1>5. Proper(f) /\ (OfForm(f, w) => Word32(f, m, w) /\ Funct3(w) = f3 /\ Funct7(w) = f7)
  BY <1>4, Form32, Zenon
<1>6. ASSUME OfForm(f, w) PROVE Meaning(f, w) = Insn(op, n, RD(w), RS1(w), RS2(w), 0, {})
  <2>1. w \in SUBSET (0 .. 31) /\ w \in SUBSET Int
    BY <1>5, <1>6 DEF Word32
  <2>2. Takes(f, w, {})
    BY <1>1, <1>6, <2>1, TakesNone
  <2> QED  BY <1>1, <2>1, <2>2, Registers DEF Takes
<1> QED  BY <1>5, <1>6 DEF f

LEMMA ILayout ==
  ASSUME NEW op, NEW n, NEW m, NEW f3, NEW w,
         m \in 0 .. 31, f3 \in 0 .. 7
  PROVE  /\ Proper(I(op, n, m, f3))
         /\ OfForm(I(op, n, m, f3), w) =>
              /\ Word32(I(op, n, m, f3), m, w)
              /\ Funct3(w) = f3
              /\ Meaning(I(op, n, m, f3), w) = Insn(op, n, RD(w), RS1(w), 0, 0, imm_i(w))
<1> DEFINE f == I(op, n, m, f3)
           extra == {}
<1>1. /\ f.op = op /\ f.n = n /\ f.ones = Major(m, f3) \cup extra /\ f.size = 4
      /\ f.rd = Rd /\ f.rs1 = Rs1 /\ f.rs2 = X(0) /\ f.rs3 = X(0)
      /\ f.imm = ImmI /\ f.signed = TRUE /\ f.free = {}
  BY DEF I, Form
<1> HIDE DEF f
<1>2. Varying(f) = 7 .. 11 \cup 15 .. 31
  <2>1. Ran(f.imm) = 20 .. 31
    BY <1>1, TakesI
  <2> QED  BY <1>1, <2>1, Fields DEF Varying
<1>3. extra \subseteq 15 .. 31
  OBVIOUS
<1> HIDE DEF extra
<1>4. /\ Layout(f, m, f3, extra)
      /\ FixesFunct3(f, extra)
  <2>1. Layout(f, m, f3, extra)
    BY <1>1, <1>2, <1>3 DEF Layout
  <2>2. FixesFunct3(f, extra)
    BY <1>2, <1>3 DEF FixesFunct3
  <2> QED  BY <2>1, <2>2
<1>5. Proper(f) /\ (OfForm(f, w) => Word32(f, m, w) /\ Funct3(w) = f3)
  BY <1>4, Form32, Zenon
<1>6. ASSUME OfForm(f, w) PROVE Meaning(f, w) = Insn(op, n, RD(w), RS1(w), 0, 0, imm_i(w))
  <2>1. w \in SUBSET (0 .. 31) /\ w \in SUBSET Int
    BY <1>5, <1>6 DEF Word32
  <2>2. Takes(f, w, imm_i(w))
    BY <1>1, <1>6, <2>1, TakesI
  <2> QED  BY <1>1, <2>1, <2>2, Registers DEF Takes
<1> QED  BY <1>5, <1>6 DEF f

LEMMA SLayout ==
  ASSUME NEW op, NEW n, NEW m, NEW f3, NEW w,
         m \in 0 .. 31, f3 \in 0 .. 7
  PROVE  /\ Proper(S(op, n, m, f3))
         /\ OfForm(S(op, n, m, f3), w) =>
              /\ Word32(S(op, n, m, f3), m, w)
              /\ Funct3(w) = f3
              /\ Meaning(S(op, n, m, f3), w) = Insn(op, n, 0, RS1(w), RS2(w), 0, imm_s(w))
<1> DEFINE f == S(op, n, m, f3)
           extra == {}
<1>1. /\ f.op = op /\ f.n = n /\ f.ones = Major(m, f3) \cup extra /\ f.size = 4
      /\ f.rd = X(0) /\ f.rs1 = Rs1 /\ f.rs2 = Rs2 /\ f.rs3 = X(0)
      /\ f.imm = ImmS /\ f.signed = TRUE /\ f.free = {}
  BY DEF S, Form
<1> HIDE DEF f
<1>2. Varying(f) = 7 .. 11 \cup 15 .. 31
  <2>1. Ran(f.imm) = 7 .. 11 \cup 25 .. 31
    BY <1>1, TakesS
  <2> QED  BY <1>1, <2>1, Fields DEF Varying
<1>3. extra \subseteq 15 .. 31
  OBVIOUS
<1> HIDE DEF extra
<1>4. /\ Layout(f, m, f3, extra)
      /\ FixesFunct3(f, extra)
  <2>1. Layout(f, m, f3, extra)
    BY <1>1, <1>2, <1>3 DEF Layout
  <2>2. FixesFunct3(f, extra)
    BY <1>2, <1>3 DEF FixesFunct3
  <2> QED  BY <2>1, <2>2
<1>5. Proper(f) /\ (OfForm(f, w) => Word32(f, m, w) /\ Funct3(w) = f3)
  BY <1>4, Form32, Zenon
<1>6. ASSUME OfForm(f, w) PROVE Meaning(f, w) = Insn(op, n, 0, RS1(w), RS2(w), 0, imm_s(w))
  <2>1. w \in SUBSET (0 .. 31) /\ w \in SUBSET Int
    BY <1>5, <1>6 DEF Word32
  <2>2. Takes(f, w, imm_s(w))
    BY <1>1, <1>6, <2>1, TakesS
  <2> QED  BY <1>1, <2>1, <2>2, Registers DEF Takes
<1> QED  BY <1>5, <1>6 DEF f

LEMMA BLayout ==
  ASSUME NEW op, NEW f3, NEW w,
         f3 \in 0 .. 7
  PROVE  /\ Proper(B(op, f3))
         /\ OfForm(B(op, f3), w) =>
              /\ Word32(B(op, f3), 24, w)
              /\ Funct3(w) = f3
              /\ Meaning(B(op, f3), w) = Insn(op, 64, 0, RS1(w), RS2(w), 0, imm_b(w))
<1> DEFINE f == B(op, f3)
           extra == {}
<1>1. /\ f.op = op /\ f.n = 64 /\ f.ones = Major(24, f3) \cup extra /\ f.size = 4
      /\ f.rd = X(0) /\ f.rs1 = Rs1 /\ f.rs2 = Rs2 /\ f.rs3 = X(0)
      /\ f.imm = ImmB /\ f.signed = TRUE /\ f.free = {}
  BY DEF B, Form
<1> HIDE DEF f
<1>2. Varying(f) = 7 .. 11 \cup 15 .. 31
  <2>1. Ran(f.imm) = 7 .. 11 \cup 25 .. 31
    BY <1>1, TakesB
  <2> QED  BY <1>1, <2>1, Fields DEF Varying
<1>3. extra \subseteq 15 .. 31
  OBVIOUS
<1> HIDE DEF extra
<1>4. /\ Layout(f, 24, f3, extra)
      /\ FixesFunct3(f, extra)
  <2>1. Layout(f, 24, f3, extra)
    BY <1>1, <1>2, <1>3 DEF Layout
  <2>2. FixesFunct3(f, extra)
    BY <1>2, <1>3 DEF FixesFunct3
  <2> QED  BY <2>1, <2>2
<1>5. Proper(f) /\ (OfForm(f, w) => Word32(f, 24, w) /\ Funct3(w) = f3)
  BY <1>4, Form32, Zenon
<1>6. ASSUME OfForm(f, w) PROVE Meaning(f, w) = Insn(op, 64, 0, RS1(w), RS2(w), 0, imm_b(w))
  <2>1. w \in SUBSET (0 .. 31) /\ w \in SUBSET Int
    BY <1>5, <1>6 DEF Word32
  <2>2. Takes(f, w, imm_b(w))
    BY <1>1, <1>6, <2>1, TakesB
  <2> QED  BY <1>1, <2>1, <2>2, Registers DEF Takes
<1> QED  BY <1>5, <1>6 DEF f

LEMMA ULayout ==
  ASSUME NEW op, NEW m, NEW w,
         m \in 0 .. 31
  PROVE  /\ Proper(U(op, m))
         /\ OfForm(U(op, m), w) =>
              /\ Word32(U(op, m), m, w)
              /\ Meaning(U(op, m), w) = Insn(op, 64, RD(w), 0, 0, 0, imm_u(w))
<1> DEFINE f == U(op, m)
           extra == {}
<1>1. /\ f.op = op /\ f.n = 64 /\ f.ones = Major(m, 0) \cup extra /\ f.size = 4
      /\ f.rd = Rd /\ f.rs1 = X(0) /\ f.rs2 = X(0) /\ f.rs3 = X(0)
      /\ f.imm = ImmU /\ f.signed = TRUE /\ f.free = {}
  BY DEF U, Form
<1> HIDE DEF f
<1>2. Varying(f) = 7 .. 31
  <2>1. Ran(f.imm) = 12 .. 31
    BY <1>1, TakesU
  <2> QED  BY <1>1, <2>1, Fields DEF Varying
<1>3. extra \subseteq 15 .. 31
  OBVIOUS
<1> HIDE DEF extra
<1>4. /\ Layout(f, m, 0, extra)
  <2>1. Layout(f, m, 0, extra)
    BY <1>1, <1>2, <1>3 DEF Layout
  <2> QED  BY <2>1
<1>5. Proper(f) /\ (OfForm(f, w) => Word32(f, m, w))
  BY <1>4, Form32, Zenon
<1>6. ASSUME OfForm(f, w) PROVE Meaning(f, w) = Insn(op, 64, RD(w), 0, 0, 0, imm_u(w))
  <2>1. w \in SUBSET (0 .. 31) /\ w \in SUBSET Int
    BY <1>5, <1>6 DEF Word32
  <2>2. Takes(f, w, imm_u(w))
    BY <1>1, <1>6, <2>1, TakesU
  <2> QED  BY <1>1, <2>1, <2>2, Registers DEF Takes
<1> QED  BY <1>5, <1>6 DEF f

LEMMA Shift32Layout ==
  ASSUME NEW op, NEW m, NEW f3, NEW f7, NEW w,
         m \in 0 .. 31, f3 \in 0 .. 7, f7 \in 0 .. 127
  PROVE  /\ Proper(Shift(op, 32, m, f3, f7))
         /\ OfForm(Shift(op, 32, m, f3, f7), w) =>
              /\ Word32(Shift(op, 32, m, f3, f7), m, w)
              /\ Funct3(w) = f3
              /\ Funct7(w) = f7
         /\ OfForm(Shift(op, 32, m, f3, f7), w) /\ 25 \notin w =>
              Meaning(Shift(op, 32, m, f3, f7), w) = Insn(op, 32, RD(w), RS1(w), 0, 0, shamt(w))
<1> DEFINE f == Shift(op, 32, m, f3, f7)
           extra == At(f7, 25)
<1>1. /\ f.op = op /\ f.n = 32 /\ f.ones = Major(m, f3) \cup extra /\ f.size = 4
      /\ f.rd = Rd /\ f.rs1 = Rs1 /\ f.rs2 = X(0) /\ f.rs3 = X(0)
      /\ f.imm = Shamt(32) /\ f.signed = FALSE /\ f.free = {}
  BY DEF Shift, Form
<1> HIDE DEF f
<1>2. Varying(f) = 7 .. 11 \cup 15 .. 24
  <2>1. Ran(f.imm) = 20 .. 24
    BY <1>1, TakesShamt32
  <2> QED  BY <1>1, <2>1, Fields DEF Varying
<1>3. extra \subseteq 15 .. 31
  BY At7Below
<1> HIDE DEF extra
<1>4. /\ Layout(f, m, f3, extra)
      /\ FixesFunct3(f, extra)
      /\ FixesFunct7(f, f7, extra)
  <2>1. Layout(f, m, f3, extra)
    BY <1>1, <1>2, <1>3 DEF Layout
  <2>2. FixesFunct3(f, extra)
    BY <1>2, <1>3 DEF FixesFunct3
  <2>3. FixesFunct7(f, f7, extra)
    BY <1>2, <1>3, At7Below DEF FixesFunct7, extra
  <2> QED  BY <2>1, <2>2, <2>3
<1>5. Proper(f) /\ (OfForm(f, w) => Word32(f, m, w) /\ Funct3(w) = f3 /\ Funct7(w) = f7)
  BY <1>4, Form32, Zenon
<1>6. ASSUME OfForm(f, w), 25 \notin w
      PROVE Meaning(f, w) = Insn(op, 32, RD(w), RS1(w), 0, 0, shamt(w))
  <2>1. w \in SUBSET (0 .. 31) /\ w \in SUBSET Int
    BY <1>5, <1>6 DEF Word32
  <2>2. Takes(f, w, shamt(w))
    BY <1>1, <1>6, <2>1, TakesShamt32
  <2> QED  BY <1>1, <2>1, <2>2, Registers DEF Takes
<1> QED  BY <1>5, <1>6 DEF f

LEMMA Shift64Layout ==
  ASSUME NEW op, NEW m, NEW f3, NEW f7, NEW w,
         m \in 0 .. 31, f3 \in 0 .. 7, f7 \in 0 .. 127
  PROVE  /\ Proper(Shift(op, 64, m, f3, f7))
         /\ OfForm(Shift(op, 64, m, f3, f7), w) =>
              /\ Word32(Shift(op, 64, m, f3, f7), m, w)
              /\ Funct3(w) = f3
              /\ Meaning(Shift(op, 64, m, f3, f7), w) = Insn(op, 64, RD(w), RS1(w), 0, 0, shamt(w))
<1> DEFINE f == Shift(op, 64, m, f3, f7)
           extra == At(f7, 25)
<1>1. /\ f.op = op /\ f.n = 64 /\ f.ones = Major(m, f3) \cup extra /\ f.size = 4
      /\ f.rd = Rd /\ f.rs1 = Rs1 /\ f.rs2 = X(0) /\ f.rs3 = X(0)
      /\ f.imm = Shamt(64) /\ f.signed = FALSE /\ f.free = {}
  BY DEF Shift, Form
<1> HIDE DEF f
<1>2. Varying(f) = 7 .. 11 \cup 15 .. 25
  <2>1. Ran(f.imm) = 20 .. 25
    BY <1>1, TakesShamt64
  <2> QED  BY <1>1, <2>1, Fields DEF Varying
<1>3. extra \subseteq 15 .. 31
  BY At7Below
<1> HIDE DEF extra
<1>4. /\ Layout(f, m, f3, extra)
      /\ FixesFunct3(f, extra)
  <2>1. Layout(f, m, f3, extra)
    BY <1>1, <1>2, <1>3 DEF Layout
  <2>2. FixesFunct3(f, extra)
    BY <1>2, <1>3 DEF FixesFunct3
  <2> QED  BY <2>1, <2>2
<1>5. Proper(f) /\ (OfForm(f, w) => Word32(f, m, w) /\ Funct3(w) = f3)
  BY <1>4, Form32, Zenon
<1>6. ASSUME OfForm(f, w) PROVE Meaning(f, w) = Insn(op, 64, RD(w), RS1(w), 0, 0, shamt(w))
  <2>1. w \in SUBSET (0 .. 31) /\ w \in SUBSET Int
    BY <1>5, <1>6 DEF Word32
  <2>2. Takes(f, w, shamt(w))
    BY <1>1, <1>6, <2>1, TakesShamt64
  <2> QED  BY <1>1, <2>1, <2>2, Registers DEF Takes
<1> QED  BY <1>5, <1>6 DEF f

LEMMA JalLayout ==
  ASSUME NEW w
  PROVE  /\ Proper(Form("jal", 64, Major(27, 0), Rd, X(0), X(0), X(0), ImmJ, TRUE, {}, 4))
         /\ OfForm(Form("jal", 64, Major(27, 0), Rd, X(0), X(0), X(0), ImmJ, TRUE, {}, 4), w) =>
              /\ Word32(Form("jal", 64, Major(27, 0), Rd, X(0), X(0), X(0), ImmJ, TRUE, {}, 4), 27,
                 w)
              /\ Meaning(Form("jal", 64, Major(27, 0), Rd, X(0), X(0), X(0), ImmJ, TRUE, {}, 4), w) =
                 Insn("jal", 64, RD(w), 0, 0, 0, imm_j(w))
<1> DEFINE f == Form("jal", 64, Major(27, 0), Rd, X(0), X(0), X(0), ImmJ, TRUE, {}, 4)
           extra == {}
<1>1. /\ f.op = "jal" /\ f.n = 64 /\ f.ones = Major(27, 0) \cup extra /\ f.size = 4
      /\ f.rd = Rd /\ f.rs1 = X(0) /\ f.rs2 = X(0) /\ f.rs3 = X(0)
      /\ f.imm = ImmJ /\ f.signed = TRUE /\ f.free = {}
  BY DEF Form
<1> HIDE DEF f
<1>2. Varying(f) = 7 .. 31
  <2>1. Ran(f.imm) = 12 .. 31
    BY <1>1, TakesJ
  <2> QED  BY <1>1, <2>1, Fields DEF Varying
<1>3. extra \subseteq 15 .. 31
  OBVIOUS
<1> HIDE DEF extra
<1>4. /\ Layout(f, 27, 0, extra)
  <2>1. Layout(f, 27, 0, extra)
    BY <1>1, <1>2, <1>3 DEF Layout
  <2> QED  BY <2>1
<1>5. Proper(f) /\ (OfForm(f, w) => Word32(f, 27, w))
  BY <1>4, Form32, Zenon
<1>6. ASSUME OfForm(f, w) PROVE Meaning(f, w) = Insn("jal", 64, RD(w), 0, 0, 0, imm_j(w))
  <2>1. w \in SUBSET (0 .. 31) /\ w \in SUBSET Int
    BY <1>5, <1>6 DEF Word32
  <2>2. Takes(f, w, imm_j(w))
    BY <1>1, <1>6, <2>1, TakesJ
  <2> QED  BY <1>1, <2>1, <2>2, Registers DEF Takes
<1> QED  BY <1>5, <1>6 DEF f

LEMMA CsrLayout ==
  ASSUME NEW op, NEW f3, NEW w,
         f3 \in 0 .. 7
  PROVE  /\ Proper(Form(op, 64, Major(28, f3), Rd, Rs1, X(0), X(0), ImmI, FALSE, {}, 4))
         /\ OfForm(Form(op, 64, Major(28, f3), Rd, Rs1, X(0), X(0), ImmI, FALSE, {}, 4), w) =>
              /\ Word32(Form(op, 64, Major(28, f3), Rd, Rs1, X(0), X(0), ImmI, FALSE, {}, 4), 28, w)
              /\ Funct3(w) = f3
              /\ Meaning(Form(op, 64, Major(28, f3), Rd, Rs1, X(0), X(0), ImmI, FALSE, {}, 4), w) =
                 Insn(op, 64, RD(w), RS1(w), 0, 0, Csr(w))
<1> DEFINE f == Form(op, 64, Major(28, f3), Rd, Rs1, X(0), X(0), ImmI, FALSE, {}, 4)
           extra == {}
<1>1. /\ f.op = op /\ f.n = 64 /\ f.ones = Major(28, f3) \cup extra /\ f.size = 4
      /\ f.rd = Rd /\ f.rs1 = Rs1 /\ f.rs2 = X(0) /\ f.rs3 = X(0)
      /\ f.imm = ImmI /\ f.signed = FALSE /\ f.free = {}
  BY DEF Form
<1> HIDE DEF f
<1>2. Varying(f) = 7 .. 11 \cup 15 .. 31
  <2>1. Ran(f.imm) = 20 .. 31
    BY <1>1, TakesCsr
  <2> QED  BY <1>1, <2>1, Fields DEF Varying
<1>3. extra \subseteq 15 .. 31
  OBVIOUS
<1> HIDE DEF extra
<1>4. /\ Layout(f, 28, f3, extra)
      /\ FixesFunct3(f, extra)
  <2>1. Layout(f, 28, f3, extra)
    BY <1>1, <1>2, <1>3 DEF Layout
  <2>2. FixesFunct3(f, extra)
    BY <1>2, <1>3 DEF FixesFunct3
  <2> QED  BY <2>1, <2>2
<1>5. Proper(f) /\ (OfForm(f, w) => Word32(f, 28, w) /\ Funct3(w) = f3)
  BY <1>4, Form32, Zenon
<1>6. ASSUME OfForm(f, w) PROVE Meaning(f, w) = Insn(op, 64, RD(w), RS1(w), 0, 0, Csr(w))
  <2>1. w \in SUBSET (0 .. 31) /\ w \in SUBSET Int
    BY <1>5, <1>6 DEF Word32
  <2>2. Takes(f, w, Csr(w))
    BY <1>1, <1>6, <2>1, TakesCsr
  <2> QED  BY <1>1, <2>1, <2>2, Registers DEF Takes
<1> QED  BY <1>5, <1>6 DEF f

LEMMA FenceLayout ==
  ASSUME NEW f3, NEW w,
         f3 \in 0 .. 7
  PROVE  /\ Proper(Form("fence", 0, Major(3, f3), X(0), X(0), X(0), X(0), NoImm, FALSE, 7 .. 11
            \cup 15 .. 31, 4))
         /\ OfForm(Form("fence", 0, Major(3, f3), X(0), X(0), X(0), X(0), NoImm, FALSE, 7 .. 11
            \cup 15 .. 31, 4), w) =>
              /\ Word32(Form("fence", 0, Major(3, f3), X(0), X(0), X(0), X(0), NoImm, FALSE,
                 7 .. 11 \cup 15 .. 31, 4), 3, w)
              /\ Funct3(w) = f3
              /\ Meaning(Form("fence", 0, Major(3, f3), X(0), X(0), X(0), X(0), NoImm, FALSE,
                 7 .. 11 \cup 15 .. 31, 4), w) = Insn("fence", 0, 0, 0, 0, 0, {})
<1> DEFINE f == Form("fence", 0, Major(3, f3), X(0), X(0), X(0), X(0), NoImm, FALSE, 7 .. 11
                \cup 15 .. 31, 4)
           extra == {}
<1>1. /\ f.op = "fence" /\ f.n = 0 /\ f.ones = Major(3, f3) \cup extra /\ f.size = 4
      /\ f.rd = X(0) /\ f.rs1 = X(0) /\ f.rs2 = X(0) /\ f.rs3 = X(0)
      /\ f.imm = NoImm /\ f.signed = FALSE /\ f.free = 7 .. 11 \cup 15 .. 31
  BY DEF Form
<1> HIDE DEF f
<1>2. Varying(f) = 7 .. 11 \cup 15 .. 31
  <2>1. Ran(f.imm) = {}
    BY <1>1, TakesNone
  <2> QED  BY <1>1, <2>1, Fields DEF Varying
<1>3. extra \subseteq 15 .. 31
  OBVIOUS
<1> HIDE DEF extra
<1>4. /\ Layout(f, 3, f3, extra)
      /\ FixesFunct3(f, extra)
  <2>1. Layout(f, 3, f3, extra)
    BY <1>1, <1>2, <1>3 DEF Layout
  <2>2. FixesFunct3(f, extra)
    BY <1>2, <1>3 DEF FixesFunct3
  <2> QED  BY <2>1, <2>2
<1>5. Proper(f) /\ (OfForm(f, w) => Word32(f, 3, w) /\ Funct3(w) = f3)
  BY <1>4, Form32, Zenon
<1>6. ASSUME OfForm(f, w) PROVE Meaning(f, w) = Insn("fence", 0, 0, 0, 0, 0, {})
  <2>1. w \in SUBSET (0 .. 31) /\ w \in SUBSET Int
    BY <1>5, <1>6 DEF Word32
  <2>2. Takes(f, w, {})
    BY <1>1, <1>6, <2>1, TakesNone
  <2> QED  BY <1>1, <2>1, <2>2, Registers DEF Takes
<1> QED  BY <1>5, <1>6 DEF f

LEMMA EnvLayout ==
  ASSUME NEW op, NEW e, NEW w
  PROVE  /\ Proper(Form(op, 0, Major(28, 0) \cup At(e, 20), X(0), X(0), X(0), X(0), NoImm, FALSE,
            {}, 4))
         /\ OfForm(Form(op, 0, Major(28, 0) \cup At(e, 20), X(0), X(0), X(0), X(0), NoImm, FALSE,
            {}, 4), w) =>
              /\ Word32(Form(op, 0, Major(28, 0) \cup At(e, 20), X(0), X(0), X(0), X(0), NoImm,
                 FALSE, {}, 4), 28, w)
              /\ Funct3(w) = 0
              /\ Meaning(Form(op, 0, Major(28, 0) \cup At(e, 20), X(0), X(0), X(0), X(0), NoImm,
                 FALSE, {}, 4), w) = Insn(op, 0, 0, 0, 0, 0, {})
<1> DEFINE f == Form(op, 0, Major(28, 0) \cup At(e, 20), X(0), X(0), X(0), X(0), NoImm, FALSE, {},
                4)
           extra == At(e, 20)
<1>1. /\ f.op = op /\ f.n = 0 /\ f.ones = Major(28, 0) \cup extra /\ f.size = 4
      /\ f.rd = X(0) /\ f.rs1 = X(0) /\ f.rs2 = X(0) /\ f.rs3 = X(0)
      /\ f.imm = NoImm /\ f.signed = FALSE /\ f.free = {}
  BY DEF Form
<1> HIDE DEF f
<1>2. Varying(f) = {}
  <2>1. Ran(f.imm) = {}
    BY <1>1, TakesNone
  <2> QED  BY <1>1, <2>1, Fields DEF Varying
<1>3. extra \subseteq 15 .. 31
  BY DEF At, BitsOf
<1> HIDE DEF extra
<1>4. /\ Layout(f, 28, 0, extra)
      /\ FixesFunct3(f, extra)
  <2>1. Layout(f, 28, 0, extra)
    BY <1>1, <1>2, <1>3 DEF Layout
  <2>2. FixesFunct3(f, extra)
    BY <1>2, <1>3 DEF FixesFunct3
  <2> QED  BY <2>1, <2>2
<1>5. Proper(f) /\ (OfForm(f, w) => Word32(f, 28, w) /\ Funct3(w) = 0)
  BY <1>4, Form32, Zenon
<1>6. ASSUME OfForm(f, w) PROVE Meaning(f, w) = Insn(op, 0, 0, 0, 0, 0, {})
  <2>1. w \in SUBSET (0 .. 31) /\ w \in SUBSET Int
    BY <1>5, <1>6 DEF Word32
  <2>2. Takes(f, w, {})
    BY <1>1, <1>6, <2>1, TakesNone
  <2> QED  BY <1>1, <2>1, <2>2, Registers DEF Takes
<1> QED  BY <1>5, <1>6 DEF f

LEMMA SfenceLayout ==
  ASSUME NEW op, NEW f7, NEW w,
         f7 \in 0 .. 127
  PROVE  /\ Proper(Form(op, 0, Major(28, 0) \cup At(f7, 25), X(0), Rs1, Rs2, X(0), NoImm, FALSE, {},
            4))
         /\ OfForm(Form(op, 0, Major(28, 0) \cup At(f7, 25), X(0), Rs1, Rs2, X(0), NoImm, FALSE, {},
            4), w) =>
              /\ Word32(Form(op, 0, Major(28, 0) \cup At(f7, 25), X(0), Rs1, Rs2, X(0), NoImm,
                 FALSE, {}, 4), 28, w)
              /\ Funct3(w) = 0
              /\ Funct7(w) = f7
              /\ Meaning(Form(op, 0, Major(28, 0) \cup At(f7, 25), X(0), Rs1, Rs2, X(0), NoImm,
                 FALSE, {}, 4), w) = Insn(op, 0, 0, RS1(w), RS2(w), 0, {})
<1> DEFINE f == Form(op, 0, Major(28, 0) \cup At(f7, 25), X(0), Rs1, Rs2, X(0), NoImm, FALSE, {}, 4)
           extra == At(f7, 25)
<1>1. /\ f.op = op /\ f.n = 0 /\ f.ones = Major(28, 0) \cup extra /\ f.size = 4
      /\ f.rd = X(0) /\ f.rs1 = Rs1 /\ f.rs2 = Rs2 /\ f.rs3 = X(0)
      /\ f.imm = NoImm /\ f.signed = FALSE /\ f.free = {}
  BY DEF Form
<1> HIDE DEF f
<1>2. Varying(f) = 15 .. 24
  <2>1. Ran(f.imm) = {}
    BY <1>1, TakesNone
  <2> QED  BY <1>1, <2>1, Fields DEF Varying
<1>3. extra \subseteq 15 .. 31
  BY At7Below
<1> HIDE DEF extra
<1>4. /\ Layout(f, 28, 0, extra)
      /\ FixesFunct3(f, extra)
      /\ FixesFunct7(f, f7, extra)
  <2>1. Layout(f, 28, 0, extra)
    BY <1>1, <1>2, <1>3 DEF Layout
  <2>2. FixesFunct3(f, extra)
    BY <1>2, <1>3 DEF FixesFunct3
  <2>3. FixesFunct7(f, f7, extra)
    BY <1>2, <1>3, At7Below DEF FixesFunct7, extra
  <2> QED  BY <2>1, <2>2, <2>3
<1>5. Proper(f) /\ (OfForm(f, w) => Word32(f, 28, w) /\ Funct3(w) = 0 /\ Funct7(w) = f7)
  BY <1>4, Form32, Zenon
<1>6. ASSUME OfForm(f, w) PROVE Meaning(f, w) = Insn(op, 0, 0, RS1(w), RS2(w), 0, {})
  <2>1. w \in SUBSET (0 .. 31) /\ w \in SUBSET Int
    BY <1>5, <1>6 DEF Word32
  <2>2. Takes(f, w, {})
    BY <1>1, <1>6, <2>1, TakesNone
  <2> QED  BY <1>1, <2>1, <2>2, Registers DEF Takes
<1> QED  BY <1>5, <1>6 DEF f

(* The formats of the atomic instructions and of the fused ones *)
AmoForm(op, n, f3, f5) ==
  Form(op, n, Major(11, f3) \cup At(f5, 27), Rd, Rs1, Rs2, X(0), NoImm, FALSE, {25, 26}, 4)
LrForm(op, n, f3, f5) ==
  Form(op, n, Major(11, f3) \cup At(f5, 27), Rd, Rs1, X(0), X(0), NoImm, FALSE, {25, 26}, 4)
FmaForm(op, n, m, fmt) ==
  Form(op, n, Major(m, 0) \cup At(fmt, 25), Rd, Rs1, Rs2, Rs3, NoImm, FALSE, Rm, 4)
UnusedForm(m) == Form("illegal", 0, Major(m, 0), X(0), X(0), X(0), X(0), NoImm, FALSE, 7 .. 31, 4)

LEMMA AmoLayout ==
  ASSUME NEW op, NEW n, NEW f3, NEW f5, NEW w,
         f3 \in 0 .. 7, f5 \in 0 .. 31
  PROVE  /\ Proper(AmoForm(op, n, f3, f5))
         /\ OfForm(AmoForm(op, n, f3, f5), w) =>
              /\ Word32(AmoForm(op, n, f3, f5), 11, w)
              /\ Funct3(w) = f3
              /\ Meaning(AmoForm(op, n, f3, f5), w) = Insn(op, n, RD(w), RS1(w), RS2(w), 0, {})
<1> DEFINE f == AmoForm(op, n, f3, f5)
           extra == At(f5, 27)
<1>1. /\ f.op = op /\ f.n = n /\ f.ones = Major(11, f3) \cup extra /\ f.size = 4
      /\ f.rd = Rd /\ f.rs1 = Rs1 /\ f.rs2 = Rs2 /\ f.rs3 = X(0)
      /\ f.imm = NoImm /\ f.signed = FALSE /\ f.free = {25, 26}
  BY DEF AmoForm, Form
<1> HIDE DEF f
<1>2. Varying(f) = 7 .. 11 \cup 15 .. 26
  <2>1. Ran(f.imm) = {}
    BY <1>1, TakesNone
  <2> QED  BY <1>1, <2>1, Fields DEF Varying
<1>3. extra \subseteq 15 .. 31
  BY AtBelow, 27 + 4 = 31
<1> HIDE DEF extra
<1>4. /\ Layout(f, 11, f3, extra)
      /\ FixesFunct3(f, extra)
  <2>1. Layout(f, 11, f3, extra)
    BY <1>1, <1>2, <1>3 DEF Layout
  <2>2. FixesFunct3(f, extra)
    BY <1>2, <1>3 DEF FixesFunct3
  <2> QED  BY <2>1, <2>2
<1>5. Proper(f) /\ (OfForm(f, w) => Word32(f, 11, w) /\ Funct3(w) = f3)
  BY <1>4, Form32, Zenon
<1>6. ASSUME OfForm(f, w) PROVE Meaning(f, w) = Insn(op, n, RD(w), RS1(w), RS2(w), 0, {})
  <2>1. w \in SUBSET (0 .. 31) /\ w \in SUBSET Int
    BY <1>5, <1>6 DEF Word32
  <2>2. Takes(f, w, {})
    BY <1>1, <1>6, <2>1, TakesNone
  <2> QED  BY <1>1, <2>1, <2>2, Registers DEF Takes
<1> QED  BY <1>5, <1>6 DEF f

LEMMA LrLayout ==
  ASSUME NEW op, NEW n, NEW f3, NEW f5, NEW w,
         f3 \in 0 .. 7, f5 \in 0 .. 31
  PROVE  /\ Proper(LrForm(op, n, f3, f5))
         /\ OfForm(LrForm(op, n, f3, f5), w) =>
              /\ Word32(LrForm(op, n, f3, f5), 11, w)
              /\ Funct3(w) = f3
              /\ Meaning(LrForm(op, n, f3, f5), w) = Insn(op, n, RD(w), RS1(w), 0, 0, {})
<1> DEFINE f == LrForm(op, n, f3, f5)
           extra == At(f5, 27)
<1>1. /\ f.op = op /\ f.n = n /\ f.ones = Major(11, f3) \cup extra /\ f.size = 4
      /\ f.rd = Rd /\ f.rs1 = Rs1 /\ f.rs2 = X(0) /\ f.rs3 = X(0)
      /\ f.imm = NoImm /\ f.signed = FALSE /\ f.free = {25, 26}
  BY DEF LrForm, Form
<1> HIDE DEF f
<1>2. Varying(f) = 7 .. 11 \cup 15 .. 19 \cup 25 .. 26
  <2>1. Ran(f.imm) = {}
    BY <1>1, TakesNone
  <2> QED  BY <1>1, <2>1, Fields DEF Varying
<1>3. extra \subseteq 15 .. 31
  BY AtBelow, 27 + 4 = 31
<1> HIDE DEF extra
<1>4. /\ Layout(f, 11, f3, extra)
      /\ FixesFunct3(f, extra)
  <2>1. Layout(f, 11, f3, extra)
    BY <1>1, <1>2, <1>3 DEF Layout
  <2>2. FixesFunct3(f, extra)
    BY <1>2, <1>3 DEF FixesFunct3
  <2> QED  BY <2>1, <2>2
<1>5. Proper(f) /\ (OfForm(f, w) => Word32(f, 11, w) /\ Funct3(w) = f3)
  BY <1>4, Form32, Zenon
<1>6. ASSUME OfForm(f, w) PROVE Meaning(f, w) = Insn(op, n, RD(w), RS1(w), 0, 0, {})
  <2>1. w \in SUBSET (0 .. 31) /\ w \in SUBSET Int
    BY <1>5, <1>6 DEF Word32
  <2>2. Takes(f, w, {})
    BY <1>1, <1>6, <2>1, TakesNone
  <2> QED  BY <1>1, <2>1, <2>2, Registers DEF Takes
<1> QED  BY <1>5, <1>6 DEF f

LEMMA FmaLayout ==
  ASSUME NEW op, NEW n, NEW m, NEW fmt, NEW w,
         m \in 0 .. 31, fmt \in 0 .. 1
  PROVE  /\ Proper(FmaForm(op, n, m, fmt))
         /\ OfForm(FmaForm(op, n, m, fmt), w) =>
              /\ Word32(FmaForm(op, n, m, fmt), m, w)
              /\ Meaning(FmaForm(op, n, m, fmt), w) =
                 Insn(op, n, RD(w), RS1(w), RS2(w), Bits(w, 5, 27), {})
<1> DEFINE f == FmaForm(op, n, m, fmt)
           extra == At(fmt, 25)
<1>1. /\ f.op = op /\ f.n = n /\ f.ones = Major(m, 0) \cup extra /\ f.size = 4
      /\ f.rd = Rd /\ f.rs1 = Rs1 /\ f.rs2 = Rs2 /\ f.rs3 = Rs3
      /\ f.imm = NoImm /\ f.signed = FALSE /\ f.free = 12 .. 14
  BY DEF FmaForm, Form, Rm
<1> HIDE DEF f
<1>2. Varying(f) = 7 .. 24 \cup 27 .. 31
  <2>1. Ran(f.imm) = {}
    BY <1>1, TakesNone
  <2> QED  BY <1>1, <2>1, Fields DEF Varying
<1>3. extra \subseteq 15 .. 31
  BY At7Below
<1> HIDE DEF extra
<1>4. /\ Layout(f, m, 0, extra)
  <2>1. Layout(f, m, 0, extra)
    BY <1>1, <1>2, <1>3 DEF Layout
  <2> QED  BY <2>1
<1>5. Proper(f) /\ (OfForm(f, w) => Word32(f, m, w))
  BY <1>4, Form32, Zenon
<1>6. ASSUME OfForm(f, w)
      PROVE Meaning(f, w) = Insn(op, n, RD(w), RS1(w), RS2(w), Bits(w, 5, 27), {})
  <2>1. w \in SUBSET (0 .. 31) /\ w \in SUBSET Int
    BY <1>5, <1>6 DEF Word32
  <2>2. Takes(f, w, {})
    BY <1>1, <1>6, <2>1, TakesNone
  <2> QED  BY <1>1, <2>1, <2>2, Registers DEF Takes
<1> QED  BY <1>5, <1>6 DEF f

LEMMA UnusedLayout ==
  ASSUME NEW m, NEW w,
         m \in 0 .. 31
  PROVE  /\ Proper(UnusedForm(m))
         /\ OfForm(UnusedForm(m), w) =>
              /\ Word32(UnusedForm(m), m, w)
              /\ Meaning(UnusedForm(m), w) = Insn("illegal", 0, 0, 0, 0, 0, {})
<1> DEFINE f == UnusedForm(m)
           extra == {}
<1>1. /\ f.op = "illegal" /\ f.n = 0 /\ f.ones = Major(m, 0) \cup extra /\ f.size = 4
      /\ f.rd = X(0) /\ f.rs1 = X(0) /\ f.rs2 = X(0) /\ f.rs3 = X(0)
      /\ f.imm = NoImm /\ f.signed = FALSE /\ f.free = 7 .. 31
  BY DEF UnusedForm, Form
<1> HIDE DEF f
<1>2. Varying(f) = 7 .. 31
  <2>1. Ran(f.imm) = {}
    BY <1>1, TakesNone
  <2> QED  BY <1>1, <2>1, Fields DEF Varying
<1>3. extra \subseteq 15 .. 31
  OBVIOUS
<1> HIDE DEF extra
<1>4. /\ Layout(f, m, 0, extra)
  <2>1. Layout(f, m, 0, extra)
    BY <1>1, <1>2, <1>3 DEF Layout
  <2> QED  BY <2>1
<1>5. Proper(f) /\ (OfForm(f, w) => Word32(f, m, w))
  BY <1>4, Form32, Zenon
<1>6. ASSUME OfForm(f, w) PROVE Meaning(f, w) = Insn("illegal", 0, 0, 0, 0, 0, {})
  <2>1. w \in SUBSET (0 .. 31) /\ w \in SUBSET Int
    BY <1>5, <1>6 DEF Word32
  <2>2. Takes(f, w, {})
    BY <1>1, <1>6, <2>1, TakesNone
  <2> QED  BY <1>1, <2>1, <2>2, Registers DEF Takes
<1> QED  BY <1>5, <1>6 DEF f

(* The format and the operation of a floating-point word make up funct7. *)
LEMMA FpFixed ==
  ASSUME NEW fmt \in 0 .. 1, NEW f5 \in 0 .. 31, NEW k2 \in 0 .. 31
  PROVE  /\ fmt + 4 * f5 \in 0 .. 127
         /\ (At(fmt, 25) \cup At(f5, 27)) \cup At(k2, 20) \subseteq 15 .. 31
         /\ ((At(fmt, 25) \cup At(f5, 27)) \cup At(k2, 20)) \cap 25 .. 31 = At(fmt + 4 * f5, 25)
<1> DEFINE v == fmt + 4 * f5
<1>1. v \in 0 .. 127
  OBVIOUS
<1>2. /\ BitsOf(fmt) \subseteq 0 .. 0 /\ BitsOf(f5) \subseteq 0 .. 4
      /\ BitsOf(k2) \subseteq 0 .. 4 /\ BitsOf(v) \subseteq 0 .. 6
  BY BitsBelow, <1>1
<1>3. /\ 0 \in BitsOf(v) <=> 0 \in BitsOf(fmt)
      /\ 1 \notin BitsOf(v)
      /\ \A j \in 0 .. 4 : j + 2 \in BitsOf(v) <=> j \in BitsOf(f5)
  <2>1. v \div 4 = f5 /\ (v \div 2) % 2 = 0 /\ v % 2 = fmt % 2
    OBVIOUS
  <2>2. v \div 8 = f5 \div 2 /\ v \div 16 = f5 \div 4 /\ v \div 32 = f5 \div 8 /\ v \div 64 =
        f5 \div 16
    OBVIOUS
  <2>3. v \div 1 = v /\ fmt \div 1 = fmt /\ f5 \div 1 = f5
    OBVIOUS
  <2>4. v \in Int /\ fmt \in Int /\ f5 \in Int
    OBVIOUS
  <2> HIDE DEF v
  <2>5. /\ 0 \in BitsOf(v) <=> 0 \in BitsOf(fmt)
        /\ 1 \notin BitsOf(v)
    BY <2>1, <2>3, <2>4 DEF BitsOf
  <2>6. /\ 2 \in BitsOf(v) <=> 0 \in BitsOf(f5)
        /\ 3 \in BitsOf(v) <=> 1 \in BitsOf(f5)
        /\ 4 \in BitsOf(v) <=> 2 \in BitsOf(f5)
        /\ 5 \in BitsOf(v) <=> 3 \in BitsOf(f5)
        /\ 6 \in BitsOf(v) <=> 4 \in BitsOf(f5)
    BY <2>1, <2>2, <2>3, <2>4 DEF BitsOf
  <2> QED  BY <2>5, <2>6
<1> HIDE DEF v
<1>4. At(fmt, 25) \subseteq 25 .. 25 /\ At(f5, 27) \subseteq 27 .. 31
      /\ At(k2, 20) \subseteq 20 .. 24
  BY <1>2 DEF At
<1>5. ASSUME NEW k \in 25 .. 31 PROVE k \in At(v, 25) <=> k \in At(fmt, 25) \cup At(f5, 27)
  <2>1. k \in At(v, 25) <=> k - 25 \in BitsOf(v)
    BY AtIn
  <2>2. k \in At(fmt, 25) <=> k - 25 \in BitsOf(fmt)
    BY AtIn
  <2>3. k \in At(f5, 27) <=> k - 27 \in BitsOf(f5)
    BY AtIn
  <2>4. CASE k = 25
    BY <1>2, <1>3, <2>1, <2>2, <2>3, <2>4
  <2>5. CASE k = 26
    BY <1>2, <1>3, <2>1, <2>2, <2>3, <2>5
  <2>6. CASE k \in 27 .. 31
    <3>1. k - 25 = (k - 27) + 2 /\ k - 27 \in 0 .. 4 /\ k - 25 # 0
      BY <2>6
    <3> QED  BY <1>2, <1>3, <2>1, <2>2, <2>3, <3>1
  <2> QED  BY <2>4, <2>5, <2>6
<1>6. At(v, 25) \subseteq 25 .. 31
  BY <1>1, At7Below
<1> QED  BY <1>1, <1>4, <1>5, <1>6 DEF v

(* The same with no constant in the rs2 field. *)
LEMMA FpFixedNone ==
  ASSUME NEW fmt \in 0 .. 1, NEW f5 \in 0 .. 31
  PROVE  /\ fmt + 4 * f5 \in 0 .. 127
         /\ (At(fmt, 25) \cup At(f5, 27)) \cup At(0, 20) \subseteq 15 .. 31
         /\ ((At(fmt, 25) \cup At(f5, 27)) \cup At(0, 20)) \cap 25 .. 31 = At(fmt + 4 * f5, 25)
<1>1. PICK k2 \in 0 .. 31 : k2 = 0
  OBVIOUS
<1>2. /\ fmt + 4 * f5 \in 0 .. 127
      /\ (At(fmt, 25) \cup At(f5, 27)) \cup At(k2, 20) \subseteq 15 .. 31
      /\ ((At(fmt, 25) \cup At(f5, 27)) \cup At(k2, 20)) \cap 25 .. 31 = At(fmt + 4 * f5, 25)
  BY FpFixed
<1> QED  BY <1>1, <1>2

LEMMA AtZero == ASSUME NEW lo PROVE At(0, lo) = {}
BY BitsOfZero DEF At

LEMMA FpLayout ==
  ASSUME NEW op, NEW fmt, NEW f5, NEW w,
         fmt \in 0 .. 1, f5 \in 0 .. 31
  PROVE  /\ Proper(Fp(op, fmt, f5, Rs2, Rm, {}))
         /\ OfForm(Fp(op, fmt, f5, Rs2, Rm, {}), w) =>
              /\ Word32(Fp(op, fmt, f5, Rs2, Rm, {}), 20, w)
              /\ Funct7(w) = fmt + 4 * f5
              /\ Meaning(Fp(op, fmt, f5, Rs2, Rm, {}), w) =
                 Insn(op, Width(fmt), RD(w), RS1(w), RS2(w), 0, {})
<1> DEFINE f7 == fmt + 4 * f5
           f == Fp(op, fmt, f5, Rs2, Rm, {})
           extra == (At(fmt, 25) \cup At(f5, 27)) \cup At(0, 20)
<1>1. /\ f.op = op /\ f.n = Width(fmt) /\ f.ones =
         ((Major(20, 0) \cup At(fmt, 25)) \cup At(f5, 27)) \cup {} /\ f.size = 4
      /\ f.rd = Rd /\ f.rs1 = Rs1 /\ f.rs2 = Rs2 /\ f.rs3 = X(0)
      /\ f.imm = NoImm /\ f.signed = FALSE /\ f.free = 12 .. 14
  BY DEF Fp, Form, Rm
<1> HIDE DEF f
<1>2. f.ones = Major(20, 0) \cup extra
  <2>1. At(0, 20) = {} /\ At(0, 12) = {}
    BY AtZero
  <2>2. Major(20, 0) = Major(20, 0) \cup At(0, 12)
    BY AtZero DEF Major
  <2> QED  BY <1>1, <2>1, <2>2
<1> HIDE DEF f7
<1>3. Varying(f) = 7 .. 24
  <2>1. Ran(f.imm) = {}
    BY <1>1, TakesNone
  <2> QED  BY <1>1, <2>1, Fields DEF Varying
<1>4. extra \subseteq 15 .. 31 /\ extra \cap 25 .. 31 = At(f7, 25) /\ f7 \in 0 .. 127
  BY FpFixedNone DEF f7
<1> HIDE DEF extra
<1>5. /\ Layout(f, 20, 0, extra)
      /\ FixesFunct7(f, f7, extra)
  <2>1. Layout(f, 20, 0, extra)
    BY <1>2, <1>1, <1>3, <1>4 DEF Layout
  <2>2. FixesFunct7(f, f7, extra)
    BY <1>3, <1>4 DEF FixesFunct7
  <2> QED  BY <2>1, <2>2
<1>6. Proper(f) /\ (OfForm(f, w) => Word32(f, 20, w) /\ Funct7(w) = f7)
  BY <1>5, Form32, Zenon
<1>7. ASSUME OfForm(f, w) PROVE Meaning(f, w) = Insn(op, Width(fmt), RD(w), RS1(w), RS2(w), 0, {})
  <2>1. w \in SUBSET (0 .. 31) /\ w \in SUBSET Int
    BY <1>6, <1>7 DEF Word32
  <2>2. Takes(f, w, {})
    BY <1>1, <1>7, <2>1, TakesNone
  <2> QED  BY <1>1, <2>1, <2>2, Registers DEF Takes
<1> QED  BY <1>6, <1>7 DEF f, f7

LEMMA FpFunct3Layout ==
  ASSUME NEW op, NEW fmt, NEW f5, NEW f3, NEW w,
         fmt \in 0 .. 1, f5 \in 0 .. 31, f3 \in 0 .. 7
  PROVE  /\ Proper(Fp(op, fmt, f5, Rs2, {}, At(f3, 12)))
         /\ OfForm(Fp(op, fmt, f5, Rs2, {}, At(f3, 12)), w) =>
              /\ Word32(Fp(op, fmt, f5, Rs2, {}, At(f3, 12)), 20, w)
              /\ Funct3(w) = f3
              /\ Funct7(w) = fmt + 4 * f5
              /\ Meaning(Fp(op, fmt, f5, Rs2, {}, At(f3, 12)), w) =
                 Insn(op, Width(fmt), RD(w), RS1(w), RS2(w), 0, {})
<1> DEFINE f7 == fmt + 4 * f5
           f == Fp(op, fmt, f5, Rs2, {}, At(f3, 12))
           extra == (At(fmt, 25) \cup At(f5, 27)) \cup At(0, 20)
<1>1. /\ f.op = op /\ f.n = Width(fmt) /\ f.ones =
         ((Major(20, 0) \cup At(fmt, 25)) \cup At(f5, 27)) \cup At(f3, 12) /\ f.size = 4
      /\ f.rd = Rd /\ f.rs1 = Rs1 /\ f.rs2 = Rs2 /\ f.rs3 = X(0)
      /\ f.imm = NoImm /\ f.signed = FALSE /\ f.free = {}
  BY DEF Fp, Form, Rm
<1> HIDE DEF f
<1>2. f.ones = Major(20, f3) \cup extra
  <2>1. At(0, 20) = {} /\ At(0, 12) = {}
    BY AtZero
  <2>2. Major(20, f3) = Major(20, 0) \cup At(f3, 12)
    BY AtZero DEF Major
  <2> QED  BY <1>1, <2>1, <2>2
<1> HIDE DEF f7
<1>3. Varying(f) = 7 .. 11 \cup 15 .. 24
  <2>1. Ran(f.imm) = {}
    BY <1>1, TakesNone
  <2> QED  BY <1>1, <2>1, Fields DEF Varying
<1>4. extra \subseteq 15 .. 31 /\ extra \cap 25 .. 31 = At(f7, 25) /\ f7 \in 0 .. 127
  BY FpFixedNone DEF f7
<1> HIDE DEF extra
<1>5. /\ Layout(f, 20, f3, extra)
      /\ FixesFunct3(f, extra)
      /\ FixesFunct7(f, f7, extra)
  <2>1. Layout(f, 20, f3, extra)
    BY <1>2, <1>1, <1>3, <1>4 DEF Layout
  <2>2. FixesFunct3(f, extra)
    BY <1>3, <1>4 DEF FixesFunct3
  <2>3. FixesFunct7(f, f7, extra)
    BY <1>3, <1>4 DEF FixesFunct7
  <2> QED  BY <2>1, <2>2, <2>3
<1>6. Proper(f) /\ (OfForm(f, w) => Word32(f, 20, w) /\ Funct3(w) = f3 /\ Funct7(w) = f7)
  BY <1>5, Form32, Zenon
<1>7. ASSUME OfForm(f, w) PROVE Meaning(f, w) = Insn(op, Width(fmt), RD(w), RS1(w), RS2(w), 0, {})
  <2>1. w \in SUBSET (0 .. 31) /\ w \in SUBSET Int
    BY <1>6, <1>7 DEF Word32
  <2>2. Takes(f, w, {})
    BY <1>1, <1>7, <2>1, TakesNone
  <2> QED  BY <1>1, <2>1, <2>2, Registers DEF Takes
<1> QED  BY <1>6, <1>7 DEF f, f7

LEMMA FpUnaryLayout ==
  ASSUME NEW op, NEW fmt, NEW f5, NEW k2, NEW w,
         fmt \in 0 .. 1, f5 \in 0 .. 31, k2 \in 0 .. 31
  PROVE  /\ Proper(Fp(op, fmt, f5, X(0), Rm, At(k2, 20)))
         /\ OfForm(Fp(op, fmt, f5, X(0), Rm, At(k2, 20)), w) =>
              /\ Word32(Fp(op, fmt, f5, X(0), Rm, At(k2, 20)), 20, w)
              /\ Funct7(w) = fmt + 4 * f5
              /\ RS2(w) = k2
              /\ Meaning(Fp(op, fmt, f5, X(0), Rm, At(k2, 20)), w) =
                 Insn(op, Width(fmt), RD(w), RS1(w), 0, 0, {})
<1> DEFINE f7 == fmt + 4 * f5
           f == Fp(op, fmt, f5, X(0), Rm, At(k2, 20))
           extra == (At(fmt, 25) \cup At(f5, 27)) \cup At(k2, 20)
<1>1. /\ f.op = op /\ f.n = Width(fmt) /\ f.ones =
         ((Major(20, 0) \cup At(fmt, 25)) \cup At(f5, 27)) \cup At(k2, 20) /\ f.size = 4
      /\ f.rd = Rd /\ f.rs1 = Rs1 /\ f.rs2 = X(0) /\ f.rs3 = X(0)
      /\ f.imm = NoImm /\ f.signed = FALSE /\ f.free = 12 .. 14
  BY DEF Fp, Form, Rm
<1> HIDE DEF f
<1>2. f.ones = Major(20, 0) \cup extra
  <2>1. At(0, 20) = {} /\ At(0, 12) = {}
    BY AtZero
  <2>2. Major(20, 0) = Major(20, 0) \cup At(0, 12)
    BY AtZero DEF Major
  <2> QED  BY <1>1, <2>1, <2>2
<1> HIDE DEF f7
<1>3. Varying(f) = 7 .. 19
  <2>1. Ran(f.imm) = {}
    BY <1>1, TakesNone
  <2> QED  BY <1>1, <2>1, Fields DEF Varying
<1>4. extra \subseteq 15 .. 31 /\ extra \cap 25 .. 31 = At(f7, 25) /\ f7 \in 0 .. 127
  <2>1. /\ fmt + 4 * f5 \in 0 .. 127
        /\ (At(fmt, 25) \cup At(f5, 27)) \cup At(k2, 20) \subseteq 15 .. 31
        /\ ((At(fmt, 25) \cup At(f5, 27)) \cup At(k2, 20)) \cap 25 .. 31 = At(fmt + 4 * f5, 25)
    BY ONLY FpFixed, fmt \in 0 .. 1, f5 \in 0 .. 31, k2 \in 0 .. 31
  <2> QED  BY <2>1, Zenon DEF f7, extra
<1> HIDE DEF extra
<1>5. /\ Layout(f, 20, 0, extra)
      /\ FixesFunct7(f, f7, extra)
  <2>1. Layout(f, 20, 0, extra)
    BY <1>2, <1>1, <1>3, <1>4 DEF Layout
  <2>2. FixesFunct7(f, f7, extra)
    BY <1>3, <1>4 DEF FixesFunct7
  <2> QED  BY <2>1, <2>2
<1>6. Proper(f) /\ (OfForm(f, w) => Word32(f, 20, w) /\ Funct7(w) = f7)
  BY <1>5, Form32, Zenon
<1>7. ASSUME OfForm(f, w) PROVE Meaning(f, w) = Insn(op, Width(fmt), RD(w), RS1(w), 0, 0, {})
  <2>1. w \in SUBSET (0 .. 31) /\ w \in SUBSET Int
    BY <1>6, <1>7 DEF Word32
  <2>2. Takes(f, w, {})
    BY <1>1, <1>7, <2>1, TakesNone
  <2> QED  BY <1>1, <2>1, <2>2, Registers DEF Takes
<1>8. ASSUME OfForm(f, w) PROVE RS2(w) = k2
  <2>1. BitsOf(k2) \subseteq 0 .. 4
    BY BitsBelow
  <2>2. ASSUME NEW j \in 0 .. 4 PROVE 20 + j \in w <=> j \in BitsOf(k2)
    <3>1. 20 + j \in 20 .. 24
      OBVIOUS
    <3>2. 20 + j \in w <=> 20 + j \in f.ones
      BY <1>3, <1>6, <1>8, <3>1 DEF Word32
    <3>3. Major(20, 0) \subseteq 0 .. 6 \cup 12 .. 14
      BY MajorBelow
    <3>4. At(fmt, 25) \subseteq 25 .. 29 /\ At(f5, 27) \subseteq 27 .. 31
      BY AtBelow, 25 + 4 = 29, 27 + 4 = 31
    <3>5. 20 + j \in At(k2, 20) <=> j \in BitsOf(k2)
      BY AtIn, (20 + j) - 20 = j
    <3> QED  BY <1>2, <3>1, <3>2, <3>3, <3>4, <3>5 DEF extra
  <2>3. w \in SUBSET Int
    BY <1>6, <1>8 DEF Word32
  <2>4. Bits(w, 5, 20) = k2
    BY ONLY <2>2, <2>3, FiveBits, k2 \in 0 .. 31, 20 \in Nat
  <2> QED  BY <2>4 DEF RS2
<1> QED  BY <1>6, <1>7, <1>8 DEF f, f7

LEMMA FpMoveLayout ==
  ASSUME NEW op, NEW fmt, NEW f5, NEW f3, NEW w,
         fmt \in 0 .. 1, f5 \in 0 .. 31, f3 \in 0 .. 7
  PROVE  /\ Proper(Fp(op, fmt, f5, X(0), {}, At(f3, 12)))
         /\ OfForm(Fp(op, fmt, f5, X(0), {}, At(f3, 12)), w) =>
              /\ Word32(Fp(op, fmt, f5, X(0), {}, At(f3, 12)), 20, w)
              /\ Funct3(w) = f3
              /\ Funct7(w) = fmt + 4 * f5
              /\ Meaning(Fp(op, fmt, f5, X(0), {}, At(f3, 12)), w) =
                 Insn(op, Width(fmt), RD(w), RS1(w), 0, 0, {})
<1> DEFINE f7 == fmt + 4 * f5
           f == Fp(op, fmt, f5, X(0), {}, At(f3, 12))
           extra == (At(fmt, 25) \cup At(f5, 27)) \cup At(0, 20)
<1>1. /\ f.op = op /\ f.n = Width(fmt) /\ f.ones =
         ((Major(20, 0) \cup At(fmt, 25)) \cup At(f5, 27)) \cup At(f3, 12) /\ f.size = 4
      /\ f.rd = Rd /\ f.rs1 = Rs1 /\ f.rs2 = X(0) /\ f.rs3 = X(0)
      /\ f.imm = NoImm /\ f.signed = FALSE /\ f.free = {}
  BY DEF Fp, Form, Rm
<1> HIDE DEF f
<1>2. f.ones = Major(20, f3) \cup extra
  <2>1. At(0, 20) = {} /\ At(0, 12) = {}
    BY AtZero
  <2>2. Major(20, f3) = Major(20, 0) \cup At(f3, 12)
    BY AtZero DEF Major
  <2> QED  BY <1>1, <2>1, <2>2
<1> HIDE DEF f7
<1>3. Varying(f) = 7 .. 11 \cup 15 .. 19
  <2>1. Ran(f.imm) = {}
    BY <1>1, TakesNone
  <2> QED  BY <1>1, <2>1, Fields DEF Varying
<1>4. extra \subseteq 15 .. 31 /\ extra \cap 25 .. 31 = At(f7, 25) /\ f7 \in 0 .. 127
  BY FpFixedNone DEF f7
<1> HIDE DEF extra
<1>5. /\ Layout(f, 20, f3, extra)
      /\ FixesFunct3(f, extra)
      /\ FixesFunct7(f, f7, extra)
  <2>1. Layout(f, 20, f3, extra)
    BY <1>2, <1>1, <1>3, <1>4 DEF Layout
  <2>2. FixesFunct3(f, extra)
    BY <1>3, <1>4 DEF FixesFunct3
  <2>3. FixesFunct7(f, f7, extra)
    BY <1>3, <1>4 DEF FixesFunct7
  <2> QED  BY <2>1, <2>2, <2>3
<1>6. Proper(f) /\ (OfForm(f, w) => Word32(f, 20, w) /\ Funct3(w) = f3 /\ Funct7(w) = f7)
  BY <1>5, Form32, Zenon
<1>7. ASSUME OfForm(f, w) PROVE Meaning(f, w) = Insn(op, Width(fmt), RD(w), RS1(w), 0, 0, {})
  <2>1. w \in SUBSET (0 .. 31) /\ w \in SUBSET Int
    BY <1>6, <1>7 DEF Word32
  <2>2. Takes(f, w, {})
    BY <1>1, <1>7, <2>1, TakesNone
  <2> QED  BY <1>1, <2>1, <2>2, Registers DEF Takes
<1> QED  BY <1>6, <1>7 DEF f, f7
-----------------------------------------------------------------------------
(* Cpu::execute32: the handler of each opcode *)

LEMMA Dispatch ==
  ASSUME NEW w
  PROVE  /\ Opcode(w) = 3 => execute32(w) = load(w)
         /\ Opcode(w) = 15 => execute32(w) = Bare("fence")
         /\ Opcode(w) = 19 => execute32(w) = itype(w)
         /\ Opcode(w) = 35 => execute32(w) = store(w)
         /\ Opcode(w) = 51 => execute32(w) = rtype(w)
         /\ Opcode(w) = 99 => execute32(w) = btype(w)
         /\ Opcode(w) = 7 => execute32(w) = fl(w)
         /\ Opcode(w) = 39 => execute32(w) = fs(w)
         /\ Opcode(w) = 67 => execute32(w) = fma("fmadd", w)
         /\ Opcode(w) = 71 => execute32(w) = fma("fmsub", w)
         /\ Opcode(w) = 75 => execute32(w) = fma("fnmsub", w)
         /\ Opcode(w) = 79 => execute32(w) = fma("fnmadd", w)
         /\ Opcode(w) = 83 => execute32(w) = fother(w)
         /\ Opcode(w) = 47 => execute32(w) = atomic(w)
         /\ Opcode(w) = 27 => execute32(w) = i64(w)
         /\ Opcode(w) = 59 => execute32(w) = r64(w)
         /\ Opcode(w) = 23 => execute32(w) = Insn("auipc", 64, RD(w), 0, 0, 0, imm_u(w))
         /\ Opcode(w) = 55 => execute32(w) = Insn("lui", 64, RD(w), 0, 0, 0, imm_u(w))
         /\ Opcode(w) = 111 => execute32(w) = Insn("jal", 64, RD(w), 0, 0, 0, imm_j(w))
         /\ Opcode(w) = 103 => execute32(w) = WithImm("jalr", 64, w, imm_i(w))
         /\ Opcode(w) = 115 => execute32(w) = system(w)
<1> DEFINE t == OpcodeType(Opcode(w))
<1>1. ASSUME Opcode(w) = 3 PROVE execute32(w) = load(w)
  <2>1. OpcodeType(3) = "LOAD"
    BY DEF OpcodeType
  <2> QED  BY <1>1, <2>1 DEF execute32
<1>2. ASSUME Opcode(w) = 15 PROVE execute32(w) = Bare("fence")
  <2>1. OpcodeType(15) = "FENCE"
    BY DEF OpcodeType
  <2> QED  BY <1>2, <2>1 DEF execute32
<1>3. ASSUME Opcode(w) = 19 PROVE execute32(w) = itype(w)
  <2>1. OpcodeType(19) = "I"
    BY DEF OpcodeType
  <2> QED  BY <1>3, <2>1 DEF execute32
<1>4. ASSUME Opcode(w) = 35 PROVE execute32(w) = store(w)
  <2>1. OpcodeType(35) = "S"
    BY DEF OpcodeType
  <2> QED  BY <1>4, <2>1 DEF execute32
<1>5. ASSUME Opcode(w) = 51 PROVE execute32(w) = rtype(w)
  <2>1. OpcodeType(51) = "R"
    BY DEF OpcodeType
  <2> QED  BY <1>5, <2>1 DEF execute32
<1>6. ASSUME Opcode(w) = 99 PROVE execute32(w) = btype(w)
  <2>1. OpcodeType(99) = "B"
    BY DEF OpcodeType
  <2> QED  BY <1>6, <2>1 DEF execute32
<1>7. ASSUME Opcode(w) = 7 PROVE execute32(w) = fl(w)
  <2>1. OpcodeType(7) = "FL"
    BY DEF OpcodeType
  <2> QED  BY <1>7, <2>1 DEF execute32
<1>8. ASSUME Opcode(w) = 39 PROVE execute32(w) = fs(w)
  <2>1. OpcodeType(39) = "FS"
    BY DEF OpcodeType
  <2> QED  BY <1>8, <2>1 DEF execute32
<1>9. ASSUME Opcode(w) = 67 PROVE execute32(w) = fma("fmadd", w)
  <2>1. OpcodeType(67) = "FMADD"
    BY DEF OpcodeType
  <2> QED  BY <1>9, <2>1 DEF execute32
<1>10. ASSUME Opcode(w) = 71 PROVE execute32(w) = fma("fmsub", w)
  <2>1. OpcodeType(71) = "FMSUB"
    BY DEF OpcodeType
  <2> QED  BY <1>10, <2>1 DEF execute32
<1>11. ASSUME Opcode(w) = 75 PROVE execute32(w) = fma("fnmsub", w)
  <2>1. OpcodeType(75) = "FNMADD"
    BY DEF OpcodeType
  <2> QED  BY <1>11, <2>1 DEF execute32
<1>12. ASSUME Opcode(w) = 79 PROVE execute32(w) = fma("fnmadd", w)
  <2>1. OpcodeType(79) = "FNMSUB"
    BY DEF OpcodeType
  <2> QED  BY <1>12, <2>1 DEF execute32
<1>13. ASSUME Opcode(w) = 83 PROVE execute32(w) = fother(w)
  <2>1. OpcodeType(83) = "FOTHER"
    BY DEF OpcodeType
  <2> QED  BY <1>13, <2>1 DEF execute32
<1>14. ASSUME Opcode(w) = 47 PROVE execute32(w) = atomic(w)
  <2>1. OpcodeType(47) = "ATOMIC"
    BY DEF OpcodeType
  <2> QED  BY <1>14, <2>1 DEF execute32
<1>15. ASSUME Opcode(w) = 27 PROVE execute32(w) = i64(w)
  <2>1. OpcodeType(27) = "I64"
    BY DEF OpcodeType
  <2> QED  BY <1>15, <2>1 DEF execute32
<1>16. ASSUME Opcode(w) = 59 PROVE execute32(w) = r64(w)
  <2>1. OpcodeType(59) = "R64"
    BY DEF OpcodeType
  <2> QED  BY <1>16, <2>1 DEF execute32
<1>17. ASSUME Opcode(w) = 23 PROVE execute32(w) = Insn("auipc", 64, RD(w), 0, 0, 0, imm_u(w))
  <2>1. OpcodeType(23) = "AUIPC"
    BY DEF OpcodeType
  <2> QED  BY <1>17, <2>1 DEF execute32
<1>18. ASSUME Opcode(w) = 55 PROVE execute32(w) = Insn("lui", 64, RD(w), 0, 0, 0, imm_u(w))
  <2>1. OpcodeType(55) = "LUI"
    BY DEF OpcodeType
  <2> QED  BY <1>18, <2>1 DEF execute32
<1>19. ASSUME Opcode(w) = 111 PROVE execute32(w) = Insn("jal", 64, RD(w), 0, 0, 0, imm_j(w))
  <2>1. OpcodeType(111) = "JAL"
    BY DEF OpcodeType
  <2> QED  BY <1>19, <2>1 DEF execute32
<1>20. ASSUME Opcode(w) = 103 PROVE execute32(w) = WithImm("jalr", 64, w, imm_i(w))
  <2>1. OpcodeType(103) = "JALR"
    BY DEF OpcodeType
  <2> QED  BY <1>20, <2>1 DEF execute32
<1>21. ASSUME Opcode(w) = 115 PROVE execute32(w) = system(w)
  <2>1. OpcodeType(115) = "CSR"
    BY DEF OpcodeType
  <2> QED  BY <1>21, <2>1 DEF execute32
<1> QED  BY <1>1, <1>2, <1>3, <1>4, <1>5, <1>6, <1>7, <1>8, <1>9, <1>10, <1>11, <1>12, <1>13, <1>14,
            <1>15, <1>16, <1>17, <1>18, <1>19, <1>20, <1>21

LEMMA DispatchUnused ==
  ASSUME NEW w, NEW m \in 0 .. 31 \ {0, 1, 3, 4, 5, 6, 8, 9, 11, 12, 13, 14, 16, 17, 18, 19, 20, 24,
         25, 27, 28},
         Opcode(w) = 3 + 4 * m
  PROVE  execute32(w) = Illegal
<1>1. OpcodeType(3 + 4 * m) = "none"
  BY DEF OpcodeType
<1> QED  BY <1>1 DEF execute32
-----------------------------------------------------------------------------
(* The formats of each layout, given what the handlers do *)

LEMMA IDecodes ==
  ASSUME NEW op, NEW n, NEW m, NEW f3,
         m \in 0 .. 31, f3 \in 0 .. 7, op # "none",
         \A w \in SUBSET (0 .. 31) :
           Opcode(w) = 3 + 4 * m /\ Funct3(w) = f3 => execute32(w) = WithImm(op, n, w, imm_i(w))
  PROVE  Decodes(I(op, n, m, f3))
<1> DEFINE f == I(op, n, m, f3)
<1>1. Proper(f)
  BY ILayout
<1>2. ASSUME NEW w, OfForm(f, w) PROVE Result(w) = Meaning(f, w)
  BY <1>2, ILayout DEF Word32, WithImm
<1> QED  BY <1>1, <1>2 DEF Decodes

LEMMA SDecodes ==
  ASSUME NEW op, NEW n, NEW m, NEW f3,
         m \in 0 .. 31, f3 \in 0 .. 7, op # "none",
         \A w \in SUBSET (0 .. 31) :
           /\ Opcode(w) = 3 + 4 * m /\ Funct3(w) = f3
           /\ op = "fstore" => 31 \notin w
           => execute32(w) = NoRd(op, n, w, imm_s(w))
  PROVE  Decodes(S(op, n, m, f3))
<1> DEFINE f == S(op, n, m, f3)
<1>1. Proper(f)
  BY SLayout
<1>2. ASSUME NEW w, OfForm(f, w), Exact(f, w) PROVE Result(w) = Meaning(f, w)
  <2>1. f.op = op /\ f.size = 4
    BY DEF S, Form
  <2>2. op = "fstore" => 31 \notin w
    BY <1>2, <2>1 DEF Exact
  <2> QED  BY <1>2, <2>2, SLayout DEF Word32, NoRd
<1> QED  BY <1>1, <1>2 DEF Decodes

LEMMA BDecodes ==
  ASSUME NEW op, NEW f3,
         f3 \in 0 .. 7, op # "none", BType(f3) = op
  PROVE  Decodes(B(op, f3))
<1> DEFINE f == B(op, f3)
<1>1. Proper(f)
  BY BLayout
<1>2. ASSUME NEW w, OfForm(f, w) PROVE Result(w) = Meaning(f, w)
  <2>1. Opcode(w) = 99
    BY <1>2, BLayout, 3 + 4 * 24 = 99 DEF Word32
  <2> QED  BY <1>2, <2>1, BLayout, Dispatch DEF Word32, NoRd, btype
<1> QED  BY <1>1, <1>2 DEF Decodes

LEMMA UDecodes == Decodes(U("lui", 13)) /\ Decodes(U("auipc", 5))
<1>1. Proper(U("lui", 13)) /\ Proper(U("auipc", 5))
  BY ULayout
<1>2. ASSUME NEW w, OfForm(U("lui", 13), w) PROVE Result(w) = Meaning(U("lui", 13), w)
  BY <1>2, ULayout, Dispatch, 3 + 4 * 13 = 55 DEF Word32
<1>3. ASSUME NEW w, OfForm(U("auipc", 5), w) PROVE Result(w) = Meaning(U("auipc", 5), w)
  BY <1>3, ULayout, Dispatch, 3 + 4 * 5 = 23 DEF Word32
<1> QED  BY <1>1, <1>2, <1>3 DEF Decodes

LEMMA RDecodes ==
  ASSUME NEW op, NEW n, NEW m, NEW f3, NEW f7,
         m \in 0 .. 31, f3 \in 0 .. 7, f7 \in 0 .. 127, op # "none",
         \A w \in SUBSET (0 .. 31) :
           Opcode(w) = 3 + 4 * m /\ Funct3(w) = f3 /\ Funct7(w) = f7 =>
           execute32(w) = WithRs2(op, n, w)
  PROVE  Decodes(R(op, n, m, f3, f7))
<1> DEFINE f == R(op, n, m, f3, f7)
<1>1. Proper(f)
  BY RLayout
<1>2. ASSUME NEW w, OfForm(f, w) PROVE Result(w) = Meaning(f, w)
  <2>1. /\ Word32(f, m, w) /\ Funct3(w) = f3 /\ Funct7(w) = f7
        /\ Meaning(f, w) = Insn(op, n, RD(w), RS1(w), RS2(w), 0, {})
    BY <1>2, RLayout
  <2> HIDE DEF f
  <2> QED  BY <2>1 DEF Word32, WithRs2
<1> QED  BY <1>1, <1>2 DEF Decodes

(* A fixed bit of funct7 *)
LEMMA TopBits ==
  ASSUME NEW f, NEW m, NEW f3, NEW f7, NEW w,
         m \in 0 .. 31, f3 \in 0 .. 7, f7 \in 0 .. 127,
         Word32(f, m, w), f.ones = Major(m, f3) \cup At(f7, 25)
  PROVE  \A k \in 25 .. 31 : k \notin Varying(f) => (k \in w <=> k - 25 \in BitsOf(f7))
<1> TAKE k \in 25 .. 31
<1>1. k \notin Major(m, f3)
  BY MajorBelow
<1>2. k \in At(f7, 25) <=> k - 25 \in BitsOf(f7)
  BY AtIn
<1> QED  BY <1>1, <1>2 DEF Word32

LEMMA EvenBits == 0 \notin BitsOf(0) /\ 0 \notin BitsOf(32)
<1>1. (0 \div 2^0) % 2 = 0 /\ (32 \div 2^0) % 2 = 0
  OBVIOUS
<1> QED  BY <1>1 DEF BitsOf

LEMMA Shift32Word ==
  ASSUME NEW op, NEW m, NEW f3, NEW f7, NEW w,
         m \in 0 .. 31, f3 \in 0 .. 7, f7 \in 0 .. 127,
         f7 \in {0, 32}, OfForm(Shift(op, 32, m, f3, f7), w)
  PROVE  /\ Word32(Shift(op, 32, m, f3, f7), m, w) /\ Funct3(w) = f3 /\ Funct7(w) = f7
         /\ Meaning(Shift(op, 32, m, f3, f7), w) = Insn(op, 32, RD(w), RS1(w), 0, 0, shamt(w))
<1> DEFINE f == Shift(op, 32, m, f3, f7)
<1>1. Word32(f, m, w) /\ Funct3(w) = f3 /\ Funct7(w) = f7
  BY Shift32Layout
<1>2. f.ones = Major(m, f3) \cup At(f7, 25)
  BY DEF Shift, Form
<1>3. /\ f.imm = Shamt(32) /\ f.rd = Rd /\ f.rs1 = Rs1 /\ f.rs2 = X(0) /\ f.rs3 = X(0) /\ f.free =
         {}
  BY DEF Shift, Form
<1> HIDE DEF f
<1>4. 25 \notin w
  <2>1. Ran(f.imm) = 20 .. 24
    BY <1>1, <1>3, TakesShamt32 DEF Word32
  <2>2. 25 \notin Varying(f)
    BY <1>3, <2>1, Fields DEF Varying
  <2>3. \A k \in 25 .. 31 : k \notin Varying(f) => (k \in w <=> k - 25 \in BitsOf(f7))
    BY <1>1, <1>2, TopBits
  <2>4. 25 \in 25 .. 31 /\ 25 - 25 = 0 /\ 0 \notin BitsOf(f7)
    BY EvenBits
  <2> QED  BY <2>2, <2>3, <2>4
<1> QED  BY <1>1, <1>4, Shift32Layout DEF f

(* slli, srli and srai have a six-bit count: bit 25 of the word is its top bit. *)
LEMMA Shift64Word ==
  ASSUME NEW op, NEW m, NEW f3, NEW f7, NEW w,
         m \in 0 .. 31, f3 \in 0 .. 7, f7 \in 0 .. 127,
         f7 \in {0, 32}, OfForm(Shift(op, 64, m, f3, f7), w)
  PROVE  /\ Word32(Shift(op, 64, m, f3, f7), m, w) /\ Funct3(w) = f3 /\ Funct7(w) \in {f7, f7 + 1}
         /\ Meaning(Shift(op, 64, m, f3, f7), w) = Insn(op, 64, RD(w), RS1(w), 0, 0, shamt(w))
<1> DEFINE f == Shift(op, 64, m, f3, f7)
<1>1. /\ Word32(f, m, w) /\ Funct3(w) = f3
      /\ Meaning(f, w) = Insn(op, 64, RD(w), RS1(w), 0, 0, shamt(w))
  BY Shift64Layout
<1>2. f.ones = Major(m, f3) \cup At(f7, 25)
  BY DEF Shift, Form
<1>3. /\ f.imm = Shamt(64) /\ f.rd = Rd /\ f.rs1 = Rs1 /\ f.rs2 = X(0) /\ f.rs3 = X(0) /\ f.free =
         {}
  BY DEF Shift, Form
<1> HIDE DEF f
<1>4. Funct7(w) \in {f7, f7 + 1}
  <2>1. Ran(f.imm) = 20 .. 25
    BY <1>1, <1>3, TakesShamt64 DEF Word32
  <2>2. \A k \in 26 .. 31 : k \notin Varying(f)
    BY <1>3, <2>1, Fields DEF Varying
  <2>3. \A k \in 25 .. 31 : k \notin Varying(f) => (k \in w <=> k - 25 \in BitsOf(f7))
    BY <1>1, <1>2, TopBits
  <2>4. \A j \in 1 .. 6 : j + 25 \in w <=> j \in BitsOf(f7)
    <3> TAKE j \in 1 .. 6
    <3>1. j + 25 \in 26 .. 31 /\ j + 25 \in 25 .. 31 /\ (j + 25) - 25 = j
      OBVIOUS
    <3> QED  BY <2>2, <2>3, <3>1
  <2> DEFINE s == Shr(w, 25) \cap 0 .. (7 - 1)
  <2>5. \A j \in 1 .. 6 : j \in s <=> j \in BitsOf(f7)
    <3>1. w \in SUBSET Int
      BY <1>1 DEF Word32
    <3> QED  BY <2>4, <3>1, ShrIn
  <2>6. Funct7(w) = Num(s)
    BY DEF Funct7, Bits
  <2>7. Num(BitsOf(f7)) = f7 /\ 0 \notin BitsOf(f7)
    BY NumOfBits, EvenBits
  <2> HIDE DEF s
  <2> QED  BY <2>5, <2>6, <2>7 DEF Num
<1> QED  BY <1>1, <1>4 DEF f

LEMMA Shift32Decodes ==
  ASSUME NEW op, NEW m, NEW f3, NEW f7,
         m \in 0 .. 31, f3 \in 0 .. 7, f7 \in 0 .. 127, f7 \in {0, 32}, op # "none",
         \A w \in SUBSET (0 .. 31) :
           Opcode(w) = 3 + 4 * m /\ Funct3(w) = f3 /\ Funct7(w) = f7 =>
           execute32(w) = WithImm(op, 32, w, shamt(w))
  PROVE  Decodes(Shift(op, 32, m, f3, f7))
<1> DEFINE f == Shift(op, 32, m, f3, f7)
<1>1. Proper(f)
  BY Shift32Layout
<1>2. ASSUME NEW w, OfForm(f, w) PROVE Result(w) = Meaning(f, w)
  <2>1. /\ Word32(f, m, w) /\ Funct3(w) = f3 /\ Funct7(w) = f7
        /\ Meaning(f, w) = Insn(op, 32, RD(w), RS1(w), 0, 0, shamt(w))
    BY <1>2, Shift32Word
  <2> HIDE DEF f
  <2> QED  BY <2>1 DEF Word32, WithImm
<1> QED  BY <1>1, <1>2 DEF Decodes

LEMMA Shift64Decodes ==
  ASSUME NEW op, NEW m, NEW f3, NEW f7,
         m \in 0 .. 31, f3 \in 0 .. 7, f7 \in 0 .. 127, f7 \in {0, 32}, op # "none",
         \A w \in SUBSET (0 .. 31) :
           Opcode(w) = 3 + 4 * m /\ Funct3(w) = f3 /\ Funct7(w) \in {f7, f7 + 1} =>
           execute32(w) = WithImm(op, 64, w, shamt(w))
  PROVE  Decodes(Shift(op, 64, m, f3, f7))
<1> DEFINE f == Shift(op, 64, m, f3, f7)
<1>1. Proper(f)
  BY Shift64Layout
<1>2. ASSUME NEW w, OfForm(f, w) PROVE Result(w) = Meaning(f, w)
  <2>1. /\ Word32(f, m, w) /\ Funct3(w) = f3 /\ Funct7(w) \in {f7, f7 + 1}
        /\ Meaning(f, w) = Insn(op, 64, RD(w), RS1(w), 0, 0, shamt(w))
    BY <1>2, Shift64Word
  <2> HIDE DEF f
  <2> QED  BY <2>1 DEF Word32, WithImm
<1> QED  BY <1>1, <1>2 DEF Decodes

-----------------------------------------------------------------------------
(* Integer instructions *)

LEMMA Loads == \A f3 \in 0 .. 6 : Decodes(I(IF f3 < 4 THEN "load" ELSE "loadu", 8 * 2^(f3 % 4), 0,
f3))
<1> TAKE f3 \in 0 .. 6
<1> DEFINE op == IF f3 < 4 THEN "load" ELSE "loadu"
           n == 8 * 2^(f3 % 4)
<1>1. op # "none" /\ LOADType(f3) = op /\ f3 \in 0 .. 7
  BY DEF LOADType
<1>2. ASSUME NEW w \in SUBSET (0 .. 31), Opcode(w) = 3 + 4 * 0, Funct3(w) = f3
      PROVE  execute32(w) = WithImm(op, n, w, imm_i(w))
  BY <1>1, <1>2, Dispatch, 3 + 4 * 0 = 3 DEF load, AccessWidth
<1> HIDE DEF op, n
<1>3. Decodes(I(op, n, 0, f3))
  BY <1>1, <1>2, IDecodes
<1> QED  BY <1>3 DEF op, n

LEMMA Stores == \A f3 \in 0 .. 3 : Decodes(S("store", 8 * 2^f3, 8, f3))
<1> TAKE f3 \in 0 .. 3
<1> DEFINE n == 8 * 2^f3
<1>1. SType(f3) = "store" /\ f3 \in 0 .. 7 /\ f3 % 4 = f3
  BY DEF SType
<1>2. ASSUME NEW w \in SUBSET (0 .. 31), Opcode(w) = 3 + 4 * 8, Funct3(w) = f3
      PROVE  execute32(w) = NoRd("store", n, w, imm_s(w))
  BY <1>1, <1>2, Dispatch, 3 + 4 * 8 = 35 DEF store, AccessWidth
<1> HIDE DEF n
<1>3. Decodes(S("store", n, 8, f3))
  BY <1>1, <1>2, SDecodes
<1> QED  BY <1>3 DEF n

LEMMA Immediates == \A f3 \in {0, 2, 3, 4, 6, 7} : Decodes(I(Ops[f3 + 1], 64, 4, f3))
<1> TAKE f3 \in {0, 2, 3, 4, 6, 7}
<1> DEFINE op == Ops[f3 + 1]
<1>1. op # "none" /\ ITypes[f3 + 1] = op
  BY DEF Ops, ITypes
<1>2. ASSUME NEW w \in SUBSET (0 .. 31), Opcode(w) = 3 + 4 * 4, Funct3(w) = f3
      PROVE  execute32(w) = WithImm(op, 64, w, imm_i(w))
  BY <1>1, <1>2, Dispatch, 3 + 4 * 4 = 19 DEF itype
<1> HIDE DEF op
<1>3. Decodes(I(op, 64, 4, f3))
  BY <1>1, <1>2, IDecodes, f3 \in 0 .. 7
<1> QED  BY <1>3 DEF op

LEMMA Addiw == Decodes(I("add", 32, 6, 0))
<1>1. ASSUME NEW w \in SUBSET (0 .. 31), Opcode(w) = 3 + 4 * 6, Funct3(w) = 0
      PROVE  execute32(w) = WithImm("add", 32, w, imm_i(w))
  BY <1>1, Dispatch, 3 + 4 * 6 = 27 DEF i64
<1> QED  BY <1>1, IDecodes

LEMMA Jalr == Decodes(I("jalr", 64, 25, 0))
<1>1. ASSUME NEW w \in SUBSET (0 .. 31), Opcode(w) = 3 + 4 * 25, Funct3(w) = 0
      PROVE  execute32(w) = WithImm("jalr", 64, w, imm_i(w))
  BY <1>1, Dispatch, 3 + 4 * 25 = 103
<1> QED  BY <1>1, IDecodes

LEMMA Shifts64 ==
  /\ Decodes(Shift("sll", 64, 4, 1, 0)) /\ Decodes(Shift("srl", 64, 4, 5, 0))
  /\ Decodes(Shift("sra", 64, 4, 5, 32))
<1>1. /\ 3 + 4 * 4 = 19
      /\ \A v \in {0, 0 + 1} : v \div 2 = 0
      /\ \A v \in {32, 32 + 1} : v \div 2 = 16
  OBVIOUS
<1>2. ASSUME NEW w \in SUBSET (0 .. 31), Opcode(w) = 3 + 4 * 4, Funct3(w) = 1
      PROVE  execute32(w) = WithImm("sll", 64, w, shamt(w))
  BY <1>1, <1>2, Dispatch DEF itype, ShiftType
<1>3. ASSUME NEW w \in SUBSET (0 .. 31), Opcode(w) = 3 + 4 * 4, Funct3(w) = 5,
      Funct7(w) \in {0, 0 + 1}
      PROVE  execute32(w) = WithImm("srl", 64, w, shamt(w))
  <2>1. Funct7(w) \div 2 = 0
    BY <1>1, <1>3
  <2> QED  BY <1>1, <1>3, <2>1, Dispatch DEF itype, ShiftType
<1>4. ASSUME NEW w \in SUBSET (0 .. 31), Opcode(w) = 3 + 4 * 4, Funct3(w) = 5,
      Funct7(w) \in {32, 32 + 1}
      PROVE  execute32(w) = WithImm("sra", 64, w, shamt(w))
  <2>1. Funct7(w) \div 2 = 16
    BY <1>1, <1>4
  <2> QED  BY <1>1, <1>4, <2>1, Dispatch DEF itype, ShiftType
<1>5. Decodes(Shift("sll", 64, 4, 1, 0))
  BY <1>2, Shift64Decodes
<1>6. Decodes(Shift("srl", 64, 4, 5, 0))
  BY <1>3, Shift64Decodes
<1>7. Decodes(Shift("sra", 64, 4, 5, 32))
  BY <1>4, Shift64Decodes
<1> QED  BY <1>5, <1>6, <1>7

LEMMA Shifts32 ==
  /\ Decodes(Shift("sll", 32, 6, 1, 0)) /\ Decodes(Shift("srl", 32, 6, 5, 0))
  /\ Decodes(Shift("sra", 32, 6, 5, 32))
<1>1. 3 + 4 * 6 = 27
  OBVIOUS
<1>2. ASSUME NEW w \in SUBSET (0 .. 31), Opcode(w) = 3 + 4 * 6, Funct3(w) = 1, Funct7(w) = 0
      PROVE  execute32(w) = WithImm("sll", 32, w, shamt(w))
  BY <1>1, <1>2, Dispatch DEF i64, ShiftType
<1>3. ASSUME NEW w \in SUBSET (0 .. 31), Opcode(w) = 3 + 4 * 6, Funct3(w) = 5, Funct7(w) = 0
      PROVE  execute32(w) = WithImm("srl", 32, w, shamt(w))
  BY <1>1, <1>3, Dispatch DEF i64, ShiftType
<1>4. ASSUME NEW w \in SUBSET (0 .. 31), Opcode(w) = 3 + 4 * 6, Funct3(w) = 5, Funct7(w) = 32
      PROVE  execute32(w) = WithImm("sra", 32, w, shamt(w))
  BY <1>1, <1>4, Dispatch DEF i64, ShiftType
<1>5. Decodes(Shift("sll", 32, 6, 1, 0))
  BY <1>2, Shift32Decodes
<1>6. Decodes(Shift("srl", 32, 6, 5, 0))
  BY <1>3, Shift32Decodes
<1>7. Decodes(Shift("sra", 32, 6, 5, 32))
  BY <1>4, Shift32Decodes
<1> QED  BY <1>5, <1>6, <1>7

LEMMA Registers64 ==
  ASSUME NEW op, NEW f3, NEW f7, f3 \in 0 .. 7, f7 \in 0 .. 127, op # "none", RType(f3, f7) = op
  PROVE  Decodes(R(op, 64, 12, f3, f7))
<1>1. ASSUME NEW w \in SUBSET (0 .. 31), Opcode(w) = 3 + 4 * 12, Funct3(w) = f3, Funct7(w) = f7
      PROVE  execute32(w) = WithRs2(op, 64, w)
  BY <1>1, Dispatch, 3 + 4 * 12 = 51 DEF rtype
<1> QED  BY <1>1, RDecodes

LEMMA Registers32 ==
  ASSUME NEW op, NEW f3, NEW f7, f3 \in 0 .. 7, f7 \in 0 .. 127, op # "none", R64Type(f3, f7) = op
  PROVE  Decodes(R(op, 32, 14, f3, f7))
<1>1. ASSUME NEW w \in SUBSET (0 .. 31), Opcode(w) = 3 + 4 * 14, Funct3(w) = f3, Funct7(w) = f7
      PROVE  execute32(w) = WithRs2(op, 32, w)
  BY <1>1, Dispatch, 3 + 4 * 14 = 59 DEF r64
<1> QED  BY <1>1, RDecodes

LEMMA RegisterOps ==
  /\ \A f3 \in 0 .. 7 : Decodes(R(Ops[f3 + 1], 64, 12, f3, 0))
  /\ \A f3 \in 0 .. 7 : Decodes(R(MulDiv[f3 + 1], 64, 12, f3, 1))
  /\ \A f3 \in {0, 1, 5} : Decodes(R(Ops[f3 + 1], 32, 14, f3, 0))
  /\ \A f3 \in {0, 4, 5, 6, 7} : Decodes(R(MulDiv[f3 + 1], 32, 14, f3, 1))
  /\ Decodes(R("sub", 64, 12, 0, 32)) /\ Decodes(R("sra", 64, 12, 5, 32))
  /\ Decodes(R("sub", 32, 14, 0, 32)) /\ Decodes(R("sra", 32, 14, 5, 32))
<1>1. ASSUME NEW f3 \in 0 .. 7 PROVE Decodes(R(Ops[f3 + 1], 64, 12, f3, 0))
  <2>1. Ops[f3 + 1] # "none" /\ RType(f3, 0) = Ops[f3 + 1]
    BY DEF Ops, RType
  <2> QED  BY <2>1, Registers64
<1>2. ASSUME NEW f3 \in 0 .. 7 PROVE Decodes(R(MulDiv[f3 + 1], 64, 12, f3, 1))
  <2>1. MulDiv[f3 + 1] # "none" /\ RType(f3, 1) = MulDiv[f3 + 1]
    BY DEF MulDiv, RType
  <2> QED  BY <2>1, Registers64
<1>3. ASSUME NEW f3 \in {0, 1, 5} PROVE Decodes(R(Ops[f3 + 1], 32, 14, f3, 0))
  <2>1. Ops[f3 + 1] # "none" /\ f3 \in 0 .. 7
    BY DEF Ops
  <2>2. R64Type(0, 0) = Ops[0 + 1] /\ R64Type(1, 0) = Ops[1 + 1] /\ R64Type(5, 0) = Ops[5 + 1]
    BY DEF Ops, R64Type
  <2>3. R64Type(f3, 0) = Ops[f3 + 1]
    BY <2>2
  <2> QED  BY <2>1, <2>3, Registers32
<1>4. ASSUME NEW f3 \in {0, 4, 5, 6, 7} PROVE Decodes(R(MulDiv[f3 + 1], 32, 14, f3, 1))
  <2>1. MulDiv[f3 + 1] # "none" /\ f3 \in 0 .. 7
    BY DEF MulDiv
  <2>2. R64Type(0, 1) = MulDiv[0 + 1] /\ R64Type(4, 1) = MulDiv[4 + 1] /\ R64Type(5, 1) =
        MulDiv[5 + 1]
    BY DEF MulDiv, R64Type
  <2>3. R64Type(6, 1) = MulDiv[6 + 1] /\ R64Type(7, 1) = MulDiv[7 + 1]
    BY DEF MulDiv, R64Type
  <2>4. R64Type(f3, 1) = MulDiv[f3 + 1]
    BY <2>2, <2>3
  <2> QED  BY <2>1, <2>4, Registers32
<1>5. RType(0, 32) = "sub" /\ RType(5, 32) = "sra" /\ R64Type(0, 32) = "sub" /\ R64Type(5, 32) =
      "sra"
  BY DEF RType, R64Type
<1>6. Decodes(R("sub", 64, 12, 0, 32)) /\ Decodes(R("sra", 64, 12, 5, 32))
  BY <1>5, Registers64
<1>7. Decodes(R("sub", 32, 14, 0, 32)) /\ Decodes(R("sra", 32, 14, 5, 32))
  BY <1>5, Registers32
<1> QED  BY <1>1, <1>2, <1>3, <1>4, <1>6, <1>7

LEMMA BranchOps == \A b \in Branches : Decodes(B(b[2], b[1]))
<1> TAKE b \in Branches
<1>1. b[1] \in 0 .. 7 /\ b[2] # "none" /\ BType(b[1]) = b[2]
  BY DEF Branches, BType
<1> QED  BY <1>1, BDecodes

LEMMA Jal == Decodes(Form("jal", 64, Major(27, 0), Rd, X(0), X(0), X(0), ImmJ, TRUE, {}, 4))
<1> DEFINE f == Form("jal", 64, Major(27, 0), Rd, X(0), X(0), X(0), ImmJ, TRUE, {}, 4)
<1>1. Proper(f)
  BY JalLayout
<1>2. ASSUME NEW w, OfForm(f, w) PROVE Result(w) = Meaning(f, w)
  <2>1. Word32(f, 27, w) /\ Meaning(f, w) = Insn("jal", 64, RD(w), 0, 0, 0, imm_j(w))
    BY <1>2, JalLayout
  <2> HIDE DEF f
  <2> QED  BY <2>1, Dispatch, 3 + 4 * 27 = 111 DEF Word32
<1> QED  BY <1>1, <1>2 DEF Decodes

LEMMA Fences ==
  \A f3 \in {0, 1} :
    Decodes(Form("fence", 0, Major(3, f3), X(0), X(0), X(0), X(0), NoImm, FALSE, 7 .. 11
    \cup 15 .. 31, 4))
<1> TAKE f3 \in {0, 1}
<1> DEFINE f == Form("fence", 0, Major(3, f3), X(0), X(0), X(0), X(0), NoImm, FALSE, 7 .. 11
                \cup 15 .. 31, 4)
<1>1. f3 \in 0 .. 7
  OBVIOUS
<1>2. Proper(f)
  BY <1>1, FenceLayout
<1>3. ASSUME NEW w, OfForm(f, w) PROVE Result(w) = Meaning(f, w)
  <2>1. Word32(f, 3, w) /\ Meaning(f, w) = Insn("fence", 0, 0, 0, 0, 0, {})
    BY <1>1, <1>3, FenceLayout
  <2> HIDE DEF f
  <2> QED  BY <2>1, Dispatch, 3 + 4 * 3 = 15 DEF Word32, Bare
<1> QED  BY <1>2, <1>3 DEF Decodes

LEMMA IntegerDecodes == \A f \in Integer : Decodes(f)
<1> TAKE f \in Integer
<1>1. CASE f \in {I(IF f3 < 4 THEN "load" ELSE "loadu", 8 * 2^(f3 % 4), 0, f3) : f3 \in 0 .. 6}
  BY <1>1, Loads
<1>2. CASE f \in {S("store", 8 * 2^f3, 8, f3) : f3 \in 0 .. 3}
  BY <1>2, Stores
<1>3. CASE f \in {I(Ops[f3 + 1], 64, 4, f3) : f3 \in {0, 2, 3, 4, 6, 7}} \cup {I("add", 32, 6, 0)}
  BY <1>3, Immediates, Addiw
<1>4. CASE f \in UNION {{Shift("sll", s[1], s[2], 1, 0), Shift("srl", s[1], s[2], 5, 0),
                         Shift("sra", s[1], s[2], 5, 32)} : s \in {<<64, 4>>, <<32, 6>>}}
  <2>1. PICK s \in {<<64, 4>>, <<32, 6>>} :
          f \in {Shift("sll", s[1], s[2], 1, 0), Shift("srl", s[1], s[2], 5, 0),
          Shift("sra", s[1], s[2], 5, 32)}
    BY <1>4
  <2>2. (s[1] = 64 /\ s[2] = 4) \/ (s[1] = 32 /\ s[2] = 6)
    OBVIOUS
  <2> QED  BY <2>1, <2>2, Shifts32, Shifts64
<1>5. CASE f \in {R(Ops[f3 + 1], 64, 12, f3, 0) : f3 \in 0 .. 7}
                 \cup {R(MulDiv[f3 + 1], 64, 12, f3, 1) : f3 \in 0 .. 7}
  BY <1>5, RegisterOps
<1>6. CASE f \in {R(Ops[f3 + 1], 32, 14, f3, 0) : f3 \in {0, 1, 5}}
                 \cup {R(MulDiv[f3 + 1], 32, 14, f3, 1) : f3 \in {0, 4, 5, 6, 7}}
  BY <1>6, RegisterOps
<1>7. CASE f \in UNION {{R("sub", s[1], s[2], 0, 32), R("sra", s[1], s[2], 5, 32)} : s \in {<<64,
      12>>, <<32, 14>>}}
  <2>1. PICK s \in {<<64, 12>>, <<32, 14>>} : f \in {R("sub", s[1], s[2], 0, 32),
        R("sra", s[1], s[2], 5, 32)}
    BY <1>7
  <2>2. (s[1] = 64 /\ s[2] = 12) \/ (s[1] = 32 /\ s[2] = 14)
    OBVIOUS
  <2> QED  BY <2>1, <2>2, RegisterOps
<1>8. CASE f \in {B(b[2], b[1]) : b \in Branches} \cup {U("lui", 13), U("auipc", 5)}
  BY <1>8, BranchOps, UDecodes
<1>9. CASE f \in {Form("jal", 64, Major(27, 0), Rd, X(0), X(0), X(0), ImmJ, TRUE, {}, 4),
      I("jalr", 64, 25, 0)}
  BY <1>9, Jal, Jalr
<1>10. CASE f \in {Form("fence", 0, Major(3, f3), X(0), X(0), X(0), X(0), NoImm, FALSE,
                        7 .. 11 \cup 15 .. 31, 4) : f3 \in {0, 1}}
  BY <1>10, Fences
<1> QED  BY <1>1, <1>2, <1>3, <1>4, <1>5, <1>6, <1>7, <1>8, <1>9, <1>10 DEF Integer

-----------------------------------------------------------------------------
(* System instructions *)

LEMMA CsrDecodes ==
  \A c \in CsrOps : Decodes(Form(c[2], 64, Major(28, c[1]), Rd, Rs1, X(0), X(0), ImmI, FALSE, {},
  4))
<1> TAKE c \in CsrOps
<1> DEFINE f3 == c[1]
           op == c[2]
           f == Form(op, 64, Major(28, f3), Rd, Rs1, X(0), X(0), ImmI, FALSE, {}, 4)
<1>1. f3 \in 0 .. 7 /\ f3 # 0 /\ op # "none" /\ CsrType(f3) = op
  BY DEF CsrOps, CsrType
<1> HIDE DEF op, f3
<1>2. Proper(f)
  BY <1>1, CsrLayout
<1>3. ASSUME NEW w, OfForm(f, w) PROVE Result(w) = Meaning(f, w)
  <2>1. /\ Word32(f, 28, w) /\ Funct3(w) = f3
        /\ Meaning(f, w) = Insn(op, 64, RD(w), RS1(w), 0, 0, Csr(w))
    BY <1>1, <1>3, CsrLayout
  <2> HIDE DEF f
  <2>2. execute32(w) = system(w)
    BY <2>1, Dispatch, 3 + 4 * 28 = 115 DEF Word32
  <2> QED  BY <1>1, <2>1, <2>2 DEF Word32, WithImm, system
<1>4. Decodes(f)
  BY <1>2, <1>3 DEF Decodes
<1> QED  BY <1>4 DEF op, f3

(* The twelve bits above rs1 of a word whose bits are all fixed *)
LEMMA EnvWord ==
  ASSUME NEW op, NEW e, NEW w,
         OfForm(Form(op, 0, Major(28, 0) \cup At(e, 20), X(0), X(0), X(0), X(0), NoImm, FALSE, {},
         4), w)
  PROVE  /\ Word32(Form(op, 0, Major(28, 0) \cup At(e, 20), X(0), X(0), X(0), X(0), NoImm, FALSE,
            {}, 4), 28, w)
         /\ \A k \in 0 .. 11 : 20 + k \in w <=> k \in BitsOf(e)
<1> DEFINE f == Form(op, 0, Major(28, 0) \cup At(e, 20), X(0), X(0), X(0), X(0), NoImm, FALSE, {},
                4)
<1>1. Word32(f, 28, w)
  BY EnvLayout
<1>2. /\ f.ones = Major(28, 0) \cup At(e, 20) /\ f.imm = NoImm /\ f.free = {}
      /\ f.rd = X(0) /\ f.rs1 = X(0) /\ f.rs2 = X(0) /\ f.rs3 = X(0)
  BY DEF Form
<1> HIDE DEF f
<1>3. Varying(f) = {}
  BY <1>2, TakesNone, Fields DEF Varying
<1>4. ASSUME NEW k \in 0 .. 11 PROVE 20 + k \in w <=> k \in BitsOf(e)
  <2>1. 20 + k \in 0 .. 31 /\ 20 + k \notin Major(28, 0)
    BY MajorBelow
  <2>2. 20 + k \in At(e, 20) <=> k \in BitsOf(e)
    BY AtIn, (20 + k) - 20 = k
  <2> QED  BY <1>1, <1>2, <1>3, <2>1, <2>2 DEF Word32
<1> QED  BY <1>1, <1>4 DEF f

LEMMA EnvDecodes ==
  ASSUME NEW op, NEW e, NEW r2, NEW f7, r2 \in 0 .. 31, f7 \in 0 .. 127, e = r2 + 32 * f7,
         EnvironmentType(r2, f7) = op, op \notin {"none", "sfence.vma"}
  PROVE  Decodes(Form(op, 0, Major(28, 0) \cup At(e, 20), X(0), X(0), X(0), X(0), NoImm, FALSE, {},
         4))
<1> DEFINE f == Form(op, 0, Major(28, 0) \cup At(e, 20), X(0), X(0), X(0), X(0), NoImm, FALSE, {},
                4)
<1>1. Proper(f)
  BY EnvLayout
<1>2. /\ \A j \in 0 .. 4 : j \in BitsOf(e) <=> j \in BitsOf(r2)
      /\ \A j \in 0 .. 6 : j + 5 \in BitsOf(e) <=> j \in BitsOf(f7)
  <2>1. e \in Int /\ r2 \in Int /\ f7 \in Int
    OBVIOUS
  <2>2. /\ e % 2 = r2 % 2 /\ (e \div 2) % 2 = (r2 \div 2) % 2 /\ (e \div 4) % 2 = (r2 \div 4) % 2
        /\ (e \div 8) % 2 = (r2 \div 8) % 2 /\ (e \div 16) % 2 = (r2 \div 16) % 2
    OBVIOUS
  <2>3. e \div 1 = e /\ r2 \div 1 = r2 /\ f7 \div 1 = f7
    OBVIOUS
  <2>4. /\ e \div 32 = f7 /\ e \div 64 = f7 \div 2 /\ e \div 128 = f7 \div 4 /\ e \div 256 =
           f7 \div 8
        /\ e \div 512 = f7 \div 16 /\ e \div 1024 = f7 \div 32 /\ e \div 2048 = f7 \div 64
    OBVIOUS
  <2>5. /\ 0 \in BitsOf(e) <=> 0 \in BitsOf(r2)
        /\ 1 \in BitsOf(e) <=> 1 \in BitsOf(r2)
        /\ 2 \in BitsOf(e) <=> 2 \in BitsOf(r2)
        /\ 3 \in BitsOf(e) <=> 3 \in BitsOf(r2)
        /\ 4 \in BitsOf(e) <=> 4 \in BitsOf(r2)
    BY ONLY <2>1, <2>2, <2>3 DEF BitsOf
  <2>6. /\ 5 \in BitsOf(e) <=> 0 \in BitsOf(f7)
        /\ 6 \in BitsOf(e) <=> 1 \in BitsOf(f7)
        /\ 7 \in BitsOf(e) <=> 2 \in BitsOf(f7)
        /\ 8 \in BitsOf(e) <=> 3 \in BitsOf(f7)
        /\ 9 \in BitsOf(e) <=> 4 \in BitsOf(f7)
        /\ 10 \in BitsOf(e) <=> 5 \in BitsOf(f7)
        /\ 11 \in BitsOf(e) <=> 6 \in BitsOf(f7)
    BY ONLY <2>1, <2>3, <2>4 DEF BitsOf
  <2> QED  BY ONLY <2>5, <2>6
<1>3. ASSUME NEW w, OfForm(f, w) PROVE Result(w) = Meaning(f, w)
  <2>1. /\ Word32(f, 28, w) /\ Funct3(w) = 0
        /\ Meaning(f, w) = Insn(op, 0, 0, 0, 0, 0, {})
        /\ \A k \in 0 .. 11 : 20 + k \in w <=> k \in BitsOf(e)
    BY <1>3, EnvLayout, EnvWord
  <2> HIDE DEF f
  <2>2. w \in SUBSET Int
    BY <2>1 DEF Word32
  <2>3. RS2(w) = r2
    <3>1. \A j \in 0 .. 4 : 20 + j \in w <=> j \in BitsOf(r2)
      BY <1>2, <2>1
    <3>2. Bits(w, 5, 20) = r2
      BY ONLY <2>2, <3>1, FiveBits, r2 \in 0 .. 31, 20 \in Nat
    <3> QED  BY <3>2 DEF RS2
  <2>4. Funct7(w) = f7
    <3>1. \A j \in 0 .. 6 : 25 + j \in w <=> j \in BitsOf(f7)
      <4>1. \A j \in 0 .. 6 : j + 5 \in 0 .. 11 /\ 20 + (j + 5) = 25 + j
        OBVIOUS
      <4> QED  BY <1>2, <2>1, <4>1
    <3>2. Bits(w, 7, 25) = f7
      BY ONLY <2>2, <3>1, SevenBits, f7 \in 0 .. 127, 25 \in Nat
    <3> QED  BY <3>2 DEF Funct7
  <2>5. execute32(w) = system(w)
    BY <2>1, Dispatch, 3 + 4 * 28 = 115 DEF Word32
  <2> QED  BY <2>1, <2>3, <2>4, <2>5 DEF Word32, system, environment, Bare
<1> QED  BY <1>1, <1>3 DEF Decodes

LEMMA SfenceDecodes ==
  Decodes(Form("sfence.vma", 0, Major(28, 0) \cup At(9, 25), X(0), Rs1, Rs2, X(0), NoImm, FALSE, {},
  4))
<1>1. PICK op : op = "sfence.vma"
  OBVIOUS
<1>2. PICK f7 \in 0 .. 127 : f7 = 9
  OBVIOUS
<1> DEFINE f == Form(op, 0, Major(28, 0) \cup At(f7, 25), X(0), Rs1, Rs2, X(0), NoImm, FALSE, {}, 4)
<1>3. Proper(f)
  BY SfenceLayout
<1>4. ASSUME NEW w, OfForm(f, w) PROVE Result(w) = Meaning(f, w)
  <2>1. /\ Word32(f, 28, w) /\ Funct3(w) = 0 /\ Funct7(w) = f7
        /\ Meaning(f, w) = Insn(op, 0, 0, RS1(w), RS2(w), 0, {})
    BY <1>4, SfenceLayout
  <2> HIDE DEF f
  <2>2. execute32(w) = system(w)
    BY <2>1, Dispatch, 3 + 4 * 28 = 115 DEF Word32
  <2>3. \A imm : EnvironmentType(imm, f7) = op
    BY <1>1, <1>2 DEF EnvironmentType
  <2>4. op # "none"
    BY <1>1
  <2> QED  BY <1>1, <1>2, <2>1, <2>2, <2>3, <2>4 DEF Word32, system, environment, NoRd
<1> HIDE DEF f
<1>5. Decodes(f)
  BY <1>3, <1>4 DEF Decodes
<1> QED  BY <1>1, <1>2, <1>5 DEF f

LEMMA SystemDecodes == \A f \in System : Decodes(f)
<1> DEFINE Bare5 == {<<"ecall", 0>>, <<"ebreak", 1>>, <<"sret", 258>>, <<"mret", 770>>, <<"wfi",
                    261>>}
<1>1. /\ EnvironmentType(0, 0) = "ecall" /\ EnvironmentType(1, 0) = "ebreak"
         /\ EnvironmentType(2, 8) = "sret"
      /\ EnvironmentType(2, 24) = "mret" /\ EnvironmentType(5, 8) = "wfi"
  BY DEF EnvironmentType
<1>2. ASSUME NEW s \in Bare5
      PROVE  Decodes(Form(s[1], 0, Major(28, 0) \cup At(s[2], 20), X(0), X(0), X(0), X(0), NoImm,
             FALSE, {}, 4))
  <2> DEFINE op == s[1]
             e == s[2]
  <2>1. \/ op = "ecall" /\ e = 0 + 32 * 0
        \/ op = "ebreak" /\ e = 1 + 32 * 0
        \/ op = "sret" /\ e = 2 + 32 * 8
        \/ op = "mret" /\ e = 2 + 32 * 24
        \/ op = "wfi" /\ e = 5 + 32 * 8
    OBVIOUS
  <2>2. op \notin {"none", "sfence.vma"}
    BY <2>1
  <2> HIDE DEF op, e
  <2>3. \E r2 \in 0 .. 31, f7 \in 0 .. 127 : e = r2 + 32 * f7 /\ EnvironmentType(r2, f7) = op
    BY <1>1, <2>1
  <2>4. PICK r2 \in 0 .. 31, f7 \in 0 .. 127 : e = r2 + 32 * f7 /\ EnvironmentType(r2, f7) = op
    BY <2>3
  <2>5. Decodes(Form(op, 0, Major(28, 0) \cup At(e, 20), X(0), X(0), X(0), X(0), NoImm, FALSE, {},
        4))
    BY <2>2, <2>4, EnvDecodes
  <2> QED  BY <2>5 DEF op, e
<1> TAKE f \in System
<1> DEFINE Csrs == {Form(c[2], 64, Major(28, c[1]), Rd, Rs1, X(0), X(0), ImmI, FALSE, {}, 4) : c \in CsrOps}
           Bares == {Form(s[1], 0, Major(28, 0) \cup At(s[2], 20), X(0), X(0), X(0), X(0), NoImm,
                          FALSE, {}, 4) : s \in Bare5}
           fence == Form("sfence.vma", 0, Major(28, 0) \cup At(9, 25), X(0), Rs1, Rs2, X(0), NoImm,
                         FALSE, {}, 4)
<1>3. System = (Csrs \cup Bares) \cup {fence}
  BY Zenon DEF System
<1>4. f \in Csrs => Decodes(f)
  BY CsrDecodes
<1>5. f \in Bares => Decodes(f)
  <2> HIDE DEF Bare5
  <2> QED  BY <1>2
<1>6. Decodes(fence)
  BY SfenceDecodes
<1> HIDE DEF Csrs, Bares, fence
<1> QED  BY <1>3, <1>4, <1>5, <1>6
-----------------------------------------------------------------------------
(* Atomic instructions *)

LEMMA Funct5Is ==
  ASSUME NEW w \in SUBSET (0 .. 31), NEW f5 \in 0 .. 31,
         \A k \in 27 .. 31 : k \in w <=> k \in At(f5, 27)
  PROVE  Funct5(w) = f5
<1> DEFINE s == Shr(w, 25) \cap 0 .. (7 - 1)
<1>1. \A j \in 0 .. 4 : j + 2 \in s <=> j \in BitsOf(f5)
  <2> TAKE j \in 0 .. 4
  <2>1. j + 2 \in 0 .. (7 - 1) /\ (j + 2) + 25 = j + 27 /\ j + 27 \in 27 .. 31 /\ (j + 27) - 27 = j
    OBVIOUS
  <2>2. j + 2 \in Shr(w, 25) <=> (j + 2) + 25 \in w
    BY ShrIn, w \in SUBSET Int, j + 2 \in Nat
  <2>3. j + 27 \in At(f5, 27) <=> j \in BitsOf(f5)
    BY <2>1, AtIn
  <2> QED  BY <2>1, <2>2, <2>3
<1>2. Funct7(w) = Num(s)
  BY DEF Funct7, Bits
<1>3. Num(BitsOf(f5)) = f5 /\ 5 \notin BitsOf(f5) /\ 6 \notin BitsOf(f5)
  BY NumOfBits, BitsBelow
<1> HIDE DEF s
<1>4. /\ 2 \in s <=> 0 \in BitsOf(f5)
      /\ 3 \in s <=> 1 \in BitsOf(f5)
      /\ 4 \in s <=> 2 \in BitsOf(f5)
      /\ 5 \in s <=> 3 \in BitsOf(f5)
      /\ 6 \in s <=> 4 \in BitsOf(f5)
  BY <1>1
<1>5. \E b \in 0 .. 3 : Num(s) = b + 4 * f5
  <2> DEFINE b == (IF 0 \in s THEN 1 ELSE 0) + (IF 1 \in s THEN 2 ELSE 0)
  <2>1. b \in 0 .. 3 /\ Num(s) = b + 4 * f5
    BY <1>3, <1>4 DEF Num
  <2> QED  BY <2>1
<1> QED  BY <1>2, <1>5 DEF Funct5

LEMMA AmoDecodes ==
  ASSUME NEW op, NEW f5, NEW f3, f5 \in 0 .. 31, f3 \in {2, 3}, AtomicType(f5) = op,
         op \notin {"none", "lr"}
  PROVE  Decodes(AmoForm(op, 8 * 2^f3, f3, f5))
<1> DEFINE n == 8 * 2^f3
           f == AmoForm(op, n, f3, f5)
<1>1. f3 \in 0 .. 7 /\ f3 % 4 = f3 /\ n = 8 * 2^(f3 % 4)
  OBVIOUS
<1> HIDE DEF n
<1>2. Proper(f)
  BY <1>1, AmoLayout
<1>3. ASSUME NEW w, OfForm(f, w) PROVE Result(w) = Meaning(f, w)
  <2>1. /\ Word32(f, 11, w) /\ Funct3(w) = f3
        /\ Meaning(f, w) = Insn(op, n, RD(w), RS1(w), RS2(w), 0, {})
    BY <1>1, <1>3, AmoLayout
  <2>2. /\ f.ones = Major(11, f3) \cup At(f5, 27) /\ f.imm = NoImm /\ f.free = {25, 26}
        /\ f.rd = Rd /\ f.rs1 = Rs1 /\ f.rs2 = Rs2 /\ f.rs3 = X(0)
    BY DEF AmoForm, Form
  <2> HIDE DEF f
  <2>3. Varying(f) \subseteq 7 .. 26
    <3>1. Ran(f.imm) = {}
      BY <2>2, TakesNone
    <3> QED  BY <2>2, <3>1, Fields DEF Varying
  <2>4. Funct5(w) = f5
    <3>1. w \in SUBSET (0 .. 31)
      BY <2>1 DEF Word32
    <3>2. ASSUME NEW k \in 27 .. 31 PROVE k \in w <=> k \in At(f5, 27)
      BY <1>1, <2>1, <2>2, <2>3, MajorBelow DEF Word32
    <3> QED  BY <3>1, <3>2, Funct5Is
  <2>5. execute32(w) = atomic(w)
    BY <2>1, Dispatch, 3 + 4 * 11 = 47 DEF Word32
  <2>6. atomic(w) = WithRs2(op, n, w)
    BY <1>1, <2>1, <2>4 DEF atomic, AccessWidth
  <2> QED  BY <2>1, <2>5, <2>6 DEF Word32, WithRs2
<1> QED  BY <1>2, <1>3 DEF Decodes, n

LEMMA LrDecodes ==
  ASSUME NEW op, NEW f5, NEW f3, f5 = 2, f3 \in {2, 3}, op = "lr"
  PROVE  Decodes(LrForm(op, 8 * 2^f3, f3, f5))
<1> DEFINE n == 8 * 2^f3
           f == LrForm(op, n, f3, f5)
<1>1. f3 \in 0 .. 7 /\ f3 % 4 = f3 /\ n = 8 * 2^(f3 % 4) /\ f5 \in 0 .. 31
  OBVIOUS
<1> HIDE DEF n
<1>2. Proper(f)
  BY <1>1, LrLayout
<1>3. ASSUME NEW w, OfForm(f, w) PROVE Result(w) = Meaning(f, w)
  <2>1. /\ Word32(f, 11, w) /\ Funct3(w) = f3
        /\ Meaning(f, w) = Insn(op, n, RD(w), RS1(w), 0, 0, {})
    BY <1>1, <1>3, LrLayout
  <2>2. /\ f.ones = Major(11, f3) \cup At(f5, 27) /\ f.imm = NoImm /\ f.free = {25, 26}
        /\ f.rd = Rd /\ f.rs1 = Rs1 /\ f.rs2 = X(0) /\ f.rs3 = X(0)
    BY DEF LrForm, Form
  <2> HIDE DEF f
  <2>3. Varying(f) \subseteq 7 .. 26
    <3>1. Ran(f.imm) = {}
      BY <2>2, TakesNone
    <3> QED  BY <2>2, <3>1, Fields DEF Varying
  <2>4. Funct5(w) = f5
    <3>1. w \in SUBSET (0 .. 31)
      BY <2>1 DEF Word32
    <3>2. ASSUME NEW k \in 27 .. 31 PROVE k \in w <=> k \in At(f5, 27)
      BY <1>1, <2>1, <2>2, <2>3, MajorBelow DEF Word32
    <3> QED  BY <1>1, <3>1, <3>2, Funct5Is
  <2>5. execute32(w) = atomic(w)
    BY <2>1, Dispatch, 3 + 4 * 11 = 47 DEF Word32
  <2>6. AtomicType(f5) = op
    BY DEF AtomicType
  <2>7. atomic(w) = Unary(op, n, w)
    BY <1>1, <2>1, <2>4, <2>6 DEF atomic, AccessWidth
  <2> QED  BY <2>1, <2>5, <2>7 DEF Word32, Unary, WithImm
<1> QED  BY <1>2, <1>3 DEF Decodes, n

LEMMA AtomicDecodes == \A f \in Atomic : Decodes(f)
<1>1. ASSUME NEW a \in Amos
      PROVE a[1] \in 0 .. 31 /\ AtomicType(a[1]) = a[2] /\ a[2] \notin {"none", "lr"}
  BY DEF Amos, AtomicType
<1> TAKE f \in Atomic
<1>2. PICK f3 \in {2, 3} : f \in {AmoForm(a[2], 8 * 2^f3, f3, a[1]) : a \in Amos}
      \cup {LrForm("lr", 8 * 2^f3, f3, 2)}
  BY DEF Atomic, AmoForm, LrForm
<1>3. CASE f = LrForm("lr", 8 * 2^f3, f3, 2)
  BY <1>3, LrDecodes
<1>4. ASSUME NEW a \in Amos,
             f = AmoForm(a[2], 8 * 2^f3, f3, a[1])
      PROVE  Decodes(f)
  BY <1>1, <1>4, AmoDecodes
<1> QED  BY <1>2, <1>3, <1>4

-----------------------------------------------------------------------------
(* Floating point *)

LEMMA FieldsBelow ==
  ASSUME NEW w
  PROVE  Funct3(w) \in 0 .. 127 /\ Funct7(w) \in 0 .. 127 /\ RS2(w) \in 0 .. 127
BY BitsIsInt DEF Funct3, Funct7, RS2

(* The fields of the fused instructions *)
LEMMA FusedFields ==
  ASSUME NEW w, w \in SUBSET (0 .. 31)
  PROVE  /\ RS3(w) = Bits(w, 5, 27)
         /\ 25 \in w => Funct2(w) = 1
         /\ 25 \notin w => Funct2(w) = 0
<1>1. /\ w \in SUBSET Int /\ w \cap 27 .. 31 \in SUBSET Int /\ w \cap {24, 25} \in SUBSET Int
      /\ 25 \in Int /\ 27 \in Int
  OBVIOUS
<1>2. Shr(w \cap 27 .. 31, 27) \cap 0 .. (5 - 1) = Shr(w, 27) \cap 0 .. (5 - 1)
  <2>1. ASSUME NEW k
        PROVE  k \in Shr(w \cap 27 .. 31, 27) \cap 0 .. (5 - 1) <=>
               k \in Shr(w, 27) \cap 0 .. (5 - 1)
    BY <1>1, ShrIn
  <2> QED  BY <2>1
<1>3. RS3(w) = Bits(w, 5, 27)
  BY <1>2 DEF RS3, Bits
<1> DEFINE s == Shr(w \cap {24, 25}, 25) \cap 0 .. (7 - 1)
<1>4. Funct2(w) = Num(s)
  BY DEF Funct2, Bits
<1>5. (0 \in s <=> 25 \in w) /\ \A k \in 1 .. 6 : k \notin s
  BY <1>1, ShrIn
<1> HIDE DEF s
<1> QED  BY <1>3, <1>4, <1>5 DEF Num

LEMMA Widths == \A fmt \in 0 .. 1 : 32 * (1 + fmt) = Width(fmt) /\ 8 * 2^((2 + fmt) % 4) =
Width(fmt)
<1>1. 32 * (1 + 0) = 32 /\ 8 * 2^((2 + 0) % 4) = 32 /\ 32 * (1 + 1) = 64 /\ 8 * 2^((2 + 1) % 4) = 64
  OBVIOUS
<1> TAKE fmt \in 0 .. 1
<1>2. CASE fmt = 0
  BY <1>1, <1>2 DEF Width
<1>3. CASE fmt = 1
  BY <1>1, <1>3 DEF Width
<1> QED  BY <1>2, <1>3

LEMMA FmaDecodes ==
  ASSUME NEW op, NEW m, NEW fmt, m \in 0 .. 31, fmt \in 0 .. 1, op # "none",
         \A w \in SUBSET (0 .. 31) : Opcode(w) = 3 + 4 * m => execute32(w) = fma(op, w)
  PROVE  Decodes(FmaForm(op, Width(fmt), m, fmt))
<1> DEFINE n == Width(fmt)
           f == FmaForm(op, n, m, fmt)
<1>1. n = 32 * (1 + fmt)
  BY Widths
<1> HIDE DEF n
<1>2. Proper(f)
  BY FmaLayout
<1>3. ASSUME NEW w, OfForm(f, w) PROVE Result(w) = Meaning(f, w)
  <2>1. /\ Word32(f, m, w)
        /\ Meaning(f, w) = Insn(op, n, RD(w), RS1(w), RS2(w), Bits(w, 5, 27), {})
    BY <1>3, FmaLayout
  <2>2. /\ f.ones = Major(m, 0) \cup At(fmt, 25) /\ f.imm = NoImm /\ f.free = 12 .. 14
        /\ f.rd = Rd /\ f.rs1 = Rs1 /\ f.rs2 = Rs2 /\ f.rs3 = Rs3
    BY DEF FmaForm, Form, Rm
  <2> HIDE DEF f
  <2>3. Varying(f) = 7 .. 24 \cup 27 .. 31
    <3>1. Ran(f.imm) = {}
      BY <2>2, TakesNone
    <3> QED  BY <2>2, <3>1, Fields DEF Varying
  <2>4. w \in SUBSET (0 .. 31)
    BY <2>1 DEF Word32
  <2>5. 25 \in w <=> fmt = 1
    <3>1. 25 \in w <=> 25 \in Major(m, 0) \/ 25 \in At(fmt, 25)
      BY <2>1, <2>2, <2>3 DEF Word32
    <3>2. 25 \notin Major(m, 0)
      BY MajorBelow
    <3>3. 25 \in At(fmt, 25) <=> 0 \in BitsOf(fmt)
      BY AtIn, 25 - 25 = 0
    <3>4. 0 \in BitsOf(fmt) <=> fmt = 1
      <4>1. (fmt \div 2^0) % 2 = fmt
        OBVIOUS
      <4> QED  BY <4>1 DEF BitsOf
    <3> QED  BY <3>1, <3>2, <3>3, <3>4
  <2>6. Funct2(w) = fmt /\ RS3(w) = Bits(w, 5, 27)
    <3>1. /\ RS3(w) = Bits(w, 5, 27)
          /\ 25 \in w => Funct2(w) = 1
          /\ 25 \notin w => Funct2(w) = 0
      BY <2>4, FusedFields
    <3>2. fmt = 0 \/ fmt = 1
      OBVIOUS
    <3> QED  BY <2>5, <3>1, <3>2
  <2>7. execute32(w) = fma(op, w)
    BY <2>1, <2>4 DEF Word32
  <2>8. fma(op, w) = Insn(op, n, RD(w), RS1(w), RS2(w), Bits(w, 5, 27), {})
    BY <1>1, <2>6 DEF fma, WithRs2, Insn
  <2> QED  BY <2>1, <2>7, <2>8 DEF Word32
<1> QED  BY <1>2, <1>3 DEF Decodes, n

LEMMA FmaOps == \A fmt \in 0 .. 1, a \in Fma : Decodes(FmaForm(a[2], Width(fmt), a[1], fmt))
<1> TAKE fmt \in 0 .. 1, a \in Fma
<1> DEFINE m == a[1]
           op == a[2]
<1>1. m \in 0 .. 31 /\ op # "none"
  BY DEF Fma
<1>2. ASSUME NEW w \in SUBSET (0 .. 31), Opcode(w) = 3 + 4 * m PROVE execute32(w) = fma(op, w)
  <2>1. \/ (m = 16 /\ op = "fmadd") \/ (m = 17 /\ op = "fmsub")
        \/ (m = 18 /\ op = "fnmsub") \/ (m = 19 /\ op = "fnmadd")
    BY DEF Fma
  <2>2. 3 + 4 * 16 = 67 /\ 3 + 4 * 17 = 71 /\ 3 + 4 * 18 = 75 /\ 3 + 4 * 19 = 79
    OBVIOUS
  <2> HIDE DEF m, op
  <2> QED  BY <1>2, <2>1, <2>2, Dispatch
<1> HIDE DEF m, op
<1>3. Decodes(FmaForm(op, Width(fmt), m, fmt))
  BY <1>1, <1>2, FmaDecodes
<1> QED  BY <1>3 DEF m, op

(* The precision and the operation in funct7 of the other instructions *)
LEMMA FpDispatch ==
  ASSUME NEW w, NEW fmt, NEW f5, fmt \in 0 .. 1, f5 \in 0 .. 31, Opcode(w) = 83, Funct7(w) =
         fmt + 4 * f5
  PROVE  execute32(w) =
           IF FDBinary(4 * f5, Funct3(w)) # "none"
           THEN WithRs2(FDBinary(4 * f5, Funct3(w)), Width(fmt), w)
           ELSE Unary(FDUnary(4 * f5, Funct3(w), RS2(w)), Width(fmt), w)
<1>1. (fmt + 4 * f5) % 2 = fmt /\ (fmt + 4 * f5) - fmt = 4 * f5
  OBVIOUS
<1>2. execute32(w) = fother(w)
  BY Dispatch
<1> QED  BY <1>1, <1>2, Widths DEF fother

LEMMA FpDecodes ==
  ASSUME NEW op, NEW fmt, NEW f5, fmt \in 0 .. 1, f5 \in 0 .. 31, op # "none",
         \A x : FDBinary(4 * f5, x) = op
  PROVE  Decodes(Fp(op, fmt, f5, Rs2, Rm, {}))
<1> DEFINE f == Fp(op, fmt, f5, Rs2, Rm, {})
<1>1. Proper(f)
  BY FpLayout
<1>2. ASSUME NEW w, OfForm(f, w) PROVE Result(w) = Meaning(f, w)
  <2>1. /\ Word32(f, 20, w) /\ Funct7(w) = fmt + 4 * f5
        /\ Meaning(f, w) = Insn(op, Width(fmt), RD(w), RS1(w), RS2(w), 0, {})
    BY <1>2, FpLayout
  <2> HIDE DEF f
  <2>2. Opcode(w) = 83
    BY <2>1, 3 + 4 * 20 = 83 DEF Word32
  <2>3. execute32(w) = WithRs2(op, Width(fmt), w)
    BY <2>1, <2>2, FpDispatch
  <2> QED  BY <2>1, <2>3 DEF Word32, WithRs2
<1> QED  BY <1>1, <1>2 DEF Decodes

LEMMA FpFunct3Decodes ==
  ASSUME NEW op, NEW fmt, NEW f5, NEW f3, fmt \in 0 .. 1, f5 \in 0 .. 31, f3 \in 0 .. 7,
         op # "none",
         FDBinary(4 * f5, f3) = op
  PROVE  Decodes(Fp(op, fmt, f5, Rs2, {}, At(f3, 12)))
<1> DEFINE f == Fp(op, fmt, f5, Rs2, {}, At(f3, 12))
<1>1. Proper(f)
  BY FpFunct3Layout
<1>2. ASSUME NEW w, OfForm(f, w) PROVE Result(w) = Meaning(f, w)
  <2>1. /\ Word32(f, 20, w) /\ Funct3(w) = f3 /\ Funct7(w) = fmt + 4 * f5
        /\ Meaning(f, w) = Insn(op, Width(fmt), RD(w), RS1(w), RS2(w), 0, {})
    BY <1>2, FpFunct3Layout
  <2> HIDE DEF f
  <2>2. Opcode(w) = 83
    BY <2>1, 3 + 4 * 20 = 83 DEF Word32
  <2>3. execute32(w) = WithRs2(op, Width(fmt), w)
    BY <2>1, <2>2, FpDispatch
  <2> QED  BY <2>1, <2>3 DEF Word32, WithRs2
<1> QED  BY <1>1, <1>2 DEF Decodes

LEMMA FpUnaryDecodes ==
  ASSUME NEW op, NEW fmt, NEW f5, NEW k2, fmt \in 0 .. 1, f5 \in 0 .. 31, k2 \in 0 .. 31,
         op # "none",
         \A x : FDBinary(4 * f5, x) = "none", \A x : FDUnary(4 * f5, x, k2) = op
  PROVE  Decodes(Fp(op, fmt, f5, X(0), Rm, At(k2, 20)))
<1> DEFINE f == Fp(op, fmt, f5, X(0), Rm, At(k2, 20))
<1>1. Proper(f)
  BY FpUnaryLayout
<1>2. ASSUME NEW w, OfForm(f, w) PROVE Result(w) = Meaning(f, w)
  <2>1. /\ Word32(f, 20, w) /\ Funct7(w) = fmt + 4 * f5 /\ RS2(w) = k2
        /\ Meaning(f, w) = Insn(op, Width(fmt), RD(w), RS1(w), 0, 0, {})
    BY <1>2, FpUnaryLayout
  <2> HIDE DEF f
  <2>2. Opcode(w) = 83
    BY <2>1, 3 + 4 * 20 = 83 DEF Word32
  <2>3. execute32(w) = Unary(op, Width(fmt), w)
    BY <2>1, <2>2, FpDispatch
  <2> QED  BY <2>1, <2>3 DEF Word32, Unary, WithImm
<1> QED  BY <1>1, <1>2 DEF Decodes

LEMMA FpMoveDecodes ==
  ASSUME NEW op, NEW fmt, NEW f5, NEW f3, fmt \in 0 .. 1, f5 \in 0 .. 31, f3 \in 0 .. 7,
         op # "none",
         FDBinary(4 * f5, f3) = "none", \A x : FDUnary(4 * f5, f3, x) = op
  PROVE  Decodes(Fp(op, fmt, f5, X(0), {}, At(f3, 12)))
<1> DEFINE f == Fp(op, fmt, f5, X(0), {}, At(f3, 12))
<1>1. Proper(f)
  BY FpMoveLayout
<1>2. ASSUME NEW w, OfForm(f, w) PROVE Result(w) = Meaning(f, w)
  <2>1. /\ Word32(f, 20, w) /\ Funct3(w) = f3 /\ Funct7(w) = fmt + 4 * f5
        /\ Meaning(f, w) = Insn(op, Width(fmt), RD(w), RS1(w), 0, 0, {})
    BY <1>2, FpMoveLayout
  <2> HIDE DEF f
  <2>2. Opcode(w) = 83
    BY <2>1, 3 + 4 * 20 = 83 DEF Word32
  <2>3. execute32(w) = Unary(op, Width(fmt), w)
    BY <2>1, <2>2, FpDispatch
  <2> QED  BY <2>1, <2>3 DEF Word32, Unary, WithImm
<1> QED  BY <1>1, <1>2 DEF Decodes
(* The operations of Floating, by format *)

LEMMA FpBinaryOps ==
  ASSUME NEW fmt, fmt \in 0 .. 1
  PROVE  \A a \in {<<0, "fadd">>, <<1, "fsub">>, <<2, "fmul">>, <<3, "fdiv">>} :
           Decodes(Fp(a[2], fmt, a[1], Rs2, Rm, {}))
<1> TAKE a \in {<<0, "fadd">>, <<1, "fsub">>, <<2, "fmul">>, <<3, "fdiv">>}
<1> DEFINE f5 == a[1]
           op == a[2]
<1>1. \/ (f5 = 0 /\ op = "fadd") \/ (f5 = 1 /\ op = "fsub")
      \/ (f5 = 2 /\ op = "fmul") \/ (f5 = 3 /\ op = "fdiv")
  OBVIOUS
<1> HIDE DEF f5, op
<1>2. f5 \in 0 .. 31 /\ op # "none" /\ \A x : FDBinary(4 * f5, x) = op
  <2>1. 4 * 0 = 0 /\ 4 * 1 = 4 /\ 4 * 2 = 8 /\ 4 * 3 = 12
    OBVIOUS
  <2>2. ASSUME NEW x
        PROVE FDBinary(0, x) = "fadd" /\ FDBinary(4, x) = "fsub" /\ FDBinary(8, x) = "fmul"
              /\ FDBinary(12, x) = "fdiv"
    BY DEF FDBinary
  <2> QED  BY <1>1, <2>1, <2>2
<1>3. Decodes(Fp(op, fmt, f5, Rs2, Rm, {}))
  BY <1>2, FpDecodes
<1> QED  BY <1>3 DEF f5, op

LEMMA FpFunct3Ops ==
  ASSUME NEW fmt, fmt \in 0 .. 1
  PROVE  /\ \A k \in 0 .. 2 : Decodes(Fp(<<"fsgnj", "fsgnjn", "fsgnjx">>[k + 1], fmt, 4, Rs2, {},
            At(k, 12)))
         /\ \A k \in 0 .. 1 : Decodes(Fp(<<"fmin", "fmax">>[k + 1], fmt, 5, Rs2, {}, At(k, 12)))
         /\ \A k \in 0 .. 2 : Decodes(Fp(<<"fle", "flt", "feq">>[k + 1], fmt, 20, Rs2, {},
            At(k, 12)))
<1>1. 4 * 4 = 16 /\ 4 * 5 = 20 /\ 4 * 20 = 80
  OBVIOUS
<1>2. ASSUME NEW k \in 0 .. 2
      PROVE Decodes(Fp(<<"fsgnj", "fsgnjn", "fsgnjx">>[k + 1], fmt, 4, Rs2, {}, At(k, 12)))
  <2> DEFINE op == <<"fsgnj", "fsgnjn", "fsgnjx">>[k + 1]
             f5 == 4
  <2>1. op # "none" /\ f5 \in 0 .. 31 /\ k \in 0 .. 7
    OBVIOUS
  <2>2. FDBinary(4 * f5, k) = op
    BY <1>1 DEF FDBinary
  <2> HIDE DEF op, f5
  <2>3. Decodes(Fp(op, fmt, f5, Rs2, {}, At(k, 12)))
    BY <2>1, <2>2, FpFunct3Decodes
  <2> QED  BY <2>3 DEF op, f5
<1>3. ASSUME NEW k \in 0 .. 1
      PROVE Decodes(Fp(<<"fmin", "fmax">>[k + 1], fmt, 5, Rs2, {}, At(k, 12)))
  <2> DEFINE op == <<"fmin", "fmax">>[k + 1]
             f5 == 5
  <2>1. op # "none" /\ f5 \in 0 .. 31 /\ k \in 0 .. 7
    OBVIOUS
  <2>2. FDBinary(4 * f5, k) = op
    BY <1>1 DEF FDBinary
  <2> HIDE DEF op, f5
  <2>3. Decodes(Fp(op, fmt, f5, Rs2, {}, At(k, 12)))
    BY <2>1, <2>2, FpFunct3Decodes
  <2> QED  BY <2>3 DEF op, f5
<1>4. ASSUME NEW k \in 0 .. 2
      PROVE Decodes(Fp(<<"fle", "flt", "feq">>[k + 1], fmt, 20, Rs2, {}, At(k, 12)))
  <2> DEFINE op == <<"fle", "flt", "feq">>[k + 1]
             f5 == 20
  <2>1. op # "none" /\ f5 \in 0 .. 31 /\ k \in 0 .. 7
    OBVIOUS
  <2>2. FDBinary(4 * f5, k) = op
    BY <1>1 DEF FDBinary
  <2> HIDE DEF op, f5
  <2>3. Decodes(Fp(op, fmt, f5, Rs2, {}, At(k, 12)))
    BY <2>1, <2>2, FpFunct3Decodes
  <2> QED  BY <2>3 DEF op, f5
<1> QED  BY <1>2, <1>3, <1>4

(* The conversions and the square root, which rs2 tells apart *)
LEMMA FpUnaryNames ==
  /\ \A x : FDBinary(32, x) = "none" /\ FDBinary(44, x) = "none" /\ FDBinary(96, x) = "none"
            /\ FDBinary(104, x) = "none" /\ FDBinary(112, x) = "none" /\ FDBinary(120, x) = "none"
  /\ \A x, y : FDUnary(32, x, y) = "fcvt.f" /\ FDUnary(44, x, y) = "fsqrt" /\ FDUnary(120, x, y) =
     "fmv.f"
  /\ \A x : \A y \in 0 .. 3 : FDUnary(96, x, y) = <<"fcvt.w", "fcvt.wu", "fcvt.l",
     "fcvt.lu">>[y + 1]
  /\ \A x : \A y \in 0 .. 3 :
       FDUnary(104, x, y) = <<"fcvt.from.w", "fcvt.from.wu", "fcvt.from.l", "fcvt.from.lu">>[y + 1]
  /\ \A y : FDUnary(112, 0, y) = "fmv.x" /\ FDUnary(112, 1, y) = "fclass"
<1>1. ASSUME NEW x
      PROVE FDBinary(32, x) = "none" /\ FDBinary(44, x) = "none" /\ FDBinary(96, x) = "none"
            /\ FDBinary(104, x) = "none" /\ FDBinary(112, x) = "none" /\ FDBinary(120, x) = "none"
  BY DEF FDBinary
<1>2. ASSUME NEW x, NEW y
      PROVE  FDUnary(32, x, y) = "fcvt.f" /\ FDUnary(44, x, y) = "fsqrt" /\ FDUnary(120, x, y) =
             "fmv.f"
  BY DEF FDUnary
<1>3. ASSUME NEW x, NEW y \in 0 .. 3
      PROVE  /\ FDUnary(96, x, y) = <<"fcvt.w", "fcvt.wu", "fcvt.l", "fcvt.lu">>[y + 1]
             /\ FDUnary(104, x, y) = <<"fcvt.from.w", "fcvt.from.wu", "fcvt.from.l",
                "fcvt.from.lu">>[y + 1]
  BY DEF FDUnary
<1>4. ASSUME NEW y PROVE FDUnary(112, 0, y) = "fmv.x" /\ FDUnary(112, 1, y) = "fclass"
  BY DEF FDUnary
<1> QED  BY <1>1, <1>2, <1>3, <1>4

LEMMA FpUnaryOps ==
  ASSUME NEW fmt, fmt \in 0 .. 1
  PROVE  /\ Decodes(Fp("fsqrt", fmt, 11, X(0), Rm, {}))
         /\ Decodes(Fp("fcvt.f", fmt, 8, X(0), Rm, At(1 - fmt, 20)))
         /\ \A k \in 0 .. 3 :
              Decodes(Fp(<<"fcvt.w", "fcvt.wu", "fcvt.l", "fcvt.lu">>[k + 1], fmt, 24, X(0), Rm,
              At(k, 20)))
         /\ \A k \in 0 .. 3 :
              Decodes(Fp(<<"fcvt.from.w", "fcvt.from.wu", "fcvt.from.l", "fcvt.from.lu">>[k + 1],
                         fmt, 26, X(0), Rm, At(k, 20)))
<1>1. 4 * 11 = 44 /\ 4 * 8 = 32 /\ 4 * 24 = 96 /\ 4 * 26 = 104
  OBVIOUS
<1>2. Decodes(Fp("fsqrt", fmt, 11, X(0), Rm, At(0, 20)))
  <2> DEFINE op == "fsqrt"
             f5 == 11
             k2 == 0
  <2>1. /\ op # "none" /\ f5 \in 0 .. 31 /\ k2 \in 0 .. 31
        /\ \A x : FDBinary(4 * f5, x) = "none"
        /\ \A x : FDUnary(4 * f5, x, k2) = op
    BY <1>1, FpUnaryNames
  <2> HIDE DEF op, f5, k2
  <2>2. Decodes(Fp(op, fmt, f5, X(0), Rm, At(k2, 20)))
    BY <2>1, FpUnaryDecodes
  <2> QED  BY <2>2 DEF op, f5, k2
<1>3. Decodes(Fp("fcvt.f", fmt, 8, X(0), Rm, At(1 - fmt, 20)))
  <2> DEFINE op == "fcvt.f"
             f5 == 8
             k2 == 1 - fmt
  <2>1. /\ op # "none" /\ f5 \in 0 .. 31 /\ k2 \in 0 .. 31
        /\ \A x : FDBinary(4 * f5, x) = "none"
        /\ \A x : FDUnary(4 * f5, x, k2) = op
    BY <1>1, FpUnaryNames
  <2> HIDE DEF op, f5, k2
  <2>2. Decodes(Fp(op, fmt, f5, X(0), Rm, At(k2, 20)))
    BY <2>1, FpUnaryDecodes
  <2> QED  BY <2>2 DEF op, f5, k2
<1>4. ASSUME NEW k \in 0 .. 3
      PROVE  Decodes(Fp(<<"fcvt.w", "fcvt.wu", "fcvt.l", "fcvt.lu">>[k + 1], fmt, 24, X(0), Rm,
             At(k, 20)))
  <2> DEFINE op == <<"fcvt.w", "fcvt.wu", "fcvt.l", "fcvt.lu">>[k + 1]
             f5 == 24
  <2>1. op # "none" /\ f5 \in 0 .. 31 /\ k \in 0 .. 31
    OBVIOUS
  <2>2. /\ \A x : FDBinary(4 * f5, x) = "none"
        /\ \A x : FDUnary(4 * f5, x, k) = op
    BY <1>1, FpUnaryNames
  <2> HIDE DEF op, f5
  <2>3. Decodes(Fp(op, fmt, f5, X(0), Rm, At(k, 20)))
    BY <2>1, <2>2, FpUnaryDecodes
  <2> QED  BY <2>3 DEF op, f5
<1>5. ASSUME NEW k \in 0 .. 3
      PROVE  Decodes(Fp(<<"fcvt.from.w", "fcvt.from.wu", "fcvt.from.l", "fcvt.from.lu">>[k + 1],
                        fmt, 26, X(0), Rm, At(k, 20)))
  <2> DEFINE op == <<"fcvt.from.w", "fcvt.from.wu", "fcvt.from.l", "fcvt.from.lu">>[k + 1]
             f5 == 26
  <2>1. op # "none" /\ f5 \in 0 .. 31 /\ k \in 0 .. 31
    OBVIOUS
  <2>2. /\ \A x : FDBinary(4 * f5, x) = "none"
        /\ \A x : FDUnary(4 * f5, x, k) = op
    BY <1>1, FpUnaryNames
  <2> HIDE DEF op, f5
  <2>3. Decodes(Fp(op, fmt, f5, X(0), Rm, At(k, 20)))
    BY <2>1, <2>2, FpUnaryDecodes
  <2> QED  BY <2>3 DEF op, f5
<1>6. At(0, 20) = {}
  BY AtZero
<1> QED  BY <1>2, <1>3, <1>4, <1>5, <1>6

LEMMA FpMoves ==
  ASSUME NEW fmt, fmt \in 0 .. 1
  PROVE  /\ Decodes(Fp("fmv.x", fmt, 28, X(0), {}, {}))
         /\ Decodes(Fp("fclass", fmt, 28, X(0), {}, At(1, 12)))
         /\ Decodes(Fp("fmv.f", fmt, 30, X(0), {}, {}))
<1>1. 4 * 28 = 112 /\ 4 * 30 = 120
  OBVIOUS
<1>2. ASSUME NEW op, NEW f5, NEW f3,
             \/ (op = "fmv.x" /\ f5 = 28 /\ f3 = 0)
             \/ (op = "fclass" /\ f5 = 28 /\ f3 = 1)
             \/ (op = "fmv.f" /\ f5 = 30 /\ f3 = 0)
      PROVE  Decodes(Fp(op, fmt, f5, X(0), {}, At(f3, 12)))
  <2>1. /\ op # "none" /\ f5 \in 0 .. 31 /\ f3 \in 0 .. 7
        /\ FDBinary(4 * f5, f3) = "none"
        /\ \A x : FDUnary(4 * f5, f3, x) = op
    BY <1>1, <1>2, FpUnaryNames
  <2> QED  BY <2>1, FpMoveDecodes
<1>3. At(0, 12) = {}
  BY AtZero
<1>4. Decodes(Fp("fmv.x", fmt, 28, X(0), {}, At(0, 12)))
      /\ Decodes(Fp("fmv.f", fmt, 30, X(0), {}, At(0, 12)))
  BY <1>2
<1>5. Decodes(Fp("fclass", fmt, 28, X(0), {}, At(1, 12)))
  BY <1>2
<1> QED  BY <1>3, <1>4, <1>5

LEMMA FpLoads ==
  ASSUME NEW fmt, fmt \in 0 .. 1
  PROVE  Decodes(I("fload", Width(fmt), 1, 2 + fmt)) /\ Decodes(S("fstore", Width(fmt), 9, 2 + fmt))
<1> DEFINE n == Width(fmt)
           f3 == 2 + fmt
           load_op == "fload"
           store_op == "fstore"
<1>1. n = 8 * 2^(f3 % 4)
  BY Widths
<1>2. /\ n = 8 * 2^(f3 % 4) /\ f3 \in {2, 3} /\ f3 \in 0 .. 7 /\ load_op # "none"
         /\ store_op # "none"
      /\ load_op = "fload" /\ store_op = "fstore"
  <2> HIDE DEF n
  <2>1. f3 \in {2, 3} /\ f3 \in 0 .. 7
    OBVIOUS
  <2>2. load_op # "none" /\ store_op # "none" /\ load_op = "fload" /\ store_op = "fstore"
    OBVIOUS
  <2> HIDE DEF f3, load_op, store_op
  <2> QED  BY <1>1, <2>1, <2>2
<1> HIDE DEF n, f3, load_op, store_op
<1>3. ASSUME NEW w \in SUBSET (0 .. 31), Opcode(w) = 3 + 4 * 1, Funct3(w) = f3
      PROVE  execute32(w) = WithImm(load_op, n, w, imm_i(w))
  <2>1. execute32(w) = fl(w)
    BY <1>3, Dispatch, 3 + 4 * 1 = 7
  <2>2. fl_offset(w) = imm_i(w)
    BY ImmediateFl, ImmediateI
  <2> QED  BY <1>2, <1>3, <2>1, <2>2 DEF fl, AccessWidth
<1>4. ASSUME NEW w \in SUBSET (0 .. 31), Opcode(w) = 3 + 4 * 9, Funct3(w) = f3,
             store_op = "fstore" => 31 \notin w
      PROVE  execute32(w) = NoRd(store_op, n, w, imm_s(w))
  <2>1. execute32(w) = fs(w)
    BY <1>4, Dispatch, 3 + 4 * 9 = 39
  <2>2. fs_offset(w) = imm_s(w)
    BY <1>2, <1>4, ImmediateFs, ImmediateS
  <2> QED  BY <1>2, <1>4, <2>1, <2>2 DEF fs, AccessWidth
<1>5. Decodes(I(load_op, n, 1, f3))
  BY <1>2, <1>3, IDecodes
<1>6. Decodes(S(store_op, n, 9, f3))
  BY <1>2, <1>4, SDecodes
<1> QED  BY <1>5, <1>6 DEF n, f3, load_op, store_op

LEMMA FloatingDecodes == \A f \in Floating : Decodes(f)
<1> TAKE f \in Floating
<1> DEFINE
      Moved(fmt) == {I("fload", Width(fmt), 1, 2 + fmt), S("fstore", Width(fmt), 9, 2 + fmt)}
      Fmas(fmt) == {FmaForm(a[2], Width(fmt), a[1], fmt) : a \in Fma}
      Binaries(fmt) == {Fp(a[2], fmt, a[1], Rs2, Rm, {}) :
                          a \in {<<0, "fadd">>, <<1, "fsub">>, <<2, "fmul">>, <<3, "fdiv">>}}
      Roots(fmt) == {Fp("fsqrt", fmt, 11, X(0), Rm, {})}
      Signings(fmt) == {Fp(<<"fsgnj", "fsgnjn", "fsgnjx">>[k + 1], fmt, 4, Rs2, {}, At(k, 12)) : k \in 0 .. 2}
      Extremes(fmt) == {Fp(<<"fmin", "fmax">>[k + 1], fmt, 5, Rs2, {}, At(k, 12)) : k \in 0 .. 1}
      Orders(fmt) == {Fp(<<"fle", "flt", "feq">>[k + 1], fmt, 20, Rs2, {}, At(k, 12)) : k \in 0 .. 2}
      Formats(fmt) == {Fp("fcvt.f", fmt, 8, X(0), Rm, At(1 - fmt, 20))}
      ToInts(fmt) == {Fp(<<"fcvt.w", "fcvt.wu", "fcvt.l", "fcvt.lu">>[k + 1], fmt, 24, X(0), Rm,
                         At(k, 20)) : k \in 0 .. 3}
      FromInts(fmt) == {Fp(<<"fcvt.from.w", "fcvt.from.wu", "fcvt.from.l", "fcvt.from.lu">>[k + 1],
                           fmt, 26, X(0), Rm, At(k, 20)) : k \in 0 .. 3}
      Others(fmt) == {Fp("fmv.x", fmt, 28, X(0), {}, {}), Fp("fclass", fmt, 28, X(0), {}, At(1, 12)),
                      Fp("fmv.f", fmt, 30, X(0), {}, {})}
<1>1. Floating = UNION {Moved(fmt) \cup Fmas(fmt) \cup Binaries(fmt) \cup Roots(fmt) \cup Signings(fmt)
                        \cup Extremes(fmt) \cup Orders(fmt) \cup Formats(fmt) \cup ToInts(fmt)
                        \cup FromInts(fmt) \cup Others(fmt) : fmt \in {0, 1}}
  BY Zenon DEF Floating, FmaForm
<1>2. ASSUME NEW fmt \in 0 .. 1
      PROVE  /\ f \in Moved(fmt) => Decodes(f)
             /\ f \in Fmas(fmt) => Decodes(f)
             /\ f \in Binaries(fmt) => Decodes(f)
             /\ f \in Roots(fmt) => Decodes(f)
             /\ f \in Signings(fmt) => Decodes(f)
             /\ f \in Extremes(fmt) => Decodes(f)
             /\ f \in Orders(fmt) => Decodes(f)
             /\ f \in Formats(fmt) => Decodes(f)
             /\ f \in ToInts(fmt) => Decodes(f)
             /\ f \in FromInts(fmt) => Decodes(f)
             /\ f \in Others(fmt) => Decodes(f)
  <2>1. f \in Moved(fmt) => Decodes(f)
    BY FpLoads
  <2>2. f \in Fmas(fmt) => Decodes(f)
    BY FmaOps
  <2>3. f \in Binaries(fmt) => Decodes(f)
    BY FpBinaryOps
  <2>4. f \in Roots(fmt) => Decodes(f)
    BY FpUnaryOps
  <2>5. f \in Signings(fmt) => Decodes(f)
    BY FpFunct3Ops
  <2>6. f \in Extremes(fmt) => Decodes(f)
    BY FpFunct3Ops
  <2>7. f \in Orders(fmt) => Decodes(f)
    BY FpFunct3Ops
  <2>8. f \in Formats(fmt) => Decodes(f)
    BY FpUnaryOps
  <2>9. f \in ToInts(fmt) => Decodes(f)
    BY FpUnaryOps
  <2>10. f \in FromInts(fmt) => Decodes(f)
    BY FpUnaryOps
  <2>11. f \in Others(fmt) => Decodes(f)
    BY FpMoves
  <2> HIDE DEF Moved, Fmas, Binaries, Roots, Signings, Extremes, Orders, Formats, ToInts, FromInts, Others
  <2> QED  BY <2>1, <2>2, <2>3, <2>4, <2>5, <2>6, <2>7, <2>8, <2>9, <2>10, <2>11
<1> HIDE DEF Moved, Fmas, Binaries, Roots, Signings, Extremes, Orders, Formats, ToInts, FromInts, Others
<1>3. PICK fmt \in {0, 1} :
        f \in Moved(fmt) \cup Fmas(fmt) \cup Binaries(fmt) \cup Roots(fmt) \cup Signings(fmt)
              \cup Extremes(fmt) \cup Orders(fmt) \cup Formats(fmt) \cup ToInts(fmt)
              \cup FromInts(fmt) \cup Others(fmt)
  BY <1>1
<1>4. fmt \in 0 .. 1
  OBVIOUS
<1> QED  BY <1>2, <1>3, <1>4

(* A major opcode the architecture does not use reaches no handler. *)
LEMMA UnusedDecodes ==
  ASSUME NEW m, m \in 0 .. 31 \ {0, 1, 3, 4, 5, 6, 8, 9, 11, 12, 13, 14, 16, 17, 18, 19, 20, 24, 25,
         27, 28}
  PROVE  Decodes(UnusedForm(m))
<1> DEFINE f == UnusedForm(m)
<1>1. m \in 0 .. 31
  OBVIOUS
<1>2. Proper(f)
  BY <1>1, UnusedLayout
<1>3. ASSUME NEW w, OfForm(f, w) PROVE Result(w) = Meaning(f, w)
  <2>1. Word32(f, m, w) /\ Meaning(f, w) = Insn("illegal", 0, 0, 0, 0, 0, {})
    BY <1>1, <1>3, UnusedLayout
  <2> HIDE DEF f
  <2>2. execute32(w) = Illegal
    BY <2>1, DispatchUnused DEF Word32
  <2> QED  BY <2>1, <2>2 DEF Word32, Illegal
<1> QED  BY <1>2, <1>3 DEF Decodes
-----------------------------------------------------------------------------
(* Compressed instructions: the quadrant, funct3 and the bits between *)

CLayout(f, q, f3, fixed) ==
  /\ q \in 0 .. 2 /\ f3 \in 0 .. 7
  /\ f.size = 2 /\ f.ones = At(q, 0) \cup At(f3, 13) \cup fixed
  /\ fixed \subseteq 2 .. 12 /\ Varying(f) \subseteq 2 .. 12
Word16(f, q, f3, fixed, w) ==
  /\ w \in SUBSET (0 .. 31)
  /\ Bits(w, 2, 0) = q /\ CompressedFunct3(w) = f3
  /\ \A k \in 2 .. 12 : k \notin Varying(f) => (k \in w <=> k \in fixed)

LEMMA Form16 ==
  ASSUME NEW f, NEW q, NEW f3, NEW fixed, NEW w, CLayout(f, q, f3, fixed)
  PROVE  Proper(f) /\ (OfForm(f, w) => Word16(f, q, f3, fixed, w))
<1> USE DEF CLayout
<1>1. 0 .. (8 * f.size - 1) = 0 .. 15
  BY 8 * 2 - 1 = 15
<1>2. At(q, 0) \subseteq 0 .. 1 /\ At(f3, 13) \subseteq 13 .. 15 /\ BitsOf(q) \subseteq 0 .. 1
      /\ BitsOf(f3) \subseteq 0 .. 2
  <2>1. q \in 0 .. 3 /\ BitsOf(q) \subseteq 0 .. 1 /\ BitsOf(f3) \subseteq 0 .. 2
    BY BitsBelow
  <2> QED  BY <2>1 DEF At
<1>3. Proper(f)
  <2>1. f.ones \subseteq 0 .. 15
    <3>1. ASSUME NEW k \in At(q, 0) PROVE k \in 0 .. 15
      BY ONLY <1>2, <3>1
    <3>2. ASSUME NEW k \in At(f3, 13) PROVE k \in 0 .. 15
      BY ONLY <1>2, <3>2
    <3>3. ASSUME NEW k \in fixed PROVE k \in 0 .. 15
      OBVIOUS
    <3> QED  BY <3>1, <3>2, <3>3
  <2>2. Varying(f) \subseteq 0 .. 15
    OBVIOUS
  <2>3. f.size \in {2, 4}
    OBVIOUS
  <2> QED  BY ONLY <1>1, <2>1, <2>2, <2>3 DEF Proper
<1>4. ASSUME OfForm(f, w) PROVE Word16(f, q, f3, fixed, w)
  <2>1. w \in SUBSET (0 .. 31) /\ \A k \in 0 .. 15 : k \notin Varying(f) =>
        (k \in w <=> k \in f.ones)
    BY <1>1, <1>4 DEF OfForm
  <2>2. ASSUME NEW j \in 0 .. 1 PROVE 0 + j \in w <=> j \in BitsOf(q)
    <3>1. j \in At(q, 0) <=> j - 0 \in BitsOf(q)
      BY AtIn
    <3>2. j \notin At(f3, 13) /\ j \notin fixed /\ j \notin Varying(f) /\ j \in 0 .. 15 /\ j - 0 =
          j /\ 0 + j = j
      BY <1>2
    <3> QED  BY <2>1, <3>1, <3>2
  <2>3. ASSUME NEW j \in 0 .. 2 PROVE 13 + j \in w <=> j \in BitsOf(f3)
    <3>1. 13 + j \in At(f3, 13) <=> j \in BitsOf(f3)
      BY AtIn, (13 + j) - 13 = j
    <3>2. 13 + j \notin At(q, 0) /\ 13 + j \notin fixed /\ 13 + j \notin Varying(f)
          /\ 13 + j \in 0 .. 15
      BY <1>2
    <3> QED  BY <2>1, <3>1, <3>2
  <2>4. w \in SUBSET Int
    BY <2>1
  <2>5. Bits(w, 2, 0) = q
    BY ONLY <2>2, <2>4, TwoBits, CLayout(f, q, f3, fixed), 0 .. 2 \subseteq 0 .. 3, 0 \in Nat
  <2>6. CompressedFunct3(w) = f3
    <3>1. Bits(w, 3, 13) = f3
      BY ONLY <2>3, <2>4, ThreeBits, CLayout(f, q, f3, fixed), 13 \in Nat
    <3> QED  BY <3>1 DEF CompressedFunct3
  <2>7. ASSUME NEW k \in 2 .. 12, k \notin Varying(f) PROVE k \in w <=> k \in fixed
    <3>1. k \in 0 .. 15 /\ k \notin At(q, 0) /\ k \notin At(f3, 13)
      BY <1>2
    <3> QED  BY <2>1, <2>7, <3>1
  <2> QED  BY <2>1, <2>5, <2>6, <2>7 DEF Word16
<1> QED  BY <1>3, <1>4

LEMMA BitsOfEmpty == \A n, lo : Bits({}, n, lo) = 0
<1> TAKE n, lo
<1>1. Shr({}, lo) \cap 0 .. (n - 1) = {}
  BY DEF Shr
<1> QED  BY <1>1, NumOfNone DEF Bits

(* Cpu::execute16: the handlers of a quadrant *)
LEMMA Quadrants ==
  ASSUME NEW w
  PROVE  /\ Bits(w, 2, 0) = 0 /\ w # {} => Result(w) = quadrant0(w)
         /\ Bits(w, 2, 0) = 0 /\ CompressedFunct3(w) # 0 => Result(w) = quadrant0(w)
         /\ Bits(w, 2, 0) = 1 => Result(w) = quadrant1(w)
         /\ Bits(w, 2, 0) = 2 => Result(w) = quadrant2(w)
<1>1. Bits(w, 2, 0) # 0 \/ CompressedFunct3(w) # 0 => w # {}
  BY BitsOfEmpty DEF CompressedFunct3
<1>2. ASSUME Bits(w, 2, 0) = 0, w # {} PROVE Result(w) = quadrant0(w)
  BY <1>2 DEF Result
<1>3. ASSUME Bits(w, 2, 0) = 1 PROVE Result(w) = quadrant1(w)
  BY <1>1, <1>3 DEF Result
<1>4. ASSUME Bits(w, 2, 0) = 2 PROVE Result(w) = quadrant2(w)
  BY <1>1, <1>4 DEF Result
<1> QED  BY <1>1, <1>2, <1>3, <1>4

LEMMA Dispatch0 ==
  ASSUME NEW w
  PROVE  /\ CompressedFunct3(w) = 0 => quadrant0(w) =
            Insn("add", 64, CompressedRd(w), 2, 0, 0, Addi4SpnImm(w))
         /\ CompressedFunct3(w) = 1 => quadrant0(w) = CLoad("fload", 64, w, DoubleOffset(w))
         /\ CompressedFunct3(w) = 2 => quadrant0(w) = CLoad("load", 32, w, WordOffset(w))
         /\ CompressedFunct3(w) = 3 => quadrant0(w) = CLoad("load", 64, w, DoubleOffset(w))
         /\ CompressedFunct3(w) = 4 => quadrant0(w) = Illegal
         /\ CompressedFunct3(w) = 5 => quadrant0(w) = CFsd(w)
         /\ CompressedFunct3(w) = 6 => quadrant0(w) = CStore("store", 32, w, WordOffset(w))
         /\ CompressedFunct3(w) = 7 => quadrant0(w) = CStore("store", 64, w, DoubleOffset(w))
BY DEF quadrant0

LEMMA Dispatch1 ==
  ASSUME NEW w
  PROVE  /\ CompressedFunct3(w) = 0 => quadrant1(w) = Update("add", 64, RD(w), 0, Imm6(w))
         /\ CompressedFunct3(w) = 1 => quadrant1(w) = Update("add", 32, RD(w), 0, Imm6(w))
         /\ CompressedFunct3(w) = 2 => quadrant1(w) = Insn("add", 64, RD(w), 0, 0, 0, Imm6(w))
         /\ CompressedFunct3(w) = 3 /\ RD(w) = 2 => quadrant1(w) =
            Update("add", 64, 2, 0, Addi16SpImm(w))
         /\ CompressedFunct3(w) = 3 /\ RD(w) \notin {0, 2} =>
              quadrant1(w) = Insn("lui", 64, RD(w), 0, 0, 0, LuiImm(w))
         /\ CompressedFunct3(w) = 4 => quadrant1(w) = q1op4(w)
         /\ CompressedFunct3(w) = 5 => quadrant1(w) = Insn("jal", 64, 0, 0, 0, 0, JImm(w))
         /\ CompressedFunct3(w) = 6 => quadrant1(w) =
            Insn("beq", 64, 0, CompressedRs1(w), 0, 0, BImm(w))
         /\ CompressedFunct3(w) = 7 => quadrant1(w) =
            Insn("bne", 64, 0, CompressedRs1(w), 0, 0, BImm(w))
<1>1. ASSUME CompressedFunct3(w) \in {0, 1, 2, 4, 5, 6, 7}
      PROVE  /\ CompressedFunct3(w) = 0 => quadrant1(w) = Update("add", 64, RD(w), 0, Imm6(w))
             /\ CompressedFunct3(w) = 1 => quadrant1(w) = Update("add", 32, RD(w), 0, Imm6(w))
             /\ CompressedFunct3(w) = 2 => quadrant1(w) = Insn("add", 64, RD(w), 0, 0, 0, Imm6(w))
             /\ CompressedFunct3(w) = 4 => quadrant1(w) = q1op4(w)
             /\ CompressedFunct3(w) = 5 => quadrant1(w) = Insn("jal", 64, 0, 0, 0, 0, JImm(w))
             /\ CompressedFunct3(w) = 6 => quadrant1(w) =
                Insn("beq", 64, 0, CompressedRs1(w), 0, 0, BImm(w))
             /\ CompressedFunct3(w) = 7 => quadrant1(w) =
                Insn("bne", 64, 0, CompressedRs1(w), 0, 0, BImm(w))
  BY <1>1 DEF quadrant1
<1>2. ASSUME CompressedFunct3(w) = 3, RD(w) = 2
      PROVE quadrant1(w) = Update("add", 64, 2, 0, Addi16SpImm(w))
  BY <1>2 DEF quadrant1
<1>3. ASSUME CompressedFunct3(w) = 3, RD(w) \notin {0, 2}
      PROVE  quadrant1(w) = Insn("lui", 64, RD(w), 0, 0, 0, LuiImm(w))
  BY <1>3 DEF quadrant1
<1> QED  BY <1>1, <1>2, <1>3

LEMMA Dispatch2 ==
  ASSUME NEW w
  PROVE  /\ CompressedFunct3(w) = 0 => quadrant2(w) =
            Update("sll", 64, RD(w), 0, CompressedShamt(w))
         /\ CompressedFunct3(w) = 1 => quadrant2(w) =
            Insn("fload", 64, RD(w), 2, 0, 0, DoubleLoadSp(w))
         /\ CompressedFunct3(w) = 2 => quadrant2(w) =
            Insn("load", 32, RD(w), 2, 0, 0, WordLoadSp(w))
         /\ CompressedFunct3(w) = 3 => quadrant2(w) =
            Insn("load", 64, RD(w), 2, 0, 0, DoubleLoadSp(w))
         /\ CompressedFunct3(w) = 4 /\ Bits(w, 5, 2) = 0 =>
              quadrant2(w) = Insn("jalr", 64, Bits(w, 1, 12), RD(w), 0, 0, {})
         /\ CompressedFunct3(w) = 4 /\ Bits(w, 5, 2) # 0 =>
              quadrant2(w) = Insn("add", 64, RD(w), IF Bits(w, 1, 12) = 1 THEN RD(w) ELSE 0,
              Bits(w, 5, 2), 0, {})
         /\ CompressedFunct3(w) = 5 => quadrant2(w) =
            Insn("fstore", 64, 0, 2, Bits(w, 5, 2), 0, DoubleStoreSp(w))
         /\ CompressedFunct3(w) = 6 => quadrant2(w) =
            Insn("store", 32, 0, 2, Bits(w, 5, 2), 0, WordStoreSp(w))
         /\ CompressedFunct3(w) = 7 => quadrant2(w) =
            Insn("store", 64, 0, 2, Bits(w, 5, 2), 0, DoubleStoreSp(w))
BY DEF quadrant2

(* One- and two-bit fields *)
LEMMA ShortField ==
  ASSUME NEW w, w \in SUBSET (0 .. 31), NEW lo, lo \in 0 .. 30, NEW hi, hi = lo + 1
  PROVE  /\ lo \in w => Bits(w, 1, lo) = 1
         /\ lo \notin w => Bits(w, 1, lo) = 0
         /\ lo \notin w /\ hi \notin w => Bits(w, 2, lo) = 0
         /\ lo \in w /\ hi \notin w => Bits(w, 2, lo) = 1
         /\ lo \notin w /\ hi \in w => Bits(w, 2, lo) = 2
         /\ lo \in w /\ hi \in w => Bits(w, 2, lo) = 3
<1>1. w \in SUBSET Int /\ lo \in Int
  OBVIOUS
<1>2. \A k : k \in Shr(w, lo) <=> k \in Nat /\ k + lo \in w
  BY <1>1, ShrIn
<1> DEFINE s == Shr(w, lo) \cap 0 .. (1 - 1)
           t == Shr(w, lo) \cap 0 .. (2 - 1)
<1>3. /\ 0 \in s <=> lo \in w
      /\ \A k \in 1 .. 6 : k \notin s
  BY <1>2, 0 + lo = lo
<1>4. /\ 0 \in t <=> lo \in w
      /\ 1 \in t <=> hi \in w
      /\ \A k \in 2 .. 6 : k \notin t
  BY <1>2, 0 + lo = lo, 1 + lo = hi
<1>5. Bits(w, 1, lo) = Num(s) /\ Bits(w, 2, lo) = Num(t)
  BY DEF Bits
<1> HIDE DEF s, t
<1> QED  BY <1>3, <1>4, <1>5 DEF Num

LEMMA ShortFields ==
  ASSUME NEW w, w \in SUBSET (0 .. 31)
  PROVE  /\ 12 \in w => Bits(w, 1, 12) = 1
         /\ 12 \notin w => Bits(w, 1, 12) = 0
         /\ 10 \notin w /\ 11 \notin w => CompressedFunct2(w) = 0
         /\ 10 \in w /\ 11 \notin w => CompressedFunct2(w) = 1
         /\ 10 \notin w /\ 11 \in w => CompressedFunct2(w) = 2
         /\ 10 \in w /\ 11 \in w => CompressedFunct2(w) = 3
         /\ 5 \notin w /\ 6 \notin w => Bits(w, 2, 5) = 0
         /\ 5 \in w /\ 6 \notin w => Bits(w, 2, 5) = 1
         /\ 5 \notin w /\ 6 \in w => Bits(w, 2, 5) = 2
         /\ 5 \in w /\ 6 \in w => Bits(w, 2, 5) = 3
<1>1. ASSUME NEW lo, lo \in {5, 10, 12}
      PROVE  /\ lo \in w => Bits(w, 1, lo) = 1
             /\ lo \notin w => Bits(w, 1, lo) = 0
             /\ lo \notin w /\ lo + 1 \notin w => Bits(w, 2, lo) = 0
             /\ lo \in w /\ lo + 1 \notin w => Bits(w, 2, lo) = 1
             /\ lo \notin w /\ lo + 1 \in w => Bits(w, 2, lo) = 2
             /\ lo \in w /\ lo + 1 \in w => Bits(w, 2, lo) = 3
  <2> DEFINE hi == lo + 1
  <2>1. lo \in 0 .. 30 /\ hi = lo + 1
    BY <1>1
  <2> HIDE DEF hi
  <2>2. /\ lo \in w => Bits(w, 1, lo) = 1
        /\ lo \notin w => Bits(w, 1, lo) = 0
        /\ lo \notin w /\ hi \notin w => Bits(w, 2, lo) = 0
        /\ lo \in w /\ hi \notin w => Bits(w, 2, lo) = 1
        /\ lo \notin w /\ hi \in w => Bits(w, 2, lo) = 2
        /\ lo \in w /\ hi \in w => Bits(w, 2, lo) = 3
    BY <2>1, ShortField
  <2> QED  BY <2>2 DEF hi
<1>2. 10 + 1 = 11 /\ 5 + 1 = 6
  OBVIOUS
<1> QED  BY <1>1, <1>2 DEF CompressedFunct2

(* The bits of the constants in the middle of a compressed format *)
LEMMA SmallBits ==
  ASSUME NEW lo \in Int
  PROVE  /\ At(0, lo) = {} /\ At(1, lo) = {lo} /\ At(2, lo) = {lo + 1} /\ At(3, lo) = {lo, lo + 1}
         /\ At(7, lo) = {lo, lo + 1, lo + 2}
<1>1. /\ \A v \in {0, 1, 2, 3, 7} : BitsOf(v) \subseteq 0 .. 2
      /\ 0 \notin BitsOf(0) /\ 1 \notin BitsOf(0) /\ 2 \notin BitsOf(0)
      /\ 0 \in BitsOf(1) /\ 1 \notin BitsOf(1) /\ 2 \notin BitsOf(1)
      /\ 0 \notin BitsOf(2) /\ 1 \in BitsOf(2) /\ 2 \notin BitsOf(2)
      /\ 0 \in BitsOf(3) /\ 1 \in BitsOf(3) /\ 2 \notin BitsOf(3)
      /\ 0 \in BitsOf(7) /\ 1 \in BitsOf(7) /\ 2 \in BitsOf(7)
  <2>1. \A v \in {0, 1, 2, 3, 7} : BitsOf(v) \subseteq 0 .. 2
    BY BitsBelow, \A v \in {0, 1, 2, 3, 7} : v \in 0 .. 7
  <2>2. /\ (0 \div 2^0) % 2 = 0 /\ (0 \div 2^1) % 2 = 0 /\ (0 \div 2^2) % 2 = 0
        /\ (1 \div 2^0) % 2 = 1 /\ (1 \div 2^1) % 2 = 0 /\ (1 \div 2^2) % 2 = 0
        /\ (2 \div 2^0) % 2 = 0 /\ (2 \div 2^1) % 2 = 1 /\ (2 \div 2^2) % 2 = 0
        /\ (3 \div 2^0) % 2 = 1 /\ (3 \div 2^1) % 2 = 1 /\ (3 \div 2^2) % 2 = 0
        /\ (7 \div 2^0) % 2 = 1 /\ (7 \div 2^1) % 2 = 1 /\ (7 \div 2^2) % 2 = 1
    OBVIOUS
  <2> QED  BY <2>1, <2>2 DEF BitsOf
<1>2. BitsOf(0) = {} /\ BitsOf(1) = {0} /\ BitsOf(2) = {1} /\ BitsOf(3) = {0, 1} /\ BitsOf(7) =
      {0, 1, 2}
  BY <1>1
<1> QED  BY <1>2 DEF At
-----------------------------------------------------------------------------
(* Quadrant 0 *)

LEMMA CAddi4SpnDecodes ==
  Decodes(C("add", 64, 0, 0, {}, Low2, X(2), X(0), Imm4Spn, FALSE))
<1> DEFINE f == C("add", 64, 0, 0, {}, Low2, X(2), X(0), Imm4Spn, FALSE)
           fixed == {}
<1>1. /\ f.op = "add" /\ f.n = 64 /\ f.size = 2 /\ f.ones = At(0, 0) \cup At(0, 13) \cup fixed
      /\ f.rd = Low2 /\ f.rs1 = X(2) /\ f.rs2 = X(0) /\ f.rs3 = X(0)
      /\ f.imm = Imm4Spn /\ f.signed = FALSE /\ f.free = {}
  BY DEF C, Form
<1>2. f \in Compressed
  BY DEF Compressed, Quadrant0
<1> HIDE DEF f
<1>3. Varying(f) = 2 .. 4 \cup 5 .. 12
  <2>1. Ran(f.imm) = 5 .. 12
    BY <1>1, Takes4Spn
  <2> QED  BY <1>1, <2>1, Fields DEF Varying
<1>4. fixed = {}
  OBVIOUS
<1> HIDE DEF fixed
<1>5. CLayout(f, 0, 0, fixed)
  BY <1>1, <1>3, <1>4 DEF CLayout
<1>6. Proper(f)
  BY <1>5, Form16
<1>7. ASSUME NEW w, OfForm(f, w), ~ Reserved(f, w), Exact(f, w) PROVE Result(w) = Meaning(f, w)
  <2>1. Word16(f, 0, 0, fixed, w)
    BY <1>5, <1>7, Form16
  <2>2. w \in SUBSET (0 .. 31) /\ w \in SUBSET Int /\ Bits(w, 2, 0) = 0 /\ CompressedFunct3(w) = 0
    BY <2>1 DEF Word16
  <2>3. Takes(f, w, Addi4SpnImm(w))
    BY <1>1, <2>2, Takes4Spn
  <2>4. Meaning(f, w) = Insn("add", 64, CompressedRd(w), 2, 0, 0, Addi4SpnImm(w))
    BY <1>1, <2>2, <2>3, Registers DEF Takes
  <2>5. w # {}
    <3>1. Addi4SpnImm(w) # {}
      <4> SUFFICES ASSUME Addi4SpnImm(w) = {} PROVE FALSE
        OBVIOUS
      <4>1. Meaning(f, w).op = "add" /\ Meaning(f, w).imm = {}
        BY <2>4 DEF Insn
      <4> QED  BY <1>1, <1>2, <1>7, <4>1 DEF Reserved
    <3>2. Addi4SpnImm({}) = {}
      BY DEF Addi4SpnImm, Shr
    <3> QED  BY <3>1, <3>2
  <2>6. Result(w) = quadrant0(w)
    BY <2>2, Quadrants, <2>5
  <2>7. quadrant0(w) = Insn("add", 64, CompressedRd(w), 2, 0, 0, Addi4SpnImm(w))
    BY <2>2, Dispatch0
  <2> QED  BY <2>4, <2>6, <2>7
<1> QED  BY <1>6, <1>7 DEF Decodes, f

LEMMA CLoadsDecodes ==
  \A a \in {<<1, "fload", 64>>, <<2, "load", 32>>, <<3, "load", 64>>} :
    Decodes(C(a[2], a[3], 0, a[1], {}, Low2, Low7, X(0), ImmQ0(a[3]), FALSE))
<1> TAKE a \in {<<1, "fload", 64>>, <<2, "load", 32>>, <<3, "load", 64>>}
<1> DEFINE f3 == a[1]
           op == a[2]
           n == a[3]
           f == C(op, n, 0, f3, {}, Low2, Low7, X(0), ImmQ0(n), FALSE)
           fixed == {}
<1>1. \/ (f3 = 1 /\ op = "fload" /\ n = 64) \/ (f3 = 2 /\ op = "load" /\ n = 32)
      \/ (f3 = 3 /\ op = "load" /\ n = 64)
  OBVIOUS
<1>2. /\ f.op = op /\ f.n = n /\ f.size = 2 /\ f.ones = At(0, 0) \cup At(f3, 13) \cup fixed
      /\ f.rd = Low2 /\ f.rs1 = Low7 /\ f.rs2 = X(0) /\ f.rs3 = X(0)
      /\ f.imm = ImmQ0(n) /\ f.signed = FALSE /\ f.free = {}
  BY DEF C, Form
<1> HIDE DEF f, f3, op, n
<1>3. Varying(f) = 2 .. 4 \cup 7 .. 9 \cup 5 .. 6 \cup 10 .. 12
  <2>1. Ran(f.imm) = 5 .. 6 \cup 10 .. 12
    BY <1>1, <1>2, TakesQ032, TakesQ064
  <2> QED  BY <1>2, <2>1, Fields DEF Varying
<1>4. fixed = {}
  OBVIOUS
<1> HIDE DEF fixed
<1>5. CLayout(f, 0, f3, fixed)
  BY <1>1, <1>2, <1>3, <1>4 DEF CLayout
<1>6. Proper(f)
  BY <1>5, Form16
<1>7. ASSUME NEW w, OfForm(f, w), ~ Reserved(f, w), Exact(f, w) PROVE Result(w) = Meaning(f, w)
  <2>1. Word16(f, 0, f3, fixed, w)
    BY <1>5, <1>7, Form16
  <2>2. w \in SUBSET (0 .. 31) /\ w \in SUBSET Int /\ Bits(w, 2, 0) = 0 /\ CompressedFunct3(w) = f3
    BY <2>1 DEF Word16
  <2>3. Takes(f, w, (IF n = 32 THEN WordOffset(w) ELSE DoubleOffset(w)))
    <3>1. f.imm = ImmQ0(n) /\ f.signed = FALSE /\ n \in {32, 64} /\ w \in SUBSET (0 .. 31)
      BY <1>1, <1>2, <2>2
    <3>2. n = 32 => Takes(f, w, WordOffset(w))
      BY ONLY <3>1, TakesQ032
    <3>3. n = 64 => Takes(f, w, DoubleOffset(w))
      BY ONLY <3>1, TakesQ064
    <3> QED  BY ONLY <3>1, <3>2, <3>3
  <2>4. Meaning(f, w) = Insn(op, n, CompressedRd(w), CompressedRs1(w), 0, 0,
        (IF n = 32 THEN WordOffset(w) ELSE DoubleOffset(w)))
    BY <1>2, <2>2, <2>3, Registers DEF Takes
  <2>5. Result(w) = quadrant0(w)
    BY <1>1, <2>2, Quadrants
  <2>6. quadrant0(w) = Insn(op, n, CompressedRd(w), CompressedRs1(w), 0, 0,
        (IF n = 32 THEN WordOffset(w) ELSE DoubleOffset(w)))
    BY <1>1, <2>2, Dispatch0 DEF CLoad
  <2> QED  BY <2>4, <2>5, <2>6
<1> QED  BY <1>6, <1>7 DEF Decodes, f, f3, op, n

LEMMA CStoresDecodes ==
  \A a \in {<<5, "fstore", 64>>, <<6, "store", 32>>, <<7, "store", 64>>} :
    Decodes(C(a[2], a[3], 0, a[1], {}, X(0), Low7, Low2, ImmQ0(a[3]), FALSE))
<1> TAKE a \in {<<5, "fstore", 64>>, <<6, "store", 32>>, <<7, "store", 64>>}
<1> DEFINE f3 == a[1]
           op == a[2]
           n == a[3]
           f == C(op, n, 0, f3, {}, X(0), Low7, Low2, ImmQ0(n), FALSE)
           fixed == {}
<1>1. \/ (f3 = 5 /\ op = "fstore" /\ n = 64) \/ (f3 = 6 /\ op = "store" /\ n = 32)
      \/ (f3 = 7 /\ op = "store" /\ n = 64)
  OBVIOUS
<1>2. /\ f.op = op /\ f.n = n /\ f.size = 2 /\ f.ones = At(0, 0) \cup At(f3, 13) \cup fixed
      /\ f.rd = X(0) /\ f.rs1 = Low7 /\ f.rs2 = Low2 /\ f.rs3 = X(0)
      /\ f.imm = ImmQ0(n) /\ f.signed = FALSE /\ f.free = {}
  BY DEF C, Form
<1> HIDE DEF f, f3, op, n
<1>3. Varying(f) = 7 .. 9 \cup 2 .. 4 \cup 5 .. 6 \cup 10 .. 12
  <2>1. Ran(f.imm) = 5 .. 6 \cup 10 .. 12
    BY <1>1, <1>2, TakesQ032, TakesQ064
  <2> QED  BY <1>2, <2>1, Fields DEF Varying
<1>4. fixed = {}
  OBVIOUS
<1> HIDE DEF fixed
<1>5. CLayout(f, 0, f3, fixed)
  BY <1>1, <1>2, <1>3, <1>4 DEF CLayout
<1>6. Proper(f)
  BY <1>5, Form16
<1>7. ASSUME NEW w, OfForm(f, w), ~ Reserved(f, w), Exact(f, w) PROVE Result(w) = Meaning(f, w)
  <2>1. Word16(f, 0, f3, fixed, w)
    BY <1>5, <1>7, Form16
  <2>2. w \in SUBSET (0 .. 31) /\ w \in SUBSET Int /\ Bits(w, 2, 0) = 0 /\ CompressedFunct3(w) = f3
    BY <2>1 DEF Word16
  <2>3. Takes(f, w, (IF n = 32 THEN WordOffset(w) ELSE DoubleOffset(w)))
    <3>1. f.imm = ImmQ0(n) /\ f.signed = FALSE /\ n \in {32, 64} /\ w \in SUBSET (0 .. 31)
      BY <1>1, <1>2, <2>2
    <3>2. n = 32 => Takes(f, w, WordOffset(w))
      BY ONLY <3>1, TakesQ032
    <3>3. n = 64 => Takes(f, w, DoubleOffset(w))
      BY ONLY <3>1, TakesQ064
    <3> QED  BY ONLY <3>1, <3>2, <3>3
  <2>4. Meaning(f, w) = Insn(op, n, 0, CompressedRs1(w), CompressedRs2(w), 0,
        (IF n = 32 THEN WordOffset(w) ELSE DoubleOffset(w)))
    BY <1>2, <2>2, <2>3, Registers DEF Takes
  <2>5. op = "fstore" => CompressedRs1(w) = CompressedRs2(w)
    BY <1>2, <1>7 DEF Exact
  <2>6. Result(w) = quadrant0(w)
    BY <1>1, <2>2, Quadrants
  <2>7. quadrant0(w) = Insn(op, n, 0, CompressedRs1(w), CompressedRs2(w), 0,
        (IF n = 32 THEN WordOffset(w) ELSE DoubleOffset(w)))
    BY <1>1, <2>2, Dispatch0, <2>5 DEF CStore, CFsd
  <2> QED  BY <2>4, <2>6, <2>7
<1> QED  BY <1>6, <1>7 DEF Decodes, f, f3, op, n

-----------------------------------------------------------------------------
(* Quadrant 1 *)

LEMMA CAddiDecodes ==
  \A a \in {<<0, 64>>, <<1, 32>>} :
    Decodes(C("add", a[2], 1, a[1], {}, Rd, Rd, X(0), CImm, TRUE))
<1> TAKE a \in {<<0, 64>>, <<1, 32>>}
<1> DEFINE f3 == a[1]
           n == a[2]
           f == C("add", n, 1, f3, {}, Rd, Rd, X(0), CImm, TRUE)
           fixed == {}
<1>1. (f3 = 0 /\ n = 64) \/ (f3 = 1 /\ n = 32)
  OBVIOUS
<1>2. /\ f.op = "add" /\ f.n = n /\ f.size = 2 /\ f.ones = At(1, 0) \cup At(f3, 13) \cup fixed
      /\ f.rd = Rd /\ f.rs1 = Rd /\ f.rs2 = X(0) /\ f.rs3 = X(0)
      /\ f.imm = CImm /\ f.signed = TRUE /\ f.free = {}
  BY DEF C, Form
<1> HIDE DEF f, f3, n
<1>3. Varying(f) = 7 .. 11 \cup 2 .. 6 \cup 12 .. 12
  <2>1. Ran(f.imm) = 2 .. 6 \cup 12 .. 12
    BY <1>1, <1>2, TakesImm6
  <2> QED  BY <1>2, <2>1, Fields DEF Varying
<1>4. fixed = {}
  OBVIOUS
<1> HIDE DEF fixed
<1>5. CLayout(f, 1, f3, fixed)
  BY <1>1, <1>2, <1>3, <1>4 DEF CLayout
<1>6. Proper(f)
  BY <1>5, Form16
<1>7. ASSUME NEW w, OfForm(f, w), ~ Reserved(f, w), Exact(f, w) PROVE Result(w) = Meaning(f, w)
  <2>1. Word16(f, 1, f3, fixed, w)
    BY <1>5, <1>7, Form16
  <2>2. w \in SUBSET (0 .. 31) /\ w \in SUBSET Int /\ Bits(w, 2, 0) = 1 /\ CompressedFunct3(w) = f3
    BY <2>1 DEF Word16
  <2>3. Takes(f, w, Imm6(w))
    BY <1>1, <1>2, <2>2, TakesImm6
  <2>4. Meaning(f, w) = Insn("add", n, RD(w), RD(w), 0, 0, Imm6(w))
    BY <1>2, <2>2, <2>3, Registers DEF Takes
  <2>5. Result(w) = quadrant1(w)
    BY <1>1, <2>2, Quadrants
  <2>6. quadrant1(w) = Insn("add", n, RD(w), RD(w), 0, 0, Imm6(w))
    BY <1>1, <2>2, Dispatch1 DEF Update
  <2> QED  BY <2>4, <2>5, <2>6
<1> QED  BY <1>6, <1>7 DEF Decodes, f, f3, n

LEMMA CLiDecodes ==
  Decodes(C("add", 64, 1, 2, {}, Rd, X(0), X(0), CImm, TRUE))
<1> DEFINE f == C("add", 64, 1, 2, {}, Rd, X(0), X(0), CImm, TRUE)
           fixed == {}
<1>1. /\ f.op = "add" /\ f.n = 64 /\ f.size = 2 /\ f.ones = At(1, 0) \cup At(2, 13) \cup fixed
      /\ f.rd = Rd /\ f.rs1 = X(0) /\ f.rs2 = X(0) /\ f.rs3 = X(0)
      /\ f.imm = CImm /\ f.signed = TRUE /\ f.free = {}
  BY DEF C, Form
<1> HIDE DEF f
<1>2. Varying(f) = 7 .. 11 \cup 2 .. 6 \cup 12 .. 12
  <2>1. Ran(f.imm) = 2 .. 6 \cup 12 .. 12
    BY <1>1, TakesImm6
  <2> QED  BY <1>1, <2>1, Fields DEF Varying
<1>3. fixed = {}
  OBVIOUS
<1> HIDE DEF fixed
<1>4. CLayout(f, 1, 2, fixed)
  BY <1>1, <1>2, <1>3 DEF CLayout
<1>5. Proper(f)
  BY <1>4, Form16
<1>6. ASSUME NEW w, OfForm(f, w), ~ Reserved(f, w), Exact(f, w) PROVE Result(w) = Meaning(f, w)
  <2>1. Word16(f, 1, 2, fixed, w)
    BY <1>4, <1>6, Form16
  <2>2. w \in SUBSET (0 .. 31) /\ w \in SUBSET Int /\ Bits(w, 2, 0) = 1 /\ CompressedFunct3(w) = 2
    BY <2>1 DEF Word16
  <2>3. Takes(f, w, Imm6(w))
    BY <1>1, <2>2, TakesImm6
  <2>4. Meaning(f, w) = Insn("add", 64, RD(w), 0, 0, 0, Imm6(w))
    BY <1>1, <2>2, <2>3, Registers DEF Takes
  <2>5. Result(w) = quadrant1(w)
    BY <2>2, Quadrants
  <2>6. quadrant1(w) = Insn("add", 64, RD(w), 0, 0, 0, Imm6(w))
    BY <2>2, Dispatch1
  <2> QED  BY <2>4, <2>5, <2>6
<1> QED  BY <1>5, <1>6 DEF Decodes, f

LEMMA CAddi16SpDecodes ==
  Decodes(C("add", 64, 1, 3, At(2, 7), X(2), X(2), X(0), Imm16Sp, TRUE))
<1> DEFINE f == C("add", 64, 1, 3, At(2, 7), X(2), X(2), X(0), Imm16Sp, TRUE)
           fixed == At(2, 7)
<1>1. /\ f.op = "add" /\ f.n = 64 /\ f.size = 2 /\ f.ones = At(1, 0) \cup At(3, 13) \cup fixed
      /\ f.rd = X(2) /\ f.rs1 = X(2) /\ f.rs2 = X(0) /\ f.rs3 = X(0)
      /\ f.imm = Imm16Sp /\ f.signed = TRUE /\ f.free = {}
  BY DEF C, Form
<1> HIDE DEF f
<1>2. Varying(f) = 2 .. 6 \cup 12 .. 12
  <2>1. Ran(f.imm) = 2 .. 6 \cup 12 .. 12
    BY <1>1, Takes16Sp
  <2> QED  BY <1>1, <2>1, Fields DEF Varying
<1>3. fixed = {8}
  BY SmallBits, 7 + 1 = 8
<1> HIDE DEF fixed
<1>4. CLayout(f, 1, 3, fixed)
  BY <1>1, <1>2, <1>3 DEF CLayout
<1>5. Proper(f)
  BY <1>4, Form16
<1>6. ASSUME NEW w, OfForm(f, w), ~ Reserved(f, w), Exact(f, w) PROVE Result(w) = Meaning(f, w)
  <2>1. Word16(f, 1, 3, fixed, w)
    BY <1>4, <1>6, Form16
  <2>2. w \in SUBSET (0 .. 31) /\ w \in SUBSET Int /\ Bits(w, 2, 0) = 1 /\ CompressedFunct3(w) = 3
    BY <2>1 DEF Word16
  <2>3. Takes(f, w, Addi16SpImm(w))
    BY <1>1, <2>2, Takes16Sp
  <2>4. Meaning(f, w) = Insn("add", 64, 2, 2, 0, 0, Addi16SpImm(w))
    BY <1>1, <2>2, <2>3, Registers DEF Takes
  <2>5. RD(w) = 2
    <3>1. \A j \in 0 .. 4 : 7 + j \in w <=> j \in BitsOf(2)
      <4> TAKE j \in 0 .. 4
      <4>1. 7 + j \in 2 .. 12 /\ 7 + j \notin Varying(f)
        BY <1>2
      <4>2. 7 + j \in At(2, 7) <=> j \in BitsOf(2)
        BY AtIn, (7 + j) - 7 = j
      <4> QED  BY <2>1, <4>1, <4>2 DEF Word16, fixed
    <3>2. Bits(w, 5, 7) = 2
      BY ONLY <2>2, <3>1, FiveBits, 2 \in 0 .. 31, 7 \in Nat
    <3> QED  BY <3>2 DEF RD
  <2>6. Result(w) = quadrant1(w)
    BY <2>2, Quadrants
  <2>7. quadrant1(w) = Insn("add", 64, 2, 2, 0, 0, Addi16SpImm(w))
    BY <2>2, Dispatch1, <2>5 DEF Update
  <2> QED  BY <2>4, <2>6, <2>7
<1> QED  BY <1>5, <1>6 DEF Decodes, f

LEMMA CLuiDecodes ==
  Decodes(C("lui", 64, 1, 3, {}, Rd, X(0), X(0), And(Run(12, 5, 2), Run(17, 1, 12)), TRUE))
<1> DEFINE f == C("lui", 64, 1, 3, {}, Rd, X(0), X(0), And(Run(12, 5, 2), Run(17, 1, 12)), TRUE)
           fixed == {}
<1>1. /\ f.op = "lui" /\ f.n = 64 /\ f.size = 2 /\ f.ones = At(1, 0) \cup At(3, 13) \cup fixed
      /\ f.rd = Rd /\ f.rs1 = X(0) /\ f.rs2 = X(0) /\ f.rs3 = X(0)
      /\ f.imm = And(Run(12, 5, 2), Run(17, 1, 12)) /\ f.signed = TRUE /\ f.free = {}
  BY DEF C, Form
<1>2. f \in Compressed
  BY DEF Compressed, Quadrant1
<1> HIDE DEF f
<1>3. Varying(f) = 7 .. 11 \cup 2 .. 6 \cup 12 .. 12
  <2>1. Ran(f.imm) = 2 .. 6 \cup 12 .. 12
    BY <1>1, TakesCLui
  <2> QED  BY <1>1, <2>1, Fields DEF Varying
<1>4. fixed = {}
  OBVIOUS
<1> HIDE DEF fixed
<1>5. CLayout(f, 1, 3, fixed)
  BY <1>1, <1>3, <1>4 DEF CLayout
<1>6. Proper(f)
  BY <1>5, Form16
<1>7. ASSUME NEW w, OfForm(f, w), ~ Reserved(f, w), Exact(f, w) PROVE Result(w) = Meaning(f, w)
  <2>1. Word16(f, 1, 3, fixed, w)
    BY <1>5, <1>7, Form16
  <2>2. w \in SUBSET (0 .. 31) /\ w \in SUBSET Int /\ Bits(w, 2, 0) = 1 /\ CompressedFunct3(w) = 3
    BY <2>1 DEF Word16
  <2>3. Takes(f, w, LuiImm(w))
    BY <1>1, <2>2, TakesCLui
  <2>4. Meaning(f, w) = Insn("lui", 64, RD(w), 0, 0, 0, LuiImm(w))
    BY <1>1, <2>2, <2>3, Registers DEF Takes
  <2>5. RD(w) \notin {0, 2}
    <3>1. Meaning(f, w).op = "lui" /\ Meaning(f, w).rd = RD(w)
      BY <2>4 DEF Insn
    <3> QED  BY <1>2, <1>7, <3>1 DEF Reserved
  <2>6. Result(w) = quadrant1(w)
    BY <2>2, Quadrants
  <2>7. quadrant1(w) = Insn("lui", 64, RD(w), 0, 0, 0, LuiImm(w))
    BY <2>2, Dispatch1, <2>5
  <2> QED  BY <2>4, <2>6, <2>7
<1> QED  BY <1>6, <1>7 DEF Decodes, f

LEMMA CSrliDecodes ==
  Decodes(C("srl", 64, 1, 4, {}, Low7, Low7, X(0), CImm, FALSE))
<1> DEFINE f == C("srl", 64, 1, 4, {}, Low7, Low7, X(0), CImm, FALSE)
           fixed == {}
<1>1. /\ f.op = "srl" /\ f.n = 64 /\ f.size = 2 /\ f.ones = At(1, 0) \cup At(4, 13) \cup fixed
      /\ f.rd = Low7 /\ f.rs1 = Low7 /\ f.rs2 = X(0) /\ f.rs3 = X(0)
      /\ f.imm = CImm /\ f.signed = FALSE /\ f.free = {}
  BY DEF C, Form
<1> HIDE DEF f
<1>2. Varying(f) = 7 .. 9 \cup 2 .. 6 \cup 12 .. 12
  <2>1. Ran(f.imm) = 2 .. 6 \cup 12 .. 12
    BY <1>1, TakesCShamt
  <2> QED  BY <1>1, <2>1, Fields DEF Varying
<1>3. fixed = {}
  OBVIOUS
<1> HIDE DEF fixed
<1>4. CLayout(f, 1, 4, fixed)
  BY <1>1, <1>2, <1>3 DEF CLayout
<1>5. Proper(f)
  BY <1>4, Form16
<1>6. ASSUME NEW w, OfForm(f, w), ~ Reserved(f, w), Exact(f, w) PROVE Result(w) = Meaning(f, w)
  <2>1. Word16(f, 1, 4, fixed, w)
    BY <1>4, <1>6, Form16
  <2>2. w \in SUBSET (0 .. 31) /\ w \in SUBSET Int /\ Bits(w, 2, 0) = 1 /\ CompressedFunct3(w) = 4
    BY <2>1 DEF Word16
  <2>3. Takes(f, w, CompressedShamt(w))
    BY <1>1, <2>2, TakesCShamt
  <2>4. Meaning(f, w) = Insn("srl", 64, CompressedRs1(w), CompressedRs1(w), 0, 0,
        CompressedShamt(w))
    BY <1>1, <2>2, <2>3, Registers DEF Takes
  <2>5. CompressedFunct2(w) = 0
    <3>1. /\ 10 \in 2 .. 12 /\ 11 \in 2 .. 12
          /\ 10 \notin Varying(f) /\ 11 \notin Varying(f)
      BY <1>2
    <3>2. (10 \in w <=> 10 \in fixed) /\ (11 \in w <=> 11 \in fixed)
      BY <2>1, <3>1 DEF Word16
    <3>3. 10 \notin w /\ 11 \notin w
      BY <1>3, <3>2
    <3> QED  BY <2>2, <3>3, ShortFields
  <2>6. Result(w) = quadrant1(w)
    BY <2>2, Quadrants
  <2>7. quadrant1(w) = Insn("srl", 64, CompressedRs1(w), CompressedRs1(w), 0, 0, CompressedShamt(w))
    BY <2>2, Dispatch1, <2>5 DEF q1op4, Update
  <2> QED  BY <2>4, <2>6, <2>7
<1> QED  BY <1>5, <1>6 DEF Decodes, f

LEMMA CSraiDecodes ==
  Decodes(C("sra", 64, 1, 4, At(1, 10), Low7, Low7, X(0), CImm, FALSE))
<1> DEFINE f == C("sra", 64, 1, 4, At(1, 10), Low7, Low7, X(0), CImm, FALSE)
           fixed == At(1, 10)
<1>1. /\ f.op = "sra" /\ f.n = 64 /\ f.size = 2 /\ f.ones = At(1, 0) \cup At(4, 13) \cup fixed
      /\ f.rd = Low7 /\ f.rs1 = Low7 /\ f.rs2 = X(0) /\ f.rs3 = X(0)
      /\ f.imm = CImm /\ f.signed = FALSE /\ f.free = {}
  BY DEF C, Form
<1> HIDE DEF f
<1>2. Varying(f) = 7 .. 9 \cup 2 .. 6 \cup 12 .. 12
  <2>1. Ran(f.imm) = 2 .. 6 \cup 12 .. 12
    BY <1>1, TakesCShamt
  <2> QED  BY <1>1, <2>1, Fields DEF Varying
<1>3. fixed = {10}
  BY SmallBits
<1> HIDE DEF fixed
<1>4. CLayout(f, 1, 4, fixed)
  BY <1>1, <1>2, <1>3 DEF CLayout
<1>5. Proper(f)
  BY <1>4, Form16
<1>6. ASSUME NEW w, OfForm(f, w), ~ Reserved(f, w), Exact(f, w) PROVE Result(w) = Meaning(f, w)
  <2>1. Word16(f, 1, 4, fixed, w)
    BY <1>4, <1>6, Form16
  <2>2. w \in SUBSET (0 .. 31) /\ w \in SUBSET Int /\ Bits(w, 2, 0) = 1 /\ CompressedFunct3(w) = 4
    BY <2>1 DEF Word16
  <2>3. Takes(f, w, CompressedShamt(w))
    BY <1>1, <2>2, TakesCShamt
  <2>4. Meaning(f, w) = Insn("sra", 64, CompressedRs1(w), CompressedRs1(w), 0, 0,
        CompressedShamt(w))
    BY <1>1, <2>2, <2>3, Registers DEF Takes
  <2>5. CompressedFunct2(w) = 1
    <3>1. /\ 10 \in 2 .. 12 /\ 11 \in 2 .. 12
          /\ 10 \notin Varying(f) /\ 11 \notin Varying(f)
      BY <1>2
    <3>2. (10 \in w <=> 10 \in fixed) /\ (11 \in w <=> 11 \in fixed)
      BY <2>1, <3>1 DEF Word16
    <3>3. 10 \in w /\ 11 \notin w
      BY <1>3, <3>2
    <3> QED  BY <2>2, <3>3, ShortFields
  <2>6. Result(w) = quadrant1(w)
    BY <2>2, Quadrants
  <2>7. quadrant1(w) = Insn("sra", 64, CompressedRs1(w), CompressedRs1(w), 0, 0, CompressedShamt(w))
    BY <2>2, Dispatch1, <2>5 DEF q1op4, Update
  <2> QED  BY <2>4, <2>6, <2>7
<1> QED  BY <1>5, <1>6 DEF Decodes, f

LEMMA CAndiDecodes ==
  Decodes(C("and", 64, 1, 4, At(2, 10), Low7, Low7, X(0), CImm, TRUE))
<1> DEFINE f == C("and", 64, 1, 4, At(2, 10), Low7, Low7, X(0), CImm, TRUE)
           fixed == At(2, 10)
<1>1. /\ f.op = "and" /\ f.n = 64 /\ f.size = 2 /\ f.ones = At(1, 0) \cup At(4, 13) \cup fixed
      /\ f.rd = Low7 /\ f.rs1 = Low7 /\ f.rs2 = X(0) /\ f.rs3 = X(0)
      /\ f.imm = CImm /\ f.signed = TRUE /\ f.free = {}
  BY DEF C, Form
<1> HIDE DEF f
<1>2. Varying(f) = 7 .. 9 \cup 2 .. 6 \cup 12 .. 12
  <2>1. Ran(f.imm) = 2 .. 6 \cup 12 .. 12
    BY <1>1, TakesImm6
  <2> QED  BY <1>1, <2>1, Fields DEF Varying
<1>3. fixed = {11}
  BY SmallBits, 10 + 1 = 11
<1> HIDE DEF fixed
<1>4. CLayout(f, 1, 4, fixed)
  BY <1>1, <1>2, <1>3 DEF CLayout
<1>5. Proper(f)
  BY <1>4, Form16
<1>6. ASSUME NEW w, OfForm(f, w), ~ Reserved(f, w), Exact(f, w) PROVE Result(w) = Meaning(f, w)
  <2>1. Word16(f, 1, 4, fixed, w)
    BY <1>4, <1>6, Form16
  <2>2. w \in SUBSET (0 .. 31) /\ w \in SUBSET Int /\ Bits(w, 2, 0) = 1 /\ CompressedFunct3(w) = 4
    BY <2>1 DEF Word16
  <2>3. Takes(f, w, Imm6(w))
    BY <1>1, <2>2, TakesImm6
  <2>4. Meaning(f, w) = Insn("and", 64, CompressedRs1(w), CompressedRs1(w), 0, 0, Imm6(w))
    BY <1>1, <2>2, <2>3, Registers DEF Takes
  <2>5. CompressedFunct2(w) = 2
    <3>1. /\ 10 \in 2 .. 12 /\ 11 \in 2 .. 12
          /\ 10 \notin Varying(f) /\ 11 \notin Varying(f)
      BY <1>2
    <3>2. (10 \in w <=> 10 \in fixed) /\ (11 \in w <=> 11 \in fixed)
      BY <2>1, <3>1 DEF Word16
    <3>3. 10 \notin w /\ 11 \in w
      BY <1>3, <3>2
    <3> QED  BY <2>2, <3>3, ShortFields
  <2>6. Result(w) = quadrant1(w)
    BY <2>2, Quadrants
  <2>7. quadrant1(w) = Insn("and", 64, CompressedRs1(w), CompressedRs1(w), 0, 0, Imm6(w))
    BY <2>2, Dispatch1, <2>5 DEF q1op4, Update
  <2> QED  BY <2>4, <2>6, <2>7
<1> QED  BY <1>5, <1>6 DEF Decodes, f

LEMMA CRegisters64Decodes ==
  \A k \in 0 .. 3 :
    Decodes(C(<<"sub", "xor", "or", "and">>[k + 1], 64, 1, 4, At(3, 10) \cup At(k, 5), Low7, Low7,
    Low2, NoImm, FALSE))
<1> TAKE k \in 0 .. 3
<1> DEFINE f == C(<<"sub", "xor", "or", "and">>[k + 1], 64, 1, 4, At(3, 10) \cup At(k, 5), Low7,
                Low7, Low2, NoImm, FALSE)
           fixed == At(3, 10) \cup At(k, 5)
<1>1. k \in {0, 1, 2, 3}
  OBVIOUS
<1>2. /\ f.op = <<"sub", "xor", "or", "and">>[k + 1] /\ f.n = 64 /\ f.size = 2 /\ f.ones = At(1, 0)
         \cup At(4, 13) \cup fixed
      /\ f.rd = Low7 /\ f.rs1 = Low7 /\ f.rs2 = Low2 /\ f.rs3 = X(0)
      /\ f.imm = NoImm /\ f.signed = FALSE /\ f.free = {}
  BY DEF C, Form
<1> HIDE DEF f
<1>3. Varying(f) = 7 .. 9 \cup 2 .. 4
  <2>1. Ran(f.imm) = {}
    BY <1>1, <1>2, TakesNone
  <2> QED  BY <1>2, <2>1, Fields DEF Varying
<1>4. fixed = {10, 11} \cup (IF k \in {1, 3} THEN {5} ELSE {})
      \cup (IF k \in {2, 3} THEN {6} ELSE {})
  BY <1>1, SmallBits, 10 + 1 = 11, 10 + 2 = 12, 5 + 1 = 6
<1> HIDE DEF fixed
<1>5. CLayout(f, 1, 4, fixed)
  BY <1>1, <1>2, <1>3, <1>4 DEF CLayout
<1>6. Proper(f)
  BY <1>5, Form16
<1>7. ASSUME NEW w, OfForm(f, w), ~ Reserved(f, w), Exact(f, w) PROVE Result(w) = Meaning(f, w)
  <2>1. Word16(f, 1, 4, fixed, w)
    BY <1>5, <1>7, Form16
  <2>2. w \in SUBSET (0 .. 31) /\ w \in SUBSET Int /\ Bits(w, 2, 0) = 1 /\ CompressedFunct3(w) = 4
    BY <2>1 DEF Word16
  <2>3. Takes(f, w, {})
    BY <1>1, <1>2, <2>2, TakesNone
  <2>4. Meaning(f, w) = Insn(<<"sub", "xor", "or", "and">>[k + 1], 64, CompressedRs1(w),
        CompressedRs1(w), CompressedRs2(w), 0, {})
    BY <1>2, <2>2, <2>3, Registers DEF Takes
  <2>5. CompressedFunct2(w) = 3 /\ Bits(w, 1, 12) = 0 /\ Bits(w, 2, 5) = k
    <3>1. \A j \in {5, 6, 10, 11, 12} : j \in w <=> j \in fixed
      BY <1>3, <2>1 DEF Word16
    <3>2. /\ 10 \in w /\ 11 \in w
          /\ 12 \notin w
          /\ 5 \in w <=> k \in {1, 3}
          /\ 6 \in w <=> k \in {2, 3}
      BY <1>4, <3>1
    <3>3. CompressedFunct2(w) = 3
      BY <2>2, <3>2, ShortFields
    <3>4. Bits(w, 1, 12) = 0
      BY <2>2, <3>2, ShortFields
    <3>5. /\ (5 \notin w /\ 6 \notin w /\ k = 0) \/ (5 \in w /\ 6 \notin w /\ k = 1)
             \/ (5 \notin w /\ 6 \in w /\ k = 2) \/ (5 \in w /\ 6 \in w /\ k = 3)
      BY <1>1, <3>2
    <3>6. Bits(w, 2, 5) = k
      BY <2>2, <3>5, ShortFields
    <3> QED  BY <3>3, <3>4, <3>6
  <2>6. Result(w) = quadrant1(w)
    BY <1>1, <2>2, Quadrants
  <2>7. quadrant1(w) = Insn(<<"sub", "xor", "or", "and">>[k + 1], 64, CompressedRs1(w),
        CompressedRs1(w), CompressedRs2(w), 0, {})
    BY <1>1, <2>2, Dispatch1, <2>5 DEF q1op4, Update
  <2> QED  BY <2>4, <2>6, <2>7
<1> QED  BY <1>6, <1>7 DEF Decodes, f

LEMMA CRegisters32Decodes ==
  \A k \in 0 .. 1 :
    Decodes(C(<<"sub", "add">>[k + 1], 32, 1, 4, At(7, 10) \cup At(k, 5), Low7, Low7, Low2, NoImm,
    FALSE))
<1> TAKE k \in 0 .. 1
<1> DEFINE f == C(<<"sub", "add">>[k + 1], 32, 1, 4, At(7, 10) \cup At(k, 5), Low7, Low7, Low2,
                NoImm, FALSE)
           fixed == At(7, 10) \cup At(k, 5)
<1>1. k \in {0, 1}
  OBVIOUS
<1>2. /\ f.op = <<"sub", "add">>[k + 1] /\ f.n = 32 /\ f.size = 2 /\ f.ones = At(1, 0)
         \cup At(4, 13) \cup fixed
      /\ f.rd = Low7 /\ f.rs1 = Low7 /\ f.rs2 = Low2 /\ f.rs3 = X(0)
      /\ f.imm = NoImm /\ f.signed = FALSE /\ f.free = {}
  BY DEF C, Form
<1> HIDE DEF f
<1>3. Varying(f) = 7 .. 9 \cup 2 .. 4
  <2>1. Ran(f.imm) = {}
    BY <1>1, <1>2, TakesNone
  <2> QED  BY <1>2, <2>1, Fields DEF Varying
<1>4. fixed = {10, 11} \cup {12} \cup (IF k \in {1, 3} THEN {5} ELSE {})
      \cup (IF k \in {2, 3} THEN {6} ELSE {})
  BY <1>1, SmallBits, 10 + 1 = 11, 10 + 2 = 12, 5 + 1 = 6
<1> HIDE DEF fixed
<1>5. CLayout(f, 1, 4, fixed)
  BY <1>1, <1>2, <1>3, <1>4 DEF CLayout
<1>6. Proper(f)
  BY <1>5, Form16
<1>7. ASSUME NEW w, OfForm(f, w), ~ Reserved(f, w), Exact(f, w) PROVE Result(w) = Meaning(f, w)
  <2>1. Word16(f, 1, 4, fixed, w)
    BY <1>5, <1>7, Form16
  <2>2. w \in SUBSET (0 .. 31) /\ w \in SUBSET Int /\ Bits(w, 2, 0) = 1 /\ CompressedFunct3(w) = 4
    BY <2>1 DEF Word16
  <2>3. Takes(f, w, {})
    BY <1>1, <1>2, <2>2, TakesNone
  <2>4. Meaning(f, w) = Insn(<<"sub", "add">>[k + 1], 32, CompressedRs1(w), CompressedRs1(w),
        CompressedRs2(w), 0, {})
    BY <1>2, <2>2, <2>3, Registers DEF Takes
  <2>5. CompressedFunct2(w) = 3 /\ Bits(w, 1, 12) = 1 /\ Bits(w, 2, 5) = k
    <3>1. \A j \in {5, 6, 10, 11, 12} : j \in w <=> j \in fixed
      BY <1>3, <2>1 DEF Word16
    <3>2. /\ 10 \in w /\ 11 \in w
          /\ 12 \in w
          /\ 5 \in w <=> k \in {1, 3}
          /\ 6 \in w <=> k \in {2, 3}
      BY <1>4, <3>1
    <3>3. CompressedFunct2(w) = 3
      BY <2>2, <3>2, ShortFields
    <3>4. Bits(w, 1, 12) = 1
      BY <2>2, <3>2, ShortFields
    <3>5. /\ (5 \notin w /\ 6 \notin w /\ k = 0) \/ (5 \in w /\ 6 \notin w /\ k = 1)
             \/ (5 \notin w /\ 6 \in w /\ k = 2) \/ (5 \in w /\ 6 \in w /\ k = 3)
      BY <1>1, <3>2
    <3>6. Bits(w, 2, 5) = k
      BY <2>2, <3>5, ShortFields
    <3> QED  BY <3>3, <3>4, <3>6
  <2>6. Result(w) = quadrant1(w)
    BY <1>1, <2>2, Quadrants
  <2>7. quadrant1(w) = Insn(<<"sub", "add">>[k + 1], 32, CompressedRs1(w), CompressedRs1(w),
        CompressedRs2(w), 0, {})
    BY <1>1, <2>2, Dispatch1, <2>5 DEF q1op4, Update
  <2> QED  BY <2>4, <2>6, <2>7
<1> QED  BY <1>6, <1>7 DEF Decodes, f

LEMMA CJumpDecodes ==
  Decodes(C("jal", 64, 1, 5, {}, X(0), X(0), X(0), ImmCJ, TRUE))
<1> DEFINE f == C("jal", 64, 1, 5, {}, X(0), X(0), X(0), ImmCJ, TRUE)
           fixed == {}
<1>1. /\ f.op = "jal" /\ f.n = 64 /\ f.size = 2 /\ f.ones = At(1, 0) \cup At(5, 13) \cup fixed
      /\ f.rd = X(0) /\ f.rs1 = X(0) /\ f.rs2 = X(0) /\ f.rs3 = X(0)
      /\ f.imm = ImmCJ /\ f.signed = TRUE /\ f.free = {}
  BY DEF C, Form
<1> HIDE DEF f
<1>2. Varying(f) = 2 .. 12
  <2>1. Ran(f.imm) = 2 .. 12
    BY <1>1, TakesCJ
  <2> QED  BY <1>1, <2>1, Fields DEF Varying
<1>3. fixed = {}
  OBVIOUS
<1> HIDE DEF fixed
<1>4. CLayout(f, 1, 5, fixed)
  BY <1>1, <1>2, <1>3 DEF CLayout
<1>5. Proper(f)
  BY <1>4, Form16
<1>6. ASSUME NEW w, OfForm(f, w), ~ Reserved(f, w), Exact(f, w) PROVE Result(w) = Meaning(f, w)
  <2>1. Word16(f, 1, 5, fixed, w)
    BY <1>4, <1>6, Form16
  <2>2. w \in SUBSET (0 .. 31) /\ w \in SUBSET Int /\ Bits(w, 2, 0) = 1 /\ CompressedFunct3(w) = 5
    BY <2>1 DEF Word16
  <2>3. Takes(f, w, JImm(w))
    BY <1>1, <2>2, TakesCJ
  <2>4. Meaning(f, w) = Insn("jal", 64, 0, 0, 0, 0, JImm(w))
    BY <1>1, <2>2, <2>3, Registers DEF Takes
  <2>5. Result(w) = quadrant1(w)
    BY <2>2, Quadrants
  <2>6. quadrant1(w) = Insn("jal", 64, 0, 0, 0, 0, JImm(w))
    BY <2>2, Dispatch1
  <2> QED  BY <2>4, <2>5, <2>6
<1> QED  BY <1>5, <1>6 DEF Decodes, f

LEMMA CBranchesDecodes ==
  \A a \in {<<6, "beq">>, <<7, "bne">>} :
    Decodes(C(a[2], 64, 1, a[1], {}, X(0), Low7, X(0), ImmCB, TRUE))
<1> TAKE a \in {<<6, "beq">>, <<7, "bne">>}
<1> DEFINE f3 == a[1]
           op == a[2]
           f == C(op, 64, 1, f3, {}, X(0), Low7, X(0), ImmCB, TRUE)
           fixed == {}
<1>1. (f3 = 6 /\ op = "beq") \/ (f3 = 7 /\ op = "bne")
  OBVIOUS
<1>2. /\ f.op = op /\ f.n = 64 /\ f.size = 2 /\ f.ones = At(1, 0) \cup At(f3, 13) \cup fixed
      /\ f.rd = X(0) /\ f.rs1 = Low7 /\ f.rs2 = X(0) /\ f.rs3 = X(0)
      /\ f.imm = ImmCB /\ f.signed = TRUE /\ f.free = {}
  BY DEF C, Form
<1> HIDE DEF f, f3, op
<1>3. Varying(f) = 7 .. 9 \cup 2 .. 6 \cup 10 .. 12
  <2>1. Ran(f.imm) = 2 .. 6 \cup 10 .. 12
    BY <1>1, <1>2, TakesCB
  <2> QED  BY <1>2, <2>1, Fields DEF Varying
<1>4. fixed = {}
  OBVIOUS
<1> HIDE DEF fixed
<1>5. CLayout(f, 1, f3, fixed)
  BY <1>1, <1>2, <1>3, <1>4 DEF CLayout
<1>6. Proper(f)
  BY <1>5, Form16
<1>7. ASSUME NEW w, OfForm(f, w), ~ Reserved(f, w), Exact(f, w) PROVE Result(w) = Meaning(f, w)
  <2>1. Word16(f, 1, f3, fixed, w)
    BY <1>5, <1>7, Form16
  <2>2. w \in SUBSET (0 .. 31) /\ w \in SUBSET Int /\ Bits(w, 2, 0) = 1 /\ CompressedFunct3(w) = f3
    BY <2>1 DEF Word16
  <2>3. Takes(f, w, BImm(w))
    BY <1>1, <1>2, <2>2, TakesCB
  <2>4. Meaning(f, w) = Insn(op, 64, 0, CompressedRs1(w), 0, 0, BImm(w))
    BY <1>2, <2>2, <2>3, Registers DEF Takes
  <2>5. Result(w) = quadrant1(w)
    BY <1>1, <2>2, Quadrants
  <2>6. quadrant1(w) = Insn(op, 64, 0, CompressedRs1(w), 0, 0, BImm(w))
    BY <1>1, <2>2, Dispatch1
  <2> QED  BY <2>4, <2>5, <2>6
<1> QED  BY <1>6, <1>7 DEF Decodes, f, f3, op

-----------------------------------------------------------------------------
(* Quadrant 2 *)

LEMMA CSlliDecodes ==
  Decodes(C("sll", 64, 2, 0, {}, Rd, Rd, X(0), CImm, FALSE))
<1> DEFINE f == C("sll", 64, 2, 0, {}, Rd, Rd, X(0), CImm, FALSE)
           fixed == {}
<1>1. /\ f.op = "sll" /\ f.n = 64 /\ f.size = 2 /\ f.ones = At(2, 0) \cup At(0, 13) \cup fixed
      /\ f.rd = Rd /\ f.rs1 = Rd /\ f.rs2 = X(0) /\ f.rs3 = X(0)
      /\ f.imm = CImm /\ f.signed = FALSE /\ f.free = {}
  BY DEF C, Form
<1> HIDE DEF f
<1>2. Varying(f) = 7 .. 11 \cup 2 .. 6 \cup 12 .. 12
  <2>1. Ran(f.imm) = 2 .. 6 \cup 12 .. 12
    BY <1>1, TakesCShamt
  <2> QED  BY <1>1, <2>1, Fields DEF Varying
<1>3. fixed = {}
  OBVIOUS
<1> HIDE DEF fixed
<1>4. CLayout(f, 2, 0, fixed)
  BY <1>1, <1>2, <1>3 DEF CLayout
<1>5. Proper(f)
  BY <1>4, Form16
<1>6. ASSUME NEW w, OfForm(f, w), ~ Reserved(f, w), Exact(f, w) PROVE Result(w) = Meaning(f, w)
  <2>1. Word16(f, 2, 0, fixed, w)
    BY <1>4, <1>6, Form16
  <2>2. w \in SUBSET (0 .. 31) /\ w \in SUBSET Int /\ Bits(w, 2, 0) = 2 /\ CompressedFunct3(w) = 0
    BY <2>1 DEF Word16
  <2>3. Takes(f, w, CompressedShamt(w))
    BY <1>1, <2>2, TakesCShamt
  <2>4. Meaning(f, w) = Insn("sll", 64, RD(w), RD(w), 0, 0, CompressedShamt(w))
    BY <1>1, <2>2, <2>3, Registers DEF Takes
  <2>5. Result(w) = quadrant2(w)
    BY <2>2, Quadrants
  <2>6. quadrant2(w) = Insn("sll", 64, RD(w), RD(w), 0, 0, CompressedShamt(w))
    BY <2>2, Dispatch2 DEF Update
  <2> QED  BY <2>4, <2>5, <2>6
<1> QED  BY <1>5, <1>6 DEF Decodes, f

LEMMA CJrDecodes ==
  Decodes(C("jalr", 64, 2, 4, {}, X(0), Rd, X(0), NoImm, FALSE))
<1> DEFINE f == C("jalr", 64, 2, 4, {}, X(0), Rd, X(0), NoImm, FALSE)
           fixed == {}
<1>1. /\ f.op = "jalr" /\ f.n = 64 /\ f.size = 2 /\ f.ones = At(2, 0) \cup At(4, 13) \cup fixed
      /\ f.rd = X(0) /\ f.rs1 = Rd /\ f.rs2 = X(0) /\ f.rs3 = X(0)
      /\ f.imm = NoImm /\ f.signed = FALSE /\ f.free = {}
  BY DEF C, Form
<1> HIDE DEF f
<1>2. Varying(f) = 7 .. 11
  <2>1. Ran(f.imm) = {}
    BY <1>1, TakesNone
  <2> QED  BY <1>1, <2>1, Fields DEF Varying
<1>3. fixed = {}
  OBVIOUS
<1> HIDE DEF fixed
<1>4. CLayout(f, 2, 4, fixed)
  BY <1>1, <1>2, <1>3 DEF CLayout
<1>5. Proper(f)
  BY <1>4, Form16
<1>6. ASSUME NEW w, OfForm(f, w), ~ Reserved(f, w), Exact(f, w) PROVE Result(w) = Meaning(f, w)
  <2>1. Word16(f, 2, 4, fixed, w)
    BY <1>4, <1>6, Form16
  <2>2. w \in SUBSET (0 .. 31) /\ w \in SUBSET Int /\ Bits(w, 2, 0) = 2 /\ CompressedFunct3(w) = 4
    BY <2>1 DEF Word16
  <2>3. Takes(f, w, {})
    BY <1>1, <2>2, TakesNone
  <2>4. Meaning(f, w) = Insn("jalr", 64, 0, RD(w), 0, 0, {})
    BY <1>1, <2>2, <2>3, Registers DEF Takes
  <2>5. Bits(w, 1, 12) = 0
    <3>1. 12 \in w <=> 12 \in fixed
      BY <1>2, <2>1 DEF Word16
    <3> QED  BY <1>3, <2>2, <3>1, ShortFields
  <2>6. Bits(w, 5, 2) = 0
    <3>1. \A j \in 0 .. 4 : 2 + j \in w <=> j \in BitsOf(0)
      <4> TAKE j \in 0 .. 4
      <4>1. 2 + j \in 2 .. 12 /\ 2 + j \notin Varying(f) /\ 2 + j \notin fixed
        BY <1>2, <1>3
      <4> QED  BY <2>1, <4>1, BitsOfZero DEF Word16
    <3> QED  BY ONLY <2>2, <3>1, FiveBits, 0 \in 0 .. 31, 2 \in Nat
  <2>7. Result(w) = quadrant2(w)
    BY <2>2, Quadrants
  <2>8. quadrant2(w) = Insn("jalr", 64, 0, RD(w), 0, 0, {})
    BY <2>2, Dispatch2, <2>5, <2>6
  <2> QED  BY <2>4, <2>7, <2>8
<1> QED  BY <1>5, <1>6 DEF Decodes, f

LEMMA CJalrDecodes ==
  Decodes(C("jalr", 64, 2, 4, {12}, X(1), Rd, X(0), NoImm, FALSE))
<1> DEFINE f == C("jalr", 64, 2, 4, {12}, X(1), Rd, X(0), NoImm, FALSE)
           fixed == {12}
<1>1. /\ f.op = "jalr" /\ f.n = 64 /\ f.size = 2 /\ f.ones = At(2, 0) \cup At(4, 13) \cup fixed
      /\ f.rd = X(1) /\ f.rs1 = Rd /\ f.rs2 = X(0) /\ f.rs3 = X(0)
      /\ f.imm = NoImm /\ f.signed = FALSE /\ f.free = {}
  BY DEF C, Form
<1> HIDE DEF f
<1>2. Varying(f) = 7 .. 11
  <2>1. Ran(f.imm) = {}
    BY <1>1, TakesNone
  <2> QED  BY <1>1, <2>1, Fields DEF Varying
<1>3. fixed = {12}
  OBVIOUS
<1> HIDE DEF fixed
<1>4. CLayout(f, 2, 4, fixed)
  BY <1>1, <1>2, <1>3 DEF CLayout
<1>5. Proper(f)
  BY <1>4, Form16
<1>6. ASSUME NEW w, OfForm(f, w), ~ Reserved(f, w), Exact(f, w) PROVE Result(w) = Meaning(f, w)
  <2>1. Word16(f, 2, 4, fixed, w)
    BY <1>4, <1>6, Form16
  <2>2. w \in SUBSET (0 .. 31) /\ w \in SUBSET Int /\ Bits(w, 2, 0) = 2 /\ CompressedFunct3(w) = 4
    BY <2>1 DEF Word16
  <2>3. Takes(f, w, {})
    BY <1>1, <2>2, TakesNone
  <2>4. Meaning(f, w) = Insn("jalr", 64, 1, RD(w), 0, 0, {})
    BY <1>1, <2>2, <2>3, Registers DEF Takes
  <2>5. Bits(w, 1, 12) = 1
    <3>1. 12 \in w <=> 12 \in fixed
      BY <1>2, <2>1 DEF Word16
    <3> QED  BY <1>3, <2>2, <3>1, ShortFields
  <2>6. Bits(w, 5, 2) = 0
    <3>1. \A j \in 0 .. 4 : 2 + j \in w <=> j \in BitsOf(0)
      <4> TAKE j \in 0 .. 4
      <4>1. 2 + j \in 2 .. 12 /\ 2 + j \notin Varying(f) /\ 2 + j \notin fixed
        BY <1>2, <1>3
      <4> QED  BY <2>1, <4>1, BitsOfZero DEF Word16
    <3> QED  BY ONLY <2>2, <3>1, FiveBits, 0 \in 0 .. 31, 2 \in Nat
  <2>7. Result(w) = quadrant2(w)
    BY <2>2, Quadrants
  <2>8. quadrant2(w) = Insn("jalr", 64, 1, RD(w), 0, 0, {})
    BY <2>2, Dispatch2, <2>5, <2>6
  <2> QED  BY <2>4, <2>7, <2>8
<1> QED  BY <1>5, <1>6 DEF Decodes, f

LEMMA CMvDecodes ==
  Decodes(C("add", 64, 2, 4, {}, Rd, X(0), CRs2, NoImm, FALSE))
<1> DEFINE f == C("add", 64, 2, 4, {}, Rd, X(0), CRs2, NoImm, FALSE)
           fixed == {}
<1>1. /\ f.op = "add" /\ f.n = 64 /\ f.size = 2 /\ f.ones = At(2, 0) \cup At(4, 13) \cup fixed
      /\ f.rd = Rd /\ f.rs1 = X(0) /\ f.rs2 = CRs2 /\ f.rs3 = X(0)
      /\ f.imm = NoImm /\ f.signed = FALSE /\ f.free = {}
  BY DEF C, Form
<1>2. f \in Compressed
  BY DEF Compressed, Quadrant2
<1> HIDE DEF f
<1>3. Varying(f) = 7 .. 11 \cup 2 .. 6
  <2>1. Ran(f.imm) = {}
    BY <1>1, TakesNone
  <2> QED  BY <1>1, <2>1, Fields DEF Varying
<1>4. fixed = {}
  OBVIOUS
<1> HIDE DEF fixed
<1>5. CLayout(f, 2, 4, fixed)
  BY <1>1, <1>3, <1>4 DEF CLayout
<1>6. Proper(f)
  BY <1>5, Form16
<1>7. ASSUME NEW w, OfForm(f, w), ~ Reserved(f, w), Exact(f, w) PROVE Result(w) = Meaning(f, w)
  <2>1. Word16(f, 2, 4, fixed, w)
    BY <1>5, <1>7, Form16
  <2>2. w \in SUBSET (0 .. 31) /\ w \in SUBSET Int /\ Bits(w, 2, 0) = 2 /\ CompressedFunct3(w) = 4
    BY <2>1 DEF Word16
  <2>3. Takes(f, w, {})
    BY <1>1, <2>2, TakesNone
  <2>4. Meaning(f, w) = Insn("add", 64, RD(w), 0, Bits(w, 5, 2), 0, {})
    BY <1>1, <2>2, <2>3, Registers DEF Takes
  <2>5. Bits(w, 1, 12) = 0
    <3>1. 12 \in w <=> 12 \in fixed
      BY <1>3, <2>1 DEF Word16
    <3> QED  BY <1>4, <2>2, <3>1, ShortFields
  <2>6. Bits(w, 5, 2) # 0
    <3>1. Meaning(f, w).op = "add" /\ Meaning(f, w).rs2 = Bits(w, 5, 2)
      BY <2>4 DEF Insn
    <3> QED  BY <1>1, <1>2, <1>7, <3>1 DEF Reserved
  <2>7. Result(w) = quadrant2(w)
    BY <2>2, Quadrants
  <2>8. quadrant2(w) = Insn("add", 64, RD(w), 0, Bits(w, 5, 2), 0, {})
    BY <2>2, Dispatch2, <2>5, <2>6
  <2> QED  BY <2>4, <2>7, <2>8
<1> QED  BY <1>6, <1>7 DEF Decodes, f

LEMMA CAddDecodes ==
  Decodes(C("add", 64, 2, 4, {12}, Rd, Rd, CRs2, NoImm, FALSE))
<1> DEFINE f == C("add", 64, 2, 4, {12}, Rd, Rd, CRs2, NoImm, FALSE)
           fixed == {12}
<1>1. /\ f.op = "add" /\ f.n = 64 /\ f.size = 2 /\ f.ones = At(2, 0) \cup At(4, 13) \cup fixed
      /\ f.rd = Rd /\ f.rs1 = Rd /\ f.rs2 = CRs2 /\ f.rs3 = X(0)
      /\ f.imm = NoImm /\ f.signed = FALSE /\ f.free = {}
  BY DEF C, Form
<1>2. f \in Compressed
  BY DEF Compressed, Quadrant2
<1> HIDE DEF f
<1>3. Varying(f) = 7 .. 11 \cup 2 .. 6
  <2>1. Ran(f.imm) = {}
    BY <1>1, TakesNone
  <2> QED  BY <1>1, <2>1, Fields DEF Varying
<1>4. fixed = {12}
  OBVIOUS
<1> HIDE DEF fixed
<1>5. CLayout(f, 2, 4, fixed)
  BY <1>1, <1>3, <1>4 DEF CLayout
<1>6. Proper(f)
  BY <1>5, Form16
<1>7. ASSUME NEW w, OfForm(f, w), ~ Reserved(f, w), Exact(f, w) PROVE Result(w) = Meaning(f, w)
  <2>1. Word16(f, 2, 4, fixed, w)
    BY <1>5, <1>7, Form16
  <2>2. w \in SUBSET (0 .. 31) /\ w \in SUBSET Int /\ Bits(w, 2, 0) = 2 /\ CompressedFunct3(w) = 4
    BY <2>1 DEF Word16
  <2>3. Takes(f, w, {})
    BY <1>1, <2>2, TakesNone
  <2>4. Meaning(f, w) = Insn("add", 64, RD(w), RD(w), Bits(w, 5, 2), 0, {})
    BY <1>1, <2>2, <2>3, Registers DEF Takes
  <2>5. Bits(w, 1, 12) = 1
    <3>1. 12 \in w <=> 12 \in fixed
      BY <1>3, <2>1 DEF Word16
    <3> QED  BY <1>4, <2>2, <3>1, ShortFields
  <2>6. Bits(w, 5, 2) # 0
    <3>1. Meaning(f, w).op = "add" /\ Meaning(f, w).rs2 = Bits(w, 5, 2)
      BY <2>4 DEF Insn
    <3> QED  BY <1>1, <1>2, <1>7, <3>1 DEF Reserved
  <2>7. Result(w) = quadrant2(w)
    BY <2>2, Quadrants
  <2>8. quadrant2(w) = Insn("add", 64, RD(w), RD(w), Bits(w, 5, 2), 0, {})
    BY <2>2, Dispatch2, <2>5, <2>6
  <2> QED  BY <2>4, <2>7, <2>8
<1> QED  BY <1>6, <1>7 DEF Decodes, f

LEMMA CLoadsSpDecodes ==
  \A a \in {<<1, "fload", 64>>, <<2, "load", 32>>, <<3, "load", 64>>} :
    Decodes(C(a[2], a[3], 2, a[1], {}, Rd, X(2), X(0), ImmLoadSp(a[3]), FALSE))
<1> TAKE a \in {<<1, "fload", 64>>, <<2, "load", 32>>, <<3, "load", 64>>}
<1> DEFINE f3 == a[1]
           op == a[2]
           n == a[3]
           f == C(op, n, 2, f3, {}, Rd, X(2), X(0), ImmLoadSp(n), FALSE)
           fixed == {}
<1>1. \/ (f3 = 1 /\ op = "fload" /\ n = 64) \/ (f3 = 2 /\ op = "load" /\ n = 32)
      \/ (f3 = 3 /\ op = "load" /\ n = 64)
  OBVIOUS
<1>2. /\ f.op = op /\ f.n = n /\ f.size = 2 /\ f.ones = At(2, 0) \cup At(f3, 13) \cup fixed
      /\ f.rd = Rd /\ f.rs1 = X(2) /\ f.rs2 = X(0) /\ f.rs3 = X(0)
      /\ f.imm = ImmLoadSp(n) /\ f.signed = FALSE /\ f.free = {}
  BY DEF C, Form
<1> HIDE DEF f, f3, op, n
<1>3. Varying(f) = 7 .. 11 \cup 2 .. 6 \cup 12 .. 12
  <2>1. Ran(f.imm) = 2 .. 6 \cup 12 .. 12
    BY <1>1, <1>2, TakesLoadSp32, TakesLoadSp64
  <2> QED  BY <1>2, <2>1, Fields DEF Varying
<1>4. fixed = {}
  OBVIOUS
<1> HIDE DEF fixed
<1>5. CLayout(f, 2, f3, fixed)
  BY <1>1, <1>2, <1>3, <1>4 DEF CLayout
<1>6. Proper(f)
  BY <1>5, Form16
<1>7. ASSUME NEW w, OfForm(f, w), ~ Reserved(f, w), Exact(f, w) PROVE Result(w) = Meaning(f, w)
  <2>1. Word16(f, 2, f3, fixed, w)
    BY <1>5, <1>7, Form16
  <2>2. w \in SUBSET (0 .. 31) /\ w \in SUBSET Int /\ Bits(w, 2, 0) = 2 /\ CompressedFunct3(w) = f3
    BY <2>1 DEF Word16
  <2>3. Takes(f, w, (IF n = 32 THEN WordLoadSp(w) ELSE DoubleLoadSp(w)))
    <3>1. f.imm = ImmLoadSp(n) /\ f.signed = FALSE /\ n \in {32, 64} /\ w \in SUBSET (0 .. 31)
      BY <1>1, <1>2, <2>2
    <3>2. n = 32 => Takes(f, w, WordLoadSp(w))
      BY ONLY <3>1, TakesLoadSp32
    <3>3. n = 64 => Takes(f, w, DoubleLoadSp(w))
      BY ONLY <3>1, TakesLoadSp64
    <3> QED  BY ONLY <3>1, <3>2, <3>3
  <2>4. Meaning(f, w) = Insn(op, n, RD(w), 2, 0, 0,
        (IF n = 32 THEN WordLoadSp(w) ELSE DoubleLoadSp(w)))
    BY <1>2, <2>2, <2>3, Registers DEF Takes
  <2>5. Result(w) = quadrant2(w)
    BY <1>1, <2>2, Quadrants
  <2>6. quadrant2(w) = Insn(op, n, RD(w), 2, 0, 0,
        (IF n = 32 THEN WordLoadSp(w) ELSE DoubleLoadSp(w)))
    BY <1>1, <2>2, Dispatch2
  <2> QED  BY <2>4, <2>5, <2>6
<1> QED  BY <1>6, <1>7 DEF Decodes, f, f3, op, n

LEMMA CStoresSpDecodes ==
  \A a \in {<<5, "fstore", 64>>, <<6, "store", 32>>, <<7, "store", 64>>} :
    Decodes(C(a[2], a[3], 2, a[1], {}, X(0), X(2), CRs2, ImmStoreSp(a[3]), FALSE))
<1> TAKE a \in {<<5, "fstore", 64>>, <<6, "store", 32>>, <<7, "store", 64>>}
<1> DEFINE f3 == a[1]
           op == a[2]
           n == a[3]
           f == C(op, n, 2, f3, {}, X(0), X(2), CRs2, ImmStoreSp(n), FALSE)
           fixed == {}
<1>1. \/ (f3 = 5 /\ op = "fstore" /\ n = 64) \/ (f3 = 6 /\ op = "store" /\ n = 32)
      \/ (f3 = 7 /\ op = "store" /\ n = 64)
  OBVIOUS
<1>2. /\ f.op = op /\ f.n = n /\ f.size = 2 /\ f.ones = At(2, 0) \cup At(f3, 13) \cup fixed
      /\ f.rd = X(0) /\ f.rs1 = X(2) /\ f.rs2 = CRs2 /\ f.rs3 = X(0)
      /\ f.imm = ImmStoreSp(n) /\ f.signed = FALSE /\ f.free = {}
  BY DEF C, Form
<1> HIDE DEF f, f3, op, n
<1>3. Varying(f) = 2 .. 6 \cup 7 .. 12
  <2>1. Ran(f.imm) = 7 .. 12
    BY <1>1, <1>2, TakesStoreSp32, TakesStoreSp64
  <2> QED  BY <1>2, <2>1, Fields DEF Varying
<1>4. fixed = {}
  OBVIOUS
<1> HIDE DEF fixed
<1>5. CLayout(f, 2, f3, fixed)
  BY <1>1, <1>2, <1>3, <1>4 DEF CLayout
<1>6. Proper(f)
  BY <1>5, Form16
<1>7. ASSUME NEW w, OfForm(f, w), ~ Reserved(f, w), Exact(f, w) PROVE Result(w) = Meaning(f, w)
  <2>1. Word16(f, 2, f3, fixed, w)
    BY <1>5, <1>7, Form16
  <2>2. w \in SUBSET (0 .. 31) /\ w \in SUBSET Int /\ Bits(w, 2, 0) = 2 /\ CompressedFunct3(w) = f3
    BY <2>1 DEF Word16
  <2>3. Takes(f, w, (IF n = 32 THEN WordStoreSp(w) ELSE DoubleStoreSp(w)))
    <3>1. f.imm = ImmStoreSp(n) /\ f.signed = FALSE /\ n \in {32, 64} /\ w \in SUBSET (0 .. 31)
      BY <1>1, <1>2, <2>2
    <3>2. n = 32 => Takes(f, w, WordStoreSp(w))
      BY ONLY <3>1, TakesStoreSp32
    <3>3. n = 64 => Takes(f, w, DoubleStoreSp(w))
      BY ONLY <3>1, TakesStoreSp64
    <3> QED  BY ONLY <3>1, <3>2, <3>3
  <2>4. Meaning(f, w) = Insn(op, n, 0, 2, Bits(w, 5, 2), 0,
        (IF n = 32 THEN WordStoreSp(w) ELSE DoubleStoreSp(w)))
    BY <1>2, <2>2, <2>3, Registers DEF Takes
  <2>5. Result(w) = quadrant2(w)
    BY <1>1, <2>2, Quadrants
  <2>6. quadrant2(w) = Insn(op, n, 0, 2, Bits(w, 5, 2), 0,
        (IF n = 32 THEN WordStoreSp(w) ELSE DoubleStoreSp(w)))
    BY <1>1, <2>2, Dispatch2
  <2> QED  BY <2>4, <2>5, <2>6
<1> QED  BY <1>6, <1>7 DEF Decodes, f, f3, op, n
-----------------------------------------------------------------------------
(* The encodings with no instruction in them *)

LEMMA IllegalBits == /\ {15} = At(0, 0) \cup At(4, 13) \cup {}
                     /\ \A s : ({0, 15} \cup At(7, 10)) \cup s = At(1, 0) \cup At(4, 13)
                        \cup (At(7, 10) \cup s)
<1>1. (4 \div 2^0) % 2 = 0 /\ (4 \div 2^1) % 2 = 0 /\ (4 \div 2^2) % 2 = 1
  OBVIOUS
<1>2. BitsOf(4) \subseteq 0 .. 2
  BY BitsBelow, 4 \in 0 .. 7
<1>3. BitsOf(4) = {2}
  <2>1. 0 \notin BitsOf(4) /\ 1 \notin BitsOf(4) /\ 2 \in BitsOf(4)
    BY <1>1 DEF BitsOf
  <2> QED  BY <1>2, <2>1
<1>4. At(4, 13) = {15}
  BY <1>3 DEF At
<1>5. At(0, 0) = {} /\ At(1, 0) = {0}
  BY SmallBits
<1> QED  BY <1>4, <1>5

LEMMA CUnused0Decodes ==
  Decodes(Form("illegal", 0, {15}, X(0), X(0), X(0), X(0), NoImm, FALSE, 2 .. 12, 2))
<1> DEFINE f == Form("illegal", 0, {15}, X(0), X(0), X(0), X(0), NoImm, FALSE, 2 .. 12, 2)
           fixed == {}
<1>1. /\ f.op = "illegal" /\ f.n = 0 /\ f.size = 2 /\ f.ones = {15}
      /\ f.rd = X(0) /\ f.rs1 = X(0) /\ f.rs2 = X(0) /\ f.rs3 = X(0)
      /\ f.imm = NoImm /\ f.signed = FALSE /\ f.free = 2 .. 12
  BY DEF C, Form
<1> HIDE DEF f
<1>2. Varying(f) = 2 .. 12
  <2>1. Ran(f.imm) = {}
    BY <1>1, TakesNone
  <2> QED  BY <1>1, <2>1, Fields DEF Varying
<1>3. fixed = {}
  OBVIOUS
<1> HIDE DEF fixed
<1>4. f.ones = At(0, 0) \cup At(4, 13) \cup fixed
  BY <1>1, <1>3, IllegalBits
<1>5. CLayout(f, 0, 4, fixed)
  BY <1>4, <1>1, <1>2, <1>3 DEF CLayout
<1>6. Proper(f)
  BY <1>5, Form16
<1>7. ASSUME NEW w, OfForm(f, w), ~ Reserved(f, w), Exact(f, w) PROVE Result(w) = Meaning(f, w)
  <2>1. Word16(f, 0, 4, fixed, w)
    BY <1>5, <1>7, Form16
  <2>2. w \in SUBSET (0 .. 31) /\ w \in SUBSET Int /\ Bits(w, 2, 0) = 0 /\ CompressedFunct3(w) = 4
    BY <2>1 DEF Word16
  <2>3. Takes(f, w, {})
    BY <1>1, <2>2, TakesNone
  <2>4. Meaning(f, w) = Insn("illegal", 0, 0, 0, 0, 0, {})
    BY <1>1, <2>2, <2>3, Registers DEF Takes
  <2>5. Result(w) = quadrant0(w)
    BY <2>2, Quadrants
  <2>6. quadrant0(w) = Insn("illegal", 0, 0, 0, 0, 0, {})
    BY <2>2, Dispatch0 DEF Illegal
  <2> QED  BY <2>4, <2>5, <2>6
<1> QED  BY <1>6, <1>7 DEF Decodes, f

LEMMA CUnused1Decodes ==
  \A k \in {2, 3} :
    Decodes(Form("illegal", 0, {0, 15} \cup At(7, 10) \cup At(k, 5), X(0), X(0), X(0), X(0), NoImm,
    FALSE, 2 .. 4 \cup 7 .. 9, 2))
<1> TAKE k \in {2, 3}
<1> DEFINE f == Form("illegal", 0, {0, 15} \cup At(7, 10) \cup At(k, 5), X(0), X(0), X(0), X(0),
                NoImm, FALSE, 2 .. 4 \cup 7 .. 9, 2)
           fixed == At(7, 10) \cup At(k, 5)
<1>1. k \in {2, 3}
  OBVIOUS
<1>2. /\ f.op = "illegal" /\ f.n = 0 /\ f.size = 2 /\ f.ones = ({0, 15} \cup At(7, 10))
         \cup At(k, 5)
      /\ f.rd = X(0) /\ f.rs1 = X(0) /\ f.rs2 = X(0) /\ f.rs3 = X(0)
      /\ f.imm = NoImm /\ f.signed = FALSE /\ f.free = 2 .. 4 \cup 7 .. 9
  BY DEF C, Form
<1> HIDE DEF f
<1>3. Varying(f) = 2 .. 4 \cup 7 .. 9
  <2>1. Ran(f.imm) = {}
    BY <1>1, <1>2, TakesNone
  <2> QED  BY <1>2, <2>1, Fields DEF Varying
<1>4. fixed = {10, 11} \cup {12} \cup (IF k \in {1, 3} THEN {5} ELSE {})
      \cup (IF k \in {2, 3} THEN {6} ELSE {})
  BY <1>1, SmallBits, 10 + 1 = 11, 10 + 2 = 12, 5 + 1 = 6
<1>5. f.ones = At(1, 0) \cup At(4, 13) \cup fixed
  BY <1>2, IllegalBits
<1> HIDE DEF fixed
<1>6. CLayout(f, 1, 4, fixed)
  BY <1>5, <1>1, <1>2, <1>3, <1>4 DEF CLayout
<1>7. Proper(f)
  BY <1>6, Form16
<1>8. ASSUME NEW w, OfForm(f, w), ~ Reserved(f, w), Exact(f, w) PROVE Result(w) = Meaning(f, w)
  <2>1. Word16(f, 1, 4, fixed, w)
    BY <1>6, <1>8, Form16
  <2>2. w \in SUBSET (0 .. 31) /\ w \in SUBSET Int /\ Bits(w, 2, 0) = 1 /\ CompressedFunct3(w) = 4
    BY <2>1 DEF Word16
  <2>3. Takes(f, w, {})
    BY <1>1, <1>2, <2>2, TakesNone
  <2>4. Meaning(f, w) = Insn("illegal", 0, 0, 0, 0, 0, {})
    BY <1>2, <2>2, <2>3, Registers DEF Takes
  <2>5. CompressedFunct2(w) = 3 /\ Bits(w, 1, 12) = 1 /\ Bits(w, 2, 5) = k
    <3>1. \A j \in {5, 6, 10, 11, 12} : j \in w <=> j \in fixed
      BY <1>3, <2>1 DEF Word16
    <3>2. /\ 10 \in w /\ 11 \in w
          /\ 12 \in w
          /\ 5 \in w <=> k \in {1, 3}
          /\ 6 \in w <=> k \in {2, 3}
      BY <1>4, <3>1
    <3>3. CompressedFunct2(w) = 3
      BY <2>2, <3>2, ShortFields
    <3>4. Bits(w, 1, 12) = 1
      BY <2>2, <3>2, ShortFields
    <3>5. /\ (5 \notin w /\ 6 \notin w /\ k = 0) \/ (5 \in w /\ 6 \notin w /\ k = 1)
             \/ (5 \notin w /\ 6 \in w /\ k = 2) \/ (5 \in w /\ 6 \in w /\ k = 3)
      BY <1>1, <3>2
    <3>6. Bits(w, 2, 5) = k
      BY <2>2, <3>5, ShortFields
    <3> QED  BY <3>3, <3>4, <3>6
  <2>6. Result(w) = quadrant1(w)
    BY <1>1, <2>2, Quadrants
  <2>7. quadrant1(w) = Insn("illegal", 0, 0, 0, 0, 0, {})
    BY <1>1, <2>2, Dispatch1, <2>5 DEF q1op4, Illegal
  <2> QED  BY <2>4, <2>6, <2>7
<1> QED  BY <1>7, <1>8 DEF Decodes, f

LEMMA CEbreakDecodes ==
  Decodes(C("ebreak", 0, 2, 4, {12}, X(0), X(0), X(0), NoImm, FALSE))
<1> DEFINE f == C("ebreak", 0, 2, 4, {12}, X(0), X(0), X(0), NoImm, FALSE)
           fixed == {12}
<1>1. /\ f.op = "ebreak" /\ f.n = 0 /\ f.size = 2 /\ f.ones = At(2, 0) \cup At(4, 13) \cup fixed
      /\ f.rd = X(0) /\ f.rs1 = X(0) /\ f.rs2 = X(0) /\ f.rs3 = X(0)
      /\ f.imm = NoImm /\ f.signed = FALSE /\ f.free = {}
  BY DEF C, Form
<1>2. f \in Single
  BY DEF Single
<1> HIDE DEF f
<1>3. Varying(f) = {}
  <2>1. Ran(f.imm) = {}
    BY <1>1, TakesNone
  <2> QED  BY <1>1, <2>1, Fields DEF Varying
<1>4. fixed = {12}
  OBVIOUS
<1> HIDE DEF fixed
<1>5. CLayout(f, 2, 4, fixed)
  BY <1>1, <1>3, <1>4 DEF CLayout
<1>6. Proper(f)
  BY <1>5, Form16
<1>7. ASSUME NEW w, Exact(f, w) PROVE FALSE
  BY <1>1, <1>2, <1>7 DEF Exact
<1> QED  BY <1>6, <1>7 DEF Decodes, f

LEMMA CIllegalDecodes ==
  Decodes(C("illegal", 0, 0, 0, {}, X(0), X(0), X(0), NoImm, FALSE))
<1> DEFINE f == C("illegal", 0, 0, 0, {}, X(0), X(0), X(0), NoImm, FALSE)
           fixed == {}
<1>1. /\ f.op = "illegal" /\ f.n = 0 /\ f.size = 2 /\ f.ones = At(0, 0) \cup At(0, 13) \cup fixed
      /\ f.rd = X(0) /\ f.rs1 = X(0) /\ f.rs2 = X(0) /\ f.rs3 = X(0)
      /\ f.imm = NoImm /\ f.signed = FALSE /\ f.free = {}
  BY DEF C, Form
<1>2. f \in Single
  BY DEF Single
<1> HIDE DEF f
<1>3. Varying(f) = {}
  <2>1. Ran(f.imm) = {}
    BY <1>1, TakesNone
  <2> QED  BY <1>1, <2>1, Fields DEF Varying
<1>4. fixed = {}
  OBVIOUS
<1> HIDE DEF fixed
<1>5. CLayout(f, 0, 0, fixed)
  BY <1>1, <1>3, <1>4 DEF CLayout
<1>6. Proper(f)
  BY <1>5, Form16
<1>7. ASSUME NEW w, OfForm(f, w), ~ Reserved(f, w), Exact(f, w) PROVE Result(w) = Meaning(f, w)
  <2>1. Word16(f, 0, 0, fixed, w)
    BY <1>5, <1>7, Form16
  <2>2. w \in SUBSET (0 .. 31) /\ w \in SUBSET Int /\ Bits(w, 2, 0) = 0 /\ CompressedFunct3(w) = 0
    BY <2>1 DEF Word16
  <2>3. Takes(f, w, {})
    BY <1>1, <2>2, TakesNone
  <2>4. Meaning(f, w) = Insn("illegal", 0, 0, 0, 0, 0, {})
    BY <1>1, <2>2, <2>3, Registers DEF Takes
  <2>5. Result(w) = Illegal
    BY <1>2, <1>7 DEF Exact, Result
  <2> QED  BY <2>4, <2>5 DEF Illegal
<1> QED  BY <1>6, <1>7 DEF Decodes, f

-----------------------------------------------------------------------------
(* Every format *)

LEMMA Quadrant0Decodes == \A f \in Quadrant0 : Decodes(f)
BY CAddi4SpnDecodes, CLoadsDecodes, CStoresDecodes DEF Quadrant0

LEMMA Quadrant1Decodes == \A f \in Quadrant1 : Decodes(f)
<1>1. /\ Decodes(C("add", 64, 1, 0, {}, Rd, Rd, X(0), CImm, TRUE))
      /\ Decodes(C("add", 32, 1, 1, {}, Rd, Rd, X(0), CImm, TRUE))
  <2>1. <<0, 64>> \in {<<0, 64>>, <<1, 32>>} /\ <<1, 32>> \in {<<0, 64>>, <<1, 32>>}
        /\ <<0, 64>>[1] = 0 /\ <<0, 64>>[2] = 64 /\ <<1, 32>>[1] = 1 /\ <<1, 32>>[2] = 32
    OBVIOUS
  <2> QED  BY <2>1, CAddiDecodes
<1>2. /\ Decodes(C("beq", 64, 1, 6, {}, X(0), Low7, X(0), ImmCB, TRUE))
      /\ Decodes(C("bne", 64, 1, 7, {}, X(0), Low7, X(0), ImmCB, TRUE))
  <2>1. <<6, "beq">> \in {<<6, "beq">>, <<7, "bne">>} /\ <<7,
        "bne">> \in {<<6, "beq">>, <<7, "bne">>}
        /\ <<6, "beq">>[1] = 6 /\ <<6, "beq">>[2] = "beq" /\ <<7, "bne">>[1] = 7 /\ <<7, "bne">>[2] =
           "bne"
    OBVIOUS
  <2> QED  BY <2>1, CBranchesDecodes
<1>3. /\ Decodes(C("add", 64, 1, 2, {}, Rd, X(0), X(0), CImm, TRUE))
      /\ Decodes(C("add", 64, 1, 3, At(2, 7), X(2), X(2), X(0), Imm16Sp, TRUE))
      /\ Decodes(C("lui", 64, 1, 3, {}, Rd, X(0), X(0), And(Run(12, 5, 2), Run(17, 1, 12)), TRUE))
      /\ Decodes(C("srl", 64, 1, 4, {}, Low7, Low7, X(0), CImm, FALSE))
      /\ Decodes(C("sra", 64, 1, 4, At(1, 10), Low7, Low7, X(0), CImm, FALSE))
      /\ Decodes(C("and", 64, 1, 4, At(2, 10), Low7, Low7, X(0), CImm, TRUE))
      /\ Decodes(C("jal", 64, 1, 5, {}, X(0), X(0), X(0), ImmCJ, TRUE))
  BY CLiDecodes, CAddi16SpDecodes, CLuiDecodes, CSrliDecodes, CSraiDecodes, CAndiDecodes,
     CJumpDecodes
<1> DEFINE addi == C("add", 64, 1, 0, {}, Rd, Rd, X(0), CImm, TRUE)
           addiw == C("add", 32, 1, 1, {}, Rd, Rd, X(0), CImm, TRUE)
           li == C("add", 64, 1, 2, {}, Rd, X(0), X(0), CImm, TRUE)
           addi16sp == C("add", 64, 1, 3, At(2, 7), X(2), X(2), X(0), Imm16Sp, TRUE)
           lui16 == C("lui", 64, 1, 3, {}, Rd, X(0), X(0), And(Run(12, 5, 2), Run(17, 1, 12)), TRUE)
           srli == C("srl", 64, 1, 4, {}, Low7, Low7, X(0), CImm, FALSE)
           srai == C("sra", 64, 1, 4, At(1, 10), Low7, Low7, X(0), CImm, FALSE)
           andi == C("and", 64, 1, 4, At(2, 10), Low7, Low7, X(0), CImm, TRUE)
           cj == C("jal", 64, 1, 5, {}, X(0), X(0), X(0), ImmCJ, TRUE)
           beqz == C("beq", 64, 1, 6, {}, X(0), Low7, X(0), ImmCB, TRUE)
           bnez == C("bne", 64, 1, 7, {}, X(0), Low7, X(0), ImmCB, TRUE)
           Regs64 == {C(<<"sub", "xor", "or", "and">>[k + 1], 64, 1, 4, At(3, 10) \cup At(k, 5),
                        Low7, Low7, Low2, NoImm, FALSE) : k \in 0 .. 3}
           Regs32 == {C(<<"sub", "add">>[k + 1], 32, 1, 4, At(7, 10) \cup At(k, 5),
                        Low7, Low7, Low2, NoImm, FALSE) : k \in 0 .. 1}
           Immediate16 == {addi, addiw, li, addi16sp, lui16, srli, srai, andi, cj, beqz, bnez}
<1>4. Quadrant1 = (Immediate16 \cup Regs64) \cup Regs32
  BY Zenon DEF Quadrant1
<1>5. \A f \in Regs64 : Decodes(f)
  BY CRegisters64Decodes, Zenon
<1>6. \A f \in Regs32 : Decodes(f)
  BY CRegisters32Decodes, Zenon
<1>7. /\ Decodes(addi) /\ Decodes(addiw) /\ Decodes(li) /\ Decodes(addi16sp) /\ Decodes(lui16)
      /\ Decodes(srli) /\ Decodes(srai) /\ Decodes(andi) /\ Decodes(cj)
      /\ Decodes(beqz) /\ Decodes(bnez)
  BY <1>1, <1>2, <1>3, Zenon
<1> HIDE DEF addi, addiw, li, addi16sp, lui16, srli, srai, andi, cj, beqz, bnez, Regs64, Regs32
<1>8. \A f \in Immediate16 : Decodes(f)
  BY <1>7
<1> HIDE DEF Immediate16
<1> QED  BY <1>4, <1>5, <1>6, <1>8

LEMMA Quadrant2Decodes == \A f \in Quadrant2 : Decodes(f)
<1> DEFINE slli == C("sll", 64, 2, 0, {}, Rd, Rd, X(0), CImm, FALSE)
           cjr == C("jalr", 64, 2, 4, {}, X(0), Rd, X(0), NoImm, FALSE)
           cjalr == C("jalr", 64, 2, 4, {12}, X(1), Rd, X(0), NoImm, FALSE)
           mv == C("add", 64, 2, 4, {}, Rd, X(0), CRs2, NoImm, FALSE)
           add == C("add", 64, 2, 4, {12}, Rd, Rd, CRs2, NoImm, FALSE)
           SpLoads == {C(a[2], a[3], 2, a[1], {}, Rd, X(2), X(0), ImmLoadSp(a[3]), FALSE) :
                         a \in {<<1, "fload", 64>>, <<2, "load", 32>>, <<3, "load", 64>>}}
           SpStores == {C(a[2], a[3], 2, a[1], {}, X(0), X(2), CRs2, ImmStoreSp(a[3]), FALSE) :
                          a \in {<<5, "fstore", 64>>, <<6, "store", 32>>, <<7, "store", 64>>}}
<1>1. Quadrant2 = ({slli, cjr, cjalr, mv, add} \cup SpLoads) \cup SpStores
  BY Zenon DEF Quadrant2
<1>2. Decodes(slli) /\ Decodes(cjr) /\ Decodes(cjalr) /\ Decodes(mv) /\ Decodes(add)
  BY CSlliDecodes, CJrDecodes, CJalrDecodes, CMvDecodes, CAddDecodes, Zenon
<1>3. \A f \in SpLoads : Decodes(f)
  BY CLoadsSpDecodes
<1>4. \A f \in SpStores : Decodes(f)
  BY CStoresSpDecodes
<1> HIDE DEF slli, cjr, cjalr, mv, add, SpLoads, SpStores
<1> QED  BY <1>1, <1>2, <1>3, <1>4

LEMMA UnusedsDecode == \A f \in Unused : Decodes(f)
<1> TAKE f \in Unused
<1>1. CASE f = Form("illegal", 0, {15}, X(0), X(0), X(0), X(0), NoImm, FALSE, 2 .. 12, 2)
  BY <1>1, CUnused0Decodes
<1>2. CASE f \in {Form("illegal", 0, {0, 15} \cup At(7, 10) \cup At(k, 5), X(0), X(0), X(0), X(0),
      NoImm, FALSE,
                       2 .. 4 \cup 7 .. 9, 2) : k \in {2, 3}}
  BY <1>2, CUnused1Decodes
<1>3. CASE f \in {UnusedForm(m) :
          m \in 0 .. 31 \ {0, 1, 3, 4, 5, 6, 8, 9, 11, 12, 13, 14, 16, 17, 18, 19, 20, 24, 25, 27,
          28}}
  BY <1>3, UnusedDecodes
<1> QED  BY <1>1, <1>2, <1>3 DEF Unused, UnusedForm

(* Every word of every format is executed as the instruction it encodes,
   whatever the bits of its operands and those of the next instruction, unless
   the architecture reserves it or Exact excludes it (Cpu::execute16 and
   Cpu::execute32 with the handlers they reach). *)
THEOREM FormsDecode == \A f \in Forms : Decodes(f)
<1> TAKE f \in Forms
<1>1. CASE f \in Integer
  BY <1>1, IntegerDecodes
<1>2. CASE f \in System
  BY <1>2, SystemDecodes
<1>3. CASE f \in Atomic
  BY <1>3, AtomicDecodes
<1>4. CASE f \in Floating
  BY <1>4, FloatingDecodes
<1>5. CASE f \in Compressed
  BY <1>5, Quadrant0Decodes, Quadrant1Decodes, Quadrant2Decodes DEF Compressed
<1>6. CASE f \in Single
  BY <1>6, CEbreakDecodes, CIllegalDecodes DEF Single
<1>7. CASE f \in Unused
  BY <1>7, UnusedsDecode
<1> QED  BY <1>1, <1>2, <1>3, <1>4, <1>5, <1>6, <1>7 DEF Forms

(* What is in the decoder is a word of the format it was assembled by. *)
Assembled ==
  form # None =>
    /\ form \in Forms /\ OfForm(form, insn)
    /\ ~ Reserved(form, insn)
    /\ Careful => Exact(form, insn)
DecoderInv == Assembled /\ DecodesAsEncoded

(* The bits that Decoder::insn is fetched with: those of the format, the
   operands and, above a compressed instruction, the next one *)
LEMMA FetchedWord ==
  ASSUME NEW f \in Forms, NEW v \in Words(f), NEW next \in Above(f)
  PROVE  OfForm(f, f.ones \cup v \cup next)
<1> DEFINE w == f.ones \cup v \cup next
<1>1. Proper(f)
  BY FormsDecode DEF Decodes
<1>2. v \subseteq Varying(f)
  BY DecoderAssumption DEF DecoderAssumption
<1>3. CASE f.size = 2
  <2>1. 0 .. (8 * f.size - 1) = 0 .. 15
    BY <1>3, 8 * 2 - 1 = 15
  <2>2. next \subseteq 16 .. 31
    BY <1>3 DEF Above
  <2>3. f.ones \subseteq 0 .. 15 /\ Varying(f) \subseteq 0 .. 15
    BY <1>1, <2>1 DEF Proper
  <2>4. w \in SUBSET (0 .. 31)
    <3>1. ASSUME NEW k \in 0 .. 15 PROVE k \in 0 .. 31
      OBVIOUS
    <3>2. ASSUME NEW k \in 16 .. 31 PROVE k \in 0 .. 31
      OBVIOUS
    <3>3. f.ones \subseteq 0 .. 31 /\ v \subseteq 0 .. 31 /\ next \subseteq 0 .. 31
      BY ONLY <1>2, <2>2, <2>3, <3>1, <3>2
    <3> QED  BY ONLY <3>3
  <2>5. ASSUME NEW k \in 0 .. 15, k \notin Varying(f) PROVE k \in w <=> k \in f.ones
    BY <1>2, <2>2, <2>5
  <2> QED  BY <2>1, <2>4, <2>5 DEF OfForm
<1>4. CASE f.size = 4
  <2>1. 0 .. (8 * f.size - 1) = 0 .. 31
    BY <1>4, 8 * 4 - 1 = 31
  <2>2. next = {}
    BY <1>4 DEF Above
  <2>3. f.ones \subseteq 0 .. 31 /\ Varying(f) \subseteq 0 .. 31
    BY <1>1, <2>1 DEF Proper
  <2>4. w \in SUBSET (0 .. 31)
    BY <1>2, <2>2, <2>3
  <2>5. ASSUME NEW k \in 0 .. 31, k \notin Varying(f) PROVE k \in w <=> k \in f.ones
    BY <1>2, <2>2, <2>5
  <2> QED  BY <2>1, <2>4, <2>5 DEF OfForm
<1> QED  BY <1>1, <1>3, <1>4 DEF Proper

LEMMA DecoderStep ==
  ASSUME Careful, DecoderInv, [Next]_vars
  PROVE  DecoderInv'
<1> USE DEF DecoderInv
<1>1. CASE Fetch
  <2>1. PICK f \in Forms : \E v \in Words(f), next \in Above(f) :
          /\ ~ Reserved(f, f.ones \cup v \cup next)
          /\ Exact(f, f.ones \cup v \cup next)
          /\ form' = f /\ insn' = f.ones \cup v \cup next
    BY <1>1 DEF Fetch
  <2>2. PICK v \in Words(f), next \in Above(f) :
          /\ ~ Reserved(f, f.ones \cup v \cup next)
          /\ Exact(f, f.ones \cup v \cup next)
          /\ form' = f /\ insn' = f.ones \cup v \cup next
    BY <2>1
  <2>3. OfForm(form', insn')
    BY <2>2, FetchedWord
  <2>4. Assembled'
    BY <2>2, <2>3 DEF Assembled
  <2>5. DecodesAsEncoded'
    BY <1>1 DEF Fetch, DecodesAsEncoded
  <2> QED  BY <2>4, <2>5
<1>2. ASSUME NEW q, NEW result, Executes(q, result), insn # {} => result = Result(insn)
      PROVE  DecoderInv'
  <2>1. form # None /\ out = None /\ insn' = insn /\ form' = form
    BY <1>2 DEF Executes
  <2>2. out' = Result(insn)
    <3>1. CASE insn = {}
      BY <1>2, <3>1 DEF Executes, Result
    <3>2. CASE insn # {}
      BY <1>2, <3>2 DEF Executes
    <3> QED  BY <3>1, <3>2
  <2>3. Result(insn) = Meaning(form, insn)
    BY <2>1, FormsDecode DEF Assembled, Decodes
  <2>4. Assembled'
    BY <2>1 DEF Assembled
  <2>5. DecodesAsEncoded'
    BY <2>1, <2>2, <2>3 DEF DecodesAsEncoded
  <2> QED  BY <2>4, <2>5
<1>3. CASE Execute0
  BY <1>2, <1>3 DEF Execute0, Executes, Result
<1>4. CASE Execute1
  BY <1>2, <1>4 DEF Execute1, Executes, Result
<1>5. CASE Execute2
  BY <1>2, <1>5 DEF Execute2, Executes, Result
<1>6. CASE Execute32
  BY <1>2, <1>6 DEF Execute32, Executes, Result
<1>7. CASE Retire
  BY <1>7 DEF Retire, Assembled, DecodesAsEncoded
<1>8. CASE UNCHANGED vars
  BY <1>8 DEF vars, Assembled, DecodesAsEncoded
<1> QED  BY <1>1, <1>3, <1>4, <1>5, <1>6, <1>7, <1>8 DEF Next

(* A program that keeps to the words the emulator gets right has each of them
   executed as the instruction it encodes: README.md:24, "RV64IMAFDCSU fully
   implemented". *)
THEOREM DecoderCorrect == Careful => (Spec => []DecodesAsEncoded)
<1> SUFFICES ASSUME Careful PROVE Spec => []DecodesAsEncoded
  OBVIOUS
<1>1. Init => DecoderInv
  BY DEF Init, DecoderInv, Assembled, DecodesAsEncoded
<1>2. DecoderInv /\ [Next]_vars => DecoderInv'
  BY DecoderStep
<1>3. DecoderInv => DecodesAsEncoded
  BY DEF DecoderInv
<1> QED  BY <1>1, <1>2, <1>3, PTL DEF Spec
=============================================================================
