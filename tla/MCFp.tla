-------------------------------- MODULE MCFp --------------------------------
EXTENDS Fp, TLC

MCSingle == [e |-> 4, m |-> 2]
MCDouble == [e |-> 5, m |-> 4]
Formats == {Single, Double}

Both(mags, f) == {WithSign(neg, v, f) : neg \in BOOLEAN, v \in mags}

(* Zero, the ends of the subnormal and of the normal numbers, infinity, NaNs
   of each kind, and the neighbourhood of 1, 3/2, 2, 3 and larger numbers *)
Special(f) ==
  {Infinity(f), Infinity(f) + 1, Infinity(f) + 2, CanonicalNan(f), CanonicalNan(f) + 1}
Middle(f) ==
  LET one == One(f)
  IN  UNION {{v - 1, v, v + 1} : v \in {one, one + 2^f.m}}
      \cup {one + 2^(f.m - 1), one + 2^f.m + 2^(f.m - 1), one + 3 * 2^f.m + 1, one - 3 * 2^f.m}
Ends(f) == {1, 2^f.m - 1, 2^f.m, 2^f.m + 1, Infinity(f) - 1}

Pairs(f) == Both({0} \cup Special(f) \cup Middle(f) \cup Ends(f), f)

(* Sums of double-precision numbers far apart do not fit TLC's integers. *)
Terms(f) == Both({0} \cup Special(f) \cup Middle(f) \cup (IF f = Single THEN Ends(f) ELSE {}), f)
Factors(f) ==
  Both({0, One(f) - 1, One(f), One(f) + 2, Infinity(f), CanonicalNan(f)}
       \cup (IF f = Single THEN {1, 2^f.m, Infinity(f) - 1} ELSE {}), f)
Every(f) == 0 .. (2^Width(f) - 1)

Ins(op, f, rm, w, signed) == [op |-> op, fmt |-> f, rm |-> rm, w |-> w, signed |-> signed]
Plain(ops, rms) == {Ins(op, f, rm, Word, TRUE) : op \in ops, f \in Formats, rm \in rms}

MCInsns ==
  Plain(Two \cup {"sqrt", "cvt.f"}, {"RNE", "DYN"})
  \cup Plain(Fused \cup Signs \cup Compares \cup
             {"min", "max", "class", "mv.x", "mv.f", "load", "store"}, {"RNE"})
  \cup {Ins("cvt.w", f, rm, w, signed) :
          f \in Formats, rm \in Modes \cup {"DYN"}, w \in {Word, Long}, signed \in BOOLEAN}
  \cup {Ins("cvt.from", f, "DYN", w, signed) : f \in Formats, w \in {Word, Long}, signed \in BOOLEAN}
  \cup {None}

(* Floats are in registers as arithmetic leaves them; the second was loaded. *)
MCContents(i, r) ==
  LET f == Source(i) IN
  IF r \notin Reads(i) \cup (IF i.op = "mv.x" THEN {1} ELSE {})
  THEN CASE i.op \in {"load", "store"} /\ r = 4 -> {0, 1, 100, 1023}
         [] i.op = "cvt.from" /\ r = 5 -> 0 .. (2^Long - 1)
         [] i.op = "mv.f" /\ r = 5 -> Reg
         [] OTHER -> {3}
  ELSE CASE Reads(i) \subseteq {1} -> Every(f)
         [] i.op \in Fused -> Factors(f)
         [] i.op \in Two -> IF f = Single /\ r = 2 THEN {Boxed(v) : v \in Terms(f)} ELSE Terms(f)
         [] OTHER -> IF f = Single /\ r = 2 THEN {Boxed(v) : v \in Pairs(f)} ELSE Pairs(f)

MCAmbient(i) ==
  LET modes == IF i.rm = "DYN" THEN Modes ELSE {"RUP"}
      accrued == IF i.fmt = Single THEN {{}} ELSE {{"UF"}}
      floats == IF i.op \in {"load", "store"} THEN SUBSET {2, 4}
                ELSE IF Source(i) = Single THEN {{1, 2, 3}} ELSE {{}}
  IN  modes \X accrued \X floats
=============================================================================
