----------------------------- MODULE MCDecoder -----------------------------
(* Every compressed word; of the 32-bit formats, every word whose variable   *)
(* bits are all 0 or all 1, but for up to two.                               *)
EXTENDS Decoder

MCWords(f) ==
  IF f.size = 2 THEN SUBSET Varying(f)
  ELSE LET v == Varying(f)
           few == {{i, j} : i, j \in v} \cup {{}}
       IN  few \cup {v \ s : s \in few}
=============================================================================
