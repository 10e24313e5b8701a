----------------------------- MODULE PageTable ------------------------------
(***************************************************************************)
(* What the two builds of the MMU share: the radix tree the guest keeps in *)
(* memory, Mmu::fetch_pte's walk over it and translate's permission check. *)
(*                                                                         *)
(* Addresses are counted in pages (virtual) and frames (physical).  A      *)
(* frame that holds a table has Radix slots; slot k of frame f is the      *)
(* address f * Radix + k.                                                  *)
(***************************************************************************)
EXTENDS Integers

CONSTANTS
  Radix,       \* entries of a table, 512 in the code
  Levels,      \* 3, 4 or 5: SV39, SV48, SV57
  MemSlots     \* slot addresses of RAM

ASSUME PageTableAssumption ==
  /\ Radix \in Nat /\ Radix > 1
  /\ Levels \in 1 .. 5
  /\ MemSlots \subseteq Nat

(* Radix ^ i *)
Span(i) ==
  LET Factor(n) == IF n <= i THEN Radix ELSE 1
  IN  Factor(1) * Factor(2) * Factor(3) * Factor(4) * Factor(5)
Pages == 0 .. (Span(Levels) - 1)
Digit(page, i) == (page \div Span(i)) % Radix

Flags == {"V", "R", "W", "X", "U", "A", "D"}
Ptes == [flags : SUBSET Flags, ppn : Nat]

(* What Bus::load returns where there is no device *)
NoPte == [flags |-> {}, ppn |-> 0]

User == 0
Supervisor == 1
Machine == 3

Has(pte, flag) == flag \in pte.flags

SlotOf(page, w) == w.table + Digit(page, w.level)
PteAt(mem, addr) == IF addr \in MemSlots THEN mem[addr] ELSE NoPte

Invalid(pte) == ~Has(pte, "V") \/ (~Has(pte, "R") /\ Has(pte, "W"))
IsLeaf(pte) == Has(pte, "R") \/ Has(pte, "X")
Misaligned(pte, level) == pte.ppn % Span(level) # 0

Leave(w, state, addr, pte) == [w EXCEPT !.state = state, !.addr = addr, !.pte = pte]
Descend(w, addr, pte) ==
  [state |-> "walk", table |-> pte.ppn * Radix, level |-> w.level - 1, addr |-> addr, pte |-> pte]

(* A superpage is aligned, and the last level has leaves only. *)
Stuck(pte, level) == Invalid(pte) \/ IF IsLeaf(pte) THEN Misaligned(pte, level) ELSE level = 0

Turn(w, addr, pte) ==
  IF Stuck(pte, w.level) THEN Leave(w, "fault", addr, pte)
  ELSE IF IsLeaf(pte) THEN Leave(w, "leaf", addr, pte)
  ELSE Descend(w, addr, pte)

(* One turn of the loop of fetch_pte.  w.state is "walk" until the loop is
   left by a break, with a "leaf", or by an error, with a "fault". *)
WalkStep(mem, page, w) ==
  IF w.state # "walk" THEN w
  ELSE Turn(w, SlotOf(page, w), PteAt(mem, SlotOf(page, w)))

WalkStart(root) ==
  [state |-> "walk", table |-> root * Radix, level |-> Levels - 1, addr |-> 0, pte |-> NoPte]

(* At most five levels: once the walk has ended a step changes nothing. *)
Walk(mem, root, page) ==
  LET Go(w) == WalkStep(mem, page, w)
  IN Go(Go(Go(Go(Go(WalkStart(root))))))

Found(w) == w.state = "leaf"

(* phys_base: a superpage takes the low digits from the page *)
FrameOf(page, w) ==
  (w.pte.ppn \div Span(w.level)) * Span(w.level) + (page % Span(w.level))

(* A request is [page, acc, mode, sum, mxr]: mode is the mode the access is
   made for, after MPRV. *)
Permitted(flags, r) ==
  /\ "R" \notin flags => "W" \notin flags
  /\ "U" \in flags => (r.mode = User \/ (r.sum /\ r.acc # "fetch"))
  /\ "U" \notin flags => r.mode = Supervisor
  /\ CASE r.acc = "load"  -> "R" \in flags \/ ("X" \in flags /\ r.mxr)
       [] r.acc = "store" -> "W" \in flags
       [] r.acc = "fetch" -> "X" \in flags

(* mutant: the mark goes to the Global bit, one below Accessed *)
MarksShifted(r) == IF r.acc = "store" THEN {"G", "D"} ELSE {"G"}

(* The accessed and dirty bits an access sets *)
Marks(r) == IF r.acc = "store" THEN {"A", "D"} ELSE {"A"}

Marked(pte, r) == [pte EXCEPT !.flags = @ \cup Marks(r)]

NeedsMark(pte, r) == ~(Marks(r) \subseteq pte.flags)
=============================================================================
