----------------------------- MODULE MmuProofs ------------------------------
(***************************************************************************)
(* The TLB is invisible to a guest that fences, for page tables of any     *)
(* shape, any number of entries and any requests but those for page 0.     *)
(*                                                                         *)
(* The argument: an entry whose page is not stale is the walk's result but *)
(* for a dirty bit it may lack (Coherent).  An access through it therefore *)
(* writes what the walk would have written (UseWrites), and what is        *)
(* written, two bits no walk looks at, leaves every other entry coherent.  *)
(***************************************************************************)
EXTENDS MmuGuest, FiniteSetTheorems, TLAPS

(* The walk of PageTable: what it has found is in memory, and marking a leaf
   accessed or dirty changes no walk but for these bits. *)

LEMMA PositiveProduct ==
  ASSUME NEW a \in Nat \ {0}, NEW b \in Nat \ {0}
  PROVE  a * b \in Nat \ {0}
OBVIOUS

LEMMA NatTimes == ASSUME NEW a \in Nat, NEW b \in Nat PROVE a * b \in Nat
OBVIOUS

LEMMA SpanPositive == ASSUME NEW i \in Nat PROVE Span(i) \in Nat \ {0}
<1> DEFINE F(n) == IF n <= i THEN Radix ELSE 1
<1>1. \A n \in Nat : F(n) \in Nat \ {0}
  BY PageTableAssumption DEF PageTableAssumption
<1>2. /\ F(1) \in Nat \ {0} /\ F(2) \in Nat \ {0} /\ F(3) \in Nat \ {0}
      /\ F(4) \in Nat \ {0} /\ F(5) \in Nat \ {0}
  BY <1>1
<1>3. Span(i) = F(1) * F(2) * F(3) * F(4) * F(5)
  BY DEF Span
<1> HIDE DEF F
<1>4. F(1) * F(2) \in Nat \ {0}
  BY <1>2, PositiveProduct
<1>5. F(1) * F(2) * F(3) \in Nat \ {0}
  BY <1>2, <1>4, PositiveProduct
<1>6. F(1) * F(2) * F(3) * F(4) \in Nat \ {0}
  BY <1>2, <1>5, PositiveProduct
<1>7. F(1) * F(2) * F(3) * F(4) * F(5) \in Nat \ {0}
  BY <1>2, <1>6, PositiveProduct
<1> QED  BY <1>3, <1>7

LEMMA DivisionBounds ==
  ASSUME NEW x \in Nat, NEW n \in Nat \ {0}
  PROVE  x \div n \in Nat /\ x % n \in 0 .. (n - 1)
OBVIOUS

LEMMA DigitIsNat == ASSUME NEW page \in Nat, NEW i \in Nat PROVE Digit(page, i) \in Nat
<1>1. Span(i) \in Nat \ {0}
  BY SpanPositive
<1>2. page \div Span(i) \in Nat
  BY <1>1, DivisionBounds
<1>3. Radix \in Nat \ {0}
  BY PageTableAssumption DEF PageTableAssumption
<1> QED  BY <1>2, <1>3, DivisionBounds DEF Digit

-----------------------------------------------------------------------------
Memories == [MemSlots -> Ptes]

WalkStates ==
  [state : {"walk", "leaf", "fault"}, table : Nat, level : 0 .. (Levels - 1), addr : Nat, pte : Ptes]

(* What the walk has found: a valid leaf, as memory has it *)
FoundIn(ram, w) ==
  Found(w) => /\ w.addr \in MemSlots /\ w.pte = ram[w.addr]
              /\ ~ Invalid(w.pte) /\ IsLeaf(w.pte)

LEMMA SlotIsNat == ASSUME NEW page \in Nat, NEW w \in WalkStates PROVE SlotOf(page, w) \in Nat
<1>1. w.table \in Nat /\ w.level \in Nat
  BY DEF WalkStates
<1>2. Digit(page, w.level) \in Nat
  BY <1>1, DigitIsNat
<1> QED  BY <1>1, <1>2 DEF SlotOf

LEMMA PteAtType == ASSUME NEW ram \in Memories, NEW a PROVE PteAt(ram, a) \in Ptes
BY DEF PteAt, Memories, NoPte, Ptes

LEMMA LeaveDoes ==
  ASSUME NEW w \in WalkStates, NEW s \in {"leaf", "fault"}, NEW a \in Nat, NEW p \in Ptes
  PROVE  /\ Leave(w, s, a, p) \in WalkStates
         /\ Leave(w, s, a, p).state = s /\ Leave(w, s, a, p).addr = a /\ Leave(w, s, a, p).pte = p
BY DEF Leave, WalkStates

LEMMA DescendDoes ==
  ASSUME NEW w \in WalkStates, w.level # 0, NEW a \in Nat, NEW p \in Ptes
  PROVE  Descend(w, a, p) \in WalkStates /\ Descend(w, a, p).state = "walk"
<1>1. p.ppn \in Nat /\ Radix \in Nat /\ w.level - 1 \in 0 .. (Levels - 1)
  BY PageTableAssumption DEF PageTableAssumption, Ptes, WalkStates
<1>2. p.ppn * Radix \in Nat
  BY <1>1
<1> QED  BY <1>1, <1>2 DEF Descend, WalkStates

LEMMA TurnDoes ==
  ASSUME NEW w \in WalkStates, NEW a \in Nat, NEW p \in Ptes
  PROVE  /\ Turn(w, a, p) \in WalkStates
         /\ Found(Turn(w, a, p)) => /\ Turn(w, a, p).addr = a /\ Turn(w, a, p).pte = p
                                    /\ ~ Invalid(p) /\ IsLeaf(p)
<1>1. CASE Stuck(p, w.level)
  BY <1>1, LeaveDoes DEF Turn, Found
<1>2. CASE ~ Stuck(p, w.level) /\ IsLeaf(p)
  BY <1>2, LeaveDoes DEF Turn, Stuck
<1>3. CASE ~ Stuck(p, w.level) /\ ~ IsLeaf(p)
  BY <1>3, DescendDoes DEF Turn, Found, Stuck
<1> QED  BY <1>1, <1>2, <1>3

LEMMA StepDoes ==
  ASSUME NEW ram \in Memories, NEW page \in Nat, NEW w \in WalkStates, FoundIn(ram, w)
  PROVE  WalkStep(ram, page, w) \in WalkStates /\ FoundIn(ram, WalkStep(ram, page, w))
<1> DEFINE addr == SlotOf(page, w)
           pte == PteAt(ram, addr)
<1>1. addr \in Nat /\ pte \in Ptes
  BY SlotIsNat, PteAtType
<1>2. ~ Invalid(pte) /\ IsLeaf(pte) => addr \in MemSlots /\ pte = ram[addr]
  BY DEF PteAt, IsLeaf, Has, NoPte
<1> HIDE DEF addr, pte
<1>3. Turn(w, addr, pte) \in WalkStates /\ FoundIn(ram, Turn(w, addr, pte))
  BY <1>1, <1>2, TurnDoes DEF FoundIn
<1> QED  BY <1>3 DEF WalkStep, addr, pte

LEMMA StartType == ASSUME NEW top \in Nat PROVE WalkStart(top) \in WalkStates
BY PageTableAssumption DEF WalkStart, WalkStates, NoPte, Ptes, PageTableAssumption

LEMMA WalkFinds ==
  ASSUME NEW ram \in Memories, NEW top \in Nat, NEW page \in Nat
  PROVE  Walk(ram, top, page) \in WalkStates /\ FoundIn(ram, Walk(ram, top, page))
<1> DEFINE Go(w) == WalkStep(ram, page, w)
           Fine(w) == w \in WalkStates /\ FoundIn(ram, w)
<1>1. Fine(WalkStart(top))
  BY StartType DEF WalkStart, FoundIn, Found
<1>2. \A w : Fine(w) => Fine(Go(w))
  BY StepDoes
<1>3. Walk(ram, top, page) = Go(Go(Go(Go(Go(WalkStart(top))))))
  BY DEF Walk
<1> HIDE DEF Go, Fine
<1>4. Fine(Walk(ram, top, page))
  BY <1>1, <1>2, <1>3
<1> QED  BY <1>4 DEF Fine

-----------------------------------------------------------------------------
(* q is the leaf p with more of the bits an access sets. *)
MarkedMore(p, q) ==
  /\ q.ppn = p.ppn
  /\ p.flags \subseteq q.flags /\ q.flags \subseteq p.flags \cup {"A", "D"}

(* Two walks that differ in what they have found at a, and there in the pte *)
Alike(w, v, a, q) ==
  /\ v.state = w.state
  /\ w.state = "walk" => v = w
  /\ Found(w) => /\ v.addr = w.addr /\ v.level = w.level
                 /\ v.pte = IF w.addr = a THEN q ELSE w.pte

LEMMA MarksKeepShape ==
  ASSUME NEW p \in Ptes, NEW q \in Ptes, MarkedMore(p, q), NEW l
  PROVE  /\ Invalid(q) = Invalid(p) /\ IsLeaf(q) = IsLeaf(p)
         /\ Misaligned(q, l) = Misaligned(p, l) /\ Stuck(q, l) = Stuck(p, l)
<1>1. \A f \in {"V", "R", "W", "X"} : Has(q, f) <=> Has(p, f)
  BY DEF MarkedMore, Has
<1>2. Has(q, "V") = Has(p, "V") /\ Has(q, "R") = Has(p, "R")
      /\ Has(q, "W") = Has(p, "W") /\ Has(q, "X") = Has(p, "X")
  BY <1>1 DEF Has
<1>3. Misaligned(q, l) = Misaligned(p, l)
  BY DEF MarkedMore, Misaligned
<1> QED  BY <1>2, <1>3 DEF Invalid, IsLeaf, Stuck

LEMMA MarkedTurn ==
  ASSUME NEW w \in WalkStates, NEW a \in Nat, NEW p \in Ptes, NEW q \in Ptes,
         MarkedMore(p, q), IsLeaf(p)
  PROVE  Alike(Turn(w, a, p), Turn(w, a, q), a, q)
<1>1. Stuck(q, w.level) = Stuck(p, w.level) /\ IsLeaf(q)
  BY MarksKeepShape
<1>2. CASE Stuck(p, w.level)
  BY <1>1, <1>2, LeaveDoes DEF Turn, Alike, Found
<1>3. CASE ~ Stuck(p, w.level)
  <2>1. Turn(w, a, p) = Leave(w, "leaf", a, p) /\ Turn(w, a, q) = Leave(w, "leaf", a, q)
    BY <1>1, <1>3 DEF Turn
  <2>2. Leave(w, "leaf", a, p).level = w.level /\ Leave(w, "leaf", a, q).level = w.level
    BY DEF Leave, WalkStates
  <2> QED  BY <2>1, <2>2, LeaveDoes DEF Alike
<1> QED  BY <1>2, <1>3

LEMMA MarkedStep ==
  ASSUME NEW ram \in Memories, NEW page \in Nat, NEW a \in MemSlots, NEW q \in Ptes,
         MarkedMore(ram[a], q), IsLeaf(ram[a]),
         NEW w \in WalkStates, NEW v \in WalkStates, Alike(w, v, a, q)
  PROVE  Alike(WalkStep(ram, page, w), WalkStep([ram EXCEPT ![a] = q], page, v), a, q)
<1> DEFINE m == [ram EXCEPT ![a] = q]
           addr == SlotOf(page, w)
<1>1. CASE w.state # "walk"
  BY <1>1 DEF WalkStep, Alike
<1>2. CASE w.state = "walk"
  <2>1. v = w /\ v.state = "walk"
    BY <1>2 DEF Alike
  <2>2. addr \in Nat /\ PteAt(ram, addr) \in Ptes
    BY SlotIsNat, PteAtType
  <2>3. CASE addr = a
    <3>1. PteAt(ram, addr) = ram[a] /\ PteAt(m, addr) = q
      BY <2>3 DEF PteAt, Memories
    <3>2. Alike(Turn(w, addr, ram[a]), Turn(w, addr, q), a, q)
      BY <2>2, <2>3, <3>1, MarkedTurn
    <3> QED  BY <1>2, <2>1, <3>1, <3>2 DEF WalkStep
  <2>4. CASE addr # a
    <3>1. PteAt(m, addr) = PteAt(ram, addr)
      BY <2>4 DEF PteAt, Memories
    <3>2. Alike(Turn(w, addr, PteAt(ram, addr)), Turn(w, addr, PteAt(ram, addr)), a, q)
      BY <2>2, <2>4, TurnDoes DEF Alike
    <3> QED  BY <1>2, <2>1, <3>1, <3>2 DEF WalkStep
  <2> QED  BY <2>3, <2>4
<1> QED  BY <1>1, <1>2

LEMMA MarkedWalk ==
  ASSUME NEW ram \in Memories, NEW top \in Nat, NEW page \in Nat,
         NEW a \in MemSlots, NEW q \in Ptes, MarkedMore(ram[a], q), IsLeaf(ram[a])
  PROVE  Alike(Walk(ram, top, page), Walk([ram EXCEPT ![a] = q], top, page), a, q)
<1> DEFINE m == [ram EXCEPT ![a] = q]
           Go(w) == WalkStep(ram, page, w)
           To(w) == WalkStep(m, page, w)
           Fine(w, v) == /\ w \in WalkStates /\ FoundIn(ram, w)
                         /\ v \in WalkStates /\ FoundIn(m, v) /\ Alike(w, v, a, q)
<1>1. Fine(WalkStart(top), WalkStart(top))
  BY StartType DEF WalkStart, FoundIn, Found, Alike
<1>2. m \in Memories
  BY DEF Memories
<1>3. ASSUME NEW w, NEW v, Fine(w, v) PROVE Fine(Go(w), To(v))
  <2> HIDE DEF m
  <2>1. Go(w) \in WalkStates /\ FoundIn(ram, Go(w)) /\ To(v) \in WalkStates /\ FoundIn(m, To(v))
    BY <1>2, <1>3, StepDoes
  <2>2. Alike(Go(w), To(v), a, q)
    BY <1>3, MarkedStep DEF m
  <2> QED  BY <2>1, <2>2
<1>4. /\ Walk(ram, top, page) = Go(Go(Go(Go(Go(WalkStart(top))))))
      /\ Walk(m, top, page) = To(To(To(To(To(WalkStart(top))))))
  BY DEF Walk
<1> HIDE DEF Go, To, Fine
<1>5. Fine(Walk(ram, top, page), Walk(m, top, page))
  BY <1>1, <1>3, <1>4
<1> QED  BY <1>5 DEF Fine

(* An access sets bits no check looks at. *)
LEMMA MarksArePermitted ==
  ASSUME NEW p \in Ptes, NEW q \in Ptes, MarkedMore(p, q),
         NEW r, r.acc \in {"load", "store", "fetch"}
  PROVE  Permitted(q.flags, r) <=> Permitted(p.flags, r)
<1>1. /\ "R" \in q.flags <=> "R" \in p.flags
      /\ "W" \in q.flags <=> "W" \in p.flags
      /\ "X" \in q.flags <=> "X" \in p.flags
      /\ "U" \in q.flags <=> "U" \in p.flags
  BY DEF MarkedMore
<1>2. CASE r.acc = "load"
  BY <1>1, <1>2 DEF Permitted
<1>3. CASE r.acc = "store"
  BY <1>1, <1>3 DEF Permitted
<1>4. CASE r.acc = "fetch"
  BY <1>1, <1>4 DEF Permitted
<1> QED  BY <1>2, <1>3, <1>4

LEMMA FrameIsNat ==
  ASSUME NEW page \in Nat, NEW w \in WalkStates PROVE FrameOf(page, w) \in Nat
<1>1. w.pte.ppn \in Nat /\ w.level \in Nat
  BY DEF WalkStates, Ptes
<1>2. Span(w.level) \in Nat \ {0}
  BY <1>1, SpanPositive
<1> DEFINE high == w.pte.ppn \div Span(w.level)
           low == page % Span(w.level)
<1>3. high \in Nat /\ low \in Nat
  BY <1>1, <1>2, DivisionBounds
<1>4. FrameOf(page, w) = high * Span(w.level) + low
  BY DEF FrameOf
<1> HIDE DEF high, low
<1>5. high * Span(w.level) \in Nat
  BY <1>2, <1>3, NatTimes
<1> QED  BY <1>3, <1>4, <1>5

-----------------------------------------------------------------------------
(* The TLB *)

Entries == [page : Pages, pte : Ptes, addr : Nat, frame : Nat]

(* e is what the walk w leaves in an entry, but for marks made since. *)
Copies(e, w) ==
  /\ e.addr = w.addr /\ e.frame = FrameOf(e.page, w) /\ e.pte.ppn = w.pte.ppn
  /\ e.pte.flags \subseteq w.pte.flags
  /\ \/ w.pte.flags \subseteq e.pte.flags
     \/ "A" \in e.pte.flags /\ w.pte.flags \subseteq e.pte.flags \cup {"D"}

WalkOf(e) == Walk(mem, root, e.page)

Coherent ==
  \A i \in Filled :
    tlb[i].page \notin stale =>
      Found(WalkOf(tlb[i])) /\ Copies(tlb[i], WalkOf(tlb[i])) /\ "A" \in tlb[i].pte.flags

EmptyIsZeroed == \A i \in Slots \ Filled : tlb[i] = NoEntry

Inv == TypeOK /\ EmptyIsZeroed /\ ReplacementOrder /\ Coherent

-----------------------------------------------------------------------------
LEMMA PagesAreNat == Pages \subseteq Nat
  BY DEF Pages

LEMMA RequestType ==
  ASSUME NEW r \in Requests
  PROVE  r.page \in Pages /\ r.page \in Nat /\ r.acc \in {"load", "store", "fetch"}
BY WalkInputsAssumption, PagesAreNat DEF WalkInputsAssumption

LEMMA MarkedType ==
  ASSUME NEW p \in Ptes, NEW r
  PROVE  /\ Marked(p, r) \in Ptes /\ MarkedMore(p, Marked(p, r))
         /\ Marked(p, r).ppn = p.ppn /\ Marked(p, r).flags = p.flags \cup Marks(r)
BY DEF Marked, MarkedMore, Marks, Ptes, Flags

LEMMA FlushEmpties ==
  ASSUME Flush
  PROVE  Filled' = {} /\ tlb' \in [Slots -> Entries] /\ age' \in [Slots -> Nat]
         /\ \A i \in Slots : tlb'[i] = NoEntry
<1>1. 0 \in Pages
  <2>1. Span(Levels) \in Nat \ {0}
    BY SpanPositive, PageTableAssumption DEF PageTableAssumption
  <2> QED  BY <2>1 DEF Pages
<1>2. NoEntry \in Entries
  BY <1>1 DEF NoEntry, Entries, NoPte, Ptes
<1> QED  BY <1>2 DEF Flush, Filled, NoEntry, NoPte, Has

-----------------------------------------------------------------------------
(* What an entry is used for *)

(* Memory after a successful access is the walk's, whichever copy is used. *)
LEMMA UseWrites ==
  ASSUME TypeOK, NEW r \in Requests, NEW i \in Slots, NEW e \in Entries,
         NEW w \in WalkStates, Found(w), FoundIn(mem, w), Copies(e, w), UseEntry(r, i, e)
  PROVE  mem' = [mem EXCEPT ![w.addr] = Marked(w.pte, r)]
<1>1. w.addr \in MemSlots /\ w.pte = mem[w.addr] /\ mem \in Memories /\ w.pte \in Ptes
  BY DEF FoundIn, TypeOK, WalkTypeOK, Memories, WalkStates
<1>2. e.pte \in Ptes /\ e.addr = w.addr
  BY DEF Entries, Copies
<1>3. CASE NeedsMark(e.pte, r)
  <2>1. mem' = [mem EXCEPT ![w.addr] = Marked(e.pte, r)]
    BY <1>2, <1>3 DEF UseEntry
  <2>2. e.pte.flags \cup Marks(r) = w.pte.flags \cup Marks(r)
    BY <1>3 DEF Copies, NeedsMark, Marks
  <2>3. Marked(e.pte, r) = Marked(w.pte, r)
    BY <1>1, <1>2, <2>2 DEF Marked, Copies, Ptes
  <2> QED  BY <2>1, <2>3
<1>4. CASE ~ NeedsMark(e.pte, r)
  <2>1. mem' = mem
    BY <1>4 DEF UseEntry
  <2>2. w.pte.flags \cup Marks(r) = w.pte.flags
    BY <1>4 DEF Copies, NeedsMark
  <2>3. Marked(w.pte, r) = w.pte
    BY <1>1, <2>2 DEF Marked, Ptes
  <2> QED  BY <1>1, <2>1, <2>3 DEF Memories
<1> QED  BY <1>3, <1>4

(* A copy stays one when the entry in memory is marked through another. *)
LEMMA MarkKeepsCopies ==
  ASSUME NEW e \in Entries, NEW w \in WalkStates, NEW v \in WalkStates, NEW a, NEW r, NEW q \in Ptes,
         Found(w), Copies(e, w), "A" \in e.pte.flags,
         w.addr = a => q = Marked(w.pte, r), Alike(w, v, a, q)
  PROVE  Found(v) /\ Copies(e, v)
<1>1. Found(v) /\ v.addr = w.addr /\ v.level = w.level
  BY DEF Alike, Found
<1>2. w.pte \in Ptes
  BY DEF WalkStates
<1>3. /\ v.pte.ppn = w.pte.ppn /\ w.pte.flags \subseteq v.pte.flags
      /\ v.pte.flags \subseteq w.pte.flags \cup {"A", "D"}
  <2>1. CASE w.addr = a
    <3>1. v.pte = Marked(w.pte, r)
      BY <2>1 DEF Alike, Found
    <3>2. Marked(w.pte, r).ppn = w.pte.ppn /\ Marked(w.pte, r).flags = w.pte.flags \cup Marks(r)
      BY <1>2, MarkedType
    <3>3. Marks(r) \subseteq {"A", "D"}
      BY DEF Marks
    <3> QED  BY <3>1, <3>2, <3>3
  <2>2. CASE w.addr # a
    BY <2>2 DEF Alike, Found
  <2> QED  BY <2>1, <2>2
<1>4. FrameOf(e.page, v) = FrameOf(e.page, w)
  BY <1>1, <1>3 DEF FrameOf
<1> QED  BY <1>1, <1>3, <1>4 DEF Copies

(* The copy an access leaves in its entry *)
LEMMA MarkedCopy ==
  ASSUME NEW e \in Entries, NEW w \in WalkStates, NEW v \in WalkStates, NEW r,
         Found(w), Copies(e, w), Alike(w, v, w.addr, Marked(w.pte, r))
  PROVE  /\ Found(v) /\ Copies([e EXCEPT !.pte = Marked(e.pte, r)], v)
         /\ "A" \in Marked(e.pte, r).flags
<1> DEFINE f == [e EXCEPT !.pte = Marked(e.pte, r)]
<1>1. Found(v) /\ v.addr = w.addr /\ v.level = w.level /\ v.pte = Marked(w.pte, r)
  BY DEF Alike, Found
<1>2. e.pte \in Ptes /\ w.pte \in Ptes
  BY DEF Entries, WalkStates
<1>3. f.page = e.page /\ f.addr = e.addr /\ f.frame = e.frame /\ f.pte = Marked(e.pte, r)
  BY DEF Entries
<1>4. "A" \in Marks(r)
  BY DEF Marks
<1>5. /\ v.pte.ppn = w.pte.ppn /\ v.pte.flags = w.pte.flags \cup Marks(r)
      /\ f.pte.ppn = e.pte.ppn /\ f.pte.flags = e.pte.flags \cup Marks(r)
  BY <1>1, <1>2, <1>3, MarkedType
<1>6. FrameOf(e.page, v) = FrameOf(e.page, w)
  BY <1>1, <1>5 DEF FrameOf
<1> HIDE DEF f
<1>7. Copies(f, v)
  BY <1>1, <1>3, <1>4, <1>5, <1>6 DEF Copies
<1> QED  BY <1>1, <1>2, <1>4, <1>7, MarkedType DEF f

-----------------------------------------------------------------------------
(* The order of replacement *)

(* Ranks keep the order of what they rank. *)
LEMMA RanksOrder ==
  ASSUME NEW f \in [Slots -> Nat]
  PROVE  /\ Ranks(f) \in [Slots -> Nat]
         /\ \A i, j \in Slots : f[i] < f[j] => Ranks(f)[i] < Ranks(f)[j]
<1> DEFINE Below(i) == {f[j] : j \in {k \in Slots : f[k] < f[i]}}
<1>1. \A i \in Slots : f[i] \in Nat /\ Below(i) \subseteq Nat /\ \A n \in Below(i) : n <= f[i]
  OBVIOUS
<1>2. ASSUME NEW i \in Slots, NEW j \in Slots, f[i] < f[j]
      PROVE  Below(i) \subseteq Below(j) /\ f[i] \in Below(j) /\ f[i] \notin Below(i)
  BY <1>2, <1>1
<1>3. Ranks(f) = [i \in Slots |-> Cardinality(Below(i))]
  BY DEF Ranks
<1> HIDE DEF Below
<1>4. \A i \in Slots : IsFiniteSet(Below(i))
  BY <1>1, FS_BoundedSetOfNaturals
<1>5. \A i \in Slots : Cardinality(Below(i)) \in Nat
  BY <1>4, FS_CardinalityType
<1>6. ASSUME NEW i \in Slots, NEW j \in Slots, f[i] < f[j]
      PROVE  Cardinality(Below(i)) < Cardinality(Below(j))
  <2>1. Below(i) \in SUBSET Below(j) /\ Below(i) # Below(j)
    BY <1>2, <1>6
  <2>2. Cardinality(Below(i)) <= Cardinality(Below(j)) /\ Cardinality(Below(i)) # Cardinality(Below(j))
    BY <1>4, <2>1, FS_Subset
  <2> QED  BY <1>5, <2>2
<1> QED  BY <1>3, <1>5, <1>6

(* The entry in use is the youngest, the others keep their order. *)
LEMMA TouchedOrder ==
  ASSUME age \in [Slots -> Nat], NEW i \in Slots
  PROVE  /\ Touched(i) \in [Slots -> Nat]
         /\ \A j \in Slots \ {i} : Touched(i)[i] < Touched(i)[j]
         /\ \A j, k \in Slots \ {i} : age[j] < age[k] => Touched(i)[j] < Touched(i)[k]
<1> DEFINE f == [j \in Slots |-> IF j = i THEN 0 ELSE age[j] + 1]
<1>1. f \in [Slots -> Nat] /\ f[i] = 0 /\ \A j \in Slots \ {i} : f[j] = age[j] + 1
  OBVIOUS
<1>2. Touched(i) = Ranks(f)
  BY DEF Touched
<1> HIDE DEF f
<1>3. \A j \in Slots \ {i} : f[i] < f[j]
  BY <1>1
<1>4. \A j, k \in Slots \ {i} : age[j] < age[k] => f[j] < f[k]
  BY <1>1
<1> QED  BY <1>1, <1>2, <1>3, <1>4, RanksOrder

LEMMA UseKeepsOrder ==
  ASSUME TypeOK, ReplacementOrder, NEW i \in Slots, NEW e, Has(e.pte, "V"),
         \A j \in Filled \ {i} : tlb[j].page # e.page,
         tlb' = [tlb EXCEPT ![i] = e], age' = Touched(i)
  PROVE  ReplacementOrder' /\ Filled' = Filled \cup {i}
<1>1. /\ age \in [Slots -> Nat] /\ tlb' \in [Slots -> Entries \cup {e}]
      /\ tlb'[i] = e /\ \A j \in Slots \ {i} : tlb'[j] = tlb[j]
  BY DEF TypeOK, Entries
<1>2. Filled' = Filled \cup {i}
  BY <1>1 DEF Filled
<1>3. /\ \A j \in Slots : age[j] \in Nat /\ age'[j] \in Nat
      /\ \A j \in Slots \ {i} : age'[i] < age'[j]
      /\ \A j, k \in Slots \ {i} : age[j] < age[k] => age'[j] < age'[k]
  BY <1>1, TouchedOrder
<1>4. /\ Filled \subseteq Slots
      /\ \A j, k \in Filled : j # k => tlb[j].page # tlb[k].page /\ age[j] # age[k]
      /\ \A j \in Filled, k \in Slots \ Filled : age[j] < age[k]
  BY DEF Filled, ReplacementOrder
<1>5. ASSUME NEW j \in Filled \cup {i}, NEW k \in Filled \cup {i}, j # k
      PROVE  tlb'[j].page # tlb'[k].page
  BY <1>1, <1>4, <1>5
<1>6. ASSUME NEW j \in Filled \cup {i}, NEW k \in Filled \cup {i}, j # k
      PROVE  age'[j] # age'[k]
  <2>1. CASE j = i \/ k = i
    BY <1>3, <1>4, <1>6, <2>1
  <2>2. CASE j # i /\ k # i
    <3>1. age[j] < age[k] \/ age[k] < age[j]
      BY <1>3, <1>4, <1>6, <2>2
    <3> QED  BY <1>3, <1>4, <2>2, <3>1
  <2> QED  BY <2>1, <2>2
<1>7. ASSUME NEW j \in Filled \cup {i}, NEW k \in Slots \ (Filled \cup {i})
      PROVE  age'[j] < age'[k]
  BY <1>3, <1>4
<1> QED  BY <1>2, <1>5, <1>6, <1>7 DEF ReplacementOrder

-----------------------------------------------------------------------------
(* An access *)

LEMMA WalkIsFound ==
  ASSUME TypeOK, NEW page \in Pages
  PROVE  Walk(mem, root, page) \in WalkStates /\ FoundIn(mem, Walk(mem, root, page))
BY PagesAreNat, WalkFinds DEF TypeOK, WalkTypeOK, Memories

LEMMA CopyIsMarked ==
  ASSUME NEW e \in Entries, NEW w \in WalkStates, Copies(e, w) PROVE MarkedMore(e.pte, w.pte)
BY DEF Copies, MarkedMore

(* What the walk leaves in the victim *)
LEMMA FreshCopy ==
  ASSUME NEW page \in Pages, NEW w \in WalkStates
  PROVE  /\ EntryFor(page, w) \in Entries /\ EntryFor(page, w).page = page
         /\ EntryFor(page, w).pte = w.pte /\ Copies(EntryFor(page, w), w)
<1>1. page \in Nat /\ FrameOf(page, w) \in Nat
  BY PagesAreNat, FrameIsNat
<1> QED  BY <1>1 DEF EntryFor, Entries, Copies, WalkStates

(* An empty entry permits nothing: what is used is a filled one. *)
LEMMA EmptyPermitsNothing ==
  ASSUME NEW r \in Requests PROVE ~ Permitted(NoEntry.pte.flags, r)
<1>1. r.acc \in {"load", "store", "fetch"} /\ NoEntry.pte.flags = {}
  BY RequestType DEF NoEntry, NoPte
<1>2. ~ Permitted({}, r)
  BY <1>1 DEF Permitted
<1> QED  BY <1>1, <1>2

(* An access that succeeds *)
Uses(r, i, e) ==
  /\ e \in Entries /\ e.page = r.page /\ Has(e.pte, "V")
  /\ Found(Walk(mem, root, r.page)) /\ Copies(e, Walk(mem, root, r.page))
  /\ \A j \in Filled \ {i} : tlb[j].page # r.page
  /\ UseEntry(r, i, e)

LEMMA AccessOkUses ==
  ASSUME Inv, NEW r \in Requests, r.page \notin stale, HitOk(r) \/ MissOk(r)
  PROVE  ~ Bypassed(r) /\ \E i \in Slots : \E e : Uses(r, i, e)
<1>1. r.page \in Pages
  BY RequestType
<1> DEFINE w == Walk(mem, root, r.page)
<1>2. w \in WalkStates /\ FoundIn(mem, w)
  BY <1>1, WalkIsFound DEF Inv
<1>3. CASE HitOk(r)
  <2>1. PICK i \in Slots : Hit(r, i) /\ UseEntry(r, i, tlb[i])
    BY <1>3 DEF HitOk
  <2>2. tlb[i] \in Entries /\ tlb[i].page = r.page /\ Permitted(tlb[i].pte.flags, r)
    BY <2>1 DEF Hit, UseEntry, Inv, TypeOK, Entries
  <2>3. i \in Filled
    BY <2>2, EmptyPermitsNothing DEF Inv, EmptyIsZeroed
  <2>4. Found(w) /\ Copies(tlb[i], w) /\ Has(tlb[i].pte, "V")
    BY <2>2, <2>3 DEF Inv, Coherent, WalkOf, Filled
  <2>5. \A j \in Filled \ {i} : tlb[j].page # r.page
    BY <2>2, <2>3 DEF Inv, ReplacementOrder
  <2>6. Uses(r, i, tlb[i])
    BY <2>1, <2>2, <2>4, <2>5 DEF Uses
  <2> QED  BY <1>3, <2>6 DEF HitOk
<1>4. CASE MissOk(r)
  <2> DEFINE e == EntryFor(r.page, w)
  <2>1. PICK i \in Slots : UseEntry(r, i, e)
    BY <1>4 DEF MissOk
  <2>2. Found(w) /\ \A j \in Filled : tlb[j].page # r.page
    BY <1>4 DEF MissOk, Miss, Filled
  <2>3. e \in Entries /\ e.page = r.page /\ e.pte = w.pte /\ Copies(e, w)
    BY <1>1, <1>2, FreshCopy
  <2>4. Has(e.pte, "V")
    BY <1>2, <2>2, <2>3 DEF FoundIn, Invalid
  <2> HIDE DEF e
  <2>5. Uses(r, i, e)
    BY <2>1, <2>2, <2>3, <2>4 DEF Uses
  <2> QED  BY <1>4, <2>5 DEF MissOk
<1> QED  BY <1>3, <1>4

(* It is the successful access of the build without a TLB ... *)
LEMMA UseIsWalkOk ==
  ASSUME Inv, NEW r \in Requests, ~ Bypassed(r), NEW i \in Slots, NEW e, Uses(r, i, e)
  PROVE  WalkOk(r)
<1> DEFINE w == Walk(mem, root, r.page)
<1>1. r.page \in Pages /\ r.acc \in {"load", "store", "fetch"}
  BY RequestType
<1>2. w \in WalkStates /\ FoundIn(mem, w) /\ Found(w) /\ Copies(e, w) /\ e \in Entries /\ TypeOK
  BY <1>1, WalkIsFound DEF Inv, Uses
<1> HIDE DEF w
<1>3. mem' = [mem EXCEPT ![w.addr] = Marked(w.pte, r)]
  BY <1>2, UseWrites DEF Uses
<1>4. mem' = IF NeedsMark(w.pte, r) THEN [mem EXCEPT ![w.addr] = Marked(w.pte, r)] ELSE mem
  <2>1. CASE ~ NeedsMark(w.pte, r)
    <3>1. w.pte \in Ptes /\ w.pte.flags \cup Marks(r) = w.pte.flags
      BY <1>2, <2>1 DEF NeedsMark, WalkStates
    <3>2. Marked(w.pte, r) = w.pte
      BY <3>1 DEF Marked, Ptes
    <3>3. mem \in Memories /\ w.addr \in MemSlots /\ w.pte = mem[w.addr]
      BY <1>2 DEF FoundIn, TypeOK, WalkTypeOK, Memories
    <3> QED  BY <1>3, <2>1, <3>2, <3>3 DEF Memories
  <2> QED  BY <1>3, <2>1
<1>5. Permitted(w.pte.flags, r)
  <2>1. e.pte \in Ptes /\ w.pte \in Ptes /\ MarkedMore(e.pte, w.pte)
    BY <1>2, CopyIsMarked DEF Entries, WalkStates
  <2>2. Permitted(e.pte.flags, r)
    BY DEF Uses, UseEntry
  <2> QED  BY <1>1, <2>1, <2>2, MarksArePermitted
<1>6. out' = Outcome(r, FrameOf(r.page, w)) /\ UNCHANGED <<satp, bare, root>>
  BY <1>2 DEF Uses, UseEntry, Copies
<1> QED  BY <1>2, <1>4, <1>5, <1>6 DEF WalkOk, w

(* ... and leaves every entry a copy. *)
LEMMA UseKeepsInv ==
  ASSUME Inv, NEW r \in Requests, r.page \notin stale, NEW i \in Slots, NEW e, Uses(r, i, e),
         stale' = IF out'.frame = Fault THEN {} ELSE stale
  PROVE  Inv'
<1> DEFINE w == Walk(mem, root, r.page)
           q == Marked(w.pte, r)
           new == [e EXCEPT !.pte = Marked(e.pte, r)]
<1>1. r.page \in Pages /\ TypeOK /\ mem \in Memories /\ root \in Nat /\ root' = root
  BY RequestType DEF Inv, TypeOK, WalkTypeOK, Memories, Uses, UseEntry
<1>2. /\ w \in WalkStates /\ FoundIn(mem, w) /\ Found(w) /\ Copies(e, w) /\ e \in Entries
      /\ e.page = r.page /\ Has(e.pte, "V")
  BY <1>1, WalkIsFound DEF Uses
<1>3. /\ w.addr \in MemSlots /\ w.pte = mem[w.addr] /\ IsLeaf(w.pte) /\ w.pte \in Ptes
      /\ q \in Ptes /\ MarkedMore(w.pte, q)
  BY <1>2, MarkedType DEF FoundIn, WalkStates
<1>4. /\ new \in Entries /\ new.page = r.page /\ new.pte = Marked(e.pte, r) /\ Has(new.pte, "V")
  BY <1>2, MarkedType DEF Entries, Has
<1> HIDE DEF w, q, new
<1>5. mem' = [mem EXCEPT ![w.addr] = q]
  BY <1>1, <1>2, UseWrites DEF q, Uses
<1>6. /\ tlb' = [tlb EXCEPT ![i] = new] /\ age' = Touched(i) /\ out' = Outcome(r, e.frame)
      /\ UNCHANGED <<satp, bare, root>>
  BY DEF Uses, UseEntry, new
<1>7. stale' = stale
  BY <1>2, <1>6 DEF Outcome, Fault, Entries
<1>8. tlb \in [Slots -> Entries] /\ age \in [Slots -> Nat]
  BY <1>1 DEF TypeOK, Entries
<1>9. TypeOK'
  <2>1. mem' \in Memories
    BY <1>1, <1>3, <1>5 DEF Memories
  <2>2. tlb' \in [Slots -> Entries] /\ age' \in [Slots -> Nat]
    BY <1>4, <1>6, <1>8, TouchedOrder
  <2> QED  BY <1>1, <1>6, <1>7, <2>1, <2>2 DEF TypeOK, WalkTypeOK, Memories, Entries
<1>10. ReplacementOrder' /\ Filled' = Filled \cup {i}
  <2>1. \A j \in Filled \ {i} : tlb[j].page # new.page
    BY <1>4 DEF Uses
  <2> QED  BY <1>1, <1>4, <1>6, <2>1, UseKeepsOrder DEF Inv
<1>11. tlb'[i] = new /\ \A j \in Slots \ {i} : tlb'[j] = tlb[j]
  BY <1>6, <1>8
<1>12. EmptyIsZeroed'
  BY <1>10, <1>11 DEF Inv, EmptyIsZeroed
<1>13. \A page \in Pages : /\ Walk(mem, root, page) \in WalkStates /\ FoundIn(mem, Walk(mem, root, page))
                          /\ Walk(mem', root', page) \in WalkStates
                          /\ Alike(Walk(mem, root, page), Walk(mem', root', page), w.addr, q)
  <2> SUFFICES ASSUME NEW page \in Pages
               PROVE  /\ Walk(mem, root, page) \in WalkStates /\ FoundIn(mem, Walk(mem, root, page))
                      /\ Walk(mem', root', page) \in WalkStates
                      /\ Alike(Walk(mem, root, page), Walk(mem', root', page), w.addr, q)
    OBVIOUS
  <2>1. page \in Nat /\ mem' \in Memories
    BY <1>9, PagesAreNat DEF TypeOK, WalkTypeOK, Memories
  <2> QED  BY <1>1, <1>3, <1>5, <2>1, MarkedWalk, WalkFinds
<1>14. ASSUME NEW j \in Filled', tlb'[j].page \notin stale'
       PROVE  /\ Found(Walk(mem', root', tlb'[j].page)) /\ Copies(tlb'[j], Walk(mem', root', tlb'[j].page))
              /\ "A" \in tlb'[j].pte.flags
  <2> DEFINE v == Walk(mem', root', tlb'[j].page)
  <2>1. CASE j = i
    <3>1. tlb'[j] = new /\ v \in WalkStates /\ Alike(w, v, w.addr, Marked(w.pte, r))
      BY <1>1, <1>4, <1>11, <1>13, <2>1 DEF w, q
    <3> HIDE DEF v
    <3>2. Found(v) /\ Copies(new, v) /\ "A" \in Marked(e.pte, r).flags
      BY <1>2, <3>1, MarkedCopy DEF new
    <3> QED  BY <1>4, <3>1, <3>2 DEF v
  <2>2. CASE j # i
    <3> DEFINE u == Walk(mem, root, tlb[j].page)
    <3>1. j \in Filled /\ j \in Slots /\ tlb'[j] = tlb[j] /\ tlb[j] \in Entries /\ tlb[j].page \in Pages
      BY <1>8, <1>10, <1>11, <2>2 DEF Filled, Entries
    <3>2. Found(u) /\ Copies(tlb[j], u) /\ "A" \in tlb[j].pte.flags
      BY <1>7, <1>14, <3>1 DEF Inv, Coherent, WalkOf
    <3>3. /\ u \in WalkStates /\ FoundIn(mem, u) /\ v \in WalkStates /\ Alike(u, v, w.addr, q)
      BY <1>13, <3>1
    <3> HIDE DEF u, v
    <3>4. u.addr = w.addr => q = Marked(u.pte, r)
      BY <1>3, <3>2, <3>3 DEF FoundIn, q
    <3>5. Found(v) /\ Copies(tlb[j], v)
      BY <1>3, <3>1, <3>2, <3>3, <3>4, MarkKeepsCopies
    <3> QED  BY <3>1, <3>2, <3>5 DEF v
  <2> QED  BY <2>1, <2>2
<1>15. Coherent'
  BY <1>14 DEF Coherent, WalkOf
<1> QED  BY <1>9, <1>10, <1>12, <1>15 DEF Inv

-----------------------------------------------------------------------------
(* A fault, a satp write and a fence flush: nothing is left to go stale. *)

LEMMA FlushKeepsInv ==
  ASSUME Flush, WalkTypeOK', stale' = {}
  PROVE  Inv'
<1>1. /\ Filled' = {} /\ tlb' \in [Slots -> Entries] /\ age' \in [Slots -> Nat]
      /\ \A i \in Slots : tlb'[i] = NoEntry
  BY FlushEmpties
<1> QED  BY <1>1 DEF Inv, TypeOK, Entries, EmptyIsZeroed, ReplacementOrder, Coherent

(* A zeroed entry answers a request for page 0.  The access it would be for
   then faults: the hit permits nothing and no walk is made. *)
NoPageZero == \A r \in Requests : r.page = 0 => r.mode = Machine

LEMMA ErrorIsWalkFault ==
  ASSUME Inv, NoPageZero, NEW r \in Requests, r.page \notin stale, HitError(r) \/ MissError(r)
  PROVE  WalkFault(r)
<1> DEFINE w == Walk(mem, root, r.page)
<1>1. r.page \in Pages /\ r.acc \in {"load", "store", "fetch"}
  BY RequestType
<1>2. CASE HitError(r)
  <2>1. PICK i \in Slots : tlb[i].page = r.page /\ ~ Permitted(tlb[i].pte.flags, r)
    BY <1>2 DEF HitError, Hit
  <2>2. r.page # 0 /\ tlb[i] \in Entries
    BY <1>2, <2>1 DEF HitError, Bypassed, NoPageZero, Inv, TypeOK, Entries
  <2>3. i \in Filled
    BY <2>1, <2>2 DEF Inv, EmptyIsZeroed, NoEntry
  <2>4. Found(w) /\ Copies(tlb[i], w)
    BY <2>1, <2>3 DEF Inv, Coherent, WalkOf
  <2>5. w \in WalkStates
    BY <1>1, WalkIsFound DEF Inv
  <2> HIDE DEF w
  <2>6. tlb[i].pte \in Ptes /\ w.pte \in Ptes /\ MarkedMore(tlb[i].pte, w.pte)
    BY <2>2, <2>4, <2>5, CopyIsMarked DEF Entries, WalkStates
  <2>7. ~ Permitted(w.pte.flags, r)
    BY <1>1, <2>1, <2>6, MarksArePermitted
  <2> QED  BY <1>2, <2>7 DEF HitError, Error, WalkFault, w
<1>3. CASE MissError(r)
  BY <1>3 DEF MissError, Error, WalkFault
<1> QED  BY <1>2, <1>3

LEMMA AccessKeepsInv ==
  ASSUME Inv, NEW r \in Requests, GuestAccess(r)
  PROVE  Inv'
<1>1. /\ r.page \notin stale /\ r.page \in Nat
      /\ stale' = IF out'.frame = Fault THEN {} ELSE stale
  BY RequestType DEF GuestAccess
<1>2. CASE BypassAccess(r)
  <2>1. out'.frame # Fault
    BY <1>1, <1>2 DEF BypassAccess, Bypass, Outcome, Fault
  <2> QED  BY <1>1, <1>2, <2>1
       DEF BypassAccess, Bypass, Inv, TypeOK, WalkTypeOK, EmptyIsZeroed, ReplacementOrder, Coherent,
           WalkOf, Filled
<1>3. CASE HitOk(r) \/ MissOk(r)
  <2>1. PICK i \in Slots : \E e : Uses(r, i, e)
    BY <1>1, <1>3, AccessOkUses
  <2> QED  BY <1>1, <2>1, UseKeepsInv
<1>4. CASE HitError(r) \/ MissError(r)
  <2>1. Error(r)
    BY <1>4 DEF HitError, MissError
  <2>2. Flush /\ stale' = {} /\ WalkTypeOK'
    BY <1>1, <2>1 DEF Error, Outcome, Inv, TypeOK, WalkTypeOK
  <2> QED  BY <2>2, FlushKeepsInv
<1> QED  BY <1>2, <1>3, <1>4 DEF GuestAccess, Access

(* What a store changes for a page that has a translation makes it stale. *)
LEMMA StoreKeepsInv ==
  ASSUME Inv, NEW s \in Stores, GuestStore(s)
  PROVE  Inv'
<1>1. s.slot \in MemSlots /\ s.pte \in Ptes
  BY WalkInputsAssumption DEF WalkInputsAssumption
<1>2. /\ mem' = [mem EXCEPT ![s.slot] = s.pte] /\ stale' = stale \cup Remapped(mem')
      /\ UNCHANGED <<satp, bare, root, tlb, age>>
  BY DEF GuestStore, StorePte, WritePte
<1>3. TypeOK'
  BY <1>1, <1>2 DEF Inv, TypeOK, WalkTypeOK, Remapped
<1>4. ASSUME NEW i \in Filled, tlb[i].page \notin stale'
      PROVE  Walk(mem', root', tlb[i].page) = WalkOf(tlb[i]) /\ tlb[i].page \notin stale
  <2>1. tlb[i].page \notin stale /\ tlb[i].page \in Pages /\ tlb[i].page \notin Remapped(mem')
    BY <1>2, <1>4 DEF Filled, Inv, TypeOK
  <2>2. Found(WalkOf(tlb[i]))
    BY <2>1 DEF Inv, Coherent
  <2> QED  BY <1>2, <2>1, <2>2 DEF Remapped, WalkOf
<1>5. Filled' = Filled /\ tlb' = tlb
  BY <1>2 DEF Filled
<1>6. Coherent'
  BY <1>4, <1>5 DEF Inv, Coherent, WalkOf
<1> QED  BY <1>2, <1>3, <1>5, <1>6 DEF Inv, EmptyIsZeroed, ReplacementOrder

LEMMA SatpType == ASSUME NEW s \in SatpWrites PROVE s \in [bare : BOOLEAN, ppn : Nat]
BY WalkInputsAssumption DEF WalkInputsAssumption

LEMMA UpdateType ==
  ASSUME NEW s \in [bare : BOOLEAN, ppn : Nat], Update(s)
  PROVE  bare' \in BOOLEAN /\ root' \in Nat
<1>1. s.bare \in BOOLEAN /\ s.ppn \in Nat /\ RootSpan \in Nat \ {0}
  BY WalkInputsAssumption DEF WalkInputsAssumption
<1> QED  BY <1>1, DivisionBounds DEF Update

LEMMA InvInit == GuestInit => Inv
<1> SUFFICES ASSUME GuestInit PROVE Inv
  OBVIOUS
<1>1. /\ tlb = [i \in Slots |-> NoEntry] /\ age = [i \in Slots |-> 0] /\ stale = {}
      /\ mem = [s \in MemSlots |-> NoPte] /\ satp = [bare |-> TRUE, ppn |-> 0]
      /\ bare = TRUE /\ root = 0
  BY DEF GuestInit, Init, WalkInit
<1>2. 0 \in Pages
  <2>1. Span(Levels) \in Nat \ {0}
    BY SpanPositive, PageTableAssumption DEF PageTableAssumption
  <2> QED  BY <2>1 DEF Pages
<1>3. NoPte \in Ptes
  BY DEF NoPte, Ptes
<1>4. NoEntry \in Entries
  BY <1>2, <1>3 DEF NoEntry, Entries
<1>5. TypeOK
  BY <1>1, <1>3, <1>4 DEF TypeOK, WalkTypeOK, Entries
<1>6. Filled = {} /\ \A i \in Slots : tlb[i] = NoEntry
  BY <1>1 DEF Filled, NoEntry, NoPte, Has
<1> QED  BY <1>5, <1>6 DEF Inv, EmptyIsZeroed, ReplacementOrder, Coherent

LEMMA InvNext == Inv /\ [GuestNext]_guestVars => Inv'
<1> SUFFICES ASSUME Inv, [GuestNext]_guestVars PROVE Inv'
  OBVIOUS
<1>1. ASSUME NEW r \in Requests, GuestAccess(r) PROVE Inv'
  BY <1>1, AccessKeepsInv
<1>2. ASSUME NEW s \in SatpWrites, GuestSatp(s) PROVE Inv'
  <2>1. Flush /\ stale' = {} /\ satp' = s /\ mem' = mem /\ Update(s)
    BY <1>2 DEF GuestSatp, SetSatp, WriteSatp
  <2>2. WalkTypeOK'
    BY <2>1, SatpType, UpdateType DEF Inv, TypeOK, WalkTypeOK
  <2> QED  BY <2>1, <2>2, FlushKeepsInv
<1>3. ASSUME NEW s \in Stores, GuestStore(s) PROVE Inv'
  BY <1>3, StoreKeepsInv
<1>4. CASE GuestFence
  <2>1. Flush /\ stale' = {} /\ satp' = satp /\ mem' = mem /\ Update(satp)
    BY <1>4 DEF GuestFence, SFence, Fence
  <2>2. WalkTypeOK'
    BY <2>1, UpdateType DEF Inv, TypeOK, WalkTypeOK
  <2> QED  BY <2>1, <2>2, FlushKeepsInv
<1>5. CASE UNCHANGED guestVars
  BY <1>5 DEF guestVars, Inv, TypeOK, WalkTypeOK, EmptyIsZeroed, ReplacementOrder, Coherent, WalkOf, Filled
<1> QED  BY <1>1, <1>2, <1>3, <1>4, <1>5 DEF GuestNext

LEMMA InvHolds == GuestSpec => []Inv
BY InvInit, InvNext, PTL DEF GuestSpec

-----------------------------------------------------------------------------
(* The MMU's copies of satp, the TLB's entries and the guest's memory keep
   their types, whatever the guest does (Mmu::translate, Mmu::update). *)
THEOREM TypesHold == GuestSpec => []TypeOK
<1>1. Inv => TypeOK
  BY DEF Inv
<1> QED  BY <1>1, InvHolds, PTL

(* A page has one entry at most, and the entry get_tlb_entry gives away is an
   empty one while there is one, then the one unused for longest. *)
THEOREM OldestIsReplaced == GuestSpec => []ReplacementOrder
<1>1. Inv => ReplacementOrder
  BY DEF Inv
<1> QED  BY <1>1, InvHolds, PTL

(* The TLB's copy of an entry never has a bit memory lacks, and lacks the
   dirty bit at most: no write-back takes back what another copy has set. *)
THEOREM CopiesNeverAhead == GuestSpec => []CopiesBehindMemory
<1>1. Inv => CopiesBehindMemory
  BY DEF Inv, Coherent, Copies, CopiesBehindMemory, WalkOf
<1> QED  BY <1>1, InvHolds, PTL

-----------------------------------------------------------------------------
(* Each step of the build with a TLB is one of the build without it. *)
LEMMA StepRefines ==
  ASSUME NoPageZero, Inv, [GuestNext]_guestVars
  PROVE  [WalkNext]_walkVars
<1>1. ASSUME NEW r \in Requests, GuestAccess(r)
      PROVE  Bypass(r) \/ WalkFault(r) \/ WalkOk(r)
  <2>1. r.page \notin stale
    BY <1>1 DEF GuestAccess
  <2>2. CASE BypassAccess(r)
    BY <2>2 DEF BypassAccess
  <2>3. CASE HitOk(r) \/ MissOk(r)
    <3>1. ~ Bypassed(r) /\ \E i \in Slots : \E e : Uses(r, i, e)
      BY <2>1, <2>3, AccessOkUses
    <3> QED  BY <3>1, UseIsWalkOk
  <2>4. CASE HitError(r) \/ MissError(r)
    BY <2>1, <2>4, ErrorIsWalkFault
  <2> QED  BY <1>1, <2>2, <2>3, <2>4 DEF GuestAccess, Access
<1>2. ASSUME NEW s \in SatpWrites, GuestSatp(s) PROVE WriteSatp(s)
  BY <1>2 DEF GuestSatp, SetSatp
<1>3. ASSUME NEW s \in Stores, GuestStore(s) PROVE WritePte(s)
  BY <1>3 DEF GuestStore, StorePte
<1>4. GuestFence => Fence
  BY DEF GuestFence, SFence
<1>5. UNCHANGED guestVars => UNCHANGED walkVars
  BY DEF guestVars, walkVars
<1> QED  BY <1>1, <1>2, <1>3, <1>4, <1>5 DEF GuestNext, WalkNext

(* README.md:25: a guest that fences after it has changed a translation, and
   makes no translated access to page 0, has the same frames, faults and
   accessed and dirty bits with get_tlb_entry as with the walk alone. *)
THEOREM TlbIsInvisible == NoPageZero => (GuestSpec => TlbInvisible)
<1> SUFFICES ASSUME NoPageZero PROVE GuestSpec => TlbInvisible
  OBVIOUS
<1>1. GuestInit => WalkInit
  BY DEF GuestInit, Init
<1>2. Inv /\ [GuestNext]_guestVars => [WalkNext]_walkVars
  BY StepRefines
<1> QED  BY <1>1, <1>2, InvHolds, PTL DEF GuestSpec, TlbInvisible, WalkSpec
=============================================================================
