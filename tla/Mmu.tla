-------------------------------- MODULE Mmu ---------------------------------
(***************************************************************************)
(* The MMU built with its TLB (USE_TLB 1, the default): tlb_cache in front *)
(* of the walk.  An entry keeps its own copy of the page table entry, with *)
(* the accessed and dirty bits, and writes that copy back to mark it.      *)
(*                                                                         *)
(* The code compares ages and otherwise only resets and increments them    *)
(* together, so the model keeps their ranks, which stay bounded.           *)
(***************************************************************************)
EXTENDS MmuWalk, FiniteSets

CONSTANT TlbSize     \* tlb_entries, 4 in the code

ASSUME TlbAssumption == TlbSize \in Nat /\ TlbSize > 0

VARIABLES tlb, age

vars == <<satp, bare, root, mem, out, tlb, age>>

Slots == 1 .. TlbSize

(* flush_tlb zeroes the entries: an empty one is a zeroed one, and there is
   no other mark of emptiness. *)
NoEntry == [page |-> 0, pte |-> NoPte, addr |-> 0, frame |-> 0]

Flush ==
  /\ tlb' = [i \in Slots |-> NoEntry]
  /\ age' = [i \in Slots |-> 0]

Init ==
  /\ WalkInit
  /\ tlb = [i \in Slots |-> NoEntry]
  /\ age = [i \in Slots |-> 0]

-----------------------------------------------------------------------------
(* get_tlb_entry *)

Hit(r, i) == tlb[i].page = r.page /\ \A j \in 1 .. (i - 1) : tlb[j].page # r.page

Miss(r) == \A i \in Slots : tlb[i].page # r.page

(* The first of the oldest entries *)
Victim(i) == \A j \in Slots : age[j] <= age[i] /\ (j < i => age[j] < age[i])

Ranks(f) == [i \in Slots |-> Cardinality({f[j] : j \in {k \in Slots : f[k] < f[i]}})]

(* mutant: an entry keeps its age when it is used *)
TouchedAgesAll(i) == Ranks([j \in Slots |-> age[j] + 1])

(* Every entry ages but the one in use *)
Touched(i) == Ranks([j \in Slots |-> IF j = i THEN 0 ELSE age[j] + 1])

(* What fetch_pte leaves in the victim *)
EntryFor(page, w) ==
  [page |-> page, pte |-> w.pte, addr |-> w.addr, frame |-> FrameOf(page, w)]

-----------------------------------------------------------------------------
(* The rest of translate, with entry e in slot i *)

(* mutant: memory is marked, the copy in the TLB is not *)
UseEntryUnmarked(r, i, e) ==
  /\ Permitted(e.pte.flags, r)
  /\ tlb' = [tlb EXCEPT ![i] = e]
  /\ age' = Touched(i)
  /\ mem' = IF NeedsMark(e.pte, r) THEN [mem EXCEPT ![e.addr] = Marked(e.pte, r)] ELSE mem
  /\ out' = Outcome(r, e.frame)
  /\ UNCHANGED <<satp, bare, root>>

UseEntry(r, i, e) ==
  /\ Permitted(e.pte.flags, r)
  /\ tlb' = [tlb EXCEPT ![i] = [e EXCEPT !.pte = Marked(e.pte, r)]]
  /\ age' = Touched(i)
  /\ mem' = IF NeedsMark(e.pte, r) THEN [mem EXCEPT ![e.addr] = Marked(e.pte, r)] ELSE mem
  /\ out' = Outcome(r, e.frame)
  /\ UNCHANGED <<satp, bare, root>>

(* set_cpu_error: the page fault of the access, and an empty TLB *)
Error(r) ==
  /\ Flush
  /\ out' = Outcome(r, Fault)
  /\ UNCHANGED <<satp, bare, root, mem>>

BypassAccess(r) == Bypass(r) /\ UNCHANGED <<tlb, age>>

HitOk(r) ==
  /\ ~Bypassed(r)
  /\ \E i \in Slots : Hit(r, i) /\ UseEntry(r, i, tlb[i])

HitError(r) ==
  /\ ~Bypassed(r)
  /\ \E i \in Slots : Hit(r, i) /\ ~Permitted(tlb[i].pte.flags, r)
  /\ Error(r)

MissOk(r) ==
  LET w == Walk(mem, root, r.page)
  IN /\ ~Bypassed(r)
     /\ Miss(r)
     /\ Found(w)
     /\ \E i \in Slots : Victim(i) /\ UseEntry(r, i, EntryFor(r.page, w))

MissError(r) ==
  LET w == Walk(mem, root, r.page)
  IN /\ ~Bypassed(r)
     /\ Miss(r)
     /\ ~(Found(w) /\ Permitted(w.pte.flags, r))
     /\ Error(r)

Access(r) == BypassAccess(r) \/ HitOk(r) \/ HitError(r) \/ MissOk(r) \/ MissError(r)

-----------------------------------------------------------------------------
(* satp writes and sfence.vma, which ignores its address and ASID *)

(* mutant: sfence.vma without flush_tlb *)
SFenceUnflushed == Fence /\ UNCHANGED <<tlb, age>>

SetSatp(s) == WriteSatp(s) /\ Flush

SFence == Fence /\ Flush

(* A store to a page table, which the TLB does not see *)
StorePte(s) == WritePte(s) /\ UNCHANGED <<tlb, age>>

Next ==
  \/ \E r \in Requests : Access(r)
  \/ \E s \in SatpWrites : SetSatp(s)
  \/ \E s \in Stores : StorePte(s)
  \/ SFence

(* Any guest at all *)
Spec == Init /\ [][Next]_vars
=============================================================================
