------------------------------ MODULE MmuGuest ------------------------------
(***************************************************************************)
(* The MMU and a guest that follows the rule sfence.vma is for: after it   *)
(* has changed the translation of a mapped page it does not touch the page *)
(* until the TLB has been flushed.  New mappings need no fence.            *)
(***************************************************************************)
EXTENDS Mmu

VARIABLE stale   \* pages the guest has remapped since the last flush

guestVars == <<satp, bare, root, mem, out, tlb, age, stale>>

GuestInit == Init /\ stale = {}

Remapped(m) ==
  {p \in Pages : /\ Found(Walk(mem, root, p))
                 /\ Walk(m, root, p) # Walk(mem, root, p)}

GuestAccess(r) ==
  /\ r.page \notin stale
  /\ Access(r)
  /\ stale' = IF out'.frame = Fault THEN {} ELSE stale

GuestSatp(s) == SetSatp(s) /\ stale' = {}

GuestFence == SFence /\ stale' = {}

GuestStore(s) == StorePte(s) /\ stale' = stale \cup Remapped(mem')

GuestNext ==
  \/ \E r \in Requests : GuestAccess(r)
  \/ \E s \in SatpWrites : GuestSatp(s)
  \/ \E s \in Stores : GuestStore(s)
  \/ GuestFence

GuestSpec == GuestInit /\ [][GuestNext]_guestVars

-----------------------------------------------------------------------------
TypeOK ==
  /\ WalkTypeOK
  /\ tlb \in [Slots -> [page : Pages, pte : Ptes, addr : Nat, frame : Nat]]
  /\ age \in [Slots -> Nat]
  /\ stale \subseteq Pages

(* README.md:25, "SV39/SV48/SV57 MMU": a guest that fences cannot tell the
   TLB is there.  Every access has the outcome, and memory the accessed and
   dirty bits, of the build without it (get_tlb_entry, flush_tlb). *)
TlbInvisible == WalkSpec

Filled == {i \in Slots : Has(tlb[i].pte, "V")}

(* get_tlb_entry: one entry per page, and slots are reused oldest first, an
   empty one before any in use. *)
ReplacementOrder ==
  /\ \A i, j \in Filled : i # j => tlb[i].page # tlb[j].page /\ age[i] # age[j]
  /\ \A i \in Filled, j \in Slots \ Filled : age[i] < age[j]

(* Two 4 KiB pages of one superpage have two copies of its entry.  Neither
   copy ever takes back a bit the other one set in memory. *)
CopiesBehindMemory ==
  \A i \in Filled :
    tlb[i].page \notin stale =>
      LET w == Walk(mem, root, tlb[i].page)
      IN /\ Found(w)
         /\ tlb[i].addr = w.addr
         /\ tlb[i].pte.flags \subseteq w.pte.flags
         /\ w.pte.flags \subseteq tlb[i].pte.flags \cup {"D"}
         /\ "A" \in tlb[i].pte.flags

=============================================================================
