------------------------------ MODULE MmuWalk -------------------------------
(***************************************************************************)
(* The MMU built without a TLB (USE_TLB 0): every access walks the page    *)
(* table that is in memory now.  This is what the build with a TLB         *)
(* promises its guest.                                                     *)
(***************************************************************************)
EXTENDS PageTable

CONSTANTS
  Requests,    \* the accesses the guest makes
  Stores,      \* the page table entries it writes: [slot, pte]
  SatpWrites,  \* the values it writes to satp: [bare, ppn]
  RootSpan     \* Mmu::mppn holds the root's frame modulo this (2^20)

ASSUME WalkInputsAssumption ==
  /\ Requests \subseteq [page : Pages, acc : {"load", "store", "fetch"},
                         mode : {User, Supervisor, Machine, 255}, sum : BOOLEAN, mxr : BOOLEAN]
  /\ Stores \subseteq [slot : MemSlots, pte : Ptes]
  /\ SatpWrites \subseteq [bare : BOOLEAN, ppn : Nat]
  /\ RootSpan \in Nat /\ RootSpan > 0

VARIABLES
  satp,        \* the CSR
  bare, root,  \* Mmu::mode and Mmu::mppn, copied from satp by Mmu::update
  mem,         \* page table slots of RAM
  out          \* the last access and its outcome

walkVars == <<satp, bare, root, mem, out>>

Fault == -1
Outcome(r, f) == [page |-> r.page, acc |-> r.acc, frame |-> f]

WalkTypeOK ==
  /\ satp \in [bare : BOOLEAN, ppn : Nat]
  /\ bare \in BOOLEAN
  /\ root \in Nat
  /\ mem \in [MemSlots -> Ptes]

WalkInit ==
  /\ satp = [bare |-> TRUE, ppn |-> 0]
  /\ bare = TRUE
  /\ root = 0
  /\ mem = [s \in MemSlots |-> NoPte]
  /\ out = [page |-> 0, acc |-> "none", frame |-> 0]

Bypassed(r) == bare \/ r.mode = Machine

Bypass(r) ==
  /\ Bypassed(r)
  /\ out' = Outcome(r, r.page)
  /\ UNCHANGED <<satp, bare, root, mem>>

WalkFault(r) ==
  LET w == Walk(mem, root, r.page)
  IN /\ ~Bypassed(r)
     /\ ~(Found(w) /\ Permitted(w.pte.flags, r))
     /\ out' = Outcome(r, Fault)
     /\ UNCHANGED <<satp, bare, root, mem>>

WalkOk(r) ==
  LET w == Walk(mem, root, r.page)
  IN /\ ~Bypassed(r)
     /\ Found(w) /\ Permitted(w.pte.flags, r)
     /\ mem' = IF NeedsMark(w.pte, r) THEN [mem EXCEPT ![w.addr] = Marked(w.pte, r)] ELSE mem
     /\ out' = Outcome(r, FrameOf(r.page, w))
     /\ UNCHANGED <<satp, bare, root>>

(* Mmu::update *)
Update(s) ==
  /\ bare' = s.bare
  /\ root' = s.ppn % RootSpan

WriteSatp(s) == satp' = s /\ Update(s) /\ UNCHANGED <<mem, out>>

Fence == Update(satp) /\ UNCHANGED <<satp, mem, out>>

WritePte(s) == mem' = [mem EXCEPT ![s.slot] = s.pte] /\ UNCHANGED <<satp, bare, root, out>>

WalkNext ==
  \/ \E r \in Requests : Bypass(r) \/ WalkFault(r) \/ WalkOk(r)
  \/ \E s \in SatpWrites : WriteSatp(s)
  \/ \E s \in Stores : WritePte(s)
  \/ Fence

WalkSpec == WalkInit /\ [][WalkNext]_walkVars
=============================================================================
