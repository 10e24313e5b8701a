------------------------------- MODULE MCMmu --------------------------------
(* Small instances of the MMU: two levels of two-entry tables (pages 0 to
   3), the root table in frame 1 and a second one in frame 2, data above. *)
EXTENDS MmuGuest

Req(p, a, m) == [page |-> p, acc |-> a, mode |-> m, sum |-> FALSE, mxr |-> FALSE]
Leaf(f, n) == [flags |-> {"V"} \cup f, ppn |-> n]
Put(s, p) == [slot |-> s, pte |-> p]
Satp(n) == [bare |-> FALSE, ppn |-> n]

BothTables == 2 .. 5

(* Both halves of a superpage, read and written; two levels of tables; every
   kind of access, in every mode. *)
GuestRequests ==
  { Req(3, a, m) : a \in {"load", "store", "fetch"}, m \in {User, Supervisor} } \cup
  { [Req(2, "load", Supervisor) EXCEPT !.sum = TRUE, !.mxr = TRUE],
    Req(2, "store", Supervisor), Req(2, "store", Machine), Req(1, "load", User) }

(* Slot 3 points to the second table, is a superpage, aligned or not, or is
   unmapped; slot 2 points to the table too, for page 1. *)
GuestStores ==
  { Put(3, Leaf({}, 2)), Put(2, Leaf({}, 2)),
    Put(3, Leaf({"R", "W"}, 4)), Put(3, Leaf({"R", "X"}, 5)), Put(3, NoPte),
    Put(5, Leaf({"R", "W", "U"}, 7)), Put(5, Leaf({"W"}, 7)),
    Put(4, Leaf({"X", "U"}, 6)), Put(4, Leaf({}, 6)) }

OnAndOff == {Satp(1), [bare |-> TRUE, ppn |-> 0]}
=============================================================================
