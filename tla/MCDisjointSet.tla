--------------------------- MODULE MCDisjointSet ---------------------------
(***************************************************************************)
(* Instances of DisjointSet for TLC: two ranks, caches of two slots, four  *)
(* items or eight.                                                         *)
(***************************************************************************)
EXTENDS DisjointSet, TLC

CONSTANTS r1, r2

MCItems == 1..8
MCOwner == <<r1, r2, r1, r2, r1, r2, r1, r2>>
MCSlot == <<1, 2, 2, 1, 1, 2, 2, 1>>

Call(n, r, i, j, x) == [id |-> n, from |-> r, a |-> i, b |-> j, exec |-> x]

\* Ties: 1 and 2 go under their successors while those do; and a way up of
\* three items, with its caches.
Ties(x) == {Call(1, r1, 1, 2, x), Call(2, r2, 2, 3, x), Call(3, r1, 3, 4, x)}
Pairs(x) == {Call(1, r1, 1, 2, ~x), Call(2, r2, 3, 4, x), Call(3, r2, 1, 4, x)}
Short == {Call(5, r1, 1, 5, FALSE)}
MCCalls == Ties(FALSE) \cup Pairs(TRUE) \cup Short

\* The deepest tree of eight items: the unions of 1 and 2, 3 and 4, 5 and 6,
\* 7 and 8, 2 and 4, 6 and 8, 4 and 8, each after a barrier.
Item(p, r, e) == [parent |-> p, rank |-> r, est |-> e]
Deep == <<Item(2, 0, 0), Item(4, 1, 1), Item(4, 0, 0), Item(8, 2, 2),
          Item(6, 0, 0), Item(8, 1, 1), Item(8, 0, 0), Item(8, 3, 3)>>

Start(items, calls) == [known |-> items, data |-> Deep, todo |-> calls]
MCStarts == {Start({}, Ties(FALSE)), Start({}, Pairs(TRUE)), Start(MCItems, Short)}
=============================================================================
