----------------------------- MODULE MCCounting -----------------------------
(***************************************************************************)
(* Instances of CountingCache for TLC: two ranks, two slots, k1 and k2 in  *)
(* the same slot.                                                          *)
(***************************************************************************)
EXTENDS CountingCache, TLC

CONSTANTS r1, r2, k1, k2, k3

MCSlot == (k1 :> 1) @@ (k2 :> 1) @@ (k3 :> 2)
MCOwner == (k1 :> r1) @@ (k2 :> r2) @@ (k3 :> r2)

Use(i, h) == [interrupts |-> i, handlers |-> h]

\* Handlers insert, or an async() runs handlers, never both.
Careful == {Use(TRUE, FALSE), Use(FALSE, TRUE)}
=============================================================================
