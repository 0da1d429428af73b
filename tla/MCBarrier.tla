----------------------------- MODULE MCBarrier -----------------------------
(***************************************************************************)
(* Instances of YgmBarrier for TLC.                                        *)
(***************************************************************************)
EXTENDS YgmBarrier, TLC

\* Routing type NONE: every message goes straight to its destination.
DirectHop == [a \in Ranks |-> [d \in Ranks |-> d]]

\* Routed: Relay forwards everything between two different other ranks.
CONSTANT Relay
RelayHop == [a \in Ranks |-> [d \in Ranks |-> IF a = d \/ a = Relay THEN d ELSE Relay]]

\* With direct hops both messages and ranks are interchangeable.
Symmetry == Permutations(Msgs) \cup Permutations(Ranks)
=============================================================================
