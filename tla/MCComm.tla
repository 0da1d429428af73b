------------------------------- MODULE MCComm -------------------------------
(***************************************************************************)
(* Instances of YgmComm for TLC.                                           *)
(***************************************************************************)
EXTENDS YgmComm, TLC

CONSTANTS r1, r2, r3

\* Every message goes straight to its destination.
DirectHop == [a \in Ranks |-> [d \in Ranks |-> d]]

\* r1 forwards what r2 and r3 send one another.
RelayHop == [a \in Ranks |-> [d \in Ranks |-> IF a = d \/ a = r1 THEN d ELSE r1]]

\* A rank and itself are on one node, and r1 and r2.
SelfNear == {<<r, r>> : r \in Ranks}
PairNear == SelfNear \cup {<<r1, r2>>, <<r2, r1>>}

\* For the run with a relay: the application sends from r2 and r3 only, with
\* async() only, and handlers do no more than that either.
RelayNext ==
  \/ \E r, d \in Ranks, m \in Msgs : InUser(r) /\ (r = r1 => Top(r).msg # None) /\ Async(r, m, d)
  \/ \E r \in Ranks : Return(r) \/ EnterBarrier(r) \/ LibraryStep(r) \/ Arrive(r)
  \/ Release

RelaySpec == Init /\ [][RelayNext]_vars

Symmetry == Permutations(Msgs)
=============================================================================
