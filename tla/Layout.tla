------------------------------- MODULE Layout -------------------------------
(***************************************************************************)
(* What a rank knows of the machine (include/ygm/detail/layout.hpp).  The  *)
(* constructor splits the communicator by shared memory, then by local id, *)
(* both ordered by rank, and gathers the ids.  An MPI placement is a       *)
(* function host from the ranks 0..size-1 to hosts; as test_layout.cpp     *)
(* demands, every host has the same number of ranks.                       *)
(***************************************************************************)
EXTENDS Integers, FiniteSets

CONSTANT Layouts   \* the layouts considered

VARIABLE lay       \* m_layout of the running program, the same on every rank

RanksOf(l) == 0..l.size - 1

\* The position of x in S, and the members of S in increasing order from 0.
Below(x, S) == Cardinality({y \in S : y < x})
Ordered(S) == [i \in 0..Cardinality(S) - 1 |-> CHOOSE x \in S : Below(x, S) = i]

\* Mutant: the second split is by host id, so it numbers ranks, not nodes.
SplitByHost(host) ==
  LET ranks == DOMAIN host
      onHost == [r \in ranks |-> {q \in ranks : host[q] = host[r]}]
      localId == [r \in ranks |-> Below(r, onHost[r])]
  IN [size |-> Cardinality(ranks),
      node_size |-> Cardinality(onHost[0]),
      local_size |-> Cardinality(onHost[0]),
      node_id |-> localId,
      local_id |-> localId,
      strided_ranks |-> [r \in ranks |-> Ordered(onHost[r])],
      local_ranks |-> [r \in ranks |-> Ordered(onHost[r])]]

LayoutOf(host) ==
  LET ranks == DOMAIN host
      onHost == [r \in ranks |-> {q \in ranks : host[q] = host[r]}]
      localId == [r \in ranks |-> Below(r, onHost[r])]
      column == [r \in ranks |-> {q \in ranks : localId[q] = localId[r]}]
  IN [size |-> Cardinality(ranks),
      node_size |-> Cardinality(column[0]),
      local_size |-> Cardinality(onHost[0]),
      node_id |-> [r \in ranks |-> Below(r, column[r])],
      local_id |-> localId,
      strided_ranks |-> [r \in ranks |-> Ordered(column[r])],
      local_ranks |-> [r \in ranks |-> Ordered(onHost[r])]]

\* mpirun --map-by slot and --map-by node.
BlockPlacement(n, l) == [r \in 0..n * l - 1 |-> r \div l]
CyclicPlacement(n, l) == [r \in 0..n * l - 1 |-> r % n]

-----------------------------------------------------------------------------
\* Node and local ids are the coordinates of a rank in a grid, the strided
\* ranks its column and the local ranks its row.
Grid(l) ==
  /\ l.node_size \in Nat \ {0} /\ l.local_size \in Nat \ {0} /\ l.size \in Nat \ {0}
  /\ \A r \in RanksOf(l) :
       /\ l.node_id[r] \in 0..l.node_size - 1
       /\ l.local_id[r] \in 0..l.local_size - 1
       /\ \A n \in 0..l.node_size - 1 :
            /\ l.strided_ranks[r][n] \in RanksOf(l)
            /\ l.node_id[l.strided_ranks[r][n]] = n
            /\ l.local_id[l.strided_ranks[r][n]] = l.local_id[r]
       /\ \A i \in 0..l.local_size - 1 :
            /\ l.local_ranks[r][i] \in RanksOf(l)
            /\ l.node_id[l.local_ranks[r][i]] = l.node_id[r]
            /\ l.local_id[l.local_ranks[r][i]] = i
  /\ \A r, q \in RanksOf(l) :
       l.node_id[r] = l.node_id[q] /\ l.local_id[r] = l.local_id[q] => r = q

\* Placed by slot or by node, hosts and ranks form a grid.
GridLayout == Grid(lay)

GridLayouts == \A l \in Layouts : Grid(l)

\* The ranks of a node are consecutive, as nl_to_rank computes them.
nl_to_rank(l, n, i) == n * l.local_size + i
Block(l) == \A r \in RanksOf(l) : r = nl_to_rank(l, l.node_id[r], l.local_id[r])
=============================================================================
