-------------------------- MODULE BlockPartitioner --------------------------
(***************************************************************************)
(* ygm::container::detail::block_partitioner: indices 0..g-1 in blocks of  *)
(* consecutive ones, one block to a rank, the first g % N blocks one index *)
(* larger than the others.  A partitioner is determined by the size g it   *)
(* was built for.                                                          *)
(***************************************************************************)
EXTENDS Integers

CONSTANT NumRanks

World == 0..NumRanks - 1

SmallBlock(g) == g \div NumRanks
NumLarge(g) == g % NumRanks
LargeBlock(g) == SmallBlock(g) + (IF NumLarge(g) > 0 THEN 1 ELSE 0)

LocalStart(g, r) ==
  IF r < NumLarge(g) THEN r * LargeBlock(g)
  ELSE NumLarge(g) * LargeBlock(g) + (r - NumLarge(g)) * SmallBlock(g)

LocalSize(g, r) == SmallBlock(g) + (IF r < NumLarge(g) THEN 1 ELSE 0)

\* Where owner may be called: one of its assertions fails elsewhere.
Owned(g, i) == i < NumLarge(g) * LargeBlock(g) \/ SmallBlock(g) > 0

OwnerOf(g, i) ==
  IF i < NumLarge(g) * LargeBlock(g) THEN i \div LargeBlock(g)
  ELSE NumLarge(g) + (i - NumLarge(g) * LargeBlock(g)) \div SmallBlock(g)

\* local_index, whose assertion is IsLocal, and global_index.
LocalIndex(g, r, i) == i - LocalStart(g, r)
IsLocal(g, r, i) == LocalIndex(g, r, i) \in 0..LocalSize(g, r) - 1
GlobalIndex(g, r, l) == LocalStart(g, r) + l

-----------------------------------------------------------------------------
(***************************************************************************)
(* bag::rebalance() numbers the items of a bag of g, and computes where    *)
(* each belongs in its own way; it divides by zero if g is less than the   *)
(* number of ranks.                                                        *)
(***************************************************************************)
\* Mutant: blocks as if all were small.
TargetRankSmall(g, idx) == LET r == idx \div (g \div NumRanks) IN IF r < NumRanks THEN r ELSE NumRanks - 1

SmallBlockSize(g) == g \div NumRanks
LargeBlockSize(g) == g \div NumRanks + (IF g \div NumRanks > 0 THEN 1 ELSE 0)
TargetRank(g, idx) ==
  LET large == (g % NumRanks) * LargeBlockSize(g)
  IN IF idx < large THEN idx \div LargeBlockSize(g)
     ELSE (g % NumRanks) + (idx - large) \div SmallBlockSize(g)

-----------------------------------------------------------------------------
\* Each index of an array of any size, smaller than the number of ranks too,
\* is in the block of its owner and of no other rank, and the index computed
\* from its place there is the same: the assertions in block_partitioner hold.
PartitionsUpTo(max) ==
  \A g \in 0..max, i \in 0..max - 1 : i < g =>
    /\ Owned(g, i) /\ OwnerOf(g, i) \in World
    /\ \A r \in World : IsLocal(g, r, i) <=> r = OwnerOf(g, i)
    /\ GlobalIndex(g, OwnerOf(g, i), LocalIndex(g, OwnerOf(g, i), i)) = i

\* rebalance() spreads items as an array of that size spreads its indices, as
\* its comment says, whenever there are as many items as ranks.
TargetsAreOwners(max) ==
  \A g \in NumRanks..max, i \in 0..max - 1 : i < g => TargetRank(g, i) = OwnerOf(g, i)
=============================================================================
