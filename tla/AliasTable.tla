----------------------------- MODULE AliasTable -----------------------------
(***************************************************************************)
(* ygm::random::alias_table: weighted sampling.  The items are spread over *)
(* the ranks such that all have the same weight of them, splitting items   *)
(* where need be; each rank then has a table of slots of the same weight,  *)
(* in which an item or two share (Vose's algorithm).  A sample draws a     *)
(* rank, a slot, and one of its items.                                     *)
(*                                                                         *)
(* Weights are exact: integers, which are scaled by the number of ranks,   *)
(* and in a table by its number of items, so that they can be divided.     *)
(***************************************************************************)
EXTENDS Stages, Sequences, SequencesExt, FiniteSetsExt

CONSTANTS
  NumRanks,
  Inputs,      \* what a table may be constructed from
  MaxSamples   \* bound: samples in a run

VARIABLES
  local_items,  \* m_local_items as constructed
  new_items,    \* new_local_items, which m_local_items is swapped with once balanced
  table,        \* m_local_alias_table
  drawn,        \* the items that visitors were called with
  samples

vars == <<local_items, new_items, table, drawn, samples, net, stageVars>>

World == 0..NumRanks - 1
Item(id, w) == [id |-> id, weight |-> w]
NoItem == 0  \* Item()

Init ==
  /\ StagesInit(World, 1)
  /\ local_items = [r \in World |-> <<>>] /\ new_items = [r \in World |-> <<>>]
  /\ table = [r \in World |-> <<>>]
  /\ drawn = {} /\ samples = MaxSamples

Weight(items) == MapThenSumSet(LAMBDA n : items[n].weight, DOMAIN items)

-----------------------------------------------------------------------------
\* The items of a container are read after the barrier of its for_all().
ReadAt == IF op.input = "stl" THEN 0 ELSE 1

Call(r, o) ==
  /\ Enter(r, o, TRUE, o.input = "stl")
  /\ UNCHANGED <<local_items, new_items, table, drawn, samples>>

Barrier == Pass(ReadAt + 3, FALSE) /\ UNCHANGED <<local_items, new_items, table, drawn, samples>>

ReadItems(r) ==
  /\ InStage(r, {"construct"}, ReadAt)
  /\ local_items' = [local_items EXCEPT ![r] =
       [n \in DOMAIN op.given[r] |-> Item(op.given[r][n].id, NumRanks * op.given[r][n].weight)]]
  /\ DonePart(r, ReadAt + 3)
  /\ UNCHANGED <<new_items, table, drawn, samples, net>>

(***************************************************************************)
(* balance_weight: the items of all ranks, in the order of the ranks, are  *)
(* cut where the weight of a rank is reached.  What is left of an item that*)
(* fills more than a rank comes last.                                      *)
(***************************************************************************)
target_weight == MapThenSumSet(LAMBDA q : Weight(local_items[q]), World) \div NumRanks
prefix_sum(r) == MapThenSumSet(LAMBDA q : Weight(local_items[q]), 0..r - 1)

Sends(dest, items) ==
  IF items # <<>> /\ dest < NumRanks THEN {[kind |-> "items", to |-> dest, items |-> items]} ELSE {}

RECURSIVE Spill(_, _, _, _, _)
Spill(items, n, curr_weight, dest_rank, to_send) ==
  IF n > Len(items) THEN Sends(dest_rank, to_send)
  ELSE
    LET i == items[n]
        remaining == curr_weight + i.weight - target_weight
        rest == IF remaining >= target_weight THEN 0 ELSE remaining
    IN IF remaining < 0
         THEN Spill(items, n + 1, curr_weight + i.weight, dest_rank, Append(to_send, i))
         ELSE Sends(dest_rank, Append(to_send, Item(i.id, i.weight - remaining)))
                \cup Spill(IF remaining >= target_weight THEN Append(items, Item(i.id, remaining)) ELSE items,
                           n + 1, rest, dest_rank + 1,
                           IF rest # 0 THEN <<Item(i.id, rest)>> ELSE <<>>)

balance_weight(r) ==
  /\ InStage(r, {"construct"}, ReadAt + 1)
  /\ net' = Plus(net, Spill(local_items[r], 1, prefix_sum(r) % target_weight, prefix_sum(r) \div target_weight, <<>>))
  /\ DonePart(r, ReadAt + 3)
  /\ UNCHANGED <<local_items, new_items, table, drawn, samples>>

HandleItems(m) ==
  /\ m.kind = "items" /\ Receiving(m.to)
  /\ new_items' = [new_items EXCEPT ![m.to] = @ \o m.items]
  /\ net' = BagRemove(net, m)
  /\ UNCHANGED <<local_items, table, drawn, samples, stageVars>>

(***************************************************************************)
(* build_local_alias_table.                                                *)
(***************************************************************************)
Cell(p, a, b) == [p |-> p, a |-> a, b |-> b]

\* Mutant: the light item takes its own weight of the heavy one.
WeightLeftOver(h, l, avg_weight) == h.weight - l.weight

\* The light item takes what it lacks.
WeightLeft(h, l, avg_weight) == h.weight + l.weight - avg_weight

\* A light item and as much of a heavy one make a slot; what remains is flushed
\* into slots of one item each.
RECURSIVE Pair(_, _, _)
Pair(light, heavy, avg_weight) ==
  IF light = <<>> \/ heavy = <<>>
    THEN LET rest == Reverse(heavy) \o Reverse(light)
         IN [n \in DOMAIN rest |-> Cell(avg_weight, rest[n].id, NoItem)]
    ELSE LET l == Last(light)
             h == Last(heavy)
             left == Item(h.id, WeightLeft(h, l, avg_weight))
         IN <<Cell(l.weight, l.id, h.id)>>
              \o IF left.weight < avg_weight
                   THEN Pair(Append(Front(light), left), Front(heavy), avg_weight)
                   ELSE Pair(Front(light), Append(Front(heavy), left), avg_weight)

AliasSlots(items) ==
  LET scaled == [n \in DOMAIN items |-> Item(items[n].id, Len(items) * items[n].weight)]
      avg_weight == Weight(items)
  IN Pair(SelectSeq(scaled, LAMBDA i : i.weight < avg_weight),
          SelectSeq(scaled, LAMBDA i : i.weight >= avg_weight), avg_weight)

build_local_alias_table(r) ==
  /\ InStage(r, {"construct"}, ReadAt + 2)
  /\ table' = [table EXCEPT ![r] = AliasSlots(new_items[r])]
  /\ DonePart(r, ReadAt + 3)
  /\ UNCHANGED <<local_items, new_items, drawn, samples, net>>

-----------------------------------------------------------------------------
Built == \A r \in World : table[r] # <<>>

async_sample(r) ==
  /\ Sending(r) /\ Built /\ op = Idle /\ samples > 0 /\ samples' = samples - 1
  /\ \E dest \in World : net' = Plus(net, {[kind |-> "sample", to |-> dest]})
  /\ UNCHANGED <<local_items, new_items, table, drawn, stageVars>>

\* The rank draws a slot, and f below avg_weight.
HandleSample(m) ==
  /\ m.kind = "sample" /\ Receiving(m.to)
  /\ \E s \in ToSet(table[m.to]) :
       \E i \in {s.a} \cup (IF s.p < Weight(new_items[m.to]) THEN {s.b} ELSE {}) : drawn' = drawn \cup {i}
  /\ net' = BagRemove(net, m)
  /\ UNCHANGED <<local_items, new_items, table, samples, stageVars>>

Finished == AllCalled /\ samples = 0 /\ UNCHANGED vars

Next ==
  \/ \E r \in World :
       \/ \E o \in Inputs : Call(r, o)
       \/ ReadItems(r) \/ balance_weight(r) \/ build_local_alias_table(r) \/ async_sample(r)
  \/ \E m \in BagToSet(net) : HandleItems(m) \/ HandleSample(m)
  \/ Barrier
  \/ Finished

Spec == Init /\ [][Next]_vars

-----------------------------------------------------------------------------
\* The weight of an item in the slots of a rank, times their number.
Share(r, id) ==
  MapThenSumSet(LAMBDA n : LET s == table[r][n]
                           IN (IF s.a = id THEN s.p ELSE 0) + (IF s.b = id THEN Weight(new_items[r]) - s.p ELSE 0),
                DOMAIN table[r])
GivenWeight(r, id) ==
  LET of == {n \in DOMAIN local_items[r] : local_items[r][n].id = id}
  IN MapThenSumSet(LAMBDA n : local_items[r][n].weight, of)

Ids == UNION {{i.id : i \in ToSet(local_items[r])} : r \in World}
AllCells(ranks) == FoldSet(LAMBDA r, n : n * Len(table[r]), 1, ranks)

\* Once the tables are built, all ranks have the same weight, and each item has
\* its weight in the slots of all ranks together, however it was split: samples
\* are drawn in proportion to the weights, and no slot is drawn that is not
\* shared.
TableExact ==
  Built =>
    /\ \A r \in World : Weight(new_items[r]) = target_weight
    /\ \A id \in Ids :
         MapThenSumSet(LAMBDA r : Share(r, id) * AllCells(World \ {r}), World)
           = MapThenSumSet(LAMBDA r : GivenWeight(r, id), World) * AllCells(World)
    /\ drawn \subseteq Ids
=============================================================================
