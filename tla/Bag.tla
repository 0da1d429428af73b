-------------------------------- MODULE Bag --------------------------------
(***************************************************************************)
(* ygm::container::bag: each rank holds items, which asynchronous          *)
(* insertions put at the next rank in turn or at a rank that the program   *)
(* names; collective operations spread them evenly, shuffle them, save     *)
(* them.  What a rank holds is a bag here: the order in its deque is that  *)
(* of arrival, so the items at its end may be any.                         *)
(***************************************************************************)
EXTENDS BlockPartitioner, Stages, SequencesExt, FiniteSetsExt

CONSTANTS
  BagObjects,
  BagStarts,      \* where a run may start: the bags there are, with the items of each
                  \* rank, and the files that an earlier run has left
  BagCalls,       \* the collective calls the program may make
  BagItems,       \* the items the program inserts
  MaxInserts,     \* bound: asynchronous insertions in a run
  MaxCalls        \* bound: collective operations in a run

VARIABLES
  held,     \* m_local_bag: held[c][r]; Unborn when there is no such bag
  next,     \* m_next of the partitioner of each bag at each rank
  disk,     \* the file of each rank
  plan,     \* rebalance: to_send of each rank
  due,      \* the items that a bag should have
  inserts   \* insertions the bound still allows

vars == <<net, held, next, disk, plan, due, inserts, stageVars>>

Unborn == [i \in {-1} |-> 1]
NoPlan == [d \in {} |-> 0]
Union(f) == FoldSet(LAMBDA r, b : b (+) f[r], EmptyBag, World)

Init ==
  /\ StagesInit(World, MaxCalls)
  /\ \E s \in BagStarts :
       /\ held = [c \in BagObjects |-> IF c \in DOMAIN s.bags THEN s.bags[c] ELSE [r \in World |-> Unborn]]
       /\ due = [c \in BagObjects |-> IF c \in DOMAIN s.bags THEN Union(s.bags[c]) ELSE EmptyBag]
       /\ disk = [r \in World |-> IF s.files = <<>> THEN Unborn ELSE s.files[r]]
  /\ next = [c \in BagObjects |-> [r \in World |-> r]]
  /\ plan = [r \in World |-> NoPlan]
  /\ inserts = MaxInserts

-----------------------------------------------------------------------------
(***************************************************************************)
(* Asynchronous insertions.                                                *)
(***************************************************************************)
Insertion(c, items, dest) == [obj |-> c, items |-> items, to |-> dest]

\* owner() of the round robin partitioner, which moves on.
RoundRobin(n) == IF n + 1 >= NumRanks THEN 0 ELSE n + 1

Inserting(r, c, items, dest) ==
  /\ Sending(r) /\ inserts > 0 /\ held[c][r] # Unborn
  /\ net' = Plus(net, {Insertion(c, items, dest)})
  /\ due' = [due EXCEPT ![c] = @ (+) items]
  /\ inserts' = inserts - 1
  /\ UNCHANGED <<held, disk, plan, stageVars>>

AsyncInsert(r, c, i) ==
  /\ Inserting(r, c, SetToBag({i}), RoundRobin(next[c][r]))
  /\ next' = [next EXCEPT ![c][r] = RoundRobin(@)]

AsyncInsertAt(r, c, i, dest) == Inserting(r, c, SetToBag({i}), dest) /\ UNCHANGED next

AsyncInsertMany(r, c, dest) == Inserting(r, c, SetToBag(BagItems), dest) /\ UNCHANGED next

local_insert(c, r, items) == held' = [held EXCEPT ![c][r] = @ (+) items]

\* World that rebalance run handlers between the messages that they send.
SendingPlan(r) == op.kind = "rebalance" /\ stage = 2 /\ at[r] = "do"

HandleInsert(m) ==
  /\ Receiving(m.to) \/ SendingPlan(m.to)
  /\ local_insert(m.obj, m.to, m.items)
  /\ net' = BagRemove(net, m)
  /\ UNCHANGED <<next, disk, plan, due, inserts, stageVars>>

-----------------------------------------------------------------------------
(***************************************************************************)
(* Collective operations; as in KeyValue, copies, moves and assignments    *)
(* have the barrier of the program before them.  o.given[r] is the sequence*)
(* of items that rank r gives to a constructor.                            *)
(***************************************************************************)
Makes == {"construct", "copy", "move"}
Locals == {"destroy", "swap", "clear", "local_shuffle", "global_shuffle", "serialize", "deserialize"}

Barriers(o) ==
  CASE o.kind = "construct" -> IF o.input = "empty" THEN 1 ELSE 2
    [] o.kind \in Locals -> 1
    [] o.kind = "rebalance" -> 3
    [] OTHER -> 2
Quiet(o) == o.kind \in Locals

MayCall(r, o) ==
  /\ (held[o.to][r] = Unborn) <=> o.kind \in Makes
  /\ "from" \in DOMAIN o => held[o.from][r] # Unborn
  /\ o.kind = "deserialize" => \A q \in World : disk[q] # Unborn

Call(r, o) ==
  /\ Enter(r, o, MayCall(r, o), o.kind = "construct")
  /\ UNCHANGED <<held, next, disk, plan, due, inserts>>

\* What the bags should hold after the operation.
Promised ==
  CASE op.kind \in {"copy", "assign"} -> [due EXCEPT ![op.to] = due[op.from]]
    [] op.kind = "move" -> [due EXCEPT ![op.to] = due[op.from], ![op.from] = EmptyBag]
    [] op.kind \in {"move_assign", "swap"} -> [due EXCEPT ![op.to] = due[op.from], ![op.from] = due[op.to]]
    [] op.kind \in {"clear", "destroy"} -> [due EXCEPT ![op.to] = EmptyBag]
    [] op.kind = "construct" -> [due EXCEPT ![op.to] =
         IF op.input = "empty" THEN EmptyBag
         ELSE FoldSet(LAMBDA r, b : FoldSeq(LAMBDA i, d : Plus(d, {i}), b, op.given[r]), EmptyBag,
                      IF op.input = "list" THEN {0} ELSE World)]
    [] op.kind = "deserialize" -> [due EXCEPT ![op.to] = Union(disk)]
    [] OTHER -> due

Barrier ==
  /\ Pass(Barriers(op), Quiet(op))
  /\ due' = IF stage = 0 THEN Promised ELSE due
  /\ UNCHANGED <<held, next, disk, plan, inserts>>

Done(r) == DonePart(r, Barriers(op)) /\ UNCHANGED <<due, inserts>>

\* A stage in which r changes bags.
Become(r, new) == held' = new /\ UNCHANGED <<net, disk, plan>> /\ Done(r)

Create(r) ==
  /\ InStage(r, {"construct"}, 0)
  /\ Become(r, [held EXCEPT ![op.to][r] = EmptyBag])
  /\ next' = [next EXCEPT ![op.to][r] = r]

\* What rank r inserts, one after the other, each at the next rank in turn: of
\* the initializer list, which all have, it is rank 0 that inserts.
FromList(r) == IF r = 0 THEN op.given[0] ELSE <<>>
FromStl(r) == op.given[r]
FromContainer(r) == op.given[r]

Turn(r, n) == (next[op.to][r] + n) % NumRanks
Fill(r) ==
  /\ InStage(r, {"construct"}, 1)
  /\ LET seq == CASE op.input = "list" -> FromList(r)
                  [] op.input = "stl" -> FromStl(r)
                  [] op.input = "container" -> FromContainer(r)
     IN /\ net' = FoldSet(LAMBDA n, b : Plus(b, {Insertion(op.to, SetToBag({seq[n]}), Turn(r, n))}), net, DOMAIN seq)
        /\ next' = [next EXCEPT ![op.to][r] = Turn(r, Len(seq))]
  /\ UNCHANGED <<held, disk, plan>>
  /\ Done(r)

Destroy(r) == InStage(r, {"destroy"}, 1) /\ Become(r, [held EXCEPT ![op.to][r] = Unborn]) /\ UNCHANGED next

\* Copies have a partitioner of their own, which starts anew.
Copy(r) ==
  /\ InStage(r, {"copy"}, 1)
  /\ Become(r, [held EXCEPT ![op.to][r] = held[op.from][r]])
  /\ next' = [next EXCEPT ![op.to][r] = r]
Move(r) ==
  /\ InStage(r, {"move"}, 1)
  /\ Become(r, [held EXCEPT ![op.to][r] = held[op.from][r], ![op.from][r] = EmptyBag])
  /\ next' = [next EXCEPT ![op.to][r] = r]

\* Copy assignment: of a temporary copy, which is then moved here.
Assign(r) ==
  InStage(r, {"assign"}, 1) /\ Become(r, [held EXCEPT ![op.to][r] = held[op.from][r]]) /\ UNCHANGED next

Swapped(r) == [held EXCEPT ![op.to][r] = held[op.from][r], ![op.from][r] = held[op.to][r]]
MoveAssign(r) == InStage(r, {"move_assign"}, 1) /\ Become(r, Swapped(r)) /\ UNCHANGED next
LocalSwap(r) == InStage(r, {"swap"}, 1) /\ Become(r, Swapped(r)) /\ UNCHANGED next

LocalClear(r) ==
  InStage(r, {"clear"}, 1) /\ Become(r, [held EXCEPT ![op.to][r] = EmptyBag]) /\ UNCHANGED next

\* local_shuffle() changes the order only.
LocalShuffle(r) == InStage(r, {"local_shuffle"}, 1) /\ Become(r, held) /\ UNCHANGED next

\* global_shuffle() takes all items out, then sends each to a rank that it
\* draws: how many of each item to which rank.
Drawn(b) ==
  LET Split(i) == {f \in [World -> 0..CopiesIn(i, b)] : MapThenSumSet(LAMBDA q : f[q], World) = CopiesIn(i, b)}
  IN {f \in [BagToSet(b) -> UNION {Split(i) : i \in BagToSet(b)}] : \A i \in BagToSet(b) : f[i] \in Split(i)}
GlobalShuffle(r) ==
  /\ InStage(r, {"global_shuffle"}, 1)
  /\ \E f \in Drawn(held[op.to][r]) :
       LET Sent(i, q) == [m \in {Insertion(op.to, SetToBag({i}), q)} |-> f[i][q]]
       IN net' = FoldSet(LAMBDA iq, n : n (+) Sent(iq[1], iq[2]), net, {iq \in (DOMAIN f) \X World : f[iq[1]][iq[2]] > 0})
  /\ held' = [held EXCEPT ![op.to][r] = EmptyBag]
  /\ UNCHANGED <<next, disk, plan>>
  /\ Done(r)

\* serialize() and deserialize() of the file of this rank.
Serialize(r) ==
  /\ InStage(r, {"serialize"}, 1)
  /\ disk' = [disk EXCEPT ![r] = held[op.to][r]]
  /\ UNCHANGED <<net, held, next, plan>>
  /\ Done(r)
Deserialize(r) ==
  InStage(r, {"deserialize"}, 1) /\ Become(r, [held EXCEPT ![op.to][r] = disk[r]]) /\ UNCHANGED next

(***************************************************************************)
(* rebalance(): items are numbered over the ranks; each has the rank that  *)
(* would hold its number in an array.  A rank counts how many it has for   *)
(* each other rank, then sends as many, in any order of the ranks, from    *)
(* the end of what it has, which handlers add to meanwhile.                *)
(***************************************************************************)
\* size() and prefix_sum() of the local sizes, which do not change in the stage.
Size(r) == BagCardinality(held[op.to][r])
Prefix(r) == MapThenSumSet(Size, 0..r - 1)
Total == MapThenSumSet(Size, World)

\* The division traps when there are items, but fewer than ranks.
Defined(r) == Size(r) > 0 => SmallBlockSize(Total) > 0

Plan(r) ==
  /\ InStage(r, {"rebalance"}, 1) /\ Defined(r)
  /\ LET target == [i \in Prefix(r)..Prefix(r) + Size(r) - 1 |-> TargetRank(Total, i)]
         Moved(d) == {i \in DOMAIN target : target[i] = d}
     IN plan' = [plan EXCEPT ![r] = [d \in {target[i] : i \in DOMAIN target} \ {r} |-> Cardinality(Moved(d))]]
  /\ UNCHANGED <<net, held, next, disk>>
  /\ Done(r)

\* local_pop(n): any n of the items.
Pops(b, n) == {p \in SubBag(b) : BagCardinality(p) = n}

SendPlanned(r, d) ==
  /\ SendingPlan(r) /\ d \in DOMAIN plan[r]
  /\ \E p \in Pops(held[op.to][r], plan[r][d]) :
       /\ held' = [held EXCEPT ![op.to][r] = @ (-) p]
       /\ net' = Plus(net, {Insertion(op.to, p, d)})
  /\ plan' = [plan EXCEPT ![r] = [e \in DOMAIN @ \ {d} |-> @[e]]]
  /\ UNCHANGED <<next, disk, due, inserts, stageVars>>
AllSent(r) ==
  /\ SendingPlan(r) /\ DOMAIN plan[r] = {}
  /\ plan' = [plan EXCEPT ![r] = NoPlan]
  /\ UNCHANGED <<net, held, next, disk>>
  /\ Done(r)

-----------------------------------------------------------------------------
Collective(r) ==
  \/ Create(r) \/ Fill(r) \/ Destroy(r)
  \/ Copy(r) \/ Move(r) \/ Assign(r) \/ MoveAssign(r) \/ LocalSwap(r) \/ LocalClear(r)
  \/ LocalShuffle(r) \/ GlobalShuffle(r) \/ Serialize(r) \/ Deserialize(r)
  \/ Plan(r) \/ (\E d \in World : SendPlanned(r, d)) \/ AllSent(r)

Program(r) ==
  \/ \E c \in BagObjects :
       \/ \E i \in BagItems : AsyncInsert(r, c, i) \/ \E d \in World : AsyncInsertAt(r, c, i, d)
       \/ \E d \in World : AsyncInsertMany(r, c, d)
  \/ \E o \in BagCalls : Call(r, o)

Finished == AllCalled /\ UNCHANGED vars

Next ==
  \/ \E r \in World : Program(r) \/ Collective(r)
  \/ \E m \in BagToSet(net) : HandleInsert(m)
  \/ Barrier
  \/ Finished

Spec == Init /\ [][Next]_vars

-----------------------------------------------------------------------------
InFlight(c) ==
  FoldSet(LAMBDA m, b : b (+) [i \in DOMAIN m.items |-> m.items[i] * net[m]],
          EmptyBag, {m \in BagToSet(net) : m.obj = c})

\* No item is lost or doubled: what ranks hold and what is in flight are the
\* items that were inserted, at any time, in the middle of rebalance() and of
\* global_shuffle() too, and after each other collective operation.
ItemsKept ==
  (op = Idle \/ op.kind \in {"rebalance", "global_shuffle"}) =>
    \A c \in BagObjects : held[c][0] # Unborn => Union(held[c]) (+) InFlight(c) = due[c]

\* After rebalance() each rank has as many items as it would have in an array,
\* although what a rank sends may be what it has just received.
Balanced ==
  op.kind = "rebalance" /\ stage = 2 /\ AllIn /\ net = EmptyBag =>
    \A r \in World : BagCardinality(held[op.to][r]) = LocalSize(BagCardinality(due[op.to]), r)

\* rebalance() works for a bag of any size.
RebalanceDefined ==
  op.kind = "rebalance" /\ stage = 1 => \A r \in World : at[r] = "do" => Defined(r)
=============================================================================
