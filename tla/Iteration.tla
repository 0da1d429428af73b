----------------------------- MODULE Iteration -----------------------------
(***************************************************************************)
(* What containers inherit from base_iteration and base_iterators, and the *)
(* proxies transform, filter and flatten: loops over the local items of    *)
(* each rank after a barrier, and what is made of them: gathers,           *)
(* reductions, other containers.  A proxy iterates over its container, or  *)
(* over another proxy, and hands on what it makes of each value.           *)
(*                                                                         *)
(* Items are pairs: a key and a value, or a vector of two.  Between a loop *)
(* without a barrier after it (for_all, collect) and the next barrier, the *)
(* program does not insert into the container.                             *)
(***************************************************************************)
EXTENDS Stages, SequencesExt, FiniteSetsExt

CONSTANTS
  NumRanks,
  Items,       \* the items that the program inserts
  ItemStarts,  \* where a run may start: the items of each rank
  OwnerOfValue,\* the rank that a container which is made keeps a value at
  OwnerOfKey,
  Reads,       \* the collective calls the program may make
  MaxInserts,  \* bound: asynchronous insertions in a run
  MaxReads     \* bound: collective operations in a run

VARIABLES
  items,    \* items[r]: the local items
  out,      \* out[r][n]: what the n-th operation gave rank r
  target,   \* spgto at each rank: the number of the operation whose result it is
  part,     \* what a rank contributes to an MPI collective, and in which operation
  past,     \* for each operation past its first barrier, what it should have seen
  due,      \* the items inserted
  inserts   \* insertions the bound still allows

World == 0..NumRanks - 1
vars == <<net, items, out, target, part, past, due, inserts, stageVars>>

Sum(f) == FoldSet(LAMBDA r, b : b (+) f[r], EmptyBag, World)
Nothing == [n |-> 0, value |-> EmptyBag]

Init ==
  /\ StagesInit(World, MaxReads)
  /\ items \in ItemStarts /\ due = Sum(items)
  /\ out = [r \in World |-> [n \in 1..MaxReads |-> EmptyBag]]
  /\ target = [r \in World |-> 0]
  /\ part = [r \in World |-> Nothing]
  /\ past = <<>>
  /\ inserts = MaxInserts

\* The number of the operation that ranks are calling.
Number == MaxReads - ops

-----------------------------------------------------------------------------
(***************************************************************************)
(* Proxies.                                                                *)
(***************************************************************************)
\* The functions that the program gives.
Doubled(v) == 2 * v
Wanted(v) == v[1] # v[2]

transform(v) == <<Doubled(v)>>
keys(v) == <<v[1]>>
values(v) == <<v[2]>>
filter(v) == IF Wanted(v) THEN <<v>> ELSE <<>>
flatten(v) == v

Handed(proxy, v) ==
  CASE proxy = "transform" -> transform(v)
    [] proxy = "keys" -> keys(v)
    [] proxy = "values" -> values(v)
    [] proxy = "filter" -> filter(v)
    [] proxy = "flatten" -> flatten(v)

\* What a function sees of an item through a chain of proxies, and of a bag.
Through(chain, v) ==
  FoldLeft(LAMBDA seq, p : FlattenSeq([n \in DOMAIN seq |-> Handed(p, seq[n])]), <<v>>, chain)
View(chain, b) ==
  FoldSet(LAMBDA v, all : FoldLeft(LAMBDA c, w : c (+) [x \in {w} |-> b[v]], all, Through(chain, v)),
          EmptyBag, BagToSet(b))

\* The values that rank r sees in the operation.
Seen(r) == View(op.chain, items[r])

-----------------------------------------------------------------------------
AsyncInsert(r, i, dest) ==
  /\ Sending(r) /\ stage = 0 /\ inserts > 0
  /\ net' = Plus(net, {[kind |-> "insert", to |-> dest, n |-> 0, value |-> i]})
  /\ due' = Plus(due, {i})
  /\ inserts' = inserts - 1
  /\ UNCHANGED <<items, out, target, part, past, stageVars>>

HandleInsert(m) ==
  /\ m.kind = "insert"
  /\ items' = [items EXCEPT ![m.to] = Plus(@, {m.value})]
  /\ UNCHANGED out

\* The lambda of gather() inserts where the static pointer of its rank says.
HandleGather(m) ==
  /\ m.kind = "gather"
  /\ out' = [out EXCEPT ![m.to][target[m.to]] = Plus(@, {m.value})]
  /\ UNCHANGED items

\* A container that collect() or reduce_by_key() makes; of the values that
\* reduce_by_key() merges the bag says which they are.
HandleMake(m) ==
  /\ m.kind = "make"
  /\ out' = [out EXCEPT ![m.to][m.n] = Plus(@, {m.value})]
  /\ UNCHANGED items

Handle(m) ==
  /\ Receiving(m.to)
  /\ HandleInsert(m) \/ HandleGather(m) \/ HandleMake(m)
  /\ net' = BagRemove(net, m)
  /\ UNCHANGED <<target, part, past, due, inserts, stageVars>>

-----------------------------------------------------------------------------
(***************************************************************************)
(* Collective operations.                                                  *)
(***************************************************************************)
Twice == {"iterate", "gather", "reduce"}
MPIKinds == {"sum", "min", "max", "logical_and", "logical_or", "prefix_sum"}

Barriers(o) == IF o.kind \in Twice THEN 2 ELSE 1
Quiet(o) == o.kind # "gather"

\* reduce() asserts that there is a value.
MayCall(o) == o.kind = "reduce" => View(o.chain, due) # EmptyBag

\* Mutant: the static pointer is bound by the first gather only.
CallPointing(r, o) ==
  /\ Enter(r, o, MayCall(o), o.kind = "is_same")
  /\ target' = IF o.kind = "gather" /\ target[r] = 0 THEN [target EXCEPT ![r] = MaxReads - ops'] ELSE target
  /\ UNCHANGED <<items, out, part, past, due, inserts>>

Call(r, o) ==
  /\ Enter(r, o, MayCall(o), o.kind = "is_same")
  /\ target' = IF o.kind = "gather" THEN [target EXCEPT ![r] = MaxReads - ops'] ELSE target
  /\ UNCHANGED <<items, out, part, past, due, inserts>>

Barrier ==
  /\ Pass(Barriers(op), Quiet(op))
  /\ past' = IF stage > 0 THEN past ELSE Append(past, [op |-> op, seen |-> View(op.chain, due)])
  /\ UNCHANGED <<items, out, target, part, due, inserts>>

Done(r) == DonePart(r, Barriers(op)) /\ UNCHANGED <<target, past, inserts>>

Result(r, b) == out' = [out EXCEPT ![r][Number] = b]

\* for_all(), with a function that may change the items, and loops from
\* begin() to end(), which are two barriers as reduce() has them.
Changed(b) == FoldSet(LAMBDA v, c : c (+) [w \in {<<v[1], v[2] + 1>>} |-> b[v]], EmptyBag, BagToSet(b))
ForAll(r) ==
  /\ InStage(r, {"for_all"}, 1)
  /\ Result(r, Seen(r))
  /\ UNCHANGED <<net, items, part, due>>
  /\ Done(r)
ForAllChanging(r) ==
  /\ InStage(r, {"change_all"}, 1)
  /\ Result(r, Seen(r))
  /\ items' = [items EXCEPT ![r] = Changed(@)]
  /\ due' = (due (-) items[r]) (+) Changed(items[r])
  /\ UNCHANGED <<net, part>>
  /\ Done(r)
Begin(r) ==
  /\ InStage(r, {"iterate", "reduce"}, 1)
  /\ UNCHANGED <<net, items, out, part, due>>
  /\ Done(r)
Iterate(r) ==
  /\ InStage(r, {"iterate"}, 2)
  /\ Result(r, Seen(r))
  /\ UNCHANGED <<net, items, part, due>>
  /\ Done(r)

\* Loops that send a message for each value they see: v goes to to[v].
Messages(kind, r, to) ==
  FoldSet(LAMBDA v, b : b (+) [m \in {[kind |-> kind, to |-> d, n |-> Number, value |-> v] : d \in to[v]} |-> Seen(r)[v]],
          EmptyBag, BagToSet(Seen(r)))
Sends(r, msgs) == net' = net (+) msgs /\ UNCHANGED <<items, out, part, due>> /\ Done(r)

\* gather() to one rank, or to all with broadcasts.
Gather(r) ==
  /\ InStage(r, {"gather"}, 1)
  /\ Sends(r, Messages("gather", r, [v \in BagToSet(Seen(r)) |-> IF op.rank = -1 THEN World ELSE {op.rank}]))
Collect(r) ==
  /\ InStage(r, {"collect"}, 1)
  /\ Sends(r, Messages("make", r, [v \in BagToSet(Seen(r)) |-> {OwnerOfValue[v]}]))
ReduceByKey(r) ==
  /\ InStage(r, {"reduce_by_key"}, 1)
  /\ Sends(r, Messages("make", r, [v \in BagToSet(Seen(r)) |-> {OwnerOfKey[v[1]]}]))

(***************************************************************************)
(* MPI collectives: each rank contributes, and goes on when it has what it *)
(* needs of the others.  all_reduce is AllReduce.                          *)
(***************************************************************************)
Contributes(r, b) ==
  /\ part[r].n # Number
  /\ part' = [part EXCEPT ![r] = [n |-> Number, value |-> b]]
  /\ UNCHANGED <<net, items, out, target, past, due, inserts, stageVars>>
AllHave == \A r \in World : part[r].n = Number
Takes(r, b) ==
  /\ part[r].n = Number
  /\ Result(r, b)
  /\ UNCHANGED <<net, items, part, due>>
  /\ Done(r)

Greater(b, v) == {w \in BagToSet(b) : w > v}
\* The k largest of b: each value as often as the greater ones leave room.
TopK(b, k) ==
  LET Room(v) == k - MapThenSumSet(LAMBDA w : b[w], Greater(b, v))
      top == {v \in BagToSet(b) : Room(v) > 0}
  IN [v \in top |-> Min({b[v], Room(v)})]
MergeTopK(k) == FoldSet(LAMBDA r, b : TopK(b (+) part[r].value, k), EmptyBag, World)

LocalTopK(r) == InStage(r, {"gather_topk"}, 1) /\ Contributes(r, TopK(Seen(r), op.k))
GatherTopK(r) == InStage(r, {"gather_topk"}, 1) /\ AllHave /\ Takes(r, MergeTopK(op.k))

\* reduce(): a rank without a value contributes nothing.
LocalReduce(r) == InStage(r, {"reduce"}, 2) /\ Contributes(r, Seen(r))
Reduce(r) == InStage(r, {"reduce"}, 2) /\ AllHave /\ Takes(r, Sum([q \in World |-> part[q].value]))

\* The collectives of collective.hpp, of the number of local items.
Given(q) == BagCardinality(part[q].value)
prefix_sum(r) == MapThenSumSet(Given, 0..r - 1)
sum == MapThenSumSet(Given, World)
min == Min({Given(q) : q \in World})
max == Max({Given(q) : q \in World})
logical_and == IF \A q \in World : Given(q) # 0 THEN 1 ELSE 0
logical_or == IF \E q \in World : Given(q) # 0 THEN 1 ELSE 0

Combined(r) ==
  CASE op.kind = "prefix_sum" -> prefix_sum(r)
    [] op.kind = "sum" -> sum
    [] op.kind = "min" -> min
    [] op.kind = "max" -> max
    [] op.kind = "logical_and" -> logical_and
    [] op.kind = "logical_or" -> logical_or

LocalValue(r) == InStage(r, MPIKinds, 1) /\ Contributes(r, items[r])
MPICollective(r) == InStage(r, MPIKinds, 1) /\ AllHave /\ Takes(r, SetToBag({Combined(r)}))

\* is_same(): ranks get the value of rank 0, then agree whether all have it.
bcast(r) ==
  /\ InStage(r, {"is_same"}, 0) /\ (r = 0 \/ part[0].n = Number)
  /\ part' = [part EXCEPT ![r] = [n |-> Number, value |-> SetToBag({op.given[r]})]]
  /\ UNCHANGED <<net, items, out, due>>
  /\ Done(r)
Alike == \A r \in World : part[r].value = part[0].value
is_same(r) == InStage(r, {"is_same"}, 1) /\ AllHave /\ Takes(r, SetToBag({Alike}))

-----------------------------------------------------------------------------
Collective(r) ==
  \/ ForAll(r) \/ ForAllChanging(r) \/ Begin(r) \/ Iterate(r)
  \/ Gather(r) \/ Collect(r) \/ ReduceByKey(r)
  \/ LocalTopK(r) \/ GatherTopK(r) \/ LocalReduce(r) \/ Reduce(r)
  \/ LocalValue(r) \/ MPICollective(r) \/ bcast(r) \/ is_same(r)

Finished == AllCalled /\ UNCHANGED vars

Next ==
  \/ \E r \in World :
       \/ \E i \in Items, d \in World : AsyncInsert(r, i, d)
       \/ \E o \in Reads : Call(r, o)
       \/ Collective(r)
  \/ \E m \in BagToSet(net) : Handle(m)
  \/ Barrier
  \/ Finished

Spec == Init /\ [][Next]_vars

-----------------------------------------------------------------------------
\* What the n-th operation should have given, had it seen each item once.
Complete(n) ==
  LET o == past[n].op
      seen == past[n].seen
      given == [r \in World |-> out[r][n]]
      Everywhere(b) == \A r \in World : given[r] = b
  IN CASE o.kind \in {"for_all", "change_all", "iterate", "collect"} -> Sum(given) = seen
       [] o.kind = "reduce_by_key" ->
            \A r \in World : given[r] = [v \in {v \in BagToSet(seen) : OwnerOfKey[v[1]] = r} |-> seen[v]]
       [] o.kind = "gather" ->
            \A r \in World : given[r] = IF o.rank \in {-1, r} THEN seen ELSE EmptyBag
       [] o.kind = "gather_topk" -> Everywhere(TopK(seen, o.k))
       [] o.kind = "reduce" -> Everywhere(seen)
       [] o.kind = "sum" -> Everywhere(SetToBag({BagCardinality(seen)}))
       [] o.kind = "is_same" -> Everywhere(SetToBag({\A r \in World : o.given[r] = o.given[0]}))
       [] OTHER -> TRUE

\* Loops, gathers, reductions and the containers that are made of others have
\* seen every item inserted before the operation exactly once, through any
\* chain of proxies, when it is over and what it sent has arrived; the results
\* of one gather do not go into the object of another, which a static pointer
\* at each rank tells apart.
ResultsComplete ==
  op = Idle /\ net = EmptyBag => \A n \in DOMAIN past : Complete(n)
=============================================================================
