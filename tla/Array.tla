------------------------------- MODULE Array -------------------------------
(***************************************************************************)
(* ygm::container::array: a vector in blocks over the ranks, updated by    *)
(* messages to owners, with collective operations that lay it out anew.    *)
(*                                                                         *)
(* Several arrays, so that one may be copied, moved or assigned to another.*)
(***************************************************************************)
EXTENDS BlockPartitioner, Stages, SequencesExt, FiniteSetsExt

CONSTANTS
  Arrays,
  Starts,      \* where a run may start: the arrays there are, with their contents
  Calls,       \* the collective calls the program may make
  ValueWidth,  \* how many numbers mapped_type has
  Updates,     \* the asynchronous updates that the program may issue
  MaxUpdates,  \* bound: updates in a run
  MaxOps       \* bound: collective operations in a run

VARIABLES
  arr,         \* arr[a][r]: m_global_size, m_default_value, m_local_vec and
               \* the size that partitioner was built for
  got,         \* sort: s_samples and s_to_sort of each rank
  want,        \* what the arrays should hold: functions on indices
  sorted,      \* sort() was called, so its static references are bound
  updates      \* updates the bound still allows

vars == <<arr, net, got, want, sorted, updates, stageVars>>

Unborn == [size |-> -1, part |-> 0, default |-> 0, vec |-> <<>>]
NoneGot == [samples |-> EmptyBag, values |-> EmptyBag]

\* The block of rank r of an array with these contents.
Block(c, r) == [l \in 1..LocalSize(Len(c), r) |-> c[GlobalIndex(Len(c), r, l - 1) + 1]]

Indexed(c) == [i \in 0..Len(c) - 1 |-> c[i + 1]]

Init ==
  /\ \E c \in Starts :
       /\ arr = [a \in Arrays |-> [r \in World |->
            IF a \notin DOMAIN c THEN Unborn
            ELSE [size |-> Len(c[a]), part |-> Len(c[a]), default |-> 0, vec |-> Block(c[a], r)]]]
       /\ want = [a \in Arrays |-> IF a \in DOMAIN c THEN Indexed(c[a]) ELSE <<>>]
  /\ StagesInit(World, MaxOps)
  /\ got = [r \in World |-> NoneGot]
  /\ sorted = FALSE
  /\ updates = MaxUpdates

-----------------------------------------------------------------------------
(***************************************************************************)
(* Asynchronous updates.                                                   *)
(***************************************************************************)
Msg(a, to, kind, i, v) == [arr |-> a, to |-> to, kind |-> kind, index |-> i, value |-> v]

\* A message to the owner of i, as rank r computes it.
ToOwner(s, a, kind, i, v) == Msg(a, OwnerOf(s.part, i), kind, i, v)

\* async_binary_op_update_value and async_unary_op_update_value, with the
\* operations that the class names.
BitOp(F(_, _), a, b) ==
  MapThenSumSet(LAMBDA k : F((a \div 2^k) % 2, (b \div 2^k) % 2) * 2^k, 0..2)
BinaryOp(kind, old, v) ==
  CASE kind = "bit_and" -> BitOp(LAMBDA a, b : a * b, old, v)
    [] kind = "bit_or" -> BitOp(LAMBDA a, b : Max({a, b}), old, v)
    [] kind = "bit_xor" -> BitOp(LAMBDA a, b : (a + b) % 2, old, v)
    [] kind = "logical_and" -> IF old # 0 /\ v # 0 THEN 1 ELSE 0
    [] kind = "logical_or" -> IF old # 0 \/ v # 0 THEN 1 ELSE 0
    [] kind = "multiplies" -> old * v
    [] kind = "divides" -> old \div v
    [] kind = "plus" -> old + v
    [] kind = "minus" -> old - v
UnaryOp(kind, old) == IF kind = "increment" THEN old + 1 ELSE old - 1

Applied(kind, old, v) ==
  CASE kind \in {"set", "put"} -> v
    [] kind = "reduce" -> v + old
    [] kind \in {"increment", "decrement"} -> UnaryOp(kind, old)
    [] OTHER -> BinaryOp(kind, old, v)

Update(r, a, u) ==
  /\ Sending(r) /\ updates > 0
  /\ u.index < arr[a][r].size
  /\ net' = Plus(net, {ToOwner(arr[a][r], a, u.kind, u.index, u.value)})
  /\ updates' = updates - 1
  /\ UNCHANGED <<arr, got, want, sorted, stageVars>>

\* The assertion of local_index holds, and the block has that many values.
Fits(m) ==
  LET s == arr[m.arr][m.to]
  IN IsLocal(s.part, m.to, m.index) /\ LocalIndex(s.part, m.to, m.index) < Len(s.vec)

\* local_insert, local_visit and local_reduce.  A "put" is an insertion that a
\* collective operation makes.
LocalUpdate(m) ==
  /\ m.kind \notin {"sample", "value"} /\ Receiving(m.to) /\ Fits(m)
  /\ arr' = [arr EXCEPT ![m.arr][m.to].vec[LocalIndex(arr[m.arr][m.to].part, m.to, m.index) + 1] =
                          Applied(m.kind, @, m.value)]
  /\ want' = IF m.kind = "put" THEN want
               ELSE [want EXCEPT ![m.arr][m.index] = Applied(m.kind, @, m.value)]
  /\ net' = BagRemove(net, m)
  /\ UNCHANGED <<got, sorted, updates, stageVars>>

\* The lambdas of sort().
Collect(m) ==
  /\ m.kind \in {"sample", "value"} /\ Receiving(m.to)
  /\ got' = IF m.kind = "sample"
              THEN [got EXCEPT ![m.to].samples = Plus(@, {<<m.value, m.index>>})]
              ELSE [got EXCEPT ![m.to].values = Plus(@, {m.value})]
  /\ net' = BagRemove(net, m)
  /\ UNCHANGED <<arr, want, sorted, updates, stageVars>>

-----------------------------------------------------------------------------
(***************************************************************************)
(* What constructors put at which index, for each rank: o.given[r] is the  *)
(* sequence of values or of pairs of an index and a value that r gives.    *)
(* An initializer list is the same at all ranks and put in place by rank 0.*)
(***************************************************************************)
GivenPairs == {"pairs", "bag_of_pairs", "map", "stl_pairs"}

Numbered(vals, start) == {<<start + j - 1, vals[j]>> : j \in DOMAIN vals}

FromList(o, r) == IF r = 0 THEN Numbered(o.given[0], 0) ELSE {}

FromPairs(o, r) == IF r = 0 THEN ToSet(o.given[0]) ELSE {}

\* Containers and STL containers of values: numbered on from the lower ranks'.
Offset(o, r) == MapThenSumSet(LAMBDA q : Len(o.given[q]), 0..r - 1)
FromContainer(o, r) == Numbered(o.given[r], Offset(o, r))
FromStl(o, r) == Numbered(o.given[r], Offset(o, r))

FromBagOfPairs(o, r) == ToSet(o.given[r])
FromMap(o, r) == ToSet(o.given[r])
FromStlPairs(o, r) == ToSet(o.given[r])

Placed(o, r) ==
  CASE o.input = "size" -> {}
    [] o.input = "list" -> FromList(o, r)
    [] o.input = "pairs" -> FromPairs(o, r)
    [] o.input = "container" -> FromContainer(o, r)
    [] o.input = "stl" -> FromStl(o, r)
    [] o.input = "bag_of_pairs" -> FromBagOfPairs(o, r)
    [] o.input = "map" -> FromMap(o, r)
    [] o.input = "stl_pairs" -> FromStlPairs(o, r)

\* The largest index, which is compared as a key_type, or as a mapped_type.
MaxIndex(o) == Max({0} \cup UNION {{p[1] : p \in Placed(o, r)} : r \in World})
MaxIndexAsValue(o) ==
  Max({0} \cup UNION {{p[1] % ValueWidth : p \in Placed(o, r)} : r \in World})

SizeOf(o) ==
  CASE o.input = "size" -> o.size
    [] o.input = "list" -> Len(o.given[0])
    [] o.input \in {"pairs", "stl_pairs"} -> MaxIndex(o) + 1
    [] o.input \in {"bag_of_pairs", "map"} -> MaxIndexAsValue(o) + 1
    [] o.input \in {"container", "stl"} -> MapThenSumSet(LAMBDA q : Len(o.given[q]), World)

(***************************************************************************)
(* Collective operations.                                                  *)
(***************************************************************************)
\* The barriers of each.  Barriers between which nothing happens count as one,
\* and moves have the barriers with which programs surround them.  A quiet
\* operation goes on after its last barrier.
Barriers(o) ==
  CASE o.kind = "construct" -> IF o.input \in {"size", "stl_pairs"} THEN 2 ELSE 3
    [] o.kind \in {"copy", "swap", "destroy"} -> 1
    [] o.kind \in {"resize", "assign", "move", "move_assign"} -> 2
    [] o.kind = "sort" -> 4
Quiet(o) == o.kind \in {"assign", "swap", "destroy"} \/ (o.kind = "construct" /\ o.input = "stl_pairs")

\* Constructors make a new array, other operations need one.
MayCall(r, o) ==
  /\ (arr[o.to][r] = Unborn) <=> o.kind \in {"construct", "copy", "move"}
  /\ "from" \in DOMAIN o => arr[o.from][r] # Unborn
  /\ o.kind = "sort" => ~sorted /\ arr[o.to][r].size > 0

\* Copies and constructors have work to do before their first barrier.
Call(r, o) ==
  /\ Enter(r, o, MayCall(r, o), o.kind \in {"copy", "construct"})
  /\ sorted' = (sorted \/ o.kind = "sort")
  /\ UNCHANGED <<arr, got, want, updates>>

\* The array: each index with the value in the block of its owner.
Content(a) ==
  LET size == arr[a][0].size
  IN [i \in 0..size - 1 |->
        LET r == OwnerOf(size, i) IN arr[a][r].vec[LocalIndex(size, r, i) + 1]]

\* What local_for_all shows at r, and what the local iterators show.
ForAll(a, r) ==
  {<<GlobalIndex(arr[a][r].part, r, l - 1), arr[a][r].vec[l]>> : l \in DOMAIN arr[a][r].vec}
Iterated(a, r) ==
  LET s == arr[a][r]
  IN {<<LocalStart(s.part, r) + l, s.vec[l + 1]>> : l \in 0..LocalSize(s.part, r) - 1}

\* The n-th element of a bag in an order.
Nth(b, n, Less(_, _)) ==
  LET Below(x) == BagCardinality([y \in {y \in BagToSet(b) : Less(y, x)} |-> b[y]])
  IN CHOOSE x \in BagToSet(b) : Below(x) < n /\ n <= Below(x) + CopiesIn(x, b)
LessPair(p, q) == p[1] < q[1] \/ (p[1] = q[1] /\ p[2] < q[2])
BagOfValues(f) == [v \in {f[i] : i \in DOMAIN f} |-> Cardinality({i \in DOMAIN f : f[i] = v})]
Ascending(b) == [n \in 1..BagCardinality(b) |-> Nth(b, n, LAMBDA x, y : x < y)]

\* What the operation should make of the arrays; a resized array has whatever
\* it has at new indices (see NewSlotsFilled).
Promised ==
  LET a == op.to
      lists == IF op.input \in {"list", "pairs"} THEN 1 ELSE NumRanks
      in == FlattenSeq([k \in 1..lists |-> op.given[k - 1]])
      Of(i) == {j \in DOMAIN in : IF op.input \in GivenPairs THEN in[j][1] = i ELSE j = i + 1}
      Constructed == [i \in 0..SizeOf(op) - 1 |->
                        IF op.input = "stl_pairs" \/ Of(i) = {} THEN op.fill
                        ELSE LET v == in[Max(Of(i))] IN IF op.input \in GivenPairs THEN v[2] ELSE v]
  IN CASE op.kind = "resize" ->
            [want EXCEPT ![a] = [i \in 0..op.size - 1 |->
                                   IF i \in DOMAIN want[a] THEN want[a][i] ELSE Content(a)[i]]]
       [] op.kind = "construct" -> [want EXCEPT ![a] = Constructed]
       [] op.kind = "sort" ->
            [want EXCEPT ![a] = Indexed(Ascending(BagOfValues(@)))]
       [] op.kind = "assign" -> [want EXCEPT ![a] = want[op.from]]
       [] op.kind = "swap" -> [want EXCEPT ![a] = want[op.from], ![op.from] = want[a]]
       [] op.kind \in {"move", "move_assign"} ->
            [want EXCEPT ![a] = want[op.from], ![op.from] = <<>>]
       [] op.kind = "destroy" -> [want EXCEPT ![a] = <<>>]
       [] op.kind = "copy" -> want

Barrier ==
  /\ Pass(Barriers(op), Quiet(op))
  /\ want' = IF stage + 1 = Barriers(op) THEN Promised ELSE want
  /\ got' = IF Over(Barriers(op), Quiet(op)) THEN [r \in World |-> NoneGot] ELSE got
  /\ UNCHANGED <<arr, sorted, updates>>

\* Rank r has done its part of a stage.
Done(r) == DonePart(r, Barriers(op)) /\ UNCHANGED <<sorted, updates>>

\* Mutant: takes the indices in the new layout.
KeptAfterwards(s, a, r, n) ==
  {Msg(a, OwnerOf(n, GlobalIndex(n, r, l - 1)), "put", GlobalIndex(n, r, l - 1), s.vec[l]) :
     l \in {l \in DOMAIN s.vec : GlobalIndex(n, r, l - 1) < n}}

\* Values of the block whose indices remain, to be set at their new owners.
Kept(s, a, r, n) ==
  {Msg(a, OwnerOf(n, GlobalIndex(s.part, r, l - 1)), "put", GlobalIndex(s.part, r, l - 1), s.vec[l]) :
     l \in {l \in DOMAIN s.vec : GlobalIndex(s.part, r, l - 1) < n}}

\* resize(size, fill_value): vector::resize leaves what is in the block where
\* it is.
Repartition(r, a, n, fill) ==
  LET s == arr[a][r]
  IN /\ arr' = [arr EXCEPT ![a][r] =
                  [size |-> n, part |-> n, default |-> fill,
                   vec |-> [l \in 1..LocalSize(n, r) |-> IF l <= Len(s.vec) THEN s.vec[l] ELSE fill]]]
     /\ net' = Plus(net, Kept(s, a, r, n))
     /\ UNCHANGED <<got, want>>
     /\ Done(r)

Resize(r) == InStage(r, {"resize"}, 1) /\ Repartition(r, op.to, op.size, op.fill)

\* Constructors: a new object, resize() to the size that all ranks agree on,
\* then each rank's insertions.
Create(r) ==
  /\ InStage(r, {"construct"}, 0)
  /\ arr' = [arr EXCEPT ![op.to][r] = [size |-> 0, part |-> 0, default |-> op.fill, vec |-> <<>>]]
  /\ UNCHANGED <<net, got, want>>
  /\ Done(r)
Size(r) == InStage(r, {"construct"}, 1) /\ Repartition(r, op.to, SizeOf(op), op.fill)
Fill(r) ==
  /\ InStage(r, {"construct"}, 2)
  /\ net' = Plus(net, {Msg(op.to, OwnerOf(SizeOf(op), p[1]),
                           IF op.input = "stl_pairs" THEN "set" ELSE "put", p[1], p[2]) : p \in Placed(op, r)})
  /\ UNCHANGED <<arr, got, want>>
  /\ Done(r)

\* The copy constructor copies the block as it is at the call.
Copy(r) ==
  /\ InStage(r, {"copy"}, 0)
  /\ LET s == arr[op.from][r]
     IN /\ arr' = [arr EXCEPT ![op.to][r] = [s EXCEPT !.part = s.size]]
        /\ want' = [want EXCEPT ![op.to] = [i \in 0..s.size - 1 |->
                      IF OwnerOf(s.size, i) = r THEN want[op.from][i]
                      ELSE IF i \in DOMAIN @ THEN @[i] ELSE 0]]
  /\ UNCHANGED <<net, got>>
  /\ Done(r)

\* What moves leave: the source keeps its partitioner.
Moved(r) ==
  /\ LET s == arr[op.from][r]
     IN arr' = [arr EXCEPT ![op.to][r] = [s EXCEPT !.part = s.size],
                           ![op.from][r] = [s EXCEPT !.size = 0, !.vec = <<>>]]
  /\ UNCHANGED <<net, got, want>>
  /\ Done(r)
Move(r) == InStage(r, {"move"}, 1) /\ Moved(r)
MoveAssign(r) == InStage(r, {"move_assign"}, 1) /\ Moved(r)

\* The destructor, whose barrier delivers the last updates.
Destroy(r) ==
  /\ InStage(r, {"destroy"}, 1)
  /\ arr' = [arr EXCEPT ![op.to][r] = Unborn]
  /\ UNCHANGED <<net, got, want>>
  /\ Done(r)

\* Copy assignment: resize() to the size of the source, with the default value
\* that the target has, then the block of the source.
AssignSize(r) ==
  InStage(r, {"assign"}, 1) /\ Repartition(r, op.to, arr[op.from][r].size, arr[op.to][r].default)
Assign(r) ==
  /\ InStage(r, {"assign"}, 2)
  /\ arr' = [arr EXCEPT ![op.to][r].default = arr[op.from][r].default,
                        ![op.to][r].vec = arr[op.from][r].vec]
  /\ UNCHANGED <<net, got, want>>
  /\ Done(r)

\* swap(): a barrier, then local_swap.
LocalSwap(r) ==
  /\ InStage(r, {"swap"}, 1)
  /\ arr' = [arr EXCEPT ![op.to][r] = arr[op.from][r], ![op.from][r] = arr[op.to][r]]
  /\ UNCHANGED <<net, got, want>>
  /\ Done(r)

-----------------------------------------------------------------------------
(***************************************************************************)
(* sort(): pivots from samples that all ranks have, values to the rank     *)
(* between whose pivots they are, local sorts, and back in order.  All     *)
(* ranks draw the same sample indices, op.drawn: their generators start    *)
(* from the same state.                                                    *)
(***************************************************************************)
SamplesPerPivot(n) == Max({Min({20, n \div NumRanks}), 1})
Drawn(n) == [1..SamplesPerPivot(n) * (NumRanks - 1) -> 0..n - 1]

\* Each sample is broadcast by the rank that has it.
Sample(r) ==
  /\ InStage(r, {"sort"}, 1)
  /\ LET a == op.to
         s == arr[a][r]
         mine == {j \in DOMAIN op.drawn : IsLocal(s.part, r, op.drawn[j])}
         Sent(j, q) == Msg(a, q, "sample", op.drawn[j], s.vec[LocalIndex(s.part, r, op.drawn[j]) + 1])
     IN net' = FoldSet(LAMBDA j, n : Plus(n, {Sent(j, q) : q \in World}), net, mine)
  /\ UNCHANGED <<arr, got, want>>
  /\ Done(r)

\* Pivots are in order of value and then of index, so that duplicates of one
\* value may go to several ranks.
Pivot(r, n) == Nth(got[r].samples, n * SamplesPerPivot(arr[op.to][r].size), LessPair)

\* The rank for a value: how many pivots are below it.
Bucket(r, v, i) == Cardinality({n \in 1..NumRanks - 1 : LessPair(Pivot(r, n), <<v, i>>)})

Distribute(r) ==
  /\ InStage(r, {"sort"}, 2)
  /\ BagCardinality(got[r].samples) = Len(op.drawn)
  /\ LET s == arr[op.to][r]
         Sent(l) == Msg(op.to, Bucket(r, s.vec[l], GlobalIndex(s.part, r, l - 1)), "value", 0, s.vec[l])
     IN net' = FoldSet(LAMBDA l, n : Plus(n, {Sent(l)}), net, DOMAIN s.vec)
  /\ UNCHANGED <<arr, got, want>>
  /\ Done(r)

\* prefix_sum of how many values the ranks have received
Prefix(r) == MapThenSumSet(LAMBDA q : BagCardinality(got[q].values), 0..r - 1)

Reinsert(r) ==
  /\ InStage(r, {"sort"}, 3)
  /\ LET vals == Ascending(got[r].values)
         Sent(n) == Msg(op.to, OwnerOf(arr[op.to][r].size, Prefix(r) + n - 1), "put", Prefix(r) + n - 1, vals[n])
     IN net' = Plus(net, {Sent(n) : n \in DOMAIN vals})
  /\ UNCHANGED <<arr, got, want>>
  /\ Done(r)

-----------------------------------------------------------------------------
Collective(r) ==
  \/ Resize(r)
  \/ Create(r) \/ Size(r) \/ Fill(r)
  \/ Copy(r) \/ Move(r) \/ MoveAssign(r)
  \/ AssignSize(r) \/ Assign(r)
  \/ LocalSwap(r) \/ Destroy(r)
  \/ Sample(r) \/ Distribute(r) \/ Reinsert(r)

CallSort(r, a) ==
  \E d \in Drawn(arr[a][r].size) : Call(r, [kind |-> "sort", to |-> a, drawn |-> d])

Program(r) ==
  \/ \E a \in Arrays, u \in Updates : Update(r, a, u)
  \/ \E o \in Calls : Call(r, o)
  \/ \E a \in Arrays : CallSort(r, a)

Finished == AllCalled /\ UNCHANGED vars

Next ==
  \/ \E r \in World : Program(r) \/ Collective(r)
  \/ \E m \in BagToSet(net) : LocalUpdate(m) \/ Collect(m)
  \/ Barrier
  \/ Finished

Spec == Init /\ [][Next]_vars

-----------------------------------------------------------------------------
\* Between collective operations all ranks have an array in the same layout,
\* and each index has the value that the updates and the collective operations
\* so far give it: a resized array keeps its values, a sorted one has them all
\* in order, a constructed one has what the ranks gave, a copy has what each
\* rank's block held; and iterators show what for_all shows.  At any time a
\* rank that runs handlers finds the index of each message that it gets in its
\* block, although arrays are laid out anew and swapped while other ranks go
\* on: the assertion of local_index does not fail.
ArrayKept ==
  /\ op = Idle => \A a \in Arrays :
       /\ \A r \in World : arr[a][r].size = arr[a][0].size /\ arr[a][r].default = arr[a][0].default
       /\ Content(a) = want[a]
       /\ arr[a][0].size > 0 => \A r \in World :
            /\ arr[a][r].part = arr[a][r].size /\ Len(arr[a][r].vec) = LocalSize(arr[a][r].size, r)
            /\ ForAll(a, r) = Iterated(a, r)
  /\ \A m \in BagToSet(net) : Receiving(m.to) /\ m.kind \notin {"sample", "value"} => Fits(m)

\* resize() with a fill value gives the value to all new indices.
NewSlotsFilled ==
  op.kind = "resize" /\ stage = 1 /\ AllIn /\ net = EmptyBag =>
    \A i \in DOMAIN Content(op.to) \ DOMAIN want[op.to] : Content(op.to)[i] = op.fill
=============================================================================
