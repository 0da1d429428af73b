---------------------------- MODULE MCContainers ----------------------------
(***************************************************************************)
(* The containers for TLC, in one state space: a behaviour is one of one   *)
(* container, which system names; disjoint_set waits in its first initial  *)
(* state meanwhile, and the variables of the others are 0.                 *)
(***************************************************************************)
EXTENDS MCDisjointSet

CONSTANTS
  Systems,              \* the containers that a run is about
  BagStarts, BagCalls   \* of module Bag

VARIABLES
  system,
  messages, oper, position, left, stage, got, want, updates, due, inserts,
  arr, sorted,
  obj, gathers, dflt, log, told,
  holding, next, disk, plan,
  items, out, target, part, past,
  calls, where, tmp, chan, down

\* Those of the operations in stages, and those of one container each.
staged == <<messages, oper, position, left, stage>>
arrOwn == <<arr, sorted>>
kvOwn == <<obj, gathers, dflt, log, told>>
bagOwn == <<holding, next, disk, plan>>
itOwn == <<items, out, target, part, past>>
redOwn == <<calls, where, tmp, chan, down>>
gotWant == <<got, want, updates>>
dueInserts == <<due, inserts>>
all == <<system, vars, staged, arrOwn, kvOwn, bagOwn, itOwn, redOwn, gotWant, dueInserts>>

NoStages == messages = 0 /\ oper = 0 /\ position = 0 /\ left = 0 /\ stage = 0
NoArr == arr = 0 /\ sorted = 0
NoKV == obj = 0 /\ gathers = 0 /\ dflt = 0 /\ log = 0 /\ told = 0
NoBag == holding = 0 /\ next = 0 /\ disk = 0 /\ plan = 0
NoIt == items = 0 /\ out = 0 /\ target = 0 /\ part = 0 /\ past = 0
NoRed == calls = 0 /\ where = 0 /\ tmp = 0 /\ chan = 0 /\ down = 0
NoGotWant == got = 0 /\ want = 0 /\ updates = 0
NoDueInserts == due = 0 /\ inserts = 0

-----------------------------------------------------------------------------
(***************************************************************************)
(* array: three ranks, blocks that are not of one size, one update, one    *)
(* collective operation.                                                   *)
(***************************************************************************)
InputOf(k, n, f, g) == [kind |-> "construct", to |-> "y", input |-> k, size |-> n, fill |-> f, given |-> g]
ArrStarts ==
  {[a \in {"x"} |-> <<2, 0, 1, 0>>], [a \in {"x", "y"} |-> IF a = "x" THEN <<1, 0>> ELSE <<2, 1, 0>>]}
ArrResize == {[kind |-> "resize", to |-> "x", size |-> n, fill |-> 7] : n \in {0, 1, 3, 6}}
Copying == {[kind |-> k, to |-> "y", from |-> "x"] : k \in {"copy", "move", "assign", "move_assign", "swap"}}
ArrCalls ==
  ArrResize \cup Copying
  \cup {[kind |-> "destroy", to |-> "y"],
        InputOf("size", 3, 5, [r \in 0..2 |-> <<>>]),
        InputOf("list", 0, 0, [r \in 0..2 |-> <<4, 3, 2>>]),
        InputOf("pairs", 0, 0, [r \in 0..2 |-> <<<<3, 1>>, <<0, 2>>>>]),
        InputOf("container", 0, 0, [r \in 0..2 |-> IF r = 0 THEN <<4>> ELSE <<3, 2>>]),
        InputOf("map", 0, 0, [r \in 0..2 |-> <<<<3 - r, 1 + r>>>>]),
        InputOf("stl", 0, 0, [r \in 0..2 |-> IF r = 1 THEN <<4>> ELSE <<3, 2>>]),
        InputOf("bag_of_pairs", 0, 0, [r \in 0..2 |-> IF r = 0 THEN <<>> ELSE <<<<2 * r, r>>>>]),
        InputOf("stl_pairs", 0, 0, [r \in 0..2 |-> <<<<3 - r, 1 + r>>>>])}
UpdateOf(k, i, v) == [kind |-> k, index |-> i, value |-> v]
ArrUpdates ==
  {UpdateOf("plus", 3, 2), UpdateOf("set", 0, 3), UpdateOf("increment", 1, 0),
   UpdateOf("bit_xor", 2, 3), UpdateOf("minus", 1, 0), UpdateOf("divides", 0, 2)}

Arr == INSTANCE Array WITH
  NumRanks <- 3, Arrays <- {"x", "y"}, Starts <- ArrStarts, Calls <- ArrCalls,
  Updates <- ArrUpdates, ValueWidth <- 8, MaxUpdates <- 1, MaxOps <- 1,
  net <- messages, op <- oper, at <- position, ops <- left

\* The partitioner alone, over more ranks and sizes.
Blocks(n) == INSTANCE BlockPartitioner WITH NumRanks <- n
ASSUME BlocksPartition == \A n \in 1..4 : Blocks(n)!PartitionsUpTo(13)

(***************************************************************************)
(* map, set and tagged_bag: two ranks, two keys and the tags, one update,  *)
(* one collective operation.                                               *)
(***************************************************************************)
KVType == [x |-> "map", y |-> "map", s |-> "set", t |-> "tagged"]
KVOwner == [k \in {0, 1, 2, 3, 4, 5} |-> IF k \in {0, 2, 4} THEN 0 ELSE 1]
KVStarts ==
  {[c \in {"x"} |-> [k \in {1} |-> 1]], [c \in {"s"} |-> [k \in {1} |-> 0]], [c \in {"t"} |-> <<>>],
   [c \in {"x", "y"} |-> IF c = "x" THEN [k \in {1} |-> 2] ELSE [k \in {2} |-> 3]]}
Two(a, b) == [r \in 0..1 |-> IF r = 0 THEN a ELSE b]
Make(c, in) == [kind |-> "construct", to |-> c, input |-> in, default |-> 3,
                given |-> Two({<<1, 1>>, <<2, 2>>}, {<<1, 2>>})]
KVCalls ==
  Copying
  \cup {[kind |-> k, to |-> c] : k \in {"clear", "size", "destroy"}, c \in {"x", "s", "t"}}
  \cup {[kind |-> k, to |-> c, key |-> 1] : k \in {"count", "contains"}, c \in {"x", "s"}}
  \cup {Make("y", in) : in \in {"empty", "default", "list", "stl", "container"}}
  \cup {Make("s", in) : in \in {"list", "stl", "container"}}
  \cup {[kind |-> k, to |-> c, given |-> Two({1, 2}, {1})] :
          k \in {"gather", "erase_keys", "erase_keys_of"}, c \in {"x", "s", "t"}}
  \cup {[kind |-> k, to |-> "x", given |-> Two({<<1, 1>>}, {<<1, 2>>, <<2, 2>>})] :
          k \in {"erase_pairs", "erase_pairs_of", "erase_tuples_of"}}

KV == INSTANCE KeyValue WITH
  NumRanks <- 2, Objects <- {"x", "y", "s", "t"}, Type <- KVType, Starts <- KVStarts, Keys <- {1, 2},
  Owner <- KVOwner, TagBits <- 2, Given <- Two(1, 2), Calls <- KVCalls,
  MaxUpdates <- 1, MaxOps <- 1, MaxGathers <- 1,
  net <- messages, op <- oper, at <- position, ops <- left

(***************************************************************************)
(* bag: three ranks, five items at one of them or few everywhere, one      *)
(* insertion, one collective operation.                                    *)
(***************************************************************************)
Holds(a, b, c) == [r \in 0..2 |-> SetToBag(IF r = 0 THEN a ELSE IF r = 1 THEN b ELSE c)]
BagsToBegin ==
  {[bags |-> [c \in {"x"} |-> Holds({}, {1, 2, 3, 4, 5}, {})], files |-> <<>>],
   [bags |-> [c \in {"x", "y"} |-> IF c = "x" THEN Holds({}, {1}, {2, 3}) ELSE Holds({4}, {}, {5})],
    files |-> Holds({1}, {3}, {2, 8})]}
FewItems == {[bags |-> [c \in {"x"} |-> Holds({}, {1, 2}, {})], files |-> <<>>]}
Rebalance == {[kind |-> "rebalance", to |-> "x"]}
BagInput(in) ==
  [kind |-> "construct", to |-> "y", input |-> in, given |-> [r \in 0..2 |-> IF r = 2 THEN <<2, 3>> ELSE <<1, 2 * r>>]]
CallsOfBags ==
  Copying \cup Rebalance \cup {[kind |-> "global_shuffle", to |-> "y"]}
  \cup {[kind |-> k, to |-> "x"] : k \in {"clear", "destroy", "local_shuffle", "serialize", "deserialize"}}
  \cup {BagInput(in) : in \in {"empty", "list", "stl", "container"}}

Bg == INSTANCE Bag WITH
  NumRanks <- 3, BagObjects <- {"x", "y"}, BagItems <- {6, 7}, MaxInserts <- 1, MaxCalls <- 1,
  net <- messages, op <- oper, at <- position, ops <- left, held <- holding

(***************************************************************************)
(* Iteration: two ranks, three items at most, two operations.              *)
(***************************************************************************)
ItStarts == {Two(SetToBag({<<1, 2>>, <<2, 2>>}), SetToBag({<<1, 3>>})), Two(EmptyBag, EmptyBag)}
Mod2 == [v \in 0..9 |-> v % 2]
Read(k, chain) == [kind |-> k, chain |-> chain]
GatherOf(chain, rank) == [kind |-> "gather", chain |-> chain, rank |-> rank]
ItReads ==
  {Read("for_all", <<"filter", "flatten">>), Read("change_all", <<>>), Read("iterate", <<>>),
   Read("reduce", <<"values", "transform">>), Read("collect", <<"keys">>), Read("reduce_by_key", <<"filter">>),
   GatherOf(<<>>, 0), GatherOf(<<"filter">>, -1), [kind |-> "gather_topk", k |-> 2, chain |-> <<"flatten">>]}
  \cup {Read(k, <<>>) : k \in {"sum", "min", "max", "logical_and", "logical_or", "prefix_sum"}}
  \cup {[kind |-> "is_same", chain |-> <<>>, given |-> Two(1, v)] : v \in {1, 2}}

It == INSTANCE Iteration WITH
  NumRanks <- 2, Items <- {<<1, 2>>}, ItemStarts <- ItStarts, OwnerOfValue <- Mod2, OwnerOfKey <- Mod2,
  Reads <- ItReads, MaxInserts <- 1, MaxReads <- 2,
  net <- messages, op <- oper, at <- position, ops <- left

\* all_reduce: five ranks, two calls.
Red == INSTANCE AllReduce WITH NumRanks <- 5, MaxCalls <- 2

-----------------------------------------------------------------------------
Is(s) == system = s /\ s \in Systems

\* disjoint_set where it waits.
DSWaits == Init /\ todo = Ties(FALSE)

AnyInit ==
  \/ /\ Is("disjoint_set") /\ Init
     /\ NoStages /\ NoArr /\ NoKV /\ NoBag /\ NoIt /\ NoRed /\ NoGotWant /\ NoDueInserts
  \/ /\ Is("array") /\ Arr!Init
     /\ DSWaits /\ NoKV /\ NoBag /\ NoIt /\ NoRed /\ NoDueInserts
  \/ /\ Is("map") /\ KV!Init
     /\ DSWaits /\ NoArr /\ NoBag /\ NoIt /\ NoRed /\ NoDueInserts
  \/ /\ Is("bag") /\ Bg!Init
     /\ DSWaits /\ NoArr /\ NoKV /\ NoIt /\ NoRed /\ NoGotWant
  \/ /\ Is("iteration") /\ It!Init
     /\ DSWaits /\ NoArr /\ NoKV /\ NoBag /\ NoRed /\ NoGotWant
  \/ /\ Is("all_reduce") /\ Red!Init
     /\ DSWaits /\ NoStages /\ NoArr /\ NoKV /\ NoBag /\ NoIt /\ NoDueInserts
     /\ want = 0 /\ updates = 0

DSOnly ==
  /\ Is("disjoint_set")
  /\ UNCHANGED <<system, staged, arrOwn, kvOwn, bagOwn, itOwn, redOwn, gotWant, dueInserts>>

AnyNext ==
  \/ DSOnly /\ Next
  \/ Is("array") /\ Arr!Next /\ UNCHANGED <<system, vars, kvOwn, bagOwn, itOwn, redOwn, dueInserts>>
  \/ Is("map") /\ KV!Next /\ UNCHANGED <<system, vars, arrOwn, bagOwn, itOwn, redOwn, dueInserts>>
  \/ Is("bag") /\ Bg!Next /\ UNCHANGED <<system, vars, arrOwn, kvOwn, itOwn, redOwn, gotWant>>
  \/ Is("iteration") /\ It!Next /\ UNCHANGED <<system, vars, arrOwn, kvOwn, bagOwn, redOwn, gotWant>>
  \/ /\ Is("all_reduce") /\ Red!Next
     /\ UNCHANGED <<system, vars, staged, arrOwn, kvOwn, bagOwn, itOwn, want, updates, dueInserts>>

AnySpec == AnyInit /\ [][AnyNext]_all

\* The fairness of DisjointSet.
AnyFairSpec ==
  /\ AnySpec
  /\ WF_all(DSOnly /\ Library /\ \A r \in Ranks : at[r] # "run")
  /\ \A r \in Ranks : WF_all(DSOnly /\ Collective(r))

-----------------------------------------------------------------------------
(***************************************************************************)
(* The properties of the containers, each of its own.                      *)
(***************************************************************************)
ArrayKept == system = "array" => Arr!ArrayKept
NewSlotsFilled == system = "array" => Arr!NewSlotsFilled
Serializable == system = "map" => KV!Serializable
ResultsExact == system = "map" => KV!ResultsExact
ItemsKept == system = "bag" => Bg!ItemsKept
Balanced == system = "bag" => Bg!Balanced
RebalanceDefined == system = "bag" => Bg!RebalanceDefined
ResultsComplete == system = "iteration" => It!ResultsComplete
ReducedExact == system = "all_reduce" => Red!ReducedExact
=============================================================================
