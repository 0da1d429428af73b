------------------------------ MODULE KeyValue ------------------------------
(***************************************************************************)
(* ygm::container::map, set and tagged_bag, with the base classes that     *)
(* give them their operations.  A key is held by the rank that the hash    *)
(* partitioner names: asynchronous operations are messages to that rank,   *)
(* from all ranks, in no order.  A set is a map that has the value 0 at    *)
(* each of its values; a tagged bag is a map with keys that it makes.      *)
(***************************************************************************)
EXTENDS Stages, SequencesExt, FiniteSetsExt

CONSTANTS
  NumRanks,
  Objects,
  Type,        \* Type[c]: "map", "set" or "tagged"
  Starts,      \* where a run may start: the objects there are, with their contents
  Keys,        \* the keys that the program uses; natural numbers, as tags are
  Owner,       \* Owner[k]: the rank that holds k
  TagBits,     \* TAG_BITS
  Given,       \* Given[r]: the value that rank r uses
  Calls,       \* the collective calls the program may make
  MaxUpdates,  \* bound: asynchronous operations in a run
  MaxOps,      \* bound: collective operations in a run
  MaxGathers   \* bound: calls of map::gather_keys

VARIABLES
  obj,         \* obj[c][r]: m_local_map, m_default_value and m_next_tag
  got,         \* what each rank learns from a collective operation
  gathers,     \* calls of map::gather_keys so far
  want, dflt,  \* contents and default values when the last operation began
  log,         \* asynchronous operations called since then, of each object,
  told,        \* and what the functions given to them were told
  updates      \* asynchronous operations the bound still allows

World == 0..NumRanks - 1
ghosts == <<want, dflt, log, told>>
vars == <<net, obj, got, gathers, ghosts, updates, stageVars>>

FirstTag(r) == r * 2^TagBits
Object(f, d, r) == [map |-> f, default |-> d, next |-> FirstTag(r)]
Unborn == Object(<<>>, -1, 0)
Owned(f, r) == Restrict(f, {k \in DOMAIN f : Owner[k] = r})

Init ==
  /\ StagesInit(World, MaxOps)
  /\ \E s \in Starts :
       /\ obj = [c \in Objects |-> [r \in World |->
                   IF c \in DOMAIN s THEN Object(Owned(s[c], r), 0, r) ELSE Unborn]]
       /\ want = [c \in Objects |-> IF c \in DOMAIN s THEN s[c] ELSE <<>>]
  /\ dflt = [c \in Objects |-> 0]
  /\ got = [r \in World |-> {}] /\ gathers = 0
  /\ log = [c \in Objects |-> EmptyBag] /\ told = [c \in Objects |-> EmptyBag]
  /\ updates = MaxUpdates

-----------------------------------------------------------------------------
(***************************************************************************)
(* The local operations, on the map f that a rank holds.                   *)
(***************************************************************************)
local_insert_or_assign(f, k, v) == [x \in DOMAIN f \cup {k} |-> IF x = k THEN v ELSE f[x]]
local_insert(f, k, v) == IF k \in DOMAIN f THEN f ELSE local_insert_or_assign(f, k, v)
set_local_insert(f, k) == local_insert(f, k, 0)
local_erase(f, k) == Restrict(f, DOMAIN f \ {k})
local_erase_value(f, k, v) == IF k \in DOMAIN f /\ f[k] = v THEN local_erase(f, k) ELSE f
local_count(f, k) == Cardinality(DOMAIN f \cap {k})
local_contains(f, k) == k \in DOMAIN f
local_get(f, k) == {f[x] : x \in DOMAIN f \cap {k}}
local_size(f) == Cardinality(DOMAIN f)

\* Functions that the program gives, of which the order of calls matters.
Visited(old, v) == 2 * old + v
Reducer(v, old) == v + old

local_reduce(f, k, v) ==
  local_insert_or_assign(f, k, IF local_count(f, k) = 0 THEN v ELSE Reducer(v, f[k]))
local_visit_if_contains(f, k, v) ==
  IF k \in DOMAIN f THEN local_insert_or_assign(f, k, Visited(f[k], v)) ELSE f

local_visit(f, k, d, v) == local_visit_if_contains(local_insert(f, k, d), k, v)

(***************************************************************************)
(* Asynchronous operations.                                                *)
(***************************************************************************)
Request(c, kind, k, v) == [obj |-> c, kind |-> kind, key |-> k, value |-> v, to |-> Owner[k]]

Logged(l, reqs) == [l EXCEPT ![(CHOOSE u \in reqs : TRUE).obj] = @ (+) SetToBag(reqs)]
Send(reqs) ==
  /\ net' = Plus(net, reqs)
  /\ log' = IF reqs = {} THEN log ELSE Logged(log, reqs)

\* Rank r may call an operation of c.
Uses(r, c, types) ==
  /\ Sending(r) /\ updates > 0 /\ obj[c][r] # Unborn /\ Type[c] \in types
  /\ updates' = updates - 1
  /\ UNCHANGED <<obj, got, gathers, want, dflt, told, stageVars>>

async_insert(r, c, k) == Uses(r, c, {"map"}) /\ Send({Request(c, "insert", k, Given[r])})
async_insert_value(r, c, k) == Uses(r, c, {"set"}) /\ Send({Request(c, "insert", k, 0)})
async_insert_or_assign(r, c, k) == Uses(r, c, {"map"}) /\ Send({Request(c, "assign", k, Given[r])})
async_erase(r, c, k) == Uses(r, c, {"map", "set", "tagged"}) /\ Send({Request(c, "erase", k, 0)})
async_erase_value(r, c, k) == Uses(r, c, {"map"}) /\ Send({Request(c, "erase_value", k, Given[r])})
async_reduce(r, c, k) == Uses(r, c, {"map"}) /\ Send({Request(c, "reduce", k, Given[r])})
async_visit(r, c, k) == Uses(r, c, {"map", "tagged"}) /\ Send({Request(c, "visit", k, Given[r])})
async_visit_if_contains(r, c, k) == Uses(r, c, {"map"}) /\ Send({Request(c, "visit_if", k, Given[r])})
async_contains(r, c, k) == Uses(r, c, {"set"}) /\ Send({Request(c, "contains", k, 0)})
async_insert_contains(r, c, k) == Uses(r, c, {"set"}) /\ Send({Request(c, "insert_contains", k, 0)})

\* A visitor that inserts the next key; a const visitor, which is told the value.
async_visit_insert(r, c, k) ==
  Uses(r, c, {"map"}) /\ k + 1 \in Keys /\ Send({Request(c, "visit_insert", k, Given[r])})
async_visit_if_contains_const(r, c, k) == Uses(r, c, {"map"}) /\ Send({Request(c, "look", k, 0)})

\* tagged_bag::async_insert
async_insert_tagged(r, c) ==
  LET tag == obj[c][r].next
  IN /\ Sending(r) /\ updates > 0 /\ obj[c][r] # Unborn /\ Type[c] = "tagged"
     /\ tag < FirstTag(r + 1)  \* fewer than MAX_TAGS
     /\ Send({Request(c, "tag", tag, Given[r])})
     /\ obj' = [obj EXCEPT ![c][r].next = tag + 1]
     /\ updates' = updates - 1
     /\ UNCHANGED <<got, gathers, want, dflt, told, stageVars>>

\* What a handler makes of the map of its rank.
Applied(u) ==
  LET f == obj[u.obj][u.to].map
      d == obj[u.obj][u.to].default
  IN CASE u.kind \in {"insert", "tag"} -> local_insert(f, u.key, u.value)
       [] u.kind = "assign" -> local_insert_or_assign(f, u.key, u.value)
       [] u.kind = "erase" -> local_erase(f, u.key)
       [] u.kind = "erase_value" -> local_erase_value(f, u.key, u.value)
       [] u.kind = "reduce" -> local_reduce(f, u.key, u.value)
       [] u.kind \in {"visit", "visit_insert"} -> local_visit(f, u.key, d, u.value)
       [] u.kind = "visit_if" -> local_visit_if_contains(f, u.key, u.value)
       [] u.kind \in {"look", "contains"} -> f
       [] u.kind = "insert_contains" -> set_local_insert(f, u.key)

\* What the function is told: the value, or whether there is one.
Told(u) ==
  LET f == obj[u.obj][u.to].map
  IN CASE u.kind = "look" -> {<<u.key, v>> : v \in local_get(f, u.key)}
       [] u.kind \in {"contains", "insert_contains"} -> {<<u.key, local_contains(f, u.key)>>}
       [] OTHER -> {}

Handle(u) ==
  /\ u.kind \notin {"fetch", "answer"} /\ Receiving(u.to)
  /\ obj' = [obj EXCEPT ![u.obj][u.to].map = Applied(u)]
  /\ told' = [told EXCEPT ![u.obj] = Plus(@, Told(u))]
  /\ LET next == IF u.kind = "visit_insert" THEN {Request(u.obj, "insert", u.key + 1, u.value)} ELSE {}
     IN /\ net' = Plus(BagRemove(net, u), next)
        /\ log' = IF next = {} THEN log ELSE Logged(log, next)
  /\ UNCHANGED <<got, gathers, want, dflt, updates, stageVars>>

-----------------------------------------------------------------------------
(***************************************************************************)
(* Collective operations.  Barriers between which nothing happens count as *)
(* one.  Copies, moves and assignments have before them the barrier that   *)
(* programs put there: they take what has arrived.  o.given[r] is what     *)
(* rank r gives: pairs of a key and a value, or keys.                      *)
(***************************************************************************)
Makes == {"construct", "copy", "move"}
Erases == {"erase_keys_of", "erase_keys", "erase_pairs_of", "erase_tuples_of", "erase_pairs"}
AtOnce == {"erase_keys"}
Reads == {"size", "count", "contains"}

Barriers(o) ==
  CASE o.kind = "construct" -> IF o.input \in {"empty", "default"} \/ (o.input = "list" /\ Type[o.to] = "map")
                               THEN 1 ELSE 2
    [] o.kind \in {"swap", "clear", "destroy"} \cup AtOnce -> 1
    [] OTHER -> 2
Quiet(o) ==
  \/ o.kind \in {"swap", "clear", "destroy"}
  \/ o.kind = "construct" /\ o.input = "list" /\ Type[o.to] = "map"

MayCall(r, o) ==
  /\ (obj[o.to][r] = Unborn) <=> o.kind \in Makes
  /\ "from" \in DOMAIN o => obj[o.from][r] # Unborn /\ Type[o.from] = Type[o.to]
  /\ o.kind \in Makes \cup Erases \cup {"assign", "move_assign", "count", "contains"} => Type[o.to] # "tagged"
  /\ o.kind \in {"erase_pairs_of", "erase_tuples_of", "erase_pairs"} => Type[o.to] = "map"
  /\ o.kind = "gather" => Type[o.to] = "set" \/ gathers < MaxGathers

Call(r, o) ==
  /\ Enter(r, o, MayCall(r, o), o.kind \in {"construct"} \cup AtOnce)
  /\ got' = [got EXCEPT ![r] = {}]
  /\ gathers' = IF op = Idle /\ o.kind = "gather" /\ Type[o.to] # "set" THEN gathers + 1 ELSE gathers
  /\ UNCHANGED <<obj, ghosts, updates>>

Holders(c, k) == {r \in World : k \in DOMAIN obj[c][r].map}
Content(c) ==
  LET held == UNION {DOMAIN obj[c][r].map : r \in World}
  IN [k \in held |-> obj[c][CHOOSE r \in Holders(c, k) : TRUE].map[k]]

\* What the operation makes of contents f and default values d.
Promised(f, d) ==
  CASE op.kind \in {"copy", "assign"} ->
         <<[f EXCEPT ![op.to] = f[op.from]], [d EXCEPT ![op.to] = d[op.from]]>>
    [] op.kind = "move" ->
         <<[f EXCEPT ![op.to] = f[op.from], ![op.from] = <<>>], [d EXCEPT ![op.to] = d[op.from]]>>
    [] op.kind = "move_assign" ->
         <<[f EXCEPT ![op.to] = f[op.from], ![op.from] = f[op.to]],
           [d EXCEPT ![op.to] = d[op.from], ![op.from] = d[op.to]]>>
    [] op.kind = "swap" -> <<[f EXCEPT ![op.to] = f[op.from], ![op.from] = f[op.to]], d>>
    [] op.kind \in {"clear", "destroy"} -> <<[f EXCEPT ![op.to] = <<>>], d>>
    [] op.kind = "construct" -> <<f, [d EXCEPT ![op.to] = obj[op.to][0].default]>>
    [] OTHER -> <<f, d>>

Barrier ==
  /\ Pass(Barriers(op), Quiet(op))
  /\ IF stage = 0
       THEN LET now == Promised([c \in Objects |-> Content(c)], dflt)
            IN /\ want' = now[1] /\ dflt' = now[2]
               /\ log' = [c \in Objects |-> EmptyBag] /\ told' = [c \in Objects |-> EmptyBag]
       ELSE UNCHANGED ghosts
  /\ UNCHANGED <<obj, got, gathers, updates>>

Done(r) == DonePart(r, Barriers(op)) /\ UNCHANGED <<gathers, want, dflt, told, updates>>

\* A stage in which r changes objects, or sends.
Become(r, new) == obj' = new /\ UNCHANGED <<net, log, got>> /\ Done(r)
Ask(r, reqs) == Send(reqs) /\ UNCHANGED <<obj, got>> /\ Done(r)

\* Constructors: of an empty map with its default value, or the value's.
Create(r) ==
  /\ InStage(r, {"construct"}, 0)
  /\ Become(r, [obj EXCEPT ![op.to][r] = Object(<<>>, IF op.input = "default" THEN op.default ELSE 0, r)])

Inserts(pairs) ==
  {Request(op.to, "insert", p[1], IF Type[op.to] = "set" THEN 0 ELSE p[2]) : p \in pairs}

\* Rank 0 inserts the initializer list, which all ranks have.
FromList(r) == IF r = 0 THEN Inserts(op.given[0]) ELSE {}
SetFromList(r) == IF r = 0 THEN Inserts(op.given[0]) ELSE {}
FromStl(r) == Inserts(op.given[r])
SetFromStl(r) == Inserts(op.given[r])
FromContainer(r) == Inserts(op.given[r])
SetFromContainer(r) == Inserts(op.given[r])

Fill(r) ==
  /\ InStage(r, {"construct"}, 1)
  /\ Ask(r, CASE op.input = "list" -> IF Type[op.to] = "set" THEN SetFromList(r) ELSE FromList(r)
              [] op.input = "stl" -> IF Type[op.to] = "set" THEN SetFromStl(r) ELSE FromStl(r)
              [] op.input = "container" -> IF Type[op.to] = "set" THEN SetFromContainer(r) ELSE FromContainer(r))

Destroy(r) == InStage(r, {"destroy"}, 1) /\ Become(r, [obj EXCEPT ![op.to][r] = Unborn])

\* Copy and move constructors take the local map as it is at the call.
Copy(r) == InStage(r, {"copy"}, 1) /\ Become(r, [obj EXCEPT ![op.to][r] = obj[op.from][r]])
Move(r) ==
  /\ InStage(r, {"move"}, 1)
  /\ Become(r, [obj EXCEPT ![op.to][r] = obj[op.from][r], ![op.from][r].map = <<>>])

\* Copy assignment: of a temporary copy, which is then moved here.
Assign(r) == InStage(r, {"assign"}, 1) /\ Become(r, [obj EXCEPT ![op.to][r] = obj[op.from][r]])
MoveAssign(r) ==
  /\ InStage(r, {"move_assign"}, 1)
  /\ Become(r, [obj EXCEPT ![op.to][r] = obj[op.from][r], ![op.from][r] = obj[op.to][r]])

\* swap(): the local maps, and the next tags of tagged bags.
Swap(r) ==
  /\ InStage(r, {"swap"}, 1)
  /\ LET Other(o, p) == [o EXCEPT !.map = p.map, !.next = IF Type[op.to] = "tagged" THEN p.next ELSE @]
         x == obj[op.to][r]
         y == obj[op.from][r]
     IN Become(r, [obj EXCEPT ![op.to][r] = Other(x, y), ![op.from][r] = Other(y, x)])

Clear(r) == InStage(r, {"clear"}, 1) /\ Become(r, [obj EXCEPT ![op.to][r].map = <<>>])

\* Batch erasure: of the keys or pairs in a container, which each rank reads
\* after a barrier, or that the rank itself has.
EraseKeys(r) == {Request(op.to, "erase", k, 0) : k \in op.given[r]}
ErasePairs(r) == {Request(op.to, "erase_value", p[1], p[2]) : p \in op.given[r]}

EraseKeysOf(r) == InStage(r, {"erase_keys_of"}, 1) /\ Ask(r, EraseKeys(r))
EraseKeysHere(r) == InStage(r, {"erase_keys"}, 0) /\ Ask(r, EraseKeys(r))
ErasePairsOf(r) == InStage(r, {"erase_pairs_of"}, 1) /\ Ask(r, ErasePairs(r))
EraseTuplesOf(r) == InStage(r, {"erase_tuples_of"}, 1) /\ Ask(r, ErasePairs(r))
ErasePairsHere(r) == InStage(r, {"erase_pairs"}, 1) /\ Ask(r, ErasePairs(r))

\* size(), count() and contains(): what each rank contributes.
Learn(r, what) == got' = [got EXCEPT ![r] = what] /\ UNCHANGED <<obj, net, log>> /\ Done(r)
Size(r) == InStage(r, {"size"}, 1) /\ Learn(r, local_size(obj[op.to][r].map))
Count(r) == InStage(r, {"count"}, 1) /\ Learn(r, local_count(obj[op.to][r].map, op.key))
HasKey(r) == InStage(r, {"contains"}, 1) /\ Learn(r, local_contains(obj[op.to][r].map, op.key))

(***************************************************************************)
(* gather_keys and gather_values: each rank asks the owners of its keys.   *)
(***************************************************************************)
Fetch(r, k) == [kind |-> "fetch", obj |-> op.to, to |-> Owner[k], key |-> k, from |-> r]
Gather(r) ==
  /\ InStage(r, {"gather"}, 1)
  /\ net' = Plus(net, {Fetch(r, k) : k \in op.given[r]})
  /\ UNCHANGED <<obj, log, got>>
  /\ Done(r)

\* Owners of a map answer with the values, of a set when they have the value.
HandleFetch(m) ==
  /\ m.kind = "fetch" /\ Receiving(m.to)
  /\ LET f == obj[m.obj][m.to].map
         answer == [kind |-> "answer", obj |-> m.obj, to |-> m.from, key |-> m.key, values |-> local_get(f, m.key)]
         silent == Type[m.obj] = "set" /\ ~local_contains(f, m.key)
     IN net' = Plus(BagRemove(net, m), IF silent THEN {} ELSE {answer})
  /\ UNCHANGED <<obj, got, gathers, ghosts, updates, stageVars>>

\* to_return of a map's gather is a static reference that the first call binds:
\* in later calls the object may be gone, or happen to be in the same place.
HandleAnswer(m) ==
  /\ m.kind = "answer" /\ Receiving(m.to)
  /\ \/ got' = [got EXCEPT ![m.to] = @ \cup {<<m.key, v>> : v \in m.values}]
     \/ Type[m.obj] # "set" /\ gathers > 1 /\ got' = got
  /\ net' = BagRemove(net, m)
  /\ UNCHANGED <<obj, gathers, ghosts, updates, stageVars>>

-----------------------------------------------------------------------------
Collective(r) ==
  \/ Create(r) \/ Fill(r) \/ Destroy(r)
  \/ Copy(r) \/ Move(r) \/ Assign(r) \/ MoveAssign(r) \/ Swap(r) \/ Clear(r)
  \/ EraseKeysOf(r) \/ EraseKeysHere(r)
  \/ ErasePairsOf(r) \/ EraseTuplesOf(r) \/ ErasePairsHere(r)
  \/ Size(r) \/ Count(r) \/ HasKey(r) \/ Gather(r)

Asynchronous(r, c) ==
  \/ async_insert_tagged(r, c)
  \/ \E k \in Keys :
       \/ async_insert(r, c, k) \/ async_insert_value(r, c, k)
       \/ async_insert_or_assign(r, c, k)
       \/ async_erase(r, c, k) \/ async_erase_value(r, c, k)
       \/ async_reduce(r, c, k)
       \/ async_visit(r, c, k) \/ async_visit_insert(r, c, k)
       \/ async_visit_if_contains(r, c, k) \/ async_visit_if_contains_const(r, c, k)
       \/ async_contains(r, c, k) \/ async_insert_contains(r, c, k)

Finished == AllCalled /\ UNCHANGED vars

Next ==
  \/ \E r \in World :
       \/ \E c \in Objects : Asynchronous(r, c)
       \/ \E o \in Calls : Call(r, o)
       \/ Collective(r)
  \/ \E m \in BagToSet(net) : Handle(m) \/ HandleFetch(m) \/ HandleAnswer(m)
  \/ Barrier
  \/ Finished

Spec == Init /\ [][Next]_vars

-----------------------------------------------------------------------------
Settled == net = EmptyBag /\ (op = Idle \/ (AllIn /\ stage \in {0, Barriers(op) - 1}))

\* What an operation makes of a value, Absent when there is none, and what it
\* tells its function: the documented meaning, for one key.
Absent == -1
Meaning(u, val, d) ==
  CASE u.kind = "insert" -> IF val = Absent THEN u.value ELSE val
    [] u.kind = "tag" -> IF val = Absent THEN u.value ELSE -2
    [] u.kind = "assign" -> u.value
    [] u.kind = "erase" -> Absent
    [] u.kind = "erase_value" -> IF val = u.value THEN Absent ELSE val
    [] u.kind = "reduce" -> IF val = Absent THEN u.value ELSE Reducer(u.value, val)
    [] u.kind \in {"visit", "visit_insert"} -> Visited(IF val = Absent THEN d ELSE val, u.value)
    [] u.kind = "visit_if" -> IF val = Absent THEN Absent ELSE Visited(val, u.value)
    [] u.kind = "insert_contains" -> IF val = Absent THEN 0 ELSE val
    [] u.kind \in {"look", "contains"} -> val
Hears(u, val) ==
  CASE u.kind = "look" -> IF val = Absent THEN {} ELSE {val}
    [] u.kind \in {"contains", "insert_contains"} -> {val # Absent}
    [] OTHER -> {}

\* The orders of a bag's elements.
Orders(b) == {s \in [1..BagCardinality(b) -> BagToSet(b)] :
                FoldLeft(LAMBDA c, x : BagAdd(c, x), EmptyBag, s) = b}

\* Whenever nothing is in flight, and so after each barrier: each object is
\* what the last collective operation made of it and then the asynchronous
\* operations since, each once, in some order of those on a key, whichever
\* ranks called them; functions heard what is true in that order; and only
\* the owner of a key holds it.
Serializable ==
  Settled => \A c \in Objects :
    \A k \in DOMAIN Content(c) \cup DOMAIN want[c] \cup {u.key : u \in BagToSet(log[c])} :
      /\ Holders(c, k) \subseteq {Owner[k]}
      /\ \E s \in Orders([u \in {u \in BagToSet(log[c]) : u.key = k} |-> log[c][u]]) :
           LET Step(acc, u) == [val |-> Meaning(u, acc.val, dflt[c]),
                                told |-> Plus(acc.told, {<<k, h>> : h \in Hears(u, acc.val)})]
               end == FoldLeft(Step, [val |-> IF k \in DOMAIN want[c] THEN want[c][k] ELSE Absent,
                                      told |-> EmptyBag], s)
           IN /\ end.val = IF k \in DOMAIN Content(c) THEN Content(c)[k] ELSE Absent
              /\ end.told = [h \in {h \in BagToSet(told[c]) : h[1] = k} |-> told[c][h]]

\* size(), count() and contains() tell all ranks what is true of the contents,
\* those of earlier asynchronous operations among them, and gathers give each
\* rank the keys it asked for that are there, with their values.
ResultsExact ==
  op # Idle /\ AllIn /\ net = EmptyBag /\ stage = 1 =>
    LET f == want[op.to]
    IN /\ op.kind = "size" => MapThenSumSet(LAMBDA r : got[r], World) = Cardinality(DOMAIN f)
       /\ op.kind = "count" => MapThenSumSet(LAMBDA r : got[r], World) = Cardinality(DOMAIN f \cap {op.key})
       /\ op.kind = "contains" => (\E r \in World : got[r]) = (op.key \in DOMAIN f)
       /\ op.kind = "gather" =>
            \A r \in World : got[r] = {<<k, f[k]>> : k \in op.given[r] \cap DOMAIN f}
=============================================================================
