---------------------------- MODULE DisjointSet ----------------------------
(***************************************************************************)
(* ygm::container::disjoint_set.  Items are distributed over the ranks;    *)
(* each has a parent.  A union is a walk: a message that visits in turn an *)
(* item on the way up from a and one on the way up from b, the lower first,*)
(* until it has a root to attach, while other walks change the parents.    *)
(* Each rank has a cache of parents that walks use to take short cuts.     *)
(*                                                                         *)
(* A handler is one step: what it sends runs no other handler (NoReentry   *)
(* in YgmComm).  A barrier ends when all ranks are in it and nothing is in *)
(* flight (YgmBarrier).                                                    *)
(***************************************************************************)
EXTENDS Integers, Sequences, FiniteSets, Bags

CONSTANTS
  Ranks,
  Items,       \* totally ordered: numbers
  Owner,       \* Owner[i]: the rank that holds i
  Slots,
  Slot,        \* Slot[i]: the cache slot of i, at every rank
  Calls,       \* the unions the program may call: from, a, b, exec
  Starts,      \* where a run may start: items of earlier unions with their data,
               \* and the calls it makes, in any order
  MaxOps,      \* bound: collective operations in a run
  MaxFind      \* bound: items that a rank gives to all_find

ASSUME DisjointSetAssumption ==
  /\ Items \subseteq Nat /\ IsFiniteSet(Items) /\ IsFiniteSet(Slots)
  /\ Owner \in [Items -> Ranks] /\ Slot \in [Items -> Slots]
  /\ Calls \subseteq [from : Ranks, a : Items, b : Items, exec : BOOLEAN, id : Nat]
  /\ \A s \in Starts : s.known \subseteq Items /\ s.todo \subseteq Calls
  /\ MaxOps \in Nat /\ MaxFind \in Nat
\* The earlier unions have left trees, as any unions do (TreesSound).
ASSUME StartsAssumption ==
  \A s \in Starts : \A i \in s.known :
    LET d == s.data[i]
        up == s.data[d.parent]
    IN /\ d.parent \in s.known /\ d \in [parent : Items, rank : Nat, est : Nat]
       /\ d.est <= up.rank
       /\ d.parent # i => up.rank > d.rank \/ (up.rank = d.rank /\ d.parent > i)

VARIABLES
  known,       \* keys of m_local_item_map, of all ranks
  data,        \* data_t of each item; an unknown item's is what its insertion gives
  cache,       \* m_cache of each rank
  compressed,  \* m_is_compressed of each rank
  net,         \* messages in flight
  todo,        \* unions not called yet
  verdict,     \* how each union ended (what fn is told)
  op,          \* the collective operation being called, or "none"
  at,          \* where each rank is in it
  ops,         \* operations the bound MaxOps still allows
  queries,     \* all_compress: queries[r][p]: items of r that wait for the root over p
  waiting,     \* all_compress: items with found_root == false
  held,        \* all_compress: held[i]: ranks to answer when i knows its root
  found        \* all_find: to_return of each rank

compVars == <<queries, waiting, held>>
progVars == <<op, at, ops, found>>
vars == <<known, data, cache, compressed, net, todo, verdict, progVars, compVars>>

New(i) == [parent |-> i, rank |-> 0, est |-> 0]
Unoccupied == [item |-> -1, parent |-> -1, est |-> -1]
NoQueries == [i \in Items |-> {}]

Init ==
  /\ \E s \in Starts :
       /\ known = s.known /\ todo = s.todo
       /\ data = [i \in Items |-> IF i \in s.known THEN s.data[i] ELSE New(i)]
       /\ compressed = [r \in Ranks |-> s.known = {}]
  /\ cache = [r \in Ranks |-> [s \in Slots |-> Unoccupied]]
  /\ net = EmptyBag
  /\ verdict = [c \in Calls |-> "none"]
  /\ op = "none" /\ at = [r \in Ranks |-> "run"] /\ ops = MaxOps
  /\ queries = [r \in Ranks |-> NoQueries]
  /\ waiting = {} /\ held = NoQueries
  /\ found = [r \in Ranks |-> {}]

-----------------------------------------------------------------------------
(***************************************************************************)
(* The cache.                                                              *)
(***************************************************************************)
\* add_cache_entry
Cached(c, i, p, e) ==
  [c EXCEPT ![Slot[i]] = IF e >= @.est THEN [item |-> i, parent |-> p, est |-> e] ELSE @]

\* Where n steps from x lead.
After(step, x, n) == LET X[k \in 0..n] == IF k = 0 THEN x ELSE step[X[k - 1]] IN X[n]

\* walk_cache: the end of the chain of entries that starts at i.  No chain is
\* longer than the number of slots, for it would go round for ever (Uphill).
WalkCache(c, i, r) ==
  LET Onward == [e \in {c[s] : s \in Slots} \ {Unoccupied} |->
                   LET t == c[Slot[e.parent]]
                   IN IF t.item = e.parent /\ t.item # e.item /\ e.est <= t.est THEN t ELSE e]
      e == After(Onward, c[Slot[i]], Cardinality(Slots))
  IN IF c[Slot[i]].item # i \/ c[Slot[i]].est < r
       THEN [item |-> i, rank |-> r]
       ELSE [item |-> e.parent, rank |-> e.est]

(***************************************************************************)
(* Messages.  Each names the item it visits; those of a walk are on the    *)
(* way up from child, with other the item reached on the other way up.     *)
(***************************************************************************)
Walk(c, item, child, oparent, oitem, orank) ==
  [op |-> "walk", call |-> c, item |-> item, child |-> child,
   oparent |-> oparent, oitem |-> oitem, orank |-> orank]
Update(item, old, new, est) ==
  [op |-> "update", item |-> item, old |-> old, new |-> new, est |-> est]
Resolve(item, merging, rank) ==
  [op |-> "resolve", item |-> item, merging |-> merging, rank |-> rank]
SetParent(item, new, est) == [op |-> "parent", item |-> item, new |-> new, est |-> est]

Plus(n, S) == n (+) SetToBag(S)
Rest(m) == net (-) SetToBag({m})

\* A rank runs handlers between its calls and in barriers.
Receiving(r) == at[r] \in {"run", "enter", "last"}

\* async_visit at the owner of the item, which inserts an item it does not know.
Visit(m, kind) ==
  /\ m.op = kind /\ Receiving(Owner[m.item])
  /\ known' = known \cup {m.item}

\* set_parent, unless the parent's rank is estimated higher already
WithParent(d, p, e) == IF e >= d.est THEN [d EXCEPT !.parent = p, !.est = e] ELSE d

(***************************************************************************)
(* async_union and async_union_and_execute: the walk starts at whichever   *)
(* item is lower, as far as the caller's cache says.                       *)
(***************************************************************************)
StartWalk(c) ==
  LET mine == WalkCache(cache[c.from], c.a, -1)
      other == WalkCache(cache[c.from], c.b, -1)
  IN /\ c \in todo /\ at[c.from] = "run"
     /\ todo' = todo \ {c}
     /\ verdict' = [verdict EXCEPT ![c] = "open"]
     /\ compressed' = [compressed EXCEPT ![c.from] = FALSE]
     /\ net' = Plus(net, {IF mine.rank <= other.rank
                            THEN Walk(c, mine.item, c.a, other.item, c.b, other.rank)
                            ELSE Walk(c, other.item, c.b, mine.item, c.a, mine.rank)})
     /\ UNCHANGED <<known, data, cache, progVars, compVars>>

async_union(c) == ~c.exec /\ StartWalk(c)

async_union_and_execute(c) == c.exec /\ StartWalk(c)

\* Mutant: any root may go under any of the same rank.
MayMergeAny(i, p) == TRUE

\* Of two roots of the same rank the lower item goes under the other.
MayMerge(i, p) == i < p

\* What is certain of the new parent's rank in a tie.
EstOfTie(r) == r

\* Mutant: attaches an item that has gone under another meanwhile.
AtRootAny(p, i) == TRUE

AtRoot(p, i) == p = i

\* The two ways up have met.
Met(p, other, oitem) == p = other \/ p = oitem

\* A step of a walk, at m.item.
WalkStep(m) ==
  LET my == m.item
      d == data[my]
      c == cache[Owner[my]]
      up == WalkCache(c, d.parent, d.rank)
      other == WalkCache(c, m.oparent, m.orank)
      split == IF m.child = my THEN {}
               ELSE {Update(m.child, my, up.item, IF m.call.exec THEN d.rank ELSE up.rank)}
      root == AtRoot(up.item, my)
      Close(v) == verdict' = [verdict EXCEPT ![m.call] = v]
      Go(n) == /\ net' = Plus(Rest(m), split \cup {n})
               /\ UNCHANGED <<data, verdict>>
      Attach(e, sent) == /\ data' = [data EXCEPT ![my] = WithParent(@, other.item, e)]
                         /\ net' = Plus(Rest(m), split \cup sent)
                         /\ Close("joined")
      Above == Walk(m.call, up.item, my, other.item, m.oitem, other.rank)
      Across(r) == Walk(m.call, other.item, m.oitem, up.item, my, r)
  IN /\ Visit(m, "walk")
     /\ \/ /\ Met(up.item, other.item, m.oitem)
           /\ Close("same") /\ net' = Plus(Rest(m), split) /\ UNCHANGED data
        \/ /\ ~Met(up.item, other.item, m.oitem)
           /\ \/ up.rank > other.rank /\ Go(Across(up.rank))
              \/ up.rank <= other.rank /\ ~root /\ Go(Above)
              \/ up.rank < other.rank /\ root /\ Attach(other.rank, {})
              \/ /\ up.rank = other.rank /\ root /\ MayMerge(my, other.item)
                 /\ Attach(EstOfTie(d.rank), {Resolve(other.item, my, d.rank)})
              \/ up.rank = other.rank /\ root /\ ~MayMerge(my, other.item) /\ Go(Across(d.rank))
     /\ UNCHANGED <<cache, compressed, todo, progVars, compVars>>

\* simul_parent_walk_functor of async_union, and of async_union_and_execute,
\* which tells fn the verdict and the child no more than my rank.
HandleWalk(m) == m.op = "walk" /\ ~m.call.exec /\ WalkStep(m)
HandleWalkAndExecute(m) == m.op = "walk" /\ m.call.exec /\ WalkStep(m)

\* update_parent_and_cache_lambda: path splitting.
HandleUpdate(m) ==
  /\ Visit(m, "update")
  /\ cache' = [cache EXCEPT ![Owner[m.item]] = Cached(@, m.old, m.new, m.est)]
  /\ data' = IF data[m.item].parent = m.old
               THEN [data EXCEPT ![m.item] = WithParent(@, m.new, m.est)] ELSE data
  /\ net' = Rest(m)
  /\ UNCHANGED <<compressed, todo, verdict, progVars, compVars>>

\* resolve_merge_lambda: m.merging, of the same rank, was put under m.item.
HandleResolve(m) ==
  LET d == data[m.item]
      tie == d.rank = m.rank
      root == d.parent = m.item
  IN /\ Visit(m, "resolve")
     /\ data' = IF tie /\ root
                  THEN [data EXCEPT ![m.item].rank = m.rank + 1, ![m.item].est = m.rank + 1]
                  ELSE data
     /\ net' = Plus(Rest(m), IF tie /\ ~root THEN {SetParent(m.merging, d.parent, d.est)} ELSE {})
     /\ UNCHANGED <<cache, compressed, todo, verdict, progVars, compVars>>

HandleSetParent(m) ==
  /\ Visit(m, "parent")
  /\ data' = [data EXCEPT ![m.item] = WithParent(@, m.new, m.est)]
  /\ net' = Rest(m)
  /\ UNCHANGED <<cache, compressed, todo, verdict, progVars, compVars>>

-----------------------------------------------------------------------------
(***************************************************************************)
(* Collective operations: a barrier, what each rank does after it, and for *)
(* all_compress and all_find a barrier at the end.                         *)
(***************************************************************************)
Goto(r, place) == at' = [at EXCEPT ![r] = place]

\* All ranks have called the operation o.  A rank that is in the barrier while
\* others still run is one that happens to call nothing.
Enter(o) ==
  /\ op = "none" /\ ops > 0 /\ \A r \in Ranks : at[r] = "run"
  /\ op' = o /\ ops' = ops - 1
  /\ at' = [r \in Ranks |-> "enter"]
  /\ UNCHANGED <<known, data, cache, compressed, net, todo, verdict, found, compVars>>

All(place) == \A r \in Ranks : at[r] = place
InBarrier(place) == net = EmptyBag /\ All(place)

\* Mutant: each rank goes by its own flag.
NothingNewHere(r) == compressed[r]

\* No rank has called a union since all_compress was called last.
NothingNew(r) == \A q \in Ranks : compressed[q]

\* Where r goes from the first barrier.
First(o, r) ==
  CASE o = "compress" -> IF NothingNew(r) THEN "run" ELSE "prepare"
    [] o = "find" -> "ask"
    [] o = "clear" -> "wipe"

Begin ==
  /\ op # "none" /\ InBarrier("enter")
  /\ at' = [r \in Ranks |-> First(op, r)]
  /\ op' = IF \A r \in Ranks : at'[r] \in {"run", "wipe"} THEN "none" ELSE op
  /\ queries' = [r \in Ranks |-> NoQueries] /\ waiting' = {} /\ held' = NoQueries
  /\ UNCHANGED <<known, data, cache, compressed, net, todo, verdict, ops, found>>

End ==
  /\ InBarrier("last")
  /\ at' = [r \in Ranks |-> "run"] /\ op' = "none"
  /\ compressed' = IF op = "compress" THEN [r \in Ranks |-> TRUE] ELSE compressed
  /\ found' = [r \in Ranks |-> {}]     \* given to the caller
  /\ UNCHANGED <<known, data, cache, net, todo, verdict, ops, compVars>>

\* all_compress: who waits for the root over which parent.
Prepare(r) ==
  LET mine == {i \in known : Owner[i] = r /\ data[i].parent # i}
  IN /\ at[r] = "prepare"
     /\ queries' = [queries EXCEPT ![r] = [p \in Items |-> {i \in mine : data[i].parent = p}]]
     /\ waiting' = waiting \cup mine
     /\ Goto(r, "fence")
     /\ UNCHANGED <<known, data, cache, compressed, net, todo, verdict, op, ops, held, found>>

\* Messages of all_compress: a query of the root over item, and its answer.
Query(item, from) == [op |-> "query", item |-> item, from |-> from]
Rep(to, parent, rep) == [op |-> "rep", to |-> to, parent |-> parent, rep |-> rep]

\* After cf_barrier, which runs no handlers, one query for each parent.
AskRoots(r) ==
  /\ at[r] = "fence" /\ \A q \in Ranks : at[q] # "prepare"
  /\ net' = Plus(net, {Query(p, r) : p \in {p \in Items : queries[r][p] # {}}})
  /\ Goto(r, "last")
  /\ UNCHANGED <<known, data, cache, compressed, todo, verdict, op, ops, found, compVars>>

\* Mutant: answers with the parent it knows.
HandleQueryAtOnce(m) ==
  /\ m.op = "query" /\ Receiving(Owner[m.item])
  /\ net' = Plus(Rest(m), {Rep(m.from, m.item, data[m.item].parent)})
  /\ UNCHANGED <<known, data, cache, compressed, todo, verdict, progVars, compVars>>

\* query_rep_lambda: the answer is held back while the item waits for its own.
HandleQuery(m) ==
  /\ m.op = "query" /\ Receiving(Owner[m.item])
  /\ IF m.item \in waiting
       THEN held' = [held EXCEPT ![m.item] = @ \cup {m.from}] /\ net' = Rest(m)
       ELSE net' = Plus(Rest(m), {Rep(m.from, m.item, data[m.item].parent)}) /\ UNCHANGED held
  /\ UNCHANGED <<known, data, cache, compressed, todo, verdict, progVars, queries, waiting>>

\* update_rep_functor: the items that asked get their root, and pass it on.
HandleRep(m) ==
  LET items == queries[m.to][m.parent]
  IN /\ m.op = "rep" /\ Receiving(m.to)
     /\ data' = [i \in Items |-> IF i \in items THEN [data[i] EXCEPT !.parent = m.rep] ELSE data[i]]
     /\ net' = Plus(Rest(m), {Rep(p[2], p[1], m.rep) : p \in {p \in items \X Ranks : p[2] \in held[p[1]]}})
     /\ held' = [i \in Items |-> IF i \in items THEN {} ELSE held[i]]
     /\ waiting' = waiting \ items
     /\ queries' = [queries EXCEPT ![m.to][m.parent] = {}]
     /\ UNCHANGED <<known, cache, compressed, todo, verdict, progVars>>

\* Messages of all_find: the walk, and its two results.
Find(item, source, from) == [op |-> "find", item |-> item, source |-> source, from |-> from]
Root(item, root) == [op |-> "root", item |-> item, root |-> root]
Answer(to, source, root) == [op |-> "answer", to |-> to, source |-> source, root |-> root]

\* all_find(S), for items that are in the container.
AskFind(r, S) ==
  /\ at[r] = "ask" /\ S \subseteq known /\ Cardinality(S) <= MaxFind
  /\ net' = Plus(net, {Find(i, i, r) : i \in S})
  /\ Goto(r, "last")
  /\ UNCHANGED <<known, data, cache, compressed, todo, verdict, op, ops, found, compVars>>

\* find_rep_functor
HandleFind(m) ==
  LET p == data[m.item].parent
  IN /\ m.op = "find" /\ Receiving(Owner[m.item])
     /\ net' = Plus(Rest(m), IF p = m.item THEN {Root(m.source, p), Answer(m.from, m.source, p)}
                                           ELSE {Find(p, m.source, m.from)})
     /\ UNCHANGED <<known, data, cache, compressed, todo, verdict, progVars, compVars>>

HandleRoot(m) ==
  /\ m.op = "root" /\ Receiving(Owner[m.item])
  /\ data' = [data EXCEPT ![m.item].parent = m.root]
  /\ net' = Rest(m)
  /\ UNCHANGED <<known, cache, compressed, todo, verdict, progVars, compVars>>

HandleAnswer(m) ==
  /\ m.op = "answer" /\ Receiving(m.to)
  /\ found' = [found EXCEPT ![m.to] = @ \cup {<<m.source, m.root>>}]
  /\ net' = Rest(m)
  /\ UNCHANGED <<known, data, cache, compressed, todo, verdict, op, at, ops, compVars>>

\* clear(), after its barrier: no rank waits for the others.
Wipe(r) ==
  /\ at[r] = "wipe"
  /\ known' = {i \in known : Owner[i] # r}
  /\ data' = [i \in Items |-> IF Owner[i] = r THEN New(i) ELSE data[i]]
  /\ cache' = [cache EXCEPT ![r] = [s \in Slots |-> Unoccupied]]
  /\ Goto(r, "run")
  /\ UNCHANGED <<compressed, net, todo, verdict, op, ops, found, compVars>>

-----------------------------------------------------------------------------
Handler(m) ==
  \/ HandleWalk(m)
  \/ HandleWalkAndExecute(m)
  \/ HandleUpdate(m)
  \/ HandleResolve(m)
  \/ HandleSetParent(m)
  \/ HandleQuery(m)
  \/ HandleRep(m)
  \/ HandleFind(m)
  \/ HandleRoot(m)
  \/ HandleAnswer(m)

Collective(r) ==
  \/ Prepare(r)
  \/ AskRoots(r)
  \/ \E S \in SUBSET known : AskFind(r, S)
  \/ Wipe(r)

Library ==
  \/ \E m \in BagToSet(net) : Handler(m)
  \/ \E r \in Ranks : Collective(r)
  \/ Begin
  \/ End

Program ==
  \/ \E c \in todo : async_union(c) \/ async_union_and_execute(c)
  \/ \E o \in {"compress", "find", "clear"} : Enter(o)

\* The program calls nothing more.
Finished == todo = {} /\ ops = 0 /\ net = EmptyBag /\ All("run") /\ UNCHANGED vars

Next == Library \/ Program \/ Finished

Spec == Init /\ [][Next]_vars

\* What a rank has entered goes on; those in a barrier run handlers.
FairSpec ==
  /\ Spec /\ WF_vars(Library /\ \A r \in Ranks : at[r] # "run")
  /\ \A r \in Ranks : WF_vars(Collective(r))

-----------------------------------------------------------------------------
\* What clear() will have left: a rank runs no handler before it has cleared.
Cleared(r) == at[r] = "wipe"
Data == [i \in Items |-> IF Cleared(Owner[i]) THEN New(i) ELSE data[i]]
Entries(r) == IF Cleared(r) THEN {} ELSE {cache[r][s] : s \in Slots} \ {Unoccupied}

\* p may be above i: its rank is higher, or the same and p is the greater.
Higher(p, i) ==
  Data[p].rank > Data[i].rank \/ (Data[p].rank = Data[i].rank /\ p > i)

\* Ways up never turn round, in the items, in the caches and in what messages
\* are about to write, whatever order ties between roots of one rank are
\* resolved in: no two walks can make a cycle, and no chain in a cache is endless.
Uphill ==
  /\ \A i \in Items : Data[i].parent # i => Higher(Data[i].parent, i)
  /\ \A r \in Ranks : \A e \in Entries(r) : e.parent # e.item => Higher(e.parent, e.item)
  /\ \A m \in BagToSet(net) :
       /\ m.op = "update" => (m.new # m.old => Higher(m.new, m.old)) /\ Higher(m.old, m.item)
       /\ m.op = "parent" => Higher(m.new, m.item)

\* What items, caches and messages say of the rank of a parent is never above
\* its rank, although it was read any time ago; so the assertion of
\* resolve_merge_lambda, "my_rank >= merging_rank", cannot fail.
EstimatesSound ==
  /\ \A i \in Items : Data[i].est <= Data[Data[i].parent].rank
  /\ \A r \in Ranks : \A e \in Entries(r) : e.est <= Data[e.parent].rank
  /\ \A m \in BagToSet(net) :
       /\ m.op = "walk" => m.orank <= Data[m.oparent].rank
       /\ m.op \in {"update", "parent"} => m.est <= Data[m.new].rank
       /\ m.op = "resolve" => m.rank <= Data[m.item].rank

\* However walks, ties and short cuts interleave, the items are trees and what
\* is known of them remains true.
TreesSound == Uphill /\ EstimatesSound

\* The root over each item, when parent is the parent of each: no way up is
\* longer than the number of items.
Roots(parent) == [i \in Items |-> After(parent, i, Cardinality(Items))]

RootOf == Roots([i \in Items |-> Data[i].parent])

\* The sets of those of the items that are in S.  (root ranges over one function,
\* and TLC computes it once.)
SetsIn(S) == UNION {{{j \in S : root[j] = root[i]} : i \in S} : root \in {RootOf}}

Promise == INSTANCE Partition WITH classes <- SetsIn(Items)

\* Each union joins the sets of its two items and no others or finds them
\* joined, and is told which; path splitting, compression, finds and caches
\* change no set.
PartitionKept == Promise!Spec

\* num_sets(), which asks after a barrier.
num_sets == Cardinality({i \in known : data[i].parent = i})

\* What for_all shows to its function: each item and its parent.
Reps == {<<i, data[i].parent>> : i \in known}

\* When all_compress returns every parent is a root: the answers that were
\* held back have come, in whichever order.
CompressedToRoots ==
  op = "compress" /\ InBarrier("last") =>
    /\ waiting = {} /\ \A i \in Items : held[i] = {}
    /\ \A p \in Reps : p[2] = RootOf[p[1]]

\* After a barrier all unions are over, all their items are in the container,
\* and all_find has found the root of each item it was asked for.
BarrierSettles ==
  op # "none" /\ (InBarrier("enter") \/ InBarrier("last")) =>
    /\ \A c \in Calls : verdict[c] # "open"
    /\ num_sets = Cardinality(SetsIn(known))
    /\ \A r \in Ranks : \A f \in found[r] : f[2] = RootOf[f[1]]

\* What collective operations promise when they return.
BarrierExact == CompressedToRoots /\ BarrierSettles

\* Walks, queries and finds come to an end: collective operations return.
CollectivesReturn ==
  (\A r \in Ranks : at[r] # "run") ~> (\A r \in Ranks : at[r] = "run")
=============================================================================
