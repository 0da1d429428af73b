--------------------------- MODULE CountingCache ---------------------------
(***************************************************************************)
(* The write-back cache of ygm::container::counting_set.  async_insert()   *)
(* counts in a slot of the rank's cache; a slot is sent to the owner of    *)
(* its key when another key needs it, when its 32-bit count is full, and,  *)
(* by a pre-barrier callback, before a barrier.                            *)
(*                                                                         *)
(* Sending is comm::async, which may run handlers before the message is    *)
(* packed (production halted) and after (buffers flushed); a handler's own *)
(* sends run none, so a handler is one step (NoReentry in YgmComm).  The   *)
(* barrier ends when nothing is in flight and no callback is registered    *)
(* (YgmBarrier).                                                           *)
(***************************************************************************)
EXTENDS Integers, Sequences, FiniteSets, Functions, Bags

CONSTANTS
  Ranks, Keys,
  Orig, Copy,     \* a counting_set, and the one copy-constructed from it
  NumSlots,       \* count_cache_size
  Slot,           \* Slot[k]: the cache slot of k
  Owner,          \* Owner[k]: the rank that stores the count of k
  MaxCount,       \* numeric_limits<int32_t>::max()
  MaxInserts,     \* bound: insertions in a run
  Uses,           \* the ways the program may use the container, see use
  None            \* no key

ASSUME CountingAssumption ==
  /\ IsFiniteSet(Ranks) /\ NumSlots \in Nat
  /\ Slot \in [Keys -> 1..NumSlots] /\ Owner \in [Keys -> Ranks]
  /\ MaxCount \in Nat \ {0, 1} /\ MaxInserts \in Nat
  /\ Orig # Copy /\ None \notin Keys
  /\ Uses \subseteq [interrupts : BOOLEAN, handlers : BOOLEAN]

VARIABLES
  use,     \* what this run does: async() runs handlers, for buffers fill up;
           \* handlers insert
  call,    \* the collective that all ranks call next
  built,   \* the counting_sets that are constructed
  cache,   \* m_count_cache: cache[c][r][s]
  empty,   \* m_cache_empty: empty[c][r]
  hooks,   \* m_pre_barrier_callbacks: the sets to flush
  map,     \* m_map: map[c][k], at the owner of k
  net,     \* the messages in flight
  stack,   \* the calls a rank is in, innermost first
  ins,     \* ins[c][k]: how often k was inserted into c
  left     \* insertions the bound MaxInserts still allows

cacheVars == <<cache, empty, hooks>>
progVars == <<use, call, built>>
vars == <<progVars, cacheVars, map, net, stack, ins, left>>

Sets == {Orig, Copy}
Slots == 1..NumSlots

Free == [key |-> None, count |-> -1]
Entry(k, n) == [key |-> k, count |-> n]

\* Messages: a visit of count_cache_flush, and user code that inserts.
Visit(c, k, n) == [op |-> "visit", to |-> Owner[k], set |-> c, key |-> k, add |-> n]
UserMsg(r, c, k) == [op |-> "insert", to |-> r, set |-> c, key |-> k]

Plus(n, m) == n (+) SetToBag({m})
Rest(m) == net (-) SetToBag({m})

\* Frames of the stack.
App == [op |-> "app"]
Barrier(hooking) == [op |-> "barrier", hooking |-> hooking]
FlushAll(c, s) == [op |-> "flushall", set |-> c, slot |-> s]     \* count_cache_flush_all
Flush(c, s, e, fill) ==                                          \* count_cache_flush
  [op |-> "flush", set |-> c, slot |-> s, key |-> e.key, count |-> e.count,
   fill |-> fill, packed |-> FALSE]

Top(r) == Head(stack[r])
Below(r) == Tail(stack[r])
SetStack(r, s) == stack' = [stack EXCEPT ![r] = s]
InBarrier(r) == \E i \in DOMAIN stack[r] : stack[r][i].op = "barrier"

Init ==
  /\ use \in Uses /\ built = {Orig}
  /\ call \in {"barrier", "copy", "clear"}
  /\ cache = [c \in Sets |-> [r \in Ranks |-> [s \in Slots |-> Free]]]
  /\ empty = [c \in Sets |-> [r \in Ranks |-> TRUE]]
  /\ hooks = [r \in Ranks |-> <<>>]
  /\ map = [c \in Sets |-> [k \in Keys |-> 0]]
  /\ net = EmptyBag
  /\ stack = [r \in Ranks |-> <<App>>]
  /\ ins = [c \in Sets |-> [k \in Keys |-> 0]] /\ left = MaxInserts

-----------------------------------------------------------------------------
(***************************************************************************)
(* cache_insert.                                                           *)
(***************************************************************************)
\* The first entry of an empty cache registers a callback.
Register(c, r) ==
  /\ empty' = [empty EXCEPT ![c][r] = FALSE]
  /\ hooks' = IF empty[c][r] THEN [hooks EXCEPT ![r] = Append(@, c)] ELSE hooks

Full(e) == e.count = MaxCount

\* The slot holds another key.
Taken(e, k) == e.count # -1 /\ e.key # k

Counted(e, k) == Entry(k, IF e.count = -1 THEN 1 ELSE e.count + 1)

\* The program inserts before a barrier, not directly before a copy or a clear:
\* counts on their way and in caches that others have not cleared yet would come
\* after it, and the callback that flushes a copied cache is the original's.
Insertion(c, k) ==
  /\ c \in built /\ left > 0
  /\ call = "barrier"
  /\ left' = left - 1
  /\ ins' = [ins EXCEPT ![c][k] = @ + 1]

\* The application calls async_insert(k).
Insert(r, c, k) ==
  LET s == Slot[k]
      e == cache[c][r][s]
      n == Counted(e, k)
  IN /\ Top(r) = App /\ Insertion(c, k)
     /\ Register(c, r)
     /\ IF Taken(e, k)
          THEN SetStack(r, <<Flush(c, s, e, k)>> \o stack[r]) /\ UNCHANGED cache
          ELSE /\ cache' = [cache EXCEPT ![c][r][s] = n]
               /\ IF Full(n) THEN SetStack(r, <<Flush(c, s, n, None)>> \o stack[r])
                             ELSE UNCHANGED stack
     /\ UNCHANGED <<progVars, map, net>>

\* The application sends a message whose handler inserts k at q.
SendInsert(r, q, c, k) ==
  /\ use.handlers
  /\ Top(r) = App /\ Insertion(c, k)
  /\ net' = Plus(net, UserMsg(q, c, k))
  /\ UNCHANGED <<progVars, cacheVars, map, stack>>

(***************************************************************************)
(* count_cache_flush, of a count read before async() is called.            *)
(***************************************************************************)
FlushPack(r) ==
  /\ Top(r).op = "flush" /\ ~Top(r).packed
  /\ net' = Plus(net, Visit(Top(r).set, Top(r).key, Top(r).count))
  /\ stack' = [stack EXCEPT ![r][1].packed = TRUE]
  /\ UNCHANGED <<progVars, cacheVars, map, ins, left>>

\* Mutant: does not reset a slot that is not filled again.
FlushEndKept(r) ==
  /\ Top(r).op = "flush" /\ Top(r).packed
  /\ LET f == Top(r)
     IN cache' = IF f.fill = None THEN cache
                 ELSE [cache EXCEPT ![f.set][r][f.slot] = Entry(f.fill, 1)]
  /\ SetStack(r, Below(r))
  /\ UNCHANGED <<progVars, empty, hooks, map, net, ins, left>>

\* async() has returned: the slot is reset, and cache_insert fills it.
FlushEnd(r) ==
  /\ Top(r).op = "flush" /\ Top(r).packed
  /\ LET f == Top(r)
     IN cache' = [cache EXCEPT ![f.set][r][f.slot] =
                    IF f.fill = None THEN Free ELSE Entry(f.fill, 1)]
  /\ SetStack(r, Below(r))
  /\ UNCHANGED <<progVars, empty, hooks, map, net, ins, left>>

(***************************************************************************)
(* Handlers.                                                               *)
(***************************************************************************)
\* r may be receiving: between calls, in an async(), or in a barrier.
Receiving(r) ==
  \/ Top(r) = App
  \/ Top(r).op = "flush" /\ use.interrupts
  \/ Top(r) = Barrier(FALSE)

HandleVisit(r, m) ==
  /\ Receiving(r) /\ m.op = "visit" /\ m.to = r
  /\ net' = Rest(m)
  /\ map' = [map EXCEPT ![m.set][m.key] = @ + m.add]
  /\ UNCHANGED <<progVars, cacheVars, stack, ins, left>>

\* The handler calls async_insert, whose own async() runs no handlers.
HandleInsert(r, m) ==
  LET s == Slot[m.key]
      e == cache[m.set][r][s]
      n == Counted(e, m.key)
      rest == Rest(m)
  IN /\ Receiving(r) /\ m.op = "insert" /\ m.to = r
     /\ Register(m.set, r)
     /\ \/ /\ Taken(e, m.key)
           /\ net' = Plus(rest, Visit(m.set, e.key, e.count))
           /\ cache' = [cache EXCEPT ![m.set][r][s] = Entry(m.key, 1)]
        \/ /\ ~Taken(e, m.key) /\ ~Full(n)
           /\ net' = rest
           /\ cache' = [cache EXCEPT ![m.set][r][s] = n]
        \/ /\ ~Taken(e, m.key) /\ Full(n)
           /\ net' = Plus(rest, Visit(m.set, n.key, n.count))
           /\ cache' = [cache EXCEPT ![m.set][r][s] = Free]
     /\ UNCHANGED <<progVars, map, stack, ins, left>>

-----------------------------------------------------------------------------
(***************************************************************************)
(* Barriers, and the collectives that end with one.                        *)
(***************************************************************************)
EnterBarrier(r) == SetStack(r, <<Barrier(FALSE)>> \o stack[r])

CallBarrier(r) ==
  /\ Top(r) = App /\ call = "barrier"
  /\ EnterBarrier(r)
  /\ UNCHANGED <<progVars, cacheVars, map, net, ins, left>>

\* What f holds of r's keys becomes what g holds.
AtOwner(r, f, g) == [k \in Keys |-> IF Owner[k] = r THEN g[k] ELSE f[k]]

\* The copy constructor, up to the barrier of ygm_ptr::check.
CopyConstruct(r) ==
  /\ Top(r) = App /\ call = "copy"
  /\ cache' = [cache EXCEPT ![Copy][r] = cache[Orig][r]]
  /\ empty' = [empty EXCEPT ![Copy][r] = empty[Orig][r]]
  /\ map' = [map EXCEPT ![Copy] = AtOwner(r, @, map[Orig])]
  /\ ins' = [ins EXCEPT ![Copy] = AtOwner(r, @, ins[Orig])]
  /\ EnterBarrier(r)
  /\ UNCHANGED <<progVars, hooks, net, left>>

\* clear(): the map's local_clear, clear_cache, barrier.
Clear(r) ==
  /\ Top(r) = App /\ call = "clear"
  /\ cache' = [cache EXCEPT ![Orig][r] = [s \in Slots |-> Free]]
  /\ empty' = [empty EXCEPT ![Orig][r] = TRUE]
  /\ map' = [map EXCEPT ![Orig] = AtOwner(r, @, [k \in Keys |-> 0])]
  /\ ins' = [ins EXCEPT ![Orig] = AtOwner(r, @, [k \in Keys |-> 0])]
  /\ EnterBarrier(r)
  /\ UNCHANGED <<progVars, hooks, net, left>>

\* Mutant: leaves the callback registered.
RunHookKept(r) ==
  /\ Top(r).op = "barrier" /\ hooks[r] # <<>>
  /\ LET c == Head(hooks[r])
     IN SetStack(r, (IF empty[c][r] THEN <<>> ELSE <<FlushAll(c, 1)>>)
                      \o <<Barrier(TRUE)>> \o Below(r))
  /\ UNCHANGED <<progVars, cacheVars, map, net, ins, left>>

\* The barrier calls the next callback.
RunHook(r) ==
  /\ Top(r).op = "barrier" /\ hooks[r] # <<>>
  /\ LET c == Head(hooks[r])
     IN SetStack(r, (IF empty[c][r] THEN <<>> ELSE <<FlushAll(c, 1)>>)
                      \o <<Barrier(TRUE)>> \o Below(r))
  /\ hooks' = [hooks EXCEPT ![r] = Tail(@)]
  /\ UNCHANGED <<progVars, cache, empty, map, net, ins, left>>

HooksDone(r) ==
  /\ Top(r) = Barrier(TRUE) /\ hooks[r] = <<>>
  /\ SetStack(r, <<Barrier(FALSE)>> \o Below(r))
  /\ UNCHANGED <<progVars, cacheVars, map, net, ins, left>>

\* Mutant: stops before the last slot.
LastButOne == NumSlots - 1

LastSlot == NumSlots

\* count_cache_flush_all takes the next slot.
FlushAllSlot(r) ==
  /\ Top(r).op = "flushall" /\ Top(r).slot <= LastSlot
  /\ LET c == Top(r).set
         s == Top(r).slot
         rest == <<FlushAll(c, s + 1)>> \o Below(r)
         e == cache[c][r][s]
     IN SetStack(r, IF e.count > 0 THEN <<Flush(c, s, e, None)>> \o rest ELSE rest)
  /\ UNCHANGED <<progVars, cacheVars, map, net, ins, left>>

\* After the last slot the cache is marked empty.
FlushAllEnd(r) ==
  /\ Top(r).op = "flushall" /\ Top(r).slot > LastSlot
  /\ empty' = [empty EXCEPT ![Top(r).set][r] = TRUE]
  /\ SetStack(r, Below(r))
  /\ UNCHANGED <<progVars, cache, hooks, map, net, ins, left>>

\* The barrier ends: nothing is in flight, no callback is registered.
BarrierOver ==
  /\ \A r \in Ranks : Top(r) = Barrier(FALSE) /\ hooks[r] = <<>>
  /\ net = EmptyBag

Release ==
  /\ BarrierOver
  /\ stack' = [r \in Ranks |-> Below(r)]
  /\ built' = IF call = "copy" THEN Sets ELSE built
  /\ call' \in {"barrier", "clear"} \cup (IF built' = Sets THEN {} ELSE {"copy"})
  /\ UNCHANGED <<use, cacheVars, map, net, ins, left>>

-----------------------------------------------------------------------------
Application(r) ==
  \/ \E c \in Sets, k \in Keys : Insert(r, c, k)
  \/ \E q \in Ranks, c \in Sets, k \in Keys : SendInsert(r, q, c, k)
  \/ CallBarrier(r)
  \/ CopyConstruct(r)
  \/ Clear(r)

Library(r) ==
  \/ FlushPack(r)
  \/ FlushEnd(r)
  \/ RunHook(r)
  \/ HooksDone(r)
  \/ FlushAllSlot(r)
  \/ FlushAllEnd(r)

Handler(r) == \E m \in BagToSet(net) : HandleVisit(r, m) \/ HandleInsert(r, m)

Next ==
  \/ \E r \in Ranks : Application(r) \/ Library(r) \/ Handler(r)
  \/ Release

Spec == Init /\ [][Next]_vars

\* A rank inside the library goes on, a rank in a barrier receives.
FairSpec ==
  Spec /\ (\A r \in Ranks : WF_vars(Library(r)) /\ WF_vars(Handler(r))) /\ WF_vars(Release)

-----------------------------------------------------------------------------
Entries == [key : Keys, count : 1..MaxCount] \cup {Free}

FrameTypes ==
  {App} \cup [op : {"barrier"}, hooking : BOOLEAN]
    \cup [op : {"flushall"}, set : Sets, slot : 1..NumSlots + 1]
    \cup [op : {"flush"}, set : Sets, slot : Slots, key : Keys, count : 1..MaxCount,
          fill : Keys \cup {None}, packed : BOOLEAN]

TypeOK ==
  /\ use \in Uses /\ call \in {"barrier", "copy", "clear"} /\ {Orig} \subseteq built
  /\ built \subseteq Sets
  /\ cache \in [Sets -> [Ranks -> [Slots -> Entries]]]
  /\ empty \in [Sets -> [Ranks -> BOOLEAN]]
  /\ hooks \in [Ranks -> Seq(Sets)]
  /\ map \in [Sets -> [Keys -> Nat]] /\ ins \in [Sets -> [Keys -> Nat]]
  /\ BagToSet(net) \subseteq
       [op : {"visit"}, to : Ranks, set : Sets, key : Keys, add : 1..MaxCount]
         \cup [op : {"insert"}, to : Ranks, set : Sets, key : Keys]
  /\ stack \in [Ranks -> Seq(FrameTypes)]
  /\ left \in 0..MaxInserts

\* Each insertion is in one of four places: stored, in a message, in a slot
\* (unless the slot's count is packed already), or waiting for a slot.
Carries(m, c, k) ==
  CASE m.set # c \/ m.key # k -> 0
    [] m.set = c /\ m.key = k -> IF m.op = "visit" THEN m.add ELSE 1

Sent(c, k) == SumFunction([m \in BagToSet(net) |-> net[m] * Carries(m, c, k)])

Holds(r, c, k) ==
  LET e == cache[c][r][Slot[k]]
      f == Top(r)
      flushing == f.op = "flush" /\ f.set = c
  IN (IF e.key = k THEN e.count ELSE 0)
       - (IF flushing /\ f.packed /\ f.key = k THEN f.count ELSE 0)
       + (IF flushing /\ f.fill = k THEN 1 ELSE 0)

Held(c, k) == SumFunction([r \in Ranks |-> Holds(r, c, k)])

\* No count is lost or sent twice by a flush, which handlers interrupt between
\* reading a slot and resetting it.
CountsConserved ==
  \A c \in built, k \in Keys : ins[c][k] = map[c][k] + Sent(c, k) + Held(c, k)

\* A count in a cache is going to be sent in the next barrier: a callback of
\* its set is registered, or runs and has not come to its slot.
NothingStranded ==
  \A c \in built, r \in Ranks, s \in Slots :
    cache[c][r][s].count > 0 =>
      \/ c \in {hooks[r][i] : i \in DOMAIN hooks[r]}
      \/ \E i \in DOMAIN stack[r] :
           \/ stack[r][i].op = "flushall" /\ stack[r][i].set = c /\ stack[r][i].slot <= s
           \/ stack[r][i].op = "flush" /\ stack[r][i].set = c /\ stack[r][i].slot = s

\* Counts that flushes and insertions pass on are in one place, and in none that
\* the next barrier does not empty.
CacheSound == CountsConserved /\ NothingStranded

\* When a barrier ends, each count is the number of insertions: "Counts can be
\* inaccurate before a barrier()", not after it.
ExactAfterBarrier ==
  BarrierOver => \A c \in built, k \in Keys : map[c][k] = ins[c][k]

\* All ranks get out of a barrier: the callbacks come to an end.
BarrierReturns == (\A r \in Ranks : InBarrier(r)) ~> (\A r \in Ranks : ~InBarrier(r))
=============================================================================
