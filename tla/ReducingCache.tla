--------------------------- MODULE ReducingCache ---------------------------
(***************************************************************************)
(* ygm::container::detail::reducing_adapter: reductions into a map or an   *)
(* array that are merged in a cache of the rank which asks for them, and   *)
(* again in the caches of the ranks that NLNR routing takes them over; the *)
(* owner of the key reduces them into the container.  A slot is sent on    *)
(* when another key needs it and, by a pre-barrier callback, before a      *)
(* barrier.                                                                *)
(*                                                                         *)
(* As in CountingCache, sending may run handlers before the message is     *)
(* packed and after it, and a handler is one step.  A value is the number  *)
(* of reductions that were merged into it.                                 *)
(***************************************************************************)
EXTENDS Integers, Sequences, FiniteSets, Bags

CONSTANTS
  Ranks, Keys,
  Owner,       \* Owner[k]: partitioner.owner(k)
  NumSlots, Slot,
  NextHop,     \* NextHop[<<r, q>>]: the way from r to q over several nodes
  Uses,        \* what a run may be like, see use
  MaxReduces,  \* bound: reductions in a run
  None         \* no key

VARIABLES
  use,    \* this run: async() runs handlers, for buffers fill up; one node only
  cache,  \* m_cache[r][s]; a slot that is not occupied has value 0
  empty,  \* m_cache_empty
  hooks,  \* callbacks registered by r
  net,    \* messages in flight
  stack,  \* the calls r is in, innermost first
  table,  \* the container
  due,    \* the reductions asked for
  left    \* reductions the bound still allows

vars == <<use, cache, empty, hooks, net, stack, table, due, left>>

Slots == 1..NumSlots
Unoccupied == [key |-> None, value |-> 0]
Entry(k, v) == [key |-> k, value |-> v]

App == [op |-> "app"]
Barrier == [op |-> "barrier"]
FlushAll(s) == [op |-> "flush_all", slot |-> s]

Top(r) == Head(stack[r])
Below(r) == Tail(stack[r])
SetStack(r, s) == stack' = [stack EXCEPT ![r] = s]

Plus(n, m) == n (+) SetToBag({m})
Rest(m) == net (-) SetToBag({m})

Init ==
  /\ use \in Uses
  /\ cache = [r \in Ranks |-> [s \in Slots |-> Unoccupied]]
  /\ empty = [r \in Ranks |-> TRUE]
  /\ hooks = [r \in Ranks |-> 0]
  /\ net = EmptyBag
  /\ stack = [r \in Ranks |-> <<App>>]
  /\ table = [k \in Keys |-> 0] /\ due = [k \in Keys |-> 0] /\ left = MaxReduces

-----------------------------------------------------------------------------
next_hop(r, q) == IF use.one_node THEN q ELSE NextHop[<<r, q>>]

\* To the container's owner of k, which is r; to the cache of the next rank.
Reduction(r, k, v) == [op |-> "reduce", to |-> r, key |-> k, value |-> v]
Cached(to, k, v) == [op |-> "cache", to |-> to, key |-> k, value |-> v]

\* cache_flush has computed where to, and is calling async(): of what the slot
\* then holds.  After it cache_reduce occupies the slot with fill.
Flush(r, s, fill) ==
  [op |-> "flush", slot |-> s, to |-> next_hop(r, Owner[cache[r][s].key]), fill |-> fill, packed |-> FALSE]

\* An entry in an empty cache registers a callback.
Register(r) ==
  /\ empty' = [empty EXCEPT ![r] = FALSE]
  /\ hooks' = IF empty[r] THEN [hooks EXCEPT ![r] = @ + 1] ELSE hooks

Taken(r, k) == cache[r][Slot[k]].key \notin {None, k}

\* Mutant: the value of an occupied slot is replaced.
Replaced(e, k, v) == Entry(k, v)

Merged(e, k, v) == Entry(k, e.value + v)

\* The program calls async_reduce(k): cache_reduce.
Reduce(r, k) ==
  /\ Top(r) = App /\ left > 0 /\ left' = left - 1
  /\ due' = [due EXCEPT ![k] = @ + 1]
  /\ IF Owner[k] = r
       THEN net' = Plus(net, Reduction(r, k, 1)) /\ UNCHANGED <<cache, empty, hooks, stack>>
       ELSE /\ Register(r)
            /\ IF Taken(r, k)
                 THEN SetStack(r, <<Flush(r, Slot[k], Entry(k, 1))>> \o stack[r]) /\ UNCHANGED cache
                 ELSE cache' = [cache EXCEPT ![r][Slot[k]] = Merged(@, k, 1)] /\ UNCHANGED stack
            /\ UNCHANGED net
  /\ UNCHANGED <<use, table>>

\* cache_flush: async() packs the slot, and when it returns the slot is free.
FlushPack(r) ==
  /\ Top(r).op = "flush" /\ ~Top(r).packed
  /\ LET e == cache[r][Top(r).slot]
     IN net' = Plus(net, Cached(Top(r).to, e.key, e.value))
  /\ SetStack(r, <<[Top(r) EXCEPT !.packed = TRUE]>> \o Below(r))
  /\ UNCHANGED <<use, cache, empty, hooks, table, due, left>>
FlushEnd(r) ==
  /\ Top(r).op = "flush" /\ Top(r).packed
  /\ cache' = [cache EXCEPT ![r][Top(r).slot] = Top(r).fill]
  /\ SetStack(r, Below(r))
  /\ UNCHANGED <<use, empty, hooks, net, table, due, left>>

\* r may be receiving: between calls, in an async(), or in a barrier.
Receiving(r) ==
  \/ Top(r) \in {App, Barrier}
  \/ Top(r).op = "flush" /\ use.interrupts

\* cache_reduce in a handler, whose own async() runs no handlers.
HandleCache(r, m) ==
  LET s == Slot[m.key]
      e == cache[r][s]
  IN /\ Receiving(r) /\ m.op = "cache" /\ m.to = r
     /\ \/ /\ Owner[m.key] = r
           /\ net' = Plus(Rest(m), Reduction(r, m.key, m.value))
           /\ UNCHANGED <<cache, empty, hooks>>
        \/ /\ Owner[m.key] # r /\ Taken(r, m.key)
           /\ Register(r)
           /\ net' = Plus(Rest(m), Cached(next_hop(r, Owner[e.key]), e.key, e.value))
           /\ cache' = [cache EXCEPT ![r][s] = Entry(m.key, m.value)]
        \/ /\ Owner[m.key] # r /\ ~Taken(r, m.key)
           /\ Register(r)
           /\ net' = Rest(m)
           /\ cache' = [cache EXCEPT ![r][s] = Merged(e, m.key, m.value)]
     /\ UNCHANGED <<use, stack, table, due, left>>

\* container_reduction's visit at the owner.
HandleReduce(r, m) ==
  /\ Receiving(r) /\ m.op = "reduce" /\ m.to = r
  /\ net' = Rest(m)
  /\ table' = [table EXCEPT ![m.key] = @ + m.value]
  /\ UNCHANGED <<use, cache, empty, hooks, stack, due, left>>

-----------------------------------------------------------------------------
CallBarrier(r) ==
  /\ Top(r) = App
  /\ SetStack(r, <<Barrier>> \o stack[r])
  /\ UNCHANGED <<use, cache, empty, hooks, net, table, due, left>>

\* The barrier calls a callback: cache_flush_all.
RunHook(r) ==
  /\ Top(r) = Barrier /\ hooks[r] > 0
  /\ hooks' = [hooks EXCEPT ![r] = @ - 1]
  /\ SetStack(r, <<FlushAll(1)>> \o stack[r])
  /\ UNCHANGED <<use, cache, empty, net, table, due, left>>
FlushAllSlot(r) ==
  /\ Top(r).op = "flush_all" /\ Top(r).slot <= NumSlots
  /\ LET s == Top(r).slot
         rest == <<FlushAll(s + 1)>> \o Below(r)
     IN SetStack(r, IF cache[r][s] = Unoccupied THEN rest ELSE <<Flush(r, s, Unoccupied)>> \o rest)
  /\ UNCHANGED <<use, cache, empty, hooks, net, table, due, left>>
FlushAllEnd(r) ==
  /\ Top(r).op = "flush_all" /\ Top(r).slot > NumSlots
  /\ empty' = [empty EXCEPT ![r] = TRUE]
  /\ SetStack(r, Below(r))
  /\ UNCHANGED <<use, cache, hooks, net, table, due, left>>

BarrierOver ==
  /\ \A r \in Ranks : Top(r) = Barrier /\ hooks[r] = 0
  /\ net = EmptyBag

Release ==
  /\ BarrierOver
  /\ stack' = [r \in Ranks |-> Below(r)]
  /\ UNCHANGED <<use, cache, empty, hooks, net, table, due, left>>

Next ==
  \/ \E r \in Ranks :
       \/ \E k \in Keys : Reduce(r, k)
       \/ FlushPack(r) \/ FlushEnd(r)
       \/ CallBarrier(r) \/ RunHook(r) \/ FlushAllSlot(r) \/ FlushAllEnd(r)
       \/ \E m \in BagToSet(net) : HandleCache(r, m) \/ HandleReduce(r, m)
  \/ Release

Spec == Init /\ [][Next]_vars

-----------------------------------------------------------------------------
\* When a barrier ends, every reduction is in the container, however it was
\* merged on its way, as test_reducing_adapter.cpp expects of its for_all().
ReductionsExact == BarrierOver => table = due
=============================================================================
