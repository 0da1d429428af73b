----------------------------- MODULE WorkQueue -----------------------------
(***************************************************************************)
(* ygm::container::work_queue: items that a rank inserts, itself or by a   *)
(* handler, wait in its local queue for the next barrier, whose callback   *)
(* applies the work lambda to them until there are none.  The lambda may   *)
(* insert items, here or, by async(), elsewhere.                           *)
(***************************************************************************)
EXTENDS Integers, Sequences, FiniteSets, Functions, Bags

CONSTANTS
  Ranks,
  Items,       \* numbers: the work on item i may insert item i - 1
  Policies,    \* of "fifo", "lifo", "priority"
  MaxInserts,  \* bound: insertions of the program in a run
  MaxCalls     \* bound: collective calls in a run

VARIABLES
  policy,  \* QueuePolicy
  live,    \* the work_queues that each rank may insert into
  queue,   \* m_local_queue: queue[w][r]
  flag,    \* m_callback_registered
  hooks,   \* the queues whose callbacks r has registered
  at,      \* each rank: "app", in a "barrier", or at "work" in a callback of it
  busy,    \* the queue it works on
  call,    \* the collective that ranks call next
  net,     \* messages in flight: insert item at rank to
  due,     \* the items inserted, without those discarded
  done,    \* the items worked on
  left, calls

vars == <<policy, live, queue, flag, hooks, at, busy, call, net, due, done, left, calls>>
queueVars == <<queue, flag, hooks>>

\* A bag with one more and one less of x, and a queue without its n-th item.
Plus(b, x) == b (+) SetToBag({x})
Rest(b, x) == b (-) SetToBag({x})
Without(q, n) == SubSeq(q, 1, n - 1) \o SubSeq(q, n + 1, Len(q))

Queues == {"w", "v"}
Collectives == {"barrier", "clear", "move"}

Init ==
  /\ policy \in Policies /\ live = [r \in Ranks |-> {"w"}]
  /\ queue = [w \in Queues |-> [r \in Ranks |-> <<>>]]
  /\ flag = [w \in Queues |-> [r \in Ranks |-> FALSE]]
  /\ hooks = [r \in Ranks |-> <<>>]
  /\ at = [r \in Ranks |-> "app"] /\ busy = [r \in Ranks |-> "w"]
  /\ call \in Collectives
  /\ net = EmptyBag /\ due = EmptyBag /\ done = EmptyBag
  /\ left = MaxInserts /\ calls = MaxCalls

-----------------------------------------------------------------------------
(***************************************************************************)
(* The policies: where the top of a queue is.                              *)
(***************************************************************************)
fifo_policy(q) == 1
lifo_policy(q) == Len(q)
priority_policy(q) == CHOOSE n \in DOMAIN q : \A k \in DOMAIN q : q[k] <= q[n]

Top(q) ==
  CASE policy = "fifo" -> fifo_policy(q)
    [] policy = "lifo" -> lifo_policy(q)
    [] policy = "priority" -> priority_policy(q)

register_processing_callback(w, r) ==
  /\ hooks' = [hooks EXCEPT ![r] = Append(@, w)]
  /\ flag' = [flag EXCEPT ![w][r] = TRUE]

local_insert(w, r, i) ==
  /\ queue' = [queue EXCEPT ![w][r] = Append(@, i)]
  /\ IF flag[w][r] THEN UNCHANGED <<flag, hooks>> ELSE register_processing_callback(w, r)

Insertion(r, w, i) ==
  /\ at[r] = "app" /\ w \in live[r] /\ left > 0 /\ left' = left - 1
  /\ due' = Plus(due, i)

Insert(r, w, i) ==
  /\ Insertion(r, w, i)
  /\ local_insert(w, r, i)
  /\ UNCHANGED <<policy, live, at, busy, call, net, done, calls>>

Msg(w, r, i) == [queue |-> w, to |-> r, item |-> i]
AsyncInsert(r, q, w, i) ==
  /\ Insertion(r, w, i)
  /\ net' = Plus(net, Msg(w, q, i))
  /\ UNCHANGED <<policy, live, queueVars, at, busy, call, done, calls>>

\* Also while the work lambda calls async().
HandleInsert(m) ==
  /\ at[m.to] # "moving"
  /\ local_insert(m.queue, m.to, m.item)
  /\ net' = Rest(net, m)
  /\ UNCHANGED <<policy, live, at, busy, call, due, done, left, calls>>

-----------------------------------------------------------------------------
(***************************************************************************)
(* The callback, and the rest of local_process_all.                        *)
(***************************************************************************)
RunHook(r) ==
  /\ at[r] = "barrier" /\ hooks[r] # <<>>
  /\ hooks' = [hooks EXCEPT ![r] = Tail(@)]
  /\ busy' = [busy EXCEPT ![r] = Head(hooks[r])]
  /\ at' = [at EXCEPT ![r] = "work"]
  /\ UNCHANGED <<policy, live, queue, flag, call, net, due, done, left, calls>>

\* The item is popped, then worked on: that inserts nothing, an item here, or
\* one anywhere.
local_process_all(r) ==
  LET w == busy[r]
      q == queue[w][r]
      i == q[Top(q)]
      rest == Without(q, Top(q))
  IN /\ at[r] = "work" /\ q # <<>>
     /\ done' = Plus(done, i)
     /\ \/ /\ queue' = [queue EXCEPT ![w][r] = rest]
           /\ UNCHANGED <<due, net>>
        \/ /\ i > 0 /\ due' = Plus(due, i - 1)
           /\ queue' = [queue EXCEPT ![w][r] = Append(rest, i - 1)]
           /\ UNCHANGED net
        \/ /\ i > 0 /\ due' = Plus(due, i - 1)
           /\ queue' = [queue EXCEPT ![w][r] = rest]
           /\ \E d \in Ranks : net' = Plus(net, Msg(w, d, i - 1))
     /\ UNCHANGED <<policy, live, flag, hooks, at, busy, call, left, calls>>

\* Mutant: the flag stays set.
ProcessedFlagged(r) ==
  /\ at[r] = "work" /\ queue[busy[r]][r] = <<>>
  /\ at' = [at EXCEPT ![r] = "barrier"]
  /\ UNCHANGED <<policy, live, queue, flag, hooks, busy, call, net, due, done, left, calls>>

\* There is no more: a new batch begins.
Processed(r) ==
  /\ at[r] = "work" /\ queue[busy[r]][r] = <<>>
  /\ flag' = [flag EXCEPT ![busy[r]][r] = FALSE]
  /\ at' = [at EXCEPT ![r] = "barrier"]
  /\ UNCHANGED <<policy, live, queue, hooks, busy, call, net, due, done, left, calls>>

-----------------------------------------------------------------------------
EnterBarrier(r) ==
  /\ at[r] = "app" /\ calls > 0
  /\ at' = [at EXCEPT ![r] = "barrier"]
  /\ UNCHANGED <<policy, busy, call, net, done, left, calls>>

CallBarrier(r) ==
  /\ call = "barrier" /\ EnterBarrier(r)
  /\ UNCHANGED <<live, queueVars, due>>

\* How often item i is in a queue, and the queue as a bag.
Occ(q, i) == Cardinality({n \in DOMAIN q : q[n] = i})
BagOf(q) == [i \in Range(q) |-> Occ(q, i)]

\* clear(): of what has been inserted here so far.
Clear(r) ==
  /\ call = "clear" /\ EnterBarrier(r)
  /\ queue' = [queue EXCEPT !["w"][r] = <<>>]
  /\ due' = due (-) BagOf(queue["w"][r])
  /\ UNCHANGED <<live, flag, hooks>>

\* The move constructor, up to the barrier of ygm_ptr::check.
MoveFrom(r) ==
  /\ call = "move" /\ EnterBarrier(r)
  /\ queue' = [queue EXCEPT !["v"][r] = queue["w"][r], !["w"][r] = <<>>]
  /\ live' = [live EXCEPT ![r] = {}]
  /\ flag' = [flag EXCEPT !["v"][r] = FALSE]
  /\ UNCHANGED <<hooks, due>>

\* After that barrier.
MoveEnd(r) ==
  /\ at[r] = "moving"
  /\ IF queue["v"][r] # <<>>
       THEN /\ hooks' = [hooks EXCEPT ![r] = Append(@, "v")]
            /\ flag' = [flag EXCEPT !["v"][r] = TRUE, !["w"][r] = FALSE]
       ELSE /\ flag' = [flag EXCEPT !["w"][r] = FALSE]
            /\ UNCHANGED hooks
  /\ live' = [live EXCEPT ![r] = {"v"}]
  /\ at' = [at EXCEPT ![r] = "app"]
  /\ UNCHANGED <<policy, queue, busy, call, net, due, done, left, calls>>

\* v = std::move(w), which is no collective.
MoveAssign(r) ==
  /\ at[r] = "app" /\ live[r] = {"w", "v"}
  /\ queue' = [queue EXCEPT !["v"][r] = queue["w"][r], !["w"][r] = <<>>]
  /\ due' = due (-) BagOf(queue["v"][r])
  /\ IF queue["w"][r] # <<>>
       THEN /\ hooks' = [hooks EXCEPT ![r] = Append(@, "v")]
            /\ flag' = [flag EXCEPT !["v"][r] = TRUE, !["w"][r] = FALSE]
       ELSE /\ flag' = [flag EXCEPT !["v"][r] = FALSE, !["w"][r] = FALSE]
            /\ UNCHANGED hooks
  /\ UNCHANGED <<policy, live, at, busy, call, net, done, left, calls>>

BarrierOver ==
  /\ \A r \in Ranks : at[r] = "barrier" /\ hooks[r] = <<>>
  /\ net = EmptyBag

\* The first queue may be moved, and the program may construct another one,
\* which is a barrier too.
Single == \A r \in Ranks : live[r] = {"w"}

Release ==
  /\ BarrierOver
  /\ calls' = calls - 1
  /\ at' = [r \in Ranks |-> IF call = "move" THEN "moving" ELSE "app"]
  /\ \/ Single /\ call' \in Collectives /\ UNCHANGED live
     \/ Single /\ call' = "barrier" /\ live' = [r \in Ranks |-> Queues]
     \/ ~Single /\ call' = "barrier" /\ UNCHANGED live
  /\ UNCHANGED <<policy, queueVars, busy, net, due, done, left>>

Finished == calls = 0 /\ net = EmptyBag /\ (\A r \in Ranks : at[r] = "app") /\ UNCHANGED vars

Next ==
  \/ \E r \in Ranks :
       \/ \E w \in Queues, i \in Items : Insert(r, w, i)
       \/ \E q \in Ranks, w \in Queues, i \in Items : AsyncInsert(r, q, w, i)
       \/ RunHook(r) \/ local_process_all(r) \/ Processed(r)
       \/ CallBarrier(r) \/ Clear(r) \/ MoveFrom(r) \/ MoveEnd(r) \/ MoveAssign(r)
  \/ \E m \in BagToSet(net) : HandleInsert(m)
  \/ Release
  \/ Finished

Spec == Init /\ [][Next]_vars

-----------------------------------------------------------------------------
Held(w) ==
  [i \in UNION {Range(queue[w][r]) : r \in Ranks} |->
     SumFunction([r \in Ranks |-> Occ(queue[w][r], i)])]

\* When a barrier ends, every item that was inserted and not discarded has been
\* worked on once, with all that the work inserted, or is in the queue that the
\* move constructor is about to register; so the destructor's assertion that its
\* queue is empty holds.
WorkDone ==
  BarrierOver =>
    /\ done (+) Held("v") = due
    /\ \A w \in Queues, r \in Ranks : (call = "move" /\ w = "v") \/ queue[w][r] = <<>>
=============================================================================
