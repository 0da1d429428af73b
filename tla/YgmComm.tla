------------------------------ MODULE YgmComm ------------------------------
(***************************************************************************)
(* The message engine of ygm::comm (include/ygm/detail/comm.ipp): async()  *)
(* packs a message into the buffer of its next hop; full buffers become    *)
(* MPI_Isends; and every flush calls process_receive_queue, which runs     *)
(* handlers, which call async() again.  A rank is one thread, so what it   *)
(* is doing is a stack of calls.                                           *)
(*                                                                         *)
(* Messages have size 1, so bytes are numbers of messages; a buffer is a   *)
(* set, for YGM promises no order.  A message is named, and in sent, from  *)
(* the call of async() on.  Waves are YgmBarrier's subject: here a rank    *)
(* that has flushed receives until Release lets all ranks go.              *)
(***************************************************************************)
EXTENDS Integers, Sequences, FiniteSets

CONSTANTS
  Ranks, Msgs,
  Hop,            \* Hop[a][d]: the rank a hands a message for d to
  Near,           \* the pairs of ranks on one node (layout::is_local)
  LocalCap,       \* local_buffer_size
  RemoteCap,      \* remote_buffer_size
  NumIsendsWait,  \* num_isends_wait
  NumIrecvs,      \* num_irecvs
  MaxHooks,       \* bound: pre-barrier callbacks registered in a run
  MaxMasks,       \* bound: interrupt masks one piece of user code holds at once
  None            \* no message: the application, or a callback

ASSUME CommAssumption ==
  /\ IsFiniteSet(Ranks)
  /\ Hop \in [Ranks -> [Ranks -> Ranks]] /\ Near \subseteq Ranks \X Ranks
  /\ {LocalCap, RemoteCap, NumIsendsWait, NumIrecvs, MaxHooks, MaxMasks} \subseteq Nat
  /\ None \notin Msgs
\* With one receive posted a message handled inside another finds none to test.
ASSUME IrecvsAssumption == NumIrecvs >= 2

VARIABLES
  sent,      \* messages some async() has packed
  dst,       \* dst[m]: the rank that is to execute m
  done,      \* messages executed to their end
  buf,       \* m_vec_send_buffers: buf[r][d]
  localq,    \* m_send_local_dest_queue
  remoteq,   \* m_send_remote_dest_queue
  localB,    \* m_send_local_buffer_bytes
  remoteB,   \* m_send_remote_buffer_bytes
  sendq,     \* m_send_queue
  pending,   \* m_pending_isend_bytes
  wire,      \* buffers handed to MPI that no MPI_Irecv has matched
  landed,    \* buffers an MPI_Irecv has matched, not yet tested
  enabled,   \* m_enable_interrupts
  inPrq,     \* m_in_process_receive_queue
  hooks,     \* number of m_pre_barrier_callbacks
  hooksLeft, \* registrations the bound MaxHooks still allows
  stack      \* the calls a rank is in, innermost first

bufVars == <<buf, localq, remoteq, localB, remoteB>>
mpiVars == <<sendq, pending, wire, landed>>
flagVars == <<enabled, inPrq>>
hookVars == <<hooks, hooksLeft>>
msgVars == <<sent, dst, done>>
vars == <<msgVars, bufVars, mpiVars, flagVars, hookVars, stack>>

-----------------------------------------------------------------------------
(***************************************************************************)
(* Frames of the stack.                                                    *)
(***************************************************************************)
User(m) == [op |-> "user", msg |-> m, masks |-> 0]            \* user code, handling m
Halt(m, d) == [op |-> "halt", msg |-> m, to |-> d]            \* check_if_production_halt_required
Bcast(some) == [op |-> "bcast", some |-> some]                \* pack_lambda_broadcast
Cap(phase) == [op |-> "cap", phase |-> phase]                 \* flush_to_capacity
FlushOne(near) == [op |-> "next", near |-> near]              \* flush_next_send, in local_progress
Prq(phase) == [op |-> "prq", phase |-> phase, got |-> FALSE]  \* process_receive_queue
Recv(b) == [op |-> "recv", todo |-> b.msgs]                   \* handle_next_receive
FlushAll == [op |-> "flushall", phase |-> "poll", did |-> FALSE]
Reduce == [op |-> "reduce"]                                   \* barrier_reduce_counts

Top(r) == Head(stack[r])
Below(r) == Tail(stack[r])
SetStack(r, s) == stack' = [stack EXCEPT ![r] = s]
Frames(r, op) == {i \in DOMAIN stack[r] : stack[r][i].op = op}

Load(q) == Cardinality({p \in (DOMAIN q) \X Msgs : p[2] \in q[p[1]].msgs})

Init ==
  /\ sent = {} /\ done = {} /\ dst = [m \in Msgs |-> None]
  /\ buf = [r \in Ranks |-> [d \in Ranks |-> {}]]
  /\ localq = [r \in Ranks |-> <<>>] /\ remoteq = [r \in Ranks |-> <<>>]
  /\ localB = [r \in Ranks |-> 0] /\ remoteB = [r \in Ranks |-> 0]
  /\ sendq = [r \in Ranks |-> <<>>] /\ pending = [r \in Ranks |-> 0]
  /\ wire = {} /\ landed = {}
  /\ enabled = [r \in Ranks |-> TRUE] /\ inPrq = [r \in Ranks |-> FALSE]
  /\ hooks = [r \in Ranks |-> 0] /\ hooksLeft = MaxHooks
  /\ stack = [r \in Ranks |-> <<User(None)>>]

-----------------------------------------------------------------------------
(***************************************************************************)
(* Pieces of calls.                                                        *)
(***************************************************************************)
\* What check_completed_sends can leave of the send queue q: a send whose
\* buffer is matched is complete, another one may be.
Completed(q, inFlight) ==
  {SubSeq(q, k + 1, Len(q)) :
     k \in {j \in 0..Len(q) : j = Len(q) \/ q[j + 1] \in inFlight}}

\* Mutant: process_receive_queue does not look at m_enable_interrupts.
AlwaysInterrupt(r) == TRUE

MayInterrupt(r) == enabled[r]

\* r calls process_receive_queue with send queue q and p pending bytes, to
\* return to rest.
CallPrq(r, q, p, inFlight, rest) ==
  IF ~MayInterrupt(r)
  THEN /\ SetStack(r, rest)
       /\ sendq' = [sendq EXCEPT ![r] = q]
       /\ pending' = [pending EXCEPT ![r] = p]
       /\ UNCHANGED flagVars
  ELSE /\ inPrq' = [inPrq EXCEPT ![r] = TRUE]
       /\ UNCHANGED enabled
       /\ IF Len(q) > NumIsendsWait
          THEN /\ sendq' = [sendq EXCEPT ![r] = q]
               /\ pending' = [pending EXCEPT ![r] = p]
               /\ SetStack(r, <<Prq("wait")>> \o rest)
          ELSE /\ \E left \in Completed(q, inFlight) :
                    /\ sendq' = [sendq EXCEPT ![r] = left]
                    /\ pending' = [pending EXCEPT ![r] = p - (Load(q) - Load(left))]
               /\ SetStack(r, <<Prq("test")>> \o rest)

\* flush_send_buffer: r's buffer for d becomes an MPI_Isend.
FlushBuffer(r, d, rest) ==
  \E left \in Completed(sendq[r], wire) :
    LET b == [from |-> r, to |-> d, msgs |-> buf[r][d]]
        size == Cardinality(b.msgs)
        q == Append(left, b)
        p == pending[r] - (Load(sendq[r]) - Load(left)) + size
    IN /\ wire' = wire \cup {b}
       /\ buf' = [buf EXCEPT ![r][d] = {}]
       /\ IF <<r, d>> \in Near
            THEN localB' = [localB EXCEPT ![r] = @ - size] /\ UNCHANGED remoteB
            ELSE remoteB' = [remoteB EXCEPT ![r] = @ - size] /\ UNCHANGED localB
       /\ IF inPrq[r]
            THEN /\ SetStack(r, rest)
                 /\ sendq' = [sendq EXCEPT ![r] = q]
                 /\ pending' = [pending EXCEPT ![r] = p]
                 /\ UNCHANGED flagVars
            ELSE CallPrq(r, q, p, wire', rest)
       /\ UNCHANGED landed

DestQueue(r, near) == IF near THEN localq[r] ELSE remoteq[r]

\* flush_next_send, of a queue that is not empty.
FlushNext(r, near, rest) ==
  /\ IF near THEN localq' = [localq EXCEPT ![r] = Tail(@)] /\ UNCHANGED remoteq
             ELSE remoteq' = [remoteq EXCEPT ![r] = Tail(@)] /\ UNCHANGED localq
  /\ FlushBuffer(r, Head(DestQueue(r, near)), rest)

\* Mutant: queues the destination once more for every message.
PackIntoAgain(r, m, d) ==
  LET near == <<r, d>> \in Near
  IN /\ buf' = [buf EXCEPT ![r][d] = @ \cup {m}]
     /\ IF near
          THEN /\ localq' = [localq EXCEPT ![r] = Append(@, d)]
               /\ localB' = [localB EXCEPT ![r] = @ + 1]
               /\ UNCHANGED <<remoteq, remoteB>>
          ELSE /\ remoteq' = [remoteq EXCEPT ![r] = Append(@, d)]
               /\ remoteB' = [remoteB EXCEPT ![r] = @ + 1]
               /\ UNCHANGED <<localq, localB>>

\* m goes into r's buffer for d.
PackInto(r, m, d) ==
  LET near == <<r, d>> \in Near
      more == IF buf[r][d] = {} THEN <<d>> ELSE <<>>
  IN /\ buf' = [buf EXCEPT ![r][d] = @ \cup {m}]
     /\ IF near
          THEN /\ localq' = [localq EXCEPT ![r] = @ \o more]
               /\ localB' = [localB EXCEPT ![r] = @ + 1]
               /\ UNCHANGED <<remoteq, remoteB>>
          ELSE /\ remoteq' = [remoteq EXCEPT ![r] = @ \o more]
               /\ remoteB' = [remoteB EXCEPT ![r] = @ + 1]
               /\ UNCHANGED <<localq, localB>>

\* Mutant: looks at one of the two capacities.
CallCapRemoteOnly(r, local, remote, rest) ==
  SetStack(r, IF remote > RemoteCap THEN <<Cap("local")>> \o rest ELSE rest)

\* r calls flush_to_capacity with these many bytes buffered, to return to rest.
CallCap(r, local, remote, rest) ==
  SetStack(r, IF local > LocalCap \/ remote > RemoteCap THEN <<Cap("local")>> \o rest ELSE rest)

PackAndCap(r, m, d, rest) ==
  PackInto(r, m, d) /\ CallCap(r, localB'[r], remoteB'[r], rest)

\* Mutant: halts production inside process_receive_queue too.
HaltAlways(r) == enabled[r] /\ pending[r] > LocalCap + RemoteCap

HaltNeeded(r) == enabled[r] /\ ~inPrq[r] /\ pending[r] > LocalCap + RemoteCap

-----------------------------------------------------------------------------
(***************************************************************************)
(* User code: the application, handlers and callbacks.                     *)
(***************************************************************************)
InUser(r) == Top(r).op = "user"

\* async(d, ...)
Async(r, m, d) ==
  /\ InUser(r) /\ m \notin sent
  /\ sent' = sent \cup {m}
  /\ dst' = [dst EXCEPT ![m] = d]
  /\ IF HaltNeeded(r)
       THEN /\ CallPrq(r, sendq[r], pending[r], wire, <<Halt(m, d)>> \o stack[r])
            /\ UNCHANGED <<bufVars, wire, landed>>
       ELSE PackAndCap(r, m, Hop[r][d], stack[r]) /\ UNCHANGED <<mpiVars, flagVars>>
  /\ UNCHANGED <<done, hookVars>>

\* async_bcast(...)
AsyncBcast(r) ==
  /\ InUser(r) /\ sent # Msgs
  /\ SetStack(r, <<Halt(None, r), Bcast(FALSE)>> \o stack[r])
  /\ UNCHANGED <<msgVars, bufVars, mpiVars, flagVars, hookVars>>

\* queue_message_bytes, of a copy of a broadcast.
QueueBytes(r, m, d) ==
  /\ m \notin sent
  /\ sent' = sent \cup {m}
  /\ dst' = [dst EXCEPT ![m] = d]
  /\ PackInto(r, m, d)
  /\ UNCHANGED <<done, mpiVars, flagVars, hookVars>>

\* A handler of async_bcast forwards a copy.
ForwardBcast(r, m, d) ==
  /\ InUser(r) /\ Top(r).msg # None
  /\ QueueBytes(r, m, d)
  /\ UNCHANGED stack

RegisterHook(r) ==
  /\ InUser(r) /\ hooksLeft > 0
  /\ hooksLeft' = hooksLeft - 1
  /\ hooks' = [hooks EXCEPT ![r] = @ + 1]
  /\ UNCHANGED <<msgVars, bufVars, mpiVars, flagVars, stack>>

\* An interrupt_mask is constructed.
Mask(r) ==
  /\ InUser(r) /\ Top(r).masks < MaxMasks
  /\ enabled' = [enabled EXCEPT ![r] = FALSE]
  /\ SetStack(r, <<[Top(r) EXCEPT !.masks = @ + 1]>> \o Below(r))
  /\ UNCHANGED <<msgVars, bufVars, mpiVars, inPrq, hookVars>>

\* The innermost interrupt_mask is destroyed.
Unmask(r) ==
  /\ InUser(r) /\ Top(r).masks > 0
  /\ enabled' = [enabled EXCEPT ![r] = TRUE]
  /\ SetStack(r, <<Halt(None, r), [Top(r) EXCEPT !.masks = @ - 1]>> \o Below(r))
  /\ UNCHANGED <<msgVars, bufVars, mpiVars, inPrq, hookVars>>

\* Mutant: receives although process_receive_queue is running.
LocalProgressAlways(r) ==
  /\ InUser(r)
  /\ CallPrq(r, sendq[r], pending[r], wire, <<FlushOne(TRUE), FlushOne(FALSE)>> \o stack[r])
  /\ UNCHANGED <<msgVars, bufVars, wire, landed, hookVars>>

\* local_progress, also in the loop of local_wait_until.
LocalProgress(r) ==
  LET rest == <<FlushOne(TRUE), FlushOne(FALSE)>> \o stack[r]
  IN /\ InUser(r)
     /\ IF inPrq[r] THEN SetStack(r, rest) /\ UNCHANGED <<sendq, pending, flagVars>>
                    ELSE CallPrq(r, sendq[r], pending[r], wire, rest)
     /\ UNCHANGED <<msgVars, bufVars, wire, landed, hookVars>>

\* A handler or a callback returns.
Return(r) ==
  /\ InUser(r) /\ Len(stack[r]) > 1 /\ Top(r).masks = 0
  /\ SetStack(r, Below(r))
  /\ done' = done \cup ({Top(r).msg} \ {None})
  /\ UNCHANGED <<sent, dst, bufVars, mpiVars, flagVars, hookVars>>

\* The application calls barrier(), or async_barrier(): flush_all_local_and_
\* process_incoming, then barrier_reduce_counts.
EnterBarrier(r) ==
  /\ InUser(r) /\ Len(stack[r]) = 1 /\ Top(r).masks = 0
  /\ SetStack(r, <<FlushAll, Reduce>> \o stack[r])
  /\ UNCHANGED <<msgVars, bufVars, mpiVars, flagVars, hookVars>>

-----------------------------------------------------------------------------
(***************************************************************************)
(* The library.                                                            *)
(***************************************************************************)
\* The loop of check_if_production_halt_required.
HaltReceive(r) ==
  /\ Top(r).op = "halt" /\ HaltNeeded(r)
  /\ CallPrq(r, sendq[r], pending[r], wire, stack[r])
  /\ UNCHANGED <<msgVars, bufVars, wire, landed, hookVars>>

\* Production may go on; async packs the message that waited.
HaltEnd(r) ==
  /\ Top(r).op = "halt" /\ ~HaltNeeded(r)
  /\ IF Top(r).msg = None
       THEN SetStack(r, Below(r)) /\ UNCHANGED bufVars
       ELSE PackAndCap(r, Top(r).msg, Hop[r][Top(r).to], Below(r))
  /\ UNCHANGED <<msgVars, mpiVars, flagVars, hookVars>>

\* async_bcast queues its copies, then calls flush_to_capacity.
BcastCopy(r, m, d) ==
  /\ Top(r).op = "bcast"
  /\ QueueBytes(r, m, d)
  /\ SetStack(r, <<Bcast(TRUE)>> \o Below(r))

BcastEnd(r) ==
  /\ Top(r).op = "bcast" /\ (Top(r).some \/ sent = Msgs)
  /\ CallCap(r, localB[r], remoteB[r], Below(r))
  /\ UNCHANGED <<msgVars, bufVars, mpiVars, flagVars, hookVars>>

\* flush_to_capacity: first the buffers for the node, then the others.
CapLocal(r) ==
  /\ Top(r) = Cap("local") /\ localB[r] > LocalCap
  /\ FlushNext(r, TRUE, stack[r])
  /\ UNCHANGED <<msgVars, hookVars>>

CapRemote(r) ==
  /\ Top(r).op = "cap" /\ (Top(r).phase = "local" => localB[r] <= LocalCap)
  /\ IF remoteB[r] > RemoteCap
       THEN FlushNext(r, FALSE, <<Cap("remote")>> \o Below(r))
       ELSE SetStack(r, Below(r)) /\ UNCHANGED <<bufVars, mpiVars, flagVars>>
  /\ UNCHANGED <<msgVars, hookVars>>

FlushOneStep(r) ==
  /\ Top(r).op = "next"
  /\ IF DestQueue(r, Top(r).near) = <<>>
       THEN SetStack(r, Below(r)) /\ UNCHANGED <<bufVars, mpiVars, flagVars>>
       ELSE FlushNext(r, Top(r).near, Below(r))
  /\ UNCHANGED <<msgVars, hookVars>>

LandedAt(r) == {b \in landed : b.to = r}

\* A posted MPI_Irecv matches a buffer.
Arrive(r) ==
  \E b \in wire :
    /\ b.to = r
    /\ Cardinality(LandedAt(r)) < NumIrecvs - Cardinality(Frames(r, "recv"))
    /\ wire' = wire \ {b}
    /\ landed' = landed \cup {b}
    /\ UNCHANGED <<msgVars, bufVars, sendq, pending, flagVars, hookVars, stack>>

\* Mutant: does not call handle_completed_send.
PrqWaitUncounted(r) ==
  /\ Top(r).op = "prq" /\ Top(r).phase = "wait"
  /\ LET first == Head(sendq[r])
     IN \E sendDone \in BOOLEAN, some \in SUBSET LandedAt(r) :
          /\ sendDone \/ first \in wire
          /\ Cardinality(some) = IF LandedAt(r) = {} THEN 0 ELSE 1
          /\ sendDone \/ some # {}
          /\ sendq' = IF sendDone THEN [sendq EXCEPT ![r] = Tail(@)] ELSE sendq
          /\ landed' = landed \ some
          /\ LET rest == <<[Top(r) EXCEPT !.phase = "test", !.got = some # {}]>> \o Below(r)
             IN SetStack(r, IF some = {} THEN rest ELSE <<Recv(CHOOSE b \in some : TRUE)>> \o rest)
  /\ UNCHANGED <<msgVars, bufVars, pending, wire, flagVars, hookVars>>

\* More than num_isends_wait sends are open: MPI_Testsome on the first send
\* and the first receive, until one of them is complete.
PrqWait(r) ==
  /\ Top(r).op = "prq" /\ Top(r).phase = "wait"
  /\ LET first == Head(sendq[r])
     IN \E sendDone \in BOOLEAN, some \in SUBSET LandedAt(r) :
          /\ sendDone \/ first \in wire
          /\ Cardinality(some) = IF LandedAt(r) = {} THEN 0 ELSE 1
          /\ sendDone \/ some # {}
          /\ IF sendDone
               THEN /\ sendq' = [sendq EXCEPT ![r] = Tail(@)]
                    /\ pending' = [pending EXCEPT ![r] = @ - Cardinality(first.msgs)]
               ELSE UNCHANGED <<sendq, pending>>
          /\ landed' = landed \ some
          /\ LET rest == <<[Top(r) EXCEPT !.phase = "test", !.got = some # {}]>> \o Below(r)
             IN SetStack(r, IF some = {} THEN rest ELSE <<Recv(CHOOSE b \in some : TRUE)>> \o rest)
  /\ UNCHANGED <<msgVars, bufVars, wire, flagVars, hookVars>>

\* local_process_incoming: handle the first receive if it is complete.
PrqReceive(r) ==
  /\ Top(r).op = "prq" /\ Top(r).phase = "test"
  /\ \E b \in LandedAt(r) :
       /\ landed' = landed \ {b}
       /\ SetStack(r, <<Recv(b), [Top(r) EXCEPT !.got = TRUE]>> \o Below(r))
  /\ UNCHANGED <<msgVars, bufVars, sendq, pending, wire, flagVars, hookVars>>

\* Nothing to receive: process_receive_queue returns whether there was.
PrqReturn(r) ==
  /\ Top(r).op = "prq" /\ Top(r).phase = "test" /\ LandedAt(r) = {}
  /\ inPrq' = [inPrq EXCEPT ![r] = FALSE]
  /\ SetStack(r, LET rest == Below(r)
                 IN IF Head(rest).op = "flushall"
                    THEN <<[Head(rest) EXCEPT !.did = @ \/ Top(r).got]>> \o Tail(rest) ELSE rest)
  /\ UNCHANGED <<msgVars, bufVars, mpiVars, enabled, hookVars>>

\* Mutant: leaves a message it forwards in the archive.
RecvMessageKept(r) ==
  /\ Top(r).op = "recv"
  /\ \E m \in Top(r).todo :
       LET rest == <<[Top(r) EXCEPT !.todo = @ \ {m}]>> \o Below(r)
       IN IF dst[m] = r
          THEN SetStack(r, <<User(m)>> \o rest) /\ UNCHANGED bufVars
          ELSE PackAndCap(r, m, Hop[r][dst[m]], stack[r])
  /\ UNCHANGED <<msgVars, mpiVars, flagVars, hookVars>>

\* handle_next_receive takes the next message of the buffer.
RecvMessage(r) ==
  /\ Top(r).op = "recv"
  /\ \E m \in Top(r).todo :
       LET rest == <<[Top(r) EXCEPT !.todo = @ \ {m}]>> \o Below(r)
       IN IF dst[m] = r
          THEN SetStack(r, <<User(m)>> \o rest) /\ UNCHANGED bufVars
          ELSE PackAndCap(r, m, Hop[r][dst[m]], rest)
  /\ UNCHANGED <<msgVars, mpiVars, flagVars, hookVars>>

\* The buffer is done: post_new_irecv, flush_to_capacity.
RecvEnd(r) ==
  /\ Top(r).op = "recv" /\ Top(r).todo = {}
  /\ CallCap(r, localB[r], remoteB[r], Below(r))
  /\ UNCHANGED <<msgVars, bufVars, mpiVars, flagVars, hookVars>>

(***************************************************************************)
(* flush_all_local_and_process_incoming, until a round does nothing.       *)
(* After a flush the code calls process_receive_queue once more; two calls *)
(* in a row act as one.                                                    *)
(***************************************************************************)
InPhase(r, phase) == Top(r).op = "flushall" /\ Top(r).phase = phase

GoTo(r, phase, did) == <<[Top(r) EXCEPT !.phase = phase, !.did = did]>> \o Below(r)

FlushAllPoll(r) ==
  /\ InPhase(r, "poll")
  /\ CallPrq(r, sendq[r], pending[r], wire, GoTo(r, "hooks", FALSE))
  /\ UNCHANGED <<msgVars, bufVars, wire, landed, hookVars>>

FlushAllHook(r) ==
  /\ InPhase(r, "hooks") /\ hooks[r] > 0
  /\ hooks' = [hooks EXCEPT ![r] = @ - 1]
  /\ SetStack(r, <<User(None)>> \o GoTo(r, "hooks", TRUE))
  /\ UNCHANGED <<msgVars, bufVars, mpiVars, flagVars, hooksLeft>>

FlushAllBuffer(r, near) ==
  /\ InPhase(r, IF near THEN "local" ELSE "remote") /\ DestQueue(r, near) # <<>>
  /\ FlushNext(r, near, GoTo(r, Top(r).phase, TRUE))
  /\ UNCHANGED <<msgVars, hookVars>>

FlushAllIsends(r) ==
  /\ InPhase(r, "isends") /\ sendq[r] # <<>>
  /\ CallPrq(r, sendq[r], pending[r], wire, stack[r])
  /\ UNCHANGED <<msgVars, bufVars, wire, landed, hookVars>>

\* The loop of a phase is done.
FlushAllNext(r) ==
  /\ \/ InPhase(r, "hooks") /\ hooks[r] = 0 /\ SetStack(r, GoTo(r, "local", Top(r).did))
     \/ InPhase(r, "local") /\ localq[r] = <<>> /\ SetStack(r, GoTo(r, "remote", Top(r).did))
     \/ InPhase(r, "remote") /\ remoteq[r] = <<>> /\ SetStack(r, GoTo(r, "isends", Top(r).did))
     \/ /\ InPhase(r, "isends") /\ sendq[r] = <<>>
        /\ SetStack(r, IF Top(r).did THEN GoTo(r, "poll", FALSE) ELSE Below(r))
  /\ UNCHANGED <<msgVars, bufVars, mpiVars, flagVars, hookVars>>

\* Mutant: does not flush what the handlers sent.
ReduceReceiveOnly(r) ==
  /\ Top(r).op = "reduce"
  /\ \E b \in LandedAt(r) :
       /\ landed' = landed \ {b}
       /\ SetStack(r, <<Recv(b)>> \o stack[r])
  /\ UNCHANGED <<msgVars, bufVars, sendq, pending, wire, flagVars, hookVars>>

\* The wave's MPI_Testsome reports a receive: barrier_reduce_counts handles it
\* itself, not through process_receive_queue, and flushes.
ReduceReceive(r) ==
  /\ Top(r).op = "reduce"
  /\ \E b \in LandedAt(r) :
       /\ landed' = landed \ {b}
       /\ SetStack(r, <<Recv(b), FlushAll>> \o stack[r])
  /\ UNCHANGED <<msgVars, bufVars, sendq, pending, wire, flagVars, hookVars>>

\* The waves let the ranks go when no work is left (YgmBarrier).
Release ==
  /\ \A r \in Ranks : Top(r).op = "reduce" /\ hooks[r] = 0
  /\ sent = done
  /\ stack' = [r \in Ranks |-> Below(r)]
  /\ UNCHANGED <<msgVars, bufVars, mpiVars, flagVars, hookVars>>

-----------------------------------------------------------------------------
UserStep(r) ==
  \/ \E m \in Msgs, d \in Ranks : Async(r, m, d)
  \/ AsyncBcast(r)
  \/ \E m \in Msgs, d \in Ranks : ForwardBcast(r, m, d)
  \/ RegisterHook(r)
  \/ Mask(r)
  \/ Unmask(r)
  \/ LocalProgress(r)
  \/ Return(r)
  \/ EnterBarrier(r)

LibraryStep(r) ==
  \/ HaltReceive(r)
  \/ HaltEnd(r)
  \/ \E m \in Msgs, d \in Ranks : BcastCopy(r, m, d)
  \/ BcastEnd(r)
  \/ CapLocal(r)
  \/ CapRemote(r)
  \/ FlushOneStep(r)
  \/ PrqWait(r)
  \/ PrqReceive(r)
  \/ PrqReturn(r)
  \/ RecvMessage(r)
  \/ RecvEnd(r)
  \/ FlushAllPoll(r)
  \/ FlushAllHook(r)
  \/ \E near \in BOOLEAN : FlushAllBuffer(r, near)
  \/ FlushAllIsends(r)
  \/ FlushAllNext(r)
  \/ ReduceReceive(r)

Next ==
  \/ \E r \in Ranks : UserStep(r)
  \/ \E r \in Ranks : LibraryStep(r)
  \/ \E r \in Ranks : Arrive(r)
  \/ Release

Spec == Init /\ [][Next]_vars

-----------------------------------------------------------------------------
(***************************************************************************)
(* Safety.                                                                 *)
(***************************************************************************)
Buffers == [from : Ranks, to : Ranks, msgs : SUBSET Msgs]

FrameTypes ==
  [op : {"user"}, msg : Msgs \cup {None}, masks : 0..MaxMasks]
    \cup [op : {"halt"}, msg : Msgs \cup {None}, to : Ranks]
    \cup [op : {"bcast"}, some : BOOLEAN]
    \cup [op : {"cap"}, phase : {"local", "remote"}]
    \cup [op : {"next"}, near : BOOLEAN]
    \cup [op : {"prq"}, phase : {"wait", "test"}, got : BOOLEAN]
    \cup [op : {"recv"}, todo : SUBSET Msgs]
    \cup [op : {"flushall"}, phase : {"poll", "hooks", "local", "remote", "isends"}, did : BOOLEAN]
    \cup {Reduce}

TypeOK ==
  /\ sent \subseteq Msgs /\ done \subseteq sent
  /\ dst \in [Msgs -> Ranks \cup {None}]
  /\ buf \in [Ranks -> [Ranks -> SUBSET Msgs]]
  /\ \A q \in {localq, remoteq} : q \in [Ranks -> Seq(Ranks)]
  /\ \A n \in {localB, remoteB, pending, hooks} : n \in [Ranks -> Nat]
  /\ sendq \in [Ranks -> Seq(Buffers)]
  /\ wire \subseteq Buffers /\ landed \subseteq Buffers
  /\ \A f \in {enabled, inPrq} : f \in [Ranks -> BOOLEAN]
  /\ hooksLeft \in Nat
  /\ stack \in [Ranks -> Seq(FrameTypes)]

\* The queues of destinations name each buffer that is not empty once, and the
\* byte counters are what those buffers hold: else flush_to_capacity loops
\* over an empty queue (its YGM_ASSERT_DEBUG) and a barrier forgets a buffer.
Names(q, ranks) ==
  /\ {q[i] : i \in DOMAIN q} = ranks
  /\ Len(q) = Cardinality(ranks)

Filled(r, near) == {d \in Ranks : buf[r][d] # {} /\ (<<r, d>> \in Near <=> near)}

Held(r, ranks) == Cardinality(UNION {buf[r][d] : d \in ranks})

BuffersAccounted ==
  \A r \in Ranks :
    /\ Names(localq[r], Filled(r, TRUE)) /\ Names(remoteq[r], Filled(r, FALSE))
    /\ localB[r] = Held(r, Filled(r, TRUE)) /\ remoteB[r] = Held(r, Filled(r, FALSE))
    /\ pending[r] = Load(sendq[r])

\* However calls nest, a message whose async() has been called is in exactly
\* one place until its handler has returned: none is lost, none is copied.
Carries(f, m) ==
  \/ f.op \in {"user", "halt"} /\ f.msg = m
  \/ f.op = "recv" /\ m \in f.todo

\* The frames that carry m, by their height.
Heights(s, m) == {h \in 1..Len(s) : Carries(s[Len(s) + 1 - h], m)}

CallsOf(m) == UNION {{<<"call", r, h>> : h \in Heights(stack[r], m)} : r \in Ranks}
BuffersOf(m) == UNION {{<<"buffer", r, d>> : d \in {e \in Ranks : m \in buf[r][e]}} : r \in Ranks}
WiresOf(m) == {<<"wire", b>> : b \in {c \in wire : m \in c.msgs}}
LandedOf(m) == {<<"landed", b>> : b \in {c \in landed : m \in c.msgs}}

PlacesOf(m) == CallsOf(m) \cup BuffersOf(m) \cup WiresOf(m) \cup LandedOf(m)

OnePlace ==
  \A m \in Msgs : Cardinality(PlacesOf(m)) = IF m \in sent \ done THEN 1 ELSE 0

\* process_receive_queue is never entered while it runs ("we cannot safely
\* re-enter process_receive_queue()"): its flag tells whether it is on the stack.
NoReentry ==
  \A r \in Ranks : Cardinality(Frames(r, "prq")) = IF inPrq[r] THEN 1 ELSE 0

\* Whenever a receive is tested one is posted, although the handler of a
\* message that came during a wave may receive others: m_recv_queue.front().
ReceivePosted ==
  \A r \in Ranks :
    Top(r).op \in {"prq", "reduce"} => Cardinality(Frames(r, "recv")) < NumIrecvs

\* Whenever async() or anything else gives control back to the application,
\* what the rank has buffered is within the configured capacities, also after
\* the flushes have run handlers that sent and forwarded.
CapacityKept ==
  \A r \in Ranks :
    Len(stack[r]) = 1 => localB[r] <= LocalCap /\ remoteB[r] <= RemoteCap

\* A rank that waits for a wave has nothing buffered, no send open and no
\* callback left, as the assertions of barrier_reduce_counts and priv_barrier say.
FlushedAtReduce ==
  \A r \in Ranks : Top(r).op = "reduce" =>
    /\ \A d \in Ranks : buf[r][d] = {}
    /\ localq[r] = <<>> /\ remoteq[r] = <<>> /\ sendq[r] = <<>>
    /\ localB[r] = 0 /\ remoteB[r] = 0 /\ pending[r] = 0
    /\ hooks[r] = 0

\* No handler runs on top of user code that holds an interrupt_mask: "an
\* application has indicated it is not safe to let YGM start processing new
\* messages".
MaskRespected ==
  \A r \in Ranks : \A i \in Frames(r, "user") :
    stack[r][i].masks > 0 => \A j \in 1..i - 1 : stack[r][j].op # "user"

-----------------------------------------------------------------------------
(***************************************************************************)
(* Liveness.  A rank inside the library goes on; MPI matches a posted      *)
(* receive; handlers and callbacks give up their masks and return, having  *)
(* no condition to wait for.                                               *)
(***************************************************************************)
Fairness ==
  /\ \A r \in Ranks :
       /\ WF_vars(LibraryStep(r)) /\ WF_vars(Arrive(r))
       /\ SF_vars(Return(r)) /\ SF_vars(Unmask(r))
  /\ WF_vars(Release)

FairSpec == Spec /\ Fairness

InBarrier(r) == Frames(r, "reduce") # {}
Halted(r) == Frames(r, "halt") # {}

\* Once all ranks have called a barrier they get out of it: no rank waits for
\* a send that only itself or another waiting rank could complete, no message
\* stays in a buffer.
BarrierDrains == (\A r \in Ranks : InBarrier(r)) ~> (\A r \in Ranks : ~InBarrier(r))

\* A rank whose production is halted gets on when all other ranks are in a
\* barrier, that is, receive.
HaltEnds ==
  \A r \in Ranks :
    (Halted(r) /\ \A q \in Ranks \ {r} : InBarrier(q)) ~> ~Halted(r)
=============================================================================
