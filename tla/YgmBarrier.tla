---------------------------- MODULE YgmBarrier ----------------------------
(***************************************************************************)
(* How ygm::comm implements barrier() and async_barrier()                  *)
(* (include/ygm/detail/comm.ipp).  Every rank counts the messages it has   *)
(* sent and the messages whose handler it has run to the end.  In a        *)
(* barrier it flushes, then joins one MPI_Iallreduce ("wave") of the two   *)
(* counters after another, still receiving, until two waves in a row show  *)
(* the same totals with as many received as sent; then an MPI_Allreduce    *)
(* tells whether every rank is in barrier() rather than async_barrier().   *)
(*                                                                         *)
(* A message travels on its own: packing messages into buffers, and when a *)
(* buffer is flushed early, only delays them.  Messages are identified, so *)
(* each is sent at most once; Msgs and hooksLeft bound the run.            *)
(***************************************************************************)
EXTENDS Naturals, FiniteSets

CONSTANTS
  Ranks,      \* MPI ranks
  Msgs,       \* message identities
  Hop,        \* Hop[a][d]: the rank a hands a message for d to (comm_router::next_hop)
  MaxHooks,   \* bound: pre-barrier callbacks registered in a run
  Callback,   \* a running pre-barrier callback, in outer
  None        \* nothing, nobody

ASSUME RanksAssumption == Ranks # {} /\ IsFiniteSet(Ranks)
ASSUME MsgsAssumption == IsFiniteSet(Msgs)
ASSUME HopAssumption == Hop \in [Ranks -> [Ranks -> Ranks]]
ASSUME HooksAssumption == MaxHooks \in Nat
ASSUME NoneAssumption == Callback \notin Msgs \cup {None} /\ None \notin Msgs \cup Ranks

VARIABLES
  mode,       \* where each rank is: application, or a stage of priv_barrier
  full,       \* local_full of the current or last priv_barrier
  sendCount,  \* m_send_count
  recvCount,  \* m_recv_count
  hooks,      \* number of m_pre_barrier_callbacks
  hooksLeft,  \* registrations the bound MaxHooks still allows
  outer,      \* the callback or handler run with m_in_process_receive_queue unset
  inner,      \* the handler run by process_receive_queue, with the flag set
  st,         \* stage of each message
  by,         \* the rank that sent it
  dst,        \* the rank that is to execute it
  at,         \* the rank it is at, or that handed it to MPI last
  unacked,    \* <<r, m>>: r's MPI_Isend carrying m is still in m_send_queue
  posted,     \* ranks that joined the MPI_Iallreduce now gathering
  acc,        \* the partial sums <<received, sent>> of that wave
  total,      \* the sums of the last completed wave, until the ranks have voted
  ready,      \* ranks whose request is complete but not yet tested
  cur         \* current_counts of each rank

(***************************************************************************)
(* History of the waves, read by no action: the sets behind the counts.    *)
(***************************************************************************)
VARIABLES
  waves,      \* waves completed since the ranks last voted: 0, 1 or "2 or more"
  prevTotal,  \* the sums of the wave before the last
  snapR,      \* executed messages that acc counts
  snapS,      \* sent messages that acc counts
  cutR,       \* messages executed when the last wave completed
  cutS        \* messages sent when the last wave completed

rankVars == <<mode, full, sendCount, recvCount, cur>>
hookVars == <<hooks, hooksLeft>>
frameVars == <<outer, inner>>
msgVars == <<st, by, dst, at, unacked>>
waveVars == <<posted, acc, total, ready>>
history == <<waves, prevTotal, snapR, snapS, cutR, cutS>>
vars == <<rankVars, hookVars, frameVars, msgVars, waveVars, history>>

Modes == {"app", "flush", "reduce", "drain", "vote"}
Stages == {"unsent", "buffered", "inflight", "executing", "done"}

\* current_counts and previous_counts start at values no wave can confirm.
NoCounts == <<3, 4>>

Sent == {m \in Msgs : st[m] # "unsent"}
Done == {m \in Msgs : st[m] = "done"}
SentBy(r) == {m \in Sent : by[m] = r}
DoneAt(r) == {m \in Done : dst[m] = r}

Init ==
  /\ mode = [r \in Ranks |-> "app"]
  /\ full = [r \in Ranks |-> FALSE]
  /\ sendCount = [r \in Ranks |-> 0]
  /\ recvCount = [r \in Ranks |-> 0]
  /\ hooks = [r \in Ranks |-> 0]
  /\ hooksLeft = MaxHooks
  /\ outer = [r \in Ranks |-> None]
  /\ inner = [r \in Ranks |-> None]
  /\ st = [m \in Msgs |-> "unsent"]
  /\ by = [m \in Msgs |-> None]
  /\ dst = [m \in Msgs |-> None]
  /\ at = [m \in Msgs |-> None]
  /\ unacked = {}
  /\ posted = {}
  /\ acc = <<0, 0>>
  /\ total = <<0, 0>>
  /\ ready = {}
  /\ cur = [r \in Ranks |-> NoCounts]
  /\ waves = 0
  /\ prevTotal = <<0, 0>>
  /\ snapR = {} /\ snapS = {} /\ cutR = {} /\ cutS = {}

-----------------------------------------------------------------------------
(***************************************************************************)
(* Messages and callbacks.                                                 *)
(***************************************************************************)
Idle(r) == outer[r] = None /\ inner[r] = None

\* User code has control of r: the application, a handler or a callback.
UserCode(r) == mode[r] = "app" \/ ~Idle(r)

\* r calls async(d, ...).
Async(r, m, d) ==
  /\ UserCode(r)
  /\ st[m] = "unsent"
  /\ st' = [st EXCEPT ![m] = "buffered"]
  /\ by' = [by EXCEPT ![m] = r]
  /\ dst' = [dst EXCEPT ![m] = d]
  /\ at' = [at EXCEPT ![m] = r]
  /\ sendCount' = [sendCount EXCEPT ![r] = @ + 1]
  /\ UNCHANGED <<mode, full, recvCount, cur, unacked, hookVars, frameVars, waveVars, history>>

\* r calls register_pre_barrier_callback.
RegisterHook(r) ==
  /\ UserCode(r)
  /\ hooksLeft > 0
  /\ hooksLeft' = hooksLeft - 1
  /\ hooks' = [hooks EXCEPT ![r] = @ + 1]
  /\ UNCHANGED <<rankVars, frameVars, msgVars, waveVars, history>>

\* Outside MPI's blocking calls r may flush buffers and test its sends.
Progressing(r) == mode[r] \in {"app", "flush", "drain"}

Flush(r, m) ==
  /\ Progressing(r)
  /\ st[m] = "buffered" /\ at[m] = r
  /\ st' = [st EXCEPT ![m] = "inflight"]
  /\ unacked' = unacked \cup {<<r, m>>}
  /\ UNCHANGED <<by, dst, at, rankVars, hookVars, frameVars, waveVars, history>>

\* MPI may buffer an MPI_Isend, or complete it only once it is received.
SendCompletes(r, m) ==
  /\ Progressing(r)
  /\ <<r, m>> \in unacked
  /\ unacked' = unacked \ {<<r, m>>}
  /\ UNCHANGED <<st, by, dst, at, rankVars, hookVars, frameVars, waveVars, history>>

\* r takes m out of its receive queue: in the wave's test loop, or in
\* process_receive_queue, which never runs inside itself.
Receives(r, m) ==
  /\ st[m] = "inflight" /\ Hop[at[m]][dst[m]] = r
  /\ mode[r] # "vote"
  /\ inner[r] = None
  /\ mode' = [mode EXCEPT ![r] = IF @ = "reduce" THEN "drain" ELSE @]

Execute(r, m) ==
  /\ Receives(r, m)
  /\ dst[m] = r
  /\ st' = [st EXCEPT ![m] = "executing"]
  /\ at' = [at EXCEPT ![m] = r]
  /\ IF mode[r] = "reduce"
       THEN outer' = [outer EXCEPT ![r] = m] /\ UNCHANGED inner
       ELSE inner' = [inner EXCEPT ![r] = m] /\ UNCHANGED outer
  /\ UNCHANGED <<by, dst, unacked, full, sendCount, recvCount, cur, hookVars, waveVars, history>>

Forward(r, m) ==
  /\ Receives(r, m)
  /\ dst[m] # r
  /\ st' = [st EXCEPT ![m] = "buffered"]
  /\ at' = [at EXCEPT ![m] = r]
  /\ UNCHANGED <<by, dst, unacked, full, sendCount, recvCount, cur, hookVars, frameVars,
                 waveVars, history>>

\* The handler of m returns, and only then is m counted as received.
FinishInner(r) ==
  /\ inner[r] # None
  /\ st' = [st EXCEPT ![inner[r]] = "done"]
  /\ recvCount' = [recvCount EXCEPT ![r] = @ + 1]
  /\ inner' = [inner EXCEPT ![r] = None]
  /\ UNCHANGED <<outer, by, dst, at, unacked, mode, full, sendCount, cur, hookVars, waveVars,
                 history>>

\* Mutant: a handler run straight from the test loop is not counted.
FinishOuterUncounted(r) ==
  /\ inner[r] = None
  /\ outer[r] \in Msgs
  /\ st' = [st EXCEPT ![outer[r]] = "done"]
  /\ outer' = [outer EXCEPT ![r] = None]
  /\ UNCHANGED <<inner, by, dst, at, unacked, rankVars, hookVars, waveVars, history>>

FinishOuter(r) ==
  /\ inner[r] = None
  /\ outer[r] \in Msgs
  /\ st' = [st EXCEPT ![outer[r]] = "done"]
  /\ recvCount' = [recvCount EXCEPT ![r] = @ + 1]
  /\ outer' = [outer EXCEPT ![r] = None]
  /\ UNCHANGED <<inner, by, dst, at, unacked, mode, full, sendCount, cur, hookVars, waveVars,
                 history>>

\* flush_all_local_and_process_incoming pops a callback and calls it.
StartHook(r) ==
  /\ mode[r] \in {"flush", "drain"}
  /\ Idle(r)
  /\ hooks[r] > 0
  /\ hooks' = [hooks EXCEPT ![r] = @ - 1]
  /\ outer' = [outer EXCEPT ![r] = Callback]
  /\ UNCHANGED <<hooksLeft, inner, rankVars, msgVars, waveVars, history>>

FinishHook(r) ==
  /\ inner[r] = None
  /\ outer[r] = Callback
  /\ outer' = [outer EXCEPT ![r] = None]
  /\ UNCHANGED <<inner, rankVars, hookVars, msgVars, waveVars, history>>

-----------------------------------------------------------------------------
(***************************************************************************)
(* The barrier.                                                            *)
(***************************************************************************)
\* Mutant: goes into a wave with buffered messages.
DrainedButBuffers(r) ==
  /\ Idle(r)
  /\ hooks[r] = 0
  /\ \A m \in Msgs : <<r, m>> \notin unacked

\* Nothing r still has to run, flush or see complete.
Drained(r) ==
  /\ Idle(r)
  /\ hooks[r] = 0
  /\ \A m \in Msgs : ~(st[m] = "buffered" /\ at[m] = r)
  /\ \A m \in Msgs : <<r, m>> \notin unacked

\* r calls barrier() (f) or async_barrier() (~f).
Enter(r, f) ==
  /\ mode[r] = "app" /\ Idle(r)
  /\ mode' = [mode EXCEPT ![r] = "flush"]
  /\ full' = [full EXCEPT ![r] = f]
  /\ cur' = [cur EXCEPT ![r] = NoCounts]
  /\ UNCHANGED <<sendCount, recvCount, hookVars, frameVars, msgVars, waveVars, history>>

\* r joins a wave with the counters it has now: MPI_Iallreduce.
Post(r) ==
  /\ posted' = posted \cup {r}
  /\ acc' = <<acc[1] + recvCount[r], acc[2] + sendCount[r]>>
  /\ snapR' = snapR \cup DoneAt(r)
  /\ snapS' = snapS \cup SentBy(r)

\* flush_all_local_and_process_incoming finds nothing left; r posts.
StartWave(r) ==
  /\ mode[r] = "flush" /\ Drained(r)
  /\ mode' = [mode EXCEPT ![r] = "reduce"]
  /\ Post(r)
  /\ UNCHANGED <<full, sendCount, recvCount, cur, hookVars, frameVars, msgVars, total, ready,
                 waves, prevTotal, cutR, cutS>>

\* Mutant: goes on testing straight after the handler.
ResumeWaveDirty(r) ==
  /\ mode[r] = "drain" /\ Idle(r)
  /\ mode' = [mode EXCEPT ![r] = "reduce"]
  /\ UNCHANGED <<full, sendCount, recvCount, cur, hookVars, frameVars, msgVars, waveVars, history>>

\* After a receive in the test loop r flushes again and goes on testing.
ResumeWave(r) ==
  /\ mode[r] = "drain" /\ Drained(r)
  /\ mode' = [mode EXCEPT ![r] = "reduce"]
  /\ UNCHANGED <<full, sendCount, recvCount, cur, hookVars, frameVars, msgVars, waveVars, history>>

\* MPI completes the wave that all ranks have joined.
CompleteWave ==
  /\ posted = Ranks
  /\ posted' = {} /\ acc' = <<0, 0>>
  /\ total' = acc
  /\ ready' = Ranks
  /\ waves' = IF waves = 0 THEN 1 ELSE 2
  /\ prevTotal' = total
  /\ snapR' = {} /\ snapS' = {}
  /\ cutR' = Done /\ cutS' = Sent
  /\ UNCHANGED <<rankVars, hookVars, frameVars, msgVars>>

Balanced(counts) == counts[1] = counts[2]

\* MPI_Testsome reports the wave: barrier_reduce_counts returns its sums.
Learn(r) ==
  /\ mode[r] = "reduce" /\ r \in ready
  /\ ready' = ready \ {r}
  /\ cur' = [cur EXCEPT ![r] = total]

\* Mutant: one balanced wave is enough.
ConfirmOnce(r) ==
  /\ Learn(r)
  /\ Balanced(total)
  /\ mode' = [mode EXCEPT ![r] = "vote"]
  /\ UNCHANGED <<full, sendCount, recvCount, hookVars, frameVars, msgVars, posted, acc, total,
                 history>>

\* Mutant: decides by the rank's own counters.
ConfirmAlone(r) ==
  /\ Learn(r)
  /\ Balanced(total) /\ sendCount[r] = recvCount[r]
  /\ mode' = [mode EXCEPT ![r] = "vote"]
  /\ UNCHANGED <<full, sendCount, recvCount, hookVars, frameVars, msgVars, posted, acc, total,
                 history>>

\* The same balanced sums twice: r leaves the loop for the MPI_Allreduce.
Confirm(r) ==
  /\ Learn(r)
  /\ Balanced(total) /\ cur[r] = total
  /\ mode' = [mode EXCEPT ![r] = "vote"]
  /\ UNCHANGED <<full, sendCount, recvCount, hookVars, frameVars, msgVars, posted, acc, total,
                 history>>

\* Balanced sums for the first time: the next wave starts with no flush.
Recount(r) ==
  /\ Learn(r)
  /\ Balanced(total) /\ cur[r] # total
  /\ Post(r)
  /\ UNCHANGED <<mode, full, sendCount, recvCount, hookVars, frameVars, msgVars, total,
                 waves, prevTotal, cutR, cutS>>

Reflush(r) ==
  /\ Learn(r)
  /\ ~Balanced(total)
  /\ mode' = [mode EXCEPT ![r] = "flush"]
  /\ UNCHANGED <<full, sendCount, recvCount, hookVars, frameVars, msgVars, posted, acc, total,
                 history>>

\* Mutant: barrier() returns whatever priv_barrier returned.
VoteIgnored ==
  /\ \A r \in Ranks : mode[r] = "vote"
  /\ mode' = [r \in Ranks |-> "app"]
  /\ cur' = [r \in Ranks |-> NoCounts]
  /\ total' = <<0, 0>>
  /\ waves' = 0 /\ prevTotal' = <<0, 0>> /\ cutR' = {} /\ cutS' = {}
  /\ UNCHANGED <<full, sendCount, recvCount, hookVars, frameVars, msgVars, posted, acc, ready,
                 snapR, snapS>>

\* Mutant: async_barrier() too starts again after a vote that failed.
VoteAllOrNone ==
  /\ \A r \in Ranks : mode[r] = "vote"
  /\ mode' = [r \in Ranks |-> IF \E q \in Ranks : ~full[q] THEN "flush" ELSE "app"]
  /\ cur' = [r \in Ranks |-> NoCounts]
  /\ total' = <<0, 0>>
  /\ waves' = 0 /\ prevTotal' = <<0, 0>> /\ cutR' = {} /\ cutS' = {}
  /\ UNCHANGED <<full, sendCount, recvCount, hookVars, frameVars, msgVars, posted, acc, ready,
                 snapR, snapS>>

\* MPI_Allreduce of local_full: all ranks return true or all return false;
\* barrier() starts priv_barrier again on false, async_barrier() returns.
Vote ==
  /\ \A r \in Ranks : mode[r] = "vote"
  /\ mode' = [r \in Ranks |->
                IF full[r] /\ \E q \in Ranks : ~full[q] THEN "flush" ELSE "app"]
  /\ cur' = [r \in Ranks |-> NoCounts]
  /\ total' = <<0, 0>>
  /\ waves' = 0 /\ prevTotal' = <<0, 0>> /\ cutR' = {} /\ cutS' = {}
  /\ UNCHANGED <<full, sendCount, recvCount, hookVars, frameVars, msgVars, posted, acc, ready,
                 snapR, snapS>>

-----------------------------------------------------------------------------
Next ==
  \/ \E r, d \in Ranks, m \in Msgs : Async(r, m, d)
  \/ \E r \in Ranks : RegisterHook(r)
  \/ \E r \in Ranks, m \in Msgs : Flush(r, m)
  \/ \E r \in Ranks, m \in Msgs : SendCompletes(r, m)
  \/ \E r \in Ranks, m \in Msgs : Execute(r, m)
  \/ \E r \in Ranks, m \in Msgs : Forward(r, m)
  \/ \E r \in Ranks : FinishInner(r)
  \/ \E r \in Ranks : FinishOuter(r)
  \/ \E r \in Ranks : StartHook(r)
  \/ \E r \in Ranks : FinishHook(r)
  \/ \E r \in Ranks, f \in BOOLEAN : Enter(r, f)
  \/ \E r \in Ranks : StartWave(r)
  \/ \E r \in Ranks : ResumeWave(r)
  \/ CompleteWave
  \/ \E r \in Ranks : Confirm(r)
  \/ \E r \in Ranks : Recount(r)
  \/ \E r \in Ranks : Reflush(r)
  \/ Vote

Spec == Init /\ [][Next]_vars

-----------------------------------------------------------------------------
(***************************************************************************)
(* Safety.                                                                 *)
(***************************************************************************)
TypeOK ==
  /\ mode \in [Ranks -> Modes]
  /\ full \in [Ranks -> BOOLEAN]
  /\ sendCount \in [Ranks -> Nat] /\ recvCount \in [Ranks -> Nat]
  /\ hooks \in [Ranks -> Nat] /\ hooksLeft \in Nat
  /\ outer \in [Ranks -> Msgs \cup {Callback, None}]
  /\ inner \in [Ranks -> Msgs \cup {None}]
  /\ st \in [Msgs -> Stages]
  /\ by \in [Msgs -> Ranks \cup {None}]
  /\ dst \in [Msgs -> Ranks \cup {None}]
  /\ at \in [Msgs -> Ranks \cup {None}]
  /\ unacked \subseteq Ranks \X Msgs
  /\ posted \subseteq Ranks /\ ready \subseteq Ranks
  /\ acc \in Nat \X Nat /\ total \in Nat \X Nat
  /\ cur \in [Ranks -> Nat \X Nat]
  /\ waves \in 0..2 /\ prevTotal \in Nat \X Nat
  /\ snapR \subseteq Msgs /\ snapS \subseteq Msgs
  /\ cutR \subseteq Msgs /\ cutS \subseteq Msgs

\* Every message sent has run to its end and no callback waits or runs.
Quiet ==
  /\ \A m \in Msgs : st[m] \in {"unsent", "done"}
  /\ \A r \in Ranks : Idle(r) /\ hooks[r] = 0

\* A rank leaves the counting loop of priv_barrier only when no work is
\* outstanding anywhere: "All ranks must complete their messages before any
\* rank is able to return from the barrier() call."
BarrierQuiescent == (\E r \in Ranks : mode[r] = "vote") => Quiet

\* barrier_reduce_counts and the end of priv_barrier assert that the rank has
\* no pending isend bytes, no buffered bytes and no callback left.
ReduceEntryClean == \A r \in Ranks : mode[r] \in {"reduce", "vote"} => Drained(r)

\* Ranks never disagree about which collective comes next: while one waits in
\* the final MPI_Allreduce, each other is there too, or has still to read the
\* sums that will send it there.
CollectivesMatch ==
  \A r, q \in Ranks :
    mode[r] = "vote" => mode[q] = "vote" \/ (q \in ready /\ cur[q] = total /\ Balanced(total))

\* barrier() and async_barrier() keep the promise of QuiescentBarrier.
Promise == INSTANCE QuiescentBarrier WITH
  inside <- {r \in Ranks : mode[r] # "app"},
  full <- full,
  fresh <- Msgs \ Sent,
  live <- Sent \ Done,
  hooked <- {r \in Ranks : hooks[r] > 0 \/ outer[r] = Callback}

PromiseKept == Promise!Spec

-----------------------------------------------------------------------------
(***************************************************************************)
(* Liveness.  A handler and a callback return, MPI moves messages and      *)
(* completes collectives all ranks have joined, and a rank inside a        *)
(* barrier keeps flushing, testing and counting: these loops have no other *)
(* exit.  An MPI_Isend need not complete before its message is received,   *)
(* and the application need never call a barrier.                          *)
(***************************************************************************)
Received(r, m) == ~(st[m] = "inflight" /\ at[m] = r)

Fairness ==
  /\ \A r \in Ranks, m \in Msgs :
       /\ WF_vars(Flush(r, m))
       /\ WF_vars(Received(r, m) /\ SendCompletes(r, m))
       /\ WF_vars(Execute(r, m) \/ Forward(r, m))
  /\ \A r \in Ranks :
       /\ WF_vars(FinishInner(r) \/ FinishOuter(r))
       /\ WF_vars(StartHook(r) \/ FinishHook(r))
       /\ WF_vars(StartWave(r) \/ ResumeWave(r))
       /\ WF_vars(Confirm(r) \/ Recount(r) \/ Reflush(r))
  /\ WF_vars(CompleteWave) /\ WF_vars(Vote)

FairSpec == Spec /\ Fairness

AllInside == \A r \in Ranks : mode[r] # "app"

\* Once every rank is in barrier(), all of them return: the flushing, the
\* receiving and the waves reach two equal balanced counts.
BarrierReturns ==
  (AllInside /\ \A r \in Ranks : full[r]) ~> (\A r \in Ranks : mode[r] = "app")

\* Once every rank is in some barrier, a rank in async_barrier() returns,
\* whichever kind of barrier the others are in.
AsyncBarrierReturns ==
  \A r \in Ranks : (AllInside /\ ~full[r]) ~> mode[r] = "app"
-----------------------------------------------------------------------------
(***************************************************************************)
(* The inductive invariant behind BarrierQuiescent and CollectivesMatch.   *)
(***************************************************************************)
\* A running handler belongs to a message that is executing, at its
\* destination; only a rank that is not blocked in MPI runs anything.
FramesInv ==
  /\ \A r \in Ranks :
       /\ outer[r] \in Msgs => st[outer[r]] = "executing" /\ dst[outer[r]] = r
       /\ inner[r] \in Msgs => st[inner[r]] = "executing" /\ dst[inner[r]] = r
       /\ outer[r] # None => mode[r] \in {"flush", "drain"} /\ outer[r] # inner[r]
       /\ inner[r] # None => Progressing(r)
  /\ \A m \in Sent : by[m] \in Ranks /\ dst[m] \in Ranks

\* The two counters are the numbers of messages sent and executed.
CountersInv ==
  \A r \in Ranks :
    /\ sendCount[r] = Cardinality(SentBy(r))
    /\ recvCount[r] = Cardinality(DoneAt(r))

\* The ranks agree on the waves: which they have joined, which they have read.
WaveInv ==
  /\ posted \cap ready = {}
  /\ posted \cup ready = {r \in Ranks : mode[r] \in {"reduce", "drain"}}
  /\ waves = 0 => ready = {} /\ \A r \in Ranks : cur[r] = NoCounts
  /\ waves > 0 => AllInside /\ \A r \in Ranks :
       cur[r] = IF r \notin ready THEN total
                ELSE IF waves = 1 THEN NoCounts ELSE prevTotal

\* The last two completed waves show the same balanced sums.
Confirmed == waves = 2 /\ prevTotal = total /\ Balanced(total)

DecisionInv ==
  /\ \A r \in Ranks : mode[r] = "vote" => Confirmed
  /\ Confirmed => \A r \in Ranks : r \in ready \/ mode[r] = "vote"

\* The sums of a wave lie between the cuts before and after it.
CutInv ==
  /\ cutR \subseteq Done /\ cutS \subseteq Sent /\ cutR \subseteq cutS
  /\ waves > 0 => total[1] <= Cardinality(cutR) /\ total[2] <= Cardinality(cutS)
  /\ acc = <<Cardinality(snapR), Cardinality(snapS)>>
  /\ snapR \subseteq {m \in Done : dst[m] \in posted}
  /\ snapS \subseteq {m \in Sent : by[m] \in posted}
  /\ \A m \in cutR : dst[m] \in posted => m \in snapR
  /\ \A m \in cutS : by[m] \in posted => m \in snapS

\* All that was sent at the cut was executed, and the wave has seen no other message.
SeenNothingNew == cutR = cutS /\ snapS \subseteq cutS

\* Then work a rank does after joining the wave has its origin in a message
\* the wave will still count, because its sender has not joined yet.
OriginInv ==
  SeenNothingNew =>
    /\ Sent # cutS => \E m \in Sent \ cutS : by[m] \notin posted
    /\ \A r \in posted : hooks[r] > 0 \/ outer[r] = Callback => Sent # cutS

ConfirmedQuiet == Confirmed => Quiet

IInv ==
  /\ TypeOK /\ FramesInv /\ CountersInv /\ ReduceEntryClean /\ WaveInv /\ DecisionInv
  /\ CutInv /\ OriginInv /\ ConfirmedQuiet
=============================================================================
