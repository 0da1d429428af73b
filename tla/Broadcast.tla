----------------------------- MODULE Broadcast -----------------------------
(***************************************************************************)
(* The tree of async_bcast (include/ygm/detail/comm.ipp,                   *)
(* pack_lambda_broadcast).  The origin queues a copy for every rank of its *)
(* node, itself included; each of these executes the function and queues   *)
(* copies for its partners on other nodes; each partner executes it and    *)
(* queues copies for the other ranks of its node.  Copies are not routed.  *)
(***************************************************************************)
EXTENDS Layout

VARIABLES
  origin,    \* the rank that called async_bcast, NoRank before
  copies,    \* copies[stage][r]: copies of a stage on their way to r
  executed   \* executed[r]: how often r has executed the function

bcastVars == <<origin, copies, executed>>

NoRank == -1

\* Whom the copy tells to forward: "fan" to its partners on other nodes,
\* "node" to the other ranks of its node, "leaf" to nobody.
Stages == {"fan", "node", "leaf"}

OnNode(r) == {lay.local_ranks[r][i] : i \in 0..lay.local_size - 1}

\* Mutant: keeps the negative remainder of C++'s % operator.
PartnersUnfixed(r) ==
  LET offset == lay.local_id[r] - lay.node_id[r]
      num_layers == (lay.node_size + lay.local_size - 1) \div lay.local_size
  IN {q \in {lay.strided_ranks[r][offset] + k * lay.local_size * lay.local_size :
               k \in IF offset \in 0..lay.node_size - 1 THEN 0..num_layers - 1 ELSE {}} :
        q < lay.size /\ lay.node_id[q] # lay.node_id[r]}

\* The ranks a "fan" rank forwards to: every local_size-th node from the
\* offset on, at the rank with its own local id.
Partners(r) ==
  LET offset == (lay.local_id[r] - lay.node_id[r]) % lay.local_size
      num_layers == (lay.node_size + lay.local_size - 1) \div lay.local_size
  IN {q \in {lay.strided_ranks[r][offset] + k * lay.local_size * lay.local_size :
               k \in IF offset < lay.node_size THEN 0..num_layers - 1 ELSE {}} :
        q < lay.size /\ lay.node_id[q] # lay.node_id[r]}

BcastInit ==
  /\ origin = NoRank
  /\ copies = [s \in Stages |-> [r \in RanksOf(lay) |-> 0]]
  /\ executed = [r \in RanksOf(lay) |-> 0]

Queue(some, ranks) == [r \in RanksOf(lay) |-> some[r] + IF r \in ranks THEN 1 ELSE 0]

async_bcast(r) ==
  /\ origin = NoRank
  /\ origin' = r
  /\ copies' = [copies EXCEPT !["fan"] = Queue(@, OnNode(r))]
  /\ UNCHANGED <<executed, lay>>

\* r executes a copy of a stage and queues copies of the next for others.
Dispatch(r, stage, next, others) ==
  /\ copies[stage][r] > 0
  /\ copies' = [copies EXCEPT ![stage][r] = @ - 1, ![next] = Queue(@, others)]
  /\ executed' = [executed EXCEPT ![r] = @ + 1]
  /\ UNCHANGED <<origin, lay>>

ForwardRemote(r) == Dispatch(r, "fan", "node", Partners(r))

ForwardLocal(r) == Dispatch(r, "node", "leaf", OnNode(r) \ {r})

ExecuteLeaf(r) ==
  /\ copies["leaf"][r] > 0
  /\ copies' = [copies EXCEPT !["leaf"][r] = @ - 1]
  /\ executed' = [executed EXCEPT ![r] = @ + 1]
  /\ UNCHANGED <<origin, lay>>

BcastNext ==
  \E r \in RanksOf(lay) :
    async_bcast(r) \/ ForwardRemote(r) \/ ForwardLocal(r) \/ ExecuteLeaf(r)

BcastSpec == lay \in Layouts /\ BcastInit /\ [][BcastNext]_<<bcastVars, lay>>

-----------------------------------------------------------------------------
Waiting(r) == copies["fan"][r] + copies["node"][r] + copies["leaf"][r]

\* async_bcast is "sent to all ranks": when no copy is under way every rank
\* has executed the function, exactly once.
BcastReachesAll ==
  origin # NoRank /\ (\A r \in RanksOf(lay) : Waiting(r) = 0)
    => \A r \in RanksOf(lay) : executed[r] = 1

\* async_bcast executes the function once at every rank: no rank gets two copies,
\* by whichever ways they come, and none is left out.
BcastExactlyOnce ==
  BcastReachesAll /\ \A r \in RanksOf(lay) : executed[r] + Waiting(r) <= 1

=============================================================================
