----------------------------- MODULE AllReduce -----------------------------
(***************************************************************************)
(* ygm::all_reduce: contributions go up a binary tree of ranks by MPI      *)
(* messages and the result comes down by a broadcast.  There is no barrier *)
(* in it: ranks may be in different calls, and a child may send for a call *)
(* that its parent has not begun.  A value is the bag of contributions     *)
(* that were merged into it; one that is absent (std::nullopt) is the      *)
(* empty bag.                                                              *)
(***************************************************************************)
EXTENDS Integers, Sequences, Bags

CONSTANTS
  NumRanks,
  MaxCalls   \* bound: calls of all_reduce

World == 0..NumRanks - 1

VARIABLES
  calls,  \* the calls each rank has begun
  where,  \* where it is: "user", or the next thing to do
  tmp,    \* what it has merged
  chan,   \* MPI messages from s to d, in order
  down,   \* what rank 0 has broadcast, call by call
  got     \* the results each rank has returned

vars == <<calls, where, tmp, chan, down, got>>

Init ==
  /\ calls = [r \in World |-> 0]
  /\ where = [r \in World |-> "user"]
  /\ tmp = [r \in World |-> EmptyBag]
  /\ chan = [sd \in World \X World |-> <<>>]
  /\ down = <<>>
  /\ got = [r \in World |-> <<>>]

first_child(r) == 2 * r + 1
second_child(r) == 2 * (r + 1)
parent(r) == (r - 1) \div 2

\* What rank r gives to its n-th call: nothing, every other time.
Mine(r, n) == IF (r + n) % 2 = 0 THEN EmptyBag ELSE SetToBag({<<r, n>>})

Call(r) ==
  /\ where[r] = "user" /\ calls[r] < MaxCalls
  /\ calls' = [calls EXCEPT ![r] = @ + 1]
  /\ tmp' = [tmp EXCEPT ![r] = Mine(r, calls[r] + 1)]
  /\ where' = [where EXCEPT ![r] = "first"]
  /\ UNCHANGED <<chan, down, got>>

\* The messages of one pair of ranks keep their order; mpi_recv waits.
mpi_send(s, d, value) == chan' = [chan EXCEPT ![<<s, d>>] = Append(@, value)]
mpi_recv(s, d) == chan[<<s, d>>] # <<>> /\ chan' = [chan EXCEPT ![<<s, d>>] = Tail(@)]

\* Mutant: what was received replaces what there was.
ReplaceChild(r, child, then) ==
  /\ where' = [where EXCEPT ![r] = then]
  /\ IF child >= NumRanks THEN UNCHANGED <<tmp, chan>>
       ELSE mpi_recv(child, r) /\ tmp' = [tmp EXCEPT ![r] = Head(chan[<<child, r>>])]
  /\ UNCHANGED <<calls, down, got>>

\* Receive from a child that there is, and merge.
MergeChild(r, child, then) ==
  /\ where' = [where EXCEPT ![r] = then]
  /\ IF child >= NumRanks THEN UNCHANGED <<tmp, chan>>
       ELSE mpi_recv(child, r) /\ tmp' = [tmp EXCEPT ![r] = @ (+) Head(chan[<<child, r>>])]
  /\ UNCHANGED <<calls, down, got>>

ReceiveFirst(r) == where[r] = "first" /\ MergeChild(r, first_child(r), "second")
ReceiveSecond(r) == where[r] = "second" /\ MergeChild(r, second_child(r), "up")

SendUp(r) ==
  /\ where[r] = "up"
  /\ IF r = 0 THEN UNCHANGED chan ELSE mpi_send(r, parent(r), tmp[r])
  /\ where' = [where EXCEPT ![r] = "down"]
  /\ UNCHANGED <<calls, tmp, down, got>>

\* mpi_bcast: rank 0 need not wait, the others take its n-th value in their
\* n-th call.
Bcast(r) ==
  /\ where[r] = "down"
  /\ IF r = 0 THEN down' = Append(down, tmp[0])
              ELSE Len(down) >= calls[r] /\ UNCHANGED down
  /\ got' = [got EXCEPT ![r] = Append(@, down'[calls[r]])]
  /\ where' = [where EXCEPT ![r] = "user"]
  /\ UNCHANGED <<calls, tmp, chan>>

Finished == (\A r \in World : where[r] = "user" /\ calls[r] = MaxCalls) /\ UNCHANGED vars

\* One call, step by step.
Step(r) == Call(r) \/ ReceiveFirst(r) \/ ReceiveSecond(r) \/ SendUp(r) \/ Bcast(r)

Next == (\E r \in World : Step(r)) \/ Finished

Spec == Init /\ [][Next]_vars

-----------------------------------------------------------------------------
All(n) == [c \in {<<r, n>> : r \in {q \in World : Mine(q, n) # EmptyBag}} |-> 1]

\* Each call returns, at every rank, every contribution to it once and nothing
\* of another call, whichever calls the ranks are in meanwhile.
ReducedExact ==
  \A r \in World : \A n \in DOMAIN got[r] : got[r][n] = All(n)
=============================================================================
