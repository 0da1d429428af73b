------------------------- MODULE QuiescentBarrier -------------------------
(***************************************************************************)
(* What ygm::comm promises to a program that calls barrier() and           *)
(* async_barrier(), without saying how: messages and pre-barrier callbacks *)
(* are the outstanding work, only the application or outstanding work      *)
(* makes more work, and ranks are let go together, at a moment when every  *)
(* rank waits and no work is outstanding.  A moment at which some rank     *)
(* only waits in async_barrier lets the asynchronous ranks go and keeps    *)
(* the others.                                                             *)
(***************************************************************************)
CONSTANTS
  Ranks,    \* the MPI ranks of the communicator
  Msgs      \* the messages a run may create, each at most once

VARIABLES
  inside,   \* the ranks that are in barrier() or async_barrier()
  full,     \* full[r]: the call r is in, or was last in, is barrier()
  fresh,    \* messages nobody has sent yet
  live,     \* messages sent and not yet executed to their end
  hooked    \* ranks with a pre-barrier callback registered or running

vars == <<inside, full, fresh, live, hooked>>

Init ==
  /\ inside = {}
  /\ full = [r \in Ranks |-> FALSE]
  /\ fresh = Msgs
  /\ live = {}
  /\ hooked = {}

\* Something can run on r: the application outside a barrier, or outstanding work.
CanWork(r) == r \notin inside \/ live # {} \/ r \in hooked

Enter(r, f) ==
  /\ r \notin inside
  /\ inside' = inside \cup {r}
  /\ full' = [full EXCEPT ![r] = f]
  /\ UNCHANGED <<fresh, live, hooked>>

Send(r, m) ==
  /\ CanWork(r)
  /\ m \in fresh
  /\ fresh' = fresh \ {m}
  /\ live' = live \cup {m}
  /\ UNCHANGED <<inside, full, hooked>>

Finish(m) ==
  /\ m \in live
  /\ live' = live \ {m}
  /\ UNCHANGED <<inside, full, fresh, hooked>>

Hook(r) ==
  /\ CanWork(r)
  /\ hooked' = hooked \cup {r}
  /\ UNCHANGED <<inside, full, fresh, live>>

Unhook(r) ==
  /\ r \in hooked
  /\ hooked' = hooked \ {r}
  /\ UNCHANGED <<inside, full, fresh, live>>

Release ==
  /\ inside = Ranks
  /\ live = {} /\ hooked = {}
  /\ inside' = IF \A r \in Ranks : full[r] THEN {} ELSE {r \in Ranks : full[r]}
  /\ UNCHANGED <<full, fresh, live, hooked>>

Next ==
  \/ \E r \in Ranks, f \in BOOLEAN : Enter(r, f)
  \/ \E r \in Ranks, m \in Msgs : Send(r, m)
  \/ \E m \in Msgs : Finish(m)
  \/ \E r \in Ranks : Hook(r) \/ Unhook(r)
  \/ Release

Spec == Init /\ [][Next]_vars
=============================================================================
