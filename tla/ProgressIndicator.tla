------------------------- MODULE ProgressIndicator -------------------------
(***************************************************************************)
(* ygm::utility::progress_indicator: ranks count their own progress, and   *)
(* add it up by non-blocking reductions on a communicator of its own, at   *)
(* most one at a time.  Reductions are matched in the order in which each  *)
(* rank posts them, so all ranks must post equally many: a rank that is in *)
(* complete() goes on posting until all are.                               *)
(***************************************************************************)
EXTENDS Integers, Sequences, FiniteSets, Functions

CONSTANTS
  Ranks,
  UpdateFreq,  \* options::update_freq
  Increments,  \* bound: what async_inc adds
  MaxProgress  \* bound: progress of a rank

VARIABLES
  at,           \* "run", "complete" (in its loop), or "freed": m_mpi_comm is null
  count,        \* m_local_count
  last_report,  \* m_local_last_report
  request,      \* m_mpi_iar_request is active
  posted,       \* the m_local_pairs that a rank has posted
  report        \* the total of its last priv_report

vars == <<at, count, last_report, request, posted, report>>

Init ==
  /\ at = [r \in Ranks |-> "run"]
  /\ count = [r \in Ranks |-> 0] /\ last_report = [r \in Ranks |-> 0]
  /\ request = [r \in Ranks |-> FALSE] /\ posted = [r \in Ranks |-> <<>>]
  /\ report = [r \in Ranks |-> 0]

\* MPI: the n-th reduction, which is over when all ranks have posted it, after
\* which MPI_Test may say so.
Reduction(r) == Len(posted[r])
Reduced(n) == \A q \in Ranks : Len(posted[q]) >= n
Global(n) ==
  [progress |-> SumFunction([q \in Ranks |-> posted[q][n].progress]),
   complete |-> Cardinality({q \in Ranks : posted[q][n].complete})]

priv_post_iallreduce(r, n, in_complete) ==
  /\ posted' = [posted EXCEPT ![r] = Append(@, [progress |-> n, complete |-> in_complete])]
  /\ last_report' = [last_report EXCEPT ![r] = n]
  /\ request' = [request EXCEPT ![r] = TRUE]

priv_report(r) == report' = [report EXCEPT ![r] = Global(Reduction(r)).progress]

\* The report of a reduction after the next is posted, which has the same
\* buffer: of the former, or of what there is of the latter.
ReportPosted(r) ==
  \/ priv_report(r)
  \/ \E S \in SUBSET Ranks :
       /\ r \in S /\ \A q \in S : Len(posted'[q]) > Reduction(r)
       /\ report' = [report EXCEPT ![r] =
                       SumFunction([q \in S |-> posted'[q][Reduction(r) + 1].progress])]

\* Between a report and the next, or while the last reduction goes on.
IncQuietly(r, i) ==
  LET n == count[r] + i
  IN /\ at[r] = "run" /\ n <= MaxProgress
     /\ n < last_report[r] + UpdateFreq \/ request[r]
     /\ count' = [count EXCEPT ![r] = n]
     /\ UNCHANGED <<at, last_report, request, posted, report>>

IncPosting(r, i) ==
  LET n == count[r] + i
  IN /\ at[r] = "run" /\ n <= MaxProgress /\ n >= last_report[r] + UpdateFreq
     /\ count' = [count EXCEPT ![r] = n]
     /\ IF request[r] THEN Reduced(Reduction(r)) /\ priv_report(r) ELSE UNCHANGED report
     /\ priv_post_iallreduce(r, n, FALSE)
     /\ UNCHANGED at

Complete(r) ==
  /\ at[r] = "run" /\ at' = [at EXCEPT ![r] = "complete"]
  /\ IF request[r] THEN UNCHANGED <<posted, last_report, request>>
                   ELSE priv_post_iallreduce(r, count[r], TRUE)
  /\ UNCHANGED <<count, report>>

\* Mutant: complete() returns after any reduction.
AnyComplete(n) == TRUE

GloballyComplete(n) == Global(n).complete = Cardinality(Ranks)

\* wait_until, after MPI_Test says so.
WaitUntil(r) ==
  /\ at[r] = "complete" /\ Reduced(Reduction(r))
  /\ IF GloballyComplete(Reduction(r))
       THEN /\ at' = [at EXCEPT ![r] = "freed"] /\ request' = [request EXCEPT ![r] = FALSE]
            /\ UNCHANGED <<posted, last_report>>
            /\ priv_report(r)
       ELSE /\ priv_post_iallreduce(r, count[r], TRUE) /\ ReportPosted(r)
            /\ UNCHANGED at
  /\ UNCHANGED count

Finished == (\A r \in Ranks : at[r] = "freed") /\ UNCHANGED vars

Next ==
  \/ \E r \in Ranks :
       \/ \E i \in Increments : IncQuietly(r, i) \/ IncPosting(r, i)
       \/ Complete(r) \/ WaitUntil(r)
  \/ Finished

Spec == Init /\ [][Next]_vars

-----------------------------------------------------------------------------
\* A rank that frees the communicator has reported the progress of all, none is
\* going to add to it, and no rank waits for a reduction that it has not posted.
ProgressExact ==
  \A r \in Ranks : at[r] = "freed" =>
    /\ report[r] = SumFunction([q \in Ranks |-> count[q]])
    /\ \A q \in Ranks : at[q] # "run" /\ Len(posted[q]) = Len(posted[r])
=============================================================================
