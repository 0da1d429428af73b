------------------------------- MODULE Stages -------------------------------
(***************************************************************************)
(* How the collective operations of containers run.  All ranks call the    *)
(* same operations in the same order, each at its own pace.  An operation  *)
(* is a sequence of stages: what a rank does between two barriers.  A rank *)
(* runs handlers before its call and in barriers; in a stage it reads its  *)
(* local values first, or handlers write elsewhere, so what it does and    *)
(* sends in a stage is one step of it.                                     *)
(*                                                                         *)
(* A barrier ends when all ranks are in it and nothing is in flight        *)
(* (YgmBarrier), and a handler is one step (NoReentry in YgmComm).         *)
(***************************************************************************)
EXTENDS Integers, FiniteSets, Bags, BagsExt

VARIABLES
  net,    \* messages in flight
  op,     \* the collective operation that ranks are calling
  stage,  \* barriers it has passed
  at,     \* each rank: "run", or within op "do" (in a stage) or "in" (a barrier)
  ops     \* bound: operations that may still be called

stageVars == <<op, stage, at, ops>>

Idle == [kind |-> "none"]

StagesInit(ranks, max) ==
  /\ net = EmptyBag
  /\ op = Idle /\ stage = 0 /\ at = [r \in ranks |-> "run"] /\ ops = max

Plus(n, S) == n (+) SetToBag(S)

\* Mutant: handlers run at any time.
ReceivingInStages(r) == TRUE

\* Handlers run before a call and in barriers.
Receiving(r) == at[r] \in {"run", "in"}

Sending(r) == at[r] = "run"

AllIn == \A r \in DOMAIN at : at[r] = "in"

\* The first rank to call decides what all call next, which the program may
\* call.  Some operations have work to do before their first barrier.
Enter(r, o, may, work) ==
  /\ at[r] = "run"
  /\ \/ op = Idle /\ ops > 0 /\ may /\ op' = o /\ ops' = ops - 1
     \/ op = o /\ stage = 0 /\ UNCHANGED <<op, ops>>
  /\ at' = [at EXCEPT ![r] = IF work THEN "do" ELSE "in"]
  /\ UNCHANGED <<net, stage>>

\* The operation has this many barriers; a quiet one goes on after its last.
Over(barriers, quiet) == stage + 1 = barriers /\ ~quiet

\* Mutant: the barrier ends although messages are in flight.
PassEarly(barriers, quiet) ==
  /\ AllIn
  /\ at' = [r \in DOMAIN at |-> IF Over(barriers, quiet) THEN "run" ELSE "do"]
  /\ op' = IF Over(barriers, quiet) THEN Idle ELSE op
  /\ stage' = IF Over(barriers, quiet) THEN 0 ELSE stage + 1
  /\ UNCHANGED <<net, ops>>

Pass(barriers, quiet) ==
  /\ AllIn /\ net = EmptyBag
  /\ at' = [r \in DOMAIN at |-> IF Over(barriers, quiet) THEN "run" ELSE "do"]
  /\ op' = IF Over(barriers, quiet) THEN Idle ELSE op
  /\ stage' = IF Over(barriers, quiet) THEN 0 ELSE stage + 1
  /\ UNCHANGED <<net, ops>>

\* Rank r has done its part of a stage, and goes on to the next barrier.
InStage(r, kinds, s) == op.kind \in kinds /\ stage = s /\ at[r] = "do"
DonePart(r, barriers) ==
  /\ at' = [at EXCEPT ![r] = IF stage < barriers THEN "in" ELSE "run"]
  /\ LET over == \A q \in DOMAIN at : at'[q] = "run"
     IN op' = (IF over THEN Idle ELSE op) /\ stage' = (IF over THEN 0 ELSE stage)
  /\ UNCHANGED ops

\* The program calls nothing more.
AllCalled == op = Idle /\ net = EmptyBag /\ ops = 0
=============================================================================
