------------------------- MODULE YgmBarrierProofs -------------------------
(***************************************************************************)
(* Theorems about YgmBarrier, for any ranks, messages and routes.          *)
(***************************************************************************)
EXTENDS YgmBarrier, FiniteSetTheorems, TLAPS

-----------------------------------------------------------------------------
(***************************************************************************)
(* Type correctness.                                                       *)
(***************************************************************************)
LEMMA TypeInit == Init => TypeOK
BY HooksAssumption DEF Init, TypeOK, Modes, Stages, NoCounts

LEMMA TypeNext == TypeOK /\ [Next]_vars => TypeOK'
<1> USE DEF TypeOK, Modes, Stages, NoCounts, Sent, Done, SentBy, DoneAt,
            rankVars, hookVars, frameVars, msgVars, waveVars, history
<1> SUFFICES ASSUME TypeOK, [Next]_vars PROVE TypeOK'
  OBVIOUS
<1>1. ASSUME NEW r \in Ranks, NEW d \in Ranks, NEW m \in Msgs, Async(r, m, d) PROVE TypeOK'
  BY <1>1 DEF Async
<1>2. ASSUME NEW r \in Ranks, RegisterHook(r) PROVE TypeOK'
  BY <1>2 DEF RegisterHook
<1>3. ASSUME NEW r \in Ranks, NEW m \in Msgs, Flush(r, m) PROVE TypeOK'
  BY <1>3 DEF Flush
<1>4. ASSUME NEW r \in Ranks, NEW m \in Msgs, SendCompletes(r, m) PROVE TypeOK'
  BY <1>4 DEF SendCompletes
<1>5. ASSUME NEW r \in Ranks, NEW m \in Msgs, Execute(r, m) PROVE TypeOK'
  BY <1>5 DEF Execute, Receives
<1>6. ASSUME NEW r \in Ranks, NEW m \in Msgs, Forward(r, m) PROVE TypeOK'
  BY <1>6 DEF Forward, Receives
<1>7. ASSUME NEW r \in Ranks, FinishInner(r) PROVE TypeOK'
  BY <1>7 DEF FinishInner
<1>8. ASSUME NEW r \in Ranks, FinishOuter(r) PROVE TypeOK'
  BY <1>8 DEF FinishOuter
<1>9. ASSUME NEW r \in Ranks, StartHook(r) PROVE TypeOK'
  BY <1>9 DEF StartHook
<1>10. ASSUME NEW r \in Ranks, FinishHook(r) PROVE TypeOK'
  BY <1>10 DEF FinishHook
<1>11. ASSUME NEW r \in Ranks, NEW f \in BOOLEAN, Enter(r, f) PROVE TypeOK'
  BY <1>11 DEF Enter
<1>12. ASSUME NEW r \in Ranks, StartWave(r) PROVE TypeOK'
  BY <1>12 DEF StartWave, Post
<1>13. ASSUME NEW r \in Ranks, ResumeWave(r) PROVE TypeOK'
  BY <1>13 DEF ResumeWave
<1>14. CASE CompleteWave
  BY <1>14 DEF CompleteWave
<1>15. ASSUME NEW r \in Ranks, Confirm(r) PROVE TypeOK'
  BY <1>15 DEF Confirm, Learn
<1>16. ASSUME NEW r \in Ranks, Recount(r) PROVE TypeOK'
  BY <1>16 DEF Recount, Learn, Post
<1>17. ASSUME NEW r \in Ranks, Reflush(r) PROVE TypeOK'
  BY <1>17 DEF Reflush, Learn
<1>18. CASE Vote
  BY <1>18 DEF Vote
<1>19. CASE UNCHANGED vars
  BY <1>19 DEF vars
<1>20. QED
  BY <1>1, <1>2, <1>3, <1>4, <1>5, <1>6, <1>7, <1>8, <1>9, <1>10, <1>11, <1>12, <1>13,
     <1>14, <1>15, <1>16, <1>17, <1>18, <1>19 DEF Next

\* Every reachable state of the barrier has the declared types.
THEOREM TypeCorrect == Spec => []TypeOK
BY TypeInit, TypeNext, PTL DEF Spec
-----------------------------------------------------------------------------
(***************************************************************************)
(* The sets behind the counters.                                           *)
(***************************************************************************)
\* Any set of messages is finite and has a number of elements.
LEMMA FiniteMsgs ==
  ASSUME NEW T \in SUBSET Msgs
  PROVE  IsFiniteSet(T) /\ Cardinality(T) \in Nat
BY MsgsAssumption, FS_Subset, FS_CardinalityType

\* A subset of messages as large as the whole is the whole.
LEMMA SameSize ==
  ASSUME NEW T \in SUBSET Msgs, NEW U \in SUBSET T
  PROVE  /\ Cardinality(U) <= Cardinality(T)
         /\ Cardinality(U) = Cardinality(T) => U = T
BY FiniteMsgs, FS_Subset

\* Disjoint finite sets add up.
LEMMA DisjointSize ==
  ASSUME NEW T, NEW U, IsFiniteSet(T), IsFiniteSet(U), T \cap U = {}
  PROVE  Cardinality(T \cup U) = Cardinality(T) + Cardinality(U)
<1>1. /\ Cardinality(T) \in Nat /\ Cardinality(U) \in Nat
      /\ Cardinality(T \cup U) = Cardinality(T) + Cardinality(U) - Cardinality(T \cap U)
  BY FS_Union, FS_CardinalityType
<1>2. Cardinality(T \cap U) = 0
  BY FS_EmptySet
<1>3. QED
  BY <1>1, <1>2

\* A message that stays sent but not executed changes none of the sets.
LEMMA SameSets ==
  ASSUME TypeOK, UNCHANGED <<by, dst>>, st' \in [Msgs -> Stages],
         \A m \in Msgs : \/ st'[m] = st[m]
                         \/ st[m] \notin {"unsent", "done"} /\ st'[m] \notin {"unsent", "done"}
  PROVE  /\ Sent' = Sent /\ Done' = Done
         /\ \A r \in Ranks : SentBy(r)' = SentBy(r) /\ DoneAt(r)' = DoneAt(r)
BY DEF TypeOK, Sent, Done, SentBy, DoneAt

\* async: m joins the sent messages, as one of r's.
LEMMA AsyncSets ==
  ASSUME TypeOK, NEW r \in Ranks, NEW d \in Ranks, NEW m \in Msgs, Async(r, m, d)
  PROVE  /\ m \notin Sent /\ Sent' = Sent \cup {m} /\ Done' = Done
         /\ by'[m] = r /\ dst'[m] = d
         /\ \A n \in Msgs : n # m => by'[n] = by[n] /\ dst'[n] = dst[n] /\ st'[n] = st[n]
         /\ SentBy(r)' = SentBy(r) \cup {m} /\ m \notin SentBy(r)
         /\ \A q \in Ranks : q # r => SentBy(q)' = SentBy(q)
         /\ \A q \in Ranks : DoneAt(q)' = DoneAt(q)
BY NoneAssumption DEF TypeOK, Stages, Async, Sent, Done, SentBy, DoneAt

\* A handler returns: m joins the executed messages, at its destination.
LEMMA FinishSets ==
  ASSUME TypeOK, NEW r \in Ranks, NEW m \in Msgs, st[m] = "executing", dst[m] = r,
         st' = [st EXCEPT ![m] = "done"], UNCHANGED <<by, dst>>
  PROVE  /\ m \notin Done /\ m \in Sent /\ Sent' = Sent /\ Done' = Done \cup {m}
         /\ \A q \in Ranks : SentBy(q)' = SentBy(q)
         /\ DoneAt(r)' = DoneAt(r) \cup {m} /\ m \notin DoneAt(r)
         /\ \A q \in Ranks : q # r => DoneAt(q)' = DoneAt(q)
BY DEF TypeOK, Stages, Sent, Done, SentBy, DoneAt

\* While the counts are confirmed, no user code runs anywhere.
LEMMA ConfirmedStill ==
  ASSUME IInv, Confirmed, NEW r \in Ranks
  PROVE  Quiet /\ ~UserCode(r)
BY DEF IInv, ConfirmedQuiet, Confirmed, Quiet, WaveInv, AllInside, UserCode

-----------------------------------------------------------------------------
(***************************************************************************)
(* Parts of the invariant that most actions leave alone.                   *)
(***************************************************************************)
LEMMA SameCounters ==
  ASSUME CountersInv, UNCHANGED <<sendCount, recvCount>>,
         \A r \in Ranks : SentBy(r)' = SentBy(r) /\ DoneAt(r)' = DoneAt(r)
  PROVE  CountersInv'
BY DEF CountersInv

LEMMA SameWaves ==
  ASSUME WaveInv, DecisionInv, UNCHANGED <<posted, ready, total, cur, waves, prevTotal>>,
         NEW r \in Ranks, TypeOK,
         \/ mode' = mode
         \/ mode[r] = "reduce" /\ mode' = [mode EXCEPT ![r] = "drain"]
         \/ mode[r] = "drain" /\ mode' = [mode EXCEPT ![r] = "reduce"]
  PROVE  WaveInv' /\ DecisionInv'
BY DEF TypeOK, WaveInv, DecisionInv, Confirmed, Balanced, AllInside

LEMMA SameCuts ==
  ASSUME CutInv, UNCHANGED <<Sent, Done, by, dst, posted, acc, total, history>>
  PROVE  CutInv'
BY DEF CutInv, history

LEMMA SameOrigins ==
  ASSUME OriginInv, UNCHANGED <<Sent, by, posted, history>>,
         \A r \in posted : hooks'[r] > 0 \/ outer'[r] = Callback
                             => hooks[r] > 0 \/ outer[r] = Callback
  PROVE  OriginInv'
BY DEF OriginInv, SeenNothingNew, history

-----------------------------------------------------------------------------
(***************************************************************************)
(* Every action keeps the invariant.                                       *)
(***************************************************************************)
LEMMA InitIInv == Init => IInv
<1> SUFFICES ASSUME Init PROVE IInv
  OBVIOUS
<1>1. TypeOK
  BY TypeInit
<1>2. Sent = {} /\ Done = {}
  BY DEF Init, Sent, Done
<1>3. FramesInv /\ ReduceEntryClean /\ WaveInv /\ DecisionInv /\ ConfirmedQuiet /\ OriginInv
  BY <1>2, NoneAssumption
     DEF Init, FramesInv, ReduceEntryClean, WaveInv, DecisionInv, ConfirmedQuiet, OriginInv,
         Confirmed, SeenNothingNew
<1>4. CountersInv
  BY <1>2, FS_EmptySet DEF Init, CountersInv, SentBy, DoneAt
<1>5. CutInv
  BY <1>2, FS_EmptySet DEF Init, CutInv
<1>6. QED
  BY <1>1, <1>3, <1>4, <1>5 DEF IInv

LEMMA AsyncIInv ==
  ASSUME IInv, NEW r \in Ranks, NEW d \in Ranks, NEW m \in Msgs, Async(r, m, d)
  PROVE  IInv'
<1> USE DEF rankVars, hookVars, frameVars, waveVars, history
<1>1. TypeOK'
  BY TypeNext DEF IInv, Next
<1>2. TypeOK /\ UserCode(r) /\ ~Confirmed
  BY ConfirmedStill DEF IInv, Async
<1>s. /\ m \notin Sent /\ Sent' = Sent \cup {m} /\ Done' = Done
      /\ by'[m] = r /\ dst'[m] = d
      /\ \A n \in Msgs : n # m => by'[n] = by[n] /\ dst'[n] = dst[n] /\ st'[n] = st[n]
      /\ SentBy(r)' = SentBy(r) \cup {m} /\ m \notin SentBy(r)
      /\ \A q \in Ranks : q # r => SentBy(q)' = SentBy(q)
      /\ \A q \in Ranks : DoneAt(q)' = DoneAt(q)
  BY AsyncSets, <1>2
<1>3. FramesInv'
  BY <1>s, <1>1, <1>2 DEF IInv, FramesInv, Async, Progressing, TypeOK, Sent
<1>4. CountersInv'
  <2>1. Cardinality(SentBy(r)') = Cardinality(SentBy(r)) + 1
    <3>1. SentBy(r) \in SUBSET Msgs
      BY DEF SentBy, Sent
    <3>2. IsFiniteSet(SentBy(r))
      BY <3>1, FiniteMsgs
    <3>3. QED
      BY <3>2, <1>s, FS_AddElement
  <2>2. sendCount' = [sendCount EXCEPT ![r] = @ + 1] /\ recvCount' = recvCount
    BY DEF Async
  <2>3. CountersInv /\ sendCount \in [Ranks -> Nat]
    BY DEF IInv, TypeOK
  <2>4. QED
    BY <2>1, <2>2, <2>3, <1>s DEF CountersInv
<1>5. ReduceEntryClean'
  BY <1>2 DEF IInv, ReduceEntryClean, Drained, Idle, UserCode, Async, TypeOK
<1>6. WaveInv' /\ DecisionInv'
  BY <1>2, SameWaves DEF IInv, Async
<1>7. CutInv'
  <2>1. CutInv /\ UNCHANGED <<posted, acc, total, waves, snapR, snapS, cutR, cutS>>
    BY DEF IInv, Async
  <2>2. Sent \subseteq Msgs /\ Done \subseteq Sent
    BY DEF Sent, Done
  <2>3. QED
    BY <2>1, <2>2, <1>s DEF CutInv
<1>8. OriginInv'
  <2> SUFFICES ASSUME SeenNothingNew'
      PROVE  \E n \in Sent' \ cutS : by'[n] \notin posted
    BY <1>s, <1>2 DEF OriginInv, Async, IInv, CutInv
  <2>1. SeenNothingNew
    BY DEF SeenNothingNew, Async
  <2>2. m \notin cutS
    BY <1>s DEF IInv, CutInv
  <2>3. CASE r \notin posted
    BY <2>2, <2>3, <1>s
  <2>4. CASE r \in posted
    <3>1. Sent # cutS
      <4>1. mode[r] = "drain"
        BY <2>4, <1>2 DEF IInv, WaveInv, ReduceEntryClean, Drained, UserCode
      <4>2. CASE outer[r] = Callback
        BY <2>1, <2>4, <4>2 DEF IInv, OriginInv
      <4>3. ASSUME NEW n \in Msgs, outer[r] = n \/ inner[r] = n PROVE Sent # cutS
        BY <2>1, <4>3 DEF IInv, FramesInv, CutInv, SeenNothingNew, Sent, Done
      <4>4. QED
        BY <4>1, <4>2, <4>3, <1>2 DEF UserCode, Idle, TypeOK
    <3>2. PICK n \in Sent \ cutS : by[n] \notin posted
      BY <3>1, <2>1 DEF IInv, OriginInv
    <3>3. QED
      BY <3>2, <1>s DEF Sent
  <2>5. QED
    BY <2>3, <2>4
<1>9. ConfirmedQuiet'
  BY <1>2 DEF ConfirmedQuiet, Confirmed, Balanced, Async
<1>10. QED
  BY <1>1, <1>3, <1>4, <1>5, <1>6, <1>7, <1>8, <1>9 DEF IInv

LEMMA RegisterHookIInv ==
  ASSUME IInv, NEW r \in Ranks, RegisterHook(r)
  PROVE  IInv'
<1> USE DEF rankVars, hookVars, frameVars, msgVars, waveVars, history
<1>1. TypeOK'
  BY TypeNext DEF IInv, Next
<1>2. TypeOK /\ UserCode(r) /\ ~Confirmed
  BY ConfirmedStill DEF IInv, RegisterHook
<1>3. UNCHANGED <<Sent, Done>> /\ \A q \in Ranks : SentBy(q)' = SentBy(q) /\ DoneAt(q)' = DoneAt(q)
  BY DEF RegisterHook, Sent, Done, SentBy, DoneAt
<1>4. FramesInv'
  BY <1>3 DEF IInv, FramesInv, RegisterHook, Progressing
<1>5. CountersInv'
  BY <1>3, SameCounters DEF IInv, RegisterHook
<1>6. ReduceEntryClean'
  BY <1>2 DEF IInv, ReduceEntryClean, Drained, Idle, UserCode, RegisterHook, TypeOK
<1>7. WaveInv' /\ DecisionInv'
  BY <1>2, SameWaves DEF IInv, RegisterHook
<1>8. CutInv'
  BY <1>3, SameCuts DEF IInv, RegisterHook
<1>9. OriginInv'
  <2> SUFFICES ASSUME SeenNothingNew, r \in posted PROVE Sent # cutS
    BY <1>2, <1>3 DEF IInv, OriginInv, SeenNothingNew, RegisterHook, TypeOK
  <2>1. mode[r] = "drain"
    BY <1>2 DEF IInv, WaveInv, ReduceEntryClean, Drained, UserCode
  <2>2. CASE outer[r] = Callback
    BY <2>2 DEF IInv, OriginInv
  <2>3. ASSUME NEW n \in Msgs, outer[r] = n \/ inner[r] = n PROVE Sent # cutS
    BY <2>3 DEF IInv, FramesInv, CutInv, SeenNothingNew, Sent, Done
  <2>4. QED
    BY <2>1, <2>2, <2>3, <1>2 DEF UserCode, Idle, TypeOK
<1>10. ConfirmedQuiet'
  BY <1>2 DEF ConfirmedQuiet, Confirmed, Balanced, RegisterHook
<1>11. QED
  BY <1>1, <1>4, <1>5, <1>6, <1>7, <1>8, <1>9, <1>10 DEF IInv

LEMMA FlushIInv ==
  ASSUME IInv, NEW r \in Ranks, NEW m \in Msgs, Flush(r, m)
  PROVE  IInv'
<1> USE DEF rankVars, hookVars, frameVars, waveVars, history
<1>1. TypeOK'
  BY TypeNext DEF IInv, Next
<1>2. TypeOK /\ ~Confirmed
  <2>1. st[m] \notin {"unsent", "done"}
    BY DEF Flush
  <2>2. QED
    BY <2>1, ConfirmedStill DEF IInv, Quiet
<1>3. UNCHANGED <<Sent, Done>> /\ \A q \in Ranks : SentBy(q)' = SentBy(q) /\ DoneAt(q)' = DoneAt(q)
  BY <1>1, <1>2, SameSets DEF Flush, TypeOK
<1>4. FramesInv'
  BY <1>2, <1>3 DEF IInv, FramesInv, Flush, Progressing, TypeOK
<1>5. CountersInv'
  BY <1>3, SameCounters DEF IInv, Flush
<1>6. ReduceEntryClean'
  BY <1>2 DEF IInv, ReduceEntryClean, Drained, Idle, Progressing, Flush, TypeOK
<1>7. WaveInv' /\ DecisionInv'
  BY <1>2, SameWaves DEF IInv, Flush
<1>8. CutInv'
  BY <1>3, SameCuts DEF IInv, Flush
<1>9. OriginInv'
  BY <1>3, SameOrigins DEF IInv, Flush
<1>10. ConfirmedQuiet'
  BY <1>2 DEF ConfirmedQuiet, Confirmed, Balanced, Flush
<1>11. QED
  BY <1>1, <1>4, <1>5, <1>6, <1>7, <1>8, <1>9, <1>10 DEF IInv

LEMMA SendCompletesIInv ==
  ASSUME IInv, NEW r \in Ranks, NEW m \in Msgs, SendCompletes(r, m)
  PROVE  IInv'
<1> USE DEF rankVars, hookVars, frameVars, waveVars, history
<1>1. TypeOK'
  BY TypeNext DEF IInv, Next
<1>2. TypeOK
  BY DEF IInv
<1>3. UNCHANGED <<Sent, Done>> /\ \A q \in Ranks : SentBy(q)' = SentBy(q) /\ DoneAt(q)' = DoneAt(q)
  BY DEF SendCompletes, Sent, Done, SentBy, DoneAt
<1>4. FramesInv'
  BY <1>3 DEF IInv, FramesInv, SendCompletes, Progressing
<1>5. CountersInv'
  BY <1>3, SameCounters DEF IInv, SendCompletes
<1>6. ReduceEntryClean'
  BY <1>2 DEF IInv, ReduceEntryClean, Drained, Idle, SendCompletes, TypeOK
<1>7. WaveInv' /\ DecisionInv'
  BY <1>2, SameWaves DEF IInv, SendCompletes
<1>8. CutInv'
  BY <1>3, SameCuts DEF IInv, SendCompletes
<1>9. OriginInv'
  BY <1>3, SameOrigins DEF IInv, SendCompletes
<1>10. ConfirmedQuiet'
  BY DEF IInv, ConfirmedQuiet, Confirmed, Balanced, Quiet, Idle, SendCompletes
<1>11. QED
  BY <1>1, <1>4, <1>5, <1>6, <1>7, <1>8, <1>9, <1>10 DEF IInv

LEMMA ExecuteIInv ==
  ASSUME IInv, NEW r \in Ranks, NEW m \in Msgs, Execute(r, m)
  PROVE  IInv'
<1> USE DEF rankVars, hookVars, frameVars, waveVars, history
<1>1. TypeOK'
  BY TypeNext DEF IInv, Next
<1>2. TypeOK /\ ~Confirmed
  <2>1. st[m] \notin {"unsent", "done"}
    BY DEF Execute, Receives
  <2>2. QED
    BY <2>1, ConfirmedStill DEF IInv, Quiet
<1>3. UNCHANGED <<Sent, Done>> /\ \A q \in Ranks : SentBy(q)' = SentBy(q) /\ DoneAt(q)' = DoneAt(q)
  BY <1>1, <1>2, SameSets DEF Execute, Receives, TypeOK
<1>4. FramesInv'
  <2>1. \A q \in Ranks : q # r => outer'[q] = outer[q] /\ inner'[q] = inner[q] /\ mode'[q] = mode[q]
    BY <1>2 DEF Execute, Receives, TypeOK
  <2>2. \A n \in Msgs : st[n] = "executing" => st'[n] = "executing"
    BY <1>2 DEF Execute, TypeOK
  <2>3. /\ st'[m] = "executing" /\ dst'[m] = r /\ st[m] = "inflight"
        /\ inner[r] = None /\ dst' = dst /\ by' = by
    BY <1>2 DEF Execute, Receives, TypeOK
  <2>4. CASE mode[r] = "reduce"
    <3>1. outer[r] = None /\ outer'[r] = m /\ inner'[r] = None /\ mode'[r] = "drain"
      BY <2>4, <1>2 DEF IInv, ReduceEntryClean, Drained, Idle, Execute, Receives, TypeOK
    <3>2. QED
      BY <3>1, <2>1, <2>2, <2>3, <1>3, NoneAssumption DEF IInv, FramesInv, Progressing
  <2>5. CASE mode[r] # "reduce"
    <3>1. outer'[r] = outer[r] /\ inner'[r] = m /\ mode'[r] = mode[r]
          /\ mode[r] \in {"app", "flush", "drain"}
      BY <2>5, <1>2 DEF Execute, Receives, TypeOK, Modes
    <3>2. outer[r] # m
      BY <2>3 DEF IInv, FramesInv
    <3>3. QED
      BY <3>1, <3>2, <2>1, <2>2, <2>3, <1>3, NoneAssumption DEF IInv, FramesInv, Progressing
  <2>6. QED
    BY <2>4, <2>5
<1>5. CountersInv'
  BY <1>3, SameCounters DEF IInv, Execute
<1>6. ReduceEntryClean'
  BY <1>2 DEF IInv, ReduceEntryClean, Drained, Idle, Execute, Receives, TypeOK
<1>7. WaveInv' /\ DecisionInv'
  BY <1>2, SameWaves DEF IInv, Execute, Receives, TypeOK
<1>8. CutInv'
  BY <1>3, SameCuts DEF IInv, Execute
<1>9. OriginInv'
  BY <1>2, <1>3, SameOrigins, NoneAssumption DEF IInv, Execute, TypeOK
<1>10. ConfirmedQuiet'
  BY <1>2 DEF ConfirmedQuiet, Confirmed, Balanced, Execute
<1>11. QED
  BY <1>1, <1>4, <1>5, <1>6, <1>7, <1>8, <1>9, <1>10 DEF IInv

LEMMA ForwardIInv ==
  ASSUME IInv, NEW r \in Ranks, NEW m \in Msgs, Forward(r, m)
  PROVE  IInv'
<1> USE DEF rankVars, hookVars, frameVars, waveVars, history
<1>1. TypeOK'
  BY TypeNext DEF IInv, Next
<1>2. TypeOK /\ ~Confirmed
  <2>1. st[m] \notin {"unsent", "done"}
    BY DEF Forward, Receives
  <2>2. QED
    BY <2>1, ConfirmedStill DEF IInv, Quiet
<1>3. UNCHANGED <<Sent, Done>> /\ \A q \in Ranks : SentBy(q)' = SentBy(q) /\ DoneAt(q)' = DoneAt(q)
  BY <1>1, <1>2, SameSets DEF Forward, Receives, TypeOK
<1>4. FramesInv'
  BY <1>2, <1>3 DEF IInv, FramesInv, Forward, Receives, Progressing, TypeOK
<1>5. CountersInv'
  BY <1>3, SameCounters DEF IInv, Forward
<1>6. ReduceEntryClean'
  BY <1>2 DEF IInv, ReduceEntryClean, Drained, Idle, Forward, Receives, TypeOK
<1>7. WaveInv' /\ DecisionInv'
  BY <1>2, SameWaves DEF IInv, Forward, Receives, TypeOK
<1>8. CutInv'
  BY <1>3, SameCuts DEF IInv, Forward
<1>9. OriginInv'
  BY <1>3, SameOrigins DEF IInv, Forward
<1>10. ConfirmedQuiet'
  BY <1>2 DEF ConfirmedQuiet, Confirmed, Balanced, Forward
<1>11. QED
  BY <1>1, <1>4, <1>5, <1>6, <1>7, <1>8, <1>9, <1>10 DEF IInv

\* A handler m of rank r ends; frames holds what the two kinds of frame change.
LEMMA FinishIInv ==
  ASSUME IInv, NEW r \in Ranks, NEW m \in Msgs, TypeOK',
         st[m] = "executing", dst[m] = r,
         st' = [st EXCEPT ![m] = "done"],
         recvCount' = [recvCount EXCEPT ![r] = @ + 1],
         \/ inner[r] = m /\ inner' = [inner EXCEPT ![r] = None] /\ outer' = outer
         \/ outer[r] = m /\ outer' = [outer EXCEPT ![r] = None] /\ inner' = inner,
         UNCHANGED <<by, dst, at, unacked, mode, full, sendCount, cur, hookVars, waveVars, history>>
  PROVE  IInv'
<1> USE DEF hookVars, waveVars, history
<1>1. TypeOK /\ ~Confirmed
  BY ConfirmedStill DEF IInv, Quiet
<1>2. /\ m \notin Done /\ m \in Sent /\ Sent' = Sent /\ Done' = Done \cup {m}
      /\ \A q \in Ranks : SentBy(q)' = SentBy(q)
      /\ DoneAt(r)' = DoneAt(r) \cup {m} /\ m \notin DoneAt(r)
      /\ \A q \in Ranks : q # r => DoneAt(q)' = DoneAt(q)
  BY <1>1, FinishSets
<1>3. FramesInv'
  <2>1. \A n \in Msgs : n # m => st'[n] = st[n]
    BY <1>1 DEF TypeOK
  <2>2. \A q \in Ranks : inner'[q] # m /\ outer'[q] # m
    BY <1>1, NoneAssumption DEF IInv, FramesInv, TypeOK
  <2>3. \A q \in Ranks : inner'[q] \in {inner[q], None} /\ outer'[q] \in {outer[q], None}
    BY <1>1 DEF TypeOK
  <2>4. QED
    BY <1>2, <2>1, <2>2, <2>3, NoneAssumption DEF IInv, FramesInv, Progressing
<1>4. CountersInv'
  <2>1. IsFiniteSet(DoneAt(r))
    BY FiniteMsgs DEF DoneAt, Done
  <2>2. Cardinality(DoneAt(r)') = Cardinality(DoneAt(r)) + 1
    BY <2>1, <1>2, FS_AddElement
  <2>3. CountersInv /\ recvCount \in [Ranks -> Nat]
    BY DEF IInv, TypeOK
  <2>4. QED
    BY <2>2, <2>3, <1>2 DEF CountersInv
<1>5. ReduceEntryClean'
  BY <1>1 DEF IInv, FramesInv, ReduceEntryClean, Drained, Idle, TypeOK
<1>6. WaveInv' /\ DecisionInv'
  BY <1>1, SameWaves DEF IInv
<1>7. CutInv'
  BY <1>2 DEF IInv, CutInv
<1>8. OriginInv'
  BY <1>1, <1>2, SameOrigins, NoneAssumption DEF IInv, TypeOK
<1>9. ConfirmedQuiet'
  BY <1>1 DEF ConfirmedQuiet, Confirmed, Balanced
<1>10. QED
  BY <1>3, <1>4, <1>5, <1>6, <1>7, <1>8, <1>9 DEF IInv

LEMMA FinishInnerIInv ==
  ASSUME IInv, NEW r \in Ranks, FinishInner(r)
  PROVE  IInv'
<1>1. TypeOK /\ TypeOK'
  BY TypeNext DEF IInv, Next
<1>2. inner[r] \in Msgs /\ st[inner[r]] = "executing" /\ dst[inner[r]] = r
  BY <1>1 DEF IInv, FramesInv, FinishInner, TypeOK
<1>3. QED
  BY <1>1, <1>2, FinishIInv DEF FinishInner

LEMMA FinishOuterIInv ==
  ASSUME IInv, NEW r \in Ranks, FinishOuter(r)
  PROVE  IInv'
<1>1. TypeOK /\ TypeOK'
  BY TypeNext DEF IInv, Next
<1>2. outer[r] \in Msgs /\ st[outer[r]] = "executing" /\ dst[outer[r]] = r
  BY DEF IInv, FramesInv, FinishOuter
<1>3. QED
  BY <1>1, <1>2, FinishIInv DEF FinishOuter

LEMMA StartHookIInv ==
  ASSUME IInv, NEW r \in Ranks, StartHook(r)
  PROVE  IInv'
<1> USE DEF rankVars, hookVars, frameVars, msgVars, waveVars, history
<1>1. TypeOK'
  BY TypeNext DEF IInv, Next
<1>2. TypeOK /\ ~Confirmed
  BY ConfirmedStill DEF IInv, Quiet, StartHook, TypeOK
<1>3. UNCHANGED <<Sent, Done>> /\ \A q \in Ranks : SentBy(q)' = SentBy(q) /\ DoneAt(q)' = DoneAt(q)
  BY DEF StartHook, Sent, Done, SentBy, DoneAt
<1>4. FramesInv'
  BY <1>2, <1>3, NoneAssumption DEF IInv, FramesInv, StartHook, Idle, Progressing, TypeOK
<1>5. CountersInv'
  BY <1>3, SameCounters DEF IInv, StartHook
<1>6. ReduceEntryClean'
  BY <1>2 DEF IInv, ReduceEntryClean, Drained, Idle, StartHook, TypeOK
<1>7. WaveInv' /\ DecisionInv'
  BY <1>2, SameWaves DEF IInv, StartHook
<1>8. CutInv'
  BY <1>3, SameCuts DEF IInv, StartHook
<1>9. OriginInv'
  BY <1>2, <1>3, SameOrigins DEF IInv, StartHook, TypeOK
<1>10. ConfirmedQuiet'
  BY <1>2 DEF ConfirmedQuiet, Confirmed, Balanced, StartHook
<1>11. QED
  BY <1>1, <1>4, <1>5, <1>6, <1>7, <1>8, <1>9, <1>10 DEF IInv

LEMMA FinishHookIInv ==
  ASSUME IInv, NEW r \in Ranks, FinishHook(r)
  PROVE  IInv'
<1> USE DEF rankVars, hookVars, frameVars, msgVars, waveVars, history
<1>1. TypeOK'
  BY TypeNext DEF IInv, Next
<1>2. TypeOK /\ ~Confirmed
  BY ConfirmedStill, NoneAssumption DEF IInv, Quiet, Idle, FinishHook
<1>3. UNCHANGED <<Sent, Done>> /\ \A q \in Ranks : SentBy(q)' = SentBy(q) /\ DoneAt(q)' = DoneAt(q)
  BY DEF FinishHook, Sent, Done, SentBy, DoneAt
<1>4. FramesInv'
  BY <1>2, <1>3, NoneAssumption DEF IInv, FramesInv, FinishHook, Progressing, TypeOK
<1>5. CountersInv'
  BY <1>3, SameCounters DEF IInv, FinishHook
<1>6. ReduceEntryClean'
  BY <1>2 DEF IInv, ReduceEntryClean, Drained, Idle, FinishHook, TypeOK
<1>7. WaveInv' /\ DecisionInv'
  BY <1>2, SameWaves DEF IInv, FinishHook
<1>8. CutInv'
  BY <1>3, SameCuts DEF IInv, FinishHook
<1>9. OriginInv'
  BY <1>2, <1>3, SameOrigins, NoneAssumption DEF IInv, FinishHook, TypeOK
<1>10. ConfirmedQuiet'
  BY <1>2 DEF ConfirmedQuiet, Confirmed, Balanced, FinishHook
<1>11. QED
  BY <1>1, <1>4, <1>5, <1>6, <1>7, <1>8, <1>9, <1>10 DEF IInv

LEMMA EnterIInv ==
  ASSUME IInv, NEW r \in Ranks, NEW f \in BOOLEAN, Enter(r, f)
  PROVE  IInv'
<1> USE DEF hookVars, frameVars, msgVars, waveVars, history
<1>1. TypeOK'
  BY TypeNext DEF IInv, Next
<1>2. TypeOK /\ waves = 0
  BY DEF IInv, TypeOK, WaveInv, AllInside, Enter
<1>3. UNCHANGED <<Sent, Done>> /\ \A q \in Ranks : SentBy(q)' = SentBy(q) /\ DoneAt(q)' = DoneAt(q)
  BY DEF Enter, Sent, Done, SentBy, DoneAt
<1>4. FramesInv'
  BY <1>2, <1>3 DEF IInv, FramesInv, Enter, Idle, Progressing, TypeOK
<1>5. CountersInv'
  BY <1>3, SameCounters DEF IInv, Enter
<1>6. ReduceEntryClean'
  BY <1>2 DEF IInv, ReduceEntryClean, Drained, Idle, Enter, TypeOK
<1>7. WaveInv' /\ DecisionInv'
  BY <1>2 DEF IInv, WaveInv, DecisionInv, Confirmed, Enter, TypeOK
<1>8. CutInv'
  BY <1>3, SameCuts DEF IInv, Enter
<1>9. OriginInv'
  BY <1>3, SameOrigins DEF IInv, Enter
<1>10. ConfirmedQuiet'
  BY <1>2 DEF ConfirmedQuiet, Confirmed, Enter
<1>11. QED
  BY <1>1, <1>4, <1>5, <1>6, <1>7, <1>8, <1>9, <1>10 DEF IInv

\* A rank without outstanding work joins a wave: the snapshot stays between the
\* cuts, and the rank is not the origin of anything new.
LEMMA PostCuts ==
  ASSUME IInv, NEW r \in Ranks, r \notin posted, Drained(r), Post(r),
         UNCHANGED <<hooks, outer, st, by, dst, total, waves, cutR, cutS>>
  PROVE  CutInv' /\ OriginInv'
<1>1. UNCHANGED <<Sent, Done>> /\ \A q \in Ranks : SentBy(q)' = SentBy(q) /\ DoneAt(q)' = DoneAt(q)
  BY DEF Sent, Done, SentBy, DoneAt
<1>2. TypeOK /\ CountersInv /\ CutInv
  BY DEF IInv
<1>3. IsFiniteSet(snapR) /\ IsFiniteSet(snapS) /\ IsFiniteSet(DoneAt(r)) /\ IsFiniteSet(SentBy(r))
  BY <1>2, FiniteMsgs DEF TypeOK, DoneAt, SentBy, Done, Sent
<1>4. snapR \cap DoneAt(r) = {} /\ snapS \cap SentBy(r) = {}
  BY <1>2 DEF CutInv, DoneAt, SentBy
<1>5. acc' = <<Cardinality(snapR'), Cardinality(snapS')>>
  <2>1. Cardinality(snapR \cup DoneAt(r)) = Cardinality(snapR) + Cardinality(DoneAt(r))
    BY <1>3, <1>4, DisjointSize
  <2>2. Cardinality(snapS \cup SentBy(r)) = Cardinality(snapS) + Cardinality(SentBy(r))
    BY <1>3, <1>4, DisjointSize
  <2>3. QED
    BY <2>1, <2>2, <1>2 DEF Post, CutInv, CountersInv
<1>6. CutInv'
  BY <1>1, <1>2, <1>5 DEF CutInv, Post, DoneAt, SentBy
<1>7. OriginInv'
  <2> SUFFICES ASSUME SeenNothingNew' PROVE OriginInv'
    BY DEF OriginInv
  <2>1. SeenNothingNew /\ SentBy(r) \subseteq cutS
    BY DEF SeenNothingNew, Post
  <2>2. Sent # cutS => \E m \in Sent \ cutS : by[m] \notin posted \cup {r}
    BY <2>1 DEF IInv, OriginInv, SentBy
  <2>3. hooks[r] = 0 /\ outer[r] # Callback
    BY NoneAssumption DEF Drained, Idle
  <2>4. QED
    BY <1>1, <2>1, <2>2, <2>3 DEF IInv, OriginInv, Post
<1>8. QED
  BY <1>6, <1>7

LEMMA StartWaveIInv ==
  ASSUME IInv, NEW r \in Ranks, StartWave(r)
  PROVE  IInv'
<1> USE DEF hookVars, frameVars, msgVars
<1>1. TypeOK'
  BY TypeNext DEF IInv, Next
<1>2. TypeOK /\ r \notin posted /\ r \notin ready
  BY DEF IInv, WaveInv, StartWave
<1>3. UNCHANGED <<Sent, Done>> /\ \A q \in Ranks : SentBy(q)' = SentBy(q) /\ DoneAt(q)' = DoneAt(q)
  BY DEF StartWave, Sent, Done, SentBy, DoneAt
<1>4. FramesInv'
  BY <1>2, <1>3 DEF IInv, FramesInv, StartWave, Drained, Idle, Progressing, TypeOK
<1>5. CountersInv'
  BY <1>3, SameCounters DEF IInv, StartWave
<1>6. ReduceEntryClean'
  BY <1>2 DEF IInv, ReduceEntryClean, Drained, Idle, StartWave, TypeOK
<1>7. WaveInv' /\ DecisionInv'
  BY <1>2 DEF IInv, WaveInv, DecisionInv, Confirmed, Balanced, AllInside, StartWave, Post, TypeOK
<1>8. CutInv' /\ OriginInv'
  BY <1>2, PostCuts DEF StartWave
<1>9. ConfirmedQuiet'
  BY DEF IInv, ConfirmedQuiet, Confirmed, Balanced, Quiet, Idle, StartWave
<1>10. QED
  BY <1>1, <1>4, <1>5, <1>6, <1>7, <1>8, <1>9 DEF IInv

LEMMA ResumeWaveIInv ==
  ASSUME IInv, NEW r \in Ranks, ResumeWave(r)
  PROVE  IInv'
<1> USE DEF hookVars, frameVars, msgVars, waveVars, history
<1>1. TypeOK'
  BY TypeNext DEF IInv, Next
<1>2. TypeOK
  BY DEF IInv
<1>3. UNCHANGED <<Sent, Done>> /\ \A q \in Ranks : SentBy(q)' = SentBy(q) /\ DoneAt(q)' = DoneAt(q)
  BY DEF ResumeWave, Sent, Done, SentBy, DoneAt
<1>4. FramesInv'
  BY <1>2, <1>3 DEF IInv, FramesInv, ResumeWave, Drained, Idle, Progressing, TypeOK
<1>5. CountersInv'
  BY <1>3, SameCounters DEF IInv, ResumeWave
<1>6. ReduceEntryClean'
  BY <1>2 DEF IInv, ReduceEntryClean, Drained, Idle, ResumeWave, TypeOK
<1>7. WaveInv' /\ DecisionInv'
  BY <1>2, SameWaves DEF IInv, ResumeWave
<1>8. CutInv'
  BY <1>3, SameCuts DEF IInv, ResumeWave
<1>9. OriginInv'
  BY <1>3, SameOrigins DEF IInv, ResumeWave
<1>10. ConfirmedQuiet'
  BY DEF IInv, ConfirmedQuiet, Confirmed, Balanced, Quiet, Idle, ResumeWave
<1>11. QED
  BY <1>1, <1>4, <1>5, <1>6, <1>7, <1>8, <1>9, <1>10 DEF IInv

\* The counting argument.  When a wave completes with the balanced sums of the
\* wave before it, the cut between the two waves had everything sent executed,
\* and nothing was sent since.
LEMMA CountedQuiet ==
  ASSUME IInv, posted = Ranks, waves > 0, acc = total, Balanced(total)
  PROVE  Quiet
<1>1. TypeOK /\ CutInv
  BY DEF IInv
<1>2. cutR \subseteq snapR /\ cutS \subseteq snapS
  BY <1>1 DEF CutInv, TypeOK, IInv, FramesInv, Sent, Done
<1>3. /\ Cardinality(cutR) <= Cardinality(snapR) /\ Cardinality(cutS) <= Cardinality(snapS)
      /\ Cardinality(cutR) \in Nat /\ Cardinality(cutS) \in Nat
      /\ Cardinality(snapR) \in Nat /\ Cardinality(snapS) \in Nat
  BY <1>1, <1>2, SameSize, FiniteMsgs DEF TypeOK
<1>4. /\ Cardinality(cutR) = Cardinality(snapR) /\ Cardinality(cutS) = Cardinality(snapS)
      /\ Cardinality(cutR) = Cardinality(cutS)
  BY <1>1, <1>3 DEF CutInv, Balanced
<1>5. cutR = cutS /\ cutS = snapS
  BY <1>1, <1>2, <1>4, SameSize DEF CutInv, TypeOK
<1>6. SeenNothingNew
  BY <1>5 DEF SeenNothingNew
<1>7. Sent = cutS
  BY <1>6 DEF IInv, OriginInv, FramesInv
<1>8. \A m \in Msgs : st[m] \in {"unsent", "done"}
  BY <1>1, <1>5, <1>7 DEF CutInv, Sent, Done
<1>9. \A r \in Ranks : hooks[r] = 0 /\ outer[r] # Callback
  BY <1>1, <1>6, <1>7 DEF IInv, OriginInv, TypeOK
<1>10. \A r \in Ranks : outer[r] \notin Msgs /\ inner[r] \notin Msgs
  BY <1>8 DEF IInv, FramesInv
<1>11. QED
  BY <1>1, <1>8, <1>9, <1>10 DEF Quiet, Idle, TypeOK

LEMMA CompleteWaveIInv ==
  ASSUME IInv, CompleteWave
  PROVE  IInv'
<1> USE DEF rankVars, hookVars, frameVars, msgVars
<1>1. TypeOK'
  BY TypeNext DEF IInv, Next
<1>2. TypeOK /\ ready = {} /\ \A r \in Ranks : mode[r] \in {"reduce", "drain"}
  BY DEF IInv, WaveInv, CompleteWave
<1>3. UNCHANGED <<Sent, Done>> /\ \A q \in Ranks : SentBy(q)' = SentBy(q) /\ DoneAt(q)' = DoneAt(q)
  BY DEF CompleteWave, Sent, Done, SentBy, DoneAt
<1>4. FramesInv'
  BY <1>3 DEF IInv, FramesInv, CompleteWave, Progressing
<1>5. CountersInv'
  BY <1>3, SameCounters DEF IInv, CompleteWave
<1>6. ReduceEntryClean'
  BY DEF IInv, ReduceEntryClean, Drained, Idle, CompleteWave
<1>7. WaveInv'
  BY <1>2 DEF IInv, WaveInv, AllInside, CompleteWave, TypeOK
<1>8. DecisionInv'
  BY <1>2 DEF DecisionInv, CompleteWave
<1>9. CutInv'
  <2>1. CutInv /\ snapR \in SUBSET Done /\ snapS \in SUBSET Sent
    BY DEF IInv, CutInv
  <2>2. Done \in SUBSET Msgs /\ Sent \in SUBSET Msgs /\ Done \subseteq Sent
    BY DEF Done, Sent
  <2>3. Cardinality(snapR) <= Cardinality(Done) /\ Cardinality(snapS) <= Cardinality(Sent)
    BY <2>1, <2>2, SameSize
  <2>4. QED
    BY <1>3, <2>1, <2>2, <2>3, FS_EmptySet DEF CompleteWave, CutInv
<1>10. OriginInv'
  BY <1>3 DEF OriginInv, CompleteWave
<1>11. ConfirmedQuiet'
  <2> SUFFICES ASSUME Confirmed' PROVE Quiet'
    BY DEF ConfirmedQuiet
  <2>1. waves > 0 /\ acc = total /\ Balanced(total)
    BY <1>2 DEF Confirmed, Balanced, CompleteWave, TypeOK
  <2>2. Quiet
    BY <2>1, CountedQuiet DEF CompleteWave
  <2>3. QED
    BY <2>2 DEF Quiet, Idle, CompleteWave
<1>12. QED
  BY <1>1, <1>4, <1>5, <1>6, <1>7, <1>8, <1>9, <1>10, <1>11 DEF IInv

LEMMA ConfirmIInv ==
  ASSUME IInv, NEW r \in Ranks, Confirm(r)
  PROVE  IInv'
<1> USE DEF hookVars, frameVars, msgVars, history
<1>1. TypeOK'
  BY TypeNext DEF IInv, Next
<1>2. TypeOK /\ r \in ready /\ r \notin posted
  BY DEF IInv, WaveInv, Confirm, Learn
<1>3. Confirmed
  BY <1>2 DEF IInv, WaveInv, Confirm, Learn, Confirmed, Balanced, NoCounts, TypeOK
<1>4. UNCHANGED <<Sent, Done>> /\ \A q \in Ranks : SentBy(q)' = SentBy(q) /\ DoneAt(q)' = DoneAt(q)
  BY DEF Confirm, Sent, Done, SentBy, DoneAt
<1>5. FramesInv'
  BY <1>2, <1>4 DEF IInv, FramesInv, ReduceEntryClean, Drained, Idle, Confirm, Learn, Progressing,
                    TypeOK
<1>6. CountersInv'
  BY <1>4, SameCounters DEF IInv, Confirm
<1>7. ReduceEntryClean'
  BY <1>2 DEF IInv, ReduceEntryClean, Drained, Idle, Confirm, Learn, TypeOK
<1>8. WaveInv'
  BY <1>2, <1>3 DEF IInv, WaveInv, AllInside, Confirmed, Confirm, Learn, TypeOK
<1>9. DecisionInv'
  BY <1>2, <1>3 DEF IInv, DecisionInv, Confirmed, Balanced, Confirm, Learn, TypeOK
<1>10. CutInv'
  BY <1>4, SameCuts DEF IInv, Confirm
<1>11. OriginInv'
  BY <1>4, SameOrigins DEF IInv, Confirm
<1>12. ConfirmedQuiet'
  BY DEF IInv, ConfirmedQuiet, Confirmed, Balanced, Quiet, Idle, Confirm
<1>13. QED
  BY <1>1, <1>5, <1>6, <1>7, <1>8, <1>9, <1>10, <1>11, <1>12 DEF IInv

LEMMA RecountIInv ==
  ASSUME IInv, NEW r \in Ranks, Recount(r)
  PROVE  IInv'
<1> USE DEF hookVars, frameVars, msgVars
<1>1. TypeOK'
  BY TypeNext DEF IInv, Next
<1>2. TypeOK /\ r \in ready /\ r \notin posted /\ Drained(r)
  BY DEF IInv, WaveInv, ReduceEntryClean, Recount, Learn
<1>3. ~Confirmed
  BY <1>2 DEF IInv, WaveInv, Recount, Learn, Confirmed
<1>4. UNCHANGED <<Sent, Done>> /\ \A q \in Ranks : SentBy(q)' = SentBy(q) /\ DoneAt(q)' = DoneAt(q)
  BY DEF Recount, Sent, Done, SentBy, DoneAt
<1>5. FramesInv'
  BY <1>4 DEF IInv, FramesInv, Recount, Progressing
<1>6. CountersInv'
  BY <1>4, SameCounters DEF IInv, Recount
<1>7. ReduceEntryClean'
  BY DEF IInv, ReduceEntryClean, Drained, Idle, Recount
<1>8. WaveInv'
  BY <1>2 DEF IInv, WaveInv, AllInside, Recount, Learn, Post, TypeOK
<1>9. DecisionInv'
  BY <1>3 DEF IInv, DecisionInv, Confirmed, Balanced, Recount
<1>10. CutInv' /\ OriginInv'
  BY <1>2, PostCuts DEF Recount
<1>11. ConfirmedQuiet'
  BY <1>3 DEF ConfirmedQuiet, Confirmed, Balanced, Recount
<1>12. QED
  BY <1>1, <1>5, <1>6, <1>7, <1>8, <1>9, <1>10, <1>11 DEF IInv

LEMMA ReflushIInv ==
  ASSUME IInv, NEW r \in Ranks, Reflush(r)
  PROVE  IInv'
<1> USE DEF hookVars, frameVars, msgVars, history
<1>1. TypeOK'
  BY TypeNext DEF IInv, Next
<1>2. TypeOK /\ r \in ready /\ r \notin posted
  BY DEF IInv, WaveInv, Reflush, Learn
<1>3. ~Confirmed
  BY DEF Reflush, Confirmed
<1>4. UNCHANGED <<Sent, Done>> /\ \A q \in Ranks : SentBy(q)' = SentBy(q) /\ DoneAt(q)' = DoneAt(q)
  BY DEF Reflush, Sent, Done, SentBy, DoneAt
<1>5. FramesInv'
  BY <1>2, <1>4 DEF IInv, FramesInv, Reflush, Progressing, TypeOK
<1>6. CountersInv'
  BY <1>4, SameCounters DEF IInv, Reflush
<1>7. ReduceEntryClean'
  BY <1>2 DEF IInv, ReduceEntryClean, Drained, Idle, Reflush, TypeOK
<1>8. WaveInv'
  BY <1>2 DEF IInv, WaveInv, AllInside, Reflush, Learn, TypeOK
<1>9. DecisionInv'
  BY <1>2, <1>3 DEF IInv, DecisionInv, Confirmed, Balanced, Reflush, TypeOK
<1>10. CutInv'
  BY <1>4, SameCuts DEF IInv, Reflush
<1>11. OriginInv'
  BY <1>4, SameOrigins DEF IInv, Reflush
<1>12. ConfirmedQuiet'
  BY <1>3 DEF ConfirmedQuiet, Confirmed, Balanced, Reflush
<1>13. QED
  BY <1>1, <1>5, <1>6, <1>7, <1>8, <1>9, <1>10, <1>11, <1>12 DEF IInv

LEMMA VoteIInv ==
  ASSUME IInv, Vote
  PROVE  IInv'
<1> USE DEF hookVars, frameVars, msgVars
<1>1. TypeOK'
  BY TypeNext DEF IInv, Next
<1>2. TypeOK /\ posted = {} /\ ready = {}
  BY DEF IInv, TypeOK, WaveInv, Vote
<1>3. UNCHANGED <<Sent, Done>> /\ \A q \in Ranks : SentBy(q)' = SentBy(q) /\ DoneAt(q)' = DoneAt(q)
  BY DEF Vote, Sent, Done, SentBy, DoneAt
<1>4. FramesInv'
  BY <1>3 DEF IInv, FramesInv, ReduceEntryClean, Drained, Idle, Vote
<1>5. CountersInv'
  BY <1>3, SameCounters DEF IInv, Vote
<1>6. ReduceEntryClean'
  BY DEF ReduceEntryClean, Vote
<1>7. WaveInv' /\ DecisionInv'
  BY <1>2 DEF WaveInv, DecisionInv, Confirmed, Vote
<1>8. CutInv'
  BY <1>2, <1>3 DEF IInv, CutInv, Vote
<1>9. OriginInv'
  BY <1>2, <1>3 DEF OriginInv, Vote
<1>10. ConfirmedQuiet'
  BY DEF ConfirmedQuiet, Confirmed, Vote
<1>11. QED
  BY <1>1, <1>4, <1>5, <1>6, <1>7, <1>8, <1>9, <1>10 DEF IInv

LEMMA NextIInv == IInv /\ [Next]_vars => IInv'
<1> SUFFICES ASSUME IInv, [Next]_vars PROVE IInv'
  OBVIOUS
<1>1. ASSUME UNCHANGED vars PROVE IInv'
  <2> USE <1>1 DEF vars, rankVars, hookVars, frameVars, msgVars, waveVars, history
  <2>1. UNCHANGED <<Sent, Done>> /\ \A q \in Ranks : SentBy(q)' = SentBy(q) /\ DoneAt(q)' = DoneAt(q)
    BY DEF Sent, Done, SentBy, DoneAt
  <2>2. TypeOK' /\ FramesInv'
    BY <2>1, TypeNext DEF IInv, FramesInv, Progressing
  <2>3. CountersInv' /\ CutInv'
    BY <2>1, SameCounters, SameCuts DEF IInv
  <2>4. ReduceEntryClean' /\ WaveInv' /\ DecisionInv'
    BY DEF IInv, ReduceEntryClean, Drained, Idle, WaveInv, DecisionInv, AllInside, Confirmed, Balanced
  <2>5. OriginInv'
    BY <2>1, SameOrigins DEF IInv
  <2>6. ConfirmedQuiet'
    BY DEF IInv, ConfirmedQuiet, Confirmed, Balanced, Quiet, Idle
  <2>7. QED
    BY <2>2, <2>3, <2>4, <2>5, <2>6 DEF IInv
<1>2. QED
  BY <1>1, AsyncIInv, RegisterHookIInv, FlushIInv, SendCompletesIInv, ExecuteIInv, ForwardIInv,
     FinishInnerIInv, FinishOuterIInv, StartHookIInv, FinishHookIInv, EnterIInv, StartWaveIInv,
     ResumeWaveIInv, CompleteWaveIInv, ConfirmIInv, RecountIInv, ReflushIInv, VoteIInv
  DEF Next

-----------------------------------------------------------------------------
\* The strengthened invariant holds of every reachable state.
THEOREM Inductive == Spec => []IInv
BY InitIInv, NextIInv, PTL DEF Spec

\* No rank leaves the counting loop while work is outstanding anywhere.
THEOREM QuiescentAtVote == Spec => []BarrierQuiescent
<1>1. IInv => BarrierQuiescent
  BY DEF IInv, DecisionInv, ConfirmedQuiet, BarrierQuiescent
<1>2. QED
  BY <1>1, Inductive, PTL

\* The assertions on entry to barrier_reduce_counts never fail.
THEOREM CleanAtReduce == Spec => []ReduceEntryClean
<1>1. IInv => ReduceEntryClean
  BY DEF IInv
<1>2. QED
  BY <1>1, Inductive, PTL

\* No two ranks wait in different collectives for each other.
THEOREM SameCollective == Spec => []CollectivesMatch
<1>1. IInv => CollectivesMatch
  BY DEF IInv, DecisionInv, WaveInv, Confirmed, CollectivesMatch, TypeOK
<1>2. QED
  BY <1>1, Inductive, PTL

-----------------------------------------------------------------------------
(***************************************************************************)
(* The barrier implements QuiescentBarrier.                                *)
(***************************************************************************)
Inside == {r \in Ranks : mode[r] # "app"}
Hooked == {r \in Ranks : hooks[r] > 0 \/ outer[r] = Callback}
Live == Sent \ Done
Fresh == Msgs \ Sent

\* A step that changes nothing the promise speaks of is a stutter.
LEMMA StutterStep ==
  ASSUME UNCHANGED <<Inside, full, Fresh, Live, Hooked>>
  PROVE  [Promise!Next]_(Promise!vars)
BY DEF Promise!vars, Inside, Hooked, Live, Fresh

\* User code runs on r only outside a barrier or on behalf of outstanding work.
LEMMA WorkHasCause ==
  ASSUME IInv, NEW r \in Ranks, UserCode(r)
  PROVE  Promise!CanWork(r)
<1>1. CASE mode[r] = "app" \/ outer[r] = Callback
  BY <1>1 DEF Promise!CanWork
<1>2. ASSUME NEW n \in Msgs, outer[r] = n \/ inner[r] = n PROVE Sent \ Done # {}
  BY <1>2 DEF IInv, FramesInv, Sent, Done
<1>3. QED
  BY <1>1, <1>2 DEF UserCode, Idle, IInv, TypeOK, Promise!CanWork

LEMMA PromiseInit == Init => Promise!Init
BY NoneAssumption DEF Init, Promise!Init, Sent, Done

LEMMA PromiseNext == IInv /\ [Next]_vars => [Promise!Next]_(Promise!vars)
<1> SUFFICES ASSUME IInv, [Next]_vars PROVE [Promise!Next]_(Promise!vars)
  OBVIOUS
<1> USE DEF rankVars, hookVars, frameVars, waveVars, history
<1>t. TypeOK /\ TypeOK'
  BY TypeNext DEF IInv
<1> DEFINE Kept == [Promise!Next]_(Promise!vars)
<1>1. ASSUME NEW r \in Ranks, NEW d \in Ranks, NEW m \in Msgs, Async(r, m, d) PROVE Kept
  <2>1. Promise!CanWork(r)
    BY <1>1, WorkHasCause DEF Async
  <2>2. m \notin Sent /\ Sent' = Sent \cup {m} /\ Done' = Done
    BY <1>1, <1>t, AsyncSets
  <2>3. Promise!Send(r, m)
    BY <1>1, <2>1, <2>2 DEF Promise!Send, Async, Done, Sent
  <2>4. QED
    BY <2>3 DEF Promise!Next
<1>2. ASSUME NEW r \in Ranks, RegisterHook(r) PROVE Kept
  <2>1. Promise!CanWork(r)
    BY <1>2, WorkHasCause DEF RegisterHook
  <2>2. Hooked' = Hooked \cup {r}
    BY <1>2, <1>t DEF RegisterHook, Hooked, TypeOK
  <2>3. Promise!Hook(r)
    BY <1>2, <2>1, <2>2 DEF Promise!Hook, RegisterHook, Hooked, msgVars, Sent, Done
  <2>4. QED
    BY <2>3 DEF Promise!Next
<1>3. ASSUME NEW r \in Ranks, NEW m \in Msgs, Flush(r, m) PROVE Kept
  <2>1. Sent' = Sent /\ Done' = Done
    BY <1>3, <1>t, SameSets DEF Flush, TypeOK
  <2>2. QED
    BY <1>3, <2>1, StutterStep DEF Flush, Inside, Hooked, Live, Fresh
<1>4. ASSUME NEW r \in Ranks, NEW m \in Msgs, SendCompletes(r, m) PROVE Kept
  BY <1>4, StutterStep DEF SendCompletes, Inside, Hooked, Live, Fresh, Sent, Done
<1>5. ASSUME NEW r \in Ranks, NEW m \in Msgs, Execute(r, m) PROVE Kept
  <2>1. Sent' = Sent /\ Done' = Done
    BY <1>5, <1>t, SameSets DEF Execute, Receives, TypeOK
  <2>2. Inside' = Inside
    BY <1>5, <1>t DEF Execute, Receives, Inside, TypeOK
  <2>3. Hooked' = Hooked
    BY <1>5, <1>t, NoneAssumption
       DEF Execute, Receives, Hooked, TypeOK, IInv, ReduceEntryClean, Drained, Idle
  <2>4. QED
    BY <1>5, <2>1, <2>2, <2>3, StutterStep DEF Execute, Live, Fresh
<1>6. ASSUME NEW r \in Ranks, NEW m \in Msgs, Forward(r, m) PROVE Kept
  <2>1. Sent' = Sent /\ Done' = Done
    BY <1>6, <1>t, SameSets DEF Forward, Receives, TypeOK
  <2>2. Inside' = Inside
    BY <1>6, <1>t DEF Forward, Receives, Inside, TypeOK
  <2>3. QED
    BY <1>6, <2>1, <2>2, StutterStep DEF Forward, Hooked, Live, Fresh
<1>7. ASSUME NEW r \in Ranks, FinishInner(r) PROVE Kept
  <2>1. inner[r] \in Msgs /\ st[inner[r]] = "executing" /\ dst[inner[r]] = r
    BY <1>7, <1>t DEF IInv, FramesInv, FinishInner, TypeOK
  <2>2. inner[r] \in Sent \ Done /\ Sent' = Sent /\ Done' = Done \cup {inner[r]}
    BY <1>7, <1>t, <2>1, FinishSets DEF FinishInner
  <2>3. Promise!Finish(inner[r])
    BY <1>7, <2>2 DEF Promise!Finish, FinishInner
  <2>4. QED
    BY <2>1, <2>3 DEF Promise!Next
<1>8. ASSUME NEW r \in Ranks, FinishOuter(r) PROVE Kept
  <2>1. outer[r] \in Msgs /\ st[outer[r]] = "executing" /\ dst[outer[r]] = r
    BY <1>8 DEF IInv, FramesInv, FinishOuter
  <2>2. outer[r] \in Sent \ Done /\ Sent' = Sent /\ Done' = Done \cup {outer[r]}
    BY <1>8, <1>t, <2>1, FinishSets DEF FinishOuter
  <2>3. Hooked' = Hooked
    BY <1>8, <1>t, NoneAssumption DEF FinishOuter, Hooked, TypeOK
  <2>4. Promise!Finish(outer[r])
    BY <1>8, <2>2, <2>3 DEF Promise!Finish, FinishOuter, Hooked
  <2>5. QED
    BY <2>1, <2>4 DEF Promise!Next
<1>9. ASSUME NEW r \in Ranks, StartHook(r) PROVE Kept
  <2>1. Hooked' = Hooked
    BY <1>9, <1>t DEF StartHook, Hooked, TypeOK
  <2>2. QED
    BY <1>9, <2>1, StutterStep DEF StartHook, Inside, Live, Fresh, msgVars, Sent, Done
<1>10. ASSUME NEW r \in Ranks, FinishHook(r) PROVE Kept
  <2>1. Hooked' = IF hooks[r] > 0 THEN Hooked ELSE Hooked \ {r}
    BY <1>10, <1>t, NoneAssumption DEF FinishHook, Hooked, TypeOK
  <2>2. CASE hooks[r] > 0
    BY <1>10, <2>1, <2>2, StutterStep DEF FinishHook, Inside, Live, Fresh, msgVars, Sent, Done
  <2>3. CASE ~(hooks[r] > 0)
    <3>1. Promise!Unhook(r)
      BY <1>10, <2>1, <2>3 DEF Promise!Unhook, FinishHook, Hooked, msgVars, Sent, Done
    <3>2. QED
      BY <3>1 DEF Promise!Next
  <2>4. QED
    BY <2>2, <2>3
<1>11. ASSUME NEW r \in Ranks, NEW f \in BOOLEAN, Enter(r, f) PROVE Kept
  <2>1. Inside' = Inside \cup {r} /\ r \notin Inside
    BY <1>11, <1>t DEF Enter, Inside, TypeOK
  <2>2. Promise!Enter(r, f)
    BY <1>11, <2>1 DEF Promise!Enter, Enter, Inside, msgVars, Sent, Done
  <2>3. QED
    BY <2>2 DEF Promise!Next
<1>12. ASSUME NEW r \in Ranks, StartWave(r) PROVE Kept
  <2>1. Inside' = Inside
    BY <1>12, <1>t DEF StartWave, Inside, TypeOK
  <2>2. QED
    BY <1>12, <2>1, StutterStep DEF StartWave, Hooked, Live, Fresh, msgVars, Sent, Done
<1>13. ASSUME NEW r \in Ranks, ResumeWave(r) PROVE Kept
  <2>1. Inside' = Inside
    BY <1>13, <1>t DEF ResumeWave, Inside, TypeOK
  <2>2. QED
    BY <1>13, <2>1, StutterStep DEF ResumeWave, Hooked, Live, Fresh, msgVars, Sent, Done
<1>14. CASE CompleteWave
  BY <1>14, StutterStep DEF CompleteWave, Inside, Hooked, Live, Fresh, msgVars, Sent, Done
<1>15. ASSUME NEW r \in Ranks, Confirm(r) PROVE Kept
  <2>1. Inside' = Inside
    BY <1>15, <1>t DEF Confirm, Learn, Inside, TypeOK
  <2>2. QED
    BY <1>15, <2>1, StutterStep DEF Confirm, Hooked, Live, Fresh, msgVars, Sent, Done
<1>16. ASSUME NEW r \in Ranks, Recount(r) PROVE Kept
  BY <1>16, StutterStep DEF Recount, Inside, Hooked, Live, Fresh, msgVars, Sent, Done
<1>17. ASSUME NEW r \in Ranks, Reflush(r) PROVE Kept
  <2>1. Inside' = Inside
    BY <1>17, <1>t DEF Reflush, Learn, Inside, TypeOK
  <2>2. QED
    BY <1>17, <2>1, StutterStep DEF Reflush, Hooked, Live, Fresh, msgVars, Sent, Done
<1>18. CASE Vote
  <2>1. Quiet
    BY <1>18, RanksAssumption DEF Vote, IInv, DecisionInv, ConfirmedQuiet
  <2>2. Live = {} /\ Hooked = {}
    BY <2>1, NoneAssumption DEF Quiet, Live, Hooked, Idle, Sent, Done
  <2>3. Inside = Ranks
    BY <1>18 DEF Vote, Inside
  <2>4. Inside' = IF \A r \in Ranks : full[r] THEN {} ELSE {r \in Ranks : full[r]}
    BY <1>18, <1>t DEF Vote, Inside, TypeOK
  <2>5. Promise!Release
    BY <1>18, <2>2, <2>3, <2>4
       DEF Promise!Release, Vote, Inside, Live, Hooked, msgVars, Sent, Done
  <2>6. QED
    BY <2>5 DEF Promise!Next
<1>19. CASE UNCHANGED vars
  BY <1>19, StutterStep DEF vars, Inside, Hooked, Live, Fresh, msgVars, Sent, Done
<1>20. QED
  BY <1>1, <1>2, <1>3, <1>4, <1>5, <1>6, <1>7, <1>8, <1>9, <1>10, <1>11, <1>12, <1>13,
     <1>14, <1>15, <1>16, <1>17, <1>18, <1>19 DEF Next

\* barrier() and async_barrier() keep their promise in every run.
THEOREM BarrierKeepsPromise == Spec => PromiseKept
BY PromiseInit, PromiseNext, Inductive, PTL DEF Spec, PromiseKept, Promise!Spec
=============================================================================
