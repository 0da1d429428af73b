--------------------------- MODULE CallbackProofs ---------------------------
(***************************************************************************)
(* Theorems about two components that leave work to the callbacks which    *)
(* they register with the next barrier: WorkQueue and, below,              *)
(* ReducingCache.  Both show that a barrier runs that work to its end.     *)
(*                                                                         *)
(* WorkQueue, for any number of ranks, items, insertions and collectives:  *)
(* when a barrier is over, all that was inserted is worked on once, or     *)
(* waits in the queue that a move is about to register.                    *)
(*                                                                         *)
(* An item that is due is done, in a message or in a queue (Conserved).  A *)
(* queue with items has a callback that is registered or running, unless a *)
(* move is constructing it (Flagged), and a move finds nothing in the      *)
(* queue that it fills (Moving, NetMoving).  So when no callback and no    *)
(* message is left, neither are items.                                     *)
(***************************************************************************)
EXTENDS WorkQueue, ProofFacts

-----------------------------------------------------------------------------
(***************************************************************************)
(* The inductive invariant.                                                *)
(***************************************************************************)
InHooks(h, w) == \E n \in DOMAIN h : h[n] = w

Types ==
  /\ policy \in Policies /\ live \in [Ranks -> SUBSET Queues]
  /\ queue \in [Queues -> [Ranks -> Seq(Int)]]
  /\ flag \in [Queues -> [Ranks -> BOOLEAN]]
  /\ hooks \in [Ranks -> Seq(Queues)]
  /\ at \in [Ranks -> {"app", "barrier", "work", "moving"}] /\ busy \in [Ranks -> Queues]
  /\ call \in Collectives
  /\ IsABag(due) /\ BagToSet(due) \subseteq Int /\ IsABag(done) /\ BagToSet(done) \subseteq Int
  /\ IsABag(net) /\ IsFiniteSet(BagToSet(net))
  /\ BagToSet(net) \subseteq [queue : Queues, to : Ranks, item : Int]

\* How often item i is in a bag, in the messages b, and in the queues x and y of
\* all ranks.
Count(b, i) == IF i \in DOMAIN b THEN b[i] ELSE 0
Tally(b, i) == SumFunctionOnSet([m \in BagToSet(b) |-> IF m.item = i THEN b[m] ELSE 0], BagToSet(b))
Stock(x, y, i) == SumFunctionOnSet([r \in Ranks |-> Occ(x[r], i) + Occ(y[r], i)], Ranks)

\* Each item that was inserted is done, on its way, or in a queue.
Conserved ==
  \A i \in Int :
    Count(due, i) = Count(done, i) + Tally(net, i) + Stock(queue["w"], queue["v"], i)

\* The second queue is under construction: what it has is not registered yet.
Moved(r) == (call = "move" /\ at[r] # "app") \/ at[r] = "moving"

Hooked(w, r) == InHooks(hooks[r], w) \/ (at[r] = "work" /\ busy[r] = w)

\* A queue with items has its flag, and one with its flag a callback, registered
\* or running.
Flagged(r) ==
  \A w \in Queues :
    /\ queue[w][r] # <<>> => flag[w][r] \/ (w = "v" /\ Moved(r))
    /\ flag[w][r] => Hooked(w, r)

\* Before and while the first queue is moved, the second has no callback, and no
\* items but those that were moved.
Moving(r) ==
  /\ at[r] = "moving" => queue["w"][r] = <<>> /\ call # "move"
  /\ call = "move" =>
       /\ live[r] = IF at[r] = "app" THEN {"w"} ELSE {}
       /\ at[r] = "app" => queue["v"][r] = <<>>
       /\ ~Hooked("v", r)

NetMoving == call = "move" => \A m \in BagToSet(net) : m.queue = "w"

IInv == Types /\ Conserved /\ NetMoving /\ \A r \in Ranks : Flagged(r) /\ Moving(r)

\* The queues that the model has, and the constants that it is for.
Bounds ==
  IsFiniteSet(Ranks) /\ Items \subseteq Int /\ Policies \subseteq {"fifo", "lifo", "priority"}

-----------------------------------------------------------------------------
(***************************************************************************)
(* Queues.                                                                 *)
(***************************************************************************)
\* The places of an item in a queue are finitely many.
LEMMA OccNat ==
  ASSUME NEW q \in Seq(Int), NEW i
  PROVE  IsFiniteSet({n \in DOMAIN q : q[n] = i}) /\ Occ(q, i) \in Nat
<1>1. DOMAIN q = 1..Len(q) /\ Len(q) \in Int /\ 1 \in Int
  OBVIOUS
<1>2. IsFiniteSet(1..Len(q))
  BY <1>1, FS_Interval
<1>3. {n \in DOMAIN q : q[n] = i} \in SUBSET (1..Len(q))
  BY <1>1
<1>4. IsFiniteSet({n \in DOMAIN q : q[n] = i})
  BY <1>2, <1>3, FS_Subset
<1>5. QED
  BY <1>4, FS_CardinalityType DEF Occ

\* An empty queue has no item, and one without items is empty.
LEMMA OccEmpty ==
  /\ \A i : Occ(<<>>, i) = 0
  /\ \A q \in Seq(Int) : (\A i \in Int : Occ(q, i) = 0) => q = <<>>
<1>1. ASSUME NEW i PROVE Occ(<<>>, i) = 0
  <2>1. {n \in DOMAIN <<>> : <<>>[n] = i} = {}
    OBVIOUS
  <2>2. QED
    BY <2>1, FS_EmptySet DEF Occ
<1>2. ASSUME NEW q \in Seq(Int), \A i \in Int : Occ(q, i) = 0 PROVE q = <<>>
  <2>1. SUFFICES ASSUME q # <<>> PROVE FALSE
    OBVIOUS
  <2>2. 1 \in DOMAIN q /\ q[1] \in Int
    BY <2>1
  <2>3. PICK i \in Int : i = q[1]
    BY <2>2
  <2> DEFINE D == {n \in DOMAIN q : q[n] = i}
  <2>4. IsFiniteSet(D) /\ 1 \in D
    BY <2>2, <2>3, OccNat
  <2>5. Cardinality(D) = 0
    BY <1>2 DEF Occ
  <2> HIDE DEF D
  <2>6. QED
    BY <2>4, <2>5, FS_EmptySet
<1>3. QED
  BY <1>1, <1>2

\* A queue has numbers only.
LEMMA OccOnly ==
  ASSUME NEW q \in Seq(Int), NEW i, i \notin Int
  PROVE  Occ(q, i) = 0
<1>1. {n \in DOMAIN q : q[n] = i} = {}
  OBVIOUS
<1>2. QED
  BY <1>1, FS_EmptySet DEF Occ

\* An item that is inserted.
LEMMA OccAppend ==
  ASSUME NEW q \in Seq(Int), NEW x \in Int, NEW i
  PROVE  /\ Append(q, x) \in Seq(Int) /\ Append(q, x) # <<>>
         /\ Occ(Append(q, x), i) = Occ(q, i) + (IF x = i THEN 1 ELSE 0)
<1> DEFINE D == {n \in DOMAIN q : q[n] = i}
           t == Append(q, x)
           E == {n \in DOMAIN t : t[n] = i}
           l == Len(q) + 1
<1>1. /\ t \in Seq(Int) /\ t # <<>> /\ DOMAIN t = 1..l /\ DOMAIN q = 1..Len(q) /\ l \in Nat
      /\ t[l] = x /\ \A n \in 1..Len(q) : t[n] = q[n]
  BY AppendProperties
<1> HIDE DEF t
<1>2. l \notin D
  BY <1>1
<1>3. E = IF x = i THEN D \cup {l} ELSE D
  <2>1. \A n : n \in 1..l <=> n \in 1..Len(q) \/ n = l
    BY <1>1
  <2> HIDE DEF l
  <2>2. QED
    BY <1>1, <2>1
<1>4. IsFiniteSet(D) /\ Cardinality(D) \in Nat /\ Occ(q, i) = Cardinality(D)
  BY OccNat DEF Occ
<1>5. Occ(t, i) = Cardinality(E)
  BY DEF Occ
<1> HIDE DEF D, E, l
<1>6. Cardinality(D \cup {l}) = Cardinality(D) + 1
  BY <1>2, <1>4, FS_AddElement
<1>7. Occ(t, i) = Occ(q, i) + (IF x = i THEN 1 ELSE 0)
  BY <1>3, <1>4, <1>5, <1>6
<1>8. QED
  BY <1>1, <1>7 DEF t

\* An item that is popped.
LEMMA OccRemove ==
  ASSUME NEW q \in Seq(Int), NEW p \in DOMAIN q, NEW i
  PROVE  /\ Without(q, p) \in Seq(Int) /\ q[p] \in Int
         /\ Occ(q, i) = Occ(Without(q, p), i) + (IF q[p] = i THEN 1 ELSE 0)
<1> DEFINE a == SubSeq(q, 1, p - 1)
           b == SubSeq(q, p + 1, Len(q))
           t == a \o b
<1>0. Len(q) \in Nat /\ DOMAIN q = 1..Len(q) /\ p \in 1..Len(q) /\ q[p] \in Int
  OBVIOUS
<1>1. a \in Seq(Int) /\ Len(a) = p - 1 /\ \A n \in 1..p - 1 : a[n] = q[n]
  <2>1. 1 \in 1..Len(q) + 1 /\ p - 1 \in 0..Len(q)
    BY <1>0
  <2>2. QED
    BY <1>0, <2>1, SubSeqProperties
<1>2. b \in Seq(Int) /\ Len(b) = Len(q) - p /\ \A n \in 1..Len(q) - p : b[n] = q[p + n]
  <2>1. p + 1 \in Int /\ Len(q) \in Int /\ \A n \in p + 1..Len(q) : q[n] \in Int
    BY <1>0
  <2>2. /\ b \in Seq(Int) /\ Len(b) = IF p + 1 <= Len(q) THEN Len(q) - (p + 1) + 1 ELSE 0
        /\ \A n \in 1..Len(q) - (p + 1) + 1 : b[n] = q[p + 1 + n - 1]
    BY <2>1, SubSeqProperties
  <2> HIDE DEF b
  <2>3. Len(b) = Len(q) - p
    BY <1>0, <2>2
  <2>4. ASSUME NEW n \in 1..Len(q) - p PROVE b[n] = q[p + n]
    <3>1. n \in 1..Len(q) - (p + 1) + 1 /\ p + 1 + n - 1 = p + n
      BY <1>0
    <3>2. QED
      BY <2>2, <3>1
  <2>5. QED
    BY <2>2, <2>3, <2>4
<1> HIDE DEF a, b
<1>3. /\ t \in Seq(Int) /\ Len(t) = Len(q) - 1
      /\ \A n \in 1..Len(q) - 1 : t[n] = IF n <= p - 1 THEN a[n] ELSE b[n - (p - 1)]
  <2>1. t \in Seq(Int) /\ Len(t) = Len(a) + Len(b)
        /\ \A n \in 1..Len(a) + Len(b) : t[n] = IF n <= Len(a) THEN a[n] ELSE b[n - Len(a)]
    BY <1>1, <1>2, ConcatProperties
  <2>2. Len(a) + Len(b) = Len(q) - 1
    BY <1>0, <1>1, <1>2
  <2> HIDE DEF t
  <2>3. QED
    BY <1>0, <1>1, <2>1, <2>2
<1> HIDE DEF t
<1>4. \A n \in 1..Len(q) - 1 : t[n] = q[IF n < p THEN n ELSE n + 1]
  <2>1. ASSUME NEW n \in 1..Len(q) - 1 PROVE t[n] = q[IF n < p THEN n ELSE n + 1]
    <3>1. CASE n < p
      <4>1. n \in 1..p - 1 /\ n <= p - 1
        BY <1>0, <3>1
      <4>2. QED
        BY <1>1, <1>3, <3>1, <4>1
    <3>2. CASE ~(n < p)
      <4>1. ~(n <= p - 1) /\ n - (p - 1) \in 1..Len(q) - p /\ p + (n - (p - 1)) = n + 1
        BY <1>0, <3>2
      <4>2. t[n] = b[n - (p - 1)]
        BY <1>3, <4>1
      <4>3. QED
        BY <1>2, <3>2, <4>1, <4>2
    <3>3. QED
      BY <3>1, <3>2
  <2>2. QED
    BY <2>1
<1> DEFINE D == {n \in DOMAIN q : q[n] = i}
           E == {n \in DOMAIN t : t[n] = i}
           f == [n \in E |-> IF n < p THEN n ELSE n + 1]
           F == D \ {p}
<1>5. DOMAIN t = 1..Len(q) - 1
  BY <1>3
<1>6. \A n \in E : f[n] \in F
  <2>1. ASSUME NEW n \in E PROVE f[n] \in F
    <3>1. n \in 1..Len(q) - 1 /\ q[IF n < p THEN n ELSE n + 1] = i
      BY <1>4, <1>5
    <3>2. PICK k \in 1..Len(q) : k = (IF n < p THEN n ELSE n + 1) /\ k # p
      BY <1>0, <3>1
    <3>3. k \in F /\ f[n] = k
      BY <1>0, <3>1, <3>2
    <3>4. QED
      BY <3>3
  <2>2. QED
    BY <2>1
<1>7. f \in [E -> F]
  BY <1>6
<1>8. \A n, m \in E : f[n] = f[m] => n = m
  <2>1. E \in SUBSET Int
    BY <1>5
  <2>2. QED
    BY <1>0, <2>1
<1>9. \A k \in F : \E n \in E : f[n] = k
  <2>1. ASSUME NEW k \in F PROVE \E n \in E : f[n] = k
    <3>1. k \in 1..Len(q) /\ k # p /\ q[k] = i
      BY <1>0
    <3>2. PICK n \in 1..Len(q) - 1 : k = IF n < p THEN n ELSE n + 1
      <4>1. CASE k < p
        <5>1. k \in 1..Len(q) - 1 /\ k = IF k < p THEN k ELSE k + 1
          BY <1>0, <3>1, <4>1
        <5>2. QED
          BY <5>1
      <4>2. CASE ~(k < p)
        <5>1. k - 1 \in 1..Len(q) - 1 /\ k = IF k - 1 < p THEN k - 1 ELSE k - 1 + 1
          BY <1>0, <3>1, <4>2
        <5>2. QED
          BY <5>1
      <4>3. QED
        BY <4>1, <4>2
    <3>3. n \in E
      BY <1>4, <1>5, <3>1, <3>2
    <3>4. QED
      BY <3>2, <3>3
  <2>2. QED
    BY <2>1
<1>10. IsFiniteSet(E) /\ IsFiniteSet(D) /\ Occ(t, i) = Cardinality(E) /\ Occ(q, i) = Cardinality(D)
       /\ Cardinality(D) \in Nat
  BY <1>3, OccNat DEF Occ
<1>11. p \in D <=> q[p] = i
  BY <1>0
<1> HIDE DEF D, E, f
<1>12. Cardinality(F) = Cardinality(E)
  <2> HIDE DEF F
  <2>1. QED
    BY <1>7, <1>8, <1>9, <1>10, CountBijection
<1>13. p \in D => Cardinality(F) = Cardinality(D) - 1
  BY <1>10, FS_RemoveElement
<1>14. p \notin D => F = D
  OBVIOUS
<1>15. Cardinality(E) \in Nat
  BY <1>10, FS_CardinalityType
<1> HIDE DEF F
<1>16. Occ(q, i) = Occ(t, i) + (IF q[p] = i THEN 1 ELSE 0)
  <2>1. CASE p \in D
    BY <1>10, <1>11, <1>12, <1>13, <1>15, <2>1
  <2>2. CASE p \notin D
    BY <1>10, <1>11, <1>12, <1>14, <1>15, <2>2
  <2>3. QED
    BY <2>1, <2>2
<1>17. Without(q, p) = t
  BY DEF Without, t, a, b
<1>18. QED
  BY <1>0, <1>3, <1>16, <1>17

\* A queue has a greatest item.
LEMMA Greatest ==
  ASSUME NEW q \in Seq(Int), q # <<>>
  PROVE  \E n \in DOMAIN q : \A k \in DOMAIN q : q[k] <= q[n]
<1>1. PICK L \in Nat : L = Len(q) /\ L # 0 /\ DOMAIN q = 1..L /\ \A k \in 1..L : q[k] \in Int
  OBVIOUS
<1> DEFINE G(l) == \E n \in 1..l : \A k \in 1..l : q[k] <= q[n]
           T == {l \in 1..L : ~G(l)}
<1>2. G(1)
  <2>1. 1 \in 1..1 /\ (\A k \in 1..1 : k = 1) /\ q[1] \in Int
    BY <1>1
  <2>2. QED
    BY <2>1
<1>3. ASSUME NEW m \in 1..L, m # 1, G(m - 1) PROVE G(m)
  <2>1. PICK n \in 1..m - 1 : \A k \in 1..m - 1 : q[k] <= q[n]
    BY <1>3
  <2>2. /\ n \in 1..m /\ m \in 1..m /\ n \in 1..L /\ \A k \in 1..m : k \in 1..m - 1 \/ k = m
    OBVIOUS
  <2>3. PICK x \in Int, y \in Int : x = q[m] /\ y = q[n]
    BY <1>1, <2>2
  <2>4. \A k \in 1..m - 1 : q[k] \in Int /\ q[k] <= y
    <3>1. \A k \in 1..m - 1 : k \in 1..L
      OBVIOUS
    <3>2. QED
      BY <1>1, <2>1, <2>3, <3>1
  <2>5. CASE x <= y
    BY <2>2, <2>3, <2>4, <2>5
  <2>6. CASE ~(x <= y)
    <3>1. \A k \in 1..m - 1 : q[k] <= x
      BY <2>3, <2>4, <2>6
    <3>2. \A k \in 1..m : q[k] <= q[m]
      BY <2>2, <2>3, <3>1
    <3>3. QED
      BY <2>2, <3>2
  <2>7. QED
    BY <2>5, <2>6
<1> HIDE DEF G
<1>4. T = {}
  <2>1. SUFFICES ASSUME T # {} PROVE FALSE
    OBVIOUS
  <2>2. T \in SUBSET Nat
    OBVIOUS
  <2>3. PICK m \in T : \A k \in T : m <= k
    BY <2>1, <2>2, NatMin
  <2>4. m \in 1..L /\ ~G(m) /\ m # 1
    BY <1>2
  <2>5. m - 1 \in 1..L /\ ~(m <= m - 1)
    BY <1>1, <2>4
  <2>6. G(m - 1)
    BY <2>3, <2>5
  <2>7. QED
    BY <1>3, <2>4, <2>6
<1>5. L \in 1..L
  BY <1>1
<1>6. G(L)
  BY <1>4, <1>5
<1>7. QED
  BY <1>1, <1>6 DEF G

\* Each policy takes an item of the queue.
LEMMA TopIn ==
  ASSUME Bounds, policy \in Policies, NEW q \in Seq(Int), q # <<>>
  PROVE  Top(q) \in DOMAIN q
<1>1. Len(q) \in Nat \ {0} /\ DOMAIN q = 1..Len(q)
  OBVIOUS
<1>2. policy \in {"fifo", "lifo", "priority"}
  BY DEF Bounds
<1>3. CASE policy = "fifo"
  BY <1>1, <1>3 DEF Top, fifo_policy
<1>4. CASE policy = "lifo"
  BY <1>1, <1>4 DEF Top, lifo_policy
<1>5. CASE policy = "priority"
  <2>1. Top(q) = CHOOSE n \in DOMAIN q : \A k \in DOMAIN q : q[k] <= q[n]
    BY <1>5 DEF Top, priority_policy
  <2>2. QED
    BY <2>1, Greatest
<1>6. QED
  BY <1>2, <1>3, <1>4, <1>5

-----------------------------------------------------------------------------
(***************************************************************************)
(* Bags.                                                                   *)
(***************************************************************************)
\* One more ...
LEMMA PlusBag ==
  ASSUME NEW b, NEW x, IsABag(b)
  PROVE  /\ IsABag(Plus(b, x)) /\ BagToSet(Plus(b, x)) = BagToSet(b) \cup {x}
         /\ \A y \in BagToSet(b) : y # x => Plus(b, x)[y] = b[y]
         /\ Plus(b, x)[x] = (IF x \in BagToSet(b) THEN b[x] ELSE 0) + 1
         /\ \A y \in BagToSet(b) : b[y] \in Nat \ {0}
BY DEF BagToSet, Plus, SetToBag, (+), IsABag

\* ... and one less.
LEMMA RestBag ==
  ASSUME NEW b, NEW x \in BagToSet(b), IsABag(b)
  PROVE  /\ IsABag(Rest(b, x))
         /\ BagToSet(Rest(b, x)) = IF b[x] = 1 THEN BagToSet(b) \ {x} ELSE BagToSet(b)
         /\ \A y \in BagToSet(b) : y # x => Rest(b, x)[y] = b[y]
         /\ b[x] # 1 => Rest(b, x)[x] = b[x] - 1
         /\ \A y \in BagToSet(b) : b[y] \in Nat \ {0}
<1>1. /\ IsABag(Rest(b, x))
      /\ BagToSet(Rest(b, x)) = IF b[x] = 1 THEN BagToSet(b) \ {x} ELSE BagToSet(b)
  BY DEF BagToSet, SetToBag, (-), IsABag, Rest
<1>2. QED
  BY <1>1 DEF BagToSet, SetToBag, (-), IsABag, Rest

\* How often an item is in a bag is a number, and one more when it is added.
LEMMA CountPlus ==
  ASSUME NEW b, NEW x, NEW i, IsABag(b)
  PROVE  /\ Count(b, i) \in Nat
         /\ Count(Plus(b, x), i) = Count(b, i) + (IF x = i THEN 1 ELSE 0)
<1>1. /\ BagToSet(Plus(b, x)) = BagToSet(b) \cup {x}
      /\ \A y \in BagToSet(b) : y # x => Plus(b, x)[y] = b[y]
      /\ Plus(b, x)[x] = (IF x \in BagToSet(b) THEN b[x] ELSE 0) + 1
      /\ \A y \in BagToSet(b) : b[y] \in Nat \ {0}
  BY PlusBag
<1>2. PICK p : p = Plus(b, x)
  OBVIOUS
<1>3. QED
  BY <1>1, <1>2 DEF Count, BagToSet

\* Bags in which each item is as often are equal.
LEMMA SameBag ==
  ASSUME NEW a, NEW b, IsABag(a), IsABag(b), \A i : Count(a, i) = Count(b, i)
  PROVE  a = b
<1>1. ASSUME NEW i PROVE i \in DOMAIN a <=> i \in DOMAIN b
  <2>1. Count(a, i) = Count(b, i)
    OBVIOUS
  <2>2. (i \in DOMAIN a => a[i] # 0) /\ (i \in DOMAIN b => b[i] # 0)
    BY DEF IsABag
  <2>3. QED
    BY <2>1, <2>2 DEF Count
<1>2. DOMAIN a = DOMAIN b
  BY <1>1
<1>3. \A i \in DOMAIN a : a[i] = b[i]
  <2>1. ASSUME NEW i \in DOMAIN a PROVE a[i] = b[i]
    <3>1. Count(a, i) = Count(b, i)
      OBVIOUS
    <3>2. QED
      BY <1>2, <3>1 DEF Count
  <2>2. QED
    BY <2>1
<1>4. a = [i \in DOMAIN a |-> a[i]] /\ b = [i \in DOMAIN b |-> b[i]]
  BY DEF IsABag
<1>5. QED
  BY <1>2, <1>3, <1>4

\* A queue as a bag.
LEMMA BagOfQueue ==
  ASSUME NEW q \in Seq(Int)
  PROVE  IsABag(BagOf(q)) /\ \A i : Count(BagOf(q), i) = Occ(q, i)
<1>1. ASSUME NEW i \in Range(q) PROVE Occ(q, i) \in Nat /\ Occ(q, i) > 0
  <2> DEFINE D == {n \in DOMAIN q : q[n] = i}
  <2>1. IsFiniteSet(D) /\ D # {} /\ Occ(q, i) = Cardinality(D) /\ Occ(q, i) \in Nat
    BY OccNat DEF Range, Occ
  <2> HIDE DEF D
  <2>2. Cardinality(D) # 0
    BY <2>1, FS_EmptySet
  <2>3. QED
    BY <2>1, <2>2
<1>2. ASSUME NEW i, i \notin Range(q) PROVE Occ(q, i) = 0
  <2>1. {n \in DOMAIN q : q[n] = i} = {}
    BY <1>2 DEF Range
  <2>2. QED
    BY <2>1, FS_EmptySet DEF Occ
<1>3. IsABag(BagOf(q))
  BY <1>1 DEF IsABag, BagOf
<1>4. \A i : Count(BagOf(q), i) = Occ(q, i)
  BY <1>2 DEF Count, BagOf
<1>5. QED
  BY <1>3, <1>4

\* Two bags together.
LEMMA CountUnion ==
  ASSUME NEW a, NEW b, IsABag(a), IsABag(b)
  PROVE  IsABag(a (+) b) /\ \A i : Count(a (+) b, i) = Count(a, i) + Count(b, i)
<1>1. (\A i \in DOMAIN a : a[i] \in Nat \ {0}) /\ \A i \in DOMAIN b : b[i] \in Nat \ {0}
  BY DEF IsABag
<1>2. PICK c : c = a (+) b
  OBVIOUS
<1>3. c = [i \in DOMAIN a \cup DOMAIN b |-> (IF i \in DOMAIN a THEN a[i] ELSE 0) + (IF i \in DOMAIN b THEN b[i] ELSE 0)]
  BY <1>2 DEF (+)
<1>4. IsABag(c)
  BY <1>1, <1>3 DEF IsABag
<1>5. \A i : Count(c, i) = Count(a, i) + Count(b, i)
  BY <1>1, <1>3 DEF Count
<1>6. QED
  BY <1>2, <1>4, <1>5

\* Items that are in a bag are taken out of it.
LEMMA CountLess ==
  ASSUME NEW a, NEW b, IsABag(a), IsABag(b), \A i : Count(b, i) <= Count(a, i)
  PROVE  /\ IsABag(a (-) b) /\ BagToSet(a (-) b) \subseteq BagToSet(a)
         /\ \A i : Count(a (-) b, i) = Count(a, i) - Count(b, i)
<1>1. (\A i \in DOMAIN a : a[i] \in Nat \ {0}) /\ \A i \in DOMAIN b : b[i] \in Nat \ {0}
  BY DEF IsABag
<1>2. PICK c : c = a (-) b
  OBVIOUS
<1>3. /\ DOMAIN c = {i \in DOMAIN a : (IF i \in DOMAIN b THEN a[i] - b[i] ELSE a[i]) > 0}
      /\ \A i \in DOMAIN c : c[i] = IF i \in DOMAIN b THEN a[i] - b[i] ELSE a[i]
      /\ c = [i \in DOMAIN c |-> c[i]]
  BY <1>2 DEF (-)
<1>4. IsABag(c) /\ BagToSet(c) \subseteq BagToSet(a)
  <2>1. \A i \in DOMAIN c : c[i] \in Nat /\ c[i] > 0
    BY <1>1, <1>3
  <2>2. QED
    BY <1>3, <2>1 DEF IsABag, BagToSet
<1>5. ASSUME NEW i PROVE Count(c, i) = Count(a, i) - Count(b, i)
  <2>1. Count(b, i) <= Count(a, i)
    OBVIOUS
  <2>2. CASE i \notin DOMAIN a
    <3>1. i \notin DOMAIN b
      BY <1>1, <2>1, <2>2 DEF Count
    <3>2. QED
      BY <1>3, <2>2, <3>1 DEF Count
  <2>3. CASE i \in DOMAIN a /\ i \in DOMAIN b
    BY <1>1, <1>3, <2>1, <2>3 DEF Count
  <2>4. CASE i \in DOMAIN a /\ i \notin DOMAIN b
    BY <1>1, <1>3, <2>1, <2>4 DEF Count
  <2>5. QED
    BY <2>2, <2>3, <2>4
<1>6. QED
  BY <1>2, <1>4, <1>5

-----------------------------------------------------------------------------
(***************************************************************************)
(* Messages, and the queues of all ranks.                                  *)
(***************************************************************************)
\* A message that is sent adds its item ...
LEMMA TallyPlus ==
  ASSUME NEW n, IsABag(n), IsFiniteSet(BagToSet(n)), NEW m, NEW i
  PROVE  /\ Tally(n, i) \in Nat
         /\ Tally(Plus(n, m), i) = Tally(n, i) + (IF m.item = i THEN 1 ELSE 0)
<1> DEFINE p == Plus(n, m)
           T == BagToSet(n)
           U == BagToSet(p)
           V == T \ {m}
           f == [x \in T |-> IF x.item = i THEN n[x] ELSE 0]
           g == [x \in U |-> IF x.item = i THEN p[x] ELSE 0]
           S(h, X) == SumFunctionOnSet(h, X)
           one == IF m.item = i THEN 1 ELSE 0
<1>1. /\ U = T \cup {m} /\ \A x \in T : x # m => p[x] = n[x]
      /\ p[m] = (IF m \in T THEN n[m] ELSE 0) + 1 /\ \A x \in T : n[x] \in Nat \ {0}
  BY PlusBag
<1>2. IsFiniteSet(U) /\ IsFiniteSet(V) /\ IsFiniteSet(T)
  BY <1>1, FS_AddElement, FS_Subset
<1>3. Tally(n, i) = S(f, T) /\ Tally(p, i) = S(g, U)
  BY DEF Tally
<1> HIDE DEF p, T, U
<1>4. (\A x \in T : f[x] \in Nat) /\ \A x \in U : g[x] \in Nat
  <2>1. \A x \in U : p[x] \in Nat
    BY <1>1
  <2>2. QED
    BY <1>1, <2>1
<1>5. \A x \in V : f[x] = g[x]
  BY <1>1
<1>6. m \in U /\ U \ {m} = V
  BY <1>1
<1>7. (m \notin T => g[m] = one /\ V = T) /\ (m \in T => g[m] = f[m] + one)
  BY <1>1
<1>8. one \in Nat
  OBVIOUS
<1> HIDE DEF f, g, one
<1>9. S(f, T) \in Nat /\ S(g, U) \in Nat
  BY <1>2, <1>4, SumNat
<1>10. S(f, V) = S(g, V)
  BY <1>2, <1>5, SumSame
<1>11. S(g, V) \in Int /\ S(g, U) = g[m] + S(g, V)
  <2>1. \A x \in U : g[x] \in Int
    BY <1>4
  <2>2. \A x \in U : S(g, U \ {x}) \in Int /\ S(g, U) = g[x] + S(g, U \ {x})
    BY <1>2, <2>1, SumTake
  <2> HIDE DEF S
  <2>3. QED
    BY <1>6, <2>2
<1>12. m \in T => S(f, T) = f[m] + S(f, V) /\ f[m] \in Nat
  <2>1. \A x \in T : f[x] \in Int
    BY <1>4
  <2>2. \A x \in T : S(f, T \ {x}) \in Int /\ S(f, T) = f[x] + S(f, T \ {x})
    BY <1>2, <2>1, SumTake
  <2> HIDE DEF S
  <2>3. QED
    BY <1>4, <2>2
<1> HIDE DEF S, V
<1>13. S(g, U) = S(f, T) + one
  <2>1. CASE m \notin T
    BY <1>7, <1>8, <1>9, <1>10, <1>11, <2>1
  <2>2. CASE m \in T
    BY <1>7, <1>8, <1>9, <1>10, <1>11, <1>12, <2>2
  <2>3. QED
    BY <2>1, <2>2
<1>14. QED
  BY <1>3, <1>9, <1>13 DEF p, one

\* ... and one that is received takes it.
LEMMA TallyRest ==
  ASSUME NEW n, IsABag(n), IsFiniteSet(BagToSet(n)), NEW m \in BagToSet(n)
  PROVE  /\ IsABag(Rest(n, m)) /\ IsFiniteSet(BagToSet(Rest(n, m)))
         /\ BagToSet(Rest(n, m)) \subseteq BagToSet(n)
         /\ \A i : /\ Tally(Rest(n, m), i) \in Nat
                   /\ Tally(n, i) = Tally(Rest(n, m), i) + (IF m.item = i THEN 1 ELSE 0)
<1>1. PICK p : p = Rest(n, m)
  OBVIOUS
<1>2. /\ IsABag(p)
      /\ BagToSet(p) = IF n[m] = 1 THEN BagToSet(n) \ {m} ELSE BagToSet(n)
      /\ \A x \in BagToSet(n) : x # m => p[x] = n[x]
      /\ n[m] # 1 => p[m] = n[m] - 1
      /\ \A x \in BagToSet(n) : n[x] \in Nat \ {0}
  BY <1>1, RestBag
<1>3. IsFiniteSet(BagToSet(p)) /\ BagToSet(p) \subseteq BagToSet(n)
  BY <1>2, FS_Subset
<1>4. PICK s : s = Plus(p, m)
  OBVIOUS
<1>5. /\ IsABag(s) /\ BagToSet(s) = BagToSet(p) \cup {m}
      /\ \A x \in BagToSet(p) : x # m => s[x] = p[x]
      /\ s[m] = (IF m \in BagToSet(p) THEN p[m] ELSE 0) + 1
  BY <1>2, <1>4, PlusBag
<1>6. DOMAIN s = DOMAIN n /\ DOMAIN p = IF n[m] = 1 THEN DOMAIN n \ {m} ELSE DOMAIN n
  BY <1>2, <1>5 DEF BagToSet
<1>7. \A x \in DOMAIN n : s[x] = n[x]
  BY <1>2, <1>5, <1>6 DEF BagToSet
<1>8. s = n
  BY <1>5, <1>6, <1>7 DEF IsABag
<1>9. ASSUME NEW i
      PROVE  Tally(p, i) \in Nat /\ Tally(n, i) = Tally(p, i) + (IF m.item = i THEN 1 ELSE 0)
  <2>1. /\ Tally(p, i) \in Nat
        /\ Tally(Plus(p, m), i) = Tally(p, i) + (IF m.item = i THEN 1 ELSE 0)
    BY <1>2, <1>3, TallyPlus
  <2>2. QED
    BY <1>4, <1>8, <2>1
<1>10. QED
  BY <1>1, <1>2, <1>3, <1>9

\* What one rank has is no more than what all have, and what all have is natural.
LEMMA StockNat ==
  ASSUME Bounds, NEW x \in [Ranks -> Seq(Int)], NEW y \in [Ranks -> Seq(Int)], NEW i
  PROVE  /\ Stock(x, y, i) \in Nat
         /\ \A r \in Ranks : /\ Occ(x[r], i) \in Nat /\ Occ(y[r], i) \in Nat
                             /\ Occ(x[r], i) + Occ(y[r], i) <= Stock(x, y, i)
<1> DEFINE f == [r \in Ranks |-> Occ(x[r], i) + Occ(y[r], i)]
<1>1. \A r \in Ranks : Occ(x[r], i) \in Nat /\ Occ(y[r], i) \in Nat
  BY OccNat
<1>2. \A r \in Ranks : f[r] \in Nat /\ f[r] = Occ(x[r], i) + Occ(y[r], i)
  BY <1>1
<1>3. Stock(x, y, i) = SumFunctionOnSet(f, Ranks)
  BY DEF Stock
<1> HIDE DEF f
<1>4. SumFunctionOnSet(f, Ranks) \in Nat /\ \A r \in Ranks : f[r] <= SumFunctionOnSet(f, Ranks)
  BY <1>2, SumNat DEF Bounds
<1>5. QED
  BY <1>1, <1>2, <1>3, <1>4

\* What all have when nobody has anything.
LEMMA StockZero ==
  ASSUME Bounds, NEW x, NEW y, NEW i, \A r \in Ranks : Occ(x[r], i) = 0 /\ Occ(y[r], i) = 0
  PROVE  Stock(x, y, i) = 0
<1> DEFINE f == [r \in Ranks |-> Occ(x[r], i) + Occ(y[r], i)]
<1>1. \A r \in Ranks : f[r] \in Nat /\ f[r] = 0
  OBVIOUS
<1>2. Stock(x, y, i) = SumFunctionOnSet(f, Ranks)
  BY DEF Stock
<1> HIDE DEF f
<1>3. SumFunctionOnSet(f, Ranks) = 0
  BY <1>1, SumNat DEF Bounds
<1>4. QED
  BY <1>2, <1>3

\* ... as when all queues are empty.
LEMMA StockEmpty ==
  ASSUME Bounds, NEW x, NEW y, NEW i, \A r \in Ranks : x[r] = <<>> /\ y[r] = <<>>
  PROVE  Stock(x, y, i) = 0
<1>1. \A r \in Ranks : Occ(x[r], i) = 0 /\ Occ(y[r], i) = 0
  BY OccEmpty
<1>2. QED
  BY <1>1, StockZero

\* A sum over the ranks of which one term changes.
LEMMA RanksChange ==
  ASSUME Bounds, NEW f, NEW g, NEW r \in Ranks,
         \A q \in Ranks : f[q] \in Int /\ g[q] \in Int, \A q \in Ranks \ {r} : f[q] = g[q]
  PROVE  SumFunctionOnSet(g, Ranks) - g[r] = SumFunctionOnSet(f, Ranks) - f[r]
<1>1. IsFiniteSet(Ranks)
  BY DEF Bounds
<1>2. QED
  BY <1>1, SumChange

\* One rank's queues change, x and y to u and v, and what all have with them.
Elsewhere(x, u, r) == \A q \in Ranks \ {r} : u[q] = x[q]
Shift(x, y, u, v, r, i) ==
  Stock(u, v, i) - (Occ(u[r], i) + Occ(v[r], i)) = Stock(x, y, i) - (Occ(x[r], i) + Occ(y[r], i))

LEMMA StockChange ==
  ASSUME Bounds, NEW x \in [Ranks -> Seq(Int)], NEW y \in [Ranks -> Seq(Int)],
         NEW u \in [Ranks -> Seq(Int)], NEW v \in [Ranks -> Seq(Int)], NEW i, NEW r \in Ranks,
         Elsewhere(x, u, r), Elsewhere(y, v, r)
  PROVE  Shift(x, y, u, v, r, i)
<1> DEFINE f == [q \in Ranks |-> Occ(x[q], i) + Occ(y[q], i)]
           g == [q \in Ranks |-> Occ(u[q], i) + Occ(v[q], i)]
<1>1. /\ Stock(x, y, i) = SumFunctionOnSet(f, Ranks) /\ Stock(u, v, i) = SumFunctionOnSet(g, Ranks)
      /\ f[r] = Occ(x[r], i) + Occ(y[r], i) /\ g[r] = Occ(u[r], i) + Occ(v[r], i)
  BY DEF Stock
<1>2. \A q \in Ranks : /\ Occ(x[q], i) \in Nat /\ Occ(y[q], i) \in Nat
                       /\ Occ(u[q], i) \in Nat /\ Occ(v[q], i) \in Nat
  BY OccNat
<1>3. \A q \in Ranks : f[q] \in Int /\ g[q] \in Int
  BY <1>2
<1>4. \A q \in Ranks \ {r} : f[q] = g[q]
  BY DEF Elsewhere
<1> HIDE DEF f, g
<1>5. SumFunctionOnSet(g, Ranks) - g[r] = SumFunctionOnSet(f, Ranks) - f[r]
  BY <1>3, <1>4, RanksChange
<1>6. QED
  BY <1>1, <1>5 DEF Shift

-----------------------------------------------------------------------------
(***************************************************************************)
(* Steps.                                                                  *)
(***************************************************************************)
\* A callback that is registered ...
LEMMA HookAppend ==
  ASSUME NEW h \in Seq(Queues), NEW v \in Queues
  PROVE  /\ Append(h, v) \in Seq(Queues)
         /\ \A w : InHooks(Append(h, v), w) <=> InHooks(h, w) \/ v = w
<1>1. PICK t \in Seq(Queues) : t = Append(h, v)
  BY AppendProperties
<1>2. /\ DOMAIN h = 1..Len(h) /\ DOMAIN t = 1..Len(h) + 1 /\ Len(h) \in Nat
      /\ t[Len(h) + 1] = v /\ \A n \in 1..Len(h) : t[n] = h[n]
  BY <1>1, AppendProperties
<1>3. ASSUME NEW w PROVE InHooks(t, w) <=> InHooks(h, w) \/ v = w
  <2>1. \A n : n \in 1..Len(h) + 1 <=> n \in 1..Len(h) \/ n = Len(h) + 1
    BY <1>2
  <2>2. QED
    BY <1>2, <2>1 DEF InHooks
<1>4. QED
  BY <1>1, <1>3

\* ... and one that runs.
LEMMA HookTail ==
  ASSUME NEW h \in Seq(Queues), h # <<>>
  PROVE  /\ Head(h) \in Queues /\ Tail(h) \in Seq(Queues)
         /\ \A w : InHooks(h, w) <=> Head(h) = w \/ InHooks(Tail(h), w)
<1>1. PICK t \in Seq(Queues) : t = Tail(h)
  BY HeadTailProperties
<1>2. PICK L \in Nat : /\ L # 0 /\ DOMAIN h = 1..L /\ DOMAIN t = 1..L - 1
                       /\ h[1] = Head(h) /\ h[1] \in Queues /\ \A n \in 1..L - 1 : t[n] = h[n + 1]
  BY <1>1
<1>3. ASSUME NEW w PROVE InHooks(h, w) <=> Head(h) = w \/ InHooks(t, w)
  <2>1. ASSUME InHooks(h, w) PROVE Head(h) = w \/ InHooks(t, w)
    <3>1. PICK n \in 1..L : h[n] = w
      BY <1>2, <2>1 DEF InHooks
    <3>2. CASE n = 1
      BY <1>2, <3>1, <3>2
    <3>3. CASE n # 1
      <4>1. n - 1 \in 1..L - 1 /\ n - 1 + 1 = n
        BY <1>2, <3>3
      <4>2. t[n - 1] = w
        BY <1>2, <3>1, <4>1
      <4>3. QED
        BY <1>2, <4>1, <4>2 DEF InHooks
    <3>4. QED
      BY <3>2, <3>3
  <2>2. ASSUME Head(h) = w PROVE InHooks(h, w)
    BY <1>2, <2>2 DEF InHooks
  <2>3. ASSUME InHooks(t, w) PROVE InHooks(h, w)
    <3>1. PICK n \in 1..L - 1 : t[n] = w
      BY <1>2, <2>3 DEF InHooks
    <3>2. n + 1 \in 1..L /\ h[n + 1] = w
      BY <1>2, <3>1
    <3>3. QED
      BY <1>2, <3>2 DEF InHooks
  <2>4. QED
    BY <2>1, <2>2, <2>3
<1>4. QED
  BY <1>1, <1>2, <1>3

\* What a step of r leaves alone.
Others(r) ==
  /\ call' = call
  /\ \A q \in Ranks \ {r} :
       /\ live'[q] = live[q] /\ hooks'[q] = hooks[q] /\ at'[q] = at[q] /\ busy'[q] = busy[q]
       /\ \A w \in Queues : queue'[w][q] = queue[w][q] /\ flag'[w][q] = flag[w][q]

\* r's share of the items of queues q, and what is inserted, done and in flight,
\* balance.
Here(q, r, i) == Occ(q["w"][r], i) + Occ(q["v"][r], i)
Balance(r, i) ==
  Count(due', i) - Count(done', i) - Tally(net', i) - Here(queue', r, i)
    = Count(due, i) - Count(done, i) - Tally(net, i) - Here(queue, r, i)

\* The terms of a balance are numbers.
LEMMA Terms ==
  ASSUME Bounds, Types, NEW i
  PROVE  /\ Count(due, i) \in Nat /\ Count(done, i) \in Nat /\ Tally(net, i) \in Nat
         /\ Stock(queue["w"], queue["v"], i) \in Nat
         /\ \A r \in Ranks : /\ Occ(queue["w"][r], i) \in Nat /\ Occ(queue["v"][r], i) \in Nat
                             /\ Here(queue, r, i) \in Nat
                             /\ Here(queue, r, i) <= Stock(queue["w"], queue["v"], i)
<1>1. IsABag(due) /\ IsABag(done) /\ IsABag(net) /\ IsFiniteSet(BagToSet(net))
  BY DEF Types
<1>2. queue["w"] \in [Ranks -> Seq(Int)] /\ queue["v"] \in [Ranks -> Seq(Int)]
  BY DEF Types, Queues
<1>3. Count(due, i) \in Nat /\ Count(done, i) \in Nat
  BY <1>1, CountPlus
<1>4. Tally(net, i) \in Nat
  BY <1>1, TallyPlus
<1>5. /\ Stock(queue["w"], queue["v"], i) \in Nat
      /\ \A r \in Ranks : /\ Occ(queue["w"][r], i) \in Nat /\ Occ(queue["v"][r], i) \in Nat
                          /\ Occ(queue["w"][r], i) + Occ(queue["v"][r], i)
                               <= Stock(queue["w"], queue["v"], i)
  BY <1>2, StockNat
<1>6. QED
  BY <1>3, <1>4, <1>5 DEF Here

\* ... in the next state too.
LEMMA TermsNext ==
  ASSUME Bounds, Types', NEW i
  PROVE  /\ Count(due', i) \in Nat /\ Count(done', i) \in Nat /\ Tally(net', i) \in Nat
         /\ Stock(queue'["w"], queue'["v"], i) \in Nat
         /\ \A r \in Ranks : Here(queue', r, i) \in Nat
<1>1. IsABag(due') /\ IsABag(done') /\ IsABag(net') /\ IsFiniteSet(BagToSet(net'))
  BY DEF Types, BagToSet
<1>2. queue'["w"] \in [Ranks -> Seq(Int)] /\ queue'["v"] \in [Ranks -> Seq(Int)]
  BY DEF Types, Queues
<1>3. Count(due', i) \in Nat /\ Count(done', i) \in Nat
  BY <1>1, CountPlus
<1>4. Tally(net', i) \in Nat
  BY <1>1, TallyPlus
<1>5. /\ Stock(queue'["w"], queue'["v"], i) \in Nat
      /\ \A r \in Ranks : /\ Occ(queue'["w"][r], i) \in Nat /\ Occ(queue'["v"][r], i) \in Nat
                          /\ Occ(queue'["w"][r], i) + Occ(queue'["v"][r], i)
                               <= Stock(queue'["w"], queue'["v"], i)
  BY <1>2, StockNat
<1>6. QED
  BY <1>3, <1>4, <1>5 DEF Here

\* A step of r keeps the invariant if it keeps these.
LEMMA Keeps ==
  ASSUME Bounds, IInv, NEW r \in Ranks, Types', NetMoving', Flagged(r)', Moving(r)', Others(r),
         \A i \in Int : Balance(r, i)
  PROVE  IInv'
<1>1. ASSUME NEW q \in Ranks PROVE Flagged(q)' /\ Moving(q)'
  <2>1. CASE q = r
    BY <2>1
  <2>2. CASE q # r
    <3>1. /\ call' = call
          /\ live'[q] = live[q] /\ hooks'[q] = hooks[q] /\ at'[q] = at[q] /\ busy'[q] = busy[q]
          /\ \A w \in Queues : queue'[w][q] = queue[w][q] /\ flag'[w][q] = flag[w][q]
      BY <2>2 DEF Others
    <3>2. Flagged(q) /\ Moving(q) /\ "v" \in Queues /\ "w" \in Queues
      BY DEF IInv, Queues
    <3>3. \A w : Hooked(w, q)' <=> Hooked(w, q)
      BY <3>1 DEF Hooked
    <3>4. Moved(q)' <=> Moved(q)
      BY <3>1 DEF Moved
    <3>5. Flagged(q)'
      BY <3>1, <3>2, <3>3, <3>4 DEF Flagged
    <3>6. Moving(q)'
      BY <3>1, <3>2, <3>3 DEF Moving
    <3>7. QED
      BY <3>5, <3>6
  <2>3. QED
    BY <2>1, <2>2
<1>2. ASSUME NEW i \in Int
      PROVE  Count(due', i) = Count(done', i) + Tally(net', i) + Stock(queue'["w"], queue'["v"], i)
  <2>1. /\ queue["w"] \in [Ranks -> Seq(Int)] /\ queue["v"] \in [Ranks -> Seq(Int)]
        /\ queue'["w"] \in [Ranks -> Seq(Int)] /\ queue'["v"] \in [Ranks -> Seq(Int)]
    BY DEF IInv, Types, Queues
  <2>2. \A q \in Ranks \ {r} : queue'["w"][q] = queue["w"][q] /\ queue'["v"][q] = queue["v"][q]
    BY DEF Others, Queues
  <2> DEFINE d1 == Count(due, i)
             d2 == Count(due', i)
             e1 == Count(done, i)
             e2 == Count(done', i)
             n1 == Tally(net, i)
             n2 == Tally(net', i)
             s1 == Stock(queue["w"], queue["v"], i)
             s2 == Stock(queue'["w"], queue'["v"], i)
             o1 == Here(queue, r, i)
             o2 == Here(queue', r, i)
  <2>3. s2 - o2 = s1 - o1
    <3>1. PICK x \in [Ranks -> Seq(Int)], y \in [Ranks -> Seq(Int)] :
            x = queue["w"] /\ y = queue["v"]
      BY <2>1
    <3>2. PICK u \in [Ranks -> Seq(Int)], v \in [Ranks -> Seq(Int)] :
            u = queue'["w"] /\ v = queue'["v"]
      BY <2>1
    <3>3. Elsewhere(x, u, r) /\ Elsewhere(y, v, r)
      BY <2>2, <3>1, <3>2 DEF Elsewhere
    <3>4. Shift(x, y, u, v, r, i)
      BY <3>3, StockChange
    <3>5. QED
      BY <3>1, <3>2, <3>4 DEF Shift, Here
  <2>4. d1 \in Nat /\ e1 \in Nat /\ n1 \in Nat /\ s1 \in Nat /\ o1 \in Nat
    BY Terms DEF IInv
  <2>5. d2 \in Nat /\ e2 \in Nat /\ n2 \in Nat /\ s2 \in Nat /\ o2 \in Nat
    BY TermsNext
  <2>6. d1 = e1 + n1 + s1
    BY DEF IInv, Conserved
  <2>7. d2 - e2 - n2 - o2 = d1 - e1 - n1 - o1
    BY DEF Balance
  <2> HIDE DEF d1, d2, e1, e2, n1, n2, s1, s2, o1, o2
  <2>8. d2 = e2 + n2 + s2
    BY <2>3, <2>4, <2>5, <2>6, <2>7
  <2>9. QED
    BY <2>8 DEF d2, e2, n2, s2
<1>3. Conserved'
  BY <1>2 DEF Conserved
<1>4. QED
  BY <1>1, <1>3 DEF IInv

\* A queue that is emptied, for the rest of the program or into the other.
LEMMA Discards ==
  ASSUME Bounds, IInv, NEW w \in Queues, NEW r \in Ranks
  PROVE  LET d == due (-) BagOf(queue[w][r]) IN
         /\ IsABag(d) /\ BagToSet(d) \subseteq Int
         /\ \A i \in Int : Count(d, i) = Count(due, i) - Occ(queue[w][r], i)
<1>1. IsABag(due) /\ BagToSet(due) \subseteq Int /\ queue[w][r] \in Seq(Int)
  BY DEF IInv, Types
<1>2. PICK b : b = BagOf(queue[w][r]) /\ IsABag(b) /\ \A i : Count(b, i) = Occ(queue[w][r], i)
  BY <1>1, BagOfQueue
<1>3. ASSUME NEW i PROVE Count(b, i) <= Count(due, i)
  <2>1. CASE i \in Int
    <3>1. Count(due, i) = Count(done, i) + Tally(net, i) + Stock(queue["w"], queue["v"], i)
      BY <2>1 DEF IInv, Conserved
    <3>2. /\ Count(due, i) \in Nat /\ Count(done, i) \in Nat /\ Tally(net, i) \in Nat
          /\ Stock(queue["w"], queue["v"], i) \in Nat
          /\ Occ(queue["w"][r], i) \in Nat /\ Occ(queue["v"][r], i) \in Nat
          /\ Occ(queue["w"][r], i) + Occ(queue["v"][r], i) <= Stock(queue["w"], queue["v"], i)
      BY Terms DEF IInv, Here
    <3>3. Occ(queue[w][r], i) = Occ(queue["w"][r], i) \/ Occ(queue[w][r], i) = Occ(queue["v"][r], i)
      BY DEF Queues
    <3>4. QED
      BY <1>2, <3>1, <3>2, <3>3
  <2>2. CASE i \notin Int
    <3>2. Occ(queue[w][r], i) = 0
      BY <1>1, <2>2, OccOnly
    <3>3. Count(due, i) \in Nat
      BY <1>1, CountPlus
    <3>4. QED
      BY <1>2, <3>2, <3>3
  <2>3. QED
    BY <2>1, <2>2
<1>4. /\ IsABag(due (-) b) /\ BagToSet(due (-) b) \subseteq BagToSet(due)
      /\ \A i : Count(due (-) b, i) = Count(due, i) - Count(b, i)
  BY <1>1, <1>2, <1>3, CountLess
<1>5. QED
  BY <1>1, <1>2, <1>4

\* One queue of one rank is set.
IsSet(w, r, s) ==
  /\ queue' \in [Queues -> [Ranks -> Seq(Int)]] /\ queue'[w][r] = s
  /\ \A u \in Queues, q \in Ranks : u # w \/ q # r => queue'[u][q] = queue[u][q]
  /\ \A i : Here(queue', r, i) = Here(queue, r, i) - Occ(queue[w][r], i) + Occ(s, i)

LEMMA QueueSet ==
  ASSUME Types, NEW w \in Queues, NEW r \in Ranks, NEW s \in Seq(Int),
         queue' = [queue EXCEPT ![w][r] = s]
  PROVE  IsSet(w, r, s)
<1>1. queue \in [Queues -> [Ranks -> Seq(Int)]]
  BY DEF Types
<1>2. queue' \in [Queues -> [Ranks -> Seq(Int)]] /\ queue'[w][r] = s
  BY <1>1
<1>3. \A u \in Queues, q \in Ranks : u # w \/ q # r => queue'[u][q] = queue[u][q]
  BY <1>1
<1>4. ASSUME NEW i
      PROVE  Here(queue', r, i) = Here(queue, r, i) - Occ(queue[w][r], i) + Occ(s, i)
  <2>0. "w" \in Queues /\ "v" \in Queues /\ (w = "w" \/ w = "v")
    BY DEF Queues
  <2>1. PICK a \in Nat, b \in Nat, c \in Nat :
          a = Occ(queue["w"][r], i) /\ b = Occ(queue["v"][r], i) /\ c = Occ(s, i)
    BY <1>1, <2>0, OccNat
  <2>2. CASE w = "w"
    <3>1. queue'["v"][r] = queue["v"][r] /\ queue'["w"][r] = s
      BY <1>2, <1>3, <2>0, <2>2
    <3>2. QED
      BY <2>1, <2>2, <3>1 DEF Here
  <2>3. CASE w = "v"
    <3>1. queue'["w"][r] = queue["w"][r] /\ queue'["v"][r] = s
      BY <1>2, <1>3, <2>0, <2>3
    <3>2. QED
      BY <2>1, <2>3, <3>1 DEF Here
  <2>4. QED
    BY <2>0, <2>2, <2>3
<1>5. QED
  BY <1>2, <1>3, <1>4 DEF IsSet

\* An item is put into a local queue, by the program or for a message.
LEMMA LocalInsert ==
  ASSUME IInv, NEW w \in Queues, NEW r \in Ranks, NEW j \in Int, local_insert(w, r, j),
         at[r] # "moving", call = "move" => w = "w",
         live' = live, at' = at, busy' = busy, call' = call
  PROVE  /\ queue' \in [Queues -> [Ranks -> Seq(Int)]]
         /\ flag' \in [Queues -> [Ranks -> BOOLEAN]] /\ hooks' \in [Ranks -> Seq(Queues)]
         /\ Flagged(r)' /\ Moving(r)' /\ Others(r)
         /\ \A i : Here(queue', r, i) = Here(queue, r, i) + (IF j = i THEN 1 ELSE 0)
<1>1. /\ queue \in [Queues -> [Ranks -> Seq(Int)]] /\ flag \in [Queues -> [Ranks -> BOOLEAN]]
      /\ hooks \in [Ranks -> Seq(Queues)] /\ Types /\ Flagged(r) /\ Moving(r)
      /\ "v" \in Queues /\ "w" \in Queues
  BY DEF IInv, Types, Queues
<1>2. PICK s \in Seq(Int) :
        /\ s # <<>> /\ queue' = [queue EXCEPT ![w][r] = s]
        /\ \A i : Occ(s, i) = Occ(queue[w][r], i) + (IF j = i THEN 1 ELSE 0)
  <2>1. queue[w][r] \in Seq(Int) /\ queue' = [queue EXCEPT ![w][r] = Append(queue[w][r], j)]
    BY <1>1 DEF local_insert
  <2>2. \A i : /\ Append(queue[w][r], j) \in Seq(Int) /\ Append(queue[w][r], j) # <<>>
               /\ Occ(Append(queue[w][r], j), i) = Occ(queue[w][r], i) + (IF j = i THEN 1 ELSE 0)
    BY <2>1, OccAppend
  <2>3. QED
    BY <2>1, <2>2
<1>3. IsSet(w, r, s)
  BY <1>1, <1>2, QueueSet
<1>4. ASSUME NEW i
      PROVE  Here(queue', r, i) = Here(queue, r, i) + (IF j = i THEN 1 ELSE 0)
  <2>1. PICK a \in Nat, b \in Nat, c \in Nat, d \in Nat :
          /\ a = Occ(queue["w"][r], i) /\ b = Occ(queue["v"][r], i) /\ c = Occ(queue[w][r], i)
          /\ d = Occ(s, i)
    BY <1>1, OccNat
  <2>2. d = c + (IF j = i THEN 1 ELSE 0)
    BY <1>2, <2>1
  <2>3. Here(queue', r, i) = Here(queue, r, i) - c + d /\ Here(queue, r, i) = a + b
    BY <1>3, <2>1 DEF IsSet, Here
  <2>4. QED
    BY <2>2, <2>3
<1>5. /\ flag' \in [Queues -> [Ranks -> BOOLEAN]] /\ hooks' \in [Ranks -> Seq(Queues)]
      /\ flag'[w][r]
      /\ InHooks(hooks'[r], w) \/ (flag[w][r] /\ hooks'[r] = hooks[r])
      /\ \A u \in Queues, q \in Ranks : u # w \/ q # r => flag'[u][q] = flag[u][q]
      /\ \A q \in Ranks : q # r => hooks'[q] = hooks[q]
      /\ \A u : u # w => (InHooks(hooks'[r], u) <=> InHooks(hooks[r], u))
      /\ InHooks(hooks[r], w) => InHooks(hooks'[r], w)
  <2>1. CASE flag[w][r]
    <3>1. flag' = flag /\ hooks' = hooks
      BY <2>1 DEF local_insert
    <3>2. QED
      BY <1>1, <2>1, <3>1
  <2>2. CASE ~flag[w][r]
    <3>1. hooks' = [hooks EXCEPT ![r] = Append(hooks[r], w)] /\ flag' = [flag EXCEPT ![w][r] = TRUE]
      BY <2>2 DEF local_insert, register_processing_callback
    <3>2. PICK h : h = Append(hooks[r], w) /\ h \in Seq(Queues)
                   /\ \A u : InHooks(h, u) <=> InHooks(hooks[r], u) \/ w = u
      BY <1>1, HookAppend
    <3>3. hooks' = [hooks EXCEPT ![r] = h]
      BY <3>1, <3>2
    <3>4. hooks' \in [Ranks -> Seq(Queues)] /\ hooks'[r] = h /\ \A q \in Ranks : q # r => hooks'[q] = hooks[q]
      BY <1>1, <3>2, <3>3
    <3>5. flag' \in [Queues -> [Ranks -> BOOLEAN]] /\ flag'[w][r]
          /\ \A u \in Queues, q \in Ranks : u # w \/ q # r => flag'[u][q] = flag[u][q]
      BY <1>1, <3>1
    <3>6. QED
      BY <3>2, <3>4, <3>5
  <2>3. QED
    BY <2>1, <2>2
<1>6. Flagged(r)'
  <2>1. SUFFICES ASSUME NEW u \in Queues
                 PROVE  /\ queue'[u][r] # <<>> => flag'[u][r] \/ (u = "v" /\ Moved(r)')
                        /\ flag'[u][r] => Hooked(u, r)'
    BY DEF Flagged
  <2>2. Moved(r)' <=> Moved(r)
    BY DEF Moved
  <2>3. CASE u = w
    BY <1>1, <1>5, <2>3 DEF Flagged, Hooked
  <2>4. CASE u # w
    BY <1>1, <1>3, <1>5, <2>2, <2>4 DEF Flagged, Hooked, IsSet
  <2>5. QED
    BY <2>3, <2>4
<1>7. Moving(r)'
  <2>1. ASSUME call = "move"
        PROVE  /\ queue'["v"][r] = queue["v"][r] /\ w # "v"
               /\ (InHooks(hooks'[r], "v") <=> InHooks(hooks[r], "v"))
    BY <1>1, <1>3, <1>5, <2>1 DEF IsSet
  <2>2. QED
    BY <1>1, <2>1 DEF Moving, Hooked
<1>8. Others(r)
  BY <1>3, <1>5 DEF Others, IsSet
<1>9. QED
  BY <1>3, <1>4, <1>5, <1>6, <1>7, <1>8 DEF IsSet

\* insert() ...
LEMMA InsertKeeps ==
  ASSUME Bounds, IInv, NEW r \in Ranks, NEW w \in Queues, NEW j \in Items, Insert(r, w, j)
  PROVE  IInv'
<1>1. /\ at[r] = "app" /\ w \in live[r] /\ due' = Plus(due, j) /\ local_insert(w, r, j)
      /\ policy' = policy /\ live' = live /\ at' = at /\ busy' = busy /\ call' = call
      /\ net' = net /\ done' = done
  BY DEF Insert, Insertion
<1>2. j \in Int /\ Types /\ Moving(r)
  BY DEF Bounds, IInv
<1>3. call = "move" => w = "w"
  BY <1>1, <1>2 DEF Moving
<1>4. /\ queue' \in [Queues -> [Ranks -> Seq(Int)]]
      /\ flag' \in [Queues -> [Ranks -> BOOLEAN]] /\ hooks' \in [Ranks -> Seq(Queues)]
      /\ Flagged(r)' /\ Moving(r)' /\ Others(r)
      /\ \A i : Here(queue', r, i) = Here(queue, r, i) + (IF j = i THEN 1 ELSE 0)
  BY <1>1, <1>2, <1>3, LocalInsert
<1>5. IsABag(due') /\ BagToSet(due') \subseteq Int
      /\ \A i : Count(due', i) = Count(due, i) + (IF j = i THEN 1 ELSE 0)
  <2>1. IsABag(due) /\ BagToSet(due) \subseteq Int
    BY <1>2 DEF Types
  <2>2. IsABag(Plus(due, j)) /\ BagToSet(Plus(due, j)) = BagToSet(due) \cup {j}
    BY <2>1, PlusBag
  <2>3. \A i : Count(Plus(due, j), i) = Count(due, i) + (IF j = i THEN 1 ELSE 0)
    BY <2>1, CountPlus
  <2>4. QED
    BY <1>1, <1>2, <2>1, <2>2, <2>3
<1>6. Types'
  BY <1>1, <1>2, <1>4, <1>5 DEF Types, BagToSet
<1>7. NetMoving'
  BY <1>1 DEF IInv, NetMoving, BagToSet
<1>8. ASSUME NEW i \in Int PROVE Balance(r, i)
  <2>1. PICK a \in Nat, b \in Nat, c \in Nat :
          a = Count(due, i) /\ b = Count(done, i) /\ c = Tally(net, i)
    BY <1>2, Terms
  <2>2. PICK o \in Nat : o = Here(queue, r, i)
    BY <1>2, Terms
  <2>3. PICK x \in Nat : x = IF j = i THEN 1 ELSE 0
    OBVIOUS
  <2>4. Count(due', i) = a + x /\ Count(done', i) = b /\ Tally(net', i) = c /\ Here(queue', r, i) = o + x
    BY <1>1, <1>4, <1>5, <2>1, <2>2, <2>3
  <2>5. a + x - b - c - (o + x) = a - b - c - o
    OBVIOUS
  <2>6. QED
    BY <2>1, <2>2, <2>4, <2>5 DEF Balance
<1>9. QED
  BY <1>4, <1>6, <1>7, <1>8, Keeps

\* A message is sent ...
LEMMA Sends ==
  ASSUME Types, NEW w \in Queues, NEW d \in Ranks, NEW j \in Int, net' = Plus(net, Msg(w, d, j))
  PROVE  /\ IsABag(net') /\ IsFiniteSet(BagToSet(net'))
         /\ BagToSet(net') \subseteq [queue : Queues, to : Ranks, item : Int]
         /\ \A m \in BagToSet(net') : m \in BagToSet(net) \/ m.queue = w
         /\ \A i : Tally(net', i) = Tally(net, i) + (IF j = i THEN 1 ELSE 0)
<1>1. PICK m : m = Msg(w, d, j) /\ m \in [queue : Queues, to : Ranks, item : Int]
               /\ m.item = j /\ m.queue = w
  BY DEF Msg
<1>2. /\ IsABag(net) /\ IsFiniteSet(BagToSet(net))
      /\ BagToSet(net) \subseteq [queue : Queues, to : Ranks, item : Int]
  BY DEF Types
<1>3. PICK n : n = Plus(net, m)
  OBVIOUS
<1>4. IsABag(n) /\ BagToSet(n) = BagToSet(net) \cup {m}
  BY <1>2, <1>3, PlusBag
<1>5. IsFiniteSet(BagToSet(n))
  BY <1>2, <1>4, FS_AddElement
<1>6. \A i : Tally(n, i) = Tally(net, i) + (IF m.item = i THEN 1 ELSE 0)
  BY <1>2, <1>3, TallyPlus
<1>7. net' = n
  BY <1>1, <1>3
<1>8. QED
  BY <1>1, <1>2, <1>4, <1>5, <1>6, <1>7

\* ... and an item is counted as inserted or as done.
LEMMA AddsOne ==
  ASSUME NEW b, NEW j \in Int, IsABag(b), BagToSet(b) \subseteq Int
  PROVE  /\ IsABag(Plus(b, j)) /\ BagToSet(Plus(b, j)) \subseteq Int
         /\ \A i : Count(Plus(b, j), i) = Count(b, i) + (IF j = i THEN 1 ELSE 0)
<1>1. IsABag(Plus(b, j)) /\ BagToSet(Plus(b, j)) = BagToSet(b) \cup {j}
  BY PlusBag
<1>2. \A i : Count(Plus(b, j), i) = Count(b, i) + (IF j = i THEN 1 ELSE 0)
  BY CountPlus
<1>3. QED
  BY <1>1, <1>2

\* async_insert() ...
LEMMA AsyncInsertKeeps ==
  ASSUME Bounds, IInv, NEW r \in Ranks, NEW d \in Ranks, NEW w \in Queues, NEW j \in Items,
         AsyncInsert(r, d, w, j)
  PROVE  IInv'
<1>1. /\ at[r] = "app" /\ w \in live[r] /\ due' = Plus(due, j) /\ net' = Plus(net, Msg(w, d, j))
      /\ policy' = policy /\ live' = live /\ at' = at /\ busy' = busy /\ call' = call
      /\ queue' = queue /\ flag' = flag /\ hooks' = hooks /\ done' = done
  BY DEF AsyncInsert, Insertion, queueVars
<1>2. j \in Int /\ Types /\ Moving(r) /\ Flagged(r) /\ NetMoving
  BY DEF Bounds, IInv
<1>3. call = "move" => w = "w"
  BY <1>1, <1>2 DEF Moving
<1>4. /\ IsABag(net') /\ IsFiniteSet(BagToSet(net'))
      /\ BagToSet(net') \subseteq [queue : Queues, to : Ranks, item : Int]
      /\ \A m \in BagToSet(net') : m \in BagToSet(net) \/ m.queue = w
      /\ \A i : Tally(net', i) = Tally(net, i) + (IF j = i THEN 1 ELSE 0)
  BY <1>1, <1>2, Sends
<1>5. /\ IsABag(due') /\ BagToSet(due') \subseteq Int
      /\ \A i : Count(due', i) = Count(due, i) + (IF j = i THEN 1 ELSE 0)
  BY <1>1, <1>2, AddsOne DEF Types
<1>6. Types'
  BY <1>1, <1>2, <1>4, <1>5 DEF Types, BagToSet
<1>7. NetMoving'
  BY <1>1, <1>2, <1>3, <1>4 DEF NetMoving, BagToSet
<1>8. ASSUME NEW i \in Int PROVE Balance(r, i)
  <2>1. PICK a \in Nat, b \in Nat, c \in Nat :
          a = Count(due, i) /\ b = Count(done, i) /\ c = Tally(net, i)
    BY <1>2, Terms
  <2>2. PICK o \in Nat : o = Here(queue, r, i)
    BY <1>2, Terms
  <2>3. PICK x \in Nat : x = IF j = i THEN 1 ELSE 0
    OBVIOUS
  <2>4. Count(due', i) = a + x /\ Count(done', i) = b /\ Tally(net', i) = c + x /\ Here(queue', r, i) = o
    BY <1>1, <1>4, <1>5, <2>1, <2>2, <2>3
  <2>5. a + x - b - (c + x) - o = a - b - c - o
    OBVIOUS
  <2>6. QED
    BY <2>1, <2>2, <2>4, <2>5 DEF Balance
<1>9. Others(r)
  BY <1>1 DEF Others
<1>10. Flagged(r)' /\ Moving(r)'
  BY <1>1, <1>2 DEF Flagged, Moving, Hooked, Moved
<1>11. QED
  BY <1>6, <1>7, <1>8, <1>9, <1>10, Keeps

\* ... and its handler.
LEMMA HandleInsertKeeps ==
  ASSUME Bounds, IInv, NEW m \in BagToSet(net), HandleInsert(m)
  PROVE  IInv'
<1>1. Types /\ NetMoving
  BY DEF IInv
<1>2. PICK w \in Queues, r \in Ranks, j \in Int : w = m.queue /\ r = m.to /\ j = m.item
  BY <1>1 DEF Types
<1>3. /\ at[r] # "moving" /\ net' = Rest(net, m) /\ local_insert(w, r, j)
      /\ policy' = policy /\ live' = live /\ at' = at /\ busy' = busy /\ call' = call
      /\ due' = due /\ done' = done
  BY <1>2 DEF HandleInsert
<1>4. call = "move" => w = "w"
  BY <1>1, <1>2 DEF NetMoving
<1>5. /\ queue' \in [Queues -> [Ranks -> Seq(Int)]]
      /\ flag' \in [Queues -> [Ranks -> BOOLEAN]] /\ hooks' \in [Ranks -> Seq(Queues)]
      /\ Flagged(r)' /\ Moving(r)' /\ Others(r)
      /\ \A i : Here(queue', r, i) = Here(queue, r, i) + (IF j = i THEN 1 ELSE 0)
  BY <1>3, <1>4, LocalInsert
<1>6. /\ IsABag(net') /\ IsFiniteSet(BagToSet(net')) /\ BagToSet(net') \subseteq BagToSet(net)
      /\ \A i : Tally(net', i) \in Nat /\ Tally(net, i) = Tally(net', i) + (IF j = i THEN 1 ELSE 0)
  <2>1. IsABag(net) /\ IsFiniteSet(BagToSet(net))
    BY <1>1 DEF Types
  <2>2. /\ IsABag(Rest(net, m)) /\ IsFiniteSet(BagToSet(Rest(net, m)))
        /\ BagToSet(Rest(net, m)) \subseteq BagToSet(net)
        /\ \A i : /\ Tally(Rest(net, m), i) \in Nat
                  /\ Tally(net, i) = Tally(Rest(net, m), i) + (IF m.item = i THEN 1 ELSE 0)
    BY <2>1, TallyRest
  <2>3. QED
    BY <1>2, <1>3, <2>2
<1>7. Types'
  BY <1>1, <1>3, <1>5, <1>6 DEF Types, BagToSet
<1>8. NetMoving'
  BY <1>1, <1>3, <1>6 DEF NetMoving, BagToSet
<1>9. ASSUME NEW i \in Int PROVE Balance(r, i)
  <2>1. PICK a \in Nat, b \in Nat, c \in Nat :
          a = Count(due, i) /\ b = Count(done, i) /\ c = Tally(net', i)
    BY <1>1, <1>6, Terms
  <2>2. PICK o \in Nat : o = Here(queue, r, i)
    BY <1>1, Terms
  <2>3. PICK x \in Nat : x = IF j = i THEN 1 ELSE 0
    OBVIOUS
  <2>4. Count(due', i) = a /\ Count(done', i) = b /\ Tally(net, i) = c + x /\ Here(queue', r, i) = o + x
    BY <1>3, <1>5, <1>6, <2>1, <2>2, <2>3
  <2>5. a - b - c - (o + x) = a - b - (c + x) - o
    OBVIOUS
  <2>6. QED
    BY <2>1, <2>2, <2>4, <2>5 DEF Balance
<1>10. QED
  BY <1>5, <1>7, <1>8, <1>9, Keeps

\* An item is taken and worked on.
LEMMA ProcessKeeps ==
  ASSUME Bounds, IInv, NEW r \in Ranks, local_process_all(r)
  PROVE  IInv'
<1>0. Types /\ Flagged(r) /\ Moving(r) /\ NetMoving
  BY DEF IInv
<1>1. PICK w \in Queues, q \in Seq(Int) : w = busy[r] /\ q = queue[w][r] /\ q # <<>> /\ at[r] = "work"
  BY <1>0 DEF local_process_all, Types
<1>2. Top(q) \in DOMAIN q
  BY <1>0, <1>1, TopIn DEF Types
<1>3. PICK p \in DOMAIN q : p = Top(q)
  BY <1>2
<1>4. PICK j \in Int, t \in Seq(Int) :
        /\ j = q[p] /\ t = Without(q, p)
        /\ \A i : Occ(q, i) = Occ(t, i) + (IF j = i THEN 1 ELSE 0)
  <2>1. \A i : /\ Without(q, p) \in Seq(Int) /\ q[p] \in Int
               /\ Occ(q, i) = Occ(Without(q, p), i) + (IF q[p] = i THEN 1 ELSE 0)
    BY OccRemove
  <2>2. QED
    BY <2>1
<1>5. /\ done' = Plus(done, j)
      /\ policy' = policy /\ live' = live /\ flag' = flag /\ hooks' = hooks /\ at' = at
      /\ busy' = busy /\ call' = call
  BY <1>1, <1>3, <1>4 DEF local_process_all
<1>6. PICK k \in Int : k = j - 1
  OBVIOUS
<1>7. \/ /\ queue' = [queue EXCEPT ![w][r] = t] /\ due' = due /\ net' = net
      \/ /\ due' = Plus(due, k) /\ queue' = [queue EXCEPT ![w][r] = Append(t, k)] /\ net' = net
      \/ /\ due' = Plus(due, k) /\ queue' = [queue EXCEPT ![w][r] = t]
         /\ \E d \in Ranks : net' = Plus(net, Msg(w, d, k))
  BY <1>1, <1>3, <1>4, <1>6 DEF local_process_all
<1>8. /\ IsABag(done') /\ BagToSet(done') \subseteq Int
      /\ \A i : Count(done', i) = Count(done, i) + (IF j = i THEN 1 ELSE 0)
  BY <1>0, <1>5, AddsOne DEF Types
<1>9. \A i : Occ(q, i) \in Nat /\ Occ(t, i) \in Nat
  BY OccNat
<1>10. "v" \in Queues /\ "w" \in Queues
  BY DEF Queues
\* The rest of a step that sets the queue to s, with x more due and y more sent.
<1>11. ASSUME NEW s \in Seq(Int), queue' = [queue EXCEPT ![w][r] = s],
              IsABag(due'), BagToSet(due') \subseteq Int, IsABag(net'), IsFiniteSet(BagToSet(net')),
              BagToSet(net') \subseteq [queue : Queues, to : Ranks, item : Int],
              \A m \in BagToSet(net') : m \in BagToSet(net) \/ m.queue = w,
              \A i : Count(due', i) - Tally(net', i) - Occ(s, i) = Count(due, i) - Tally(net, i) - Occ(t, i)
       PROVE  IInv'
  <2>1. IsSet(w, r, s)
    BY <1>0, <1>11, QueueSet
  <2>2. Types'
    BY <1>0, <1>5, <1>8, <1>11, <2>1 DEF Types, BagToSet, IsSet
  <2>3. call = "move" => w = "w"
    BY <1>0, <1>1 DEF Moving, Hooked, Queues
  <2>4. NetMoving'
    BY <1>0, <1>5, <1>11, <2>3 DEF NetMoving, BagToSet
  <2>5. Others(r)
    BY <1>5, <2>1 DEF Others, IsSet
  <2>6. \A u \in Queues : u # w => queue'[u][r] = queue[u][r]
    BY <2>1 DEF IsSet
  <2>7. Flagged(r)'
    <3>1. SUFFICES ASSUME NEW u \in Queues
                   PROVE  /\ queue'[u][r] # <<>> => flag[u][r] \/ (u = "v" /\ Moved(r))
                          /\ flag[u][r] => Hooked(u, r)
      BY <1>5 DEF Flagged, Moved, Hooked
    <3>2. u = w \/ u # w
      OBVIOUS
    <3>3. QED
      BY <1>0, <1>1, <2>6, <3>2 DEF Flagged
  <2>8. Moving(r)'
    BY <1>0, <1>1, <1>5 DEF Moving, Hooked
  <2>9. ASSUME NEW i \in Int PROVE Balance(r, i)
    <3>1. PICK a \in Nat, b \in Nat, c \in Nat, o \in Nat :
            a = Count(due, i) /\ b = Count(done, i) /\ c = Tally(net, i) /\ o = Here(queue, r, i)
      BY <1>0, Terms
    <3>2. PICK x \in Nat, e \in Nat, f \in Nat, g \in Nat :
            x = (IF j = i THEN 1 ELSE 0) /\ e = Occ(q, i) /\ f = Occ(t, i) /\ g = Occ(s, i)
      BY <1>9, OccNat
    <3>3. PICK a2 \in Nat, c2 \in Nat : a2 = Count(due', i) /\ c2 = Tally(net', i)
      BY <2>2, TermsNext
    <3>4. Count(done', i) = b + x /\ Here(queue', r, i) = o - e + g /\ e = f + x
      BY <1>1, <1>4, <1>8, <2>1, <3>1, <3>2 DEF IsSet
    <3>5. a2 - c2 - g = a - c - f
      BY <1>11, <3>1, <3>2, <3>3
    <3>6. a2 - (b + x) - c2 - (o - e + g) = a - b - c - o
      BY <3>4, <3>5
    <3>7. QED
      BY <3>1, <3>3, <3>4, <3>6 DEF Balance
  <2>10. QED
    BY <2>2, <2>4, <2>5, <2>7, <2>8, <2>9, Keeps
<1>12. CASE queue' = [queue EXCEPT ![w][r] = t] /\ due' = due /\ net' = net
  <2>1. \A i : Count(due', i) - Tally(net', i) - Occ(t, i) = Count(due, i) - Tally(net, i) - Occ(t, i)
    BY <1>12
  <2>2. /\ IsABag(due') /\ BagToSet(due') \subseteq Int /\ IsABag(net') /\ IsFiniteSet(BagToSet(net'))
        /\ BagToSet(net') \subseteq [queue : Queues, to : Ranks, item : Int]
        /\ \A m \in BagToSet(net') : m \in BagToSet(net) \/ m.queue = w
    BY <1>0, <1>12 DEF Types, BagToSet
  <2>3. QED
    BY <1>11, <1>12, <2>1, <2>2
<1>13. ASSUME due' = Plus(due, k)
       PROVE  /\ IsABag(due') /\ BagToSet(due') \subseteq Int
              /\ \A i : Count(due', i) = Count(due, i) + (IF k = i THEN 1 ELSE 0)
  BY <1>0, <1>13, AddsOne DEF Types
<1>14. CASE due' = Plus(due, k) /\ queue' = [queue EXCEPT ![w][r] = Append(t, k)] /\ net' = net
  <2>1. PICK s \in Seq(Int) : s = Append(t, k) /\ \A i : Occ(s, i) = Occ(t, i) + (IF k = i THEN 1 ELSE 0)
    <3>1. \A i : /\ Append(t, k) \in Seq(Int) /\ Append(t, k) # <<>>
                 /\ Occ(Append(t, k), i) = Occ(t, i) + (IF k = i THEN 1 ELSE 0)
      BY OccAppend
    <3>2. QED
      BY <3>1
  <2>2. ASSUME NEW i
        PROVE  Count(due', i) - Tally(net', i) - Occ(s, i) = Count(due, i) - Tally(net, i) - Occ(t, i)
    <3>1. PICK a \in Nat, c \in Nat, f \in Nat : a = Count(due, i) /\ c = Tally(net, i) /\ f = Occ(t, i)
      BY <1>0, <1>9, Terms
    <3>2. PICK x \in Nat : x = IF k = i THEN 1 ELSE 0
      OBVIOUS
    <3>3. Count(due', i) = a + x /\ Occ(s, i) = f + x /\ Tally(net', i) = c
      BY <1>13, <1>14, <2>1, <3>1, <3>2
    <3>4. QED
      BY <3>1, <3>3
  <2>3. /\ IsABag(due') /\ BagToSet(due') \subseteq Int /\ IsABag(net') /\ IsFiniteSet(BagToSet(net'))
        /\ BagToSet(net') \subseteq [queue : Queues, to : Ranks, item : Int]
        /\ \A m \in BagToSet(net') : m \in BagToSet(net) \/ m.queue = w
    BY <1>0, <1>13, <1>14 DEF Types, BagToSet
  <2>4. queue' = [queue EXCEPT ![w][r] = s]
    BY <1>14, <2>1
  <2>5. QED
    BY <1>11, <2>2, <2>3, <2>4
<1>15. CASE /\ due' = Plus(due, k) /\ queue' = [queue EXCEPT ![w][r] = t]
            /\ \E d \in Ranks : net' = Plus(net, Msg(w, d, k))
  <2>1. PICK d \in Ranks : net' = Plus(net, Msg(w, d, k))
    BY <1>15
  <2>2. /\ IsABag(net') /\ IsFiniteSet(BagToSet(net'))
        /\ BagToSet(net') \subseteq [queue : Queues, to : Ranks, item : Int]
        /\ \A m \in BagToSet(net') : m \in BagToSet(net) \/ m.queue = w
        /\ \A i : Tally(net', i) = Tally(net, i) + (IF k = i THEN 1 ELSE 0)
    BY <1>0, <2>1, Sends
  <2>3. ASSUME NEW i
        PROVE  Count(due', i) - Tally(net', i) - Occ(t, i) = Count(due, i) - Tally(net, i) - Occ(t, i)
    <3>1. PICK a \in Nat, c \in Nat, f \in Nat : a = Count(due, i) /\ c = Tally(net, i) /\ f = Occ(t, i)
      BY <1>0, <1>9, Terms
    <3>2. PICK x \in Nat : x = IF k = i THEN 1 ELSE 0
      OBVIOUS
    <3>3. Count(due', i) = a + x /\ Tally(net', i) = c + x
      BY <1>13, <1>15, <2>2, <3>1, <3>2
    <3>4. QED
      BY <3>1, <3>3
  <2>4. IsABag(due') /\ BagToSet(due') \subseteq Int
    BY <1>13, <1>15
  <2>5. QED
    BY <1>11, <1>15, <2>2, <2>3, <2>4
<1>16. QED
  BY <1>7, <1>12, <1>14, <1>15

-----------------------------------------------------------------------------
(***************************************************************************)
(* The callback, and the collectives.                                      *)
(***************************************************************************)
\* Nothing moves.
LEMMA Stays ==
  ASSUME NEW r, UNCHANGED <<queue, net, due, done>>
  PROVE  \A i \in Int : Balance(r, i)
BY DEF Balance

\* A callback starts ...
LEMMA RunHookKeeps ==
  ASSUME Bounds, IInv, NEW r \in Ranks, RunHook(r)
  PROVE  IInv'
<1>0. Types /\ Flagged(r) /\ Moving(r) /\ NetMoving /\ "v" \in Queues /\ "w" \in Queues
  BY DEF IInv, Queues
<1>1. /\ at[r] = "barrier" /\ hooks[r] # <<>>
      /\ hooks' = [hooks EXCEPT ![r] = Tail(hooks[r])] /\ busy' = [busy EXCEPT ![r] = Head(hooks[r])]
      /\ at' = [at EXCEPT ![r] = "work"]
      /\ policy' = policy /\ live' = live /\ queue' = queue /\ flag' = flag /\ call' = call
      /\ net' = net /\ due' = due /\ done' = done
  BY DEF RunHook
<1>2. PICK t \in Seq(Queues), h \in Queues :
        /\ t = Tail(hooks[r]) /\ h = Head(hooks[r])
        /\ \A u : InHooks(hooks[r], u) <=> h = u \/ InHooks(t, u)
  BY <1>0, <1>1, HookTail DEF Types
<1>3. /\ hooks' \in [Ranks -> Seq(Queues)] /\ hooks'[r] = t
      /\ \A q \in Ranks : q # r => hooks'[q] = hooks[q]
  BY <1>0, <1>1, <1>2 DEF Types
<1>4. /\ busy' \in [Ranks -> Queues] /\ busy'[r] = h
      /\ \A q \in Ranks : q # r => busy'[q] = busy[q]
  BY <1>0, <1>1, <1>2 DEF Types
<1>5. /\ at' \in [Ranks -> {"app", "barrier", "work", "moving"}] /\ at'[r] = "work"
      /\ \A q \in Ranks : q # r => at'[q] = at[q]
  BY <1>0, <1>1 DEF Types
<1>6. Types'
  BY <1>0, <1>1, <1>3, <1>4, <1>5 DEF Types, BagToSet
<1>7. Others(r)
  BY <1>1, <1>3, <1>4, <1>5 DEF Others
<1>8. \A u : Hooked(u, r)' <=> Hooked(u, r)
  BY <1>1, <1>2, <1>3, <1>4, <1>5 DEF Hooked
<1>9. Flagged(r)' /\ Moving(r)'
  <2>1. Moved(r)' <=> Moved(r)
    BY <1>1, <1>5 DEF Moved
  <2>2. Flagged(r)'
    BY <1>0, <1>1, <1>8, <2>1 DEF Flagged
  <2>3. Moving(r)'
    BY <1>0, <1>1, <1>5, <1>8 DEF Moving
  <2>4. QED
    BY <2>2, <2>3
<1>10. NetMoving'
  BY <1>0, <1>1 DEF NetMoving, BagToSet
<1>11. \A i \in Int : Balance(r, i)
  BY <1>1, Stays
<1>12. QED
  BY <1>6, <1>7, <1>9, <1>10, <1>11, Keeps

\* ... and ends.
LEMMA ProcessedKeeps ==
  ASSUME Bounds, IInv, NEW r \in Ranks, Processed(r)
  PROVE  IInv'
<1>0. Types /\ Flagged(r) /\ Moving(r) /\ NetMoving /\ "v" \in Queues /\ "w" \in Queues
  BY DEF IInv, Queues
<1>1. PICK w \in Queues :
        /\ w = busy[r] /\ at[r] = "work" /\ queue[w][r] = <<>>
        /\ flag' = [flag EXCEPT ![w][r] = FALSE] /\ at' = [at EXCEPT ![r] = "barrier"]
  BY <1>0 DEF Processed, Types
<1>2. /\ policy' = policy /\ live' = live /\ queue' = queue /\ hooks' = hooks /\ call' = call
      /\ busy' = busy /\ net' = net /\ due' = due /\ done' = done
  BY DEF Processed
<1>3. /\ flag' \in [Queues -> [Ranks -> BOOLEAN]] /\ flag'[w][r] = FALSE
      /\ \A u \in Queues, q \in Ranks : u # w \/ q # r => flag'[u][q] = flag[u][q]
  BY <1>0, <1>1 DEF Types
<1>4. /\ at' \in [Ranks -> {"app", "barrier", "work", "moving"}] /\ at'[r] = "barrier"
      /\ \A q \in Ranks : q # r => at'[q] = at[q]
  BY <1>0, <1>1 DEF Types
<1>5. Types'
  BY <1>0, <1>2, <1>3, <1>4 DEF Types, BagToSet
<1>6. Others(r)
  BY <1>2, <1>3, <1>4 DEF Others
<1>7. \A u : u # w => (Hooked(u, r)' <=> Hooked(u, r))
  BY <1>1, <1>2, <1>4 DEF Hooked
<1>8. Hooked("v", r)' => Hooked("v", r)
  BY <1>2, <1>4 DEF Hooked
<1>9. Flagged(r)' /\ Moving(r)'
  <2>1. Moved(r)' <=> Moved(r)
    BY <1>1, <1>2, <1>4 DEF Moved
  <2>2. Flagged(r)'
    <3>1. SUFFICES ASSUME NEW u \in Queues
                   PROVE  /\ queue'[u][r] # <<>> => flag'[u][r] \/ (u = "v" /\ Moved(r)')
                          /\ flag'[u][r] => Hooked(u, r)'
      BY DEF Flagged
    <3>2. CASE u = w
      BY <1>1, <1>2, <1>3, <3>2
    <3>3. CASE u # w
      BY <1>0, <1>2, <1>3, <1>7, <2>1, <3>3 DEF Flagged
    <3>4. QED
      BY <3>2, <3>3
  <2>3. Moving(r)'
    BY <1>0, <1>1, <1>2, <1>4, <1>8 DEF Moving
  <2>4. QED
    BY <2>2, <2>3
<1>10. NetMoving'
  BY <1>0, <1>2 DEF NetMoving, BagToSet
<1>11. \A i \in Int : Balance(r, i)
  BY <1>2, Stays
<1>12. QED
  BY <1>5, <1>6, <1>9, <1>10, <1>11, Keeps

\* A rank that enters a barrier.
LEMMA Enters ==
  ASSUME Types, NEW r \in Ranks, EnterBarrier(r)
  PROVE  /\ at[r] = "app" /\ at'[r] = "barrier" /\ at' \in [Ranks -> {"app", "barrier", "work", "moving"}]
         /\ \A q \in Ranks : q # r => at'[q] = at[q]
         /\ policy' = policy /\ busy' = busy /\ call' = call /\ net' = net /\ done' = done
         /\ \A u : hooks' = hooks => (Hooked(u, r)' <=> Hooked(u, r))
<1>1. at[r] = "app" /\ at'[r] = "barrier" /\ at' \in [Ranks -> {"app", "barrier", "work", "moving"}]
      /\ \A q \in Ranks : q # r => at'[q] = at[q]
  BY DEF EnterBarrier, Types
<1>2. policy' = policy /\ busy' = busy /\ call' = call /\ net' = net /\ done' = done
  BY DEF EnterBarrier
<1>3. \A u : hooks' = hooks => (Hooked(u, r)' <=> Hooked(u, r))
  BY <1>1 DEF Hooked
<1>4. QED
  BY <1>1, <1>2, <1>3

\* barrier() ...
LEMMA CallBarrierKeeps ==
  ASSUME Bounds, IInv, NEW r \in Ranks, CallBarrier(r)
  PROVE  IInv'
<1>0. Types /\ Flagged(r) /\ Moving(r) /\ NetMoving /\ "v" \in Queues /\ "w" \in Queues
  BY DEF IInv, Queues
<1>1. /\ call = "barrier" /\ EnterBarrier(r) /\ live' = live /\ queue' = queue /\ flag' = flag
      /\ hooks' = hooks /\ due' = due
  BY DEF CallBarrier, queueVars
<1>2. /\ at[r] = "app" /\ at'[r] = "barrier" /\ at' \in [Ranks -> {"app", "barrier", "work", "moving"}]
      /\ \A q \in Ranks : q # r => at'[q] = at[q]
      /\ policy' = policy /\ busy' = busy /\ call' = call /\ net' = net /\ done' = done
      /\ \A u : hooks' = hooks => (Hooked(u, r)' <=> Hooked(u, r))
  BY <1>0, <1>1, Enters
<1>3. Types'
  BY <1>0, <1>1, <1>2 DEF Types, BagToSet
<1>4. Others(r)
  BY <1>1, <1>2 DEF Others
<1>5. Flagged(r)'
  BY <1>0, <1>1, <1>2 DEF Flagged, Moved
<1>6. Moving(r)'
  BY <1>1, <1>2 DEF Moving
<1>7. NetMoving'
  BY <1>0, <1>1, <1>2 DEF NetMoving, BagToSet
<1>8. \A i \in Int : Balance(r, i)
  BY <1>1, <1>2, Stays
<1>9. QED
  BY <1>3, <1>4, <1>5, <1>6, <1>7, <1>8, Keeps

\* ... clear() ...
LEMMA ClearKeeps ==
  ASSUME Bounds, IInv, NEW r \in Ranks, Clear(r)
  PROVE  IInv'
<1>0. Types /\ Flagged(r) /\ Moving(r) /\ NetMoving /\ "v" \in Queues /\ "w" \in Queues
  BY DEF IInv, Queues
<1>1. /\ call = "clear" /\ EnterBarrier(r) /\ live' = live /\ flag' = flag /\ hooks' = hooks
      /\ queue' = [queue EXCEPT !["w"][r] = <<>>] /\ due' = due (-) BagOf(queue["w"][r])
  BY DEF Clear
<1>2. /\ at[r] = "app" /\ at'[r] = "barrier" /\ at' \in [Ranks -> {"app", "barrier", "work", "moving"}]
      /\ \A q \in Ranks : q # r => at'[q] = at[q]
      /\ policy' = policy /\ busy' = busy /\ call' = call /\ net' = net /\ done' = done
      /\ \A u : hooks' = hooks => (Hooked(u, r)' <=> Hooked(u, r))
  BY <1>0, <1>1, Enters
<1>3. PICK s \in Seq(Int) : s = <<>>
  BY EmptySeq
<1>4. IsSet("w", r, s)
  BY <1>0, <1>1, <1>3, QueueSet
<1>5. /\ IsABag(due') /\ BagToSet(due') \subseteq Int
      /\ \A i \in Int : Count(due', i) = Count(due, i) - Occ(queue["w"][r], i)
  BY <1>0, <1>1, Discards DEF BagToSet
<1>6. Types'
  BY <1>0, <1>1, <1>2, <1>4, <1>5 DEF Types, BagToSet, IsSet
<1>7. Others(r)
  BY <1>1, <1>2, <1>4 DEF Others, IsSet
<1>8. Flagged(r)'
  <2>1. queue'["w"][r] = <<>> /\ queue'["v"][r] = queue["v"][r] /\ Queues = {"w", "v"}
    BY <1>0, <1>3, <1>4 DEF IsSet, Queues
  <2>2. ~Moved(r)
    BY <1>1, <1>2 DEF Moved
  <2>3. QED
    BY <1>0, <1>1, <1>2, <2>1, <2>2 DEF Flagged
<1>9. Moving(r)'
  BY <1>1, <1>2 DEF Moving
<1>10. NetMoving'
  BY <1>0, <1>1, <1>2 DEF NetMoving, BagToSet
<1>11. ASSUME NEW i \in Int PROVE Balance(r, i)
  <2>1. PICK a \in Nat, b \in Nat, c \in Nat, o \in Nat, e \in Nat :
          /\ a = Count(due, i) /\ b = Count(done, i) /\ c = Tally(net, i) /\ o = Here(queue, r, i)
          /\ e = Occ(queue["w"][r], i)
    BY <1>0, Terms
  <2>2. Occ(s, i) = 0
    BY <1>3, OccEmpty
  <2>3. Here(queue', r, i) = o - e + Occ(s, i)
    BY <1>4, <2>1 DEF IsSet
  <2>4. Count(due', i) = a - e /\ Count(done', i) = b /\ Tally(net', i) = c /\ Here(queue', r, i) = o - e
    BY <1>2, <1>5, <2>1, <2>2, <2>3
  <2>5. a - e - b - c - (o - e) = a - b - c - o
    OBVIOUS
  <2>6. QED
    BY <2>1, <2>4, <2>5 DEF Balance
<1>12. QED
  BY <1>6, <1>7, <1>8, <1>9, <1>10, <1>11, Keeps

\* What belongs to the two queues of r is set to x and y.
BothSet(f, g, S, r, x, y) ==
  /\ g \in [Queues -> [Ranks -> S]] /\ g["v"][r] = x /\ g["w"][r] = y
  /\ \A u \in Queues, q \in Ranks : q # r => g[u][q] = f[u][q]

LEMMA SetBoth ==
  ASSUME NEW S, NEW f \in [Queues -> [Ranks -> S]], NEW r \in Ranks, NEW x \in S, NEW y \in S,
         NEW g, g = [f EXCEPT !["v"][r] = x, !["w"][r] = y]
  PROVE  BothSet(f, g, S, r, x, y)
<1>0. "v" \in Queues /\ "w" \in Queues /\ "v" # "w" /\ Queues = {"w", "v"}
  BY DEF Queues
<1>1. PICK h : h = [f EXCEPT !["v"][r] = x]
  OBVIOUS
<1>2. /\ h \in [Queues -> [Ranks -> S]] /\ h["v"][r] = x /\ h["w"] = f["w"]
      /\ \A q \in Ranks : q # r => h["v"][q] = f["v"][q]
  BY <1>0, <1>1
<1>3. g = [h EXCEPT !["w"][r] = y]
  BY <1>1
<1>4. /\ g \in [Queues -> [Ranks -> S]] /\ g["w"][r] = y /\ g["v"] = h["v"]
      /\ \A q \in Ranks : q # r => g["w"][q] = h["w"][q]
  BY <1>0, <1>2, <1>3
<1>5. QED
  BY <1>0, <1>2, <1>4 DEF BothSet

\* The first queue is moved into the second.
LEMMA QueueMoved ==
  ASSUME Types, NEW r \in Ranks,
         queue' = [queue EXCEPT !["v"][r] = queue["w"][r], !["w"][r] = <<>>]
  PROVE  /\ queue' \in [Queues -> [Ranks -> Seq(Int)]]
         /\ queue'["w"][r] = <<>> /\ queue'["v"][r] = queue["w"][r]
         /\ \A u \in Queues, q \in Ranks : q # r => queue'[u][q] = queue[u][q]
         /\ \A i : Here(queue', r, i) = Here(queue, r, i) - Occ(queue["v"][r], i)
<1>1. queue \in [Queues -> [Ranks -> Seq(Int)]] /\ "v" \in Queues /\ "w" \in Queues
  BY DEF Types, Queues
<1>2. PICK x \in Seq(Int), y \in Seq(Int), e \in Seq(Int) : x = queue["w"][r] /\ y = queue["v"][r] /\ e = <<>>
  BY <1>1, EmptySeq
<1>3. queue' = [queue EXCEPT !["v"][r] = x, !["w"][r] = e]
  BY <1>2
<1>4. BothSet(queue, queue', Seq(Int), r, x, e)
  BY <1>1, <1>3, SetBoth
<1>5. /\ queue' \in [Queues -> [Ranks -> Seq(Int)]] /\ queue'["w"][r] = e /\ queue'["v"][r] = x
      /\ \A u \in Queues, q \in Ranks : q # r => queue'[u][q] = queue[u][q]
  BY <1>4 DEF BothSet
<1>6. ASSUME NEW i PROVE Here(queue', r, i) = Here(queue, r, i) - Occ(y, i)
  <2>1. Occ(e, i) = 0
    BY <1>2, OccEmpty
  <2>2. Occ(x, i) \in Nat /\ Occ(y, i) \in Nat
    BY OccNat
  <2>3. QED
    BY <1>2, <1>5, <2>1, <2>2 DEF Here
<1>7. QED
  BY <1>2, <1>5, <1>6

\* ... the move constructor ...
LEMMA MoveFromKeeps ==
  ASSUME Bounds, IInv, NEW r \in Ranks, MoveFrom(r)
  PROVE  IInv'
<1>0. Types /\ Flagged(r) /\ Moving(r) /\ NetMoving /\ Queues = {"w", "v"}
  BY DEF IInv, Queues
<1>1. /\ call = "move" /\ EnterBarrier(r) /\ hooks' = hooks /\ due' = due
      /\ queue' = [queue EXCEPT !["v"][r] = queue["w"][r], !["w"][r] = <<>>]
      /\ live' = [live EXCEPT ![r] = {}] /\ flag' = [flag EXCEPT !["v"][r] = FALSE]
  BY DEF MoveFrom
<1>2. /\ at[r] = "app" /\ at'[r] = "barrier" /\ at' \in [Ranks -> {"app", "barrier", "work", "moving"}]
      /\ \A q \in Ranks : q # r => at'[q] = at[q]
      /\ policy' = policy /\ busy' = busy /\ call' = call /\ net' = net /\ done' = done
      /\ \A u : hooks' = hooks => (Hooked(u, r)' <=> Hooked(u, r))
  BY <1>0, <1>1, Enters
<1>3. /\ queue' \in [Queues -> [Ranks -> Seq(Int)]]
      /\ queue'["w"][r] = <<>> /\ queue'["v"][r] = queue["w"][r]
      /\ \A u \in Queues, q \in Ranks : q # r => queue'[u][q] = queue[u][q]
      /\ \A i : Here(queue', r, i) = Here(queue, r, i) - Occ(queue["v"][r], i)
  BY <1>0, <1>1, QueueMoved
<1>4. /\ flag' \in [Queues -> [Ranks -> BOOLEAN]] /\ flag'["v"][r] = FALSE /\ flag'["w"][r] = flag["w"][r]
      /\ \A u \in Queues, q \in Ranks : q # r => flag'[u][q] = flag[u][q]
  BY <1>0, <1>1 DEF Types
<1>5. /\ live' \in [Ranks -> SUBSET Queues] /\ live'[r] = {}
      /\ \A q \in Ranks : q # r => live'[q] = live[q]
  BY <1>0, <1>1 DEF Types
<1>6. Types'
  BY <1>0, <1>1, <1>2, <1>3, <1>4, <1>5 DEF Types, BagToSet
<1>7. Others(r)
  BY <1>1, <1>2, <1>3, <1>4, <1>5 DEF Others
<1>8. Flagged(r)'
  <2>1. Moved(r)'
    BY <1>1, <1>2 DEF Moved
  <2>2. QED
    BY <1>0, <1>1, <1>2, <1>3, <1>4, <2>1 DEF Flagged
<1>9. queue["v"][r] = <<>> /\ ~Hooked("v", r)
  BY <1>0, <1>1, <1>2 DEF Moving
<1>10. Moving(r)'
  BY <1>1, <1>2, <1>5, <1>9 DEF Moving
<1>11. NetMoving'
  BY <1>0, <1>1, <1>2 DEF NetMoving, BagToSet
<1>12. ASSUME NEW i \in Int PROVE Balance(r, i)
  <2>1. Occ(queue["v"][r], i) = 0 /\ Here(queue, r, i) \in Nat
    BY <1>0, <1>9, OccEmpty, Terms
  <2>2. Here(queue', r, i) = Here(queue, r, i)
    BY <1>3, <2>1
  <2>3. QED
    BY <1>1, <1>2, <2>2 DEF Balance
<1>13. QED
  BY <1>6, <1>7, <1>8, <1>10, <1>11, <1>12, Keeps

\* The callback of the second queue is registered.
LEMMA Registers ==
  ASSUME Types, NEW r \in Ranks, NEW c \in BOOLEAN,
         IF c THEN hooks' = [hooks EXCEPT ![r] = Append(@, "v")] ELSE hooks' = hooks
  PROVE  /\ hooks' \in [Ranks -> Seq(Queues)] /\ \A q \in Ranks : q # r => hooks'[q] = hooks[q]
         /\ \A u : InHooks(hooks'[r], u) <=> InHooks(hooks[r], u) \/ (c /\ u = "v")
<1>1. hooks \in [Ranks -> Seq(Queues)] /\ "v" \in Queues
  BY DEF Types, Queues
<1>2. CASE c
  <2>1. PICK h \in Seq(Queues) : /\ h = Append(hooks[r], "v")
                                 /\ \A u : InHooks(h, u) <=> InHooks(hooks[r], u) \/ "v" = u
    <3>1. PICK v \in Queues, k \in Seq(Queues) : v = "v" /\ k = hooks[r]
      BY <1>1
    <3>2. /\ Append(k, v) \in Seq(Queues)
          /\ \A u : InHooks(Append(k, v), u) <=> InHooks(k, u) \/ v = u
      BY HookAppend
    <3>3. QED
      BY <3>1, <3>2
  <2>2. hooks' = [hooks EXCEPT ![r] = h]
    BY <1>2, <2>1
  <2>3. hooks' \in [Ranks -> Seq(Queues)] /\ hooks'[r] = h /\ \A q \in Ranks : q # r => hooks'[q] = hooks[q]
    BY <1>1, <2>2
  <2>4. QED
    BY <1>2, <2>1, <2>3
<1>3. CASE ~c
  BY <1>1, <1>3
<1>4. QED
  BY <1>2, <1>3

\* The rest of the move constructor.
LEMMA MoveEndKeeps ==
  ASSUME Bounds, IInv, NEW r \in Ranks, MoveEnd(r)
  PROVE  IInv'
<1>0. Types /\ Flagged(r) /\ Moving(r) /\ NetMoving /\ Queues = {"w", "v"}
  BY DEF IInv, Queues
<1>1. PICK c \in BOOLEAN : c <=> queue["v"][r] # <<>>
  OBVIOUS
<1>2. /\ at[r] = "moving" /\ live' = [live EXCEPT ![r] = {"v"}] /\ at' = [at EXCEPT ![r] = "app"]
      /\ policy' = policy /\ queue' = queue /\ busy' = busy /\ call' = call
      /\ net' = net /\ due' = due /\ done' = done
  BY DEF MoveEnd
<1>3. IF c THEN hooks' = [hooks EXCEPT ![r] = Append(@, "v")] ELSE hooks' = hooks
  BY <1>1 DEF MoveEnd
<1>4. IF c THEN flag' = [flag EXCEPT !["v"][r] = TRUE, !["w"][r] = FALSE]
           ELSE flag' = [flag EXCEPT !["w"][r] = FALSE]
  BY <1>1 DEF MoveEnd
<1>5. /\ hooks' \in [Ranks -> Seq(Queues)] /\ \A q \in Ranks : q # r => hooks'[q] = hooks[q]
      /\ \A u : InHooks(hooks'[r], u) <=> InHooks(hooks[r], u) \/ (c /\ u = "v")
  BY <1>0, <1>3, Registers
<1>6. /\ flag' \in [Queues -> [Ranks -> BOOLEAN]] /\ flag'["w"][r] = FALSE
      /\ flag'["v"][r] = (c \/ flag["v"][r])
      /\ \A u \in Queues, q \in Ranks : q # r => flag'[u][q] = flag[u][q]
  <2>0. flag \in [Queues -> [Ranks -> BOOLEAN]]
    BY <1>0 DEF Types
  <2>1. CASE c
    <3>1. flag' = [flag EXCEPT !["v"][r] = TRUE, !["w"][r] = FALSE]
      BY <1>4, <2>1
    <3>2. PICK B : B = BOOLEAN
      OBVIOUS
    <3>3. PICK t \in B, f \in B : t = TRUE /\ f = FALSE
      BY <3>2
    <3>4. flag' = [flag EXCEPT !["v"][r] = t, !["w"][r] = f]
      BY <3>1, <3>3, Zenon
    <3>5. BothSet(flag, flag', B, r, t, f)
      <4>1. flag \in [Queues -> [Ranks -> B]]
        BY <2>0, <3>2, Zenon
      <4>2. PICK x, y : x = flag /\ y = flag'
        OBVIOUS
      <4>3. x \in [Queues -> [Ranks -> B]] /\ y = [x EXCEPT !["v"][r] = t, !["w"][r] = f]
        BY <3>4, <4>1, <4>2, Zenon
      <4>4. BothSet(x, y, B, r, t, f)
        BY <4>3, SetBoth
      <4>5. QED
        BY <4>2, <4>4
    <3>6. QED
      BY <2>1, <3>2, <3>3, <3>5 DEF BothSet
  <2>2. CASE ~c
    <3>1. flag' = [flag EXCEPT !["w"][r] = FALSE]
      BY <1>4, <2>2
    <3>2. QED
      BY <1>0, <2>0, <2>2, <3>1
  <2>3. QED
    BY <2>1, <2>2
<1>7. /\ live' \in [Ranks -> SUBSET Queues] /\ \A q \in Ranks : q # r => live'[q] = live[q]
      /\ at' \in [Ranks -> {"app", "barrier", "work", "moving"}] /\ at'[r] = "app"
      /\ \A q \in Ranks : q # r => at'[q] = at[q]
  BY <1>0, <1>2 DEF Types
<1>8. Types'
  BY <1>0, <1>2, <1>5, <1>6, <1>7 DEF Types, BagToSet
<1>9. Others(r)
  BY <1>2, <1>5, <1>6, <1>7 DEF Others
<1>10. queue["w"][r] = <<>> /\ call # "move"
  BY <1>0, <1>2 DEF Moving
<1>11. Flagged(r)'
  <2>1. flag["v"][r] => InHooks(hooks[r], "v")
    BY <1>0, <1>2 DEF Flagged, Hooked
  <2>2. flag'["v"][r] => Hooked("v", r)'
    BY <1>5, <1>6, <2>1 DEF Hooked
  <2>3. QED
    BY <1>0, <1>1, <1>2, <1>6, <1>10, <2>2 DEF Flagged
<1>12. Moving(r)'
  BY <1>2, <1>7, <1>10 DEF Moving
<1>13. NetMoving'
  BY <1>0, <1>2 DEF NetMoving, BagToSet
<1>14. \A i \in Int : Balance(r, i)
  BY <1>2, Stays
<1>15. QED
  BY <1>8, <1>9, <1>11, <1>12, <1>13, <1>14, Keeps

\* The move assignment.
LEMMA MoveAssignKeeps ==
  ASSUME Bounds, IInv, NEW r \in Ranks, MoveAssign(r)
  PROVE  IInv'
<1>0. Types /\ Flagged(r) /\ Moving(r) /\ NetMoving /\ Queues = {"w", "v"}
  BY DEF IInv, Queues
<1>1. PICK c \in BOOLEAN : c <=> queue["w"][r] # <<>>
  OBVIOUS
<1>2. /\ at[r] = "app" /\ live[r] = {"w", "v"}
      /\ queue' = [queue EXCEPT !["v"][r] = queue["w"][r], !["w"][r] = <<>>]
      /\ due' = due (-) BagOf(queue["v"][r])
      /\ policy' = policy /\ live' = live /\ at' = at /\ busy' = busy /\ call' = call
      /\ net' = net /\ done' = done
  BY DEF MoveAssign
<1>3. IF c THEN hooks' = [hooks EXCEPT ![r] = Append(@, "v")] ELSE hooks' = hooks
  BY <1>1 DEF MoveAssign
<1>4. IF c THEN flag' = [flag EXCEPT !["v"][r] = TRUE, !["w"][r] = FALSE]
           ELSE flag' = [flag EXCEPT !["v"][r] = FALSE, !["w"][r] = FALSE]
  BY <1>1 DEF MoveAssign
<1>5. /\ hooks' \in [Ranks -> Seq(Queues)] /\ \A q \in Ranks : q # r => hooks'[q] = hooks[q]
      /\ \A u : InHooks(hooks'[r], u) <=> InHooks(hooks[r], u) \/ (c /\ u = "v")
  BY <1>0, <1>3, Registers
<1>6. /\ flag' \in [Queues -> [Ranks -> BOOLEAN]] /\ flag'["w"][r] = FALSE /\ flag'["v"][r] = c
      /\ \A u \in Queues, q \in Ranks : q # r => flag'[u][q] = flag[u][q]
  <2>0. flag \in [Queues -> [Ranks -> BOOLEAN]]
    BY <1>0 DEF Types
  <2>1. flag' = [flag EXCEPT !["v"][r] = c, !["w"][r] = FALSE]
    <3>1. CASE c
      <4>1. c = TRUE
        BY <3>1
      <4>2. QED
        BY <1>4, <4>1
    <3>2. CASE ~c
      <4>1. c = FALSE
        BY <3>2
      <4>2. QED
        BY <1>4, <4>1
    <3>3. QED
      BY <3>1, <3>2
  <2>2. PICK B : B = BOOLEAN
    OBVIOUS
  <2>3. PICK t \in B, f \in B : t = c /\ f = FALSE
    BY <2>2
  <2>4. flag' = [flag EXCEPT !["v"][r] = t, !["w"][r] = f]
    BY <2>1, <2>3, Zenon
  <2>5. BothSet(flag, flag', B, r, t, f)
    <3>1. flag \in [Queues -> [Ranks -> B]]
      BY <2>0, <2>2, Zenon
    <3>2. PICK x, y : x = flag /\ y = flag'
      OBVIOUS
    <3>3. x \in [Queues -> [Ranks -> B]] /\ y = [x EXCEPT !["v"][r] = t, !["w"][r] = f]
      BY <2>4, <3>1, <3>2, Zenon
    <3>4. BothSet(x, y, B, r, t, f)
      BY <3>3, SetBoth
    <3>5. QED
      BY <3>2, <3>4
  <2>6. QED
    BY <2>2, <2>3, <2>5 DEF BothSet
<1>7. /\ queue' \in [Queues -> [Ranks -> Seq(Int)]]
      /\ queue'["w"][r] = <<>> /\ queue'["v"][r] = queue["w"][r]
      /\ \A u \in Queues, q \in Ranks : q # r => queue'[u][q] = queue[u][q]
      /\ \A i : Here(queue', r, i) = Here(queue, r, i) - Occ(queue["v"][r], i)
  BY <1>0, <1>2, QueueMoved
<1>8. /\ IsABag(due') /\ BagToSet(due') \subseteq Int
      /\ \A i \in Int : Count(due', i) = Count(due, i) - Occ(queue["v"][r], i)
  <2>1. "v" \in Queues
    BY <1>0
  <2>2. QED
    BY <1>2, <2>1, Discards DEF BagToSet
<1>9. Types'
  BY <1>0, <1>2, <1>5, <1>6, <1>7, <1>8 DEF Types, BagToSet
<1>10. Others(r)
  <2>1. \A q \in Ranks \ {r} : hooks'[q] = hooks[q]
    BY <1>5
  <2>2. \A q \in Ranks \ {r}, u \in Queues : queue'[u][q] = queue[u][q] /\ flag'[u][q] = flag[u][q]
    BY <1>6, <1>7
  <2>3. QED
    BY <1>2, <2>1, <2>2 DEF Others
<1>11. Flagged(r)'
  <2>1. c => Hooked("v", r)'
    BY <1>5 DEF Hooked
  <2>2. QED
    BY <1>0, <1>1, <1>6, <1>7, <2>1 DEF Flagged
<1>12. call # "move"
  BY <1>0, <1>2 DEF Moving
<1>13. Moving(r)'
  BY <1>2, <1>12 DEF Moving
<1>14. NetMoving'
  BY <1>0, <1>2 DEF NetMoving, BagToSet
<1>15. ASSUME NEW i \in Int PROVE Balance(r, i)
  <2>1. PICK a \in Nat, b \in Nat, k \in Nat, o \in Nat, e \in Nat :
          /\ a = Count(due, i) /\ b = Count(done, i) /\ k = Tally(net, i) /\ o = Here(queue, r, i)
          /\ e = Occ(queue["v"][r], i)
    BY <1>0, Terms
  <2>2. Count(due', i) = a - e /\ Count(done', i) = b /\ Tally(net', i) = k /\ Here(queue', r, i) = o - e
    BY <1>2, <1>7, <1>8, <2>1
  <2>3. a - e - b - k - (o - e) = a - b - k - o
    OBVIOUS
  <2>4. QED
    BY <2>1, <2>2, <2>3 DEF Balance
<1>16. QED
  BY <1>9, <1>10, <1>11, <1>13, <1>14, <1>15, Keeps

\* When a barrier is over, only what a queue under construction has got is left.
LEMMA OverEmpty ==
  ASSUME IInv, BarrierOver, NEW r \in Ranks
  PROVE  /\ at[r] = "barrier" /\ hooks[r] = <<>> /\ \A w : ~InHooks(hooks[r], w)
         /\ \A w \in Queues : ~flag[w][r]
         /\ queue["w"][r] = <<>> /\ (call # "move" => queue["v"][r] = <<>>)
<1>1. at[r] = "barrier" /\ hooks[r] = <<>> /\ Flagged(r) /\ "v" \in Queues /\ "w" \in Queues
  BY DEF IInv, BarrierOver, Queues
<1>2. \A w : ~InHooks(hooks[r], w)
  BY <1>1 DEF InHooks
<1>3. \A w \in Queues : ~flag[w][r]
  BY <1>1, <1>2 DEF Flagged, Hooked
<1>4. queue["w"][r] = <<>>
  BY <1>1, <1>3 DEF Flagged
<1>5. call # "move" => queue["v"][r] = <<>>
  BY <1>1, <1>3 DEF Flagged, Moved
<1>6. QED
  BY <1>1, <1>2, <1>3, <1>4, <1>5

\* The barrier ends for all ranks, and they choose the next collective.
LEMMA ReleaseKeeps ==
  ASSUME Bounds, IInv, Release
  PROVE  IInv'
<1>0. Types /\ Conserved /\ Queues = {"w", "v"} /\ BarrierOver
  BY DEF IInv, Queues, Release
<1>1. /\ at' = [r \in Ranks |-> IF call = "move" THEN "moving" ELSE "app"]
      /\ policy' = policy /\ queue' = queue /\ flag' = flag /\ hooks' = hooks /\ busy' = busy
      /\ net' = net /\ due' = due /\ done' = done
  BY DEF Release, queueVars
<1>2. \/ Single /\ call' \in Collectives /\ live' = live
      \/ Single /\ call' = "barrier" /\ live' = [r \in Ranks |-> Queues]
      \/ ~Single /\ call' = "barrier" /\ live' = live
  BY DEF Release
<1>3. at' \in [Ranks -> {"app", "barrier", "work", "moving"}]
  BY <1>1
<1>4. live' \in [Ranks -> SUBSET Queues] /\ call' \in Collectives
  BY <1>0, <1>2 DEF Types, Collectives
<1>5. Types'
  BY <1>0, <1>1, <1>3, <1>4 DEF Types, BagToSet
<1>6. Conserved'
  BY <1>0, <1>1 DEF Conserved
<1>7. net' = EmptyBag
  BY <1>0, <1>1 DEF BarrierOver
<1>8. NetMoving'
  <2>1. BagToSet(net') = {}
    BY <1>7 DEF BagToSet, EmptyBag, SetToBag
  <2>2. QED
    BY <2>1 DEF NetMoving, BagToSet
<1>9. ASSUME NEW r \in Ranks PROVE Flagged(r)' /\ Moving(r)'
  <2>1. /\ at[r] = "barrier" /\ hooks[r] = <<>> /\ \A w : ~InHooks(hooks[r], w)
        /\ \A w \in Queues : ~flag[w][r]
        /\ queue["w"][r] = <<>> /\ (call # "move" => queue["v"][r] = <<>>)
    BY <1>0, OverEmpty
  <2>2. at'[r] = IF call = "move" THEN "moving" ELSE "app"
    BY <1>1
  <2>3. Flagged(r)'
    BY <1>0, <1>1, <2>1, <2>2 DEF Flagged, Moved
  <2>4. call = "move" => live[r] = {}
    BY <2>1 DEF IInv, Moving
  <2>5. call' = "move" => live'[r] = {"w"} /\ live[r] = {"w"}
    BY <1>2 DEF Single
  <2>6. \A w : ~Hooked(w, r)'
    BY <1>1, <2>1, <2>2 DEF Hooked
  <2>7. Moving(r)'
    BY <1>1, <2>1, <2>2, <2>4, <2>5, <2>6 DEF Moving
  <2>8. QED
    BY <2>3, <2>7
<1>10. QED
  BY <1>5, <1>6, <1>8, <1>9 DEF IInv

\* Nothing changes.
LEMMA StutterKeeps ==
  ASSUME IInv, UNCHANGED vars
  PROVE  IInv'
<1>1. UNCHANGED <<policy, live, queue, flag, hooks, at, busy, call, net, due, done>>
  BY DEF vars
<1>2. Types'
  BY <1>1 DEF IInv, Types, BagToSet
<1>3. Conserved'
  BY <1>1 DEF IInv, Conserved
<1>4. NetMoving'
  BY <1>1 DEF IInv, NetMoving, BagToSet
<1>5. ASSUME NEW r \in Ranks PROVE Flagged(r)' /\ Moving(r)'
  BY <1>1 DEF IInv, Flagged, Moving, Moved, Hooked
<1>6. QED
  BY <1>2, <1>3, <1>4, <1>5 DEF IInv

\* At first there is nothing.
LEMMA InitKeeps ==
  ASSUME Bounds, Init
  PROVE  IInv
<1>0. Queues = {"w", "v"} /\ Collectives = {"barrier", "clear", "move"}
  BY DEF Queues, Collectives
<1>1. IsABag(EmptyBag) /\ BagToSet(EmptyBag) = {} /\ \A i : Count(EmptyBag, i) = 0
  BY DEF IsABag, EmptyBag, SetToBag, BagToSet, Count
<1>2. IsFiniteSet(BagToSet(EmptyBag))
  BY <1>1, FS_EmptySet
<1>3. queue \in [Queues -> [Ranks -> Seq(Int)]] /\ hooks \in [Ranks -> Seq(Queues)]
  <2>1. PICK e \in Seq(Int) : e = <<>>
    BY EmptySeq
  <2>2. PICK h \in Seq(Queues) : h = <<>>
    BY EmptySeq
  <2>3. queue = [w \in Queues |-> [r \in Ranks |-> e]] /\ hooks = [r \in Ranks |-> h]
    BY <2>1, <2>2 DEF Init
  <2>4. QED
    BY <2>3
<1>4. flag \in [Queues -> [Ranks -> BOOLEAN]]
  BY DEF Init
<1>5. /\ policy \in Policies /\ live \in [Ranks -> SUBSET Queues]
      /\ at \in [Ranks -> {"app", "barrier", "work", "moving"}] /\ busy \in [Ranks -> Queues]
      /\ call \in Collectives /\ net = EmptyBag /\ due = EmptyBag /\ done = EmptyBag
  BY <1>0 DEF Init
<1>6. Types
  BY <1>1, <1>2, <1>3, <1>4, <1>5 DEF Types
<1>7. ASSUME NEW r \in Ranks
      PROVE  /\ at[r] = "app" /\ live[r] = {"w"} /\ \A w \in Queues : queue[w][r] = <<>> /\ ~flag[w][r]
             /\ \A w : ~InHooks(hooks[r], w)
  BY <1>0 DEF Init, InHooks
<1>8. Conserved
  <2>1. SUFFICES ASSUME NEW i \in Int
                 PROVE  Count(due, i) = Count(done, i) + Tally(net, i) + Stock(queue["w"], queue["v"], i)
    BY DEF Conserved
  <2>2. Tally(net, i) = 0
    BY <1>1, <1>5, SumEmpty DEF Tally
  <2>3. \A r \in Ranks : queue["w"][r] = <<>> /\ queue["v"][r] = <<>>
    BY <1>0, <1>7
  <2>4. queue["w"] \in [Ranks -> Seq(Int)] /\ queue["v"] \in [Ranks -> Seq(Int)]
    BY <1>0, <1>3
  <2>5. Stock(queue["w"], queue["v"], i) = 0
    BY <2>3, StockEmpty
  <2>6. QED
    BY <1>1, <1>5, <2>2, <2>5
<1>9. NetMoving
  BY <1>1, <1>5 DEF NetMoving
<1>10. ASSUME NEW r \in Ranks PROVE Flagged(r) /\ Moving(r)
  <2>1. Flagged(r)
    BY <1>7 DEF Flagged
  <2>2. Moving(r)
    BY <1>0, <1>7 DEF Moving, Hooked
  <2>3. QED
    BY <2>1, <2>2
<1>11. QED
  BY <1>6, <1>8, <1>9, <1>10 DEF IInv

-----------------------------------------------------------------------------
(***************************************************************************)
(* The theorems.                                                           *)
(***************************************************************************)
\* The invariant is one: initially, and in every step of the program, of a
\* handler and of a barrier, under any scheduling and for each policy.
THEOREM Inductive ==
  ASSUME Bounds
  PROVE  Spec => []IInv
<1>1. Init => IInv
  BY InitKeeps
<1>2. IInv /\ [Next]_vars => IInv'
  <2> SUFFICES ASSUME IInv, [Next]_vars PROVE IInv'
    OBVIOUS
  <2>1. CASE UNCHANGED vars
    BY <2>1, StutterKeeps
  <2>2. ASSUME NEW r \in Ranks, NEW w \in Queues, NEW i \in Items, Insert(r, w, i) PROVE IInv'
    BY <2>2, InsertKeeps
  <2>3. ASSUME NEW r \in Ranks, NEW d \in Ranks, NEW w \in Queues, NEW i \in Items, AsyncInsert(r, d, w, i)
        PROVE  IInv'
    BY <2>3, AsyncInsertKeeps
  <2>4. ASSUME NEW r \in Ranks, RunHook(r) PROVE IInv'
    BY <2>4, RunHookKeeps
  <2>5. ASSUME NEW r \in Ranks, local_process_all(r) PROVE IInv'
    BY <2>5, ProcessKeeps
  <2>6. ASSUME NEW r \in Ranks, Processed(r) PROVE IInv'
    BY <2>6, ProcessedKeeps
  <2>7. ASSUME NEW r \in Ranks, CallBarrier(r) PROVE IInv'
    BY <2>7, CallBarrierKeeps
  <2>8. ASSUME NEW r \in Ranks, Clear(r) PROVE IInv'
    BY <2>8, ClearKeeps
  <2>9. ASSUME NEW r \in Ranks, MoveFrom(r) PROVE IInv'
    BY <2>9, MoveFromKeeps
  <2>10. ASSUME NEW r \in Ranks, MoveEnd(r) PROVE IInv'
    BY <2>10, MoveEndKeeps
  <2>11. ASSUME NEW r \in Ranks, MoveAssign(r) PROVE IInv'
    BY <2>11, MoveAssignKeeps
  <2>12. ASSUME NEW m \in BagToSet(net), HandleInsert(m) PROVE IInv'
    BY <2>12, HandleInsertKeeps
  <2>13. CASE Release
    BY <2>13, ReleaseKeeps
  <2>14. CASE Finished
    BY <2>14, StutterKeeps DEF Finished
  <2>15. QED
    BY <2>1, <2>2, <2>3, <2>4, <2>5, <2>6, <2>7, <2>8, <2>9, <2>10, <2>11, <2>12, <2>13, <2>14 DEF Next
<1>3. QED
  BY <1>1, <1>2, PTL DEF Spec

\* What the second queue holds, as a bag.
LEMMA HeldBag ==
  ASSUME Bounds, Types
  PROVE  /\ IsABag(Held("v"))
         /\ (\A r \in Ranks : queue["w"][r] = <<>>) =>
              \A i : Count(Held("v"), i) = Stock(queue["w"], queue["v"], i)
<1>1. queue["w"] \in [Ranks -> Seq(Int)] /\ queue["v"] \in [Ranks -> Seq(Int)] /\ IsFiniteSet(Ranks)
  BY DEF Types, Queues, Bounds
<1> DEFINE U == UNION {Range(queue["v"][r]) : r \in Ranks}
           f(i) == [r \in Ranks |-> Occ(queue["v"][r], i)]
           S(i) == SumFunctionOnSet(f(i), Ranks)
<1>2. PICK H : H = Held("v")
  OBVIOUS
<1>3. H = [i \in U |-> S(i)]
  BY <1>2 DEF Held, SumFunction
<1>4. \A i : \A r \in Ranks : f(i)[r] \in Nat /\ f(i)[r] = Occ(queue["v"][r], i)
  BY <1>1, OccNat
<1>5. ASSUME NEW i
      PROVE  /\ S(i) \in Nat /\ \A r \in Ranks : Occ(queue["v"][r], i) <= S(i)
             /\ (\A r \in Ranks : Occ(queue["v"][r], i) = 0) => S(i) = 0
  <2>1. PICK g : g = f(i)
    OBVIOUS
  <2>2. \A r \in Ranks : g[r] \in Nat /\ g[r] = Occ(queue["v"][r], i)
    BY <1>4, <2>1
  <2>3. /\ SumFunctionOnSet(g, Ranks) \in Nat
        /\ \A r \in Ranks : g[r] <= SumFunctionOnSet(g, Ranks)
        /\ (\A r \in Ranks : g[r] = 0) => SumFunctionOnSet(g, Ranks) = 0
    BY <1>1, <2>2, SumNat
  <2>4. QED
    BY <2>1, <2>2, <2>3
<1>6. ASSUME NEW q \in Seq(Int), NEW i
      PROVE  /\ i \in Range(q) => Occ(q, i) \in Nat /\ Occ(q, i) > 0
             /\ i \notin Range(q) => Occ(q, i) = 0
  <2>1. IsABag(BagOf(q)) /\ Count(BagOf(q), i) = Occ(q, i)
    BY BagOfQueue
  <2>2. QED
    BY <2>1 DEF IsABag, Count, BagOf
<1> HIDE DEF S
<1>7. ASSUME NEW i \in U PROVE S(i) \in Nat /\ S(i) > 0
  <2>1. PICK r \in Ranks : i \in Range(queue["v"][r])
    OBVIOUS
  <2>2. Occ(queue["v"][r], i) \in Nat /\ Occ(queue["v"][r], i) > 0
    BY <1>1, <1>6, <2>1
  <2>3. QED
    BY <1>5, <2>2
<1>8. ASSUME NEW i, i \notin U PROVE S(i) = 0
  <2>1. \A r \in Ranks : i \notin Range(queue["v"][r])
    BY <1>8
  <2>2. \A r \in Ranks : Occ(queue["v"][r], i) = 0
    BY <1>1, <1>6, <2>1
  <2>3. QED
    BY <1>5, <2>2
<1> HIDE DEF U
<1>9. IsABag(H)
  BY <1>3, <1>7 DEF IsABag
<1>10. \A i : Count(H, i) = S(i)
  BY <1>3, <1>8 DEF Count
<1>11. ASSUME \A r \in Ranks : queue["w"][r] = <<>>, NEW i PROVE S(i) = Stock(queue["w"], queue["v"], i)
  <2>1. PICK g : g = [r \in Ranks |-> Occ(queue["w"][r], i) + Occ(queue["v"][r], i)]
    OBVIOUS
  <2>2. PICK h : h = f(i)
    OBVIOUS
  <2>3. \A r \in Ranks : h[r] = g[r]
    BY <1>4, <1>11, <2>1, <2>2, OccEmpty
  <2>4. SumFunctionOnSet(h, Ranks) = SumFunctionOnSet(g, Ranks)
    BY <1>1, <2>3, SumSame
  <2>5. QED
    BY <2>1, <2>2, <2>4 DEF S, Stock
<1>12. QED
  BY <1>2, <1>9, <1>10, <1>11

\* The work is done when a barrier is over: WorkDone, for any number of ranks,
\* items, insertions and collectives.
THEOREM WorkIsDone ==
  ASSUME Bounds
  PROVE  Spec => []WorkDone
<1>1. IInv => WorkDone
  <2> SUFFICES ASSUME IInv, BarrierOver
               PROVE  /\ done (+) Held("v") = due
                      /\ \A w \in Queues, r \in Ranks : (call = "move" /\ w = "v") \/ queue[w][r] = <<>>
    BY DEF WorkDone
  <2>1. \A r \in Ranks : queue["w"][r] = <<>> /\ (call # "move" => queue["v"][r] = <<>>)
    BY OverEmpty
  <2>2. \A w \in Queues, r \in Ranks : (call = "move" /\ w = "v") \/ queue[w][r] = <<>>
    BY <2>1 DEF Queues
  <2>3. IsABag(due) /\ IsABag(done) /\ Types /\ BagToSet(due) \subseteq Int /\ BagToSet(done) \subseteq Int
    BY DEF IInv, Types
  <2>4. PICK h : /\ h = Held("v") /\ IsABag(h)
                 /\ \A i : Count(h, i) = Stock(queue["w"], queue["v"], i)
    BY <2>1, <2>3, HeldBag
  <2>5. PICK b : b = done (+) h
    OBVIOUS
  <2>6. IsABag(b) /\ \A i : Count(b, i) = Count(done, i) + Count(h, i)
    BY <2>3, <2>4, <2>5, CountUnion
  <2>7. ASSUME NEW i PROVE Count(b, i) = Count(due, i)
    <3>1. CASE i \in Int
      <4>1. Tally(net, i) = 0
        BY SumEmpty DEF BarrierOver, Tally, EmptyBag, SetToBag, BagToSet
      <4>2. Count(due, i) = Count(done, i) + Tally(net, i) + Stock(queue["w"], queue["v"], i)
        BY <3>1 DEF IInv, Conserved
      <4>3. Count(done, i) \in Nat /\ Stock(queue["w"], queue["v"], i) \in Nat
        BY <2>3, Terms
      <4>4. QED
        BY <2>4, <2>6, <4>1, <4>2, <4>3
    <3>2. CASE i \notin Int
      <4>1. Count(due, i) = 0 /\ Count(done, i) = 0
        BY <2>3, <3>2 DEF Count, BagToSet
      <4>2. \A r \in Ranks : Occ(queue["w"][r], i) = 0 /\ Occ(queue["v"][r], i) = 0
        BY <2>3, <3>2, OccOnly DEF Types, Queues
      <4>3. Stock(queue["w"], queue["v"], i) = 0
        BY <4>2, StockZero
      <4>4. QED
        BY <2>4, <2>6, <4>1, <4>3
    <3>3. QED
      BY <3>1, <3>2
  <2>8. b = due
    BY <2>3, <2>6, <2>7, SameBag
  <2>9. QED
    BY <2>2, <2>4, <2>5, <2>8
<1>2. QED
  BY Inductive, <1>1, PTL

-----------------------------------------------------------------------------
(***************************************************************************)
(* ReducingCache, for any number of ranks, keys, slots and reductions: a   *)
(* barrier leaves each reduction in the container, exactly once.           *)
(*                                                                         *)
(* A reduction that is due is in the container, in a message or in a cache *)
(* (Balanced).  Which calls a rank may be in, and that the slot it is      *)
(* flushing still holds the entry it is sending, says Fits; that a cache   *)
(* with an entry has its callback registered or running, EmptySound; that  *)
(* what goes to a cache on the only node goes to the owner, InTransit.     *)
(***************************************************************************)
CONSTANTS Keys, Owner, NumSlots, Slot, NextHop, Uses, MaxReduces, None
VARIABLES use, cache, empty, stack, table

Red == INSTANCE ReducingCache

-----------------------------------------------------------------------------
(***************************************************************************)
(* What the messages of a bag carry, one by one w[m].                      *)
(***************************************************************************)
Load(n, w) == SumFunctionOnSet([m \in BagToSet(n) |-> n[m] * w[m]], BagToSet(n))

\* A message is sent ...
LEMMA BagPlus ==
  ASSUME NEW n, NEW m, IsABag(n)
  PROVE  /\ IsABag(n (+) SetToBag({m}))
         /\ BagToSet(n (+) SetToBag({m})) = BagToSet(n) \cup {m}
         /\ \A x \in BagToSet(n) : x # m => (n (+) SetToBag({m}))[x] = n[x]
         /\ (n (+) SetToBag({m}))[m] = (IF m \in BagToSet(n) THEN n[m] ELSE 0) + 1
         /\ \A x \in BagToSet(n) : n[x] \in Nat \ {0}
BY DEF BagToSet, SetToBag, (+), IsABag

\* ... and received.
LEMMA BagRest ==
  ASSUME NEW n, IsABag(n), NEW m \in BagToSet(n)
  PROVE  /\ IsABag(n (-) SetToBag({m}))
         /\ BagToSet(n (-) SetToBag({m})) = IF n[m] = 1 THEN BagToSet(n) \ {m} ELSE BagToSet(n)
         /\ \A x \in BagToSet(n) : x # m => (n (-) SetToBag({m}))[x] = n[x]
         /\ n[m] # 1 => (n (-) SetToBag({m}))[m] = n[m] - 1
         /\ \A x \in BagToSet(n) : n[x] \in Nat \ {0}
<1>1. /\ IsABag(n (-) SetToBag({m}))
      /\ BagToSet(n (-) SetToBag({m})) = IF n[m] = 1 THEN BagToSet(n) \ {m} ELSE BagToSet(n)
  BY DEF BagToSet, SetToBag, (-), IsABag
<1>2. QED
  BY <1>1 DEF BagToSet, SetToBag, (-), IsABag

\* Sending adds what the message carries.
LEMMA LoadPlus ==
  ASSUME NEW M, NEW w \in [M -> Nat], NEW n, IsABag(n), IsFiniteSet(BagToSet(n)), BagToSet(n) \subseteq M,
         NEW m \in M
  PROVE  /\ IsABag(n (+) SetToBag({m})) /\ IsFiniteSet(BagToSet(n (+) SetToBag({m})))
         /\ BagToSet(n (+) SetToBag({m})) = BagToSet(n) \cup {m}
         /\ Load(n, w) \in Nat
         /\ Load(n (+) SetToBag({m}), w) = Load(n, w) + w[m]
<1> DEFINE p == n (+) SetToBag({m})
           T == BagToSet(n)
           U == BagToSet(p)
           f == [x \in T |-> n[x] * w[x]]
           g == [x \in U |-> p[x] * w[x]]
           V == T \ {m}
           S(h, X) == SumFunctionOnSet(h, X)
<1>1. /\ IsABag(p) /\ U = T \cup {m} /\ \A x \in T : x # m => p[x] = n[x]
      /\ p[m] = (IF m \in T THEN n[m] ELSE 0) + 1 /\ \A x \in T : n[x] \in Nat \ {0}
  BY BagPlus
<1>2. IsFiniteSet(U) /\ IsFiniteSet(V) /\ IsFiniteSet(T)
  BY <1>1, FS_AddElement, FS_Subset
<1>3. \A x \in U : w[x] \in Nat
  BY <1>1
<1>6. Load(n, w) = S(f, T) /\ Load(p, w) = S(g, U)
  BY DEF Load
<1> HIDE DEF p, U, T
<1>4. ASSUME NEW x \in T PROVE f[x] \in Nat
  <2>1. n[x] \in Nat /\ w[x] \in Nat /\ f[x] = n[x] * w[x]
    BY <1>1, <1>3
  <2>2. QED
    BY <2>1
<1>5. ASSUME NEW x \in U PROVE g[x] \in Nat
  <2>1. p[x] \in Nat /\ w[x] \in Nat /\ g[x] = p[x] * w[x]
    BY <1>1, <1>3
  <2>2. QED
    BY <2>1
<1>7. \A x \in V : f[x] = g[x]
  BY <1>1
<1>8. g[m] = p[m] * w[m] /\ m \in U /\ U \ {m} = V
  BY <1>1
<1>9. m \in T => f[m] = n[m] * w[m]
  OBVIOUS
<1> HIDE DEF f, g
<1>10. S(f, T) \in Nat /\ S(g, U) \in Nat
  BY <1>2, <1>4, <1>5, SumNat
<1>11. S(f, V) = S(g, V)
  BY <1>2, <1>7, SumSame
<1>12. S(g, V) \in Int /\ S(g, U) = g[m] + S(g, V)
  <2>1. \A x \in U : g[x] \in Int
    BY <1>5
  <2>2. \A x \in U : S(g, U \ {x}) \in Int /\ S(g, U) = g[x] + S(g, U \ {x})
    BY <1>2, <2>1, SumTake
  <2> HIDE DEF S
  <2>3. QED
    BY <1>8, <2>2
<1>13. S(g, U) = S(f, T) + w[m]
  <2>1. CASE m \notin T
    <3>1. V = T /\ p[m] = 1 /\ w[m] \in Nat
      BY <1>1, <1>3, <1>8, <2>1
    <3>2. g[m] = w[m] /\ S(g, V) = S(f, T)
      BY <1>8, <1>11, <3>1
    <3> HIDE DEF S
    <3>3. QED
      BY <1>10, <1>12, <3>1, <3>2
  <2>2. CASE m \in T
    <3>1. S(f, V) \in Int /\ S(f, T) = f[m] + S(f, V)
      <4>1. \A x \in T : f[x] \in Int
        BY <1>4
      <4>2. \A x \in T : S(f, T \ {x}) \in Int /\ S(f, T) = f[x] + S(f, T \ {x})
        BY <1>2, <4>1, SumTake
      <4> HIDE DEF S
      <4>3. QED
        BY <2>2, <4>2
    <3>2. p[m] = n[m] + 1 /\ n[m] \in Nat /\ w[m] \in Nat
      BY <1>1, <1>3, <1>8, <2>2
    <3>3. g[m] = f[m] + w[m] /\ f[m] \in Nat
      BY <1>4, <1>8, <1>9, <2>2, <3>2
    <3>4. S(g, V) = S(f, V)
      BY <1>11
    <3> HIDE DEF S
    <3>5. QED
      BY <1>10, <1>12, <3>1, <3>2, <3>3, <3>4
  <2>3. QED
    BY <2>1, <2>2
<1>14. QED
  BY <1>1, <1>2, <1>6, <1>10, <1>13 DEF p, U, T

\* Receiving subtracts it.
LEMMA LoadRest ==
  ASSUME NEW M, NEW w \in [M -> Nat], NEW b, IsABag(b), IsFiniteSet(BagToSet(b)), BagToSet(b) \subseteq M,
         NEW m \in BagToSet(b)
  PROVE  /\ IsABag(b (-) SetToBag({m})) /\ IsFiniteSet(BagToSet(b (-) SetToBag({m})))
         /\ BagToSet(b (-) SetToBag({m})) \subseteq BagToSet(b)
         /\ Load(b (-) SetToBag({m}), w) \in Nat
         /\ Load(b, w) = Load(b (-) SetToBag({m}), w) + w[m]
<1> DEFINE n == b (-) SetToBag({m})
           p == n (+) SetToBag({m})
<1>1. /\ IsABag(n)
      /\ BagToSet(n) = IF b[m] = 1 THEN BagToSet(b) \ {m} ELSE BagToSet(b)
      /\ \A x \in BagToSet(b) : x # m => n[x] = b[x]
      /\ b[m] # 1 => n[m] = b[m] - 1
      /\ \A x \in BagToSet(b) : b[x] \in Nat \ {0}
  BY BagRest
<1>2. IsFiniteSet(BagToSet(n)) /\ BagToSet(n) \subseteq BagToSet(b)
  BY <1>1, FS_Subset
<1> HIDE DEF n
<1>3. p = b
  <2>1. /\ IsABag(p) /\ BagToSet(p) = BagToSet(n) \cup {m}
        /\ \A x \in BagToSet(n) : x # m => p[x] = n[x]
        /\ p[m] = (IF m \in BagToSet(n) THEN n[m] ELSE 0) + 1
    BY <1>1, BagPlus
  <2> HIDE DEF p
  <2>2. BagToSet(p) = BagToSet(b)
    BY <1>1, <2>1
  <2>3. \A x \in BagToSet(b) : p[x] = b[x]
    BY <1>1, <2>1
  <2>4. DOMAIN p = BagToSet(b) /\ DOMAIN b = BagToSet(b)
    BY <2>2 DEF BagToSet
  <2>5. p = [x \in BagToSet(b) |-> p[x]] /\ b = [x \in BagToSet(b) |-> b[x]]
    BY <2>1, <2>4 DEF IsABag
  <2>6. [x \in BagToSet(b) |-> p[x]] = [x \in BagToSet(b) |-> b[x]]
    BY <2>3
  <2>7. QED
    BY <2>5, <2>6
<1>4. m \in M /\ BagToSet(n) \subseteq M
  BY <1>2
<1>5. Load(n, w) \in Nat /\ Load(p, w) = Load(n, w) + w[m]
  <2>1. IsABag(n) /\ IsFiniteSet(BagToSet(n)) /\ BagToSet(n) \subseteq M /\ m \in M
    BY <1>1, <1>2, <1>4
  <2>2. Load(n, w) \in Nat
    BY <2>1, LoadPlus
  <2>3. Load(p, w) = Load(n, w) + w[m]
    BY <2>1, LoadPlus
  <2> HIDE DEF p
  <2>4. QED
    BY <2>2, <2>3
<1>6. QED
  BY <1>1, <1>2, <1>3, <1>5 DEF n

\* The operators on bags are those that ReducingCache uses.
LEMMA RedBags ==
  /\ \A n, m : Red!Plus(n, m) = n (+) SetToBag({m})
  /\ \A m : Red!Rest(m) = net (-) SetToBag({m})
  /\ \A n : Red!BagToSet(n) = BagToSet(n)
  /\ Red!EmptyBag = EmptyBag
<1>1. \A S : Red!SetToBag(S) = SetToBag(S)
  BY DEF Red!SetToBag, SetToBag
<1>2. \A n : Red!BagToSet(n) = BagToSet(n)
  BY DEF Red!BagToSet, BagToSet
<1>3. \A n, m : Red!Plus(n, m) = n (+) SetToBag({m})
  BY <1>1 DEF Red!Plus, Red!(+), (+), Red!BagToSet, BagToSet
<1>4. \A m : Red!Rest(m) = net (-) SetToBag({m})
  BY <1>1 DEF Red!Rest, Red!(-), (-), Red!BagToSet, BagToSet
<1>5. Red!EmptyBag = EmptyBag
  BY DEF Red!EmptyBag, EmptyBag, Red!SetToBag, SetToBag
<1>6. QED
  BY <1>2, <1>3, <1>4, <1>5

-----------------------------------------------------------------------------
(***************************************************************************)
(* The inductive invariant.                                                *)
(***************************************************************************)
Kept == [key : Keys, value : Nat]
Contents == Kept \cup {Red!Unoccupied}

\* An entry is in the slot of its key.
Caches == {c \in [Red!Slots -> Contents] : \A s \in Red!Slots : c[s] \in Kept => Slot[c[s].key] = s}

Sendings == [op : {"flush"}, slot : Red!Slots, to : Ranks, fill : Contents, packed : BOOLEAN]
Frames == Sendings \cup {Red!App, Red!Barrier} \cup {Red!FlushAll(s) : s \in 1..NumSlots + 1}

Parcels == [op : {"reduce", "cache"}, to : Ranks, key : Keys, value : Nat]

\* The calls that a rank may be in.
AtApp == <<Red!App>>
AtBarrier == <<Red!Barrier>> \o AtApp
AtSlot(s) == <<Red!FlushAll(s)>> \o AtBarrier

\* f flushes an occupied slot of c, over one node directly, for an entry that
\* belongs into that slot.
Flushing(u, c, f) ==
  /\ c[f.slot] \in Kept
  /\ f.fill \in Kept => Slot[f.fill.key] = f.slot
  /\ u.one_node => f.to = Owner[c[f.slot].key]

Flushed(c, s) == \A t \in Red!Slots : t < s => c[t] = Red!Unoccupied

\* The stack t fits the cache c.
Fits(u, c, t) ==
  \/ t = AtApp
  \/ t = AtBarrier
  \/ \E s \in 1..NumSlots + 1 : t = AtSlot(s) /\ Flushed(c, s)
  \/ \E f \in Sendings : t = <<f>> \o AtApp /\ Flushing(u, c, f)
  \/ \E f \in Sendings, s \in Red!Slots :
       t = <<f>> \o AtSlot(s + 1) /\ f.slot = s /\ f.fill = Red!Unoccupied /\ Flushed(c, s) /\ Flushing(u, c, f)

\* A cache that is not empty has its callback registered, or running: then the
\* stack is deeper than that of a rank which waits or flushes one slot.
EmptySound(r) ==
  /\ empty[r] => \A s \in Red!Slots : cache[r][s] = Red!Unoccupied
  /\ ~empty[r] => hooks[r] > 0 \/ Len(stack[r]) > 2

\* Over one node a message to a cache is one to the owner of its key.
InTransit(u, n) ==
  /\ IsABag(n) /\ IsFiniteSet(BagToSet(n)) /\ BagToSet(n) \subseteq Parcels
  /\ u.one_node => \A m \in BagToSet(n) : m.op = "cache" => m.to = Owner[m.key]

States ==
  /\ use \in Uses
  /\ cache \in [Ranks -> Caches] /\ empty \in [Ranks -> BOOLEAN] /\ hooks \in [Ranks -> Nat]
  /\ stack \in [Ranks -> Seq(Frames)]
  /\ table \in [Keys -> Nat] /\ due \in [Keys -> Nat]

\* The reductions of k in messages n, in a cache c with f on top of the stack,
\* and in all caches.
Weight(k) == [m \in Parcels |-> IF m.key = k THEN m.value ELSE 0]
InFlight(n, k) == Load(n, Weight(k))
Share(c, f, k) ==
  (IF c[Slot[k]].key = k /\ ~(f.op = "flush" /\ f.packed /\ f.slot = Slot[k]) THEN c[Slot[k]].value ELSE 0)
    + (IF f.op = "flush" /\ f.fill.key = k THEN f.fill.value ELSE 0)
Shares(k) == SumFunctionOnSet([r \in Ranks |-> Share(cache[r], Red!Top(r), k)], Ranks)

\* Each reduction is in the container, in a message or in a cache.
Balanced == \A k \in Keys : due[k] = table[k] + InFlight(net, k) + Shares(k)

RedInv ==
  /\ States /\ InTransit(use, net)
  /\ \A r \in Ranks : Fits(use, cache[r], stack[r]) /\ EmptySound(r)
  /\ Balanced

\* The constants that the module is for; async() runs handlers, or they reduce
\* into caches, never both.
Careful ==
  /\ IsFiniteSet(Ranks) /\ NumSlots \in Nat /\ None \notin Keys
  /\ Slot \in [Keys -> Red!Slots] /\ Owner \in [Keys -> Ranks] /\ NextHop \in [Ranks \X Ranks -> Ranks]
  /\ Uses \subseteq [interrupts : BOOLEAN, one_node : BOOLEAN]
  /\ \A u \in Uses : u.interrupts => u.one_node

-----------------------------------------------------------------------------
(***************************************************************************)
(* Stacks, entries and messages.                                           *)
(***************************************************************************)
\* s is the call f on top of the calls t.
OnCalls(f, t, s) == s \in Seq(Frames) /\ Len(s) = Len(t) + 1 /\ Head(s) = f /\ Tail(s) = t

LEMMA Calls ==
  ASSUME NEW f \in Frames, NEW t \in Seq(Frames)
  PROVE  OnCalls(f, t, <<f>> \o t)
<1>1. <<f>> \o t \in Seq(Frames) /\ Len(<<f>> \o t) = Len(t) + 1
  BY Cons
<1>2. Head(<<f>> \o t) = f /\ Tail(<<f>> \o t) = t
  BY ConsTail
<1>3. QED
  BY <1>1, <1>2 DEF OnCalls

\* The stacks of a rank that flushes no slot.
LEMMA CallStacks ==
  /\ Red!App \in Frames /\ AtApp \in Seq(Frames) /\ Len(AtApp) = 1 /\ Head(AtApp) = Red!App
  /\ Red!Barrier \in Frames /\ AtBarrier \in Seq(Frames) /\ Len(AtBarrier) = 2
  /\ Head(AtBarrier) = Red!Barrier /\ Tail(AtBarrier) = AtApp
  /\ \A s \in 1..NumSlots + 1 :
       /\ Red!FlushAll(s) \in Frames /\ AtSlot(s) \in Seq(Frames) /\ Len(AtSlot(s)) = 3
       /\ Head(AtSlot(s)) = Red!FlushAll(s) /\ Tail(AtSlot(s)) = AtBarrier
<1>1. Red!App \in Frames /\ Red!Barrier \in Frames /\ \A s \in 1..NumSlots + 1 : Red!FlushAll(s) \in Frames
  BY DEF Frames
<1>2. AtApp \in Seq(Frames) /\ Len(AtApp) = 1 /\ Head(AtApp) = Red!App
  BY <1>1 DEF AtApp
<1>3. OnCalls(Red!Barrier, AtApp, AtBarrier)
  BY <1>1, <1>2, Calls DEF AtBarrier
<1>4. AtBarrier \in Seq(Frames) /\ Len(AtBarrier) = 2
  BY <1>2, <1>3 DEF OnCalls
<1>5. ASSUME NEW s \in 1..NumSlots + 1
      PROVE  /\ AtSlot(s) \in Seq(Frames) /\ Len(AtSlot(s)) = 3
             /\ Head(AtSlot(s)) = Red!FlushAll(s) /\ Tail(AtSlot(s)) = AtBarrier
  <2>1. OnCalls(Red!FlushAll(s), AtBarrier, AtSlot(s))
    BY <1>1, <1>4, Calls DEF AtSlot
  <2>2. QED
    BY <1>4, <2>1 DEF OnCalls
<1>6. QED
  BY <1>1, <1>2, <1>3, <1>4, <1>5 DEF OnCalls

\* The slot after one.
LEMMA NextSlot ==
  ASSUME Careful, NEW s \in Red!Slots
  PROVE  /\ s + 1 \in 1..NumSlots + 1 /\ AtSlot(s + 1) \in Seq(Frames) /\ Len(AtSlot(s + 1)) = 3
         /\ Head(AtSlot(s + 1)).op = "flush_all" /\ AtSlot(s + 1) = <<Red!FlushAll(s + 1)>> \o AtBarrier
<1>1. PICK n \in 1..NumSlots + 1 : n = s + 1
  BY DEF Red!Slots, Careful
<1>2. AtSlot(n) \in Seq(Frames) /\ Len(AtSlot(n)) = 3 /\ Head(AtSlot(n)) = Red!FlushAll(n)
  BY CallStacks
<1>3. Red!FlushAll(n).op = "flush_all" /\ AtSlot(n) = <<Red!FlushAll(n)>> \o AtBarrier
  BY DEF Red!FlushAll, AtSlot
<1>4. QED
  BY <1>1, <1>2, <1>3

\* The cases of Fits, by the call on top.
SendsOne(u, c, t) ==
  /\ Head(t) \in Sendings /\ Flushing(u, c, Head(t))
  /\ \/ t = <<Head(t)>> \o AtApp /\ Tail(t) = AtApp /\ Len(t) = 2
     \/ \E s \in Red!Slots : /\ t = <<Head(t)>> \o AtSlot(s + 1) /\ Tail(t) = AtSlot(s + 1) /\ Len(t) = 4
                             /\ Head(t).slot = s /\ Head(t).fill = Red!Unoccupied /\ Flushed(c, s)
SendsAll(c, t) == \E s \in 1..NumSlots + 1 : t = AtSlot(s) /\ Head(t) = Red!FlushAll(s) /\ Flushed(c, s)

\* The call on top tells what is below it.
LEMMA OnTop ==
  ASSUME Careful, NEW u, NEW c, NEW t, Fits(u, c, t)
  PROVE  /\ Head(t) = Red!App => t = AtApp
         /\ Head(t) = Red!Barrier => t = AtBarrier
         /\ Head(t).op = "flush" => SendsOne(u, c, t)
         /\ Head(t).op = "flush_all" => SendsAll(c, t)
<1>0. NumSlots \in Nat /\ Red!App.op = "app" /\ Red!Barrier.op = "barrier" /\ \A s : Red!FlushAll(s).op = "flush_all"
  BY DEF Careful, Red!App, Red!Barrier, Red!FlushAll
<1>1. CASE t = AtApp
  BY <1>0, <1>1, CallStacks
<1>2. CASE t = AtBarrier
  BY <1>0, <1>2, CallStacks
<1>3. ASSUME NEW s \in 1..NumSlots + 1, t = AtSlot(s) /\ Flushed(c, s)
      PROVE  Head(t).op = "flush_all" /\ SendsAll(c, t) /\ Head(t) # Red!App /\ Head(t) # Red!Barrier
  <2>1. Head(t) = Red!FlushAll(s)
    BY <1>3, CallStacks
  <2>2. Head(t).op = "flush_all" /\ SendsAll(c, t)
    BY <1>0, <1>3, <2>1 DEF SendsAll
  <2>3. QED
    BY <1>0, <2>2
<1>4. ASSUME NEW f \in Sendings, t = <<f>> \o AtApp, Flushing(u, c, f)
      PROVE  Head(t).op = "flush" /\ SendsOne(u, c, t) /\ Head(t) # Red!App /\ Head(t) # Red!Barrier
  <2>1. f \in Frames /\ f.op = "flush"
    BY DEF Frames, Sendings
  <2>2. Head(t) = f /\ Tail(t) = AtApp /\ Len(t) = 2
    <3>1. OnCalls(f, AtApp, t)
      BY <1>4, <2>1, CallStacks, Calls
    <3>2. QED
      BY <3>1, CallStacks DEF OnCalls
  <2>3. SendsOne(u, c, t)
    BY <1>4, <2>2 DEF SendsOne
  <2>4. QED
    BY <1>0, <2>1, <2>2, <2>3
<1>5. ASSUME NEW f \in Sendings, NEW s \in Red!Slots, t = <<f>> \o AtSlot(s + 1),
             f.slot = s, f.fill = Red!Unoccupied, Flushed(c, s), Flushing(u, c, f)
      PROVE  Head(t).op = "flush" /\ SendsOne(u, c, t) /\ Head(t) # Red!App /\ Head(t) # Red!Barrier
  <2>1. f \in Frames /\ f.op = "flush" /\ s + 1 \in 1..NumSlots + 1
    BY <1>0 DEF Frames, Sendings, Red!Slots
  <2>2. AtSlot(s + 1) \in Seq(Frames) /\ Len(AtSlot(s + 1)) = 3
    BY <2>1, CallStacks
  <2>3. Head(t) = f /\ Tail(t) = AtSlot(s + 1) /\ Len(t) = 4
    <3>1. OnCalls(f, AtSlot(s + 1), t)
      BY <1>5, <2>1, <2>2, Calls
    <3>2. QED
      BY <2>2, <3>1 DEF OnCalls
  <2>4. SendsOne(u, c, t)
    BY <1>5, <2>3 DEF SendsOne
  <2>5. QED
    BY <1>0, <2>1, <2>3, <2>4
<1>6. QED
  BY <1>1, <1>2, <1>3, <1>4, <1>5 DEF Fits

\* An entry of a cache.
LEMMA Occupied ==
  ASSUME Careful, NEW c \in Caches
  PROVE  /\ \A s \in Red!Slots : c[s] \in Contents /\ (c[s] \in Kept => Slot[c[s].key] = s)
         /\ \A k \in Keys : Slot[k] \in Red!Slots
         /\ \A e \in Contents : /\ e.value \in Nat
                                /\ e \in Kept <=> e # Red!Unoccupied
                                /\ e \in Kept <=> e.key # None
                                /\ e \in Kept <=> e.key \in Keys
                                /\ e = Red!Unoccupied => e.value = 0
<1>1. /\ \A s \in Red!Slots : c[s] \in Contents /\ (c[s] \in Kept => Slot[c[s].key] = s)
      /\ \A k \in Keys : Slot[k] \in Red!Slots
  BY DEF Caches, Careful
<1>2. ASSUME NEW e \in Contents
      PROVE  /\ e.value \in Nat
             /\ e \in Kept <=> e # Red!Unoccupied
             /\ e \in Kept <=> e.key # None
             /\ e \in Kept <=> e.key \in Keys
             /\ e = Red!Unoccupied => e.value = 0
  <2>1. Red!Unoccupied.key = None /\ Red!Unoccupied.value = 0 /\ None \notin Keys
    BY DEF Red!Unoccupied, Careful
  <2>2. e \in Kept => e.key \in Keys /\ e.value \in Nat
    BY DEF Kept
  <2>3. e \in Kept \/ e = Red!Unoccupied
    BY DEF Contents
  <2>4. QED
    BY <2>1, <2>2, <2>3
<1>3. QED
  BY <1>1, <1>2

\* The share of a cache under a call that is not a flush.
Plain(c, k) == IF c[Slot[k]].key = k THEN c[Slot[k]].value ELSE 0

LEMMA Calm ==
  ASSUME NEW c, NEW f, f.op # "flush", NEW k
  PROVE  Share(c, f, k) = Plain(c, k) + 0
BY DEF Share, Plain

\* A share is a natural number.
LEMMA ShareNat ==
  ASSUME Careful, NEW c \in Caches, NEW f, f.op = "flush" => f \in Sendings, NEW k \in Keys
  PROVE  Share(c, f, k) \in Nat /\ Plain(c, k) \in Nat
<1>1. c[Slot[k]].value \in Nat /\ \A e \in Contents : e.value \in Nat
  BY Occupied
<1>2. f.op = "flush" => f.fill.value \in Nat
  BY <1>1 DEF Sendings
<1> DEFINE p == c[Slot[k]].key = k /\ ~(f.op = "flush" /\ f.packed /\ f.slot = Slot[k])
           q == f.op = "flush" /\ f.fill.key = k
           a == c[Slot[k]].value
           b == f.fill.value
<1>3. Share(c, f, k) = (IF p THEN a ELSE 0) + (IF q THEN b ELSE 0) /\ Plain(c, k) = IF c[Slot[k]].key = k THEN a ELSE 0
  BY DEF Share, Plain
<1>4. a \in Nat /\ (q => b \in Nat)
  BY <1>1, <1>2
<1> HIDE DEF p, q, a, b
<1>5. QED
  BY <1>3, <1>4

\* What messages carry.
LEMMA WeightOf ==
  ASSUME NEW k
  PROVE  /\ Weight(k) \in [Parcels -> Nat]
         /\ \A m \in Parcels : Weight(k)[m] = IF m.key = k THEN m.value ELSE 0
<1>1. \A m \in Parcels : (IF m.key = k THEN m.value ELSE 0) \in Nat
  BY DEF Parcels
<1>2. QED
  BY <1>1 DEF Weight

\* A message is sent that may be in transit ...
LEMMA SendOne ==
  ASSUME NEW u, NEW n, InTransit(u, n), NEW m \in Parcels, u.one_node /\ m.op = "cache" => m.to = Owner[m.key]
  PROVE  /\ InTransit(u, Red!Plus(n, m))
         /\ \A k : InFlight(n, k) \in Nat
         /\ \A k : InFlight(Red!Plus(n, m), k) = InFlight(n, k) + IF m.key = k THEN m.value ELSE 0
<1>1. IsABag(n) /\ IsFiniteSet(BagToSet(n)) /\ BagToSet(n) \subseteq Parcels
  BY DEF InTransit
<1>2. ASSUME NEW k
      PROVE  /\ IsABag(Red!Plus(n, m)) /\ IsFiniteSet(BagToSet(Red!Plus(n, m)))
             /\ BagToSet(Red!Plus(n, m)) = BagToSet(n) \cup {m}
             /\ InFlight(n, k) \in Nat
             /\ InFlight(Red!Plus(n, m), k) = InFlight(n, k) + IF m.key = k THEN m.value ELSE 0
  <2>1. PICK w \in [Parcels -> Nat] : w = Weight(k) /\ w[m] = IF m.key = k THEN m.value ELSE 0
    BY WeightOf
  <2>2. /\ IsABag(n (+) SetToBag({m})) /\ IsFiniteSet(BagToSet(n (+) SetToBag({m})))
        /\ BagToSet(n (+) SetToBag({m})) = BagToSet(n) \cup {m}
    BY <1>1, LoadPlus
  <2>3. Load(n, w) \in Nat
    BY <1>1, LoadPlus
  <2>4. Load(n (+) SetToBag({m}), w) = Load(n, w) + w[m]
    BY <1>1, LoadPlus
  <2>5. QED
    BY <2>1, <2>2, <2>3, <2>4, RedBags DEF InFlight
<1>3. InTransit(u, Red!Plus(n, m))
  BY <1>2 DEF InTransit
<1>4. QED
  BY <1>2, <1>3

\* ... and received.
LEMMA ReceiveOne ==
  ASSUME NEW u, InTransit(u, net), NEW m \in BagToSet(net)
  PROVE  /\ InTransit(u, Red!Rest(m)) /\ m \in Parcels
         /\ u.one_node /\ m.op = "cache" => m.to = Owner[m.key]
         /\ \A k : InFlight(Red!Rest(m), k) \in Nat
         /\ \A k : InFlight(net, k) = InFlight(Red!Rest(m), k) + IF m.key = k THEN m.value ELSE 0
<1>1. IsABag(net) /\ IsFiniteSet(BagToSet(net)) /\ BagToSet(net) \subseteq Parcels
  BY DEF InTransit
<1>2. ASSUME NEW k
      PROVE  /\ IsABag(Red!Rest(m)) /\ IsFiniteSet(BagToSet(Red!Rest(m)))
             /\ BagToSet(Red!Rest(m)) \subseteq BagToSet(net)
             /\ InFlight(Red!Rest(m), k) \in Nat
             /\ InFlight(net, k) = InFlight(Red!Rest(m), k) + IF m.key = k THEN m.value ELSE 0
  <2>1. PICK w \in [Parcels -> Nat] : w = Weight(k) /\ w[m] = IF m.key = k THEN m.value ELSE 0
    BY <1>1, WeightOf
  <2>2. /\ IsABag(net (-) SetToBag({m})) /\ IsFiniteSet(BagToSet(net (-) SetToBag({m})))
        /\ BagToSet(net (-) SetToBag({m})) \subseteq BagToSet(net)
    BY <1>1, LoadRest
  <2>3. Load(net (-) SetToBag({m}), w) \in Nat
    BY <1>1, LoadRest
  <2>4. Load(net, w) = Load(net (-) SetToBag({m}), w) + w[m]
    BY <1>1, LoadRest
  <2>5. QED
    BY <2>1, <2>2, <2>3, <2>4, RedBags DEF InFlight
<1>3. InTransit(u, Red!Rest(m))
  BY <1>2 DEF InTransit
<1>4. QED
  BY <1>1, <1>2, <1>3 DEF InTransit

-----------------------------------------------------------------------------
(***************************************************************************)
(* What a step of one rank has to leave true.                              *)
(***************************************************************************)
\* Nothing of other ranks changes.
Alone(r) ==
  \A q \in Ranks \ {r} :
    /\ cache'[q] = cache[q] /\ stack'[q] = stack[q]
    /\ hooks'[q] = hooks[q] /\ empty'[q] = empty[q]

\* The change of what is due is that of what is stored, in flight and at r.
Even(r, k) ==
  due'[k] - table'[k] - InFlight(net', k) - Share(cache'[r], Head(stack'[r]), k)
    = due[k] - table[k] - InFlight(net, k) - Share(cache[r], Head(stack[r]), k)

\* A rank in a sound state.
LEMMA SoundRank ==
  ASSUME Careful, RedInv, NEW r \in Ranks
  PROVE  /\ States /\ InTransit(use, net) /\ Fits(use, cache[r], stack[r]) /\ EmptySound(r)
         /\ cache[r] \in Caches /\ stack[r] \in Seq(Frames) /\ hooks[r] \in Nat
         /\ \A k : InFlight(net, k) \in Nat
         /\ \A k \in Keys : due[k] \in Nat /\ table[k] \in Nat /\ Share(cache[r], Head(stack[r]), k) \in Nat
<1>1. States /\ InTransit(use, net) /\ Fits(use, cache[r], stack[r]) /\ EmptySound(r)
  BY DEF RedInv
<1>2. /\ cache[r] \in Caches /\ stack[r] \in Seq(Frames) /\ hooks[r] \in Nat
      /\ \A k \in Keys : due[k] \in Nat /\ table[k] \in Nat
  BY <1>1 DEF States
<1>3. ASSUME NEW k PROVE InFlight(net, k) \in Nat
  <2>1. PICK w \in [Parcels -> Nat] : w = Weight(k)
    BY WeightOf
  <2> DEFINE T == BagToSet(net)
             f == [m \in T |-> net[m] * w[m]]
  <2>2. IsFiniteSet(T) /\ T \subseteq Parcels /\ \A m \in T : net[m] \in Nat
    BY <1>1 DEF InTransit, IsABag, BagToSet
  <2>3. ASSUME NEW m \in T PROVE f[m] \in Nat
    <3>1. net[m] \in Nat /\ w[m] \in Nat
      BY <2>2
    <3>2. f[m] = net[m] * w[m]
      OBVIOUS
    <3> HIDE DEF f
    <3>3. QED
      BY <3>1, <3>2
  <2>4. InFlight(net, k) = SumFunctionOnSet(f, T)
    BY <2>1 DEF InFlight, Load
  <2> HIDE DEF f, T
  <2>5. QED
    BY <2>2, <2>3, <2>4, SumNat
<1>4. ASSUME NEW k \in Keys PROVE Share(cache[r], Head(stack[r]), k) \in Nat
  <2>1. Head(stack[r]).op = "flush" => Head(stack[r]) \in Sendings
    BY <1>1, OnTop DEF SendsOne
  <2>2. QED
    BY <1>2, <2>1, ShareNat
<1>5. QED
  BY <1>1, <1>2, <1>3, <1>4

\* A step of r keeps the invariant if it keeps these.
LEMMA RankStep ==
  ASSUME Careful, RedInv, NEW r \in Ranks, Alone(r), use' = use,
         cache' \in [Ranks -> Caches], empty' \in [Ranks -> BOOLEAN], hooks' \in [Ranks -> Nat],
         stack' \in [Ranks -> Seq(Frames)], table' \in [Keys -> Nat], due' \in [Keys -> Nat],
         InTransit(use, net'), Fits(use, cache'[r], stack'[r]), EmptySound(r)',
         \A k \in Keys : InFlight(net', k) \in Int /\ Even(r, k)
  PROVE  RedInv'
<1>1. States'
  BY DEF RedInv, States
<1>2. ASSUME NEW q \in Ranks PROVE (Fits(use, cache[q], stack[q]) /\ EmptySound(q))'
  <2>1. CASE q = r
    BY <2>1
  <2>2. CASE q # r
    <3>1. cache'[q] = cache[q] /\ stack'[q] = stack[q] /\ hooks'[q] = hooks[q] /\ empty'[q] = empty[q]
      BY <2>2 DEF Alone
    <3>2. Fits(use, cache[q], stack[q]) /\ EmptySound(q)
      BY DEF RedInv
    <3>3. Fits(use', cache'[q], stack'[q])
      BY <3>1, <3>2
    <3>4. EmptySound(q)'
      BY <3>1, <3>2 DEF EmptySound
    <3>5. QED
      BY <3>3, <3>4
  <2>3. QED
    BY <2>1, <2>2
<1>3. ASSUME NEW k \in Keys
      PROVE  due'[k] = table'[k] + InFlight(net', k) + Shares(k)'
  <2> DEFINE f == [q \in Ranks |-> Share(cache[q], Red!Top(q), k)]
             g == [q \in Ranks |-> Share(cache'[q], Head(stack'[q]), k)]
             d1 == due[k]
             d2 == due'[k]
             t1 == table[k]
             t2 == table'[k]
             n1 == InFlight(net, k)
             n2 == InFlight(net', k)
             s1 == Shares(k)
             s2 == SumFunctionOnSet(g, Ranks)
  <2>1. s1 = SumFunctionOnSet(f, Ranks) /\ Shares(k)' = s2
    BY DEF Shares, Red!Top
  <2>2. \A q \in Ranks : f[q] \in Int
    BY SoundRank DEF Red!Top
  <2>3. \A q \in Ranks \ {r} : f[q] = g[q]
    BY DEF Alone, Red!Top
  <2>4. /\ d1 \in Int /\ d2 \in Int /\ t1 \in Int /\ t2 \in Int /\ n1 \in Int /\ n2 \in Int
    BY SoundRank
  <2>5. d2 - t2 - n2 - g[r] = d1 - t1 - n1 - f[r]
    BY DEF Even, Red!Top
  <2>6. g[r] \in Int
    <3>1. cache'[r] \in Caches
      OBVIOUS
    <3>2. Head(stack'[r]).op = "flush" => Head(stack'[r]) \in Sendings
      BY OnTop DEF SendsOne
    <3>3. QED
      BY <3>1, <3>2, ShareNat
  <2>7. d1 = t1 + n1 + s1
    BY DEF RedInv, Balanced
  <2>8. IsFiniteSet(Ranks)
    BY DEF Careful
  <2> HIDE DEF f, g, d1, d2, t1, t2, n1, n2, s1
  <2>9. \A q \in Ranks : f[q] \in Int /\ g[q] \in Int
    BY <2>2, <2>3, <2>6
  <2>10. /\ SumFunctionOnSet(f, Ranks) \in Int /\ SumFunctionOnSet(g, Ranks) \in Int
         /\ SumFunctionOnSet(g, Ranks) - g[r] = SumFunctionOnSet(f, Ranks) - f[r]
    <3>1. r \in Ranks
      OBVIOUS
    <3>2. SumFunctionOnSet(f, Ranks) \in Int /\ SumFunctionOnSet(g, Ranks) \in Int
      BY ONLY <2>3, <2>8, <2>9, <3>1, SumChange
    <3>3. SumFunctionOnSet(g, Ranks) - g[r] = SumFunctionOnSet(f, Ranks) - f[r]
      BY ONLY <2>3, <2>8, <2>9, <3>1, SumChange
    <3>4. QED
      BY <3>2, <3>3
  <2>11. s1 \in Int /\ s2 \in Int /\ s2 - g[r] = s1 - f[r]
    BY <2>1, <2>10
  <2> HIDE DEF s2
  <2>12. d2 = t2 + n2 + s2
    BY <2>4, <2>5, <2>7, <2>9, <2>11
  <2>13. QED
    BY <2>1, <2>12 DEF d2, t2, n2
<1>4. Balanced'
  BY <1>3 DEF Balanced
<1>5. QED
  BY <1>1, <1>2, <1>4 DEF RedInv

\* The first entry of a cache has its callback.
LEMMA FirstEntry ==
  ASSUME Careful, RedInv, NEW r \in Ranks, Len(stack[r]) <= 2, Red!Register(r)
  PROVE  /\ empty' \in [Ranks -> BOOLEAN] /\ hooks' \in [Ranks -> Nat]
         /\ ~empty'[r] /\ hooks'[r] > 0
         /\ \A q \in Ranks \ {r} : hooks'[q] = hooks[q] /\ empty'[q] = empty[q]
<1>1. EmptySound(r) /\ empty \in [Ranks -> BOOLEAN] /\ hooks \in [Ranks -> Nat]
  BY DEF RedInv, States
<1>2. Len(stack[r]) \in Nat
  BY SoundRank
<1>3. empty[r] \/ hooks[r] > 0
  BY <1>1, <1>2 DEF EmptySound
<1>4. /\ empty' \in [Ranks -> BOOLEAN] /\ ~empty'[r]
      /\ \A q \in Ranks \ {r} : empty'[q] = empty[q]
  BY <1>1 DEF Red!Register
<1>5. /\ hooks' \in [Ranks -> Nat] /\ hooks'[r] > 0
      /\ \A q \in Ranks \ {r} : hooks'[q] = hooks[q]
  BY <1>1, <1>3 DEF Red!Register
<1>6. QED
  BY <1>4, <1>5

\* The stack of r becomes t.
LEMMA StackBecomes ==
  ASSUME RedInv, NEW r \in Ranks, NEW t \in Seq(Frames), Red!SetStack(r, t)
  PROVE  /\ stack' \in [Ranks -> Seq(Frames)] /\ stack'[r] = t
         /\ \A q \in Ranks \ {r} : stack'[q] = stack[q]
<1>1. stack \in [Ranks -> Seq(Frames)]
  BY DEF RedInv, States
<1>2. QED
  BY <1>1 DEF Red!SetStack

\* An entry that belongs there is put into a slot of r's cache.
LEMMA SlotBecomes ==
  ASSUME RedInv, NEW r \in Ranks, NEW s \in Red!Slots, NEW e \in Contents, e \in Kept => Slot[e.key] = s,
         cache' = [cache EXCEPT ![r][s] = e]
  PROVE  /\ cache' \in [Ranks -> Caches] /\ cache'[r][s] = e
         /\ \A t \in Red!Slots \ {s} : cache'[r][t] = cache[r][t]
         /\ \A q \in Ranks \ {r} : cache'[q] = cache[q]
<1>1. cache \in [Ranks -> Caches]
  BY DEF RedInv, States
<1>2. PICK c : c = cache[r] /\ c \in Caches
  BY <1>1
<1>3. PICK d : d = [c EXCEPT ![s] = e]
  OBVIOUS
<1>4. d \in Caches /\ d[s] = e /\ \A t \in Red!Slots \ {s} : d[t] = c[t]
  BY <1>2, <1>3 DEF Caches
<1>5. cache' = [cache EXCEPT ![r] = d]
  BY <1>2, <1>3
<1>6. QED
  BY <1>1, <1>2, <1>4, <1>5

\* Where a message goes next is a rank, over one node the owner.
LEMMA NextHopIn ==
  ASSUME Careful, States, NEW r \in Ranks, NEW k \in Keys
  PROVE  /\ Red!next_hop(r, Owner[k]) \in Ranks /\ Owner[k] \in Ranks
         /\ use.one_node => Red!next_hop(r, Owner[k]) = Owner[k]
<1>1. Owner[k] \in Ranks /\ NextHop[<<r, Owner[k]>>] \in Ranks
  BY DEF Careful
<1>2. QED
  BY <1>1 DEF Red!next_hop

\* The four terms change by i, m, s and h: that is even if the last three make up
\* the first.
Changes(r, k, i, m, s, h) ==
  /\ i \in Int /\ m \in Int /\ s \in Int /\ h \in Int
  /\ due'[k] = due[k] + i /\ table'[k] = table[k] + m /\ InFlight(net', k) = InFlight(net, k) + s
  /\ Share(cache'[r], Head(stack'[r]), k) = Share(cache[r], Head(stack[r]), k) + h

LEMMA Evens ==
  ASSUME Careful, RedInv, NEW r \in Ranks, NEW k \in Keys,
         NEW i, NEW m, NEW s, NEW h, Changes(r, k, i, m, s, h), i = m + s + h
  PROVE  InFlight(net', k) \in Int /\ Even(r, k)
<1> DEFINE d1 == due[k]
           d2 == due'[k]
           t1 == table[k]
           t2 == table'[k]
           n1 == InFlight(net, k)
           n2 == InFlight(net', k)
           s1 == Share(cache[r], Head(stack[r]), k)
           s2 == Share(cache'[r], Head(stack'[r]), k)
<1>1. d1 \in Int /\ t1 \in Int /\ n1 \in Int /\ s1 \in Int
  BY SoundRank
<1>2. d2 = d1 + i /\ t2 = t1 + m /\ n2 = n1 + s /\ s2 = s1 + h /\ i \in Int /\ m \in Int /\ s \in Int /\ h \in Int
  BY DEF Changes
<1>3. Even(r, k) <=> d2 - t2 - n2 - s2 = d1 - t1 - n1 - s1
  BY DEF Even
<1> HIDE DEF d1, d2, t1, t2, n1, n2, s1, s2
<1>4. d2 - t2 - n2 - s2 = d1 - t1 - n1 - s1 /\ n2 \in Int
  BY <1>1, <1>2
<1>5. QED
  BY <1>3, <1>4 DEF n2

-----------------------------------------------------------------------------
(***************************************************************************)
(* The steps.                                                              *)
(***************************************************************************)
\* A flush of the occupied slot s of r is one, and leaves r's share as it is but
\* for the entry that waits.
LEMMA FlushStarts ==
  ASSUME Careful, RedInv, NEW r \in Ranks, NEW s \in Red!Slots, cache[r][s] \in Kept,
         NEW e \in Contents, e \in Kept => Slot[e.key] = s
  PROVE  /\ Red!Flush(r, s, e) \in Sendings /\ Red!Flush(r, s, e) \in Frames /\ Red!Flush(r, s, e).op = "flush"
         /\ Red!Flush(r, s, e).slot = s /\ Red!Flush(r, s, e).fill = e
         /\ Flushing(use, cache[r], Red!Flush(r, s, e))
         /\ \A k \in Keys : Share(cache[r], Red!Flush(r, s, e), k) = Plain(cache[r], k) + IF e.key = k THEN e.value ELSE 0
<1> DEFINE q == Red!next_hop(r, Owner[cache[r][s].key])
           f == Red!Flush(r, s, e)
<1>1. cache[r][s].key \in Keys
  BY DEF Kept
<1>2. q \in Ranks /\ (use.one_node => q = Owner[cache[r][s].key])
  BY <1>1, SoundRank, NextHopIn
<1>3. /\ f.op = "flush" /\ f.slot = s /\ f.to = q /\ f.fill = e /\ f.packed = FALSE
      /\ f = [op |-> "flush", slot |-> s, to |-> q, fill |-> e, packed |-> FALSE]
  BY DEF Red!Flush
<1> HIDE DEF f, q
<1>4. f \in Sendings /\ f \in Frames
  BY <1>2, <1>3 DEF Sendings, Frames
<1>5. Flushing(use, cache[r], f)
  BY <1>2, <1>3 DEF Flushing
<1>6. \A k \in Keys : Share(cache[r], f, k) = Plain(cache[r], k) + IF e.key = k THEN e.value ELSE 0
  BY <1>3 DEF Share, Plain
<1>7. QED
  BY <1>3, <1>4, <1>5, <1>6 DEF f

\* async_reduce: a message to the owner, an entry that is merged, or one that
\* waits for the slot that is flushed.
LEMMA ReduceKeeps ==
  ASSUME Careful, RedInv, NEW r \in Ranks, NEW k \in Keys, Red!Reduce(r, k)
  PROVE  RedInv'
<1> DEFINE s == Slot[k]
           e == cache[r][s]
<1>1. /\ States /\ InTransit(use, net) /\ Fits(use, cache[r], stack[r]) /\ EmptySound(r)
      /\ cache[r] \in Caches /\ stack[r] \in Seq(Frames)
      /\ \A i \in Keys : due[i] \in Nat /\ table[i] \in Nat
  BY SoundRank
<1>2. /\ Head(stack[r]) = Red!App /\ due' = [due EXCEPT ![k] = @ + 1] /\ use' = use /\ table' = table
      /\ Owner[k] = r => net' = Red!Plus(net, Red!Reduction(r, k, 1)) /\ cache' = cache /\ empty' = empty
                           /\ hooks' = hooks /\ stack' = stack
      /\ Owner[k] # r => Red!Register(r) /\ net' = net
      /\ Owner[k] # r /\ Red!Taken(r, k) => Red!SetStack(r, <<Red!Flush(r, s, Red!Entry(k, 1))>> \o stack[r]) /\ cache' = cache
      /\ Owner[k] # r /\ ~Red!Taken(r, k) => cache' = [cache EXCEPT ![r][s] = Red!Merged(@, k, 1)] /\ stack' = stack
  BY DEF Red!Reduce, Red!Top
<1>3. stack[r] = AtApp /\ Len(stack[r]) <= 2
  BY <1>1, <1>2, OnTop, CallStacks
<1>4. /\ due' \in [Keys -> Nat] /\ table' \in [Keys -> Nat]
      /\ \A i \in Keys : due'[i] = due[i] + (IF i = k THEN 1 ELSE 0) /\ table'[i] = table[i] + 0
  BY <1>1, <1>2 DEF States
<1>5. Red!App.op # "flush" /\ \A i : Share(cache[r], Red!App, i) = Plain(cache[r], i) + 0
  BY Calm DEF Red!App
<1>6. s \in Red!Slots /\ e \in Contents
  BY <1>1, Occupied
<1>7. Red!Entry(k, 1) \in Kept /\ Red!Entry(k, 1).key = k /\ Red!Entry(k, 1).value = 1
  BY DEF Red!Entry, Kept
<1>8. CASE Owner[k] = r
  <2> DEFINE m == Red!Reduction(r, k, 1)
  <2>1. m \in Parcels /\ m.op = "reduce" /\ m.key = k /\ m.value = 1
    BY DEF Red!Reduction, Parcels
  <2>2. /\ InTransit(use, net')
        /\ \A i : InFlight(net', i) = InFlight(net, i) + IF k = i THEN 1 ELSE 0
    <3>1. m \in Parcels /\ (use.one_node /\ m.op = "cache" => m.to = Owner[m.key])
      BY <2>1
    <3> HIDE DEF m
    <3>2. /\ InTransit(use, Red!Plus(net, m))
          /\ \A i : InFlight(Red!Plus(net, m), i) = InFlight(net, i) + IF m.key = i THEN m.value ELSE 0
      BY <1>1, <3>1, SendOne
    <3>3. net' = Red!Plus(net, m)
      BY <1>2, <1>8 DEF m
    <3>4. QED
      BY <2>1, <3>2, <3>3
  <2>3. Alone(r) /\ EmptySound(r)'
    BY <1>1, <1>2, <1>8 DEF Alone, EmptySound
  <2>4. ASSUME NEW i \in Keys PROVE InFlight(net', i) \in Int /\ Even(r, i)
    <3>1. Share(cache'[r], Head(stack'[r]), i) = Share(cache[r], Head(stack[r]), i) + 0
      BY <1>1, <1>2, <1>8, SoundRank
    <3>2. PICK h \in Int : h = IF k = i THEN 1 ELSE 0
      OBVIOUS
    <3>3. Changes(r, i, h, 0, h, 0)
      BY <1>4, <2>2, <3>1, <3>2 DEF Changes
    <3>4. h = 0 + h + 0
      OBVIOUS
    <3>5. QED
      BY <3>3, <3>4, Evens
  <2>5. /\ cache' \in [Ranks -> Caches] /\ empty' \in [Ranks -> BOOLEAN] /\ hooks' \in [Ranks -> Nat]
        /\ stack' \in [Ranks -> Seq(Frames)] /\ Fits(use, cache'[r], stack'[r])
    BY <1>1, <1>2, <1>8 DEF States
  <2>6. QED
    BY <1>2, <1>4, <2>2, <2>3, <2>4, <2>5, RankStep
<1>9. CASE Owner[k] # r
  <2>1. /\ empty' \in [Ranks -> BOOLEAN] /\ hooks' \in [Ranks -> Nat]
        /\ ~empty'[r] /\ hooks'[r] > 0
        /\ \A q \in Ranks \ {r} : hooks'[q] = hooks[q] /\ empty'[q] = empty[q]
    BY <1>2, <1>3, <1>9, FirstEntry
  <2>2. EmptySound(r)' /\ InTransit(use, net') /\ \A i : InFlight(net', i) = InFlight(net, i) + 0
    BY <1>1, <1>2, <1>9, <2>1, SoundRank DEF EmptySound
  <2>3. CASE Red!Taken(r, k)
    <3> DEFINE f == Red!Flush(r, s, Red!Entry(k, 1))
    <3>1. e \in Kept
      BY <1>1, <1>6, <2>3, Occupied DEF Red!Taken
    <3>2. Slot[Red!Entry(k, 1).key] = s /\ Red!Entry(k, 1) \in Contents
      BY <1>7 DEF Contents
    <3>3. /\ f \in Sendings /\ f \in Frames /\ Flushing(use, cache[r], f)
          /\ \A i \in Keys : Share(cache[r], f, i) = Plain(cache[r], i) + IF k = i THEN 1 ELSE 0
      BY <1>6, <1>7, <3>1, <3>2, FlushStarts
    <3>4. Red!SetStack(r, <<f>> \o AtApp) /\ cache' = cache
      BY <1>2, <1>3, <1>9, <2>3
    <3> HIDE DEF f
    <3>5. OnCalls(f, AtApp, <<f>> \o AtApp)
      BY <3>3, CallStacks, Calls
    <3>6. /\ stack' \in [Ranks -> Seq(Frames)] /\ stack'[r] = <<f>> \o AtApp
          /\ \A q \in Ranks \ {r} : stack'[q] = stack[q]
      BY <3>4, <3>5, StackBecomes DEF OnCalls
    <3>7. Head(stack'[r]) = f /\ Fits(use, cache'[r], stack'[r])
      BY <3>3, <3>4, <3>5, <3>6 DEF OnCalls, Fits
    <3>8. Alone(r) /\ cache' \in [Ranks -> Caches]
      BY <1>1, <2>1, <3>4, <3>6 DEF Alone, States
    <3>9. ASSUME NEW i \in Keys PROVE InFlight(net', i) \in Int /\ Even(r, i)
      <4>1. PICK h \in Int : h = IF k = i THEN 1 ELSE 0
        OBVIOUS
      <4>2. Share(cache'[r], Head(stack'[r]), i) = Plain(cache[r], i) + h
        BY <3>3, <3>4, <3>7, <4>1
      <4>3. Share(cache[r], Head(stack[r]), i) = Plain(cache[r], i)
        <5>1. Plain(cache[r], i) \in Nat
          BY <1>1, <1>5, ShareNat
        <5>2. QED
          BY <1>2, <1>5, <5>1
      <4>4. Share(cache'[r], Head(stack'[r]), i) = Share(cache[r], Head(stack[r]), i) + h
        BY <4>2, <4>3
      <4>5. Changes(r, i, h, 0, 0, h) /\ h = 0 + 0 + h
        BY <1>4, <2>2, <4>1, <4>4 DEF Changes
      <4>6. QED
        BY <4>5, Evens
    <3>10. QED
      BY <1>2, <1>4, <2>1, <2>2, <3>6, <3>7, <3>8, <3>9, RankStep
  <2>4. CASE ~Red!Taken(r, k)
    <3> DEFINE n == Red!Merged(e, k, 1)
    <3>1. e.key \in {None, k} /\ e.value \in Nat /\ (e.key = None => e.value = 0)
      BY <1>1, <1>6, <2>4, Occupied DEF Red!Taken
    <3>2. n.key = k /\ n.value = e.value + 1 /\ n \in Kept /\ n \in Contents
      BY <3>1 DEF Red!Merged, Red!Entry, Kept, Contents
    <3>3. cache' = [cache EXCEPT ![r][s] = n] /\ stack' = stack
      BY <1>2, <1>9, <2>4
    <3> HIDE DEF n
    <3>4. /\ cache' \in [Ranks -> Caches] /\ cache'[r][s] = n
          /\ \A t \in Red!Slots \ {s} : cache'[r][t] = cache[r][t]
          /\ \A q \in Ranks \ {r} : cache'[q] = cache[q]
      BY <1>6, <3>2, <3>3, SlotBecomes
    <3>5. Alone(r) /\ stack' \in [Ranks -> Seq(Frames)] /\ Fits(use, cache'[r], stack'[r])
      BY <1>1, <1>3, <2>1, <3>3, <3>4 DEF Alone, States, Fits
    <3>6. ASSUME NEW i \in Keys PROVE InFlight(net', i) \in Int /\ Even(r, i)
      <4>1. PICK h \in Int : h = IF i = k THEN 1 ELSE 0
        OBVIOUS
      <4>2. /\ Share(cache'[r], Head(stack'[r]), i) = Plain(cache'[r], i) + 0
            /\ Share(cache[r], Head(stack[r]), i) = Plain(cache[r], i) + 0
        BY <1>2, <1>5, <3>3, Calm
      <4>3. Plain(cache[r], i) \in Nat
        BY <1>1, <1>5, ShareNat
      <4>4. Plain(cache'[r], i) = Plain(cache[r], i) + h
        <5>1. CASE i = k
          BY <3>1, <3>2, <3>4, <4>1, <5>1 DEF Plain, Careful
        <5>2. CASE i # k /\ Slot[i] = s
          BY <3>1, <3>2, <3>4, <4>1, <5>2 DEF Plain, Careful
        <5>3. CASE i # k /\ Slot[i] # s
          <6>1. cache'[r][Slot[i]] = cache[r][Slot[i]]
            BY <1>1, <3>4, <5>3, Occupied
          <6>2. Plain(cache'[r], i) = Plain(cache[r], i)
            BY <6>1 DEF Plain
          <6>3. QED
            BY <4>1, <4>3, <5>3, <6>2
        <5>4. QED
          BY <5>1, <5>2, <5>3
      <4>5. Share(cache'[r], Head(stack'[r]), i) = Share(cache[r], Head(stack[r]), i) + h
        BY <4>2, <4>3, <4>4
      <4>6. Changes(r, i, h, 0, 0, h) /\ h = 0 + 0 + h
        BY <1>4, <2>2, <4>1, <4>5 DEF Changes
      <4>7. QED
        BY <4>6, Evens
    <3>7. QED
      BY <1>2, <1>4, <2>1, <2>2, <3>4, <3>5, <3>6, RankStep
  <2>5. QED
    BY <2>3, <2>4
<1>10. QED
  BY <1>8, <1>9

\* The flush on top of the stack of r.
LEMMA FlushOnTop ==
  ASSUME Careful, RedInv, NEW r \in Ranks, Red!Top(r).op = "flush"
  PROVE  /\ SendsOne(use, cache[r], stack[r])
         /\ Red!Top(r) = Head(stack[r]) /\ Red!Top(r) \in Sendings /\ Red!Top(r) \in Frames
         /\ Red!Top(r).slot \in Red!Slots /\ Red!Top(r).fill \in Contents /\ Red!Top(r).to \in Ranks
         /\ cache[r][Red!Top(r).slot] \in Kept
         /\ Red!Below(r) = Tail(stack[r])
         /\ ~empty[r]
<1>1. SendsOne(use, cache[r], stack[r])
  BY SoundRank, OnTop DEF Red!Top
<1>2. Red!Top(r) = Head(stack[r]) /\ Red!Top(r) \in Sendings /\ Red!Top(r) \in Frames /\ Red!Below(r) = Tail(stack[r])
  BY <1>1 DEF SendsOne, Red!Top, Red!Below, Frames
<1>3. Red!Top(r).slot \in Red!Slots /\ Red!Top(r).fill \in Contents /\ Red!Top(r).to \in Ranks
  BY <1>2 DEF Sendings
<1>4. cache[r][Red!Top(r).slot] \in Kept
  BY <1>1, <1>2 DEF SendsOne, Flushing
<1>5. ~empty[r]
  <2>1. EmptySound(r) /\ cache[r] \in Caches
    BY SoundRank
  <2>2. cache[r][Red!Top(r).slot] # Red!Unoccupied
    BY <1>3, <1>4, <2>1, Occupied
  <2>3. QED
    BY <1>3, <2>1, <2>2 DEF EmptySound
<1>6. QED
  BY <1>1, <1>2, <1>3, <1>4, <1>5

\* A slot is packed: what it has is in flight instead.
LEMMA PackKeeps ==
  ASSUME Careful, RedInv, NEW r \in Ranks, Red!FlushPack(r)
  PROVE  RedInv'
<1> DEFINE f == Red!Top(r)
           e == cache[r][f.slot]
           g == [f EXCEPT !.packed = TRUE]
           m == Red!Cached(f.to, e.key, e.value)
<1>1. /\ States /\ InTransit(use, net) /\ EmptySound(r)
      /\ cache[r] \in Caches /\ stack[r] \in Seq(Frames)
  BY SoundRank
<1>2. /\ f.op = "flush" /\ ~f.packed /\ net' = Red!Plus(net, m) /\ Red!SetStack(r, <<g>> \o Red!Below(r))
      /\ UNCHANGED <<use, cache, empty, hooks, table, due>>
  BY DEF Red!FlushPack
<1>3. /\ SendsOne(use, cache[r], stack[r])
      /\ f = Head(stack[r]) /\ f \in Sendings /\ f \in Frames
      /\ f.slot \in Red!Slots /\ f.fill \in Contents /\ f.to \in Ranks /\ e \in Kept
      /\ Red!Below(r) = Tail(stack[r])
  BY <1>2, FlushOnTop
<1>4. /\ g \in Sendings /\ g \in Frames /\ g.op = "flush" /\ g.slot = f.slot /\ g.to = f.to /\ g.fill = f.fill /\ g.packed
  BY <1>3 DEF Sendings, Frames
<1>5. Flushing(use, cache[r], f) /\ Flushing(use, cache[r], g)
  BY <1>3, <1>4 DEF SendsOne, Flushing
<1>6. /\ InTransit(use, net')
      /\ \A i : InFlight(net', i) = InFlight(net, i) + IF e.key = i THEN e.value ELSE 0
  <2>1. m \in Parcels /\ m.key = e.key /\ m.value = e.value /\ m.to = f.to
    BY <1>3 DEF Red!Cached, Parcels, Kept
  <2>2. use.one_node /\ m.op = "cache" => m.to = Owner[m.key]
    BY <1>5, <2>1 DEF Flushing
  <2> HIDE DEF m
  <2>3. /\ InTransit(use, Red!Plus(net, m))
        /\ \A i : InFlight(Red!Plus(net, m), i) = InFlight(net, i) + IF m.key = i THEN m.value ELSE 0
    BY <1>1, <2>1, <2>2, SendOne
  <2>4. QED
    BY <1>2, <2>1, <2>3
<1> HIDE DEF g, m
<1>7. PICK t \in Seq(Frames) : t = Red!Below(r) /\ stack[r] = <<f>> \o t /\ Len(t) + 1 = Len(stack[r])
                               /\ Fits(use, cache[r], <<g>> \o t)
  <2>1. CASE stack[r] = <<f>> \o AtApp /\ Tail(stack[r]) = AtApp /\ Len(stack[r]) = 2
    <3>1. Fits(use, cache[r], <<g>> \o AtApp)
      BY <1>4, <1>5 DEF Fits
    <3>2. QED
      BY <1>3, <2>1, <3>1, CallStacks
  <2>2. ASSUME NEW s \in Red!Slots, stack[r] = <<f>> \o AtSlot(s + 1), Tail(stack[r]) = AtSlot(s + 1), Len(stack[r]) = 4,
               f.slot = s, f.fill = Red!Unoccupied, Flushed(cache[r], s)
        PROVE  \E t \in Seq(Frames) : t = Red!Below(r) /\ stack[r] = <<f>> \o t /\ Len(t) + 1 = Len(stack[r])
                                      /\ Fits(use, cache[r], <<g>> \o t)
    <3>1. Fits(use, cache[r], <<g>> \o AtSlot(s + 1))
      BY <1>4, <1>5, <2>2 DEF Fits
    <3>2. s + 1 \in 1..NumSlots + 1
      BY DEF Red!Slots, Careful
    <3>3. AtSlot(s + 1) \in Seq(Frames) /\ Len(AtSlot(s + 1)) + 1 = 4
      <4>1. AtSlot(s + 1) \in Seq(Frames)
        BY NextSlot
      <4>2. Len(AtSlot(s + 1)) = 3
        BY NextSlot
      <4>3. PICK n : n = Len(AtSlot(s + 1))
        OBVIOUS
      <4>4. n = 3
        BY <4>2, <4>3
      <4>5. n + 1 = 4
        BY ONLY <4>4
      <4>6. QED
        BY <4>1, <4>3, <4>5
    <3>4. QED
      BY <1>3, <2>2, <3>1, <3>3
  <2>3. QED
    BY <1>3, <2>1, <2>2 DEF SendsOne
<1>8. OnCalls(g, t, <<g>> \o t)
  BY <1>4, Calls
<1>9. /\ stack' \in [Ranks -> Seq(Frames)] /\ stack'[r] = <<g>> \o t
      /\ \A q \in Ranks \ {r} : stack'[q] = stack[q]
  BY <1>2, <1>7, <1>8, StackBecomes DEF OnCalls
<1>10. /\ cache'[r] = cache[r] /\ Head(stack'[r]) = g /\ Len(stack'[r]) = Len(stack[r])
       /\ Fits(use, cache'[r], stack'[r])
  BY <1>2, <1>7, <1>8, <1>9 DEF OnCalls
<1>11. ASSUME NEW i \in Keys
       PROVE  InFlight(net', i) \in Int /\ Even(r, i)
  <2>1. PICK v \in Int : v = IF e.key = i THEN e.value ELSE 0
    BY <1>3 DEF Kept
  <2>2. Share(cache[r], g, i) \in Nat /\ Share(cache[r], f, i) \in Nat
    BY <1>1, <1>3, <1>4, ShareNat
  <2>3. Share(cache[r], f, i) = Share(cache[r], g, i) + v
    <3> DEFINE b == IF f.fill.key = i THEN f.fill.value ELSE 0
    <3>1. b \in Nat
      BY <1>1, <1>3, Occupied
    <3>2. CASE Slot[i] = f.slot
      <4>1. Share(cache[r], g, i) = 0 + b
        BY <1>4, <3>2 DEF Share
      <4>2. Share(cache[r], f, i) = v + b
        BY <1>2, <2>1, <3>2 DEF Share
      <4> HIDE DEF b
      <4>3. QED
        BY <3>1, <4>1, <4>2
    <3>3. CASE Slot[i] # f.slot
      <4>1. e.key # i
        BY <1>1, <1>3, <3>3, Occupied
      <4>2. Share(cache[r], f, i) = Share(cache[r], g, i)
        BY <1>2, <1>4, <3>3 DEF Share
      <4>3. QED
        BY <2>1, <2>2, <4>1, <4>2
    <3>4. QED
      BY <3>2, <3>3
  <2>4. due'[i] = due[i] + 0 /\ table'[i] = table[i] + 0
    BY <1>2, SoundRank
  <2>5. Share(cache'[r], Head(stack'[r]), i) = Share(cache[r], Head(stack[r]), i) + (0 - v)
    BY <1>3, <1>10, <2>2, <2>3
  <2>6. Changes(r, i, 0, 0, v, 0 - v) /\ 0 = 0 + v + (0 - v)
    BY <1>6, <2>1, <2>4, <2>5 DEF Changes
  <2>7. QED
    BY <2>6, Evens
<1>12. Alone(r) /\ EmptySound(r)'
  BY <1>1, <1>2, <1>9, <1>10 DEF Alone, EmptySound
<1>13. /\ cache' \in [Ranks -> Caches] /\ empty' \in [Ranks -> BOOLEAN] /\ hooks' \in [Ranks -> Nat]
       /\ table' \in [Keys -> Nat] /\ due' \in [Keys -> Nat] /\ use' = use
  BY <1>1, <1>2 DEF States
<1>14. QED
  BY <1>6, <1>9, <1>10, <1>11, <1>12, <1>13, RankStep

\* The flush is over: its slot is free, or has the entry that waited.
LEMMA FlushEndKeeps ==
  ASSUME Careful, RedInv, NEW r \in Ranks, Red!FlushEnd(r)
  PROVE  RedInv'
<1> DEFINE f == Red!Top(r)
           s == f.slot
           e == f.fill
           c == cache[r]
<1>1. /\ States /\ InTransit(use, net) /\ EmptySound(r)
      /\ c \in Caches /\ stack[r] \in Seq(Frames)
  BY SoundRank
<1>2. /\ f.op = "flush" /\ f.packed /\ cache' = [cache EXCEPT ![r][s] = e] /\ Red!SetStack(r, Red!Below(r))
      /\ UNCHANGED <<use, empty, hooks, net, table, due>>
  BY DEF Red!FlushEnd
<1>3. /\ SendsOne(use, c, stack[r])
      /\ f = Head(stack[r]) /\ f \in Sendings /\ s \in Red!Slots /\ e \in Contents
      /\ Red!Below(r) = Tail(stack[r]) /\ ~empty[r]
  BY <1>2, FlushOnTop
<1>4. e \in Kept => Slot[e.key] = s
  BY <1>3 DEF SendsOne, Flushing
<1>5. /\ cache' \in [Ranks -> Caches] /\ cache'[r][s] = e
      /\ \A t \in Red!Slots \ {s} : cache'[r][t] = c[t]
      /\ \A q \in Ranks \ {r} : cache'[q] = cache[q]
  BY <1>2, <1>3, <1>4, SlotBecomes
<1>6. PICK t \in Seq(Frames) : /\ t = Red!Below(r) /\ Fits(use, cache'[r], t) /\ Head(t).op # "flush"
                               /\ Len(t) > 2 \/ Len(stack[r]) = 2
  <2>1. CASE Tail(stack[r]) = AtApp /\ Len(stack[r]) = 2
    <3>1. Head(AtApp).op # "flush"
      BY CallStacks DEF Red!App
    <3>2. QED
      BY <1>3, <2>1, <3>1, CallStacks DEF Fits
  <2>2. ASSUME NEW i \in Red!Slots, Tail(stack[r]) = AtSlot(i + 1), s = i, e = Red!Unoccupied, Flushed(c, i)
        PROVE  \E t \in Seq(Frames) : /\ t = Red!Below(r) /\ Fits(use, cache'[r], t) /\ Head(t).op # "flush"
                                      /\ Len(t) > 2 \/ Len(stack[r]) = 2
    <3>1. i + 1 \in 1..NumSlots + 1
      BY DEF Red!Slots, Careful
    <3>2. AtSlot(i + 1) \in Seq(Frames) /\ Len(AtSlot(i + 1)) > 2 /\ Head(AtSlot(i + 1)).op # "flush"
      <4>1. AtSlot(i + 1) \in Seq(Frames)
        BY NextSlot
      <4>2. Len(AtSlot(i + 1)) = 3
        BY NextSlot
      <4>3. Head(AtSlot(i + 1)).op = "flush_all"
        BY NextSlot
      <4>4. PICK n : n = Len(AtSlot(i + 1))
        OBVIOUS
      <4>5. n = 3
        BY <4>2, <4>4
      <4>6. n > 2
        BY ONLY <4>5
      <4>7. QED
        BY <4>1, <4>3, <4>4, <4>6
    <3>3. Flushed(cache'[r], i + 1)
      BY <1>5, <2>2 DEF Flushed, Red!Slots
    <3>4. Fits(use, cache'[r], AtSlot(i + 1))
      BY <3>1, <3>3 DEF Fits
    <3>5. QED
      BY <1>3, <2>2, <3>2, <3>4
  <2>3. QED
    BY <1>3, <2>1, <2>2 DEF SendsOne
<1>7. /\ stack' \in [Ranks -> Seq(Frames)] /\ stack'[r] = t
      /\ \A q \in Ranks \ {r} : stack'[q] = stack[q]
  BY <1>2, <1>6, StackBecomes
<1>8. ASSUME NEW i \in Keys
      PROVE  InFlight(net', i) \in Int /\ Even(r, i)
  <2>1. cache'[r] \in Caches
    BY <1>5
  <2>2. Share(c, f, i) \in Nat /\ Plain(cache'[r], i) \in Nat
    BY <1>1, <1>3, <2>1, ShareNat
  <2>4. Plain(cache'[r], i) = Share(c, f, i)
    <3>0. \A n \in Contents : n.value \in Nat /\ (n \in Kept <=> n.key \in Keys)
      BY <1>1, Occupied
    <3>1. CASE Slot[i] = s
      <4>1. Share(c, f, i) = 0 + IF e.key = i THEN e.value ELSE 0
        BY <1>2, <3>1 DEF Share
      <4>2. Plain(cache'[r], i) = IF e.key = i THEN e.value ELSE 0
        BY <1>5, <3>1 DEF Plain
      <4>3. QED
        BY <1>3, <3>0, <4>1, <4>2
    <3>2. CASE Slot[i] # s
      <4>1. e.key # i
        BY <1>3, <1>4, <3>0, <3>2
      <4>2. Share(c, f, i) = Plain(c, i) + 0
        BY <1>2, <3>2, <4>1 DEF Share, Plain
      <4>3. Plain(cache'[r], i) = Plain(c, i)
        BY <1>1, <1>5, <3>2, Occupied DEF Plain
      <4>4. QED
        BY <2>2, <4>2, <4>3
    <3>3. QED
      BY <3>1, <3>2
  <2>5. Share(cache'[r], Head(stack'[r]), i) = Plain(cache'[r], i) + 0
    BY <1>6, <1>7, Calm
  <2>6. Changes(r, i, 0, 0, 0, 0) /\ 0 = 0 + 0 + 0
    <3>1. due'[i] = due[i] + 0 /\ table'[i] = table[i] + 0 /\ InFlight(net', i) = InFlight(net, i) + 0
      BY <1>2, SoundRank
    <3>2. Share(cache'[r], Head(stack'[r]), i) = Share(cache[r], Head(stack[r]), i) + 0
      BY <1>3, <2>2, <2>4, <2>5
    <3>3. QED
      BY <3>1, <3>2 DEF Changes
  <2>7. QED
    BY <2>6, Evens
<1>9. Alone(r)
  BY <1>2, <1>5, <1>7 DEF Alone
<1>10. EmptySound(r)'
  <2>1. hooks[r] > 0 \/ Len(stack[r]) > 2
    BY <1>1, <1>3 DEF EmptySound
  <2>2. hooks'[r] > 0 \/ Len(stack'[r]) > 2
    <3>1. hooks'[r] = hooks[r] /\ stack'[r] = t
      BY <1>2, <1>7
    <3>2. CASE Len(stack[r]) > 2
      <4>1. Len(stack[r]) # 2
        <5>1. Len(stack[r]) \in Nat
          BY <1>1
        <5>2. PICK n \in Nat : n = Len(stack[r])
          BY <5>1
        <5>3. n > 2 => n # 2
          BY ONLY n \in Nat
        <5>4. QED
          BY <3>2, <5>2, <5>3
      <4>2. Len(t) > 2
        BY <1>6, <4>1
      <4>3. QED
        BY <3>1, <4>2
    <3>3. QED
      BY <2>1, <3>1, <3>2
  <2>3. QED
    BY <1>2, <1>3, <2>2 DEF EmptySound
<1>11. /\ empty' \in [Ranks -> BOOLEAN] /\ hooks' \in [Ranks -> Nat] /\ InTransit(use, net')
       /\ table' \in [Keys -> Nat] /\ due' \in [Keys -> Nat] /\ use' = use
  BY <1>1, <1>2 DEF States
<1>12. Fits(use, cache'[r], stack'[r])
  BY <1>6, <1>7
<1>13. QED
  BY <1>5, <1>7, <1>8, <1>9, <1>10, <1>11, <1>12, RankStep

\* The owner reduces a value into the container.
LEMMA HandleReduceKeeps ==
  ASSUME Careful, RedInv, NEW r \in Ranks, NEW m \in BagToSet(net), Red!HandleReduce(r, m)
  PROVE  RedInv'
<1>1. /\ States /\ InTransit(use, net) /\ EmptySound(r) /\ Fits(use, cache[r], stack[r])
  BY SoundRank
<1>2. /\ net' = Red!Rest(m) /\ table' = [table EXCEPT ![m.key] = @ + m.value]
      /\ UNCHANGED <<use, cache, empty, hooks, stack, due>>
  BY DEF Red!HandleReduce
<1>3. InTransit(use, Red!Rest(m)) /\ m \in Parcels
  BY <1>1, ReceiveOne
<1>4. /\ \A k : InFlight(Red!Rest(m), k) \in Nat
      /\ \A k : InFlight(net, k) = InFlight(Red!Rest(m), k) + IF m.key = k THEN m.value ELSE 0
  BY <1>1, ReceiveOne
<1>5. m.key \in Keys /\ m.value \in Nat
  BY <1>3 DEF Parcels
<1>6. /\ table' \in [Keys -> Nat]
      /\ \A i \in Keys : table'[i] = table[i] + IF m.key = i THEN m.value ELSE 0
  BY <1>1, <1>2, <1>5 DEF States
<1>7. ASSUME NEW i \in Keys PROVE InFlight(net', i) \in Int /\ Even(r, i)
  <2>1. PICK v \in Int : v = IF m.key = i THEN m.value ELSE 0
    BY <1>5
  <2>2. InFlight(net', i) = InFlight(net, i) + (0 - v)
    BY <1>2, <1>4, <2>1
  <2>3. due'[i] = due[i] + 0 /\ Share(cache'[r], Head(stack'[r]), i) = Share(cache[r], Head(stack[r]), i) + 0
    BY <1>2, SoundRank
  <2>4. Changes(r, i, 0, v, 0 - v, 0) /\ 0 = v + (0 - v) + 0
    BY <1>6, <2>1, <2>2, <2>3 DEF Changes
  <2>5. QED
    BY <2>4, Evens
<1>8. Alone(r) /\ EmptySound(r)'
  BY <1>1, <1>2 DEF Alone, EmptySound
<1>9. /\ cache' \in [Ranks -> Caches] /\ empty' \in [Ranks -> BOOLEAN] /\ hooks' \in [Ranks -> Nat]
      /\ stack' \in [Ranks -> Seq(Frames)] /\ due' \in [Keys -> Nat] /\ use' = use
      /\ InTransit(use, net') /\ Fits(use, cache'[r], stack'[r])
  BY <1>1, <1>2, <1>3 DEF States
<1>10. QED
  BY <1>6, <1>7, <1>8, <1>9, RankStep

\* A message to the cache of the owner goes on to the container.
LEMMA HandleOwnKeeps ==
  ASSUME Careful, RedInv, NEW r \in Ranks, NEW m \in BagToSet(net), Owner[m.key] = r,
         net' = Red!Plus(Red!Rest(m), Red!Reduction(r, m.key, m.value)),
         UNCHANGED <<use, cache, empty, hooks, stack, table, due>>
  PROVE  RedInv'
<1> DEFINE n == Red!Rest(m)
           p == Red!Reduction(r, m.key, m.value)
<1>1. /\ States /\ InTransit(use, net) /\ EmptySound(r) /\ Fits(use, cache[r], stack[r])
  BY SoundRank
<1>2. InTransit(use, n) /\ m \in Parcels
  BY <1>1, ReceiveOne
<1>3. /\ \A k : InFlight(n, k) \in Nat
      /\ \A k : InFlight(net, k) = InFlight(n, k) + IF m.key = k THEN m.value ELSE 0
  BY <1>1, ReceiveOne
<1>4. p \in Parcels /\ p.op = "reduce" /\ p.key = m.key /\ p.value = m.value
  BY <1>2 DEF Parcels, Red!Reduction
<1> HIDE DEF n, p
<1>5. InTransit(use, Red!Plus(n, p)) /\ \A k : InFlight(Red!Plus(n, p), k) = InFlight(n, k) + IF p.key = k THEN p.value ELSE 0
  <2>1. use.one_node /\ p.op = "cache" => p.to = Owner[p.key]
    BY <1>4
  <2>2. QED
    BY <1>2, <1>4, <2>1, SendOne
<1>6. net' = Red!Plus(n, p)
  BY DEF n, p
<1>7. ASSUME NEW i \in Keys PROVE InFlight(net', i) \in Int /\ Even(r, i)
  <2>1. InFlight(net', i) = InFlight(net, i) + 0 /\ InFlight(net, i) \in Int
    BY <1>3, <1>4, <1>5, <1>6, SoundRank
  <2>2. due'[i] = due[i] + 0 /\ table'[i] = table[i] + 0
        /\ Share(cache'[r], Head(stack'[r]), i) = Share(cache[r], Head(stack[r]), i) + 0
    BY SoundRank
  <2>3. Changes(r, i, 0, 0, 0, 0) /\ 0 = 0 + 0 + 0
    BY <2>1, <2>2 DEF Changes
  <2>4. QED
    BY <2>3, Evens
<1>8. Alone(r) /\ EmptySound(r)'
  BY <1>1 DEF Alone, EmptySound
<1>9. /\ cache' \in [Ranks -> Caches] /\ empty' \in [Ranks -> BOOLEAN] /\ hooks' \in [Ranks -> Nat]
      /\ stack' \in [Ranks -> Seq(Frames)] /\ due' \in [Keys -> Nat] /\ table' \in [Keys -> Nat] /\ use' = use
      /\ InTransit(use, net') /\ Fits(use, cache'[r], stack'[r])
  BY <1>1, <1>5, <1>6 DEF States
<1>10. QED
  BY <1>7, <1>8, <1>9, RankStep

\* In a cache on the way a value is put into the slot of its key: merged with
\* what is there of that key, or in place of another entry, which is sent on.
\* No flush is under way there, since over one node no cache is on the way.
LEMMA HandleOnWay ==
  ASSUME Careful, RedInv, NEW r \in Ranks, NEW m \in BagToSet(net),
         m.op = "cache", m.to = r, Red!Receiving(r), Owner[m.key] # r
  PROVE  /\ stack[r] \in {AtApp, AtBarrier} /\ Len(stack[r]) <= 2
         /\ Head(stack[r]).op # "flush"
         /\ m.key \in Keys /\ m.value \in Nat
<1>1. /\ States /\ InTransit(use, net) /\ Fits(use, cache[r], stack[r])
  BY SoundRank
<1>2. m \in Parcels /\ (use.one_node /\ m.op = "cache" => m.to = Owner[m.key])
  BY <1>1, ReceiveOne
<1>3. use.interrupts => use.one_node
  BY <1>1 DEF States, Careful
<1>4. Red!Top(r) \in {Red!App, Red!Barrier}
  BY <1>2, <1>3 DEF Red!Receiving
<1>5. stack[r] \in {AtApp, AtBarrier}
  BY <1>1, <1>4, OnTop DEF Red!Top
<1>6. Len(stack[r]) <= 2 /\ Head(stack[r]).op # "flush"
  <2>1. /\ Len(AtApp) = 1 /\ Head(AtApp) = Red!App /\ Len(AtBarrier) = 2 /\ Head(AtBarrier) = Red!Barrier
        /\ Red!App.op # "flush" /\ Red!Barrier.op # "flush"
    BY CallStacks DEF Red!App, Red!Barrier
  <2>2. CASE stack[r] = AtApp
    <3>1. Len(stack[r]) = 1 /\ Head(stack[r]).op # "flush"
      BY <2>1, <2>2
    <3>2. QED
      BY <3>1
  <2>3. CASE stack[r] = AtBarrier
    <3>1. Len(stack[r]) = 2 /\ Head(stack[r]).op # "flush"
      BY <2>1, <2>3
    <3>2. QED
      BY <3>1
  <2>4. QED
    BY <1>5, <2>2, <2>3
<1>7. QED
  BY <1>2, <1>5, <1>6 DEF Parcels

\* What is common to the two.
LEMMA HandlePut ==
  ASSUME Careful, RedInv, NEW r \in Ranks, NEW k \in Keys, NEW n \in Kept, n.key = k,
         stack[r] \in {AtApp, AtBarrier}, Len(stack[r]) <= 2, Head(stack[r]).op # "flush",
         Red!Register(r), cache' = [cache EXCEPT ![r][Slot[k]] = n], UNCHANGED <<use, stack, table, due>>,
         InTransit(use, net'),
         \A i \in Keys : /\ InFlight(net', i) \in Int
                         /\ InFlight(net', i) + Plain(cache'[r], i) = InFlight(net, i) + Plain(cache[r], i)
  PROVE  RedInv'
<1>1. /\ States /\ EmptySound(r) /\ cache[r] \in Caches /\ \A i \in Keys : Slot[i] \in Red!Slots
  BY SoundRank, Occupied
<1>2. /\ empty' \in [Ranks -> BOOLEAN] /\ hooks' \in [Ranks -> Nat]
      /\ ~empty'[r] /\ hooks'[r] > 0
      /\ \A q \in Ranks \ {r} : hooks'[q] = hooks[q] /\ empty'[q] = empty[q]
  BY FirstEntry
<1>3. n \in Contents /\ (n \in Kept => Slot[n.key] = Slot[k]) /\ Slot[k] \in Red!Slots
  BY <1>1 DEF Contents
<1>4. cache' \in [Ranks -> Caches] /\ \A q \in Ranks \ {r} : cache'[q] = cache[q]
  BY <1>3, SlotBecomes
<1>5. ASSUME NEW i \in Keys PROVE InFlight(net', i) \in Int /\ Even(r, i)
  <2>1. /\ Share(cache'[r], Head(stack'[r]), i) = Plain(cache'[r], i) + 0
        /\ Share(cache[r], Head(stack[r]), i) = Plain(cache[r], i) + 0
    BY Calm
  <2>2. Plain(cache[r], i) \in Int /\ Plain(cache'[r], i) \in Int
    <3>1. cache'[r] \in Caches
      BY <1>4
    <3>2. QED
      BY <1>1, <3>1, ShareNat
  <2>3. PICK v \in Int : v = InFlight(net', i) - InFlight(net, i)
    BY SoundRank
  <2>4. InFlight(net, i) \in Int /\ InFlight(net', i) \in Int
    BY SoundRank
  <2>5. /\ InFlight(net', i) = InFlight(net, i) + v
        /\ Share(cache'[r], Head(stack'[r]), i) = Share(cache[r], Head(stack[r]), i) + (0 - v)
    <3> DEFINE a == InFlight(net', i)
               b == InFlight(net, i)
               p == Plain(cache'[r], i)
               q == Plain(cache[r], i)
    <3>1. a + p = b + q /\ v = a - b
      BY <2>3
    <3>2. a \in Int /\ b \in Int /\ p \in Int /\ q \in Int
      BY <2>2, <2>4
    <3> HIDE DEF a, b, p, q
    <3>3. a = b + v /\ p + 0 = q + 0 + (0 - v)
      BY <3>1, <3>2
    <3>4. QED
      BY <2>1, <3>3 DEF a, b, p, q
  <2>6. due'[i] = due[i] + 0 /\ table'[i] = table[i] + 0
    BY SoundRank
  <2>7. Changes(r, i, 0, 0, v, 0 - v) /\ 0 = 0 + v + (0 - v)
    BY <2>5, <2>6 DEF Changes
  <2>8. QED
    BY <2>7, Evens
<1>6. Alone(r) /\ EmptySound(r)'
  BY <1>2, <1>4 DEF Alone, EmptySound
<1>7. Fits(use, cache'[r], stack'[r])
  BY DEF Fits
<1>8. /\ stack' \in [Ranks -> Seq(Frames)] /\ due' \in [Keys -> Nat] /\ table' \in [Keys -> Nat] /\ use' = use
  BY <1>1 DEF States
<1>9. QED
  BY <1>2, <1>4, <1>5, <1>6, <1>7, <1>8, RankStep

LEMMA HandleCacheKeeps ==
  ASSUME Careful, RedInv, NEW r \in Ranks, NEW m \in BagToSet(net), Red!HandleCache(r, m)
  PROVE  RedInv'
<1> DEFINE k == m.key
           s == Slot[k]
           c == cache[r]
           e == c[s]
           n == Red!Rest(m)
<1>1. /\ Red!Receiving(r) /\ m.op = "cache" /\ m.to = r
      /\ \/ /\ Owner[k] = r
            /\ net' = Red!Plus(n, Red!Reduction(r, k, m.value)) /\ UNCHANGED <<cache, empty, hooks>>
         \/ /\ Owner[k] # r /\ Red!Taken(r, k) /\ Red!Register(r)
            /\ net' = Red!Plus(n, Red!Cached(Red!next_hop(r, Owner[e.key]), e.key, e.value))
            /\ cache' = [cache EXCEPT ![r][s] = Red!Entry(k, m.value)]
         \/ /\ Owner[k] # r /\ ~Red!Taken(r, k) /\ Red!Register(r)
            /\ net' = n /\ cache' = [cache EXCEPT ![r][s] = Red!Merged(e, k, m.value)]
      /\ UNCHANGED <<use, stack, table, due>>
  BY DEF Red!HandleCache
<1>2. CASE Owner[k] = r
  BY <1>1, <1>2, HandleOwnKeeps
<1>3. CASE Owner[k] # r
  <2>1. /\ stack[r] \in {AtApp, AtBarrier} /\ Len(stack[r]) <= 2 /\ Head(stack[r]).op # "flush"
        /\ k \in Keys /\ m.value \in Nat
    BY <1>1, <1>3, HandleOnWay
  <2>2. States /\ InTransit(use, net) /\ c \in Caches
    BY SoundRank
  <2>3. InTransit(use, n) /\ m \in Parcels
    BY <2>2, ReceiveOne
  <2>4. /\ \A i : InFlight(n, i) \in Nat
        /\ \A i : InFlight(net, i) = InFlight(n, i) + IF k = i THEN m.value ELSE 0
    BY <2>2, ReceiveOne
  <2>5. /\ \A i \in Keys : Slot[i] \in Red!Slots
        /\ \A t \in Red!Slots : c[t] \in Contents /\ (c[t] \in Kept => Slot[c[t].key] = t)
        /\ \A x \in Contents : x.value \in Nat /\ (x \in Kept <=> x.key # None) /\ (x = Red!Unoccupied => x.value = 0)
        /\ \A x \in Contents : x \in Kept <=> x.key \in Keys
    BY <2>2, Occupied
  <2>6. s \in Red!Slots /\ e \in Contents
    BY <2>1, <2>5
  <2> HIDE DEF n
  <2>7. CASE Red!Taken(r, k)
    <3> DEFINE x == Red!Entry(k, m.value)
               p == Red!Cached(Red!next_hop(r, Owner[e.key]), e.key, e.value)
    <3>1. Red!Register(r) /\ net' = Red!Plus(n, p) /\ cache' = [cache EXCEPT ![r][s] = x]
      BY <1>1, <1>3, <2>7
    <3>2. x \in Kept /\ x.key = k /\ x.value = m.value
      BY <2>1 DEF Red!Entry, Kept
    <3>3. e.key # k /\ e \in Kept /\ e.key \in Keys /\ e.value \in Nat
      BY <2>5, <2>6, <2>7 DEF Red!Taken
    <3>4. Red!next_hop(r, Owner[e.key]) \in Ranks /\ (use.one_node => Red!next_hop(r, Owner[e.key]) = Owner[e.key])
      BY <2>2, <3>3, NextHopIn
    <3>5. p \in Parcels /\ p.key = e.key /\ p.value = e.value /\ (use.one_node /\ p.op = "cache" => p.to = Owner[p.key])
      BY <3>3, <3>4 DEF Red!Cached, Parcels
    <3> HIDE DEF x, p
    <3>6. InTransit(use, net') /\ \A i : InFlight(net', i) = InFlight(n, i) + IF p.key = i THEN p.value ELSE 0
      <4>1. /\ InTransit(use, Red!Plus(n, p))
            /\ \A i : InFlight(Red!Plus(n, p), i) = InFlight(n, i) + IF p.key = i THEN p.value ELSE 0
        BY <2>3, <3>5, SendOne
      <4>2. QED
        BY <3>1, <4>1
    <3>7. cache'[r][s] = x /\ \A t \in Red!Slots \ {s} : cache'[r][t] = c[t]
      <4>1. x \in Contents /\ (x \in Kept => Slot[x.key] = s)
        BY <3>2 DEF Contents
      <4>2. QED
        <5>1. /\ cache' \in [Ranks -> Caches] /\ cache'[r][s] = x
              /\ \A t \in Red!Slots \ {s} : cache'[r][t] = cache[r][t]
              /\ \A q \in Ranks \ {r} : cache'[q] = cache[q]
          BY <2>6, <3>1, <4>1, SlotBecomes
        <5>2. QED
          BY <5>1
    <3>8. ASSUME NEW i \in Keys
          PROVE  /\ InFlight(net', i) \in Int
                 /\ InFlight(net', i) + Plain(cache'[r], i) = InFlight(net, i) + Plain(c, i)
      <4> DEFINE a == InFlight(n, i)
                 v == m.value
                 w == e.value
      <4>1. a \in Nat /\ v \in Nat /\ w \in Nat
        BY <2>1, <2>4, <3>3
      <4>2. /\ InFlight(net', i) = a + (IF e.key = i THEN w ELSE 0)
            /\ InFlight(net, i) = a + (IF k = i THEN v ELSE 0)
        BY <2>4, <3>5, <3>6
      <4>3. CASE i = k
        <5>1. Plain(cache'[r], i) = v /\ Plain(c, i) = 0
          BY <3>2, <3>3, <3>7, <4>3 DEF Plain
        <5> HIDE DEF a, v, w
        <5>2. QED
          BY <3>3, <4>1, <4>2, <4>3, <5>1
      <4>4. CASE i = e.key
        <5>1. Plain(cache'[r], i) = 0 /\ Plain(c, i) = w
          <6>1. Slot[i] = s
            BY <2>5, <2>6, <3>3, <4>4
          <6>2. QED
            BY <3>2, <3>3, <3>7, <4>4, <6>1 DEF Plain
        <5> HIDE DEF a, v, w
        <5>2. QED
          BY <3>3, <4>1, <4>2, <4>4, <5>1
      <4>5. CASE i # k /\ i # e.key
        <5>1. Plain(cache'[r], i) = Plain(c, i) /\ Plain(c, i) \in Nat
          <6>1. CASE Slot[i] = s
            BY <3>2, <3>7, <4>5, <6>1 DEF Plain
          <6>2. CASE Slot[i] # s
            <7>1. cache'[r][Slot[i]] = c[Slot[i]] /\ c[Slot[i]].value \in Nat
              BY <2>5, <3>7, <6>2
            <7>2. QED
              BY <7>1 DEF Plain
          <6>3. QED
            BY <6>1, <6>2
        <5> HIDE DEF a, v, w
        <5>2. QED
          BY <4>1, <4>2, <4>5, <5>1
      <4>6. QED
        BY <4>3, <4>4, <4>5
    <3>9. QED
      BY <1>1, <2>1, <3>1, <3>2, <3>6, <3>8, HandlePut
  <2>8. CASE ~Red!Taken(r, k)
    <3> DEFINE x == Red!Merged(e, k, m.value)
    <3>1. Red!Register(r) /\ net' = n /\ cache' = [cache EXCEPT ![r][s] = x]
      BY <1>1, <1>3, <2>8
    <3>2. e.key \in {None, k} /\ e.value \in Nat /\ (e.key = None => e.value = 0)
      BY <2>5, <2>6, <2>8 DEF Red!Taken, Contents
    <3>3. x \in Kept /\ x.key = k /\ x.value = e.value + m.value
      BY <2>1, <3>2 DEF Red!Merged, Red!Entry, Kept
    <3> HIDE DEF x
    <3>4. cache'[r][s] = x /\ \A t \in Red!Slots \ {s} : cache'[r][t] = c[t]
      <4>1. x \in Contents /\ (x \in Kept => Slot[x.key] = s)
        BY <3>3 DEF Contents
      <4>2. QED
        <5>1. /\ cache' \in [Ranks -> Caches] /\ cache'[r][s] = x
              /\ \A t \in Red!Slots \ {s} : cache'[r][t] = cache[r][t]
              /\ \A q \in Ranks \ {r} : cache'[q] = cache[q]
          BY <2>6, <3>1, <4>1, SlotBecomes
        <5>2. QED
          BY <5>1
    <3>5. ASSUME NEW i \in Keys
          PROVE  /\ InFlight(net', i) \in Int
                 /\ InFlight(net', i) + Plain(cache'[r], i) = InFlight(net, i) + Plain(c, i)
      <4> DEFINE a == InFlight(n, i)
                 v == m.value
                 w == e.value
      <4>1. a \in Nat /\ v \in Nat /\ w \in Nat
        BY <2>1, <2>4, <3>2
      <4>2. InFlight(net', i) = a /\ InFlight(net, i) = a + (IF k = i THEN v ELSE 0)
        BY <2>4, <3>1
      <4>3. CASE i = k
        <5>1. Plain(cache'[r], i) = w + v
          BY <3>3, <3>4, <4>3 DEF Plain
        <5>2. Plain(c, i) = w
          BY <3>2, <4>3 DEF Plain
        <5> HIDE DEF a, v, w
        <5>3. QED
          BY <4>1, <4>2, <4>3, <5>1, <5>2
      <4>4. CASE i # k
        <5>1. Plain(cache'[r], i) = Plain(c, i) /\ Plain(c, i) \in Nat
          <6>1. CASE Slot[i] = s
            <7>1. e.key # i
              BY <2>1, <3>2, <4>4 DEF Careful
            <7>2. QED
              BY <3>3, <3>4, <4>4, <6>1, <7>1 DEF Plain
          <6>2. CASE Slot[i] # s
            <7>1. cache'[r][Slot[i]] = c[Slot[i]] /\ c[Slot[i]].value \in Nat
              BY <2>5, <3>4, <6>2
            <7>2. QED
              BY <7>1 DEF Plain
          <6>3. QED
            BY <6>1, <6>2
        <5> HIDE DEF a, v, w
        <5>2. QED
          BY <4>1, <4>2, <4>4, <5>1
      <4>5. QED
        BY <4>3, <4>4
    <3>6. InTransit(use, net')
      BY <2>3, <3>1
    <3>7. QED
      BY <1>1, <2>1, <3>1, <3>3, <3>5, <3>6, HandlePut
  <2>9. QED
    BY <2>7, <2>8
<1>4. QED
  BY <1>2, <1>3

\* A step that changes only what calls r is in, and its callbacks.
LEMMA CallsKeep ==
  ASSUME Careful, RedInv, NEW r \in Ranks, UNCHANGED <<use, cache, net, table, due>>,
         NEW t \in Seq(Frames), Red!SetStack(r, t), Fits(use, cache[r], t),
         empty' \in [Ranks -> BOOLEAN], hooks' \in [Ranks -> Nat],
         \A q \in Ranks \ {r} : hooks'[q] = hooks[q] /\ empty'[q] = empty[q],
         EmptySound(r)',
         \A k \in Keys : Share(cache[r], Head(t), k) = Share(cache[r], Head(stack[r]), k)
  PROVE  RedInv'
<1>1. /\ stack' \in [Ranks -> Seq(Frames)] /\ stack'[r] = t
      /\ \A q \in Ranks \ {r} : stack'[q] = stack[q]
  BY StackBecomes
<1>2. ASSUME NEW i \in Keys PROVE InFlight(net', i) \in Int /\ Even(r, i)
  <2>1. InFlight(net', i) = InFlight(net, i) + 0 /\ due'[i] = due[i] + 0 /\ table'[i] = table[i] + 0
        /\ Share(cache'[r], Head(stack'[r]), i) = Share(cache[r], Head(stack[r]), i) + 0
    BY <1>1, SoundRank
  <2>2. Changes(r, i, 0, 0, 0, 0) /\ 0 = 0 + 0 + 0
    BY <2>1 DEF Changes
  <2>3. QED
    BY <2>2, Evens
<1>3. States /\ InTransit(use, net)
  BY SoundRank
<1>4. /\ Alone(r) /\ cache' \in [Ranks -> Caches] /\ table' \in [Keys -> Nat] /\ due' \in [Keys -> Nat] /\ use' = use
      /\ InTransit(use, net') /\ Fits(use, cache'[r], stack'[r])
  BY <1>1, <1>3 DEF Alone, States
<1>5. QED
  BY <1>1, <1>2, <1>4, RankStep

LEMMA CallBarrierFits ==
  ASSUME Careful, RedInv, NEW r \in Ranks, Red!CallBarrier(r)
  PROVE  RedInv'
<1>1. /\ Head(stack[r]) = Red!App /\ Red!SetStack(r, <<Red!Barrier>> \o stack[r])
      /\ UNCHANGED <<use, cache, empty, hooks, net, table, due>>
  BY DEF Red!CallBarrier, Red!Top
<1>2. States /\ EmptySound(r) /\ Fits(use, cache[r], stack[r])
  BY SoundRank
<1>3. stack[r] = AtApp
  BY <1>1, <1>2, OnTop
<1>4. Red!SetStack(r, AtBarrier)
  BY <1>1, <1>3 DEF AtBarrier
<1>5. AtBarrier \in Seq(Frames) /\ Fits(use, cache[r], AtBarrier) /\ Head(AtBarrier) = Red!Barrier
  BY CallStacks DEF Fits
<1>6. \A k \in Keys : Share(cache[r], Head(AtBarrier), k) = Share(cache[r], Head(stack[r]), k)
  <2>1. Red!App.op # "flush" /\ Red!Barrier.op # "flush"
    BY DEF Red!App, Red!Barrier
  <2>2. ASSUME NEW k \in Keys PROVE Share(cache[r], Red!Barrier, k) = Share(cache[r], Red!App, k)
    BY <2>1 DEF Share
  <2>3. QED
    BY <1>1, <1>5, <2>2
<1>7. EmptySound(r)'
  <2>1. Len(stack[r]) = 1
    BY <1>3, CallStacks
  <2>2. ~empty[r] => hooks[r] > 0
    BY <1>2, <2>1 DEF EmptySound
  <2>3. QED
    BY <1>1, <1>2, <2>2 DEF EmptySound
<1>8. /\ empty' \in [Ranks -> BOOLEAN] /\ hooks' \in [Ranks -> Nat]
      /\ \A q \in Ranks \ {r} : hooks'[q] = hooks[q] /\ empty'[q] = empty[q]
  BY <1>1, <1>2 DEF States
<1>9. QED
  BY <1>1, <1>4, <1>5, <1>6, <1>7, <1>8, CallsKeep

\* A callback begins with the first slot.
LEMMA RunCallbackKeeps ==
  ASSUME Careful, RedInv, NEW r \in Ranks, Red!RunHook(r)
  PROVE  RedInv'
<1>1. /\ Head(stack[r]) = Red!Barrier /\ hooks[r] > 0 /\ hooks' = [hooks EXCEPT ![r] = @ - 1]
      /\ Red!SetStack(r, <<Red!FlushAll(1)>> \o stack[r])
      /\ UNCHANGED <<use, cache, empty, net, table, due>>
  BY DEF Red!RunHook, Red!Top
<1>2. States /\ EmptySound(r) /\ Fits(use, cache[r], stack[r]) /\ hooks[r] \in Nat
  BY SoundRank
<1>3. stack[r] = AtBarrier
  BY <1>1, <1>2, OnTop
<1>4. PICK s \in 1..NumSlots + 1 : s = 1
  BY DEF Careful
<1>5. Red!SetStack(r, AtSlot(s))
  BY <1>1, <1>3, <1>4 DEF AtSlot
<1>6. Flushed(cache[r], s)
  BY <1>4 DEF Flushed, Red!Slots
<1>7. /\ AtSlot(s) \in Seq(Frames) /\ Fits(use, cache[r], AtSlot(s)) /\ Head(AtSlot(s)) = Red!FlushAll(s)
      /\ Len(AtSlot(s)) = 3
  BY <1>6, CallStacks DEF Fits
<1>8. \A k \in Keys : Share(cache[r], Head(AtSlot(s)), k) = Share(cache[r], Head(stack[r]), k)
  <2>1. Red!FlushAll(s).op # "flush" /\ Red!Barrier.op # "flush"
    BY DEF Red!FlushAll, Red!Barrier
  <2>2. ASSUME NEW k \in Keys PROVE Share(cache[r], Red!FlushAll(s), k) = Share(cache[r], Red!Barrier, k)
    BY <2>1 DEF Share
  <2>3. QED
    BY <1>1, <1>7, <2>2
<1>9. /\ empty' \in [Ranks -> BOOLEAN] /\ hooks' \in [Ranks -> Nat]
      /\ \A q \in Ranks \ {r} : hooks'[q] = hooks[q] /\ empty'[q] = empty[q]
  BY <1>1, <1>2 DEF States
<1>10. EmptySound(r)'
  <2>1. stack'[r] = AtSlot(s)
    BY <1>5, <1>7, StackBecomes
  <2>2. Len(stack'[r]) > 2
    <3>1. Len(stack'[r]) = 3
      BY <1>7, <2>1
    <3>2. QED
      BY ONLY <3>1
  <2>3. QED
    BY <1>1, <1>2, <2>2 DEF EmptySound
<1>11. QED
  BY <1>1, <1>5, <1>7, <1>8, <1>9, <1>10, CallsKeep

\* The callback comes to a slot: it is free, or flushed before the next.
LEMMA SlotKeeps ==
  ASSUME Careful, RedInv, NEW r \in Ranks, Red!FlushAllSlot(r)
  PROVE  RedInv'
<1> DEFINE c == cache[r]
<1>1. /\ Head(stack[r]).op = "flush_all" /\ Head(stack[r]).slot <= NumSlots
      /\ LET s == Head(stack[r]).slot
             rest == <<Red!FlushAll(s + 1)>> \o Tail(stack[r])
         IN Red!SetStack(r, IF c[s] = Red!Unoccupied THEN rest ELSE <<Red!Flush(r, s, Red!Unoccupied)>> \o rest)
      /\ UNCHANGED <<use, cache, empty, hooks, net, table, due>>
  BY DEF Red!FlushAllSlot, Red!Top, Red!Below
<1>2. States /\ EmptySound(r) /\ Fits(use, c, stack[r]) /\ c \in Caches
  BY SoundRank
<1>3. PICK s \in 1..NumSlots + 1 : stack[r] = AtSlot(s) /\ Head(stack[r]) = Red!FlushAll(s) /\ Flushed(c, s)
  BY <1>1, <1>2, OnTop DEF SendsAll
<1>4. Tail(stack[r]) = AtBarrier /\ Len(stack[r]) = 3 /\ Red!FlushAll(s).slot = s /\ Red!FlushAll(s).op # "flush"
  BY <1>3, CallStacks DEF Red!FlushAll
<1>5. s \in Red!Slots
  BY <1>1, <1>3, <1>4 DEF Red!Slots, Careful
<1>6. PICK n \in 1..NumSlots + 1 : n = s + 1
  BY <1>5, NextSlot
<1>7. /\ AtSlot(n) \in Seq(Frames) /\ Len(AtSlot(n)) = 3 /\ Head(AtSlot(n)) = Red!FlushAll(n) /\ Red!FlushAll(n).op # "flush"
      /\ <<Red!FlushAll(s + 1)>> \o Tail(stack[r]) = AtSlot(n)
  <2>1. AtSlot(n) \in Seq(Frames) /\ Len(AtSlot(n)) = 3 /\ Head(AtSlot(n)) = Red!FlushAll(n)
    BY CallStacks
  <2>2. Red!FlushAll(n).op # "flush"
    BY DEF Red!FlushAll
  <2>3. QED
    BY <1>4, <1>6, <2>1, <2>2 DEF AtSlot
<1>8. /\ empty' \in [Ranks -> BOOLEAN] /\ hooks' \in [Ranks -> Nat]
      /\ \A q \in Ranks \ {r} : hooks'[q] = hooks[q] /\ empty'[q] = empty[q]
  BY <1>1, <1>2 DEF States
<1>9. ASSUME NEW t \in Seq(Frames), Red!SetStack(r, t), Len(t) > 2
      PROVE  EmptySound(r)'
  <2>1. stack'[r] = t
    BY <1>9, StackBecomes
  <2>2. QED
    BY <1>1, <1>2, <1>9, <2>1 DEF EmptySound
<1>10. \A k \in Keys : Share(c, Head(stack[r]), k) = Plain(c, k) /\ Plain(c, k) \in Nat
  <2>1. ASSUME NEW k \in Keys PROVE Share(c, Red!FlushAll(s), k) = Plain(c, k) /\ Plain(c, k) \in Nat
    <3>1. Plain(c, k) \in Nat
      BY <1>2, <1>4, ShareNat
    <3>2. Share(c, Red!FlushAll(s), k) = Plain(c, k) + 0
      BY <1>4, Calm
    <3> HIDE DEF c
    <3>3. QED
      BY <3>1, <3>2
  <2>2. QED
    BY <1>3, <2>1
<1>11. CASE c[s] = Red!Unoccupied
  <2>1. Red!SetStack(r, AtSlot(n))
    BY <1>1, <1>3, <1>4, <1>7, <1>11
  <2>2. Flushed(c, n)
    BY <1>3, <1>5, <1>6, <1>11 DEF Flushed, Red!Slots
  <2>3. Fits(use, c, AtSlot(n))
    BY <2>2 DEF Fits
  <2>4. ASSUME NEW k \in Keys PROVE Share(c, Head(AtSlot(n)), k) = Share(c, Head(stack[r]), k)
    <3>1. Share(c, Red!FlushAll(n), k) = Plain(c, k) + 0
      BY <1>7, Calm
    <3> HIDE DEF c
    <3>2. QED
      BY <1>7, <1>10, <3>1
  <2>5. EmptySound(r)'
    <3>1. Len(AtSlot(n)) > 2
      BY <1>7
    <3>2. QED
      BY <1>7, <1>9, <2>1, <3>1
  <2>6. QED
    BY <1>1, <1>7, <1>8, <2>1, <2>3, <2>4, <2>5, CallsKeep
<1>12. CASE c[s] # Red!Unoccupied
  <2> DEFINE f == Red!Flush(r, s, Red!Unoccupied)
             t == <<f>> \o AtSlot(n)
  <2>1. Red!SetStack(r, t)
    BY <1>1, <1>3, <1>4, <1>7, <1>12
  <2>2. c[s] \in Kept /\ Red!Unoccupied \in Contents /\ ~(Red!Unoccupied \in Kept) /\ \A k \in Keys : Red!Unoccupied.key # k
    <3>1. Red!Unoccupied \in Contents /\ Red!Unoccupied.key = None /\ None \notin Keys
      BY DEF Contents, Red!Unoccupied, Careful
    <3>2. QED
      BY <1>2, <1>5, <1>12, <3>1, Occupied
  <2>3. /\ f \in Sendings /\ f \in Frames /\ f.slot = s /\ f.fill = Red!Unoccupied
        /\ Flushing(use, c, f)
        /\ \A k \in Keys : Share(c, f, k) = Plain(c, k) + IF Red!Unoccupied.key = k THEN Red!Unoccupied.value ELSE 0
    <3>1. /\ Red!Flush(r, s, Red!Unoccupied) \in Sendings /\ Red!Flush(r, s, Red!Unoccupied) \in Frames
          /\ Red!Flush(r, s, Red!Unoccupied).op = "flush"
          /\ Red!Flush(r, s, Red!Unoccupied).slot = s /\ Red!Flush(r, s, Red!Unoccupied).fill = Red!Unoccupied
          /\ Flushing(use, cache[r], Red!Flush(r, s, Red!Unoccupied))
          /\ \A k \in Keys : Share(cache[r], Red!Flush(r, s, Red!Unoccupied), k)
                               = Plain(cache[r], k) + IF Red!Unoccupied.key = k THEN Red!Unoccupied.value ELSE 0
      BY <1>5, <2>2, FlushStarts
    <3>2. QED
      BY <3>1
  <2> HIDE DEF f
  <2>4. OnCalls(f, AtSlot(n), t)
    BY <1>7, <2>3, Calls
  <2>5. t \in Seq(Frames) /\ Head(t) = f /\ Len(t) = 4
    BY <1>7, <2>4 DEF OnCalls
  <2>6. Fits(use, c, t)
    BY <1>3, <1>5, <1>6, <2>3 DEF Fits
  <2> HIDE DEF t
  <2>7. ASSUME NEW k \in Keys PROVE Share(c, Head(t), k) = Share(c, Head(stack[r]), k)
    <3>1. Share(c, f, k) = Plain(c, k) + 0
      BY <2>2, <2>3
    <3> HIDE DEF c
    <3>2. QED
      BY <1>10, <2>5, <3>1
  <2>8. EmptySound(r)'
    <3>1. Len(t) > 2
      BY <2>5
    <3>2. QED
      BY <1>9, <2>1, <2>5, <3>1
  <2>9. QED
    BY <1>1, <1>8, <2>1, <2>5, <2>6, <2>7, <2>8, CallsKeep
<1>13. QED
  BY <1>11, <1>12

\* After all slots the cache is empty.
LEMMA CallbackEndKeeps ==
  ASSUME Careful, RedInv, NEW r \in Ranks, Red!FlushAllEnd(r)
  PROVE  RedInv'
<1>1. /\ Head(stack[r]).op = "flush_all" /\ Head(stack[r]).slot > NumSlots
      /\ empty' = [empty EXCEPT ![r] = TRUE] /\ Red!SetStack(r, Tail(stack[r]))
      /\ UNCHANGED <<use, cache, hooks, net, table, due>>
  BY DEF Red!FlushAllEnd, Red!Top, Red!Below
<1>2. States /\ EmptySound(r) /\ Fits(use, cache[r], stack[r])
  BY SoundRank
<1>3. PICK s \in 1..NumSlots + 1 : stack[r] = AtSlot(s) /\ Head(stack[r]) = Red!FlushAll(s) /\ Flushed(cache[r], s)
  BY <1>1, <1>2, OnTop DEF SendsAll
<1>4. Tail(stack[r]) = AtBarrier /\ Red!FlushAll(s).slot = s /\ Red!FlushAll(s).op # "flush"
  BY <1>3, CallStacks DEF Red!FlushAll
<1>5. \A t \in Red!Slots : cache[r][t] = Red!Unoccupied
  BY <1>1, <1>3, <1>4 DEF Flushed, Red!Slots, Careful
<1>6. AtBarrier \in Seq(Frames) /\ Fits(use, cache[r], AtBarrier) /\ Head(AtBarrier) = Red!Barrier /\ Red!SetStack(r, AtBarrier)
  BY <1>1, <1>4, CallStacks DEF Fits
<1>7. \A k \in Keys : Share(cache[r], Head(AtBarrier), k) = Share(cache[r], Head(stack[r]), k)
  <2>1. Red!Barrier.op # "flush"
    BY DEF Red!Barrier
  <2>2. ASSUME NEW k \in Keys PROVE Share(cache[r], Red!FlushAll(s), k) = Share(cache[r], Red!Barrier, k)
    BY <1>4, <2>1 DEF Share
  <2>3. QED
    BY <1>3, <1>6, <2>2
<1>8. /\ empty' \in [Ranks -> BOOLEAN] /\ empty'[r] /\ hooks' \in [Ranks -> Nat]
      /\ \A q \in Ranks \ {r} : hooks'[q] = hooks[q] /\ empty'[q] = empty[q]
  BY <1>1, <1>2 DEF States
<1>9. EmptySound(r)'
  BY <1>1, <1>5, <1>8 DEF EmptySound
<1>10. QED
  BY <1>1, <1>6, <1>7, <1>8, <1>9, CallsKeep

\* When a barrier may end all ranks wait in it, with empty caches.
LEMMA AllWait ==
  ASSUME Careful, RedInv, Red!BarrierOver, NEW r \in Ranks
  PROVE  /\ stack[r] = AtBarrier /\ empty[r] /\ hooks[r] = 0
         /\ \A k \in Keys : Share(cache[r], Red!Top(r), k) = 0
<1>1. Head(stack[r]) = Red!Barrier /\ hooks[r] = 0
  BY DEF Red!BarrierOver, Red!Top
<1>2. States /\ EmptySound(r) /\ Fits(use, cache[r], stack[r]) /\ cache[r] \in Caches
  BY SoundRank
<1>3. stack[r] = AtBarrier
  BY <1>1, <1>2, OnTop
<1>4. empty[r]
  <2>1. Len(stack[r]) = 2
    BY <1>3, CallStacks
  <2>2. ~(Len(stack[r]) > 2)
    BY ONLY <2>1
  <2>3. QED
    BY <1>1, <1>2, <2>2 DEF EmptySound
<1>5. \A s \in Red!Slots : cache[r][s] = Red!Unoccupied
  BY <1>2, <1>4 DEF EmptySound
<1>6. ASSUME NEW k \in Keys PROVE Share(cache[r], Red!Top(r), k) = 0
  <2>1. Slot[k] \in Red!Slots /\ None \notin Keys
    BY DEF Careful
  <2>2. cache[r][Slot[k]].key # k
    BY <1>5, <2>1 DEF Red!Unoccupied
  <2>3. Red!Top(r).op # "flush"
    BY <1>1 DEF Red!Top, Red!Barrier
  <2>4. QED
    BY <2>2, <2>3 DEF Share
<1>7. QED
  BY <1>1, <1>3, <1>4, <1>6

LEMMA ReleaseKeepsReductions ==
  ASSUME Careful, RedInv, Red!Release
  PROVE  RedInv'
<1>1. /\ Red!BarrierOver /\ stack' = [r \in Ranks |-> Red!Below(r)]
      /\ UNCHANGED <<use, cache, empty, hooks, net, table, due>>
  BY DEF Red!Release
<1>2. ASSUME NEW r \in Ranks
      PROVE  /\ stack'[r] = AtApp /\ Fits(use, cache[r], AtApp) /\ empty[r]
             /\ \A k \in Keys : Share(cache[r], AtApp[1], k) = 0 /\ Share(cache[r], Red!Top(r), k) = 0
  <2>1. /\ stack[r] = AtBarrier /\ empty[r]
        /\ \A k \in Keys : Share(cache[r], Red!Top(r), k) = 0
    BY <1>1, AllWait
  <2>2. stack'[r] = AtApp
    BY <1>1, <2>1, CallStacks DEF Red!Below
  <2>3. Red!Top(r) = Red!Barrier
    BY <2>1, CallStacks DEF Red!Top
  <2>4. AtApp[1] = Red!App /\ Red!App.op # "flush" /\ Red!Barrier.op # "flush"
    BY DEF AtApp, Red!App, Red!Barrier
  <2>5. ASSUME NEW k \in Keys PROVE Share(cache[r], Red!App, k) = Share(cache[r], Red!Barrier, k)
    BY <2>4 DEF Share
  <2>6. QED
    BY <2>1, <2>2, <2>3, <2>4, <2>5 DEF Fits
<1>3. ASSUME NEW k \in Keys PROVE Shares(k)' = Shares(k)
  <2>1. ASSUME NEW r \in Ranks PROVE Share(cache'[r], Red!Top(r)', k) = Share(cache[r], Red!Top(r), k)
    <3>1. Red!Top(r)' = AtApp[1]
      BY <1>2, CallStacks DEF Red!Top, AtApp
    <3>2. QED
      BY <1>1, <1>2, <3>1
  <2>2. [r \in Ranks |-> Share(cache'[r], Red!Top(r)', k)] = [r \in Ranks |-> Share(cache[r], Red!Top(r), k)]
    BY <2>1
  <2>3. QED
    BY <2>2 DEF Shares
<1>4. States /\ InTransit(use, net) /\ Balanced /\ \A r \in Ranks : EmptySound(r)
  BY DEF RedInv
<1>5. stack' \in [Ranks -> Seq(Frames)]
  BY <1>1, <1>2, CallStacks
<1>6. States' /\ InTransit(use', net') /\ \A r \in Ranks : Fits(use', cache'[r], stack'[r])
  BY <1>1, <1>2, <1>4, <1>5 DEF States
<1>7. \A r \in Ranks : EmptySound(r)'
  BY <1>1, <1>2, <1>4 DEF EmptySound
<1>8. Balanced'
  <2>1. \A k \in Keys : due[k] = table[k] + InFlight(net, k) + Shares(k)
    BY <1>4 DEF Balanced
  <2>2. \A k \in Keys : due'[k] = table'[k] + InFlight(net', k) + Shares(k)'
    BY <1>1, <1>3, <2>1
  <2>3. QED
    BY <2>2 DEF Balanced
<1>9. QED
  BY <1>6, <1>7, <1>8 DEF RedInv

\* Nothing is in flight.
LEMMA NoFlight ==
  ASSUME NEW k
  PROVE  BagToSet(EmptyBag) = {} /\ IsABag(EmptyBag) /\ InFlight(EmptyBag, k) = 0
<1>1. BagToSet(EmptyBag) = {} /\ IsABag(EmptyBag)
  BY DEF EmptyBag, SetToBag, BagToSet, IsABag
<1>2. InFlight(EmptyBag, k) = 0
  BY <1>1, SumEmpty DEF InFlight, Load
<1>3. QED
  BY <1>1, <1>2

\* Nobody holds anything.
LEMMA NoShares ==
  ASSUME Careful, NEW k, \A r \in Ranks : Share(cache[r], Red!Top(r), k) = 0
  PROVE  Shares(k) = 0
<1> DEFINE f == [r \in Ranks |-> Share(cache[r], Red!Top(r), k)]
<1>1. IsFiniteSet(Ranks) /\ (\A r \in Ranks : f[r] \in Nat) /\ \A r \in Ranks : f[r] = 0
  BY DEF Careful
<1> HIDE DEF f
<1>2. SumFunctionOnSet(f, Ranks) = 0
  BY <1>1, SumNat
<1>3. QED
  BY <1>2 DEF Shares, f

\* The invariant holds at the start ...
LEMMA InitSound ==
  ASSUME Careful, Red!Init
  PROVE  RedInv
<1>1. /\ use \in Uses /\ cache = [r \in Ranks |-> [s \in Red!Slots |-> Red!Unoccupied]]
      /\ empty = [r \in Ranks |-> TRUE] /\ hooks = [r \in Ranks |-> 0] /\ net = EmptyBag
      /\ stack = [r \in Ranks |-> <<Red!App>>]
      /\ table = [k \in Keys |-> 0] /\ due = [k \in Keys |-> 0]
  BY RedBags DEF Red!Init
<1>2. AtApp \in Seq(Frames) /\ AtApp = <<Red!App>> /\ Head(AtApp) = Red!App
  BY CallStacks DEF AtApp
<1>3. [s \in Red!Slots |-> Red!Unoccupied] \in Caches
  <2>1. Red!Unoccupied \in Contents /\ Red!Unoccupied.key = None /\ None \notin Keys
    BY DEF Contents, Red!Unoccupied, Careful
  <2>2. Red!Unoccupied \notin Kept
    BY <2>1 DEF Kept
  <2>3. QED
    BY <2>1, <2>2 DEF Caches
<1>4. States
  BY <1>1, <1>2, <1>3 DEF States
<1>5. InTransit(use, net)
  <2>1. BagToSet(net) = {} /\ IsABag(net)
    BY <1>1, NoFlight
  <2>2. IsFiniteSet({})
    BY FS_EmptySet
  <2>3. QED
    BY <2>1, <2>2 DEF InTransit
<1>6. ASSUME NEW r \in Ranks PROVE Fits(use, cache[r], stack[r]) /\ EmptySound(r)
  BY <1>1, <1>2 DEF Fits, EmptySound
<1>7. ASSUME NEW k \in Keys PROVE due[k] = table[k] + InFlight(net, k) + Shares(k)
  <2>1. InFlight(net, k) = 0
    BY <1>1, NoFlight
  <2>2. ASSUME NEW r \in Ranks PROVE Share(cache[r], Red!Top(r), k) = 0
    <3>1. Slot[k] \in Red!Slots /\ None \notin Keys
      BY DEF Careful
    <3>2. cache[r][Slot[k]] = Red!Unoccupied
      BY <1>1, <3>1
    <3>3. cache[r][Slot[k]].key # k
      BY <3>1, <3>2 DEF Red!Unoccupied
    <3>4. Red!Top(r).op # "flush"
      BY <1>1, <1>2 DEF Red!Top, Red!App
    <3>5. QED
      BY <3>3, <3>4 DEF Share
  <2>3. Shares(k) = 0
    BY <2>2, NoShares
  <2>4. QED
    BY <1>1, <2>1, <2>3
<1>8. QED
  BY <1>4, <1>5, <1>6, <1>7 DEF RedInv, Balanced

\* A step that changes nothing.
LEMMA StandKeeps ==
  ASSUME RedInv, UNCHANGED Red!vars
  PROVE  RedInv'
<1>1. /\ use' = use /\ cache' = cache /\ empty' = empty /\ hooks' = hooks /\ net' = net /\ stack' = stack
      /\ table' = table /\ due' = due
  BY DEF Red!vars
<1>2. States' /\ InTransit(use', net') /\ Balanced'
  <2>1. States'
    BY <1>1 DEF RedInv, States
  <2>2. InTransit(use', net')
    BY <1>1 DEF RedInv
  <2>3. ASSUME NEW k \in Keys PROVE due'[k] = table'[k] + InFlight(net', k) + Shares(k)'
    <3>1. Shares(k)' = Shares(k)
      BY <1>1 DEF Shares, Red!Top
    <3>2. due[k] = table[k] + InFlight(net, k) + Shares(k)
      BY DEF RedInv, Balanced
    <3>3. QED
      BY <1>1, <3>1, <3>2
  <2>4. QED
    BY <2>1, <2>2, <2>3 DEF Balanced
<1>3. ASSUME NEW r \in Ranks PROVE Fits(use', cache'[r], stack'[r]) /\ EmptySound(r)'
  BY <1>1 DEF RedInv, EmptySound
<1>4. QED
  BY <1>2, <1>3 DEF RedInv

\* ... and after any step.
LEMMA StepsKeep ==
  ASSUME Careful, RedInv, [Red!Next]_(Red!vars)
  PROVE  RedInv'
<1>1. ASSUME NEW r \in Ranks, NEW k \in Keys, Red!Reduce(r, k) PROVE RedInv'
  BY <1>1, ReduceKeeps
<1>2. ASSUME NEW r \in Ranks, Red!FlushPack(r) \/ Red!FlushEnd(r) PROVE RedInv'
  BY <1>2, PackKeeps, FlushEndKeeps
<1>3. ASSUME NEW r \in Ranks, Red!CallBarrier(r) \/ Red!RunHook(r) \/ Red!FlushAllSlot(r) \/ Red!FlushAllEnd(r) PROVE RedInv'
  BY <1>3, CallBarrierFits, RunCallbackKeeps, SlotKeeps, CallbackEndKeeps
<1>4. ASSUME NEW r \in Ranks, NEW m \in BagToSet(net), Red!HandleCache(r, m) \/ Red!HandleReduce(r, m) PROVE RedInv'
  BY <1>4, HandleCacheKeeps, HandleReduceKeeps
<1>5. CASE Red!Release
  BY <1>5, ReleaseKeepsReductions
<1>6. CASE UNCHANGED Red!vars
  BY <1>6, StandKeeps
<1>7. QED
  BY <1>1, <1>2, <1>3, <1>4, <1>5, <1>6, RedBags DEF Red!Next

\* Every reduction is, at any time, in the container, in a message or in a
\* cache, and a cache with reductions has its callback.
THEOREM ReducingInductive == ASSUME Careful PROVE Red!Spec => []RedInv
<1>1. Red!Init => RedInv
  BY InitSound
<1>2. RedInv /\ [Red!Next]_(Red!vars) => RedInv'
  BY StepsKeep
<1>3. QED
  BY <1>1, <1>2, PTL DEF Red!Spec

\* When a barrier ends, every reduction is in the container: no callback is
\* left, so the caches are empty.
THEOREM ReductionsArrive == ASSUME Careful PROVE Red!Spec => []Red!ReductionsExact
<1>1. RedInv => Red!ReductionsExact
  <2> SUFFICES ASSUME RedInv, Red!BarrierOver PROVE table = due
    BY DEF Red!ReductionsExact
  <2>2. ASSUME NEW k \in Keys PROVE table[k] = due[k]
    <3>1. net = EmptyBag
      BY RedBags DEF Red!BarrierOver
    <3>2. InFlight(net, k) = 0
      BY <3>1, NoFlight
    <3>3. Shares(k) = 0
      BY AllWait, NoShares
    <3>4. due[k] = table[k] + InFlight(net, k) + Shares(k) /\ table[k] \in Nat
      BY DEF RedInv, Balanced, States
    <3>5. QED
      BY <3>2, <3>3, <3>4
  <2>3. table \in [Keys -> Nat] /\ due \in [Keys -> Nat]
    BY DEF RedInv, States
  <2>4. QED
    BY <2>2, <2>3
<1>2. QED
  BY <1>1, ReducingInductive, PTL
=============================================================================
