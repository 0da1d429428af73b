------------------------- MODULE DisjointSetProofs --------------------------
(***************************************************************************)
(* Theorems about DisjointSet, for any finite set of items, any owners,    *)
(* any cache slots, any calls and any trees to start from.                 *)
(*                                                                         *)
(* The invariant says that the items are a forest, that caches and         *)
(* messages are true of it, which messages are in flight in which phase,   *)
(* that a union which is under way has one message, and that whoever waits *)
(* in all_compress has asked. Each action has a lemma: it keeps the        *)
(* invariant, and it changes the root over no item, but for a walk that    *)
(* attaches one and for clear(). Before it come lemmas about what the      *)
(* invariant is built from: roots, forests, and what caches and messages   *)
(* say of them in every forest that a step may lead to.                    *)
(***************************************************************************)
EXTENDS DisjointSet, ProofFacts

-----------------------------------------------------------------------------
(***************************************************************************)
(* Messages in flight.                                                     *)
(***************************************************************************)
\* What is in flight when a message is taken.
LEMMA RestFacts ==
  ASSUME IsABag(net), NEW m
  PROVE  /\ IsABag(Rest(m))
         /\ BagToSet(Rest(m)) \subseteq BagToSet(net)
         /\ BagToSet(net) \ {m} \subseteq BagToSet(Rest(m))
         /\ \A x \in BagToSet(Rest(m)) : x # m => Rest(m)[x] = net[x]
         /\ (m \in BagToSet(net) /\ net[m] = 1) => m \notin BagToSet(Rest(m))
BY DEF BagToSet, SetToBag, (-), IsABag, Rest

\* What is in flight when messages are sent.
LEMMA PlusFacts ==
  ASSUME NEW S, NEW n, IsABag(n)
  PROVE  /\ IsABag(Plus(n, S))
         /\ BagToSet(Plus(n, S)) = BagToSet(n) \cup S
         /\ \A x \in BagToSet(n) \ S : Plus(n, S)[x] = n[x]
         /\ \A x \in S \ BagToSet(n) : Plus(n, S)[x] = 1
BY DEF BagToSet, Plus, SetToBag, (+), IsABag

-----------------------------------------------------------------------------
(***************************************************************************)
(* Iterated steps. Induction over their number is by a least               *)
(* counterexample (NatMin).                                                *)
(***************************************************************************)
\* h lists where the steps lead that are taken from x.
Lists(h, step, x, n) == \A j \in 0..n : h[j] = IF j = 0 THEN x ELSE step[h[j - 1]]

\* A list of where n steps lead exists ...
LEMMA StepsExist ==
  ASSUME NEW S, NEW step \in [S -> S], NEW x \in S, NEW n \in Nat
  PROVE  \E h \in [0..n -> S] : Lists(h, step, x, n)
<1> DEFINE E(k) == \E h \in [0..k -> S] : Lists(h, step, x, k)
           T == {k \in Nat : ~E(k)}
<1>1. E(0)
  <2> DEFINE g == [k \in 0..0 |-> x]
  <2>1. g \in [0..0 -> S] /\ Lists(g, step, x, 0)
    BY DEF Lists
  <2> HIDE DEF g
  <2>2. QED
    BY <2>1
<1>2. ASSUME NEW k \in Nat, E(k) PROVE E(k + 1)
  <2>1. PICK h \in [0..k -> S] : Lists(h, step, x, k)
    BY <1>2
  <2> DEFINE g == [j \in 0..k + 1 |-> IF j = k + 1 THEN step[h[k]] ELSE h[j]]
  <2>2. g \in [0..k + 1 -> S] /\ \A j \in 0..k : g[j] = h[j]
    BY <2>1
  <2>3. ASSUME NEW j \in 0..k + 1 PROVE g[j] = IF j = 0 THEN x ELSE step[g[j - 1]]
    <3>1. CASE j = k + 1
      BY <3>1
    <3>2. CASE j \in 0..k
      <4>1. h[j] = IF j = 0 THEN x ELSE step[h[j - 1]]
        BY <2>1, <3>2 DEF Lists
      <4>2. g[j] = h[j] /\ (j # 0 => j - 1 \in 0..k)
        BY <3>2
      <4>3. QED
        BY <4>1, <4>2, <2>2
    <3>3. QED
      BY <3>1, <3>2
  <2> HIDE DEF g
  <2>4. Lists(g, step, x, k + 1)
    BY <2>3 DEF Lists
  <2>5. QED
    BY <2>2, <2>4
<1> HIDE DEF E
<1>3. T = {}
  <2>1. SUFFICES ASSUME T # {} PROVE FALSE
    OBVIOUS
  <2>2. PICK m \in T : \A k \in T : m <= k
    BY <2>1, NatMin
  <2>3. m \in Nat /\ ~E(m) /\ m # 0
    BY <1>1
  <2>4. m - 1 \in Nat /\ E(m - 1) /\ m - 1 + 1 = m
    BY <2>2, <2>3
  <2>5. E(m - 1 + 1)
    BY <1>2, <2>4
  <2>6. QED
    BY <2>3, <2>4, <2>5
<1>4. E(n)
  BY <1>3
<1>5. QED
  BY <1>4 DEF E

\* ... and there is only one, whatever its length.
LEMMA StepsUnique ==
  ASSUME NEW step, NEW x, NEW n \in Nat, NEW g, NEW h, NEW k \in Nat,
         Lists(g, step, x, n), Lists(h, step, x, k), k <= n
  PROVE  \A j \in 0..k : g[j] = h[j]
<1> DEFINE T == {j \in 0..k : g[j] # h[j]}
<1>1. SUFFICES ASSUME T # {} PROVE FALSE
  OBVIOUS
<1>2. T \in SUBSET Nat
  OBVIOUS
<1>3. PICK m \in T : \A j \in T : m <= j
  BY <1>1, <1>2, NatMin
<1>4. m \in 0..k /\ g[m] # h[m]
  OBVIOUS
<1>5. m \in 1..k /\ m \in 0..n
  BY <1>4 DEF Lists
<1>6. m - 1 \in 0..k /\ ~(m <= m - 1)
  BY <1>5
<1>7. g[m - 1] = h[m - 1]
  BY <1>3, <1>6
<1>8. QED
  BY <1>4, <1>5, <1>7 DEF Lists

\* After is what its recursion says.
LEMMA Steps ==
  ASSUME NEW S, NEW step \in [S -> S], NEW x \in S, NEW n \in Nat
  PROVE  /\ After(step, x, n) \in S
         /\ After(step, x, 0) = x
         /\ After(step, x, n + 1) = step[After(step, x, n)]
<1> DEFINE X(k) == CHOOSE h : h = [j \in 0..k |-> IF j = 0 THEN x ELSE step[h[j - 1]]]
<1>1. ASSUME NEW k \in Nat
      PROVE  /\ Lists(X(k), step, x, k) /\ After(step, x, k) = X(k)[k]
             /\ \A j \in 0..k : X(k)[j] \in S
  <2>1. PICK h \in [0..k -> S] : Lists(h, step, x, k)
    BY StepsExist
  <2>2. h = [j \in 0..k |-> IF j = 0 THEN x ELSE step[h[j - 1]]]
    BY <2>1 DEF Lists
  <2>3. X(k) = [j \in 0..k |-> IF j = 0 THEN x ELSE step[X(k)[j - 1]]]
    BY <2>2
  <2>4. After(step, x, k) = X(k)[k]
    BY DEF After
  <2> HIDE DEF X
  <2>5. Lists(X(k), step, x, k)
    BY <2>3 DEF Lists
  <2>6. k <= k
    OBVIOUS
  <2>7. \A j \in 0..k : X(k)[j] = h[j]
    BY <2>1, <2>5, <2>6, StepsUnique
  <2>8. QED
    BY <2>1, <2>4, <2>5, <2>7
<1> HIDE DEF X
<1>2. After(step, x, n) \in S
  BY <1>1
<1>3. After(step, x, 0) = x
  BY <1>1 DEF Lists
<1>4. After(step, x, n + 1) = step[After(step, x, n)]
  <2>1. n + 1 \in Nat /\ n <= n + 1
    OBVIOUS
  <2>2. /\ Lists(X(n + 1), step, x, n + 1) /\ After(step, x, n + 1) = X(n + 1)[n + 1]
        /\ Lists(X(n), step, x, n) /\ After(step, x, n) = X(n)[n]
    BY <1>1, <2>1
  <2>3. \A j \in 0..n : X(n + 1)[j] = X(n)[j]
    BY <2>1, <2>2, StepsUnique
  <2>4. X(n + 1)[n + 1] = step[X(n + 1)[n]]
    <3>1. n + 1 \in 0..n + 1 /\ n + 1 # 0 /\ n + 1 - 1 = n
      OBVIOUS
    <3>2. X(n + 1)[n + 1] = IF n + 1 = 0 THEN x ELSE step[X(n + 1)[n + 1 - 1]]
      BY <2>2, <3>1 DEF Lists
    <3>3. QED
      BY <3>1, <3>2
  <2>5. QED
    BY <2>2, <2>3, <2>4
<1>5. QED
  BY <1>2, <1>3, <1>4

-----------------------------------------------------------------------------
(***************************************************************************)
(* Roots of items that rise: each parent beats its child, so no chain is   *)
(* longer than the number of items, and it ends at a root.                 *)
(***************************************************************************)
\* p has a higher rank than i, or the same and is the greater.
Beats(rank, p, i) == rank[p] > rank[i] \/ (rank[p] = rank[i] /\ p > i)

\* Each item but the roots is beaten by its parent.
Rising(parent, rank) ==
  /\ parent \in [Items -> Items] /\ rank \in [Items -> Nat]
  /\ \A i \in Items : parent[i] # i => Beats(rank, parent[i], i)

\* Beats is a strict order.
LEMMA BeatsOrder ==
  ASSUME NEW rank \in [Items -> Nat], NEW p \in Items, NEW q \in Items, NEW i \in Items
  PROVE  /\ ~Beats(rank, i, i)
         /\ Beats(rank, p, q) /\ Beats(rank, q, i) => Beats(rank, p, i)
         /\ Beats(rank, p, i) => rank[i] <= rank[p] /\ p # i
         /\ Beats(rank, p, i) => ~Beats(rank, i, p)
<1>1. p \in Nat /\ q \in Nat /\ i \in Nat /\ rank[p] \in Nat /\ rank[q] \in Nat /\ rank[i] \in Nat
  BY DisjointSetAssumption
<1>2. QED
  BY <1>1 DEF Beats

\* The way up from an item that is no root leads to items that beat it.
LEMMA WayUp ==
  ASSUME NEW parent, NEW rank, Rising(parent, rank), NEW i \in Items, NEW n \in Nat
  PROVE  LET x == After(parent, i, n)
         IN x \in Items /\ (x # i => parent[i] # i /\ Beats(rank, x, i))
<1> DEFINE x(k) == After(parent, i, k)
           Good(k) == x(k) # i => parent[i] # i /\ Beats(rank, x(k), i)
           T == {k \in Nat : ~Good(k)}
<1>1. /\ x(0) = i
      /\ \A k \in Nat : x(k) \in Items /\ x(k + 1) = parent[x(k)]
  <2>1. parent \in [Items -> Items]
    BY DEF Rising
  <2>2. x(0) = i
    BY <2>1, Steps
  <2>3. ASSUME NEW k \in Nat PROVE x(k) \in Items /\ x(k + 1) = parent[x(k)]
    BY <2>1, Steps
  <2>4. QED
    BY <2>2, <2>3
<1> HIDE DEF x
<1>2. ASSUME NEW k \in Nat, Good(k) PROVE Good(k + 1)
  <2>1. x(k) \in Items /\ x(k + 1) = parent[x(k)] /\ x(k + 1) \in Items
    BY <1>1
  <2>2. x(k + 1) # x(k) => Beats(rank, x(k + 1), x(k))
    BY <2>1 DEF Rising
  <2>3. CASE x(k) = i
    BY <2>1, <2>2, <2>3
  <2>4. CASE x(k) # i
    BY <1>2, <2>1, <2>2, <2>4, BeatsOrder DEF Rising
  <2>5. QED
    BY <2>3, <2>4
<1>3. T = {}
  <2>1. SUFFICES ASSUME T # {} PROVE FALSE
    OBVIOUS
  <2>2. PICK m \in T : \A k \in T : m <= k
    BY <2>1, NatMin
  <2>3. m \in Nat /\ ~Good(m) /\ m # 0
    BY <1>1
  <2> HIDE DEF Good
  <2>4. m - 1 \in Nat /\ Good(m - 1) /\ m - 1 + 1 = m
    BY <2>2, <2>3
  <2>5. Good(m - 1 + 1)
    BY <1>2, <2>4
  <2>6. QED
    BY <2>3, <2>4, <2>5
<1>4. QED
  BY <1>1, <1>3 DEF x

\* It ends at a root after as many steps as there are items.
LEMMA RootsReached ==
  ASSUME NEW parent, NEW rank, Rising(parent, rank), NEW i \in Items
  PROVE  Roots(parent)[i] \in Items /\ parent[Roots(parent)[i]] = Roots(parent)[i]
<1> DEFINE x(k) == After(parent, i, k)
           N == Cardinality(Items)
<1>1. /\ x(0) = i
      /\ \A k \in Nat : x(k) \in Items /\ x(k + 1) = parent[x(k)]
  <2>1. parent \in [Items -> Items]
    BY DEF Rising
  <2>2. x(0) = i
    BY <2>1, Steps
  <2>3. ASSUME NEW k \in Nat PROVE x(k) \in Items /\ x(k + 1) = parent[x(k)]
    BY <2>1, Steps
  <2>4. QED
    BY <2>2, <2>3
<1>2. N \in Nat /\ IsFiniteSet(Items)
  BY DisjointSetAssumption, FS_CardinalityType
<1>3. Roots(parent)[i] = x(N)
  BY DEF Roots
<1> HIDE DEF x, N
<1>4. SUFFICES ASSUME parent[x(N)] # x(N) PROVE FALSE
  BY <1>1, <1>2, <1>3
<1> DEFINE Fixed(k) == parent[x(k)] = x(k)
<1>5. ASSUME NEW k \in Nat, Fixed(k) PROVE Fixed(k + 1)
  BY <1>1, <1>5
<1>6. \A k \in 0..N : ~Fixed(k)
  <2> DEFINE T == {j \in Nat : j <= N /\ ~Fixed(N - j)}
             F == {j \in Nat : j <= N /\ Fixed(N - j)}
  <2>1. SUFFICES ASSUME F # {} PROVE FALSE
    <3>1. \A k \in 0..N : N - k \in Nat /\ N - k <= N /\ N - (N - k) = k
      BY <1>2
    <3>2. QED
      BY <3>1
  <2>2. PICK m \in F : \A k \in F : m <= k
    BY <2>1, NatMin
  <2>3. m \in Nat /\ m <= N /\ Fixed(N - m) /\ m # 0
    BY <1>2, <1>4
  <2> HIDE DEF Fixed
  <2>4. N - m \in Nat /\ m - 1 \in Nat /\ m - 1 <= N /\ N - (m - 1) = N - m + 1 /\ ~(m <= m - 1)
    BY <1>2, <2>3
  <2>5. Fixed(N - m + 1)
    BY <1>5, <2>3, <2>4
  <2>6. QED
    BY <2>2, <2>4, <2>5
<1>7. \A j \in 0..N : \A k \in 0..j - 1 : Beats(rank, x(j), x(k))
  <2> DEFINE Good(j) == \A k \in 0..j - 1 : Beats(rank, x(j), x(k))
             T == {j \in 0..N : ~Good(j)}
  <2>1. SUFFICES ASSUME T # {} PROVE FALSE
    OBVIOUS
  <2>2. T \in SUBSET Nat
    BY <1>2
  <2>3. PICK m \in T : \A k \in T : m <= k
    BY <2>1, <2>2, NatMin
  <2>4. m \in 0..N /\ ~Good(m)
    BY <2>3
  <2>5. m # 0
    BY <2>4
  <2> HIDE DEF Good
  <2>6. m - 1 \in 0..N /\ Good(m - 1) /\ m - 1 \in Nat /\ m - 1 + 1 = m
    BY <1>2, <2>3, <2>4, <2>5
  <2>7. x(m - 1) \in Items /\ x(m) = parent[x(m - 1)] /\ x(m) \in Items /\ x(m) # x(m - 1)
    BY <1>1, <1>6, <2>6, <2>4
  <2>8. Beats(rank, x(m), x(m - 1))
    BY <2>7 DEF Rising
  <2>9. ASSUME NEW k \in 0..m - 1 PROVE Beats(rank, x(m), x(k))
    <3>1. CASE k = m - 1
      BY <3>1, <2>8
    <3>2. CASE k # m - 1
      <4>1. k \in 0..m - 1 - 1 /\ x(k) \in Items
        BY <3>2, <2>6, <1>1
      <4>2. Beats(rank, x(m - 1), x(k))
        BY <4>1, <2>6 DEF Good
      <4>3. QED
        BY <4>1, <4>2, <2>7, <2>8, BeatsOrder DEF Rising
    <3>3. QED
      BY <3>1, <3>2
  <2>10. Good(m)
    BY <2>9 DEF Good
  <2>11. QED
    BY <2>4, <2>10
<1>8. \A j, k \in 0..N : x(j) = x(k) => j = k
  <2>1. SUFFICES ASSUME NEW j \in 0..N, NEW k \in 0..N, x(j) = x(k), k < j PROVE FALSE
    BY <1>2
  <2>2. k \in 0..j - 1 /\ x(k) \in Items
    BY <2>1, <1>1
  <2>3. Beats(rank, x(k), x(k))
    BY <1>7, <2>1, <2>2
  <2>4. QED
    BY <2>2, <2>3, BeatsOrder DEF Rising
<1> DEFINE f == [k \in 0..N |-> x(k)]
<1>9. f \in Injection(0..N, Items)
  <2>1. f \in [0..N -> Items] /\ \A j, k \in 0..N : f[j] = f[k] => j = k
    BY <1>1, <1>2, <1>8
  <2> HIDE DEF f
  <2>2. QED
    BY <2>1, Fun_IsInj
<1>10. Cardinality(0..N) <= Cardinality(Items)
  BY <1>2, <1>9, FS_Injection
<1>11. Cardinality(0..N) = N + 1
  BY <1>2, FS_Interval
<1>12. QED
  BY <1>2, <1>10, <1>11 DEF N

\* Nothing else has the properties of a root over each item.
LEMMA RootsUnique ==
  ASSUME NEW parent, NEW rank, Rising(parent, rank), NEW g,
         \A i \in Items : parent[i] = i => g[i] = i,
         \A i \in Items : g[i] = g[parent[i]]
  PROVE  \A i \in Items : Roots(parent)[i] = g[i]
<1> TAKE i \in Items
<1> DEFINE x(k) == After(parent, i, k)
           N == Cardinality(Items)
<1>1. /\ x(0) = i
      /\ \A k \in Nat : x(k) \in Items /\ x(k + 1) = parent[x(k)]
  <2>1. parent \in [Items -> Items]
    BY DEF Rising
  <2>2. x(0) = i
    BY <2>1, Steps
  <2>3. ASSUME NEW k \in Nat PROVE x(k) \in Items /\ x(k + 1) = parent[x(k)]
    BY <2>1, Steps
  <2>4. QED
    BY <2>2, <2>3
<1>2. N \in Nat /\ IsFiniteSet(Items)
  BY DisjointSetAssumption, FS_CardinalityType
<1>3. Roots(parent)[i] = x(N) /\ parent[x(N)] = x(N)
  BY RootsReached DEF Roots
<1> HIDE DEF x, N
<1> DEFINE T == {k \in Nat : g[x(k)] # g[i]}
<1>4. T = {}
  <2>1. SUFFICES ASSUME T # {} PROVE FALSE
    OBVIOUS
  <2>2. PICK m \in T : \A k \in T : m <= k
    BY <2>1, NatMin
  <2>3. m \in Nat /\ g[x(m)] # g[i] /\ m # 0
    BY <1>1
  <2>4. m - 1 \in Nat /\ m - 1 + 1 = m /\ ~(m <= m - 1)
    BY <2>3
  <2>5. x(m) = parent[x(m - 1)] /\ x(m - 1) \in Items /\ g[x(m - 1)] = g[i]
    BY <1>1, <2>2, <2>4
  <2>6. QED
    BY <2>3, <2>5
<1>5. g[x(N)] = g[i] /\ x(N) \in Items
  BY <1>1, <1>2, <1>4
<1>6. QED
  BY <1>3, <1>5

\* The way up from a parent is the rest of the way up from the item.
LEMMA RootOfParent ==
  ASSUME NEW parent, NEW rank, Rising(parent, rank), NEW i \in Items
  PROVE  Roots(parent)[parent[i]] = Roots(parent)[i]
<1> DEFINE x(k) == After(parent, i, k)
           y(k) == After(parent, parent[i], k)
           N == Cardinality(Items)
<1>1. /\ x(0) = i /\ y(0) = parent[i] /\ parent[i] \in Items
      /\ \A k \in Nat : x(k) \in Items /\ x(k + 1) = parent[x(k)] /\ y(k + 1) = parent[y(k)]
  <2>1. parent \in [Items -> Items] /\ parent[i] \in Items
    BY DEF Rising
  <2>2. ASSUME NEW j \in Items, NEW k \in Nat
        PROVE  /\ After(parent, j, 0) = j /\ After(parent, j, k) \in Items
               /\ After(parent, j, k + 1) = parent[After(parent, j, k)]
    BY <2>1, Steps
  <2>3. QED
    BY <2>1, <2>2
<1>2. N \in Nat
  BY DisjointSetAssumption, FS_CardinalityType
<1>3. Roots(parent)[i] = x(N) /\ parent[x(N)] = x(N) /\ Roots(parent)[parent[i]] = y(N)
  BY <1>1, RootsReached DEF Roots
<1> HIDE DEF x, y, N
<1> DEFINE T == {k \in Nat : y(k) # x(k + 1)}
<1>4. T = {}
  <2>1. SUFFICES ASSUME T # {} PROVE FALSE
    OBVIOUS
  <2>2. PICK m \in T : \A k \in T : m <= k
    BY <2>1, NatMin
  <2>3. m \in Nat /\ y(m) # x(m + 1) /\ m # 0
    <3>1. x(0 + 1) = parent[i] /\ 0 + 1 = 1
      BY <1>1
    <3>2. QED
      BY <1>1, <3>1
  <2>4. m - 1 \in Nat /\ m - 1 + 1 = m /\ ~(m <= m - 1) /\ m + 1 \in Nat
    BY <2>3
  <2>5. y(m - 1) = x(m)
    BY <2>2, <2>4
  <2>6. y(m) = parent[y(m - 1)] /\ x(m + 1) = parent[x(m)]
    BY <1>1, <2>3, <2>4
  <2>7. QED
    BY <2>3, <2>5, <2>6
<1>5. y(N) = x(N + 1) /\ x(N + 1) = parent[x(N)]
  BY <1>1, <1>2, <1>4
<1>6. QED
  BY <1>3, <1>5

\* A set that is closed under parents has the roots over its items.
LEMMA Closed ==
  ASSUME NEW parent, NEW rank, Rising(parent, rank), NEW S \in SUBSET Items,
         \A j \in S : parent[j] \in S, NEW i \in S
  PROVE  Roots(parent)[i] \in S
<1> DEFINE x(k) == After(parent, i, k)
           N == Cardinality(Items)
<1>1. /\ x(0) = i
      /\ \A k \in Nat : x(k) \in Items /\ x(k + 1) = parent[x(k)]
  <2>1. parent \in [Items -> Items] /\ i \in Items
    BY DEF Rising
  <2>2. QED
    BY <2>1, Steps
<1>2. N \in Nat
  BY DisjointSetAssumption, FS_CardinalityType
<1>3. Roots(parent)[i] = x(N)
  BY DEF Roots
<1> HIDE DEF x, N
<1> DEFINE T == {k \in Nat : x(k) \notin S}
<1>4. T = {}
  <2>1. SUFFICES ASSUME T # {} PROVE FALSE
    OBVIOUS
  <2>2. PICK m \in T : \A k \in T : m <= k
    BY <2>1, NatMin
  <2>3. m \in Nat /\ x(m) \notin S /\ m # 0
    BY <1>1
  <2>4. m - 1 \in Nat /\ m - 1 + 1 = m /\ ~(m <= m - 1)
    BY <2>3
  <2>5. x(m - 1) \in S /\ x(m) = parent[x(m - 1)]
    BY <1>1, <2>2, <2>4
  <2>6. QED
    BY <2>3, <2>5
<1>5. QED
  BY <1>2, <1>3, <1>4

\* What holds of the root over an item.
LEMMA RootFacts ==
  ASSUME NEW parent, NEW rank, Rising(parent, rank), NEW i \in Items
  PROVE  LET root == Roots(parent)
         IN /\ root[i] \in Items /\ parent[root[i]] = root[i] /\ root[root[i]] = root[i]
            /\ (parent[i] = i <=> root[i] = i)
            /\ root[i] = root[parent[i]] /\ parent[i] \in Items
            /\ parent[i] # i => Beats(rank, root[i], i)
            /\ root[i] = parent[i] \/ Beats(rank, root[i], parent[i])
<1> DEFINE N == Cardinality(Items)
           root == Roots(parent)
<1>2. N \in Nat /\ IsFiniteSet(Items)
  BY DisjointSetAssumption, FS_CardinalityType
<1>3. ASSUME NEW j \in Items, NEW n \in Nat, parent[j] = j PROVE After(parent, j, n) = j
  BY <1>3, WayUp
<1>4. ASSUME NEW j \in Items PROVE /\ root[j] \in Items /\ parent[root[j]] = root[j]
                                   /\ parent[j] = j => root[j] = j
                                   /\ root[j] # j => Beats(rank, root[j], j)
  <2>1. root[j] = After(parent, j, N)
    BY DEF Roots
  <2>2. root[j] \in Items /\ parent[root[j]] = root[j]
    BY RootsReached
  <2>3. root[j] # j => parent[j] # j /\ Beats(rank, root[j], j)
    BY <1>2, <2>1, WayUp
  <2>4. QED
    BY <2>2, <2>3
<1>5. root[i] = root[parent[i]]
  BY RootOfParent
<1>6. parent[i] \in Items
  BY DEF Rising
<1> HIDE DEF root
<1>7. parent[i] = i <=> root[i] = i
  BY <1>4
<1>8. root[root[i]] = root[i]
  BY <1>4
<1>9. QED
  BY <1>4, <1>5, <1>6, <1>7, <1>8 DEF root

\* Trees that an action leaves alone, but for the short cuts it takes.
LEMMA SameRoots ==
  ASSUME NEW parent, NEW rank, Rising(parent, rank), NEW parent2, NEW rank2, Rising(parent2, rank2),
         \A i \in Items : parent2[i] = i <=> parent[i] = i,
         \A i \in Items : Roots(parent)[parent2[i]] = Roots(parent)[i]
  PROVE  Roots(parent2) = Roots(parent)
<1> DEFINE g == Roots(parent)
<1>1. \A i \in Items : parent2[i] = i => g[i] = i
  BY RootFacts
<1>2. \A i \in Items : g[i] = g[parent2[i]]
  OBVIOUS
<1>3. g = [i \in Items |-> g[i]] /\ Roots(parent2) = [i \in Items |-> Roots(parent2)[i]]
  BY DEF Roots
<1> HIDE DEF g
<1>4. \A i \in Items : Roots(parent2)[i] = g[i]
  BY <1>1, <1>2, RootsUnique
<1>5. QED
  BY <1>3, <1>4 DEF g

\* A root x that gets a parent y: its tree joins that of y.
LEMMA JoinRoots ==
  ASSUME NEW parent, NEW rank, Rising(parent, rank), NEW parent2, NEW rank2, Rising(parent2, rank2),
         NEW x \in Items, NEW y \in Items, parent[x] = x, Roots(parent)[y] # x,
         parent2[x] = y, \A i \in Items : i # x => parent2[i] = parent[i]
  PROVE  \A i \in Items :
           Roots(parent2)[i] = IF Roots(parent)[i] = x THEN Roots(parent)[y] ELSE Roots(parent)[i]
<1> DEFINE g == Roots(parent)
           h == [i \in Items |-> IF g[i] = x THEN g[y] ELSE g[i]]
<1>1. \A i \in Items : parent[i] \in Items /\ g[i] = g[parent[i]] /\ g[g[i]] = g[i] /\ g[i] \in Items
                       /\ (parent[i] = i <=> g[i] = i)
  BY RootFacts
<1> HIDE DEF g
<1>3. g[x] = x /\ g[y] # x /\ x # y
  BY <1>1 DEF g
<1>4. \A i \in Items : h[i] = IF g[i] = x THEN g[y] ELSE g[i]
  OBVIOUS
<1> HIDE DEF h
<1>5. \A i \in Items : parent2[i] = i => h[i] = i
  BY <1>1, <1>3, <1>4
<1>6. \A i \in Items : h[i] = h[parent2[i]]
  BY <1>1, <1>3, <1>4
<1>7. \A i \in Items : Roots(parent2)[i] = h[i]
  BY <1>5, <1>6, RootsUnique
<1>8. QED
  BY <1>4, <1>7 DEF g

-----------------------------------------------------------------------------
(***************************************************************************)
(* Forests: what the container holds, as the handlers see it, and what it  *)
(* may become. Everything that caches and messages say is of a kind that an *)
(* extension of the forest keeps.                                          *)
(***************************************************************************)
DataTypes == [parent : Items, rank : Nat, est : Nat]

\* Items with data d, of which K are in the container.
Par(d) == [i \in Items |-> d[i].parent]
Rnk(d) == [i \in Items |-> d[i].rank]
RootIn(d) == Roots(Par(d))
HigherIn(d, p, i) == d[p].rank > d[i].rank \/ (d[p].rank = d[i].rank /\ p > i)
AboveIn(d, p, i) == d[i].parent # i /\ HigherIn(d, p, i) /\ RootIn(d)[p] = RootIn(d)[i]

Forest(d, K) ==
  /\ d \in [Items -> DataTypes] /\ K \subseteq Items
  /\ \A i \in Items :
       /\ d[i].parent # i => HigherIn(d, d[i].parent, i)
       /\ d[i].est <= d[d[i].parent].rank
       /\ i \in K => d[i].parent \in K
       /\ i \notin K => d[i] = New(i)

\* What was found above an item remains above it.
Extends(d, K, e, L) ==
  /\ K \subseteq L
  /\ \A i \in Items : e[i].rank >= d[i].rank
  /\ \A i \in Items : d[i].parent # i => e[i].parent # i /\ e[i].rank = d[i].rank
  /\ \A i, j \in Items : RootIn(d)[i] = RootIn(d)[j] => RootIn(e)[i] = RootIn(e)[j]

\* A forest rises, so that the lemmas on roots apply to it.
LEMMA ForestRises ==
  ASSUME NEW d, NEW K, Forest(d, K)
  PROVE  /\ Rising(Par(d), Rnk(d))
         /\ \A p, i \in Items : Beats(Rnk(d), p, i) <=> HigherIn(d, p, i)
         /\ \A i \in Items : Par(d)[i] = d[i].parent /\ Rnk(d)[i] = d[i].rank
<1>1. \A i \in Items : d[i].parent \in Items /\ d[i].rank \in Nat
  BY DEF Forest, DataTypes
<1>2. QED
  BY <1>1 DEF Forest, Rising, Par, Rnk, Beats, HigherIn

\* What holds of the root over an item of a forest.
LEMMA Roof ==
  ASSUME NEW d, NEW K, Forest(d, K), NEW i \in Items
  PROVE  /\ RootIn(d)[i] \in Items /\ d[RootIn(d)[i]].parent = RootIn(d)[i]
         /\ RootIn(d)[RootIn(d)[i]] = RootIn(d)[i]
         /\ d[i].parent \in Items /\ RootIn(d)[i] = RootIn(d)[d[i].parent]
         /\ (d[i].parent = i <=> RootIn(d)[i] = i)
         /\ d[i].parent # i => HigherIn(d, RootIn(d)[i], i)
         /\ d[RootIn(d)[i]].rank >= d[d[i].parent].rank
<1> DEFINE g == RootIn(d)
           parent == Par(d)
           rank == Rnk(d)
<1>1. Rising(parent, rank) /\ \A p, j \in Items : Beats(rank, p, j) <=> HigherIn(d, p, j)
  BY ForestRises
<1>2. \A j \in Items : parent[j] = d[j].parent /\ rank[j] = d[j].rank /\ rank[j] \in Nat
  BY ForestRises DEF Forest, DataTypes
<1>3. g = Roots(parent)
  BY DEF RootIn
<1> HIDE DEF g, parent, rank
<1>4. /\ g[i] \in Items /\ parent[g[i]] = g[i] /\ g[g[i]] = g[i]
      /\ (parent[i] = i <=> g[i] = i)
      /\ g[i] = g[parent[i]] /\ parent[i] \in Items
      /\ parent[i] # i => Beats(rank, g[i], i)
      /\ g[i] = parent[i] \/ Beats(rank, g[i], parent[i])
  BY <1>1, <1>3, RootFacts
<1>5. rank[g[i]] >= rank[parent[i]]
  BY <1>2, <1>4 DEF Beats
<1>6. QED
  BY <1>1, <1>2, <1>4, <1>5 DEF g

\* HigherIn is a strict order.
LEMMA HigherOrder ==
  ASSUME NEW d, NEW K, Forest(d, K), NEW p \in Items, NEW q \in Items, NEW i \in Items
  PROVE  /\ ~HigherIn(d, i, i)
         /\ HigherIn(d, p, q) /\ HigherIn(d, q, i) => HigherIn(d, p, i)
         /\ HigherIn(d, p, i) => d[i].rank <= d[p].rank /\ p # i /\ ~HigherIn(d, i, p)
<1>1. /\ p \in Nat /\ q \in Nat /\ i \in Nat
      /\ d[p].rank \in Nat /\ d[q].rank \in Nat /\ d[i].rank \in Nat
  BY DisjointSetAssumption DEF Forest, DataTypes
<1>2. QED
  BY <1>1 DEF HigherIn

\* The parent of an item that is no root is above it.
LEMMA ParentAbove ==
  ASSUME NEW d, NEW K, Forest(d, K), NEW i \in Items, d[i].parent # i
  PROVE  AboveIn(d, d[i].parent, i)
BY Roof DEF AboveIn, Forest

\* AboveIn is a strict order.
LEMMA AboveOrder ==
  ASSUME NEW d, NEW K, Forest(d, K), NEW p \in Items, NEW q \in Items, NEW i \in Items
  PROVE  /\ AboveIn(d, p, q) /\ AboveIn(d, q, i) => AboveIn(d, p, i)
         /\ AboveIn(d, p, i) => p # i /\ d[i].rank <= d[p].rank /\ ~AboveIn(d, i, p)
BY HigherOrder DEF AboveIn

\* What is above an item stays above it: it was no root, so its rank does not rise.
LEMMA ExtendsAbove ==
  ASSUME NEW d, NEW K, NEW e, NEW L, Forest(d, K), Forest(e, L), Extends(d, K, e, L),
         NEW p \in Items, NEW i \in Items, AboveIn(d, p, i)
  PROVE  AboveIn(e, p, i)
<1>1. /\ d[p].rank \in Nat /\ d[i].rank \in Nat /\ e[p].rank \in Nat /\ e[i].rank \in Nat
      /\ p \in Nat /\ i \in Nat
  BY DisjointSetAssumption DEF Forest, DataTypes
<1>2. e[p].rank >= d[p].rank /\ e[i].rank = d[i].rank /\ e[i].parent # i
  BY DEF Extends, AboveIn
<1>3. HigherIn(e, p, i)
  BY <1>1, <1>2 DEF HigherIn, AboveIn
<1>4. QED
  BY <1>2, <1>3 DEF AboveIn, Extends

\* An item that becomes known.
LEMMA InsertForest ==
  ASSUME NEW d, NEW K, Forest(d, K), NEW S, S \subseteq Items
  PROVE  Forest(d, K \cup S) /\ Extends(d, K, d, K \cup S)
<1>1. \A i \in Items : d[i].rank \in Nat
  BY DEF Forest, DataTypes
<1>2. Forest(d, K \cup S)
  BY DEF Forest, New
<1>3. QED
  BY <1>1, <1>2 DEF Extends

\* Items that are no roots get parents from above them.
LEMMA LiftForest ==
  ASSUME NEW d, NEW K, Forest(d, K), NEW e \in [Items -> DataTypes],
         \A i \in Items : e[i].rank = d[i].rank,
         \A i \in Items : e[i] = d[i] \/ ( /\ AboveIn(d, e[i].parent, i)
                                           /\ e[i].est <= d[e[i].parent].rank
                                           /\ e[i].parent \in K )
  PROVE  Forest(e, K) /\ Extends(d, K, e, K) /\ RootIn(e) = RootIn(d)
<1>1. \A p, i \in Items : HigherIn(e, p, i) <=> HigherIn(d, p, i)
  BY DEF HigherIn
<1>2. ASSUME NEW i \in Items
      PROVE /\ e[i].parent # i => HigherIn(e, e[i].parent, i)
            /\ e[i].est <= e[e[i].parent].rank
            /\ i \in K => e[i].parent \in K
            /\ i \notin K => e[i] = New(i)
            /\ e[i].parent = i <=> d[i].parent = i
            /\ RootIn(d)[e[i].parent] = RootIn(d)[i]
  <2>1. e[i].parent \in Items /\ d[i].parent \in Items
    BY DEF Forest, DataTypes
  <2>2. CASE e[i] = d[i]
    <3>1. RootIn(d)[d[i].parent] = RootIn(d)[i]
      BY Roof
    <3>2. e[i].parent = d[i].parent /\ e[i].est = d[i].est
      BY <2>2
    <3>3. e[e[i].parent].rank = d[d[i].parent].rank
      BY <2>1, <3>2
    <3>4. QED
      BY <1>1, <2>1, <2>2, <3>1, <3>2, <3>3 DEF Forest
  <2>3. CASE e[i] # d[i]
    <3>1. AboveIn(d, e[i].parent, i) /\ e[i].est <= d[e[i].parent].rank /\ e[i].parent \in K
      BY <2>3
    <3>2. d[i].parent # i /\ e[i].parent # i
      BY <2>1, <3>1, HigherOrder DEF AboveIn
    <3>3. i \in K
      BY <3>2 DEF Forest, New
    <3>4. QED
      BY <1>1, <2>1, <3>1, <3>2, <3>3 DEF AboveIn
  <2>4. QED
    BY <2>2, <2>3
<1>3. Forest(e, K)
  BY <1>2 DEF Forest
<1>4. RootIn(e) = RootIn(d)
  <2>1. Rising(Par(d), Rnk(d)) /\ Rising(Par(e), Rnk(e))
    BY <1>3, ForestRises
  <2>2. \A i \in Items : Par(e)[i] = e[i].parent /\ Par(d)[i] = d[i].parent
    BY DEF Par
  <2>3. \A i \in Items : Par(e)[i] = i <=> Par(d)[i] = i
    BY <1>2, <2>2
  <2>4. \A i \in Items : Roots(Par(d))[Par(e)[i]] = Roots(Par(d))[i]
    BY <1>2, <2>2 DEF RootIn
  <2>5. QED
    BY <2>1, <2>3, <2>4, SameRoots DEF RootIn
<1>5. \A i \in Items : d[i].rank \in Nat
  BY DEF Forest, DataTypes
<1>6. QED
  BY <1>2, <1>3, <1>4, <1>5 DEF Extends

\* A root gets a higher parent.
LEMMA AttachForest ==
  ASSUME NEW d, NEW K, Forest(d, K), NEW e, NEW x \in K, NEW y \in K, NEW v \in Nat,
         d[x].parent = x, HigherIn(d, y, x), v <= d[y].rank,
         e \in [Items -> DataTypes], \A i \in Items : i # x => e[i] = d[i],
         e[x].parent = y, e[x].est = v, e[x].rank = d[x].rank
  PROVE  /\ Forest(e, K) /\ Extends(d, K, e, K)
         /\ RootIn(d)[y] # x
         /\ \A i \in Items : RootIn(e)[i] = IF RootIn(d)[i] = x THEN RootIn(d)[y] ELSE RootIn(d)[i]
<1>1. x \in Items /\ y \in Items
  BY DEF Forest
<1>2. /\ e \in [Items -> DataTypes] /\ \A i \in Items : e[i].rank = d[i].rank
      /\ e[x].parent = y /\ e[x].est = v
      /\ \A i \in Items : i # x => e[i] = d[i]
  BY <1>1
<1>3. \A p, i \in Items : HigherIn(e, p, i) <=> HigherIn(d, p, i)
  BY <1>2 DEF HigherIn
<1>4. ASSUME NEW i \in Items
      PROVE /\ e[i].parent # i => HigherIn(e, e[i].parent, i)
            /\ e[i].est <= e[e[i].parent].rank
            /\ i \in K => e[i].parent \in K
            /\ i \notin K => e[i] = New(i)
  <2>1. e[i].parent \in Items /\ d[i].parent \in Items
    BY <1>2 DEF Forest, DataTypes
  <2>2. CASE i = x
    BY <1>1, <1>2, <1>3, <2>2
  <2>3. CASE i # x
    BY <1>1, <1>2, <1>3, <2>1, <2>3 DEF Forest
  <2>4. QED
    BY <2>2, <2>3
<1>5. Forest(e, K)
  BY <1>2, <1>4 DEF Forest
<1>6. RootIn(d)[y] # x
  <2>1. SUFFICES ASSUME RootIn(d)[y] = x PROVE FALSE
    OBVIOUS
  <2>2. y # x
    BY <1>1, HigherOrder
  <2>3. d[y].parent # y
    BY <1>1, <2>1, <2>2, Roof
  <2>4. HigherIn(d, x, y)
    BY <1>1, <2>1, <2>3, Roof
  <2>5. QED
    BY <1>1, <2>4, HigherOrder
<1>7. \A i \in Items : RootIn(e)[i] = IF RootIn(d)[i] = x THEN RootIn(d)[y] ELSE RootIn(d)[i]
  <2>1. Rising(Par(d), Rnk(d)) /\ Rising(Par(e), Rnk(e))
    BY <1>5, ForestRises
  <2>2. Par(e)[x] = y /\ Par(d)[x] = x /\ \A i \in Items : i # x => Par(e)[i] = Par(d)[i]
    BY <1>1, <1>2 DEF Par
  <2>3. Roots(Par(d))[y] # x
    BY <1>6 DEF RootIn
  <2> DEFINE p == Par(d)
             p2 == Par(e)
  <2>4. Rising(p, Rnk(d)) /\ Rising(p2, Rnk(e)) /\ p2[x] = y /\ p[x] = x /\ Roots(p)[y] # x
        /\ \A i \in Items : i # x => p2[i] = p[i]
    BY <2>1, <2>2, <2>3
  <2> HIDE DEF p, p2
  <2>5. \A i \in Items : Roots(p2)[i] = IF Roots(p)[i] = x THEN Roots(p)[y] ELSE Roots(p)[i]
    BY <1>1, <2>4, JoinRoots
  <2>6. QED
    BY <2>5 DEF RootIn, p, p2
<1>8. \A i \in Items : d[i].rank \in Nat
  BY DEF Forest, DataTypes
<1>9. \A i \in Items : d[i].parent # i => e[i].parent # i
  BY <1>2
<1>10. \A i, j \in Items : RootIn(d)[i] = RootIn(d)[j] => RootIn(e)[i] = RootIn(e)[j]
  BY <1>7
<1>11. Extends(d, K, e, K)
  <2>1. \A i \in Items : e[i].rank >= d[i].rank
    BY <1>2, <1>8
  <2>2. QED
    BY <2>1, <1>2, <1>9, <1>10 DEF Extends
<1>12. QED
  BY <1>5, <1>6, <1>7, <1>11

\* The rank of a root rises.
LEMMA RaiseForest ==
  ASSUME NEW d, NEW K, Forest(d, K), NEW e, NEW x \in K, NEW v \in Nat,
         d[x].parent = x, d[x].rank <= v,
         e \in [Items -> DataTypes], \A i \in Items : i # x => e[i] = d[i],
         e[x].parent = x, e[x].est = v, e[x].rank = v
  PROVE  Forest(e, K) /\ Extends(d, K, e, K) /\ RootIn(e) = RootIn(d)
<1>1. x \in Items /\ d \in [Items -> DataTypes]
  BY DEF Forest
<1>2. /\ e \in [Items -> DataTypes] /\ e[x].rank = v /\ e[x].est = v /\ e[x].parent = x
      /\ \A i \in Items : i # x => e[i] = d[i]
  BY <1>1
<1>3. \A i \in Items : d[i].rank \in Nat /\ e[i].rank \in Nat /\ e[i].rank >= d[i].rank
                       /\ d[i].parent \in Items /\ e[i].parent = d[i].parent /\ i \in Nat
                       /\ d[i].est \in Nat /\ e[i].est \in Nat
  BY <1>1, <1>2, DisjointSetAssumption DEF DataTypes
<1>4. ASSUME NEW i \in Items
      PROVE /\ e[i].parent # i => HigherIn(e, e[i].parent, i)
            /\ e[i].est <= e[e[i].parent].rank
            /\ i \in K => e[i].parent \in K
            /\ i \notin K => e[i] = New(i)
  <2>1. CASE i = x
    BY <1>2, <1>3, <2>1
  <2>2. CASE i # x
    <3>1. e[i] = d[i] /\ e[d[i].parent].rank >= d[d[i].parent].rank
      BY <1>2, <1>3, <2>2
    <3>2. d[i].parent # i => HigherIn(e, d[i].parent, i)
      BY <1>3, <3>1 DEF Forest, HigherIn
    <3>3. QED
      BY <1>3, <3>1, <3>2 DEF Forest
  <2>3. QED
    BY <2>1, <2>2
<1>5. Forest(e, K)
  BY <1>2, <1>4 DEF Forest
<1>6. Par(e) = Par(d)
  BY <1>3 DEF Par
<1>7. RootIn(e) = RootIn(d)
  BY <1>6 DEF RootIn
<1>8. \A i \in Items : d[i].parent # i => e[i].parent # i /\ e[i].rank = d[i].rank
  BY <1>2
<1>9. QED
  BY <1>3, <1>5, <1>7, <1>8 DEF Extends

-----------------------------------------------------------------------------
(***************************************************************************)
(* Caches.                                                                 *)
(***************************************************************************)
Guesses == Nat \cup {-1}
EntryTypes == [item : Items, parent : Items, est : Nat] \cup {Unoccupied}
AtLeastIn(d, p, i) == p = i \/ AboveIn(d, p, i)

EntryIn(d, K, e) ==
  AtLeastIn(d, e.parent, e.item) /\ e.est <= d[e.parent].rank /\ e.parent \in K

\* A cache whose entries are true of the items.
CacheIn(d, K, c) == c \in [Slots -> EntryTypes] /\ \A s \in Slots : c[s] # Unoccupied => EntryIn(d, K, c[s])

\* AtLeastIn is the order AboveIn or equal.
LEMMA AtLeastOrder ==
  ASSUME NEW d, NEW K, Forest(d, K), NEW p \in Items, NEW q \in Items, NEW i \in Items
  PROVE  /\ AtLeastIn(d, p, q) /\ AtLeastIn(d, q, i) => AtLeastIn(d, p, i)
         /\ AtLeastIn(d, p, q) /\ AboveIn(d, q, i) => AboveIn(d, p, i)
         /\ AtLeastIn(d, p, i) => d[i].rank <= d[p].rank /\ RootIn(d)[p] = RootIn(d)[i]
         /\ AtLeastIn(d, d[i].parent, i)
<1>1. d[i].rank \in Nat
  BY DEF Forest, DataTypes
<1>2. AtLeastIn(d, d[i].parent, i)
  BY ParentAbove DEF AtLeastIn
<1>3. AtLeastIn(d, p, i) => d[i].rank <= d[p].rank /\ RootIn(d)[p] = RootIn(d)[i]
  <2>1. CASE p = i
    BY <1>1, <2>1
  <2>2. CASE AboveIn(d, p, i)
    BY <2>2, AboveOrder DEF AboveIn
  <2>3. QED
    BY <2>1, <2>2 DEF AtLeastIn
<1>4. QED
  BY <1>2, <1>3, AboveOrder DEF AtLeastIn

\* walk_cache finds an item on the way up, and what it says of its rank is true
\* and no less than what was known of where it began.
LEMMA CacheWalk ==
  ASSUME NEW d, NEW K, Forest(d, K), NEW c, CacheIn(d, K, c), NEW i \in Items, NEW r \in Guesses,
         r <= d[i].rank, r >= 0 => i \in K
  PROVE  LET w == WalkCache(c, i, r)
         IN /\ w.item \in Items /\ w.rank \in Guesses /\ AtLeastIn(d, w.item, i)
            /\ r <= w.rank /\ w.rank <= d[w.item].rank /\ (w.rank >= 0 => w.item \in K)
<1> DEFINE E == {c[s] : s \in Slots} \ {Unoccupied}
           Step == [e \in E |->
                      LET t == c[Slot[e.parent]]
                      IN IF t.item = e.parent /\ t.item # e.item /\ e.est <= t.est THEN t ELSE e]
           N == Cardinality(Slots)
           x(k) == After(Step, c[Slot[i]], k)
           w == WalkCache(c, i, r)
<1>1. N \in Nat
  BY DisjointSetAssumption, FS_CardinalityType
<1>2. \A e \in E : /\ e \in [item : Items, parent : Items, est : Nat]
                   /\ EntryIn(d, K, e)
  BY DEF CacheIn, EntryTypes
<1>3. \A j \in Items : c[Slot[j]].item = j => c[Slot[j]] \in E
  <2>1. TAKE j \in Items
  <2>2. Slot[j] \in Slots /\ j # -1
    BY DisjointSetAssumption
  <2>3. QED
    BY <2>2 DEF Unoccupied
<1>4. ASSUME NEW e \in E
      PROVE  /\ Step[e] \in E /\ e.est <= Step[e].est
             /\ \A j \in Items : AtLeastIn(d, e.parent, j) => AtLeastIn(d, Step[e].parent, j)
  <2> DEFINE t == c[Slot[e.parent]]
  <2>1. Step[e] = t \/ Step[e] = e
    OBVIOUS
  <2>2. e.parent \in Items /\ e.est \in Nat
    BY <1>2
  <2>3. CASE Step[e] = e
    BY <2>2, <2>3
  <2>4. CASE Step[e] # e
    <3>1. Step[e] = t /\ t.item = e.parent /\ e.est <= t.est
      BY <2>4
    <3>2. t \in E
      BY <1>3, <2>2, <3>1
    <3>3. t.parent \in Items /\ AtLeastIn(d, t.parent, e.parent)
      BY <1>2, <3>1, <3>2 DEF EntryIn
    <3> HIDE DEF Step, t, E
    <3>4. QED
      BY <2>2, <3>1, <3>2, <3>3, AtLeastOrder
  <2>5. QED
    BY <2>3, <2>4
<1>5. CASE c[Slot[i]].item # i \/ c[Slot[i]].est < r
  <2>1. w = [item |-> i, rank |-> r]
    BY <1>5 DEF WalkCache
  <2>2. QED
    BY <2>1 DEF AtLeastIn, Guesses
<1>6. CASE c[Slot[i]].item = i /\ ~(c[Slot[i]].est < r)
  <2>1. w = [item |-> x(N).parent, rank |-> x(N).est]
    BY <1>6 DEF WalkCache
  <2>2. c[Slot[i]] \in E
    BY <1>3, <1>6
  <2>3. Step \in [E -> E]
    <3>1. Step = [e \in E |-> Step[e]]
      OBVIOUS
    <3> HIDE DEF Step, E
    <3>2. QED
      BY <1>4, <3>1
  <2>4. x(0) = c[Slot[i]] /\ \A k \in Nat : x(k) \in E /\ x(k + 1) = Step[x(k)]
    <3> HIDE DEF Step, E
    <3>1. QED
      BY <2>2, <2>3, Steps
  <2>5. AtLeastIn(d, c[Slot[i]].parent, i) /\ c[Slot[i]].est >= r
    BY <1>2, <1>6, <2>2 DEF EntryIn, Guesses
  <2> DEFINE Good(k) == AtLeastIn(d, x(k).parent, i) /\ r <= x(k).est
             T == {k \in Nat : ~Good(k)}
  <2> HIDE DEF x, Step, E, w, N
  <2>6. Good(0)
    BY <2>4, <2>5, <1>2, <2>2 DEF Guesses
  <2>7. ASSUME NEW k \in Nat, Good(k) PROVE Good(k + 1)
    <3>1. x(k) \in E /\ x(k + 1) \in E /\ x(k + 1) = Step[x(k)]
      BY <2>4
    <3>2. x(k).est \in Nat /\ x(k + 1).est \in Nat
      BY <1>2, <3>1
    <3>3. x(k).est <= x(k + 1).est /\ AtLeastIn(d, x(k + 1).parent, i)
      BY <1>4, <2>7, <3>1
    <3>4. QED
      BY <2>7, <3>2, <3>3 DEF Guesses
  <2> HIDE DEF Good
  <2>8. T = {}
    <3>1. SUFFICES ASSUME T # {} PROVE FALSE
      OBVIOUS
    <3>2. PICK m \in T : \A k \in T : m <= k
      BY <3>1, NatMin
    <3>3. m \in Nat /\ ~Good(m) /\ m # 0
      BY <2>6
    <3>4. m - 1 \in Nat /\ Good(m - 1) /\ m - 1 + 1 = m
      BY <3>2, <3>3
    <3>5. Good(m - 1 + 1)
      BY <2>7, <3>4
    <3>6. QED
      BY <3>3, <3>4, <3>5
  <2>9. Good(N) /\ x(N) \in E
    BY <1>1, <2>4, <2>8
  <2>10. x(N).parent \in Items /\ x(N).est \in Nat /\ x(N).est <= d[x(N).parent].rank /\ x(N).parent \in K
    BY <1>2, <2>9 DEF EntryIn
  <2>11. QED
    BY <2>1, <2>9, <2>10 DEF Good, w, Guesses
<1>7. QED
  BY <1>5, <1>6

-----------------------------------------------------------------------------
(***************************************************************************)
(* Messages, and what makes them true.                                     *)
(***************************************************************************)
Mail == BagToSet(net)

\* What the container knows once ranks that are about to clear have cleared.
Known == {i \in known : ~Cleared(Owner[i])}

WalkKinds == {"walk", "update", "resolve", "parent"}
WalkMessages ==
  [op : {"walk"}, call : Calls, item : Items, child : Items, oparent : Items, oitem : Items, orank : Guesses]
UpdateMessages == [op : {"update"}, item : Items, old : Items, new : Items, est : Nat]
ResolveMessages == [op : {"resolve"}, item : Items, merging : Items, rank : Nat]
ParentMessages == [op : {"parent"}, item : Items, new : Items, est : Nat]
QueryMessages == [op : {"query"}, item : Items, from : Ranks]
RepMessages == [op : {"rep"}, to : Ranks, parent : Items, rep : Items]
FindMessages == [op : {"find"}, item : Items, source : Items, from : Ranks]
RootMessages == [op : {"root"}, item : Items, root : Items]
AnswerMessages == [op : {"answer"}, to : Ranks, source : Items, root : Items]
Messages ==
  UNION {WalkMessages, UpdateMessages, ResolveMessages, ParentMessages, QueryMessages,
         RepMessages, FindMessages, RootMessages, AnswerMessages}

Fields(m) ==
  /\ m.op = "walk" => m \in WalkMessages
  /\ m.op = "update" => m \in UpdateMessages
  /\ m.op = "resolve" => m \in ResolveMessages
  /\ m.op = "parent" => m \in ParentMessages
  /\ m.op = "query" => m \in QueryMessages
  /\ m.op = "rep" => m \in RepMessages
  /\ m.op = "find" => m \in FindMessages
  /\ m.op = "root" => m \in RootMessages
  /\ m.op = "answer" => m \in AnswerMessages
  /\ m.op \in WalkKinds \cup {"query", "rep", "find", "root", "answer"}

\* The kind of a message tells its fields.
LEMMA MessageFields == \A m \in Messages : Fields(m)
<1> TAKE m \in Messages
<1>1. CASE m \in WalkMessages
  <2>1. m.op = "walk"
    BY <1>1 DEF WalkMessages
  <2>2. QED
    BY <1>1, <2>1 DEF Fields, WalkKinds
<1>2. CASE m \in UpdateMessages
  <2>1. m.op = "update"
    BY <1>2 DEF UpdateMessages
  <2>2. QED
    BY <1>2, <2>1 DEF Fields, WalkKinds
<1>3. CASE m \in ResolveMessages
  <2>1. m.op = "resolve"
    BY <1>3 DEF ResolveMessages
  <2>2. QED
    BY <1>3, <2>1 DEF Fields, WalkKinds
<1>4. CASE m \in ParentMessages
  <2>1. m.op = "parent"
    BY <1>4 DEF ParentMessages
  <2>2. QED
    BY <1>4, <2>1 DEF Fields, WalkKinds
<1>5. CASE m \in QueryMessages
  <2>1. m.op = "query"
    BY <1>5 DEF QueryMessages
  <2>2. QED
    BY <1>5, <2>1 DEF Fields, WalkKinds
<1>6. CASE m \in RepMessages
  <2>1. m.op = "rep"
    BY <1>6 DEF RepMessages
  <2>2. QED
    BY <1>6, <2>1 DEF Fields, WalkKinds
<1>7. CASE m \in FindMessages
  <2>1. m.op = "find"
    BY <1>7 DEF FindMessages
  <2>2. QED
    BY <1>7, <2>1 DEF Fields, WalkKinds
<1>8. CASE m \in RootMessages
  <2>1. m.op = "root"
    BY <1>8 DEF RootMessages
  <2>2. QED
    BY <1>8, <2>1 DEF Fields, WalkKinds
<1>9. CASE m \in AnswerMessages
  <2>1. m.op = "answer"
    BY <1>9 DEF AnswerMessages
  <2>2. QED
    BY <1>9, <2>1 DEF Fields, WalkKinds
<1>10. QED
  BY <1>1, <1>2, <1>3, <1>4, <1>5, <1>6, <1>7, <1>8, <1>9 DEF Messages

\* One way up is from one of the items to unite, the other from the other.
Sides(root, m) ==
  \/ root[m.item] = root[m.call.a] /\ root[m.oparent] = root[m.call.b]
  \/ root[m.item] = root[m.call.b] /\ root[m.oparent] = root[m.call.a]

WalkIn(d, K, m) ==
  /\ AtLeastIn(d, m.item, m.child) /\ AtLeastIn(d, m.oparent, m.oitem)
  /\ m.orank <= d[m.oparent].rank /\ (m.orank >= 0 => m.oparent \in K)
  /\ Sides(RootIn(d), m)

UpdateIn(d, K, m) ==
  /\ AboveIn(d, m.old, m.item) /\ AtLeastIn(d, m.new, m.old)
  /\ m.est <= d[m.new].rank /\ m.new \in K

ResolveIn(d, K, m) ==
  AboveIn(d, m.item, m.merging) /\ m.rank <= d[m.item].rank /\ m.item \in K

ParentIn(d, K, m) ==
  AboveIn(d, m.new, m.item) /\ m.est <= d[m.new].rank /\ m.new \in K

\* A message that is true of the items.
TrueIn(d, K, m) ==
  /\ m.op = "walk" => WalkIn(d, K, m)
  /\ m.op = "update" => UpdateIn(d, K, m)
  /\ m.op = "resolve" => ResolveIn(d, K, m)
  /\ m.op = "parent" => ParentIn(d, K, m)
  /\ m.op = "rep" => m.rep = RootIn(d)[m.parent]
  /\ m.op = "find" => RootIn(d)[m.item] = RootIn(d)[m.source]
  /\ m.op = "root" => m.root = RootIn(d)[m.item]
  /\ m.op = "answer" => m.root = RootIn(d)[m.source]

\* What is true of the items remains true when they are extended.
LEMMA StillTrue ==
  ASSUME NEW d, NEW K, NEW e, NEW L, Forest(d, K), Forest(e, L), Extends(d, K, e, L)
  PROVE  /\ \A p, i \in Items : AboveIn(d, p, i) => AboveIn(e, p, i)
         /\ \A p, i \in Items : AtLeastIn(d, p, i) => AtLeastIn(e, p, i)
         /\ \A c : CacheIn(d, K, c) => CacheIn(e, L, c)
         /\ \A m \in Messages :
              /\ TrueIn(d, K, m)
              /\ m.op \in WalkKinds \cup {"query", "find"} \/ RootIn(e) = RootIn(d)
              => TrueIn(e, L, m)
<1>1. \A p, i \in Items : AboveIn(d, p, i) => AboveIn(e, p, i)
  BY ExtendsAbove
<1>2. \A p, i \in Items : AtLeastIn(d, p, i) => AtLeastIn(e, p, i)
  BY <1>1 DEF AtLeastIn
<1>3. /\ K \subseteq L
      /\ \A i \in Items : e[i].rank >= d[i].rank /\ e[i].rank \in Nat /\ d[i].rank \in Nat
      /\ \A i, j \in Items : RootIn(d)[i] = RootIn(d)[j] => RootIn(e)[i] = RootIn(e)[j]
  BY DEF Extends, Forest, DataTypes
<1>4. ASSUME NEW c, CacheIn(d, K, c) PROVE CacheIn(e, L, c)
  <2>1. ASSUME NEW s \in Slots, c[s] # Unoccupied PROVE EntryIn(e, L, c[s])
    <3>1. c[s] \in [item : Items, parent : Items, est : Nat] /\ EntryIn(d, K, c[s])
      BY <1>4, <2>1 DEF CacheIn, EntryTypes
    <3>2. QED
      BY <1>2, <1>3, <3>1 DEF EntryIn
  <2>2. QED
    BY <1>4, <2>1 DEF CacheIn
<1>5. ASSUME NEW m \in Messages, TrueIn(d, K, m), m.op \in WalkKinds \cup {"query", "find"} \/ RootIn(e) = RootIn(d)
      PROVE  TrueIn(e, L, m)
  <2>1. Fields(m)
    BY MessageFields
  <2>2. m.op = "walk" => WalkIn(e, L, m)
    <3>1. SUFFICES ASSUME m.op = "walk" PROVE WalkIn(e, L, m)
      OBVIOUS
    <3>2. /\ m.item \in Items /\ m.child \in Items /\ m.oparent \in Items /\ m.oitem \in Items
          /\ m.orank \in Guesses /\ m.call.a \in Items /\ m.call.b \in Items
      BY <2>1, <3>1, DisjointSetAssumption DEF Fields, WalkMessages
    <3>3. WalkIn(d, K, m)
      BY <1>5, <3>1 DEF TrueIn
    <3>4. m.orank <= e[m.oparent].rank
      BY <1>3, <3>2, <3>3 DEF WalkIn, Guesses
    <3>5. Sides(RootIn(e), m)
      BY <1>3, <3>2, <3>3 DEF WalkIn, Sides
    <3>6. QED
      BY <1>2, <1>3, <3>2, <3>3, <3>4, <3>5 DEF WalkIn
  <2>3. m.op = "update" => UpdateIn(e, L, m)
    <3>1. SUFFICES ASSUME m.op = "update" PROVE UpdateIn(e, L, m)
      OBVIOUS
    <3>2. m.item \in Items /\ m.old \in Items /\ m.new \in Items /\ m.est \in Nat
      BY <2>1, <3>1 DEF Fields, UpdateMessages
    <3>3. UpdateIn(d, K, m)
      BY <1>5, <3>1 DEF TrueIn
    <3>4. QED
      BY <1>1, <1>2, <1>3, <3>2, <3>3 DEF UpdateIn
  <2>4. m.op = "resolve" => ResolveIn(e, L, m)
    <3>1. SUFFICES ASSUME m.op = "resolve" PROVE ResolveIn(e, L, m)
      OBVIOUS
    <3>2. m.item \in Items /\ m.merging \in Items /\ m.rank \in Nat
      BY <2>1, <3>1 DEF Fields, ResolveMessages
    <3>3. ResolveIn(d, K, m)
      BY <1>5, <3>1 DEF TrueIn
    <3>4. QED
      BY <1>1, <1>3, <3>2, <3>3 DEF ResolveIn
  <2>5. m.op = "parent" => ParentIn(e, L, m)
    <3>1. SUFFICES ASSUME m.op = "parent" PROVE ParentIn(e, L, m)
      OBVIOUS
    <3>2. m.item \in Items /\ m.new \in Items /\ m.est \in Nat
      BY <2>1, <3>1 DEF Fields, ParentMessages
    <3>3. ParentIn(d, K, m)
      BY <1>5, <3>1 DEF TrueIn
    <3>4. QED
      BY <1>1, <1>3, <3>2, <3>3 DEF ParentIn
  <2>6. m.op = "find" => RootIn(e)[m.item] = RootIn(e)[m.source]
    BY <1>3, <1>5, <2>1 DEF TrueIn, Fields, FindMessages
  <2>7. m.op \in {"rep", "root", "answer"} => RootIn(e) = RootIn(d)
    BY <1>5 DEF WalkKinds
  <2>8. QED
    BY <1>5, <2>2, <2>3, <2>4, <2>5, <2>6, <2>7 DEF TrueIn
<1>6. QED
  BY <1>1, <1>2, <1>4, <1>5

-----------------------------------------------------------------------------
(***************************************************************************)
(* The invariant.                                                          *)
(***************************************************************************)
Places == {"run", "enter", "prepare", "fence", "ask", "wipe", "last"}

\* The types of the variables, and of what is in flight.
Types ==
  /\ known \subseteq Items /\ data \in [Items -> DataTypes]
  /\ cache \in [Ranks -> [Slots -> EntryTypes]]
  /\ compressed \in [Ranks -> BOOLEAN]
  /\ IsABag(net) /\ Mail \subseteq Messages
  /\ todo \subseteq Calls /\ verdict \in [Calls -> {"none", "open", "joined", "same"}]
  /\ op \in {"none", "compress", "find", "clear"} /\ at \in [Ranks -> Places] /\ ops \in Nat
  /\ queries \in [Ranks -> [Items -> SUBSET Items]] /\ waiting \subseteq Items
  /\ held \in [Items -> SUBSET Ranks]
  /\ found \in [Ranks -> SUBSET (Items \X Items)]

\* Where ranks are in which operation, and what is in flight then.
Uniting ==
  \/ op = "none" /\ \A r \in Ranks : at[r] \in {"run", "wipe"}
  \/ op # "none" /\ All("enter")
Compressing == op = "compress" /\ \A r \in Ranks : at[r] \in {"prepare", "fence", "last"}
Finding == op = "find" /\ \A r \in Ranks : at[r] \in {"ask", "last"}

\* A message of an operation in which the ranks are.
Timely(m) ==
  \/ m.op \in WalkKinds /\ Uniting
  \/ m.op \in {"query", "rep"} /\ Compressing /\ \A r \in Ranks : at[r] # "prepare"
  \/ m.op \in {"find", "root", "answer"} /\ Finding

\* An operation has its messages only, and the next begins without any.
Phases ==
  /\ Uniting \/ Compressing \/ Finding
  /\ \A m \in Mail : Timely(m)

\* The items are trees ...
Trees == Forest(Data, Known)

\* ... and caches and messages say of them what is true, however old it is.
Caches == \A r \in Ranks : ~Cleared(r) => CacheIn(Data, Known, cache[r])
MailTrue == \A m \in Mail : TrueIn(Data, Known, m)

\* A union that is called and not over has one message under way.
Walks ==
  /\ \A c \in todo : verdict[c] = "none"
  /\ \A m \in Mail : m.op = "walk" => verdict[m.call] = "open" /\ net[m] = 1
  /\ \A m, n \in Mail : m.op = "walk" /\ n.op = "walk" /\ m.call = n.call => m = n
  /\ \A c \in Calls : verdict[c] = "open" => \E m \in Mail : m.op = "walk" /\ m.call = c

\* The answer to r about p is to come.
Asked(r, p) == Query(p, r) \in Mail \/ (\E x \in Items : Rep(r, p, x) \in Mail) \/ r \in held[p]

\* Items that wait are asked for by their rank, and items that do not are compressed.
Waits == Compressing =>
  /\ \A i \in waiting : at[Owner[i]] # "prepare" /\ i \in queries[Owner[i]][Data[i].parent]
  /\ \A r \in Ranks : \A p \in Items :
       /\ \A i \in queries[r][p] : Data[i].parent = p /\ p # i /\ Owner[i] = r
       /\ queries[r][p] # {} /\ at[r] = "last" => Asked(r, p)
  /\ \A i \in Items : at[Owner[i]] # "prepare" /\ i \notin waiting => RootIn(Data)[i] = Data[i].parent
  /\ \A p \in Items : held[p] # {} => p \in waiting

\* What all_find has found so far are roots.
Finds == \A r \in Ranks : \A f \in found[r] :
  op = "find" /\ at[r] = "last" /\ f[2] = RootIn(Data)[f[1]]

DsInv == Types /\ Phases /\ Trees /\ Caches /\ MailTrue /\ Walks /\ Waits /\ Finds

-----------------------------------------------------------------------------
(***************************************************************************)
(* What steps change.                                                      *)
(***************************************************************************)
\* What Data and Known have of an item, and that RootOf is the root in Data.
LEMMA View ==
  ASSUME Types
  PROVE  /\ \A i \in Items : Data[i] = IF Cleared(Owner[i]) THEN New(i) ELSE data[i]
         /\ Data \in [Items -> DataTypes]
         /\ \A i \in Items : i \in Known <=> i \in known /\ ~Cleared(Owner[i])
         /\ Known \subseteq Items
         /\ \A i \in Items : Owner[i] \in Ranks
         /\ RootOf = RootIn(Data)
<1>1. \A i \in Items : New(i) \in DataTypes
  BY DEF New, DataTypes
<1>2. RootOf = RootIn(Data)
  BY DEF RootOf, RootIn, Par
<1>3. QED
  BY <1>1, <1>2, DisjointSetAssumption DEF Data, Known, Types

\* What a handler sees of its item.
LEMMA Seen ==
  ASSUME Types, NEW i \in Items, Receiving(Owner[i])
  PROVE  Data[i] = data[i] /\ ~Cleared(Owner[i]) /\ (i \in Known <=> i \in known)
BY View DEF Receiving, Cleared

\* A handler sends the messages S and takes m.
LEMMA MailMoves ==
  ASSUME Types, NEW m, NEW S, net' = Plus(Rest(m), S)
  PROVE  /\ IsABag(net') /\ Mail' \subseteq Mail \cup S /\ Mail \ {m} \subseteq Mail' /\ S \subseteq Mail'
         /\ (m \in Mail /\ net[m] = 1) => Mail' \subseteq (Mail \ {m}) \cup S
         /\ \A x \in Mail' \ S : x # m => net'[x] = net[x]
         /\ \A x \in S : (x \notin Mail \/ (x = m /\ net[m] = 1)) => net'[x] = 1
<1>1. /\ IsABag(Rest(m)) /\ BagToSet(Rest(m)) \subseteq BagToSet(net)
      /\ BagToSet(net) \ {m} \subseteq BagToSet(Rest(m))
      /\ \A x \in BagToSet(Rest(m)) : x # m => Rest(m)[x] = net[x]
      /\ (m \in BagToSet(net) /\ net[m] = 1) => m \notin BagToSet(Rest(m))
  BY RestFacts DEF Types
<1> DEFINE n == Rest(m)
<1> HIDE DEF n
<1>2. /\ IsABag(Plus(n, S)) /\ BagToSet(Plus(n, S)) = BagToSet(n) \cup S
      /\ \A x \in BagToSet(n) \ S : Plus(n, S)[x] = n[x]
      /\ \A x \in S \ BagToSet(n) : Plus(n, S)[x] = 1
  BY <1>1, PlusFacts DEF n
<1>3. net' = Plus(n, S) /\ Mail' = BagToSet(n) \cup S
  BY <1>2 DEF n, Mail
<1>4. QED
  BY <1>1, <1>2, <1>3 DEF n, Mail

\* A handler takes m and sends nothing.
LEMMA MailGoes ==
  ASSUME Types, NEW m, net' = Rest(m)
  PROVE  /\ IsABag(net') /\ Mail' \subseteq Mail /\ Mail \ {m} \subseteq Mail'
         /\ \A x \in Mail' : x # m => net'[x] = net[x]
BY RestFacts DEF Types, Mail

\* A call sends the messages S.
LEMMA MailComes ==
  ASSUME Types, NEW S, net' = Plus(net, S)
  PROVE  /\ IsABag(net') /\ Mail' = Mail \cup S
         /\ \A x \in Mail \ S : net'[x] = net[x]
         /\ \A x \in S \ Mail : net'[x] = 1
BY PlusFacts DEF Types, Mail

\* What caches and messages say remains true.
LEMMA Remains ==
  ASSUME Types, Trees, Caches, MailTrue, Trees', Extends(Data, Known, Data', Known'),
         NEW S, Mail' \subseteq Mail \cup S, \A m \in S : TrueIn(Data', Known', m),
         \A m \in Mail : m.op \in WalkKinds \cup {"query", "find"} \/ RootIn(Data') = RootIn(Data)
  PROVE  /\ MailTrue'
         /\ \A r \in Ranks : ~Cleared(r) => CacheIn(Data', Known', cache[r])
<1> DEFINE d == Data
           K == Known
           e == Data'
           L == Known'
<1>1. Forest(d, K) /\ Forest(e, L) /\ Extends(d, K, e, L)
  BY DEF Trees
<1>2. \A m \in Mail : m \in Messages /\ TrueIn(d, K, m)
  BY DEF MailTrue, Types
<1>3. \A m \in Mail : m.op \in WalkKinds \cup {"query", "find"} \/ RootIn(e) = RootIn(d)
  OBVIOUS
<1>4. \A r \in Ranks : ~Cleared(r) => CacheIn(d, K, cache[r])
  BY DEF Caches
<1>5. \A m \in S : TrueIn(e, L, m)
  OBVIOUS
<1> HIDE DEF d, K, e, L
<1>6. \A m \in Mail : TrueIn(e, L, m)
  BY <1>1, <1>2, <1>3, StillTrue
<1>7. \A r \in Ranks : ~Cleared(r) => CacheIn(e, L, cache[r])
  BY <1>1, <1>4, StillTrue
<1>8. \A m \in Mail' : TrueIn(e, L, m)
  BY <1>5, <1>6
<1>9. QED
  BY <1>7, <1>8 DEF MailTrue, e, L

-----------------------------------------------------------------------------
(***************************************************************************)
(* Walks: each union that is called and not over has one message.          *)
(***************************************************************************)
NoWalks(S) == \A n \in S : n.op # "walk"

\* A step that is not about walks.
LEMMA WalksStay ==
  ASSUME Types, Walks, NEW m, NEW S, NoWalks(S),
         \/ m.op # "walk" /\ (net' = Plus(Rest(m), S) \/ net' = Rest(m))
         \/ net' = Plus(net, S) \/ net' = net,
         UNCHANGED <<todo, verdict>>
  PROVE  Walks'
<1>1. /\ Mail' \subseteq Mail \cup S
      /\ \A x \in Mail : x.op = "walk" => x \in Mail'
      /\ \A x \in Mail' : x.op = "walk" => x \in Mail /\ net'[x] = net[x]
  <2>1. CASE m.op # "walk" /\ net' = Plus(Rest(m), S)
    BY <2>1, MailMoves DEF NoWalks
  <2>2. CASE m.op # "walk" /\ net' = Rest(m)
    BY <2>2, MailGoes
  <2>3. CASE net' = Plus(net, S)
    BY <2>3, MailComes DEF NoWalks
  <2>4. CASE net' = net
    BY <2>4 DEF Mail
  <2>5. QED
    BY <2>1, <2>2, <2>3, <2>4
<1> DEFINE M == Mail
           N == Mail'
<1> HIDE DEF M, N
<1>2. /\ \A x \in M : x.op = "walk" => x \in N
      /\ \A x \in N : x.op = "walk" => x \in M /\ net'[x] = net[x]
  BY <1>1 DEF M, N
<1>3. /\ \A c \in todo : verdict[c] = "none"
      /\ \A x \in M : x.op = "walk" => verdict[x.call] = "open" /\ net[x] = 1
      /\ \A x, y \in M : x.op = "walk" /\ y.op = "walk" /\ x.call = y.call => x = y
      /\ \A c \in Calls : verdict[c] = "open" => \E x \in M : x.op = "walk" /\ x.call = c
  BY DEF Walks, M
<1>4. /\ \A c \in todo' : verdict'[c] = "none"
      /\ \A x \in N : x.op = "walk" => verdict'[x.call] = "open" /\ net'[x] = 1
      /\ \A x, y \in N : x.op = "walk" /\ y.op = "walk" /\ x.call = y.call => x = y
      /\ \A c \in Calls : verdict'[c] = "open" => \E x \in N : x.op = "walk" /\ x.call = c
  BY <1>2, <1>3
<1>5. QED
  BY <1>4 DEF Walks, N

\* A walk goes on as another message.
LEMMA WalkGoesOn ==
  ASSUME Types, Walks, NEW m \in Mail, m.op = "walk", NEW S, NoWalks(S), NEW n, n.op = "walk", n.call = m.call,
         net' = Plus(Rest(m), S \cup {n}), UNCHANGED <<todo, verdict>>
  PROVE  Walks'
<1> DEFINE M == Mail
           N == Mail'
<1>1. /\ \A c \in todo : verdict[c] = "none"
      /\ \A x \in M : x.op = "walk" => verdict[x.call] = "open" /\ net[x] = 1
      /\ \A x, y \in M : x.op = "walk" /\ y.op = "walk" /\ x.call = y.call => x = y
      /\ \A c \in Calls : verdict[c] = "open" => \E x \in M : x.op = "walk" /\ x.call = c
  BY DEF Walks
<1>2. /\ n \in N /\ (n \notin M \/ n = m)
      /\ net'[n] = 1
      /\ \A x \in M : x # m => x \in N
      /\ \A x \in N : x.op = "walk" => x = n \/ (x \in M /\ x # m /\ net'[x] = net[x])
  <2>1. net[m] = 1 /\ m \in M
    BY <1>1
  <2> DEFINE P == S \cup {n}
  <2>2. net' = Plus(Rest(m), P)
    OBVIOUS
  <2> HIDE DEF P
  <2>3. /\ Mail \ {m} \subseteq Mail' /\ P \subseteq Mail' /\ Mail' \subseteq (Mail \ {m}) \cup P
        /\ \A x \in Mail' \ P : x # m => net'[x] = net[x]
        /\ \A x \in P : (x \notin Mail \/ (x = m /\ net[m] = 1)) => net'[x] = 1
    BY <2>1, <2>2, MailMoves
  <2>4. n \in P /\ \A x \in P : x.op = "walk" => x = n
    BY DEF P, NoWalks
  <2>5. n \notin M \/ n = m
    BY <1>1
  <2> HIDE DEF M, N
  <2>6. \A x \in N : x.op = "walk" => x = n \/ (x \in M /\ x # m /\ net'[x] = net[x])
    BY <2>3, <2>4 DEF M, N
  <2>7. QED
    BY <2>1, <2>3, <2>4, <2>5, <2>6 DEF M, N
<1>0. m \in M
  OBVIOUS
<1> HIDE DEF M, N
<1>3. /\ \A c \in todo' : verdict'[c] = "none"
      /\ \A x \in N : x.op = "walk" => verdict'[x.call] = "open" /\ net'[x] = 1
      /\ \A x, y \in N : x.op = "walk" /\ y.op = "walk" /\ x.call = y.call => x = y
      /\ \A c \in Calls : verdict'[c] = "open" => \E x \in N : x.op = "walk" /\ x.call = c
  BY <1>0, <1>1, <1>2
<1>4. QED
  BY <1>3 DEF Walks, N

\* A walk ends.
LEMMA WalkEnds ==
  ASSUME Types, Walks, NEW m \in Mail, m.op = "walk", NEW S, NoWalks(S), NEW v \in {"joined", "same"},
         net' = Plus(Rest(m), S), UNCHANGED todo, verdict' = [verdict EXCEPT ![m.call] = v]
  PROVE  Walks'
<1> DEFINE M == Mail
           N == Mail'
<1>1. /\ \A c \in todo : verdict[c] = "none"
      /\ \A x \in M : x.op = "walk" => verdict[x.call] = "open" /\ net[x] = 1
      /\ \A x, y \in M : x.op = "walk" /\ y.op = "walk" /\ x.call = y.call => x = y
      /\ \A c \in Calls : verdict[c] = "open" => \E x \in M : x.op = "walk" /\ x.call = c
  BY DEF Walks
<1>2. /\ \A x \in M : x # m => x \in N
      /\ \A x \in N : x.op = "walk" => x \in M /\ x # m /\ net'[x] = net[x]
  <2>1. net[m] = 1 /\ m \in M
    BY <1>1
  <2>2. /\ Mail \ {m} \subseteq Mail' /\ Mail' \subseteq (Mail \ {m}) \cup S
        /\ \A x \in Mail' \ S : x # m => net'[x] = net[x]
    BY <2>1, MailMoves
  <2> HIDE DEF M, N
  <2>3. QED
    BY <2>1, <2>2 DEF M, N, NoWalks
<1>0. m \in M
  OBVIOUS
<1>3. m.call \in Calls /\ verdict'[m.call] = v /\ \A c \in Calls : c # m.call => verdict'[c] = verdict[c]
  <2>1. m \in Messages
    BY DEF Types
  <2>2. Fields(m)
    BY <2>1, MessageFields
  <2>3. m.call \in Calls
    BY <2>2 DEF Fields, WalkMessages
  <2>4. QED
    BY <2>3 DEF Types
<1>4. \A x \in N : x.op = "walk" => x.call \in Calls
  <2>1. \A x \in Mail : Fields(x)
    BY MessageFields DEF Types
  <2>2. QED
    BY <2>1, <1>2 DEF Fields, WalkMessages
<1>5. todo \subseteq Calls
  BY DEF Types
<1> HIDE DEF M, N
<1>6. /\ \A c \in todo' : verdict'[c] = "none"
      /\ \A x \in N : x.op = "walk" => verdict'[x.call] = "open" /\ net'[x] = 1
      /\ \A x, y \in N : x.op = "walk" /\ y.op = "walk" /\ x.call = y.call => x = y
      /\ \A c \in Calls : verdict'[c] = "open" => \E x \in N : x.op = "walk" /\ x.call = c
  BY <1>0, <1>1, <1>2, <1>3, <1>4, <1>5
<1>7. QED
  BY <1>6 DEF Walks, N

\* A walk begins.
LEMMA WalkBegins ==
  ASSUME Types, Walks, NEW c \in todo, NEW n, n.op = "walk", n.call = c,
         net' = Plus(net, {n}), todo' = todo \ {c}, verdict' = [verdict EXCEPT ![c] = "open"]
  PROVE  Walks'
<1> DEFINE M == Mail
           N == Mail'
<1>1. /\ \A x \in todo : verdict[x] = "none"
      /\ \A x \in M : x.op = "walk" => verdict[x.call] = "open" /\ net[x] = 1
      /\ \A x, y \in M : x.op = "walk" /\ y.op = "walk" /\ x.call = y.call => x = y
      /\ \A x \in Calls : verdict[x] = "open" => \E y \in M : y.op = "walk" /\ y.call = x
  BY DEF Walks
<1>2. c \in Calls /\ verdict'[c] = "open" /\ \A x \in Calls : x # c => verdict'[x] = verdict[x]
  BY DEF Types
<1>3. n \notin M
  BY <1>1
<1>4. N = M \cup {n} /\ net'[n] = 1 /\ \A x \in M : net'[x] = net[x]
  BY <1>3, MailComes
<1>5. \A x \in M : x.op = "walk" => x.call \in Calls
  <2>1. \A x \in Mail : Fields(x)
    BY MessageFields DEF Types
  <2>2. QED
    BY <2>1 DEF Fields, WalkMessages
<1>6. todo \subseteq Calls
  BY DEF Types
<1> HIDE DEF M, N
<1>7. /\ \A x \in todo' : verdict'[x] = "none"
      /\ \A x \in N : x.op = "walk" => verdict'[x.call] = "open" /\ net'[x] = 1
      /\ \A x, y \in N : x.op = "walk" /\ y.op = "walk" /\ x.call = y.call => x = y
      /\ \A x \in Calls : verdict'[x] = "open" => \E y \in N : y.op = "walk" /\ y.call = x
  <2>1. \A x \in todo' : verdict'[x] = "none"
    BY <1>1, <1>2, <1>6
  <2>2. \A x \in N : x.op = "walk" => verdict'[x.call] = "open" /\ net'[x] = 1
    <3>1. TAKE x \in N
    <3>2. CASE x = n
      BY <1>2, <1>4, <3>2
    <3>3. CASE x \in M
      <4>1. net'[x] = net[x]
        BY <1>4, <3>3
      <4>2. CASE x.op = "walk"
        BY <1>1, <1>2, <1>5, <3>3, <4>1, <4>2
      <4>3. QED
        BY <4>2
    <3>4. QED
      BY <1>4, <3>2, <3>3
  <2>3. \A x \in M : x.op = "walk" => x.call # c
    BY <1>1
  <2>4. \A x, y \in N : x.op = "walk" /\ y.op = "walk" /\ x.call = y.call => x = y
    BY <1>1, <1>4, <2>3
  <2>5. \A x \in Calls : verdict'[x] = "open" => \E y \in N : y.op = "walk" /\ y.call = x
    BY <1>1, <1>2, <1>4
  <2>6. QED
    BY <2>1, <2>2, <2>4, <2>5
<1>8. QED
  BY <1>7 DEF Walks, N

\* While ranks unite items, nothing is said of compression and finds.
LEMMA Unasked ==
  ASSUME Types, Uniting, Ranks # {}
  PROVE  ~Compressing /\ ~Finding
<1>1. PICK r \in Ranks : TRUE
  OBVIOUS
<1>2. QED
  BY <1>1 DEF Uniting, Compressing, Finding, All

\* A handler of a walk leaves the rest of the invariant alone.
LEMMA Uniters ==
  ASSUME DsInv, NEW m \in Mail, m.op \in WalkKinds, NEW S, \A n \in S : n.op \in WalkKinds,
         Mail' \subseteq Mail \cup S, UNCHANGED <<op, at, found>>, Ranks # {}
  PROVE  Phases' /\ Waits' /\ Finds' /\ Uniting
         /\ \A n \in Mail : n.op \in WalkKinds
<1>1. Uniting
  BY DEF DsInv, Phases, Timely, WalkKinds
<1>2. ~Compressing /\ ~Finding
  BY <1>1, Unasked DEF DsInv
<1>3. \A r \in Ranks : at[r] # "last"
  BY <1>1 DEF Uniting, All
<1>4. \A r \in Ranks : found[r] = {}
  BY <1>3 DEF DsInv, Finds
<1>5. Uniting' /\ ~Compressing'
  BY <1>1, <1>2 DEF Uniting, Compressing, All
<1>6. Finds' /\ Waits'
  BY <1>4, <1>5 DEF Finds, Waits
<1>7. \A n \in Mail : n.op \in WalkKinds
  BY <1>2 DEF DsInv, Phases, Timely
<1>8. Phases'
  BY <1>5, <1>7 DEF Phases, Timely
<1>9. QED
  BY <1>1, <1>6, <1>7, <1>8

-----------------------------------------------------------------------------
(***************************************************************************)
(* Handlers of walks.                                                      *)
(***************************************************************************)
\* What changes in what ranks that do not clear have.
LEMMA DataSet ==
  ASSUME Types, UNCHANGED at, NEW x \in Items, ~Cleared(Owner[x]), NEW v \in DataTypes,
         data' = [data EXCEPT ![x] = v]
  PROVE  /\ data' \in [Items -> DataTypes]
         /\ Data' \in [Items -> DataTypes] /\ Data'[x] = v /\ \A i \in Items : i # x => Data'[i] = Data[i]
<1>1. data \in [Items -> DataTypes]
  BY DEF Types
<1>2. \A i \in Items : data'[i] = IF i = x THEN v ELSE data[i]
  BY <1>1
<1>3. \A i \in Items : Cleared(Owner[i])' <=> Cleared(Owner[i])
  BY DEF Cleared
<1>4. Data' = [i \in Items |-> IF Cleared(Owner[i]) THEN New(i) ELSE data'[i]]
  BY <1>3 DEF Data
<1>5. \A i \in Items : Data[i] = IF Cleared(Owner[i]) THEN New(i) ELSE data[i]
  BY View
<1>6. Data = [i \in Items |-> Data[i]]
  BY View
<1>7. Data' = [Data EXCEPT ![x] = v] /\ data' \in [Items -> DataTypes]
  BY <1>1, <1>2, <1>4, <1>5, <1>6
<1>8. QED
  BY <1>7, View

\* Where data stays and no rank moves, what they will have stays.
LEMMA DataKept ==
  ASSUME UNCHANGED <<at, data>>
  PROVE  Data' = Data
BY DEF Data, Cleared

\* A handler inserts its item.
LEMMA KnownGrows ==
  ASSUME Types, UNCHANGED at, NEW x \in Items, ~Cleared(Owner[x]), known' = known \cup {x}
  PROVE  Known' = Known \cup {x} /\ known' \subseteq Items
BY DEF Types, Known, Cleared

\* What a handler of a message of a walk finds.
LEMMA Visited ==
  ASSUME DsInv, NEW m \in Mail, NEW kind \in WalkKinds, Visit(m, kind), UNCHANGED at
  PROVE  /\ m.op = kind /\ m.item \in Items /\ Ranks # {}
         /\ ~Cleared(Owner[m.item]) /\ Owner[m.item] \in Ranks
         /\ Data[m.item] = data[m.item]
         /\ Known' = Known \cup {m.item} /\ known' \subseteq Items
         /\ Forest(Data, Known') /\ Extends(Data, Known, Data, Known')
         /\ CacheIn(Data, Known, cache[Owner[m.item]])
         /\ TrueIn(Data, Known, m) /\ Fields(m)
<1>1. Fields(m) /\ Types
  BY MessageFields DEF DsInv, Types
<1>2. m.op = kind /\ Receiving(Owner[m.item]) /\ known' = known \cup {m.item}
  BY DEF Visit
<1>3. m.item \in Items
  BY <1>1, <1>2 DEF Fields, WalkKinds, WalkMessages, UpdateMessages, ResolveMessages, ParentMessages
<1>4. Owner[m.item] \in Ranks
  BY <1>1, <1>3, View
<1>5. ~Cleared(Owner[m.item]) /\ Data[m.item] = data[m.item]
  BY <1>1, <1>2, <1>3, Seen
<1>6. Known' = Known \cup {m.item} /\ known' \subseteq Items
  BY <1>1, <1>2, <1>3, <1>5, KnownGrows
<1>7. Forest(Data, Known) /\ {m.item} \subseteq Items
  BY <1>3 DEF DsInv, Trees
<1>8. Forest(Data, Known \cup {m.item}) /\ Extends(Data, Known, Data, Known \cup {m.item})
  BY <1>7, InsertForest
<1>9. CacheIn(Data, Known, cache[Owner[m.item]]) /\ TrueIn(Data, Known, m)
  BY <1>4, <1>5 DEF DsInv, Caches, MailTrue
<1>10. QED
  BY <1>1, <1>2, <1>3, <1>4, <1>5, <1>6, <1>8, <1>9

\* set_parent raises no estimate that is not true.
LEMMA SetParentFacts ==
  ASSUME NEW d \in DataTypes, NEW p \in Items, NEW e \in Nat
  PROVE  /\ WithParent(d, p, e) \in DataTypes /\ WithParent(d, p, e).rank = d.rank
         /\ WithParent(d, p, e) = d \/ ( /\ WithParent(d, p, e).parent = p
                                         /\ WithParent(d, p, e).est = e )
         /\ e >= d.est => WithParent(d, p, e).parent = p
<1> DEFINE t == [d EXCEPT !.parent = p, !.est = e]
<1>1. t \in DataTypes /\ t.rank = d.rank /\ t.parent = p /\ t.est = e
  BY DEF DataTypes
<1>2. WithParent(d, p, e) = IF e >= d.est THEN t ELSE d
  BY DEF WithParent
<1> HIDE DEF t
<1>3. QED
  BY <1>1, <1>2

\* An item that is no root gets a parent from above it.
LEMMA LiftOne ==
  ASSUME NEW d, NEW K, Forest(d, K), NEW e \in [Items -> DataTypes], NEW x \in Items,
         \A i \in Items : i # x => e[i] = d[i],
         e[x].rank = d[x].rank,
         e[x] = d[x] \/ (AboveIn(d, e[x].parent, x) /\ e[x].est <= d[e[x].parent].rank /\ e[x].parent \in K)
  PROVE  Forest(e, K) /\ Extends(d, K, e, K) /\ RootIn(e) = RootIn(d)
<1>3. \A i \in Items : e[i].rank = d[i].rank
  OBVIOUS
<1>4. \A i \in Items : e[i] = d[i] \/ ( /\ AboveIn(d, e[i].parent, i)
                                        /\ e[i].est <= d[e[i].parent].rank
                                        /\ e[i].parent \in K )
  OBVIOUS
<1>5. QED
  BY <1>3, <1>4, LiftForest

\* Extensions compose when only what is known has grown before.
LEMMA ExtendsOn ==
  ASSUME NEW d, NEW K, NEW L, NEW e, K \subseteq L, Extends(d, L, e, L)
  PROVE  Extends(d, K, e, L)
BY DEF Extends

\* What is left to show of a handler of a walk.
LEMMA Handled ==
  ASSUME DsInv, NEW m \in Mail, m.op \in WalkKinds, Ranks # {},
         NEW S \in SUBSET Messages, \A n \in S : n.op \in WalkKinds /\ TrueIn(Data', Known', n),
         IsABag(net'), Mail' \subseteq Mail \cup S,
         Trees', Extends(Data, Known, Data', Known'),
         known' \subseteq Items, data' \in [Items -> DataTypes],
         cache' \in [Ranks -> [Slots -> EntryTypes]],
         \A r \in Ranks : ~Cleared(r) => cache'[r] = cache[r] \/ CacheIn(Data', Known', cache'[r]),
         verdict' \in [Calls -> {"none", "open", "joined", "same"}],
         UNCHANGED <<compressed, todo, progVars, compVars>>, Walks'
  PROVE  DsInv'
<1>1. Types /\ Trees /\ Caches /\ MailTrue
  BY DEF DsInv
<1>2. UNCHANGED <<op, at, found, ops, queries, waiting, held>>
  BY DEF progVars, compVars
<1>3. /\ Phases' /\ Waits' /\ Finds' /\ Uniting
      /\ \A n \in Mail : n.op \in WalkKinds
  BY <1>2, Uniters
<1>4. /\ MailTrue'
      /\ \A r \in Ranks : ~Cleared(r) => CacheIn(Data', Known', cache[r])
  BY <1>1, <1>3, Remains
<1>5. Caches'
  <2>1. ASSUME NEW r \in Ranks, ~Cleared(r)' PROVE CacheIn(Data', Known', cache'[r])
    <3>1. ~Cleared(r)
      BY <2>1, <1>2 DEF Cleared
    <3>2. CASE cache'[r] = cache[r]
      BY <1>4, <3>1, <3>2
    <3>3. CASE CacheIn(Data', Known', cache'[r])
      BY <3>3
    <3>4. QED
      BY <3>1, <3>2, <3>3
  <2>2. QED
    BY <2>1 DEF Caches
<1>6. Types'
  BY <1>1, <1>2 DEF Types
<1>7. QED
  BY <1>3, <1>4, <1>5, <1>6 DEF DsInv

\* A message of a walk that sets the parent of its item.
LEMMA HandlerSetParent ==
  ASSUME DsInv, NEW m \in Mail, HandleSetParent(m)
  PROVE  DsInv' /\ RootIn(Data') = RootIn(Data)
<1> DEFINE x == m.item
           v == WithParent(data[x], m.new, m.est)
<1>1. /\ Visit(m, "parent") /\ UNCHANGED <<cache, compressed, todo, verdict, progVars, compVars>>
      /\ net' = Rest(m) /\ data' = [data EXCEPT ![x] = WithParent(data[x], m.new, m.est)]
      /\ UNCHANGED at
  BY DEF HandleSetParent, progVars
<1>2. Types /\ Walks
  BY DEF DsInv
<1>3. /\ m.op = "parent" /\ x \in Items /\ Ranks # {}
      /\ ~Cleared(Owner[x]) /\ Owner[x] \in Ranks
      /\ Data[x] = data[x]
      /\ Known' = Known \cup {x} /\ known' \subseteq Items
      /\ Forest(Data, Known') /\ Extends(Data, Known, Data, Known')
      /\ TrueIn(Data, Known, m) /\ Fields(m)
  BY <1>1, Visited DEF WalkKinds
<1>4. m.new \in Items /\ m.est \in Nat /\ data[x] \in DataTypes
  BY <1>2, <1>3 DEF Fields, ParentMessages, Types
<1>5. /\ v \in DataTypes /\ v.rank = Data[x].rank
      /\ v = Data[x] \/ (v.parent = m.new /\ v.est = m.est)
  <2> DEFINE d == data[x]
             p == m.new
             e == m.est
  <2>1. d \in DataTypes /\ p \in Items /\ e \in Nat /\ v = WithParent(d, p, e) /\ Data[x] = d
    BY <1>3, <1>4
  <2> HIDE DEF d, p, e, v
  <2>2. /\ WithParent(d, p, e) \in DataTypes /\ WithParent(d, p, e).rank = d.rank
        /\ WithParent(d, p, e) = d \/ (WithParent(d, p, e).parent = p /\ WithParent(d, p, e).est = e)
    BY <2>1, SetParentFacts
  <2>3. QED
    BY <2>1, <2>2 DEF p, e
<1>6. AboveIn(Data, m.new, x) /\ m.est <= Data[m.new].rank /\ m.new \in Known'
  BY <1>3 DEF TrueIn, ParentIn
<1> HIDE DEF v
<1>7. data' \in [Items -> DataTypes] /\ Data' \in [Items -> DataTypes]
      /\ Data'[x] = v /\ \A i \in Items : i # x => Data'[i] = Data[i]
  <2>1. Types /\ UNCHANGED at /\ x \in Items /\ ~Cleared(Owner[x]) /\ v \in DataTypes
    BY <1>1, <1>2, <1>3, <1>5 DEF progVars
  <2>2. data' = [data EXCEPT ![x] = v]
    BY <1>1 DEF v
  <2>3. QED
    BY <2>1, <2>2, DataSet
<1>8. Forest(Data', Known') /\ Extends(Data, Known', Data', Known') /\ RootIn(Data') = RootIn(Data)
  <2> DEFINE d == Data
             K == Known'
             e == Data'
  <2>1. /\ Forest(d, K) /\ e \in [Items -> DataTypes] /\ x \in Items
        /\ \A i \in Items : i # x => e[i] = d[i]
        /\ e[x].rank = d[x].rank
        /\ e[x] = d[x] \/ (AboveIn(d, e[x].parent, x) /\ e[x].est <= d[e[x].parent].rank /\ e[x].parent \in K)
    BY <1>3, <1>5, <1>6, <1>7
  <2> HIDE DEF d, K, e
  <2>2. Forest(e, K) /\ Extends(d, K, e, K) /\ RootIn(e) = RootIn(d)
    BY <2>1, LiftOne
  <2>3. QED
    BY <2>2 DEF d, K, e
<1>9. Extends(Data, Known, Data', Known')
  BY <1>3, <1>8, ExtendsOn
<1>10. IsABag(net') /\ Mail' \subseteq Mail
  BY <1>1, <1>2, MailGoes
<1>11. Walks'
  <2>1. NoWalks({}) /\ UNCHANGED <<todo, verdict>> /\ m.op # "walk"
    BY <1>1, <1>3 DEF NoWalks
  <2>2. QED
    BY <1>1, <1>2, <2>1, WalksStay
<1>12. DsInv'
  <2>1. cache' \in [Ranks -> [Slots -> EntryTypes]] /\ verdict' \in [Calls -> {"none", "open", "joined", "same"}]
    BY <1>1, <1>2 DEF Types
  <2>2. m.op \in WalkKinds /\ Trees' /\ {} \in SUBSET Messages /\ Mail' \subseteq Mail \cup {}
    BY <1>3, <1>8, <1>10 DEF WalkKinds, Trees
  <2>3. QED
    BY <1>1, <1>3, <1>7, <1>9, <1>10, <1>11, <2>1, <2>2, Handled
<1>13. QED
  BY <1>8, <1>12

\* update_parent_and_cache_lambda gives an item a parent from above its own, and
\* the cache an entry that is true.
LEMMA HandlerUpdate ==
  ASSUME DsInv, NEW m \in Mail, HandleUpdate(m)
  PROVE  DsInv' /\ RootIn(Data') = RootIn(Data)
<1> DEFINE x == m.item
           r == Owner[x]
           w == WithParent(data[x], m.new, m.est)
           v == IF data[x].parent = m.old THEN w ELSE data[x]
<1>1. /\ Visit(m, "update") /\ UNCHANGED <<compressed, todo, verdict, progVars, compVars>>
      /\ net' = Rest(m)
      /\ data' = IF data[x].parent = m.old THEN [data EXCEPT ![x] = WithParent(data[x], m.new, m.est)] ELSE data
      /\ cache' = [cache EXCEPT ![r] = Cached(cache[r], m.old, m.new, m.est)]
      /\ UNCHANGED at
  BY DEF HandleUpdate, progVars
<1>2. Types /\ Walks
  BY DEF DsInv
<1>3. /\ m.op = "update" /\ x \in Items /\ Ranks # {}
      /\ ~Cleared(r) /\ r \in Ranks
      /\ Data[x] = data[x]
      /\ Known' = Known \cup {x} /\ known' \subseteq Items
      /\ Forest(Data, Known') /\ Extends(Data, Known, Data, Known')
      /\ CacheIn(Data, Known, cache[r])
      /\ TrueIn(Data, Known, m) /\ Fields(m)
  BY <1>1, Visited DEF WalkKinds
<1>4. m.new \in Items /\ m.old \in Items /\ m.est \in Nat /\ data[x] \in DataTypes
  BY <1>2, <1>3 DEF Fields, UpdateMessages, Types
<1>5. /\ w \in DataTypes /\ w.rank = Data[x].rank
      /\ w = Data[x] \/ (w.parent = m.new /\ w.est = m.est)
  <2> DEFINE d == data[x]
             p == m.new
             e == m.est
  <2>1. d \in DataTypes /\ p \in Items /\ e \in Nat /\ w = WithParent(d, p, e) /\ Data[x] = d
    BY <1>3, <1>4
  <2> HIDE DEF d, p, e, w
  <2>2. /\ WithParent(d, p, e) \in DataTypes /\ WithParent(d, p, e).rank = d.rank
        /\ WithParent(d, p, e) = d \/ (WithParent(d, p, e).parent = p /\ WithParent(d, p, e).est = e)
    BY <2>1, SetParentFacts
  <2>3. QED
    BY <2>1, <2>2 DEF p, e
<1>6. /\ AboveIn(Data, m.old, x) /\ AtLeastIn(Data, m.new, m.old)
      /\ m.est <= Data[m.new].rank /\ m.new \in Known'
  BY <1>3 DEF TrueIn, UpdateIn
<1>7. AboveIn(Data, m.new, x)
  BY <1>3, <1>4, <1>6, AtLeastOrder
<1> HIDE DEF w
<1>8. v \in DataTypes /\ data' = [data EXCEPT ![x] = v]
  <2>1. data = [data EXCEPT ![x] = data[x]]
    BY <1>2 DEF Types
  <2>2. QED
    BY <1>1, <1>4, <1>5, <2>1 DEF w
<1>9. /\ v.rank = Data[x].rank
      /\ v = Data[x] \/ (AboveIn(Data, v.parent, x) /\ v.est <= Data[v.parent].rank /\ v.parent \in Known')
  BY <1>3, <1>5, <1>6, <1>7
<1> HIDE DEF v
<1>10. data' \in [Items -> DataTypes] /\ Data' \in [Items -> DataTypes]
      /\ Data'[x] = v /\ \A i \in Items : i # x => Data'[i] = Data[i]
  <2>1. Types /\ UNCHANGED at /\ x \in Items /\ ~Cleared(Owner[x]) /\ v \in DataTypes
    BY <1>1, <1>2, <1>3, <1>7, <1>8 DEF progVars
  <2>2. QED
    BY <1>8, <2>1, DataSet
<1>11. Forest(Data', Known') /\ Extends(Data, Known', Data', Known') /\ RootIn(Data') = RootIn(Data)
  <2> DEFINE d == Data
             K == Known'
             e == Data'
  <2>1. /\ Forest(d, K) /\ e \in [Items -> DataTypes] /\ x \in Items
        /\ \A i \in Items : i # x => e[i] = d[i]
        /\ e[x].rank = d[x].rank
        /\ e[x] = d[x] \/ (AboveIn(d, e[x].parent, x) /\ e[x].est <= d[e[x].parent].rank /\ e[x].parent \in K)
    BY <1>3, <1>9, <1>10
  <2> HIDE DEF d, K, e
  <2>2. Forest(e, K) /\ Extends(d, K, e, K) /\ RootIn(e) = RootIn(d)
    BY <2>1, LiftOne
  <2>3. QED
    BY <2>2 DEF d, K, e
<1>12. Extends(Data, Known, Data', Known')
  BY <1>3, <1>11, ExtendsOn
<1>13. IsABag(net') /\ Mail' \subseteq Mail
  BY <1>1, <1>2, MailGoes
<1>14. Walks'
  <2>1. NoWalks({}) /\ UNCHANGED <<todo, verdict>> /\ m.op # "walk"
    BY <1>1, <1>3 DEF NoWalks
  <2>2. QED
    BY <1>1, <1>2, <2>1, WalksStay
<1>15. CacheIn(Data, Known, cache'[r]) /\ cache' \in [Ranks -> [Slots -> EntryTypes]]
       /\ \A q \in Ranks : q # r => cache'[q] = cache[q]
  <2> DEFINE c == cache[r]
             n == [item |-> m.old, parent |-> m.new, est |-> m.est]
             b == Cached(c, m.old, m.new, m.est)
  <2>1. n \in EntryTypes /\ EntryIn(Data, Known, n)
    <3>1. m.new \in Known
      BY <1>3 DEF TrueIn, UpdateIn
    <3>2. QED
      BY <1>4, <1>6, <3>1 DEF EntryTypes, EntryIn
  <2>2. c \in [Slots -> EntryTypes] /\ \A s \in Slots : c[s] # Unoccupied => EntryIn(Data, Known, c[s])
    BY <1>3 DEF CacheIn
  <2>3. b = [c EXCEPT ![Slot[m.old]] = IF m.est >= c[Slot[m.old]].est THEN n ELSE c[Slot[m.old]]]
    BY DEF Cached
  <2> HIDE DEF n, c, b
  <2>4. Slot[m.old] \in Slots
    BY <1>4, DisjointSetAssumption
  <2>5. CacheIn(Data, Known, b)
    BY <2>1, <2>2, <2>3, <2>4 DEF CacheIn
  <2>6. cache' = [cache EXCEPT ![r] = b]
    BY <1>1 DEF b, c
  <2>7. b \in [Slots -> EntryTypes]
    BY <2>5 DEF CacheIn
  <2>8. QED
    BY <1>2, <1>3, <2>5, <2>6, <2>7 DEF Types
<1>16. CacheIn(Data', Known', cache'[r])
  <2> DEFINE d == Data
             K == Known
             L == Known'
             e == Data'
             c == cache'[r]
  <2>1. Forest(d, K) /\ Forest(e, L) /\ Extends(d, K, e, L) /\ CacheIn(d, K, c)
    BY <1>11, <1>12, <1>15 DEF DsInv, Trees
  <2> HIDE DEF d, K, L, e, c
  <2>2. CacheIn(e, L, c)
    BY <2>1, StillTrue
  <2>3. QED
    BY <2>2 DEF d, K, L, e, c
<1>17. DsInv'
  <2>1. verdict' \in [Calls -> {"none", "open", "joined", "same"}]
    BY <1>1, <1>2 DEF Types
  <2>2. m.op \in WalkKinds /\ Trees' /\ {} \in SUBSET Messages /\ Mail' \subseteq Mail \cup {}
    BY <1>3, <1>11, <1>13 DEF WalkKinds, Trees
  <2>3. \A q \in Ranks : ~Cleared(q) => cache'[q] = cache[q] \/ CacheIn(Data', Known', cache'[q])
    BY <1>15, <1>16
  <2>4. QED
    BY <1>1, <1>3, <1>10, <1>12, <1>13, <1>14, <1>15, <2>1, <2>2, <2>3, Handled
<1>18. QED
  BY <1>11, <1>17

\* resolve_merge_lambda raises the rank of a root, or sends the item that was put
\* under it to a parent of higher rank.
LEMMA HandlerResolve ==
  ASSUME DsInv, NEW m \in Mail, HandleResolve(m)
  PROVE  DsInv' /\ RootIn(Data') = RootIn(Data)
<1> DEFINE x == m.item
           d == data[x]
           tie == d.rank = m.rank
           root == d.parent = x
           S == IF tie /\ ~root THEN {SetParent(m.merging, d.parent, d.est)} ELSE {}
           v == IF tie /\ root THEN [d EXCEPT !.rank = m.rank + 1, !.est = m.rank + 1] ELSE d
<1>1. /\ Visit(m, "resolve") /\ UNCHANGED <<cache, compressed, todo, verdict, progVars, compVars>>
      /\ net' = Plus(Rest(m), S)
      /\ data' = IF tie /\ root
                   THEN [data EXCEPT ![x].rank = m.rank + 1, ![x].est = m.rank + 1] ELSE data
      /\ UNCHANGED at
  BY DEF HandleResolve, progVars
<1>2. Types /\ Walks
  BY DEF DsInv
<1>3. /\ m.op = "resolve" /\ x \in Items /\ Ranks # {}
      /\ ~Cleared(Owner[x]) /\ Owner[x] \in Ranks
      /\ Data[x] = d
      /\ Known' = Known \cup {x} /\ known' \subseteq Items
      /\ Forest(Data, Known') /\ Extends(Data, Known, Data, Known')
      /\ TrueIn(Data, Known, m) /\ Fields(m)
  BY <1>1, Visited DEF WalkKinds
<1>4. m.merging \in Items /\ m.rank \in Nat /\ d \in DataTypes
  BY <1>2, <1>3 DEF Fields, ResolveMessages, Types
<1>5. AboveIn(Data, x, m.merging) /\ m.rank <= d.rank /\ x \in Known'
  BY <1>3 DEF TrueIn, ResolveIn
<1>6. /\ v \in DataTypes /\ v.parent = d.parent
      /\ IF tie /\ root THEN v.rank = m.rank + 1 /\ v.est = m.rank + 1 ELSE v = d
  <2> DEFINE q == m.rank + 1
             t == [d EXCEPT !.rank = q, !.est = q]
  <2>1. v = IF tie /\ root THEN t ELSE d
    OBVIOUS
  <2>2. q \in Nat /\ d \in DataTypes
    BY <1>4
  <2> HIDE DEF d, q, v
  <2>3. t \in DataTypes /\ t.parent = d.parent /\ t.rank = q /\ t.est = q
    BY <2>2 DEF DataTypes
  <2> HIDE DEF t
  <2>4. QED
    BY <2>1, <2>2, <2>3 DEF q
<1>7. data' = [data EXCEPT ![x] = v]
  <2>1. data = [data EXCEPT ![x] = d]
    BY <1>2 DEF Types
  <2>2. [data EXCEPT ![x].rank = m.rank + 1, ![x].est = m.rank + 1]
          = [data EXCEPT ![x] = [d EXCEPT !.rank = m.rank + 1, !.est = m.rank + 1]]
    BY <1>2, <1>3 DEF Types
  <2>3. QED
    BY <1>1, <2>1, <2>2
<1> HIDE DEF v
<1>8. data' \in [Items -> DataTypes] /\ Data' \in [Items -> DataTypes]
      /\ Data'[x] = v /\ \A i \in Items : i # x => Data'[i] = Data[i]
  <2>1. Types /\ UNCHANGED at /\ x \in Items /\ ~Cleared(Owner[x]) /\ v \in DataTypes
    BY <1>1, <1>2, <1>3, <1>6 DEF progVars
  <2>2. QED
    BY <1>7, <2>1, DataSet
<1>9. Forest(Data', Known') /\ Extends(Data, Known', Data', Known') /\ RootIn(Data') = RootIn(Data)
  <2> DEFINE o == Data
             K == Known'
             e == Data'
  <2>1. /\ Forest(o, K) /\ e \in [Items -> DataTypes] /\ x \in Items /\ x \in K
        /\ \A i \in Items : i # x => e[i] = o[i]
        /\ o[x] = d /\ e[x] = v
    BY <1>3, <1>5, <1>8
  <2> HIDE DEF o, K, e
  <2>2. CASE tie /\ root
    <3>1. m.rank + 1 \in Nat /\ o[x].parent = x /\ o[x].rank <= m.rank + 1
      BY <1>4, <2>1, <2>2
    <3>2. e[x].parent = x /\ e[x].est = m.rank + 1 /\ e[x].rank = m.rank + 1
      BY <1>6, <2>1, <2>2
    <3>3. QED
      BY <2>1, <3>1, <3>2, RaiseForest DEF o, K, e
  <2>3. CASE ~(tie /\ root)
    <3>1. e[x] = o[x] /\ e[x].rank = o[x].rank
      BY <1>6, <2>1, <2>3
    <3>2. Forest(e, K) /\ Extends(o, K, e, K) /\ RootIn(e) = RootIn(o)
      BY <2>1, <3>1, LiftOne
    <3>3. QED
      BY <3>2 DEF o, K, e
  <2>4. QED
    BY <2>2, <2>3
<1>10. Extends(Data, Known, Data', Known')
  BY <1>3, <1>9, ExtendsOn
<1>11. S \in SUBSET Messages /\ \A n \in S : n.op \in WalkKinds /\ TrueIn(Data', Known', n)
  <2>1. CASE ~(tie /\ ~root)
    BY <2>1
  <2>2. CASE tie /\ ~root
    <3> DEFINE n == SetParent(m.merging, d.parent, d.est)
    <3>1. S = {n}
      BY <2>2
    <3>2. n.op = "parent" /\ n.item = m.merging /\ n.new = d.parent /\ n.est = d.est /\ n \in ParentMessages
      BY <1>4 DEF SetParent, ParentMessages, DataTypes
    <3>3. n \in Messages
      BY <3>2 DEF Messages
    <3>4. Data' = Data
      BY <1>3, <1>6, <1>8, <2>2, View, <1>2
    <3>5. ParentIn(Data, Known', n)
      <4> DEFINE o == Data
                 K == Known'
      <4>1. Forest(o, K) /\ o[x] = d /\ d.parent # x /\ AboveIn(o, x, m.merging) /\ x \in K /\ d.parent \in Items
        BY <1>3, <1>4, <1>5, <2>2 DEF DataTypes
      <4> HIDE DEF o, K, d
      <4>2. AboveIn(o, d.parent, x)
        BY <1>3, <4>1, ParentAbove
      <4>3. AboveIn(o, d.parent, m.merging)
        BY <1>3, <1>4, <4>1, <4>2, AboveOrder
      <4>4. d.est <= o[d.parent].rank /\ d.parent \in K
        BY <1>3, <4>1 DEF Forest
      <4>5. ParentIn(o, K, n)
        BY <3>2, <4>3, <4>4 DEF ParentIn
      <4>6. QED
        BY <4>5 DEF o, K
    <3>6. n.op \in WalkKinds /\ TrueIn(Data', Known', n)
      BY <3>2, <3>4, <3>5 DEF TrueIn, WalkKinds
    <3> HIDE DEF n
    <3>7. QED
      BY <3>1, <3>3, <3>6
  <2>3. QED
    BY <2>1, <2>2
<1> HIDE DEF S
<1>12. IsABag(net') /\ Mail' \subseteq Mail \cup S
  BY <1>1, <1>2, MailMoves
<1>13. Walks'
  <2>1. NoWalks(S) /\ UNCHANGED <<todo, verdict>> /\ m.op # "walk"
    <3>1. \A n \in S : n.op # "walk"
      BY DEF S, SetParent
    <3>2. QED
      BY <1>1, <1>3, <3>1 DEF NoWalks
  <2>2. QED
    BY <1>1, <1>2, <2>1, WalksStay
<1>14. DsInv'
  <2>1. cache' \in [Ranks -> [Slots -> EntryTypes]] /\ verdict' \in [Calls -> {"none", "open", "joined", "same"}]
    BY <1>1, <1>2 DEF Types
  <2>2. m.op \in WalkKinds /\ Trees'
    BY <1>3, <1>9 DEF WalkKinds, Trees
  <2>3. QED
    BY <1>1, <1>3, <1>8, <1>10, <1>11, <1>12, <1>13, <2>1, <2>2, Handled
<1>15. QED
  BY <1>9, <1>14

-----------------------------------------------------------------------------
(***************************************************************************)
(* A step of a walk.                                                       *)
(***************************************************************************)
\* The items that a step of a walk finds on both ways up, as far as the cache knows.
Up(m) == WalkCache(cache[Owner[m.item]], data[m.item].parent, data[m.item].rank)
Other(m) == WalkCache(cache[Owner[m.item]], m.oparent, m.orank)

\* What a step of a walk finds on the two ways up, and that their sides are those
\* of the items to unite.
LEMMA WalkFinds ==
  ASSUME DsInv, NEW m \in Mail, Visit(m, "walk"), UNCHANGED at
  PROVE  /\ m.item \in Known' /\ m.child \in Items /\ m.oitem \in Items /\ m.oparent \in Items
         /\ m.call \in Calls /\ m.call.a \in Items /\ m.call.b \in Items
         /\ Data[m.item] \in DataTypes
         /\ Up(m).item \in Known' /\ Up(m).item \in Items /\ Up(m).rank \in Nat
         /\ AtLeastIn(Data, Up(m).item, m.item)
         /\ Data[m.item].rank <= Up(m).rank /\ Up(m).rank <= Data[Up(m).item].rank
         /\ Up(m).item = m.item => Data[m.item].parent = m.item /\ Up(m).rank = Data[m.item].rank
         /\ Other(m).item \in Items /\ Other(m).rank \in Guesses
         /\ AtLeastIn(Data, Other(m).item, m.oitem) /\ AtLeastIn(Data, Other(m).item, m.oparent)
         /\ Other(m).rank <= Data[Other(m).item].rank
         /\ (Other(m).rank >= 0 => Other(m).item \in Known')
         /\ AtLeastIn(Data, m.item, m.child) /\ Sides(RootIn(Data), m)
<1> DEFINE x == m.item
           r == Owner[x]
           d == Data
           K == Known'
           c == cache[r]
<1>1. /\ m.op = "walk" /\ x \in Items /\ r \in Ranks
      /\ Data[x] = data[x]
      /\ Known' = Known \cup {x}
      /\ Forest(Data, Known') /\ Extends(Data, Known, Data, Known')
      /\ CacheIn(Data, Known, cache[r])
      /\ TrueIn(Data, Known, m) /\ Fields(m)
  BY Visited DEF WalkKinds
<1>2. /\ m.child \in Items /\ m.oitem \in Items /\ m.oparent \in Items /\ m.orank \in Guesses
      /\ m.call \in Calls /\ m.call.a \in Items /\ m.call.b \in Items
  BY <1>1, DisjointSetAssumption DEF Fields, WalkMessages
<1>3. Forest(Data, Known)
  BY DEF DsInv, Trees
<1>4. CacheIn(d, K, c) /\ Forest(d, K)
  <2> DEFINE k == Known
  <2>1. Forest(d, k) /\ Forest(d, K) /\ Extends(d, k, d, K) /\ CacheIn(d, k, c)
    BY <1>1, <1>3
  <2> HIDE DEF d, k, K, c
  <2>2. QED
    BY <2>1, StillTrue
<1>5. WalkIn(Data, Known, m)
  BY <1>1 DEF TrueIn
<1>6. /\ AtLeastIn(d, x, m.child) /\ AtLeastIn(d, m.oparent, m.oitem)
      /\ m.orank <= d[m.oparent].rank /\ (m.orank >= 0 => m.oparent \in K)
      /\ Sides(RootIn(Data), m) /\ x \in K
  BY <1>1, <1>5 DEF WalkIn
<1>7. /\ Up(m) = WalkCache(c, d[x].parent, d[x].rank)
      /\ Other(m) = WalkCache(c, m.oparent, m.orank)
  BY <1>1 DEF Up, Other
<1> HIDE DEF d, K, c, x
<1>8. d[x] \in DataTypes /\ d[x].parent \in Items /\ d[x].rank \in Nat
  BY <1>1, <1>4 DEF Forest, DataTypes
<1>9. d[x].parent \in K /\ AtLeastIn(d, d[x].parent, x) /\ d[x].rank <= d[d[x].parent].rank
  BY <1>1, <1>4, <1>6, <1>8, AtLeastOrder DEF Forest
<1> DEFINE p == d[x].parent
           k == d[x].rank
<1>10. p \in Items /\ k \in Guesses /\ k <= d[p].rank /\ (k >= 0 => p \in K)
  BY <1>8, <1>9 DEF Guesses
<1> HIDE DEF p, k
<1>11. LET w == WalkCache(c, p, k)
       IN /\ w.item \in Items /\ w.rank \in Guesses /\ AtLeastIn(d, w.item, p)
          /\ k <= w.rank /\ w.rank <= d[w.item].rank /\ (w.rank >= 0 => w.item \in K)
  BY <1>4, <1>10, CacheWalk
<1> DEFINE u == WalkCache(c, p, k)
<1>12. u = Up(m)
  BY <1>7 DEF p, k
<1>13. LET w == WalkCache(c, m.oparent, m.orank)
       IN /\ w.item \in Items /\ w.rank \in Guesses /\ AtLeastIn(d, w.item, m.oparent)
          /\ m.orank <= w.rank /\ w.rank <= d[w.item].rank /\ (w.rank >= 0 => w.item \in K)
  <2> DEFINE op1 == m.oparent
             or1 == m.orank
  <2>1. op1 \in Items /\ or1 \in Guesses /\ or1 <= d[op1].rank /\ (or1 >= 0 => op1 \in K)
    BY <1>2, <1>6
  <2> HIDE DEF op1, or1
  <2>2. LET w == WalkCache(c, op1, or1)
        IN /\ w.item \in Items /\ w.rank \in Guesses /\ AtLeastIn(d, w.item, op1)
           /\ or1 <= w.rank /\ w.rank <= d[w.item].rank /\ (w.rank >= 0 => w.item \in K)
    BY <1>4, <2>1, CacheWalk
  <2>3. QED
    BY <2>2 DEF op1, or1
<1>14. /\ u.item \in Items /\ u.rank \in Guesses /\ AtLeastIn(d, u.item, p)
       /\ k <= u.rank /\ u.rank <= d[u.item].rank /\ (u.rank >= 0 => u.item \in K)
  BY <1>11
<1> HIDE DEF u
<1>15. u.rank \in Nat /\ u.item \in K
  BY <1>8, <1>14 DEF Guesses, k
<1>16. AtLeastIn(d, u.item, x)
  BY <1>1, <1>4, <1>8, <1>9, <1>14, AtLeastOrder DEF p
<1>17. u.item = x => p = x /\ u.rank = k
  <2>1. SUFFICES ASSUME u.item = x PROVE p = x /\ u.rank = k
    OBVIOUS
  <2>2. p = x
    <3>1. SUFFICES ASSUME p # x PROVE FALSE
      OBVIOUS
    <3>2. AboveIn(d, p, x)
      BY <1>1, <1>4, <3>1, ParentAbove DEF p
    <3>3. AboveIn(d, x, p)
      BY <1>14, <2>1, <3>1 DEF AtLeastIn
    <3>4. QED
      BY <1>1, <1>4, <1>10, <3>2, <3>3, AboveOrder
  <2>3. u.rank <= d[x].rank /\ k <= u.rank /\ k = d[x].rank
    BY <1>14, <2>1 DEF k
  <2>4. QED
    BY <1>8, <1>15, <2>2, <2>3 DEF k
<1> DEFINE o == WalkCache(c, m.oparent, m.orank)
<1>18. o = Other(m)
  BY <1>7
<1>19. /\ o.item \in Items /\ o.rank \in Guesses /\ AtLeastIn(d, o.item, m.oparent)
       /\ o.rank <= d[o.item].rank /\ (o.rank >= 0 => o.item \in K)
  BY <1>13
<1> HIDE DEF o
<1>20. AtLeastIn(d, o.item, m.oitem)
  BY <1>2, <1>4, <1>6, <1>19, AtLeastOrder
<1> USE DEF x, d, K
<1>21. /\ m.item \in K /\ d[m.item] \in DataTypes
       /\ u.item \in K /\ u.item \in Items /\ u.rank \in Nat
       /\ AtLeastIn(d, u.item, m.item)
       /\ d[m.item].rank <= u.rank /\ u.rank <= d[u.item].rank
       /\ (u.item = m.item => d[m.item].parent = m.item /\ u.rank = d[m.item].rank)
  BY <1>6, <1>8, <1>14, <1>15, <1>16, <1>17 DEF p, k
<1>22. QED
  BY <1>2, <1>6, <1>12, <1>18, <1>19, <1>20, <1>21

\* What a step of a walk sends to split the way that it came.
Split(m) ==
  IF m.child = m.item THEN {}
  ELSE {Update(m.child, m.item, Up(m).item, IF m.call.exec THEN data[m.item].rank ELSE Up(m).rank)}

\* Splitting the way that a walk came says nothing that is not true.
LEMMA SplitTrue ==
  ASSUME DsInv, NEW m \in Mail, Visit(m, "walk"), UNCHANGED at
  PROVE  \A n \in Split(m) : n \in Messages /\ n.op = "update" /\ TrueIn(Data, Known', n)
<1> SUFFICES ASSUME NEW n \in Split(m) PROVE n \in Messages /\ n.op = "update" /\ TrueIn(Data, Known', n)
  OBVIOUS
<1> DEFINE e == IF m.call.exec THEN data[m.item].rank ELSE Up(m).rank
<1>1. m.child # m.item /\ n = Update(m.child, m.item, Up(m).item, e)
  BY DEF Split
<1>2. /\ m.child \in Items /\ m.item \in Items /\ Data[m.item] = data[m.item] /\ Data[m.item].rank \in Nat
  BY WalkFinds, Visited DEF WalkKinds, DataTypes
<1>3. /\ Up(m).item \in Known' /\ Up(m).item \in Items /\ Up(m).rank \in Nat
      /\ AtLeastIn(Data, Up(m).item, m.item) /\ AtLeastIn(Data, m.item, m.child)
      /\ Data[m.item].rank <= Up(m).rank /\ Up(m).rank <= Data[Up(m).item].rank
  BY WalkFinds
<1>4. Data[Up(m).item].rank \in Nat
  BY <1>3, View DEF DsInv, DataTypes
<1>5. e \in Nat /\ e <= Data[Up(m).item].rank
  BY <1>2, <1>3, <1>4
<1> HIDE DEF e
<1>6. n.op = "update" /\ n.item = m.child /\ n.old = m.item /\ n.new = Up(m).item /\ n.est = e
      /\ n \in UpdateMessages
  BY <1>1, <1>2, <1>3, <1>5 DEF Update, UpdateMessages
<1>7. AboveIn(Data, m.item, m.child)
  BY <1>1, <1>3 DEF AtLeastIn
<1>8. UpdateIn(Data, Known', n)
  BY <1>3, <1>5, <1>6, <1>7 DEF UpdateIn
<1>9. QED
  BY <1>6, <1>8 DEF TrueIn, Messages

\* A message that goes on with a walk.
LEMMA WalkTrue ==
  ASSUME NEW d, NEW K, Forest(d, K), NEW m, m.call \in Calls, Sides(RootIn(d), m),
         NEW a \in Items, NEW b \in Items, NEW i \in Items, NEW j \in Items, NEW r \in Guesses,
         AtLeastIn(d, a, i), AtLeastIn(d, b, j), r <= d[b].rank, r >= 0 => b \in K,
         \/ RootIn(d)[a] = RootIn(d)[m.item] /\ RootIn(d)[b] = RootIn(d)[m.oparent]
         \/ RootIn(d)[b] = RootIn(d)[m.item] /\ RootIn(d)[a] = RootIn(d)[m.oparent]
  PROVE  LET n == Walk(m.call, a, i, b, j, r)
         IN n \in Messages /\ n.op = "walk" /\ n.call = m.call /\ TrueIn(d, K, n)
<1> DEFINE n == Walk(m.call, a, i, b, j, r)
           c == m.call
<1>0. c \in Calls
  OBVIOUS
<1> HIDE DEF c
<1>1. /\ n.op = "walk" /\ n.call = c /\ n.item = a /\ n.child = i /\ n.oparent = b /\ n.oitem = j /\ n.orank = r
      /\ n \in WalkMessages
  BY <1>0 DEF Walk, WalkMessages, c
<1> HIDE DEF n
<1>2. Sides(RootIn(d), n)
  BY <1>1 DEF Sides, c
<1>3. WalkIn(d, K, n)
  BY <1>1, <1>2 DEF WalkIn
<1>4. n \in Messages /\ n.op = "walk" /\ n.call = m.call /\ TrueIn(d, K, n)
  BY <1>1, <1>3 DEF TrueIn, Messages, c
<1>5. QED
  BY <1>4 DEF n

\* How a union changes the roots: one of the two that are over its items goes
\* under the other.
Joined(c, old, new) ==
  /\ old[c.a] # old[c.b]
  /\ \E x, y \in {old[c.a], old[c.b]} :
       x # y /\ \A i \in Items : new[i] = IF old[i] = x THEN y ELSE old[i]

\* What a step of a walk may come to.
Outcome(m) ==
  \/ UNCHANGED verdict /\ RootIn(Data') = RootIn(Data)
  \/ /\ verdict' = [verdict EXCEPT ![m.call] = "same"] /\ verdict[m.call] = "open" /\ m.call \in Calls
     /\ RootIn(Data') = RootIn(Data) /\ RootIn(Data)[m.call.a] = RootIn(Data)[m.call.b]
  \/ /\ verdict' = [verdict EXCEPT ![m.call] = "joined"] /\ verdict[m.call] = "open" /\ m.call \in Calls
     /\ Joined(m.call, RootIn(Data), RootIn(Data'))

\* A step that sends the walk on.
LEMMA WalkGoes ==
  ASSUME DsInv, NEW m \in Mail, Visit(m, "walk"), UNCHANGED <<cache, compressed, todo, progVars, compVars>>,
         UNCHANGED <<data, verdict>>,
         NEW n \in Messages, n.op = "walk", n.call = m.call, TrueIn(Data, Known', n),
         net' = Plus(Rest(m), Split(m) \cup {n})
  PROVE  DsInv' /\ Outcome(m)
<1> DEFINE S == Split(m) \cup {n}
<1>1. Types /\ Walks /\ UNCHANGED at
  BY DEF DsInv, progVars
<1>2. Data' = Data
  BY <1>1, DataKept
<1>3. \A x \in Split(m) : x \in Messages /\ x.op = "update" /\ TrueIn(Data, Known', x)
  BY <1>1, SplitTrue
<1>4. S \in SUBSET Messages /\ \A x \in S : x.op \in WalkKinds /\ TrueIn(Data', Known', x)
  BY <1>2, <1>3 DEF WalkKinds
<1>5. /\ m.op = "walk" /\ Ranks # {} /\ known' \subseteq Items
      /\ Forest(Data, Known') /\ Extends(Data, Known, Data, Known')
  BY <1>1, Visited DEF WalkKinds
<1>6. Walks'
  <2>1. NoWalks(Split(m))
    BY <1>3 DEF NoWalks
  <2>2. QED
    BY <1>1, <1>5, <2>1, WalkGoesOn
<1>7. IsABag(net') /\ Mail' \subseteq Mail \cup S
  BY <1>1, MailMoves
<1> HIDE DEF S
<1>8. DsInv'
  <2>1. /\ cache' \in [Ranks -> [Slots -> EntryTypes]] /\ verdict' \in [Calls -> {"none", "open", "joined", "same"}]
        /\ data' \in [Items -> DataTypes] /\ \A r \in Ranks : cache'[r] = cache[r]
    BY <1>1 DEF Types
  <2>2. m.op \in WalkKinds /\ Trees' /\ Extends(Data, Known, Data', Known')
    BY <1>2, <1>5 DEF WalkKinds, Trees
  <2>3. QED
    BY <1>4, <1>5, <1>6, <1>7, <2>1, <2>2, Handled
<1>9. QED
  BY <1>2, <1>8 DEF Outcome

\* A step that finds the two ways up in one tree.
LEMMA WalkMeets ==
  ASSUME DsInv, NEW m \in Mail, Visit(m, "walk"), UNCHANGED <<cache, compressed, todo, progVars, compVars>>,
         UNCHANGED data, verdict' = [verdict EXCEPT ![m.call] = "same"],
         Met(Up(m).item, Other(m).item, m.oitem), net' = Plus(Rest(m), Split(m))
  PROVE  DsInv' /\ Outcome(m)
<1> DEFINE S == Split(m)
<1>1. Types /\ Walks /\ Trees /\ UNCHANGED at
  BY DEF DsInv, progVars
<1>2. Data' = Data
  BY <1>1, DataKept
<1>3. \A x \in Split(m) : x \in Messages /\ x.op = "update" /\ TrueIn(Data, Known', x)
  BY <1>1, SplitTrue
<1>4. S \in SUBSET Messages /\ \A x \in S : x.op \in WalkKinds /\ TrueIn(Data', Known', x)
  BY <1>2, <1>3 DEF WalkKinds
<1>5. /\ m.op = "walk" /\ Ranks # {} /\ known' \subseteq Items /\ m.item \in Items
      /\ Forest(Data, Known') /\ Extends(Data, Known, Data, Known')
  BY <1>1, Visited DEF WalkKinds
<1>6. Walks'
  <2>1. NoWalks(Split(m))
    BY <1>3 DEF NoWalks
  <2>2. QED
    BY <1>1, <1>5, <2>1, WalkEnds
<1>7. IsABag(net') /\ Mail' \subseteq Mail \cup S
  BY <1>1, MailMoves
<1> HIDE DEF S
<1>10. m.call \in Calls /\ verdict[m.call] = "open"
  BY <1>1, <1>5, WalkFinds DEF Walks
<1>8. DsInv'
  <2>1. /\ cache' \in [Ranks -> [Slots -> EntryTypes]] /\ verdict' \in [Calls -> {"none", "open", "joined", "same"}]
        /\ data' \in [Items -> DataTypes] /\ \A r \in Ranks : cache'[r] = cache[r]
    BY <1>1, <1>10 DEF Types
  <2>2. m.op \in WalkKinds /\ Trees' /\ Extends(Data, Known, Data', Known')
    BY <1>2, <1>5 DEF WalkKinds, Trees
  <2>3. QED
    BY <1>4, <1>5, <1>6, <1>7, <2>1, <2>2, Handled
<1>11. RootIn(Data)[m.call.a] = RootIn(Data)[m.call.b]
  <2> DEFINE d == Data
  <2>1. /\ m.oitem \in Items /\ m.oparent \in Items
        /\ Up(m).item \in Items /\ AtLeastIn(d, Up(m).item, m.item)
        /\ Other(m).item \in Items /\ AtLeastIn(d, Other(m).item, m.oparent) /\ AtLeastIn(d, Other(m).item, m.oitem)
        /\ Sides(RootIn(d), m) /\ Forest(d, Known)
    BY <1>1, WalkFinds DEF Trees
  <2> HIDE DEF d
  <2>2. /\ RootIn(d)[Up(m).item] = RootIn(d)[m.item]
        /\ RootIn(d)[Other(m).item] = RootIn(d)[m.oparent] /\ RootIn(d)[Other(m).item] = RootIn(d)[m.oitem]
    BY <1>5, <2>1, AtLeastOrder
  <2>3. RootIn(d)[m.item] = RootIn(d)[m.oparent]
    BY <2>2 DEF Met
  <2>4. QED
    BY <2>1, <2>3 DEF Sides, d
<1>12. QED
  BY <1>2, <1>8, <1>10, <1>11 DEF Outcome

\* A step that puts a root under the other way up: what it knows of the rank there
\* may be old, and is still enough.
LEMMA WalkAttaches ==
  ASSUME DsInv, NEW m \in Mail, Visit(m, "walk"), UNCHANGED <<cache, compressed, todo, progVars, compVars>>,
         verdict' = [verdict EXCEPT ![m.call] = "joined"],
         Up(m).item = m.item, NEW e \in Nat,
         \/ Up(m).rank < Other(m).rank /\ e = Other(m).rank
         \/ Up(m).rank = Other(m).rank /\ m.item < Other(m).item /\ e = data[m.item].rank,
         data' = [data EXCEPT ![m.item] = WithParent(data[m.item], Other(m).item, e)],
         NEW T, T = {} \/ (T = {Resolve(Other(m).item, m.item, data[m.item].rank)} /\ Up(m).rank = Other(m).rank),
         net' = Plus(Rest(m), Split(m) \cup T)
  PROVE  DsInv' /\ Outcome(m)
<1> DEFINE S == Split(m) \cup T
           x == m.item
           y == Other(m).item
           d == Data
           K == Known'
           E == Data'
           v == WithParent(data[m.item], Other(m).item, e)
<1>1. Types /\ Walks /\ Trees /\ UNCHANGED at
  BY DEF DsInv, progVars
<1>2. /\ m.op = "walk" /\ Ranks # {} /\ known' \subseteq Items /\ x \in Items
      /\ ~Cleared(Owner[x]) /\ d[x] = data[x]
      /\ Forest(d, K) /\ Extends(d, Known, d, K)
  BY <1>1, Visited DEF WalkKinds
<1>3. /\ x \in K /\ d[x] \in DataTypes /\ d[x].parent = x
      /\ Up(m).rank = d[x].rank
      /\ y \in Items /\ Other(m).rank \in Guesses
      /\ AtLeastIn(d, y, m.oparent)
      /\ Other(m).rank <= d[y].rank
      /\ (Other(m).rank >= 0 => y \in K)
      /\ Sides(RootIn(d), m) /\ m.oparent \in Items
      /\ m.call \in Calls /\ m.call.a \in Items /\ m.call.b \in Items
  BY <1>1, WalkFinds
<1>4. d[x].rank \in Nat /\ d[x].est \in Nat /\ d[y].rank \in Nat /\ d[x].est <= d[x].rank /\ x \in Nat /\ y \in Nat
  BY <1>2, <1>3, DisjointSetAssumption DEF Forest, DataTypes
<1>5. HigherIn(d, y, x) /\ y \in K /\ e <= d[y].rank /\ e >= d[x].est
  <2>1. CASE Up(m).rank < Other(m).rank /\ e = Other(m).rank
    BY <1>3, <1>4, <2>1 DEF HigherIn, Guesses
  <2>2. CASE Up(m).rank = Other(m).rank /\ m.item < Other(m).item /\ e = data[m.item].rank
    BY <1>2, <1>3, <1>4, <2>2 DEF HigherIn, Guesses
  <2>3. QED
    BY <2>1, <2>2
<1>6. v \in DataTypes /\ v.parent = y /\ v.est = e /\ v.rank = d[x].rank
  <2> DEFINE w == data[x]
  <2>1. w \in DataTypes /\ y \in Items /\ v = WithParent(w, y, e) /\ e >= w.est /\ d[x] = w
    BY <1>2, <1>3, <1>5
  <2> HIDE DEF w, v, y
  <2>2. WithParent(w, y, e) \in DataTypes /\ WithParent(w, y, e).rank = w.rank
    BY <2>1, SetParentFacts
  <2>3. WithParent(w, y, e) = [w EXCEPT !.parent = y, !.est = e]
    BY <2>1 DEF WithParent
  <2>4. [w EXCEPT !.parent = y, !.est = e].est = e /\ [w EXCEPT !.parent = y, !.est = e].parent = y
    BY <2>1 DEF DataTypes
  <2>5. QED
    BY <2>1, <2>2, <2>3, <2>4
<1> HIDE DEF v
<1>7. /\ data' \in [Items -> DataTypes] /\ E \in [Items -> DataTypes]
      /\ E[x] = v /\ \A i \in Items : i # x => E[i] = d[i]
  <2>1. data' = [data EXCEPT ![x] = v]
    BY DEF v
  <2>2. Types /\ UNCHANGED at /\ x \in Items /\ ~Cleared(Owner[x]) /\ v \in DataTypes
    BY <1>1, <1>2, <1>6
  <2>3. QED
    BY <2>1, <2>2, DataSet
<1> HIDE DEF S, x, y, d, E, K
<1>8. /\ Forest(E, K) /\ Extends(d, K, E, K)
      /\ RootIn(d)[y] # x
      /\ \A i \in Items : RootIn(E)[i] = IF RootIn(d)[i] = x THEN RootIn(d)[y] ELSE RootIn(d)[i]
  <2>1. E[x].parent = y /\ E[x].est = e /\ E[x].rank = d[x].rank
    BY <1>6, <1>7
  <2>2. QED
    BY <1>2, <1>3, <1>5, <1>7, <2>1, AttachForest
<1>9. Extends(d, Known, E, K)
  <2>1. Known \subseteq K
    BY <1>2 DEF Extends
  <2>2. QED
    BY <1>8, <2>1, ExtendsOn
<1>10. \A n \in Split(m) : n \in Messages /\ n.op = "update" /\ TrueIn(E, K, n)
  <2>1. \A n \in Split(m) : n \in Messages /\ n.op = "update" /\ TrueIn(d, K, n)
    BY <1>1, SplitTrue DEF d, K
  <2>2. \A n \in Messages : TrueIn(d, K, n) /\ n.op \in WalkKinds \cup {"query", "find"} => TrueIn(E, K, n)
    BY <1>2, <1>8, StillTrue
  <2>3. QED
    BY <2>1, <2>2 DEF WalkKinds
<1>11. \A n \in T : n \in Messages /\ n.op = "resolve" /\ TrueIn(E, K, n)
  <2>1. SUFFICES ASSUME NEW n \in T PROVE n \in Messages /\ n.op = "resolve" /\ TrueIn(E, K, n)
    OBVIOUS
  <2>2. n = Resolve(y, x, d[x].rank) /\ Other(m).rank = d[x].rank
    BY <1>2, <1>3 DEF x, y, d
  <2>3. n.op = "resolve" /\ n.item = y /\ n.merging = x /\ n.rank = d[x].rank /\ n \in ResolveMessages
    BY <1>2, <1>3, <1>4, <2>2 DEF Resolve, ResolveMessages
  <2>4. y # x /\ E[y].rank = d[y].rank /\ E[x].parent = y
    <3>1. y # x
      BY <1>2, <1>3, <1>5, HigherOrder
    <3>2. QED
      BY <1>3, <1>6, <1>7, <3>1
  <2>5. AboveIn(E, y, x)
    BY <1>2, <1>8, <2>4, ParentAbove
  <2>6. d[x].rank <= E[y].rank
    BY <1>2, <1>3, <2>4, <2>5, <1>8, <1>6, <1>7, AboveOrder
  <2>7. ResolveIn(E, K, n)
    BY <1>5, <2>3, <2>5, <2>6 DEF ResolveIn
  <2>8. QED
    BY <2>3, <2>7 DEF TrueIn, Messages
<1>12. S \in SUBSET Messages /\ \A n \in S : n.op \in WalkKinds /\ TrueIn(E, K, n)
  BY <1>10, <1>11 DEF WalkKinds, S
<1>13. Walks'
  <2>1. NoWalks(S) /\ net' = Plus(Rest(m), S)
    BY <1>10, <1>11 DEF NoWalks, S
  <2>2. QED
    BY <1>1, <1>2, <2>1, WalkEnds
<1>14. IsABag(net') /\ Mail' \subseteq Mail \cup S
  BY <1>1, MailMoves DEF S
<1>15. verdict[m.call] = "open"
  BY <1>1, <1>2 DEF Walks
<1>16. DsInv'
  <2>1. /\ cache' \in [Ranks -> [Slots -> EntryTypes]] /\ verdict' \in [Calls -> {"none", "open", "joined", "same"}]
        /\ \A r \in Ranks : cache'[r] = cache[r]
    BY <1>1, <1>3 DEF Types
  <2>2. m.op \in WalkKinds /\ Trees' /\ Extends(Data, Known, Data', Known')
    BY <1>2, <1>8, <1>9 DEF WalkKinds, Trees, E, K, d
  <2>3. S \in SUBSET Messages /\ \A n \in S : n.op \in WalkKinds /\ TrueIn(Data', Known', n)
    BY <1>12 DEF E, K
  <2>4. QED
    BY <1>2, <1>7, <1>13, <1>14, <2>1, <2>2, <2>3, Handled
<1>17. Joined(m.call, RootIn(d), RootIn(E))
  <2> DEFINE R == RootIn(d)
             Q == RootIn(E)
             b == R[y]
             c == m.call
  <2>1. R[x] = x
    BY <1>2, <1>3, Roof
  <2>2. R[m.oparent] = b
    BY <1>2, <1>3, AtLeastOrder
  <2>3. /\ (R[x] = R[c.a] /\ R[m.oparent] = R[c.b]) \/ (R[x] = R[c.b] /\ R[m.oparent] = R[c.a])
    BY <1>3 DEF Sides, x
  <2>4. b # x /\ \A i \in Items : Q[i] = IF R[i] = x THEN b ELSE R[i]
    BY <1>8
  <2> HIDE DEF R, Q, b, c
  <2>5. x \in {R[c.a], R[c.b]} /\ b \in {R[c.a], R[c.b]} /\ R[c.a] # R[c.b]
    BY <2>1, <2>2, <2>3, <2>4
  <2>6. Joined(c, R, Q)
    BY <2>4, <2>5 DEF Joined
  <2>7. QED
    BY <2>6 DEF R, Q, c
<1>18. QED
  BY <1>3, <1>15, <1>16, <1>17 DEF Outcome, d, E

\* A step of a walk is one of these.
LEMMA WalkSteps ==
  ASSUME DsInv, NEW m \in Mail, WalkStep(m)
  PROVE  DsInv' /\ Outcome(m)
<1> DEFINE my == m.item
           d == data[my]
           up == WalkCache(cache[Owner[my]], d.parent, d.rank)
           other == WalkCache(cache[Owner[my]], m.oparent, m.orank)
           split == IF m.child = my THEN {}
                    ELSE {Update(m.child, my, up.item, IF m.call.exec THEN d.rank ELSE up.rank)}
           Go(n) == net' = Plus(Rest(m), split \cup {n}) /\ UNCHANGED <<data, verdict>>
           Attach(e, sent) == /\ data' = [data EXCEPT ![my] = WithParent(d, other.item, e)]
                              /\ net' = Plus(Rest(m), split \cup sent)
                              /\ verdict' = [verdict EXCEPT ![m.call] = "joined"]
           Onward == Walk(m.call, up.item, my, other.item, m.oitem, other.rank)
           Across(r) == Walk(m.call, other.item, m.oitem, up.item, my, r)
<1>1. /\ Visit(m, "walk") /\ UNCHANGED <<cache, compressed, todo, progVars, compVars>>
      /\ \/ /\ Met(up.item, other.item, m.oitem) /\ UNCHANGED data
            /\ verdict' = [verdict EXCEPT ![m.call] = "same"] /\ net' = Plus(Rest(m), split)
         \/ Go(Across(up.rank))
         \/ Go(Onward)
         \/ up.rank < other.rank /\ up.item = my /\ Attach(other.rank, {})
         \/ /\ up.rank = other.rank /\ up.item = my /\ my < other.item
            /\ Attach(d.rank, {Resolve(other.item, my, d.rank)})
         \/ up.rank = other.rank /\ up.item = my /\ Go(Across(d.rank))
  BY DEF WalkStep, AtRoot, MayMerge, EstOfTie
<1>2. up = Up(m) /\ other = Other(m) /\ split = Split(m)
  BY DEF Up, Other, Split
<1>3. UNCHANGED at /\ Trees
  BY <1>1 DEF progVars, DsInv
<1> DEFINE D == Data
           K == Known'
<1>4. /\ my \in Items /\ D[my] = d /\ Forest(D, K)
  BY <1>1, <1>3, Visited DEF WalkKinds
<1>5. /\ up.item \in Items /\ up.rank \in Nat /\ up.item \in K
      /\ AtLeastIn(D, up.item, my)
      /\ D[my].rank <= up.rank /\ up.rank <= D[up.item].rank
      /\ other.item \in Items /\ other.rank \in Guesses
      /\ AtLeastIn(D, other.item, m.oitem) /\ AtLeastIn(D, other.item, m.oparent)
      /\ other.rank <= D[other.item].rank
      /\ (other.rank >= 0 => other.item \in K)
      /\ m.oitem \in Items /\ m.oparent \in Items /\ m.call \in Calls /\ Sides(RootIn(D), m)
      /\ D[my] \in DataTypes
      /\ up.item = my => up.rank = D[my].rank
  <2> DEFINE u == Up(m)
             o == Other(m)
  <2>1. u = up /\ o = other
    BY <1>2
  <2> HIDE DEF up, other
  <2>2. /\ u.item \in Items /\ u.rank \in Nat /\ u.item \in K
        /\ AtLeastIn(D, u.item, my)
        /\ D[my].rank <= u.rank /\ u.rank <= D[u.item].rank
        /\ o.item \in Items /\ o.rank \in Guesses
        /\ AtLeastIn(D, o.item, m.oitem) /\ AtLeastIn(D, o.item, m.oparent)
        /\ o.rank <= D[o.item].rank
        /\ (o.rank >= 0 => o.item \in K)
        /\ m.oitem \in Items /\ m.oparent \in Items /\ m.call \in Calls /\ Sides(RootIn(D), m)
        /\ D[my] \in DataTypes
        /\ u.item = my => u.rank = D[my].rank
    BY <1>1, <1>3, WalkFinds
  <2> HIDE DEF D, K, my, u, o
  <2>3. QED
    BY <2>1, <2>2
<1>6. d.rank \in Nat /\ d.rank <= up.rank
  BY <1>4, <1>5 DEF DataTypes
<1> HIDE DEF D, K, up, other, split, d, my
<1>7. RootIn(D)[up.item] = RootIn(D)[my] /\ RootIn(D)[other.item] = RootIn(D)[m.oparent]
  BY <1>4, <1>5, AtLeastOrder
<1>8. ASSUME NEW r \in Nat, r <= up.rank, Go(Across(r))
      PROVE  DsInv' /\ Outcome(m)
  <2>1. D[up.item].rank \in Nat /\ r \in Guesses
    BY <1>4, <1>5 DEF Forest, DataTypes, Guesses
  <2>2. r <= D[up.item].rank
    BY <1>5, <1>8, <2>1
  <2>3. Across(r) \in Messages /\ Across(r).op = "walk" /\ Across(r).call = m.call /\ TrueIn(D, K, Across(r))
    BY <1>4, <1>5, <1>7, <2>1, <2>2, WalkTrue DEF my
  <2>4. QED
    BY <1>1, <1>2, <1>3, <1>8, <2>3, WalkGoes DEF D, K
<1>9. ASSUME Go(Onward) PROVE DsInv' /\ Outcome(m)
  <2>1. Onward \in Messages /\ Onward.op = "walk" /\ Onward.call = m.call /\ TrueIn(D, K, Onward)
    BY <1>4, <1>5, <1>7, WalkTrue DEF my
  <2>2. QED
    BY <1>1, <1>2, <1>3, <1>9, <2>1, WalkGoes DEF D, K
<1>10. CASE /\ Met(up.item, other.item, m.oitem) /\ UNCHANGED data
            /\ verdict' = [verdict EXCEPT ![m.call] = "same"] /\ net' = Plus(Rest(m), split)
  BY <1>1, <1>2, <1>10, WalkMeets
<1>11. CASE up.rank < other.rank /\ up.item = my /\ Attach(other.rank, {})
  <2>1. other.rank \in Nat
    BY <1>5, <1>11 DEF Guesses
  <2>2. QED
    BY <1>1, <1>2, <1>11, <2>1, WalkAttaches DEF my, d
<1>12. CASE /\ up.rank = other.rank /\ up.item = my /\ my < other.item
            /\ Attach(d.rank, {Resolve(other.item, my, d.rank)})
  BY <1>1, <1>2, <1>6, <1>12, WalkAttaches DEF my, d
<1>13. CASE Go(Across(up.rank))
  BY <1>5, <1>8, <1>13
<1>14. CASE up.rank = other.rank /\ up.item = my /\ Go(Across(d.rank))
  BY <1>5, <1>6, <1>8, <1>14
<1>15. QED
  BY <1>1, <1>9, <1>10, <1>11, <1>12, <1>13, <1>14

-----------------------------------------------------------------------------
(***************************************************************************)
(* Calls, barriers and clear().                                            *)
(***************************************************************************)
\* Where no parent changes, only what is sent is left to show.
LEMMA Unmoved ==
  ASSUME DsInv, Data' = Data, Known' = Known,
         \A r \in Ranks : ~Cleared(r)' => ~Cleared(r) /\ cache'[r] = cache[r],
         NEW S, Mail' \subseteq Mail \cup S, \A n \in S : TrueIn(Data, Known, n)
  PROVE  Trees' /\ Caches' /\ MailTrue'
<1>1. Trees'
  BY DEF DsInv, Trees
<1>2. Caches'
  BY DEF DsInv, Caches
<1>3. MailTrue'
  BY DEF DsInv, MailTrue
<1>4. QED
  BY <1>1, <1>2, <1>3

\* A union starts at items above its own two, as far as the cache says.
LEMMA Starting ==
  ASSUME DsInv, NEW c \in todo, StartWalk(c)
  PROVE  DsInv' /\ RootIn(Data') = RootIn(Data)
         /\ verdict[c] = "none" /\ verdict' = [verdict EXCEPT ![c] = "open"]
<1> DEFINE r == c.from
           mine == WalkCache(cache[r], c.a, -1)
           other == WalkCache(cache[r], c.b, -1)
           n == IF mine.rank <= other.rank
                  THEN Walk(c, mine.item, c.a, other.item, c.b, other.rank)
                  ELSE Walk(c, other.item, c.b, mine.item, c.a, mine.rank)
           d == Data
           K == Known
           ca == cache[r]
<1>1. /\ at[r] = "run" /\ todo' = todo \ {c}
      /\ verdict' = [verdict EXCEPT ![c] = "open"]
      /\ compressed' = [compressed EXCEPT ![r] = FALSE]
      /\ net' = Plus(net, {n})
      /\ UNCHANGED <<known, data, cache, op, at, ops, found, queries, waiting, held>>
  BY DEF StartWalk, progVars, compVars
<1>2. Types /\ Walks /\ Trees /\ Caches /\ Phases /\ Waits /\ Finds
  BY DEF DsInv
<1>3. c \in Calls /\ c.a \in Items /\ c.b \in Items /\ r \in Ranks
  BY <1>2, DisjointSetAssumption DEF Types
<1>4. ~Cleared(r) /\ CacheIn(d, K, ca) /\ Forest(d, K)
  BY <1>1, <1>2, <1>3 DEF Cleared, Caches, Trees
<1>5. Uniting /\ op = "none" /\ ~Compressing /\ \A q \in Ranks : at[q] # "last"
  BY <1>1, <1>2, <1>3 DEF Phases, Uniting, Compressing, Finding, All
<1>6. Data' = Data /\ Known' = Known /\ \A q \in Ranks : Cleared(q)' <=> Cleared(q)
  BY <1>1, DataKept DEF Known, Cleared
<1>7. n \in Messages /\ n.op = "walk" /\ n.call = c /\ TrueIn(d, K, n)
  <2>1. -1 \in Guesses /\ \A i \in Items : -1 <= d[i].rank
    BY <1>4 DEF Guesses, Forest, DataTypes
  <2> HIDE DEF d, K, ca
  <2>2. /\ mine.item \in Items /\ mine.rank \in Guesses /\ AtLeastIn(d, mine.item, c.a)
        /\ mine.rank <= d[mine.item].rank /\ (mine.rank >= 0 => mine.item \in K)
    BY <1>3, <1>4, <2>1, CacheWalk DEF ca
  <2>3. /\ other.item \in Items /\ other.rank \in Guesses /\ AtLeastIn(d, other.item, c.b)
        /\ other.rank <= d[other.item].rank /\ (other.rank >= 0 => other.item \in K)
    BY <1>3, <1>4, <2>1, CacheWalk DEF ca
  <2> HIDE DEF mine, other
  <2>4. RootIn(d)[mine.item] = RootIn(d)[c.a] /\ RootIn(d)[other.item] = RootIn(d)[c.b]
    BY <1>3, <1>4, <2>2, <2>3, AtLeastOrder
  <2> DEFINE w == Walk(c, mine.item, c.a, other.item, c.b, other.rank)
             o == Walk(c, other.item, c.b, mine.item, c.a, mine.rank)
             ia == c.a
             ib == c.b
  <2>5. w \in Messages /\ w.op = "walk" /\ w.call = c /\ TrueIn(d, K, w)
    <3>1. /\ w.op = "walk" /\ w.call = c /\ w.item = mine.item /\ w.child = c.a /\ w.oparent = other.item
          /\ w.oitem = c.b /\ w.orank = other.rank /\ w \in WalkMessages
      BY <1>3, <2>2, <2>3 DEF Walk, WalkMessages
    <3> HIDE DEF w
    <3>2. Sides(RootIn(d), w)
      BY <3>1, <2>4 DEF Sides
    <3>3. WalkIn(d, K, w)
      BY <2>2, <2>3, <3>1, <3>2 DEF WalkIn
    <3>4. QED
      BY <3>1, <3>3 DEF TrueIn, Messages
  <2>6. o \in Messages /\ o.op = "walk" /\ o.call = c /\ TrueIn(d, K, o)
    <3>1. /\ o.op = "walk" /\ o.call = c /\ o.item = other.item /\ o.child = c.b /\ o.oparent = mine.item
          /\ o.oitem = c.a /\ o.orank = mine.rank /\ o \in WalkMessages
      BY <1>3, <2>2, <2>3 DEF Walk, WalkMessages
    <3> HIDE DEF o
    <3>2. Sides(RootIn(d), o)
      BY <3>1, <2>4 DEF Sides
    <3>3. WalkIn(d, K, o)
      BY <2>2, <2>3, <3>1, <3>2 DEF WalkIn
    <3>4. QED
      BY <3>1, <3>3 DEF TrueIn, Messages
  <2> HIDE DEF w, o
  <2>7. n = w \/ n = o
    BY DEF w, o
  <2> HIDE DEF n
  <2>8. QED
    BY <2>5, <2>6, <2>7
<1> HIDE DEF n, d, K, ca
<1>0. PICK w : w = n
  OBVIOUS
<1>8. IsABag(net') /\ Mail' = Mail \cup {w} /\ w \in Messages /\ w.op = "walk" /\ w.call = c
      /\ net' = Plus(net, {w})
  <2>1. net' = Plus(net, {w})
    BY <1>0, <1>1
  <2>2. QED
    BY <1>0, <1>2, <1>7, <2>1, MailComes
<1>9. Trees' /\ Caches' /\ MailTrue'
  <2> DEFINE S == {w}
  <2>1. /\ Mail' \subseteq Mail \cup S
        /\ \A x \in S : TrueIn(Data, Known, x)
    BY <1>0, <1>7, <1>8 DEF d, K
  <2>2. \A q \in Ranks : ~Cleared(q)' => ~Cleared(q) /\ cache'[q] = cache[q]
    BY <1>1, <1>6
  <2> HIDE DEF S
  <2>3. QED
    BY <1>6, <2>1, <2>2, Unmoved
<1>10. Walks'
  BY <1>1, <1>2, <1>8, WalkBegins
<1>11. Types'
  <2>1. compressed' \in [Ranks -> BOOLEAN] /\ verdict' \in [Calls -> {"none", "open", "joined", "same"}]
    BY <1>1, <1>2, <1>3 DEF Types
  <2>2. Mail' \subseteq Messages
    BY <1>2, <1>8 DEF Types
  <2>3. QED
    BY <1>1, <1>2, <1>8, <2>1, <2>2 DEF Types
<1>12. Phases'
  <2>1. Uniting' /\ \A x \in Mail : Timely(x)'
    BY <1>1, <1>2, <1>5 DEF Uniting, Compressing, Finding, All, Phases, Timely
  <2>2. Timely(w)'
    BY <1>8, <2>1 DEF Timely, WalkKinds
  <2>3. QED
    BY <1>8, <2>1, <2>2 DEF Phases
<1>13. Waits' /\ Finds'
  <2>1. ~Compressing'
    BY <1>1, <1>5 DEF Compressing
  <2>2. \A q \in Ranks : found[q] = {}
    BY <1>2, <1>5 DEF Finds
  <2>3. QED
    BY <1>1, <2>1, <2>2 DEF Waits, Finds
<1>14. verdict[c] = "none"
  BY <1>2 DEF Walks
<1>15. QED
  BY <1>1, <1>6, <1>9, <1>10, <1>11, <1>12, <1>13, <1>14 DEF DsInv

\* Before and after a barrier and in between.
LEMMA Entering ==
  ASSUME DsInv, NEW o \in {"compress", "find", "clear"}, Enter(o)
  PROVE  DsInv' /\ RootIn(Data') = RootIn(Data)
<1>1. /\ op = "none" /\ ops > 0 /\ \A r \in Ranks : at[r] = "run"
      /\ op' = o /\ ops' = ops - 1 /\ at' = [r \in Ranks |-> "enter"]
      /\ UNCHANGED <<known, data, cache, compressed, net, todo, verdict, found, queries, waiting, held>>
  BY DEF Enter, compVars
<1>2. Types /\ Walks /\ Phases /\ Finds
  BY DEF DsInv
<1>3. Mail' = Mail
  BY <1>1 DEF Mail
<1>4. \A r \in Ranks : ~Cleared(r) /\ ~Cleared(r)'
  BY <1>1 DEF Cleared
<1>5. Data' = Data /\ Known' = Known
  BY <1>1, <1>2, <1>4, DisjointSetAssumption DEF Data, Known, Types
<1>6. Trees' /\ Caches' /\ MailTrue'
  <2> DEFINE S == {}
  <2>1. /\ Mail' \subseteq Mail \cup S
        /\ \A x \in S : TrueIn(Data, Known, x)
        /\ \A r \in Ranks : ~Cleared(r)' => ~Cleared(r) /\ cache'[r] = cache[r]
    BY <1>1, <1>3, <1>4
  <2> HIDE DEF S
  <2>2. QED
    BY <1>5, <2>1, Unmoved
<1>7. Walks'
  BY <1>1, <1>2, <1>3 DEF Walks
<1>8. Types'
  <2>1. at' \in [Ranks -> Places] /\ ops' \in Nat
    BY <1>1, <1>2 DEF Types, Places
  <2>2. QED
    BY <1>1, <1>2, <1>3, <2>1 DEF Types
<1>9. Phases'
  <2>1. Uniting' /\ \A x \in Mail : x.op \in WalkKinds
    BY <1>1, <1>2 DEF Phases, Timely, Uniting, Compressing, Finding, All
  <2>2. QED
    BY <1>3, <2>1 DEF Phases, Timely
<1>10. Waits' /\ Finds'
  <2>1. \A q \in Ranks : found[q] = {}
    BY <1>1, <1>2 DEF Finds
  <2>2. CASE Ranks = {}
    <3>1. Items = {}
      BY <2>2, DisjointSetAssumption
    <3>2. QED
      BY <1>1, <1>2, <2>2, <3>1 DEF Waits, Finds, Types
  <2>3. CASE Ranks # {}
    <3>1. ~Compressing'
      BY <1>1, <2>3 DEF Compressing
    <3>2. QED
      BY <1>1, <2>1, <3>1 DEF Waits, Finds
  <2>4. QED
    BY <2>2, <2>3
<1>11. QED
  BY <1>5, <1>6, <1>7, <1>8, <1>9, <1>10 DEF DsInv

\* The barrier at the end of an operation.
LEMMA Ending ==
  ASSUME DsInv, End
  PROVE  DsInv' /\ RootIn(Data') = RootIn(Data)
<1>1. /\ net = EmptyBag /\ \A r \in Ranks : at[r] = "last"
      /\ op' = "none" /\ at' = [r \in Ranks |-> "run"]
      /\ compressed' = IF op = "compress" THEN [r \in Ranks |-> TRUE] ELSE compressed
      /\ found' = [r \in Ranks |-> {}]
      /\ UNCHANGED <<known, data, cache, net, todo, verdict, ops, queries, waiting, held>>
  BY DEF End, InBarrier, All, compVars
<1>2. Types /\ Walks
  BY DEF DsInv
<1>3. Mail' = Mail
  BY <1>1 DEF Mail
<1>4. \A r \in Ranks : ~Cleared(r) /\ ~Cleared(r)'
  BY <1>1 DEF Cleared
<1>5. Data' = Data /\ Known' = Known
  BY <1>1, <1>2, <1>4, DisjointSetAssumption DEF Data, Known, Types
<1>6. Trees' /\ Caches' /\ MailTrue'
  <2> DEFINE S == {}
  <2>1. /\ Mail' \subseteq Mail \cup S
        /\ \A x \in S : TrueIn(Data, Known, x)
        /\ \A r \in Ranks : ~Cleared(r)' => ~Cleared(r) /\ cache'[r] = cache[r]
    BY <1>1, <1>3, <1>4
  <2> HIDE DEF S
  <2>2. QED
    BY <1>5, <2>1, Unmoved
<1>7. Walks'
  BY <1>1, <1>2, <1>3 DEF Walks
<1>8. Types'
  <2>1. at' \in [Ranks -> Places] /\ compressed' \in [Ranks -> BOOLEAN] /\ found' \in [Ranks -> SUBSET (Items \X Items)]
    BY <1>1, <1>2 DEF Types, Places
  <2>2. QED
    BY <1>1, <1>2, <1>3, <2>1 DEF Types
<1>9. Phases' /\ Waits' /\ Finds'
  <2>1. Uniting' /\ ~Compressing' /\ Mail' = {}
    BY <1>1 DEF Uniting, Compressing, Mail, BagToSet, EmptyBag, SetToBag
  <2>2. QED
    BY <1>1, <2>1 DEF Phases, Waits, Finds
<1>10. QED
  BY <1>5, <1>6, <1>7, <1>8, <1>9 DEF DsInv

\* An empty container is a forest of single items.
LEMMA Singles ==
  LET d == [i \in Items |-> New(i)]
  IN Forest(d, {}) /\ \A i \in Items : RootIn(d)[i] = i
<1> DEFINE d == [i \in Items |-> New(i)]
<1>1. \A i \in Items : d[i] = New(i) /\ d[i].parent = i /\ d[i].rank = 0 /\ d[i].est = 0
  BY DEF New
<1>2. d \in [Items -> DataTypes]
  BY DEF New, DataTypes
<1> HIDE DEF d
<1>3. Forest(d, {})
  BY <1>1, <1>2 DEF Forest
<1>4. \A i \in Items : RootIn(d)[i] = i
  BY <1>1, <1>3, Roof
<1>5. QED
  BY <1>3, <1>4 DEF d

\* The barrier at the start of an operation: the containers of clear() have no
\* items from here on.
LEMMA Beginning ==
  ASSUME DsInv, Begin
  PROVE  DsInv' /\ UNCHANGED verdict
         /\ \/ RootIn(Data') = RootIn(Data)
            \/ /\ \A c \in Calls : verdict[c] # "open"
               /\ \A i \in Items : RootIn(Data')[i] = i
<1>1. /\ op # "none" /\ net = EmptyBag /\ \A r \in Ranks : at[r] = "enter"
      /\ at' = [r \in Ranks |-> First(op, r)]
      /\ op' = IF \A r \in Ranks : at'[r] \in {"run", "wipe"} THEN "none" ELSE op
      /\ queries' = [r \in Ranks |-> NoQueries] /\ waiting' = {} /\ held' = NoQueries
      /\ UNCHANGED <<known, data, cache, compressed, net, todo, verdict, ops, found>>
  BY DEF Begin, InBarrier, All
<1>2. Types /\ Walks /\ Trees /\ Finds
  BY DEF DsInv
<1>3. Mail = {} /\ Mail' = {}
  BY <1>1 DEF Mail, BagToSet, EmptyBag, SetToBag
<1>4. \A r \in Ranks : ~Cleared(r) /\ found[r] = {}
  BY <1>1, <1>2 DEF Cleared, Finds
<1>5. /\ op = "compress" => \/ at' = [r \in Ranks |-> "run"]
                            \/ at' = [r \in Ranks |-> "prepare"]
      /\ op = "find" => at' = [r \in Ranks |-> "ask"]
      /\ op = "clear" => at' = [r \in Ranks |-> "wipe"]
      /\ op \in {"compress", "find", "clear"}
  <2>1. op \in {"compress", "find", "clear"}
    BY <1>1, <1>2 DEF Types
  <2>2. CASE op = "compress"
    <3>1. \A r \in Ranks : First(op, r) = IF NothingNew(r) THEN "run" ELSE "prepare"
      BY <2>2 DEF First
    <3>2. \/ \A r \in Ranks : NothingNew(r)
          \/ \A r \in Ranks : ~NothingNew(r)
      BY DEF NothingNew
    <3>3. \/ [r \in Ranks |-> First(op, r)] = [r \in Ranks |-> "run"]
          \/ [r \in Ranks |-> First(op, r)] = [r \in Ranks |-> "prepare"]
      BY <3>1, <3>2
    <3>4. QED
      BY <1>1, <2>2, <3>3
  <2>3. CASE op = "find"
    <3>1. \A r \in Ranks : First(op, r) = "ask"
      BY <2>3 DEF First
    <3>2. QED
      BY <1>1, <2>3, <3>1
  <2>4. CASE op = "clear"
    <3>1. \A r \in Ranks : First(op, r) = "wipe"
      BY <2>4 DEF First
    <3>2. QED
      BY <1>1, <2>4, <3>1
  <2>5. QED
    BY <2>1, <2>2, <2>3, <2>4
<1>6. Types'
  <2>1. at' \in [Ranks -> Places]
    BY <1>5 DEF Places
  <2>2. NoQueries \in [Items -> SUBSET Items] /\ NoQueries \in [Items -> SUBSET Ranks]
    BY DEF NoQueries
  <2>3. queries' \in [Ranks -> [Items -> SUBSET Items]] /\ held' \in [Items -> SUBSET Ranks]
    BY <1>1, <2>2
  <2>4. op' \in {"none", "compress", "find", "clear"}
    BY <1>1, <1>2 DEF Types
  <2>5. QED
    BY <1>1, <1>2, <1>3, <2>1, <2>3, <2>4 DEF Types
<1>7. Walks' /\ \A c \in Calls : verdict[c] # "open"
  BY <1>1, <1>2, <1>3 DEF Walks
<1>8. Phases'
  <2>1. Uniting' \/ Compressing' \/ Finding'
    BY <1>1, <1>5 DEF Uniting, Compressing, Finding, All
  <2>2. QED
    BY <1>3, <2>1 DEF Phases
<1>9. Waits'
  <2>1. SUFFICES ASSUME Compressing' PROVE Waits'
    BY DEF Waits
  <2>2. \A r \in Ranks : at'[r] = "prepare"
    BY <1>1, <1>5, <2>1 DEF Compressing
  <2>3. \A r \in Ranks : \A p \in Items : queries'[r][p] = {}
    BY <1>1 DEF NoQueries
  <2>4. \A p \in Items : held'[p] = {}
    BY <1>1 DEF NoQueries
  <2>5. QED
    BY <1>1, <2>2, <2>3, <2>4, DisjointSetAssumption DEF Waits
<1>10. Finds'
  BY <1>1, <1>4 DEF Finds
<1>11. /\ Trees' /\ Caches' /\ MailTrue'
       /\ RootIn(Data') = RootIn(Data) \/ \A i \in Items : RootIn(Data')[i] = i
  <2>1. CASE \A r \in Ranks : ~Cleared(r)'
    <3>1. Data' = Data /\ Known' = Known
      BY <1>1, <1>2, <1>4, <2>1, DisjointSetAssumption DEF Data, Known, Types
    <3> DEFINE S == {}
    <3>2. /\ Mail' \subseteq Mail \cup S
          /\ \A x \in S : TrueIn(Data, Known, x)
          /\ \A r \in Ranks : ~Cleared(r)' => ~Cleared(r) /\ cache'[r] = cache[r]
      BY <1>1, <1>3, <1>4
    <3> HIDE DEF S
    <3>3. Trees' /\ Caches' /\ MailTrue'
      BY <3>1, <3>2, Unmoved
    <3>4. QED
      BY <3>1, <3>3
  <2>2. CASE \A r \in Ranks : Cleared(r)'
    <3>1. \A i \in Items : Cleared(Owner[i])'
      BY <2>2, DisjointSetAssumption
    <3>2. Data' = [i \in Items |-> New(i)]
      BY <3>1 DEF Data
    <3>3. Known' = {}
      BY <1>1, <1>2, <3>1 DEF Known, Types
    <3>4. Trees' /\ \A i \in Items : RootIn(Data')[i] = i
      BY <3>2, <3>3, Singles DEF Trees
    <3>5. QED
      BY <1>3, <2>2, <3>4 DEF Caches, MailTrue
  <2>3. QED
    BY <1>5, <2>1, <2>2 DEF Cleared
<1>12. QED
  BY <1>1, <1>6, <1>7, <1>8, <1>9, <1>10, <1>11 DEF DsInv

\* A rank that clears what it holds does what was said of it already.
LEMMA Wiping ==
  ASSUME DsInv, NEW r \in Ranks, Wipe(r)
  PROVE  DsInv' /\ RootIn(Data') = RootIn(Data)
<1>1. /\ at[r] = "wipe" /\ at' = [at EXCEPT ![r] = "run"]
      /\ known' = {i \in known : Owner[i] # r}
      /\ data' = [i \in Items |-> IF Owner[i] = r THEN New(i) ELSE data[i]]
      /\ cache' = [cache EXCEPT ![r] = [s \in Slots |-> Unoccupied]]
      /\ UNCHANGED <<compressed, net, todo, verdict, op, ops, found, queries, waiting, held>>
  BY DEF Wipe, Goto, compVars
<1>2. Types /\ Walks /\ Finds /\ Phases
  BY DEF DsInv
<1>3. Mail' = Mail
  BY <1>1 DEF Mail
<1>4. /\ at'[r] = "run" /\ \A q \in Ranks : q # r => at'[q] = at[q]
      /\ \A q \in Ranks : Cleared(q)' <=> (q # r /\ Cleared(q))
  BY <1>1, <1>2 DEF Types, Cleared
<1>5. Cleared(r)
  BY <1>1 DEF Cleared
<1>6. Data' = Data /\ Known' = Known
  <2>1. \A i \in Items : Owner[i] \in Ranks
    BY DisjointSetAssumption
  <2>2. Data' = [i \in Items |-> IF Cleared(Owner[i])' THEN New(i) ELSE data'[i]]
    BY DEF Data
  <2>3. Data' = Data
    BY <1>1, <1>4, <1>5, <2>1, <2>2 DEF Data
  <2>4. Known' = {i \in known' : ~Cleared(Owner[i])'}
    BY DEF Known
  <2>5. Known' = Known
    BY <1>1, <1>2, <1>4, <1>5, <2>1, <2>4 DEF Known, Types
  <2>6. QED
    BY <2>3, <2>5
<1>7. Uniting /\ op = "none" /\ Uniting'
  BY <1>1, <1>2, <1>4 DEF Phases, Uniting, Compressing, Finding, All
<1>8. /\ cache' \in [Ranks -> [Slots -> EntryTypes]]
      /\ cache'[r] = [s \in Slots |-> Unoccupied]
      /\ \A q \in Ranks : q # r => cache'[q] = cache[q]
  BY <1>1, <1>2 DEF Types, EntryTypes
<1>9. Caches'
  <2>1. ASSUME NEW q \in Ranks, ~Cleared(q)' PROVE CacheIn(Data, Known, cache'[q])
    <3>1. CASE q = r
      BY <1>8, <3>1 DEF CacheIn, EntryTypes
    <3>2. CASE q # r
      BY <1>4, <1>8, <2>1, <3>2 DEF DsInv, Caches
    <3>3. QED
      BY <3>1, <3>2
  <2>2. QED
    BY <1>6, <2>1 DEF Caches
<1>10. Trees' /\ MailTrue'
  BY <1>3, <1>6 DEF DsInv, Trees, MailTrue
<1>11. Walks'
  BY <1>1, <1>2, <1>3 DEF Walks
<1>12. Types'
  <2>1. at' \in [Ranks -> Places] /\ known' \subseteq Items
    BY <1>1, <1>2 DEF Types, Places
  <2>2. data' \in [Items -> DataTypes]
    <3>1. \A i \in Items : New(i) \in DataTypes
      BY DEF New, DataTypes
    <3>2. QED
      BY <1>1, <1>2, <3>1 DEF Types
  <2>3. QED
    BY <1>1, <1>2, <1>3, <1>8, <2>1, <2>2 DEF Types
<1>13. Phases' /\ Waits' /\ Finds'
  <2>1. ~Compressing' /\ ~Compressing /\ ~Finding
    BY <1>1, <1>7 DEF Compressing, Finding
  <2>2. \A q \in Ranks : found[q] = {}
    BY <1>2, <1>7 DEF Finds
  <2>3. Phases'
    BY <1>2, <1>3, <1>7, <2>1 DEF Phases, Timely
  <2>4. QED
    BY <1>1, <2>1, <2>2, <2>3 DEF Waits, Finds
<1>14. QED
  BY <1>6, <1>9, <1>10, <1>11, <1>12, <1>13 DEF DsInv

-----------------------------------------------------------------------------
(***************************************************************************)
(* all_compress.                                                           *)
(***************************************************************************)
\* In an operation that has begun no rank clears, and what is in flight belongs to it.
LEMMA Begun ==
  ASSUME DsInv, NEW r \in Ranks, at[r] \in {"prepare", "fence", "ask"}
  PROVE  /\ ~Uniting
         /\ at[r] # "ask" => Compressing /\ Waits /\ ~Finding
         /\ at[r] = "ask" => Finding /\ ~Compressing
         /\ \A q \in Ranks : ~Cleared(q)
         /\ \A m \in Mail : m.op \notin WalkKinds
<1>1. Phases
  BY DEF DsInv
<1>2. ~Uniting
  BY DEF Uniting, All
<1>3. QED
  BY <1>1, <1>2 DEF Phases, Timely, Uniting, Compressing, Finding, Cleared, WalkKinds, All, DsInv

\* Where no rank is about to clear, Data and Known are what the ranks have.
LEMMA Uncleared ==
  ASSUME Types, \A q \in Ranks : ~Cleared(q)
  PROVE  Data = data /\ Known = known
<1>1. \A i \in Items : ~Cleared(Owner[i])
  BY DisjointSetAssumption
<1>2. QED
  BY <1>1 DEF Data, Known, Types

\* A rank that lists who waits for which root.
LEMMA Preparing ==
  ASSUME DsInv, NEW r \in Ranks, Prepare(r)
  PROVE  DsInv' /\ RootIn(Data') = RootIn(Data)
<1> DEFINE mine == {i \in known : Owner[i] = r /\ data[i].parent # i}
<1>1. /\ at[r] = "prepare" /\ at' = [at EXCEPT ![r] = "fence"]
      /\ queries' = [queries EXCEPT ![r] = [p \in Items |-> {i \in mine : data[i].parent = p}]]
      /\ waiting' = waiting \cup mine
      /\ UNCHANGED <<known, data, cache, compressed, net, todo, verdict, op, ops, held, found>>
  BY DEF Prepare, Goto
<1>2. Types /\ Walks /\ Finds /\ Phases /\ Trees
  BY DEF DsInv
<1>3. ~Uniting /\ Compressing /\ Waits /\ ~Finding /\ \A q \in Ranks : ~Cleared(q)
  BY <1>1, Begun
<1>4. Mail' = Mail
  BY <1>1 DEF Mail
<1>5. /\ at'[r] = "fence" /\ \A q \in Ranks : q # r => at'[q] = at[q]
      /\ \A q \in Ranks : ~Cleared(q)'
  <2>1. at'[r] = "fence" /\ \A q \in Ranks : q # r => at'[q] = at[q]
    BY <1>1, <1>2 DEF Types
  <2>2. QED
    BY <1>3, <2>1 DEF Cleared
<1>6. Data = data /\ Known = known /\ Data' = Data /\ Known' = Known
  <2>1. Data = data /\ Known = known
    BY <1>2, <1>3, Uncleared
  <2>2. \A i \in Items : ~Cleared(Owner[i])'
    BY <1>5, DisjointSetAssumption
  <2>3. Data' = data' /\ Known' = known'
    BY <1>1, <1>2, <2>2 DEF Data, Known, Types
  <2>4. QED
    BY <1>1, <2>1, <2>3
<1>7. Mail = {}
  BY <1>1, <1>2, <1>3 DEF Phases, Timely
<1>8. Trees' /\ Caches' /\ MailTrue'
  <2> DEFINE S == {}
  <2>1. /\ Mail' \subseteq Mail \cup S
        /\ \A x \in S : TrueIn(Data, Known, x)
        /\ \A q \in Ranks : ~Cleared(q)' => ~Cleared(q) /\ cache'[q] = cache[q]
    BY <1>1, <1>3, <1>4
  <2> HIDE DEF S
  <2>2. QED
    BY <1>6, <2>1, Unmoved
<1>9. Walks'
  BY <1>1, <1>2, <1>4 DEF Walks
<1>10. /\ \A p \in Items : queries'[r][p] = {i \in mine : data[i].parent = p}
       /\ \A q \in Ranks : q # r => queries'[q] = queries[q]
       /\ queries' \in [Ranks -> [Items -> SUBSET Items]]
  <2> DEFINE g == [p \in Items |-> {i \in mine : data[i].parent = p}]
  <2>1. mine \subseteq Items
    BY <1>2 DEF Types
  <2>2. g \in [Items -> SUBSET Items] /\ \A p \in Items : g[p] = {i \in mine : data[i].parent = p}
    BY <2>1
  <2> HIDE DEF g
  <2>3. queries' = [queries EXCEPT ![r] = g]
    BY <1>1 DEF g
  <2>4. QED
    BY <1>2, <2>2, <2>3 DEF Types
<1>11. Types'
  <2>1. at' \in [Ranks -> Places] /\ waiting' \subseteq Items
    BY <1>1, <1>2 DEF Types, Places
  <2>2. QED
    BY <1>1, <1>2, <1>4, <1>10, <2>1 DEF Types
<1>12. Phases' /\ Compressing'
  <2>1. Compressing'
    BY <1>1, <1>3, <1>5 DEF Compressing
  <2>2. QED
    BY <1>4, <1>7, <2>1 DEF Phases
<1>13. Finds'
  <2>1. \A q \in Ranks : found[q] = {}
    BY <1>2, <1>3 DEF Finds, Compressing
  <2>2. QED
    BY <1>1, <2>1 DEF Finds
<1>14. Waits'
  <2> DEFINE R == RootIn(Data)
  <2>1. /\ \A i \in waiting : at[Owner[i]] # "prepare" /\ i \in queries[Owner[i]][Data[i].parent]
        /\ \A q \in Ranks : \A p \in Items :
             /\ \A i \in queries[q][p] : Data[i].parent = p /\ p # i /\ Owner[i] = q
             /\ queries[q][p] # {} /\ at[q] = "last" => Asked(q, p)
        /\ \A i \in Items : at[Owner[i]] # "prepare" /\ i \notin waiting => R[i] = Data[i].parent
        /\ \A p \in Items : held[p] # {} => p \in waiting
    BY <1>3 DEF Waits
  <2>2. \A q \in Ranks, p \in Items : Asked(q, p)' <=> Asked(q, p)
    BY <1>1, <1>4 DEF Asked
  <2>3. \A i \in Items : Owner[i] \in Ranks /\ Data[i].parent \in Items
    BY <1>2, View DEF DataTypes
  <2> HIDE DEF R
  <2>4. \A i \in waiting' : at'[Owner[i]] # "prepare" /\ i \in queries'[Owner[i]][Data[i].parent]
    <3>1. TAKE i \in waiting'
    <3>2. i \in Items
      BY <1>11 DEF Types
    <3>3. CASE i \in mine
      BY <1>5, <1>6, <1>10, <2>3, <3>2, <3>3
    <3>4. CASE i \in waiting
      <4>1. Owner[i] # r
        BY <1>1, <2>1, <3>4
      <4>2. QED
        BY <1>5, <1>10, <2>1, <2>3, <3>2, <3>4, <4>1
    <3>5. QED
      BY <1>1, <3>3, <3>4
  <2>5. ASSUME NEW q \in Ranks, NEW p \in Items
        PROVE  /\ \A i \in queries'[q][p] : Data[i].parent = p /\ p # i /\ Owner[i] = q
               /\ queries'[q][p] # {} /\ at'[q] = "last" => Asked(q, p)'
    <3>1. CASE q = r
      BY <1>5, <1>6, <1>10, <3>1
    <3>2. CASE q # r
      BY <1>5, <1>10, <2>1, <2>2, <3>2
    <3>3. QED
      BY <3>1, <3>2
  <2>6. ASSUME NEW i \in Items, at'[Owner[i]] # "prepare", i \notin waiting' PROVE R[i] = Data[i].parent
    <3>1. CASE Owner[i] = r
      <4>1. i \notin Known \/ Data[i].parent = i
        BY <1>1, <1>6, <2>6, <3>1
      <4>2. Data[i].parent = i
        BY <1>2, <4>1 DEF Trees, Forest, New
      <4>3. R[i] = i
        BY <1>2, <4>2, Roof DEF R, Trees
      <4>4. QED
        BY <4>2, <4>3
    <3>2. CASE Owner[i] # r
      BY <1>1, <1>5, <2>1, <2>3, <2>6, <3>2
    <3>3. QED
      BY <3>1, <3>2
  <2>7. \A p \in Items : held'[p] # {} => p \in waiting'
    BY <1>1, <2>1
  <2>8. QED
    BY <1>6, <2>4, <2>5, <2>6, <2>7 DEF Waits, R
<1>15. QED
  BY <1>6, <1>8, <1>9, <1>11, <1>12, <1>13, <1>14 DEF DsInv

\* A rank that asks for the roots: from here the answers are to come.
LEMMA Asking ==
  ASSUME DsInv, NEW r \in Ranks, AskRoots(r)
  PROVE  DsInv' /\ RootIn(Data') = RootIn(Data)
<1> DEFINE S == {Query(p, r) : p \in {p \in Items : queries[r][p] # {}}}
<1>1. /\ at[r] = "fence" /\ \A q \in Ranks : at[q] # "prepare"
      /\ net' = Plus(net, S) /\ at' = [at EXCEPT ![r] = "last"]
      /\ UNCHANGED <<known, data, cache, compressed, todo, verdict, op, ops, found, queries, waiting, held>>
  BY DEF AskRoots, Goto, compVars
<1>2. Types /\ Walks /\ Finds /\ Phases /\ Trees
  BY DEF DsInv
<1>3. ~Uniting /\ Compressing /\ Waits /\ ~Finding /\ \A q \in Ranks : ~Cleared(q)
  BY <1>1, Begun
<1>4. \A n \in S : \E p \in Items : n = Query(p, r)
  OBVIOUS
<1>5. \A n \in S : n \in QueryMessages /\ n.op = "query"
  BY <1>4 DEF Query, QueryMessages
<1>6. /\ at'[r] = "last" /\ \A q \in Ranks : q # r => at'[q] = at[q]
      /\ \A q \in Ranks : ~Cleared(q)'
  <2>1. at'[r] = "last" /\ \A q \in Ranks : q # r => at'[q] = at[q]
    BY <1>1, <1>2 DEF Types
  <2>2. QED
    BY <1>3, <2>1 DEF Cleared
<1>7. Data' = Data /\ Known' = Known
  <2>1. Data = data /\ Known = known
    BY <1>2, <1>3, Uncleared
  <2>2. \A i \in Items : ~Cleared(Owner[i])'
    BY <1>6, DisjointSetAssumption
  <2>3. Data' = data' /\ Known' = known'
    BY <1>1, <1>2, <2>2 DEF Data, Known, Types
  <2>4. QED
    BY <1>1, <2>1, <2>3
<1>8. \A p \in Items : queries[r][p] # {} => Query(p, r) \in S
  OBVIOUS
<1>0. PICK T : T = S
  OBVIOUS
<1> HIDE DEF S
<1>9. IsABag(net') /\ Mail' = Mail \cup T
  BY <1>0, <1>1, <1>2, MailComes
<1>10. Trees' /\ Caches' /\ MailTrue'
  <2>1. \A x \in T : TrueIn(Data, Known, x)
    BY <1>0, <1>5 DEF TrueIn
  <2>2. \A q \in Ranks : ~Cleared(q)' => ~Cleared(q) /\ cache'[q] = cache[q]
    BY <1>1, <1>3
  <2>3. QED
    BY <1>7, <1>9, <2>1, <2>2, Unmoved
<1>11. Walks'
  <2>1. NoWalks(T) /\ UNCHANGED <<todo, verdict>> /\ net' = Plus(net, T)
    BY <1>0, <1>1, <1>5 DEF NoWalks
  <2>2. QED
    BY <1>2, <2>1, WalksStay
<1>12. Types'
  <2>1. at' \in [Ranks -> Places]
    BY <1>1, <1>2 DEF Types, Places
  <2>2. Mail' \subseteq Messages
    BY <1>0, <1>2, <1>5, <1>9 DEF Types, Messages
  <2>3. QED
    BY <1>1, <1>2, <1>9, <2>1, <2>2 DEF Types
<1>13. Compressing' /\ Phases'
  <2>1. Compressing' /\ \A q \in Ranks : at'[q] # "prepare"
    BY <1>1, <1>3, <1>6 DEF Compressing
  <2>2. \A x \in Mail : Timely(x)'
    BY <1>2, <1>3, <2>1 DEF Phases, Timely
  <2>3. \A x \in T : Timely(x)'
    BY <1>0, <1>5, <2>1 DEF Timely
  <2>4. QED
    BY <1>9, <2>1, <2>2, <2>3 DEF Phases
<1>14. Finds'
  <2>1. \A q \in Ranks : found[q] = {}
    BY <1>2, <1>3 DEF Finds, Compressing
  <2>2. QED
    BY <1>1, <2>1 DEF Finds
<1>15. Waits'
  <2> DEFINE R == RootIn(Data)
  <2>1. /\ \A i \in waiting : at[Owner[i]] # "prepare" /\ i \in queries[Owner[i]][Data[i].parent]
        /\ \A q \in Ranks : \A p \in Items :
             /\ \A i \in queries[q][p] : Data[i].parent = p /\ p # i /\ Owner[i] = q
             /\ queries[q][p] # {} /\ at[q] = "last" => Asked(q, p)
        /\ \A i \in Items : at[Owner[i]] # "prepare" /\ i \notin waiting => R[i] = Data[i].parent
        /\ \A p \in Items : held[p] # {} => p \in waiting
    BY <1>3 DEF Waits
  <2>2. \A q \in Ranks, p \in Items : Asked(q, p) => Asked(q, p)'
    BY <1>1, <1>9 DEF Asked
  <2>3. \A p \in Items : queries[r][p] # {} => Asked(r, p)'
    BY <1>0, <1>8, <1>9 DEF Asked
  <2>4. \A i \in Items : Owner[i] \in Ranks
    BY DisjointSetAssumption
  <2>5. waiting \subseteq Items
    BY <1>2 DEF Types
  <2> HIDE DEF R
  <2>6. \A i \in waiting' : at'[Owner[i]] # "prepare" /\ i \in queries'[Owner[i]][Data[i].parent]
    BY <1>1, <1>6, <2>1, <2>4, <2>5
  <2>7. ASSUME NEW q \in Ranks, NEW p \in Items
        PROVE  /\ \A i \in queries'[q][p] : Data[i].parent = p /\ p # i /\ Owner[i] = q
               /\ queries'[q][p] # {} /\ at'[q] = "last" => Asked(q, p)'
    BY <1>1, <1>6, <2>1, <2>2, <2>3
  <2>8. \A i \in Items : at'[Owner[i]] # "prepare" /\ i \notin waiting' => R[i] = Data[i].parent
    BY <1>1, <2>1, <2>4
  <2>9. QED
    BY <1>1, <1>7, <2>1, <2>6, <2>7, <2>8 DEF Waits, R
<1>16. QED
  BY <1>7, <1>10, <1>11, <1>12, <1>13, <1>14, <1>15 DEF DsInv

\* While items are compressed.
LEMMA Compresses ==
  ASSUME DsInv, NEW m \in Mail, m.op \in {"query", "rep"}
  PROVE  /\ Compressing /\ Waits /\ ~Uniting /\ ~Finding
         /\ \A q \in Ranks : at[q] # "prepare" /\ ~Cleared(q) /\ found[q] = {}
         /\ \A x \in Mail : x.op \in {"query", "rep"}
         /\ Data = data /\ Known = known /\ Ranks # {}
         /\ Fields(m) /\ TrueIn(Data, Known, m)
<1>1. Phases /\ Types /\ Waits /\ Finds /\ MailTrue
  BY DEF DsInv
<1>2. Compressing /\ \A q \in Ranks : at[q] # "prepare"
  BY <1>1 DEF Phases, Timely, WalkKinds
<1>3. Fields(m)
  BY <1>1, MessageFields DEF Types
<1>4. Ranks # {}
  BY <1>3 DEF Fields, QueryMessages, RepMessages
<1>5. ~Uniting /\ ~Finding
  BY <1>2, <1>4 DEF Uniting, Compressing, Finding, All
<1>6. \A q \in Ranks : ~Cleared(q) /\ found[q] = {}
  BY <1>1, <1>2 DEF Compressing, Cleared, Finds
<1>7. \A x \in Mail : x.op \in {"query", "rep"}
  BY <1>1, <1>5 DEF Phases, Timely
<1>8. Data = data /\ Known = known
  BY <1>1, <1>6, Uncleared
<1>9. QED
  BY <1>1, <1>2, <1>3, <1>4, <1>5, <1>6, <1>7, <1>8 DEF MailTrue

\* query_rep_lambda answers with a parent that is a root, or holds the answer back.
LEMMA Querying ==
  ASSUME DsInv, NEW m \in Mail, HandleQuery(m)
  PROVE  DsInv' /\ RootIn(Data') = RootIn(Data)
<1> DEFINE p == m.item
           S == IF p \in waiting THEN {} ELSE {Rep(m.from, p, data[p].parent)}
<1>1. /\ m.op = "query"
      /\ IF p \in waiting
           THEN held' = [held EXCEPT ![p] = held[p] \cup {m.from}] /\ net' = Rest(m)
           ELSE net' = Plus(Rest(m), {Rep(m.from, p, data[p].parent)}) /\ held' = held
      /\ UNCHANGED <<known, data, cache, compressed, todo, verdict, op, at, ops, found, queries, waiting>>
  BY DEF HandleQuery, progVars
<1>2. Types /\ Walks /\ Finds /\ Phases /\ Trees
  BY DEF DsInv
<1>3. /\ Compressing /\ Waits
      /\ \A q \in Ranks : at[q] # "prepare" /\ ~Cleared(q) /\ found[q] = {}
      /\ Data = data /\ Known = known /\ Fields(m)
  BY <1>1, Compresses
<1>4. p \in Items /\ m.from \in Ranks /\ m = Query(p, m.from)
  BY <1>1, <1>3 DEF Fields, QueryMessages, Query
<1>5. Data' = Data /\ Known' = Known
  BY <1>1, DataKept DEF Known, Cleared
<1>6. /\ \A i \in waiting : at[Owner[i]] # "prepare" /\ i \in queries[Owner[i]][Data[i].parent]
      /\ \A q \in Ranks : \A x \in Items :
           /\ \A i \in queries[q][x] : Data[i].parent = x /\ x # i /\ Owner[i] = q
           /\ queries[q][x] # {} /\ at[q] = "last" => Asked(q, x)
      /\ \A i \in Items : at[Owner[i]] # "prepare" /\ i \notin waiting => RootIn(Data)[i] = Data[i].parent
      /\ \A x \in Items : held[x] # {} => x \in waiting
  BY <1>3 DEF Waits
<1>7. \A n \in S : n \in RepMessages /\ n.op = "rep" /\ n.rep = RootIn(Data)[n.parent]
  <2>1. SUFFICES ASSUME p \notin waiting, NEW n, n = Rep(m.from, p, data[p].parent)
                 PROVE  n \in RepMessages /\ n.op = "rep" /\ n.rep = RootIn(Data)[n.parent]
    OBVIOUS
  <2>2. at[Owner[p]] # "prepare" /\ data[p].parent \in Items
    BY <1>2, <1>3, <1>4, View DEF Types, DataTypes
  <2>3. RootIn(Data)[p] = data[p].parent
    BY <1>3, <1>4, <1>6, <2>1, <2>2
  <2>4. QED
    BY <1>4, <2>1, <2>2, <2>3 DEF Rep, RepMessages
<1>8. /\ held' \in [Items -> SUBSET Ranks] /\ \A x \in Items : held[x] \subseteq held'[x]
      /\ \A x \in Items : x # p => held'[x] = held[x]
      /\ p \in waiting => m.from \in held'[p]
      /\ p \notin waiting => held' = held
  <2> DEFINE h == held[p] \cup {m.from}
  <2>1. held \in [Items -> SUBSET Ranks] /\ h \in SUBSET Ranks /\ held[p] \subseteq h /\ m.from \in h
    BY <1>2, <1>4 DEF Types
  <2>2. held' = [held EXCEPT ![p] = h] \/ (p \notin waiting /\ held' = held)
    BY <1>1
  <2>3. p \notin waiting => held' = held
    BY <1>1
  <2> HIDE DEF h, p
  <2>4. QED
    BY <1>4, <2>1, <2>2, <2>3
<1>9. p \notin waiting => Rep(m.from, p, data[p].parent) \in S
  OBVIOUS
<1>0. PICK T : T = S
  OBVIOUS
<1>10. (net' = Rest(m) /\ T = {}) \/ net' = Plus(Rest(m), T)
  BY <1>0, <1>1
<1> HIDE DEF S
<1>11. IsABag(net') /\ Mail' \subseteq Mail \cup T /\ Mail \ {m} \subseteq Mail' /\ T \subseteq Mail'
  <2>1. CASE net' = Rest(m) /\ T = {}
    BY <1>2, <2>1, MailGoes
  <2>2. CASE net' = Plus(Rest(m), T)
    BY <1>2, <2>2, MailMoves
  <2>3. QED
    BY <1>10, <2>1, <2>2
<1>12. Trees' /\ Caches' /\ MailTrue'
  <2>1. \A x \in T : TrueIn(Data, Known, x)
    BY <1>0, <1>7 DEF TrueIn
  <2>2. \A q \in Ranks : ~Cleared(q)' => ~Cleared(q) /\ cache'[q] = cache[q]
    BY <1>1 DEF Cleared
  <2>3. QED
    BY <1>5, <1>11, <2>1, <2>2, Unmoved
<1>13. Walks'
  <2>1. NoWalks(T) /\ UNCHANGED <<todo, verdict>>
    BY <1>0, <1>1, <1>7 DEF NoWalks
  <2>2. QED
    BY <1>1, <1>2, <1>10, <2>1, WalksStay
<1>14. Types'
  <2>1. Mail' \subseteq Messages
    BY <1>0, <1>2, <1>7, <1>11 DEF Types, Messages
  <2>2. QED
    BY <1>1, <1>2, <1>8, <1>11, <2>1 DEF Types
<1>15. Compressing' /\ Phases'
  <2>1. Compressing' /\ \A q \in Ranks : at'[q] # "prepare"
    BY <1>1, <1>3 DEF Compressing
  <2>2. \A x \in Mail : Timely(x)'
    BY <1>1, Compresses, <2>1 DEF Timely
  <2>3. \A x \in T : Timely(x)'
    BY <1>0, <1>7, <2>1 DEF Timely
  <2>4. QED
    BY <1>11, <2>1, <2>2, <2>3 DEF Phases
<1>16. Finds'
  BY <1>1, <1>3 DEF Finds
<1>17. Waits'
  <2>1. ASSUME NEW q \in Ranks, NEW x \in Items, Asked(q, x) PROVE Asked(q, x)'
    <3>1. CASE q = m.from /\ x = p
      <4>1. CASE p \in waiting
        BY <1>8, <3>1, <4>1 DEF Asked
      <4>2. CASE p \notin waiting
        <5>1. Rep(q, x, data[p].parent) \in Mail' /\ data[p].parent \in Items
          BY <1>0, <1>2, <1>4, <1>9, <1>11, <3>1, <4>2 DEF Types, DataTypes
        <5>2. QED
          BY <5>1 DEF Asked
      <4>3. QED
        BY <4>1, <4>2
    <3>2. CASE ~(q = m.from /\ x = p)
      <4>1. Query(x, q) # m
        <5>1. Query(x, q).item = x /\ Query(x, q).from = q
          BY DEF Query
        <5>2. QED
          BY <3>2, <5>1
      <4>2. \A y \in Items : Rep(q, x, y) # m
        <5>1. \A y \in Items : Rep(q, x, y).op = "rep"
          BY DEF Rep
        <5>2. QED
          BY <1>1, <5>1
      <4>3. Query(x, q) \in Mail => Query(x, q) \in Mail'
        BY <1>11, <4>1
      <4>4. \A y \in Items : Rep(q, x, y) \in Mail => Rep(q, x, y) \in Mail'
        BY <1>11, <4>2
      <4>5. q \in held[x] => q \in held'[x]
        BY <1>8
      <4>6. QED
        BY <2>1, <4>3, <4>4, <4>5 DEF Asked
    <3>3. QED
      BY <3>1, <3>2
  <2> DEFINE R == RootIn(Data)
  <2> HIDE DEF R
  <2>2. \A i \in waiting' : at'[Owner[i]] # "prepare" /\ i \in queries'[Owner[i]][Data[i].parent]
    BY <1>1, <1>6
  <2>3. ASSUME NEW q \in Ranks, NEW x \in Items
        PROVE  /\ \A i \in queries'[q][x] : Data[i].parent = x /\ x # i /\ Owner[i] = q
               /\ queries'[q][x] # {} /\ at'[q] = "last" => Asked(q, x)'
    BY <1>1, <1>6, <2>1
  <2>4. \A i \in Items : at'[Owner[i]] # "prepare" /\ i \notin waiting' => R[i] = Data[i].parent
    BY <1>1, <1>6 DEF R
  <2>5. \A x \in Items : held'[x] # {} => x \in waiting'
    BY <1>1, <1>6, <1>8
  <2>6. QED
    BY <1>5, <2>2, <2>3, <2>4, <2>5 DEF Waits, R
<1>18. QED
  BY <1>5, <1>12, <1>13, <1>14, <1>15, <1>16, <1>17 DEF DsInv

\* The root over a known item is known.
LEMMA RootKnown ==
  ASSUME NEW d, NEW K, Forest(d, K), NEW i \in K
  PROVE  RootIn(d)[i] \in K
<1>1. Rising(Par(d), Rnk(d)) /\ \A j \in K : Par(d)[j] \in K
  BY ForestRises DEF Forest
<1> DEFINE p == Par(d)
<1>2. Rising(p, Rnk(d)) /\ K \in SUBSET Items /\ \A j \in K : p[j] \in K
  BY <1>1 DEF Forest
<1> HIDE DEF p
<1>3. Roots(p)[i] \in K
  BY <1>2, Closed
<1>4. QED
  BY <1>3 DEF p, RootIn

\* Items that are no roots get the roots over them as parents.
LEMMA CompressForest ==
  ASSUME NEW d, NEW K, Forest(d, K), NEW S, \A i \in S : i \in Items /\ d[i].parent # i,
         NEW e, e = [i \in Items |-> IF i \in S THEN [d[i] EXCEPT !.parent = RootIn(d)[i]] ELSE d[i]]
  PROVE  /\ e \in [Items -> DataTypes] /\ Forest(e, K) /\ Extends(d, K, e, K) /\ RootIn(e) = RootIn(d)
         /\ \A i \in S : e[i].parent = RootIn(d)[i]
         /\ \A i \in Items \ S : e[i] = d[i]
<1> DEFINE R == RootIn(d)
<1>1. \A i \in Items : /\ R[i] \in Items /\ R[R[i]] = R[i] /\ d[i] \in DataTypes
                       /\ d[i].parent # i => HigherIn(d, R[i], i)
                       /\ d[R[i]].rank >= d[d[i].parent].rank
  <2>1. TAKE i \in Items
  <2>2. /\ R[i] \in Items /\ R[R[i]] = R[i] /\ d[R[i]].rank >= d[d[i].parent].rank
        /\ d[i].parent # i => HigherIn(d, R[i], i)
    BY Roof
  <2>3. QED
    BY <2>2 DEF Forest
<1>2. \A i \in K : R[i] \in K
  BY RootKnown
<1> HIDE DEF R
<1>3. ASSUME NEW i \in S
      PROVE  e[i] \in DataTypes /\ e[i].parent = R[i] /\ e[i].rank = d[i].rank /\ e[i].est = d[i].est
  <2> DEFINE t == d[i]
             r == R[i]
             u == [t EXCEPT !.parent = r]
  <2>1. t \in DataTypes /\ r \in Items /\ e[i] = u
    BY <1>1 DEF R
  <2> HIDE DEF t, r
  <2>2. u \in DataTypes /\ u.parent = r /\ u.rank = t.rank /\ u.est = t.est
    BY <2>1 DEF DataTypes
  <2>3. QED
    BY <2>1, <2>2 DEF t, r
<1>4. \A i \in Items \ S : e[i] = d[i]
  OBVIOUS
<1>5. e \in [Items -> DataTypes]
  <2>1. \A i \in Items : e[i] \in DataTypes
    BY <1>1, <1>3, <1>4
  <2>2. QED
    BY <2>1
<1>6. ASSUME NEW i \in S
      PROVE AboveIn(d, e[i].parent, i) /\ e[i].est <= d[e[i].parent].rank /\ e[i].parent \in K
  <2>1. i \in Items /\ d[i].parent # i
    OBVIOUS
  <2>2. i \in K
    BY <2>1 DEF Forest, New
  <2>3. AboveIn(d, R[i], i)
    BY <1>1, <2>1 DEF AboveIn, R
  <2>4. d[i].est <= d[d[i].parent].rank /\ d[i].est \in Nat /\ d[R[i]].rank \in Nat
        /\ d[i].parent \in Items /\ d[d[i].parent].rank \in Nat
    BY <1>1, <2>1 DEF Forest, DataTypes
  <2>5. d[i].est <= d[R[i]].rank
    BY <1>1, <2>1, <2>4
  <2>6. QED
    BY <1>2, <1>3, <2>2, <2>3, <2>5
<1> HIDE DEF R
<1>7. Forest(e, K) /\ Extends(d, K, e, K) /\ RootIn(e) = RootIn(d)
  <2>1. \A i \in Items : e[i].rank = d[i].rank
    BY <1>3, <1>4
  <2>2. \A i \in Items : e[i] = d[i] \/ ( /\ AboveIn(d, e[i].parent, i)
                                          /\ e[i].est <= d[e[i].parent].rank
                                          /\ e[i].parent \in K )
    BY <1>4, <1>6
  <2>3. QED
    BY <1>5, <2>1, <2>2, LiftForest
<1>8. QED
  BY <1>3, <1>4, <1>5, <1>7 DEF R

\* update_rep_functor gives the items that asked their root and passes it on.
LEMMA Replying ==
  ASSUME DsInv, NEW m \in Mail, HandleRep(m)
  PROVE  DsInv' /\ RootIn(Data') = RootIn(Data)
<1> DEFINE items == queries[m.to][m.parent]
           S == {Rep(p[2], p[1], m.rep) : p \in {p \in items \X Ranks : p[2] \in held[p[1]]}}
           R == RootIn(Data)
<1>1. /\ m.op = "rep"
      /\ data' = [i \in Items |-> IF i \in items THEN [data[i] EXCEPT !.parent = m.rep] ELSE data[i]]
      /\ net' = Plus(Rest(m), S)
      /\ held' = [i \in Items |-> IF i \in items THEN {} ELSE held[i]]
      /\ waiting' = waiting \ items
      /\ queries' = [queries EXCEPT ![m.to][m.parent] = {}]
      /\ UNCHANGED <<known, cache, compressed, todo, verdict, op, at, ops, found>>
  BY DEF HandleRep, progVars
<1>2. Types /\ Walks /\ Finds /\ Phases /\ Trees
  BY DEF DsInv
<1>3. /\ Compressing /\ Waits
      /\ \A q \in Ranks : at[q] # "prepare" /\ ~Cleared(q) /\ found[q] = {}
      /\ Data = data /\ Known = known /\ Fields(m) /\ TrueIn(Data, Known, m)
  BY <1>1, Compresses
<1>4. m.to \in Ranks /\ m.parent \in Items /\ m.rep \in Items /\ m.rep = R[m.parent]
  BY <1>1, <1>3 DEF Fields, RepMessages, TrueIn
<1>5. /\ \A i \in waiting : at[Owner[i]] # "prepare" /\ i \in queries[Owner[i]][Data[i].parent]
      /\ \A q \in Ranks : \A x \in Items :
           /\ \A i \in queries[q][x] : Data[i].parent = x /\ x # i /\ Owner[i] = q
           /\ queries[q][x] # {} /\ at[q] = "last" => Asked(q, x)
      /\ \A i \in Items : at[Owner[i]] # "prepare" /\ i \notin waiting => R[i] = Data[i].parent
      /\ \A x \in Items : held[x] # {} => x \in waiting
  BY <1>3 DEF Waits
<1>6. Forest(Data, Known)
  BY <1>2 DEF Trees
<1>7. items \in SUBSET Items /\ \A i \in items : Data[i].parent = m.parent /\ m.parent # i /\ R[i] = m.rep
  <2>1. items \in SUBSET Items
    BY <1>2, <1>4 DEF Types
  <2>2. \A i \in items : Data[i].parent = m.parent /\ m.parent # i
    BY <1>4, <1>5
  <2>3. \A i \in items : R[i] = R[Data[i].parent]
    BY <1>6, <2>1, Roof
  <2>4. QED
    BY <1>4, <2>1, <2>2, <2>3
<1>8. \A n \in S : n \in RepMessages /\ n.op = "rep" /\ n.rep = R[n.parent]
  <2>1. SUFFICES ASSUME NEW i \in items, NEW q \in Ranks, NEW n, n = Rep(q, i, m.rep)
                 PROVE  n \in RepMessages /\ n.op = "rep" /\ n.rep = R[n.parent]
    <3>1. \A n \in S : \E i \in items : \E q \in Ranks : n = Rep(q, i, m.rep)
      OBVIOUS
    <3>2. QED
      BY <2>1, <3>1
  <2>2. n.op = "rep" /\ n.rep = m.rep /\ n.parent = i /\ n.to = q /\ n \in RepMessages
    BY <1>4, <1>7, <2>1 DEF Rep, RepMessages
  <2>3. QED
    BY <1>7, <2>2
<1>9. \A i \in items : \A q \in held[i] : Rep(q, i, m.rep) \in S
  <2>1. SUFFICES ASSUME NEW i \in items, NEW q \in held[i] PROVE Rep(q, i, m.rep) \in S
    OBVIOUS
  <2>2. q \in Ranks
    BY <1>2, <1>7 DEF Types
  <2>3. <<i, q>> \in items \X Ranks /\ <<i, q>>[1] = i /\ <<i, q>>[2] = q
    BY <2>2
  <2>4. <<i, q>> \in {p \in items \X Ranks : p[2] \in held[p[1]]}
    BY <2>3
  <2>5. QED
    BY <2>3, <2>4
<1>10. Data' = data' /\ Known' = Known /\ \A q \in Ranks : ~Cleared(q)'
  <2>1. \A q \in Ranks : ~Cleared(q)'
    BY <1>1, <1>3 DEF Cleared
  <2>2. \A i \in Items : ~Cleared(Owner[i])'
    BY <2>1, DisjointSetAssumption
  <2>3. Data' = [i \in Items |-> data'[i]] /\ Known' = {i \in known' : ~Cleared(Owner[i])'}
    BY <2>2 DEF Data, Known
  <2>4. data' = [i \in Items |-> data'[i]]
    BY <1>1
  <2>5. Known' = Known
    BY <1>1, <1>2, <1>3, <2>2, <2>3 DEF Types
  <2>6. QED
    BY <2>1, <2>3, <2>4, <2>5
<1>11. /\ data' \in [Items -> DataTypes] /\ Forest(Data', Known) /\ Extends(Data, Known, Data', Known)
       /\ RootIn(Data') = R
       /\ \A i \in items : Data'[i].parent = m.rep
       /\ \A i \in Items \ items : Data'[i] = Data[i]
  <2> DEFINE d == Data
             K == Known
             e == Data'
             I == items
  <2>1. e = [i \in Items |-> IF i \in I THEN [d[i] EXCEPT !.parent = RootIn(d)[i]] ELSE d[i]]
    BY <1>1, <1>3, <1>7, <1>10
  <2>2. Forest(d, K) /\ \A i \in I : i \in Items /\ d[i].parent # i
    BY <1>6, <1>7
  <2> HIDE DEF d, K, e, I
  <2>3. /\ e \in [Items -> DataTypes] /\ Forest(e, K) /\ Extends(d, K, e, K) /\ RootIn(e) = RootIn(d)
        /\ \A i \in I : e[i].parent = RootIn(d)[i]
        /\ \A i \in Items \ I : e[i] = d[i]
    BY <2>1, <2>2, CompressForest
  <2>4. QED
    BY <1>7, <1>10, <2>3 DEF d, K, e, I
<1>12. /\ held' \in [Items -> SUBSET Ranks]
       /\ \A i \in Items : held'[i] = IF i \in items THEN {} ELSE held[i]
  BY <1>1, <1>2 DEF Types
<1>13. /\ queries' \in [Ranks -> [Items -> SUBSET Items]] /\ queries'[m.to][m.parent] = {}
       /\ \A q \in Ranks, x \in Items : ~(q = m.to /\ x = m.parent) => queries'[q][x] = queries[q][x]
  <2> DEFINE t == m.to
             p == m.parent
  <2>1. queries' = [queries EXCEPT ![t][p] = {}] /\ t \in Ranks /\ p \in Items
    BY <1>1, <1>4
  <2> HIDE DEF t, p
  <2>2. queries \in [Ranks -> [Items -> SUBSET Items]]
    BY <1>2 DEF Types
  <2>3. queries' \in [Ranks -> [Items -> SUBSET Items]]
    BY <2>1, <2>2
  <2>4. queries'[t][p] = {} /\ \A q \in Ranks, x \in Items : ~(q = t /\ x = p) => queries'[q][x] = queries[q][x]
    BY <2>1, <2>2
  <2>5. QED
    BY <2>3, <2>4 DEF t, p
<1>0. PICK T : T = S
  OBVIOUS
<1>14. PICK I : I = items
  OBVIOUS
<1> HIDE DEF S, items
<1>15. IsABag(net') /\ Mail' \subseteq Mail \cup T /\ Mail \ {m} \subseteq Mail' /\ T \subseteq Mail'
  BY <1>0, <1>1, <1>2, MailMoves
<1>16. /\ MailTrue' /\ Trees' /\ Caches'
  <2>1. Trees' /\ Extends(Data, Known, Data', Known') /\ Caches /\ MailTrue
    BY <1>10, <1>11 DEF Trees, DsInv
  <2>2. \A x \in T : TrueIn(Data', Known', x)
    BY <1>0, <1>8, <1>11 DEF TrueIn
  <2>3. RootIn(Data') = RootIn(Data)
    BY <1>11
  <2>4. /\ MailTrue'
        /\ \A r \in Ranks : ~Cleared(r) => CacheIn(Data', Known', cache[r])
    BY <1>2, <1>15, <2>1, <2>2, <2>3, Remains
  <2>5. Caches'
    BY <1>1, <1>3, <2>4 DEF Caches
  <2>6. QED
    BY <2>1, <2>4, <2>5
<1>17. Walks'
  <2>1. NoWalks(T) /\ UNCHANGED <<todo, verdict>> /\ net' = Plus(Rest(m), T) /\ m.op # "walk"
    BY <1>0, <1>1, <1>8 DEF NoWalks
  <2>2. QED
    BY <1>2, <2>1, WalksStay
<1>18. Types'
  <2>1. Mail' \subseteq Messages
    BY <1>0, <1>2, <1>8, <1>15 DEF Types, Messages
  <2>2. waiting' \subseteq Items
    BY <1>1, <1>2 DEF Types
  <2>3. QED
    BY <1>1, <1>2, <1>11, <1>12, <1>13, <1>15, <2>1, <2>2 DEF Types
<1>19. Compressing' /\ Phases'
  <2>1. Compressing' /\ \A q \in Ranks : at'[q] # "prepare"
    BY <1>1, <1>3 DEF Compressing
  <2>2. \A x \in Mail : Timely(x)'
    BY <1>1, Compresses, <2>1 DEF Timely
  <2>3. \A x \in T : Timely(x)'
    BY <1>0, <1>8, <2>1 DEF Timely
  <2>4. QED
    BY <1>15, <2>1, <2>2, <2>3 DEF Phases
<1>20. Finds'
  BY <1>1, <1>3 DEF Finds
<1>21. Waits'
  <2>1. ASSUME NEW q \in Ranks, NEW x \in Items, Asked(q, x), ~(q = m.to /\ x = m.parent)
        PROVE  Asked(q, x)'
    <3>1. Query(x, q) # m
      <4>1. Query(x, q).op = "query"
        BY DEF Query
      <4>2. QED
        BY <1>1, <4>1
    <3>2. \A y \in Items : Rep(q, x, y) # m
      <4>1. \A y \in Items : Rep(q, x, y).to = q /\ Rep(q, x, y).parent = x
        BY DEF Rep
      <4>2. QED
        BY <2>1, <4>1
    <3>3. Query(x, q) \in Mail => Query(x, q) \in Mail'
      BY <1>15, <3>1
    <3>4. \A y \in Items : Rep(q, x, y) \in Mail => Rep(q, x, y) \in Mail'
      BY <1>15, <3>2
    <3>5. q \in held[x] /\ x \notin items => q \in held'[x]
      BY <1>12
    <3>6. q \in held[x] /\ x \in items => Rep(q, x, m.rep) \in Mail'
      BY <1>0, <1>9, <1>15
    <3>7. QED
      BY <1>4, <2>1, <3>3, <3>4, <3>5, <3>6 DEF Asked
  <2>2. \A i \in Items : Owner[i] \in Ranks /\ Data[i].parent \in Items
    BY <1>2, View DEF DataTypes
  <2>3. waiting \subseteq Items
    BY <1>2 DEF Types
  <2> HIDE DEF R
  <2>4. \A i \in waiting' : at'[Owner[i]] # "prepare" /\ i \in queries'[Owner[i]][Data'[i].parent]
    <3>1. TAKE i \in waiting'
    <3>2. i \in waiting /\ i \in Items /\ i \notin items
      BY <1>1, <2>3
    <3>3. Data'[i].parent = Data[i].parent
      BY <1>11, <3>2
    <3>4. ~(Owner[i] = m.to /\ Data[i].parent = m.parent)
      BY <1>5, <3>2 DEF items
    <3>5. queries'[Owner[i]][Data[i].parent] = queries[Owner[i]][Data[i].parent]
      BY <1>13, <2>2, <3>2, <3>4
    <3>6. QED
      BY <1>1, <1>5, <3>2, <3>3, <3>5
  <2>5. ASSUME NEW q \in Ranks, NEW x \in Items
        PROVE  /\ \A i \in queries'[q][x] : Data'[i].parent = x /\ x # i /\ Owner[i] = q
               /\ queries'[q][x] # {} /\ at'[q] = "last" => Asked(q, x)'
    <3>1. CASE q = m.to /\ x = m.parent
      BY <1>13, <3>1
    <3>2. CASE ~(q = m.to /\ x = m.parent)
      <4>1. queries'[q][x] = queries[q][x]
        BY <1>13, <3>2
      <4>2. \A i \in queries[q][x] : i \notin items /\ i \in Items
        <5>1. \A i \in queries[q][x] : i \in Items /\ Data[i].parent = x /\ Owner[i] = q
          BY <1>2, <1>5 DEF Types
        <5>2. \A i \in items : Data[i].parent = m.parent /\ Owner[i] = m.to
          BY <1>4, <1>5 DEF items
        <5>3. QED
          BY <3>2, <5>1, <5>2
      <4>3. \A i \in queries[q][x] : Data'[i].parent = Data[i].parent
        BY <1>11, <4>2
      <4>4. QED
        BY <1>1, <1>5, <2>1, <3>2, <4>1, <4>3
    <3>3. QED
      BY <3>1, <3>2
  <2>6. ASSUME NEW i \in Items, at'[Owner[i]] # "prepare", i \notin waiting' PROVE R[i] = Data'[i].parent
    <3>1. CASE i \in items
      BY <1>7, <1>11, <3>1
    <3>2. CASE i \notin items
      BY <1>1, <1>5, <1>11, <2>6, <3>2
    <3>3. QED
      BY <3>1, <3>2
  <2>7. \A x \in Items : held'[x] # {} => x \in waiting'
    BY <1>1, <1>5, <1>12
  <2>8. QED
    BY <1>11, <2>4, <2>5, <2>6, <2>7 DEF Waits
<1>22. QED
  BY <1>11, <1>16, <1>17, <1>18, <1>19, <1>20, <1>21 DEF DsInv, R

-----------------------------------------------------------------------------
(***************************************************************************)
(* all_find.                                                               *)
(***************************************************************************)
\* While ranks find the roots over items.
LEMMA Seeks ==
  ASSUME DsInv, NEW m \in Mail, m.op \in {"find", "root", "answer"}
  PROVE  /\ Finding /\ ~Uniting /\ ~Compressing
         /\ \A q \in Ranks : ~Cleared(q)
         /\ \A x \in Mail : x.op \in {"find", "root", "answer"}
         /\ Data = data /\ Known = known
         /\ Fields(m) /\ TrueIn(Data, Known, m)
<1>1. Phases /\ Types /\ MailTrue
  BY DEF DsInv
<1>2. Finding
  BY <1>1 DEF Phases, Timely, WalkKinds
<1>3. Fields(m)
  BY <1>1, MessageFields DEF Types
<1>4. Ranks # {}
  <2>1. m.item \in Items \/ m.to \in Ranks
    BY <1>3 DEF Fields, FindMessages, RootMessages, AnswerMessages
  <2>2. QED
    BY <1>1, <2>1, View
<1>5. ~Uniting /\ ~Compressing
  BY <1>2, <1>4 DEF Uniting, Compressing, Finding, All
<1>6. \A q \in Ranks : ~Cleared(q)
  BY <1>2 DEF Finding, Cleared
<1>7. \A x \in Mail : x.op \in {"find", "root", "answer"}
  BY <1>1, <1>5 DEF Phases, Timely
<1>8. Data = data /\ Known = known
  BY <1>1, <1>6, Uncleared
<1>9. QED
  BY <1>1, <1>2, <1>3, <1>5, <1>6, <1>7, <1>8 DEF MailTrue

\* What is left to show of a step of all_find.
LEMMA Sought ==
  ASSUME DsInv, Finding', NEW S \in SUBSET (FindMessages \cup RootMessages \cup AnswerMessages),
         \A n \in S : n.op \in {"find", "root", "answer"} /\ TrueIn(Data', Known', n),
         ~Compressing', \A x \in Mail : x.op \in {"find", "root", "answer"},
         IsABag(net'), Mail' \subseteq Mail \cup S,
         Trees', Extends(Data, Known, Data', Known'), RootIn(Data') = RootIn(Data),
         data' \in [Items -> DataTypes], found' \in [Ranks -> SUBSET (Items \X Items)],
         at' \in [Ranks -> Places],
         \A r \in Ranks : ~Cleared(r)' => ~Cleared(r),
         UNCHANGED <<known, cache, compressed, todo, verdict, op, ops, compVars>>, Walks', Finds'
  PROVE  DsInv' /\ RootIn(Data') = RootIn(Data)
<1>1. Types /\ Phases /\ Trees /\ Caches /\ MailTrue
  BY DEF DsInv
<1>2. Types'
  <2>1. Mail' \subseteq Messages
    BY <1>1 DEF Types, Messages
  <2>2. UNCHANGED <<known, cache, compressed, todo, verdict, op, ops, queries, waiting, held>>
    BY DEF compVars
  <2>3. QED
    BY <1>1, <2>1, <2>2 DEF Types
<1>3. Phases'
  <2>1. \A n \in Mail' : n.op \in {"find", "root", "answer"}
    OBVIOUS
  <2>2. QED
    BY <2>1 DEF Phases, Timely
<1>4. MailTrue' /\ Caches'
  <2>1. \A n \in S : TrueIn(Data', Known', n)
    OBVIOUS
  <2>2. /\ MailTrue'
        /\ \A r \in Ranks : ~Cleared(r) => CacheIn(Data', Known', cache[r])
    BY <1>1, <2>1, Remains
  <2>3. QED
    BY <2>2 DEF Caches
<1>5. Waits'
  BY DEF Waits
<1>6. QED
  BY <1>2, <1>3, <1>4, <1>5 DEF DsInv

\* Items that do not change extend themselves.
LEMMA Extended ==
  ASSUME NEW d, NEW K
  PROVE  d \in [Items -> DataTypes] => Extends(d, K, d, K)
BY DEF Extends, DataTypes

\* A rank that calls all_find.
LEMMA AskingFind ==
  ASSUME DsInv, NEW r \in Ranks, NEW T \in SUBSET known, AskFind(r, T)
  PROVE  DsInv' /\ RootIn(Data') = RootIn(Data)
<1> DEFINE S == {Find(i, i, r) : i \in T}
<1>1. /\ at[r] = "ask" /\ net' = Plus(net, S) /\ at' = [at EXCEPT ![r] = "last"]
      /\ UNCHANGED <<known, data, cache, compressed, todo, verdict, op, ops, found, compVars>>
  BY DEF AskFind, Goto
<1>2. Types /\ Trees /\ Walks /\ Finds /\ Phases
  BY DEF DsInv
<1>3. Finding /\ ~Uniting /\ ~Compressing /\ \A q \in Ranks : ~Cleared(q)
  BY <1>1, Begun
<1>4. /\ at' \in [Ranks -> Places] /\ Finding' /\ ~Compressing' /\ \A q \in Ranks : ~Cleared(q)'
      /\ \A q \in Ranks : at[q] = "last" => at'[q] = "last"
  <2>1. at \in [Ranks -> Places]
    BY <1>2 DEF Types
  <2>2. at' \in [Ranks -> Places] /\ \A q \in Ranks : at'[q] = IF q = r THEN "last" ELSE at[q]
    BY <1>1, <2>1 DEF Places
  <2>3. QED
    BY <1>1, <1>3, <2>2 DEF Finding, Compressing, Cleared
<1>5. T \subseteq Items
  BY <1>2 DEF Types
<1>6. \A n \in S : n \in FindMessages /\ n.op = "find" /\ n.item = n.source
  BY <1>5 DEF Find, FindMessages
<1>7. Data' = Data /\ Known' = Known
  <2>2. \A i \in Items : Owner[i] \in Ranks
    BY DisjointSetAssumption
  <2>3. Data = data /\ Known = known
    BY <1>2, <1>3, Uncleared
  <2>4. Data' = [i \in Items |-> data[i]] /\ Known' = {i \in known : TRUE}
    BY <1>1, <1>2, <1>4, <2>2 DEF Data, Known, Types
  <2>5. data = [i \in Items |-> data[i]]
    BY <1>2 DEF Types
  <2>6. QED
    BY <2>3, <2>4, <2>5
<1>0. PICK N : N = S
  OBVIOUS
<1> HIDE DEF S
<1>8. IsABag(net') /\ Mail' = Mail \cup N
  BY <1>0, <1>1, <1>2, MailComes
<1>9. Walks'
  <2>1. NoWalks(N) /\ UNCHANGED <<todo, verdict>> /\ net' = Plus(net, N)
    BY <1>0, <1>1, <1>6 DEF NoWalks
  <2>2. QED
    BY <1>2, <2>1, WalksStay
<1>10. \A n \in N : n.op \in {"find", "root", "answer"} /\ TrueIn(Data', Known', n)
  BY <1>0, <1>6, <1>7 DEF TrueIn
<1>11. \A x \in Mail : x.op \in {"find", "root", "answer"}
  BY <1>2, <1>3 DEF Phases, Timely
<1>12. Trees' /\ Extends(Data, Known, Data', Known')
  BY <1>2, <1>7, Extended DEF Trees, Forest
<1>13. Finds'
  <2>1. \A q \in Ranks : \A f \in found[q] : op = "find" /\ at[q] = "last" /\ f[2] = RootIn(Data)[f[1]]
    BY <1>2 DEF Finds
  <2>2. QED
    BY <1>1, <1>4, <1>7, <2>1 DEF Finds
<1>14. data' \in [Items -> DataTypes] /\ found' \in [Ranks -> SUBSET (Items \X Items)]
  BY <1>1, <1>2 DEF Types
<1>15. N \in SUBSET (FindMessages \cup RootMessages \cup AnswerMessages)
  BY <1>0, <1>6
<1>16. QED
  BY <1>1, <1>3, <1>4, <1>7, <1>8, <1>9, <1>10, <1>11, <1>12, <1>13, <1>14, <1>15, Sought

\* find_rep_functor goes up by a parent, or has found the root.
LEMMA Seeking ==
  ASSUME DsInv, NEW m \in Mail, HandleFind(m)
  PROVE  DsInv' /\ RootIn(Data') = RootIn(Data)
<1> DEFINE p == data[m.item].parent
           S == IF p = m.item THEN {Root(m.source, p), Answer(m.from, m.source, p)}
                              ELSE {Find(p, m.source, m.from)}
           R == RootIn(Data)
<1>1. /\ m.op = "find" /\ net' = Plus(Rest(m), S)
      /\ UNCHANGED <<known, data, cache, compressed, todo, verdict, op, at, ops, found, compVars>>
  BY DEF HandleFind, progVars
<1>2. Types /\ Trees /\ Walks /\ Finds
  BY DEF DsInv
<1>3. /\ Finding /\ ~Compressing /\ \A q \in Ranks : ~Cleared(q)
      /\ \A x \in Mail : x.op \in {"find", "root", "answer"}
      /\ Data = data /\ Known = known /\ Fields(m) /\ TrueIn(Data, Known, m)
  BY <1>1, Seeks
<1>4. m.item \in Items /\ m.source \in Items /\ m.from \in Ranks /\ R[m.item] = R[m.source]
  BY <1>1, <1>3 DEF Fields, FindMessages, TrueIn
<1>5. p \in Items /\ R[m.item] = R[p] /\ (p = m.item => R[m.item] = p)
  BY <1>2, <1>3, <1>4, Roof DEF Trees
<1>6. \A n \in S : /\ n \in FindMessages \cup RootMessages \cup AnswerMessages
                   /\ n.op \in {"find", "root", "answer"} /\ TrueIn(Data, Known, n)
  <2> HIDE DEF R, p
  <2>1. CASE p = m.item
    <3>1. SUFFICES ASSUME NEW n, n = Root(m.source, p) \/ n = Answer(m.from, m.source, p)
                   PROVE  /\ n \in FindMessages \cup RootMessages \cup AnswerMessages
                          /\ n.op \in {"find", "root", "answer"} /\ TrueIn(Data, Known, n)
      BY <2>1
    <3>2. CASE n = Root(m.source, p)
      <4>1. n \in RootMessages /\ n.op = "root" /\ n.root = R[n.item]
        BY <1>4, <1>5, <2>1, <3>2 DEF Root, RootMessages
      <4>2. QED
        BY <4>1 DEF TrueIn, R
    <3>3. CASE n = Answer(m.from, m.source, p)
      <4>1. n \in AnswerMessages /\ n.op = "answer" /\ n.root = R[n.source]
        BY <1>4, <1>5, <2>1, <3>3 DEF Answer, AnswerMessages
      <4>2. QED
        BY <4>1 DEF TrueIn, R
    <3>4. QED
      BY <3>1, <3>2, <3>3
  <2>2. CASE p # m.item
    <3>1. SUFFICES ASSUME NEW n, n = Find(p, m.source, m.from)
                   PROVE  n \in FindMessages /\ n.op = "find" /\ R[n.item] = R[n.source]
      BY <2>2 DEF TrueIn, R
    <3>2. QED
      BY <1>4, <1>5, <3>1 DEF Find, FindMessages
  <2>3. QED
    BY <2>1, <2>2
<1>7. Data' = Data /\ Known' = Known
  BY <1>1, DataKept DEF Known, Cleared
<1>0. PICK T : T = S
  OBVIOUS
<1> HIDE DEF S
<1>8. IsABag(net') /\ Mail' \subseteq Mail \cup T
  BY <1>0, <1>1, <1>2, MailMoves
<1>9. Walks'
  <2>1. NoWalks(T) /\ UNCHANGED <<todo, verdict>> /\ net' = Plus(Rest(m), T) /\ m.op # "walk"
    BY <1>0, <1>1, <1>6 DEF NoWalks
  <2>2. QED
    BY <1>2, <2>1, WalksStay
<1>10. Finding' /\ ~Compressing' /\ \A q \in Ranks : ~Cleared(q)' => ~Cleared(q)
  BY <1>1, <1>3 DEF Finding, Compressing, Cleared
<1>11. Trees' /\ Extends(Data, Known, Data', Known') /\ RootIn(Data') = RootIn(Data)
  BY <1>2, <1>7, Extended DEF Trees, Forest
<1>12. Finds'
  BY <1>1, <1>2, <1>7 DEF Finds
<1>13. /\ data' \in [Items -> DataTypes] /\ found' \in [Ranks -> SUBSET (Items \X Items)]
       /\ at' \in [Ranks -> Places]
  BY <1>1, <1>2 DEF Types
<1>14. /\ T \in SUBSET (FindMessages \cup RootMessages \cup AnswerMessages)
       /\ \A n \in T : n.op \in {"find", "root", "answer"} /\ TrueIn(Data', Known', n)
  BY <1>0, <1>6, <1>7
<1>15. QED
  BY <1>1, <1>3, <1>8, <1>9, <1>10, <1>11, <1>12, <1>13, <1>14, Sought

\* The item that was asked for gets the root as parent.
LEMMA Rooting ==
  ASSUME DsInv, NEW m \in Mail, HandleRoot(m)
  PROVE  DsInv' /\ RootIn(Data') = RootIn(Data)
<1> DEFINE x == m.item
           R == RootIn(Data)
<1>1. /\ m.op = "root" /\ net' = Rest(m)
      /\ data' = [data EXCEPT ![x].parent = m.root]
      /\ UNCHANGED <<known, cache, compressed, todo, verdict, op, at, ops, found, compVars>>
  BY DEF HandleRoot, progVars
<1>2. Types /\ Trees /\ Walks /\ Finds
  BY DEF DsInv
<1>3. /\ Finding /\ ~Compressing /\ \A q \in Ranks : ~Cleared(q)
      /\ \A n \in Mail : n.op \in {"find", "root", "answer"}
      /\ Data = data /\ Known = known /\ Fields(m) /\ TrueIn(Data, Known, m)
  BY <1>1, Seeks
<1>4. x \in Items /\ m.root = R[x]
  BY <1>1, <1>3 DEF Fields, RootMessages, TrueIn
<1>5. data \in [Items -> DataTypes] /\ (data[x].parent = x <=> R[x] = x)
  BY <1>2, <1>3, <1>4, Roof DEF Types, Trees
<1>6. Data' = data' /\ Known' = Known /\ \A q \in Ranks : ~Cleared(q)'
  <2>1. \A q \in Ranks : ~Cleared(q)'
    BY <1>1, <1>3 DEF Cleared
  <2>2. \A i \in Items : ~Cleared(Owner[i])'
    BY <2>1, DisjointSetAssumption
  <2>3. Data' = [i \in Items |-> data'[i]] /\ Known' = {i \in known' : ~Cleared(Owner[i])'}
    BY <2>2 DEF Data, Known
  <2>4. data' = [i \in Items |-> data'[i]]
    BY <1>1, <1>5
  <2>5. Known' = Known
    BY <1>1, <1>2, <1>3, <2>2, <2>3 DEF Types
  <2>6. QED
    BY <2>1, <2>3, <2>4, <2>5
<1>7. data' \in [Items -> DataTypes] /\ Forest(Data', Known) /\ Extends(Data, Known, Data', Known)
      /\ RootIn(Data') = R
  <2> DEFINE d == Data
             K == Known
             e == Data'
             I == {i \in {x} : Data[i].parent # i}
  <2>1. Forest(d, K) /\ \A i \in I : i \in Items /\ d[i].parent # i
    BY <1>2, <1>4 DEF Trees
  <2>2. e = [i \in Items |-> IF i \in I THEN [d[i] EXCEPT !.parent = RootIn(d)[i]] ELSE d[i]]
    <3>1. CASE data[x].parent = x
      <4>1. m.root = x
        BY <1>4, <1>5, <3>1
      <4>2. [data[x] EXCEPT !.parent = x] = data[x]
        BY <1>4, <1>5, <3>1 DEF DataTypes
      <4>3. data' = data
        BY <1>1, <1>5, <4>1, <4>2
      <4>4. I = {}
        BY <1>3, <3>1
      <4>5. d = [i \in Items |-> d[i]]
        BY <1>3, <1>5
      <4>6. e = d
        BY <1>3, <1>6, <4>3
      <4> HIDE DEF I, d, e
      <4>7. QED
        BY <4>4, <4>5, <4>6
    <3>2. CASE data[x].parent # x
      <4>1. I = {x}
        BY <1>3, <3>2
      <4>2. data' = [i \in Items |-> IF i = x THEN [data[i] EXCEPT !.parent = R[i]] ELSE data[i]]
        <5> DEFINE r == m.root
                   v == [data[x] EXCEPT !.parent = r]
        <5>1. data' = [data EXCEPT ![x] = v] /\ r = R[x]
          BY <1>1, <1>4
        <5> HIDE DEF x, R, r
        <5>2. QED
          BY <1>4, <1>5, <5>1
      <4>3. QED
        BY <1>3, <1>6, <4>1, <4>2
    <3>3. QED
      BY <3>1, <3>2
  <2> HIDE DEF d, K, e, I
  <2>3. e \in [Items -> DataTypes] /\ Forest(e, K) /\ Extends(d, K, e, K) /\ RootIn(e) = RootIn(d)
    BY <2>1, <2>2, CompressForest
  <2>4. QED
    BY <1>6, <2>3 DEF d, K, e
<1>8. IsABag(net') /\ Mail' \subseteq Mail
  BY <1>1, <1>2, MailGoes
<1>9. Walks'
  <2>1. NoWalks({}) /\ UNCHANGED <<todo, verdict>> /\ net' = Rest(m) /\ m.op # "walk"
    BY <1>1 DEF NoWalks
  <2>2. QED
    BY <1>2, <2>1, WalksStay
<1>10. Finding' /\ ~Compressing' /\ \A q \in Ranks : ~Cleared(q)' => ~Cleared(q)
  BY <1>1, <1>3 DEF Finding, Compressing, Cleared
<1>11. Trees' /\ Extends(Data, Known, Data', Known') /\ RootIn(Data') = RootIn(Data)
  BY <1>6, <1>7 DEF Trees
<1>12. Finds'
  BY <1>1, <1>2, <1>11 DEF Finds
<1>13. found' \in [Ranks -> SUBSET (Items \X Items)] /\ at' \in [Ranks -> Places]
  BY <1>1, <1>2 DEF Types
<1>14. PICK T : T = {}
  OBVIOUS
<1>15. /\ T \in SUBSET (FindMessages \cup RootMessages \cup AnswerMessages) /\ Mail' \subseteq Mail \cup T
       /\ \A n \in T : n.op \in {"find", "root", "answer"} /\ TrueIn(Data', Known', n)
  BY <1>8, <1>14
<1>16. QED
  BY <1>1, <1>3, <1>7, <1>8, <1>9, <1>10, <1>11, <1>12, <1>13, <1>15, Sought

\* The root that was found comes to the rank that asked.
LEMMA Answering ==
  ASSUME DsInv, NEW m \in Mail, HandleAnswer(m)
  PROVE  DsInv' /\ RootIn(Data') = RootIn(Data)
<1>1. /\ m.op = "answer" /\ net' = Rest(m) /\ Receiving(m.to)
      /\ found' = [found EXCEPT ![m.to] = found[m.to] \cup {<<m.source, m.root>>}]
      /\ UNCHANGED <<known, data, cache, compressed, todo, verdict, op, at, ops, compVars>>
  BY DEF HandleAnswer
<1>2. Types /\ Trees /\ Walks /\ Finds
  BY DEF DsInv
<1>3. /\ Finding /\ ~Compressing /\ \A q \in Ranks : ~Cleared(q)
      /\ \A n \in Mail : n.op \in {"find", "root", "answer"}
      /\ Data = data /\ Known = known /\ Fields(m) /\ TrueIn(Data, Known, m)
  BY <1>1, Seeks
<1>4. m.to \in Ranks /\ m.source \in Items /\ m.root \in Items /\ m.root = RootIn(Data)[m.source]
  BY <1>1, <1>3 DEF Fields, AnswerMessages, TrueIn
<1>5. at[m.to] = "last" /\ op = "find"
  BY <1>1, <1>3, <1>4 DEF Receiving, Finding
<1>6. /\ found' \in [Ranks -> SUBSET (Items \X Items)]
      /\ \A q \in Ranks : \A f \in found'[q] : f \in found[q] \/ (q = m.to /\ f = <<m.source, m.root>>)
  <2> DEFINE t == m.to
             a == <<m.source, m.root>>
  <2>1. found \in [Ranks -> SUBSET (Items \X Items)] /\ a \in Items \X Items /\ t \in Ranks
        /\ found' = [found EXCEPT ![t] = found[t] \cup {a}]
    BY <1>1, <1>2, <1>4 DEF Types
  <2> HIDE DEF t, a
  <2>2. /\ found' \in [Ranks -> SUBSET (Items \X Items)]
        /\ \A q \in Ranks : \A f \in found'[q] : f \in found[q] \/ (q = t /\ f = a)
    BY <2>1
  <2>3. QED
    BY <2>2 DEF t, a
<1>7. Data' = Data /\ Known' = Known
  BY <1>1, DataKept DEF Known, Cleared
<1>8. IsABag(net') /\ Mail' \subseteq Mail
  BY <1>1, <1>2, MailGoes
<1>9. Walks'
  <2>1. NoWalks({}) /\ UNCHANGED <<todo, verdict>> /\ net' = Rest(m) /\ m.op # "walk"
    BY <1>1 DEF NoWalks
  <2>2. QED
    BY <1>2, <2>1, WalksStay
<1>10. Finding' /\ ~Compressing' /\ \A q \in Ranks : ~Cleared(q)' => ~Cleared(q)
  BY <1>1, <1>3 DEF Finding, Compressing, Cleared
<1>11. Trees' /\ Extends(Data, Known, Data', Known') /\ RootIn(Data') = RootIn(Data)
  BY <1>2, <1>7, Extended DEF Trees, Forest
<1>12. Finds'
  <2> DEFINE R == RootIn(Data)
  <2>1. \A q \in Ranks : \A f \in found[q] : op = "find" /\ at[q] = "last" /\ f[2] = R[f[1]]
    BY <1>2 DEF Finds
  <2>2. m.root = R[m.source] /\ RootIn(Data') = R
    BY <1>4, <1>7
  <2> HIDE DEF R
  <2>3. \A q \in Ranks : \A f \in found'[q] : op = "find" /\ at[q] = "last" /\ f[2] = R[f[1]]
    BY <1>5, <1>6, <2>1, <2>2
  <2>4. QED
    BY <1>1, <2>2, <2>3 DEF Finds
<1>13. data' \in [Items -> DataTypes] /\ at' \in [Ranks -> Places]
  BY <1>1, <1>2 DEF Types
<1>14. PICK T : T = {}
  OBVIOUS
<1>15. /\ T \in SUBSET (FindMessages \cup RootMessages \cup AnswerMessages) /\ Mail' \subseteq Mail \cup T
       /\ \A n \in T : n.op \in {"find", "root", "answer"} /\ TrueIn(Data', Known', n)
  BY <1>8, <1>14
<1>16. QED
  BY <1>1, <1>3, <1>6, <1>8, <1>9, <1>10, <1>11, <1>12, <1>13, <1>15, Sought

-----------------------------------------------------------------------------
(***************************************************************************)
(* The theorems.                                                           *)
(***************************************************************************)
\* The items of earlier unions are trees, and nothing else has happened.
LEMMA Initial ==
  ASSUME Init
  PROVE  DsInv
<1>1. PICK s \in Starts :
        /\ known = s.known /\ todo = s.todo
        /\ data = [i \in Items |-> IF i \in s.known THEN s.data[i] ELSE New(i)]
        /\ compressed = [r \in Ranks |-> s.known = {}]
  BY DEF Init
<1>2. /\ cache = [r \in Ranks |-> [t \in Slots |-> Unoccupied]] /\ net = EmptyBag
      /\ verdict = [c \in Calls |-> "none"]
      /\ op = "none" /\ at = [r \in Ranks |-> "run"] /\ ops = MaxOps
      /\ queries = [r \in Ranks |-> NoQueries] /\ waiting = {} /\ held = NoQueries
      /\ found = [r \in Ranks |-> {}]
  BY DEF Init
<1>3. s.known \subseteq Items /\ s.todo \subseteq Calls /\ MaxOps \in Nat
  BY DisjointSetAssumption
<1>4. \A i \in s.known :
        /\ s.data[i].parent \in s.known /\ s.data[i] \in DataTypes
        /\ s.data[i].est <= s.data[s.data[i].parent].rank
        /\ s.data[i].parent # i =>
             \/ s.data[s.data[i].parent].rank > s.data[i].rank
             \/ s.data[s.data[i].parent].rank = s.data[i].rank /\ s.data[i].parent > i
  BY StartsAssumption DEF DataTypes
<1>5. \A i \in Items : New(i) \in DataTypes /\ New(i).parent = i /\ New(i).est = 0 /\ New(i).rank = 0
  BY DEF New, DataTypes
<1>6. \A i \in Items : data[i] = IF i \in s.known THEN s.data[i] ELSE New(i)
  BY <1>1
<1>7. data \in [Items -> DataTypes]
  BY <1>1, <1>4, <1>5
<1>8. Mail = {} /\ IsABag(net)
  BY <1>2 DEF Mail, EmptyBag, BagToSet, IsABag, SetToBag
<1>9. \A r \in Ranks : at[r] = "run" /\ ~Cleared(r)
  BY <1>2 DEF Cleared
<1>10. cache \in [Ranks -> [Slots -> EntryTypes]]
  BY <1>2 DEF EntryTypes
<1>11. Types
  BY <1>1, <1>2, <1>3, <1>7, <1>8, <1>10 DEF Types, Places, NoQueries
<1>12. Data = data /\ Known = known
  BY <1>9, <1>11, Uncleared
<1>13. Trees
  <2>1. ASSUME NEW i \in Items
        PROVE  /\ data[i].parent # i => HigherIn(data, data[i].parent, i)
               /\ data[i].est <= data[data[i].parent].rank
               /\ i \in known => data[i].parent \in known
               /\ i \notin known => data[i] = New(i)
    <3>1. CASE i \in s.known
      <4> DEFINE p == s.data[i].parent
      <4>1. data[i] = s.data[i] /\ p \in s.known /\ data[p] = s.data[p]
        BY <1>3, <1>4, <1>6, <3>1
      <4>2. QED
        BY <1>1, <1>4, <3>1, <4>1 DEF HigherIn
    <3>2. CASE i \notin s.known
      BY <1>1, <1>5, <1>6, <3>2
    <3>3. QED
      BY <3>1, <3>2
  <2>2. QED
    BY <1>1, <1>3, <1>7, <1>12, <2>1 DEF Trees, Forest
<1>14. Caches
  <2>1. \A r \in Ranks : cache[r] \in [Slots -> EntryTypes] /\ \A t \in Slots : cache[r][t] = Unoccupied
    BY <1>2, <1>10
  <2>2. QED
    BY <2>1 DEF Caches, CacheIn
<1>15. Phases /\ MailTrue
  BY <1>2, <1>8, <1>9 DEF Phases, Uniting, MailTrue
<1>16. Walks
  BY <1>1, <1>2, <1>3, <1>8 DEF Walks
<1>17. Waits /\ Finds
  BY <1>2 DEF Waits, Finds, Compressing
<1>18. QED
  BY <1>11, <1>13, <1>14, <1>15, <1>16, <1>17 DEF DsInv

\* What a step does to the unions and to the roots.
Course ==
  \/ UNCHANGED verdict /\ RootIn(Data') = RootIn(Data)
  \/ \E c \in Calls :
       \/ /\ verdict[c] = "none" /\ verdict' = [verdict EXCEPT ![c] = "open"]
          /\ RootIn(Data') = RootIn(Data)
       \/ /\ verdict[c] = "open" /\ verdict' = [verdict EXCEPT ![c] = "same"]
          /\ RootIn(Data') = RootIn(Data) /\ RootIn(Data)[c.a] = RootIn(Data)[c.b]
       \/ /\ verdict[c] = "open" /\ verdict' = [verdict EXCEPT ![c] = "joined"]
          /\ Joined(c, RootIn(Data), RootIn(Data'))
  \/ /\ UNCHANGED verdict /\ \A c \in Calls : verdict[c] # "open"
     /\ \A i \in Items : RootIn(Data')[i] = i

\* Each step preserves the invariant.
LEMMA StepKeeps ==
  ASSUME DsInv, [Next]_vars
  PROVE  DsInv' /\ Course
<1>1. CASE Library
  <2>1. CASE \E m \in BagToSet(net) : Handler(m)
    <3>1. PICK m \in Mail : Handler(m)
      BY <2>1 DEF Mail
    <3>2. CASE HandleWalk(m) \/ HandleWalkAndExecute(m)
      <4>1. DsInv' /\ Outcome(m)
        BY <3>2, WalkSteps DEF HandleWalk, HandleWalkAndExecute
      <4>2. QED
        BY <4>1 DEF Outcome, Course
    <3>3. CASE HandleUpdate(m)
      <4>1. DsInv' /\ RootIn(Data') = RootIn(Data)
        BY <3>3, HandlerUpdate
      <4>2. UNCHANGED verdict
        BY <3>3 DEF HandleUpdate
      <4>3. QED
        BY <4>1, <4>2 DEF Course
    <3>4. CASE HandleResolve(m)
      <4>1. DsInv' /\ RootIn(Data') = RootIn(Data)
        BY <3>4, HandlerResolve
      <4>2. UNCHANGED verdict
        BY <3>4 DEF HandleResolve
      <4>3. QED
        BY <4>1, <4>2 DEF Course
    <3>5. CASE HandleSetParent(m)
      <4>1. DsInv' /\ RootIn(Data') = RootIn(Data)
        BY <3>5, HandlerSetParent
      <4>2. UNCHANGED verdict
        BY <3>5 DEF HandleSetParent
      <4>3. QED
        BY <4>1, <4>2 DEF Course
    <3>6. CASE HandleQuery(m)
      <4>1. DsInv' /\ RootIn(Data') = RootIn(Data)
        BY <3>6, Querying
      <4>2. UNCHANGED verdict
        BY <3>6 DEF HandleQuery
      <4>3. QED
        BY <4>1, <4>2 DEF Course
    <3>7. CASE HandleRep(m)
      <4>1. DsInv' /\ RootIn(Data') = RootIn(Data)
        BY <3>7, Replying
      <4>2. UNCHANGED verdict
        BY <3>7 DEF HandleRep
      <4>3. QED
        BY <4>1, <4>2 DEF Course
    <3>8. CASE HandleFind(m)
      <4>1. DsInv' /\ RootIn(Data') = RootIn(Data)
        BY <3>8, Seeking
      <4>2. UNCHANGED verdict
        BY <3>8 DEF HandleFind
      <4>3. QED
        BY <4>1, <4>2 DEF Course
    <3>9. CASE HandleRoot(m)
      <4>1. DsInv' /\ RootIn(Data') = RootIn(Data)
        BY <3>9, Rooting
      <4>2. UNCHANGED verdict
        BY <3>9 DEF HandleRoot
      <4>3. QED
        BY <4>1, <4>2 DEF Course
    <3>10. CASE HandleAnswer(m)
      <4>1. DsInv' /\ RootIn(Data') = RootIn(Data)
        BY <3>10, Answering
      <4>2. UNCHANGED verdict
        BY <3>10 DEF HandleAnswer
      <4>3. QED
        BY <4>1, <4>2 DEF Course
    <3>11. QED
      BY <3>1, <3>2, <3>3, <3>4, <3>5, <3>6, <3>7, <3>8, <3>9, <3>10 DEF Handler
  <2>2. CASE \E r \in Ranks : Collective(r)
    <3>1. PICK r \in Ranks : Collective(r)
      BY <2>2
    <3>2. CASE Prepare(r)
      <4>1. DsInv' /\ RootIn(Data') = RootIn(Data)
        BY <3>2, Preparing
      <4>2. UNCHANGED verdict
        BY <3>2 DEF Prepare
      <4>3. QED
        BY <4>1, <4>2 DEF Course
    <3>3. CASE AskRoots(r)
      <4>1. DsInv' /\ RootIn(Data') = RootIn(Data)
        BY <3>3, Asking
      <4>2. UNCHANGED verdict
        BY <3>3 DEF AskRoots
      <4>3. QED
        BY <4>1, <4>2 DEF Course
    <3>4. CASE \E S \in SUBSET known : AskFind(r, S)
      <4>1. PICK S \in SUBSET known : AskFind(r, S)
        BY <3>4
      <4>2. DsInv' /\ RootIn(Data') = RootIn(Data)
        BY <4>1, AskingFind
      <4>3. UNCHANGED verdict
        BY <4>1 DEF AskFind
      <4>4. QED
        BY <4>2, <4>3 DEF Course
    <3>5. CASE Wipe(r)
      <4>1. DsInv' /\ RootIn(Data') = RootIn(Data)
        BY <3>5, Wiping
      <4>2. UNCHANGED verdict
        BY <3>5 DEF Wipe
      <4>3. QED
        BY <4>1, <4>2 DEF Course
    <3>6. QED
      BY <3>1, <3>2, <3>3, <3>4, <3>5 DEF Collective
  <2>3. CASE Begin
    BY <2>3, Beginning DEF Course
  <2>4. CASE End
    <3>1. DsInv' /\ RootIn(Data') = RootIn(Data)
      BY <2>4, Ending
    <3>2. UNCHANGED verdict
      BY <2>4 DEF End
    <3>3. QED
      BY <3>1, <3>2 DEF Course
  <2>5. QED
    BY <1>1, <2>1, <2>2, <2>3, <2>4 DEF Library
<1>2. CASE \E c \in todo : async_union(c) \/ async_union_and_execute(c)
  <2>1. PICK c \in todo : StartWalk(c)
    BY <1>2 DEF async_union, async_union_and_execute
  <2>2. c \in Calls
    BY <2>1 DEF DsInv, Types
  <2>3. /\ DsInv' /\ RootIn(Data') = RootIn(Data)
        /\ verdict[c] = "none" /\ verdict' = [verdict EXCEPT ![c] = "open"]
    BY <2>1, Starting
  <2>4. QED
    BY <2>2, <2>3 DEF Course
<1>3. CASE \E o \in {"compress", "find", "clear"} : Enter(o)
  <2>1. PICK o \in {"compress", "find", "clear"} : Enter(o)
    BY <1>3
  <2>2. DsInv' /\ RootIn(Data') = RootIn(Data)
    BY <2>1, Entering
  <2>3. UNCHANGED verdict
    BY <2>1 DEF Enter
  <2>4. QED
    BY <2>2, <2>3 DEF Course
<1>4. CASE UNCHANGED vars
  <2>1. /\ UNCHANGED <<known, data, cache, compressed, net, todo, verdict, op, at, ops, found>>
        /\ UNCHANGED <<queries, waiting, held>>
    BY <1>4 DEF vars, progVars, compVars
  <2>2. Mail' = Mail /\ Data' = Data /\ Known' = Known /\ \A r \in Ranks : Cleared(r)' <=> Cleared(r)
    BY <2>1 DEF Mail, Data, Known, Cleared
  <2>3. Types' /\ Trees' /\ MailTrue' /\ Walks' /\ Finds'
    BY <2>1, <2>2 DEF DsInv, Types, Trees, MailTrue, Walks, Finds
  <2>4. Caches'
    BY <2>1, <2>2 DEF DsInv, Caches
  <2>5. Phases'
    BY <2>1, <2>2 DEF DsInv, Phases, Uniting, Compressing, Finding, Timely, All
  <2>6. Waits'
    BY <2>1, <2>2 DEF DsInv, Waits, Compressing, Asked
  <2>7. QED
    BY <2>1, <2>2, <2>3, <2>4, <2>5, <2>6 DEF DsInv, Course
<1>5. QED
  BY <1>1, <1>2, <1>3, <1>4 DEF Next, Program, Finished

\* DsInv holds in every state: an inductive invariant of every union, short cut, cache
\* and collective operation, in any order that messages arrive in.
THEOREM Inductive == Spec => []DsInv
<1>1. Init => DsInv
  BY Initial
<1>2. DsInv /\ [Next]_vars => DsInv'
  BY StepKeeps
<1>3. QED
  BY <1>1, <1>2, PTL DEF Spec

\* However walks, ties, short cuts and collective operations interleave, the items
\* are trees and what was read of them, any time ago, remains true: no way up turns
\* round, and no estimate of a rank is above it.
THEOREM TreesStaySound == Spec => []TreesSound
<1>1. DsInv => TreesSound
  <2>1. SUFFICES ASSUME DsInv PROVE Uphill /\ EstimatesSound
    BY DEF TreesSound
  <2>2. Types /\ Forest(Data, Known) /\ Caches /\ MailTrue
    BY <2>1 DEF DsInv, Trees
  <2>3. \A p, i \in Items : Higher(p, i) <=> HigherIn(Data, p, i)
    BY DEF Higher, HigherIn
  <2>4. \A i \in Items : /\ Data[i].parent \in Items /\ Data[i].est <= Data[Data[i].parent].rank
                         /\ Data[i].parent # i => Higher(Data[i].parent, i)
    BY <2>2, <2>3, Roof DEF Forest
  <2>5. ASSUME NEW r \in Ranks, NEW e \in Entries(r)
        PROVE  /\ e.parent # e.item => Higher(e.parent, e.item)
               /\ e.est <= Data[e.parent].rank
    <3>1. ~Cleared(r)
      BY DEF Entries
    <3>2. PICK s \in Slots : e = cache[r][s] /\ e # Unoccupied
      BY <3>1 DEF Entries
    <3>3. e \in EntryTypes /\ EntryIn(Data, Known, e)
      BY <2>2, <3>1, <3>2 DEF Caches, CacheIn
    <3>4. e.item \in Items /\ e.parent \in Items
      BY <3>2, <3>3 DEF EntryTypes
    <3>5. QED
      BY <2>3, <3>3, <3>4 DEF EntryIn, AtLeastIn, AboveIn
  <2>6. ASSUME NEW m \in Mail
        PROVE  /\ m.op = "update" => (m.new # m.old => Higher(m.new, m.old)) /\ Higher(m.old, m.item)
               /\ m.op = "parent" => Higher(m.new, m.item)
               /\ m.op = "walk" => m.orank <= Data[m.oparent].rank
               /\ m.op \in {"update", "parent"} => m.est <= Data[m.new].rank
               /\ m.op = "resolve" => m.rank <= Data[m.item].rank
    <3>1. Fields(m) /\ TrueIn(Data, Known, m)
      BY <2>2, MessageFields DEF Types, MailTrue
    <3>2. m.op = "update" => m.new \in Items /\ m.old \in Items /\ m.item \in Items
      BY <3>1 DEF Fields, UpdateMessages
    <3>3. m.op = "parent" => m.new \in Items /\ m.item \in Items
      BY <3>1 DEF Fields, ParentMessages
    <3>4. QED
      BY <2>3, <3>1, <3>2, <3>3
      DEF TrueIn, WalkIn, UpdateIn, ResolveIn, ParentIn, AtLeastIn, AboveIn
  <2>7. QED
    BY <2>4, <2>5, <2>6 DEF Uphill, EstimatesSound, Mail
<1>2. QED
  BY <1>1, Inductive, PTL

\* A chain of items that wait for each other would end at a root that waits.
LEMMA NoneWaits ==
  ASSUME DsInv, op = "compress", InBarrier("last")
  PROVE  /\ waiting = {} /\ \A i \in Items : held[i] = {}
         /\ \A i \in Items : data[i].parent = RootIn(Data)[i]
<1>1. Types /\ Forest(Data, Known) /\ Waits
  BY DEF DsInv, Trees
<1>2. Mail = {} /\ \A r \in Ranks : at[r] = "last"
  BY DEF InBarrier, All, Mail, EmptyBag, BagToSet, SetToBag
<1>3. Compressing /\ \A r \in Ranks : ~Cleared(r)
  BY <1>2 DEF Compressing, Cleared
<1>4. Data = data /\ \A i \in Items : Owner[i] \in Ranks
  BY <1>1, <1>3, Uncleared, View
<1>5. /\ \A i \in waiting : i \in queries[Owner[i]][Data[i].parent]
      /\ \A r \in Ranks : \A p \in Items :
           /\ \A i \in queries[r][p] : Data[i].parent = p /\ p # i /\ Owner[i] = r
           /\ queries[r][p] # {} => Asked(r, p)
      /\ \A i \in Items : i \notin waiting => RootIn(Data)[i] = Data[i].parent
      /\ \A p \in Items : held[p] # {} => p \in waiting
  BY <1>1, <1>2, <1>3, <1>4 DEF Waits
<1>6. waiting \in SUBSET Items /\ \A i \in Items : Data[i].parent \in Items
  BY <1>1, View DEF Types, DataTypes
<1>7. ASSUME NEW i \in waiting PROVE Data[i].parent \in waiting /\ Data[i].parent # i
  <2> DEFINE p == Data[i].parent
             r == Owner[i]
  <2>1. i \in Items /\ p \in Items /\ r \in Ranks /\ i \in queries[r][p]
    BY <1>4, <1>5, <1>6, <1>7
  <2>2. Asked(r, p) /\ p # i
    BY <1>5, <2>1
  <2>3. r \in held[p]
    BY <1>2, <2>2 DEF Asked
  <2>4. QED
    BY <1>5, <2>1, <2>2, <2>3
<1>8. waiting = {}
  <2>1. SUFFICES ASSUME NEW i \in waiting PROVE FALSE
    OBVIOUS
  <2> DEFINE p == Par(Data)
  <2>2. Rising(p, Rnk(Data)) /\ \A j \in Items : p[j] = Data[j].parent
    BY <1>1, ForestRises
  <2>3. \A j \in waiting : p[j] \in waiting
    BY <1>6, <1>7, <2>2
  <2> HIDE DEF p
  <2>4. Roots(p)[i] \in waiting
    BY <1>6, <2>1, <2>2, <2>3, Closed
  <2>5. RootIn(Data)[i] \in waiting
    BY <2>4 DEF p, RootIn
  <2>6. Data[RootIn(Data)[i]].parent = RootIn(Data)[i]
    BY <1>1, <1>6, <2>1, Roof
  <2>7. QED
    BY <1>7, <2>5, <2>6
<1>9. QED
  BY <1>4, <1>5, <1>8

\* There are as many sets of items of K as there are roots in K.
LEMMA CountRoots ==
  ASSUME NEW d, NEW K, Forest(d, K)
  PROVE  Cardinality({i \in K : d[i].parent = i}) =
         Cardinality({{j \in K : RootIn(d)[j] = RootIn(d)[i]} : i \in K})
<1> DEFINE R == RootIn(d)
           S == {i \in K : d[i].parent = i}
           C(i) == {j \in K : R[j] = R[i]}
           T == {C(i) : i \in K}
           f == [i \in S |-> C(i)]
<1>1. K \subseteq Items /\ IsFiniteSet(Items)
  BY DisjointSetAssumption DEF Forest
<1>2. \A i \in K : R[i] \in K /\ d[R[i]].parent = R[i] /\ R[R[i]] = R[i] /\ (d[i].parent = i <=> R[i] = i)
  BY <1>1, Roof, RootKnown
<1> HIDE DEF R
<1>3. IsFiniteSet(S)
  BY <1>1, FS_Subset
<1>4. f \in [S -> T]
  OBVIOUS
<1>5. \A x, y \in S : f[x] = f[y] => x = y
  <2>1. SUFFICES ASSUME NEW x \in S, NEW y \in S, C(x) = C(y) PROVE x = y
    OBVIOUS
  <2>2. x \in C(y)
    BY <2>1
  <2>3. QED
    BY <1>2, <2>2
<1>6. \A t \in T : \E x \in S : f[x] = t
  <2>1. SUFFICES ASSUME NEW i \in K PROVE \E x \in S : f[x] = C(i)
    OBVIOUS
  <2>2. R[i] \in S /\ C(R[i]) = C(i)
    BY <1>2
  <2>3. QED
    BY <2>2
<1>7. Cardinality(T) = Cardinality(S)
  <2> HIDE DEF S, T, f
  <2>1. QED
    BY <1>3, <1>4, <1>5, <1>6, CountBijection
<1>8. QED
  BY <1>7 DEF R

\* The sets of SetsIn.
LEMMA OneRoots ==
  ASSUME NEW R, NEW S
  PROVE  UNION {{{j \in S : root[j] = root[i]} : i \in S} : root \in {R}}
           = {{j \in S : R[j] = R[i]} : i \in S}
OBVIOUS

\* When a collective operation returns it has done what it promises: all_compress,
\* whose answers wait for each other along the ways up, has left roots as parents,
\* and unions that were called are over.
THEOREM BarriersExact == Spec => []BarrierExact
<1>1. DsInv => CompressedToRoots
  <2>1. SUFFICES ASSUME DsInv, op = "compress", InBarrier("last")
                 PROVE  /\ waiting = {} /\ \A i \in Items : held[i] = {}
                        /\ \A p \in Reps : p[2] = RootOf[p[1]]
    BY DEF CompressedToRoots
  <2>2. RootOf = RootIn(Data) /\ known \subseteq Items
    BY <2>1, View DEF DsInv, Types
  <2>3. QED
    BY <2>1, <2>2, NoneWaits DEF Reps
<1>2. DsInv => BarrierSettles
  <2>1. SUFFICES ASSUME DsInv, op # "none", InBarrier("enter") \/ InBarrier("last")
                 PROVE  /\ \A c \in Calls : verdict[c] # "open"
                        /\ num_sets = Cardinality(SetsIn(known))
                        /\ \A r \in Ranks : \A f \in found[r] : f[2] = RootOf[f[1]]
    BY DEF BarrierSettles
  <2>2. Types /\ Forest(Data, Known) /\ Walks /\ Finds
    BY <2>1 DEF DsInv, Trees
  <2>3. Mail = {} /\ \A r \in Ranks : ~Cleared(r)
    BY <2>1 DEF InBarrier, All, Mail, EmptyBag, BagToSet, SetToBag, Cleared
  <2>4. Data = data /\ Known = known /\ RootOf = RootIn(Data)
    BY <2>2, <2>3, Uncleared, View
  <2>5. num_sets = Cardinality(SetsIn(known))
    <3> DEFINE R == RootIn(Data)
    <3>1. SetsIn(known) = {{j \in known : R[j] = R[i]} : i \in known}
      BY <2>4, OneRoots DEF SetsIn
    <3> HIDE DEF R
    <3>2. num_sets = Cardinality({i \in Known : Data[i].parent = i})
      BY <2>4 DEF num_sets
    <3>3. QED
      BY <2>2, <2>4, <3>1, <3>2, CountRoots DEF R
  <2>6. QED
    BY <2>2, <2>3, <2>4, <2>5 DEF Walks, Finds
<1>3. QED
  BY <1>1, <1>2, Inductive, PTL DEF BarrierExact

\* The items that have the same root.
ClassIn(R, i) == {j \in Items : R[j] = R[i]}
ClassesIn(R) == {ClassIn(R, i) : i \in Items}

\* The classes are a partition, and the class of an item is the one that has it.
LEMMA Classes ==
  ASSUME NEW R
  PROVE  /\ UNION ClassesIn(R) = Items /\ {} \notin ClassesIn(R)
         /\ \A S, T \in ClassesIn(R) : S = T \/ S \cap T = {}
         /\ \A i \in Items : (CHOOSE S \in ClassesIn(R) : i \in S) = ClassIn(R, i)
<1>1. \A i \in Items : i \in ClassIn(R, i) /\ ClassIn(R, i) \subseteq Items
  BY DEF ClassIn
<1>2. \A i, j \in Items : i \in ClassIn(R, j) => ClassIn(R, j) = ClassIn(R, i)
  BY DEF ClassIn
<1>3. \A S \in ClassesIn(R) : \E i \in Items : S = ClassIn(R, i)
  BY DEF ClassesIn
<1>4. \A i \in Items : ClassIn(R, i) \in ClassesIn(R)
  BY DEF ClassesIn
<1>5. ASSUME NEW i \in Items PROVE (CHOOSE S \in ClassesIn(R) : i \in S) = ClassIn(R, i)
  <2>1. \A S \in ClassesIn(R) : i \in S => S = ClassIn(R, i)
    BY <1>2, <1>3
  <2>2. \E S \in ClassesIn(R) : i \in S
    BY <1>1, <1>4
  <2>3. QED
    BY <2>1, <2>2
<1>6. \A S, T \in ClassesIn(R) : S = T \/ S \cap T = {}
  BY <1>1, <1>2, <1>3
<1>7. QED
  BY <1>1, <1>3, <1>4, <1>5, <1>6

\* One root goes under another: their two classes become one.
LEMMA ClassesJoin ==
  ASSUME NEW c \in Calls, NEW old, NEW new, Joined(c, old, new)
  PROVE  /\ ClassIn(old, c.a) # ClassIn(old, c.b)
         /\ ClassesIn(new) = (ClassesIn(old) \ {ClassIn(old, c.a), ClassIn(old, c.b)})
                               \cup {ClassIn(old, c.a) \cup ClassIn(old, c.b)}
<1>1. c.a \in Items /\ c.b \in Items /\ old[c.a] # old[c.b]
  BY DisjointSetAssumption DEF Joined
<1>2. PICK x, y \in {old[c.a], old[c.b]} :
        x # y /\ \A i \in Items : new[i] = IF old[i] = x THEN y ELSE old[i]
  BY DEF Joined
<1>3. {x, y} = {old[c.a], old[c.b]}
  BY <1>1, <1>2
<1> DEFINE A == ClassIn(old, c.a)
           B == ClassIn(old, c.b)
<1>4. \A i \in Items : old[i] \in {x, y} => ClassIn(new, i) = A \cup B
  BY <1>1, <1>2, <1>3 DEF ClassIn
<1>5. \A i \in Items : old[i] \notin {x, y} => ClassIn(new, i) = ClassIn(old, i)
  BY <1>1, <1>2, <1>3 DEF ClassIn
<1>6. \A i \in Items : i \in ClassIn(old, i)
  BY DEF ClassIn
<1>7. \A i \in Items : (old[i] \in {x, y} <=> ClassIn(old, i) \in {A, B})
  BY <1>1, <1>3, <1>6 DEF ClassIn
<1>8. A # B
  BY <1>1, <1>6 DEF ClassIn
<1>9. \A S \in ClassesIn(new) : S = A \cup B \/ (S \in ClassesIn(old) /\ S \notin {A, B})
  BY <1>4, <1>5, <1>7 DEF ClassesIn
<1>10. \A S \in ClassesIn(old) : S \notin {A, B} => S \in ClassesIn(new)
  BY <1>5, <1>7 DEF ClassesIn
<1>11. A \cup B \in ClassesIn(new)
  BY <1>1, <1>3, <1>4 DEF ClassesIn
<1>12. QED
  BY <1>8, <1>9, <1>10, <1>11

\* Unions in flight, short cuts, caches and collective operations keep the
\* promise of an abstract partition whose sets are joined in one step.
THEOREM KeepsPartition == Spec => PartitionKept
<1>1. ASSUME DsInv PROVE SetsIn(Items) = ClassesIn(RootIn(Data))
  <2>1. RootOf = RootIn(Data)
    BY <1>1, View DEF DsInv
  <2>2. QED
    BY <2>1, OneRoots DEF SetsIn, ClassesIn, ClassIn
<1>2. Init => Promise!Init
  <2>1. SUFFICES ASSUME Init PROVE Promise!Init
    OBVIOUS
  <2>2. SetsIn(Items) = ClassesIn(RootIn(Data)) /\ verdict = [c \in Calls |-> "none"]
    BY <1>1, <2>1, Initial DEF Init
  <2>3. QED
    BY <2>2, Classes DEF Promise!Init
<1>3. DsInv /\ [Next]_vars => [Promise!Next]_<<SetsIn(Items), verdict>>
  <2>1. SUFFICES ASSUME DsInv, [Next]_vars PROVE [Promise!Next]_<<SetsIn(Items), verdict>>
    OBVIOUS
  <2>2. DsInv' /\ Course
    BY <2>1, StepKeeps
  <2>3. SetsIn(Items) = ClassesIn(RootIn(Data)) /\ SetsIn(Items)' = ClassesIn(RootIn(Data'))
    <3>1. SetsIn(Items) = ClassesIn(RootIn(Data))
      BY <1>1, <2>1
    <3>2. RootOf' = RootIn(Data')
      BY DEF RootOf, RootIn, Par
    <3>3. SetsIn(Items)' = ClassesIn(RootIn(Data'))
      BY <3>2, OneRoots DEF SetsIn, ClassesIn, ClassIn
    <3>4. QED
      BY <3>1, <3>3
  <2>4. \A i \in Items : Promise!Class(i) = ClassIn(RootIn(Data), i)
    BY <2>3, Classes DEF Promise!Class
  <2>5. CASE UNCHANGED verdict /\ RootIn(Data') = RootIn(Data)
    BY <2>3, <2>5
  <2>6. ASSUME NEW c \in Calls,
               \/ /\ verdict[c] = "none" /\ verdict' = [verdict EXCEPT ![c] = "open"]
                  /\ RootIn(Data') = RootIn(Data)
               \/ /\ verdict[c] = "open" /\ verdict' = [verdict EXCEPT ![c] = "same"]
                  /\ RootIn(Data') = RootIn(Data) /\ RootIn(Data)[c.a] = RootIn(Data)[c.b]
               \/ /\ verdict[c] = "open" /\ verdict' = [verdict EXCEPT ![c] = "joined"]
                  /\ Joined(c, RootIn(Data), RootIn(Data'))
        PROVE  Promise!Next
    <3>1. c.a \in Items /\ c.b \in Items
      BY DisjointSetAssumption
    <3>2. CASE /\ verdict[c] = "none" /\ verdict' = [verdict EXCEPT ![c] = "open"]
               /\ RootIn(Data') = RootIn(Data)
      BY <2>3, <3>2 DEF Promise!Next, Promise!Ask, Promise!Set
    <3>3. CASE /\ verdict[c] = "open" /\ verdict' = [verdict EXCEPT ![c] = "same"]
               /\ RootIn(Data') = RootIn(Data) /\ RootIn(Data)[c.a] = RootIn(Data)[c.b]
      <4>1. ClassIn(RootIn(Data), c.a) = ClassIn(RootIn(Data), c.b)
        BY <3>3 DEF ClassIn
      <4>2. QED
        BY <2>3, <2>4, <3>1, <3>3, <4>1 DEF Promise!Next, Promise!Same, Promise!Set
    <3>4. CASE /\ verdict[c] = "open" /\ verdict' = [verdict EXCEPT ![c] = "joined"]
               /\ Joined(c, RootIn(Data), RootIn(Data'))
      <4> DEFINE old == RootIn(Data)
      <4>1. PICK new : new = RootIn(Data')
        OBVIOUS
      <4>2. Joined(c, old, new) /\ SetsIn(Items) = ClassesIn(old) /\ SetsIn(Items)' = ClassesIn(new)
            /\ Promise!Class(c.a) = ClassIn(old, c.a) /\ Promise!Class(c.b) = ClassIn(old, c.b)
        BY <2>3, <2>4, <3>1, <3>4, <4>1
      <4> HIDE DEF old
      <4>3. /\ ClassIn(old, c.a) # ClassIn(old, c.b)
            /\ ClassesIn(new) = (ClassesIn(old) \ {ClassIn(old, c.a), ClassIn(old, c.b)})
                                  \cup {ClassIn(old, c.a) \cup ClassIn(old, c.b)}
        BY <4>2, ClassesJoin
      <4>4. Promise!Join(c)
        BY <3>4, <4>2, <4>3 DEF Promise!Join, Promise!Set
      <4>5. QED
        BY <4>4 DEF Promise!Next
    <3>5. QED
      BY <2>6, <3>2, <3>3, <3>4
  <2>7. CASE /\ UNCHANGED verdict /\ \A c \in Calls : verdict[c] # "open"
             /\ \A i \in Items : RootIn(Data')[i] = i
    <3>1. SetsIn(Items)' = {{i} : i \in Items}
      <4>1. PICK new : new = RootIn(Data')
        OBVIOUS
      <4>2. \A i \in Items : ClassIn(new, i) = {i}
        BY <2>7, <4>1 DEF ClassIn
      <4>3. ClassesIn(new) = {{i} : i \in Items}
        BY <4>2 DEF ClassesIn
      <4>4. QED
        BY <2>3, <4>1, <4>3
    <3>2. QED
      BY <2>7, <3>1 DEF Promise!Next, Promise!Clear
  <2>8. QED
    BY <2>2, <2>5, <2>6, <2>7 DEF Course
<1>4. QED
  BY <1>2, <1>3, Inductive, PTL DEF Spec, Promise!Spec, PartitionKept
=============================================================================
