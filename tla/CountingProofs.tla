--------------------------- MODULE CountingProofs ---------------------------
(***************************************************************************)
(* Proofs about CountingCache: of a program as NeverBoth says, no count is *)
(* lost or sent twice while caches are filled, flushed and interrupted,    *)
(* and a barrier leaves every count exact.                                 *)
(***************************************************************************)
EXTENDS CountingCache, ProofFacts

-----------------------------------------------------------------------------
(***************************************************************************)
(* The inductive invariant.                                                *)
(***************************************************************************)
Flushes ==
  [op : {"flush"}, set : Sets, slot : Slots, key : Keys, count : 1..MaxCount,
   fill : Keys \cup {None}, packed : BOOLEAN]

Counts == [key : Keys, count : 1..MaxCount]

Visits == [op : {"visit"}, to : Ranks, set : Sets, key : Keys, add : 1..MaxCount]
UserMsgs == [op : {"insert"}, to : Ranks, set : Sets, key : Keys]
Messages == Visits \cup UserMsgs

Types ==
  /\ use \in Uses /\ call \in {"barrier", "copy", "clear"}
  /\ {Orig} \subseteq built /\ built \subseteq Sets
  /\ cache \in [Sets -> [Ranks -> [Slots -> Entries]]]
  /\ empty \in [Sets -> [Ranks -> BOOLEAN]]
  /\ hooks \in [Ranks -> Seq(Sets)]
  /\ map \in [Sets -> [Keys -> Nat]] /\ ins \in [Sets -> [Keys -> Nat]]
  /\ stack \in [Ranks -> Seq(FrameTypes)]
  /\ left \in 0..MaxInserts

\* Only a program whose handlers insert has insertions in flight.
NetSound ==
  /\ IsABag(net) /\ IsFiniteSet(BagToSet(net)) /\ BagToSet(net) \subseteq Messages
  /\ \A m \in BagToSet(net) : m.op = "insert" => use.handlers

\* The slots of c before s have been flushed.
Swept(r, c, s) == \A t \in Slots : t < s => cache[c][r][t] = Free

\* A flush returns to the insertion it was called from, or to a callback, which
\* is one slot further.
Between(r) == stack[r] = <<App>>
Inserting(r) == \E f \in Flushes : stack[r] = <<f, App>>
Waiting(r) == \E h \in BOOLEAN : stack[r] = <<Barrier(h), App>>
Sweeping(r) ==
  \E c \in Sets, s \in 1..NumSlots + 1 :
    stack[r] = <<FlushAll(c, s), Barrier(TRUE), App>> /\ Swept(r, c, s)
SweepFlushing(r) ==
  \E f \in Flushes, c \in Sets, s \in 1..NumSlots + 1 :
    /\ stack[r] = <<f, FlushAll(c, s), Barrier(TRUE), App>>
    /\ f.set = c /\ f.slot = s - 1 /\ f.fill = None
    /\ Swept(r, c, s - 1)

Shape(r) == Between(r) \/ Inserting(r) \/ Waiting(r) \/ Sweeping(r) \/ SweepFlushing(r)

\* Nothing changes a slot while it is flushed.
FlushSound(r) ==
  Top(r).op = "flush" =>
    /\ cache[Top(r).set][r][Top(r).slot] = Entry(Top(r).key, Top(r).count)
    /\ Slot[Top(r).key] = Top(r).slot
    /\ Top(r).fill # None => Slot[Top(r).fill] = Top(r).slot /\ Top(r).fill # Top(r).key

FlushOf(r, c, s) == Top(r).op = "flush" /\ Top(r).set = c /\ Top(r).slot = s

\* A full count is on its way out; a cache with a count is not marked empty.
SlotsSound(r) ==
  \A c \in Sets, s \in Slots :
    cache[c][r][s] # Free =>
      /\ cache[c][r][s] \in Counts
      /\ Slot[cache[c][r][s].key] = s
      /\ cache[c][r][s].count = MaxCount => FlushOf(r, c, s)
      /\ ~empty[c][r]

Hooked(r, c) == \E i \in DOMAIN hooks[r] : hooks[r][i] = c
Sweeps(r, c) == \E i \in DOMAIN stack[r] : stack[r][i].op = "flushall" /\ stack[r][i].set = c

\* A cache that is not marked empty has its callback, registered or running.
HooksSound(r) == \A c \in Sets : ~empty[c][r] => Hooked(r, c) \/ Sweeps(r, c)

RankSound(r) == Shape(r) /\ FlushSound(r) /\ SlotsSound(r) /\ HooksSound(r)

\* A copy and a clear find nothing in flight, in a cache or registered.
Quiet ==
  call # "barrier" =>
    /\ net = EmptyBag
    /\ \A r \in Ranks :
         /\ hooks[r] = <<>> /\ stack[r] \in {<<App>>, <<Barrier(FALSE), App>>}
         /\ \A c \in Sets : empty[c][r]

Conserved == \A c \in Sets, k \in Keys : ins[c][k] = map[c][k] + Sent(c, k) + Held(c, k)

IInv == Types /\ NetSound /\ (\A r \in Ranks : RankSound(r)) /\ Quiet /\ Conserved

-----------------------------------------------------------------------------
(***************************************************************************)
(* Stacks, bags and sums.                                                  *)
(***************************************************************************)
\* Four frames: a flush that a callback has called.
LEMMA Push4 ==
  ASSUME NEW a, NEW b, NEW c, NEW d
  PROVE  <<a>> \o <<b, c, d>> = <<a, b, c, d>>
<1> DEFINE S == {a, b, c, d}
<1>1. a \in S /\ <<b, c, d>> \in Seq(S)
  OBVIOUS
<1>2. <<a, b, c, d>> \in Seq(S) /\ Len(<<a, b, c, d>>) = 4
  OBVIOUS
<1> DEFINE t == <<b, c, d>>
           u == <<a>> \o t
           v == <<a, b, c, d>>
<1>3. Len(t) = 3 /\ t[1] = b /\ t[2] = c /\ t[3] = d
  OBVIOUS
<1>4. v \in Seq(S) /\ Len(v) = 4 /\ v[1] = a /\ v[2] = b /\ v[3] = c /\ v[4] = d
  BY <1>2
<1> HIDE DEF t, v
<1>5. u \in Seq(S) /\ Len(u) = Len(t) + 1 /\ u[1] = a /\ \A i \in 1..Len(t) : u[i + 1] = t[i]
  BY <1>1, Cons DEF t
<1> HIDE DEF u, S
<1>6. \A i \in 1..Len(u) : u[i] = v[i]
  BY <1>3, <1>4, <1>5
<1>7. u = v
  BY <1>3, <1>4, <1>5, <1>6, SeqEqual
<1>8. QED
  BY <1>7 DEF u, t, v

\* What is left of four frames when the first returns.
LEMMA Tail4 ==
  ASSUME NEW a, NEW b, NEW c, NEW d
  PROVE  Tail(<<a, b, c, d>>) = <<b, c, d>>
<1> DEFINE S == {a, b, c, d}
<1>1. a \in S /\ <<b, c, d>> \in Seq(S)
  OBVIOUS
<1> HIDE DEF S
<1>2. Tail(<<a>> \o <<b, c, d>>) = <<b, c, d>>
  BY <1>1, ConsTail
<1>3. <<a>> \o <<b, c, d>> = <<a, b, c, d>>
  BY Push4
<1>4. QED
  BY <1>2, <1>3

\* The first of four frames is the one that runs.
LEMMA Head4 ==
  ASSUME NEW a, NEW b, NEW c, NEW d
  PROVE  Head(<<a, b, c, d>>) = a
OBVIOUS

\* Three frames: a callback that flushes, in a barrier.
LEMMA Push3 ==
  ASSUME NEW a, NEW b, NEW c
  PROVE  <<a>> \o <<b, c>> = <<a, b, c>>
<1> DEFINE S == {a, b, c}
<1>1. a \in S /\ <<b, c>> \in Seq(S)
  OBVIOUS
<1>2. <<a, b, c>> \in Seq(S) /\ Len(<<a, b, c>>) = 3
  OBVIOUS
<1> DEFINE t == <<b, c>>
           u == <<a>> \o t
           v == <<a, b, c>>
<1>3. Len(t) = 2 /\ t[1] = b /\ t[2] = c
  OBVIOUS
<1>4. v \in Seq(S) /\ Len(v) = 3 /\ v[1] = a /\ v[2] = b /\ v[3] = c
  BY <1>2
<1> HIDE DEF t, v
<1>5. u \in Seq(S) /\ Len(u) = Len(t) + 1 /\ u[1] = a /\ \A i \in 1..Len(t) : u[i + 1] = t[i]
  BY <1>1, Cons DEF t
<1> HIDE DEF u, S
<1>6. \A i \in 1..Len(u) : u[i] = v[i]
  BY <1>3, <1>4, <1>5
<1>7. u = v
  BY <1>3, <1>4, <1>5, <1>6, SeqEqual
<1>8. QED
  BY <1>7 DEF u, t, v

\* Two frames on top of one: a callback and its barrier, on the application.
LEMMA Push21 ==
  ASSUME NEW a, NEW b, NEW c
  PROVE  <<a, b>> \o <<c>> = <<a, b, c>>
<1> DEFINE S == {a, b, c}
<1>1. a \in S /\ b \in S /\ <<c>> \in Seq(S)
  OBVIOUS
<1> HIDE DEF S
<1>2. <<a, b>> \o <<c>> = <<a>> \o (<<b>> \o <<c>>)
  BY <1>1, TwoCons
<1>3. <<b>> \o <<c>> = <<b, c>>
  <2> DEFINE t == <<c>>
             u == <<b>> \o t
             v == <<b, c>>
  <2>1. Len(t) = 1 /\ t[1] = c
    OBVIOUS
  <2>2. v \in Seq(S) /\ Len(v) = 2 /\ v[1] = b /\ v[2] = c
    BY <1>1
  <2> HIDE DEF t, v
  <2>3. u \in Seq(S) /\ Len(u) = Len(t) + 1 /\ u[1] = b /\ \A i \in 1..Len(t) : u[i + 1] = t[i]
    BY <1>1, Cons DEF t
  <2> HIDE DEF u
  <2>4. \A i \in 1..Len(u) : u[i] = v[i]
    BY <2>1, <2>2, <2>3
  <2>5. u = v
    BY <2>1, <2>2, <2>3, <2>4, SeqEqual
  <2>6. QED
    BY <2>5 DEF u, t, v
<1>4. QED
  BY <1>2, <1>3, Push3

\* Taking the top off a stack, and putting one on.
LEMMA Stacks ==
  ASSUME NEW a, NEW b, NEW c
  PROVE  /\ Head(<<a, b>>) = a /\ Tail(<<a, b>>) = <<b>>
         /\ Head(<<a, b, c>>) = a /\ Tail(<<a, b, c>>) = <<b, c>>
         /\ <<a>> \o <<b>> = <<a, b>>
         /\ <<a>> \o <<b, c>> = <<a, b, c>>
<1> DEFINE S == {a, b, c}
<1>1. a \in S /\ <<b>> \in Seq(S) /\ <<b, c>> \in Seq(S)
  OBVIOUS
<1>2. /\ <<a, b>> \in Seq(S) /\ <<a, b, c>> \in Seq(S)
      /\ Len(<<a, b>>) = 2 /\ Len(<<a, b, c>>) = 3
  OBVIOUS
<1>3. <<a>> \o <<b>> = <<a, b>>
  <2> DEFINE t == <<b>>
             u == <<a>> \o t
             v == <<a, b>>
  <2>1. Len(t) = 1 /\ t[1] = b
    OBVIOUS
  <2>2. v \in Seq(S) /\ Len(v) = 2 /\ v[1] = a /\ v[2] = b
    BY <1>2
  <2> HIDE DEF t, v
  <2>3. u \in Seq(S) /\ Len(u) = Len(t) + 1 /\ u[1] = a /\ \A i \in 1..Len(t) : u[i + 1] = t[i]
    BY <1>1, Cons DEF t
  <2> HIDE DEF u, S
  <2>4. \A i \in 1..Len(u) : u[i] = v[i]
    BY <2>1, <2>2, <2>3
  <2>5. u = v
    BY <2>1, <2>2, <2>3, <2>4, SeqEqual
  <2>6. QED
    BY <2>5 DEF u, t, v
<1>4. <<a>> \o <<b, c>> = <<a, b, c>>
  BY Push3
<1> HIDE DEF S
<1>6. Head(<<a>> \o <<b>>) = a /\ Tail(<<a>> \o <<b>>) = <<b>>
  BY <1>1, ConsTail
<1>7. Head(<<a>> \o <<b, c>>) = a /\ Tail(<<a>> \o <<b, c>>) = <<b, c>>
  BY <1>1, ConsTail
<1>8. QED
  BY <1>3, <1>4, <1>6, <1>7

\* What is in flight when m is sent ...
LEMMA PlusOne ==
  ASSUME NEW n, NEW m, IsABag(n)
  PROVE  /\ IsABag(Plus(n, m))
         /\ BagToSet(Plus(n, m)) = BagToSet(n) \cup {m}
         /\ \A x \in BagToSet(n) : x # m => Plus(n, m)[x] = n[x]
         /\ Plus(n, m)[m] = (IF m \in BagToSet(n) THEN n[m] ELSE 0) + 1
         /\ \A x \in BagToSet(n) : n[x] \in Nat \ {0}
BY DEF BagToSet, Plus, SetToBag, (+), IsABag

\* ... and when m is received.
LEMMA RestOne ==
  ASSUME IsABag(net), NEW m \in BagToSet(net)
  PROVE  /\ IsABag(Rest(m))
         /\ BagToSet(Rest(m)) = IF net[m] = 1 THEN BagToSet(net) \ {m} ELSE BagToSet(net)
         /\ \A x \in BagToSet(net) : x # m => Rest(m)[x] = net[x]
         /\ net[m] # 1 => Rest(m)[m] = net[m] - 1
         /\ \A x \in BagToSet(net) : net[x] \in Nat \ {0}
<1>1. /\ IsABag(Rest(m))
      /\ BagToSet(Rest(m)) = IF net[m] = 1 THEN BagToSet(net) \ {m} ELSE BagToSet(net)
  BY DEF BagToSet, SetToBag, (-), IsABag, Rest
<1>2. QED
  BY <1>1 DEF BagToSet, SetToBag, (-), IsABag, Rest

\* The counts of key k of c that messages n carry: Sent, of any messages.
SentIn(n, c, k) == SumFunction([m \in BagToSet(n) |-> n[m] * Carries(m, c, k)])

\* What a message carries is a natural number, and none for other sets and keys.
LEMMA CarriesNat ==
  ASSUME NEW m \in Messages, NEW c \in Sets, NEW k \in Keys, CountingAssumption
  PROVE  /\ Carries(m, c, k) \in Nat
         /\ Carries(m, c, k) = IF m.set = c /\ m.key = k THEN IF m.op = "visit" THEN m.add ELSE 1 ELSE 0
<1>1. MaxCount \in Nat
  BY DEF CountingAssumption
<1>2. Carries(m, c, k) = IF m.set = c /\ m.key = k THEN IF m.op = "visit" THEN m.add ELSE 1 ELSE 0
  BY DEF Carries
<1>3. m.op = "visit" => m.add \in Nat
  BY <1>1 DEF Messages, Visits, UserMsgs
<1>4. QED
  BY <1>2, <1>3

\* Sums are over the domain of a function.
LEMMA SumOver ==
  ASSUME NEW S, NEW f, DOMAIN f = S
  PROVE  SumFunction(f) = SumFunctionOnSet(f, S)
BY DEF SumFunction

\* Sending adds what the message carries.
LEMMA SentPlus ==
  ASSUME NEW n, IsABag(n), IsFiniteSet(BagToSet(n)), BagToSet(n) \subseteq Messages,
         NEW m \in Messages, NEW c \in Sets, NEW k \in Keys, CountingAssumption
  PROVE  /\ IsABag(Plus(n, m)) /\ IsFiniteSet(BagToSet(Plus(n, m)))
         /\ BagToSet(Plus(n, m)) = BagToSet(n) \cup {m}
         /\ SentIn(n, c, k) \in Nat
         /\ SentIn(Plus(n, m), c, k) = SentIn(n, c, k) + Carries(m, c, k)
<1> DEFINE p == Plus(n, m)
           T == BagToSet(n)
           U == BagToSet(p)
           f == [x \in T |-> n[x] * Carries(x, c, k)]
           g == [x \in U |-> p[x] * Carries(x, c, k)]
           V == T \ {m}
           S(h, X) == SumFunctionOnSet(h, X)
<1>1. /\ IsABag(p) /\ U = T \cup {m} /\ \A x \in T : x # m => p[x] = n[x]
      /\ p[m] = (IF m \in T THEN n[m] ELSE 0) + 1 /\ \A x \in T : n[x] \in Nat \ {0}
  BY PlusOne
<1>2. IsFiniteSet(U) /\ IsFiniteSet(V)
  BY <1>1, FS_AddElement, FS_Subset
<1>3. \A x \in U : x \in Messages /\ Carries(x, c, k) \in Nat
  BY <1>1, CarriesNat
<1> HIDE DEF p, U, T
<1>4. \A x \in T : f[x] \in Nat
  <2>1. ASSUME NEW x \in T PROVE f[x] \in Nat
    <3>1. n[x] \in Nat /\ Carries(x, c, k) \in Nat /\ f[x] = n[x] * Carries(x, c, k)
      BY <1>1, <1>3
    <3>2. QED
      BY <3>1
  <2>2. QED
    BY <2>1
<1>5. \A x \in U : g[x] \in Nat
  <2>1. ASSUME NEW x \in U PROVE g[x] \in Nat
    <3>1. p[x] \in Nat /\ Carries(x, c, k) \in Nat /\ g[x] = p[x] * Carries(x, c, k)
      BY <1>1, <1>3
    <3>2. QED
      BY <3>1
  <2>2. QED
    BY <2>1
<1>6. SentIn(n, c, k) = S(f, T) /\ SentIn(p, c, k) = S(g, U)
  BY SumOver DEF SentIn, T, U
<1>7. \A x \in V : f[x] = g[x]
  BY <1>1
<1>8. g[m] = p[m] * Carries(m, c, k) /\ m \in U /\ U \ {m} = V
  BY <1>1
<1> HIDE DEF f, g
<1>9. S(f, T) \in Nat /\ S(g, U) \in Nat
  <2>1. IsFiniteSet(T)
    BY DEF T
  <2>2. QED
    BY <1>2, <1>4, <1>5, <2>1, SumNat
<1>10. S(f, V) = S(g, V)
  BY <1>2, <1>7, SumSame
<1>11. S(g, U \ {m}) \in Int /\ S(g, U) = g[m] + S(g, U \ {m})
  <2>1. \A x \in U : g[x] \in Int
    BY <1>5
  <2>2. \A x \in U : S(g, U \ {x}) \in Int /\ S(g, U) = g[x] + S(g, U \ {x})
    BY <1>2, <2>1, SumTake
  <2> HIDE DEF S
  <2>3. QED
    BY <1>8, <2>2
<1>12. S(g, U) = S(f, T) + Carries(m, c, k)
  <2>1. CASE m \notin T
    <3>1. V = T
      BY <2>1
    <3>2. p[m] = 1 /\ Carries(m, c, k) \in Nat
      BY <1>1, <1>3, <1>8, <2>1
    <3>3. g[m] = Carries(m, c, k)
      BY <1>8, <3>2
    <3>4. S(g, V) = S(f, T) /\ S(g, U) = g[m] + S(g, V)
      BY <1>8, <1>10, <1>11, <3>1
    <3> HIDE DEF S
    <3>5. QED
      BY <1>9, <3>2, <3>3, <3>4
  <2>2. CASE m \in T
    <3>1. S(f, T \ {m}) \in Int /\ S(f, T) = f[m] + S(f, T \ {m})
      <4>1. \A x \in T : f[x] \in Int
        BY <1>4
      <4>2. IsFiniteSet(T)
        BY DEF T
      <4>3. \A x \in T : S(f, T \ {x}) \in Int /\ S(f, T) = f[x] + S(f, T \ {x})
        BY <4>1, <4>2, SumTake
      <4> HIDE DEF S
      <4>4. QED
        BY <2>2, <4>3
    <3>2. p[m] = n[m] + 1 /\ n[m] \in Nat /\ Carries(m, c, k) \in Nat
      BY <1>1, <1>3, <1>8, <2>2
    <3>3. f[m] = n[m] * Carries(m, c, k)
      BY <2>2 DEF f
    <3>4. g[m] = f[m] + Carries(m, c, k) /\ f[m] \in Nat
      BY <1>4, <1>8, <2>2, <3>2, <3>3
    <3>5. S(g, V) = S(f, V) /\ S(g, U) = g[m] + S(g, V) /\ S(f, T) = f[m] + S(f, V) /\ S(f, V) \in Int
      BY <1>8, <1>10, <1>11, <3>1
    <3> HIDE DEF S
    <3>6. QED
      BY <1>9, <3>2, <3>4, <3>5
  <2>3. QED
    BY <2>1, <2>2
<1>13. QED
  BY <1>1, <1>2, <1>6, <1>9, <1>12 DEF p, U, T

\* Receiving subtracts it.
LEMMA SentRest ==
  ASSUME IsABag(net), IsFiniteSet(BagToSet(net)), BagToSet(net) \subseteq Messages,
         NEW m \in BagToSet(net), NEW c \in Sets, NEW k \in Keys, CountingAssumption
  PROVE  /\ IsABag(Rest(m)) /\ IsFiniteSet(BagToSet(Rest(m)))
         /\ BagToSet(Rest(m)) \subseteq BagToSet(net)
         /\ SentIn(Rest(m), c, k) \in Nat
         /\ SentIn(net, c, k) = SentIn(Rest(m), c, k) + Carries(m, c, k)
<1> DEFINE n == Rest(m)
<1>1. /\ IsABag(n)
      /\ BagToSet(n) = IF net[m] = 1 THEN BagToSet(net) \ {m} ELSE BagToSet(net)
      /\ \A x \in BagToSet(net) : x # m => n[x] = net[x]
      /\ net[m] # 1 => n[m] = net[m] - 1
      /\ \A x \in BagToSet(net) : net[x] \in Nat \ {0}
  BY RestOne
<1>2. IsFiniteSet(BagToSet(n)) /\ BagToSet(n) \subseteq BagToSet(net)
  BY <1>1, FS_Subset
<1> HIDE DEF n
<1>3. Plus(n, m) = net
  <2>1. /\ IsABag(Plus(n, m)) /\ BagToSet(Plus(n, m)) = BagToSet(n) \cup {m}
        /\ \A x \in BagToSet(n) : x # m => Plus(n, m)[x] = n[x]
        /\ Plus(n, m)[m] = (IF m \in BagToSet(n) THEN n[m] ELSE 0) + 1
    BY <1>1, PlusOne
  <2>2. BagToSet(Plus(n, m)) = BagToSet(net)
    BY <1>1, <2>1
  <2>3. \A x \in BagToSet(net) : Plus(n, m)[x] = net[x]
    BY <1>1, <2>1
  <2>4. DOMAIN Plus(n, m) = BagToSet(net) /\ DOMAIN net = BagToSet(net)
    BY <2>2 DEF BagToSet
  <2>5. Plus(n, m) = [x \in BagToSet(net) |-> Plus(n, m)[x]] /\ net = [x \in BagToSet(net) |-> net[x]]
    BY <2>1, <2>4 DEF IsABag
  <2>6. [x \in BagToSet(net) |-> Plus(n, m)[x]] = [x \in BagToSet(net) |-> net[x]]
    BY <2>3
  <2>7. QED
    BY <2>5, <2>6
<1>4. m \in Messages /\ BagToSet(n) \subseteq Messages
  BY <1>2
<1>5. SentIn(n, c, k) \in Nat /\ SentIn(Plus(n, m), c, k) = SentIn(n, c, k) + Carries(m, c, k)
  <2>1. IsABag(n) /\ IsFiniteSet(BagToSet(n)) /\ BagToSet(n) \subseteq Messages /\ m \in Messages
    BY <1>1, <1>2, <1>4
  <2>2. SentIn(n, c, k) \in Nat
    BY <2>1, SentPlus
  <2>3. SentIn(Plus(n, m), c, k) = SentIn(n, c, k) + Carries(m, c, k)
    BY <2>1, SentPlus
  <2>4. QED
    BY <2>2, <2>3
<1>6. QED
  BY <1>1, <1>2, <1>3, <1>5 DEF n

\* Only what one rank holds changes.
LEMMA HeldChange ==
  ASSUME CountingAssumption, NEW r \in Ranks, NEW c, NEW k,
         \A q \in Ranks : Holds(q, c, k) \in Int /\ Holds(q, c, k)' \in Int,
         \A q \in Ranks \ {r} : Holds(q, c, k)' = Holds(q, c, k)
  PROVE  /\ Held(c, k) \in Int /\ Held(c, k)' \in Int
         /\ Held(c, k)' - Holds(r, c, k)' = Held(c, k) - Holds(r, c, k)
<1> DEFINE f == [q \in Ranks |-> Holds(q, c, k)]
           g == [q \in Ranks |-> Holds(q, c, k)']
<1>1. Held(c, k) = SumFunctionOnSet(f, Ranks) /\ Held(c, k)' = SumFunctionOnSet(g, Ranks)
  BY SumOver DEF Held
<1>2. f[r] = Holds(r, c, k) /\ g[r] = Holds(r, c, k)'
  OBVIOUS
<1>3. \A q \in Ranks : f[q] \in Int /\ g[q] \in Int
  OBVIOUS
<1>4. \A q \in Ranks \ {r} : f[q] = g[q]
  OBVIOUS
<1>5. IsFiniteSet(Ranks)
  BY DEF CountingAssumption
<1> HIDE DEF f, g
<1>6. /\ SumFunctionOnSet(f, Ranks) \in Int /\ SumFunctionOnSet(g, Ranks) \in Int
      /\ SumFunctionOnSet(g, Ranks) - g[r] = SumFunctionOnSet(f, Ranks) - f[r]
  BY <1>3, <1>4, <1>5, SumChange
<1>7. QED
  BY <1>1, <1>2, <1>6

\* Nobody holds anything.
LEMMA HeldZero ==
  ASSUME CountingAssumption, NEW c, NEW k, \A q \in Ranks : Holds(q, c, k) = 0
  PROVE  Held(c, k) = 0
<1> DEFINE f == [q \in Ranks |-> Holds(q, c, k)]
<1>1. Held(c, k) = SumFunctionOnSet(f, Ranks)
  BY SumOver DEF Held
<1>2. IsFiniteSet(Ranks) /\ (\A q \in Ranks : f[q] \in Nat) /\ \A q \in Ranks : f[q] = 0
  BY DEF CountingAssumption
<1> HIDE DEF f
<1>3. SumFunctionOnSet(f, Ranks) = 0
  BY <1>2, SumNat
<1>4. QED
  BY <1>1, <1>3

\* Nothing is in flight.
LEMMA SentZero ==
  ASSUME NEW c, NEW k
  PROVE  BagToSet(EmptyBag) = {} /\ IsABag(EmptyBag) /\ SentIn(EmptyBag, c, k) = 0
<1>1. BagToSet(EmptyBag) = {} /\ IsABag(EmptyBag)
  BY DEF EmptyBag, SetToBag, BagToSet, IsABag
<1>2. SentIn(EmptyBag, c, k) = 0
  BY <1>1, SumOver, SumEmpty DEF SentIn
<1>3. QED
  BY <1>1, <1>2

-----------------------------------------------------------------------------
(***************************************************************************)
(* What a step has to leave true: of the rank that takes it, of the others *)
(* and of what they have together.                                         *)
(***************************************************************************)
\* What is on top says which calls the rank is in.
LEMMA Tops ==
  ASSUME NEW r, Shape(r)
  PROVE  /\ Top(r) = App => Between(r)
         /\ Top(r).op = "barrier" => Waiting(r)
         /\ Top(r).op = "flush" => Inserting(r) \/ SweepFlushing(r)
         /\ Top(r).op = "flushall" => Sweeping(r)
         /\ Top(r).op = "flush" => Top(r) \in Flushes
         /\ Between(r) => Top(r) = App
         /\ Waiting(r) => Top(r).op = "barrier" /\ Below(r) = <<App>>
<1>0. /\ Between(r) => Top(r) = App
      /\ Waiting(r) => Top(r).op = "barrier" /\ Below(r) = <<App>>
  <2>1. Between(r) => Top(r) = App
    BY DEF Between, Top
  <2>2. ASSUME NEW h \in BOOLEAN, stack[r] = <<Barrier(h), App>>
        PROVE  Top(r).op = "barrier" /\ Below(r) = <<App>>
    <3>1. Top(r) = Barrier(h) /\ Below(r) = <<App>>
      BY <2>2, Stacks, Head4 DEF Top, Below
    <3>2. QED
      BY <3>1 DEF Barrier
  <2>3. QED
    BY <2>1, <2>2 DEF Waiting
<1>1. CASE Between(r)
  <2>1. Top(r) = App
    BY <1>0, <1>1
  <2>2. Top(r).op = "app"
    BY <2>1 DEF App
  <2>3. QED
    BY <1>0, <1>1, <2>2
<1>2. CASE Inserting(r)
  <2>1. PICK f \in Flushes : stack[r] = <<f, App>>
    BY <1>2 DEF Inserting
  <2>2. Top(r) = f /\ f.op = "flush"
    BY <2>1, Stacks, Head4 DEF Top, Flushes
  <2>3. QED
    BY <1>0, <1>2, <2>2 DEF App
<1>3. CASE Waiting(r)
  <2>1. PICK h \in BOOLEAN : stack[r] = <<Barrier(h), App>>
    BY <1>3 DEF Waiting
  <2>2. Top(r) = Barrier(h) /\ Below(r) = <<App>>
    BY <2>1, Stacks, Head4 DEF Top, Below
  <2>3. Top(r).op = "barrier"
    BY <2>2 DEF Barrier
  <2>4. QED
    BY <1>0, <1>3, <2>3 DEF App
<1>4. CASE Sweeping(r)
  <2>1. PICK c \in Sets, s \in 1..NumSlots + 1 : stack[r] = <<FlushAll(c, s), Barrier(TRUE), App>>
    BY <1>4 DEF Sweeping
  <2>2. Top(r) = FlushAll(c, s)
    BY <2>1, Stacks, Head4 DEF Top
  <2>3. Top(r).op = "flushall"
    BY <2>2 DEF FlushAll
  <2>4. QED
    BY <1>0, <1>4, <2>3 DEF App
<1>5. CASE SweepFlushing(r)
  <2>1. PICK f \in Flushes, c \in Sets, s \in 1..NumSlots + 1 :
          stack[r] = <<f, FlushAll(c, s), Barrier(TRUE), App>>
    BY <1>5 DEF SweepFlushing
  <2>2. Top(r) = f /\ f.op = "flush"
    BY <2>1, Stacks, Head4 DEF Top, Flushes
  <2>3. QED
    BY <1>0, <1>5, <2>2 DEF App
<1>6. QED
  BY <1>1, <1>2, <1>3, <1>4, <1>5 DEF Shape

\* A flush on top after a step, too.
LEMMA NextTop ==
  ASSUME NEW r
  PROVE  (Shape(r) => (Top(r).op = "flush" => Top(r) \in Flushes))'
<1>1. Shape(r) => (Top(r).op = "flush" => Top(r) \in Flushes)
  BY Tops
<1>2. QED
  BY <1>1, PTL

\* An entry of a cache.
LEMMA EntryFacts ==
  ASSUME CountingAssumption, NEW e \in Entries
  PROVE  /\ e.count \in Int
         /\ e = Free => e.key = None /\ e.count = -1 /\ e.key \notin Keys
         /\ e # Free => e \in Counts
         /\ e # Free => e.key \in Keys /\ e.count \in 1..MaxCount /\ e = Entry(e.key, e.count)
         /\ e.count = -1 <=> e = Free
         /\ e.count > 0 <=> e # Free
         /\ MaxCount \in Nat /\ MaxCount > 1
<1>1. MaxCount \in Nat /\ MaxCount > 1 /\ None \notin Keys
  BY DEF CountingAssumption
<1>2. CASE e = Free
  BY <1>1, <1>2 DEF Free
<1>3. CASE e # Free
  <2>1. e \in Counts
    BY <1>3 DEF Entries, Counts
  <2>2. e.key \in Keys /\ e.count \in 1..MaxCount /\ e = Entry(e.key, e.count)
    BY <2>1 DEF Entry, Counts
  <2>3. e.count \in Int /\ e.count > 0 /\ e.count # -1
    BY <1>1, <2>2
  <2>4. QED
    BY <1>1, <1>3, <2>1, <2>2, <2>3
<1>4. QED
  BY <1>2, <1>3

\* What a rank holds of a key is a number.
LEMMA HoldsInt ==
  ASSUME CountingAssumption, Types, NEW r \in Ranks, Shape(r), NEW c \in Sets, NEW k \in Keys
  PROVE  Holds(r, c, k) \in Int
<1> DEFINE e == cache[c][r][Slot[k]]
           f == Top(r)
<1>1. Slot[k] \in Slots
  BY DEF CountingAssumption, Slots
<1>2. e \in Entries
  BY <1>1 DEF Types
<1>3. e.count \in Int /\ MaxCount \in Nat
  BY <1>2, EntryFacts
<1>4. f.op = "flush" => f.count \in Int
  BY <1>3, Tops DEF Flushes
<1>5. Holds(r, c, k) = (IF e.key = k THEN e.count ELSE 0)
       - (IF (f.op = "flush" /\ f.set = c) /\ f.packed /\ f.key = k THEN f.count ELSE 0)
       + (IF (f.op = "flush" /\ f.set = c) /\ f.fill = k THEN 1 ELSE 0)
  BY DEF Holds
<1> HIDE DEF e, f
<1>6. QED
  BY <1>3, <1>4, <1>5

\* Nothing of rank q changes.
Still(q) ==
  /\ stack'[q] = stack[q] /\ hooks'[q] = hooks[q]
  /\ \A c \in Sets : cache'[c][q] = cache[c][q] /\ empty'[c][q] = empty[c][q]

\* A rank of which nothing changes stays sound and holds what it held.
LEMMA StillSound ==
  ASSUME NEW q, Still(q), RankSound(q)
  PROVE  /\ RankSound(q)'
         /\ \A c \in Sets, k \in Keys : Holds(q, c, k)' = Holds(q, c, k)
<1>1. Top(q)' = Top(q)
  BY DEF Still, Top
<1>2. Shape(q)'
  BY DEF Still, RankSound, Shape, Between, Inserting, Waiting, Sweeping, SweepFlushing, Swept
<1>3. FlushSound(q)'
  <2>1. \A c \in Sets : cache'[c][q] = cache[c][q]
    BY DEF Still
  <2>2. Top(q).op = "flush" => Top(q).set \in Sets
    BY Tops DEF RankSound, Flushes
  <2>3. FlushSound(q)
    BY DEF RankSound
  <2>4. QED
    BY <1>1, <2>1, <2>2, <2>3 DEF FlushSound
<1>4. SlotsSound(q)'
  <2>1. \A c \in Sets : cache'[c][q] = cache[c][q] /\ empty'[c][q] = empty[c][q]
    BY DEF Still
  <2>2. SlotsSound(q)
    BY DEF RankSound
  <2>3. QED
    BY <1>1, <2>1, <2>2 DEF SlotsSound, FlushOf
<1>5. HooksSound(q)'
  BY DEF Still, RankSound, HooksSound, Hooked, Sweeps
<1>6. ASSUME NEW c \in Sets, NEW k \in Keys PROVE Holds(q, c, k)' = Holds(q, c, k)
  <2>1. cache'[c][q] = cache[c][q]
    BY DEF Still
  <2>2. QED
    BY <1>1, <2>1 DEF Holds
<1>7. QED
  BY <1>2, <1>3, <1>4, <1>5, <1>6 DEF RankSound

\* Sent is SentIn of the messages in flight.
LEMMA SentIsIn == ASSUME NEW c, NEW k PROVE Sent(c, k) = SentIn(net, c, k)
BY DEF Sent, SentIn

\* r's share of the insertions, and what is stored and in flight, balance.
Balance(r, c, k) ==
  ins'[c][k] - map'[c][k] - SentIn(net', c, k) - Holds(r, c, k)'
    = ins[c][k] - map[c][k] - SentIn(net, c, k) - Holds(r, c, k)

\* A step of r keeps the invariant if it keeps these.
LEMMA Keeps ==
  ASSUME CountingAssumption, IInv, NEW r \in Ranks,
         Types', NetSound', RankSound(r)', Quiet',
         \A q \in Ranks \ {r} : Still(q),
         \A c \in Sets, k \in Keys : SentIn(net, c, k) \in Int /\ SentIn(net', c, k) \in Int,
         \A c \in Sets, k \in Keys : Balance(r, c, k)
  PROVE  IInv'
<1>1. \A q \in Ranks : RankSound(q)'
  BY StillSound DEF IInv
<1>2. Conserved'
  <2>1. SUFFICES ASSUME NEW c \in Sets, NEW k \in Keys
                 PROVE  ins'[c][k] = map'[c][k] + Sent(c, k)' + Held(c, k)'
    BY DEF Conserved
  <2>2. \A q \in Ranks : Holds(q, c, k) \in Int
    BY HoldsInt DEF IInv, RankSound
  <2>3. \A q \in Ranks \ {r} : Holds(q, c, k)' = Holds(q, c, k)
    BY StillSound DEF IInv
  <2>4. Holds(r, c, k)' \in Int
    <3>1. Shape(r)'
      BY DEF RankSound
    <3> DEFINE e == cache'[c][r][Slot[k]]
               f == Top(r)'
    <3>2. Slot[k] \in Slots
      BY DEF CountingAssumption, Slots
    <3>3. e \in Entries
      BY <3>2 DEF Types
    <3>4. e.count \in Int /\ MaxCount \in Nat
      BY <3>3, EntryFacts
    <3>5. f.op = "flush" => f.count \in Int
      BY <3>1, <3>4, NextTop DEF Flushes
    <3>6. Holds(r, c, k)' = (IF e.key = k THEN e.count ELSE 0)
           - (IF (f.op = "flush" /\ f.set = c) /\ f.packed /\ f.key = k THEN f.count ELSE 0)
           + (IF (f.op = "flush" /\ f.set = c) /\ f.fill = k THEN 1 ELSE 0)
      BY DEF Holds
    <3> HIDE DEF e, f
    <3>7. QED
      BY <3>4, <3>5, <3>6
  <2>5. /\ Held(c, k) \in Int /\ Held(c, k)' \in Int
        /\ Held(c, k)' - Holds(r, c, k)' = Held(c, k) - Holds(r, c, k)
    <3>1. \A q \in Ranks : Holds(q, c, k)' \in Int
      BY <2>2, <2>3, <2>4
    <3>2. QED
      BY <2>2, <2>3, <3>1, HeldChange
  <2>6. Sent(c, k) = SentIn(net, c, k) /\ Sent(c, k)' = SentIn(net', c, k)
    BY DEF Sent, SentIn
  <2>7. ins[c][k] = map[c][k] + Sent(c, k) + Held(c, k)
    BY DEF IInv, Conserved
  <2>8. /\ ins[c][k] \in Int /\ map[c][k] \in Int /\ ins'[c][k] \in Int /\ map'[c][k] \in Int
        /\ SentIn(net, c, k) \in Int /\ SentIn(net', c, k) \in Int
    BY DEF IInv, Types
  <2>9. Balance(r, c, k) /\ Holds(r, c, k) \in Int
    BY <2>2
  <2> DEFINE i1 == ins[c][k]
             i2 == ins'[c][k]
             m1 == map[c][k]
             m2 == map'[c][k]
             s1 == SentIn(net, c, k)
             s2 == SentIn(net', c, k)
             h1 == Holds(r, c, k)
             h2 == Holds(r, c, k)'
             t1 == Held(c, k)
             t2 == Held(c, k)'
  <2>10. /\ i1 \in Int /\ i2 \in Int /\ m1 \in Int /\ m2 \in Int /\ s1 \in Int /\ s2 \in Int
         /\ h1 \in Int /\ h2 \in Int /\ t1 \in Int /\ t2 \in Int
         /\ t2 - h2 = t1 - h1 /\ i1 = m1 + s1 + t1 /\ i2 - m2 - s2 - h2 = i1 - m1 - s1 - h1
    BY <2>4, <2>5, <2>6, <2>7, <2>8, <2>9 DEF Balance
  <2> HIDE DEF i1, i2, m1, m2, s1, s2, h1, h2, t1, t2
  <2>11. i2 = m2 + s2 + t2
    BY <2>10
  <2>12. QED
    BY <2>6, <2>11 DEF i2, m2, s2, t2
<1>3. QED
  BY <1>1, <1>2 DEF IInv

-----------------------------------------------------------------------------
(***************************************************************************)
(* Facts that several steps need.                                          *)
(***************************************************************************)
\* The calls that a rank may be in are frames, and up to four of them a stack.
LEMMA FrameFacts ==
  /\ App \in FrameTypes /\ Flushes \subseteq FrameTypes
  /\ \A h \in BOOLEAN : Barrier(h) \in FrameTypes
  /\ \A c \in Sets, s \in 1..NumSlots + 1 : FlushAll(c, s) \in FrameTypes
  /\ \A e, f, g, h \in FrameTypes :
       /\ <<e>> \in Seq(FrameTypes) /\ <<e, f>> \in Seq(FrameTypes)
       /\ <<e, f, g>> \in Seq(FrameTypes) /\ <<e, f, g, h>> \in Seq(FrameTypes)
<1>1. App \in FrameTypes /\ Flushes \subseteq FrameTypes
  BY DEF FrameTypes, App, Flushes
<1>2. \A h \in BOOLEAN : Barrier(h) \in FrameTypes
  BY DEF FrameTypes, Barrier
<1>3. \A c \in Sets, s \in 1..NumSlots + 1 : FlushAll(c, s) \in FrameTypes
  BY DEF FrameTypes, FlushAll
<1>4. QED
  BY <1>1, <1>2, <1>3

\* A flush, of entry e.
IsFlush(f, c, s, e, k) ==
  /\ f \in Flushes /\ f.op = "flush" /\ f.set = c /\ f.slot = s
  /\ f.key = e.key /\ f.count = e.count /\ f.fill = k /\ f.packed = FALSE

\* count_cache_flush of an entry that counts is a flush of that entry.
LEMMA FlushIn ==
  ASSUME NEW c \in Sets, NEW s \in Slots, NEW e, e \in Counts, NEW k, k \in Keys \/ k = None
  PROVE  IsFlush(Flush(c, s, e, k), c, s, e, k)
BY DEF Flush, Flushes, Counts, IsFlush

\* The messages that a program sends, and what each carries.
LEMMA MessageIn ==
  ASSUME CountingAssumption, NEW c \in Sets, NEW k \in Keys
  PROVE  /\ \A r \in Ranks : UserMsg(r, c, k) \in Messages /\ UserMsg(r, c, k).op = "insert"
         /\ \A n \in 1..MaxCount : Visit(c, k, n) \in Messages /\ Visit(c, k, n).op = "visit"
         /\ \A r \in Ranks, d \in Sets, i \in Keys :
              Carries(UserMsg(r, c, k), d, i) = IF c = d /\ k = i THEN 1 ELSE 0
         /\ \A n \in 1..MaxCount, d \in Sets, i \in Keys :
              Carries(Visit(c, k, n), d, i) = IF c = d /\ k = i THEN n ELSE 0
<1>1. Owner[k] \in Ranks
  BY DEF CountingAssumption
<1>2. /\ \A r \in Ranks : UserMsg(r, c, k) \in Messages /\ UserMsg(r, c, k).op = "insert"
      /\ \A n \in 1..MaxCount : Visit(c, k, n) \in Messages /\ Visit(c, k, n).op = "visit"
  BY <1>1 DEF Messages, UserMsg, Visit, UserMsgs, Visits
<1>3. \A r \in Ranks, d \in Sets, i \in Keys :
        Carries(UserMsg(r, c, k), d, i) = IF c = d /\ k = i THEN 1 ELSE 0
  BY <1>2, CarriesNat DEF UserMsg
<1>4. \A n \in 1..MaxCount, d \in Sets, i \in Keys :
        Carries(Visit(c, k, n), d, i) = IF c = d /\ k = i THEN n ELSE 0
  BY <1>2, CarriesNat DEF Visit
<1>5. QED
  BY <1>2, <1>3, <1>4

\* What is in flight of a key is a natural number.
LEMMA SentNat ==
  ASSUME CountingAssumption, NetSound, NEW r \in Ranks
  PROVE  \A c \in Sets, k \in Keys : SentIn(net, c, k) \in Nat
<1> SUFFICES ASSUME NEW c \in Sets, NEW k \in Keys PROVE SentIn(net, c, k) \in Nat
  OBVIOUS
<1>1. UserMsg(r, c, k) \in Messages
  BY MessageIn
<1>2. IsABag(net) /\ IsFiniteSet(BagToSet(net)) /\ BagToSet(net) \subseteq Messages
  BY DEF NetSound
<1>3. QED
  BY <1>1, <1>2, SentPlus

\* An entry that slot s of c may have after a step.
Fits(n, r, c, s) ==
  n # Free => /\ n \in Counts /\ Slot[n.key] = s
              /\ n.count = MaxCount => FlushOf(r, c, s)'
              /\ ~empty'[c][r]

\* Only a slot of r's cache changes.
LEMMA SlotSet ==
  ASSUME NEW r \in Ranks, NEW c \in Sets, NEW s \in Slots, NEW n, SlotsSound(r), Fits(n, r, c, s),
         \A d \in Sets, t \in Slots : cache'[d][r][t] = IF d = c /\ t = s THEN n ELSE cache[d][r][t],
         \A d \in Sets : empty'[d][r] => empty[d][r],
         \A d \in Sets, t \in Slots : FlushOf(r, d, t) => (d = c /\ t = s) \/ FlushOf(r, d, t)'
  PROVE  SlotsSound(r)'
BY DEF SlotsSound, Fits

\* No slot of r changes.
LEMMA SlotsSame ==
  ASSUME NEW r, SlotsSound(r),
         \A d \in Sets, t \in Slots : cache'[d][r][t] = cache[d][r][t],
         \A d \in Sets : empty'[d][r] => empty[d][r],
         \A d \in Sets, t \in Slots : FlushOf(r, d, t) => FlushOf(r, d, t)'
  PROVE  SlotsSound(r)'
BY DEF SlotsSound

\* A first entry has its callback.
LEMMA Registers ==
  ASSUME Types, NEW r \in Ranks, NEW c \in Sets, HooksSound(r), Register(c, r),
         \A d \in Sets : Sweeps(r, d) => Sweeps(r, d)'
  PROVE  /\ HooksSound(r)'
         /\ empty' \in [Sets -> [Ranks -> BOOLEAN]] /\ hooks' \in [Ranks -> Seq(Sets)]
         /\ empty'[c][r] = FALSE /\ \A d \in Sets : empty'[d][r] => empty[d][r]
         /\ \A q \in Ranks \ {r} : hooks'[q] = hooks[q] /\ \A d \in Sets : empty'[d][q] = empty[d][q]
<1>1. empty \in [Sets -> [Ranks -> BOOLEAN]] /\ hooks \in [Ranks -> Seq(Sets)]
  BY DEF Types
<1>2. /\ empty' \in [Sets -> [Ranks -> BOOLEAN]]
      /\ empty'[c][r] = FALSE /\ \A d \in Sets \ {c} : empty'[d][r] = empty[d][r]
      /\ \A q \in Ranks \ {r}, d \in Sets : empty'[d][q] = empty[d][q]
  BY <1>1 DEF Register
<1>3. hooks' = IF empty[c][r] THEN [hooks EXCEPT ![r] = Append(@, c)] ELSE hooks
  BY DEF Register
<1>4. hooks' \in [Ranks -> Seq(Sets)] /\ \A q \in Ranks \ {r} : hooks'[q] = hooks[q]
  BY <1>1, <1>3
<1>5. /\ \A d \in Sets : Hooked(r, d) => Hooked(r, d)'
      /\ empty[c][r] => Hooked(r, c)'
  <2>1. CASE empty[c][r]
    <3>1. hooks'[r] = Append(hooks[r], c) /\ hooks[r] \in Seq(Sets)
      BY <1>1, <1>3, <2>1
    <3>2. /\ Len(hooks'[r]) = Len(hooks[r]) + 1 /\ hooks'[r][Len(hooks[r]) + 1] = c
          /\ \A i \in 1..Len(hooks[r]) : hooks'[r][i] = hooks[r][i]
          /\ DOMAIN hooks[r] = 1..Len(hooks[r]) /\ DOMAIN hooks'[r] = 1..Len(hooks'[r]) /\ Len(hooks[r]) \in Nat
      BY <1>4, <3>1
    <3>3. QED
      BY <3>2 DEF Hooked
  <2>2. CASE ~empty[c][r]
    BY <1>3, <2>2 DEF Hooked
  <2>3. QED
    BY <2>1, <2>2
<1>6. HooksSound(r)'
  BY <1>2, <1>5 DEF HooksSound
<1>7. QED
  BY <1>2, <1>4, <1>6

\* A call in which something happens is a barrier's.
LEMMA Busy ==
  ASSUME Quiet, UNCHANGED progVars, NEW r \in Ranks,
         \/ call = "barrier" \/ net # EmptyBag \/ hooks[r] # <<>>
         \/ stack[r] \notin {<<App>>, <<Barrier(FALSE), App>>}
  PROVE  Quiet'
BY DEF Quiet, progVars

\* A cache entry, and the top of the stack, of r in a sound state.
LEMMA RankFacts ==
  ASSUME CountingAssumption, IInv, NEW r \in Ranks
  PROVE  /\ Types /\ NetSound /\ RankSound(r) /\ Quiet
         /\ Shape(r) /\ FlushSound(r) /\ SlotsSound(r) /\ HooksSound(r)
         /\ \A c \in Sets, s \in Slots : cache[c][r][s] \in Entries
         /\ \A c \in Sets, k \in Keys : Slot[k] \in Slots /\ SentIn(net, c, k) \in Nat
         /\ \A c \in Sets, k \in Keys : ins[c][k] \in Nat /\ map[c][k] \in Nat
         /\ stack \in [Ranks -> Seq(FrameTypes)]
<1>1. Types /\ NetSound /\ RankSound(r) /\ Quiet
  BY DEF IInv
<1>2. /\ \A c \in Sets, s \in Slots : cache[c][r][s] \in Entries
      /\ \A c \in Sets, k \in Keys : ins[c][k] \in Nat /\ map[c][k] \in Nat
      /\ stack \in [Ranks -> Seq(FrameTypes)]
  BY <1>1 DEF Types
<1>3. \A k \in Keys : Slot[k] \in Slots
  BY DEF CountingAssumption, Slots
<1>4. \A c \in Sets, k \in Keys : SentIn(net, c, k) \in Nat
  BY <1>1, SentNat
<1>5. QED
  BY <1>1, <1>2, <1>3, <1>4 DEF RankSound

\* The stack of r becomes t.
LEMMA StackSet ==
  ASSUME NEW r \in Ranks, NEW t, stack \in [Ranks -> Seq(FrameTypes)], t \in Seq(FrameTypes), SetStack(r, t)
  PROVE  /\ stack' \in [Ranks -> Seq(FrameTypes)] /\ stack'[r] = t
         /\ \A q \in Ranks \ {r} : stack'[q] = stack[q]
BY DEF SetStack

\* r is not flushing.
LEMMA NoFlush ==
  ASSUME NEW r, Top(r).op # "flush"
  PROVE  /\ FlushSound(r) /\ \A c, s : ~FlushOf(r, c, s)
         /\ \A c, k : Holds(r, c, k) = (IF cache[c][r][Slot[k]].key = k THEN cache[c][r][Slot[k]].count ELSE 0) - 0 + 0
BY DEF FlushSound, FlushOf, Holds

\* A call of the application pushes a flush.
LEMMA PushFlush ==
  ASSUME NEW f \in Flushes
  PROVE  /\ <<f>> \o <<App>> = <<f, App>>
         /\ <<f, App>> \in Seq(FrameTypes)
         /\ Head(<<f, App>>) = f /\ Tail(<<f, App>>) = <<App>>
<1>1. f \in FrameTypes /\ App \in FrameTypes
  BY FrameFacts
<1>2. <<f, App>> \in Seq(FrameTypes)
  BY <1>1, FrameFacts
<1>3. <<f>> \o <<App>> = <<f, App>> /\ Head(<<f, App>>) = f /\ Tail(<<f, App>>) = <<App>>
  BY Stacks
<1>4. QED
  BY <1>2, <1>3

\* A share is balanced when its four terms change by amounts that are.
LEMMA Balances ==
  ASSUME CountingAssumption, IInv, NEW r \in Ranks, NEW c \in Sets, NEW k \in Keys,
         NEW i \in Int, NEW m \in Int, NEW s \in Int, NEW h \in Int,
         ins'[c][k] = ins[c][k] + i, map'[c][k] = map[c][k] + m,
         SentIn(net', c, k) = SentIn(net, c, k) + s, Holds(r, c, k)' = Holds(r, c, k) + h,
         i = m + s + h
  PROVE  Balance(r, c, k) /\ SentIn(net, c, k) \in Int /\ SentIn(net', c, k) \in Int
<1> DEFINE i1 == ins[c][k]
           i2 == ins'[c][k]
           m1 == map[c][k]
           m2 == map'[c][k]
           s1 == SentIn(net, c, k)
           s2 == SentIn(net', c, k)
           h1 == Holds(r, c, k)
           h2 == Holds(r, c, k)'
<1>1. h1 \in Int
  BY RankFacts, HoldsInt
<1>2. s1 \in Int /\ i1 \in Int /\ m1 \in Int
  BY RankFacts
<1>3. i2 = i1 + i /\ m2 = m1 + m /\ s2 = s1 + s /\ h2 = h1 + h
  OBVIOUS
<1>4. Balance(r, c, k) <=> i2 - m2 - s2 - h2 = i1 - m1 - s1 - h1
  BY DEF Balance
<1> HIDE DEF i1, i2, m1, m2, s1, s2, h1, h2
<1>5. i2 - m2 - s2 - h2 = i1 - m1 - s1 - h1 /\ s2 \in Int
  BY <1>1, <1>2, <1>3
<1>6. QED
  BY <1>2, <1>4, <1>5 DEF s1, s2

-----------------------------------------------------------------------------
(***************************************************************************)
(* Insertions of the application.                                          *)
(***************************************************************************)
\* cache_insert, called by the application: the entry is counted, or flushed for
\* the key that needs its slot, or flushed since its count is full.
LEMMA InsertKeeps ==
  ASSUME CountingAssumption, IInv, NEW r \in Ranks, NEW c \in Sets, NEW k \in Keys, Insert(r, c, k)
  PROVE  IInv'
<1> DEFINE s == Slot[k]
           e == cache[c][r][s]
           n == Counted(e, k)
<1>1. /\ Types /\ NetSound /\ Quiet
      /\ Shape(r) /\ FlushSound(r) /\ SlotsSound(r) /\ HooksSound(r)
      /\ s \in Slots /\ e \in Entries /\ stack \in [Ranks -> Seq(FrameTypes)]
  BY RankFacts
<1>2. /\ Top(r) = App /\ c \in built /\ call = "barrier" /\ left > 0 /\ left' = left - 1
      /\ ins' = [ins EXCEPT ![c][k] = @ + 1] /\ Register(c, r)
      /\ UNCHANGED progVars /\ map' = map /\ net' = net
  BY DEF Insert, Insertion
<1>3. \/ /\ Taken(e, k) /\ SetStack(r, <<Flush(c, s, e, k)>> \o stack[r]) /\ cache' = cache
      \/ /\ ~Taken(e, k) /\ cache' = [cache EXCEPT ![c][r][s] = n]
         /\ IF Full(n) THEN SetStack(r, <<Flush(c, s, n, None)>> \o stack[r]) ELSE stack' = stack
  BY DEF Insert
<1>4. stack[r] = <<App>> /\ Top(r).op = "app" /\ Top(r).op # "flush"
  BY <1>1, <1>2, Tops DEF Between, App
<1>5. /\ \A d \in Sets, t \in Slots : ~FlushOf(r, d, t)
      /\ \A d \in Sets : ~Sweeps(r, d)
  BY <1>4 DEF FlushOf, Sweeps, App
<1>6. /\ HooksSound(r)'
      /\ empty' \in [Sets -> [Ranks -> BOOLEAN]] /\ hooks' \in [Ranks -> Seq(Sets)]
      /\ empty'[c][r] = FALSE /\ \A d \in Sets : empty'[d][r] => empty[d][r]
      /\ \A q \in Ranks \ {r} : hooks'[q] = hooks[q] /\ \A d \in Sets : empty'[d][q] = empty[d][q]
  <2>1. HooksSound(r)'
    BY <1>1, <1>2, <1>5, Registers
  <2>2. /\ empty' \in [Sets -> [Ranks -> BOOLEAN]] /\ hooks' \in [Ranks -> Seq(Sets)]
        /\ empty'[c][r] = FALSE /\ \A d \in Sets : empty'[d][r] => empty[d][r]
        /\ \A q \in Ranks \ {r} : hooks'[q] = hooks[q] /\ \A d \in Sets : empty'[d][q] = empty[d][q]
    BY <1>1, <1>2, <1>5, Registers
  <2>3. QED
    BY <2>1, <2>2
<1>7. /\ e.count \in Int /\ MaxCount \in Nat /\ MaxCount > 1 /\ None \notin Keys
      /\ e = Free => e.key = None /\ e.count = -1
      /\ e # Free => /\ e \in Counts /\ e.key \in Keys
                     /\ e.count \in 1..MaxCount /\ e = Entry(e.key, e.count) /\ Slot[e.key] = s
                     /\ e.count < MaxCount
      /\ e.count = -1 <=> e = Free
  <2>1. /\ e.count \in Int /\ MaxCount \in Nat /\ MaxCount > 1 /\ None \notin Keys
        /\ e = Free => e.key = None /\ e.count = -1
        /\ e # Free => /\ e \in Counts /\ e.key \in Keys
                       /\ e.count \in 1..MaxCount /\ e = Entry(e.key, e.count)
        /\ e.count = -1 <=> e = Free
    BY <1>1, EntryFacts DEF CountingAssumption
  <2>2. e # Free => Slot[e.key] = s /\ e.count # MaxCount
    BY <1>1, <1>5 DEF SlotsSound
  <2> HIDE DEF e, s
  <2>3. QED
    BY <2>1, <2>2
<1>8. ~Taken(e, k) =>
        /\ n \in Counts /\ n.key = k /\ n # Free
        /\ n.count = (IF e.key = k THEN e.count ELSE 0) + 1
        /\ n = Entry(n.key, n.count) /\ (e # Free => e.key = k)
  <2> HIDE DEF e, s
  <2>1. n = Entry(k, IF e.count = -1 THEN 1 ELSE e.count + 1)
    BY DEF Counted
  <2>2. n.key = k /\ n.count = IF e.count = -1 THEN 1 ELSE e.count + 1
    BY <2>1 DEF Entry
  <2>3. n # Free
    BY <1>7, <2>2 DEF Free
  <2>4. ~Taken(e, k) => (e # Free => e.key = k)
    BY <1>7 DEF Taken
  <2>5. ~Taken(e, k) => n.count \in 1..MaxCount /\ n.count = (IF e.key = k THEN e.count ELSE 0) + 1
    BY <1>7, <2>2, <2>4
  <2>6. n.count \in 1..MaxCount => n \in Counts
    BY <2>1, <2>2 DEF Entry, Counts
  <2>7. n = Entry(n.key, n.count)
    BY <2>1, <2>2
  <2>8. QED
    BY <2>2, <2>3, <2>4, <2>5, <2>6, <2>7
<1>9. cache \in [Sets -> [Ranks -> [Slots -> Entries]]]
  BY <1>1 DEF Types
<1>10. ins \in [Sets -> [Keys -> Nat]] /\ ins' \in [Sets -> [Keys -> Nat]]
       /\ \A d \in Sets, i \in Keys : ins'[d][i] = IF d = c /\ i = k THEN ins[d][i] + 1 ELSE ins[d][i]
  <2>1. ins \in [Sets -> [Keys -> Nat]]
    BY <1>1 DEF Types
  <2>2. QED
    BY <1>2, <2>1
<1> HIDE DEF n, e, s
\* The rank's own state.
<1>11. /\ cache' \in [Sets -> [Ranks -> [Slots -> Entries]]] /\ stack' \in [Ranks -> Seq(FrameTypes)]
       /\ RankSound(r)'
       /\ \A q \in Ranks \ {r} : Still(q)
       /\ \A d \in Sets, i \in Keys :
            Holds(r, d, i)' = Holds(r, d, i) + IF d = c /\ i = k THEN 1 ELSE 0
  <2>1. CASE Taken(e, k)
    <3> DEFINE f == Flush(c, s, e, k)
    <3>1. e # Free /\ e.key # k /\ e \in Counts
      BY <1>7, <2>1 DEF Taken
    <3>2. /\ f \in Flushes /\ f.op = "flush" /\ f.set = c /\ f.slot = s /\ f.key = e.key
          /\ f.count = e.count /\ f.fill = k /\ f.packed = FALSE
      <4>1. IsFlush(f, c, s, e, k)
        BY <1>1, <3>1, FlushIn
      <4>2. QED
        BY <4>1 DEF IsFlush
    <3> HIDE DEF f
    <3>3. cache' = cache /\ SetStack(r, <<f>> \o stack[r])
      BY <1>3, <2>1 DEF f
    <3>4. <<f>> \o stack[r] = <<f, App>> /\ <<f, App>> \in Seq(FrameTypes) /\ Head(<<f, App>>) = f
      BY <1>4, <3>2, PushFlush
    <3>5. /\ stack' \in [Ranks -> Seq(FrameTypes)] /\ stack'[r] = <<f, App>>
          /\ \A q \in Ranks \ {r} : stack'[q] = stack[q]
      BY <1>1, <3>3, <3>4, StackSet
    <3>6. Top(r)' = f
      BY <3>4, <3>5 DEF Top
    <3>7. Shape(r)'
      BY <3>2, <3>5 DEF Shape, Inserting
    <3>8. FlushSound(r)'
      <4>1. cache'[c][r][s] = Entry(e.key, e.count) /\ Slot[e.key] = s /\ Slot[k] = s
        BY <1>7, <3>1, <3>3 DEF e, s
      <4>2. QED
        BY <3>1, <3>2, <3>6, <4>1 DEF FlushSound
    <3>9. SlotsSound(r)'
      BY <1>1, <1>5, <1>6, <3>3, SlotsSame
    <3>10. \A q \in Ranks \ {r} : Still(q)
      BY <1>6, <3>3, <3>5 DEF Still
    <3>11. ASSUME NEW d \in Sets, NEW i \in Keys
           PROVE  Holds(r, d, i)' = Holds(r, d, i) + IF d = c /\ i = k THEN 1 ELSE 0
      <4> DEFINE g == cache[d][r][Slot[i]]
      <4>1. Holds(r, d, i) = IF g.key = i THEN g.count ELSE 0
        <5>1. g.count \in Int
          BY RankFacts, EntryFacts
        <5>2. Holds(r, d, i) = (IF g.key = i THEN g.count ELSE 0) - 0 + 0
          BY <1>4, NoFlush
        <5> HIDE DEF g
        <5>3. QED
          BY <5>1, <5>2
      <4>2. Holds(r, d, i)' = (IF g.key = i THEN g.count ELSE 0) - 0 + IF c = d /\ k = i THEN 1 ELSE 0
        BY <3>2, <3>3, <3>6 DEF Holds
      <4>3. g.count \in Int
        BY RankFacts, EntryFacts
      <4> HIDE DEF g
      <4>4. QED
        BY <4>1, <4>2, <4>3
    <3>12. QED
      BY <1>6, <1>9, <3>3, <3>5, <3>7, <3>8, <3>9, <3>10, <3>11 DEF RankSound
  <2>2. CASE ~Taken(e, k)
    <3>1. /\ n \in Counts /\ n.key = k /\ n # Free
          /\ n.count = (IF e.key = k THEN e.count ELSE 0) + 1
          /\ n = Entry(n.key, n.count) /\ (e # Free => e.key = k)
      BY <1>8, <2>2
    <3>2. cache' = [cache EXCEPT ![c][r][s] = n]
      BY <1>3, <2>2
    <3>3. n \in Entries
      BY <3>1 DEF Entries, Counts
    <3>4. /\ cache' \in [Sets -> [Ranks -> [Slots -> Entries]]]
          /\ \A d \in Sets, t \in Slots : cache'[d][r][t] = IF d = c /\ t = s THEN n ELSE cache[d][r][t]
          /\ \A d \in Sets, q \in Ranks \ {r} : cache'[d][q] = cache[d][q]
      BY <1>1, <1>9, <3>2, <3>3
    <3>5. ASSUME NEW d \in Sets, NEW i \in Keys
          PROVE  LET g == cache'[d][r][Slot[i]]
                 IN (IF g.key = i THEN g.count ELSE 0) = Holds(r, d, i) + IF d = c /\ i = k THEN 1 ELSE 0
      <4> DEFINE h == cache[d][r][Slot[i]]
                 g == cache'[d][r][Slot[i]]
      <4>1. Holds(r, d, i) = IF h.key = i THEN h.count ELSE 0
        <5>1. h.count \in Int
          BY RankFacts, EntryFacts
        <5>2. Holds(r, d, i) = (IF h.key = i THEN h.count ELSE 0) - 0 + 0
          BY <1>4, NoFlush
        <5> HIDE DEF h
        <5>3. QED
          BY <5>1, <5>2
      <4>2. Slot[i] \in Slots /\ h.count \in Int
        BY RankFacts, EntryFacts
      <4>3. g = IF d = c /\ Slot[i] = s THEN n ELSE h
        BY <3>4, <4>2
      <4>4. d = c /\ Slot[i] = s => h = e
        BY DEF e
      <4>5. i = k => Slot[i] = s
        BY DEF s
      <4> HIDE DEF g, h
      <4>6. (IF g.key = i THEN g.count ELSE 0) = (IF h.key = i THEN h.count ELSE 0) + IF d = c /\ i = k THEN 1 ELSE 0
        BY <1>7, <3>1, <4>2, <4>3, <4>4, <4>5
      <4>7. QED
        BY <4>1, <4>6 DEF g
    <3>6. CASE ~Full(n)
      <4>1. stack' = stack /\ n.count # MaxCount
        BY <1>3, <2>2, <3>6 DEF Full
      <4>2. Top(r)' = App /\ Shape(r)' /\ FlushSound(r)'
        BY <1>2, <1>4, <4>1 DEF Top, Shape, Between, FlushSound
      <4>3. SlotsSound(r)'
        <5>1. Fits(n, r, c, s)
          BY <1>6, <3>1, <4>1 DEF s, Fits
        <5>2. \A d \in Sets, t \in Slots : FlushOf(r, d, t) => (d = c /\ t = s) \/ FlushOf(r, d, t)'
          BY <1>5
        <5>3. /\ SlotsSound(r) /\ s \in Slots /\ (\A d \in Sets : empty'[d][r] => empty[d][r])
              /\ \A d \in Sets, t \in Slots : cache'[d][r][t] = IF d = c /\ t = s THEN n ELSE cache[d][r][t]
          BY <1>1, <1>6, <3>4
        <5>4. QED
          BY <5>1, <5>2, <5>3, SlotSet
      <4>4. \A q \in Ranks \ {r} : Still(q)
        BY <1>6, <3>4, <4>1 DEF Still
      <4>5. ASSUME NEW d \in Sets, NEW i \in Keys
            PROVE  Holds(r, d, i)' = Holds(r, d, i) + IF d = c /\ i = k THEN 1 ELSE 0
        <5> DEFINE g == cache'[d][r][Slot[i]]
        <5>1. Holds(r, d, i)' = (IF g.key = i THEN g.count ELSE 0) - 0 + 0
          BY <4>2 DEF Holds, App
        <5>2. g.count \in Int
          BY <3>4, RankFacts, EntryFacts
        <5>3. (IF g.key = i THEN g.count ELSE 0) = Holds(r, d, i) + IF d = c /\ i = k THEN 1 ELSE 0
          BY <3>5
        <5>4. (IF g.key = i THEN g.count ELSE 0) - 0 + 0 = IF g.key = i THEN g.count ELSE 0
          <6> HIDE DEF g
          <6>1. QED
            BY <5>2
        <5>5. QED
          BY <5>1, <5>3, <5>4
      <4>6. QED
        BY <1>1, <1>6, <3>4, <4>1, <4>2, <4>3, <4>4, <4>5 DEF RankSound
    <3>7. CASE Full(n)
      <4> DEFINE f == Flush(c, s, n, None)
      <4>1. /\ f \in Flushes /\ f.op = "flush" /\ f.set = c /\ f.slot = s /\ f.key = k
            /\ f.count = n.count /\ f.fill = None /\ f.packed = FALSE
        <5>1. IsFlush(f, c, s, n, None)
          BY <1>1, <3>1, FlushIn
        <5>2. QED
          BY <3>1, <5>1 DEF IsFlush
      <4> HIDE DEF f
      <4>2. SetStack(r, <<f>> \o stack[r])
        BY <1>3, <2>2, <3>7 DEF f
      <4>3. <<f>> \o stack[r] = <<f, App>> /\ <<f, App>> \in Seq(FrameTypes) /\ Head(<<f, App>>) = f
        BY <1>4, <4>1, PushFlush
      <4>4. /\ stack' \in [Ranks -> Seq(FrameTypes)] /\ stack'[r] = <<f, App>>
            /\ \A q \in Ranks \ {r} : stack'[q] = stack[q]
        BY <1>1, <4>2, <4>3, StackSet
      <4>5. Top(r)' = f
        BY <4>3, <4>4 DEF Top
      <4>6. Shape(r)'
        BY <4>1, <4>4 DEF Shape, Inserting
      <4>7. FlushSound(r)'
        <5>1. cache'[c][r][s] = Entry(f.key, f.count) /\ Slot[k] = s
          BY <1>1, <3>1, <3>4, <4>1 DEF s
        <5>2. QED
          BY <4>1, <4>5, <5>1 DEF FlushSound
      <4>8. SlotsSound(r)'
        <5>1. FlushOf(r, c, s)'
          BY <4>1, <4>5 DEF FlushOf
        <5>2. Fits(n, r, c, s)
          BY <1>6, <3>1, <5>1 DEF s, Fits
        <5>3. \A d \in Sets, t \in Slots : FlushOf(r, d, t) => (d = c /\ t = s) \/ FlushOf(r, d, t)'
          BY <1>5
        <5>4. /\ SlotsSound(r) /\ s \in Slots /\ (\A d \in Sets : empty'[d][r] => empty[d][r])
              /\ \A d \in Sets, t \in Slots : cache'[d][r][t] = IF d = c /\ t = s THEN n ELSE cache[d][r][t]
          BY <1>1, <1>6, <3>4
        <5>5. QED
          BY <5>2, <5>3, <5>4, SlotSet
      <4>9. \A q \in Ranks \ {r} : Still(q)
        BY <1>6, <3>4, <4>4 DEF Still
      <4>10. ASSUME NEW d \in Sets, NEW i \in Keys
             PROVE  Holds(r, d, i)' = Holds(r, d, i) + IF d = c /\ i = k THEN 1 ELSE 0
        <5> DEFINE g == cache'[d][r][Slot[i]]
        <5>1. Holds(r, d, i)' = (IF g.key = i THEN g.count ELSE 0) - 0 + 0
          BY <1>7, <4>1, <4>5 DEF Holds
        <5>2. g.count \in Int
          BY <3>4, RankFacts, EntryFacts
        <5>3. (IF g.key = i THEN g.count ELSE 0) = Holds(r, d, i) + IF d = c /\ i = k THEN 1 ELSE 0
          BY <3>5
        <5>4. (IF g.key = i THEN g.count ELSE 0) - 0 + 0 = IF g.key = i THEN g.count ELSE 0
          <6> HIDE DEF g
          <6>1. QED
            BY <5>2
        <5>5. QED
          BY <5>1, <5>3, <5>4
      <4>11. QED
        BY <1>6, <3>4, <4>4, <4>6, <4>7, <4>8, <4>9, <4>10 DEF RankSound
    <3>8. QED
      BY <3>6, <3>7
  <2>3. QED
    BY <2>1, <2>2
<1>12. Types'
  <2>1. use' \in Uses /\ call' \in {"barrier", "copy", "clear"} /\ {Orig} \subseteq built' /\ built' \subseteq Sets
    BY <1>1, <1>2 DEF Types, progVars
  <2>2. left' \in 0..MaxInserts /\ map' \in [Sets -> [Keys -> Nat]]
    <3>1. left \in 0..MaxInserts /\ MaxInserts \in Nat
      BY <1>1 DEF Types, CountingAssumption
    <3>2. QED
      BY <1>1, <1>2, <3>1 DEF Types
  <2>3. QED
    BY <1>6, <1>10, <1>11, <2>1, <2>2 DEF Types
<1>13. NetSound'
  BY <1>1, <1>2 DEF NetSound, progVars
<1>14. Quiet'
  BY <1>1, <1>2, Busy
<1>15. ASSUME NEW d \in Sets, NEW i \in Keys
       PROVE  Balance(r, d, i) /\ SentIn(net, d, i) \in Int /\ SentIn(net', d, i) \in Int
  <2> DEFINE a == IF d = c /\ i = k THEN 1 ELSE 0
  <2>1. a \in Int /\ 0 \in Int /\ a = 0 + 0 + a
    OBVIOUS
  <2>2. ins'[d][i] = ins[d][i] + a /\ Holds(r, d, i)' = Holds(r, d, i) + a
    <3>1. ins[d][i] \in Nat
      BY RankFacts
    <3>2. QED
      BY <1>10, <1>11, <3>1
  <2>3. map'[d][i] = map[d][i] + 0 /\ SentIn(net', d, i) = SentIn(net, d, i) + 0
    <3>1. map[d][i] \in Nat /\ SentIn(net, d, i) \in Nat
      BY RankFacts
    <3>2. QED
      BY <1>2, <3>1
  <2> HIDE DEF a
  <2>4. QED
    BY <2>1, <2>2, <2>3, Balances
<1>16. QED
  BY <1>11, <1>12, <1>13, <1>14, <1>15, Keeps

\* The application sends a message that inserts.
LEMMA SendInsertKeeps ==
  ASSUME CountingAssumption, IInv, NEW r \in Ranks, NEW q \in Ranks, NEW c \in Sets, NEW k \in Keys,
         SendInsert(r, q, c, k)
  PROVE  IInv'
<1> DEFINE m == UserMsg(q, c, k)
<1>1. Types /\ NetSound /\ Quiet /\ RankSound(r)
  BY RankFacts
<1>2. /\ use.handlers /\ call = "barrier" /\ left > 0 /\ left' = left - 1
      /\ ins' = [ins EXCEPT ![c][k] = @ + 1] /\ net' = Plus(net, m)
      /\ UNCHANGED progVars /\ map' = map /\ cache' = cache /\ empty' = empty /\ hooks' = hooks
      /\ stack' = stack
  BY DEF SendInsert, Insertion, cacheVars
<1>3. m \in Messages /\ m.op = "insert"
      /\ \A d \in Sets, i \in Keys : Carries(m, d, i) = IF c = d /\ k = i THEN 1 ELSE 0
  <2>1. m \in Messages /\ m.op = "insert"
    BY MessageIn
  <2>2. \A d \in Sets, i \in Keys : Carries(m, d, i) = IF c = d /\ k = i THEN 1 ELSE 0
    BY MessageIn
  <2>3. QED
    BY <2>1, <2>2
<1> HIDE DEF m
<1>4. \A p \in Ranks : Still(p)
  BY <1>2 DEF Still
<1>5. RankSound(r)' /\ \A d \in Sets, i \in Keys : Holds(r, d, i)' = Holds(r, d, i)
  BY <1>1, <1>4, StillSound
<1>6. ins \in [Sets -> [Keys -> Nat]] /\ ins' \in [Sets -> [Keys -> Nat]]
      /\ \A d \in Sets, i \in Keys : ins'[d][i] = IF d = c /\ i = k THEN ins[d][i] + 1 ELSE ins[d][i]
  <2>1. ins \in [Sets -> [Keys -> Nat]]
    BY <1>1 DEF Types
  <2>2. QED
    BY <1>2, <2>1
<1>7. Types'
  <2>1. left' \in 0..MaxInserts
    <3>1. left \in 0..MaxInserts /\ MaxInserts \in Nat
      BY <1>1 DEF Types, CountingAssumption
    <3>2. QED
      BY <1>2, <3>1
  <2>2. QED
    BY <1>1, <1>2, <1>6, <2>1 DEF Types, progVars
<1>8. /\ IsABag(net) /\ IsFiniteSet(BagToSet(net)) /\ BagToSet(net) \subseteq Messages
      /\ \A x \in BagToSet(net) : x.op = "insert" => use.handlers
  BY <1>1 DEF NetSound
<1>9. ASSUME NEW d \in Sets, NEW i \in Keys
      PROVE  SentIn(net', d, i) = SentIn(net, d, i) + Carries(m, d, i)
  BY <1>2, <1>3, <1>8, SentPlus
<1>10. NetSound'
  <2>1. IsABag(net') /\ IsFiniteSet(BagToSet(net')) /\ BagToSet(net') = BagToSet(net) \cup {m}
    BY <1>2, <1>3, <1>8, SentPlus
  <2>2. BagToSet(net') \subseteq Messages /\ \A x \in BagToSet(net') : x.op = "insert" => use'.handlers
    BY <1>2, <1>3, <1>8, <2>1 DEF progVars
  <2>3. QED
    BY <2>1, <2>2 DEF NetSound
<1>11. Quiet'
  BY <1>1, <1>2, Busy
<1>12. ASSUME NEW d \in Sets, NEW i \in Keys
       PROVE  Balance(r, d, i) /\ SentIn(net, d, i) \in Int /\ SentIn(net', d, i) \in Int
  <2> DEFINE a == IF d = c /\ i = k THEN 1 ELSE 0
  <2>1. a \in Int /\ 0 \in Int /\ a = 0 + a + 0
    OBVIOUS
  <2>2. ins[d][i] \in Nat /\ map[d][i] \in Nat /\ SentIn(net, d, i) \in Nat
    BY RankFacts
  <2>3. ins'[d][i] = ins[d][i] + a
    BY <1>6, <2>2
  <2>4. SentIn(net', d, i) = SentIn(net, d, i) + a
    BY <1>3, <1>9
  <2>5. map'[d][i] = map[d][i] + 0
    BY <1>2, <2>2
  <2>6. Holds(r, d, i)' = Holds(r, d, i) + 0
    <3>1. Holds(r, d, i) \in Int
      BY <1>1, HoldsInt DEF RankSound
    <3>2. QED
      BY <1>5, <3>1
  <2> HIDE DEF a
  <2>7. QED
    BY <2>1, <2>3, <2>4, <2>5, <2>6, Balances
<1>13. QED
  BY <1>4, <1>5, <1>7, <1>10, <1>11, <1>12, Keeps

-----------------------------------------------------------------------------
(***************************************************************************)
(* A flush.                                                                *)
(***************************************************************************)
\* What a flush on top of a stack knows.
LEMMA FlushFacts ==
  ASSUME CountingAssumption, IInv, NEW r \in Ranks, Top(r).op = "flush"
  PROVE  /\ Top(r) \in Flushes
         /\ Top(r).set \in Sets /\ Top(r).slot \in Slots /\ Top(r).key \in Keys
         /\ Top(r).count \in 1..MaxCount /\ Top(r).fill \in Keys \cup {None} /\ Top(r).packed \in BOOLEAN
         /\ cache[Top(r).set][r][Top(r).slot] = Entry(Top(r).key, Top(r).count)
         /\ Slot[Top(r).key] = Top(r).slot
         /\ Top(r).fill # None => Slot[Top(r).fill] = Top(r).slot /\ Top(r).fill # Top(r).key
         /\ ~empty[Top(r).set][r]
         /\ stack[r] \notin {<<App>>, <<Barrier(FALSE), App>>}
<1>1. Shape(r) /\ FlushSound(r) /\ SlotsSound(r)
  BY RankFacts
<1>2. Top(r) \in Flushes
  BY <1>1, Tops
<1>3. /\ Top(r).set \in Sets /\ Top(r).slot \in Slots /\ Top(r).key \in Keys
      /\ Top(r).count \in 1..MaxCount /\ Top(r).fill \in Keys \cup {None} /\ Top(r).packed \in BOOLEAN
  BY <1>2 DEF Flushes
<1>4. /\ cache[Top(r).set][r][Top(r).slot] = Entry(Top(r).key, Top(r).count)
      /\ Slot[Top(r).key] = Top(r).slot
      /\ Top(r).fill # None => Slot[Top(r).fill] = Top(r).slot /\ Top(r).fill # Top(r).key
  BY <1>1 DEF FlushSound
<1>5. Entry(Top(r).key, Top(r).count) # Free
  <2>1. Top(r).key # None
    BY <1>3 DEF CountingAssumption
  <2>2. QED
    BY <2>1 DEF Entry, Free
<1>6. ~empty[Top(r).set][r]
  BY <1>1, <1>3, <1>4, <1>5 DEF SlotsSound
<1>7. stack[r] # <<App>> /\ stack[r] # <<Barrier(FALSE), App>>
  <2>1. Between(r) => Top(r).op # "flush"
    BY <1>1, Tops DEF App
  <2>2. Waiting(r) => Top(r).op # "flush"
    BY <1>1, Tops
  <2>3. QED
    BY <2>1, <2>2 DEF Between, Waiting
<1>8. QED
  BY <1>2, <1>3, <1>4, <1>6, <1>7

\* The first of several frames is replaced.
LEMMA Replaced ==
  ASSUME NEW f, NEW g, NEW a, NEW b, NEW e
  PROVE  /\ [<<f, a>> EXCEPT ![1] = g] = <<g, a>>
         /\ [<<f, a, b, e>> EXCEPT ![1] = g] = <<g, a, b, e>>
<1> DEFINE S == {f, g, a, b, e}
<1>1. [<<f, a>> EXCEPT ![1] = g] = <<g, a>>
  <2> DEFINE t == <<f, a>>
             u == [t EXCEPT ![1] = g]
             v == <<g, a>>
  <2>1. t \in Seq(S) /\ Len(t) = 2 /\ t[2] = a
    OBVIOUS
  <2>2. v \in Seq(S) /\ Len(v) = 2 /\ v[1] = g /\ v[2] = a
    OBVIOUS
  <2>3. g \in S
    OBVIOUS
  <2> HIDE DEF t, v, S
  <2>4. u \in Seq(S) /\ Len(u) = 2 /\ u[1] = g /\ u[2] = a
    BY <2>1, <2>3
  <2> HIDE DEF u
  <2>5. \A i \in 1..Len(u) : u[i] = v[i]
    BY <2>2, <2>4
  <2>6. u = v
    BY <2>2, <2>4, <2>5, SeqEqual
  <2>7. QED
    BY <2>6 DEF u, t, v
<1>2. [<<f, a, b, e>> EXCEPT ![1] = g] = <<g, a, b, e>>
  <2> DEFINE t == <<f, a, b, e>>
             u == [t EXCEPT ![1] = g]
             v == <<g, a, b, e>>
  <2>1. t \in Seq(S) /\ Len(t) = 4 /\ t[2] = a /\ t[3] = b /\ t[4] = e
    OBVIOUS
  <2>2. v \in Seq(S) /\ Len(v) = 4 /\ v[1] = g /\ v[2] = a /\ v[3] = b /\ v[4] = e
    OBVIOUS
  <2>3. g \in S
    OBVIOUS
  <2> HIDE DEF t, v, S
  <2>4. u \in Seq(S) /\ Len(u) = 4 /\ u[1] = g /\ u[2] = a /\ u[3] = b /\ u[4] = e
    BY <2>1, <2>3
  <2> HIDE DEF u
  <2>5. \A i \in 1..Len(u) : u[i] = v[i]
    BY <2>2, <2>4
  <2>6. u = v
    BY <2>2, <2>4, <2>5, SeqEqual
  <2>7. QED
    BY <2>6 DEF u, t, v
<1>3. QED
  BY <1>1, <1>2

\* The stack of an insertion whose flush has packed its message.
LEMMA PackStacks ==
  ASSUME NEW f \in Flushes, NEW c \in Sets, NEW s \in 1..NumSlots + 1
  PROVE  LET g == [f EXCEPT !.packed = TRUE]
             t == <<f, App>>
         IN /\ g \in Flushes /\ g.op = "flush" /\ g.set = f.set /\ g.slot = f.slot /\ g.key = f.key
            /\ g.count = f.count /\ g.fill = f.fill /\ g.packed = TRUE
            /\ [t EXCEPT ![1].packed = TRUE] = <<g, App>>
            /\ <<g, App>> \in Seq(FrameTypes)
            /\ <<g, FlushAll(c, s), Barrier(TRUE), App>> \in Seq(FrameTypes)
            /\ Head(<<g, App>>) = g /\ Head(<<g, FlushAll(c, s), Barrier(TRUE), App>>) = g
<1> DEFINE g == [f EXCEPT !.packed = TRUE]
<1>1. /\ g \in Flushes /\ g.op = "flush" /\ g.set = f.set /\ g.slot = f.slot /\ g.key = f.key
      /\ g.count = f.count /\ g.fill = f.fill /\ g.packed = TRUE
  BY DEF Flushes
<1> DEFINE t == <<f, App>>
<1>4. [t EXCEPT ![1].packed = TRUE] = [t EXCEPT ![1] = g]
  <2>1. t[1] = f
    OBVIOUS
  <2> HIDE DEF t
  <2>2. QED
    BY <2>1
<1>2. [t EXCEPT ![1] = g] = <<g, App>>
  <2> HIDE DEF g
  <2>1. QED
    BY Replaced
<1>5. [t EXCEPT ![1].packed = TRUE] = <<g, App>>
  <2> HIDE DEF t, g
  <2>1. QED
    BY <1>2, <1>4 DEF g
<1> HIDE DEF g
<1>7. g \in FrameTypes /\ App \in FrameTypes /\ FlushAll(c, s) \in FrameTypes /\ Barrier(TRUE) \in FrameTypes
  BY <1>1, FrameFacts
<1>8. <<g, App>> \in Seq(FrameTypes)
  BY <1>7
<1>9. <<g, FlushAll(c, s), Barrier(TRUE), App>> \in Seq(FrameTypes)
  BY <1>7, FrameFacts
<1>10. Head(<<g, App>>) = g /\ Head(<<g, FlushAll(c, s), Barrier(TRUE), App>>) = g
  BY Stacks, Head4
<1>11. QED
  BY <1>1, <1>5, <1>8, <1>9, <1>10 DEF g

\* The stack of a callback whose flush has packed its message.
LEMMA PackSweep ==
  ASSUME NEW f \in Flushes, NEW c \in Sets, NEW s \in 1..NumSlots + 1
  PROVE  [<<f, FlushAll(c, s), Barrier(TRUE), App>> EXCEPT ![1].packed = TRUE]
           = <<[f EXCEPT !.packed = TRUE], FlushAll(c, s), Barrier(TRUE), App>>
<1> DEFINE g == [f EXCEPT !.packed = TRUE]
           u == <<f, FlushAll(c, s), Barrier(TRUE), App>>
<1>1. u[1] = f
  OBVIOUS
<1>2. [u EXCEPT ![1] = g] = <<g, FlushAll(c, s), Barrier(TRUE), App>>
  <2> HIDE DEF g
  <2>1. \A x, y, z : [<<f, x, y, z>> EXCEPT ![1] = g] = <<g, x, y, z>>
    BY Replaced
  <2>2. QED
    BY <2>1, Zenon
<1> HIDE DEF u
<1>3. [u EXCEPT ![1].packed = TRUE] = [u EXCEPT ![1] = g]
  BY <1>1
<1> HIDE DEF g
<1>4. QED
  BY <1>2, <1>3 DEF u, g

\* count_cache_flush packs its message.
LEMMA FlushPackKeeps ==
  ASSUME CountingAssumption, IInv, NEW r \in Ranks, FlushPack(r)
  PROVE  IInv'
<1> DEFINE f == Top(r)
           g == [f EXCEPT !.packed = TRUE]
           c == f.set
           k == f.key
           m == Visit(c, k, f.count)
<1>1. Types /\ NetSound /\ Quiet /\ RankSound(r) /\ Shape(r) /\ FlushSound(r) /\ SlotsSound(r) /\ HooksSound(r)
      /\ stack \in [Ranks -> Seq(FrameTypes)]
  BY RankFacts
<1>2. /\ f.op = "flush" /\ ~f.packed /\ net' = Plus(net, m)
      /\ stack' = [stack EXCEPT ![r][1].packed = TRUE]
      /\ UNCHANGED progVars /\ map' = map /\ cache' = cache /\ empty' = empty /\ hooks' = hooks
      /\ ins' = ins /\ left' = left
  BY DEF FlushPack, cacheVars
<1>3. /\ f \in Flushes /\ c \in Sets /\ f.slot \in Slots /\ k \in Keys
      /\ f.count \in 1..MaxCount /\ f.fill \in Keys \cup {None}
      /\ f.fill # None => f.fill # k
      /\ stack[r] \notin {<<App>>, <<Barrier(FALSE), App>>}
  BY <1>2, FlushFacts
<1>4. stack'[r] = [stack[r] EXCEPT ![1].packed = TRUE] /\ \A q \in Ranks \ {r} : stack'[q] = stack[q]
  BY <1>1, <1>2
<1>5. /\ stack'[r] \in Seq(FrameTypes) /\ Top(r)' = g
      /\ Inserting(r) => Inserting(r)'
      /\ SweepFlushing(r) => SweepFlushing(r)'
      /\ \A d \in Sets : Sweeps(r, d) => Sweeps(r, d)'
      /\ g.op = "flush" /\ g.set = c /\ g.slot = f.slot /\ g.key = k
      /\ g.count = f.count /\ g.fill = f.fill /\ g.packed = TRUE
  <2>1. CASE Inserting(r)
    <3>1. PICK h \in Flushes : stack[r] = <<h, App>>
      BY <2>1 DEF Inserting
    <3>2. h = f
      BY <3>1, Stacks, Head4 DEF Top
    <3>3. stack[r] = <<f, App>>
      BY <3>1, <3>2
    <3> HIDE DEF f
    <3>4. 1 \in 1..NumSlots + 1
      BY DEF CountingAssumption
    <3>5. /\ g \in Flushes /\ g.op = "flush" /\ g.set = f.set /\ g.slot = f.slot /\ g.key = f.key
          /\ g.count = f.count /\ g.fill = f.fill /\ g.packed = TRUE
          /\ stack'[r] = <<g, App>> /\ <<g, App>> \in Seq(FrameTypes) /\ Head(<<g, App>>) = g
      BY <1>3, <1>4, <3>3, <3>4, PackStacks
    <3> HIDE DEF g
    <3>6. Inserting(r)' /\ Top(r)' = g
      BY <3>5 DEF Inserting, Top
    <3>7. \A d \in Sets : ~Sweeps(r, d)
      <4>1. f.op = "flush"
        BY <1>3 DEF Flushes
      <4>2. QED
        BY <3>3, <4>1 DEF Sweeps, App
    <3>8. ~SweepFlushing(r)
      BY <3>3 DEF SweepFlushing
    <3>9. QED
      BY <3>5, <3>6, <3>7, <3>8
  <2>2. CASE SweepFlushing(r)
    <3>1. PICK h \in Flushes, d \in Sets, s \in 1..NumSlots + 1 :
             /\ stack[r] = <<h, FlushAll(d, s), Barrier(TRUE), App>>
             /\ h.set = d /\ h.slot = s - 1 /\ h.fill = None
             /\ Swept(r, d, s - 1)
      BY <2>2 DEF SweepFlushing
    <3>2. h = f
      BY <3>1, Stacks, Head4 DEF Top
    <3>3. /\ stack[r] = <<f, FlushAll(d, s), Barrier(TRUE), App>>
          /\ f.set = d /\ f.slot = s - 1 /\ f.fill = None
      BY <3>1, <3>2
    <3> HIDE DEF f
    <3>5. /\ g \in Flushes /\ g.op = "flush" /\ g.set = f.set /\ g.slot = f.slot /\ g.key = f.key
          /\ g.count = f.count /\ g.fill = f.fill /\ g.packed = TRUE
          /\ stack'[r] = <<g, FlushAll(d, s), Barrier(TRUE), App>>
          /\ <<g, FlushAll(d, s), Barrier(TRUE), App>> \in Seq(FrameTypes)
          /\ Head(<<g, FlushAll(d, s), Barrier(TRUE), App>>) = g
      <4>1. /\ g \in Flushes /\ g.op = "flush" /\ g.set = f.set /\ g.slot = f.slot /\ g.key = f.key
            /\ g.count = f.count /\ g.fill = f.fill /\ g.packed = TRUE
        BY <1>3 DEF Flushes
      <4>2. f \in Flushes /\ d \in Sets /\ s \in 1..NumSlots + 1
        BY <1>3
      <4>3. [<<f, FlushAll(d, s), Barrier(TRUE), App>> EXCEPT ![1].packed = TRUE]
              = <<g, FlushAll(d, s), Barrier(TRUE), App>>
        BY <4>2, PackSweep
      <4>4. <<g, FlushAll(d, s), Barrier(TRUE), App>> \in Seq(FrameTypes)
        BY <4>2, PackStacks
      <4>5. Head(<<g, FlushAll(d, s), Barrier(TRUE), App>>) = g
        BY Head4
      <4>6. stack'[r] = [<<f, FlushAll(d, s), Barrier(TRUE), App>> EXCEPT ![1].packed = TRUE]
        BY <1>4, <3>3
      <4> HIDE DEF g
      <4>7. QED
        BY <4>1, <4>3, <4>4, <4>5, <4>6
    <3> HIDE DEF g
    <3>6. Top(r)' = g
      BY <3>5 DEF Top
    <3>7. SweepFlushing(r)'
      <4>1. Swept(r, d, s - 1)'
        BY <1>2, <3>1 DEF Swept
      <4>2. g.set = d /\ g.slot = s - 1 /\ g.fill = None
        BY <3>3, <3>5
      <4>3. QED
        BY <3>5, <4>1, <4>2 DEF SweepFlushing
    <3>8. \A e \in Sets : Sweeps(r, e) => Sweeps(r, e)'
      <4>1. f.op = "flush"
        BY <1>3 DEF Flushes
      <4>2. DOMAIN stack[r] = 1..4 /\ DOMAIN stack'[r] = 1..4 /\ stack[r][1] = f
            /\ \A i \in 2..4 : stack'[r][i] = stack[r][i]
        BY <3>3, <3>5
      <4>3. QED
        BY <4>1, <4>2 DEF Sweeps
    <3>9. ~Inserting(r)
      BY <3>3 DEF Inserting
    <3>10. QED
      BY <3>5, <3>6, <3>7, <3>8, <3>9
  <2>3. QED
    BY <1>1, <1>2, <2>1, <2>2, Tops
<1> HIDE DEF f, g
<1>6. RankSound(r)'
  <2>1. Shape(r)'
    BY <1>1, <1>2, <1>5, Tops DEF Shape, f
  <2>2. FlushSound(r)'
    <3>1. FlushSound(r)
      BY <1>1
    <3>2. QED
      BY <1>2, <1>5, <3>1 DEF FlushSound, f
  <2>3. SlotsSound(r)'
    <3>1. \A d \in Sets, t \in Slots : FlushOf(r, d, t) => FlushOf(r, d, t)'
      BY <1>5 DEF FlushOf, f
    <3>2. QED
      BY <1>1, <1>2, <3>1, SlotsSame
  <2>4. HooksSound(r)'
    BY <1>1, <1>2, <1>5 DEF HooksSound, Hooked
  <2>5. QED
    BY <2>1, <2>2, <2>3, <2>4 DEF RankSound
<1>7. \A q \in Ranks \ {r} : Still(q)
  BY <1>2, <1>4 DEF Still
<1>8. Types'
  <2>1. stack' \in [Ranks -> Seq(FrameTypes)]
    <3>1. stack' = [q \in Ranks |-> stack'[q]]
      BY <1>1, <1>2
    <3>2. \A q \in Ranks : stack'[q] \in Seq(FrameTypes)
      BY <1>1, <1>4, <1>5
    <3>3. QED
      BY <3>1, <3>2
  <2>2. QED
    BY <1>1, <1>2, <2>1 DEF Types, progVars
<1>9. /\ IsABag(net) /\ IsFiniteSet(BagToSet(net)) /\ BagToSet(net) \subseteq Messages
      /\ \A x \in BagToSet(net) : x.op = "insert" => use.handlers
  BY <1>1 DEF NetSound
<1>10. m \in Messages /\ m.op = "visit"
  BY <1>3, MessageIn
<1>11. \A d \in Sets, i \in Keys : Carries(m, d, i) = IF c = d /\ k = i THEN f.count ELSE 0
  BY <1>3, MessageIn
<1> HIDE DEF m
<1>12. ASSUME NEW d \in Sets, NEW i \in Keys
       PROVE  SentIn(net', d, i) = SentIn(net, d, i) + Carries(m, d, i)
  BY <1>2, <1>9, <1>10, SentPlus
<1>13. NetSound'
  <2>1. IsABag(net') /\ IsFiniteSet(BagToSet(net')) /\ BagToSet(net') = BagToSet(net) \cup {m}
    BY <1>2, <1>3, <1>9, <1>10, SentPlus
  <2>2. BagToSet(net') \subseteq Messages /\ \A x \in BagToSet(net') : x.op = "insert" => use'.handlers
    BY <1>2, <1>9, <1>10, <2>1 DEF progVars
  <2>3. QED
    BY <2>1, <2>2 DEF NetSound
<1>14. Quiet'
  BY <1>1, <1>2, <1>3, Busy
<1>15. ASSUME NEW d \in Sets, NEW i \in Keys
       PROVE  Balance(r, d, i) /\ SentIn(net, d, i) \in Int /\ SentIn(net', d, i) \in Int
  <2> DEFINE a == IF c = d /\ k = i THEN f.count ELSE 0
             b == 0 - a
             e == cache[d][r][Slot[i]]
  <2>0. a \in Int
    <3>1. f.count \in Int
      BY <1>3 DEF CountingAssumption
    <3>2. QED
      BY <3>1
  <2>1. a \in Int /\ b \in Int /\ 0 \in Int /\ 0 = 0 + a + b
    <3> HIDE DEF a
    <3>1. QED
      BY <2>0
  <2>2. ins[d][i] \in Nat /\ map[d][i] \in Nat
    BY RankFacts
  <2>3. ins'[d][i] = ins[d][i] + 0 /\ map'[d][i] = map[d][i] + 0
    BY <1>2, <2>2
  <2>4. SentIn(net', d, i) = SentIn(net, d, i) + a
    BY <1>11, <1>12
  <2>5. Holds(r, d, i)' = Holds(r, d, i) + b
    <3> DEFINE x == IF e.key = i THEN e.count ELSE 0
               y == IF (f.op = "flush" /\ f.set = d) /\ f.fill = i THEN 1 ELSE 0
    <3>1. Holds(r, d, i) = x - 0 + y
      BY <1>2 DEF Holds, f
    <3>2. Holds(r, d, i)' = x - a + y
      BY <1>2, <1>5 DEF Holds
    <3>3. x \in Int /\ y \in Int
      <4>1. e.count \in Int
        BY RankFacts, EntryFacts
      <4> HIDE DEF e
      <4>2. QED
        BY <4>1
    <3> HIDE DEF x, y, a
    <3>4. QED
      BY <2>0, <3>1, <3>2, <3>3
  <2> HIDE DEF a, b
  <2>6. QED
    BY <2>1, <2>3, <2>4, <2>5, Balances
<1>16. QED
  BY <1>6, <1>7, <1>8, <1>13, <1>14, <1>15, Keeps


\* A flush returns to the callback that called it.
LEMMA SweepTail ==
  ASSUME NEW f, NEW c, NEW s
  PROVE  Tail(<<f, FlushAll(c, s), Barrier(TRUE), App>>) = <<FlushAll(c, s), Barrier(TRUE), App>>
<1> DEFINE g == FlushAll(c, s)
           h == Barrier(TRUE)
           a == App
<1> HIDE DEF g, h, a
<1>1. Tail(<<f, g, h, a>>) = <<g, h, a>>
  BY Tail4
<1>2. QED
  BY <1>1 DEF g, h, a

\* async() has returned: the slot is reset, or filled with the key that waits.
LEMMA FlushEndKeeps ==
  ASSUME CountingAssumption, IInv, NEW r \in Ranks, FlushEnd(r)
  PROVE  IInv'
<1> DEFINE f == Top(r)
           c == f.set
           s == f.slot
           n == IF f.fill = None THEN Free ELSE Entry(f.fill, 1)
<1>1. Types /\ NetSound /\ Quiet /\ RankSound(r) /\ Shape(r) /\ FlushSound(r) /\ SlotsSound(r) /\ HooksSound(r)
      /\ stack \in [Ranks -> Seq(FrameTypes)]
  BY RankFacts
<1>2. /\ f.op = "flush" /\ f.packed /\ net' = net
      /\ cache' = [cache EXCEPT ![c][r][s] = n] /\ SetStack(r, Below(r))
      /\ UNCHANGED progVars /\ map' = map /\ empty' = empty /\ hooks' = hooks
      /\ ins' = ins /\ left' = left
  BY DEF FlushEnd
<1>3. /\ f \in Flushes /\ c \in Sets /\ s \in Slots /\ f.key \in Keys
      /\ f.count \in 1..MaxCount /\ f.fill \in Keys \cup {None}
      /\ f.fill # None => Slot[f.fill] = s /\ f.fill # f.key
      /\ cache[c][r][s] = Entry(f.key, f.count) /\ Slot[f.key] = s /\ ~empty[c][r]
      /\ stack[r] \notin {<<App>>, <<Barrier(FALSE), App>>}
  BY <1>2, FlushFacts
<1>4. /\ Below(r) \in Seq(FrameTypes) /\ Head(Below(r)).op # "flush"
      /\ Inserting(r) => Below(r) = <<App>>
      /\ \A d \in Sets, t \in 1..NumSlots + 1 :
           stack[r] = <<f, FlushAll(d, t), Barrier(TRUE), App>> => Below(r) = <<FlushAll(d, t), Barrier(TRUE), App>>
      /\ \A d \in Sets : Sweeps(r, d) => \E i \in DOMAIN Below(r) : Below(r)[i].op = "flushall" /\ Below(r)[i].set = d
  <2>1. CASE Inserting(r)
    <3>1. PICK h \in Flushes : stack[r] = <<h, App>>
      BY <2>1 DEF Inserting
    <3>2. Below(r) = <<App>> /\ h = f
      BY <3>1, Stacks DEF Below, Top
    <3>3. <<App>> \in Seq(FrameTypes) /\ Head(<<App>>) = App /\ App.op = "app"
      BY FrameFacts DEF App
    <3>4. \A d \in Sets : ~Sweeps(r, d)
      BY <1>2, <3>1, <3>2, <3>3 DEF Sweeps
    <3>5. \A d \in Sets, t \in 1..NumSlots + 1 : stack[r] # <<f, FlushAll(d, t), Barrier(TRUE), App>>
      BY <3>1
    <3>6. QED
      BY <3>2, <3>3, <3>4, <3>5
  <2>2. CASE SweepFlushing(r)
    <3>1. PICK h \in Flushes, d \in Sets, t \in 1..NumSlots + 1 :
             stack[r] = <<h, FlushAll(d, t), Barrier(TRUE), App>>
      BY <2>2 DEF SweepFlushing
    <3>2. Below(r) = <<FlushAll(d, t), Barrier(TRUE), App>> /\ h = f
      <4>2. Below(r) = <<FlushAll(d, t), Barrier(TRUE), App>>
        BY <3>1, SweepTail DEF Below
      <4>3. h = f
        BY <3>1, Head4 DEF Top
      <4>4. QED
        BY <4>2, <4>3
    <3>3. /\ <<FlushAll(d, t), Barrier(TRUE), App>> \in Seq(FrameTypes)
          /\ Head(<<FlushAll(d, t), Barrier(TRUE), App>>) = FlushAll(d, t) /\ FlushAll(d, t).op = "flushall"
      <4>1. FlushAll(d, t) \in FrameTypes /\ Barrier(TRUE) \in FrameTypes /\ App \in FrameTypes
        BY FrameFacts
      <4>2. <<FlushAll(d, t), Barrier(TRUE), App>> \in Seq(FrameTypes)
        BY <4>1, FrameFacts
      <4>3. \A x, y, z : Head(<<x, y, z>>) = x
        BY Stacks
      <4>4. Head(<<FlushAll(d, t), Barrier(TRUE), App>>) = FlushAll(d, t)
        BY <4>3, Zenon
      <4>5. FlushAll(d, t).op = "flushall"
        BY DEF FlushAll
      <4>6. QED
        BY <4>2, <4>4, <4>5
    <3>4. ~Inserting(r)
      BY <3>1 DEF Inserting
    <3>5. ASSUME NEW e \in Sets, Sweeps(r, e)
          PROVE  \E i \in DOMAIN Below(r) : Below(r)[i].op = "flushall" /\ Below(r)[i].set = e
      <4>1. PICK i \in DOMAIN stack[r] : stack[r][i].op = "flushall" /\ stack[r][i].set = e
        BY <3>5 DEF Sweeps
      <4>2. DOMAIN stack[r] = 1..4 /\ stack[r][1] = f /\ DOMAIN Below(r) = 1..3
            /\ \A j \in 2..4 : stack[r][j] = Below(r)[j - 1]
        BY <3>1, <3>2
      <4>3. i # 1
        BY <1>2, <4>1, <4>2
      <4>4. i \in 2..4 /\ i - 1 \in 1..3
        BY <4>1, <4>2, <4>3
      <4>5. QED
        BY <4>1, <4>2, <4>4
    <3>6. \A e \in Sets, u \in 1..NumSlots + 1 :
            stack[r] = <<f, FlushAll(e, u), Barrier(TRUE), App>> => Below(r) = <<FlushAll(e, u), Barrier(TRUE), App>>
      BY SweepTail DEF Below
    <3>7. QED
      BY <3>2, <3>3, <3>4, <3>5, <3>6
  <2>3. QED
    BY <1>1, <1>2, <2>1, <2>2, Tops
<1>5. /\ stack' \in [Ranks -> Seq(FrameTypes)] /\ stack'[r] = Below(r)
      /\ \A q \in Ranks \ {r} : stack'[q] = stack[q]
  BY <1>1, <1>2, <1>4, StackSet
<1>6. Top(r)'.op # "flush"
  BY <1>4, <1>5 DEF Top
<1>7. /\ n \in Entries /\ (n = Free <=> f.fill = None)
      /\ f.fill # None => n \in Counts /\ n.key = f.fill /\ n.count = 1
      /\ n = Free => n.key = None
      /\ MaxCount \in Nat /\ MaxCount > 1 /\ None \notin Keys
  <2>1. MaxCount \in Nat /\ MaxCount > 1 /\ None \notin Keys
    BY DEF CountingAssumption
  <2>2. CASE f.fill = None
    BY <2>1, <2>2 DEF Entries, Free
  <2>3. CASE f.fill # None
    <3>1. f.fill \in Keys /\ n = Entry(f.fill, 1)
      BY <1>3, <2>3
    <3>2. n.key = f.fill /\ n.count = 1 /\ n \in Counts
      BY <2>1, <3>1 DEF Entry, Counts
    <3>3. n \in Entries /\ n # Free
      BY <2>1, <3>1, <3>2 DEF Entries, Counts, Free
    <3>4. QED
      BY <2>1, <2>3, <3>2, <3>3
  <2>4. QED
    BY <2>2, <2>3
<1>8. /\ cache \in [Sets -> [Ranks -> [Slots -> Entries]]]
      /\ cache' \in [Sets -> [Ranks -> [Slots -> Entries]]]
      /\ \A d \in Sets, t \in Slots : cache'[d][r][t] = IF d = c /\ t = s THEN n ELSE cache[d][r][t]
      /\ \A d \in Sets, q \in Ranks \ {r} : cache'[d][q] = cache[d][q]
  <2>1. cache \in [Sets -> [Ranks -> [Slots -> Entries]]]
    BY <1>1 DEF Types
  <2> HIDE DEF n, c, s
  <2>2. QED
    BY <1>2, <1>3, <1>7, <2>1
<1>9. FlushOf(r, c, s) /\ \A d \in Sets, t \in Slots : FlushOf(r, d, t) => (d = c /\ t = s)
  BY <1>2 DEF FlushOf
<1> HIDE DEF n, c, s
<1>10. RankSound(r)'
  <2>1. Shape(r)'
    <3>1. CASE Inserting(r)
      BY <1>4, <1>5, <3>1 DEF Shape, Between
    <3>2. CASE SweepFlushing(r)
      <4>1. PICK h \in Flushes, d \in Sets, t \in 1..NumSlots + 1 :
              /\ stack[r] = <<h, FlushAll(d, t), Barrier(TRUE), App>>
              /\ h.set = d /\ h.slot = t - 1 /\ h.fill = None
              /\ Swept(r, d, t - 1)
        BY <3>2 DEF SweepFlushing
      <4>2. h = f
        BY <4>1, Stacks, Head4 DEF Top
      <4>3. c = d /\ s = t - 1 /\ n = Free
        BY <1>7, <4>1, <4>2 DEF c, s
      <4>4. stack'[r] = <<FlushAll(d, t), Barrier(TRUE), App>>
        BY <1>4, <1>5, <4>1, <4>2
      <4>5. Swept(r, d, t)'
        <5>1. ASSUME NEW u \in Slots, u < t PROVE cache'[d][r][u] = Free
          <6>1. u = s \/ u < t - 1
            BY <4>3, <5>1 DEF Slots
          <6>2. u < t - 1 => cache[d][r][u] = Free
            BY <4>1 DEF Swept
          <6>3. QED
            BY <1>8, <4>3, <6>1, <6>2
        <5>2. QED
          BY <5>1 DEF Swept
      <4>6. QED
        BY <4>4, <4>5 DEF Shape, Sweeping
    <3>3. QED
      BY <1>1, <1>2, <3>1, <3>2, Tops
  <2>2. FlushSound(r)'
    BY <1>6 DEF FlushSound
  <2>3. SlotsSound(r)'
    <3>1. Fits(n, r, c, s)
      <4>1. n # Free => Slot[n.key] = s /\ n.count # MaxCount /\ n \in Counts
        BY <1>3, <1>7
      <4>2. QED
        BY <1>2, <1>3, <4>1 DEF Fits
    <3>2. \A d \in Sets, t \in Slots : FlushOf(r, d, t) => (d = c /\ t = s) \/ FlushOf(r, d, t)'
      BY <1>9
    <3>3. /\ SlotsSound(r) /\ c \in Sets /\ s \in Slots /\ (\A d \in Sets : empty'[d][r] => empty[d][r])
          /\ \A d \in Sets, t \in Slots : cache'[d][r][t] = IF d = c /\ t = s THEN n ELSE cache[d][r][t]
      BY <1>1, <1>2, <1>3, <1>8
    <3>4. QED
      BY <3>1, <3>2, <3>3, SlotSet
  <2>4. HooksSound(r)'
    <3>1. \A d \in Sets : Sweeps(r, d) => Sweeps(r, d)'
      BY <1>4, <1>5 DEF Sweeps
    <3>2. QED
      BY <1>1, <1>2, <3>1 DEF HooksSound, Hooked
  <2>5. QED
    BY <2>1, <2>2, <2>3, <2>4 DEF RankSound
<1>11. \A q \in Ranks \ {r} : Still(q)
  BY <1>2, <1>5, <1>8 DEF Still
<1>12. Types'
  BY <1>1, <1>2, <1>5, <1>8 DEF Types, progVars
<1>13. NetSound'
  BY <1>1, <1>2 DEF NetSound, progVars
<1>14. Quiet'
  BY <1>1, <1>2, <1>3, Busy
<1>15. ASSUME NEW d \in Sets, NEW i \in Keys
       PROVE  Balance(r, d, i) /\ SentIn(net, d, i) \in Int /\ SentIn(net', d, i) \in Int
  <2> DEFINE e == cache[d][r][Slot[i]]
             g == cache'[d][r][Slot[i]]
             v == IF f.fill = i THEN 1 ELSE 0
             w == IF f.key = i THEN f.count ELSE 0
  <2>1. ins[d][i] \in Nat /\ map[d][i] \in Nat /\ SentIn(net, d, i) \in Nat /\ Slot[i] \in Slots
    BY RankFacts
  <2>2. /\ ins'[d][i] = ins[d][i] + 0 /\ map'[d][i] = map[d][i] + 0
        /\ SentIn(net', d, i) = SentIn(net, d, i) + 0
    BY <1>2, <2>1
  <2>3. Holds(r, d, i) = (IF e.key = i THEN e.count ELSE 0) - (IF c = d THEN w ELSE 0) + (IF c = d THEN v ELSE 0)
    BY <1>2 DEF Holds, c
  <2>4. Holds(r, d, i)' = (IF g.key = i THEN g.count ELSE 0) - 0 + 0
    BY <1>6 DEF Holds
  <2>5. e.count \in Int /\ f.count \in Int
    <3>1. e.count \in Int
      BY RankFacts, EntryFacts
    <3>2. QED
      BY <1>3, <1>7, <3>1
  <2>6. g = IF d = c /\ Slot[i] = s THEN n ELSE e
    BY <1>8, <2>1
  <2>7. (d = c /\ Slot[i] = s) => e.key = f.key /\ e.count = f.count
    BY <1>3 DEF Entry
  <2>8. f.key = i => Slot[i] = s
    BY <1>3
  <2>9. f.fill = i => Slot[i] = s /\ f.fill # None /\ f.fill # f.key
    BY <1>3, <1>7
  <2>10. Holds(r, d, i)' = Holds(r, d, i) + 0
    <3>1. CASE d = c /\ Slot[i] = s
      <4>1. g = n /\ e.key = f.key /\ e.count = f.count
        BY <2>6, <2>7, <3>1
      <4>2. Holds(r, d, i) = w - w + v
        BY <2>3, <3>1, <4>1
      <4>3. v = IF g.key = i THEN g.count ELSE 0
        BY <1>3, <1>7, <4>1
      <4>4. v \in Int /\ w \in Int
        BY <2>5
      <4> HIDE DEF g, v, w
      <4>5. QED
        BY <2>4, <4>2, <4>3, <4>4
    <3>2. CASE ~(d = c /\ Slot[i] = s)
      <4>1. g = e
        BY <2>6, <3>2
      <4>2. (IF c = d THEN w ELSE 0) = 0 /\ (IF c = d THEN v ELSE 0) = 0
        BY <2>8, <2>9, <3>2
      <4> HIDE DEF g, v, w, e
      <4>3. QED
        BY <2>3, <2>4, <2>5, <4>1, <4>2
    <3>3. QED
      BY <3>1, <3>2
  <2>11. 0 \in Int /\ 0 = 0 + 0 + 0
    OBVIOUS
  <2> HIDE DEF e, g, v, w
  <2>12. QED
    BY <2>2, <2>10, <2>11, Balances
<1>16. QED
  BY <1>10, <1>11, <1>12, <1>13, <1>14, <1>15, Keeps

-----------------------------------------------------------------------------
(***************************************************************************)
(* Handlers.                                                               *)
(***************************************************************************)
\* What receiving m leaves in flight.
LEMMA Received ==
  ASSUME CountingAssumption, IInv, NEW r \in Ranks, NEW m \in BagToSet(net)
  PROVE  /\ m \in Messages /\ IsABag(Rest(m)) /\ IsFiniteSet(BagToSet(Rest(m)))
         /\ BagToSet(Rest(m)) \subseteq Messages
         /\ \A x \in BagToSet(Rest(m)) : x.op = "insert" => use.handlers
         /\ \A c \in Sets, k \in Keys : /\ SentIn(Rest(m), c, k) \in Nat
                                        /\ SentIn(net, c, k) = SentIn(Rest(m), c, k) + Carries(m, c, k)
         /\ net # EmptyBag
<1>1. /\ IsABag(net) /\ IsFiniteSet(BagToSet(net)) /\ BagToSet(net) \subseteq Messages
      /\ \A x \in BagToSet(net) : x.op = "insert" => use.handlers
  BY DEF IInv, NetSound
<1>2. m \in Messages /\ net # EmptyBag
  BY <1>1, SentZero
<1>3. m.set \in Sets /\ m.key \in Keys
  BY <1>2 DEF Messages, Visits, UserMsgs
<1>4. IsABag(Rest(m)) /\ IsFiniteSet(BagToSet(Rest(m))) /\ BagToSet(Rest(m)) \subseteq BagToSet(net)
  BY <1>1, <1>3, SentRest
<1>5. ASSUME NEW c \in Sets, NEW k \in Keys
      PROVE  /\ SentIn(Rest(m), c, k) \in Nat
             /\ SentIn(net, c, k) = SentIn(Rest(m), c, k) + Carries(m, c, k)
  <2>1. SentIn(Rest(m), c, k) \in Nat
    BY <1>1, SentRest
  <2>2. SentIn(net, c, k) = SentIn(Rest(m), c, k) + Carries(m, c, k)
    BY <1>1, SentRest
  <2>3. QED
    BY <2>1, <2>2
<1>6. QED
  BY <1>1, <1>2, <1>4, <1>5

\* The owner of a key adds the count of a flush to its map.
LEMMA HandleVisitKeeps ==
  ASSUME CountingAssumption, IInv, NEW r \in Ranks, NEW m \in BagToSet(net), HandleVisit(r, m)
  PROVE  IInv'
<1>1. Types /\ NetSound /\ Quiet /\ RankSound(r)
  BY RankFacts
<1>2. /\ m.op = "visit" /\ net' = Rest(m) /\ map' = [map EXCEPT ![m.set][m.key] = @ + m.add]
      /\ UNCHANGED progVars /\ cache' = cache /\ empty' = empty /\ hooks' = hooks
      /\ stack' = stack /\ ins' = ins /\ left' = left
  BY DEF HandleVisit, cacheVars
<1>3. /\ m \in Messages /\ IsABag(Rest(m)) /\ IsFiniteSet(BagToSet(Rest(m)))
      /\ BagToSet(Rest(m)) \subseteq Messages
      /\ \A x \in BagToSet(Rest(m)) : x.op = "insert" => use.handlers
      /\ net # EmptyBag
  BY Received
<1>4. \A c \in Sets, k \in Keys : /\ SentIn(Rest(m), c, k) \in Nat
                                  /\ SentIn(net, c, k) = SentIn(Rest(m), c, k) + Carries(m, c, k)
  BY Received
<1>5. m.set \in Sets /\ m.key \in Keys /\ m.add \in Nat
  <2>1. m \in Visits
    BY <1>2, <1>3 DEF Messages, UserMsgs
  <2>2. MaxCount \in Nat
    BY DEF CountingAssumption
  <2>3. QED
    BY <2>1, <2>2 DEF Visits
<1>6. \A p \in Ranks : Still(p)
  BY <1>2 DEF Still
<1>7. RankSound(r)' /\ \A d \in Sets, i \in Keys : Holds(r, d, i)' = Holds(r, d, i)
  BY <1>1, <1>6, StillSound
<1>8. map \in [Sets -> [Keys -> Nat]] /\ map' \in [Sets -> [Keys -> Nat]]
      /\ \A d \in Sets, i \in Keys : map'[d][i] = IF d = m.set /\ i = m.key THEN map[d][i] + m.add ELSE map[d][i]
  <2>1. map \in [Sets -> [Keys -> Nat]]
    BY <1>1 DEF Types
  <2>2. QED
    BY <1>2, <1>5, <2>1
<1>9. Types'
  BY <1>1, <1>2, <1>8 DEF Types, progVars
<1>10. NetSound'
  BY <1>2, <1>3 DEF NetSound, progVars
<1>11. Quiet'
  BY <1>1, <1>2, <1>3, Busy
<1>12. ASSUME NEW d \in Sets, NEW i \in Keys
       PROVE  Balance(r, d, i) /\ SentIn(net, d, i) \in Int /\ SentIn(net', d, i) \in Int
  <2> DEFINE a == IF d = m.set /\ i = m.key THEN m.add ELSE 0
             b == 0 - a
  <2>1. a \in Int /\ b \in Int /\ 0 \in Int /\ 0 = a + b + 0
    <3>1. a \in Int
      BY <1>5
    <3> HIDE DEF a
    <3>2. QED
      BY <3>1
  <2>2. ins[d][i] \in Nat /\ map[d][i] \in Nat
    BY RankFacts
  <2>3. ins'[d][i] = ins[d][i] + 0 /\ map'[d][i] = map[d][i] + a
    BY <1>2, <1>8, <2>2
  <2>4. Carries(m, d, i) = a
    BY <1>2, <1>3, CarriesNat
  <2>5. SentIn(net, d, i) = SentIn(net', d, i) + a /\ SentIn(net', d, i) \in Nat
    BY <1>2, <1>4, <2>4
  <2> HIDE DEF a
  <2>6. SentIn(net', d, i) = SentIn(net, d, i) + b
    BY <2>1, <2>5
  <2>7. Holds(r, d, i)' = Holds(r, d, i) + 0
    <3>1. Holds(r, d, i) \in Int
      BY <1>1, HoldsInt DEF RankSound
    <3>2. QED
      BY <1>7, <3>1
  <2> HIDE DEF b
  <2>8. QED
    BY <2>1, <2>3, <2>6, <2>7, Balances
<1>13. QED
  BY <1>6, <1>7, <1>9, <1>10, <1>11, <1>12, Keeps


\* The program's handlers do not insert if async() runs handlers inside of
\* async_insert().
NeverBoth == \A u \in Uses : ~(u.interrupts /\ u.handlers)

\* A handler calls async_insert.
LEMMA HandleInsertKeeps ==
  ASSUME CountingAssumption, NeverBoth, IInv, NEW r \in Ranks, NEW m \in BagToSet(net), HandleInsert(r, m)
  PROVE  IInv'
<1> DEFINE c == m.set
           k == m.key
           s == Slot[k]
           e == cache[c][r][s]
           n == Counted(e, k)
           rest == Rest(m)
<1>1. /\ Types /\ NetSound /\ Quiet
      /\ Shape(r) /\ FlushSound(r) /\ SlotsSound(r) /\ HooksSound(r)
      /\ stack \in [Ranks -> Seq(FrameTypes)]
  BY RankFacts
<1>2. /\ Receiving(r) /\ m.op = "insert" /\ Register(c, r)
      /\ UNCHANGED progVars /\ map' = map /\ stack' = stack /\ ins' = ins /\ left' = left
  BY DEF HandleInsert
<1>3. \/ Taken(e, k) /\ net' = Plus(rest, Visit(c, e.key, e.count)) /\ cache' = [cache EXCEPT ![c][r][s] = Entry(k, 1)]
      \/ ~Taken(e, k) /\ ~Full(n) /\ net' = rest /\ cache' = [cache EXCEPT ![c][r][s] = n]
      \/ ~Taken(e, k) /\ Full(n) /\ net' = Plus(rest, Visit(c, n.key, n.count)) /\ cache' = [cache EXCEPT ![c][r][s] = Free]
  BY DEF HandleInsert
<1>4. /\ m \in Messages /\ IsABag(rest) /\ IsFiniteSet(BagToSet(rest))
      /\ BagToSet(rest) \subseteq Messages
      /\ \A x \in BagToSet(rest) : x.op = "insert" => use.handlers
      /\ net # EmptyBag
  BY Received
<1>5. \A d \in Sets, i \in Keys : /\ SentIn(rest, d, i) \in Nat
                                  /\ SentIn(net, d, i) = SentIn(rest, d, i) + Carries(m, d, i)
  BY Received
<1>6. c \in Sets /\ k \in Keys /\ s \in Slots /\ e \in Entries
  <2>1. c \in Sets /\ k \in Keys
    BY <1>4 DEF Messages, Visits, UserMsgs
  <2>2. QED
    BY <2>1, RankFacts
<1>7. \A d \in Sets, i \in Keys : Carries(m, d, i) = IF d = c /\ i = k THEN 1 ELSE 0
  BY <1>2, <1>4, CarriesNat
<1>8. Top(r).op # "flush" /\ \A d \in Sets : ~Sweeps(r, d)
  <2>1. use.handlers /\ use \in Uses
    BY <1>1, <1>2 DEF NetSound, Types
  <2>2. Top(r) = App \/ Top(r) = Barrier(FALSE)
    BY <1>2, <2>1 DEF Receiving, NeverBoth
  <2>3. Between(r) \/ Waiting(r)
    BY <1>1, <2>2, Tops DEF Barrier
  <2>4. \A d \in Sets : ~Sweeps(r, d)
    <3>1. CASE Between(r)
      BY <3>1 DEF Between, Sweeps, App
    <3>2. CASE Waiting(r)
      <4>1. PICK h \in BOOLEAN : stack[r] = <<Barrier(h), App>>
        BY <3>2 DEF Waiting
      <4>2. DOMAIN stack[r] = 1..2 /\ stack[r][1].op = "barrier" /\ stack[r][2].op = "app"
        BY <4>1 DEF Barrier, App
      <4>3. QED
        BY <4>2 DEF Sweeps
    <3>3. QED
      BY <2>3, <3>1, <3>2
  <2>5. QED
    BY <2>2, <2>4 DEF App, Barrier
<1>9. \A d \in Sets, t \in Slots : ~FlushOf(r, d, t)
  BY <1>8 DEF FlushOf
<1>10. /\ HooksSound(r)'
       /\ empty' \in [Sets -> [Ranks -> BOOLEAN]] /\ hooks' \in [Ranks -> Seq(Sets)]
       /\ empty'[c][r] = FALSE /\ \A d \in Sets : empty'[d][r] => empty[d][r]
       /\ \A q \in Ranks \ {r} : hooks'[q] = hooks[q] /\ \A d \in Sets : empty'[d][q] = empty[d][q]
  <2>1. \A d \in Sets : Sweeps(r, d) => Sweeps(r, d)'
    BY <1>8
  <2> HIDE DEF c
  <2>2. HooksSound(r)'
    BY <1>1, <1>2, <1>6, <2>1, Registers
  <2>3. /\ empty' \in [Sets -> [Ranks -> BOOLEAN]] /\ hooks' \in [Ranks -> Seq(Sets)]
        /\ empty'[c][r] = FALSE /\ \A d \in Sets : empty'[d][r] => empty[d][r]
        /\ \A q \in Ranks \ {r} : hooks'[q] = hooks[q] /\ \A d \in Sets : empty'[d][q] = empty[d][q]
    BY <1>1, <1>2, <1>6, <2>1, Registers
  <2>4. QED
    BY <2>2, <2>3
<1>11. /\ e.count \in Int /\ MaxCount \in Nat /\ MaxCount > 1 /\ None \notin Keys
       /\ e = Free => e.key = None /\ e.count = -1
       /\ e # Free => /\ e \in Counts /\ e.key \in Keys
                      /\ e.count \in 1..MaxCount /\ e = Entry(e.key, e.count) /\ Slot[e.key] = s
                      /\ e.count < MaxCount
       /\ e.count = -1 <=> e = Free
  <2>1. /\ e.count \in Int /\ MaxCount \in Nat /\ MaxCount > 1 /\ None \notin Keys
        /\ e = Free => e.key = None /\ e.count = -1
        /\ e # Free => /\ e \in Counts /\ e.key \in Keys
                       /\ e.count \in 1..MaxCount /\ e = Entry(e.key, e.count)
        /\ e.count = -1 <=> e = Free
    BY <1>6, EntryFacts DEF CountingAssumption
  <2>2. e # Free => Slot[e.key] = s /\ e.count # MaxCount
    BY <1>1, <1>6, <1>9 DEF SlotsSound
  <2> HIDE DEF e, s
  <2>3. QED
    BY <2>1, <2>2
<1> HIDE DEF e, rest
<1>12. ~Taken(e, k) =>
        /\ n \in Counts /\ n.key = k /\ n # Free
        /\ n.count = (IF e.key = k THEN e.count ELSE 0) + 1
        /\ n.count \in 1..MaxCount /\ (e # Free => e.key = k)
  <2> HIDE DEF s, k
  <2>1. n = Entry(k, IF e.count = -1 THEN 1 ELSE e.count + 1)
    BY DEF Counted
  <2>2. n.key = k /\ n.count = IF e.count = -1 THEN 1 ELSE e.count + 1
    BY <2>1 DEF Entry
  <2>3. n # Free
    BY <1>6, <1>11, <2>2 DEF Free
  <2>4. ~Taken(e, k) => (e # Free => e.key = k)
    BY <1>11 DEF Taken
  <2>5. ~Taken(e, k) => n.count \in 1..MaxCount /\ n.count = (IF e.key = k THEN e.count ELSE 0) + 1
    BY <1>6, <1>11, <2>2, <2>4
  <2>6. n.count \in 1..MaxCount => n \in Counts
    BY <1>6, <2>1, <2>2 DEF Entry, Counts
  <2>7. QED
    BY <2>2, <2>3, <2>4, <2>5, <2>6
<1> HIDE DEF n, c, k
<1> DEFINE Val(x, i) == IF x.key = i THEN x.count ELSE 0
           Sum(d, i) == SentIn(rest, d, i) + IF d = c /\ i = k THEN 1 ELSE 0
           Gain(v, d, i) == IF d = c /\ Slot[i] = s THEN Val(v, i) - Val(e, i) ELSE 0
           Moved(v) == \A d \in Sets, i \in Keys : /\ SentIn(net', d, i) \in Nat
                                                   /\ SentIn(net', d, i) + Gain(v, d, i) = Sum(d, i)
           Set(v) == /\ v \in Entries
                     /\ v # Free => v \in Counts /\ Slot[v.key] = s /\ v.count # MaxCount
                     /\ cache' = [cache EXCEPT ![c][r][s] = v]
<1>13. Slot[k] = s /\ \A i \in Keys : e.key = i => Slot[i] = s
  BY <1>11 DEF s
<1>14. Free.key = None /\ Free.count = -1
  BY DEF Free
\* What the slot becomes, and what of it is sent.
<1>15. \E v : Set(v) /\ Moved(v) /\ NetSound'
  <2>1. ASSUME NEW i \in Keys, NEW j \in 1..MaxCount, net' = Plus(rest, Visit(c, i, j))
        PROVE  NetSound' /\ \A d \in Sets, x \in Keys :
                              /\ SentIn(net', d, x) = SentIn(rest, d, x) + IF c = d /\ i = x THEN j ELSE 0
                              /\ SentIn(net', d, x) \in Nat
    <3> DEFINE w == Visit(c, i, j)
    <3>1. w \in Messages /\ w.op = "visit"
      BY <1>6, <2>1, MessageIn
    <3>2. \A d \in Sets, x \in Keys : Carries(w, d, x) = IF c = d /\ i = x THEN j ELSE 0
      BY <1>6, <2>1, MessageIn
    <3>3. net' = Plus(rest, w)
      BY <2>1
    <3> HIDE DEF w
    <3>4. IsABag(net') /\ IsFiniteSet(BagToSet(net')) /\ BagToSet(net') = BagToSet(rest) \cup {w}
      BY <1>4, <1>6, <3>1, <3>3, SentPlus
    <3>5. NetSound'
      <4>1. BagToSet(net') \subseteq Messages /\ \A x \in BagToSet(net') : x.op = "insert" => use'.handlers
        BY <1>2, <1>4, <3>1, <3>4 DEF progVars
      <4>2. QED
        BY <3>4, <4>1 DEF NetSound
    <3>6. ASSUME NEW d \in Sets, NEW x \in Keys
          PROVE  /\ SentIn(net', d, x) = SentIn(rest, d, x) + IF c = d /\ i = x THEN j ELSE 0
                 /\ SentIn(net', d, x) \in Nat
      <4>1. SentIn(net', d, x) = SentIn(rest, d, x) + Carries(w, d, x)
        BY <1>4, <3>1, <3>3, SentPlus
      <4>2. SentIn(rest, d, x) \in Nat /\ j \in Nat
        BY <1>5, <1>11
      <4>3. QED
        BY <3>2, <4>1, <4>2
    <3>7. QED
      BY <3>5, <3>6
  <2>2. CASE Taken(e, k)
    <3>1. e # Free /\ e.key # k
      BY <1>11, <2>2 DEF Taken
    <3> DEFINE v == Entry(k, 1)
    <3>2. v \in Counts /\ v.key = k /\ v.count = 1 /\ v.count # MaxCount /\ v \in Entries
      BY <1>6, <1>11 DEF Counts, Entry, Entries
    <3>3. net' = Plus(rest, Visit(c, e.key, e.count)) /\ cache' = [cache EXCEPT ![c][r][s] = v]
      BY <1>3, <2>2
    <3>4. e.key \in Keys /\ e.count \in 1..MaxCount
      BY <1>11, <3>1
    <3>5. NetSound' /\ \A d \in Sets, x \in Keys :
                         /\ SentIn(net', d, x) = SentIn(rest, d, x) + IF c = d /\ e.key = x THEN e.count ELSE 0
                         /\ SentIn(net', d, x) \in Nat
      BY <2>1, <3>3, <3>4
    <3> HIDE DEF v
    <3>6. Set(v)
      BY <1>13, <3>2, <3>3
    <3>7. ASSUME NEW d \in Sets, NEW i \in Keys
          PROVE  SentIn(net', d, i) + Gain(v, d, i) = Sum(d, i)
      <4>1. SentIn(rest, d, i) \in Nat /\ e.count \in Nat
        BY <1>5, <1>11, <3>4
      <4>2. SentIn(net', d, i) = SentIn(rest, d, i) + IF c = d /\ e.key = i THEN e.count ELSE 0
        BY <3>5
      <4>3. i = k => Slot[i] = s /\ e.key # i
        BY <1>13, <3>1
      <4>4. e.key = i => Slot[i] = s
        BY <1>13
      <4>5. v.key = k /\ v.count = 1
        BY <3>2
      <4>6. QED
        BY <4>1, <4>2, <4>3, <4>4, <4>5
    <3>8. Moved(v)
      BY <3>5, <3>7
    <3>9. QED
      BY <3>5, <3>6, <3>8
  <2>3. CASE ~Taken(e, k) /\ ~Full(n)
    <3>1. /\ n \in Counts /\ n.key = k /\ n # Free
          /\ n.count = (IF e.key = k THEN e.count ELSE 0) + 1
          /\ n.count \in 1..MaxCount /\ (e # Free => e.key = k) /\ n.count # MaxCount
      BY <1>12, <2>3 DEF Full
    <3>2. net' = rest /\ cache' = [cache EXCEPT ![c][r][s] = n] /\ n \in Entries
      BY <1>3, <2>3, <3>1 DEF Entries, Counts
    <3>3. Set(n)
      BY <1>13, <3>1, <3>2
    <3>4. NetSound'
      BY <1>2, <1>4, <3>2 DEF NetSound, progVars
    <3>5. ASSUME NEW d \in Sets, NEW i \in Keys
          PROVE  SentIn(net', d, i) + Gain(n, d, i) = Sum(d, i)
      <4>1. SentIn(rest, d, i) \in Nat /\ e.count \in Int
        BY <1>5, <1>11
      <4>2. SentIn(net', d, i) = SentIn(rest, d, i)
        BY <3>2
      <4>3. i = k => Slot[i] = s
        BY <1>13
      <4>4. e.key = i => i = k
        BY <1>11, <3>1
      <4>5. n.key = k /\ n.count = (IF e.key = k THEN e.count ELSE 0) + 1
        BY <3>1
      <4>6. QED
        BY <4>1, <4>2, <4>3, <4>4, <4>5
    <3>6. Moved(n)
      BY <1>5, <3>2, <3>5
    <3>7. QED
      BY <3>3, <3>4, <3>6
  <2>4. CASE ~Taken(e, k) /\ Full(n)
    <3>1. /\ n \in Counts /\ n.key = k /\ n # Free
          /\ n.count = (IF e.key = k THEN e.count ELSE 0) + 1
          /\ n.count \in 1..MaxCount /\ (e # Free => e.key = k)
      BY <1>12, <2>4
    <3>2. net' = Plus(rest, Visit(c, k, n.count)) /\ cache' = [cache EXCEPT ![c][r][s] = Free] /\ Free \in Entries
      BY <1>3, <2>4, <3>1 DEF Entries
    <3>3. Set(Free)
      BY <3>2
    <3>4. NetSound' /\ \A d \in Sets, x \in Keys :
                         /\ SentIn(net', d, x) = SentIn(rest, d, x) + IF c = d /\ k = x THEN n.count ELSE 0
                         /\ SentIn(net', d, x) \in Nat
      BY <1>6, <2>1, <3>1, <3>2
    <3>5. ASSUME NEW d \in Sets, NEW i \in Keys
          PROVE  SentIn(net', d, i) + Gain(Free, d, i) = Sum(d, i)
      <4>1. SentIn(rest, d, i) \in Nat /\ e.count \in Int
        BY <1>5, <1>11
      <4>2. SentIn(net', d, i) = SentIn(rest, d, i) + IF c = d /\ k = i THEN n.count ELSE 0
        BY <3>4
      <4>3. i = k => Slot[i] = s
        BY <1>13
      <4>4. (e.key = i => i = k) /\ Free.key # i
        BY <1>11, <1>14, <3>1
      <4>5. n.count = (IF e.key = k THEN e.count ELSE 0) + 1
        BY <3>1
      <4>6. QED
        BY <4>1, <4>2, <4>3, <4>4, <4>5
    <3>6. Moved(Free)
      BY <3>4, <3>5
    <3>7. QED
      BY <3>3, <3>4, <3>6
  <2>5. QED
    BY <2>2, <2>3, <2>4
<1>16. PICK v : Set(v) /\ Moved(v) /\ NetSound'
  BY <1>15
<1>17. /\ cache \in [Sets -> [Ranks -> [Slots -> Entries]]]
       /\ cache' \in [Sets -> [Ranks -> [Slots -> Entries]]]
       /\ \A d \in Sets, t \in Slots : cache'[d][r][t] = IF d = c /\ t = s THEN v ELSE cache[d][r][t]
       /\ \A d \in Sets, q \in Ranks \ {r} : cache'[d][q] = cache[d][q]
  <2>1. cache \in [Sets -> [Ranks -> [Slots -> Entries]]]
    BY <1>1 DEF Types
  <2>2. cache' = [cache EXCEPT ![c][r][s] = v] /\ v \in Entries
    BY <1>16
  <2> HIDE DEF s
  <2>3. QED
    BY <1>6, <2>1, <2>2
<1>18. Top(r)' = Top(r)
  BY <1>2 DEF Top
<1>19. RankSound(r)'
  <2>1. Shape(r)'
    <3>1. Between(r) \/ Waiting(r)
      <4>1. use.handlers /\ use \in Uses
        BY <1>1, <1>2 DEF NetSound, Types
      <4>2. Top(r) = App \/ Top(r) = Barrier(FALSE)
        BY <1>2, <4>1 DEF Receiving, NeverBoth
      <4>3. QED
        BY <1>1, <4>2, Tops DEF Barrier
    <3>2. QED
      BY <1>2, <3>1 DEF Shape, Between, Waiting
  <2>2. FlushSound(r)'
    BY <1>8, <1>18 DEF FlushSound
  <2>3. SlotsSound(r)'
    <3>1. Fits(v, r, c, s)
      BY <1>10, <1>16 DEF Fits
    <3>2. \A d \in Sets, t \in Slots : FlushOf(r, d, t) => (d = c /\ t = s) \/ FlushOf(r, d, t)'
      BY <1>9
    <3>3. /\ SlotsSound(r) /\ c \in Sets /\ s \in Slots /\ (\A d \in Sets : empty'[d][r] => empty[d][r])
          /\ \A d \in Sets, t \in Slots : cache'[d][r][t] = IF d = c /\ t = s THEN v ELSE cache[d][r][t]
      BY <1>1, <1>6, <1>10, <1>17
    <3> HIDE DEF s
    <3>4. QED
      BY <3>1, <3>2, <3>3, SlotSet
  <2>4. QED
    BY <1>10, <2>1, <2>2, <2>3 DEF RankSound
<1>20. \A q \in Ranks \ {r} : Still(q)
  BY <1>2, <1>10, <1>17 DEF Still
<1>21. Types'
  BY <1>1, <1>2, <1>10, <1>17 DEF Types, progVars
<1>22. Quiet'
  BY <1>1, <1>2, <1>4, Busy
<1>23. ASSUME NEW d \in Sets, NEW i \in Keys
       PROVE  Balance(r, d, i) /\ SentIn(net, d, i) \in Int /\ SentIn(net', d, i) \in Int
  <2> DEFINE g == cache[d][r][Slot[i]]
             h == cache'[d][r][Slot[i]]
             a == Gain(v, d, i)
             b == 0 - a
  <2>1. ins[d][i] \in Nat /\ map[d][i] \in Nat /\ Slot[i] \in Slots
    BY RankFacts
  <2>2. ins'[d][i] = ins[d][i] + 0 /\ map'[d][i] = map[d][i] + 0
    BY <1>2, <2>1
  <2>3. Holds(r, d, i) = Val(g, i) - 0 + 0 /\ Holds(r, d, i)' = Val(h, i) - 0 + 0
    BY <1>8, <1>18 DEF Holds
  <2>4. g.count \in Int /\ h.count \in Int
    <3>1. h \in Entries /\ g \in Entries
      BY <1>17, <2>1
    <3>2. QED
      BY <3>1, EntryFacts
  <2>5. h = IF d = c /\ Slot[i] = s THEN v ELSE g
    BY <1>17, <2>1
  <2>6. d = c /\ Slot[i] = s => g = e
    BY DEF e
  <2>7. SentIn(rest, d, i) \in Nat /\ SentIn(net', d, i) \in Nat /\ SentIn(net', d, i) + a = Sum(d, i)
    BY <1>5, <1>16
  <2>8. SentIn(net, d, i) = Sum(d, i)
    BY <1>5, <1>7
  <2>9. v.count \in Int /\ e.count \in Int
    BY <1>11, <1>16, EntryFacts
  <2>10. a \in Int /\ Holds(r, d, i)' = Holds(r, d, i) + a
    <3> HIDE DEF g, h
    <3>1. QED
      BY <2>3, <2>4, <2>5, <2>6, <2>9
  <2>11. SentIn(net', d, i) = SentIn(net, d, i) + b
    <3> DEFINE t == Sum(d, i)
    <3>1. t \in Int
      BY <2>7
    <3> HIDE DEF t, a
    <3>2. QED
      BY <2>7, <2>8, <2>10, <3>1
  <2>12. a \in Int /\ b \in Int /\ 0 \in Int /\ 0 = 0 + b + a
    <3> HIDE DEF a
    <3>1. QED
      BY <2>10
  <2> HIDE DEF a, b, g, h
  <2>13. QED
    BY <2>2, <2>10, <2>11, <2>12, Balances
<1>24. QED
  BY <1>16, <1>19, <1>20, <1>21, <1>22, <1>23, Keeps


-----------------------------------------------------------------------------
(***************************************************************************)
(* Barriers.                                                               *)
(***************************************************************************)
\* The stack of a rank in a barrier, and of one that flushes a cache there.
LEMMA BarrierStacks ==
  /\ \A h \in BOOLEAN : /\ <<Barrier(h), App>> \in Seq(FrameTypes) /\ Head(<<Barrier(h), App>>) = Barrier(h)
                        /\ Tail(<<Barrier(h), App>>) = <<App>>
                        /\ <<Barrier(h)>> \o <<App>> = <<Barrier(h), App>> /\ Barrier(h).op = "barrier"
  /\ <<App>> \in Seq(FrameTypes) /\ Head(<<App>>) = App /\ App.op = "app"
<1>1. App \in FrameTypes /\ \A h \in BOOLEAN : Barrier(h) \in FrameTypes
  BY FrameFacts
<1>2. ASSUME NEW h \in BOOLEAN
      PROVE  /\ <<Barrier(h), App>> \in Seq(FrameTypes) /\ Head(<<Barrier(h), App>>) = Barrier(h)
             /\ Tail(<<Barrier(h), App>>) = <<App>>
             /\ <<Barrier(h)>> \o <<App>> = <<Barrier(h), App>> /\ Barrier(h).op = "barrier"
  <2> DEFINE b == Barrier(h)
             a == App
  <2>1. b \in FrameTypes /\ a \in FrameTypes /\ b.op = "barrier"
    BY <1>1 DEF Barrier
  <2> HIDE DEF a, b
  <2>2. <<b, a>> \in Seq(FrameTypes) /\ Head(<<b, a>>) = b
    BY <2>1
  <2>3. Tail(<<b, a>>) = <<a>> /\ <<b>> \o <<a>> = <<b, a>>
    BY Stacks
  <2>4. QED
    BY <2>1, <2>2, <2>3 DEF a, b
<1>3. <<App>> \in Seq(FrameTypes) /\ Head(<<App>>) = App /\ App.op = "app"
  BY <1>1 DEF App
<1>4. QED
  BY <1>2, <1>3

\* The stack of a rank that has come to slot s.
SweepStack(t, c, s) ==
  /\ FlushAll(c, s).op = "flushall" /\ FlushAll(c, s).set = c /\ FlushAll(c, s).slot = s
  /\ t \in Seq(FrameTypes) /\ Head(t) = FlushAll(c, s) /\ Tail(t) = <<Barrier(TRUE), App>>
  /\ <<FlushAll(c, s)>> \o <<Barrier(TRUE), App>> = t
  /\ t[1] = FlushAll(c, s) /\ DOMAIN t = 1..3
  /\ t[2].op = "barrier" /\ t[3].op = "app"

\* count_cache_flush_all in a barrier: a stack of three frames.
LEMMA SweepStacks ==
  ASSUME NEW c \in Sets, NEW s \in 1..NumSlots + 1
  PROVE  SweepStack(<<FlushAll(c, s), Barrier(TRUE), App>>, c, s)
<1> DEFINE f == FlushAll(c, s)
           b == Barrier(TRUE)
           a == App
           t == <<f, b, a>>
<1>1. f \in FrameTypes /\ b \in FrameTypes /\ a \in FrameTypes
  BY FrameFacts
<1>2. f.op = "flushall" /\ f.set = c /\ f.slot = s /\ b.op = "barrier" /\ a.op = "app"
  BY DEF FlushAll, Barrier, App
<1> HIDE DEF f, b, a
<1>3. t \in Seq(FrameTypes) /\ t[1] = f /\ DOMAIN t = 1..3 /\ t[2] = b /\ t[3] = a
  BY <1>1
<1>4. Head(t) = f /\ Tail(t) = <<b, a>>
  BY Stacks
<1>5. <<f>> \o <<b, a>> = t
  BY Push3
<1> HIDE DEF t
<1>6. QED
  BY <1>2, <1>3, <1>4, <1>5 DEF f, b, a, t, SweepStack

\* Between calls nothing is flushed, and slots' counts are not full.
LEMMA IdleFacts ==
  ASSUME CountingAssumption, IInv, NEW r \in Ranks, Top(r) = App \/ Top(r).op = "barrier"
  PROVE  /\ Top(r).op # "flush" /\ (Between(r) \/ Waiting(r))
         /\ \A c \in Sets : ~Sweeps(r, c)
         /\ \A c \in Sets, s \in Slots : ~FlushOf(r, c, s)
<1>1. Shape(r)
  BY RankFacts
<1>2. Top(r).op # "flush" /\ (Between(r) \/ Waiting(r))
  BY <1>1, Tops DEF App
<1>3. CASE Between(r)
  <2>1. \A c \in Sets : ~Sweeps(r, c)
    BY <1>3 DEF Between, Sweeps, App
  <2>2. QED
    BY <1>2, <2>1 DEF FlushOf
<1>4. CASE Waiting(r)
  <2>1. PICK h \in BOOLEAN : stack[r] = <<Barrier(h), App>>
    BY <1>4 DEF Waiting
  <2>2. DOMAIN stack[r] = 1..2 /\ stack[r][1].op = "barrier" /\ stack[r][2].op = "app"
    BY <2>1 DEF Barrier, App
  <2>3. \A c \in Sets : ~Sweeps(r, c)
    BY <2>2 DEF Sweeps
  <2>4. QED
    BY <1>2, <2>3 DEF FlushOf
<1>5. QED
  BY <1>2, <1>3, <1>4

\* A step that only moves r between frames that do not flush.
LEMMA ControlKeeps ==
  ASSUME CountingAssumption, IInv, NEW r \in Ranks,
         cache' = cache, map' = map, net' = net, ins' = ins, left' = left, UNCHANGED progVars,
         empty' \in [Sets -> [Ranks -> BOOLEAN]], hooks' \in [Ranks -> Seq(Sets)],
         stack' \in [Ranks -> Seq(FrameTypes)],
         \A q \in Ranks \ {r} : /\ stack'[q] = stack[q] /\ hooks'[q] = hooks[q]
                                /\ \A c \in Sets : empty'[c][q] = empty[c][q],
         Top(r).op # "flush", Top(r)'.op # "flush",
         Shape(r)', HooksSound(r)', Quiet',
         \A c \in Sets : empty'[c][r] => empty[c][r] \/ \A s \in Slots : cache[c][r][s] = Free
  PROVE  IInv'
<1>1. Types /\ NetSound /\ SlotsSound(r)
  BY RankFacts
<1>2. Types'
  BY <1>1 DEF Types, progVars
<1>3. NetSound'
  BY <1>1 DEF NetSound, progVars
<1>4. RankSound(r)'
  <2>1. FlushSound(r)'
    BY DEF FlushSound
  <2>2. SlotsSound(r)'
    <3>1. \A c \in Sets, s \in Slots : ~FlushOf(r, c, s)
      BY DEF FlushOf
    <3>2. ASSUME NEW c \in Sets, NEW s \in Slots, cache[c][r][s] # Free
          PROVE  /\ cache[c][r][s] \in Counts /\ Slot[cache[c][r][s].key] = s
                 /\ cache[c][r][s].count # MaxCount /\ ~empty[c][r]
      BY <1>1, <3>1, <3>2 DEF SlotsSound
    <3>3. \A c \in Sets, s \in Slots : cache[c][r][s] # Free => ~empty'[c][r]
      BY <3>2
    <3>4. QED
      BY <3>2, <3>3 DEF SlotsSound
  <2>3. QED
    BY <2>1, <2>2 DEF RankSound
<1>5. \A q \in Ranks \ {r} : Still(q)
  BY DEF Still
<1>6. ASSUME NEW c \in Sets, NEW k \in Keys
      PROVE  Balance(r, c, k) /\ SentIn(net, c, k) \in Int /\ SentIn(net', c, k) \in Int
  <2>1. ins[c][k] \in Nat /\ map[c][k] \in Nat /\ SentIn(net, c, k) \in Nat
    BY RankFacts
  <2>2. Holds(r, c, k)' = Holds(r, c, k)
    BY DEF Holds
  <2>3. QED
    BY <2>1, <2>2 DEF Balance
<1>7. QED
  BY <1>2, <1>3, <1>4, <1>5, <1>6, Keeps

\* A rank enters a barrier.
LEMMA CallBarrierKeeps ==
  ASSUME CountingAssumption, IInv, NEW r \in Ranks, CallBarrier(r)
  PROVE  IInv'
<1>1. Types /\ Quiet /\ Shape(r) /\ HooksSound(r) /\ stack \in [Ranks -> Seq(FrameTypes)]
  BY RankFacts
<1>2. /\ Top(r) = App /\ call = "barrier" /\ SetStack(r, <<Barrier(FALSE)>> \o stack[r])
      /\ cache' = cache /\ empty' = empty /\ hooks' = hooks /\ map' = map /\ net' = net
      /\ ins' = ins /\ left' = left /\ UNCHANGED progVars
  BY DEF CallBarrier, EnterBarrier, cacheVars
<1>3. stack[r] = <<App>>
  BY <1>1, <1>2, Tops DEF Between
<1>4. /\ stack' \in [Ranks -> Seq(FrameTypes)] /\ stack'[r] = <<Barrier(FALSE), App>>
      /\ \A q \in Ranks \ {r} : stack'[q] = stack[q]
  <2>1. SetStack(r, <<Barrier(FALSE), App>>)
    BY <1>2, <1>3, BarrierStacks
  <2>2. <<Barrier(FALSE), App>> \in Seq(FrameTypes)
    BY BarrierStacks
  <2>3. QED
    BY <1>1, <2>1, <2>2, StackSet
<1>5. Top(r).op # "flush" /\ \A c \in Sets : ~Sweeps(r, c)
  BY <1>2, IdleFacts
<1>6. Top(r)'.op # "flush" /\ Shape(r)'
  BY <1>4, BarrierStacks DEF Top, Shape, Waiting
<1>7. HooksSound(r)'
  BY <1>1, <1>2, <1>5 DEF HooksSound, Hooked
<1>8. Quiet'
  BY <1>1, <1>2, Busy
<1>9. empty' \in [Sets -> [Ranks -> BOOLEAN]] /\ hooks' \in [Ranks -> Seq(Sets)]
  BY <1>1, <1>2 DEF Types
<1>10. QED
  BY <1>2, <1>4, <1>5, <1>6, <1>7, <1>8, <1>9, ControlKeeps

\* A rank has no callback left and waits in its barrier.
LEMMA HooksDoneKeeps ==
  ASSUME CountingAssumption, IInv, NEW r \in Ranks, HooksDone(r)
  PROVE  IInv'
<1>1. Types /\ Quiet /\ Shape(r) /\ HooksSound(r) /\ stack \in [Ranks -> Seq(FrameTypes)]
  BY RankFacts
<1>2. /\ Top(r) = Barrier(TRUE) /\ SetStack(r, <<Barrier(FALSE)>> \o Below(r))
      /\ cache' = cache /\ empty' = empty /\ hooks' = hooks /\ map' = map /\ net' = net
      /\ ins' = ins /\ left' = left /\ UNCHANGED progVars
  BY DEF HooksDone, cacheVars
<1>3. Top(r).op = "barrier"
  BY <1>2, BarrierStacks
<1>4. Below(r) = <<App>> /\ Waiting(r)
  BY <1>1, <1>3, Tops
<1>5. /\ stack' \in [Ranks -> Seq(FrameTypes)] /\ stack'[r] = <<Barrier(FALSE), App>>
      /\ \A q \in Ranks \ {r} : stack'[q] = stack[q]
  <2>1. SetStack(r, <<Barrier(FALSE), App>>)
    BY <1>2, <1>4, BarrierStacks
  <2>2. <<Barrier(FALSE), App>> \in Seq(FrameTypes)
    BY BarrierStacks
  <2>3. QED
    BY <1>1, <2>1, <2>2, StackSet
<1>6. Top(r).op # "flush" /\ \A c \in Sets : ~Sweeps(r, c)
  BY <1>3, IdleFacts
<1>7. Top(r)'.op # "flush" /\ Shape(r)'
  BY <1>5, BarrierStacks DEF Top, Shape, Waiting
<1>8. HooksSound(r)'
  BY <1>1, <1>2, <1>6 DEF HooksSound, Hooked
<1>9. Quiet'
  <2>1. stack[r] # <<App>> /\ stack[r] # <<Barrier(FALSE), App>>
    <3>1. Head(stack[r]) = Barrier(TRUE)
      BY <1>2 DEF Top
    <3>2. Barrier(TRUE) # Barrier(FALSE) /\ Barrier(TRUE) # App
      BY DEF Barrier, App
    <3>3. QED
      BY <3>1, <3>2, BarrierStacks
  <2>2. QED
    BY <1>1, <1>2, <2>1, Busy
<1>10. empty' \in [Sets -> [Ranks -> BOOLEAN]] /\ hooks' \in [Ranks -> Seq(Sets)]
  BY <1>1, <1>2 DEF Types
<1>11. QED
  BY <1>2, <1>5, <1>6, <1>7, <1>8, <1>9, <1>10, ControlKeeps

\* The barrier takes the next callback off its queue and calls it.
LEMMA RunHookKeeps ==
  ASSUME CountingAssumption, IInv, NEW r \in Ranks, RunHook(r)
  PROVE  IInv'
<1>0. PICK c : c = Head(hooks[r])
  OBVIOUS
<1>1. Types /\ Quiet /\ Shape(r) /\ HooksSound(r) /\ stack \in [Ranks -> Seq(FrameTypes)]
  BY RankFacts
<1>2. /\ Top(r).op = "barrier" /\ hooks[r] # <<>> /\ hooks' = [hooks EXCEPT ![r] = Tail(@)]
      /\ SetStack(r, (IF empty[c][r] THEN <<>> ELSE <<FlushAll(c, 1)>>) \o <<Barrier(TRUE)>> \o Below(r))
      /\ cache' = cache /\ empty' = empty /\ map' = map /\ net' = net
      /\ ins' = ins /\ left' = left /\ UNCHANGED progVars
  BY <1>0 DEF RunHook
<1>3. hooks \in [Ranks -> Seq(Sets)] /\ empty \in [Sets -> [Ranks -> BOOLEAN]]
  BY <1>1 DEF Types
<1>4. /\ hooks[r] \in Seq(Sets) /\ Len(hooks[r]) \in Nat \ {0} /\ c = hooks[r][1] /\ c \in Sets
      /\ Tail(hooks[r]) \in Seq(Sets) /\ Len(Tail(hooks[r])) = Len(hooks[r]) - 1
      /\ \A i \in 1..Len(hooks[r]) - 1 : Tail(hooks[r])[i] = hooks[r][i + 1]
  <2>1. hooks[r] \in Seq(Sets)
    BY <1>3
  <2>2. QED
    BY <1>0, <1>2, <2>1, HeadTail
<1>5. /\ hooks' \in [Ranks -> Seq(Sets)] /\ hooks'[r] = Tail(hooks[r])
      /\ \A q \in Ranks \ {r} : hooks'[q] = hooks[q]
  BY <1>2, <1>3, <1>4
<1>6. \A d \in Sets \ {c} : Hooked(r, d) => Hooked(r, d)'
  <2>1. SUFFICES ASSUME NEW d \in Sets, d # c, Hooked(r, d) PROVE Hooked(r, d)'
    OBVIOUS
  <2>2. PICK i \in DOMAIN hooks[r] : hooks[r][i] = d
    BY <2>1 DEF Hooked
  <2>3. i \in 1..Len(hooks[r]) /\ i # 1
    BY <1>4, <2>1, <2>2
  <2>4. i - 1 \in 1..Len(hooks[r]) - 1 /\ (i - 1) + 1 = i
    BY <1>4, <2>3
  <2>5. hooks'[r][i - 1] = d /\ i - 1 \in DOMAIN hooks'[r]
    BY <1>4, <1>5, <2>2, <2>4
  <2>6. QED
    BY <2>5 DEF Hooked
<1>7. Below(r) = <<App>> /\ Top(r).op # "flush" /\ \A d \in Sets : ~Sweeps(r, d)
  <2>1. Below(r) = <<App>>
    BY <1>1, <1>2, Tops
  <2>2. QED
    BY <1>2, <2>1, IdleFacts
<1>8. \/ /\ empty[c][r]
         /\ SetStack(r, <<Barrier(TRUE), App>>)
      \/ /\ ~empty[c][r]
         /\ SetStack(r, <<FlushAll(c, 1), Barrier(TRUE), App>>)
  <2> DEFINE b == Barrier(TRUE)
             f == FlushAll(c, 1)
             a == App
  <2>1. SetStack(r, ((IF empty[c][r] THEN <<>> ELSE <<f>>) \o <<b>>) \o <<a>>)
    BY <1>2, <1>7
  <2> HIDE DEF a, b, f
  <2>2. <<>> \o <<b>> = <<b>> /\ <<b>> \o <<a>> = <<b, a>>
    <3>1. <<b>> \in Seq({b})
      OBVIOUS
    <3>2. <<>> \o <<b>> = <<b>>
      BY <3>1, ConcatEmptySeq
    <3>3. QED
      BY <3>2, Stacks
  <2>3. <<f>> \o <<b>> = <<f, b>>
    BY Stacks
  <2>4. <<f, b>> \o <<a>> = <<f, b, a>>
    BY Push21
  <2>5. CASE empty[c][r]
    <3>1. ((IF empty[c][r] THEN <<>> ELSE <<f>>) \o <<b>>) \o <<a>> = <<b, a>>
      BY <2>2, <2>5
    <3>2. SetStack(r, <<b, a>>)
      BY <2>1, <3>1
    <3>3. QED
      BY <2>5, <3>2 DEF a, b
  <2>6. CASE ~empty[c][r]
    <3>1. ((IF empty[c][r] THEN <<>> ELSE <<f>>) \o <<b>>) \o <<a>> = <<f, b, a>>
      BY <2>3, <2>4, <2>6
    <3>2. SetStack(r, <<f, b, a>>)
      BY <2>1, <3>1
    <3>3. QED
      BY <2>6, <3>2 DEF a, b, f
  <2>7. QED
    BY <2>5, <2>6
<1>9. /\ stack' \in [Ranks -> Seq(FrameTypes)] /\ \A q \in Ranks \ {r} : stack'[q] = stack[q]
      /\ Top(r)'.op # "flush" /\ Shape(r)'
      /\ ~empty[c][r] => Sweeps(r, c)'
  <2>1. CASE empty[c][r] /\ SetStack(r, <<Barrier(TRUE), App>>)
    <3>1. /\ stack' \in [Ranks -> Seq(FrameTypes)] /\ stack'[r] = <<Barrier(TRUE), App>>
          /\ \A q \in Ranks \ {r} : stack'[q] = stack[q]
      <4>1. <<Barrier(TRUE), App>> \in Seq(FrameTypes)
        BY BarrierStacks
      <4>2. QED
        BY <1>1, <2>1, <4>1, StackSet
    <3>2. Top(r)'.op # "flush" /\ Shape(r)'
      BY <3>1, BarrierStacks DEF Top, Shape, Waiting
    <3>3. QED
      BY <2>1, <3>1, <3>2
  <2>2. CASE ~empty[c][r] /\ SetStack(r, <<FlushAll(c, 1), Barrier(TRUE), App>>)
    <3> DEFINE t == <<FlushAll(c, 1), Barrier(TRUE), App>>
    <3>0. 1 \in 1..NumSlots + 1
      BY DEF CountingAssumption
    <3>a. SweepStack(t, c, 1)
      BY <1>4, <3>0, SweepStacks
    <3> HIDE DEF t
    <3>1. t \in Seq(FrameTypes) /\ Head(t).op = "flushall" /\ t[1].op = "flushall" /\ t[1].set = c /\ 1 \in DOMAIN t
      BY <3>a DEF SweepStack
    <3>2. SetStack(r, t)
      BY <2>2 DEF t
    <3>3. /\ stack' \in [Ranks -> Seq(FrameTypes)] /\ stack'[r] = t
          /\ \A q \in Ranks \ {r} : stack'[q] = stack[q]
      BY <1>1, <3>1, <3>2, StackSet
    <3>4. Top(r)'.op # "flush" /\ Sweeps(r, c)'
      <4>1. Top(r)' = Head(t)
        BY <3>3 DEF Top
      <4>2. Sweeps(r, c)'
        BY <3>1, <3>3 DEF Sweeps
      <4>3. QED
        BY <3>1, <4>1, <4>2
    <3>5. Swept(r, c, 1)'
      BY DEF Swept, Slots
    <3>6. Shape(r)'
      <4>1. stack'[r] = <<FlushAll(c, 1), Barrier(TRUE), App>>
        BY <3>3 DEF t
      <4>2. Sweeping(r)'
        BY <1>4, <3>0, <3>5, <4>1 DEF Sweeping
      <4>3. QED
        BY <4>2 DEF Shape
    <3>7. QED
      BY <3>3, <3>4, <3>6
  <2>3. QED
    BY <1>8, <2>1, <2>2
<1>10. HooksSound(r)'
  <2>1. ASSUME NEW d \in Sets, ~empty'[d][r] PROVE Hooked(r, d)' \/ Sweeps(r, d)'
    <3>1. Hooked(r, d)
      BY <1>1, <1>2, <1>7, <2>1 DEF HooksSound
    <3>2. CASE d = c
      BY <1>2, <1>9, <2>1, <3>2
    <3>3. CASE d # c
      BY <1>6, <3>1, <3>3
    <3>4. QED
      BY <3>2, <3>3
  <2>2. QED
    BY <2>1 DEF HooksSound
<1>11. Quiet'
  BY <1>1, <1>2, Busy
<1>12. /\ empty' \in [Sets -> [Ranks -> BOOLEAN]]
       /\ \A d \in Sets : empty'[d][r] => empty[d][r] \/ \A s \in Slots : cache[d][r][s] = Free
       /\ \A q \in Ranks \ {r} : /\ stack'[q] = stack[q] /\ hooks'[q] = hooks[q]
                                  /\ \A d \in Sets : empty'[d][q] = empty[d][q]
  BY <1>2, <1>3, <1>5, <1>9
<1>13. QED
  BY <1>2, <1>5, <1>7, <1>9, <1>10, <1>11, <1>12, ControlKeeps

-----------------------------------------------------------------------------
(***************************************************************************)
(* A callback flushes a cache.                                             *)
(***************************************************************************)
\* What a callback that has come to a slot knows.
LEMMA SweepFacts ==
  ASSUME CountingAssumption, IInv, NEW r \in Ranks, Top(r).op = "flushall"
  PROVE  \E c \in Sets, s \in 1..NumSlots + 1 :
           /\ stack[r] = <<FlushAll(c, s), Barrier(TRUE), App>> /\ Swept(r, c, s)
           /\ Top(r).set = c /\ Top(r).slot = s /\ Below(r) = <<Barrier(TRUE), App>>
           /\ Top(r).op # "flush" /\ Sweeps(r, c) /\ (\A d \in Sets \ {c} : ~Sweeps(r, d))
           /\ stack[r] \notin {<<App>>, <<Barrier(FALSE), App>>}
<1>1. Shape(r)
  BY RankFacts
<1>2. PICK c \in Sets, s \in 1..NumSlots + 1 :
        stack[r] = <<FlushAll(c, s), Barrier(TRUE), App>> /\ Swept(r, c, s)
  BY <1>1, Tops DEF Sweeping
<1> DEFINE t == <<FlushAll(c, s), Barrier(TRUE), App>>
<1>3. SweepStack(t, c, s)
  BY SweepStacks
<1>4. stack[r] = t
  BY <1>2
<1> HIDE DEF t
<1>5. Top(r) = FlushAll(c, s) /\ Below(r) = <<Barrier(TRUE), App>>
  BY <1>3, <1>4 DEF SweepStack, Top, Below
<1>6. Top(r).set = c /\ Top(r).slot = s
  BY <1>3, <1>5 DEF SweepStack
<1>7. Sweeps(r, c) /\ \A d \in Sets \ {c} : ~Sweeps(r, d)
  <2>1. /\ DOMAIN stack[r] = 1..3 /\ stack[r][1].op = "flushall" /\ stack[r][1].set = c
        /\ stack[r][2].op = "barrier" /\ stack[r][3].op = "app"
    BY <1>3, <1>4 DEF SweepStack
  <2>2. QED
    BY <2>1 DEF Sweeps
<1>8. stack[r] # <<App>> /\ stack[r] # <<Barrier(FALSE), App>>
  <2>1. Between(r) => Top(r).op # "flushall"
    BY <1>1, Tops DEF App
  <2>2. Waiting(r) => Top(r).op # "flushall"
    BY <1>1, Tops
  <2>3. QED
    BY <2>1, <2>2 DEF Between, Waiting
<1>9. QED
  BY <1>2, <1>5, <1>6, <1>7, <1>8

\* The stack of a callback that flushes a slot.
PushStack(t, f, u) ==
  /\ <<f>> \o u = t /\ t \in Seq(FrameTypes) /\ Head(t) = f
  /\ DOMAIN t = 1..4 /\ t[2] = u[1]

\* count_cache_flush in count_cache_flush_all: a stack of four frames.
LEMMA PushStacks ==
  ASSUME NEW f \in Flushes, NEW c \in Sets, NEW s \in 1..NumSlots + 1
  PROVE  PushStack(<<f, FlushAll(c, s), Barrier(TRUE), App>>, f, <<FlushAll(c, s), Barrier(TRUE), App>>)
<1> DEFINE g == FlushAll(c, s)
           b == Barrier(TRUE)
           a == App
           t == <<f, g, b, a>>
           u == <<g, b, a>>
<1>1. f \in FrameTypes /\ b \in FrameTypes /\ a \in FrameTypes /\ g \in FrameTypes
  BY FrameFacts
<1> HIDE DEF g, b, a
<1>2. t \in Seq(FrameTypes) /\ DOMAIN t = 1..4 /\ t[2] = u[1]
  BY <1>1
<1>3. Head(t) = f
  BY Head4
<1>4. <<f>> \o u = t
  BY Push4
<1> HIDE DEF t, u
<1>5. PushStack(t, f, u)
  BY <1>2, <1>3, <1>4 DEF PushStack
<1>6. QED
  BY <1>5 DEF t, u, g, b, a

\* count_cache_flush_all takes the next slot.
LEMMA FlushAllSlotKeeps ==
  ASSUME CountingAssumption, IInv, NEW r \in Ranks, FlushAllSlot(r)
  PROVE  IInv'
<1>1. /\ Types /\ NetSound /\ Quiet /\ SlotsSound(r) /\ HooksSound(r)
      /\ stack \in [Ranks -> Seq(FrameTypes)]
  BY RankFacts
<1>2. /\ Top(r).op = "flushall" /\ Top(r).slot <= NumSlots
      /\ UNCHANGED progVars /\ cache' = cache /\ empty' = empty /\ hooks' = hooks
      /\ map' = map /\ net' = net /\ ins' = ins /\ left' = left
  BY DEF FlushAllSlot, LastSlot, cacheVars
<1>3. PICK c \in Sets, s \in 1..NumSlots + 1 :
           /\ stack[r] = <<FlushAll(c, s), Barrier(TRUE), App>> /\ Swept(r, c, s)
           /\ Top(r).set = c /\ Top(r).slot = s /\ Below(r) = <<Barrier(TRUE), App>>
           /\ Top(r).op # "flush" /\ Sweeps(r, c) /\ (\A d \in Sets \ {c} : ~Sweeps(r, d))
           /\ stack[r] \notin {<<App>>, <<Barrier(FALSE), App>>}
  BY <1>2, SweepFacts
<1>4. PICK e : e = cache[c][r][s]
  OBVIOUS
<1>5. s \in Slots /\ s + 1 \in 1..NumSlots + 1 /\ s = (s + 1) - 1 /\ NumSlots \in Nat
  BY <1>2, <1>3 DEF CountingAssumption, Slots
<1> DEFINE rest == <<FlushAll(c, s + 1), Barrier(TRUE), App>>
<1>6. SweepStack(rest, c, s + 1)
  BY <1>5, SweepStacks
<1>7. SetStack(r, IF e.count > 0 THEN <<Flush(c, s, e, None)>> \o rest ELSE rest)
  <2>1. <<FlushAll(c, s + 1)>> \o <<Barrier(TRUE), App>> = rest
    BY <1>6 DEF SweepStack
  <2> HIDE DEF rest
  <2>2. QED
    BY <1>3, <1>4, <2>1 DEF FlushAllSlot
<1>8. e \in Entries
  BY <1>4, <1>5, RankFacts
<1>9. Quiet'
  BY <1>1, <1>2, <1>3, Busy
<1>10. CASE e.count > 0
  <2> DEFINE f == Flush(c, s, e, None)
             t == <<f, FlushAll(c, s + 1), Barrier(TRUE), App>>
  <2>1. e # Free /\ e \in Counts /\ e = Entry(e.key, e.count)
    BY <1>8, <1>10, EntryFacts
  <2>2. Slot[e.key] = s
    BY <1>1, <1>4, <1>5, <2>1 DEF SlotsSound
  <2>3. IsFlush(f, c, s, e, None)
    BY <1>5, <2>1, FlushIn
  <2> HIDE DEF f
  <2>4. /\ f \in Flushes /\ f.op = "flush" /\ f.set = c /\ f.slot = s
        /\ f.key = e.key /\ f.count = e.count /\ f.fill = None /\ f.packed = FALSE
    BY <2>3 DEF IsFlush
  <2>5. PushStack(t, f, rest)
    BY <1>5, <2>4, PushStacks
  <2>6. stack' \in [Ranks -> Seq(FrameTypes)] /\ stack'[r] = t /\ \A q \in Ranks \ {r} : stack'[q] = stack[q]
    <3>1. SetStack(r, <<f>> \o rest)
      BY <1>7, <1>10 DEF f
    <3> HIDE DEF t, rest
    <3>2. SetStack(r, t) /\ t \in Seq(FrameTypes)
      BY <2>5, <3>1 DEF PushStack
    <3>3. QED
      BY <1>1, <3>2, StackSet
  <2>7. Top(r)' = f
    <3> HIDE DEF t, rest
    <3>1. QED
      BY <2>5, <2>6 DEF PushStack, Top
  <2>8. Sweeps(r, c)'
    <3> HIDE DEF t, rest
    <3>1. rest[1].op = "flushall" /\ rest[1].set = c
      BY <1>6 DEF SweepStack
    <3>2. t[2] = rest[1] /\ DOMAIN t = 1..4
      BY <2>5 DEF PushStack
    <3>4. stack'[r][2] = rest[1] /\ 2 \in DOMAIN stack'[r]
      BY <2>6, <3>2
    <3>3. QED
      BY <3>1, <3>4 DEF Sweeps
  <2>9. RankSound(r)'
    <3>1. Shape(r)'
      <4>1. Swept(r, c, (s + 1) - 1)'
        BY <1>2, <1>3, <1>5 DEF Swept
      <4>2. f.set = c /\ f.slot = (s + 1) - 1 /\ f.fill = None /\ f \in Flushes
        BY <1>5, <2>4
      <4>3. SweepFlushing(r)'
        BY <1>5, <2>6, <4>1, <4>2 DEF SweepFlushing
      <4>4. QED
        BY <4>3 DEF Shape
    <3>2. FlushSound(r)'
      <4>1. cache'[c][r][s] = Entry(f.key, f.count)
        BY <1>2, <1>4, <2>1, <2>4
      <4>2. QED
        BY <2>2, <2>4, <2>7, <4>1 DEF FlushSound
    <3>3. SlotsSound(r)'
      <4>1. \A d \in Sets, i \in Slots : ~FlushOf(r, d, i)
        BY <1>3 DEF FlushOf
      <4>2. QED
        BY <1>1, <1>2, <4>1, SlotsSame
    <3>4. HooksSound(r)'
      BY <1>1, <1>2, <1>3, <2>8 DEF HooksSound, Hooked
    <3>5. QED
      BY <3>1, <3>2, <3>3, <3>4 DEF RankSound
  <2>10. \A q \in Ranks \ {r} : Still(q)
    BY <1>2, <2>6 DEF Still
  <2>11. Types' /\ NetSound'
    <3>1. Types'
      BY <1>1, <1>2, <2>6 DEF Types, progVars
    <3>2. NetSound'
      BY <1>1, <1>2 DEF NetSound, progVars
    <3>3. QED
      BY <3>1, <3>2
  <2>12. ASSUME NEW d \in Sets, NEW i \in Keys
         PROVE  Balance(r, d, i) /\ SentIn(net, d, i) \in Int /\ SentIn(net', d, i) \in Int
    <3> DEFINE x == IF cache[d][r][Slot[i]].key = i THEN cache[d][r][Slot[i]].count ELSE 0
    <3>1. SentIn(net, d, i) \in Nat
      BY RankFacts
    <3>2. Holds(r, d, i) = x - 0 + 0
      BY <1>3, NoFlush
    <3>3. i # None
      BY DEF CountingAssumption
    <3>4. Holds(r, d, i)' = x - 0 + 0
      BY <1>2, <2>4, <2>7, <3>3 DEF Holds
    <3> HIDE DEF x
    <3>5. QED
      BY <1>2, <3>1, <3>2, <3>4 DEF Balance
  <2>13. QED
    BY <1>9, <2>9, <2>10, <2>11, <2>12, Keeps
<1>11. CASE ~(e.count > 0)
  <2>1. e = Free
    BY <1>8, <1>11, EntryFacts
  <2>2. stack' \in [Ranks -> Seq(FrameTypes)] /\ stack'[r] = rest /\ \A q \in Ranks \ {r} : stack'[q] = stack[q]
    <3> HIDE DEF rest
    <3>1. SetStack(r, rest) /\ rest \in Seq(FrameTypes)
      BY <1>6, <1>7, <1>11 DEF SweepStack
    <3>2. QED
      BY <1>1, <3>1, StackSet
  <2>3. Sweeps(r, c)' /\ Top(r)'.op # "flush"
    <3> HIDE DEF rest
    <3>1. Top(r)'.op # "flush"
      BY <1>6, <2>2 DEF SweepStack, Top
    <3>2. rest[1].op = "flushall" /\ rest[1].set = c /\ 1 \in DOMAIN rest
      BY <1>6 DEF SweepStack
    <3>3. QED
      BY <2>2, <3>1, <3>2 DEF Sweeps
  <2>4. Shape(r)'
    <3>1. Swept(r, c, s + 1)'
      <4>1. ASSUME NEW i \in Slots, i < s + 1 PROVE cache[c][r][i] = Free
        <5>1. i < s \/ i = s
          BY <1>5, <4>1 DEF Slots
        <5>2. QED
          BY <1>3, <1>4, <2>1, <5>1 DEF Swept
      <4>2. QED
        BY <1>2, <4>1 DEF Swept
    <3>2. Sweeping(r)'
      BY <1>5, <2>2, <3>1 DEF Sweeping
    <3>3. QED
      BY <3>2 DEF Shape
  <2>5. HooksSound(r)'
    BY <1>1, <1>2, <1>3, <2>3 DEF HooksSound, Hooked
  <2>6. /\ empty' \in [Sets -> [Ranks -> BOOLEAN]] /\ hooks' \in [Ranks -> Seq(Sets)]
    BY <1>1, <1>2 DEF Types
  <2>7. QED
    BY <1>2, <1>3, <1>9, <2>2, <2>3, <2>4, <2>5, <2>6, ControlKeeps
<1>12. QED
  BY <1>10, <1>11

\* After the last slot the cache is marked empty, which it is.
LEMMA FlushAllEndKeeps ==
  ASSUME CountingAssumption, IInv, NEW r \in Ranks, FlushAllEnd(r)
  PROVE  IInv'
<1>1. /\ Types /\ Quiet /\ HooksSound(r) /\ stack \in [Ranks -> Seq(FrameTypes)]
  BY RankFacts
<1>2. Top(r).op = "flushall" /\ Top(r).slot > NumSlots
  BY DEF FlushAllEnd, LastSlot
<1>3. PICK c \in Sets, s \in 1..NumSlots + 1 :
           /\ stack[r] = <<FlushAll(c, s), Barrier(TRUE), App>> /\ Swept(r, c, s)
           /\ Top(r).set = c /\ Top(r).slot = s /\ Below(r) = <<Barrier(TRUE), App>>
           /\ Top(r).op # "flush" /\ Sweeps(r, c) /\ (\A d \in Sets \ {c} : ~Sweeps(r, d))
           /\ stack[r] \notin {<<App>>, <<Barrier(FALSE), App>>}
  BY <1>2, SweepFacts
<1>4. /\ empty' = [empty EXCEPT ![c][r] = TRUE] /\ SetStack(r, <<Barrier(TRUE), App>>)
      /\ UNCHANGED progVars /\ cache' = cache /\ hooks' = hooks
      /\ map' = map /\ net' = net /\ ins' = ins /\ left' = left
  BY <1>3 DEF FlushAllEnd
<1>5. \A i \in Slots : cache[c][r][i] = Free
  <2>1. \A i \in Slots : i < s
    BY <1>2, <1>3 DEF Slots, CountingAssumption
  <2>2. QED
    BY <1>3, <2>1 DEF Swept
<1>6. /\ stack' \in [Ranks -> Seq(FrameTypes)] /\ stack'[r] = <<Barrier(TRUE), App>>
      /\ \A q \in Ranks \ {r} : stack'[q] = stack[q]
  <2>1. <<Barrier(TRUE), App>> \in Seq(FrameTypes)
    BY BarrierStacks
  <2>2. QED
    BY <1>1, <1>4, <2>1, StackSet
<1>7. Top(r)'.op # "flush" /\ Shape(r)'
  BY <1>6, BarrierStacks DEF Top, Shape, Waiting
<1>8. /\ empty' \in [Sets -> [Ranks -> BOOLEAN]] /\ empty'[c][r]
      /\ \A d \in Sets \ {c} : empty'[d][r] = empty[d][r]
      /\ \A q \in Ranks \ {r}, d \in Sets : empty'[d][q] = empty[d][q]
  <2>1. empty \in [Sets -> [Ranks -> BOOLEAN]]
    BY <1>1 DEF Types
  <2>2. QED
    BY <1>4, <2>1
<1>9. HooksSound(r)'
  BY <1>1, <1>3, <1>4, <1>8 DEF HooksSound, Hooked
<1>10. Quiet'
  BY <1>1, <1>3, <1>4, Busy
<1>11. /\ hooks' \in [Ranks -> Seq(Sets)]
       /\ \A d \in Sets : empty'[d][r] => empty[d][r] \/ \A i \in Slots : cache[d][r][i] = Free
       /\ \A q \in Ranks \ {r} : /\ stack'[q] = stack[q] /\ hooks'[q] = hooks[q]
                                  /\ \A d \in Sets : empty'[d][q] = empty[d][q]
  <2>1. hooks' \in [Ranks -> Seq(Sets)]
    BY <1>1, <1>4 DEF Types
  <2>2. QED
    BY <1>4, <1>5, <1>6, <1>8, <2>1
<1>12. QED
  BY <1>3, <1>4, <1>6, <1>7, <1>8, <1>9, <1>10, <1>11, ControlKeeps

-----------------------------------------------------------------------------
(***************************************************************************)
(* Collectives.                                                            *)
(***************************************************************************)
\* A rank whose caches are marked empty holds nothing.
LEMMA EmptyHolds ==
  ASSUME CountingAssumption, NEW r \in Ranks, SlotsSound(r), Top(r).op # "flush", \A c \in Sets : empty[c][r]
  PROVE  /\ \A c \in Sets, s \in Slots : cache[c][r][s] = Free
         /\ \A c \in Sets, k \in Keys : Holds(r, c, k) = 0
<1>1. \A c \in Sets, s \in Slots : cache[c][r][s] = Free
  BY DEF SlotsSound
<1>2. ASSUME NEW c \in Sets, NEW k \in Keys PROVE Holds(r, c, k) = 0
  <2>1. cache[c][r][Slot[k]].key # k
    <3>1. Slot[k] \in Slots /\ None # k
      BY DEF CountingAssumption, Slots
    <3>2. QED
      BY <1>1, <3>1 DEF Free
  <2>2. QED
    BY <2>1, NoFlush
<1>3. QED
  BY <1>1, <1>2

\* Before a copy and a clear.
LEMMA QuietFacts ==
  ASSUME CountingAssumption, IInv, call # "barrier"
  PROVE  /\ net = EmptyBag
         /\ \A q \in Ranks : /\ hooks[q] = <<>> /\ stack[q] \in {<<App>>, <<Barrier(FALSE), App>>}
                             /\ Top(q).op # "flush"
                             /\ \A c \in Sets : empty[c][q]
                             /\ \A c \in Sets, s \in Slots : cache[c][q][s] = Free
                             /\ \A c \in Sets, k \in Keys : Holds(q, c, k) = 0
         /\ \A c \in Sets, k \in Keys : ins[c][k] = map[c][k]
<1>1. /\ net = EmptyBag
      /\ \A q \in Ranks : /\ hooks[q] = <<>> /\ stack[q] \in {<<App>>, <<Barrier(FALSE), App>>}
                          /\ \A c \in Sets : empty[c][q]
  BY DEF IInv, Quiet
<1>2. ASSUME NEW q \in Ranks PROVE Top(q).op # "flush"
  BY <1>1, BarrierStacks DEF Top
<1>3. ASSUME NEW q \in Ranks
      PROVE  /\ \A c \in Sets, s \in Slots : cache[c][q][s] = Free
             /\ \A c \in Sets, k \in Keys : Holds(q, c, k) = 0
  <2>1. SlotsSound(q)
    BY RankFacts
  <2>2. QED
    BY <1>1, <1>2, <2>1, EmptyHolds
<1>4. ASSUME NEW c \in Sets, NEW k \in Keys PROVE ins[c][k] = map[c][k]
  <2>1. Held(c, k) = 0
    BY <1>3, HeldZero
  <2>2. Sent(c, k) = 0
    BY <1>1, SentZero, SentIsIn
  <2>3. ins[c][k] \in Nat /\ map[c][k] \in Nat
    BY DEF IInv, Types
  <2>4. ins[c][k] = map[c][k] + Sent(c, k) + Held(c, k)
    BY DEF IInv, Conserved
  <2>5. QED
    BY <2>1, <2>2, <2>3, <2>4
<1>5. QED
  BY <1>1, <1>2, <1>3, <1>4

\* A rank takes its part in a collective that leaves its caches empty.
LEMMA CollectiveKeeps ==
  ASSUME CountingAssumption, IInv, NEW r \in Ranks, call # "barrier", Top(r) = App,
         UNCHANGED progVars, hooks' = hooks, net' = net, left' = left, EnterBarrier(r),
         cache' \in [Sets -> [Ranks -> [Slots -> Entries]]], empty' \in [Sets -> [Ranks -> BOOLEAN]],
         map' \in [Sets -> [Keys -> Nat]], ins' \in [Sets -> [Keys -> Nat]],
         \A c \in Sets : empty'[c][r] /\ \A s \in Slots : cache'[c][r][s] = Free,
         \A q \in Ranks \ {r}, c \in Sets : cache'[c][q] = cache[c][q] /\ empty'[c][q] = empty[c][q],
         \A c \in Sets, k \in Keys : ins'[c][k] = map'[c][k]
  PROVE  IInv'
<1>1. Types /\ NetSound /\ Quiet /\ Shape(r) /\ stack \in [Ranks -> Seq(FrameTypes)]
  BY RankFacts
<1>2. stack[r] = <<App>>
  BY <1>1, Tops DEF Between
<1>3. SetStack(r, <<Barrier(FALSE), App>>)
  BY <1>2, BarrierStacks DEF EnterBarrier
<1>4. /\ stack' \in [Ranks -> Seq(FrameTypes)] /\ stack'[r] = <<Barrier(FALSE), App>>
      /\ \A q \in Ranks \ {r} : stack'[q] = stack[q]
  <2>1. <<Barrier(FALSE), App>> \in Seq(FrameTypes)
    BY BarrierStacks
  <2>2. QED
    BY <1>1, <1>3, <2>1, StackSet
<1>5. Types' /\ NetSound'
  <2>1. Types'
    BY <1>1, <1>4 DEF Types, progVars
  <2>2. NetSound'
    BY <1>1 DEF NetSound, progVars
  <2>3. QED
    BY <2>1, <2>2
<1>6. Top(r)'.op = "barrier"
  BY <1>4, BarrierStacks DEF Top
<1>7. RankSound(r)'
  <2>1. Shape(r)'
    BY <1>4 DEF Shape, Waiting
  <2>2. FlushSound(r)'
    BY <1>6 DEF FlushSound
  <2>3. SlotsSound(r)'
    BY DEF SlotsSound
  <2>4. HooksSound(r)'
    BY DEF HooksSound
  <2>5. QED
    BY <2>1, <2>2, <2>3, <2>4 DEF RankSound
<1>8. \A q \in Ranks \ {r} : Still(q)
  BY <1>4 DEF Still
<1>9. /\ net = EmptyBag
      /\ \A q \in Ranks : /\ hooks[q] = <<>> /\ stack[q] \in {<<App>>, <<Barrier(FALSE), App>>}
                          /\ \A c \in Sets : empty[c][q]
  BY QuietFacts
<1>10. Quiet'
  <2>1. ASSUME NEW q \in Ranks
        PROVE  /\ hooks'[q] = <<>> /\ stack'[q] \in {<<App>>, <<Barrier(FALSE), App>>}
               /\ \A c \in Sets : empty'[c][q]
    <3>1. CASE q = r
      BY <1>4, <1>9, <3>1
    <3>2. CASE q # r
      BY <1>4, <1>9, <3>2
    <3>3. QED
      BY <3>1, <3>2
  <2>2. QED
    BY <1>9, <2>1 DEF Quiet
<1>13. /\ \A c \in Sets, k \in Keys : Holds(r, c, k) = 0
       /\ \A c \in Sets, k \in Keys : ins[c][k] = map[c][k]
  BY QuietFacts
<1>11. ASSUME NEW c \in Sets, NEW k \in Keys
       PROVE  Balance(r, c, k) /\ SentIn(net, c, k) \in Int /\ SentIn(net', c, k) \in Int
  <2>1. SentIn(net, c, k) \in Nat
    BY RankFacts
  <2>2. Holds(r, c, k) = 0 /\ ins[c][k] = map[c][k]
    BY <1>13
  <2>3. Holds(r, c, k)' = 0
    <3>1. cache'[c][r][Slot[k]].key # k
      <4>1. Slot[k] \in Slots /\ None # k
        BY DEF CountingAssumption, Slots
      <4>2. QED
        BY <4>1 DEF Free
    <3>2. QED
      BY <1>6, <3>1 DEF Holds
  <2>4. /\ ins[c][k] \in Nat /\ map[c][k] \in Nat /\ ins'[c][k] \in Nat /\ map'[c][k] \in Nat
        /\ ins'[c][k] = map'[c][k]
    BY <1>1 DEF Types
  <2>5. QED
    BY <2>1, <2>2, <2>3, <2>4 DEF Balance
<1>12. QED
  BY <1>5, <1>7, <1>8, <1>10, <1>11, Keeps

\* The copy constructor copies caches that are empty.
LEMMA CopyConstructKeeps ==
  ASSUME CountingAssumption, IInv, NEW r \in Ranks, CopyConstruct(r)
  PROVE  IInv'
<1>1. Types /\ Orig \in Sets /\ Copy \in Sets /\ \A c \in Sets : c = Orig \/ c = Copy
  BY RankFacts DEF Sets
<1>2. /\ Top(r) = App /\ call = "copy" /\ EnterBarrier(r)
      /\ cache' = [cache EXCEPT ![Copy][r] = cache[Orig][r]]
      /\ empty' = [empty EXCEPT ![Copy][r] = empty[Orig][r]]
      /\ map' = [map EXCEPT ![Copy] = AtOwner(r, map[Copy], map[Orig])]
      /\ ins' = [ins EXCEPT ![Copy] = AtOwner(r, ins[Copy], ins[Orig])]
      /\ UNCHANGED progVars /\ hooks' = hooks /\ net' = net /\ left' = left
  BY DEF CopyConstruct
<1>3. /\ \A c \in Sets : empty[c][r] /\ \A s \in Slots : cache[c][r][s] = Free
      /\ \A c \in Sets, k \in Keys : ins[c][k] = map[c][k]
  BY <1>2, QuietFacts
<1>4. /\ cache \in [Sets -> [Ranks -> [Slots -> Entries]]] /\ empty \in [Sets -> [Ranks -> BOOLEAN]]
      /\ map \in [Sets -> [Keys -> Nat]] /\ ins \in [Sets -> [Keys -> Nat]]
  BY <1>1 DEF Types
<1>5. /\ cache' \in [Sets -> [Ranks -> [Slots -> Entries]]] /\ empty' \in [Sets -> [Ranks -> BOOLEAN]]
      /\ \A c \in Sets : empty'[c][r] /\ \A s \in Slots : cache'[c][r][s] = Free
      /\ \A q \in Ranks \ {r}, c \in Sets : cache'[c][q] = cache[c][q] /\ empty'[c][q] = empty[c][q]
  <2>1. /\ cache' \in [Sets -> [Ranks -> [Slots -> Entries]]]
        /\ \A c \in Sets : cache'[c][r] = IF c = Copy THEN cache[Orig][r] ELSE cache[c][r]
        /\ \A q \in Ranks \ {r}, c \in Sets : cache'[c][q] = cache[c][q]
    BY <1>1, <1>2, <1>4
  <2>2. /\ empty' \in [Sets -> [Ranks -> BOOLEAN]]
        /\ \A c \in Sets : empty'[c][r] = IF c = Copy THEN empty[Orig][r] ELSE empty[c][r]
        /\ \A q \in Ranks \ {r}, c \in Sets : empty'[c][q] = empty[c][q]
    BY <1>1, <1>2, <1>4
  <2>3. \A c \in Sets : empty'[c][r]
    BY <1>1, <1>3, <2>2
  <2>4. ASSUME NEW c \in Sets, NEW s \in Slots PROVE cache'[c][r][s] = Free
    <3>1. CASE c = Copy
      <4>1. cache'[c][r] = cache[Orig][r]
        BY <2>1, <3>1
      <4>2. QED
        BY <1>1, <1>3, <4>1
    <3>2. CASE c # Copy
      <4>1. cache'[c][r] = cache[c][r]
        BY <2>1, <3>2
      <4>2. QED
        BY <1>3, <4>1
    <3>3. QED
      BY <3>1, <3>2
  <2>5. QED
    BY <2>1, <2>2, <2>3, <2>4
<1>6. /\ map' \in [Sets -> [Keys -> Nat]] /\ ins' \in [Sets -> [Keys -> Nat]]
      /\ \A c \in Sets, k \in Keys : ins'[c][k] = map'[c][k]
  <2> DEFINE a == AtOwner(r, map[Copy], map[Orig])
             b == AtOwner(r, ins[Copy], ins[Orig])
  <2>1. /\ map[Copy] \in [Keys -> Nat] /\ map[Orig] \in [Keys -> Nat]
        /\ ins[Copy] \in [Keys -> Nat] /\ ins[Orig] \in [Keys -> Nat]
    BY <1>1, <1>4
  <2>2. a \in [Keys -> Nat] /\ \A k \in Keys : a[k] = IF Owner[k] = r THEN map[Orig][k] ELSE map[Copy][k]
    BY <2>1 DEF AtOwner
  <2>3. b \in [Keys -> Nat] /\ \A k \in Keys : b[k] = IF Owner[k] = r THEN ins[Orig][k] ELSE ins[Copy][k]
    BY <2>1 DEF AtOwner
  <2>4. \A k \in Keys : a[k] = b[k]
    BY <1>1, <1>3, <2>2, <2>3
  <2>5. map' = [map EXCEPT ![Copy] = a] /\ ins' = [ins EXCEPT ![Copy] = b]
    BY <1>2
  <2> HIDE DEF a, b
  <2>6. QED
    BY <1>1, <1>3, <1>4, <2>2, <2>3, <2>4, <2>5
<1>7. call # "barrier"
  BY <1>2
<1>8. QED
  BY <1>2, <1>5, <1>6, <1>7, CollectiveKeeps

\* clear() clears caches that are empty, and a rank's part of the map.
LEMMA ClearKeeps ==
  ASSUME CountingAssumption, IInv, NEW r \in Ranks, Clear(r)
  PROVE  IInv'
<1> DEFINE z == [k \in Keys |-> 0]
<1>1. Types /\ Orig \in Sets
  BY RankFacts DEF Sets
<1>2. /\ Top(r) = App /\ call = "clear" /\ EnterBarrier(r)
      /\ cache' = [cache EXCEPT ![Orig][r] = [s \in Slots |-> Free]]
      /\ empty' = [empty EXCEPT ![Orig][r] = TRUE]
      /\ map' = [map EXCEPT ![Orig] = AtOwner(r, map[Orig], z)]
      /\ ins' = [ins EXCEPT ![Orig] = AtOwner(r, ins[Orig], z)]
      /\ UNCHANGED progVars /\ hooks' = hooks /\ net' = net /\ left' = left
  BY DEF Clear
<1>3. /\ \A c \in Sets : empty[c][r] /\ \A s \in Slots : cache[c][r][s] = Free
      /\ \A c \in Sets, k \in Keys : ins[c][k] = map[c][k]
  BY <1>2, QuietFacts
<1>4. /\ cache \in [Sets -> [Ranks -> [Slots -> Entries]]] /\ empty \in [Sets -> [Ranks -> BOOLEAN]]
      /\ map \in [Sets -> [Keys -> Nat]] /\ ins \in [Sets -> [Keys -> Nat]]
  BY <1>1 DEF Types
<1>5. /\ cache' \in [Sets -> [Ranks -> [Slots -> Entries]]] /\ empty' \in [Sets -> [Ranks -> BOOLEAN]]
      /\ \A c \in Sets : empty'[c][r] /\ \A s \in Slots : cache'[c][r][s] = Free
      /\ \A q \in Ranks \ {r}, c \in Sets : cache'[c][q] = cache[c][q] /\ empty'[c][q] = empty[c][q]
  <2>0. [s \in Slots |-> Free] \in [Slots -> Entries]
    BY DEF Entries
  <2>1. /\ cache' \in [Sets -> [Ranks -> [Slots -> Entries]]]
        /\ \A c \in Sets : cache'[c][r] = IF c = Orig THEN [s \in Slots |-> Free] ELSE cache[c][r]
        /\ \A q \in Ranks \ {r}, c \in Sets : cache'[c][q] = cache[c][q]
    BY <1>1, <1>2, <1>4, <2>0
  <2>2. /\ empty' \in [Sets -> [Ranks -> BOOLEAN]]
        /\ \A c \in Sets : empty'[c][r] = IF c = Orig THEN TRUE ELSE empty[c][r]
        /\ \A q \in Ranks \ {r}, c \in Sets : empty'[c][q] = empty[c][q]
    BY <1>1, <1>2, <1>4
  <2>3. \A c \in Sets : empty'[c][r]
    BY <1>1, <1>3, <2>2
  <2>4. ASSUME NEW c \in Sets, NEW s \in Slots PROVE cache'[c][r][s] = Free
    <3>1. CASE c = Orig
      <4>1. cache'[c][r] = [t \in Slots |-> Free]
        BY <2>1, <3>1
      <4>2. QED
        BY <1>1, <1>3, <4>1
    <3>2. CASE c # Orig
      <4>1. cache'[c][r] = cache[c][r]
        BY <2>1, <3>2
      <4>2. QED
        BY <1>3, <4>1
    <3>3. QED
      BY <3>1, <3>2
  <2>5. QED
    BY <2>1, <2>2, <2>3, <2>4
<1>6. /\ map' \in [Sets -> [Keys -> Nat]] /\ ins' \in [Sets -> [Keys -> Nat]]
      /\ \A c \in Sets, k \in Keys : ins'[c][k] = map'[c][k]
  <2> DEFINE a == AtOwner(r, map[Orig], z)
             b == AtOwner(r, ins[Orig], z)
  <2>1. map[Orig] \in [Keys -> Nat] /\ ins[Orig] \in [Keys -> Nat] /\ z \in [Keys -> Nat]
    BY <1>1, <1>4
  <2> HIDE DEF z
  <2>2. a \in [Keys -> Nat] /\ \A k \in Keys : a[k] = IF Owner[k] = r THEN z[k] ELSE map[Orig][k]
    BY <2>1 DEF AtOwner
  <2>3. b \in [Keys -> Nat] /\ \A k \in Keys : b[k] = IF Owner[k] = r THEN z[k] ELSE ins[Orig][k]
    BY <2>1 DEF AtOwner
  <2>4. \A k \in Keys : a[k] = b[k]
    BY <1>1, <1>3, <2>2, <2>3
  <2>5. map' = [map EXCEPT ![Orig] = a] /\ ins' = [ins EXCEPT ![Orig] = b]
    BY <1>2
  <2> HIDE DEF a, b
  <2>6. QED
    BY <1>1, <1>3, <1>4, <2>2, <2>3, <2>4, <2>5
<1>7. call # "barrier"
  BY <1>2
<1>8. QED
  BY <1>2, <1>5, <1>6, <1>7, CollectiveKeeps

-----------------------------------------------------------------------------
(***************************************************************************)
(* The end of a barrier.                                                   *)
(***************************************************************************)
\* When it ends, no rank holds a count.
LEMMA OverFacts ==
  ASSUME CountingAssumption, IInv, BarrierOver
  PROVE  /\ net = EmptyBag
         /\ \A q \in Ranks : stack[q] = <<Barrier(FALSE), App>> /\ hooks[q] = <<>>
         /\ \A q \in Ranks, c \in Sets : empty[c][q]
         /\ \A q \in Ranks, c \in Sets, s \in Slots : cache[c][q][s] = Free
         /\ \A q \in Ranks, c \in Sets, k \in Keys : Holds(q, c, k) = 0
<1>1. net = EmptyBag /\ \A q \in Ranks : Top(q) = Barrier(FALSE) /\ hooks[q] = <<>>
  BY DEF BarrierOver
<1>2. ASSUME NEW q \in Ranks
      PROVE  /\ stack[q] = <<Barrier(FALSE), App>>
             /\ Top(q).op # "flush" /\ \A c \in Sets : ~Sweeps(q, c)
  <2>1. Top(q).op = "barrier"
    BY <1>1, BarrierStacks
  <2>2. Shape(q)
    BY RankFacts
  <2>3. Waiting(q)
    BY <2>1, <2>2, Tops
  <2>4. PICK h \in BOOLEAN : stack[q] = <<Barrier(h), App>>
    BY <2>3 DEF Waiting
  <2>5. Barrier(h) = Barrier(FALSE)
    BY <1>1, <2>4, BarrierStacks DEF Top
  <2>6. Top(q).op # "flush" /\ \A c \in Sets : ~Sweeps(q, c)
    BY <2>1, IdleFacts
  <2>7. QED
    BY <2>4, <2>5, <2>6
<1>3. ASSUME NEW q \in Ranks, NEW c \in Sets PROVE empty[c][q]
  <2>1. HooksSound(q)
    BY RankFacts
  <2>2. ~Hooked(q, c)
    <3>1. hooks[q] = <<>>
      BY <1>1
    <3>2. DOMAIN hooks[q] = {}
      BY <3>1
    <3>3. QED
      BY <3>2 DEF Hooked
  <2>3. QED
    BY <1>2, <2>1, <2>2 DEF HooksSound
<1>4. ASSUME NEW q \in Ranks
      PROVE  /\ \A c \in Sets, s \in Slots : cache[c][q][s] = Free
             /\ \A c \in Sets, k \in Keys : Holds(q, c, k) = 0
  <2>1. SlotsSound(q)
    BY RankFacts
  <2>2. QED
    BY <1>2, <1>3, <2>1, EmptyHolds
<1>5. QED
  BY <1>1, <1>2, <1>3, <1>4

\* All ranks leave the barrier, with nothing in flight or in a cache.
LEMMA ReleaseKeeps ==
  ASSUME CountingAssumption, IInv, Release
  PROVE  IInv'
<1>1. Types /\ NetSound /\ Conserved
  BY DEF IInv
<1>2. /\ BarrierOver /\ stack' = [q \in Ranks |-> Below(q)]
      /\ built' = (IF call = "copy" THEN Sets ELSE built)
      /\ call' \in {"barrier", "clear"} \cup (IF built' = Sets THEN {} ELSE {"copy"})
      /\ use' = use /\ cache' = cache /\ empty' = empty /\ hooks' = hooks
      /\ map' = map /\ net' = net /\ ins' = ins /\ left' = left
  BY DEF Release, cacheVars
<1>3. /\ net = EmptyBag
      /\ \A q \in Ranks : stack[q] = <<Barrier(FALSE), App>> /\ hooks[q] = <<>>
      /\ \A q \in Ranks, c \in Sets : empty[c][q]
      /\ \A q \in Ranks, c \in Sets, s \in Slots : cache[c][q][s] = Free
      /\ \A q \in Ranks, c \in Sets, k \in Keys : Holds(q, c, k) = 0
  BY <1>2, OverFacts
<1>4. \A q \in Ranks : stack'[q] = <<App>>
  BY <1>2, <1>3, BarrierStacks DEF Below
<1>5. Types'
  <2>1. stack' \in [Ranks -> Seq(FrameTypes)]
    BY <1>2, <1>4, BarrierStacks
  <2>2. {Orig} \subseteq built' /\ built' \subseteq Sets
    BY <1>1, <1>2 DEF Types, Sets
  <2>3. call' \in {"barrier", "copy", "clear"}
    BY <1>2
  <2>4. QED
    BY <1>1, <1>2, <2>1, <2>2, <2>3 DEF Types
<1>6. NetSound'
  BY <1>1, <1>2 DEF NetSound
<1>7. ASSUME NEW q \in Ranks PROVE RankSound(q)' /\ \A c \in Sets, k \in Keys : Holds(q, c, k)' = 0
  <2>1. Top(q)' = App /\ Top(q)'.op # "flush"
    BY <1>4, BarrierStacks DEF Top
  <2>2. Shape(q)'
    BY <1>4 DEF Shape, Between
  <2>3. FlushSound(q)'
    BY <2>1 DEF FlushSound
  <2>4. SlotsSound(q)'
    BY <1>2, <1>3 DEF SlotsSound
  <2>5. HooksSound(q)'
    BY <1>2, <1>3 DEF HooksSound
  <2>6. ASSUME NEW c \in Sets, NEW k \in Keys PROVE Holds(q, c, k)' = 0
    <3>1. cache'[c][q][Slot[k]].key # k
      <4>1. Slot[k] \in Slots /\ None # k
        BY DEF CountingAssumption, Slots
      <4>2. QED
        BY <1>2, <1>3, <4>1 DEF Free
    <3>2. QED
      BY <2>1, <3>1 DEF Holds
  <2>7. QED
    BY <2>2, <2>3, <2>4, <2>5, <2>6 DEF RankSound
<1>8. Quiet'
  BY <1>2, <1>3, <1>4 DEF Quiet
<1>9. Conserved'
  <2>1. ASSUME NEW c \in Sets, NEW k \in Keys
        PROVE  ins'[c][k] = map'[c][k] + Sent(c, k)' + Held(c, k)'
    <3>1. Sent(c, k)' = Sent(c, k)
      BY <1>2 DEF Sent
    <3>2. Held(c, k)' = Held(c, k)
      <4>1. \A q \in Ranks : Holds(q, c, k)' = Holds(q, c, k)
        BY <1>3, <1>7
      <4>2. [q \in Ranks |-> Holds(q, c, k)'] = [q \in Ranks |-> Holds(q, c, k)]
        BY <4>1
      <4>3. QED
        BY <4>2 DEF Held
    <3>3. ins[c][k] = map[c][k] + Sent(c, k) + Held(c, k)
      BY <1>1 DEF Conserved
    <3>4. QED
      BY <1>2, <3>1, <3>2, <3>3
  <2>2. QED
    BY <2>1 DEF Conserved
<1>10. QED
  BY <1>5, <1>6, <1>7, <1>8, <1>9 DEF IInv

\* The invariant holds of a counting_set just constructed.
LEMMA InitIInv ==
  ASSUME CountingAssumption, Init
  PROVE  IInv
<1>1. /\ use \in Uses /\ built = {Orig} /\ call \in {"barrier", "copy", "clear"}
      /\ cache = [c \in Sets |-> [r \in Ranks |-> [s \in Slots |-> Free]]]
      /\ empty = [c \in Sets |-> [r \in Ranks |-> TRUE]]
      /\ hooks = [r \in Ranks |-> <<>>]
      /\ map = [c \in Sets |-> [k \in Keys |-> 0]]
      /\ net = EmptyBag
      /\ stack = [r \in Ranks |-> <<App>>]
      /\ ins = [c \in Sets |-> [k \in Keys |-> 0]] /\ left = MaxInserts
  BY DEF Init
<1>2. Types
  <2>1. cache \in [Sets -> [Ranks -> [Slots -> Entries]]]
    BY <1>1 DEF Entries
  <2>2. stack \in [Ranks -> Seq(FrameTypes)]
    BY <1>1, BarrierStacks
  <2>3. left \in 0..MaxInserts
    BY <1>1 DEF CountingAssumption
  <2>4. hooks \in [Ranks -> Seq(Sets)]
    BY <1>1
  <2>5. QED
    BY <1>1, <2>1, <2>2, <2>3, <2>4 DEF Types, Sets
<1>3. NetSound
  BY <1>1, SentZero, FS_EmptySet DEF NetSound
<1>4. ASSUME NEW r \in Ranks PROVE RankSound(r) /\ \A c \in Sets, k \in Keys : Holds(r, c, k) = 0
  <2>1. Top(r).op # "flush"
    BY <1>1, BarrierStacks DEF Top
  <2>2. Shape(r)
    BY <1>1 DEF Shape, Between
  <2>3. FlushSound(r)
    BY <2>1 DEF FlushSound
  <2>4. SlotsSound(r)
    BY <1>1 DEF SlotsSound
  <2>5. HooksSound(r)
    BY <1>1 DEF HooksSound
  <2>6. \A c \in Sets, k \in Keys : Holds(r, c, k) = 0
    <3>1. \A c \in Sets : empty[c][r]
      BY <1>1
    <3>2. QED
      BY <2>1, <2>4, <3>1, EmptyHolds
  <2>7. QED
    BY <2>2, <2>3, <2>4, <2>5, <2>6 DEF RankSound
<1>5. Quiet
  BY <1>1 DEF Quiet
<1>6. Conserved
  <2>1. ASSUME NEW c \in Sets, NEW k \in Keys
        PROVE  ins[c][k] = map[c][k] + Sent(c, k) + Held(c, k)
    <3>1. Held(c, k) = 0
      BY <1>4, HeldZero
    <3>2. Sent(c, k) = 0
      BY <1>1, SentZero, SentIsIn
    <3>3. ins[c][k] = 0 /\ map[c][k] = 0
      BY <1>1
    <3>4. QED
      BY <3>1, <3>2, <3>3
  <2>2. QED
    BY <2>1 DEF Conserved
<1>7. QED
  BY <1>2, <1>3, <1>4, <1>5, <1>6 DEF IInv

\* A stuttering step.
LEMMA StutterKeeps ==
  ASSUME IInv, UNCHANGED vars
  PROVE  IInv'
<1>1. /\ use' = use /\ call' = call /\ built' = built /\ cache' = cache /\ empty' = empty
      /\ hooks' = hooks /\ map' = map /\ net' = net /\ stack' = stack /\ ins' = ins /\ left' = left
  BY DEF vars, progVars, cacheVars
<1>2. Types' /\ NetSound' /\ Quiet'
  BY <1>1 DEF IInv, Types, NetSound, Quiet
<1>3. \A q \in Ranks : RankSound(q)'
  <2>1. ASSUME NEW q \in Ranks PROVE RankSound(q)'
    <3>1. Still(q) /\ RankSound(q)
      BY <1>1 DEF Still, IInv
    <3>2. QED
      BY <3>1, StillSound
  <2>2. QED
    BY <2>1
<1>4. Conserved'
  BY <1>1 DEF IInv, Conserved, Sent, Held, Holds, Top
<1>5. QED
  BY <1>2, <1>3, <1>4 DEF IInv

\* Every step keeps the invariant, of a program as NeverBoth says.
LEMMA NextKeeps ==
  ASSUME CountingAssumption, NeverBoth, IInv, [Next]_vars
  PROVE  IInv'
<1>1. CASE Release
  BY <1>1, ReleaseKeeps
<1>2. ASSUME NEW r \in Ranks, Application(r) PROVE IInv'
  <2>1. ASSUME NEW c \in Sets, NEW k \in Keys, Insert(r, c, k) PROVE IInv'
    BY <2>1, InsertKeeps
  <2>2. ASSUME NEW q \in Ranks, NEW c \in Sets, NEW k \in Keys, SendInsert(r, q, c, k) PROVE IInv'
    BY <2>2, SendInsertKeeps
  <2>3. CASE CallBarrier(r)
    BY <2>3, CallBarrierKeeps
  <2>4. CASE CopyConstruct(r)
    BY <2>4, CopyConstructKeeps
  <2>5. CASE Clear(r)
    BY <2>5, ClearKeeps
  <2>6. QED
    BY <1>2, <2>1, <2>2, <2>3, <2>4, <2>5 DEF Application
<1>3. ASSUME NEW r \in Ranks, Library(r) PROVE IInv'
  <2>1. CASE FlushPack(r)
    BY <2>1, FlushPackKeeps
  <2>2. CASE FlushEnd(r)
    BY <2>2, FlushEndKeeps
  <2>3. CASE RunHook(r)
    BY <2>3, RunHookKeeps
  <2>4. CASE HooksDone(r)
    BY <2>4, HooksDoneKeeps
  <2>5. CASE FlushAllSlot(r)
    BY <2>5, FlushAllSlotKeeps
  <2>6. CASE FlushAllEnd(r)
    BY <2>6, FlushAllEndKeeps
  <2>7. QED
    BY <1>3, <2>1, <2>2, <2>3, <2>4, <2>5, <2>6 DEF Library
<1>4. ASSUME NEW r \in Ranks, Handler(r) PROVE IInv'
  <2>1. PICK m \in BagToSet(net) : HandleVisit(r, m) \/ HandleInsert(r, m)
    BY <1>4 DEF Handler
  <2>2. CASE HandleVisit(r, m)
    BY <2>2, HandleVisitKeeps
  <2>3. CASE HandleInsert(r, m)
    BY <2>3, HandleInsertKeeps
  <2>4. QED
    BY <2>1, <2>2, <2>3
<1>5. CASE UNCHANGED vars
  BY <1>5, StutterKeeps
<1>6. QED
  BY <1>1, <1>2, <1>3, <1>4, <1>5 DEF Next

-----------------------------------------------------------------------------
(***************************************************************************)
(* The theorems, of every program whose handlers do not insert while       *)
(* async() runs handlers, for any number of ranks, keys, slots and         *)
(* insertions.                                                             *)
(***************************************************************************)
\* The invariant holds in every state.
THEOREM Inductive == ASSUME NeverBoth PROVE Spec => []IInv
<1>1. Init => IInv
  BY CountingAssumption, InitIInv
<1>2. IInv /\ [Next]_vars => IInv'
  BY CountingAssumption, NextKeeps
<1>3. QED
  BY <1>1, <1>2, PTL DEF Spec

\* Every variable keeps its type: counts in caches, in flushes and in messages
\* stay within an int32_t, and stacks hold no other calls than those modelled.
THEOREM TypeCorrect == ASSUME NeverBoth PROVE Spec => []TypeOK
<1>1. IInv => TypeOK
  BY DEF IInv, Types, NetSound, Messages, Visits, UserMsgs, TypeOK
<1>2. Spec => []IInv
  BY Inductive
<1>3. QED
  BY <1>1, <1>2, PTL

\* A count in a slot is going to be sent in the next barrier.
LEMMA Reached ==
  ASSUME CountingAssumption, IInv
  PROVE  NothingStranded
<1> SUFFICES ASSUME NEW c \in built, NEW r \in Ranks, NEW s \in Slots, cache[c][r][s].count > 0
             PROVE  \/ c \in {hooks[r][i] : i \in DOMAIN hooks[r]}
                    \/ \E i \in DOMAIN stack[r] :
                         \/ stack[r][i].op = "flushall" /\ stack[r][i].set = c /\ stack[r][i].slot <= s
                         \/ stack[r][i].op = "flush" /\ stack[r][i].set = c /\ stack[r][i].slot = s
  BY DEF NothingStranded
<1>1. /\ Types /\ Shape(r) /\ SlotsSound(r) /\ HooksSound(r)
      /\ \A d \in Sets, t \in Slots : cache[d][r][t] \in Entries
  BY RankFacts
<1>2. c \in Sets
  BY <1>1 DEF Types
<1>3. cache[c][r][s] # Free
  <2>1. cache[c][r][s] \in Entries
    BY <1>1, <1>2
  <2>2. QED
    BY <2>1, EntryFacts
<1>4. Hooked(r, c) \/ Sweeps(r, c)
  BY <1>1, <1>2, <1>3 DEF SlotsSound, HooksSound
<1>5. CASE Hooked(r, c)
  BY <1>5 DEF Hooked
<1>6. CASE Sweeps(r, c)
  <2>1. PICK i \in DOMAIN stack[r] : stack[r][i].op = "flushall" /\ stack[r][i].set = c
    BY <1>6 DEF Sweeps
  <2>2. Top(r).op # "app" /\ Top(r).op # "barrier"
    <3>1. Top(r).op # "barrier" /\ Top(r) # App
      BY <1>2, <1>6, IdleFacts
    <3>2. Between(r) \/ Inserting(r) \/ Waiting(r) \/ Sweeping(r) \/ SweepFlushing(r)
      BY <1>1 DEF Shape
    <3>3. Top(r).op = "flush" \/ Top(r).op = "flushall"
      <4>1. ~Between(r) /\ ~Waiting(r)
        BY <1>1, <3>1, Tops
      <4>2. Inserting(r) => Top(r).op = "flush"
        BY Stacks DEF Inserting, Top, Flushes
      <4>3. Sweeping(r) => Top(r).op = "flushall"
        BY Stacks DEF Sweeping, Top, FlushAll
      <4>4. SweepFlushing(r) => Top(r).op = "flush"
        BY Head4 DEF SweepFlushing, Top, Flushes
      <4>5. QED
        BY <3>2, <4>1, <4>2, <4>3, <4>4
    <3>4. QED
      BY <3>3
  <2>3. ~Inserting(r)
    <3>1. ASSUME NEW f \in Flushes, stack[r] = <<f, App>> PROVE FALSE
      <4>1. DOMAIN stack[r] = 1..2 /\ stack[r][1].op = "flush" /\ stack[r][2].op = "app"
        BY <3>1 DEF Flushes, App
      <4>2. QED
        BY <2>1, <4>1
    <3>2. QED
      BY <3>1 DEF Inserting
  <2>4. Sweeping(r) \/ SweepFlushing(r)
    <3>1. ~Between(r) /\ ~Waiting(r)
      BY <1>1, <2>2, Tops DEF App
    <3>2. QED
      BY <1>1, <2>3, <3>1 DEF Shape
  <2>5. CASE Sweeping(r)
    <3>1. PICK d \in Sets, t \in 1..NumSlots + 1 :
            stack[r] = <<FlushAll(d, t), Barrier(TRUE), App>> /\ Swept(r, d, t)
      BY <2>5 DEF Sweeping
    <3>2. DOMAIN stack[r] = 1..3 /\ stack[r][1] = FlushAll(d, t) /\ stack[r][2].op = "barrier" /\ stack[r][3].op = "app"
      BY <3>1 DEF Barrier, App
    <3>3. stack[r][1].op = "flushall" /\ stack[r][1].set = d /\ stack[r][1].slot = t
      BY <3>2 DEF FlushAll
    <3>4. d = c
      BY <2>1, <3>2, <3>3
    <3>5. ~(s < t)
      BY <1>3, <3>1, <3>4 DEF Swept
    <3>6. t <= s
      BY <3>5 DEF Slots, CountingAssumption
    <3>7. QED
      BY <3>2, <3>3, <3>4, <3>6
  <2>6. CASE SweepFlushing(r)
    <3>1. PICK f \in Flushes, d \in Sets, t \in 1..NumSlots + 1 :
            /\ stack[r] = <<f, FlushAll(d, t), Barrier(TRUE), App>>
            /\ f.set = d /\ f.slot = t - 1
            /\ Swept(r, d, t - 1)
      BY <2>6 DEF SweepFlushing
    <3>2. /\ DOMAIN stack[r] = 1..4 /\ stack[r][1] = f /\ stack[r][2] = FlushAll(d, t)
          /\ stack[r][3].op = "barrier" /\ stack[r][4].op = "app"
      BY <3>1 DEF Barrier, App
    <3>3. stack[r][2].op = "flushall" /\ stack[r][2].set = d /\ stack[r][2].slot = t /\ f.op = "flush"
      BY <3>2 DEF FlushAll, Flushes
    <3>4. d = c
      BY <2>1, <3>2, <3>3
    <3>5. ~(s < t - 1)
      BY <1>3, <3>1, <3>4 DEF Swept
    <3>6. t <= s \/ t - 1 = s
      BY <3>5 DEF Slots, CountingAssumption
    <3>7. QED
      BY <3>1, <3>2, <3>3, <3>4, <3>6
  <2>7. QED
    BY <2>4, <2>5, <2>6
<1>7. QED
  BY <1>4, <1>5, <1>6

\* No count is lost or sent twice, and none stays behind in a cache.
THEOREM CachesSound == ASSUME NeverBoth PROVE Spec => []CacheSound
<1>1. IInv => CacheSound
  <2> SUFFICES ASSUME IInv PROVE CountsConserved /\ NothingStranded
    BY DEF CacheSound
  <2>2. CountsConserved
    BY DEF IInv, Conserved, Types, CountsConserved
  <2>3. NothingStranded
    BY CountingAssumption, Reached
  <2>4. QED
    BY <2>2, <2>3
<1>2. Spec => []IInv
  BY Inductive
<1>3. QED
  BY <1>1, <1>2, PTL

\* When a barrier ends, each count is the number of insertions.
THEOREM ExactBarriers == ASSUME NeverBoth PROVE Spec => []ExactAfterBarrier
<1>1. IInv => ExactAfterBarrier
  <2> SUFFICES ASSUME IInv, BarrierOver, NEW c \in built, NEW k \in Keys
                PROVE  map[c][k] = ins[c][k]
    BY DEF ExactAfterBarrier
  <2>2. c \in Sets
    BY DEF IInv, Types
  <2>3. net = EmptyBag /\ \A q \in Ranks : Holds(q, c, k) = 0
    BY <2>2, CountingAssumption, OverFacts
  <2>4. Held(c, k) = 0 /\ Sent(c, k) = 0
    <3>1. Held(c, k) = 0
      BY <2>3, CountingAssumption, HeldZero
    <3>2. Sent(c, k) = 0
      BY <2>3, SentZero, SentIsIn
    <3>3. QED
      BY <3>1, <3>2
  <2>5. ins[c][k] \in Nat /\ map[c][k] \in Nat
    BY <2>2 DEF IInv, Types
  <2>6. ins[c][k] = map[c][k] + Sent(c, k) + Held(c, k)
    BY <2>2 DEF IInv, Conserved
  <2>7. QED
    BY <2>4, <2>5, <2>6
<1>2. Spec => []IInv
  BY Inductive
<1>3. QED
  BY <1>1, <1>2, PTL
=============================================================================
