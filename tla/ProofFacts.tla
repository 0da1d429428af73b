--------------------------- MODULE ProofFacts ---------------------------
(***************************************************************************)
(* Facts about sequences, finite sets, numbers and sums that the proofs    *)
(* about several components need and that the prover's library does not    *)
(* state in the form those proofs use.  Nothing here mentions ygm.         *)
(***************************************************************************)
EXTENDS Integers, Sequences, FiniteSets, Functions, FiniteSetTheorems, SequenceTheorems, FunctionTheorems, TLAPS

\* Putting an element in front of a sequence: a call pushed on a stack of
\* frames (1 is the top) moves every other frame one place down.
LEMMA Cons ==
  ASSUME NEW S, NEW s \in Seq(S), NEW f \in S
  PROVE  /\ <<f>> \o s \in Seq(S)
         /\ Len(<<f>> \o s) = Len(s) + 1
         /\ (<<f>> \o s)[1] = f
         /\ \A i \in 1..Len(s) : (<<f>> \o s)[i + 1] = s[i]
         /\ \A i \in 2..Len(s) + 1 : (<<f>> \o s)[i] = s[i - 1]
         /\ <<f>> \o s # <<>>
<1>1. <<f>> \in Seq(S) /\ Len(<<f>>) = 1 /\ <<f>>[1] = f
  OBVIOUS
<1>2. Len(s) \in Nat
  OBVIOUS
<1>3. /\ <<f>> \o s \in Seq(S)
      /\ Len(<<f>> \o s) = Len(<<f>>) + Len(s)
      /\ \A i \in 1 .. Len(<<f>>) + Len(s) : (<<f>> \o s)[i] =
                     IF i <= Len(<<f>>) THEN <<f>>[i] ELSE s[i - Len(<<f>>)]
  BY <1>1, ConcatProperties
<1>4. /\ <<f>> \o s \in Seq(S)
      /\ Len(<<f>> \o s) = 1 + Len(s)
      /\ \A i \in 1 .. 1 + Len(s) : (<<f>> \o s)[i] =
                     IF i <= 1 THEN f ELSE s[i - 1]
  BY <1>1, <1>3
<1> HIDE <1>3
<1>5. <<f>> \o s # <<>>
  BY <1>4, <1>2, EmptySeq, SMT
<1>6. QED
  BY <1>2, <1>4, <1>5

\* The head and the tail of a sequence that is not empty, by index.
LEMMA HeadTail ==
  ASSUME NEW S, NEW s \in Seq(S), s # <<>>
  PROVE  /\ Len(s) \in Nat \ {0}
         /\ Head(s) = s[1] /\ s[1] \in S
         /\ Tail(s) \in Seq(S)
         /\ Len(Tail(s)) = Len(s) - 1
         /\ \A i \in 1..Len(s) - 1 : Tail(s)[i] = s[i + 1]
BY HeadTailProperties, SMT

\* The head and the tail of a sequence just extended at the front: a frame
\* pushed on a stack is the one that is popped next.
LEMMA ConsTail ==
  ASSUME NEW S, NEW s \in Seq(S), NEW f \in S
  PROVE  Head(<<f>> \o s) = f /\ Tail(<<f>> \o s) = s
<1>1. /\ <<f>> \o s \in Seq(S) /\ <<f>> \o s # <<>> /\ Len(<<f>> \o s) = Len(s) + 1
      /\ (<<f>> \o s)[1] = f /\ \A i \in 1..Len(s) : (<<f>> \o s)[i + 1] = s[i]
  BY Cons
<1> DEFINE t == <<f>> \o s
<1> HIDE DEF t
<1>2. /\ Head(t) = t[1] /\ Tail(t) \in Seq(S) /\ Len(Tail(t)) = Len(t) - 1
      /\ \A i \in 1..Len(t) - 1 : Tail(t)[i] = t[i + 1]
  BY <1>1, HeadTail, Zenon DEF t
<1>3. Len(Tail(t)) = Len(s) /\ \A i \in 1..Len(s) : Tail(t)[i] = s[i]
  BY <1>1, <1>2, SMT DEF t
<1>4. Tail(t) = s
  BY <1>2, <1>3, SeqEqual
<1>5. QED
  BY <1>1, <1>2, <1>4 DEF t

\* Pushing two frames is pushing the second, then the first.
LEMMA TwoCons ==
  ASSUME NEW S, NEW s \in Seq(S), NEW f \in S, NEW g \in S
  PROVE  <<f, g>> \o s = <<f>> \o (<<g>> \o s)
<1>1. <<f>> \in Seq(S) /\ <<g>> \in Seq(S) /\ <<f, g>> \in Seq(S)
  OBVIOUS
<1>2. Len(<<f, g>>) = 2 /\ <<f, g>>[1] = f /\ <<f, g>>[2] = g /\ Len(<<g>>) = 1 /\ <<g>>[1] = g
  OBVIOUS
<1>3. /\ <<f>> \o <<g>> \in Seq(S) /\ Len(<<f>> \o <<g>>) = 2
      /\ (<<f>> \o <<g>>)[1] = f /\ (<<f>> \o <<g>>)[2] = g
  BY <1>1, <1>2, Cons
<1>4. <<f, g>> = <<f>> \o <<g>>
  <2> DEFINE t == <<f, g>>
             u == <<f>> \o <<g>>
  <2>1. t \in Seq(S) /\ u \in Seq(S) /\ Len(t) = 2 /\ Len(u) = 2 /\ t[1] = u[1] /\ t[2] = u[2]
    BY <1>1, <1>2, <1>3
  <2> HIDE DEF t, u
  <2>2. \A i \in 1..Len(t) : t[i] = u[i]
    BY <2>1
  <2>3. t = u
    BY <2>1, <2>2, SeqEqual
  <2>4. QED
    BY <2>3 DEF t, u
<1>5. QED
  BY <1>1, <1>4, ConcatAssociative

\* Every non-empty set of natural numbers has a least element: induction on
\* a number, without a predicate as a parameter.
LEMMA NatMin ==
  ASSUME NEW T \in SUBSET Nat, T # {}
  PROVE  \E m \in T : \A k \in T : m <= k
<1> DEFINE R == {ss \in Nat \X Nat : ss[1] < ss[2]}
<1>0. OpToRel(<, Nat) = R
  BY Zenon DEF OpToRel
<1>1. IsWellFoundedOn(R, Nat)
  BY NatLessThanWellFounded, <1>0, Zenon
<1>3. \A x, y \in Nat : y < x => <<y, x>> \in R
  BY SMT
<1> HIDE DEF R
<1>2. PICK x \in T : \A y \in T : ~ (<<y, x>> \in R)
  BY <1>1, WFMin, Zenon
<1>4. \A y \in T : ~ (y < x)
  BY <1>2, <1>3, Zenon
<1>5. QED
  BY <1>4, SMT

\* The image of a finite set under a function is finite.
LEMMA FiniteImage ==
  ASSUME NEW S, IsFiniteSet(S), NEW f
  PROVE  IsFiniteSet({f[x] : x \in S})
<1> DEFINE T == {f[x] : x \in S}
           g == [x \in S |-> f[x]]
<1>1. g \in Surjection(S, T)
  <2>1. g \in [S -> T] /\ \A t \in T : \E x \in S : g[x] = t
    OBVIOUS
  <2> HIDE DEF g, T
  <2>2. QED
    BY <2>1, Fun_IsSurj
<1>2. QED
  BY <1>1, FS_Surjection

\* Sets in one-to-one correspondence have the same number of elements: how
\* a count of frames or messages is shown not to change in a step.
LEMMA CountBijection ==
  ASSUME NEW S, IsFiniteSet(S), NEW T, NEW f \in [S -> T],
         \A x, y \in S : f[x] = f[y] => x = y,
         \A t \in T : \E x \in S : f[x] = t
  PROVE  IsFiniteSet(T) /\ Cardinality(T) = Cardinality(S)
<1>1. f \in Bijection(S, T)
  BY Fun_IsBij, Fun_IsInj, Fun_IsSurj
<1>2. ExistsBijection(S, T)
  BY <1>1 DEF ExistsBijection
<1>3. QED
  BY <1>2, FS_Bijection

\* Pairing a finite set with one index changes neither its finiteness nor
\* its size: the part of a sum over buffers that belongs to one buffer.
LEMMA Slice ==
  ASSUME NEW i, NEW S, IsFiniteSet(S)
  PROVE  IsFiniteSet({i} \X S) /\ Cardinality({i} \X S) = Cardinality(S)
<1>1. IsFiniteSet({i}) /\ Cardinality({i}) = 1
  BY FS_Singleton
<1>2. IsFiniteSet({i} \X S) /\ Cardinality({i} \X S) = 1 * Cardinality(S)
  BY <1>1, FS_Product
<1>3. Cardinality(S) \in Nat
  BY FS_CardinalityType
<1>4. QED
  BY <1>2, <1>3

\* The size of a disjoint union is the sum of the sizes.
LEMMA DisjointUnion ==
  ASSUME NEW S, IsFiniteSet(S), NEW T, IsFiniteSet(T), S \cap T = {}
  PROVE  /\ IsFiniteSet(S \cup T) /\ Cardinality(S \cup T) = Cardinality(S) + Cardinality(T)
         /\ Cardinality(S) \in Nat /\ Cardinality(T) \in Nat
<1>1. Cardinality(S \cap T) = 0
  BY FS_EmptySet
<1>2. Cardinality(S) \in Nat /\ Cardinality(T) \in Nat
  BY FS_CardinalityType
<1>3. IsFiniteSet(S \cup T) /\ Cardinality(S \cup T) = Cardinality(S) + Cardinality(T) - Cardinality(S \cap T)
  BY FS_Union
<1>4. QED
  BY <1>1, <1>2, <1>3

-----------------------------------------------------------------------------
(***************************************************************************)
(* Sums of a function over a finite set: SumFunctionOnSet, which adds the  *)
(* values in the order in which CHOOSE takes the elements.                 *)
(***************************************************************************)
Pick(s) == CHOOSE x \in s : TRUE

\* g adds f up over each of the sets D.
Adds(g, f, D) == \A s \in D : g[s] = IF s = {} THEN 0 ELSE f[Pick(s)] + g[s \ {Pick(s)}]

\* The element that is taken next, and what is left without it.
LEMMA Picked ==
  ASSUME NEW s, IsFiniteSet(s), s # {}
  PROVE  /\ Pick(s) \in s /\ IsFiniteSet(s \ {Pick(s)})
         /\ Cardinality(s) \in Nat /\ Cardinality(s \ {Pick(s)}) = Cardinality(s) - 1
<1>1. Pick(s) \in s
  BY DEF Pick
<1> HIDE DEF Pick
<1>2. QED
  BY <1>1, FS_RemoveElement, FS_CardinalityType

\* Such a g exists ...
LEMMA AddsExist ==
  ASSUME NEW f, NEW S, IsFiniteSet(S)
  PROVE  \E g : Adds(g, f, SUBSET S)
<1> DEFINE D(k) == {s \in SUBSET S : Cardinality(s) <= k}
           E(k) == \E g : Adds(g, f, D(k))
           T == {k \in Nat : ~E(k)}
<1>1. \A s \in SUBSET S : IsFiniteSet(s) /\ Cardinality(s) \in Nat
  BY FS_Subset, FS_CardinalityType
<1>2. E(0)
  <2> DEFINE h == [s \in D(0) |-> 0]
  <2>1. \A s \in D(0) : s = {}
    BY <1>1, FS_EmptySet
  <2>2. Adds(h, f, D(0))
    BY <2>1 DEF Adds
  <2>3. QED
    BY <2>2
<1>3. ASSUME NEW k \in Nat, E(k) PROVE E(k + 1)
  <2>1. PICK g : Adds(g, f, D(k))
    BY <1>3
  <2> DEFINE h == [s \in D(k + 1) |-> IF s = {} THEN 0
                                      ELSE f[Pick(s)] + IF s \ {Pick(s)} \in D(k) THEN g[s \ {Pick(s)}] ELSE 0]
  <2>2. ASSUME NEW s \in D(k + 1), s # {}
        PROVE  s \ {Pick(s)} \in D(k) /\ s \ {Pick(s)} \in D(k + 1)
    BY <1>1, <2>2, Picked
  <2>3. ASSUME NEW s \in D(k) PROVE h[s] = g[s]
    <3>1. s \in D(k + 1) /\ g[s] = IF s = {} THEN 0 ELSE f[Pick(s)] + g[s \ {Pick(s)}]
      BY <1>1, <2>1 DEF Adds
    <3>2. QED
      BY <2>2, <3>1
  <2>4. ASSUME NEW s \in D(k + 1) PROVE h[s] = IF s = {} THEN 0 ELSE f[Pick(s)] + h[s \ {Pick(s)}]
    <3>1. CASE s = {}
      BY <3>1
    <3>2. CASE s # {}
      <4>1. s \ {Pick(s)} \in D(k)
        BY <2>2, <3>2
      <4>2. h[s] = f[Pick(s)] + g[s \ {Pick(s)}]
        BY <3>2, <4>1
      <4>3. QED
        BY <2>3, <3>2, <4>1, <4>2
    <3>3. QED
      BY <3>1, <3>2
  <2> HIDE DEF h
  <2>5. Adds(h, f, D(k + 1))
    BY <2>4 DEF Adds
  <2>6. QED
    BY <2>5
<1>4. PICK n \in Nat : n = Cardinality(S)
  BY FS_CardinalityType
<1>5. D(n) = SUBSET S
  BY <1>1, <1>4, FS_Subset
<1> HIDE DEF E
<1>6. T = {}
  <2>1. SUFFICES ASSUME T # {} PROVE FALSE
    OBVIOUS
  <2>2. PICK m \in T : \A k \in T : m <= k
    BY <2>1, NatMin
  <2>3. m \in Nat /\ ~E(m) /\ m # 0
    BY <1>2
  <2>4. m - 1 \in Nat /\ E(m - 1) /\ m - 1 + 1 = m
    BY <2>2, <2>3
  <2>5. E(m - 1 + 1)
    BY <1>3, <2>4
  <2>6. QED
    BY <2>3, <2>4, <2>5
<1>7. E(n)
  BY <1>6
<1>8. QED
  BY <1>5, <1>7 DEF E

\* ... and there is only one, on whatever sets.
LEMMA AddsUnique ==
  ASSUME NEW f, NEW S, IsFiniteSet(S), NEW g, NEW h, Adds(g, f, SUBSET S), Adds(h, f, SUBSET S)
  PROVE  g[S] = h[S]
<1> DEFINE B == {s \in SUBSET S : g[s] # h[s]}
           T == {k \in Nat : \E s \in B : Cardinality(s) = k}
<1>1. \A s \in SUBSET S : IsFiniteSet(s) /\ Cardinality(s) \in Nat
  BY FS_Subset, FS_CardinalityType
<1>2. SUFFICES ASSUME B # {} PROVE FALSE
  OBVIOUS
<1>3. T # {}
  BY <1>1, <1>2
<1>4. PICK m \in T : \A k \in T : m <= k
  BY <1>3, NatMin
<1>5. PICK s \in B : Cardinality(s) = m
  OBVIOUS
<1>6. s \in SUBSET S /\ g[s] # h[s] /\ s # {}
  BY <1>5 DEF Adds
<1> DEFINE t == s \ {Pick(s)}
<1>7. t \in SUBSET S /\ Cardinality(t) = m - 1 /\ m - 1 \in Nat
  <2>1. Cardinality(t) \in Nat /\ Cardinality(t) = m - 1 /\ t \in SUBSET S
    BY <1>1, <1>5, <1>6, Picked
  <2>2. QED
    BY <2>1
<1>8. t \notin B
  <2>1. m - 1 \notin T
    BY <1>4, <1>7
  <2>2. QED
    BY <1>7, <2>1
<1>9. g[t] = h[t]
  BY <1>7, <1>8
<1>10. QED
  BY <1>6, <1>9 DEF Adds

\* What SumFunctionOnSet computes.
LEMMA SumIsAdds ==
  ASSUME NEW f, NEW S, IsFiniteSet(S)
  PROVE  \E g : Adds(g, f, SUBSET S) /\ SumFunctionOnSet(f, S) = g[S]
<1> DEFINE G == CHOOSE g : g = [s \in SUBSET S |-> IF s = {} THEN 0 ELSE f[Pick(s)] + g[s \ {Pick(s)}]]
<1>1. SumFunctionOnSet(f, S) = G[S]
  BY DEF SumFunctionOnSet, FoldFunctionOnSet, MapThenFoldSet, Pick
<1>2. PICK g : Adds(g, f, SUBSET S)
  BY AddsExist
<1> DEFINE h == [s \in SUBSET S |-> g[s]]
<1>3. \A s \in SUBSET S : h[s] = IF s = {} THEN 0 ELSE f[Pick(s)] + h[s \ {Pick(s)}]
  BY <1>2 DEF Adds
<1>4. h = [s \in SUBSET S |-> IF s = {} THEN 0 ELSE f[Pick(s)] + h[s \ {Pick(s)}]]
  BY <1>3
<1> HIDE DEF h
<1>5. G = [s \in SUBSET S |-> IF s = {} THEN 0 ELSE f[Pick(s)] + G[s \ {Pick(s)}]]
  BY <1>4
<1> HIDE DEF G
<1>6. Adds(G, f, SUBSET S)
  BY <1>5 DEF Adds
<1>7. QED
  BY <1>1, <1>6

\* A sum is its first term and the sum of the rest.
LEMMA SumStep ==
  ASSUME NEW f, NEW S, IsFiniteSet(S)
  PROVE  SumFunctionOnSet(f, S) = IF S = {} THEN 0 ELSE f[Pick(S)] + SumFunctionOnSet(f, S \ {Pick(S)})
<1>1. PICK g : Adds(g, f, SUBSET S) /\ SumFunctionOnSet(f, S) = g[S]
  BY SumIsAdds
<1>2. CASE S = {}
  BY <1>1, <1>2 DEF Adds
<1>3. CASE S # {}
  <2> DEFINE t == S \ {Pick(S)}
  <2>1. t \in SUBSET S /\ IsFiniteSet(t)
    BY <1>3, Picked
  <2> HIDE DEF t
  <2>2. PICK h : Adds(h, f, SUBSET t) /\ SumFunctionOnSet(f, t) = h[t]
    BY <2>1, SumIsAdds
  <2>3. Adds(g, f, SUBSET t)
    BY <1>1, <2>1 DEF Adds
  <2>4. g[t] = h[t]
    BY <2>1, <2>2, <2>3, AddsUnique
  <2>5. g[S] = f[Pick(S)] + g[t]
    BY <1>1, <1>3 DEF Adds, t
  <2>6. QED
    BY <1>1, <1>3, <2>2, <2>4, <2>5 DEF t
<1>4. QED
  BY <1>2, <1>3

\* A sum does not depend on the order in which the elements are taken.
LEMMA SumTake ==
  ASSUME NEW f, NEW S, IsFiniteSet(S), \A x \in S : f[x] \in Int
  PROVE  /\ SumFunctionOnSet(f, S) \in Int
         /\ \A x \in S : /\ SumFunctionOnSet(f, S \ {x}) \in Int
                         /\ SumFunctionOnSet(f, S) = f[x] + SumFunctionOnSet(f, S \ {x})
<1> DEFINE Sum(s) == SumFunctionOnSet(f, s)
           Good(s) == Sum(s) \in Int /\ \A x \in s : Sum(s \ {x}) \in Int /\ Sum(s) = f[x] + Sum(s \ {x})
           T == {k \in Nat : \E s \in SUBSET S : Cardinality(s) = k /\ ~Good(s)}
<1>1. \A s \in SUBSET S : IsFiniteSet(s) /\ Cardinality(s) \in Nat
  BY FS_Subset, FS_CardinalityType
<1>2. \A s \in SUBSET S : Sum(s) = IF s = {} THEN 0 ELSE f[Pick(s)] + Sum(s \ {Pick(s)})
  BY <1>1, SumStep
<1> HIDE DEF Sum
<1>3. ASSUME NEW s \in SUBSET S, s # {},
             \A t \in SUBSET s : Cardinality(t) < Cardinality(s) => Good(t)
      PROVE  Good(s)
  <2> DEFINE p == Pick(s)
             t == s \ {p}
  <2>1. p \in s /\ t \in SUBSET s /\ Cardinality(t) < Cardinality(s) /\ Cardinality(s) \in Nat
    <3>1. p \in s /\ Cardinality(t) = Cardinality(s) - 1 /\ Cardinality(s) \in Nat
      BY <1>1, <1>3, Picked
    <3>2. QED
      BY <3>1
  <2>2. Good(t)
    BY <1>3, <2>1
  <2>3. Sum(s) = f[p] + Sum(t) /\ f[p] \in Int
    BY <1>2, <1>3, <2>1
  <2> HIDE DEF p
  <2>4. ASSUME NEW x \in s PROVE Sum(s \ {x}) \in Int /\ Sum(s) = f[x] + Sum(s \ {x})
    <3>1. CASE x = p
      BY <2>2, <2>3, <3>1
    <3>2. CASE x # p
      <4> DEFINE u == s \ {x}
                 v == t \ {x}
      <4>1. u \in SUBSET s /\ Cardinality(u) < Cardinality(s) /\ p \in u /\ u \ {p} = v /\ x \in t
        <5>1. Cardinality(u) = Cardinality(s) - 1
          BY <1>1, FS_RemoveElement
        <5>2. QED
          BY <2>1, <3>2, <5>1
      <4>2. Good(u)
        BY <1>3, <4>1
      <4>3. f[x] \in Int /\ Sum(v) \in Int /\ Sum(t) = f[x] + Sum(v)
        BY <2>2, <4>1
      <4>4. Sum(u) \in Int /\ Sum(u) = f[p] + Sum(v)
        BY <4>1, <4>2
      <4> HIDE DEF u, v, t
      <4>5. Sum(s) = f[x] + Sum(u) /\ Sum(u) \in Int
        BY <2>3, <4>3, <4>4
      <4>6. QED
        BY <4>5 DEF u
    <3>3. QED
      BY <3>1, <3>2
  <2>5. Sum(s) \in Int
    BY <2>2, <2>3
  <2>6. QED
    BY <2>4, <2>5
<1>4. Good({})
  BY <1>2
<1> HIDE DEF Good
<1>5. T = {}
  <2>1. SUFFICES ASSUME T # {} PROVE FALSE
    OBVIOUS
  <2>2. PICK m \in T : \A k \in T : m <= k
    BY <2>1, NatMin
  <2>3. PICK s \in SUBSET S : Cardinality(s) = m /\ ~Good(s)
    OBVIOUS
  <2>4. \A t \in SUBSET s : Cardinality(t) < m => Good(t)
    <3>1. ASSUME NEW t \in SUBSET s, Cardinality(t) < m PROVE Good(t)
      <4>1. t \in SUBSET S /\ Cardinality(t) \in Nat /\ ~(m <= Cardinality(t))
        BY <1>1, <3>1
      <4>2. QED
        BY <2>2, <4>1
    <3>2. QED
      BY <3>1
  <2>5. QED
    BY <1>3, <1>4, <2>3, <2>4
<1>6. Good(S)
  <2>1. Cardinality(S) \in Nat
    BY <1>1
  <2>2. QED
    BY <1>5, <2>1
<1>7. QED
  BY <1>6 DEF Good, Sum

\* The sum of no terms.
LEMMA SumEmpty == ASSUME NEW f PROVE SumFunctionOnSet(f, {}) = 0
BY SumStep, FS_EmptySet

\* Equal terms have equal sums.
LEMMA SumSame ==
  ASSUME NEW f, NEW g, NEW S, IsFiniteSet(S), \A x \in S : f[x] = g[x]
  PROVE  SumFunctionOnSet(f, S) = SumFunctionOnSet(g, S)
<1>1. PICK h : Adds(h, f, SUBSET S) /\ SumFunctionOnSet(f, S) = h[S]
  BY SumIsAdds
<1>2. PICK i : Adds(i, g, SUBSET S) /\ SumFunctionOnSet(g, S) = i[S]
  BY SumIsAdds
<1>3. Adds(h, g, SUBSET S)
  <2>1. ASSUME NEW s \in SUBSET S, s # {} PROVE f[Pick(s)] = g[Pick(s)]
    <3>1. Pick(s) \in s
      BY <2>1, FS_Subset, Picked
    <3>2. QED
      BY <3>1
  <2>2. QED
    BY <1>1, <2>1 DEF Adds
<1>4. QED
  BY <1>1, <1>2, <1>3, AddsUnique

\* One term changes.
LEMMA SumChange ==
  ASSUME NEW f, NEW g, NEW S, IsFiniteSet(S), NEW x \in S,
         \A y \in S : f[y] \in Int /\ g[y] \in Int, \A y \in S \ {x} : f[y] = g[y]
  PROVE  /\ SumFunctionOnSet(f, S) \in Int /\ SumFunctionOnSet(g, S) \in Int
         /\ SumFunctionOnSet(g, S) - g[x] = SumFunctionOnSet(f, S) - f[x]
<1> DEFINE t == S \ {x}
<1>1. IsFiniteSet(t)
  BY FS_Subset
<1>2. SumFunctionOnSet(f, t) = SumFunctionOnSet(g, t)
  BY <1>1, SumSame
<1>3. /\ SumFunctionOnSet(f, S) \in Int /\ SumFunctionOnSet(f, t) \in Int
      /\ SumFunctionOnSet(f, S) = f[x] + SumFunctionOnSet(f, t)
  BY SumTake
<1>4. /\ SumFunctionOnSet(g, S) \in Int
      /\ SumFunctionOnSet(g, S) = g[x] + SumFunctionOnSet(g, t)
  BY SumTake
<1> HIDE DEF t
<1>5. f[x] \in Int /\ g[x] \in Int
  OBVIOUS
<1>6. QED
  BY <1>2, <1>3, <1>4, <1>5

\* Natural terms: the sum is natural, no less than each, and 0 for 0 only.
LEMMA SumNat ==
  ASSUME NEW f, NEW S, IsFiniteSet(S), \A x \in S : f[x] \in Nat
  PROVE  /\ SumFunctionOnSet(f, S) \in Nat
         /\ \A x \in S : f[x] <= SumFunctionOnSet(f, S)
         /\ (\A x \in S : f[x] = 0) => SumFunctionOnSet(f, S) = 0
<1> DEFINE Sum(s) == SumFunctionOnSet(f, s)
           Good(s) == Sum(s) \in Nat /\ ((\A x \in s : f[x] = 0) => Sum(s) = 0)
           T == {k \in Nat : \E s \in SUBSET S : Cardinality(s) = k /\ ~Good(s)}
<1>1. \A s \in SUBSET S : IsFiniteSet(s) /\ Cardinality(s) \in Nat
  BY FS_Subset, FS_CardinalityType
<1>2. ASSUME NEW s \in SUBSET S, NEW x \in s
      PROVE  Sum(s) = f[x] + Sum(s \ {x}) /\ Cardinality(s \ {x}) = Cardinality(s) - 1
  <2>1. IsFiniteSet(s) /\ \A y \in s : f[y] \in Int
    BY <1>1
  <2>2. Sum(s) = f[x] + Sum(s \ {x})
    BY <2>1, SumTake
  <2>3. Cardinality(s \ {x}) = Cardinality(s) - 1
    BY <2>1, FS_RemoveElement
  <2>4. QED
    BY <2>2, <2>3
<1>3. Sum({}) = 0
  BY SumEmpty
<1> HIDE DEF Sum
<1>4. T = {}
  <2>1. SUFFICES ASSUME T # {} PROVE FALSE
    OBVIOUS
  <2>2. PICK m \in T : \A k \in T : m <= k
    BY <2>1, NatMin
  <2>3. PICK s \in SUBSET S : Cardinality(s) = m /\ ~Good(s)
    OBVIOUS
  <2>4. s # {}
    BY <1>3, <2>3
  <2>5. PICK x \in s : TRUE
    BY <2>4
  <2> DEFINE t == s \ {x}
  <2>6. Sum(s) = f[x] + Sum(t) /\ Cardinality(t) = m - 1 /\ Cardinality(t) \in Nat /\ t \in SUBSET S
    BY <1>1, <1>2, <2>3
  <2>7. Good(t)
    BY <2>2, <2>6
  <2>8. Good(s)
    BY <2>6, <2>7
  <2>9. QED
    BY <2>3, <2>8
<1>5. \A s \in SUBSET S : Good(s)
  BY <1>1, <1>4
<1>6. ASSUME NEW x \in S PROVE f[x] <= Sum(S)
  <2>1. Sum(S) = f[x] + Sum(S \ {x})
    BY <1>2
  <2>2. Sum(S \ {x}) \in Nat /\ f[x] \in Nat
    BY <1>5
  <2>3. QED
    BY <2>1, <2>2
<1>7. QED
  BY <1>5, <1>6 DEF Sum

\* Quotient and remainder.
LEMMA Division ==
  ASSUME NEW a \in Int, NEW k \in Nat \ {0}
  PROVE  a \div k \in Int /\ a % k \in 0..k - 1 /\ a = k * (a \div k) + (a % k)
  BY SMT

\* A larger quotient makes a larger number.
LEMMA Larger ==
  ASSUME NEW k \in Nat \ {0}, NEW p \in Int, NEW q \in Int, p < q
  PROVE  k * p + k <= k * q
<1>1. PICK d \in Nat : q = p + 1 + d
  <2>1. q - p - 1 \in Nat /\ q = p + 1 + (q - p - 1)
    OBVIOUS
  <2>2. QED
    BY <2>1
<1>2. k * q = k * p + k + k * d
  BY <1>1
<1>3. k * d >= 0
  OBVIOUS
<1>4. k * d \in Int /\ k * p \in Int /\ k * q \in Int
  OBVIOUS
<1>5. QED
  BY <1>2, <1>3, <1>4

\* There is one quotient and one remainder.
LEMMA OneDivision ==
  ASSUME NEW k \in Nat \ {0}, NEW p \in Int, NEW q \in Int, NEW s \in 0..k - 1, NEW t \in 0..k - 1,
         k * p + s = k * q + t
  PROVE  p = q /\ s = t
<1>1. k * p \in Int /\ k * q \in Int
  OBVIOUS
<1> DEFINE x == k * p
           y == k * q
<1>2. p < q => x + k <= y
  BY Larger
<1>3. q < p => y + k <= x
  BY Larger
<1>4. x \in Int /\ y \in Int /\ x + s = y + t /\ (p = q => x = y)
  BY <1>1
<1> HIDE DEF x, y
<1>5. QED
  BY <1>2, <1>3, <1>4
=============================================================================
