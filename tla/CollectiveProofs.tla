-------------------------- MODULE CollectiveProofs -------------------------
(***************************************************************************)
(* Theorems about the two components that add up over all ranks without a  *)
(* barrier: AllReduce and, below, ProgressIndicator.                       *)
(*                                                                         *)
(* AllReduce, for any number of ranks and of calls.  Ranks may be in       *)
(* different calls and a child may be ahead of its parent.  The invariant  *)
(* says what each rank has merged at the place where it is, and that what  *)
(* is between a child and its parent are, in order, the values for the     *)
(* calls that the one has sent and the other not received.  That no        *)
(* contribution is merged twice is that the ranks below a rank are,        *)
(* without overlap, the rank and those below its two children.             *)
(***************************************************************************)
EXTENDS AllReduce, ProofFacts

-----------------------------------------------------------------------------
(***************************************************************************)
(* The tree, and the value of a part of it.                                *)
(***************************************************************************)
\* With a rank S has its children.
Closed(S) == \A c \in World : c # 0 /\ parent(c) \in S => c \in S

Subtree(r) == {q \in World : \A S \in SUBSET World : r \in S /\ Closed(S) => q \in S}

\* The part below a child, if there is one.
Part(c) == IF c >= NumRanks THEN {} ELSE Subtree(c)

\* What the ranks S give to their n-th call.
Val(S, n) == [x \in {<<q, n>> : q \in {p \in S : Mine(p, n) # EmptyBag}} |-> 1]

-----------------------------------------------------------------------------
(***************************************************************************)
(* The inductive invariant.                                                *)
(***************************************************************************)
Values == {Val(S, n) : S \in SUBSET World, n \in Nat}

Types ==
  /\ calls \in [World -> Nat]
  /\ where \in [World -> {"user", "first", "second", "up", "down"}]
  /\ \A r \in World : where[r] # "user" => calls[r] > 0
  /\ tmp \in [World -> Values]
  /\ chan \in [World \X World -> Seq(Values)]
  /\ down \in Seq(Values)
  /\ got \in [World -> Seq(Values)]

\* The calls for which c has sent its value, and those for which its parent has
\* received it.
Sent(c) == IF where[c] \in {"down", "user"} THEN calls[c] ELSE calls[c] - 1

Taken(c) ==
  IF where[parent(c)] = "first" \/ (where[parent(c)] = "second" /\ c = second_child(parent(c)))
    THEN calls[parent(c)] - 1 ELSE calls[parent(c)]

\* The calls from which r has returned.
Returned(r) == IF where[r] = "user" THEN calls[r] ELSE calls[r] - 1

Merged(r) ==
  /\ where[r] = "first" => tmp[r] = Val({r}, calls[r])
  /\ where[r] = "second" => tmp[r] = Val({r} \cup Part(first_child(r)), calls[r])
  /\ where[r] \in {"up", "down"} => tmp[r] = Val(Subtree(r), calls[r])

\* What is between a rank and its parent are values for the calls in between.
OnTheWay(c) ==
  /\ Len(chan[<<c, parent(c)>>]) = Sent(c) - Taken(c)
  /\ \A i \in 1..Len(chan[<<c, parent(c)>>]) : chan[<<c, parent(c)>>][i] = Val(Subtree(c), Taken(c) + i)

Exactly(s, n) == Len(s) = n /\ \A i \in 1..Len(s) : s[i] = Val(World, i)

IInv ==
  /\ Types
  /\ \A r \in World : Merged(r) /\ Exactly(got[r], Returned(r))
  /\ \A c \in World \ {0} : OnTheWay(c)
  /\ Exactly(down, Returned(0))

-----------------------------------------------------------------------------
(***************************************************************************)
(* The tree.                                                               *)
(***************************************************************************)
\* A rank is a child of its parent, which has a smaller number.
LEMMA Family ==
  /\ \A c \in Nat \ {0} : /\ parent(c) \in Nat /\ parent(c) < c
                          /\ c = first_child(parent(c)) \/ c = second_child(parent(c))
  /\ \A r \in Nat : /\ first_child(r) \in Nat \ {0} /\ second_child(r) \in Nat \ {0}
                    /\ parent(first_child(r)) = r /\ parent(second_child(r)) = r
                    /\ first_child(r) > r /\ second_child(r) > first_child(r)
BY DEF parent, first_child, second_child

\* A subtree is the least set with its rank and, with a rank, its children.
LEMMA Least ==
  ASSUME NumRanks \in Nat \ {0}, NEW r \in World
  PROVE  /\ r \in Subtree(r) /\ Closed(Subtree(r)) /\ Subtree(r) \in SUBSET World
         /\ \A S \in SUBSET World : r \in S /\ Closed(S) => Subtree(r) \subseteq S
         /\ \A q \in Subtree(r) : q >= r
         /\ \A q \in Subtree(r) : q = r \/ (q # 0 /\ parent(q) \in Subtree(r))
<1>1. r \in Subtree(r) /\ Subtree(r) \in SUBSET World
  BY DEF Subtree
<1>2. \A S \in SUBSET World : r \in S /\ Closed(S) => Subtree(r) \subseteq S
  BY DEF Subtree
<1>3. Closed(Subtree(r))
  <2>1. ASSUME NEW c \in World, c # 0, parent(c) \in Subtree(r) PROVE c \in Subtree(r)
    BY <2>1 DEF Subtree, Closed
  <2>2. QED
    BY <2>1 DEF Closed
<1>4. \A q \in World : q \in Nat /\ (q # 0 => parent(q) \in Nat /\ parent(q) < q /\ parent(q) \in World)
  <2>1. ASSUME NEW q \in World, q # 0 PROVE parent(q) \in Nat /\ parent(q) < q /\ parent(q) \in World
    <3>1. q \in Nat \ {0} /\ q <= NumRanks - 1
      BY <2>1 DEF World
    <3>2. parent(q) \in Nat /\ parent(q) < q
      BY <3>1, Family
    <3> HIDE DEF parent
    <3>3. QED
      BY <3>1, <3>2 DEF World
  <2>2. QED
    BY <2>1 DEF World
<1>5. \A q \in Subtree(r) : q >= r
  <2> DEFINE S == {q \in World : q >= r}
  <2>1. S \in SUBSET World /\ r \in S
    BY DEF World
  <2>2. \A c \in World : c # 0 /\ parent(c) \in S => c \in S
    <3>1. ASSUME NEW c \in World, c # 0, parent(c) \in S PROVE c \in S
      <4>1. parent(c) < c /\ parent(c) \in Nat /\ c \in Nat /\ parent(c) >= r /\ r \in Nat
        BY <1>4, <3>1 DEF World
      <4>2. c >= r
        BY <4>1
      <4>3. QED
        BY <4>2
    <3>2. QED
      BY <3>1
  <2>3. Closed(S)
    BY <2>2 DEF Closed
  <2> HIDE DEF S
  <2>4. Subtree(r) \subseteq S
    BY <1>2, <2>1, <2>3
  <2>5. QED
    BY <2>4 DEF S
<1>6. \A q \in Subtree(r) : q = r \/ (q # 0 /\ parent(q) \in Subtree(r))
  <2> DEFINE S == {q \in Subtree(r) : q = r \/ (q # 0 /\ parent(q) \in Subtree(r))}
  <2>1. S \in SUBSET World /\ r \in S
    BY <1>1
  <2>2. Closed(S)
    BY <1>3 DEF Closed
  <2> HIDE DEF S
  <2>3. Subtree(r) \subseteq S
    BY <1>2, <2>1, <2>2
  <2>4. QED
    BY <2>3 DEF S
<1>7. QED
  BY <1>1, <1>2, <1>3, <1>5, <1>6

\* The ranks below r are r and those below its children, each only once.
LEMMA Split ==
  ASSUME NumRanks \in Nat \ {0}, NEW r \in World
  PROVE  /\ Subtree(r) = ({r} \cup Part(first_child(r))) \cup Part(second_child(r))
         /\ {r} \cap Part(first_child(r)) = {}
         /\ ({r} \cup Part(first_child(r))) \cap Part(second_child(r)) = {}
         /\ Part(first_child(r)) \in SUBSET World /\ Part(second_child(r)) \in SUBSET World
<1> DEFINE a == first_child(r)
           b == second_child(r)
<1>1. /\ a \in Nat \ {0} /\ b \in Nat \ {0} /\ parent(a) = r /\ parent(b) = r /\ a > r /\ b > a
      /\ r \in Nat
      /\ \A c \in World \ {0} : parent(c) = r => c = a \/ c = b
  <2>1. r \in Nat
    BY DEF World
  <2>2. a \in Nat \ {0} /\ b \in Nat \ {0} /\ parent(a) = r /\ parent(b) = r /\ a > r /\ b > a
    BY <2>1, Family
  <2>3. ASSUME NEW c \in World \ {0}, parent(c) = r PROVE c = a \/ c = b
    <3>1. c \in Nat \ {0}
      BY DEF World
    <3>2. QED
      BY <2>3, <3>1, Family
  <2>4. QED
    BY <2>1, <2>2, <2>3
<1> HIDE DEF a, b
<1>2. \A c \in Nat : c >= NumRanks <=> c \notin World
  BY DEF World
<1>3. ASSUME NEW c \in {a, b}
      PROVE  /\ Part(c) \in SUBSET World /\ Part(c) \subseteq Subtree(r) /\ r \notin Part(c)
             /\ \A q \in World : q # 0 /\ parent(q) \in Part(c) => q \in Part(c)
             /\ c \in World => c \in Part(c)
             /\ \A q \in Part(c) : q = c \/ (q # 0 /\ parent(q) \in Part(c))
             /\ \A q \in Part(c) : q >= c
  <2>1. CASE c \notin World
    BY <1>1, <1>2, <2>1 DEF Part
  <2>2. CASE c \in World
    <3>1. Part(c) = Subtree(c)
      BY <1>1, <1>2, <2>2 DEF Part
    <3>2. c \in Subtree(r)
      <4>1. Closed(Subtree(r)) /\ r \in Subtree(r)
        BY Least
      <4>2. c # 0 /\ parent(c) = r
        BY <1>1
      <4>3. QED
        BY <2>2, <4>1, <4>2 DEF Closed
    <3>3. Subtree(c) \subseteq Subtree(r)
      <4>1. Closed(Subtree(r)) /\ Subtree(r) \in SUBSET World
        BY Least
      <4>2. QED
        BY <2>2, <3>2, <4>1, Least
    <3>4. /\ c \in Subtree(c) /\ Closed(Subtree(c)) /\ Subtree(c) \in SUBSET World
          /\ \A q \in Subtree(c) : q >= c
          /\ \A q \in Subtree(c) : q = c \/ (q # 0 /\ parent(q) \in Subtree(c))
      BY <2>2, Least
    <3>5. r \notin Subtree(c)
      BY <1>1, <3>4
    <3>6. QED
      BY <3>1, <3>3, <3>4, <3>5 DEF Closed
  <2>3. QED
    BY <2>1, <2>2
<1>4. Part(a) \cap Part(b) = {}
  <2>1. CASE a \notin World
    BY <1>1, <1>2, <2>1 DEF Part
  <2>2. CASE a \in World
    <3> DEFINE S == {q \in World : q > r /\ q \notin Part(b)}
    <3>1. S \in SUBSET World /\ a \in S
      <4>1. a \notin Part(b)
        BY <1>1, <1>3
      <4>2. QED
        BY <1>1, <2>2, <4>1
    <3>2. Closed(S)
      <4>1. ASSUME NEW c \in World, c # 0, parent(c) \in S PROVE c \in S
        <5>1. parent(c) < c /\ c \in Nat /\ parent(c) \in Nat
          <6>1. c \in Nat \ {0}
            BY <4>1 DEF World
          <6>2. QED
            BY <6>1, Family
        <5>2. c > r /\ parent(c) # r
          BY <1>1, <4>1, <5>1
        <5>3. c # b
          BY <1>1, <5>2
        <5>4. c \notin Part(b)
          BY <1>3, <4>1, <5>3
        <5>5. QED
          BY <5>2, <5>4
      <4>2. QED
        BY <4>1 DEF Closed
    <3> HIDE DEF S
    <3>3. Subtree(a) \subseteq S
      BY <2>2, <3>1, <3>2, Least
    <3>4. Part(a) = Subtree(a)
      BY <1>1, <1>2, <2>2 DEF Part
    <3>5. QED
      BY <3>3, <3>4 DEF S
  <2>3. QED
    BY <2>1, <2>2
<1>5. Subtree(r) \subseteq ({r} \cup Part(a)) \cup Part(b)
  <2> DEFINE S == ({r} \cup Part(a)) \cup Part(b)
  <2>1. S \in SUBSET World /\ r \in S
    BY <1>3
  <2>2. Closed(S)
    <3>1. ASSUME NEW c \in World, c # 0, parent(c) \in S PROVE c \in S
      <4>1. CASE parent(c) = r
        <5>1. c = a \/ c = b
          BY <1>1, <3>1, <4>1
        <5>2. QED
          BY <1>3, <5>1
      <4>2. CASE parent(c) \in Part(a)
        BY <1>3, <3>1, <4>2
      <4>3. CASE parent(c) \in Part(b)
        BY <1>3, <3>1, <4>3
      <4>4. QED
        BY <3>1, <4>1, <4>2, <4>3
    <3>2. QED
      BY <3>1 DEF Closed
  <2> HIDE DEF S
  <2>3. Subtree(r) \subseteq S
    BY <2>1, <2>2, Least
  <2>4. QED
    BY <2>3 DEF S
<1>6. r \in Subtree(r)
  BY Least
<1>7. QED
  BY <1>3, <1>4, <1>5, <1>6 DEF a, b

\* All ranks are below rank 0.
LEMMA Whole ==
  ASSUME NumRanks \in Nat \ {0}
  PROVE  0 \in World /\ Subtree(0) = World
<1>1. 0 \in World
  BY DEF World
<1>2. 0 \in Subtree(0) /\ Closed(Subtree(0)) /\ Subtree(0) \in SUBSET World
  BY <1>1, Least
<1> DEFINE T == World \ Subtree(0)
<1>3. T = {}
  <2>1. SUFFICES ASSUME T # {} PROVE FALSE
    OBVIOUS
  <2>2. T \in SUBSET Nat
    BY DEF World
  <2>3. PICK m \in T : \A k \in T : m <= k
    BY <2>1, <2>2, NatMin
  <2>4. m # 0 /\ m \in Nat /\ m \in World
    BY <1>2, <2>2
  <2>5. parent(m) \in Nat /\ parent(m) < m
    BY <2>4, Family
  <2>6. parent(m) \in World /\ ~(m <= parent(m))
    <3> DEFINE p == parent(m)
    <3>1. p \in Nat /\ p < m /\ m <= NumRanks - 1
      BY <2>4, <2>5 DEF World
    <3> HIDE DEF p
    <3>2. p \in World /\ ~(m <= p)
      BY <2>4, <3>1 DEF World
    <3>3. QED
      BY <3>2 DEF p
  <2>7. parent(m) \in Subtree(0)
    BY <2>3, <2>6
  <2>8. QED
    BY <1>2, <2>4, <2>7 DEF Closed
<1>4. QED
  BY <1>1, <1>2, <1>3

-----------------------------------------------------------------------------
(***************************************************************************)
(* Values.                                                                 *)
(***************************************************************************)
\* What one rank gives.
LEMMA ValOne == ASSUME NEW r, NEW n PROVE Val({r}, n) = Mine(r, n)
<1>1. CASE (r + n) % 2 = 0
  <2>1. Mine(r, n) = EmptyBag
    BY <1>1 DEF Mine
  <2>2. {<<q, n>> : q \in {p \in {r} : Mine(p, n) # EmptyBag}} = {}
    BY <2>1
  <2>3. EmptyBag = [x \in {} |-> 1]
    BY DEF EmptyBag, SetToBag
  <2>4. QED
    BY <2>1, <2>2, <2>3 DEF Val
<1>2. CASE (r + n) % 2 # 0
  <2>1. Mine(r, n) = [x \in {<<r, n>>} |-> 1]
    BY <1>2 DEF Mine, SetToBag
  <2>2. EmptyBag = [x \in {} |-> 1]
    BY DEF EmptyBag, SetToBag
  <2>3. Mine(r, n) # EmptyBag
    BY <2>1, <2>2
  <2>4. {<<q, n>> : q \in {p \in {r} : Mine(p, n) # EmptyBag}} = {<<r, n>>}
    BY <2>3
  <2>5. QED
    BY <2>1, <2>4 DEF Val
<1>3. QED
  BY <1>1, <1>2

\* Merging what disjoint sets of ranks give.
LEMMA ValMerge ==
  ASSUME NEW S, NEW T, NEW n, S \cap T = {}
  PROVE  Val(S, n) (+) Val(T, n) = Val(S \cup T, n)
<1> DEFINE D(R) == {<<q, n>> : q \in {p \in R : Mine(p, n) # EmptyBag}}
           s == Val(S, n)
           t == Val(T, n)
           u == Val(S \cup T, n)
<1>1. D(S) \cup D(T) = D(S \cup T) /\ D(S) \cap D(T) = {}
  OBVIOUS
<1>2. s = [x \in D(S) |-> 1] /\ t = [x \in D(T) |-> 1] /\ u = [x \in D(S \cup T) |-> 1]
  BY DEF Val
<1> HIDE DEF D, s, t, u
<1>3. s (+) t = [x \in D(S) \cup D(T) |-> 1]
  <2>1. DOMAIN s = D(S) /\ DOMAIN t = D(T)
    BY <1>2
  <2>2. s (+) t = [e \in D(S) \cup D(T) |-> (IF e \in D(S) THEN s[e] ELSE 0) + (IF e \in D(T) THEN t[e] ELSE 0)]
    BY <2>1 DEF (+)
  <2>3. \A e \in D(S) \cup D(T) : (IF e \in D(S) THEN s[e] ELSE 0) + (IF e \in D(T) THEN t[e] ELSE 0) = 1
    BY <1>1, <1>2
  <2>4. QED
    BY <2>2, <2>3
<1>4. s (+) t = u
  BY <1>1, <1>2, <1>3
<1>5. QED
  BY <1>4 DEF s, t, u
-----------------------------------------------------------------------------
(***************************************************************************)
(* The steps.                                                              *)
(***************************************************************************)
\* The rank above another, and below which of its children that one is.
LEMMA Above ==
  ASSUME NumRanks \in Nat \ {0}, NEW c \in World \ {0}
  PROVE  /\ parent(c) \in World /\ parent(c) # c
         /\ c = first_child(parent(c)) \/ c = second_child(parent(c))
<1>1. c \in Nat \ {0} /\ c <= NumRanks - 1
  BY DEF World
<1>2. parent(c) \in Nat /\ parent(c) < c /\ (c = first_child(parent(c)) \/ c = second_child(parent(c)))
  BY <1>1, Family
<1> HIDE DEF parent
<1>3. parent(c) \in World /\ parent(c) # c
  BY <1>1, <1>2 DEF World
<1>4. QED
  BY <1>2, <1>3

\* A child that there is, its parent, and its brother.
LEMMA Below ==
  ASSUME NumRanks \in Nat \ {0}, NEW r \in World, NEW c \in {first_child(r), second_child(r)}
  PROVE  /\ c >= NumRanks <=> c \notin World
         /\ c \in World => c \in World \ {0}
         /\ parent(c) = r /\ c # r
         /\ first_child(r) # second_child(r)
<1>1. r \in Nat
  BY DEF World
<1>2. c \in Nat \ {0} /\ parent(c) = r /\ c > r /\ second_child(r) > first_child(r)
      /\ first_child(r) \in Nat /\ second_child(r) \in Nat
  BY <1>1, Family
<1>3. QED
  BY <1>1, <1>2 DEF World

\* The value of a set of ranks for a call is a value.
LEMMA ValIn == ASSUME NEW S \in SUBSET World, NEW n \in Nat PROVE Val(S, n) \in Values
BY DEF Values

\* Before anything happens nobody has sent, received or returned anything.
LEMMA Start ==
  ASSUME NumRanks \in Nat \ {0}, Init
  PROVE  IInv
<1>1. EmptyBag = Val({}, 0)
  <2>1. EmptyBag = [x \in {} |-> 1]
    BY DEF EmptyBag, SetToBag
  <2>2. QED
    BY <2>1 DEF Val
<1>2. EmptyBag \in Values
  BY <1>1, ValIn
<1> HIDE <1>1
<1>3. <<>> \in Seq(Values) /\ Len(<<>>) = 0
  OBVIOUS
<1>4. Types
  BY <1>2, <1>3, Zenon DEF Init, Types
<1>5. \A r \in World : Merged(r) /\ Exactly(got[r], Returned(r))
  BY DEF Init, Merged, Exactly, Returned
<1>6. ASSUME NEW c \in World \ {0} PROVE OnTheWay(c)
  <2>1. parent(c) \in World
    BY Above
  <2>2. chan[<<c, parent(c)>>] = <<>> /\ Sent(c) = 0 /\ Taken(c) = 0
    BY <2>1 DEF Init, Sent, Taken
  <2>3. QED
    BY <2>2 DEF OnTheWay
<1>7. Exactly(down, Returned(0))
  <2>1. 0 \in World
    BY DEF World
  <2>2. QED
    BY <2>1 DEF Init, Exactly, Returned
<1>8. QED
  BY <1>4, <1>5, <1>6, <1>7 DEF IInv

\* A call begins with what its rank gives to it.
LEMMA CallKeeps ==
  ASSUME NumRanks \in Nat \ {0}, IInv, NEW r \in World, Call(r)
  PROVE  IInv'
<1>1. /\ where[r] = "user" /\ calls[r] \in Nat
      /\ calls' = [calls EXCEPT ![r] = @ + 1]
      /\ tmp' = [tmp EXCEPT ![r] = Mine(r, calls[r] + 1)]
      /\ where' = [where EXCEPT ![r] = "first"]
      /\ UNCHANGED <<chan, down, got>>
  BY DEF Call, IInv, Types
<1> DEFINE v == Val({r}, calls[r] + 1)
<1>2. v = Mine(r, calls[r] + 1)
  BY ValOne
<1>3. v \in Values
  BY <1>1, ValIn
<1>4. tmp' = [tmp EXCEPT ![r] = v]
  BY <1>1, <1>2
<1>5. Types'
  <2> HIDE DEF v
  <2>1. QED
    BY <1>1, <1>3, <1>4 DEF IInv, Types
<1>6. ASSUME NEW q \in World PROVE Merged(q)' /\ Exactly(got[q], Returned(q))'
  <2>1. Merged(q) /\ Exactly(got[q], Returned(q))
    BY DEF IInv
  <2>2. Returned(q)' = Returned(q)
    BY <1>1 DEF Returned, IInv, Types
  <2>3. Exactly(got[q], Returned(q))'
    BY <1>1, <2>1, <2>2 DEF Exactly
  <2>4. Merged(q)'
    <3>1. CASE q = r
      <4>1. where'[q] = "first" /\ tmp'[q] = v /\ calls'[q] = calls[r] + 1
        <5> HIDE DEF v
        <5>1. QED
          BY <1>1, <1>4, <3>1 DEF IInv, Types
      <4>2. QED
        BY <3>1, <4>1 DEF Merged
    <3>2. CASE q # r
      <4>1. where'[q] = where[q] /\ tmp'[q] = tmp[q] /\ calls'[q] = calls[q]
        BY <1>1, <3>2 DEF IInv, Types
      <4>2. QED
        BY <2>1, <4>1 DEF Merged
    <3>3. QED
      BY <3>1, <3>2
  <2>5. QED
    BY <2>3, <2>4
<1>7. ASSUME NEW c \in World \ {0} PROVE OnTheWay(c)'
  <2>1. OnTheWay(c)
    BY DEF IInv
  <2>2. Sent(c)' = Sent(c)
    BY <1>1 DEF Sent, IInv, Types
  <2>3. Taken(c)' = Taken(c)
    <3>1. PICK p \in World : p = parent(c)
      BY Above
    <3>2. PICK b : b = second_child(p)
      OBVIOUS
    <3>3. QED
      BY <1>1, <3>1, <3>2 DEF Taken, IInv, Types
  <2>4. QED
    BY <1>1, <2>1, <2>2, <2>3 DEF OnTheWay
<1>8. Exactly(down, Returned(0))'
  <2>1. Exactly(down, Returned(0)) /\ 0 \in World
    BY Whole DEF IInv
  <2>2. Returned(0)' = Returned(0)
    BY <1>1, <2>1 DEF Returned, IInv, Types
  <2>3. QED
    BY <1>1, <2>1, <2>2 DEF Exactly
<1>9. QED
  BY <1>5, <1>6, <1>7, <1>8 DEF IInv

\* What a rank receives from a child is what the ranks below that child give
\* to the call it is in; what follows is for the calls after it.
LEMMA Received ==
  ASSUME NumRanks \in Nat \ {0}, IInv, NEW r \in World,
         NEW c \in {first_child(r), second_child(r)}, c \in World,
         Taken(c) = calls[r] - 1, chan[<<c, r>>] # <<>>
  PROVE  /\ Head(chan[<<c, r>>]) = Val(Subtree(c), calls[r])
         /\ Tail(chan[<<c, r>>]) \in Seq(Values)
         /\ Len(Tail(chan[<<c, r>>])) = Sent(c) - calls[r]
         /\ \A i \in 1..Len(Tail(chan[<<c, r>>])) : Tail(chan[<<c, r>>])[i] = Val(Subtree(c), calls[r] + i)
<1>1. c \in World \ {0} /\ parent(c) = r
  BY Below
<1>2. OnTheWay(c) /\ calls[r] \in Nat /\ calls[c] \in Nat
  BY <1>1 DEF IInv, Types
<1>3. <<c, r>> \in World \X World
  OBVIOUS
<1>4. PICK s \in Seq(Values) : s = chan[<<c, r>>]
  BY <1>3 DEF IInv, Types
<1>5. Len(s) = Sent(c) - (calls[r] - 1) /\ \A i \in 1..Len(s) : s[i] = Val(Subtree(c), calls[r] - 1 + i)
  BY <1>1, <1>2, <1>4 DEF OnTheWay
<1>6. s # <<>> /\ Sent(c) \in Int
  BY <1>2, <1>4 DEF Sent
<1>7. /\ Len(s) \in Nat \ {0} /\ Head(s) = s[1] /\ Tail(s) \in Seq(Values)
      /\ Len(Tail(s)) = Len(s) - 1
      /\ \A i \in 1..Len(s) - 1 : Tail(s)[i] = s[i + 1]
  BY <1>6, HeadTail
<1>8. Head(s) = Val(Subtree(c), calls[r])
  <2>1. 1 \in 1..Len(s) /\ calls[r] - 1 + 1 = calls[r]
    BY <1>2, <1>7
  <2>2. QED
    BY <1>5, <1>7, <2>1
<1>9. Len(Tail(s)) = Sent(c) - calls[r]
  BY <1>2, <1>5, <1>6, <1>7
<1>10. ASSUME NEW i \in 1..Len(Tail(s)) PROVE Tail(s)[i] = Val(Subtree(c), calls[r] + i)
  <2>1. i \in 1..Len(s) - 1 /\ i + 1 \in 1..Len(s) /\ calls[r] - 1 + (i + 1) = calls[r] + i
    BY <1>2, <1>7
  <2>2. QED
    BY <1>5, <1>7, <2>1
<1>11. QED
  BY <1>4, <1>7, <1>8, <1>9, <1>10

\* A step that receives from one child, or finds that there is none: what is
\* the same in both, and what distinguishes them.
LEMMA MergeKeeps ==
  ASSUME NumRanks \in Nat \ {0}, IInv, NEW r \in World,
         NEW c \in {first_child(r), second_child(r)},
         NEW then \in {"second", "up"}, MergeChild(r, c, then),
         where[r] = IF then = "second" THEN "first" ELSE "second",
         c = IF then = "second" THEN first_child(r) ELSE second_child(r),
         NEW S \in SUBSET World, tmp[r] = Val(S, calls[r]), S \cap Part(c) = {},
         Part(c) \in SUBSET World
  PROVE  /\ Types'
         /\ tmp' = [tmp EXCEPT ![r] = Val(S \cup Part(c), calls[r])]
         /\ where' = [where EXCEPT ![r] = then]
         /\ UNCHANGED <<calls, down, got>>
         /\ \A d \in World \ {0} : OnTheWay(d)'
<1>1. /\ where' = [where EXCEPT ![r] = then]
      /\ UNCHANGED <<calls, down, got>>
  BY DEF MergeChild
<1>2. calls[r] \in Nat /\ calls[r] > 0
  BY DEF IInv, Types
<1>3. parent(c) = r /\ c # r /\ first_child(r) # second_child(r) /\ (c >= NumRanks <=> c \notin World)
      /\ (c \in World => c \in World \ {0})
  BY Below
<1>4. Val(S \cup Part(c), calls[r]) \in Values
  BY <1>2, ValIn
<1>5. ASSUME NEW d \in World \ {0}
      PROVE  /\ Sent(d)' = Sent(d)
             /\ d # c => Taken(d)' = Taken(d)
             /\ d = c => Taken(d) = calls[r] - 1 /\ Taken(d)' = calls[r]
  <2>1. Sent(d)' = Sent(d)
    BY <1>1 DEF Sent, IInv, Types
  <2>2. PICK p \in World : p = parent(d) /\ (d = first_child(p) \/ d = second_child(p))
    BY Above
  <2>3. PICK b : b = second_child(p)
    OBVIOUS
  <2>4. d # c => Taken(d)' = Taken(d)
    <3>1. CASE p # r
      BY <1>1, <2>2, <2>3, <3>1 DEF Taken, IInv, Types
    <3>2. CASE p = r /\ d # c
      <4>1. IF then = "second" THEN d = b ELSE d # b
        BY <1>3, <2>2, <2>3, <3>2
      <4>2. QED
        BY <1>1, <2>2, <2>3, <3>2, <4>1 DEF Taken, IInv, Types
    <3>3. QED
      BY <3>1, <3>2
  <2>5. d = c => Taken(d) = calls[r] - 1 /\ Taken(d)' = calls[r]
    <3>1. SUFFICES ASSUME d = c PROVE Taken(d) = calls[r] - 1 /\ Taken(d)' = calls[r]
      OBVIOUS
    <3>2. p = r /\ (IF then = "second" THEN d # b ELSE d = b)
      BY <1>3, <2>2, <2>3, <3>1
    <3>3. QED
      BY <1>1, <2>2, <2>3, <3>2 DEF Taken, IInv, Types
  <2>6. QED
    BY <2>1, <2>4, <2>5
<1>6. CASE c \notin World
  <2>1. UNCHANGED <<tmp, chan>> /\ Part(c) = {}
    BY <1>3, <1>6 DEF MergeChild, Part
  <2>2. S \cup Part(c) = S
    BY <2>1
  <2>3. tmp' = [tmp EXCEPT ![r] = Val(S \cup Part(c), calls[r])]
    BY <2>1, <2>2 DEF IInv, Types
  <2>4. Types'
    BY <1>1, <1>2, <2>1 DEF IInv, Types
  <2>5. ASSUME NEW d \in World \ {0} PROVE OnTheWay(d)'
    <3>1. OnTheWay(d) /\ Sent(d)' = Sent(d) /\ Taken(d)' = Taken(d)
      BY <1>5, <1>6 DEF IInv
    <3>2. QED
      BY <2>1, <3>1 DEF OnTheWay
  <2>6. QED
    BY <1>1, <2>3, <2>4, <2>5
<1>7. CASE c \in World
  <2>1. /\ chan[<<c, r>>] # <<>>
        /\ chan' = [chan EXCEPT ![<<c, r>>] = Tail(chan[<<c, r>>])]
        /\ tmp' = [tmp EXCEPT ![r] = @ (+) Head(chan[<<c, r>>])]
    BY <1>3, <1>7 DEF MergeChild, mpi_recv
  <2>2. Taken(c) = calls[r] - 1
    BY <1>3, <1>5, <1>7
  <2>3. PICK t : t = Tail(chan[<<c, r>>])
    OBVIOUS
  <2>4. /\ Head(chan[<<c, r>>]) = Val(Part(c), calls[r])
        /\ t \in Seq(Values) /\ Len(t) = Sent(c) - calls[r]
        /\ \A i \in 1..Len(t) : t[i] = Val(Subtree(c), calls[r] + i)
    <3>1. Part(c) = Subtree(c)
      BY <1>3, <1>7 DEF Part
    <3>2. QED
      BY <1>7, <2>1, <2>2, <2>3, <3>1, Received
  <2>5. tmp' = [tmp EXCEPT ![r] = Val(S \cup Part(c), calls[r])]
    <3>1. tmp[r] (+) Head(chan[<<c, r>>]) = Val(S \cup Part(c), calls[r])
      BY <2>4, ValMerge
    <3>2. QED
      BY <2>1, <3>1
  <2>6. chan' = [chan EXCEPT ![<<c, r>>] = t]
    BY <2>1, <2>3
  <2>7. Types'
    BY <1>1, <1>2, <1>4, <1>7, <2>4, <2>5, <2>6 DEF IInv, Types
  <2>8. ASSUME NEW d \in World \ {0} PROVE OnTheWay(d)'
    <3>1. OnTheWay(d)
      BY DEF IInv
    <3>2. PICK p \in World : p = parent(d)
      BY Above
    <3>3. CASE d = c
      <4>1. chan'[<<d, p>>] = t
        BY <1>3, <1>7, <2>6, <3>2, <3>3 DEF IInv, Types
      <4>2. Sent(d)' = Sent(c) /\ Taken(d)' = calls[r]
        BY <1>5, <3>3
      <4>3. QED
        BY <2>4, <3>2, <3>3, <4>1, <4>2 DEF OnTheWay
    <3>4. CASE d # c
      <4>1. <<d, p>> # <<c, r>> /\ <<d, p>> \in World \X World
        BY <3>4
      <4>2. chan'[<<d, p>>] = chan[<<d, p>>]
        BY <2>6, <4>1 DEF IInv, Types
      <4>3. Sent(d)' = Sent(d) /\ Taken(d)' = Taken(d)
        BY <1>5, <3>4
      <4>4. QED
        BY <3>1, <3>2, <4>2, <4>3 DEF OnTheWay
    <3>5. QED
      BY <3>3, <3>4
  <2>9. QED
    BY <1>1, <2>5, <2>7, <2>8
<1>8. QED
  BY <1>6, <1>7

\* A rank that goes on inside a call, with the value it should have there,
\* keeps the invariant if the types and the messages are kept.
LEMMA GoesOn ==
  ASSUME NumRanks \in Nat \ {0}, IInv, NEW r \in World, where[r] # "user",
         NEW then \in {"second", "up"}, NEW v,
         tmp' = [tmp EXCEPT ![r] = v], where' = [where EXCEPT ![r] = then],
         UNCHANGED <<calls, down, got>>,
         then = "second" => v = Val({r} \cup Part(first_child(r)), calls[r]),
         then = "up" => v = Val(Subtree(r), calls[r]),
         Types', \A d \in World \ {0} : OnTheWay(d)'
  PROVE  IInv'
<1>1. ASSUME NEW q \in World PROVE Merged(q)' /\ Exactly(got[q], Returned(q))'
  <2>1. Merged(q) /\ Exactly(got[q], Returned(q))
    BY DEF IInv
  <2>2. Returned(q)' = Returned(q)
    BY DEF Returned, IInv, Types
  <2>3. Exactly(got[q], Returned(q))'
    BY <2>1, <2>2 DEF Exactly
  <2>4. Merged(q)'
    <3>1. CASE q = r
      <4>1. where'[q] = then /\ tmp'[q] = v /\ calls'[q] = calls[r]
        BY <3>1 DEF IInv, Types
      <4>2. QED
        BY <3>1, <4>1 DEF Merged
    <3>2. CASE q # r
      <4>1. where'[q] = where[q] /\ tmp'[q] = tmp[q] /\ calls'[q] = calls[q]
        BY <3>2 DEF IInv, Types
      <4>2. QED
        BY <2>1, <4>1 DEF Merged
    <3>3. QED
      BY <3>1, <3>2
  <2>5. QED
    BY <2>3, <2>4
<1>2. Exactly(down, Returned(0))'
  <2>1. Exactly(down, Returned(0)) /\ 0 \in World
    BY Whole DEF IInv
  <2>2. Returned(0)' = Returned(0)
    BY <2>1 DEF Returned, IInv, Types
  <2>3. QED
    BY <2>1, <2>2 DEF Exactly
<1>3. QED
  BY <1>1, <1>2 DEF IInv

\* With its first child's value a rank has that of the two parts.
LEMMA ReceiveFirstKeeps ==
  ASSUME NumRanks \in Nat \ {0}, IInv, NEW r \in World, ReceiveFirst(r)
  PROVE  IInv'
<1> DEFINE c == first_child(r)
           then == "second"
           S == {r}
<1>1. where[r] = "first" /\ MergeChild(r, c, then) /\ tmp[r] = Val(S, calls[r])
  BY DEF ReceiveFirst, IInv, Merged
<1>2. S \in SUBSET World /\ S \cap Part(c) = {} /\ Part(c) \in SUBSET World
  BY Split
<1>3. /\ where[r] = IF then = "second" THEN "first" ELSE "second"
      /\ c = IF then = "second" THEN first_child(r) ELSE second_child(r)
      /\ c \in {first_child(r), second_child(r)} /\ then \in {"second", "up"}
  BY <1>1
<1>4. then = "second" => S \cup Part(c) = {r} \cup Part(first_child(r))
  OBVIOUS
<1>5. then = "up" => S \cup Part(c) = Subtree(r)
  OBVIOUS
<1> HIDE DEF c, then, S
<1>6. /\ Types'
      /\ tmp' = [tmp EXCEPT ![r] = Val(S \cup Part(c), calls[r])]
      /\ where' = [where EXCEPT ![r] = then]
      /\ UNCHANGED <<calls, down, got>>
      /\ \A d \in World \ {0} : OnTheWay(d)'
  BY <1>1, <1>2, <1>3, MergeKeeps
<1>7. where[r] # "user"
  BY <1>1
<1>8. QED
  BY <1>3, <1>4, <1>5, <1>6, <1>7, GoesOn

\* With its second child's value a rank has that of all the ranks below it.
LEMMA ReceiveSecondKeeps ==
  ASSUME NumRanks \in Nat \ {0}, IInv, NEW r \in World, ReceiveSecond(r)
  PROVE  IInv'
<1> DEFINE c == second_child(r)
           then == "up"
           S == {r} \cup Part(first_child(r))
<1>1. where[r] = "second" /\ MergeChild(r, c, then) /\ tmp[r] = Val(S, calls[r])
  BY DEF ReceiveSecond, IInv, Merged
<1>2. S \in SUBSET World /\ S \cap Part(c) = {} /\ Part(c) \in SUBSET World
  BY Split
<1>3. /\ where[r] = IF then = "second" THEN "first" ELSE "second"
      /\ c = IF then = "second" THEN first_child(r) ELSE second_child(r)
      /\ c \in {first_child(r), second_child(r)} /\ then \in {"second", "up"}
  BY <1>1
<1>4. then = "second" => S \cup Part(c) = {r} \cup Part(first_child(r))
  OBVIOUS
<1>5. then = "up" => S \cup Part(c) = Subtree(r)
  BY Split
<1> HIDE DEF c, then, S
<1>6. /\ Types'
      /\ tmp' = [tmp EXCEPT ![r] = Val(S \cup Part(c), calls[r])]
      /\ where' = [where EXCEPT ![r] = then]
      /\ UNCHANGED <<calls, down, got>>
      /\ \A d \in World \ {0} : OnTheWay(d)'
  BY <1>1, <1>2, <1>3, MergeKeeps
<1>7. where[r] # "user"
  BY <1>1
<1>8. QED
  BY <1>3, <1>4, <1>5, <1>6, <1>7, GoesOn

\* Appending to a sequence: its length, and the elements by index.
LEMMA Longer ==
  ASSUME NEW V, NEW s \in Seq(V), NEW v \in V
  PROVE  /\ Append(s, v) \in Seq(V) /\ Len(Append(s, v)) = Len(s) + 1
         /\ Append(s, v)[Len(s) + 1] = v
         /\ \A i \in 1..Len(s) : Append(s, v)[i] = s[i]
BY AppendProperties

\* What a rank sends to its parent is the value for its next call there.
LEMMA SendUpKeeps ==
  ASSUME NumRanks \in Nat \ {0}, IInv, NEW r \in World, SendUp(r)
  PROVE  IInv'
<1>1. /\ where[r] = "up" /\ where' = [where EXCEPT ![r] = "down"]
      /\ UNCHANGED <<calls, tmp, down, got>>
  BY DEF SendUp
<1>2. calls[r] \in Nat /\ calls[r] > 0 /\ tmp[r] = Val(Subtree(r), calls[r]) /\ tmp[r] \in Values
  BY <1>1 DEF IInv, Types, Merged
<1>3. ASSUME NEW q \in World PROVE Merged(q)' /\ Exactly(got[q], Returned(q))'
  <2>1. Merged(q) /\ Exactly(got[q], Returned(q))
    BY DEF IInv
  <2>2. Returned(q)' = Returned(q)
    BY <1>1 DEF Returned, IInv, Types
  <2>3. Exactly(got[q], Returned(q))'
    BY <1>1, <2>1, <2>2 DEF Exactly
  <2>4. where'[q] = where[q] \/ (where[q] = "up" /\ where'[q] = "down")
    BY <1>1 DEF IInv, Types
  <2>5. Merged(q)'
    BY <1>1, <2>1, <2>4 DEF Merged
  <2>6. QED
    BY <2>3, <2>5
<1>4. Exactly(down, Returned(0))'
  <2>1. Exactly(down, Returned(0)) /\ 0 \in World
    BY Whole DEF IInv
  <2>2. Returned(0)' = Returned(0)
    BY <1>1, <2>1 DEF Returned, IInv, Types
  <2>3. QED
    BY <1>1, <2>1, <2>2 DEF Exactly
<1>5. ASSUME NEW c \in World \ {0}
      PROVE  /\ Taken(c)' = Taken(c)
             /\ c # r => Sent(c)' = Sent(c)
             /\ c = r => Sent(c)' = calls[r] /\ Sent(c) = calls[r] - 1
  <2>1. PICK p \in World : p = parent(c)
    BY Above
  <2>2. PICK b : b = second_child(p)
    OBVIOUS
  <2>3. Taken(c)' = Taken(c)
    BY <1>1, <2>1, <2>2 DEF Taken, IInv, Types
  <2>4. QED
    BY <1>1, <2>3 DEF Sent, IInv, Types
<1>6. Types' /\ \A c \in World \ {0} : OnTheWay(c)'
  <2>1. CASE r = 0
    <3>1. UNCHANGED chan
      BY <2>1 DEF SendUp
    <3>2. Types'
      BY <1>1, <3>1 DEF IInv, Types
    <3>3. ASSUME NEW c \in World \ {0} PROVE OnTheWay(c)'
      <4>1. OnTheWay(c) /\ Sent(c)' = Sent(c) /\ Taken(c)' = Taken(c)
        BY <1>5, <2>1 DEF IInv
      <4>2. QED
        BY <3>1, <4>1 DEF OnTheWay
    <3>4. QED
      BY <3>2, <3>3
  <2>2. CASE r # 0
    <3>1. PICK p \in World : p = parent(r)
      BY <2>2, Above
    <3>2. PICK s \in Seq(Values) : s = chan[<<r, p>>]
      BY DEF IInv, Types
    <3>3. PICK t : t = Append(s, tmp[r])
      OBVIOUS
    <3>4. chan' = [chan EXCEPT ![<<r, p>>] = t]
      BY <2>2, <3>1, <3>2, <3>3 DEF SendUp, mpi_send
    <3>5. /\ t \in Seq(Values) /\ Len(t) = Len(s) + 1 /\ t[Len(s) + 1] = tmp[r]
          /\ \A i \in 1..Len(s) : t[i] = s[i]
      BY <1>2, <3>3, Longer
    <3>6. Types'
      BY <1>1, <3>4, <3>5 DEF IInv, Types
    <3>7. ASSUME NEW c \in World \ {0} PROVE OnTheWay(c)'
      <4>1. OnTheWay(c) /\ Taken(c)' = Taken(c)
        BY <1>5 DEF IInv
      <4>2. PICK d \in World : d = parent(c)
        BY Above
      <4>3. CASE c # r
        <5>1. <<c, d>> # <<r, p>> /\ <<c, d>> \in World \X World
          BY <4>3
        <5>2. chan'[<<c, d>>] = chan[<<c, d>>]
          BY <3>4, <5>1 DEF IInv, Types
        <5>3. Sent(c)' = Sent(c)
          BY <1>5, <4>3
        <5>4. QED
          BY <4>1, <4>2, <5>2, <5>3 DEF OnTheWay
      <4>4. CASE c = r
        <5>1. chan'[<<c, d>>] = t
          BY <3>1, <3>4, <4>2, <4>4 DEF IInv, Types
        <5>2. Sent(c)' = calls[r] /\ Sent(c) = calls[r] - 1
          BY <1>5, <4>4
        <5>3. Len(s) = calls[r] - 1 - Taken(c) /\ \A i \in 1..Len(s) : s[i] = Val(Subtree(c), Taken(c) + i)
          BY <3>1, <3>2, <4>1, <4>4, <5>2 DEF OnTheWay
        <5>4. Taken(c) \in Int /\ Len(s) \in Nat
          <6>1. calls[d] \in Nat /\ d = parent(c)
            BY <4>2 DEF IInv, Types
          <6>2. QED
            BY <3>2, <6>1 DEF Taken
        <5>5. PICK k \in Int : k = Taken(c)
          BY <5>4
        <5>6. Len(t) = calls[r] - k
          BY <1>2, <3>5, <5>3, <5>4, <5>5
        <5>7. ASSUME NEW i \in 1..Len(t) PROVE t[i] = Val(Subtree(c), k + i)
          <6>1. CASE i \in 1..Len(s)
            BY <3>5, <5>3, <5>5, <6>1
          <6>2. CASE i = Len(s) + 1
            <7>1. k + i = calls[r]
              BY <1>2, <5>3, <5>4, <5>5, <6>2
            <7>2. QED
              BY <1>2, <3>5, <4>4, <6>2, <7>1
          <6>3. QED
            BY <3>5, <5>4, <6>1, <6>2
        <5>8. QED
          BY <4>1, <4>2, <5>1, <5>2, <5>5, <5>6, <5>7 DEF OnTheWay
      <4>5. QED
        BY <4>3, <4>4
    <3>8. QED
      BY <3>6, <3>7
  <2>3. QED
    BY <2>1, <2>2
<1>7. QED
  BY <1>3, <1>4, <1>6 DEF IInv

\* One more exact value after exact values.
LEMMA OneMore ==
  ASSUME NEW n \in Nat, NEW s \in Seq(Values), Exactly(s, n), NEW v \in Values, v = Val(World, n + 1)
  PROVE  Append(s, v) \in Seq(Values) /\ Exactly(Append(s, v), n + 1) /\ Append(s, v)[n + 1] = v
<1>1. Len(s) = n /\ \A i \in 1..Len(s) : s[i] = Val(World, i)
  BY DEF Exactly
<1>2. PICK t : t = Append(s, v)
  OBVIOUS
<1>3. /\ t \in Seq(Values) /\ Len(t) = n + 1 /\ t[n + 1] = v
      /\ \A i \in 1..n : t[i] = s[i]
  BY <1>1, <1>2, Longer
<1>4. \A i \in 1..n + 1 : i \in 1..n \/ i = n + 1
  OBVIOUS
<1>5. Exactly(t, n + 1)
  BY <1>1, <1>3, <1>4 DEF Exactly
<1>6. QED
  BY <1>2, <1>3, <1>5

\* What a rank returns from its n-th call is the n-th value of rank 0.
LEMMA BcastKeeps ==
  ASSUME NumRanks \in Nat \ {0}, IInv, NEW r \in World, Bcast(r)
  PROVE  IInv'
<1>1. /\ where[r] = "down" /\ where' = [where EXCEPT ![r] = "user"]
      /\ got' = [got EXCEPT ![r] = Append(@, down'[calls[r]])]
      /\ UNCHANGED <<calls, tmp, chan>>
  BY DEF Bcast
<1>2. PICK n \in Nat : calls[r] = n + 1
  <2>1. calls[r] \in Nat /\ calls[r] > 0
    BY <1>1 DEF IInv, Types
  <2>2. calls[r] - 1 \in Nat /\ calls[r] = (calls[r] - 1) + 1
    BY <2>1
  <2>3. QED
    BY <2>2
<1>3. 0 \in World /\ Subtree(0) = World
  BY Whole
<1>4. Returned(r) = n /\ Returned(r)' = n + 1 /\ \A q \in World : q # r => Returned(q)' = Returned(q)
  BY <1>1, <1>2 DEF Returned, IInv, Types
<1>5. Val(World, n + 1) \in Values
  BY ValIn
<1>6. /\ down' \in Seq(Values) /\ Exactly(down, Returned(0))'
      /\ down'[n + 1] = Val(World, n + 1)
  <2>1. Exactly(down, Returned(0)) /\ down \in Seq(Values)
    BY DEF IInv, Types
  <2>2. CASE r = 0
    <3>1. down' = Append(down, tmp[0])
      BY <2>2 DEF Bcast
    <3>2. tmp[0] = Val(World, n + 1)
      BY <1>1, <1>2, <1>3, <2>2 DEF IInv, Merged
    <3>3. Exactly(down, n)
      BY <1>4, <2>1, <2>2
    <3>4. down' \in Seq(Values) /\ Exactly(down', n + 1) /\ down'[n + 1] = Val(World, n + 1)
      BY <1>5, <2>1, <3>1, <3>2, <3>3, OneMore
    <3>5. Returned(0)' = n + 1
      BY <1>4, <2>2
    <3>6. QED
      BY <3>4, <3>5 DEF Exactly
  <2>3. CASE r # 0
    <3>1. Len(down) >= n + 1 /\ UNCHANGED down
      BY <1>2, <2>3 DEF Bcast
    <3>2. Returned(0)' = Returned(0)
      BY <1>3, <1>4, <2>3
    <3>3. n + 1 \in 1..Len(down)
      BY <2>1, <3>1
    <3>4. QED
      BY <2>1, <3>1, <3>2, <3>3 DEF Exactly
  <2>4. QED
    BY <2>2, <2>3
<1>7. got' = [got EXCEPT ![r] = Append(@, Val(World, n + 1))]
  BY <1>1, <1>2, <1>6
<1>8. got[r] \in Seq(Values) /\ Exactly(got[r], n)
  BY <1>4 DEF IInv, Types
<1>9. Append(got[r], Val(World, n + 1)) \in Seq(Values) /\ Exactly(Append(got[r], Val(World, n + 1)), n + 1)
  BY <1>5, <1>8, OneMore
<1>10. PICK g : g = Append(got[r], Val(World, n + 1))
  OBVIOUS
<1>11. got' = [got EXCEPT ![r] = g] /\ g \in Seq(Values) /\ Exactly(g, n + 1)
  BY <1>7, <1>9, <1>10
<1>12. Types'
  BY <1>1, <1>2, <1>6, <1>11 DEF IInv, Types
<1>13. ASSUME NEW q \in World PROVE Merged(q)' /\ Exactly(got[q], Returned(q))'
  <2>1. Merged(q) /\ Exactly(got[q], Returned(q))
    BY DEF IInv
  <2>2. CASE q = r
    <3>1. where'[q] = "user" /\ got'[q] = g /\ Returned(q)' = n + 1
      BY <1>1, <1>4, <1>11, <2>2 DEF IInv, Types
    <3>2. Exactly(got[q], Returned(q))'
      BY <1>11, <3>1 DEF Exactly
    <3>3. QED
      BY <3>1, <3>2 DEF Merged
  <2>3. CASE q # r
    <3>1. where'[q] = where[q] /\ got'[q] = got[q] /\ Returned(q)' = Returned(q)
      BY <1>1, <1>4, <1>11, <2>3 DEF IInv, Types
    <3>2. Exactly(got[q], Returned(q))'
      BY <2>1, <3>1 DEF Exactly
    <3>3. Merged(q)'
      BY <1>1, <2>1, <3>1 DEF Merged
    <3>4. QED
      BY <3>2, <3>3
  <2>4. QED
    BY <2>2, <2>3
<1>14. ASSUME NEW c \in World \ {0} PROVE OnTheWay(c)'
  <2>1. OnTheWay(c)
    BY DEF IInv
  <2>2. PICK p \in World : p = parent(c)
    BY Above
  <2>3. PICK b : b = second_child(p)
    OBVIOUS
  <2>4. Sent(c)' = Sent(c)
    BY <1>1 DEF Sent, IInv, Types
  <2>5. Taken(c)' = Taken(c)
    BY <1>1, <2>2, <2>3 DEF Taken, IInv, Types
  <2>6. QED
    BY <1>1, <2>1, <2>4, <2>5 DEF OnTheWay
<1>15. QED
  BY <1>6, <1>12, <1>13, <1>14 DEF IInv

\* A step that changes nothing.
LEMMA StutterKeeps == ASSUME IInv, UNCHANGED vars PROVE IInv'
<1>1. UNCHANGED <<calls, where, tmp, chan, down, got>>
  BY DEF vars
<1>2. Types'
  BY <1>1 DEF IInv, Types
<1>3. \A r \in World : Merged(r)' /\ Exactly(got[r], Returned(r))'
  BY <1>1 DEF IInv, Merged, Exactly, Returned
<1>4. ASSUME NEW c \in World \ {0} PROVE OnTheWay(c)'
  <2>1. OnTheWay(c) /\ Sent(c)' = Sent(c) /\ Taken(c)' = Taken(c)
    BY <1>1 DEF IInv, Sent, Taken
  <2>2. QED
    BY <1>1, <2>1 DEF OnTheWay
<1>5. Exactly(down, Returned(0))'
  BY <1>1 DEF IInv, Exactly, Returned
<1>6. QED
  BY <1>2, <1>3, <1>4, <1>5 DEF IInv

-----------------------------------------------------------------------------
(***************************************************************************)
(* The theorems.                                                           *)
(***************************************************************************)
\* Every reachable state of all_reduce has the invariant: between a child and
\* its parent are the values for the calls the one has sent and the other not
\* received.
THEOREM Inductive ==
  ASSUME NumRanks \in Nat \ {0}
  PROVE  Spec => []IInv
<1>1. Init => IInv
  BY Start
<1>2. IInv /\ [Next]_vars => IInv'
  <2> SUFFICES ASSUME IInv, [Next]_vars PROVE IInv'
    OBVIOUS
  <2>1. ASSUME NEW r \in World, Step(r) PROVE IInv'
    <3>1. CASE Call(r)
      BY <3>1, CallKeeps
    <3>2. CASE ReceiveFirst(r)
      BY <3>2, ReceiveFirstKeeps
    <3>3. CASE ReceiveSecond(r)
      BY <3>3, ReceiveSecondKeeps
    <3>4. CASE SendUp(r)
      BY <3>4, SendUpKeeps
    <3>5. CASE Bcast(r)
      BY <3>5, BcastKeeps
    <3>6. QED
      BY <2>1, <3>1, <3>2, <3>3, <3>4, <3>5 DEF Step
  <2>2. CASE Finished
    BY <2>2, StutterKeeps DEF Finished
  <2>3. CASE UNCHANGED vars
    BY <2>3, StutterKeeps
  <2>4. QED
    BY <2>1, <2>2, <2>3 DEF Next
<1>3. QED
  BY <1>1, <1>2, PTL DEF Spec

\* For every number of ranks and of calls, each call of all_reduce returns at
\* every rank the merge of what the ranks gave to that call, each of them once.
THEOREM Reduces ==
  ASSUME NumRanks \in Nat \ {0}
  PROVE  Spec => []ReducedExact
<1>1. IInv => ReducedExact
  <2> SUFFICES ASSUME IInv PROVE ReducedExact
    OBVIOUS
  <2>1. ASSUME NEW r \in World, NEW n \in DOMAIN got[r] PROVE got[r][n] = All(n)
    <3>1. got[r] \in Seq(Values) /\ Exactly(got[r], Returned(r))
      BY DEF IInv, Types
    <3>2. n \in 1..Len(got[r])
      BY <3>1
    <3>3. got[r][n] = Val(World, n)
      BY <3>1, <3>2 DEF Exactly
    <3>4. QED
      BY <3>3 DEF Val, All
  <2>2. QED
    BY <2>1 DEF ReducedExact
<1>2. Spec => []IInv
  BY Inductive
<1>3. QED
  BY <1>1, <1>2, PTL

-----------------------------------------------------------------------------
(***************************************************************************)
(* ProgressIndicator, for any finite set of ranks, any frequency of        *)
(* reports and any increments.                                             *)
(*                                                                         *)
(* Reductions are matched by their number at each rank, so that a rank     *)
(* frees its communicator, rather than waits for ever in a reduction that  *)
(* the others do not join, rests on all seeing the same results in the     *)
(* same order: whoever has posted a reduction has seen that in the one     *)
(* before it not all were complete.                                        *)
(***************************************************************************)
CONSTANTS Ranks, UpdateFreq, Increments, MaxProgress
VARIABLES at, count, last_report, request, posted, report

Prog == INSTANCE ProgressIndicator

(***************************************************************************)
(* The inductive invariant.                                                *)
(***************************************************************************)
Pairs == [progress : Int, complete : BOOLEAN]

ProgTypes ==
  /\ at \in [Ranks -> {"run", "complete", "freed"}]
  /\ count \in [Ranks -> Int] /\ last_report \in [Ranks -> Int]
  /\ request \in [Ranks -> BOOLEAN]
  /\ posted \in [Ranks -> Seq(Pairs)]
  /\ report = [r \in Ranks |-> report[r]]

\* A rank has a request once it has posted a reduction, which it has when it
\* is in complete(), until it frees the communicator.
Active(r) ==
  /\ at[r] # "freed" => (request[r] <=> Len(posted[r]) > 0)
  /\ at[r] # "run" => Len(posted[r]) > 0

\* Who says complete is in complete(), and its progress is final.
Final(r) ==
  \A n \in 1..Len(posted[r]) :
    posted[r][n].complete => at[r] # "run" /\ posted[r][n].progress = count[r]

\* In no reduction before the last of a rank were all complete.
WentOn(r) ==
  \A n \in 1..Len(posted[r]) - 1 : Prog!Reduced(n) /\ \E q \in Ranks : ~posted[q][n].complete

\* A rank that has freed the communicator has seen that all were complete, and
\* has reported the sum.
Freed(r) ==
  at[r] = "freed" =>
    /\ Prog!Reduced(Len(posted[r]))
    /\ \A q \in Ranks : posted[q][Len(posted[r])].complete
    /\ report[r] = Prog!SumFunction([q \in Ranks |-> posted[q][Len(posted[r])].progress])

ProgInv == ProgTypes /\ \A r \in Ranks : Active(r) /\ Final(r) /\ WentOn(r) /\ Freed(r)

-----------------------------------------------------------------------------
(***************************************************************************)
(* Reductions.                                                             *)
(***************************************************************************)
\* The instance counts members as other modules do.
LEMMA SameCount == ASSUME NEW S PROVE Prog!Cardinality(S) = Cardinality(S)
BY DEF Cardinality, Prog!Cardinality

\* Who counts as many complete as there are ranks has counted all of them.
LEMMA AllComplete ==
  ASSUME IsFiniteSet(Ranks), NEW n
  PROVE  Prog!GloballyComplete(n) <=> \A q \in Ranks : posted[q][n].complete
<1> DEFINE C == {q \in Ranks : posted[q][n].complete}
<1>1. C \subseteq Ranks
  OBVIOUS
<1>2. Prog!GloballyComplete(n) <=> Cardinality(C) = Cardinality(Ranks)
  BY SameCount DEF Prog!GloballyComplete, Prog!Global
<1>3. (\A q \in Ranks : posted[q][n].complete) <=> C = Ranks
  OBVIOUS
<1> HIDE DEF C
<1>4. Cardinality(C) = Cardinality(Ranks) => C = Ranks
  BY <1>1, FS_Subset
<1>5. QED
  BY <1>2, <1>3, <1>4

\* Posting a reduction leaves those posted before as they were.
LEMMA Posting ==
  ASSUME ProgTypes, NEW r \in Ranks, NEW e \in Pairs,
         posted' = [posted EXCEPT ![r] = Append(@, e)]
  PROVE  /\ posted' \in [Ranks -> Seq(Pairs)]
         /\ Len(posted'[r]) = Len(posted[r]) + 1 /\ posted'[r][Len(posted[r]) + 1] = e
         /\ \A q \in Ranks : q # r => posted'[q] = posted[q]
         /\ \A q \in Ranks : Len(posted[q]) \in Nat /\ Len(posted'[q]) >= Len(posted[q])
         /\ \A q \in Ranks : \A n \in 1..Len(posted[q]) : posted'[q][n] = posted[q][n]
<1>1. PICK s \in Seq(Pairs) : s = posted[r]
  BY DEF ProgTypes
<1>2. PICK t : t = Append(s, e)
  OBVIOUS
<1>3. /\ t \in Seq(Pairs) /\ Len(t) = Len(s) + 1 /\ t[Len(s) + 1] = e
      /\ \A n \in 1..Len(s) : t[n] = s[n]
  BY <1>1, <1>2, AppendProperties
<1>4. posted' = [posted EXCEPT ![r] = t]
  BY <1>1, <1>2
<1>5. posted'[r] = t /\ \A q \in Ranks : q # r => posted'[q] = posted[q]
  BY <1>4 DEF ProgTypes
<1>6. posted' \in [Ranks -> Seq(Pairs)]
  BY <1>3, <1>4 DEF ProgTypes
<1>7. \A q \in Ranks : Len(posted[q]) \in Nat
  BY DEF ProgTypes
<1>8. QED
  BY <1>1, <1>3, <1>5, <1>6, <1>7

\* A reduction that all have posted stays as it is.
LEMMA Kept ==
  ASSUME ProgTypes, NEW n \in Nat \ {0}, Prog!Reduced(n),
         \A q \in Ranks : Len(posted[q]) \in Nat /\ Len(posted'[q]) \in Nat /\ Len(posted'[q]) >= Len(posted[q]),
         \A q \in Ranks : \A k \in 1..Len(posted[q]) : posted'[q][k] = posted[q][k]
  PROVE  Prog!Reduced(n)' /\ \A q \in Ranks : posted'[q][n] = posted[q][n]
<1>1. \A q \in Ranks : n \in 1..Len(posted[q])
  BY DEF Prog!Reduced
<1>2. QED
  BY <1>1 DEF Prog!Reduced

-----------------------------------------------------------------------------
(***************************************************************************)
(* The steps.                                                              *)
(***************************************************************************)
LEMMA ProgStarts == ASSUME Prog!Init PROVE ProgInv
<1>1. \A r \in Ranks : posted[r] = <<>> /\ Len(posted[r]) = 0
  BY DEF Prog!Init
<1>2. ProgTypes
  BY DEF Prog!Init, ProgTypes
<1>3. \A r \in Ranks : Active(r) /\ Final(r) /\ WentOn(r) /\ Freed(r)
  BY <1>1 DEF Prog!Init, Active, Final, WentOn, Freed
<1>4. QED
  BY <1>2, <1>3 DEF ProgInv

\* A rank posts a reduction, its first or after one in which not all were
\* complete: it says complete only in complete(), where its progress is final.
LEMMA PostKeeps ==
  ASSUME ProgInv, NEW r \in Ranks, at[r] # "freed",
         NEW a \in {"run", "complete"}, NEW n \in Int, NEW c \in BOOLEAN, NEW v,
         at' = [at EXCEPT ![r] = a], count' = [count EXCEPT ![r] = n],
         report' = [report EXCEPT ![r] = v], Prog!priv_post_iallreduce(r, n, c),
         at[r] = "complete" => a = "complete" /\ n = count[r],
         c => a = "complete",
         Len(posted[r]) > 0 =>
           Prog!Reduced(Len(posted[r])) /\ \E q \in Ranks : ~posted[q][Len(posted[r])].complete
  PROVE  ProgInv'
<1> DEFINE e == [progress |-> n, complete |-> c]
<1>1. ProgTypes /\ e \in Pairs /\ posted' = [posted EXCEPT ![r] = Append(@, e)]
      /\ request' = [request EXCEPT ![r] = TRUE] /\ last_report' = [last_report EXCEPT ![r] = n]
      /\ e.progress = n /\ e.complete = c
  BY DEF ProgInv, Pairs, Prog!priv_post_iallreduce
<1> HIDE DEF e
<1>2. /\ posted' \in [Ranks -> Seq(Pairs)]
      /\ Len(posted'[r]) = Len(posted[r]) + 1 /\ posted'[r][Len(posted[r]) + 1] = e
      /\ \A q \in Ranks : q # r => posted'[q] = posted[q]
      /\ \A q \in Ranks : Len(posted[q]) \in Nat /\ Len(posted'[q]) >= Len(posted[q])
      /\ \A q \in Ranks : \A k \in 1..Len(posted[q]) : posted'[q][k] = posted[q][k]
  BY <1>1, Posting
<1>3. \A q \in Ranks : Len(posted'[q]) \in Nat
  BY <1>2
<1>4. /\ at'[r] = a /\ count'[r] = n /\ request'[r] = TRUE
      /\ \A q \in Ranks : q # r => at'[q] = at[q] /\ count'[q] = count[q]
                                   /\ request'[q] = request[q] /\ report'[q] = report[q]
  BY <1>1 DEF ProgTypes
<1>5. ProgTypes'
  BY <1>1, <1>2 DEF ProgTypes
<1>6. ASSUME NEW k \in Nat \ {0}, Prog!Reduced(k) PROVE Prog!Reduced(k)' /\ \A q \in Ranks : posted'[q][k] = posted[q][k]
  BY <1>1, <1>2, <1>3, <1>6, Kept
<1>7. ASSUME NEW p \in Ranks PROVE Active(p)' /\ Final(p)' /\ WentOn(p)' /\ Freed(p)'
  <2>1. Active(p) /\ Final(p) /\ WentOn(p) /\ Freed(p)
    BY DEF ProgInv
  <2>2. Active(p)'
    <3>1. CASE p = r
      BY <1>2, <1>4, <3>1 DEF Active
    <3>2. CASE p # r
      BY <1>2, <1>4, <2>1, <3>2 DEF Active
    <3>3. QED
      BY <3>1, <3>2
  <2>3. Final(p)'
    <3>1. CASE p # r
      BY <1>2, <1>4, <2>1, <3>1 DEF Final
    <3>2. CASE p = r
      <4>1. ASSUME NEW k \in 1..Len(posted'[r]), posted'[r][k].complete
            PROVE  at'[r] # "run" /\ posted'[r][k].progress = count'[r]
        <5>1. CASE k \in 1..Len(posted[r])
          <6>1. posted'[r][k] = posted[r][k]
            BY <1>2, <5>1
          <6>2. at[r] # "run" /\ posted[r][k].progress = count[r]
            BY <2>1, <3>2, <4>1, <5>1, <6>1 DEF Final
          <6>3. at[r] = "complete"
            BY <1>1, <6>2 DEF ProgTypes
          <6>4. QED
            BY <1>4, <6>1, <6>2, <6>3
        <5>2. CASE k = Len(posted[r]) + 1
          BY <1>1, <1>2, <1>4, <4>1, <5>2
        <5>3. QED
          BY <1>2, <5>1, <5>2
      <4>2. QED
        BY <3>2, <4>1 DEF Final
    <3>3. QED
      BY <3>1, <3>2
  <2>4. WentOn(p)'
    <3>1. ASSUME NEW k \in 1..Len(posted'[p]) - 1
          PROVE  Prog!Reduced(k) /\ \E q \in Ranks : ~posted[q][k].complete
      <4>1. CASE k \in 1..Len(posted[p]) - 1
        BY <2>1, <4>1 DEF WentOn
      <4>2. CASE k \notin 1..Len(posted[p]) - 1
        <5>1. p = r /\ k = Len(posted[r]) /\ Len(posted[r]) > 0
          BY <1>2, <4>2
        <5>2. QED
          BY <5>1
      <4>3. QED
        BY <4>1, <4>2
    <3>2. ASSUME NEW k \in 1..Len(posted'[p]) - 1
          PROVE  Prog!Reduced(k)' /\ \E q \in Ranks : ~posted'[q][k].complete
      <4>1. k \in Nat \ {0} /\ Prog!Reduced(k) /\ \E q \in Ranks : ~posted[q][k].complete
        BY <1>3, <3>1
      <4>2. Prog!Reduced(k)' /\ \A q \in Ranks : posted'[q][k] = posted[q][k]
        BY <1>6, <4>1
      <4>3. QED
        BY <4>1, <4>2
    <3>3. QED
      BY <3>2 DEF WentOn
  <2>5. Freed(p)'
    <3>1. SUFFICES ASSUME at'[p] = "freed"
                   PROVE  /\ Prog!Reduced(Len(posted[p]))'
                          /\ \A q \in Ranks : posted'[q][Len(posted'[p])].complete
                          /\ report'[p] = Prog!SumFunction([q \in Ranks |-> posted'[q][Len(posted'[p])].progress])
      BY DEF Freed
    <3>2. p # r /\ at[p] = "freed"
      BY <1>4, <3>1
    <3>3. PICK k : k = Len(posted[p])
      OBVIOUS
    <3>4. /\ Len(posted'[p]) = k /\ k \in Nat \ {0} /\ Prog!Reduced(k) /\ \A q \in Ranks : posted[q][k].complete
          /\ report'[p] = Prog!SumFunction([q \in Ranks |-> posted[q][k].progress])
      BY <1>2, <1>4, <2>1, <3>2, <3>3 DEF Freed, Active
    <3>5. Prog!Reduced(k)' /\ \A q \in Ranks : posted'[q][k] = posted[q][k]
      BY <1>6, <3>4
    <3>6. [q \in Ranks |-> posted'[q][k].progress] = [q \in Ranks |-> posted[q][k].progress]
      BY <3>5
    <3>7. \A q \in Ranks : posted'[q][k].complete
      BY <3>4, <3>5
    <3>8. Prog!Reduced(Len(posted[p]))'
      BY <3>4, <3>5 DEF Prog!Reduced
    <3>9. QED
      BY <3>4, <3>6, <3>7, <3>8
  <2>6. QED
    BY <2>2, <2>3, <2>4, <2>5
<1>8. QED
  BY <1>5, <1>7 DEF ProgInv

\* A step that posts nothing and reports nothing: at most it begins complete()
\* with a reduction under way, or counts what is not yet reported.
LEMMA QuietKeeps ==
  ASSUME ProgInv, NEW r \in Ranks, UNCHANGED <<posted, report, request, last_report>>,
         NEW a \in {"run", "complete"}, NEW n \in Int, at[r] = "run", a = "complete" => request[r],
         at' = [at EXCEPT ![r] = a], count' = [count EXCEPT ![r] = n]
  PROVE  ProgInv'
<1>1. ProgTypes /\ ProgTypes'
  BY DEF ProgInv, ProgTypes
<1>2. /\ at'[r] = a /\ \A q \in Ranks : q # r => at'[q] = at[q] /\ count'[q] = count[q]
  BY <1>1 DEF ProgTypes
<1>3. ASSUME NEW p \in Ranks PROVE Active(p)' /\ Final(p)' /\ WentOn(p)' /\ Freed(p)'
  <2>1. Active(p) /\ Final(p) /\ WentOn(p) /\ Freed(p)
    BY DEF ProgInv
  <2>2. Active(p)'
    BY <1>2, <2>1 DEF Active
  <2>3. Final(p)'
    BY <1>2, <2>1 DEF Final
  <2>4. WentOn(p)'
    BY <2>1 DEF WentOn, Prog!Reduced
  <2>5. Freed(p)'
    BY <1>2, <2>1 DEF Freed, Prog!Reduced
  <2>6. QED
    BY <2>2, <2>3, <2>4, <2>5
<1>4. QED
  BY <1>1, <1>3 DEF ProgInv

\* A call of async_inc that posts nothing.
LEMMA IncQuietlyKeeps ==
  ASSUME ProgInv, NEW r \in Ranks, NEW i \in Int, Prog!IncQuietly(r, i)
  PROVE  ProgInv'
<1>1. ProgTypes
  BY DEF ProgInv
<1>2. PICK n \in Int : n = count[r] + i
  BY <1>1 DEF ProgTypes
<1>3. /\ at[r] = "run" /\ count' = [count EXCEPT ![r] = n]
      /\ UNCHANGED <<at, posted, report, request, last_report>>
  BY <1>2 DEF Prog!IncQuietly
<1>4. at' = [at EXCEPT ![r] = "run"]
  BY <1>1, <1>3 DEF ProgTypes
<1>5. QED
  BY <1>3, <1>4, QuietKeeps

\* A rank that goes on counting has said complete in none of its reductions.
LEMMA Running ==
  ASSUME ProgInv, NEW r \in Ranks, at[r] = "run", Len(posted[r]) > 0
  PROVE  ~posted[r][Len(posted[r])].complete
<1>1. Final(r) /\ Len(posted[r]) \in Nat
  BY DEF ProgInv, ProgTypes
<1>2. Len(posted[r]) \in 1..Len(posted[r])
  BY <1>1
<1>3. QED
  BY <1>1, <1>2 DEF Final

\* One that posts a reduction.
LEMMA IncPostingKeeps ==
  ASSUME ProgInv, NEW r \in Ranks, NEW i \in Int, Prog!IncPosting(r, i)
  PROVE  ProgInv'
<1>1. ProgTypes /\ Active(r)
  BY DEF ProgInv
<1>2. PICK n \in Int : n = count[r] + i
  BY <1>1 DEF ProgTypes
<1>3. /\ at[r] = "run" /\ count' = [count EXCEPT ![r] = n] /\ UNCHANGED at
      /\ IF request[r] THEN Prog!Reduced(Prog!Reduction(r)) /\ Prog!priv_report(r) ELSE UNCHANGED report
      /\ Prog!priv_post_iallreduce(r, n, FALSE)
  BY <1>2 DEF Prog!IncPosting
<1>4. PICK v : report' = [report EXCEPT ![r] = v]
  <2>1. CASE request[r]
    BY <1>3, <2>1 DEF Prog!priv_report
  <2>2. CASE ~request[r]
    <3>1. report' = [report EXCEPT ![r] = report[r]]
      BY <1>1, <1>3, <2>2 DEF ProgTypes
    <3>2. QED
      BY <3>1
  <2>3. QED
    BY <2>1, <2>2
<1>5. Len(posted[r]) > 0 =>
        Prog!Reduced(Len(posted[r])) /\ \E q \in Ranks : ~posted[q][Len(posted[r])].complete
  BY <1>1, <1>3, Running DEF Active, Prog!Reduction
<1>6. at' = [at EXCEPT ![r] = "run"]
  BY <1>1, <1>3 DEF ProgTypes
<1>7. at[r] # "freed" /\ at[r] # "complete" /\ FALSE \in BOOLEAN /\ ~FALSE
  BY <1>3
<1>8. QED
  BY <1>3, <1>4, <1>5, <1>6, <1>7, PostKeeps

\* complete() posts a reduction unless one is under way.
LEMMA CompleteKeeps ==
  ASSUME ProgInv, NEW r \in Ranks, Prog!Complete(r)
  PROVE  ProgInv'
<1>1. ProgTypes /\ Active(r)
  BY DEF ProgInv
<1>2. at[r] = "run" /\ at' = [at EXCEPT ![r] = "complete"] /\ UNCHANGED <<count, report>>
  BY DEF Prog!Complete
<1>3. PICK n \in Int : n = count[r]
  BY <1>1 DEF ProgTypes
<1>4. count' = [count EXCEPT ![r] = n] /\ report' = [report EXCEPT ![r] = report[r]]
  BY <1>1, <1>2, <1>3 DEF ProgTypes
<1>5. CASE request[r]
  <2>1. UNCHANGED <<posted, report, request, last_report>>
    BY <1>2, <1>5 DEF Prog!Complete
  <2>2. QED
    BY <1>2, <1>4, <1>5, <2>1, QuietKeeps
<1>6. CASE ~request[r]
  <2>1. Prog!priv_post_iallreduce(r, n, TRUE)
    BY <1>3, <1>6 DEF Prog!Complete
  <2>2. ~(Len(posted[r]) > 0)
    BY <1>1, <1>2, <1>6 DEF Active
  <2>3. at[r] # "freed" /\ at[r] # "complete" /\ TRUE \in BOOLEAN
    BY <1>2
  <2>4. QED
    BY <1>2, <1>4, <2>1, <2>2, <2>3, PostKeeps
<1>7. QED
  BY <1>5, <1>6

\* A rank in complete() frees the communicator, or posts one more reduction.
LEMMA WaitUntilKeeps ==
  ASSUME IsFiniteSet(Ranks), ProgInv, NEW r \in Ranks, Prog!WaitUntil(r)
  PROVE  ProgInv'
<1>1. ProgTypes /\ Active(r) /\ Len(posted[r]) \in Nat
  BY DEF ProgInv, ProgTypes
<1>2. at[r] = "complete" /\ Prog!Reduced(Len(posted[r])) /\ UNCHANGED count
  BY DEF Prog!WaitUntil, Prog!Reduction
<1>3. CASE Prog!GloballyComplete(Len(posted[r]))
  <2>1. /\ at' = [at EXCEPT ![r] = "freed"] /\ request' = [request EXCEPT ![r] = FALSE]
        /\ UNCHANGED <<posted, last_report>> /\ Prog!priv_report(r)
    BY <1>3 DEF Prog!WaitUntil, Prog!Reduction
  <2>2. PICK v : v = Prog!SumFunction([q \in Ranks |-> posted[q][Len(posted[r])].progress])
    OBVIOUS
  <2>3. report' = [report EXCEPT ![r] = v]
    BY <2>1, <2>2 DEF Prog!priv_report, Prog!Global, Prog!Reduction
  <2>4. ProgTypes'
    BY <1>1, <1>2, <2>1, <2>3 DEF ProgTypes
  <2>5. /\ at'[r] = "freed" /\ report'[r] = v
        /\ \A q \in Ranks : q # r => at'[q] = at[q] /\ request'[q] = request[q] /\ report'[q] = report[q]
    BY <1>1, <2>1, <2>3 DEF ProgTypes
  <2>6. ASSUME NEW p \in Ranks PROVE Active(p)' /\ Final(p)' /\ WentOn(p)' /\ Freed(p)'
    <3>1. Active(p) /\ Final(p) /\ WentOn(p) /\ Freed(p)
      BY DEF ProgInv
    <3>2. Active(p)'
      BY <1>2, <2>1, <2>5, <3>1 DEF Active
    <3>3. Final(p)'
      BY <1>2, <2>1, <2>5, <3>1 DEF Final
    <3>4. WentOn(p)'
      BY <2>1, <3>1 DEF WentOn, Prog!Reduced
    <3>5. Freed(p)'
      <4>1. CASE p = r
        <5>1. \A q \in Ranks : posted[q][Len(posted[r])].complete
          BY <1>3, AllComplete
        <5>2. QED
          BY <1>2, <2>1, <2>2, <2>5, <4>1, <5>1 DEF Freed, Prog!Reduced
      <4>2. CASE p # r
        BY <2>1, <2>5, <3>1, <4>2 DEF Freed, Prog!Reduced
      <4>3. QED
        BY <4>1, <4>2
    <3>6. QED
      BY <3>2, <3>3, <3>4, <3>5
  <2>7. QED
    BY <2>4, <2>6 DEF ProgInv
<1>4. CASE ~Prog!GloballyComplete(Len(posted[r]))
  <2>1. Prog!priv_post_iallreduce(r, count[r], TRUE) /\ Prog!ReportPosted(r) /\ UNCHANGED at
    BY <1>4 DEF Prog!WaitUntil, Prog!Reduction
  <2>2. PICK v : report' = [report EXCEPT ![r] = v]
    BY <2>1 DEF Prog!ReportPosted, Prog!priv_report
  <2>3. PICK n \in Int : n = count[r]
    BY <1>1 DEF ProgTypes
  <2>4. at' = [at EXCEPT ![r] = "complete"] /\ count' = [count EXCEPT ![r] = n]
    BY <1>1, <1>2, <2>1, <2>3 DEF ProgTypes
  <2>5. \E q \in Ranks : ~posted[q][Len(posted[r])].complete
    BY <1>4, AllComplete
  <2>6. at[r] # "freed" /\ TRUE \in BOOLEAN /\ Prog!priv_post_iallreduce(r, n, TRUE)
    BY <1>2, <2>1, <2>3
  <2>7. QED
    BY <1>2, <2>2, <2>3, <2>4, <2>5, <2>6, PostKeeps
<1>5. QED
  BY <1>3, <1>4

\* A step that changes nothing.
LEMMA ProgStutterKeeps == ASSUME ProgInv, UNCHANGED Prog!vars PROVE ProgInv'
BY DEF Prog!vars, ProgInv, ProgTypes, Active, Final, WentOn, Freed, Prog!Reduced

-----------------------------------------------------------------------------
(***************************************************************************)
(* The theorems.                                                           *)
(***************************************************************************)
\* Every reachable state has the invariant: whoever has posted a reduction has
\* seen that in the one before it not all were complete.
THEOREM ProgressInductive ==
  ASSUME IsFiniteSet(Ranks), Increments \subseteq Int
  PROVE  Prog!Spec => []ProgInv
<1>1. Prog!Init => ProgInv
  BY ProgStarts
<1>2. ProgInv /\ [Prog!Next]_(Prog!vars) => ProgInv'
  <2> SUFFICES ASSUME ProgInv, [Prog!Next]_(Prog!vars) PROVE ProgInv'
    OBVIOUS
  <2>1. ASSUME NEW r \in Ranks, NEW i \in Increments, Prog!IncQuietly(r, i) PROVE ProgInv'
    BY <2>1, IncQuietlyKeeps
  <2>2. ASSUME NEW r \in Ranks, NEW i \in Increments, Prog!IncPosting(r, i) PROVE ProgInv'
    BY <2>2, IncPostingKeeps
  <2>3. ASSUME NEW r \in Ranks, Prog!Complete(r) PROVE ProgInv'
    BY <2>3, CompleteKeeps
  <2>4. ASSUME NEW r \in Ranks, Prog!WaitUntil(r) PROVE ProgInv'
    BY <2>4, WaitUntilKeeps
  <2>5. CASE Prog!Finished
    BY <2>5, ProgStutterKeeps DEF Prog!Finished
  <2>6. CASE UNCHANGED Prog!vars
    BY <2>6, ProgStutterKeeps
  <2>7. QED
    BY <2>1, <2>2, <2>3, <2>4, <2>5, <2>6 DEF Prog!Next
<1>3. QED
  BY <1>1, <1>2, PTL DEF Prog!Spec

\* For any ranks and increments: a rank that frees the communicator has reported
\* the progress of all, which is final, and all ranks have posted as many
\* reductions as it has, so none of them waits for it.
THEOREM FreedTogether ==
  ASSUME IsFiniteSet(Ranks), Increments \subseteq Int
  PROVE  Prog!Spec => []Prog!ProgressExact
<1>1. ProgInv => Prog!ProgressExact
  <2> SUFFICES ASSUME ProgInv, NEW r \in Ranks, at[r] = "freed"
               PROVE  /\ report[r] = Prog!SumFunction([q \in Ranks |-> count[q]])
                      /\ \A q \in Ranks : at[q] # "run" /\ Len(posted[q]) = Len(posted[r])
    BY DEF Prog!ProgressExact
  <2>1. PICK n : n = Len(posted[r])
    OBVIOUS
  <2>2. /\ n \in Nat \ {0} /\ Prog!Reduced(n) /\ \A q \in Ranks : posted[q][n].complete
        /\ report[r] = Prog!SumFunction([q \in Ranks |-> posted[q][n].progress])
    <3>1. Len(posted[r]) \in Nat /\ Active(r) /\ Freed(r)
      BY DEF ProgInv, ProgTypes
    <3>2. n \in Nat /\ n > 0
      BY <2>1, <3>1 DEF Active
    <3>3. QED
      BY <2>1, <3>1, <3>2 DEF Freed
  <2>3. ASSUME NEW q \in Ranks
        PROVE  at[q] # "run" /\ posted[q][n].progress = count[q] /\ Len(posted[q]) = n
    <3>1. Len(posted[q]) \in Nat /\ Len(posted[q]) >= n /\ Final(q) /\ WentOn(q)
      BY <2>2 DEF ProgInv, ProgTypes, Prog!Reduced
    <3>2. n \in 1..Len(posted[q])
      BY <2>2, <3>1
    <3>3. at[q] # "run" /\ posted[q][n].progress = count[q]
      BY <2>2, <3>1, <3>2 DEF Final
    <3>4. ~(n \in 1..Len(posted[q]) - 1)
      BY <2>2, <3>1 DEF WentOn
    <3>5. QED
      BY <3>1, <3>2, <3>3, <3>4
  <2>4. [q \in Ranks |-> posted[q][n].progress] = [q \in Ranks |-> count[q]]
    BY <2>3
  <2>5. QED
    BY <2>1, <2>2, <2>3, <2>4
<1>2. Prog!Spec => []ProgInv
  BY ProgressInductive
<1>3. QED
  BY <1>1, <1>2, PTL
=============================================================================
