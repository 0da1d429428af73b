--------------------------- MODULE YgmCommProofs ---------------------------
(***************************************************************************)
(* Theorems about YgmComm, for any finite set of ranks, any messages, any  *)
(* routes and any capacities.                                              *)
(*                                                                         *)
(* The invariant has five parts.  First comes that of the stacks: which    *)
(* call may be called from which.  For the messages, steps are sorted by   *)
(* what they do to them (Deed), and each sort keeps every message in one   *)
(* place and the account of the buffers.  The two need each other: that a  *)
(* flush finds a queue to flush is the account, and that a buffer does not *)
(* have the message which is packed is that the message has one place, in  *)
(* the call.                                                               *)
(***************************************************************************)
EXTENDS YgmComm, ProofFacts

-----------------------------------------------------------------------------
(***************************************************************************)
(* Frames.                                                                 *)
(***************************************************************************)
\* What a frame of each kind has.
LEMMA FrameFields ==
  ASSUME NEW f \in FrameTypes
  PROVE  /\ f.op \in {"user", "halt", "bcast", "cap", "next", "prq", "recv", "flushall", "reduce"}
         /\ f.op = "user" => f.msg \in Msgs \cup {None} /\ f.masks \in 0..MaxMasks
         /\ f.op = "halt" => f.msg \in Msgs \cup {None} /\ f.to \in Ranks
         /\ f.op = "bcast" => f.some \in BOOLEAN
         /\ f.op = "cap" => f.phase \in {"local", "remote"} /\ f = Cap(f.phase)
         /\ f.op = "next" => f.near \in BOOLEAN
         /\ f.op = "prq" => f.phase \in {"wait", "test"} /\ f.got \in BOOLEAN
         /\ f.op = "recv" => f.todo \in SUBSET Msgs
         /\ f.op = "flushall" => /\ f.phase \in {"poll", "hooks", "local", "remote", "isends"}
                                 /\ f.did \in BOOLEAN
BY DEF FrameTypes, Reduce, Cap

\* The frames that calls push.
LEMMA NewFrames ==
  /\ \A m \in Msgs \cup {None} :
       /\ User(m) \in FrameTypes /\ User(m).op = "user" /\ User(m).msg = m /\ User(m).masks = 0
       /\ \A d \in Ranks : Halt(m, d) \in FrameTypes /\ Halt(m, d).op = "halt" /\ Halt(m, d).msg = m
                           /\ Halt(m, d).to = d
  /\ \A b \in BOOLEAN :
       /\ Bcast(b) \in FrameTypes /\ Bcast(b).op = "bcast"
       /\ FlushOne(b) \in FrameTypes /\ FlushOne(b).op = "next"
  /\ \A p \in {"local", "remote"} :
       Cap(p) \in FrameTypes /\ Cap(p).op = "cap" /\ Cap(p).phase = p
  /\ \A p \in {"wait", "test"} :
       Prq(p) \in FrameTypes /\ Prq(p).op = "prq" /\ Prq(p).phase = p /\ Prq(p).got = FALSE
  /\ \A b : b.msgs \in SUBSET Msgs =>
       Recv(b) \in FrameTypes /\ Recv(b).op = "recv" /\ Recv(b).todo = b.msgs
  /\ FlushAll \in FrameTypes /\ FlushAll.op = "flushall" /\ FlushAll.phase = "poll"
  /\ FlushAll.did = FALSE
  /\ Reduce \in FrameTypes /\ Reduce.op = "reduce"
  /\ \A r \in Ranks : Halt(None, r) \in FrameTypes /\ Halt(None, r).op = "halt" /\ Halt(None, r).msg = None
  /\ User(None) \in FrameTypes /\ User(None).op = "user" /\ User(None).msg = None
<1>1. 0 \in 0..MaxMasks
  BY CommAssumption
<1>2. QED
  BY <1>1 DEF FrameTypes, User, Halt, Bcast, FlushOne, Cap, Prq, Recv, FlushAll, Reduce

\* interrupt_mask changes the count of masks and nothing else.
LEMMA MaskedFrame ==
  ASSUME NEW f \in FrameTypes, f.op = "user", NEW n \in 0..MaxMasks
  PROVE  LET g == [f EXCEPT !.masks = n]
         IN  g \in FrameTypes /\ g.op = "user" /\ g.msg = f.msg /\ g.masks = n
<1>1. f \in [op : {"user"}, msg : Msgs \cup {None}, masks : 0..MaxMasks]
  BY DEF FrameTypes, Reduce
<1>2. QED
  BY <1>1 DEF FrameTypes

\* process_receive_queue remembers that it has received, and goes from
\* waiting to testing.
LEMMA PrqFrame ==
  ASSUME NEW f \in FrameTypes, f.op = "prq", NEW b \in BOOLEAN
  PROVE  /\ LET g == [f EXCEPT !.got = b]
            IN  g \in FrameTypes /\ g.op = "prq" /\ g.got = b /\ g.phase = f.phase
         /\ LET g == [f EXCEPT !.phase = "test", !.got = b]
            IN  g \in FrameTypes /\ g.op = "prq" /\ g.got = b /\ g.phase = "test"
<1>1. f \in [op : {"prq"}, phase : {"wait", "test"}, got : BOOLEAN]
  BY DEF FrameTypes, Reduce
<1>2. QED
  BY <1>1 DEF FrameTypes

\* handle_next_receive takes a message from its archive.
LEMMA RecvFrame ==
  ASSUME NEW f \in FrameTypes, f.op = "recv", NEW m
  PROVE  LET g == [f EXCEPT !.todo = @ \ {m}]
         IN  g \in FrameTypes /\ g.op = "recv" /\ g.todo = f.todo \ {m}
<1>1. f \in [op : {"recv"}, todo : SUBSET Msgs]
  BY DEF FrameTypes, Reduce
<1>2. QED
  BY <1>1 DEF FrameTypes

\* flush_all_local_and_process_incoming remembers that it did something.
LEMMA DidFrame ==
  ASSUME NEW f \in FrameTypes, f.op = "flushall", NEW b \in BOOLEAN
  PROVE  LET g == [f EXCEPT !.did = b]
         IN  g \in FrameTypes /\ g.op = "flushall" /\ g.did = b /\ g.phase = f.phase
<1>1. f \in [op : {"flushall"}, phase : {"poll", "hooks", "local", "remote", "isends"}, did : BOOLEAN]
  BY DEF FrameTypes, Reduce
<1>2. QED
  BY <1>1 DEF FrameTypes

\* The loops of flush_all_local_and_process_incoming.
Phases == {"poll", "hooks", "local", "remote", "isends"}

-----------------------------------------------------------------------------
(***************************************************************************)
(* Loads of send queues.                                                   *)
(***************************************************************************)
\* Buffers of finitely many messages: those there are.
FBuffers == {b \in Buffers : IsFiniteSet(b.msgs)}

\* Load counts these.
Contents(q) == {p \in (DOMAIN q) \X Msgs : p[2] \in q[p[1]].msgs}

\* The load of a send queue is a number, the sum over its buffers.
LEMMA LoadContents ==
  ASSUME NEW q \in Seq(FBuffers)
  PROVE  /\ IsFiniteSet(Contents(q)) /\ Load(q) = Cardinality(Contents(q)) /\ Load(q) \in Nat
         /\ \A i, m : <<i, m>> \in Contents(q) <=> i \in 1..Len(q) /\ m \in q[i].msgs
<1>1. /\ Len(q) \in Nat /\ DOMAIN q = 1..Len(q)
      /\ \A i \in 1..Len(q) : q[i] \in FBuffers /\ q[i].msgs \in SUBSET Msgs /\ IsFiniteSet(q[i].msgs)
  BY LenProperties, ElementOfSeq DEF FBuffers, Buffers
<1> DEFINE f == [i \in 1..Len(q) |-> q[i].msgs]
           U == UNION {f[i] : i \in 1..Len(q)}
<1>2. IsFiniteSet(1..Len(q))
  BY <1>1, FS_Interval
<1>3. IsFiniteSet(U)
  <2>1. IsFiniteSet({f[i] : i \in 1..Len(q)})
    BY <1>2, FiniteImage
  <2>2. \A S \in {f[i] : i \in 1..Len(q)} : IsFiniteSet(S)
    BY <1>1
  <2>3. QED
    BY <2>1, <2>2, FS_UNION
<1>4. IsFiniteSet((1..Len(q)) \X U)
  BY <1>2, <1>3, FS_Product
<1>5. Contents(q) \subseteq (1..Len(q)) \X U
  BY <1>1 DEF Contents
<1>6. IsFiniteSet(Contents(q))
  BY <1>4, <1>5, FS_Subset
<1>7. \A i, m : <<i, m>> \in Contents(q) <=> i \in 1..Len(q) /\ m \in q[i].msgs
  BY <1>1 DEF Contents
<1>8. QED
  BY <1>6, <1>7, FS_CardinalityType DEF Load, Contents

\* An isend adds the size of its buffer.
LEMMA LoadAppend ==
  ASSUME NEW q \in Seq(FBuffers), NEW b \in FBuffers
  PROVE  /\ Append(q, b) \in Seq(FBuffers)
         /\ Load(Append(q, b)) = Load(q) + Cardinality(b.msgs)
<1> DEFINE t == Append(q, b)
           n == Len(q) + 1
<1>1. /\ t \in Seq(FBuffers) /\ Len(t) = n /\ t[n] = b /\ Len(q) \in Nat
      /\ \A i \in 1..Len(q) : t[i] = q[i]
  BY AppendProperties, LenProperties
<1> HIDE DEF t
<1>2. Contents(t) = Contents(q) \cup ({n} \X b.msgs)
  <2>1. Contents(t) \subseteq Nat \X Msgs /\ Contents(q) \subseteq Nat \X Msgs /\ b.msgs \subseteq Msgs
    BY <1>1, LenProperties DEF Contents, FBuffers, Buffers
  <2>2. 1..n = 1..Len(q) \cup {n} /\ n \notin 1..Len(q)
    BY <1>1
  <2>3. \A i, m : <<i, m>> \in Contents(t) <=> <<i, m>> \in Contents(q) \/ (i = n /\ m \in b.msgs)
    BY <1>1, <2>2, LoadContents
  <2>4. QED
    BY <2>1, <2>3
<1>3. Contents(q) \cap ({n} \X b.msgs) = {}
  <2>1. \A i, m : <<i, m>> \in Contents(q) => i # n
    BY <1>1, LoadContents
  <2>2. QED
    BY <2>1
<1>4. IsFiniteSet(b.msgs)
  BY DEF FBuffers
<1>5. IsFiniteSet({n} \X b.msgs) /\ Cardinality({n} \X b.msgs) = Cardinality(b.msgs)
  BY <1>4, Slice
<1>6. Cardinality(Contents(t)) = Cardinality(Contents(q)) + Cardinality(b.msgs)
  <2>1. IsFiniteSet(Contents(q))
    BY LoadContents
  <2>2. Cardinality(Contents(q) \cup ({n} \X b.msgs)) = Cardinality(Contents(q)) + Cardinality({n} \X b.msgs)
    BY <2>1, <1>3, <1>5, DisjointUnion
  <2>3. QED
    BY <2>2, <1>2, <1>5
<1>7. QED
  BY <1>1, <1>6, LoadContents DEF t

\* A completed send takes the size of its buffer away.
LEMMA LoadTail ==
  ASSUME NEW q \in Seq(FBuffers), q # <<>>
  PROVE  /\ Tail(q) \in Seq(FBuffers) /\ Head(q) \in FBuffers
         /\ Load(Tail(q)) = Load(q) - Cardinality(Head(q).msgs)
<1> DEFINE t == Tail(q)
           b == Head(q)
<1>1. /\ t \in Seq(FBuffers) /\ Len(t) = Len(q) - 1 /\ Len(q) \in Nat \ {0} /\ b = q[1] /\ b \in FBuffers
      /\ \A i \in 1..Len(q) - 1 : t[i] = q[i + 1]
  BY HeadTail
<1> HIDE DEF t, b
<1> DEFINE S == Contents(t)
           T == Contents(q) \ ({1} \X b.msgs)
           f == [p \in S |-> <<p[1] + 1, p[2]>>]
<1>2. S \subseteq Nat \X Msgs /\ Contents(q) \subseteq Nat \X Msgs /\ b.msgs \subseteq Msgs
  BY <1>1, LenProperties DEF Contents, FBuffers, Buffers
<1>3. \A i, m : <<i, m>> \in S <=> i \in 1..Len(q) - 1 /\ m \in q[i + 1].msgs
  BY <1>1, LoadContents
<1>4. \A i, m : <<i, m>> \in T <=> i \in 2..Len(q) /\ m \in q[i].msgs
  <2>1. \A i, m : <<i, m>> \in Contents(q) <=> i \in 1..Len(q) /\ m \in q[i].msgs
    BY LoadContents
  <2>2. \A i : i \in 2..Len(q) <=> i \in 1..Len(q) /\ i # 1
    BY <1>1
  <2>3. QED
    BY <1>1, <2>1, <2>2
<1>5. f \in [S -> T]
  <2>1. \A p \in S : <<p[1] + 1, p[2]>> \in T
    <3> SUFFICES ASSUME NEW i \in Nat, NEW m \in Msgs, <<i, m>> \in S PROVE <<i + 1, m>> \in T
      BY <1>2
    <3>1. i \in 1..Len(q) - 1 /\ m \in q[i + 1].msgs
      BY <1>3
    <3>2. i + 1 \in 2..Len(q)
      BY <1>1, <3>1
    <3>3. QED
      BY <1>4, <3>1, <3>2
  <2>2. QED
    BY <2>1
<1>6. \A x, y \in S : f[x] = f[y] => x = y
  <2> SUFFICES ASSUME NEW i \in Nat, NEW m \in Msgs, NEW j \in Nat, NEW n \in Msgs,
                      <<i, m>> \in S, <<j, n>> \in S, <<i + 1, m>> = <<j + 1, n>>
               PROVE  <<i, m>> = <<j, n>>
    BY <1>2
  <2>1. i + 1 = j + 1 /\ m = n
    OBVIOUS
  <2>2. QED
    BY <2>1
<1>7. \A u \in T : \E x \in S : f[x] = u
  <2> TAKE u \in T
  <2>5. PICK i \in Nat, m \in Msgs : u = <<i, m>>
    BY <1>2
  <2>1. i \in 2..Len(q) /\ m \in q[i].msgs
    BY <1>4, <2>5
  <2>2. i - 1 \in 1..Len(q) - 1 /\ i - 1 + 1 = i
    BY <1>1, <2>1
  <2>3. <<i - 1, m>> \in S
    BY <1>3, <2>1, <2>2
  <2>4. f[<<i - 1, m>>] = u
    BY <2>2, <2>3, <2>5
  <2>6. QED
    BY <2>3, <2>4
<1>8. IsFiniteSet(S)
  BY <1>1, LoadContents
<1> HIDE DEF f, S, T
<1>9. IsFiniteSet(T) /\ Cardinality(T) = Cardinality(S)
  BY <1>5, <1>6, <1>7, <1>8, CountBijection
<1>10. Contents(q) = T \cup ({1} \X b.msgs) /\ T \cap ({1} \X b.msgs) = {}
  <2>1. {1} \X b.msgs \subseteq Contents(q)
    <3>1. 1 \in 1..Len(q)
      BY <1>1
    <3>2. \A m \in b.msgs : <<1, m>> \in Contents(q)
      BY <1>1, <3>1, LoadContents
    <3>3. QED
      BY <3>2
  <2>2. QED
    BY <2>1 DEF T
<1>11. IsFiniteSet(b.msgs)
  BY <1>1 DEF FBuffers
<1>12. IsFiniteSet({1} \X b.msgs) /\ Cardinality({1} \X b.msgs) = Cardinality(b.msgs)
  BY <1>11, Slice
<1>13. /\ Cardinality(Contents(q)) = Cardinality(S) + Cardinality(b.msgs)
       /\ Cardinality(S) \in Nat /\ Cardinality(b.msgs) \in Nat
  BY <1>9, <1>10, <1>12, DisjointUnion
<1>14. Load(q) = Cardinality(Contents(q)) /\ Load(t) = Cardinality(S)
  BY <1>1, LoadContents DEF S
<1>15. QED
  BY <1>1, <1>13, <1>14 DEF t, b

\* check_completed_sends leaves a queue of buffers.
LEMMA LoadSuffix ==
  ASSUME NEW q \in Seq(FBuffers), NEW inFlight, NEW left \in Completed(q, inFlight)
  PROVE  left \in Seq(FBuffers) /\ Load(left) \in Nat /\ Load(q) \in Nat
<1>1. PICK k \in 0..Len(q) : left = SubSeq(q, k + 1, Len(q))
  BY DEF Completed
<1>2. Len(q) \in Nat /\ \A i \in k + 1..Len(q) : q[i] \in FBuffers
  BY LenProperties, ElementOfSeq
<1>3. left \in Seq(FBuffers)
  BY <1>1, <1>2, SubSeqProperties
<1>4. QED
  BY <1>3, LoadContents
-----------------------------------------------------------------------------
(***************************************************************************)
(* The shape of a stack of calls. A frame may only sit on certain others,  *)
(* which is what makes process_receive_queue run once, a receive always be *)
(* posted, and a round of flush_all that did nothing mean that nothing is  *)
(* left.                                                                   *)
(***************************************************************************)
\* A frame that may have something on top of it: process_receive_queue only
\* once it has received, a round of flush_all only once it did something or
\* before it looks.
Ready(f) ==
  /\ f.op = "prq" => f.got /\ f.phase = "test"
  /\ f.op = "flushall" => f.did \/ f.phase \in {"poll", "hooks"}

\* What f may be called from. process_receive_queue is the one call that a
\* round of flush_all which has done nothing yet makes, too.
SitsOn(f, g) ==
  /\ f.op # "prq" => Ready(g)
  /\ f.op = "user" => g.op = IF f.msg = None THEN "flushall" ELSE "recv"
  /\ f.op = "halt" => g.op = "user" \/ (f.msg = None /\ g.op = "bcast")
  /\ f.op \in {"bcast", "reduce"} => g.op = "user"
  /\ f.op = "cap" => g.op \in {"user", "recv", "prq", "flushall"}
  /\ f.op = "next" => g.op \in {"user", "next"}
  /\ f.op = "prq" => g.op \in {"user", "halt", "cap", "next", "flushall"}
  /\ f.op = "recv" => g.op \in {"prq", "flushall"}
  /\ f.op = "flushall" => g.op = "reduce"

\* The application is at the bottom; a barrier is called by nothing else.
StackShape(s) ==
  /\ s # <<>>
  /\ s[Len(s)].op = "user" /\ s[Len(s)].msg = None
  /\ \A i \in 1..Len(s) - 1 : SitsOn(s[i], s[i + 1])
  /\ \A i \in 1..Len(s) : s[i].op = "reduce" => i = Len(s) - 1

\* m_in_process_receive_queue tells whether process_receive_queue is on the
\* stack; it is there at most once.
PrqFlag(s, in) ==
  /\ \A i, j \in 1..Len(s) : s[i].op = "prq" /\ s[j].op = "prq" => i = j
  /\ in <=> \E i \in 1..Len(s) : s[i].op = "prq"

\* Calls that can be on top of user code under a mask: they receive nothing.
Quiet == {"halt", "bcast", "cap", "next"}

\* Under a mask interrupts are off, and no handler is on top. (Where masks
\* nest the code does not keep this: a destructor enables interrupts.)
MaskQuiet(s, en) ==
  MaxMasks <= 1 =>
    \A i \in 1..Len(s) : s[i].op = "user" /\ s[i].masks > 0 =>
      ~en /\ \A j \in 1..i - 1 : s[j].op \in Quiet

\* What is true of a stack s and the flags of its rank.
Good(s, in, en) ==
  s \in Seq(FrameTypes) /\ StackShape(s) /\ PrqFlag(s, in) /\ MaskQuiet(s, en)

\* A call other than process_receive_queue and a barrier.
LEMMA PushFrame ==
  ASSUME NEW s, NEW in \in BOOLEAN, NEW en \in BOOLEAN, Good(s, in, en),
         NEW f \in FrameTypes, SitsOn(f, s[1]), f.op \notin {"prq", "reduce"},
         f.op \in Quiet \/ (s[1].op \notin Quiet /\ (s[1].op = "user" => s[1].masks = 0)),
         f.op = "user" => f.masks = 0
  PROVE  Good(<<f>> \o s, in, en)
<1> DEFINE t == <<f>> \o s
<1>1. s \in Seq(FrameTypes) /\ s # <<>> /\ Len(s) \in Nat \ {0}
  BY HeadTail DEF Good, StackShape
<1>2. /\ t \in Seq(FrameTypes) /\ t # <<>> /\ Len(t) = Len(s) + 1 /\ t[1] = f
      /\ \A i \in 2..Len(s) + 1 : t[i] = s[i - 1]
  BY <1>1, Cons
<1> HIDE DEF t
<1>3. StackShape(t)
  <2>1. t[Len(t)] = s[Len(s)]
    BY <1>1, <1>2
  <2>2. ASSUME NEW i \in 1..Len(t) - 1 PROVE SitsOn(t[i], t[i + 1])
    <3>1. CASE i = 1
      BY <3>1, <1>1, <1>2
    <3>2. CASE i # 1
      <4>1. i - 1 \in 1..Len(s) - 1 /\ t[i] = s[i - 1] /\ t[i + 1] = s[i - 1 + 1]
        BY <3>2, <1>1, <1>2
      <4>2. QED
        BY <4>1 DEF Good, StackShape
    <3>3. QED
      BY <3>1, <3>2
  <2>3. ASSUME NEW i \in 1..Len(t), t[i].op = "reduce" PROVE i = Len(t) - 1
    <3>1. i # 1 /\ i - 1 \in 1..Len(s) /\ t[i] = s[i - 1]
      BY <2>3, <1>1, <1>2
    <3>2. i - 1 = Len(s) - 1
      BY <2>3, <3>1 DEF Good, StackShape
    <3>3. QED
      BY <3>2, <1>1, <1>2
  <2>4. QED
    BY <1>2, <2>1, <2>2, <2>3 DEF StackShape, Good
<1>4. PrqFlag(t, in)
  <2>1. \A i \in 1..Len(t) : t[i].op = "prq" => i - 1 \in 1..Len(s) /\ t[i] = s[i - 1]
    BY <1>1, <1>2
  <2>2. \A i \in 1..Len(s) : i + 1 \in 1..Len(t) /\ t[i + 1] = s[i]
    BY <1>1, <1>2
  <2>3. ASSUME NEW i \in 1..Len(t), NEW j \in 1..Len(t), t[i].op = "prq", t[j].op = "prq"
        PROVE  i = j
    <3>1. i - 1 = j - 1
      BY <2>1, <2>3 DEF Good, PrqFlag
    <3>2. QED
      BY <3>1
  <2>4. in <=> \E i \in 1..Len(t) : t[i].op = "prq"
    BY <2>1, <2>2 DEF Good, PrqFlag
  <2>5. QED
    BY <2>3, <2>4 DEF PrqFlag
<1>5. MaskQuiet(t, en)
  <2> SUFFICES ASSUME MaxMasks <= 1, NEW i \in 1..Len(t), t[i].op = "user", t[i].masks > 0
               PROVE  ~en /\ \A j \in 1..i - 1 : t[j].op \in Quiet
    BY DEF MaskQuiet
  <2>1. i # 1 /\ i - 1 \in 1..Len(s) /\ t[i] = s[i - 1]
    BY <1>1, <1>2
  <2>2. ~en /\ \A j \in 1..i - 2 : s[j].op \in Quiet
    BY <2>1 DEF Good, MaskQuiet
  <2>3. f.op \in Quiet
    <3>1. CASE i = 2
      BY <3>1, <2>1
    <3>2. CASE i # 2
      BY <3>2, <2>1, <2>2
    <3>3. QED
      BY <3>1, <3>2
  <2>4. ASSUME NEW j \in 1..i - 1 PROVE t[j].op \in Quiet
    <3>1. CASE j = 1
      BY <3>1, <2>3, <1>2
    <3>2. CASE j # 1
      <4>1. j - 1 \in 1..i - 2 /\ t[j] = s[j - 1]
        BY <3>2, <2>1, <1>1, <1>2
      <4>2. QED
        BY <4>1, <2>2
    <3>3. QED
      BY <3>1, <3>2
  <2>5. QED
    BY <2>2, <2>4
<1>6. QED
  BY <1>2, <1>3, <1>4, <1>5 DEF Good, t

\* process_receive_queue is entered when it does not run and interrupts are
\* enabled, so never under a mask.
LEMMA PushPrq ==
  ASSUME NEW s, Good(s, FALSE, TRUE), NEW f \in FrameTypes, f.op = "prq", SitsOn(f, s[1])
  PROVE  Good(<<f>> \o s, TRUE, TRUE)
<1> DEFINE t == <<f>> \o s
<1>1. s \in Seq(FrameTypes) /\ s # <<>> /\ Len(s) \in Nat \ {0}
  BY HeadTail DEF Good, StackShape
<1>2. /\ t \in Seq(FrameTypes) /\ t # <<>> /\ Len(t) = Len(s) + 1 /\ t[1] = f
      /\ \A i \in 2..Len(s) + 1 : t[i] = s[i - 1]
  BY <1>1, Cons
<1> HIDE DEF t
<1>3. \A i \in 1..Len(t) : i = 1 \/ (i - 1 \in 1..Len(s) /\ t[i] = s[i - 1])
  BY <1>1, <1>2
<1>4. StackShape(t)
  <2>1. t[Len(t)] = s[Len(s)]
    BY <1>1, <1>2
  <2>2. ASSUME NEW i \in 1..Len(t) - 1 PROVE SitsOn(t[i], t[i + 1])
    <3>1. CASE i = 1
      BY <3>1, <1>1, <1>2
    <3>2. CASE i # 1
      <4>1. i - 1 \in 1..Len(s) - 1 /\ t[i] = s[i - 1] /\ t[i + 1] = s[i - 1 + 1]
        BY <3>2, <1>1, <1>2
      <4>2. QED
        BY <4>1 DEF Good, StackShape
    <3>3. QED
      BY <3>1, <3>2
  <2>3. ASSUME NEW i \in 1..Len(t), t[i].op = "reduce" PROVE i = Len(t) - 1
    <3>1. i - 1 \in 1..Len(s) /\ t[i] = s[i - 1]
      BY <2>3, <1>2, <1>3
    <3>2. i - 1 = Len(s) - 1
      BY <2>3, <3>1 DEF Good, StackShape
    <3>3. QED
      BY <3>2, <1>1, <1>2
  <2>4. QED
    BY <1>2, <2>1, <2>2, <2>3 DEF StackShape, Good
<1>5. PrqFlag(t, TRUE)
  <2>1. \A i \in 1..Len(s) : s[i].op # "prq"
    BY DEF Good, PrqFlag
  <2>2. \A i \in 1..Len(t) : t[i].op = "prq" => i = 1
    BY <2>1, <1>3
  <2>3. 1 \in 1..Len(t)
    BY <1>1, <1>2
  <2>4. QED
    BY <2>2, <2>3, <1>2 DEF PrqFlag
<1>6. MaskQuiet(t, TRUE)
  <2>1. MaxMasks <= 1 => \A i \in 1..Len(s) : ~(s[i].op = "user" /\ s[i].masks > 0)
    BY DEF Good, MaskQuiet
  <2>2. QED
    BY <2>1, <1>2, <1>3 DEF MaskQuiet
<1>7. QED
  BY <1>2, <1>4, <1>5, <1>6 DEF Good, t

\* A call returns.
LEMMA DropFrame ==
  ASSUME NEW s, NEW in \in BOOLEAN, NEW en \in BOOLEAN, Good(s, in, en), Len(s) > 1
  PROVE  /\ Good(Tail(s), IF s[1].op = "prq" THEN FALSE ELSE in, en)
         /\ s[1].op = "prq" => in
         /\ SitsOn(s[1], Tail(s)[1])
<1> DEFINE t == Tail(s)
<1>1. s \in Seq(FrameTypes) /\ s # <<>> /\ Len(s) \in Nat \ {0}
  BY HeadTail DEF Good, StackShape
<1>2. /\ t \in Seq(FrameTypes) /\ Len(t) = Len(s) - 1
      /\ \A i \in 1..Len(s) - 1 : t[i] = s[i + 1]
  BY <1>1, HeadTail
<1> HIDE DEF t
<1>3. t # <<>>
  BY <1>2, <1>1, EmptySeq
<1>4. StackShape(t)
  <2>1. t[Len(t)] = s[Len(s)]
    BY <1>1, <1>2
  <2>2. ASSUME NEW i \in 1..Len(t) - 1 PROVE SitsOn(t[i], t[i + 1])
    <3>1. i + 1 \in 1..Len(s) - 1 /\ t[i] = s[i + 1] /\ t[i + 1] = s[i + 1 + 1]
      BY <1>1, <1>2
    <3>2. QED
      BY <3>1 DEF Good, StackShape
  <2>3. ASSUME NEW i \in 1..Len(t), t[i].op = "reduce" PROVE i = Len(t) - 1
    <3>1. i + 1 \in 1..Len(s) /\ t[i] = s[i + 1]
      BY <1>1, <1>2
    <3>2. i + 1 = Len(s) - 1
      BY <2>3, <3>1 DEF Good, StackShape
    <3>3. QED
      BY <3>2, <1>1, <1>2
  <2>4. QED
    BY <1>3, <2>1, <2>2, <2>3 DEF StackShape, Good
<1>5. PrqFlag(t, IF s[1].op = "prq" THEN FALSE ELSE in)
  <2>1. \A i \in 1..Len(t) : i + 1 \in 1..Len(s) /\ t[i] = s[i + 1]
    BY <1>1, <1>2
  <2>2. 1 \in 1..Len(s)
    BY <1>1
  <2>3. CASE s[1].op = "prq"
    <3>1. \A i \in 1..Len(t) : t[i].op # "prq"
      <4> SUFFICES ASSUME NEW i \in 1..Len(t), t[i].op = "prq" PROVE FALSE
        OBVIOUS
      <4>1. i + 1 = 1
        BY <2>1, <2>2, <2>3 DEF Good, PrqFlag
      <4>2. QED
        BY <4>1
    <3>2. QED
      BY <3>1, <2>3 DEF PrqFlag
  <2>4. CASE s[1].op # "prq"
    <3>1. \A i \in 1..Len(s) : s[i].op = "prq" => i - 1 \in 1..Len(t) /\ t[i - 1] = s[i]
      <4> SUFFICES ASSUME NEW i \in 1..Len(s), s[i].op = "prq"
                   PROVE  i - 1 \in 1..Len(t) /\ t[i - 1] = s[i]
        OBVIOUS
      <4>1. i # 1 /\ i - 1 \in 1..Len(s) - 1
        BY <2>4
      <4>2. QED
        BY <4>1, <1>1, <1>2
    <3>2. ASSUME NEW i \in 1..Len(t), NEW j \in 1..Len(t), t[i].op = "prq", t[j].op = "prq"
          PROVE  i = j
      <4>1. i + 1 = j + 1
        BY <2>1, <3>2 DEF Good, PrqFlag
      <4>2. QED
        BY <4>1
    <3>3. in <=> \E i \in 1..Len(t) : t[i].op = "prq"
      BY <2>1, <3>1 DEF Good, PrqFlag
    <3>4. QED
      BY <2>4, <3>2, <3>3 DEF PrqFlag
  <2>5. QED
    BY <2>3, <2>4
<1>6. MaskQuiet(t, en)
  <2> SUFFICES ASSUME MaxMasks <= 1, NEW i \in 1..Len(t), t[i].op = "user", t[i].masks > 0
               PROVE  ~en /\ \A j \in 1..i - 1 : t[j].op \in Quiet
    BY DEF MaskQuiet
  <2>1. i + 1 \in 1..Len(s) /\ t[i] = s[i + 1]
    BY <1>1, <1>2
  <2>2. ~en /\ \A j \in 1..i : s[j].op \in Quiet
    BY <2>1 DEF Good, MaskQuiet
  <2>3. ASSUME NEW j \in 1..i - 1 PROVE t[j].op \in Quiet
    <3>1. j + 1 \in 1..i /\ t[j] = s[j + 1]
      BY <1>1, <1>2
    <3>2. QED
      BY <3>1, <2>2
  <2>4. QED
    BY <2>2, <2>3
<1>7. s[1].op = "prq" => in
  BY <1>1 DEF Good, PrqFlag
<1>8. SitsOn(s[1], t[1])
  <2>1. 1 \in 1..Len(s) - 1 /\ t[1] = s[1 + 1]
    BY <1>1, <1>2
  <2>2. QED
    BY <2>1 DEF Good, StackShape
<1>9. QED
  BY <1>2, <1>4, <1>5, <1>6, <1>7, <1>8 DEF Good, t

\* The call on top goes on.
LEMMA SwapTop ==
  ASSUME NEW s, NEW in \in BOOLEAN, NEW en \in BOOLEAN, NEW en2 \in BOOLEAN, Good(s, in, en),
         NEW f \in FrameTypes, f.op = s[1].op,
         f.op = "user" /\ MaxMasks <= 1 /\ f.masks > 0 => ~en2,
         f.op \in {"user", "halt"} => f.msg = s[1].msg,
         f.op # "user" => en2 = en
  PROVE  Good(<<f>> \o Tail(s), in, en2)
<1> DEFINE t == <<f>> \o Tail(s)
<1>1. s \in Seq(FrameTypes) /\ s # <<>> /\ Len(s) \in Nat \ {0}
  BY HeadTail DEF Good, StackShape
<1>2. /\ t \in Seq(FrameTypes) /\ t # <<>> /\ Len(t) = Len(s) /\ t[1] = f
      /\ \A i \in 2..Len(s) : t[i] = s[i]
  <2> DEFINE u == Tail(s)
  <2>1. /\ u \in Seq(FrameTypes) /\ Len(u) = Len(s) - 1 /\ \A i \in 1..Len(s) - 1 : u[i] = s[i + 1]
    BY <1>1, HeadTail
  <2> HIDE DEF u
  <2>2. /\ t \in Seq(FrameTypes) /\ t # <<>> /\ Len(t) = Len(u) + 1 /\ t[1] = f
        /\ \A i \in 2..Len(u) + 1 : t[i] = u[i - 1]
    BY <2>1, Cons DEF u
  <2> HIDE DEF t
  <2>3. ASSUME NEW i \in 2..Len(s) PROVE t[i] = s[i]
    <3>1. i - 1 \in 1..Len(s) - 1 /\ t[i] = u[i - 1] /\ u[i - 1] = s[i - 1 + 1]
      BY <2>1, <2>2, <1>1
    <3>2. QED
      BY <3>1
  <2>4. QED
    BY <2>1, <2>2, <2>3, <1>1
<1> HIDE DEF t
<1>3. \A i \in 1..Len(s) : t[i].op = s[i].op /\ (i # 1 => t[i] = s[i])
  BY <1>1, <1>2
<1>4. StackShape(t)
  <2>1. t[Len(t)].op = "user" /\ t[Len(t)].msg = None
    BY <1>1, <1>2 DEF Good, StackShape
  <2>2. ASSUME NEW i \in 1..Len(t) - 1 PROVE SitsOn(t[i], t[i + 1])
    <3>1. i \in 1..Len(s) - 1 /\ SitsOn(s[i], s[i + 1]) /\ t[i + 1] = s[i + 1]
      BY <1>1, <1>2 DEF Good, StackShape
    <3>2. CASE i = 1
      BY <3>1, <3>2, <1>2 DEF SitsOn
    <3>3. CASE i # 1
      BY <3>1, <3>3, <1>3
    <3>4. QED
      BY <3>2, <3>3
  <2>3. \A i \in 1..Len(t) : t[i].op = "reduce" => i = Len(t) - 1
    BY <1>2, <1>3 DEF Good, StackShape
  <2>4. QED
    BY <1>2, <2>1, <2>2, <2>3 DEF StackShape
<1>5. PrqFlag(t, in)
  BY <1>2, <1>3 DEF Good, PrqFlag
<1>6. MaskQuiet(t, en2)
  <2> SUFFICES ASSUME MaxMasks <= 1, NEW i \in 1..Len(t), t[i].op = "user", t[i].masks > 0
               PROVE  ~en2 /\ \A j \in 1..i - 1 : t[j].op \in Quiet
    BY DEF MaskQuiet
  <2>1. CASE i = 1
    BY <2>1, <1>2
  <2>2. CASE i # 1
    <3>1. ~en /\ \A j \in 1..i - 1 : s[j].op \in Quiet
      BY <2>2, <1>2, <1>3 DEF Good, MaskQuiet
    <3>2. 1 \in 1..i - 1 /\ s[1].op \in Quiet
      BY <2>2, <3>1
    <3>3. en2 = en
      BY <3>2 DEF Quiet
    <3>4. \A j \in 1..i - 1 : t[j].op = s[j].op
      BY <1>2, <1>3
    <3>5. QED
      BY <3>1, <3>3, <3>4
  <2>3. QED
    BY <2>1, <2>2
<1>7. QED
  BY <1>2, <1>4, <1>5, <1>6 DEF Good, t

\* The application calls barrier().
LEMMA PushReduce ==
  ASSUME NEW s, NEW in \in BOOLEAN, NEW en \in BOOLEAN, Good(s, in, en),
         Len(s) = 1, s[1].op = "user", s[1].masks = 0
  PROVE  Good(<<FlushAll, Reduce>> \o s, in, en)
<1> DEFINE t == <<Reduce>> \o s
<1>1. s \in Seq(FrameTypes) /\ s # <<>>
  BY DEF Good, StackShape
<1>2. Reduce \in FrameTypes /\ Reduce.op = "reduce" /\ FlushAll \in FrameTypes /\ FlushAll.op = "flushall"
  BY NewFrames
<1>3. t \in Seq(FrameTypes) /\ t # <<>> /\ Len(t) = 2 /\ t[1] = Reduce /\ t[2] = s[1]
  <2>1. /\ t \in Seq(FrameTypes) /\ t # <<>> /\ Len(t) = Len(s) + 1 /\ t[1] = Reduce
        /\ \A i \in 2..Len(s) + 1 : t[i] = s[i - 1]
    BY <1>1, <1>2, Cons
  <2>2. QED
    BY <2>1
<1> HIDE DEF t
<1>4. StackShape(t)
  <2>1. t[Len(t)].op = "user" /\ t[Len(t)].msg = None
    BY <1>3 DEF Good, StackShape
  <2>2. SitsOn(t[1], t[2])
    BY <1>3, <1>2 DEF SitsOn, Ready
  <2>3. QED
    BY <1>3, <1>2, <2>1, <2>2 DEF StackShape
<1>5. PrqFlag(t, in)
  BY <1>2, <1>3 DEF Good, PrqFlag
<1>6. MaskQuiet(t, en)
  BY <1>2, <1>3 DEF MaskQuiet
<1>7. Good(t, in, en)
  BY <1>3, <1>4, <1>5, <1>6 DEF Good
<1>8. Good(<<FlushAll>> \o t, in, en)
  BY <1>2, <1>3, <1>7, PushFrame DEF SitsOn, Ready, Quiet
<1>9. QED
  BY <1>1, <1>2, <1>8, TwoCons DEF t

-----------------------------------------------------------------------------
(***************************************************************************)
(* Steps of a rank keep the shape.                                         *)
(***************************************************************************)
\* Types of what the stack lemmas are about.
StackFuns ==
  /\ stack \in [Ranks -> Seq(FrameTypes)]
  /\ inPrq \in [Ranks -> BOOLEAN]
  /\ enabled \in [Ranks -> BOOLEAN]

\* The same, and of the send queues, which process_receive_queue looks at.
StackTypes == StackFuns /\ sendq \in [Ranks -> Seq(FBuffers)]

\* What a round of flush_all has found empty when it comes to a phase.
CleanAt(r, phase) ==
  /\ hooks[r] = 0
  /\ phase \in {"remote", "isends"} => localq[r] = <<>>
  /\ phase = "isends" => remoteq[r] = <<>>

\* A round that did nothing so far found everything it has passed empty, and
\* it still is: in between the rank has run no handler. So it is when the
\* round ends, at barrier_reduce_counts. It waits for a send only if one is open.
Calm(r) ==
  LET s == stack[r]
  IN  /\ s[1].op = "flushall" /\ ~Ready(s[1]) => CleanAt(r, s[1].phase)
      /\ s[1].op = "prq" /\ ~Ready(s[1]) /\ s[2].op = "flushall" /\ ~Ready(s[2]) =>
           CleanAt(r, s[2].phase)
      /\ s[1].op = "reduce" => CleanAt(r, "isends") /\ sendq[r] = <<>>
      /\ s[1].op = "prq" /\ s[1].phase = "wait" => sendq[r] # <<>>

\* The invariant of the stacks.
StackInv == \A r \in Ranks : Good(stack[r], inPrq[r], enabled[r]) /\ Calm(r)

\* What a step of r does to the stacks and flags.
StackStep(r) ==
  /\ StackFuns'
  /\ Good(stack'[r], inPrq'[r], enabled'[r])
  /\ Calm(r)'
  /\ \A x \in Ranks \ {r} : stack'[x] = stack[x] /\ inPrq'[x] = inPrq[x] /\ enabled'[x] = enabled[x]

\* What calls process_receive_queue.
PrqRests == {"user", "halt", "cap", "next", "flushall"}

\* A step that only changes the stack.
LEMMA SetStackStep ==
  ASSUME StackTypes, NEW r \in Ranks, NEW s, SetStack(r, s), UNCHANGED flagVars,
         Good(s, inPrq[r], enabled[r]), (Ready(s[1]) /\ s[1].op # "reduce") \/ Calm(r)'
  PROVE  StackStep(r)
<1>1. s \in Seq(FrameTypes)
  BY DEF Good
<1>2. stack' = [stack EXCEPT ![r] = s] /\ inPrq' = inPrq /\ enabled' = enabled
  BY DEF SetStack, flagVars
<1>3. StackFuns' /\ stack'[r] = s /\ \A x \in Ranks \ {r} : stack'[x] = stack[x]
  BY <1>1, <1>2 DEF StackFuns, StackTypes
<1>4. Calm(r)'
  BY <1>3 DEF Calm, Ready
<1>5. QED
  BY <1>2, <1>3, <1>4 DEF StackStep

\* A step that pushes a call.
LEMMA PushStep ==
  ASSUME StackTypes, NEW r \in Ranks, NEW f \in FrameTypes, NEW s \in Seq(FrameTypes),
         SetStack(r, <<f>> \o s), UNCHANGED flagVars,
         Good(<<f>> \o s, inPrq[r], enabled[r]), Ready(f), f.op # "reduce"
  PROVE  StackStep(r)
<1>1. (<<f>> \o s)[1] = f
  BY Cons
<1>2. QED
  BY <1>1, SetStackStep

\* A call of process_receive_queue, whether it is entered or returns at once.
LEMMA CallPrqStack ==
  ASSUME StackTypes, NEW r \in Ranks, NEW q, NEW p, NEW inFlight, NEW rest,
         Good(rest, inPrq[r], enabled[r]), ~inPrq[r], rest[1].op \in PrqRests,
         Ready(rest[1]) \/ (CleanAt(r, rest[1].phase) /\ UNCHANGED <<hooks, localq, remoteq>>),
         CallPrq(r, q, p, inFlight, rest)
  PROVE  StackStep(r)
<1>1. CASE ~enabled[r]
  <2>1. SetStack(r, rest) /\ UNCHANGED flagVars
    BY <1>1 DEF CallPrq, MayInterrupt
  <2>2. stack'[r] = rest
    BY <2>1 DEF SetStack, StackFuns, StackTypes
  <2>3. Calm(r)'
    BY <2>2 DEF Calm, CleanAt, PrqRests, Ready
  <2>4. QED
    BY <2>1, <2>3, SetStackStep
<1>2. CASE enabled[r]
  <2>1. /\ inPrq' = [inPrq EXCEPT ![r] = TRUE] /\ enabled' = enabled
        /\ \E f \in {"wait", "test"} : SetStack(r, <<Prq(f)>> \o rest) /\ (f = "wait" => sendq'[r] # <<>>)
    <3>1. CASE Len(q) > NumIsendsWait
      <4>1. sendq'[r] = q /\ SetStack(r, <<Prq("wait")>> \o rest)
        BY <1>2, <3>1 DEF CallPrq, MayInterrupt, StackTypes
      <4>2. q # <<>>
        BY <3>1, CommAssumption
      <4>3. QED
        BY <1>2, <4>1, <4>2 DEF CallPrq, MayInterrupt
    <3>2. CASE ~(Len(q) > NumIsendsWait)
      BY <1>2, <3>2 DEF CallPrq, MayInterrupt
    <3>3. QED
      BY <3>1, <3>2
  <2>2. PICK f \in {"wait", "test"} : SetStack(r, <<Prq(f)>> \o rest) /\ (f = "wait" => sendq'[r] # <<>>)
    BY <2>1
  <2>3. Prq(f) \in FrameTypes /\ Prq(f).op = "prq" /\ Prq(f).phase = f
    BY NewFrames
  <2>4. SitsOn(Prq(f), rest[1])
    BY <2>3 DEF SitsOn, PrqRests
  <2>5. inPrq[r] = FALSE /\ enabled[r] = TRUE
    BY <1>2 DEF StackFuns, StackTypes
  <2>6. Good(<<Prq(f)>> \o rest, TRUE, TRUE)
    BY <2>3, <2>4, <2>5, PushPrq
  <2>7. <<Prq(f)>> \o rest \in Seq(FrameTypes)
    BY <2>6 DEF Good
  <2>8. StackFuns' /\ stack'[r] = <<Prq(f)>> \o rest /\ inPrq'[r] = TRUE /\ enabled'[r] = TRUE
    BY <2>1, <2>2, <2>5, <2>7 DEF StackFuns, StackTypes, SetStack
  <2>9. \A x \in Ranks \ {r} : stack'[x] = stack[x] /\ inPrq'[x] = inPrq[x] /\ enabled'[x] = enabled[x]
    BY <2>1, <2>2 DEF StackFuns, StackTypes, SetStack
  <2>10. Calm(r)'
    <3>1. rest \in Seq(FrameTypes) /\ Len(rest) \in Nat \ {0}
      BY HeadTail DEF Good, StackShape
    <3>2. 2 \in 2..Len(rest) + 1
      BY <3>1
    <3>3. stack'[r][1] = Prq(f) /\ stack'[r][2] = rest[2 - 1]
      BY <2>3, <2>8, <3>1, <3>2, Cons
    <3>4. QED
      BY <2>2, <2>3, <3>3 DEF Calm, CleanAt
  <2>11. QED
    BY <2>6, <2>8, <2>9, <2>10 DEF StackStep
<1>3. QED
  BY <1>1, <1>2

\* flush_next_send, and the process_receive_queue in it.
LEMMA FlushNextStack ==
  ASSUME StackTypes, NEW r \in Ranks, NEW near, NEW rest,
         Good(rest, inPrq[r], enabled[r]), rest[1].op \in PrqRests, Ready(rest[1]),
         FlushNext(r, near, rest)
  PROVE  StackStep(r)
<1>1. CASE inPrq[r]
  <2>1. SetStack(r, rest) /\ UNCHANGED flagVars
    BY <1>1 DEF FlushNext, FlushBuffer
  <2>2. QED
    BY <2>1, SetStackStep DEF PrqRests
<1>2. CASE ~inPrq[r]
  <2>1. PICK q, p : CallPrq(r, q, p, wire', rest)
    BY <1>2 DEF FlushNext, FlushBuffer
  <2>2. QED
    BY <1>2, <2>1, CallPrqStack
<1>3. QED
  BY <1>1, <1>2

\* flush_to_capacity.
LEMMA CallCapStack ==
  ASSUME StackTypes, NEW r \in Ranks, NEW local, NEW remote, NEW rest,
         Good(rest, inPrq[r], enabled[r]), rest[1].op \in {"user", "recv", "prq", "flushall"},
         Ready(rest[1]), CallCap(r, local, remote, rest), UNCHANGED flagVars
  PROVE  StackStep(r)
<1>1. Cap("local") \in FrameTypes /\ Cap("local").op = "cap"
  BY NewFrames
<1>2. SitsOn(Cap("local"), rest[1])
  BY <1>1 DEF SitsOn, Ready
<1>3. Good(<<Cap("local")>> \o rest, inPrq[r], enabled[r])
  BY <1>1, <1>2, PushFrame DEF StackFuns, StackTypes, Quiet
<1>4. (<<Cap("local")>> \o rest)[1] = Cap("local")
  BY <1>1, Cons DEF Good
<1>5. SetStack(r, <<Cap("local")>> \o rest) \/ SetStack(r, rest)
  BY DEF CallCap
<1>6. Ready(Cap("local"))
  BY <1>1 DEF Ready
<1>7. CASE SetStack(r, rest)
  BY <1>7, SetStackStep
<1>8. CASE SetStack(r, <<Cap("local")>> \o rest)
  BY <1>1, <1>3, <1>4, <1>6, <1>8, SetStackStep
<1>9. QED
  BY <1>5, <1>7, <1>8

\* Packing a message, and flush_to_capacity.
LEMMA PackAndCapStack ==
  ASSUME StackTypes, NEW r \in Ranks, NEW m, NEW d, NEW rest,
         Good(rest, inPrq[r], enabled[r]), rest[1].op \in {"user", "recv", "prq", "flushall"},
         Ready(rest[1]), PackAndCap(r, m, d, rest), UNCHANGED flagVars
  PROVE  StackStep(r)
<1>1. PICK local, remote : CallCap(r, local, remote, rest)
  BY DEF PackAndCap
<1>2. QED
  BY <1>1, CallCapStack

\* What can be under the frame on top.
LEMMA TopFacts ==
  ASSUME NEW s, NEW in \in BOOLEAN, NEW en \in BOOLEAN, Good(s, in, en)
  PROVE  /\ s \in Seq(FrameTypes) /\ Len(s) \in Nat \ {0} /\ Head(s) = s[1] /\ s[1] \in FrameTypes
         /\ s[1].op # "user" => Len(s) > 1
         /\ Len(s) > 1 => Tail(s)[1] = s[2] /\ SitsOn(s[1], s[2])
         /\ Len(s) > 1 /\ s[1].op = "user" /\ s[1].msg = None => s[2].op = "flushall"
         /\ s[1].op = "flushall" => Len(s) = 3 /\ s[2].op = "reduce" /\ ~in
         /\ s[1].op = "reduce" => Len(s) = 2 /\ s[2].op = "user" /\ ~in
         /\ s[1].op = "prq" => in
<1>1. s \in Seq(FrameTypes) /\ s # <<>>
  BY DEF Good, StackShape
<1>2. Len(s) \in Nat \ {0} /\ Head(s) = s[1] /\ s[1] \in FrameTypes
  BY <1>1, HeadTail
<1>3. s[1].op # "user" => Len(s) > 1
  BY <1>2 DEF Good, StackShape
<1>4. Len(s) > 1 => Tail(s)[1] = s[2] /\ SitsOn(s[1], s[2])
  <2>1. ASSUME Len(s) > 1 PROVE Tail(s)[1] = s[1 + 1] /\ SitsOn(s[1], s[1 + 1])
    BY <1>1, <1>2, <2>1, HeadTail DEF Good, StackShape
  <2>2. QED
    BY <2>1
<1> DEFINE NoPrq == \A i \in 1..Len(s) : s[i].op # "prq"
<1>9. NoPrq => ~in
  BY DEF Good, PrqFlag
<1>10. \A i \in 1..Len(s) : s[i].op = "reduce" => i = Len(s) - 1
  BY DEF Good, StackShape
<1>5. ASSUME s[1].op = "reduce" PROVE Len(s) = 2 /\ s[2].op = "user" /\ ~in
  <2>1. 1 \in 1..Len(s)
    BY <1>2
  <2>2. 1 = Len(s) - 1
    BY <1>10, <1>5, <2>1
  <2>3. Len(s) = 2
    BY <2>2, <1>2
  <2>4. s[2].op = "user"
    BY <1>4, <1>5, <2>3 DEF SitsOn, Ready
  <2>5. NoPrq
    <3>1. \A i \in 1..Len(s) : i = 1 \/ i = 2
      BY <2>3
    <3>2. QED
      BY <3>1, <2>4, <1>5
  <2>6. QED
    BY <2>3, <2>4, <2>5, <1>9
<1>6. ASSUME s[1].op = "flushall" PROVE Len(s) = 3 /\ s[2].op = "reduce" /\ ~in
  <2>1. Len(s) > 1 /\ s[2].op = "reduce"
    BY <1>3, <1>4, <1>6 DEF SitsOn, Ready
  <2>2. 2 \in 1..Len(s)
    BY <2>1, <1>2
  <2>3. 2 = Len(s) - 1
    BY <1>10, <2>1, <2>2
  <2>4. Len(s) = 3
    BY <2>3, <1>2
  <2>5. s[3].op = "user"
    BY <2>4 DEF Good, StackShape
  <2>6. NoPrq
    <3>1. \A i \in 1..Len(s) : i = 1 \/ i = 2 \/ i = 3
      BY <2>4
    <3>2. QED
      BY <3>1, <2>1, <2>5, <1>6
  <2>7. QED
    BY <2>1, <2>4, <2>6, <1>9
<1>7. s[1].op = "prq" => in
  BY <1>2 DEF Good, PrqFlag
<1>8. QED
  BY <1>1, <1>2, <1>3, <1>4, <1>5, <1>6, <1>7 DEF SitsOn, Ready

\* A step that leaves stack and flags alone.
LEMMA NoStackStep ==
  ASSUME StackTypes, NEW r \in Ranks, Good(stack[r], inPrq[r], enabled[r]), Calm(r)',
         UNCHANGED stack, UNCHANGED flagVars
  PROVE  StackStep(r)
BY DEF StackFuns, StackFuns, StackTypes, StackStep, flagVars

\* Every step of user code keeps the invariant of the stacks.
LEMMA UserStack ==
  ASSUME StackTypes, NEW r \in Ranks, Good(stack[r], inPrq[r], enabled[r]), UserStep(r)
  PROVE  StackStep(r)
<1> DEFINE s == stack[r]
<1>1. inPrq[r] \in BOOLEAN /\ enabled[r] \in BOOLEAN
  BY DEF StackFuns, StackTypes
<1>2. /\ s \in Seq(FrameTypes) /\ Len(s) \in Nat \ {0} /\ Top(r) = s[1] /\ s[1] \in FrameTypes
      /\ Len(s) > 1 => Tail(s)[1] = s[2] /\ SitsOn(s[1], s[2])
  BY <1>1, TopFacts DEF Top
<1>3. InUser(r) => s[1].op = "user" /\ s[1].msg \in Msgs \cup {None} /\ s[1].masks \in 0..MaxMasks
  BY <1>2, FrameFields DEF InUser
<1>4. Good(s, inPrq[r], enabled[r])
  OBVIOUS
<1>0. InUser(r) /\ stack' = stack => Calm(r)'
  BY <1>3 DEF Calm
<1> HIDE DEF s
<1>5. ASSUME NEW m \in Msgs, NEW d \in Ranks, Async(r, m, d) PROVE StackStep(r)
  <2>1. Halt(m, d) \in FrameTypes /\ Halt(m, d).op = "halt"
    BY NewFrames
  <2>2. s[1].op = "user"
    BY <1>3, <1>5 DEF Async
  <2>3. CASE HaltNeeded(r)
    <3>1. Good(<<Halt(m, d)>> \o s, inPrq[r], enabled[r])
      BY <1>1, <1>4, <2>1, <2>2, PushFrame DEF SitsOn, Ready, Quiet
    <3>2. (<<Halt(m, d)>> \o s)[1] = Halt(m, d)
      BY <1>2, <2>1, Cons
    <3>3. CallPrq(r, sendq[r], pending[r], wire, <<Halt(m, d)>> \o s)
      BY <1>5, <2>3 DEF Async, s
    <3>4. Ready(Halt(m, d))
      BY <2>1 DEF Ready
    <3>5. QED
      BY <2>1, <2>3, <3>1, <3>2, <3>3, <3>4, CallPrqStack DEF HaltNeeded, PrqRests
  <2>4. CASE ~HaltNeeded(r)
    <3>1. PackAndCap(r, m, Hop[r][d], s) /\ UNCHANGED flagVars
      BY <1>5, <2>4 DEF Async, s
    <3>2. QED
      BY <1>4, <2>2, <3>1, PackAndCapStack DEF Ready
  <2>5. QED
    BY <2>3, <2>4
<1>6. ASSUME AsyncBcast(r) PROVE StackStep(r)
  <2>1. SetStack(r, <<Halt(None, r), Bcast(FALSE)>> \o s) /\ s[1].op = "user" /\ UNCHANGED flagVars
    BY <1>3, <1>6 DEF AsyncBcast, s
  <2>2. Halt(None, r) \in FrameTypes /\ Halt(None, r).op = "halt" /\ Halt(None, r).msg = None
        /\ Bcast(FALSE) \in FrameTypes /\ Bcast(FALSE).op = "bcast"
    BY NewFrames
  <2>3. Good(<<Bcast(FALSE)>> \o s, inPrq[r], enabled[r])
    BY <1>1, <1>4, <2>1, <2>2, PushFrame DEF SitsOn, Ready, Quiet
  <2>4. (<<Bcast(FALSE)>> \o s)[1] = Bcast(FALSE)
    BY <1>2, <2>2, Cons
  <2>5. Good(<<Halt(None, r)>> \o (<<Bcast(FALSE)>> \o s), inPrq[r], enabled[r])
    BY <1>1, <2>2, <2>3, <2>4, PushFrame DEF SitsOn, Ready, Quiet
  <2>6. <<Bcast(FALSE)>> \o s \in Seq(FrameTypes) /\ Ready(Halt(None, r))
    BY <2>2, <2>3 DEF Good, Ready
  <2>7. SetStack(r, <<Halt(None, r)>> \o (<<Bcast(FALSE)>> \o s))
    BY <1>2, <2>1, <2>2, TwoCons
  <2>8. QED
    BY <2>1, <2>2, <2>5, <2>6, <2>7, PushStep
<1>7. ASSUME NEW m \in Msgs, NEW d \in Ranks, ForwardBcast(r, m, d) PROVE StackStep(r)
  BY <1>0, <1>7, NoStackStep DEF ForwardBcast, QueueBytes
<1>8. ASSUME RegisterHook(r) PROVE StackStep(r)
  BY <1>0, <1>8, NoStackStep DEF RegisterHook
<1>9. ASSUME Mask(r) PROVE StackStep(r)
  <2> DEFINE f == [s[1] EXCEPT !.masks = s[1].masks + 1]
  <2>1. /\ enabled' = [enabled EXCEPT ![r] = FALSE] /\ inPrq' = inPrq
        /\ stack' = [stack EXCEPT ![r] = <<f>> \o Tail(s)]
    BY <1>2, <1>9 DEF Mask, SetStack, Below, s
  <2>2. s[1].op = "user" /\ s[1].masks + 1 \in 0..MaxMasks
    BY <1>2, <1>3, <1>9, CommAssumption DEF Mask
  <2>3. f \in FrameTypes /\ f.op = "user" /\ f.msg = s[1].msg
    BY <1>2, <2>2, MaskedFrame
  <2> HIDE DEF f
  <2>4. Good(<<f>> \o Tail(s), inPrq[r], FALSE)
    BY <1>1, <1>4, <2>2, <2>3, SwapTop
  <2>5. StackFuns' /\ stack'[r] = <<f>> \o Tail(s) /\ inPrq'[r] = inPrq[r] /\ enabled'[r] = FALSE
    BY <2>1, <2>4 DEF StackFuns, StackFuns, StackTypes, Good
  <2>6. \A x \in Ranks \ {r} : stack'[x] = stack[x] /\ inPrq'[x] = inPrq[x] /\ enabled'[x] = enabled[x]
    BY <2>1 DEF StackFuns, StackTypes
  <2>7. (<<f>> \o Tail(s))[1] = f
    BY <1>2, <2>3, Cons, HeadTail, EmptySeq
  <2>8. Calm(r)'
    BY <2>3, <2>5, <2>7 DEF Calm
  <2>9. QED
    BY <2>4, <2>5, <2>6, <2>8 DEF StackStep
<1>10. ASSUME Unmask(r) PROVE StackStep(r)
  <2> DEFINE f == [s[1] EXCEPT !.masks = s[1].masks - 1]
             t == <<f>> \o Tail(s)
             u == <<Halt(None, r)>> \o t
  <2>1. /\ enabled' = [enabled EXCEPT ![r] = TRUE] /\ inPrq' = inPrq
        /\ stack' = [stack EXCEPT ![r] = <<Halt(None, r), f>> \o Tail(s)]
    BY <1>2, <1>10 DEF Unmask, SetStack, Below, s
  <2>2. s[1].op = "user" /\ s[1].masks - 1 \in 0..MaxMasks /\ (MaxMasks <= 1 => s[1].masks - 1 = 0)
    BY <1>2, <1>3, <1>10, CommAssumption DEF Unmask
  <2>3. f \in FrameTypes /\ f.op = "user" /\ f.msg = s[1].msg /\ (MaxMasks <= 1 => f.masks = 0)
    BY <1>2, <2>2, MaskedFrame
  <2>4. Halt(None, r) \in FrameTypes /\ Halt(None, r).op = "halt"
    BY NewFrames
  <2> HIDE DEF f
  <2>5. Tail(s) \in Seq(FrameTypes)
    BY <1>2, HeadTail, EmptySeq
  <2>6. stack' = [stack EXCEPT ![r] = u]
    <3>1. <<Halt(None, r), f>> \o Tail(s) = u
      BY <2>3, <2>4, <2>5, TwoCons
    <3>2. QED
      BY <2>1, <3>1 DEF f
  <2>7. Good(t, inPrq[r], TRUE)
    <3>1. f.op = s[1].op /\ f.msg = s[1].msg /\ (MaxMasks <= 1 => ~(f.masks > 0)) /\ TRUE \in BOOLEAN
      BY <2>2, <2>3
    <3>2. QED
      BY <1>1, <1>4, <2>3, <3>1, SwapTop
  <2>8. t[1] = f /\ t \in Seq(FrameTypes)
    BY <2>3, <2>5, Cons
  <2> HIDE DEF t
  <2>9. Good(u, inPrq[r], TRUE)
    BY <1>1, <2>3, <2>4, <2>7, <2>8, PushFrame DEF SitsOn, Ready, Quiet
  <2>13. u[1] = Halt(None, r)
    BY <2>4, <2>8, Cons
  <2> HIDE DEF u
  <2>10. StackFuns' /\ stack'[r] = u /\ inPrq'[r] = inPrq[r] /\ enabled'[r] = TRUE
    BY <2>1, <2>6, <2>9 DEF StackFuns, StackFuns, StackTypes, Good
  <2>11. \A x \in Ranks \ {r} : stack'[x] = stack[x] /\ inPrq'[x] = inPrq[x] /\ enabled'[x] = enabled[x]
    BY <2>1 DEF StackFuns, StackTypes
  <2>12. Calm(r)'
    BY <2>4, <2>10, <2>13 DEF Calm
  <2>14. QED
    BY <2>9, <2>10, <2>11, <2>12 DEF StackStep
<1>11. ASSUME LocalProgress(r) PROVE StackStep(r)
  <2> DEFINE t == <<FlushOne(FALSE)>> \o s
             u == <<FlushOne(TRUE)>> \o t
  <2>1. /\ FlushOne(TRUE) \in FrameTypes /\ FlushOne(TRUE).op = "next"
        /\ FlushOne(FALSE) \in FrameTypes /\ FlushOne(FALSE).op = "next"
    BY NewFrames
  <2>2. s[1].op = "user" /\ <<FlushOne(TRUE), FlushOne(FALSE)>> \o s = u
    BY <1>2, <1>3, <1>11, <2>1, TwoCons DEF LocalProgress
  <2>3. Good(t, inPrq[r], enabled[r])
    BY <1>1, <1>4, <2>1, <2>2, PushFrame DEF SitsOn, Ready, Quiet
  <2>4. t \in Seq(FrameTypes) /\ t[1] = FlushOne(FALSE)
    <3> DEFINE b == FlushOne(FALSE)
    <3>1. s \in Seq(FrameTypes) /\ b \in FrameTypes
      BY <1>2, <2>1
    <3> HIDE DEF b
    <3>2. <<b>> \o s \in Seq(FrameTypes) /\ (<<b>> \o s)[1] = b
      BY <3>1, Cons
    <3>3. QED
      BY <3>2 DEF b
  <2> HIDE DEF t
  <2>5. Good(u, inPrq[r], enabled[r])
    BY <1>1, <2>1, <2>3, <2>4, PushFrame DEF SitsOn, Ready, Quiet
  <2>6. u[1] = FlushOne(TRUE)
    BY <2>1, <2>4, Cons
  <2>7. CASE inPrq[r]
    <3>1. SetStack(r, u) /\ UNCHANGED flagVars
      BY <1>11, <2>2, <2>7 DEF LocalProgress, s
    <3>2. QED
      BY <2>1, <2>5, <2>6, <3>1, SetStackStep DEF Ready
  <2>8. CASE ~inPrq[r]
    <3>1. CallPrq(r, sendq[r], pending[r], wire, u)
      BY <1>11, <2>2, <2>8 DEF LocalProgress, s
    <3>2. Ready(u[1])
      BY <2>1, <2>6 DEF Ready
    <3>3. QED
      BY <2>1, <2>5, <2>6, <2>8, <3>1, <3>2, CallPrqStack DEF PrqRests
  <2>9. QED
    BY <2>7, <2>8
<1>12. ASSUME Return(r) PROVE StackStep(r)
  <2>1. SetStack(r, Tail(s)) /\ UNCHANGED flagVars /\ Len(s) > 1 /\ s[1].op # "prq"
    BY <1>3, <1>12 DEF Return, Below, s
  <2>2. Good(Tail(s), inPrq[r], enabled[r])
    BY <1>1, <1>4, <2>1, DropFrame
  <2>3. Ready(Tail(s)[1]) /\ Tail(s)[1].op # "reduce"
    BY <1>2, <1>3, <1>12, <2>1 DEF SitsOn, Return
  <2>4. QED
    BY <2>1, <2>2, <2>3, SetStackStep
<1>13. ASSUME EnterBarrier(r) PROVE StackStep(r)
  <2>1. /\ SetStack(r, <<FlushAll, Reduce>> \o s) /\ UNCHANGED flagVars
        /\ Len(s) = 1 /\ s[1].op = "user" /\ s[1].masks = 0
    BY <1>2, <1>3, <1>13 DEF EnterBarrier, s
  <2>2. Good(<<FlushAll, Reduce>> \o s, inPrq[r], enabled[r])
    BY <1>1, <1>4, <2>1, PushReduce
  <2>3. FlushAll \in FrameTypes /\ Reduce \in FrameTypes /\ FlushAll.op = "flushall" /\ FlushAll.phase = "poll"
    BY NewFrames
  <2>4. <<FlushAll, Reduce>> \o s = <<FlushAll>> \o (<<Reduce>> \o s) /\ <<Reduce>> \o s \in Seq(FrameTypes)
    BY <1>2, <2>3, TwoCons, Cons
  <2>5. Ready(FlushAll)
    BY <2>3 DEF Ready
  <2>6. QED
    BY <2>1, <2>2, <2>3, <2>4, <2>5, PushStep
<1>14. QED
  BY <1>5, <1>6, <1>7, <1>8, <1>9, <1>10, <1>11, <1>12, <1>13 DEF UserStep

\* Every step of the library keeps the invariant of the stacks.
LEMMA LibraryStack ==
  ASSUME StackTypes, landed \subseteq Buffers, NEW r \in Ranks,
         Good(stack[r], inPrq[r], enabled[r]), Calm(r), LibraryStep(r)
  PROVE  StackStep(r)
<1> DEFINE s == stack[r]
<1>1. inPrq[r] \in BOOLEAN /\ enabled[r] \in BOOLEAN
  BY DEF StackFuns, StackTypes
<1>2. /\ s \in Seq(FrameTypes) /\ Len(s) \in Nat \ {0} /\ Top(r) = s[1] /\ s[1] \in FrameTypes
      /\ s[1].op # "user" => Len(s) > 1
      /\ Len(s) > 1 => Tail(s)[1] = s[2] /\ SitsOn(s[1], s[2])
      /\ s[1].op = "flushall" => Len(s) = 3 /\ s[2].op = "reduce" /\ ~inPrq[r]
      /\ s[1].op = "prq" => inPrq[r]
  BY <1>1, TopFacts DEF Top
<1>3. Good(s, inPrq[r], enabled[r]) /\ Below(r) = Tail(s)
  BY DEF Below
<1> HIDE DEF s
<1>4. ASSUME s[1].op # "user", s[1].op # "prq"
      PROVE  Good(Tail(s), inPrq[r], enabled[r]) /\ SitsOn(s[1], Tail(s)[1])
  BY <1>1, <1>2, <1>3, <1>4, DropFrame
<1>5. ASSUME NEW f \in FrameTypes, f.op = s[1].op, f.op \notin {"user", "halt"}
      PROVE  /\ Good(<<f>> \o Tail(s), inPrq[r], enabled[r])
             /\ (<<f>> \o Tail(s))[1] = f /\ <<f>> \o Tail(s) \in Seq(FrameTypes)
  <2>1. Tail(s) \in Seq(FrameTypes)
    BY <1>2, HeadTail, EmptySeq
  <2>2. QED
    BY <1>1, <1>3, <1>5, <2>1, SwapTop, Cons
<1>6. ASSUME HaltReceive(r) PROVE StackStep(r)
  <2>1. CallPrq(r, sendq[r], pending[r], wire, s) /\ s[1].op = "halt" /\ ~inPrq[r]
    BY <1>2, <1>6 DEF HaltReceive, HaltNeeded, s
  <2>2. QED
    BY <1>3, <2>1, CallPrqStack DEF PrqRests, Ready
<1>7. ASSUME HaltEnd(r) PROVE StackStep(r)
  <2>1. s[1].op = "halt" /\ UNCHANGED flagVars
    BY <1>2, <1>7 DEF HaltEnd
  <2>2. Good(Tail(s), inPrq[r], enabled[r]) /\ Tail(s)[1].op \in {"user", "bcast"}
    BY <1>4, <2>1 DEF SitsOn, Ready
  <2>3. CASE Top(r).msg = None
    <3>1. SetStack(r, Tail(s))
      BY <1>3, <1>7, <2>3 DEF HaltEnd
    <3>2. QED
      BY <2>1, <2>2, <3>1, SetStackStep DEF Ready
  <2>4. CASE Top(r).msg # None
    <3>3. Tail(s)[1].op = "user"
      BY <1>2, <1>4, <2>1, <2>4 DEF SitsOn, Ready
    <3>1. PICK m, d : PackAndCap(r, m, d, Tail(s))
      BY <1>3, <1>7, <2>4 DEF HaltEnd
    <3>2. QED
      BY <2>1, <2>2, <3>1, <3>3, PackAndCapStack DEF Ready
  <2>5. QED
    BY <2>3, <2>4
<1>8. ASSUME NEW m \in Msgs, NEW d \in Ranks, BcastCopy(r, m, d) PROVE StackStep(r)
  <2>1. s[1].op = "bcast" /\ UNCHANGED flagVars /\ SetStack(r, <<Bcast(TRUE)>> \o Tail(s))
    BY <1>2, <1>3, <1>8 DEF BcastCopy, QueueBytes
  <2>2. Bcast(TRUE) \in FrameTypes /\ Bcast(TRUE).op = "bcast"
    BY NewFrames
  <2>3. Good(<<Bcast(TRUE)>> \o Tail(s), inPrq[r], enabled[r])
    BY <1>5, <2>1, <2>2
  <2>4. (<<Bcast(TRUE)>> \o Tail(s))[1].op = "bcast"
    BY <1>5, <2>1, <2>2
  <2>5. QED
    BY <2>1, <2>3, <2>4, SetStackStep DEF Ready
<1>9. ASSUME BcastEnd(r) PROVE StackStep(r)
  <2>1. s[1].op = "bcast" /\ UNCHANGED flagVars /\ CallCap(r, localB[r], remoteB[r], Tail(s))
    BY <1>2, <1>3, <1>9 DEF BcastEnd
  <2>2. Good(Tail(s), inPrq[r], enabled[r]) /\ Tail(s)[1].op = "user"
    BY <1>4, <2>1 DEF SitsOn, Ready
  <2>3. QED
    BY <2>1, <2>2, CallCapStack DEF Ready
<1>10. ASSUME CapLocal(r) PROVE StackStep(r)
  <2>1. s[1].op = "cap"
    BY <1>2, <1>10 DEF CapLocal, Cap
  <2>3. FlushNext(r, TRUE, s)
    BY <1>10 DEF CapLocal, s
  <2>2. QED
    BY <1>3, <2>1, <2>3, FlushNextStack DEF PrqRests, Ready
<1>11. ASSUME CapRemote(r) PROVE StackStep(r)
  <2>1. s[1].op = "cap"
    BY <1>2, <1>11 DEF CapRemote
  <2>2. CASE remoteB[r] > RemoteCap
    <3>1. FlushNext(r, FALSE, <<Cap("remote")>> \o Tail(s))
      BY <1>3, <1>11, <2>2 DEF CapRemote
    <3>2. Cap("remote") \in FrameTypes /\ Cap("remote").op = "cap"
      BY NewFrames
    <3>3. Good(<<Cap("remote")>> \o Tail(s), inPrq[r], enabled[r]) /\ (<<Cap("remote")>> \o Tail(s))[1] = Cap("remote")
      BY <1>5, <2>1, <3>2
    <3>4. QED
      BY <3>1, <3>2, <3>3, FlushNextStack DEF PrqRests, Ready
  <2>3. CASE ~(remoteB[r] > RemoteCap)
    <3>1. SetStack(r, Tail(s)) /\ UNCHANGED flagVars
      BY <1>3, <1>11, <2>3 DEF CapRemote
    <3>2. Ready(Tail(s)[1]) /\ Tail(s)[1].op # "reduce"
      BY <1>4, <2>1 DEF SitsOn
    <3>3. QED
      BY <1>4, <2>1, <3>1, <3>2, SetStackStep
  <2>4. QED
    BY <2>2, <2>3
<1>12. ASSUME FlushOneStep(r) PROVE StackStep(r)
  <2>1. s[1].op = "next"
    BY <1>2, <1>12 DEF FlushOneStep
  <2>2. Good(Tail(s), inPrq[r], enabled[r]) /\ Tail(s)[1].op \in {"user", "next"}
    BY <1>4, <2>1 DEF SitsOn, Ready
  <2>3. CASE DestQueue(r, Top(r).near) = <<>>
    BY <1>3, <1>12, <2>2, <2>3, SetStackStep DEF FlushOneStep, Ready
  <2>4. CASE DestQueue(r, Top(r).near) # <<>>
    <3>1. FlushNext(r, Top(r).near, Tail(s))
      BY <1>3, <1>12, <2>4 DEF FlushOneStep
    <3>2. QED
      BY <2>2, <3>1, FlushNextStack DEF PrqRests, Ready
  <2>5. QED
    BY <2>3, <2>4
<1>28. ASSUME NEW f \in FrameTypes, s[1].op # "user"
       PROVE  (<<f>> \o Tail(s))[2] = s[2] /\ <<f>> \o Tail(s) \in Seq(FrameTypes)
  <2> DEFINE t == Tail(s)
  <2>1. t \in Seq(FrameTypes) /\ Len(t) = Len(s) - 1 /\ t[1] = s[2] /\ Len(s) > 1
    BY <1>2, <1>28, HeadTail, EmptySeq
  <2> HIDE DEF t
  <2>2. <<f>> \o t \in Seq(FrameTypes) /\ \A i \in 2..Len(t) + 1 : (<<f>> \o t)[i] = t[i - 1]
    BY <2>1, Cons
  <2>3. 2 \in 2..Len(t) + 1
    BY <2>1, <1>2
  <2>4. (<<f>> \o t)[2] = t[2 - 1]
    BY <2>2, <2>3
  <2>5. QED
    BY <2>1, <2>2, <2>4 DEF t
<1>13. ASSUME NEW b \in landed, NEW f \in FrameTypes, f.op = "prq", s[1].op = "prq", f.got, f.phase = "test"
       PROVE  /\ Good(<<Recv(b)>> \o (<<f>> \o Tail(s)), inPrq[r], enabled[r])
              /\ Recv(b) \in FrameTypes /\ Ready(Recv(b)) /\ Recv(b).op = "recv"
              /\ <<f>> \o Tail(s) \in Seq(FrameTypes)
  <2>1. Recv(b) \in FrameTypes /\ Recv(b).op = "recv"
    BY NewFrames DEF Buffers
  <2>2. /\ Good(<<f>> \o Tail(s), inPrq[r], enabled[r])
        /\ (<<f>> \o Tail(s))[1] = f /\ <<f>> \o Tail(s) \in Seq(FrameTypes)
    BY <1>5, <1>13
  <2>3. SitsOn(Recv(b), f) /\ Ready(Recv(b))
    BY <1>13, <2>1 DEF SitsOn, Ready
  <2> DEFINE t == <<f>> \o Tail(s)
  <2>4. Good(t, inPrq[r], enabled[r]) /\ t[1] = f
    BY <2>2
  <2> HIDE DEF t
  <2>5. Good(<<Recv(b)>> \o t, inPrq[r], enabled[r])
    BY <1>1, <1>13, <2>1, <2>3, <2>4, PushFrame DEF Quiet
  <2>6. QED
    BY <2>1, <2>2, <2>3, <2>5 DEF t
<1>14. ASSUME PrqWait(r) PROVE StackStep(r)
  <2>1. /\ s[1].op = "prq" /\ s[1].phase = "wait" /\ UNCHANGED flagVars /\ UNCHANGED bufVars
        /\ UNCHANGED hookVars
    BY <1>2, <1>14 DEF PrqWait
  <2>2. PICK some \in SUBSET LandedAt(r) :
          LET rest == <<[Top(r) EXCEPT !.phase = "test", !.got = some # {}]>> \o Below(r)
          IN SetStack(r, IF some = {} THEN rest ELSE <<Recv(CHOOSE b \in some : TRUE)>> \o rest)
    BY <1>14 DEF PrqWait
  <2> DEFINE f == [s[1] EXCEPT !.phase = "test", !.got = some # {}]
  <2>3. f \in FrameTypes /\ f.op = "prq" /\ f.phase = "test" /\ f.got = (some # {})
    <3> DEFINE got == some # {}
    <3>1. got \in BOOLEAN
      OBVIOUS
    <3> HIDE DEF got
    <3>2. LET g == [s[1] EXCEPT !.phase = "test", !.got = got]
          IN  g \in FrameTypes /\ g.op = "prq" /\ g.got = got /\ g.phase = "test"
      <4> DEFINE top == s[1]
      <4>1. top \in FrameTypes /\ top.op = "prq"
        BY <1>2, <2>1
      <4> HIDE DEF top
      <4>2. LET g == [top EXCEPT !.phase = "test", !.got = got]
            IN  g \in FrameTypes /\ g.op = "prq" /\ g.got = got /\ g.phase = "test"
        BY <3>1, <4>1, PrqFrame
      <4>3. QED
        BY <4>2 DEF top
    <3>3. QED
      BY <3>2, Zenon DEF got
  <2>4. SetStack(r, IF some = {} THEN <<f>> \o Tail(s) ELSE <<Recv(CHOOSE b \in some : TRUE)>> \o (<<f>> \o Tail(s)))
    BY <1>2, <1>3, <2>2
  <2> HIDE DEF f
  <2>5. CASE some = {}
    <3>1. SetStack(r, <<f>> \o Tail(s)) /\ Good(<<f>> \o Tail(s), inPrq[r], enabled[r])
      BY <1>5, <2>1, <2>3, <2>4, <2>5
    <3>2. stack'[r] = <<f>> \o Tail(s)
      BY <3>1 DEF SetStack, StackFuns, StackTypes
    <3>3. stack'[r][1] = f /\ stack'[r][2] = s[2]
      BY <1>5, <1>28, <2>1, <2>3, <3>2
    <3>4. ~Ready(s[1]) /\ hooks' = hooks /\ localq' = localq /\ remoteq' = remoteq
      BY <2>1 DEF Ready, bufVars, hookVars
    <3>5. Calm(r)'
      BY <2>1, <2>3, <3>3, <3>4 DEF Calm, CleanAt, s
    <3>6. QED
      BY <2>1, <3>1, <3>5, SetStackStep
  <2>6. CASE some # {}
    <3>1. PICK b \in landed : b = CHOOSE c \in some : TRUE
      BY <2>6 DEF LandedAt
    <3>2. SetStack(r, <<Recv(b)>> \o (<<f>> \o Tail(s)))
      BY <2>4, <2>6, <3>1
    <3>3. QED
      BY <1>13, <2>1, <2>3, <2>6, <3>2, PushStep
  <2>7. QED
    BY <2>5, <2>6
<1>15. ASSUME PrqReceive(r) PROVE StackStep(r)
  <2>1. s[1].op = "prq" /\ s[1].phase = "test" /\ UNCHANGED flagVars
    BY <1>2, <1>15 DEF PrqReceive
  <2>2. PICK b \in landed : SetStack(r, <<Recv(b), [s[1] EXCEPT !.got = TRUE]>> \o Tail(s))
    BY <1>2, <1>3, <1>15 DEF PrqReceive, LandedAt
  <2> DEFINE f == [s[1] EXCEPT !.got = TRUE]
  <2>3. f \in FrameTypes /\ f.op = "prq" /\ f.phase = "test" /\ f.got
    BY <1>2, <2>1, PrqFrame
  <2>4. Recv(b) \in FrameTypes /\ Tail(s) \in Seq(FrameTypes)
    BY <1>2, NewFrames, HeadTail, EmptySeq DEF Buffers
  <2>5. SetStack(r, <<Recv(b), f>> \o Tail(s))
    BY <2>2
  <2> HIDE DEF f
  <2>6. SetStack(r, <<Recv(b)>> \o (<<f>> \o Tail(s)))
    BY <2>3, <2>4, <2>5, TwoCons
  <2>7. QED
    BY <1>13, <2>1, <2>3, <2>6, PushStep
<1>16. ASSUME NEW m \in s[1].todo, s[1].op = "recv"
       PROVE  LET rest == <<[s[1] EXCEPT !.todo = @ \ {m}]>> \o Tail(s)
              IN  /\ Good(rest, inPrq[r], enabled[r]) /\ rest[1].op = "recv"
                  /\ Good(<<User(m)>> \o rest, inPrq[r], enabled[r])
                  /\ User(m) \in FrameTypes /\ User(m).op = "user" /\ rest \in Seq(FrameTypes)
  <2> DEFINE f == [s[1] EXCEPT !.todo = @ \ {m}]
             rest == <<f>> \o Tail(s)
  <2>1. f \in FrameTypes /\ f.op = "recv"
    BY <1>2, <1>16, RecvFrame
  <2>2. m \in Msgs /\ m # None
    BY <1>2, <1>16, FrameFields, CommAssumption
  <2>3. User(m) \in FrameTypes /\ User(m).op = "user" /\ User(m).msg = m /\ User(m).masks = 0
    BY <2>2, NewFrames
  <2> HIDE DEF f
  <2>4. Good(rest, inPrq[r], enabled[r]) /\ rest[1] = f /\ rest \in Seq(FrameTypes)
    BY <1>5, <1>16, <2>1
  <2> HIDE DEF rest
  <2>5. Good(<<User(m)>> \o rest, inPrq[r], enabled[r])
    BY <1>1, <2>1, <2>2, <2>3, <2>4, PushFrame DEF SitsOn, Ready, Quiet
  <2>6. QED
    BY <2>1, <2>3, <2>4, <2>5 DEF rest, f
<1>17. ASSUME RecvMessage(r) PROVE StackStep(r)
  <2>1. s[1].op = "recv" /\ UNCHANGED flagVars
    BY <1>2, <1>17 DEF RecvMessage
  <2>2. PICK m \in s[1].todo :
          LET rest == <<[s[1] EXCEPT !.todo = @ \ {m}]>> \o Tail(s)
          IN  SetStack(r, <<User(m)>> \o rest) \/ PackAndCap(r, m, Hop[r][dst[m]], rest)
    BY <1>2, <1>3, <1>17 DEF RecvMessage
  <2> DEFINE rest == <<[s[1] EXCEPT !.todo = @ \ {m}]>> \o Tail(s)
  <2>3. /\ Good(rest, inPrq[r], enabled[r]) /\ rest[1].op = "recv"
        /\ Good(<<User(m)>> \o rest, inPrq[r], enabled[r])
        /\ User(m) \in FrameTypes /\ User(m).op = "user" /\ rest \in Seq(FrameTypes)
    BY <1>16, <2>1
  <2>4. SetStack(r, <<User(m)>> \o rest) \/ PackAndCap(r, m, Hop[r][dst[m]], rest)
    BY <2>2
  <2> HIDE DEF rest
  <2>5. QED
    BY <2>1, <2>3, <2>4, PushStep, SetStackStep, PackAndCapStack DEF Ready
<1>18. ASSUME RecvEnd(r) PROVE StackStep(r)
  <2>1. s[1].op = "recv" /\ UNCHANGED flagVars /\ CallCap(r, localB[r], remoteB[r], Tail(s))
    BY <1>2, <1>3, <1>18 DEF RecvEnd
  <2>2. /\ Good(Tail(s), inPrq[r], enabled[r]) /\ Tail(s)[1].op \in {"prq", "flushall"}
        /\ Ready(Tail(s)[1])
    BY <1>4, <2>1 DEF SitsOn
  <2>3. QED
    BY <2>1, <2>2, CallCapStack
<1>19. ASSUME NEW p \in Phases, NEW b \in BOOLEAN, s[1].op = "flushall"
       PROVE  /\ Good(GoTo(r, p, b), inPrq[r], enabled[r])
              /\ GoTo(r, p, b)[1].op = "flushall" /\ GoTo(r, p, b) \in Seq(FrameTypes)
              /\ GoTo(r, p, b)[1].phase = p /\ GoTo(r, p, b)[1].did = b
  <2> DEFINE f == [s[1] EXCEPT !.phase = p, !.did = b]
  <2>0. s[1] \in FrameTypes /\ s[1].op = "flushall"
    BY <1>2, <1>19
  <2>1. f \in FrameTypes /\ f.op = "flushall" /\ f.phase = p /\ f.did = b
    <3>1. s[1] \in [op : {"flushall"}, phase : Phases, did : BOOLEAN]
      BY <2>0 DEF FrameTypes, Reduce, Phases
    <3>2. QED
      BY <3>1 DEF FrameTypes, Phases
  <2>2. GoTo(r, p, b) = <<f>> \o Tail(s)
    BY <1>2, <1>3 DEF GoTo
  <2> HIDE DEF f
  <2>3. QED
    BY <1>5, <1>19, <2>1, <2>2
<1>20. ASSUME PrqReturn(r) PROVE StackStep(r)
  <2> DEFINE t == Tail(s)
             g == [t[1] EXCEPT !.did = @ \/ s[1].got]
             u == IF t[1].op = "flushall" THEN <<g>> \o Tail(t) ELSE t
  <2>1. s[1].op = "prq" /\ inPrq' = [inPrq EXCEPT ![r] = FALSE] /\ enabled' = enabled /\ Len(s) > 1
    BY <1>2, <1>20 DEF PrqReturn
  <2>2. Good(t, FALSE, enabled[r])
    BY <1>1, <1>2, <1>3, <2>1, DropFrame
  <2>3. /\ t \in Seq(FrameTypes) /\ Head(t) = t[1] /\ t[1] \in FrameTypes
        /\ t[1].op = "flushall" => t[1].did \in BOOLEAN
    BY <1>1, <2>2, TopFacts, FrameFields
  <2>4. stack' = [stack EXCEPT ![r] = u]
    BY <1>2, <1>3, <1>20, <2>3 DEF PrqReturn, SetStack
  <2> HIDE DEF t
  <2>5. Good(u, FALSE, enabled[r])
    <3>1. CASE t[1].op = "flushall"
      <4>1. s[1].got \in BOOLEAN
        BY <1>2, <2>1, FrameFields
      <4>2. (t[1].did \/ s[1].got) \in BOOLEAN
        OBVIOUS
      <4>3. g \in FrameTypes /\ g.op = "flushall"
        BY <2>3, <3>1, <4>2, DidFrame
      <4> HIDE DEF g
      <4>4. Good(<<g>> \o Tail(t), FALSE, enabled[r])
        BY <1>1, <2>2, <3>1, <4>3, SwapTop
      <4>5. QED
        BY <3>1, <4>4
    <3>2. CASE t[1].op # "flushall"
      BY <2>2, <3>2
    <3>3. QED
      BY <3>1, <3>2
  <2>9. t[1].op # "flushall" => u[1] = t[1]
    OBVIOUS
  <2>10. ASSUME t[1].op = "flushall"
         PROVE  u[1].op = "flushall" /\ u[1].phase = t[1].phase /\ u[1].did = (t[1].did \/ s[1].got)
    <3>1. (t[1].did \/ s[1].got) \in BOOLEAN
      OBVIOUS
    <3>2. g \in FrameTypes /\ g.op = "flushall" /\ g.phase = t[1].phase /\ g.did = (t[1].did \/ s[1].got)
      BY <2>3, <2>10, <3>1, DidFrame
    <3> HIDE DEF g
    <3>3. Tail(t) \in Seq(FrameTypes)
      BY <2>2, <2>3, HeadTail DEF Good, StackShape
    <3>4. u[1] = g
      BY <2>10, <3>2, <3>3, Cons
    <3>5. QED
      BY <3>2, <3>4
  <2> HIDE DEF u
  <2>11. SitsOn(s[1], t[1]) /\ t[1] = s[2]
    BY <1>2, <2>1 DEF t
  <2>6. StackFuns' /\ stack'[r] = u /\ inPrq'[r] = FALSE /\ enabled'[r] = enabled[r]
    BY <2>1, <2>4, <2>5 DEF StackFuns, StackFuns, StackTypes, Good
  <2>7. \A x \in Ranks \ {r} : stack'[x] = stack[x] /\ inPrq'[x] = inPrq[x] /\ enabled'[x] = enabled[x]
    BY <2>1, <2>4 DEF StackFuns, StackTypes
  <2>8. Calm(r)'
    <3>1. CASE t[1].op # "flushall"
      BY <2>1, <2>6, <2>9, <2>11, <3>1 DEF Calm, SitsOn, Ready
    <3>2. CASE t[1].op = "flushall"
      <4>1. hooks' = hooks /\ localq' = localq /\ remoteq' = remoteq
        BY <1>20 DEF PrqReturn, hookVars, bufVars
      <4>2. u[1].op = "flushall" /\ (~Ready(u[1]) => ~Ready(t[1]) /\ ~s[1].got /\ u[1].phase = t[1].phase)
        BY <2>10, <3>2 DEF Ready
      <4>3. ~Ready(u[1]) => CleanAt(r, u[1].phase)
        BY <2>1, <2>11, <3>2, <4>2 DEF Calm, Ready, s
      <4>4. QED
        BY <2>6, <4>1, <4>2, <4>3 DEF Calm, CleanAt
    <3>3. QED
      BY <3>1, <3>2
  <2>12. QED
    BY <2>5, <2>6, <2>7, <2>8 DEF StackStep
<1>21. ASSUME FlushAllPoll(r) PROVE StackStep(r)
  <2>1. s[1].op = "flushall" /\ CallPrq(r, sendq[r], pending[r], wire, GoTo(r, "hooks", FALSE))
    BY <1>2, <1>21 DEF FlushAllPoll, InPhase
  <2>2. QED
    BY <1>2, <1>19, <2>1, CallPrqStack DEF PrqRests, Phases, Ready
<1>22. ASSUME FlushAllHook(r) PROVE StackStep(r)
  <2>1. s[1].op = "flushall" /\ SetStack(r, <<User(None)>> \o GoTo(r, "hooks", TRUE)) /\ UNCHANGED flagVars
    BY <1>2, <1>22 DEF FlushAllHook, InPhase
  <2>2. /\ Good(GoTo(r, "hooks", TRUE), inPrq[r], enabled[r]) /\ GoTo(r, "hooks", TRUE)[1].op = "flushall"
        /\ GoTo(r, "hooks", TRUE)[1].did /\ GoTo(r, "hooks", TRUE) \in Seq(FrameTypes)
    BY <1>19, <2>1 DEF Phases
  <2>3. User(None) \in FrameTypes /\ User(None).op = "user" /\ User(None).msg = None /\ User(None).masks = 0
    BY NewFrames
  <2>4. Good(<<User(None)>> \o GoTo(r, "hooks", TRUE), inPrq[r], enabled[r])
    BY <1>1, <2>2, <2>3, PushFrame DEF SitsOn, Ready, Quiet
  <2>5. QED
    BY <2>1, <2>2, <2>3, <2>4, PushStep DEF Ready
<1>23. ASSUME NEW near \in BOOLEAN, FlushAllBuffer(r, near) PROVE StackStep(r)
  <2>1. s[1].op = "flushall" /\ FlushNext(r, near, GoTo(r, s[1].phase, TRUE))
    BY <1>2, <1>23 DEF FlushAllBuffer, InPhase
  <2>2. s[1].phase \in Phases
    BY <1>2, <2>1, FrameFields DEF Phases
  <2>3. QED
    BY <1>19, <2>1, <2>2, FlushNextStack DEF PrqRests, Ready
<1>24. ASSUME FlushAllIsends(r) PROVE StackStep(r)
  <2>1. s[1].op = "flushall" /\ CallPrq(r, sendq[r], pending[r], wire, s)
    BY <1>2, <1>24 DEF FlushAllIsends, InPhase, s
  <2>2. ~Ready(s[1]) => CleanAt(r, s[1].phase) /\ UNCHANGED <<hooks, localq, remoteq>>
    BY <1>24, <2>1 DEF Calm, FlushAllIsends, bufVars, hookVars, s
  <2>3. QED
    BY <1>2, <1>3, <2>1, <2>2, CallPrqStack DEF PrqRests
<1>25. ASSUME FlushAllNext(r) PROVE StackStep(r)
  <2>1. s[1].op = "flushall" /\ UNCHANGED flagVars /\ s[1].did \in BOOLEAN
    BY <1>2, <1>25, FrameFields DEF FlushAllNext, InPhase
  <2>2. ~Ready(s[1]) => CleanAt(r, s[1].phase)
    BY <2>1 DEF Calm, s
  <2>3. hooks' = hooks /\ localq' = localq /\ remoteq' = remoteq /\ sendq' = sendq
    BY <1>25 DEF FlushAllNext, bufVars, hookVars, mpiVars
  <2>4. \/ \E p \in Phases, b \in BOOLEAN : SetStack(r, GoTo(r, p, b)) /\ (b \/ CleanAt(r, p) \/ p = "poll")
        \/ SetStack(r, Tail(s)) /\ CleanAt(r, "isends") /\ sendq[r] = <<>>
    <3>1. CASE InPhase(r, "hooks") /\ hooks[r] = 0 /\ SetStack(r, GoTo(r, "local", Top(r).did))
      BY <1>2, <2>1, <3>1 DEF Phases, CleanAt
    <3>2. CASE InPhase(r, "local") /\ localq[r] = <<>> /\ SetStack(r, GoTo(r, "remote", Top(r).did))
      BY <1>2, <2>1, <2>2, <3>2 DEF Phases, CleanAt, Ready, InPhase
    <3>3. CASE InPhase(r, "remote") /\ remoteq[r] = <<>> /\ SetStack(r, GoTo(r, "isends", Top(r).did))
      BY <1>2, <2>1, <2>2, <3>3 DEF Phases, CleanAt, Ready, InPhase
    <3>4. CASE /\ InPhase(r, "isends") /\ sendq[r] = <<>>
               /\ SetStack(r, IF Top(r).did THEN GoTo(r, "poll", FALSE) ELSE Below(r))
      BY <1>2, <1>3, <2>1, <2>2, <3>4 DEF Phases, CleanAt, Ready, InPhase
    <3>5. QED
      BY <1>25, <3>1, <3>2, <3>3, <3>4 DEF FlushAllNext
  <2>5. CASE \E p \in Phases, b \in BOOLEAN : SetStack(r, GoTo(r, p, b)) /\ (b \/ CleanAt(r, p) \/ p = "poll")
    <3>1. PICK p \in Phases, b \in BOOLEAN : SetStack(r, GoTo(r, p, b)) /\ (b \/ CleanAt(r, p) \/ p = "poll")
      BY <2>5
    <3>2. /\ Good(GoTo(r, p, b), inPrq[r], enabled[r]) /\ GoTo(r, p, b)[1].op = "flushall"
          /\ GoTo(r, p, b)[1].phase = p /\ GoTo(r, p, b)[1].did = b
      BY <1>19, <2>1
    <3>3. stack'[r] = GoTo(r, p, b)
      BY <3>1 DEF SetStack, StackFuns, StackTypes
    <3>4. Calm(r)'
      BY <2>3, <3>1, <3>2, <3>3 DEF Calm, CleanAt, Ready
    <3>5. QED
      BY <2>1, <3>1, <3>2, <3>4, SetStackStep
  <2>6. CASE SetStack(r, Tail(s)) /\ CleanAt(r, "isends") /\ sendq[r] = <<>>
    <3>1. Good(Tail(s), inPrq[r], enabled[r]) /\ Tail(s)[1].op = "reduce"
      BY <1>2, <1>4, <2>1
    <3>2. stack'[r] = Tail(s)
      BY <2>6 DEF SetStack, StackFuns, StackTypes
    <3>3. Calm(r)'
      BY <2>3, <2>6, <3>1, <3>2 DEF Calm, CleanAt
    <3>4. QED
      BY <2>1, <2>6, <3>1, <3>3, SetStackStep
  <2>7. QED
    BY <2>4, <2>5, <2>6
<1>26. ASSUME ReduceReceive(r) PROVE StackStep(r)
  <2>1. s[1].op = "reduce" /\ UNCHANGED flagVars
    BY <1>2, <1>26 DEF ReduceReceive
  <2>2. PICK b \in landed : SetStack(r, <<Recv(b), FlushAll>> \o s)
    BY <1>26 DEF ReduceReceive, LandedAt, s
  <2>3. /\ Recv(b) \in FrameTypes /\ Recv(b).op = "recv"
        /\ FlushAll \in FrameTypes /\ FlushAll.op = "flushall" /\ FlushAll.phase = "poll"
    BY NewFrames DEF Buffers
  <2>4. Good(<<FlushAll>> \o s, inPrq[r], enabled[r])
    BY <1>1, <1>3, <2>1, <2>3, PushFrame DEF SitsOn, Ready, Quiet
  <2>5. (<<FlushAll>> \o s)[1] = FlushAll
    BY <1>2, <2>3, Cons
  <2>6. Good(<<Recv(b)>> \o (<<FlushAll>> \o s), inPrq[r], enabled[r])
    BY <1>1, <2>3, <2>4, <2>5, PushFrame DEF SitsOn, Ready, Quiet
  <2>7. SetStack(r, <<Recv(b)>> \o (<<FlushAll>> \o s))
    BY <1>2, <2>2, <2>3, TwoCons
  <2>8. <<FlushAll>> \o s \in Seq(FrameTypes)
    BY <2>4 DEF Good
  <2>9. QED
    BY <2>1, <2>3, <2>6, <2>7, <2>8, PushStep DEF Ready
<1>27. QED
  BY <1>6, <1>7, <1>8, <1>9, <1>10, <1>11, <1>12, <1>14, <1>15, <1>17, <1>18, <1>20, <1>21, <1>22, <1>23,
     <1>24, <1>25, <1>26 DEF LibraryStep

-----------------------------------------------------------------------------
(***************************************************************************)
(* Messages that calls carry. A frame keeps its height as long as it is on *)
(* the stack.                                                              *)
(***************************************************************************)
\* A frame that is pushed carries its messages at a new height; those below
\* stay where they are.
LEMMA HeightsPush ==
  ASSUME NEW s \in Seq(FrameTypes), NEW f \in FrameTypes, NEW m
  PROVE  /\ Heights(<<f>> \o s, m) = Heights(s, m) \cup (IF Carries(f, m) THEN {Len(s) + 1} ELSE {})
         /\ Len(s) + 1 \notin Heights(s, m)
<1> DEFINE t == <<f>> \o s
<1>1. Len(s) \in Nat
  BY LenProperties
<1>2. /\ Len(t) = Len(s) + 1 /\ t[1] = f
      /\ \A i \in 2..Len(s) + 1 : t[i] = s[i - 1]
  BY Cons
<1> HIDE DEF t
<1>3. ASSUME NEW h \in 1..Len(s) PROVE t[Len(t) + 1 - h] = s[Len(s) + 1 - h]
  <2>1. Len(t) + 1 - h \in 2..Len(s) + 1 /\ Len(t) + 1 - h - 1 = Len(s) + 1 - h
    BY <1>1, <1>2
  <2>2. QED
    BY <1>2, <2>1
<1>4. t[Len(t) + 1 - Len(t)] = f
  BY <1>1, <1>2
<1>5. 1..Len(t) = 1..Len(s) \cup {Len(t)} /\ Len(t) \notin 1..Len(s)
  BY <1>1, <1>2
<1>6. Heights(t, m) = Heights(s, m) \cup (IF Carries(f, m) THEN {Len(t)} ELSE {})
  BY <1>3, <1>4, <1>5 DEF Heights
<1>7. QED
  BY <1>2, <1>5, <1>6 DEF t, Heights

\* A frame that returns carried its messages at the greatest height.
LEMMA HeightsDrop ==
  ASSUME NEW s \in Seq(FrameTypes), s # <<>>, NEW m
  PROVE  /\ Heights(s, m) = Heights(Tail(s), m) \cup (IF Carries(s[1], m) THEN {Len(s)} ELSE {})
         /\ Len(s) \notin Heights(Tail(s), m)
         /\ s[1] \in FrameTypes /\ Tail(s) \in Seq(FrameTypes) /\ Len(Tail(s)) = Len(s) - 1
<1> DEFINE t == Tail(s)
<1>1. /\ Len(s) \in Nat \ {0} /\ s[1] \in FrameTypes /\ t \in Seq(FrameTypes)
      /\ Len(t) = Len(s) - 1 /\ \A i \in 1..Len(s) - 1 : t[i] = s[i + 1]
  BY HeadTail
<1> HIDE DEF t
<1>2. ASSUME NEW h \in 1..Len(t) PROVE s[Len(s) + 1 - h] = t[Len(t) + 1 - h]
  <2>1. Len(t) + 1 - h \in 1..Len(s) - 1 /\ Len(t) + 1 - h + 1 = Len(s) + 1 - h
    BY <1>1
  <2>2. QED
    BY <1>1, <2>1
<1>3. s[Len(s) + 1 - Len(s)] = s[1]
  BY <1>1
<1>4. 1..Len(s) = 1..Len(t) \cup {Len(s)} /\ Len(s) \notin 1..Len(t)
  BY <1>1
<1>5. Heights(s, m) = Heights(t, m) \cup (IF Carries(s[1], m) THEN {Len(s)} ELSE {})
  BY <1>2, <1>3, <1>4 DEF Heights
<1>6. QED
  BY <1>1, <1>4, <1>5 DEF t, Heights

\* Only user code, halted producers and receives carry messages.
LEMMA NoCarry ==
  ASSUME NEW f, f.op \notin {"user", "halt", "recv"} \/ (f.op \in {"user", "halt"} /\ f.msg = None), NEW m \in Msgs
  PROVE  ~Carries(f, m)
BY CommAssumption DEF Carries

\* process_receive_queue carries none.
LEMMA CallPrqCarry ==
  ASSUME StackTypes, NEW r \in Ranks, NEW q, NEW p, NEW inFlight, NEW rest \in Seq(FrameTypes),
         CallPrq(r, q, p, inFlight, rest), NEW m \in Msgs
  PROVE  Heights(stack'[r], m) = Heights(rest, m)
<1>1. \/ stack'[r] = rest
      \/ stack'[r] = <<Prq("wait")>> \o rest
      \/ stack'[r] = <<Prq("test")>> \o rest
  BY DEF CallPrq, SetStack, StackFuns, StackTypes
<1>2. ASSUME NEW f \in FrameTypes, f.op = "prq" PROVE Heights(<<f>> \o rest, m) = Heights(rest, m)
  <2>1. ~Carries(f, m)
    BY <1>2, NoCarry
  <2>2. Heights(<<f>> \o rest, m) = Heights(rest, m) \cup (IF Carries(f, m) THEN {Len(rest) + 1} ELSE {})
    BY HeightsPush
  <2>3. QED
    BY <2>1, <2>2
<1>3. /\ Heights(<<Prq("wait")>> \o rest, m) = Heights(rest, m)
      /\ Heights(<<Prq("test")>> \o rest, m) = Heights(rest, m)
  BY <1>2, NewFrames
<1>4. QED
  BY <1>1, <1>3

\* Nor does flush_next_send.
LEMMA FlushNextCarry ==
  ASSUME StackTypes, NEW r \in Ranks, NEW near, NEW rest \in Seq(FrameTypes),
         FlushNext(r, near, rest), NEW m \in Msgs
  PROVE  Heights(stack'[r], m) = Heights(rest, m)
<1>1. SetStack(r, rest) \/ \E q, p : CallPrq(r, q, p, wire', rest)
  BY DEF FlushNext, FlushBuffer
<1>2. SetStack(r, rest) => stack'[r] = rest
  BY DEF SetStack, StackFuns, StackTypes
<1>3. ASSUME NEW q, NEW p, CallPrq(r, q, p, wire', rest) PROVE Heights(stack'[r], m) = Heights(rest, m)
  BY <1>3, CallPrqCarry
<1>4. QED
  BY <1>1, <1>2, <1>3

\* Nor flush_to_capacity.
LEMMA CallCapCarry ==
  ASSUME StackTypes, NEW r \in Ranks, NEW local, NEW remote, NEW rest \in Seq(FrameTypes),
         CallCap(r, local, remote, rest), NEW m \in Msgs
  PROVE  Heights(stack'[r], m) = Heights(rest, m)
<1>1. Cap("local") \in FrameTypes /\ Cap("local").op = "cap"
  BY NewFrames
<1>2. ~Carries(Cap("local"), m)
  BY <1>1, NoCarry
<1>3. Heights(<<Cap("local")>> \o rest, m) = Heights(rest, m)
  BY <1>1, <1>2, HeightsPush
<1>4. stack'[r] = <<Cap("local")>> \o rest \/ stack'[r] = rest
  BY DEF CallCap, SetStack, StackFuns, StackTypes
<1>5. QED
  BY <1>3, <1>4

-----------------------------------------------------------------------------
(***************************************************************************)
(* Places of messages.                                                     *)
(***************************************************************************)
\* The calls of r that carry m change from H to K.
LEMMA CallsChange ==
  ASSUME NEW r \in Ranks, NEW m, NEW A, NEW H, NEW K,
         Heights(stack[r], m) = A \cup H, A \cap H = {}, Heights(stack'[r], m) = A \cup K,
         \A x \in Ranks \ {r} : stack'[x] = stack[x]
  PROVE  /\ CallsOf(m)' = (CallsOf(m) \ {<<"call", r, h>> : h \in H}) \cup {<<"call", r, h>> : h \in K}
         /\ {<<"call", r, h>> : h \in H} \subseteq CallsOf(m)
<1> DEFINE Old(x) == Heights(stack[x], m)
           New(x) == Heights(stack'[x], m)
<1>1. /\ CallsOf(m) = UNION {{<<"call", x, h>> : h \in Old(x)} : x \in Ranks}
      /\ CallsOf(m)' = UNION {{<<"call", x, h>> : h \in New(x)} : x \in Ranks}
  BY DEF CallsOf
<1>2. /\ Old(r) = A \cup H /\ New(r) = A \cup K
      /\ \A x \in Ranks \ {r} : New(x) = Old(x)
  OBVIOUS
<1> HIDE DEF Old, New
<1>3. /\ \A c : c \in CallsOf(m) <=> \E x \in Ranks : \E h : h \in Old(x) /\ c = <<"call", x, h>>
      /\ \A c : c \in CallsOf(m)' <=> \E x \in Ranks : \E h : h \in New(x) /\ c = <<"call", x, h>>
  BY <1>1
<1> DEFINE Gone == {<<"call", r, h>> : h \in H}
           Come == {<<"call", r, h>> : h \in K}
<1>4. ASSUME NEW c \in CallsOf(m)', c \notin Come PROVE c \in CallsOf(m) \ Gone
  <2>0. PICK x \in Ranks : \E h : h \in New(x) /\ c = <<"call", x, h>>
    BY <1>3
  <2>1. PICK h : h \in New(x) /\ c = <<"call", x, h>>
    BY <2>0
  <2>2. CASE x = r
    <3>1. h \in A
      BY <1>2, <1>4, <2>1, <2>2
    <3>2. QED
      BY <1>2, <1>3, <2>1, <2>2, <3>1
  <2>3. CASE x # r
    BY <1>2, <1>3, <2>1, <2>3
  <2>4. QED
    BY <2>2, <2>3
<1>5. ASSUME NEW c \in CallsOf(m), c \notin Gone PROVE c \in CallsOf(m)'
  <2>0. PICK x \in Ranks : \E h : h \in Old(x) /\ c = <<"call", x, h>>
    BY <1>3
  <2>1. PICK h : h \in Old(x) /\ c = <<"call", x, h>>
    BY <2>0
  <2>2. CASE x = r
    <3>1. h \in A
      BY <1>2, <1>5, <2>1, <2>2
    <3>2. QED
      BY <1>2, <1>3, <2>1, <2>2, <3>1
  <2>3. CASE x # r
    BY <1>2, <1>3, <2>1, <2>3
  <2>4. QED
    BY <2>2, <2>3
<1>6. Come \subseteq CallsOf(m)' /\ Gone \subseteq CallsOf(m)
  BY <1>2, <1>3
<1>7. QED
  BY <1>4, <1>5, <1>6

\* No call takes or gives up m.
LEMMA CallsSame ==
  ASSUME NEW m, \A x \in Ranks : Heights(stack'[x], m) = Heights(stack[x], m)
  PROVE  CallsOf(m)' = CallsOf(m)
<1>1. \A x \in Ranks : {<<"call", x, h>> : h \in Heights(stack'[x], m)} = {<<"call", x, h>> : h \in Heights(stack[x], m)}
  OBVIOUS
<1>2. QED
  BY <1>1 DEF CallsOf

\* Types of the buffers.
BufTypes ==
  /\ buf \in [Ranks -> [Ranks -> SUBSET Msgs]]
  /\ \A r, d \in Ranks : IsFiniteSet(buf[r][d])
  /\ localq \in [Ranks -> Seq(Ranks)] /\ remoteq \in [Ranks -> Seq(Ranks)]
  /\ localB \in [Ranks -> Nat] /\ remoteB \in [Ranks -> Nat]

\* A packed message is in the buffer.
LEMMA PackPlaces ==
  ASSUME BufTypes, NEW r \in Ranks, NEW m \in Msgs, NEW d \in Ranks, PackInto(r, m, d)
  PROVE  /\ BuffersOf(m)' = BuffersOf(m) \cup {<<"buffer", r, d>>}
         /\ \A n \in Msgs \ {m} : BuffersOf(n)' = BuffersOf(n)
<1>1. buf' = [buf EXCEPT ![r][d] = buf[r][d] \cup {m}]
  BY DEF PackInto
<1>2. \A x, e \in Ranks : buf'[x][e] = IF x = r /\ e = d THEN buf[x][e] \cup {m} ELSE buf[x][e]
  BY <1>1 DEF BufTypes
<1>3. \A n, y : y \in BuffersOf(n) <=> (\E x, e \in Ranks : n \in buf[x][e] /\ y = <<"buffer", x, e>>)
  BY DEF BuffersOf
<1>4. \A n, y : y \in BuffersOf(n)' <=> (\E x, e \in Ranks : n \in buf'[x][e] /\ y = <<"buffer", x, e>>)
  BY DEF BuffersOf
<1>5. ASSUME NEW n \in Msgs, n # m PROVE BuffersOf(n)' = BuffersOf(n)
  <2>1. \A x, e \in Ranks : n \in buf'[x][e] <=> n \in buf[x][e]
    BY <1>2, <1>5
  <2>2. \A x \in Ranks : {e \in Ranks : n \in buf'[x][e]} = {e \in Ranks : n \in buf[x][e]}
    BY <2>1
  <2>3. \A x \in Ranks : {<<"buffer", x, d2>> : d2 \in {e \in Ranks : n \in buf'[x][e]}}
                      = {<<"buffer", x, d2>> : d2 \in {e \in Ranks : n \in buf[x][e]}}
    BY <2>2
  <2>4. QED
    BY <2>3 DEF BuffersOf
<1>6. BuffersOf(m)' = BuffersOf(m) \cup {<<"buffer", r, d>>}
  <2>1. \A x, e \in Ranks : m \in buf'[x][e] <=> m \in buf[x][e] \/ (x = r /\ e = d)
    BY <1>2
  <2>2. QED
    BY <1>3, <1>4, <2>1
<1>7. QED
  BY <1>2, <1>5, <1>6

\* The messages of a flushed buffer are on the wire.
LEMMA FlushPlaces ==
  ASSUME BufTypes, NEW r \in Ranks, NEW d \in Ranks, NEW b,
         buf' = [buf EXCEPT ![r][d] = {}], wire' = wire \cup {b}, b.msgs = buf[r][d], NEW n
  PROVE  /\ BuffersOf(n)' = BuffersOf(n) \ {<<"buffer", r, d>>}
         /\ n \in buf[r][d] => <<"buffer", r, d>> \in BuffersOf(n)
         /\ n \notin buf[r][d] => <<"buffer", r, d>> \notin BuffersOf(n)
         /\ WiresOf(n)' = WiresOf(n) \cup (IF n \in buf[r][d] THEN {<<"wire", b>>} ELSE {})
<1>2. \A x, e \in Ranks : buf'[x][e] = IF x = r /\ e = d THEN {} ELSE buf[x][e]
  BY DEF BufTypes
<1>3. \A y : y \in BuffersOf(n) <=> (\E x, e \in Ranks : n \in buf[x][e] /\ y = <<"buffer", x, e>>)
  BY DEF BuffersOf
<1>4. \A y : y \in BuffersOf(n)' <=> (\E x, e \in Ranks : n \in buf'[x][e] /\ y = <<"buffer", x, e>>)
  BY DEF BuffersOf
<1>5. \A x, e \in Ranks : n \in buf'[x][e] <=> n \in buf[x][e] /\ ~(x = r /\ e = d)
  BY <1>2
<1>6. BuffersOf(n)' = BuffersOf(n) \ {<<"buffer", r, d>>}
  BY <1>3, <1>4, <1>5
<1>7. <<"buffer", r, d>> \in BuffersOf(n) <=> n \in buf[r][d]
  BY <1>3
<1>8. WiresOf(n)' = WiresOf(n) \cup (IF n \in buf[r][d] THEN {<<"wire", b>>} ELSE {})
  BY DEF WiresOf
<1>9. QED
  BY <1>6, <1>7, <1>8

\* A matched buffer has landed.
LEMMA ArrivePlaces ==
  ASSUME NEW b \in wire, wire' = wire \ {b}, landed' = landed \cup {b}, NEW n
  PROVE  /\ WiresOf(n)' = WiresOf(n) \ {<<"wire", b>>}
         /\ n \in b.msgs <=> <<"wire", b>> \in WiresOf(n)
         /\ LandedOf(n)' = LandedOf(n) \cup (IF n \in b.msgs THEN {<<"landed", b>>} ELSE {})
BY DEF WiresOf, LandedOf

\* A buffer that is handled has landed no longer.
LEMMA TakePlaces ==
  ASSUME NEW b \in landed, landed' = landed \ {b}, NEW n
  PROVE  /\ LandedOf(n)' = LandedOf(n) \ {<<"landed", b>>}
         /\ n \in b.msgs <=> <<"landed", b>> \in LandedOf(n)
BY DEF LandedOf

\* Places of different kinds are different.
LEMMA Kinds ==
  ASSUME NEW m
  PROVE  /\ \A x \in CallsOf(m) : x[1] = "call"
         /\ \A x \in BuffersOf(m) : x[1] = "buffer"
         /\ \A x \in WiresOf(m) : x[1] = "wire"
         /\ \A x \in LandedOf(m) : x[1] = "landed"
BY DEF CallsOf, BuffersOf, WiresOf, LandedOf

-----------------------------------------------------------------------------
(***************************************************************************)
(* The account of the buffers.                                             *)
(***************************************************************************)
\* The two byte counters.
Bytes(r, near) == IF near THEN localB[r] ELSE remoteB[r]

\* q names the members of S, once each.
Exact(q, S) ==
  /\ \A i \in 1..Len(q) : q[i] \in S
  /\ \A d \in S : \E i \in 1..Len(q) : q[i] = d
  /\ \A i, j \in 1..Len(q) : q[i] = q[j] => i = j

\* The messages in the buffers for ranks on the node, or for the others.
Stored(r, near) == {m \in Msgs : \E d \in Ranks : (<<r, d>> \in Near <=> near) /\ m \in buf[r][d]}

\* BuffersAccounted, as the proofs use it.
Accounted(r) ==
  \A near \in BOOLEAN :
    /\ Exact(DestQueue(r, near), Filled(r, near))
    /\ Bytes(r, near) = Cardinality(Stored(r, near))

\* Exact is Names.
LEMMA ExactNames ==
  ASSUME NEW q \in Seq(Ranks), NEW S, Exact(q, S)
  PROVE  Names(q, S)
<1>1. Len(q) \in Nat /\ DOMAIN q = 1..Len(q) /\ q \in [1..Len(q) -> Ranks]
  BY LenProperties
<1>2. {q[i] : i \in 1..Len(q)} = S
  BY DEF Exact
<1>3. q \in [1..Len(q) -> S]
  BY <1>1, <1>2
<1>4. IsFiniteSet(1..Len(q)) /\ Cardinality(1..Len(q)) = Len(q)
  BY <1>1, FS_Interval
<1>5. Cardinality(S) = Len(q)
  BY <1>3, <1>4, CountBijection DEF Exact
<1>6. QED
  BY <1>1, <1>2, <1>5 DEF Names

\* Held counts the stored messages.
LEMMA StoredHeld ==
  ASSUME BufTypes, NEW r \in Ranks, NEW near \in BOOLEAN
  PROVE  /\ Held(r, Filled(r, near)) = Cardinality(Stored(r, near))
         /\ IsFiniteSet(Stored(r, near))
<1>1. UNION {buf[r][d] : d \in Filled(r, near)} = Stored(r, near)
  BY DEF Filled, Stored, BufTypes
<1> DEFINE U == UNION {buf[r][d] : d \in Ranks}
<1>2. IsFiniteSet(U)
  <2>1. IsFiniteSet({buf[r][d] : d \in Ranks})
    BY FiniteImage, CommAssumption
  <2>2. \A S \in {buf[r][d] : d \in Ranks} : IsFiniteSet(S)
    BY DEF BufTypes
  <2>3. QED
    BY <2>1, <2>2, FS_UNION
<1>3. Stored(r, near) \subseteq U
  BY DEF Stored
<1>4. QED
  BY <1>1, <1>2, <1>3, FS_Subset DEF Held

\* A destination is queued that was not.
LEMMA ExactAppend ==
  ASSUME NEW q \in Seq(Ranks), NEW S, Exact(q, S), NEW d \in Ranks, d \notin S
  PROVE  Exact(q \o <<d>>, S \cup {d})
<1> DEFINE t == q \o <<d>>
           n == Len(q) + 1
<1>0. Len(q) \in Nat
  BY LenProperties
<1>1. Len(t) = n /\ \A i \in 1..n : t[i] = IF i <= Len(q) THEN q[i] ELSE d
  <2>1. <<d>> \in Seq(Ranks) /\ Len(<<d>>) = 1 /\ <<d>>[1] = d
    OBVIOUS
  <2>2. Len(t) = Len(q) + Len(<<d>>) /\ \A i \in 1 .. Len(q) + Len(<<d>>) : t[i] = IF i <= Len(q) THEN q[i] ELSE <<d>>[i - Len(q)]
    BY <2>1, ConcatProperties
  <2> HIDE DEF t
  <2>3. \A i \in 1..n : ~(i <= Len(q)) => i - Len(q) = 1
    BY <1>0
  <2>4. QED
    BY <2>1, <2>2, <2>3
<1> HIDE DEF t
<1>2. 1..n = 1..Len(q) \cup {n} /\ n \notin 1..Len(q)
  BY <1>0
<1>3. t[n] = d /\ \A i \in 1..Len(q) : t[i] = q[i]
  BY <1>0, <1>1
<1>4. \A i \in 1..Len(q) : q[i] \in S /\ q[i] # d
  BY DEF Exact
<1>5. \A i, j \in 1..n : t[i] = t[j] => i = j
  BY <1>2, <1>3, <1>4 DEF Exact
<1>6. QED
  BY <1>1, <1>2, <1>3, <1>4, <1>5 DEF Exact, t

\* The first destination is taken from the queue.
LEMMA ExactTail ==
  ASSUME NEW q \in Seq(Ranks), NEW S, Exact(q, S), q # <<>>
  PROVE  Head(q) \in S /\ Head(q) \in Ranks /\ Exact(Tail(q), S \ {Head(q)}) /\ Tail(q) \in Seq(Ranks)
<1> DEFINE t == Tail(q)
<1>1. /\ Len(q) \in Nat \ {0} /\ Head(q) = q[1] /\ q[1] \in Ranks /\ t \in Seq(Ranks) /\ Len(t) = Len(q) - 1
      /\ \A i \in 1..Len(q) - 1 : t[i] = q[i + 1]
  BY HeadTail
<1> HIDE DEF t
<1>2. \A i \in 1..Len(t) : i + 1 \in 1..Len(q) /\ i + 1 # 1 /\ t[i] = q[i + 1]
  BY <1>1
<1>3. 1 \in 1..Len(q) /\ \A i \in 1..Len(q) : i # 1 => i - 1 \in 1..Len(t) /\ t[i - 1] = q[i]
  <2>1. 1 \in 1..Len(q)
    BY <1>1
  <2>2. ASSUME NEW i \in 1..Len(q), i # 1 PROVE i - 1 \in 1..Len(t) /\ t[i - 1] = q[i]
    <3>1. i - 1 \in 1..Len(q) - 1 /\ i - 1 + 1 = i
      BY <1>1, <2>2
    <3>2. QED
      BY <1>1, <3>1
  <2>3. QED
    BY <2>1, <2>2
<1>4. \A i \in 1..Len(t) : t[i] \in S \ {q[1]}
  BY <1>2, <1>3 DEF Exact
<1>5. \A d \in S \ {q[1]} : \E i \in 1..Len(t) : t[i] = d
  BY <1>3 DEF Exact
<1>6. \A i, j \in 1..Len(t) : t[i] = t[j] => i = j
  <2> SUFFICES ASSUME NEW i \in 1..Len(t), NEW j \in 1..Len(t), t[i] = t[j] PROVE i = j
    OBVIOUS
  <2>1. i + 1 = j + 1
    BY <1>2 DEF Exact
  <2>2. QED
    BY <2>1
<1>7. QED
  BY <1>1, <1>3, <1>4, <1>5, <1>6 DEF Exact, t

\* Packing keeps the account: the destination is queued when its buffer was
\* empty, the byte counter of its kind goes up.
LEMMA PackAccounted ==
  ASSUME BufTypes, \A x \in Ranks : Accounted(x), NEW r \in Ranks, NEW m \in Msgs, NEW d \in Ranks,
         \A e \in Ranks : m \notin buf[r][e], PackInto(r, m, d)
  PROVE  BufTypes' /\ \A x \in Ranks : Accounted(x)'
<1> DEFINE n == <<r, d>> \in Near
           more == IF buf[r][d] = {} THEN <<d>> ELSE <<>>
<1>1. n \in BOOLEAN /\ more \in Seq(Ranks)
  OBVIOUS
<1>2. buf' = [buf EXCEPT ![r][d] = buf[r][d] \cup {m}]
  BY DEF PackInto
<1>3. \A x, e \in Ranks : buf'[x][e] = IF x = r /\ e = d THEN buf[x][e] \cup {m} ELSE buf[x][e]
  BY <1>2 DEF BufTypes
<1>4. /\ n => /\ localq' = [localq EXCEPT ![r] = localq[r] \o more]
              /\ localB' = [localB EXCEPT ![r] = localB[r] + 1]
              /\ remoteq' = remoteq /\ remoteB' = remoteB
      /\ ~n => /\ remoteq' = [remoteq EXCEPT ![r] = remoteq[r] \o more]
               /\ remoteB' = [remoteB EXCEPT ![r] = remoteB[r] + 1]
               /\ localq' = localq /\ localB' = localB
  BY DEF PackInto
<1> HIDE DEF n, more
<1>5. BufTypes'
  <2>1. buf' \in [Ranks -> [Ranks -> SUBSET Msgs]]
    BY <1>2 DEF BufTypes
  <2>2. ASSUME NEW x \in Ranks, NEW e \in Ranks PROVE IsFiniteSet(buf'[x][e])
    <3>1. IsFiniteSet(buf[x][e])
      BY DEF BufTypes
    <3>2. IsFiniteSet(buf[x][e] \cup {m})
      BY <3>1, FS_AddElement
    <3>3. QED
      BY <1>3, <3>1, <3>2
  <2>3. localq[r] \o more \in Seq(Ranks) /\ remoteq[r] \o more \in Seq(Ranks)
    BY <1>1, ConcatProperties DEF BufTypes
  <2>4. localB[r] + 1 \in Nat /\ remoteB[r] + 1 \in Nat
    BY DEF BufTypes
  <2>5. QED
    BY <1>4, <2>1, <2>2, <2>3, <2>4 DEF BufTypes
<1>6. /\ DestQueue(r, n)' = DestQueue(r, n) \o more /\ Bytes(r, n)' = Bytes(r, n) + 1
      /\ DestQueue(r, ~n)' = DestQueue(r, ~n) /\ Bytes(r, ~n)' = Bytes(r, ~n)
  <2>1. CASE n
    BY <1>4, <2>1 DEF DestQueue, Bytes, BufTypes, n
  <2>2. CASE ~n
    BY <1>4, <2>2 DEF DestQueue, Bytes, BufTypes, n
  <2>3. QED
    BY <2>1, <2>2
<1>7. \A x \in Ranks \ {r} : \A near \in BOOLEAN : /\ DestQueue(x, near)' = DestQueue(x, near)
                                                  /\ Bytes(x, near)' = Bytes(x, near)
  BY <1>4 DEF DestQueue, Bytes, BufTypes
<1>8. \A x \in Ranks \ {r} : \A near \in BOOLEAN : /\ Filled(x, near)' = Filled(x, near)
                                                  /\ Stored(x, near)' = Stored(x, near)
  BY <1>3 DEF Filled, Stored
<1>9. /\ Filled(r, n)' = Filled(r, n) \cup {d} /\ Filled(r, ~n)' = Filled(r, ~n)
      /\ buf[r][d] # {} => d \in Filled(r, n)
      /\ buf[r][d] = {} => d \notin Filled(r, n)
  BY <1>3 DEF Filled, n
<1>10. /\ Stored(r, n)' = Stored(r, n) \cup {m} /\ m \notin Stored(r, n)
       /\ Stored(r, ~n)' = Stored(r, ~n)
  BY <1>3 DEF Stored, n
<1>11. ASSUME NEW near \in BOOLEAN
       PROVE  Exact(DestQueue(r, near)', Filled(r, near)') /\ Bytes(r, near)' = Cardinality(Stored(r, near)')
  <2>1. CASE near = n
    <3>1. /\ Exact(DestQueue(r, n), Filled(r, n)) /\ Bytes(r, n) = Cardinality(Stored(r, n))
          /\ DestQueue(r, n) \in Seq(Ranks)
      BY <1>1 DEF Accounted, DestQueue, BufTypes
    <3>2. Exact(DestQueue(r, n) \o more, Filled(r, n) \cup {d})
      <4>1. CASE buf[r][d] = {}
        BY <1>9, <3>1, <4>1, ExactAppend DEF more
      <4>2. CASE buf[r][d] # {}
        <5>1. DestQueue(r, n) \o more = DestQueue(r, n)
          BY <3>1, <4>2, ConcatEmptySeq DEF more
        <5>2. Filled(r, n) \cup {d} = Filled(r, n)
          BY <1>9, <4>2
        <5>3. QED
          BY <3>1, <5>1, <5>2
      <4>3. QED
        BY <4>1, <4>2
    <3>3. Cardinality(Stored(r, n) \cup {m}) = Cardinality(Stored(r, n)) + 1
      BY <1>1, <1>10, StoredHeld, FS_AddElement
    <3>4. QED
      BY <1>6, <1>9, <1>10, <2>1, <3>1, <3>2, <3>3
  <2>2. CASE near = ~n
    BY <1>1, <1>6, <1>9, <1>10, <2>2 DEF Accounted
  <2>3. QED
    BY <1>1, <2>1, <2>2
<1>12. ASSUME NEW x \in Ranks, NEW near \in BOOLEAN
       PROVE  Exact(DestQueue(x, near)', Filled(x, near)') /\ Bytes(x, near)' = Cardinality(Stored(x, near)')
  BY <1>7, <1>8, <1>11 DEF Accounted
<1>13. QED
  BY <1>5, <1>12 DEF Accounted, Exact

\* Flushing keeps the account: the destination leaves its queue, and its
\* bytes their counter.
LEMMA FlushAccounted ==
  ASSUME BufTypes, \A x \in Ranks : Accounted(x), NEW r \in Ranks, NEW near \in BOOLEAN,
         \A d, e \in Ranks : d # e => buf[r][d] \cap buf[r][e] = {},
         DestQueue(r, near) # <<>>, NEW rest, FlushNext(r, near, rest)
  PROVE  /\ BufTypes' /\ \A x \in Ranks : Accounted(x)'
         /\ Bytes(r, ~near)' = Bytes(r, ~near) /\ Bytes(r, near)' <= Bytes(r, near)
<1> DEFINE q == DestQueue(r, near)
           d == Head(q)
           size == Cardinality(buf[r][d])
<1>1. /\ q \in Seq(Ranks) /\ Exact(q, Filled(r, near)) /\ Bytes(r, near) = Cardinality(Stored(r, near))
  BY DEF Accounted, DestQueue, BufTypes
<1>2. /\ d \in Ranks /\ d \in Filled(r, near) /\ Exact(Tail(q), Filled(r, near) \ {d}) /\ Tail(q) \in Seq(Ranks)
  BY <1>1, ExactTail
<1>3. (<<r, d>> \in Near) <=> near
  BY <1>2 DEF Filled
<1>4. buf' = [buf EXCEPT ![r][d] = {}]
  BY DEF FlushNext, FlushBuffer
<1>5. /\ near => /\ localq' = [localq EXCEPT ![r] = Tail(q)] /\ localB' = [localB EXCEPT ![r] = localB[r] - size]
                 /\ remoteq' = remoteq /\ remoteB' = remoteB
      /\ ~near => /\ remoteq' = [remoteq EXCEPT ![r] = Tail(q)] /\ remoteB' = [remoteB EXCEPT ![r] = remoteB[r] - size]
                  /\ localq' = localq /\ localB' = localB
  BY <1>3 DEF FlushNext, FlushBuffer, DestQueue
<1> HIDE DEF q, d, size
<1>6. \A x, e \in Ranks : buf'[x][e] = IF x = r /\ e = d THEN {} ELSE buf[x][e]
  BY <1>2, <1>4 DEF BufTypes
<1>7. \A x \in Ranks \ {r} : \A nr \in BOOLEAN : /\ Filled(x, nr)' = Filled(x, nr)
                                                /\ Stored(x, nr)' = Stored(x, nr)
  BY <1>6 DEF Filled, Stored
<1>8. Filled(r, near)' = Filled(r, near) \ {d} /\ Filled(r, ~near)' = Filled(r, ~near)
  BY <1>2, <1>3, <1>6 DEF Filled
<1>9. /\ Stored(r, near) = Stored(r, near)' \cup buf[r][d] /\ Stored(r, near)' \cap buf[r][d] = {}
      /\ Stored(r, ~near)' = Stored(r, ~near)
  <2>1. Stored(r, near)' \subseteq Stored(r, near)
    BY <1>6 DEF Stored
  <2>2. Stored(r, near) \subseteq Stored(r, near)' \cup buf[r][d]
    BY <1>6 DEF Stored
  <2>3. buf[r][d] \subseteq Stored(r, near)
    <3>1. \A m \in buf[r][d] : m \in Msgs
      BY <1>2 DEF BufTypes
    <3>2. QED
      BY <1>2, <1>3, <3>1 DEF Stored
  <2>4. Stored(r, near)' \cap buf[r][d] = {}
    BY <1>2, <1>6 DEF Stored
  <2>5. Stored(r, ~near)' = Stored(r, ~near)
    BY <1>2, <1>3, <1>6 DEF Stored
  <2>6. QED
    BY <2>1, <2>2, <2>3, <2>4, <2>5
<1>10. /\ IsFiniteSet(buf[r][d]) /\ size \in Nat
       /\ Cardinality(Stored(r, near)) = Cardinality(Stored(r, near)') + size
       /\ Cardinality(Stored(r, near)') \in Nat
  <2>1. IsFiniteSet(buf[r][d]) /\ size \in Nat
    BY <1>2, FS_CardinalityType DEF BufTypes, size
  <2>2. IsFiniteSet(Stored(r, near)')
    BY <1>9, StoredHeld, FS_Subset
  <2>3. QED
    BY <1>9, <2>1, <2>2, DisjointUnion DEF size
<1>11. Bytes(r, near) - size = Cardinality(Stored(r, near)')
  BY <1>1, <1>10
<1>12. /\ DestQueue(r, near)' = Tail(q) /\ Bytes(r, near)' = Bytes(r, near) - size
       /\ DestQueue(r, ~near)' = DestQueue(r, ~near) /\ Bytes(r, ~near)' = Bytes(r, ~near)
  BY <1>5 DEF DestQueue, Bytes, BufTypes
<1>13. BufTypes'
  <2>1. buf' \in [Ranks -> [Ranks -> SUBSET Msgs]]
    BY <1>4 DEF BufTypes
  <2>2. \A x, e \in Ranks : IsFiniteSet(buf'[x][e])
    BY <1>6, FS_EmptySet DEF BufTypes
  <2>3. /\ near => localB[r] - size \in Nat
        /\ ~near => remoteB[r] - size \in Nat
    BY <1>10, <1>11 DEF Bytes
  <2>4. QED
    BY <1>2, <1>5, <2>1, <2>2, <2>3 DEF BufTypes
<1>14. \A x \in Ranks \ {r} : \A nr \in BOOLEAN : /\ DestQueue(x, nr)' = DestQueue(x, nr)
                                                 /\ Bytes(x, nr)' = Bytes(x, nr)
  BY <1>5 DEF DestQueue, Bytes, BufTypes
<1>15. ASSUME NEW x \in Ranks, NEW nr \in BOOLEAN
       PROVE  Exact(DestQueue(x, nr)', Filled(x, nr)') /\ Bytes(x, nr)' = Cardinality(Stored(x, nr)')
  <2>1. CASE x # r
    BY <1>7, <1>14, <2>1 DEF Accounted
  <2>2. CASE x = r /\ nr = near
    BY <1>2, <1>8, <1>11, <1>12, <2>2
  <2>3. CASE x = r /\ nr = ~near
    BY <1>8, <1>9, <1>12, <2>3 DEF Accounted
  <2>4. QED
    BY <2>1, <2>2, <2>3
<1>16. Bytes(r, near)' <= Bytes(r, near)
  BY <1>1, <1>10, <1>11, <1>12
<1>17. QED
  BY <1>12, <1>13, <1>15, <1>16 DEF Accounted, Exact
-----------------------------------------------------------------------------
(***************************************************************************)
(* The account of the sends.                                               *)
(***************************************************************************)
\* m_pending_isend_bytes is what the send queue holds.
SendsOK ==
  /\ sendq \in [Ranks -> Seq(FBuffers)] /\ pending \in [Ranks -> Nat]
  /\ \A r \in Ranks : pending[r] = Load(sendq[r])

\* A send queue and its bytes are replaced.
LEMMA SetSends ==
  ASSUME SendsOK, NEW r \in Ranks, NEW q \in Seq(FBuffers), NEW p,
         sendq' = [sendq EXCEPT ![r] = q], pending' = [pending EXCEPT ![r] = p], p = Load(q)
  PROVE  SendsOK'
<1>1. p \in Nat
  BY LoadContents
<1>2. QED
  BY <1>1 DEF SendsOK

\* process_receive_queue retires completed sends with their bytes.
LEMMA CallPrqSends ==
  ASSUME SendsOK, NEW r \in Ranks, NEW q \in Seq(FBuffers), NEW p, p = Load(q), NEW inFlight, NEW rest,
         CallPrq(r, q, p, inFlight, rest)
  PROVE  SendsOK'
<1>1. CASE ~enabled[r] \/ Len(q) > NumIsendsWait
  <2>1. sendq' = [sendq EXCEPT ![r] = q] /\ pending' = [pending EXCEPT ![r] = p]
    BY <1>1 DEF CallPrq, MayInterrupt
  <2>2. QED
    BY <2>1, SetSends
<1>2. CASE ~(~enabled[r] \/ Len(q) > NumIsendsWait)
  <2>1. PICK left \in Completed(q, inFlight) : /\ sendq' = [sendq EXCEPT ![r] = left]
                                               /\ pending' = [pending EXCEPT ![r] = p - (Load(q) - Load(left))]
    BY <1>2 DEF CallPrq, MayInterrupt
  <2>2. left \in Seq(FBuffers) /\ Load(left) \in Nat /\ Load(q) \in Nat
    BY LoadSuffix
  <2>3. p - (Load(q) - Load(left)) = Load(left)
    BY <2>2
  <2>4. QED
    BY <2>1, <2>2, <2>3, SetSends
<1>3. QED
  BY <1>1, <1>2

\* flush_next_send opens a send with its bytes.
LEMMA FlushNextSends ==
  ASSUME SendsOK, BufTypes, NEW r \in Ranks, NEW near, NEW rest,
         Head(DestQueue(r, near)) \in Ranks, FlushNext(r, near, rest)
  PROVE  SendsOK'
<1> DEFINE d == Head(DestQueue(r, near))
           b == [from |-> r, to |-> d, msgs |-> buf[r][d]]
<1>1. FlushBuffer(r, d, rest)
  BY DEF FlushNext
<1>2. b \in FBuffers /\ b.msgs = buf[r][d]
  BY DEF FBuffers, Buffers, BufTypes
<1> HIDE DEF d
<1>3. PICK left \in Completed(sendq[r], wire) :
        LET q == Append(left, b)
            p == pending[r] - (Load(sendq[r]) - Load(left)) + Cardinality(b.msgs)
        IN  IF inPrq[r]
            THEN /\ sendq' = [sendq EXCEPT ![r] = q]
                 /\ pending' = [pending EXCEPT ![r] = p]
            ELSE CallPrq(r, q, p, wire', rest)
  BY <1>1 DEF FlushBuffer
<1> DEFINE q == Append(left, b)
           p == pending[r] - (Load(sendq[r]) - Load(left)) + Cardinality(b.msgs)
<1>4. left \in Seq(FBuffers) /\ Load(left) \in Nat /\ Load(sendq[r]) \in Nat /\ pending[r] = Load(sendq[r])
  BY LoadSuffix DEF SendsOK
<1> HIDE DEF b
<1>5. q \in Seq(FBuffers) /\ Load(q) = Load(left) + Cardinality(b.msgs)
  BY <1>2, <1>4, LoadAppend
<1>6. Cardinality(b.msgs) \in Nat
  BY <1>2, FS_CardinalityType DEF FBuffers
<1>7. p = Load(q)
  BY <1>4, <1>5, <1>6
<1>8. CASE inPrq[r]
  <2>1. sendq' = [sendq EXCEPT ![r] = q] /\ pending' = [pending EXCEPT ![r] = p]
    BY <1>3, <1>8
  <2>2. QED
    BY <1>5, <1>7, <2>1, SetSends
<1>9. CASE ~inPrq[r]
  <2>1. CallPrq(r, q, p, wire', rest)
    BY <1>3, <1>9
  <2> HIDE DEF q, p
  <2>2. QED
    BY <1>5, <1>7, <2>1, CallPrqSends
<1>10. QED
  BY <1>8, <1>9

-----------------------------------------------------------------------------
(***************************************************************************)
(* What a step does to messages.                                           *)
(***************************************************************************)
\* No call of r takes or gives up a message.
KeptCalls(r) == \A n \in Msgs : Heights(stack'[r], n) = Heights(stack[r], n)

\* A call begins that carries the messages S.
Lifts(r, S) ==
  \E k : \A n \in Msgs :
    /\ Heights(stack'[r], n) = Heights(stack[r], n) \cup (IF n \in S THEN {k} ELSE {})
    /\ k \notin Heights(stack[r], n)

\* A call that carries the messages S, and no other, gives them up.
Drops(r, S) ==
  \E k : \A n \in Msgs :
    /\ Heights(stack[r], n) = Heights(stack'[r], n) \cup (IF n \in S THEN {k} ELSE {})
    /\ n \in S => k \notin Heights(stack'[r], n)

\* One call hands m to another.
Hands(r, m) ==
  /\ \E A, j, k : j \notin A /\ Heights(stack[r], m) = A \cup {j} /\ Heights(stack'[r], m) = A \cup {k}
  /\ \A n \in Msgs \ {m} : Heights(stack'[r], n) = Heights(stack[r], n)

\* m is sent to d.
Born(m, d) ==
  /\ m \notin sent /\ sent' = sent \cup {m}
  /\ dst' = [dst EXCEPT ![m] = d] /\ done' = done

\* The kinds of steps, by what they do to messages. Nothing:
Idle(r) == KeptCalls(r) /\ UNCHANGED <<msgVars, bufVars, wire, landed>>

\* m is sent, and packed or kept by a halted producer.
Begins(r, m) ==
  /\ \E d \in Ranks : Born(m, d)
  /\ UNCHANGED <<wire, landed>>
  /\ \/ Lifts(r, {m}) /\ UNCHANGED bufVars
     \/ KeptCalls(r) /\ \E e \in Ranks : PackInto(r, m, e)

\* A handler or a callback returns.
Ends(r) ==
  /\ UNCHANGED <<sent, dst, bufVars, wire, landed>>
  /\ \E m \in Msgs \cup {None} : done' = done \cup ({m} \ {None}) /\ Drops(r, {m})

\* A receive calls the handler of m.
Passes(r, m) == Hands(r, m) /\ UNCHANGED <<msgVars, bufVars, wire, landed>>

\* A halted producer or a receive packs m.
Packs(r, m) ==
  /\ Drops(r, {m}) /\ UNCHANGED <<msgVars, wire, landed>>
  /\ \E e \in Ranks : PackInto(r, m, e)

\* A buffer becomes an isend.
Flushes(r) ==
  /\ KeptCalls(r) /\ UNCHANGED msgVars
  /\ \E near \in BOOLEAN : DestQueue(r, near) # <<>> /\ \E rest : FlushNext(r, near, rest)

\* A receive begins.
Takes(r) ==
  /\ UNCHANGED <<msgVars, bufVars, wire>>
  /\ \E b \in landed : landed' = landed \ {b} /\ Lifts(r, b.msgs)

\* Every step of a rank is of one of these kinds.
Deed(r) ==
  \/ Idle(r) \/ Ends(r) \/ Flushes(r) \/ Takes(r)
  \/ \E m \in Msgs : Begins(r, m) \/ Passes(r, m) \/ Packs(r, m)

\* A frame with the messages S is pushed.
LEMMA LiftStack ==
  ASSUME NEW r, stack[r] \in Seq(FrameTypes), NEW f \in FrameTypes, NEW S, NEW t \in Seq(FrameTypes),
         \A n \in Msgs : Carries(f, n) <=> n \in S,
         \A n \in Msgs : Heights(t, n) = Heights(stack[r], n), Len(t) = Len(stack[r]),
         \A n \in Msgs : Heights(stack'[r], n) = Heights(<<f>> \o t, n)
  PROVE  Lifts(r, S)
<1>1. ASSUME NEW n \in Msgs
      PROVE  /\ Heights(stack'[r], n) = Heights(stack[r], n) \cup (IF n \in S THEN {Len(t) + 1} ELSE {})
             /\ Len(t) + 1 \notin Heights(stack[r], n)
  BY HeightsPush
<1>2. QED
  BY <1>1 DEF Lifts

\* A frame with the messages S returns.
LEMMA DropStack ==
  ASSUME NEW r, stack[r] \in Seq(FrameTypes), stack[r] # <<>>, NEW S,
         \A n \in Msgs : Carries(stack[r][1], n) <=> n \in S,
         \A n \in Msgs : Heights(stack'[r], n) = Heights(Tail(stack[r]), n)
  PROVE  Drops(r, S)
<1>1. ASSUME NEW n \in Msgs
      PROVE  /\ Heights(stack[r], n) = Heights(stack'[r], n) \cup (IF n \in S THEN {Len(stack[r])} ELSE {})
             /\ Len(stack[r]) \notin Heights(stack'[r], n)
  BY HeightsDrop
<1>2. QED
  BY <1>1 DEF Drops

\* A frame without m returns.
LEMMA DropNothing ==
  ASSUME NEW s \in Seq(FrameTypes), s # <<>>, NEW n \in Msgs, ~Carries(s[1], n)
  PROVE  Heights(Tail(s), n) = Heights(s, n)
BY HeightsDrop

\* A frame without m is pushed.
LEMMA PushNothing ==
  ASSUME NEW s \in Seq(FrameTypes), NEW f \in FrameTypes, NEW n \in Msgs, ~Carries(f, n)
  PROVE  Heights(<<f>> \o s, n) = Heights(s, n)
<1>1. Heights(<<f>> \o s, n) = Heights(s, n) \cup (IF Carries(f, n) THEN {Len(s) + 1} ELSE {})
  BY HeightsPush
<1>2. QED
  BY <1>1

\* The frame on top changes, not in carrying m.
LEMMA SwapNothing ==
  ASSUME NEW s \in Seq(FrameTypes), s # <<>>, NEW f \in FrameTypes, NEW n \in Msgs,
         Carries(f, n) <=> Carries(s[1], n)
  PROVE  Heights(<<f>> \o Tail(s), n) = Heights(s, n)
<1> DEFINE t == Tail(s)
<1>1. /\ Heights(s, n) = Heights(t, n) \cup (IF Carries(s[1], n) THEN {Len(s)} ELSE {})
      /\ t \in Seq(FrameTypes) /\ Len(t) = Len(s) - 1
  BY HeightsDrop
<1>2. Len(s) \in Nat
  BY LenProperties
<1> HIDE DEF t
<1>3. Heights(<<f>> \o t, n) = Heights(t, n) \cup (IF Carries(f, n) THEN {Len(t) + 1} ELSE {})
  BY <1>1, HeightsPush
<1>4. Len(t) + 1 = Len(s)
  BY <1>1, <1>2
<1>5. QED
  BY <1>1, <1>3, <1>4 DEF t

\* Which messages a frame carries.
LEMMA CarriedBy ==
  ASSUME NEW f \in FrameTypes, NEW n \in Msgs
  PROVE  /\ f.op \in {"user", "halt"} => (Carries(f, n) <=> f.msg = n)
         /\ f.op = "recv" => (Carries(f, n) <=> n \in f.todo)
         /\ f.op \notin {"user", "halt", "recv"} => ~Carries(f, n)
BY DEF Carries

\* Every step of user code is of one of the kinds.
LEMMA UserDeed ==
  ASSUME StackTypes, NEW r \in Ranks, Good(stack[r], inPrq[r], enabled[r]), UserStep(r)
  PROVE  Deed(r)
<1> DEFINE s == stack[r]
<1>0. /\ s \in Seq(FrameTypes) /\ s # <<>> /\ Len(s) \in Nat \ {0} /\ Top(r) = s[1] /\ s[1] \in FrameTypes
      /\ None \notin Msgs
  BY TopFacts, CommAssumption DEF StackTypes, StackFuns, Top
<1>t. stack \in [Ranks -> Seq(FrameTypes)]
  BY DEF StackTypes, StackFuns
<1> HIDE DEF s
<1>u. ASSUME InUser(r)
      PROVE  s[1].op = "user" /\ s[1].msg \in Msgs \cup {None} /\ s[1].masks \in 0..MaxMasks
  BY <1>0, <1>u, FrameFields DEF InUser
<1>1. ASSUME NEW m \in Msgs, NEW d \in Ranks, Async(r, m, d) PROVE Deed(r)
  <2>0. Born(m, d)
    BY <1>1 DEF Async, Born
  <2>1. CASE HaltNeeded(r)
    <3>1. CallPrq(r, sendq[r], pending[r], wire, <<Halt(m, d)>> \o s) /\ UNCHANGED <<bufVars, wire, landed>>
      BY <1>1, <2>1 DEF Async, s
    <3>2. /\ Halt(m, d) \in FrameTypes /\ Halt(m, d).op = "halt" /\ Halt(m, d).msg = m
          /\ <<Halt(m, d)>> \o s \in Seq(FrameTypes)
      BY <1>0, NewFrames, Cons
    <3>3. \A n \in Msgs : Heights(stack'[r], n) = Heights(<<Halt(m, d)>> \o s, n)
      BY <3>1, <3>2, CallPrqCarry
    <3>4. \A n \in Msgs : Carries(Halt(m, d), n) <=> n \in {m}
      BY <3>2, CarriedBy
    <3>5. Lifts(r, {m})
      BY <1>0, <3>2, <3>3, <3>4, LiftStack DEF s
    <3>6. QED
      BY <2>0, <3>1, <3>5 DEF Deed, Begins
  <2>2. CASE ~HaltNeeded(r)
    <3>1. PackAndCap(r, m, Hop[r][d], s) /\ UNCHANGED <<wire, landed>>
      BY <1>1, <2>2 DEF Async, s, mpiVars
    <3>2. PackInto(r, m, Hop[r][d]) /\ CallCap(r, localB'[r], remoteB'[r], s)
      BY <3>1 DEF PackAndCap
    <3>3. KeptCalls(r)
      BY <1>0, <3>2, CallCapCarry DEF KeptCalls, s
    <3>4. Hop[r][d] \in Ranks
      BY CommAssumption
    <3>5. QED
      BY <2>0, <3>1, <3>2, <3>3, <3>4 DEF Deed, Begins
  <2>3. QED
    BY <2>1, <2>2
<1>2. ASSUME AsyncBcast(r) PROVE Deed(r)
  <2>1. /\ Halt(None, r) \in FrameTypes /\ Halt(None, r).op = "halt" /\ Halt(None, r).msg = None
        /\ Bcast(FALSE) \in FrameTypes /\ Bcast(FALSE).op = "bcast"
    BY NewFrames
  <2>2. stack'[r] = <<Halt(None, r)>> \o (<<Bcast(FALSE)>> \o s)
    <3>1. <<Halt(None, r), Bcast(FALSE)>> \o s = <<Halt(None, r)>> \o (<<Bcast(FALSE)>> \o s)
      BY <1>0, <2>1, TwoCons, Zenon
    <3>2. QED
      BY <3>1, <1>2, <1>t DEF AsyncBcast, SetStack, s
  <2>3. <<Bcast(FALSE)>> \o s \in Seq(FrameTypes)
    BY <1>0, <2>1, Cons
  <2>4. ASSUME NEW n \in Msgs PROVE Heights(stack'[r], n) = Heights(stack[r], n)
    <3>1. ~Carries(Halt(None, r), n) /\ ~Carries(Bcast(FALSE), n)
      BY <1>0, <2>1, CarriedBy
    <3>2. Heights(<<Bcast(FALSE)>> \o s, n) = Heights(s, n)
      BY <1>0, <2>1, <3>1, PushNothing
    <3> DEFINE t == <<Bcast(FALSE)>> \o s
    <3> HIDE DEF t
    <3>3. Heights(<<Halt(None, r)>> \o t, n) = Heights(t, n)
      BY <2>1, <2>3, <3>1, PushNothing DEF t
    <3>4. QED
      BY <2>2, <3>2, <3>3 DEF s, t
  <2>5. QED
    BY <1>2, <2>4 DEF AsyncBcast, Deed, Idle, KeptCalls, mpiVars
<1>3. ASSUME NEW m \in Msgs, NEW d \in Ranks, ForwardBcast(r, m, d) PROVE Deed(r)
  <2>1. Born(m, d) /\ PackInto(r, m, d) /\ UNCHANGED <<wire, landed, stack>>
    BY <1>3 DEF ForwardBcast, QueueBytes, Born, mpiVars
  <2>2. QED
    BY <2>1 DEF Deed, Begins, KeptCalls
<1>4. ASSUME RegisterHook(r) PROVE Deed(r)
  BY <1>4 DEF RegisterHook, Deed, Idle, KeptCalls, mpiVars
<1>5. ASSUME Mask(r) PROVE Deed(r)
  <2>1. s[1].op = "user" /\ s[1].masks \in 0..MaxMasks /\ s[1].masks < MaxMasks
    BY <1>0, <1>5, <1>u DEF Mask
  <2>2. s[1].masks + 1 \in 0..MaxMasks
    BY <2>1, CommAssumption
  <2> DEFINE g == [s[1] EXCEPT !.masks = s[1].masks + 1]
  <2>3. g \in FrameTypes /\ g.op = "user" /\ g.msg = s[1].msg
    BY <1>0, <2>1, <2>2, MaskedFrame
  <2>4. stack'[r] = <<g>> \o Tail(s)
    BY <1>0, <1>5, <1>t DEF Mask, SetStack, Below, s
  <2> HIDE DEF g
  <2>5. ASSUME NEW n \in Msgs PROVE Heights(stack'[r], n) = Heights(stack[r], n)
    <3>1. Carries(g, n) <=> Carries(s[1], n)
      BY <1>0, <2>1, <2>3, CarriedBy
    <3>2. QED
      BY <1>0, <2>3, <2>4, <3>1, SwapNothing DEF s
  <2>6. QED
    BY <1>5, <2>5 DEF Mask, Deed, Idle, KeptCalls, mpiVars
<1>6. ASSUME Unmask(r) PROVE Deed(r)
  <2>1. s[1].op = "user" /\ s[1].masks \in 0..MaxMasks /\ s[1].masks > 0
    BY <1>0, <1>6, <1>u DEF Unmask
  <2>2. s[1].masks - 1 \in 0..MaxMasks
    BY <2>1, CommAssumption
  <2> DEFINE g == [s[1] EXCEPT !.masks = s[1].masks - 1]
             h == Halt(None, r)
  <2>3. /\ g \in FrameTypes /\ g.op = "user" /\ g.msg = s[1].msg
        /\ h \in FrameTypes /\ h.op = "halt" /\ h.msg = None
    BY <1>0, <2>1, <2>2, MaskedFrame, NewFrames
  <2>4. stack'[r] = <<h, g>> \o Tail(s)
    BY <1>0, <1>6, <1>t DEF Unmask, SetStack, Below, s
  <2> HIDE DEF g, h
  <2>5. Tail(s) \in Seq(FrameTypes)
    BY <1>0, HeadTail
  <2>6. <<g>> \o Tail(s) \in Seq(FrameTypes) /\ stack'[r] = <<h>> \o (<<g>> \o Tail(s))
    BY <2>3, <2>4, <2>5, Cons, TwoCons
  <2>7. ASSUME NEW n \in Msgs PROVE Heights(stack'[r], n) = Heights(stack[r], n)
    <3>1. (Carries(g, n) <=> Carries(s[1], n)) /\ ~Carries(h, n)
      BY <1>0, <2>1, <2>3, CarriedBy
    <3>2. Heights(<<g>> \o Tail(s), n) = Heights(s, n)
      BY <1>0, <2>3, <3>1, SwapNothing
    <3>3. Heights(stack'[r], n) = Heights(<<g>> \o Tail(s), n)
      BY <2>3, <2>6, <3>1, PushNothing
    <3>4. QED
      BY <3>2, <3>3 DEF s
  <2>8. QED
    BY <1>6, <2>7 DEF Unmask, Deed, Idle, KeptCalls, mpiVars
<1>7. ASSUME LocalProgress(r) PROVE Deed(r)
  <2> DEFINE a == FlushOne(TRUE)
             b == FlushOne(FALSE)
             t == <<b>> \o s
             rest == <<a>> \o t
  <2>1. a \in FrameTypes /\ a.op = "next" /\ b \in FrameTypes /\ b.op = "next"
    BY NewFrames
  <2>2. t \in Seq(FrameTypes)
    BY <1>0, <2>1, Cons
  <2>3. <<FlushOne(TRUE), FlushOne(FALSE)>> \o stack[r] = rest
    BY <1>0, <2>1, TwoCons DEF s
  <2>4. IF inPrq[r] THEN SetStack(r, rest) ELSE CallPrq(r, sendq[r], pending[r], wire, rest)
    BY <1>7, <2>3 DEF LocalProgress
  <2> HIDE DEF a, b, t
  <2>5. rest \in Seq(FrameTypes)
    BY <2>1, <2>2, Cons
  <2> HIDE DEF rest
  <2>6. ASSUME NEW n \in Msgs PROVE Heights(stack'[r], n) = Heights(stack[r], n)
    <3>1. ~Carries(a, n) /\ ~Carries(b, n)
      BY <2>1, CarriedBy
    <3>2. Heights(t, n) = Heights(s, n)
      BY <1>0, <2>1, <3>1, PushNothing DEF t
    <3>3. Heights(rest, n) = Heights(t, n)
      BY <2>1, <2>2, <3>1, PushNothing DEF rest
    <3>4. CASE inPrq[r]
      BY <1>t, <2>4, <3>2, <3>3, <3>4 DEF SetStack, s
    <3>5. CASE ~inPrq[r]
      <4>1. CallPrq(r, sendq[r], pending[r], wire, rest)
        BY <2>4, <3>5
      <4>2. Heights(stack'[r], n) = Heights(rest, n)
        BY <2>5, <4>1, CallPrqCarry
      <4>3. QED
        BY <3>2, <3>3, <4>2 DEF s
    <3>6. QED
      BY <3>4, <3>5
  <2>7. QED
    BY <1>7, <2>6 DEF LocalProgress, Deed, Idle, KeptCalls
<1>8. ASSUME Return(r) PROVE Deed(r)
  <2>1. s[1].op = "user" /\ s[1].msg \in Msgs \cup {None}
    BY <1>8, <1>u DEF Return
  <2> DEFINE m == s[1].msg
  <2>2. stack'[r] = Tail(s) /\ done' = done \cup ({m} \ {None})
    BY <1>0, <1>8, <1>t DEF Return, SetStack, Below, s
  <2>3. \A n \in Msgs : Carries(s[1], n) <=> n \in {m}
    BY <1>0, <2>1, CarriedBy
  <2>4. Drops(r, {m})
    BY <1>0, <2>2, <2>3, DropStack DEF s
  <2>5. QED
    BY <1>8, <2>1, <2>2, <2>4 DEF Return, Deed, Ends, mpiVars
<1>9. ASSUME EnterBarrier(r) PROVE Deed(r)
  <2> DEFINE a == FlushAll
             b == Reduce
             t == <<b>> \o s
  <2>1. a \in FrameTypes /\ a.op = "flushall" /\ b \in FrameTypes /\ b.op = "reduce"
    BY NewFrames
  <2>2. t \in Seq(FrameTypes)
    BY <1>0, <2>1, Cons
  <2>3. stack'[r] = <<a>> \o t
    BY <1>0, <1>9, <1>t, <2>1, TwoCons DEF EnterBarrier, SetStack, s
  <2> HIDE DEF a, b, t
  <2>6. ASSUME NEW n \in Msgs PROVE Heights(stack'[r], n) = Heights(stack[r], n)
    <3>1. ~Carries(a, n) /\ ~Carries(b, n)
      BY <2>1, CarriedBy
    <3>2. Heights(t, n) = Heights(s, n)
      BY <1>0, <2>1, <3>1, PushNothing DEF t
    <3>3. Heights(stack'[r], n) = Heights(t, n)
      BY <2>1, <2>2, <2>3, <3>1, PushNothing
    <3>4. QED
      BY <3>2, <3>3 DEF s
  <2>7. QED
    BY <1>9, <2>6 DEF EnterBarrier, Deed, Idle, KeptCalls, mpiVars
<1>10. QED
  BY <1>1, <1>2, <1>3, <1>4, <1>5, <1>6, <1>7, <1>8, <1>9 DEF UserStep

\* A buffer is counted only when a queue names it.
LEMMA QueueToFlush ==
  ASSUME BufTypes, NEW r \in Ranks, Accounted(r), NEW near \in BOOLEAN, Bytes(r, near) > 0
  PROVE  DestQueue(r, near) # <<>>
<1>1. Stored(r, near) # {}
  <2>1. Cardinality(Stored(r, near)) > 0
    BY DEF Accounted
  <2>2. Cardinality({}) = 0
    BY FS_EmptySet
  <2>3. QED
    BY <2>1, <2>2
<1>2. PICK d \in Ranks : d \in Filled(r, near)
  BY <1>1 DEF Stored, Filled
<1>3. PICK i \in 1..Len(DestQueue(r, near)) : DestQueue(r, near)[i] = d
  BY <1>2 DEF Accounted, Exact
<1>4. QED
  BY <1>3

\* MPI_Testsome reports the one receive it was asked for.
LEMMA OneOf ==
  ASSUME NEW S, IsFiniteSet(S), Cardinality(S) = 1
  PROVE  S = {CHOOSE b \in S : TRUE} /\ (CHOOSE b \in S : TRUE) \in S
<1>1. PICK x : S = {x}
  BY FS_Singleton
<1>2. QED
  BY <1>1

\* A call that carries no message returns.
LEMMA LeaveIdle ==
  ASSUME NEW s \in Seq(FrameTypes), s # <<>>,
         s[1].op \notin {"user", "halt", "recv"} \/ (s[1].op = "halt" /\ s[1].msg = None)
           \/ (s[1].op = "recv" /\ s[1].todo = {}),
         NEW n \in Msgs
  PROVE  Heights(Tail(s), n) = Heights(s, n)
<1>1. s[1] \in FrameTypes
  BY HeadTail
<1>2. ~Carries(s[1], n)
  BY <1>1, CarriedBy, CommAssumption
<1>3. QED
  BY <1>2, DropNothing

\* The frame on top of the stack changes in what says nothing of messages.
LEMMA TurnIdle ==
  ASSUME NEW s \in Seq(FrameTypes), s # <<>>, NEW f \in FrameTypes, f.op = s[1].op,
         f.op \notin {"user", "halt", "recv"}, NEW n \in Msgs
  PROVE  <<f>> \o Tail(s) \in Seq(FrameTypes) /\ Heights(<<f>> \o Tail(s), n) = Heights(s, n)
<1>1. s[1] \in FrameTypes /\ Tail(s) \in Seq(FrameTypes)
  BY HeadTail
<1>2. ~Carries(s[1], n) /\ ~Carries(f, n)
  BY <1>1, CarriedBy
<1>3. QED
  BY <1>1, <1>2, SwapNothing, Cons

\* A receive is handled on top of the stack t.
LEMMA TakeDeed ==
  ASSUME NEW r \in Ranks, stack[r] \in Seq(FrameTypes), NEW b \in landed, landed \subseteq Buffers,
         landed' = landed \ {b}, UNCHANGED <<msgVars, bufVars, wire>>,
         NEW t \in Seq(FrameTypes), Len(t) = Len(stack[r]), stack'[r] = <<Recv(b)>> \o t,
         \A n \in Msgs : Heights(t, n) = Heights(stack[r], n)
  PROVE  Deed(r)
<1>1. Recv(b) \in FrameTypes /\ Recv(b).op = "recv" /\ Recv(b).todo = b.msgs
  BY NewFrames DEF Buffers
<1>2. \A n \in Msgs : Carries(Recv(b), n) <=> n \in b.msgs
  BY <1>1, CarriedBy
<1>3. Lifts(r, b.msgs)
  BY <1>1, <1>2, LiftStack
<1>4. QED
  BY <1>3 DEF Deed, Takes

\* flush_next_send, called by what carries nothing.
LEMMA FlushDeed ==
  ASSUME StackTypes, NEW r \in Ranks, NEW near \in BOOLEAN, NEW rest \in Seq(FrameTypes),
         DestQueue(r, near) # <<>>, FlushNext(r, near, rest), UNCHANGED msgVars,
         \A n \in Msgs : Heights(rest, n) = Heights(stack[r], n)
  PROVE  Deed(r)
<1>1. KeptCalls(r)
  BY FlushNextCarry DEF KeptCalls
<1>2. QED
  BY <1>1 DEF Deed, Flushes

\* process_receive_queue, called by what carries nothing.
LEMMA PrqDeed ==
  ASSUME StackTypes, NEW r \in Ranks, NEW q, NEW p, NEW inFlight, NEW rest \in Seq(FrameTypes),
         CallPrq(r, q, p, inFlight, rest), UNCHANGED <<msgVars, bufVars, wire, landed>>,
         \A n \in Msgs : Heights(rest, n) = Heights(stack[r], n)
  PROVE  Deed(r)
<1>1. KeptCalls(r)
  BY CallPrqCarry DEF KeptCalls
<1>2. QED
  BY <1>1 DEF Deed, Idle

\* A step of the stack only.
LEMMA SetDeed ==
  ASSUME StackTypes, NEW r \in Ranks, NEW rest,
         SetStack(r, rest), UNCHANGED <<msgVars, bufVars, wire, landed>>,
         \A n \in Msgs : Heights(rest, n) = Heights(stack[r], n)
  PROVE  Deed(r)
<1>1. KeptCalls(r)
  BY DEF KeptCalls, StackTypes, StackFuns, SetStack
<1>2. QED
  BY <1>1 DEF Deed, Idle

\* Every step of the library is of one of the kinds.
LEMMA LibraryDeed ==
  ASSUME StackTypes, BufTypes, landed \subseteq Buffers, IsFiniteSet(landed), NEW r \in Ranks, Accounted(r),
         Good(stack[r], inPrq[r], enabled[r]), LibraryStep(r),
         \A m \in Msgs : Heights(stack[r], m) # {} => dst[m] \in Ranks
  PROVE  Deed(r)
<1> DEFINE s == stack[r]
           t == Tail(s)
<1>0. /\ s \in Seq(FrameTypes) /\ s # <<>> /\ Len(s) \in Nat \ {0} /\ Top(r) = s[1] /\ s[1] \in FrameTypes
      /\ None \notin Msgs
  BY TopFacts, CommAssumption DEF StackTypes, StackFuns, Top
<1>b. Below(r) = t /\ t \in Seq(FrameTypes) /\ Len(t) = Len(s) - 1
  BY <1>0, HeadTail DEF Below
<1>s. stack[r] = s
  OBVIOUS
<1>t. stack \in [Ranks -> Seq(FrameTypes)]
  BY DEF StackTypes, StackFuns
<1> HIDE DEF s, t
<1>e. ASSUME s[1].op \notin {"user", "halt", "recv"} \/ (s[1].op = "halt" /\ s[1].msg = None)
               \/ (s[1].op = "recv" /\ s[1].todo = {}),
             NEW n \in Msgs
      PROVE  Heights(t, n) = Heights(s, n)
  BY <1>0, <1>e, LeaveIdle DEF t
<1>f. ASSUME NEW f \in FrameTypes, f.op = s[1].op, f.op \notin {"user", "halt", "recv"}, NEW n \in Msgs
      PROVE  Heights(<<f>> \o t, n) = Heights(s, n)
  BY <1>0, <1>f, TurnIdle DEF t
<1>g. ASSUME NEW f \in FrameTypes
      PROVE  <<f>> \o t \in Seq(FrameTypes) /\ Len(<<f>> \o t) = Len(s)
  BY <1>0, <1>b, <1>g, Cons
<1>1. ASSUME HaltReceive(r) PROVE Deed(r)
  <2>1. CallPrq(r, sendq[r], pending[r], wire, s) /\ UNCHANGED <<msgVars, bufVars, wire, landed>>
    BY <1>1, <1>s DEF HaltReceive
  <2>2. QED
    BY <1>0, <1>s, <2>1, PrqDeed
<1>2. ASSUME HaltEnd(r) PROVE Deed(r)
  <2>0. s[1].op = "halt" /\ s[1].msg \in Msgs \cup {None} /\ s[1].to \in Ranks
    BY <1>0, <1>2, FrameFields DEF HaltEnd
  <2>1. CASE s[1].msg = None
    <3>1. SetStack(r, t) /\ UNCHANGED <<msgVars, bufVars, wire, landed>>
      BY <1>0, <1>b, <1>2, <2>1 DEF HaltEnd, mpiVars
    <3>2. QED
      BY <1>b, <1>e, <1>s, <2>0, <2>1, <3>1, SetDeed
  <2>2. CASE s[1].msg # None
    <3> DEFINE m == s[1].msg
               e == Hop[r][s[1].to]
    <3>1. m \in Msgs /\ e \in Ranks
      BY <2>0, <2>2, CommAssumption
    <3>2. PackAndCap(r, m, e, t) /\ UNCHANGED <<msgVars, wire, landed>>
      BY <1>0, <1>b, <1>2, <2>2 DEF HaltEnd, mpiVars
    <3>3. \A n \in Msgs : Carries(s[1], n) <=> n \in {m}
      BY <1>0, <2>0, CarriedBy
    <3> HIDE DEF m, e
    <3>4. PackInto(r, m, e) /\ CallCap(r, localB'[r], remoteB'[r], t)
      BY <3>2 DEF PackAndCap
    <3>5. \A n \in Msgs : Heights(stack'[r], n) = Heights(t, n)
      BY <1>b, <3>4, CallCapCarry
    <3>6. Drops(r, {m})
      BY <1>0, <1>s, <3>3, <3>5, DropStack DEF t
    <3>7. QED
      BY <3>1, <3>2, <3>4, <3>6 DEF Deed, Packs
  <2>3. QED
    BY <2>1, <2>2
<1>3. ASSUME NEW m \in Msgs, NEW d \in Ranks, BcastCopy(r, m, d) PROVE Deed(r)
  <2>1. /\ s[1].op = "bcast" /\ Born(m, d) /\ PackInto(r, m, d) /\ UNCHANGED <<wire, landed>>
        /\ stack'[r] = <<Bcast(TRUE)>> \o t
    BY <1>0, <1>b, <1>3, <1>t DEF BcastCopy, QueueBytes, Born, mpiVars, SetStack
  <2>2. Bcast(TRUE) \in FrameTypes /\ Bcast(TRUE).op = "bcast"
    BY NewFrames
  <2>3. \A n \in Msgs : Heights(<<Bcast(TRUE)>> \o t, n) = Heights(s, n)
    BY <1>f, <2>1, <2>2
  <2>4. KeptCalls(r)
    BY <1>s, <2>1, <2>3 DEF KeptCalls
  <2>5. QED
    BY <2>1, <2>4 DEF Deed, Begins
<1>4. ASSUME BcastEnd(r) PROVE Deed(r)
  <2>1. s[1].op = "bcast" /\ CallCap(r, localB[r], remoteB[r], t) /\ UNCHANGED <<msgVars, bufVars, wire, landed>>
    BY <1>0, <1>b, <1>4 DEF BcastEnd, mpiVars
  <2>2. \A n \in Msgs : Heights(stack'[r], n) = Heights(t, n)
    BY <1>b, <2>1, CallCapCarry
  <2>3. \A n \in Msgs : Heights(t, n) = Heights(s, n)
    BY <1>e, <2>1
  <2>4. QED
    BY <1>s, <2>1, <2>2, <2>3 DEF Deed, Idle, KeptCalls
<1>5. ASSUME CapLocal(r) PROVE Deed(r)
  <2>1. localB[r] > LocalCap /\ FlushNext(r, TRUE, s) /\ UNCHANGED msgVars
    BY <1>5, <1>s DEF CapLocal
  <2>2. localB[r] \in Nat /\ LocalCap \in Nat
    BY CommAssumption DEF BufTypes
  <2>3. Bytes(r, TRUE) > 0
    BY <2>1, <2>2 DEF Bytes
  <2>4. DestQueue(r, TRUE) # <<>>
    BY <2>3, QueueToFlush
  <2>5. QED
    BY <1>0, <1>s, <2>1, <2>4, FlushDeed
<1>6. ASSUME CapRemote(r) PROVE Deed(r)
  <2>0. s[1].op = "cap" /\ UNCHANGED msgVars
    BY <1>0, <1>6 DEF CapRemote
  <2>1. CASE remoteB[r] > RemoteCap
    <3>1. FlushNext(r, FALSE, <<Cap("remote")>> \o t)
      BY <1>b, <1>6, <2>1 DEF CapRemote
    <3>2. remoteB[r] \in Nat /\ RemoteCap \in Nat
      BY CommAssumption DEF BufTypes
    <3>3. Bytes(r, FALSE) > 0
      BY <2>1, <3>2 DEF Bytes
    <3>4. DestQueue(r, FALSE) # <<>>
      BY <3>3, QueueToFlush
    <3>5. Cap("remote") \in FrameTypes /\ Cap("remote").op = "cap"
      BY NewFrames
    <3>6. \A n \in Msgs : Heights(<<Cap("remote")>> \o t, n) = Heights(s, n)
      BY <1>f, <2>0, <3>5
    <3>7. QED
      BY <1>g, <1>s, <2>0, <3>1, <3>4, <3>5, <3>6, FlushDeed
  <2>2. CASE ~(remoteB[r] > RemoteCap)
    <3>1. SetStack(r, t) /\ UNCHANGED <<msgVars, bufVars, wire, landed>>
      BY <1>b, <1>6, <2>2 DEF CapRemote, mpiVars
    <3>2. QED
      BY <1>b, <1>e, <1>s, <2>0, <3>1, SetDeed
  <2>3. QED
    BY <2>1, <2>2
<1>7. ASSUME FlushOneStep(r) PROVE Deed(r)
  <2>0. s[1].op = "next" /\ s[1].near \in BOOLEAN /\ UNCHANGED msgVars
    BY <1>0, <1>7, FrameFields DEF FlushOneStep
  <2>1. CASE DestQueue(r, s[1].near) # <<>>
    <3>1. FlushNext(r, s[1].near, t)
      BY <1>0, <1>b, <1>7, <2>1 DEF FlushOneStep
    <3>2. QED
      BY <1>b, <1>e, <1>s, <2>0, <2>1, <3>1, FlushDeed
  <2>2. CASE DestQueue(r, s[1].near) = <<>>
    <3>1. SetStack(r, t) /\ UNCHANGED <<msgVars, bufVars, wire, landed>>
      BY <1>0, <1>b, <1>7, <2>2 DEF FlushOneStep, mpiVars
    <3>2. QED
      BY <1>b, <1>e, <1>s, <2>0, <3>1, SetDeed
  <2>3. QED
    BY <2>1, <2>2
<1>8. ASSUME PrqWait(r) PROVE Deed(r)
  <2>0. s[1].op = "prq" /\ UNCHANGED <<msgVars, bufVars, wire>>
    BY <1>0, <1>8 DEF PrqWait
  <2>1. PICK some \in SUBSET LandedAt(r) :
          /\ Cardinality(some) = IF LandedAt(r) = {} THEN 0 ELSE 1
          /\ landed' = landed \ some
          /\ LET rest == <<[s[1] EXCEPT !.phase = "test", !.got = some # {}]>> \o t
             IN  SetStack(r, IF some = {} THEN rest ELSE <<Recv(CHOOSE b \in some : TRUE)>> \o rest)
    BY <1>0, <1>b, <1>8 DEF PrqWait
  <2> DEFINE f == [s[1] EXCEPT !.phase = "test", !.got = some # {}]
             rest == <<f>> \o t
  <2>2. (some # {}) \in BOOLEAN
    OBVIOUS
  <2>3. f \in FrameTypes /\ f.op = "prq"
    BY <1>0, <2>0, <2>2, PrqFrame
  <2>4. some = {} => SetStack(r, rest)
    BY <2>1
  <2>5. some # {} => SetStack(r, <<Recv(CHOOSE b \in some : TRUE)>> \o rest)
    BY <2>1
  <2> HIDE DEF f
  <2>6. \A n \in Msgs : Heights(rest, n) = Heights(s, n)
    BY <1>f, <2>0, <2>3
  <2>7. rest \in Seq(FrameTypes) /\ Len(rest) = Len(s)
    BY <1>g, <2>3
  <2> HIDE DEF rest
  <2>8. CASE some = {}
    <3>1. SetStack(r, rest) /\ UNCHANGED <<msgVars, bufVars, wire, landed>>
      BY <2>0, <2>1, <2>4, <2>8
    <3>2. QED
      BY <1>s, <2>6, <3>1, SetDeed
  <2>9. CASE some # {}
    <3>1. IsFiniteSet(some) /\ Cardinality(some) = 1 /\ some \subseteq landed
      BY <2>1, <2>9, FS_Subset DEF LandedAt
    <3> DEFINE c == CHOOSE b \in some : TRUE
    <3>2. some = {c} /\ c \in landed
      BY <3>1, OneOf
    <3>3. stack'[r] = <<Recv(c)>> \o rest
      BY <1>t, <2>5, <2>9 DEF SetStack
    <3>4. landed' = landed \ {c}
      BY <2>1, <3>2
    <3> HIDE DEF c
    <3>5. QED
      BY <1>0, <1>s, <2>0, <2>6, <2>7, <3>2, <3>3, <3>4, TakeDeed
  <2>10. QED
    BY <2>8, <2>9
<1>9. ASSUME PrqReceive(r) PROVE Deed(r)
  <2> DEFINE f == [s[1] EXCEPT !.got = TRUE]
             rest == <<f>> \o t
  <2>0. s[1].op = "prq" /\ UNCHANGED <<msgVars, bufVars, wire>>
    BY <1>0, <1>9 DEF PrqReceive
  <2>1. PICK b \in landed : landed' = landed \ {b} /\ SetStack(r, <<Recv(b), f>> \o t)
    BY <1>0, <1>b, <1>9 DEF PrqReceive, LandedAt
  <2>2. f \in FrameTypes /\ f.op = "prq"
    BY <1>0, <2>0, PrqFrame
  <2>3. Recv(b) \in FrameTypes
    BY NewFrames DEF Buffers
  <2> HIDE DEF f
  <2>4. stack'[r] = <<Recv(b)>> \o rest
    BY <1>b, <1>t, <2>1, <2>2, <2>3, TwoCons DEF SetStack
  <2>6. \A n \in Msgs : Heights(rest, n) = Heights(s, n)
    BY <1>f, <2>0, <2>2
  <2>7. rest \in Seq(FrameTypes) /\ Len(rest) = Len(s)
    BY <1>g, <2>2
  <2> HIDE DEF rest
  <2>8. QED
    BY <1>0, <1>s, <2>0, <2>1, <2>4, <2>6, <2>7, TakeDeed
<1>10. ASSUME PrqReturn(r) PROVE Deed(r)
  <2>0. /\ s[1].op = "prq" /\ UNCHANGED <<msgVars, bufVars, wire, landed>>
        /\ SetStack(r, IF Head(t).op = "flushall"
                       THEN <<[Head(t) EXCEPT !.did = Head(t).did \/ s[1].got]>> \o Tail(t) ELSE t)
    BY <1>0, <1>b, <1>10 DEF PrqReturn, mpiVars
  <2>1. \A n \in Msgs : Heights(t, n) = Heights(s, n)
    BY <1>e, <2>0
  <2>2. Len(s) > 1 /\ t # <<>>
    <3>1. s[1].op # "user" => Len(s) > 1
      BY TopFacts DEF s, StackTypes, StackFuns
    <3>2. Len(t) # 0
      BY <1>b, <1>0, <2>0, <3>1
    <3>3. QED
      BY <2>0, <3>1, <3>2
  <2>3. Head(t) = t[1] /\ t[1] \in FrameTypes
    BY <1>b, <2>2, HeadTail
  <2>4. CASE Head(t).op = "flushall"
    <3> DEFINE f == [t[1] EXCEPT !.did = t[1].did \/ s[1].got]
    <3>1. (t[1].did \/ s[1].got) \in BOOLEAN
      OBVIOUS
    <3>2. f \in FrameTypes /\ f.op = "flushall"
      BY <2>3, <2>4, <3>1, DidFrame
    <3>3. SetStack(r, <<f>> \o Tail(t))
      BY <2>0, <2>3, <2>4
    <3> HIDE DEF f
    <3>4. \A n \in Msgs : Heights(<<f>> \o Tail(t), n) = Heights(t, n)
      BY <1>b, <2>2, <2>3, <2>4, <3>2, TurnIdle
    <3>5. QED
      BY <1>s, <2>0, <2>1, <3>3, <3>4, SetDeed
  <2>5. CASE Head(t).op # "flushall"
    BY <1>s, <2>0, <2>1, <2>5, SetDeed
  <2>6. QED
    BY <2>4, <2>5
<1>11. ASSUME RecvMessage(r) PROVE Deed(r)
  <2>0. s[1].op = "recv" /\ s[1].todo \in SUBSET Msgs /\ UNCHANGED <<msgVars, wire, landed>>
    BY <1>0, <1>11, FrameFields DEF RecvMessage, mpiVars
  <2>1. PICK m \in s[1].todo :
          LET rest == <<[s[1] EXCEPT !.todo = @ \ {m}]>> \o t
          IN  IF dst[m] = r
              THEN SetStack(r, <<User(m)>> \o rest) /\ UNCHANGED bufVars
              ELSE PackAndCap(r, m, Hop[r][dst[m]], rest)
    BY <1>0, <1>b, <1>11 DEF RecvMessage
  <2> DEFINE f == [s[1] EXCEPT !.todo = @ \ {m}]
             rest == <<f>> \o t
  <2>2. m \in Msgs /\ f \in FrameTypes /\ f.op = "recv" /\ f.todo = s[1].todo \ {m}
    BY <1>0, <2>0, <2>1, RecvFrame
  <2>3. dst[m] = r => SetStack(r, <<User(m)>> \o rest) /\ UNCHANGED bufVars
    BY <2>1
  <2>4. dst[m] # r => PackAndCap(r, m, Hop[r][dst[m]], rest)
    BY <2>1
  <2> HIDE DEF f
  <2>5. rest \in Seq(FrameTypes) /\ Len(rest) = Len(s)
    BY <1>g, <2>2
  <2>6. ASSUME NEW n \in Msgs
        PROVE  /\ Heights(s, n) = Heights(t, n) \cup (IF n \in s[1].todo THEN {Len(s)} ELSE {})
               /\ Heights(rest, n) = Heights(t, n) \cup (IF n \in f.todo THEN {Len(s)} ELSE {})
               /\ Len(s) \notin Heights(t, n)
    <3>1. /\ Heights(s, n) = Heights(t, n) \cup (IF Carries(s[1], n) THEN {Len(s)} ELSE {})
          /\ Len(s) \notin Heights(t, n)
      BY <1>0, HeightsDrop DEF t
    <3>2. Heights(rest, n) = Heights(t, n) \cup (IF Carries(f, n) THEN {Len(t) + 1} ELSE {})
      BY <1>b, <2>2, HeightsPush
    <3>3. Len(t) + 1 = Len(s)
      BY <1>0, <1>b
    <3>4. (Carries(s[1], n) <=> n \in s[1].todo) /\ (Carries(f, n) <=> n \in f.todo)
      BY <1>0, <2>0, <2>2, CarriedBy
    <3>5. QED
      BY <3>1, <3>2, <3>3, <3>4
  <2> HIDE DEF rest
  <2>7. CASE dst[m] = r
    <3>1. stack'[r] = <<User(m)>> \o rest /\ UNCHANGED bufVars
      BY <1>t, <2>3, <2>7 DEF SetStack
    <3>2. User(m) \in FrameTypes /\ User(m).op = "user" /\ User(m).msg = m
      BY <2>2, NewFrames
    <3>3. \A n \in Msgs : Carries(User(m), n) <=> n = m
      BY <3>2, CarriedBy
    <3>4. \A n \in Msgs : Heights(stack'[r], n) = Heights(rest, n) \cup (IF n = m THEN {Len(s) + 1} ELSE {})
      BY <2>5, <3>1, <3>2, <3>3, HeightsPush
    <3>5. /\ Heights(stack[r], m) = Heights(t, m) \cup {Len(s)} /\ Len(s) \notin Heights(t, m)
          /\ Heights(stack'[r], m) = Heights(t, m) \cup {Len(s) + 1}
      BY <1>s, <2>1, <2>2, <2>6, <3>4
    <3>6. ASSUME NEW n \in Msgs \ {m} PROVE Heights(stack'[r], n) = Heights(stack[r], n)
      <4>1. Heights(stack'[r], n) = Heights(rest, n)
        BY <3>4
      <4>2. n \in f.todo <=> n \in s[1].todo
        BY <2>2
      <4>3. QED
        BY <1>s, <2>6, <4>1, <4>2
    <3>7. Hands(r, m)
      BY <3>5, <3>6 DEF Hands
    <3>8. QED
      BY <2>0, <2>2, <3>1, <3>7 DEF Deed, Passes
  <2>8. CASE dst[m] # r
    <3>1. Heights(stack[r], m) # {}
      BY <1>s, <2>1, <2>2, <2>6
    <3>2. Hop[r][dst[m]] \in Ranks
      BY <2>2, <3>1, CommAssumption
    <3>3. PackInto(r, m, Hop[r][dst[m]]) /\ CallCap(r, localB'[r], remoteB'[r], rest)
      BY <2>4, <2>8 DEF PackAndCap
    <3>4. \A n \in Msgs : Heights(stack'[r], n) = Heights(rest, n)
      BY <2>5, <3>3, CallCapCarry
    <3>5. ASSUME NEW n \in Msgs
          PROVE  /\ Heights(stack[r], n) = Heights(stack'[r], n) \cup (IF n \in {m} THEN {Len(s)} ELSE {})
                 /\ n \in {m} => Len(s) \notin Heights(stack'[r], n)
      <4>1. Heights(stack'[r], n) = Heights(rest, n)
        BY <3>4
      <4>2. CASE n = m
        BY <1>s, <2>1, <2>2, <2>6, <4>1, <4>2
      <4>3. CASE n # m
        <5>1. n \in f.todo <=> n \in s[1].todo
          BY <2>2, <4>3
        <5>2. QED
          BY <1>s, <2>6, <4>1, <4>3, <5>1
      <4>4. QED
        BY <4>2, <4>3
    <3>6. Drops(r, {m})
      BY <3>5 DEF Drops
    <3>7. QED
      BY <2>0, <2>2, <3>2, <3>3, <3>6 DEF Deed, Packs
  <2>9. QED
    BY <2>7, <2>8
<1>12. ASSUME RecvEnd(r) PROVE Deed(r)
  <2>1. /\ s[1].op = "recv" /\ s[1].todo = {} /\ CallCap(r, localB[r], remoteB[r], t)
        /\ UNCHANGED <<msgVars, bufVars, wire, landed>>
    BY <1>0, <1>b, <1>12 DEF RecvEnd, mpiVars
  <2>2. \A n \in Msgs : Heights(stack'[r], n) = Heights(t, n)
    BY <1>b, <2>1, CallCapCarry
  <2>3. \A n \in Msgs : Heights(t, n) = Heights(s, n)
    BY <1>e, <2>1
  <2>4. QED
    BY <1>s, <2>1, <2>2, <2>3 DEF Deed, Idle, KeptCalls
<1>G. ASSUME s[1].op = "flushall", NEW phase \in Phases, NEW did \in BOOLEAN
      PROVE  /\ GoTo(r, phase, did) \in Seq(FrameTypes)
             /\ Len(GoTo(r, phase, did)) = Len(s)
             /\ \A n \in Msgs : Heights(GoTo(r, phase, did), n) = Heights(s, n)
  <2> DEFINE f == [s[1] EXCEPT !.phase = phase, !.did = did]
  <2>1. f \in FrameTypes /\ f.op = "flushall"
    BY <1>0, <1>G DEF FrameTypes, Phases, Reduce
  <2>2. GoTo(r, phase, did) = <<f>> \o t
    BY <1>0, <1>b DEF GoTo
  <2> HIDE DEF f
  <2>3. QED
    BY <1>f, <1>g, <1>G, <2>1, <2>2
<1>13. ASSUME FlushAllPoll(r) PROVE Deed(r)
  <2>1. s[1].op = "flushall" /\ CallPrq(r, sendq[r], pending[r], wire, GoTo(r, "hooks", FALSE))
        /\ UNCHANGED <<msgVars, bufVars, wire, landed>>
    BY <1>0, <1>13 DEF FlushAllPoll, InPhase
  <2>2. "hooks" \in Phases /\ FALSE \in BOOLEAN
    BY DEF Phases
  <2>3. /\ GoTo(r, "hooks", FALSE) \in Seq(FrameTypes)
        /\ \A n \in Msgs : Heights(GoTo(r, "hooks", FALSE), n) = Heights(stack[r], n)
    BY <1>G, <1>s, <2>1, <2>2
  <2>4. QED
    BY <2>1, <2>3, PrqDeed
<1>14. ASSUME FlushAllHook(r) PROVE Deed(r)
  <2>1. s[1].op = "flushall" /\ SetStack(r, <<User(None)>> \o GoTo(r, "hooks", TRUE))
        /\ UNCHANGED <<msgVars, bufVars, wire, landed>>
    BY <1>0, <1>14 DEF FlushAllHook, InPhase, mpiVars
  <2>2. "hooks" \in Phases /\ TRUE \in BOOLEAN
    BY DEF Phases
  <2>3. /\ GoTo(r, "hooks", TRUE) \in Seq(FrameTypes)
        /\ \A n \in Msgs : Heights(GoTo(r, "hooks", TRUE), n) = Heights(stack[r], n)
    BY <1>G, <1>s, <2>1, <2>2
  <2>4. User(None) \in FrameTypes /\ \A n \in Msgs : ~Carries(User(None), n)
    BY <1>0, NewFrames, CarriedBy
  <2>5. \A n \in Msgs : Heights(<<User(None)>> \o GoTo(r, "hooks", TRUE), n) = Heights(stack[r], n)
    BY <2>3, <2>4, PushNothing
  <2>6. QED
    BY <2>1, <2>5, SetDeed
<1>15. ASSUME NEW near \in BOOLEAN, FlushAllBuffer(r, near) PROVE Deed(r)
  <2>1. /\ s[1].op = "flushall" /\ DestQueue(r, near) # <<>> /\ UNCHANGED msgVars
        /\ FlushNext(r, near, GoTo(r, s[1].phase, TRUE))
    BY <1>0, <1>15 DEF FlushAllBuffer, InPhase
  <2>2. s[1].phase \in Phases /\ TRUE \in BOOLEAN
    BY <1>0, <2>1, FrameFields DEF Phases
  <2>3. /\ GoTo(r, s[1].phase, TRUE) \in Seq(FrameTypes)
        /\ \A n \in Msgs : Heights(GoTo(r, s[1].phase, TRUE), n) = Heights(stack[r], n)
    BY <1>G, <1>s, <2>1, <2>2
  <2>4. QED
    BY <2>1, <2>3, FlushDeed
<1>16. ASSUME FlushAllIsends(r) PROVE Deed(r)
  <2>1. CallPrq(r, sendq[r], pending[r], wire, s) /\ UNCHANGED <<msgVars, bufVars, wire, landed>>
    BY <1>16, <1>s DEF FlushAllIsends
  <2>2. QED
    BY <1>0, <1>s, <2>1, PrqDeed
<1>17. ASSUME FlushAllNext(r) PROVE Deed(r)
  <2>1. s[1].op = "flushall" /\ UNCHANGED <<msgVars, bufVars, wire, landed>>
    BY <1>0, <1>17 DEF FlushAllNext, InPhase, mpiVars
  <2>2. s[1].did \in BOOLEAN
    BY <1>0, <2>1, FrameFields
  <2>3. \/ SetStack(r, t)
        \/ \E phase \in Phases, did \in BOOLEAN : SetStack(r, GoTo(r, phase, did))
    BY <1>0, <1>b, <1>17, <2>2 DEF FlushAllNext, Phases
  <2>4. CASE SetStack(r, t)
    BY <1>e, <1>s, <2>1, <2>4, SetDeed
  <2>5. ASSUME NEW phase \in Phases, NEW did \in BOOLEAN, SetStack(r, GoTo(r, phase, did)) PROVE Deed(r)
    <3>1. \A n \in Msgs : Heights(GoTo(r, phase, did), n) = Heights(stack[r], n)
      BY <1>G, <1>s, <2>1
    <3>2. QED
      BY <2>1, <2>5, <3>1, SetDeed
  <2>6. QED
    BY <2>3, <2>4, <2>5
<1>18. ASSUME ReduceReceive(r) PROVE Deed(r)
  <2> DEFINE rest == <<FlushAll>> \o s
  <2>1. PICK b \in landed : landed' = landed \ {b} /\ SetStack(r, <<Recv(b), FlushAll>> \o s)
    BY <1>18, <1>s DEF ReduceReceive, LandedAt
  <2>2. UNCHANGED <<msgVars, bufVars, wire>>
    BY <1>18 DEF ReduceReceive
  <2>3. Recv(b) \in FrameTypes /\ Recv(b).op = "recv" /\ Recv(b).todo = b.msgs /\ FlushAll \in FrameTypes
        /\ FlushAll.op = "flushall"
    BY NewFrames DEF Buffers
  <2>4. stack'[r] = <<Recv(b)>> \o rest
    <3>1. <<Recv(b), FlushAll>> \o s = <<Recv(b)>> \o (<<FlushAll>> \o s)
      BY <1>0, <2>3, TwoCons, Zenon
    <3>2. QED
      BY <3>1, <1>t, <2>1 DEF SetStack
  <2>5. rest \in Seq(FrameTypes) /\ Len(rest) = Len(s) + 1
    BY <1>0, <2>3, Cons
  <2>6. \A n \in Msgs : ~Carries(FlushAll, n) /\ (Carries(Recv(b), n) <=> n \in b.msgs)
    BY <2>3, CarriedBy
  <2>7. \A n \in Msgs : Heights(rest, n) = Heights(s, n)
    BY <1>0, <2>3, <2>6, PushNothing
  <2> HIDE DEF rest
  <2>8. ASSUME NEW n \in Msgs
        PROVE  /\ Heights(stack'[r], n) = Heights(stack[r], n) \cup (IF n \in b.msgs THEN {Len(s) + 2} ELSE {})
               /\ Len(s) + 2 \notin Heights(stack[r], n)
    <3>1. /\ Heights(<<Recv(b)>> \o rest, n) = Heights(rest, n) \cup (IF Carries(Recv(b), n) THEN {Len(rest) + 1} ELSE {})
          /\ Len(rest) + 1 \notin Heights(rest, n)
      BY <2>3, <2>5, HeightsPush
    <3>2. Len(rest) + 1 = Len(s) + 2
      BY <1>0, <2>5
    <3>3. QED
      BY <1>s, <2>4, <2>6, <2>7, <3>1, <3>2
  <2>9. Lifts(r, b.msgs)
    BY <2>8 DEF Lifts
  <2>10. QED
    BY <2>1, <2>2, <2>9 DEF Deed, Takes
<1>19. QED
  BY <1>1, <1>2, <1>3, <1>4, <1>5, <1>6, <1>7, <1>8, <1>9, <1>10, <1>11, <1>12, <1>13, <1>14, <1>15, <1>16,
     <1>17, <1>18 DEF LibraryStep

-----------------------------------------------------------------------------
(***************************************************************************)
(* Sends, for each step.                                                   *)
(***************************************************************************)
\* No send opens or completes.
LEMMA SameSends ==
  ASSUME SendsOK, UNCHANGED <<sendq, pending>>
  PROVE  SendsOK'
BY DEF SendsOK

\* process_receive_queue is called.
LEMMA PrqSends ==
  ASSUME SendsOK, NEW r \in Ranks, NEW inFlight, NEW rest,
         CallPrq(r, sendq[r], pending[r], inFlight, rest)
  PROVE  SendsOK'
<1>1. sendq[r] \in Seq(FBuffers) /\ pending[r] = Load(sendq[r])
  BY DEF SendsOK
<1>2. QED
  BY <1>1, CallPrqSends

\* Steps of user code keep the bytes of the send queue.
LEMMA UserSends ==
  ASSUME SendsOK, NEW r \in Ranks, UserStep(r)
  PROVE  SendsOK'
<1>1. ASSUME NEW m \in Msgs, NEW d \in Ranks, Async(r, m, d) PROVE SendsOK'
  BY <1>1, PrqSends, SameSends DEF Async, mpiVars
<1>2. CASE AsyncBcast(r)
  BY <1>2, SameSends DEF AsyncBcast, mpiVars
<1>3. ASSUME NEW m \in Msgs, NEW d \in Ranks, ForwardBcast(r, m, d) PROVE SendsOK'
  BY <1>3, SameSends DEF ForwardBcast, QueueBytes, mpiVars
<1>4. CASE RegisterHook(r)
  BY <1>4, SameSends DEF RegisterHook, mpiVars
<1>5. CASE Mask(r)
  BY <1>5, SameSends DEF Mask, mpiVars
<1>6. CASE Unmask(r)
  BY <1>6, SameSends DEF Unmask, mpiVars
<1>7. CASE LocalProgress(r)
  BY <1>7, PrqSends, SameSends DEF LocalProgress
<1>8. CASE Return(r)
  BY <1>8, SameSends DEF Return, mpiVars
<1>9. CASE EnterBarrier(r)
  BY <1>9, SameSends DEF EnterBarrier, mpiVars
<1>10. QED
  BY <1>1, <1>2, <1>3, <1>4, <1>5, <1>6, <1>7, <1>8, <1>9 DEF UserStep

\* Steps of the library keep the bytes of the send queue.
LEMMA LibrarySends ==
  ASSUME SendsOK, BufTypes, NEW r \in Ranks, Accounted(r), stack[r] # <<>>, stack[r] \in Seq(FrameTypes),
         Calm(r), LibraryStep(r)
  PROVE  SendsOK'
<1>q. ASSUME NEW near \in BOOLEAN, DestQueue(r, near) # <<>>, NEW rest, FlushNext(r, near, rest)
      PROVE  SendsOK'
  <2>1. DestQueue(r, near) \in Seq(Ranks) /\ Exact(DestQueue(r, near), Filled(r, near))
    BY DEF DestQueue, BufTypes, Accounted
  <2>2. Head(DestQueue(r, near)) \in Ranks
    BY <1>q, <2>1, ExactTail
  <2>3. QED
    BY <1>q, <2>2, FlushNextSends
<1>0. Top(r) = stack[r][1] /\ stack[r][1] \in FrameTypes
  BY HeadTail DEF Top
<1>1. CASE HaltReceive(r)
  BY <1>1, PrqSends DEF HaltReceive
<1>2. CASE HaltEnd(r)
  BY <1>2, SameSends DEF HaltEnd, mpiVars
<1>3. ASSUME NEW m \in Msgs, NEW d \in Ranks, BcastCopy(r, m, d) PROVE SendsOK'
  BY <1>3, SameSends DEF BcastCopy, QueueBytes, mpiVars
<1>4. CASE BcastEnd(r)
  BY <1>4, SameSends DEF BcastEnd, mpiVars
<1>5. CASE CapLocal(r)
  <2>1. localB[r] > LocalCap /\ localB[r] \in Nat /\ LocalCap \in Nat
    BY <1>5, CommAssumption DEF CapLocal, BufTypes
  <2>2. Bytes(r, TRUE) > 0
    BY <2>1 DEF Bytes
  <2>3. DestQueue(r, TRUE) # <<>>
    BY <2>2, QueueToFlush
  <2>4. QED
    BY <1>5, <1>q, <2>3 DEF CapLocal
<1>6. CASE CapRemote(r)
  <2>1. CASE remoteB[r] > RemoteCap
    <3>1. remoteB[r] \in Nat /\ RemoteCap \in Nat
      BY CommAssumption DEF BufTypes
    <3>2. Bytes(r, FALSE) > 0
      BY <2>1, <3>1 DEF Bytes
    <3>3. DestQueue(r, FALSE) # <<>>
      BY <3>2, QueueToFlush
    <3>4. QED
      BY <1>6, <1>q, <2>1, <3>3 DEF CapRemote
  <2>2. CASE ~(remoteB[r] > RemoteCap)
    BY <1>6, <2>2, SameSends DEF CapRemote, mpiVars
  <2>3. QED
    BY <2>1, <2>2
<1>7. CASE FlushOneStep(r)
  <2>0. stack[r][1].near \in BOOLEAN
    BY <1>0, <1>7, FrameFields DEF FlushOneStep
  <2>1. CASE DestQueue(r, stack[r][1].near) # <<>>
    <3>1. FlushNext(r, stack[r][1].near, Below(r))
      BY <1>0, <1>7, <2>1 DEF FlushOneStep
    <3>2. QED
      BY <1>q, <2>0, <2>1, <3>1
  <2>2. CASE DestQueue(r, stack[r][1].near) = <<>>
    BY <1>0, <1>7, <2>2, SameSends DEF FlushOneStep, mpiVars
  <2>3. QED
    BY <2>1, <2>2
<1>8. CASE PrqWait(r)
  <2>1. sendq[r] # <<>>
    BY <1>0, <1>8 DEF PrqWait, Calm
  <2>2. \/ UNCHANGED <<sendq, pending>>
        \/ /\ sendq' = [sendq EXCEPT ![r] = Tail(sendq[r])]
           /\ pending' = [pending EXCEPT ![r] = pending[r] - Cardinality(Head(sendq[r]).msgs)]
    BY <1>8 DEF PrqWait
  <2>3. sendq[r] \in Seq(FBuffers) /\ pending[r] = Load(sendq[r])
    BY DEF SendsOK
  <2>4. /\ Tail(sendq[r]) \in Seq(FBuffers)
        /\ Load(Tail(sendq[r])) = Load(sendq[r]) - Cardinality(Head(sendq[r]).msgs)
    BY <2>1, <2>3, LoadTail
  <2>5. QED
    BY <2>2, <2>3, <2>4, SameSends, SetSends
<1>9. CASE PrqReceive(r)
  BY <1>9, SameSends DEF PrqReceive
<1>10. CASE PrqReturn(r)
  BY <1>10, SameSends DEF PrqReturn, mpiVars
<1>11. CASE RecvMessage(r)
  BY <1>11, SameSends DEF RecvMessage, mpiVars
<1>12. CASE RecvEnd(r)
  BY <1>12, SameSends DEF RecvEnd, mpiVars
<1>13. CASE FlushAllPoll(r)
  BY <1>13, PrqSends DEF FlushAllPoll
<1>14. CASE FlushAllHook(r)
  BY <1>14, SameSends DEF FlushAllHook, mpiVars
<1>15. ASSUME NEW near \in BOOLEAN, FlushAllBuffer(r, near) PROVE SendsOK'
  BY <1>15, <1>q DEF FlushAllBuffer
<1>16. CASE FlushAllIsends(r)
  BY <1>16, PrqSends DEF FlushAllIsends
<1>17. CASE FlushAllNext(r)
  BY <1>17, SameSends DEF FlushAllNext, mpiVars
<1>18. CASE ReduceReceive(r)
  BY <1>18, SameSends DEF ReduceReceive
<1>19. QED
  BY <1>1, <1>2, <1>3, <1>4, <1>5, <1>6, <1>7, <1>8, <1>9, <1>10, <1>11, <1>12, <1>13, <1>14, <1>15, <1>16,
     <1>17, <1>18 DEF LibraryStep


-----------------------------------------------------------------------------
(***************************************************************************)
(* Each message has one place.                                             *)
(***************************************************************************)
\* The places of messages that a call takes.
LEMMA LiftPlaces ==
  ASSUME NEW r \in Ranks, NEW S, Lifts(r, S), \A x \in Ranks \ {r} : stack'[x] = stack[x]
  PROVE  \E k : \A n \in Msgs :
           CallsOf(n)' = CallsOf(n) \cup (IF n \in S THEN {<<"call", r, k>>} ELSE {})
<1>1. PICK k : \A n \in Msgs :
        /\ Heights(stack'[r], n) = Heights(stack[r], n) \cup (IF n \in S THEN {k} ELSE {})
        /\ k \notin Heights(stack[r], n)
  BY DEF Lifts
<1>2. ASSUME NEW n \in Msgs
      PROVE  CallsOf(n)' = CallsOf(n) \cup (IF n \in S THEN {<<"call", r, k>>} ELSE {})
  <2> DEFINE A == Heights(stack[r], n)
             K == IF n \in S THEN {k} ELSE {}
             H == {}
  <2>1. Heights(stack[r], n) = A \cup H /\ A \cap H = {} /\ Heights(stack'[r], n) = A \cup K
    BY <1>1
  <2> HIDE DEF A, H, K
  <2>2. /\ CallsOf(n)' = (CallsOf(n) \ {<<"call", r, h>> : h \in H}) \cup {<<"call", r, h>> : h \in K}
        /\ {<<"call", r, h>> : h \in H} \subseteq CallsOf(n)
    BY <2>1, CallsChange
  <2>3. /\ {<<"call", r, h>> : h \in K} = IF n \in S THEN {<<"call", r, k>>} ELSE {}
        /\ {<<"call", r, h>> : h \in H} = {}
    BY DEF H, K
  <2>4. QED
    BY <2>2, <2>3
<1>3. QED
  BY <1>2

\* The places of messages that a call gives up.
LEMMA DropPlaces ==
  ASSUME NEW r \in Ranks, NEW S, Drops(r, S), \A x \in Ranks \ {r} : stack'[x] = stack[x]
  PROVE  \E k : \A n \in Msgs :
           /\ CallsOf(n)' = CallsOf(n) \ (IF n \in S THEN {<<"call", r, k>>} ELSE {})
           /\ n \in S => <<"call", r, k>> \in CallsOf(n)
<1>1. PICK k : \A n \in Msgs :
        /\ Heights(stack[r], n) = Heights(stack'[r], n) \cup (IF n \in S THEN {k} ELSE {})
        /\ n \in S => k \notin Heights(stack'[r], n)
  BY DEF Drops
<1>2. ASSUME NEW n \in Msgs
      PROVE  /\ CallsOf(n)' = CallsOf(n) \ (IF n \in S THEN {<<"call", r, k>>} ELSE {})
             /\ n \in S => <<"call", r, k>> \in CallsOf(n)
  <2> DEFINE A == Heights(stack'[r], n)
             K == IF n \in S THEN {k} ELSE {}
  <2>1. Heights(stack[r], n) = A \cup K /\ A \cap K = {} /\ Heights(stack'[r], n) = A \cup {}
    BY <1>1
  <2> HIDE DEF A, K
  <2>2. /\ CallsOf(n)' = (CallsOf(n) \ {<<"call", r, h>> : h \in K}) \cup {<<"call", r, h>> : h \in {}}
        /\ {<<"call", r, h>> : h \in K} \subseteq CallsOf(n)
    BY <2>1, CallsChange
  <2>3. {<<"call", r, h>> : h \in K} = IF n \in S THEN {<<"call", r, k>>} ELSE {}
    BY DEF K
  <2>4. QED
    BY <2>2, <2>3
<1>3. QED
  BY <1>2

\* The places of a message that is handed over.
LEMMA HandPlaces ==
  ASSUME NEW r \in Ranks, NEW m \in Msgs, Hands(r, m), \A x \in Ranks \ {r} : stack'[x] = stack[x]
  PROVE  /\ \E j, k : /\ CallsOf(m)' = (CallsOf(m) \ {<<"call", r, j>>}) \cup {<<"call", r, k>>}
                      /\ <<"call", r, j>> \in CallsOf(m)
         /\ \A n \in Msgs \ {m} : CallsOf(n)' = CallsOf(n)
<1>1. PICK A, j, k : j \notin A /\ Heights(stack[r], m) = A \cup {j} /\ Heights(stack'[r], m) = A \cup {k}
  BY DEF Hands
<1>2. A \cap {j} = {}
  BY <1>1
<1>3. /\ CallsOf(m)' = (CallsOf(m) \ {<<"call", r, h>> : h \in {j}}) \cup {<<"call", r, h>> : h \in {k}}
      /\ {<<"call", r, h>> : h \in {j}} \subseteq CallsOf(m)
  BY <1>1, <1>2, CallsChange
<1>4. \A i : {<<"call", r, h>> : h \in {i}} = {<<"call", r, i>>}
  OBVIOUS
<1>5. /\ CallsOf(m)' = (CallsOf(m) \ {<<"call", r, j>>}) \cup {<<"call", r, k>>}
      /\ <<"call", r, j>> \in CallsOf(m)
  BY <1>3, <1>4
<1>6. ASSUME NEW n \in Msgs \ {m} PROVE CallsOf(n)' = CallsOf(n)
  <2>1. \A x \in Ranks : Heights(stack'[x], n) = Heights(stack[x], n)
    BY DEF Hands
  <2>2. QED
    BY <2>1, CallsSame
<1>7. QED
  BY <1>5, <1>6

\* The places of the others.
LEMMA KeptPlaces ==
  ASSUME NEW r \in Ranks, KeptCalls(r), \A x \in Ranks \ {r} : stack'[x] = stack[x], NEW n \in Msgs
  PROVE  CallsOf(n)' = CallsOf(n)
<1>1. \A x \in Ranks : Heights(stack'[x], n) = Heights(stack[x], n)
  BY DEF KeptCalls
<1>2. QED
  BY <1>1, CallsSame

\* Buffers, wire and landed buffers that do not change.
LEMMA SamePlaces ==
  ASSUME NEW n
  PROVE  /\ UNCHANGED buf => BuffersOf(n)' = BuffersOf(n)
         /\ UNCHANGED wire => WiresOf(n)' = WiresOf(n)
         /\ UNCHANGED landed => LandedOf(n)' = LandedOf(n)
BY DEF BuffersOf, WiresOf, LandedOf

\* Types of the messages: a message that is sent has a destination.
MsgTypes ==
  /\ sent \subseteq Msgs /\ done \subseteq sent
  /\ dst \in [Msgs -> Ranks \cup {None}]
  /\ \A m \in sent : dst[m] \in Ranks

\* Types of what is in flight.
WireTypes == wire \subseteq FBuffers /\ landed \subseteq FBuffers /\ IsFiniteSet(landed)

\* OnePlace, as the proofs use it.
Placed ==
  \A m \in Msgs : IF m \in sent \ done THEN \E p : PlacesOf(m) = {p} ELSE PlacesOf(m) = {}

\* The invariant of the messages.
Data ==
  /\ MsgTypes /\ WireTypes /\ BufTypes
  /\ \A x \in Ranks : Accounted(x)
  /\ Placed

\* A place of a message is all there is of it.
LEMMA PlaceHeld ==
  ASSUME Data, NEW m \in Msgs, NEW p \in PlacesOf(m)
  PROVE  PlacesOf(m) = {p} /\ m \in sent /\ m \notin done
BY DEF Data, Placed

\* A step that leaves the buffers alone.
LEMMA SameBuffers ==
  ASSUME Data, UNCHANGED bufVars
  PROVE  BufTypes' /\ (\A x \in Ranks : Accounted(x)') /\ UNCHANGED buf
<1>1. UNCHANGED <<buf, localq, remoteq, localB, remoteB>>
  BY DEF bufVars
<1>2. BufTypes'
  BY <1>1 DEF Data, BufTypes
<1>3. ASSUME NEW x \in Ranks PROVE Accounted(x)'
  <2>1. Accounted(x)
    BY DEF Data
  <2>2. ASSUME NEW near \in BOOLEAN
        PROVE  /\ DestQueue(x, near)' = DestQueue(x, near) /\ Bytes(x, near)' = Bytes(x, near)
               /\ Filled(x, near)' = Filled(x, near) /\ Stored(x, near)' = Stored(x, near)
    <3>1. DestQueue(x, near)' = DestQueue(x, near) /\ Bytes(x, near)' = Bytes(x, near)
      BY <1>1 DEF DestQueue, Bytes
    <3>2. Filled(x, near)' = Filled(x, near)
      BY <1>1 DEF Filled
    <3>3. Stored(x, near)' = Stored(x, near)
      BY <1>1 DEF Stored
    <3>4. QED
      BY <3>1, <3>2, <3>3
  <2>3. QED
    BY <2>1, <2>2 DEF Accounted, Exact
<1>4. QED
  BY <1>1, <1>2, <1>3

\* Two buffers of a rank hold different messages.
LEMMA BuffersApart ==
  ASSUME Data, NEW r \in Ranks
  PROVE  \A d, e \in Ranks : d # e => buf[r][d] \cap buf[r][e] = {}
<1> SUFFICES ASSUME NEW d \in Ranks, NEW e \in Ranks, d # e, NEW m \in buf[r][d], m \in buf[r][e]
             PROVE  FALSE
  OBVIOUS
<1>1. m \in Msgs
  BY DEF Data, BufTypes
<1>2. <<"buffer", r, d>> \in BuffersOf(m) /\ <<"buffer", r, e>> \in BuffersOf(m)
  BY DEF BuffersOf
<1>3. PlacesOf(m) = {<<"buffer", r, d>>} /\ <<"buffer", r, e>> \in PlacesOf(m)
  BY <1>1, <1>2, PlaceHeld DEF PlacesOf
<1>4. <<"buffer", r, d>> # <<"buffer", r, e>>
  OBVIOUS
<1>5. QED
  BY <1>3, <1>4

\* Steps that do nothing to messages keep the invariant.
LEMMA IdleData ==
  ASSUME Data, NEW r \in Ranks, \A x \in Ranks \ {r} : stack'[x] = stack[x], Idle(r)
  PROVE  Data'
<1>1. KeptCalls(r) /\ UNCHANGED <<sent, dst, done, bufVars, wire, landed>>
  BY DEF Idle, msgVars
<1>2. BufTypes' /\ (\A x \in Ranks : Accounted(x)') /\ UNCHANGED buf
  BY <1>1, SameBuffers
<1>3. MsgTypes' /\ WireTypes'
  BY <1>1 DEF Data, MsgTypes, WireTypes
<1>4. \A n \in Msgs : PlacesOf(n)' = PlacesOf(n)
  BY <1>1, <1>2, KeptPlaces, SamePlaces DEF PlacesOf
<1>5. Placed'
  BY <1>1, <1>4 DEF Data, Placed
<1>6. QED
  BY <1>2, <1>3, <1>5 DEF Data

\* A new message has its first place.
LEMMA BeginsData ==
  ASSUME Data, NEW r \in Ranks, \A x \in Ranks \ {r} : stack'[x] = stack[x], NEW m \in Msgs, Begins(r, m)
  PROVE  Data'
<1>1. PICK d \in Ranks : Born(m, d)
  BY DEF Begins
<1>2. m \notin sent /\ sent' = sent \cup {m} /\ done' = done /\ dst' = [dst EXCEPT ![m] = d]
  BY <1>1 DEF Born
<1>3. m \notin done
  BY <1>2 DEF Data, MsgTypes
<1>4. MsgTypes' /\ WireTypes'
  <2>1. MsgTypes'
    BY <1>2 DEF Data, MsgTypes
  <2>2. WireTypes'
    BY DEF Data, WireTypes, Begins
  <2>3. QED
    BY <2>1, <2>2
<1>5. PlacesOf(m) = {}
  BY <1>2 DEF Data, Placed
<1>6. \A n \in Msgs : WiresOf(n)' = WiresOf(n) /\ LandedOf(n)' = LandedOf(n)
  BY SamePlaces DEF Begins
<1>7. SUFFICES /\ BufTypes' /\ \A x \in Ranks : Accounted(x)'
               /\ \E p : PlacesOf(m)' = {p}
               /\ \A n \in Msgs \ {m} : PlacesOf(n)' = PlacesOf(n)
  <2> ASSUME /\ BufTypes' /\ \A x \in Ranks : Accounted(x)'
             /\ \E p : PlacesOf(m)' = {p}
             /\ \A n \in Msgs \ {m} : PlacesOf(n)' = PlacesOf(n)
      PROVE  Data'
    <3>1. Placed'
      <4> SUFFICES ASSUME NEW n \in Msgs
                   PROVE  (IF n \in sent \ done THEN \E p : PlacesOf(n) = {p} ELSE PlacesOf(n) = {})'
        BY DEF Placed
      <4>1. CASE n = m
        BY <1>2, <1>3, <4>1
      <4>2. CASE n # m
        <5>1. PlacesOf(n)' = PlacesOf(n) /\ (n \in sent' \ done' <=> n \in sent \ done)
          BY <1>2, <4>2
        <5>2. IF n \in sent \ done THEN \E p : PlacesOf(n) = {p} ELSE PlacesOf(n) = {}
          BY DEF Data, Placed
        <5>3. QED
          BY <5>1, <5>2
      <4>3. QED
        BY <4>1, <4>2
    <3>2. QED
      BY <1>4, <3>1 DEF Data
  <2> QED
    OBVIOUS
<1>8. CASE Lifts(r, {m}) /\ UNCHANGED bufVars
  <2>1. BufTypes' /\ (\A x \in Ranks : Accounted(x)') /\ UNCHANGED buf
    BY <1>8, SameBuffers
  <2>2. \A n \in Msgs : BuffersOf(n)' = BuffersOf(n)
    BY <2>1, SamePlaces
  <2>3. PICK k : \A n \in Msgs :
          CallsOf(n)' = CallsOf(n) \cup (IF n \in {m} THEN {<<"call", r, k>>} ELSE {})
    BY <1>8, LiftPlaces
  <2>4. PlacesOf(m)' = {<<"call", r, k>>}
    BY <1>5, <1>6, <2>2, <2>3 DEF PlacesOf
  <2>5. \A n \in Msgs \ {m} : PlacesOf(n)' = PlacesOf(n)
    BY <1>6, <2>2, <2>3 DEF PlacesOf
  <2>6. QED
    BY <1>7, <2>1, <2>4, <2>5
<1>9. CASE KeptCalls(r) /\ \E e \in Ranks : PackInto(r, m, e)
  <2>1. PICK e \in Ranks : PackInto(r, m, e)
    BY <1>9
  <2>2. \A n \in Msgs : CallsOf(n)' = CallsOf(n)
    BY <1>9, KeptPlaces
  <2>3. /\ BuffersOf(m)' = BuffersOf(m) \cup {<<"buffer", r, e>>}
        /\ \A n \in Msgs \ {m} : BuffersOf(n)' = BuffersOf(n)
    BY <2>1, PackPlaces DEF Data
  <2>4. \A g \in Ranks : m \notin buf[r][g]
    <3> SUFFICES ASSUME NEW g \in Ranks, m \in buf[r][g] PROVE FALSE
      OBVIOUS
    <3>1. <<"buffer", r, g>> \in BuffersOf(m)
      BY DEF BuffersOf
    <3>2. QED
      BY <1>5, <3>1 DEF PlacesOf
  <2>5. BufTypes' /\ \A x \in Ranks : Accounted(x)'
    BY <2>1, <2>4, PackAccounted DEF Data
  <2>6. PlacesOf(m)' = {<<"buffer", r, e>>}
    BY <1>5, <1>6, <2>2, <2>3 DEF PlacesOf
  <2>7. \A n \in Msgs \ {m} : PlacesOf(n)' = PlacesOf(n)
    BY <1>6, <2>2, <2>3 DEF PlacesOf
  <2>8. QED
    BY <1>7, <2>5, <2>6, <2>7
<1>10. QED
  BY <1>8, <1>9 DEF Begins

\* A message whose handler returns had its place in that call.
LEMMA EndsData ==
  ASSUME Data, NEW r \in Ranks, \A x \in Ranks \ {r} : stack'[x] = stack[x], Ends(r)
  PROVE  Data'
<1>0. UNCHANGED <<sent, dst, bufVars, wire, landed>>
  BY DEF Ends
<1>1. PICK m \in Msgs \cup {None} : done' = done \cup ({m} \ {None}) /\ Drops(r, {m})
  BY DEF Ends
<1>2. BufTypes' /\ (\A x \in Ranks : Accounted(x)') /\ UNCHANGED buf
  BY <1>0, SameBuffers
<1>3. PICK k : \A n \in Msgs :
        /\ CallsOf(n)' = CallsOf(n) \ (IF n \in {m} THEN {<<"call", r, k>>} ELSE {})
        /\ n \in {m} => <<"call", r, k>> \in CallsOf(n)
  BY <1>1, DropPlaces
<1>4. \A n \in Msgs : BuffersOf(n)' = BuffersOf(n) /\ WiresOf(n)' = WiresOf(n) /\ LandedOf(n)' = LandedOf(n)
  BY <1>0, <1>2, SamePlaces
<1>5. \A n \in Msgs : n # m => PlacesOf(n)' = PlacesOf(n)
  BY <1>3, <1>4 DEF PlacesOf
<1>6. m \in Msgs => m \in sent /\ PlacesOf(m)' = {}
  <2>1. SUFFICES ASSUME m \in Msgs PROVE m \in sent /\ PlacesOf(m)' = {}
    OBVIOUS
  <2>2. <<"call", r, k>> \in PlacesOf(m)
    BY <1>3, <2>1 DEF PlacesOf
  <2>3. PlacesOf(m) = {<<"call", r, k>>} /\ m \in sent
    BY <2>1, <2>2, PlaceHeld
  <2>4. BuffersOf(m) = {} /\ WiresOf(m) = {} /\ LandedOf(m) = {} /\ CallsOf(m) \subseteq {<<"call", r, k>>}
    <3>1. \A x \in BuffersOf(m) \cup WiresOf(m) \cup LandedOf(m) : x # <<"call", r, k>>
      BY Kinds
    <3>2. QED
      BY <2>3, <3>1 DEF PlacesOf
  <2>5. QED
    BY <1>3, <1>4, <2>1, <2>3, <2>4 DEF PlacesOf
<1>7. MsgTypes' /\ WireTypes'
  BY <1>0, <1>1, <1>6 DEF Data, MsgTypes, WireTypes
<1>8. Placed'
  <2> SUFFICES ASSUME NEW n \in Msgs
               PROVE  (IF n \in sent \ done THEN \E p : PlacesOf(n) = {p} ELSE PlacesOf(n) = {})'
    BY DEF Placed
  <2>1. n # None
    BY CommAssumption
  <2>2. IF n \in sent \ done THEN \E p : PlacesOf(n) = {p} ELSE PlacesOf(n) = {}
    BY DEF Data, Placed
  <2>3. CASE n = m
    <3>1. n \in done' /\ PlacesOf(n)' = {}
      BY <1>1, <1>6, <2>1, <2>3
    <3>2. QED
      BY <3>1
  <2>4. CASE n # m
    <3>1. n \in sent' \ done' <=> n \in sent \ done
      BY <1>0, <1>1, <2>4
    <3>2. QED
      BY <1>5, <2>2, <2>4, <3>1
  <2>5. QED
    BY <2>3, <2>4
<1>9. QED
  BY <1>2, <1>7, <1>8 DEF Data

\* Messages move, none is sent and none done.
LEMMA MovedData ==
  ASSUME Data, MsgTypes', WireTypes', BufTypes', \A x \in Ranks : Accounted(x)',
         UNCHANGED <<sent, done>>,
         \A n \in Msgs : PlacesOf(n)' = PlacesOf(n) \/ \E p, q : PlacesOf(n) = {p} /\ PlacesOf(n)' = {q}
  PROVE  Data'
<1>1. Placed'
  <2> SUFFICES ASSUME NEW n \in Msgs
               PROVE  (IF n \in sent \ done THEN \E p : PlacesOf(n) = {p} ELSE PlacesOf(n) = {})'
    BY DEF Placed
  <2>1. IF n \in sent \ done THEN \E p : PlacesOf(n) = {p} ELSE PlacesOf(n) = {}
    BY DEF Data, Placed
  <2>2. CASE PlacesOf(n)' = PlacesOf(n)
    BY <2>1, <2>2
  <2>3. ASSUME NEW p, NEW q, PlacesOf(n) = {p}, PlacesOf(n)' = {q}
        PROVE  (IF n \in sent \ done THEN \E o : PlacesOf(n) = {o} ELSE PlacesOf(n) = {})'
    <3>1. n \in sent \ done
      BY <2>1, <2>3
    <3>2. QED
      BY <2>3, <3>1
  <2>4. QED
    BY <2>2, <2>3
<1>2. QED
  BY <1>1 DEF Data

\* No message is sent and none done.
LEMMA SameMsgTypes ==
  ASSUME Data, UNCHANGED msgVars
  PROVE  MsgTypes' /\ UNCHANGED <<sent, done>>
BY DEF Data, MsgTypes, msgVars

\* A message moves from the receive to its handler.
LEMMA PassesData ==
  ASSUME Data, NEW r \in Ranks, \A x \in Ranks \ {r} : stack'[x] = stack[x], NEW m \in Msgs, Passes(r, m)
  PROVE  Data'
<1>0. UNCHANGED <<msgVars, bufVars, wire, landed>>
  BY DEF Passes
<1>1. BufTypes' /\ (\A x \in Ranks : Accounted(x)') /\ UNCHANGED buf
  BY <1>0, SameBuffers
<1>2. MsgTypes' /\ UNCHANGED <<sent, done>>
  BY <1>0, SameMsgTypes
<1>3. WireTypes'
  BY <1>0 DEF Data, WireTypes
<1>4. \A n \in Msgs : BuffersOf(n)' = BuffersOf(n) /\ WiresOf(n)' = WiresOf(n) /\ LandedOf(n)' = LandedOf(n)
  BY <1>0, <1>1, SamePlaces
<1>5. PICK j, k : /\ CallsOf(m)' = (CallsOf(m) \ {<<"call", r, j>>}) \cup {<<"call", r, k>>}
                  /\ <<"call", r, j>> \in CallsOf(m)
  BY HandPlaces DEF Passes
<1>6. \A n \in Msgs \ {m} : PlacesOf(n)' = PlacesOf(n)
  BY <1>4, HandPlaces DEF PlacesOf, Passes
<1>7. PlacesOf(m) = {<<"call", r, j>>}
  BY <1>5, PlaceHeld DEF PlacesOf
<1>8. BuffersOf(m) = {} /\ WiresOf(m) = {} /\ LandedOf(m) = {} /\ CallsOf(m) \subseteq {<<"call", r, j>>}
  <2>1. \A x \in BuffersOf(m) \cup WiresOf(m) \cup LandedOf(m) : x # <<"call", r, j>>
    BY Kinds
  <2>2. QED
    BY <1>7, <2>1 DEF PlacesOf
<1>9. PlacesOf(m)' = {<<"call", r, k>>}
  BY <1>4, <1>5, <1>8 DEF PlacesOf
<1>10. QED
  BY <1>1, <1>2, <1>3, <1>6, <1>7, <1>9, MovedData

\* A message moves from a call to a buffer that did not have it.
LEMMA PacksData ==
  ASSUME Data, NEW r \in Ranks, \A x \in Ranks \ {r} : stack'[x] = stack[x], NEW m \in Msgs, Packs(r, m)
  PROVE  Data'
<1>0. UNCHANGED <<msgVars, wire, landed>>
  BY DEF Packs
<1>1. PICK e \in Ranks : PackInto(r, m, e)
  BY DEF Packs
<1>2. MsgTypes' /\ UNCHANGED <<sent, done>>
  BY <1>0, SameMsgTypes
<1>3. WireTypes'
  BY <1>0 DEF Data, WireTypes
<1>4. PICK k : \A n \in Msgs :
        /\ CallsOf(n)' = CallsOf(n) \ (IF n \in {m} THEN {<<"call", r, k>>} ELSE {})
        /\ n \in {m} => <<"call", r, k>> \in CallsOf(n)
  BY DropPlaces DEF Packs
<1>5. <<"call", r, k>> \in PlacesOf(m)
  BY <1>4 DEF PlacesOf
<1>6. PlacesOf(m) = {<<"call", r, k>>}
  BY <1>5, PlaceHeld
<1>7. BuffersOf(m) = {} /\ WiresOf(m) = {} /\ LandedOf(m) = {} /\ CallsOf(m) \subseteq {<<"call", r, k>>}
  <2>1. \A x \in BuffersOf(m) \cup WiresOf(m) \cup LandedOf(m) : x # <<"call", r, k>>
    BY Kinds
  <2>2. QED
    BY <1>6, <2>1 DEF PlacesOf
<1>8. \A g \in Ranks : m \notin buf[r][g]
  <2> SUFFICES ASSUME NEW g \in Ranks, m \in buf[r][g] PROVE FALSE
    OBVIOUS
  <2>1. <<"buffer", r, g>> \in BuffersOf(m)
    BY DEF BuffersOf
  <2>2. QED
    BY <1>7, <2>1
<1>9. BufTypes' /\ \A x \in Ranks : Accounted(x)'
  BY <1>1, <1>8, PackAccounted DEF Data
<1>10. /\ BuffersOf(m)' = BuffersOf(m) \cup {<<"buffer", r, e>>}
       /\ \A n \in Msgs \ {m} : BuffersOf(n)' = BuffersOf(n)
  BY <1>1, PackPlaces DEF Data
<1>11. \A n \in Msgs : WiresOf(n)' = WiresOf(n) /\ LandedOf(n)' = LandedOf(n)
  BY <1>0, SamePlaces
<1>12. PlacesOf(m)' = {<<"buffer", r, e>>}
  BY <1>4, <1>7, <1>10, <1>11 DEF PlacesOf
<1>13. \A n \in Msgs \ {m} : PlacesOf(n)' = PlacesOf(n)
  BY <1>4, <1>10, <1>11 DEF PlacesOf
<1>14. QED
  BY <1>2, <1>3, <1>6, <1>9, <1>12, <1>13, MovedData

\* The messages of a buffer move to the wire together.
LEMMA FlushesData ==
  ASSUME Data, NEW r \in Ranks, \A x \in Ranks \ {r} : stack'[x] = stack[x], Flushes(r)
  PROVE  Data'
<1>0. KeptCalls(r) /\ UNCHANGED msgVars
  BY DEF Flushes
<1>1. PICK near \in BOOLEAN : DestQueue(r, near) # <<>> /\ \E rest : FlushNext(r, near, rest)
  BY DEF Flushes
<1>2. PICK rest : FlushNext(r, near, rest)
  BY <1>1
<1>3. MsgTypes' /\ UNCHANGED <<sent, done>>
  BY <1>0, SameMsgTypes
<1>4. BufTypes' /\ \A x \in Ranks : Accounted(x)'
  BY <1>1, <1>2, BuffersApart, FlushAccounted DEF Data
<1> DEFINE d == Head(DestQueue(r, near))
           b == [from |-> r, to |-> d, msgs |-> buf[r][d]]
<1>5. d \in Ranks
  <2>1. DestQueue(r, near) \in Seq(Ranks) /\ Exact(DestQueue(r, near), Filled(r, near))
    BY DEF DestQueue, Data, BufTypes, Accounted
  <2>2. QED
    BY <1>1, <2>1, ExactTail
<1>6. buf' = [buf EXCEPT ![r][d] = {}] /\ wire' = wire \cup {b} /\ UNCHANGED landed /\ b.msgs = buf[r][d]
  BY <1>2 DEF FlushNext, FlushBuffer
<1> HIDE DEF d
<1>7. b \in FBuffers
  BY <1>5 DEF FBuffers, Buffers, Data, BufTypes
<1>8. WireTypes'
  BY <1>6, <1>7 DEF Data, WireTypes
<1> HIDE DEF b
<1>9. ASSUME NEW n \in Msgs
      PROVE  PlacesOf(n)' = PlacesOf(n) \/ \E p, q : PlacesOf(n) = {p} /\ PlacesOf(n)' = {q}
  <2>1. /\ BuffersOf(n)' = BuffersOf(n) \ {<<"buffer", r, d>>}
        /\ n \in buf[r][d] => <<"buffer", r, d>> \in BuffersOf(n)
        /\ n \notin buf[r][d] => <<"buffer", r, d>> \notin BuffersOf(n)
        /\ WiresOf(n)' = WiresOf(n) \cup (IF n \in buf[r][d] THEN {<<"wire", b>>} ELSE {})
    BY <1>5, <1>6, FlushPlaces DEF Data
  <2>2. CallsOf(n)' = CallsOf(n) /\ LandedOf(n)' = LandedOf(n)
    BY <1>0, <1>6, KeptPlaces, SamePlaces
  <2>3. CASE n \notin buf[r][d]
    BY <2>1, <2>2, <2>3 DEF PlacesOf
  <2>4. CASE n \in buf[r][d]
    <3>1. PlacesOf(n) = {<<"buffer", r, d>>}
      BY <2>1, <2>4, PlaceHeld DEF PlacesOf
    <3>2. CallsOf(n) = {} /\ WiresOf(n) = {} /\ LandedOf(n) = {} /\ BuffersOf(n) \subseteq {<<"buffer", r, d>>}
      <4>1. \A x \in CallsOf(n) \cup WiresOf(n) \cup LandedOf(n) : x # <<"buffer", r, d>>
        BY Kinds
      <4>2. QED
        BY <3>1, <4>1 DEF PlacesOf
    <3>3. PlacesOf(n)' = {<<"wire", b>>}
      BY <2>1, <2>2, <2>4, <3>2 DEF PlacesOf
    <3>4. QED
      BY <3>1, <3>3
  <2>5. QED
    BY <2>3, <2>4
<1>10. QED
  BY <1>3, <1>4, <1>8, <1>9, MovedData

\* The messages of a landed buffer move to the call that handles it.
LEMMA TakesData ==
  ASSUME Data, NEW r \in Ranks, \A x \in Ranks \ {r} : stack'[x] = stack[x], Takes(r)
  PROVE  Data'
<1>0. UNCHANGED <<msgVars, bufVars, wire>>
  BY DEF Takes
<1>1. PICK b \in landed : landed' = landed \ {b} /\ Lifts(r, b.msgs)
  BY DEF Takes
<1>2. BufTypes' /\ (\A x \in Ranks : Accounted(x)') /\ UNCHANGED buf
  BY <1>0, SameBuffers
<1>3. MsgTypes' /\ UNCHANGED <<sent, done>>
  BY <1>0, SameMsgTypes
<1>4. WireTypes'
  <2>1. IsFiniteSet(landed')
    BY <1>1, FS_Subset DEF Data, WireTypes
  <2>2. QED
    BY <1>0, <1>1, <2>1 DEF Data, WireTypes
<1>5. PICK k : \A n \in Msgs :
        CallsOf(n)' = CallsOf(n) \cup (IF n \in b.msgs THEN {<<"call", r, k>>} ELSE {})
  BY <1>1, LiftPlaces
<1>6. ASSUME NEW n \in Msgs
      PROVE  PlacesOf(n)' = PlacesOf(n) \/ \E p, q : PlacesOf(n) = {p} /\ PlacesOf(n)' = {q}
  <2>1. /\ LandedOf(n)' = LandedOf(n) \ {<<"landed", b>>}
        /\ n \in b.msgs <=> <<"landed", b>> \in LandedOf(n)
    BY <1>1, TakePlaces
  <2>2. BuffersOf(n)' = BuffersOf(n) /\ WiresOf(n)' = WiresOf(n)
    BY <1>0, <1>2, SamePlaces
  <2>3. CASE n \notin b.msgs
    BY <1>5, <2>1, <2>2, <2>3 DEF PlacesOf
  <2>4. CASE n \in b.msgs
    <3>1. PlacesOf(n) = {<<"landed", b>>}
      BY <2>1, <2>4, PlaceHeld DEF PlacesOf
    <3>2. CallsOf(n) = {} /\ WiresOf(n) = {} /\ BuffersOf(n) = {} /\ LandedOf(n) \subseteq {<<"landed", b>>}
      <4>1. \A x \in CallsOf(n) \cup WiresOf(n) \cup BuffersOf(n) : x # <<"landed", b>>
        BY Kinds
      <4>2. QED
        BY <3>1, <4>1 DEF PlacesOf
    <3>3. PlacesOf(n)' = {<<"call", r, k>>}
      BY <1>5, <2>1, <2>2, <2>4, <3>2 DEF PlacesOf
    <3>4. QED
      BY <3>1, <3>3
  <2>5. QED
    BY <2>3, <2>4
<1>7. QED
  BY <1>2, <1>3, <1>4, <1>6, MovedData

\* Every step of a rank keeps the invariant of the messages.
LEMMA DeedData ==
  ASSUME Data, NEW r \in Ranks, \A x \in Ranks \ {r} : stack'[x] = stack[x], Deed(r)
  PROVE  Data'
BY IdleData, BeginsData, EndsData, PassesData, PacksData, FlushesData, TakesData DEF Deed

\* And so does the matching of a receive.
LEMMA ArriveData ==
  ASSUME Data, NEW r \in Ranks, Arrive(r)
  PROVE  Data'
<1>0. UNCHANGED <<msgVars, bufVars, stack>>
  BY DEF Arrive
<1>1. PICK b \in wire : wire' = wire \ {b} /\ landed' = landed \cup {b}
  BY DEF Arrive
<1>2. BufTypes' /\ (\A x \in Ranks : Accounted(x)') /\ UNCHANGED buf
  BY <1>0, SameBuffers
<1>3. MsgTypes' /\ UNCHANGED <<sent, done>>
  BY <1>0, SameMsgTypes
<1>4. WireTypes'
  <2>1. IsFiniteSet(landed')
    BY <1>1, FS_AddElement DEF Data, WireTypes
  <2>2. QED
    BY <1>1, <2>1 DEF Data, WireTypes
<1>6. ASSUME NEW n \in Msgs
      PROVE  PlacesOf(n)' = PlacesOf(n) \/ \E p, q : PlacesOf(n) = {p} /\ PlacesOf(n)' = {q}
  <2>1. /\ WiresOf(n)' = WiresOf(n) \ {<<"wire", b>>}
        /\ n \in b.msgs <=> <<"wire", b>> \in WiresOf(n)
        /\ LandedOf(n)' = LandedOf(n) \cup (IF n \in b.msgs THEN {<<"landed", b>>} ELSE {})
    BY <1>1, ArrivePlaces
  <2>2. BuffersOf(n)' = BuffersOf(n) /\ CallsOf(n)' = CallsOf(n)
    <3>1. \A x \in Ranks : Heights(stack'[x], n) = Heights(stack[x], n)
      BY <1>0
    <3>2. QED
      BY <1>2, <3>1, CallsSame, SamePlaces
  <2>3. CASE n \notin b.msgs
    BY <2>1, <2>2, <2>3 DEF PlacesOf
  <2>4. CASE n \in b.msgs
    <3>1. PlacesOf(n) = {<<"wire", b>>}
      BY <2>1, <2>4, PlaceHeld DEF PlacesOf
    <3>2. CallsOf(n) = {} /\ LandedOf(n) = {} /\ BuffersOf(n) = {} /\ WiresOf(n) \subseteq {<<"wire", b>>}
      <4>1. \A x \in CallsOf(n) \cup LandedOf(n) \cup BuffersOf(n) : x # <<"wire", b>>
        BY Kinds
      <4>2. QED
        BY <3>1, <4>1 DEF PlacesOf
    <3>3. PlacesOf(n)' = {<<"landed", b>>}
      BY <2>1, <2>2, <2>4, <3>2 DEF PlacesOf
    <3>4. QED
      BY <3>1, <3>3
  <2>5. QED
    BY <2>3, <2>4
<1>7. QED
  BY <1>2, <1>3, <1>4, <1>6, MovedData


-----------------------------------------------------------------------------
(***************************************************************************)
(* Other ranks.                                                            *)
(***************************************************************************)
\* Types of the callbacks.
HookTypes == hooks \in [Ranks -> Nat] /\ hooksLeft \in Nat

\* What a step of r leaves alone at the other ranks.
Elsewhere(r) ==
  /\ HookTypes'
  /\ \A x \in Ranks \ {r} : hooks'[x] = hooks[x] /\ sendq'[x] = sendq[x]

\* process_receive_queue looks at the own send queue only.
LEMMA CallPrqElsewhere ==
  ASSUME StackTypes, HookTypes, UNCHANGED hookVars, NEW r \in Ranks, NEW q, NEW p, NEW inFlight, NEW rest,
         CallPrq(r, q, p, inFlight, rest)
  PROVE  Elsewhere(r)
<1>1. \E left : sendq' = [sendq EXCEPT ![r] = left]
  BY DEF CallPrq
<1>2. QED
  BY <1>1 DEF StackTypes, HookTypes, Elsewhere, hookVars

\* So does flush_next_send.
LEMMA FlushNextElsewhere ==
  ASSUME StackTypes, HookTypes, UNCHANGED hookVars, NEW r \in Ranks, NEW near, NEW rest, FlushNext(r, near, rest)
  PROVE  Elsewhere(r)
<1>1. FlushBuffer(r, Head(DestQueue(r, near)), rest)
  BY DEF FlushNext
<1>2. CASE inPrq[r]
  <2>1. \E left : sendq' = [sendq EXCEPT ![r] = left]
    BY <1>1, <1>2 DEF FlushBuffer
  <2>2. QED
    BY <2>1 DEF StackTypes, HookTypes, Elsewhere, hookVars
<1>3. CASE ~inPrq[r]
  <2>1. \E q, p : CallPrq(r, q, p, wire', rest)
    BY <1>1, <1>3 DEF FlushBuffer
  <2>2. QED
    BY <2>1, CallPrqElsewhere
<1>4. QED
  BY <1>2, <1>3

\* A step without sends and callbacks.
LEMMA NothingElsewhere ==
  ASSUME HookTypes, NEW r, UNCHANGED <<sendq, hookVars>>
  PROVE  Elsewhere(r)
BY DEF HookTypes, Elsewhere, hookVars

\* User code changes send queue and callbacks of its own rank.
LEMMA UserElsewhere ==
  ASSUME StackTypes, HookTypes, NEW r \in Ranks, UserStep(r)
  PROVE  Elsewhere(r)
<1>1. ASSUME NEW m \in Msgs, NEW d \in Ranks, Async(r, m, d) PROVE Elsewhere(r)
  BY <1>1, CallPrqElsewhere, NothingElsewhere DEF Async, mpiVars
<1>2. CASE AsyncBcast(r)
  BY <1>2, NothingElsewhere DEF AsyncBcast, mpiVars
<1>3. ASSUME NEW m \in Msgs, NEW d \in Ranks, ForwardBcast(r, m, d) PROVE Elsewhere(r)
  BY <1>3, NothingElsewhere DEF ForwardBcast, QueueBytes, mpiVars
<1>4. CASE RegisterHook(r)
  BY <1>4 DEF RegisterHook, HookTypes, Elsewhere, mpiVars
<1>5. CASE Mask(r)
  BY <1>5, NothingElsewhere DEF Mask, mpiVars
<1>6. CASE Unmask(r)
  BY <1>6, NothingElsewhere DEF Unmask, mpiVars
<1>7. CASE LocalProgress(r)
  BY <1>7, CallPrqElsewhere, NothingElsewhere DEF LocalProgress
<1>8. CASE Return(r)
  BY <1>8, NothingElsewhere DEF Return, mpiVars
<1>9. CASE EnterBarrier(r)
  BY <1>9, NothingElsewhere DEF EnterBarrier, mpiVars
<1>10. QED
  BY <1>1, <1>2, <1>3, <1>4, <1>5, <1>6, <1>7, <1>8, <1>9 DEF UserStep

\* So does the library.
LEMMA LibraryElsewhere ==
  ASSUME StackTypes, HookTypes, NEW r \in Ranks, LibraryStep(r)
  PROVE  Elsewhere(r)
<1>1. CASE HaltReceive(r)
  BY <1>1, CallPrqElsewhere DEF HaltReceive
<1>2. CASE HaltEnd(r)
  BY <1>2, NothingElsewhere DEF HaltEnd, mpiVars
<1>3. ASSUME NEW m \in Msgs, NEW d \in Ranks, BcastCopy(r, m, d) PROVE Elsewhere(r)
  BY <1>3, NothingElsewhere DEF BcastCopy, QueueBytes, mpiVars
<1>4. CASE BcastEnd(r)
  BY <1>4, NothingElsewhere DEF BcastEnd, mpiVars
<1>5. CASE CapLocal(r)
  BY <1>5, FlushNextElsewhere DEF CapLocal
<1>6. CASE CapRemote(r)
  BY <1>6, FlushNextElsewhere, NothingElsewhere DEF CapRemote, mpiVars
<1>7. CASE FlushOneStep(r)
  BY <1>7, FlushNextElsewhere, NothingElsewhere DEF FlushOneStep, mpiVars
<1>8. CASE PrqWait(r)
  <2>1. UNCHANGED sendq \/ sendq' = [sendq EXCEPT ![r] = Tail(sendq[r])]
    BY <1>8 DEF PrqWait
  <2>2. UNCHANGED hookVars
    BY <1>8 DEF PrqWait
  <2>3. QED
    BY <2>1, <2>2 DEF StackTypes, HookTypes, Elsewhere, hookVars
<1>9. CASE PrqReceive(r)
  BY <1>9, NothingElsewhere DEF PrqReceive
<1>10. CASE PrqReturn(r)
  BY <1>10, NothingElsewhere DEF PrqReturn, mpiVars
<1>11. CASE RecvMessage(r)
  BY <1>11, NothingElsewhere DEF RecvMessage, mpiVars
<1>12. CASE RecvEnd(r)
  BY <1>12, NothingElsewhere DEF RecvEnd, mpiVars
<1>13. CASE FlushAllPoll(r)
  BY <1>13, CallPrqElsewhere DEF FlushAllPoll
<1>14. CASE FlushAllHook(r)
  BY <1>14 DEF FlushAllHook, HookTypes, Elsewhere, mpiVars
<1>15. ASSUME NEW near \in BOOLEAN, FlushAllBuffer(r, near) PROVE Elsewhere(r)
  BY <1>15, FlushNextElsewhere DEF FlushAllBuffer
<1>16. CASE FlushAllIsends(r)
  BY <1>16, CallPrqElsewhere DEF FlushAllIsends
<1>17. CASE FlushAllNext(r)
  BY <1>17, NothingElsewhere DEF FlushAllNext, mpiVars
<1>18. CASE ReduceReceive(r)
  BY <1>18, NothingElsewhere DEF ReduceReceive
<1>19. QED
  BY <1>1, <1>2, <1>3, <1>4, <1>5, <1>6, <1>7, <1>8, <1>9, <1>10, <1>11, <1>12, <1>13, <1>14, <1>15, <1>16,
     <1>17, <1>18 DEF LibraryStep

\* Buffers of the other ranks stay as they are.
LEMMA DeedElsewhere ==
  ASSUME BufTypes, NEW r \in Ranks, Deed(r), NEW x \in Ranks \ {r}
  PROVE  /\ localq'[x] = localq[x] /\ remoteq'[x] = remoteq[x]
         /\ localB'[x] = localB[x] /\ remoteB'[x] = remoteB[x]
<1>1. CASE UNCHANGED bufVars
  BY <1>1 DEF bufVars
<1>2. ASSUME NEW m, NEW e, PackInto(r, m, e)
      PROVE  /\ localq'[x] = localq[x] /\ remoteq'[x] = remoteq[x]
             /\ localB'[x] = localB[x] /\ remoteB'[x] = remoteB[x]
  BY <1>2 DEF PackInto, BufTypes
<1>3. ASSUME NEW near, NEW rest, FlushNext(r, near, rest)
      PROVE  /\ localq'[x] = localq[x] /\ remoteq'[x] = remoteq[x]
             /\ localB'[x] = localB[x] /\ remoteB'[x] = remoteB[x]
  BY <1>3 DEF FlushNext, FlushBuffer, BufTypes
<1>4. QED
  BY <1>1, <1>2, <1>3 DEF Deed, Idle, Begins, Ends, Passes, Packs, Flushes, Takes


-----------------------------------------------------------------------------
(***************************************************************************)
(* Capacities. The counters are over a capacity only while a call is on    *)
(* the stack that will look at them again.                                 *)
(***************************************************************************)
\* A call that looks at the byte counters before it returns.
Covers(f, near) ==
  \/ f.op \in {"bcast", "recv"}
  \/ f.op = "cap" /\ (near => f.phase = "local")

\* There is such a call on the stack s.
Covered(s, near) == \E i \in 1..Len(s) : Covers(s[i], near)

\* The two capacities.
CapFor(near) == IF near THEN LocalCap ELSE RemoteCap

\* What is over a capacity is on its way: some call will flush it.
Capped(r) == \A near \in BOOLEAN : Bytes(r, near) > CapFor(near) => Covered(stack[r], near)

\* A call begins.
LEMMA CoveredPush ==
  ASSUME NEW s \in Seq(FrameTypes), NEW f \in FrameTypes, NEW near
  PROVE  Covered(<<f>> \o s, near) <=> Covers(f, near) \/ Covered(s, near)
<1> DEFINE t == <<f>> \o s
<1>1. /\ Len(t) = Len(s) + 1 /\ t[1] = f
      /\ \A i \in 1..Len(s) : t[i + 1] = s[i]
      /\ \A i \in 2..Len(s) + 1 : t[i] = s[i - 1]
  BY Cons
<1>2. Len(s) \in Nat
  OBVIOUS
<1> HIDE DEF t
<1>3. ASSUME Covers(f, near) PROVE Covered(t, near)
  <2>1. 1 \in 1..Len(t)
    BY <1>1, <1>2
  <2>2. QED
    BY <1>1, <1>3, <2>1 DEF Covered
<1>4. ASSUME Covered(s, near) PROVE Covered(t, near)
  <2>1. PICK i \in 1..Len(s) : Covers(s[i], near)
    BY <1>4 DEF Covered
  <2>2. i + 1 \in 1..Len(t) /\ t[i + 1] = s[i]
    BY <1>1, <1>2
  <2>3. QED
    BY <2>1, <2>2 DEF Covered
<1>5. ASSUME Covered(t, near), ~Covers(f, near) PROVE Covered(s, near)
  <2>1. PICK i \in 1..Len(t) : Covers(t[i], near)
    BY <1>5 DEF Covered
  <2>2. i # 1
    BY <1>1, <1>5, <2>1
  <2>3. i \in 2..Len(s) + 1 /\ i - 1 \in 1..Len(s)
    BY <1>1, <1>2, <2>2
  <2>4. t[i] = s[i - 1]
    BY <1>1, <2>3
  <2>5. QED
    BY <2>1, <2>3, <2>4 DEF Covered
<1>6. QED
  BY <1>3, <1>4, <1>5 DEF t

\* The call on top, or one below it.
LEMMA CoveredDrop ==
  ASSUME NEW s \in Seq(FrameTypes), s # <<>>, NEW near
  PROVE  Covered(s, near) <=> Covers(s[1], near) \/ Covered(Tail(s), near)
<1> DEFINE t == Tail(s)
           u == <<s[1]>> \o t
<1>1. /\ s[1] \in FrameTypes /\ t \in Seq(FrameTypes) /\ Len(t) = Len(s) - 1 /\ Len(s) \in Nat \ {0}
      /\ \A i \in 1..Len(s) - 1 : t[i] = s[i + 1]
  BY HeadTail
<1> HIDE DEF t
<1>2. /\ u \in Seq(FrameTypes) /\ Len(u) = Len(t) + 1 /\ u[1] = s[1]
      /\ \A i \in 2..Len(t) + 1 : u[i] = t[i - 1]
  BY <1>1, Cons
<1> HIDE DEF u
<1>3. u = s
  <2>1. Len(u) = Len(s)
    BY <1>1, <1>2
  <2>2. ASSUME NEW i \in 1..Len(s) PROVE u[i] = s[i]
    <3>1. CASE i = 1
      BY <1>2, <3>1
    <3>2. CASE i # 1
      <4>1. i \in 2..Len(t) + 1 /\ i - 1 \in 1..Len(s) - 1 /\ (i - 1) + 1 = i
        BY <1>1, <3>2
      <4>2. u[i] = t[i - 1] /\ t[i - 1] = s[(i - 1) + 1]
        BY <1>1, <1>2, <4>1
      <4>3. QED
        BY <4>1, <4>2
    <3>3. QED
      BY <3>1, <3>2
  <2>3. QED
    BY <1>2, <2>1, <2>2, SeqEqual
<1>4. Covered(u, near) <=> Covers(s[1], near) \/ Covered(t, near)
  BY <1>1, CoveredPush DEF u
<1>5. QED
  BY <1>3, <1>4 DEF t

\* Calls of process_receive_queue and of flush_to_capacity go on top of what is there.
LEMMA CallPrqCovered ==
  ASSUME StackTypes, NEW r \in Ranks, NEW q, NEW p, NEW inFlight, NEW rest \in Seq(FrameTypes),
         CallPrq(r, q, p, inFlight, rest), NEW near, Covered(rest, near)
  PROVE  Covered(stack'[r], near)
<1>1. \/ SetStack(r, rest) \/ SetStack(r, <<Prq("wait")>> \o rest) \/ SetStack(r, <<Prq("test")>> \o rest)
  BY DEF CallPrq
<1>2. Prq("wait") \in FrameTypes /\ Prq("test") \in FrameTypes
  BY NewFrames
<1>3. Covered(<<Prq("wait")>> \o rest, near) /\ Covered(<<Prq("test")>> \o rest, near)
  BY <1>2, CoveredPush
<1>4. QED
  BY <1>1, <1>3 DEF SetStack, StackTypes, StackFuns

\* So does flush_next_send.
LEMMA FlushNextCovered ==
  ASSUME StackTypes, NEW r \in Ranks, NEW side, NEW rest \in Seq(FrameTypes),
         FlushNext(r, side, rest), NEW near, Covered(rest, near)
  PROVE  Covered(stack'[r], near)
<1>1. FlushBuffer(r, Head(DestQueue(r, side)), rest)
  BY DEF FlushNext
<1>2. CASE inPrq[r]
  <2>1. SetStack(r, rest)
    BY <1>1, <1>2 DEF FlushBuffer
  <2>2. QED
    BY <2>1 DEF SetStack, StackTypes, StackFuns
<1>3. CASE ~inPrq[r]
  <2>1. \E q, p : CallPrq(r, q, p, wire', rest)
    BY <1>1, <1>3 DEF FlushBuffer
  <2>2. QED
    BY <2>1, CallPrqCovered
<1>4. QED
  BY <1>2, <1>3

\* flush_to_capacity is called if it is needed.
LEMMA CallCapCovered ==
  ASSUME StackTypes, NEW r \in Ranks, NEW local \in Nat, NEW remote \in Nat, NEW rest \in Seq(FrameTypes),
         CallCap(r, local, remote, rest), NEW near \in BOOLEAN,
         Covered(rest, near) \/ (IF near THEN local ELSE remote) > CapFor(near)
  PROVE  Covered(stack'[r], near)
<1>1. Cap("local") \in FrameTypes /\ Cap("local").op = "cap" /\ Cap("local").phase = "local"
  BY NewFrames
<1>2. Covered(<<Cap("local")>> \o rest, near)
  BY <1>1, CoveredPush DEF Covers
<1>3. CASE local > LocalCap \/ remote > RemoteCap
  <2>1. SetStack(r, <<Cap("local")>> \o rest)
    BY <1>3 DEF CallCap
  <2>2. QED
    BY <1>2, <2>1 DEF SetStack, StackTypes, StackFuns
<1>4. CASE ~(local > LocalCap \/ remote > RemoteCap)
  <2>1. SetStack(r, rest) /\ Covered(rest, near)
    BY <1>4 DEF CallCap, CapFor
  <2>2. QED
    BY <2>1 DEF SetStack, StackTypes, StackFuns
<1>5. QED
  BY <1>3, <1>4

\* Nothing buffered, no call that looks at the counters gone.
LEMMA SameCapped ==
  ASSUME NEW r \in Ranks, Capped(r), UNCHANGED bufVars,
         \A near \in BOOLEAN : Covered(stack[r], near) => Covered(stack'[r], near)
  PROVE  Capped(r)'
<1>1. \A near \in BOOLEAN : Bytes(r, near)' = Bytes(r, near)
  BY DEF bufVars, Bytes
<1>2. QED
  BY <1>1 DEF Capped

\* A message is packed, and flush_to_capacity called with what is buffered now.
LEMMA PackCapped ==
  ASSUME StackTypes, BufTypes', NEW r \in Ranks, NEW m, NEW d, NEW rest \in Seq(FrameTypes),
         PackAndCap(r, m, d, rest)
  PROVE  Capped(r)'
<1>1. CallCap(r, localB'[r], remoteB'[r], rest) /\ localB'[r] \in Nat /\ remoteB'[r] \in Nat
  BY DEF PackAndCap, BufTypes
<1>2. ASSUME NEW near \in BOOLEAN, Bytes(r, near)' > CapFor(near) PROVE Covered(stack'[r], near)
  <2>1. (IF near THEN localB'[r] ELSE remoteB'[r]) > CapFor(near)
    BY <1>2 DEF Bytes
  <2>2. QED
    BY <1>1, <2>1, CallCapCovered
<1>3. QED
  BY <1>2 DEF Capped, CapFor

\* A buffer is flushed by a call on top of rest.
LEMMA FlushCapped ==
  ASSUME StackTypes, Data, NEW r \in Ranks, NEW side \in BOOLEAN, DestQueue(r, side) # <<>>,
         NEW rest \in Seq(FrameTypes), FlushNext(r, side, rest),
         \A near \in BOOLEAN : Bytes(r, near) > CapFor(near) => Covered(rest, near)
  PROVE  Capped(r)'
<1>1. BufTypes' /\ Bytes(r, ~side)' = Bytes(r, ~side) /\ Bytes(r, side)' <= Bytes(r, side)
  BY BuffersApart, FlushAccounted DEF Data
<1>2. \A near \in BOOLEAN : Bytes(r, near) \in Nat /\ CapFor(near) \in Nat /\ Bytes(r, near)' \in Nat
  BY <1>1, CommAssumption DEF Bytes, CapFor, Data, BufTypes
<1>3. ASSUME NEW near \in BOOLEAN, Bytes(r, near)' > CapFor(near) PROVE Covered(stack'[r], near)
  <2>1. near = side \/ near = ~side
    OBVIOUS
  <2>2. Bytes(r, near)' <= Bytes(r, near)
    BY <1>1, <1>2, <2>1
  <2>3. Bytes(r, near) > CapFor(near)
    BY <1>2, <1>3, <2>2
  <2>4. Covered(rest, near)
    BY <2>3
  <2>5. QED
    BY <2>4, FlushNextCovered
<1>4. QED
  BY <1>3 DEF Capped, CapFor

\* Steps of user code keep what is over a capacity on its way.
LEMMA UserCapped ==
  ASSUME StackTypes, BufTypes', NEW r \in Ranks, Good(stack[r], inPrq[r], enabled[r]), Capped(r), UserStep(r)
  PROVE  Capped(r)'
<1> DEFINE s == stack[r]
<1>0. /\ s \in Seq(FrameTypes) /\ s # <<>> /\ Len(s) \in Nat \ {0} /\ Top(r) = s[1] /\ s[1] \in FrameTypes
  BY TopFacts DEF StackTypes, StackFuns, Top
<1>b. Below(r) = Tail(s) /\ Tail(s) \in Seq(FrameTypes)
  BY <1>0, HeadTail DEF Below
<1>s. stack[r] = s
  OBVIOUS
<1>t. stack \in [Ranks -> Seq(FrameTypes)]
  BY DEF StackTypes, StackFuns
<1> HIDE DEF s
<1>c. \A near : Covered(s, near) <=> Covers(s[1], near) \/ Covered(Tail(s), near)
  BY <1>0, CoveredDrop
<1>1. ASSUME NEW m \in Msgs, NEW d \in Ranks, Async(r, m, d) PROVE Capped(r)'
  <2>1. CASE HaltNeeded(r)
    <3>1. CallPrq(r, sendq[r], pending[r], wire, <<Halt(m, d)>> \o s) /\ UNCHANGED bufVars
      BY <1>1, <1>s, <2>1 DEF Async
    <3>2. Halt(m, d) \in FrameTypes
      BY NewFrames
    <3>3. <<Halt(m, d)>> \o s \in Seq(FrameTypes)
      BY <1>0, <3>2, Cons
    <3>4. \A near : Covered(s, near) => Covered(<<Halt(m, d)>> \o s, near)
      BY <1>0, <3>2, CoveredPush
    <3>5. \A near \in BOOLEAN : Covered(stack[r], near) => Covered(stack'[r], near)
      BY <1>s, <3>1, <3>3, <3>4, CallPrqCovered
    <3>6. QED
      BY <3>1, <3>5, SameCapped
  <2>2. CASE ~HaltNeeded(r)
    BY <1>0, <1>1, <1>s, <2>2, PackCapped DEF Async
  <2>3. QED
    BY <2>1, <2>2
<1>2. ASSUME AsyncBcast(r) PROVE Capped(r)'
  <2>1. Halt(None, r) \in FrameTypes /\ Bcast(FALSE) \in FrameTypes
    BY NewFrames
  <2>2. stack'[r] = <<Halt(None, r)>> \o (<<Bcast(FALSE)>> \o s) /\ UNCHANGED bufVars
    <3>1. <<Halt(None, r), Bcast(FALSE)>> \o s = <<Halt(None, r)>> \o (<<Bcast(FALSE)>> \o s)
      BY <1>0, <2>1, TwoCons, Zenon
    <3>2. QED
      BY <3>1, <1>2, <1>s, <1>t DEF AsyncBcast, SetStack
  <2>3. <<Bcast(FALSE)>> \o s \in Seq(FrameTypes)
    BY <1>0, <2>1, Cons
  <2>4. \A near : Covered(s, near) => Covered(<<Bcast(FALSE)>> \o s, near)
    BY <1>0, <2>1, CoveredPush
  <2>5. \A near : Covered(<<Bcast(FALSE)>> \o s, near) => Covered(stack'[r], near)
    BY <2>1, <2>2, <2>3, CoveredPush
  <2>6. QED
    BY <1>s, <2>2, <2>4, <2>5, SameCapped
<1>3. ASSUME NEW m \in Msgs, NEW d \in Ranks, ForwardBcast(r, m, d) PROVE Capped(r)'
  <2>1. s[1].op = "user" /\ s[1].msg # None /\ UNCHANGED stack
    BY <1>0, <1>3 DEF ForwardBcast, InUser
  <2>2. Len(s) > 1 /\ SitsOn(s[1], s[2])
    <3>1. StackShape(s)
      BY <1>s DEF Good
    <3>2. Len(s) # 1
      BY <2>1, <3>1 DEF StackShape
    <3>3. Len(s) > 1
      <4>1. \A n \in Nat \ {0} : n # 1 => n > 1
        OBVIOUS
      <4>2. QED
        BY <1>0, <3>2, <4>1
    <3>4. Len(s) > 1 => SitsOn(s[1], s[2])
      BY <1>s, TopFacts DEF StackTypes, StackFuns
    <3>5. QED
      BY <3>3, <3>4
  <2>3. s[2].op = "recv"
    BY <2>1, <2>2 DEF SitsOn
  <2>4. 2 \in 1..Len(s)
    BY <1>0, <2>2
  <2>5. \A near : Covered(s, near)
    BY <2>3, <2>4 DEF Covered, Covers
  <2>6. QED
    BY <1>s, <2>1, <2>5 DEF Capped
<1>4. ASSUME RegisterHook(r) PROVE Capped(r)'
  BY <1>4, SameCapped DEF RegisterHook
<1>5. ASSUME Mask(r) PROVE Capped(r)'
  <2>1. s[1].op = "user" /\ s[1].masks \in 0..MaxMasks /\ s[1].masks < MaxMasks
    BY <1>0, <1>5, FrameFields DEF Mask, InUser
  <2>2. s[1].masks + 1 \in 0..MaxMasks
    BY <2>1, CommAssumption
  <2> DEFINE g == [s[1] EXCEPT !.masks = s[1].masks + 1]
  <2>3. g \in FrameTypes
    BY <1>0, <2>1, <2>2, MaskedFrame
  <2>4. stack'[r] = <<g>> \o Tail(s) /\ UNCHANGED bufVars
    BY <1>0, <1>5, <1>b, <1>s, <1>t DEF Mask, SetStack
  <2> HIDE DEF g
  <2>5. \A near : Covered(s, near) => Covered(Tail(s), near)
    BY <1>c, <2>1 DEF Covers
  <2>6. \A near : Covered(Tail(s), near) => Covered(stack'[r], near)
    BY <1>b, <2>3, <2>4, CoveredPush
  <2>7. QED
    BY <1>s, <2>4, <2>5, <2>6, SameCapped
<1>6. ASSUME Unmask(r) PROVE Capped(r)'
  <2>1. s[1].op = "user" /\ s[1].masks \in 0..MaxMasks /\ s[1].masks > 0
    BY <1>0, <1>6, FrameFields DEF Unmask, InUser
  <2>2. s[1].masks - 1 \in 0..MaxMasks
    BY <2>1, CommAssumption
  <2> DEFINE g == [s[1] EXCEPT !.masks = s[1].masks - 1]
             h == Halt(None, r)
             t == <<g>> \o Tail(s)
  <2>3. g \in FrameTypes /\ h \in FrameTypes
    BY <1>0, <2>1, <2>2, MaskedFrame, NewFrames
  <2>4. stack'[r] = <<h, g>> \o Tail(s) /\ UNCHANGED bufVars
    BY <1>0, <1>6, <1>b, <1>s, <1>t DEF Unmask, SetStack
  <2> HIDE DEF g, h
  <2>5. t \in Seq(FrameTypes) /\ stack'[r] = <<h>> \o t
    BY <1>b, <2>3, <2>4, Cons, TwoCons
  <2>6. \A near : Covered(s, near) => Covered(Tail(s), near)
    BY <1>c, <2>1 DEF Covers
  <2>7. \A near : Covered(Tail(s), near) => Covered(t, near)
    BY <1>b, <2>3, CoveredPush
  <2> HIDE DEF t
  <2>8. \A near : Covered(t, near) => Covered(stack'[r], near)
    BY <2>3, <2>5, CoveredPush
  <2>9. QED
    BY <1>s, <2>4, <2>6, <2>7, <2>8, SameCapped
<1>7. ASSUME LocalProgress(r) PROVE Capped(r)'
  <2> DEFINE a == FlushOne(TRUE)
             b == FlushOne(FALSE)
             t == <<b>> \o s
             rest == <<a>> \o t
  <2>1. a \in FrameTypes /\ b \in FrameTypes
    BY NewFrames
  <2>2. t \in Seq(FrameTypes)
    BY <1>0, <2>1, Cons
  <2>3. <<FlushOne(TRUE), FlushOne(FALSE)>> \o stack[r] = rest
    <3>1. <<a, b>> \o s = <<a>> \o (<<b>> \o s)
      BY <1>0, <2>1, TwoCons, Zenon
    <3>2. QED
      BY <3>1, <1>s
  <2>4. IF inPrq[r] THEN SetStack(r, rest) ELSE CallPrq(r, sendq[r], pending[r], wire, rest)
    BY <1>7, <2>3 DEF LocalProgress
  <2>5. \A near : Covered(s, near) => Covered(t, near)
    BY <1>0, <2>1, CoveredPush
  <2> HIDE DEF a, b, t
  <2>6. rest \in Seq(FrameTypes)
    BY <2>1, <2>2, Cons
  <2>7. \A near : Covered(t, near) => Covered(rest, near)
    BY <2>1, <2>2, CoveredPush
  <2> HIDE DEF rest
  <2>8. \A near : Covered(rest, near) => Covered(stack'[r], near)
    <3>1. CASE inPrq[r]
      BY <1>t, <2>4, <3>1 DEF SetStack
    <3>2. CASE ~inPrq[r]
      BY <2>4, <2>6, <3>2, CallPrqCovered
    <3>3. QED
      BY <3>1, <3>2
  <2>9. UNCHANGED bufVars
    BY <1>7 DEF LocalProgress
  <2>10. QED
    BY <1>s, <2>5, <2>7, <2>8, <2>9, SameCapped
<1>8. ASSUME Return(r) PROVE Capped(r)'
  <2>1. s[1].op = "user" /\ stack'[r] = Tail(s) /\ UNCHANGED bufVars
    BY <1>0, <1>8, <1>b, <1>s, <1>t DEF Return, SetStack, InUser
  <2>2. \A near : Covered(s, near) => Covered(Tail(s), near)
    BY <1>c, <2>1 DEF Covers
  <2>3. QED
    BY <1>s, <2>1, <2>2, SameCapped
<1>9. ASSUME EnterBarrier(r) PROVE Capped(r)'
  <2> DEFINE a == FlushAll
             b == Reduce
             t == <<b>> \o s
  <2>1. a \in FrameTypes /\ b \in FrameTypes
    BY NewFrames
  <2>2. t \in Seq(FrameTypes)
    BY <1>0, <2>1, Cons
  <2>3. stack'[r] = <<a>> \o t /\ UNCHANGED bufVars
    BY <1>0, <1>9, <1>s, <1>t, <2>1, TwoCons DEF EnterBarrier, SetStack
  <2>4. \A near : Covered(s, near) => Covered(t, near)
    BY <1>0, <2>1, CoveredPush
  <2> HIDE DEF a, b, t
  <2>5. \A near : Covered(t, near) => Covered(stack'[r], near)
    BY <2>1, <2>2, <2>3, CoveredPush
  <2>6. QED
    BY <1>s, <2>3, <2>4, <2>5, SameCapped
<1>10. QED
  BY <1>1, <1>2, <1>3, <1>4, <1>5, <1>6, <1>7, <1>8, <1>9 DEF UserStep

\* The frame on top changes, and looks at the same counters.
LEMMA CoveredSwap ==
  ASSUME NEW s \in Seq(FrameTypes), s # <<>>, NEW f \in FrameTypes, NEW near,
         Covers(s[1], near) => Covers(f, near), Covered(s, near)
  PROVE  Covered(<<f>> \o Tail(s), near)
<1>1. Tail(s) \in Seq(FrameTypes)
  BY HeadTail
<1>2. Covered(s, near) <=> Covers(s[1], near) \/ Covered(Tail(s), near)
  BY CoveredDrop
<1>3. Covered(<<f>> \o Tail(s), near) <=> Covers(f, near) \/ Covered(Tail(s), near)
  BY <1>1, CoveredPush
<1>4. QED
  BY <1>2, <1>3

\* The stack changes, nothing is buffered.
LEMMA SetCapped ==
  ASSUME StackTypes, NEW r \in Ranks, Capped(r), UNCHANGED bufVars, NEW rest, SetStack(r, rest),
         \A near \in BOOLEAN : Covered(stack[r], near) => Covered(rest, near)
  PROVE  Capped(r)'
<1>1. stack'[r] = rest
  BY DEF SetStack, StackTypes, StackFuns
<1>2. QED
  BY <1>1, SameCapped

\* process_receive_queue is called, nothing is buffered.
LEMMA PrqCapped ==
  ASSUME StackTypes, NEW r \in Ranks, Capped(r), UNCHANGED bufVars, NEW q, NEW p, NEW inFlight,
         NEW rest \in Seq(FrameTypes), CallPrq(r, q, p, inFlight, rest),
         \A near \in BOOLEAN : Covered(stack[r], near) => Covered(rest, near)
  PROVE  Capped(r)'
<1>1. \A near \in BOOLEAN : Covered(stack[r], near) => Covered(stack'[r], near)
  BY CallPrqCovered
<1>2. QED
  BY <1>1, SameCapped

\* The top returns, and flush_to_capacity is called with what is buffered.
LEMMA EndCapped ==
  ASSUME StackTypes, BufTypes, NEW r \in Ranks, UNCHANGED bufVars, NEW rest \in Seq(FrameTypes),
         CallCap(r, localB[r], remoteB[r], rest)
  PROVE  Capped(r)'
<1>1. localB[r] \in Nat /\ remoteB[r] \in Nat
  BY DEF BufTypes
<1>2. \A near \in BOOLEAN : Bytes(r, near)' = IF near THEN localB[r] ELSE remoteB[r]
  BY DEF bufVars, Bytes
<1>3. ASSUME NEW near \in BOOLEAN, Bytes(r, near)' > CapFor(near) PROVE Covered(stack'[r], near)
  <2>1. (IF near THEN localB[r] ELSE remoteB[r]) > CapFor(near)
    BY <1>2, <1>3
  <2>2. QED
    BY <1>1, <2>1, CallCapCovered
<1>4. QED
  BY <1>3 DEF Capped, CapFor

\* Steps of the library keep what is over a capacity on its way.
LEMMA LibraryCapped ==
  ASSUME StackTypes, Data, BufTypes', NEW r \in Ranks, Good(stack[r], inPrq[r], enabled[r]), Capped(r),
         LibraryStep(r)
  PROVE  Capped(r)'
<1> DEFINE s == stack[r]
           t == Tail(s)
<1>0. /\ s \in Seq(FrameTypes) /\ s # <<>> /\ Len(s) \in Nat \ {0} /\ Top(r) = s[1] /\ s[1] \in FrameTypes
  BY TopFacts DEF StackTypes, StackFuns, Top
<1>b. Below(r) = t /\ t \in Seq(FrameTypes)
  BY <1>0, HeadTail DEF Below
<1>s. stack[r] = s
  OBVIOUS
<1>t. stack \in [Ranks -> Seq(FrameTypes)]
  BY DEF StackTypes, StackFuns
<1>n. /\ LocalCap \in Nat /\ RemoteCap \in Nat /\ localB[r] \in Nat /\ remoteB[r] \in Nat
      /\ BufTypes /\ Accounted(r)
  BY CommAssumption DEF Data, BufTypes
<1> HIDE DEF s, t
<1>c. \A near : Covered(s, near) <=> Covers(s[1], near) \/ Covered(t, near)
  BY <1>0, CoveredDrop DEF t
<1>f. ASSUME NEW f \in FrameTypes, f.op = s[1].op, f.op # "cap"
      PROVE  /\ <<f>> \o t \in Seq(FrameTypes)
             /\ \A near : Covered(s, near) => Covered(<<f>> \o t, near)
  <2>1. \A near : Covers(s[1], near) => Covers(f, near)
    BY <1>f DEF Covers
  <2>2. QED
    BY <1>0, <1>b, <2>1, CoveredSwap, Cons DEF t
<1>k. ASSUME NEW near \in BOOLEAN, Bytes(r, near) > CapFor(near) PROVE Covered(s, near)
  BY <1>k, <1>s DEF Capped
<1>1. ASSUME HaltReceive(r) PROVE Capped(r)'
  BY <1>0, <1>1, <1>s, PrqCapped DEF HaltReceive
<1>2. ASSUME HaltEnd(r) PROVE Capped(r)'
  <2>1. CASE s[1].msg = None
    <3>1. s[1].op = "halt" /\ SetStack(r, t) /\ UNCHANGED bufVars
      BY <1>0, <1>b, <1>2, <2>1 DEF HaltEnd
    <3>2. \A near : Covered(s, near) => Covered(t, near)
      BY <1>c, <3>1 DEF Covers
    <3>3. QED
      BY <1>s, <3>1, <3>2, SetCapped
  <2>2. CASE s[1].msg # None
    <3>1. PackAndCap(r, s[1].msg, Hop[r][s[1].to], t)
      BY <1>0, <1>b, <1>2, <2>2 DEF HaltEnd
    <3>2. QED
      BY <1>b, <3>1, PackCapped
  <2>3. QED
    BY <2>1, <2>2
<1>3. ASSUME NEW m \in Msgs, NEW d \in Ranks, BcastCopy(r, m, d) PROVE Capped(r)'
  <2>1. stack'[r] = <<Bcast(TRUE)>> \o t
    BY <1>b, <1>3, <1>t DEF BcastCopy, SetStack
  <2>2. Bcast(TRUE) \in FrameTypes /\ Bcast(TRUE).op = "bcast"
    BY NewFrames
  <2>3. \A near : Covered(stack'[r], near)
    BY <1>b, <2>1, <2>2, CoveredPush DEF Covers
  <2>4. QED
    BY <2>3 DEF Capped
<1>4. ASSUME BcastEnd(r) PROVE Capped(r)'
  BY <1>4, <1>b, <1>n, EndCapped DEF BcastEnd
<1>5. ASSUME CapLocal(r) PROVE Capped(r)'
  <2>1. localB[r] > LocalCap /\ FlushNext(r, TRUE, s)
    BY <1>5, <1>s DEF CapLocal
  <2>2. Bytes(r, TRUE) > 0
    BY <1>n, <2>1 DEF Bytes
  <2>3. DestQueue(r, TRUE) # <<>>
    BY <1>n, <2>2, QueueToFlush
  <2>4. QED
    BY <1>0, <1>k, <2>1, <2>3, FlushCapped
<1>6. ASSUME CapRemote(r) PROVE Capped(r)'
  <2>1. s[1].op = "cap" /\ (s[1].phase = "local" => localB[r] <= LocalCap)
    BY <1>0, <1>6 DEF CapRemote
  <2>2. Bytes(r, TRUE) > CapFor(TRUE) => Covered(t, TRUE)
    <3>1. ASSUME Bytes(r, TRUE) > CapFor(TRUE) PROVE Covered(t, TRUE)
      <4>1. Covered(s, TRUE)
        BY <1>k, <3>1
      <4>2. ~(localB[r] <= LocalCap)
        BY <1>n, <3>1 DEF Bytes, CapFor
      <4>3. ~Covers(s[1], TRUE)
        BY <2>1, <4>2 DEF Covers
      <4>4. QED
        BY <1>c, <4>1, <4>3
    <3>2. QED
      BY <3>1
  <2>3. CASE remoteB[r] > RemoteCap
    <3> DEFINE rest == <<Cap("remote")>> \o t
    <3>1. FlushNext(r, FALSE, rest)
      BY <1>b, <1>6, <2>3 DEF CapRemote
    <3>2. Bytes(r, FALSE) > 0
      BY <1>n, <2>3 DEF Bytes
    <3>3. DestQueue(r, FALSE) # <<>>
      BY <1>n, <3>2, QueueToFlush
    <3>4. Cap("remote") \in FrameTypes /\ Cap("remote").op = "cap"
      BY NewFrames
    <3>5. rest \in Seq(FrameTypes)
      BY <1>b, <3>4, Cons
    <3>6. Covered(rest, FALSE)
      BY <1>b, <3>4, CoveredPush DEF Covers
    <3>7. Bytes(r, TRUE) > CapFor(TRUE) => Covered(rest, TRUE)
      BY <1>b, <2>2, <3>4, CoveredPush
    <3> HIDE DEF rest
    <3>8. \A near \in BOOLEAN : Bytes(r, near) > CapFor(near) => Covered(rest, near)
      BY <3>6, <3>7
    <3>9. QED
      BY <3>1, <3>3, <3>5, <3>8, FlushCapped
  <2>4. CASE ~(remoteB[r] > RemoteCap)
    <3>1. stack'[r] = t /\ UNCHANGED bufVars
      BY <1>b, <1>6, <1>t, <2>4 DEF CapRemote, SetStack
    <3>2. \A near \in BOOLEAN : Bytes(r, near)' = Bytes(r, near)
      BY <3>1 DEF bufVars, Bytes
    <3>3. ~(Bytes(r, FALSE) > CapFor(FALSE))
      BY <2>4 DEF Bytes, CapFor
    <3>4. \A near \in BOOLEAN : Bytes(r, near) > CapFor(near) => Covered(t, near)
      BY <2>2, <3>3
    <3>5. QED
      BY <3>1, <3>2, <3>4 DEF Capped, CapFor
  <2>5. QED
    BY <2>3, <2>4
<1>7. ASSUME FlushOneStep(r) PROVE Capped(r)'
  <2>0. s[1].op = "next" /\ s[1].near \in BOOLEAN
    BY <1>0, <1>7, FrameFields DEF FlushOneStep
  <2>1. \A near : Covered(s, near) => Covered(t, near)
    BY <1>c, <2>0 DEF Covers
  <2>2. CASE DestQueue(r, s[1].near) # <<>>
    <3>1. FlushNext(r, s[1].near, t)
      BY <1>0, <1>b, <1>7, <2>2 DEF FlushOneStep
    <3>2. QED
      BY <1>b, <1>k, <2>0, <2>1, <2>2, <3>1, FlushCapped
  <2>3. CASE DestQueue(r, s[1].near) = <<>>
    <3>1. SetStack(r, t) /\ UNCHANGED bufVars
      BY <1>0, <1>b, <1>7, <2>3 DEF FlushOneStep
    <3>2. QED
      BY <1>s, <2>1, <3>1, SetCapped
  <2>4. QED
    BY <2>2, <2>3
<1>8. ASSUME PrqWait(r) PROVE Capped(r)'
  <2>0. s[1].op = "prq" /\ UNCHANGED bufVars
    BY <1>0, <1>8 DEF PrqWait
  <2>1. PICK some \in SUBSET LandedAt(r) :
          LET rest == <<[s[1] EXCEPT !.phase = "test", !.got = some # {}]>> \o t
          IN  SetStack(r, IF some = {} THEN rest ELSE <<Recv(CHOOSE b \in some : TRUE)>> \o rest)
    BY <1>0, <1>b, <1>8 DEF PrqWait
  <2> DEFINE f == [s[1] EXCEPT !.phase = "test", !.got = some # {}]
             rest == <<f>> \o t
             c == CHOOSE b \in some : TRUE
  <2>2. (some # {}) \in BOOLEAN
    OBVIOUS
  <2>3. f \in FrameTypes /\ f.op = "prq"
    BY <1>0, <2>0, <2>2, PrqFrame
  <2>4. SetStack(r, rest) \/ (some # {} /\ SetStack(r, <<Recv(c)>> \o rest))
    BY <2>1
  <2> HIDE DEF f
  <2>5. rest \in Seq(FrameTypes) /\ \A near : Covered(s, near) => Covered(rest, near)
    BY <1>f, <2>0, <2>3
  <2>6. some # {} => Recv(c) \in FrameTypes
    BY NewFrames DEF LandedAt, Data, WireTypes, FBuffers, Buffers
  <2> HIDE DEF rest, c
  <2>7. some # {} => \A near : Covered(rest, near) => Covered(<<Recv(c)>> \o rest, near)
    BY <2>5, <2>6, CoveredPush
  <2>8. CASE SetStack(r, rest)
    BY <1>s, <2>0, <2>5, <2>8, SetCapped
  <2>9. CASE some # {} /\ SetStack(r, <<Recv(c)>> \o rest)
    <3>1. \A near \in BOOLEAN : Covered(stack[r], near) => Covered(<<Recv(c)>> \o rest, near)
      BY <1>s, <2>5, <2>7, <2>9
    <3>2. QED
      BY <2>0, <2>9, <3>1, SetCapped
  <2>10. QED
    BY <2>4, <2>8, <2>9
<1>9. ASSUME PrqReceive(r) PROVE Capped(r)'
  <2> DEFINE f == [s[1] EXCEPT !.got = TRUE]
             rest == <<f>> \o t
  <2>0. s[1].op = "prq" /\ UNCHANGED bufVars
    BY <1>0, <1>9 DEF PrqReceive
  <2>1. PICK b \in landed : SetStack(r, <<Recv(b), f>> \o t)
    BY <1>0, <1>b, <1>9 DEF PrqReceive, LandedAt
  <2>2. f \in FrameTypes /\ f.op = "prq"
    BY <1>0, <2>0, PrqFrame
  <2>3. Recv(b) \in FrameTypes
    BY NewFrames DEF Data, WireTypes, FBuffers, Buffers
  <2> HIDE DEF f
  <2>4. SetStack(r, <<Recv(b)>> \o rest)
    BY <1>b, <2>1, <2>2, <2>3, TwoCons
  <2>5. rest \in Seq(FrameTypes) /\ \A near : Covered(s, near) => Covered(rest, near)
    BY <1>f, <2>0, <2>2
  <2> HIDE DEF rest
  <2>6. \A near : Covered(rest, near) => Covered(<<Recv(b)>> \o rest, near)
    BY <2>3, <2>5, CoveredPush
  <2>7. \A near \in BOOLEAN : Covered(stack[r], near) => Covered(<<Recv(b)>> \o rest, near)
    BY <1>s, <2>5, <2>6
  <2>8. QED
    BY <2>0, <2>4, <2>7, SetCapped
<1>10. ASSUME PrqReturn(r) PROVE Capped(r)'
  <2>0. /\ s[1].op = "prq" /\ UNCHANGED bufVars
        /\ SetStack(r, IF Head(t).op = "flushall"
                       THEN <<[Head(t) EXCEPT !.did = Head(t).did \/ s[1].got]>> \o Tail(t) ELSE t)
    BY <1>0, <1>b, <1>10 DEF PrqReturn
  <2>1. \A near : Covered(s, near) => Covered(t, near)
    BY <1>c, <2>0 DEF Covers
  <2>2. t # <<>>
    <3>1. s[1].op # "user" => Len(s) > 1
      BY TopFacts DEF s, StackTypes, StackFuns
    <3>2. Len(t) = Len(s) - 1
      BY <1>0, HeadTail DEF t
    <3>3. Len(t) # 0
      BY <1>0, <2>0, <3>1, <3>2
    <3>4. QED
      BY <3>3
  <2>3. Head(t) = t[1] /\ t[1] \in FrameTypes
    BY <1>b, <2>2, HeadTail
  <2>4. CASE Head(t).op = "flushall"
    <3> DEFINE f == [t[1] EXCEPT !.did = t[1].did \/ s[1].got]
    <3>1. (t[1].did \/ s[1].got) \in BOOLEAN
      OBVIOUS
    <3>2. f \in FrameTypes /\ f.op = "flushall"
      BY <2>3, <2>4, <3>1, DidFrame
    <3>3. SetStack(r, <<f>> \o Tail(t))
      BY <2>0, <2>3, <2>4
    <3> HIDE DEF f
    <3>4. \A near : Covers(t[1], near) => Covers(f, near)
      BY <2>3, <2>4 DEF Covers
    <3>5. \A near : Covered(t, near) => Covered(<<f>> \o Tail(t), near)
      BY <1>b, <2>2, <3>2, <3>4, CoveredSwap
    <3>6. \A near \in BOOLEAN : Covered(stack[r], near) => Covered(<<f>> \o Tail(t), near)
      BY <1>s, <2>1, <3>5
    <3>7. QED
      BY <2>0, <3>3, <3>6, SetCapped
  <2>5. CASE Head(t).op # "flushall"
    BY <1>s, <2>0, <2>1, <2>5, SetCapped
  <2>6. QED
    BY <2>4, <2>5
<1>11. ASSUME RecvMessage(r) PROVE Capped(r)'
  <2>0. s[1].op = "recv" /\ s[1].todo \in SUBSET Msgs
    BY <1>0, <1>11, FrameFields DEF RecvMessage
  <2>1. PICK m \in s[1].todo :
          LET rest == <<[s[1] EXCEPT !.todo = @ \ {m}]>> \o t
          IN  IF dst[m] = r
              THEN SetStack(r, <<User(m)>> \o rest) /\ UNCHANGED bufVars
              ELSE PackAndCap(r, m, Hop[r][dst[m]], rest)
    BY <1>0, <1>b, <1>11 DEF RecvMessage
  <2> DEFINE f == [s[1] EXCEPT !.todo = @ \ {m}]
             rest == <<f>> \o t
  <2>2. m \in Msgs /\ f \in FrameTypes /\ f.op = "recv"
    BY <1>0, <2>0, <2>1, RecvFrame
  <2>3. dst[m] = r => SetStack(r, <<User(m)>> \o rest) /\ UNCHANGED bufVars
    BY <2>1
  <2>4. dst[m] # r => PackAndCap(r, m, Hop[r][dst[m]], rest)
    BY <2>1
  <2> HIDE DEF f
  <2>5. rest \in Seq(FrameTypes) /\ \A near : Covered(s, near) => Covered(rest, near)
    BY <1>f, <2>0, <2>2
  <2> HIDE DEF rest
  <2>6. CASE dst[m] = r
    <3>1. User(m) \in FrameTypes
      BY <2>2, NewFrames
    <3>2. \A near : Covered(rest, near) => Covered(<<User(m)>> \o rest, near)
      BY <2>5, <3>1, CoveredPush
    <3>3. \A near \in BOOLEAN : Covered(stack[r], near) => Covered(<<User(m)>> \o rest, near)
      BY <1>s, <2>5, <3>2
    <3>4. QED
      BY <2>3, <2>6, <3>3, SetCapped
  <2>7. CASE dst[m] # r
    BY <2>4, <2>5, <2>7, PackCapped
  <2>8. QED
    BY <2>6, <2>7
<1>12. ASSUME RecvEnd(r) PROVE Capped(r)'
  BY <1>12, <1>b, <1>n, EndCapped DEF RecvEnd
<1>G. ASSUME s[1].op = "flushall", NEW phase \in Phases, NEW did \in BOOLEAN
      PROVE  /\ GoTo(r, phase, did) \in Seq(FrameTypes)
             /\ \A near : Covered(s, near) => Covered(GoTo(r, phase, did), near)
  <2> DEFINE f == [s[1] EXCEPT !.phase = phase, !.did = did]
  <2>1. f \in FrameTypes /\ f.op = "flushall"
    BY <1>0, <1>G DEF FrameTypes, Phases, Reduce
  <2>2. GoTo(r, phase, did) = <<f>> \o t
    BY <1>0, <1>b DEF GoTo
  <2> HIDE DEF f
  <2>3. QED
    BY <1>f, <1>G, <2>1, <2>2
<1>13. ASSUME FlushAllPoll(r) PROVE Capped(r)'
  <2>1. s[1].op = "flushall" /\ CallPrq(r, sendq[r], pending[r], wire, GoTo(r, "hooks", FALSE)) /\ UNCHANGED bufVars
    BY <1>0, <1>13 DEF FlushAllPoll, InPhase
  <2>2. "hooks" \in Phases /\ FALSE \in BOOLEAN
    BY DEF Phases
  <2>3. /\ GoTo(r, "hooks", FALSE) \in Seq(FrameTypes)
        /\ \A near : Covered(s, near) => Covered(GoTo(r, "hooks", FALSE), near)
    BY <1>G, <2>1, <2>2
  <2>4. QED
    BY <1>s, <2>1, <2>3, PrqCapped
<1>14. ASSUME FlushAllHook(r) PROVE Capped(r)'
  <2> DEFINE rest == GoTo(r, "hooks", TRUE)
  <2>1. s[1].op = "flushall" /\ SetStack(r, <<User(None)>> \o rest) /\ UNCHANGED bufVars
    BY <1>0, <1>14 DEF FlushAllHook, InPhase
  <2>2. "hooks" \in Phases /\ TRUE \in BOOLEAN
    BY DEF Phases
  <2>3. rest \in Seq(FrameTypes) /\ \A near : Covered(s, near) => Covered(rest, near)
    BY <1>G, <2>1, <2>2
  <2>4. User(None) \in FrameTypes
    BY NewFrames
  <2> HIDE DEF rest
  <2>5. \A near : Covered(rest, near) => Covered(<<User(None)>> \o rest, near)
    BY <2>3, <2>4, CoveredPush
  <2>6. \A near \in BOOLEAN : Covered(stack[r], near) => Covered(<<User(None)>> \o rest, near)
    BY <1>s, <2>3, <2>5
  <2>7. QED
    BY <2>1, <2>6, SetCapped
<1>15. ASSUME NEW near \in BOOLEAN, FlushAllBuffer(r, near) PROVE Capped(r)'
  <2>1. /\ s[1].op = "flushall" /\ DestQueue(r, near) # <<>>
        /\ FlushNext(r, near, GoTo(r, s[1].phase, TRUE))
    BY <1>0, <1>15 DEF FlushAllBuffer, InPhase
  <2>2. s[1].phase \in Phases /\ TRUE \in BOOLEAN
    BY <1>0, <2>1, FrameFields DEF Phases
  <2>3. /\ GoTo(r, s[1].phase, TRUE) \in Seq(FrameTypes)
        /\ \A side : Covered(s, side) => Covered(GoTo(r, s[1].phase, TRUE), side)
    BY <1>G, <2>1, <2>2
  <2>4. QED
    BY <1>k, <2>1, <2>3, FlushCapped
<1>16. ASSUME FlushAllIsends(r) PROVE Capped(r)'
  BY <1>0, <1>16, <1>s, PrqCapped DEF FlushAllIsends
<1>17. ASSUME FlushAllNext(r) PROVE Capped(r)'
  <2>1. s[1].op = "flushall" /\ UNCHANGED bufVars
    BY <1>0, <1>17 DEF FlushAllNext, InPhase
  <2>2. s[1].did \in BOOLEAN
    BY <1>0, <2>1, FrameFields
  <2>3. \/ SetStack(r, t)
        \/ \E phase \in Phases, did \in BOOLEAN : SetStack(r, GoTo(r, phase, did))
    BY <1>0, <1>b, <1>17, <2>2 DEF FlushAllNext, Phases
  <2>4. CASE SetStack(r, t)
    <3>1. \A near : Covered(s, near) => Covered(t, near)
      BY <1>c, <2>1 DEF Covers
    <3>2. QED
      BY <1>s, <2>1, <2>4, <3>1, SetCapped
  <2>5. ASSUME NEW phase \in Phases, NEW did \in BOOLEAN, SetStack(r, GoTo(r, phase, did)) PROVE Capped(r)'
    <3>1. \A near : Covered(s, near) => Covered(GoTo(r, phase, did), near)
      BY <1>G, <2>1
    <3>2. QED
      BY <1>s, <2>1, <2>5, <3>1, SetCapped
  <2>6. QED
    BY <2>3, <2>4, <2>5
<1>18. ASSUME ReduceReceive(r) PROVE Capped(r)'
  <2> DEFINE rest == <<FlushAll>> \o s
  <2>1. PICK b \in landed : SetStack(r, <<Recv(b), FlushAll>> \o s)
    BY <1>18, <1>s DEF ReduceReceive, LandedAt
  <2>2. UNCHANGED bufVars
    BY <1>18 DEF ReduceReceive
  <2>3. Recv(b) \in FrameTypes /\ FlushAll \in FrameTypes
    BY NewFrames DEF Data, WireTypes, FBuffers, Buffers
  <2>4. SetStack(r, <<Recv(b)>> \o rest)
    BY <1>0, <2>1, <2>3, TwoCons
  <2>5. rest \in Seq(FrameTypes) /\ \A near : Covered(s, near) => Covered(rest, near)
    BY <1>0, <2>3, Cons, CoveredPush
  <2> HIDE DEF rest
  <2>6. \A near : Covered(rest, near) => Covered(<<Recv(b)>> \o rest, near)
    BY <2>3, <2>5, CoveredPush
  <2>7. \A near \in BOOLEAN : Covered(stack[r], near) => Covered(<<Recv(b)>> \o rest, near)
    BY <1>s, <2>5, <2>6
  <2>8. QED
    BY <2>2, <2>4, <2>7, SetCapped
<1>19. QED
  BY <1>1, <1>2, <1>3, <1>4, <1>5, <1>6, <1>7, <1>8, <1>9, <1>10, <1>11, <1>12, <1>13, <1>14, <1>15, <1>16,
     <1>17, <1>18 DEF LibraryStep


-----------------------------------------------------------------------------
(***************************************************************************)
(* The invariant.                                                          *)
(***************************************************************************)
\* The inductive invariant: of the stacks, of the messages, of the sends, of
\* the callbacks, of the capacities.
CommInv ==
  /\ StackTypes /\ StackInv
  /\ Data
  /\ SendsOK
  /\ HookTypes
  /\ \A r \in Ranks : Capped(r)

\* It holds at the beginning.
LEMMA InitInv ==
  ASSUME Init
  PROVE  CommInv
<1>0. /\ None \notin Msgs /\ MaxMasks \in Nat /\ LocalCap \in Nat /\ RemoteCap \in Nat /\ MaxHooks \in Nat
      /\ IsFiniteSet(Ranks)
  BY CommAssumption
<1> DEFINE u == User(None)
           s == <<u>>
<1>u. u \in FrameTypes /\ u.op = "user" /\ u.msg = None /\ u.masks = 0
  BY NewFrames
<1> HIDE DEF u
<1>1. s \in Seq(FrameTypes) /\ Len(s) = 1 /\ s[1] = u
  BY <1>u
<1>s. \A r \in Ranks : stack[r] = s
  BY DEF Init, u
<1>st. stack = [r \in Ranks |-> s]
  BY DEF Init, u
<1>2. StackTypes
  <2>1. StackFuns
    BY <1>1, <1>st DEF Init, StackFuns
  <2>2. sendq \in [Ranks -> Seq(FBuffers)]
    BY DEF Init
  <2>3. QED
    BY <2>1, <2>2 DEF StackTypes
<1> HIDE DEF s
<1>3. ASSUME NEW r \in Ranks PROVE Good(stack[r], inPrq[r], enabled[r]) /\ Calm(r)
  <2>1. inPrq[r] = FALSE /\ enabled[r] = TRUE
    BY DEF Init
  <2>2. StackShape(s)
    <3>1. s # <<>> /\ s[Len(s)] = u
      BY <1>1
    <3>2. \A i \in 1..Len(s) - 1 : FALSE
      BY <1>1
    <3>3. \A i \in 1..Len(s) : s[i].op # "reduce"
      BY <1>1, <1>u
    <3>4. QED
      BY <1>u, <3>1, <3>2, <3>3 DEF StackShape
  <2>3. PrqFlag(s, FALSE)
    BY <1>1, <1>u DEF PrqFlag
  <2>4. MaskQuiet(s, TRUE)
    BY <1>1, <1>u DEF MaskQuiet
  <2>5. Calm(r)
    BY <1>1, <1>s, <1>u DEF Calm
  <2>6. QED
    BY <1>1, <1>s, <2>1, <2>2, <2>3, <2>4, <2>5 DEF Good
<1>4. MsgTypes
  BY DEF Init, MsgTypes
<1>5. WireTypes
  BY FS_EmptySet DEF Init, WireTypes
<1>e. IsFiniteSet({}) /\ Cardinality({}) = 0
  BY FS_EmptySet
<1>6. BufTypes
  BY <1>e DEF Init, BufTypes
<1>7. ASSUME NEW r \in Ranks PROVE Accounted(r)
  <2> SUFFICES ASSUME NEW near \in BOOLEAN
               PROVE  /\ Exact(DestQueue(r, near), Filled(r, near))
                      /\ Bytes(r, near) = Cardinality(Stored(r, near))
    BY DEF Accounted
  <2>1. \A d \in Ranks : buf[r][d] = {}
    BY DEF Init
  <2>2. Filled(r, near) = {} /\ Stored(r, near) = {}
    BY <2>1 DEF Filled, Stored
  <2>3. DestQueue(r, near) = <<>> /\ Bytes(r, near) = 0
    BY DEF Init, DestQueue, Bytes
  <2>4. Exact(<<>>, {})
    BY DEF Exact
  <2>5. QED
    BY <1>e, <2>2, <2>3, <2>4
<1>8. Placed
  <2> SUFFICES ASSUME NEW m \in Msgs PROVE m \notin sent /\ PlacesOf(m) = {}
    BY DEF Placed
  <2>1. m \notin sent
    BY DEF Init
  <2>2. CallsOf(m) = {}
    <3>1. ~Carries(u, m)
      BY <1>0, <1>u DEF Carries
    <3>2. \A h \in 1..Len(s) : s[Len(s) + 1 - h] = u
      BY <1>1
    <3>3. Heights(s, m) = {}
      BY <3>1, <3>2 DEF Heights
    <3>4. QED
      BY <1>s, <3>3 DEF CallsOf
  <2>3. BuffersOf(m) = {}
    BY DEF Init, BuffersOf
  <2>4. WiresOf(m) = {} /\ LandedOf(m) = {}
    BY DEF Init, WiresOf, LandedOf
  <2>5. QED
    BY <2>1, <2>2, <2>3, <2>4 DEF PlacesOf
<1>9. SendsOK
  <2>1. <<>> \in Seq(FBuffers)
    OBVIOUS
  <2>2. Load(<<>>) = 0
    <3>1. Contents(<<>>) = {}
      BY DEF Contents
    <3>2. QED
      BY <1>e, <2>1, <3>1, LoadContents
  <2>3. QED
    BY <2>1, <2>2 DEF Init, SendsOK
<1>10. HookTypes
  BY <1>0 DEF Init, HookTypes
<1>11. ASSUME NEW r \in Ranks PROVE Capped(r)
  BY <1>0 DEF Init, Capped, Bytes, CapFor
<1>12. QED
  BY <1>2, <1>3, <1>4, <1>5, <1>6, <1>7, <1>8, <1>9, <1>10, <1>11 DEF CommInv, StackInv, Data

\* A message that a call carries has been sent.
LEMMA CarriedSent ==
  ASSUME Data, NEW r \in Ranks, NEW m \in Msgs, Heights(stack[r], m) # {}
  PROVE  dst[m] \in Ranks
<1>1. PICK h : h \in Heights(stack[r], m)
  OBVIOUS
<1>2. <<"call", r, h>> \in CallsOf(m)
  BY <1>1 DEF CallsOf
<1>3. m \in sent
  BY <1>2, PlaceHeld DEF PlacesOf
<1>4. QED
  BY <1>3 DEF Data, MsgTypes

\* Every step of a rank keeps it.
LEMMA RankInv ==
  ASSUME CommInv, NEW r \in Ranks, UserStep(r) \/ LibraryStep(r)
  PROVE  CommInv'
<1>0. StackTypes /\ StackInv /\ Data /\ SendsOK /\ HookTypes /\ BufTypes /\ Accounted(r) /\ Capped(r)
  BY DEF CommInv, Data
<1>1. Good(stack[r], inPrq[r], enabled[r]) /\ Calm(r)
  BY <1>0 DEF StackInv
<1>2. landed \subseteq Buffers /\ IsFiniteSet(landed)
  BY <1>0 DEF Data, WireTypes, FBuffers
<1>3. stack[r] \in Seq(FrameTypes) /\ stack[r] # <<>>
  BY <1>1 DEF Good, StackShape
<1>4. StackStep(r)
  BY <1>0, <1>1, <1>2, UserStack, LibraryStack
<1>5. Deed(r)
  <2>1. \A m \in Msgs : Heights(stack[r], m) # {} => dst[m] \in Ranks
    BY <1>0, CarriedSent
  <2>2. QED
    BY <1>0, <1>1, <1>2, <2>1, UserDeed, LibraryDeed
<1>6. SendsOK'
  BY <1>0, <1>1, <1>3, UserSends, LibrarySends
<1>7. Elsewhere(r)
  BY <1>0, UserElsewhere, LibraryElsewhere
<1>8. \A x \in Ranks \ {r} : stack'[x] = stack[x]
  BY <1>4 DEF StackStep
<1>9. Data'
  BY <1>0, <1>5, <1>8, DeedData
<1>10. StackTypes'
  BY <1>4, <1>6 DEF StackStep, StackTypes, SendsOK
<1>11. ASSUME NEW x \in Ranks PROVE Good(stack[x], inPrq[x], enabled[x])' /\ Calm(x)'
  <2>1. CASE x = r
    BY <1>4, <2>1 DEF StackStep
  <2>2. CASE x # r
    <3>1. stack'[x] = stack[x] /\ inPrq'[x] = inPrq[x] /\ enabled'[x] = enabled[x]
      BY <1>4, <2>2 DEF StackStep
    <3>2. hooks'[x] = hooks[x] /\ sendq'[x] = sendq[x]
      BY <1>7, <2>2 DEF Elsewhere
    <3>3. localq'[x] = localq[x] /\ remoteq'[x] = remoteq[x]
      BY <1>0, <1>5, <2>2, DeedElsewhere
    <3>4. Good(stack[x], inPrq[x], enabled[x]) /\ Calm(x)
      BY <1>0 DEF StackInv
    <3>5. Calm(x)'
      BY <3>1, <3>2, <3>3, <3>4 DEF Calm, CleanAt
    <3>6. QED
      BY <3>1, <3>4, <3>5
  <2>3. QED
    BY <2>1, <2>2
<1>12. ASSUME NEW x \in Ranks PROVE Capped(x)'
  <2>1. CASE x = r
    <3>1. BufTypes'
      BY <1>9 DEF Data
    <3>2. QED
      BY <1>0, <1>1, <2>1, <3>1, UserCapped, LibraryCapped
  <2>2. CASE x # r
    <3>1. stack'[x] = stack[x] /\ localB'[x] = localB[x] /\ remoteB'[x] = remoteB[x]
      BY <1>0, <1>5, <1>8, <2>2, DeedElsewhere
    <3>2. Capped(x)
      BY DEF CommInv
    <3>3. QED
      BY <3>1, <3>2 DEF Capped, Bytes, CapFor
  <2>3. QED
    BY <2>1, <2>2
<1>13. QED
  BY <1>6, <1>7, <1>9, <1>10, <1>11, <1>12 DEF CommInv, StackInv, Elsewhere

\* The matching of a receive keeps it.
LEMMA ArriveInv ==
  ASSUME CommInv, NEW r \in Ranks, Arrive(r)
  PROVE  CommInv'
<1>0. UNCHANGED <<bufVars, sendq, pending, flagVars, hookVars, stack>>
  BY DEF Arrive
<1>1. Data'
  BY ArriveData DEF CommInv
<1>2. UNCHANGED <<sendq, pending, enabled, inPrq, hooks, hooksLeft, stack, localq, remoteq, localB, remoteB>>
  BY <1>0 DEF bufVars, flagVars, hookVars
<1>3. StackTypes' /\ SendsOK' /\ HookTypes'
  BY <1>2 DEF CommInv, StackTypes, StackFuns, SendsOK, HookTypes
<1>4. ASSUME NEW x \in Ranks PROVE Good(stack[x], inPrq[x], enabled[x])' /\ Calm(x)' /\ Capped(x)'
  <2>1. Good(stack[x], inPrq[x], enabled[x]) /\ Calm(x) /\ Capped(x)
    BY DEF CommInv, StackInv
  <2>2. Calm(x)'
    BY <1>2, <2>1 DEF Calm, CleanAt
  <2>3. Capped(x)'
    BY <1>2, <2>1 DEF Capped, Bytes, CapFor
  <2>4. QED
    BY <1>2, <2>1, <2>2, <2>3
<1>5. QED
  BY <1>1, <1>3, <1>4 DEF CommInv, StackInv

\* The end of a barrier keeps it.
LEMMA ReleaseInv ==
  ASSUME CommInv, Release
  PROVE  CommInv'
<1>0. /\ stack' = [r \in Ranks |-> Below(r)]
      /\ UNCHANGED <<sent, dst, done, bufVars, mpiVars, flagVars, hookVars>>
  BY DEF Release, msgVars
<1>1. /\ UNCHANGED <<sent, dst, done, sendq, pending, wire, landed, enabled, inPrq, hooks, hooksLeft>>
      /\ UNCHANGED <<bufVars, localB, remoteB>>
  BY <1>0 DEF bufVars, mpiVars, flagVars, hookVars
<1>2. ASSUME NEW r \in Ranks
      PROVE  /\ stack'[r] = Tail(stack[r]) /\ Tail(stack[r]) \in Seq(FrameTypes)
             /\ stack[r] \in Seq(FrameTypes) /\ stack[r] # <<>> /\ stack[r][1].op = "reduce"
             /\ Good(stack[r], inPrq[r], enabled[r]) /\ Len(stack[r]) = 2 /\ Tail(stack[r])[1].op = "user"
  <2>1. Good(stack[r], inPrq[r], enabled[r]) /\ inPrq[r] \in BOOLEAN /\ enabled[r] \in BOOLEAN
    BY DEF CommInv, StackInv, StackTypes, StackFuns
  <2>2. stack[r] \in Seq(FrameTypes) /\ stack[r] # <<>>
    BY <2>1 DEF Good, StackShape
  <2>3. Head(stack[r]) = stack[r][1] /\ Tail(stack[r]) \in Seq(FrameTypes)
    BY <2>2, HeadTail
  <2>4. stack[r][1].op = "reduce"
    BY <2>3 DEF Release, Top
  <2>5. Len(stack[r]) = 2 /\ stack[r][2].op = "user"
    BY <2>1, <2>4, TopFacts
  <2>6. Len(stack[r]) > 1 => Tail(stack[r])[1] = stack[r][2]
    BY <2>1, TopFacts
  <2>7. Tail(stack[r])[1].op = "user"
    BY <2>5, <2>6
  <2>8. stack'[r] = Tail(stack[r])
    BY <1>0 DEF Below
  <2>9. QED
    BY <2>1, <2>2, <2>3, <2>4, <2>5, <2>7, <2>8
<1>3. StackTypes' /\ SendsOK' /\ HookTypes'
  <2>1. stack' \in [Ranks -> Seq(FrameTypes)]
    BY <1>0, <1>2 DEF Below
  <2>2. QED
    BY <1>1, <2>1 DEF CommInv, StackTypes, StackFuns, SendsOK, HookTypes
<1>4. ASSUME NEW r \in Ranks PROVE Good(stack[r], inPrq[r], enabled[r])' /\ Calm(r)' /\ Capped(r)'
  <2>0. inPrq[r] \in BOOLEAN /\ enabled[r] \in BOOLEAN /\ Capped(r)
    BY DEF CommInv, StackTypes, StackFuns
  <2>1. Good(Tail(stack[r]), inPrq[r], enabled[r])
    <3>1. Len(stack[r]) > 1
      BY <1>2
    <3>2. Good(Tail(stack[r]), IF stack[r][1].op = "prq" THEN FALSE ELSE inPrq[r], enabled[r])
      BY <1>2, <2>0, <3>1, DropFrame
    <3>3. stack[r][1].op # "prq"
      BY <1>2
    <3>4. QED
      BY <3>2, <3>3
  <2>2. Good(stack'[r], inPrq'[r], enabled'[r])
    BY <1>1, <1>2, <2>1
  <2>3. stack'[r][1].op = "user"
    BY <1>2
  <2>4. Calm(r)'
    BY <2>3 DEF Calm
  <2>5. \A near : Covered(stack[r], near) <=> Covers(stack[r][1], near) \/ Covered(Tail(stack[r]), near)
    BY <1>2, CoveredDrop
  <2>6. \A near \in BOOLEAN : Covered(stack[r], near) => Covered(stack'[r], near)
    BY <1>2, <2>5 DEF Covers
  <2>7. Capped(r)'
    BY <1>1, <2>0, <2>6, SameCapped
  <2>8. QED
    BY <2>2, <2>4, <2>7
<1>5. Data'
  <2>1. Data
    BY DEF CommInv
  <2>2. BufTypes' /\ (\A x \in Ranks : Accounted(x)') /\ UNCHANGED buf
    BY <1>1, <2>1, SameBuffers
  <2>3. MsgTypes' /\ WireTypes'
    BY <1>1, <2>1 DEF Data, MsgTypes, WireTypes
  <2>4. ASSUME NEW n \in Msgs PROVE PlacesOf(n)' = PlacesOf(n)
    <3>1. ASSUME NEW x \in Ranks PROVE Heights(stack'[x], n) = Heights(stack[x], n)
      <4>1. Heights(Tail(stack[x]), n) = Heights(stack[x], n)
        BY <1>2, LeaveIdle
      <4>2. QED
        BY <1>2, <4>1
    <3>2. CallsOf(n)' = CallsOf(n)
      BY <3>1, CallsSame
    <3>3. QED
      BY <1>1, <2>2, <3>2, SamePlaces DEF PlacesOf
  <2>5. QED
    BY <1>1, <2>1, <2>2, <2>3, <2>4, MovedData
<1>6. QED
  BY <1>3, <1>4, <1>5 DEF CommInv, StackInv

\* So does a stutter.
LEMMA SameInv ==
  ASSUME CommInv, UNCHANGED vars
  PROVE  CommInv'
<1>1. UNCHANGED <<sent, dst, done, sendq, pending, wire, landed, enabled, inPrq, hooks, hooksLeft, stack>>
  BY DEF vars, msgVars, mpiVars, flagVars, hookVars
<1>2. UNCHANGED bufVars /\ UNCHANGED <<buf, localq, remoteq, localB, remoteB>>
  BY DEF vars, bufVars
<1>3. Data'
  <2>1. Data
    BY DEF CommInv
  <2>2. BufTypes' /\ (\A x \in Ranks : Accounted(x)') /\ UNCHANGED buf
    BY <1>2, <2>1, SameBuffers
  <2>3. MsgTypes' /\ WireTypes'
    BY <1>1, <2>1 DEF Data, MsgTypes, WireTypes
  <2>4. ASSUME NEW n \in Msgs PROVE PlacesOf(n)' = PlacesOf(n)
    <3>1. CallsOf(n)' = CallsOf(n)
      BY <1>1, CallsSame
    <3>2. QED
      BY <1>1, <2>2, <3>1, SamePlaces DEF PlacesOf
  <2>5. QED
    BY <1>1, <2>1, <2>2, <2>3, <2>4, MovedData
<1>4. StackTypes' /\ SendsOK' /\ HookTypes'
  BY <1>1 DEF CommInv, StackTypes, StackFuns, SendsOK, HookTypes
<1>5. ASSUME NEW x \in Ranks PROVE Good(stack[x], inPrq[x], enabled[x])' /\ Calm(x)' /\ Capped(x)'
  <2>1. Good(stack[x], inPrq[x], enabled[x]) /\ Calm(x) /\ Capped(x)
    BY DEF CommInv, StackInv
  <2>2. Calm(x)'
    BY <1>1, <1>2, <2>1 DEF Calm, CleanAt
  <2>3. Capped(x)'
    BY <1>1, <1>2, <2>1 DEF Capped, Bytes, CapFor
  <2>4. QED
    BY <1>1, <2>1, <2>2, <2>3
<1>6. QED
  BY <1>3, <1>4, <1>5 DEF CommInv, StackInv

\* The invariant holds of every behaviour of the engine.
THEOREM Inductive == Spec => []CommInv
<1>1. Init => CommInv
  BY InitInv
<1>2. CommInv /\ [Next]_vars => CommInv'
  <2> SUFFICES ASSUME CommInv, [Next]_vars PROVE CommInv'
    OBVIOUS
  <2>1. CASE Next
    <3>1. ASSUME NEW r \in Ranks, UserStep(r) \/ LibraryStep(r) PROVE CommInv'
      BY <3>1, RankInv
    <3>2. ASSUME NEW r \in Ranks, Arrive(r) PROVE CommInv'
      BY <3>2, ArriveInv
    <3>3. CASE Release
      BY <3>3, ReleaseInv
    <3>4. QED
      BY <2>1, <3>1, <3>2, <3>3 DEF Next
  <2>2. CASE UNCHANGED vars
    BY <2>2, SameInv
  <2>3. QED
    BY <2>1, <2>2
<1>3. QED
  BY <1>1, <1>2, PTL DEF Spec


-----------------------------------------------------------------------------
(***************************************************************************)
(* The properties.                                                         *)
(***************************************************************************)
\* Every variable has its type.
THEOREM TypeCorrect == Spec => []TypeOK
<1>1. CommInv => TypeOK
  <2> SUFFICES ASSUME CommInv PROVE TypeOK
    OBVIOUS
  <2>1. /\ MsgTypes /\ WireTypes /\ BufTypes /\ StackTypes /\ StackFuns /\ SendsOK /\ HookTypes
    BY DEF CommInv, Data, StackTypes
  <2>2. Seq(FBuffers) \subseteq Seq(Buffers)
    <3>1. FBuffers \subseteq Buffers
      BY DEF FBuffers
    <3> HIDE DEF FBuffers, Buffers
    <3>2. QED
      BY <3>1
  <2>3. sendq \in [Ranks -> Seq(Buffers)]
    BY <2>1, <2>2 DEF StackTypes
  <2>4. wire \subseteq Buffers /\ landed \subseteq Buffers
    BY <2>1 DEF WireTypes, FBuffers
  <2>5. \A q \in {localq, remoteq} : q \in [Ranks -> Seq(Ranks)]
    BY <2>1 DEF BufTypes
  <2>6. \A n \in {localB, remoteB, pending, hooks} : n \in [Ranks -> Nat]
    BY <2>1 DEF BufTypes, SendsOK, HookTypes
  <2>7. \A f \in {enabled, inPrq} : f \in [Ranks -> BOOLEAN]
    BY <2>1 DEF StackFuns
  <2>8. QED
    BY <2>1, <2>3, <2>4, <2>5, <2>6, <2>7 DEF TypeOK, MsgTypes, BufTypes, HookTypes, StackFuns
<1>2. QED
  BY <1>1, Inductive, PTL

\* However calls of async, flushes, receives and handlers nest and interleave,
\* a message is in exactly one place from its async until its handler returns:
\* comm.ipp neither loses nor duplicates one.
THEOREM MessageKept == Spec => []OnePlace
<1>1. CommInv => OnePlace
  <2> SUFFICES ASSUME CommInv, NEW m \in Msgs
               PROVE  Cardinality(PlacesOf(m)) = IF m \in sent \ done THEN 1 ELSE 0
    BY DEF OnePlace
  <2>1. IF m \in sent \ done THEN \E p : PlacesOf(m) = {p} ELSE PlacesOf(m) = {}
    BY DEF CommInv, Data, Placed
  <2>2. \A p : Cardinality({p}) = 1
    BY FS_Singleton
  <2>3. Cardinality({}) = 0
    BY FS_EmptySet
  <2>4. QED
    BY <2>1, <2>2, <2>3
<1>2. QED
  BY <1>1, Inductive, PTL

\* The destination queues name each buffer that is not empty once; the three
\* byte counters are what buffers and send queue hold (flush_send_buffer,
\* pack_lambda_generic, handle_completed_send).
THEOREM Accounts == Spec => []BuffersAccounted
<1>1. CommInv => BuffersAccounted
  <2> SUFFICES ASSUME CommInv, NEW r \in Ranks
               PROVE  /\ Names(localq[r], Filled(r, TRUE)) /\ Names(remoteq[r], Filled(r, FALSE))
                      /\ localB[r] = Held(r, Filled(r, TRUE)) /\ remoteB[r] = Held(r, Filled(r, FALSE))
                      /\ pending[r] = Load(sendq[r])
    BY DEF BuffersAccounted
  <2>1. BufTypes /\ Accounted(r) /\ SendsOK
    BY DEF CommInv, Data
  <2>2. /\ Exact(localq[r], Filled(r, TRUE)) /\ localB[r] = Cardinality(Stored(r, TRUE))
        /\ Exact(remoteq[r], Filled(r, FALSE)) /\ remoteB[r] = Cardinality(Stored(r, FALSE))
    BY <2>1 DEF Accounted, DestQueue, Bytes
  <2>3. localq[r] \in Seq(Ranks) /\ remoteq[r] \in Seq(Ranks)
    BY <2>1 DEF BufTypes
  <2>4. Names(localq[r], Filled(r, TRUE)) /\ Names(remoteq[r], Filled(r, FALSE))
    BY <2>2, <2>3, ExactNames
  <2>5. /\ Held(r, Filled(r, TRUE)) = Cardinality(Stored(r, TRUE))
        /\ Held(r, Filled(r, FALSE)) = Cardinality(Stored(r, FALSE))
    BY <2>1, StoredHeld
  <2>6. QED
    BY <2>1, <2>2, <2>4, <2>5 DEF SendsOK
<1>2. QED
  BY <1>1, Inductive, PTL

\* At most one frame of a sort is on the stack s: a count of one, or none.
LEMMA CountAtMostOne ==
  ASSUME NEW S, \A i, j \in S : i = j
  PROVE  /\ S # {} => Cardinality(S) = 1
         /\ S = {} => Cardinality(S) = 0
         /\ Cardinality(S) \in 0..1
<1>1. CASE S = {}
  BY <1>1, FS_EmptySet
<1>2. CASE S # {}
  <2>1. PICK x : S = {x}
    BY <1>2
  <2>2. Cardinality(S) = 1
    BY <2>1, FS_Singleton
  <2>3. QED
    BY <1>2, <2>2
<1>3. QED
  BY <1>1, <1>2

\* process_receive_queue is never entered while it runs, and its flag says so.
THEOREM NeverReentered == Spec => []NoReentry
<1>1. CommInv => NoReentry
  <2> SUFFICES ASSUME CommInv, NEW r \in Ranks
               PROVE  Cardinality(Frames(r, "prq")) = IF inPrq[r] THEN 1 ELSE 0
    BY DEF NoReentry
  <2>1. stack[r] \in Seq(FrameTypes) /\ PrqFlag(stack[r], inPrq[r])
    BY DEF CommInv, StackInv, Good
  <2>2. DOMAIN stack[r] = 1..Len(stack[r])
    BY <2>1
  <2>3. \A i, j \in Frames(r, "prq") : i = j
    BY <2>1, <2>2 DEF Frames, PrqFlag
  <2>4. inPrq[r] <=> Frames(r, "prq") # {}
    BY <2>1, <2>2 DEF Frames, PrqFlag
  <2>5. QED
    BY <2>3, <2>4, CountAtMostOne
<1>2. QED
  BY <1>1, Inductive, PTL

\* A test of the first receive always has one posted, given two receives: a
\* receive sits on process_receive_queue, which runs once, or on the flush
\* after a message that came during a wave.
THEOREM ReceiveAlwaysPosted == Spec => []ReceivePosted
<1>1. CommInv => ReceivePosted
  <2> SUFFICES ASSUME CommInv, NEW r \in Ranks, Top(r).op \in {"prq", "reduce"}
               PROVE  Cardinality(Frames(r, "recv")) < NumIrecvs
    BY DEF ReceivePosted
  <2> DEFINE s == stack[r]
             L == Len(s)
  <2>0. Good(s, inPrq[r], enabled[r])
    BY DEF CommInv, StackInv
  <2>1. s \in Seq(FrameTypes) /\ StackShape(s) /\ PrqFlag(s, inPrq[r]) /\ s # <<>>
    BY <2>0 DEF Good, StackShape
  <2>2. /\ L \in Nat \ {0} /\ DOMAIN s = 1..L /\ Top(r) = s[1]
        /\ s[L].op = "user"
        /\ \A i \in 1..L - 1 : SitsOn(s[i], s[i + 1])
        /\ \A i \in 1..L : s[i].op = "reduce" => i = L - 1
        /\ \A i, j \in 1..L : s[i].op = "prq" /\ s[j].op = "prq" => i = j
    BY <2>1, HeadTail DEF StackShape, PrqFlag, Top
  <2> HIDE DEF s, L
  \* A receive on top of flush_all is the third call of a barrier; none sits on the top call.
  <2>3. ASSUME NEW i \in 1..L, s[i].op = "recv" PROVE i = L - 3
    <3>1. i \in 1..L - 1
      BY <2>2, <2>3
    <3>2. s[i + 1].op \in {"prq", "flushall"} /\ i + 1 \in 1..L
      BY <2>2, <2>3, <3>1 DEF SitsOn
    <3>3. CASE s[i + 1].op = "prq"
      <4>1. s[1].op # "prq"
        BY <2>2, <3>1, <3>2, <3>3
      <4>2. s[1].op = "reduce" /\ 1 \in 1..L
        BY <2>2, <4>1
      <4>3. L = 2
        BY <2>2, <4>2
      <4>4. i = 1
        BY <3>1, <4>3
      <4>5. QED
        BY <2>3, <4>2, <4>4
    <3>4. CASE s[i + 1].op = "flushall"
      <4>1. i + 1 \in 1..L - 1
        BY <2>2, <3>2, <3>4
      <4>2. s[(i + 1) + 1].op = "reduce" /\ (i + 1) + 1 \in 1..L
        BY <2>2, <3>4, <4>1 DEF SitsOn
      <4>3. (i + 1) + 1 = L - 1
        BY <2>2, <4>2
      <4>4. QED
        BY <2>2, <4>3
    <3>5. QED
      BY <3>2, <3>3, <3>4
  <2>4. \A i, j \in Frames(r, "recv") : i = j
    BY <2>2, <2>3 DEF Frames, s
  <2>5. Cardinality(Frames(r, "recv")) \in 0..1
    BY <2>4, CountAtMostOne
  <2>6. NumIrecvs \in Nat /\ NumIrecvs >= 2
    BY CommAssumption, IrecvsAssumption
  <2>7. QED
    BY <2>5, <2>6
<1>2. QED
  BY <1>1, Inductive, PTL

\* When the application has control, no buffer total exceeds its capacity:
\* whoever buffered more has since called flush_to_capacity, and so has
\* everyone who interrupted it.
THEOREM WithinCapacity == Spec => []CapacityKept
<1>1. CommInv => CapacityKept
  <2> SUFFICES ASSUME CommInv, NEW r \in Ranks, Len(stack[r]) = 1
               PROVE  localB[r] <= LocalCap /\ remoteB[r] <= RemoteCap
    BY DEF CapacityKept
  <2>1. StackShape(stack[r]) /\ Capped(r) /\ BufTypes
    BY DEF CommInv, StackInv, Good, Data
  <2>2. stack[r][1].op = "user"
    BY <2>1 DEF StackShape
  <2>3. \A near : ~Covered(stack[r], near)
    BY <2>2 DEF Covered, Covers
  <2>4. ~(Bytes(r, TRUE) > CapFor(TRUE)) /\ ~(Bytes(r, FALSE) > CapFor(FALSE))
    BY <2>1, <2>3 DEF Capped
  <2>5. localB[r] \in Nat /\ remoteB[r] \in Nat /\ LocalCap \in Nat /\ RemoteCap \in Nat
    BY <2>1, CommAssumption DEF BufTypes
  <2>6. QED
    BY <2>4, <2>5 DEF Bytes, CapFor
<1>2. QED
  BY <1>1, Inductive, PTL

\* A rank that waits for a wave has flushed everything, whatever handlers its
\* flush has run: the assertions of barrier_reduce_counts and priv_barrier.
THEOREM ReduceFlushed == Spec => []FlushedAtReduce
<1>1. CommInv => FlushedAtReduce
  <2> SUFFICES ASSUME CommInv, NEW r \in Ranks, Top(r).op = "reduce"
               PROVE  /\ \A d \in Ranks : buf[r][d] = {}
                      /\ localq[r] = <<>> /\ remoteq[r] = <<>> /\ sendq[r] = <<>>
                      /\ localB[r] = 0 /\ remoteB[r] = 0 /\ pending[r] = 0
                      /\ hooks[r] = 0
    BY DEF FlushedAtReduce
  <2>1. Good(stack[r], inPrq[r], enabled[r]) /\ Calm(r) /\ BufTypes /\ Accounted(r) /\ SendsOK
    BY DEF CommInv, StackInv, Data
  <2>2. stack[r][1].op = "reduce"
    BY <2>1, HeadTail DEF Good, StackShape, Top
  <2>3. hooks[r] = 0 /\ localq[r] = <<>> /\ remoteq[r] = <<>> /\ sendq[r] = <<>>
    BY <2>1, <2>2 DEF Calm, CleanAt
  <2>4. ASSUME NEW near \in BOOLEAN PROVE Filled(r, near) = {}
    <3>1. DestQueue(r, near) = <<>>
      BY <2>3 DEF DestQueue
    <3>2. \A d \in Filled(r, near) : \E i \in 1..Len(<<>>) : TRUE
      BY <2>1, <3>1 DEF Accounted, Exact
    <3>3. \A i \in 1..Len(<<>>) : FALSE
      OBVIOUS
    <3>4. QED
      BY <3>2, <3>3
  <2>5. ASSUME NEW d \in Ranks PROVE buf[r][d] = {}
    <3>1. d \notin Filled(r, TRUE) /\ d \notin Filled(r, FALSE)
      BY <2>4
    <3>2. QED
      BY <3>1 DEF Filled
  <2>6. Cardinality({}) = 0
    BY FS_EmptySet
  <2>7. \A near \in BOOLEAN : Stored(r, near) = {}
    BY <2>5 DEF Stored
  <2>8. Bytes(r, TRUE) = 0 /\ Bytes(r, FALSE) = 0
    BY <2>1, <2>6, <2>7 DEF Accounted
  <2>9. pending[r] = 0
    <3>1. <<>> \in Seq(FBuffers)
      OBVIOUS
    <3>2. Contents(<<>>) = {}
      BY DEF Contents
    <3>3. Load(<<>>) = 0
      BY <2>6, <3>1, <3>2, LoadContents
    <3>4. QED
      BY <2>1, <2>3, <3>3 DEF SendsOK
  <2>10. QED
    BY <2>3, <2>5, <2>8, <2>9 DEF Bytes
<1>2. QED
  BY <1>1, Inductive, PTL

\* No handler runs on top of user code under an interrupt_mask, if masks do
\* not nest. (The destructor enables interrupts whatever they were, so of two
\* masks the inner one ends the outer one too.)
THEOREM MasksRespected == ASSUME MaxMasks <= 1 PROVE Spec => []MaskRespected
<1>1. CommInv => MaskRespected
  <2> SUFFICES ASSUME CommInv, NEW r \in Ranks, NEW i \in Frames(r, "user"), stack[r][i].masks > 0,
                      NEW j \in 1..i - 1
               PROVE  stack[r][j].op # "user"
    BY DEF MaskRespected
  <2>1. stack[r] \in Seq(FrameTypes) /\ MaskQuiet(stack[r], enabled[r])
    BY DEF CommInv, StackInv, Good
  <2>2. i \in 1..Len(stack[r]) /\ stack[r][i].op = "user"
    BY <2>1 DEF Frames
  <2>3. stack[r][j].op \in Quiet
    BY <2>1, <2>2 DEF MaskQuiet
  <2>4. QED
    BY <2>3 DEF Quiet
<1>2. QED
  BY <1>1, Inductive, PTL
=============================================================================
