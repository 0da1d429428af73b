--------------------------- MODULE RoutingProofs ---------------------------
(***************************************************************************)
(* The assumptions comm_router.hpp states about routes, proved for every   *)
(* number of nodes and of ranks on a node: the layouts need only be grids. *)
(* That a broadcast reaches each rank once, if ranks of a node are         *)
(* consecutive.  And that the layouts the constructor computes are grids.  *)
(* At the end, by the same arithmetic, that each index of an array of any  *)
(* size is in the block of one rank.                                       *)
(***************************************************************************)
EXTENDS Routing, Broadcast, ProofFacts

\* A remainder is an index into local_ranks.
LEMMA Remainder ==
  ASSUME NEW a \in Nat, NEW k \in Nat \ {0}
  PROVE  a % k \in 0..k - 1
  BY SMT

Hops == {"local", "remote"}

\* Two trails of the same length and members are the same.
LEMMA TrailsEqual ==
  ASSUME NEW s \in Seq(Hops), NEW t \in Seq(Hops), Len(s) = Len(t),
         \A i \in 1..Len(s) : s[i] = t[i]
  PROVE  s = t
  BY SeqEqual

LEMMA TrailAppended ==
  ASSUME NEW s \in Seq(Hops), NEW x \in Hops
  PROVE  /\ Append(s, x) \in Seq(Hops)
         /\ Len(Append(s, x)) = Len(s) + 1
         /\ \A i \in 1..Len(s) : Append(s, x)[i] = s[i]
         /\ Append(s, x)[Len(s) + 1] = x
  BY AppendProperties

LEMMA Trails ==
  ASSUME NEW x \in Hops, NEW y \in Hops, NEW z \in Hops
  PROVE  /\ Append(<<>>, x) = <<x>>
         /\ Append(<<y>>, x) = <<y, x>>
         /\ Append(<<y, z>>, x) = <<y, z, x>>
<1>1. Append(<<>>, x) = <<x>>
  OBVIOUS
<1>2. Append(<<y>>, x) = <<y, x>>
  <2> DEFINE s == <<y>>
             t == <<y, x>>
  <2>1. s \in Seq(Hops) /\ Len(s) = 1 /\ s[1] = y
    OBVIOUS
  <2>2. t \in Seq(Hops) /\ Len(t) = 2 /\ t[1] = y /\ t[2] = x
    OBVIOUS
  <2> HIDE DEF s, t
  <2>3. Append(s, x) \in Seq(Hops) /\ Len(Append(s, x)) = 2
        /\ Append(s, x)[1] = y /\ Append(s, x)[2] = x
    <3>1. /\ Append(s, x) \in Seq(Hops) /\ Len(Append(s, x)) = Len(s) + 1
          /\ \A i \in 1..Len(s) : Append(s, x)[i] = s[i]
          /\ Append(s, x)[Len(s) + 1] = x
      BY <2>1, TrailAppended
    <3>2. QED
      BY <2>1, <3>1
  <2>4. \A i \in 1..Len(t) : Append(s, x)[i] = t[i]
    BY <2>2, <2>3
  <2>5. Append(s, x) = t
    BY <2>2, <2>3, <2>4, TrailsEqual
  <2>6. QED
    BY <2>5 DEF s, t
<1>3. Append(<<y, z>>, x) = <<y, z, x>>
  <2> DEFINE s == <<y, z>>
             t == <<y, z, x>>
  <2>1. s \in Seq(Hops) /\ Len(s) = 2 /\ s[1] = y /\ s[2] = z
    OBVIOUS
  <2>2. t \in Seq(Hops) /\ Len(t) = 3 /\ t[1] = y /\ t[2] = z /\ t[3] = x
    OBVIOUS
  <2> HIDE DEF s, t
  <2>3. Append(s, x) \in Seq(Hops) /\ Len(Append(s, x)) = 3
        /\ Append(s, x)[1] = y /\ Append(s, x)[2] = z /\ Append(s, x)[3] = x
    <3>1. /\ Append(s, x) \in Seq(Hops) /\ Len(Append(s, x)) = Len(s) + 1
          /\ \A i \in 1..Len(s) : Append(s, x)[i] = s[i]
          /\ Append(s, x)[Len(s) + 1] = x
      BY <2>1, TrailAppended
    <3>2. QED
      BY <2>1, <3>1
  <2>4. \A i \in 1..Len(t) : Append(s, x)[i] = t[i]
    BY <2>2, <2>3
  <2>5. Append(s, x) = t
    BY <2>2, <2>3, <2>4, TrailsEqual
  <2>6. QED
    BY <2>5 DEF s, t
<1>4. QED
  BY <1>1, <1>2, <1>3

\* The rank of an on-node hop is on the node of the rank that hops, and it is
\* the one that crosses to the destination's node.
LEMMA ChannelOnNode ==
  ASSUME Grid(lay), NEW r \in RanksOf(lay), NEW d \in RanksOf(lay),
         NEW c, c = lay.local_ranks[r][(lay.node_id[d] + lay.node_id[r]) % lay.local_size]
  PROVE  c \in RanksOf(lay) /\ is_local(r, c) /\ Crosses(c, d)
<1> DEFINE N == lay.node_id
           L == lay.local_size
           i == (N[d] + N[r]) % L
<1>1. N[d] \in Nat /\ N[r] \in Nat /\ L \in Nat \ {0}
  BY DEF Grid
<1>2. i \in 0..L - 1
  <2> HIDE DEF N, L
  <2>1. N[d] + N[r] \in Nat
    BY <1>1
  <2>2. QED
    BY <1>1, <2>1, Remainder
<1> HIDE DEF i
<1>3. \A q \in RanksOf(lay) :
        /\ lay.local_ranks[q][i] \in RanksOf(lay)
        /\ N[lay.local_ranks[q][i]] = N[q]
        /\ lay.local_id[lay.local_ranks[q][i]] = i
  BY <1>2 DEF Grid
<1>4. c = lay.local_ranks[r][i]
  BY DEF i
<1>5. c \in RanksOf(lay) /\ N[c] = N[r] /\ lay.local_id[c] = i
  BY <1>3, <1>4
<1>6. lay.local_ranks[c][i] = c
  <2>1. /\ lay.local_ranks[c][i] \in RanksOf(lay)
        /\ N[lay.local_ranks[c][i]] = N[c]
        /\ lay.local_id[lay.local_ranks[c][i]] = lay.local_id[c]
    BY <1>3, <1>5
  <2>2. QED
    BY <1>5, <2>1 DEF Grid
<1>7. QED
  BY <1>5, <1>6 DEF is_local, Crosses, i

\* A hop between nodes ends on the node of the destination.
LEMMA AcrossArrives ==
  ASSUME Grid(lay), NEW r \in RanksOf(lay), NEW d \in RanksOf(lay),
         NEW q, q = lay.strided_ranks[r][lay.node_id[d]]
  PROVE  q \in RanksOf(lay) /\ is_local(q, d)
  BY DEF Grid, is_local

LEMMA RouteInvInit ==
  ASSUME GridLayouts, lay \in Layouts, RouteInit
  PROVE  RouteInv
<1>1. 0 \in RanksOf(lay)
  BY DEF GridLayouts, Grid, RanksOf
<1>2. QED
  BY <1>1 DEF RouteInit, RouteInv, Progress

\* One hop, by what the router decides.
LEMMA RouteInvHop ==
  ASSUME GridLayouts, RouteInv, Hop
  PROVE  RouteInv'
<1> USE DEF RanksOf
<1>1. Grid(lay) /\ route \in RoutingTypes /\ lay' = lay /\ route' = route /\ dest' = dest
      /\ src' = src /\ at \in RanksOf(lay) /\ dest \in RanksOf(lay)
  BY DEF GridLayouts, RouteInv, Hop
<1>2. trail' = Append(trail, IF is_local(at, at') THEN "local" ELSE "remote")
  BY DEF Hop
<1>3. at' = next_hop(route, at, dest) /\ ~Executed /\ Progress
  BY DEF Hop, RouteInv
<1>4. CASE route = "NONE" \/ is_local(at, dest)
  <2>1. at' = dest
    BY <1>3, <1>4 DEF next_hop
  <2>2. is_local(at, at') => trail' = Append(trail, "local")
    BY <1>2
  <2>3. ~is_local(at, at') => trail' = Append(trail, "remote")
    BY <1>2
  <2>4. Progress'
    <3>1. CASE trail = <<>>
      <4>1. trail' = <<"local">> \/ trail' = <<"remote">>
        BY <2>2, <2>3, <3>1, Trails DEF Hops
      <4>2. QED
        BY <1>1, <2>1, <4>1 DEF Progress, RoutingTypes
    <3>2. CASE trail = <<"remote">> /\ route # "NONE" /\ is_local(at, dest)
      <4>1. trail' = <<"remote", "local">>
        BY <2>1, <2>2, <3>2, Trails DEF Hops
      <4>2. QED
        BY <1>1, <2>1, <3>2, <4>1 DEF Progress
    <3>3. CASE trail = <<"local", "remote">> /\ route = "NLNR" /\ is_local(at, dest)
      <4>1. trail' = <<"local", "remote", "local">>
        BY <2>1, <2>2, <3>3, Trails DEF Hops
      <4>2. QED
        BY <1>1, <2>1, <3>3, <4>1 DEF Progress
    <3>4. QED
      BY <1>3, <1>4, <3>1, <3>2, <3>3 DEF Progress, Executed
  <2>5. QED
    BY <1>1, <2>1, <2>4 DEF RouteInv, RoutingTypes
<1>5. CASE route = "NR" /\ ~is_local(at, dest)
  <2>1. at' = lay.strided_ranks[at][lay.node_id[dest]]
    BY <1>3, <1>5 DEF next_hop
  <2>2. at' \in RanksOf(lay) /\ is_local(at', dest)
    BY <1>1, <2>1, AcrossArrives
  <2>3. trail = <<>>
    BY <1>3, <1>5 DEF Progress, Executed, is_local
  <2>4. trail' = <<"remote">>
    BY <1>2, <1>5, <2>2, <2>3 DEF is_local
  <2>5. Progress'
    BY <1>1, <1>5, <2>2, <2>4 DEF Progress, is_local
  <2>6. QED
    BY <1>1, <1>5, <2>2, <2>5 DEF RouteInv, RoutingTypes
<1>6. CASE route = "NLNR" /\ ~is_local(at, dest)
  <2>1. trail = <<>> \/ (trail = <<"local">> /\ Crosses(at, dest))
    BY <1>3, <1>6 DEF Progress, Executed, is_local
  <2>2. CASE Crosses(at, dest)
    <3>1. at' = lay.strided_ranks[at][lay.node_id[dest]]
      BY <1>3, <1>6, <2>2 DEF next_hop, Crosses
    <3>2. at' \in RanksOf(lay) /\ is_local(at', dest)
      BY <1>1, <3>1, AcrossArrives
    <3>3. trail' = Append(trail, "remote")
      BY <1>2, <1>6, <3>2 DEF is_local
    <3>4. trail' = <<"remote">> \/ trail' = <<"local", "remote">>
      BY <2>1, <3>3, Trails DEF Hops
    <3>5. Progress'
      BY <1>1, <1>6, <3>2, <3>4 DEF Progress, is_local
    <3>6. QED
      BY <1>1, <1>6, <3>2, <3>5 DEF RouteInv, RoutingTypes
  <2>3. CASE ~Crosses(at, dest)
    <3>1. at' = lay.local_ranks[at][(lay.node_id[dest] + lay.node_id[at]) % lay.local_size]
      BY <1>3, <1>6, <2>3 DEF next_hop, Crosses
    <3>2. at' \in RanksOf(lay) /\ is_local(at, at') /\ Crosses(at', dest)
      BY <1>1, <3>1, ChannelOnNode
    <3>3. trail' = <<"local">>
      BY <1>2, <2>1, <2>3, <3>2, Trails DEF Hops
    <3>4. ~is_local(at', dest)
      BY <1>6, <3>2 DEF is_local
    <3>5. Progress'
      BY <1>1, <1>6, <3>2, <3>3, <3>4 DEF Progress, is_local, Crosses
    <3>6. QED
      BY <1>1, <1>6, <3>2, <3>5 DEF RouteInv, RoutingTypes
  <2>4. QED
    BY <2>2, <2>3
<1>7. QED
  BY <1>1, <1>4, <1>5, <1>6 DEF RoutingTypes

LEMMA RouteInvStep ==
  ASSUME GridLayouts, RouteInv, [RouteNext]_<<routeVars, lay>>
  PROVE  RouteInv'
<1>1. CASE Hop
  BY <1>1, RouteInvHop
<1>2. ASSUME NEW type \in RoutingTypes, NEW s \in RanksOf(lay), NEW d \in RanksOf(lay),
             SendRouted(type, s, d)
      PROVE  RouteInv'
  BY <1>2 DEF SendRouted, RouteInv, Progress, RanksOf, RoutingTypes
<1>3. CASE UNCHANGED <<routeVars, lay>>
  BY <1>3 DEF RouteInv, Progress, routeVars, RanksOf, is_local, Crosses
<1>4. QED
  BY <1>1, <1>2, <1>3 DEF RouteNext

THEOREM RouteInvariant ==
  ASSUME GridLayouts
  PROVE  RouteSpec => []RouteInv
<1>1. lay \in Layouts /\ RouteInit => RouteInv
  BY RouteInvInit
<1>2. RouteInv /\ [RouteNext]_<<routeVars, lay>> => RouteInv'
  BY RouteInvStep
<1>3. QED
  BY <1>1, <1>2, PTL DEF RouteSpec

\* NONE sends directly, NR makes at most a remote and an on-node hop, NLNR at
\* most an on-node, a remote and an on-node hop, in this order.
THEOREM RoutesHaveShape ==
  ASSUME GridLayouts
  PROVE  RouteSpec => []RouteShape
<1>1. RouteInv => RouteShape
  <2> SUFFICES ASSUME RouteInv, route # ""
               PROVE  trail \in Shapes[route]
    BY DEF RouteShape
  <2>1. CASE route = "NONE"
    BY <2>1 DEF RouteInv, Progress, Shapes
  <2>2. CASE route = "NR"
    BY <2>2 DEF RouteInv, Progress, Shapes
  <2>3. CASE route = "NLNR"
    BY <2>3 DEF RouteInv, Progress, Shapes
  <2>4. QED
    BY <2>1, <2>2, <2>3 DEF RouteInv, RoutingTypes
<1>2. QED
  BY <1>1, RouteInvariant, PTL

LEMMA Lengths ==
  /\ Len(<<>>) = 0
  /\ \A x \in Hops : Len(<<x>>) = 1
  /\ \A x, y \in Hops : Len(<<x, y>>) = 2
  /\ \A x, y, z \in Hops : Len(<<x, y, z>>) = 3
  OBVIOUS

\* So a message makes at most one, two or three hops.
THEOREM HopsBounded ==
  ASSUME GridLayouts
  PROVE  RouteSpec => []HopBound
<1>1. RouteShape => HopBound
  <2>1. trail \in Shapes.NONE => Len(trail) \in 0..1
    BY Lengths DEF Hops, Shapes
  <2>2. trail \in Shapes.NR => Len(trail) \in 0..2
    BY Lengths DEF Hops, Shapes
  <2>3. trail \in Shapes.NLNR => Len(trail) \in 0..3
    BY Lengths DEF Hops, Shapes
  <2>4. /\ RouteShape /\ route = "NONE" => trail \in Shapes.NONE
        /\ RouteShape /\ route = "NR" => trail \in Shapes.NR
        /\ RouteShape /\ route = "NLNR" => trail \in Shapes.NLNR
    BY DEF RouteShape
  <2> DEFINE hops == Len(trail)
  <2>5. /\ RouteShape /\ route = "NONE" => hops \in 0..1
        /\ RouteShape /\ route = "NR" => hops \in 0..2
        /\ RouteShape /\ route = "NLNR" => hops \in 0..3
    BY <2>1, <2>2, <2>3, <2>4
  <2>6. HopBound = /\ route = "NONE" => hops <= 1
                   /\ route = "NR" => hops <= 2
                   /\ route = "NLNR" => hops <= 3
    BY DEF HopBound
  <2> HIDE DEF hops
  <2>7. QED
    BY <2>5, <2>6
<1>2. QED
  BY <1>1, RoutesHaveShape, PTL

\* Every pair of ranks between which NLNR crosses to another node is a pair NR
\* uses as well.
THEOREM NLNRWithinNR ==
  ASSUME GridLayouts
  PROVE  RouteSpec => NLNRUsesNRPairs
<1>1. ASSUME RouteInv, Hop, route = "NLNR", ~is_local(at, at')
      PROVE  at' = next_hop("NR", at, dest)
  <2>1. Grid(lay) /\ at \in RanksOf(lay) /\ dest \in RanksOf(lay)
    BY <1>1 DEF RouteInv, GridLayouts
  <2>2. CASE is_local(at, dest)
    BY <1>1, <2>2 DEF Hop, next_hop, is_local
  <2>3. CASE ~is_local(at, dest) /\ Crosses(at, dest)
    BY <1>1, <2>3 DEF Hop, next_hop, Crosses
  <2>4. CASE ~is_local(at, dest) /\ ~Crosses(at, dest)
    <3>1. at' = lay.local_ranks[at][(lay.node_id[dest] + lay.node_id[at]) % lay.local_size]
      BY <1>1, <2>4 DEF Hop, next_hop, Crosses
    <3>2. is_local(at, at')
      BY <2>1, <3>1, ChannelOnNode
    <3>3. QED
      BY <1>1, <3>2
  <2>5. QED
    BY <2>2, <2>3, <2>4
<1>2. RouteInv => [Hop /\ route = "NLNR" /\ ~is_local(at, at') => at' = next_hop("NR", at, dest)]_routeVars
  BY <1>1
<1>3. QED
  BY <1>2, RouteInvariant, PTL DEF NLNRUsesNRPairs

-----------------------------------------------------------------------------
(***************************************************************************)
(* Arithmetic of quotients and remainders.                                 *)
(***************************************************************************)
\* i - a and n leave the same remainder, and n + a leaves i.
Congruent(k, a, n, i) == (i - a) % k = n % k <=> (n + a) % k = i

\* n is in the class of i - a when n + a is in that of i.
LEMMA SameClass ==
  ASSUME NEW k \in Nat \ {0}, NEW a \in Int, NEW n \in Int, NEW i \in 0..k - 1
  PROVE  Congruent(k, a, n, i)
<1>1. PICK p \in Int, o \in 0..k - 1 : i - a = k * p + o /\ o = (i - a) % k
  <2> DEFINE b == i - a
  <2>1. b \in Int
    OBVIOUS
  <2> HIDE DEF b
  <2>2. b \div k \in Int /\ b % k \in 0..k - 1 /\ b = k * (b \div k) + (b % k)
    BY <2>1, Division
  <2>3. \E p \in Int, o \in 0..k - 1 : b = k * p + o /\ o = b % k
    BY <2>2
  <2>4. QED
    BY <2>3 DEF b
<1>2. PICK q \in Int, m \in 0..k - 1 : n = k * q + m /\ m = n % k
  BY Division
<1>3. PICK u \in Int, j \in 0..k - 1 : n + a = k * u + j /\ j = (n + a) % k
  <2> DEFINE b == n + a
  <2>1. b \in Int
    OBVIOUS
  <2> HIDE DEF b
  <2>2. b \div k \in Int /\ b % k \in 0..k - 1 /\ b = k * (b \div k) + (b % k)
    BY <2>1, Division
  <2>3. \E u \in Int, j \in 0..k - 1 : b = k * u + j /\ j = b % k
    BY <2>2
  <2>4. QED
    BY <2>3 DEF b
<1> DEFINE x == k * p
           y == k * q
           z == k * u
           v == k * (q - p)
           w == k * (p + u)
<1>4. x \in Int /\ y \in Int /\ z \in Int /\ v \in Int /\ w \in Int
  OBVIOUS
<1>5. v = y - x /\ w = x + z
  OBVIOUS
<1>6. ASSUME o = m PROVE j = i
  <2>1. x + o = i - a /\ y + m = n
    BY <1>1, <1>2
  <2> HIDE DEF x, y, z, v, w
  <2>2. n + a = v + i
    BY <1>4, <1>5, <1>6, <2>1
  <2>3. k * u + j = k * (q - p) + i /\ q - p \in Int
    BY <1>3, <2>2 DEF v
  <2>4. QED
    BY <2>3, OneDivision
<1>7. ASSUME j = i PROVE o = m
  <2>1. x + o = i - a /\ y + m = n /\ n + a = z + j
    BY <1>1, <1>2, <1>3
  <2> HIDE DEF x, y, z, v, w
  <2>2. w + o = y + m
    BY <1>4, <1>5, <1>7, <2>1
  <2>3. k * (p + u) + o = k * q + m /\ p + u \in Int
    BY <2>2 DEF w, y
  <2>4. QED
    BY <2>3, OneDivision
<1>8. QED
  BY <1>1, <1>2, <1>3, <1>6, <1>7 DEF Congruent

-----------------------------------------------------------------------------
(***************************************************************************)
(* The tree of a broadcast on a block layout.                              *)
(***************************************************************************)
\* The stage at which the copy for q is made ...
StageOf(q) ==
  CASE lay.node_id[q] = lay.node_id[origin] -> "fan"
    [] lay.node_id[q] # lay.node_id[origin]
         /\ (lay.node_id[q] + lay.node_id[origin]) % lay.local_size = lay.local_id[q] -> "node"
    [] OTHER -> "leaf"

\* ... and that r makes it.
Feeds(r, q) ==
  \/ StageOf(r) = "fan" /\ StageOf(q) = "node" /\ lay.local_id[r] = lay.local_id[q]
  \/ StageOf(r) = "node" /\ StageOf(q) = "leaf" /\ lay.node_id[r] = lay.node_id[q]

\* What the stage says of the coordinates.
LEMMA StagesAre ==
  ASSUME NEW q
  PROVE  /\ StageOf(q) \in Stages
         /\ StageOf(q) = "fan" <=> lay.node_id[q] = lay.node_id[origin]
         /\ StageOf(q) = "node" <=>
              /\ lay.node_id[q] # lay.node_id[origin]
              /\ (lay.node_id[q] + lay.node_id[origin]) % lay.local_size = lay.local_id[q]
BY DEF StageOf, Stages

\* A node's ranks.
LEMMA NodeRanks ==
  ASSUME Grid(lay), NEW r \in RanksOf(lay)
  PROVE  OnNode(r) = {q \in RanksOf(lay) : lay.node_id[q] = lay.node_id[r]}
<1>1. ASSUME NEW q \in OnNode(r) PROVE q \in RanksOf(lay) /\ lay.node_id[q] = lay.node_id[r]
  BY DEF Grid, OnNode
<1>2. ASSUME NEW q \in RanksOf(lay), lay.node_id[q] = lay.node_id[r] PROVE q \in OnNode(r)
  <2>1. /\ lay.local_id[q] \in 0..lay.local_size - 1
        /\ lay.local_ranks[r][lay.local_id[q]] \in RanksOf(lay)
        /\ lay.node_id[lay.local_ranks[r][lay.local_id[q]]] = lay.node_id[r]
        /\ lay.local_id[lay.local_ranks[r][lay.local_id[q]]] = lay.local_id[q]
    BY DEF Grid
  <2>2. lay.local_ranks[r][lay.local_id[q]] = q
    BY <1>2, <2>1 DEF Grid
  <2>3. QED
    BY <2>1, <2>2 DEF OnNode
<1>3. QED
  BY <1>1, <1>2

\* The ranks on other nodes to which r sends are those of its local id on every
\* local_size-th node, counted from its offset.
LEMMA PartnerRanks ==
  ASSUME Grid(lay), Block(lay), NEW r \in RanksOf(lay), NEW q \in RanksOf(lay)
  PROVE  q \in Partners(r) <=>
           /\ lay.node_id[q] # lay.node_id[r] /\ lay.local_id[q] = lay.local_id[r]
           /\ (lay.node_id[q] + lay.node_id[r]) % lay.local_size = lay.local_id[r]
<1> DEFINE L == lay.local_size
           M == lay.node_size
           n == lay.node_id[q]
           j == lay.local_id[q]
           a == lay.node_id[r]
           i == lay.local_id[r]
           o == (i - a) % L
           c == (M + L - 1) \div L
           base == lay.strided_ranks[r][o]
           layers == IF o < M THEN 0..c - 1 ELSE {}
<1>1. /\ L \in Nat \ {0} /\ M \in Nat \ {0}
      /\ n \in 0..M - 1 /\ a \in 0..M - 1 /\ j \in 0..L - 1 /\ i \in 0..L - 1
      /\ q = n * L + j
  BY DEF Grid, Block, nl_to_rank
<1>2. o \in 0..L - 1
  <2> HIDE DEF L, M, n, j, a, i
  <2>1. i - a \in Int
    BY <1>1
  <2>2. QED
    BY <1>1, <2>1, Division
<1>3. o < M => base \in RanksOf(lay) /\ base = o * L + i
  <2>1. o < M => o \in 0..M - 1
    <3> HIDE DEF o, M
    <3>1. QED
      BY <1>1, <1>2
  <2>2. o < M => /\ base \in RanksOf(lay) /\ lay.node_id[base] = o /\ lay.local_id[base] = i
    <3> HIDE DEF o
    <3>1. QED
      BY <2>1 DEF Grid
  <2>3. QED
    BY <2>2 DEF Block, nl_to_rank
<1>4. q \in Partners(r) <=> q \in {base + k * L * L : k \in layers} /\ n # a
  <2>1. Partners(r) = {x \in {base + k * L * L : k \in layers} : x < lay.size /\ lay.node_id[x] # a}
    BY Zenon DEF Partners
  <2> HIDE DEF L, layers, base, a
  <2>2. q < lay.size
    BY DEF RanksOf, Grid
  <2>3. QED
    BY <2>1, <2>2
<1>5. q \in {base + k * L * L : k \in layers} <=> \E k \in layers : q = base + k * L * L
  OBVIOUS
<1>6. o = n % L <=> (n + a) % L = i
  <2> HIDE DEF L, M, n, j, a, i
  <2>1. a \in Int /\ n \in Int /\ i \in 0..L - 1 /\ L \in Nat \ {0}
    BY <1>1
  <2>2. Congruent(L, a, n, i)
    BY <2>1, SameClass
  <2>3. QED
    BY <2>2, Zenon DEF o, Congruent
<1>7. c \in Int
  <2> HIDE DEF L, M
  <2>1. M + L - 1 \in Int
    BY <1>1
  <2>2. QED
    BY <1>1, <2>1, Division DEF c
<1>8. \A k \in Int : o * L + i + k * L * L = L * (o + k * L) + i /\ o + k * L \in Int
  <2> HIDE DEF L, o, i
  <2>1. o \in Int /\ L \in Int /\ i \in Int
    BY <1>1, <1>2
  <2>2. QED
    BY <2>1
<1>9. ASSUME NEW k \in layers, q = base + k * L * L
      PROVE  j = i /\ n = o + k * L
  <2>1. o < M /\ k \in Int
    BY <1>7
  <2> HIDE DEF L, M, n, j, a, i, o, base, c
  <2>2. L * n + j = L * (o + k * L) + i /\ o + k * L \in Int
    <3>1. n * L = L * n /\ n \in Int
      BY <1>1
    <3>2. QED
      BY <1>1, <1>3, <1>8, <1>9, <2>1, <3>1
  <2>3. QED
    BY <1>1, <2>2, OneDivision
<1>10. ASSUME NEW k \in layers, q = base + k * L * L
       PROVE  j = i /\ n % L = o
  <2> HIDE DEF L, M, n, j, a, i, o, base, c
  <2>1. j = i /\ n = o + k * L /\ k \in Int
    <3>1. k \in Int
      BY <1>7, <1>10
    <3>2. QED
      BY <1>9, <1>10, <3>1
  <2>2. n \in Int /\ n \div L \in Int /\ n % L \in 0..L - 1 /\ n = L * (n \div L) + (n % L)
    <3>1. n \in Int
      BY <1>1
    <3>2. QED
      BY <1>1, <3>1, Division
  <2>3. L * k + o = L * (n \div L) + (n % L)
    <3>1. L * k = k * L /\ k * L \in Int /\ o \in Int
      BY <1>1, <1>2, <2>1
    <3>2. QED
      BY <2>1, <2>2, <3>1
  <2> DEFINE u == n \div L
             v == n % L
  <2>4. u \in Int /\ v \in 0..L - 1 /\ L * k + o = L * u + v
    BY <2>2, <2>3
  <2> HIDE DEF u, v
  <2>5. v = o
    BY <1>1, <1>2, <2>1, <2>4, OneDivision
  <2>6. QED
    BY <2>1, <2>5 DEF v
<1>11. ASSUME j = i, n % L = o
       PROVE  \E k \in layers : q = base + k * L * L
  <2> DEFINE k == n \div L
             b == M + L - 1
  <2> HIDE DEF L, M, n, j, a, i, o, base, c
  <2>1. n \in Int /\ k \in Int /\ n = L * k + o
    <3>1. n \in Int
      BY <1>1
    <3>2. QED
      BY <1>1, <1>11, <3>1, Division
  <2>2. b \in Int /\ c = b \div L
    BY <1>1 DEF c
  <2> HIDE DEF k, b
  <2>3. b % L \in 0..L - 1 /\ b = L * c + (b % L)
    BY <1>1, <2>2, Division
  <2>4. 0 <= k
    <3>1. SUFFICES ASSUME k < 0 PROVE FALSE
      BY <2>1
    <3>2. L * k + L <= L * 0
      BY <1>1, <2>1, <3>1, Larger
    <3>3. L * k \in Int /\ L * 0 = 0
      BY <1>1, <2>1
    <3>4. QED
      BY <1>1, <1>2, <2>1, <3>2, <3>3
  <2>5. k < c
    <3>1. SUFFICES ASSUME c <= k PROVE FALSE
      BY <1>7, <2>1
    <3>2. c < k => L * c + L <= L * k
      BY <1>1, <1>7, <2>1, Larger
    <3>3. L * c \in Int /\ L * k \in Int /\ (c = k => L * c = L * k)
      BY <1>1, <1>7, <2>1
    <3>4. b = M + L - 1 /\ n < M /\ o >= 0
      BY <1>1, <1>2 DEF b
    <3>5. L * c <= L * k
      BY <1>1, <1>7, <2>1, <3>1, <3>2, <3>3
    <3>6. QED
      BY <1>1, <1>2, <2>1, <2>3, <3>3, <3>4, <3>5
  <2>6. o < M
    <3>1. L * k >= 0 /\ L * k \in Int
      BY <1>1, <2>1, <2>4
    <3>2. QED
      BY <1>1, <1>2, <2>1, <3>1
  <2>7. k \in layers
    BY <1>7, <2>1, <2>4, <2>5, <2>6
  <2>8. q = base + k * L * L
    <3>1. o * L + i + k * L * L = L * (o + k * L) + i
      BY <1>8, <2>1
    <3>2. n = o + k * L /\ n * L = L * n
      <4>1. L * k = k * L /\ k * L \in Int /\ o \in Int
        BY <1>1, <1>2, <2>1
      <4>2. QED
        BY <1>1, <2>1, <4>1
    <3>3. QED
      BY <1>1, <1>3, <1>11, <2>6, <3>1, <3>2
  <2>9. QED
    BY <2>7, <2>8
<1>12. QED
  BY <1>4, <1>5, <1>6, <1>10, <1>11

\* The partners of a rank of the origin's node are those that it feeds.
LEMMA FanFeeds ==
  ASSUME Grid(lay), Block(lay), NEW r \in RanksOf(lay), StageOf(r) = "fan", NEW q \in RanksOf(lay)
  PROVE  q \in Partners(r) <=> Feeds(r, q)
<1>1. lay.node_id[r] = lay.node_id[origin]
  BY StagesAre
<1>2. q \in Partners(r) <=>
           /\ lay.node_id[q] # lay.node_id[r] /\ lay.local_id[q] = lay.local_id[r]
           /\ (lay.node_id[q] + lay.node_id[r]) % lay.local_size = lay.local_id[r]
  BY PartnerRanks
<1>3. StageOf(q) = "node" <=>
              /\ lay.node_id[q] # lay.node_id[origin]
              /\ (lay.node_id[q] + lay.node_id[origin]) % lay.local_size = lay.local_id[q]
  BY StagesAre
<1>4. Feeds(r, q) <=> StageOf(q) = "node" /\ lay.local_id[r] = lay.local_id[q]
  BY DEF Feeds
<1>5. QED
  BY <1>1, <1>2, <1>3, <1>4, Zenon

\* The other ranks of the node of a partner are those that it feeds.
LEMMA NodeFeeds ==
  ASSUME Grid(lay), NEW r \in RanksOf(lay), StageOf(r) = "node", NEW q \in RanksOf(lay)
  PROVE  q \in OnNode(r) \ {r} <=> Feeds(r, q)
<1>1. q \in OnNode(r) <=> lay.node_id[q] = lay.node_id[r]
  BY NodeRanks
<1>2. Feeds(r, q) <=> StageOf(q) = "leaf" /\ lay.node_id[r] = lay.node_id[q]
  BY DEF Feeds
<1>3. lay.node_id[q] = lay.node_id[r] => (StageOf(q) = "leaf" <=> q # r)
  <2>1. SUFFICES ASSUME lay.node_id[q] = lay.node_id[r] PROVE StageOf(q) = "leaf" <=> q # r
    OBVIOUS
  <2>2. StageOf(q) # "fan" /\ (StageOf(q) = "node" => lay.local_id[q] = lay.local_id[r])
    BY <2>1, StagesAre, Zenon
  <2>3. lay.local_id[q] = lay.local_id[r] => q = r
    BY <2>1 DEF Grid
  <2>4. StageOf(q) \in Stages
    BY StagesAre
  <2>5. QED
    BY <2>2, <2>3, <2>4 DEF Stages
<1>4. QED
  BY <1>1, <1>2, <1>3

\* Each rank but those of the origin's node has one that sends it its copy.
LEMMA OneFeeds ==
  ASSUME Grid(lay), NEW q \in RanksOf(lay), origin \in RanksOf(lay)
  PROVE  /\ StageOf(q) # "fan" => \E r \in RanksOf(lay) : Feeds(r, q)
         /\ \A r, x \in RanksOf(lay) : Feeds(r, q) /\ Feeds(x, q) => r = x
<1> DEFINE a == lay.node_id[origin]
           i == (lay.node_id[q] + a) % lay.local_size
<1>1. ASSUME StageOf(q) = "node" PROVE \E r \in RanksOf(lay) : Feeds(r, q)
  <2> DEFINE r == lay.local_ranks[origin][lay.local_id[q]]
  <2>1. r \in RanksOf(lay) /\ lay.node_id[r] = a /\ lay.local_id[r] = lay.local_id[q]
    BY DEF Grid
  <2> HIDE DEF r
  <2>2. StageOf(r) = "fan"
    BY <2>1, StagesAre
  <2>3. QED
    BY <1>1, <2>1, <2>2 DEF Feeds
<1>2. ASSUME StageOf(q) = "leaf" PROVE \E r \in RanksOf(lay) : Feeds(r, q)
  <2> DEFINE r == lay.local_ranks[q][i]
  <2>1. i \in 0..lay.local_size - 1
    <3>1. lay.node_id[q] \in Nat /\ a \in Nat /\ lay.local_size \in Nat \ {0}
      BY DEF Grid
    <3> HIDE DEF a
    <3>2. lay.node_id[q] + a \in Int
      BY <3>1
    <3>3. QED
      BY <3>1, <3>2, Division
  <2> HIDE DEF i
  <2>2. r \in RanksOf(lay) /\ lay.node_id[r] = lay.node_id[q] /\ lay.local_id[r] = i
    BY <2>1 DEF Grid
  <2> HIDE DEF r
  <2>3. lay.node_id[q] # a
    BY <1>2, StagesAre
  <2>4. (lay.node_id[r] + a) % lay.local_size = lay.local_id[r]
    BY <2>2, Zenon DEF i
  <2>5. StageOf(r) = "node"
    BY <2>2, <2>3, <2>4, StagesAre, Zenon
  <2>6. QED
    BY <1>2, <2>2, <2>5 DEF Feeds
<1>3. ASSUME NEW r \in RanksOf(lay), NEW x \in RanksOf(lay), Feeds(r, q), Feeds(x, q) PROVE r = x
  <2>1. CASE StageOf(q) = "node"
    <3>1. StageOf(r) = "fan" /\ StageOf(x) = "fan" /\ lay.local_id[r] = lay.local_id[x]
      BY <1>3, <2>1 DEF Feeds
    <3>2. lay.node_id[r] = lay.node_id[x]
      BY <3>1, StagesAre
    <3>3. QED
      BY <3>1, <3>2 DEF Grid
  <2>2. CASE StageOf(q) = "leaf"
    <3>1. StageOf(r) = "node" /\ StageOf(x) = "node" /\ lay.node_id[r] = lay.node_id[x]
      BY <1>3, <2>2 DEF Feeds
    <3>2. lay.local_id[r] = lay.local_id[x]
      BY <3>1, StagesAre, Zenon
    <3>3. QED
      BY <3>1, <3>2 DEF Grid
  <2>3. QED
    BY <1>3, <2>1, <2>2 DEF Feeds
<1>4. QED
  BY <1>1, <1>2, <1>3, StagesAre DEF Stages

\* Each rank has or had the one copy of its stage, once the one that sends it has
\* executed its own.
BcastInv ==
  /\ lay \in Layouts /\ origin \in RanksOf(lay) \cup {NoRank}
  /\ copies \in [Stages -> [RanksOf(lay) -> Nat]] /\ executed \in [RanksOf(lay) -> Nat]
  /\ origin = NoRank => \A q \in RanksOf(lay) : executed[q] = 0 /\ \A s \in Stages : copies[s][q] = 0
  /\ origin # NoRank => \A q \in RanksOf(lay) :
       /\ \A s \in Stages : s # StageOf(q) => copies[s][q] = 0
       /\ StageOf(q) = "fan" => copies["fan"][q] + executed[q] = 1
       /\ \A r \in RanksOf(lay) : Feeds(r, q) => copies[StageOf(q)][q] + executed[q] = executed[r]

\* What a rank does at one stage for the next.
LEMMA DispatchKeeps ==
  ASSUME GridLayouts, BcastInv, origin # NoRank, NEW r \in RanksOf(lay), NEW stage, NEW next, NEW others,
         \/ stage = "fan" /\ next = "node"
         \/ stage = "node" /\ next = "leaf",
         StageOf(r) = stage,
         \A q \in RanksOf(lay) : q \in others <=> Feeds(r, q),
         Dispatch(r, stage, next, others)
  PROVE  BcastInv'
<1> DEFINE R == RanksOf(lay)
<1>1. Grid(lay) /\ origin \in R /\ lay' = lay /\ origin' = origin
  BY DEF BcastInv, GridLayouts, Dispatch
<1>2. /\ stage \in Stages /\ next \in Stages /\ stage # next /\ stage # "leaf"
      /\ copies \in [Stages -> [R -> Nat]] /\ executed \in [R -> Nat]
  BY DEF BcastInv, Stages
<1>3. /\ copies[stage][r] > 0
      /\ copies' = [copies EXCEPT ![stage][r] = @ - 1, ![next] = Queue(@, others)]
      /\ executed' = [executed EXCEPT ![r] = @ + 1]
  BY DEF Dispatch
<1> DEFINE c1 == [copies EXCEPT ![stage][r] = @ - 1]
           extra(q) == IF q \in others THEN 1 ELSE 0
<1>4. /\ c1 \in [Stages -> [R -> Nat]] /\ c1[stage][r] = copies[stage][r] - 1
      /\ \A s \in Stages, q \in R : s # stage \/ q # r => c1[s][q] = copies[s][q]
  BY <1>2, <1>3
<1>5. copies' = [c1 EXCEPT ![next] = Queue(@, others)]
  BY <1>3
<1> HIDE DEF c1
<1>6. Queue(c1[next], others) = [q \in R |-> c1[next][q] + extra(q)]
  BY DEF Queue
<1>7. copies' \in [Stages -> [R -> Nat]]
  BY <1>2, <1>4, <1>5, <1>6
<1>8. /\ \A q \in R : copies'[next][q] = c1[next][q] + extra(q)
      /\ \A s \in Stages \ {next} : copies'[s] = c1[s]
  BY <1>2, <1>4, <1>5, <1>6
<1>9. /\ executed' \in [R -> Nat] /\ executed'[r] = executed[r] + 1
      /\ \A q \in R \ {r} : executed'[q] = executed[q]
  BY <1>2, <1>3
<1>10. \A q \in R : Feeds(r, q) => StageOf(q) = next /\ q # r
  BY <1>2, StagesAre DEF Feeds
<1>11. /\ copies'[stage][r] = copies[stage][r] - 1
       /\ \A s \in Stages, q \in R :
            /\ Feeds(r, q) /\ s = next => copies'[s][q] = copies[s][q] + 1
            /\ (~Feeds(r, q) \/ s # next) /\ (s # stage \/ q # r) => copies'[s][q] = copies[s][q]
  BY <1>2, <1>4, <1>8, <1>10
<1>12. ASSUME NEW q \in R
       PROVE  /\ \A s \in Stages : s # StageOf(q) => copies'[s][q] = 0
              /\ StageOf(q) = "fan" => copies'["fan"][q] + executed'[q] = 1
              /\ \A x \in R : Feeds(x, q) => copies'[StageOf(q)][q] + executed'[q] = executed'[x]
  <2>1. /\ \A s \in Stages : s # StageOf(q) => copies[s][q] = 0
        /\ StageOf(q) = "fan" => copies["fan"][q] + executed[q] = 1
        /\ \A x \in R : Feeds(x, q) => copies[StageOf(q)][q] + executed[q] = executed[x]
    BY <1>1, <1>12 DEF BcastInv
  <2>2. /\ StageOf(q) \in Stages /\ "fan" \in Stages
        /\ \A s \in Stages : copies[s][q] \in Nat
        /\ executed[q] \in Nat
    BY <1>2, StagesAre DEF Stages
  <2>3. \A s \in Stages : s # StageOf(q) => copies'[s][q] = 0
    BY <1>10, <1>11, <2>1
  <2>4. StageOf(q) = "fan" => copies'["fan"][q] + executed'[q] = 1
    <3>1. CASE q = r
      BY <1>2, <1>9, <1>11, <2>1, <2>2, <3>1
    <3>2. CASE q # r
      BY <1>2, <1>9, <1>11, <2>1, <2>2, <3>2, <1>10
    <3>3. QED
      BY <3>1, <3>2
  <2>5. ASSUME NEW x \in R, Feeds(x, q) PROVE copies'[StageOf(q)][q] + executed'[q] = executed'[x]
    <3>1. StageOf(x) # StageOf(q) /\ x # q /\ executed[x] \in Nat
      BY <1>2, <2>5 DEF Feeds
    <3>2. Feeds(r, q) => x = r
      BY <1>1, <2>5, OneFeeds
    <3>3. CASE x = r
      BY <1>9, <1>10, <1>11, <2>1, <2>2, <2>5, <3>1, <3>3
    <3>4. CASE x # r /\ q = r
      BY <1>9, <1>11, <2>1, <2>2, <2>5, <3>1, <3>2, <3>4
    <3>5. CASE x # r /\ q # r
      BY <1>9, <1>11, <2>1, <2>2, <2>5, <3>1, <3>2, <3>5
    <3>6. QED
      BY <3>3, <3>4, <3>5
  <2>6. QED
    BY <2>3, <2>4, <2>5
<1>13. \A q, x \in R : StageOf(q)' = StageOf(q) /\ Feeds(x, q)' = Feeds(x, q)
  BY <1>1 DEF StageOf, Feeds
<1>14. QED
  <2>1. RanksOf(lay)' = R
    BY <1>1
  <2>2. lay \in Layouts
    BY DEF BcastInv
  <2> HIDE DEF R
  <2>3. QED
    BY <1>1, <1>7, <1>9, <1>12, <1>13, <2>1, <2>2 DEF BcastInv

\* The origin queues a copy for each rank of its node.
LEMMA BcastKeeps ==
  ASSUME GridLayouts, BcastInv, NEW r \in RanksOf(lay), async_bcast(r)
  PROVE  BcastInv'
<1> DEFINE R == RanksOf(lay)
           extra(q) == IF q \in OnNode(r) THEN 1 ELSE 0
<1>1. Grid(lay) /\ lay \in Layouts /\ lay' = lay /\ executed' = executed /\ origin = NoRank /\ origin' = r
  BY DEF BcastInv, GridLayouts, async_bcast
<1>2. /\ copies \in [Stages -> [R -> Nat]] /\ executed \in [R -> Nat]
      /\ \A q \in R : executed[q] = 0 /\ \A s \in Stages : copies[s][q] = 0
  BY <1>1 DEF BcastInv
<1>3. copies' = [copies EXCEPT !["fan"] = Queue(@, OnNode(r))]
  BY DEF async_bcast
<1>4. Queue(copies["fan"], OnNode(r)) = [q \in R |-> copies["fan"][q] + extra(q)]
  BY DEF Queue
<1>5. /\ copies' \in [Stages -> [R -> Nat]]
      /\ \A q \in R : copies'["fan"][q] = extra(q)
      /\ \A s \in Stages \ {"fan"}, q \in R : copies'[s][q] = 0
  BY <1>2, <1>3, <1>4 DEF Stages
<1>6. \A q \in R : extra(q) = IF lay.node_id[q] = lay.node_id[r] THEN 1 ELSE 0
  BY <1>1, NodeRanks
<1>7. \A q \in R : StageOf(q)' \in Stages /\ (StageOf(q)' = "fan" <=> lay.node_id[q] = lay.node_id[r])
  BY <1>1 DEF StageOf, Stages
<1>8. \A q, x \in R : Feeds(x, q)' => StageOf(q)' # "fan"
  BY DEF Feeds
<1>9. RanksOf(lay)' = R /\ r # NoRank
  BY <1>1 DEF RanksOf, Grid, NoRank
<1> HIDE DEF R, extra
<1>10. ASSUME NEW q \in R
       PROVE  /\ \A s \in Stages : s # StageOf(q)' => copies'[s][q] = 0
              /\ StageOf(q)' = "fan" => copies'["fan"][q] + executed'[q] = 1
              /\ \A x \in R : Feeds(x, q)' => copies'[StageOf(q)'][q] + executed'[q] = executed'[x]
  BY <1>1, <1>2, <1>5, <1>6, <1>7, <1>8
<1>11. QED
  BY <1>1, <1>2, <1>5, <1>9, <1>10 DEF BcastInv, R

\* A rank executes its copy and passes it on to none.
LEMMA LeafKeeps ==
  ASSUME GridLayouts, BcastInv, NEW r \in RanksOf(lay), ExecuteLeaf(r)
  PROVE  BcastInv'
<1> DEFINE R == RanksOf(lay)
<1>1. copies \in [Stages -> [R -> Nat]] /\ executed \in [R -> Nat] /\ "leaf" \in Stages
  BY DEF BcastInv, Stages
<1>2. copies["leaf"][r] > 0 /\ lay' = lay /\ origin' = origin
  BY DEF ExecuteLeaf
<1>3. origin # NoRank /\ Grid(lay) /\ lay \in Layouts /\ origin \in R
  <2>1. origin # NoRank
    BY <1>1, <1>2 DEF BcastInv
  <2>2. QED
    BY <2>1 DEF BcastInv, GridLayouts
<1>4. StageOf(r) = "leaf"
  BY <1>1, <1>2, <1>3 DEF BcastInv
<1>5. /\ copies' \in [Stages -> [R -> Nat]] /\ copies'["leaf"][r] = copies["leaf"][r] - 1
      /\ \A s \in Stages, q \in R : s # "leaf" \/ q # r => copies'[s][q] = copies[s][q]
      /\ executed' \in [R -> Nat] /\ executed'[r] = executed[r] + 1
      /\ \A q \in R \ {r} : executed'[q] = executed[q]
  <2>1. copies' = [copies EXCEPT !["leaf"][r] = @ - 1] /\ executed' = [executed EXCEPT ![r] = @ + 1]
    BY DEF ExecuteLeaf
  <2>2. QED
    BY <1>1, <1>2, <2>1
<1>6. \A q, x \in R : StageOf(q)' = StageOf(q) /\ Feeds(x, q)' = Feeds(x, q)
  BY <1>2 DEF StageOf, Feeds
<1>7. \A q \in R : ~Feeds(r, q)
  BY <1>4 DEF Feeds
<1>8. ASSUME NEW q \in R
      PROVE  /\ \A s \in Stages : s # StageOf(q) => copies'[s][q] = 0
             /\ StageOf(q) = "fan" => copies'["fan"][q] + executed'[q] = 1
             /\ \A x \in R : Feeds(x, q) => copies'[StageOf(q)][q] + executed'[q] = executed'[x]
  <2>1. /\ \A s \in Stages : s # StageOf(q) => copies[s][q] = 0
        /\ StageOf(q) = "fan" => copies["fan"][q] + executed[q] = 1
        /\ \A x \in R : Feeds(x, q) => copies[StageOf(q)][q] + executed[q] = executed[x]
    BY <1>3, <1>8 DEF BcastInv
  <2>2. /\ StageOf(q) \in Stages /\ "fan" \in Stages
        /\ \A s \in Stages : copies[s][q] \in Nat
        /\ executed[q] \in Nat
    BY <1>1, StagesAre DEF Stages
  <2> DEFINE t == StageOf(q)
  <2>3. copies'[t][q] + executed'[q] = copies[t][q] + executed[q]
    <3>1. CASE q = r
      <4>1. t = "leaf" /\ copies["leaf"][r] \in Nat /\ executed[r] \in Nat
        BY <1>4, <2>2, <3>1
      <4>2. copies'["leaf"][r] = copies["leaf"][r] - 1 /\ executed'[r] = executed[r] + 1
        BY <1>5
      <4>3. copies'["leaf"][r] + executed'[r] = copies["leaf"][r] + executed[r]
        BY <4>1, <4>2
      <4>4. QED
        BY <3>1, <4>1, <4>3
    <3>2. CASE q # r
      BY <1>5, <2>2, <3>2
    <3>3. QED
      BY <3>1, <3>2
  <2>4. \A s \in Stages : s # t => copies'[s][q] = 0
    BY <1>4, <1>5, <2>1
  <2>5. \A x \in R : Feeds(x, q) => executed'[x] = executed[x]
    BY <1>5, <1>7
  <2>6. QED
    BY <2>1, <2>3, <2>4, <2>5
<1>9. RanksOf(lay)' = R
  BY <1>2
<1> HIDE DEF R
<1>10. QED
  BY <1>2, <1>3, <1>5, <1>6, <1>8, <1>9 DEF BcastInv

\* Each step of a broadcast keeps the invariant.
LEMMA BcastInvStep ==
  ASSUME GridLayouts, \A l \in Layouts : Block(l), BcastInv, [BcastNext]_<<bcastVars, lay>>
  PROVE  BcastInv'
<1>1. Grid(lay) /\ Block(lay)
  BY DEF GridLayouts, BcastInv
<1>2. ASSUME NEW r \in RanksOf(lay), NEW s \in Stages, copies[s][r] > 0
      PROVE  origin # NoRank /\ StageOf(r) = s
  BY <1>2 DEF BcastInv
<1>3. ASSUME NEW r \in RanksOf(lay), ForwardRemote(r) PROVE BcastInv'
  <2>1. copies["fan"][r] > 0 /\ Dispatch(r, "fan", "node", Partners(r))
    BY <1>3 DEF ForwardRemote, Dispatch
  <2>2. origin # NoRank /\ StageOf(r) = "fan"
    BY <1>2, <2>1 DEF Stages
  <2>3. \A q \in RanksOf(lay) : q \in Partners(r) <=> Feeds(r, q)
    BY <1>1, <2>2, FanFeeds
  <2>4. QED
    BY <2>1, <2>2, <2>3, DispatchKeeps
<1>4. ASSUME NEW r \in RanksOf(lay), ForwardLocal(r) PROVE BcastInv'
  <2> DEFINE others == OnNode(r) \ {r}
  <2>1. copies["node"][r] > 0 /\ Dispatch(r, "node", "leaf", others)
    BY <1>4 DEF ForwardLocal, Dispatch
  <2>2. origin # NoRank /\ StageOf(r) = "node"
    BY <1>2, <2>1 DEF Stages
  <2>3. \A q \in RanksOf(lay) : q \in others <=> Feeds(r, q)
    BY <1>1, <2>2, NodeFeeds
  <2> HIDE DEF others
  <2>4. QED
    BY <2>1, <2>2, <2>3, DispatchKeeps
<1>5. CASE UNCHANGED <<bcastVars, lay>>
  BY <1>5 DEF BcastInv, bcastVars, StageOf, Feeds, RanksOf
<1>6. QED
  BY <1>3, <1>4, <1>5, BcastKeeps, LeafKeeps DEF BcastNext

\* A broadcast executes its function once on every rank, whatever the numbers of
\* nodes and of ranks on a node, if ranks are placed by slot.
THEOREM BroadcastExact ==
  ASSUME GridLayouts, \A l \in Layouts : Block(l)
  PROVE  BcastSpec => []BcastExactlyOnce
<1>1. lay \in Layouts /\ BcastInit => BcastInv
  BY DEF BcastInit, BcastInv
<1>2. BcastInv /\ [BcastNext]_<<bcastVars, lay>> => BcastInv'
  BY BcastInvStep
<1>3. BcastInv => BcastExactlyOnce
  <2>1. SUFFICES ASSUME BcastInv PROVE BcastExactlyOnce
    OBVIOUS
  <2>2. /\ Grid(lay) /\ copies \in [Stages -> [RanksOf(lay) -> Nat]]
        /\ executed \in [RanksOf(lay) -> Nat] /\ origin \in RanksOf(lay) \cup {NoRank}
    BY <2>1 DEF BcastInv, GridLayouts
  <2>3. ASSUME NEW q \in RanksOf(lay)
        PROVE  /\ copies["fan"][q] \in Nat /\ copies["node"][q] \in Nat /\ copies["leaf"][q] \in Nat
               /\ executed[q] \in Nat
    BY <2>2 DEF Stages
  <2>4. CASE origin = NoRank
    <3>1. \A q \in RanksOf(lay) : executed[q] + Waiting(q) = 0
      BY <2>1, <2>3, <2>4 DEF BcastInv, Waiting, Stages
    <3>2. QED
      BY <2>4, <3>1 DEF BcastExactlyOnce, BcastReachesAll
  <2>5. CASE origin # NoRank
    <3>1. origin \in RanksOf(lay)
      BY <2>2, <2>5
    <3>2. ASSUME NEW q \in RanksOf(lay)
          PROVE  /\ StageOf(q) \in Stages
                 /\ Waiting(q) = copies[StageOf(q)][q]
                 /\ StageOf(q) = "fan" => Waiting(q) + executed[q] = 1
                 /\ \A r \in RanksOf(lay) : Feeds(r, q) => Waiting(q) + executed[q] = executed[r]
      <4>1. /\ \A s \in Stages : s # StageOf(q) => copies[s][q] = 0
            /\ StageOf(q) = "fan" => copies["fan"][q] + executed[q] = 1
            /\ \A r \in RanksOf(lay) : Feeds(r, q) => copies[StageOf(q)][q] + executed[q] = executed[r]
            /\ StageOf(q) \in Stages
        BY <2>1, <2>5, StagesAre DEF BcastInv
      <4>2. Waiting(q) = copies[StageOf(q)][q]
        BY <2>3, <4>1 DEF Waiting, Stages
      <4>3. QED
        BY <4>1, <4>2
    <3>3. ASSUME NEW q \in RanksOf(lay), StageOf(q) # "fan"
          PROVE  \E r \in RanksOf(lay) : StageOf(r) # "leaf" /\ Feeds(r, q) /\ (StageOf(q) = "node" => StageOf(r) = "fan")
      BY <2>2, <3>1, <3>3, OneFeeds DEF Feeds
    <3>4. \A q \in RanksOf(lay) : Waiting(q) \in Nat
      BY <2>3 DEF Waiting
    <3>5. \A q \in RanksOf(lay) : StageOf(q) = "fan" => executed[q] + Waiting(q) = 1
      BY <2>3, <3>2, <3>4
    <3>6. \A q \in RanksOf(lay) : StageOf(q) = "node" =>
            \E r \in RanksOf(lay) : StageOf(r) = "fan" /\ executed[q] + Waiting(q) = executed[r]
      BY <2>3, <3>2, <3>3, <3>4
    <3>7. \A q \in RanksOf(lay) : StageOf(q) = "leaf" =>
            \E r \in RanksOf(lay) : StageOf(r) \in {"fan", "node"} /\ executed[q] + Waiting(q) = executed[r]
      BY <2>3, <3>2, <3>3, <3>4 DEF Stages
    <3>8. \A q \in RanksOf(lay) : executed[q] + Waiting(q) <= 1
      <4>1. \A q \in RanksOf(lay) : StageOf(q) \in {"fan", "node"} => executed[q] + Waiting(q) <= 1
        BY <2>3, <3>4, <3>5, <3>6
      <4>2. QED
        BY <2>3, <3>2, <3>4, <3>7, <4>1 DEF Stages
    <3>9. ASSUME \A q \in RanksOf(lay) : Waiting(q) = 0
          PROVE  \A q \in RanksOf(lay) : executed[q] = 1
      <4>1. \A q \in RanksOf(lay) : StageOf(q) \in {"fan", "node"} => executed[q] = 1
        BY <2>3, <3>5, <3>6, <3>9
      <4>2. QED
        BY <2>3, <3>2, <3>7, <3>9, <4>1 DEF Stages
    <3>10. QED
      BY <3>8, <3>9 DEF BcastExactlyOnce, BcastReachesAll
  <2>6. QED
    BY <2>4, <2>5
<1>4. QED
  BY <1>1, <1>2, <1>3, PTL DEF BcastSpec

-----------------------------------------------------------------------------
(***************************************************************************)
(* Layouts computed from placements are grids.                             *)
(***************************************************************************)
\* The positions of the members of a finite set of numbers are 0, 1, 2 ...
LEMMA Positions ==
  ASSUME NEW S \in SUBSET Int, IsFiniteSet(S)
  PROVE  /\ Cardinality(S) \in Nat
         /\ \A x \in S : Below(x, S) \in 0..Cardinality(S) - 1
         /\ \A x, y \in S : Below(x, S) = Below(y, S) => x = y
         /\ \A i \in 0..Cardinality(S) - 1 : \E x \in S : Below(x, S) = i
<1> DEFINE C == Cardinality(S)
           B(x) == {y \in S : y < x}
<1>1. C \in Nat
  BY FS_CardinalityType
<1>2. \A x \in S : Below(x, S) = Cardinality(B(x)) /\ IsFiniteSet(B(x)) /\ Below(x, S) \in Nat
  <2>1. ASSUME NEW x \in S PROVE Below(x, S) = Cardinality(B(x)) /\ IsFiniteSet(B(x)) /\ Below(x, S) \in Nat
    <3>1. B(x) \in SUBSET S /\ Below(x, S) = Cardinality(B(x))
      BY DEF Below
    <3> HIDE DEF B
    <3>2. QED
      BY <3>1, FS_Subset, FS_CardinalityType
  <2>2. QED
    BY <2>1
<1>3. ASSUME NEW x \in S PROVE Below(x, S) < C
  <2>1. B(x) \in SUBSET S /\ B(x) # S
    BY <1>3
  <2> HIDE DEF B
  <2>2. Cardinality(B(x)) <= C /\ Cardinality(B(x)) # C
    BY <2>1, FS_Subset
  <2>3. QED
    BY <1>1, <1>2, <2>2
<1>4. ASSUME NEW x \in S, NEW y \in S, x < y PROVE Below(x, S) < Below(y, S)
  <2>1. B(x) \in SUBSET B(y) /\ B(x) # B(y)
    <3>1. x \in Int /\ y \in Int /\ \A z \in S : z \in Int
      OBVIOUS
    <3>2. \A z \in S : z < x => z < y
      BY <1>4, <3>1
    <3>3. x \in B(y) /\ x \notin B(x)
      BY <1>4, <3>1
    <3>4. QED
      BY <3>2, <3>3
  <2> HIDE DEF B
  <2>2. Cardinality(B(x)) <= Cardinality(B(y)) /\ Cardinality(B(x)) # Cardinality(B(y))
    BY <1>2, <2>1, FS_Subset
  <2>3. QED
    BY <1>2, <2>2
<1>5. ASSUME NEW x \in S, NEW y \in S, Below(x, S) = Below(y, S) PROVE x = y
  <2>1. ~(x < y) /\ ~(y < x)
    <3> HIDE DEF B, C
    <3>1. Below(x, S) \in Nat /\ Below(y, S) \in Nat
      BY <1>2
    <3>2. QED
      BY <1>4, <1>5, <3>1
  <2>2. QED
    BY <2>1
<1> DEFINE f == [x \in S |-> Below(x, S)]
           T == {f[x] : x \in S}
<1>6. f \in [S -> T] /\ (\A x, y \in S : f[x] = f[y] => x = y) /\ \A t \in T : \E x \in S : f[x] = t
  BY <1>5
<1>7. T \in SUBSET (0..C - 1)
  <2>1. \A x \in S : Below(x, S) \in 0..C - 1
    <3> HIDE DEF B, C
    <3>1. QED
      BY <1>1, <1>2, <1>3
  <2>2. QED
    BY <2>1
<1>8. Cardinality(T) = C /\ IsFiniteSet(T)
  <2> HIDE DEF f, T
  <2>1. QED
    BY <1>6, CountBijection
<1>9. IsFiniteSet(0..C - 1) /\ Cardinality(0..C - 1) = C
  <2> HIDE DEF C
  <2>1. 0 \in Int /\ C - 1 \in Int
    BY <1>1
  <2>2. IsFiniteSet(0..C - 1) /\ Cardinality(0..C - 1) = IF 0 > C - 1 THEN 0 ELSE C - 1 - 0 + 1
    BY <2>1, FS_Interval
  <2>3. QED
    BY <1>1, <2>2
<1>10. T = 0..C - 1
  <2> HIDE DEF T, C
  <2>1. QED
    BY <1>7, <1>8, <1>9, FS_Subset
<1>11. \A i \in 0..C - 1 : \E x \in S : Below(x, S) = i
  BY <1>6, <1>10
<1>12. \A x \in S : Below(x, S) \in 0..C - 1
  BY <1>6, <1>7
<1> HIDE DEF B, f, T
<1>13. QED
  BY <1>1, <1>5, <1>11, <1>12

\* So the members in order are those members, each at its position.
LEMMA InOrder ==
  ASSUME NEW S \in SUBSET Int, IsFiniteSet(S), NEW i \in 0..Cardinality(S) - 1
  PROVE  Ordered(S)[i] \in S /\ Below(Ordered(S)[i], S) = i
<1>1. \E x \in S : Below(x, S) = i
  BY Positions
<1>2. Ordered(S)[i] = CHOOSE x \in S : Below(x, S) = i
  BY DEF Ordered
<1>3. QED
  BY <1>1, <1>2

\* The ranks on the host of r, its number there, and the ranks with that number.
OnHost(host, r) == {q \in DOMAIN host : host[q] = host[r]}
LocalId(host, r) == Below(r, OnHost(host, r))
Column(host, r) == {q \in DOMAIN host : LocalId(host, q) = LocalId(host, r)}

LEMMA LayoutFields ==
  ASSUME NEW host, NEW r \in DOMAIN host
  PROVE  /\ LayoutOf(host).size = Cardinality(DOMAIN host)
         /\ 0 \in DOMAIN host => LayoutOf(host).node_size = Cardinality(Column(host, 0))
         /\ 0 \in DOMAIN host => LayoutOf(host).local_size = Cardinality(OnHost(host, 0))
         /\ LayoutOf(host).node_id[r] = Below(r, Column(host, r))
         /\ LayoutOf(host).local_id[r] = LocalId(host, r)
         /\ LayoutOf(host).strided_ranks[r] = Ordered(Column(host, r))
         /\ LayoutOf(host).local_ranks[r] = Ordered(OnHost(host, r))
BY DEF LayoutOf, LocalId, OnHost, Column

\* A placement with equally many ranks on each host, where the hosts come in the
\* same order in whichever of their ranks they are compared.
Orderly(host) ==
  /\ \E n \in Nat \ {0} : DOMAIN host = 0..n - 1
  /\ \A r, q \in DOMAIN host : Cardinality(OnHost(host, r)) = Cardinality(OnHost(host, q))
  /\ \A r, q, s, t \in DOMAIN host :
       /\ host[r] = host[s] /\ host[q] = host[t]
       /\ LocalId(host, r) = LocalId(host, q) /\ LocalId(host, s) = LocalId(host, t)
       => (r < q <=> s < t)

\* Ranks of a host, and where the numbers of hosts and ranks are.
LEMMA Hosts ==
  ASSUME NEW host, Orderly(host), NEW r \in DOMAIN host
  PROVE  /\ r \in OnHost(host, r) /\ OnHost(host, r) \in SUBSET Int /\ IsFiniteSet(OnHost(host, r))
         /\ OnHost(host, r) \in SUBSET DOMAIN host
         /\ \A q \in OnHost(host, r) : host[q] = host[r] /\ OnHost(host, q) = OnHost(host, r)
         /\ r \in Column(host, r) /\ Column(host, r) \in SUBSET Int /\ IsFiniteSet(Column(host, r))
         /\ Column(host, r) \in SUBSET DOMAIN host
         /\ \A q \in Column(host, r) : LocalId(host, q) = LocalId(host, r) /\ Column(host, q) = Column(host, r)
         /\ LocalId(host, r) \in 0..Cardinality(OnHost(host, r)) - 1
<1>1. PICK n \in Nat \ {0} : DOMAIN host = 0..n - 1
  BY DEF Orderly
<1>2. IsFiniteSet(DOMAIN host) /\ DOMAIN host \in SUBSET Int
  <2>1. 0 \in Int /\ n - 1 \in Int
    OBVIOUS
  <2>2. IsFiniteSet(0..n - 1)
    BY <2>1, FS_Interval
  <2>3. QED
    BY <1>1, <2>2
<1>3. OnHost(host, r) \in SUBSET DOMAIN host /\ Column(host, r) \in SUBSET DOMAIN host
      /\ r \in OnHost(host, r) /\ r \in Column(host, r)
  BY DEF OnHost, Column
<1>4. IsFiniteSet(OnHost(host, r)) /\ IsFiniteSet(Column(host, r))
  BY <1>2, <1>3, FS_Subset
<1>5. \A q \in OnHost(host, r) : host[q] = host[r] /\ OnHost(host, q) = OnHost(host, r)
  BY DEF OnHost
<1>6. \A q \in Column(host, r) : LocalId(host, q) = LocalId(host, r) /\ Column(host, q) = Column(host, r)
  BY DEF Column
<1>7. OnHost(host, r) \in SUBSET Int
  BY <1>2, <1>3
<1>8. LocalId(host, r) \in 0..Cardinality(OnHost(host, r)) - 1
  BY <1>3, <1>4, <1>7, Positions DEF LocalId
<1>9. QED
  BY <1>2, <1>3, <1>4, <1>5, <1>6, <1>7, <1>8

\* A rank is known by its host and its number there, and there is one on each
\* host with each number.
LEMMA Coordinates ==
  ASSUME NEW host, Orderly(host), NEW r \in DOMAIN host, NEW q \in DOMAIN host
  PROVE  /\ \E z \in DOMAIN host : host[z] = host[q] /\ LocalId(host, z) = LocalId(host, r)
         /\ host[r] = host[q] /\ LocalId(host, r) = LocalId(host, q) => r = q
<1> DEFINE S == OnHost(host, q)
<1>1. /\ q \in S /\ S \in SUBSET Int /\ IsFiniteSet(S) /\ S \in SUBSET DOMAIN host
      /\ \A z \in S : host[z] = host[q] /\ OnHost(host, z) = S
  BY Hosts
<1>2. \A z \in S : LocalId(host, z) = Below(z, S)
  BY <1>1 DEF LocalId
<1>3. LocalId(host, r) \in 0..Cardinality(S) - 1
  <2>1. LocalId(host, r) \in 0..Cardinality(OnHost(host, r)) - 1
    BY Hosts
  <2>2. Cardinality(OnHost(host, r)) = Cardinality(S)
    BY DEF Orderly
  <2>3. QED
    BY <2>1, <2>2
<1>4. host[r] = host[q] => r \in S
  BY DEF OnHost
<1> HIDE DEF S
<1>5. /\ \A x, y \in S : Below(x, S) = Below(y, S) => x = y
      /\ \A i \in 0..Cardinality(S) - 1 : \E x \in S : Below(x, S) = i
  BY <1>1, Positions
<1>6. PICK x \in S : Below(x, S) = LocalId(host, r)
  BY <1>3, <1>5
<1>7. x \in DOMAIN host /\ host[x] = host[q] /\ LocalId(host, x) = LocalId(host, r)
  BY <1>1, <1>2, <1>6
<1>8. host[r] = host[q] /\ LocalId(host, r) = LocalId(host, q) => r = q
  BY <1>1, <1>2, <1>4, <1>5
<1>9. QED
  BY <1>7, <1>8

\* Two columns have a rank on each host, and so does what is below a rank of the
\* one and below the rank on its host of the other.
LEMMA Columns ==
  ASSUME NEW host, Orderly(host), NEW r \in DOMAIN host, NEW s \in DOMAIN host,
         NEW A, A \in SUBSET Column(host, r), NEW B, B \in SUBSET Column(host, s),
         \A x \in Column(host, r), y \in Column(host, s) : host[x] = host[y] => (x \in A <=> y \in B)
  PROVE  Cardinality(A) = Cardinality(B)
<1> DEFINE I(q) == LocalId(host, q)
           f == [x \in A |-> CHOOSE y \in DOMAIN host : host[y] = host[x] /\ I(y) = I(s)]
<1>0. Column(host, r) = {q \in DOMAIN host : I(q) = I(r)} /\ Column(host, s) = {q \in DOMAIN host : I(q) = I(s)}
  BY DEF Column
<1>1. A \in SUBSET DOMAIN host /\ B \in SUBSET DOMAIN host /\ IsFiniteSet(A)
  <2>1. IsFiniteSet(Column(host, r)) /\ Column(host, r) \in SUBSET DOMAIN host
    BY Hosts
  <2>2. IsFiniteSet(A)
    BY <2>1, FS_Subset
  <2>3. QED
    BY <1>0, <2>1, <2>2
<1>2. \A x, y \in DOMAIN host : \E z \in DOMAIN host : host[z] = host[y] /\ I(z) = I(x)
  BY Coordinates
<1>3. \A x, y \in DOMAIN host : host[x] = host[y] /\ I(x) = I(y) => x = y
  BY Coordinates
<1> HIDE DEF I
<1>4. ASSUME NEW x \in A PROVE f[x] \in DOMAIN host /\ host[f[x]] = host[x] /\ I(f[x]) = I(s) /\ f[x] \in B
  <2>1. x \in DOMAIN host /\ x \in Column(host, r)
    BY <1>1
  <2>2. \E y \in DOMAIN host : host[y] = host[x] /\ I(y) = I(s)
    BY <1>2, <2>1
  <2>3. f[x] \in DOMAIN host /\ host[f[x]] = host[x] /\ I(f[x]) = I(s)
    BY <2>2
  <2> HIDE DEF f
  <2>4. f[x] \in Column(host, s)
    BY <1>0, <2>3
  <2>5. QED
    BY <2>1, <2>3, <2>4
<1>5. f \in [A -> B]
  BY <1>4
<1> HIDE DEF f
<1>6. \A x, y \in A : f[x] = f[y] => x = y
  <2>1. SUFFICES ASSUME NEW x \in A, NEW y \in A, f[x] = f[y] PROVE x = y
    OBVIOUS
  <2>2. host[x] = host[y]
    BY <1>4, <2>1
  <2>3. x \in DOMAIN host /\ y \in DOMAIN host /\ I(x) = I(y)
    BY <1>0, <1>1
  <2>4. QED
    BY <1>3, <2>2, <2>3
<1>7. \A y \in B : \E x \in A : f[x] = y
  <2>1. SUFFICES ASSUME NEW y \in B PROVE \E x \in A : f[x] = y
    OBVIOUS
  <2>2. PICK x \in DOMAIN host : host[x] = host[y] /\ I(x) = I(r)
    BY <1>1, <1>2
  <2>3. x \in Column(host, r)
    BY <1>0, <2>2
  <2>4. x \in A
    BY <2>2, <2>3
  <2>5. f[x] \in DOMAIN host /\ host[f[x]] = host[y] /\ I(f[x]) = I(s) /\ I(y) = I(s) /\ y \in DOMAIN host
    BY <1>0, <1>1, <1>4, <2>2, <2>4
  <2>6. f[x] = y
    BY <1>3, <2>5
  <2>7. QED
    BY <2>4, <2>6
<1>8. QED
  BY <1>1, <1>5, <1>6, <1>7, CountBijection

\* All columns are as long, and ranks of a host are as far up in theirs.
LEMMA SameNode ==
  ASSUME NEW host, Orderly(host), NEW r \in DOMAIN host, NEW s \in DOMAIN host
  PROVE  /\ Cardinality(Column(host, r)) = Cardinality(Column(host, s))
         /\ host[r] = host[s] => Below(r, Column(host, r)) = Below(s, Column(host, s))
<1>1. Cardinality(Column(host, r)) = Cardinality(Column(host, s))
  <2> DEFINE A == Column(host, r)
             B == Column(host, s)
  <2>1. /\ A \in SUBSET Column(host, r) /\ B \in SUBSET Column(host, s)
        /\ \A x \in Column(host, r), y \in Column(host, s) : host[x] = host[y] => (x \in A <=> y \in B)
    OBVIOUS
  <2> HIDE DEF A, B
  <2>2. Cardinality(A) = Cardinality(B)
    BY <2>1, Columns
  <2>3. QED
    BY <2>2 DEF A, B
<1>2. ASSUME host[r] = host[s] PROVE Below(r, Column(host, r)) = Below(s, Column(host, s))
  <2> DEFINE A == {x \in Column(host, r) : x < r}
             B == {y \in Column(host, s) : y < s}
  <2>1. A \in SUBSET Column(host, r) /\ B \in SUBSET Column(host, s)
    OBVIOUS
  <2>2. \A x \in Column(host, r), y \in Column(host, s) : host[x] = host[y] => (x \in A <=> y \in B)
    <3>1. SUFFICES ASSUME NEW x \in Column(host, r), NEW y \in Column(host, s), host[x] = host[y]
                   PROVE  x < r <=> y < s
      OBVIOUS
    <3>2. x \in DOMAIN host /\ y \in DOMAIN host /\ LocalId(host, x) = LocalId(host, r)
          /\ LocalId(host, y) = LocalId(host, s)
      BY DEF Column
    <3>3. QED
      BY <1>2, <3>1, <3>2 DEF Orderly
  <2> HIDE DEF A, B
  <2>3. Cardinality(A) = Cardinality(B)
    BY <2>1, <2>2, Columns
  <2>4. QED
    BY <2>3 DEF A, B, Below
<1>3. QED
  BY <1>1, <1>2

\* The layout of an orderly placement is a grid.
THEOREM OrderlyGrid ==
  ASSUME NEW host, Orderly(host)
  PROVE  Grid(LayoutOf(host)) /\ RanksOf(LayoutOf(host)) = DOMAIN host
<1> DEFINE l == LayoutOf(host)
           R == DOMAIN host
<1>1. PICK n \in Nat \ {0} : R = 0..n - 1
  BY DEF Orderly
<1>2. 0 \in R /\ Cardinality(R) = n
  <2>1. 0 \in Int /\ n - 1 \in Int
    OBVIOUS
  <2>2. Cardinality(0..n - 1) = IF 0 > n - 1 THEN 0 ELSE n - 1 - 0 + 1
    BY <2>1, FS_Interval
  <2>3. Cardinality(0..n - 1) = n
    BY <2>2
  <2>4. QED
    BY <1>1, <2>3
<1>3. l.size = n /\ l.node_size = Cardinality(Column(host, 0)) /\ l.local_size = Cardinality(OnHost(host, 0))
  BY <1>2, LayoutFields
<1>4. RanksOf(l) = R
  BY <1>1, <1>3 DEF RanksOf
<1>5. ASSUME NEW r \in R
      PROVE  /\ l.node_id[r] = Below(r, Column(host, r)) /\ l.local_id[r] = LocalId(host, r)
             /\ l.strided_ranks[r] = Ordered(Column(host, r)) /\ l.local_ranks[r] = Ordered(OnHost(host, r))
             /\ l.node_size = Cardinality(Column(host, r)) /\ l.local_size = Cardinality(OnHost(host, r))
  <2>1. Cardinality(Column(host, r)) = Cardinality(Column(host, 0))
    BY <1>2, SameNode
  <2>2. Cardinality(OnHost(host, r)) = Cardinality(OnHost(host, 0))
    BY <1>2 DEF Orderly
  <2>3. QED
    BY <1>3, <2>1, <2>2, LayoutFields
<1> HIDE DEF l
<1>6. l.node_size \in Nat \ {0} /\ l.local_size \in Nat \ {0} /\ l.size \in Nat \ {0}
  <2>1. IsFiniteSet(Column(host, 0)) /\ IsFiniteSet(OnHost(host, 0)) /\ 0 \in Column(host, 0) /\ 0 \in OnHost(host, 0)
    BY <1>2, Hosts
  <2>2. Cardinality(Column(host, 0)) \in Nat /\ Cardinality(OnHost(host, 0)) \in Nat
    BY <2>1, FS_CardinalityType
  <2>3. Cardinality(Column(host, 0)) # 0 /\ Cardinality(OnHost(host, 0)) # 0
    BY <2>1, FS_EmptySet
  <2>4. QED
    BY <1>3, <2>2, <2>3
<1>7. ASSUME NEW r \in R PROVE l.node_id[r] \in 0..l.node_size - 1 /\ l.local_id[r] \in 0..l.local_size - 1
  <2>1. /\ r \in Column(host, r) /\ Column(host, r) \in SUBSET Int /\ IsFiniteSet(Column(host, r))
        /\ LocalId(host, r) \in 0..Cardinality(OnHost(host, r)) - 1
    BY Hosts
  <2>2. Below(r, Column(host, r)) \in 0..Cardinality(Column(host, r)) - 1
    BY <2>1, Positions
  <2>3. QED
    BY <1>5, <2>1, <2>2
<1>8. ASSUME NEW r \in R, NEW k \in 0..l.node_size - 1
      PROVE  /\ l.strided_ranks[r][k] \in R
             /\ l.node_id[l.strided_ranks[r][k]] = k /\ l.local_id[l.strided_ranks[r][k]] = l.local_id[r]
  <2> DEFINE S == Column(host, r)
  <2>1. /\ S \in SUBSET Int /\ IsFiniteSet(S) /\ S \in SUBSET DOMAIN host
        /\ \A q \in S : LocalId(host, q) = LocalId(host, r) /\ Column(host, q) = S
    BY Hosts
  <2>2. k \in 0..Cardinality(S) - 1 /\ l.strided_ranks[r] = Ordered(S)
    BY <1>5
  <2> HIDE DEF S
  <2>3. PICK x \in S : x = l.strided_ranks[r][k] /\ Below(x, S) = k
    BY <2>1, <2>2, InOrder
  <2>4. x \in R /\ l.node_id[x] = k /\ l.local_id[x] = l.local_id[r]
    BY <1>5, <2>1, <2>3
  <2>5. QED
    BY <2>3, <2>4
<1>9. ASSUME NEW r \in R, NEW i \in 0..l.local_size - 1
      PROVE  /\ l.local_ranks[r][i] \in R
             /\ l.node_id[l.local_ranks[r][i]] = l.node_id[r] /\ l.local_id[l.local_ranks[r][i]] = i
  <2> DEFINE S == OnHost(host, r)
  <2>1. /\ S \in SUBSET Int /\ IsFiniteSet(S) /\ S \in SUBSET DOMAIN host
        /\ \A q \in S : host[q] = host[r] /\ OnHost(host, q) = S
    BY Hosts
  <2>2. i \in 0..Cardinality(S) - 1 /\ l.local_ranks[r] = Ordered(S)
    BY <1>5
  <2> HIDE DEF S
  <2>3. PICK x \in S : x = l.local_ranks[r][i] /\ Below(x, S) = i
    BY <2>1, <2>2, InOrder
  <2>4. x \in R /\ host[x] = host[r] /\ LocalId(host, x) = i
    BY <2>1, <2>3 DEF LocalId
  <2>5. l.node_id[x] = l.node_id[r] /\ l.local_id[x] = i
    BY <1>5, <2>4, SameNode
  <2>6. QED
    BY <2>3, <2>4, <2>5
<1>10. ASSUME NEW r \in R, NEW q \in R, l.node_id[r] = l.node_id[q], l.local_id[r] = l.local_id[q]
       PROVE  r = q
  <2>1. LocalId(host, r) = LocalId(host, q) /\ Below(r, Column(host, r)) = Below(q, Column(host, q))
    BY <1>5, <1>10
  <2> DEFINE S == Column(host, q)
  <2>2. r \in S /\ q \in S /\ S \in SUBSET Int /\ IsFiniteSet(S) /\ Column(host, r) = S
    <3>1. r \in S
      BY <2>1 DEF Column
    <3>2. QED
      BY <3>1, Hosts
  <2> HIDE DEF S
  <2>3. \A x, y \in S : Below(x, S) = Below(y, S) => x = y
    BY <2>2, Positions
  <2>4. QED
    BY <2>1, <2>2, <2>3 DEF S
<1>11. Grid(l)
  BY <1>4, <1>6, <1>7, <1>8, <1>9, <1>10 DEF Grid
<1>12. QED
  BY <1>4, <1>11 DEF l

\* A number of n * l is n * l - 1 at most: its quotient by l is below n.
LEMMA Quotients ==
  ASSUME NEW n \in Nat \ {0}, NEW l \in Nat \ {0}, NEW r \in 0..n * l - 1
  PROVE  r \div l \in 0..n - 1
<1> DEFINE a == r \div l
<1>1. n * l \in Int /\ n * l = l * n /\ r \in Nat /\ r < n * l
  OBVIOUS
<1>2. a \in Int /\ r % l \in 0..l - 1 /\ r = l * a + (r % l)
  BY <1>1, Division
<1>3. a < 0 => l * a + l <= l * 0
  <2> HIDE DEF a
  <2>1. QED
    BY <1>2, Larger
<1>4. n <= a => l * n <= l * a
  <2> HIDE DEF a
  <2>1. n < a => l * n + l <= l * a
    BY <1>2, Larger
  <2>2. l * n \in Int /\ l * a \in Int
    BY <1>2
  <2>3. CASE n = a
    BY <2>2, <2>3
  <2>4. CASE n < a
    BY <2>1, <2>2, <2>4
  <2>5. QED
    BY <1>2, <2>3, <2>4
<1>5. l * a \in Int /\ l * n \in Int /\ l * 0 = 0
  BY <1>2
<1> DEFINE x == l * a
           y == l * n
<1>6. /\ x \in Int /\ y \in Int /\ r = x + (r % l) /\ r < y /\ (a < 0 => x + l <= 0) /\ (n <= a => y <= x)
  BY <1>1, <1>2, <1>3, <1>4, <1>5
<1> HIDE DEF x, y, a
<1>7. a \in 0..n - 1
  BY <1>1, <1>2, <1>6
<1>8. QED
  BY <1>7 DEF a

\* The quotient and the remainder of k * p + s.
LEMMA Divided ==
  ASSUME NEW k \in Nat \ {0}, NEW p \in Nat, NEW s \in 0..k - 1
  PROVE  k * p + s \in Nat /\ (k * p + s) \div k = p /\ (k * p + s) % k = s
<1>1. k * p \in Nat
  OBVIOUS
<1>2. PICK r \in Nat : r = k * p + s
  BY <1>1
<1>3. r \div k \in Int /\ r % k \in 0..k - 1 /\ r = k * (r \div k) + (r % k)
  BY <1>2, Division
<1>4. PICK q \in Int : q = r \div k
  BY <1>3
<1>5. PICK t \in 0..k - 1 : t = r % k
  BY <1>3
<1>6. k * p + s = k * q + t
  BY <1>2, <1>3, <1>4, <1>5
<1>7. p = q /\ s = t
  BY <1>6, OneDivision
<1>8. QED
  BY <1>2, <1>4, <1>5, <1>7

\* There are p numbers below k * p + s that leave the remainder s.
LEMMA Stride ==
  ASSUME NEW k \in Nat \ {0}, NEW p \in Nat, NEW s \in 0..k - 1,
         NEW S, \A q : q \in S <=> q \in Nat /\ q % k = s /\ q < k * p + s
  PROVE  IsFiniteSet(S) /\ Cardinality(S) = p
<1> DEFINE D == 0..p - 1
           f == [a \in D |-> k * a + s]
<1>1. IsFiniteSet(D) /\ Cardinality(D) = p
  <2>1. 0 \in Int /\ p - 1 \in Int
    OBVIOUS
  <2>2. IsFiniteSet(D) /\ Cardinality(D) = IF 0 > p - 1 THEN 0 ELSE p - 1 - 0 + 1
    BY <2>1, FS_Interval
  <2>3. QED
    BY <2>2
<1>2. ASSUME NEW a \in D PROVE k * a + s \in S
  <2>1. a \in Nat /\ a \in Int /\ p \in Int /\ a < p
    OBVIOUS
  <2>2. k * a + s \in Nat /\ (k * a + s) % k = s
    BY <2>1, Divided
  <2>3. k * a + k <= k * p
    BY <2>1, Larger
  <2>4. k * a \in Int /\ k * p \in Int
    BY <2>1
  <2>5. k * a + s < k * p + s
    BY <2>3, <2>4
  <2>6. QED
    BY <2>2, <2>5
<1>3. f \in [D -> S]
  BY <1>2
<1>4. \A a, b \in D : f[a] = f[b] => a = b
  <2>1. SUFFICES ASSUME NEW a \in D, NEW b \in D, f[a] = f[b] PROVE a = b
    OBVIOUS
  <2>2. k * a + s = k * b + s
    BY <2>1
  <2>3. a \in Int /\ b \in Int
    OBVIOUS
  <2>4. QED
    BY <2>2, <2>3, OneDivision
<1>5. \A q \in S : \E a \in D : f[a] = q
  <2>1. SUFFICES ASSUME NEW q \in S PROVE \E a \in D : f[a] = q
    OBVIOUS
  <2>2. q \in Nat /\ q % k = s /\ q < k * p + s
    OBVIOUS
  <2>3. PICK a \in Int : q = k * a + s
    <3>1. q \in Int
      BY <2>2
    <3>2. q \div k \in Int /\ q = k * (q \div k) + (q % k)
      BY <3>1, Division
    <3>3. QED
      BY <2>2, <3>2
  <2>4. a < 0 => k * a + k <= k * 0
    BY Larger
  <2>5. p <= a => k * p <= k * a
    <3>1. p < a => k * p + k <= k * a
      BY Larger
    <3>2. k * p \in Int /\ k * a \in Int
      OBVIOUS
    <3>3. CASE p = a
      BY <3>2, <3>3
    <3>4. CASE p < a
      BY <3>1, <3>2, <3>4
    <3>5. QED
      BY <3>3, <3>4
  <2>6. PICK x \in Int : x = k * a
    OBVIOUS
  <2>7. PICK y \in Int : y = k * p
    OBVIOUS
  <2>8. q = x + s /\ q < y + s /\ (a < 0 => x + k <= 0) /\ (p <= a => y <= x)
    BY <2>2, <2>3, <2>4, <2>5, <2>6, <2>7
  <2>9. a \in D
    BY <2>2, <2>8
  <2>10. QED
    BY <2>3, <2>9
<1> HIDE DEF f, D
<1>6. QED
  BY <1>1, <1>3, <1>4, <1>5, CountBijection

\* Placed by slot, a rank has its quotient by the ranks on a host as host and
\* the remainder as number there.
LEMMA BySlot ==
  ASSUME NEW n \in Nat \ {0}, NEW l \in Nat \ {0}, NEW host, host = BlockPlacement(n, l),
         NEW r \in DOMAIN host
  PROVE  /\ r \in Nat /\ host[r] = r \div l /\ r \div l \in 0..n - 1 /\ r % l \in 0..l - 1
         /\ r = l * (r \div l) + (r % l)
         /\ Cardinality(OnHost(host, r)) = l
         /\ LocalId(host, r) = r % l
<1>1. DOMAIN host = 0..n * l - 1 /\ \A q \in 0..n * l - 1 : host[q] = q \div l
  BY DEF BlockPlacement
<1>2. n * l \in Nat /\ n * l = l * n
  OBVIOUS
<1>3. \A q \in 0..n * l - 1 : q \in Nat /\ q \in Int /\ q < n * l
  BY <1>2
<1>4. \A q \in 0..n * l - 1 : q \div l \in 0..n - 1
  BY Quotients
<1>5. \A q \in 0..n * l - 1 : q \div l \in Int /\ q % l \in 0..l - 1 /\ q = l * (q \div l) + (q % l)
  BY <1>3, Division
<1>6. PICK a \in 0..n - 1 : a = r \div l
  BY <1>1, <1>4
<1>7. PICK i \in 0..l - 1 : i = r % l
  BY <1>1, <1>5
<1>8. PICK x \in Nat : x = l * a
  OBVIOUS
<1>9. r = x + i /\ r \in Nat
  BY <1>1, <1>3, <1>5, <1>6, <1>7, <1>8
<1>10. x + l <= n * l
  <2>1. a + 1 <= n /\ a \in Int /\ n \in Int
    OBVIOUS
  <2>2. PICK d \in Nat : n = a + 1 + d
    <3>1. n - a - 1 \in Nat /\ n = a + 1 + (n - a - 1)
      BY <2>1
    <3>2. QED
      BY <3>1
  <2>3. l * n = l * a + l + l * d /\ l * d \in Nat /\ l * a \in Nat
    BY <2>2
  <2>4. QED
    BY <1>2, <1>8, <2>3
<1>11. \A q : q \in OnHost(host, r) <=> q \in Int /\ x <= q /\ q <= x + l - 1
  <2>1. ASSUME NEW q, q \in Int, x <= q, q <= x + l - 1
        PROVE  q \in DOMAIN host /\ host[q] = a
    <3>1. q \in 0..n * l - 1
      BY <1>2, <1>10, <2>1
    <3>2. PICK t \in 0..l - 1 : q = x + t
      <4>1. q - x \in 0..l - 1 /\ q = x + (q - x)
        BY <2>1
      <4>2. QED
        BY <4>1
    <3>3. (l * a + t) \div l = a
      BY Divided
    <3>4. QED
      BY <1>1, <1>8, <3>1, <3>2, <3>3
  <2>2. ASSUME NEW q \in DOMAIN host, host[q] = a
        PROVE  q \in Int /\ x <= q /\ q <= x + l - 1
    <3>1. q \in Int /\ q \div l = a /\ q = l * (q \div l) + (q % l) /\ q % l \in 0..l - 1
      BY <1>1, <1>3, <1>5, <2>2
    <3>2. PICK t \in 0..l - 1 : q = x + t
      BY <1>8, <3>1
    <3>3. QED
      BY <3>1, <3>2
  <2>3. host[r] = a
    BY <1>1, <1>6
  <2>4. \A q : q \in OnHost(host, r) <=> q \in DOMAIN host /\ host[q] = a
    BY <2>3 DEF OnHost
  <2>5. QED
    BY <2>1, <2>2, <2>4
<1>12. Cardinality(OnHost(host, r)) = l
  <2>1. OnHost(host, r) = x..x + l - 1
    <3> DEFINE S == OnHost(host, r)
    <3>1. \A q : q \in S <=> q \in Int /\ x <= q /\ q <= x + l - 1
      BY <1>11
    <3>2. \A q : q \in x..x + l - 1 <=> q \in Int /\ x <= q /\ q <= x + l - 1
      OBVIOUS
    <3> HIDE DEF S
    <3>3. S = x..x + l - 1
      BY <3>1, <3>2
    <3>4. QED
      BY <3>3 DEF S
  <2>2. x \in Int /\ x + l - 1 \in Int
    OBVIOUS
  <2>3. Cardinality(x..x + l - 1) = IF x > x + l - 1 THEN 0 ELSE x + l - 1 - x + 1
    BY <2>2, FS_Interval
  <2>4. QED
    BY <2>1, <2>3
<1>13. LocalId(host, r) = i
  <2>1. {q \in OnHost(host, r) : q < r} = x..r - 1
    BY <1>9, <1>11
  <2>2. x \in Int /\ r - 1 \in Int
    BY <1>9
  <2>3. Cardinality(x..r - 1) = IF x > r - 1 THEN 0 ELSE r - 1 - x + 1
    BY <2>2, FS_Interval
  <2>4. Cardinality(x..r - 1) = i
    BY <1>9, <2>3
  <2>5. QED
    BY <2>1, <2>4 DEF LocalId, Below
<1>14. QED
  BY <1>1, <1>3, <1>4, <1>5, <1>7, <1>12, <1>13

\* Placed by node, the remainder by the number of hosts is the host and the
\* quotient the number there.
LEMMA ByNode ==
  ASSUME NEW n \in Nat \ {0}, NEW l \in Nat \ {0}, NEW host, host = CyclicPlacement(n, l),
         NEW r \in DOMAIN host
  PROVE  /\ r \in Nat /\ host[r] = r % n /\ r % n \in 0..n - 1 /\ r \div n \in 0..l - 1
         /\ r = n * (r \div n) + (r % n)
         /\ Cardinality(OnHost(host, r)) = l
         /\ LocalId(host, r) = r \div n
<1>1. DOMAIN host = 0..n * l - 1 /\ \A q \in 0..n * l - 1 : host[q] = q % n
  BY DEF CyclicPlacement
<1>2. n * l \in Nat /\ n * l = l * n
  OBVIOUS
<1>3. \A q \in 0..n * l - 1 : q \in Nat /\ q \in Int /\ q < n * l
  BY <1>2
<1>4. \A q \in 0..n * l - 1 : q \div n \in 0..l - 1
  <2>1. \A q \in 0..l * n - 1 : q \div n \in 0..l - 1
    BY Quotients
  <2>2. QED
    BY <1>2, <2>1
<1>5. \A q \in 0..n * l - 1 : q \div n \in Int /\ q % n \in 0..n - 1 /\ q = n * (q \div n) + (q % n)
  BY <1>3, Division
<1>6. PICK a \in 0..l - 1 : a = r \div n
  BY <1>1, <1>4
<1>7. PICK h \in 0..n - 1 : h = r % n
  BY <1>1, <1>5
<1>8. host[r] = h
  BY <1>1, <1>7
<1>9. r = n * a + h /\ r \in Nat
  BY <1>1, <1>3, <1>5, <1>6, <1>7
<1>10. \A q : q \in OnHost(host, r) <=> q \in 0..n * l - 1 /\ q % n = h
  BY <1>1, <1>8 DEF OnHost
<1>11. Cardinality(OnHost(host, r)) = l
  <2> DEFINE S == OnHost(host, r)
  <2>1. \A q : q \in S <=> q \in Nat /\ q % n = h /\ q < n * l + h
    <3>1. ASSUME NEW q \in Nat, q % n = h, q < n * l + h PROVE q \in 0..n * l - 1
      <4>1. SUFFICES ASSUME q >= n * l PROVE FALSE
        BY <1>2, <3>1
      <4>2. PICK t \in 0..n - 1 : q = n * l + t /\ t < h
        <5>1. q - n * l \in 0..n - 1 /\ q = n * l + (q - n * l) /\ q - n * l < h
          BY <1>2, <3>1, <4>1
        <5>2. QED
          BY <5>1
      <4>3. (n * l + t) % n = t
        BY Divided
      <4>4. QED
        BY <3>1, <4>2, <4>3
    <3>2. ASSUME NEW q \in 0..n * l - 1, q % n = h PROVE q \in Nat /\ q < n * l + h
      BY <1>2, <1>3, <3>2
    <3>3. QED
      BY <1>10, <3>1, <3>2
  <2> HIDE DEF S
  <2>2. Cardinality(S) = l
    <3>1. l \in Nat
      OBVIOUS
    <3>2. QED
      BY <2>1, <3>1, Stride
  <2>3. QED
    BY <2>2 DEF S
<1>12. LocalId(host, r) = a
  <2> DEFINE S == {q \in OnHost(host, r) : q < r}
  <2>1. \A q : q \in S <=> q \in Nat /\ q % n = h /\ q < n * a + h
    <3>1. r < n * l
      BY <1>1, <1>3
    <3>2. \A q \in Nat : q < r => q \in 0..n * l - 1
      BY <1>2, <1>9, <3>1
    <3>3. QED
      BY <1>3, <1>9, <1>10, <3>2
  <2> HIDE DEF S
  <2>2. Cardinality(S) = a
    <3>1. a \in Nat
      OBVIOUS
    <3>2. QED
      BY <2>1, <3>1, Stride
  <2>3. QED
    BY <2>2 DEF S, LocalId, Below
<1>13. QED
  BY <1>1, <1>3, <1>4, <1>5, <1>6, <1>11, <1>12

\* Both placements are orderly.
LEMMA PlacementsOrderly ==
  ASSUME NEW n \in Nat \ {0}, NEW l \in Nat \ {0}
  PROVE  Orderly(BlockPlacement(n, l)) /\ Orderly(CyclicPlacement(n, l))
<1>1. n * l \in Nat \ {0}
  <2>1. l * 0 + l <= l * n
    BY Larger
  <2>2. l * 0 = 0 /\ l * n = n * l /\ n * l \in Int
    OBVIOUS
  <2>3. QED
    BY <2>1, <2>2
<1>2. Orderly(BlockPlacement(n, l))
  <2>1. PICK host : host = BlockPlacement(n, l)
    OBVIOUS
  <2>2. DOMAIN host = 0..n * l - 1
    BY <2>1 DEF BlockPlacement
  <2>3. \A r \in DOMAIN host : Cardinality(OnHost(host, r)) = l
    BY <2>1, BySlot
  <2>4. ASSUME NEW r \in DOMAIN host
        PROVE  r \in Int /\ host[r] \in Int /\ LocalId(host, r) \in Int /\ r = l * host[r] + LocalId(host, r)
    BY <2>1, BySlot
  <2>5. ASSUME NEW r \in DOMAIN host, NEW q \in DOMAIN host, NEW s \in DOMAIN host, NEW t \in DOMAIN host,
               host[r] = host[s], host[q] = host[t],
               LocalId(host, r) = LocalId(host, q), LocalId(host, s) = LocalId(host, t)
        PROVE  r < q <=> s < t
    <3>1. PICK a \in Int : a = l * host[r]
      BY <2>4
    <3>2. PICK b \in Int : b = l * host[q]
      BY <2>4
    <3>3. PICK i \in Int : i = LocalId(host, r)
      BY <2>4
    <3>4. PICK j \in Int : j = LocalId(host, s)
      BY <2>4
    <3>5. r = a + i /\ q = b + i /\ s = a + j /\ t = b + j
      BY <2>4, <2>5, <3>1, <3>2, <3>3, <3>4
    <3>6. QED
      BY <3>5
  <2>6. Orderly(host)
    BY <1>1, <2>2, <2>3, <2>5 DEF Orderly
  <2>7. QED
    BY <2>1, <2>6
<1>3. Orderly(CyclicPlacement(n, l))
  <2>1. PICK host : host = CyclicPlacement(n, l)
    OBVIOUS
  <2>2. DOMAIN host = 0..n * l - 1
    BY <2>1 DEF CyclicPlacement
  <2>3. \A r \in DOMAIN host : Cardinality(OnHost(host, r)) = l
    BY <2>1, ByNode
  <2>4. ASSUME NEW r \in DOMAIN host
        PROVE  r \in Int /\ host[r] \in Int /\ LocalId(host, r) \in Int /\ r = n * LocalId(host, r) + host[r]
    BY <2>1, ByNode
  <2>5. ASSUME NEW r \in DOMAIN host, NEW q \in DOMAIN host, NEW s \in DOMAIN host, NEW t \in DOMAIN host,
               host[r] = host[s], host[q] = host[t],
               LocalId(host, r) = LocalId(host, q), LocalId(host, s) = LocalId(host, t)
        PROVE  r < q <=> s < t
    <3>1. PICK a \in Int : a = n * LocalId(host, r)
      BY <2>4
    <3>2. PICK b \in Int : b = n * LocalId(host, s)
      BY <2>4
    <3>3. PICK g \in Int : g = host[r]
      BY <2>4
    <3>4. PICK h \in Int : h = host[q]
      BY <2>4
    <3>5. r = a + g /\ q = a + h /\ s = b + g /\ t = b + h
      BY <2>4, <2>5, <3>1, <3>2, <3>3, <3>4
    <3>6. QED
      BY <3>5
  <2>6. Orderly(host)
    BY <1>1, <2>2, <2>3, <2>5 DEF Orderly
  <2>7. QED
    BY <2>1, <2>6
<1>4. QED
  BY <1>2, <1>3

\* Layouts of programs that mpirun places by slot, and by node.
PlacedBySlot(l) == \E n, k \in Nat \ {0} : l = LayoutOf(BlockPlacement(n, k))
PlacedByNode(l) == \E n, k \in Nat \ {0} : l = LayoutOf(CyclicPlacement(n, k))
RegularPlacements == \A l \in Layouts : PlacedBySlot(l) \/ PlacedByNode(l)

\* Placed by slot, ranks of a node are consecutive: nl_to_rank is right.
LEMMA SlotsAreBlocks ==
  ASSUME NEW m, PlacedBySlot(m)
  PROVE  Block(m)
<1>1. PICK n \in Nat \ {0}, l \in Nat \ {0} : m = LayoutOf(BlockPlacement(n, l))
  BY DEF PlacedBySlot
<1>2. PICK host : host = BlockPlacement(n, l)
  OBVIOUS
<1>3. Orderly(host)
  BY <1>2, PlacementsOrderly
<1>4. RanksOf(m) = DOMAIN host
  BY <1>1, <1>2, <1>3, OrderlyGrid
<1>5. 0 \in DOMAIN host /\ \A q \in DOMAIN host : q \in Nat
  BY <1>3 DEF Orderly
<1>6. m.local_size = l
  <2>1. PICK z \in DOMAIN host : z = 0
    BY <1>5
  <2>2. Cardinality(OnHost(host, z)) = l
    BY <1>2, BySlot
  <2>3. LayoutOf(host).local_size = Cardinality(OnHost(host, 0))
    BY <1>5, <2>1, LayoutFields
  <2>4. QED
    BY <1>1, <1>2, <2>1, <2>2, <2>3
<1>7. ASSUME NEW r \in DOMAIN host PROVE r = nl_to_rank(m, m.node_id[r], m.local_id[r])
  <2>1. /\ r \in Nat /\ r \div l \in 0..n - 1 /\ r % l \in 0..l - 1 /\ r = l * (r \div l) + (r % l)
        /\ LocalId(host, r) = r % l
    BY <1>2, BySlot
  <2>2. m.local_id[r] = r % l /\ m.node_id[r] = Below(r, Column(host, r))
    BY <1>1, <1>2, <2>1, LayoutFields
  <2>3. PICK a \in Nat : a = r \div l
    BY <2>1
  <2>4. PICK i \in 0..l - 1 : i = r % l
    BY <2>1
  <2> DEFINE S == {q \in Column(host, r) : q < r}
  <2>5. \A q : q \in S <=> q \in Nat /\ q % l = i /\ q < l * a + i
    <3>1. \A q \in DOMAIN host : LocalId(host, q) = q % l
      BY <1>2, BySlot
    <3>2. \A q : q \in Column(host, r) <=> q \in DOMAIN host /\ q % l = i
      BY <2>1, <2>4, <3>1 DEF Column
    <3>3. \A q \in Nat : q < r => q \in DOMAIN host
      BY <1>3 DEF Orderly
    <3>4. r = l * a + i
      BY <2>1, <2>3, <2>4
    <3>5. QED
      BY <1>5, <3>2, <3>3, <3>4
  <2> HIDE DEF S
  <2>6. Cardinality(S) = a
    BY <2>5, Stride
  <2>7. m.node_id[r] = a
    BY <2>2, <2>6 DEF S, Below
  <2>8. r = a * l + i
    BY <2>1, <2>3, <2>4
  <2>9. QED
    BY <1>6, <2>2, <2>4, <2>7, <2>8 DEF nl_to_rank
<1>8. QED
  BY <1>4, <1>7 DEF Block

\* A program placed by slot or by node has a grid for a layout, whatever the
\* numbers of nodes and of ranks on a node.
THEOREM RegularGrids ==
  ASSUME RegularPlacements
  PROVE  GridLayouts
<1>1. SUFFICES ASSUME NEW l \in Layouts PROVE Grid(l)
  BY DEF GridLayouts
<1>2. PICK host : l = LayoutOf(host) /\ Orderly(host)
  BY PlacementsOrderly DEF RegularPlacements, PlacedBySlot, PlacedByNode
<1>3. QED
  BY <1>2, OrderlyGrid

\* The layout of a running program is a grid.
THEOREM LayoutIsGrid ==
  ASSUME RegularPlacements
  PROVE  RouteSpec => []GridLayout
<1>1. GridLayouts
  BY RegularGrids
<1>2. RouteInv => GridLayout
  BY <1>1 DEF RouteInv, GridLayouts, GridLayout
<1>3. QED
  BY <1>1, <1>2, RouteInvariant, PTL

\* On programs placed by slot a broadcast executes its function once on every
\* rank, whatever the numbers of nodes and of ranks on a node.
THEOREM BroadcastBySlot ==
  ASSUME \A l \in Layouts : PlacedBySlot(l)
  PROVE  BcastSpec => []BcastExactlyOnce
<1>1. GridLayouts
  BY RegularGrids DEF RegularPlacements
<1>2. \A l \in Layouts : Block(l)
  BY SlotsAreBlocks
<1>3. QED
  BY <1>1, <1>2, BroadcastExact

-----------------------------------------------------------------------------
(***************************************************************************)
(* The blocks of indices of BlockPartitioner.  An index lies in the block  *)
(* of its owner because quotient and remainder are unique, for the sizes   *)
(* of the large blocks at the start and, counted from their end, of the    *)
(* small ones.                                                             *)
(***************************************************************************)
CONSTANT NumRanks

Blocks == INSTANCE BlockPartitioner

\* Of the numbers less than n times k the quotients are less than n.
LEMMA QuotientBelow ==
  ASSUME NEW k \in Nat \ {0}, NEW n \in Nat, NEW j \in Nat, j < k * n
  PROVE  j \div k \in 0..n - 1
<1>1. PICK q \in Int, t \in 0..k - 1 : j = k * q + t /\ q = j \div k
  <2>1. j \div k \in Int /\ j % k \in 0..k - 1 /\ j = k * (j \div k) + (j % k)
    BY Division
  <2>2. QED
    BY <2>1
<1>2. PICK x \in Int : x = k * q
  OBVIOUS
<1>3. q >= 0
  <2>1. q < 0 => k * q + k <= k * 0
    BY Larger
  <2>2. k * 0 = 0
    OBVIOUS
  <2>3. QED
    BY <1>1, <1>2, <2>1, <2>2
<1>4. q < n
  <2>1. PICK y \in Int : y = k * n
    OBVIOUS
  <2>2. n < q => y + k <= x
    BY <1>2, <2>1, Larger
  <2>3. n = q => y = x
    BY <1>2, <2>1
  <2>4. x <= j /\ j < y
    BY <1>1, <1>2, <2>1
  <2>5. QED
    BY <2>2, <2>3, <2>4
<1>5. QED
  BY <1>1, <1>3, <1>4

\* A number is in one block of k numbers, that of its quotient.
LEMMA OneBlock ==
  ASSUME NEW k \in Nat \ {0}, NEW j \in Nat, NEW p \in Int
  PROVE  j - p * k \in 0..k - 1 <=> p = j \div k
<1>1. PICK q \in Int, t \in 0..k - 1 : j = k * q + t /\ q = j \div k
  <2>1. j \div k \in Int /\ j % k \in 0..k - 1 /\ j = k * (j \div k) + (j % k)
    BY Division
  <2>2. QED
    BY <2>1
<1>2. PICK x \in Int, y \in Int : x = k * q /\ y = k * p /\ y = p * k
  OBVIOUS
<1>3. ASSUME j - y \in 0..k - 1 PROVE p = q
  <2>1. PICK u \in 0..k - 1 : u = j - y
    BY <1>3
  <2>2. k * p + u = k * q + t
    BY <1>1, <1>2, <2>1
  <2>3. QED
    BY <2>2, OneDivision
<1>4. p = q => j - y = t
  BY <1>1, <1>2
<1>5. QED
  BY <1>1, <1>2, <1>3, <1>4

\* The first l blocks have s + 1 indices, the others s.
Sized(g, s, l) ==
  /\ s \in Nat /\ l \in 0..NumRanks - 1 /\ g = NumRanks * s + l
  /\ Blocks!SmallBlock(g) = s /\ Blocks!NumLarge(g) = l
  /\ Blocks!LargeBlock(g) = IF l > 0 THEN s + 1 ELSE s

LEMMA BlockSizes ==
  ASSUME NumRanks \in Nat \ {0}, NEW g \in Nat
  PROVE  \E s, l : Sized(g, s, l)
<1>1. PICK s \in Int, l \in 0..NumRanks - 1 : g = NumRanks * s + l /\ s = g \div NumRanks /\ l = g % NumRanks
  <2>1. /\ g \div NumRanks \in Int /\ g % NumRanks \in 0..NumRanks - 1
        /\ g = NumRanks * (g \div NumRanks) + (g % NumRanks)
    BY Division
  <2>2. QED
    BY <2>1
<1>2. s >= 0
  <2>1. s < 0 => NumRanks * s + NumRanks <= NumRanks * 0
    BY <1>1, Larger
  <2>2. PICK x \in Int : x = NumRanks * s
    BY <1>1
  <2>3. NumRanks * 0 = 0
    OBVIOUS
  <2>4. QED
    BY <1>1, <2>1, <2>2, <2>3
<1>3. Sized(g, s, l)
  BY <1>1, <1>2 DEF Sized, Blocks!SmallBlock, Blocks!NumLarge, Blocks!LargeBlock
<1>4. QED
  BY <1>3

\* Where index i of an array of size g is.
Placed(g, i) ==
  /\ Blocks!Owned(g, i) /\ Blocks!OwnerOf(g, i) \in Blocks!World
  /\ \A r \in Blocks!World : Blocks!IsLocal(g, r, i) <=> r = Blocks!OwnerOf(g, i)

\* i is in one of the large blocks ...
LEMMA InLarge ==
  ASSUME NumRanks \in Nat \ {0}, NEW g \in Nat, NEW s, NEW l, Sized(g, s, l), NEW i \in 0..g - 1, i < l * (s + 1)
  PROVE  Placed(g, i)
<1> DEFINE big == s + 1
<1>1. s \in Nat /\ l \in 0..NumRanks - 1 /\ big \in Nat \ {0} /\ l # 0 /\ i \in Nat
  <2>1. s \in Nat /\ l \in 0..NumRanks - 1
    BY DEF Sized
  <2>2. l = 0 => l * (s + 1) = 0
    BY <2>1
  <2>3. QED
    BY <2>1, <2>2
<1>2. /\ Blocks!SmallBlock(g) = s /\ Blocks!NumLarge(g) = l /\ Blocks!LargeBlock(g) = big
  BY <1>1 DEF Sized
<1> HIDE DEF big
<1>3. i < l * big
  BY DEF big
<1>4. Blocks!OwnerOf(g, i) = i \div big /\ Blocks!Owned(g, i)
  BY <1>2, <1>3 DEF Blocks!OwnerOf, Blocks!Owned
<1>5. i \div big \in 0..l - 1
  <2>1. l \in Nat /\ i < big * l
    BY <1>1, <1>3
  <2>2. QED
    BY <1>1, <2>1, QuotientBelow
<1>6. ASSUME NEW r \in 0..NumRanks - 1 PROVE Blocks!IsLocal(g, r, i) <=> r = i \div big
  <2>1. CASE r < l
    <3>1. Blocks!LocalStart(g, r) = r * big /\ Blocks!LocalSize(g, r) = big
      BY <1>1, <1>2, <2>1 DEF Blocks!LocalStart, Blocks!LocalSize, big
    <3>2. i - r * big \in 0..big - 1 <=> r = i \div big
      BY <1>1, OneBlock
    <3>3. QED
      BY <3>1, <3>2 DEF Blocks!IsLocal, Blocks!LocalIndex
  <2>2. CASE ~(r < l)
    <3>1. Blocks!LocalStart(g, r) = l * big + (r - l) * s
      BY <1>2, <2>2 DEF Blocks!LocalStart
    <3>2. PICK x \in Int, y \in Nat : x = l * big /\ y = (r - l) * s
      <4>1. r - l \in Nat /\ s \in Nat
        BY <1>1, <2>2
      <4>2. PICK n \in Nat : n = r - l
        BY <4>1
      <4>3. n * s \in Nat /\ l * big \in Int
        BY <1>1, <4>1
      <4>4. QED
        BY <4>2, <4>3
    <3>3. ~Blocks!IsLocal(g, r, i)
      <4>1. i - (x + y) < 0
        BY <1>1, <1>3, <3>2
      <4>2. Blocks!LocalIndex(g, r, i) < 0
        BY <3>1, <3>2, <4>1 DEF Blocks!LocalIndex
      <4>3. QED
        BY <4>2 DEF Blocks!IsLocal
    <3>4. r # i \div big
      BY <1>1, <1>5, <2>2
    <3>5. QED
      BY <3>3, <3>4
  <2>3. QED
    BY <2>1, <2>2
<1>7. i \div big \in 0..NumRanks - 1
  BY <1>1, <1>5
<1>8. QED
  BY <1>4, <1>6, <1>7 DEF Placed, Blocks!World

\* ... or after them.
LEMMA InSmall ==
  ASSUME NumRanks \in Nat \ {0}, NEW g \in Nat, NEW s, NEW l, Sized(g, s, l), NEW i \in 0..g - 1, ~(i < l * (s + 1))
  PROVE  Placed(g, i)
<1> DEFINE start == l * (s + 1)
<1>1. /\ s \in Nat /\ l \in 0..NumRanks - 1 /\ i \in Nat /\ g = NumRanks * s + l
      /\ Blocks!SmallBlock(g) = s /\ Blocks!NumLarge(g) = l
      /\ l > 0 => Blocks!LargeBlock(g) = s + 1
  BY DEF Sized
<1>2. start \in Nat /\ Blocks!NumLarge(g) * Blocks!LargeBlock(g) = start
  <2>1. CASE l > 0
    BY <1>1, <2>1
  <2>2. CASE l = 0
    BY <1>1, <2>2 DEF Blocks!LargeBlock
  <2>3. QED
    BY <1>1, <2>1, <2>2
<1>3. PICK n \in Nat : n = NumRanks - l
  BY <1>1
<1>4. g = start + s * n
  <2>1. NumRanks * s = s * n + l * s
    BY <1>1, <1>3
  <2>2. start = l * s + l
    BY <1>1
  <2>3. PICK x \in Int, y \in Int : x = s * n /\ y = l * s
    BY <1>1
  <2>4. NumRanks * s = x + y /\ start = y + l
    BY <2>1, <2>2, <2>3
  <2> HIDE DEF start
  <2>5. g = x + y + l
    BY <1>1, <2>4
  <2>6. QED
    BY <1>1, <2>3, <2>4, <2>5
<1>5. ~(i < start)
  OBVIOUS
<1> HIDE DEF start
<1>6. PICK j \in Nat : j = i - start
  BY <1>1, <1>2, <1>5
<1>7. j < s * n
  <2>1. PICK x \in Int : x = s * n
    BY <1>1
  <2>2. i < g
    OBVIOUS
  <2>3. QED
    BY <1>1, <1>2, <1>4, <1>6, <2>1, <2>2
<1>8. s \in Nat \ {0}
  <2>1. s = 0 => s * n = 0
    BY <1>3
  <2>2. QED
    BY <1>1, <1>7, <2>1
<1>9. PICK p \in 0..n - 1 : p = j \div s
  BY <1>7, <1>8, QuotientBelow
<1>10. Blocks!OwnerOf(g, i) = l + p /\ Blocks!Owned(g, i)
  <2>1. Blocks!OwnerOf(g, i) = l + (i - start) \div s
    BY <1>1, <1>2, <1>5 DEF Blocks!OwnerOf
  <2>2. Blocks!Owned(g, i)
    BY <1>1, <1>8 DEF Blocks!Owned
  <2>3. QED
    BY <1>6, <1>9, <2>1, <2>2
<1>11. ASSUME NEW r \in 0..NumRanks - 1 PROVE Blocks!IsLocal(g, r, i) <=> r = l + p
  <2>1. CASE r < l
    <3>1. Blocks!LocalStart(g, r) = r * (s + 1) /\ Blocks!LocalSize(g, r) = s + 1
      BY <1>1, <2>1 DEF Blocks!LocalStart, Blocks!LocalSize
    <3>2. PICK big \in Nat \ {0} : big = s + 1
      BY <1>1
    <3>3. big * r + big <= big * l
      BY <1>1, <2>1, Larger
    <3>4. PICK x \in Int : x = r * big
      OBVIOUS
    <3>5. x = big * r /\ big * l = start
      BY <1>1, <3>2, <3>4 DEF start
    <3>6. x + big <= i
      BY <1>1, <1>2, <1>5, <3>3, <3>5
    <3>7. ~(i - x \in 0..big - 1)
      BY <1>1, <3>2, <3>6
    <3>8. ~Blocks!IsLocal(g, r, i)
      BY <3>1, <3>2, <3>4, <3>7 DEF Blocks!IsLocal, Blocks!LocalIndex
    <3>9. r # l + p
      BY <1>1, <2>1
    <3>10. QED
      BY <3>8, <3>9
  <2>2. CASE ~(r < l)
    <3>1. PICK d \in Int : d = r - l
      BY <1>1
    <3>2. Blocks!LocalStart(g, r) = start + d * s /\ Blocks!LocalSize(g, r) = s
      BY <1>1, <1>2, <2>2, <3>1 DEF Blocks!LocalStart, Blocks!LocalSize
    <3>3. PICK x \in Int : x = d * s
      BY <1>1
    <3>4. i - (start + x) = j - x
      BY <1>1, <1>2, <1>6
    <3>5. j - x \in 0..s - 1 <=> d = j \div s
      BY <1>8, <3>3, OneBlock
    <3>6. Blocks!IsLocal(g, r, i) <=> d = p
      BY <1>9, <3>2, <3>3, <3>4, <3>5 DEF Blocks!IsLocal, Blocks!LocalIndex
    <3>7. QED
      BY <1>1, <3>1, <3>6
  <2>3. QED
    BY <2>1, <2>2
<1>12. l + p \in 0..NumRanks - 1
  BY <1>1, <1>3, <1>9
<1>13. QED
  BY <1>10, <1>11, <1>12 DEF Placed, Blocks!World

\* Owner and index functions of block_partitioner are inverse, and its
\* assertions hold, for arrays of any size and any number of ranks.
THEOREM BlocksPartition == ASSUME NumRanks \in Nat \ {0} PROVE \A max \in Nat : Blocks!PartitionsUpTo(max)
<1> SUFFICES ASSUME NEW max \in Nat, NEW g \in 0..max, NEW i \in 0..max - 1, i < g
             PROVE  /\ Placed(g, i)
                    /\ Blocks!GlobalIndex(g, Blocks!OwnerOf(g, i), Blocks!LocalIndex(g, Blocks!OwnerOf(g, i), i)) = i
  BY DEF Placed, Blocks!PartitionsUpTo
<1>1. g \in Nat /\ i \in 0..g - 1
  OBVIOUS
<1>2. PICK s, l : Sized(g, s, l)
  BY <1>1, BlockSizes
<1>3. Placed(g, i)
  BY <1>1, <1>2, InLarge, InSmall
<1>4. Blocks!GlobalIndex(g, Blocks!OwnerOf(g, i), Blocks!LocalIndex(g, Blocks!OwnerOf(g, i), i)) = i
  <2>1. PICK r \in Blocks!World : r = Blocks!OwnerOf(g, i)
    BY <1>3 DEF Placed
  <2>2. Blocks!IsLocal(g, r, i)
    BY <1>3, <2>1 DEF Placed
  <2>3. PICK b : b = Blocks!LocalStart(g, r)
    OBVIOUS
  <2>4. b \in Int
    <3>1. s \in Nat /\ l \in Nat /\ r \in Int /\ Blocks!LargeBlock(g) \in Int
      BY <1>2, <2>1 DEF Sized, Blocks!World
    <3>2. b = IF r < l THEN r * Blocks!LargeBlock(g) ELSE l * Blocks!LargeBlock(g) + (r - l) * s
      BY <1>2, <2>3 DEF Sized, Blocks!LocalStart
    <3>3. QED
      BY <3>1, <3>2
  <2>5. Blocks!GlobalIndex(g, r, Blocks!LocalIndex(g, r, i)) = b + (i - b)
    BY <2>3 DEF Blocks!GlobalIndex, Blocks!LocalIndex
  <2>6. QED
    BY <2>1, <2>4, <2>5
<1>5. QED
  BY <1>3, <1>4

\* rebalance() of a bag with as many items as ranks or more computes the rank
\* that holds the number of an item in an array.
THEOREM BagsSpreadAsArrays ==
  ASSUME NumRanks \in Nat \ {0}
  PROVE  \A max \in Nat : Blocks!TargetsAreOwners(max)
<1> SUFFICES ASSUME NEW max \in Nat, NEW g \in NumRanks..max, NEW i \in 0..max - 1, i < g
             PROVE  Blocks!TargetRank(g, i) = Blocks!OwnerOf(g, i)
  BY DEF Blocks!TargetsAreOwners
<1>1. g \in Nat /\ i \in Nat
  OBVIOUS
<1>2. PICK s, l : Sized(g, s, l)
  BY <1>1, BlockSizes
<1>3. /\ s \in Nat /\ l \in 0..NumRanks - 1 /\ g = NumRanks * s + l
      /\ g \div NumRanks = s /\ g % NumRanks = l
  BY <1>2 DEF Sized, Blocks!SmallBlock, Blocks!NumLarge
<1>4. s > 0
  <2>1. s = 0 => NumRanks * s = 0
    OBVIOUS
  <2>2. QED
    BY <1>3, <2>1
<1>5. Blocks!SmallBlockSize(g) = s /\ Blocks!LargeBlockSize(g) = s + 1
  BY <1>3, <1>4 DEF Blocks!SmallBlockSize, Blocks!LargeBlockSize
<1>6. PICK x \in Nat : x = l * (s + 1)
  BY <1>3
<1>7. Blocks!TargetRank(g, i) = IF i < x THEN i \div (s + 1) ELSE l + (i - x) \div s
  BY <1>3, <1>5, <1>6 DEF Blocks!TargetRank
<1>8. Blocks!NumLarge(g) = l /\ Blocks!SmallBlock(g) = s /\ Blocks!LargeBlock(g) = IF l > 0 THEN s + 1 ELSE s
  BY <1>2 DEF Sized
<1>9. CASE l > 0
  <2>1. Blocks!OwnerOf(g, i) = IF i < x THEN i \div (s + 1) ELSE l + (i - x) \div s
    BY <1>6, <1>8, <1>9 DEF Blocks!OwnerOf
  <2>2. QED
    BY <1>7, <2>1
<1>10. CASE l = 0
  <2>1. x = 0 /\ l * s = 0
    BY <1>3, <1>6, <1>10
  <2>2. Blocks!OwnerOf(g, i) = IF i < l * s THEN i \div s ELSE l + (i - l * s) \div s
    BY <1>8, <1>10 DEF Blocks!OwnerOf
  <2>3. QED
    BY <1>1, <1>7, <2>1, <2>2
<1>11. QED
  BY <1>3, <1>9, <1>10

-----------------------------------------------------------------------------
(***************************************************************************)
(* The ranges of ByteRanges.  A line is read in the turn in which its last *)
(* preceding byte is dealt, or its first one if it begins the file.        *)
(***************************************************************************)
Bytes == INSTANCE ByteRanges

\* All bytes are dealt.
LEMMA AllDealt ==
  ASSUME NEW ranks \in Nat \ {0}, NEW min \in Nat, NEW total \in Nat
  PROVE  /\ Bytes!BytesPerRank(total, ranks, min) \in Nat \ {0}
         /\ total < Bytes!BytesPerRank(total, ranks, min) * ranks
<1>1. PICK q \in Int, o \in 0..ranks - 1 : total = ranks * q + o /\ q = total \div ranks
  <2>1. total \div ranks \in Int /\ total % ranks \in 0..ranks - 1 /\ total = ranks * (total \div ranks) + (total % ranks)
    BY Division
  <2>2. QED
    BY <2>1
<1>2. PICK n \in Int : n = Bytes!BytesPerRank(total, ranks, min)
  <2>1. Bytes!BytesPerRank(total, ranks, min) = IF q + 1 < min THEN min ELSE q + 1
    BY <1>1 DEF Bytes!BytesPerRank, Bytes!Larger
  <2>2. q + 1 \in Int /\ min \in Int
    OBVIOUS
  <2>3. QED
    BY <2>1, <2>2
<1>3. n = IF q + 1 < min THEN min ELSE q + 1
  BY <1>1, <1>2 DEF Bytes!BytesPerRank, Bytes!Larger
<1>4. n >= q + 1
  BY <1>3
<1>5. ranks * q + ranks <= ranks * n
  BY <1>4, Larger
<1>6. PICK x \in Int, y \in Int : x = ranks * q /\ y = ranks * n /\ y = n * ranks
  OBVIOUS
<1>7. total < y
  BY <1>1, <1>5, <1>6
<1>8. n > 0
  <2>1. n <= 0 => y <= 0
    <3>1. n < 0 => ranks * n + ranks <= ranks * 0
      BY Larger
    <3>2. n = 0 => y = 0
      BY <1>6
    <3>3. ranks * 0 = 0
      OBVIOUS
    <3>4. QED
      BY <1>6, <3>1, <3>2, <3>3
  <2>2. QED
    BY <1>7, <2>1
<1>9. QED
  BY <1>2, <1>6, <1>7, <1>8

\* Each line of a file is read by one rank, for any sizes of files and any
\* number of ranks.
THEOREM LinesHaveOneReader ==
  ASSUME NEW ranks \in Nat \ {0}, NEW min \in Nat, NEW total \in Nat, NEW before \in Nat, NEW size \in Nat,
         before + size <= total, NEW line \in 0..size - 1
  PROVE  Bytes!OneReader(ranks, min, total, before, size, line)
<1>1. PICK n \in Nat \ {0} : n = Bytes!BytesPerRank(total, ranks, min) /\ total < n * ranks
  BY AllDealt
<1>2. PICK j \in Nat : j = IF line = 0 THEN before ELSE before + line - 1
  OBVIOUS
<1>3. j < n * ranks
  <2>1. PICK x \in Int : x = n * ranks
    OBVIOUS
  <2>2. QED
    BY <1>1, <1>2, <2>1
<1>4. PICK t \in 0..ranks - 1 : t = j \div n
  BY <1>3, QuotientBelow
<1>5. ASSUME NEW u \in 0..ranks - 1
      PROVE  (/\ Bytes!HasRange(u, before, size, n)
              /\ Bytes!ReadsFrom(Bytes!RangeBegin(u, before, n), Bytes!RangeEnd(u, before, size, n), line))
               <=> u = t
  <2>1. PICK x \in Int : x = u * n /\ (u + 1) * n = x + n
    OBVIOUS
  <2>2. j - x \in 0..n - 1 <=> u = t
    BY <1>4, <2>1, OneBlock
  <2>3. /\ Bytes!RangeBegin(u, before, n) = IF 0 < x - before THEN x - before ELSE 0
        /\ Bytes!RangeEnd(u, before, size, n) = IF size < x + n - before THEN size ELSE x + n - before
    BY <2>1 DEF Bytes!RangeBegin, Bytes!RangeEnd, Bytes!Larger, Bytes!Smaller
  <2>4. PICK f \in Int, e \in Int : /\ f = Bytes!RangeBegin(u, before, n) /\ e = Bytes!RangeEnd(u, before, size, n)
                                    /\ f = (IF 0 < x - before THEN x - before ELSE 0)
                                    /\ e = (IF size < x + n - before THEN size ELSE x + n - before)
    <3>1. PICK f \in Int : f = IF 0 < x - before THEN x - before ELSE 0
      OBVIOUS
    <3>2. PICK e \in Int : e = IF size < x + n - before THEN size ELSE x + n - before
      <4>1. PICK y \in Int : y = x + n - before
        OBVIOUS
      <4>2. size \in Int
        OBVIOUS
      <4>3. QED
        BY <4>1, <4>2
    <3>3. f = Bytes!RangeBegin(u, before, n) /\ e = Bytes!RangeEnd(u, before, size, n)
      BY <2>3, <3>1, <3>2
    <3>4. QED
      BY <3>1, <3>2, <3>3
  <2>5. f < e /\ line <= e /\ (f = 0 \/ line > f) <=> j - x \in 0..n - 1
    <3>1. CASE line = 0
      BY <1>2, <2>4, <3>1
    <3>2. CASE line # 0
      BY <1>2, <2>4, <3>2
    <3>3. QED
      BY <3>1, <3>2
  <2>6. QED
    BY <2>2, <2>4, <2>5 DEF Bytes!HasRange, Bytes!ReadsFrom
<1>6. QED
  BY <1>1, <1>4, <1>5 DEF Bytes!OneReader
=============================================================================
