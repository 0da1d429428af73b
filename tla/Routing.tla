------------------------------ MODULE Routing ------------------------------
(***************************************************************************)
(* The way of one message through comm_router (include/ygm/detail/         *)
(* comm_router.hpp): async() hands it to next_hop(dest), and every rank    *)
(* that receives it for another one hands it to its own next_hop(dest)     *)
(* (comm.ipp, handle_next_receive).                                        *)
(***************************************************************************)
EXTENDS Layout, Sequences

VARIABLES
  route,  \* routing_type of the program; "" before the message is sent
  src,    \* the sender
  dest,   \* header_t::dest
  at,     \* the rank that has the message
  trail   \* the hops so far: "local" on a node, "remote" between nodes

routeVars == <<route, src, dest, at, trail>>

RoutingTypes == {"NONE", "NR", "NLNR"}

\* The layout's is_local, seen from rank r.
is_local(r, q) == lay.node_id[r] = lay.node_id[q]

\* Mutant: the channel rank sends to the destination itself.
NextHopDirect(type, r, d) ==
  LET channel == lay.local_ranks[r][(lay.node_id[d] + lay.node_id[r]) % lay.local_size]
      across == lay.strided_ranks[r][lay.node_id[d]]
  IN CASE type = "NONE" \/ is_local(r, d) -> d
       [] type = "NR" /\ ~is_local(r, d) -> across
       [] type = "NLNR" /\ ~is_local(r, d) -> IF r = channel THEN d ELSE channel

\* Mutant: the channel rank hands the message on instead of crossing.
NextHopRound(type, r, d) ==
  LET channel == lay.local_ranks[r][(lay.node_id[d] + lay.local_id[r]) % lay.local_size]
      across == lay.strided_ranks[r][lay.node_id[d]]
  IN CASE type = "NONE" \/ is_local(r, d) -> d
       [] type = "NR" /\ ~is_local(r, d) -> across
       [] type = "NLNR" /\ ~is_local(r, d) -> IF r = channel THEN across ELSE channel

next_hop(type, r, d) ==
  LET channel == lay.local_ranks[r][(lay.node_id[d] + lay.node_id[r]) % lay.local_size]
      across == lay.strided_ranks[r][lay.node_id[d]]
  IN CASE type = "NONE" \/ is_local(r, d) -> d
       [] type = "NR" /\ ~is_local(r, d) -> across
       [] type = "NLNR" /\ ~is_local(r, d) -> IF r = channel THEN across ELSE channel

RouteInit ==
  /\ route = "" /\ src = 0 /\ dest = 0 /\ at = 0 /\ trail = <<>>

\* async(d, ...) on rank s.
SendRouted(type, s, d) ==
  /\ route = ""
  /\ route' = type /\ src' = s /\ dest' = d /\ at' = s
  /\ UNCHANGED <<trail, lay>>

\* A rank executes a message it has received when it is the destination.
Executed == at = dest /\ trail # <<>>

\* Mutant: a rank on the node of the destination keeps the message.
HopAcross ==
  /\ route # "" /\ ~Executed
  /\ ~is_local(at, dest)
  /\ at' = next_hop(route, at, dest)
  /\ trail' = Append(trail, IF is_local(at, at') THEN "local" ELSE "remote")
  /\ UNCHANGED <<route, src, dest, lay>>

\* The message goes to the next hop, also from a rank to itself.
Hop ==
  /\ route # "" /\ ~Executed
  /\ at' = next_hop(route, at, dest)
  /\ trail' = Append(trail, IF is_local(at, at') THEN "local" ELSE "remote")
  /\ UNCHANGED <<route, src, dest, lay>>

RouteNext ==
  \/ \E type \in RoutingTypes, s, d \in RanksOf(lay) : SendRouted(type, s, d)
  \/ Hop

RouteSpec == lay \in Layouts /\ RouteInit /\ [][RouteNext]_<<routeVars, lay>>

-----------------------------------------------------------------------------
\* The assumptions of comm_router.hpp: NONE sends directly; NR makes at most a
\* remote and an on-node hop, NLNR at most an on-node, a remote and an on-node
\* hop, in this order.
Shapes ==
  [NONE |-> {<<>>, <<"local">>, <<"remote">>},
   NR   |-> {<<>>, <<"local">>, <<"remote">>, <<"remote", "local">>},
   NLNR |-> {<<>>, <<"local">>, <<"remote">>, <<"remote", "local">>,
             <<"local", "remote">>, <<"local", "remote", "local">>}]

RouteShape == route # "" => trail \in Shapes[route]

\* The same as a number of hops, whatever nodes are.
HopBound ==
  /\ route = "NONE" => Len(trail) <= 1
  /\ route = "NR" => Len(trail) <= 2
  /\ route = "NLNR" => Len(trail) <= 3

\* Fourth assumption: a pair of ranks on two nodes that NLNR uses, NR uses too.
NLNRUsesNRPairs ==
  [][Hop /\ route = "NLNR" /\ ~is_local(at, at') => at' = next_hop("NR", at, dest)]_routeVars

\* Why RouteShape holds: where the message is after which hops.  An on-node
\* hop away from the destination's node ends at the rank that will cross.
Crosses(r, d) == r = lay.local_ranks[r][(lay.node_id[d] + lay.node_id[r]) % lay.local_size]

Progress ==
  \/ trail = <<>>
  \/ trail \in {<<"local">>, <<"remote">>} /\ route # "" /\ at = dest
  \/ trail = <<"remote">> /\ route # "NONE" /\ is_local(at, dest)
  \/ trail = <<"remote", "local">> /\ route # "NONE" /\ at = dest
  \/ trail = <<"local">> /\ route = "NLNR" /\ ~is_local(at, dest) /\ Crosses(at, dest)
  \/ trail = <<"local", "remote">> /\ route = "NLNR" /\ is_local(at, dest)
  \/ trail = <<"local", "remote", "local">> /\ route = "NLNR" /\ at = dest

RouteInv ==
  /\ lay \in Layouts
  /\ route \in RoutingTypes \cup {""}
  /\ src \in RanksOf(lay) /\ dest \in RanksOf(lay) /\ at \in RanksOf(lay)
  /\ route = "" => trail = <<>>
  /\ Progress

=============================================================================
