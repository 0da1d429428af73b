----------------------------- MODULE MCRouting -----------------------------
(***************************************************************************)
(* Routing and Broadcast for TLC, over layouts computed from placements of *)
(* ranks on hosts.  A behaviour sends one message or one broadcast.        *)
(***************************************************************************)
EXTENDS Routing, Broadcast

CONSTANTS MaxNodes, MaxLocal   \* bounds: hosts, and ranks on each

MachineSizes == {<<n, l>> \in (1..MaxNodes) \X (1..MaxLocal) : n * l > 1}

BlockLayouts == {LayoutOf(BlockPlacement(s[1], s[2])) : s \in MachineSizes}
CyclicLayouts == {LayoutOf(CyclicPlacement(s[1], s[2])) : s \in MachineSizes}
RegularLayouts == BlockLayouts \cup CyclicLayouts

Init == lay \in Layouts /\ RouteInit /\ BcastInit

\* One message, or on a block placement one broadcast.
Next ==
  \/ origin = NoRank /\ RouteNext /\ UNCHANGED bcastVars
  \/ route = "" /\ Block(lay) /\ BcastNext /\ UNCHANGED routeVars

RegularSpec == Init /\ [][Next]_<<lay, routeVars, bcastVars>> /\ WF_routeVars(Hop)

\* One broadcast, whatever the placement.
AnyBcastSpec == Init /\ [][BcastNext /\ UNCHANGED routeVars]_<<lay, routeVars, bcastVars>>

\* Every message arrives and is executed.
Arrives == (route # "") ~> Executed
=============================================================================
