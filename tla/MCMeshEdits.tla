----------------------------- MODULE MCMeshEdits -----------------------------
(* MeshEdits over a kite of four nodes, with the properties that speak of  *)
(* whole paths through the mesh, as topology.py traces them.               *)
EXTENDS MeshEdits, Topology

Both(S) == S \union {<<l[2], l[1]>> : l \in S}

(* A ring of four with one chord: 1 and 4 see each other only over 2 or 3. *)
KiteNodes == 1..4
KiteLinks == Both({<<1, 2>>, <<1, 3>>, <<2, 3>>, <<2, 4>>, <<3, 4>>})
KiteCosts ==
  [l \in KiteLinks |-> [d \in KiteNodes |-> {IF l \in Both({<<1, 3>>}) THEN 3 ELSE 1}]]

NoTime == {0}
OnePenalty == {0}
NoLoad == {[n \in KiteNodes |-> 0]}

-----------------------------------------------------------------------------
Working_nodes == {n \in Nodes : up[n]}
NeighborsOf == [n \in Nodes |-> Neighbors(n, heard)]
NextHops == [n \in Nodes |-> [d \in Nodes |-> route[n][d].next]]

(* The dashboard's report: every two connected nodes have a route, and no  *)
(* entry leads nowhere.                                                    *)
RoutesMatchTopology ==
  LET graph == build_topology_graph(Working_nodes, NeighborsOf)
      trace(p) == trace_route(p[1], p[2], Working_nodes, NeighborsOf, NextHops, MaxHops)
  IN /\ \A p \in Connected(Working_nodes, graph) : trace(p) # <<>>
     /\ invalid_routes(Working_nodes, NeighborsOf, NextHops, MaxHops) = {}

Discovered ==
  /\ ctl.phase = "idle"
  /\ \A n \in Nodes : up[n]
  /\ \A l \in Links : l[2] \in Neighbors(l[1], heard)

(* Between control runs, with the whole mesh working and discovered, the   *)
(* tables the nodes learned one hop at a time match the topology, unless a *)
(* node that took an old name was not heard for its packet numbers.        *)
DiscoveryConverges == Discovered /\ ~muted => RoutesMatchTopology

(* A destination that stays failed or deleted is eventually forgotten by   *)
(* every node, although the survivors may have taken each other's routes   *)
(* to it for good and keep readvertising them.                             *)
DeadDestinationsVanish ==
  \A d \in Nodes : <>[]~up[d] => <>[](\A n \in Nodes : route[n][d] = NoRoute)

(* A fault, an edit or a command: only these start a control run at rest.  *)
Disturbed == ctl.phase = "idle" /\ ctl'.phase = "rounds"

(* When faults, edits and commands stop, the tables settle on the topology *)
(* that is left: loops after a failure, routes over a deleted node and the *)
(* silence of a node that took an old name all end.                        *)
RoutesRecover == <>[][~Disturbed]_editVars => <>[]RoutesMatchTopology
=============================================================================
