------------------------------- MODULE Topology -------------------------------
(***************************************************************************)
(* What the dashboard says of a mesh (topology.py): the graph of working   *)
(* radios that have each other as neighbours, the path a packet would take *)
(* along the routing tables, and the routes that cannot be followed.       *)
(*                                                                         *)
(* The operators take the tables they look at: the working nodes U, the    *)
(* neighbours N[n] of each node, and Next[n][d], the next hop of n to d or *)
(* NoHop.                                                                  *)
(***************************************************************************)
LOCAL INSTANCE Integers
LOCAL INSTANCE Sequences
LOCAL INSTANCE FiniteSets

NoHop == -1

(* An edge stands for an entry of either side; both ends are working.      *)
build_topology_graph(U, N) ==
  {e \in U \X U : e[1] # e[2] /\ (e[2] \in N[e[1]] \/ e[1] \in N[e[2]])}

(* The nodes connected to n in graph G over the nodes U.                   *)
Component(n, U, G) ==
  LET grown[k \in 0..Cardinality(U)] ==
        IF k = 0 THEN {n} \intersect U
        ELSE LET before == grown[k - 1]
             IN before \union {e[2] : e \in {x \in G : x[1] \in before}}
  IN grown[Cardinality(U)]

Connected(U, G) == UNION {{n} \X (Component(n, U, G) \ {n}) : n \in U}

(* Following next hops from the end of path: each must be a working        *)
(* neighbour not yet visited.                                              *)
Follow(path, d, U, N, Next) ==
  LET n == path[Len(path)]
      m == Next[n][d]
  IN IF /\ m # NoHop /\ m \in U /\ m \in N[n]
        /\ \A k \in DOMAIN path : path[k] # m
     THEN Append(path, m)
     ELSE <<>>

(* A destination that is no node any more raises ValueError in the code;   *)
(* here it is a route that cannot be followed.                             *)
trace_route(n, d, U, N, Next, maxHops) ==
  LET after[k \in 0..maxHops] ==
        IF k = 0 THEN <<n>>
        ELSE LET path == after[k - 1]
             IN IF path = <<>> \/ path[Len(path)] = d THEN path
                ELSE Follow(path, d, U, N, Next)
      end == after[maxHops]
  IN IF n = d THEN <<n>>
     ELSE IF n \in U /\ d \in U /\ end # <<>> /\ end[Len(end)] = d THEN end
     ELSE <<>>

(* The entries of working nodes that lead nowhere.                         *)
invalid_routes(U, N, Next, maxHops) ==
  {p \in U \X DOMAIN Next : /\ Next[p[1]][p[2]] # NoHop
                            /\ \/ p[1] = p[2]
                               \/ trace_route(p[1], p[2], U, N, Next, maxHops) = <<>>}
=============================================================================
