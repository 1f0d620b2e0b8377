----------------------------- MODULE RouteLoops -----------------------------
(***************************************************************************)
(* RouteControl with a memory of what happened since the last discovery.   *)
(* After a failure the tables of a mesh can run in circles (the run        *)
(* route_loop), a lost advertisement can leave a node without a route, and *)
(* every frame measures its link anew, so that costs also rise by mere     *)
(* fading.  This module says how much of that the tables stand.            *)
(***************************************************************************)
EXTENDS RouteControl

CONSTANT Slack   \* how far a route may have grown dearer than it has been

ASSUME SlackAssumption == Slack \in Nat

VARIABLES
  steady,  \* history: no route is gone, or dearer than it was by over Slack
  lowest,  \* history: while steady, what n's route to d cost at its cheapest
  whole    \* history: this is the run of a discovery, or what it left behind

history == <<steady, lowest, whole>>

Unrouted == [n \in Nodes |-> [d \in Nodes |-> 0]]

SteadyInit == Init /\ steady = FALSE /\ lowest = Unrouted /\ whole = FALSE

(* No candidate is withdrawn or outlives its lifetime.                     *)
NothingGone ==
  /\ \A c \in cand : \E k \in cand' : k.at = c.at /\ k.dest = c.dest /\ k.via = c.via
  /\ \A c \in cand' : c.age <= RouteLifetime

(* The cheapest each route has been, the new one counted in; 0 while there *)
(* is none.                                                                *)
Lowered ==
  [n \in Nodes |-> [d \in Nodes |->
     IF route[n][d] = NoRoute \/ route'[n][d].cost < lowest[n][d]
     THEN route'[n][d].cost ELSE lowest[n][d]]]

NothingDearer == \A n, d \in Nodes : route'[n][d].cost <= Lowered[n][d] + Slack

Renewal == discover_neighbors \/ \E n \in Nodes : recover_communication(n)

Disruption ==
  \/ \E n \in Nodes : fail_communication(n)
  \/ \E n \in Nodes, p \in Penalties : recalculate_routes(n, p)

StaysSteady ==
  /\ steady' = (steady /\ NothingGone /\ NothingDearer)
  /\ lowest' = IF steady' THEN Lowered ELSE Unrouted

(* A run stays whole unless an advertisement may be lost, or is not sent   *)
(* because the rounds are used up.                                         *)
SteadyNext ==
  \/ Renewal /\ steady' = TRUE /\ lowest' = Unrouted /\ whole' = ("RA" \notin Lossy)
  \/ Disruption /\ steady' = FALSE /\ lowest' = Unrouted /\ whole' = FALSE
  \/ (_step \/ Expiry) /\ StaysSteady /\ whole' = FALSE
  \/ Control /\ StaysSteady
             /\ whole' = (whole /\ NothingGone /\ ~(Working /\ ctl'.phase = "idle"))

SteadySpec == SteadyInit /\ [][SteadyNext]_<<vars, history>>

-----------------------------------------------------------------------------
(* Whoever follows the next hops to d gets there: the tables lead no       *)
(* packet to a node without a route, nor round in circles in any set of    *)
(* nodes.                                                                  *)
LeadTo(d) ==
  /\ \A n \in Nodes : route[n][d] # NoRoute =>
       route[n][d].next = d \/ route[route[n][d].next][d] # NoRoute
  /\ \A S \in SUBSET (Nodes \ {d}) : S # {} =>
       \E n \in S : route[n][d] = NoRoute \/ route[n][d].next \notin S

(* From a discovery on, during its control run and as long afterwards as   *)
(* no candidate goes and no route has become dearer by more than Slack,    *)
(* less than the cheapest hop, the tables are free of loops at every       *)
(* moment, whatever is lost or arrives out of order, however the links     *)
(* fade, and although every node selects from what its neighbours told it  *)
(* some time ago.                                                          *)
SteadyRoutesLead == steady => \A d \in Nodes : LeadTo(d)

(* A discovery whose run ended by itself has reached everyone: each node   *)
(* has a route to each destination that one of its neighbours is or has a  *)
(* route to, unless that route has all the hops a route may have, however  *)
(* the advertisements overtook one another and whichever routes were       *)
(* withheld from the neighbour they run over.                              *)
DiscoverySpreads ==
  whole /\ ctl.phase = "idle" =>
    \A n, d \in Nodes : \A k \in Neighbors(n, heard) :
      (k = d \/ route[k][d] # NoRoute) /\ n # d =>
        route[n][d] # NoRoute \/ (k # d /\ route[k][d].hops = MaxHops)

(* What k's advertisement of its present way to d says of hops and cost.   *)
Extent(k, d) == IF k = d THEN 0 ELSE route[k][d].hops
Told(k, d) == IF k = d THEN 0 ELSE route[k][d].cost

(* What n learns of d from k's present table: the hops, the sequence, and  *)
(* k's own cost and one hop more, whatever the link and k's queue were.    *)
UpToDate(n, k, d) ==
  \E c \in cand :
    /\ c.at = n /\ c.dest = d /\ c.via = k
    /\ c.hops = Extent(k, d) + 1 /\ c.seq = seq[d]
    /\ \E hop \in LinkCosts[<<n, k>>][d], load \in Loads :
         c.cost = Told(k, d) + hop + penalty[k] + load[k]

(* Such a run has told everything: what a node holds of a destination over *)
(* a neighbour agrees with that neighbour's table at the end, although the *)
(* tables kept changing, by mere fading too, while they were advertised.   *)
(* Only a route over the node itself is kept from it, and one that has all *)
(* the hops is of no use to it.                                            *)
DiscoverySettles ==
  whole /\ ctl.phase = "idle" =>
    \A n, d \in Nodes : \A k \in Neighbors(n, heard) :
      \/ n = d
      \/ k # d /\ (route[k][d].next \in {n, NoNode} \/ route[k][d].hops = MaxHops)
      \/ UpToDate(n, k, d)
=============================================================================
