--------------------------- MODULE MCRouteControl ---------------------------
(* RouteControl over a triangle of nodes.                                  *)
EXTENDS RouteControl

Both(S) == S \union {<<l[2], l[1]>> : l \in S}

TriangleNodes == 1..3
TriangleLinks == Both({<<1, 2>>, <<1, 3>>, <<2, 3>>})

(* The direct link between 1 and 3 is the poor one, and 1 is the gateway,  *)
(* the way to which from 2 fades, a little or down to the poorest quality. *)
TriangleCosts ==
  [l \in TriangleLinks |-> [d \in TriangleNodes |->
     {c - (IF d = 1 THEN 1 ELSE 0) :
        c \in CASE l \in Both({<<1, 3>>}) -> {8}
                [] l = <<2, 1>> /\ d = 1 -> {3, 4, 13}
                [] OTHER -> {3}}]]
EvenTriangle == [l \in TriangleLinks |-> [d \in TriangleNodes |-> {1}]]

NoTime == {0}
OnePenalty == {0}
NoLoad == {[n \in TriangleNodes |-> 0]}

-----------------------------------------------------------------------------
(* PROJECT_STATUS_AND_ROADMAP.md:232, "Split horizon and destination-      *)
(* sequence freshness provide loop prevention": between control runs no    *)
(* two nodes are each other's next hop to the same destination.            *)
NoForwardingLoop ==
  ctl.phase = "idle" =>
    \A n, m, d \in Nodes : route[n][d].next = m => route[m][d].next # n
=============================================================================
