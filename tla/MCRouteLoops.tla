---------------------------- MODULE MCRouteLoops ----------------------------
(* RouteControl and its history over the triangle of MCRouteControl.       *)
EXTENDS MCRouteControl, RouteLoops

(* Node 2 always has a packet waiting when it advertises.                  *)
Loaded == {[n \in TriangleNodes |-> IF n = 2 THEN 1 ELSE 0]}
=============================================================================
