--------------------------- MODULE RouteFreshness ---------------------------
(***************************************************************************)
(* RouteControl with a memory the nodes do not have.                       *)
(* docs/ROUTE_ADVERTISEMENT_SPEC.md:18 gives every node "the newest        *)
(* destination sequence seen for every remote destination", and line 67    *)
(* makes it reject an advertisement older than the newest it accepted.     *)
(* The code keeps sequences only inside candidates and routes, which go    *)
(* when they are invalidated.                                              *)
(***************************************************************************)
EXTENDS MCRouteControl

(* A ring of four nodes, every hop equally good.                           *)
RingNodes == 1..4
RingLinks == Both({<<1, 2>>, <<2, 3>>, <<3, 4>>, <<1, 4>>})
EvenRing == [l \in RingLinks |-> [d \in RingNodes |-> {1}]]
NoRingLoad == {[n \in RingNodes |-> 0]}

VARIABLE newest   \* newest[n][d]: newest sequence n ever accepted for d

FreshInit == Init /\ newest = [n \in Nodes |-> [d \in Nodes |-> 0]]

(* What n accepts for d shows in the candidates it then holds.             *)
Remember ==
  newest' = [n \in Nodes |-> [d \in Nodes |->
    LET held == {c \in cand' : c.at = n /\ c.dest = d /\ c.seq > newest[n][d]}
    IN IF held = {} THEN newest[n][d] ELSE (CHOOSE c \in held : TRUE).seq]]

FreshSpec == FreshInit /\ [][Next /\ Remember]_<<vars, newest>>

(* ROUTE_ADVERTISEMENT_SPEC.md:67: an advertisement is rejected if "the    *)
(* destination sequence is older than the newest accepted sequence".       *)
NeverOlderThanAccepted ==
  [][\A n \in Nodes : \A m \in inbox[n] :
       AcceptAdvertisement(n, m) => m.seq >= newest[n][m.dest]]_<<vars, newest>>
=============================================================================
