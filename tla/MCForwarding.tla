----------------------------- MODULE MCForwarding -----------------------------
(* Forwarding over small meshes.                                           *)
EXTENDS Forwarding

Both(S) == S \union {<<l[2], l[1]>> : l \in S}

TriangleNodes == 1..3
TriangleLinks == Both({<<1, 2>>, <<1, 3>>, <<2, 3>>})

RingNodes == 1..4
RingLinks == Both({<<1, 2>>, <<2, 3>>, <<3, 4>>, <<4, 1>>})

(* Tables that may hold anything, for nodes that see each other.           *)
AnyHop == [n \in Nodes |-> [d \in Nodes |->
             {NoNode} \union {m \in Nodes : <<n, m>> \in Links}]]

(* Converged tables of the ring: the direct hop, else over 2 or over 1.    *)
RingHop == [n \in RingNodes |-> [d \in RingNodes |->
             IF <<n, d>> \in RingLinks THEN {d}
             ELSE IF n \in {1, 3} THEN {2} ELSE {1}]]

NoNodes == {}
OneFails == {2}
OneOrigin == {1}
Ample == {8}
Short == {2}
=============================================================================
