--------------------------- MODULE MCManualSession ---------------------------
(* ManualSession on a ring of four with a chord and a fifth node behind    *)
(* it, which copies reach over paths of two, three and four links.         *)
EXTENDS ManualSession

Five == 0..4
FiveLinks == LET half == {<<0, 1>>, <<1, 2>>, <<2, 3>>, <<0, 3>>, <<0, 2>>, <<2, 4>>}
             IN half \union {<<l[2], l[1]>> : l \in half}

Distance == [n \in Five |-> [d \in Five |->
  CHOOSE k \in 0..4 : d \in Within(n, k) /\ (k = 0 \/ d \notin Within(n, k - 1))]]

(* The routing tables hold shortest paths.                                 *)
Shortest == [n \in Five |-> [d \in Five |->
  IF n = d THEN {NoNode}
  ELSE LET near == {l[2] : l \in {j \in FiveLinks : j[1] = n}}
       IN {m \in near : \A o \in near : Distance[m][d] <= Distance[o][d]}]]

Floods == {"alert", "coord"}

Requests ==
  {[kind |-> k, source |-> 0, dest |-> NoNode, ttl |-> t] :
     k \in {"alert", "coord", "hello"}, t \in {2, 3}}
    \union {[kind |-> k, source |-> 0, dest |-> d, ttl |-> 3] : k \in {"alert", "data"}, d \in {0, 4}}

(* They lead back to the source of every alert, as the theorem about       *)
(* acknowledgements asks of them (ManualSession_proofs).                   *)
ASSUME ShortestRoutesLead == RoutesLead(Distance)
=============================================================================
