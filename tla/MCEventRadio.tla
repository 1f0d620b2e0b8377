----------------------------- MODULE MCEventRadio -----------------------------
(* EventRadio with three nodes in reach of one another: two frames of node *)
(* 1, an ordinary one to node 2 and an urgent broadcast, and one of node 2 *)
(* back to node 1, longer on the air.                                      *)
EXTENDS EventRadio

RadioNodes == 1..3
RadioRequests == 1..3
RadioSender == <<1, 1, 2>>
RadioReceivers == <<{2}, {2, 3}, {1}>>
RadioUrgency == <<1, 4, 1>>
RadioUnicast == {1, 3}
RadioAirTime == <<1, 1, 2>>
Submissions == {0, 1}
=============================================================================
