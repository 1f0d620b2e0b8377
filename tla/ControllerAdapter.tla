--------------------------- MODULE ControllerAdapter ---------------------------
(***************************************************************************)
(* How fault rows of the mesh's controller become switching commands       *)
(* (controller_adapter.py): every fault isolates its node; one that is to  *)
(* be rerouted and carries a path is followed, restoration_delay_s later,  *)
(* by a reroute that keeps its node blocked.                               *)
(***************************************************************************)
EXTENDS PowerPlane

CONSTANT restoration_delay

ASSUME AdapterAssumption == restoration_delay \in Nat

(* A row: origin is None when it names no node; hint tells whether the     *)
(* recommended action asks for a restoration.                              *)
FaultRow == [origin : Nat \union {None}, start : Nat, hint : BOOLEAN, path : Seq(Nat)]

isolation(row) ==
  [NoCommand EXCEPT !.at = row.start, !.action = "isolate_node", !.node = row.origin]

restoration(row) ==
  [NoCommand EXCEPT !.at = row.start + restoration_delay, !.action = "reroute_power_path",
     !.source = row.path[1], !.destination = row.path[Len(row.path)],
     !.blocked = {row.origin}, !.path = row.path]

_wants_restoration(row) == row.path # <<>> /\ row.hint

commands_from_fault_events(rows) ==
  UNION {{isolation(row)} \union (IF _wants_restoration(row) THEN {restoration(row)} ELSE {}) :
           row \in {r \in rows : r.origin # None}}
=============================================================================
