--------------------------- MODULE MCControlPipeline ---------------------------
(* A ring of three buses with a tie, and a stub: lines 1 and 2 feed 2 and  *)
(* 3 from the source 1, line 3 is the open tie between 1 and 3, line 4     *)
(* leads to bus 4.                                                         *)
EXTENDS ControlPipeline, ControllerAdapter

Buses == 1..4
AllLines == 1..4
LineEnds == [l \in AllLines |-> CASE l = 1 -> {1, 2} [] l = 2 -> {2, 3}
                                  [] l = 3 -> {1, 3} [] l = 4 -> {3, 4}]
AtFirst == {1, 2, 4}

(* The controller's commands for two faults, one of them with a way round. *)
FaultRows == {[origin |-> 2, start |-> 1, hint |-> TRUE, path |-> <<1, 3, 4>>],
              [origin |-> 2, start |-> 2, hint |-> FALSE, path |-> <<1, 3, 4>>],
              [origin |-> None, start |-> 1, hint |-> TRUE, path |-> <<1, 2>>]}

Restore == [NoCommand EXCEPT !.action = "restore_node", !.node = 2, !.at = 2]
Reroute == [NoCommand EXCEPT !.action = "reroute_power_path", !.source = 1,
              !.destination = 4, !.path = <<1, 3, 4>>, !.blocked = {2}, !.at = 1]
(* The path runs through the node the command isolates.                    *)
Crossing == [NoCommand EXCEPT !.action = "reroute_power_path", !.source = 1,
               !.path = <<1, 2, 3>>, !.blocked = {2}, !.at = 1]
(* Nothing is opened first: the path would close the ring.                 *)
Loop == [NoCommand EXCEPT !.action = "reroute_power_path", !.path = <<1, 3>>, !.at = 2]
(* One line both to open and on the path.                                  *)
Both == [Loop EXCEPT !.path = <<1, 3, 4>>, !.open = <<{1, 2}, {3, 4}>>]
TwoTies == [NoCommand EXCEPT !.action = "apply_switch_set", !.open = <<{1, 2}, {2, 3}>>,
              !.close = <<{1, 3}>>, !.at = 2]
Ring == [NoCommand EXCEPT !.close = <<{1, 2}, {2, 3}, {1, 3}>>, !.at = 3]
(* Line 4 off and on again, more often than its breaker can.               *)
Off == [NoCommand EXCEPT !.action = "open_line", !.line = 4, !.at = 1]
On == [NoCommand EXCEPT !.action = "close_line", !.line = 4, !.at = 3]
OnAgain == [On EXCEPT !.at = 2]
OffAgain == [Off EXCEPT !.at = 3]
Typo == [NoCommand EXCEPT !.action = "open_line", !.line = UnknownLine, !.at = 2]
(* An unknown edge among the known ones.                                   *)
HalfKnown == [NoCommand EXCEPT !.open = <<{1, 2}>>, !.close = <<{1, 3}, {2, 9}>>, !.at = 1]

Batch == commands_from_fault_events(FaultRows) \union
  {Restore, Reroute, Crossing, Loop, Both, TwoTies, Ring, Off, On, OnAgain, OffAgain, Typo,
   HalfKnown}

-----------------------------------------------------------------------------
Timer(l) == [line |-> l, timed |-> TRUE]
Plain(l) == [line |-> l, timed |-> FALSE]
AllTimed == <<Timer(1), Timer(2), Timer(3), Timer(4)>>
Elements == <<[id |-> "F2", node |-> 2], [id |-> "F3", node |-> 3]>>
OneFault == [id |-> "F2", node |-> 2, start |-> 1, length |-> 2, type |-> "abc"]
Late == [id |-> "F3", node |-> 3, start |-> 3, length |-> 2, type |-> "abc_ground"]

Quiet == [mode |-> "transient", faults |-> <<>>, lines |-> AllTimed, elements |-> Elements,
          override |-> None]
Faulted == [Quiet EXCEPT !.faults = <<OneFault, Late>>, !.override = 7]
HalfMapped == [Quiet EXCEPT !.faults = <<OneFault>>, !.lines = <<Timer(1), Timer(3)>>]
Snapshot == [Quiet EXCEPT !.mode = "steady_state", !.lines = <<Timer(1), Timer(2), Timer(4), Plain(3)>>]
Short == [Quiet EXCEPT !.override = 3]
Wrong == {[Quiet EXCEPT !.lines = <<Timer(1), Plain(3)>>],
          [Quiet EXCEPT !.lines = <<Timer(1), Timer(1)>>],
          [Quiet EXCEPT !.elements = <<Elements[1], Elements[1]>>],
          [Faulted EXCEPT !.elements = <<Elements[1]>>],
          [Faulted EXCEPT !.elements = <<[id |-> "F2", node |-> 3], Elements[2]>>],
          [Faulted EXCEPT !.mode = "steady_state"],
          [Faulted EXCEPT !.faults = <<OneFault, OneFault>>],
          [Faulted EXCEPT !.faults = <<[OneFault EXCEPT !.length = 0]>>],
          [Faulted EXCEPT !.faults = <<[OneFault EXCEPT !.node = 9]>>],
          [Faulted EXCEPT !.faults = <<[OneFault EXCEPT !.type = "arc"]>>]}
Asked == {Quiet, Faulted, HalfMapped, Snapshot, Short} \union Wrong
Types == {"abc", "abc_ground"}
=============================================================================
