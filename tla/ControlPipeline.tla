---------------------------- MODULE ControlPipeline ----------------------------
(***************************************************************************)
(* One run of the control pipeline up to the manifest (pipeline.py,        *)
(* faults.py, pscad_adapter.py).  The physical faults of the request are   *)
(* checked, the controller's commands are applied, and either the timeline *)
(* or the final state is written into PSCAD: a breaker that can only       *)
(* toggle, and only a few times, for every mapped line, and a timed fault  *)
(* element for every mapped fault.  PSCAD's project keeps the parameters   *)
(* an earlier run left in whatever is not written.                         *)
(***************************************************************************)
EXTENDS SwitchingTimeline

CONSTANTS
  Requests,     \* what a run can be asked to do
  FaultTypes,   \* the fault types with phase flags
  MaxToggles    \* length of operation_time_parameters (2)

(* mode: "transient" or "steady_state".  faults: the rows of               *)
(* physical_faults.  lines and elements: the rows of the mapping, with a   *)
(* timed control or without, and with the node the element is built at.    *)
Request == [mode : {"transient", "steady_state"},
            faults : Seq([id : STRING, node : Nat, start : Int, length : Int, type : STRING]),
            lines : Seq([line : Nat, timed : BOOLEAN]),
            elements : Seq([id : STRING, node : Nat]),
            override : Nat \union {None}]

ASSUME PipelineAssumption ==
  /\ Requests \subseteq Request
  /\ "abc_ground" \in FaultTypes
  /\ MaxToggles \in Nat \ {0}

VARIABLES
  request,   \* what this run is asked to do
  breaker,   \* breaker[l]: parameters of line l's switch in PSCAD
  element    \* element[id]: parameters of the fault element of that name

manifestVars == <<breaker, element>>
vars == <<powerVars, timelineVars, request, manifestVars>>

Entries(rows) == {rows[i] : i \in DOMAIN rows}
FaultIds == UNION {{e.id : e \in Entries(r.elements)} : r \in Requests}

(* Switches and elements as the feeder builder leaves them, idle for ever; *)
(* and as an earlier run may have left them, with operations that are due. *)
Never == 1000
AsBuilt ==
  /\ breaker = [l \in Lines |-> [init |-> l \in InitiallyClosed, count |-> 1,
                                 times |-> [k \in 1..MaxToggles |-> Never + k]]]
  /\ element = [id \in FaultIds |-> [start |-> Never, length |-> 1, type |-> "abc_ground"]]
AsLeft ==
  /\ breaker = [l \in Lines |-> [init |-> FALSE, count |-> MaxToggles,
                                 times |-> [k \in 1..MaxToggles |-> k]]]
  /\ element = [id \in FaultIds |-> [start |-> 0, length |-> 1, type |-> "abc_ground"]]

PipelineInit ==
  /\ Init /\ TimelineInit
  /\ stage = "request"
  /\ request \in Requests
  /\ AsBuilt \/ AsLeft

-----------------------------------------------------------------------------
(* physical_faults_from_payload.                                           *)

Fault(i) == request.faults[i]

InvalidFault(i) ==
  \/ \E j \in DOMAIN request.faults : j < i /\ Fault(j).id = Fault(i).id
  \/ Fault(i).node \notin Nodes
  \/ Fault(i).start < 0 \/ Fault(i).length <= 0
  \/ Fault(i).type \notin FaultTypes

RefuseFaults ==
  /\ stage = "request"
  /\ \E i \in DOMAIN request.faults : InvalidFault(i)
  /\ Fail("faults")
  /\ UNCHANGED <<request, manifestVars>>

AcceptFaults ==
  /\ stage = "request"
  /\ ~\E i \in DOMAIN request.faults : InvalidFault(i)
  /\ stage' = "control"
  /\ UNCHANGED <<powerVars, reason, compiled, schedule, duration, request, manifestVars>>

Control ==
  /\ stage = "control"
  /\ Next
  /\ UNCHANGED <<timelineVars, request, manifestVars>>

Faulty == request.faults # <<>>
end_s(i) == Fault(i).start + Fault(i).length

(* Faults are shown to their end and the window after it; no run is        *)
(* shorter than a second.                                                  *)
minimum_duration ==
  LET ends == {1} \union {end_s(i) + PostEventWindow : i \in DOMAIN request.faults}
  IN CHOOSE m \in ends : \A n \in ends : n <= m

Compile ==
  /\ request.mode = "transient"
  /\ \/ StartTimeline \/ RefusePlan \/ CompilePlan
     \/ TimelineDone(minimum_duration, request.override)
     \/ RefuseDuration(minimum_duration, request.override)
  /\ UNCHANGED <<request, manifestVars>>

(* The final state has no faults, and is simulated for one second.         *)
RefuseSteadyFaults ==
  /\ stage = "control" /\ phase = "ready"
  /\ request.mode = "steady_state" /\ Faulty
  /\ Fail("needs transient")
  /\ UNCHANGED <<request, manifestVars>>

StartSnapshot ==
  /\ stage = "control" /\ phase = "ready"
  /\ request.mode = "steady_state" /\ ~Faulty
  /\ stage' = "bind"
  /\ duration' = 1
  /\ UNCHANGED <<powerVars, reason, compiled, schedule, request, manifestVars>>

-----------------------------------------------------------------------------
(* The mapping.                                                            *)

MappedLines == [i \in DOMAIN request.lines |-> request.lines[i].line]
BoundIds == [i \in DOMAIN request.elements |-> request.elements[i].id]
Duplicates(keys) == \E i, j \in DOMAIN keys : i < j /\ keys[i] = keys[j]

Mapped(l) == \E b \in Entries(request.lines) : b.line = l
Timed(l) == \E b \in Entries(request.lines) : b.line = l /\ b.timed
Bound(id) == \E e \in Entries(request.elements) : e.id = id
NodeOf(id) == (CHOOSE e \in Entries(request.elements) : e.id = id).node
Declared(id) == \E i \in DOMAIN request.faults : Fault(i).id = id
Declaration(id) == Fault(CHOOSE i \in DOMAIN request.faults : Fault(i).id = id)

(* A breaker toggles: its schedule must alternate, starting from the       *)
(* initial state.                                                          *)
Alternates(l) ==
  \A k \in DOMAIN schedule[l] : schedule[l][k].closed = (initial_closed(l) = (k % 2 = 0))

Representable(l) == Timed(l) => Len(schedule[l]) <= MaxToggles /\ Alternates(l)
TooMany(l) == Len(schedule[l]) > MaxToggles
FirstUnfit == CHOOSE l \in Lines :
  ~Representable(l) /\ \A k \in Lines : k < l => Representable(k)

(* What can be wrong with the request or its timeline, in the order in     *)
(* which the adapter finds it.                                             *)
BindingChecks ==
  LET transient == request.mode = "transient"
      unfit == transient /\ \E l \in Lines : ~Representable(l)
  IN <<[why |-> "duplicate line", found |-> Duplicates(MappedLines)],
       [why |-> "duplicate fault", found |-> Duplicates(BoundIds)],
       [why |-> "too many", found |-> unfit /\ TooMany(FirstUnfit)],
       [why |-> "not toggling", found |-> unfit],
       [why |-> "untimed", found |-> transient /\ \E l \in Lines : Mapped(l) /\ ~Timed(l)],
       [why |-> "unbound", found |-> \E i \in DOMAIN request.faults : ~Bound(Fault(i).id)],
       [why |-> "elsewhere", found |-> \E i \in DOMAIN request.faults :
                               Bound(Fault(i).id) /\ NodeOf(Fault(i).id) # Fault(i).node]>>

Bindable == \A i \in DOMAIN BindingChecks : ~BindingChecks[i].found

RefuseBinding ==
  /\ stage = "bind"
  /\ \E i \in DOMAIN BindingChecks :
       /\ BindingChecks[i].found /\ \A j \in 1..(i - 1) : ~BindingChecks[j].found
       /\ Fail(BindingChecks[i].why)
  /\ UNCHANGED <<request, manifestVars>>

parameters_for_NoIdle(l) ==
  [init  |-> initial_closed(l),
   count |-> Larger(1, Len(schedule[l])),
   times |-> [k \in 1..MaxToggles |-> IF k <= Len(schedule[l]) THEN schedule[l][k].at ELSE 0]]

(* No breaker can be told to stay as it is: an idle one toggles after the  *)
(* end of the run.                                                         *)
parameters_for(l) ==
  [init  |-> initial_closed(l),
   count |-> Larger(1, Len(schedule[l])),
   times |-> [k \in 1..MaxToggles |-> IF k <= Len(schedule[l]) THEN schedule[l][k].at
                                      ELSE duration + k - Len(schedule[l])]]

state_parameters_InitOnly(l) == [breaker[l] EXCEPT !.init = l \in closed]

(* closed_parameters and open_parameters of a timed control put its        *)
(* operations far off; a plain switch has one parameter.                   *)
state_parameters(l) ==
  IF Timed(l)
  THEN [init |-> l \in closed, count |-> 1, times |-> [k \in 1..MaxToggles |-> Never + k]]
  ELSE [breaker[l] EXCEPT !.init = l \in closed]

_fault_calls_DeclaredOnly ==
  [id \in FaultIds |->
     IF Bound(id) /\ Declared(id)
     THEN [start |-> Declaration(id).start, length |-> Declaration(id).length,
           type |-> Declaration(id).type]
     ELSE element[id]]

(* Every mapped element is written: a fault that is not declared starts    *)
(* after the end of the run.                                               *)
_fault_calls ==
  [id \in FaultIds |->
     IF ~Bound(id) THEN element[id]
     ELSE IF Declared(id)
     THEN [start |-> Declaration(id).start, length |-> Declaration(id).length,
           type |-> Declaration(id).type]
     ELSE [start |-> duration + 1, length |-> 1, type |-> "abc_ground"]]

Write(parameters) ==
  /\ stage = "bind" /\ Bindable
  /\ breaker' = [l \in Lines |-> IF Mapped(l) THEN parameters[l] ELSE breaker[l]]
  /\ element' = _fault_calls
  /\ stage' = "bound"
  /\ UNCHANGED <<powerVars, reason, compiled, schedule, duration, request>>

manifest_for_timeline == request.mode = "transient" /\ Write([l \in Lines |-> parameters_for(l)])
manifest_for_state == request.mode = "steady_state" /\ Write([l \in Lines |-> state_parameters(l)])

PipelineNext ==
  \/ RefuseFaults \/ AcceptFaults \/ Control
  \/ Compile \/ RefuseSteadyFaults \/ StartSnapshot
  \/ RefuseBinding \/ manifest_for_timeline \/ manifest_for_state

PipelineSpec == PipelineInit /\ [][PipelineNext]_vars

-----------------------------------------------------------------------------
(* PSCAD: a timed control toggles at each of its times; an element is on   *)
(* for its length.                                                         *)
BreakerAt(l, t) ==
  breaker[l].init =
    (~Timed(l) \/ Cardinality({k \in 1..breaker[l].count : breaker[l].times[k] <= t}) % 2 = 0)

ElementAt(id, t) == element[id].start <= t /\ t < element[id].start + element[id].length

(* What the controller's commands up to time t left closed.                *)
PlaneAt(t) ==
  LET past == {k \in DOMAIN plans : plans[k].command.at <= t}
  IN IF past = {} THEN InitiallyClosed
     ELSE plans[CHOOSE k \in past : \A j \in past : j <= k].after

PreviewClosed_Before(t) ==
  {l \in Lines :
     LET past == {k \in DOMAIN schedule[l] : schedule[l][k].at < t}
     IN IF past = {} THEN initial_closed(l)
        ELSE schedule[l][CHOOSE k \in past : \A j \in past : j <= k].closed}

(* state_at of the dashboard's preview: the lines closed and the nodes     *)
(* with a fault at time t.                                                 *)
PreviewClosed(t) ==
  {l \in Lines :
     LET past == {k \in DOMAIN schedule[l] : schedule[l][k].at <= t}
     IN IF past = {} THEN initial_closed(l)
        ELSE schedule[l][CHOOSE k \in past : \A j \in past : j <= k].closed}

PreviewFaults(t) ==
  {Fault(i).node : i \in {j \in DOMAIN request.faults : Fault(j).start <= t /\ t < end_s(j)}}

Transient == stage = "bound" /\ request.mode = "transient"
Steady == stage = "bound" /\ request.mode = "steady_state"

(* At every instant of a transient run every mapped breaker is in the      *)
(* state the power plane was in after the commands up to that instant.     *)
BreakersFollowThePlane ==
  Transient =>
    \A l \in Lines, t \in 0..duration : Mapped(l) => BreakerAt(l, t) = (l \in PlaneAt(t))

(* In a transient run exactly the declared faults occur, each at its node, *)
(* of its type and for its time, whatever an earlier run left behind, and  *)
(* the run is long enough to show what follows the last of them.           *)
FaultsAsDeclared ==
  Transient =>
    /\ \A id \in FaultIds, t \in 0..duration :
         Bound(id) => (ElementAt(id, t) <=>
           \E i \in DOMAIN request.faults :
             /\ Fault(i).id = id /\ Fault(i).node = NodeOf(id)
             /\ Fault(i).type = element[id].type
             /\ Fault(i).start <= t /\ t < end_s(i))
    /\ \A i \in DOMAIN request.faults : Bound(Fault(i).id) /\ duration >= end_s(i) + PostEventWindow

(* In a steady run the mapped switches are in the final state from start   *)
(* to end and no mapped fault occurs, whatever an earlier run left behind. *)
SnapshotIsFinalState ==
  Steady =>
    \A t \in 0..duration :
      /\ \A l \in Lines : Mapped(l) => BreakerAt(l, t) = (l \in closed)
      /\ \A id \in FaultIds : Bound(id) => ~ElementAt(id, t)

(* What the preview shows for a time is what PSCAD simulates at that time, *)
(* for lines and faults that are mapped.                                   *)
PreviewIsSimulated ==
  Transient =>
    \A t \in 0..duration :
      /\ \A l \in Lines : Mapped(l) => (l \in PreviewClosed(t) <=> BreakerAt(l, t))
      /\ PreviewFaults(t) = {NodeOf(id) : id \in {i \in FaultIds : Bound(i) /\ ElementAt(i, t)}}

(* The consistency checks of the compiler and the adapter never fire on    *)
(* plans the power plane made: apart from a request that is wrong in       *)
(* itself, all that can refuse a run is a line that switches twice at one  *)
(* time, or more often than its breaker can.                               *)
OnlyHardwareLimitsRefuse == reason \notin {"order", "mismatch", "not toggling"}
=============================================================================
