-------------------------- MODULE SwitchingTimeline --------------------------
(***************************************************************************)
(* How the plans of a transient run become a timeline (timeline.py).  The  *)
(* accepted operations are compiled plan by plan into one schedule per     *)
(* line, each checked against the schedule so far, and the run is made     *)
(* long enough for what it has to show.                                    *)
(***************************************************************************)
EXTENDS PowerPlane

CONSTANT PostEventWindow   \* post_event_window_s, in the unit of time stamps

ASSUME TimelineAssumption == PostEventWindow \in Nat

VARIABLES
  stage,      \* "request", "control", "compile", "bind", "bound", "failed"
  reason,     \* which check failed
  compiled,   \* number of plans already compiled
  schedule,   \* schedule[l]: sequence of [at, closed]
  duration    \* the length of the simulated run

timelineVars == <<stage, reason, compiled, schedule, duration>>

TimelineInit ==
  /\ reason = "none"
  /\ compiled = 0
  /\ schedule = [l \in Lines |-> <<>>]
  /\ duration = 0

(* build_switching_timeline starts once every command has been applied.    *)
StartTimeline ==
  /\ stage = "control"
  /\ phase = "ready"
  /\ stage' = "compile"
  /\ UNCHANGED <<powerVars, reason, compiled, schedule, duration>>

initial_closed(l) == l \in InitiallyClosed

final_closed(l) ==
  IF schedule[l] = <<>> THEN initial_closed(l) ELSE schedule[l][Len(schedule[l])].closed

(* The next plan, and the operations of it that switched something.        *)
Plan == plans[compiled + 1]

Physical_WithRejected(plan) == {o \in plan.operations : o.action # "noop"}

Physical(plan) == {o \in plan.operations : o.accepted /\ o.action # "noop"}

Backwards == compiled > 0 /\ Plan.command.at < plans[compiled].command.at
Mismatched == \E o \in Physical(Plan) : o.before # final_closed(o.line)
TooClose == \E o \in Physical(Plan) :
  schedule[o.line] # <<>> /\ schedule[o.line][Len(schedule[o.line])].at = Plan.command.at

Fail(why) ==
  /\ stage' = "failed" /\ reason' = why
  /\ UNCHANGED <<powerVars, compiled, schedule, duration>>

RefusePlan ==
  /\ stage = "compile" /\ compiled < Len(plans)
  /\ Backwards \/ Mismatched \/ TooClose
  /\ Fail(IF Backwards THEN "order" ELSE IF Mismatched THEN "mismatch" ELSE "same time")

(* The line ends as the operation left it (after_closed).                  *)
CompilePlan ==
  /\ stage = "compile" /\ compiled < Len(plans)
  /\ ~Backwards /\ ~Mismatched /\ ~TooClose
  /\ schedule' = [l \in Lines |->
       IF \E o \in Physical(Plan) : o.line = l
       THEN LET o == CHOOSE o \in Physical(Plan) : o.line = l
            IN Append(schedule[l], [at |-> Plan.command.at, closed |-> o.accepted = o.close])
       ELSE schedule[l]]
  /\ compiled' = compiled + 1
  /\ UNCHANGED <<powerVars, stage, reason, duration>>

-----------------------------------------------------------------------------
Larger(a, b) == IF a < b THEN b ELSE a

required_duration(minimum) == Larger(minimum, LastTime + PostEventWindow)

(* An override of the duration may lengthen the run, never shorten it.     *)
TimelineDone(minimum, override) ==
  /\ stage = "compile" /\ compiled = Len(plans)
  /\ override = None \/ override >= required_duration(minimum)
  /\ duration' = IF override = None THEN required_duration(minimum) ELSE override
  /\ stage' = "bind"
  /\ UNCHANGED <<powerVars, reason, compiled, schedule>>

RefuseDuration(minimum, override) ==
  /\ stage = "compile" /\ compiled = Len(plans)
  /\ override # None /\ override < required_duration(minimum)
  /\ Fail("too short")
=============================================================================
