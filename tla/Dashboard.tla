------------------------------- MODULE Dashboard -------------------------------
(***************************************************************************)
(* A dashboard session and command line runs that share one PSCAD          *)
(* (dashboard.py, cli.py, pipeline.py).  Streamlit runs the whole page     *)
(* again after every interaction; a pass that finds the inputs changed     *)
(* since the last pass runs the pipeline, which executes in PSCAD when     *)
(* asked to.  An interaction while a pass runs stops it at its next        *)
(* access to the session: what the pipeline returned is then dropped.      *)
(***************************************************************************)
EXTENDS PscadClient

CONSTANTS
  Page,      \* the client that is the dashboard; the others are command lines
  Entered,   \* the documents its input fields can hold
  Default,   \* the document of the example files
  PageJobs,  \* what the dashboard executes
  CliJobs,   \* what command lines execute
  MaxActs    \* bound of the model: interactions and command lines

ASSUME DashboardAssumption ==
  /\ Page \in Clients
  /\ Entered \subseteq Documents /\ Default \in Entered
  /\ PageJobs \subseteq Jobs /\ CliJobs \subseteq Jobs
  /\ \A j \in CliJobs : j.run => j.doc # 0   \* what is run is written first
  /\ MaxActs \in Nat

(* What pipeline_result and pipeline_error hold besides a document's result. *)
None == 0
Refused == -1

VARIABLES
  page,      \* "idle", "pass", "running", or "checking": PSCAD is being called
  doc,       \* the document in the input fields
  act,       \* the interaction that waits for a pass, or "none"
  observed,  \* observed_inputs, or None
  shown,     \* the document whose result is shown, Refused or None
  missed,    \* history: a change of the inputs was seen and not simulated
  acts       \* interactions and command lines so far

pageVars == <<page, doc, act, observed, shown, missed, acts>>
vars == <<serverVars, clientVars, pageVars>>

(* The first pass of a session, or the one after it replayed the example   *)
(* files for the first time.                                               *)
Init ==
  /\ ClientInit
  /\ page = "pass"
  /\ doc = Default
  /\ act = "none"
  /\ shown \in {None, Default}
  /\ observed = shown
  /\ missed = FALSE
  /\ acts = 0

Buttons == {"replay", "clear", "check", "reload"}

-----------------------------------------------------------------------------
(* The user changes an input ("edit"), a toggle, or presses a button.      *)
UserActs ==
  /\ page # "pass" /\ act = "none"
  /\ acts < MaxActs /\ acts' = acts + 1
  /\ \/ act' = "edit" /\ doc' \in Entered
     \/ act' \in Buttons /\ doc' = doc
  /\ page' = IF page = "idle" THEN "pass" ELSE page
  /\ UNCHANGED <<serverVars, clientVars, observed, shown, missed>>

-----------------------------------------------------------------------------
(* load_default_state, then a new pass.                                    *)
Reload ==
  /\ page = "pass" /\ act = "reload"
  /\ doc' = Default
  /\ shown' = None /\ observed' = None /\ missed' = FALSE
  /\ act' = "none"
  /\ UNCHANGED <<page, acts, serverVars, clientVars>>

ClearResult ==
  /\ page = "pass" /\ act = "clear"
  /\ shown' = None
  /\ act' = "none"
  /\ UNCHANGED <<page, doc, observed, missed, acts, serverVars, clientVars>>

(* "Check PSCAD connection": a manifest without calls, and no run.         *)
CheckConnection ==
  /\ page = "pass" /\ act = "check"
  /\ execute_pscad_manifest(Page, [NoJob EXCEPT !.workspace = TRUE])
  /\ page' = "checking"
  /\ act' = "none"
  /\ UNCHANGED <<doc, observed, shown, missed, acts>>

inputs_changed == observed # None /\ observed # doc
Scripted == page = "pass" /\ act \in {"none", "edit", "replay"}
Runs == act = "replay" \/ inputs_changed

(* A pass that runs nothing: no change, or the simulation of changes is    *)
(* turned off.                                                             *)
PassDone ==
  /\ Scripted /\ act # "replay"
  /\ observed' = doc
  /\ missed' = (missed \/ inputs_changed)
  /\ page' = "idle" /\ act' = "none"
  /\ UNCHANGED <<doc, shown, acts, serverVars, clientVars>>

(* The inputs do not parse, or the pipeline refuses them with the toggles  *)
(* as they are.                                                            *)
PassRefused ==
  /\ Scripted /\ Runs
  /\ observed' = doc
  /\ shown' = Refused /\ missed' = FALSE
  /\ page' = "idle" /\ act' = "none"
  /\ UNCHANGED <<doc, acts, serverVars, clientVars>>

(* run_control_pipeline without PSCAD returns at once; the page runs again.*)
PassReplays ==
  /\ Scripted /\ Runs
  /\ observed' = doc
  /\ shown' = doc /\ missed' = FALSE
  /\ act' = "none"
  /\ UNCHANGED <<page, doc, acts, serverVars, clientVars>>

ResetResult_Keeps == shown' = shown

(* The earlier result and error go before anything can fail.               *)
ResetResult == shown' = None

PassExecutes ==
  /\ Scripted /\ Runs
  /\ observed' = doc
  /\ ResetResult /\ missed' = FALSE
  /\ \E j \in PageJobs : execute_pscad_manifest(Page, [j EXCEPT !.doc = doc])
  /\ page' = "running" /\ act' = "none"
  /\ UNCHANGED <<doc, acts>>

(* The execution returns: its result is stored, unless an interaction      *)
(* waits.                                                                  *)
ExecutionReturns ==
  /\ page \in {"running", "checking"}
  /\ Return(Page)
  /\ shown' = IF page = "running" /\ act = "none" THEN job[Page].doc ELSE shown
  /\ page' = "pass"
  /\ UNCHANGED <<doc, act, observed, missed, acts>>

Pass ==
  \/ Reload \/ ClearResult \/ CheckConnection
  \/ PassDone \/ PassRefused \/ PassReplays \/ PassExecutes \/ ExecutionReturns

-----------------------------------------------------------------------------
(* cli.py: one execution, and its exit code.                               *)
CliStarts(c) ==
  /\ c # Page
  /\ acts < MaxActs /\ acts' = acts + 1
  /\ \E j \in CliJobs : execute_pscad_manifest(c, j)
  /\ UNCHANGED <<page, doc, act, observed, shown, missed>>

CliExits(c) ==
  /\ c # Page /\ Return(c)
  /\ UNCHANGED pageVars

Executing == (\E c \in Clients : ClientStep(c)) /\ UNCHANGED pageVars
Background ==
  (PscadWrites \/ PscadStops \/ StartSettled \/ ServerComesUp \/ Failure) /\ UNCHANGED pageVars

Next ==
  \/ UserActs \/ Pass
  \/ \E c \in Clients : CliStarts(c) \/ CliExits(c)
  \/ Executing \/ Background

Spec == Init /\ [][Next]_vars

(* The page's own passes, the clients' next calls, the answers of servers, *)
(* the begin of a run and its end are not put off for ever.  Nothing is   *)
(* assumed of the user, of failures, or of calls that could be answered.   *)
FairSpec ==
  /\ Spec
  /\ WF_vars(Pass)
  /\ \A c \in Clients : WF_vars(ClientStep(c) /\ UNCHANGED pageVars)
  /\ \A c \in Clients : WF_vars(CliExits(c))
  /\ WF_vars((SimulationEnds \/ StartSettled \/ ServerComesUp) /\ UNCHANGED pageVars)

-----------------------------------------------------------------------------
(* Every variable has its type.                                            *)
TypeOK ==
  /\ ClientTypeOK
  /\ page \in {"idle", "pass", "running", "checking"}
  /\ doc \in Entered
  /\ act \in Buttons \union {"none", "edit"}
  /\ observed \in Entered \union {None}
  /\ shown \in Entered \union {None, Refused}
  /\ missed \in BOOLEAN
  /\ acts \in 0..MaxActs

(* When the page is at rest, the result it shows belongs to the inputs it  *)
(* shows, unless the inputs were changed with the simulation of changes    *)
(* turned off.                                                             *)
ShownIsCurrent ==
  page = "idle" /\ shown \in Documents /\ ~missed => shown = doc

(* Whatever fails, every execution returns: no call, poll or wait keeps    *)
(* the lock for ever.                                                      *)
ExecutionsReturn == \A c \in Clients : pc[c] # "idle" ~> pc[c] = "idle"
=============================================================================
