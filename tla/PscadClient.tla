------------------------------ MODULE PscadClient ------------------------------
(***************************************************************************)
(* How a manifest is executed (pscad_mcp_client.py, pscad_run_lock.py).  A *)
(* client takes the lock of the server's port, makes sure a server and a   *)
(* visible editor are there, writes every parameter of its manifest, has   *)
(* the case built and run, waits for the run, and takes the output file    *)
(* only if it is new.  Any call may fail; the lock is released all the     *)
(* same, even while PSCAD still simulates.                                 *)
(***************************************************************************)
EXTENDS PscadServer

CONSTANTS
  Clients,   \* the processes that execute manifests
  Port,      \* Port[c]: the port in c's server URL
  Host,      \* Host[c]: the host name in it, "localhost" or "127.0.0.1"
  MaxPolls   \* status polls that fit in max_poll_s

ASSUME ClientAssumption ==
  /\ IsFiniteSet(Clients)
  /\ Port \in [Clients -> Nat]
  /\ Host \in [Clients -> {"localhost", "127.0.0.1"}]
  /\ MaxPolls \in Nat

(* What is to be executed: the document of the manifest (0: no calls), and *)
(* the settings of PscadRuntimeConfig.                                     *)
Jobs == [doc : Documents \union {0}, run : BOOLEAN, workspace : BOOLEAN, read : BOOLEAN]
NoJob == [doc |-> 0, run |-> FALSE, workspace |-> FALSE, read |-> FALSE]

(* The steps of an execution in which a call is outstanding.               *)
Calling == {"visible", "status", "load", "write", "prepare", "build", "run", "wait", "poll",
            "messages", "output", "read"}
Running == {"build", "run", "wait", "sleep", "poll", "look", "messages"}
Holding == Calling \union {"server", "spawned", "sleep", "look", "leave"}

VARIABLES
  held,     \* the keys of the locked lock files
  pc,       \* pc[c]: the step c is at
  job,      \* job[c]: what c executes
  item,     \* item[c]: the next item of the manifest to write
  seen,     \* seen[c]: a poll has seen the run under way
  polls,    \* polls[c]: status polls made
  fresh,    \* fresh[c]: the file changed since c's snapshot of it
  error,    \* error[c]: the result has errors
  output,   \* output[c]: the output the result holds
  left,     \* history: what PSCAD was simulating when c took the lock
  owed,     \* history: PSCAD had a start to begin then
  awaited   \* history: c was told that a run is over

resultVars == <<seen, polls, output, left, owed, awaited>>
clientVars == <<held, pc, job, item, seen, polls, fresh, error, output,
                left, owed, awaited>>

ClientInit ==
  /\ ServerInit
  /\ held = {}
  /\ pc = [c \in Clients |-> "idle"]
  /\ job = [c \in Clients |-> NoJob]
  /\ item = [c \in Clients |-> 1]
  /\ seen = [c \in Clients |-> FALSE]
  /\ polls = [c \in Clients |-> 0]
  /\ fresh = [c \in Clients |-> FALSE]
  /\ error = [c \in Clients |-> FALSE]
  /\ output = [c \in Clients |-> NoFile]
  /\ left = [c \in Clients |-> Idle]
  /\ owed = [c \in Clients |-> FALSE]
  /\ awaited = [c \in Clients |-> FALSE]

Goto(c, step) == pc' = [pc EXCEPT ![c] = step]
Errs(c, wrong) == error' = [error EXCEPT ![c] = @ \/ wrong]
KeepServer == UNCHANGED serverVars

-----------------------------------------------------------------------------
(* exclusive_pscad_run: one lock file per port, whatever the host name.    *)
lock_key_ByUrl(c) == <<Host[c], Port[c]>>
lock_key(c) == Port[c]

(* execute_pscad_manifest.  A client that does not get the lock returns an *)
(* error at once.                                                          *)
execute_pscad_manifest(c, j) ==
  /\ pc[c] = "idle"
  /\ job' = [job EXCEPT ![c] = j]
  /\ left' = [left EXCEPT ![c] = sim]
  /\ owed' = [owed EXCEPT ![c] = queued]
  /\ IF lock_key(c) \in held
     THEN Goto(c, "done") /\ Errs(c, TRUE) /\ held' = held
     ELSE Goto(c, "server") /\ Errs(c, FALSE) /\ held' = held \union {lock_key(c)}
  /\ KeepServer /\ UNCHANGED <<item, fresh, seen, polls, output, awaited>>

(* _ensure_persistent_mcp_server: use the server on the port, or spawn one *)
(* and wait for it to listen, for 30 seconds at most.                      *)
FindServer(c) ==
  /\ pc[c] = "server"
  /\ IF Answers THEN Goto(c, "visible") /\ server' = server
                ELSE Goto(c, "spawned") /\ server' = "starting"
  /\ UNCHANGED <<attached, editor, param, sim, queued, psout, faults>>
  /\ UNCHANGED <<held, job, item, fresh, error, resultVars>>

ServerIsUp(c) ==
  /\ pc[c] = "spawned" /\ Answers
  /\ Goto(c, "visible")
  /\ KeepServer /\ UNCHANGED <<held, job, item, fresh, error, resultVars>>

(* It exited, or the deadline passed: then it is terminated, even if it    *)
(* has come up since the last look.                                        *)
ServerGivenUp(c) ==
  /\ pc[c] = "spawned"
  /\ IF server = "down" THEN faults' = faults ELSE Fails
  /\ server' = "down"
  /\ attached' = FALSE
  /\ Errs(c, TRUE) /\ Goto(c, "leave")
  /\ UNCHANGED <<editor, param, sim, queued, psout>>
  /\ UNCHANGED <<held, job, item, fresh, resultVars>>

(* The outstanding call cannot be answered: the server or the connection   *)
(* is gone, or the tool is unknown.                                        *)
Unanswerable(c) ==
  \/ ~Answers
  \/ pc[c] = "visible" /\ server = "stock"
  \/ pc[c] \notin {"visible", "status"} /\ ~Connected

(* Any call, or the removal of a file in use, may raise: the error is      *)
(* recorded and the execution ends, even if PSCAD simulates on.            *)
CallRaises(c) ==
  /\ pc[c] \in Calling
  /\ IF Unanswerable(c) THEN faults' = faults ELSE Fails
  /\ Errs(c, TRUE) /\ Goto(c, "leave")
  /\ UNCHANGED <<server, attached, editor, param, sim, queued, psout>>
  /\ UNCHANGED <<held, job, item, fresh, resultVars>>

(* The caller has the result; nothing of the execution is kept.            *)
Return(c) ==
  /\ pc[c] = "done"
  /\ Goto(c, "idle")
  /\ job' = [job EXCEPT ![c] = NoJob]
  /\ error' = [error EXCEPT ![c] = FALSE]
  /\ output' = [output EXCEPT ![c] = NoFile]
  /\ left' = [left EXCEPT ![c] = Idle]
  /\ owed' = [owed EXCEPT ![c] = FALSE]
  /\ awaited' = [awaited EXCEPT ![c] = FALSE]
  /\ KeepServer /\ UNCHANGED <<held, item, fresh, seen, polls>>

-----------------------------------------------------------------------------
(* ensure_visible_pscad.  A stock server has no such tool.                 *)
EnsureVisible(c) ==
  /\ pc[c] = "visible" /\ Answers /\ server # "stock"
  /\ \/ attach_local /\ Goto(c, "status") /\ Errs(c, FALSE) /\ faults' = faults
     \/ AttachFails /\ Goto(c, "leave") /\ Errs(c, TRUE)
  /\ UNCHANGED <<server, sim, queued, psout>>
  /\ UNCHANGED <<held, job, item, fresh, resultVars>>

(* get_pscad_status, and once more after get_local_pscad.                  *)
VerifyConnection(c) ==
  /\ pc[c] = "status" /\ Answers
  /\ \/ Connected /\ UNCHANGED <<attached, editor, param>> /\ Goto(c, "load")
     \/ ~Connected /\ attach_local /\ Goto(c, "load")
  /\ UNCHANGED <<server, sim, queued, psout, faults>>
  /\ UNCHANGED <<held, job, item, fresh, error, resultVars>>

AfterWrites(c) == IF job[c].run THEN "prepare" ELSE "leave"

(* load_projects: a project that is open may be kept or read again.        *)
LoadProjects(c) ==
  /\ pc[c] = "load" /\ Connected
  /\ \/ param' = param
     \/ job[c].workspace /\ param' = AllSaved
  /\ Goto(c, IF job[c].doc = 0 THEN AfterWrites(c) ELSE "write")
  /\ UNCHANGED <<server, attached, editor, sim, queued, psout, faults>>
  /\ UNCHANGED <<held, job, item, fresh, error, resultVars>>

(* set_project_settings and set_component_parameters, one call after the   *)
(* other.                                                                  *)
WriteParameters(c) ==
  /\ pc[c] = "write" /\ Connected
  /\ param' = [param EXCEPT ![item[c]] = job[c].doc]
  /\ IF item[c] < Len(Items)
     THEN item' = [item EXCEPT ![c] = @ + 1] /\ pc' = pc
     ELSE item' = [item EXCEPT ![c] = 1] /\ Goto(c, AfterWrites(c))
  /\ UNCHANGED <<server, attached, editor, sim, queued, psout, faults>>
  /\ UNCHANGED <<held, job, fresh, error, resultVars>>

-----------------------------------------------------------------------------
Prepare_KeepsOutput(c) ==
  /\ pc[c] = "prepare"
  /\ fresh' = [fresh EXCEPT ![c] = psout # NoFile]
  /\ Goto(c, "build")
  /\ KeepServer /\ UNCHANGED <<held, job, item, error, resultVars>>

(* _psout_snapshot, then _remove_previous_psout.  Both look only into the  *)
(* folders of the workspace files.                                         *)
Prepare(c) ==
  /\ pc[c] = "prepare"
  /\ fresh' = [fresh EXCEPT ![c] = FALSE]
  /\ psout' = IF job[c].workspace THEN NoFile ELSE psout
  /\ Goto(c, "build")
  /\ UNCHANGED <<server, attached, editor, param, sim, queued, faults>>
  /\ UNCHANGED <<held, job, item, error, resultVars>>

(* build_project and get_build_messages: reported errors skip the run.     *)
BuildProject(c) ==
  /\ pc[c] = "build" /\ Connected
  /\ \/ Goto(c, "run") /\ Errs(c, FALSE)
     \/ Goto(c, "output") /\ Errs(c, TRUE)
  /\ KeepServer /\ UNCHANGED <<held, job, item, fresh, resultVars>>

(* run_project.  The project-local server answers when the run is over;    *)
(* another acknowledges a start that PSCAD begins later, or declines.      *)
RunProject(c) ==
  /\ pc[c] = "run" /\ Connected
  /\ \/ /\ server = "blocking" /\ ~queued /\ StartSimulation /\ queued' = queued
        /\ Goto(c, "wait") /\ Errs(c, FALSE)
     \/ /\ server = "acknowledging" /\ queued' = TRUE /\ sim' = sim
        /\ Goto(c, "sleep") /\ Errs(c, FALSE)
     \/ /\ server = "acknowledging" /\ UNCHANGED <<queued, sim>>
        /\ Goto(c, "messages") /\ Errs(c, TRUE)
  /\ UNCHANGED <<server, attached, editor, param, psout, faults>>
  /\ UNCHANGED <<held, job, item, fresh, resultVars>>

RunReturns(c) ==
  /\ pc[c] = "wait" /\ Connected /\ sim = Idle
  /\ awaited' = [awaited EXCEPT ![c] = TRUE]
  /\ Goto(c, "messages")
  /\ KeepServer /\ UNCHANGED <<held, job, item, fresh, error, seen, polls, output, left, owed>>

-----------------------------------------------------------------------------
(* A file of this run is there.                                            *)
HasFresh(c) == job[c].workspace /\ fresh[c] /\ psout # NoFile

PollAgain_NoDeadline(c) ==
  /\ Goto(c, "poll")
  /\ polls' = [polls EXCEPT ![c] = IF @ < MaxPolls THEN @ + 1 ELSE @]

(* _poll_run_status: the next status is asked for, unless the deadline has *)
(* passed; before the first, too.                                          *)
PollAgain(c) ==
  \/ polls[c] < MaxPolls /\ Goto(c, "poll") /\ polls' = [polls EXCEPT ![c] = @ + 1]
  \/ Goto(c, "messages") /\ polls' = polls

Wake(c) ==
  /\ pc[c] = "sleep"
  /\ PollAgain(c)
  /\ KeepServer
  /\ UNCHANGED <<held, job, item, fresh, error, seen, output, left, owed, awaited>>

(* What the status says: the run is under way; or it was and is over; or   *)
(* neither, and then the file decides.                                     *)
Poll(c) ==
  /\ pc[c] = "poll" /\ Connected
  /\ seen' = [seen EXCEPT ![c] = @ \/ sim # Idle]
  /\ awaited' = [awaited EXCEPT ![c] = @ \/ (seen[c] /\ sim = Idle)]
  /\ Goto(c, IF sim # Idle THEN "sleep" ELSE IF seen[c] THEN "messages" ELSE "look")
  /\ KeepServer /\ UNCHANGED <<held, job, item, fresh, error, polls, output, left, owed>>

(* The look at the file, which may have changed since the status was given.*)
Look(c) ==
  /\ pc[c] = "look"
  /\ Goto(c, IF HasFresh(c) THEN "messages" ELSE "sleep")
  /\ KeepServer /\ UNCHANGED <<held, job, item, fresh, error, resultVars>>

(* get_build_messages again, and what became of the output file.  Without  *)
(* workspace files nobody knows where the file would be.                   *)
CollectOutput(c) ==
  /\ pc[c] = "messages" /\ Connected
  /\ output' = [output EXCEPT ![c] = IF HasFresh(c) THEN psout ELSE NoFile]
  /\ \E reported \in BOOLEAN : Errs(c, reported \/ (job[c].workspace /\ ~HasFresh(c)))
  /\ Goto(c, "output")
  /\ KeepServer /\ UNCHANGED <<held, job, item, fresh, seen, polls, left, owed, awaited>>

(* get_project_output.                                                     *)
GetProjectOutput(c) ==
  /\ pc[c] = "output" /\ Connected
  /\ Goto(c, IF job[c].read /\ ~error[c] THEN "read" ELSE "leave")
  /\ KeepServer /\ UNCHANGED <<held, job, item, fresh, error, resultVars>>

(* list_output_channels and read_selected_channels: nothing to read, or a  *)
(* channel that is missing, is an error.                                   *)
ReadOutput(c) ==
  /\ pc[c] = "read" /\ Connected
  /\ \/ /\ output[c] # NoFile /\ psout # NoFile
        /\ output' = [output EXCEPT ![c] = psout]
        /\ Errs(c, FALSE)
     \/ Errs(c, TRUE) /\ output' = output
  /\ Goto(c, "leave")
  /\ KeepServer /\ UNCHANGED <<held, job, item, fresh, seen, polls, left, owed, awaited>>

(* A result whose editor has lost its window is an error; the lock is      *)
(* released whatever happened.                                             *)
Release(c) ==
  /\ pc[c] = "leave"
  /\ held' = held \ {lock_key(c)}
  /\ Errs(c, ~show_pscad_window)
  /\ Goto(c, "done")
  /\ item' = [item EXCEPT ![c] = 1]
  /\ fresh' = [fresh EXCEPT ![c] = FALSE]
  /\ seen' = [seen EXCEPT ![c] = FALSE]
  /\ polls' = [polls EXCEPT ![c] = 0]
  /\ KeepServer /\ UNCHANGED <<job, output, left, owed, awaited>>

(* What PSCAD and the server do by themselves; a file PSCAD writes differs *)
(* from every snapshot.                                                    *)
PscadWrites ==
  /\ WriteOutput \/ FinishWithOutput
  /\ fresh' = [c \in Clients |-> fresh[c] \/ pc[c] \in Running]
  /\ UNCHANGED <<server, attached, editor, param, queued, faults>>
  /\ UNCHANGED <<held, pc, job, item, error, resultVars>>

PscadStops ==
  /\ FinishWithout
  /\ UNCHANGED <<server, attached, editor, param, queued, faults, clientVars>>

StartSettled ==
  /\ RunBegins \/ StartForgotten
  /\ UNCHANGED <<server, attached, editor, param, psout, faults, clientVars>>

Failure ==
  /\ ServerDies \/ EditorCloses \/ WindowIsLost
  /\ UNCHANGED <<psout, clientVars>>

ServerComesUp ==
  /\ ServerListens
  /\ UNCHANGED <<psout, clientVars>>

SimulationEnds ==
  /\ FinishWithOutput \/ FinishWithout
  /\ PscadWrites \/ PscadStops

ClientStep(c) ==
  \/ FindServer(c) \/ ServerIsUp(c) \/ ServerGivenUp(c)
  \/ EnsureVisible(c) \/ VerifyConnection(c) \/ LoadProjects(c)
  \/ WriteParameters(c) \/ Prepare(c) \/ BuildProject(c)
  \/ RunProject(c) \/ RunReturns(c) \/ Wake(c) \/ Poll(c) \/ Look(c)
  \/ CollectOutput(c) \/ GetProjectOutput(c) \/ ReadOutput(c) \/ Release(c)
  \/ CallRaises(c)

-----------------------------------------------------------------------------
Values == Documents \union {Saved}
Parameters == [Places -> Values]
Files == [of : Parameters \union {Idle}, whole : BOOLEAN]

ClientTypeOK ==
  /\ server \in {"down", "starting", "blocking", "acknowledging", "stock"}
  /\ attached \in BOOLEAN
  /\ editor \in {"closed", "shown", "windowless"}
  /\ param \in Parameters /\ sim \in Parameters \union {Idle} /\ queued \in BOOLEAN
  /\ psout \in Files /\ faults \in 0..MaxFaults
  /\ held \subseteq {lock_key(c) : c \in Clients}
  /\ pc \in [Clients -> Holding \union {"idle", "done"}]
  /\ job \in [Clients -> Jobs] /\ item \in [Clients -> Places]
  /\ seen \in [Clients -> BOOLEAN] /\ polls \in [Clients -> 0..MaxPolls]
  /\ fresh \in [Clients -> BOOLEAN] /\ error \in [Clients -> BOOLEAN]
  /\ output \in [Clients -> Files]
  /\ left \in [Clients -> Parameters \union {Idle}]
  /\ owed \in [Clients -> BOOLEAN] /\ awaited \in [Clients -> BOOLEAN]

(* No two executions on one port are under way at a time, from the search  *)
(* for the server to the last look at the editor.                          *)
OneOwner ==
  \A c, d \in Clients :
    pc[c] \in Holding /\ pc[d] \in Holding /\ Port[c] = Port[d] => c = d

(* A run that reports no error, with no start of an earlier execution      *)
(* outstanding when it began, holds output simulated from one manifest,    *)
(* never an earlier run's waveform or a mixture of two manifests: its own, *)
(* or that of a simulation an earlier execution left at work.  If PSCAD    *)
(* was at rest, and said that the run was over, the output is whole; an    *)
(* execution that stopped waiting at the deadline, or at the sight of a    *)
(* file, may hold a part of it.                                            *)
TrustedOutput ==
  \A c \in Clients :
    pc[c] = "done" /\ ~error[c] /\ job[c].run /\ job[c].workspace /\ ~owed[c] =>
      /\ \/ output[c].of = WrittenFrom(job[c].doc)
         \/ left[c] # Idle /\ output[c].of = left[c]
      /\ left[c] = Idle /\ awaited[c] => output[c].whole
=============================================================================
