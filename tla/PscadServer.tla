------------------------------ MODULE PscadServer ------------------------------
(***************************************************************************)
(* PSCAD and the MCP server in front of it, as the clients see them        *)
(* (pscad_mcp_server.py, pscad_gui.py).  The project-local server keeps    *)
(* one connection to a PSCAD editor, starts the editor when there is none, *)
(* and runs a project to its end before it answers; other servers          *)
(* acknowledge the start of a run that begins when PSCAD gets to it.  PSCAD*)
(* itself is external: it holds the parameters last written, simulates a   *)
(* copy of them, and writes one output file while it does.                 *)
(***************************************************************************)
EXTENDS Integers, Sequences, FiniteSets

CONSTANTS
  Items,      \* what a manifest writes, in order: project settings, components
  Documents,  \* the input documents a manifest can come from
  Listening,  \* what may already listen on the server's port
  Editors,    \* what the editor may be: "closed", "shown", "windowless"
  MaxFaults   \* bound of the model: failures of calls, server and editor

ASSUME ServerAssumption ==
  /\ Items \in Seq(STRING) /\ Items # <<>>
  /\ Documents \subseteq Nat \ {0}
  /\ Listening \subseteq {"down", "blocking", "acknowledging", "stock"}
  /\ Editors \subseteq {"closed", "shown", "windowless"}
  /\ MaxFaults \in Nat

(* The value of a parameter in the project file, the editor at rest, and   *)
(* no output file.                                                         *)
Saved == 0
Idle == <<>>
NoFile == [of |-> <<>>, whole |-> FALSE]

VARIABLES
  server,    \* "down", "starting", or the kind of server on the port
  attached,  \* the server holds a connection to an editor
  editor,    \* "closed", "shown", or "windowless": no accessible window
  param,     \* param[i]: the document parameter i was last written from
  sim,       \* Idle, or the parameters being built and simulated
  queued,    \* PSCAD acknowledged a start that it has not begun
  psout,     \* NoFile, or what the output file is of, and whether it is whole
  faults     \* failures so far

serverVars == <<server, attached, editor, param, sim, queued, psout, faults>>

Places == 1..Len(Items)
AllSaved == [i \in Places |-> Saved]
WrittenFrom(d) == [i \in Places |-> d]

ServerInit ==
  /\ server \in Listening
  /\ attached = FALSE
  /\ editor \in Editors
  /\ param = AllSaved
  /\ sim = Idle
  /\ queued = FALSE
  /\ psout = [of |-> AllSaved, whole |-> TRUE]
  /\ faults = 0

-----------------------------------------------------------------------------
(* The server.                                                             *)

Answers == server \in {"blocking", "acknowledging", "stock"}

Connected == Answers /\ attached

(* The editor has a visible window that can be brought to the foreground.  *)
show_pscad_window == editor = "shown"

(* attach_local keeps a living connection whose window can be shown.       *)
Reuse ==
  /\ attached /\ show_pscad_window
  /\ UNCHANGED <<attached, editor, param>>

(* connect_or_launch: connect to the editor that runs, once it is idle, or *)
(* launch one with the workspace loaded.                                   *)
ConnectOrLaunch ==
  /\ ~(attached /\ show_pscad_window)
  /\ editor \in {"closed", "shown"}
  /\ sim = Idle
  /\ attached' = TRUE
  /\ editor' = "shown"
  /\ param' = IF editor = "closed" THEN AllSaved ELSE param

Fails ==
  /\ faults < MaxFaults
  /\ faults' = faults + 1

(* attach_local gave up: the editor has no window, or cannot be started.   *)
(* The connection held so far is forgotten first.                          *)
AttachFails ==
  /\ ~(attached /\ show_pscad_window)
  /\ IF editor = "windowless" THEN faults' = faults ELSE Fails
  /\ attached' = FALSE
  /\ UNCHANGED <<editor, param>>

attach_local == Reuse \/ ConnectOrLaunch

(* PSCAD starts to simulate the parameters it holds.                       *)
StartSimulation ==
  /\ sim = Idle
  /\ sim' = param

-----------------------------------------------------------------------------
(* What happens without a call.                                            *)

ServerListens ==
  /\ server = "starting"
  /\ server' = "blocking"
  /\ UNCHANGED <<attached, editor, param, sim, queued, faults>>

ServerDies ==
  /\ server # "down"
  /\ Fails
  /\ server' = "down"
  /\ attached' = FALSE
  /\ UNCHANGED <<editor, param, sim, queued>>

(* The user closes the editor: what was not saved is gone, and so is the   *)
(* simulation.                                                             *)
EditorCloses ==
  /\ editor # "closed"
  /\ Fails
  /\ editor' = "closed"
  /\ attached' = FALSE
  /\ param' = AllSaved
  /\ sim' = Idle
  /\ queued' = FALSE
  /\ UNCHANGED server

WindowIsLost ==
  /\ editor = "shown"
  /\ Fails
  /\ editor' = "windowless"
  /\ UNCHANGED <<server, attached, param, sim, queued>>

(* A start that was acknowledged is begun later, on the parameters PSCAD   *)
(* holds then, or comes to nothing.                                        *)
RunBegins ==
  /\ queued
  /\ StartSimulation
  /\ queued' = FALSE

StartForgotten ==
  /\ queued
  /\ queued' = FALSE
  /\ sim' = sim

(* The simulation writes its output as it goes.                            *)
WriteOutput ==
  /\ sim # Idle
  /\ psout' = [of |-> sim, whole |-> FALSE]
  /\ sim' = sim

(* It ends with the whole output; a run that fails ends without, before it *)
(* has written anything.                                                   *)
FinishWithOutput ==
  /\ sim # Idle
  /\ psout' = [of |-> sim, whole |-> TRUE]
  /\ sim' = Idle

FinishWithout ==
  /\ sim # Idle
  /\ psout = NoFile \/ psout.whole
  /\ psout' = psout
  /\ sim' = Idle
=============================================================================
