-------------------------------- MODULE MCPscad --------------------------------
(* One dashboard and one command line on the default port of PSCAD's       *)
(* server; a manifest of project settings and one component.               *)
EXTENDS Dashboard

TwoItems == <<"settings", "breaker">>
TwoClients == {"dashboard", "cli"}
OnePort == [c \in TwoClients |-> 8765]
TwoHosts == [c \in TwoClients |-> IF c = "cli" THEN "localhost" ELSE "127.0.0.1"]
(* Runs with the workspace, whose output is read.                          *)
Complete == [doc |-> 1, run |-> TRUE, workspace |-> TRUE, read |-> TRUE]
FullRun == {Complete}
OneCommandLine == {[Complete EXCEPT !.doc = 2]}
=============================================================================
