------------------------------ MODULE PowerPlane ------------------------------
(***************************************************************************)
(* The switchable low-voltage feeder (power_plane.py): lines that are open *)
(* or closed, and the controller's commands that switch them.  A command   *)
(* is turned into requests, at most one per line, and the requests are     *)
(* applied one after the other, each to the state the one before left.     *)
(* With preserve_radial a closing that would close a loop is rejected.     *)
(***************************************************************************)
EXTENDS Integers, Sequences, FiniteSets

CONSTANTS
  Nodes,            \* the buses
  Lines,            \* line identifiers, numbered in the order of the topology
  Ends,             \* Ends[l]: the two buses line l joins
  InitiallyClosed,  \* the lines the topology declares closed
  NormallyClosed,   \* the lines a restoration may close
  preserve_radial,
  Commands,         \* the commands the controller may send
  MaxCommands       \* bound of the model: commands in one run

(* What a command leaves out, and a line identifier no line has.           *)
None == -1
UnknownLine == 0

Actions == {"reroute_power_path", "apply_switch_set", "open_line", "close_line",
            "isolate_node", "restore_node"}

(* Nodes and edges of a command need not exist.  A path has no self-loops: *)
(* NetworkControlCommand and command_edges_for_path refuse them.           *)
Command == [at : Nat, action : Actions, source : Nat \union {None},
            destination : Nat \union {None}, node : Nat \union {None},
            line : Lines \union {None, UnknownLine}, path : Seq(Nat),
            open : Seq(SUBSET Nat), close : Seq(SUBSET Nat), blocked : SUBSET Nat]

ASSUME PowerAssumption ==
  /\ Nodes \subseteq Nat /\ Lines \subseteq Nat \ {UnknownLine}
  /\ IsFiniteSet(Lines)
  /\ Ends \in [Lines -> SUBSET Nodes]
  /\ \A l \in Lines : \E a, b \in Nodes : a # b /\ Ends[l] = {a, b}
  /\ \A k, l \in Lines : Ends[k] = Ends[l] => k = l
  /\ InitiallyClosed \subseteq Lines /\ NormallyClosed \subseteq Lines
  /\ preserve_radial \in BOOLEAN
  /\ Commands \subseteq Command
  /\ MaxCommands \in Nat

VARIABLES
  closed,   \* the lines that are closed
  phase,    \* "ready" for a command, "switching", or "raised": an exception
  command,  \* the command being applied
  pending,  \* its requests not yet applied
  done,     \* the operations it has led to
  plans     \* the history of switching plans

powerVars == <<closed, phase, command, pending, done, plans>>

NoCommand == [at |-> 0, action |-> "apply_switch_set", source |-> None,
              destination |-> None, node |-> None, line |-> None, path |-> <<>>,
              open |-> <<>>, close |-> <<>>, blocked |-> {}]

Init ==
  /\ closed = InitiallyClosed
  /\ phase = "ready"
  /\ command = NoCommand
  /\ pending = {}
  /\ done = {}
  /\ plans = <<>>

-----------------------------------------------------------------------------
(* What a command asks for.                                                *)

Known(edge) == \E l \in Lines : Ends[l] = edge
LineAt(edge) == CHOOSE l \in Lines : Ends[l] = edge
Positions(edges) == {i \in DOMAIN edges : Known(edges[i])}

command_edges_for_path(path) == [i \in 1..(Len(path) - 1) |-> {path[i], path[i + 1]}]

(* The nodes a command is to cut off, and the lines at a set of nodes.     *)
Isolates(c) == c.action \in {"isolate_node", "reroute_power_path"}
Isolated(c) == IF Isolates(c) THEN c.blocked \union ({c.node} \ {None}) ELSE {}
_incident_lines(S) == {l \in Lines : Ends[l] \intersect S # {}}

Switches(c) ==
  c.action \in {"apply_switch_set", "open_line", "close_line", "reroute_power_path"}

(* Requests to open or close the lines at some edges, or the lines of S.   *)
EdgeRequests(edges, close, group) ==
  {[line |-> LineAt(edges[i]), close |-> close, rank |-> <<group, i>>] : i \in Positions(edges)}

LineRequests(S, close, group) ==
  {[line |-> l, close |-> close, rank |-> <<group, l>>] : l \in S}

(* The requests in the order they are collected, rank telling the place:   *)
(* the target line, open_lines, close_lines, isolation, restoration, path. *)
Collected(c) ==
  UNION {
    IF c.action \in {"open_line", "close_line"}
      THEN LineRequests({c.line} \ {None}, c.action = "close_line", 1) ELSE {},
    IF Switches(c)
      THEN EdgeRequests(c.open, FALSE, 2) \union EdgeRequests(c.close, TRUE, 3) ELSE {},
    LineRequests(_incident_lines(Isolated(c)), FALSE, 4),
    IF c.action = "restore_node"
      THEN LineRequests(_incident_lines({c.node}) \intersect NormallyClosed, TRUE, 5) ELSE {},
    IF c.action = "reroute_power_path"
      THEN EdgeRequests(command_edges_for_path(c.path), TRUE, 6) ELSE {}}

Earlier(r, s) == r[1] < s[1] \/ (r[1] = s[1] /\ r[2] < s[2])

_dedupe_switch_requests_LastWins(R) ==
  {r \in R : \A s \in R : s.line = r.line => ~Earlier(r.rank, s.rank)}

(* One request per line, at the place of the first; an opening prevails.   *)
_dedupe_switch_requests(R) ==
  {[r EXCEPT !.close = \A s \in R : s.line = r.line => s.close] :
     r \in {q \in R : \A s \in R : s.line = q.line => ~Earlier(s.rank, q.rank)}}

_requested_switches(c) == _dedupe_switch_requests(Collected(c))

(* _validate_command: whether the plan carries a warning.                  *)
Warned(c) ==
  \/ ~((({c.source, c.destination, c.node} \ {None}) \union c.blocked
         \union {c.path[i] : i \in DOMAIN c.path}) \subseteq Nodes)
  \/ c.path # <<>> /\ c.source # None /\ c.path[1] # c.source
  \/ c.path # <<>> /\ c.destination # None /\ c.path[Len(c.path)] # c.destination
  \/ \E i \in DOMAIN c.path : c.path[i] \in c.blocked \union Isolated(c)
  \/ \E edges \in {command_edges_for_path(c.path), c.open, c.close} :
       Positions(edges) # DOMAIN edges
  \/ c.line = UnknownLine

-----------------------------------------------------------------------------
(* Paths over closed lines: S joins a and b if every set of nodes with a   *)
(* but not b has a line of S across its border.                            *)
Crosses(l, X) == Ends[l] \intersect X # {} /\ ~(Ends[l] \subseteq X)
Separates(S, X, l) == Crosses(l, X) /\ \A k \in S : ~Crosses(k, X)

_would_create_cycle_Stale(l) ==
  LET before == (closed \ {o.line : o \in done}) \union {o.line : o \in {d \in done : d.before}}
  IN l \notin closed /\ ~\E X \in SUBSET Nodes : Separates(before, X, l)

_would_create_cycle(l) ==
  l \notin closed /\ ~\E X \in SUBSET Nodes : Separates(closed, X, l)

LastTime == IF plans = <<>> THEN 0 ELSE plans[Len(plans)].command.at

(* apply_command: chronological_commands hands the commands out in the     *)
(* order of their time.  A target line that does not exist is the first    *)
(* request and raises before anything is switched.                         *)
ApplyCommand(c) ==
  /\ phase = "ready"
  /\ Len(plans) < MaxCommands
  /\ LastTime <= c.at
  /\ command' = c
  /\ IF \E r \in _requested_switches(c) : r.line = UnknownLine
     THEN phase' = "raised" /\ pending' = {}
     ELSE phase' = "switching" /\ pending' = _requested_switches(c)
  /\ done' = {}
  /\ UNCHANGED <<closed, plans>>

First(r) == \A s \in pending : ~Earlier(s.rank, r.rank)

Operation(r, action, accepted) ==
  [line |-> r.line, close |-> r.close, action |-> action, before |-> r.line \in closed,
   accepted |-> accepted]

(* _apply_switch: a no-op, a rejection, or a change of the line.           *)
_apply_switch(r) ==
  /\ phase = "switching"
  /\ r \in pending /\ First(r)
  /\ pending' = pending \ {r}
  /\ IF (r.line \in closed) = r.close
     THEN closed' = closed /\ done' = done \union {Operation(r, "noop", TRUE)}
     ELSE IF r.close /\ preserve_radial /\ _would_create_cycle(r.line)
     THEN closed' = closed /\ done' = done \union {Operation(r, "close", FALSE)}
     ELSE /\ closed' = IF r.close THEN closed \union {r.line} ELSE closed \ {r.line}
          /\ done' = done \union {Operation(r, IF r.close THEN "close" ELSE "open", TRUE)}
  /\ UNCHANGED <<phase, command, plans>>

PlanDone_IgnoresRejections ==
  /\ phase = "switching"
  /\ pending = {}
  /\ phase' = "ready"
  /\ plans' = Append(plans, [command |-> command, operations |-> done, after |-> closed,
                            accepted |-> ~Warned(command)])
  /\ UNCHANGED <<closed, command, pending, done>>

(* The plan is complete.  after is a history: the lines it left closed.    *)
PlanDone ==
  /\ phase = "switching"
  /\ pending = {}
  /\ phase' = "ready"
  /\ plans' = Append(plans,
       [command |-> command, operations |-> done, after |-> closed,
        accepted |-> ~Warned(command) /\ \A o \in done : o.accepted])
  /\ UNCHANGED <<closed, command, pending, done>>

Next ==
  \/ \E c \in Commands : ApplyCommand(c)
  \/ \E r \in pending : _apply_switch(r)
  \/ PlanDone

Spec == Init /\ [][Next]_powerVars

-----------------------------------------------------------------------------
Acyclic(S) == \A l \in S : \E X \in SUBSET Nodes : Separates(S \ {l}, X, l)

Operations == [line : Lines, close : BOOLEAN, action : {"noop", "open", "close"},
               before : BOOLEAN, accepted : BOOLEAN]

Plans == [command : Commands \union {NoCommand}, operations : SUBSET Operations,
          after : SUBSET Lines, accepted : BOOLEAN]

(* Every variable has its type.                                            *)
TypeOK ==
  /\ closed \subseteq Lines
  /\ phase \in {"ready", "switching", "raised"}
  /\ command \in Commands \union {NoCommand}
  /\ \A r \in pending : r.line \in Lines /\ r.close \in BOOLEAN
  /\ done \subseteq Operations
  /\ plans \in Seq(Plans)

(* A feeder that starts radial stays radial, over every single switch of   *)
(* every command, rejected and partly applied commands included.           *)
StaysRadial ==
  preserve_radial /\ Acyclic(InitiallyClosed) => Acyclic(closed)

(* When an isolating command is through, whatever else it asked for, no    *)
(* line to the nodes it isolates is closed.                                *)
IsolationHolds ==
  phase = "ready" /\ plans # <<>> =>
    closed \intersect _incident_lines(Isolated(plans[Len(plans)].command)) = {}

(* An accepted reroute leaves its whole path closed, except the lines the  *)
(* same command asked to open.                                             *)
AcceptedPathIsClosed ==
  \A k \in DOMAIN plans :
    plans[k].accepted /\ plans[k].command.action = "reroute_power_path" =>
      \A i \in DOMAIN command_edges_for_path(plans[k].command.path) :
        LET edge == command_edges_for_path(plans[k].command.path)[i]
        IN \/ LineAt(edge) \in plans[k].after
           \/ \E j \in DOMAIN plans[k].command.open : plans[k].command.open[j] = edge

(* README.md:91 of the power plane, "Rejected commands are still recorded  *)
(* in the research artifact, but produce no physical PSCAD switch          *)
(* transition": a plan that is not accepted changes no line.               *)
RejectedCommandsDoNotSwitch ==
  \A k \in DOMAIN plans :
    ~plans[k].accepted =>
      \A o \in plans[k].operations : o.accepted => o.action = "noop"
=============================================================================
