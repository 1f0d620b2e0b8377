------------------------ MODULE ControlPipeline_proofs ------------------------
(***************************************************************************)
(* The power side, for every feeder, batch of commands, request and        *)
(* earlier run, in three parts.                                            *)
(*                                                                         *)
(* The plane: a feeder that starts radial stays radial, an isolating       *)
(* command leaves the nodes it isolates cut off, and an accepted reroute   *)
(* leaves its path closed.  These theorems use PowerPlane alone.           *)
(*                                                                         *)
(* The pipeline: it runs the plane as PowerPlane specifies it, and the     *)
(* consistency checks of the compiler and the adapter never fire on the    *)
(* plane's plans.                                                          *)
(*                                                                         *)
(* The manifest: what the pipeline leaves in PSCAD, breakers that follow   *)
(* the plane, exactly the declared faults, the final state of a snapshot,  *)
(* and a preview that agrees with it.                                      *)
(***************************************************************************)
EXTENDS ControlPipeline, FiniteSetTheorems, WellFoundedInduction, TLAPS

-----------------------------------------------------------------------------
(* The power plane.                                                        *)

(* A nonempty set of naturals has a least element.                         *)
LEMMA LeastNumber ==
  ASSUME NEW T, T \subseteq Nat, T # {}
  PROVE  \E m \in T : \A n \in T : ~(n < m)
<1>1. \E m \in T : \A n \in T : <<n, m>> \notin OpToRel(<, Nat)
  BY WFMin, NatLessThanWellFounded
<1> QED
  BY <1>1 DEF OpToRel

(* Among requests with ranks there is always an earliest one.              *)
LEMMA EarliestRequest ==
  ASSUME NEW R, R # {}, \A r \in R : r.rank \in Nat \X Nat
  PROVE  \E r \in R : \A s \in R : ~Earlier(s.rank, r.rank)
<1> DEFINE Groups == {r.rank[1] : r \in R}
<1>1. PICK g \in Groups : \A h \in Groups : ~(h < g)
  BY LeastNumber
<1> DEFINE Places == {r.rank[2] : r \in {q \in R : q.rank[1] = g}}
<1>2. PICK p \in Places : \A o \in Places : ~(o < p)
  BY <1>1, LeastNumber
<1>3. PICK r \in R : r.rank[1] = g /\ r.rank[2] = p
  BY <1>2
<1> HIDE DEF Groups, Places
<1>4. ASSUME NEW s \in R
      PROVE  ~Earlier(s.rank, r.rank)
  <2>1. s.rank[1] \in Groups /\ (s.rank[1] = g => s.rank[2] \in Places)
    BY DEF Groups, Places
  <2> QED
    BY <1>1, <1>2, <1>3, <2>1 DEF Earlier
<1> QED
  BY <1>3, <1>4

SwitchRequest == [line : Lines \union {UnknownLine}, close : BOOLEAN, rank : Nat \X Nat]

(* What a command may ask for: lines of the feeder, or the unknown one.    *)
LEMMA CollectedType ==
  ASSUME NEW c \in Commands
  PROVE  Collected(c) \subseteq SwitchRequest
<1>1. c \in Command /\ Lines \subseteq Nat /\ UnknownLine \in Nat
  BY PowerAssumption DEF UnknownLine
<1>2. ASSUME NEW edges, DOMAIN edges \subseteq Nat,
             NEW close \in BOOLEAN, NEW group \in Nat
      PROVE  EdgeRequests(edges, close, group) \subseteq SwitchRequest
  <2>1. ASSUME NEW i \in Positions(edges)
        PROVE  i \in Nat /\ LineAt(edges[i]) \in Lines
    BY <1>2 DEF Positions, Known, LineAt
  <2> QED
    BY <1>2, <2>1 DEF EdgeRequests, SwitchRequest
<1>3. ASSUME NEW S, S \subseteq Lines \union {UnknownLine}, NEW close \in BOOLEAN,
             NEW group \in Nat
      PROVE  LineRequests(S, close, group) \subseteq SwitchRequest
  BY <1>1, <1>3 DEF LineRequests, SwitchRequest
<1>4. /\ DOMAIN c.open \subseteq Nat /\ DOMAIN c.close \subseteq Nat
      /\ DOMAIN command_edges_for_path(c.path) \subseteq Nat
      /\ {c.line} \ {None} \subseteq Lines \union {UnknownLine}
  BY <1>1 DEF Command, command_edges_for_path
<1>5. \A S : _incident_lines(S) \subseteq Lines
  BY DEF _incident_lines
<1>6. /\ EdgeRequests(c.open, FALSE, 2) \subseteq SwitchRequest
      /\ EdgeRequests(c.close, TRUE, 3) \subseteq SwitchRequest
      /\ EdgeRequests(command_edges_for_path(c.path), TRUE, 6) \subseteq SwitchRequest
  <2>1. EdgeRequests(c.open, FALSE, 2) \subseteq SwitchRequest
    BY <1>2, <1>4
  <2>2. EdgeRequests(c.close, TRUE, 3) \subseteq SwitchRequest
    BY <1>2, <1>4
  <2>3. EdgeRequests(command_edges_for_path(c.path), TRUE, 6) \subseteq SwitchRequest
    BY <1>2, <1>4
  <2> QED
    BY <2>1, <2>2, <2>3
<1>7. /\ LineRequests({c.line} \ {None}, c.action = "close_line", 1) \subseteq SwitchRequest
      /\ LineRequests(_incident_lines(Isolated(c)), FALSE, 4) \subseteq SwitchRequest
      /\ LineRequests(_incident_lines({c.node}) \intersect NormallyClosed, TRUE, 5)
           \subseteq SwitchRequest
  <2>1. LineRequests({c.line} \ {None}, c.action = "close_line", 1) \subseteq SwitchRequest
    BY <1>3, <1>4
  <2>2. LineRequests(_incident_lines(Isolated(c)), FALSE, 4) \subseteq SwitchRequest
    BY <1>3, <1>5
  <2>3. LineRequests(_incident_lines({c.node}) \intersect NormallyClosed, TRUE, 5)
          \subseteq SwitchRequest
    BY <1>3, <1>5
  <2> QED
    BY <2>1, <2>2, <2>3
<1> QED
  BY <1>6, <1>7, Zenon DEF Collected

(* The isolation asks to open every line at the nodes to isolate, and what *)
(* the deduplication leaves of the requests on such a line only opens it.  *)
LEMMA IsolationIsRequested ==
  ASSUME NEW c \in Commands, NEW l \in _incident_lines(Isolated(c))
  PROVE  /\ \E r \in _requested_switches(c) : r.line = l
         /\ \A r \in _requested_switches(c) : r.line = l => ~r.close
<1> DEFINE Mine == {q \in Collected(c) : q.line = l}
           opening == [line |-> l, close |-> FALSE, rank |-> <<4, l>>]
<1>1. opening \in Collected(c)
  BY DEF Collected, LineRequests
<1>2. Mine # {} /\ \A q \in Mine : q.rank \in Nat \X Nat
  BY <1>1, CollectedType DEF SwitchRequest
<1>3. PICK q \in Mine : \A s \in Mine : ~Earlier(s.rank, q.rank)
  BY <1>2, EarliestRequest
<1>4. [q EXCEPT !.close = \A s \in Collected(c) : s.line = q.line => s.close]
        \in _requested_switches(c)
  BY <1>3 DEF _requested_switches, _dedupe_switch_requests
<1>5. q = [line |-> l, close |-> q.close, rank |-> q.rank]
  BY <1>3, CollectedType DEF SwitchRequest
<1>6. \E r \in _requested_switches(c) : r.line = l
  BY <1>4, <1>5
<1>7. ASSUME NEW r \in _requested_switches(c), r.line = l
      PROVE  ~r.close
  <2>1. PICK o \in Collected(c) :
          r = [o EXCEPT !.close = \A s \in Collected(c) : s.line = o.line => s.close]
    BY DEF _requested_switches, _dedupe_switch_requests
  <2>2. o = [line |-> o.line, close |-> o.close, rank |-> o.rank]
    BY CollectedType DEF SwitchRequest
  <2>3. r.line = o.line /\ r.close = \A s \in Collected(c) : s.line = o.line => s.close
    BY <2>1, <2>2
  <2> QED
    BY <1>1, <1>7, <2>3
<1> QED
  BY <1>6, <1>7

(* The requests of a command that does not raise are requests on lines.    *)
LEMMA RequestsType ==
  ASSUME NEW c \in Commands
  PROVE  \A r \in _requested_switches(c) :
           r.line \in Lines \union {UnknownLine} /\ r.close \in BOOLEAN
<1> SUFFICES ASSUME NEW r \in _requested_switches(c)
             PROVE  r.line \in Lines \union {UnknownLine} /\ r.close \in BOOLEAN
  OBVIOUS
<1>1. PICK o \in Collected(c) :
        r = [o EXCEPT !.close = \A s \in Collected(c) : s.line = o.line => s.close]
  BY DEF _requested_switches, _dedupe_switch_requests
<1>2. o = [line |-> o.line, close |-> o.close, rank |-> o.rank] /\ o.line \in Lines \union {UnknownLine}
  BY CollectedType DEF SwitchRequest
<1>3. r.line = o.line /\ r.close = \A s \in Collected(c) : s.line = o.line => s.close
  BY <1>1, <1>2
<1>4. (\A s \in Collected(c) : s.line = o.line => s.close) \in BOOLEAN
  BY Zenon
<1> QED
  BY <1>2, <1>3, <1>4
-----------------------------------------------------------------------------
(* The types of PowerPlane, in every behaviour (power_plane.py).           *)
THEOREM TypeCorrect == Spec => []TypeOK
<1>1. Init => TypeOK
  BY PowerAssumption DEF Init, TypeOK
<1>2. TypeOK /\ [Next]_powerVars => TypeOK'
  <2> SUFFICES ASSUME TypeOK, [Next]_powerVars
               PROVE  TypeOK'
    OBVIOUS
  <2>1. ASSUME NEW c \in Commands, ApplyCommand(c)
        PROVE  TypeOK'
    <3>1. \A r \in pending' : r.line \in Lines /\ r.close \in BOOLEAN
      BY <2>1, RequestsType DEF ApplyCommand
    <3>2. phase' \in {"switching", "raised"} /\ command' = c /\ done' = {} /\ closed' = closed
          /\ plans' = plans
      BY <2>1 DEF ApplyCommand
    <3> QED
      BY <3>1, <3>2 DEF TypeOK
  <2>2. ASSUME NEW r \in pending, _apply_switch(r)
        PROVE  TypeOK'
    <3>1. pending' = pending \ {r} /\ phase' = phase /\ command' = command
      BY <2>2 DEF _apply_switch
    <3>2. r.line \in Lines
      BY DEF TypeOK
    <3>3. closed' \subseteq closed \union {r.line}
      BY <2>2 DEF _apply_switch
    <3>4. PICK action \in {"noop", "open", "close"}, accepted \in BOOLEAN :
            done' = done \union {Operation(r, action, accepted)}
      BY <2>2 DEF _apply_switch
    <3>5. Operation(r, action, accepted) \in Operations
      BY <3>2 DEF TypeOK, Operation, Operations
    <3>6. done' \subseteq Operations /\ plans' = plans
      BY <2>2, <3>4, <3>5 DEF TypeOK, _apply_switch
    <3> QED
      BY <3>1, <3>2, <3>3, <3>6 DEF TypeOK
  <2>3. CASE PlanDone
    <3> DEFINE plan == [command |-> command, operations |-> done, after |-> closed,
                        accepted |-> ~Warned(command) /\ \A o \in done : o.accepted]
    <3>1. plan.accepted \in BOOLEAN
      BY Zenon
    <3>2. plan \in Plans
      BY <3>1 DEF TypeOK, Plans
    <3>3. plans' = Append(plans, plan) /\ plans \in Seq(Plans)
      BY <2>3 DEF PlanDone, TypeOK
    <3> HIDE DEF plan
    <3>4. plans' \in Seq(Plans)
      BY <3>2, <3>3
    <3> QED
      BY <2>3, <3>4 DEF PlanDone, TypeOK
  <2>4. CASE UNCHANGED powerVars
    BY <2>4 DEF TypeOK, powerVars
  <2> QED
    BY <2>1, <2>2, <2>3, <2>4 DEF Next
<1> QED
  BY <1>1, <1>2, PTL DEF Spec

-----------------------------------------------------------------------------
(* Opening lines closes no loop.                                           *)
LEMMA FewerLinesStayAcyclic ==
  ASSUME NEW S, NEW T, T \subseteq S, Acyclic(S)
  PROVE  Acyclic(T)
BY DEF Acyclic, Separates

(* A set of nodes and another one: the border of their symmetric           *)
(* difference is crossed by exactly the lines that cross one of the two    *)
(* borders and not both.                                                   *)
LEMMA Difference ==
  ASSUME NEW l \in Lines, NEW X \in SUBSET Nodes, NEW Y \in SUBSET Nodes
  PROVE  LET Z == (X \ Y) \union (Y \ X)
         IN Crosses(l, Z) <=> ~(Crosses(l, X) <=> Crosses(l, Y))
<1>1. PICK a \in Nodes, b \in Nodes : a # b /\ Ends[l] = {a, b}
  BY PowerAssumption
<1>2. \A W : Crosses(l, W) <=> ~(a \in W <=> b \in W)
  BY <1>1 DEF Crosses
<1> QED
  BY <1>2

(* Closing a line whose ends are not joined closes no loop.  A border that *)
(* only line k crosses may also be crossed by the new line; the difference *)
(* with the border that only the new line crosses is then k's border.      *)
LEMMA JoiningStaysAcyclic ==
  ASSUME NEW S \in SUBSET Lines, Acyclic(S), NEW l \in Lines \ S,
         NEW X \in SUBSET Nodes, Separates(S, X, l)
  PROVE  Acyclic(S \union {l})
<1> SUFFICES ASSUME NEW k \in S \union {l}
             PROVE  \E Z \in SUBSET Nodes : Separates((S \union {l}) \ {k}, Z, k)
  BY DEF Acyclic
<1>1. CASE k = l
  BY <1>1 DEF Separates
<1>2. CASE k \in S
  <2>1. PICK Y \in SUBSET Nodes : Separates(S \ {k}, Y, k)
    BY <1>2 DEF Acyclic
  <2>2. CASE ~Crosses(l, Y)
    BY <2>1, <2>2 DEF Separates
  <2>3. CASE Crosses(l, Y)
    <3> DEFINE Z == (X \ Y) \union (Y \ X)
    <3>1. \A j \in Lines : Crosses(j, Z) <=> ~(Crosses(j, X) <=> Crosses(j, Y))
      BY Difference
    <3>2. Crosses(k, Z)
      BY <1>2, <2>1, <3>1 DEF Separates
    <3>3. \A j \in (S \union {l}) \ {k} : ~Crosses(j, Z)
      BY <2>1, <2>3, <3>1 DEF Separates
    <3> QED
      BY <3>2, <3>3 DEF Separates
  <2> QED
    BY <2>2, <2>3
<1> QED
  BY <1>1, <1>2

(* A radial feeder stays radial, for every feeder, batch of commands and   *)
(* initial state (PowerPlaneState._apply_switch, _would_create_cycle).     *)
THEOREM FeederStaysRadial == Spec => []StaysRadial
<1>1. Init => StaysRadial
  BY DEF Init, StaysRadial
<1>2. TypeOK /\ StaysRadial /\ [Next]_powerVars => StaysRadial'
  <2> SUFFICES ASSUME TypeOK, [Next]_powerVars,
                      preserve_radial, Acyclic(closed)
               PROVE  Acyclic(closed')
    BY DEF StaysRadial
  <2>1. ASSUME NEW r \in pending, _apply_switch(r)
        PROVE  Acyclic(closed')
    <3>1. r.line \in Lines /\ closed \subseteq Lines
      BY DEF TypeOK
    <3>2. CASE closed' \subseteq closed
      BY <3>2, FewerLinesStayAcyclic
    <3>3. CASE ~(closed' \subseteq closed)
      <4>1. closed' = closed \union {r.line} /\ r.line \notin closed /\ ~_would_create_cycle(r.line)
        BY <2>1, <3>3 DEF _apply_switch
      <4>2. PICK X \in SUBSET Nodes : Separates(closed, X, r.line)
        BY <4>1 DEF _would_create_cycle
      <4> QED
        BY <3>1, <4>1, <4>2, JoiningStaysAcyclic
    <3> QED
      BY <3>2, <3>3
  <2>2. CASE \E c \in Commands : ApplyCommand(c)
    BY <2>2 DEF ApplyCommand
  <2>3. CASE PlanDone \/ UNCHANGED powerVars
    BY <2>3 DEF PlanDone, powerVars
  <2> QED
    BY <2>1, <2>2, <2>3 DEF Next
<1> QED
  BY <1>1, <1>2, TypeCorrect, PTL DEF Spec

-----------------------------------------------------------------------------
(* While a command is applied, every line it is to isolate and that is     *)
(* still closed has its opening ahead, and no closing.                     *)
Isolating ==
  phase = "switching" =>
    \A l \in _incident_lines(Isolated(command)) :
      /\ \A r \in pending : r.line = l => ~r.close
      /\ l \in closed => \E r \in pending : r.line = l

(* Whatever else an isolating command asks for, once it is through the     *)
(* nodes it isolates are cut off (_dedupe_switch_requests).                *)
THEOREM IsolatedNodesAreCutOff == Spec => []IsolationHolds
<1> DEFINE Inv == Isolating /\ IsolationHolds
<1>1. Init => Inv
  BY DEF Init, Isolating, IsolationHolds
<1>2. TypeOK /\ Inv /\ [Next]_powerVars => Inv'
  <2> SUFFICES ASSUME TypeOK, Isolating, IsolationHolds, [Next]_powerVars
               PROVE  Isolating' /\ IsolationHolds'
    OBVIOUS
  <2>1. ASSUME NEW c \in Commands, ApplyCommand(c)
        PROVE  Isolating' /\ IsolationHolds'
    <3>1. phase' # "ready" /\ command' = c
      BY <2>1 DEF ApplyCommand
    <3>2. phase' = "switching" => pending' = _requested_switches(c)
      BY <2>1 DEF ApplyCommand
    <3> QED
      BY <3>1, <3>2, IsolationIsRequested DEF Isolating, IsolationHolds
  <2>2. ASSUME NEW r \in pending, _apply_switch(r)
        PROVE  Isolating' /\ IsolationHolds'
    <3>1. phase = "switching" /\ phase' = phase /\ command' = command /\ pending' = pending \ {r}
      BY <2>2 DEF _apply_switch
    <3>2. r.line \in Lines /\ r.close \in BOOLEAN
      BY DEF TypeOK
    <3>3. ASSUME NEW l \in _incident_lines(Isolated(command))
          PROVE  l \in closed' => l \in closed /\ r.line # l
      <4>1. r.line = l => ~r.close
        BY <3>1 DEF Isolating
      <4> QED
        BY <2>2, <3>2, <4>1 DEF _apply_switch
    <3>4. ASSUME NEW l \in _incident_lines(Isolated(command))
          PROVE  /\ \A q \in pending' : q.line = l => ~q.close
                 /\ l \in closed' => \E q \in pending' : q.line = l
      BY <3>1, <3>3, <3>4 DEF Isolating
    <3> QED
      BY <3>1, <3>4 DEF Isolating, IsolationHolds
  <2>3. CASE PlanDone
    <3>1. phase = "switching" /\ pending = {} /\ phase' = "ready" /\ closed' = closed
      BY <2>3 DEF PlanDone
    <3>2. plans'[Len(plans')].command = command
      <4> DEFINE plan == [command |-> command, operations |-> done, after |-> closed,
                          accepted |-> ~Warned(command) /\ \A o \in done : o.accepted]
      <4>1. plans' = Append(plans, plan) /\ plans \in Seq(Plans) /\ plan.command = command
        BY <2>3 DEF PlanDone, TypeOK
      <4> HIDE DEF plan
      <4> QED
        BY <4>1
    <3>3. closed \intersect _incident_lines(Isolated(command)) = {}
      BY <3>1 DEF Isolating
    <3> QED
      BY <3>1, <3>2, <3>3 DEF Isolating, IsolationHolds
  <2>4. CASE UNCHANGED powerVars
    BY <2>4 DEF powerVars, Isolating, IsolationHolds
  <2> QED
    BY <2>1, <2>2, <2>3, <2>4 DEF Next
<1> QED
  BY <1>1, <1>2, TypeCorrect, PTL DEF Spec

-----------------------------------------------------------------------------
(* A path edge the command does not ask to open.                           *)
Kept(c, i) == ~\E j \in DOMAIN c.open : c.open[j] = command_edges_for_path(c.path)[i]
PathLine(c, i) == LineAt(command_edges_for_path(c.path)[i])
Steps(c) == DOMAIN command_edges_for_path(c.path)

(* A reroute without a warning asks to close every such edge of its path,  *)
(* and nothing of it asks to open one.                                     *)
LEMMA PathIsRequested ==
  ASSUME NEW c \in Commands, c.action = "reroute_power_path", ~Warned(c),
         NEW i \in Steps(c), Kept(c, i)
  PROVE  /\ \E r \in _requested_switches(c) : r.line = PathLine(c, i)
         /\ \A r \in _requested_switches(c) : r.line = PathLine(c, i) => r.close
<1> DEFINE edges == command_edges_for_path(c.path)
           l == PathLine(c, i)
<1>1. c \in Command
  BY PowerAssumption
<1>2. i \in Nat /\ i \in DOMAIN c.path /\ i + 1 \in DOMAIN c.path
      /\ edges[i] = {c.path[i], c.path[i + 1]}
  <2>1. c.path \in Seq(Nat) /\ Len(c.path) \in Nat
    BY <1>1 DEF Command
  <2> QED
    BY <2>1 DEF Steps, command_edges_for_path
<1>3. Known(edges[i]) /\ i \in Positions(edges)
  BY DEF Warned, Steps, Positions
<1>4. l \in Lines /\ Ends[l] = edges[i]
  BY <1>3 DEF Known, LineAt, PathLine
<1>5. Ends[l] \intersect Isolated(c) = {}
  BY <1>2, <1>4 DEF Warned
<1> DEFINE Mine == {q \in Collected(c) : q.line = l}
           closing == [line |-> l, close |-> TRUE, rank |-> <<6, i>>]
<1>6. closing \in Collected(c)
  <2>1. closing \in EdgeRequests(edges, TRUE, 6)
    BY <1>3 DEF EdgeRequests, PathLine
  <2> QED
    BY <2>1 DEF Collected
<1>7. ASSUME NEW s \in Collected(c), s.line = l
      PROVE  s.close = TRUE
  <2>1. CASE s \in EdgeRequests(c.open, FALSE, 2)
    <3>1. PICK j \in Positions(c.open) : s.line = LineAt(c.open[j])
      BY <2>1 DEF EdgeRequests
    <3>2. Ends[l] = c.open[j]
      BY <1>7, <3>1 DEF Positions, Known, LineAt
    <3> QED
      BY <1>4, <3>1, <3>2 DEF Positions, Kept
  <2>2. CASE s \in EdgeRequests(c.close, TRUE, 3) \union EdgeRequests(edges, TRUE, 6)
    BY <2>2 DEF EdgeRequests
  <2>3. CASE s \in LineRequests(_incident_lines(Isolated(c)), FALSE, 4)
    BY <1>5, <1>7, <2>3 DEF LineRequests, _incident_lines
  <2> QED
    BY <2>1, <2>2, <2>3 DEF Collected
<1> HIDE DEF edges, l, closing
<1>8. Mine # {} /\ \A q \in Mine : q.rank \in Nat \X Nat
  BY <1>6, CollectedType DEF SwitchRequest, closing
<1>9. PICK q \in Mine : \A s \in Mine : ~Earlier(s.rank, q.rank)
  BY <1>8, EarliestRequest
<1>10. [q EXCEPT !.close = \A s \in Collected(c) : s.line = q.line => s.close]
         \in _requested_switches(c)
  BY <1>9 DEF _requested_switches, _dedupe_switch_requests
<1>11. q = [line |-> l, close |-> q.close, rank |-> q.rank]
  BY <1>9, CollectedType DEF SwitchRequest
<1>12. \E r \in _requested_switches(c) : r.line = l
  BY <1>10, <1>11
<1>13. ASSUME NEW r \in _requested_switches(c), r.line = l
       PROVE  r.close
  <2>1. PICK o \in Collected(c) :
          r = [o EXCEPT !.close = \A s \in Collected(c) : s.line = o.line => s.close]
    BY DEF _requested_switches, _dedupe_switch_requests
  <2>2. o = [line |-> o.line, close |-> o.close, rank |-> o.rank]
    BY CollectedType DEF SwitchRequest
  <2>3. r.line = o.line /\ r.close = \A s \in Collected(c) : s.line = o.line => s.close
    BY <2>1, <2>2
  <2> QED
    BY <1>7, <1>13, <2>3
<1> QED
  BY <1>12, <1>13 DEF l

(* While a reroute is applied, a line of its path is closed, or its        *)
(* closing is ahead, or something was rejected.                            *)
Rerouting ==
  phase = "switching" /\ command.action = "reroute_power_path" /\ ~Warned(command) =>
    \A i \in Steps(command) : Kept(command, i) =>
      /\ \A r \in pending : r.line = PathLine(command, i) => r.close
      /\ \/ PathLine(command, i) \in closed
         \/ \E r \in pending : r.line = PathLine(command, i)
         \/ \E o \in done : ~o.accepted

(* An accepted reroute has closed its path (power_plane.py, apply_command).*)
THEOREM AcceptedPathsAreClosed == Spec => []AcceptedPathIsClosed
<1> DEFINE Inv == Rerouting /\ AcceptedPathIsClosed
<1>1. Init => Inv
  BY DEF Init, Rerouting, AcceptedPathIsClosed
<1>2. TypeOK /\ Inv /\ [Next]_powerVars => Inv'
  <2> SUFFICES ASSUME TypeOK, Rerouting, AcceptedPathIsClosed, [Next]_powerVars
               PROVE  Rerouting' /\ AcceptedPathIsClosed'
    OBVIOUS
  <2>1. ASSUME NEW c \in Commands, ApplyCommand(c)
        PROVE  Rerouting' /\ AcceptedPathIsClosed'
    <3>1. command' = c /\ plans' = plans /\ (phase' = "switching" => pending' = _requested_switches(c))
      BY <2>1 DEF ApplyCommand
    <3> QED
      BY <3>1, PathIsRequested DEF Rerouting, AcceptedPathIsClosed
  <2>2. ASSUME NEW r \in pending, _apply_switch(r)
        PROVE  Rerouting' /\ AcceptedPathIsClosed'
    <3>1. phase = "switching" /\ command' = command /\ pending' = pending \ {r} /\ plans' = plans
      BY <2>2 DEF _apply_switch
    <3>2. ASSUME NEW l, l \in closed \/ r.line = l, r.line = l => r.close
          PROVE  l \in closed' \/ \E o \in done' : ~o.accepted
      <4>1. ~Operation(r, "close", FALSE).accepted
        BY DEF Operation
      <4> QED
        BY <2>2, <3>2, <4>1 DEF _apply_switch
    <3>3. \A o \in done : o \in done'
      BY <2>2 DEF _apply_switch
    <3>4. ASSUME command.action = "reroute_power_path", ~Warned(command),
                 NEW i \in Steps(command), Kept(command, i)
          PROVE  /\ \A q \in pending' : q.line = PathLine(command, i) => q.close
                 /\ \/ PathLine(command, i) \in closed'
                    \/ \E q \in pending' : q.line = PathLine(command, i)
                    \/ \E o \in done' : ~o.accepted
      BY <3>1, <3>2, <3>3, <3>4 DEF Rerouting
    <3> QED
      BY <3>1, <3>4 DEF Rerouting, AcceptedPathIsClosed
  <2>3. CASE PlanDone
    <3> DEFINE plan == [command |-> command, operations |-> done, after |-> closed,
                        accepted |-> ~Warned(command) /\ \A o \in done : o.accepted]
    <3>1. phase = "switching" /\ pending = {} /\ phase' = "ready" /\ plans' = Append(plans, plan)
      BY <2>3 DEF PlanDone
    <3>2. /\ plan.command = command /\ plan.after = closed
          /\ plan.accepted => ~Warned(command) /\ \A o \in done : o.accepted
      OBVIOUS
    <3>3. plans \in Seq(Plans)
      BY DEF TypeOK
    <3> HIDE DEF plan
    <3>4. \A k \in DOMAIN plans' : \/ k \in DOMAIN plans /\ plans'[k] = plans[k]
                                 \/ plans'[k] = plan
      BY <3>1, <3>3
    <3>5. ASSUME plan.accepted, plan.command.action = "reroute_power_path",
                 NEW i \in Steps(command), Kept(command, i)
          PROVE  PathLine(command, i) \in plan.after
      BY <3>1, <3>2, <3>5 DEF Rerouting
    <3>6. AcceptedPathIsClosed'
      BY <3>2, <3>4, <3>5 DEF AcceptedPathIsClosed, Steps, Kept, PathLine
    <3> QED
      BY <3>1, <3>6 DEF Rerouting
  <2>4. CASE UNCHANGED powerVars
    BY <2>4 DEF powerVars, Rerouting, AcceptedPathIsClosed
  <2> QED
    BY <2>1, <2>2, <2>3, <2>4 DEF Next
<1> QED
  BY <1>1, <1>2, TypeCorrect, PTL DEF Spec

-----------------------------------------------------------------------------
(* The power plane under the pipeline.                                     *)

LEMMA PlaneSteps == [PipelineNext]_vars => [Next]_powerVars
BY DEF PipelineNext, vars, RefuseFaults, AcceptFaults, Control, Compile, StartTimeline,
       RefusePlan, CompilePlan, TimelineDone, RefuseDuration, RefuseSteadyFaults, StartSnapshot,
       RefuseBinding, Fail, manifest_for_timeline, manifest_for_state, Write

(* What the pipeline does to the feeder is what PowerPlane allows          *)
(* (pipeline.py, run_control_pipeline).                                    *)
THEOREM PipelineRunsPlane == PipelineSpec => Spec
<1>1. PipelineInit => Init
  BY DEF PipelineInit
<1> QED
  BY <1>1, PlaneSteps, PTL DEF PipelineSpec, Spec

(* So whatever holds of the power plane holds in the pipeline.             *)
THEOREM PipelineKeepsFeeder ==
  PipelineSpec => [](StaysRadial /\ IsolationHolds /\ AcceptedPathIsClosed)
BY PipelineRunsPlane, FeederStaysRadial, IsolatedNodesAreCutOff, AcceptedPathsAreClosed, PTL

-----------------------------------------------------------------------------
(* Plans.                                                                  *)

(* A step of the power plane only adds to the history.                     *)
LEMMA HistoryGrows ==
  ASSUME TypeOK, [Next]_powerVars
  PROVE  /\ Len(plans) \in Nat /\ Len(plans') \in Nat /\ Len(plans) <= Len(plans')
         /\ \A k \in 1..Len(plans) : plans'[k] = plans[k]
<1>1. plans \in Seq(Plans) /\ Len(plans) \in Nat
  BY DEF TypeOK
<1>2. plans' = plans \/ \E plan : plans' = Append(plans, plan)
  BY DEF Next, ApplyCommand, _apply_switch, PlanDone, powerVars
<1>3. CASE plans' = plans
  BY <1>1, <1>3
<1>4. ASSUME NEW plan, plans' = Append(plans, plan)
      PROVE  /\ Len(plans') = Len(plans) + 1
             /\ \A k \in 1..Len(plans) : plans'[k] = plans[k]
  BY <1>1, <1>4
<1> QED
  BY <1>1, <1>2, <1>3, <1>4

(* The operations that switched something.                                 *)
Real(o) == o.accepted /\ o.action # "noop"

(* A set of operations leads from the closed lines of one set to those of  *)
(* another, at most one real operation per line.                           *)
Leads(operations, from, to) ==
  /\ \A o \in operations : Real(o) =>
       /\ o.before <=> o.line \in from
       /\ o.close <=> ~o.before
       /\ o.line \in to <=> o.close
  /\ \A o, p \in operations : Real(o) /\ Real(p) /\ o.line = p.line => o = p
  /\ \A l \in Lines : (\A o \in operations : Real(o) => o.line # l) => (l \in to <=> l \in from)

(* The lines the k-th plan leaves closed.                                  *)
After(k) == IF k = 0 THEN InitiallyClosed ELSE plans[k].after

(* Every plan leads on from the one before, no earlier than it.            *)
Planned ==
  /\ \A k \in DOMAIN plans : Leads(plans[k].operations, After(k - 1), plans[k].after)
  /\ \A k \in DOMAIN plans : k > 1 => plans[k - 1].command.at <= plans[k].command.at
  /\ phase = "ready" => closed = After(Len(plans))
  /\ phase = "switching" =>
       /\ LastTime <= command.at
       /\ Leads(done, After(Len(plans)), closed)
       /\ \A r \in pending, o \in done : o.line # r.line
       /\ \A r, s \in pending : r.line = s.line => r = s

(* The request that stands for those on one line.                          *)
LEMMA RequestOfLine ==
  ASSUME NEW c \in Commands, NEW r \in _requested_switches(c)
  PROVE  \E o \in Collected(c) :
           /\ \A q \in Collected(c) : q.line = o.line => ~Earlier(q.rank, o.rank)
           /\ o.rank \in Nat \X Nat
           /\ r = [line |-> o.line, rank |-> o.rank,
                   close |-> \A q \in Collected(c) : q.line = o.line => q.close]
<1>1. PICK o \in Collected(c) :
        /\ \A q \in Collected(c) : q.line = o.line => ~Earlier(q.rank, o.rank)
        /\ r = [o EXCEPT !.close = \A q \in Collected(c) : q.line = o.line => q.close]
  BY DEF _requested_switches, _dedupe_switch_requests
<1>2. o \in SwitchRequest
  BY CollectedType
<1> DEFINE merged == \A q \in Collected(c) : q.line = o.line => q.close
<1> HIDE DEF merged
<1>3. r = [o EXCEPT !.close = merged]
  BY <1>1 DEF merged
<1>4. r = [line |-> o.line, rank |-> o.rank, close |-> merged] /\ o.rank \in Nat \X Nat
  BY <1>2, <1>3 DEF SwitchRequest
<1> QED
  BY <1>1, <1>4 DEF merged

(* A command asks for one thing per line.                                  *)
LEMMA OneRequestPerLine ==
  ASSUME NEW c \in Commands, NEW r \in _requested_switches(c), NEW s \in _requested_switches(c),
         r.line = s.line
  PROVE  r = s
<1> DEFINE Merged(o) == [line |-> o.line, rank |-> o.rank,
                         close |-> \A q \in Collected(c) : q.line = o.line => q.close]
           Least(o) == \A q \in Collected(c) : q.line = o.line => ~Earlier(q.rank, o.rank)
<1>1. PICK o \in Collected(c) : Least(o) /\ o.rank \in Nat \X Nat /\ r = Merged(o)
  BY RequestOfLine
<1>2. PICK p \in Collected(c) : Least(p) /\ p.rank \in Nat \X Nat /\ s = Merged(p)
  BY RequestOfLine
<1>3. o.line = p.line
  BY <1>1, <1>2
<1>4. ~Earlier(o.rank, p.rank) /\ ~Earlier(p.rank, o.rank)
  BY <1>1, <1>2, <1>3
<1>5. o.rank = p.rank
  <2>1. o.rank[1] \in Nat /\ o.rank[2] \in Nat /\ p.rank[1] \in Nat /\ p.rank[2] \in Nat
        /\ o.rank = <<o.rank[1], o.rank[2]>> /\ p.rank = <<p.rank[1], p.rank[2]>>
    BY <1>1, <1>2
  <2>2. o.rank[1] = p.rank[1] /\ o.rank[2] = p.rank[2]
    BY <1>4, <2>1 DEF Earlier
  <2> QED
    BY <2>1, <2>2
<1> QED
  BY <1>1, <1>2, <1>3, <1>5

LEMMA PlanTypes ==
  ASSUME TypeOK
  PROVE  /\ plans \in Seq(Plans) /\ Len(plans) \in Nat /\ DOMAIN plans = 1..Len(plans)
         /\ \A k \in DOMAIN plans : plans[k] \in Plans /\ plans[k].command.at \in Nat
         /\ command.at \in Nat /\ LastTime \in Nat
<1>1. \A c \in Commands \union {NoCommand} : c.at \in Nat
  BY PowerAssumption DEF Command, NoCommand
<1>2. plans \in Seq(Plans) /\ Len(plans) \in Nat /\ DOMAIN plans = 1..Len(plans)
  BY DEF TypeOK
<1>3. ASSUME NEW k \in DOMAIN plans
      PROVE  plans[k] \in Plans /\ plans[k].command.at \in Nat
  <2>1. plans[k] \in Plans
    BY <1>2
  <2>2. plans[k].command \in Commands \union {NoCommand}
    BY <2>1 DEF Plans
  <2> QED
    BY <1>1, <2>1, <2>2
<1>4. LastTime \in Nat
  <2>1. CASE plans = <<>>
    BY <2>1 DEF LastTime
  <2>2. CASE plans # <<>>
    <3>1. Len(plans) \in DOMAIN plans
      BY <1>2, <2>2
    <3>2. LastTime = plans[Len(plans)].command.at
      BY <2>2 DEF LastTime
    <3> QED
      BY <1>3, <3>1, <3>2
  <2> QED
    BY <2>1, <2>2
<1> QED
  BY <1>1, <1>2, <1>3, <1>4 DEF TypeOK

(* A switch that is applied leads on from what was switched before it.     *)
LEMMA SwitchLeadsOn ==
  ASSUME TypeOK, NEW from, NEW r \in pending, _apply_switch(r), Leads(done, from, closed),
         \A o \in done : o.line # r.line
  PROVE  Leads(done', from, closed')
<1>1. r.line \in Lines /\ r.close \in BOOLEAN /\ done \subseteq Operations
  BY DEF TypeOK
<1>2. PICK action \in {"noop", "open", "close"}, accepted \in BOOLEAN :
        /\ done' = done \union {Operation(r, action, accepted)}
        /\ accepted /\ action # "noop" =>
             /\ r.close <=> r.line \notin closed
             /\ r.line \in closed' <=> r.close
             /\ \A l \in Lines : l # r.line => (l \in closed' <=> l \in closed)
        /\ ~(accepted /\ action # "noop") => closed' = closed
  BY <1>1 DEF _apply_switch
<1> DEFINE new == Operation(r, action, accepted)
<1>3. /\ new.line = r.line /\ new.close = r.close
      /\ new.before <=> r.line \in closed
      /\ Real(new) <=> accepted /\ action # "noop"
  BY DEF Operation, Real
<1> HIDE DEF new
<1>4. done' = done \union {new}
  BY <1>2 DEF new
<1>5. r.line \in closed <=> r.line \in from
  BY <1>1 DEF Leads
<1>6. \A o \in done : o.line \in Lines
  BY <1>1 DEF Operations
<1>7. \A o \in done' : Real(o) =>
        /\ o.before <=> o.line \in from
        /\ o.close <=> ~o.before
        /\ o.line \in closed' <=> o.close
  <2>1. CASE Real(new)
    <3>1. \A o \in done : Real(o) => (o.line \in closed' <=> o.line \in closed)
      BY <1>2, <1>3, <1>6, <2>1
    <3>2. /\ new.before <=> new.line \in from
          /\ new.close <=> ~new.before
          /\ new.line \in closed' <=> new.close
      BY <1>2, <1>3, <1>5, <2>1
    <3>3. ASSUME NEW o \in done, Real(o)
          PROVE  /\ o.before <=> o.line \in from
                 /\ o.close <=> ~o.before
                 /\ o.line \in closed' <=> o.close
      BY <3>1, <3>3, Zenon DEF Leads
    <3> QED
      BY <1>4, <3>2, <3>3, Zenon
  <2>2. CASE ~Real(new)
    <3>1. closed' = closed
      BY <1>2, <1>3, <2>2
    <3> QED
      BY <1>4, <2>2, <3>1, Zenon DEF Leads
  <2> QED
    BY <2>1, <2>2
<1>8. \A o, p \in done' : Real(o) /\ Real(p) /\ o.line = p.line => o = p
  <2>1. \A o, p \in done : Real(o) /\ Real(p) /\ o.line = p.line => o = p
    BY DEF Leads
  <2> QED
    BY <1>3, <1>4, <2>1
<1>9. ASSUME NEW l \in Lines, \A o \in done' : Real(o) => o.line # l
      PROVE  l \in closed' <=> l \in from
  <2>1. l \in closed <=> l \in from
    <3>1. \A o \in done : Real(o) => o.line # l
      BY <1>4, <1>9
    <3> QED
      BY <3>1 DEF Leads
  <2>2. l \in closed' <=> l \in closed
    BY <1>2, <1>3, <1>4, <1>9
  <2> QED
    BY <2>1, <2>2
<1> QED
  BY <1>7, <1>8, <1>9, Zenon DEF Leads

(* The history of the power plane, for every feeder and set of commands    *)
(* (apply_commands and build_switching_timeline rely on it).               *)
LEMMA HistoryIsConsistent == Spec => []Planned
<1>1. Init => Planned
  BY DEF Init, Planned, After
<1>2. TypeOK /\ Planned /\ [Next]_powerVars => Planned'
  <2> SUFFICES ASSUME TypeOK, Planned, [Next]_powerVars
               PROVE  Planned'
    OBVIOUS
  <2>1. plans \in Seq(Plans) /\ Len(plans) \in Nat /\ DOMAIN plans = 1..Len(plans)
    BY PlanTypes
  <2>2. ASSUME NEW c \in Commands, ApplyCommand(c)
        PROVE  Planned'
    <3>1. /\ phase = "ready" /\ LastTime <= c.at /\ command' = c /\ done' = {}
          /\ closed' = closed /\ plans' = plans /\ phase' # "ready"
          /\ phase' = "switching" => pending' = _requested_switches(c)
      BY <2>2 DEF ApplyCommand
    <3>2. After(Len(plans))' = closed
      BY <3>1 DEF Planned, After
    <3>3. Leads({}, closed, closed)
      BY DEF Leads
    <3>4. phase' = "switching" =>
            /\ LastTime' <= command'.at
            /\ Leads(done', After(Len(plans))', closed')
            /\ \A q \in pending', o \in done' : o.line # q.line
            /\ \A q, s \in pending' : q.line = s.line => q = s
      BY <3>1, <3>2, <3>3, OneRequestPerLine DEF LastTime
    <3> QED
      BY <3>1, <3>4 DEF Planned, After
  <2>3. ASSUME NEW r \in pending, _apply_switch(r)
        PROVE  Planned'
    <3>1. /\ phase = "switching" /\ phase' = phase /\ command' = command
          /\ plans' = plans /\ pending' = pending \ {r}
      BY <2>3 DEF _apply_switch
    <3>2. Leads(done', After(Len(plans)), closed')
      BY <2>3, <3>1, SwitchLeadsOn DEF Planned
    <3>3. \A o \in done' : o \in done \/ o.line = r.line
      BY <2>3 DEF _apply_switch, Operation
    <3>4. \A q \in pending', o \in done' : o.line # q.line
      BY <3>1, <3>3 DEF Planned
    <3> QED
      BY <3>1, <3>2, <3>4 DEF Planned, After, LastTime
  <2>4. CASE PlanDone
    <3> DEFINE plan == [command |-> command, operations |-> done, after |-> closed,
                        accepted |-> ~Warned(command) /\ \A o \in done : o.accepted]
    <3>1. phase = "switching" /\ phase' = "ready" /\ plans' = Append(plans, plan) /\ closed' = closed
      BY <2>4 DEF PlanDone
    <3>2. plan.command = command /\ plan.operations = done /\ plan.after = closed
      OBVIOUS
    <3> HIDE DEF plan
    <3>3. /\ DOMAIN plans' = 1..(Len(plans) + 1) /\ Len(plans') = Len(plans) + 1
          /\ \A k \in DOMAIN plans : plans'[k] = plans[k]
          /\ plans'[Len(plans) + 1] = plan
      BY <2>1, <3>1
    <3>4. \A k \in 0..Len(plans) : After(k)' = After(k)
      BY <2>1, <3>3 DEF After
    <3>5. ASSUME NEW k \in DOMAIN plans'
          PROVE  Leads(plans'[k].operations, After(k - 1)', plans'[k].after)
      <4>1. CASE k \in DOMAIN plans
        BY <2>1, <3>3, <3>4, <4>1 DEF Planned
      <4>2. CASE k = Len(plans) + 1
        BY <2>1, <3>1, <3>2, <3>3, <3>4, <4>2 DEF Planned
      <4> QED
        BY <2>1, <3>3, <4>1, <4>2
    <3>6. ASSUME NEW k \in DOMAIN plans', k > 1
          PROVE  plans'[k - 1].command.at <= plans'[k].command.at
      <4>1. CASE k \in DOMAIN plans
        BY <2>1, <3>3, <3>6, <4>1 DEF Planned
      <4>2. CASE k = Len(plans) + 1
        <5>1. plans # <<>> /\ k - 1 = Len(plans) /\ plans'[k - 1] = plans[Len(plans)]
          BY <2>1, <3>3, <3>6, <4>2
        <5> QED
          BY <3>1, <3>2, <3>3, <4>2, <5>1 DEF Planned, LastTime
      <4> QED
        BY <2>1, <3>3, <4>1, <4>2
    <3>7. closed' = After(Len(plans))'
      BY <2>1, <3>1, <3>2, <3>3 DEF After
    <3> QED
      BY <3>1, <3>5, <3>6, <3>7 DEF Planned
  <2>5. CASE UNCHANGED powerVars
    BY <2>5 DEF powerVars, Planned, After, LastTime
  <2> QED
    BY <2>2, <2>3, <2>4, <2>5 DEF Next
<1> QED
  BY <1>1, <1>2, TypeCorrect, PTL DEF Spec

-----------------------------------------------------------------------------
(* The timeline.                                                           *)

LEMMA Parity == \A n \in Nat : n % 2 = 0 <=> (n + 1) % 2 # 0
OBVIOUS

LEMMA Appended ==
  ASSUME NEW S, NEW s \in Seq(S), NEW e \in S
  PROVE  /\ Append(s, e) \in Seq(S) /\ Append(s, e) # <<>>
         /\ Len(Append(s, e)) = Len(s) + 1 /\ DOMAIN Append(s, e) = 1..(Len(s) + 1)
         /\ Append(s, e)[Len(s) + 1] = e
         /\ \A k \in 1..Len(s) : Append(s, e)[k] = s[k]
OBVIOUS

Events == [at : Nat, closed : BOOLEAN]

(* The schedules say what the plans compiled so far did: every line        *)
(* toggles at each of its events, and ends as the last plan left it.       *)
Compiled ==
  /\ compiled \in Nat /\ compiled <= Len(plans)
  /\ schedule \in [Lines -> Seq(Events)]
  /\ \A l \in Lines : final_closed(l) <=> l \in After(compiled)
  /\ \A l \in Lines : \A k \in DOMAIN schedule[l] :
       schedule[l][k].closed <=> (initial_closed(l) <=> k % 2 = 0)

(* So the next plan is in order and meets the lines as it expects them.    *)
LEMMA NextPlanFits ==
  ASSUME TypeOK, Planned, Compiled, compiled < Len(plans)
  PROVE  /\ ~Backwards /\ ~Mismatched
         /\ Plan \in Plans /\ Plan.command.at \in Nat
         /\ Leads(Plan.operations, After(compiled), After(compiled + 1))
<1>1. /\ plans \in Seq(Plans) /\ Len(plans) \in Nat /\ DOMAIN plans = 1..Len(plans)
      /\ \A k \in DOMAIN plans : plans[k] \in Plans /\ plans[k].command.at \in Nat
  BY PlanTypes
<1>2. /\ compiled + 1 \in DOMAIN plans /\ compiled \in Nat /\ compiled + 1 # 0
      /\ compiled > 0 => compiled \in DOMAIN plans /\ compiled + 1 > 1
  BY <1>1 DEF Compiled
<1>3. Leads(Plan.operations, After(compiled), Plan.after)
  BY <1>1, <1>2 DEF Planned, Plan
<1>4. Plan.after = After(compiled + 1)
  BY <1>2 DEF Plan, After
<1>5. ~Backwards
  <2>1. CASE compiled > 0
    <3>1. plans[compiled + 1 - 1].command.at <= plans[compiled + 1].command.at
      BY <1>2, <2>1 DEF Planned
    <3>2. plans[compiled].command.at \in Nat /\ plans[compiled + 1].command.at \in Nat
      BY <1>1, <1>2, <2>1
    <3> QED
      BY <1>2, <3>1, <3>2 DEF Backwards, Plan
  <2> QED
    BY <2>1 DEF Backwards
<1>6. ~Mismatched
  <2> SUFFICES ASSUME NEW o \in Physical(Plan)
               PROVE  o.before = final_closed(o.line)
    BY DEF Mismatched
  <2>1. o \in Operations /\ Real(o) /\ o \in Plan.operations
    BY <1>1, <1>2 DEF Plan, Plans, Physical, Real
  <2>2. o.line \in Lines /\ o.before \in BOOLEAN
    BY <2>1 DEF Operations
  <2>3. o.before <=> o.line \in After(compiled)
    BY <1>3, <2>1 DEF Leads
  <2>4. final_closed(o.line) \in BOOLEAN
    <3>1. schedule[o.line] \in Seq(Events)
      BY <2>2 DEF Compiled
    <3>2. CASE schedule[o.line] = <<>>
      <4>1. final_closed(o.line) = (o.line \in InitiallyClosed)
        BY <3>2 DEF final_closed, initial_closed
      <4> QED
        BY <4>1
    <3>3. CASE schedule[o.line] # <<>>
      <4>1. schedule[o.line][Len(schedule[o.line])] \in Events
        BY <3>1, <3>3
      <4>2. schedule[o.line][Len(schedule[o.line])].closed \in BOOLEAN
        BY <4>1 DEF Events
      <4> QED
        BY <3>3, <4>2 DEF final_closed
    <3> QED
      BY <3>2, <3>3
  <2> QED
    BY <2>2, <2>3, <2>4 DEF Compiled
<1> QED
  BY <1>1, <1>2, <1>3, <1>4, <1>5, <1>6 DEF Plan

(* Compiling a plan keeps the schedules true to the plans.                 *)
LEMMA CompilingKeepsCompiled ==
  ASSUME TypeOK, Planned, Compiled, CompilePlan
  PROVE  Compiled'
<1> DEFINE from == After(compiled)
           to == After(compiled + 1)
           Switched(l) == \E o \in Physical(Plan) : o.line = l
           Last(l) == CHOOSE o \in Physical(Plan) : o.line = l
           Event(l) == [at |-> Plan.command.at, closed |-> Last(l).accepted = Last(l).close]
<1>1. compiled < Len(plans) /\ compiled' = compiled + 1 /\ plans' = plans
  BY DEF CompilePlan, powerVars
<1>2. Plan \in Plans /\ Plan.command.at \in Nat /\ Leads(Plan.operations, from, to)
  BY <1>1, NextPlanFits
<1>3. Physical(Plan) = {o \in Plan.operations : Real(o)} /\ Physical(Plan) \subseteq Operations
  BY <1>2 DEF Physical, Real, Plans
<1>4. ASSUME NEW l \in Lines, Switched(l)
      PROVE  /\ schedule'[l] = Append(schedule[l], Event(l)) /\ Event(l) \in Events
             /\ Event(l).closed <=> l \in to
             /\ Event(l).closed <=> ~(l \in from)
  <2>1. Last(l) \in Physical(Plan) /\ Last(l).line = l
    BY <1>4
  <2>2. Real(Last(l)) /\ Last(l) \in Plan.operations /\ Last(l) \in Operations
    BY <1>3, <2>1
  <2>3. Last(l).accepted = TRUE /\ Last(l).close \in BOOLEAN
    BY <2>2 DEF Real, Operations
  <2>4. Event(l) = [at |-> Plan.command.at, closed |-> Last(l).close]
    BY <2>3
  <2>5. schedule'[l] = Append(schedule[l], Event(l))
    BY <1>4 DEF CompilePlan
  <2> HIDE DEF Last
  <2>6. Event(l) \in Events /\ Event(l).closed = Last(l).close
    BY <1>2, <2>3, <2>4 DEF Events
  <2>7. (l \in to <=> Last(l).close) /\ (Last(l).close <=> ~(l \in from))
    BY <1>2, <2>1, <2>2 DEF Leads
  <2> QED
    BY <2>5, <2>6, <2>7
<1>5. ASSUME NEW l \in Lines, ~Switched(l)
      PROVE  schedule'[l] = schedule[l] /\ (l \in to <=> l \in from)
  <2>1. \A o \in Plan.operations : Real(o) => o.line # l
    BY <1>3, <1>5
  <2> QED
    BY <1>2, <1>5, <2>1 DEF CompilePlan, Leads
<1> HIDE DEF Event, Switched, from, to
<1>7. ASSUME NEW l \in Lines
      PROVE  /\ schedule[l] \in Seq(Events) /\ Len(schedule[l]) \in Nat
             /\ DOMAIN schedule[l] = 1..Len(schedule[l])
             /\ final_closed(l) <=> l \in from
  BY DEF Compiled, from
<1>8. ASSUME NEW l \in Lines
      PROVE  /\ schedule'[l] \in Seq(Events)
             /\ final_closed(l)' <=> l \in to
             /\ \A k \in DOMAIN schedule'[l] :
                  schedule'[l][k].closed <=> (initial_closed(l) <=> k % 2 = 0)
  <2>1. CASE ~Switched(l)
    BY <1>5, <1>7, <2>1 DEF Compiled, final_closed, initial_closed
  <2>2. CASE Switched(l)
    <3> DEFINE n == Len(schedule[l])
    <3>1. /\ n \in Nat /\ schedule'[l] \in Seq(Events) /\ schedule'[l] # <<>>
          /\ Len(schedule'[l]) = n + 1 /\ DOMAIN schedule'[l] = 1..(n + 1)
          /\ schedule'[l][n + 1] = Event(l)
          /\ \A k \in 1..n : schedule'[l][k] = schedule[l][k]
      <4>1. /\ schedule[l] \in Seq(Events) /\ Event(l) \in Events
            /\ schedule'[l] = Append(schedule[l], Event(l))
        BY <1>4, <1>7, <2>2
      <4>2. n \in Nat
        BY <1>7
      <4> QED
        BY <4>1, <4>2, Appended
    <3>2. final_closed(l)' <=> l \in to
      BY <1>4, <2>2, <3>1 DEF final_closed
    <3>3. Event(l).closed <=> ~final_closed(l)
      BY <1>4, <1>7, <2>2
    <3>4. final_closed(l) <=> (initial_closed(l) <=> n % 2 = 0)
      <4>1. CASE schedule[l] = <<>>
        BY <4>1 DEF final_closed
      <4>2. CASE schedule[l] # <<>>
        <5>1. n \in DOMAIN schedule[l]
          BY <1>7, <4>2
        <5> QED
          BY <4>2, <5>1 DEF final_closed, Compiled
      <4> QED
        BY <4>1, <4>2
    <3>5. n % 2 = 0 <=> (n + 1) % 2 # 0
      BY <3>1, Parity
    <3>6. \A k \in 1..n : schedule[l][k].closed <=> (initial_closed(l) <=> k % 2 = 0)
      BY <1>7 DEF Compiled
    <3> HIDE DEF n
    <3> QED
      BY <3>1, <3>2, <3>3, <3>4, <3>5, <3>6
  <2> QED
    BY <2>1, <2>2
<1>9. schedule' \in [Lines -> Seq(Events)]
  <2>1. schedule' = [l \in Lines |-> schedule'[l]]
    BY DEF CompilePlan
  <2> QED
    BY <1>8, <2>1
<1>10. compiled' \in Nat /\ compiled' <= Len(plans)'
  BY <1>1, PlanTypes DEF Compiled
<1>11. \A l \in Lines : final_closed(l)' <=> l \in After(compiled)'
  BY <1>1, <1>8 DEF After, to
<1> QED
  BY <1>8, <1>9, <1>10, <1>11 DEF Compiled, initial_closed

(* The lowest line that does not fit is one that does not fit.             *)
LEMMA FirstUnfitIsUnfit ==
  ASSUME \E l \in Lines : ~Representable(l)
  PROVE  FirstUnfit \in Lines /\ ~Representable(FirstUnfit)
<1> DEFINE T == {l \in Lines : ~Representable(l)}
<1>1. T # {} /\ T \subseteq Nat /\ Lines \subseteq Nat
  BY PowerAssumption
<1>2. PICK m \in T : \A n \in T : ~(n < m)
  BY <1>1, LeastNumber
<1>3. m \in Lines /\ ~Representable(m) /\ \A k \in Lines : k < m => Representable(k)
  BY <1>2
<1> QED
  BY <1>3 DEF FirstUnfit

(* A breaker that toggles as the plans say can be represented unless it    *)
(* toggles too often.                                                      *)
LEMMA NotTogglingIsNotFound ==
  ASSUME Compiled, BindingChecks[4].found
  PROVE  BindingChecks[3].found
<1>1. request.mode = "transient" /\ \E l \in Lines : ~Representable(l)
  BY DEF BindingChecks
<1>2. FirstUnfit \in Lines /\ ~Representable(FirstUnfit)
  BY <1>1, FirstUnfitIsUnfit
<1> DEFINE l == FirstUnfit
<1> HIDE DEF l
<1>3. l \in Lines /\ ~(Len(schedule[l]) <= MaxToggles /\ Alternates(l))
  BY <1>2 DEF Representable, l
<1>4. schedule[l] \in Seq(Events) /\ \A k \in DOMAIN schedule[l] :
        schedule[l][k].closed <=> (initial_closed(l) <=> k % 2 = 0)
  BY <1>3 DEF Compiled
<1>5. Alternates(l)
  <2> SUFFICES ASSUME NEW k \in DOMAIN schedule[l]
               PROVE  schedule[l][k].closed = (initial_closed(l) = (k % 2 = 0))
    BY DEF Alternates
  <2>1. schedule[l][k].closed \in BOOLEAN
    <3>1. schedule[l][k] \in Events
      BY <1>4
    <3> QED
      BY <3>1 DEF Events
  <2>2. schedule[l][k].closed <=> (initial_closed(l) <=> k % 2 = 0)
    BY <1>4
  <2> QED
    BY <2>1, <2>2 DEF initial_closed
<1>6. Len(schedule[l]) \in Nat /\ MaxToggles \in Nat
  BY <1>4, PipelineAssumption
<1>7. TooMany(l)
  BY <1>3, <1>5, <1>6 DEF TooMany
<1>8. TooMany(FirstUnfit)
  BY <1>7 DEF l
<1> QED
  BY <1>1, <1>8 DEF BindingChecks

(* The pipeline keeps the schedules true to the plans and refuses a run    *)
(* only for what the hardware or the request cannot do (timeline.py,       *)
(* build_switching_timeline; pscad_adapter.py, manifest_for_timeline).     *)
LEMMA CompilesTruly == PipelineSpec => [](Compiled /\ OnlyHardwareLimitsRefuse)
<1> DEFINE Inv == Compiled /\ OnlyHardwareLimitsRefuse
<1>1. PipelineInit => Inv
  <2> SUFFICES ASSUME PipelineInit
               PROVE  Inv
    OBVIOUS
  <2>1. compiled = 0 /\ schedule = [l \in Lines |-> <<>>] /\ plans = <<>> /\ reason = "none"
    BY DEF PipelineInit, TimelineInit, Init
  <2>2. schedule \in [Lines -> Seq(Events)]
    BY <2>1
  <2>3. \A l \in Lines : schedule[l] = <<>> /\ DOMAIN schedule[l] = {}
    BY <2>1
  <2> QED
    BY <2>1, <2>2, <2>3 DEF Compiled, final_closed, initial_closed, After, OnlyHardwareLimitsRefuse
<1>2. TypeOK /\ TypeOK' /\ Planned /\ Inv /\ [PipelineNext]_vars => Inv'
  <2> SUFFICES ASSUME TypeOK, TypeOK', Planned, Compiled, OnlyHardwareLimitsRefuse,
                      [PipelineNext]_vars
               PROVE  Inv'
    OBVIOUS
  <2>1. UNCHANGED <<plans, compiled, schedule>> => Compiled'
    BY DEF Compiled, final_closed, initial_closed, After
  <2>2. reason' = reason => OnlyHardwareLimitsRefuse'
    BY DEF OnlyHardwareLimitsRefuse
  <2>3. CASE Control
    <3>1. [Next]_powerVars /\ compiled' = compiled /\ schedule' = schedule /\ reason' = reason
      BY <2>3 DEF Control, timelineVars
    <3>2. /\ Len(plans) \in Nat /\ Len(plans') \in Nat /\ Len(plans) <= Len(plans')
          /\ \A k \in 1..Len(plans) : plans'[k] = plans[k]
      BY <3>1, HistoryGrows
    <3>3. compiled \in Nat /\ compiled <= Len(plans')
      BY <3>2 DEF Compiled
    <3>4. After(compiled)' = After(compiled)
      BY <3>1, <3>2 DEF After, Compiled
    <3> QED
      BY <2>2, <3>1, <3>3, <3>4 DEF Compiled, final_closed, initial_closed
  <2>4. CASE Compile
    <3>1. CASE StartTimeline
      BY <2>1, <2>2, <3>1 DEF StartTimeline, powerVars
    <3>2. CASE RefusePlan
      <4>1. ~Backwards /\ ~Mismatched
        BY <3>2, NextPlanFits DEF RefusePlan
      <4>2. reason' = "same time" /\ UNCHANGED <<plans, compiled, schedule>>
        BY <3>2, <4>1 DEF RefusePlan, Fail, powerVars
      <4> QED
        BY <2>1, <4>2 DEF OnlyHardwareLimitsRefuse
    <3>3. CASE CompilePlan
      BY <2>2, <3>3, CompilingKeepsCompiled DEF CompilePlan
    <3>4. CASE TimelineDone(minimum_duration, request.override)
      BY <2>1, <2>2, <3>4 DEF TimelineDone, powerVars
    <3>5. CASE RefuseDuration(minimum_duration, request.override)
      BY <2>1, <3>5 DEF RefuseDuration, Fail, powerVars, OnlyHardwareLimitsRefuse
    <3> QED
      BY <2>4, <3>1, <3>2, <3>3, <3>4, <3>5 DEF Compile
  <2>5. CASE RefuseFaults \/ RefuseSteadyFaults
    BY <2>1, <2>5 DEF RefuseFaults, RefuseSteadyFaults, Fail, powerVars, OnlyHardwareLimitsRefuse
  <2>6. CASE AcceptFaults \/ StartSnapshot
    BY <2>1, <2>2, <2>6 DEF AcceptFaults, StartSnapshot, powerVars
  <2>7. CASE RefuseBinding
    <3>1. PICK i \in DOMAIN BindingChecks :
            /\ BindingChecks[i].found /\ \A j \in 1..(i - 1) : ~BindingChecks[j].found
            /\ Fail(BindingChecks[i].why)
      BY <2>7 DEF RefuseBinding
    <3>2. i \in 1..7
      BY DEF BindingChecks
    <3>3. i # 4
      BY <3>1, NotTogglingIsNotFound
    <3>4. reason' = BindingChecks[i].why /\ UNCHANGED <<plans, compiled, schedule>>
      BY <3>1 DEF Fail, powerVars
    <3>5. /\ BindingChecks[1].why = "duplicate line" /\ BindingChecks[2].why = "duplicate fault"
          /\ BindingChecks[3].why = "too many" /\ BindingChecks[5].why = "untimed"
          /\ BindingChecks[6].why = "unbound" /\ BindingChecks[7].why = "elsewhere"
      BY DEF BindingChecks
    <3>6. BindingChecks[i].why \in {"duplicate line", "duplicate fault", "too many", "untimed",
                                    "unbound", "elsewhere"}
      <4>1. i \in {1, 2, 3, 5, 6, 7}
        BY <3>2, <3>3
      <4> QED
        BY <3>5, <4>1, Zenon
    <3> QED
      BY <2>1, <3>4, <3>6 DEF OnlyHardwareLimitsRefuse
  <2>8. CASE manifest_for_timeline \/ manifest_for_state
    BY <2>1, <2>2, <2>8 DEF manifest_for_timeline, manifest_for_state, Write, powerVars
  <2>9. CASE UNCHANGED vars
    BY <2>1, <2>2, <2>9 DEF vars, powerVars, timelineVars
  <2> QED
    BY <2>3, <2>4, <2>5, <2>6, <2>7, <2>8, <2>9 DEF PipelineNext
<1>3. PipelineSpec => [](TypeOK /\ Planned)
  BY PipelineRunsPlane, TypeCorrect, HistoryIsConsistent, PTL
<1> QED
  BY <1>1, <1>2, <1>3, PTL DEF PipelineSpec

(* Whatever refuses a run, it is no inconsistency between the plans and    *)
(* their replay.                                                           *)
THEOREM OnlyLimitsRefuse == PipelineSpec => []OnlyHardwareLimitsRefuse
BY CompilesTruly, PTL

-----------------------------------------------------------------------------
(* The manifest and the preview.                                           *)

(* A set of positions closed downwards is a prefix.                        *)
LEMMA DownwardsClosed ==
  ASSUME NEW n \in Nat, NEW P \in SUBSET (1..n), \A j, k \in 1..n : j <= k /\ k \in P => j \in P
  PROVE  \E m \in 0..n : P = 1..m
<1> DEFINE Outside == (1..n) \ P
<1>1. CASE Outside = {}
  <2>1. P = 1..n
    BY <1>1, Zenon
  <2>2. n \in 0..n
    OBVIOUS
  <2> QED
    BY <2>1, <2>2
<1>2. CASE Outside # {}
  <2>1. Outside \subseteq Nat
    OBVIOUS
  <2>2. PICK m \in Outside : \A k \in Outside : ~(k < m)
    BY <1>2, <2>1, LeastNumber
  <2>3. m \in 1..n /\ m \notin P /\ m - 1 \in 0..n
    BY <2>2
  <2>4. ASSUME NEW k \in 1..n
        PROVE  k \in P <=> k <= m - 1
    BY <2>2, <2>3
  <2>5. \A k \in 1..(m - 1) : k \in P
    BY <2>3, <2>4
  <2>6. \A k \in P : k \in 1..(m - 1)
    BY <2>3, <2>4
  <2>7. P = 1..(m - 1)
    BY <2>5, <2>6, Zenon
  <2> QED
    BY <2>3, <2>7
<1> QED
  BY <1>1, <1>2

(* The largest number of a prefix.                                         *)
LEMMA LargestOfPrefix ==
  ASSUME NEW m \in Nat, m # 0
  PROVE  (CHOOSE k \in 1..m : \A j \in 1..m : j <= k) = m
<1>1. m \in 1..m /\ \A j \in 1..m : j <= m
  OBVIOUS
<1>2. \A k \in 1..m : (\A j \in 1..m : j <= k) => k = m
  OBVIOUS
<1> QED
  BY <1>1, <1>2

-----------------------------------------------------------------------------
(* The replay of the plans.                                                *)

(* The plans of a run are in the order of their commands' times.           *)
LEMMA PlansInOrder ==
  ASSUME TypeOK, Planned
  PROVE  \A i, k \in 1..Len(plans) : i <= k => plans[i].command.at <= plans[k].command.at
<1>1. /\ Len(plans) \in Nat /\ DOMAIN plans = 1..Len(plans)
      /\ \A k \in 1..Len(plans) : plans[k].command.at \in Nat
  BY PlanTypes
<1> DEFINE Late == {k \in 1..Len(plans) :
             \E i \in 1..k : ~(plans[i].command.at <= plans[k].command.at)}
<1>2. CASE Late = {}
  <2> SUFFICES ASSUME NEW i \in 1..Len(plans), NEW k \in 1..Len(plans), i <= k
               PROVE  plans[i].command.at <= plans[k].command.at
    OBVIOUS
  <2>1. i \in 1..k /\ k \notin Late
    BY <1>1, <1>2
  <2> QED
    BY <2>1
<1>3. CASE Late # {}
  <2>1. Late \subseteq Nat
    OBVIOUS
  <2>2. PICK k \in Late : \A h \in Late : ~(h < k)
    BY <1>3, <2>1, LeastNumber
  <2>3. PICK i \in 1..k : ~(plans[i].command.at <= plans[k].command.at)
    BY <2>2
  <2>4. k \in 1..Len(plans) /\ i < k /\ k > 1 /\ k - 1 \in 1..Len(plans) /\ i \in 1..(k - 1)
    BY <1>1, <2>2, <2>3
  <2>5. plans[k - 1].command.at <= plans[k].command.at
    BY <1>1, <2>4 DEF Planned
  <2>6. k - 1 \notin Late
    BY <2>2, <2>4
  <2>7. plans[i].command.at <= plans[k - 1].command.at
    BY <2>4, <2>6
  <2>8. i \in 1..Len(plans)
    BY <2>4
  <2>9. plans[i].command.at \in Nat /\ plans[k - 1].command.at \in Nat /\ plans[k].command.at \in Nat
    BY <1>1, <2>4, <2>8
  <2> HIDE DEF Late
  <2> QED
    BY <2>3, <2>5, <2>7, <2>9
<1> QED
  BY <1>2, <1>3

Closing(l, j) == initial_closed(l) <=> j % 2 = 0

(* At every time, a line has toggled as often as it takes to be where the  *)
(* last plan up to that time left it.                                      *)
Replayed ==
  /\ \A l \in Lines : \A k \in DOMAIN schedule[l] :
       compiled # 0 /\ schedule[l][k].at <= plans[compiled].command.at
  /\ \A l \in Lines : \A j, k \in DOMAIN schedule[l] :
       j < k => schedule[l][j].at < schedule[l][k].at
  /\ \A l \in Lines, t \in Nat, m \in 0..compiled :
       (\A k \in 1..compiled : plans[k].command.at <= t <=> k <= m) =>
         \E j \in 0..Len(schedule[l]) :
           /\ \A k \in DOMAIN schedule[l] : schedule[l][k].at <= t <=> k <= j
           /\ l \in After(m) <=> Closing(l, j)

(* Compiling a plan appends to the schedule of a line or leaves it alone.  *)
LEMMA Appends ==
  ASSUME TypeOK, Planned, Compiled, CompilePlan, NEW l \in Lines
  PROVE  \/ schedule'[l] = schedule[l]
         \/ /\ \E o \in Physical(Plan) : o.line = l
            /\ \E c \in BOOLEAN :
                 schedule'[l] = Append(schedule[l], [at |-> Plan.command.at, closed |-> c])
<1> DEFINE Last == CHOOSE o \in Physical(Plan) : o.line = l
<1>1. CASE ~\E o \in Physical(Plan) : o.line = l
  BY <1>1 DEF CompilePlan
<1>2. CASE \E o \in Physical(Plan) : o.line = l
  <2>1. schedule'[l] = Append(schedule[l],
          [at |-> Plan.command.at, closed |-> Last.accepted = Last.close])
    BY <1>2 DEF CompilePlan
  <2>2. (Last.accepted = Last.close) \in BOOLEAN
    OBVIOUS
  <2> HIDE DEF Last
  <2> QED
    BY <1>2, <2>1, <2>2
<1> QED
  BY <1>1, <1>2

LEMMA ReplayGoesOn ==
  ASSUME TypeOK, Planned, Compiled, Replayed, CompilePlan
  PROVE  Replayed'
<1> DEFINE c == compiled
           a == Plan.command.at
<1>1. /\ c \in Nat /\ c < Len(plans) /\ Len(plans) \in Nat /\ compiled' = c + 1
      /\ plans' = plans /\ a = plans[c + 1].command.at /\ a \in Nat
      /\ \A k \in 1..Len(plans) : plans[k].command.at \in Nat
  <2>1. /\ c \in Nat /\ c < Len(plans) /\ Len(plans) \in Nat /\ compiled' = c + 1
        /\ plans' = plans /\ a = plans[c + 1].command.at
    BY PlanTypes DEF CompilePlan, powerVars, Compiled, Plan
  <2>2. \A k \in 1..Len(plans) : plans[k].command.at \in Nat
    BY PlanTypes
  <2>3. c + 1 \in 1..Len(plans)
    BY <2>1
  <2> HIDE DEF a, c
  <2>4. a \in Nat
    BY <2>1, <2>2, <2>3
  <2> QED
    BY <2>1, <2>2, <2>4
<1>2. c # 0 => plans[c].command.at <= a
  <2> SUFFICES ASSUME c # 0
               PROVE  plans[c].command.at <= a
    OBVIOUS
  <2>1. c + 1 \in DOMAIN plans /\ c + 1 > 1 /\ c + 1 - 1 = c
    BY <1>1, PlanTypes
  <2> QED
    BY <1>1, <2>1 DEF Planned
<1>3. Compiled'
  BY CompilingKeepsCompiled
<1> DEFINE n(l) == Len(schedule[l])
<1>4. ASSUME NEW l \in Lines
      PROVE  /\ schedule[l] \in Seq(Events) /\ n(l) \in Nat /\ DOMAIN schedule[l] = 1..n(l)
             /\ \A k \in 1..n(l) : schedule[l][k].at \in Nat /\ schedule[l][k].at <= a
             /\ \/ schedule'[l] = schedule[l]
                \/ /\ DOMAIN schedule'[l] = 1..(n(l) + 1) /\ Len(schedule'[l]) = n(l) + 1
                   /\ \A k \in 1..n(l) : schedule'[l][k] = schedule[l][k]
                   /\ schedule'[l][n(l) + 1].at = a
                   /\ \A k \in 1..n(l) : schedule[l][k].at < a
  <2>1. schedule[l] \in Seq(Events) /\ n(l) \in Nat /\ DOMAIN schedule[l] = 1..n(l)
    BY DEF Compiled
  <2>2. ASSUME NEW k \in 1..n(l)
        PROVE  schedule[l][k].at \in Nat /\ schedule[l][k].at <= a
    <3>1. schedule[l][k] \in Events
      BY <2>1
    <3>2. c # 0 /\ schedule[l][k].at <= plans[c].command.at
      BY <2>1 DEF Replayed
    <3>3. schedule[l][k].at \in Nat /\ plans[c].command.at \in Nat
      BY <1>1, <3>1, <3>2 DEF Events
    <3> QED
      BY <1>1, <1>2, <3>2, <3>3
  <2>3. ASSUME NEW o \in Physical(Plan), o.line = l, NEW closing \in BOOLEAN,
               schedule'[l] = Append(schedule[l], [at |-> a, closed |-> closing])
        PROVE  /\ DOMAIN schedule'[l] = 1..(n(l) + 1) /\ Len(schedule'[l]) = n(l) + 1
               /\ \A k \in 1..n(l) : schedule'[l][k] = schedule[l][k]
               /\ schedule'[l][n(l) + 1].at = a
               /\ \A k \in 1..n(l) : schedule[l][k].at < a
    <3> DEFINE e == [at |-> a, closed |-> closing]
    <3>1. e \in Events /\ e.at = a
      BY <1>1 DEF Events
    <3> HIDE DEF e
    <3>2. schedule'[l] = Append(schedule[l], e)
      BY <2>3 DEF e
    <3>3. /\ DOMAIN schedule'[l] = 1..(n(l) + 1) /\ Len(schedule'[l]) = n(l) + 1
          /\ \A k \in 1..n(l) : schedule'[l][k] = schedule[l][k]
          /\ schedule'[l][n(l) + 1] = e
      BY <2>1, <3>1, <3>2, Appended
    <3>4. n(l) # 0 => schedule[l][n(l)].at # a
      BY <2>1, <2>3 DEF CompilePlan, TooClose
    <3>5. ASSUME NEW k \in 1..n(l)
          PROVE  schedule[l][k].at < a
      <4>1. n(l) \in 1..n(l) /\ k <= n(l)
        BY <2>1
      <4>2. schedule[l][n(l)].at < a
        BY <1>1, <2>2, <3>4, <4>1
      <4>3. k < n(l) => schedule[l][k].at < schedule[l][n(l)].at
        BY <2>1, <4>1 DEF Replayed
      <4>4. schedule[l][k].at \in Nat /\ schedule[l][n(l)].at \in Nat
        BY <2>2, <4>1
      <4>5. k = n(l) \/ k < n(l)
        BY <2>1, <4>1
      <4>6. CASE k = n(l)
        BY <4>2, <4>6
      <4>7. CASE k < n(l)
        <5>1. a \in Nat
          BY <1>1
        <5>2. schedule[l][k].at < schedule[l][n(l)].at
          BY <4>3, <4>7
        <5> HIDE DEF a, n
        <5> QED
          BY <4>2, <4>4, <5>1, <5>2
      <4> QED
        BY <4>5, <4>6, <4>7
    <3> QED
      BY <3>1, <3>3, <3>5
  <2> QED
    BY <2>1, <2>2, <2>3, Appends
<1> HIDE DEF a, c, n
<1>5. \A l \in Lines : \A k \in DOMAIN schedule'[l] :
        schedule'[l][k].at <= a /\ schedule'[l][k].at \in Nat
  <2> SUFFICES ASSUME NEW l \in Lines, NEW k \in DOMAIN schedule'[l]
               PROVE  schedule'[l][k].at <= a /\ schedule'[l][k].at \in Nat
    OBVIOUS
  <2>1. CASE schedule'[l] = schedule[l]
    BY <1>4, <2>1
  <2>2. CASE schedule'[l] # schedule[l]
    <3>1. /\ DOMAIN schedule'[l] = 1..(n(l) + 1) /\ n(l) \in Nat
          /\ \A i \in 1..n(l) : schedule'[l][i] = schedule[l][i]
          /\ \A i \in 1..n(l) : schedule[l][i].at \in Nat /\ schedule[l][i].at <= a
          /\ schedule'[l][n(l) + 1].at = a
      BY <1>4, <2>2
    <3>2. CASE k \in 1..n(l)
      BY <3>1, <3>2
    <3>3. CASE k = n(l) + 1
      BY <1>1, <3>1, <3>3
    <3> QED
      BY <3>1, <3>2, <3>3
  <2> QED
    BY <2>1, <2>2
<1>6. \A l \in Lines : \A j, k \in DOMAIN schedule'[l] :
        j < k => schedule'[l][j].at < schedule'[l][k].at
  <2> SUFFICES ASSUME NEW l \in Lines, NEW j \in DOMAIN schedule'[l],
                      NEW k \in DOMAIN schedule'[l], j < k
               PROVE  schedule'[l][j].at < schedule'[l][k].at
    OBVIOUS
  <2>1. CASE schedule'[l] = schedule[l]
    BY <2>1 DEF Replayed
  <2>2. CASE schedule'[l] # schedule[l]
    <3>1. /\ DOMAIN schedule'[l] = 1..(n(l) + 1) /\ n(l) \in Nat /\ DOMAIN schedule[l] = 1..n(l)
          /\ \A i \in 1..n(l) : schedule'[l][i] = schedule[l][i] /\ schedule[l][i].at < a
          /\ schedule'[l][n(l) + 1].at = a
      BY <1>4, <2>2
    <3>2. CASE k = n(l) + 1
      BY <3>1, <3>2
    <3>3. CASE k # n(l) + 1
      BY <3>1, <3>3 DEF Replayed
    <3> QED
      BY <3>2, <3>3
  <2> QED
    BY <2>1, <2>2
<1>7. ASSUME NEW l \in Lines, NEW t \in Nat, NEW m \in 0..(c + 1),
             \A k \in 1..(c + 1) : plans[k].command.at <= t <=> k <= m
      PROVE  \E j \in 0..Len(schedule'[l]) :
               /\ \A k \in DOMAIN schedule'[l] : schedule'[l][k].at <= t <=> k <= j
               /\ l \in After(m) <=> Closing(l, j)
  <2>1. /\ schedule'[l] \in Seq(Events) /\ Len(schedule'[l]) \in Nat
        /\ DOMAIN schedule'[l] = 1..Len(schedule'[l])
    BY <1>3 DEF Compiled
  <2>2. CASE a <= t
    <3>1. m = c + 1
      BY <1>1, <1>7, <2>2
    <3>2. \A k \in DOMAIN schedule'[l] : schedule'[l][k].at <= t <=> k <= Len(schedule'[l])
      BY <1>1, <1>5, <2>1, <2>2
    <3>3. final_closed(l)' <=> l \in After(c + 1)
      BY <1>1, <1>3 DEF Compiled, After
    <3>4. final_closed(l)' <=> Closing(l, Len(schedule'[l]))
      <4>1. CASE schedule'[l] = <<>>
        <5>1. Len(schedule'[l]) = 0
          BY <4>1
        <5> QED
          BY <4>1, <5>1 DEF final_closed, Closing, initial_closed
      <4>2. CASE schedule'[l] # <<>>
        <5>1. Len(schedule'[l]) \in DOMAIN schedule'[l]
          BY <2>1, <4>2
        <5> QED
          BY <1>3, <4>2, <5>1 DEF final_closed, Compiled, Closing, initial_closed
      <4> QED
        BY <4>1, <4>2
    <3> QED
      BY <2>1, <3>1, <3>2, <3>3, <3>4
  <2>3. CASE ~(a <= t)
    <3>1. m \in 0..c /\ \A k \in 1..c : plans[k].command.at <= t <=> k <= m
      BY <1>1, <1>7, <2>3
    <3>2. PICK j \in 0..n(l) :
            /\ \A k \in DOMAIN schedule[l] : schedule[l][k].at <= t <=> k <= j
            /\ l \in After(m) <=> Closing(l, j)
      BY <3>1 DEF Replayed, c, n
    <3>3. j \in 0..Len(schedule'[l])
          /\ \A k \in DOMAIN schedule'[l] : schedule'[l][k].at <= t <=> k <= j
      <4>1. CASE schedule'[l] = schedule[l]
        BY <3>2, <4>1 DEF n
      <4>2. CASE schedule'[l] # schedule[l]
        <5>1. /\ DOMAIN schedule'[l] = 1..(n(l) + 1) /\ n(l) \in Nat /\ DOMAIN schedule[l] = 1..n(l)
              /\ Len(schedule'[l]) = n(l) + 1
              /\ \A i \in 1..n(l) : schedule'[l][i] = schedule[l][i]
              /\ schedule'[l][n(l) + 1].at = a
          BY <1>4, <4>2
        <5>2. ASSUME NEW k \in 1..(n(l) + 1)
              PROVE  schedule'[l][k].at <= t <=> k <= j
          <6>1. CASE k = n(l) + 1
            BY <2>3, <3>2, <5>1, <6>1
          <6>2. CASE k # n(l) + 1
            <7>1. k \in 1..n(l)
              BY <5>1, <6>2
            <7> QED
              BY <3>2, <5>1, <7>1
          <6> QED
            BY <6>1, <6>2
        <5> QED
          BY <3>2, <5>1, <5>2
      <4> QED
        BY <4>1, <4>2
    <3> QED
      BY <3>2, <3>3
  <2> QED
    BY <2>2, <2>3
<1>8. plans'[compiled'].command.at = a /\ compiled' # 0
  BY <1>1
<1> QED
  BY <1>1, <1>5, <1>6, <1>7, <1>8 DEF Replayed, c, After, Closing, initial_closed

(* In every behaviour of the pipeline.                                     *)
LEMMA ReplayIsTrue == PipelineSpec => []Replayed
<1>1. PipelineInit => Replayed
  <2> SUFFICES ASSUME PipelineInit
               PROVE  Replayed
    OBVIOUS
  <2>1. compiled = 0 /\ schedule = [l \in Lines |-> <<>>]
    BY DEF PipelineInit, TimelineInit
  <2>2. \A l \in Lines : schedule[l] = <<>> /\ DOMAIN schedule[l] = {} /\ Len(schedule[l]) = 0
    BY <2>1
  <2>3. \A l \in Lines, m \in 0..0 : l \in After(m) <=> Closing(l, 0)
    BY DEF After, Closing, initial_closed
  <2> QED
    BY <2>1, <2>2, <2>3 DEF Replayed
<1>2. TypeOK /\ Planned /\ Compiled /\ Replayed /\ [PipelineNext]_vars => Replayed'
  <2> SUFFICES ASSUME TypeOK, Planned, Compiled, Replayed, [PipelineNext]_vars
               PROVE  Replayed'
    OBVIOUS
  <2>1. ASSUME compiled' = compiled, schedule' = schedule,
               \A k \in 1..compiled : plans'[k] = plans[k]
        PROVE  Replayed'
    <3>1. compiled \in Nat /\ (compiled # 0 => compiled \in 1..compiled)
      BY DEF Compiled
    <3>2. \A m \in 0..compiled : After(m)' = After(m)
      BY <2>1, <3>1 DEF After
    <3>3. \A l \in Lines : \A k \in DOMAIN schedule[l] :
            compiled # 0 /\ schedule[l][k].at <= plans'[compiled].command.at
      BY <2>1, <3>1 DEF Replayed
    <3>4. ASSUME NEW l \in Lines, NEW t \in Nat, NEW m \in 0..compiled,
                 \A k \in 1..compiled : plans'[k].command.at <= t <=> k <= m
          PROVE  \E j \in 0..Len(schedule[l]) :
                   /\ \A k \in DOMAIN schedule[l] : schedule[l][k].at <= t <=> k <= j
                   /\ l \in After(m)' <=> Closing(l, j)
      <4>1. \A k \in 1..compiled : plans[k].command.at <= t <=> k <= m
        BY <2>1, <3>4
      <4>2. PICK j \in 0..Len(schedule[l]) :
              /\ \A k \in DOMAIN schedule[l] : schedule[l][k].at <= t <=> k <= j
              /\ l \in After(m) <=> Closing(l, j)
        BY <4>1 DEF Replayed
      <4> QED
        BY <3>2, <4>2
    <3>5. \A l \in Lines : \A j, k \in DOMAIN schedule[l] :
            j < k => schedule[l][j].at < schedule[l][k].at
      BY DEF Replayed
    <3> QED
      BY <2>1, <3>3, <3>4, <3>5 DEF Replayed, Closing, initial_closed
  <2>2. CASE Control
    <3>1. [Next]_powerVars /\ compiled' = compiled /\ schedule' = schedule
      BY <2>2 DEF Control, timelineVars
    <3>2. \A k \in 1..compiled : plans'[k] = plans[k]
      BY <3>1, HistoryGrows DEF Compiled
    <3> QED
      BY <2>1, <3>1, <3>2
  <2>3. CASE CompilePlan
    BY <2>3, ReplayGoesOn
  <2>4. CASE UNCHANGED <<plans, compiled, schedule>>
    BY <2>1, <2>4
  <2>5. \/ Control \/ CompilePlan \/ UNCHANGED <<plans, compiled, schedule>>
    BY DEF PipelineNext, Compile, vars, powerVars, timelineVars, StartTimeline, RefusePlan,
           TimelineDone, RefuseDuration, RefuseFaults, AcceptFaults, RefuseSteadyFaults,
           StartSnapshot, RefuseBinding, manifest_for_timeline, manifest_for_state, Write, Fail
  <2> QED
    BY <2>2, <2>3, <2>4, <2>5
<1>3. PipelineSpec => [](TypeOK /\ Planned /\ Compiled)
  BY PipelineRunsPlane, TypeCorrect, HistoryIsConsistent, CompilesTruly, PTL
<1> QED
  BY <1>1, <1>2, <1>3, PTL DEF PipelineSpec

-----------------------------------------------------------------------------
(* The length of the run.                                                  *)

LEMMA LargestEnd ==
  ASSUME NEW n \in Nat, NEW f \in [1..n -> Int]
  PROVE  \E m \in {1} \union {f[i] : i \in 1..n} :
           \A k \in {1} \union {f[i] : i \in 1..n} : k <= m
<1> DEFINE Ends1(j) == {1} \union {f[i] : i \in 1..j}
           Good(j) == \E m \in Ends1(j) : \A k \in Ends1(j) : k <= m
           Bad == {j \in 0..n : ~Good(j)}
<1>1. Good(0)
  OBVIOUS
<1>2. ASSUME NEW j \in 1..n, Good(j - 1)
      PROVE  Good(j)
  <2>1. PICK m \in Ends1(j - 1) : \A k \in Ends1(j - 1) : k <= m
    BY <1>2
  <2>2. Ends1(j) = Ends1(j - 1) \union {f[j]} /\ f[j] \in Int /\ m \in Int
    OBVIOUS
  <2> HIDE DEF Ends1
  <2>3. CASE f[j] <= m
    BY <2>1, <2>2, <2>3
  <2>4. CASE ~(f[j] <= m)
    <3>1. ASSUME NEW k \in Ends1(j)
          PROVE  k <= f[j]
      <4>1. CASE k = f[j]
        BY <2>2, <4>1
      <4>2. CASE k # f[j]
        <5>1. k \in Ends1(j - 1) /\ k <= m
          BY <2>1, <2>2, <4>2
        <5>2. k \in Int
          BY <5>1 DEF Ends1
        <5> QED
          BY <2>2, <2>4, <5>1, <5>2
      <4> QED
        BY <4>1, <4>2
    <3> QED
      BY <2>2, <3>1
  <2> QED
    BY <2>3, <2>4
<1> HIDE DEF Good
<1>3. CASE Bad = {}
  <2>1. n \in 0..n
    OBVIOUS
  <2> QED
    BY <1>3, <2>1 DEF Good
<1>4. CASE Bad # {}
  <2>1. Bad \subseteq Nat
    OBVIOUS
  <2>2. PICK j \in Bad : \A k \in Bad : ~(k < j)
    BY <1>4, <2>1, LeastNumber
  <2>3. j \in 1..n /\ j - 1 \in 0..n /\ j - 1 < j
    BY <1>1, <2>2
  <2>4. Good(j - 1)
    BY <2>2, <2>3
  <2> QED
    BY <1>2, <2>2, <2>3, <2>4
<1> QED
  BY <1>3, <1>4

(* The types of what the request asks for.                                 *)
LEMMA RequestTypes ==
  ASSUME request \in Requests
  PROVE  /\ request.faults \in Seq([id : STRING, node : Nat, start : Int, length : Int, type : STRING])
         /\ Len(request.faults) \in Nat /\ DOMAIN request.faults = 1..Len(request.faults)
         /\ \A i \in DOMAIN request.faults : Fault(i).start \in Int /\ Fault(i).length \in Int
         /\ request.lines \in Seq([line : Nat, timed : BOOLEAN])
         /\ request.elements \in Seq([id : STRING, node : Nat])
         /\ request.override \in Nat \union {None}
         /\ request.mode \in {"transient", "steady_state"}
<1>1. request \in Request
  BY PipelineAssumption
<1>2. /\ request.faults \in Seq([id : STRING, node : Nat, start : Int, length : Int, type : STRING])
      /\ request.lines \in Seq([line : Nat, timed : BOOLEAN])
      /\ request.elements \in Seq([id : STRING, node : Nat])
      /\ request.override \in Nat \union {None}
      /\ request.mode \in {"transient", "steady_state"}
  BY <1>1 DEF Request
<1>3. Len(request.faults) \in Nat /\ DOMAIN request.faults = 1..Len(request.faults)
  BY <1>2
<1>4. ASSUME NEW i \in DOMAIN request.faults
      PROVE  Fault(i).start \in Int /\ Fault(i).length \in Int
  <2> DEFINE Row == [id : STRING, node : Nat, start : Int, length : Int, type : STRING]
  <2> HIDE DEF Row
  <2>1. request.faults \in Seq(Row)
    BY <1>2 DEF Row
  <2>2. Fault(i) \in Row
    BY <2>1 DEF Fault
  <2> QED
    BY <2>2 DEF Row
<1> QED
  BY <1>2, <1>3, <1>4

LEMMA MinimumCoversFaults ==
  ASSUME request \in Requests
  PROVE  /\ minimum_duration \in Int /\ 1 <= minimum_duration
         /\ \A i \in DOMAIN request.faults : end_s(i) + PostEventWindow <= minimum_duration
<1> DEFINE n == Len(request.faults)
           f == [i \in 1..n |-> end_s(i) + PostEventWindow]
           lasts == {1} \union {f[i] : i \in 1..n}
<1>1. n \in Nat /\ DOMAIN request.faults = 1..n
  BY RequestTypes
<1>2. f \in [1..n -> Int]
  <2>1. ASSUME NEW i \in 1..n
        PROVE  end_s(i) + PostEventWindow \in Int
    <3>1. i \in DOMAIN request.faults
      BY <1>1
    <3>2. Fault(i).start \in Int /\ Fault(i).length \in Int
      BY <3>1, RequestTypes
    <3> QED
      BY <3>2, TimelineAssumption DEF end_s
  <2> QED
    BY <2>1
<1>3. lasts = {1} \union {end_s(i) + PostEventWindow : i \in DOMAIN request.faults}
  BY <1>1
<1>4. minimum_duration = CHOOSE m \in lasts : \A k \in lasts : k <= m
  BY <1>3 DEF minimum_duration
<1> HIDE DEF n
<1>5. \E m \in lasts : \A k \in lasts : k <= m
  <2> HIDE DEF f
  <2> QED
    BY <1>1, <1>2, LargestEnd
<1>6. minimum_duration \in lasts /\ \A k \in lasts : k <= minimum_duration
  <2> HIDE DEF lasts
  <2> QED
    BY <1>4, <1>5
<1>7. lasts \subseteq Int /\ 1 \in lasts
  BY <1>2
<1>8. \A i \in DOMAIN request.faults : end_s(i) + PostEventWindow \in lasts
  BY <1>3
<1> QED
  BY <1>6, <1>7, <1>8

-----------------------------------------------------------------------------
(* What is known when the manifest is written, and after.                  *)

Parameters == [init : BOOLEAN, count : Int, times : [1..MaxToggles -> Int]]

transient == request.mode = "transient"
steady == request.mode = "steady_state"

Prepared ==
  /\ request \in Requests
  /\ breaker \in [Lines -> Parameters]
  /\ stage \in {"control", "compile", "bind", "bound"} =>
       \A i \in DOMAIN request.faults : ~InvalidFault(i)
  /\ stage = "compile" => transient
  /\ stage \in {"bind", "bound"} =>
       /\ duration \in Nat
       /\ transient => /\ compiled = Len(plans)
                       /\ \A i \in DOMAIN request.faults : end_s(i) + PostEventWindow <= duration
       /\ steady => duration = 1 /\ request.faults = <<>>

FaultsWritten ==
  /\ \A i \in DOMAIN request.faults :
       /\ \E e \in Entries(request.elements) : e.id = Fault(i).id
       /\ \A e \in Entries(request.elements) : e.id = Fault(i).id => e.node = Fault(i).node
  /\ \A id \in FaultIds : (\E e \in Entries(request.elements) : e.id = id) =>
       /\ \A i \in DOMAIN request.faults : Fault(i).id = id =>
            element[id] = [start |-> Fault(i).start, length |-> Fault(i).length, type |-> Fault(i).type]
       /\ (\A i \in DOMAIN request.faults : Fault(i).id # id) => element[id].start = duration + 1

TimelineWritten ==
  \A l \in Lines : Mapped(l) =>
    /\ Timed(l) /\ Len(schedule[l]) <= MaxToggles
    /\ breaker[l] = parameters_for(l)

StateWritten ==
  \A l \in Lines : Mapped(l) =>
    /\ breaker[l].init = (l \in closed)
    /\ Timed(l) => breaker[l].count = 1 /\ breaker[l].times[1] = Never + 1

Written ==
  stage = "bound" =>
    /\ FaultsWritten
    /\ transient => TimelineWritten
    /\ steady => StateWritten

(* No two rows of a sequence without duplicates share a key.               *)
LEMMA UniqueElement ==
  ASSUME request \in Requests, ~Duplicates(BoundIds),
         NEW e \in Entries(request.elements), NEW f \in Entries(request.elements), e.id = f.id
  PROVE  e = f
<1>1. Len(request.elements) \in Nat /\ DOMAIN request.elements = 1..Len(request.elements)
  BY RequestTypes
<1>2. PICK i \in DOMAIN request.elements, j \in DOMAIN request.elements :
        e = request.elements[i] /\ f = request.elements[j]
  BY DEF Entries
<1>3. DOMAIN BoundIds = DOMAIN request.elements /\ BoundIds[i] = e.id /\ BoundIds[j] = f.id
  BY <1>2 DEF BoundIds
<1>4. ~(i < j) /\ ~(j < i)
  BY <1>3 DEF Duplicates
<1>5. i = j
  BY <1>1, <1>4
<1> QED
  BY <1>2, <1>5

(* Nothing is bound unless every check passes.                             *)
LEMMA BindableMeans ==
  ASSUME Bindable
  PROVE  /\ ~Duplicates(BoundIds)
         /\ transient => \A l \in Lines : Representable(l) /\ (Mapped(l) => Timed(l))
         /\ \A i \in DOMAIN request.faults :
              Bound(Fault(i).id) /\ NodeOf(Fault(i).id) = Fault(i).node
<1>1. DOMAIN BindingChecks = 1..7
  BY DEF BindingChecks
<1>2. ~BindingChecks[2].found /\ ~BindingChecks[4].found /\ ~BindingChecks[5].found
      /\ ~BindingChecks[6].found /\ ~BindingChecks[7].found
  BY <1>1 DEF Bindable
<1>3. ~Duplicates(BoundIds)
  BY <1>2 DEF BindingChecks
<1>4. transient => ~\E l \in Lines : ~Representable(l)
  BY <1>2 DEF BindingChecks, transient
<1>5. transient => ~\E l \in Lines : Mapped(l) /\ ~Timed(l)
  BY <1>2 DEF BindingChecks, transient
<1>6. ~\E i \in DOMAIN request.faults : ~Bound(Fault(i).id)
  BY <1>2 DEF BindingChecks
<1>7. ~\E i \in DOMAIN request.faults : Bound(Fault(i).id) /\ NodeOf(Fault(i).id) # Fault(i).node
  BY <1>2 DEF BindingChecks
<1> QED
  BY <1>3, <1>4, <1>5, <1>6, <1>7

(* The fault elements as they are written.                                 *)
LEMMA WritesFaults ==
  ASSUME Prepared, stage = "bind", Bindable, element' = _fault_calls,
         duration' = duration, request' = request
  PROVE  FaultsWritten'
<1>1. /\ request \in Requests /\ ~Duplicates(BoundIds)
      /\ \A i \in DOMAIN request.faults : Bound(Fault(i).id) /\ NodeOf(Fault(i).id) = Fault(i).node
      /\ \A i \in DOMAIN request.faults : ~InvalidFault(i)
  BY BindableMeans DEF Prepared
<1>2. Len(request.faults) \in Nat /\ DOMAIN request.faults = 1..Len(request.faults)
  BY <1>1, RequestTypes
<1>3. ASSUME NEW i \in DOMAIN request.faults, NEW e \in Entries(request.elements), e.id = Fault(i).id
      PROVE  e.node = Fault(i).node
  <2> DEFINE chosen == CHOOSE f \in Entries(request.elements) : f.id = Fault(i).id
  <2>1. chosen \in Entries(request.elements) /\ chosen.id = Fault(i).id
    BY <1>3
  <2>2. chosen = e
    <3> HIDE DEF chosen
    <3> QED
      BY <1>1, <1>3, <2>1, UniqueElement
  <2>3. NodeOf(Fault(i).id) = chosen.node
    BY DEF NodeOf
  <2> QED
    BY <1>1, <2>2, <2>3
<1>4. ASSUME NEW i \in DOMAIN request.faults, NEW id, Fault(i).id = id
      PROVE  Declared(id) /\ Declaration(id) = Fault(i)
  <2> DEFINE k == CHOOSE j \in DOMAIN request.faults : Fault(j).id = id
  <2>1. k \in DOMAIN request.faults /\ Fault(k).id = id
    BY <1>4
  <2>2. Declaration(id) = Fault(k)
    BY DEF Declaration
  <2> HIDE DEF k
  <2>3. ~(i < k) /\ ~(k < i)
    BY <1>1, <1>4, <2>1 DEF InvalidFault
  <2>4. i = k
    BY <1>2, <2>1, <2>3
  <2> QED
    BY <1>4, <2>2, <2>4 DEF Declared
<1>5. ASSUME NEW id \in FaultIds, Bound(id), NEW i \in DOMAIN request.faults, Fault(i).id = id
      PROVE  element'[id] = [start |-> Fault(i).start, length |-> Fault(i).length, type |-> Fault(i).type]
  <2>1. Declared(id) /\ Declaration(id) = Fault(i)
    BY <1>4, <1>5
  <2>2. element'[id] = [start |-> Declaration(id).start, length |-> Declaration(id).length,
                        type |-> Declaration(id).type]
    BY <1>5, <2>1 DEF _fault_calls
  <2> QED
    BY <2>1, <2>2
<1>6. ASSUME NEW id \in FaultIds, Bound(id), \A i \in DOMAIN request.faults : Fault(i).id # id
      PROVE  element'[id].start = duration + 1
  BY <1>6 DEF _fault_calls, Declared
<1>7. /\ \A i \in DOMAIN request.faults : \E e \in Entries(request.elements) : e.id = Fault(i).id
      /\ \A id \in FaultIds : (\E e \in Entries(request.elements) : e.id = id) => Bound(id)
  BY <1>1 DEF Bound
<1> QED
  BY <1>3, <1>5, <1>6, <1>7 DEF FaultsWritten, Fault

(* What is written into the breakers has their type.                       *)
LEMMA WritesParameters ==
  ASSUME Compiled, Prepared, stage = "bind", NEW l \in Lines
  PROVE  parameters_for(l) \in Parameters /\ state_parameters(l) \in Parameters
<1>1. /\ MaxToggles \in Nat /\ duration \in Nat /\ schedule[l] \in Seq(Events)
      /\ breaker[l] \in Parameters /\ initial_closed(l) \in BOOLEAN
  BY PipelineAssumption DEF Prepared, Compiled, initial_closed
<1>2. Len(schedule[l]) \in Nat /\ \A k \in 1..Len(schedule[l]) : schedule[l][k].at \in Int
  <2>1. \A k \in 1..Len(schedule[l]) : schedule[l][k] \in Events
    BY <1>1
  <2> QED
    BY <1>1, <2>1 DEF Events
<1>3. Larger(1, Len(schedule[l])) \in Int
  BY <1>2 DEF Larger
<1>4. ASSUME NEW k \in 1..MaxToggles
      PROVE  (IF k <= Len(schedule[l]) THEN schedule[l][k].at
              ELSE duration + k - Len(schedule[l])) \in Int
  BY <1>1, <1>2
<1>5. [k \in 1..MaxToggles |-> IF k <= Len(schedule[l]) THEN schedule[l][k].at
         ELSE duration + k - Len(schedule[l])] \in [1..MaxToggles -> Int]
  BY <1>4
<1>6. parameters_for(l) \in Parameters
  BY <1>1, <1>3, <1>5 DEF parameters_for, Parameters
<1>7. state_parameters(l) \in Parameters
  <2>1. [k \in 1..MaxToggles |-> Never + k] \in [1..MaxToggles -> Int]
    BY <1>1 DEF Never
  <2>2. (l \in closed) \in BOOLEAN
    OBVIOUS
  <2>3. [breaker[l] EXCEPT !.init = l \in closed] \in Parameters
    BY <1>1, <2>2 DEF Parameters
  <2> QED
    BY <2>1, <2>2, <2>3 DEF state_parameters, Parameters
<1> QED
  BY <1>6, <1>7

(* The manifest of a timeline.                                             *)
LEMMA WritesTimeline ==
  ASSUME Prepared, manifest_for_timeline
  PROVE  TimelineWritten'
<1>1. /\ transient /\ Bindable /\ UNCHANGED <<closed, schedule, duration, request>>
      /\ breaker' = [l \in Lines |-> IF Mapped(l) THEN [k \in Lines |-> parameters_for(k)][l]
                                     ELSE breaker[l]]
  BY DEF manifest_for_timeline, Write, transient, powerVars
<1>2. \A l \in Lines : Representable(l) /\ (Mapped(l) => Timed(l))
  BY <1>1, BindableMeans
<1>3. ASSUME NEW l \in Lines, Mapped(l)
      PROVE  Timed(l) /\ Len(schedule[l]) <= MaxToggles /\ breaker'[l] = parameters_for(l)
  <2>1. Timed(l) /\ Len(schedule[l]) <= MaxToggles
    BY <1>2, <1>3 DEF Representable
  <2> QED
    BY <1>1, <1>3, <2>1
<1>4. \A l \in Lines : /\ parameters_for(l)' = parameters_for(l)
                       /\ Mapped(l)' <=> Mapped(l)
                       /\ Timed(l)' <=> Timed(l)
  BY <1>1 DEF parameters_for, Mapped, Timed, initial_closed
<1> QED
  BY <1>1, <1>3, <1>4 DEF TimelineWritten

(* The manifest of the final state.                                        *)
LEMMA WritesState ==
  ASSUME Prepared, manifest_for_state
  PROVE  StateWritten'
<1>1. /\ UNCHANGED <<closed, request>>
      /\ breaker' = [l \in Lines |-> IF Mapped(l) THEN [k \in Lines |-> state_parameters(k)][l]
                                     ELSE breaker[l]]
  BY DEF manifest_for_state, Write, powerVars
<1>2. MaxToggles \in Nat /\ 1 \in 1..MaxToggles
  BY PipelineAssumption
<1>3. ASSUME NEW l \in Lines, Mapped(l)
      PROVE  /\ breaker'[l].init = (l \in closed)
             /\ Timed(l) => breaker'[l].count = 1 /\ breaker'[l].times[1] = Never + 1
  <2>1. breaker'[l] = state_parameters(l) /\ breaker[l] \in Parameters
    BY <1>1, <1>3 DEF Prepared
  <2>2. CASE Timed(l)
    BY <1>2, <2>1, <2>2 DEF state_parameters
  <2>3. CASE ~Timed(l)
    BY <2>1, <2>3 DEF state_parameters, Parameters
  <2> QED
    BY <2>2, <2>3
<1>4. \A l \in Lines : (Mapped(l)' <=> Mapped(l)) /\ (Timed(l)' <=> Timed(l))
  BY <1>1 DEF Mapped, Timed
<1> QED
  BY <1>1, <1>3, <1>4 DEF StateWritten

(* In every behaviour of the pipeline.                                     *)
LEMMA ManifestIsWritten == PipelineSpec => [](Prepared /\ Written)
<1> DEFINE Inv == Prepared /\ Written
<1>1. PipelineInit => Inv
  <2> SUFFICES ASSUME PipelineInit
               PROVE  Inv
    OBVIOUS
  <2>1. stage = "request" /\ request \in Requests /\ (AsBuilt \/ AsLeft)
    BY DEF PipelineInit
  <2>2. /\ \A l \in Lines : (l \in InitiallyClosed) \in BOOLEAN
        /\ MaxToggles \in Int
        /\ [k \in 1..MaxToggles |-> Never + k] \in [1..MaxToggles -> Int]
        /\ [k \in 1..MaxToggles |-> k] \in [1..MaxToggles -> Int]
    BY PipelineAssumption DEF Never
  <2>3. breaker \in [Lines -> Parameters]
    <3>1. CASE AsBuilt
      <4>1. \A l \in Lines : [init |-> l \in InitiallyClosed, count |-> 1,
                             times |-> [k \in 1..MaxToggles |-> Never + k]] \in Parameters
        BY <2>2 DEF Parameters
      <4> QED
        BY <3>1, <4>1 DEF AsBuilt
    <3>2. CASE AsLeft
      <4>1. [init |-> FALSE, count |-> MaxToggles,
             times |-> [k \in 1..MaxToggles |-> k]] \in Parameters
        BY <2>2 DEF Parameters
      <4> QED
        BY <3>2, <4>1 DEF AsLeft
    <3> QED
      BY <2>1, <3>1, <3>2
  <2> QED
    BY <2>1, <2>3 DEF Prepared, Written
<1>2. TypeOK /\ Compiled /\ Inv /\ [PipelineNext]_vars => Inv'
  <2> SUFFICES ASSUME TypeOK, Compiled, Prepared, Written, [PipelineNext]_vars
               PROVE  Inv'
    OBVIOUS
  <2>1. request' = request
    BY DEF PipelineNext, Compile, vars, StartTimeline, RefusePlan, CompilePlan,
           TimelineDone, RefuseDuration, RefuseFaults, AcceptFaults, Control, RefuseSteadyFaults,
           StartSnapshot, RefuseBinding, manifest_for_timeline, manifest_for_state, Write
  <2>2. /\ (\A i \in DOMAIN request'.faults : ~InvalidFault(i)')
             <=> (\A i \in DOMAIN request.faults : ~InvalidFault(i))
        /\ transient' <=> transient
        /\ steady' <=> steady
        /\ \A i : end_s(i)' = end_s(i)
    BY <2>1 DEF InvalidFault, Fault, transient, steady, end_s
  <2>3. CASE RefuseFaults \/ RefuseSteadyFaults \/ RefuseBinding
             \/ (Compile /\ (RefusePlan \/ RefuseDuration(minimum_duration, request.override)))
    <3>1. stage' = "failed" /\ breaker' = breaker
      BY <2>3 DEF RefuseFaults, RefuseSteadyFaults, RefuseBinding, Compile, RefusePlan,
                  RefuseDuration, Fail, manifestVars
    <3> QED
      BY <2>1, <3>1 DEF Prepared, Written
  <2>4. CASE AcceptFaults
    <3>1. /\ stage' = "control" /\ breaker' = breaker
          /\ \A i \in DOMAIN request.faults : ~InvalidFault(i)
      BY <2>4 DEF AcceptFaults, manifestVars
    <3> QED
      BY <2>1, <2>2, <3>1 DEF Prepared, Written
  <2>5. CASE Control \/ (Compile /\ (StartTimeline \/ CompilePlan))
    <3>1. /\ breaker' = breaker /\ stage \in {"control", "compile"}
          /\ \/ stage' = stage
             \/ stage' = "compile" /\ transient
          /\ stage' \in {"control", "compile"}
      BY <2>5 DEF Control, Compile, StartTimeline, CompilePlan, timelineVars, manifestVars, transient
    <3> QED
      BY <2>1, <2>2, <3>1 DEF Prepared, Written
  <2>6. CASE Compile /\ TimelineDone(minimum_duration, request.override)
    <3>1. /\ stage = "compile" /\ stage' = "bind" /\ compiled = Len(plans) /\ plans' = plans
          /\ compiled' = compiled /\ breaker' = breaker /\ transient
          /\ request.override = None \/ request.override >= required_duration(minimum_duration)
          /\ duration' = IF request.override = None THEN required_duration(minimum_duration)
                         ELSE request.override
      BY <2>6 DEF Compile, TimelineDone, powerVars, manifestVars, transient
    <3>2. /\ minimum_duration \in Int /\ 1 <= minimum_duration
          /\ \A i \in DOMAIN request.faults : end_s(i) + PostEventWindow <= minimum_duration
          /\ LastTime \in Nat /\ PostEventWindow \in Nat
          /\ request.override \in Nat \union {None}
      BY MinimumCoversFaults, RequestTypes, TimelineAssumption, PlanTypes DEF Prepared
    <3>3. required_duration(minimum_duration) \in Nat
          /\ minimum_duration <= required_duration(minimum_duration)
      BY <3>2 DEF required_duration, Larger
    <3>4. duration' \in Nat /\ minimum_duration <= duration'
      BY <3>1, <3>2, <3>3 DEF None
    <3>5. ASSUME NEW i \in DOMAIN request.faults
          PROVE  end_s(i) + PostEventWindow <= duration'
      <4>1. end_s(i) + PostEventWindow <= minimum_duration
        BY <3>2
      <4>2. end_s(i) + PostEventWindow \in Int
        <5>1. Fault(i).start \in Int /\ Fault(i).length \in Int
          BY RequestTypes DEF Prepared
        <5> QED
          BY <3>2, <5>1 DEF end_s
      <4> QED
        BY <3>2, <3>4, <4>1, <4>2
    <3>6. ~steady
      BY <3>1 DEF transient, steady
    <3>7. /\ request' \in Requests /\ breaker' \in [Lines -> Parameters]
          /\ \A i \in DOMAIN request'.faults : ~InvalidFault(i)'
      BY <2>1, <2>2, <3>1 DEF Prepared
    <3> QED
      BY <2>1, <2>2, <3>1, <3>4, <3>5, <3>6, <3>7 DEF Prepared, Written
  <2>7. CASE StartSnapshot
    <3>1. /\ stage = "control" /\ stage' = "bind" /\ duration' = 1 /\ breaker' = breaker
          /\ steady /\ ~transient /\ request.faults = <<>>
      BY <2>7 DEF StartSnapshot, manifestVars, steady, transient, Faulty
    <3>2. /\ request' \in Requests /\ breaker' \in [Lines -> Parameters]
          /\ \A i \in DOMAIN request'.faults : ~InvalidFault(i)'
      BY <2>1, <2>2, <3>1 DEF Prepared
    <3> QED
      BY <2>1, <2>2, <3>1, <3>2 DEF Prepared, Written
  <2>8. CASE manifest_for_timeline \/ manifest_for_state
    <3>1. /\ stage = "bind" /\ stage' = "bound" /\ Bindable /\ element' = _fault_calls
          /\ duration' = duration /\ compiled' = compiled /\ plans' = plans
      BY <2>8 DEF manifest_for_timeline, manifest_for_state, Write, powerVars
    <3>2. FaultsWritten'
      BY <2>1, <3>1, WritesFaults
    <3>3. ASSUME manifest_for_timeline
          PROVE  Written'
      <4>1. TimelineWritten' /\ ~steady
        BY <3>3, WritesTimeline DEF manifest_for_timeline, steady
      <4> QED
        BY <2>2, <3>2, <4>1, Zenon DEF Written
    <3>4. ASSUME manifest_for_state
          PROVE  Written'
      <4>1. StateWritten' /\ ~transient
        BY <3>4, WritesState DEF manifest_for_state, transient
      <4> QED
        BY <2>2, <3>2, <4>1, Zenon DEF Written
    <3>5. Written'
      BY <2>8, <3>3, <3>4
    <3>6. breaker' \in [Lines -> Parameters]
      <4>1. \A l \in Lines : parameters_for(l) \in Parameters /\ state_parameters(l) \in Parameters
        BY <3>1, WritesParameters
      <4>2. \A l \in Lines : breaker[l] \in Parameters
        BY DEF Prepared
      <4>3. \/ breaker' = [l \in Lines |-> IF Mapped(l) THEN parameters_for(l) ELSE breaker[l]]
            \/ breaker' = [l \in Lines |-> IF Mapped(l) THEN state_parameters(l) ELSE breaker[l]]
        BY <2>8 DEF manifest_for_timeline, manifest_for_state, Write
      <4> QED
        BY <4>1, <4>2, <4>3
    <3>7. Prepared'
      BY <2>1, <2>2, <3>1, <3>6 DEF Prepared
    <3> QED
      BY <3>5, <3>7
  <2>9. CASE UNCHANGED vars
    <3>1. UNCHANGED <<closed, plans, stage, compiled, schedule, duration, request, breaker, element>>
      BY <2>9 DEF vars, powerVars, timelineVars, manifestVars
    <3>2. Prepared'
      BY <2>2, <3>1 DEF Prepared
    <3>3. FaultsWritten' <=> FaultsWritten
      BY <3>1 DEF FaultsWritten, Fault
    <3>4. TimelineWritten' <=> TimelineWritten
      BY <3>1 DEF TimelineWritten, Mapped, Timed, parameters_for, initial_closed
    <3>5. StateWritten' <=> StateWritten
      BY <3>1 DEF StateWritten, Mapped, Timed
    <3> QED
      BY <2>2, <3>1, <3>2, <3>3, <3>4, <3>5 DEF Written
  <2> QED
    BY <2>3, <2>4, <2>5, <2>6, <2>7, <2>8, <2>9 DEF PipelineNext, Compile
<1>3. PipelineSpec => [](TypeOK /\ Compiled)
  BY PipelineRunsPlane, TypeCorrect, CompilesTruly, PTL
<1> QED
  BY <1>1, <1>2, <1>3, PTL DEF PipelineSpec

-----------------------------------------------------------------------------
(* What PSCAD does with it.                                                *)

(* In a transient run exactly the declared faults occur, for every request *)
(* and whatever an earlier run left (_fault_calls, minimum duration of     *)
(* run_control_pipeline).                                                  *)
THEOREM DeclaredFaultsOccur == PipelineSpec => []FaultsAsDeclared
<1>1. Prepared /\ Written => FaultsAsDeclared
  <2> SUFFICES ASSUME Prepared, FaultsWritten, stage = "bound", request.mode = "transient"
               PROVE  FaultsAsDeclared
    BY DEF FaultsAsDeclared, Transient, Written
  <2>1. /\ request \in Requests /\ duration \in Nat
        /\ \A i \in DOMAIN request.faults : end_s(i) + PostEventWindow <= duration
        /\ \A i \in DOMAIN request.faults : Fault(i).start \in Int /\ Fault(i).length \in Int
    BY RequestTypes DEF Prepared, transient
  <2>2. ASSUME NEW id \in FaultIds, Bound(id)
        PROVE  /\ \A i \in DOMAIN request.faults : Fault(i).id = id =>
                    /\ Fault(i).node = NodeOf(id)
                    /\ element[id] = [start |-> Fault(i).start, length |-> Fault(i).length,
                                      type |-> Fault(i).type]
               /\ (\A i \in DOMAIN request.faults : Fault(i).id # id) => element[id].start = duration + 1
    <3> DEFINE e == CHOOSE f \in Entries(request.elements) : f.id = id
    <3>1. e \in Entries(request.elements) /\ e.id = id /\ NodeOf(id) = e.node
      BY <2>2 DEF Bound, NodeOf
    <3> QED
      BY <3>1 DEF FaultsWritten
  <2>3. ASSUME NEW id \in FaultIds, NEW t \in 0..duration, Bound(id)
        PROVE  ElementAt(id, t) <=>
                 \E i \in DOMAIN request.faults :
                   /\ Fault(i).id = id /\ Fault(i).node = NodeOf(id)
                   /\ Fault(i).type = element[id].type
                   /\ Fault(i).start <= t /\ t < end_s(i)
    <3>1. t \in Int /\ t <= duration
      BY <2>1
    <3>2. CASE \A i \in DOMAIN request.faults : Fault(i).id # id
      <4>1. ~(element[id].start <= t)
        BY <2>1, <2>2, <2>3, <3>1, <3>2
      <4> QED
        BY <3>2, <4>1 DEF ElementAt
    <3>3. CASE \E i \in DOMAIN request.faults : Fault(i).id = id
      <4>1. ASSUME NEW i \in DOMAIN request.faults, Fault(i).id = id
            PROVE  /\ Fault(i).node = NodeOf(id) /\ Fault(i).type = element[id].type
                   /\ ElementAt(id, t) <=> Fault(i).start <= t /\ t < end_s(i)
        <5>1. element[id] = [start |-> Fault(i).start, length |-> Fault(i).length,
                             type |-> Fault(i).type] /\ Fault(i).node = NodeOf(id)
          BY <2>2, <2>3, <4>1
        <5>2. /\ element[id].start = Fault(i).start /\ element[id].length = Fault(i).length
              /\ element[id].type = Fault(i).type
          BY <5>1
        <5> QED
          BY <5>1, <5>2 DEF ElementAt, end_s
      <4> QED
        BY <3>3, <4>1
    <3> QED
      BY <3>2, <3>3
  <2>4. \A i \in DOMAIN request.faults : Bound(Fault(i).id) /\ duration >= end_s(i) + PostEventWindow
    <3>1. \A i \in DOMAIN request.faults : end_s(i) + PostEventWindow \in Int
      BY <2>1, TimelineAssumption DEF end_s
    <3> QED
      BY <2>1, <3>1 DEF FaultsWritten, Bound
  <2> QED
    BY <2>3, <2>4 DEF FaultsAsDeclared
<1> QED
  BY <1>1, ManifestIsWritten, PTL

(* A steady run has the final state from start to end (manifest_for_state).*)
THEOREM SnapshotShowsFinalState == PipelineSpec => []SnapshotIsFinalState
<1>1. Prepared /\ Written => SnapshotIsFinalState
  <2> SUFFICES ASSUME Prepared, FaultsWritten, StateWritten, stage = "bound",
                      request.mode = "steady_state"
               PROVE  SnapshotIsFinalState
    BY DEF SnapshotIsFinalState, Steady, Written, steady
  <2>1. duration = 1 /\ request.faults = <<>> /\ DOMAIN request.faults = {}
    <3>1. duration = 1 /\ request.faults = <<>>
      BY DEF Prepared, steady
    <3> QED
      BY <3>1
  <2>2. ASSUME NEW t \in 0..duration, NEW l \in Lines, Mapped(l)
        PROVE  BreakerAt(l, t) = (l \in closed)
    <3>1. t \in Int /\ t <= 1 /\ breaker[l].init = (l \in closed)
      BY <2>1, <2>2 DEF StateWritten
    <3>2. CASE ~Timed(l)
      BY <3>1, <3>2 DEF BreakerAt
    <3>3. CASE Timed(l)
      <4>1. breaker[l].count = 1 /\ breaker[l].times[1] = Never + 1
        BY <2>2, <3>3 DEF StateWritten
      <4>2. {k \in 1..breaker[l].count : breaker[l].times[k] <= t} = {}
        BY <3>1, <4>1 DEF Never
      <4>3. Cardinality({k \in 1..breaker[l].count : breaker[l].times[k] <= t}) % 2 = 0
        BY <4>2, FS_EmptySet
      <4> QED
        BY <3>1, <4>3 DEF BreakerAt
    <3> QED
      BY <3>2, <3>3
  <2>3. ASSUME NEW t \in 0..duration, NEW id \in FaultIds, Bound(id)
        PROVE  ~ElementAt(id, t)
    <3>1. element[id].start = duration + 1
      BY <2>1, <2>3 DEF FaultsWritten, Bound
    <3> QED
      BY <2>1, <3>1 DEF ElementAt
  <2> QED
    BY <2>2, <2>3 DEF SnapshotIsFinalState
<1> QED
  BY <1>1, ManifestIsWritten, PTL

(* The replay of a complete timeline: at time t the first m plans are      *)
(* past, and line l has toggled j times.                                   *)
LEMMA ReplayAt ==
  ASSUME TypeOK, Planned, Compiled, Replayed, compiled = Len(plans), NEW l \in Lines, NEW t \in Nat
  PROVE  \E j \in 0..Len(schedule[l]) :
           /\ {k \in DOMAIN schedule[l] : schedule[l][k].at <= t} = 1..j
           /\ l \in PlaneAt(t) <=> Closing(l, j)
<1> DEFINE past == {k \in DOMAIN plans : plans[k].command.at <= t}
           toggled == {k \in DOMAIN schedule[l] : schedule[l][k].at <= t}
<1>1. /\ Len(plans) \in Nat /\ DOMAIN plans = 1..Len(plans)
      /\ \A k \in DOMAIN plans : plans[k].command.at \in Nat
      /\ schedule[l] \in Seq(Events) /\ Len(schedule[l]) \in Nat
      /\ DOMAIN schedule[l] = 1..Len(schedule[l])
  BY PlanTypes DEF Compiled
<1>2. \A i, k \in 1..Len(plans) : i <= k => plans[i].command.at <= plans[k].command.at
  BY <1>1, PlansInOrder
<1>3. PICK m \in 0..Len(plans) : past = 1..m
  <2>1. past \in SUBSET (1..Len(plans))
    BY <1>1
  <2>2. \A i, k \in 1..Len(plans) : i <= k /\ k \in past => i \in past
    <3> SUFFICES ASSUME NEW i \in 1..Len(plans), NEW k \in 1..Len(plans), i <= k, k \in past
                 PROVE  i \in past
      OBVIOUS
    <3>1. /\ plans[i].command.at \in Nat /\ plans[k].command.at \in Nat
          /\ plans[i].command.at <= plans[k].command.at /\ plans[k].command.at <= t
      BY <1>1, <1>2
    <3> QED
      BY <1>1, <3>1
  <2> HIDE DEF past
  <2> QED
    BY <1>1, <2>1, <2>2, DownwardsClosed
<1>4. \A k \in 1..compiled : plans[k].command.at <= t <=> k <= m
  <2>1. \A k \in 1..Len(plans) : k \in past <=> k \in 1..m
    BY <1>3
  <2> QED
    BY <1>1, <1>3, <2>1
<1>5. m \in 0..compiled
  BY <1>3
<1>6. PICK j \in 0..Len(schedule[l]) :
        /\ \A k \in DOMAIN schedule[l] : schedule[l][k].at <= t <=> k <= j
        /\ l \in After(m) <=> Closing(l, j)
  BY <1>4, <1>5 DEF Replayed
<1>7. toggled = 1..j
  <2>1. \A k \in toggled : k \in 1..j
    BY <1>1, <1>6
  <2>2. \A k \in 1..j : k \in toggled
    BY <1>1, <1>6
  <2> QED
    BY <2>1, <2>2, Zenon
<1>8. PlaneAt(t) = After(m)
  <2>1. PlaneAt(t) = IF past = {} THEN InitiallyClosed
                     ELSE plans[CHOOSE k \in past : \A i \in past : i <= k].after
    BY DEF PlaneAt
  <2>2. CASE m = 0
    <3>1. past = {}
      BY <1>3, <2>2
    <3> QED
      BY <2>1, <2>2, <3>1 DEF After
  <2>3. CASE m # 0
    <3>1. m \in Nat /\ m \in past
      BY <1>3, <2>3
    <3>2. (CHOOSE k \in past : \A i \in past : i <= k) = m
      BY <1>3, <2>3, <3>1, LargestOfPrefix
    <3> HIDE DEF past
    <3> QED
      BY <2>1, <2>3, <3>1, <3>2 DEF After
  <2> QED
    BY <2>2, <2>3
<1> QED
  BY <1>6, <1>7, <1>8

(* The breaker of a mapped line toggles along with the replay.             *)
LEMMA BreakerReplays ==
  ASSUME TypeOK, Planned, Compiled, Replayed, Prepared, Written, Transient,
         NEW l \in Lines, Mapped(l), NEW t \in 0..duration
  PROVE  \E j \in 0..Len(schedule[l]) :
           /\ {k \in DOMAIN schedule[l] : schedule[l][k].at <= t} = 1..j
           /\ l \in PlaneAt(t) <=> Closing(l, j)
           /\ BreakerAt(l, t) <=> Closing(l, j)
<1> DEFINE n == Len(schedule[l])
           toggled == {k \in DOMAIN schedule[l] : schedule[l][k].at <= t}
           fired == {k \in 1..breaker[l].count : breaker[l].times[k] <= t}
<1>1. /\ duration \in Nat /\ compiled = Len(plans) /\ MaxToggles \in Nat /\ 1 \in 1..MaxToggles
      /\ Timed(l) /\ n <= MaxToggles /\ breaker[l] = parameters_for(l)
  BY PipelineAssumption DEF Transient, Prepared, Written, transient, TimelineWritten
<1>2. t \in Nat /\ t <= duration
  BY <1>1
<1>3. schedule[l] \in Seq(Events) /\ n \in Nat /\ DOMAIN schedule[l] = 1..n
  BY DEF Compiled
<1>4. PICK j \in 0..n : toggled = 1..j /\ (l \in PlaneAt(t) <=> Closing(l, j))
  BY <1>1, <1>2, ReplayAt
<1>5. /\ breaker[l].init = initial_closed(l) /\ breaker[l].count = Larger(1, n)
      /\ \A k \in 1..MaxToggles : breaker[l].times[k] =
           IF k <= n THEN schedule[l][k].at ELSE duration + k - n
  BY <1>1 DEF parameters_for
<1> HIDE DEF n
<1>6. fired = 1..j
  <2>1. CASE n = 0
    <3>1. breaker[l].count = 1 /\ breaker[l].times[1] = duration + 1 /\ j = 0
      BY <1>1, <1>4, <1>5, <2>1 DEF Larger
    <3>2. fired = {} /\ 1..j = {}
      BY <1>1, <1>2, <3>1
    <3> QED
      BY <3>2
  <2>2. CASE n # 0
    <3>1. breaker[l].count = n
      BY <1>3, <1>5, <2>2 DEF Larger
    <3>2. \A k \in 1..n : breaker[l].times[k] = schedule[l][k].at
      BY <1>1, <1>3, <1>5
    <3>3. \A k \in fired : k \in toggled
      BY <1>3, <3>1, <3>2
    <3>4. \A k \in toggled : k \in fired
      BY <1>3, <3>1, <3>2
    <3>5. fired = toggled
      BY <3>3, <3>4, Zenon
    <3> QED
      BY <1>4, <3>5
  <2> QED
    BY <2>1, <2>2
<1>7. Cardinality(fired) = j
  <2>1. j \in Nat
    BY <1>3, <1>4
  <2> HIDE DEF fired
  <2> QED
    BY <1>6, <2>1, FS_Interval
<1>8. BreakerAt(l, t) <=> (initial_closed(l) <=> Cardinality(fired) % 2 = 0)
  BY <1>1, <1>5 DEF BreakerAt, initial_closed
<1> QED
  BY <1>4, <1>7, <1>8 DEF Closing, n

(* What a transient run leaves in PSCAD does at every instant what the     *)
(* controller's commands did to the power plane, for every feeder, batch   *)
(* of commands and request (timeline.py; pscad_adapter.py,                 *)
(* manifest_for_timeline).                                                 *)
THEOREM BreakersFollow == PipelineSpec => []BreakersFollowThePlane
<1>1. TypeOK /\ Planned /\ Compiled /\ Replayed /\ Prepared /\ Written => BreakersFollowThePlane
  <2> SUFFICES ASSUME TypeOK, Planned, Compiled, Replayed, Prepared, Written, Transient,
                      NEW l \in Lines, NEW t \in 0..duration, Mapped(l)
               PROVE  BreakerAt(l, t) = (l \in PlaneAt(t))
    BY DEF BreakersFollowThePlane
  <2>1. BreakerAt(l, t) <=> l \in PlaneAt(t)
    BY BreakerReplays
  <2>2. BreakerAt(l, t) \in BOOLEAN
    BY DEF BreakerAt
  <2> QED
    BY <2>1, <2>2
<1> QED
  BY <1>1, PipelineRunsPlane, TypeCorrect, HistoryIsConsistent, CompilesTruly, ReplayIsTrue,
     ManifestIsWritten, PTL

(* The preview of an instant agrees with what is simulated at it, for      *)
(* everything that is mapped (dashboard_ui/models.py, state_at).           *)
THEOREM PreviewAgrees == PipelineSpec => []PreviewIsSimulated
<1>1. TypeOK /\ Planned /\ Compiled /\ Replayed /\ Prepared /\ Written /\ FaultsAsDeclared
        => PreviewIsSimulated
  <2> SUFFICES ASSUME TypeOK, Planned, Compiled, Replayed, Prepared, Written, FaultsAsDeclared,
                      Transient, NEW t \in 0..duration
               PROVE  /\ \A l \in Lines : Mapped(l) => (l \in PreviewClosed(t) <=> BreakerAt(l, t))
                      /\ PreviewFaults(t) = {NodeOf(id) : id \in {i \in FaultIds : Bound(i) /\ ElementAt(i, t)}}
    BY DEF PreviewIsSimulated
  <2>1. ASSUME NEW l \in Lines, Mapped(l)
        PROVE  l \in PreviewClosed(t) <=> BreakerAt(l, t)
    <3> DEFINE past == {k \in DOMAIN schedule[l] : schedule[l][k].at <= t}
    <3>1. PICK j \in 0..Len(schedule[l]) : past = 1..j /\ (BreakerAt(l, t) <=> Closing(l, j))
      BY <2>1, BreakerReplays
    <3>2. /\ Len(schedule[l]) \in Nat /\ DOMAIN schedule[l] = 1..Len(schedule[l])
          /\ \A k \in DOMAIN schedule[l] : schedule[l][k].closed <=> Closing(l, k)
      BY DEF Compiled, Closing
    <3>3. l \in PreviewClosed(t) <=>
            IF past = {} THEN initial_closed(l)
            ELSE schedule[l][CHOOSE k \in past : \A i \in past : i <= k].closed
      BY DEF PreviewClosed
    <3>4. CASE j = 0
      <4>1. past = {}
        BY <3>1, <3>4
      <4>2. Closing(l, j) <=> initial_closed(l)
        BY <3>4 DEF Closing
      <4> QED
        BY <3>1, <3>3, <4>1, <4>2
    <3>5. CASE j # 0
      <4>1. j \in Nat /\ j \in past /\ j \in DOMAIN schedule[l]
        BY <3>1, <3>2, <3>5
      <4>2. (CHOOSE k \in past : \A i \in past : i <= k) = j
        BY <3>1, <3>5, <4>1, LargestOfPrefix
      <4> HIDE DEF past
      <4>3. l \in PreviewClosed(t) <=> schedule[l][j].closed
        BY <3>3, <4>1, <4>2
      <4> QED
        BY <3>1, <3>2, <4>1, <4>3
    <3> QED
      BY <3>4, <3>5
  <2>2. ASSUME NEW i \in DOMAIN request.faults
        PROVE  /\ Fault(i).id \in FaultIds /\ Bound(Fault(i).id)
               /\ NodeOf(Fault(i).id) = Fault(i).node
    <3>1. PICK e \in Entries(request.elements) : e.id = Fault(i).id
      BY DEF Written, FaultsWritten, Transient
    <3>2. request \in Requests
      BY DEF Prepared
    <3>3. Fault(i).id \in FaultIds /\ Bound(Fault(i).id)
      BY <3>1, <3>2 DEF FaultIds, Bound
    <3> DEFINE chosen == CHOOSE f \in Entries(request.elements) : f.id = Fault(i).id
    <3>4. chosen \in Entries(request.elements) /\ chosen.id = Fault(i).id
      BY <3>1
    <3>5. NodeOf(Fault(i).id) = chosen.node
      BY DEF NodeOf
    <3> HIDE DEF chosen
    <3>6. chosen.node = Fault(i).node
      BY <3>4 DEF Written, FaultsWritten, Transient
    <3> QED
      BY <3>3, <3>5, <3>6
  <2>3. ASSUME NEW id \in FaultIds, Bound(id)
        PROVE  ElementAt(id, t) <=>
                 \E i \in DOMAIN request.faults :
                   /\ Fault(i).id = id /\ Fault(i).node = NodeOf(id)
                   /\ Fault(i).type = element[id].type
                   /\ Fault(i).start <= t /\ t < end_s(i)
    BY <2>3 DEF FaultsAsDeclared
  <2>4. ASSUME NEW i \in DOMAIN request.faults, Fault(i).start <= t, t < end_s(i)
        PROVE  \E id \in FaultIds : Bound(id) /\ ElementAt(id, t) /\ NodeOf(id) = Fault(i).node
    <3>1. element[Fault(i).id].type = Fault(i).type
      <4>1. element[Fault(i).id] = [start |-> Fault(i).start, length |-> Fault(i).length,
                                    type |-> Fault(i).type]
        BY <2>2 DEF Written, FaultsWritten, Transient, Bound
      <4> QED
        BY <4>1
    <3> QED
      BY <2>2, <2>3, <2>4, <3>1
  <2>5. \A id \in FaultIds : Bound(id) /\ ElementAt(id, t) =>
          \E i \in DOMAIN request.faults :
            Fault(i).node = NodeOf(id) /\ Fault(i).start <= t /\ t < end_s(i)
    BY <2>3
  <2>6. PreviewFaults(t) = {NodeOf(id) : id \in {i \in FaultIds : Bound(i) /\ ElementAt(i, t)}}
    <3>1. \A x : x \in PreviewFaults(t) <=>
            \E i \in DOMAIN request.faults : Fault(i).start <= t /\ t < end_s(i) /\ x = Fault(i).node
      BY DEF PreviewFaults
    <3> DEFINE shown == {NodeOf(id) : id \in {i \in FaultIds : Bound(i) /\ ElementAt(i, t)}}
    <3>2. \A x : x \in shown <=> \E id \in FaultIds : Bound(id) /\ ElementAt(id, t) /\ x = NodeOf(id)
      OBVIOUS
    <3> HIDE DEF shown
    <3>3. \A x : x \in PreviewFaults(t) <=> x \in shown
      BY <2>4, <2>5, <3>1, <3>2
    <3>4. PreviewFaults(t) = shown
      BY <3>3 DEF PreviewFaults, shown
    <3> QED
      BY <3>4 DEF shown
  <2> QED
    BY <2>1, <2>6
<1> QED
  BY <1>1, PipelineRunsPlane, TypeCorrect, HistoryIsConsistent, CompilesTruly, ReplayIsTrue,
     ManifestIsWritten, DeclaredFaultsOccur, PTL
=============================================================================
