----------------------------- MODULE RouteControl -----------------------------
(***************************************************************************)
(* Decentralized route learning of the AMRP mesh: the tables each node     *)
(* keeps (decentralized_routing.py) and the control runs in which the      *)
(* nodes exchange ROUTE_ADVERTISEMENT and ROUTE_ERROR packets              *)
(* (simulator.py, _run_route_control and its callers).                     *)
(*                                                                         *)
(* The program is single-threaded: a fault, a recovery, an electrical      *)
(* change or a time step starts a control run, and the run goes through    *)
(* its rounds, each a broadcast phase and a drain phase, before anything   *)
(* else happens.  ctl says where in that procedure the program is.         *)
(*                                                                         *)
(* Time is counted in simulator steps.  What the code stores as absolute   *)
(* times is kept as an age that saturates once it no longer matters.  The  *)
(* lifetime an advertisement carries is expiry minus last update, which is *)
(* always the full route_lifetime_s, so it is not a field of the message.  *)
(***************************************************************************)
EXTENDS Integers, FiniteSets

CONSTANTS
  Nodes,            \* node identifiers, numbers so that they are ordered
  Links,            \* pairs <<n, m>> in radio range of each other
  LinkCosts,        \* what the hop from n to m may cost on the way to d: one
                    \* cost for each link quality a reception may measure,
                    \* a single one without fading, less if d is a gateway
  Penalties,        \* route-cost penalties a node may advertise for itself
  RecoveredPenalty, \* the penalty of a node whose radio was just recovered
  Loads,            \* what the packets waiting at each node add to its penalty
  MaxHops,          \* max_hops
  Hysteresis,       \* route_switch_hysteresis
  RouteLifetime,    \* route_lifetime_s, in steps
  NeighborTimeout,  \* neighbor_timeout_s, in steps
  AdvertInterval,   \* route_advertisement_interval_s, in steps
  RoundLimit,       \* route_convergence_round_limit
  AirTime,          \* steps of time that the broadcasts of one round may take
  Lossy,            \* kinds of frames the radio may lose
  Reordering,       \* event radio: frames of a round arrive in any order
  MaxSeq            \* bound of the model: route sequence numbers

NoNode == -1

ASSUME RouteAssumption ==
  /\ Nodes \subseteq Nat /\ IsFiniteSet(Nodes)
  /\ Links \subseteq Nodes \X Nodes
  /\ \A l \in Links : <<l[2], l[1]>> \in Links /\ l[1] # l[2]
  /\ LinkCosts \in [Links -> [Nodes -> SUBSET Nat]]
  /\ \A l \in Links, d \in Nodes : LinkCosts[l][d] # {}
  /\ Penalties \subseteq Nat /\ 0 \in Penalties /\ RecoveredPenalty \in Nat
  /\ Loads \subseteq [Nodes -> Nat] /\ Loads # {}
  /\ MaxHops \in Nat \ {0} /\ Hysteresis \in Nat
  /\ RouteLifetime \in Nat \ {0} /\ NeighborTimeout \in Nat \ {0}
  /\ AdvertInterval \in Nat \ {0} /\ RoundLimit \in Nat \ {0}
  /\ AirTime \subseteq Nat
  /\ Lossy \subseteq {"HELLO", "HEARTBEAT", "RA", "RERR"} /\ Reordering \in BOOLEAN
  /\ MaxSeq \in Nat

VARIABLES
  up,        \* communication_available of each node
  seq,       \* _route_sequence of each node
  penalty,   \* what a node's power load, health and faults add to routes over it
  heard,     \* neighbor_table: heard[n][m], age of n's entry for m, or Absent
  cand,      \* route_candidates of all nodes, a set of candidate records
  route,     \* routing_table: route[n][d], a route record or NoRoute
  inbox,     \* control packets on their way to each node in this round
  pendAdv,   \* _pending_route_advertisers
  pendErr,   \* _pending_route_errors
  sinceAdv,  \* age of _last_route_advertisement_time
  ctl        \* where the simulator is in its control procedure

tables == <<heard, cand, route>>
vars == <<up, seq, penalty, heard, cand, route, inbox, pendAdv, pendErr, sinceAdv, ctl>>

Absent == -1
NoRoute == [next |-> NoNode, hops |-> 0, cost |-> 0, seq |-> 0, backup |-> NoNode]

Candidate == [at : Nodes, dest : Nodes, via : Nodes, hops : 1..MaxHops, cost : Nat,
              seq : Nat, age : 0..(RouteLifetime + 1)]
Route == [next : Nodes, hops : 1..MaxHops, cost : Nat, seq : Nat,
          backup : Nodes \union {NoNode}]
Advertisement == [kind : {"RA"}, from : Nodes, dest : Nodes, seq : Nat,
                  hops : 0..MaxHops, cost : Nat, next : Nodes \union {NoNode},
                  penalty : Nat]
RouteError == [kind : {"RERR"}, from : Nodes, dest : Nodes]
PendingError == [from : Nodes, dest : Nodes]

-----------------------------------------------------------------------------
(* Node-local operators (decentralized_routing.py).                        *)

Neighbors(n, H) == {m \in Nodes : H[n][m] # Absent}

(* The candidates a selection looks at: not expired, via a neighbour.      *)
Live(n, d, C, H) ==
  {c \in C : /\ c.at = n /\ c.dest = d
             /\ c.age <= RouteLifetime
             /\ c.via \in Neighbors(n, H)}

Newest_All(S) == S

Newest(S) == {c \in S : \A o \in S : o.seq <= c.seq}

Preferred(a, b) ==
  \/ a.cost < b.cost
  \/ a.cost = b.cost /\ a.hops < b.hops
  \/ a.cost = b.cost /\ a.hops = b.hops /\ a.via <= b.via

Best(S) == CHOOSE c \in S : \A o \in S : Preferred(c, o)

(* The selection among newest candidates: the best one, unless the current *)
(* next hop is among them and the gain does not exceed the hysteresis.     *)
Selected_NoHysteresis(S, current) == Best(S)

Selected(S, current) ==
  LET kept == {c \in S : c.via = current.next}
      best == Best(S)
  IN IF \E k \in kept : best.via # k.via /\ best.cost + Hysteresis >= k.cost
     THEN CHOOSE k \in kept : TRUE
     ELSE best

RouteOver(S, current) ==
  IF S = {} THEN NoRoute
  ELSE LET sel    == Selected(S, current)
           others == {c \in S : c.via # sel.via}
       IN [next |-> sel.via, hops |-> sel.hops, cost |-> sel.cost, seq |-> sel.seq,
           backup |-> IF others = {} THEN NoNode ELSE Best(others).via]

(* _select_route: node n's route to d over candidates C and neighbours H.  *)
_select_route(n, d, C, H) == RouteOver(Newest(Live(n, d, C, H)), route[n][d])

(* Re-selection of every destination n holds candidates for.               *)
Reselect(n, C, H) ==
  [d \in Nodes |-> IF \E c \in cand : c.at = n /\ c.dest = d
                   THEN _select_route(n, d, C, H)
                   ELSE route[n][d]]

(* The frames of n's table broadcast: itself, then every selected route.   *)
(* Packets already in n's queue count as congestion, communication_load.   *)
advertisements_for_UnsavedSequence(n, load) ==
  {[kind |-> "RA", from |-> n, dest |-> n, seq |-> seq[n] + 1, hops |-> 0,
    cost |-> 0, next |-> NoNode, penalty |-> penalty[n] + load]}

advertisements_for_SelfOnly(n, load) ==
  {[kind |-> "RA", from |-> n, dest |-> n, seq |-> seq[n], hops |-> 0,
    cost |-> 0, next |-> NoNode, penalty |-> penalty[n] + load]}

advertisements_for(n, load) ==
  {[kind |-> "RA", from |-> n, dest |-> n, seq |-> seq[n], hops |-> 0,
    cost |-> 0, next |-> NoNode, penalty |-> penalty[n] + load]}
  \union
  {[kind |-> "RA", from |-> n, dest |-> d, seq |-> route[n][d].seq,
    hops |-> route[n][d].hops, cost |-> route[n][d].cost,
    next |-> route[n][d].next, penalty |-> penalty[n] + load] :
      d \in {e \in Nodes : route[n][e] # NoRoute}}

(* The sequences n knows for d: its candidates' and its route's.           *)
KnownSeqs(n, d) ==
  {c.seq : c \in {x \in cand : x.at = n /\ x.dest = d}} \union {route[n][d].seq}

(* The checks of process_advertisement, in the code's order.               *)
Acceptable(n, m) ==
  /\ up[m.from]
  /\ m.dest # n
  /\ m.next # n
  /\ m.hops + 1 <= MaxHops
  /\ \A s \in KnownSeqs(n, m.dest) : m.seq >= s

(* The cost of the hop to m's sender, in the state it advertises: each     *)
(* frame measures the link anew, and _add_neighbor keeps the quality of    *)
(* the last one, which makes hop of it.                                    *)
advertised_route_cost(m, hop) == hop + m.penalty

Learned(n, m, hop) ==
  [at |-> n, dest |-> m.dest, via |-> m.from, hops |-> m.hops + 1,
   cost |-> advertised_route_cost(m, hop) + m.cost, seq |-> m.seq, age |-> 0]

-----------------------------------------------------------------------------
Idle == [phase |-> "idle", todo |-> {}, errs |-> {}, left |-> {}, rounds |-> 0]

Init ==
  /\ up = [n \in Nodes |-> TRUE]
  /\ seq = [n \in Nodes |-> 0]
  /\ penalty = [n \in Nodes |-> 0]
  /\ heard = [n \in Nodes |-> [m \in Nodes |-> Absent]]
  /\ cand = {}
  /\ route = [n \in Nodes |-> [d \in Nodes |-> NoRoute]]
  /\ inbox = [n \in Nodes |-> {}]
  /\ pendAdv = {}
  /\ pendErr = {}
  /\ sinceAdv = 0
  /\ ctl = Idle

(* Entry of _run_route_control: it takes over the pending errors.          *)
EnterControl(advertisers, errors) ==
  /\ ctl' = [phase |-> "rounds", todo |-> advertisers, errs |-> errors,
             left |-> {}, rounds |-> 0]
  /\ pendErr' = {}

Saturated(age, limit) == IF age > limit THEN limit + 1 ELSE age

AgedHeard(t) ==
  [n \in Nodes |-> [m \in Nodes |->
     IF heard[n][m] = Absent THEN Absent
     ELSE Saturated(heard[n][m] + t, NeighborTimeout)]]

AgedCand(t) == {[c EXCEPT !.age = Saturated(c.age + t, RouteLifetime)] : c \in cand}

AgedAdv(t) == IF sinceAdv + t > AdvertInterval THEN AdvertInterval ELSE sinceAdv + t

-----------------------------------------------------------------------------
(* Starting points of a control run, each taken only when none is running. *)

(* The sets of links over which HELLO probes may get through.              *)
Probes(available) ==
  LET inRange == {l \in Links : available[l[1]] /\ available[l[2]]}
  IN IF "HELLO" \in Lossy THEN SUBSET inRange ELSE {inRange}

Rediscover_KeepsTables(available) ==
  \E found \in Probes(available) :
     /\ \A l \in found : <<l[2], l[1]>> \in found
     /\ heard' = [n \in Nodes |-> [m \in Nodes |->
                    IF <<n, m>> \in found THEN 0 ELSE Absent]]
     /\ UNCHANGED <<cand, route>>
     /\ seq' = [n \in Nodes |-> seq[n] + 1]

(* HELLO exchange, common to startup and recovery: up nodes in range find  *)
(* each other, all learned state goes, and every destination's sequence    *)
(* advances.                                                               *)
Rediscover(available) ==
  \E found \in Probes(available) :
     /\ \A l \in found : <<l[2], l[1]>> \in found
     /\ heard' = [n \in Nodes |-> [m \in Nodes |->
                    IF <<n, m>> \in found THEN 0 ELSE Absent]]
     /\ cand' = {}
     /\ route' = [n \in Nodes |-> [d \in Nodes |-> NoRoute]]
     /\ seq' = [n \in Nodes |-> seq[n] + 1]

discover_neighbors ==
  /\ ctl.phase = "idle"
  /\ \A n \in Nodes : seq[n] < MaxSeq
  /\ Rediscover(up)
  /\ EnterControl(Nodes, pendErr)
  /\ UNCHANGED <<up, penalty, inbox, pendAdv, sinceAdv>>

(* A recovery; of a radio that works it is no more than a rediscovery.     *)
recover_communication(n) ==
  /\ ctl.phase = "idle"
  /\ ~up[n]
  /\ \A m \in Nodes : seq[m] < MaxSeq
  /\ up' = [up EXCEPT ![n] = TRUE]
  /\ penalty' = [penalty EXCEPT ![n] = RecoveredPenalty]
  /\ Rediscover(up')
  /\ EnterControl(Nodes, pendErr)
  /\ UNCHANGED <<inbox, pendAdv, sinceAdv>>

(* recalculate_routes after an electrical or gateway change at n: available*)
(* nodes advance their sequence and advertise.                             *)
recalculate_routes(n, p) ==
  /\ ctl.phase = "idle"
  /\ \A m \in Nodes : up[m] => seq[m] < MaxSeq
  /\ penalty' = [penalty EXCEPT ![n] = p]
  /\ seq' = [m \in Nodes |-> IF up[m] THEN seq[m] + 1 ELSE seq[m]]
  /\ EnterControl({m \in Nodes : up[m]}, pendErr)
  /\ UNCHANGED <<up, heard, cand, route, inbox, pendAdv, sinceAdv>>

(* What is left of the candidates when x's radio fails: x forgets its own, *)
(* the nodes that had x as a neighbour those learned from it.              *)
Without_StillSelectable(x) == cand

Without(x) == {c \in cand : c.at # x /\ ~(c.via = x /\ x \in Neighbors(c.at, heard))}

fail_communication(x) ==
  LET losers == {n \in Nodes : x \in Neighbors(n, heard)}
      H == [n \in Nodes |-> [heard[n] EXCEPT ![x] = Absent]]
      after == [n \in Nodes |->
                  IF n = x THEN [d \in Nodes |-> NoRoute]
                  ELSE IF n \in losers THEN Reselect(n, Without(x), H)
                  ELSE route[n]]
      changed == {p \in (losers \ {x}) \X Nodes : after[p[1]][p[2]] # route[p[1]][p[2]]}
      broken == {p \in changed : after[p[1]][p[2]] = NoRoute}
  IN /\ ctl.phase = "idle"
     /\ up' = [up EXCEPT ![x] = FALSE]
     /\ heard' = H
     /\ cand' = Without(x)
     /\ route' = after
     /\ EnterControl({p[1] : p \in changed \ broken},
                     pendErr \union {[from |-> p[1], dest |-> p[2]] : p \in broken})
     /\ UNCHANGED <<seq, penalty, inbox, pendAdv, sinceAdv>>

(* The sets of links over which heartbeats may get through: to neighbours, *)
(* and to whom the serialized radio has just made one.                     *)
Beats ==
  LET inRange == {l \in Links : up[l[1]] /\ up[l[2]]}
      known   == {l \in inRange : l[2] \in Neighbors(l[1], heard)}
  IN IF "HEARTBEAT" \in Lossy THEN SUBSET inRange
     ELSE {known \union new : new \in SUBSET (inRange \ known)}

(* One simulator step: time passes, the grid moves the electrical state,   *)
(* available nodes send heartbeats, and expire_neighbors begins.           *)
_step ==
  /\ ctl.phase = "idle"
  /\ penalty' \in [Nodes -> Penalties \union {RecoveredPenalty}]
  /\ \A n \in Nodes : penalty'[n] = penalty[n] \/ penalty'[n] \in Penalties
  /\ \E beats \in Beats :
        /\ \A l \in beats : \/ l[2] \in Neighbors(l[1], heard)
                            \/ l[2] < l[1] /\ <<l[2], l[1]>> \in beats
        /\ heard' = [n \in Nodes |-> [m \in Nodes |->
                       IF <<m, n>> \in beats THEN 0 ELSE AgedHeard(1)[n][m]]]
  /\ cand' = AgedCand(1)
  /\ sinceAdv' = AgedAdv(1)
  /\ ctl' = [Idle EXCEPT !.phase = "expiring", !.left = Nodes]
  /\ UNCHANGED <<up, seq, route, inbox, pendAdv, pendErr>>

-----------------------------------------------------------------------------
(* expire_neighbors, node by node; ctl.todo collects changed_advertisers.  *)

Turn(n) == n \in ctl.left /\ \A m \in ctl.left : n <= m
Expired(n) == {m \in Nodes : heard[n][m] > NeighborTimeout}

ExpireNeighbor(n, m) ==
  LET H == [heard EXCEPT ![n][m] = Absent]
      C == {c \in cand : ~(c.at = n /\ c.via = m)}
      after == Reselect(n, C, H)
      changed == {d \in Nodes : after[d] # route[n][d]}
      broken == {d \in changed : after[d] = NoRoute}
  IN /\ ctl.phase = "expiring"
     /\ Turn(n)
     /\ m \in Expired(n)
     /\ heard' = H
     /\ cand' = C
     /\ route' = [route EXCEPT ![n] = after]
     /\ pendErr' = pendErr \union {[from |-> n, dest |-> d] : d \in broken}
     /\ ctl' = [ctl EXCEPT !.todo = IF changed = broken THEN @ ELSE @ \union {n}]
     /\ UNCHANGED <<up, seq, penalty, inbox, pendAdv, sinceAdv>>

(* expire_routes at n, once n has no expired neighbour left.               *)
expire_routes_NoReselection(n) ==
  /\ ctl.phase = "expiring"
  /\ Turn(n)
  /\ Expired(n) = {}
  /\ cand' = {c \in cand : c.at = n => /\ c.age <= RouteLifetime
                                     /\ c.via \in Neighbors(n, heard)}
  /\ ctl' = [ctl EXCEPT !.left = @ \ {n}]
  /\ UNCHANGED <<up, seq, penalty, heard, route, inbox, pendAdv, pendErr, sinceAdv>>

expire_routes(n) ==
  LET C == {c \in cand : c.at = n => /\ c.age <= RouteLifetime
                                     /\ c.via \in Neighbors(n, heard)}
      after == Reselect(n, C, heard)
  IN /\ ctl.phase = "expiring"
     /\ Turn(n)
     /\ Expired(n) = {}
     /\ cand' = C
     /\ route' = [route EXCEPT ![n] = after]
     /\ ctl' = [ctl EXCEPT !.left = @ \ {n},
                           !.todo = IF after = route[n] THEN @ ELSE @ \union {n}]
     /\ UNCHANGED <<up, seq, penalty, heard, inbox, pendAdv, pendErr, sinceAdv>>

(* The end of expire_neighbors: periodic refresh if due, then a control    *)
(* run if there is anything to say.                                        *)
EndExpiry_NoRefresh ==
  /\ ctl.phase = "expiring"
  /\ ctl.left = {}
  /\ IF ctl.todo # {} \/ pendErr # {}
     THEN EnterControl(ctl.todo, pendErr)
     ELSE ctl' = Idle /\ UNCHANGED pendErr
  /\ UNCHANGED <<up, seq, penalty, heard, cand, route, inbox, pendAdv, sinceAdv>>

EndExpiry ==
  LET advertisers == ctl.todo \union
        (IF sinceAdv >= AdvertInterval THEN {n \in Nodes : up[n]} ELSE {})
  IN /\ ctl.phase = "expiring"
     /\ ctl.left = {}
     /\ IF advertisers # {} \/ pendErr # {}
        THEN EnterControl(advertisers, pendErr)
        ELSE ctl' = Idle /\ UNCHANGED pendErr
     /\ UNCHANGED <<up, seq, penalty, heard, cand, route, inbox, pendAdv, sinceAdv>>

-----------------------------------------------------------------------------
(* The rounds of _run_route_control.                                       *)

Working == ctl.todo # {} \/ ctl.errs # {}

MoreRounds == Working /\ ctl.rounds < RoundLimit

(* One round's broadcasts: route errors, then tables, each to the senders' *)
(* current neighbours with a working radio.  Time passes on the air.  What  *)
(* was heard earlier in the round still waits, and loads a later sender.   *)
Broadcast(load) ==
  LET errors(n) == {[kind |-> "RERR", from |-> e.from, dest |-> e.dest] :
                      e \in {x \in ctl.errs : x.from = n}}
      sent(n) == IF up[n] THEN errors(n) \union
                               (IF n \in ctl.todo THEN advertisements_for(n, load[n]) ELSE {})
                 ELSE {}
      \* the serialized radio delivers while it broadcasts: a frame from an
      \* earlier sender makes it a neighbour before the receiver's own turn
      reaches(k, m) == \/ m \in Neighbors(k, heard)
                       \/ /\ ~Reordering /\ k \in Neighbors(m, heard)
                          /\ sent(m) # {} /\ (m < k \/ errors(m) # {})
  IN /\ ctl.phase = "rounds"
     /\ MoreRounds
     /\ inbox' = [m \in Nodes |->
                    IF up[m]
                    THEN UNION {sent(k) : k \in {j \in Nodes :
                                  <<j, m>> \in Links /\ reaches(j, m)}}
                    ELSE {}]
     /\ \E t \in AirTime : /\ heard' = AgedHeard(t)
                           /\ cand' = AgedCand(t)
                           /\ sinceAdv' = AgedAdv(t)
     /\ pendAdv' = {}
     /\ pendErr' = {}
     /\ ctl' = [ctl EXCEPT !.phase = "drain", !.todo = {}, !.errs = {},
                           !.rounds = @ + 1]
     /\ UNCHANGED <<up, seq, penalty, route>>

Round == \E load \in Loads : Broadcast(load)

(* The serialized radio delivers errors first, then tables in node order,  *)
(* a node's own advertisement before those of its routes.  Handlers touch  *)
(* only the receiver's tables and the pending sets, so that the receivers  *)
(* take their frames one node after the other loses no outcome.            *)
Earlier(a, b) ==
  \/ a.kind = "RERR" /\ b.kind = "RA"
  \/ a.kind = b.kind /\ a.from < b.from
  \/ /\ a.kind = b.kind /\ a.from = b.from
     /\ \/ a.dest = a.from
        \/ b.dest # b.from /\ a.dest <= b.dest

Deliverable(n) ==
  /\ ctl.phase = "drain"
  /\ inbox[n] # {}
  /\ \A k \in Nodes : k < n => inbox[k] = {}

Arrives(n, m) ==
  /\ Deliverable(n)
  /\ m \in inbox[n]
  /\ Reordering \/ \A o \in inbox[n] : Earlier(m, o)
  /\ inbox' = [inbox EXCEPT ![n] = @ \ {m}]

(* A frame reached the receiver's radio: _add_neighbor refreshes it.       *)
HeardFrom(n, s) == [heard EXCEPT ![n][s] = 0]

Lose(n, m) ==
  /\ m.kind \in Lossy
  /\ Arrives(n, m)
  /\ UNCHANGED <<up, seq, penalty, heard, cand, route, pendAdv, pendErr, sinceAdv, ctl>>

(* _handle_route_advertisement and process_advertisement.                  *)
AcceptAdvertisement_SilentCosts(n, m) ==
  \E hop \in LinkCosts[<<n, m.from>>][m.dest] :
    LET C == {c \in cand : ~(c.at = n /\ c.dest = m.dest /\ c.via = m.from)}
               \union {Learned(n, m, hop)}
        chosen == _select_route(n, m.dest, C, HeardFrom(n, m.from))
    IN /\ m.kind = "RA"
       /\ Arrives(n, m)
       /\ Acceptable(n, m)
       /\ heard' = HeardFrom(n, m.from)
       /\ cand' = C
       /\ route' = [route EXCEPT ![n][m.dest] = chosen]
       /\ pendAdv' = IF chosen.next = route[n][m.dest].next THEN pendAdv
                     ELSE pendAdv \union {n}
       /\ UNCHANGED <<up, seq, penalty, pendErr, sinceAdv, ctl>>

AcceptAdvertisement(n, m) ==
  \E hop \in LinkCosts[<<n, m.from>>][m.dest] :
    LET C == {c \in cand : ~(c.at = n /\ c.dest = m.dest /\ c.via = m.from)}
               \union {Learned(n, m, hop)}
        chosen == _select_route(n, m.dest, C, HeardFrom(n, m.from))
    IN /\ m.kind = "RA"
       /\ Arrives(n, m)
       /\ Acceptable(n, m)
       /\ heard' = HeardFrom(n, m.from)
       /\ cand' = C
       /\ route' = [route EXCEPT ![n][m.dest] = chosen]
       /\ pendAdv' = IF chosen = route[n][m.dest] THEN pendAdv ELSE pendAdv \union {n}
       /\ UNCHANGED <<up, seq, penalty, pendErr, sinceAdv, ctl>>

RejectAdvertisement_Refreshes(n, m) ==
  /\ m.kind = "RA"
  /\ Arrives(n, m)
  /\ ~Acceptable(n, m)
  /\ heard' = HeardFrom(n, m.from)
  /\ cand' = {IF c.at = n /\ c.dest = m.dest /\ c.via = m.from
              THEN [c EXCEPT !.age = 0] ELSE c : c \in cand}
  /\ UNCHANGED <<up, seq, penalty, route, pendAdv, pendErr, sinceAdv, ctl>>

RejectAdvertisement(n, m) ==
  /\ m.kind = "RA"
  /\ Arrives(n, m)
  /\ ~Acceptable(n, m)
  /\ heard' = HeardFrom(n, m.from)
  /\ UNCHANGED <<up, seq, penalty, cand, route, pendAdv, pendErr, sinceAdv, ctl>>

(* _handle_route_error: the sender is the selected next hop, so its        *)
(* candidate goes; what is left decides between an advertisement and a     *)
(* route error of the receiver's own.                                      *)
AcceptError(n, m) ==
  LET C == {c \in cand : ~(c.at = n /\ c.dest = m.dest /\ c.via = m.from)}
      chosen == _select_route(n, m.dest, C, HeardFrom(n, m.from))
  IN /\ m.kind = "RERR"
     /\ Arrives(n, m)
     /\ route[n][m.dest].next = m.from
     /\ C # cand
     /\ heard' = HeardFrom(n, m.from)
     /\ cand' = C
     /\ route' = [route EXCEPT ![n][m.dest] = chosen]
     /\ IF chosen = NoRoute
        THEN /\ pendErr' = pendErr \union {[from |-> n, dest |-> m.dest]}
             /\ UNCHANGED pendAdv
        ELSE /\ pendAdv' = pendAdv \union {n}
             /\ UNCHANGED pendErr
     /\ UNCHANGED <<up, seq, penalty, sinceAdv, ctl>>

RejectError(n, m) ==
  /\ m.kind = "RERR"
  /\ Arrives(n, m)
  /\ \/ route[n][m.dest].next # m.from
     \/ \A c \in cand : ~(c.at = n /\ c.dest = m.dest /\ c.via = m.from)
  /\ heard' = HeardFrom(n, m.from)
  /\ UNCHANGED <<up, seq, penalty, cand, route, pendAdv, pendErr, sinceAdv, ctl>>

Deliver(n, m) ==
  \/ Lose(n, m)
  \/ AcceptAdvertisement(n, m) \/ RejectAdvertisement(n, m)
  \/ AcceptError(n, m) \/ RejectError(n, m)

(* All queues are empty: what the round produced is the next round's work. *)
EndRound ==
  /\ ctl.phase = "drain"
  /\ \A n \in Nodes : inbox[n] = {}
  /\ ctl' = [ctl EXCEPT !.phase = "rounds", !.todo = pendAdv, !.errs = pendErr]
  /\ UNCHANGED <<up, seq, penalty, heard, cand, route, inbox, pendAdv, pendErr, sinceAdv>>

(* Nothing left to say, or the round limit: unsent work is dropped.        *)
Finish ==
  /\ ctl.phase = "rounds"
  /\ ~MoreRounds
  /\ ctl' = Idle
  /\ sinceAdv' = 0
  /\ UNCHANGED <<up, seq, penalty, heard, cand, route, inbox, pendAdv, pendErr>>

-----------------------------------------------------------------------------
Expiry ==
  \/ \E n, m \in Nodes : ExpireNeighbor(n, m)
  \/ \E n \in Nodes : expire_routes(n)
  \/ EndExpiry

Control ==
  \/ Round
  \/ \E n \in Nodes : \E m \in inbox[n] : Deliver(n, m)
  \/ EndRound
  \/ Finish

Environment ==
  \/ discover_neighbors
  \/ \E n \in Nodes : fail_communication(n) \/ recover_communication(n)
  \/ \E n \in Nodes, p \in Penalties : recalculate_routes(n, p)

Next == Environment \/ _step \/ Expiry \/ Control

Spec == Init /\ [][Next]_vars

-----------------------------------------------------------------------------
(* Every variable has its type; hop counts stay within max_hops, ages and  *)
(* rounds within their limits.                                             *)
TypeOK ==
  /\ up \in [Nodes -> BOOLEAN]
  /\ seq \in [Nodes -> Nat]
  /\ penalty \in [Nodes -> Nat]
  /\ heard \in [Nodes -> [Nodes -> {Absent} \union 0..(NeighborTimeout + 1)]]
  /\ cand \subseteq Candidate
  /\ route \in [Nodes -> [Nodes -> Route \union {NoRoute}]]
  /\ inbox \in [Nodes -> SUBSET (Advertisement \union RouteError)]
  /\ pendAdv \subseteq Nodes
  /\ pendErr \subseteq PendingError
  /\ sinceAdv \in 0..AdvertInterval
  /\ ctl \in [phase : {"idle", "expiring", "rounds", "drain"}, todo : SUBSET Nodes,
              errs : SUBSET PendingError, left : SUBSET Nodes, rounds : 0..RoundLimit]

(* Destination sequences are only ever issued by the destination: nothing  *)
(* a node has learned or is about to hear carries a sequence for d beyond  *)
(* the one d holds, whatever was lost, reordered or rediscovered.          *)
NoFutureSequence ==
  /\ \A c \in cand : c.seq <= seq[c.dest]
  /\ \A n, d \in Nodes : route[n][d].seq <= seq[d]
  /\ \A n \in Nodes : \A m \in inbox[n] : m.kind = "RA" => m.seq <= seq[m.dest]

(* What node n's entry r for d owes to its candidates and neighbours.      *)
Backed(n, d, r, C, H) ==
  LET live == Live(n, d, C, H)
      mine(c) == c.at = n /\ c.dest = d /\ c.seq = r.seq /\ c.via \in Neighbors(n, H)
  IN IF r = NoRoute
     THEN live = {}
     ELSE /\ \E c \in C : mine(c) /\ c.via = r.next /\ c.hops = r.hops /\ c.cost = r.cost
          /\ r.backup # NoNode =>
               r.backup # r.next /\ \E c \in C : mine(c) /\ c.via = r.backup
          /\ \A c \in live : c.seq <= r.seq

(* A routing entry is never a leftover: it is one of the node's candidates *)
(* through a present neighbour, none that could be selected is newer, its  *)
(* backup is another candidate as new, and no destination with a candidate *)
(* that could be selected lacks an entry.                                  *)
RouteIsBacked == \A n, d \in Nodes : Backed(n, d, route[n][d], cand, heard)

(* Once a radio has failed, no other node keeps it as neighbour, as next   *)
(* hop, as backup or as the source of a candidate, and no frame of its is  *)
(* still to be handled.                                                    *)
FailedIsForgotten ==
  \A x \in Nodes : ~up[x] =>
    /\ \A n \in Nodes : x \notin Neighbors(n, heard)
    /\ \A c \in cand : c.via # x /\ c.at # x
    /\ \A n, d \in Nodes : route[n][d].next # x /\ route[n][d].backup # x
    /\ \A n \in Nodes : \A m \in inbox[n] : m.from # x

(* What the invariants above rest on: frames wait only while a round is    *)
(* drained, at a working radio, from one in range of it; and candidates    *)
(* are only kept while the neighbour they came from is one.                *)
FramesTravelLinks ==
  \A n \in Nodes :
    /\ ctl.phase # "drain" \/ ~up[n] => inbox[n] = {}
    /\ \A m \in inbox[n] : <<n, m.from>> \in Links

CandidatesViaNeighbors == \A c \in cand : c.via \in Neighbors(c.at, heard)

(* A node does not flap: it leaves a next hop it could still use only for  *)
(* fresher information about the destination or for a gain beyond the      *)
(* switch hysteresis.                                                      *)
SwitchIsJustified ==
  [][\A n, d \in Nodes :
       LET old == route[n][d]
           new == route'[n][d]
       IN old # NoRoute /\ new # NoRoute /\ new.next # old.next =>
            \A k \in Live(n, d, cand', heard') : k.via = old.next =>
              k.seq < new.seq \/ new.cost + Hysteresis < k.cost]_vars
=============================================================================
