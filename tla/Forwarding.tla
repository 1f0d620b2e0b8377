------------------------------ MODULE Forwarding ------------------------------
(***************************************************************************)
(* What the nodes do with packets (simulator.py): unicast along the        *)
(* routing tables, controlled flooding of fault alerts, acknowledgements,  *)
(* duplicate suppression, and the telemetry nodes cache while it cannot be *)
(* sent to the gateway.                                                    *)
(*                                                                         *)
(* The program is single-threaded.  Frames wait in the receivers' queues   *)
(* until a pass over all nodes takes them out; between passes the operator *)
(* injects faults, nodes send telemetry, radios fail and recover.  Control *)
(* runs may change the tables between any two packets: a next hop is any   *)
(* of those NextHops allows.  With the event radio a frame lands in its    *)
(* receivers' queues later than it was sent, in any order.                 *)
(***************************************************************************)
EXTENDS Packets

CONSTANTS
  Nodes,       \* node identifiers, numbers so that they are ordered
  Links,       \* pairs <<n, m>> in radio range of each other
  Gateway,     \* the gateway
  NextHops,    \* NextHops[n][d]: the next hops n's table may hold for d
  Severities,  \* TTLs of the alerts of the fault severities
  MaxHops,     \* max_hops, also the TTL of acknowledgements and telemetry
  QueueLimit,  \* queue_limit
  CacheSize,   \* max_size of the duplicate caches
  Burst,       \* packets one pass takes from a queue at most (8)
  EventMode,   \* config.radio.mode = "event"
  Lossy,       \* whether the radio may lose frames
  Origins,     \* the nodes faults are injected at
  Failing,     \* the nodes whose radio may fail
  Operator,    \* whether the operator changes the gateway's state
  MaxAlerts,   \* bound of the model: alerts ever injected
  MaxNumber,   \* bound of the model: packet numbers, acknowledgements aside
  MaxRows      \* bound of the model: telemetry rows

Telemetry == 1
Control == 2
Fault == 3
Priorities == Telemetry..Fault

ASSUME ForwardingAssumption ==
  /\ Nodes \subseteq Nat /\ IsFiniteSet(Nodes) /\ Gateway \in Nodes
  /\ Links \subseteq Nodes \X Nodes
  /\ \A l \in Links : <<l[2], l[1]>> \in Links /\ l[1] # l[2]
  /\ NextHops \in [Nodes -> [Nodes -> SUBSET (Nodes \union {NoNode})]]
  /\ \A n, d \in Nodes : NextHops[n][d] # {} /\ n \notin NextHops[n][d]
  /\ Severities \subseteq Nat \ {0} /\ MaxHops \in Nat \ {0}
  /\ QueueLimit \in Nat \ {0} /\ CacheSize \in Nat \ {0} /\ Burst \in Nat \ {0}
  /\ EventMode \in BOOLEAN /\ Lossy \in BOOLEAN
  /\ Origins \subseteq Nodes /\ Failing \subseteq Nodes /\ Operator \in BOOLEAN
  /\ MaxAlerts \in Nat /\ MaxNumber \in Nat /\ MaxRows \in Nat

VARIABLES
  up,       \* communication_available of each node
  online,   \* gateway_online
  chan,     \* the queues of the nodes, and the frames the event radio holds
  cache,    \* recent_packet_cache of each node, oldest key first
  number,   \* _sequence of each node
  rows,     \* telemetry rows measured so far
  cached,   \* cached_gateway_telemetry of each node
  pass,     \* where the program is: idle, in a pass, or flushing caches
  issued,   \* history: the alerts injected, by duplicate key
  handled,  \* history: <<node, alert>> for the alerts nodes handled
  again,    \* history: those handled more than once
  acked,    \* history: <<node, alert>> for the acknowledgements that came back
  stored    \* history: how often the gateway received each row

history == <<issued, handled, again, acked, stored>>
vars == <<up, online, chan, cache, number, rows, cached, pass, history>>

Idle == [phase |-> "idle", at |-> NoNode, burst |-> 0, todo |-> {}]

Init ==
  /\ up = [n \in Nodes |-> TRUE]
  /\ online = TRUE
  /\ chan = [queue |-> [n \in Nodes |-> [l \in Priorities |-> <<>>]], air |-> {}]
  /\ cache = [n \in Nodes |-> <<>>]
  /\ number = [n \in Nodes |-> 0]
  /\ rows = 0
  /\ cached = [n \in Nodes |-> {}]
  /\ pass = Idle
  /\ issued = {}
  /\ handled = {}
  /\ again = {}
  /\ acked = {}
  /\ stored = [r \in 1..MaxRows |-> 0]

-----------------------------------------------------------------------------
(* Sending.  c is the state of the channel and the queues before, and the  *)
(* outcomes are those it may have after.                                   *)

Near(n) == {m \in Nodes : <<n, m>> \in Links /\ up[m]}

Accepted(c, p, heard) ==
  [c EXCEPT !.queue = [m \in Nodes |->
     IF m \in heard THEN enqueue_packet(c.queue[m], p, QueueLimit) ELSE c.queue[m]]]

_schedule_radio_Replaces(c, p, receivers) ==
  IF receivers = {} THEN c ELSE [c EXCEPT !.air = {[to |-> receivers, frame |-> p]}]

_schedule_radio(c, p, receivers) ==
  IF receivers = {} THEN c ELSE [c EXCEPT !.air = @ \union {[to |-> receivers, frame |-> p]}]

broadcast(c, n, p, exclude) ==
  LET receivers == Near(n) \ exclude
  IN IF ~up[n] THEN {c}
     ELSE IF EventMode THEN {_schedule_radio(c, p, receivers)}
     ELSE {Accepted(c, p, heard) : heard \in IF Lossy THEN SUBSET receivers ELSE {receivers}}

(* _deliver: the outcomes of one transmission and what it returns.         *)
_deliver(c, p, hop) ==
  IF EventMode THEN {[chan |-> _schedule_radio(c, p, {hop}), ok |-> TRUE]}
  ELSE (IF up[hop]
        THEN {[chan |-> Accepted(c, p, {hop}), ok |-> Admits(c.queue[hop], p, QueueLimit)]}
        ELSE {})
       \union (IF Lossy \/ ~up[hop] THEN {[chan |-> c, ok |-> FALSE]} ELSE {})

route_packet_NoLoopCheck(c, n, p) ==
  IF ~up[n] THEN {[chan |-> c, ok |-> FALSE]}
  ELSE UNION {IF hop = NoNode
              THEN {[chan |-> c, ok |-> FALSE]}
              ELSE _deliver(c, p, hop) : hop \in NextHops[n][p.dest]}

(* route_packet to another node: no route, a hop the packet already took,  *)
(* or one transmission.                                                    *)
route_packet(c, n, p) ==
  IF ~up[n] THEN {[chan |-> c, ok |-> FALSE]}
  ELSE UNION {IF hop = NoNode \/ hop \in p.path
              THEN {[chan |-> c, ok |-> FALSE]}
              ELSE _deliver(c, p, hop) : hop \in NextHops[n][p.dest]}

-----------------------------------------------------------------------------
(* Between passes.                                                         *)

(* inject_fault: an alert is flooded, and a coordination packet follows it *)
(* to the direct neighbours.                                               *)
inject_fault(n, ttl) ==
  LET alert == create_packet("alert", n, number[n] + 1, NoNode, Fault, ttl, <<>>)
      coord == create_packet("coord", n, number[n] + 2, NoNode, Control, ttl, <<>>)
  IN /\ pass.phase = "idle"
     /\ Cardinality(issued) < MaxAlerts /\ number[n] + 2 <= MaxNumber
     /\ number' = [number EXCEPT ![n] = @ + 2]
     /\ \E c \in broadcast(chan, n, alert, {}) : chan' \in broadcast(c, n, coord, {})
     /\ issued' = issued \union {identity(alert)}
     /\ UNCHANGED <<up, online, cache, rows, cached, pass, handled, again, acked, stored>>

(* A radio fails or recovers.                                              *)
Switch(n) ==
  /\ pass.phase = "idle"
  /\ n \in Failing
  /\ up' = [up EXCEPT ![n] = ~@]
  /\ UNCHANGED <<online, chan, cache, number, rows, cached, pass, history>>

Reading(n, row) ==
  create_packet("data", n, number[n] + 1, Gateway, Telemetry, MaxHops, row)

(* _send_telemetry: to the gateway if it can be reached, else to the cache.*)
(* The gateway's own row comes straight back to it (receive_packet).       *)
_send_telemetry(n) ==
  /\ pass.phase = "idle"
  /\ up[n]
  /\ rows < MaxRows
  /\ rows' = rows + 1
  /\ IF ~online \/ ~up[Gateway]
     THEN /\ cached' = [cached EXCEPT ![n] = @ \union {rows'}]
          /\ UNCHANGED <<chan, cache, number, stored>>
     ELSE /\ number[n] < MaxNumber
          /\ number' = [number EXCEPT ![n] = @ + 1]
          /\ IF n = Gateway
             THEN /\ stored' = [stored EXCEPT ![rows'] = @ + 1]
                  /\ cache' = [cache EXCEPT ![n] =
                                 Remember(@, duplicate_key(Reading(n, rows')), CacheSize)]
                  /\ UNCHANGED <<chan, cached>>
             ELSE /\ \E o \in route_packet(chan, n, Reading(n, rows')) :
                       /\ chan' = o.chan
                       /\ cached' = IF o.ok THEN cached
                                    ELSE [cached EXCEPT ![n] = @ \union {rows'}]
                  /\ UNCHANGED <<cache, stored>>
  /\ UNCHANGED <<up, online, pass, issued, handled, again, acked>>

(* set_gateway: back online, the gateway asks for what was cached.         *)
set_gateway(to) ==
  /\ pass.phase = "idle"
  /\ Operator
  /\ \A n \in Nodes : number[n] + Cardinality(cached[n]) <= MaxNumber
  /\ online' = to
  /\ pass' = IF to
             THEN [Idle EXCEPT !.phase = "flush",
                     !.todo = UNION {{n} \X cached[n] : n \in Nodes \ {Gateway}}]
             ELSE pass
  /\ UNCHANGED <<up, chan, cache, number, rows, cached, history>>

(* _flush_cached_gateway_telemetry, one row: it leaves the cache if its    *)
(* first transmission succeeds.                                            *)
Flush_Keeps(n, row) ==
  /\ pass.phase = "flush"
  /\ <<n, row>> \in pass.todo
  /\ \A o \in pass.todo : n < o[1] \/ (n = o[1] /\ row <= o[2])
  /\ number' = [number EXCEPT ![n] = @ + 1]
  /\ \E o \in route_packet(chan, n, Reading(n, row)) : chan' = o.chan
  /\ pass' = [pass EXCEPT !.todo = @ \ {<<n, row>>}]
  /\ UNCHANGED <<up, online, cache, rows, cached, history>>

Flush(n, row) ==
  /\ pass.phase = "flush"
  /\ <<n, row>> \in pass.todo
  /\ \A o \in pass.todo : n < o[1] \/ (n = o[1] /\ row <= o[2])
  /\ number' = [number EXCEPT ![n] = @ + 1]
  /\ \E o \in route_packet(chan, n, Reading(n, row)) :
       /\ chan' = o.chan
       /\ cached' = IF o.ok THEN [cached EXCEPT ![n] = @ \ {row}] ELSE cached
  /\ pass' = [pass EXCEPT !.todo = @ \ {<<n, row>>}]
  /\ UNCHANGED <<up, online, cache, rows, history>>

EndFlush ==
  /\ pass.phase = "flush"
  /\ pass.todo = {}
  /\ pass' = Idle
  /\ UNCHANGED <<up, online, chan, cache, number, rows, cached, history>>

-----------------------------------------------------------------------------
(* A pass (_process_receiver_queues): every node in turn takes up to Burst *)
(* packets out of its queue, most urgent first.                            *)

First(S) == CHOOSE n \in S : \A m \in S : n <= m
Later(n) == {m \in Nodes : m > n}

process_queues ==
  /\ pass.phase = "idle"
  /\ \E n \in Nodes : Occupied(chan.queue[n]) # {}
  /\ pass' = [Idle EXCEPT !.phase = "pass", !.at = First(Nodes), !.burst = Burst]
  /\ UNCHANGED <<up, online, chan, cache, number, rows, cached, history>>

NextNode ==
  /\ pass.phase = "pass"
  /\ pass.burst = 0 \/ Occupied(chan.queue[pass.at]) = {}
  /\ pass' = IF Later(pass.at) = {} THEN Idle
             ELSE [pass EXCEPT !.at = First(Later(pass.at)), !.burst = Burst]
  /\ UNCHANGED <<up, online, chan, cache, number, rows, cached, history>>

(* The node whose turn it is, the packet it takes, and what that leaves.   *)
Here == pass.at
Current == Next_packet(chan.queue[Here])
Rest == [chan EXCEPT !.queue[Here] = dequeue_packet(@)]

Taking ==
  /\ pass.phase = "pass" /\ pass.burst > 0
  /\ Occupied(chan.queue[Here]) # {}
  /\ pass' = [pass EXCEPT !.burst = @ - 1]

Remembering == [cache EXCEPT ![Here] = Remember(@, duplicate_key(Current), CacheSize)]

(* The first sight of a packet, as far as the cache remembers.             *)
TakingFresh == Taking /\ ~Seen(cache[Here], duplicate_key(Current))

Forwardable_AlertsOnly(p) == p.kind = "alert" /\ p.ttl > 1 /\ p.hops < MaxHops

Forwardable(p) == p.ttl > 1 /\ p.hops < MaxHops

ReceiveDuplicate ==
  /\ Taking
  /\ Seen(cache[Here], duplicate_key(Current))
  /\ cache' = Remembering
  /\ chan' = Rest
  /\ UNCHANGED <<up, online, number, rows, cached, history>>

(* What is left to do with an alert once it is acknowledged.               *)
FloodOn(c) ==
  IF Forwardable(Current)
  THEN broadcast(c, Here, forwarded(Current, Here), {Current.source})
  ELSE {c}

(* An alert: acknowledge to its origin, and flood it on.                   *)
ReceiveAlert ==
  LET alert == <<Here, identity(Current)>>
      ack == create_packet("ack", Here, number[Here] + 1, Current.origin, Control,
                           MaxHops, identity(Current))
      returns == Current.origin = Here /\ up[Here]
      answers == IF Current.origin = Here THEN {[chan |-> Rest, ok |-> TRUE]}
                 ELSE route_packet(Rest, Here, ack)
  IN /\ TakingFresh
     /\ Current.kind = "alert"
     /\ handled' = handled \union {alert}
     /\ again' = again \union ({alert} \intersect handled)
     /\ number' = [number EXCEPT ![Here] = @ + 1]
     /\ cache' = IF returns
                 THEN [Remembering EXCEPT ![Here] = Remember(@, duplicate_key(ack), CacheSize)]
                 ELSE Remembering
     /\ acked' = IF returns THEN acked \union {alert} ELSE acked
     /\ \E o \in answers : chan' \in FloodOn(o.chan)
     /\ UNCHANGED <<up, online, rows, cached, issued, stored>>

(* A unicast at its destination.                                           *)
ReceiveFinal ==
  /\ TakingFresh
  /\ Current.dest = Here
  /\ acked' = IF Current.kind = "ack"
              THEN acked \union {<<Current.origin, Current.about>>} ELSE acked
  /\ stored' = IF Current.kind = "data"
               THEN [stored EXCEPT ![Current.about] = @ + 1] ELSE stored
  /\ cache' = Remembering
  /\ chan' = Rest
  /\ UNCHANGED <<up, online, number, rows, cached, issued, handled, again>>

(* A unicast on its way: one more hop, if the limits allow it.             *)
ReceiveRelay ==
  /\ TakingFresh
  /\ Current.dest \notin {NoNode, Here}
  /\ IF Forwardable(Current)
     THEN \E o \in route_packet(Rest, Here, forwarded(Current, Here)) : chan' = o.chan
     ELSE chan' = Rest
  /\ cache' = Remembering
  /\ UNCHANGED <<up, online, number, rows, cached, history>>

ReceiveOneHop ==
  /\ TakingFresh
  /\ Current.dest = NoNode /\ Current.kind # "alert"
  /\ cache' = Remembering
  /\ chan' = Rest
  /\ UNCHANGED <<up, online, number, rows, cached, history>>

receive_packet ==
  ReceiveDuplicate \/ ReceiveAlert \/ ReceiveFinal \/ ReceiveRelay \/ ReceiveOneHop

(* The event radio reports a frame's result (_schedule_radio, on_result).  *)
Land(f) ==
  LET there == {m \in f.to : up[m] /\ up[f.frame.source]}
  IN /\ pass.phase = "idle"
     /\ \E heard \in IF Lossy THEN SUBSET there ELSE {there} :
          chan' = [Accepted(chan, f.frame, heard) EXCEPT !.air = @ \ {f}]
     /\ UNCHANGED <<up, online, cache, number, rows, cached, pass, history>>

-----------------------------------------------------------------------------
Environment ==
  \/ \E n \in Origins, ttl \in Severities : inject_fault(n, ttl)
  \/ \E n \in Nodes : Switch(n) \/ _send_telemetry(n)
  \/ \E to \in BOOLEAN : set_gateway(to)

Passing == NextNode \/ receive_packet

Flushing == EndFlush \/ \E n \in Nodes, row \in 1..MaxRows : Flush(n, row)

Landing == \E f \in chan.air : Land(f)

Next == Environment \/ process_queues \/ Passing \/ Flushing \/ Landing

Spec == Init /\ [][Next]_vars

(* Every step of the simulation processes the queues (and the event radio),*)
(* and a pass or a flush runs to its end before anything else happens.     *)
FairSpec ==
  /\ Spec
  /\ SF_vars(process_queues) /\ SF_vars(Landing)
  /\ WF_vars(Passing) /\ WF_vars(Flushing)

-----------------------------------------------------------------------------
Queued == UNION {{chan.queue[n][l][k] : k \in 1..Len(chan.queue[n][l])} :
                   n \in Nodes, l \in Priorities}
InFlight == Queued \union {f.frame : f \in chan.air}

Kinds == {"alert", "coord", "data", "ack"}
About == {<<>>} \union (1..MaxRows) \union (Nodes \X Nat)
Packet == [kind : Kinds, source : Nodes, origin : Nodes, no : Nat, dest : Nodes \union {NoNode},
           prio : Priorities, hops : Nat, ttl : Nat, path : SUBSET Nodes, about : About]
Frame == [to : SUBSET Nodes, frame : Packet]
Lanes == [Priorities -> Seq(Packet)]
Pass == [phase : {"idle", "pass", "flush"}, at : Nodes \union {NoNode}, burst : Nat,
         todo : SUBSET (Nodes \X (1..MaxRows))]
Alerts == Nodes \X Nat

(* Every variable has its type.                                            *)
TypeOK ==
  /\ up \in [Nodes -> BOOLEAN] /\ online \in BOOLEAN
  /\ chan \in [queue : [Nodes -> Lanes], air : SUBSET Frame]
  /\ DOMAIN cache = Nodes
  /\ number \in [Nodes -> Nat]
  /\ rows \in 0..MaxRows
  /\ cached \in [Nodes -> SUBSET (1..MaxRows)]
  /\ pass \in Pass /\ (pass.phase = "pass" => pass.at \in Nodes)
  /\ issued \subseteq Alerts
  /\ handled \subseteq Nodes \X Alerts /\ again \subseteq handled
  /\ stored \in [1..MaxRows -> Nat]

(* A packet ages exactly: what it has travelled and what it may still      *)
(* travel add up to the TTL it was created with, within max_hops.          *)
AgesExactly ==
  \A p \in InFlight :
    /\ p.ttl > 0 /\ p.hops <= MaxHops
    /\ p.hops + p.ttl \in IF p.dest = NoNode THEN Severities ELSE {MaxHops}

(* A unicast visits no node twice, however the routing tables change under *)
(* it and whatever the duplicate caches have forgotten.                    *)
UnicastsDoNotCircle ==
  \A p \in InFlight : p.dest # NoNode => Cardinality(p.path) = p.hops + 1

(* Nobody handles the same alert twice, over whichever paths its copies    *)
(* arrive, as long as the caches are large enough for what is in flight.   *)
HandledOnce == again = {}

(* A telemetry row is in one place: cached at a node, on its way, or       *)
(* stored, and it is stored once, whatever was cached, flushed and lost.   *)
RowsAreNotDuplicated ==
  \A r \in 1..MaxRows :
    Cardinality({n \in Nodes : r \in cached[n]})
      + Cardinality({p \in InFlight : p.kind = "data" /\ p.about = r})
      + stored[r] <= 1

(* With working radios, no loss and an ample TTL, an alert reaches every   *)
(* node, though every copy but the first is suppressed everywhere.         *)
AlertsReachEveryone ==
  [](\A n \in Nodes : up[n]) =>
    \A n \in Nodes, k \in 1..MaxNumber :
      <<n, k>> \in issued ~> \A m \in Nodes \ {n} : <<m, <<n, k>>>> \in handled

(* And every node's acknowledgement comes back to the origin.              *)
AcknowledgementsReturn ==
  [](\A n \in Nodes : up[n]) =>
    \A n \in Nodes, k \in 1..MaxNumber :
      <<n, k>> \in issued ~> \A m \in Nodes \ {n} : <<m, <<n, k>>>> \in acked
=============================================================================
