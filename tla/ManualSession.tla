---------------------------- MODULE ManualSession ----------------------------
(***************************************************************************)
(* One packet traced by hand (manual_simulation.py): a queue of single     *)
(* link transmissions, one of which is attempted at every press of         *)
(* Forward, while the operator may fail and recover radios in between.     *)
(* Unlike the batch engine of Forwarding there are no node queues and no   *)
(* bounded caches: the session remembers everything every node has seen.   *)
(***************************************************************************)
EXTENDS Packets

CONSTANTS
  Nodes,         \* node identifiers, numbers so that they are ordered
  Links,         \* pairs <<n, m>> in radio range of each other
  NextHops,      \* NextHops[n][d]: the next hops n's table may hold for d
  Flooded,       \* FLOODED_PACKET_TYPES
  Creations,     \* what the user may ask for: [kind, source, dest, ttl]
  MaxHops,       \* TTL of acknowledgements
  generate_fault_acks,
  Lossy,         \* whether the channel may lose a transmission
  Failing        \* the nodes whose radio may fail and recover

ASSUME SessionAssumption ==
  /\ Nodes \subseteq Nat /\ IsFiniteSet(Nodes)
  /\ Links \subseteq Nodes \X Nodes
  /\ NextHops \in [Nodes -> [Nodes -> SUBSET (Nodes \union {NoNode})]]
  /\ \A n, d \in Nodes : NextHops[n][d] # {}
  /\ \A c \in Creations : c.source \in Nodes /\ c.dest \in Nodes \union {NoNode} /\ c.ttl \in Nat \ {0}
  /\ MaxHops \in Nat \ {0} /\ generate_fault_acks \in BOOLEAN /\ Lossy \in BOOLEAN
  /\ Failing \subseteq Nodes

VARIABLES
  up,         \* communication_available of each node
  packet,     \* the packet of the session, or NoPacket
  pending,    \* transmissions waiting for Forward: [from, to, packet]
  seen,       \* seen_by_node: <<node, packet identity>>
  delivered,  \* delivered_nodes
  complete,
  number,     \* _sequence of each node
  clean       \* history: nothing was dropped and no radio has failed

vars == <<up, packet, pending, seen, delivered, complete, number, clean>>

NoPacket == create_packet("none", NoNode, 0, NoNode, 0, 0, <<>>)

Init ==
  /\ up = [n \in Nodes |-> TRUE]
  /\ packet = NoPacket
  /\ pending = <<>>
  /\ seen = {}
  /\ delivered = {}
  /\ complete = FALSE
  /\ number = [n \in Nodes |-> 0]
  /\ clean = TRUE

-----------------------------------------------------------------------------
Near(n) == {m \in Nodes : <<n, m>> \in Links /\ up[m]}

(* The rising list of a set, as the one member of a set.                   *)
Sorted(S) ==
  {s \in [1..Cardinality(S) -> S] :
     /\ \A i, j \in 1..Cardinality(S) : i < j => s[i] < s[j]
     /\ \A x \in S : \E i \in 1..Cardinality(S) : s[i] = x}

Transmissions(n, p, to) == [i \in 1..Len(to) |-> [from |-> n, to |-> to[i], packet |-> p]]

_schedule_from_FloodsOnly(n, p, previous, reason) ==
  IF ~up[n] \/ p.dest = n \/ (reason = "forward" /\ p.kind \notin Flooded) THEN {<<>>}
  ELSE IF p.dest # NoNode
  THEN {IF hop \in Near(n) \ p.path THEN Transmissions(n, p, <<hop>>) ELSE <<>> :
          hop \in NextHops[n][p.dest]}
  ELSE {Transmissions(n, p, to) : to \in Sorted(Near(n) \ {previous})}

(* _schedule_from: what node n queues of p, for each route it may hold.    *)
(* Ordinary broadcasts end at the direct neighbours.                       *)
_schedule_from(n, p, previous, reason) ==
  IF ~up[n] \/ p.dest = n THEN {<<>>}
  ELSE IF p.dest # NoNode
  THEN {IF hop \in Near(n) \ p.path THEN Transmissions(n, p, <<hop>>) ELSE <<>> :
          hop \in NextHops[n][p.dest]}
  ELSE IF reason = "forward" /\ p.kind \notin Flooded THEN {<<>>}
  ELSE {Transmissions(n, p, to) : to \in Sorted(Near(n) \ {previous})}

create(c) ==
  LET p == create_packet(c.kind, c.source, number[c.source] + 1, c.dest, 0, c.ttl, <<>>)
  IN /\ packet = NoPacket
     /\ up[c.source]
     /\ packet' = p
     /\ number' = [number EXCEPT ![c.source] = @ + 1]
     /\ seen' = {<<c.source, identity(p)>>}
     /\ delivered' = IF c.dest = c.source THEN {c.source} ELSE {}
     /\ pending' \in _schedule_from(c.source, p, NoNode, "origin")
     /\ complete' = (pending' = <<>>)
     /\ UNCHANGED <<up, clean>>

(* A radio fails, or recovers and is discovered, between two presses.      *)
Switch(n) ==
  /\ n \in Failing
  /\ up' = [up EXCEPT ![n] = ~@]
  /\ clean' = FALSE
  /\ UNCHANGED <<packet, pending, seen, delivered, complete, number>>

-----------------------------------------------------------------------------
(* forward_one, for the transmission at the head of the queue.             *)
Item == Head(pending)
Sent == Item.packet
Receiver == Item.to
Possible == up[Item.from] /\ Receiver \in Near(Item.from)
Sighting == <<Receiver, identity(Sent)>>

RecordDrop_Requeues ==
  /\ pending # <<>>
  /\ Lossy \/ ~Possible
  /\ pending' = Append(Tail(pending), Item)
  /\ complete' = (pending' = <<>>)
  /\ clean' = FALSE
  /\ UNCHANGED <<up, packet, seen, delivered, number>>

(* _record_drop: the link is gone or the channel lost the frame.           *)
RecordDrop ==
  /\ pending # <<>>
  /\ Lossy \/ ~Possible
  /\ pending' = Tail(pending)
  /\ complete' = (pending' = <<>>)
  /\ clean' = FALSE
  /\ UNCHANGED <<up, packet, seen, delivered, number>>

SuppressDuplicate ==
  /\ pending # <<>>
  /\ Possible /\ Sighting \in seen
  /\ pending' = Tail(pending)
  /\ complete' = (pending' = <<>>)
  /\ UNCHANGED <<up, packet, seen, delivered, number, clean>>

(* _schedule_fault_ack, towards the origin of an alert.                    *)
Acknowledges ==
  Sent.kind = "alert" /\ generate_fault_acks /\ Receiver # Sent.origin

Acknowledgements ==
  IF Acknowledges
  THEN _schedule_from(Receiver,
         create_packet("ack", Receiver, number[Receiver] + 1, Sent.origin, 0, MaxHops,
                       identity(Sent)), NoNode, "fault_ack")
  ELSE {<<>>}

Onward ==
  IF Sent.dest = Receiver \/ Sent.ttl <= 1 THEN {<<>>}
  ELSE _schedule_from(Receiver, forwarded(Sent, Receiver), Item.from, "forward")

Accept_InFront ==
  /\ pending # <<>>
  /\ Possible /\ Sighting \notin seen
  /\ seen' = seen \union {Sighting}
  /\ delivered' = delivered \union {Receiver}
  /\ number' = IF Acknowledges THEN [number EXCEPT ![Receiver] = @ + 1] ELSE number
  /\ \E acks \in Acknowledgements, copies \in Onward :
       pending' = acks \o copies \o Tail(pending)
  /\ complete' = (pending' = <<>>)
  /\ UNCHANGED <<up, packet, clean>>

(* A first reception: acknowledge, then route or flood on, at the end of   *)
(* the queue.                                                              *)
Accept ==
  /\ pending # <<>>
  /\ Possible /\ Sighting \notin seen
  /\ seen' = seen \union {Sighting}
  /\ delivered' = delivered \union {Receiver}
  /\ number' = IF Acknowledges THEN [number EXCEPT ![Receiver] = @ + 1] ELSE number
  /\ \E acks \in Acknowledgements, copies \in Onward :
       pending' = Tail(pending) \o acks \o copies
  /\ complete' = (pending' = <<>>)
  /\ UNCHANGED <<up, packet, clean>>

forward_one == RecordDrop \/ SuppressDuplicate \/ Accept

Next ==
  \/ \E c \in Creations : create(c)
  \/ \E n \in Nodes : Switch(n)
  \/ forward_one

Spec == Init /\ [][Next]_vars

(* The user keeps pressing Forward while transmissions wait.               *)
FairSpec == Spec /\ WF_vars(forward_one)

-----------------------------------------------------------------------------
(* The nodes at most k links away from n: a walk of k steps, each over a   *)
(* link or in place, leads there.                                          *)
Within(n, k) ==
  {m \in Nodes : \E w \in [0..k -> Nodes] :
     /\ w[0] = n /\ w[k] = m
     /\ \A i \in 1..k : w[i] = w[i - 1] \/ <<w[i - 1], w[i]>> \in Links}

(* A flooded packet reaches every node its TTL can reach, although a node  *)
(* takes only the first copy it hears: the trace floods breadth first, so  *)
(* that the first copy is one that came over a shortest path.              *)
FloodReachesRadius ==
  complete /\ clean /\ packet.kind \in Flooded /\ packet.dest = NoNode =>
    \A n \in Within(packet.source, packet.ttl) : <<n, identity(packet)>> \in seen

(* Every node that received the alert has its acknowledgement back at the  *)
(* origin by the time the trace says it is complete.                       *)
AlertsAreAcknowledged ==
  complete /\ clean /\ packet.kind = "alert" /\ generate_fault_acks =>
    \A n \in Nodes \ {packet.source} : <<n, identity(packet)>> \in seen =>
      \E k \in 1..number[n] : <<packet.source, <<n, k>>>> \in seen

(* When they can come back: along the routes towards the source of an      *)
(* alert a measure of distance decreases at every hop, within MaxHops, for *)
(* all nodes that the alert can reach.                                     *)
RoutesLead(far) ==
  \A c \in Creations : c.kind = "alert" =>
    \A n \in Within(c.source, c.ttl) \ {c.source} :
      /\ far[n][c.source] \in 1..MaxHops
      /\ \A h \in NextHops[n][c.source] :
           /\ h \in Within(c.source, c.ttl) /\ <<n, h>> \in Links
           /\ far[h][c.source] < far[n][c.source]

(* However the radios fail and recover, pressing Forward ends the trace.   *)
TraceEnds == packet # NoPacket ~> complete
=============================================================================
