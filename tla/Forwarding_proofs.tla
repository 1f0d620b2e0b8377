--------------------------- MODULE Forwarding_proofs ---------------------------
(***************************************************************************)
(* Forwarding for every mesh, every routing table, every size of queue and *)
(* cache, with loss, failing radios and either radio: packets age exactly, *)
(* no unicast visits a node twice, a telemetry row is at one place and     *)
(* stored once, and, while the caches have room, no alert is handled       *)
(* twice, and none leaves a node of a connected working mesh out.          *)
(***************************************************************************)
EXTENDS Forwarding, FiniteSetTheorems, SequenceTheorems, WellFoundedInduction, TLAPS

LEMMA Least ==
  ASSUME NEW T, T \subseteq Nat, T # {}
  PROVE  \E m \in T : \A n \in T : m <= n
<1>1. \E m \in T : \A n \in T : <<n, m>> \notin OpToRel(<, Nat)
  BY WFMin, NatLessThanWellFounded
<1>2. \E m \in T : \A n \in T : ~(n < m)
  BY <1>1 DEF OpToRel
<1> QED
  BY <1>2

LEMMA FirstIsMember ==
  ASSUME NEW S, S \subseteq Nodes, S # {}
  PROVE  First(S) \in S
<1>1. \E n \in S : \A m \in S : n <= m
  BY Least, ForwardingAssumption
<1> QED
  BY <1>1 DEF First

-----------------------------------------------------------------------------
(* Queues.                                                                 *)

(* The packets of a node's queue.                                          *)
Contents(q) == UNION {{q[l][k] : k \in 1..Len(q[l])} : l \in Priorities}

LEMMA LanesHave ==
  ASSUME NEW q \in Lanes
  PROVE  /\ DOMAIN q = Priorities
         /\ \A l \in Priorities : q[l] \in Seq(Packet)
         /\ Contents(q) \subseteq Packet
BY DEF Lanes, Contents

(* The lowest and the highest occupied lane are occupied lanes.            *)
LEMMA OccupiedLanes ==
  ASSUME NEW q \in Lanes, Occupied(q) # {}
  PROVE  Lowest(q) \in Occupied(q) /\ Highest(q) \in Occupied(q) /\ Occupied(q) \subseteq Priorities
<1>1. Occupied(q) \subseteq 1..3
  BY LanesHave DEF Occupied, Priorities, Telemetry, Fault
<1>2. \E l \in Occupied(q) : \A k \in Occupied(q) : l <= k
  <2>1. PICK x \in Occupied(q) : TRUE
    OBVIOUS
  <2> QED
    BY <1>1, <2>1
<1>3. \E l \in Occupied(q) : \A k \in Occupied(q) : l >= k
  <2>1. PICK x \in Occupied(q) : TRUE
    OBVIOUS
  <2> QED
    BY <1>1, <2>1
<1> QED
  BY <1>1, <1>2, <1>3 DEF Lowest, Highest, Priorities, Telemetry, Fault

LEMMA EmptyHasNoLength ==
  ASSUME NEW q \in Lanes, Occupied(q) = {}
  PROVE  Length(q) = 0
<1>1. \A l \in Priorities : q[l] = <<>>
  BY LanesHave DEF Occupied
<1>2. UNION {{<<l, k>> : k \in 1..Len(q[l])} : l \in DOMAIN q} = {}
  BY <1>1, LanesHave
<1> QED
  BY <1>2, FS_EmptySet DEF Length

(* Taking the head of a lane, and adding to the end of one.                *)
LEMMA HeadTaken ==
  ASSUME NEW q \in Lanes, NEW l \in Priorities, q[l] # <<>>
  PROVE  /\ [q EXCEPT ![l] = Tail(@)] \in Lanes
         /\ Contents([q EXCEPT ![l] = Tail(@)]) \subseteq Contents(q)
         /\ Head(q[l]) \in Contents(q)
<1>1. q[l] \in Seq(Packet) /\ Len(q[l]) \in Nat /\ Len(q[l]) > 0 /\ DOMAIN q = Priorities
  BY LanesHave
<1>2. Tail(q[l]) \in Seq(Packet) /\ Len(Tail(q[l])) = Len(q[l]) - 1
      /\ \A k \in 1..Len(Tail(q[l])) : Tail(q[l])[k] = q[l][k + 1]
  BY <1>1
<1> DEFINE t == [q EXCEPT ![l] = Tail(@)]
<1>3. t \in Lanes
  BY <1>2 DEF Lanes
<1>4. ASSUME NEW p \in Contents(t)
      PROVE  p \in Contents(q)
  <2>1. PICK j \in Priorities : \E k \in 1..Len(t[j]) : p = t[j][k]
    BY DEF Contents
  <2>2. CASE j # l
    BY <1>1, <2>1, <2>2 DEF Contents
  <2>3. CASE j = l
    <3>1. PICK k \in 1..Len(Tail(q[l])) : p = Tail(q[l])[k]
      BY <1>1, <2>1, <2>3
    <3>2. k + 1 \in 1..Len(q[l]) /\ p = q[l][k + 1]
      BY <1>1, <1>2, <3>1
    <3> QED
      BY <3>2 DEF Contents
  <2> QED
    BY <2>2, <2>3
<1>5. Head(q[l]) \in Contents(q)
  <2>1. 1 \in 1..Len(q[l]) /\ Head(q[l]) = q[l][1]
    BY <1>1
  <2> QED
    BY <2>1 DEF Contents
<1> QED
  BY <1>3, <1>4, <1>5

LEMMA EndAdded ==
  ASSUME NEW q \in Lanes, NEW p \in Packet
  PROVE  /\ [q EXCEPT ![p.prio] = Append(@, p)] \in Lanes
         /\ Contents([q EXCEPT ![p.prio] = Append(@, p)]) \subseteq Contents(q) \union {p}
<1>1. p.prio \in Priorities
  BY DEF Packet
<1> DEFINE l == p.prio
           t == [q EXCEPT ![l] = Append(@, p)]
<1>2. q[l] \in Seq(Packet) /\ Len(q[l]) \in Nat /\ DOMAIN q = Priorities
  BY <1>1, LanesHave
<1>3. Append(q[l], p) \in Seq(Packet) /\ Len(Append(q[l], p)) = Len(q[l]) + 1
      /\ Append(q[l], p)[Len(q[l]) + 1] = p
      /\ \A k \in 1..Len(q[l]) : Append(q[l], p)[k] = q[l][k]
  BY <1>2
<1>4. t \in Lanes
  BY <1>3 DEF Lanes
<1>5. ASSUME NEW r \in Contents(t), r # p
      PROVE  r \in Contents(q)
  <2>1. PICK j \in Priorities : \E k \in 1..Len(t[j]) : r = t[j][k]
    BY DEF Contents
  <2>2. CASE j # l
    BY <1>2, <2>1, <2>2 DEF Contents
  <2>3. CASE j = l
    <3>1. PICK k \in 1..(Len(q[l]) + 1) : r = Append(q[l], p)[k]
      BY <1>1, <1>2, <1>3, <2>1, <2>3
    <3>2. k \in 1..Len(q[l]) /\ r = q[l][k]
      BY <1>2, <1>3, <1>5, <3>1
    <3> QED
      BY <1>1, <3>2 DEF Contents
  <2> QED
    BY <2>2, <2>3
<1> QED
  BY <1>4, <1>5

(* enqueue_packet keeps what is there, or less, and the packet at most.    *)
LEMMA EnqueueKeeps ==
  ASSUME NEW q \in Lanes, NEW p \in Packet
  PROVE  /\ enqueue_packet(q, p, QueueLimit) \in Lanes
         /\ Contents(enqueue_packet(q, p, QueueLimit)) \subseteq Contents(q) \union {p}
<1> DEFINE room == IF Length(q) < QueueLimit THEN q ELSE [q EXCEPT ![Lowest(q)] = Tail(@)]
<1>1. room \in Lanes /\ Contents(room) \subseteq Contents(q)
  <2>1. CASE Length(q) < QueueLimit
    BY <2>1
  <2>2. CASE ~(Length(q) < QueueLimit)
    <3>1. Occupied(q) # {}
      BY <2>2, EmptyHasNoLength, ForwardingAssumption
    <3>2. Lowest(q) \in Priorities /\ q[Lowest(q)] # <<>>
      BY <3>1, OccupiedLanes DEF Occupied
    <3> QED
      BY <2>2, <3>2, HeadTaken
  <2> QED
    BY <2>1, <2>2
<1>2. /\ [room EXCEPT ![p.prio] = Append(@, p)] \in Lanes
      /\ Contents([room EXCEPT ![p.prio] = Append(@, p)]) \subseteq Contents(q) \union {p}
  <2> HIDE DEF room
  <2> QED
    BY <1>1, EndAdded
<1> QED
  BY <1>1, <1>2 DEF enqueue_packet

LEMMA DequeueKeeps ==
  ASSUME NEW q \in Lanes, Occupied(q) # {}
  PROVE  /\ Next_packet(q) \in Contents(q)
         /\ dequeue_packet(q) \in Lanes
         /\ Contents(dequeue_packet(q)) \subseteq Contents(q)
<1>1. Highest(q) \in Priorities /\ q[Highest(q)] # <<>>
  BY OccupiedLanes DEF Occupied
<1> QED
  BY <1>1, HeadTaken DEF Next_packet, dequeue_packet

-----------------------------------------------------------------------------
(* Packets and where they are.                                             *)

(* What the theorems say of a packet.                                      *)
Ages(p) ==
  /\ p.ttl > 0 /\ p.hops <= MaxHops
  /\ p.hops + p.ttl \in IF p.dest = NoNode THEN Severities ELSE {MaxHops}
Straight(p) == p.dest # NoNode => Cardinality(p.path) = p.hops + 1
Addressed(p) == p.kind \in {"alert", "coord"} <=> p.dest = NoNode
Proper(p) == p \in Packet /\ Addressed(p) /\ Ages(p) /\ Straight(p)

(* A unicast only ever gets to nodes it has not been at.                   *)
New(p, n) == p.dest # NoNode => n \notin p.path

Channels == [queue : [Nodes -> Lanes], air : SUBSET Frame]

ProperQueues(queue) == \A n \in Nodes : \A p \in Contents(queue[n]) : Proper(p) /\ New(p, n)
ProperAir(air) == \A f \in air : Proper(f.frame) /\ \A n \in f.to : New(f.frame, n)
ProperChannel(c) == c \in Channels /\ ProperQueues(c.queue) /\ ProperAir(c.air)

LEMMA ChannelsHave ==
  ASSUME NEW c \in Channels
  PROVE  c.queue \in [Nodes -> Lanes] /\ c.air \in SUBSET Frame
BY DEF Channels

LEMMA AcceptedIsProper ==
  ASSUME NEW c, ProperChannel(c), NEW p, Proper(p), NEW heard \in SUBSET Nodes,
         \A n \in heard : New(p, n)
  PROVE  ProperChannel(Accepted(c, p, heard))
<1> DEFINE queue == [m \in Nodes |-> IF m \in heard THEN enqueue_packet(c.queue[m], p, QueueLimit)
                                                   ELSE c.queue[m]]
<1>1. \A m \in Nodes : c.queue[m] \in Lanes
  BY ChannelsHave DEF ProperChannel
<1>2. ASSUME NEW m \in Nodes
      PROVE  queue[m] \in Lanes /\ Contents(queue[m]) \subseteq
               Contents(c.queue[m]) \union (IF m \in heard THEN {p} ELSE {})
  BY <1>1, EnqueueKeeps DEF Proper
<1>3. queue \in [Nodes -> Lanes]
  BY <1>2
<1>4. ProperQueues(queue)
  BY <1>2 DEF ProperQueues, ProperChannel
<1>5. Accepted(c, p, heard) = [queue |-> queue, air |-> c.air]
  BY DEF Accepted, ProperChannel, Channels
<1> HIDE DEF queue
<1> QED
  BY <1>3, <1>4, <1>5 DEF ProperChannel, Channels

LEMMA ScheduleIsProper ==
  ASSUME NEW c, ProperChannel(c), NEW p, Proper(p), NEW receivers \in SUBSET Nodes,
         \A n \in receivers : New(p, n)
  PROVE  ProperChannel(_schedule_radio(c, p, receivers))
<1>1. CASE receivers = {}
  BY <1>1 DEF _schedule_radio
<1>2. CASE receivers # {}
  <2> DEFINE f == [to |-> receivers, frame |-> p]
  <2>1. f \in Frame /\ f.frame = p /\ f.to = receivers
    BY DEF Frame, Proper
  <2>2. _schedule_radio(c, p, receivers) = [queue |-> c.queue, air |-> c.air \union {f}]
    BY <1>2 DEF _schedule_radio, ProperChannel, Channels
  <2> HIDE DEF f
  <2>3. c.air \union {f} \in SUBSET Frame /\ ProperAir(c.air \union {f})
    BY <2>1, ChannelsHave DEF ProperChannel, ProperAir
  <2> QED
    BY <2>2, <2>3 DEF ProperChannel, Channels
<1> QED
  BY <1>1, <1>2

LEMMA BroadcastIsProper ==
  ASSUME NEW c, ProperChannel(c), NEW p, Proper(p), p.dest = NoNode, NEW n, NEW exclude,
         NEW d \in broadcast(c, n, p, exclude)
  PROVE  ProperChannel(d)
<1> DEFINE receivers == Near(n) \ exclude
<1>1. receivers \in SUBSET Nodes /\ \A m : New(p, m)
  BY DEF Near, New
<1>2. \/ d = c
      \/ d = _schedule_radio(c, p, receivers)
      \/ \E heard \in SUBSET receivers : d = Accepted(c, p, heard)
  BY DEF broadcast
<1> HIDE DEF receivers
<1> QED
  BY <1>1, <1>2, ScheduleIsProper, AcceptedIsProper

LEMMA DeliverIsProper ==
  ASSUME NEW c, ProperChannel(c), NEW p, Proper(p), NEW hop \in Nodes, New(p, hop),
         NEW o \in _deliver(c, p, hop)
  PROVE  ProperChannel(o.chan)
<1>1. \/ o.chan = c
      \/ o.chan = _schedule_radio(c, p, {hop})
      \/ o.chan = Accepted(c, p, {hop})
  BY DEF _deliver
<1> QED
  BY <1>1, ScheduleIsProper, AcceptedIsProper

(* A unicast is not sent to a node it has been at: whatever the table says.*)
LEMMA RoutingIsProper ==
  ASSUME NEW c, ProperChannel(c), NEW p, Proper(p), p.dest \in Nodes, NEW n \in Nodes,
         NEW o \in route_packet(c, n, p)
  PROVE  ProperChannel(o.chan)
<1>1. CASE o.chan = c
  BY <1>1
<1>2. ASSUME NEW hop \in NextHops[n][p.dest], hop # NoNode, hop \notin p.path,
             o \in _deliver(c, p, hop)
      PROVE  ProperChannel(o.chan)
  <2>1. NextHops[n][p.dest] \in SUBSET (Nodes \union {NoNode})
    <3>1. NextHops[n] \in [Nodes -> SUBSET (Nodes \union {NoNode})]
      BY ForwardingAssumption
    <3> QED
      BY <3>1
  <2>2. hop \in Nodes
    BY <1>2, <2>1
  <2> QED
    BY <1>2, <2>2, DeliverIsProper DEF New
<1> QED
  BY <1>1, <1>2 DEF route_packet

-----------------------------------------------------------------------------
(* New packets, and packets one hop further.                               *)

LEMMA CreatedIsProper ==
  ASSUME NEW kind \in Kinds, NEW n \in Nodes, NEW no \in Nat, NEW dest \in Nodes \union {NoNode},
         NEW prio \in Priorities, NEW ttl \in Nat, NEW about \in About,
         ttl \in IF dest = NoNode THEN Severities ELSE {MaxHops},
         kind \in {"alert", "coord"} <=> dest = NoNode
  PROVE  /\ Proper(create_packet(kind, n, no, dest, prio, ttl, about))
         /\ create_packet(kind, n, no, dest, prio, ttl, about).dest = dest
<1> DEFINE p == create_packet(kind, n, no, dest, prio, ttl, about)
<1>1. p \in Packet /\ p.kind = kind /\ p.dest = dest /\ p.ttl = ttl /\ p.hops = 0 /\ p.path = {n}
  BY DEF create_packet, Packet
<1>2. ttl > 0 /\ MaxHops \in Nat /\ 0 + ttl = ttl
  BY ForwardingAssumption
<1>3. Cardinality({n}) = 1
  BY FS_Singleton
<1> HIDE DEF p
<1>4. Ages(p)
  BY <1>1, <1>2 DEF Ages
<1>5. Straight(p)
  BY <1>1, <1>3 DEF Straight
<1> QED
  BY <1>1, <1>4, <1>5 DEF Proper, Addressed, p

LEMMA ForwardedIsProper ==
  ASSUME NEW p, Proper(p), NEW n \in Nodes, New(p, n), Forwardable(p)
  PROVE  Proper(forwarded(p, n)) /\ forwarded(p, n).dest = p.dest
<1> DEFINE q == forwarded(p, n)
<1>1. p \in Packet
  BY DEF Proper
<1>2. /\ q \in Packet /\ q.kind = p.kind /\ q.dest = p.dest /\ q.hops = p.hops + 1 /\ q.ttl = p.ttl - 1
      /\ q.path = p.path \union {n}
  <2>1. p.hops + 1 \in Nat /\ p.ttl - 1 \in Nat /\ p.path \union {n} \in SUBSET Nodes
    <3>1. p.hops \in Nat /\ p.ttl \in Nat /\ p.path \in SUBSET Nodes
      BY <1>1 DEF Packet
    <3> QED
      BY <3>1 DEF Forwardable
  <2>2. q = [p EXCEPT !.source = n, !.hops = p.hops + 1, !.ttl = p.ttl - 1,
                      !.path = p.path \union {n}]
    BY DEF forwarded
  <2> QED
    BY <1>1, <2>1, <2>2 DEF Packet
<1>3. p.hops \in Nat /\ p.ttl \in Nat /\ p.path \in SUBSET Nodes
  BY <1>1 DEF Packet
<1> HIDE DEF q
<1>4. Ages(q)
  <2>1. q.hops + q.ttl = p.hops + p.ttl /\ q.ttl > 0 /\ q.hops <= MaxHops
    BY <1>2, <1>3, ForwardingAssumption DEF Forwardable
  <2> QED
    BY <1>2, <2>1 DEF Ages, Proper
<1>5. Straight(q)
  <2>1. ASSUME p.dest # NoNode
        PROVE  Cardinality(q.path) = q.hops + 1
    <3>1. IsFiniteSet(p.path)
      BY <1>3, FS_Subset, ForwardingAssumption
    <3>2. Cardinality(p.path \union {n}) = Cardinality(p.path) + 1
      BY <2>1, <3>1, FS_AddElement DEF New
    <3> QED
      BY <1>2, <1>3, <2>1, <3>2 DEF Proper, Straight
  <2> QED
    BY <1>2, <2>1 DEF Straight
<1> QED
  BY <1>2, <1>4, <1>5 DEF Proper, Addressed, q

-----------------------------------------------------------------------------
(* The steps.                                                              *)

IInv == TypeOK /\ ProperChannel(chan)

LEMMA InitProper == Init => IInv
<1> SUFFICES ASSUME Init PROVE IInv
  OBVIOUS
<1> DEFINE empty == [l \in Priorities |-> <<>>]
<1>1. empty \in Lanes /\ Contents(empty) = {}
  BY DEF Lanes, Contents
<1> HIDE DEF empty
<1>2. chan = [queue |-> [n \in Nodes |-> empty], air |-> {}]
  BY DEF Init, empty
<1>3. [n \in Nodes |-> empty] \in [Nodes -> Lanes] /\ ProperQueues([n \in Nodes |-> empty])
      /\ ProperAir({})
  BY <1>1 DEF ProperQueues, ProperAir
<1>4. ProperChannel(chan)
  BY <1>2, <1>3 DEF ProperChannel, Channels
<1>5. Idle \in Pass /\ Idle.phase = "idle"
  BY DEF Idle, Pass
<1> QED
  BY <1>4, <1>5, ForwardingAssumption DEF IInv, TypeOK, ProperChannel, Channels, Init

(* What a packet taken from a queue is, and what is left.                  *)
LEMMA TakenIsProper ==
  ASSUME IInv, Taking
  PROVE  /\ Here \in Nodes /\ Proper(Current) /\ New(Current, Here) /\ ProperChannel(Rest)
         /\ pass' \in Pass /\ pass'.at = pass.at /\ pass'.phase = pass.phase
<1>1. Here \in Nodes /\ pass \in Pass
  BY DEF IInv, TypeOK, Taking, Here
<1>2. chan.queue[Here] \in Lanes /\ Occupied(chan.queue[Here]) # {}
  BY <1>1, ChannelsHave DEF IInv, ProperChannel, Taking
<1>3. Proper(Current) /\ New(Current, Here)
  BY <1>1, <1>2, DequeueKeeps DEF IInv, ProperChannel, ProperQueues, Current
<1> DEFINE left == dequeue_packet(chan.queue[Here])
           queue == [chan.queue EXCEPT ![Here] = left]
<1>4. left \in Lanes /\ Contents(left) \subseteq Contents(chan.queue[Here])
  BY <1>2, DequeueKeeps
<1>5. Rest = [queue |-> queue, air |-> chan.air]
  BY DEF Rest, IInv, ProperChannel, Channels
<1> HIDE DEF left
<1>6. queue \in [Nodes -> Lanes]
  BY <1>4, ChannelsHave DEF IInv, ProperChannel
<1>7. ASSUME NEW n \in Nodes
      PROVE  Contents(queue[n]) \subseteq Contents(chan.queue[n])
  BY <1>1, <1>4, ChannelsHave DEF IInv, ProperChannel
<1> HIDE DEF queue
<1>8. ProperQueues(queue)
  BY <1>7 DEF IInv, ProperChannel, ProperQueues
<1>9. ProperChannel(Rest)
  BY <1>5, <1>6, <1>8 DEF IInv, ProperChannel, Channels
<1>10. pass' \in Pass /\ pass'.at = pass.at /\ pass'.phase = pass.phase
  <2>1. pass.burst - 1 \in Nat
    <3>1. pass.burst \in Nat
      BY <1>1 DEF Pass
    <3> QED
      BY <3>1 DEF Taking
  <2>2. pass' = [pass EXCEPT !.burst = pass.burst - 1]
    BY DEF Taking
  <2> QED
    BY <1>1, <2>1, <2>2 DEF Pass
<1> QED
  BY <1>1, <1>3, <1>9, <1>10

(* What FloodOn sends on is proper.                                        *)
LEMMA FloodIsProper ==
  ASSUME NEW c, ProperChannel(c), Here \in Nodes, Proper(Current), New(Current, Here),
         Current.dest = NoNode, NEW d \in FloodOn(c)
  PROVE  ProperChannel(d)
<1>1. CASE Forwardable(Current)
  BY <1>1, ForwardedIsProper, BroadcastIsProper DEF FloodOn
<1>2. CASE ~Forwardable(Current)
  BY <1>2 DEF FloodOn
<1> QED
  BY <1>1, <1>2

LEMMA IdentitiesAreAlerts ==
  ASSUME NEW p \in Packet
  PROVE  identity(p) \in Alerts /\ identity(p) \in About
BY DEF identity, Packet, Alerts, About

LEMMA ReadingIsProper ==
  ASSUME IInv, NEW n \in Nodes, NEW row \in 1..MaxRows
  PROVE  Proper(Reading(n, row)) /\ Reading(n, row).dest = Gateway
<1>1. number[n] + 1 \in Nat /\ MaxHops \in Nat /\ Gateway \in Nodes /\ Gateway # NoNode
  <2>1. number[n] \in Nat
    BY DEF IInv, TypeOK
  <2> QED
    BY <2>1, ForwardingAssumption DEF NoNode
<1>2. Telemetry \in Priorities /\ "data" \in Kinds /\ row \in About
  BY DEF Telemetry, Priorities, Fault, Kinds, About
<1> QED
  BY <1>1, <1>2, CreatedIsProper DEF Reading

LEMMA FloodedIsProper ==
  ASSUME NEW kind \in {"alert", "coord"}, NEW n \in Nodes, NEW no \in Nat,
         NEW prio \in Priorities, NEW ttl \in Severities
  PROVE  LET p == create_packet(kind, n, no, NoNode, prio, ttl, <<>>)
         IN Proper(p) /\ p.dest = NoNode
<1>1. kind \in Kinds /\ ttl \in Nat /\ <<>> \in About
  BY ForwardingAssumption DEF Kinds, About
<1> QED
  BY <1>1, CreatedIsProper

LEMMA EnvironmentKeeps ==
  ASSUME IInv, Environment
  PROVE  IInv'
<1> USE DEF IInv
<1>1. ASSUME NEW n \in Origins, NEW ttl \in Severities, inject_fault(n, ttl)
      PROVE  IInv'
  <2> DEFINE alert == create_packet("alert", n, number[n] + 1, NoNode, Fault, ttl, <<>>)
             coord == create_packet("coord", n, number[n] + 2, NoNode, Control, ttl, <<>>)
  <2>1. n \in Nodes /\ ttl \in Nat
    BY ForwardingAssumption
  <2>2. number[n] + 1 \in Nat /\ number[n] + 2 \in Nat
    <3>1. number[n] \in Nat
      BY <2>1 DEF TypeOK
    <3> QED
      BY <3>1
  <2>3. Fault \in Priorities /\ Control \in Priorities
    BY DEF Fault, Control, Priorities, Telemetry
  <2>4. Proper(alert) /\ alert.dest = NoNode /\ Proper(coord) /\ coord.dest = NoNode
    <3>1. \A kind \in {"alert", "coord"}, no \in Nat, prio \in Priorities :
            LET p == create_packet(kind, n, no, NoNode, prio, ttl, <<>>)
            IN Proper(p) /\ p.dest = NoNode
      BY <2>1, FloodedIsProper
    <3>2. Proper(alert) /\ alert.dest = NoNode
      BY <2>2, <2>3, <3>1
    <3>3. Proper(coord) /\ coord.dest = NoNode
      BY <2>2, <2>3, <3>1
    <3> QED
      BY <3>2, <3>3
  <2>5. identity(alert) \in Alerts
    BY <2>4, IdentitiesAreAlerts DEF Proper
  <2>6. /\ number' = [number EXCEPT ![n] = @ + 2]
        /\ \E c \in broadcast(chan, n, alert, {}) : chan' \in broadcast(c, n, coord, {})
        /\ issued' = issued \union {identity(alert)}
        /\ UNCHANGED <<up, online, cache, rows, cached, pass, handled, again, stored>>
    BY <1>1 DEF inject_fault
  <2> HIDE DEF alert, coord
  <2>7. ProperChannel(chan)'
    BY <2>4, <2>6, BroadcastIsProper
  <2>8. number' \in [Nodes -> Nat]
    BY <2>1, <2>2, <2>6 DEF TypeOK
  <2> QED
    BY <2>5, <2>6, <2>7, <2>8 DEF TypeOK, ProperChannel, Channels
<1>2. ASSUME NEW n \in Nodes, Switch(n)
      PROVE  IInv'
  BY <1>2 DEF Switch, history, TypeOK, ProperChannel
<1>3. ASSUME NEW n \in Nodes, _send_telemetry(n)
      PROVE  IInv'
  <2>1. rows' \in 1..MaxRows /\ rows' = rows + 1
    BY <1>3, ForwardingAssumption DEF _send_telemetry, TypeOK
  <2>2. Proper(Reading(n, rows')) /\ Reading(n, rows').dest \in Nodes
    BY <2>1, ReadingIsProper, ForwardingAssumption
  <2>3. ProperChannel(chan')
    <3>1. chan' = chan \/ \E o \in route_packet(chan, n, Reading(n, rows')) : chan' = o.chan
      BY <1>3 DEF _send_telemetry
    <3> QED
      BY <2>2, <3>1, RoutingIsProper
  <2>4. cached' \in [Nodes -> SUBSET (1..MaxRows)]
    BY <1>3, <2>1 DEF _send_telemetry, TypeOK
  <2>5. number' \in [Nodes -> Nat] /\ stored' \in [1..MaxRows -> Nat]
    <3>1. number[n] + 1 \in Nat /\ stored[rows'] + 1 \in Nat
      <4>1. number[n] \in Nat /\ stored[rows'] \in Nat
        BY <2>1 DEF TypeOK
      <4> QED
        BY <4>1
    <3> QED
      BY <1>3, <2>1, <3>1 DEF _send_telemetry, TypeOK
  <2>6. DOMAIN cache' = Nodes
    BY <1>3 DEF _send_telemetry, TypeOK
  <2>7. rows' \in 0..MaxRows
    BY <2>1
  <2> QED
    BY <1>3, <2>3, <2>4, <2>5, <2>6, <2>7 DEF _send_telemetry, TypeOK, ProperChannel, Channels
<1>4. ASSUME NEW to \in BOOLEAN, set_gateway(to)
      PROVE  IInv'
  <2>1. UNION {{n} \X cached[n] : n \in Nodes \ {Gateway}} \in SUBSET (Nodes \X (1..MaxRows))
    BY DEF TypeOK
  <2>2. pass' \in Pass /\ (pass'.phase = "pass" => pass'.at \in Nodes)
    BY <1>4, <2>1 DEF set_gateway, Idle, Pass, TypeOK
  <2> QED
    BY <1>4, <2>2 DEF set_gateway, history, TypeOK, ProperChannel
<1> QED
  BY <1>1, <1>2, <1>3, <1>4 DEF Environment

LEMMA FlushingKeeps ==
  ASSUME IInv, Flushing
  PROVE  IInv'
<1> USE DEF IInv
<1>1. CASE EndFlush
  <2>1. Idle \in Pass /\ Idle.phase = "idle"
    BY DEF Idle, Pass
  <2> QED
    BY <1>1, <2>1 DEF EndFlush, history, TypeOK, ProperChannel
<1>2. ASSUME NEW n \in Nodes, NEW row \in 1..MaxRows, Flush(n, row)
      PROVE  IInv'
  <2>1. ProperChannel(chan')
    BY <1>2, ReadingIsProper, RoutingIsProper, ForwardingAssumption DEF Flush
  <2>2. cached' \in [Nodes -> SUBSET (1..MaxRows)]
    BY <1>2 DEF Flush, TypeOK
  <2>3. number' \in [Nodes -> Nat]
    <3>1. number[n] + 1 \in Nat
      <4>1. number[n] \in Nat
        BY DEF TypeOK
      <4> QED
        BY <4>1
    <3> QED
      BY <1>2, <3>1 DEF Flush, TypeOK
  <2>4. pass' \in Pass /\ pass'.phase = "flush"
    BY <1>2 DEF Flush, TypeOK, Pass
  <2> QED
    BY <1>2, <2>1, <2>2, <2>3, <2>4 DEF Flush, history, TypeOK, ProperChannel, Channels
<1> QED
  BY <1>1, <1>2 DEF Flushing

LEMMA LandingKeeps ==
  ASSUME IInv, Landing
  PROVE  IInv'
<1> USE DEF IInv
<1>1. PICK f \in chan.air : Land(f)
  BY DEF Landing
<1>2. f \in Frame /\ Proper(f.frame) /\ \A n \in f.to : New(f.frame, n)
  BY ChannelsHave DEF ProperChannel, ProperAir
<1>3. PICK heard \in SUBSET f.to :
        chan' = [Accepted(chan, f.frame, heard) EXCEPT !.air = @ \ {f}]
  BY <1>1 DEF Land
<1> DEFINE c == Accepted(chan, f.frame, heard)
<1>4. f.to \in SUBSET Nodes
  BY <1>2 DEF Frame
<1>5. ProperChannel(c)
  BY <1>2, <1>4, AcceptedIsProper
<1> HIDE DEF c
<1>6. chan' = [queue |-> c.queue, air |-> c.air \ {f}]
  BY <1>3, <1>5 DEF c, ProperChannel, Channels
<1>7. ProperChannel(chan')
  BY <1>5, <1>6 DEF ProperChannel, Channels, ProperAir
<1> QED
  BY <1>1, <1>7 DEF Land, history, TypeOK, ProperChannel, Channels

LEMMA PassStarts ==
  ASSUME IInv, process_queues \/ NextNode
  PROVE  IInv'
<1> USE DEF IInv
<1>1. Nodes # {} /\ Burst \in Nat
  BY ForwardingAssumption
<1>2. pass' \in Pass /\ (pass'.phase = "pass" => pass'.at \in Nodes)
  <2>1. CASE process_queues
    <3>1. First(Nodes) \in Nodes
      BY <1>1, FirstIsMember
    <3> QED
      BY <1>1, <2>1, <3>1 DEF process_queues, Idle, Pass
  <2>2. CASE NextNode
    <3>1. Later(pass.at) # {} => First(Later(pass.at)) \in Nodes
      <4>1. Later(pass.at) \subseteq Nodes
        BY DEF Later
      <4> QED
        BY <4>1, FirstIsMember
    <3> QED
      BY <1>1, <2>2, <3>1 DEF NextNode, Idle, Pass, TypeOK
  <2> QED
    BY <2>1, <2>2
<1> QED
  BY <1>2 DEF process_queues, NextNode, history, TypeOK, ProperChannel

LEMMA ReceivingKeeps ==
  ASSUME IInv, receive_packet
  PROVE  IInv'
<1> USE DEF IInv
<1>0. Taking
  BY DEF receive_packet, ReceiveDuplicate, ReceiveAlert, ReceiveFinal, ReceiveRelay, ReceiveOneHop,
         TakingFresh
<1>1. /\ Here \in Nodes /\ Proper(Current) /\ New(Current, Here) /\ ProperChannel(Rest)
      /\ pass' \in Pass /\ (pass'.phase = "pass" => pass'.at \in Nodes)
  BY <1>0, TakenIsProper DEF TypeOK
<1>2. DOMAIN Remembering = Nodes
  BY DEF Remembering, TypeOK
<1> HIDE DEF IInv
<1>3. CASE ReceiveDuplicate \/ ReceiveOneHop
  BY <1>1, <1>2, <1>3 DEF ReceiveDuplicate, ReceiveOneHop, history, IInv, TypeOK, ProperChannel, Channels
<1>4. CASE ReceiveAlert
  <2> DEFINE ack == create_packet("ack", Here, number[Here] + 1, Current.origin, Control,
                                  MaxHops, identity(Current))
             alert == <<Here, identity(Current)>>
  <2>1. Current \in Packet /\ Current.kind = "alert" /\ Current.dest = NoNode
    BY <1>1, <1>4 DEF ReceiveAlert, Proper, Addressed
  <2>2. number[Here] + 1 \in Nat
    <3>1. number[Here] \in Nat
      BY <1>1 DEF IInv, TypeOK
    <3> QED
      BY <3>1
  <2>3. Proper(ack) /\ ack.dest \in Nodes
    <3>1. /\ Current.origin \in Nodes /\ Current.origin # NoNode
          /\ MaxHops \in Nat /\ Control \in Priorities /\ "ack" \in Kinds
      BY <2>1, ForwardingAssumption
         DEF Packet, Control, Priorities, Telemetry, Fault, Kinds, NoNode
    <3> QED
      BY <1>1, <2>1, <2>2, <3>1, IdentitiesAreAlerts, CreatedIsProper
  <2>4. alert \in Nodes \X Alerts
    BY <1>1, <2>1, IdentitiesAreAlerts
  <2>5. \E o \in (IF Current.origin = Here THEN {[chan |-> Rest, ok |-> TRUE]}
                  ELSE route_packet(Rest, Here, ack)) : chan' \in FloodOn(o.chan)
    BY <1>4 DEF ReceiveAlert
  <2>6. /\ handled' = handled \union {alert} /\ again' = again \union ({alert} \intersect handled)
        /\ number' = [number EXCEPT ![Here] = @ + 1]
        /\ DOMAIN cache' = DOMAIN Remembering
        /\ UNCHANGED <<up, online, rows, cached, issued, stored>>
    BY <1>4 DEF ReceiveAlert
  <2> HIDE DEF ack, alert
  <2>7. ProperChannel(chan')
    <3>1. \E c : ProperChannel(c) /\ chan' \in FloodOn(c)
      BY <1>1, <2>3, <2>5, RoutingIsProper
    <3> QED
      BY <1>1, <2>1, <3>1, FloodIsProper
  <2>8. number' \in [Nodes -> Nat]
    BY <1>1, <2>2, <2>6 DEF IInv, TypeOK
  <2> QED
    BY <1>1, <1>2, <2>4, <2>6, <2>7, <2>8 DEF IInv, TypeOK, ProperChannel, Channels
<1>5. CASE ReceiveFinal
  <2>1. stored' \in [1..MaxRows -> Nat]
    <3>1. stored \in [1..MaxRows -> Nat]
      BY DEF IInv, TypeOK
    <3>2. \A r \in 1..MaxRows : stored[r] + 1 \in Nat
      BY <3>1
    <3> QED
      BY <1>5, <3>1, <3>2 DEF ReceiveFinal
  <2> QED
    BY <1>1, <1>2, <1>5, <2>1 DEF ReceiveFinal, IInv, TypeOK, ProperChannel, Channels
<1>6. CASE ReceiveRelay
  <2>1. Current.dest \in Nodes
    BY <1>1, <1>6 DEF ReceiveRelay, Proper, Packet
  <2>2. ProperChannel(chan')
    <3>1. CASE Forwardable(Current)
      BY <1>1, <1>6, <2>1, <3>1, ForwardedIsProper, RoutingIsProper DEF ReceiveRelay
    <3>2. CASE ~Forwardable(Current)
      BY <1>1, <1>6, <3>2 DEF ReceiveRelay
    <3> QED
      BY <3>1, <3>2
  <2> QED
    BY <1>1, <1>2, <1>6, <2>2 DEF ReceiveRelay, history, IInv, TypeOK, ProperChannel, Channels
<1> QED
  BY <1>3, <1>4, <1>5, <1>6 DEF receive_packet

LEMMA NextProper == IInv /\ [Next]_vars => IInv'
<1>1. ASSUME IInv, UNCHANGED vars
      PROVE  IInv'
  BY <1>1 DEF vars, history, IInv, TypeOK, ProperChannel
<1> QED
  BY <1>1, EnvironmentKeeps, PassStarts, ReceivingKeeps, FlushingKeeps, LandingKeeps
     DEF Next, Passing

LEMMA InFlightIsProper == IInv => \A p \in InFlight : Proper(p)
<1> SUFFICES ASSUME IInv, NEW p \in InFlight PROVE Proper(p)
  OBVIOUS
<1>1. CASE p \in {f.frame : f \in chan.air}
  BY <1>1 DEF IInv, ProperChannel, ProperAir
<1>2. CASE p \in Queued
  <2>1. \E n \in Nodes : p \in Contents(chan.queue[n])
    BY <1>2 DEF Queued, Contents
  <2> QED
    BY <2>1 DEF IInv, ProperChannel, ProperQueues
<1> QED
  BY <1>1, <1>2 DEF InFlight

(* Every variable has its type.                                            *)
THEOREM TypeCorrect == Spec => []TypeOK
<1>1. IInv => TypeOK
  BY DEF IInv
<1> QED
  BY <1>1, InitProper, NextProper, PTL DEF Spec

(* Hops and TTL of a packet add up to what it was created with             *)
(* (packets.py, Packet.forwarded; simulator.py, _receive_packet).          *)
THEOREM PacketsAgeExactly == Spec => []AgesExactly
<1>1. IInv => AgesExactly
  BY InFlightIsProper DEF AgesExactly, Proper, Ages
<1> QED
  BY <1>1, InitProper, NextProper, PTL DEF Spec

(* No unicast visits a node twice, whatever the routing tables, the queues *)
(* and the caches do (simulator.py, _route_packet).                        *)
THEOREM UnicastsGoStraight == Spec => []UnicastsDoNotCircle
<1>1. IInv => UnicastsDoNotCircle
  BY InFlightIsProper DEF UnicastsDoNotCircle, Proper, Straight
<1> QED
  BY <1>1, InitProper, NextProper, PTL DEF Spec

-----------------------------------------------------------------------------
(* Telemetry rows.  A row is at one place: in one cache, in one position   *)
(* of one queue, in one frame on the air to one node, or stored.           *)

Carries(p, r) == p.kind = "data" /\ p.about = r
Single(S) == \A x, y \in S : x = y

(* The positions of a queue that hold row r.                               *)
Holds(q, r) == {x \in Priorities \X Nat : /\ x[2] \in 1..Len(q[x[1]])
                                          /\ Carries(q[x[1]][x[2]], r)}

LEMMA HeadLeaves ==
  ASSUME NEW q \in Lanes, NEW l \in Priorities, q[l] # <<>>, NEW r
  PROVE  LET t == [q EXCEPT ![l] = Tail(@)]
         IN /\ Holds(q, r) = {} => Holds(t, r) = {}
            /\ Single(Holds(q, r)) => Single(Holds(t, r))
            /\ Single(Holds(q, r)) /\ Carries(Head(q[l]), r) => Holds(t, r) = {}
            /\ Carries(Head(q[l]), r) => Holds(q, r) # {}
<1> DEFINE t == [q EXCEPT ![l] = Tail(@)]
           before(x) == IF x[1] = l THEN <<x[1], x[2] + 1>> ELSE x
<1>1. q[l] \in Seq(Packet) /\ Len(q[l]) \in Nat /\ Len(q[l]) > 0 /\ DOMAIN q = Priorities
  BY LanesHave
<1>2. Tail(q[l]) \in Seq(Packet) /\ Len(Tail(q[l])) = Len(q[l]) - 1
      /\ \A k \in 1..Len(Tail(q[l])) : Tail(q[l])[k] = q[l][k + 1]
  BY <1>1
<1>3. t[l] = Tail(q[l]) /\ \A j \in Priorities : j # l => t[j] = q[j]
  BY <1>1
<1> HIDE DEF t
<1>4. ASSUME NEW x \in Holds(t, r)
      PROVE  before(x) \in Holds(q, r) /\ before(x) # <<l, 1>>
  <2>1. /\ x \in Priorities \X Nat /\ x = <<x[1], x[2]>>
        /\ x[2] \in 1..Len(t[x[1]]) /\ Carries(t[x[1]][x[2]], r)
    BY DEF Holds
  <2>2. CASE x[1] = l
    <3>1. before(x) = <<l, x[2] + 1>>
      BY <2>2
    <3>2. x[2] + 1 \in 1..Len(q[l]) /\ Carries(q[l][x[2] + 1], r) /\ x[2] + 1 # 1
      BY <1>1, <1>2, <1>3, <2>1, <2>2
    <3> QED BY <3>1, <3>2 DEF Holds
  <2>3. CASE x[1] # l
    <3>1. before(x) = x /\ q[x[1]] = t[x[1]]
      BY <1>3, <2>1, <2>3
    <3> QED BY <2>1, <2>3, <3>1 DEF Holds
  <2> QED BY <2>2, <2>3
<1>5. ASSUME NEW x \in Holds(t, r), NEW y \in Holds(t, r), before(x) = before(y)
      PROVE  x = y
  <2>1. x \in Priorities \X Nat /\ y \in Priorities \X Nat
    BY DEF Holds
  <2>2. x[1] = y[1] /\ x[2] = y[2]
    BY <1>5, <2>1
  <2> QED BY <2>1, <2>2
<1>6. ASSUME Carries(Head(q[l]), r)
      PROVE  <<l, 1>> \in Holds(q, r)
  <2>1. Head(q[l]) = q[l][1] /\ 1 \in 1..Len(q[l])
    BY <1>1
  <2> QED BY <1>6, <2>1 DEF Holds
<1> HIDE DEF before
<1>7. Holds(q, r) = {} => Holds(t, r) = {}
  BY <1>4
<1>8. Single(Holds(q, r)) => Single(Holds(t, r))
  BY <1>4, <1>5 DEF Single
<1>9. Single(Holds(q, r)) /\ Carries(Head(q[l]), r) => Holds(t, r) = {}
  BY <1>4, <1>6 DEF Single
<1> QED BY <1>6, <1>7, <1>8, <1>9 DEF t

LEMMA EndHolds ==
  ASSUME NEW q \in Lanes, NEW p \in Packet, NEW r
  PROVE  LET t == [q EXCEPT ![p.prio] = Append(@, p)]
         IN /\ ~Carries(p, r) => Holds(t, r) \subseteq Holds(q, r)
            /\ Holds(q, r) = {} => Single(Holds(t, r))
<1>1. p.prio \in Priorities
  BY DEF Packet
<1> DEFINE l == p.prio
           t == [q EXCEPT ![l] = Append(@, p)]
<1>2. q[l] \in Seq(Packet) /\ Len(q[l]) \in Nat /\ DOMAIN q = Priorities
  BY <1>1, LanesHave
<1>3. /\ Len(Append(q[l], p)) = Len(q[l]) + 1
      /\ Append(q[l], p)[Len(q[l]) + 1] = p
      /\ \A k \in 1..Len(q[l]) : Append(q[l], p)[k] = q[l][k]
  BY <1>2
<1>4. t[l] = Append(q[l], p) /\ \A j \in Priorities : j # l => t[j] = q[j]
  BY <1>1, <1>2
<1> HIDE DEF t
<1>5. ASSUME NEW x \in Holds(t, r)
      PROVE  x \in Holds(q, r) \/ (x = <<l, Len(q[l]) + 1>> /\ Carries(p, r))
  <2>1. /\ x \in Priorities \X Nat /\ x = <<x[1], x[2]>>
        /\ x[2] \in 1..Len(t[x[1]]) /\ Carries(t[x[1]][x[2]], r)
    BY DEF Holds
  <2>2. CASE x[1] = l /\ x[2] = Len(q[l]) + 1
    BY <1>3, <1>4, <2>1, <2>2
  <2>3. CASE x[1] = l /\ x[2] # Len(q[l]) + 1
    <3>1. x[2] \in 1..Len(q[l])
      BY <1>2, <1>3, <1>4, <2>1, <2>3
    <3> QED BY <1>3, <1>4, <2>1, <2>3, <3>1 DEF Holds
  <2>4. CASE x[1] # l
    BY <1>4, <2>1, <2>4 DEF Holds
  <2> QED BY <2>2, <2>3, <2>4
<1> QED BY <1>5 DEF t, Single

(* What enqueue_packet does to a row.                                      *)
LEMMA EnqueueHolds ==
  ASSUME NEW q \in Lanes, NEW p \in Packet, NEW r
  PROVE  LET t == enqueue_packet(q, p, QueueLimit)
         IN /\ ~Carries(p, r) /\ Holds(q, r) = {} => Holds(t, r) = {}
            /\ ~Carries(p, r) /\ Single(Holds(q, r)) => Single(Holds(t, r))
            /\ Holds(q, r) = {} => Single(Holds(t, r))
<1> DEFINE room == IF Length(q) < QueueLimit THEN q ELSE [q EXCEPT ![Lowest(q)] = Tail(@)]
<1>1. /\ room \in Lanes
      /\ Holds(q, r) = {} => Holds(room, r) = {}
      /\ Single(Holds(q, r)) => Single(Holds(room, r))
  <2>1. CASE Length(q) < QueueLimit
    BY <2>1
  <2>2. CASE ~(Length(q) < QueueLimit)
    <3>1. Occupied(q) # {}
      BY <2>2, EmptyHasNoLength, ForwardingAssumption
    <3>2. Lowest(q) \in Priorities /\ q[Lowest(q)] # <<>>
      BY <3>1, OccupiedLanes DEF Occupied
    <3> QED BY <2>2, <3>2, HeadTaken, HeadLeaves
  <2> QED BY <2>1, <2>2
<1> DEFINE full == [room EXCEPT ![p.prio] = Append(@, p)]
<1>2. /\ ~Carries(p, r) => Holds(full, r) \subseteq Holds(room, r)
      /\ Holds(room, r) = {} => Single(Holds(full, r))
  <2> HIDE DEF room
  <2> QED BY <1>1, EndHolds
<1>3. Single({})
  BY DEF Single
<1>4. enqueue_packet(q, p, QueueLimit) \in {full, q}
  BY DEF enqueue_packet
<1> HIDE DEF full, room
<1> QED BY <1>1, <1>2, <1>3, <1>4 DEF Single

LEMMA DequeueHolds ==
  ASSUME NEW q \in Lanes, Occupied(q) # {}, NEW r
  PROVE  LET t == dequeue_packet(q)
         IN /\ Holds(q, r) = {} => Holds(t, r) = {}
            /\ Single(Holds(q, r)) => Single(Holds(t, r))
            /\ Single(Holds(q, r)) /\ Carries(Next_packet(q), r) => Holds(t, r) = {}
            /\ Carries(Next_packet(q), r) => Holds(q, r) # {}
<1>1. Highest(q) \in Priorities /\ q[Highest(q)] # <<>>
  BY OccupiedLanes DEF Occupied
<1> QED BY <1>1, HeadLeaves DEF Next_packet, dequeue_packet

-----------------------------------------------------------------------------
(* The channel and a row.                                                  *)

InQueues(c, r) == {n \in Nodes : Holds(c.queue[n], r) # {}}
OnAir(c, r) == {f \in c.air : Carries(f.frame, r)}

Clear(c, r) == InQueues(c, r) = {} /\ OnAir(c, r) = {}

AtMostOnce(c, r) ==
  /\ \A n \in Nodes : Single(Holds(c.queue[n], r))
  /\ Single(InQueues(c, r)) /\ Single(OnAir(c, r))
  /\ \A f \in OnAir(c, r) : Single(f.to)
  /\ InQueues(c, r) = {} \/ OnAir(c, r) = {}

(* c may become d when a packet of another row is sent.                    *)
Spares(c, d, r) == /\ Clear(c, r) => Clear(d, r)
                   /\ AtMostOnce(c, r) => AtMostOnce(d, r)

LEMMA ClearIsOnce ==
  ASSUME NEW c, NEW r, Clear(c, r)
  PROVE  AtMostOnce(c, r)
BY DEF Clear, AtMostOnce, InQueues, Single

LEMMA AcceptedQueues ==
  ASSUME NEW c, ProperChannel(c), NEW p, Proper(p), NEW heard \in SUBSET Nodes
  PROVE  /\ Accepted(c, p, heard).air = c.air
         /\ \A m \in Nodes : c.queue[m] \in Lanes
         /\ \A m \in Nodes : Accepted(c, p, heard).queue[m] =
              IF m \in heard THEN enqueue_packet(c.queue[m], p, QueueLimit) ELSE c.queue[m]
BY ChannelsHave DEF Accepted, ProperChannel, Channels

LEMMA AcceptedSpares ==
  ASSUME NEW c, ProperChannel(c), NEW p, Proper(p), NEW heard \in SUBSET Nodes, NEW r,
         ~Carries(p, r)
  PROVE  Spares(c, Accepted(c, p, heard), r)
<1> DEFINE d == Accepted(c, p, heard)
<1>1. /\ d.air = c.air /\ \A m \in Nodes : c.queue[m] \in Lanes
      /\ \A m \in Nodes : d.queue[m] =
           IF m \in heard THEN enqueue_packet(c.queue[m], p, QueueLimit) ELSE c.queue[m]
  BY AcceptedQueues
<1> HIDE DEF d
<1>2. ASSUME NEW m \in Nodes
      PROVE  /\ Holds(c.queue[m], r) = {} => Holds(d.queue[m], r) = {}
             /\ Single(Holds(c.queue[m], r)) => Single(Holds(d.queue[m], r))
  BY <1>1, EnqueueHolds DEF Proper
<1>3. InQueues(d, r) \subseteq InQueues(c, r) /\ OnAir(d, r) = OnAir(c, r)
  BY <1>1, <1>2 DEF InQueues, OnAir
<1>4. Clear(c, r) => Clear(d, r)
  BY <1>3 DEF Clear
<1>5. AtMostOnce(c, r) => AtMostOnce(d, r)
  <2>1. Single(InQueues(c, r)) => Single(InQueues(d, r))
    BY <1>3 DEF Single
  <2> QED BY <1>2, <1>3, <2>1 DEF AtMostOnce
<1> QED BY <1>4, <1>5 DEF Spares, d

(* A row that is nowhere is accepted at one node at most.                  *)
LEMMA AcceptedOnce ==
  ASSUME NEW c, ProperChannel(c), NEW p, Proper(p), NEW heard \in SUBSET Nodes, NEW r,
         InQueues(c, r) = {}, Single(heard)
  PROVE  /\ Single(InQueues(Accepted(c, p, heard), r))
         /\ \A n \in Nodes : Single(Holds(Accepted(c, p, heard).queue[n], r))
<1> DEFINE d == Accepted(c, p, heard)
<1>1. /\ \A m \in Nodes : c.queue[m] \in Lanes
      /\ \A m \in Nodes : d.queue[m] =
           IF m \in heard THEN enqueue_packet(c.queue[m], p, QueueLimit) ELSE c.queue[m]
  BY AcceptedQueues
<1> HIDE DEF d
<1>2. \A m \in Nodes : Holds(c.queue[m], r) = {}
  BY DEF InQueues
<1>3. ASSUME NEW m \in Nodes
      PROVE  Single(Holds(d.queue[m], r)) /\ (m \notin heard => Holds(d.queue[m], r) = {})
  <2>1. CASE m \in heard
    BY <1>1, <1>2, <2>1, EnqueueHolds DEF Proper
  <2>2. CASE m \notin heard
    BY <1>1, <1>2, <2>2 DEF Single
  <2> QED BY <2>1, <2>2
<1>4. InQueues(d, r) \subseteq heard
  BY <1>3 DEF InQueues
<1> QED BY <1>3, <1>4 DEF Single, d

LEMMA ScheduleSpares ==
  ASSUME NEW c, ProperChannel(c), NEW p, NEW receivers, NEW r
  PROVE  /\ ~Carries(p, r) => Spares(c, _schedule_radio(c, p, receivers), r)
         /\ Clear(c, r) /\ Single(receivers) => AtMostOnce(_schedule_radio(c, p, receivers), r)
<1> DEFINE f == [to |-> receivers, frame |-> p]
           d == _schedule_radio(c, p, receivers)
<1>1. CASE receivers = {}
  BY <1>1, ClearIsOnce DEF _schedule_radio, Spares
<1>2. CASE receivers # {}
  <2>1. d.queue = c.queue /\ d.air = c.air \union {f} /\ f.frame = p /\ f.to = receivers
    BY <1>2 DEF _schedule_radio, ProperChannel, Channels
  <2> HIDE DEF f, d
  <2>2. InQueues(d, r) = InQueues(c, r)
    BY <2>1 DEF InQueues
  <2>3. ~Carries(p, r) => OnAir(d, r) = OnAir(c, r)
    BY <2>1 DEF OnAir
  <2>4. Clear(c, r) => OnAir(d, r) \subseteq {f}
    BY <2>1 DEF OnAir, Clear
  <2>5. ~Carries(p, r) => Spares(c, d, r)
    BY <2>1, <2>2, <2>3 DEF Spares, Clear, AtMostOnce
  <2>6. Clear(c, r) /\ Single(receivers) => AtMostOnce(d, r)
    <3> SUFFICES ASSUME Clear(c, r), Single(receivers) PROVE AtMostOnce(d, r)
      OBVIOUS
    <3>1. InQueues(d, r) = {} /\ \A n \in Nodes : Holds(d.queue[n], r) = {}
      BY <2>1, <2>2 DEF Clear, InQueues
    <3> QED BY <2>1, <2>4, <3>1 DEF AtMostOnce, Single
  <2> QED BY <2>5, <2>6 DEF d
<1> QED BY <1>1, <1>2

LEMMA BroadcastSpares ==
  ASSUME NEW c, ProperChannel(c), NEW p, Proper(p), NEW n, NEW exclude, NEW r,
         ~Carries(p, r), NEW d \in broadcast(c, n, p, exclude)
  PROVE  Spares(c, d, r)
<1> DEFINE receivers == Near(n) \ exclude
<1>1. receivers \in SUBSET Nodes
  BY DEF Near
<1>2. \/ d = c
      \/ d = _schedule_radio(c, p, receivers)
      \/ \E heard \in SUBSET receivers : d = Accepted(c, p, heard)
  BY DEF broadcast
<1> HIDE DEF receivers
<1>3. Spares(c, c, r)
  BY DEF Spares
<1> QED BY <1>1, <1>2, <1>3, ScheduleSpares, AcceptedSpares

(* One transmission: a row that was nowhere is at one place at most after  *)
(* it, and nowhere when the transmission reports a failure.                *)
LEMMA DeliverOnce ==
  ASSUME NEW c, ProperChannel(c), NEW p, Proper(p), NEW hop \in Nodes, NEW r,
         NEW o \in _deliver(c, p, hop)
  PROVE  /\ ~Carries(p, r) => Spares(c, o.chan, r)
         /\ Clear(c, r) => AtMostOnce(o.chan, r)
         /\ Clear(c, r) /\ ~o.ok => Clear(o.chan, r)
<1>1. \/ o.chan = c
      \/ o.chan = _schedule_radio(c, p, {hop}) /\ o.ok
      \/ o.chan = Accepted(c, p, {hop}) /\ o.ok = Admits(c.queue[hop], p, QueueLimit)
  BY DEF _deliver
<1>2. Single({hop})
  BY DEF Single
<1>3. CASE o.chan = c
  BY <1>3, ClearIsOnce DEF Spares
<1>4. CASE o.chan = _schedule_radio(c, p, {hop}) /\ o.ok
  BY <1>2, <1>4, ScheduleSpares
<1>5. CASE o.chan = Accepted(c, p, {hop}) /\ o.ok = Admits(c.queue[hop], p, QueueLimit)
  <2> DEFINE d == Accepted(c, p, {hop})
  <2>1. /\ d.air = c.air
        /\ \A m \in Nodes : d.queue[m] =
             IF m \in {hop} THEN enqueue_packet(c.queue[m], p, QueueLimit) ELSE c.queue[m]
    BY AcceptedQueues
  <2>2. /\ Clear(c, r) => Single(InQueues(d, r))
        /\ Clear(c, r) => \A n \in Nodes : Single(Holds(d.queue[n], r))
    BY <1>2, AcceptedOnce DEF Clear
  <2>3. ~Carries(p, r) => Spares(c, d, r)
    BY AcceptedSpares
  <2> HIDE DEF d
  <2>4. OnAir(d, r) = OnAir(c, r)
    BY <2>1 DEF OnAir
  <2>5. Clear(c, r) => AtMostOnce(d, r)
    BY <2>2, <2>4 DEF Clear, AtMostOnce, Single
  <2>6. ~o.ok => \A m \in Nodes : d.queue[m] = c.queue[m]
    BY <1>5, <2>1 DEF enqueue_packet
  <2>7. Clear(c, r) /\ ~o.ok => Clear(d, r)
    BY <2>4, <2>6 DEF Clear, InQueues
  <2>8. o.chan = d
    BY <1>5 DEF d
  <2> QED BY <2>3, <2>5, <2>7, <2>8
<1> QED BY <1>1, <1>3, <1>4, <1>5

LEMMA RoutingOnce ==
  ASSUME NEW c, ProperChannel(c), NEW p, Proper(p), p.dest \in Nodes, NEW n \in Nodes, NEW r,
         NEW o \in route_packet(c, n, p)
  PROVE  /\ ~Carries(p, r) => Spares(c, o.chan, r)
         /\ Clear(c, r) => AtMostOnce(o.chan, r)
         /\ Clear(c, r) /\ ~o.ok => Clear(o.chan, r)
<1>1. CASE o.chan = c
  BY <1>1, ClearIsOnce DEF Spares
<1>2. ASSUME NEW hop \in NextHops[n][p.dest], hop # NoNode, o \in _deliver(c, p, hop)
      PROVE  /\ ~Carries(p, r) => Spares(c, o.chan, r)
             /\ Clear(c, r) => AtMostOnce(o.chan, r)
             /\ Clear(c, r) /\ ~o.ok => Clear(o.chan, r)
  <2>1. NextHops[n][p.dest] \in SUBSET (Nodes \union {NoNode})
    <3>1. NextHops[n] \in [Nodes -> SUBSET (Nodes \union {NoNode})]
      BY ForwardingAssumption
    <3> QED BY <3>1
  <2>2. hop \in Nodes
    BY <1>2, <2>1
  <2> QED BY <1>2, <2>2, DeliverOnce
<1> QED BY <1>1, <1>2 DEF route_packet

(* What is left when a node takes a packet.                                *)
LEMMA TakingOnce ==
  ASSUME IInv, Taking, NEW r
  PROVE  /\ Spares(chan, Rest, r)
         /\ AtMostOnce(chan, r) /\ Carries(Current, r) => Clear(Rest, r)
         /\ Carries(Current, r) => ~Clear(chan, r)
<1>1. Here \in Nodes
  BY DEF IInv, TypeOK, Taking, Here
<1>2. chan.queue \in [Nodes -> Lanes] /\ chan.queue[Here] \in Lanes
      /\ Occupied(chan.queue[Here]) # {}
  BY <1>1, ChannelsHave DEF IInv, ProperChannel, Taking
<1> DEFINE left == dequeue_packet(chan.queue[Here])
           d == Rest
<1>3. /\ Holds(chan.queue[Here], r) = {} => Holds(left, r) = {}
      /\ Single(Holds(chan.queue[Here], r)) => Single(Holds(left, r))
      /\ Single(Holds(chan.queue[Here], r)) /\ Carries(Current, r) => Holds(left, r) = {}
      /\ Carries(Current, r) => Holds(chan.queue[Here], r) # {}
  BY <1>2, DequeueHolds DEF Current
<1>4. d = [queue |-> [chan.queue EXCEPT ![Here] = left], air |-> chan.air]
  BY DEF Rest, IInv, ProperChannel, Channels
<1>5. /\ OnAir(d, r) = OnAir(chan, r)
      /\ \A m \in Nodes : d.queue[m] = IF m = Here THEN left ELSE chan.queue[m]
  BY <1>2, <1>4 DEF OnAir
<1> HIDE DEF left, d
<1>6. InQueues(d, r) \subseteq InQueues(chan, r)
  BY <1>3, <1>5 DEF InQueues
<1>7. Spares(chan, d, r)
  <2>1. Clear(chan, r) => Clear(d, r)
    BY <1>5, <1>6 DEF Clear
  <2>2. AtMostOnce(chan, r) => AtMostOnce(d, r)
    <3>1. Single(InQueues(chan, r)) => Single(InQueues(d, r))
      BY <1>6 DEF Single
    <3> QED BY <1>3, <1>5, <1>6, <3>1 DEF AtMostOnce
  <2> QED BY <2>1, <2>2 DEF Spares
<1>8. ASSUME Carries(Current, r)
      PROVE  Here \in InQueues(chan, r)
  BY <1>1, <1>3, <1>8 DEF InQueues
<1>9. ASSUME AtMostOnce(chan, r), Carries(Current, r)
      PROVE  Clear(d, r)
  <2>1. Here \in InQueues(chan, r) /\ InQueues(chan, r) \subseteq {Here}
    BY <1>8, <1>9 DEF AtMostOnce, Single
  <2>2. Holds(left, r) = {}
    BY <1>1, <1>3, <1>9 DEF AtMostOnce
  <2>3. InQueues(d, r) = {}
    BY <1>5, <1>6, <2>1, <2>2 DEF InQueues
  <2>4. OnAir(d, r) = {}
    BY <1>5, <1>9, <2>1 DEF AtMostOnce
  <2> QED BY <2>3, <2>4 DEF Clear
<1> QED BY <1>7, <1>8, <1>9 DEF Clear, d

-----------------------------------------------------------------------------
(* The steps and a row.                                                    *)

CachedAt(r) == {n \in Nodes : r \in cached[n]}

Once(r) ==
  /\ AtMostOnce(chan, r) /\ Single(CachedAt(r)) /\ stored[r] \in {0, 1}
  /\ CachedAt(r) # {} => Clear(chan, r) /\ stored[r] = 0
  /\ ~Clear(chan, r) => stored[r] = 0
  /\ r > rows => CachedAt(r) = {} /\ Clear(chan, r) /\ stored[r] = 0

(* While the caches are flushed, what is still to be sent is still cached. *)
FlushesCached == pass.phase = "flush" => \A x \in pass.todo : x[2] \in cached[x[1]]

RowInv == IInv /\ FlushesCached /\ \A r \in 1..MaxRows : Once(r)

(* A step that spares a row and leaves it in the caches leaves it once.    *)
LEMMA SparedStaysOnce ==
  ASSUME NEW r \in 1..MaxRows, Once(r), Spares(chan, chan', r),
         \A n \in Nodes : r \in cached'[n] <=> r \in cached[n],
         stored'[r] = stored[r], rows' = rows \/ (rows' = rows + 1 /\ rows \in Nat)
  PROVE  Once(r)'
<1>1. CachedAt(r)' = CachedAt(r)
  BY DEF CachedAt
<1>2. r > rows' => r > rows
  <2>1. r \in Nat
    BY ForwardingAssumption
  <2> QED BY <2>1
<1> QED BY <1>1, <1>2 DEF Once, Spares

LEMMA InitOnce == Init => RowInv
<1> SUFFICES ASSUME Init PROVE RowInv
  OBVIOUS
<1>1. IInv
  BY InitProper
<1>2. FlushesCached
  BY DEF Init, Idle, FlushesCached
<1>3. ASSUME NEW r \in 1..MaxRows
      PROVE  Once(r)
  <2>1. \A n \in Nodes : Holds(chan.queue[n], r) = {}
    <3>1. chan.queue = [n \in Nodes |-> [l \in Priorities |-> <<>>]] /\ chan.air = {}
      BY DEF Init
    <3>2. \A n \in Nodes, l \in Priorities : Len(chan.queue[n][l]) = 0
      BY <3>1
    <3>3. 1..0 = {}
      OBVIOUS
    <3> QED BY <3>2, <3>3 DEF Holds
  <2>2. Clear(chan, r)
    <3>1. chan.air = {}
      BY DEF Init
    <3> QED BY <2>1, <3>1 DEF Clear, InQueues, OnAir
  <2>3. CachedAt(r) = {} /\ stored[r] = 0
    BY DEF Init, CachedAt
  <2> QED BY <2>2, <2>3, ClearIsOnce DEF Once, Single
<1> QED BY <1>1, <1>2, <1>3 DEF RowInv

LEMMA SparesAll ==
  ASSUME NEW c, NEW d, NEW e, NEW r, Spares(c, d, r), Spares(d, e, r)
  PROVE  Spares(c, e, r)
BY DEF Spares

LEMMA InjectionOnce ==
  ASSUME RowInv, NEW n \in Origins, NEW ttl \in Severities, inject_fault(n, ttl)
  PROVE  FlushesCached' /\ \A r \in 1..MaxRows : Once(r)'
<1> DEFINE alert == create_packet("alert", n, number[n] + 1, NoNode, Fault, ttl, <<>>)
           coord == create_packet("coord", n, number[n] + 2, NoNode, Control, ttl, <<>>)
<1>1. n \in Nodes /\ number[n] + 1 \in Nat /\ number[n] + 2 \in Nat
  <2>1. n \in Nodes
    BY ForwardingAssumption
  <2>2. number[n] \in Nat
    BY <2>1 DEF RowInv, IInv, TypeOK
  <2> QED BY <2>1, <2>2
<1>2. Fault \in Priorities /\ Control \in Priorities
  BY DEF Fault, Control, Priorities, Telemetry
<1>3. Proper(alert) /\ alert.dest = NoNode
  BY <1>1, <1>2, FloodedIsProper
<1>4. Proper(coord)
  BY <1>1, <1>2, FloodedIsProper
<1>5. PICK c \in broadcast(chan, n, alert, {}) : chan' \in broadcast(c, n, coord, {})
  BY DEF inject_fault
<1>6. \A r : ~Carries(alert, r) /\ ~Carries(coord, r)
  BY DEF Carries, create_packet
<1> HIDE DEF alert, coord
<1>7. ProperChannel(chan) /\ ProperChannel(c)
  BY <1>3, <1>5, BroadcastIsProper DEF RowInv, IInv
<1>8. \A r : Spares(chan, c, r) /\ Spares(c, chan', r)
  BY <1>3, <1>4, <1>5, <1>6, <1>7, BroadcastSpares
<1>9. \A r : Spares(chan, chan', r)
  BY <1>8, SparesAll
<1>10. UNCHANGED <<rows, cached, pass, stored>>
  BY DEF inject_fault
<1> QED BY <1>9, <1>10, SparedStaysOnce DEF RowInv, FlushesCached

(* The steps that move no packet and no row.                               *)
LEMMA StillOnce ==
  ASSUME RowInv, UNCHANGED <<chan, rows, cached, stored>>
  PROVE  \A r \in 1..MaxRows : Once(r)'
<1>1. \A r : Spares(chan, chan', r)
  BY DEF Spares
<1> QED BY <1>1, SparedStaysOnce DEF RowInv

LEMMA SendingOnce ==
  ASSUME RowInv, NEW n \in Nodes, _send_telemetry(n)
  PROVE  FlushesCached' /\ \A r \in 1..MaxRows : Once(r)'
<1>t. IInv /\ TypeOK /\ ProperChannel(chan) /\ pass.phase = "idle" /\ pass' = pass
  BY DEF RowInv, IInv, _send_telemetry
<1>1. PICK row \in 1..MaxRows : rows' = row /\ row = rows + 1 /\ rows \in Nat
  <2>1. rows + 1 \in 1..MaxRows /\ rows' = rows + 1 /\ rows \in Nat
    BY <1>t, ForwardingAssumption DEF _send_telemetry, TypeOK
  <2> QED BY <2>1
<1> DEFINE p == Reading(n, row)
<1>2. FlushesCached'
  BY <1>t DEF FlushesCached
<1>3. Proper(p) /\ p.dest \in Nodes
  BY <1>t, <1>1, ReadingIsProper, ForwardingAssumption
<1>4. \A r : Carries(p, r) <=> r = row
  BY DEF Carries, Reading, create_packet
<1> HIDE DEF p
<1>5. /\ cached \in [Nodes -> SUBSET (1..MaxRows)] /\ stored \in [1..MaxRows -> Nat]
      /\ row > rows
  BY <1>t, <1>1 DEF TypeOK
<1>6. Clear(chan, row) /\ CachedAt(row) = {} /\ stored[row] = 0
  BY <1>1, <1>5 DEF RowInv, Once
<1>7. \A m \in Nodes : row \notin cached[m]
  BY <1>6 DEF CachedAt
<1>8. rows' = rows + 1
  BY <1>1
<1>a. CASE ~online \/ ~up[Gateway]
  <2>1. cached' = [cached EXCEPT ![n] = @ \union {row}] /\ UNCHANGED <<chan, stored>>
    BY <1>a, <1>1 DEF _send_telemetry
  <2>2. ASSUME NEW r \in 1..MaxRows, r # row PROVE Once(r)'
    <3>1. \A m \in Nodes : r \in cached'[m] <=> r \in cached[m]
      BY <1>5, <2>1, <2>2
    <3>2. Spares(chan, chan', r) /\ Once(r)
      BY <2>1 DEF Spares, RowInv
    <3> QED BY <1>1, <1>8, <2>1, <3>1, <3>2, SparedStaysOnce
  <2>3. Once(row)'
    <3>1. CachedAt(row)' = {n}
      BY <1>5, <1>7, <2>1 DEF CachedAt
    <3>2. ~(row > rows')
      BY <1>1
    <3> QED BY <1>6, <2>1, <3>1, <3>2, ClearIsOnce DEF Once, Single
  <2> QED BY <1>2, <2>2, <2>3
<1>b. CASE ~(~online \/ ~up[Gateway]) /\ n = Gateway
  <2>1. stored' = [stored EXCEPT ![row] = @ + 1] /\ UNCHANGED <<chan, cached>>
    BY <1>b, <1>1 DEF _send_telemetry
  <2>2. ASSUME NEW r \in 1..MaxRows, r # row PROVE Once(r)'
    <3>1. stored'[r] = stored[r]
      BY <1>5, <2>1, <2>2
    <3>2. Spares(chan, chan', r) /\ Once(r)
      BY <2>1 DEF Spares, RowInv
    <3> QED BY <1>1, <1>8, <2>1, <3>1, <3>2, SparedStaysOnce
  <2>3. Once(row)'
    <3>1. stored'[row] = 1 /\ CachedAt(row)' = {}
      BY <1>1, <1>5, <1>6, <2>1 DEF CachedAt
    <3>2. ~(row > rows')
      BY <1>1
    <3> QED BY <1>6, <2>1, <3>1, <3>2, ClearIsOnce DEF Once, Single
  <2> QED BY <1>2, <2>2, <2>3
<1>c. CASE ~(~online \/ ~up[Gateway]) /\ n # Gateway
  <2>1. PICK o \in route_packet(chan, n, p) :
          /\ chan' = o.chan
          /\ cached' = IF o.ok THEN cached ELSE [cached EXCEPT ![n] = @ \union {row}]
          /\ UNCHANGED stored
    BY <1>c, <1>1 DEF _send_telemetry, p
  <2>2. ASSUME NEW r \in 1..MaxRows, r # row PROVE Once(r)'
    <3>1. \A m \in Nodes : r \in cached'[m] <=> r \in cached[m]
      BY <1>5, <2>1, <2>2
    <3>2. Spares(chan, chan', r) /\ Once(r)
      BY <1>t, <1>3, <1>4, <2>1, <2>2, RoutingOnce DEF RowInv
    <3> QED BY <1>1, <1>8, <2>1, <3>1, <3>2, SparedStaysOnce
  <2>3. AtMostOnce(chan', row) /\ (~o.ok => Clear(chan', row))
    BY <1>t, <1>3, <1>6, <2>1, RoutingOnce
  <2>4. Once(row)'
    <3>1. CachedAt(row)' = IF o.ok THEN {} ELSE {n}
      BY <1>5, <1>7, <2>1 DEF CachedAt
    <3>2. ~(row > rows')
      BY <1>1
    <3> QED BY <1>6, <2>1, <2>3, <3>1, <3>2 DEF Once, Single
  <2> QED BY <1>2, <2>2, <2>4
<1> QED BY <1>a, <1>b, <1>c

LEMMA FlushOnce ==
  ASSUME RowInv, NEW n \in Nodes, NEW row \in 1..MaxRows, Flush(n, row)
  PROVE  FlushesCached' /\ \A r \in 1..MaxRows : Once(r)'
<1> DEFINE p == Reading(n, row)
<1>t. IInv /\ TypeOK /\ ProperChannel(chan) /\ FlushesCached
  BY DEF RowInv, IInv
<1>1. PICK o \in route_packet(chan, n, p) :
        /\ chan' = o.chan
        /\ cached' = IF o.ok THEN [cached EXCEPT ![n] = @ \ {row}] ELSE cached
  BY DEF Flush
<1>2. /\ pass.phase = "flush" /\ <<n, row>> \in pass.todo
      /\ pass' = [pass EXCEPT !.todo = @ \ {<<n, row>>}]
      /\ UNCHANGED <<rows, stored>>
  BY DEF Flush, history
<1>3. Proper(p) /\ p.dest \in Nodes
  BY <1>t, ReadingIsProper, ForwardingAssumption
<1>4. \A r : Carries(p, r) <=> r = row
  BY DEF Carries, Reading, create_packet
<1> HIDE DEF p
<1>5. cached \in [Nodes -> SUBSET (1..MaxRows)] /\ pass \in Pass
  BY <1>t DEF TypeOK
<1>6. pass'.todo = pass.todo \ {<<n, row>>}
  BY <1>2, <1>5 DEF Pass
<1>7. row \in cached[n]
  BY <1>2, <1>t DEF FlushesCached
<1>8. Clear(chan, row) /\ stored[row] = 0 /\ CachedAt(row) = {n} /\ ~(row > rows)
  BY <1>7 DEF RowInv, Once, CachedAt, Single
<1>9. FlushesCached'
  <2> SUFFICES ASSUME NEW x \in pass'.todo PROVE x[2] \in cached'[x[1]]
    BY DEF FlushesCached
  <2>1. x \in Nodes \X (1..MaxRows) /\ x[2] \in cached[x[1]] /\ x # <<n, row>>
    BY <1>2, <1>5, <1>6, <1>t DEF FlushesCached, Pass
  <2>2. ~(x[1] = n /\ x[2] = row)
    BY <2>1
  <2> QED BY <1>1, <1>5, <2>1, <2>2
<1>10. ASSUME NEW r \in 1..MaxRows, r # row PROVE Once(r)'
  <2>1. \A m \in Nodes : r \in cached'[m] <=> r \in cached[m]
    BY <1>1, <1>5, <1>10
  <2>2. Spares(chan, chan', r) /\ Once(r)
    BY <1>t, <1>1, <1>3, <1>4, <1>10, RoutingOnce DEF RowInv
  <2> QED BY <1>2, <2>1, <2>2, SparedStaysOnce
<1>11. Once(row)'
  <2>1. AtMostOnce(chan', row) /\ (~o.ok => Clear(chan', row))
    BY <1>t, <1>1, <1>3, <1>8, RoutingOnce
  <2>2. CachedAt(row)' = IF o.ok THEN {} ELSE {n}
    <3>1. \A m \in Nodes : row \in cached[m] <=> m = n
      BY <1>8 DEF CachedAt
    <3>2. \A m \in Nodes : row \in cached'[m] <=> (m = n /\ ~o.ok)
      BY <1>1, <1>5, <3>1
    <3> QED BY <3>2 DEF CachedAt
  <2> QED BY <1>2, <1>8, <2>1, <2>2 DEF Once, Single
<1> QED BY <1>9, <1>10, <1>11

LEMMA LandingOnce ==
  ASSUME RowInv, NEW f \in chan.air, Land(f)
  PROVE  FlushesCached' /\ \A r \in 1..MaxRows : Once(r)'
<1>t. IInv /\ ProperChannel(chan)
  BY DEF RowInv, IInv
<1>1. f \in Frame /\ Proper(f.frame) /\ f.to \in SUBSET Nodes
  <2>1. f \in Frame /\ Proper(f.frame)
    BY <1>t, ChannelsHave DEF ProperChannel, ProperAir
  <2> QED BY <2>1 DEF Frame
<1>2. PICK heard \in SUBSET f.to :
        chan' = [Accepted(chan, f.frame, heard) EXCEPT !.air = @ \ {f}]
  BY DEF Land
<1>3. UNCHANGED <<rows, cached, pass, stored>>
  BY DEF Land, history
<1> DEFINE c == Accepted(chan, f.frame, heard)
<1>4. c \in Channels /\ c.air = chan.air
  <2>1. heard \in SUBSET Nodes
    BY <1>1
  <2>2. \A m \in f.to : New(f.frame, m)
    BY <1>t DEF ProperChannel, ProperAir
  <2>3. ProperChannel(c)
    BY <1>t, <1>1, <2>1, <2>2, AcceptedIsProper
  <2> QED BY <1>t, <1>1, <2>1, <2>3, AcceptedQueues DEF ProperChannel
<1>5. chan'.queue = c.queue /\ chan'.air = chan.air \ {f}
  BY <1>2, <1>4 DEF Channels
<1>6. \A r : InQueues(chan', r) = InQueues(c, r) /\ OnAir(chan', r) = OnAir(chan, r) \ {f}
  BY <1>5 DEF InQueues, OnAir
<1>7. ASSUME NEW r \in 1..MaxRows PROVE Once(r)'
  <2>1. CASE ~Carries(f.frame, r)
    <3>1. Spares(chan, c, r)
      BY <1>t, <1>1, <2>1, AcceptedSpares
    <3>2. OnAir(chan', r) = OnAir(chan, r) /\ OnAir(c, r) = OnAir(chan, r)
      BY <1>4, <1>6, <2>1 DEF OnAir
    <3> HIDE DEF c
    <3>3. Spares(c, chan', r)
      BY <1>5, <1>6, <3>2 DEF Spares, Clear, AtMostOnce
    <3>4. Spares(chan, chan', r)
      BY <3>1, <3>3, SparesAll
    <3> QED BY <1>3, <3>4, SparedStaysOnce DEF RowInv
  <2>2. CASE Carries(f.frame, r)
    <3>1. f \in OnAir(chan, r) /\ Once(r)
      BY <2>2 DEF OnAir, RowInv
    <3>2. OnAir(chan, r) = {f} /\ InQueues(chan, r) = {} /\ Single(f.to) /\ ~Clear(chan, r)
      BY <3>1 DEF Once, AtMostOnce, Single, Clear
    <3>3. Single(heard) /\ heard \in SUBSET Nodes
      BY <1>1, <3>2 DEF Single
    <3>4. Single(InQueues(c, r)) /\ \A n \in Nodes : Single(Holds(c.queue[n], r))
      BY <1>t, <1>1, <3>2, <3>3, AcceptedOnce
    <3> HIDE DEF c
    <3>5. AtMostOnce(chan', r)
      BY <1>5, <1>6, <3>2, <3>4 DEF AtMostOnce, Single
    <3>6. CachedAt(r)' = {} /\ stored'[r] = 0 /\ ~(r > rows')
      BY <1>3, <3>1, <3>2 DEF Once, CachedAt
    <3> QED BY <3>5, <3>6 DEF Once, Single
  <2> QED BY <2>1, <2>2
<1> QED BY <1>3, <1>7 DEF RowInv, FlushesCached

(* A node that takes a packet sends it on, delivers it, or drops it; the   *)
(* packets it makes of its own carry no row.                               *)
LEMMA ReceivingOnce ==
  ASSUME RowInv, receive_packet
  PROVE  FlushesCached' /\ \A r \in 1..MaxRows : Once(r)'
<1>0. Taking
  BY DEF receive_packet, ReceiveDuplicate, ReceiveAlert, ReceiveFinal, ReceiveRelay, ReceiveOneHop,
         TakingFresh
<1>t. IInv /\ TypeOK /\ ProperChannel(chan)
  BY DEF RowInv, IInv
<1>1. /\ Here \in Nodes /\ Proper(Current) /\ New(Current, Here) /\ ProperChannel(Rest)
      /\ pass'.phase = pass.phase /\ pass.phase = "pass"
  BY <1>0, <1>t, TakenIsProper DEF Taking
<1>2. UNCHANGED <<rows, cached>>
  BY DEF receive_packet, ReceiveDuplicate, ReceiveAlert, ReceiveFinal, ReceiveRelay, ReceiveOneHop
<1>3. FlushesCached'
  BY <1>1 DEF FlushesCached
<1>4. ASSUME NEW r \in 1..MaxRows
      PROVE  /\ Once(r) /\ Spares(chan, Rest, r)
             /\ Carries(Current, r) => Clear(Rest, r) /\ ~Clear(chan, r)
  BY <1>0, <1>t, TakingOnce DEF RowInv, Once
<1>5. CASE ReceiveDuplicate \/ ReceiveOneHop
  <2>1. chan' = Rest /\ stored' = stored
    BY <1>5 DEF ReceiveDuplicate, ReceiveOneHop, history
  <2> QED BY <1>2, <1>3, <1>4, <2>1, SparedStaysOnce
<1>6. CASE ReceiveAlert
  <2> DEFINE ack == create_packet("ack", Here, number[Here] + 1, Current.origin, Control,
                                  MaxHops, identity(Current))
  <2>1. Current \in Packet /\ Current.kind = "alert" /\ Current.dest = NoNode
    BY <1>1, <1>6 DEF ReceiveAlert, Proper, Addressed
  <2>2. Proper(ack) /\ ack.dest \in Nodes
    <3>1. /\ Current.origin \in Nodes /\ Current.origin # NoNode
          /\ MaxHops \in Nat /\ Control \in Priorities /\ "ack" \in Kinds
      BY <2>1, ForwardingAssumption
         DEF Packet, Control, Priorities, Telemetry, Fault, Kinds, NoNode
    <3>2. number[Here] + 1 \in Nat
      <4>1. number[Here] \in Nat
        BY <1>1, <1>t DEF TypeOK
      <4> QED BY <4>1
    <3> QED BY <1>1, <2>1, <3>1, <3>2, IdentitiesAreAlerts, CreatedIsProper
  <2>3. \A r : ~Carries(ack, r) /\ ~Carries(Current, r)
    BY <2>1 DEF Carries, create_packet
  <2>4. PICK o \in (IF Current.origin = Here THEN {[chan |-> Rest, ok |-> TRUE]}
                    ELSE route_packet(Rest, Here, ack)) : chan' \in FloodOn(o.chan)
    BY <1>6 DEF ReceiveAlert
  <2>5. stored' = stored
    BY <1>6 DEF ReceiveAlert
  <2> HIDE DEF ack
  <2>6. ProperChannel(o.chan) /\ \A r : Spares(Rest, o.chan, r)
    <3>1. CASE o.chan = Rest
      BY <1>1, <3>1 DEF Spares
    <3>2. CASE o \in route_packet(Rest, Here, ack)
      BY <1>1, <2>2, <2>3, <3>2, RoutingIsProper, RoutingOnce
    <3> QED BY <2>4, <3>1, <3>2
  <2>7. \A r : Spares(o.chan, chan', r)
    <3>1. CASE Forwardable(Current)
      <4>1. Proper(forwarded(Current, Here))
        BY <1>1, <3>1, ForwardedIsProper
      <4>2. \A r : ~Carries(forwarded(Current, Here), r)
        BY <2>1 DEF Carries, forwarded, Packet
      <4>3. chan' \in broadcast(o.chan, Here, forwarded(Current, Here), {Current.source})
        BY <2>4, <3>1 DEF FloodOn
      <4> QED BY <2>6, <4>1, <4>2, <4>3, BroadcastSpares
    <3>2. CASE ~Forwardable(Current)
      BY <2>4, <3>2 DEF FloodOn, Spares
    <3> QED BY <3>1, <3>2
  <2>8. \A r \in 1..MaxRows : Spares(chan, chan', r)
    BY <1>4, <2>6, <2>7, SparesAll
  <2> QED BY <1>2, <1>3, <1>4, <2>5, <2>8, SparedStaysOnce
<1>7. CASE ReceiveFinal
  <2>1. /\ chan' = Rest
        /\ stored' = IF Current.kind = "data"
                     THEN [stored EXCEPT ![Current.about] = @ + 1] ELSE stored
    BY <1>7 DEF ReceiveFinal
  <2>2. ASSUME NEW r \in 1..MaxRows, ~Carries(Current, r) PROVE Once(r)'
    <3>1. stored'[r] = stored[r]
      BY <1>t, <2>1, <2>2 DEF Carries, TypeOK
    <3> QED BY <1>2, <1>4, <2>1, <3>1, SparedStaysOnce
  <2>3. ASSUME NEW r \in 1..MaxRows, Carries(Current, r) PROVE Once(r)'
    <3>1. stored'[r] = stored[r] + 1
      BY <1>t, <2>1, <2>3 DEF Carries, TypeOK
    <3>2. stored[r] = 0 /\ CachedAt(r) = {} /\ ~(r > rows)
      BY <1>4, <2>3 DEF Once
    <3>3. stored'[r] = 1 /\ CachedAt(r)' = {} /\ ~(r > rows') /\ Clear(chan', r)
      BY <1>2, <1>4, <2>1, <2>3, <3>1, <3>2 DEF CachedAt
    <3> QED BY <3>3, ClearIsOnce DEF Once, Single
  <2> QED BY <1>3, <2>2, <2>3
<1>8. CASE ReceiveRelay
  <2> DEFINE p == forwarded(Current, Here)
  <2>1. Current.dest \in Nodes /\ Current \in Packet
    BY <1>1, <1>8 DEF ReceiveRelay, Proper, Packet
  <2>2. stored' = stored
    BY <1>8 DEF ReceiveRelay, history
  <2>3. CASE ~Forwardable(Current)
    <3>1. chan' = Rest
      BY <1>8, <2>3 DEF ReceiveRelay
    <3> QED BY <1>2, <1>3, <1>4, <2>2, <3>1, SparedStaysOnce
  <2>4. CASE Forwardable(Current)
    <3>1. PICK o \in route_packet(Rest, Here, p) : chan' = o.chan
      BY <1>8, <2>4 DEF ReceiveRelay
    <3>2. Proper(p) /\ p.dest \in Nodes
      BY <1>1, <2>1, <2>4, ForwardedIsProper
    <3>3. \A r : Carries(p, r) <=> Carries(Current, r)
      BY <2>1 DEF Carries, forwarded, Packet
    <3> HIDE DEF p
    <3>4. ASSUME NEW r \in 1..MaxRows, ~Carries(Current, r) PROVE Once(r)'
      <4>1. Spares(Rest, chan', r)
        BY <1>1, <3>1, <3>2, <3>3, <3>4, RoutingOnce
      <4>2. Spares(chan, chan', r)
        BY <1>4, <4>1, SparesAll
      <4> QED BY <1>2, <1>4, <2>2, <4>2, SparedStaysOnce
    <3>5. ASSUME NEW r \in 1..MaxRows, Carries(Current, r) PROVE Once(r)'
      <4>1. AtMostOnce(chan', r)
        BY <1>1, <1>4, <3>1, <3>2, <3>5, RoutingOnce
      <4>2. stored[r] = 0 /\ CachedAt(r) = {} /\ ~(r > rows)
        BY <1>4, <3>5 DEF Once
      <4>3. stored'[r] = 0 /\ CachedAt(r)' = {} /\ ~(r > rows')
        BY <1>2, <2>2, <4>2 DEF CachedAt
      <4> QED BY <4>1, <4>3 DEF Once, Single
    <3> QED BY <1>3, <3>4, <3>5
  <2> QED BY <2>3, <2>4
<1> QED BY <1>5, <1>6, <1>7, <1>8 DEF receive_packet

LEMMA NextOnce == RowInv /\ [Next]_vars => RowInv'
<1> SUFFICES ASSUME RowInv, [Next]_vars
             PROVE  FlushesCached' /\ \A r \in 1..MaxRows : Once(r)'
  BY NextProper DEF RowInv
<1>1. ASSUME NEW n \in Origins, NEW ttl \in Severities, inject_fault(n, ttl)
      PROVE  FlushesCached' /\ \A r \in 1..MaxRows : Once(r)'
  BY <1>1, InjectionOnce
<1>2. ASSUME NEW n \in Nodes, Switch(n)
      PROVE  FlushesCached' /\ \A r \in 1..MaxRows : Once(r)'
  <2>1. UNCHANGED <<chan, rows, cached, stored, pass>>
    BY <1>2 DEF Switch, history
  <2> QED BY <2>1, StillOnce DEF RowInv, FlushesCached
<1>3. ASSUME NEW n \in Nodes, _send_telemetry(n)
      PROVE  FlushesCached' /\ \A r \in 1..MaxRows : Once(r)'
  BY <1>3, SendingOnce
<1>4. ASSUME NEW to \in BOOLEAN, set_gateway(to)
      PROVE  FlushesCached' /\ \A r \in 1..MaxRows : Once(r)'
  <2>1. UNCHANGED <<chan, rows, cached, stored>>
    BY <1>4 DEF set_gateway, history
  <2>2. FlushesCached'
    <3>1. CASE to
      <4>1. pass'.todo = UNION {{n} \X cached[n] : n \in Nodes \ {Gateway}}
        BY <1>4, <3>1 DEF set_gateway, Idle
      <4>2. \A x \in pass'.todo : x[2] \in cached[x[1]]
        BY <4>1
      <4> QED BY <2>1, <4>2 DEF FlushesCached
    <3>2. CASE ~to
      BY <1>4, <2>1, <3>2 DEF set_gateway, FlushesCached
    <3> QED BY <3>1, <3>2
  <2> QED BY <2>1, <2>2, StillOnce
<1>5. CASE process_queues \/ NextNode
  <2>1. UNCHANGED <<chan, rows, cached, stored>>
    BY <1>5 DEF process_queues, NextNode, history
  <2>2. pass'.phase # "flush"
    <3>1. pass \in Pass
      BY DEF RowInv, IInv, TypeOK
    <3>2. CASE process_queues
      BY <3>2 DEF process_queues, Idle
    <3>3. CASE NextNode
      <4>1. CASE Later(pass.at) = {}
        BY <3>3, <4>1 DEF NextNode, Idle
      <4>2. CASE Later(pass.at) # {}
        <5>1. pass' = [pass EXCEPT !.at = First(Later(pass.at)), !.burst = Burst]
          BY <3>3, <4>2 DEF NextNode
        <5>2. pass.phase = "pass"
          BY <3>3 DEF NextNode
        <5>3. pass'.phase = pass.phase
          BY <3>1, <5>1 DEF Pass
        <5> QED BY <5>2, <5>3
      <4> QED BY <4>1, <4>2
    <3> QED BY <1>5, <3>2, <3>3
  <2> QED BY <2>1, <2>2, StillOnce DEF FlushesCached
<1>6. CASE receive_packet
  BY <1>6, ReceivingOnce
<1>7. CASE EndFlush
  <2>1. UNCHANGED <<chan, rows, cached, stored>> /\ pass'.phase = "idle"
    BY <1>7 DEF EndFlush, history, Idle
  <2> QED BY <2>1, StillOnce DEF FlushesCached
<1>8. ASSUME NEW n \in Nodes, NEW row \in 1..MaxRows, Flush(n, row)
      PROVE  FlushesCached' /\ \A r \in 1..MaxRows : Once(r)'
  BY <1>8, FlushOnce
<1>9. CASE Landing
  BY <1>9, LandingOnce DEF Landing
<1>10. CASE UNCHANGED vars
  <2>1. UNCHANGED <<chan, rows, cached, stored, pass>>
    BY <1>10 DEF vars, history
  <2> QED BY <2>1, StillOnce DEF RowInv, FlushesCached
<1> QED BY <1>1, <1>2, <1>3, <1>4, <1>5, <1>6, <1>7, <1>8, <1>9, <1>10
        DEF Next, Environment, Passing, Flushing

LEMMA SingleCounts ==
  ASSUME NEW S, Single(S)
  PROVE  Cardinality(S) = IF S = {} THEN 0 ELSE 1
<1>1. CASE S = {}
  BY <1>1, FS_EmptySet
<1>2. CASE S # {}
  <2>1. PICK x \in S : S = {x}
    BY <1>2 DEF Single
  <2> QED BY <1>2, <2>1, FS_Singleton
<1> QED BY <1>1, <1>2

(* A row measured once is stored once at most, although it is cached while *)
(* the gateway is away, sent again from the caches, relayed, lost, evicted *)
(* and landed late (simulator.py, _send_telemetry, set_gateway and         *)
(* _flush_cached_gateway_telemetry): for every mesh, queue and cache.      *)
THEOREM RowsStaySingle == Spec => []RowsAreNotDuplicated
<1>1. ASSUME RowInv, NEW r \in 1..MaxRows
      PROVE  Cardinality({n \in Nodes : r \in cached[n]})
               + Cardinality({p \in InFlight : p.kind = "data" /\ p.about = r})
               + stored[r] <= 1
  <2> DEFINE B == {p \in InFlight : p.kind = "data" /\ p.about = r}
  <2>1. Once(r) /\ ProperChannel(chan)
    BY <1>1 DEF RowInv, IInv
  <2>2. ASSUME NEW p \in B
        PROVE  \/ \E n \in InQueues(chan, r) : \E x \in Holds(chan.queue[n], r) :
                    p = chan.queue[n][x[1]][x[2]]
               \/ \E f \in OnAir(chan, r) : p = f.frame
    <3>1. Carries(p, r) /\ p \in InFlight
      BY DEF Carries
    <3>2. CASE p \in {f.frame : f \in chan.air}
      BY <3>1, <3>2 DEF OnAir
    <3>3. CASE p \in Queued
      <4>1. PICK n \in Nodes, l \in Priorities :
              \E k \in 1..Len(chan.queue[n][l]) : p = chan.queue[n][l][k]
        BY <3>3 DEF Queued
      <4>2. PICK k \in 1..Len(chan.queue[n][l]) : p = chan.queue[n][l][k]
        BY <4>1
      <4>3. k \in Nat
        BY <2>1, LanesHave, ChannelsHave DEF ProperChannel
      <4>4. <<l, k>> \in Holds(chan.queue[n], r)
        BY <3>1, <4>2, <4>3 DEF Holds
      <4>5. n \in InQueues(chan, r)
        BY <4>4 DEF InQueues
      <4>6. PICK x \in Holds(chan.queue[n], r) : x[1] = l /\ x[2] = k
        BY <4>4
      <4>7. p = chan.queue[n][x[1]][x[2]]
        BY <4>2, <4>6
      <4> HIDE DEF B
      <4> QED BY <4>5, <4>6, <4>7
    <3> QED BY <3>1, <3>2, <3>3 DEF InFlight
  <2>3. Single(B)
    <3> SUFFICES ASSUME NEW p \in B, NEW q \in B PROVE p = q
      BY DEF Single
    <3>1. AtMostOnce(chan, r)
      BY <2>1 DEF Once
    <3> HIDE DEF B
    <3>2. CASE InQueues(chan, r) = {}
      <4>1. /\ \E f \in OnAir(chan, r) : p = f.frame
            /\ \E f \in OnAir(chan, r) : q = f.frame
        BY <2>2, <3>2
      <4> QED BY <3>1, <4>1 DEF AtMostOnce, Single
    <3>3. CASE OnAir(chan, r) = {}
      <4>1. PICK n \in InQueues(chan, r) : \E x \in Holds(chan.queue[n], r) :
                p = chan.queue[n][x[1]][x[2]]
        BY <2>2, <3>3
      <4>2. PICK m \in InQueues(chan, r) : \E x \in Holds(chan.queue[m], r) :
                q = chan.queue[m][x[1]][x[2]]
        BY <2>2, <3>3
      <4>3. m = n /\ n \in Nodes
        BY <3>1 DEF AtMostOnce, Single, InQueues
      <4>4. Single(Holds(chan.queue[n], r))
        BY <3>1, <4>3 DEF AtMostOnce
      <4> QED BY <4>1, <4>2, <4>3, <4>4 DEF Single
    <3> QED BY <3>1, <3>2, <3>3 DEF AtMostOnce
  <2>4. B # {} => ~Clear(chan, r)
    BY <2>2 DEF Clear
  <2>5. Cardinality(B) = IF B = {} THEN 0 ELSE 1
    BY <2>3, SingleCounts
  <2> HIDE DEF B
  <2>6. Cardinality(CachedAt(r)) = IF CachedAt(r) = {} THEN 0 ELSE 1
    BY <2>1, SingleCounts DEF Once
  <2>7. Cardinality(CachedAt(r)) + Cardinality(B) + stored[r] <= 1
    BY <2>1, <2>4, <2>5, <2>6 DEF Once
  <2> QED BY <2>7 DEF CachedAt, B
<1>2. RowInv => RowsAreNotDuplicated
  BY <1>1 DEF RowsAreNotDuplicated
<1> QED
  BY <1>2, InitOnce, NextOnce, PTL DEF Spec
-----------------------------------------------------------------------------
(* The duplicate caches: while they have room for every packet there is,   *)
(* they forget none.                                                       *)

Distinct(c) == \A i, j \in 1..Len(c) : c[i] = c[j] => i = j

LEMMA DistinctFits ==
  ASSUME NEW K, IsFiniteSet(K), NEW c \in Seq(K), Distinct(c)
  PROVE  Len(c) <= Cardinality(K)
<1>1. Len(c) \in Nat /\ \A i \in 1..Len(c) : c[i] \in K
  BY LenProperties
<1> DEFINE f == [i \in 1..Len(c) |-> c[i]]
<1>2. f \in Injection(1..Len(c), K)
  BY <1>1 DEF Injection, IsInjective, Distinct
<1>3. Cardinality(1..Len(c)) <= Cardinality(K)
  BY <1>2, FS_Injection
<1> QED BY <1>1, <1>3, FS_Interval

(* A key the cache does not hold is added to it.                           *)
LEMMA NewKeyKept ==
  ASSUME NEW K, IsFiniteSet(K), NEW size \in Nat, Cardinality(K) <= size,
         NEW c \in Seq(K), Distinct(c), NEW key \in K, ~Seen(c, key)
  PROVE  LET d == Remember(c, key, size)
         IN d \in Seq(K) /\ Distinct(d) /\ Seen(d, key) /\ \A k : Seen(c, k) => Seen(d, k)
<1>1. Len(c) \in Nat /\ \A i \in 1..Len(c) : c[i] \in K
  BY LenProperties
<1>2. c \in Seq(K \ {key})
  BY <1>1, IsASeq, LenProperties DEF Seen
<1>3. IsFiniteSet(K \ {key}) /\ Cardinality(K \ {key}) = Cardinality(K) - 1
  BY FS_RemoveElement
<1>4. Len(c) <= Cardinality(K) - 1 /\ Cardinality(K) \in Nat
  BY <1>2, <1>3, DistinctFits, FS_CardinalityType
<1> DEFINE d == Append(c, key)
<1>5. Remember(c, key, size) = d
  BY <1>1, <1>4 DEF Remember
<1>6. /\ d \in Seq(K) /\ Len(d) = Len(c) + 1 /\ d[Len(c) + 1] = key
      /\ \A i \in 1..Len(c) : d[i] = c[i]
  BY AppendProperties
<1> HIDE DEF d
<1>7. Distinct(d)
  <2> SUFFICES ASSUME NEW i \in 1..Len(d), NEW j \in 1..Len(d), d[i] = d[j], i # j
               PROVE  FALSE
    BY DEF Distinct
  <2>1. CASE i \in 1..Len(c) /\ j \in 1..Len(c)
    BY <1>6, <2>1 DEF Distinct
  <2>2. CASE i = Len(c) + 1 /\ j \in 1..Len(c)
    BY <1>6, <2>2 DEF Seen
  <2>3. CASE j = Len(c) + 1 /\ i \in 1..Len(c)
    BY <1>6, <2>3 DEF Seen
  <2> QED BY <1>1, <1>6, <2>1, <2>2, <2>3
<1>8. Seen(d, key)
  BY <1>1, <1>6 DEF Seen
<1>9. ASSUME NEW k, Seen(c, k)
      PROVE  Seen(d, k)
  <2>1. PICK i \in 1..Len(c) : c[i] = k
    BY <1>9 DEF Seen
  <2> QED BY <1>1, <1>6, <2>1 DEF Seen
<1> QED BY <1>5, <1>6, <1>7, <1>8, <1>9

(* A key the cache holds is moved to the end.                              *)
LEMMA OldKeyKept ==
  ASSUME NEW K, NEW size \in Nat, NEW c \in Seq(K), Distinct(c), NEW key \in K, Seen(c, key)
  PROVE  LET d == Remember(c, key, size)
         IN d \in Seq(K) /\ Distinct(d) /\ Seen(d, key) /\ \A k : Seen(c, k) => Seen(d, k)
<1> DEFINE at == CHOOSE k \in 1..Len(c) : c[k] = key
           left == SubSeq(c, 1, at - 1)
           right == SubSeq(c, at + 1, Len(c))
           d == Append(left \o right, key)
<1>1. Len(c) \in Nat /\ \A i \in 1..Len(c) : c[i] \in K
  BY LenProperties
<1>2. at \in 1..Len(c) /\ c[at] = key
  BY DEF Seen
<1>3. Remember(c, key, size) = d
  BY DEF Remember, MovedToEnd
<1> HIDE DEF at
<1>4. /\ left \in Seq(K) /\ Len(left) = at - 1
      /\ \A i \in 1..(at - 1) : left[i] = c[i]
  <2>1. \A i \in 1..(at - 1) : c[i] \in K
    BY <1>1, <1>2
  <2>2. at - 1 \in Int /\ 1 \in Int /\ (at - 1) - 1 + 1 = at - 1
    BY <1>1, <1>2
  <2>3. /\ left \in Seq(K) /\ Len(left) = IF 1 <= at - 1 THEN (at - 1) - 1 + 1 ELSE 0
        /\ \A i \in 1..((at - 1) - 1 + 1) : left[i] = c[1 + i - 1]
    BY <2>1, <2>2, SubSeqProperties
  <2>4. \A i \in 1..(at - 1) : 1 + i - 1 = i
    BY <1>1, <1>2
  <2> QED BY <1>1, <1>2, <2>2, <2>3, <2>4
<1>5. /\ right \in Seq(K) /\ Len(right) = Len(c) - at
      /\ \A i \in 1..(Len(c) - at) : right[i] = c[at + i]
  <2>1. \A i \in (at + 1)..Len(c) : c[i] \in K
    BY <1>1, <1>2
  <2>2. at + 1 \in Int /\ Len(c) \in Int /\ Len(c) - (at + 1) + 1 = Len(c) - at
    BY <1>1, <1>2
  <2>3. /\ right \in Seq(K)
        /\ Len(right) = IF at + 1 <= Len(c) THEN Len(c) - (at + 1) + 1 ELSE 0
        /\ \A i \in 1..(Len(c) - (at + 1) + 1) : right[i] = c[(at + 1) + i - 1]
    BY <2>1, <2>2, SubSeqProperties
  <2>4. \A i \in 1..(Len(c) - at) : (at + 1) + i - 1 = at + i
    BY <1>1, <1>2
  <2>5. \A i \in 1..(Len(c) - at) : right[i] = c[at + i]
    BY <2>2, <2>3, <2>4
  <2>6. Len(right) = Len(c) - at
    BY <1>1, <1>2, <2>3
  <2> QED BY <2>3, <2>5, <2>6
<1> HIDE DEF left, right
<1> DEFINE rest == left \o right
<1>6. /\ rest \in Seq(K) /\ Len(rest) = Len(c) - 1
      /\ \A i \in 1..(Len(c) - 1) : rest[i] = IF i < at THEN c[i] ELSE c[i + 1]
  <2>1. /\ rest \in Seq(K) /\ Len(rest) = Len(left) + Len(right)
        /\ \A i \in 1..(Len(left) + Len(right)) :
             rest[i] = IF i <= Len(left) THEN left[i] ELSE right[i - Len(left)]
    BY <1>4, <1>5, ConcatProperties
  <2>2. Len(left) + Len(right) = Len(c) - 1
    BY <1>1, <1>2, <1>4, <1>5
  <2>3. ASSUME NEW i \in 1..(Len(c) - 1)
        PROVE  rest[i] = IF i < at THEN c[i] ELSE c[i + 1]
    <3>1. rest[i] = IF i <= Len(left) THEN left[i] ELSE right[i - Len(left)]
      BY <2>1, <2>2
    <3>2. CASE i < at
      <4>1. i \in 1..(at - 1) /\ i <= Len(left)
        BY <1>1, <1>2, <1>4, <3>2
      <4> QED BY <1>4, <3>1, <3>2, <4>1
    <3>3. CASE ~(i < at)
      <4>1. i - Len(left) \in 1..(Len(c) - at) /\ at + (i - Len(left)) = i + 1 /\ ~(i <= Len(left))
        BY <1>1, <1>2, <1>4, <3>3
      <4> QED BY <1>5, <3>1, <3>3, <4>1
    <3> QED BY <3>2, <3>3
  <2> QED BY <2>1, <2>2, <2>3
<1> HIDE DEF rest
<1>7. /\ d \in Seq(K) /\ Len(d) = Len(c) /\ d[Len(c)] = key
      /\ \A i \in 1..(Len(c) - 1) : d[i] = IF i < at THEN c[i] ELSE c[i + 1]
  <2>1. d = Append(rest, key)
    BY DEF rest
  <2>2. /\ d \in Seq(K) /\ Len(d) = Len(rest) + 1 /\ d[Len(rest) + 1] = key
        /\ \A i \in 1..Len(rest) : d[i] = rest[i]
    BY <1>6, <2>1, AppendProperties
  <2>3. Len(rest) + 1 = Len(c)
    BY <1>1, <1>6
  <2> QED BY <1>6, <2>2, <2>3
<1> HIDE DEF d
(* Where each position of d comes from.                                    *)
<1> DEFINE from(i) == IF i = Len(c) THEN at ELSE IF i < at THEN i ELSE i + 1
<1>8. ASSUME NEW i \in 1..Len(c)
      PROVE  from(i) \in 1..Len(c) /\ d[i] = c[from(i)]
  <2>1. CASE i = Len(c)
    BY <1>2, <1>7, <2>1
  <2>2. CASE i # Len(c)
    <3>1. i \in 1..(Len(c) - 1)
      BY <1>1, <2>2
    <3> QED BY <1>1, <1>2, <1>7, <2>2, <3>1
  <2> QED BY <2>1, <2>2
<1>9. Distinct(d)
  <2> SUFFICES ASSUME NEW i \in 1..Len(c), NEW j \in 1..Len(c), d[i] = d[j]
               PROVE  i = j
    BY <1>7 DEF Distinct
  <2>1. from(i) = from(j)
    <3> HIDE DEF from
    <3> QED BY <1>8 DEF Distinct
  <2> QED BY <1>1, <1>2, <2>1
<1>10. Seen(d, key)
  BY <1>1, <1>2, <1>7 DEF Seen
<1>11. ASSUME NEW k, Seen(c, k)
       PROVE  Seen(d, k)
  <2>1. PICK i \in 1..Len(c) : c[i] = k
    BY <1>11 DEF Seen
  <2> DEFINE to == IF i = at THEN Len(c) ELSE IF i < at THEN i ELSE i - 1
  <2>2. to \in 1..Len(c) /\ from(to) = i
    BY <1>1, <1>2, <2>1
  <2> HIDE DEF to, from
  <2> QED BY <1>7, <1>8, <2>1, <2>2 DEF Seen
<1> QED BY <1>3, <1>7, <1>9, <1>10, <1>11

LEMMA RememberKeeps ==
  ASSUME NEW K, IsFiniteSet(K), Cardinality(K) <= CacheSize,
         NEW c \in Seq(K), Distinct(c), NEW key \in K
  PROVE  LET d == Remember(c, key, CacheSize)
         IN d \in Seq(K) /\ Distinct(d) /\ Seen(d, key) /\ \A k : Seen(c, k) => Seen(d, k)
<1>1. CacheSize \in Nat
  BY ForwardingAssumption
<1>2. CASE Seen(c, key)
  BY <1>1, <1>2, OldKeyKept
<1>3. CASE ~Seen(c, key)
  BY <1>1, <1>3, NewKeyKept
<1> QED BY <1>2, <1>3

(* The packets ever created when the counters of the nodes read num.       *)
Created(num) == {x \in Nodes \X Nat : 1 <= x[2] /\ x[2] <= num[x[1]]}

(* The caches have room for every packet created so far.                   *)
Roomy == Cardinality(Created(number)) <= CacheSize

LEMMA CreatedFinite ==
  ASSUME NEW num \in [Nodes -> Nat]
  PROVE  IsFiniteSet(Created(num))
<1> DEFINE of == [n \in Nodes |-> {n} \X (1..num[n])]
           parts == {of[n] : n \in Nodes}
<1>1. IsFiniteSet(parts)
  <2>1. of \in Surjection(Nodes, parts)
    BY DEF Surjection
  <2> QED BY <2>1, FS_Surjection, ForwardingAssumption
<1>2. \A T \in parts : IsFiniteSet(T)
  <2> SUFFICES ASSUME NEW n \in Nodes PROVE IsFiniteSet({n} \X (1..num[n]))
    OBVIOUS
  <2>1. num[n] \in Int /\ 1 \in Int
    OBVIOUS
  <2>2. IsFiniteSet({n}) /\ IsFiniteSet(1..num[n])
    BY <2>1, FS_Singleton, FS_Interval
  <2> QED BY <2>2, FS_Product
<1>3. Created(num) \subseteq UNION parts
  <2> SUFFICES ASSUME NEW x \in Created(num) PROVE x \in of[x[1]] /\ x[1] \in Nodes
    OBVIOUS
  <2>1. x[1] \in Nodes /\ x[2] \in 1..num[x[1]] /\ x = <<x[1], x[2]>>
    BY DEF Created
  <2> QED BY <2>1
<1> HIDE DEF parts
<1>4. IsFiniteSet(UNION parts)
  BY <1>1, <1>2, FS_UNION
<1> QED BY <1>3, <1>4, FS_Subset

(* Counters that only grow create, and never run back.                     *)
LEMMA CreatedGrows ==
  ASSUME NEW num \in [Nodes -> Nat], NEW more \in [Nodes -> Nat],
         \A n \in Nodes : num[n] <= more[n]
  PROVE  /\ Created(num) \subseteq Created(more)
         /\ Cardinality(Created(more)) <= CacheSize => Cardinality(Created(num)) <= CacheSize
<1>1. Created(num) \subseteq Created(more)
  BY DEF Created
<1>2. IsFiniteSet(Created(more)) /\ IsFiniteSet(Created(num))
  BY CreatedFinite
<1>3. /\ Cardinality(Created(num)) <= Cardinality(Created(more))
      /\ Cardinality(Created(num)) \in Nat /\ Cardinality(Created(more)) \in Nat
  BY <1>1, <1>2, FS_Subset, FS_CardinalityType
<1> QED BY <1>1, <1>3, ForwardingAssumption

(* Every packet in a channel.                                              *)
Held(c) == (UNION {Contents(c.queue[n]) : n \in Nodes}) \union {f.frame : f \in c.air}

Known(c, num) == \A p \in Held(c) : identity(p) \in Created(num)

LEMMA HoldingMore ==
  ASSUME NEW c, ProperChannel(c), NEW p, Proper(p)
  PROVE  /\ \A heard \in SUBSET Nodes : Held(Accepted(c, p, heard)) \subseteq Held(c) \union {p}
         /\ \A receivers \in SUBSET Nodes :
              Held(_schedule_radio(c, p, receivers)) \subseteq Held(c) \union {p}
<1>1. ASSUME NEW heard \in SUBSET Nodes
      PROVE  Held(Accepted(c, p, heard)) \subseteq Held(c) \union {p}
  <2> DEFINE d == Accepted(c, p, heard)
  <2>1. d.air = c.air /\ \A n \in Nodes :
          d.queue[n] = IF n \in heard THEN enqueue_packet(c.queue[n], p, QueueLimit)
                       ELSE c.queue[n]
    BY DEF Accepted, ProperChannel, Channels
  <2>2. \A n \in Nodes : c.queue[n] \in Lanes
    BY ChannelsHave DEF ProperChannel
  <2>3. \A n \in Nodes : Contents(d.queue[n]) \subseteq Contents(c.queue[n]) \union {p}
    BY <2>1, <2>2, EnqueueKeeps DEF Proper
  <2> HIDE DEF d
  <2>4. ASSUME NEW x \in Held(d)
        PROVE  x \in Held(c) \union {p}
    <3>1. CASE x \in {f.frame : f \in d.air}
      BY <2>1, <3>1 DEF Held
    <3>2. CASE \E n \in Nodes : x \in Contents(d.queue[n])
      BY <2>3, <3>2 DEF Held
    <3> QED BY <3>1, <3>2 DEF Held
  <2> QED BY <2>4 DEF d
<1>2. ASSUME NEW receivers \in SUBSET Nodes
      PROVE  Held(_schedule_radio(c, p, receivers)) \subseteq Held(c) \union {p}
  <2>1. CASE receivers = {}
    BY <2>1 DEF _schedule_radio
  <2>2. CASE receivers # {}
    <3> DEFINE d == _schedule_radio(c, p, receivers)
    <3>1. d.queue = c.queue /\ d.air = c.air \union {[to |-> receivers, frame |-> p]}
      BY <2>2 DEF _schedule_radio, ProperChannel, Channels
    <3> HIDE DEF d
    <3>2. ASSUME NEW x \in Held(d)
          PROVE  x \in Held(c) \union {p}
      <4>1. CASE \E f \in d.air : x = f.frame
        BY <3>1, <4>1 DEF Held
      <4>2. CASE x \in UNION {Contents(d.queue[n]) : n \in Nodes}
        BY <3>1, <4>2 DEF Held
      <4> QED BY <4>1, <4>2 DEF Held
    <3> QED BY <3>2 DEF d
  <2> QED BY <2>1, <2>2
<1> QED BY <1>1, <1>2

LEMMA BroadcastHolds ==
  ASSUME NEW c, ProperChannel(c), NEW p, Proper(p), NEW n, NEW exclude,
         NEW d \in broadcast(c, n, p, exclude)
  PROVE  Held(d) \subseteq Held(c) \union {p}
<1> DEFINE receivers == Near(n) \ exclude
<1>1. receivers \in SUBSET Nodes
  BY DEF Near
<1>2. \/ d = c
      \/ d = _schedule_radio(c, p, receivers)
      \/ \E heard \in SUBSET receivers : d = Accepted(c, p, heard)
  BY DEF broadcast
<1> HIDE DEF receivers
<1> QED BY <1>1, <1>2, HoldingMore

LEMMA RoutingHolds ==
  ASSUME NEW c, ProperChannel(c), NEW p, Proper(p), p.dest \in Nodes, NEW n \in Nodes,
         NEW o \in route_packet(c, n, p)
  PROVE  Held(o.chan) \subseteq Held(c) \union {p}
<1>1. CASE o.chan = c
  BY <1>1
<1>2. ASSUME NEW hop \in NextHops[n][p.dest], hop # NoNode, o \in _deliver(c, p, hop)
      PROVE  Held(o.chan) \subseteq Held(c) \union {p}
  <2>1. NextHops[n] \in [Nodes -> SUBSET (Nodes \union {NoNode})]
    BY ForwardingAssumption
  <2>2. {hop} \in SUBSET Nodes
    BY <1>2, <2>1
  <2>3. \/ o.chan = c
        \/ o.chan = _schedule_radio(c, p, {hop})
        \/ o.chan = Accepted(c, p, {hop})
    BY <1>2 DEF _deliver
  <2> QED BY <2>2, <2>3, HoldingMore
<1> QED BY <1>1, <1>2 DEF route_packet

LEMMA TakingHolds ==
  ASSUME IInv, Taking
  PROVE  Current \in Held(chan) /\ Held(Rest) \subseteq Held(chan)
<1>1. Here \in Nodes
  BY TakenIsProper
<1>2. chan.queue[Here] \in Lanes /\ Occupied(chan.queue[Here]) # {}
  BY <1>1, ChannelsHave DEF IInv, ProperChannel, Taking
<1>3. /\ Current \in Contents(chan.queue[Here])
      /\ Contents(dequeue_packet(chan.queue[Here])) \subseteq Contents(chan.queue[Here])
  BY <1>2, DequeueKeeps DEF Current
<1>4. /\ Rest.air = chan.air
      /\ \A n \in Nodes : Rest.queue[n] = IF n = Here THEN dequeue_packet(chan.queue[Here])
                                          ELSE chan.queue[n]
  BY <1>1, ChannelsHave DEF Rest, IInv, ProperChannel, Channels
<1> QED BY <1>1, <1>3, <1>4 DEF Held

(* What the caches ch recall when the alerts hd are handled and the        *)
(* packets of K created.                                                   *)
Recalls(ch, hd, K) ==
  /\ DOMAIN ch = Nodes
  /\ \A n \in Nodes : ch[n] \in Seq(K) /\ Distinct(ch[n])
  /\ \A x \in hd : Seen(ch[x[1]], x[2])

CacheInv ==
  /\ IInv
  /\ Known(chan, number)
  /\ Roomy => Recalls(cache, handled, Created(number)) /\ again = {}

LEMMA RecallsMore ==
  ASSUME NEW ch, NEW hd, NEW K, NEW M, K \subseteq M, Recalls(ch, hd, K)
  PROVE  Recalls(ch, hd, M)
<1>1. ASSUME NEW n \in Nodes
      PROVE  ch[n] \in Seq(M)
  <2>1. ch[n] \in Seq(K)
    BY DEF Recalls
  <2>2. Len(ch[n]) \in Nat /\ DOMAIN ch[n] = 1..Len(ch[n]) /\ \A i \in 1..Len(ch[n]) : ch[n][i] \in M
    BY <2>1, LenProperties
  <2>3. ch[n] = [i \in 1..Len(ch[n]) |-> ch[n][i]]
    BY <2>1, LenProperties
  <2> QED BY <2>2, <2>3, IsASeq
<1> QED BY <1>1 DEF Recalls

LEMMA RecallsKey ==
  ASSUME NEW ch, NEW hd, hd \subseteq Nodes \X Alerts, NEW K, IsFiniteSet(K),
         Cardinality(K) <= CacheSize, Recalls(ch, hd, K), NEW n \in Nodes, NEW key \in K
  PROVE  LET d == [ch EXCEPT ![n] = Remember(@, key, CacheSize)]
         IN Recalls(d, hd, K) /\ Recalls(d, hd \union {<<n, key>>}, K)
<1> DEFINE d == [ch EXCEPT ![n] = Remember(@, key, CacheSize)]
<1>1. DOMAIN d = Nodes /\ \A m \in Nodes : d[m] = IF m = n THEN Remember(ch[n], key, CacheSize) ELSE ch[m]
  BY DEF Recalls
<1>2. ch[n] \in Seq(K) /\ Distinct(ch[n])
  BY DEF Recalls
<1>3. d[n] \in Seq(K) /\ Distinct(d[n]) /\ Seen(d[n], key) /\ \A k : Seen(ch[n], k) => Seen(d[n], k)
  BY <1>1, <1>2, RememberKeeps
<1> HIDE DEF d
<1>4. \A m \in Nodes : d[m] \in Seq(K) /\ Distinct(d[m])
  BY <1>1, <1>3 DEF Recalls
<1>5. \A x \in hd : Seen(d[x[1]], x[2])
  <2> SUFFICES ASSUME NEW x \in hd PROVE Seen(d[x[1]], x[2])
    OBVIOUS
  <2>1. x[1] \in Nodes /\ Seen(ch[x[1]], x[2])
    BY DEF Recalls
  <2> QED BY <1>1, <1>3, <2>1
<1>6. \A x \in hd \union {<<n, key>>} : Seen(d[x[1]], x[2])
  BY <1>3, <1>5
<1> QED BY <1>1, <1>4, <1>5, <1>6 DEF Recalls, d

(* A step that leaves the caches alone, whatever it creates and sends.     *)
LEMMA CachesUntouched ==
  ASSUME CacheInv, IInv', \A n \in Nodes : number[n] <= number'[n], Known(chan', number'),
         UNCHANGED <<cache, handled, again>>
  PROVE  CacheInv'
<1>1. number \in [Nodes -> Nat] /\ number' \in [Nodes -> Nat]
  BY DEF CacheInv, IInv, TypeOK
<1>2. Created(number) \subseteq Created(number') /\ (Roomy' => Roomy)
  BY <1>1, CreatedGrows DEF Roomy
<1>3. Roomy' => Recalls(cache', handled', Created(number')) /\ again' = {}
  BY <1>2, RecallsMore DEF CacheInv
<1> QED BY <1>3 DEF CacheInv, Known

LEMMA JustCreated ==
  ASSUME NEW num \in [Nodes -> Nat], NEW n \in Nodes, NEW no \in Nat, 1 <= no, no <= num[n],
         NEW kind, NEW dest, NEW prio, NEW ttl, NEW about
  PROVE  identity(create_packet(kind, n, no, dest, prio, ttl, about)) \in Created(num)
BY DEF identity, create_packet, Created

LEMMA InjectionKnown ==
  ASSUME CacheInv, IInv', NEW n \in Origins, NEW ttl \in Severities, inject_fault(n, ttl)
  PROVE  CacheInv'
<1> DEFINE alert == create_packet("alert", n, number[n] + 1, NoNode, Fault, ttl, <<>>)
           coord == create_packet("coord", n, number[n] + 2, NoNode, Control, ttl, <<>>)
<1>1. n \in Nodes /\ number \in [Nodes -> Nat] /\ number' \in [Nodes -> Nat]
  BY ForwardingAssumption DEF CacheInv, IInv, TypeOK
<1>2. number[n] \in Nat /\ number' = [number EXCEPT ![n] = @ + 2]
  BY <1>1 DEF inject_fault
<1>3. number'[n] = number[n] + 2 /\ \A m \in Nodes : number[m] <= number'[m]
  <2>1. \A m \in Nodes : number[m] \in Nat
    BY <1>1
  <2> QED BY <1>1, <1>2, <2>1
<1>4. Proper(alert) /\ Proper(coord)
  <2>1. Fault \in Priorities /\ Control \in Priorities /\ number[n] + 1 \in Nat /\ number[n] + 2 \in Nat
    BY <1>2 DEF Fault, Control, Priorities, Telemetry
  <2> QED BY <1>1, <2>1, FloodedIsProper
<1>5. identity(alert) \in Created(number') /\ identity(coord) \in Created(number')
  <2>1. number[n] + 1 \in Nat /\ number[n] + 2 \in Nat /\ 1 <= number[n] + 1 /\ 1 <= number[n] + 2
        /\ number[n] + 1 <= number'[n] /\ number[n] + 2 <= number'[n]
    BY <1>2, <1>3
  <2> QED BY <1>1, <2>1, JustCreated
<1>6. PICK c \in broadcast(chan, n, alert, {}) : chan' \in broadcast(c, n, coord, {})
  BY DEF inject_fault
<1> HIDE DEF alert, coord
<1>7. alert.dest = NoNode
  BY DEF alert, create_packet
<1>8. ProperChannel(c) /\ Held(c) \subseteq Held(chan) \union {alert}
  BY <1>4, <1>6, <1>7, BroadcastHolds, BroadcastIsProper DEF CacheInv, IInv
<1>9. Held(chan') \subseteq Held(chan) \union {alert, coord}
  <2>1. Held(chan') \subseteq Held(c) \union {coord}
    BY <1>4, <1>6, <1>8, BroadcastHolds
  <2> QED BY <1>8, <2>1
<1>10. Known(chan', number')
  <2>1. \A p \in {alert, coord} : identity(p) \in Created(number')
    BY <1>5
  <2>2. Known(chan, number)
    BY DEF CacheInv
  <2>3. Created(number) \subseteq Created(number')
    BY <1>1, <1>3, CreatedGrows
  <2> QED BY <1>9, <2>1, <2>2, <2>3 DEF Known
<1>11. UNCHANGED <<cache, handled, again>>
  BY DEF inject_fault
<1> QED BY <1>3, <1>10, <1>11, CachesUntouched

(* A row sent by the node that measured it.                                *)
LEMMA ReadingKnown ==
  ASSUME CacheInv, IInv', NEW n \in Nodes, NEW row \in 1..MaxRows,
         number' = [number EXCEPT ![n] = @ + 1],
         NEW o \in route_packet(chan, n, Reading(n, row)), chan' = o.chan
  PROVE  Known(chan', number') /\ \A m \in Nodes : number[m] <= number'[m]
<1>1. number \in [Nodes -> Nat] /\ number' \in [Nodes -> Nat]
  BY DEF CacheInv, IInv, TypeOK
<1>2. /\ \A m \in Nodes : number[m] <= number'[m]
      /\ number[n] + 1 \in Nat /\ 1 <= number[n] + 1 /\ number[n] + 1 <= number'[n]
  <2>1. \A m \in Nodes : number[m] \in Nat
    BY <1>1
  <2> QED BY <1>1, <2>1
<1>3. identity(Reading(n, row)) \in Created(number')
  BY <1>1, <1>2, JustCreated DEF Reading
<1>4. Proper(Reading(n, row)) /\ Reading(n, row).dest \in Nodes
  BY ReadingIsProper, ForwardingAssumption DEF CacheInv
<1>5. Held(chan') \subseteq Held(chan) \union {Reading(n, row)}
  BY <1>4, RoutingHolds DEF CacheInv, IInv
<1>6. Known(chan', number')
  <2>1. \A p \in {Reading(n, row)} : identity(p) \in Created(number')
    BY <1>3
  <2>2. Known(chan, number)
    BY DEF CacheInv
  <2>3. Created(number) \subseteq Created(number')
    BY <1>1, <1>2, CreatedGrows
  <2> QED BY <1>5, <2>1, <2>2, <2>3 DEF Known
<1> QED BY <1>2, <1>6

LEMMA SendingKnown ==
  ASSUME CacheInv, IInv', NEW n \in Nodes, _send_telemetry(n)
  PROVE  CacheInv'
<1>1. /\ rows' \in 1..MaxRows /\ n \in Nodes /\ UNCHANGED <<handled, again>>
      /\ number \in [Nodes -> Nat] /\ number' \in [Nodes -> Nat]
  BY ForwardingAssumption DEF _send_telemetry, CacheInv, IInv, TypeOK
<1>2. CASE UNCHANGED <<chan, cache, number>>
  <2>1. Known(chan', number') /\ \A m \in Nodes : number[m] <= number'[m]
    <3>1. \A m \in Nodes : number[m] \in Nat
      BY <1>1
    <3> QED BY <1>2, <3>1 DEF CacheInv
  <2> QED BY <1>1, <1>2, <2>1, CachesUntouched
<1>3. CASE /\ number' = [number EXCEPT ![n] = @ + 1]
           /\ \E o \in route_packet(chan, n, Reading(n, rows')) : chan' = o.chan
           /\ UNCHANGED cache
  BY <1>1, <1>3, ReadingKnown, CachesUntouched
<1>4. CASE /\ number' = [number EXCEPT ![n] = @ + 1]
           /\ cache' = [cache EXCEPT ![n] =
                          Remember(@, duplicate_key(Reading(n, rows')), CacheSize)]
           /\ UNCHANGED chan
  <2> DEFINE key == identity(Reading(n, rows'))
  <2>1. /\ \A m \in Nodes : number[m] <= number'[m]
        /\ number[n] + 1 \in Nat /\ 1 <= number[n] + 1 /\ number[n] + 1 <= number'[n]
    <3>1. \A m \in Nodes : number[m] \in Nat
      BY <1>1
    <3> QED BY <1>1, <1>4, <3>1
  <2>2. key \in Created(number') /\ Created(number) \subseteq Created(number')
    BY <1>1, <2>1, JustCreated, CreatedGrows DEF Reading
  <2>3. Known(chan', number')
    BY <1>4, <2>2 DEF CacheInv, Known
  <2>4. ASSUME Roomy'
        PROVE  Recalls(cache', handled', Created(number')) /\ again' = {}
    <3>1. Roomy /\ Cardinality(Created(number')) <= CacheSize
      BY <1>1, <2>1, <2>4, CreatedGrows DEF Roomy
    <3>2. Recalls(cache, handled, Created(number')) /\ again = {}
      BY <2>2, <3>1, RecallsMore DEF CacheInv
    <3>3. IsFiniteSet(Created(number')) /\ handled \subseteq Nodes \X Alerts
      BY <1>1, CreatedFinite DEF CacheInv, IInv, TypeOK
    <3>4. cache' = [cache EXCEPT ![n] = Remember(@, key, CacheSize)]
      BY <1>4 DEF duplicate_key, identity
    <3> HIDE DEF key
    <3> QED BY <1>1, <2>2, <3>1, <3>2, <3>3, <3>4, RecallsKey
  <2> QED BY <2>3, <2>4 DEF CacheInv, Known, Roomy
<1> QED BY <1>2, <1>3, <1>4 DEF _send_telemetry

LEMMA LandingKnown ==
  ASSUME CacheInv, IInv', Landing
  PROVE  CacheInv'
<1>1. PICK f \in chan.air : Land(f)
  BY DEF Landing
<1>2. f \in Frame /\ Proper(f.frame) /\ ProperChannel(chan) /\ f.frame \in Held(chan)
  BY ChannelsHave DEF ProperChannel, ProperAir, CacheInv, IInv, Held
<1>3. PICK heard \in SUBSET f.to :
        chan' = [Accepted(chan, f.frame, heard) EXCEPT !.air = @ \ {f}]
  BY <1>1 DEF Land
<1> DEFINE c == Accepted(chan, f.frame, heard)
<1>4. heard \in SUBSET Nodes
  BY <1>2 DEF Frame
<1>5. ProperChannel(c) /\ Held(c) \subseteq Held(chan)
  <2>1. \A m \in heard : New(f.frame, m)
    BY <1>3 DEF CacheInv, IInv, ProperChannel, ProperAir
  <2>2. ProperChannel(c)
    BY <1>2, <1>4, <2>1, AcceptedIsProper
  <2>3. Held(c) \subseteq Held(chan) \union {f.frame}
    BY <1>2, <1>4, HoldingMore
  <2> QED BY <1>2, <2>2, <2>3
<1> HIDE DEF c
<1>6. chan'.queue = c.queue /\ chan'.air = c.air \ {f}
  BY <1>3, <1>5 DEF c, ProperChannel, Channels
<1>7. Held(chan') \subseteq Held(c)
  BY <1>6 DEF Held
<1>8. UNCHANGED <<number, cache, handled, again>>
  BY <1>1 DEF Land, history
<1>9. Known(chan', number')
  BY <1>5, <1>7, <1>8 DEF CacheInv, Known
<1>10. \A n \in Nodes : number[n] <= number'[n]
  <2>1. \A n \in Nodes : number[n] \in Nat
    BY DEF CacheInv, IInv, TypeOK
  <2> QED BY <1>8, <2>1
<1> QED BY <1>8, <1>9, <1>10, CachesUntouched

(* A packet taken: remembered, and known to be handled if it is an alert.  *)
LEMMA TakingRecalls ==
  ASSUME CacheInv, IInv', Taking
  PROVE  /\ Roomy => /\ Recalls(Remembering, handled, Created(number))
                     /\ Recalls(Remembering, handled \union {<<Here, identity(Current)>>},
                                Created(number))
         /\ Known(Rest, number) /\ Here \in Nodes /\ identity(Current) \in Created(number)
         /\ TakingFresh /\ Roomy => <<Here, identity(Current)>> \notin handled
<1>1. IInv /\ Here \in Nodes
  BY TakenIsProper DEF CacheInv
<1>2. Current \in Held(chan) /\ Held(Rest) \subseteq Held(chan)
  BY <1>1, TakingHolds
<1>3. Known(Rest, number) /\ identity(Current) \in Created(number)
  BY <1>2 DEF CacheInv, Known
<1>4. /\ IsFiniteSet(Created(number)) /\ handled \subseteq Nodes \X Alerts
  BY <1>1, CreatedFinite DEF IInv, TypeOK
<1>5. duplicate_key(Current) = identity(Current)
  BY DEF duplicate_key, identity
<1>6. ASSUME Roomy
      PROVE  /\ Recalls(Remembering, handled, Created(number))
             /\ Recalls(Remembering, handled \union {<<Here, identity(Current)>>}, Created(number))
  <2>1. Recalls(cache, handled, Created(number))
    BY <1>6 DEF CacheInv
  <2>2. Remembering = [cache EXCEPT ![Here] = Remember(@, identity(Current), CacheSize)]
    BY <1>5 DEF Remembering
  <2>3. Cardinality(Created(number)) <= CacheSize
    BY <1>6 DEF Roomy
  <2> QED BY <1>1, <1>3, <1>4, <2>1, <2>2, <2>3, RecallsKey
<1>7. ASSUME TakingFresh, Roomy
      PROVE  <<Here, identity(Current)>> \notin handled
  <2>1. \A x \in handled : Seen(cache[x[1]], x[2])
    BY <1>7 DEF CacheInv, Recalls
  <2>2. ~Seen(cache[Here], identity(Current))
    BY <1>5, <1>7 DEF TakingFresh
  <2> QED BY <2>1, <2>2
<1> QED BY <1>1, <1>3, <1>6, <1>7

LEMMA ForwardedIsKnown ==
  ASSUME NEW p \in Packet, NEW n
  PROVE  identity(forwarded(p, n)) = identity(p)
<1>1. /\ forwarded(p, n).origin = p.origin
      /\ forwarded(p, n).no = p.no
  BY DEF forwarded, Packet
<1> QED BY <1>1 DEF identity

(* A packet taken that creates none.                                       *)
LEMMA TakenKnown ==
  ASSUME CacheInv, IInv', ReceiveDuplicate \/ ReceiveFinal \/ ReceiveRelay \/ ReceiveOneHop
  PROVE  CacheInv'
<1>1. Taking /\ cache' = Remembering /\ UNCHANGED <<number, handled, again>>
  BY DEF ReceiveDuplicate, ReceiveFinal, ReceiveRelay, ReceiveOneHop, TakingFresh, history
<1>2. /\ Known(Rest, number) /\ Here \in Nodes /\ identity(Current) \in Created(number)
      /\ Roomy => Recalls(Remembering, handled, Created(number))
  BY <1>1, TakingRecalls
<1>3. Known(chan', number)
  <2>1. CASE chan' = Rest
    BY <1>2, <2>1
  <2>2. CASE /\ Forwardable(Current) /\ Current.dest \notin {NoNode, Here}
             /\ \E o \in route_packet(Rest, Here, forwarded(Current, Here)) : chan' = o.chan
    <3> DEFINE q == forwarded(Current, Here)
    <3>1. Proper(Current) /\ New(Current, Here) /\ ProperChannel(Rest)
      BY <1>1, TakenIsProper DEF CacheInv
    <3>2. Proper(q) /\ q.dest \in Nodes
      BY <1>2, <2>2, <3>1, ForwardedIsProper DEF Proper, Packet
    <3>3. identity(q) \in Created(number)
      BY <1>2, <3>1, ForwardedIsKnown DEF Proper
    <3> HIDE DEF q
    <3>4. PICK o \in route_packet(Rest, Here, q) : chan' = o.chan
      BY <2>2 DEF q
    <3>5. Held(chan') \subseteq Held(Rest) \union {q}
      BY <1>2, <3>1, <3>2, <3>4, RoutingHolds
    <3> QED BY <1>2, <3>3, <3>5 DEF Known
  <2> QED BY <2>1, <2>2 DEF ReceiveDuplicate, ReceiveFinal, ReceiveRelay, ReceiveOneHop
<1> QED BY <1>1, <1>2, <1>3 DEF CacheInv, Roomy, Known

(* An alert taken: acknowledged, and flooded on.                           *)
LEMMA AlertKnown ==
  ASSUME CacheInv, IInv', ReceiveAlert
  PROVE  CacheInv'
<1> DEFINE ack == create_packet("ack", Here, number[Here] + 1, Current.origin, Control,
                                MaxHops, identity(Current))
           alert == <<Here, identity(Current)>>
<1>1. Taking /\ TakingFresh /\ Current.kind = "alert"
  BY DEF ReceiveAlert, TakingFresh
<1>2. /\ Known(Rest, number) /\ Here \in Nodes /\ identity(Current) \in Created(number)
      /\ Roomy => Recalls(Remembering, handled \union {alert}, Created(number))
      /\ Roomy => alert \notin handled
  BY <1>1, TakingRecalls
<1>3. /\ Proper(Current) /\ New(Current, Here) /\ ProperChannel(Rest)
      /\ Current \in Packet /\ Current.dest = NoNode
  BY <1>1, TakenIsProper DEF CacheInv, Proper, Addressed
<1>4. /\ number \in [Nodes -> Nat] /\ number' \in [Nodes -> Nat]
      /\ number' = [number EXCEPT ![Here] = @ + 1]
  BY DEF CacheInv, IInv, TypeOK, ReceiveAlert
<1>5. /\ \A m \in Nodes : number[m] <= number'[m]
      /\ number[Here] + 1 \in Nat /\ 1 <= number[Here] + 1 /\ number[Here] + 1 <= number'[Here]
  <2>1. \A m \in Nodes : number[m] \in Nat
    BY <1>4
  <2> QED BY <1>2, <1>4, <2>1
<1>6. identity(ack) \in Created(number') /\ Created(number) \subseteq Created(number')
  BY <1>2, <1>4, <1>5, JustCreated, CreatedGrows
<1>7. Proper(ack) /\ ack.dest \in Nodes
  <2>1. /\ Current.origin \in Nodes /\ Current.origin # NoNode
        /\ MaxHops \in Nat /\ Control \in Priorities /\ "ack" \in Kinds
    BY <1>3, ForwardingAssumption DEF Packet, Control, Priorities, Telemetry, Fault, Kinds, NoNode
  <2> QED BY <1>2, <1>3, <1>5, <2>1, IdentitiesAreAlerts, CreatedIsProper
<1>8. /\ \E o \in (IF Current.origin = Here THEN {[chan |-> Rest, ok |-> TRUE]}
                   ELSE route_packet(Rest, Here, ack)) : chan' \in FloodOn(o.chan)
      /\ \/ cache' = Remembering
         \/ cache' = [Remembering EXCEPT ![Here] = Remember(@, duplicate_key(ack), CacheSize)]
      /\ handled' = handled \union {alert} /\ again' = again \union ({alert} \intersect handled)
  BY DEF ReceiveAlert
<1> HIDE DEF ack
<1>9. Known(chan', number')
  <2>1. PICK c : chan' \in FloodOn(c) /\ ProperChannel(c) /\ Held(c) \subseteq Held(Rest) \union {ack}
    <3>1. PICK o \in (IF Current.origin = Here THEN {[chan |-> Rest, ok |-> TRUE]}
                      ELSE route_packet(Rest, Here, ack)) : chan' \in FloodOn(o.chan)
      BY <1>8
    <3>2. CASE o.chan = Rest
      BY <1>3, <3>1, <3>2
    <3>3. CASE o \in route_packet(Rest, Here, ack)
      BY <1>2, <1>3, <1>7, <3>1, <3>3, RoutingIsProper, RoutingHolds
    <3> QED BY <3>1, <3>2, <3>3
  <2>2. Known(c, number')
    BY <1>2, <1>6, <2>1 DEF Known
  <2>3. CASE Forwardable(Current)
    <3> DEFINE q == forwarded(Current, Here)
    <3>1. Proper(q) /\ identity(q) \in Created(number')
      BY <1>2, <1>3, <1>6, <2>3, ForwardedIsProper, ForwardedIsKnown
    <3> HIDE DEF q
    <3>2. chan' \in broadcast(c, Here, q, {Current.source})
      BY <2>1, <2>3 DEF FloodOn, q
    <3>3. Held(chan') \subseteq Held(c) \union {q}
      BY <2>1, <3>1, <3>2, BroadcastHolds
    <3> QED BY <2>2, <3>1, <3>3 DEF Known
  <2>4. CASE ~Forwardable(Current)
    BY <2>1, <2>2, <2>4 DEF FloodOn
  <2> QED BY <2>3, <2>4
<1>10. ASSUME Roomy'
       PROVE  Recalls(cache', handled', Created(number')) /\ again' = {}
  <2>1. Roomy /\ Cardinality(Created(number')) <= CacheSize
    BY <1>4, <1>5, <1>10, CreatedGrows DEF Roomy
  <2>2. Recalls(Remembering, handled', Created(number'))
    <3>1. Recalls(Remembering, handled \union {alert}, Created(number))
      BY <1>2, <2>1
    <3> HIDE DEF alert
    <3> QED BY <1>6, <1>8, <3>1, RecallsMore
  <2>3. again' = {}
    BY <1>2, <1>8, <2>1 DEF CacheInv
  <2>4. IsFiniteSet(Created(number')) /\ handled' \subseteq Nodes \X Alerts
    BY <1>4, CreatedFinite DEF IInv, TypeOK
  <2>5. duplicate_key(ack) = identity(ack)
    BY DEF duplicate_key, identity
  <2>6. Recalls(cache', handled', Created(number'))
    <3>1. CASE cache' = Remembering
      BY <2>2, <3>1
    <3>2. CASE cache' = [Remembering EXCEPT ![Here] = Remember(@, identity(ack), CacheSize)]
      BY <1>2, <1>6, <2>1, <2>2, <2>4, <3>2, RecallsKey
    <3> QED BY <1>8, <2>5, <3>1, <3>2
  <2> QED BY <2>3, <2>6
<1> QED BY <1>9, <1>10 DEF CacheInv, Known, Roomy

LEMMA InitRecalls == Init => CacheInv
<1> SUFFICES ASSUME Init PROVE CacheInv
  OBVIOUS
<1>1. IInv
  BY InitProper
<1>2. Known(chan, number)
  <2> DEFINE empty == [l \in Priorities |-> <<>>]
  <2>1. Contents(empty) = {}
    BY DEF Contents
  <2> HIDE DEF empty
  <2>2. (\A n \in Nodes : chan.queue[n] = empty) /\ chan.air = {}
    BY DEF Init, empty
  <2>3. Held(chan) = {}
    BY <2>1, <2>2 DEF Held
  <2> QED BY <2>3 DEF Known
<1>3. Recalls(cache, handled, Created(number)) /\ again = {}
  <2>1. cache = [n \in Nodes |-> <<>>] /\ handled = {} /\ again = {}
    BY DEF Init
  <2>2. <<>> \in Seq(Created(number)) /\ Distinct(<<>>)
    BY DEF Distinct
  <2> QED BY <2>1, <2>2 DEF Recalls
<1> QED BY <1>1, <1>2, <1>3 DEF CacheInv

LEMMA NextRecalls == CacheInv /\ [Next]_vars => CacheInv'
<1> SUFFICES ASSUME CacheInv, [Next]_vars PROVE CacheInv'
  OBVIOUS
<1>1. IInv'
  BY NextProper DEF CacheInv
<1>2. CASE UNCHANGED <<chan, number, cache, handled, again>>
  <2>1. Known(chan', number') /\ \A n \in Nodes : number[n] <= number'[n]
    <3>1. \A n \in Nodes : number[n] \in Nat
      BY DEF CacheInv, IInv, TypeOK
    <3> QED BY <1>2, <3>1 DEF CacheInv
  <2> QED BY <1>1, <1>2, <2>1, CachesUntouched
<1>3. ASSUME NEW n \in Origins, NEW ttl \in Severities, inject_fault(n, ttl)
      PROVE  CacheInv'
  BY <1>1, <1>3, InjectionKnown
<1>4. ASSUME NEW n \in Nodes, _send_telemetry(n)
      PROVE  CacheInv'
  BY <1>1, <1>4, SendingKnown
<1>5. ASSUME NEW n \in Nodes, NEW row \in 1..MaxRows, Flush(n, row)
      PROVE  CacheInv'
  <2>1. /\ number' = [number EXCEPT ![n] = @ + 1]
        /\ \E o \in route_packet(chan, n, Reading(n, row)) : chan' = o.chan
        /\ UNCHANGED <<cache, handled, again>>
    BY <1>5 DEF Flush, history
  <2>2. Known(chan', number') /\ \A m \in Nodes : number[m] <= number'[m]
    BY <1>1, <2>1, ReadingKnown
  <2> QED BY <1>1, <2>1, <2>2, CachesUntouched
<1>6. CASE receive_packet
  BY <1>1, <1>6, TakenKnown, AlertKnown DEF receive_packet
<1>7. CASE Landing
  BY <1>1, <1>7, LandingKnown
<1>8. CASE UNCHANGED vars
  BY <1>2, <1>8 DEF vars, history
<1>9. CASE process_queues \/ NextNode \/ EndFlush \/ \E n \in Nodes : Switch(n)
  BY <1>2, <1>9 DEF process_queues, NextNode, EndFlush, Switch, history
<1>10. ASSUME NEW to \in BOOLEAN, set_gateway(to)
       PROVE  CacheInv'
  BY <1>2, <1>10 DEF set_gateway, history
<1> QED BY <1>3, <1>4, <1>5, <1>6, <1>7, <1>8, <1>9, <1>10
        DEF Next, Environment, Passing, Flushing

(* As long as the caches have room for every packet created so far, no     *)
(* node handles an alert twice (packets.py, DuplicateCache.seen;           *)
(* simulator.py, receive_packet): over whichever paths its copies come.    *)
THEOREM AlertsHandledOnce == Spec => [](Roomy => HandledOnce)
<1>1. CacheInv => (Roomy => HandledOnce)
  BY DEF CacheInv, HandledOnce
<1> QED BY <1>1, InitRecalls, NextRecalls, PTL DEF Spec

-----------------------------------------------------------------------------
(* A flooded alert: with working radios, room in the queues and a TTL of   *)
(* at least the number of nodes, nobody is left out.                       *)

(* The places of queue q, which Length counts.                             *)
Places(q) == UNION {{<<l, k>> : k \in 1..Len(q[l])} : l \in DOMAIN q}

LEMMA PlacesAre ==
  ASSUME NEW q \in Lanes
  PROVE  /\ \A l, k : <<l, k>> \in Places(q) <=> l \in Priorities /\ k \in 1..Len(q[l])
         /\ \A x \in Places(q) : x = <<x[1], x[2]>>
         /\ IsFiniteSet(Places(q)) /\ Length(q) = Cardinality(Places(q)) /\ Length(q) \in Nat
<1>1. DOMAIN q = Priorities /\ \A l \in Priorities : Len(q[l]) \in Nat
  BY LanesHave
<1>2. \A l, k : <<l, k>> \in Places(q) <=> l \in Priorities /\ k \in 1..Len(q[l])
  BY <1>1 DEF Places
<1>3. \A x \in Places(q) : x = <<x[1], x[2]>>
  BY DEF Places
<1>4. IsFiniteSet(Places(q))
  <2> DEFINE of == [l \in Priorities |-> {l} \X (1..Len(q[l]))]
             parts == {of[l] : l \in Priorities}
  <2>1. IsFiniteSet(Priorities)
    <3>1. Priorities = 1..3 /\ 1 \in Int /\ 3 \in Int
      BY DEF Priorities, Telemetry, Fault
    <3> QED BY <3>1, FS_Interval
  <2>2. IsFiniteSet(parts)
    <3>1. of \in Surjection(Priorities, parts)
      BY DEF Surjection
    <3> QED BY <2>1, <3>1, FS_Surjection
  <2>3. \A T \in parts : IsFiniteSet(T)
    <3> SUFFICES ASSUME NEW l \in Priorities PROVE IsFiniteSet({l} \X (1..Len(q[l])))
      OBVIOUS
    <3>1. Len(q[l]) \in Int /\ 1 \in Int
      BY <1>1
    <3>2. IsFiniteSet({l}) /\ IsFiniteSet(1..Len(q[l]))
      BY <3>1, FS_Singleton, FS_Interval
    <3> QED BY <3>2, FS_Product
  <2>4. Places(q) \subseteq UNION parts
    BY <1>1 DEF Places
  <2> HIDE DEF parts
  <2>5. IsFiniteSet(UNION parts)
    BY <2>2, <2>3, FS_UNION
  <2> QED BY <2>4, <2>5, FS_Subset
<1>5. Length(q) = Cardinality(Places(q))
  BY DEF Length, Places
<1> QED BY <1>2, <1>3, <1>4, <1>5, FS_CardinalityType

(* With room, enqueue_packet loses nothing.                                *)
LEMMA EnqueueAdds ==
  ASSUME NEW q \in Lanes, NEW p \in Packet, Length(q) < QueueLimit
  PROVE  LET t == enqueue_packet(q, p, QueueLimit)
         IN Contents(q) \union {p} \subseteq Contents(t) /\ Length(t) <= Length(q) + 1
<1> DEFINE l == p.prio
           t == [q EXCEPT ![l] = Append(@, p)]
<1>1. l \in Priorities
  BY DEF Packet
<1>2. q[l] \in Seq(Packet) /\ Len(q[l]) \in Nat /\ DOMAIN q = Priorities
  BY <1>1, LanesHave
<1>3. /\ Len(Append(q[l], p)) = Len(q[l]) + 1
      /\ Append(q[l], p)[Len(q[l]) + 1] = p
      /\ \A k \in 1..Len(q[l]) : Append(q[l], p)[k] = q[l][k]
  BY <1>2
<1>4. /\ t \in Lanes /\ t[l] = Append(q[l], p) /\ \A j \in Priorities : j # l => t[j] = q[j]
  BY <1>1, <1>2, EndAdded
<1>5. enqueue_packet(q, p, QueueLimit) = t
  BY DEF enqueue_packet, Admits
<1> HIDE DEF t, l
<1>6. p \in Contents(t)
  <2>1. Len(q[l]) + 1 \in 1..Len(t[l])
    BY <1>2, <1>3, <1>4
  <2> QED BY <1>1, <1>3, <1>4, <2>1 DEF Contents
<1>7. ASSUME NEW r \in Contents(q)
      PROVE  r \in Contents(t)
  <2>1. PICK j \in Priorities : \E k \in 1..Len(q[j]) : r = q[j][k]
    BY DEF Contents
  <2>2. PICK k \in 1..Len(q[j]) : r = q[j][k]
    BY <2>1
  <2>3. k \in 1..Len(t[j]) /\ r = t[j][k]
    <3>1. CASE j = l
      BY <1>2, <1>3, <1>4, <2>2, <3>1
    <3>2. CASE j # l
      BY <1>4, <2>2, <3>2
    <3> QED BY <3>1, <3>2
  <2> QED BY <2>3 DEF Contents
<1>8. Length(t) <= Length(q) + 1
  <2> DEFINE new == <<l, Len(q[l]) + 1>>
  <2>1. Places(t) \subseteq Places(q) \union {new}
    <3> SUFFICES ASSUME NEW x \in Places(t) PROVE x \in Places(q) \union {new}
      OBVIOUS
    <3>1. x = <<x[1], x[2]>> /\ x[1] \in Priorities /\ x[2] \in 1..Len(t[x[1]])
      BY <1>4, PlacesAre
    <3>2. CASE x[1] # l
      BY <1>4, <3>1, <3>2, PlacesAre
    <3>3. CASE x[1] = l /\ x[2] = Len(q[l]) + 1
      BY <3>1, <3>3
    <3>4. CASE x[1] = l /\ x[2] # Len(q[l]) + 1
      <4>1. x[2] \in 1..Len(q[l])
        BY <1>2, <1>3, <1>4, <3>1, <3>4
      <4>2. <<l, x[2]>> \in Places(q)
        BY <1>1, <4>1, PlacesAre
      <4> QED BY <3>1, <3>4, <4>2
    <3> QED BY <3>2, <3>3, <3>4
  <2> HIDE DEF new
  <2>2. /\ IsFiniteSet(Places(q)) /\ Length(q) = Cardinality(Places(q)) /\ Length(q) \in Nat
        /\ Length(t) = Cardinality(Places(t)) /\ Length(t) \in Nat
    BY <1>4, PlacesAre
  <2>3. /\ IsFiniteSet(Places(q) \union {new})
        /\ Cardinality(Places(q) \union {new}) <= Cardinality(Places(q)) + 1
    <3>1. CASE new \in Places(q)
      <4>1. Places(q) \union {new} = Places(q)
        BY <3>1
      <4> QED BY <2>2, <4>1
    <3>2. CASE new \notin Places(q)
      <4>1. /\ IsFiniteSet(Places(q) \union {new})
            /\ Cardinality(Places(q) \union {new}) = Cardinality(Places(q)) + 1
        BY <2>2, <3>2, FS_AddElement
      <4> QED BY <2>2, <4>1
    <3> QED BY <3>1, <3>2
  <2>4. Cardinality(Places(t)) <= Cardinality(Places(q) \union {new})
        /\ Cardinality(Places(q) \union {new}) \in Nat
    BY <2>1, <2>3, FS_Subset, FS_CardinalityType
  <2> QED BY <2>2, <2>3, <2>4
<1> QED BY <1>5, <1>6, <1>7, <1>8

(* Taking a packet out loses that one at most.                             *)
LEMMA DequeueLeaves ==
  ASSUME NEW q \in Lanes, Occupied(q) # {}
  PROVE  /\ Contents(q) \subseteq Contents(dequeue_packet(q)) \union {Next_packet(q)}
         /\ Length(dequeue_packet(q)) <= Length(q)
<1> DEFINE l == Highest(q)
           t == [q EXCEPT ![l] = Tail(@)]
<1>1. l \in Priorities /\ q[l] # <<>>
  BY OccupiedLanes DEF Occupied
<1>2. q[l] \in Seq(Packet) /\ Len(q[l]) \in Nat /\ Len(q[l]) > 0 /\ DOMAIN q = Priorities
  BY <1>1, LanesHave
<1>3. /\ Len(Tail(q[l])) = Len(q[l]) - 1 /\ Head(q[l]) = q[l][1]
      /\ \A k \in 1..Len(Tail(q[l])) : Tail(q[l])[k] = q[l][k + 1]
  BY <1>2
<1>4. t \in Lanes /\ t[l] = Tail(q[l]) /\ \A j \in Priorities : j # l => t[j] = q[j]
  BY <1>1, <1>2, HeadTaken
<1>5. dequeue_packet(q) = t /\ Next_packet(q) = q[l][1]
  BY <1>3 DEF dequeue_packet, Next_packet
<1> HIDE DEF t, l
<1>6. ASSUME NEW r \in Contents(q), r # q[l][1]
      PROVE  r \in Contents(t)
  <2>1. PICK j \in Priorities : \E k \in 1..Len(q[j]) : r = q[j][k]
    BY DEF Contents
  <2>2. PICK k \in 1..Len(q[j]) : r = q[j][k]
    BY <2>1
  <2>3. CASE j # l
    BY <1>4, <2>2, <2>3 DEF Contents
  <2>4. CASE j = l
    <3>1. k # 1
      BY <1>6, <2>2, <2>4
    <3>2. k - 1 \in 1..Len(t[l]) /\ (k - 1) + 1 = k
      BY <1>2, <1>3, <1>4, <2>2, <2>4, <3>1
    <3>3. r = t[l][k - 1]
      BY <1>3, <1>4, <2>2, <2>4, <3>2
    <3> QED BY <1>1, <3>2, <3>3 DEF Contents
  <2> QED BY <2>3, <2>4
<1>7. Length(t) <= Length(q)
  <2>1. Places(t) \subseteq Places(q)
    <3> SUFFICES ASSUME NEW x \in Places(t) PROVE x \in Places(q)
      OBVIOUS
    <3>1. x = <<x[1], x[2]>> /\ x[1] \in Priorities /\ x[2] \in 1..Len(t[x[1]])
      BY <1>4, PlacesAre
    <3>2. x[2] \in 1..Len(q[x[1]])
      <4>1. CASE x[1] = l
        <5>1. x[2] \in 1..(Len(q[l]) - 1)
          BY <1>3, <1>4, <3>1, <4>1
        <5> QED BY <1>2, <4>1, <5>1
      <4>2. CASE x[1] # l
        BY <1>4, <3>1, <4>2
      <4> QED BY <4>1, <4>2
    <3> QED BY <3>1, <3>2, PlacesAre
  <2>2. /\ IsFiniteSet(Places(q)) /\ Length(q) = Cardinality(Places(q))
        /\ Length(t) = Cardinality(Places(t))
    BY <1>4, PlacesAre
  <2> QED BY <2>1, <2>2, FS_Subset
<1> QED BY <1>5, <1>6, <1>7
(* Packet p is on its way to node m in channel c, or waits there.          *)
Carried(c, m, p) == p \in Contents(c.queue[m]) \/ \E f \in c.air : m \in f.to /\ f.frame = p

(* There is room for k more packets in every queue.                        *)
Room(c, k) == \A n \in Nodes : Length(c.queue[n]) + k <= QueueLimit

(* Nothing carried in c is lost in d.                                      *)
CarriesOn(c, d) == \A m \in Nodes : \A p : Carried(c, m, p) => Carried(d, m, p)

LEMMA RoomLess ==
  ASSUME NEW c, ProperChannel(c), NEW k \in Nat, Room(c, k + 1)
  PROVE  Room(c, k)
<1> SUFFICES ASSUME NEW n \in Nodes PROVE Length(c.queue[n]) + k <= QueueLimit
  BY DEF Room
<1>1. c.queue[n] \in Lanes
  BY ChannelsHave DEF ProperChannel
<1>2. Length(c.queue[n]) \in Nat /\ Length(c.queue[n]) + (k + 1) <= QueueLimit
  BY <1>1, PlacesAre DEF Room
<1> QED BY <1>2, ForwardingAssumption

LEMMA AcceptedCarries ==
  ASSUME NEW c, ProperChannel(c), NEW p, Proper(p), NEW heard \in SUBSET Nodes,
         NEW k \in Nat, Room(c, k + 1)
  PROVE  LET d == Accepted(c, p, heard)
         IN Room(d, k) /\ CarriesOn(c, d) /\ \A m \in heard : Carried(d, m, p)
<1> DEFINE d == Accepted(c, p, heard)
<1>1. /\ d.air = c.air /\ \A m \in Nodes : c.queue[m] \in Lanes
      /\ \A m \in Nodes : d.queue[m] =
           IF m \in heard THEN enqueue_packet(c.queue[m], p, QueueLimit) ELSE c.queue[m]
  BY AcceptedQueues
<1> HIDE DEF d
<1>2. ASSUME NEW m \in Nodes
      PROVE  /\ Contents(c.queue[m]) \subseteq Contents(d.queue[m])
             /\ m \in heard => p \in Contents(d.queue[m])
             /\ Length(d.queue[m]) + k <= QueueLimit
  <2>1. Length(c.queue[m]) \in Nat /\ Length(c.queue[m]) + (k + 1) <= QueueLimit
    BY <1>1, PlacesAre DEF Room
  <2>2. CASE m \in heard
    <3>1. d.queue[m] = enqueue_packet(c.queue[m], p, QueueLimit) /\ p \in Packet
      BY <1>1, <2>2 DEF Proper
    <3>2. Length(c.queue[m]) < QueueLimit
      BY <2>1, ForwardingAssumption
    <3>3. /\ Contents(c.queue[m]) \union {p} \subseteq Contents(d.queue[m])
          /\ Length(d.queue[m]) <= Length(c.queue[m]) + 1
      BY <1>1, <3>1, <3>2, EnqueueAdds
    <3>4. Length(d.queue[m]) \in Nat
      BY <1>1, <3>1, EnqueueKeeps, PlacesAre
    <3> QED BY <2>1, <3>3, <3>4, ForwardingAssumption
  <2>3. CASE m \notin heard
    <3>1. d.queue[m] = c.queue[m]
      BY <1>1, <2>3
    <3> QED BY <2>1, <2>3, <3>1, ForwardingAssumption
  <2> QED BY <2>2, <2>3
<1>3. Room(d, k)
  BY <1>2 DEF Room
<1>4. CarriesOn(c, d) /\ \A m \in heard : Carried(d, m, p)
  BY <1>1, <1>2 DEF CarriesOn, Carried
<1> QED BY <1>3, <1>4 DEF d

LEMMA ScheduleCarries ==
  ASSUME NEW c, ProperChannel(c), NEW p, NEW receivers \in SUBSET Nodes,
         NEW k \in Nat, Room(c, k + 1)
  PROVE  LET d == _schedule_radio(c, p, receivers)
         IN Room(d, k) /\ CarriesOn(c, d) /\ \A m \in receivers : Carried(d, m, p)
<1> DEFINE d == _schedule_radio(c, p, receivers)
           f == [to |-> receivers, frame |-> p]
<1>1. Room(c, k)
  BY RoomLess
<1>2. CASE receivers = {}
  BY <1>1, <1>2 DEF _schedule_radio, CarriesOn
<1>3. CASE receivers # {}
  <2>1. d.queue = c.queue /\ d.air = c.air \union {f} /\ f.to = receivers /\ f.frame = p
    BY <1>3 DEF _schedule_radio, ProperChannel, Channels
  <2> HIDE DEF d, f
  <2> QED BY <1>1, <2>1 DEF Room, CarriesOn, Carried, d
<1> QED BY <1>2, <1>3

(* A lossless mesh, whose radios all work.                                 *)
Working == ~Lossy /\ \A n \in Nodes : up[n]

(* A broadcast reaches every neighbour that is not excluded.               *)
LEMMA BroadcastCarries ==
  ASSUME Working, NEW c, ProperChannel(c), NEW p, Proper(p), NEW n \in Nodes, NEW exclude,
         NEW d \in broadcast(c, n, p, exclude), NEW k \in Nat, Room(c, k + 1)
  PROVE  /\ Room(d, k) /\ CarriesOn(c, d)
         /\ \A m \in Nodes : <<n, m>> \in Links /\ m \notin exclude => Carried(d, m, p)
<1> DEFINE receivers == Near(n) \ exclude
<1>1. /\ receivers \in SUBSET Nodes
      /\ \A m \in Nodes : <<n, m>> \in Links /\ m \notin exclude => m \in receivers
  BY DEF Near, Working
<1>2. d = _schedule_radio(c, p, receivers) \/ d = Accepted(c, p, receivers)
  BY DEF broadcast, Working
<1> HIDE DEF receivers
<1> QED BY <1>1, <1>2, ScheduleCarries, AcceptedCarries

LEMMA RoutingCarries ==
  ASSUME NEW c, ProperChannel(c), NEW p, Proper(p), p.dest \in Nodes, NEW n \in Nodes,
         NEW o \in route_packet(c, n, p), NEW k \in Nat, Room(c, k + 1)
  PROVE  Room(o.chan, k) /\ CarriesOn(c, o.chan)
<1>1. CASE o.chan = c
  BY <1>1, RoomLess DEF CarriesOn
<1>2. ASSUME NEW hop \in NextHops[n][p.dest], hop # NoNode, o \in _deliver(c, p, hop)
      PROVE  Room(o.chan, k) /\ CarriesOn(c, o.chan)
  <2>1. NextHops[n] \in [Nodes -> SUBSET (Nodes \union {NoNode})]
    BY ForwardingAssumption
  <2>2. {hop} \in SUBSET Nodes
    BY <1>2, <2>1
  <2>3. \/ o.chan = c
        \/ o.chan = _schedule_radio(c, p, {hop})
        \/ o.chan = Accepted(c, p, {hop})
    BY <1>2 DEF _deliver
  <2>4. CASE o.chan = c
    BY <2>4, RoomLess DEF CarriesOn
  <2> QED BY <2>2, <2>3, <2>4, ScheduleCarries, AcceptedCarries
<1> QED BY <1>1, <1>2 DEF route_packet

(* A pass takes one packet from one node.                                  *)
LEMMA TakingCarries ==
  ASSUME IInv, Taking
  PROVE  /\ \A k \in Nat : Room(chan, k) => Room(Rest, k)
         /\ \A m \in Nodes : \A p : Carried(chan, m, p) =>
              Carried(Rest, m, p) \/ (m = Here /\ p = Current)
<1>1. Here \in Nodes
  BY TakenIsProper
<1>2. chan.queue[Here] \in Lanes /\ Occupied(chan.queue[Here]) # {}
  BY <1>1, ChannelsHave DEF IInv, ProperChannel, Taking
<1> DEFINE left == dequeue_packet(chan.queue[Here])
<1>3. /\ Contents(chan.queue[Here]) \subseteq Contents(left) \union {Current}
      /\ Length(left) <= Length(chan.queue[Here]) /\ left \in Lanes
  BY <1>2, DequeueLeaves, DequeueKeeps DEF Current
<1>4. /\ Rest.air = chan.air
      /\ \A n \in Nodes : Rest.queue[n] = IF n = Here THEN left ELSE chan.queue[n]
  BY <1>1, ChannelsHave DEF Rest, IInv, ProperChannel, Channels
<1> HIDE DEF left
<1>5. ASSUME NEW k \in Nat, Room(chan, k), NEW n \in Nodes
      PROVE  Length(Rest.queue[n]) + k <= QueueLimit
  <2>1. Length(chan.queue[n]) + k <= QueueLimit
    BY <1>5 DEF Room
  <2>2. CASE n = Here
    <3>1. Length(left) \in Nat /\ Length(chan.queue[Here]) \in Nat
      BY <1>2, <1>3, PlacesAre
    <3>2. Length(left) + k <= QueueLimit
      BY <1>3, <2>1, <2>2, <3>1, ForwardingAssumption
    <3> QED BY <1>4, <2>2, <3>2
  <2>3. CASE n # Here
    BY <1>4, <2>1, <2>3
  <2> QED BY <2>2, <2>3
<1>6. \A m \in Nodes : \A p : Carried(chan, m, p) =>
              Carried(Rest, m, p) \/ (m = Here /\ p = Current)
  BY <1>3, <1>4 DEF Carried
<1> QED BY <1>5, <1>6 DEF Room

(* A cache comes to hold the key it is given, and no other.                *)
LEMMA RememberAdds ==
  ASSUME NEW K, IsFiniteSet(K), Cardinality(K) <= CacheSize,
         NEW c \in Seq(K), Distinct(c), NEW key \in K, NEW k, Seen(Remember(c, key, CacheSize), k)
  PROVE  Seen(c, k) \/ k = key
<1> DEFINE L == {c[i] : i \in 1..Len(c)} \union {key}
           d == Remember(c, key, CacheSize)
<1>1. Len(c) \in Nat /\ (\A i \in 1..Len(c) : c[i] \in K) /\ c = [i \in 1..Len(c) |-> c[i]]
  BY LenProperties
<1>2. L \subseteq K
  BY <1>1
<1>3. IsFiniteSet(L) /\ Cardinality(L) <= CacheSize
  <2> HIDE DEF L
  <2>1. IsFiniteSet(L) /\ Cardinality(L) <= Cardinality(K)
    BY <1>2, FS_Subset
  <2>2. Cardinality(L) \in Nat /\ Cardinality(K) \in Nat
    BY <2>1, FS_CardinalityType
  <2> QED BY <2>1, <2>2, ForwardingAssumption
<1>4. c \in Seq(L)
  <2>1. \A i \in 1..Len(c) : c[i] \in L
    OBVIOUS
  <2> HIDE DEF L
  <2> QED BY <1>1, <2>1, IsASeq
<1>5. d \in Seq(L)
  <2>1. key \in L
    OBVIOUS
  <2> HIDE DEF L
  <2> QED BY <1>3, <1>4, <2>1, RememberKeeps
<1>6. k \in L
  <2>1. PICK i \in 1..Len(d) : d[i] = k
    BY DEF Seen
  <2> HIDE DEF L, d
  <2> QED BY <1>5, <2>1, LenProperties
<1> QED BY <1>6 DEF Seen

-----------------------------------------------------------------------------
(* Node n has alert a: it is its own, or n handled it (hd).                *)
Told(n, a, hd) == n = a[1] \/ <<n, a>> \in hd

(* What a copy p of an alert shows: everyone on its path has the alert,    *)
(* and it made no more hops than that, one aside if its origin heard it.   *)
(* is are the alerts injected.                                             *)
Good(p, hd, is) ==
  IF p.kind = "alert"
  THEN /\ identity(p) \in is /\ p.source \in p.path
       /\ \A n \in p.path : Told(n, identity(p), hd)
       /\ p.hops + 1 <= Cardinality(p.path)
                          + (IF <<p.origin, identity(p)>> \in hd THEN 1 ELSE 0)
  ELSE identity(p) \notin is

(* A copy of alert a is on its way to m.                                   *)
Coming(c, m, a) == \E p : Carried(c, m, p) /\ p.kind = "alert" /\ identity(p) = a

(* The caches hold no alert the node has not handled.                      *)
Honest == \A n \in Nodes : \A a \in issued : Seen(cache[n], a) => <<n, a>> \in handled

(* A neighbour of a node that has an alert has it, or a copy is coming.    *)
Covered ==
  \A a \in issued : \A n, m \in Nodes :
    <<n, m>> \in Links /\ Told(n, a, handled) => Told(m, a, handled) \/ Coming(chan, m, a)

Flooding ==
  /\ issued \subseteq Created(number)
  /\ \A x \in handled : x[2] \in issued
  /\ \A p \in Held(chan) : Good(p, handled, issued)
  /\ Honest
  /\ Covered

FloodInv == CacheInv /\ Working /\ (Roomy => Flooding)

LEMMA GoodStays ==
  ASSUME NEW p \in Packet, NEW hd, NEW is, Good(p, hd, is), NEW more, hd \subseteq more,
         NEW js, is \subseteq js, identity(p) \in js => identity(p) \in is
  PROVE  Good(p, more, js)
<1>1. CASE p.kind = "alert"
  <2>1. Cardinality(p.path) \in Nat /\ p.hops \in Nat
    <3>1. p.path \in SUBSET Nodes /\ p.hops \in Nat
      BY DEF Packet
    <3>2. IsFiniteSet(p.path)
      BY <3>1, FS_Subset, ForwardingAssumption
    <3> QED BY <3>1, <3>2, FS_CardinalityType
  <2>2. p.hops + 1 <= Cardinality(p.path) + (IF <<p.origin, identity(p)>> \in more THEN 1 ELSE 0)
    <3>1. p.hops + 1 <= Cardinality(p.path) + (IF <<p.origin, identity(p)>> \in hd THEN 1 ELSE 0)
      BY <1>1 DEF Good
    <3>2. CASE <<p.origin, identity(p)>> \in hd
      BY <3>1, <3>2
    <3>3. CASE <<p.origin, identity(p)>> \notin hd
      BY <2>1, <3>1, <3>3
    <3> QED BY <3>2, <3>3
  <2> QED BY <1>1, <2>2 DEF Good, Told
<1>2. CASE p.kind # "alert"
  BY <1>2 DEF Good
<1> QED BY <1>1, <1>2

LEMMA HeldArePackets ==
  ASSUME NEW c, ProperChannel(c)
  PROVE  /\ \A p \in Held(c) : Proper(p) /\ p \in Packet
         /\ \A m \in Nodes : \A p : Carried(c, m, p) => p \in Held(c)
<1>1. \A n \in Nodes : \A p \in Contents(c.queue[n]) : Proper(p)
  BY DEF ProperChannel, ProperQueues
<1>2. \A f \in c.air : Proper(f.frame)
  BY DEF ProperChannel, ProperAir
<1>3. ASSUME NEW p \in Held(c)
      PROVE  Proper(p) /\ p \in Packet
  <2>1. CASE \E n \in Nodes : p \in Contents(c.queue[n])
    BY <1>1, <2>1 DEF Proper
  <2>2. CASE \E f \in c.air : p = f.frame
    BY <1>2, <2>2 DEF Proper
  <2> QED BY <2>1, <2>2 DEF Held
<1> QED BY <1>3 DEF Held, Carried

(* A number not given out yet names no alert.                              *)
LEMMA NotIssued ==
  ASSUME FloodInv, Roomy, NEW n \in Nodes, NEW no, no > number[n]
  PROVE  <<n, no>> \notin issued
<1>1. issued \subseteq Created(number) /\ number[n] \in Nat
  BY DEF FloodInv, Flooding, CacheInv, IInv, TypeOK
<1> SUFFICES ASSUME <<n, no>> \in issued PROVE FALSE
  OBVIOUS
<1>2. no \in Nat /\ no <= number[n]
  BY <1>1 DEF Created
<1> QED BY <1>1, <1>2

(* A step that injects and handles no alert.                               *)
LEMMA StillFlooding ==
  ASSUME FloodInv, CacheInv', UNCHANGED <<up, issued, handled>>,
         \A n \in Nodes : number[n] <= number'[n],
         Roomy /\ Roomy' =>
           /\ \A p \in Held(chan') : Good(p, handled, issued)
           /\ \A n \in Nodes : \A a \in issued : Seen(cache'[n], a) =>
                Seen(cache[n], a) \/ <<n, a>> \in handled
           /\ \A m \in Nodes : \A p : Carried(chan, m, p) /\ p.kind = "alert" =>
                Carried(chan', m, p) \/ Told(m, identity(p), handled)
  PROVE  FloodInv'
<1>1. number \in [Nodes -> Nat] /\ number' \in [Nodes -> Nat]
  BY DEF FloodInv, CacheInv, IInv, TypeOK
<1>2. Working'
  BY DEF FloodInv, Working
<1>3. ASSUME Roomy'
      PROVE  Flooding'
  <2>1. Roomy /\ Created(number) \subseteq Created(number')
    BY <1>1, <1>3, CreatedGrows DEF Roomy
  <2>2. Flooding
    BY <2>1 DEF FloodInv
  <2>3. issued' \subseteq Created(number') /\ \A x \in handled' : x[2] \in issued'
    BY <2>1, <2>2 DEF Flooding
  <2>4. \A p \in Held(chan') : Good(p, handled', issued')
    BY <1>3, <2>1
  <2>5. Honest'
    BY <1>3, <2>1, <2>2 DEF Flooding, Honest
  <2>6. Covered'
    <3> SUFFICES ASSUME NEW a \in issued, NEW n \in Nodes, NEW m \in Nodes, <<n, m>> \in Links,
                        Told(n, a, handled), ~Told(m, a, handled)
                 PROVE  Coming(chan', m, a)
      BY DEF Covered, Coming, Carried
    <3>1. Coming(chan, m, a)
      BY <2>2 DEF Flooding, Covered
    <3>2. PICK p : Carried(chan, m, p) /\ p.kind = "alert" /\ identity(p) = a
      BY <3>1 DEF Coming
    <3>3. Carried(chan', m, p)
      BY <1>3, <2>1, <3>2
    <3> QED BY <3>2, <3>3 DEF Coming
  <2> QED BY <2>3, <2>4, <2>5, <2>6 DEF Flooding
<1> QED BY <1>2, <1>3 DEF FloodInv

(* A row sent by a node that measured it.                                  *)
LEMMA ReadingFlooding ==
  ASSUME FloodInv, CacheInv', Room(chan, 2), NEW n \in Nodes, NEW row \in 1..MaxRows,
         number' = [number EXCEPT ![n] = @ + 1],
         NEW o \in route_packet(chan, n, Reading(n, row)), chan' = o.chan,
         UNCHANGED <<up, cache, issued, handled>>
  PROVE  FloodInv'
<1> DEFINE p == Reading(n, row)
<1>1. ProperChannel(chan) /\ Proper(p) /\ p.dest \in Nodes
  BY ReadingIsProper, ForwardingAssumption DEF FloodInv, CacheInv, IInv
<1>2. number[n] \in Nat /\ \A m \in Nodes : number[m] <= number'[m]
  <2>1. number \in [Nodes -> Nat] /\ \A m \in Nodes : number[m] \in Nat
    BY DEF FloodInv, CacheInv, IInv, TypeOK
  <2> QED BY <2>1
<1>3. p.kind = "data" /\ identity(p) = <<n, number[n] + 1>>
  BY DEF Reading, create_packet, identity
<1> HIDE DEF p
<1>4. Held(chan') \subseteq Held(chan) \union {p}
  BY <1>1, RoutingHolds DEF p
<1>5. CarriesOn(chan, chan')
  <2>1. Room(chan, 1 + 1)
    OBVIOUS
  <2> QED BY <1>1, <2>1, RoutingCarries DEF p
<1>6. ASSUME Roomy
      PROVE  \A q \in Held(chan') : Good(q, handled, issued)
  <2>1. number[n] + 1 > number[n]
    BY <1>2
  <2>2. <<n, number[n] + 1>> \notin issued
    BY <1>6, <2>1, NotIssued
  <2>3. Good(p, handled, issued)
    BY <1>3, <2>2 DEF Good
  <2> QED BY <1>4, <1>6, <2>3 DEF FloodInv, Flooding
<1> QED BY <1>2, <1>5, <1>6, StillFlooding DEF CarriesOn

(* What a taken packet leaves in the caches.                               *)
LEMMA TakingFloods ==
  ASSUME FloodInv, Taking
  PROVE  /\ Here \in Nodes /\ Current \in Packet /\ Proper(Current) /\ ProperChannel(Rest)
         /\ Current \in Held(chan) /\ Held(Rest) \subseteq Held(chan)
         /\ Roomy => /\ Good(Current, handled, issued)
                     /\ \A n \in Nodes : \A k : Seen(Remembering[n], k) =>
                          Seen(cache[n], k) \/ (n = Here /\ k = identity(Current))
<1>1. IInv /\ Here \in Nodes /\ Proper(Current) /\ ProperChannel(Rest) /\ Current \in Packet
  BY TakenIsProper DEF FloodInv, CacheInv, Proper
<1>2. Current \in Held(chan) /\ Held(Rest) \subseteq Held(chan)
  BY <1>1, TakingHolds
<1>3. ASSUME Roomy
      PROVE  Good(Current, handled, issued)
  BY <1>2, <1>3 DEF FloodInv, Flooding
<1>4. ASSUME Roomy, NEW n \in Nodes, NEW k, Seen(Remembering[n], k)
      PROVE  Seen(cache[n], k) \/ (n = Here /\ k = identity(Current))
  <2> DEFINE K == Created(number)
  <2>1. /\ DOMAIN cache = Nodes /\ cache[n] \in Seq(K) /\ Distinct(cache[n])
    BY <1>4 DEF FloodInv, CacheInv, Recalls
  <2>2. IsFiniteSet(K) /\ Cardinality(K) <= CacheSize
    BY <1>1, <1>4, CreatedFinite DEF Roomy, IInv, TypeOK
  <2>3. identity(Current) \in K /\ duplicate_key(Current) = identity(Current)
    BY <1>2 DEF FloodInv, CacheInv, Known, duplicate_key, identity
  <2> HIDE DEF K
  <2>4. CASE n = Here
    <3>1. Remembering[n] = Remember(cache[n], identity(Current), CacheSize)
      BY <2>1, <2>3, <2>4 DEF Remembering
    <3> QED BY <1>4, <2>1, <2>2, <2>3, <2>4, <3>1, RememberAdds
  <2>5. CASE n # Here
    <3>1. Remembering[n] = cache[n]
      BY <2>1, <2>5 DEF Remembering
    <3> QED BY <1>4, <3>1
  <2> QED BY <2>4, <2>5
<1> QED BY <1>1, <1>2, <1>3, <1>4

(* A packet taken that is no alert, or one the node has.                   *)
LEMMA TakenFlooding ==
  ASSUME FloodInv, CacheInv', Room(chan, 2),
         ReceiveDuplicate \/ ReceiveFinal \/ ReceiveRelay \/ ReceiveOneHop
  PROVE  FloodInv'
<1>1. Taking /\ cache' = Remembering /\ UNCHANGED <<up, number, issued, handled>>
  BY DEF ReceiveDuplicate, ReceiveFinal, ReceiveRelay, ReceiveOneHop, TakingFresh, history
<1>2. /\ Here \in Nodes /\ Current \in Packet /\ Proper(Current) /\ ProperChannel(Rest)
      /\ Held(Rest) \subseteq Held(chan)
      /\ Roomy => /\ Good(Current, handled, issued)
                  /\ \A n \in Nodes : \A k : Seen(Remembering[n], k) =>
                       Seen(cache[n], k) \/ (n = Here /\ k = identity(Current))
  BY <1>1, TakingFloods
<1>3. \A m \in Nodes : number[m] <= number'[m]
  <2>1. \A m \in Nodes : number[m] \in Nat
    BY DEF FloodInv, CacheInv, IInv, TypeOK
  <2> QED BY <1>1, <2>1
<1>4. Current.kind = "alert" => ReceiveDuplicate
  <2>1. Current.kind = "alert" => Current.dest = NoNode
    BY <1>2 DEF Proper, Addressed
  <2>2. Here # NoNode
    BY <1>2, ForwardingAssumption DEF NoNode
  <2> QED BY <2>1, <2>2 DEF ReceiveFinal, ReceiveRelay, ReceiveOneHop
<1>5. Roomy /\ Current.kind = "alert" => <<Here, identity(Current)>> \in handled
  <2> SUFFICES ASSUME Roomy, Current.kind = "alert" PROVE <<Here, identity(Current)>> \in handled
    OBVIOUS
  <2>1. Seen(cache[Here], identity(Current))
    BY <1>4 DEF ReceiveDuplicate, duplicate_key, identity
  <2>2. identity(Current) \in issued /\ Honest
    BY <1>2 DEF Good, FloodInv, Flooding
  <2> QED BY <1>2, <2>1, <2>2 DEF Honest
<1>6. ASSUME Roomy, NEW n \in Nodes, NEW a \in issued, Seen(cache'[n], a)
      PROVE  Seen(cache[n], a) \/ <<n, a>> \in handled
  <2>1. Seen(cache[n], a) \/ (n = Here /\ a = identity(Current))
    BY <1>1, <1>2, <1>6
  <2>2. a = identity(Current) => Current.kind = "alert"
    BY <1>2, <1>6 DEF Good
  <2> QED BY <1>5, <1>6, <2>1, <2>2
<1> DEFINE q == forwarded(Current, Here)
<1>7. CarriesOn(Rest, chan') /\ (Held(chan') \subseteq Held(Rest) \/
        (Held(chan') \subseteq Held(Rest) \union {q} /\ q.kind = Current.kind
           /\ identity(q) = identity(Current) /\ Current.kind # "alert"))
  <2>1. CASE chan' = Rest
    BY <2>1 DEF CarriesOn
  <2>2. CASE /\ Forwardable(Current) /\ Current.dest \notin {NoNode, Here}
             /\ \E o \in route_packet(Rest, Here, forwarded(Current, Here)) : chan' = o.chan
    <3>1. Proper(q) /\ q.dest \in Nodes /\ New(Current, Here)
      <4>1. New(Current, Here)
        BY <1>1, TakenIsProper DEF FloodInv, CacheInv
      <4> QED BY <1>2, <2>2, <4>1, ForwardedIsProper DEF Proper, Packet
    <3>2. identity(q) = identity(Current) /\ q.kind = Current.kind
      BY <1>2, ForwardedIsKnown DEF forwarded, Packet
    <3>3. Current.kind # "alert"
      BY <1>2, <2>2 DEF Proper, Addressed
    <3> HIDE DEF q
    <3>4. PICK o \in route_packet(Rest, Here, q) : chan' = o.chan
      BY <2>2 DEF q
    <3>5. Room(Rest, 1 + 1)
      <4>1. Room(Rest, 2)
        BY <1>1, TakingCarries DEF FloodInv, CacheInv
      <4> QED BY <4>1
    <3>6. CarriesOn(Rest, chan') /\ Held(chan') \subseteq Held(Rest) \union {q}
      BY <1>2, <3>1, <3>4, <3>5, RoutingHolds, RoutingCarries
    <3> QED BY <3>2, <3>3, <3>6
  <2> QED BY <2>1, <2>2 DEF ReceiveDuplicate, ReceiveFinal, ReceiveRelay, ReceiveOneHop
<1> HIDE DEF q
<1>8. ASSUME Roomy
      PROVE  \A p \in Held(chan') : Good(p, handled, issued)
  <2>1. \A p \in Held(Rest) : Good(p, handled, issued)
    BY <1>2, <1>8 DEF FloodInv, Flooding
  <2>2. Current.kind # "alert" /\ q.kind = Current.kind /\ identity(q) = identity(Current)
          => Good(q, handled, issued)
    BY <1>2, <1>8 DEF Good
  <2> QED BY <1>7, <2>1, <2>2
<1>9. ASSUME Roomy, NEW m \in Nodes, NEW p, Carried(chan, m, p), p.kind = "alert"
      PROVE  Carried(chan', m, p) \/ Told(m, identity(p), handled)
  <2>1. Carried(Rest, m, p) \/ (m = Here /\ p = Current)
    BY <1>1, <1>9, TakingCarries DEF FloodInv, CacheInv
  <2> QED BY <1>5, <1>7, <1>9, <2>1 DEF CarriesOn, Told
<1> QED BY <1>1, <1>3, <1>6, <1>8, <1>9, StillFlooding

LEMMA LandingFlooding ==
  ASSUME FloodInv, CacheInv', Room(chan, 2), Landing
  PROVE  FloodInv'
<1>1. PICK f \in chan.air : Land(f)
  BY DEF Landing
<1>2. ProperChannel(chan) /\ f \in Frame /\ Proper(f.frame) /\ \A m \in f.to : New(f.frame, m)
  BY ChannelsHave DEF FloodInv, CacheInv, IInv, ProperChannel, ProperAir
<1>3. f.to \in SUBSET Nodes /\ f.frame.source \in Nodes
  BY <1>2 DEF Frame, Packet
<1> DEFINE c == Accepted(chan, f.frame, f.to)
<1>4. chan' = [c EXCEPT !.air = @ \ {f}]
  <2>1. {m \in f.to : up[m] /\ up[f.frame.source]} = f.to
    BY <1>3 DEF FloodInv, Working
  <2> QED BY <1>1, <2>1 DEF Land, FloodInv, Working
<1>5. ProperChannel(c) /\ CarriesOn(chan, c) /\ (\A m \in f.to : Carried(c, m, f.frame))
      /\ Held(c) \subseteq Held(chan) /\ c.air = chan.air
      /\ \A m \in f.to : f.frame \in Contents(c.queue[m])
  <2>1. Room(chan, 1 + 1)
    OBVIOUS
  <2>2. f.frame \in Held(chan)
    BY DEF Held
  <2>3. Held(c) \subseteq Held(chan) \union {f.frame}
    BY <1>2, <1>3, HoldingMore
  <2>4. \A m \in f.to : f.frame \in Contents(c.queue[m])
    <3> SUFFICES ASSUME NEW m \in f.to PROVE f.frame \in Contents(c.queue[m])
      OBVIOUS
    <3>1. m \in Nodes /\ chan.queue[m] \in Lanes /\ f.frame \in Packet
      BY <1>2, <1>3, ChannelsHave DEF ProperChannel, Proper
    <3>2. Length(chan.queue[m]) < QueueLimit
      <4>1. Length(chan.queue[m]) \in Nat /\ Length(chan.queue[m]) + 2 <= QueueLimit
        BY <3>1, PlacesAre DEF Room
      <4> QED BY <4>1, ForwardingAssumption
    <3>3. f.frame \in Contents(enqueue_packet(chan.queue[m], f.frame, QueueLimit))
      BY <3>1, <3>2, EnqueueAdds
    <3>4. c.queue[m] = enqueue_packet(chan.queue[m], f.frame, QueueLimit)
      BY <1>2, <1>3, <3>1, AcceptedQueues
    <3> QED BY <3>3, <3>4
  <2> QED BY <1>2, <1>3, <2>1, <2>2, <2>3, <2>4, AcceptedIsProper, AcceptedCarries, AcceptedQueues
<1> HIDE DEF c
<1>6. chan'.queue = c.queue /\ chan'.air = c.air \ {f}
  BY <1>4, <1>5 DEF ProperChannel, Channels
<1>7. Held(chan') \subseteq Held(chan)
  BY <1>5, <1>6 DEF Held
<1>8. \A m \in Nodes : \A p : Carried(chan, m, p) => Carried(chan', m, p)
  BY <1>5, <1>6 DEF Carried, CarriesOn
<1>9. UNCHANGED <<up, number, cache, issued, handled>>
  BY <1>1 DEF Land, history
<1>10. \A m \in Nodes : number[m] <= number'[m]
  <2>1. \A m \in Nodes : number[m] \in Nat
    BY DEF FloodInv, CacheInv, IInv, TypeOK
  <2> QED BY <1>9, <2>1
<1>11. Roomy => \A p \in Held(chan') : Good(p, handled, issued)
  BY <1>7 DEF FloodInv, Flooding
<1> QED BY <1>8, <1>9, <1>10, <1>11, StillFlooding

LEMMA SendingFlooding ==
  ASSUME FloodInv, CacheInv', Room(chan, 2), NEW n \in Nodes, _send_telemetry(n)
  PROVE  FloodInv'
<1>1. /\ rows' \in 1..MaxRows /\ UNCHANGED <<up, issued, handled>>
      /\ number \in [Nodes -> Nat] /\ \A m \in Nodes : number[m] \in Nat
  BY ForwardingAssumption DEF _send_telemetry, FloodInv, CacheInv, IInv, TypeOK
<1>2. CASE UNCHANGED <<chan, cache, number>>
  <2>1. \A m \in Nodes : number[m] <= number'[m]
    BY <1>1, <1>2
  <2> QED BY <1>1, <1>2, <2>1, StillFlooding DEF FloodInv, Flooding
<1>3. CASE /\ number' = [number EXCEPT ![n] = @ + 1]
           /\ \E o \in route_packet(chan, n, Reading(n, rows')) : chan' = o.chan
           /\ UNCHANGED cache
  BY <1>1, <1>3, ReadingFlooding
<1>4. CASE /\ number' = [number EXCEPT ![n] = @ + 1]
           /\ cache' = [cache EXCEPT ![n] =
                          Remember(@, duplicate_key(Reading(n, rows')), CacheSize)]
           /\ UNCHANGED chan
  <2> DEFINE key == <<n, number[n] + 1>>
  <2>1. /\ \A m \in Nodes : number[m] <= number'[m]
        /\ number[n] + 1 > number[n]
    BY <1>1, <1>4
  <2>2. duplicate_key(Reading(n, rows')) = key
    BY DEF duplicate_key, Reading, create_packet
  <2>3. ASSUME Roomy, Roomy', NEW m \in Nodes, NEW a \in issued, Seen(cache'[m], a)
        PROVE  Seen(cache[m], a) \/ <<m, a>> \in handled
    <3>1. key \notin issued
      BY <2>1, <2>3, NotIssued
    <3> DEFINE K == Created(number')
    <3>2. IsFiniteSet(K) /\ Cardinality(K) <= CacheSize /\ Created(number) \subseteq K
      <4>1. number' \in [Nodes -> Nat]
        BY DEF CacheInv, IInv, TypeOK
      <4> QED BY <1>1, <2>1, <2>3, <4>1, CreatedFinite, CreatedGrows DEF Roomy
    <3>3. Recalls(cache, handled, K) /\ key \in K
      <4>1. Recalls(cache, handled, Created(number))
        BY <2>3 DEF FloodInv, CacheInv
      <4>2. number[n] + 1 \in Nat /\ 1 <= number[n] + 1 /\ number'[n] = number[n] + 1
        BY <1>1, <1>4
      <4>3. key \in K
        BY <4>2 DEF Created
      <4> HIDE DEF K
      <4> QED BY <3>2, <4>1, <4>3, RecallsMore
    <3> HIDE DEF K, key
    <3>4. DOMAIN cache = Nodes /\ cache[m] \in Seq(K) /\ Distinct(cache[m])
      BY <3>3 DEF Recalls
    <3>5. cache'[m] = IF m = n THEN Remember(cache[m], key, CacheSize) ELSE cache[m]
      BY <1>4, <2>2, <3>4
    <3>6. Seen(cache[m], a) \/ a = key
      <4>1. CASE m = n
        BY <2>3, <3>2, <3>3, <3>4, <3>5, <4>1, RememberAdds
      <4>2. CASE m # n
        BY <2>3, <3>5, <4>2
      <4> QED BY <4>1, <4>2
    <3> QED BY <2>3, <3>1, <3>6
  <2> QED BY <1>1, <1>4, <2>1, <2>3, StillFlooding DEF FloodInv, Flooding
<1> QED BY <1>2, <1>3, <1>4 DEF _send_telemetry

LEMMA InjectionFlooding ==
  ASSUME FloodInv, CacheInv', Room(chan, 2), NEW n \in Origins, NEW ttl \in Severities,
         inject_fault(n, ttl)
  PROVE  FloodInv'
<1> DEFINE alert == create_packet("alert", n, number[n] + 1, NoNode, Fault, ttl, <<>>)
           coord == create_packet("coord", n, number[n] + 2, NoNode, Control, ttl, <<>>)
           a == <<n, number[n] + 1>>
<1>1. /\ n \in Nodes /\ number \in [Nodes -> Nat] /\ number[n] \in Nat
      /\ number' = [number EXCEPT ![n] = @ + 2] /\ issued' = issued \union {a}
      /\ UNCHANGED <<up, cache, handled>>
  BY ForwardingAssumption DEF inject_fault, FloodInv, CacheInv, IInv, TypeOK, create_packet, identity
<1>2. number'[n] = number[n] + 2 /\ \A m \in Nodes : number[m] <= number'[m]
  <2>1. \A m \in Nodes : number[m] \in Nat
    BY <1>1
  <2> QED BY <1>1, <2>1
<1>3. Proper(alert) /\ Proper(coord)
  <2>1. Fault \in Priorities /\ Control \in Priorities /\ number[n] + 1 \in Nat /\ number[n] + 2 \in Nat
    BY <1>1 DEF Fault, Control, Priorities, Telemetry
  <2> QED BY <1>1, <2>1, FloodedIsProper
<1>4. /\ alert.kind = "alert" /\ identity(alert) = a /\ alert.source = n /\ alert.origin = n
      /\ alert.path = {n} /\ alert.hops = 0 /\ alert.dest = NoNode
      /\ coord.kind = "coord" /\ identity(coord) = <<n, number[n] + 2>> /\ coord.dest = NoNode
  BY DEF create_packet, identity
<1>5. PICK c \in broadcast(chan, n, alert, {}) : chan' \in broadcast(c, n, coord, {})
  BY DEF inject_fault
<1> HIDE DEF alert, coord, a
<1>6. /\ ProperChannel(c) /\ Held(c) \subseteq Held(chan) \union {alert}
      /\ Room(c, 0 + 1) /\ CarriesOn(chan, c)
      /\ \A m \in Nodes : <<n, m>> \in Links => Carried(c, m, alert)
  <2>1. ProperChannel(chan) /\ Room(chan, 1 + 1) /\ Working
    BY DEF FloodInv, CacheInv, IInv
  <2>2. /\ ProperChannel(c) /\ Held(c) \subseteq Held(chan) \union {alert}
    BY <1>3, <1>4, <1>5, <2>1, BroadcastHolds, BroadcastIsProper
  <2>3. /\ Room(c, 1) /\ CarriesOn(chan, c)
        /\ \A m \in Nodes : <<n, m>> \in Links /\ m \notin {} => Carried(c, m, alert)
    BY <1>1, <1>3, <1>5, <2>1, BroadcastCarries
  <2> QED BY <2>2, <2>3
<1>7. Held(chan') \subseteq Held(c) \union {coord} /\ CarriesOn(c, chan')
  BY <1>1, <1>3, <1>5, <1>6, BroadcastHolds, BroadcastCarries DEF FloodInv
<1>8. ASSUME Roomy'
      PROVE  Flooding'
  <2>1. Roomy /\ Created(number) \subseteq Created(number')
    <3>1. number' \in [Nodes -> Nat]
      BY DEF CacheInv, IInv, TypeOK
    <3> QED BY <1>1, <1>2, <1>8, <3>1, CreatedGrows DEF Roomy
  <2>2. Flooding /\ Known(chan, number) /\ Recalls(cache, handled, Created(number))
    BY <2>1 DEF FloodInv, CacheInv
  <2>3. a \notin Created(number) /\ a \in Created(number') /\ a \notin issued
    <3>1. /\ number[n] + 1 \in Nat /\ 1 <= number[n] + 1 /\ number[n] + 1 <= number'[n]
          /\ ~(number[n] + 1 <= number[n])
      BY <1>1, <1>2
    <3>2. a \notin Created(number) /\ a \in Created(number')
      BY <1>1, <3>1 DEF Created, a
    <3> QED BY <2>2, <3>2 DEF Flooding
  <2>4. issued' \subseteq Created(number') /\ \A x \in handled' : x[2] \in issued'
    BY <1>1, <2>1, <2>2, <2>3 DEF Flooding
  <2>5. Good(alert, handled, issued')
    <3>1. Cardinality({n}) = 1
      BY FS_Singleton
    <3>2. Told(n, a, handled)
      BY DEF Told, a
    <3> QED BY <1>1, <1>4, <3>1, <3>2 DEF Good
  <2>6. Good(coord, handled, issued')
    <3>1. number[n] + 2 > number[n] /\ number[n] + 2 # number[n] + 1
      BY <1>1
    <3>2. <<n, number[n] + 2>> \notin issued /\ <<n, number[n] + 2>> # a
      BY <1>1, <2>1, <3>1, NotIssued DEF a
    <3> QED BY <1>1, <1>4, <3>2 DEF Good
  <2>7. \A p \in Held(chan) : Good(p, handled, issued')
    <3> SUFFICES ASSUME NEW p \in Held(chan) PROVE Good(p, handled, issued')
      OBVIOUS
    <3>1. p \in Packet /\ Good(p, handled, issued) /\ identity(p) # a
      BY <2>2, <2>3, HeldArePackets DEF FloodInv, CacheInv, IInv, Flooding, Known
    <3> QED BY <1>1, <3>1, GoodStays
  <2>8. \A p \in Held(chan') : Good(p, handled', issued')
    BY <1>1, <1>6, <1>7, <2>5, <2>6, <2>7
  <2>9. Honest'
    <3> SUFFICES ASSUME NEW m \in Nodes, NEW b \in issued', Seen(cache[m], b)
                 PROVE  <<m, b>> \in handled
      BY <1>1 DEF Honest
    <3>1. cache[m] \in Seq(Created(number))
      BY <2>2 DEF Recalls
    <3>2. b \in Created(number)
      <4>1. PICK i \in 1..Len(cache[m]) : cache[m][i] = b
        BY DEF Seen
      <4> QED BY <3>1, <4>1, LenProperties
    <3> QED BY <1>1, <2>2, <2>3, <3>2 DEF Flooding, Honest
  <2>10. Covered'
    <3> SUFFICES ASSUME NEW b \in issued', NEW k \in Nodes, NEW m \in Nodes, <<k, m>> \in Links,
                        Told(k, b, handled)
                 PROVE  Told(m, b, handled) \/ Coming(chan', m, b)
      BY <1>1 DEF Covered, Coming, Carried
    <3>1. CASE b \in issued
      <4>1. Told(m, b, handled) \/ Coming(chan, m, b)
        BY <2>2, <3>1 DEF Flooding, Covered
      <4> QED BY <1>6, <1>7, <4>1 DEF Coming, CarriesOn
    <3>2. CASE b = a
      <4>1. <<k, a>> \notin handled
        BY <2>2, <2>3 DEF Flooding
      <4>2. k = n
        BY <3>2, <4>1 DEF Told, a
      <4>3. Carried(chan', m, alert)
        BY <1>6, <1>7, <4>2 DEF CarriesOn
      <4> QED BY <1>4, <3>2, <4>3 DEF Coming
    <3> QED BY <1>1, <3>1, <3>2
  <2> QED BY <2>4, <2>8, <2>9, <2>10 DEF Flooding
<1> QED BY <1>1, <1>8 DEF FloodInv, Working

(* The TTLs and max_hops let an alert visit every node.                    *)
FarEnough ==
  /\ \A t \in Severities : t >= Cardinality(Nodes)
  /\ MaxHops + 1 >= Cardinality(Nodes)

(* A copy that a node handles first goes on, if a node is left out of it.  *)
LEMMA GoesOn ==
  ASSUME FarEnough, NEW p, Proper(p), p.kind = "alert", NEW hd, NEW is, Good(p, hd, is),
         NEW n \in Nodes, <<n, identity(p)>> \notin hd,
         NEW m \in Nodes, m # n, ~Told(m, identity(p), hd)
  PROVE  Forwardable(p)
<1> DEFINE N == Cardinality(Nodes)
           P == Cardinality(p.path)
<1>1. p \in Packet /\ p.path \in SUBSET Nodes /\ p.hops \in Nat /\ p.ttl \in Nat /\ MaxHops \in Nat
  BY ForwardingAssumption DEF Proper, Packet
<1>2. /\ \A k \in p.path : Told(k, identity(p), hd)
      /\ p.hops + 1 <= P + (IF <<p.origin, identity(p)>> \in hd THEN 1 ELSE 0)
      /\ identity(p)[1] = p.origin
  BY DEF Good, identity
<1>3. /\ IsFiniteSet(Nodes \ {m}) /\ Cardinality(Nodes \ {m}) = N - 1 /\ N \in Nat
  BY FS_RemoveElement, FS_CardinalityType, ForwardingAssumption
<1>4. p.hops + 2 <= N
  <2>1. CASE n = p.origin
    <3>1. p.path \subseteq Nodes \ {m}
      BY <1>1, <1>2
    <3>2. P <= N - 1 /\ P \in Nat
      BY <1>3, <3>1, FS_Subset, FS_CardinalityType
    <3>3. p.hops + 1 <= P
      BY <1>2, <2>1, <3>2
    <3> HIDE DEF P, N
    <3> QED BY <1>1, <1>3, <3>2, <3>3
  <2>2. CASE n # p.origin
    <3>1. p.path \subseteq (Nodes \ {m}) \ {n}
      BY <1>1, <1>2, <2>2 DEF Told
    <3>2. /\ IsFiniteSet((Nodes \ {m}) \ {n})
          /\ Cardinality((Nodes \ {m}) \ {n}) = Cardinality(Nodes \ {m}) - 1
      BY <1>3, FS_RemoveElement
    <3>3. P <= Cardinality((Nodes \ {m}) \ {n}) /\ P \in Nat
      BY <3>1, <3>2, FS_Subset, FS_CardinalityType
    <3>4. p.hops + 1 <= P \/ p.hops + 1 <= P + 1
      <4> HIDE DEF P
      <4> QED BY <1>2, <3>3
    <3>5. P <= N - 2
      <4> HIDE DEF P, N
      <4> QED BY <1>3, <3>2, <3>3
    <3> HIDE DEF P, N
    <3> QED BY <1>1, <1>3, <3>3, <3>4, <3>5
  <2> QED BY <2>1, <2>2
<1>5. p.hops + p.ttl \in Severities
  <2>1. p.dest = NoNode
    BY DEF Proper, Addressed
  <2> QED BY <2>1 DEF Proper, Ages
<1>6. p.hops + p.ttl >= N /\ MaxHops + 1 >= N
  BY <1>5 DEF FarEnough
<1> HIDE DEF N, P
<1>7. p.ttl > 1 /\ p.hops < MaxHops
  BY <1>1, <1>3, <1>4, <1>6
<1> QED BY <1>7 DEF Forwardable

(* And what goes on is good: its path and its hops grow together.          *)
LEMMA ForwardedGood ==
  ASSUME NEW p \in Packet, p.kind = "alert", NEW hd, NEW is, Good(p, hd, is), NEW n \in Nodes,
         <<n, identity(p)>> \notin hd
  PROVE  Good(forwarded(p, n), hd \union {<<n, identity(p)>>}, is)
<1> DEFINE q == forwarded(p, n)
           more == hd \union {<<n, identity(p)>>}
           P == Cardinality(p.path)
           Q == Cardinality(p.path \union {n})
           extra(h) == IF <<p.origin, identity(p)>> \in h THEN 1 ELSE 0
<1>1. /\ q.kind = "alert" /\ q.source = n /\ q.hops = p.hops + 1 /\ q.path = p.path \union {n}
      /\ q.origin = p.origin /\ identity(q) = identity(p)
  <2>1. q.kind = p.kind /\ q.source = n /\ q.hops = p.hops + 1 /\ q.path = p.path \union {n}
        /\ q.origin = p.origin
    BY DEF forwarded, Packet
  <2> QED BY <2>1, ForwardedIsKnown
<1>2. /\ identity(p) \in is /\ \A k \in p.path : Told(k, identity(p), hd)
      /\ p.hops + 1 <= P + extra(hd) /\ identity(p)[1] = p.origin
  BY DEF Good, identity
<1>3. /\ p.hops \in Nat /\ IsFiniteSet(p.path) /\ P \in Nat /\ Q \in Nat /\ P <= Q
      /\ n \notin p.path => Q = P + 1
  <2>1. p.path \in SUBSET Nodes /\ p.hops \in Nat
    BY DEF Packet
  <2>2. IsFiniteSet(p.path)
    BY <2>1, FS_Subset, ForwardingAssumption
  <2>3. IsFiniteSet(p.path \union {n})
    BY <2>2, FS_AddElement
  <2>4. p.path \subseteq p.path \union {n}
    OBVIOUS
  <2> QED BY <2>1, <2>2, <2>3, <2>4, FS_Subset, FS_AddElement, FS_CardinalityType
<1>4. extra(hd) \in {0, 1} /\ extra(more) \in {0, 1} /\ extra(hd) <= extra(more)
  OBVIOUS
<1>5. n = p.origin => extra(hd) = 0 /\ extra(more) = 1
  OBVIOUS
<1>6. n # p.origin => n \notin p.path
  BY <1>2 DEF Told
<1>7. p.hops + 2 <= Q + extra(more)
  <2> HIDE DEF extra, P, Q
  <2>1. CASE n = p.origin
    BY <1>2, <1>3, <1>5, <2>1
  <2>2. CASE n # p.origin
    BY <1>2, <1>3, <1>4, <1>6, <2>2
  <2> QED BY <2>1, <2>2
<1>8. \A k \in q.path : Told(k, identity(p), more)
  <2> HIDE DEF q
  <2> QED BY <1>1, <1>2 DEF Told
<1>9. q.hops + 1 <= Cardinality(q.path) + (IF <<q.origin, identity(q)>> \in more THEN 1 ELSE 0)
  <2>1. (p.hops + 1) + 1 = p.hops + 2
    BY <1>3
  <2> HIDE DEF q, more
  <2> QED BY <1>1, <1>7, <2>1
<1> HIDE DEF q, more
<1> QED BY <1>1, <1>2, <1>8, <1>9 DEF Good, q, more

(* What an alert handled for the first time leaves in the channel.         *)
LEMMA AlertCarries ==
  ASSUME FloodInv, CacheInv', Room(chan, 2), FarEnough, ReceiveAlert, Roomy
  PROVE  /\ \A m \in Nodes : \A p : Carried(chan, m, p) =>
              Carried(chan', m, p) \/ (m = Here /\ p = Current)
         /\ \A p \in Held(chan') : Good(p, handled', issued)
         /\ \A m \in Nodes : <<Here, m>> \in Links =>
              Told(m, identity(Current), handled') \/ Coming(chan', m, identity(Current))
<1> DEFINE ack == create_packet("ack", Here, number[Here] + 1, Current.origin, Control,
                                MaxHops, identity(Current))
           x == <<Here, identity(Current)>>
           q == forwarded(Current, Here)
<1>1. /\ Taking /\ TakingFresh /\ Current.kind = "alert" /\ IInv /\ IInv' /\ Working
      /\ handled' = handled \union {x}
  BY DEF ReceiveAlert, TakingFresh, FloodInv, CacheInv
<1>2. /\ Here \in Nodes /\ Current \in Packet /\ Proper(Current) /\ ProperChannel(Rest)
      /\ Current \in Held(chan) /\ Held(Rest) \subseteq Held(chan)
      /\ Good(Current, handled, issued) /\ Current.dest = NoNode
  BY <1>1, TakingFloods DEF Proper, Addressed
<1>3. x \notin handled
  BY <1>1, TakingRecalls DEF FloodInv
<1>4. /\ Room(Rest, 1 + 1) /\ Room(Rest, 1)
      /\ \A m \in Nodes : \A p : Carried(chan, m, p) =>
           Carried(Rest, m, p) \/ (m = Here /\ p = Current)
  <2>1. Room(Rest, 2)
    BY <1>1, TakingCarries
  <2> QED BY <1>1, <1>2, <2>1, TakingCarries, RoomLess
<1>5. Proper(ack) /\ ack.dest \in Nodes /\ ack.kind = "ack" /\ identity(ack) = <<Here, number[Here] + 1>>
  <2>1. /\ Current.origin \in Nodes /\ Current.origin # NoNode
        /\ MaxHops \in Nat /\ Control \in Priorities /\ "ack" \in Kinds
    BY <1>2, ForwardingAssumption DEF Packet, Control, Priorities, Telemetry, Fault, Kinds, NoNode
  <2>2. number[Here] + 1 \in Nat
    BY <1>1, <1>2 DEF IInv, TypeOK
  <2>3. Proper(ack) /\ ack.dest \in Nodes
    BY <1>2, <2>1, <2>2, IdentitiesAreAlerts, CreatedIsProper
  <2> QED BY <2>3 DEF create_packet, identity
<1>6. Forwardable(Current) =>
        Proper(q) /\ q.dest = NoNode /\ q.kind = "alert" /\ identity(q) = identity(Current)
  <2>1. New(Current, Here)
    BY <1>2 DEF New
  <2>2. q.kind = Current.kind
    BY <1>2 DEF forwarded, Packet
  <2> QED BY <1>1, <1>2, <2>1, <2>2, ForwardedIsProper, ForwardedIsKnown
<1>7. PICK o \in (IF Current.origin = Here THEN {[chan |-> Rest, ok |-> TRUE]}
                  ELSE route_packet(Rest, Here, ack)) : chan' \in FloodOn(o.chan)
  BY DEF ReceiveAlert
<1> HIDE DEF ack
<1> DEFINE c == o.chan
<1>8. /\ ProperChannel(c) /\ Room(c, 0 + 1) /\ CarriesOn(Rest, c)
      /\ Held(c) \subseteq Held(Rest) \union {ack}
  <2>1. CASE c = Rest
    BY <1>2, <1>4, <2>1 DEF CarriesOn
  <2>2. CASE o \in route_packet(Rest, Here, ack)
    <3>1. ProperChannel(c) /\ Held(c) \subseteq Held(Rest) \union {ack}
      BY <1>2, <1>5, <2>2, RoutingIsProper, RoutingHolds
    <3>2. Room(c, 1) /\ CarriesOn(Rest, c)
      BY <1>2, <1>4, <1>5, <2>2, RoutingCarries
    <3> QED BY <3>1, <3>2
  <2> QED BY <1>7, <2>1, <2>2
<1>9. chan' \in FloodOn(c)
  BY <1>7
<1> HIDE DEF c, q
<1>10. ASSUME Forwardable(Current)
       PROVE  /\ CarriesOn(c, chan') /\ Held(chan') \subseteq Held(c) \union {q}
              /\ \A m \in Nodes : <<Here, m>> \in Links /\ m # Current.source => Carried(chan', m, q)
  <2>1. chan' \in broadcast(c, Here, q, {Current.source})
    BY <1>9, <1>10 DEF FloodOn, q
  <2>2. /\ CarriesOn(c, chan')
        /\ \A m \in Nodes : <<Here, m>> \in Links /\ m \notin {Current.source} => Carried(chan', m, q)
    BY <1>1, <1>2, <1>6, <1>8, <1>10, <2>1, BroadcastCarries
  <2>3. Held(chan') \subseteq Held(c) \union {q}
    BY <1>6, <1>8, <1>10, <2>1, BroadcastHolds
  <2> QED BY <2>2, <2>3
<1>11. ASSUME ~Forwardable(Current)
       PROVE  chan' = c
  BY <1>9, <1>11 DEF FloodOn
<1>12. CarriesOn(Rest, chan')
  BY <1>8, <1>10, <1>11 DEF CarriesOn
<1>13. \A p \in Held(chan') : Good(p, handled', issued)
  <2>1. \A p \in Held(Rest) : Good(p, handled', issued)
    <3> SUFFICES ASSUME NEW p \in Held(Rest) PROVE Good(p, handled', issued)
      OBVIOUS
    <3>1. p \in Packet /\ Good(p, handled, issued)
      BY <1>1, <1>2, HeldArePackets DEF FloodInv, Flooding
    <3> QED BY <1>1, <3>1, GoodStays
  <2>2. Good(ack, handled', issued)
    <3>1. number[Here] + 1 > number[Here]
      <4>1. number[Here] \in Nat
        BY <1>1, <1>2 DEF IInv, TypeOK
      <4> QED BY <4>1
    <3>2. identity(ack) \notin issued
      BY <1>2, <1>5, <3>1, NotIssued
    <3> QED BY <1>5, <3>2 DEF Good
  <2>3. Good(q, handled', issued)
    BY <1>1, <1>2, <1>3, ForwardedGood DEF q
  <2> QED BY <1>8, <1>10, <1>11, <2>1, <2>2, <2>3
<1>14. ASSUME NEW m \in Nodes, <<Here, m>> \in Links
       PROVE  Told(m, identity(Current), handled') \/ Coming(chan', m, identity(Current))
  <2>1. CASE Told(m, identity(Current), handled)
    BY <1>1, <2>1 DEF Told
  <2>2. CASE ~Told(m, identity(Current), handled)
    <3>1. m # Here
      BY <1>14, ForwardingAssumption
    <3>2. m # Current.source
      BY <1>1, <1>2, <2>2 DEF Good
    <3>3. Forwardable(Current)
      BY <1>1, <1>2, <1>3, <2>2, <3>1, GoesOn
    <3>4. Carried(chan', m, q)
      BY <1>10, <1>14, <3>2, <3>3
    <3> QED BY <1>6, <3>3, <3>4 DEF Coming
  <2> QED BY <2>1, <2>2
<1> QED BY <1>4, <1>12, <1>13, <1>14 DEF CarriesOn

LEMMA AlertFlooding ==
  ASSUME FloodInv, CacheInv', Room(chan, 2), FarEnough, ReceiveAlert
  PROVE  FloodInv'
<1> DEFINE key == <<Here, number[Here] + 1>>
           a == identity(Current)
<1>1. /\ Taking /\ TakingFresh /\ Current.kind = "alert" /\ IInv /\ IInv'
      /\ handled' = handled \union {<<Here, a>>} /\ UNCHANGED <<up, issued>>
      /\ number' = [number EXCEPT ![Here] = @ + 1]
  BY DEF ReceiveAlert, TakingFresh, FloodInv, CacheInv
<1>2. /\ Here \in Nodes
      /\ Roomy => /\ Good(Current, handled, issued)
                  /\ \A n \in Nodes : \A k : Seen(Remembering[n], k) =>
                       Seen(cache[n], k) \/ (n = Here /\ k = a)
  BY <1>1, TakingFloods
<1>3. /\ number \in [Nodes -> Nat] /\ number' \in [Nodes -> Nat]
      /\ \A m \in Nodes : number[m] <= number'[m]
      /\ number[Here] + 1 \in Nat /\ number[Here] + 1 > number[Here]
      /\ 1 <= number[Here] + 1 /\ number[Here] + 1 <= number'[Here]
  <2>1. number \in [Nodes -> Nat] /\ number' \in [Nodes -> Nat] /\ \A m \in Nodes : number[m] \in Nat
    BY <1>1 DEF IInv, TypeOK, CacheInv
  <2> QED BY <1>1, <1>2, <2>1
<1>4. Working'
  BY <1>1 DEF FloodInv, Working
<1>5. ASSUME Roomy'
      PROVE  Flooding'
  <2>1. Roomy /\ Created(number) \subseteq Created(number')
    BY <1>3, <1>5, CreatedGrows DEF Roomy
  <2>2. Flooding /\ a \in issued
    BY <1>1, <1>2, <2>1 DEF FloodInv, Good
  <2>3. issued' \subseteq Created(number') /\ \A x \in handled' : x[2] \in issued'
    <3> HIDE DEF a
    <3>1. \A x \in handled' : x \in handled \/ x = <<Here, a>>
      BY <1>1
    <3>2. ASSUME NEW x \in handled'
          PROVE  x[2] \in issued
      <4>1. CASE x \in handled
        BY <2>2, <4>1 DEF Flooding
      <4>2. CASE x = <<Here, a>>
        BY <2>2, <4>2
      <4> QED BY <3>1, <4>1, <4>2
    <3>3. issued' = issued /\ issued \subseteq Created(number)
      BY <1>1, <2>2 DEF Flooding
    <3> QED BY <2>1, <3>2, <3>3
  <2>4. /\ \A m \in Nodes : \A p : Carried(chan, m, p) =>
             Carried(chan', m, p) \/ (m = Here /\ p = Current)
        /\ \A p \in Held(chan') : Good(p, handled', issued)
        /\ \A m \in Nodes : <<Here, m>> \in Links => Told(m, a, handled') \/ Coming(chan', m, a)
    BY <2>1, AlertCarries
  <2>5. \A p \in Held(chan') : Good(p, handled', issued')
    BY <1>1, <2>4
  <2>6. Honest'
    <3> SUFFICES ASSUME NEW n \in Nodes, NEW b \in issued, Seen(cache'[n], b)
                 PROVE  <<n, b>> \in handled'
      BY <1>1 DEF Honest
    <3>1. Seen(Remembering[n], b) => <<n, b>> \in handled'
      BY <1>1, <1>2, <2>1, <2>2 DEF Flooding, Honest
    <3>2. key \notin issued
      BY <1>2, <1>3, <2>1, NotIssued
    <3>3. \/ cache' = Remembering
          \/ cache' = [Remembering EXCEPT ![Here] = Remember(@, key, CacheSize)]
      BY DEF ReceiveAlert, duplicate_key, create_packet
    <3> DEFINE K == Created(number')
    <3>4. Recalls(Remembering, handled, K) /\ IsFiniteSet(K) /\ Cardinality(K) <= CacheSize /\ key \in K
      <4>1. Recalls(Remembering, handled, Created(number))
        BY <1>1, <2>1, TakingRecalls DEF FloodInv
      <4>2. key \in K
        BY <1>2, <1>3 DEF Created
      <4>3. IsFiniteSet(K) /\ Cardinality(K) <= CacheSize
        BY <1>3, <1>5, CreatedFinite DEF Roomy
      <4> HIDE DEF K
      <4> QED BY <2>1, <4>1, <4>2, <4>3, RecallsMore DEF K
    <3> HIDE DEF K, key
    <3>5. CASE cache' = Remembering
      BY <3>1, <3>5
    <3>6. CASE cache' = [Remembering EXCEPT ![Here] = Remember(@, key, CacheSize)]
      <4>1. DOMAIN Remembering = Nodes /\ Remembering[n] \in Seq(K) /\ Distinct(Remembering[n])
        BY <3>4 DEF Recalls
      <4>2. cache'[n] = IF n = Here THEN Remember(Remembering[n], key, CacheSize) ELSE Remembering[n]
        BY <3>6, <4>1
      <4>3. Seen(Remembering[n], b) \/ b = key
        <5>1. CASE n = Here
          BY <3>4, <4>1, <4>2, <5>1, RememberAdds
        <5>2. CASE n # Here
          BY <4>2, <5>2
        <5> QED BY <5>1, <5>2
      <4> QED BY <3>1, <3>2, <4>3
    <3> QED BY <3>3, <3>5, <3>6
  <2>7. Covered'
    <3> SUFFICES ASSUME NEW b \in issued, NEW k \in Nodes, NEW m \in Nodes, <<k, m>> \in Links,
                        Told(k, b, handled'), ~Told(m, b, handled')
                 PROVE  Coming(chan', m, b)
      BY <1>1 DEF Covered, Coming, Carried
    <3>1. CASE Told(k, b, handled)
      <4>1. Coming(chan, m, b)
        BY <1>1, <2>2, <3>1 DEF Flooding, Covered, Told
      <4>2. PICK p : Carried(chan, m, p) /\ p.kind = "alert" /\ identity(p) = b
        BY <4>1 DEF Coming
      <4>3. ~(m = Here /\ p = Current)
        BY <1>1, <4>2 DEF Told
      <4> QED BY <2>4, <4>2, <4>3 DEF Coming
    <3>2. CASE ~Told(k, b, handled)
      <4>1. k = Here /\ b = a
        BY <1>1, <3>2 DEF Told
      <4> QED BY <2>4, <4>1
    <3> QED BY <3>1, <3>2
  <2> QED BY <2>3, <2>5, <2>6, <2>7 DEF Flooding
<1> QED BY <1>4, <1>5 DEF FloodInv

LEMMA InitFloods == Init /\ ~Lossy => FloodInv
<1> SUFFICES ASSUME Init, ~Lossy PROVE FloodInv
  OBVIOUS
<1>1. CacheInv /\ Working
  BY InitRecalls DEF Init, Working
<1>2. issued = {} /\ handled = {}
  BY DEF Init
<1>3. Held(chan) = {}
  <2> DEFINE empty == [l \in Priorities |-> <<>>]
  <2>1. Contents(empty) = {}
    BY DEF Contents
  <2> HIDE DEF empty
  <2>2. (\A n \in Nodes : chan.queue[n] = empty) /\ chan.air = {}
    BY DEF Init, empty
  <2> QED BY <2>1, <2>2 DEF Held
<1> QED BY <1>1, <1>2, <1>3 DEF FloodInv, Flooding, Honest, Covered

LEMMA NextFloods ==
  ASSUME FloodInv, Room(chan, 2), FarEnough, Failing = {}, [Next]_vars
  PROVE  FloodInv'
<1>1. CacheInv'
  BY NextRecalls DEF FloodInv
<1>2. CASE UNCHANGED <<up, chan, number, cache, issued, handled>>
  <2>1. \A n \in Nodes : number[n] <= number'[n]
    <3>1. \A n \in Nodes : number[n] \in Nat
      BY DEF FloodInv, CacheInv, IInv, TypeOK
    <3> QED BY <1>2, <3>1
  <2> QED BY <1>1, <1>2, <2>1, StillFlooding DEF FloodInv, Flooding
<1>3. ASSUME NEW n \in Origins, NEW ttl \in Severities, inject_fault(n, ttl)
      PROVE  FloodInv'
  BY <1>1, <1>3, InjectionFlooding
<1>4. ASSUME NEW n \in Nodes, _send_telemetry(n)
      PROVE  FloodInv'
  BY <1>1, <1>4, SendingFlooding
<1>5. ASSUME NEW n \in Nodes, NEW row \in 1..MaxRows, Flush(n, row)
      PROVE  FloodInv'
  <2>1. /\ number' = [number EXCEPT ![n] = @ + 1]
        /\ \E o \in route_packet(chan, n, Reading(n, row)) : chan' = o.chan
        /\ UNCHANGED <<up, cache, issued, handled>>
    BY <1>5 DEF Flush, history
  <2> QED BY <1>1, <2>1, ReadingFlooding
<1>6. CASE receive_packet
  BY <1>1, <1>6, TakenFlooding, AlertFlooding DEF receive_packet
<1>7. CASE Landing
  BY <1>1, <1>7, LandingFlooding
<1>8. CASE UNCHANGED vars
  BY <1>2, <1>8 DEF vars, history
<1>9. CASE process_queues \/ NextNode \/ EndFlush
  BY <1>2, <1>9 DEF process_queues, NextNode, EndFlush, history
<1>10. ASSUME NEW to \in BOOLEAN, set_gateway(to)
       PROVE  FloodInv'
  BY <1>2, <1>10 DEF set_gateway, history
<1>11. ASSUME NEW n \in Nodes, Switch(n)
       PROVE  FloodInv'
  BY <1>11 DEF Switch
<1> QED BY <1>3, <1>4, <1>5, <1>6, <1>7, <1>8, <1>9, <1>10, <1>11
        DEF Next, Environment, Passing, Flushing

(* Every part of the mesh has a link to the rest of it.                    *)
Connected ==
  \A S \in SUBSET Nodes : S # {} /\ S # Nodes => \E l \in Links : l[1] \in S /\ l[2] \notin S

(* No queue is about to overflow.                                          *)
Spacious == Room(chan, 2)

(* An alert no copy of which is left has been handled by every node.       *)
FloodsComplete ==
  \A a \in issued :
    (\A p \in InFlight : ~(p.kind = "alert" /\ identity(p) = a)) =>
      \A m \in Nodes : m # a[1] => <<m, a>> \in handled

(* A flood leaves nobody out (simulator.py, inject_fault and               *)
(* receive_packet; packets.py, forwarded): in every connected mesh of      *)
(* working radios, with queues and caches that have room, an alert whose   *)
(* TTL is at least the number of nodes has been handled by every node when *)
(* its last copy is gone, although each node forwards one copy only, not   *)
(* to its sender, and the copy that comes first may have come the long way.*)
THEOREM FloodsReachEveryone ==
  ASSUME Connected, FarEnough, ~Lossy, Failing = {}
  PROVE  Spec /\ []Spacious => [](Roomy => FloodsComplete)
<1>1. ASSUME FloodInv, Roomy
      PROVE  FloodsComplete
  <2> SUFFICES ASSUME NEW a \in issued, \A p \in InFlight : ~(p.kind = "alert" /\ identity(p) = a)
               PROVE  \A m \in Nodes : Told(m, a, handled)
    BY DEF FloodsComplete, Told
  <2>1. Flooding /\ ProperChannel(chan)
    BY <1>1 DEF FloodInv, CacheInv, IInv
  <2> DEFINE S == {m \in Nodes : Told(m, a, handled)}
  <2>2. a[1] \in S
    BY <2>1 DEF Flooding, Created, Told
  <2>3. \A m \in Nodes : ~Coming(chan, m, a)
    <3>1. ASSUME NEW p \in Held(chan)
          PROVE  p \in InFlight
      <4>1. CASE p \in {f.frame : f \in chan.air}
        BY <4>1 DEF InFlight
      <4>2. CASE \E m \in Nodes : p \in Contents(chan.queue[m])
        <5>1. PICK m \in Nodes : p \in Contents(chan.queue[m])
          BY <4>2
        <5>2. PICK l \in Priorities : p \in {chan.queue[m][l][k] : k \in 1..Len(chan.queue[m][l])}
          BY <5>1 DEF Contents
        <5> DEFINE lane(n, j) == {chan.queue[n][j][k] : k \in 1..Len(chan.queue[n][j])}
        <5>3. Queued = UNION {lane(n, j) : n \in Nodes, j \in Priorities}
          BY DEF Queued
        <5>4. p \in lane(m, l)
          BY <5>2
        <5> HIDE DEF lane
        <5> QED BY <5>3, <5>4 DEF InFlight
      <4> QED BY <4>1, <4>2 DEF Held
    <3> QED BY <2>1, <3>1, HeldArePackets DEF Coming
  <2>4. \A l \in Links : l[1] \in S => l[2] \in S
    <3> SUFFICES ASSUME NEW l \in Links, l[1] \in S PROVE l[2] \in S
      OBVIOUS
    <3>1. l = <<l[1], l[2]>> /\ l[1] \in Nodes /\ l[2] \in Nodes
      BY ForwardingAssumption
    <3> QED BY <2>1, <2>3, <3>1 DEF Flooding, Covered
  <2>5. S = Nodes
    <3> HIDE DEF S
    <3>1. S \in SUBSET Nodes
      BY DEF S
    <3> QED BY <2>2, <2>4, <3>1 DEF Connected
  <2> QED BY <2>5
<1>2. Init => FloodInv
  BY InitFloods
<1>3. FloodInv /\ Spacious /\ [Next]_vars => FloodInv'
  BY NextFloods DEF Spacious
<1>4. FloodInv => (Roomy => FloodsComplete)
  BY <1>1
<1> QED BY <1>2, <1>3, <1>4, PTL DEF Spec

=============================================================================
