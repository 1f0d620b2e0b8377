------------------------------ MODULE NodeQueue ------------------------------
(***************************************************************************)
(* The bounded priority queue of one mesh node (SeianNode, node.py): every *)
(* frame a node's radio accepts goes through enqueue_packet, and the       *)
(* simulator's queue loop takes frames out with dequeue_packet.            *)
(*                                                                         *)
(* The heap is modelled as the set of its items: an item carries a unique  *)
(* counter, so the minimum of the sort key (-priority, time, counter) is   *)
(* unique and the layout of the heap cannot be observed.                   *)
(***************************************************************************)
EXTENDS Integers, Sequences, FiniteSets

CONSTANTS
  Priorities,   \* the packet priorities in use (packets.py, PRIORITY_*)
  QueueLimit,   \* SimulationConfig.queue_limit
  MaxArrivals,  \* bound of the model: packets ever offered to the queue
  MaxTime       \* bound of the model: the simulation clock

ASSUME QueueAssumption ==
  /\ Priorities \subseteq Nat
  /\ QueueLimit \in Nat \ {0}
  /\ MaxArrivals \in Nat
  /\ MaxTime \in Nat

VARIABLES
  queue,       \* _packet_queue: the items waiting
  counter,     \* _queue_counter: items ever pushed
  limitHint,   \* _queue_limit_hint
  load,        \* communication_load, as a fraction <<items, limit>>
  now,         \* the simulation clock
  offered,     \* packets ever handed to enqueue_packet
  lost         \* priorities of the packets the last call gave up

vars == <<queue, counter, limitHint, load, now, offered, lost>>

(* A queued item: the packet's priority and the rest of its sort key.      *)
Item == [prio : Priorities, at : Nat, no : Nat]

(* The load a node reports is clamped at 1.                                *)
Fraction(n, limit) == <<IF n > limit THEN limit ELSE n, limit>>

(* The heap order: higher priority, then earlier, then pushed first.       *)
Before_TimeFirst(i, j) ==
  \/ i.at < j.at
  \/ i.at = j.at /\ i.prio > j.prio
  \/ i.at = j.at /\ i.prio = j.prio /\ i.no <= j.no

Before(i, j) ==
  \/ i.prio > j.prio
  \/ i.prio = j.prio /\ i.at < j.at
  \/ i.prio = j.prio /\ i.at = j.at /\ i.no <= j.no

(* The packet an overflow may evict: the oldest of the lowest priority.    *)
Victim_HighestPriority(v) ==
  \A i \in queue : v.prio > i.prio \/ (v.prio = i.prio /\ v.no <= i.no)

Victim(v) ==
  \A i \in queue :
     \/ v.prio < i.prio
     \/ v.prio = i.prio /\ v.at < i.at
     \/ v.prio = i.prio /\ v.at = i.at /\ v.no <= i.no

-----------------------------------------------------------------------------
Init ==
  /\ queue = {}
  /\ counter = 0
  /\ limitHint = 1
  /\ load = <<0, 1>>
  /\ now = 0
  /\ offered = 0
  /\ lost = {}

Full == Cardinality(queue) >= QueueLimit

(* The common end of an accepted enqueue: push onto what is left.          *)
Push(p, rest) ==
  /\ counter' = counter + 1
  /\ limitHint' = QueueLimit
  /\ queue' = rest \union {[prio |-> p, at |-> now, no |-> counter + 1]}
  /\ load' = Fraction(Cardinality(queue'), QueueLimit)

(* A packet of priority p arrives and there is room.                       *)
EnqueueRoom(p) ==
  /\ ~Full
  /\ Push(p, queue)
  /\ lost' = {}

(* The queue is full and p outranks its lowest priority: evict.            *)
EnqueueEvict(p) ==
  /\ Full
  /\ \E v \in queue :
        /\ Victim(v)
        /\ p > v.prio
        /\ Push(p, queue \ {v})
        /\ lost' = {v.prio}

(* The queue is full and p outranks nothing in it: refuse.                 *)
EnqueueRefuse(p) ==
  /\ Full
  /\ \E v \in queue : Victim(v) /\ p <= v.prio
  /\ load' = Fraction(Cardinality(queue), QueueLimit)
  /\ lost' = {p}
  /\ UNCHANGED <<queue, counter, limitHint>>

enqueue_packet(p) ==
  /\ offered < MaxArrivals
  /\ offered' = offered + 1
  /\ EnqueueRoom(p) \/ EnqueueEvict(p) \/ EnqueueRefuse(p)
  /\ UNCHANGED now

(* The next packet to transmit: the minimum of the heap order.             *)

dequeue_packet ==
  /\ \E i \in queue :
        /\ \A j \in queue : Before(i, j)
        /\ queue' = queue \ {i}
  /\ load' = Fraction(Cardinality(queue'), limitHint)
  /\ lost' = {}
  /\ UNCHANGED <<counter, limitHint, now, offered>>

(* The simulation clock advances between calls; it never goes back.        *)
Tick ==
  /\ now < MaxTime
  /\ now' = now + 1
  /\ lost' = {}
  /\ UNCHANGED <<queue, counter, limitHint, load, offered>>

Next ==
  \/ \E p \in Priorities : enqueue_packet(p)
  \/ dequeue_packet
  \/ Tick

Spec == Init /\ [][Next]_vars

-----------------------------------------------------------------------------
(* The type invariant, with the bound the queue promises: however calls,   *)
(* evictions and refusals interleave it never exceeds queue_limit.         *)
TypeOK ==
  /\ queue \subseteq Item
  /\ IsFiniteSet(queue)
  /\ Cardinality(queue) <= QueueLimit
  /\ counter \in Nat
  /\ limitHint \in Nat \ {0}
  /\ load \in Nat \X Nat
  /\ now \in Nat
  /\ offered \in 0..MaxArrivals
  /\ lost \subseteq Priorities

(* The counter names items uniquely and time stamps follow it, which makes *)
(* the two orders of the code, the heap's and the victim's, total and      *)
(* makes "oldest" mean "arrived first".                                    *)
ArrivalOrder ==
  /\ \A i \in queue : i.no \in 1..counter /\ i.at <= now
  /\ \A i, j \in queue : i.no = j.no => i = j
  /\ \A i, j \in queue : i.no < j.no => i.at <= j.at

(* The load a node advertises to its neighbours, from which they compute   *)
(* route costs, is the load it has, whichever way the last call ended, and *)
(* a node that holds packets measures it against the configured limit      *)
(* (communication_load, node.py enqueue_packet and dequeue_packet).        *)
LoadIsTruthful ==
  /\ load = Fraction(Cardinality(queue), limitHint)
  /\ queue # {} => limitHint = QueueLimit

(* Emergency traffic is never given up for background traffic: a packet    *)
(* lost at an overflow, whether the newcomer is refused or a queued packet *)
(* is evicted, has at most the priority of everything the node still holds *)
(* (the comment in node.py enqueue_packet).                                *)
LossSparesHigherPriority ==
  [][\A p \in lost' : \A i \in queue' : p <= i.prio]_vars

(* Within a priority the queue is first in, first out by arrival order and *)
(* not merely by time stamp: a packet leaves, served or evicted, only when *)
(* no earlier packet of its own priority stays behind.                     *)
FifoWithinPriority ==
  [][\A i \in queue \ queue' : \A j \in queue' :
        j.prio = i.prio => i.no < j.no]_vars

-----------------------------------------------------------------------------
(* The heap read as the lanes of PriorityLanes: the arrival numbers of the *)
(* items of one priority, in rising order.                                 *)
Arrivals(p) == {i.no : i \in {j \in queue : j.prio = p}}

Rising(s) == \A j, k \in DOMAIN s : j < k => s[j] < s[k]

Lane(p) == CHOOSE s \in [1..Cardinality(Arrivals(p)) -> Arrivals(p)] : Rising(s)

lanes == [p \in Priorities |-> Lane(p)]

Lanes == INSTANCE PriorityLanes WITH Capacity <- QueueLimit, arrived <- counter

(* The heap with its sort key, its eviction rule and its re-heapify keeps  *)
(* the promise of PriorityLanes: every step of node.py's queue is a join,  *)
(* a displacement, a service or no change of the lanes.                    *)
KeepsLanes == Lanes!Spec
=============================================================================
