---------------------------- MODULE PriorityLanes ----------------------------
(***************************************************************************)
(* What a node's packet queue promises, without heaps, keys or clocks: one *)
(* first-in-first-out lane per priority over a shared capacity.  Service   *)
(* takes the head of the highest occupied lane.  A newcomer that finds the *)
(* capacity used up displaces the head of the lowest occupied lane if that *)
(* lane is below its own, and is turned away (no change) if it is not.     *)
(***************************************************************************)
EXTENDS Integers, Sequences, FiniteSets

CONSTANTS Priorities, Capacity

VARIABLES
  lanes,    \* for each priority, the arrival numbers waiting in it
  arrived   \* the last arrival number given out

Occupied == {p \in Priorities : lanes[p] # <<>>}

Waiting == UNION {{<<p, k>> : k \in 1..Len(lanes[p])} : p \in Priorities}

Lowest(p) == p \in Occupied /\ \A q \in Occupied : p <= q
Highest(p) == p \in Occupied /\ \A q \in Occupied : p >= q

Init ==
  /\ lanes = [p \in Priorities |-> <<>>]
  /\ arrived = 0

Join(p) ==
  /\ Cardinality(Waiting) < Capacity
  /\ arrived' = arrived + 1
  /\ lanes' = [lanes EXCEPT ![p] = Append(@, arrived')]

Displace(p) ==
  /\ Cardinality(Waiting) = Capacity
  /\ \E q \in Occupied :
        /\ Lowest(q)
        /\ q < p
        /\ arrived' = arrived + 1
        /\ lanes' = [lanes EXCEPT ![q] = Tail(@), ![p] = Append(@, arrived')]

Serve ==
  /\ \E p \in Occupied : Highest(p) /\ lanes' = [lanes EXCEPT ![p] = Tail(@)]
  /\ UNCHANGED arrived

Next == (\E p \in Priorities : Join(p) \/ Displace(p)) \/ Serve

Spec == Init /\ [][Next]_<<lanes, arrived>>
=============================================================================
