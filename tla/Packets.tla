------------------------------- MODULE Packets -------------------------------
(***************************************************************************)
(* The packets of the mesh (Packet, packets.py) and how a node's bounded   *)
(* priority queue takes them in.  A queue is kept as the first-in-first-   *)
(* out lanes of PriorityLanes, which NodeQueue is shown to implement.      *)
(***************************************************************************)
EXTENDS Integers, Sequences, FiniteSets

NoNode == -1

(* A packet as its origin creates it.  about is the identity of the alert  *)
(* it acknowledges or the telemetry row it carries; a path is only ever    *)
(* asked who is on it.                                                     *)
create_packet(kind, origin, no, dest, prio, ttl, about) ==
  [kind |-> kind, source |-> origin, origin |-> origin, no |-> no, dest |-> dest,
   prio |-> prio, hops |-> 0, ttl |-> ttl, path |-> {origin}, about |-> about]

(* Which packet p is a copy of, and the key the caches know it by.         *)
identity(p) == <<p.origin, p.no>>

duplicate_key_BySender(p) == <<p.source, p.no>>

duplicate_key(p) == <<p.origin, p.no>>

forwarded_KeepsTtl(p, n) ==
  [p EXCEPT !.source = n, !.hops = @ + 1, !.path = @ \union {n}]

forwarded(p, n) ==
  [p EXCEPT !.source = n, !.hops = @ + 1, !.ttl = @ - 1, !.path = @ \union {n}]

-----------------------------------------------------------------------------
Occupied(q) == {l \in DOMAIN q : q[l] # <<>>}

Length(q) == Cardinality(UNION {{<<l, k>> : k \in 1..Len(q[l])} : l \in DOMAIN q})

Lowest(q) == CHOOSE l \in Occupied(q) : \A k \in Occupied(q) : l <= k
Highest(q) == CHOOSE l \in Occupied(q) : \A k \in Occupied(q) : l >= k

(* Whether queue q, of at most limit packets, takes p, and what it is then.*)
Admits(q, p, limit) == Length(q) < limit \/ Lowest(q) < p.prio

enqueue_packet(q, p, limit) ==
  LET room == IF Length(q) < limit THEN q ELSE [q EXCEPT ![Lowest(q)] = Tail(@)]
  IN IF Admits(q, p, limit) THEN [room EXCEPT ![p.prio] = Append(@, p)] ELSE q

Next_packet(q) == Head(q[Highest(q)])
dequeue_packet(q) == [q EXCEPT ![Highest(q)] = Tail(@)]

(* The bounded cache of recently seen packets (DuplicateCache): a sighting *)
(* moves a key to the end, a new key pushes the oldest one out.            *)
Seen(c, key) == \E k \in 1..Len(c) : c[k] = key

MovedToEnd(c, key) ==
  LET at == CHOOSE k \in 1..Len(c) : c[k] = key
  IN Append(SubSeq(c, 1, at - 1) \o SubSeq(c, at + 1, Len(c)), key)

Remember(c, key, size) ==
  IF Seen(c, key) THEN MovedToEnd(c, key)
  ELSE IF Len(c) = size THEN Append(Tail(c), key) ELSE Append(c, key)
=============================================================================
