------------------------- MODULE ManualSession_proofs -------------------------
(***************************************************************************)
(* ManualSession for every mesh and every request: a flood reaches its TTL *)
(* radius (an invariant about the wave front of the breadth-first queue),  *)
(* and acknowledgements return along any routes that lead to the origin.   *)
(***************************************************************************)
EXTENDS ManualSession, SequenceTheorems, FiniteSetTheorems, WellFoundedInduction, TLAPS

Kinds == {"ack"} \union {c.kind : c \in Creations}

Packet ==
  [kind : Kinds, source : Nodes, origin : Nodes, no : Nat, dest : Nodes \union {NoNode},
   prio : {0}, hops : Nat, ttl : Nat, path : SUBSET Nodes,
   about : {<<>>} \union (Nodes \X Nat)]

Transmission == [from : Nodes, to : Nodes, packet : Packet]

(* The type invariant; before a packet is created the session is empty,    *)
(* and it is complete only when no transmission waits.                     *)
TypeOK ==
  /\ up \in [Nodes -> BOOLEAN]
  /\ packet \in Packet \union {NoPacket}
  /\ pending \in Seq(Transmission)
  /\ seen \subseteq Nodes \X (Nodes \X Nat)
  /\ number \in [Nodes -> Nat]
  /\ packet = NoPacket => pending = <<>> /\ seen = {} /\ ~complete
  /\ complete => pending = <<>>
  /\ clean => \A n \in Nodes : up[n]

-----------------------------------------------------------------------------
(* Walks and lists.                                                        *)

LEMMA NoNodeIsNone == NoNode \notin Nodes
BY SessionAssumption DEF NoNode

LEMMA WithinZero ==
  ASSUME NEW n \in Nodes
  PROVE  Within(n, 0) = {n}
<1> DEFINE w == [i \in 0..0 |-> n]
<1>1. w \in [0..0 -> Nodes] /\ w[0] = n
  OBVIOUS
<1>2. \A i \in 1..0 : w[i] = w[i - 1] \/ <<w[i - 1], w[i]>> \in Links
  OBVIOUS
<1> HIDE DEF w
<1>3. n \in Within(n, 0)
  BY <1>1, <1>2 DEF Within
<1>4. ASSUME NEW m \in Within(n, 0) PROVE m = n
  BY DEF Within
<1> QED
  BY <1>3, <1>4

(* A walk can be extended by a link or in place, and ends with one.        *)
LEMMA WithinGrows ==
  ASSUME NEW n \in Nodes, NEW k \in Nat, NEW m \in Within(n, k), NEW o \in Nodes,
         o = m \/ <<m, o>> \in Links
  PROVE  o \in Within(n, k + 1)
<1>1. PICK w \in [0..k -> Nodes] :
        /\ w[0] = n /\ w[k] = m
        /\ \A i \in 1..k : w[i] = w[i - 1] \/ <<w[i - 1], w[i]>> \in Links
  BY DEF Within
<1> DEFINE v == [i \in 0..(k + 1) |-> IF i = k + 1 THEN o ELSE w[i]]
<1>2. v \in [0..(k + 1) -> Nodes]
  BY <1>1
<1>3. v[0] = n /\ v[k + 1] = o
  BY <1>1
<1>4. ASSUME NEW i \in 1..(k + 1) PROVE v[i] = v[i - 1] \/ <<v[i - 1], v[i]>> \in Links
  <2>1. CASE i = k + 1
    <3>1. v[i] = o /\ v[i - 1] = m
      BY <1>1, <2>1
    <3> QED
      BY <3>1
  <2>2. CASE i # k + 1
    <3>1. v[i] = w[i] /\ v[i - 1] = w[i - 1] /\ i \in 1..k
      BY <1>1, <2>2
    <3> QED
      BY <3>1, <1>1
  <2> QED
    BY <2>1, <2>2
<1> HIDE DEF v
<1> QED
  BY <1>2, <1>3, <1>4 DEF Within

LEMMA WithinStep ==
  ASSUME NEW n \in Nodes, NEW k \in Nat, NEW o \in Within(n, k + 1)
  PROVE  \E m \in Within(n, k) : o = m \/ <<m, o>> \in Links
<1>1. PICK w \in [0..(k + 1) -> Nodes] :
        /\ w[0] = n /\ w[k + 1] = o
        /\ \A i \in 1..(k + 1) : w[i] = w[i - 1] \/ <<w[i - 1], w[i]>> \in Links
  BY DEF Within
<1> DEFINE v == [i \in 0..k |-> w[i]]
<1>2. v \in [0..k -> Nodes] /\ v[0] = n /\ v[k] = w[k] /\ w[k] \in Nodes
  BY <1>1
<1>3. \A i \in 1..k : v[i] = v[i - 1] \/ <<v[i - 1], v[i]>> \in Links
  BY <1>1
<1>4. w[k] \in Within(n, k)
  BY <1>2, <1>3 DEF Within
<1>5. w[k + 1] = w[k] \/ <<w[k], w[k + 1]>> \in Links
  BY <1>1
<1> QED
  BY <1>1, <1>4, <1>5

LEMMA WithinIsNodes ==
  ASSUME NEW n, NEW k PROVE Within(n, k) \subseteq Nodes
BY DEF Within

(* The transmissions a node queues.                                        *)
LEMMA SortedListsAll ==
  ASSUME NEW S \in SUBSET Nodes, NEW s \in Sorted(S)
  PROVE  /\ s \in Seq(S)
         /\ \A i \in 1..Len(s) : s[i] \in S
         /\ \A x \in S : \E i \in 1..Len(s) : s[i] = x
<1>1. Cardinality(S) \in Nat
  BY FS_Subset, FS_CardinalityType, SessionAssumption
<1>2. s \in [1..Cardinality(S) -> S]
  BY DEF Sorted
<1>3. s \in Seq(S) /\ Len(s) = Cardinality(S)
  BY <1>1, <1>2, SeqDef
<1> QED
  BY <1>2, <1>3 DEF Sorted
(* What one call of _schedule_from queues: transmissions of p itself, over *)
(* links to neighbours whose radio works.                                  *)
LEMMA ScheduleSends ==
  ASSUME TypeOK, NEW n \in Nodes, NEW p \in Packet, NEW previous, NEW reason,
         NEW q \in _schedule_from(n, p, previous, reason)
  PROVE  /\ q \in Seq(Transmission)
         /\ \A i \in 1..Len(q) : /\ q[i].from = n /\ q[i].packet = p
                                 /\ q[i].to \in Nodes /\ <<n, q[i].to>> \in Links
<1> DEFINE near == Near(n)
<1>0. near \subseteq Nodes /\ \A m \in near : <<n, m>> \in Links
  BY DEF Near
<1>1. ASSUME NEW S \in SUBSET near, NEW to, to \in Seq(S),
             q = Transmissions(n, p, to)
      PROVE  /\ q \in Seq(Transmission)
             /\ \A i \in 1..Len(q) : /\ q[i].from = n /\ q[i].packet = p
                                     /\ q[i].to \in Nodes /\ <<n, q[i].to>> \in Links
  <2>1. Len(to) \in Nat /\ \A i \in 1..Len(to) : to[i] \in near
    BY <1>1
  <2>2. /\ q = [i \in 1..Len(to) |-> [from |-> n, to |-> to[i], packet |-> p]]
        /\ \A i \in 1..Len(to) : q[i] \in Transmission
    BY <1>0, <1>1, <2>1 DEF Transmissions, Transmission
  <2>3. q \in Seq(Transmission) /\ Len(q) = Len(to)
    BY <2>1, <2>2, SeqDef
  <2> QED
    BY <1>0, <2>1, <2>2, <2>3
<1>2. CASE q = <<>>
  BY <1>2
<1>3. CASE \E hop \in near : q = Transmissions(n, p, <<hop>>)
  <2>1. PICK hop \in near : q = Transmissions(n, p, <<hop>>)
    BY <1>3
  <2>2. <<hop>> \in Seq(near)
    OBVIOUS
  <2> QED
    BY <1>1, <2>1, <2>2
<1>4. CASE \E to \in Sorted(near \ {previous}) : q = Transmissions(n, p, to)
  <2>1. PICK to \in Sorted(near \ {previous}) : q = Transmissions(n, p, to)
    BY <1>4
  <2>2. to \in Seq(near \ {previous})
    BY <1>0, <2>1, SortedListsAll
  <2> QED
    BY <1>1, <2>1, <2>2
<1>5. \/ q = <<>>
      \/ \E hop \in near : q = Transmissions(n, p, <<hop>>)
      \/ \E to \in Sorted(near \ {previous}) : q = Transmissions(n, p, to)
  BY DEF _schedule_from
<1> QED
  BY <1>2, <1>3, <1>4, <1>5

(* A flooding call queues one for every neighbour but the previous node.   *)
LEMMA FloodSends ==
  ASSUME TypeOK, NEW n \in Nodes, NEW p \in Packet, NEW previous, NEW reason,
         up[n], p.dest = NoNode, p.kind \in Flooded \/ reason # "forward",
         NEW q \in _schedule_from(n, p, previous, reason)
  PROVE  \A m \in Near(n) \ {previous} : \E i \in 1..Len(q) : q[i].to = m
<1>1. p.dest # n
  BY NoNodeIsNone
<1>2. PICK to \in Sorted(Near(n) \ {previous}) : q = Transmissions(n, p, to)
  BY <1>1 DEF _schedule_from
<1>3. /\ to \in Seq(Near(n) \ {previous})
      /\ \A x \in Near(n) \ {previous} : \E i \in 1..Len(to) : to[i] = x
  <2>1. Near(n) \ {previous} \in SUBSET Nodes
    BY DEF Near
  <2> QED
    BY <1>2, <2>1, SortedListsAll
<1>4. /\ Len(to) \in Nat
      /\ q = [i \in 1..Len(to) |-> [from |-> n, to |-> to[i], packet |-> p]]
  BY <1>2, <1>3 DEF Transmissions
<1>5. Len(q) = Len(to) /\ \A i \in 1..Len(to) : q[i].to = to[i]
  BY <1>4
<1> QED
  BY <1>3, <1>5

(* A packet for somebody is sent to one next hop that may take it.         *)
LEMMA UnicastSends ==
  ASSUME TypeOK, NEW n \in Nodes, NEW p \in Packet, NEW previous, NEW reason,
         up[n], p.dest \in Nodes \ {n}, NextHops[n][p.dest] \subseteq Near(n) \ p.path,
         NEW q \in _schedule_from(n, p, previous, reason)
  PROVE  \E hop \in NextHops[n][p.dest] :
            q = <<[from |-> n, to |-> hop, packet |-> p]>>
<1>1. p.dest # NoNode
  BY NoNodeIsNone
<1>2. PICK hop \in NextHops[n][p.dest] : q = Transmissions(n, p, <<hop>>)
  BY <1>1 DEF _schedule_from
<1>3. q = <<[from |-> n, to |-> hop, packet |-> p]>>
  BY <1>2 DEF Transmissions
<1> QED
  BY <1>3

(* A packet for somebody: at most one transmission.                        *)
LEMMA UnicastIsSingle ==
  ASSUME TypeOK, NEW n \in Nodes, NEW p \in Packet, NEW previous, NEW reason,
         p.dest # NoNode, NEW q \in _schedule_from(n, p, previous, reason)
  PROVE  q = <<>> \/ \E hop : q = <<[from |-> n, to |-> hop, packet |-> p]>>
<1>1. q = <<>> \/ \E hop : q = Transmissions(n, p, <<hop>>)
  BY DEF _schedule_from
<1>2. ASSUME NEW hop PROVE Transmissions(n, p, <<hop>>) = <<[from |-> n, to |-> hop, packet |-> p]>>
  BY DEF Transmissions
<1> QED
  BY <1>1, <1>2

-----------------------------------------------------------------------------
(* Types.                                                                  *)

LEMMA HeadOfPending ==
  ASSUME TypeOK, pending # <<>>
  PROVE  /\ Item \in Transmission /\ Sent \in Packet /\ Receiver \in Nodes /\ Item.from \in Nodes
         /\ Len(pending) \in Nat \ {0} /\ Item = pending[1]
         /\ Tail(pending) \in Seq(Transmission)
         /\ Len(Tail(pending)) = Len(pending) - 1
         /\ \A i \in 1..Len(Tail(pending)) : Tail(pending)[i] = pending[i + 1]
         /\ packet \in Packet
<1>1. pending \in Seq(Transmission) /\ packet \in Packet
  BY DEF TypeOK
<1>2. /\ Head(pending) \in Transmission /\ Head(pending) = pending[1]
      /\ Tail(pending) \in Seq(Transmission)
      /\ Len(Tail(pending)) = Len(pending) - 1
      /\ \A i \in 1..Len(Tail(pending)) : Tail(pending)[i] = pending[i + 1]
      /\ Len(pending) \in Nat \ {0}
  BY <1>1
<1> QED
  BY <1>1, <1>2 DEF Item, Sent, Receiver, Transmission

LEMMA Forwarded ==
  ASSUME NEW p \in Packet, NEW n \in Nodes, p.ttl > 1
  PROVE  /\ forwarded(p, n) \in Packet
         /\ identity(forwarded(p, n)) = identity(p)
         /\ forwarded(p, n).kind = p.kind /\ forwarded(p, n).dest = p.dest
         /\ forwarded(p, n).origin = p.origin
         /\ forwarded(p, n).ttl = p.ttl - 1 /\ forwarded(p, n).path = p.path \union {n}
<1>1. p.hops + 1 \in Nat /\ p.ttl - 1 \in Nat /\ p.path \union {n} \in SUBSET Nodes
  BY DEF Packet
<1>2. forwarded(p, n) = [p EXCEPT !.source = n, !.hops = p.hops + 1, !.ttl = p.ttl - 1,
                                  !.path = p.path \union {n}]
  BY DEF forwarded
<1>3. forwarded(p, n) \in Packet
  BY <1>1, <1>2 DEF Packet
<1> QED
  BY <1>2, <1>3 DEF Packet, identity

LEMMA Identity ==
  ASSUME NEW p \in Packet PROVE identity(p) \in Nodes \X Nat
BY DEF Packet, identity

(* The positions of three lists joined.                                    *)
Joins(r, s, t, v) ==
  /\ Len(v) = Len(r) + Len(s) + Len(t)
  /\ \A i \in 1..Len(r) : v[i] = r[i]
  /\ \A i \in 1..Len(s) : v[Len(r) + i] = s[i]
  /\ \A i \in 1..Len(t) : v[Len(r) + Len(s) + i] = t[i]
  /\ \A i \in 1..Len(v) : \/ \E j \in 1..Len(r) : v[i] = r[j]
                          \/ \E j \in 1..Len(s) : v[i] = s[j]
                          \/ \E j \in 1..Len(t) : v[i] = t[j]

LEMMA Joined ==
  ASSUME NEW T, NEW r \in Seq(T), NEW s \in Seq(T), NEW t \in Seq(T),
         NEW v, v = (r \o s) \o t
  PROVE  v \in Seq(T) /\ Joins(r, s, t, v)
<1> DEFINE u == r \o s
<1>1. /\ Len(r) \in Nat /\ Len(s) \in Nat /\ Len(t) \in Nat
      /\ u \in Seq(T) /\ Len(u) = Len(r) + Len(s)
      /\ \A i \in 1..Len(u) : u[i] = IF i <= Len(r) THEN r[i] ELSE s[i - Len(r)]
  BY LenProperties, ConcatProperties
<1> HIDE DEF u
<1>2. /\ v \in Seq(T) /\ Len(v) = Len(u) + Len(t)
      /\ \A i \in 1..Len(v) : v[i] = IF i <= Len(u) THEN u[i] ELSE t[i - Len(u)]
  <2>1. v = u \o t
    BY DEF u
  <2> QED
    BY <1>1, <2>1, ConcatProperties
<1>3. \A i \in 1..Len(r) : v[i] = r[i]
  BY <1>1, <1>2
<1>4. \A i \in 1..Len(s) : v[Len(r) + i] = s[i]
  BY <1>1, <1>2
<1>5. ASSUME NEW i \in 1..Len(t) PROVE v[Len(r) + Len(s) + i] = t[i]
  <2>1. /\ Len(u) + i \in 1..Len(v) /\ ~(Len(u) + i <= Len(u))
        /\ (Len(u) + i) - Len(u) = i /\ Len(r) + Len(s) + i = Len(u) + i
    BY <1>1, <1>2
  <2> QED
    BY <2>1, <1>2
<1>6. ASSUME NEW i \in 1..Len(v)
      PROVE  \/ \E j \in 1..Len(r) : v[i] = r[j]
             \/ \E j \in 1..Len(s) : v[i] = s[j]
             \/ \E j \in 1..Len(t) : v[i] = t[j]
  <2>1. CASE i \in 1..Len(r)
    BY <2>1, <1>3
  <2>2. CASE i > Len(r) /\ i <= Len(r) + Len(s)
    <3>1. i - Len(r) \in 1..Len(s) /\ v[i] = s[i - Len(r)]
      BY <2>2, <1>1, <1>2
    <3> QED
      BY <3>1
  <2>3. CASE i > Len(r) + Len(s)
    <3>1. i - Len(u) \in 1..Len(t) /\ v[i] = t[i - Len(u)]
      BY <2>3, <1>1, <1>2
    <3> QED
      BY <3>1
  <2>4. Len(r) \in Nat /\ Len(s) \in Nat /\ i \in Nat /\ 1 <= i
    BY <1>1, <1>2
  <2>5. i \in 1..Len(r) \/ (i > Len(r) /\ i <= Len(r) + Len(s)) \/ i > Len(r) + Len(s)
    BY <2>4
  <2> QED
    BY <2>1, <2>2, <2>3, <2>5
<1> QED
  BY <1>1, <1>2, <1>3, <1>4, <1>5, <1>6 DEF u, Joins

(* The acknowledgement the receiver makes.                                 *)
Ack == create_packet("ack", Receiver, number[Receiver] + 1, Sent.origin, 0, MaxHops,
                     identity(Sent))

LEMMA AckIsPacket ==
  ASSUME TypeOK, pending # <<>>
  PROVE  /\ Ack \in Packet /\ identity(Ack) = <<Receiver, number[Receiver] + 1>>
         /\ Ack.kind = "ack" /\ Ack.dest = Sent.origin /\ Ack.dest \in Nodes
         /\ Ack.ttl = MaxHops /\ Ack.path = {Receiver} /\ Ack.origin = Receiver
<1>1. /\ Receiver \in Nodes /\ Sent.origin \in Nodes /\ identity(Sent) \in Nodes \X Nat
      /\ number[Receiver] + 1 \in Nat /\ MaxHops \in Nat /\ "ack" \in Kinds
  <2>1. Sent \in Packet /\ Receiver \in Nodes
    BY HeadOfPending
  <2>2. number \in [Nodes -> Nat]
    BY DEF TypeOK
  <2>3. Sent.origin \in Nodes
    BY <2>1 DEF Packet
  <2>4. MaxHops \in Nat
    BY SessionAssumption
  <2> QED
    BY <2>1, <2>2, <2>3, <2>4, Identity DEF Kinds
<1> QED
  BY <1>1 DEF Ack, create_packet, Packet, identity

(* What an accepted transmission leaves to be sent: at most the one of an  *)
(* acknowledgement, then copies of the packet itself.                      *)
LEMMA AcceptedLeaves ==
  ASSUME TypeOK, Accept
  PROVE  \E acks \in Acknowledgements, copies \in Onward :
           /\ acks \in Seq(Transmission) /\ copies \in Seq(Transmission)
           /\ pending' = (Tail(pending) \o acks) \o copies
           /\ pending' \in Seq(Transmission)
           /\ Joins(Tail(pending), acks, copies, pending')
           /\ acks # <<>> => /\ Acknowledges
                             /\ \E hop \in Nodes : /\ <<Receiver, hop>> \in Links
                                  /\ acks = <<[from |-> Receiver, to |-> hop, packet |-> Ack]>>
           /\ \A i \in 1..Len(copies) :
                /\ Sent.ttl > 1 /\ copies[i].packet = forwarded(Sent, Receiver)
                /\ copies[i].from = Receiver /\ copies[i].to \in Nodes
                /\ <<Receiver, copies[i].to>> \in Links
<1>1. PICK acks \in Acknowledgements, copies \in Onward :
        pending' = (Tail(pending) \o acks) \o copies
  BY DEF Accept
<1>2. /\ Sent \in Packet /\ Receiver \in Nodes /\ Item.from \in Nodes
      /\ Tail(pending) \in Seq(Transmission) /\ Sent.ttl \in Nat
  BY HeadOfPending DEF Accept, Packet
<1>3. Ack \in Packet /\ Ack.dest \in Nodes
  BY AckIsPacket DEF Accept
<1>4. acks \in Seq(Transmission) /\ (acks # <<>> => /\ Acknowledges
                             /\ \E hop \in Nodes : /\ <<Receiver, hop>> \in Links
                                  /\ acks = <<[from |-> Receiver, to |-> hop, packet |-> Ack]>>)
  <2>1. CASE ~Acknowledges
    BY <2>1 DEF Acknowledgements
  <2>2. CASE Acknowledges
    <3>1. acks \in _schedule_from(Receiver, Ack, NoNode, "fault_ack")
      BY <2>2 DEF Acknowledgements, Ack
    <3>2. acks \in Seq(Transmission) /\ \A i \in 1..Len(acks) :
            acks[i].to \in Nodes /\ <<Receiver, acks[i].to>> \in Links
      BY <3>1, <1>2, <1>3, ScheduleSends
    <3>3. acks = <<>> \/ \E hop : acks = <<[from |-> Receiver, to |-> hop, packet |-> Ack]>>
      <4>1. Ack.dest # NoNode
        BY <1>3, NoNodeIsNone
      <4> QED
        BY <3>1, <4>1, <1>2, <1>3, UnicastIsSingle
    <3>4. ASSUME NEW hop, acks = <<[from |-> Receiver, to |-> hop, packet |-> Ack]>>
          PROVE  hop \in Nodes /\ <<Receiver, hop>> \in Links
      <4>1. 1 \in 1..Len(acks) /\ acks[1].to = hop
        BY <3>4
      <4> QED
        BY <3>2, <4>1
    <3> QED
      BY <2>2, <3>2, <3>3, <3>4
  <2> QED
    BY <2>1, <2>2
<1>5. copies \in Seq(Transmission) /\ \A i \in 1..Len(copies) :
                /\ Sent.ttl > 1 /\ copies[i].packet = forwarded(Sent, Receiver)
                /\ copies[i].from = Receiver /\ copies[i].to \in Nodes
                /\ <<Receiver, copies[i].to>> \in Links
  <2>1. CASE Sent.dest = Receiver \/ Sent.ttl <= 1
    <3>1. copies = <<>>
      BY <2>1 DEF Onward
    <3>2. copies \in Seq(Transmission) /\ Len(copies) = 0
      BY <3>1
    <3> QED
      BY <3>2
  <2>2. CASE ~(Sent.dest = Receiver \/ Sent.ttl <= 1)
    <3>1. copies \in _schedule_from(Receiver, forwarded(Sent, Receiver), Item.from, "forward")
      BY <2>2 DEF Onward
    <3>2. Sent.ttl > 1
      BY <1>2, <2>2
    <3>3. forwarded(Sent, Receiver) \in Packet
      BY <1>2, <3>2, Forwarded
    <3> QED
      BY <3>1, <3>2, <3>3, <1>2, ScheduleSends
  <2> QED
    BY <2>1, <2>2
<1>6. pending' \in Seq(Transmission) /\ Joins(Tail(pending), acks, copies, pending')
  BY <1>1, <1>2, <1>4, <1>5, Joined
<1> QED
  BY <1>1, <1>4, <1>5, <1>6

(* Every transmission is typed, and a complete trace has none waiting,     *)
(* however the radios fail (ManualPacketSession).                          *)
THEOREM TypeCorrect == Spec => []TypeOK
<1>1. Init => TypeOK
  BY DEF Init, TypeOK
<1>2. TypeOK /\ [Next]_vars => TypeOK'
  <2> SUFFICES ASSUME TypeOK, [Next]_vars PROVE TypeOK'
    OBVIOUS
  <2>1. ASSUME NEW c \in Creations, create(c) PROVE TypeOK'
    <3> DEFINE p == create_packet(c.kind, c.source, number[c.source] + 1, c.dest, 0, c.ttl, <<>>)
    <3>1. /\ c.source \in Nodes /\ c.dest \in Nodes \union {NoNode} /\ c.ttl \in Nat
          /\ number[c.source] + 1 \in Nat /\ c.kind \in Kinds
      <4>1. number \in [Nodes -> Nat]
        BY DEF TypeOK
      <4>2. c.source \in Nodes /\ c.dest \in Nodes \union {NoNode} /\ c.ttl \in Nat \ {0}
        BY SessionAssumption
      <4> QED
        BY <4>1, <4>2 DEF Kinds
    <3>2. p \in Packet /\ p.source = c.source
      BY <3>1 DEF create_packet, Packet
    <3>3. p # NoPacket
      BY <3>1, <3>2, NoNodeIsNone DEF NoPacket, create_packet
    <3>4. pending' \in Seq(Transmission) /\ packet' = p
      <4>1. pending' \in _schedule_from(c.source, p, NoNode, "origin") /\ packet' = p
        BY <2>1 DEF create
      <4> QED
        BY <4>1, <3>1, <3>2, ScheduleSends
    <3>5. identity(p) \in Nodes \X Nat
      BY <3>2, Identity
    <3>6. seen' \subseteq Nodes \X (Nodes \X Nat) /\ number' \in [Nodes -> Nat]
      BY <2>1, <3>1, <3>5 DEF create, TypeOK
    <3>7. complete' => pending' = <<>>
      BY <2>1 DEF create
    <3>8. up' = up /\ clean' = clean
      BY <2>1 DEF create
    <3> HIDE DEF p
    <3> QED
      BY <3>2, <3>3, <3>4, <3>6, <3>7, <3>8 DEF TypeOK
  <2>2. ASSUME NEW n \in Nodes, Switch(n) PROVE TypeOK'
    BY <2>2 DEF Switch, TypeOK
  <2>3. CASE RecordDrop
    BY <2>3, HeadOfPending DEF RecordDrop, TypeOK
  <2>4. CASE SuppressDuplicate
    BY <2>4, HeadOfPending DEF SuppressDuplicate, TypeOK
  <2>5. CASE Accept
    <3>1. pending' \in Seq(Transmission)
      BY <2>5, AcceptedLeaves
    <3>2. Sighting \in Nodes \X (Nodes \X Nat) /\ packet \in Packet /\ Receiver \in Nodes
      BY <2>5, HeadOfPending, Identity DEF Accept, Sighting
    <3>3. number' \in [Nodes -> Nat]
      BY <2>5, <3>2 DEF Accept, TypeOK
    <3>4. packet \in Packet => packet # NoPacket
      BY NoNodeIsNone DEF Packet, NoPacket, create_packet
    <3> QED
      BY <2>5, <3>1, <3>2, <3>3, <3>4 DEF Accept, TypeOK
  <2>6. CASE UNCHANGED vars
    BY <2>6 DEF vars, TypeOK
  <2> QED
    BY <2>1, <2>2, <2>3, <2>4, <2>5, <2>6 DEF Next, forward_one
<1> QED
  BY <1>1, <1>2, PTL DEF Spec

-----------------------------------------------------------------------------
(* What waits: copies of the packet, each from a node that has heard it    *)
(* and that the hops the copy has made can reach, and acknowledgements on  *)
(* their way to its source.                                                *)
IsCopy(p, x) == identity(x.packet) = identity(p)

Heard(n) == <<n, identity(packet)>> \in seen

CopyOK(p, heard, x) ==
  /\ IsCopy(p, x)
  /\ x.packet.kind = p.kind /\ x.packet.dest = p.dest
  /\ x.packet.origin = p.source
  /\ x.packet.ttl \in 1..p.ttl
  /\ <<x.from, x.to>> \in Links
  /\ x.from \in Within(p.source, p.ttl - x.packet.ttl)
  /\ <<x.from, identity(p)>> \in heard

AckOK(p, x) ==
  /\ x.packet.kind = "ack" /\ x.packet.dest = p.source
  /\ x.packet.origin # p.source

Origins ==
  packet \in Packet =>
    /\ packet.origin = packet.source /\ packet.ttl \in Nat \ {0}
    /\ Heard(packet.source)
    /\ \A i \in 1..Len(pending) : CopyOK(packet, seen, pending[i]) \/ AckOK(packet, pending[i])

(* The receiver of a copy lies one link further out.                       *)
LEMMA ReceiverWithin ==
  ASSUME TypeOK, packet \in Packet, NEW x \in Transmission, CopyOK(packet, seen, x)
  PROVE  /\ packet.ttl - x.packet.ttl \in Nat /\ packet.ttl - x.packet.ttl + 1 \in Nat
         /\ x.to \in Within(packet.source, packet.ttl - x.packet.ttl + 1)
<1>1. /\ packet.ttl \in Nat /\ packet.source \in Nodes /\ x.packet.ttl \in Nat
      /\ x.to \in Nodes
  BY DEF Packet, Transmission
<1>2. packet.ttl - x.packet.ttl \in Nat
  BY <1>1 DEF CopyOK
<1> QED
  BY <1>1, <1>2, WithinGrows DEF CopyOK

LEMMA AcksAreNoCopies ==
  ASSUME packet \in Packet, packet.origin = packet.source, NEW x, AckOK(packet, x)
  PROVE  ~IsCopy(packet, x)
BY DEF AckOK, IsCopy, identity

LEMMA OriginsKept ==
  ASSUME TypeOK, TypeOK', Origins, [Next]_vars
  PROVE  Origins'
<1> SUFFICES ASSUME packet' \in Packet
             PROVE  /\ packet'.origin = packet'.source /\ packet'.ttl \in Nat \ {0}
                    /\ Heard(packet.source)'
                    /\ \A i \in 1..Len(pending') : CopyOK(packet', seen', pending'[i]) \/ AckOK(packet', pending'[i])
  BY DEF Origins
<1>1. ASSUME NEW c \in Creations, create(c)
      PROVE  /\ packet'.origin = packet'.source /\ packet'.ttl \in Nat \ {0}
             /\ Heard(packet.source)'
             /\ \A i \in 1..Len(pending') : CopyOK(packet', seen', pending'[i]) \/ AckOK(packet', pending'[i])
  <2> DEFINE p == create_packet(c.kind, c.source, number[c.source] + 1, c.dest, 0, c.ttl, <<>>)
  <2>1. c.source \in Nodes /\ c.ttl \in Nat \ {0}
    BY SessionAssumption
  <2>2. packet' = p /\ p.source = c.source /\ p.origin = c.source /\ p.ttl = c.ttl
    BY <1>1 DEF create, create_packet
  <2>3. seen' = {<<c.source, identity(p)>>}
    BY <1>1 DEF create
  <2>4. pending' \in _schedule_from(c.source, p, NoNode, "origin")
    BY <1>1 DEF create
  <2> HIDE DEF p
  <2>5. \A i \in 1..Len(pending') :
           /\ pending'[i].from = c.source /\ pending'[i].packet = p
           /\ pending'[i].to \in Nodes /\ <<c.source, pending'[i].to>> \in Links
    BY <2>1, <2>2, <2>4, ScheduleSends
  <2>6. ASSUME NEW i \in 1..Len(pending') PROVE CopyOK(packet', seen', pending'[i])
    <3>1. c.source \in Within(c.source, 0)
      BY <2>1, WithinZero
    <3>2. p.ttl - p.ttl = 0 /\ p.ttl \in 1..p.ttl
      BY <2>1, <2>2
    <3> QED
      BY <2>2, <2>3, <2>5, <3>1, <3>2 DEF CopyOK, IsCopy, Heard
  <2> QED
    BY <2>1, <2>2, <2>3, <2>6 DEF Heard
<1>3. ASSUME packet' = packet, seen \subseteq seen', Origins,
             \A i \in 1..Len(pending') : \/ \E j \in 1..Len(pending) : pending'[i] = pending[j]
                                         \/ CopyOK(packet', seen', pending'[i]) \/ AckOK(packet', pending'[i])
      PROVE  /\ packet'.origin = packet'.source /\ packet'.ttl \in Nat \ {0}
             /\ Heard(packet.source)'
             /\ \A i \in 1..Len(pending') : CopyOK(packet', seen', pending'[i]) \/ AckOK(packet', pending'[i])
  <2>1. /\ packet.origin = packet.source /\ packet.ttl \in Nat \ {0} /\ Heard(packet.source)
        /\ \A i \in 1..Len(pending) : CopyOK(packet, seen, pending[i]) \/ AckOK(packet, pending[i])
    BY <1>3 DEF Origins
  <2>2. \A x : CopyOK(packet, seen, x) => CopyOK(packet', seen', x)
    BY <1>3 DEF CopyOK
  <2>3. \A x : AckOK(packet, x) => AckOK(packet', x)
    BY <1>3
  <2> QED
    BY <2>1, <2>2, <2>3, <1>3 DEF Heard
<1>4. ASSUME NEW n \in Nodes, Switch(n) PROVE packet' = packet /\ seen' = seen /\ pending' = pending
  BY <1>4 DEF Switch
<1>5. CASE RecordDrop \/ SuppressDuplicate
  <2>1. /\ pending # <<>> /\ packet' = packet /\ seen' = seen /\ pending' = Tail(pending)
    BY <1>5 DEF RecordDrop, SuppressDuplicate
  <2>2. \A i \in 1..Len(pending') : \E j \in 1..Len(pending) : pending'[i] = pending[j]
    <3> SUFFICES ASSUME NEW i \in 1..Len(pending') PROVE \E j \in 1..Len(pending) : pending'[i] = pending[j]
      OBVIOUS
    <3>1. i + 1 \in 1..Len(pending) /\ pending'[i] = pending[i + 1]
      BY <2>1, HeadOfPending
    <3> QED
      BY <3>1
  <2> QED
    BY <1>3, <2>1, <2>2
<1>6. CASE Accept
  <2>0. pending # <<>> /\ packet' = packet /\ seen \subseteq seen' /\ Sighting \in seen'
    BY <1>6 DEF Accept
  <2>1. PICK acks \in Acknowledgements, copies \in Onward :
           /\ acks \in Seq(Transmission) /\ copies \in Seq(Transmission)
           /\ Joins(Tail(pending), acks, copies, pending')
           /\ acks # <<>> => /\ Acknowledges
                             /\ \E hop \in Nodes : /\ <<Receiver, hop>> \in Links
                                  /\ acks = <<[from |-> Receiver, to |-> hop, packet |-> Ack]>>
           /\ \A i \in 1..Len(copies) :
                /\ Sent.ttl > 1 /\ copies[i].packet = forwarded(Sent, Receiver)
                /\ copies[i].from = Receiver /\ copies[i].to \in Nodes
                /\ <<Receiver, copies[i].to>> \in Links
    BY <1>6, AcceptedLeaves
  <2>2. /\ Item \in Transmission /\ Sent \in Packet /\ Receiver \in Nodes /\ packet \in Packet
        /\ CopyOK(packet, seen, Item) \/ AckOK(packet, Item)
    <3>1. 1 \in 1..Len(pending) /\ Item = pending[1] /\ packet \in Packet
      BY <2>0, HeadOfPending
    <3> QED
      BY <2>0, <3>1, HeadOfPending DEF Origins
  <2>3. ASSUME NEW i \in 1..Len(copies) PROVE CopyOK(packet', seen', copies[i]) \/ AckOK(packet', copies[i])
    <3>1. /\ Sent.ttl > 1 /\ copies[i].packet = forwarded(Sent, Receiver)
          /\ copies[i].from = Receiver /\ <<Receiver, copies[i].to>> \in Links
      BY <2>1
    <3>2. /\ identity(copies[i].packet) = identity(Sent)
          /\ copies[i].packet.kind = Sent.kind /\ copies[i].packet.dest = Sent.dest
          /\ copies[i].packet.origin = Sent.origin /\ copies[i].packet.ttl = Sent.ttl - 1
      BY <2>2, <3>1, Forwarded
    <3>3. CASE AckOK(packet, Item)
      BY <2>0, <3>2, <3>3 DEF AckOK, Sent
    <3>4. CASE CopyOK(packet, seen, Item)
      <4>1. /\ IsCopy(packet, Item) /\ Sent.kind = packet.kind /\ Sent.dest = packet.dest
            /\ Sent.origin = packet.source /\ Sent.ttl \in 1..packet.ttl
        BY <3>4 DEF CopyOK, Sent
      <4>2. Receiver \in Within(packet.source, packet.ttl - Sent.ttl + 1)
        BY <2>2, <3>4, ReceiverWithin DEF Receiver, Sent
      <4>3. packet.ttl \in Nat /\ Sent.ttl \in Nat
        BY <2>2 DEF Packet
      <4>4. /\ packet.ttl - (Sent.ttl - 1) = packet.ttl - Sent.ttl + 1
            /\ Sent.ttl - 1 \in 1..packet.ttl
        BY <3>1, <4>1, <4>3
      <4>5. <<Receiver, identity(packet')>> \in seen'
        BY <2>0, <4>1 DEF Heard, Sighting, IsCopy, Sent
      <4>6. IsCopy(packet, copies[i])
        BY <3>2, <4>1 DEF IsCopy, Sent
      <4> QED
        BY <2>0, <3>1, <3>2, <4>1, <4>2, <4>4, <4>5, <4>6 DEF CopyOK, IsCopy
    <3> QED
      BY <2>2, <3>3, <3>4
  <2>4. ASSUME NEW i \in 1..Len(acks) PROVE CopyOK(packet', seen', acks[i]) \/ AckOK(packet', acks[i])
    <3>1. acks # <<>>
      OBVIOUS
    <3>9. PICK hop \in Nodes : acks = <<[from |-> Receiver, to |-> hop, packet |-> Ack]>>
      BY <2>1, <3>1
    <3>2. Acknowledges /\ acks[i].packet = Ack
      BY <2>1, <3>1, <3>9
    <3>3. Sent.kind = "alert" /\ Receiver # Sent.origin
      BY <3>2 DEF Acknowledges
    <3>4. Sent.origin = packet.source
      BY <2>2, <3>3 DEF CopyOK, AckOK, Sent
    <3>5. Ack.kind = "ack" /\ Ack.dest = Sent.origin /\ Ack.origin = Receiver
      BY <2>0, AckIsPacket
    <3> QED
      BY <2>0, <3>2, <3>3, <3>4, <3>5 DEF AckOK
  <2>5. /\ Tail(pending) \in Seq(Transmission) /\ Len(Tail(pending)) = Len(pending) - 1
        /\ \A i \in 1..Len(Tail(pending)) : Tail(pending)[i] = pending[i + 1]
        /\ Len(pending) \in Nat
    BY <2>0, HeadOfPending
  <2>6. ASSUME NEW i \in 1..Len(pending')
        PROVE  \/ \E j \in 1..Len(pending) : pending'[i] = pending[j]
               \/ CopyOK(packet', seen', pending'[i]) \/ AckOK(packet', pending'[i])
    <3>1. \/ \E j \in 1..Len(Tail(pending)) : pending'[i] = Tail(pending)[j]
          \/ \E j \in 1..Len(acks) : pending'[i] = acks[j]
          \/ \E j \in 1..Len(copies) : pending'[i] = copies[j]
      BY <2>1 DEF Joins
    <3>2. ASSUME NEW j \in 1..Len(Tail(pending)), pending'[i] = Tail(pending)[j]
          PROVE  \E k \in 1..Len(pending) : pending'[i] = pending[k]
      <4>1. j + 1 \in 1..Len(pending)
        BY <2>5
      <4> QED
        BY <2>5, <3>2, <4>1
    <3> QED
      BY <3>1, <3>2, <2>3, <2>4
  <2> QED
    BY <1>3, <2>0, <2>6
<1>7. CASE UNCHANGED vars
  BY <1>3, <1>7 DEF vars
<1>8. ASSUME NEW n \in Nodes, Switch(n)
      PROVE  /\ packet'.origin = packet'.source /\ packet'.ttl \in Nat \ {0}
             /\ Heard(packet.source)'
             /\ \A i \in 1..Len(pending') : CopyOK(packet', seen', pending'[i]) \/ AckOK(packet', pending'[i])
  BY <1>3, <1>4, <1>8
<1> QED
  BY <1>1, <1>5, <1>6, <1>7, <1>8 DEF Next, forward_one

LEMMA OriginsCorrect == Spec => []Origins
<1>1. Init => Origins
  BY NoNodeIsNone DEF Init, Origins, Packet, NoPacket, create_packet
<1>2. TypeOK /\ TypeOK' /\ Origins /\ [Next]_vars => Origins'
  BY OriginsKept
<1> QED
  BY <1>1, <1>2, TypeCorrect, PTL DEF Spec

-----------------------------------------------------------------------------
(* The wave front.  While nothing is lost the copies that wait have one of *)
(* two TTLs, t in front of t - 1; all nodes the spent hops can reach have  *)
(* heard the packet, and whoever else has, heard it one hop beyond; and    *)
(* each neighbour of those has heard it or has a copy waiting for it.      *)
Flooding == packet \in Packet /\ packet.kind \in Flooded /\ packet.dest = NoNode

Waiting(m, s) ==
  \E i \in 1..Len(pending) :
    IsCopy(packet, pending[i]) /\ pending[i].to = m /\ pending[i].packet.ttl = s

Reached(t) == Within(packet.source, packet.ttl - t)

Front(t) ==
  /\ \A i \in 1..Len(pending) : IsCopy(packet, pending[i]) => pending[i].packet.ttl \in {t, t - 1}
  /\ \A i, j \in 1..Len(pending) :
       i < j /\ IsCopy(packet, pending[i]) /\ IsCopy(packet, pending[j]) =>
         pending[i].packet.ttl >= pending[j].packet.ttl

Behind(t) ==
  /\ \A n \in Reached(t) : Heard(n)
  /\ t >= 1 => \A n \in Reached(t), m \in Nodes :
                 <<n, m>> \in Links => Heard(m) \/ Waiting(m, t)

Ahead(t) ==
  \A n \in Nodes \ Reached(t) :
    Heard(n) =>
      /\ n \in Reached(t - 1)
      /\ t > 1 => \A m \in Nodes : <<n, m>> \in Links => Heard(m) \/ Waiting(m, t - 1)

Wave(t) == Front(t) /\ Behind(t) /\ Ahead(t)

WaveExists == Flooding /\ clean => \E t \in 0..packet.ttl : Wave(t)

(* What one transmission does to a flood: the rest of the queue moves up,  *)
(* only copies with one hop less join it, and a node that hears its first  *)
(* copy with TTL left has one waiting for every neighbour.                 *)
LEMMA FloodPass ==
  ASSUME TypeOK, Origins, Flooding, clean, SuppressDuplicate \/ Accept
  PROVE  /\ packet' = packet
         /\ Len(pending') \in Nat /\ Len(pending') >= Len(pending) - 1
         /\ \A i \in 1..Len(pending) - 1 : pending'[i] = pending[i + 1]
         /\ \A i \in Len(pending)..Len(pending') : IsCopy(packet, pending'[i]) =>
              /\ IsCopy(packet, Item)
              /\ pending'[i].packet.ttl = Sent.ttl - 1
         /\ \A n : <<n, identity(packet)>> \in seen' <=>
                     Heard(n) \/ (IsCopy(packet, Item) /\ n = Receiver)
         /\ IsCopy(packet, Item) /\ ~Heard(Receiver) /\ Sent.ttl > 1 =>
              \A m \in Nodes : <<Receiver, m>> \in Links =>
                 \/ Heard(m)
                 \/ \E i \in Len(pending)..Len(pending') :
                      /\ IsCopy(packet, pending'[i]) /\ pending'[i].to = m
                      /\ pending'[i].packet.ttl = Sent.ttl - 1
<1>0. pending # <<>>
  BY DEF SuppressDuplicate, Accept
<1>1. /\ Item \in Transmission /\ Sent \in Packet /\ Receiver \in Nodes /\ packet \in Packet
      /\ Len(pending) \in Nat \ {0} /\ Sent.ttl \in Nat /\ Item.from \in Nodes
      /\ Len(Tail(pending)) = Len(pending) - 1
      /\ \A i \in 1..Len(Tail(pending)) : Tail(pending)[i] = pending[i + 1]
      /\ Sent = Item.packet /\ Receiver = Item.to
  BY <1>0, HeadOfPending DEF Packet, Sent, Receiver
<1>2. IsCopy(packet, Item) <=> Sighting = <<Receiver, identity(packet)>>
  BY DEF IsCopy, Sighting, Sent
<1>3. CASE SuppressDuplicate
  <2>1. packet' = packet /\ pending' = Tail(pending) /\ seen' = seen /\ Sighting \in seen
    BY <1>3 DEF SuppressDuplicate
  <2>2. IsCopy(packet, Item) => Heard(Receiver)
    BY <2>1, <1>2 DEF Heard
  <2>3. Len(pending') = Len(pending) - 1 /\ Len(pending)..Len(pending') = {}
    BY <1>1, <2>1
  <2> QED
    BY <1>1, <2>1, <2>2, <2>3 DEF Heard
<1>4. CASE Accept
  <2>1. packet' = packet /\ seen' = seen \union {Sighting}
    BY <1>4 DEF Accept
  <2>2. PICK acks \in Acknowledgements, copies \in Onward :
           /\ acks \in Seq(Transmission) /\ copies \in Seq(Transmission)
           /\ Joins(Tail(pending), acks, copies, pending')
           /\ acks # <<>> => /\ Acknowledges
                             /\ \E hop \in Nodes : /\ <<Receiver, hop>> \in Links
                                  /\ acks = <<[from |-> Receiver, to |-> hop, packet |-> Ack]>>
           /\ \A i \in 1..Len(copies) :
                /\ Sent.ttl > 1 /\ copies[i].packet = forwarded(Sent, Receiver)
                /\ copies[i].from = Receiver /\ copies[i].to \in Nodes
                /\ <<Receiver, copies[i].to>> \in Links
    BY <1>4, AcceptedLeaves
  <2>3. /\ Len(acks) \in Nat /\ Len(copies) \in Nat
        /\ Len(pending') = Len(pending) - 1 + Len(acks) + Len(copies)
        /\ \A i \in 1..Len(pending) - 1 : pending'[i] = pending[i + 1]
        /\ \A i \in 1..Len(acks) : pending'[Len(pending) - 1 + i] = acks[i]
        /\ \A i \in 1..Len(copies) : pending'[Len(pending) - 1 + Len(acks) + i] = copies[i]
    BY <1>1, <2>2 DEF Joins
  <2>4. ASSUME NEW i \in 1..Len(copies)
        PROVE  /\ copies[i].packet.ttl = Sent.ttl - 1
               /\ IsCopy(packet, copies[i]) <=> IsCopy(packet, Item)
    <3>1. Sent.ttl > 1 /\ copies[i].packet = forwarded(Sent, Receiver)
      BY <2>2
    <3>2. /\ copies[i].packet.ttl = Sent.ttl - 1
          /\ identity(copies[i].packet) = identity(Sent)
      BY <1>1, <3>1, Forwarded
    <3> QED
      BY <3>2 DEF IsCopy, Sent
  <2>5. ASSUME NEW i \in 1..Len(acks) PROVE ~IsCopy(packet, acks[i])
    <3>0. acks # <<>>
      BY <2>3
    <3>1. PICK hop \in Nodes : acks = <<[from |-> Receiver, to |-> hop, packet |-> Ack]>>
      BY <3>0, <2>2
    <3>2. acks[i].packet = Ack /\ Acknowledges
      BY <3>0, <3>1, <2>2
    <3>3. Sent.kind = "alert" /\ Receiver # Sent.origin
      BY <3>2 DEF Acknowledges
    <3>4. CopyOK(packet, seen, Item) \/ AckOK(packet, Item)
      BY <1>0, <1>1, HeadOfPending DEF Origins
    <3>5. Sent.origin = packet.source /\ packet.origin = packet.source
      BY <1>1, <3>3, <3>4 DEF CopyOK, AckOK, Origins
    <3>6. identity(Ack) = <<Receiver, number[Receiver] + 1>>
      BY <1>0, AckIsPacket
    <3> QED
      BY <3>2, <3>3, <3>5, <3>6 DEF IsCopy, identity
  <2>6. ASSUME NEW i \in Len(pending)..Len(pending'), IsCopy(packet, pending'[i])
        PROVE  IsCopy(packet, Item) /\ pending'[i].packet.ttl = Sent.ttl - 1
    <3>1. CASE i <= Len(pending) - 1 + Len(acks)
      <4> DEFINE k == i - (Len(pending) - 1)
      <4>1. k \in 1..Len(acks) /\ i = Len(pending) - 1 + k
        BY <3>1, <1>1, <2>3
      <4> HIDE DEF k
      <4> QED
        BY <4>1, <2>3, <2>5, <2>6
    <3>2. CASE i > Len(pending) - 1 + Len(acks)
      <4> DEFINE k == i - (Len(pending) - 1 + Len(acks))
      <4>1. k \in 1..Len(copies) /\ i = Len(pending) - 1 + Len(acks) + k
        BY <3>2, <1>1, <2>3
      <4> HIDE DEF k
      <4> QED
        BY <4>1, <2>3, <2>4, <2>6
    <3> QED
      BY <3>1, <3>2, <1>1, <2>3
  <2>7. ASSUME IsCopy(packet, Item), Sent.ttl > 1,
               NEW m \in Nodes, <<Receiver, m>> \in Links, ~Heard(m)
        PROVE  \E i \in Len(pending)..Len(pending') :
                  /\ IsCopy(packet, pending'[i]) /\ pending'[i].to = m
                  /\ pending'[i].packet.ttl = Sent.ttl - 1
    <3>1. CopyOK(packet, seen, Item)
      <4>1. CopyOK(packet, seen, Item) \/ AckOK(packet, Item)
        BY <1>0, <1>1, HeadOfPending DEF Origins
      <4> QED
        BY <4>1, <1>1, <2>7, AcksAreNoCopies DEF Origins
    <3>2. /\ Sent.dest = NoNode /\ Sent.kind \in Flooded /\ Heard(Item.from)
      BY <3>1 DEF CopyOK, Sent, Flooding, Heard
    <3>3. forwarded(Sent, Receiver) \in Packet
          /\ forwarded(Sent, Receiver).dest = NoNode /\ forwarded(Sent, Receiver).kind \in Flooded
      BY <1>1, <2>7, <3>2, Forwarded
    <3>4. copies \in _schedule_from(Receiver, forwarded(Sent, Receiver), Item.from, "forward")
      BY <1>1, <2>2, <2>7, <3>2, NoNodeIsNone DEF Onward
    <3>5. up[Receiver] /\ m \in Near(Receiver) \ {Item.from}
      BY <1>1, <2>7, <3>2 DEF Near, TypeOK
    <3>6. PICK i \in 1..Len(copies) : copies[i].to = m
      BY <1>1, <3>3, <3>4, <3>5, FloodSends
    <3> DEFINE k == Len(pending) - 1 + Len(acks) + i
    <3>7. k \in Len(pending)..Len(pending') /\ pending'[k] = copies[i]
      BY <1>1, <2>3
    <3> HIDE DEF k
    <3> QED
      BY <2>4, <2>7, <3>6, <3>7
  <2>8. \A n : <<n, identity(packet)>> \in seen' <=>
                     Heard(n) \/ (IsCopy(packet, Item) /\ n = Receiver)
    BY <2>1 DEF Heard, Sighting, IsCopy, Sent
  <2> QED
    BY <1>1, <2>1, <2>3, <2>6, <2>7, <2>8
<1> QED
  BY <1>3, <1>4

(* A wave keeps its form as its front copy, or an acknowledgement, passes. *)
LEMMA WavePasses ==
  ASSUME TypeOK, Origins, Flooding, clean, SuppressDuplicate \/ Accept,
         NEW t \in 0..packet.ttl, Wave(t), IsCopy(packet, Item) => Sent.ttl = t
  PROVE  Wave(t)'
<1>0. pending # <<>>
  BY DEF SuppressDuplicate, Accept
<1>1. /\ Item \in Transmission /\ Sent \in Packet /\ Receiver \in Nodes /\ packet \in Packet
      /\ Len(pending) \in Nat \ {0} /\ packet.ttl \in Nat /\ packet.source \in Nodes
      /\ Sent = Item.packet /\ Receiver = Item.to /\ Item = pending[1]
  BY <1>0, HeadOfPending DEF Packet, Sent, Receiver
<1>2. /\ packet' = packet
      /\ Len(pending') \in Nat /\ Len(pending') >= Len(pending) - 1
      /\ \A i \in 1..Len(pending) - 1 : pending'[i] = pending[i + 1]
      /\ \A i \in Len(pending)..Len(pending') : IsCopy(packet, pending'[i]) =>
           /\ IsCopy(packet, Item)
           /\ pending'[i].packet.ttl = Sent.ttl - 1
      /\ \A n : <<n, identity(packet)>> \in seen' <=>
                  Heard(n) \/ (IsCopy(packet, Item) /\ n = Receiver)
  BY FloodPass
<1>3. IsCopy(packet, Item) /\ ~Heard(Receiver) /\ Sent.ttl > 1 =>
        \A m \in Nodes : <<Receiver, m>> \in Links =>
           \/ Heard(m)
           \/ \E i \in Len(pending)..Len(pending') :
                /\ IsCopy(packet, pending'[i]) /\ pending'[i].to = m
                /\ pending'[i].packet.ttl = Sent.ttl - 1
  BY FloodPass
<1>4. \A n : (Heard(n)' <=> Heard(n) \/ (IsCopy(packet, Item) /\ n = Receiver))
  BY <1>2 DEF Heard
<1>5. \A s : Reached(s)' = Reached(s)
  BY <1>2 DEF Reached
<1>6. t \in Nat /\ \A s : (s >= 0 /\ s <= t /\ s \in Int) => packet.ttl - s \in Nat
  BY <1>1
(* Where the copies of the next state come from.                           *)
<1>7. ASSUME NEW i \in 1..Len(pending'), IsCopy(packet, pending'[i])
      PROVE  \/ i + 1 \in 1..Len(pending) /\ pending'[i] = pending[i + 1]
             \/ /\ i >= Len(pending) /\ IsCopy(packet, Item)
                /\ pending'[i].packet.ttl = t - 1
  <2>1. CASE i < Len(pending)
    BY <2>1, <1>1, <1>2
  <2>2. CASE i >= Len(pending)
    BY <2>2, <1>1, <1>2, <1>7
  <2> QED
    BY <2>1, <2>2, <1>1, <1>2
<1>8. Front(t)'
  <2>1. ASSUME NEW i \in 1..Len(pending'), IsCopy(packet, pending'[i])
        PROVE  pending'[i].packet.ttl \in {t, t - 1}
    BY <1>7, <2>1 DEF Wave, Front
  <2>2. ASSUME NEW i \in 1..Len(pending'), NEW j \in 1..Len(pending'), i < j,
               IsCopy(packet, pending'[i]), IsCopy(packet, pending'[j])
        PROVE  pending'[i].packet.ttl >= pending'[j].packet.ttl
    <3>1. CASE j >= Len(pending) /\ pending'[j].packet.ttl = t - 1
      BY <2>1, <2>2, <3>1, <1>6
    <3>2. CASE j + 1 \in 1..Len(pending) /\ pending'[j] = pending[j + 1]
      <4>1. i + 1 \in 1..Len(pending) /\ pending'[i] = pending[i + 1] /\ i + 1 < j + 1
        BY <1>1, <1>2, <2>2, <3>2
      <4> QED
        BY <2>2, <3>2, <4>1 DEF Wave, Front
    <3> QED
      BY <3>1, <3>2, <2>2, <1>7
  <2> QED
    BY <1>2, <2>1, <2>2 DEF Front
(* Whoever has a copy waiting has one still, or has heard it now.          *)
<1>9. ASSUME NEW m \in Nodes, NEW s, Heard(m) \/ Waiting(m, s)
      PROVE  Heard(m)' \/ Waiting(m, s)'
  <2>1. CASE Heard(m)
    BY <2>1, <1>4
  <2>2. CASE Waiting(m, s)
    <3>1. PICK i \in 1..Len(pending) :
            IsCopy(packet, pending[i]) /\ pending[i].to = m /\ pending[i].packet.ttl = s
      BY <2>2 DEF Waiting
    <3>2. CASE i = 1
      BY <1>1, <1>4, <3>1, <3>2
    <3>3. CASE i # 1
      <4> DEFINE k == i - 1
      <4>1. k \in 1..Len(pending') /\ pending'[k] = pending[i]
        BY <1>1, <1>2, <3>3
      <4> HIDE DEF k
      <4> QED
        BY <1>2, <3>1, <4>1 DEF Waiting
    <3> QED
      BY <3>2, <3>3
  <2> QED
    BY <2>1, <2>2, <1>9
<1>10. Behind(t)'
  <2>1. \A n \in Reached(t) : Heard(n)'
    BY <1>4 DEF Wave, Behind
  <2>2. t >= 1 => \A n \in Reached(t), m \in Nodes :
                    <<n, m>> \in Links => Heard(m)' \/ Waiting(m, t)'
    BY <1>9 DEF Wave, Behind
  <2> QED
    BY <1>5, <2>1, <2>2 DEF Behind
<1>11. ASSUME NEW n \in Nodes \ Reached(t), Heard(n)'
       PROVE  /\ n \in Reached(t - 1)
              /\ t > 1 => \A m \in Nodes : <<n, m>> \in Links => Heard(m)' \/ Waiting(m, t - 1)'
  <2>1. CASE Heard(n)
    <3>1. /\ n \in Reached(t - 1)
          /\ t > 1 => \A m \in Nodes : <<n, m>> \in Links => Heard(m) \/ Waiting(m, t - 1)
      BY <2>1 DEF Wave, Ahead
    <3> QED
      BY <3>1, <1>9
  <2>2. CASE ~Heard(n)
    <3>1. IsCopy(packet, Item) /\ n = Receiver /\ Sent.ttl = t
      BY <2>2, <1>4, <1>11
    <3>2. CopyOK(packet, seen, Item)
      <4>1. CopyOK(packet, seen, Item) \/ AckOK(packet, Item)
        BY <1>0, <1>1, HeadOfPending DEF Origins
      <4> QED
        BY <4>1, <1>1, <3>1, AcksAreNoCopies DEF Origins
    <3>3. n \in Reached(t - 1)
      <4>1. n \in Within(packet.source, packet.ttl - t + 1)
        BY <1>1, <3>1, <3>2, ReceiverWithin
      <4>2. packet.ttl - t + 1 = packet.ttl - (t - 1)
        BY <1>1, <1>6
      <4> QED
        BY <4>1, <4>2 DEF Reached
    <3>4. ASSUME t > 1, NEW m \in Nodes, <<n, m>> \in Links, ~Heard(m)
          PROVE  Waiting(m, t - 1)'
      <4>1. PICK i \in Len(pending)..Len(pending') :
                /\ IsCopy(packet, pending'[i]) /\ pending'[i].to = m
                /\ pending'[i].packet.ttl = t - 1
        BY <1>3, <2>2, <3>1, <3>4
      <4>2. i \in 1..Len(pending')
        BY <1>1, <1>2
      <4> QED
        BY <1>2, <4>1, <4>2 DEF Waiting
    <3> QED
      BY <3>3, <3>4, <1>4
  <2> QED
    BY <2>1, <2>2
<1>12. Ahead(t)'
  BY <1>5, <1>11 DEF Ahead
<1> QED
  BY <1>8, <1>10, <1>12 DEF Wave

(* When no copy of the front is left the next ring is complete.            *)
LEMMA WaveAdvances ==
  ASSUME TypeOK, Flooding, NEW t \in 1..packet.ttl, Wave(t),
         \A i \in 1..Len(pending) : IsCopy(packet, pending[i]) => pending[i].packet.ttl # t
  PROVE  Wave(t - 1)
<1>1. /\ packet.ttl \in Nat /\ packet.source \in Nodes /\ t \in Nat
      /\ packet.ttl - t \in Nat /\ packet.ttl - (t - 1) = packet.ttl - t + 1
  BY DEF Flooding, Packet
<1>2. ASSUME NEW m \in Nodes PROVE ~Waiting(m, t)
  BY DEF Waiting
<1>3. Reached(t) \subseteq Reached(t - 1)
  <2> SUFFICES ASSUME NEW n \in Reached(t) PROVE n \in Reached(t - 1)
    OBVIOUS
  <2>1. n \in Nodes
    BY WithinIsNodes DEF Reached
  <2> QED
    BY <1>1, <2>1, WithinGrows DEF Reached
<1>4. ASSUME NEW n \in Reached(t - 1) PROVE Heard(n)
  <2>1. PICK m \in Reached(t) : n = m \/ <<m, n>> \in Links
    BY <1>1, WithinStep DEF Reached
  <2>2. n \in Nodes
    BY WithinIsNodes DEF Reached
  <2> QED
    BY <1>1, <1>2, <2>1, <2>2 DEF Wave, Behind
<1>5. Front(t - 1)
  <2>1. \A i \in 1..Len(pending) : IsCopy(packet, pending[i]) => pending[i].packet.ttl = t - 1
    BY DEF Wave, Front
  <2> QED
    BY <2>1, <1>1 DEF Wave, Front
<1>6. ASSUME t - 1 >= 1, NEW n \in Reached(t - 1), NEW m \in Nodes, <<n, m>> \in Links
      PROVE  Heard(m) \/ Waiting(m, t - 1)
  <2>1. n \in Nodes /\ t > 1
    BY <1>1, <1>6, WithinIsNodes DEF Reached
  <2>2. CASE n \in Reached(t)
    BY <1>1, <1>2, <1>6, <2>2 DEF Wave, Behind
  <2>3. CASE n \notin Reached(t)
    BY <1>4, <1>6, <2>1, <2>3 DEF Wave, Ahead
  <2> QED
    BY <2>2, <2>3
<1>7. Ahead(t - 1)
  BY <1>3 DEF Wave, Ahead
<1> QED
  BY <1>4, <1>5, <1>6, <1>7 DEF Wave, Behind

LEMMA FloodStarts ==
  ASSUME TypeOK, TypeOK', NEW c \in Creations, create(c), Flooding', clean',
         NEW T, T = packet'.ttl
  PROVE  Wave(T)'
<1> DEFINE p == create_packet(c.kind, c.source, number[c.source] + 1, c.dest, 0, c.ttl, <<>>)
<1>1. /\ packet' = p /\ p.source = c.source /\ c.source \in Nodes
      /\ p.ttl \in Nat \ {0} /\ T = p.ttl /\ up[c.source] /\ seen' = {<<c.source, identity(p)>>}
      /\ pending' \in _schedule_from(c.source, p, NoNode, "origin")
      /\ clean' = clean
  BY SessionAssumption DEF create, create_packet
<1>2. p \in Packet /\ p.dest = NoNode
  BY <1>1 DEF Flooding
<1> HIDE DEF p
<1>3. /\ pending' \in Seq(Transmission) /\ Len(pending') \in Nat
      /\ \A i \in 1..Len(pending') : pending'[i].packet = p
  <2>1. pending' \in Seq(Transmission)
    BY DEF TypeOK
  <2>2. \A i \in 1..Len(pending') :
           /\ pending'[i].from = c.source /\ pending'[i].packet = p
           /\ pending'[i].to \in Nodes /\ <<c.source, pending'[i].to>> \in Links
    <3>1. /\ pending' \in _schedule_from(c.source, p, NoNode, "origin")
          /\ c.source \in Nodes /\ p \in Packet
      BY <1>1, <1>2
    <3> QED
      BY <3>1, ScheduleSends
  <2>3. Len(pending') \in Nat
    BY <2>1, LenProperties
  <2> QED
    BY <2>1, <2>2, <2>3
<1>4. \A m \in Near(c.source) \ {NoNode} : \E i \in 1..Len(pending') : pending'[i].to = m
  BY <1>1, <1>2, FloodSends
<1>5. Reached(T)' = {c.source}
  <2>1. p.ttl - p.ttl = 0
    BY <1>1
  <2> QED
    BY <1>1, <2>1, WithinZero DEF Reached
<1>6. Front(T)'
  BY <1>1, <1>3 DEF Front
<1>7. Behind(T)'
  <2>1. \A n \in Reached(T)' : Heard(n)'
    BY <1>1, <1>5 DEF Heard
  <2>2. ASSUME NEW m \in Nodes, <<c.source, m>> \in Links
        PROVE  Waiting(m, T)'
    <3>1. m \in Near(c.source) \ {NoNode}
      BY <1>1, <2>2, NoNodeIsNone DEF Near, TypeOK
    <3>2. PICK i \in 1..Len(pending') : pending'[i].to = m
      BY <1>4, <3>1
    <3> QED
      BY <1>1, <1>3, <3>2 DEF Waiting, IsCopy
  <2> QED
    BY <1>5, <2>1, <2>2 DEF Behind
<1>8. Ahead(T)'
  BY <1>1, <1>5 DEF Ahead, Heard
<1> QED
  BY <1>6, <1>7, <1>8 DEF Wave

LEMMA WaveKept ==
  ASSUME TypeOK, TypeOK', Origins, WaveExists, [Next]_vars
  PROVE  WaveExists'
<1> SUFFICES ASSUME Flooding', clean' PROVE \E t \in 0..packet'.ttl : Wave(t)'
  BY DEF WaveExists
<1>1. ASSUME NEW c \in Creations, create(c) PROVE \E t \in 0..packet'.ttl : Wave(t)'
  <2>1. packet'.ttl \in Nat
    BY DEF Flooding, Packet
  <2>2. PICK T : T = packet'.ttl
    OBVIOUS
  <2>3. T \in 0..T /\ Wave(T)'
    BY <1>1, <2>1, <2>2, FloodStarts
  <2> QED
    BY <2>2, <2>3
<1>2. CASE SuppressDuplicate \/ Accept
  <2>1. Flooding /\ clean /\ packet' = packet
    BY <1>2 DEF SuppressDuplicate, Accept, Flooding
  <2>2. PICK t \in 0..packet.ttl : Wave(t)
    BY <2>1 DEF WaveExists
  <2>3. CASE IsCopy(packet, Item) => Sent.ttl = t
    BY <1>2, <2>1, <2>2, <2>3, WavePasses
  <2>4. CASE IsCopy(packet, Item) /\ Sent.ttl # t
    <3>0. pending # <<>> /\ packet \in Packet
      BY <1>2, <2>1 DEF SuppressDuplicate, Accept, Flooding
    <3>1. /\ Item = pending[1] /\ 1 \in 1..Len(pending) /\ Len(pending) \in Nat
          /\ Sent = Item.packet /\ packet.ttl \in Nat /\ Sent.ttl \in Nat
      BY <3>0, HeadOfPending DEF Sent, Packet
    <3>2. Sent.ttl = t - 1
      BY <2>2, <2>4, <3>1 DEF Wave, Front
    <3>3. Sent.ttl \in 1..packet.ttl
      <4>1. CopyOK(packet, seen, Item) \/ AckOK(packet, Item)
        BY <3>0, <3>1 DEF Origins
      <4>2. CopyOK(packet, seen, Item)
        BY <2>4, <3>0, <4>1, AcksAreNoCopies DEF Origins
      <4> QED
        BY <3>1, <4>2 DEF CopyOK
    <3>4. ASSUME NEW i \in 1..Len(pending), IsCopy(packet, pending[i])
          PROVE  pending[i].packet.ttl # t
      <4>1. CASE i = 1
        BY <2>4, <3>1, <4>1
      <4>2. CASE i # 1
        <5>1. 1 < i /\ pending[i].packet.ttl \in {t, t - 1}
          BY <2>2, <3>1, <3>4, <4>2 DEF Wave, Front
        <5>2. Sent.ttl >= pending[i].packet.ttl
          BY <2>2, <2>4, <3>1, <3>4, <5>1 DEF Wave, Front
        <5> QED
          BY <3>1, <3>2, <5>1, <5>2
      <4> QED
        BY <4>1, <4>2
    <3>5. t \in 1..packet.ttl /\ t - 1 \in 0..packet.ttl
      BY <3>1, <3>2, <3>3
    <3>6. Wave(t - 1)
      BY <2>1, <2>2, <3>4, <3>5, WaveAdvances
    <3>7. Wave(t - 1)'
      BY <1>2, <2>1, <3>2, <3>5, <3>6, WavePasses
    <3> QED
      BY <2>1, <3>5, <3>7
  <2> QED
    BY <2>3, <2>4
<1>3. CASE RecordDrop
  BY <1>3 DEF RecordDrop
<1>4. ASSUME NEW n \in Nodes, Switch(n) PROVE FALSE
  BY <1>4 DEF Switch
<1>5. CASE UNCHANGED vars
  <2>1. /\ packet' = packet /\ pending' = pending /\ seen' = seen /\ clean' = clean
    BY <1>5 DEF vars
  <2>2. PICK t \in 0..packet.ttl : Wave(t)
    BY <2>1 DEF WaveExists, Flooding
  <2>3. Wave(t)'
    BY <2>1, <2>2 DEF Wave, Front, Behind, Ahead, Reached, Waiting, Heard
  <2> QED
    BY <2>1, <2>3
<1> QED
  BY <1>1, <1>2, <1>3, <1>4, <1>5 DEF Next, forward_one

(* The least front of a wave, when no copy waits, is behind the last ring. *)
LEMMA LeastFront ==
  ASSUME NEW F, F \subseteq Nat, F # {}
  PROVE  \E m \in F : \A n \in F : m <= n
<1>1. \E m \in F : \A n \in F : <<n, m>> \notin OpToRel(<, Nat)
  BY WFMin, NatLessThanWellFounded
<1>2. \E m \in F : \A n \in F : ~(n < m)
  BY <1>1 DEF OpToRel
<1> QED
  BY <1>2

LEMMA WaveArrives ==
  ASSUME TypeOK, WaveExists
  PROVE  FloodReachesRadius
<1> SUFFICES ASSUME complete, clean, packet.kind \in Flooded, packet.dest = NoNode,
                    NEW n \in Within(packet.source, packet.ttl)
             PROVE  <<n, identity(packet)>> \in seen
  BY DEF FloodReachesRadius
<1>1. pending = <<>> /\ packet \in Packet
  BY DEF TypeOK
<1>2. packet.ttl \in Nat /\ Flooding /\ Len(pending) = 0
  BY <1>1 DEF Packet, Flooding
<1> DEFINE F == {t \in 0..packet.ttl : Wave(t)}
<1>3. F # {} /\ F \subseteq Nat
  BY <1>2 DEF WaveExists
<1> HIDE DEF F
<1>4. PICK t \in F : \A s \in F : t <= s
  BY <1>3, LeastFront
<1>5. t \in 0..packet.ttl /\ Wave(t)
  BY <1>4 DEF F
<1>6. t = 0
  <2> SUFFICES ASSUME t # 0 PROVE FALSE
    OBVIOUS
  <2>1. t \in 1..packet.ttl /\ t - 1 \in 0..packet.ttl /\ ~(t <= t - 1)
    BY <1>2, <1>5
  <2>2. Wave(t - 1)
    BY <1>2, <1>5, <2>1, WaveAdvances
  <2> QED
    BY <1>4, <2>1, <2>2 DEF F
<1>7. Reached(0) = Within(packet.source, packet.ttl)
  <2>1. packet.ttl - 0 = packet.ttl
    BY <1>2
  <2> QED
    BY <2>1 DEF Reached
<1> QED
  BY <1>5, <1>6, <1>7 DEF Wave, Behind, Heard

(* In a trace without losses a flood reaches every node that its TTL can,  *)
(* in any mesh: of the copies a node hears the first carries the most TTL  *)
(* (manual_simulation.py, forward_one and _schedule_from).                 *)
THEOREM FloodsReachTheirRadius == Spec => []FloodReachesRadius
<1>1. Init => WaveExists
  BY NoNodeIsNone DEF Init, WaveExists, Flooding, Packet, NoPacket, create_packet
<1>2. TypeOK /\ TypeOK' /\ Origins /\ WaveExists /\ [Next]_vars => WaveExists'
  BY WaveKept
<1>3. TypeOK /\ WaveExists => FloodReachesRadius
  BY WaveArrives
<1> QED
  BY <1>1, <1>2, <1>3, TypeCorrect, OriginsCorrect, PTL DEF Spec

-----------------------------------------------------------------------------
(* Acknowledgements.  While nothing is lost every node that has heard the  *)
(* alert has its acknowledgement at the source, or waiting: one hop nearer *)
(* than all nodes it has been at, and with TTL for the rest of the way.    *)
LEMMA WithinWidens ==
  ASSUME NEW n, NEW a \in Nat, NEW b \in Nat, a <= b
  PROVE  Within(n, a) \subseteq Within(n, b)
<1> SUFFICES ASSUME NEW m \in Within(n, a) PROVE m \in Within(n, b)
  OBVIOUS
<1>1. PICK w \in [0..a -> Nodes] :
        /\ w[0] = n /\ w[a] = m /\ m \in Nodes
        /\ \A i \in 1..a : w[i] = w[i - 1] \/ <<w[i - 1], w[i]>> \in Links
  BY DEF Within
<1> DEFINE v == [i \in 0..b |-> IF i <= a THEN w[i] ELSE m]
<1>2. v \in [0..b -> Nodes] /\ v[0] = n /\ v[b] = m
  BY <1>1
<1>3. ASSUME NEW i \in 1..b PROVE v[i] = v[i - 1] \/ <<v[i - 1], v[i]>> \in Links
  <2>1. CASE i <= a
    <3>1. v[i] = w[i] /\ v[i - 1] = w[i - 1] /\ i \in 1..a
      BY <2>1
    <3> QED
      BY <3>1, <1>1
  <2>2. CASE i > a
    <3>1. v[i] = m /\ v[i - 1] = m
      BY <2>2, <1>1
    <3> QED
      BY <3>1
  <2> QED
    BY <2>1, <2>2
<1> HIDE DEF v
<1> QED
  BY <1>1, <1>2, <1>3 DEF Within

Alerting ==
  packet \in Packet /\ packet.kind = "alert" /\ generate_fault_acks

(* The packet is one that was asked for.                                   *)
Requested ==
  packet \in Packet =>
    \E c \in Creations :
      c.kind = packet.kind /\ c.source = packet.source /\ c.ttl = packet.ttl

Area == Within(packet.source, packet.ttl)

OnWay(far, p, heard, x) ==
  /\ x.to \in Within(p.source, p.ttl)
  /\ far[x.to][p.source] < x.packet.ttl
  /\ \A y \in x.packet.path : far[x.to][p.source] < far[y][p.source]
  /\ \A y \in Nodes : <<y, identity(x.packet)>> \in heard =>
                        far[x.to][p.source] < far[y][p.source]

Travelling(far) ==
  \A i \in 1..Len(pending) :
    AckOK(packet, pending[i]) => OnWay(far, packet, seen, pending[i])

(* Acknowledgements are numbered by their makers, and none waits twice.    *)
Numbered ==
  /\ \A i \in 1..Len(pending) : AckOK(packet, pending[i]) =>
       pending[i].packet.no <= number[pending[i].packet.origin]
  /\ \A i, j \in 1..Len(pending) :
       AckOK(packet, pending[i]) /\ identity(pending[i].packet) = identity(pending[j].packet) =>
         i = j
  /\ \A y, o \in Nodes, k \in Nat : <<y, <<o, k>>>> \in seen => k <= number[o]

Answered ==
  \A n \in Nodes \ {packet.source} : Heard(n) =>
    \E k \in 1..number[n] :
      \/ <<packet.source, <<n, k>>>> \in seen
      \/ \E i \in 1..Len(pending) : identity(pending[i].packet) = <<n, k>>

AcksExist(far) == Alerting /\ clean => Travelling(far) /\ Numbered /\ Answered

LEMMA RequestedCorrect == Spec => []Requested
<1>1. Init => Requested
  BY NoNodeIsNone DEF Init, Requested, Packet, NoPacket, create_packet
<1>2. Requested /\ [Next]_vars => Requested'
  <2> SUFFICES ASSUME Requested, [Next]_vars PROVE Requested'
    OBVIOUS
  <2>1. ASSUME NEW c \in Creations, create(c) PROVE Requested'
    <3>1. packet'.kind = c.kind /\ packet'.source = c.source /\ packet'.ttl = c.ttl
      BY <2>1 DEF create, create_packet
    <3> QED
      BY <3>1 DEF Requested
  <2>2. CASE packet' = packet
    BY <2>2 DEF Requested
  <2> QED
    BY <2>1, <2>2 DEF Next, forward_one, RecordDrop, SuppressDuplicate, Accept, Switch, vars
<1> QED
  BY <1>1, <1>2, PTL DEF Spec

(* What RoutesLead says of the present alert.                              *)
LEMMA RoutesOfAlert ==
  ASSUME TypeOK, Requested, Alerting, NEW far, RoutesLead(far), NEW n \in Area \ {packet.source}
  PROVE  /\ far[n][packet.source] \in 1..MaxHops
         /\ \A h \in NextHops[n][packet.source] :
              /\ h \in Area /\ <<n, h>> \in Links
              /\ far[h][packet.source] < far[n][packet.source]
<1>1. PICK c \in Creations :
        c.kind = "alert" /\ c.source = packet.source /\ c.ttl = packet.ttl
  BY DEF Requested, Alerting
<1> QED
  BY <1>1 DEF RoutesLead, Area

(* A node of the area that has something for the source sends it on, to a  *)
(* node nearer to it, unless that has been visited.                        *)
LEMMA SendsHome ==
  ASSUME TypeOK, clean, Requested, Alerting, NEW far \in [Nodes -> [Nodes -> Nat]], RoutesLead(far),
         NEW r \in Area \ {packet.source}, NEW p \in Packet, p.dest = packet.source,
         \A y \in p.path : far[r][packet.source] <= far[y][packet.source],
         NEW previous, NEW reason, NEW q \in _schedule_from(r, p, previous, reason)
  PROVE  \E h \in Area : /\ far[h][packet.source] < far[r][packet.source]
                         /\ q = <<[from |-> r, to |-> h, packet |-> p]>>
<1>1. r \in Nodes /\ packet.source \in Nodes /\ Area \subseteq Nodes
  BY WithinIsNodes DEF Area, Alerting, Packet
<1>2. \A h \in NextHops[r][packet.source] :
        /\ h \in Area /\ <<r, h>> \in Links
        /\ far[h][packet.source] < far[r][packet.source]
  BY RoutesOfAlert
<1>3. ASSUME NEW h \in NextHops[r][packet.source] PROVE h \in Near(r) \ p.path
  <2>1. h \in Nodes /\ <<r, h>> \in Links /\ up[h]
    BY <1>1, <1>2 DEF TypeOK
  <2>2. h \notin p.path
    <3> SUFFICES ASSUME h \in p.path PROVE FALSE
      OBVIOUS
    <3>1. far[h][packet.source] \in Nat /\ far[r][packet.source] \in Nat
      BY <1>1, <2>1
    <3>2. far[r][packet.source] <= far[h][packet.source]
      OBVIOUS
    <3>3. far[h][packet.source] < far[r][packet.source]
      BY <1>2
    <3> QED
      BY <3>1, <3>2, <3>3
  <2> QED
    BY <2>1, <2>2 DEF Near
<1>4. up[r] /\ p.dest \in Nodes \ {r} /\ NextHops[r][p.dest] \subseteq Near(r) \ p.path
  BY <1>1, <1>3 DEF TypeOK
<1>5. PICK h \in NextHops[r][p.dest] : q = <<[from |-> r, to |-> h, packet |-> p]>>
  BY <1>1, <1>4, UnicastSends
<1> QED
  BY <1>2, <1>5

(* An acknowledgement is no copy of the alert, whichever its number.       *)
LEMMA AckIdentity ==
  ASSUME Alerting, Origins, NEW x \in Transmission, AckOK(packet, x)
  PROVE  /\ identity(x.packet) = <<x.packet.origin, x.packet.no>>
         /\ identity(x.packet) # identity(packet)
         /\ x.packet.origin \in Nodes /\ x.packet.no \in Nat
BY DEF AckOK, identity, Origins, Transmission, Packet, Alerting

LEMMA PendingKind ==
  ASSUME TypeOK, Alerting, Origins, NEW i \in 1..Len(pending)
  PROVE  /\ pending[i] \in Transmission
         /\ \/ CopyOK(packet, seen, pending[i]) /\ ~AckOK(packet, pending[i])
            \/ AckOK(packet, pending[i]) /\ ~IsCopy(packet, pending[i])
<1>1. pending \in Seq(Transmission)
  BY DEF TypeOK
<1>2. pending[i] \in Transmission
  BY <1>1, ElementOfSeq
<1>3. CopyOK(packet, seen, pending[i]) \/ AckOK(packet, pending[i])
  BY DEF Origins, Alerting
<1>4. AckOK(packet, pending[i]) => ~IsCopy(packet, pending[i])
  BY <1>2, AckIdentity DEF IsCopy
<1> QED
  BY <1>2, <1>3, <1>4 DEF CopyOK

LEMMA AcksStart ==
  ASSUME TypeOK, TypeOK', Origins', NEW c \in Creations, create(c), Alerting', NEW far
  PROVE  Travelling(far)' /\ Numbered' /\ Answered'
<1> DEFINE p == create_packet(c.kind, c.source, number[c.source] + 1, c.dest, 0, c.ttl, <<>>)
<1>1. /\ packet' = p /\ p.source = c.source /\ p.origin = c.source /\ c.source \in Nodes
      /\ seen' = {<<c.source, identity(p)>>} /\ identity(p) = <<c.source, number[c.source] + 1>>
      /\ pending' \in _schedule_from(c.source, p, NoNode, "origin")
      /\ number' = [number EXCEPT ![c.source] = @ + 1]
  BY SessionAssumption DEF create, create_packet, identity
<1>2. p \in Packet
  BY <1>1 DEF Alerting
<1> HIDE DEF p
<1>3. \A i \in 1..Len(pending') :
           /\ pending'[i].from = c.source /\ pending'[i].packet = p
           /\ pending'[i].to \in Nodes /\ <<c.source, pending'[i].to>> \in Links
  <2>1. /\ pending' \in _schedule_from(c.source, p, NoNode, "origin")
        /\ c.source \in Nodes /\ p \in Packet
    BY <1>1, <1>2
  <2> QED
    BY <2>1, ScheduleSends
<1>4. ASSUME NEW i \in 1..Len(pending') PROVE ~AckOK(packet', pending'[i])
  BY <1>1, <1>3 DEF AckOK
<1>5. Travelling(far)'
  BY <1>4 DEF Travelling
<1>6. number' \in [Nodes -> Nat] /\ number'[c.source] = number[c.source] + 1
  BY <1>1 DEF TypeOK
<1>7. Numbered'
  BY <1>1, <1>4, <1>6 DEF Numbered
<1>8. Answered'
  BY <1>1 DEF Answered, Heard
<1> QED
  BY <1>5, <1>7, <1>8

(* The queue moves up; what joins it is as good as what waits, and new.    *)
MovesUp(far) ==
  /\ packet' = packet /\ Len(pending') \in Nat
  /\ \A i \in 1..Len(pending) - 1 : pending'[i] = pending[i + 1]
  /\ \A i, j \in Len(pending)..Len(pending') :
       AckOK(packet, pending'[i])
         /\ identity(pending'[i].packet) = identity(pending'[j].packet) => i = j
  /\ \A i \in Len(pending)..Len(pending') : AckOK(packet, pending'[i]) =>
       /\ OnWay(far, packet, seen', pending'[i])
       /\ pending'[i].packet.no <= number'[pending'[i].packet.origin]
  /\ \A i \in Len(pending)..Len(pending'), j \in 2..Len(pending) :
       AckOK(packet, pending'[i]) \/ AckOK(packet, pending[j]) =>
         identity(pending'[i].packet) # identity(pending[j].packet)

(* It is not they that are seen, and numbers are issued before.            *)
SeesOther ==
  /\ \A j \in 2..Len(pending), y \in Nodes :
       AckOK(packet, pending[j]) /\ <<y, identity(pending[j].packet)>> \in seen' =>
         <<y, identity(pending[j].packet)>> \in seen
  /\ \A n \in Nodes : number[n] \in Nat /\ number'[n] \in Nat /\ number[n] <= number'[n]
  /\ \A y, o \in Nodes, k \in Nat : <<y, <<o, k>>>> \in seen' => k <= number'[o]

LEMMA AcksStay ==
  ASSUME TypeOK, Alerting, Origins, pending # <<>>, NEW far, Travelling(far), Numbered,
         MovesUp(far), SeesOther
  PROVE  Travelling(far)' /\ Numbered'
<1>1. Len(pending) \in Nat \ {0}
  BY HeadOfPending
<1>2. ASSUME NEW i \in 1..Len(pending')
      PROVE  \/ i \in Len(pending)..Len(pending')
             \/ i < Len(pending) /\ i + 1 \in 2..Len(pending) /\ pending'[i] = pending[i + 1]
  BY <1>1 DEF MovesUp
<1>3. ASSUME NEW i \in 1..Len(pending'), AckOK(packet, pending'[i])
      PROVE  /\ OnWay(far, packet, seen', pending'[i])
             /\ pending'[i].packet.no <= number'[pending'[i].packet.origin]
  <2>1. CASE i \in Len(pending)..Len(pending')
    BY <1>3, <2>1 DEF MovesUp
  <2>2. CASE i + 1 \in 2..Len(pending) /\ pending'[i] = pending[i + 1]
    <3> DEFINE j == i + 1
               x == pending[j]
    <3>1. j \in 1..Len(pending) /\ j \in 2..Len(pending) /\ x = pending'[i] /\ AckOK(packet, x)
      BY <1>1, <1>3, <2>2
    <3>2. OnWay(far, packet, seen, x) /\ x.packet.no <= number[x.packet.origin]
      BY <3>1 DEF Travelling, Numbered
    <3>3. \A y \in Nodes : <<y, identity(x.packet)>> \in seen' => <<y, identity(x.packet)>> \in seen
      BY <3>1 DEF SeesOther
    <3>4. x \in Transmission
      BY <3>1, PendingKind
    <3>5. x.packet.origin \in Nodes /\ x.packet.no \in Nat
      BY <3>1, <3>4, AckIdentity
    <3>6. number[x.packet.origin] <= number'[x.packet.origin]
          /\ number[x.packet.origin] \in Nat /\ number'[x.packet.origin] \in Nat
      BY <3>5 DEF SeesOther
    <3> HIDE DEF x, j
    <3>7. x.packet.no <= number'[x.packet.origin]
      BY <3>2, <3>5, <3>6
    <3> QED
      BY <3>1, <3>2, <3>3, <3>7 DEF OnWay
  <2> QED
    BY <1>2, <2>1, <2>2
<1>4. ASSUME NEW i \in 1..Len(pending'), NEW j \in 1..Len(pending'), AckOK(packet, pending'[i]),
             identity(pending'[i].packet) = identity(pending'[j].packet)
      PROVE  i = j
  <2>1. CASE i \in Len(pending)..Len(pending') /\ j \in Len(pending)..Len(pending')
    BY <1>4, <2>1 DEF MovesUp
  <2>2. CASE i \in Len(pending)..Len(pending') /\ j + 1 \in 2..Len(pending)
               /\ pending'[j] = pending[j + 1]
    BY <1>4, <2>2 DEF MovesUp
  <2>3. CASE j \in Len(pending)..Len(pending') /\ i + 1 \in 2..Len(pending)
               /\ pending'[i] = pending[i + 1]
    BY <1>4, <2>3 DEF MovesUp
  <2>4. CASE /\ i + 1 \in 2..Len(pending) /\ pending'[i] = pending[i + 1]
             /\ j + 1 \in 2..Len(pending) /\ pending'[j] = pending[j + 1]
    <3>1. i + 1 \in 1..Len(pending) /\ j + 1 \in 1..Len(pending)
      BY <1>1, <2>4
    <3>2. i + 1 = j + 1
      BY <1>4, <2>4, <3>1 DEF Numbered
    <3> QED
      BY <3>2
  <2> QED
    BY <1>2, <2>1, <2>2, <2>3, <2>4
<1>5. Travelling(far)'
  BY <1>3 DEF Travelling, MovesUp
<1>6. Numbered'
  BY <1>3, <1>4 DEF Numbered, MovesUp, SeesOther
<1> QED
  BY <1>5, <1>6

(* A copy that is not a first one is no acknowledgement.                   *)
LEMMA SuppressedIsCopy ==
  ASSUME TypeOK, Alerting, Origins, SuppressDuplicate,
         NEW far \in [Nodes -> [Nodes -> Nat]], Travelling(far)
  PROVE  ~AckOK(packet, Item) /\ CopyOK(packet, seen, Item)
<1>1. /\ pending # <<>> /\ Sighting \in seen
  BY DEF SuppressDuplicate
<1>2. /\ Item = pending[1] /\ 1 \in 1..Len(pending) /\ Item \in Transmission
      /\ Receiver \in Nodes /\ packet.source \in Nodes
  BY <1>1, HeadOfPending DEF Packet
<1>3. ASSUME AckOK(packet, Item) PROVE FALSE
  <2>1. OnWay(far, packet, seen, Item)
    BY <1>2, <1>3 DEF Travelling
  <2>2. far[Receiver][packet.source] < far[Receiver][packet.source]
    BY <1>1, <1>2, <2>1 DEF OnWay, Sighting, Receiver, Sent
  <2>3. far[Receiver][packet.source] \in Nat
    BY <1>2
  <2> QED
    BY <2>2, <2>3
<1> QED
  BY <1>2, <1>3, PendingKind

LEMMA AcksSuppress ==
  ASSUME TypeOK, Alerting, Origins, SuppressDuplicate,
         NEW far \in [Nodes -> [Nodes -> Nat]], Travelling(far), Numbered, Answered
  PROVE  Travelling(far)' /\ Numbered' /\ Answered'
<1>1. /\ pending # <<>> /\ packet' = packet /\ seen' = seen /\ number' = number
      /\ pending' = Tail(pending)
  BY DEF SuppressDuplicate
<1>2. /\ Len(pending) \in Nat \ {0} /\ Len(pending') = Len(pending) - 1 /\ Item = pending[1]
      /\ \A i \in 1..Len(pending) - 1 : pending'[i] = pending[i + 1]
  BY <1>1, HeadOfPending
<1>3. Len(pending)..Len(pending') = {}
  BY <1>2
<1>4. \A n \in Nodes : number[n] \in Nat
  BY DEF TypeOK
<1>5. \A y, o \in Nodes, k \in Nat : <<y, <<o, k>>>> \in seen => k <= number[o]
  BY DEF Numbered
<1>6. Len(pending') \in Nat
  BY <1>2
<1>7. Travelling(far)' /\ Numbered'
  <2>1. MovesUp(far)
    BY <1>1, <1>2, <1>3, <1>6 DEF MovesUp
  <2>2. SeesOther
    BY <1>1, <1>4, <1>5 DEF SeesOther
  <2> QED
    BY <1>1, <2>1, <2>2, AcksStay
<1>8. IsCopy(packet, Item)
  BY SuppressedIsCopy DEF CopyOK
<1>9. Answered'
  <2> SUFFICES ASSUME NEW n \in Nodes \ {packet.source}, Heard(n)
               PROVE  \E k \in 1..number[n] :
                        \/ <<packet.source, <<n, k>>>> \in seen
                        \/ \E i \in 1..Len(pending') : identity(pending'[i].packet) = <<n, k>>
    BY <1>1 DEF Answered, Heard
  <2>1. PICK k \in 1..number[n] :
          \/ <<packet.source, <<n, k>>>> \in seen
          \/ \E i \in 1..Len(pending) : identity(pending[i].packet) = <<n, k>>
    BY DEF Answered
  <2>2. ASSUME NEW i \in 1..Len(pending), identity(pending[i].packet) = <<n, k>>
        PROVE  \E j \in 1..Len(pending') : identity(pending'[j].packet) = <<n, k>>
    <3>1. i # 1
      BY <1>2, <1>8, <2>2 DEF IsCopy, identity, Origins, Alerting
    <3> DEFINE j == i - 1
    <3>2. j \in 1..Len(pending') /\ pending'[j] = pending[i]
      BY <1>2, <3>1
    <3> QED
      BY <2>2, <3>2
  <2> QED
    BY <2>1, <2>2
<1> QED
  BY <1>7, <1>9

(* The obligation to a node stays met when the head was not what met it or *)
(* its place is taken.                                                     *)
LEMMA StillAnswered ==
  ASSUME TypeOK, pending # <<>>, NEW n \in Nodes \ {packet.source}, Heard(n), Answered,
         number'[n] \in Nat, number[n] <= number'[n],
         seen \subseteq seen', Len(pending') \in Nat, Len(pending') >= Len(pending) - 1,
         \A i \in 1..Len(pending) - 1 : pending'[i] = pending[i + 1],
         \A k \in Nat : identity(Sent) = <<n, k>> =>
           \/ <<packet.source, <<n, k>>>> \in seen'
           \/ \E i \in 1..Len(pending') : identity(pending'[i].packet) = <<n, k>>
  PROVE  \E k \in 1..number'[n] :
           \/ <<packet.source, <<n, k>>>> \in seen'
           \/ \E i \in 1..Len(pending') : identity(pending'[i].packet) = <<n, k>>
<1>1. Len(pending) \in Nat \ {0} /\ Item = pending[1] /\ number[n] \in Nat
  BY HeadOfPending DEF TypeOK
<1>2. PICK k \in 1..number[n] :
        \/ <<packet.source, <<n, k>>>> \in seen
        \/ \E i \in 1..Len(pending) : identity(pending[i].packet) = <<n, k>>
  BY DEF Answered
<1>3. k \in 1..number'[n] /\ k \in Nat
  BY <1>1
<1>4. ASSUME NEW i \in 1..Len(pending), identity(pending[i].packet) = <<n, k>>
      PROVE  \/ <<packet.source, <<n, k>>>> \in seen'
             \/ \E j \in 1..Len(pending') : identity(pending'[j].packet) = <<n, k>>
  <2>1. CASE i = 1
    BY <1>1, <1>3, <1>4, <2>1 DEF Sent
  <2>2. CASE i # 1
    <3> DEFINE j == i - 1
    <3>1. j \in 1..Len(pending') /\ pending'[j] = pending[i]
      BY <1>1, <2>2
    <3> HIDE DEF j
    <3> QED
      BY <1>4, <3>1
  <2> QED
    BY <2>1, <2>2
<1> QED
  BY <1>2, <1>3, <1>4

(* An acknowledgement that travels moves one hop on.                       *)
LEMMA AcksMove ==
  ASSUME TypeOK, TypeOK', clean, Alerting, Origins, Requested, Accept, AckOK(packet, Item),
         NEW far \in [Nodes -> [Nodes -> Nat]], RoutesLead(far),
         Travelling(far), Numbered, Answered
  PROVE  Travelling(far)' /\ Numbered' /\ Answered'
<1> DEFINE S == packet.source
<1>1. /\ pending # <<>> /\ packet' = packet /\ seen' = seen \union {Sighting}
      /\ Sighting \notin seen
  BY DEF Accept
<1>2. /\ Item = pending[1] /\ 1 \in 1..Len(pending) /\ Item \in Transmission
      /\ Sent \in Packet /\ Sent = Item.packet /\ Receiver = Item.to
      /\ Receiver \in Nodes /\ S \in Nodes /\ Len(pending) \in Nat \ {0}
      /\ Len(Tail(pending)) = Len(pending) - 1
      /\ \A i \in 1..Len(Tail(pending)) : Tail(pending)[i] = pending[i + 1]
  <2>1. S \in Nodes
    BY DEF Alerting, Packet
  <2> QED
    BY <1>1, <2>1, HeadOfPending DEF Sent, Receiver
<1>3. Sent.kind = "ack" /\ Sent.dest = S /\ Sent.origin # S
  BY <1>2 DEF AckOK
<1>4. ~Acknowledges /\ number' = number
  BY <1>3 DEF Accept, Acknowledges
<1>5. OnWay(far, packet, seen, Item)
  BY <1>2 DEF Travelling
<1>6. PICK acks \in Acknowledgements, copies \in Onward :
           /\ copies \in Seq(Transmission)
           /\ Joins(Tail(pending), acks, copies, pending')
           /\ acks # <<>> => Acknowledges
           /\ \A i \in 1..Len(copies) : /\ Sent.ttl > 1 /\ copies[i].packet = forwarded(Sent, Receiver)
                                        /\ copies[i].from = Receiver
  BY AcceptedLeaves
<1>7. /\ Len(copies) \in Nat /\ Len(pending') = Len(pending) - 1 + Len(copies)
      /\ \A i \in 1..Len(pending) - 1 : pending'[i] = pending[i + 1]
      /\ \A i \in 1..Len(copies) : pending'[Len(pending) - 1 + i] = copies[i]
  <2>1. acks = <<>> /\ Len(acks) = 0
    BY <1>4, <1>6
  <2>2. Len(copies) \in Nat
    BY <1>6
  <2> QED
    BY <1>2, <1>6, <2>1, <2>2 DEF Joins
<1>8. \A n \in Nodes : number[n] \in Nat
  BY DEF TypeOK
<1>9. identity(Sent) = <<Sent.origin, Sent.no>> /\ Sent.origin \in Nodes /\ Sent.no \in Nat
  BY <1>2, AckIdentity
<1>10. Sent.no <= number[Sent.origin]
  BY <1>2 DEF Numbered
(* What is sent on, if it has not arrived.                                 *)
<1>11. ASSUME Receiver # S
       PROVE  \E h \in Area :
                /\ copies = <<[from |-> Receiver, to |-> h, packet |-> forwarded(Sent, Receiver)]>>
                /\ far[h][S] < far[Receiver][S]
  <2>1. Receiver \in Area \ {S}
    BY <1>2, <1>5, <1>11 DEF OnWay, Area
  <2>2. far[Receiver][S] \in 1..MaxHops
    BY <2>1, RoutesOfAlert
  <2>3. Sent.ttl \in Nat /\ far[Receiver][S] < Sent.ttl
    BY <1>2, <1>5 DEF OnWay, Packet
  <2>4. Sent.ttl > 1
    BY <2>2, <2>3
  <2>5. /\ forwarded(Sent, Receiver) \in Packet /\ forwarded(Sent, Receiver).dest = S
        /\ forwarded(Sent, Receiver).path = Sent.path \union {Receiver}
    BY <1>2, <1>3, <2>4, Forwarded
  <2>6. \A y \in forwarded(Sent, Receiver).path : far[Receiver][S] <= far[y][S]
    <3> SUFFICES ASSUME NEW y \in Sent.path \union {Receiver} PROVE far[Receiver][S] <= far[y][S]
      BY <2>5
    <3>1. y \in Nodes
      BY <1>2 DEF Packet
    <3>2. far[y][S] \in Nat /\ far[Receiver][S] \in Nat
      BY <1>2, <3>1
    <3>3. y = Receiver \/ far[Receiver][S] < far[y][S]
      BY <1>2, <1>5 DEF OnWay
    <3> QED
      BY <3>2, <3>3
  <2>7. copies \in _schedule_from(Receiver, forwarded(Sent, Receiver), Item.from, "forward")
    BY <1>3, <1>11, <2>4, <2>3 DEF Onward
  <2>8. \E h \in Area : /\ far[h][S] < far[Receiver][S]
           /\ copies = <<[from |-> Receiver, to |-> h, packet |-> forwarded(Sent, Receiver)]>>
    BY <2>1, <2>5, <2>6, <2>7, SendsHome
  <2> QED
    BY <2>8
<1>12. ASSUME NEW i \in Len(pending)..Len(pending')
       PROVE  /\ i = Len(pending) /\ Receiver # S /\ Len(pending') = Len(pending)
              /\ identity(pending'[i].packet) = identity(Sent)
              /\ pending'[i].packet.no = Sent.no /\ pending'[i].packet.origin = Sent.origin
              /\ OnWay(far, packet, seen', pending'[i])
  <2>1. Len(copies) # 0
    BY <1>2, <1>7
  <2>2. Receiver # S
    <3> SUFFICES ASSUME Receiver = S PROVE FALSE
      OBVIOUS
    <3>1. copies = <<>>
      BY <1>3 DEF Onward
    <3> QED
      BY <2>1, <3>1
  <2>3. PICK h \in Area :
          /\ copies = <<[from |-> Receiver, to |-> h, packet |-> forwarded(Sent, Receiver)]>>
          /\ far[h][S] < far[Receiver][S]
    BY <1>11, <2>2
  <2> DEFINE x == [from |-> Receiver, to |-> h, packet |-> forwarded(Sent, Receiver)]
  <2>4. Len(copies) = 1 /\ copies[1] = x /\ x.to = h /\ x.packet = forwarded(Sent, Receiver)
    BY <2>3
  <2>5. i = Len(pending) /\ Len(pending') = Len(pending) /\ pending'[i] = x
    BY <1>2, <1>7, <2>4
  <2>6. Sent.ttl > 1 /\ Sent.ttl \in Nat
    BY <1>2, <1>6, <2>4 DEF Packet
  <2>7. /\ identity(x.packet) = identity(Sent) /\ x.packet.origin = Sent.origin
        /\ x.packet.ttl = Sent.ttl - 1 /\ x.packet.path = Sent.path \union {Receiver}
        /\ x.packet.no = Sent.no
    BY <1>2, <2>4, <2>6, Forwarded DEF identity
  <2> HIDE DEF x
  <2>8. h \in Nodes /\ far[h][S] \in Nat /\ far[Receiver][S] \in Nat
    BY <1>2, WithinIsNodes DEF Area
  <2>9. far[h][S] < x.packet.ttl
    <3>1. far[Receiver][S] < Sent.ttl
      BY <1>2, <1>5 DEF OnWay
    <3>2. \A a, b, c \in Nat : a < b /\ b < c => a < c - 1
      OBVIOUS
    <3>3. far[h][S] < Sent.ttl - 1
      <4> HIDE DEF S
      <4> QED
        BY <2>3, <2>6, <2>8, <3>1, <3>2
    <3> QED
      BY <2>7, <3>3
  <2>10. ASSUME NEW y \in Nodes, far[Receiver][S] < far[y][S] \/ y = Receiver
         PROVE  far[h][S] < far[y][S]
    <3>1. far[y][S] \in Nat
      BY <1>2
    <3>2. CASE y = Receiver
      BY <2>3, <3>2
    <3>3. CASE far[Receiver][S] < far[y][S]
      <4>1. \A a, b, c \in Nat : a < b /\ b < c => a < c
        OBVIOUS
      <4> HIDE DEF S
      <4> QED
        BY <3>1, <3>3, <2>3, <2>8, <4>1
    <3> QED
      BY <3>2, <3>3, <2>10
  <2>11. \A y \in x.packet.path : far[h][S] < far[y][S]
    <3>1. Sent.path \subseteq Nodes
      BY <1>2 DEF Packet
    <3> QED
      BY <1>2, <1>5, <2>7, <2>10, <3>1 DEF OnWay
  <2>12. \A y \in Nodes : <<y, identity(x.packet)>> \in seen' => far[h][S] < far[y][S]
    <3> SUFFICES ASSUME NEW y \in Nodes, <<y, identity(Sent)>> \in seen'
                 PROVE  far[h][S] < far[y][S]
      BY <2>7
    <3>1. <<y, identity(Sent)>> \in seen \/ y = Receiver
      BY <1>1 DEF Sighting
    <3> QED
      BY <1>2, <1>5, <2>10, <3>1 DEF OnWay
  <2>13. OnWay(far, packet, seen', x)
    BY <2>4, <2>9, <2>11, <2>12 DEF OnWay, Area
  <2>14. OnWay(far, packet, seen', pending'[i])
    BY <2>5, <2>13
  <2>15. /\ identity(pending'[i].packet) = identity(Sent)
         /\ pending'[i].packet.no = Sent.no /\ pending'[i].packet.origin = Sent.origin
    BY <2>5, <2>7
  <2> QED
    BY <2>2, <2>5, <2>14, <2>15
<1>13. \A j \in 2..Len(pending) : identity(pending[j].packet) # identity(Sent)
  BY <1>2 DEF Numbered
<1>14. MovesUp(far)
  <2>1. Len(pending') \in Nat
    BY <1>2, <1>7
  <2>2. \A i \in Len(pending)..Len(pending'), j \in 2..Len(pending) :
          identity(pending'[i].packet) # identity(pending[j].packet)
    BY <1>12, <1>13
  <2>3. \A i, j \in Len(pending)..Len(pending') : i = j
    BY <1>12
  <2>4. \A i \in Len(pending)..Len(pending') :
          /\ OnWay(far, packet, seen', pending'[i])
          /\ pending'[i].packet.no <= number'[pending'[i].packet.origin]
    BY <1>4, <1>10, <1>12
  <2> QED
    BY <1>1, <1>7, <2>1, <2>2, <2>3, <2>4 DEF MovesUp
<1>15. SeesOther
  <2>1. \A j \in 2..Len(pending), y \in Nodes :
          <<y, identity(pending[j].packet)>> \in seen' =>
            <<y, identity(pending[j].packet)>> \in seen
    BY <1>1, <1>13 DEF Sighting
  <2>2. \A y, o \in Nodes, k \in Nat : <<y, <<o, k>>>> \in seen' => k <= number'[o]
    BY <1>1, <1>4, <1>9, <1>10 DEF Numbered, Sighting
  <2> QED
    BY <1>4, <1>8, <2>1, <2>2 DEF SeesOther
<1>16. Travelling(far)' /\ Numbered'
  BY <1>1, <1>14, <1>15, AcksStay
<1>17. Answered'
  <2> SUFFICES ASSUME NEW n \in Nodes \ {S}, Heard(n)
               PROVE  \E k \in 1..number'[n] :
                        \/ <<S, <<n, k>>>> \in seen'
                        \/ \E i \in 1..Len(pending') : identity(pending'[i].packet) = <<n, k>>
    <3>1. identity(Sent) # identity(packet)
      BY <1>2, AckIdentity
    <3>2. \A n : <<n, identity(packet)>> \in seen' => Heard(n)
      BY <1>1, <3>1 DEF Heard, Sighting
    <3> QED
      BY <1>1, <3>2 DEF Answered, Heard
  <2>1. \/ <<S, identity(Sent)>> \in seen'
        \/ \E i \in 1..Len(pending') : identity(pending'[i].packet) = identity(Sent)
    <3>1. CASE Receiver = S
      BY <1>1, <3>1 DEF Sighting
    <3>2. CASE Receiver # S
      <4>1. Len(copies) = 1
        BY <1>11, <3>2
      <4>2. Len(pending) \in Len(pending)..Len(pending') /\ Len(pending) \in 1..Len(pending')
        BY <1>2, <1>7, <4>1
      <4> QED
        BY <1>12, <4>2
    <3> QED
      BY <3>1, <3>2
  <2>2. \A k \in Nat : identity(Sent) = <<n, k>> =>
          \/ <<S, <<n, k>>>> \in seen'
          \/ \E i \in 1..Len(pending') : identity(pending'[i].packet) = <<n, k>>
    BY <2>1
  <2>3. /\ number'[n] \in Nat /\ number[n] <= number'[n] /\ seen \subseteq seen'
        /\ Len(pending') \in Nat /\ Len(pending') >= Len(pending) - 1
    <3>1. number'[n] \in Nat /\ number[n] <= number'[n]
      BY <1>4, <1>8
    <3>2. seen \subseteq seen'
      BY <1>1
    <3>3. Len(pending') \in Nat /\ Len(pending') >= Len(pending) - 1
      BY <1>2, <1>7
    <3> QED
      BY <3>1, <3>2, <3>3
  <2> QED
    BY <1>1, <1>7, <2>2, <2>3, StillAnswered
<1> QED
  BY <1>16, <1>17

(* A node that hears the alert first has its acknowledgement on the way.   *)
LEMMA AcksJoin ==
  ASSUME TypeOK, TypeOK', clean, Alerting, Origins, Requested, Accept, CopyOK(packet, seen, Item),
         NEW far \in [Nodes -> [Nodes -> Nat]], RoutesLead(far),
         Travelling(far), Numbered, Answered
  PROVE  Travelling(far)' /\ Numbered' /\ Answered'
<1> DEFINE S == packet.source
           fresh == <<Receiver, number[Receiver] + 1>>
<1>0. S \in Nodes /\ packet.ttl \in Nat /\ number \in [Nodes -> Nat] /\ MaxHops \in Nat
  BY SessionAssumption DEF Alerting, Packet, TypeOK
<1>1. /\ pending # <<>> /\ packet' = packet /\ seen' = seen \union {Sighting}
      /\ Sighting \notin seen
  BY DEF Accept
<1>2. /\ Item = pending[1] /\ 1 \in 1..Len(pending) /\ Item \in Transmission
      /\ Sent \in Packet /\ Sent = Item.packet /\ Receiver = Item.to
      /\ Receiver \in Nodes /\ Len(pending) \in Nat \ {0}
      /\ Len(Tail(pending)) = Len(pending) - 1
      /\ \A i \in 1..Len(Tail(pending)) : Tail(pending)[i] = pending[i + 1]
  BY <1>1, HeadOfPending DEF Sent, Receiver
<1>3. /\ Sent.kind = "alert" /\ Sent.origin = S /\ identity(Sent) = identity(packet)
      /\ Sent.ttl \in 1..packet.ttl /\ packet.origin = S /\ identity(packet) = <<S, packet.no>>
  BY <1>2 DEF CopyOK, IsCopy, Alerting, Origins, identity
<1>4. Receiver \in Area \ {S}
  <2>1. /\ packet.ttl - Sent.ttl + 1 \in Nat
        /\ Receiver \in Within(packet.source, packet.ttl - Sent.ttl + 1)
    BY <1>2, ReceiverWithin DEF Alerting
  <2>2. packet.ttl - Sent.ttl + 1 <= packet.ttl
    BY <1>0, <1>3
  <2>3. Receiver \in Area
    BY <1>0, <2>1, <2>2, WithinWidens DEF Area
  <2>4. Receiver # S
    BY <1>1, <1>3 DEF Origins, Alerting, Heard, Sighting
  <2> QED
    BY <2>3, <2>4
<1>5. Acknowledges /\ number' = [number EXCEPT ![Receiver] = @ + 1]
  BY <1>3, <1>4 DEF Accept, Acknowledges, Alerting
<1>6. PICK acks \in Acknowledgements, copies \in Onward :
           /\ acks \in Seq(Transmission) /\ copies \in Seq(Transmission)
           /\ Joins(Tail(pending), acks, copies, pending')
           /\ \A i \in 1..Len(copies) : Sent.ttl > 1 /\ copies[i].packet = forwarded(Sent, Receiver)
  BY AcceptedLeaves
<1>7. /\ Ack \in Packet /\ identity(Ack) = fresh /\ Ack.kind = "ack" /\ Ack.dest = S
      /\ Ack.ttl = MaxHops /\ Ack.path = {Receiver} /\ Ack.origin = Receiver
      /\ Ack.no = number[Receiver] + 1
  BY <1>1, <1>3, AckIsPacket DEF Ack, create_packet
<1>8. PICK h \in Area : /\ far[h][S] < far[Receiver][S]
                        /\ acks = <<[from |-> Receiver, to |-> h, packet |-> Ack]>>
  <2>1. acks \in _schedule_from(Receiver, Ack, NoNode, "fault_ack")
    BY <1>5, <1>6 DEF Acknowledgements, Ack
  <2>2. \A y \in Ack.path : far[Receiver][S] <= far[y][S]
    BY <1>0, <1>2, <1>7
  <2> QED
    BY <1>4, <1>7, <2>1, <2>2, SendsHome
<1> DEFINE x == [from |-> Receiver, to |-> h, packet |-> Ack]
<1>9. Len(acks) = 1 /\ acks[1] = x /\ x.to = h /\ x.packet = Ack /\ Len(copies) \in Nat
  BY <1>6, <1>8
<1>10. /\ Len(pending') = Len(pending) + Len(copies)
       /\ \A i \in 1..Len(pending) - 1 : pending'[i] = pending[i + 1]
       /\ pending'[Len(pending)] = x
       /\ \A i \in 1..Len(copies) : pending'[Len(pending) + i] = copies[i]
  <2>1. \A i \in 1..Len(acks) : pending'[Len(pending) - 1 + i] = acks[i]
    BY <1>2, <1>6 DEF Joins
  <2>2. pending'[Len(pending)] = x
    BY <1>2, <1>9, <2>1
  <2>3. \A i \in 1..Len(copies) : pending'[Len(pending) - 1 + 1 + i] = copies[i]
    BY <1>2, <1>6, <1>9 DEF Joins
  <2>4. Len(pending') = Len(pending) - 1 + 1 + Len(copies)
    BY <1>2, <1>6, <1>9 DEF Joins
  <2>5. \A i \in 1..Len(pending) - 1 : pending'[i] = pending[i + 1]
    BY <1>2, <1>6 DEF Joins
  <2> QED
    BY <1>2, <1>9, <2>2, <2>3, <2>4, <2>5
<1> HIDE DEF x
<1>11. ASSUME NEW i \in 1..Len(copies)
       PROVE  ~AckOK(packet, copies[i]) /\ identity(copies[i].packet) = identity(packet)
  <2>1. Sent.ttl > 1 /\ copies[i].packet = forwarded(Sent, Receiver)
    BY <1>6
  <2> QED
    BY <1>2, <1>3, <2>1, Forwarded DEF AckOK
(* The new acknowledgement.                                                *)
<1>12. /\ OnWay(far, packet, seen', x) /\ identity(x.packet) = fresh
       /\ x.packet.no <= number'[x.packet.origin]
  <2>1. far[Receiver][S] \in 1..MaxHops
    BY <1>4, RoutesOfAlert
  <2>2. h \in Nodes /\ far[h][S] \in Nat
    BY <1>0, WithinIsNodes DEF Area
  <2>3. far[h][S] < x.packet.ttl
    <3>1. \A a \in Nat, b \in 1..MaxHops : a < b => a < MaxHops
      BY <1>0
    <3>2. far[h][S] < MaxHops
      <4> HIDE DEF S
      <4> QED
        BY <1>8, <2>1, <2>2, <3>1
    <3> QED
      BY <1>7, <1>9, <3>2
  <2>4. \A y \in x.packet.path : far[h][S] < far[y][S]
    BY <1>7, <1>8, <1>9
  <2>5. \A y \in Nodes : <<y, fresh>> \notin seen'
    <3>1. number[Receiver] \in Nat /\ number[Receiver] + 1 \in Nat
          /\ ~(number[Receiver] + 1 <= number[Receiver])
      BY <1>0, <1>2
    <3>2. \A y \in Nodes : <<y, fresh>> \notin seen
      BY <1>2, <3>1 DEF Numbered
    <3>3. fresh # identity(Sent)
      BY <1>3, <1>4
    <3> QED
      BY <1>1, <3>2, <3>3 DEF Sighting
  <2>6. x.packet.no <= number'[x.packet.origin]
    BY <1>0, <1>2, <1>5, <1>7, <1>9
  <2> QED
    BY <1>7, <1>9, <2>3, <2>4, <2>5, <2>6 DEF OnWay, Area
<1>13. ASSUME NEW j \in 2..Len(pending)
       PROVE  /\ identity(pending[j].packet) # fresh
              /\ AckOK(packet, pending[j]) => identity(pending[j].packet) # identity(packet)
  <2>1. j \in 1..Len(pending)
    BY <1>2
  <2>2. pending[j] \in Transmission
    BY <2>1, PendingKind
  <2>3. CASE AckOK(packet, pending[j])
    <3>1. /\ identity(pending[j].packet) = <<pending[j].packet.origin, pending[j].packet.no>>
          /\ identity(pending[j].packet) # identity(packet)
          /\ pending[j].packet.origin \in Nodes /\ pending[j].packet.no \in Nat
      BY <2>2, <2>3, AckIdentity
    <3>2. pending[j].packet.no <= number[pending[j].packet.origin]
      BY <2>1, <2>3 DEF Numbered
    <3>3. number[Receiver] \in Nat /\ ~(number[Receiver] + 1 <= number[Receiver])
      BY <1>0, <1>2
    <3> QED
      BY <3>1, <3>2, <3>3
  <2>4. CASE ~AckOK(packet, pending[j])
    <3>1. identity(pending[j].packet) = <<S, packet.no>>
      BY <1>3, <2>1, <2>4, PendingKind DEF CopyOK, IsCopy
    <3> QED
      BY <1>4, <2>4, <3>1
  <2> QED
    BY <2>3, <2>4
<1>14. ASSUME NEW i \in Len(pending)..Len(pending')
       PROVE  \/ i = Len(pending) /\ pending'[i] = x
              \/ ~AckOK(packet, pending'[i]) /\ identity(pending'[i].packet) = identity(packet)
  <2>1. CASE i = Len(pending)
    BY <1>10, <2>1
  <2>2. CASE i # Len(pending)
    <3> DEFINE k == i - Len(pending)
    <3>1. k \in 1..Len(copies) /\ i = Len(pending) + k
      <4>1. Len(pending) \in Nat /\ Len(copies) \in Nat
        BY <1>2, <1>9
      <4>2. Len(pending') = Len(pending) + Len(copies)
        BY <1>10
      <4> QED
        BY <4>1, <4>2, <2>2
    <3> HIDE DEF k
    <3> QED
      BY <1>10, <1>11, <3>1
  <2> QED
    BY <2>1, <2>2
<1>15. fresh # identity(packet)
  BY <1>3, <1>4
<1>16. MovesUp(far)
  <2>1. Len(pending') \in Nat
    BY <1>2, <1>9, <1>10
  <2>2. \A i, j \in Len(pending)..Len(pending') :
          AckOK(packet, pending'[i])
            /\ identity(pending'[i].packet) = identity(pending'[j].packet) => i = j
    BY <1>12, <1>14, <1>15
  <2>3. \A i \in Len(pending)..Len(pending') : AckOK(packet, pending'[i]) =>
          /\ OnWay(far, packet, seen', pending'[i])
          /\ pending'[i].packet.no <= number'[pending'[i].packet.origin]
    BY <1>12, <1>14
  <2>4. \A i \in Len(pending)..Len(pending'), j \in 2..Len(pending) :
          AckOK(packet, pending'[i]) \/ AckOK(packet, pending[j]) =>
            identity(pending'[i].packet) # identity(pending[j].packet)
    BY <1>12, <1>13, <1>14
  <2>5. packet' = packet /\ \A i \in 1..Len(pending) - 1 : pending'[i] = pending[i + 1]
    BY <1>1, <1>10
  <2> QED
    BY <2>1, <2>2, <2>3, <2>4, <2>5 DEF MovesUp
<1>17. \A n \in Nodes : number[n] \in Nat /\ number'[n] \in Nat /\ number[n] <= number'[n]
  <2> SUFFICES ASSUME NEW n \in Nodes
               PROVE  number[n] \in Nat /\ number'[n] \in Nat /\ number[n] <= number'[n]
    OBVIOUS
  <2>1. number[n] \in Nat /\ number[Receiver] \in Nat
    BY <1>0, <1>2
  <2>2. number'[n] = IF n = Receiver THEN number[Receiver] + 1 ELSE number[n]
    BY <1>0, <1>5
  <2> QED
    BY <2>1, <2>2
<1>18. SeesOther
  <2>1. \A j \in 2..Len(pending), y \in Nodes :
          AckOK(packet, pending[j]) /\ <<y, identity(pending[j].packet)>> \in seen' =>
            <<y, identity(pending[j].packet)>> \in seen
    BY <1>1, <1>3, <1>13 DEF Sighting
  <2>2. ASSUME NEW y \in Nodes, NEW o \in Nodes, NEW k \in Nat, <<y, <<o, k>>>> \in seen'
        PROVE  k <= number'[o]
    <3>1. CASE <<y, <<o, k>>>> \in seen
      <4>1. k <= number[o]
        BY <3>1 DEF Numbered
      <4> QED
        BY <1>17, <4>1
    <3>2. CASE <<y, <<o, k>>>> = Sighting
      <4>1. <<o, k>> = identity(packet) /\ <<S, identity(packet)>> \in seen
        BY <1>3, <3>2 DEF Sighting, Origins, Alerting, Heard
      <4>2. k <= number[o]
        BY <1>0, <4>1 DEF Numbered
      <4> QED
        BY <1>17, <4>2
    <3> QED
      BY <1>1, <2>2, <3>1, <3>2
  <2> QED
    BY <1>17, <2>1, <2>2 DEF SeesOther
<1>19. Travelling(far)' /\ Numbered'
  BY <1>1, <1>16, <1>18, AcksStay
<1>20. Answered'
  <2> SUFFICES ASSUME NEW n \in Nodes \ {S}, Heard(n) \/ n = Receiver
               PROVE  \E k \in 1..number'[n] :
                        \/ <<S, <<n, k>>>> \in seen'
                        \/ \E i \in 1..Len(pending') : identity(pending'[i].packet) = <<n, k>>
    BY <1>1, <1>3 DEF Answered, Heard, Sighting
  <2>1. CASE n = Receiver
    <3>1. number[Receiver] + 1 \in 1..number'[Receiver]
      <4>1. number[Receiver] \in Nat /\ number'[Receiver] = number[Receiver] + 1
        BY <1>0, <1>2, <1>5
      <4> QED
        BY <4>1
    <3>2. Len(pending) \in 1..Len(pending') /\ identity(pending'[Len(pending)].packet) = fresh
      BY <1>2, <1>9, <1>10, <1>12
    <3> QED
      BY <2>1, <3>1, <3>2
  <2>2. CASE Heard(n)
    <3>1. \A k \in Nat : identity(Sent) # <<n, k>>
      BY <1>3
    <3>2. /\ number'[n] \in Nat /\ number[n] <= number'[n] /\ seen \subseteq seen'
          /\ Len(pending') \in Nat /\ Len(pending') >= Len(pending) - 1
      BY <1>1, <1>2, <1>9, <1>10, <1>17
    <3> QED
      BY <1>1, <1>10, <2>2, <3>1, <3>2, StillAnswered
  <2> QED
    BY <2>1, <2>2
<1> QED
  BY <1>19, <1>20

LEMMA AcksKept ==
  ASSUME TypeOK, TypeOK', Origins, Origins', Requested, NEW far \in [Nodes -> [Nodes -> Nat]],
         RoutesLead(far), AcksExist(far), [Next]_vars
  PROVE  AcksExist(far)'
<1> SUFFICES ASSUME Alerting', clean' PROVE Travelling(far)' /\ Numbered' /\ Answered'
  BY DEF AcksExist
<1>1. ASSUME NEW c \in Creations, create(c) PROVE Travelling(far)' /\ Numbered' /\ Answered'
  BY <1>1, AcksStart
<1>2. CASE SuppressDuplicate
  <2>1. Alerting /\ clean
    BY <1>2 DEF SuppressDuplicate, Alerting
  <2> QED
    BY <1>2, <2>1, AcksSuppress DEF AcksExist
<1>3. CASE Accept
  <2>1. Alerting /\ clean /\ pending # <<>>
    BY <1>3 DEF Accept, Alerting
  <2>2. Item = pending[1] /\ 1 \in 1..Len(pending)
    BY <2>1, HeadOfPending
  <2>3. CopyOK(packet, seen, Item) \/ AckOK(packet, Item)
    BY <2>1, <2>2, PendingKind
  <2> QED
    BY <1>3, <2>1, <2>3, AcksMove, AcksJoin DEF AcksExist
<1>4. CASE RecordDrop
  BY <1>4 DEF RecordDrop
<1>5. ASSUME NEW n \in Nodes, Switch(n) PROVE FALSE
  BY <1>5 DEF Switch
<1>6. CASE UNCHANGED vars
  BY <1>6 DEF vars, AcksExist, Alerting, Travelling, Numbered, Answered, Heard
<1> QED
  BY <1>1, <1>2, <1>3, <1>4, <1>5, <1>6 DEF Next, forward_one

(* Wherever the routes lead to the source of an alert, every node that     *)
(* received the alert has its acknowledgement there when a trace without   *)
(* losses is complete (manual_simulation.py, _schedule_fault_ack).         *)
THEOREM AlertsAreAnswered ==
  ASSUME NEW far \in [Nodes -> [Nodes -> Nat]], RoutesLead(far)
  PROVE  Spec => []AlertsAreAcknowledged
<1>1. Init => AcksExist(far)
  BY NoNodeIsNone DEF Init, AcksExist, Alerting, Packet, NoPacket, create_packet
<1>2. TypeOK /\ TypeOK' /\ Origins /\ Origins' /\ Requested /\ AcksExist(far) /\ [Next]_vars
        => AcksExist(far)'
  BY AcksKept
<1>3. TypeOK /\ AcksExist(far) => AlertsAreAcknowledged
  <2> SUFFICES ASSUME TypeOK, AcksExist(far), complete, clean, packet.kind = "alert",
                      generate_fault_acks, NEW n \in Nodes \ {packet.source}, Heard(n)
               PROVE  \E k \in 1..number[n] : <<packet.source, <<n, k>>>> \in seen
    BY DEF AlertsAreAcknowledged, Heard
  <2>1. pending = <<>> /\ packet \in Packet
    BY DEF TypeOK
  <2>2. Len(pending) = 0
    BY <2>1
  <2>3. Answered
    BY <2>1 DEF AcksExist, Alerting
  <2> QED
    BY <2>2, <2>3 DEF Answered
<1> QED
  BY <1>1, <1>2, <1>3, TypeCorrect, OriginsCorrect, RequestedCorrect, PTL DEF Spec

-----------------------------------------------------------------------------
(* Why a trace ends.  Every node numbers one packet at most, the source    *)
(* its own and each other node the acknowledgement it makes when it hears  *)
(* the alert for the first time, so that at most one packet of every       *)
(* origin can be seen anywhere.                                            *)
SightingsAreBounded == seen \subseteq Nodes \X (Nodes \X {1})

NumberedOnce ==
  /\ packet = NoPacket => \A n \in Nodes : number[n] = 0
  /\ packet \in Packet =>
       /\ packet.no = 1
       /\ \A n \in Nodes : number[n] = 0 \/ (number[n] = 1 /\ Heard(n))
       /\ \A i \in 1..Len(pending) : pending[i].packet.no = 1
  /\ SightingsAreBounded

(* One press of Forward brings the end nearer: it adds a sighting, or it   *)
(* leaves the sightings and takes one transmission away.                   *)
TraceDescends ==
  forward_one =>
    \/ seen \subseteq seen' /\ seen' # seen
    \/ seen' = seen /\ Len(pending') = Len(pending) - 1

LEMMA NumbersKept ==
  ASSUME TypeOK, TypeOK', Origins, NumberedOnce, [Next]_vars
  PROVE  NumberedOnce'
<1>1. ASSUME NEW c \in Creations, create(c) PROVE NumberedOnce'
  <2> DEFINE p == create_packet(c.kind, c.source, number[c.source] + 1, c.dest, 0, c.ttl, <<>>)
  <2>1. c.source \in Nodes /\ packet = NoPacket
    BY <1>1, SessionAssumption DEF create
  <2>2. number \in [Nodes -> Nat] /\ \A n \in Nodes : number[n] = 0
    BY <2>1 DEF NumberedOnce, TypeOK
  <2>3. p.source = c.source /\ p.origin = c.source /\ p.no = 1
    BY <2>1, <2>2 DEF create_packet
  <2>4. /\ packet' = p /\ seen' = {<<c.source, identity(p)>>}
        /\ pending' \in _schedule_from(c.source, p, NoNode, "origin")
        /\ number' = [number EXCEPT ![c.source] = @ + 1]
    BY <1>1 DEF create
  <2> HIDE DEF p
  <2>5. p # NoPacket
    BY <2>1, <2>3, NoNodeIsNone DEF NoPacket, create_packet
  <2>6. p \in Packet
    BY <2>4, <2>5 DEF TypeOK
  <2>7. \A i \in 1..Len(pending') :
           /\ pending'[i].from = c.source /\ pending'[i].packet = p
           /\ pending'[i].to \in Nodes /\ <<c.source, pending'[i].to>> \in Links
    BY <2>1, <2>4, <2>6, ScheduleSends
  <2>8. identity(p) = <<c.source, 1>>
    BY <2>3 DEF identity
  <2>9. \A n \in Nodes : number'[n] = 0 \/ (number'[n] = 1 /\ n = c.source)
    BY <2>2, <2>4
  <2>10. SightingsAreBounded'
    BY <2>1, <2>4, <2>8 DEF SightingsAreBounded
  <2> QED
    BY <2>3, <2>4, <2>5, <2>7, <2>9, <2>10 DEF NumberedOnce, Heard
<1>2. ASSUME packet' = packet, seen' = seen, number' = number,
             \A i \in 1..Len(pending') : \E j \in 1..Len(pending) : pending'[i] = pending[j]
      PROVE  NumberedOnce'
  BY <1>2 DEF NumberedOnce, Heard, SightingsAreBounded
<1>3. ASSUME NEW n \in Nodes, Switch(n) PROVE NumberedOnce'
  BY <1>2, <1>3 DEF Switch
<1>4. CASE RecordDrop \/ SuppressDuplicate
  <2>1. /\ pending # <<>> /\ packet' = packet /\ seen' = seen /\ number' = number
        /\ pending' = Tail(pending)
    BY <1>4 DEF RecordDrop, SuppressDuplicate
  <2>2. ASSUME NEW i \in 1..Len(pending') PROVE \E j \in 1..Len(pending) : pending'[i] = pending[j]
    <3>1. i + 1 \in 1..Len(pending) /\ pending'[i] = pending[i + 1]
      BY <2>1, HeadOfPending
    <3> QED
      BY <3>1
  <2> QED
    BY <1>2, <2>1, <2>2
<1>5. CASE Accept
  <2>1. /\ pending # <<>> /\ packet' = packet /\ seen' = seen \union {Sighting}
        /\ Sighting \notin seen
        /\ number' = IF Acknowledges THEN [number EXCEPT ![Receiver] = @ + 1] ELSE number
    BY <1>5 DEF Accept
  <2>2. /\ Sent \in Packet /\ Receiver \in Nodes /\ packet \in Packet /\ Sent = pending[1].packet
        /\ Len(pending) \in Nat \ {0} /\ 1 \in 1..Len(pending)
        /\ Len(Tail(pending)) = Len(pending) - 1
        /\ \A i \in 1..Len(Tail(pending)) : Tail(pending)[i] = pending[i + 1]
    BY <2>1, HeadOfPending DEF Sent
  <2>3. /\ packet.no = 1 /\ SightingsAreBounded
        /\ \A n \in Nodes : number[n] = 0 \/ (number[n] = 1 /\ Heard(n))
        /\ \A i \in 1..Len(pending) : pending[i].packet.no = 1
    BY <2>2 DEF NumberedOnce
  <2>4. Sent.no = 1 /\ Sighting \in Nodes \X (Nodes \X {1})
    BY <2>2, <2>3 DEF Sighting, identity, Packet
  <2>5. SightingsAreBounded'
    BY <2>1, <2>3, <2>4 DEF SightingsAreBounded
  <2>6. ASSUME Acknowledges
        PROVE  Sighting = <<Receiver, identity(packet)>> /\ number[Receiver] = 0
    <3>1. CopyOK(packet, seen, pending[1]) \/ AckOK(packet, pending[1])
      BY <2>2 DEF Origins
    <3>2. Sent.kind = "alert"
      BY <2>6 DEF Acknowledges
    <3>3. identity(Sent) = identity(packet)
      BY <2>2, <3>1, <3>2 DEF CopyOK, AckOK, IsCopy
    <3> QED
      BY <2>1, <2>2, <2>3, <3>3 DEF Sighting, Heard
  <2>7. ASSUME NEW n \in Nodes PROVE number'[n] = 0 \/ (number'[n] = 1 /\ Heard(n)')
    <3>1. number \in [Nodes -> Nat] /\ (Heard(n) => Heard(n)')
      BY <2>1 DEF TypeOK, Heard
    <3>2. CASE ~Acknowledges \/ n # Receiver
      BY <2>1, <2>2, <2>3, <3>1, <3>2
    <3>3. CASE Acknowledges /\ n = Receiver
      <4>1. number'[n] = 1
        BY <2>1, <2>2, <2>6, <3>1, <3>3
      <4>2. Heard(n)'
        BY <2>1, <2>6, <3>3 DEF Heard
      <4> QED
        BY <4>1, <4>2
    <3> QED
      BY <3>2, <3>3
  <2>8. PICK acks \in Acknowledgements, copies \in Onward :
           /\ Joins(Tail(pending), acks, copies, pending')
           /\ acks # <<>> => /\ Acknowledges
                             /\ \E hop \in Nodes : /\ <<Receiver, hop>> \in Links
                                  /\ acks = <<[from |-> Receiver, to |-> hop, packet |-> Ack]>>
           /\ \A i \in 1..Len(copies) : Sent.ttl > 1 /\ copies[i].packet = forwarded(Sent, Receiver)
    BY <1>5, AcceptedLeaves
  <2>9. ASSUME NEW i \in 1..Len(copies) PROVE copies[i].packet.no = 1
    <3>1. identity(copies[i].packet) = identity(Sent)
      BY <2>2, <2>8, Forwarded
    <3> QED
      BY <2>4, <3>1 DEF identity
  <2>10. ASSUME NEW i \in 1..Len(acks) PROVE acks[i].packet.no = 1
    <3>1. acks # <<>>
      OBVIOUS
    <3>2. PICK hop \in Nodes : acks = <<[from |-> Receiver, to |-> hop, packet |-> Ack]>>
      BY <2>8, <3>1
    <3>3. Acknowledges /\ acks[i].packet = Ack
      BY <2>8, <3>1, <3>2
    <3>4. identity(Ack) = <<Receiver, number[Receiver] + 1>>
      BY <2>1, AckIsPacket
    <3>5. number[Receiver] + 1 = 1
      BY <2>6, <3>3
    <3> QED
      BY <3>3, <3>4, <3>5 DEF identity
  <2>11. ASSUME NEW i \in 1..Len(pending') PROVE pending'[i].packet.no = 1
    <3>1. \/ \E j \in 1..Len(Tail(pending)) : pending'[i] = Tail(pending)[j]
          \/ \E j \in 1..Len(acks) : pending'[i] = acks[j]
          \/ \E j \in 1..Len(copies) : pending'[i] = copies[j]
      BY <2>8 DEF Joins
    <3>2. ASSUME NEW j \in 1..Len(Tail(pending)) PROVE Tail(pending)[j].packet.no = 1
      <4>1. j + 1 \in 1..Len(pending) /\ Tail(pending)[j] = pending[j + 1]
        BY <2>2
      <4> QED
        BY <2>3, <4>1
    <3> QED
      BY <2>9, <2>10, <3>1, <3>2
  <2>12. packet' # NoPacket
    BY <2>1, <2>2, NoNodeIsNone DEF Packet, NoPacket, create_packet
  <2> QED
    BY <2>1, <2>3, <2>5, <2>7, <2>11, <2>12 DEF NumberedOnce
<1>6. CASE UNCHANGED vars
  BY <1>2, <1>6 DEF vars
<1> QED
  BY <1>1, <1>3, <1>4, <1>5, <1>6 DEF Next, forward_one

(* However the radios fail and recover and whatever the channel loses, no  *)
(* trace goes on for ever: the sightings are bounded, and every press of   *)
(* Forward adds one or shortens the queue (manual_simulation.py,           *)
(* forward_one, _schedule_fault_ack).                                      *)
THEOREM TracesDescend == Spec => []SightingsAreBounded /\ [][TraceDescends]_vars
<1>1. Init => NumberedOnce
  BY NoNodeIsNone DEF Init, NumberedOnce, SightingsAreBounded, Packet, NoPacket, create_packet
<1>2. TypeOK /\ TypeOK' /\ Origins /\ NumberedOnce /\ [Next]_vars => NumberedOnce'
  BY NumbersKept
<1>3. NumberedOnce => SightingsAreBounded
  BY DEF NumberedOnce
<1>4. TypeOK => [TraceDescends]_vars
  <2> SUFFICES ASSUME TypeOK, forward_one PROVE TraceDescends
    BY DEF TraceDescends
  <2>1. CASE RecordDrop \/ SuppressDuplicate
    <3>1. pending # <<>> /\ pending' = Tail(pending) /\ seen' = seen
      BY <2>1 DEF RecordDrop, SuppressDuplicate
    <3> QED
      BY <3>1, HeadOfPending DEF TraceDescends
  <2>2. CASE Accept
    BY <2>2 DEF Accept, TraceDescends
  <2> QED
    BY <2>1, <2>2 DEF forward_one
<1> QED
  BY <1>1, <1>2, <1>3, <1>4, TypeCorrect, OriginsCorrect, PTL DEF Spec
=============================================================================
