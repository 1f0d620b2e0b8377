--------------------------- MODULE NodeQueue_proofs ---------------------------
(***************************************************************************)
(* NodeQueue for every queue limit, set of priorities and bound: the type  *)
(* invariant with the capacity, the arrival order, the reported load, the  *)
(* two promises of the overflow and service order, and that the queue      *)
(* implements the lanes of PriorityLanes.                                  *)
(***************************************************************************)
EXTENDS NodeQueue, FiniteSetTheorems, FunctionTheorems, SequenceTheorems,
        WellFoundedInduction, TLAPS

(* Pushing one item onto a part of the queue that leaves room for it keeps *)
(* the queue finite and within the limit (the end of enqueue_packet).      *)
LEMMA PushFits ==
  ASSUME TypeOK, NEW p \in Priorities, NEW rest \in SUBSET queue,
         Cardinality(rest) < QueueLimit, Push(p, rest)
  PROVE  /\ queue' \subseteq Item
         /\ IsFiniteSet(queue')
         /\ Cardinality(queue') <= QueueLimit
         /\ Cardinality(queue') \in Nat
         /\ load' \in Nat \X Nat
<1> DEFINE new == [prio |-> p, at |-> now, no |-> counter + 1]
<1>1. queue' = rest \union {new}
  BY DEF Push
<1>2. new \in Item /\ rest \subseteq Item
  BY DEF TypeOK, Item
<1>3. IsFiniteSet(rest) /\ Cardinality(rest) \in Nat
  BY FS_Subset, FS_CardinalityType DEF TypeOK
<1>4. /\ IsFiniteSet(queue')
      /\ Cardinality(queue') =
           IF new \in rest THEN Cardinality(rest) ELSE Cardinality(rest) + 1
  BY <1>1, <1>3, FS_AddElement
<1>5. Cardinality(queue') \in Nat
  BY <1>3, <1>4
<1>6. Cardinality(queue') <= QueueLimit
  BY <1>3, <1>4, QueueAssumption
<1>7. load' \in Nat \X Nat
  BY <1>5, QueueAssumption DEF Push, Fraction
<1> QED
  BY <1>1, <1>2, <1>4, <1>5, <1>6, <1>7

(* The fields of a queued item and the priorities in use are numbers.      *)
LEMMA Numbers ==
  ASSUME TypeOK
  PROVE  /\ \A i \in queue : i.prio \in Nat /\ i.at \in Nat /\ i.no \in Nat
         /\ \A p \in Priorities : p \in Nat
BY QueueAssumption DEF TypeOK, Item

(* Evicting one item from a queue within its limit leaves room for one.    *)
LEMMA EvictionMakesRoom ==
  ASSUME TypeOK, NEW v \in queue
  PROVE  Cardinality(queue \ {v}) < QueueLimit
<1>1. Cardinality(queue \ {v}) = Cardinality(queue) - 1
  BY FS_RemoveElement DEF TypeOK
<1>2. Cardinality(queue) \in Nat
  BY FS_CardinalityType DEF TypeOK
<1> QED
  BY <1>1, <1>2, QueueAssumption DEF TypeOK

(* The types of NodeQueue, and the capacity of the queue, in every         *)
(* behaviour (node.py SeianNode, its packet queue).                        *)
THEOREM TypeCorrect == Spec => []TypeOK
<1>1. Init => TypeOK
  BY FS_EmptySet, QueueAssumption DEF Init, TypeOK, Item
<1>2. TypeOK /\ [Next]_vars => TypeOK'
  <2> SUFFICES ASSUME TypeOK, [Next]_vars PROVE TypeOK'
    OBVIOUS
  <2> USE QueueAssumption
  <2>0. Cardinality(queue) \in Nat
    BY FS_CardinalityType DEF TypeOK
  <2>1. ASSUME NEW p \in Priorities, enqueue_packet(p) PROVE TypeOK'
    <3>1. offered' \in 0..MaxArrivals /\ now' \in Nat
      BY <2>1 DEF enqueue_packet, TypeOK
    <3>2. CASE EnqueueRoom(p)
      <4>1. Cardinality(queue) < QueueLimit
        BY <3>2, <2>0 DEF EnqueueRoom, Full
      <4>2. Push(p, queue)
        BY <3>2 DEF EnqueueRoom
      <4>3. counter' \in Nat /\ limitHint' \in Nat \ {0} /\ lost' \subseteq Priorities
        BY <3>2 DEF EnqueueRoom, Push, TypeOK
      <4> QED
        BY <4>1, <4>2, <4>3, <3>1, PushFits DEF TypeOK
    <3>3. CASE EnqueueEvict(p)
      <4>1. PICK v \in queue : Push(p, queue \ {v}) /\ lost' = {v.prio}
        BY <3>3 DEF EnqueueEvict
      <4>2. Cardinality(queue \ {v}) < QueueLimit
        BY EvictionMakesRoom
      <4>3. counter' \in Nat /\ limitHint' \in Nat \ {0} /\ lost' \subseteq Priorities
        BY <4>1 DEF Push, TypeOK, Item
      <4> QED
        BY <4>1, <4>2, <4>3, <3>1, PushFits DEF TypeOK
    <3>4. CASE EnqueueRefuse(p)
      BY <3>4, <3>1, <2>0 DEF EnqueueRefuse, TypeOK, Fraction
    <3> QED
      BY <2>1, <3>2, <3>3, <3>4 DEF enqueue_packet
  <2>2. CASE dequeue_packet
    <3>1. PICK i \in queue : queue' = queue \ {i}
      BY <2>2 DEF dequeue_packet
    <3>2. /\ IsFiniteSet(queue')
          /\ Cardinality(queue') = Cardinality(queue) - 1
      BY <3>1, FS_RemoveElement DEF TypeOK
    <3>3. Cardinality(queue') \in Nat
      BY <3>2, FS_CardinalityType
    <3>4. load' \in Nat \X Nat
      BY <2>2, <3>3 DEF dequeue_packet, Fraction, TypeOK
    <3>5. Cardinality(queue') <= QueueLimit
      BY <3>2, <2>0 DEF TypeOK
    <3> QED
      BY <2>2, <3>1, <3>2, <3>4, <3>5 DEF dequeue_packet, TypeOK
  <2>3. CASE Tick
    BY <2>3 DEF Tick, TypeOK
  <2>4. CASE UNCHANGED vars
    BY <2>4 DEF vars, TypeOK
  <2> QED
    BY <2>1, <2>2, <2>3, <2>4 DEF Next
<1> QED
  BY <1>1, <1>2, PTL DEF Spec

(* The load a node advertises is the load it has, in every behaviour.  A   *)
(* refusal recomputes it from queue_limit and a service from the hint kept *)
(* by the last push: the two agree because a non-empty queue has had one.  *)
THEOREM LoadTruthful == Spec => []LoadIsTruthful
<1>1. Init => LoadIsTruthful
  BY FS_EmptySet DEF Init, LoadIsTruthful, Fraction
<1>2. LoadIsTruthful /\ TypeOK /\ [Next]_vars => LoadIsTruthful'
  <2> SUFFICES ASSUME LoadIsTruthful, TypeOK, [Next]_vars PROVE LoadIsTruthful'
    OBVIOUS
  <2>1. ASSUME NEW p \in Priorities, enqueue_packet(p) PROVE LoadIsTruthful'
    <3>1. CASE EnqueueRoom(p)
      BY <3>1 DEF EnqueueRoom, Push, LoadIsTruthful
    <3>2. CASE EnqueueEvict(p)
      BY <3>2 DEF EnqueueEvict, Push, LoadIsTruthful
    <3>3. CASE EnqueueRefuse(p)
      <4>1. /\ load' = Fraction(Cardinality(queue), QueueLimit)
            /\ queue # {}
            /\ UNCHANGED <<queue, limitHint>>
        BY <3>3 DEF EnqueueRefuse
      <4> QED
        BY <4>1 DEF LoadIsTruthful
    <3> QED
      BY <2>1, <3>1, <3>2, <3>3 DEF enqueue_packet
  <2> QED
    BY <2>1 DEF Next, dequeue_packet, Tick, vars, LoadIsTruthful
<1> QED
  BY <1>1, <1>2, TypeCorrect, PTL DEF Spec

(* Items are told apart by their counter and time stamps follow it, in     *)
(* every behaviour: the heap's order and the victim's order are total.     *)
THEOREM ArrivalOrdered == Spec => []ArrivalOrder
<1>1. Init => ArrivalOrder
  BY DEF Init, ArrivalOrder
<1>2. ArrivalOrder /\ TypeOK /\ [Next]_vars => ArrivalOrder'
  <2> SUFFICES ASSUME ArrivalOrder, TypeOK, [Next]_vars PROVE ArrivalOrder'
    OBVIOUS
  <2>1. ASSUME NEW p \in Priorities, NEW rest \in SUBSET queue, Push(p, rest),
               now' = now
        PROVE  ArrivalOrder'
    BY <2>1 DEF Push, ArrivalOrder, TypeOK, Item
  <2>2. ASSUME NEW p \in Priorities, enqueue_packet(p) PROVE ArrivalOrder'
    BY <2>1, <2>2 DEF enqueue_packet, EnqueueRoom, EnqueueEvict, EnqueueRefuse, ArrivalOrder
  <2>3. CASE dequeue_packet
    BY <2>3 DEF dequeue_packet, ArrivalOrder
  <2>4. CASE Tick
    BY <2>4 DEF Tick, ArrivalOrder, TypeOK, Item
  <2> QED
    BY <2>2, <2>3, <2>4 DEF Next, vars, ArrivalOrder
<1> QED
  BY <1>1, <1>2, TypeCorrect, PTL DEF Spec

(* Emergency traffic is never given up for background traffic: a packet    *)
(* refused or evicted has at most the priority of everything kept.         *)
THEOREM OverflowSparesUrgent == Spec => LossSparesHigherPriority
<1>1. TypeOK /\ [Next]_vars => [\A p \in lost' : \A i \in queue' : p <= i.prio]_vars
  <2> SUFFICES ASSUME TypeOK, Next
               PROVE  \A p \in lost' : \A i \in queue' : p <= i.prio
    OBVIOUS
  <2> USE QueueAssumption
  <2>1. ASSUME NEW q \in Priorities, enqueue_packet(q)
        PROVE  \A p \in lost' : \A i \in queue' : p <= i.prio
    <3>1. CASE EnqueueEvict(q)
      <4>1. PICK v \in queue : /\ Victim(v) /\ q > v.prio
                               /\ Push(q, queue \ {v}) /\ lost' = {v.prio}
        BY <3>1 DEF EnqueueEvict
      <4>2. \A i \in queue : v.prio <= i.prio
        BY <4>1, Numbers DEF Victim
      <4> QED
        BY <4>1, <4>2, Numbers DEF Push
    <3>2. CASE EnqueueRefuse(q)
      <4>1. PICK v \in queue : Victim(v) /\ q <= v.prio
        BY <3>2 DEF EnqueueRefuse
      <4>2. \A i \in queue : v.prio <= i.prio
        BY <4>1, Numbers DEF Victim
      <4> QED
        BY <4>1, <4>2, <3>2, Numbers DEF EnqueueRefuse
    <3> QED
      BY <2>1, <3>1, <3>2 DEF enqueue_packet, EnqueueRoom
  <2> QED
    BY <2>1 DEF Next, dequeue_packet, Tick
<1> QED
  BY <1>1, TypeCorrect, PTL DEF Spec, LossSparesHigherPriority

(* Within a priority the queue is first in, first out by arrival, whether  *)
(* packets leave by service or by eviction.                                *)
THEOREM Fifo == Spec => FifoWithinPriority
<1> DEFINE Leaves == \A i \in queue \ queue' : \A j \in queue' :
                       j.prio = i.prio => i.no < j.no
<1>1. TypeOK /\ ArrivalOrder /\ [Next]_vars => [Leaves]_vars
  <2> SUFFICES ASSUME TypeOK, ArrivalOrder, Next PROVE Leaves
    OBVIOUS
  <2> USE QueueAssumption
  <2>1. ASSUME NEW q \in Priorities, enqueue_packet(q) PROVE Leaves
    <3>1. CASE EnqueueEvict(q)
      <4>1. PICK v \in queue : /\ Victim(v) /\ q > v.prio /\ Push(q, queue \ {v})
        BY <3>1 DEF EnqueueEvict
      <4>2. \A j \in queue \ {v} : j.prio = v.prio => v.no < j.no
        BY <4>1, Numbers DEF Victim, ArrivalOrder
      <4> QED
        BY <4>1, <4>2, Numbers DEF Push
    <3> QED
      BY <2>1, <3>1 DEF enqueue_packet, EnqueueRoom, EnqueueRefuse, Push
  <2>2. CASE dequeue_packet
    <3>1. PICK i \in queue : (\A j \in queue : Before(i, j)) /\ queue' = queue \ {i}
      BY <2>2 DEF dequeue_packet
    <3>2. \A j \in queue \ {i} : j.prio = i.prio => i.no < j.no
      BY <3>1, Numbers DEF Before, ArrivalOrder
    <3> QED
      BY <3>1, <3>2
  <2> QED
    BY <2>1, <2>2 DEF Next, Tick
<1> QED
  BY <1>1, TypeCorrect, ArrivalOrdered, PTL DEF Spec, FifoWithinPriority

-----------------------------------------------------------------------------
(* Lists of the members of a set of numbers in rising order.               *)

Listed(T, s) ==
  /\ s \in Seq(T)
  /\ Rising(s)
  /\ \A x \in T : \E k \in 1..Len(s) : s[k] = x

LEMMA LeastNumber ==
  ASSUME NEW T, T \subseteq Nat, T # {}
  PROVE  \E m \in T : \A n \in T : m <= n
<1>1. \E m \in T : \A n \in T : <<n, m>> \notin OpToRel(<, Nat)
  BY WFMin, NatLessThanWellFounded
<1>2. \E m \in T : \A n \in T : ~(n < m)
  BY <1>1 DEF OpToRel
<1> QED
  BY <1>2

LEMMA RisingFacts ==
  ASSUME NEW T \in SUBSET Nat, NEW s \in Seq(T), Rising(s)
  PROVE  /\ Len(s) \in Nat /\ DOMAIN s = 1..Len(s)
         /\ \A k \in 1..Len(s) : s[k] \in T /\ s[k] \in Nat
         /\ \A j, k \in 1..Len(s) : j < k => s[j] < s[k]
         /\ \A j, k \in 1..Len(s) : j <= k => s[j] <= s[k]
         /\ \A j, k \in 1..Len(s) : s[j] = s[k] => j = k
<1>1. Len(s) \in Nat /\ DOMAIN s = 1..Len(s)
  OBVIOUS
<1>2. \A k \in 1..Len(s) : s[k] \in T /\ s[k] \in Nat
  BY ElementOfSeq
<1>3. \A j, k \in 1..Len(s) : j < k => s[j] < s[k]
  BY <1>1 DEF Rising
<1>4. ASSUME NEW j \in 1..Len(s), NEW k \in 1..Len(s)
      PROVE  (j <= k => s[j] <= s[k]) /\ (s[j] = s[k] => j = k)
  <2>1. s[j] \in Nat /\ s[k] \in Nat /\ j \in Nat /\ k \in Nat
    BY <1>1, <1>2
  <2>2. (j < k => s[j] < s[k]) /\ (k < j => s[k] < s[j])
    BY <1>3
  <2> QED
    BY <2>1, <2>2
<1> QED
  BY <1>1, <1>2, <1>3, <1>4

(* Every finite set of numbers has such a list: the least member goes      *)
(* before the list of the others.                                          *)
LEMMA SomeList ==
  ASSUME NEW T \in SUBSET Nat, IsFiniteSet(T)
  PROVE  \E s : Listed(T, s)
<1> DEFINE Unlisted == {U \in SUBSET Nat : IsFiniteSet(U) /\ ~\E s : Listed(U, s)}
           Sizes == {Cardinality(U) : U \in Unlisted}
<1> SUFFICES ASSUME T \in Unlisted PROVE FALSE
  OBVIOUS
<1>1. Sizes \subseteq Nat /\ Sizes # {}
  BY FS_CardinalityType
<1>2. PICK n \in Sizes : \A m \in Sizes : n <= m
  BY <1>1, LeastNumber
<1>3. PICK U \in Unlisted : Cardinality(U) = n
  BY <1>2
<1>4. U # {}
  <2>1. Listed({}, <<>>)
    BY EmptySeq DEF Listed, Rising
  <2> QED
    BY <1>3, <2>1
<1>5. PICK m \in U : \A x \in U : m <= x
  BY <1>4, LeastNumber
<1> DEFINE V == U \ {m}
<1>6. IsFiniteSet(V) /\ Cardinality(V) = n - 1 /\ n \in Nat
  BY <1>1, <1>2, <1>3, FS_RemoveElement
<1>7. V \notin Unlisted
  BY <1>2, <1>6
<1>8. PICK s : Listed(V, s)
  BY <1>6, <1>7
<1> DEFINE t == <<m>> \o s
<1>9. s \in Seq(U) /\ <<m>> \in Seq(U) /\ Len(s) \in Nat
  BY <1>8, SeqMonotonic DEF Listed
<1>10. /\ t \in Seq(U) /\ Len(t) = Len(s) + 1
       /\ t[1] = m /\ \A k \in 2..Len(t) : t[k] = s[k - 1]
  BY <1>9, ConcatProperties
<1>11. \A k \in 1..Len(s) : s[k] \in V
  BY <1>8 DEF Listed
<1>12. Rising(t)
  <2> SUFFICES ASSUME NEW j \in 1..Len(t), NEW k \in 1..Len(t), j < k PROVE t[j] < t[k]
    BY <1>10 DEF Rising
  <2>1. t[k] = s[k - 1] /\ k - 1 \in 1..Len(s)
    BY <1>9, <1>10
  <2>2. CASE j = 1
    <3>1. s[k - 1] \in V /\ t[j] = m
      BY <2>1, <2>2, <1>10, <1>11
    <3>2. m <= s[k - 1] /\ m # s[k - 1] /\ m \in Nat /\ s[k - 1] \in Nat
      BY <3>1, <1>5
    <3> QED
      BY <3>1, <3>2, <2>1
  <2>3. CASE j # 1
    <3>1. t[j] = s[j - 1] /\ j - 1 \in 1..Len(s)
      BY <2>3, <1>9, <1>10
    <3> QED
      BY <3>1, <2>1, <1>8 DEF Listed, Rising
  <2> QED
    BY <2>2, <2>3
<1>13. ASSUME NEW x \in U PROVE \E k \in 1..Len(t) : t[k] = x
  <2>1. CASE x = m
    BY <2>1, <1>9, <1>10
  <2>2. CASE x # m
    <3>1. PICK k \in 1..Len(s) : s[k] = x
      BY <2>2, <1>8 DEF Listed
    <3>2. k + 1 \in 1..Len(t) /\ t[k + 1] = x
      BY <3>1, <1>9, <1>10
    <3> QED
      BY <3>2
  <2> QED
    BY <2>1, <2>2
<1>14. Listed(U, t)
  BY <1>10, <1>12, <1>13 DEF Listed
<1> QED
  BY <1>14

(* And only one: the first place where two lists differ would leave out a  *)
(* member in one of them.                                                  *)
LEMMA ListsAgree ==
  ASSUME NEW T \in SUBSET Nat, NEW s, NEW t, Listed(T, s), Listed(T, t)
  PROVE  \A k \in 1..Len(s) : k \in 1..Len(t) /\ s[k] = t[k]
<1> DEFINE Differ == {k \in 1..Len(s) : ~(k \in 1..Len(t) /\ s[k] = t[k])}
<1> SUFFICES ASSUME Differ # {} PROVE FALSE
  OBVIOUS
<1>1. Len(s) \in Nat /\ Len(t) \in Nat /\ DOMAIN s = 1..Len(s) /\ DOMAIN t = 1..Len(t)
  BY DEF Listed
<1>2. Differ \subseteq Nat
  OBVIOUS
<1>3. PICK k \in Differ : \A j \in Differ : k <= j
  BY <1>2, LeastNumber
<1>4. \A j \in 1..Len(s) : j < k => j \in 1..Len(t) /\ s[j] = t[j]
  BY <1>1, <1>3
<1>5. /\ \A j \in 1..Len(s) : s[j] \in T /\ s[j] \in Nat
      /\ \A j \in 1..Len(t) : t[j] \in T /\ t[j] \in Nat
      /\ \A i, j \in 1..Len(s) : (i <= j => s[i] <= s[j]) /\ (s[i] = s[j] => i = j)
      /\ \A i, j \in 1..Len(t) : (i <= j => t[i] <= t[j]) /\ (t[i] = t[j] => i = j)
  BY RisingFacts DEF Listed
<1>6. PICK j \in 1..Len(t) : t[j] = s[k]
  BY <1>5 DEF Listed
<1>7. k <= j
  <2>1. ASSUME j < k PROVE FALSE
    <3>1. s[j] = s[k] /\ j \in 1..Len(s)
      BY <1>1, <1>4, <1>6, <2>1
    <3> QED
      BY <3>1, <1>1, <1>5, <2>1
  <2> QED
    BY <2>1
<1>8. k \in 1..Len(t)
  BY <1>1, <1>7
<1>9. PICK i \in 1..Len(s) : s[i] = t[k]
  BY <1>5, <1>8 DEF Listed
<1>10. k <= i
  <2>1. ASSUME i < k PROVE FALSE
    <3>1. t[i] = t[k] /\ i \in 1..Len(t)
      BY <1>4, <1>9, <2>1
    <3> QED
      BY <3>1, <1>1, <1>5, <1>8, <2>1
  <2> QED
    BY <2>1
<1>11. s[k] <= s[i] /\ t[k] <= t[j]
  BY <1>1, <1>5, <1>7, <1>8, <1>10
<1>12. s[k] = t[k]
  BY <1>5, <1>6, <1>8, <1>9, <1>11
<1> QED
  BY <1>8, <1>12

LEMMA OneList ==
  ASSUME NEW T \in SUBSET Nat, NEW s, NEW t, Listed(T, s), Listed(T, t)
  PROVE  s = t
<1>1. \A k \in 1..Len(s) : k \in 1..Len(t) /\ s[k] = t[k]
  BY ListsAgree
<1>2. \A k \in 1..Len(t) : k \in 1..Len(s)
  BY ListsAgree
<1>3. s \in Seq(T) /\ t \in Seq(T) /\ Len(s) \in Nat /\ Len(t) \in Nat
  BY DEF Listed
<1>4. Len(s) = Len(t)
  <2>1. Len(s) <= Len(t)
    BY <1>1, <1>3
  <2>2. Len(t) <= Len(s)
    BY <1>2, <1>3
  <2> QED
    BY <2>1, <2>2, <1>3
<1> QED
  BY <1>1, <1>3, <1>4, SeqEqual

(* A list is as long as its set is large.                                  *)
LEMMA ListLength ==
  ASSUME NEW T \in SUBSET Nat, NEW s, Listed(T, s), IsFiniteSet(T)
  PROVE  s \in [1..Cardinality(T) -> T]
<1>1. s \in [1..Len(s) -> T] /\ Len(s) \in Nat
  BY DEF Listed
<1>2. s \in Injection(1..Len(s), T)
  <2>1. \A j, k \in 1..Len(s) : s[j] = s[k] => j = k
    BY RisingFacts DEF Listed
  <2> QED
    BY <1>1, <2>1 DEF Injection, IsInjective
<1>3. s \in Surjection(1..Len(s), T)
  BY <1>1 DEF Surjection, Listed
<1>4. Cardinality(1..Len(s)) = Cardinality(T)
  BY <1>2, <1>3, FS_Injection
<1>5. Cardinality(1..Len(s)) = Len(s)
  <2>1. Cardinality(1..Len(s)) = IF 1 > Len(s) THEN 0 ELSE Len(s) - 1 + 1
    BY <1>1, FS_Interval
  <2> QED
    BY <1>1, <2>1
<1> QED
  BY <1>1, <1>4, <1>5

(* Conversely, rising and of that length is enough.                        *)
LEMMA RisingLists ==
  ASSUME NEW T \in SUBSET Nat, IsFiniteSet(T), NEW s \in [1..Cardinality(T) -> T], Rising(s)
  PROVE  Listed(T, s)
<1> DEFINE n == Cardinality(T)
<1>1. n \in Nat
  BY FS_CardinalityType
<1> HIDE DEF n
<1>2. s \in [1..n -> T] /\ s \in Seq(T) /\ Len(s) = n
  BY <1>1 DEF n
<1>3. s \in Injection(1..n, T)
  <2>1. \A j, k \in 1..n : s[j] = s[k] => j = k
    BY <1>2, RisingFacts
  <2> QED
    BY <1>2, <2>1 DEF Injection, IsInjective
<1>5. s \in Surjection(1..n, T)
  <2>1. Cardinality(1..n) = IF 1 > n THEN 0 ELSE n - 1 + 1
    BY <1>1, FS_Interval
  <2>2. Cardinality(1..n) = n
    BY <1>1, <2>1
  <2> QED
    BY <1>3, <2>2, FS_Injection DEF n
<1> QED
  BY <1>2, <1>5 DEF Listed, Surjection

LEMMA ListGrows ==
  ASSUME NEW T \in SUBSET Nat, NEW s, Listed(T, s), NEW n \in Nat, \A x \in T : x < n
  PROVE  Listed(T \union {n}, Append(s, n))
<1> DEFINE U == T \union {n}
           t == Append(s, n)
<1>1. s \in Seq(U) /\ n \in U /\ Len(s) \in Nat
  BY SeqMonotonic DEF Listed
<1>2. /\ t \in Seq(U) /\ Len(t) = Len(s) + 1
      /\ \A k \in 1..Len(s) : t[k] = s[k]
      /\ t[Len(s) + 1] = n
  BY <1>1, AppendProperties
<1>3. /\ \A k \in 1..Len(s) : s[k] \in T /\ s[k] \in Nat
      /\ \A j, k \in 1..Len(s) : j < k => s[j] < s[k]
  BY RisingFacts DEF Listed
<1>4. ASSUME NEW j \in 1..Len(t), NEW k \in 1..Len(t), j < k PROVE t[j] < t[k]
  <2>1. j \in 1..Len(s) /\ t[j] = s[j]
    BY <1>1, <1>2, <1>4
  <2>2. CASE k \in 1..Len(s)
    BY <2>1, <2>2, <1>2, <1>3, <1>4
  <2>3. CASE k = Len(s) + 1
    BY <2>1, <2>3, <1>2, <1>3
  <2> QED
    BY <2>2, <2>3, <1>1, <1>2
<1>5. ASSUME NEW x \in U PROVE \E k \in 1..Len(t) : t[k] = x
  <2>1. CASE x = n
    BY <2>1, <1>1, <1>2
  <2>2. CASE x \in T
    <3>1. PICK k \in 1..Len(s) : s[k] = x
      BY <2>2 DEF Listed
    <3> QED
      BY <3>1, <1>1, <1>2
  <2> QED
    BY <2>1, <2>2
<1>6. DOMAIN t = 1..Len(t)
  BY <1>2
<1> QED
  BY <1>2, <1>4, <1>5, <1>6 DEF Listed, Rising

LEMMA ListShrinks ==
  ASSUME NEW T \in SUBSET Nat, NEW s, Listed(T, s), NEW m \in T, \A x \in T : m <= x
  PROVE  s # <<>> /\ Listed(T \ {m}, Tail(s))
<1> DEFINE U == T \ {m}
           t == Tail(s)
<1>1. /\ Len(s) \in Nat
      /\ \A k \in 1..Len(s) : s[k] \in T /\ s[k] \in Nat
      /\ \A j, k \in 1..Len(s) : j < k => s[j] < s[k]
      /\ \A j, k \in 1..Len(s) : j <= k => s[j] <= s[k]
      /\ \A j, k \in 1..Len(s) : s[j] = s[k] => j = k
  BY RisingFacts DEF Listed
<1>2. PICK k \in 1..Len(s) : s[k] = m
  BY DEF Listed
<1>3. 1 \in 1..Len(s) /\ s[1] = m
  <2>1. 1 \in 1..Len(s) /\ 1 <= k
    BY <1>1
  <2>2. s[1] <= s[k] /\ m <= s[1] /\ s[1] \in Nat /\ m \in Nat
    BY <2>1, <1>1
  <2> QED
    BY <2>1, <2>2, <1>2
<1>4. s \in Seq(T) /\ s # <<>>
  BY <1>3 DEF Listed
<1>5. /\ t \in Seq(T) /\ Len(t) = Len(s) - 1
      /\ \A j \in 1..Len(t) : t[j] = s[j + 1]
  BY <1>4, HeadTailProperties
<1>6. ASSUME NEW j \in 1..Len(t) PROVE t[j] \in U
  <2>1. j + 1 \in 1..Len(s) /\ j + 1 # 1
    BY <1>1, <1>5
  <2>2. s[j + 1] \in T /\ s[j + 1] # m
    BY <2>1, <1>1, <1>3
  <2> QED
    BY <2>2, <1>5
<1>7. t \in Seq(U)
  <2>1. Len(t) \in Nat /\ t \in [1..Len(t) -> T]
    BY <1>5, LenProperties
  <2>2. t \in [1..Len(t) -> U]
    BY <2>1, <1>6
  <2> HIDE DEF t, U
  <2> QED
    BY <2>1, <2>2, SeqDef
<1>8. ASSUME NEW i \in 1..Len(t), NEW j \in 1..Len(t), i < j PROVE t[i] < t[j]
  <2>1. i + 1 \in 1..Len(s) /\ j + 1 \in 1..Len(s) /\ i + 1 < j + 1
    BY <1>1, <1>5, <1>8
  <2> QED
    BY <2>1, <1>1, <1>5
<1>9. ASSUME NEW x \in U PROVE \E j \in 1..Len(t) : t[j] = x
  <2>1. PICK j \in 1..Len(s) : s[j] = x
    BY DEF Listed
  <2>2. j # 1
    BY <2>1, <1>3
  <2>3. j - 1 \in 1..Len(t) /\ t[j - 1] = x
    BY <2>1, <2>2, <1>1, <1>5
  <2> QED
    BY <2>3
<1>10. DOMAIN t = 1..Len(t)
  BY <1>5
<1> QED
  BY <1>4, <1>7, <1>8, <1>9, <1>10 DEF Listed, Rising

LEMMA TheList ==
  ASSUME NEW T \in SUBSET Nat, IsFiniteSet(T)
  PROVE  /\ Listed(T, CHOOSE s \in [1..Cardinality(T) -> T] : Rising(s))
         /\ \A t : Listed(T, t) => t = CHOOSE s \in [1..Cardinality(T) -> T] : Rising(s)
<1> DEFINE c == CHOOSE s \in [1..Cardinality(T) -> T] : Rising(s)
<1>1. PICK t : Listed(T, t)
  BY SomeList
<1>2. t \in [1..Cardinality(T) -> T] /\ Rising(t)
  BY <1>1, ListLength DEF Listed
<1>3. c \in [1..Cardinality(T) -> T] /\ Rising(c)
  BY <1>2
<1>4. Listed(T, c)
  BY <1>3, RisingLists
<1> QED
  BY <1>4, OneList

-----------------------------------------------------------------------------
(* The heap keeps the promise of PriorityLanes.                            *)

LEMMA LaneIsList ==
  ASSUME TypeOK, ArrivalOrder, NEW p
  PROVE  /\ Arrivals(p) \in SUBSET Nat
         /\ Listed(Arrivals(p), Lane(p))
         /\ \A s : Listed(Arrivals(p), s) => s = Lane(p)
<1>1. Arrivals(p) \in SUBSET Nat /\ \A x \in Arrivals(p) : x <= counter
  BY DEF Arrivals, ArrivalOrder, TypeOK
<1>2. IsFiniteSet(Arrivals(p))
  BY <1>1, FS_BoundedSetOfNaturals DEF TypeOK
<1> QED
  BY <1>1, <1>2, TheList DEF Lane

(* The same after a step.                                                  *)
LEMMA LaneIsListNext ==
  ASSUME TypeOK', ArrivalOrder', NEW p
  PROVE  \A s : Listed(Arrivals(p)', s) => s = Lane(p)'
<1>1. Arrivals(p)' \in SUBSET Nat /\ \A x \in Arrivals(p)' : x <= counter'
  BY DEF Arrivals, ArrivalOrder, TypeOK
<1>2. IsFiniteSet(Arrivals(p)')
  BY <1>1, FS_BoundedSetOfNaturals DEF TypeOK
<1> QED
  BY <1>1, <1>2, TheList DEF Lane

(* The lanes hold what the heap holds.                                     *)
LEMMA SameSize ==
  ASSUME TypeOK, ArrivalOrder
  PROVE  Cardinality(Lanes!Waiting) = Cardinality(queue)
<1> DEFINE W == Lanes!Waiting
           place(i) == CHOOSE k \in 1..Len(Lane(i.prio)) : Lane(i.prio)[k] = i.no
           f == [i \in queue |-> <<i.prio, place(i)>>]
<1>1. W = UNION {{<<p, k>> : k \in 1..Len(Lane(p))} : p \in Priorities}
  BY DEF Lanes!Waiting, lanes
<1>2. ASSUME NEW i \in queue
      PROVE  /\ i.prio \in Priorities /\ i.no \in Arrivals(i.prio)
             /\ place(i) \in 1..Len(Lane(i.prio)) /\ Lane(i.prio)[place(i)] = i.no
  <2>1. i.prio \in Priorities /\ i.no \in Arrivals(i.prio)
    BY DEF TypeOK, Item, Arrivals
  <2>2. \E k \in 1..Len(Lane(i.prio)) : Lane(i.prio)[k] = i.no
    BY <2>1, LaneIsList DEF Listed
  <2> QED
    BY <2>1, <2>2
<1>3. f \in [queue -> W]
  BY <1>1, <1>2
<1>4. ASSUME NEW i \in queue, NEW j \in queue, f[i] = f[j] PROVE i = j
  <2>1. i.prio = j.prio /\ place(i) = place(j)
    <3>1. f[i] = <<i.prio, place(i)>> /\ f[j] = <<j.prio, place(j)>>
      OBVIOUS
    <3> HIDE DEF f, place
    <3> QED
      BY <3>1, <1>4
  <2>2. i.no = j.no
    BY <2>1, <1>2
  <2> QED
    BY <2>2 DEF ArrivalOrder
<1>5. ASSUME NEW w \in W PROVE \E i \in queue : f[i] = w
  <2>1. PICK p \in Priorities : \E k \in 1..Len(Lane(p)) : w = <<p, k>>
    BY <1>1
  <2>0. PICK k \in 1..Len(Lane(p)) : w = <<p, k>>
    BY <2>1
  <2>2. Lane(p) \in Seq(Arrivals(p)) /\ Rising(Lane(p)) /\ Arrivals(p) \in SUBSET Nat
    BY LaneIsList DEF Listed
  <2>3. Lane(p)[k] \in Arrivals(p)
    BY <2>2, ElementOfSeq
  <2>4. PICK i \in queue : i.prio = p /\ i.no = Lane(p)[k]
    BY <2>3 DEF Arrivals
  <2>5. place(i) = k
    BY <2>2, <2>4, <1>2, RisingFacts
  <2> QED
    BY <2>0, <2>4, <2>5
<1>6. f \in Bijection(queue, W)
  BY <1>3, <1>4, <1>5 DEF Bijection, Injection, Surjection, IsInjective
<1> QED
  BY <1>6, FS_Bijection DEF ExistsBijection, TypeOK

(* The instance counts as this module does.                                *)
LEMMA SameCount == \A S : Lanes!Cardinality(S) = Cardinality(S)
BY DEF Lanes!Cardinality, Cardinality

(* What a step leaves in the lanes: of priority q, all but the items taken *)
(* out, which is at most the earliest one, and the newcomer behind them.   *)
LEMMA LaneStays ==
  ASSUME TypeOK, ArrivalOrder, TypeOK', ArrivalOrder', NEW q, Arrivals(q)' = Arrivals(q)
  PROVE  Lane(q)' = Lane(q)
BY LaneIsList, LaneIsListNext

LEMMA LaneGrows ==
  ASSUME TypeOK, ArrivalOrder, TypeOK', ArrivalOrder', NEW q,
         Arrivals(q)' = Arrivals(q) \union {counter + 1}
  PROVE  Lane(q)' = Append(Lane(q), counter + 1)
<1>1. counter + 1 \in Nat /\ \A x \in Arrivals(q) : x < counter + 1
  BY DEF TypeOK, ArrivalOrder, Arrivals
<1>2. Listed(Arrivals(q) \union {counter + 1}, Append(Lane(q), counter + 1))
  BY <1>1, LaneIsList, ListGrows
<1> QED
  BY <1>2, LaneIsListNext

LEMMA LaneLosesHead ==
  ASSUME TypeOK, ArrivalOrder, TypeOK', ArrivalOrder', NEW i \in queue,
         \A j \in queue : j.prio = i.prio => i.no <= j.no,
         Arrivals(i.prio)' = Arrivals(i.prio) \ {i.no}
  PROVE  Lane(i.prio) # <<>> /\ Lane(i.prio)' = Tail(Lane(i.prio))
<1>1. i.no \in Arrivals(i.prio) /\ \A x \in Arrivals(i.prio) : i.no <= x
  BY DEF Arrivals
<1>2. /\ Lane(i.prio) # <<>>
      /\ Listed(Arrivals(i.prio) \ {i.no}, Tail(Lane(i.prio)))
  BY <1>1, LaneIsList, ListShrinks
<1> QED
  BY <1>2, LaneIsListNext

LEMMA OccupiedLanes ==
  ASSUME TypeOK, ArrivalOrder
  PROVE  Lanes!Occupied = {i.prio : i \in queue}
<1>1. ASSUME NEW p \in Priorities PROVE Lane(p) # <<>> <=> \E i \in queue : i.prio = p
  <2>1. Listed(Arrivals(p), Lane(p))
    BY LaneIsList
  <2>2. ASSUME NEW i \in queue, i.prio = p PROVE Lane(p) # <<>>
    <3>1. i.no \in Arrivals(p)
      BY <2>2 DEF Arrivals
    <3>2. \E k \in 1..Len(Lane(p)) : Lane(p)[k] = i.no
      BY <3>1, <2>1 DEF Listed
    <3>3. Len(<<>>) = 0
      OBVIOUS
    <3> QED
      BY <3>2, <3>3
  <2>3. ASSUME Lane(p) # <<>> PROVE \E i \in queue : i.prio = p
    <3>1. Head(Lane(p)) \in Arrivals(p)
      BY <2>1, <2>3, HeadTailProperties DEF Listed
    <3> QED
      BY <3>1 DEF Arrivals
  <2> QED
    BY <2>2, <2>3
<1>2. \A i \in queue : i.prio \in Priorities
  BY DEF TypeOK, Item
<1> QED
  BY <1>1, <1>2 DEF Lanes!Occupied, lanes

(* Taking out an item that is the earliest of its priority and then, it    *)
(* may be, pushing one of another priority.                                *)
LEMMA PushedArrivals ==
  ASSUME TypeOK, ArrivalOrder, NEW p \in Priorities, NEW rest \in SUBSET queue, Push(p, rest)
  PROVE  /\ Arrivals(p)' = {i.no : i \in {j \in rest : j.prio = p}} \union {counter + 1}
         /\ \A q : q # p => Arrivals(q)' = {i.no : i \in {j \in rest : j.prio = q}}
<1> DEFINE new == [prio |-> p, at |-> now, no |-> counter + 1]
           kept(q) == {j \in rest : j.prio = q}
<1>1. queue' = rest \union {new} /\ new.prio = p /\ new.no = counter + 1
  BY DEF Push
<1>2. \A q : Arrivals(q)' = {i.no : i \in {j \in queue' : j.prio = q}}
  BY DEF Arrivals
<1> HIDE DEF new
<1>3. {j \in queue' : j.prio = p} = kept(p) \union {new}
  BY <1>1
<1>4. ASSUME NEW q, q # p PROVE {j \in queue' : j.prio = q} = kept(q)
  BY <1>1, <1>4
<1>5. Arrivals(p)' = {i.no : i \in kept(p)} \union {new.no}
  <2>1. {i.no : i \in kept(p) \union {new}} = {i.no : i \in kept(p)} \union {new.no}
    OBVIOUS
  <2> QED
    BY <2>1, <1>2, <1>3
<1> QED
  BY <1>1, <1>2, <1>4, <1>5

LEMMA ArrivalsWithout ==
  ASSUME TypeOK, ArrivalOrder, NEW v \in queue
  PROVE  /\ {i.no : i \in {j \in queue \ {v} : j.prio = v.prio}} = Arrivals(v.prio) \ {v.no}
         /\ \A q : q # v.prio =>
              {i.no : i \in {j \in queue \ {v} : j.prio = q}} = Arrivals(q)
BY DEF Arrivals, ArrivalOrder

(* Types of both states, and their order, for one step.                    *)
Ordered == TypeOK /\ ArrivalOrder

LEMMA RoomJoins ==
  ASSUME Ordered, Ordered', NEW p \in Priorities, EnqueueRoom(p)
  PROVE  Lanes!Join(p)
<1>1. Push(p, queue) /\ Cardinality(queue) < QueueLimit
  BY FS_CardinalityType, QueueAssumption DEF EnqueueRoom, Full, Ordered, TypeOK
<1>2. Arrivals(p)' = Arrivals(p) \union {counter + 1}
  BY <1>1, PushedArrivals DEF Ordered, Arrivals
<1>3. \A q \in Priorities : q # p => Arrivals(q)' = Arrivals(q)
  BY <1>1, PushedArrivals DEF Ordered, Arrivals
<1>4. Lane(p)' = Append(Lane(p), counter + 1)
  BY <1>2, LaneGrows DEF Ordered
<1>5. \A q \in Priorities : q # p => Lane(q)' = Lane(q)
  BY <1>3, LaneStays DEF Ordered
<1>6. counter' = counter + 1
  BY <1>1 DEF Push
<1>7. lanes' = [lanes EXCEPT ![p] = Append(@, counter')]
  BY <1>4, <1>5, <1>6 DEF lanes
<1>8. Cardinality(Lanes!Waiting) < QueueLimit
  BY <1>1, SameSize DEF Ordered
<1> QED
  BY <1>6, <1>7, <1>8, SameCount DEF Lanes!Join

LEMMA EvictionDisplaces ==
  ASSUME Ordered, Ordered', NEW p \in Priorities, EnqueueEvict(p)
  PROVE  Lanes!Displace(p)
<1>1. PICK v \in queue : Victim(v) /\ p > v.prio /\ Push(p, queue \ {v})
  BY DEF EnqueueEvict
<1> DEFINE q == v.prio
<1>2. Cardinality(queue) = QueueLimit
  BY FS_CardinalityType, QueueAssumption DEF EnqueueEvict, Full, Ordered, TypeOK
<1>3. q \in Priorities /\ q \in Nat /\ p \in Nat /\ q # p
  BY <1>1, Numbers DEF Ordered, TypeOK, Item
<1>4. Arrivals(p)' = Arrivals(p) \union {counter + 1}
  BY <1>1, <1>3, PushedArrivals, ArrivalsWithout DEF Ordered
<1>5. Arrivals(q)' = Arrivals(q) \ {v.no}
  BY <1>1, <1>3, PushedArrivals, ArrivalsWithout DEF Ordered
<1>6. ASSUME NEW r \in Priorities, r # p, r # q PROVE Arrivals(r)' = Arrivals(r)
  <2>1. Arrivals(r)' = {i.no : i \in {j \in queue \ {v} : j.prio = r}}
    BY <1>1, <1>6, PushedArrivals DEF Ordered
  <2>2. {i.no : i \in {j \in queue \ {v} : j.prio = r}} = Arrivals(r)
    BY <1>6, ArrivalsWithout DEF Ordered
  <2> QED
    BY <2>1, <2>2
<1>7. \A j \in queue : j.prio = q => v.no <= j.no
  BY <1>1, Numbers DEF Victim, Ordered, ArrivalOrder
<1>8. Lane(p)' = Append(Lane(p), counter + 1)
  BY <1>4, LaneGrows DEF Ordered
<1>9. Lane(q)' = Tail(Lane(q))
  BY <1>5, <1>7, LaneLosesHead DEF Ordered
<1>10. \A r \in Priorities : r # p /\ r # q => Lane(r)' = Lane(r)
  BY <1>6, LaneStays DEF Ordered
<1>11. counter' = counter + 1
  BY <1>1 DEF Push
<1>12. lanes' = [lanes EXCEPT ![q] = Tail(@), ![p] = Append(@, counter')]
  BY <1>3, <1>8, <1>9, <1>10, <1>11 DEF lanes
<1>13. Lanes!Lowest(q)
  BY <1>1, OccupiedLanes, Numbers DEF Victim, Lanes!Lowest, Ordered
<1>14. Cardinality(Lanes!Waiting) = QueueLimit
  BY <1>2, SameSize DEF Ordered
<1>15. q \in Lanes!Occupied /\ q < p
  BY <1>1, <1>3, <1>13 DEF Lanes!Lowest
<1> HIDE DEF q
<1> QED
  BY <1>11, <1>12, <1>13, <1>14, <1>15, SameCount DEF Lanes!Displace

LEMMA ServiceServes ==
  ASSUME Ordered, Ordered', dequeue_packet
  PROVE  Lanes!Serve
<1>1. PICK i \in queue : (\A j \in queue : Before(i, j)) /\ queue' = queue \ {i}
  BY DEF dequeue_packet
<1> DEFINE q == i.prio
<1>2. q \in Priorities
  BY <1>1 DEF Ordered, TypeOK, Item
<1>3. Arrivals(q)' = Arrivals(q) \ {i.no}
  BY <1>1, ArrivalsWithout DEF Ordered, Arrivals
<1>4. \A r \in Priorities : r # q => Arrivals(r)' = Arrivals(r)
  BY <1>1, ArrivalsWithout DEF Ordered, Arrivals
<1>5. \A j \in queue : j.prio = q => i.no <= j.no
  BY <1>1, Numbers DEF Before, Ordered, ArrivalOrder
<1>6. Lane(q)' = Tail(Lane(q))
  BY <1>3, <1>5, LaneLosesHead DEF Ordered
<1>7. \A r \in Priorities : r # q => Lane(r)' = Lane(r)
  BY <1>4, LaneStays DEF Ordered
<1>8. lanes' = [lanes EXCEPT ![q] = Tail(@)]
  BY <1>2, <1>6, <1>7 DEF lanes
<1>9. Lanes!Highest(q)
  BY <1>1, OccupiedLanes, Numbers DEF Before, Lanes!Highest, Ordered
<1>10. counter' = counter
  BY DEF dequeue_packet
<1> QED
  BY <1>8, <1>9, <1>10 DEF Lanes!Serve, Lanes!Highest

LEMMA RestStutters ==
  ASSUME UNCHANGED <<queue, counter>>
  PROVE  UNCHANGED <<lanes, counter>>
BY DEF lanes, Lane, Arrivals

(* node.py's queue implements PriorityLanes: an enqueue that finds room is *)
(* a join, one that evicts is a displacement, a dequeue is a service, and  *)
(* a refusal or the passing of time changes no lane.                       *)
THEOREM QueueKeepsLanes == Spec => KeepsLanes
<1>1. Init => Lanes!Init
  <2> SUFFICES ASSUME Init PROVE Lanes!Init
    OBVIOUS
  <2>1. Ordered
    BY FS_EmptySet, QueueAssumption DEF Init, TypeOK, Item, ArrivalOrder, Ordered
  <2>2. ASSUME NEW p \in Priorities PROVE Lane(p) = <<>>
    <3>1. Lanes!Occupied = {}
      BY <2>1, OccupiedLanes DEF Ordered, Init
    <3> QED
      BY <3>1 DEF Lanes!Occupied, lanes
  <2> QED
    BY <2>2 DEF Lanes!Init, lanes, Init
<1>2. Ordered /\ Ordered' /\ [Next]_vars => [Lanes!Next]_<<lanes, counter>>
  <2> SUFFICES ASSUME Ordered, Ordered', [Next]_vars
               PROVE  Lanes!Next \/ UNCHANGED <<lanes, counter>>
    OBVIOUS
  <2>1. ASSUME NEW p \in Priorities, enqueue_packet(p)
        PROVE  Lanes!Next \/ UNCHANGED <<lanes, counter>>
    <3>1. CASE EnqueueRoom(p)
      BY <3>1, RoomJoins DEF Lanes!Next
    <3>2. CASE EnqueueEvict(p)
      BY <3>2, EvictionDisplaces DEF Lanes!Next
    <3>3. CASE EnqueueRefuse(p)
      BY <3>3, RestStutters DEF EnqueueRefuse
    <3> QED
      BY <2>1, <3>1, <3>2, <3>3 DEF enqueue_packet
  <2>2. CASE dequeue_packet
    BY <2>2, ServiceServes DEF Lanes!Next
  <2>3. CASE Tick
    BY <2>3, RestStutters DEF Tick
  <2>4. CASE UNCHANGED vars
    BY <2>4, RestStutters DEF vars
  <2> QED
    BY <2>1, <2>2, <2>3, <2>4 DEF Next
<1>3. Spec => []Ordered
  BY TypeCorrect, ArrivalOrdered, PTL DEF Ordered
<1> QED
  BY <1>1, <1>2, <1>3, PTL DEF Spec, KeepsLanes, Lanes!Spec
=============================================================================
