--------------------------- MODULE EventRadio_proofs ---------------------------
(* Proofs about EventRadio, for any nodes, requests, durations and limits. *)
EXTENDS EventRadio, TLAPS

(* What the provers need of the constants.                                 *)
LEMMA Numbers ==
  /\ \A r \in Requests : /\ Sender[r] \in Nodes /\ Receivers[r] \subseteq Nodes
                         /\ AirTime[r] \in Nat /\ AirTime[r] > 0
                         /\ Urgency[r] \in Nat /\ r \in Nat
  /\ Period \in Nat /\ Period > 0 /\ Processing \in Nat /\ RetryDelay \in Nat
  /\ \A d \in SubmitDelays : d \in Nat
  /\ MaxBackoffs \in Nat /\ MaxRetries \in Nat
BY RadioAssumption

(* The duty cycle's silence, counted from the end of the emission.         *)
LEMMA Silence ==
  ASSUME NEW a \in Nat, NEW p \in Nat, p > 0
  PROVE  a * (p - 1) \in Nat /\ a * p \in Nat /\ a * p = a + a * (p - 1)
<1>1. PICK k \in Nat : p = k + 1
  <2>1. p - 1 \in Nat /\ p = (p - 1) + 1
    OBVIOUS
  <2> QED BY <2>1
<1>2. a * k \in Nat /\ p - 1 = k
  BY <1>1
<1>3. a * (k + 1) = a + a * k
  OBVIOUS
<1> QED BY <1>1, <1>2, <1>3

LEMMA SlotsAreNumbers == \A k : \A s \in Slots(k) : s \in Nat
BY DEF Slots

-----------------------------------------------------------------------------
LEMMA InitTypes == Init => TypeOK
BY Numbers DEF Init, TypeOK, Events

LEMMA StartTypes ==
  ASSUME TypeOK, NEW r \in Requests, _start(r)
  PROVE  TypeOK'
<1>1. CASE StartInactive(r)
  BY <1>1 DEF StartInactive, Cancel, TypeOK, Events
<1>2. CASE StartDeferred(r)
  <2>1. ready[Sender[r]] \in Nat
    BY Numbers DEF TypeOK
  <2> QED BY <1>2, <2>1 DEF StartDeferred, TypeOK
<1>3. CASE StartBusy(r)
  <2>1. CASE GivesUp(r)
    BY <1>3, <2>1 DEF StartBusy, Cancel, TypeOK, Events
  <2>2. CASE ~GivesUp(r)
    <3>1. PICK s \in Slots(backoffs'[r] + attempt[r] + 1) : due' = [due EXCEPT ![r] = s]
      BY <1>3, <2>2 DEF StartBusy
    <3>2. due' \in [Requests -> Nat]
      BY <3>1, SlotsAreNumbers DEF TypeOK
    <3>3. backoffs[r] + 1 \in 0..MaxBackoffs
      BY <2>2, Numbers DEF GivesUp, TypeOK
    <3>4. backoffs' \in [Requests -> 0..MaxBackoffs]
      BY <1>3, <2>2, <3>3 DEF StartBusy, TypeOK
    <3> QED BY <1>3, <2>2, <3>2, <3>4 DEF StartBusy, TypeOK
  <2> QED BY <2>1, <2>2
<1>4. CASE Transmit(r)
  <2>1. AirTime[r] * Period \in Nat /\ AirTime[r] \in Nat /\ Sender[r] \in Nodes
    BY Numbers, Silence
  <2>2. PICK heard \in SUBSET {n \in Receivers[r] : up[n]} : got' = [got EXCEPT ![r] = heard]
    BY <1>4 DEF Transmit
  <2>3. got' \in [Requests -> SUBSET Nodes]
    BY <2>2, Numbers DEF TypeOK
  <2>4. /\ event' = [event EXCEPT ![r] = "end"]
        /\ due' = [due EXCEPT ![r] = AirTime[r]]
        /\ ready' = [ready EXCEPT ![Sender[r]] = AirTime[r] * Period]
        /\ fresh' = fresh \union {r}
        /\ UNCHANGED <<attempt, backoffs, up, stage, heardFrom, copies, entitled>>
    BY <1>4 DEF Transmit
  <2> QED BY <2>1, <2>3, <2>4 DEF TypeOK, Events
<1> QED BY <1>1, <1>2, <1>3, <1>4 DEF _start

LEMMA CompleteTypes ==
  ASSUME TypeOK, NEW r \in Requests, _complete(r)
  PROVE  TypeOK'
<1>1. /\ got' \in [Requests -> SUBSET Nodes] /\ heardFrom' \in [Requests -> SUBSET Nodes]
      /\ copies' \in [Requests -> Nat]
      /\ UNCHANGED <<ready, up, stage, fresh, entitled>>
  BY DEF _complete, TypeOK
<1>2. CASE Retryable(r)
  <2>1. PICK s \in Slots(attempt'[r] + 1) : due' = [due EXCEPT ![r] = RetryDelay + s]
    BY <1>2 DEF _complete
  <2>2. RetryDelay + s \in Nat
    BY SlotsAreNumbers, Numbers
  <2>3. attempt[r] + 1 \in 0..MaxRetries
    BY <1>2, Numbers DEF Retryable, TypeOK
  <2>4. /\ attempt' = [attempt EXCEPT ![r] = attempt[r] + 1]
        /\ backoffs' = [backoffs EXCEPT ![r] = 0]
        /\ event' = [event EXCEPT ![r] = "start"]
    BY <1>2 DEF _complete, NextAttempt
  <2> QED BY <1>1, <2>1, <2>2, <2>3, <2>4, Numbers DEF TypeOK, Events
<1>3. CASE ~Retryable(r)
  BY <1>1, <1>3 DEF _complete, TypeOK, Events
<1> QED BY <1>2, <1>3

LEMMA NextTypes == TypeOK /\ [Next]_vars => TypeOK'
<1> SUFFICES ASSUME TypeOK, [Next]_vars PROVE TypeOK'
  OBVIOUS
<1>1. ASSUME NEW r \in Requests, schedule(r) PROVE TypeOK'
  BY <1>1, Numbers DEF schedule, TypeOK, Events
<1>2. ASSUME NEW n \in Nodes, Switch(n) PROVE TypeOK'
  BY <1>2 DEF Switch, TypeOK
<1>3. CASE Advance
  <2>1. PICK r \in Waiting :
          /\ \A q \in Waiting : due[r] <= due[q]
          /\ due' = [q \in Requests |-> IF q \in Waiting THEN due[q] - due[r] ELSE due[q]]
          /\ ready' = [n \in Nodes |-> IF ready[n] > due[r] THEN ready[n] - due[r] ELSE 0]
    BY <1>3 DEF Advance
  <2>2. due[r] \in Nat
    BY DEF Waiting, TypeOK
  <2>3. due' \in [Requests -> Nat] /\ ready' \in [Nodes -> Nat]
    BY <2>1, <2>2 DEF TypeOK
  <2> QED BY <1>3, <2>3 DEF Advance, TypeOK
<1>4. ASSUME NEW r \in Requests, _end(r) PROVE TypeOK'
  BY <1>4, Numbers DEF _end, TypeOK, Events
<1>5. ASSUME NEW r \in Requests, _complete(r) PROVE TypeOK'
  BY <1>5, CompleteTypes
<1>6. ASSUME NEW r \in Requests, _start(r) PROVE TypeOK'
  BY <1>6, StartTypes
<1>7. CASE BeginStarts
  BY <1>7 DEF BeginStarts, Now, TypeOK
<1>8. CASE _interference
  <2>1. PICK kept \in [OnAir -> SUBSET Nodes] :
          got' = [r \in Requests |-> IF r \in OnAir THEN kept[r] ELSE got[r]]
    BY <1>8 DEF _interference
  <2>2. got' \in [Requests -> SUBSET Nodes]
    BY <2>1 DEF TypeOK
  <2>3. heardFrom' \in [Requests -> SUBSET Nodes]
    BY <1>8, Numbers DEF _interference, Overheard, OnAir, TypeOK
  <2> QED BY <1>8, <2>2, <2>3 DEF _interference, TypeOK
<1>9. CASE UNCHANGED vars
  BY <1>9 DEF vars, TypeOK
<1> QED BY <1>1, <1>2, <1>3, <1>4, <1>5, <1>6, <1>7, <1>8, <1>9 DEF Next, step

(* Types, and the limits of attempts and backoffs.                         *)
THEOREM TypeCorrect == Spec => []TypeOK
BY InitTypes, NextTypes, PTL DEF Spec
-----------------------------------------------------------------------------
(* One transceiver, half duplex, and results reported once.                *)

Safe == TypeOK /\ OneTransceiver /\ ServedOnce /\ Orderly

LEMMA InitSafe == Init => Safe
<1> SUFFICES ASSUME Init PROVE OneTransceiver /\ ServedOnce /\ Orderly
  BY InitTypes DEF Safe
<1> QED BY DEF Init, OneTransceiver, ServedOnce, Orderly, OnAir

(* Steps that neither start nor change an emission.                        *)
LEMMA OffAirSafe ==
  ASSUME Safe, NEW r \in Requests, event[r] \in {"new", "start"},
         event' = [event EXCEPT ![r] = "start"] \/ event' = [event EXCEPT ![r] = "gone"]
           \/ event' = event,
         \A q \in Requests : q # r => due'[q] = due[q],
         UNCHANGED <<attempt, got, ready, stage, heardFrom, copies>>
  PROVE  OneTransceiver' /\ ServedOnce' /\ Orderly'
<1>1. OnAir' = OnAir /\ \A q \in OnAir : due'[q] = due[q] /\ q \in Requests
  BY DEF OnAir, Safe, TypeOK
<1>2. \A q \in Requests : q # r => event'[q] = event[q]
  BY DEF Safe, TypeOK
<1>3. event'[r] \in {"new", "start", "gone"}
  BY DEF Safe, TypeOK
<1>4. OneTransceiver'
  BY <1>1 DEF Safe, OneTransceiver
<1>5. Orderly'
  BY <1>1, <1>2, <1>3 DEF Safe, Orderly
<1> QED BY <1>4, <1>5 DEF Safe, ServedOnce

LEMMA TransmitSafe ==
  ASSUME Safe, NEW r \in Requests, Transmit(r)
  PROVE  OneTransceiver' /\ ServedOnce' /\ Orderly'
<1>t. TypeOK /\ OneTransceiver /\ ServedOnce /\ Orderly
  BY DEF Safe
<1> DEFINE n == Sender[r]
           a == AirTime[r]
<1>1. /\ stage = "starts" /\ event[r] = "start" /\ ready[n] = 0
      /\ event' = [event EXCEPT ![r] = "end"] /\ due' = [due EXCEPT ![r] = a]
      /\ ready' = [ready EXCEPT ![n] = a * Period]
      /\ UNCHANGED <<attempt, stage, heardFrom, copies>>
  BY DEF Transmit, Turn, Now
<1>2. \A q \in Requests : /\ AirTime[q] \in Nat /\ AirTime[q] > 0
                          /\ AirTime[q] * (Period - 1) \in Nat
  BY Numbers, Silence
<1>3. a * Period \in Nat /\ a * Period = a + a * (Period - 1)
  BY Numbers, Silence
<1>4. \A q \in OnAir : q \in Requests /\ due[q] \in Nat /\ due[q] > 0
  BY <1>1, <1>t DEF Orderly, OnAir, TypeOK
<1>5. \A q \in OnAir : Sender[q] # n
  <2> SUFFICES ASSUME NEW q \in OnAir, Sender[q] = n PROVE FALSE
    OBVIOUS
  <2>1. ready[n] >= due[q] + AirTime[q] * (Period - 1)
    BY <1>t DEF OneTransceiver
  <2>2. AirTime[q] * (Period - 1) \in Nat
    BY <1>2, <1>4
  <2> QED BY <2>1, <2>2, <1>1, <1>4
<1>6. OnAir' = OnAir \union {r} /\ r \notin OnAir
  BY <1>1, <1>t DEF OnAir, TypeOK
<1>7. /\ due'[r] = a /\ \A q \in Requests : q # r => due'[q] = due[q]
      /\ ready'[n] = a * Period
      /\ \A m \in Nodes : m # n => ready'[m] = ready[m]
  BY <1>1, <1>t, Numbers DEF TypeOK
<1> HIDE DEF n, a
<1>8. OneTransceiver'
  <2> SUFFICES ASSUME NEW q \in OnAir'
               PROVE  /\ \A p \in OnAir' : Sender[p] = Sender[q] => p = q
                      /\ ready'[Sender[q]] >= due'[q] + AirTime[q] * (Period - 1)
    BY DEF OneTransceiver
  <2>0. q \in Requests /\ Sender[q] \in Nodes
    BY Numbers DEF OnAir
  <2>1. CASE q = r
    <3>1. \A p \in OnAir' : Sender[p] = Sender[q] => p = q
      BY <2>1, <1>5, <1>6 DEF n
    <3>2. ready'[Sender[q]] = due'[q] + AirTime[q] * (Period - 1)
      BY <2>1, <1>3, <1>7 DEF n, a
    <3>3. ready'[Sender[q]] \in Nat
      BY <2>1, <1>3, <1>7 DEF n
    <3> QED BY <3>1, <3>2, <3>3
  <2>2. CASE q # r
    <3>1. q \in OnAir
      BY <2>2, <1>6
    <3>2. Sender[q] # n
      BY <3>1, <1>5
    <3>3. \A p \in OnAir' : Sender[p] = Sender[q] => p = q
      BY <3>1, <3>2, <1>6, <1>t DEF OneTransceiver, n
    <3>4. ready'[Sender[q]] = ready[Sender[q]] /\ due'[q] = due[q]
      BY <2>0, <2>2, <3>2, <1>7
    <3> QED BY <3>1, <3>3, <3>4, <1>t DEF OneTransceiver
  <2> QED BY <2>1, <2>2
<1>9. Orderly'
  <2>1. got[r] = {} /\ heardFrom[r] = {}
    BY <1>1, <1>t DEF Orderly
  <2>2. \A q \in Requests : q # r => got'[q] = got[q] /\ event'[q] = event[q]
    BY <1>1, <1>t DEF Transmit, TypeOK
  <2>3. got'[r] \cap heardFrom'[r] = {} /\ event'[r] = "end"
    BY <2>1, <1>1, <1>t DEF TypeOK
  <2>4. \A q \in OnAir' : due'[q] > 0
    BY <1>2, <1>4, <1>6, <1>7 DEF a
  <2>5. copies'[r] = 0
    BY <1>1, <1>t DEF Orderly
  <2> QED BY <2>2, <2>3, <2>4, <2>5, <1>1, <1>t DEF Orderly
<1> QED BY <1>1, <1>8, <1>9, <1>t DEF ServedOnce

LEMMA StartSafe ==
  ASSUME Safe, NEW r \in Requests, _start(r)
  PROVE  OneTransceiver' /\ ServedOnce' /\ Orderly'
<1>t. TypeOK
  BY DEF Safe
<1>1. CASE Transmit(r)
  BY <1>1, TransmitSafe
<1>2. CASE StartInactive(r) \/ StartDeferred(r) \/ StartBusy(r)
  <2>1. event[r] = "start"
    BY <1>2 DEF StartInactive, StartDeferred, StartBusy, Turn, Now
  <2>2. /\ \/ event' = [event EXCEPT ![r] = "start"]
           \/ event' = [event EXCEPT ![r] = "gone"]
           \/ event' = event
        /\ \A q \in Requests : q # r => due'[q] = due[q]
        /\ UNCHANGED <<attempt, got, ready, stage, heardFrom, copies>>
    BY <1>2, <1>t DEF StartInactive, StartDeferred, StartBusy, Cancel, TypeOK
  <2> QED BY <2>1, <2>2, OffAirSafe
<1> QED BY <1>1, <1>2 DEF _start

(* An emission that is over frees its transceiver.                         *)
LEMMA EventSafe ==
  ASSUME Safe, NEW r \in Requests, _end(r) \/ _complete(r)
  PROVE  OneTransceiver' /\ ServedOnce' /\ Orderly'
<1>t. TypeOK /\ OneTransceiver /\ ServedOnce /\ Orderly
  BY DEF Safe
<1>1. /\ stage = "events" /\ UNCHANGED <<ready, stage>>
      /\ \A q \in Requests : q # r =>
           /\ event'[q] = event[q] /\ due'[q] = due[q] /\ got'[q] = got[q]
           /\ heardFrom'[q] = heardFrom[q] /\ copies'[q] = copies[q] /\ attempt'[q] = attempt[q]
      /\ event'[r] # "end"
  BY <1>t DEF _end, _complete, TypeOK
<1>2. \A q \in OnAir' : q \in OnAir /\ q # r /\ due'[q] = due[q]
  BY <1>1 DEF OnAir
<1>3. OneTransceiver'
  BY <1>1, <1>2, <1>t DEF OneTransceiver
<1>4. CASE _end(r)
  <2>1. event[r] = "end" /\ event'[r] = "complete" /\ got'[r] \subseteq got[r]
        /\ heardFrom'[r] = heardFrom[r] /\ copies'[r] = copies[r] /\ attempt'[r] = attempt[r]
    BY <1>4, <1>t DEF _end, Now, TypeOK
  <2>2. ServedOnce'
    BY <2>1, <1>1, <1>t DEF ServedOnce
  <2>3. Orderly'
    BY <2>1, <1>1, <1>t DEF Orderly
  <2> QED BY <2>2, <2>3, <1>3
<1>5. CASE _complete(r)
  <2>1. event[r] = "complete" /\ copies[r] = 0 /\ got'[r] = {} /\ heardFrom'[r] = {}
    BY <1>5, <1>t DEF _complete, Now, TypeOK, Orderly
  <2>2. copies'[r] <= 1 /\ (event'[r] # "gone" => copies'[r] = 0)
    BY <2>1, <1>5, <1>t DEF _complete, Retryable, TypeOK
  <2>3. r \notin Unicast => attempt'[r] = attempt[r]
    BY <1>5, <1>t DEF _complete, Retryable
  <2>4. ServedOnce'
    BY <2>2, <2>3, <1>1, <1>t DEF ServedOnce
  <2>5. Orderly'
    BY <2>1, <2>2, <1>1, <1>t DEF Orderly
  <2> QED BY <2>4, <2>5, <1>3
<1> QED BY <1>4, <1>5

LEMMA AdvanceSafe ==
  ASSUME Safe, Advance
  PROVE  OneTransceiver' /\ ServedOnce' /\ Orderly'
<1>t. TypeOK /\ OneTransceiver /\ ServedOnce /\ Orderly
  BY DEF Safe
<1>1. PICK r \in Waiting :
        /\ \A q \in Waiting : due[r] <= due[q]
        /\ due' = [q \in Requests |-> IF q \in Waiting THEN due[q] - due[r] ELSE due[q]]
        /\ ready' = [n \in Nodes |-> IF ready[n] > due[r] THEN ready[n] - due[r] ELSE 0]
  BY DEF Advance
<1>2. OnAir' = OnAir /\ UNCHANGED <<event, attempt, got, heardFrom, copies>> /\ stage' = "events"
  BY DEF Advance, OnAir
<1>3. ASSUME NEW q \in OnAir
      PROVE  ready'[Sender[q]] >= due'[q] + AirTime[q] * (Period - 1)
  <2>1. q \in Waiting /\ q \in Requests /\ Sender[q] \in Nodes /\ r \in Requests
    BY Numbers DEF OnAir, Waiting
  <2>2. AirTime[q] * (Period - 1) \in Nat
    BY <2>1, Numbers, Silence
  <2>3. due[r] \in Nat /\ due[q] \in Nat /\ ready[Sender[q]] \in Nat /\ due[r] <= due[q]
    BY <2>1, <1>1, <1>t DEF TypeOK
  <2>4. /\ due'[q] = due[q] - due[r]
        /\ ready'[Sender[q]] = IF ready[Sender[q]] > due[r] THEN ready[Sender[q]] - due[r] ELSE 0
    BY <2>1, <1>1
  <2>5. ready[Sender[q]] >= due[q] + AirTime[q] * (Period - 1)
    BY <1>t DEF OneTransceiver
  <2> QED BY <2>2, <2>3, <2>4, <2>5
<1>4. OneTransceiver'
  BY <1>2, <1>3, <1>t DEF OneTransceiver
<1> QED BY <1>2, <1>4, <1>t DEF ServedOnce, Orderly

LEMMA InterferenceSafe ==
  ASSUME Safe, _interference
  PROVE  OneTransceiver' /\ ServedOnce' /\ Orderly'
<1>t. TypeOK /\ OneTransceiver /\ ServedOnce /\ Orderly
  BY DEF Safe
<1>1. PICK kept \in [OnAir -> SUBSET Nodes] :
        /\ \A r \in OnAir : kept[r] \subseteq got[r] \ Talking
        /\ got' = [r \in Requests |-> IF r \in OnAir THEN kept[r] ELSE got[r]]
  BY DEF _interference
<1>2. /\ UNCHANGED <<event, due, ready, attempt, copies>> /\ OnAir' = OnAir
      /\ heardFrom' = Overheard /\ stage' = "idle"
  BY DEF _interference, OnAir
<1>3. ASSUME NEW r \in Requests
      PROVE  /\ event[r] \in {"new", "start", "gone"} => got'[r] = {} /\ heardFrom'[r] = {}
             /\ got'[r] \cap heardFrom'[r] = {}
  <2>1. CASE r \in OnAir
    <3>1. got'[r] \subseteq got[r] \ Talking /\ event[r] = "end"
      BY <2>1, <1>1 DEF OnAir
    <3>2. heardFrom'[r] \subseteq heardFrom[r] \union Talking
      BY <2>1, <1>2 DEF Overheard, Talking
    <3>3. got[r] \cap heardFrom[r] = {}
      BY <1>t DEF Orderly
    <3> QED BY <3>1, <3>2, <3>3
  <2>2. CASE r \notin OnAir
    BY <2>2, <1>1, <1>2, <1>t DEF Overheard, Orderly
  <2> QED BY <2>1, <2>2
<1>4. OneTransceiver'
  BY <1>2, <1>t DEF OneTransceiver
<1> QED BY <1>2, <1>3, <1>4, <1>t DEF ServedOnce, Orderly

LEMMA NextSafe == Safe /\ [Next]_vars => Safe'
<1> SUFFICES ASSUME Safe, [Next]_vars PROVE OneTransceiver' /\ ServedOnce' /\ Orderly'
  BY NextTypes DEF Safe
<1>t. TypeOK /\ OneTransceiver /\ ServedOnce /\ Orderly
  BY DEF Safe
<1>1. ASSUME NEW r \in Requests, schedule(r)
      PROVE  OneTransceiver' /\ ServedOnce' /\ Orderly'
  <2>1. /\ event[r] = "new" /\ event' = [event EXCEPT ![r] = "start"]
        /\ \A q \in Requests : q # r => due'[q] = due[q]
        /\ UNCHANGED <<attempt, got, ready, stage, heardFrom, copies>>
    BY <1>1, <1>t DEF schedule, TypeOK
  <2> QED BY <2>1, OffAirSafe
<1>2. ASSUME NEW r \in Requests, _end(r) \/ _complete(r) \/ _start(r)
      PROVE  OneTransceiver' /\ ServedOnce' /\ Orderly'
  BY <1>2, EventSafe, StartSafe
<1>3. CASE BeginStarts
  <2>1. \A r \in OnAir : due[r] > 0
    BY <1>3, <1>t DEF BeginStarts, Now, OnAir, TypeOK
  <2>2. OnAir' = OnAir /\ UNCHANGED <<event, due, attempt, got, ready, heardFrom, copies>>
    BY <1>3 DEF BeginStarts, OnAir
  <2> QED BY <2>1, <2>2, <1>t DEF OneTransceiver, ServedOnce, Orderly
<1>4. CASE (\E n \in Nodes : Switch(n)) \/ UNCHANGED vars
  <2>1. OnAir' = OnAir /\ UNCHANGED <<event, due, attempt, got, ready, heardFrom, copies, stage>>
    BY <1>4 DEF Switch, vars, OnAir
  <2> QED BY <2>1, <1>t DEF OneTransceiver, ServedOnce, Orderly
<1> QED BY <1>1, <1>2, <1>3, <1>4, AdvanceSafe, InterferenceSafe DEF Next, step

(* A node never has two frames on the air, and keeps the silence its duty  *)
(* cycle asks for, whatever it is asked to send and when.                  *)
THEOREM TransceiversAreSerial == Spec => []OneTransceiver
<1>1. Safe => OneTransceiver
  BY DEF Safe
<1> QED BY <1>1, InitSafe, NextSafe, PTL DEF Spec

(* No node is reported to have received a frame during which it transmitted*)
(* itself.                                                                 *)
THEOREM ReceptionIsHalfDuplex == Spec => []HalfDuplex
<1>1. Safe => HalfDuplex
  BY DEF Safe, Orderly, HalfDuplex
<1> QED BY <1>1, InitSafe, NextSafe, PTL DEF Spec

(* Retries never deliver a request twice, and only unicasts are retried.   *)
THEOREM ResultsAreReportedOnce == Spec => []ServedOnce
<1>1. Safe => ServedOnce
  BY DEF Safe
<1> QED BY <1>1, InitSafe, NextSafe, PTL DEF Spec
-----------------------------------------------------------------------------
(* Who goes on the air.  During the starts of an instant the emissions that*)
(* are sensed stay those of before it, so that a contender nothing held    *)
(* back then is not held back when its turn comes, unless a frame of its   *)
(* own node that is more urgent took the transceiver first.                *)
Unserved(r) == r \in Now("start") /\ ready[Sender[r]] = 0 /\ Sensed(r) = {}

Served(r) == \E q \in OnAir : Sender[q] = Sender[r] /\ Urgency[q] >= Urgency[r]

TurnsKept ==
  /\ stage # "starts" => entitled = {}
  /\ stage = "events" => fresh = {}
  /\ \A r \in entitled : up[Sender[r]] /\ (Unserved(r) \/ Served(r))

(* A start that is not a transmission leaves the emissions as they are.    *)
LEMMA NoTransmission ==
  ASSUME TypeOK, NEW q \in Requests, StartInactive(q) \/ StartDeferred(q) \/ StartBusy(q)
  PROVE  /\ OnAir' = OnAir /\ UNCHANGED <<ready, up, stage, fresh, entitled>>
         /\ \A r \in Requests : r # q => event'[r] = event[r] /\ due'[r] = due[r]
<1>1. /\ event[q] = "start" /\ UNCHANGED <<ready, up, stage, fresh, entitled>>
      /\ \/ event' = [event EXCEPT ![q] = "gone"]
         \/ event' = event
      /\ \A r \in Requests : r # q => due'[r] = due[r]
  BY DEF StartInactive, StartDeferred, StartBusy, Cancel, Turn, Now, TypeOK
<1>2. \A r \in Requests : r # q => event'[r] = event[r]
  BY <1>1 DEF TypeOK
<1>3. event'[q] # "end" /\ event[q] # "end"
  BY <1>1 DEF TypeOK
<1> QED BY <1>1, <1>2, <1>3 DEF OnAir

LEMMA StartServes ==
  ASSUME TypeOK, TurnsKept, NEW q \in Requests, _start(q)
  PROVE  TurnsKept'
<1>1. stage = "starts" /\ UNCHANGED <<up, stage, entitled>>
  BY DEF _start, StartInactive, StartDeferred, StartBusy, Transmit, Turn
<1> SUFFICES ASSUME NEW r \in entitled PROVE Unserved(r)' \/ Served(r)'
  BY <1>1 DEF TurnsKept
<1>2. r \in Requests /\ up[Sender[r]] /\ (Unserved(r) \/ Served(r))
  BY DEF TurnsKept, TypeOK
<1>3. CASE ~Transmit(q)
  <2>1. StartInactive(q) \/ StartDeferred(q) \/ StartBusy(q)
    BY <1>3 DEF _start
  <2>2. /\ OnAir' = OnAir /\ UNCHANGED <<ready, up, stage, fresh, entitled>>
        /\ \A p \in Requests : p # q => event'[p] = event[p] /\ due'[p] = due[p]
    BY <2>1, NoTransmission
  <2>3. CASE Served(r)
    BY <2>2, <2>3 DEF Served
  <2>4. CASE Unserved(r)
    <3>1. q # r
      BY <1>2, <2>1, <2>4 DEF Unserved, StartInactive, StartDeferred, StartBusy
    <3>2. r \in Now("start")' /\ ready'[Sender[r]] = 0
      BY <1>2, <2>2, <2>4, <3>1 DEF Unserved, Now
    <3>3. Sensed(r)' = {}
      BY <2>2, <2>4 DEF Unserved, Sensed
    <3> QED BY <3>2, <3>3 DEF Unserved
  <2> QED BY <1>2, <2>3, <2>4
<1>4. CASE Transmit(q)
  <2>1. /\ Turn(q) /\ event' = [event EXCEPT ![q] = "end"]
        /\ due' = [due EXCEPT ![q] = AirTime[q]]
        /\ ready' = [ready EXCEPT ![Sender[q]] = AirTime[q] * Period]
        /\ fresh' = fresh \union {q}
    BY <1>4 DEF Transmit
  <2>2. OnAir' = OnAir \union {q}
    BY <2>1 DEF OnAir, TypeOK
  <2>3. CASE Served(r)
    BY <2>2, <2>3 DEF Served
  <2>4. CASE Unserved(r) /\ Sender[q] = Sender[r]
    <3>1. Before(q, r) /\ Urgency[q] \in Nat /\ Urgency[r] \in Nat
      BY <1>2, <2>1, <2>4, Numbers DEF Turn, Unserved
    <3>2. Urgency[q] >= Urgency[r]
      BY <3>1 DEF Before
    <3> QED BY <2>2, <2>4, <3>2 DEF Served
  <2>5. CASE Unserved(r) /\ Sender[q] # Sender[r]
    <3>1. event'[r] = event[r] /\ due'[r] = due[r] /\ ready'[Sender[r]] = ready[Sender[r]]
      BY <1>2, <2>1, <2>5, Numbers DEF TypeOK
    <3>2. r \in Now("start")' /\ ready'[Sender[r]] = 0
      BY <1>2, <2>5, <3>1 DEF Unserved, Now
    <3>3. Sensed(r)' = {}
      BY <1>1, <2>1, <2>2, <2>5 DEF Unserved, Sensed
    <3> QED BY <3>2, <3>3 DEF Unserved
  <2> QED BY <1>2, <2>3, <2>4, <2>5
<1> QED BY <1>3, <1>4

LEMMA NextServes == TypeOK /\ TurnsKept /\ [Next]_vars => TurnsKept'
<1> SUFFICES ASSUME TypeOK, TurnsKept, [Next]_vars PROVE TurnsKept'
  OBVIOUS
<1>1. CASE BeginStarts
  <2>1. /\ stage' = "starts" /\ fresh = {} /\ entitled' = {r \in Now("start") : Unhindered(r)}
        /\ UNCHANGED <<event, due, ready, up, fresh>>
    BY <1>1 DEF BeginStarts, TurnsKept
  <2>2. ASSUME NEW r \in entitled' PROVE up'[Sender[r]] /\ Unserved(r)'
    <3>1. r \in Now("start") /\ Unhindered(r)
      BY <2>1, <2>2
    <3>2. Sensed(r)' = Sensed(r) /\ Now("start")' = Now("start")
      BY <2>1 DEF Sensed, Now, OnAir
    <3>3. Sensed(r) = {}
      BY <3>1 DEF Sensed, Unhindered
    <3> QED BY <2>1, <3>1, <3>2, <3>3 DEF Unserved, Unhindered
  <2> QED BY <2>1, <2>2 DEF TurnsKept
<1>2. ASSUME NEW q \in Requests, _start(q) PROVE TurnsKept'
  BY <1>2, StartServes
<1>3. CASE \/ Advance \/ _interference
           \/ \E n \in Nodes : Switch(n)
           \/ \E q \in Requests : schedule(q) \/ _end(q) \/ _complete(q)
  <2>1. entitled' = {} /\ stage' # "starts" /\ (stage' = "events" => fresh' = {})
    BY <1>3 DEF Advance, _interference, Switch, schedule, _end, _complete, TurnsKept
  <2> QED BY <2>1 DEF TurnsKept
<1>4. CASE UNCHANGED vars
  BY <1>4 DEF vars, TurnsKept, Unserved, Served, Sensed, Now, OnAir
<1> QED BY <1>1, <1>2, <1>3, <1>4 DEF Next, step

(* Contenders of one instant do not silence one another: each node that    *)
(* nothing else holds back goes on the air, with its most urgent frame,    *)
(* for any number of nodes and frames.                                     *)
THEOREM ContendersAreServed == Spec => []FreeChannelServesAll
<1>1. Init => TurnsKept
  BY DEF Init, TurnsKept
<1>2. TurnsKept => FreeChannelServesAll
  BY DEF TurnsKept, FreeChannelServesAll, Unserved, Served
<1> QED BY <1>1, <1>2, TypeCorrect, NextServes, PTL DEF Spec
-----------------------------------------------------------------------------
(* Why the radio's events come to an end (process_queues steps it until    *)
(* none is pending, drain() until a limit).  Every action of step() brings *)
(* one request further, in its attempts, its backoffs or its life; or      *)
(* postpones one to the instant its transceiver is free, where it cannot   *)
(* be postponed again before another frame of its node went on the air; or *)
(* takes the clock round, which needs an event in every round.             *)
Phase == [new |-> 0, start |-> 1, end |-> 2, complete |-> 3, gone |-> 4]

Rises(r) ==
  \/ attempt'[r] > attempt[r]
  \/ attempt'[r] = attempt[r] /\ backoffs'[r] > backoffs[r]
  \/ attempt'[r] = attempt[r] /\ backoffs'[r] = backoffs[r] /\ Phase[event'[r]] > Phase[event[r]]

Stays(r) == attempt'[r] = attempt[r] /\ backoffs'[r] = backoffs[r] /\ event'[r] = event[r]

Blocked == {r \in Requests : event[r] = "start" /\ due[r] < ready[Sender[r]]}

SomethingDue == \E r \in Waiting : due[r] = 0

Lap ==
  CASE stage = "idle" -> 2
    [] stage = "events" -> IF SomethingDue THEN 1 ELSE 4
    [] stage = "starts" -> IF Now("start") = {} THEN 3 ELSE 0

RadioDescends ==
  step =>
    \/ \E r \in Requests : Rises(r) /\ \A q \in Requests \ {r} : Stays(q)
    \/ /\ \A q \in Requests : Stays(q)
       /\ \/ Blocked' \subseteq Blocked /\ Blocked' # Blocked
          \/ Blocked' = Blocked /\ Lap' < Lap

LEMMA LapIsNumber == ASSUME TypeOK PROVE Lap \in 0..4
BY DEF Lap, TypeOK

(* A round of the clock: nobody is brought further, nor postponed.         *)
LEMMA LapDescends ==
  ASSUME TypeOK, TypeOK', Advance \/ BeginStarts \/ _interference
  PROVE  /\ \A q \in Requests : Stays(q)
         /\ Blocked' = Blocked /\ Lap' < Lap
<1>1. \A q \in Requests : Stays(q)
  BY DEF Advance, BeginStarts, _interference, Stays
<1>2. CASE Advance
  <2>1. PICK r \in Waiting :
          /\ \A q \in Waiting : due[r] <= due[q]
          /\ due' = [q \in Requests |-> IF q \in Waiting THEN due[q] - due[r] ELSE due[q]]
          /\ ready' = [n \in Nodes |-> IF ready[n] > due[r] THEN ready[n] - due[r] ELSE 0]
    BY <1>2 DEF Advance
  <2>2. /\ stage = "idle" /\ stage' = "events" /\ event' = event
        /\ r \in Requests /\ due[r] \in Nat
    BY <1>2 DEF Advance, Waiting, TypeOK
  <2>3. due'[r] = 0 /\ r \in Waiting'
    BY <2>1, <2>2 DEF Waiting
  <2>4. Lap = 2 /\ Lap' = 1
    BY <2>2, <2>3 DEF Lap, SomethingDue
  <2>5. ASSUME NEW q \in Requests, event[q] = "start"
        PROVE  due'[q] < ready'[Sender[q]] <=> due[q] < ready[Sender[q]]
    <3>1. /\ q \in Waiting /\ Sender[q] \in Nodes /\ due[q] \in Nat
          /\ ready[Sender[q]] \in Nat
      BY <2>5, Numbers DEF Waiting, TypeOK
    <3>2. /\ due'[q] = due[q] - due[r] /\ due[r] <= due[q]
          /\ ready'[Sender[q]] = IF ready[Sender[q]] > due[r] THEN ready[Sender[q]] - due[r] ELSE 0
      BY <2>1, <3>1
    <3> QED BY <2>2, <3>1, <3>2
  <2>6. Blocked' = Blocked
    BY <2>2, <2>5 DEF Blocked
  <2> QED BY <1>1, <2>4, <2>6
<1>3. CASE BeginStarts
  <2>1. /\ stage = "events" /\ stage' = "starts" /\ event' = event /\ due' = due
        /\ ready' = ready /\ Now("end") = {} /\ Now("complete") = {}
    BY <1>3 DEF BeginStarts
  <2>2. Now("start")' = Now("start")
    BY <2>1 DEF Now
  <2>3. SomethingDue => Now("start") # {}
    BY <2>1 DEF SomethingDue, Waiting, Now
  <2>4. Lap' < Lap
    BY <2>1, <2>2, <2>3 DEF Lap
  <2> QED BY <1>1, <2>1, <2>4 DEF Blocked
<1>4. CASE _interference
  <2>1. /\ stage = "starts" /\ stage' = "idle" /\ Now("start") = {}
        /\ event' = event /\ due' = due /\ ready' = ready
    BY <1>4 DEF _interference
  <2>2. Lap = 3 /\ Lap' = 2
    BY <2>1 DEF Lap
  <2> QED BY <1>1, <2>1, <2>2 DEF Blocked
<1> QED BY <1>2, <1>3, <1>4

(* A start: given up, postponed, backed off or on the air.                 *)
LEMMA StartDescends ==
  ASSUME TypeOK, NEW r \in Requests, _start(r)
  PROVE  \/ Rises(r) /\ \A q \in Requests \ {r} : Stays(q)
         \/ /\ \A q \in Requests : Stays(q)
            /\ Blocked' \subseteq Blocked /\ Blocked' # Blocked
<1>1. /\ event[r] = "start" /\ due[r] = 0
      /\ event \in [Requests -> Events] /\ due \in [Requests -> Nat]
      /\ backoffs \in [Requests -> 0..MaxBackoffs] /\ attempt' = attempt
  BY DEF _start, StartInactive, StartDeferred, StartBusy, Transmit, Turn, Now, TypeOK
<1>2. CASE StartInactive(r)
  <2>1. event' = [event EXCEPT ![r] = "gone"] /\ backoffs' = backoffs
    BY <1>2 DEF StartInactive, Cancel
  <2>2. Rises(r)
    BY <1>1, <2>1 DEF Rises, Phase
  <2> QED BY <1>1, <2>1, <2>2 DEF Stays
<1>3. CASE Transmit(r)
  <2>1. event' = [event EXCEPT ![r] = "end"] /\ backoffs' = backoffs
    BY <1>3 DEF Transmit
  <2>2. Rises(r)
    BY <1>1, <2>1 DEF Rises, Phase
  <2> QED BY <1>1, <2>1, <2>2 DEF Stays
<1>4. CASE StartBusy(r) /\ GivesUp(r)
  <2>1. event' = [event EXCEPT ![r] = "gone"] /\ backoffs' = backoffs
    BY <1>4 DEF StartBusy, Cancel
  <2>2. Rises(r)
    BY <1>1, <2>1 DEF Rises, Phase
  <2> QED BY <1>1, <2>1, <2>2 DEF Stays
<1>5. CASE StartBusy(r) /\ ~GivesUp(r)
  <2>1. event' = event /\ backoffs' = [backoffs EXCEPT ![r] = @ + 1]
    BY <1>5 DEF StartBusy
  <2>2. backoffs[r] \in Nat /\ backoffs'[r] = backoffs[r] + 1
    BY <1>1, <2>1
  <2>3. Rises(r)
    BY <1>1, <2>2 DEF Rises
  <2> QED BY <1>1, <2>1, <2>3 DEF Stays
<1>6. CASE StartDeferred(r)
  <2>1. /\ ready[Sender[r]] > 0 /\ due' = [due EXCEPT ![r] = ready[Sender[r]]]
        /\ event' = event /\ backoffs' = backoffs /\ ready' = ready
    BY <1>6 DEF StartDeferred
  <2>2. ready[Sender[r]] \in Nat
    BY Numbers DEF TypeOK
  <2>3. r \in Blocked /\ r \notin Blocked'
    BY <1>1, <2>1, <2>2 DEF Blocked
  <2>4. Blocked' \subseteq Blocked
    <3> SUFFICES ASSUME NEW q \in Blocked' PROVE q \in Blocked
      OBVIOUS
    <3>1. q \in Requests /\ q # r
      BY <2>3 DEF Blocked
    <3> QED BY <1>1, <2>1, <3>1 DEF Blocked
  <2> QED BY <1>1, <2>1, <2>3, <2>4 DEF Stays
<1> QED BY <1>2, <1>3, <1>4, <1>5, <1>6 DEF _start

(* The attempts, backoffs and phases of the requests are bounded           *)
(* (TypeCorrect), so that no sequence of the radio's own steps is infinite,*)
(* whatever is sensed, lost, submitted or switched off between them.       *)
THEOREM RadioRunsDescend == Spec => [][RadioDescends]_vars
<1>1. TypeOK /\ TypeOK' => [RadioDescends]_vars
  <2> SUFFICES ASSUME TypeOK, TypeOK', step PROVE RadioDescends
    BY DEF RadioDescends
  <2>1. CASE Advance \/ BeginStarts \/ _interference
    BY <2>1, LapDescends DEF RadioDescends
  <2>2. ASSUME NEW r \in Requests, _end(r) PROVE RadioDescends
    <3>1. /\ event[r] = "end" /\ event' = [event EXCEPT ![r] = "complete"]
          /\ attempt' = attempt /\ backoffs' = backoffs
      BY <2>2 DEF _end, Now
    <3>2. Rises(r)
      BY <3>1 DEF Rises, Phase, TypeOK
    <3> QED BY <3>1, <3>2 DEF Stays, RadioDescends, TypeOK
  <2>3. ASSUME NEW r \in Requests, _complete(r) PROVE RadioDescends
    <3>1. CASE Retryable(r)
      <4>1. /\ attempt' = [attempt EXCEPT ![r] = attempt[r] + 1]
            /\ backoffs' = [backoffs EXCEPT ![r] = 0]
            /\ event' = [event EXCEPT ![r] = "start"]
        BY <2>3, <3>1 DEF _complete, NextAttempt
      <4>2. attempt[r] \in Nat /\ attempt'[r] = attempt[r] + 1
        BY <4>1 DEF TypeOK
      <4>3. Rises(r)
        BY <4>2 DEF Rises
      <4> QED BY <4>1, <4>3 DEF Stays, RadioDescends
    <3>2. CASE ~Retryable(r)
      <4>1. /\ event[r] = "complete" /\ event' = [event EXCEPT ![r] = "gone"]
            /\ attempt' = attempt /\ backoffs' = backoffs
        BY <2>3, <3>2 DEF _complete, Now
      <4>2. Rises(r)
        BY <4>1 DEF Rises, Phase, TypeOK
      <4> QED BY <4>1, <4>2 DEF Stays, RadioDescends
    <3> QED BY <3>1, <3>2
  <2>4. ASSUME NEW r \in Requests, _start(r) PROVE RadioDescends
    BY <2>4, StartDescends DEF RadioDescends
  <2> QED BY <2>1, <2>2, <2>3, <2>4 DEF step
<1> QED BY <1>1, TypeCorrect, PTL
=============================================================================
