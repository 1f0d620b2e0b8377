------------------------------ MODULE EventRadio ------------------------------
(***************************************************************************)
(* The shared radio channel of event mode (EventRadio, event_radio.py):    *)
(* one heap of start, end and completion events for the frames of every    *)
(* transmitter.  step() takes all events of the next instant, ends before  *)
(* completions before starts, and then evaluates interference.             *)
(*                                                                         *)
(* A request has at most one event in the heap, so the heap is modelled as *)
(* what each request waits for and in how many ticks.  Powers are data:    *)
(* whether an emission is sensed, lost or captured is left open.  All      *)
(* frames use one profile, as those of simulator.py do.                    *)
(***************************************************************************)
EXTENDS Integers, FiniteSets

CONSTANTS
  Nodes,         \* node identifiers, numbers so that they are ordered
  Requests,      \* identifiers of transmission requests, in submission order
  Sender,        \* the sender of each request
  Receivers,     \* the receivers of each request
  Urgency,       \* the packet priority of each request
  Unicast,       \* the requests made with retry = True
  AirTime,       \* time on air of each request's frame
  Period,        \* 1 / duty_cycle
  Processing,    \* transmission_delay_s
  RetryDelay,    \* retry_delay_s
  SubmitDelays,  \* initial random backoffs
  MaxBackoffs,   \* max_backoffs
  MaxRetries,    \* max_retries
  MaxExponent    \* cap of the exponential backoff (10 in the code)

ASSUME RadioAssumption ==
  /\ Nodes \subseteq Nat /\ Requests \subseteq Nat /\ IsFiniteSet(Requests)
  /\ Sender \in [Requests -> Nodes]
  /\ Receivers \in [Requests -> SUBSET Nodes]
  /\ \A r \in Requests : Receivers[r] # {} /\ Sender[r] \notin Receivers[r]
  /\ Urgency \in [Requests -> Nat]
  /\ Unicast \subseteq Requests
  /\ AirTime \in [Requests -> Nat \ {0}]
  /\ Period \in Nat \ {0}
  /\ Processing \in Nat /\ RetryDelay \in Nat
  /\ SubmitDelays \subseteq Nat
  /\ MaxBackoffs \in Nat /\ MaxRetries \in Nat /\ MaxExponent \in Nat

VARIABLES
  event,     \* what the heap holds for each request
  due,       \* ticks until then
  attempt,   \* Transmission.attempt
  backoffs,  \* Transmission.backoffs
  got,       \* the receivers whose observation says delivered
  ready,     \* _next_tx: ticks until a node may transmit again
  up,        \* communication_available of each node
  stage,     \* where step() is
  fresh,     \* the requests whose emission began in this step
  heardFrom, \* history: nodes that transmitted during a request's emission
  copies,    \* history: results reported to the caller as delivered
  entitled   \* history: the starts of this instant that nothing holds back

vars == <<event, due, attempt, backoffs, got, ready, up, stage, fresh,
          heardFrom, copies, entitled>>

Events == {"new", "start", "end", "complete", "gone"}

OnAir == {r \in Requests : event[r] = "end"}
Waiting == {r \in Requests : event[r] \in {"start", "end", "complete"}}
Now(kind) == {r \in Requests : event[r] = kind /\ due[r] = 0}

-----------------------------------------------------------------------------
Init ==
  /\ event = [r \in Requests |-> "new"]
  /\ due = [r \in Requests |-> 0]
  /\ attempt = [r \in Requests |-> 0]
  /\ backoffs = [r \in Requests |-> 0]
  /\ got = [r \in Requests |-> {}]
  /\ ready = [n \in Nodes |-> 0]
  /\ up = [n \in Nodes |-> TRUE]
  /\ stage = "idle"
  /\ fresh = {}
  /\ heardFrom = [r \in Requests |-> {}]
  /\ copies = [r \in Requests |-> 0]
  /\ entitled = {}

(* A new request enters the heap, between two steps.                       *)
schedule(r) ==
  /\ stage = "idle"
  /\ event[r] = "new"
  /\ \A q \in Requests : q < r => event[q] # "new"
  /\ event' = [event EXCEPT ![r] = "start"]
  /\ \E d \in SubmitDelays : due' = [due EXCEPT ![r] = d]
  /\ UNCHANGED <<attempt, backoffs, got, ready, up, stage, fresh, heardFrom, copies, entitled>>

(* A radio fails or recovers between two steps.                            *)
Switch(n) ==
  /\ stage = "idle"
  /\ up' = [up EXCEPT ![n] = ~@]
  /\ UNCHANGED <<event, due, attempt, backoffs, got, ready, stage, fresh, heardFrom, copies, entitled>>

(* step() begins: the clock moves to the next event.                       *)
Advance ==
  /\ stage = "idle"
  /\ \E r \in Waiting :
       /\ \A q \in Waiting : due[r] <= due[q]
       /\ due' = [q \in Requests |-> IF q \in Waiting THEN due[q] - due[r] ELSE due[q]]
       /\ ready' = [n \in Nodes |-> IF ready[n] > due[r] THEN ready[n] - due[r] ELSE 0]
  /\ stage' = "events"
  /\ fresh' = {}
  /\ UNCHANGED <<event, attempt, backoffs, got, up, heardFrom, copies, entitled>>

_end(r) ==
  /\ stage = "events"
  /\ r \in Now("end")
  /\ event' = [event EXCEPT ![r] = "complete"]
  /\ due' = [due EXCEPT ![r] = Processing]
  /\ got' = [got EXCEPT ![r] = IF up[Sender[r]] THEN {n \in @ : up[n]} ELSE {}]
  /\ UNCHANGED <<attempt, backoffs, ready, up, stage, fresh, heardFrom, copies, entitled>>

Slots(k) == 1..(2 ^ (IF k < MaxExponent THEN k ELSE MaxExponent))

(* What _complete finds delivered, and whether it tries the frame again.   *)
Received(r) == {n \in got[r] : up[n]}

Retryable_Always(r) ==
  /\ r \in Unicast /\ Cardinality(Receivers[r]) = 1
  /\ up[Sender[r]]
  /\ attempt[r] < MaxRetries

Retryable(r) ==
  /\ r \in Unicast /\ Cardinality(Receivers[r]) = 1
  /\ Received(r) = {}
  /\ up[Sender[r]]
  /\ attempt[r] < MaxRetries

NextAttempt_SameAgain(r) == attempt[r]

NextAttempt(r) == attempt[r] + 1

_complete(r) ==
  /\ stage = "events"
  /\ Now("end") = {}
  /\ r \in Now("complete")
  /\ copies' = [copies EXCEPT ![r] = IF Received(r) = {} THEN @ ELSE @ + 1]
  /\ got' = [got EXCEPT ![r] = {}]
  /\ heardFrom' = [heardFrom EXCEPT ![r] = {}]
  /\ IF Retryable(r)
     THEN /\ attempt' = [attempt EXCEPT ![r] = NextAttempt(r)]
          /\ backoffs' = [backoffs EXCEPT ![r] = 0]
          /\ event' = [event EXCEPT ![r] = "start"]
          /\ \E s \in Slots(attempt'[r] + 1) : due' = [due EXCEPT ![r] = RetryDelay + s]
     ELSE /\ event' = [event EXCEPT ![r] = "gone"]
          /\ UNCHANGED <<due, attempt, backoffs>>
  /\ UNCHANGED <<ready, up, stage, fresh, entitled>>

-----------------------------------------------------------------------------
(* The starts of the instant, all sensing the channel as it was before any *)
(* of them; more urgent first, then by sender and by submission.           *)
Unhindered(r) ==
  /\ up[Sender[r]] /\ ready[Sender[r]] = 0
  /\ \A f \in OnAir : up[Sender[f]] => Sender[f] = Sender[r]

BeginStarts ==
  /\ stage = "events"
  /\ Now("end") = {} /\ Now("complete") = {}
  /\ stage' = "starts"
  /\ entitled' = {r \in Now("start") : Unhindered(r)}
  /\ UNCHANGED <<event, due, attempt, backoffs, got, ready, up, fresh, heardFrom, copies>>

Before(r, q) ==
  \/ Urgency[r] > Urgency[q]
  \/ Urgency[r] = Urgency[q] /\ Sender[r] < Sender[q]
  \/ Urgency[r] = Urgency[q] /\ Sender[r] = Sender[q] /\ r <= q

Turn(r) ==
  /\ stage = "starts"
  /\ r \in Now("start")
  /\ \A q \in Now("start") : Before(r, q)

(* The emissions a contender may sense, if they reach it strongly enough:  *)
(* others', by radios that work.                                           *)
Sensed_Live(r) == {f \in OnAir : Sender[f] # Sender[r] /\ up[Sender[f]]}

Sensed(r) == {f \in OnAir \ fresh : Sender[f] # Sender[r] /\ up[Sender[f]]}

Cancel(r) == event' = [event EXCEPT ![r] = "gone"] /\ UNCHANGED <<due, backoffs>>

(* _start, on a failed sender: the request is given up.                    *)
StartInactive(r) ==
  /\ Turn(r)
  /\ ~up[Sender[r]]
  /\ Cancel(r)
  /\ UNCHANGED <<attempt, got, ready, up, stage, fresh, heardFrom, copies, entitled>>

(* _start, while the sender's transceiver is taken: deferred.              *)
StartDeferred(r) ==
  /\ Turn(r)
  /\ up[Sender[r]]
  /\ ready[Sender[r]] > 0
  /\ due' = [due EXCEPT ![r] = ready[Sender[r]]]
  /\ UNCHANGED <<event, attempt, backoffs, got, ready, up, stage, fresh, heardFrom, copies, entitled>>

GivesUp(r) == backoffs[r] >= MaxBackoffs

(* _start, on a channel sensed busy: random backoff, up to a limit.        *)
StartBusy(r) ==
  /\ Turn(r)
  /\ up[Sender[r]]
  /\ ready[Sender[r]] = 0
  /\ Sensed(r) # {}
  /\ IF GivesUp(r)
     THEN Cancel(r)
     ELSE /\ backoffs' = [backoffs EXCEPT ![r] = @ + 1]
          /\ \E s \in Slots(backoffs'[r] + attempt[r] + 1) : due' = [due EXCEPT ![r] = s]
          /\ UNCHANGED event
  /\ UNCHANGED <<attempt, got, ready, up, stage, fresh, heardFrom, copies, entitled>>

(* _start, on the air: the working receivers, less the background losses,  *)
(* begin to receive.                                                       *)
Transmit_NotSerialized(r) ==
  /\ Turn(r)
  /\ up[Sender[r]]
  /\ ready[Sender[r]] = 0
  /\ event' = [event EXCEPT ![r] = "end"]
  /\ due' = [due EXCEPT ![r] = AirTime[r]]
  /\ \E heard \in SUBSET {n \in Receivers[r] : up[n]} : got' = [got EXCEPT ![r] = heard]
  /\ fresh' = fresh \union {r}
  /\ UNCHANGED <<attempt, backoffs, ready, up, stage, heardFrom, copies, entitled>>

Transmit(r) ==
  /\ Turn(r)
  /\ up[Sender[r]]
  /\ ready[Sender[r]] = 0
  /\ event' = [event EXCEPT ![r] = "end"]
  /\ due' = [due EXCEPT ![r] = AirTime[r]]
  /\ ready' = [ready EXCEPT ![Sender[r]] = AirTime[r] * Period]
  /\ \E heard \in SUBSET {n \in Receivers[r] : up[n]} : got' = [got EXCEPT ![r] = heard]
  /\ fresh' = fresh \union {r}
  /\ UNCHANGED <<attempt, backoffs, up, stage, heardFrom, copies, entitled>>

_start(r) == StartInactive(r) \/ StartDeferred(r) \/ StartBusy(r) \/ Transmit(r)

-----------------------------------------------------------------------------
(* _interference, at the end of step(): a receiver that transmits hears    *)
(* nothing; one reached by another working radio's emission may lose the   *)
(* frame (or capture it, if it works itself).                              *)
Talking == {Sender[f] : f \in OnAir}

Others(r) == {f \in OnAir \ {r} : up[Sender[f]]}

Overheard ==
  [r \in Requests |->
     IF r \in OnAir THEN heardFrom[r] \union {Sender[f] : f \in OnAir \ {r}}
     ELSE heardFrom[r]]

_interference_FreshOnly ==
  /\ stage = "starts"
  /\ Now("start") = {}
  /\ \E kept \in [OnAir -> SUBSET Nodes] :
       /\ \A r \in OnAir :
            /\ kept[r] \subseteq (IF r \in fresh THEN got[r] \ Talking ELSE got[r])
            /\ Others(r) = {} => got[r] \ Talking \subseteq kept[r]
            /\ {n \in got[r] \ Talking : ~up[n]} \subseteq kept[r]
       /\ got' = [r \in Requests |-> IF r \in OnAir THEN kept[r] ELSE got[r]]
  /\ heardFrom' = Overheard
  /\ stage' = "idle"
  /\ entitled' = {}
  /\ UNCHANGED <<event, due, attempt, backoffs, ready, up, fresh, copies>>

_interference ==
  /\ stage = "starts"
  /\ Now("start") = {}
  /\ \E kept \in [OnAir -> SUBSET Nodes] :
       /\ \A r \in OnAir :
            /\ kept[r] \subseteq got[r] \ Talking
            /\ Others(r) = {} => got[r] \ Talking \subseteq kept[r]
            /\ {n \in got[r] \ Talking : ~up[n]} \subseteq kept[r]
       /\ got' = [r \in Requests |-> IF r \in OnAir THEN kept[r] ELSE got[r]]
  /\ heardFrom' = Overheard
  /\ stage' = "idle"
  /\ entitled' = {}
  /\ UNCHANGED <<event, due, attempt, backoffs, ready, up, fresh, copies>>

step ==
  \/ Advance
  \/ \E r \in Requests : _end(r) \/ _complete(r) \/ _start(r)
  \/ BeginStarts
  \/ _interference

Next ==
  \/ \E r \in Requests : schedule(r)
  \/ \E n \in Nodes : Switch(n)
  \/ step

Spec == Init /\ [][Next]_vars

(* process_queues steps the radio for as long as it has events.            *)
FairSpec == Spec /\ WF_vars(step)

-----------------------------------------------------------------------------
(* Every variable has its type; attempts and backoffs keep their limits.   *)
TypeOK ==
  /\ event \in [Requests -> Events]
  /\ due \in [Requests -> Nat]
  /\ attempt \in [Requests -> 0..MaxRetries]
  /\ backoffs \in [Requests -> 0..MaxBackoffs]
  /\ got \in [Requests -> SUBSET Nodes]
  /\ ready \in [Nodes -> Nat]
  /\ up \in [Nodes -> BOOLEAN]
  /\ stage \in {"idle", "events", "starts"}
  /\ fresh \subseteq Requests
  /\ heardFrom \in [Requests -> SUBSET Nodes]
  /\ copies \in [Requests -> Nat]
  /\ entitled \subseteq Requests

(* A node has one transceiver: it never has two frames on the air, and it  *)
(* may not transmit again before the frame it has on the air has ended and *)
(* the duty cycle's silence after it is over.                              *)
OneTransceiver ==
  \A r \in OnAir :
    /\ \A q \in OnAir : Sender[q] = Sender[r] => q = r
    /\ ready[Sender[r]] >= due[r] + AirTime[r] * (Period - 1)

(* Half duplex over whole frames: a receiver that itself transmitted at    *)
(* any instant of a frame's time on air is never reported to have it, even *)
(* when it had begun to receive and the frame ends after its own.          *)
HalfDuplex == \A r \in Requests : stage = "idle" => got[r] \cap heardFrom[r] = {}

(* Retries do not duplicate: whatever fails and recovers between attempts, *)
(* a request is reported delivered at most once, and one that is not a     *)
(* unicast is not tried a second time.                                     *)
ServedOnce ==
  \A r \in Requests : copies[r] <= 1 /\ (r \notin Unicast => attempt[r] = 0)

(* What the invariants above rest on: the ends of an instant precede its   *)
(* starts, nothing is received or overheard but during an emission, and a  *)
(* request that was reported delivered is over.                            *)
Orderly ==
  /\ stage = "starts" => \A r \in OnAir : due[r] > 0
  /\ \A r \in Requests :
       /\ event[r] \in {"new", "start", "gone"} => got[r] = {} /\ heardFrom[r] = {}
       /\ got[r] \cap heardFrom[r] = {}
       /\ event[r] # "gone" => copies[r] = 0

(* The docstring of EventRadio: starts of the same step sense the same     *)
(* channel, so that submitting first gives no advantage.  Of the nodes     *)
(* that contend in one instant, each whose transceiver is free and that no *)
(* emission of another reaches is on the air when the instant is over,     *)
(* with the most urgent of its frames; the contenders do not silence one   *)
(* another.                                                                *)
FreeChannelServesAll ==
  stage = "starts" /\ Now("start") = {} =>
    \A r \in entitled : \E q \in OnAir :
      Sender[q] = Sender[r] /\ Urgency[q] >= Urgency[r]

(* No frame is silently kept: every request handed to the radio is in the  *)
(* end delivered, given up or retried to exhaustion, whatever its node's   *)
(* other frames, the other nodes and the faults do meanwhile.              *)
EveryFrameResolved ==
  \A r \in Requests : event[r] = "start" ~> event[r] = "gone"
=============================================================================
