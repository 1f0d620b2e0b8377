------------------------------ MODULE MeshEdits ------------------------------
(***************************************************************************)
(* RouteControl in a mesh that the network builder edits: nodes are        *)
(* deleted and placed again between control runs (network_builder.py,      *)
(* add_node and remove_node of simulator.py).                              *)
(*                                                                         *)
(* A deleted node takes its tables, its sequence numbers and its duplicate *)
(* cache with it, but the caches of the others still hold the packets of   *)
(* its name.  A node placed under that name (next_available_node_id hands  *)
(* out the first free one) counts its packets from 1 again, so that the    *)
(* others take its first packets for duplicates.  This module numbers the  *)
(* control packets and heartbeats; a cache remembers numbers up to Cached. *)
(*                                                                         *)
(* A name that is not in the mesh is a node of RouteControl that is down   *)
(* and has no tables.                                                      *)
(***************************************************************************)
EXTENDS RouteControl

CONSTANTS
  Fallible,  \* bound of the model: nodes whose radio may fail
  Editable,  \* names that may be deleted and placed again
  Cached,    \* bound of the model: packet numbers a duplicate cache can hold
  MaxEdits   \* bound of the model: deletions

ASSUME EditAssumption ==
  /\ Fallible \subseteq Nodes /\ Editable \subseteq Nodes
  /\ Cached \in Nat /\ MaxEdits \in Nat
  /\ Lossy = {}

VARIABLES
  member,   \* nodes of the simulator
  issued,   \* _sequence of each node, up to Cached
  seen,     \* recent_packet_cache: seen[n][m], numbers of m's packets n holds
  dups,     \* frames on their way to each node that it will find in its cache
  muted,    \* a frame was taken for a duplicate since the last discovery
  edits,    \* deletions so far
  downFor      \* history: steps each node has been failed or deleted, up to Deadline

caches == <<member, issued, seen, dups, muted, edits>>
meshVars == <<vars, caches>>
editVars == <<meshVars, downFor>>

EditInit ==
  /\ Init
  /\ member = Nodes
  /\ issued = [n \in Nodes |-> 0]
  /\ seen = [n \in Nodes |-> [m \in Nodes |-> {}]]
  /\ dups = [n \in Nodes |-> {}]
  /\ muted = FALSE
  /\ edits = 0
  /\ downFor = [n \in Nodes |-> 0]

-----------------------------------------------------------------------------
(* Packet numbers (node.py next_sequence, packets.py DuplicateCache).      *)

Issue(count) == [n \in Nodes |-> IF issued[n] + count[n] > Cached THEN Cached
                                 ELSE issued[n] + count[n]]

(* What n broadcasts in the next round, with or without a neighbour, and   *)
(* the number of one of these packets, in the order they are sent.         *)
Broadcasts(n) ==
  IF up[n]
  THEN {[kind |-> "RERR", from |-> n, dest |-> e.dest] : e \in {x \in ctl.errs : x.from = n}}
         \union (IF n \in ctl.todo THEN advertisements_for(n, 0) ELSE {})
  ELSE {}

Numbered(f) == issued[f.from] + Cardinality({g \in Broadcasts(f.from) : Earlier(g, f)})

-----------------------------------------------------------------------------
(* remove_node: the others drop the node as neighbour and as destination,  *)
(* not as the next hop of other routes, nor its candidates; then           *)
(* recalculate_routes.                                                     *)
remove_node(x) ==
  /\ ctl.phase = "idle"
  /\ x \in member \intersect Editable
  /\ edits < MaxEdits
  /\ \A m \in Nodes : up[m] => seq[m] < MaxSeq
  /\ member' = member \ {x}
  /\ up' = [up EXCEPT ![x] = FALSE]
  /\ penalty' = [penalty EXCEPT ![x] = 0]
  /\ heard' = [n \in Nodes |-> [m \in Nodes |->
                 IF x \in {n, m} THEN Absent ELSE heard[n][m]]]
  /\ cand' = {c \in cand : c.at # x}
  /\ route' = [n \in Nodes |-> [d \in Nodes |->
                 IF x \in {n, d} THEN NoRoute ELSE route[n][d]]]
  /\ seq' = [m \in Nodes |-> IF m = x THEN 0 ELSE IF up[m] THEN seq[m] + 1 ELSE seq[m]]
  /\ EnterControl({m \in Nodes : up'[m]}, pendErr)
  /\ issued' = [issued EXCEPT ![x] = 0]
  /\ seen' = [seen EXCEPT ![x] = [m \in Nodes |-> {}]]
  /\ edits' = edits + 1
  /\ UNCHANGED <<inbox, pendAdv, sinceAdv, dups, muted>>

(* Placing a node of a free name: add_node, then discover_neighbors.       *)
add_node(x) ==
  /\ ctl.phase = "idle"
  /\ x \notin member
  /\ \A n \in Nodes : seq[n] < MaxSeq
  /\ member' = member \union {x}
  /\ up' = [up EXCEPT ![x] = TRUE]
  /\ Rediscover(up')
  /\ EnterControl(Nodes, pendErr)
  /\ muted' = FALSE
  /\ UNCHANGED <<penalty, inbox, pendAdv, sinceAdv, issued, seen, dups, edits>>

Discovery ==
  /\ discover_neighbors \/ \E n \in member : recover_communication(n)
  /\ muted' = FALSE
  /\ UNCHANGED <<member, issued, seen, dups, edits>>

Operation ==
  /\ \E n \in member : \/ n \in Fallible /\ fail_communication(n)
                       \/ \E p \in Penalties : recalculate_routes(n, p)
  /\ UNCHANGED caches

(* A step sends one heartbeat per working node; whoever heard it has its   *)
(* number in the cache.                                                    *)
Heartbeats ==
  /\ _step
  /\ issued' = Issue([n \in Nodes |-> IF up[n] THEN 1 ELSE 0])
  /\ seen' = [n \in Nodes |-> [m \in Nodes |->
                IF heard'[n][m] = 0
                THEN seen[n][m] \union ({issued[m] + 1} \intersect 1..Cached)
                ELSE seen[n][m]]]
  /\ UNCHANGED <<member, dups, muted, edits>>

(* The broadcasts of a round, numbered in the order they are sent.         *)
NumberedRound ==
  /\ Round
  /\ issued' = Issue([m \in Nodes |-> Cardinality(Broadcasts(m))])
  /\ dups' = [n \in Nodes |-> {f \in inbox'[n] : Numbered(f) \in seen[n][f.from]}]
  /\ seen' = [n \in Nodes |-> [m \in Nodes |->
                seen[n][m] \union ({Numbered(f) : f \in {g \in inbox'[n] : g.from = m}}
                                     \intersect 1..Cached)]]
  /\ UNCHANGED <<member, muted, edits>>

(* A frame that is found in the cache has refreshed the neighbour already. *)
Suppress(n, m) ==
  /\ m \in dups[n]
  /\ Arrives(n, m)
  /\ heard' = HeardFrom(n, m.from)
  /\ dups' = [dups EXCEPT ![n] = @ \ {m}]
  /\ muted' = TRUE
  /\ UNCHANGED <<up, seq, penalty, cand, route, pendAdv, pendErr, sinceAdv, ctl,
                 member, issued, seen, edits>>

Receive ==
  \E n \in Nodes : \E m \in inbox[n] :
     \/ Suppress(n, m)
     \/ m \notin dups[n] /\ Deliver(n, m) /\ UNCHANGED caches

EditExpiry == Expiry /\ UNCHANGED caches

EditControl ==
  \/ NumberedRound
  \/ Receive
  \/ (EndRound \/ Finish) /\ UNCHANGED caches

EditEnvironment ==
  \/ \E n \in Nodes : remove_node(n) \/ add_node(n)
  \/ Discovery
  \/ Operation

(* The steps for which what was learned of a node can outlive it: for each *)
(* hop it can make a lifetime, up to the expiry pass of the next step.     *)
Deadline == MaxHops * (RouteLifetime + 1)

Stepping == ctl.phase = "idle" /\ ctl'.phase = "expiring"

CountsSteps ==
  downFor' = [n \in Nodes |-> IF up'[n] THEN 0
                           ELSE IF Stepping /\ downFor[n] < Deadline THEN downFor[n] + 1
                           ELSE downFor[n]]

EditStep == EditEnvironment \/ Heartbeats \/ EditExpiry \/ EditControl

EditNext == EditStep /\ CountsSteps

(* The simulator's loop keeps stepping and every call runs to its end.     *)
EditSpec ==
  /\ EditInit /\ [][EditNext]_editVars
  /\ SF_meshVars(Heartbeats) /\ WF_meshVars(EditExpiry)
  /\ WF_inbox(\E n \in Nodes : \E m \in inbox[n] : Arrives(n, m))
  /\ WF_ctl(Round \/ EndRound \/ Finish)

-----------------------------------------------------------------------------
(* What an edit left behind does not last: once a node had its turn in an  *)
(* expiry pass, every route it keeps rests on a candidate of a present     *)
(* neighbour, and none that could be selected is missing or newer.         *)
ExpiryRepairs ==
  ctl.phase = "expiring" =>
    \A n \in Nodes \ ctl.left : \A d \in Nodes : Backed(n, d, route[n][d], cand, heard)

(* A node that failed or was deleted is out of every table by a deadline.  *)
(* The survivors take up each other's routes to it and advertise them, and *)
(* process_advertisement gives what is accepted a new lifetime, so that a  *)
(* dead destination outlives its own lifetime; but each time it has made   *)
(* one hop more, and the hops are limited.                                 *)
DeadAreForgotten ==
  ctl.phase # "expiring" =>
    \A d \in Nodes : downFor[d] = Deadline => \A n \in Nodes : route[n][d] = NoRoute
=============================================================================
