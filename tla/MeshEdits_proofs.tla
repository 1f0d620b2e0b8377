--------------------------- MODULE MeshEdits_proofs ---------------------------
(***************************************************************************)
(* MeshEdits for every mesh and every number of edits: what an edit left   *)
(* behind in the tables is repaired by the next expiry pass.               *)
(*                                                                         *)
(* A deleted node leaves routes behind that nothing backs, and a node that *)
(* takes its name counts its sequences from 0 again, so neither            *)
(* RouteIsBacked nor NoFutureSequence of RouteControl survives an edit.    *)
(* What does survive: a route has some candidate, so that the pass selects *)
(* it anew, and the sequences in use are bounded, so that the selection    *)
(* finds a newest.                                                         *)
(*                                                                         *)
(* And what was learned of a node that is gone does not go round for ever: *)
(* every hop costs it at most one lifetime, and the hops are limited.      *)
(***************************************************************************)
EXTENDS MeshEdits, RouteControl_proofs

(* What an entry r of node n for d keeps through every edit.               *)
Supported(n, d, r, C, b) ==
  /\ r.seq <= b
  /\ r # NoRoute => \E c \in C : c.at = n /\ c.dest = d /\ c.hops = r.hops

(* No sequence in use is above b, and every entry is supported.            *)
BoundedBy(b) ==
  /\ \A n \in Nodes : seq[n] <= b
  /\ \A c \in cand : c.seq <= b
  /\ \A n, d \in Nodes : Supported(n, d, route[n][d], cand, b)
  /\ \A n \in Nodes : \A m \in inbox[n] : m.kind = "RA" => m.seq <= b

Supporting == \E b \in Nat : BoundedBy(b)

-----------------------------------------------------------------------------
(* Types: the three steps that RouteControl does not have.                 *)

LEMMA RemovalSound ==
  ASSUME Sound, NEW x \in Nodes, remove_node(x)
  PROVE  Sound'
<1> USE Numbers
<1>t. TypeOK /\ FramesTravelLinks
  BY DEF Sound
<1> DEFINE A == {m \in Nodes : up'[m]}
<1>1. /\ EnterControl(A, pendErr) /\ ctl.phase = "idle"
      /\ up' = [up EXCEPT ![x] = FALSE] /\ penalty' = [penalty EXCEPT ![x] = 0]
      /\ heard' = [n \in Nodes |-> [m \in Nodes |->
                     IF x \in {n, m} THEN Absent ELSE heard[n][m]]]
      /\ cand' = {c \in cand : c.at # x}
      /\ route' = [n \in Nodes |-> [d \in Nodes |->
                     IF x \in {n, d} THEN NoRoute ELSE route[n][d]]]
      /\ seq' = [m \in Nodes |-> IF m = x THEN 0 ELSE IF up[m] THEN seq[m] + 1 ELSE seq[m]]
      /\ UNCHANGED <<inbox, pendAdv, sinceAdv>>
  BY DEF remove_node
<1>2. ctl' \in Places /\ ctl'.phase = "rounds" /\ pendErr' \subseteq PendingError
  <2>1. A \in SUBSET Nodes /\ pendErr \in SUBSET PendingError
    BY <1>t DEF TypeOK
  <2> HIDE DEF A
  <2> QED BY <1>1, <2>1, EnteringFits
<1> HIDE DEF A
<1>3. /\ up' \in [Nodes -> BOOLEAN] /\ penalty' \in [Nodes -> Nat] /\ seq' \in [Nodes -> Nat]
      /\ heard' \in [Nodes -> [Nodes -> Ages]] /\ cand' \subseteq Candidate
      /\ route' \in [Nodes -> [Nodes -> Entries]]
  BY <1>1, <1>t DEF TypeOK, Ages, Entries
<1>4. \A k \in Nodes : inbox[k] = {}
  BY <1>1, <1>t DEF FramesTravelLinks
<1> QED BY <1>1, <1>2, <1>3, <1>4, <1>t
        DEF Sound, TypeOK, FramesTravelLinks, Ages, Entries, Places

LEMMA PlacingSound ==
  ASSUME Sound, NEW x \in Nodes, add_node(x)
  PROVE  Sound'
<1> USE Numbers
<1>t. TypeOK /\ FramesTravelLinks
  BY DEF Sound
<1>1. Rediscover(up') /\ EnterControl(Nodes, pendErr) /\ pendErr \subseteq PendingError
      /\ up' = [up EXCEPT ![x] = TRUE]
      /\ UNCHANGED <<penalty, inbox, pendAdv, sinceAdv>> /\ ctl.phase = "idle"
  BY <1>t DEF add_node, TypeOK
<1>2. ctl' \in Places /\ ctl'.phase = "rounds" /\ pendErr' \subseteq PendingError
  BY <1>1, EnteringFits
<1>3. /\ heard' \in [Nodes -> [Nodes -> Ages]] /\ cand' \subseteq Candidate
      /\ route' \in [Nodes -> [Nodes -> Entries]] /\ seq' \in [Nodes -> Nat]
  BY <1>1, <1>t, RediscoveryFits
<1>4. up' \in [Nodes -> BOOLEAN]
  BY <1>1, <1>t DEF TypeOK
<1>5. \A k \in Nodes : inbox[k] = {}
  BY <1>1, <1>t DEF FramesTravelLinks
<1> QED BY <1>1, <1>2, <1>3, <1>4, <1>5, <1>t
        DEF Sound, TypeOK, FramesTravelLinks, Ages, Entries, Places

LEMMA SuppressionSound ==
  ASSUME Sound, NEW n \in Nodes, NEW m \in inbox[n], Suppress(n, m)
  PROVE  Sound'
<1>t. TypeOK /\ FramesTravelLinks
  BY DEF Sound
<1>1. /\ Arrives(n, m) /\ heard' = HeardFrom(n, m.from)
      /\ UNCHANGED <<up, seq, penalty, cand, route, pendAdv, pendErr, sinceAdv, ctl>>
  BY DEF Suppress
<1>2. /\ inbox' \in [Nodes -> SUBSET (Advertisement \union RouteError)]
      /\ FramesTravelLinks'
      /\ heard' \in [Nodes -> [Nodes -> Ages]]
  BY <1>1, ArrivalSound
<1> QED BY <1>1, <1>2, <1>t DEF Sound, TypeOK, Ages

(* Every other step is one of RouteControl's.                              *)
LEMMA EditSteps ==
  ASSUME member \subseteq Nodes, EditNext
  PROVE  \/ \E x \in Nodes : remove_node(x) \/ add_node(x)
         \/ \E n \in Nodes : \E m \in inbox[n] : Suppress(n, m)
         \/ Next /\ member' = member
<1>1. CASE EditEnvironment
  <2>1. Discovery => Next /\ member' = member
    BY DEF Discovery, Next, Environment
  <2>2. Operation => Next /\ member' = member
    BY DEF Operation, Next, Environment, caches
  <2> QED BY <1>1, <2>1, <2>2 DEF EditEnvironment
<1>2. CASE Heartbeats
  BY <1>2 DEF Heartbeats, Next
<1>3. CASE EditExpiry
  BY <1>3 DEF EditExpiry, Next, caches
<1>4. CASE EditControl
  <2>1. CASE NumberedRound
    BY <2>1 DEF NumberedRound, Next, Control
  <2>2. CASE Receive
    BY <2>2 DEF Receive, Next, Control, caches
  <2>3. CASE (EndRound \/ Finish) /\ UNCHANGED caches
    BY <2>3 DEF Next, Control, caches
  <2> QED BY <1>4, <2>1, <2>2, <2>3 DEF EditControl
<1> QED BY <1>1, <1>2, <1>3, <1>4 DEF EditNext, EditStep

Correct == Sound /\ member \subseteq Nodes

LEMMA EditCorrect == Correct /\ [EditNext]_editVars => Correct'
<1> SUFFICES ASSUME Correct, [EditNext]_editVars PROVE Correct'
  OBVIOUS
<1>t. Sound /\ member \subseteq Nodes
  BY DEF Correct
<1>1. ASSUME NEW x \in Nodes, remove_node(x) PROVE Correct'
  BY <1>1, <1>t, RemovalSound DEF Correct, remove_node
<1>2. ASSUME NEW x \in Nodes, add_node(x) PROVE Correct'
  BY <1>2, <1>t, PlacingSound DEF Correct, add_node
<1>3. ASSUME NEW n \in Nodes, NEW m \in inbox[n], Suppress(n, m) PROVE Correct'
  BY <1>3, <1>t, SuppressionSound DEF Correct, Suppress
<1>4. CASE Next /\ member' = member
  BY <1>4, <1>t, NextSound DEF Correct
<1>5. CASE UNCHANGED editVars
  BY <1>5, <1>t DEF editVars, meshVars, vars, caches, Correct, Sound, TypeOK, FramesTravelLinks
<1> QED BY <1>1, <1>2, <1>3, <1>4, <1>5, <1>t, EditSteps

(* In a mesh that is edited, too, tables and frames keep their types: what *)
(* a deleted node leaves in the others' tables is of no other form.        *)
THEOREM EditsKeepTypes == EditSpec => []TypeOK
<1>1. EditInit => Correct
  BY InitSound DEF EditInit, Correct
<1>2. Correct => TypeOK
  BY DEF Correct, Sound
<1> QED BY <1>1, <1>2, EditCorrect, PTL DEF EditSpec

-----------------------------------------------------------------------------
(* The bound on the sequences, and what supports the entries.              *)

LEMMA SelectionSupported ==
  ASSUME NEW n \in Nodes, NEW d \in Nodes, NEW C \in SUBSET Candidate, NEW H,
         NEW b \in Nat, \A c \in C : c.seq <= b
  PROVE  Supported(n, d, _select_route(n, d, C, H), C, b)
<1> DEFINE S == Newest(Live(n, d, C, H))
           r == _select_route(n, d, C, H)
<1>1. r.seq <= b
  BY SelectionBounded
<1>2. /\ S \in SUBSET Candidate
      /\ \A c \in S : c \in C /\ c.at = n /\ c.dest = d
  BY DEF Newest, Live
<1>3. S = {} => r = NoRoute
  BY DEF _select_route, RouteOver
<1>4. S # {} => \E c \in S : c.hops = r.hops
  BY <1>2, RouteOverMember DEF _select_route
<1>5. r # NoRoute => \E c \in C : c.at = n /\ c.dest = d /\ c.hops = r.hops
  BY <1>2, <1>3, <1>4
<1> QED BY <1>1, <1>5 DEF Supported

LEMMA ReselectionSupported ==
  ASSUME TypeOK, NEW b \in Nat, BoundedBy(b),
         NEW n \in Nodes, NEW d \in Nodes, NEW C \in SUBSET cand, NEW H
  PROVE  Supported(n, d, Reselect(n, C, H)[d], C, b)
<1>1. C \in SUBSET Candidate /\ \A c \in C : c.seq <= b
  BY DEF TypeOK, BoundedBy
<1>2. CASE \E c \in cand : c.at = n /\ c.dest = d
  <2>1. Reselect(n, C, H)[d] = _select_route(n, d, C, H)
    BY <1>2 DEF Reselect
  <2> QED BY <1>1, <2>1, SelectionSupported
<1>3. CASE ~(\E c \in cand : c.at = n /\ c.dest = d)
  <2>1. Reselect(n, C, H)[d] = route[n][d]
    BY <1>3 DEF Reselect
  <2>2. Supported(n, d, route[n][d], cand, b)
    BY DEF BoundedBy
  <2>3. route[n][d] = NoRoute
    BY <1>3, <2>2 DEF Supported
  <2> QED BY <2>1, <2>2, <2>3 DEF Supported
<1> QED BY <1>2, <1>3

LEMMA NothingSupported ==
  ASSUME NEW n, NEW d, NEW C, NEW b \in Nat
  PROVE  Supported(n, d, NoRoute, C, b)
BY DEF Supported, NoRoute

(* Candidates that go leave the entries of others supported.               *)
LEMMA SupportStays ==
  ASSUME NEW n, NEW d, NEW r, NEW C, NEW D, NEW b,
         Supported(n, d, r, C, b), \A c \in C : c.at = n /\ c.dest = d => c \in D
  PROVE  Supported(n, d, r, D, b)
BY DEF Supported

(* A bound that is raised stays one.                                       *)
LEMMA SupportRises ==
  ASSUME TypeOK, NEW b \in Nat, NEW n \in Nodes, NEW d \in Nodes,
         NEW C, Supported(n, d, route[n][d], C, b)
  PROVE  Supported(n, d, route[n][d], C, b + 1)
<1>1. route[n][d].seq \in Nat
  BY DEF TypeOK, Route, NoRoute
<1> QED BY <1>1 DEF Supported

(* Discovery forgets everything but the sequences, which advance.          *)
LEMMA DiscoverySupporting ==
  ASSUME Sound, NEW b \in Nat, BoundedBy(b), NEW available, Rediscover(available),
         \A n \in Nodes : inbox'[n] = {}
  PROVE  BoundedBy(b + 1)'
<1>1. cand' = {} /\ \A n, d \in Nodes : route'[n][d] = NoRoute
  BY DEF Rediscover
<1>2. \A n \in Nodes : seq'[n] <= b + 1
  BY DEF Rediscover, BoundedBy, Sound, TypeOK
<1>3. \A n, d \in Nodes : Supported(n, d, route'[n][d], cand', b + 1)
  BY <1>1, NothingSupported
<1> QED BY <1>1, <1>2, <1>3 DEF BoundedBy

LEMMA RemovalSupporting ==
  ASSUME Sound, Supporting, NEW x \in Nodes, remove_node(x)
  PROVE  Supporting'
<1>t. TypeOK /\ FramesTravelLinks
  BY DEF Sound
<1>1. /\ cand' = {c \in cand : c.at # x} /\ ctl.phase = "idle" /\ inbox' = inbox
      /\ route' = [n \in Nodes |-> [d \in Nodes |->
                     IF x \in {n, d} THEN NoRoute ELSE route[n][d]]]
      /\ seq' = [m \in Nodes |-> IF m = x THEN 0 ELSE IF up[m] THEN seq[m] + 1 ELSE seq[m]]
  BY DEF remove_node
<1>2. PICK b \in Nat : BoundedBy(b)
  BY DEF Supporting
<1>3. \A n \in Nodes : seq'[n] <= b + 1
  BY <1>1, <1>2, <1>t DEF BoundedBy, TypeOK
<1>4. \A c \in cand' : c.seq <= b + 1
  BY <1>1, <1>2, <1>t DEF BoundedBy, TypeOK, Candidate
<1>5. ASSUME NEW n \in Nodes, NEW d \in Nodes
      PROVE  Supported(n, d, route'[n][d], cand', b + 1)
  <2>1. CASE x \in {n, d}
    <3>1. route'[n][d] = NoRoute
      BY <1>1, <2>1
    <3> QED BY <3>1, NothingSupported
  <2>2. CASE x \notin {n, d}
    <3>1. route'[n][d] = route[n][d]
      BY <1>1, <2>2
    <3>2. Supported(n, d, route[n][d], cand, b)
      BY <1>2 DEF BoundedBy
    <3>3. \A c \in cand : c.at = n => c \in cand'
      BY <1>1, <2>2
    <3>4. Supported(n, d, route[n][d], cand', b)
      BY <3>2, <3>3, SupportStays
    <3> QED BY <3>1, <3>4, <1>t, SupportRises
  <2> QED BY <2>1, <2>2
<1>6. \A n \in Nodes : inbox'[n] = {}
  BY <1>1, <1>t DEF FramesTravelLinks
<1>7. BoundedBy(b + 1)'
  BY <1>3, <1>4, <1>5, <1>6 DEF BoundedBy
<1> QED BY <1>7 DEF Supporting

LEMMA EnvironmentSupporting ==
  ASSUME Sound, Supporting, Environment
  PROVE  Supporting'
<1>t. TypeOK /\ FramesTravelLinks /\ ctl.phase = "idle" /\ inbox' = inbox
  BY DEF Sound, Environment, discover_neighbors, recover_communication,
         recalculate_routes, fail_communication
<1>i. \A n \in Nodes : inbox'[n] = {}
  BY <1>t DEF FramesTravelLinks
<1>b. PICK b \in Nat : BoundedBy(b)
  BY DEF Supporting
<1>c. b + 1 \in Nat
  OBVIOUS
<1>1. CASE discover_neighbors
  <2>1. Rediscover(up)
    BY <1>1 DEF discover_neighbors
  <2> QED BY <1>b, <1>c, <1>i, <2>1, DiscoverySupporting DEF Supporting
<1>2. ASSUME NEW n \in Nodes, recover_communication(n) PROVE Supporting'
  <2>1. Rediscover(up')
    BY <1>2 DEF recover_communication
  <2> QED BY <1>b, <1>c, <1>i, <2>1, DiscoverySupporting DEF Supporting
<1>3. ASSUME NEW n \in Nodes, NEW p \in Penalties, recalculate_routes(n, p)
      PROVE  Supporting'
  <2>1. cand' = cand /\ route' = route
        /\ seq' = [m \in Nodes |-> IF up[m] THEN seq[m] + 1 ELSE seq[m]]
    BY <1>3 DEF recalculate_routes
  <2>2. \A m \in Nodes : seq'[m] <= b + 1
    BY <2>1, <1>b, <1>t DEF BoundedBy, TypeOK
  <2>3. \A c \in cand : c.seq <= b + 1
    BY <1>b, <1>t DEF BoundedBy, TypeOK, Candidate
  <2>4. \A k, d \in Nodes : Supported(k, d, route[k][d], cand, b + 1)
    BY <1>b, <1>t, SupportRises DEF BoundedBy
  <2>5. BoundedBy(b + 1)'
    BY <2>1, <2>2, <2>3, <2>4, <1>i DEF BoundedBy
  <2> QED BY <2>5, <1>c DEF Supporting
<1>4. ASSUME NEW x \in Nodes, fail_communication(x) PROVE Supporting'
  <2> DEFINE losers == {n \in Nodes : x \in Neighbors(n, heard)}
             H == [n \in Nodes |-> [heard[n] EXCEPT ![x] = Absent]]
             after == [n \in Nodes |->
                         IF n = x THEN [d \in Nodes |-> NoRoute]
                         ELSE IF n \in losers THEN Reselect(n, Without(x), H)
                         ELSE route[n]]
  <2>1. cand' = Without(x) /\ route' = after /\ seq' = seq
    BY <1>4 DEF fail_communication
  <2>2. Without(x) \in SUBSET cand
    BY DEF Without
  <2>3. ASSUME NEW n \in Nodes, NEW d \in Nodes
        PROVE  Supported(n, d, after[n][d], Without(x), b)
    <3>1. CASE n = x
      BY <3>1, NothingSupported
    <3>2. CASE n # x /\ n \in losers
      BY <3>2, <2>2, <1>b, <1>t, ReselectionSupported
    <3>3. CASE n # x /\ n \notin losers
      <4>1. after[n][d] = route[n][d]
        BY <3>3
      <4>2. \A c \in cand : c.at = n => c \in Without(x)
        BY <3>3 DEF Without
      <4>3. Supported(n, d, route[n][d], cand, b)
        BY <1>b DEF BoundedBy
      <4> QED BY <4>1, <4>2, <4>3, SupportStays
    <3> QED BY <3>1, <3>2, <3>3
  <2> HIDE DEF after
  <2>4. BoundedBy(b)'
    BY <2>1, <2>2, <2>3, <1>b, <1>i DEF BoundedBy
  <2> QED BY <2>4 DEF Supporting
<1> QED BY <1>1, <1>2, <1>3, <1>4 DEF Environment

(* The steps at which candidates only age.                                 *)
LEMMA AgingSupports ==
  ASSUME TypeOK, NEW b \in Nat, BoundedBy(b), NEW t \in Nat,
         cand' = AgedCand(t), route' = route, seq' = seq
  PROVE  /\ \A n \in Nodes : seq'[n] <= b
         /\ \A c \in cand' : c.seq <= b
         /\ \A n, d \in Nodes : Supported(n, d, route'[n][d], cand', b)
<1>1. \A c \in cand : \E a \in AgedCand(t) :
        a.at = c.at /\ a.dest = c.dest /\ a.hops = c.hops
  <2> TAKE c \in cand
  <2> DEFINE a == [c EXCEPT !.age = Saturated(c.age + t, RouteLifetime)]
  <2>1. a \in AgedCand(t)
    BY DEF AgedCand
  <2>2. a.at = c.at /\ a.dest = c.dest /\ a.hops = c.hops
    BY DEF TypeOK, Candidate
  <2> QED BY <2>1, <2>2
<1>2. \A c \in cand' : c.seq <= b
  BY AgingKeeps DEF BoundedBy
<1>3. ASSUME NEW n \in Nodes, NEW d \in Nodes
      PROVE  Supported(n, d, route'[n][d], cand', b)
  <2>1. Supported(n, d, route[n][d], cand, b)
    BY DEF BoundedBy
  <2> QED BY <1>1, <2>1 DEF Supported
<1> QED BY <1>2, <1>3 DEF BoundedBy

LEMMA ExpirySupporting ==
  ASSUME Sound, Supporting, Expiry
  PROVE  Supporting'
<1>t. TypeOK
  BY DEF Sound
<1>b. PICK b \in Nat : BoundedBy(b)
  BY DEF Supporting
<1>1. ASSUME NEW n \in Nodes, NEW C \in SUBSET cand, NEW H,
             \A c \in cand : c.at # n => c \in C,
             cand' = C, route' = [route EXCEPT ![n] = Reselect(n, C, H)],
             UNCHANGED <<seq, inbox>>
      PROVE  Supporting'
  <2>1. ASSUME NEW k \in Nodes, NEW d \in Nodes
        PROVE  Supported(k, d, route'[k][d], C, b)
    <3>1. CASE k = n
      <4>1. route'[k][d] = Reselect(n, C, H)[d]
        BY <1>1, <3>1, <1>t DEF TypeOK
      <4> QED BY <3>1, <4>1, <1>b, <1>t, ReselectionSupported
    <3>2. CASE k # n
      <4>1. route'[k][d] = route[k][d]
        BY <1>1, <3>2, <1>t DEF TypeOK
      <4>2. Supported(k, d, route[k][d], cand, b)
        BY <1>b DEF BoundedBy
      <4> QED BY <3>2, <4>1, <4>2, <1>1, SupportStays
    <3> QED BY <3>1, <3>2
  <2>2. BoundedBy(b)'
    BY <1>1, <2>1, <1>b DEF BoundedBy
  <2> QED BY <2>2 DEF Supporting
<1>2. ASSUME NEW n \in Nodes, NEW m \in Nodes, ExpireNeighbor(n, m) PROVE Supporting'
  <2> DEFINE H == [heard EXCEPT ![n][m] = Absent]
             C == {c \in cand : ~(c.at = n /\ c.via = m)}
  <2>1. /\ cand' = C /\ route' = [route EXCEPT ![n] = Reselect(n, C, H)]
        /\ UNCHANGED <<seq, inbox>>
    BY <1>2 DEF ExpireNeighbor
  <2>2. C \in SUBSET cand /\ \A c \in cand : c.at # n => c \in C
    OBVIOUS
  <2> HIDE DEF C, H
  <2> QED BY <2>1, <2>2, <1>1
<1>3. ASSUME NEW n \in Nodes, expire_routes(n) PROVE Supporting'
  <2> DEFINE C == {c \in cand : c.at = n => /\ c.age <= RouteLifetime
                                          /\ c.via \in Neighbors(n, heard)}
  <2>1. /\ cand' = C /\ route' = [route EXCEPT ![n] = Reselect(n, C, heard)]
        /\ UNCHANGED <<seq, inbox>>
    BY <1>3 DEF expire_routes
  <2>2. C \in SUBSET cand /\ \A c \in cand : c.at # n => c \in C
    OBVIOUS
  <2> HIDE DEF C
  <2> QED BY <2>1, <2>2, <1>1
<1>4. CASE EndExpiry
  <2>1. UNCHANGED <<seq, cand, route, inbox>>
    BY <1>4 DEF EndExpiry
  <2>2. BoundedBy(b)'
    BY <2>1, <1>b DEF BoundedBy
  <2> QED BY <2>2 DEF Supporting
<1> QED BY <1>2, <1>3, <1>4 DEF Expiry

LEMMA ControlSupporting ==
  ASSUME Sound, Supporting, Control
  PROVE  Supporting'
<1>t. TypeOK /\ FramesTravelLinks /\ Sound
  BY DEF Sound
<1>b. PICK b \in Nat : BoundedBy(b)
  BY DEF Supporting
<1>1. CASE Round
  <2>l. PICK load \in Loads : Broadcast(load)
    BY <1>1 DEF Round
  <2> DEFINE errors(n) == {[kind |-> "RERR", from |-> e.from, dest |-> e.dest] :
                             e \in {x \in ctl.errs : x.from = n}}
             sent(n) == IF up[n] THEN errors(n) \union
                                      (IF n \in ctl.todo THEN advertisements_for(n, load[n]) ELSE {})
                        ELSE {}
  <2>1. /\ \A n \in Nodes : inbox'[n] \subseteq UNION {sent(k) : k \in Nodes}
        /\ UNCHANGED <<seq, route>>
    BY <2>l DEF Broadcast
  <2>2. PICK t \in AirTime : cand' = AgedCand(t)
    BY Zenon, <2>l DEF Broadcast
  <2>3. t \in Nat
    BY Numbers
  <2>4. ASSUME NEW k \in Nodes, NEW m \in sent(k), m.kind = "RA"
        PROVE  m.seq <= b
    <3>1. m \in advertisements_for(k, load[k])
      BY <2>4
    <3>2. \A d \in Nodes : seq[k] <= b /\ route[k][d].seq <= b
      BY <1>b DEF BoundedBy, Supported
    <3> QED BY <3>1, <3>2 DEF advertisements_for
  <2> HIDE DEF sent
  <2>5. \A n \in Nodes : \A m \in inbox'[n] : m.kind = "RA" => m.seq <= b
    BY <2>1, <2>4
  <2>6. BoundedBy(b)'
    BY <2>1, <2>2, <2>3, <2>5, <1>b, <1>t, AgingSupports DEF BoundedBy
  <2> QED BY <2>6 DEF Supporting
<1>2. ASSUME NEW n \in Nodes, NEW m \in inbox[n], Deliver(n, m)
      PROVE  Supporting'
  <2> DEFINE gone == {c \in cand : ~(c.at = n /\ c.dest = m.dest /\ c.via = m.from)}
  <2>a. UNCHANGED seq /\ Arrives(n, m)
    BY <1>2 DEF Deliver, Lose, AcceptAdvertisement, RejectAdvertisement,
       AcceptError, RejectError
  <2>1. \A k \in Nodes : inbox'[k] \subseteq inbox[k]
    BY <2>a, <1>t DEF Arrives, TypeOK
  <2>i. \A k \in Nodes : \A f \in inbox'[k] : f.kind = "RA" => f.seq <= b
    BY <2>1, <1>b DEF BoundedBy
  <2>2. m.dest \in Nodes
    BY <1>t DEF TypeOK, Advertisement, RouteError
  <2>3. ASSUME NEW C \in SUBSET Candidate, \A c \in C : c.seq <= b, NEW H, cand' = C,
               \A c \in cand : ~(c.at = n /\ c.dest = m.dest) => c \in C,
               route' = [route EXCEPT ![n][m.dest] = _select_route(n, m.dest, C, H)]
        PROVE  Supporting'
    <3>1. ASSUME NEW k \in Nodes, NEW d \in Nodes
          PROVE  Supported(k, d, route'[k][d], C, b)
      <4>1. CASE k = n /\ d = m.dest
        <5>1. route'[k][d] = _select_route(n, m.dest, C, H)
          BY <2>3, <4>1, <1>t DEF TypeOK
        <5> QED BY <2>2, <2>3, <4>1, <5>1, SelectionSupported
      <4>2. CASE ~(k = n /\ d = m.dest)
        <5>1. route'[k][d] = route[k][d]
          BY <2>3, <4>2, <1>t DEF TypeOK
        <5>2. Supported(k, d, route[k][d], cand, b)
          BY <1>b DEF BoundedBy
        <5>3. \A c \in cand : c.at = k /\ c.dest = d => c \in C
          BY <2>3, <4>2
        <5> QED BY <5>1, <5>2, <5>3, SupportStays
      <4> QED BY <4>1, <4>2
    <3>2. BoundedBy(b)'
      BY <2>a, <2>i, <2>3, <3>1, <1>b DEF BoundedBy
    <3> QED BY <3>2 DEF Supporting
  <2>4. CASE Lose(n, m) \/ RejectAdvertisement(n, m) \/ RejectError(n, m)
    <3>1. UNCHANGED <<seq, cand, route>>
      BY <2>4 DEF Lose, RejectAdvertisement, RejectError
    <3>2. BoundedBy(b)'
      BY <2>i, <3>1, <1>b DEF BoundedBy
    <3> QED BY <3>2 DEF Supporting
  <2>5. CASE AcceptAdvertisement(n, m)
    <3>h. PICK hop \in LinkCosts[<<n, m.from>>][m.dest] : Accepts(n, m, hop)
      BY <2>5, AcceptanceMeans
    <3> DEFINE C == gone \union {Learned(n, m, hop)}
    <3>1. /\ cand' = C /\ m.kind = "RA" /\ Acceptable(n, m)
          /\ route' = [route EXCEPT ![n][m.dest] =
                          _select_route(n, m.dest, C, HeardFrom(n, m.from))]
      BY <3>h DEF Accepts
    <3>2. Learned(n, m, hop) \in Candidate
      BY <3>1, <1>t, LearningFits
    <3>3. Learned(n, m, hop).seq <= b
      BY <3>1, <1>b DEF Learned, BoundedBy
    <3>4. C \in SUBSET Candidate /\ \A c \in C : c.seq <= b
      BY <3>2, <3>3, <1>b, <1>t DEF TypeOK, BoundedBy
    <3>5. \A c \in cand : ~(c.at = n /\ c.dest = m.dest) => c \in C
      OBVIOUS
    <3> HIDE DEF C
    <3> QED BY <3>1, <3>4, <3>5, <2>3
  <2>6. CASE AcceptError(n, m)
    <3>1. /\ cand' = gone
          /\ route' = [route EXCEPT ![n][m.dest] =
                          _select_route(n, m.dest, gone, HeardFrom(n, m.from))]
      BY <2>6 DEF AcceptError
    <3>2. gone \in SUBSET Candidate /\ \A c \in gone : c.seq <= b
      BY <1>b, <1>t DEF TypeOK, BoundedBy
    <3>3. \A c \in cand : ~(c.at = n /\ c.dest = m.dest) => c \in gone
      OBVIOUS
    <3> HIDE DEF gone
    <3> QED BY <3>1, <3>2, <3>3, <2>3
  <2> QED BY <1>2, <2>4, <2>5, <2>6 DEF Deliver
<1>3. CASE EndRound \/ Finish
  <2>1. UNCHANGED <<seq, cand, route, inbox>>
    BY <1>3 DEF EndRound, Finish
  <2>2. BoundedBy(b)'
    BY <2>1, <1>b DEF BoundedBy
  <2> QED BY <2>2 DEF Supporting
<1> QED BY <1>1, <1>2, <1>3 DEF Control

LEMMA EditsSupporting ==
  ASSUME Correct, Supporting, [EditNext]_editVars
  PROVE  Supporting'
<1>t. TypeOK /\ FramesTravelLinks /\ Sound /\ member \subseteq Nodes
  BY DEF Correct, Sound
<1>b. PICK b \in Nat : BoundedBy(b)
  BY DEF Supporting
<1>1. ASSUME NEW x \in Nodes, remove_node(x) PROVE Supporting'
  BY <1>1, <1>t, RemovalSupporting
<1>2. ASSUME NEW x \in Nodes, add_node(x) PROVE Supporting'
  <2>1. Rediscover(up') /\ inbox' = inbox /\ ctl.phase = "idle"
    BY <1>2 DEF add_node
  <2>2. \A n \in Nodes : inbox'[n] = {}
    BY <2>1, <1>t DEF FramesTravelLinks
  <2>3. BoundedBy(b + 1)' /\ b + 1 \in Nat
    BY <2>1, <2>2, <1>b, <1>t, DiscoverySupporting
  <2> QED BY <2>3 DEF Supporting
<1>3. ASSUME NEW n \in Nodes, NEW m \in inbox[n], Suppress(n, m) PROVE Supporting'
  <2>1. UNCHANGED <<seq, cand, route>> /\ Arrives(n, m)
    BY <1>3 DEF Suppress
  <2>2. \A k \in Nodes : inbox'[k] \subseteq inbox[k]
    BY <2>1, <1>t DEF Arrives, TypeOK
  <2>3. BoundedBy(b)'
    BY <2>1, <2>2, <1>b DEF BoundedBy
  <2> QED BY <2>3 DEF Supporting
<1>4. CASE Environment
  BY <1>4, <1>t, EnvironmentSupporting
<1>5. CASE _step
  <2>1. cand' = AgedCand(1) /\ UNCHANGED <<seq, route, inbox>>
    BY <1>5 DEF _step
  <2>2. BoundedBy(b)'
    BY <2>1, <1>b, <1>t, AgingSupports DEF BoundedBy
  <2> QED BY <2>2 DEF Supporting
<1>6. CASE Expiry
  BY <1>6, <1>t, ExpirySupporting
<1>7. CASE Control
  BY <1>7, <1>t, ControlSupporting
<1>8. CASE UNCHANGED editVars
  <2>1. BoundedBy(b)'
    BY <1>8, <1>b DEF editVars, meshVars, vars, BoundedBy
  <2> QED BY <2>1 DEF Supporting
<1> QED BY <1>1, <1>2, <1>3, <1>4, <1>5, <1>6, <1>7, <1>8, <1>t, EditSteps DEF Next

-----------------------------------------------------------------------------
(* The repair.                                                             *)

(* What an entry owes depends on the candidates of its node for its        *)
(* destination and on the neighbours of its node, on nothing else.         *)
LEMMA BackedElsewhere ==
  ASSUME NEW n, NEW d, NEW r, NEW C, NEW D, NEW H, NEW G,
         Backed(n, d, r, C, H), Neighbors(n, G) = Neighbors(n, H),
         \A c : c.at = n => (c \in D <=> c \in C)
  PROVE  Backed(n, d, r, D, G)
<1>1. Live(n, d, D, G) = Live(n, d, C, H)
  BY DEF Live
<1> QED BY <1>1 DEF Backed

(* A node that had its turn has selected from what it holds now.           *)
LEMMA TurnRepairs ==
  ASSUME Sound, Supporting, NEW n \in Nodes, NEW d \in Nodes, NEW C \in SUBSET cand, NEW H
  PROVE  Backed(n, d, Reselect(n, C, H)[d], C, H)
<1>t. TypeOK
  BY DEF Sound
<1>b. PICK b \in Nat : BoundedBy(b)
  BY DEF Supporting
<1>1. C \in SUBSET Candidate /\ \A c \in C : c.seq <= b
  BY <1>b, <1>t DEF TypeOK, BoundedBy
<1>2. CASE \E c \in cand : c.at = n /\ c.dest = d
  <2>1. Reselect(n, C, H)[d] = _select_route(n, d, C, H)
    BY <1>2 DEF Reselect
  <2> QED BY <1>1, <2>1, SelectionBacked
<1>3. CASE ~(\E c \in cand : c.at = n /\ c.dest = d)
  <2>1. Reselect(n, C, H)[d] = route[n][d]
    BY <1>3 DEF Reselect
  <2>2. Supported(n, d, route[n][d], cand, b)
    BY <1>b DEF BoundedBy
  <2>3. route[n][d] = NoRoute
    BY <1>3, <2>2 DEF Supported
  <2>4. Live(n, d, C, H) = {}
    BY <1>3 DEF Live
  <2> QED BY <2>1, <2>3, <2>4 DEF Backed
<1> QED BY <1>2, <1>3

Repairing == Correct /\ Supporting /\ ExpiryRepairs

LEMMA ExpiryPassRepairs ==
  ASSUME Repairing, Expiry
  PROVE  ExpiryRepairs'
<1>t. Sound /\ TypeOK /\ Supporting /\ ExpiryRepairs
  BY DEF Repairing, Correct, Sound
<1>1. ASSUME NEW n \in Nodes, NEW m \in Nodes, ExpireNeighbor(n, m) PROVE ExpiryRepairs'
  <2>1. /\ ctl.phase = "expiring" /\ n \in ctl.left /\ ctl'.left = ctl.left
        /\ heard' = [heard EXCEPT ![n][m] = Absent]
        /\ cand' = {c \in cand : ~(c.at = n /\ c.via = m)}
        /\ \E R : route' = [route EXCEPT ![n] = R]
    BY <1>1, <1>t DEF ExpireNeighbor, Turn, TypeOK
  <2> SUFFICES ASSUME NEW k \in Nodes \ ctl'.left, NEW d \in Nodes
               PROVE  Backed(k, d, route'[k][d], cand', heard')
    BY DEF ExpiryRepairs
  <2>2. k \in Nodes \ ctl.left /\ k # n
    BY <2>1
  <2>3. Backed(k, d, route[k][d], cand, heard)
    BY <2>1, <2>2, <1>t DEF ExpiryRepairs
  <2>4. route'[k][d] = route[k][d] /\ Neighbors(k, heard') = Neighbors(k, heard)
    BY <2>1, <2>2, <1>t DEF TypeOK, Neighbors
  <2>5. \A c : c.at = k => (c \in cand' <=> c \in cand)
    BY <2>1, <2>2
  <2> QED BY <2>3, <2>4, <2>5, BackedElsewhere
<1>2. ASSUME NEW n \in Nodes, expire_routes(n) PROVE ExpiryRepairs'
  <2> DEFINE C == {c \in cand : c.at = n => /\ c.age <= RouteLifetime
                                          /\ c.via \in Neighbors(n, heard)}
  <2>1. /\ ctl.phase = "expiring" /\ ctl'.left = ctl.left \ {n}
        /\ heard' = heard /\ cand' = C
        /\ route' = [route EXCEPT ![n] = Reselect(n, C, heard)]
    BY <1>2, <1>t DEF expire_routes, TypeOK
  <2>2. C \in SUBSET cand /\ \A c : c.at # n => (c \in C <=> c \in cand)
    OBVIOUS
  <2> HIDE DEF C
  <2> SUFFICES ASSUME NEW k \in Nodes \ ctl'.left, NEW d \in Nodes
               PROVE  Backed(k, d, route'[k][d], cand', heard')
    BY DEF ExpiryRepairs
  <2>3. CASE k = n
    <3>1. route'[k][d] = Reselect(n, C, heard)[d]
      BY <2>1, <2>3, <1>t DEF TypeOK
    <3>2. Backed(n, d, Reselect(n, C, heard)[d], C, heard)
      BY <2>2, <1>t, TurnRepairs
    <3> QED BY <2>1, <2>3, <3>1, <3>2
  <2>4. CASE k # n
    <3>1. route'[k][d] = route[k][d] /\ k \in Nodes \ ctl.left
      BY <2>1, <2>4, <1>t DEF TypeOK
    <3>2. Backed(k, d, route[k][d], cand, heard)
      BY <2>1, <3>1, <1>t DEF ExpiryRepairs
    <3>3. \A c : c.at = k => (c \in C <=> c \in cand)
      BY <2>2, <2>4
    <3>4. Backed(k, d, route[k][d], C, heard)
      BY <3>2, <3>3, BackedElsewhere
    <3> QED BY <2>1, <3>1, <3>4
  <2> QED BY <2>3, <2>4
<1>3. CASE EndExpiry
  <2>1. ctl'.phase # "expiring"
    BY <1>3 DEF EndExpiry, EnterControl, Idle
  <2> QED BY <2>1 DEF ExpiryRepairs
<1> QED BY <1>1, <1>2, <1>3 DEF Expiry

LEMMA EditRepairs == Repairing /\ [EditNext]_editVars => Repairing'
<1> SUFFICES ASSUME Repairing, [EditNext]_editVars PROVE ExpiryRepairs'
  BY EditCorrect, EditsSupporting DEF Repairing
<1>t. TypeOK /\ ExpiryRepairs /\ member \subseteq Nodes
  BY DEF Repairing, Correct, Sound
<1>1. ASSUME ctl'.phase # "expiring" PROVE ExpiryRepairs'
  BY <1>1 DEF ExpiryRepairs
<1>2. ASSUME NEW x \in Nodes, remove_node(x) \/ add_node(x) PROVE ExpiryRepairs'
  BY <1>1, <1>2 DEF remove_node, add_node, EnterControl
<1>3. ASSUME NEW n \in Nodes, NEW m \in inbox[n], Suppress(n, m) PROVE ExpiryRepairs'
  BY <1>1, <1>3 DEF Suppress, Arrives, Deliverable
<1>4. CASE Environment
  <2>1. discover_neighbors => ctl'.phase = "rounds"
    BY DEF discover_neighbors, EnterControl
  <2>2. \A n \in Nodes : fail_communication(n) => ctl'.phase = "rounds"
    BY DEF fail_communication, EnterControl
  <2>3. \A n \in Nodes : recover_communication(n) => ctl'.phase = "rounds"
    BY DEF recover_communication, EnterControl
  <2>4. \A n \in Nodes, p \in Penalties : recalculate_routes(n, p) => ctl'.phase = "rounds"
    BY DEF recalculate_routes, EnterControl
  <2> QED
    BY <1>1, <1>4, <2>1, <2>2, <2>3, <2>4 DEF Environment
<1>5. CASE _step
  <2>1. ctl'.left = Nodes
    BY <1>5 DEF _step, Idle
  <2> QED BY <2>1 DEF ExpiryRepairs
<1>6. CASE Expiry
  BY <1>6, ExpiryPassRepairs
<1>7. CASE Control
  <2>1. CASE Round
    BY <1>1, <1>t, <2>1 DEF Round, Broadcast, TypeOK
  <2>2. ASSUME NEW n \in Nodes, NEW m \in inbox[n], Deliver(n, m) PROVE ExpiryRepairs'
    BY <1>1, <2>2 DEF Deliver, Lose, AcceptAdvertisement, RejectAdvertisement,
       AcceptError, RejectError, Arrives, Deliverable
  <2>3. CASE EndRound
    <3>1. ctl'.phase = "rounds"
      BY <1>t, <2>3 DEF EndRound, TypeOK
    <3> QED BY <1>1, <3>1
  <2>4. CASE Finish
    BY <1>1, <2>4 DEF Finish, Idle
  <2> QED BY <1>7, <2>1, <2>2, <2>3, <2>4 DEF Control
<1>8. CASE UNCHANGED editVars
  BY <1>8, <1>t DEF editVars, meshVars, vars, ExpiryRepairs
<1> QED BY <1>2, <1>3, <1>4, <1>5, <1>6, <1>7, <1>8, <1>t, EditSteps DEF Next

(* Whatever was deleted, placed again or taken for a duplicate before: a   *)
(* node that had its turn in an expiry pass (expire_neighbors of           *)
(* simulator.py) holds only routes backed by a candidate of a present      *)
(* neighbour, and passes over no newer one.                                *)
THEOREM ExpiryPassesRepair == EditSpec => []ExpiryRepairs
<1>1. EditInit => Repairing
  <2> SUFFICES ASSUME EditInit PROVE Repairing
    OBVIOUS
  <2>1. Correct
    BY InitSound DEF EditInit, Correct
  <2>2. BoundedBy(0)
    BY DEF EditInit, Init, BoundedBy, Supported, NoRoute
  <2>3. ExpiryRepairs
    BY DEF EditInit, Init, Idle, ExpiryRepairs
  <2> QED BY <2>1, <2>2, <2>3 DEF Repairing, Supporting
<1>2. Repairing => ExpiryRepairs
  BY DEF Repairing
<1> QED BY <1>1, <1>2, EditRepairs, PTL DEF EditSpec
-----------------------------------------------------------------------------
(* The deadline of a dead destination.                                     *)

(* What one hop fewer is worth: a lifetime, up to the next expiry pass.    *)
Worth(h) == h * (RouteLifetime + 1)

LEMMA WorthOfHops ==
  ASSUME NEW h \in Nat
  PROVE  /\ Worth(h) \in Nat
         /\ Worth(h + 1) = Worth(h) + RouteLifetime + 1
         /\ \A g \in Nat : g <= h => Worth(g) <= Worth(h)
<1> DEFINE k == RouteLifetime + 1
<1>1. k \in Nat
  BY Numbers
<1>2. k = RouteLifetime + 1 /\ RouteLifetime \in Nat
  BY Numbers
<1> HIDE DEF k
<1>3. \A i \in Nat : i * k \in Nat
  BY <1>1
<1>4. (h + 1) * k = h * k + k
  BY <1>1
<1>5. ASSUME NEW g \in Nat, g <= h
      PROVE  g * k <= h * k
  <2>1. PICK e \in Nat : h = g + e
    <3>1. h - g \in Nat /\ h = g + (h - g)
      BY <1>5
    <3> QED BY <3>1
  <2>2. (g + e) * k = g * k + e * k
    BY <1>1
  <2>3. g * k \in Nat /\ e * k \in Nat /\ h * k \in Nat
    BY <1>3
  <2>4. h * k = g * k + e * k
    BY <2>1, <2>2
  <2> QED BY <2>3, <2>4
<1>6. \A i : Worth(i) = i * k
  BY <1>2 DEF Worth
<1>7. h * k + k = h * k + RouteLifetime + 1
  BY <1>2, <1>3
<1> QED BY <1>3, <1>4, <1>5, <1>6, <1>7

(* The part of its lifetime a candidate has spent.  A step that outdates it*)
(* counts until its node had its turn in the expiry pass; time on the air  *)
(* beyond the lifetime does not count.                                     *)
Spent(c) ==
  IF ctl.phase = "expiring" /\ c.at \in ctl.left THEN c.age
  ELSE IF c.age > RouteLifetime THEN RouteLifetime ELSE c.age

(* Information about a node has been on its way longer than the node is    *)
(* down, and each hop of the way took at most one lifetime.                *)
Fading ==
  /\ downFor \in [Nodes -> 0..Deadline]
  /\ \A n \in Nodes : up[n] => downFor[n] = 0
  /\ \A c \in cand : downFor[c.dest] <= Worth(c.hops - 1) + Spent(c)
  /\ \A n \in Nodes : \A m \in inbox[n] : m.kind = "RA" => downFor[m.dest] <= Worth(m.hops)

LEMMA DeadlineFits == Deadline \in Nat /\ \A i \in 0..Deadline : i \in Nat
BY Numbers, WorthOfHops DEF Deadline, Worth

LEMMA CountingFits ==
  ASSUME downFor \in [Nodes -> 0..Deadline], TypeOK, CountsSteps
  PROVE  /\ downFor' \in [Nodes -> 0..Deadline]
         /\ \A n \in Nodes : up'[n] => downFor'[n] = 0
         /\ \A n \in Nodes : downFor'[n] <= downFor[n] + 1
         /\ ~Stepping => \A n \in Nodes : downFor'[n] <= downFor[n]
<1>1. Deadline \in Nat
  BY DeadlineFits
<1>2. \A n \in Nodes : downFor[n] \in 0..Deadline
  OBVIOUS
<1>3. \A n \in Nodes : downFor'[n] = IF up'[n] THEN 0
                                     ELSE IF Stepping /\ downFor[n] < Deadline
                                     THEN downFor[n] + 1 ELSE downFor[n]
  BY DEF CountsSteps
<1>4. \A n \in Nodes : downFor'[n] \in 0..Deadline
  BY <1>1, <1>2, <1>3
<1>5. downFor' \in [Nodes -> 0..Deadline]
  BY <1>4 DEF CountsSteps
<1>6. \A n \in Nodes : downFor'[n] <= downFor[n] + 1
  BY <1>1, <1>2, <1>3
<1>7. ~Stepping => \A n \in Nodes : downFor'[n] <= downFor[n]
  BY <1>1, <1>2, <1>3
<1> QED BY <1>3, <1>5, <1>6, <1>7

LEMMA SpentFits ==
  ASSUME NEW c \in Candidate
  PROVE  /\ Spent(c) \in Nat
         /\ ctl.phase # "expiring" => Spent(c) <= RouteLifetime
         /\ c.hops - 1 \in Nat /\ Worth(c.hops - 1) \in Nat
<1>1. c.age \in Nat /\ c.hops - 1 \in Nat
  BY Numbers DEF Candidate
<1> QED BY <1>1, Numbers, WorthOfHops DEF Spent

(* The steps at which no new information arises.                           *)
LEMMA FadingStays ==
  ASSUME Sound, Sound', Fading, CountsSteps, ~Stepping,
         \A c \in cand' : \E k \in cand :
            k.dest = c.dest /\ k.hops = c.hops /\ Spent(k) <= (Spent(c))',
         \A n \in Nodes : inbox'[n] \subseteq inbox[n]
  PROVE  Fading'
<1>t. TypeOK
  BY DEF Sound
<1>1. /\ downFor' \in [Nodes -> 0..Deadline]
      /\ \A n \in Nodes : up'[n] => downFor'[n] = 0
      /\ \A n \in Nodes : downFor'[n] <= downFor[n]
  BY <1>t, CountingFits DEF Fading
<1>2. ASSUME NEW c \in cand'
      PROVE  downFor'[c.dest] <= Worth(c.hops - 1) + (Spent(c))'
  <2>1. PICK k \in cand : k.dest = c.dest /\ k.hops = c.hops /\ Spent(k) <= (Spent(c))'
    OBVIOUS
  <2>2. k \in Candidate /\ c \in Candidate
    BY <1>t DEF Sound, TypeOK
  <2>3. Spent(k) \in Nat /\ Worth(k.hops - 1) \in Nat
    BY <2>2, SpentFits
  <2>4. (Spent(c))' \in Nat
    BY <2>2, Numbers DEF Spent, Candidate
  <2>5. c.dest \in Nodes
    BY <2>2 DEF Candidate
  <2>6. downFor[c.dest] <= Worth(k.hops - 1) + Spent(k)
    BY <2>1 DEF Fading
  <2>7. downFor'[c.dest] <= downFor[c.dest] /\ downFor'[c.dest] \in Nat
        /\ downFor[c.dest] \in Nat
    BY <1>1, <2>5, DeadlineFits DEF Fading
  <2> QED BY <2>1, <2>3, <2>4, <2>6, <2>7
<1>3. ASSUME NEW n \in Nodes, NEW m \in inbox'[n], m.kind = "RA"
      PROVE  downFor'[m.dest] <= Worth(m.hops)
  <2>1. m \in inbox[n] /\ m \in Advertisement
    BY <1>3, <1>t DEF TypeOK, RouteError
  <2>2. m.dest \in Nodes /\ m.hops \in Nat
    BY <2>1, Numbers DEF Advertisement
  <2>3. Worth(m.hops) \in Nat
    BY <2>2, WorthOfHops
  <2>4. downFor[m.dest] <= Worth(m.hops)
    BY <1>3, <2>1 DEF Fading
  <2>5. downFor'[m.dest] <= downFor[m.dest] /\ downFor'[m.dest] \in Nat
        /\ downFor[m.dest] \in Nat
    BY <1>1, <2>2, DeadlineFits DEF Fading
  <2> QED BY <2>3, <2>4, <2>5
<1> QED BY <1>1, <1>2, <1>3 DEF Fading

(* Fewer candidates and the same clock: what is left fades as before.      *)
LEMMA FewerFade ==
  ASSUME Sound, Sound', Fading, CountsSteps, ~Stepping, cand' \subseteq cand,
         \A c \in cand' : ctl'.phase = "expiring" /\ c.at \in ctl'.left <=>
                          ctl.phase = "expiring" /\ c.at \in ctl.left,
         \A n \in Nodes : inbox'[n] \subseteq inbox[n]
  PROVE  Fading'
<1>1. ASSUME NEW c \in cand'
      PROVE  \E k \in cand : k.dest = c.dest /\ k.hops = c.hops /\ Spent(k) <= (Spent(c))'
  <2>1. c \in cand /\ c \in Candidate
    BY DEF Sound, TypeOK
  <2>2. (Spent(c))' = Spent(c) /\ Spent(c) \in Nat
    BY <2>1, SpentFits DEF Spent
  <2> QED BY <2>1, <2>2
<1> QED BY <1>1, FadingStays

(* A renewal forgets every candidate, and no frame is on its way.          *)
LEMMA RenewalFades ==
  ASSUME Sound, Fading, CountsSteps, cand' = {}, \A n \in Nodes : inbox'[n] = {}
  PROVE  Fading'
BY CountingFits DEF Fading, Sound

LEMMA EnvironmentFades ==
  ASSUME Sound, Sound', Fading, CountsSteps, Environment
  PROVE  Fading'
<1>t. TypeOK /\ FramesTravelLinks /\ ctl.phase = "idle" /\ inbox' = inbox
  BY DEF Sound, Environment, discover_neighbors, recover_communication,
         recalculate_routes, fail_communication
<1>i. \A n \in Nodes : inbox[n] = {} /\ inbox'[n] = {}
  BY <1>t DEF FramesTravelLinks
<1>1. CASE discover_neighbors
  <2>1. cand' = {}
    BY <1>1 DEF discover_neighbors, Rediscover
  <2> QED BY <1>i, <2>1, RenewalFades
<1>2. ASSUME NEW n \in Nodes, recover_communication(n) PROVE Fading'
  <2>1. cand' = {}
    BY <1>2 DEF recover_communication, Rediscover
  <2> QED BY <1>i, <2>1, RenewalFades
<1>3. ASSUME NEW n \in Nodes, NEW p \in Penalties, recalculate_routes(n, p)
      PROVE  Fading'
  <2>1. cand' = cand /\ ctl'.phase = "rounds"
    BY <1>3 DEF recalculate_routes, EnterControl
  <2> QED BY <1>t, <1>i, <2>1, FewerFade DEF Stepping
<1>4. ASSUME NEW x \in Nodes, fail_communication(x) PROVE Fading'
  <2>1. cand' \subseteq cand /\ ctl'.phase = "rounds"
    BY <1>4 DEF fail_communication, EnterControl, Without
  <2> QED BY <1>t, <1>i, <2>1, FewerFade DEF Stepping
<1> QED BY <1>1, <1>2, <1>3, <1>4 DEF Environment

(* A step costs every candidate a part of its lifetime, except those that  *)
(* the expiry pass drops.                                                  *)
LEMMA StepFades ==
  ASSUME Sound, Sound', Fading, CountsSteps, _step
  PROVE  Fading'
<1>t. TypeOK /\ FramesTravelLinks
  BY DEF Sound
<1>1. /\ ctl.phase = "idle" /\ ctl'.phase = "expiring" /\ ctl'.left = Nodes
      /\ cand' = AgedCand(1) /\ inbox' = inbox
  BY DEF _step, Idle
<1>2. /\ downFor' \in [Nodes -> 0..Deadline]
      /\ \A n \in Nodes : up'[n] => downFor'[n] = 0
      /\ \A n \in Nodes : downFor'[n] <= downFor[n] + 1
  BY <1>t, CountingFits DEF Fading
<1>3. ASSUME NEW c \in cand
      PROVE  LET a == [c EXCEPT !.age = Saturated(c.age + 1, RouteLifetime)]
             IN downFor'[a.dest] <= Worth(a.hops - 1) + (Spent(a))'
  <2> DEFINE a == [c EXCEPT !.age = Saturated(c.age + 1, RouteLifetime)]
  <2>1. c \in Candidate /\ c.dest \in Nodes /\ c.at \in Nodes /\ c.age \in 0..(RouteLifetime + 1)
    BY <1>t DEF TypeOK, Candidate
  <2>2. a.dest = c.dest /\ a.hops = c.hops /\ a.at = c.at
        /\ a.age = Saturated(c.age + 1, RouteLifetime)
    BY <2>1 DEF Candidate
  <2> HIDE DEF a
  <2>3. (Spent(a))' = a.age
    BY <1>1, <2>1, <2>2 DEF Spent
  <2>4. Spent(c) + 1 <= a.age /\ Spent(c) \in Nat /\ a.age \in Nat
    BY <1>1, <2>1, <2>2, Numbers DEF Spent, Saturated
  <2>5. Worth(c.hops - 1) \in Nat
    BY <2>1, SpentFits
  <2>6. downFor[c.dest] <= Worth(c.hops - 1) + Spent(c)
    BY DEF Fading
  <2>7. downFor'[c.dest] <= downFor[c.dest] + 1 /\ downFor'[c.dest] \in Nat
        /\ downFor[c.dest] \in Nat
    BY <1>2, <2>1, DeadlineFits DEF Fading
  <2>8. downFor'[c.dest] <= Worth(c.hops - 1) + a.age
    BY <2>4, <2>5, <2>6, <2>7
  <2> QED BY <2>2, <2>3, <2>8 DEF a
<1>4. \A c \in cand' : downFor'[c.dest] <= Worth(c.hops - 1) + (Spent(c))'
  BY <1>1, <1>3 DEF AgedCand
<1>5. \A n \in Nodes : inbox'[n] = {}
  BY <1>1, <1>t DEF FramesTravelLinks
<1> QED BY <1>2, <1>4, <1>5 DEF Fading

LEMMA ExpiryFades ==
  ASSUME Sound, Sound', Fading, CountsSteps, Expiry
  PROVE  Fading'
<1>t. TypeOK /\ ctl.phase = "expiring" /\ inbox' = inbox /\ ~Stepping
  BY DEF Sound, Expiry, ExpireNeighbor, expire_routes, EndExpiry, Stepping
<1>i. \A n \in Nodes : inbox'[n] \subseteq inbox[n]
  BY <1>t
<1>1. ASSUME NEW n \in Nodes, NEW m \in Nodes, ExpireNeighbor(n, m) PROVE Fading'
  <2>1. cand' \subseteq cand /\ ctl'.phase = ctl.phase /\ ctl'.left = ctl.left
    BY <1>1, <1>t DEF ExpireNeighbor, TypeOK
  <2> QED BY <1>t, <1>i, <2>1, FewerFade
<1>2. ASSUME NEW n \in Nodes, expire_routes(n) PROVE Fading'
  <2>1. /\ cand' = {c \in cand : c.at = n => /\ c.age <= RouteLifetime
                                            /\ c.via \in Neighbors(n, heard)}
        /\ ctl'.phase = "expiring" /\ ctl'.left = ctl.left \ {n}
    BY <1>2, <1>t DEF expire_routes, TypeOK
  <2>2. ASSUME NEW c \in cand'
        PROVE  \E k \in cand : k.dest = c.dest /\ k.hops = c.hops /\ Spent(k) <= (Spent(c))'
    <3>1. c \in cand /\ c \in Candidate /\ c.age \in Nat /\ (c.at = n => c.age <= RouteLifetime)
      BY <2>1, <1>t, Numbers DEF TypeOK, Candidate
    <3>2. (Spent(c))' = Spent(c) /\ Spent(c) \in Nat
      BY <2>1, <3>1, <1>t, Numbers DEF Spent
    <3> QED BY <3>1, <3>2
  <2> QED BY <1>t, <1>i, <2>2, FadingStays
<1>3. CASE EndExpiry
  <2>1. cand' = cand /\ ctl.left = {} /\ ctl'.phase # "expiring"
    BY <1>3 DEF EndExpiry, EnterControl, Idle
  <2> QED BY <1>t, <1>i, <2>1, FewerFade
<1> QED BY <1>1, <1>2, <1>3 DEF Expiry

(* A node that advertises is up; what it says of another destination is one*)
(* of its candidates, at most a lifetime old.                              *)
LEMMA RoundFades ==
  ASSUME Sound, Sound', Supporting, Fading, CountsSteps, Round
  PROVE  Fading'
<1>t. TypeOK
  BY DEF Sound
<1>l. PICK load \in Loads : Broadcast(load)
  BY DEF Round
<1> DEFINE errors(n) == {[kind |-> "RERR", from |-> e.from, dest |-> e.dest] :
                           e \in {x \in ctl.errs : x.from = n}}
           sent(n) == IF up[n] THEN errors(n) \union
                                    (IF n \in ctl.todo THEN advertisements_for(n, load[n]) ELSE {})
                      ELSE {}
<1>1. /\ \A n \in Nodes : inbox'[n] \subseteq UNION {sent(k) : k \in Nodes}
      /\ ctl.phase = "rounds" /\ ~Stepping /\ up' = up
  BY <1>l DEF Broadcast, Stepping
<1>2. ctl'.phase = "drain"
  BY <1>l, <1>t DEF Broadcast, TypeOK
<1>3. PICK t \in AirTime : cand' = AgedCand(t)
  BY Zenon, <1>l DEF Broadcast
<1>4. /\ downFor' \in [Nodes -> 0..Deadline]
      /\ \A n \in Nodes : up'[n] => downFor'[n] = 0
      /\ \A n \in Nodes : downFor'[n] <= downFor[n]
  BY <1>1, <1>t, CountingFits DEF Fading
<1>5. ASSUME NEW c \in cand
      PROVE  LET a == [c EXCEPT !.age = Saturated(c.age + t, RouteLifetime)]
             IN downFor'[a.dest] <= Worth(a.hops - 1) + (Spent(a))'
  <2> DEFINE a == [c EXCEPT !.age = Saturated(c.age + t, RouteLifetime)]
  <2>1. c \in Candidate /\ c.dest \in Nodes /\ c.age \in Nat /\ t \in Nat
    BY <1>t, Numbers DEF TypeOK, Candidate
  <2>2. a.dest = c.dest /\ a.hops = c.hops
        /\ a.age = Saturated(c.age + t, RouteLifetime)
    BY <2>1 DEF Candidate
  <2> HIDE DEF a
  <2>3. (Spent(a))' = IF a.age > RouteLifetime THEN RouteLifetime ELSE a.age
    BY <1>2 DEF Spent
  <2>4. Spent(c) = IF c.age > RouteLifetime THEN RouteLifetime ELSE c.age
    BY <1>1 DEF Spent
  <2>5. Spent(c) <= (Spent(a))' /\ Spent(c) \in Nat /\ (Spent(a))' \in Nat
    BY <2>1, <2>2, <2>3, <2>4, Numbers DEF Saturated
  <2>6. Worth(c.hops - 1) \in Nat
    BY <2>1, SpentFits
  <2>7. downFor[c.dest] <= Worth(c.hops - 1) + Spent(c)
    BY DEF Fading
  <2>8. downFor'[c.dest] <= downFor[c.dest] /\ downFor'[c.dest] \in Nat
        /\ downFor[c.dest] \in Nat
    BY <1>4, <2>1, DeadlineFits DEF Fading
  <2>9. downFor'[c.dest] <= Worth(c.hops - 1) + (Spent(a))'
    BY <2>5, <2>6, <2>7, <2>8
  <2> QED BY <2>2, <2>9 DEF a
<1>6. \A c \in cand' : downFor'[c.dest] <= Worth(c.hops - 1) + (Spent(c))'
  BY <1>3, <1>5 DEF AgedCand
<1>7. ASSUME NEW k \in Nodes, NEW m \in sent(k), m.kind = "RA"
      PROVE  downFor'[m.dest] <= Worth(m.hops)
  <2>1. up[k] /\ m \in advertisements_for(k, load[k])
    BY <1>7
  <2>2. CASE m.dest = k /\ m.hops = 0
    <3>1. downFor'[k] = 0
      BY <1>1, <1>4, <2>1
    <3>2. Worth(0) \in Nat
      BY WorthOfHops
    <3> QED BY <2>2, <3>1, <3>2
  <2>3. CASE \E d \in Nodes : /\ route[k][d] # NoRoute
                              /\ m.dest = d /\ m.hops = route[k][d].hops
    <3>1. PICK d \in Nodes : /\ route[k][d] # NoRoute
                             /\ m.dest = d /\ m.hops = route[k][d].hops
      BY <2>3
    <3>2. PICK c \in cand : c.dest = d /\ c.hops = m.hops
      BY <3>1 DEF Supporting, BoundedBy, Supported
    <3>3. c \in Candidate /\ c.hops - 1 \in Nat /\ c.hops - 1 + 1 = c.hops
      BY <1>t, Numbers DEF TypeOK, Candidate
    <3>4. Spent(c) <= RouteLifetime /\ Spent(c) \in Nat
      BY <1>1, <3>3, SpentFits
    <3>5. Worth(c.hops) = Worth(c.hops - 1) + RouteLifetime + 1 /\ Worth(c.hops - 1) \in Nat
      <4>1. Worth(c.hops - 1 + 1) = Worth(c.hops - 1) + RouteLifetime + 1
            /\ Worth(c.hops - 1) \in Nat
        BY <3>3, WorthOfHops
      <4> QED BY <3>3, <4>1
    <3>6. downFor[d] <= Worth(c.hops - 1) + Spent(c)
      BY <3>2 DEF Fading
    <3>7. downFor'[d] <= downFor[d] /\ downFor'[d] \in Nat /\ downFor[d] \in Nat
      BY <1>4, DeadlineFits DEF Fading
    <3>8. downFor'[d] <= Worth(c.hops)
      BY <3>4, <3>5, <3>6, <3>7, Numbers
    <3> QED BY <3>1, <3>2, <3>8
  <2> QED BY <2>1, <2>2, <2>3 DEF advertisements_for
<1> HIDE DEF sent
<1>8. \A n \in Nodes : \A m \in inbox'[n] : m.kind = "RA" => downFor'[m.dest] <= Worth(m.hops)
  BY <1>1, <1>7
<1> QED BY <1>4, <1>6, <1>8 DEF Fading

(* A handled frame leaves the candidates as they are, drops one or learns  *)
(* one that is one hop further from what the frame said.                   *)
LEMMA HandlingFades ==
  ASSUME Sound, Sound', Fading, CountsSteps, NEW n \in Nodes, NEW m \in inbox[n],
         Deliver(n, m) \/ Suppress(n, m)
  PROVE  Fading'
<1>t. TypeOK
  BY DEF Sound
<1>a. Arrives(n, m) /\ UNCHANGED ctl
  BY DEF Deliver, Suppress, Lose, AcceptAdvertisement, RejectAdvertisement,
         AcceptError, RejectError
<1>1. ctl.phase = "drain" /\ ~Stepping /\ \A k \in Nodes : inbox'[k] \subseteq inbox[k]
  BY <1>a, <1>t DEF Arrives, Deliverable, TypeOK, Stepping
<1>2. CASE cand' \subseteq cand
  BY <1>a, <1>1, <1>2, FewerFade
<1>3. CASE AcceptAdvertisement(n, m)
  <2>h. PICK hop \in LinkCosts[<<n, m.from>>][m.dest] : Accepts(n, m, hop)
    BY <1>3, AcceptanceMeans
  <2> DEFINE kept == {c \in cand : ~(c.at = n /\ c.dest = m.dest /\ c.via = m.from)}
             l == Learned(n, m, hop)
  <2>1. cand' = kept \union {l} /\ m.kind = "RA"
    BY <2>h DEF Accepts
  <2>2. l.dest = m.dest /\ l.hops = m.hops + 1 /\ l.age = 0
    BY DEF Learned
  <2>3. m \in Advertisement /\ m.dest \in Nodes /\ m.hops \in Nat
    BY <2>1, <1>t, Numbers DEF TypeOK, Advertisement, RouteError
  <2>4. /\ downFor' \in [Nodes -> 0..Deadline]
        /\ \A k \in Nodes : up'[k] => downFor'[k] = 0
        /\ \A k \in Nodes : downFor'[k] <= downFor[k]
    BY <1>1, <1>t, CountingFits DEF Fading
  <2> HIDE DEF l
  <2>5. \A d \in Nodes : downFor'[d] \in Nat /\ downFor[d] \in Nat
    BY <2>4, DeadlineFits DEF Fading
  <2>6. downFor'[l.dest] <= Worth(l.hops - 1) + (Spent(l))'
    <3>1. l.hops - 1 = m.hops /\ Worth(m.hops) \in Nat
      BY <2>2, <2>3, WorthOfHops
    <3>2. (Spent(l))' = 0
      BY <2>2, <1>a, <1>1, Numbers DEF Spent
    <3>3. downFor[m.dest] <= Worth(m.hops)
      BY <2>1 DEF Fading
    <3>4. downFor'[m.dest] <= Worth(m.hops) + 0
      BY <2>3, <2>4, <2>5, <3>1, <3>3
    <3> QED BY <2>2, <3>1, <3>2, <3>4
  <2>7. ASSUME NEW c \in kept
        PROVE  downFor'[c.dest] <= Worth(c.hops - 1) + (Spent(c))'
    <3>1. c \in cand /\ c \in Candidate /\ c.dest \in Nodes
      BY <1>t DEF TypeOK, Candidate
    <3>2. (Spent(c))' = Spent(c) /\ Spent(c) \in Nat /\ Worth(c.hops - 1) \in Nat
      BY <3>1, <1>a, SpentFits DEF Spent
    <3>3. downFor[c.dest] <= Worth(c.hops - 1) + Spent(c)
      BY <3>1 DEF Fading
    <3> QED BY <2>4, <2>5, <3>1, <3>2, <3>3
  <2>8. \A c \in cand' : downFor'[c.dest] <= Worth(c.hops - 1) + (Spent(c))'
    BY <2>1, <2>6, <2>7
  <2>9. ASSUME NEW k \in Nodes, NEW f \in inbox'[k], f.kind = "RA"
        PROVE  downFor'[f.dest] <= Worth(f.hops)
    <3>1. f \in inbox[k] /\ f \in Advertisement /\ f.dest \in Nodes /\ f.hops \in Nat
      BY <2>9, <1>1, <1>t, Numbers DEF TypeOK, Advertisement, RouteError
    <3>2. downFor[f.dest] <= Worth(f.hops) /\ Worth(f.hops) \in Nat
      BY <2>9, <3>1, WorthOfHops DEF Fading
    <3> QED BY <2>4, <2>5, <3>1, <3>2
  <2> QED BY <2>4, <2>8, <2>9 DEF Fading
<1> QED BY <1>2, <1>3 DEF Deliver, Suppress, Lose, RejectAdvertisement, AcceptError, RejectError

Lasting == Correct /\ Supporting /\ Fading

LEMMA EditsFade == Lasting /\ [EditNext]_editVars => Lasting'
<1> SUFFICES ASSUME Lasting, [EditNext]_editVars PROVE Fading'
  BY EditCorrect, EditsSupporting DEF Lasting
<1>t. TypeOK /\ FramesTravelLinks /\ Sound /\ Sound' /\ Supporting /\ Fading
      /\ member \subseteq Nodes
  BY EditCorrect DEF Lasting, Correct, Sound
<1>8. CASE UNCHANGED editVars
  BY <1>8, <1>t DEF editVars, meshVars, vars, Fading, Spent
<1>9. CASE EditNext
  <2>s. CountsSteps
    BY <1>9 DEF EditNext
  <2>1. ASSUME NEW x \in Nodes, remove_node(x) PROVE Fading'
    <3>1. ctl.phase = "idle" /\ ctl'.phase = "rounds" /\ cand' \subseteq cand /\ inbox' = inbox
      BY <2>1 DEF remove_node, EnterControl
    <3> QED BY <3>1, <2>s, <1>t, FewerFade DEF Stepping
  <2>2. ASSUME NEW x \in Nodes, add_node(x) PROVE Fading'
    <3>1. ctl.phase = "idle" /\ cand' = {} /\ inbox' = inbox
      BY <2>2 DEF add_node, Rediscover
    <3>2. \A n \in Nodes : inbox'[n] = {}
      BY <3>1, <1>t DEF FramesTravelLinks
    <3> QED BY <3>1, <3>2, <2>s, <1>t, RenewalFades
  <2>3. ASSUME NEW n \in Nodes, NEW m \in inbox[n], Suppress(n, m) PROVE Fading'
    BY <2>3, <2>s, <1>t, HandlingFades
  <2>4. CASE Environment
    BY <2>4, <2>s, <1>t, EnvironmentFades
  <2>5. CASE _step
    BY <2>5, <2>s, <1>t, StepFades
  <2>6. CASE Expiry
    BY <2>6, <2>s, <1>t, ExpiryFades
  <2>7. CASE Control
    <3>1. CASE Round
      BY <3>1, <2>s, <1>t, RoundFades
    <3>2. ASSUME NEW n \in Nodes, NEW m \in inbox[n], Deliver(n, m) PROVE Fading'
      BY <3>2, <2>s, <1>t, HandlingFades
    <3>3. CASE EndRound \/ Finish
      <4>1. cand' = cand /\ inbox' = inbox /\ ctl.phase \in {"rounds", "drain"}
        BY <3>3 DEF EndRound, Finish
      <4>2. EndRound => ctl'.phase # "expiring"
        BY <1>t DEF EndRound, TypeOK
      <4>3. Finish => ctl'.phase # "expiring"
        BY DEF Finish, Idle
      <4>4. ctl'.phase # "expiring" /\ ctl.phase # "expiring" /\ ~Stepping
        BY <3>3, <4>1, <4>2, <4>3 DEF Stepping
      <4> QED BY <4>1, <4>4, <2>s, <1>t, FewerFade
    <3> QED BY <2>7, <3>1, <3>2, <3>3 DEF Control
  <2> QED BY <1>9, <1>t, <2>1, <2>2, <2>3, <2>4, <2>5, <2>6, <2>7, EditSteps DEF Next
<1> QED BY <1>8, <1>9

(* An entry is at most MaxHops away from a node that was up.               *)
LEMMA FadedIsGone == Lasting => DeadAreForgotten
<1> SUFFICES ASSUME Lasting, ctl.phase # "expiring", NEW d \in Nodes, downFor[d] = Deadline,
                    NEW n \in Nodes, route[n][d] # NoRoute
             PROVE  FALSE
  BY DEF DeadAreForgotten
<1>1. PICK c \in cand : c.dest = d
  BY DEF Lasting, Supporting, BoundedBy, Supported
<1>2. c \in Candidate
  BY DEF Lasting, Correct, Sound, TypeOK
<1>3. Spent(c) <= RouteLifetime /\ Spent(c) \in Nat /\ Worth(c.hops - 1) \in Nat
  BY <1>2, SpentFits
<1>4. downFor[d] <= Worth(c.hops - 1) + Spent(c)
  BY <1>1 DEF Lasting, Fading
<1>5. MaxHops - 1 \in Nat /\ c.hops - 1 \in Nat /\ c.hops - 1 <= MaxHops - 1
  BY <1>2, RouteAssumption DEF Candidate
<1>6. Worth(c.hops - 1) <= Worth(MaxHops - 1) /\ Worth(MaxHops - 1) \in Nat
  BY <1>5, WorthOfHops
<1>7. Deadline = Worth(MaxHops - 1) + RouteLifetime + 1
  <2>1. Worth(MaxHops - 1 + 1) = Worth(MaxHops - 1) + RouteLifetime + 1
    BY <1>5, WorthOfHops
  <2>2. MaxHops - 1 + 1 = MaxHops
    BY Numbers
  <2> QED BY <2>1, <2>2 DEF Deadline, Worth
<1> QED BY <1>3, <1>4, <1>6, <1>7, Numbers, DeadlineFits

(* In every mesh, whatever fails, is deleted, placed, lost or taken for a  *)
(* duplicate: once a node has been down for MaxHops * (RouteLifetime + 1)  *)
(* steps, no node holds a route to it (expire_routes and                   *)
(* process_advertisement of decentralized_routing.py).                     *)
THEOREM DeadlineHolds == EditSpec => []DeadAreForgotten
<1>1. EditInit => Lasting
  <2> SUFFICES ASSUME EditInit PROVE Lasting
    OBVIOUS
  <2>1. Correct
    BY InitSound DEF EditInit, Correct
  <2>2. BoundedBy(0)
    BY DEF EditInit, Init, BoundedBy, Supported, NoRoute
  <2>3. downFor \in [Nodes -> 0..Deadline]
    BY DeadlineFits DEF EditInit
  <2>4. Fading
    BY <2>3 DEF EditInit, Init, Fading
  <2> QED BY <2>1, <2>2, <2>4 DEF Lasting, Supporting
<1> QED BY <1>1, EditsFade, FadedIsGone, PTL DEF EditSpec

=============================================================================
