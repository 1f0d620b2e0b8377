------------------------- MODULE RouteControl_proofs -------------------------
(***************************************************************************)
(* Proofs about RouteControl, for every set of nodes, every topology and   *)
(* every choice of timers, costs and limits.                               *)
(*                                                                         *)
(* First the selection: Best and Newest, defined with CHOOSE and with a    *)
(* bound, pick something whenever there is something to pick.  Minima of   *)
(* sets of naturals exist because < is well founded on Nat.                *)
(***************************************************************************)
EXTENDS RouteLoops, WellFoundedInduction, TLAPS

NatLess == {ss \in Nat \X Nat : ss[1] < ss[2]}

LEMMA NatLessIsOrder == OpToRel(<, Nat) = NatLess
  BY Zenon DEF OpToRel, NatLess

(* Every nonempty set of naturals has a least element.                     *)
LEMMA LeastNat ==
  ASSUME NEW S \in SUBSET Nat, S # {}
  PROVE  \E k \in S : \A j \in S : k <= j
<1>1. IsWellFoundedOn(NatLess, Nat)
  BY NatLessThanWellFounded, NatLessIsOrder, Zenon
<1>2. PICK k \in S : \A j \in S : ~(<<j, k>> \in NatLess)
  BY <1>1, WFMin, Zenon
<1>3. \A j \in Nat : j < k => <<j, k>> \in NatLess
  BY DEF NatLess
<1>4. \A j \in S : ~(j < k)
  BY <1>2, <1>3
<1> QED BY <1>4

(* The facts about the constants that the proofs need.                     *)
LEMMA Numbers ==
  /\ \A n \in Nodes : n \in Nat
  /\ \A l \in Links : l \in Nodes \X Nodes /\ <<l[2], l[1]>> \in Links
  /\ \A l \in Links, d \in Nodes : LinkCosts[l][d] \subseteq Nat
  /\ \A p \in Penalties : p \in Nat
  /\ \A t \in AirTime : t \in Nat
  /\ RecoveredPenalty \in Nat /\ MaxHops \in Nat /\ Hysteresis \in Nat
  /\ RouteLifetime \in Nat /\ NeighborTimeout \in Nat
  /\ AdvertInterval \in Nat /\ RoundLimit \in Nat
BY RouteAssumption

(* A nonempty set of candidates has a preferred one, and Best is it.       *)
LEMMA BestExists ==
  ASSUME NEW S \in SUBSET Candidate, S # {}
  PROVE  Best(S) \in S /\ \A o \in S : Preferred(Best(S), o)
<1> DEFINE costs == {c.cost : c \in S}
<1>1. costs \in SUBSET Nat /\ costs # {}
  BY DEF Candidate
<1>2. PICK k \in costs : \A j \in costs : k <= j
  BY <1>1, LeastNat
<1> DEFINE S1 == {c \in S : c.cost = k}
           hops == {c.hops : c \in S1}
<1>3. hops \in SUBSET Nat /\ hops # {}
  BY Numbers DEF Candidate
<1>4. PICK h \in hops : \A j \in hops : h <= j
  BY <1>3, LeastNat
<1> DEFINE S2 == {c \in S1 : c.hops = h}
           vias == {c.via : c \in S2}
<1>5. vias \in SUBSET Nat /\ vias # {}
  BY Numbers DEF Candidate
<1>6. PICK v \in vias : \A j \in vias : v <= j
  BY <1>5, LeastNat
<1>7. PICK b \in S2 : b.via = v
  BY <1>6
<1>8. \A o \in S : Preferred(b, o)
  <2> TAKE o \in S
  <2>1. b.cost = k /\ b.hops = h /\ b.via = v
    BY <1>7
  <2>2. k \in Nat /\ h \in Nat /\ v \in Nat
    BY <1>1, <1>3, <1>5
  <2>3. o.cost \in Nat /\ o.hops \in Nat /\ o.via \in Nat
    BY Numbers DEF Candidate
  <2>4. k <= o.cost
    BY <1>2
  <2>5. o.cost = k => h <= o.hops
    BY <1>4
  <2>6. o.cost = k /\ o.hops = h => v <= o.via
    BY <1>6
  <2> QED BY <2>1, <2>2, <2>3, <2>4, <2>5, <2>6 DEF Preferred
<1> QED BY <1>7, <1>8 DEF Best

(* A nonempty set of candidates whose sequences are bounded has a newest.  *)
LEMMA NewestExists ==
  ASSUME NEW S \in SUBSET Candidate, S # {}, NEW bound \in Nat,
         \A c \in S : c.seq <= bound
  PROVE  Newest(S) # {}
<1> DEFINE lags == {bound - c.seq : c \in S}
<1>1. lags \in SUBSET Nat /\ lags # {}
  BY DEF Candidate
<1>2. PICK k \in lags : \A j \in lags : k <= j
  BY <1>1, LeastNat
<1>3. PICK c \in S : bound - c.seq = k
  BY <1>2
<1>4. \A o \in S : bound - c.seq <= bound - o.seq
  BY <1>2, <1>3
<1>5. \A o \in S : o.seq <= c.seq
  BY <1>4 DEF Candidate
<1> QED BY <1>5 DEF Newest

-----------------------------------------------------------------------------
(* What a selection returns.                                               *)

LEMMA SelectedIsMember ==
  ASSUME NEW S \in SUBSET Candidate, S # {}, NEW current
  PROVE  Selected(S, current) \in S
BY BestExists DEF Selected

(* The entry made from a nonempty set of candidates.                       *)
LEMMA RouteOverMember ==
  ASSUME NEW S \in SUBSET Candidate, S # {}, NEW current
  PROVE  LET r == RouteOver(S, current) IN
         /\ r \in Route /\ r # NoRoute
         /\ \E c \in S : /\ c.via = r.next /\ c.hops = r.hops
                         /\ c.cost = r.cost /\ c.seq = r.seq
         /\ r.backup # NoNode => r.backup # r.next /\ \E c \in S : c.via = r.backup
<1> DEFINE sel == Selected(S, current)
           others == {c \in S : c.via # sel.via}
           r == RouteOver(S, current)
<1>1. sel \in S
  BY SelectedIsMember
<1>2. others # {} => Best(others) \in others
  BY BestExists
<1>3. r = [next |-> sel.via, hops |-> sel.hops, cost |-> sel.cost, seq |-> sel.seq,
           backup |-> IF others = {} THEN NoNode ELSE Best(others).via]
  BY DEF RouteOver
<1> HIDE DEF sel, r
<1>4. sel \in Candidate
  BY <1>1
<1>5. sel.via \in Nodes /\ sel.hops \in 1..MaxHops /\ sel.cost \in Nat /\ sel.seq \in Nat
  BY <1>4 DEF Candidate
<1>6. CASE others = {}
  <2>1. r = [next |-> sel.via, hops |-> sel.hops, cost |-> sel.cost, seq |-> sel.seq,
             backup |-> NoNode]
    BY <1>3, <1>6
  <2>2. r \in Route
    BY <2>1, <1>5 DEF Route
  <2>3. r # NoRoute
    BY <2>1, <1>5, Numbers DEF NoRoute
  <2> QED BY <2>1, <2>2, <2>3, <1>1 DEF r
<1>7. CASE others # {}
  <2>1. PICK b \in others : r = [next |-> sel.via, hops |-> sel.hops, cost |-> sel.cost,
                                 seq |-> sel.seq, backup |-> b.via]
    BY <1>2, <1>3, <1>7
  <2>2. b \in S /\ b.via # sel.via /\ b.via \in Nodes
    BY DEF Candidate
  <2>3. r \in Route
    BY <2>1, <2>2, <1>5 DEF Route
  <2>4. r # NoRoute
    BY <2>1, <1>5, Numbers DEF NoRoute
  <2> QED BY <2>1, <2>2, <2>3, <2>4, <1>1 DEF r
<1> QED BY <1>6, <1>7

(* _select_route on any candidates: a route or none; an entry if and only  *)
(* if something could be selected.                                         *)
LEMMA SelectionFits ==
  ASSUME NEW n \in Nodes, NEW d \in Nodes, NEW C \in SUBSET Candidate, NEW H
  PROVE  _select_route(n, d, C, H) \in Route \union {NoRoute}
<1> DEFINE S == Newest(Live(n, d, C, H))
<1>1. S \in SUBSET Candidate
  BY DEF Newest, Live
<1>2. CASE S = {}
  BY <1>2 DEF _select_route, RouteOver
<1>3. CASE S # {}
  BY <1>1, <1>3, RouteOverMember DEF _select_route
<1> QED BY <1>2, <1>3

(* When the sequences known for d are bounded, the selection leaves n with *)
(* an entry that is backed by the candidates it was made from.             *)
LEMMA SelectionBacked ==
  ASSUME NEW n \in Nodes, NEW d \in Nodes, NEW C \in SUBSET Candidate, NEW H,
         NEW bound \in Nat, \A c \in C : c.dest = d => c.seq <= bound
  PROVE  Backed(n, d, _select_route(n, d, C, H), C, H)
<1> DEFINE live == Live(n, d, C, H)
           S == Newest(live)
           r == _select_route(n, d, C, H)
<1>1. /\ live \in SUBSET Candidate /\ live \subseteq C
      /\ \A c \in live : c.at = n /\ c.dest = d /\ c.via \in Neighbors(n, H)
  BY DEF Live
<1>2. S \in SUBSET Candidate /\ S \subseteq live
  BY <1>1 DEF Newest
<1>3. \A c \in S : \A o \in live : o.seq <= c.seq
  BY DEF Newest
<1>4. CASE live = {}
  BY <1>2, <1>4 DEF Backed, _select_route, RouteOver
<1>5. CASE live # {}
  <2>1. S # {}
    BY <1>1, <1>5, NewestExists
  <2>2. r = RouteOver(S, route[n][d])
    BY DEF _select_route
  <2>3. /\ r # NoRoute
        /\ \E c \in S : c.via = r.next /\ c.hops = r.hops /\ c.cost = r.cost /\ c.seq = r.seq
        /\ r.backup # NoNode => r.backup # r.next /\ \E c \in S : c.via = r.backup
    BY <1>2, <2>1, <2>2, RouteOverMember
  <2>4. PICK c \in S : c.via = r.next /\ c.hops = r.hops /\ c.cost = r.cost /\ c.seq = r.seq
    BY <2>3
  <2>5. \A b \in S : b.seq = r.seq
    <3> TAKE b \in S
    <3>1. b.seq <= c.seq /\ c.seq <= b.seq
      BY <1>2, <1>3
    <3>2. b.seq \in Nat /\ c.seq \in Nat
      BY <1>2 DEF Candidate
    <3> QED BY <2>4, <3>1, <3>2
  <2>6. \A b \in S : /\ b \in C /\ b.at = n /\ b.dest = d /\ b.seq = r.seq
                     /\ b.via \in Neighbors(n, H)
    BY <1>1, <1>2, <2>5
  <2>7. \A o \in live : o.seq <= r.seq
    BY <1>3, <2>4
  <2> HIDE DEF r, S
  <2>8. \E b \in C : /\ b.at = n /\ b.dest = d /\ b.seq = r.seq /\ b.via \in Neighbors(n, H)
                    /\ b.via = r.next /\ b.hops = r.hops /\ b.cost = r.cost
    BY <2>4, <2>6
  <2>9. r.backup # NoNode =>
          /\ r.backup # r.next
          /\ \E b \in C : /\ b.at = n /\ b.dest = d /\ b.seq = r.seq
                         /\ b.via \in Neighbors(n, H) /\ b.via = r.backup
    BY <2>3, <2>6
  <2>10. Backed(n, d, r, C, H)
    BY <2>3, <2>7, <2>8, <2>9 DEF Backed
  <2> QED BY <2>10 DEF r
<1> QED BY <1>4, <1>5

(* The selection keeps the current next hop unless it is no longer among   *)
(* the newest or is beaten by more than the hysteresis.                    *)
LEMMA SelectionSticks ==
  ASSUME NEW n \in Nodes, NEW d \in Nodes, NEW C \in SUBSET Candidate, NEW H,
         NEW k \in Live(n, d, C, H), k.via = route[n][d].next
  PROVE  LET r == _select_route(n, d, C, H) IN
         \/ r = NoRoute
         \/ r.next = k.via
         \/ k.seq < r.seq
         \/ r.cost + Hysteresis < k.cost
<1> DEFINE live == Live(n, d, C, H)
           S == Newest(live)
           cur == route[n][d]
           sel == Selected(S, cur)
           r == _select_route(n, d, C, H)
<1>1. SUFFICES ASSUME S # {}
               PROVE  r.next = k.via \/ k.seq < r.seq \/ r.cost + Hysteresis < k.cost
  BY DEF _select_route, RouteOver
<1>2. live \in SUBSET Candidate /\ S \in SUBSET Candidate /\ S \subseteq live
  BY DEF Live, Newest
<1>3. sel \in S /\ sel \in Candidate
  BY <1>1, <1>2, SelectedIsMember
<1>4. r.next = sel.via /\ r.cost = sel.cost /\ r.seq = sel.seq
  BY <1>1 DEF _select_route, RouteOver
<1> HIDE DEF r
<1>5. CASE k \in S
  <2> DEFINE kept == {c \in S : c.via = cur.next}
             best == Best(S)
  <2>1. k \in kept /\ \A c \in kept : c.via = k.via
    BY <1>5
  <2>2. CASE \E c \in kept : best.via # c.via /\ best.cost + Hysteresis >= c.cost
    <3>1. sel = CHOOSE c \in kept : TRUE
      BY <2>2 DEF Selected
    <3>2. sel \in kept
      BY <2>1, <3>1
    <3> QED BY <2>1, <3>2, <1>4
  <2>3. CASE ~(\E c \in kept : best.via # c.via /\ best.cost + Hysteresis >= c.cost)
    <3>1. sel = best
      BY <2>3 DEF Selected
    <3>2. best.via = k.via \/ ~(best.cost + Hysteresis >= k.cost)
      BY <2>1, <2>3
    <3>3. sel.cost \in Nat /\ k.cost \in Nat /\ Hysteresis \in Nat
      BY <1>2, <1>3, <1>5, Numbers DEF Candidate
    <3>4. sel.via = k.via \/ sel.cost + Hysteresis < k.cost
      BY <3>1, <3>2, <3>3
    <3> QED BY <3>4, <1>4
  <2> QED BY <2>2, <2>3
<1>6. CASE k \notin S
  <2>1. PICK o \in live : ~(o.seq <= k.seq)
    BY <1>6 DEF Newest
  <2>2. o.seq <= sel.seq
    BY <1>3 DEF Newest
  <2>3. o.seq \in Nat /\ k.seq \in Nat /\ sel.seq \in Nat
    BY <1>2, <1>3 DEF Candidate
  <2> QED BY <2>1, <2>2, <2>3, <1>4
<1> QED BY <1>5, <1>6

-----------------------------------------------------------------------------
(* Type correctness.  Frames have to be from nodes in range, because what  *)
(* a node learns from a frame costs what the link it came over costs.      *)

Ages == {Absent} \union 0..(NeighborTimeout + 1)
Entries == Route \union {NoRoute}

LEMMA AgingFits ==
  ASSUME TypeOK, NEW t \in Nat
  PROVE  /\ AgedHeard(t) \in [Nodes -> [Nodes -> Ages]]
         /\ AgedCand(t) \subseteq Candidate
         /\ AgedAdv(t) \in 0..AdvertInterval
<1>1. \A a, limit \in Nat : Saturated(a + t, limit) \in 0..(limit + 1)
  BY DEF Saturated
<1>2. AgedHeard(t) \in [Nodes -> [Nodes -> Ages]]
  <2> SUFFICES ASSUME NEW n \in Nodes, NEW m \in Nodes
               PROVE  (IF heard[n][m] = Absent THEN Absent
                       ELSE Saturated(heard[n][m] + t, NeighborTimeout)) \in Ages
    BY DEF AgedHeard
  <2>1. heard[n][m] = Absent \/ heard[n][m] \in Nat
    BY DEF TypeOK
  <2> QED BY <1>1, <2>1, Numbers DEF Ages
<1>3. AgedCand(t) \subseteq Candidate
  <2> SUFFICES ASSUME NEW c \in cand
               PROVE  [c EXCEPT !.age = Saturated(c.age + t, RouteLifetime)] \in Candidate
    BY DEF AgedCand
  <2>1. c \in Candidate
    BY DEF TypeOK
  <2>2. c.age \in Nat
    BY <2>1, Numbers DEF Candidate
  <2>3. Saturated(c.age + t, RouteLifetime) \in 0..(RouteLifetime + 1)
    BY <1>1, <2>2, Numbers
  <2> QED BY <2>1, <2>3 DEF Candidate
<1>4. AgedAdv(t) \in 0..AdvertInterval
  BY Numbers DEF AgedAdv, TypeOK
<1> QED BY <1>2, <1>3, <1>4

LEMMA HearingFits ==
  ASSUME TypeOK, NEW n \in Nodes, NEW s \in Nodes
  PROVE  HeardFrom(n, s) \in [Nodes -> [Nodes -> Ages]]
BY Numbers DEF HeardFrom, TypeOK, Ages

LEMMA ReselectionFits ==
  ASSUME TypeOK, NEW n \in Nodes, NEW C \in SUBSET Candidate, NEW H
  PROVE  Reselect(n, C, H) \in [Nodes -> Entries]
BY SelectionFits DEF Reselect, TypeOK, Entries

LEMMA TablesFit ==
  ASSUME TypeOK, NEW n \in Nodes, NEW load \in Nat
  PROVE  /\ advertisements_for(n, load) \subseteq Advertisement
         /\ \A m \in advertisements_for(n, load) : m.from = n
<1>1. [kind |-> "RA", from |-> n, dest |-> n, seq |-> seq[n], hops |-> 0,
       cost |-> 0, next |-> NoNode, penalty |-> penalty[n] + load] \in Advertisement
  BY Numbers DEF Advertisement, TypeOK
<1>2. ASSUME NEW d \in Nodes, route[n][d] # NoRoute
      PROVE  [kind |-> "RA", from |-> n, dest |-> d, seq |-> route[n][d].seq,
              hops |-> route[n][d].hops, cost |-> route[n][d].cost,
              next |-> route[n][d].next, penalty |-> penalty[n] + load] \in Advertisement
  <2>1. route[n][d] \in Route
    BY <1>2 DEF TypeOK
  <2>2. penalty[n] + load \in Nat
    BY DEF TypeOK
  <2> QED BY <2>1, <2>2, Numbers DEF Route, Advertisement
<1> QED BY <1>1, <1>2 DEF advertisements_for

(* What accepting m does once its reception has measured the hop.          *)
Accepts(n, m, hop) ==
  /\ m.kind = "RA" /\ Arrives(n, m) /\ Acceptable(n, m)
  /\ heard' = HeardFrom(n, m.from)
  /\ cand' = {c \in cand : ~(c.at = n /\ c.dest = m.dest /\ c.via = m.from)}
                \union {Learned(n, m, hop)}
  /\ route' = [route EXCEPT ![n][m.dest] = _select_route(n, m.dest, cand', heard')]
  /\ pendAdv' = IF _select_route(n, m.dest, cand', heard') = route[n][m.dest]
                THEN pendAdv ELSE pendAdv \union {n}
  /\ UNCHANGED <<up, seq, penalty, pendErr, sinceAdv, ctl>>

LEMMA AcceptanceMeans ==
  ASSUME NEW n, NEW m, AcceptAdvertisement(n, m)
  PROVE  \E hop \in LinkCosts[<<n, m.from>>][m.dest] : Accepts(n, m, hop)
BY DEF AcceptAdvertisement, Accepts

LEMMA LearningFits ==
  ASSUME TypeOK, FramesTravelLinks, NEW n \in Nodes, NEW m \in inbox[n],
         m.kind = "RA", Acceptable(n, m), NEW hop \in LinkCosts[<<n, m.from>>][m.dest]
  PROVE  Learned(n, m, hop) \in Candidate
<1>1. m \in Advertisement
  BY DEF TypeOK, RouteError
<1>2. hop \in Nat
  BY <1>1, Numbers DEF FramesTravelLinks, Advertisement
<1>3. m.hops + 1 \in 1..MaxHops
  BY <1>1, Numbers DEF Acceptable, Advertisement
<1>4. 0 \in 0..(RouteLifetime + 1)
  BY Numbers
<1>5. hop + m.penalty + m.cost \in Nat
  BY <1>1, <1>2 DEF Advertisement
<1> QED BY <1>1, <1>3, <1>4, <1>5 DEF Learned, advertised_route_cost, Candidate, Advertisement

Places == [phase : {"idle", "expiring", "rounds", "drain"}, todo : SUBSET Nodes,
           errs : SUBSET PendingError, left : SUBSET Nodes, rounds : 0..RoundLimit]

LEMMA EnteringFits ==
  ASSUME NEW A \in SUBSET Nodes, NEW E \in SUBSET PendingError, EnterControl(A, E)
  PROVE  ctl' \in Places /\ ctl'.phase = "rounds" /\ pendErr' \subseteq PendingError
BY Numbers DEF EnterControl, Places

LEMMA RediscoveryFits ==
  ASSUME TypeOK, NEW available, Rediscover(available)
  PROVE  /\ heard' \in [Nodes -> [Nodes -> Ages]]
         /\ cand' \subseteq Candidate
         /\ route' \in [Nodes -> [Nodes -> Entries]]
         /\ seq' \in [Nodes -> Nat]
<1>1. PICK found \in SUBSET Links :
        heard' = [n \in Nodes |-> [m \in Nodes |-> IF <<n, m>> \in found THEN 0 ELSE Absent]]
  BY DEF Rediscover, Probes
<1>2. heard' \in [Nodes -> [Nodes -> Ages]]
  BY <1>1, Numbers DEF Ages
<1> QED BY <1>2 DEF Rediscover, Entries, TypeOK

Sound == TypeOK /\ FramesTravelLinks

LEMMA InitSound == Init => Sound
<1> SUFFICES ASSUME Init PROVE Sound
  OBVIOUS
<1>1. TypeOK
  BY Numbers DEF Init, TypeOK, Idle
<1> QED BY <1>1 DEF Sound, Init, FramesTravelLinks, Idle

(* The steps that start or end something and move no frame.                *)
LEMMA EnvironmentSound ==
  ASSUME Sound, Environment
  PROVE  Sound'
<1> USE Numbers
<1>t. TypeOK /\ FramesTravelLinks
  BY DEF Sound
<1>1. CASE discover_neighbors
  <2>1. Rediscover(up) /\ EnterControl(Nodes, pendErr) /\ pendErr \subseteq PendingError
        /\ UNCHANGED <<up, penalty, inbox, pendAdv, sinceAdv>>
    BY <1>1, <1>t DEF discover_neighbors, TypeOK
  <2>2. ctl' \in Places /\ ctl'.phase = "rounds" /\ pendErr' \subseteq PendingError
    BY <2>1, EnteringFits
  <2>3. /\ heard' \in [Nodes -> [Nodes -> Ages]] /\ cand' \subseteq Candidate
        /\ route' \in [Nodes -> [Nodes -> Entries]] /\ seq' \in [Nodes -> Nat]
    BY <2>1, <1>t, RediscoveryFits
  <2>4. ctl.phase = "idle"
    BY <1>1 DEF discover_neighbors
  <2> QED BY <2>1, <2>2, <2>3, <2>4, <1>t
          DEF Sound, TypeOK, FramesTravelLinks, Ages, Entries, Places
<1>2. ASSUME NEW n \in Nodes, recover_communication(n) PROVE Sound'
  <2>1. Rediscover(up') /\ EnterControl(Nodes, pendErr) /\ pendErr \subseteq PendingError
        /\ UNCHANGED <<inbox, pendAdv, sinceAdv>> /\ ctl.phase = "idle"
    BY <1>2, <1>t DEF recover_communication, TypeOK
  <2>2. ctl' \in Places /\ ctl'.phase = "rounds" /\ pendErr' \subseteq PendingError
    BY <2>1, EnteringFits
  <2>3. /\ heard' \in [Nodes -> [Nodes -> Ages]] /\ cand' \subseteq Candidate
        /\ route' \in [Nodes -> [Nodes -> Entries]] /\ seq' \in [Nodes -> Nat]
    BY <2>1, <1>t, RediscoveryFits
  <2>4. up' \in [Nodes -> BOOLEAN] /\ penalty' \in [Nodes -> Nat]
    BY <1>2, <1>t DEF recover_communication, TypeOK
  <2>5. \A k \in Nodes : inbox[k] = {}
    BY <2>1, <1>t DEF FramesTravelLinks
  <2> QED BY <2>1, <2>2, <2>3, <2>4, <2>5, <1>t
          DEF Sound, TypeOK, FramesTravelLinks, Ages, Entries, Places
<1>3. ASSUME NEW n \in Nodes, NEW p \in Penalties, recalculate_routes(n, p) PROVE Sound'
  <2>1. EnterControl({m \in Nodes : up[m]}, pendErr) /\ pendErr \subseteq PendingError
        /\ UNCHANGED <<up, heard, cand, route, inbox, pendAdv, sinceAdv>> /\ ctl.phase = "idle"
    BY <1>3, <1>t DEF recalculate_routes, TypeOK
  <2>2. ctl' \in Places /\ ctl'.phase = "rounds" /\ pendErr' \subseteq PendingError
    <3> DEFINE A == {m \in Nodes : up[m]}
    <3>1. A \in SUBSET Nodes /\ EnterControl(A, pendErr)
      BY <2>1
    <3> QED BY <3>1, <2>1, EnteringFits
  <2>3. seq' \in [Nodes -> Nat] /\ penalty' \in [Nodes -> Nat]
    BY <1>3, <1>t DEF recalculate_routes, TypeOK
  <2> QED BY <2>1, <2>2, <2>3, <1>t DEF Sound, TypeOK, FramesTravelLinks, Places
<1>4. ASSUME NEW x \in Nodes, fail_communication(x) PROVE Sound'
  <2> DEFINE losers == {n \in Nodes : x \in Neighbors(n, heard)}
             H == [n \in Nodes |-> [heard[n] EXCEPT ![x] = Absent]]
             after == [n \in Nodes |->
                         IF n = x THEN [d \in Nodes |-> NoRoute]
                         ELSE IF n \in losers THEN Reselect(n, Without(x), H)
                         ELSE route[n]]
             changed == {p \in (losers \ {x}) \X Nodes : after[p[1]][p[2]] # route[p[1]][p[2]]}
             broken == {p \in changed : after[p[1]][p[2]] = NoRoute}
             A == {p[1] : p \in changed \ broken}
             E == pendErr \union {[from |-> p[1], dest |-> p[2]] : p \in broken}
  <2>1. /\ ctl.phase = "idle" /\ up' = [up EXCEPT ![x] = FALSE]
        /\ heard' = H /\ cand' = Without(x) /\ route' = after
        /\ EnterControl(A, E)
        /\ UNCHANGED <<seq, penalty, inbox, pendAdv, sinceAdv>>
    BY <1>4 DEF fail_communication
  <2>2. Without(x) \in SUBSET Candidate
    BY <1>t DEF Without, TypeOK
  <2>3. after \in [Nodes -> [Nodes -> Entries]]
    <3>1. \A n \in Nodes : Reselect(n, Without(x), H) \in [Nodes -> Entries]
      BY <2>2, <1>t, ReselectionFits
    <3>2. \A n \in Nodes : route[n] \in [Nodes -> Entries]
      BY <1>t DEF TypeOK, Entries
    <3>3. [d \in Nodes |-> NoRoute] \in [Nodes -> Entries]
      BY DEF Entries
    <3> QED BY <3>1, <3>2, <3>3
  <2>4. changed \subseteq Nodes \X Nodes
    OBVIOUS
  <2> HIDE DEF changed
  <2>5. A \in SUBSET Nodes /\ E \in SUBSET PendingError
    <3>1. \A p \in changed : p[1] \in Nodes /\ p[2] \in Nodes
      BY <2>4
    <3>2. \A p \in broken : [from |-> p[1], dest |-> p[2]] \in PendingError
      BY <3>1 DEF PendingError
    <3>3. pendErr \subseteq PendingError
      BY <1>t DEF TypeOK
    <3> QED BY <3>1, <3>2, <3>3
  <2>6. ctl' \in Places /\ ctl'.phase = "rounds" /\ pendErr' \subseteq PendingError
    BY <2>1, <2>5, EnteringFits
  <2>7. heard' \in [Nodes -> [Nodes -> Ages]] /\ up' \in [Nodes -> BOOLEAN]
    BY <2>1, <1>t DEF TypeOK, Ages
  <2>8. \A k \in Nodes : inbox[k] = {}
    BY <2>1, <1>t DEF FramesTravelLinks
  <2> HIDE DEF after, H, A, E
  <2> QED BY <2>1, <2>2, <2>3, <2>6, <2>7, <2>8, <1>t
          DEF Sound, TypeOK, FramesTravelLinks, Ages, Entries, Places
<1> QED BY <1>1, <1>2, <1>3, <1>4 DEF Environment

(* A simulator step and the expiry it starts.                              *)
LEMMA StepSound ==
  ASSUME Sound, _step
  PROVE  Sound'
<1> USE Numbers
<1>t. TypeOK /\ FramesTravelLinks
  BY DEF Sound
<1>1. /\ cand' = AgedCand(1) /\ sinceAdv' = AgedAdv(1) /\ ctl.phase = "idle"
      /\ ctl' = [Idle EXCEPT !.phase = "expiring", !.left = Nodes]
      /\ penalty' \in [Nodes -> Penalties \union {RecoveredPenalty}]
      /\ UNCHANGED <<up, seq, route, inbox, pendAdv, pendErr>>
  BY DEF _step
<1>2. PICK beats \in SUBSET Links :
        heard' = [n \in Nodes |-> [m \in Nodes |->
                    IF <<m, n>> \in beats THEN 0 ELSE AgedHeard(1)[n][m]]]
  BY DEF _step, Beats
<1>3. /\ AgedHeard(1) \in [Nodes -> [Nodes -> Ages]]
      /\ cand' \subseteq Candidate /\ sinceAdv' \in 0..AdvertInterval
  BY <1>1, <1>t, AgingFits
<1>4. heard' \in [Nodes -> [Nodes -> Ages]]
  BY <1>2, <1>3 DEF Ages
<1>5. ctl' \in Places
  <2>1. ctl' = [phase |-> "expiring", todo |-> {}, errs |-> {}, left |-> Nodes, rounds |-> 0]
    BY <1>1 DEF Idle
  <2> QED BY <2>1 DEF Places
<1>7. penalty' \in [Nodes -> Nat]
  BY <1>1
<1>6. \A k \in Nodes : inbox[k] = {}
  BY <1>1, <1>t DEF FramesTravelLinks
<1> QED BY <1>1, <1>3, <1>4, <1>5, <1>6, <1>7, <1>t
        DEF Sound, TypeOK, FramesTravelLinks, Ages, Places

LEMMA ExpirySound ==
  ASSUME Sound, Expiry
  PROVE  Sound'
<1> USE Numbers
<1>t. TypeOK /\ FramesTravelLinks
  BY DEF Sound
<1>1. ASSUME NEW n \in Nodes, NEW m \in Nodes, ExpireNeighbor(n, m) PROVE Sound'
  <2> DEFINE H == [heard EXCEPT ![n][m] = Absent]
             C == {c \in cand : ~(c.at = n /\ c.via = m)}
             after == Reselect(n, C, H)
             broken == {d \in {e \in Nodes : after[e] # route[n][e]} : after[d] = NoRoute}
             E == {[from |-> n, dest |-> d] : d \in broken}
  <2>1. /\ ctl.phase = "expiring" /\ heard' = H /\ cand' = C
        /\ route' = [route EXCEPT ![n] = after]
        /\ pendErr' = pendErr \union E
        /\ \/ ctl' = [ctl EXCEPT !.todo = ctl.todo]
           \/ ctl' = [ctl EXCEPT !.todo = ctl.todo \union {n}]
        /\ UNCHANGED <<up, seq, penalty, inbox, pendAdv, sinceAdv>>
    BY <1>1 DEF ExpireNeighbor
  <2>9. ctl \in Places
    BY <1>t DEF TypeOK, Places
  <2>2. C \in SUBSET Candidate
    BY <1>t DEF TypeOK
  <2>3. after \in [Nodes -> Entries]
    BY <2>2, <1>t, ReselectionFits
  <2>4. heard' \in [Nodes -> [Nodes -> Ages]]
    BY <2>1, <1>t DEF TypeOK, Ages
  <2>5. E \in SUBSET PendingError
    <3>1. \A d \in Nodes : [from |-> n, dest |-> d] \in PendingError
      BY DEF PendingError
    <3> QED BY <3>1
  <2>6. ctl' \in Places /\ ctl'.phase = "expiring"
    <3>1. PICK T \in SUBSET Nodes : ctl' = [ctl EXCEPT !.todo = T]
      BY <2>1, <2>9 DEF Places
    <3> QED BY <3>1, <2>1, <2>9 DEF Places
  <2> HIDE DEF after, H, C, E
  <2>7. route' \in [Nodes -> [Nodes -> Entries]]
    BY <2>1, <2>3, <1>t DEF TypeOK, Entries
  <2> QED BY <2>1, <2>2, <2>4, <2>5, <2>6, <2>7, <1>t
          DEF Sound, TypeOK, FramesTravelLinks, Ages, Entries, Places
<1>2. ASSUME NEW n \in Nodes, expire_routes(n) PROVE Sound'
  <2> DEFINE C == {c \in cand : c.at = n => /\ c.age <= RouteLifetime
                                          /\ c.via \in Neighbors(n, heard)}
             after == Reselect(n, C, heard)
  <2>1. /\ ctl.phase = "expiring" /\ cand' = C
        /\ route' = [route EXCEPT ![n] = after]
        /\ \/ ctl' = [ctl EXCEPT !.left = ctl.left \ {n}, !.todo = ctl.todo]
           \/ ctl' = [ctl EXCEPT !.left = ctl.left \ {n}, !.todo = ctl.todo \union {n}]
        /\ UNCHANGED <<up, seq, penalty, heard, inbox, pendAdv, pendErr, sinceAdv>>
    BY <1>2 DEF expire_routes
  <2>9. ctl \in Places
    BY <1>t DEF TypeOK, Places
  <2>2. C \in SUBSET Candidate
    BY <1>t DEF TypeOK
  <2>3. after \in [Nodes -> Entries]
    BY <2>2, <1>t, ReselectionFits
  <2>4. ctl' \in Places /\ ctl'.phase = "expiring"
    <3>1. PICK T \in SUBSET Nodes, L \in SUBSET Nodes :
            ctl' = [ctl EXCEPT !.left = L, !.todo = T]
      BY <2>1, <2>9 DEF Places
    <3> QED BY <3>1, <2>1, <2>9 DEF Places
  <2> HIDE DEF after, C
  <2>5. route' \in [Nodes -> [Nodes -> Entries]]
    BY <2>1, <2>3, <1>t DEF TypeOK, Entries
  <2> QED BY <2>1, <2>2, <2>4, <2>5, <1>t
          DEF Sound, TypeOK, FramesTravelLinks, Entries, Places
<1>3. CASE EndExpiry
  <2> DEFINE A == ctl.todo \union
                   (IF sinceAdv >= AdvertInterval THEN {n \in Nodes : up[n]} ELSE {})
  <2>1. /\ ctl.phase = "expiring"
        /\ EnterControl(A, pendErr) \/ (ctl' = Idle /\ pendErr' = pendErr)
        /\ UNCHANGED <<up, seq, penalty, heard, cand, route, inbox, pendAdv, sinceAdv>>
    BY <1>3 DEF EndExpiry
  <2>2. A \in SUBSET Nodes /\ pendErr \in SUBSET PendingError
    BY <1>t DEF TypeOK
  <2>3. /\ ctl' \in Places /\ ctl'.phase \in {"rounds", "idle"}
        /\ pendErr' \subseteq PendingError
    <3>1. CASE EnterControl(A, pendErr)
      BY <3>1, <2>2, EnteringFits
    <3>2. CASE ctl' = Idle /\ pendErr' = pendErr
      BY <3>2, <2>2 DEF Idle, Places
    <3> QED BY <2>1, <3>1, <3>2
  <2> QED BY <2>1, <2>3, <1>t DEF Sound, TypeOK, FramesTravelLinks, Places
<1> QED BY <1>1, <1>2, <1>3 DEF Expiry

(* The steps of a control run.                                             *)
LEMMA RoundSound ==
  ASSUME Sound, NEW load \in Loads, Broadcast(load)
  PROVE  Sound'
<1> USE Numbers
<1>t. TypeOK /\ FramesTravelLinks
  BY DEF Sound
<1> DEFINE errors(n) == {[kind |-> "RERR", from |-> e.from, dest |-> e.dest] :
                           e \in {x \in ctl.errs : x.from = n}}
           sent(n) == IF up[n] THEN errors(n) \union
                                    (IF n \in ctl.todo THEN advertisements_for(n, load[n]) ELSE {})
                      ELSE {}
           reaches(k, m) == \/ m \in Neighbors(k, heard)
                            \/ /\ ~Reordering /\ k \in Neighbors(m, heard)
                               /\ sent(m) # {} /\ (m < k \/ errors(m) # {})
           box(m) == UNION {sent(k) : k \in {j \in Nodes : <<j, m>> \in Links /\ reaches(j, m)}}
<1>l. Broadcast(load) /\ \A k \in Nodes : load[k] \in Nat
  BY RouteAssumption
<1>1. /\ inbox' = [m \in Nodes |-> IF up[m] THEN box(m) ELSE {}]
      /\ pendAdv' = {} /\ pendErr' = {} /\ ctl.rounds < RoundLimit
      /\ ctl' = [ctl EXCEPT !.phase = "drain", !.todo = {}, !.errs = {},
                           !.rounds = ctl.rounds + 1]
      /\ UNCHANGED <<up, seq, penalty, route>>
  BY <1>l, Zenon DEF Broadcast, MoreRounds
<1>2. PICK t \in AirTime : /\ heard' = AgedHeard(t) /\ cand' = AgedCand(t)
                           /\ sinceAdv' = AgedAdv(t)
  BY <1>l, Zenon DEF Broadcast
<1>3. /\ heard' \in [Nodes -> [Nodes -> Ages]]
      /\ cand' \subseteq Candidate /\ sinceAdv' \in 0..AdvertInterval
  BY <1>2, <1>t, AgingFits
<1>4. ASSUME NEW k \in Nodes
      PROVE  \A f \in sent(k) : /\ f \in Advertisement \union RouteError
                                /\ f.from = k
  <2>1. \A f \in advertisements_for(k, load[k]) : f \in Advertisement /\ f.from = k
    BY <1>t, <1>l, TablesFit
  <2>2. \A f \in errors(k) : f \in RouteError /\ f.from = k
    <3> SUFFICES ASSUME NEW e \in ctl.errs, e.from = k
                 PROVE  [kind |-> "RERR", from |-> e.from, dest |-> e.dest] \in RouteError
      OBVIOUS
    <3>1. e \in PendingError
      BY <1>t DEF TypeOK
    <3> QED BY <3>1 DEF PendingError, RouteError
  <2> QED BY <2>1, <2>2
<1> HIDE DEF sent
<1>5. ASSUME NEW m \in Nodes
      PROVE  \A f \in box(m) : /\ f \in Advertisement \union RouteError
                               /\ <<m, f.from>> \in Links
  <2> SUFFICES ASSUME NEW j \in Nodes, <<j, m>> \in Links, NEW f \in sent(j)
               PROVE  f \in Advertisement \union RouteError /\ <<m, f.from>> \in Links
    OBVIOUS
  <2>1. f \in Advertisement \union RouteError /\ f.from = j
    BY <1>4
  <2> QED BY <2>1
<1> HIDE DEF box
<1>6. /\ inbox' \in [Nodes -> SUBSET (Advertisement \union RouteError)]
      /\ \A n \in Nodes : ~up[n] => inbox'[n] = {}
      /\ \A n \in Nodes : \A f \in inbox'[n] : <<n, f.from>> \in Links
  BY <1>1, <1>5
<1>7. ctl' \in Places /\ ctl'.phase = "drain"
  <2>1. ctl \in Places
    BY <1>t DEF TypeOK, Places
  <2>2. ctl.rounds + 1 \in 0..RoundLimit /\ ctl.left \in SUBSET Nodes
    BY <1>1, <2>1 DEF Places
  <2>3. ctl' = [phase |-> "drain", todo |-> {}, errs |-> {}, left |-> ctl.left,
                rounds |-> ctl.rounds + 1]
    BY <1>1, <2>1 DEF Places
  <2> QED BY <2>2, <2>3 DEF Places
<1> QED BY <1>1, <1>3, <1>6, <1>7, <1>t
        DEF Sound, TypeOK, FramesTravelLinks, Ages, Places

(* A frame leaves the inbox of a working node while a round is drained.    *)
LEMMA ArrivalSound ==
  ASSUME Sound, NEW n \in Nodes, NEW m \in inbox[n], Arrives(n, m), UNCHANGED <<ctl, up>>
  PROVE  /\ inbox' \in [Nodes -> SUBSET (Advertisement \union RouteError)]
         /\ FramesTravelLinks'
         /\ m.from \in Nodes
         /\ HeardFrom(n, m.from) \in [Nodes -> [Nodes -> Ages]]
<1>t. TypeOK /\ FramesTravelLinks
  BY DEF Sound
<1>1. inbox' = [inbox EXCEPT ![n] = @ \ {m}]
  BY DEF Arrives
<1>2. m.from \in Nodes
  BY <1>t DEF TypeOK, Advertisement, RouteError
<1>3. inbox' \in [Nodes -> SUBSET (Advertisement \union RouteError)]
  BY <1>1, <1>t DEF TypeOK
<1>4. \A k \in Nodes : inbox'[k] \subseteq inbox[k]
  BY <1>1, <1>t DEF TypeOK
<1>5. FramesTravelLinks'
  BY <1>4, <1>t DEF FramesTravelLinks
<1> QED BY <1>2, <1>3, <1>5, <1>t, HearingFits

LEMMA DeliverySound ==
  ASSUME Sound, NEW n \in Nodes, NEW m \in inbox[n], Deliver(n, m)
  PROVE  Sound'
<1> USE Numbers
<1>t. TypeOK /\ FramesTravelLinks
  BY DEF Sound
<1> DEFINE gone == {c \in cand : ~(c.at = n /\ c.dest = m.dest /\ c.via = m.from)}
<1>0. /\ Arrives(n, m) /\ UNCHANGED <<ctl, up, seq, penalty, sinceAdv>>
      /\ gone \in SUBSET Candidate
      /\ m.dest \in Nodes
  <2>1. m.dest \in Nodes
    BY <1>t DEF TypeOK, Advertisement, RouteError
  <2>2. gone \in SUBSET Candidate
    BY <1>t DEF TypeOK
  <2> QED BY <2>1, <2>2 DEF Deliver, Lose, AcceptAdvertisement, RejectAdvertisement,
                            AcceptError, RejectError
<1>1. /\ inbox' \in [Nodes -> SUBSET (Advertisement \union RouteError)]
      /\ FramesTravelLinks'
      /\ HeardFrom(n, m.from) \in [Nodes -> [Nodes -> Ages]]
  BY <1>0, ArrivalSound
<1>2. SUFFICES /\ heard' \in [Nodes -> [Nodes -> Ages]]
               /\ cand' \in SUBSET Candidate
               /\ route' \in [Nodes -> [Nodes -> Entries]]
               /\ pendAdv' \subseteq Nodes /\ pendErr' \subseteq PendingError
  BY <1>0, <1>1, <1>t DEF Sound, TypeOK, Ages, Entries
<1>3. CASE Lose(n, m) \/ RejectAdvertisement(n, m) \/ RejectError(n, m)
  BY <1>3, <1>1, <1>t
     DEF Lose, RejectAdvertisement, RejectError, TypeOK, Ages, Entries
<1>4. CASE AcceptAdvertisement(n, m)
  <2>h. PICK hop \in LinkCosts[<<n, m.from>>][m.dest] : Accepts(n, m, hop)
    BY <1>4, AcceptanceMeans
  <2> DEFINE C == gone \union {Learned(n, m, hop)}
             chosen == _select_route(n, m.dest, C, HeardFrom(n, m.from))
  <2>1. /\ heard' = HeardFrom(n, m.from) /\ cand' = C
        /\ route' = [route EXCEPT ![n][m.dest] = chosen]
        /\ pendAdv' = pendAdv \/ pendAdv' = pendAdv \union {n}
        /\ pendErr' = pendErr
        /\ m.kind = "RA" /\ Acceptable(n, m)
    BY <2>h DEF Accepts
  <2>2. C \in SUBSET Candidate
    BY <2>1, <1>0, <1>t, LearningFits
  <2>3. chosen \in Entries
    BY <2>2, <1>0, SelectionFits DEF Entries
  <2> HIDE DEF C, chosen, gone
  <2> QED BY <2>1, <2>2, <2>3, <1>1, <1>t DEF TypeOK, Ages, Entries
<1>5. CASE AcceptError(n, m)
  <2> DEFINE chosen == _select_route(n, m.dest, gone, HeardFrom(n, m.from))
  <2>1. /\ heard' = HeardFrom(n, m.from) /\ cand' = gone
        /\ route' = [route EXCEPT ![n][m.dest] = chosen]
        /\ \/ /\ pendErr' = pendErr \union {[from |-> n, dest |-> m.dest]}
              /\ pendAdv' = pendAdv
           \/ /\ pendAdv' = pendAdv \union {n}
              /\ pendErr' = pendErr
    BY <1>5 DEF AcceptError
  <2>2. chosen \in Entries
    BY <1>0, SelectionFits DEF Entries
  <2>3. [from |-> n, dest |-> m.dest] \in PendingError
    BY <1>0 DEF PendingError
  <2> HIDE DEF chosen, gone
  <2> QED BY <2>1, <2>2, <2>3, <1>0, <1>1, <1>t DEF TypeOK, Ages, Entries
<1> QED BY <1>3, <1>4, <1>5 DEF Deliver

LEMMA ClosingSound ==
  ASSUME Sound, EndRound \/ Finish
  PROVE  Sound'
<1> USE Numbers
<1>t. TypeOK /\ FramesTravelLinks /\ ctl \in Places
  BY DEF Sound, TypeOK, Places
<1>1. CASE EndRound
  <2>1. ctl' \in Places /\ ctl'.phase = "rounds"
    BY <1>1, <1>t DEF EndRound, TypeOK, Places
  <2> QED BY <1>1, <1>t, <2>1 DEF EndRound, Sound, TypeOK, FramesTravelLinks, Places
<1>2. CASE Finish
  <2>1. ctl' \in Places /\ ctl'.phase = "idle"
    BY <1>2, <1>t DEF Finish, Places, Idle
  <2> QED BY <1>2, <1>t, <2>1 DEF Finish, Sound, TypeOK, FramesTravelLinks, Places
<1> QED BY <1>1, <1>2

LEMMA NextSound == Sound /\ [Next]_vars => Sound'
<1> SUFFICES ASSUME Sound, [Next]_vars PROVE Sound'
  OBVIOUS
<1>1. CASE Environment
  BY <1>1, EnvironmentSound
<1>2. CASE _step
  BY <1>2, StepSound
<1>3. CASE Expiry
  BY <1>3, ExpirySound
<1>4. CASE Control
  BY <1>4, RoundSound, DeliverySound, ClosingSound DEF Control, Round
<1>5. CASE UNCHANGED vars
  BY <1>5 DEF vars, Sound, TypeOK, FramesTravelLinks
<1> QED BY <1>1, <1>2, <1>3, <1>4, <1>5 DEF Next

(* In every run, whatever is lost, reordered, failed or recovered, the     *)
(* tables and the frames of RouteControl have their types: hop counts stay *)
(* within max_hops and control runs within their round limit.              *)
THEOREM TypeCorrect == Spec => []TypeOK
<1>1. Sound => TypeOK
  BY DEF Sound
<1> QED BY <1>1, InitSound, NextSound, PTL DEF Spec

-----------------------------------------------------------------------------
(* No sequence from the future.                                            *)

Known == Sound /\ NoFutureSequence

LEMMA SelectionBounded ==
  ASSUME NEW n \in Nodes, NEW d \in Nodes, NEW C \in SUBSET Candidate, NEW H,
         NEW bound \in Nat, \A c \in C : c.dest = d => c.seq <= bound
  PROVE  _select_route(n, d, C, H).seq <= bound
<1> DEFINE S == Newest(Live(n, d, C, H))
           r == _select_route(n, d, C, H)
<1>1. S \in SUBSET Candidate /\ \A c \in S : c.seq <= bound
  BY DEF Newest, Live
<1>2. CASE S = {}
  BY <1>2 DEF _select_route, RouteOver, NoRoute
<1>3. CASE S # {}
  <2>1. \E c \in S : c.seq = r.seq
    BY <1>1, <1>3, RouteOverMember DEF _select_route
  <2> QED BY <1>1, <2>1
<1> QED BY <1>2, <1>3

LEMMA ReselectionBounded ==
  ASSUME Known, NEW n \in Nodes, NEW d \in Nodes, NEW C \in SUBSET cand, NEW H
  PROVE  Reselect(n, C, H)[d].seq <= seq[d]
<1>1. C \in SUBSET Candidate /\ seq[d] \in Nat
  BY DEF Known, Sound, TypeOK
<1>2. \A c \in C : c.dest = d => c.seq <= seq[d]
  BY DEF Known, NoFutureSequence
<1>3. _select_route(n, d, C, H).seq <= seq[d]
  BY <1>1, <1>2, SelectionBounded
<1>4. route[n][d].seq <= seq[d]
  BY DEF Known, NoFutureSequence
<1> QED BY <1>3, <1>4 DEF Reselect

(* Aging changes nothing of a candidate but its age, and that upwards.     *)
LEMMA AgingKeeps ==
  ASSUME TypeOK, NEW t \in Nat
  PROVE  \A a \in AgedCand(t) : \E c \in cand :
           /\ a.at = c.at /\ a.dest = c.dest /\ a.via = c.via /\ a.hops = c.hops
           /\ a.cost = c.cost /\ a.seq = c.seq
           /\ a.age <= RouteLifetime => c.age <= RouteLifetime
<1> TAKE a \in AgedCand(t)
<1>1. PICK c \in cand : a = [c EXCEPT !.age = Saturated(c.age + t, RouteLifetime)]
  BY DEF AgedCand
<1>2. c \in Candidate /\ c.age \in Nat
  BY Numbers DEF TypeOK, Candidate
<1>3. Saturated(c.age + t, RouteLifetime) <= RouteLifetime => c.age <= RouteLifetime
  BY <1>2, Numbers DEF Saturated
<1>4. /\ a.at = c.at /\ a.dest = c.dest /\ a.via = c.via /\ a.hops = c.hops
      /\ a.cost = c.cost /\ a.seq = c.seq
      /\ a.age = Saturated(c.age + t, RouteLifetime)
  BY <1>1, <1>2 DEF Candidate
<1> QED BY <1>3, <1>4

LEMMA InitKnown == Init => Known
<1> SUFFICES ASSUME Init PROVE Known
  OBVIOUS
<1>1. Sound
  BY InitSound
<1> QED BY <1>1 DEF Known, Init, NoFutureSequence, NoRoute

LEMMA EnvironmentKnown ==
  ASSUME Known, Environment, Sound'
  PROVE  NoFutureSequence'
<1>t. /\ TypeOK /\ FramesTravelLinks /\ NoFutureSequence /\ TypeOK'
      /\ ctl.phase = "idle" /\ inbox' = inbox
  BY DEF Known, Sound, Environment, discover_neighbors, recover_communication,
         recalculate_routes, fail_communication
<1>i. \A n \in Nodes : inbox'[n] = {}
  BY <1>t DEF FramesTravelLinks
<1>1. ASSUME cand' = {}, route' = [n \in Nodes |-> [d \in Nodes |-> NoRoute]]
      PROVE  NoFutureSequence'
  <2>1. \A d \in Nodes : 0 <= seq'[d]
    BY <1>t DEF TypeOK
  <2> QED BY <1>1, <1>i, <2>1 DEF NoFutureSequence, NoRoute
<1>2. CASE discover_neighbors
  BY <1>1, <1>2 DEF discover_neighbors, Rediscover
<1>3. ASSUME NEW n \in Nodes, recover_communication(n) PROVE NoFutureSequence'
  BY <1>1, <1>3 DEF recover_communication, Rediscover
<1>4. ASSUME NEW n \in Nodes, NEW p \in Penalties, recalculate_routes(n, p)
      PROVE  NoFutureSequence'
  <2>1. cand' = cand /\ route' = route
    BY <1>4 DEF recalculate_routes
  <2>2. \A d \in Nodes : seq[d] \in Nat /\ seq[d] <= seq'[d] /\ seq'[d] \in Nat
    BY <1>4, <1>t DEF recalculate_routes, TypeOK
  <2>3. \A c \in cand : c.dest \in Nodes /\ c.seq \in Nat
    BY <1>t DEF TypeOK, Candidate
  <2>4. \A k, d \in Nodes : route[k][d].seq \in Nat
    <3> TAKE k, d \in Nodes
    <3>1. route[k][d] \in Route \/ route[k][d] = NoRoute
      BY <1>t DEF TypeOK
    <3> QED BY <3>1 DEF Route, NoRoute
  <2>5. \A c \in cand : c.seq <= seq'[c.dest]
    BY <2>2, <2>3, <1>t DEF NoFutureSequence
  <2>6. \A k, d \in Nodes : route[k][d].seq <= seq'[d]
    BY <2>2, <2>4, <1>t DEF NoFutureSequence
  <2> QED BY <2>1, <2>5, <2>6, <1>i DEF NoFutureSequence
<1>5. ASSUME NEW x \in Nodes, fail_communication(x) PROVE NoFutureSequence'
  <2> DEFINE H == [n \in Nodes |-> [heard[n] EXCEPT ![x] = Absent]]
             after == [n \in Nodes |->
                         IF n = x THEN [d \in Nodes |-> NoRoute]
                         ELSE IF n \in {k \in Nodes : x \in Neighbors(k, heard)}
                              THEN Reselect(n, Without(x), H)
                         ELSE route[n]]
  <2>1. cand' = Without(x) /\ route' = after /\ seq' = seq
    BY <1>5 DEF fail_communication
  <2>2. Without(x) \subseteq cand
    BY DEF Without
  <2>3. \A n, d \in Nodes : Reselect(n, Without(x), H)[d].seq <= seq[d]
    BY <2>2, ReselectionBounded
  <2>4. \A d \in Nodes : NoRoute.seq <= seq[d]
    BY <1>t DEF NoRoute, TypeOK
  <2>5. \A n, d \in Nodes : after[n][d].seq <= seq[d]
    BY <2>3, <2>4, <1>t DEF NoFutureSequence
  <2> HIDE DEF after
  <2> QED BY <2>1, <2>2, <2>5, <1>i, <1>t DEF NoFutureSequence
<1> QED BY <1>2, <1>3, <1>4, <1>5 DEF Environment

(* The steps at which candidates only age.                                 *)
LEMMA AgingKnown ==
  ASSUME Known, NEW t \in Nat, cand' = AgedCand(t), UNCHANGED <<seq, route>>
  PROVE  /\ \A c \in cand' : c.seq <= seq'[c.dest]
         /\ \A n, d \in Nodes : route'[n][d].seq <= seq'[d]
BY AgingKeeps DEF Known, Sound, NoFutureSequence

LEMMA ExpiryKnown ==
  ASSUME Known, Expiry
  PROVE  NoFutureSequence'
<1>t. TypeOK /\ NoFutureSequence
  BY DEF Known, Sound
<1>1. ASSUME NEW n \in Nodes, NEW C \in SUBSET cand, NEW H,
             cand' = C, route' = [route EXCEPT ![n] = Reselect(n, C, H)],
             UNCHANGED <<seq, inbox>>
      PROVE  NoFutureSequence'
  <2>1. \A d \in Nodes : Reselect(n, C, H)[d].seq <= seq[d]
    BY ReselectionBounded
  <2>2. \A k, d \in Nodes : route'[k][d].seq <= seq[d]
    BY <1>1, <2>1, <1>t DEF TypeOK, NoFutureSequence
  <2> QED BY <1>1, <2>2, <1>t DEF NoFutureSequence
<1>2. ASSUME NEW n \in Nodes, NEW m \in Nodes, ExpireNeighbor(n, m) PROVE NoFutureSequence'
  <2> DEFINE H == [heard EXCEPT ![n][m] = Absent]
             C == {c \in cand : ~(c.at = n /\ c.via = m)}
  <2>1. /\ cand' = C /\ route' = [route EXCEPT ![n] = Reselect(n, C, H)]
        /\ UNCHANGED <<seq, inbox>>
    BY <1>2 DEF ExpireNeighbor
  <2>2. C \in SUBSET cand
    OBVIOUS
  <2> HIDE DEF C, H
  <2> QED BY <2>1, <2>2, <1>1
<1>3. ASSUME NEW n \in Nodes, expire_routes(n) PROVE NoFutureSequence'
  <2> DEFINE C == {c \in cand : c.at = n => /\ c.age <= RouteLifetime
                                          /\ c.via \in Neighbors(n, heard)}
  <2>1. /\ cand' = C /\ route' = [route EXCEPT ![n] = Reselect(n, C, heard)]
        /\ UNCHANGED <<seq, inbox>>
    BY <1>3 DEF expire_routes
  <2>2. C \in SUBSET cand
    OBVIOUS
  <2> HIDE DEF C
  <2> QED BY <2>1, <2>2, <1>1
<1>4. CASE EndExpiry
  BY <1>4, <1>t DEF EndExpiry, NoFutureSequence
<1> QED BY <1>2, <1>3, <1>4 DEF Expiry

LEMMA ControlKnown ==
  ASSUME Known, Control, Sound'
  PROVE  NoFutureSequence'
<1>t. TypeOK /\ FramesTravelLinks /\ NoFutureSequence /\ Sound
  BY DEF Known, Sound
<1>1. CASE Round
  <2>l. PICK load \in Loads : Broadcast(load)
    BY <1>1 DEF Round
  <2> DEFINE errors(n) == {[kind |-> "RERR", from |-> e.from, dest |-> e.dest] :
                             e \in {x \in ctl.errs : x.from = n}}
             sent(n) == IF up[n] THEN errors(n) \union
                                      (IF n \in ctl.todo THEN advertisements_for(n, load[n]) ELSE {})
                        ELSE {}
  <2>1. /\ \A n \in Nodes : inbox'[n] \subseteq UNION {sent(k) : k \in Nodes}
        /\ UNCHANGED <<seq, route>>
    BY <2>l DEF Broadcast
  <2>2. PICK t \in AirTime : cand' = AgedCand(t)
    BY Zenon, <2>l DEF Broadcast
  <2>3. t \in Nat
    BY Numbers
  <2>4. ASSUME NEW k \in Nodes, NEW m \in sent(k), m.kind = "RA"
        PROVE  m.seq <= seq[m.dest]
    <3>1. m \in advertisements_for(k, load[k])
      BY <2>4
    <3>2. seq[k] <= seq[k]
      BY <1>t DEF TypeOK
    <3> QED BY <3>1, <3>2, <1>t DEF advertisements_for, NoFutureSequence
  <2> HIDE DEF sent
  <2>5. \A n \in Nodes : \A m \in inbox'[n] : m.kind = "RA" => m.seq <= seq'[m.dest]
    BY <2>1, <2>4
  <2> QED BY <2>1, <2>2, <2>3, <2>5, AgingKnown DEF NoFutureSequence
<1>2. ASSUME NEW n \in Nodes, NEW m \in inbox[n], Deliver(n, m)
      PROVE  NoFutureSequence'
  <2> DEFINE gone == {c \in cand : ~(c.at = n /\ c.dest = m.dest /\ c.via = m.from)}
  <2>a. UNCHANGED seq /\ Arrives(n, m)
    BY <1>2 DEF Deliver, Lose, AcceptAdvertisement, RejectAdvertisement,
       AcceptError, RejectError
  <2>1. UNCHANGED seq /\ \A k \in Nodes : inbox'[k] \subseteq inbox[k]
    BY <2>a, <1>t DEF Arrives, TypeOK
  <2>2. m.dest \in Nodes /\ seq[m.dest] \in Nat
    BY <1>t DEF TypeOK, Advertisement, RouteError
  <2>3. ASSUME NEW C \in SUBSET Candidate, \A c \in C : c.seq <= seq[c.dest],
               NEW H, cand' = C,
               route' = [route EXCEPT ![n][m.dest] = _select_route(n, m.dest, C, H)]
        PROVE  NoFutureSequence'
    <3>1. \A c \in C : c.dest = m.dest => c.seq <= seq[m.dest]
      BY <2>3
    <3>2. _select_route(n, m.dest, C, H).seq <= seq[m.dest]
      BY <2>2, <3>1, SelectionBounded
    <3>3. \A k, d \in Nodes : route'[k][d].seq <= seq[d]
      BY <2>3, <3>2, <1>t DEF TypeOK, NoFutureSequence
    <3> QED BY <2>1, <2>3, <3>3, <1>t DEF NoFutureSequence
  <2>4. CASE Lose(n, m) \/ RejectAdvertisement(n, m) \/ RejectError(n, m)
    BY <2>4, <2>1, <1>t DEF Lose, RejectAdvertisement, RejectError, NoFutureSequence
  <2>5. CASE AcceptAdvertisement(n, m)
    <3>h. PICK hop \in LinkCosts[<<n, m.from>>][m.dest] : Accepts(n, m, hop)
      BY <2>5, AcceptanceMeans
    <3> DEFINE C == gone \union {Learned(n, m, hop)}
    <3>1. /\ cand' = C /\ m.kind = "RA" /\ Acceptable(n, m)
          /\ route' = [route EXCEPT ![n][m.dest] =
                          _select_route(n, m.dest, C, HeardFrom(n, m.from))]
      BY <3>h DEF Accepts
    <3>2. Learned(n, m, hop) \in Candidate
      BY <3>1, <1>t, LearningFits
    <3>3. Learned(n, m, hop).seq <= seq[Learned(n, m, hop).dest]
      BY <3>1, <1>t DEF Learned, NoFutureSequence
    <3>4. C \in SUBSET Candidate /\ \A c \in C : c.seq <= seq[c.dest]
      BY <3>2, <3>3, <1>t DEF TypeOK, NoFutureSequence
    <3> HIDE DEF C
    <3> QED BY <3>1, <3>4, <2>3
  <2>6. CASE AcceptError(n, m)
    <3>1. /\ cand' = gone
          /\ route' = [route EXCEPT ![n][m.dest] =
                          _select_route(n, m.dest, gone, HeardFrom(n, m.from))]
      BY <2>6 DEF AcceptError
    <3>2. gone \in SUBSET Candidate /\ \A c \in gone : c.seq <= seq[c.dest]
      BY <1>t DEF TypeOK, NoFutureSequence
    <3> HIDE DEF gone
    <3> QED BY <3>1, <3>2, <2>3
  <2> QED BY <1>2, <2>4, <2>5, <2>6 DEF Deliver
<1>3. CASE EndRound \/ Finish
  BY <1>3, <1>t DEF EndRound, Finish, NoFutureSequence
<1> QED BY <1>1, <1>2, <1>3 DEF Control

LEMMA NextKnown == Known /\ [Next]_vars => Known'
<1> SUFFICES ASSUME Known, [Next]_vars PROVE Known'
  OBVIOUS
<1>0. Sound'
  BY NextSound DEF Known
<1>1. CASE Environment
  BY <1>0, <1>1, EnvironmentKnown DEF Known
<1>2. CASE _step
  <2>1. cand' = AgedCand(1) /\ UNCHANGED <<seq, route, inbox>>
    BY <1>2 DEF _step
  <2> QED BY <1>0, <2>1, AgingKnown DEF Known, NoFutureSequence
<1>3. CASE Expiry
  BY <1>0, <1>3, ExpiryKnown DEF Known
<1>4. CASE Control
  BY <1>0, <1>4, ControlKnown DEF Known
<1>5. CASE UNCHANGED vars
  BY <1>0, <1>5 DEF vars, Known, NoFutureSequence
<1> QED BY <1>1, <1>2, <1>3, <1>4, <1>5 DEF Next

(* Whatever is lost, reordered, failed, recovered or rediscovered, no node *)
(* holds or hears a sequence for a destination that the destination has    *)
(* not issued.                                                             *)
THEOREM SequencesAreIssued == Spec => []NoFutureSequence
<1>1. Known => NoFutureSequence
  BY DEF Known
<1> QED BY <1>1, InitKnown, NextKnown, PTL DEF Spec

-----------------------------------------------------------------------------
(* Routes are backed by candidates.                                        *)

Rooted == Known /\ CandidatesViaNeighbors /\ RouteIsBacked

(* An entry stays backed while its candidates stay and no neighbour goes.  *)
LEMMA BackedStays ==
  ASSUME NEW n, NEW d, NEW r, NEW C, NEW D, NEW H, NEW G,
         Backed(n, d, r, C, H),
         {c \in C : c.at = n /\ c.dest = d} = {c \in D : c.at = n /\ c.dest = d},
         \A m \in Nodes : m \in Neighbors(n, H) => m \in Neighbors(n, G),
         \A c \in C : c.at = n => c.via \in Neighbors(n, H)
  PROVE  Backed(n, d, r, D, G)
<1>1. \A c \in C : c.at = n /\ c.dest = d => c \in D
  OBVIOUS
<1>2. \A c \in D : c.at = n /\ c.dest = d => c \in C
  OBVIOUS
<1>3. \A m : m \in Neighbors(n, H) => m \in Neighbors(n, G)
  BY DEF Neighbors
<1>4. \A c \in Live(n, d, D, G) : c \in Live(n, d, C, H)
  BY <1>2 DEF Live
<1>5. CASE r = NoRoute
  BY <1>4, <1>5 DEF Backed
<1>6. CASE r # NoRoute
  <2>1. PICK c \in C : /\ c.at = n /\ c.dest = d /\ c.seq = r.seq /\ c.via \in Neighbors(n, H)
                      /\ c.via = r.next /\ c.hops = r.hops /\ c.cost = r.cost
    BY <1>6 DEF Backed
  <2>2. c \in D /\ c.via \in Neighbors(n, G)
    BY <1>1, <1>3, <2>1
  <2>3. ASSUME r.backup # NoNode
        PROVE  /\ r.backup # r.next
               /\ \E b \in D : /\ b.at = n /\ b.dest = d /\ b.seq = r.seq
                              /\ b.via \in Neighbors(n, G) /\ b.via = r.backup
    <3>1. r.backup # r.next
      BY <1>6, <2>3 DEF Backed
    <3>2. PICK b \in C : /\ b.at = n /\ b.dest = d /\ b.seq = r.seq
                        /\ b.via \in Neighbors(n, H) /\ b.via = r.backup
      BY <1>6, <2>3 DEF Backed
    <3>3. b \in D /\ b.via \in Neighbors(n, G)
      BY <1>1, <1>3, <3>2
    <3> QED BY <3>1, <3>2, <3>3
  <2>4. \A o \in Live(n, d, D, G) : o.seq <= r.seq
    BY <1>4, <1>6 DEF Backed
  <2> QED BY <1>6, <2>1, <2>2, <2>3, <2>4 DEF Backed
<1> QED BY <1>5, <1>6

(* It stays backed while time passes.                                      *)
LEMMA BackedAges ==
  ASSUME Rooted, NEW n \in Nodes, NEW d \in Nodes, NEW t \in Nat, NEW G,
         \A m \in Nodes : m \in Neighbors(n, heard) => m \in Neighbors(n, G)
  PROVE  Backed(n, d, route[n][d], AgedCand(t), G)
<1> DEFINE r == route[n][d]
<1>t. TypeOK /\ Backed(n, d, r, cand, heard) /\ CandidatesViaNeighbors
  BY DEF Rooted, Known, Sound, RouteIsBacked
<1>1. \A c \in cand : \E a \in AgedCand(t) :
        /\ a.at = c.at /\ a.dest = c.dest /\ a.via = c.via /\ a.hops = c.hops
        /\ a.cost = c.cost /\ a.seq = c.seq
  <2> TAKE c \in cand
  <2>1. c \in Candidate
    BY <1>t DEF TypeOK
  <2>2. [c EXCEPT !.age = Saturated(c.age + t, RouteLifetime)] \in AgedCand(t)
    BY DEF AgedCand
  <2> QED BY <2>1, <2>2 DEF Candidate
<1>3. \A m : m \in Neighbors(n, heard) => m \in Neighbors(n, G)
  BY DEF Neighbors
<1>4. \A a \in Live(n, d, AgedCand(t), G) :
        \E c \in Live(n, d, cand, heard) : c.seq = a.seq
  <2> TAKE a \in Live(n, d, AgedCand(t), G)
  <2>1. a \in AgedCand(t) /\ a.at = n /\ a.dest = d /\ a.age <= RouteLifetime
    BY DEF Live
  <2>2. PICK c \in cand : /\ a.at = c.at /\ a.dest = c.dest /\ a.seq = c.seq
                          /\ a.age <= RouteLifetime => c.age <= RouteLifetime
    BY <2>1, <1>t, AgingKeeps
  <2>3. c.at = n /\ c.dest = d /\ c.age <= RouteLifetime /\ c.seq = a.seq
    BY <2>1, <2>2
  <2>4. c.via \in Neighbors(c.at, heard)
    BY <1>t DEF CandidatesViaNeighbors
  <2>5. c \in Live(n, d, cand, heard)
    BY <2>3, <2>4 DEF Live
  <2> QED BY <2>3, <2>5
<1> HIDE DEF r
<1>5. CASE r = NoRoute
  BY <1>4, <1>5, <1>t DEF Backed, r
<1>6. CASE r # NoRoute
  <2>1. PICK c \in cand : /\ c.at = n /\ c.dest = d /\ c.seq = r.seq
                         /\ c.via \in Neighbors(n, heard)
                         /\ c.via = r.next /\ c.hops = r.hops /\ c.cost = r.cost
    BY <1>6, <1>t DEF Backed
  <2>2. \E a \in AgedCand(t) : /\ a.at = n /\ a.dest = d /\ a.seq = r.seq
                               /\ a.via \in Neighbors(n, G)
                               /\ a.via = r.next /\ a.hops = r.hops /\ a.cost = r.cost
    BY <1>1, <1>3, <2>1
  <2>3. ASSUME r.backup # NoNode
        PROVE  /\ r.backup # r.next
               /\ \E a \in AgedCand(t) : /\ a.at = n /\ a.dest = d /\ a.seq = r.seq
                                        /\ a.via \in Neighbors(n, G) /\ a.via = r.backup
    <3>1. r.backup # r.next
      BY <1>6, <2>3, <1>t DEF Backed
    <3>2. PICK b \in cand : /\ b.at = n /\ b.dest = d /\ b.seq = r.seq
                           /\ b.via \in Neighbors(n, heard) /\ b.via = r.backup
      BY <1>6, <2>3, <1>t DEF Backed
    <3> QED BY <1>1, <1>3, <3>1, <3>2
  <2>4. \A a \in Live(n, d, AgedCand(t), G) : a.seq <= r.seq
    BY <1>4, <1>6, <1>t DEF Backed
  <2> QED BY <1>6, <2>2, <2>3, <2>4 DEF Backed, r
<1> QED BY <1>5, <1>6

(* A re-selection backs every entry it leaves.                             *)
LEMMA ReselectionBacked ==
  ASSUME Rooted, NEW n \in Nodes, NEW d \in Nodes, NEW C \in SUBSET cand, NEW H
  PROVE  Backed(n, d, Reselect(n, C, H)[d], C, H)
<1>1. C \in SUBSET Candidate /\ seq[d] \in Nat
  BY DEF Rooted, Known, Sound, TypeOK
<1>2. CASE \E c \in cand : c.at = n /\ c.dest = d
  <2>1. Reselect(n, C, H)[d] = _select_route(n, d, C, H)
    BY <1>2 DEF Reselect
  <2>2. \A c \in C : c.dest = d => c.seq <= seq[d]
    BY DEF Rooted, Known, NoFutureSequence
  <2> QED BY <1>1, <2>1, <2>2, SelectionBacked
<1>3. CASE ~(\E c \in cand : c.at = n /\ c.dest = d)
  <2>1. Reselect(n, C, H)[d] = route[n][d]
    BY <1>3 DEF Reselect
  <2>2. Backed(n, d, route[n][d], cand, heard)
    BY DEF Rooted, RouteIsBacked
  <2>3. route[n][d] = NoRoute
    BY <1>3, <2>2 DEF Backed
  <2>4. Live(n, d, C, H) = {}
    BY <1>3 DEF Live
  <2> QED BY <2>1, <2>3, <2>4 DEF Backed
<1> QED BY <1>2, <1>3

LEMMA AgingHears ==
  ASSUME TypeOK, NEW t \in Nat, NEW n \in Nodes, NEW m \in Nodes,
         m \in Neighbors(n, heard)
  PROVE  m \in Neighbors(n, AgedHeard(t))
<1>1. heard[n][m] \in Nat /\ heard[n][m] # Absent
  BY Numbers DEF TypeOK, Neighbors
<1>2. Saturated(heard[n][m] + t, NeighborTimeout) \in Nat
  BY <1>1, Numbers DEF Saturated
<1> QED BY <1>1, <1>2 DEF Neighbors, AgedHeard, Absent

LEMMA InitRooted == Init => Rooted
<1> SUFFICES ASSUME Init PROVE Rooted
  OBVIOUS
<1>1. CandidatesViaNeighbors
  BY DEF Init, CandidatesViaNeighbors
<1>2. RouteIsBacked
  BY DEF Init, RouteIsBacked, Backed, Live
<1> QED BY <1>1, <1>2, InitKnown DEF Rooted

LEMMA EnvironmentRooted ==
  ASSUME Rooted, Environment
  PROVE  CandidatesViaNeighbors' /\ RouteIsBacked'
<1>t. TypeOK /\ CandidatesViaNeighbors /\ RouteIsBacked
  BY DEF Rooted, Known, Sound
<1>1. ASSUME NEW available, Rediscover(available)
      PROVE  CandidatesViaNeighbors' /\ RouteIsBacked'
  <2>1. cand' = {} /\ \A n, d \in Nodes : route'[n][d] = NoRoute
    BY <1>1 DEF Rediscover
  <2>2. \A n, d \in Nodes : Backed(n, d, NoRoute, {}, heard')
    BY DEF Backed, Live
  <2> QED BY <2>1, <2>2 DEF CandidatesViaNeighbors, RouteIsBacked
<1>2. CASE discover_neighbors
  BY <1>1, <1>2 DEF discover_neighbors
<1>3. ASSUME NEW n \in Nodes, recover_communication(n)
      PROVE  CandidatesViaNeighbors' /\ RouteIsBacked'
  BY <1>1, <1>3 DEF recover_communication
<1>4. ASSUME NEW n \in Nodes, NEW p \in Penalties, recalculate_routes(n, p)
      PROVE  CandidatesViaNeighbors' /\ RouteIsBacked'
  BY <1>4, <1>t DEF recalculate_routes, CandidatesViaNeighbors, RouteIsBacked
<1>5. ASSUME NEW x \in Nodes, fail_communication(x)
      PROVE  CandidatesViaNeighbors' /\ RouteIsBacked'
  <2> DEFINE C == Without(x)
             H == [n \in Nodes |-> [heard[n] EXCEPT ![x] = Absent]]
             losers == {k \in Nodes : x \in Neighbors(k, heard)}
             after == [n \in Nodes |->
                         IF n = x THEN [d \in Nodes |-> NoRoute]
                         ELSE IF n \in losers THEN Reselect(n, C, H)
                         ELSE route[n]]
  <2>1. cand' = C /\ route' = after /\ heard' = H
    BY <1>5 DEF fail_communication
  <2>2. C \in SUBSET cand /\ \A c \in C : c.at # x
    BY DEF Without
  <2>3. \A n, m \in Nodes : H[n][m] = IF m = x THEN Absent ELSE heard[n][m]
    BY <1>t DEF TypeOK
  <2>4. \A n, m \in Nodes : m # x /\ m \in Neighbors(n, heard) => m \in Neighbors(n, H)
    BY <2>3 DEF Neighbors
  <2>5. \A c \in C : c.via # x /\ c.at \in Nodes /\ c.via \in Nodes
    BY <1>t DEF Without, CandidatesViaNeighbors, TypeOK, Candidate
  <2>6. \A c \in C : c.via \in Neighbors(c.at, H)
    BY <2>2, <2>4, <2>5, <1>t DEF CandidatesViaNeighbors
  <2> HIDE DEF C, H
  <2>7. ASSUME NEW n \in Nodes, NEW d \in Nodes
        PROVE  Backed(n, d, after[n][d], C, H)
    <3>1. CASE n = x
      <4>1. Live(n, d, C, H) = {}
        BY <3>1, <2>2 DEF Live
      <4> QED BY <3>1, <4>1 DEF Backed
    <3>2. CASE n # x /\ n \in losers
      BY <3>2, <2>2, ReselectionBacked
    <3>3. CASE n # x /\ n \notin losers
      <4>1. Backed(n, d, route[n][d], cand, heard)
        BY <1>t DEF RouteIsBacked
      <4>2. \A c \in cand : c.at = n => c \in C
        BY <3>3, <1>t DEF C, Without, CandidatesViaNeighbors
      <4>3. {c \in cand : c.at = n /\ c.dest = d} = {c \in C : c.at = n /\ c.dest = d}
        BY <2>2, <4>2
      <4>4. \A m \in Nodes : m \in Neighbors(n, heard) => m \in Neighbors(n, H)
        BY <3>3, <2>4
      <4>5. \A c \in cand : c.at = n => c.via \in Neighbors(n, heard)
        BY <1>t DEF CandidatesViaNeighbors
      <4>6. Backed(n, d, route[n][d], C, H)
        BY <4>1, <4>3, <4>4, <4>5, BackedStays
      <4> QED BY <3>3, <4>6
    <3> QED BY <3>1, <3>2, <3>3
  <2> HIDE DEF after
  <2> QED BY <2>1, <2>6, <2>7 DEF CandidatesViaNeighbors, RouteIsBacked
<1> QED BY <1>2, <1>3, <1>4, <1>5 DEF Environment

(* Time passing, with or without frames that refresh neighbours.           *)
LEMMA AgingRooted ==
  ASSUME Rooted, NEW t \in Nat, cand' = AgedCand(t), UNCHANGED route,
         \A n, m \in Nodes : m \in Neighbors(n, heard) => m \in Neighbors(n, heard')
  PROVE  CandidatesViaNeighbors' /\ RouteIsBacked'
<1>t. TypeOK /\ CandidatesViaNeighbors
  BY DEF Rooted, Known, Sound
<1>1. \A n, d \in Nodes : Backed(n, d, route[n][d], AgedCand(t), heard')
  BY BackedAges
<1>2. \A a \in AgedCand(t) : a.via \in Neighbors(a.at, heard')
  <2> TAKE a \in AgedCand(t)
  <2>1. PICK c \in cand : a.at = c.at /\ a.via = c.via
    BY <1>t, AgingKeeps
  <2>2. c.at \in Nodes /\ c.via \in Nodes /\ c.via \in Neighbors(c.at, heard)
    BY <1>t DEF CandidatesViaNeighbors, TypeOK, Candidate
  <2> QED BY <2>1, <2>2
<1> QED BY <1>1, <1>2 DEF CandidatesViaNeighbors, RouteIsBacked

LEMMA ExpiryRooted ==
  ASSUME Rooted, Expiry
  PROVE  CandidatesViaNeighbors' /\ RouteIsBacked'
<1>t. TypeOK /\ CandidatesViaNeighbors /\ RouteIsBacked
  BY DEF Rooted, Known, Sound
<1>1. ASSUME NEW n \in Nodes, NEW C \in SUBSET cand, NEW H,
             \A c \in cand : c.at # n => c \in C,
             \A k, m \in Nodes : k # n /\ m \in Neighbors(k, heard) => m \in Neighbors(k, H),
             \A c \in C : c.via \in Neighbors(c.at, H)
      PROVE  LET routes == [route EXCEPT ![n] = Reselect(n, C, H)]
             IN \A k, d \in Nodes : Backed(k, d, routes[k][d], C, H)
  <2> DEFINE routes == [route EXCEPT ![n] = Reselect(n, C, H)]
  <2> SUFFICES ASSUME NEW k \in Nodes, NEW d \in Nodes
               PROVE  Backed(k, d, routes[k][d], C, H)
    OBVIOUS
  <2>1. CASE k = n
    <3>1. routes[k][d] = Reselect(n, C, H)[d]
      BY <2>1, <1>t DEF TypeOK
    <3> QED BY <2>1, <3>1, ReselectionBacked
  <2>2. CASE k # n
    <3>1. routes[k][d] = route[k][d]
      BY <2>2, <1>t DEF TypeOK
    <3>2. Backed(k, d, route[k][d], cand, heard)
      BY <1>t DEF RouteIsBacked
    <3>3. {c \in cand : c.at = k /\ c.dest = d} = {c \in C : c.at = k /\ c.dest = d}
      BY <2>2, <1>1
    <3>4. \A m \in Nodes : m \in Neighbors(k, heard) => m \in Neighbors(k, H)
      BY <2>2, <1>1
    <3>5. \A c \in cand : c.at = k => c.via \in Neighbors(k, heard)
      BY <1>t DEF CandidatesViaNeighbors
    <3>6. Backed(k, d, route[k][d], C, H)
      BY <3>2, <3>3, <3>4, <3>5, BackedStays
    <3> QED BY <3>1, <3>6
  <2> QED BY <2>1, <2>2
<1>2. ASSUME NEW n \in Nodes, NEW m \in Nodes, ExpireNeighbor(n, m)
      PROVE  CandidatesViaNeighbors' /\ RouteIsBacked'
  <2> DEFINE H == [heard EXCEPT ![n][m] = Absent]
             C == {c \in cand : ~(c.at = n /\ c.via = m)}
  <2>1. cand' = C /\ heard' = H /\ route' = [route EXCEPT ![n] = Reselect(n, C, H)]
    BY <1>2 DEF ExpireNeighbor
  <2>2. \A k, j \in Nodes : H[k][j] = IF k = n /\ j = m THEN Absent ELSE heard[k][j]
    BY <1>t DEF TypeOK
  <2>3. \A k, j \in Nodes : ~(k = n /\ j = m) /\ j \in Neighbors(k, heard) => j \in Neighbors(k, H)
    BY <2>2 DEF Neighbors
  <2>4. \A c \in C : c.via \in Neighbors(c.at, H)
    <3> TAKE c \in C
    <3>1. c.at \in Nodes /\ c.via \in Nodes /\ c.via \in Neighbors(c.at, heard)
      BY <1>t DEF CandidatesViaNeighbors, TypeOK, Candidate
    <3> QED BY <2>3, <3>1
  <2>5. C \in SUBSET cand /\ \A c \in cand : c.at # n => c \in C
    OBVIOUS
  <2> HIDE DEF C, H
  <2>6. \A k, d \in Nodes : Backed(k, d, route'[k][d], C, H)
    BY <2>1, <2>3, <2>4, <2>5, <1>1
  <2> QED BY <2>1, <2>4, <2>6 DEF CandidatesViaNeighbors, RouteIsBacked
<1>3. ASSUME NEW n \in Nodes, expire_routes(n)
      PROVE  CandidatesViaNeighbors' /\ RouteIsBacked'
  <2> DEFINE C == {c \in cand : c.at = n => /\ c.age <= RouteLifetime
                                          /\ c.via \in Neighbors(n, heard)}
  <2>1. cand' = C /\ heard' = heard /\ route' = [route EXCEPT ![n] = Reselect(n, C, heard)]
    BY <1>3 DEF expire_routes
  <2>2. C \in SUBSET cand /\ \A c \in cand : c.at # n => c \in C
    OBVIOUS
  <2>3. \A c \in C : c.via \in Neighbors(c.at, heard)
    BY <1>t DEF CandidatesViaNeighbors
  <2> HIDE DEF C
  <2>4. \A k, d \in Nodes : Backed(k, d, route'[k][d], C, heard)
    BY <2>1, <2>2, <2>3, <1>1
  <2> QED BY <2>1, <2>3, <2>4 DEF CandidatesViaNeighbors, RouteIsBacked
<1>4. CASE EndExpiry
  BY <1>4, <1>t DEF EndExpiry, CandidatesViaNeighbors, RouteIsBacked
<1> QED BY <1>2, <1>3, <1>4 DEF Expiry

LEMMA DeliveryRooted ==
  ASSUME Rooted, NEW n \in Nodes, NEW m \in inbox[n], Deliver(n, m)
  PROVE  CandidatesViaNeighbors' /\ RouteIsBacked'
<1>t. /\ TypeOK /\ FramesTravelLinks /\ NoFutureSequence
      /\ CandidatesViaNeighbors /\ RouteIsBacked
  BY DEF Rooted, Known, Sound
<1>d. m.dest \in Nodes /\ m.from \in Nodes /\ seq[m.dest] \in Nat
  BY <1>t DEF TypeOK, Advertisement, RouteError
<1> DEFINE G == HeardFrom(n, m.from)
           gone == {c \in cand : ~(c.at = n /\ c.dest = m.dest /\ c.via = m.from)}
<1>g. /\ \A k, j \in Nodes : j \in Neighbors(k, heard) => j \in Neighbors(k, G)
      /\ m.from \in Neighbors(n, G)
  <2>1. \A k, j \in Nodes : G[k][j] = IF k = n /\ j = m.from THEN 0 ELSE heard[k][j]
    BY <1>t, <1>d DEF HeardFrom, TypeOK
  <2> QED BY <2>1, <1>d DEF Neighbors, Absent
<1>1. CASE Lose(n, m)
  BY <1>1, <1>t DEF Lose, CandidatesViaNeighbors, RouteIsBacked
<1>2. ASSUME NEW k \in Nodes, NEW d \in Nodes, NEW C,
             {c \in cand : c.at = k /\ c.dest = d} = {c \in C : c.at = k /\ c.dest = d}
      PROVE  Backed(k, d, route[k][d], C, G)
  <2>1. Backed(k, d, route[k][d], cand, heard)
    BY <1>t DEF RouteIsBacked
  <2>2. \A c \in cand : c.at = k => c.via \in Neighbors(k, heard)
    BY <1>t DEF CandidatesViaNeighbors
  <2>3. \A j \in Nodes : j \in Neighbors(k, heard) => j \in Neighbors(k, G)
    BY <1>g
  <2> HIDE DEF G
  <2> QED BY <1>2, <2>1, <2>2, <2>3, BackedStays
<1>3. \A c \in cand : c.via \in Neighbors(c.at, G)
  <2> TAKE c \in cand
  <2>1. c.at \in Nodes /\ c.via \in Nodes /\ c.via \in Neighbors(c.at, heard)
    BY <1>t DEF CandidatesViaNeighbors, TypeOK, Candidate
  <2> QED BY <2>1, <1>g
<1>4. CASE RejectAdvertisement(n, m) \/ RejectError(n, m)
  <2>1. heard' = G /\ cand' = cand /\ route' = route
    BY <1>4 DEF RejectAdvertisement, RejectError
  <2>2. \A k, d \in Nodes : Backed(k, d, route[k][d], cand, G)
    BY <1>2
  <2> HIDE DEF G
  <2> QED BY <2>1, <2>2, <1>3 DEF CandidatesViaNeighbors, RouteIsBacked
<1>5. ASSUME NEW C \in SUBSET Candidate,
             \A c \in C : c.dest = m.dest => c.seq <= seq[m.dest],
             \A k, d \in Nodes : k # n \/ d # m.dest =>
               {c \in cand : c.at = k /\ c.dest = d} = {c \in C : c.at = k /\ c.dest = d},
             \A c \in C : c.via \in Neighbors(c.at, G),
             heard' = G, cand' = C,
             route' = [route EXCEPT ![n][m.dest] = _select_route(n, m.dest, C, G)]
      PROVE  CandidatesViaNeighbors' /\ RouteIsBacked'
  <2> HIDE DEF G
  <2>1. ASSUME NEW k \in Nodes, NEW d \in Nodes
        PROVE  Backed(k, d, route'[k][d], C, G)
    <3>1. CASE k = n /\ d = m.dest
      <4>1. route'[k][d] = _select_route(n, m.dest, C, G)
        BY <3>1, <1>5, <1>t, <1>d DEF TypeOK
      <4>2. Backed(n, m.dest, _select_route(n, m.dest, C, G), C, G)
        BY <1>5, <1>d, SelectionBacked
      <4> QED BY <3>1, <4>1, <4>2
    <3>2. CASE k # n \/ d # m.dest
      <4>1. route'[k][d] = route[k][d]
        BY <3>2, <1>5, <1>t, <1>d DEF TypeOK
      <4>2. Backed(k, d, route[k][d], C, G)
        BY <3>2, <1>5, <1>2
      <4> QED BY <4>1, <4>2
    <3> QED BY <3>1, <3>2
  <2> QED BY <2>1, <1>5 DEF CandidatesViaNeighbors, RouteIsBacked
<1>6. CASE AcceptAdvertisement(n, m)
  <2>h. PICK hop \in LinkCosts[<<n, m.from>>][m.dest] : Accepts(n, m, hop)
    BY <1>6, AcceptanceMeans
  <2> DEFINE C == gone \union {Learned(n, m, hop)}
  <2>1. /\ cand' = C /\ heard' = G /\ m.kind = "RA" /\ Acceptable(n, m)
        /\ route' = [route EXCEPT ![n][m.dest] = _select_route(n, m.dest, C, G)]
    BY <2>h DEF Accepts
  <2>2. Learned(n, m, hop) \in Candidate
    BY <2>1, <1>t, LearningFits
  <2>3. LET l == Learned(n, m, hop)
        IN l.at = n /\ l.dest = m.dest /\ l.via = m.from /\ l.seq <= seq[m.dest]
    BY <2>1, <1>t DEF Learned, NoFutureSequence
  <2>4. C \in SUBSET Candidate
    BY <2>2, <1>t DEF TypeOK
  <2>5. \A c \in C : c.dest = m.dest => c.seq <= seq[m.dest]
    BY <2>3, <1>t DEF NoFutureSequence
  <2>6. \A k, d \in Nodes : k # n \/ d # m.dest =>
          {c \in cand : c.at = k /\ c.dest = d} = {c \in C : c.at = k /\ c.dest = d}
    BY <2>3
  <2>7. \A c \in C : c.via \in Neighbors(c.at, G)
    BY <2>3, <1>3, <1>g
  <2> HIDE DEF C, G
  <2> QED BY <2>1, <2>4, <2>5, <2>6, <2>7, <1>5
<1>7. CASE AcceptError(n, m)
  <2>1. /\ cand' = gone /\ heard' = G
        /\ route' = [route EXCEPT ![n][m.dest] = _select_route(n, m.dest, gone, G)]
    BY <1>7 DEF AcceptError
  <2>2. gone \in SUBSET Candidate /\ \A c \in gone : c.dest = m.dest => c.seq <= seq[m.dest]
    BY <1>t DEF TypeOK, NoFutureSequence
  <2>3. \A k, d \in Nodes : k # n \/ d # m.dest =>
          {c \in cand : c.at = k /\ c.dest = d} = {c \in gone : c.at = k /\ c.dest = d}
    OBVIOUS
  <2>4. \A c \in gone : c.via \in Neighbors(c.at, G)
    BY <1>3
  <2> HIDE DEF gone, G
  <2> QED BY <2>1, <2>2, <2>3, <2>4, <1>5
<1> QED BY <1>1, <1>4, <1>6, <1>7 DEF Deliver

LEMMA NextRooted == Rooted /\ [Next]_vars => Rooted'
<1> SUFFICES ASSUME Rooted, [Next]_vars PROVE CandidatesViaNeighbors' /\ RouteIsBacked'
  BY NextKnown DEF Rooted
<1>t. TypeOK /\ CandidatesViaNeighbors /\ RouteIsBacked
  BY DEF Rooted, Known, Sound
<1>1. CASE Environment
  BY <1>1, EnvironmentRooted
<1>2. CASE _step
  <2>1. cand' = AgedCand(1) /\ UNCHANGED route
    BY <1>2 DEF _step
  <2>2. PICK beats : heard' = [n \in Nodes |-> [m \in Nodes |->
                       IF <<m, n>> \in beats THEN 0 ELSE AgedHeard(1)[n][m]]]
    BY <1>2 DEF _step
  <2>3. \A n, m \in Nodes : m \in Neighbors(n, heard) => m \in Neighbors(n, AgedHeard(1))
    BY <1>t, AgingHears
  <2>4. \A n, m \in Nodes : m \in Neighbors(n, heard) => m \in Neighbors(n, heard')
    BY <2>2, <2>3 DEF Neighbors, Absent
  <2> QED BY <2>1, <2>4, AgingRooted
<1>3. CASE Expiry
  BY <1>3, ExpiryRooted
<1>4. CASE Round
  <2>l. PICK load \in Loads : Broadcast(load)
    BY <1>4 DEF Round
  <2>1. PICK t \in AirTime : heard' = AgedHeard(t) /\ cand' = AgedCand(t)
    BY Zenon, <2>l DEF Broadcast
  <2>2. UNCHANGED route
    BY Zenon, <2>l DEF Broadcast
  <2>3. t \in Nat
    BY Numbers
  <2>4. \A n, m \in Nodes : m \in Neighbors(n, heard) => m \in Neighbors(n, heard')
    BY <2>1, <2>3, <1>t, AgingHears
  <2> QED BY <2>1, <2>2, <2>3, <2>4, AgingRooted
<1>5. CASE \E n \in Nodes : \E m \in inbox[n] : Deliver(n, m)
  BY <1>5, DeliveryRooted
<1>6. CASE EndRound \/ Finish \/ UNCHANGED vars
  BY <1>6, <1>t DEF EndRound, Finish, vars, CandidatesViaNeighbors, RouteIsBacked
<1> QED BY <1>1, <1>2, <1>3, <1>4, <1>5, <1>6 DEF Next, Control

(* A routing entry is always one of the node's own candidates through a    *)
(* present neighbour, as new as any it could select, with a backup of the  *)
(* same freshness; and a node that could route to a destination does.      *)
THEOREM RoutesAreBacked == Spec => []RouteIsBacked
<1>1. Rooted => RouteIsBacked
  BY DEF Rooted
<1> QED BY <1>1, InitRooted, NextRooted, PTL DEF Spec

-----------------------------------------------------------------------------
(* No flapping.                                                            *)

LEMMA ReselectionSticks ==
  ASSUME Rooted, NEW n \in Nodes, NEW d \in Nodes, NEW C \in SUBSET cand, NEW H,
         NEW k \in Live(n, d, C, H), k.via = route[n][d].next
  PROVE  LET r == Reselect(n, C, H)[d] IN
         \/ r = NoRoute
         \/ r.next = k.via
         \/ k.seq < r.seq
         \/ r.cost + Hysteresis < k.cost
<1>1. C \in SUBSET Candidate
  BY DEF Rooted, Known, Sound, TypeOK
<1>2. k \in cand /\ k.at = n /\ k.dest = d
  BY DEF Live
<1>3. Reselect(n, C, H)[d] = _select_route(n, d, C, H)
  BY <1>2 DEF Reselect
<1> QED BY <1>1, <1>3, SelectionSticks

(* What SwitchIsJustified asks of one entry.                               *)
Justified(n, d) ==
  LET old == route[n][d]
      new == route'[n][d]
  IN old # NoRoute /\ new # NoRoute /\ new.next # old.next =>
       \A k \in Live(n, d, cand', heard') : k.via = old.next =>
         k.seq < new.seq \/ new.cost + Hysteresis < k.cost

LEMMA NextJustified ==
  ASSUME Rooted, [Next]_vars, NEW n \in Nodes, NEW d \in Nodes
  PROVE  Justified(n, d)
<1>t. TypeOK /\ FramesTravelLinks
  BY DEF Rooted, Known, Sound
<1>1. CASE route'[n][d] = route[n][d] \/ route'[n][d] = NoRoute
  BY <1>1 DEF Justified
<1>2. ASSUME NEW C \in SUBSET cand, NEW H, cand' = C, heard' = H,
             route'[n][d] = Reselect(n, C, H)[d]
      PROVE  Justified(n, d)
  <2>1. ASSUME NEW k \in Live(n, d, C, H), k.via = route[n][d].next
        PROVE  LET r == Reselect(n, C, H)[d] IN
               r = NoRoute \/ r.next = k.via \/ k.seq < r.seq \/ r.cost + Hysteresis < k.cost
    BY <2>1, ReselectionSticks
  <2> QED BY <1>2, <2>1 DEF Justified
<1>3. CASE discover_neighbors \/ \E x \in Nodes : recover_communication(x)
  <2>1. route'[n][d] = NoRoute
    BY <1>3 DEF discover_neighbors, recover_communication, Rediscover
  <2> QED BY <2>1, <1>1
<1>4. ASSUME NEW x \in Nodes, fail_communication(x) PROVE Justified(n, d)
  <2> DEFINE C == Without(x)
             H == [j \in Nodes |-> [heard[j] EXCEPT ![x] = Absent]]
  <2>1. /\ cand' = C /\ heard' = H
        /\ \/ route'[n][d] = NoRoute
           \/ route'[n][d] = Reselect(n, C, H)[d]
           \/ route'[n][d] = route[n][d]
    BY <1>4 DEF fail_communication
  <2>2. C \in SUBSET cand
    BY DEF Without
  <2> HIDE DEF C, H
  <2> QED BY <2>1, <2>2, <1>1, <1>2
<1>5. ASSUME NEW i \in Nodes, NEW m \in Nodes, ExpireNeighbor(i, m) PROVE Justified(n, d)
  <2> DEFINE H == [heard EXCEPT ![i][m] = Absent]
             C == {c \in cand : ~(c.at = i /\ c.via = m)}
  <2>1. /\ cand' = C /\ heard' = H /\ route' = [route EXCEPT ![i] = Reselect(i, C, H)]
        /\ C \in SUBSET cand
    BY <1>5 DEF ExpireNeighbor
  <2> HIDE DEF C, H
  <2>2. route'[n][d] = IF n = i THEN Reselect(i, C, H)[d] ELSE route[n][d]
    BY <2>1, <1>t DEF TypeOK
  <2> QED BY <2>1, <2>2, <1>1, <1>2
<1>6. ASSUME NEW i \in Nodes, expire_routes(i) PROVE Justified(n, d)
  <2> DEFINE C == {c \in cand : c.at = i => /\ c.age <= RouteLifetime
                                          /\ c.via \in Neighbors(i, heard)}
  <2>1. /\ cand' = C /\ heard' = heard /\ route' = [route EXCEPT ![i] = Reselect(i, C, heard)]
        /\ C \in SUBSET cand
    BY <1>6 DEF expire_routes
  <2> HIDE DEF C
  <2>2. route'[n][d] = IF n = i THEN Reselect(i, C, heard)[d] ELSE route[n][d]
    BY <2>1, <1>t DEF TypeOK
  <2> QED BY <2>1, <2>2, <1>1, <1>2
<1>7. ASSUME NEW i \in Nodes, NEW m \in inbox[i], Deliver(i, m) PROVE Justified(n, d)
  <2> DEFINE gone == {c \in cand : ~(c.at = i /\ c.dest = m.dest /\ c.via = m.from)}
             G == HeardFrom(i, m.from)
  <2>1. m.dest \in Nodes
    BY <1>t DEF TypeOK, Advertisement, RouteError
  <2>2. ASSUME NEW C \in SUBSET Candidate, cand' = C, heard' = G,
               route' = [route EXCEPT ![i][m.dest] = _select_route(i, m.dest, C, G)]
        PROVE  Justified(n, d)
    <3> HIDE DEF G
    <3>1. CASE n = i /\ d = m.dest
      <4>1. route'[n][d] = _select_route(n, d, C, G)
        BY <3>1, <2>1, <2>2, <1>t DEF TypeOK
      <4>2. ASSUME NEW k \in Live(n, d, C, G), k.via = route[n][d].next
            PROVE  LET r == _select_route(n, d, C, G) IN
                   r = NoRoute \/ r.next = k.via \/ k.seq < r.seq \/ r.cost + Hysteresis < k.cost
        BY <4>2, SelectionSticks
      <4> QED BY <4>1, <4>2, <2>2 DEF Justified
    <3>2. CASE ~(n = i /\ d = m.dest)
      <4>1. route'[n][d] = route[n][d]
        BY <3>2, <2>1, <2>2, <1>t DEF TypeOK
      <4> QED BY <4>1, <1>1
    <3> QED BY <3>1, <3>2
  <2>3. CASE Lose(i, m) \/ RejectAdvertisement(i, m) \/ RejectError(i, m)
    BY <2>3, <1>1 DEF Lose, RejectAdvertisement, RejectError
  <2>4. CASE AcceptAdvertisement(i, m)
    <3>h. PICK hop \in LinkCosts[<<i, m.from>>][m.dest] : Accepts(i, m, hop)
      BY <2>4, AcceptanceMeans
    <3> DEFINE C == gone \union {Learned(i, m, hop)}
    <3>1. /\ cand' = C /\ heard' = G /\ m.kind = "RA" /\ Acceptable(i, m)
          /\ route' = [route EXCEPT ![i][m.dest] = _select_route(i, m.dest, C, G)]
      BY <3>h DEF Accepts
    <3>2. Learned(i, m, hop) \in Candidate
      BY <3>1, <1>t, LearningFits
    <3>3. C \in SUBSET Candidate
      BY <3>2, <1>t DEF TypeOK
    <3> HIDE DEF C, G
    <3> QED BY <3>1, <3>3, <2>2
  <2>5. CASE AcceptError(i, m)
    <3>1. /\ cand' = gone /\ heard' = G
          /\ route' = [route EXCEPT ![i][m.dest] = _select_route(i, m.dest, gone, G)]
      BY <2>5 DEF AcceptError
    <3>2. gone \in SUBSET Candidate
      BY <1>t DEF TypeOK
    <3> HIDE DEF gone, G
    <3> QED BY <3>1, <3>2, <2>2
  <2> QED BY <1>7, <2>3, <2>4, <2>5 DEF Deliver
<1>8. CASE \/ \E x \in Nodes, p \in Penalties : recalculate_routes(x, p)
           \/ _step \/ EndExpiry \/ Round \/ EndRound \/ Finish \/ UNCHANGED vars
  <2>1. UNCHANGED route
    BY <1>8, Zenon DEF recalculate_routes, _step, EndExpiry, Round, Broadcast, EndRound, Finish, vars
  <2> QED BY <2>1, <1>1
<1> QED BY <1>3, <1>4, <1>5, <1>6, <1>7, <1>8 DEF Next, Environment, Expiry, Control

(* A node leaves a usable next hop only for fresher information or for a   *)
(* gain beyond the hysteresis, whatever frames it hears in whatever order. *)
THEOREM SwitchesAreJustified == Spec => SwitchIsJustified
<1>1. Rooted /\ [Next]_vars => [\A n, d \in Nodes : Justified(n, d)]_vars
  BY NextJustified
<1>2. SwitchIsJustified <=> [][\A n, d \in Nodes : Justified(n, d)]_vars
  BY DEF SwitchIsJustified, Justified
<1> QED BY <1>1, <1>2, InitRooted, NextRooted, PTL DEF Spec

-----------------------------------------------------------------------------
(* A failed radio is forgotten.                                            *)

(* Neighbours, the holders of candidates and the senders of frames work.   *)
OnlyWorking ==
  /\ \A n, m \in Nodes : m \in Neighbors(n, heard) => up[m]
  /\ \A c \in cand : up[c.at]
  /\ \A n \in Nodes : \A m \in inbox[n] : up[m.from]

Forgetful == Rooted /\ OnlyWorking

LEMMA InitForgetful == Init => Forgetful
<1> SUFFICES ASSUME Init PROVE OnlyWorking
  BY InitRooted DEF Forgetful
<1> QED BY DEF Init, OnlyWorking, Neighbors

LEMMA EnvironmentForgetful ==
  ASSUME Forgetful, Environment
  PROVE  OnlyWorking'
<1>t. TypeOK /\ FramesTravelLinks /\ OnlyWorking
  BY DEF Forgetful, Rooted, Known, Sound
<1>1. ASSUME up' \in [Nodes -> BOOLEAN], Rediscover(up'), ctl.phase = "idle", UNCHANGED inbox
      PROVE  OnlyWorking'
  <2>1. cand' = {} /\ \A n \in Nodes : inbox'[n] = {}
    BY <1>1, <1>t DEF Rediscover, FramesTravelLinks
  <2>2. PICK found \in SUBSET {l \in Links : up'[l[1]] /\ up'[l[2]]} :
               heard' = [n \in Nodes |-> [m \in Nodes |->
                           IF <<n, m>> \in found THEN 0 ELSE Absent]]
    BY <1>1 DEF Rediscover, Probes
  <2>3. ASSUME NEW n \in Nodes, NEW m \in Nodes, m \in Neighbors(n, heard')
        PROVE  up'[m]
    <3>1. <<n, m>> \in found
      BY <2>2, <2>3 DEF Neighbors
    <3> QED BY <3>1
  <2> QED BY <2>1, <2>3 DEF OnlyWorking
<1>2. CASE discover_neighbors
  <2>1. up' = up
    BY <1>2 DEF discover_neighbors
  <2> QED BY <2>1, <1>1, <1>2, <1>t DEF discover_neighbors, TypeOK
<1>3. ASSUME NEW n \in Nodes, recover_communication(n) PROVE OnlyWorking'
  <2>1. up' \in [Nodes -> BOOLEAN]
    BY <1>3, <1>t DEF recover_communication, TypeOK
  <2> QED BY <2>1, <1>1, <1>3 DEF recover_communication
<1>4. ASSUME NEW n \in Nodes, NEW p \in Penalties, recalculate_routes(n, p) PROVE OnlyWorking'
  BY <1>4, <1>t DEF recalculate_routes, OnlyWorking
<1>5. ASSUME NEW x \in Nodes, fail_communication(x) PROVE OnlyWorking'
  <2> DEFINE H == [n \in Nodes |-> [heard[n] EXCEPT ![x] = Absent]]
  <2>1. /\ up' = [up EXCEPT ![x] = FALSE] /\ heard' = H /\ cand' = Without(x)
        /\ \A n \in Nodes : inbox'[n] = {}
    BY <1>5, <1>t DEF fail_communication, FramesTravelLinks
  <2>2. \A n, m \in Nodes : H[n][m] = IF m = x THEN Absent ELSE heard[n][m]
    BY <1>t DEF TypeOK
  <2>3. \A n, m \in Nodes : m \in Neighbors(n, H) => m # x /\ m \in Neighbors(n, heard)
    BY <2>2 DEF Neighbors
  <2>4. \A m \in Nodes : m # x => up'[m] = up[m]
    BY <2>1, <1>t DEF TypeOK
  <2>5. \A c \in Without(x) : c \in cand /\ c.at # x /\ c.at \in Nodes
    BY <1>t DEF Without, TypeOK, Candidate
  <2> HIDE DEF H
  <2> QED BY <2>1, <2>3, <2>4, <2>5, <1>t DEF OnlyWorking
<1> QED BY <1>2, <1>3, <1>4, <1>5 DEF Environment

(* A step at which no neighbour appears but from the given frames, all of  *)
(* working radios.                                                         *)
LEMMA AgingWorks ==
  ASSUME Forgetful, NEW t, NEW n \in Nodes, NEW m \in Nodes,
         m \in Neighbors(n, AgedHeard(t))
  PROVE  up[m]
<1>1. m \in Neighbors(n, heard)
  BY DEF Neighbors, AgedHeard
<1> QED BY <1>1 DEF Forgetful, OnlyWorking

LEMMA AgedHolders ==
  ASSUME Forgetful, NEW t \in Nat
  PROVE  \A a \in AgedCand(t) : up[a.at]
<1> TAKE a \in AgedCand(t)
<1>1. PICK c \in cand : a.at = c.at
  BY AgingKeeps DEF Forgetful, Rooted, Known, Sound
<1> QED BY <1>1 DEF Forgetful, OnlyWorking

LEMMA ExpiryForgetful ==
  ASSUME Forgetful, Expiry
  PROVE  OnlyWorking'
<1>t. TypeOK /\ OnlyWorking
  BY DEF Forgetful, Rooted, Known, Sound
<1>1. ASSUME NEW n \in Nodes, NEW m \in Nodes, ExpireNeighbor(n, m) PROVE OnlyWorking'
  <2>1. /\ heard' = [heard EXCEPT ![n][m] = Absent] /\ cand' \subseteq cand
        /\ UNCHANGED <<up, inbox>>
    BY <1>1 DEF ExpireNeighbor
  <2>2. \A k, j \in Nodes : heard'[k][j] # Absent => heard[k][j] # Absent
    BY <2>1, <1>t DEF TypeOK
  <2>3. \A k, j \in Nodes : j \in Neighbors(k, heard') => j \in Neighbors(k, heard)
    BY <2>2 DEF Neighbors
  <2> QED BY <2>1, <2>3, <1>t DEF OnlyWorking
<1>2. ASSUME NEW n \in Nodes, expire_routes(n) PROVE OnlyWorking'
  <2>1. cand' \subseteq cand /\ UNCHANGED <<up, inbox, heard>>
    BY <1>2 DEF expire_routes
  <2> QED BY <2>1, <1>t DEF OnlyWorking
<1>3. CASE EndExpiry
  BY <1>3, <1>t DEF EndExpiry, OnlyWorking
<1> QED BY <1>1, <1>2, <1>3 DEF Expiry

LEMMA ControlForgetful ==
  ASSUME Forgetful, Control
  PROVE  OnlyWorking'
<1>t. TypeOK /\ FramesTravelLinks /\ OnlyWorking
  BY DEF Forgetful, Rooted, Known, Sound
<1>1. CASE Round
  <2>l. PICK load \in Loads : Broadcast(load)
    BY <1>1 DEF Round
  <2> DEFINE errors(n) == {[kind |-> "RERR", from |-> e.from, dest |-> e.dest] :
                             e \in {x \in ctl.errs : x.from = n}}
             sent(n) == IF up[n] THEN errors(n) \union
                                      (IF n \in ctl.todo THEN advertisements_for(n, load[n]) ELSE {})
                        ELSE {}
  <2>1. (\A n \in Nodes : inbox'[n] \subseteq UNION {sent(k) : k \in Nodes}) /\ UNCHANGED up
    BY <2>l DEF Broadcast
  <2>2. PICK t \in AirTime : heard' = AgedHeard(t) /\ cand' = AgedCand(t)
    BY Zenon, <2>l DEF Broadcast
  <2>3. t \in Nat
    BY Numbers
  <2>4. ASSUME NEW k \in Nodes, NEW m \in sent(k) PROVE up[m.from]
    <3>1. up[k] /\ m.from = k
      BY <2>4 DEF advertisements_for
    <3> QED BY <3>1
  <2> HIDE DEF sent
  <2>5. \A n \in Nodes : \A m \in inbox'[n] : up'[m.from]
    BY <2>1, <2>4
  <2> QED BY <2>1, <2>2, <2>3, <2>5, AgingWorks, AgedHolders DEF OnlyWorking
<1>2. ASSUME NEW n \in Nodes, NEW m \in inbox[n], Deliver(n, m) PROVE OnlyWorking'
  <2>1. up[n] /\ up[m.from] /\ m.from \in Nodes
    BY <1>t DEF FramesTravelLinks, OnlyWorking, TypeOK, Advertisement, RouteError
  <2>2. /\ UNCHANGED up
        /\ heard' = heard \/ heard' = HeardFrom(n, m.from)
        /\ \A c \in cand' : c \in cand \/ c.at = n
        /\ Arrives(n, m)
    <3>1. CASE AcceptAdvertisement(n, m)
      <4>1. PICK hop \in LinkCosts[<<n, m.from>>][m.dest] : Accepts(n, m, hop)
        BY <3>1, AcceptanceMeans
      <4>2. Learned(n, m, hop).at = n
        BY DEF Learned
      <4> QED BY <4>1, <4>2 DEF Accepts
    <3>2. CASE ~AcceptAdvertisement(n, m)
      BY <1>2, <3>2 DEF Deliver, Lose, RejectAdvertisement, AcceptError, RejectError
    <3> QED BY <3>1, <3>2
  <2>3. \A k \in Nodes : inbox'[k] \subseteq inbox[k]
    BY <2>2, <1>t DEF Arrives, TypeOK
  <2>4. \A k, j \in Nodes : heard'[k][j] = heard[k][j] \/ j = m.from
    <3>1. heard \in [Nodes -> [Nodes -> {Absent} \union 0..(NeighborTimeout + 1)]]
      BY <1>t DEF TypeOK
    <3>2. \A k, j \in Nodes : HeardFrom(n, m.from)[k][j] = heard[k][j] \/ j = m.from
      BY <2>1, <3>1 DEF HeardFrom
    <3> QED
      BY <2>2, <3>2
  <2>5. \A k, j \in Nodes : j \in Neighbors(k, heard') => j \in Neighbors(k, heard) \/ j = m.from
    BY <2>4 DEF Neighbors
  <2> QED BY <2>1, <2>2, <2>3, <2>5, <1>t DEF OnlyWorking
<1>3. CASE EndRound \/ Finish
  BY <1>3, <1>t DEF EndRound, Finish, OnlyWorking
<1> QED BY <1>1, <1>2, <1>3 DEF Control

LEMMA NextForgetful == Forgetful /\ [Next]_vars => Forgetful'
<1> SUFFICES ASSUME Forgetful, [Next]_vars PROVE OnlyWorking'
  BY NextRooted DEF Forgetful
<1>t. TypeOK /\ OnlyWorking
  BY DEF Forgetful, Rooted, Known, Sound
<1>1. CASE Environment
  BY <1>1, EnvironmentForgetful
<1>2. CASE _step
  <2>1. cand' = AgedCand(1) /\ UNCHANGED <<up, inbox>>
    BY <1>2 DEF _step
  <2>2. PICK beats \in SUBSET {l \in Links : up[l[1]] /\ up[l[2]]} :
               heard' = [n \in Nodes |-> [m \in Nodes |->
                           IF <<m, n>> \in beats THEN 0 ELSE AgedHeard(1)[n][m]]]
    BY <1>2 DEF _step, Beats
  <2>3. ASSUME NEW n \in Nodes, NEW m \in Nodes, m \in Neighbors(n, heard')
        PROVE  up[m]
    <3>1. CASE <<m, n>> \in beats
      BY <3>1
    <3>2. CASE <<m, n>> \notin beats
      <4>1. m \in Neighbors(n, AgedHeard(1))
        BY <2>2, <2>3, <3>2 DEF Neighbors
      <4> QED BY <4>1, AgingWorks
    <3> QED BY <3>1, <3>2
  <2> QED BY <2>1, <2>3, AgedHolders, <1>t DEF OnlyWorking
<1>3. CASE Expiry
  BY <1>3, ExpiryForgetful
<1>4. CASE Control
  BY <1>4, ControlForgetful
<1>5. CASE UNCHANGED vars
  BY <1>5, <1>t DEF vars, OnlyWorking
<1> QED BY <1>1, <1>2, <1>3, <1>4, <1>5 DEF Next

(* Next hops and backups are neighbours, so that what holds of neighbours  *)
(* holds of them.                                                          *)
LEMMA ForgetfulForgets == Forgetful => FailedIsForgotten
<1> SUFFICES ASSUME Forgetful, NEW x \in Nodes, ~up[x]
             PROVE  /\ \A n \in Nodes : x \notin Neighbors(n, heard)
                    /\ \A c \in cand : c.via # x /\ c.at # x
                    /\ \A n, d \in Nodes : route[n][d].next # x /\ route[n][d].backup # x
                    /\ \A n \in Nodes : \A m \in inbox[n] : m.from # x
  BY DEF FailedIsForgotten
<1>t. TypeOK /\ OnlyWorking /\ CandidatesViaNeighbors /\ RouteIsBacked
  BY DEF Forgetful, Rooted, Known, Sound
<1>1. \A n \in Nodes : x \notin Neighbors(n, heard)
  BY <1>t DEF OnlyWorking
<1>2. \A c \in cand : c.at \in Nodes /\ c.via \in Neighbors(c.at, heard) /\ up[c.at]
  BY <1>t DEF TypeOK, Candidate, CandidatesViaNeighbors, OnlyWorking
<1>3. x # NoNode
  BY Numbers DEF NoNode
<1>4. ASSUME NEW n \in Nodes, NEW d \in Nodes
      PROVE  route[n][d].next # x /\ route[n][d].backup # x
  <2>1. Backed(n, d, route[n][d], cand, heard)
    BY <1>t DEF RouteIsBacked
  <2>2. CASE route[n][d] = NoRoute
    BY <2>2, <1>3 DEF NoRoute
  <2>3. CASE route[n][d] # NoRoute
    <3>1. route[n][d].next \in Neighbors(n, heard)
      BY <2>1, <2>3 DEF Backed
    <3>2. route[n][d].backup # NoNode => route[n][d].backup \in Neighbors(n, heard)
      BY <2>1, <2>3 DEF Backed
    <3> QED BY <3>1, <3>2, <1>1, <1>3
  <2> QED BY <2>2, <2>3
<1> QED BY <1>1, <1>2, <1>4, <1>t DEF OnlyWorking

(* However faults, recoveries, losses and control runs follow one another, *)
(* nothing any node could forward to or learn from is a failed radio.      *)
THEOREM FailuresAreForgotten == Spec => []FailedIsForgotten
BY InitForgetful, NextForgetful, ForgetfulForgets, PTL DEF Spec

-----------------------------------------------------------------------------
(* No loops from a discovery on, while no candidate goes and no route gets *)
(* dearer by more than Slack (RouteLoops).  Whoever is told a cost is told *)
(* one no lower than the teller's own has been at its cheapest.  A hop     *)
(* costs more than Slack and the teller's own cost is at most Slack above  *)
(* its cheapest, so that along next hops the costs still fall.             *)

(* Whether m has a way to d, and the least it can have said the way costs. *)
Informed(m, d) == m = d \/ route[m][d] # NoRoute
Owed(m, d) == IF m = d THEN 0 ELSE lowest[m][d]

HopsOutweighSlack == \A l \in Links, d \in Nodes : \A hop \in LinkCosts[l][d] : hop > Slack

Remembered ==
  /\ lowest \in [Nodes -> [Nodes -> Nat]]
  /\ \A n, d \in Nodes : /\ lowest[n][d] <= route[n][d].cost
                         /\ route[n][d].cost <= lowest[n][d] + Slack

Downhill ==
  \A c \in cand : Informed(c.via, c.dest) /\ Owed(c.via, c.dest) + Slack < c.cost

Announced ==
  \A k \in Nodes : \A m \in inbox[k] : m.kind = "RA" =>
    Informed(m.from, m.dest) /\ Owed(m.from, m.dest) <= m.cost

Settled == Remembered /\ Downhill /\ Announced

(* A candidate after a step is an old one, maybe older, or the step learned*)
(* it from a frame.                                                        *)
Kept(k) ==
  \E c \in cand : c.at = k.at /\ c.dest = k.dest /\ c.via = k.via /\ c.cost = k.cost

Taught(k) ==
  \E m \in inbox[k.at] : \E hop \in LinkCosts[<<k.at, m.from>>][m.dest] :
    /\ m.kind = "RA" /\ k.dest = m.dest /\ k.via = m.from
    /\ k.cost = hop + m.penalty + m.cost

Sourced == \A k \in cand' : Kept(k) \/ Taught(k)

LEMMA AgingSources ==
  ASSUME TypeOK, NEW t, cand' = AgedCand(t)
  PROVE  Sourced
<1> SUFFICES ASSUME NEW k \in cand' PROVE Kept(k)
  BY DEF Sourced
<1>1. PICK c \in cand : k = [c EXCEPT !.age = Saturated(c.age + t, RouteLifetime)]
  BY DEF AgedCand
<1>2. c.at = k.at /\ c.dest = k.dest /\ c.via = k.via /\ c.cost = k.cost
  BY <1>1 DEF TypeOK, Candidate
<1> QED BY <1>2 DEF Kept

LEMMA StepsSource ==
  ASSUME TypeOK, _step \/ Expiry \/ Control
  PROVE  Sourced
<1>1. ASSUME cand' \subseteq cand PROVE Sourced
  BY <1>1 DEF Sourced, Kept
<1>2. CASE _step
  BY <1>2, AgingSources DEF _step
<1>3. CASE Expiry
  <2>1. cand' \subseteq cand
    BY <1>3 DEF Expiry, ExpireNeighbor, expire_routes, EndExpiry
  <2> QED BY <1>1, <2>1
<1>4. ASSUME NEW load \in Loads, Broadcast(load) PROVE Sourced
  BY <1>4, AgingSources DEF Broadcast
<1>5. ASSUME NEW n \in Nodes, NEW m \in inbox[n], Deliver(n, m) PROVE Sourced
  <2>1. CASE AcceptAdvertisement(n, m)
    <3>1. PICK hop \in LinkCosts[<<n, m.from>>][m.dest] : Accepts(n, m, hop)
      BY <2>1, AcceptanceMeans
    <3>2. Taught(Learned(n, m, hop))
      BY <3>1 DEF Accepts, Taught, Learned, advertised_route_cost
    <3>3. \A k \in cand' : k = Learned(n, m, hop) \/ k \in cand
      BY <3>1 DEF Accepts
    <3> QED BY <3>2, <3>3 DEF Sourced, Kept
  <2>2. CASE ~AcceptAdvertisement(n, m)
    <3>1. cand' \subseteq cand
      BY <1>5, <2>2 DEF Deliver, Lose, RejectAdvertisement, AcceptError, RejectError
    <3> QED BY <1>1, <3>1
  <2> QED BY <2>1, <2>2
<1>6. CASE EndRound \/ Finish
  BY <1>1, <1>6 DEF EndRound, Finish
<1> QED BY <1>2, <1>3, <1>4, <1>5, <1>6 DEF Control, Round

(* As long as no candidate goes, whoever has a way keeps one.              *)
LEMMA InformedStays ==
  ASSUME Rooted, Rooted', NothingGone,
         NEW n \in Nodes, NEW d \in Nodes, Informed(n, d)
  PROVE  Informed(n, d)'
<1>t. RouteIsBacked /\ RouteIsBacked' /\ CandidatesViaNeighbors'
  BY DEF Rooted
<1>1. CASE n = d
  BY <1>1 DEF Informed
<1>2. CASE n # d
  <2>1. route[n][d] # NoRoute
    BY <1>2 DEF Informed
  <2>2. PICK c \in cand : c.at = n /\ c.dest = d
    BY <2>1, <1>t DEF RouteIsBacked, Backed
  <2>3. PICK k \in cand' : k.at = n /\ k.dest = d /\ k.age <= RouteLifetime
    BY <2>2 DEF NothingGone
  <2>4. k \in Live(n, d, cand', heard')
    BY <2>3, <1>t DEF Live, CandidatesViaNeighbors
  <2>5. route'[n][d] # NoRoute
    BY <2>4, <1>t DEF RouteIsBacked, Backed
  <2> QED BY <1>2, <2>5 DEF Informed
<1> QED BY <1>1, <1>2

(* So what a node owes for what it said only falls.                        *)
LEMMA DebtsFall ==
  ASSUME Rooted, Rooted', Remembered, Remembered', NothingGone, lowest' = Lowered,
         NEW m \in Nodes, NEW d \in Nodes, Informed(m, d)
  PROVE  /\ Informed(m, d)' /\ Owed(m, d)' <= Owed(m, d)
         /\ Owed(m, d) \in Nat /\ Owed(m, d)' \in Nat
<1>1. Informed(m, d)'
  BY InformedStays
<1>2. Owed(m, d) \in Nat /\ Owed(m, d)' \in Nat
  BY DEF Owed, Remembered
<1>3. CASE m = d
  BY <1>1, <1>3 DEF Owed
<1>4. CASE m # d
  <2>1. lowest'[m][d] = IF route'[m][d].cost < lowest[m][d]
                        THEN route'[m][d].cost ELSE lowest[m][d]
    BY <1>4 DEF Lowered, Informed
  <2>2. /\ lowest[m][d] \in Nat /\ lowest'[m][d] \in Nat
        /\ Owed(m, d) = lowest[m][d] /\ Owed(m, d)' = lowest'[m][d]
    BY <1>4 DEF Remembered, Owed
  <2>3. lowest'[m][d] <= lowest[m][d]
    <3>1. CASE route'[m][d].cost < lowest[m][d]
      BY <2>1, <2>2, <3>1
    <3>2. CASE ~(route'[m][d].cost < lowest[m][d])
      BY <2>1, <2>2, <3>2
    <3> QED BY <3>1, <3>2
  <2> QED BY <1>1, <2>2, <2>3
<1> QED BY <1>3, <1>4

LEMMA RememberingFits ==
  ASSUME TypeOK, TypeOK', Remembered, NothingDearer, lowest' = Lowered
  PROVE  Remembered'
<1>1. ASSUME NEW n \in Nodes, NEW d \in Nodes
      PROVE  /\ lowest'[n][d] \in Nat /\ lowest'[n][d] <= route'[n][d].cost
             /\ route'[n][d].cost <= lowest'[n][d] + Slack
  <2>1. route'[n][d].cost \in Nat /\ lowest[n][d] \in Nat
    BY DEF TypeOK, Route, NoRoute, Remembered
  <2>2. lowest'[n][d] = IF route[n][d] = NoRoute \/ route'[n][d].cost < lowest[n][d]
                        THEN route'[n][d].cost ELSE lowest[n][d]
    BY DEF Lowered
  <2>3. route'[n][d].cost <= lowest'[n][d] + Slack
    BY DEF NothingDearer
  <2> QED BY <2>1, <2>2, <2>3
<1>2. lowest' \in [Nodes -> [Nodes -> Nat]]
  <2> DEFINE f(n, d) == IF route[n][d] = NoRoute \/ route'[n][d].cost < lowest[n][d]
                        THEN route'[n][d].cost ELSE lowest[n][d]
  <2>1. lowest' = [n \in Nodes |-> [d \in Nodes |-> f(n, d)]]
    BY DEF Lowered
  <2> HIDE DEF f
  <2>2. \A n, d \in Nodes : f(n, d) \in Nat
    BY <1>1, <2>1
  <2> QED BY <2>1, <2>2
<1> QED BY <1>1, <1>2 DEF Remembered

(* What a round puts on the air is what the senders' tables say.           *)
LEMMA BroadcastAnnounced ==
  ASSUME TypeOK, Remembered, NEW load \in Loads, Broadcast(load),
         NEW k \in Nodes, NEW m \in inbox'[k], m.kind = "RA"
  PROVE  /\ m.from \in Nodes /\ m.dest \in Nodes
         /\ Informed(m.from, m.dest) /\ Owed(m.from, m.dest) <= m.cost
<1> DEFINE errors(j) == {[kind |-> "RERR", from |-> e.from, dest |-> e.dest] :
                           e \in {x \in ctl.errs : x.from = j}}
           table(j) == IF j \in ctl.todo THEN advertisements_for(j, load[j]) ELSE {}
           sent(j) == IF up[j] THEN errors(j) \union table(j) ELSE {}
<1>1. inbox'[k] \subseteq UNION {sent(j) : j \in Nodes}
  BY DEF Broadcast
<1>2. PICK j \in Nodes : m \in sent(j)
  BY <1>1
<1>3. m \in errors(j) \/ m \in table(j)
  BY <1>2
<1>4. m \notin errors(j)
  OBVIOUS
<1>5. m \in advertisements_for(j, load[j])
  BY <1>3, <1>4
<1>6. CASE m.dest = j
  <2>1. m.from = j /\ (m.cost = 0 \/ m.cost = route[j][j].cost)
    BY <1>5, <1>6 DEF advertisements_for
  <2>2. 0 <= m.cost
    BY <2>1 DEF TypeOK, Route, NoRoute
  <2> QED BY <1>6, <2>1, <2>2 DEF Informed, Owed
<1>7. CASE m.dest # j
  <2>1. PICK d \in Nodes : /\ route[j][d] # NoRoute /\ m.dest = d /\ m.from = j
                           /\ m.cost = route[j][d].cost
    BY <1>5, <1>7 DEF advertisements_for
  <2> QED BY <1>7, <2>1 DEF Informed, Owed, Remembered
<1> QED BY <1>6, <1>7

(* A discovery starts from empty tables, with nothing on the air.          *)
LEMMA RenewalSettles ==
  ASSUME Sound, Renewal, lowest' = Unrouted
  PROVE  Settled'
<1>1. /\ cand' = {} /\ ctl.phase = "idle" /\ UNCHANGED inbox
      /\ route' = [n \in Nodes |-> [d \in Nodes |-> NoRoute]]
  BY DEF Renewal, discover_neighbors, recover_communication, Rediscover
<1>2. \A n \in Nodes : inbox'[n] = {}
  BY <1>1 DEF Sound, FramesTravelLinks
<1>3. Remembered'
  BY <1>1, SlackAssumption DEF Remembered, Unrouted, NoRoute
<1> QED BY <1>1, <1>2, <1>3 DEF Settled, Downhill, Announced

(* And a step that leaves the mesh steady does not unsettle it.            *)
LEMMA SettledStays ==
  ASSUME HopsOutweighSlack, Rooted, Rooted', Settled, NothingGone, NothingDearer,
         lowest' = Lowered, _step \/ Expiry \/ Control
  PROVE  Settled'
<1>t. /\ TypeOK /\ TypeOK' /\ FramesTravelLinks
      /\ Remembered /\ Downhill /\ Announced
  BY DEF Settled, Rooted, Known, Sound
<1>1. Remembered'
  BY <1>t, RememberingFits
<1>2. Downhill'
  <2> SUFFICES ASSUME NEW k \in cand'
               PROVE  Informed(k.via, k.dest)' /\ Owed(k.via, k.dest)' + Slack < k.cost
    BY DEF Downhill
  <2>1. k.at \in Nodes /\ k.via \in Nodes /\ k.dest \in Nodes /\ k.cost \in Nat
    BY <1>t DEF TypeOK, Candidate
  <2>2. SUFFICES Informed(k.via, k.dest) /\ Owed(k.via, k.dest) + Slack < k.cost
    <3>1. /\ Informed(k.via, k.dest)' /\ Owed(k.via, k.dest)' <= Owed(k.via, k.dest)
          /\ Owed(k.via, k.dest) \in Nat /\ Owed(k.via, k.dest)' \in Nat
      BY <1>1, <1>t, <2>1, <2>2, DebtsFall
    <3> QED BY <2>1, <2>2, <3>1, SlackAssumption
  <2>3. CASE Kept(k)
    BY <2>3, <1>t DEF Kept, Downhill
  <2>4. CASE Taught(k)
    <3>1. PICK m \in inbox[k.at] : \E hop \in LinkCosts[<<k.at, m.from>>][m.dest] :
            /\ m.kind = "RA" /\ k.dest = m.dest /\ k.via = m.from
            /\ k.cost = hop + m.penalty + m.cost
      BY <2>4 DEF Taught
    <3>2. PICK hop \in LinkCosts[<<k.at, m.from>>][m.dest] :
            /\ m.kind = "RA" /\ k.dest = m.dest /\ k.via = m.from
            /\ k.cost = hop + m.penalty + m.cost
      BY <3>1
    <3>3. hop > Slack /\ hop \in Nat
      BY <2>1, <3>2, <1>t, Numbers DEF FramesTravelLinks, HopsOutweighSlack
    <3>4. m \in Advertisement
      BY <2>1, <3>2, <1>t DEF TypeOK, RouteError
    <3>5. m.penalty \in Nat /\ m.cost \in Nat
      BY <3>4 DEF Advertisement
    <3>6. Informed(k.via, k.dest) /\ Owed(k.via, k.dest) <= m.cost
      BY <2>1, <3>2, <1>t DEF Announced
    <3>7. Owed(k.via, k.dest) \in Nat
      BY <2>1, <1>t DEF Owed, Remembered
    <3>8. Owed(k.via, k.dest) + Slack < k.cost
      BY <3>2, <3>3, <3>5, <3>6, <3>7, SlackAssumption
    <3> QED BY <3>6, <3>8
  <2>5. Sourced
    BY <1>t, StepsSource
  <2> QED BY <2>3, <2>4, <2>5 DEF Sourced
<1>3. Announced'
  <2> SUFFICES ASSUME NEW k \in Nodes, NEW m \in inbox'[k], m.kind = "RA"
               PROVE  Informed(m.from, m.dest)' /\ Owed(m.from, m.dest)' <= m.cost
    BY DEF Announced
  <2>1. m.from \in Nodes /\ m.dest \in Nodes /\ m.cost \in Nat
    BY <1>t DEF TypeOK, Advertisement, RouteError
  <2>2. ASSUME Informed(m.from, m.dest), Owed(m.from, m.dest) <= m.cost
        PROVE  Informed(m.from, m.dest)' /\ Owed(m.from, m.dest)' <= m.cost
    <3>1. /\ Informed(m.from, m.dest)' /\ Owed(m.from, m.dest)' <= Owed(m.from, m.dest)
          /\ Owed(m.from, m.dest) \in Nat /\ Owed(m.from, m.dest)' \in Nat
      BY <1>1, <1>t, <2>1, <2>2, DebtsFall
    <3> QED BY <2>1, <2>2, <3>1
  <2>3. CASE inbox'[k] \subseteq inbox[k]
    BY <2>2, <2>3, <1>t DEF Announced
  <2>4. ASSUME NEW load \in Loads, Broadcast(load)
        PROVE  Informed(m.from, m.dest)' /\ Owed(m.from, m.dest)' <= m.cost
    BY <2>2, <2>4, <1>t, BroadcastAnnounced
  <2>5. CASE _step \/ Expiry \/ EndRound \/ Finish
    <3>1. UNCHANGED inbox
      BY <2>5 DEF _step, Expiry, ExpireNeighbor, expire_routes, EndExpiry, EndRound, Finish
    <3> QED BY <2>3, <3>1
  <2>6. ASSUME NEW n \in Nodes, NEW o \in inbox[n], Deliver(n, o)
        PROVE  inbox'[k] \subseteq inbox[k]
    <3>1. inbox' = [inbox EXCEPT ![n] = @ \ {o}]
      BY <2>6 DEF Deliver, Lose, AcceptAdvertisement, RejectAdvertisement,
                  AcceptError, RejectError, Arrives
    <3> QED BY <3>1, <1>t DEF TypeOK
  <2> QED BY <2>3, <2>4, <2>5, <2>6 DEF Control, Round
<1> QED BY <1>1, <1>2, <1>3 DEF Settled

Steadiness == Rooted /\ (steady => Settled)

LEMMA NextSteady ==
  ASSUME HopsOutweighSlack
  PROVE  Steadiness /\ [SteadyNext]_<<vars, history>> => Steadiness'
<1> SUFFICES ASSUME Steadiness, [SteadyNext]_<<vars, history>> PROVE Steadiness'
  OBVIOUS
<1>1. [Next]_vars
  BY DEF SteadyNext, Renewal, Disruption, Next, Environment
<1>2. Rooted /\ Rooted' /\ Sound
  BY <1>1, NextRooted DEF Steadiness, Rooted, Known
<1>3. CASE Renewal /\ lowest' = Unrouted
  BY <1>2, <1>3, RenewalSettles DEF Steadiness
<1>4. CASE steady' = FALSE
  BY <1>2, <1>4 DEF Steadiness
<1>5. CASE (_step \/ Expiry \/ Control) /\ StaysSteady
  <2> SUFFICES ASSUME steady' PROVE Settled'
    BY <1>2 DEF Steadiness
  <2>1. steady /\ NothingGone /\ NothingDearer /\ lowest' = Lowered
    BY <1>5 DEF StaysSteady
  <2>2. Settled
    BY <2>1 DEF Steadiness
  <2> QED BY <1>2, <1>5, <2>1, <2>2, SettledStays
<1>6. CASE UNCHANGED <<vars, history>>
  <2>1. Settled => Settled'
    BY <1>6 DEF vars, history, Settled, Remembered, Downhill, Announced, Informed, Owed
  <2> QED BY <1>2, <1>6, <2>1 DEF Steadiness, history
<1> QED BY <1>3, <1>4, <1>5, <1>6 DEF SteadyNext

(* Where the costs fall along next hops the next hops lead to the          *)
(* destination: in a set of nodes that they do not leave, the one with the *)
(* cheapest entry would have a cheaper one ahead of it.                    *)
LEMMA DownhillLeads ==
  ASSUME Rooted, Settled, NEW d \in Nodes
  PROVE  LeadTo(d)
<1>t. /\ TypeOK /\ RouteIsBacked /\ Downhill /\ Remembered
  BY DEF Settled, Rooted, Known, Sound
<1>1. ASSUME NEW n \in Nodes, route[n][d] # NoRoute
      PROVE  LET m == route[n][d].next
             IN /\ m \in Nodes /\ Informed(m, d)
                /\ m # d => /\ route[m][d].cost \in Nat /\ route[n][d].cost \in Nat
                            /\ route[m][d].cost < route[n][d].cost
  <2> DEFINE m == route[n][d].next
  <2>1. PICK c \in cand : c.at = n /\ c.dest = d /\ c.via = m /\ c.cost = route[n][d].cost
    BY <1>1, <1>t DEF RouteIsBacked, Backed
  <2>2. m \in Nodes /\ c.cost \in Nat
    BY <2>1, <1>t DEF TypeOK, Candidate
  <2>3. Informed(m, d) /\ Owed(m, d) + Slack < c.cost
    BY <2>1, <1>t DEF Downhill
  <2>4. ASSUME m # d
        PROVE  /\ route[m][d].cost \in Nat /\ route[n][d].cost \in Nat
               /\ route[m][d].cost < route[n][d].cost
    <3>1. Owed(m, d) = lowest[m][d]
      BY <2>4 DEF Owed
    <3>2. /\ lowest[m][d] \in Nat /\ route[m][d].cost \in Nat
          /\ route[m][d].cost <= lowest[m][d] + Slack
      BY <2>2, <1>t DEF TypeOK, Route, NoRoute, Remembered
    <3> HIDE DEF m
    <3>3. route[m][d].cost < c.cost
      BY <2>2, <2>3, <3>1, <3>2, SlackAssumption
    <3> QED BY <2>1, <2>2, <3>2, <3>3
  <2> QED BY <2>2, <2>3, <2>4
<1>2. ASSUME NEW S \in SUBSET (Nodes \ {d}), S # {},
             \A n \in S : route[n][d] # NoRoute /\ route[n][d].next \in S
      PROVE  FALSE
  <2> DEFINE costs == {route[n][d].cost : n \in S}
  <2>1. costs \in SUBSET Nat /\ costs # {}
    BY <1>2, <1>t DEF TypeOK, Route
  <2>2. PICK k \in costs : \A j \in costs : k <= j
    BY <2>1, LeastNat
  <2>3. PICK n \in S : route[n][d].cost = k
    BY <2>2
  <2>4. /\ route[route[n][d].next][d].cost \in Nat /\ route[n][d].cost \in Nat
        /\ route[route[n][d].next][d].cost < route[n][d].cost
    BY <1>1, <1>2, <2>3
  <2>5. route[route[n][d].next][d].cost \in costs
    BY <1>2, <2>3
  <2>6. k <= route[route[n][d].next][d].cost
    BY <2>2, <2>5
  <2> QED BY <2>3, <2>4, <2>6
<1> QED BY <1>1, <1>2 DEF LeadTo, Informed

(* From a discovery on no packet can be sent in circles while no candidate *)
(* is withdrawn or expires and no route is dearer than it has been by as   *)
(* much as the cheapest hop costs: fading, load and faults that stay below *)
(* that make no loop, in any mesh.  With the default weights a hop counts  *)
(* at least 2, and 1 less on the way to a gateway.                         *)
THEOREM SteadyTablesLead ==
  ASSUME \A l \in Links, d \in Nodes : \A hop \in LinkCosts[l][d] : hop > Slack
  PROVE  SteadySpec => []SteadyRoutesLead
<1>1. SteadyInit => Steadiness
  BY InitRooted DEF SteadyInit, Steadiness
<1>2. Steadiness => SteadyRoutesLead
  BY DownhillLeads DEF Steadiness, SteadyRoutesLead
<1>3. HopsOutweighSlack
  BY DEF HopsOutweighSlack
<1>4. Steadiness /\ [SteadyNext]_<<vars, history>> => Steadiness'
  BY <1>3, NextSteady
<1> QED BY <1>1, <1>2, <1>4, PTL DEF SteadySpec

-----------------------------------------------------------------------------
(* A discovery that loses no advertisement reaches everyone (RouteLoops).  *)
(* Between two neighbours, what one knows the other knows as well, or can  *)
(* not use, or is still to be told: the frame is under way or its sender   *)
(* is among those with something to say.  A run that ends with nothing to  *)
(* say has told everything.                                                *)

Current == \A c \in cand : c.seq = seq[c.dest] /\ c.age <= RouteLifetime

(* What is told is fresh, and the teller has a way himself.                *)
Genuine ==
  /\ Current
  /\ \A c \in cand : c.dest # c.at /\ Informed(c.via, c.dest)
  /\ \A n \in Nodes : \A m \in inbox[n] : m.kind = "RA" =>
       m.seq = seq[m.dest] /\ Informed(m.from, m.dest)

(* Neighbours have each other, and only they send each other frames.       *)
Mutual ==
  /\ \A n, m \in Nodes : m \in Neighbors(n, heard) =>
       n \in Neighbors(m, heard) /\ <<n, m>> \in Links
  /\ \A n \in Nodes : \A m \in inbox[n] : m.from \in Neighbors(n, heard)

(* Who is still to speak in this run.                                      *)
Due(k) == k \in (IF ctl.phase = "drain" THEN pendAdv ELSE ctl.todo)

(* What k's advertisement of its present way to d says.                    *)
Says(k, d, m) ==
  /\ m.kind = "RA" /\ m.from = k /\ m.dest = d /\ m.hops = Extent(k, d)
  /\ m.next = IF k = d THEN NoNode ELSE route[k][d].next

Heeded(n, k, d) ==
  \/ Informed(n, d)
  \/ Extent(k, d) = MaxHops
  \/ Due(k)
  \/ \E m \in inbox[n] : Says(k, d, m)

AllHeeded ==
  \A n, d \in Nodes : \A k \in Neighbors(n, heard) : Informed(k, d) => Heeded(n, k, d)

Spreading ==
  /\ "RA" \notin Lossy /\ (ctl.phase = "idle" => ctl.todo = {})
  /\ Genuine /\ Mutual /\ AllHeeded

LEMMA RenewalSpreads ==
  ASSUME Sound, Renewal, "RA" \notin Lossy
  PROVE  Spreading'
<1>t. TypeOK /\ FramesTravelLinks
  BY DEF Sound
<1>1. /\ ctl.phase = "idle" /\ UNCHANGED inbox
      /\ ctl'.phase = "rounds" /\ ctl'.todo = Nodes
  BY DEF Renewal, discover_neighbors, recover_communication, EnterControl
<1> DEFINE Found(found) ==
      /\ \A l \in found : <<l[2], l[1]>> \in found
      /\ heard' = [n \in Nodes |-> [m \in Nodes |->
                     IF <<n, m>> \in found THEN 0 ELSE Absent]]
<1>r. ASSUME NEW available, Rediscover(available)
      PROVE  cand' = {} /\ \E found \in SUBSET Links : Found(found)
  <2>1. PICK found \in Probes(available) : Found(found)
    BY <1>r DEF Rediscover
  <2>2. found \in SUBSET Links
    BY <2>1 DEF Probes
  <2> QED BY <1>r, <2>1, <2>2 DEF Rediscover
<1>2. cand' = {} /\ \E found \in SUBSET Links : Found(found)
  <2> HIDE DEF Found
  <2>1. Rediscover(up) \/ Rediscover(up')
    BY DEF Renewal, discover_neighbors, recover_communication
  <2> QED BY <1>r, <2>1
<1>f. PICK found \in SUBSET Links : Found(found)
  BY <1>2
<1>3. \A n, m \in Nodes : m \in Neighbors(n, heard') <=> <<n, m>> \in found
  <2>1. 0 # Absent
    BY DEF Absent
  <2>2. \A n, m \in Nodes : heard'[n][m] = IF <<n, m>> \in found THEN 0 ELSE Absent
    BY <1>f
  <2>3. \A n, m \in Nodes : heard'[n][m] # Absent <=> <<n, m>> \in found
    BY <2>1, <2>2, Zenon
  <2> QED BY <2>3 DEF Neighbors
<1>4. \A n \in Nodes : inbox'[n] = {}
  BY <1>1, <1>t DEF FramesTravelLinks
<1>5. Mutual'
  <2>1. \A n, m \in Nodes : <<n, m>> \in found => <<m, n>> \in found /\ <<n, m>> \in Links
    BY <1>f
  <2> QED BY <1>3, <1>4, <2>1 DEF Mutual
<1>6. Genuine'
  BY <1>2, <1>4 DEF Genuine, Current
<1>7. \A k \in Nodes : Due(k)'
  BY <1>1 DEF Due
<1>8. AllHeeded'
  BY <1>7 DEF AllHeeded, Heeded, Neighbors
<1> QED BY <1>1, <1>5, <1>6, <1>8 DEF Spreading

(* A frame that says what its sender knows now leaves the receiver with a  *)
(* way, whichever check it meets: a route is only withheld from the one it *)
(* runs over, who has a way of his own.                                    *)
LEMMA DeliveryInforms ==
  ASSUME Forgetful, Rooted', Genuine, Mutual, NothingGone, "RA" \notin Lossy,
         NEW n \in Nodes, NEW m \in inbox[n], Deliver(n, m),
         NEW k \in Nodes, NEW d \in Nodes, Says(k, d, m)
  PROVE  Informed(n, d)' \/ Extent(k, d) = MaxHops
<1>t. /\ Rooted /\ OnlyWorking /\ TypeOK /\ NoFutureSequence /\ RouteIsBacked
      /\ RouteIsBacked' /\ CandidatesViaNeighbors'
  BY DEF Forgetful, Rooted, Known, Sound
<1>m. /\ m.kind = "RA" /\ m.from = k /\ m.dest = d /\ m.hops = Extent(k, d)
      /\ m.next = IF k = d THEN NoNode ELSE route[k][d].next
  BY DEF Says
<1>1. m \in Advertisement
  BY <1>m, <1>t DEF TypeOK, RouteError
<1>2. CASE AcceptAdvertisement(n, m)
  <2>h. PICK hop \in LinkCosts[<<n, m.from>>][m.dest] : Accepts(n, m, hop)
    BY <1>2, AcceptanceMeans
  <2>1. LET l == Learned(n, m, hop) IN l \in cand' /\ l.at = n /\ l.dest = d
    BY <2>h, <1>m DEF Accepts, Learned
  <2>2. Learned(n, m, hop) \in Live(n, d, cand', heard')
    BY <2>1, <1>t DEF NothingGone, Live, CandidatesViaNeighbors
  <2>3. route'[n][d] # NoRoute
    BY <2>2, <1>t DEF RouteIsBacked, Backed
  <2> QED BY <2>3 DEF Informed
<1>3. CASE RejectAdvertisement(n, m)
  <2>1. m.dest = n \/ m.next = n \/ ~(m.hops + 1 <= MaxHops)
    <3>1. up[m.from]
      BY <1>t DEF OnlyWorking
    <3>2. m.seq = seq[m.dest]
      BY <1>m DEF Genuine
    <3>3. \A s \in KnownSeqs(n, m.dest) : m.seq >= s
      <4>1. \A s \in KnownSeqs(n, m.dest) : s <= seq[m.dest] /\ s \in Nat
        BY <1>1, <1>t DEF KnownSeqs, NoFutureSequence, TypeOK, Candidate, Route, NoRoute,
                          Advertisement
      <4>2. seq[m.dest] \in Nat
        BY <1>1, <1>t DEF TypeOK, Advertisement
      <4> QED BY <3>2, <4>1, <4>2
    <3> QED BY <1>3, <3>1, <3>3 DEF RejectAdvertisement, Acceptable
  <2>2. ASSUME m.next = n PROVE Informed(n, d)
    <3>1. k # d
      BY <1>m, <2>2, Numbers DEF NoNode
    <3>2. route[k][d] # NoRoute /\ route[k][d].next = n
      BY <1>m, <2>2, <3>1 DEF Genuine, Informed
    <3>3. \E c \in cand : c.at = k /\ c.dest = d /\ c.via = n
      BY <3>2, <1>t DEF RouteIsBacked, Backed
    <3> QED BY <3>3 DEF Genuine
  <2>3. ASSUME m.next = n PROVE Informed(n, d)'
    BY <2>2, <2>3, <1>t, InformedStays
  <2>4. ASSUME ~(m.hops + 1 <= MaxHops) PROVE Extent(k, d) = MaxHops
    BY <1>1, <1>m, <2>4, Numbers DEF Advertisement
  <2> QED BY <1>m, <2>1, <2>3, <2>4 DEF Informed
<1> QED BY <1>2, <1>3, <1>m DEF Deliver, Lose, AcceptError, RejectError

(* Nobody gains a neighbour in such a run: who is heard already is one.    *)
LEMMA DeliveryKeepsNeighbors ==
  ASSUME TypeOK, Mutual, NEW n \in Nodes, NEW m \in inbox[n], Deliver(n, m)
  PROVE  \A k \in Nodes : Neighbors(k, heard') = Neighbors(k, heard)
<1>1. heard' = heard \/ heard' = HeardFrom(n, m.from)
  BY DEF Deliver, Lose, AcceptAdvertisement, RejectAdvertisement, AcceptError, RejectError
<1>2. m.from \in Neighbors(n, heard)
  BY DEF Mutual
<1>3. 0 # Absent
  BY DEF Absent
<1>4. ASSUME NEW k \in Nodes, heard' = HeardFrom(n, m.from), NEW j \in Nodes
      PROVE  heard'[k][j] # Absent <=> heard[k][j] # Absent
  <2>1. heard'[k][j] = IF k = n /\ j = m.from THEN 0 ELSE heard[k][j]
    BY <1>2, <1>4 DEF HeardFrom, TypeOK, Neighbors
  <2>2. heard[n][m.from] # Absent
    BY <1>2 DEF Neighbors
  <2> QED BY <1>3, <2>1, <2>2
<1> QED BY <1>1, <1>4 DEF Neighbors

LEMMA RoundKeepsNeighbors ==
  ASSUME TypeOK, NEW load \in Loads, Broadcast(load)
  PROVE  \A k \in Nodes : Neighbors(k, heard') = Neighbors(k, heard)
<1>1. PICK t \in AirTime : heard' = AgedHeard(t)
  BY DEF Broadcast
<1>2. ASSUME NEW k \in Nodes, NEW j \in Nodes
      PROVE  j \in Neighbors(k, heard') <=> j \in Neighbors(k, heard)
  <2>1. CASE j \in Neighbors(k, heard)
    BY <1>1, <2>1, AgingHears, Numbers
  <2>2. CASE j \notin Neighbors(k, heard)
    BY <1>1, <2>2 DEF Neighbors, AgedHeard
  <2> QED BY <2>1, <2>2
<1> QED BY <1>2 DEF Neighbors

LEMMA DeliverySpreads ==
  ASSUME Forgetful, Rooted', Spreading, NothingGone,
         NEW n \in Nodes, NEW m \in inbox[n], Deliver(n, m)
  PROVE  Spreading'
<1>t. /\ Rooted /\ TypeOK /\ TypeOK' /\ Genuine /\ Mutual /\ AllHeeded
  BY DEF Spreading, Forgetful, Rooted, Known, Sound
<1>1. /\ ctl.phase = "drain" /\ UNCHANGED <<seq, ctl>> /\ pendAdv \subseteq pendAdv'
      /\ inbox' = [inbox EXCEPT ![n] = @ \ {m}]
      /\ heard' = heard \/ heard' = HeardFrom(n, m.from)
  BY DEF Deliver, Lose, AcceptAdvertisement, RejectAdvertisement, AcceptError, RejectError,
         Arrives, Deliverable
<1>2. \A k \in Nodes : inbox'[k] \subseteq inbox[k]
  BY <1>1, <1>t DEF TypeOK
<1>3. \A k \in Nodes : Neighbors(k, heard') = Neighbors(k, heard)
  BY <1>t, DeliveryKeepsNeighbors
<1>4. Mutual'
  BY <1>2, <1>3, <1>t DEF Mutual
<1>5. \A k, d \in Nodes : Informed(k, d) => Informed(k, d)'
  BY <1>t, InformedStays
\* only a delivered advertisement teaches a way, and its sender has one
<1>6. Genuine'
  <2>2. \A c \in cand' : c.seq = seq[c.dest] /\ c.dest # c.at /\ Informed(c.via, c.dest)
    <3>1. \A c \in cand : c.seq = seq[c.dest] /\ c.dest # c.at /\ Informed(c.via, c.dest)
      BY <1>t DEF Genuine, Current
    <3>2. CASE AcceptAdvertisement(n, m)
      <4>1. PICK hop \in LinkCosts[<<n, m.from>>][m.dest] : Accepts(n, m, hop)
        BY <3>2, AcceptanceMeans
      <4>2. m.kind = "RA" /\ m.dest # n
        BY <4>1 DEF Accepts, Acceptable
      <4>3. m.seq = seq[m.dest] /\ Informed(m.from, m.dest)
        BY <4>2, <1>t DEF Genuine
      <4>4. LET c == Learned(n, m, hop)
            IN c.seq = seq[c.dest] /\ c.dest # c.at /\ Informed(c.via, c.dest)
        BY <4>2, <4>3 DEF Learned
      <4>5. \A c \in cand' : c \in cand \/ c = Learned(n, m, hop)
        BY <4>1 DEF Accepts
      <4> QED BY <3>1, <4>4, <4>5
    <3>3. CASE ~AcceptAdvertisement(n, m)
      <4>1. cand' \subseteq cand
        BY <3>3 DEF Deliver, Lose, RejectAdvertisement, AcceptError, RejectError
      <4> QED BY <3>1, <4>1
    <3> QED BY <3>2, <3>3
  <2>3. Current'
    BY <1>1, <2>2 DEF Current, NothingGone
  <2>4. \A c \in cand' : c.via \in Nodes /\ c.dest \in Nodes
    BY <1>t DEF TypeOK, Candidate
  <2>5. ASSUME NEW k \in Nodes, NEW o \in inbox'[k], o.kind = "RA"
        PROVE  o.seq = seq'[o.dest] /\ Informed(o.from, o.dest)'
    <3>1. o \in inbox[k] /\ o.from \in Nodes /\ o.dest \in Nodes
      BY <1>2, <1>t, <2>5 DEF TypeOK, Advertisement, RouteError
    <3> QED BY <1>1, <1>5, <1>t, <2>5, <3>1 DEF Genuine
  <2> QED BY <1>5, <2>2, <2>3, <2>4, <2>5 DEF Genuine
\* whoever changes an entry, and keeps one, has something to say
<1>7. \A k, d \in Nodes : \/ route'[k][d] = route[k][d]
                          \/ route'[k][d] = NoRoute
                          \/ k \in pendAdv'
  <2>1. CASE Lose(n, m) \/ RejectAdvertisement(n, m) \/ RejectError(n, m)
    BY <2>1 DEF Lose, RejectAdvertisement, RejectError
  <2>2. CASE AcceptAdvertisement(n, m)
    BY <2>2, <1>t DEF AcceptAdvertisement, TypeOK
  <2>3. CASE AcceptError(n, m)
    BY <2>3, <1>t DEF AcceptError, TypeOK
  <2> QED BY <2>1, <2>2, <2>3 DEF Deliver
<1>8. ASSUME NEW j \in Nodes, NEW d \in Nodes, NEW k \in Neighbors(j, heard'), Informed(k, d)'
      PROVE  Heeded(j, k, d)'
  <2>1. k \in Nodes /\ k \in Neighbors(j, heard)
    BY <1>3 DEF Neighbors
  <2>2. CASE k \in pendAdv'
    BY <2>2, <1>1 DEF Heeded, Due
  <2>3. CASE k # d /\ route'[k][d] = NoRoute
    BY <1>8, <2>3 DEF Informed
  <2>4. CASE k = d \/ route'[k][d] = route[k][d]
    <3>1. /\ Informed(k, d) /\ Extent(k, d)' = Extent(k, d)
          /\ \A o : Says(k, d, o)' <=> Says(k, d, o)
      BY <1>8, <2>4 DEF Informed, Extent, Says
    <3>2. Heeded(j, k, d)
      BY <2>1, <3>1, <1>t DEF AllHeeded
    <3>3. CASE Informed(j, d) \/ Extent(k, d) = MaxHops \/ Due(k)
      BY <1>1, <1>5, <3>1, <3>3 DEF Heeded, Due
    <3>4. ASSUME NEW o \in inbox[j], Says(k, d, o) PROVE Heeded(j, k, d)'
      <4>1. CASE o \in inbox'[j]
        BY <4>1, <3>1, <3>4 DEF Heeded
      <4>2. CASE o \notin inbox'[j]
        <5>1. j = n /\ o = m
          BY <1>1, <4>2, <1>t DEF TypeOK
        <5>2. Informed(n, d)' \/ Extent(k, d) = MaxHops
          BY <2>1, <3>4, <5>1, DeliveryInforms DEF Spreading
        <5> QED BY <3>1, <5>1, <5>2 DEF Heeded
      <4> QED BY <4>1, <4>2
    <3> QED BY <3>2, <3>3, <3>4 DEF Heeded
  <2> QED BY <1>7, <2>1, <2>2, <2>3, <2>4
<1> QED BY <1>1, <1>4, <1>6, <1>8 DEF Spreading, AllHeeded

(* A round tells every neighbour of who is due everything that one knows.  *)
LEMMA RoundSpreads ==
  ASSUME Forgetful, Rooted', Spreading, NothingGone, NEW load \in Loads, Broadcast(load)
  PROVE  Spreading'
<1> DEFINE errors(k) == {[kind |-> "RERR", from |-> e.from, dest |-> e.dest] :
                           e \in {x \in ctl.errs : x.from = k}}
           table(k) == IF k \in ctl.todo THEN advertisements_for(k, load[k]) ELSE {}
           sent(k) == IF up[k] THEN errors(k) \union table(k) ELSE {}
<1>t. /\ Rooted /\ OnlyWorking /\ TypeOK /\ TypeOK' /\ FramesTravelLinks /\ RouteIsBacked
      /\ Genuine /\ Mutual /\ AllHeeded /\ CandidatesViaNeighbors
  BY DEF Spreading, Forgetful, Rooted, Known, Sound
<1>1. /\ ctl.phase = "rounds" /\ ctl'.phase = "drain" /\ UNCHANGED <<up, seq, route>>
      /\ \E t \in AirTime : heard' = AgedHeard(t) /\ cand' = AgedCand(t)
  BY <1>t DEF Broadcast, TypeOK
<1>2. PICK t \in AirTime : heard' = AgedHeard(t) /\ cand' = AgedCand(t)
  BY <1>1
<1>3. \A k \in Nodes : Neighbors(k, heard') = Neighbors(k, heard)
  BY <1>t, RoundKeepsNeighbors
<1>4. ASSUME NEW k \in Nodes, NEW n \in Nodes, n \in Neighbors(k, heard)
      PROVE  sent(k) \subseteq inbox'[n]
  <2>1. up[n] /\ <<k, n>> \in Links
    BY <1>4, <1>t DEF OnlyWorking, Mutual
  <2> QED BY <1>4, <2>1 DEF Broadcast
<1>5. ASSUME NEW n \in Nodes, NEW m \in inbox'[n]
      PROVE  \E k \in Nodes : m \in sent(k) /\ k \in Neighbors(n, heard)
  <2>1. \E k \in Nodes : m \in sent(k)
                         /\ (n \in Neighbors(k, heard) \/ k \in Neighbors(n, heard))
    BY <1>5 DEF Broadcast
  <2> QED BY <2>1, <1>t DEF Mutual
<1>6. \A k \in Nodes : \A m \in sent(k) : m.from = k
  BY DEF advertisements_for
<1>7. Mutual'
  BY <1>3, <1>5, <1>6, <1>t DEF Mutual
<1>8. ASSUME NEW n \in Nodes PROVE route[n][n] = NoRoute
  <2>1. Backed(n, n, route[n][n], cand, heard) /\ \A c \in cand : c.dest # c.at
    BY <1>t DEF RouteIsBacked, Genuine
  <2> QED BY <2>1 DEF Backed
<1>9. ASSUME NEW n \in Nodes, NEW m \in inbox'[n], m.kind = "RA"
      PROVE  m.seq = seq[m.dest] /\ Informed(m.from, m.dest)
  <2>1. PICK k \in Nodes : m \in sent(k)
    BY <1>5
  <2>2. m \notin errors(k)
    BY <1>9
  <2>3. m \in advertisements_for(k, load[k]) /\ m.from = k
    BY <2>1, <2>2, <1>6
  <2>4. CASE m.dest = k
    BY <1>8, <2>3, <2>4 DEF advertisements_for, Informed
  <2>5. CASE m.dest # k
    <3>1. PICK d \in Nodes : route[k][d] # NoRoute /\ m.dest = d /\ m.seq = route[k][d].seq
      BY <2>3, <2>5 DEF advertisements_for
    <3>2. route[k][d].seq = seq[d]
      BY <3>1, <1>t DEF RouteIsBacked, Backed, Genuine, Current
    <3> QED BY <2>3, <3>1, <3>2 DEF Informed
  <2> QED BY <2>4, <2>5
<1>10. \A m, d : Informed(m, d)' <=> Informed(m, d)
  BY <1>1 DEF Informed
<1>11. Genuine'
  <2>1. \A k \in cand' : \E c \in cand : /\ k.seq = c.seq /\ k.dest = c.dest
                                        /\ k.at = c.at /\ k.via = c.via
    BY <1>2, <1>t DEF AgedCand, TypeOK, Candidate
  <2>2. Current'
    BY <1>1, <2>1, <1>t DEF Genuine, Current, NothingGone
  <2>3. \A k \in cand' : k.dest # k.at /\ Informed(k.via, k.dest)
    BY <2>1, <1>t DEF Genuine
  <2> QED BY <1>1, <1>9, <1>10, <2>2, <2>3 DEF Genuine
<1>12. ASSUME NEW n \in Nodes, NEW d \in Nodes, NEW k \in Neighbors(n, heard), Informed(k, d)
       PROVE  Heeded(n, k, d)'
  <2>1. k \in Nodes /\ n \in Neighbors(k, heard) /\ inbox[n] = {}
    BY <1>1, <1>t DEF Neighbors, Mutual, FramesTravelLinks
  <2>2. Extent(k, d)' = Extent(k, d) /\ \A o : Says(k, d, o)' <=> Says(k, d, o)
    BY <1>1 DEF Extent, Says
  <2>3. CASE Informed(n, d) \/ Extent(k, d) = MaxHops
    BY <1>10, <2>2, <2>3 DEF Heeded
  <2>4. CASE k \in ctl.todo
    <3>1. \E m \in advertisements_for(k, load[k]) : Says(k, d, m)
      <4>1. CASE k = d
        <5> DEFINE m == [kind |-> "RA", from |-> k, dest |-> k, seq |-> seq[k], hops |-> 0,
                         cost |-> 0, next |-> NoNode, penalty |-> penalty[k] + load[k]]
        <5>1. m \in advertisements_for(k, load[k])
          BY DEF advertisements_for
        <5>2. Says(k, d, m)
          BY <4>1 DEF Says, Extent
        <5> QED BY <5>1, <5>2
      <4>2. CASE k # d
        <5> DEFINE m == [kind |-> "RA", from |-> k, dest |-> d, seq |-> route[k][d].seq,
                         hops |-> route[k][d].hops, cost |-> route[k][d].cost,
                         next |-> route[k][d].next, penalty |-> penalty[k] + load[k]]
        <5>1. m \in advertisements_for(k, load[k])
          BY <1>12, <4>2 DEF advertisements_for, Informed
        <5>2. Says(k, d, m)
          BY <4>2 DEF Says, Extent
        <5> QED BY <5>1, <5>2
      <4> QED BY <4>1, <4>2
    <3>2. up[k]
      BY <1>t, <2>1 DEF OnlyWorking
    <3>3. advertisements_for(k, load[k]) \subseteq inbox'[n]
      BY <1>4, <2>1, <2>4, <3>2
    <3> QED BY <2>2, <3>1, <3>3 DEF Heeded
  <2> QED BY <1>1, <1>12, <1>t, <2>1, <2>3, <2>4 DEF AllHeeded, Heeded, Due
<1>13. AllHeeded'
  BY <1>3, <1>10, <1>12 DEF AllHeeded
<1> QED BY <1>1, <1>7, <1>11, <1>13 DEF Spreading

(* The end of a round passes the word on; the end of the run ends it only  *)
(* when there is nothing left to say.                                      *)
LEMMA ClosingSpreads ==
  ASSUME TypeOK, Spreading,
         EndRound \/ (Finish /\ ~(Working /\ ctl'.phase = "idle"))
  PROVE  Spreading'
<1>1. UNCHANGED <<seq, heard, cand, route, inbox, pendAdv>>
  BY DEF EndRound, Finish
<1>2. \A k : Due(k)' <=> Due(k)
  <2>1. CASE EndRound
    BY <2>1 DEF EndRound, Due, TypeOK
  <2>2. CASE Finish /\ ~(Working /\ ctl'.phase = "idle")
    BY <2>2 DEF Finish, Due, Working, Idle
  <2> QED BY <2>1, <2>2
<1>3. ctl'.phase = "idle" => ctl'.todo = {}
  <2>1. CASE EndRound
    <3>1. ctl'.phase = "rounds"
      BY <2>1 DEF EndRound, TypeOK
    <3> QED BY <3>1
  <2>2. CASE Finish
    BY <2>2 DEF Finish, Idle
  <2> QED BY <2>1, <2>2
<1>4. \A m, d : /\ Informed(m, d)' <=> Informed(m, d)
                /\ Extent(m, d)' = Extent(m, d)
                /\ \A o : Says(m, d, o)' <=> Says(m, d, o)
  BY <1>1 DEF Informed, Extent, Says
<1>5. Genuine'
  BY <1>1, <1>4 DEF Spreading, Genuine, Current
<1>6. Mutual'
  BY <1>1 DEF Spreading, Mutual, Neighbors
<1>7. AllHeeded'
  BY <1>1, <1>2, <1>4 DEF Spreading, AllHeeded, Heeded, Neighbors
<1> QED BY <1>3, <1>5, <1>6, <1>7 DEF Spreading

LEMMA NextSpreads ==
  Forgetful /\ (whole => Spreading) /\ [SteadyNext]_<<vars, history>>
    => Forgetful' /\ (whole' => Spreading')
<1> SUFFICES ASSUME Forgetful, whole => Spreading, [SteadyNext]_<<vars, history>>
             PROVE  Forgetful' /\ (whole' => Spreading')
  OBVIOUS
<1>1. [Next]_vars
  BY DEF SteadyNext, Renewal, Disruption, Next, Environment
<1>2. Forgetful' /\ Rooted' /\ Sound /\ TypeOK
  BY <1>1, NextForgetful DEF Forgetful, Rooted, Known, Sound
<1>3. CASE Renewal /\ whole' = ("RA" \notin Lossy)
  BY <1>2, <1>3, RenewalSpreads
<1>4. CASE whole' = FALSE
  BY <1>2, <1>4
<1>5. CASE Control /\ whole' = (whole /\ NothingGone /\ ~(Working /\ ctl'.phase = "idle"))
  <2> SUFFICES ASSUME whole, NothingGone, ~(Working /\ ctl'.phase = "idle"), Spreading
               PROVE  Spreading'
    BY <1>2, <1>5
  <2>1. CASE Round
    BY <1>2, <2>1, RoundSpreads DEF Round
  <2>2. CASE \E n \in Nodes : \E m \in inbox[n] : Deliver(n, m)
    BY <1>2, <2>2, DeliverySpreads
  <2>3. CASE EndRound \/ Finish
    BY <1>2, <2>3, ClosingSpreads
  <2> QED BY <1>5, <2>1, <2>2, <2>3 DEF Control
<1>6. CASE UNCHANGED <<vars, history>>
  <2> SUFFICES ASSUME Spreading PROVE Spreading'
    BY <1>2, <1>6 DEF history
  <2>1. UNCHANGED <<seq, heard, cand, route, inbox, pendAdv, ctl>>
    BY <1>6 DEF vars
  <2>2. \A m, d : /\ Informed(m, d)' <=> Informed(m, d)
                  /\ Extent(m, d)' = Extent(m, d)
                  /\ \A o : Says(m, d, o)' <=> Says(m, d, o)
    BY <2>1 DEF Informed, Extent, Says
  <2>3. Genuine'
    BY <2>1, <2>2 DEF Spreading, Genuine, Current
  <2>4. Mutual'
    BY <2>1 DEF Spreading, Mutual, Neighbors
  <2>5. AllHeeded'
    BY <2>1, <2>2 DEF Spreading, AllHeeded, Heeded, Due, Neighbors
  <2> QED BY <2>1, <2>3, <2>4, <2>5 DEF Spreading
<1> QED BY <1>3, <1>4, <1>5, <1>6 DEF SteadyNext

(* When the run of a discovery without lost advertisements is over because *)
(* there was nothing left to say, every node has a route to everything     *)
(* that a neighbour of its knows a way to, for every mesh and round limit, *)
(* in whatever order the frames arrived.                                   *)
THEOREM DiscoveriesSpread == SteadySpec => []DiscoverySpreads
<1>1. SteadyInit => Forgetful /\ (whole => Spreading)
  BY InitForgetful DEF SteadyInit
<1>2. Forgetful /\ (whole => Spreading) => DiscoverySpreads
  <2> SUFFICES ASSUME Forgetful, Spreading, ctl.phase = "idle",
                      NEW n \in Nodes, NEW d \in Nodes, NEW k \in Neighbors(n, heard),
                      k = d \/ route[k][d] # NoRoute, n # d
               PROVE  route[n][d] # NoRoute \/ (k # d /\ route[k][d].hops = MaxHops)
    BY DEF DiscoverySpreads
  <2>1. inbox[n] = {} /\ ctl.todo = {}
    BY DEF Forgetful, Rooted, Known, Sound, FramesTravelLinks, Spreading
  <2>2. Heeded(n, k, d)
    BY DEF Spreading, AllHeeded, Informed
  <2>3. Informed(n, d) \/ Extent(k, d) = MaxHops
    BY <2>1, <2>2 DEF Heeded, Due
  <2>4. 0 # MaxHops
    BY RouteAssumption
  <2> QED BY <2>3, <2>4 DEF Informed, Extent
<1> QED BY <1>1, <1>2, NextSpreads, PTL DEF SteadySpec

-----------------------------------------------------------------------------
(* Such a discovery ends with tables that agree (RouteLoops).  What is on  *)
(* the air either says what its sender's table says now, or the sender is  *)
(* due to speak again; and what a node holds over a neighbour agrees with  *)
(* that neighbour's table, or the neighbour is due, or its word is on the  *)
(* way.                                                                    *)

(* m says all that k's table says of d now.                                *)
Tells(k, d, m) ==
  /\ Says(k, d, m)
  /\ m.cost = Told(k, d) /\ m.seq = seq[d]
  /\ \E load \in Loads : m.penalty = penalty[k] + load[k]

(* What k does not tell n of d, or tells it in vain.                       *)
Withheld(n, k, d) ==
  \/ n = d
  \/ k # d /\ (route[k][d].next \in {n, NoNode} \/ route[k][d].hops = MaxHops)

Followed(n, k, d) ==
  \/ Withheld(n, k, d) \/ Due(k) \/ UpToDate(n, k, d)
  \/ \E m \in inbox[n] : Tells(k, d, m)

AllFollowed == \A n, d \in Nodes : \A k \in Neighbors(n, heard) : Followed(n, k, d)

WordsHold ==
  \A n \in Nodes : \A m \in inbox[n] :
    m.kind = "RA" => Due(m.from) \/ Tells(m.from, m.dest, m)

Settling == Spreading /\ AllFollowed /\ WordsHold

LEMMA RenewalAgrees ==
  ASSUME Sound, Renewal
  PROVE  AllFollowed' /\ WordsHold'
<1>t. TypeOK /\ FramesTravelLinks
  BY DEF Sound
<1>1. /\ ctl.phase = "idle" /\ UNCHANGED inbox
      /\ ctl'.phase = "rounds" /\ ctl'.todo = Nodes
  BY DEF Renewal, discover_neighbors, recover_communication, EnterControl
<1>2. \A k \in Nodes : Due(k)'
  BY <1>1 DEF Due
<1>3. \A n \in Nodes : inbox'[n] = {}
  BY <1>1, <1>t DEF FramesTravelLinks
<1> QED BY <1>2, <1>3 DEF AllFollowed, Followed, WordsHold, Neighbors

(* An entry that stays, of a node without anything new to say, is told of  *)
(* in the same words and still makes the same candidates up to date.       *)
LEMMA WordsStay ==
  ASSUME UNCHANGED <<seq, penalty>>, NEW k \in Nodes, NEW d \in Nodes,
         k = d \/ route'[k][d] = route[k][d]
  PROVE  /\ \A m : Tells(k, d, m) => Tells(k, d, m)'
         /\ \A n : Withheld(n, k, d) => Withheld(n, k, d)'
         /\ \A n : (\A c \in cand : c.at = n /\ c.dest = d /\ c.via = k =>
                      \E e \in cand' : /\ e.at = n /\ e.dest = d /\ e.via = k
                                       /\ e.hops = c.hops /\ e.cost = c.cost /\ e.seq = c.seq)
                     /\ UpToDate(n, k, d) => UpToDate(n, k, d)'
<1>1. Extent(k, d)' = Extent(k, d) /\ Told(k, d)' = Told(k, d)
  BY DEF Extent, Told
<1>2. \A m : Tells(k, d, m) => Tells(k, d, m)'
  BY <1>1 DEF Tells, Says
<1>3. \A n : Withheld(n, k, d) => Withheld(n, k, d)'
  BY DEF Withheld
<1>4. ASSUME NEW n, UpToDate(n, k, d),
             \A c \in cand : c.at = n /\ c.dest = d /\ c.via = k =>
               \E e \in cand' : /\ e.at = n /\ e.dest = d /\ e.via = k
                                /\ e.hops = c.hops /\ e.cost = c.cost /\ e.seq = c.seq
      PROVE  UpToDate(n, k, d)'
  BY <1>1, <1>4 DEF UpToDate
<1> QED BY <1>2, <1>3, <1>4

(* A frame that says what its sender's table says now brings the receiver  *)
(* up to date, unless it was withheld from it.                             *)
LEMMA DeliveryAgrees ==
  ASSUME Forgetful, Spreading, "RA" \notin Lossy,
         NEW n \in Nodes, NEW m \in inbox[n], Deliver(n, m),
         NEW k \in Nodes, NEW d \in Nodes, Tells(k, d, m),
         k = d \/ route'[k][d] = route[k][d]
  PROVE  Withheld(n, k, d)' \/ UpToDate(n, k, d)'
<1>t. /\ Rooted /\ OnlyWorking /\ TypeOK /\ NoFutureSequence /\ Genuine
  BY DEF Forgetful, Rooted, Known, Sound, Spreading
<1>m. /\ m.kind = "RA" /\ m.from = k /\ m.dest = d /\ m.hops = Extent(k, d)
      /\ m.next = IF k = d THEN NoNode ELSE route[k][d].next
      /\ m.cost = Told(k, d) /\ m.seq = seq[d]
  BY DEF Tells, Says
<1>1. m \in Advertisement
  BY <1>m, <1>t DEF TypeOK, RouteError
<1>2. CASE AcceptAdvertisement(n, m)
  <2>1. PICK hop \in LinkCosts[<<n, m.from>>][m.dest] : Accepts(n, m, hop)
    BY <1>2, AcceptanceMeans
  <2> DEFINE c == Learned(n, m, hop)
  <2>2. /\ c \in cand' /\ c.at = n /\ c.dest = d /\ c.via = k
        /\ c.hops = Extent(k, d) + 1 /\ c.seq = seq[d]
        /\ c.cost = hop + m.penalty + Told(k, d)
    BY <2>1, <1>m DEF Accepts, Learned, advertised_route_cost
  <2>3. PICK load \in Loads : m.penalty = penalty[k] + load[k]
    BY DEF Tells
  <2>4. c.cost = Told(k, d) + hop + penalty[k] + load[k]
    <3>1. hop \in Nat
      BY <1>1, <1>m, <1>t, Numbers DEF FramesTravelLinks, Rooted, Known, Sound, Advertisement
    <3>2. penalty[k] \in Nat /\ load[k] \in Nat
      BY <1>t, RouteAssumption DEF TypeOK
    <3>3. Told(k, d) \in Nat
      BY <1>1, <1>m DEF Advertisement
    <3>4. c.cost = hop + (penalty[k] + load[k]) + Told(k, d)
      BY <2>2, <2>3
    <3> HIDE DEF c
    <3> QED BY <3>1, <3>2, <3>3, <3>4
  <2>5. UNCHANGED <<seq, penalty>>
    BY <2>1 DEF Accepts
  <2>6. Extent(k, d)' = Extent(k, d) /\ Told(k, d)' = Told(k, d)
    BY DEF Extent, Told
  <2> HIDE DEF c
  <2> QED BY <2>1, <2>2, <2>4, <2>5, <2>6, <1>m DEF UpToDate
<1>3. CASE RejectAdvertisement(n, m)
  <2>1. m.dest = n \/ m.next = n \/ ~(m.hops + 1 <= MaxHops)
    <3>1. up[m.from]
      BY <1>t DEF OnlyWorking
    <3>2. \A s \in KnownSeqs(n, m.dest) : m.seq >= s
      <4>1. \A s \in KnownSeqs(n, m.dest) : s <= seq[m.dest] /\ s \in Nat
        BY <1>1, <1>t DEF KnownSeqs, NoFutureSequence, TypeOK, Candidate, Route, NoRoute,
                          Advertisement
      <4>2. seq[m.dest] \in Nat
        BY <1>1, <1>t DEF TypeOK, Advertisement
      <4> QED BY <1>m, <4>1, <4>2
    <3> QED BY <1>3, <3>1, <3>2 DEF RejectAdvertisement, Acceptable
  <2>2. ASSUME m.next = n PROVE k # d /\ route[k][d].next = n
    BY <1>m, <2>2, Numbers DEF NoNode
  <2>3. ASSUME ~(m.hops + 1 <= MaxHops) PROVE k # d /\ route[k][d].hops = MaxHops
    <3>1. m.hops = MaxHops
      BY <1>1, <2>3, Numbers DEF Advertisement
    <3> QED BY <3>1, <1>m, RouteAssumption DEF Extent
  <2> QED BY <1>m, <2>1, <2>2, <2>3 DEF Withheld
<1> QED BY <1>2, <1>3, <1>m DEF Deliver, Lose, AcceptError, RejectError

(* Whatever a delivery changes, its receiver has something to say then,    *)
(* and the frame that is gone has done its work.                           *)
LEMMA DeliveryKeepsAgreeing ==
  ASSUME Forgetful, Settling, NothingGone,
         NEW n \in Nodes, NEW m \in inbox[n], Deliver(n, m),
         \A k \in Nodes : Neighbors(k, heard') = Neighbors(k, heard)
  PROVE  AllFollowed' /\ WordsHold'
<1>t. /\ TypeOK /\ TypeOK' /\ Spreading /\ "RA" \notin Lossy /\ Mutual
      /\ AllFollowed /\ WordsHold
  <2>1. [Next]_vars
    BY DEF Next, Control
  <2>2. Forgetful'
    BY <2>1, NextForgetful
  <2> QED BY <2>2 DEF Settling, Spreading, Forgetful, Rooted, Known, Sound
<1>1. /\ ctl.phase = "drain" /\ UNCHANGED <<seq, penalty, ctl>> /\ pendAdv \subseteq pendAdv'
      /\ inbox' = [inbox EXCEPT ![n] = @ \ {m}]
  BY DEF Deliver, Lose, AcceptAdvertisement, RejectAdvertisement, AcceptError, RejectError,
         Arrives, Deliverable
<1>2. \A k \in Nodes : /\ inbox'[k] \subseteq inbox[k]
                       /\ \A o \in inbox[k] : o \in inbox'[k] \/ (k = n /\ o = m)
  BY <1>1, <1>t DEF TypeOK
<1>3. \A k \in Nodes : Due(k) => Due(k)'
  BY <1>1 DEF Due
<1>4. \A k, d \in Nodes : \/ route'[k][d] = route[k][d]
                          \/ route'[k][d] = NoRoute
                          \/ Due(k)'
  <2>1. CASE Lose(n, m) \/ RejectAdvertisement(n, m) \/ RejectError(n, m)
    BY <2>1 DEF Lose, RejectAdvertisement, RejectError
  <2>2. CASE AcceptAdvertisement(n, m)
    BY <1>1, <2>2, <1>t DEF AcceptAdvertisement, TypeOK, Due
  <2>3. CASE AcceptError(n, m)
    BY <1>1, <2>3, <1>t DEF AcceptError, TypeOK, Due
  <2> QED BY <2>1, <2>2, <2>3 DEF Deliver
<1>5. \A c \in cand : c \in cand' \/ (c.at = n /\ c.dest = m.dest /\ c.via = m.from
                                      /\ AcceptAdvertisement(n, m))
  <2>1. CASE AcceptError(n, m)
    <3>1. cand' = {c \in cand : ~(c.at = n /\ c.dest = m.dest /\ c.via = m.from)}
      BY <2>1 DEF AcceptError
    <3>2. \A c \in cand : ~(c.at = n /\ c.dest = m.dest /\ c.via = m.from)
      BY <3>1 DEF NothingGone
    <3> QED BY <3>1, <3>2
  <2>2. CASE ~AcceptError(n, m)
    BY <2>2 DEF Deliver, Lose, AcceptAdvertisement, RejectAdvertisement, RejectError
  <2> QED BY <2>1, <2>2
<1>6. ASSUME NEW j \in Nodes, NEW d \in Nodes, NEW k \in Neighbors(j, heard)
      PROVE  Followed(j, k, d)'
  <2>1. k \in Nodes
    BY DEF Neighbors
  <2>2. CASE Due(k)'
    BY <2>2 DEF Followed
  <2>3. CASE k # d /\ route'[k][d] = NoRoute
    BY <2>3 DEF Followed, Withheld, NoRoute
  <2>4. CASE (k = d \/ route'[k][d] = route[k][d]) /\ ~(Due(k)')
    <3>1. ~Due(k)
      BY <1>3, <2>1, <2>4
    <3>2. CASE Withheld(j, k, d)
      BY <1>1, <2>1, <2>4, <3>2, WordsStay DEF Followed
    <3>3. ASSUME NEW o \in inbox[j], Tells(k, d, o) PROVE Followed(j, k, d)'
      <4>1. CASE o \in inbox'[j]
        BY <1>1, <2>1, <2>4, <3>3, <4>1, WordsStay DEF Followed
      <4>2. CASE j = n /\ o = m
        <5>1. Withheld(n, k, d)' \/ UpToDate(n, k, d)'
          BY <2>1, <2>4, <3>3, <4>2, <1>t, DeliveryAgrees
        <5> QED BY <4>2, <5>1 DEF Followed
      <4> QED BY <1>2, <4>1, <4>2
    <3>4. CASE UpToDate(j, k, d)
      <4>1. CASE j = n /\ d = m.dest /\ k = m.from /\ AcceptAdvertisement(n, m)
        <5>1. Tells(k, d, m)
          BY <1>t, <3>1, <4>1 DEF WordsHold, AcceptAdvertisement
        <5> QED BY <3>3, <4>1, <5>1
      <4>2. CASE ~(j = n /\ d = m.dest /\ k = m.from /\ AcceptAdvertisement(n, m))
        <5>1. \A c \in cand : c.at = j /\ c.dest = d /\ c.via = k => c \in cand'
          BY <1>5, <4>2
        <5>2. UpToDate(j, k, d)'
          BY <1>1, <2>1, <2>4, <3>4, <5>1, WordsStay
        <5> QED BY <5>2 DEF Followed
      <4> QED BY <4>1, <4>2
    <3> QED BY <1>t, <3>1, <3>2, <3>3, <3>4 DEF AllFollowed, Followed
  <2> QED BY <1>4, <2>1, <2>2, <2>3, <2>4
<1>7. ASSUME NEW j \in Nodes, NEW o \in inbox'[j], o.kind = "RA"
      PROVE  (Due(o.from) \/ Tells(o.from, o.dest, o))'
  <2>1. o \in inbox[j] /\ o.from \in Nodes /\ o.dest \in Nodes
    BY <1>2, <1>t, <1>7 DEF TypeOK, Advertisement, RouteError
  <2>2. CASE Due(o.from)'
    BY <2>2
  <2>3. CASE ~(Due(o.from)')
    <3>1. Tells(o.from, o.dest, o)
      BY <1>3, <1>t, <1>7, <2>1, <2>3 DEF WordsHold
    <3>2. Informed(o.from, o.dest)
      BY <1>t, <1>7, <2>1 DEF Spreading, Genuine
    <3>3. o.from = o.dest \/ route'[o.from][o.dest] = route[o.from][o.dest]
      <4>1. CASE route'[o.from][o.dest] = NoRoute /\ o.from # o.dest
        <5>1. Rooted' /\ Rooted
          <6>1. [Next]_vars
            BY DEF Next, Control
          <6> QED BY <6>1, NextRooted DEF Forgetful
        <5>2. Informed(o.from, o.dest)'
          BY <2>1, <3>2, <5>1, InformedStays
        <5> QED BY <4>1, <5>2 DEF Informed
      <4> QED BY <1>4, <2>1, <2>3, <4>1
    <3> QED BY <1>1, <2>1, <3>1, <3>3, WordsStay
  <2> QED BY <2>2, <2>3
<1> QED BY <1>6, <1>7 DEF AllFollowed, WordsHold

(* A round puts on the air what the tables say, and everyone who was due   *)
(* has spoken.                                                             *)
LEMMA RoundAgrees ==
  ASSUME Forgetful, Settling, NEW load \in Loads, Broadcast(load),
         \A k \in Nodes : Neighbors(k, heard') = Neighbors(k, heard)
  PROVE  AllFollowed' /\ WordsHold'
<1> DEFINE errors(k) == {[kind |-> "RERR", from |-> e.from, dest |-> e.dest] :
                           e \in {x \in ctl.errs : x.from = k}}
           table(k) == IF k \in ctl.todo THEN advertisements_for(k, load[k]) ELSE {}
           sent(k) == IF up[k] THEN errors(k) \union table(k) ELSE {}
<1>t. /\ OnlyWorking /\ TypeOK /\ FramesTravelLinks /\ RouteIsBacked
      /\ Genuine /\ Mutual /\ AllFollowed
  BY DEF Settling, Spreading, Forgetful, Rooted, Known, Sound
<1>1. /\ ctl.phase = "rounds" /\ ctl'.phase = "drain"
      /\ UNCHANGED <<up, seq, penalty, route>>
      /\ \E t \in AirTime : cand' = AgedCand(t)
  BY <1>t DEF Broadcast, TypeOK
<1>2. ASSUME NEW n \in Nodes PROVE route[n][n] = NoRoute
  <2>1. Backed(n, n, route[n][n], cand, heard) /\ \A c \in cand : c.dest # c.at
    BY <1>t DEF RouteIsBacked, Genuine
  <2> QED BY <2>1 DEF Backed
\* the frame about d among those of k's table
<1>3. ASSUME NEW k \in Nodes, NEW m \in advertisements_for(k, load[k])
      PROVE  m.from = k /\ Tells(k, m.dest, m)
  <2>1. m.from = k /\ m.kind = "RA" /\ m.penalty = penalty[k] + load[k]
    BY <1>3 DEF advertisements_for
  <2>2. CASE m.dest = k
    BY <1>2, <1>3, <2>1, <2>2 DEF advertisements_for, Tells, Says, Extent, Told
  <2>3. CASE m.dest # k
    <3>1. PICK d \in Nodes : /\ route[k][d] # NoRoute /\ m.dest = d /\ m.next = route[k][d].next
                             /\ m.hops = route[k][d].hops /\ m.cost = route[k][d].cost
                             /\ m.seq = route[k][d].seq
      BY <1>3, <2>3 DEF advertisements_for
    <3>2. route[k][d].seq = seq[d]
      BY <3>1, <1>t DEF RouteIsBacked, Backed, Genuine, Current
    <3> QED BY <2>1, <2>3, <3>1, <3>2 DEF Tells, Says, Extent, Told
  <2> QED BY <2>2, <2>3
<1>4. \A k, d \in Nodes : \A m : Tells(k, d, m) => Tells(k, d, m)'
  BY <1>1, WordsStay
<1>5. ASSUME NEW n \in Nodes, NEW m \in inbox'[n], m.kind = "RA"
      PROVE  Tells(m.from, m.dest, m)'
  <2>1. PICK k \in Nodes : m \in sent(k)
    BY DEF Broadcast
  <2>2. m \notin errors(k)
    BY <1>5
  <2>3. m \in advertisements_for(k, load[k])
    BY <2>1, <2>2
  <2>4. m.dest \in Nodes
    BY <2>3 DEF advertisements_for
  <2> QED BY <1>3, <1>4, <2>3, <2>4
<1>6. ASSUME NEW n \in Nodes, NEW d \in Nodes, NEW k \in Neighbors(n, heard)
      PROVE  Followed(n, k, d)'
  <2>1. k \in Nodes /\ n \in Neighbors(k, heard) /\ inbox[n] = {}
    BY <1>1, <1>t DEF Neighbors, Mutual, FramesTravelLinks
  <2>2. CASE Withheld(n, k, d)
    BY <1>1, <2>1, <2>2, WordsStay DEF Followed
  <2>3. CASE UpToDate(n, k, d)
    <3>1. PICK t \in AirTime : cand' = AgedCand(t)
      BY <1>1
    <3>2. \A c \in cand : \E e \in cand' :
            /\ e.at = c.at /\ e.dest = c.dest /\ e.via = c.via
            /\ e.hops = c.hops /\ e.cost = c.cost /\ e.seq = c.seq
      <4> SUFFICES ASSUME NEW c \in cand
                   PROVE  \E e \in cand' : /\ e.at = c.at /\ e.dest = c.dest /\ e.via = c.via
                                           /\ e.hops = c.hops /\ e.cost = c.cost
                                           /\ e.seq = c.seq
        OBVIOUS
      <4> DEFINE e == [c EXCEPT !.age = Saturated(c.age + t, RouteLifetime)]
      <4>1. e \in cand'
        BY <3>1 DEF AgedCand
      <4>2. /\ e.at = c.at /\ e.dest = c.dest /\ e.via = c.via
            /\ e.hops = c.hops /\ e.cost = c.cost /\ e.seq = c.seq
        BY <1>t DEF TypeOK, Candidate
      <4> QED BY <4>1, <4>2
    <3>3. \A c \in cand : c.at = n /\ c.dest = d /\ c.via = k =>
            \E e \in cand' : /\ e.at = n /\ e.dest = d /\ e.via = k
                             /\ e.hops = c.hops /\ e.cost = c.cost /\ e.seq = c.seq
      BY <3>2
    <3>4. UpToDate(n, k, d)'
      BY <1>1, <2>1, <2>3, <3>3, WordsStay
    <3> QED BY <3>4 DEF Followed
  <2>4. CASE k \in ctl.todo /\ ~Withheld(n, k, d)
    <3>1. up[k] /\ up[n] /\ <<k, n>> \in Links
      BY <1>t, <2>1 DEF OnlyWorking, Mutual
    <3>2. sent(k) \subseteq inbox'[n]
      BY <2>1, <3>1 DEF Broadcast
    <3>3. \E m \in advertisements_for(k, load[k]) : m.dest = d
      <4>1. CASE k = d
        <5> DEFINE m == [kind |-> "RA", from |-> k, dest |-> k, seq |-> seq[k], hops |-> 0,
                         cost |-> 0, next |-> NoNode, penalty |-> penalty[k] + load[k]]
        <5>1. m \in advertisements_for(k, load[k]) /\ m.dest = d
          BY <4>1 DEF advertisements_for
        <5> QED BY <5>1
      <4>2. CASE k # d
        <5> DEFINE m == [kind |-> "RA", from |-> k, dest |-> d, seq |-> route[k][d].seq,
                         hops |-> route[k][d].hops, cost |-> route[k][d].cost,
                         next |-> route[k][d].next, penalty |-> penalty[k] + load[k]]
        <5>1. route[k][d] # NoRoute
          BY <2>4, <4>2 DEF Withheld, NoRoute
        <5>2. m \in advertisements_for(k, load[k]) /\ m.dest = d
          BY <5>1 DEF advertisements_for
        <5> QED BY <5>2
      <4> QED BY <4>1, <4>2
    <3>4. advertisements_for(k, load[k]) \subseteq inbox'[n]
      BY <2>4, <3>1, <3>2
    <3>5. \E m \in inbox'[n] : Tells(k, d, m)'
      BY <1>3, <1>4, <2>1, <3>3, <3>4
    <3> QED BY <3>5 DEF Followed
  <2> QED BY <1>1, <1>t, <2>1, <2>2, <2>3, <2>4 DEF AllFollowed, Followed, Due
<1> HIDE DEF sent
<1> QED BY <1>5, <1>6 DEF AllFollowed, WordsHold

LEMMA ClosingAgrees ==
  ASSUME Sound, Settling,
         EndRound \/ (Finish /\ ~(Working /\ ctl'.phase = "idle"))
  PROVE  AllFollowed' /\ WordsHold'
<1>t. TypeOK
  BY DEF Sound
<1>1. UNCHANGED <<seq, penalty, heard, cand, route, inbox, pendAdv>>
  BY DEF EndRound, Finish
<1>2. \A k : Due(k)' <=> Due(k)
  <2>1. CASE EndRound
    BY <2>1, <1>t DEF EndRound, Due, TypeOK
  <2>2. CASE Finish /\ ~(Working /\ ctl'.phase = "idle")
    BY <2>2 DEF Finish, Due, Working, Idle
  <2> QED BY <2>1, <2>2
<1>3. \A k, d, m : Tells(k, d, m)' <=> Tells(k, d, m)
  BY <1>1 DEF Tells, Says, Extent, Told
<1>4. \A n, k, d : (UpToDate(n, k, d)' <=> UpToDate(n, k, d))
                   /\ (Withheld(n, k, d)' <=> Withheld(n, k, d))
  BY <1>1 DEF UpToDate, Withheld, Extent, Told
<1> QED BY <1>1, <1>2, <1>3, <1>4
        DEF Settling, AllFollowed, WordsHold, Followed, Neighbors

LEMMA NextSettles ==
  Forgetful /\ (whole => Settling) /\ [SteadyNext]_<<vars, history>>
    => Forgetful' /\ (whole' => Settling')
<1> SUFFICES ASSUME Forgetful, whole => Settling, [SteadyNext]_<<vars, history>>
             PROVE  Forgetful' /\ (whole' => Settling')
  OBVIOUS
<1>1. Forgetful' /\ (whole' => Spreading')
  BY NextSpreads DEF Settling
<1>2. Rooted' /\ Sound /\ TypeOK
  BY <1>1 DEF Forgetful, Rooted, Known, Sound
<1>3. CASE Renewal
  BY <1>1, <1>2, <1>3, RenewalAgrees DEF Settling
<1>4. CASE whole' = FALSE
  BY <1>1, <1>4
<1>5. CASE Control /\ whole' = (whole /\ NothingGone /\ ~(Working /\ ctl'.phase = "idle"))
  <2> SUFFICES ASSUME whole, NothingGone, ~(Working /\ ctl'.phase = "idle"), Settling
               PROVE  AllFollowed' /\ WordsHold'
    BY <1>1, <1>5 DEF Settling
  <2>1. ASSUME NEW load \in Loads, Broadcast(load) PROVE AllFollowed' /\ WordsHold'
    BY <1>2, <2>1, RoundKeepsNeighbors, RoundAgrees
  <2>2. ASSUME NEW n \in Nodes, NEW m \in inbox[n], Deliver(n, m)
        PROVE  AllFollowed' /\ WordsHold'
    <3>1. \A k \in Nodes : Neighbors(k, heard') = Neighbors(k, heard)
      BY <1>2, <2>2, DeliveryKeepsNeighbors DEF Settling, Spreading
    <3> QED BY <2>2, <3>1, DeliveryKeepsAgreeing
  <2>3. CASE EndRound \/ Finish
    BY <1>2, <2>3, ClosingAgrees
  <2> QED BY <1>5, <2>1, <2>2, <2>3 DEF Control, Round
<1>6. CASE UNCHANGED <<vars, history>>
  <2>1. Settling => AllFollowed' /\ WordsHold'
    BY <1>6 DEF vars, Settling, AllFollowed, WordsHold, Followed, Withheld, UpToDate, Tells,
                Says, Extent, Told, Due, Neighbors
  <2> QED BY <1>1, <1>6, <2>1 DEF history, Settling
<1> QED BY <1>3, <1>4, <1>5, <1>6 DEF SteadyNext

(* When such a run has ended by itself, what every node holds over each    *)
(* neighbour is what that neighbour's table says, for every mesh, round    *)
(* limit and fading of the links: nothing learned on the way was left      *)
(* unsaid.                                                                 *)
THEOREM DiscoveriesSettle == SteadySpec => []DiscoverySettles
<1>1. SteadyInit => Forgetful /\ (whole => Settling)
  BY InitForgetful DEF SteadyInit
<1>2. Forgetful /\ (whole => Settling) => DiscoverySettles
  <2> SUFFICES ASSUME Forgetful, Settling, ctl.phase = "idle",
                      NEW n \in Nodes, NEW d \in Nodes, NEW k \in Neighbors(n, heard)
               PROVE  Withheld(n, k, d) \/ UpToDate(n, k, d)
    BY DEF DiscoverySettles, Withheld
  <2>1. inbox[n] = {} /\ ctl.todo = {}
    BY DEF Forgetful, Rooted, Known, Sound, FramesTravelLinks, Settling, Spreading
  <2>2. Followed(n, k, d)
    BY DEF Settling, AllFollowed
  <2> QED BY <2>1, <2>2 DEF Followed, Due
<1> QED BY <1>1, <1>2, NextSettles, PTL DEF SteadySpec
==============================================================================
