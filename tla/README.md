# SEIAN-AMRP in TLA+

A formal model of the SEIAN mesh simulator (`seian_sim`) and of its companion
power plane (`research_power_plane`): TLA+ modules translated from the Python
source, TLC runs on small instances, and TLAPS proofs for every instance.
`PROJECT.json` ties each definition to the lines it models, lists the runs, the
hazards they are aimed at, and for every property a *mutant*: a plausible bug
that the run must find.

## 1. The system

The simulator is a single-threaded, discrete-event Python program. What is
concurrent is what it simulates: nodes that each know only what reached them
by radio, frames that are lost or overtake one another, radios and power stages
that fail between and during exchanges, an operator who acts in between. The
power plane replays a controller's commands on a switchable feeder and compiles
the result into breaker schedules for an external simulator, PSCAD.

| component | state | operations | correct if |
|---|---|---|---|
| node queue (`node.py`) | heap of packets, arrival counter, load | enqueue, dequeue | urgent first, FIFO within a priority, overflow takes from the lowest, load is the truth |
| routing engine (`decentralized_routing.py`) | neighbours, candidates, routes of each node | learn, select, expire, invalidate | routes rest on live candidates of current neighbours; a route changes only for a reason |
| route control (`simulator.py`) | pending advertisers and errors, round, last advertisement time | discover, fail, recover, recalculate, step with expiry, run of rounds | a run that ends by itself has told everything, no loops while costs stand, dead destinations vanish, tables recover |
| topology edits and report (`network_builder.py`, `topology.py`) | nodes present, packet numbers, duplicate caches | place, delete, report components and traced paths | an edit heals, the report of a discovered mesh is complete |
| event radio (`event_radio.py`) | event heap, frames on the air, next transmission times | schedule, step (end, complete, start, interference) | one transmission per radio, half duplex, contenders do not silence one another, every frame resolved |
| forwarding (`simulator.py`, `packets.py`) | queues, duplicate caches, sequence numbers, cached telemetry | inject a fault, send telemetry, pass over the queues, receive, flush | alerts handled once and everywhere, acknowledged; no circling; no duplicated rows |
| manual session (`manual_simulation.py`) | pending transmissions, sightings | create, forward one | a flood reaches its radius, the trace ends |
| power plane (`power_plane.py`) | open and closed lines, plans | apply a command switch by switch | radial feeder, isolation, accepted means done |
| control pipeline (`pipeline.py`, `faults.py`, `controller_adapter.py`, `timeline.py`, `pscad_adapter.py`) | line schedules, duration, breaker and fault parameters | derive commands, check faults, compile, bind, preview | breakers and fault elements do what plane and request say at every instant, whatever an earlier run left |
| PSCAD execution (`pscad_mcp_client.py`, `pscad_run_lock.py`, `pscad_mcp_server.py`, `pscad_gui.py`) | run lock, server, editor, step of each client, output file | lock, start server, open editor, write, build, run, poll, read, release | one owner, a result is of one manifest and whole when awaited, every execution returns |
| dashboard and command line (`dashboard.py`, `cli.py`) | session: inputs, last input key, result, error | pass over the page, edit, buttons, command line run | what is shown belongs to what is entered |
| grid, electrical faults, LoRa channel, airtime | electrical values, random draws | step, observe | numeric; enters as penalties and as lost or delayed frames |
| wire codec, oracle routing, scenarios, metrics, mesh pages, output readers, scripts | - | - | pure functions, set-up or presentation; not modelled |

How they interact. A frame accepted by the radio updates the receiver's
neighbour table and enters its queue; passes take packets out, at most eight per
node, and hand them to the routing engine, to the alert handler or to the next
hop. The load of a queue enters the cost of routes over its node, and so does the quality each
reception measures of its link, fading included. Faults,
recoveries, electrical changes and time steps start a *control run*: rounds of
broadcasts, each followed by draining all queues, until nobody has anything
left to say or a limit is reached. In batch radio mode a frame is delivered
inside the call that sends it; in event mode it is scheduled on `EventRadio`
and lands later. The manual session uses tables and neighbours but no queues.
In the power plane the pipeline is sequential: the commands of the request and of
the mesh controller's fault rows in chronological order, plans, timeline, breaker
and fault parameters. The manifest is then executed by a client that shares one
PSCAD, one editor and one output file with every other client on the machine, and
that is run again and again by a page which restarts at every interaction.

What is hard: stale tables after failures; equal sequence numbers seen from two
sides; costs that fade; triggered updates that trigger more; caches, queues and round limits at
their bounds; frames overtaking one another; a name that is used again;
half-done commands; one line switched several times; starts, ends and results in
one instant; parameters an earlier run left; a run that is acknowledged and begins later; a call that fails
while the simulation goes on; two clients, one PSCAD; a page interrupted during its run.
`PROJECT.json` lists these hazards with their lines.

## 2. Modules

| module | models | composes or extends |
|---|---|---|
| `NodeQueue` | one node's queue, its heap read as lanes | INSTANCE `PriorityLanes` |
| `PriorityLanes` | what the queue promises: one FIFO lane per priority | abstract |
| `RouteControl` | routing engine of every node and the control runs | |
| `RouteFreshness` | `RouteControl` with a history of accepted sequence numbers | `RouteControl` |
| `RouteLoops` | `RouteControl` with a memory of what happened since the last discovery | `RouteControl` |
| `MCRouteControl`, `MCRouteLoops` | small topologies for the route runs | `RouteControl`, `RouteLoops` |
| `MeshEdits` | nodes deleted and placed again, packet numbers, duplicate caches | `RouteControl` |
| `Topology` | the topology report: graph, components, traced and invalid routes | operators on tables |
| `MCMeshEdits` | convergence against the report, recovery | `MeshEdits`, `MCRouteControl`, `Topology` |
| `EventRadio`, `MCEventRadio` | the event radio | |
| `Packets` | packets, queues as lanes, duplicate cache | |
| `Forwarding`, `MCForwarding` | flooding, unicast, acknowledgements, telemetry | `Packets` |
| `ManualSession`, `MCManualSession` | the packet traced by hand | `Packets` |
| `PowerPlane` | commands and switches | |
| `SwitchingTimeline` | plans to one schedule per line, duration | `PowerPlane` |
| `ControlPipeline` | a whole run: faults, commands, timeline, binding, preview | `SwitchingTimeline` |
| `ControllerAdapter` | fault rows of the mesh to commands | `PowerPlane` |
| `MCControlPipeline` | a four-bus feeder, 16 commands, 15 requests | `ControlPipeline`, `ControllerAdapter` |
| `PscadServer` | PSCAD, its editor and the server in front of it | |
| `PscadClient` | executions of manifests, the run lock | `PscadServer` |
| `Dashboard`, `MCPscad` | the page and command lines that share one PSCAD | `PscadClient` |
| `RouteControl_proofs` | theorems | `RouteLoops` |
| `NodeQueue_proofs`, `EventRadio_proofs`, `Forwarding_proofs`, `ManualSession_proofs`, `ControlPipeline_proofs` (with those of `PowerPlane`), `Dashboard_proofs` | theorems | their component |
| `MeshEdits_proofs` | theorems | `MeshEdits`, `RouteControl_proofs` |

The heap of `node.py` is modelled once, in `NodeQueue`, and shown to implement
`PriorityLanes`; `Packets` uses the lanes, so that a queue of `Forwarding` is the
abstract one that the real one implements.

### How state and actions correspond to the code

Names are those of the code wherever TLA+ allows; `map` has the lines. An action
is one operation or handler, up to the next point at which another one could
see its effect. Definitions named `X_Something` are the mutants of `X`; no
specification uses them.

**NodeQueue.** `enqueue_packet` has three outcomes: room, eviction, refusal.
The heap is a set ordered by `Before` (priority, time, counter), which is all a
heap's caller can observe; `Lane` reads the items of one priority off as their
arrival numbers in rising order, the mapping to `PriorityLanes`. `load_percent` is kept as the length it was computed
from. `Tick` lets time pass; packets may carry equal times.

**RouteControl.** `cand` holds the candidates of all nodes, `route` the tables.
`ctl` says where the control procedure is: idle, expiring, in a round, draining.
Absolute times are ages that saturate once they no longer matter; the lifetime
an advertisement carries is always the full one and is therefore no field.
What a hop costs is a choice among `LinkCosts` of the link and the destination (a hop
towards a gateway is cheaper), made anew for each accepted advertisement, plus the penalty the
sender advertises: every control frame that is received overwrites the neighbour's
`link_quality` with a value drawn with shadow fading (`_add_neighbor`, `lora_channel.py:78`),
and `advertised_route_cost` takes that value. A cost that was merely measured anew may so change a
selection and trigger advertisements. A channel without fading has one cost per link.
The penalty is the one of its electrical state, which the grid moves in `_step` and an
operator in `recalculate_routes`, plus its load: packets already in its queue when its turn
to broadcast comes (`Loads`, chosen anew in each round). Error messages form a set; their
`destination_sequence` is read by nothing in the code. Heartbeats are heard at
the time of the step. Draining takes one packet per step in the order of the
nodes: handlers of different receivers touch different tables. The model may
step before a first discovery, which is more than the user interface does.

**EventRadio.** The powers of the channel are data: what a start senses, which
frames are lost or captured are choices within what the code allows (a frame damaged once
stays damaged; a busy receiver never receives). Times are relative to now. A
step processes ends and completions one by one, then the starts in their order
against the frames that were on the air before (`prior`), then interference.
`entitled` is a history: the contenders of an instant whose channel was free when its starts began.
Radios fail and recover between steps. One profile is modelled.

**Forwarding.** Next hops are any of `NextHops`: control runs may change tables
between any two packets. A pass is a loop with a position and a burst. The event
radio's frames are held in `chan.air` and land in any order. Histories
(`issued`, `handled`, `again`, `acked`, `stored`) record what the properties
speak of. `inject_fault` also runs route control before the flood; this is
covered by the free choice of next hops. A path is a set: the code only asks
whether a node is on it.

**ManualSession.** One packet, and one transmission per press. A drop for
any reason (inactive, no neighbour, validation, encoding, channel) is the same
step, for the code does the same in each case and never retries.

**PowerPlane.** `Collected` is the list of requests a command leads to,
each with a rank that is its place in the list; `_dedupe_switch_requests` keeps
the first place and lets an opening prevail. Where several nodes are isolated at once
their openings form one group in line order; openings commute. `has_path`
is "no set of nodes separates the ends", the form that can be proved about.
A target line that does not exist raises a `KeyError` in the code before anything is
switched: phase `raised`. `after` in a plan is a history.

**RouteLoops.** Histories, reset by a discovery: `steady` until a candidate goes or a route has
become dearer by more than `Slack` than it was at its cheapest, which `lowest` remembers; `whole`
until an advertisement may have been lost or left unsent.

**MeshEdits.** A name that is not in the mesh is a node that is down and has no
tables; `remove_node` and `add_node` make it one and back. A cache holds the
packet numbers up to `Cached` of each node. Heartbeats, advertisements and error messages take
numbers; discovery, which fills the neighbour tables itself, takes none. A frame found in the cache
refreshes the neighbour entry and goes no further (`Suppress`); `muted` remembers
that this happened, since a discovery with suppressed frames promises nothing. `downFor` is a
history: the steps for which a node has been failed or deleted, up to `Deadline`. No queue holds
packets here: all loads are 0.

**Topology.** The functions of `topology.py` are operators on the tables. A
destination that is not in the mesh counts as an invalid route, where the code
raises a `ValueError` (see below).

**SwitchingTimeline and ControlPipeline.** One step per check or compiled plan, in the
order of the code; a failed check ends the run with its `reason`. PSCAD's
project holds `AsBuilt` or what some earlier run left (`AsLeft`): only what a
manifest writes is known. A timed breaker toggles at its operation times from
its initial state; a plain control just gets a state. A fault element has a
start, a length and a type; unused elements are written too (`at_rest`). Parsing, names of
parameters and units are left out. `duration` is the largest end plus the window, or
the override.

**ControllerAdapter.** A fault row becomes an isolation, and a delayed reroute
if it asks for one and has a path.

**PscadServer.** PSCAD is external. It simulates a copy of the parameters it has
when a run begins and writes its one output file as it goes, first in part, then whole. The
server keeps a connection, opens the editor if there is none, and answers a run
when it is over ("blocking", our server), or at once ("acknowledging"). What was acknowledged is
`queued`: PSCAD begins it at any later time, on the parameters it holds then (`RunBegins`), or never
(`StartForgotten`). A "stock" server lacks our tools. Server and editor can go at any moment.

**PscadClient.** `pc[c]` is the call an execution waits for; each call succeeds or fails as
the server's state says, or by one of `MaxFaults` failures. The lock is a file per
port, so that two host names of one machine share it. `_poll_run_status` is a loop of
separate steps: `Wake` ends the sleep and looks at the deadline, `Poll` gets a status, `Look`
looks at the file, and PSCAD may begin, write or end between any two of them. `get_run_status` says "idle"
or "under way", the build a run triggers included. After a failure, and after the
end, the lock is released while PSCAD may still simulate: this is why output is
removed before a run and must be new after it. `left` and `owed` are histories of what PSCAD was
at when the lock was taken, `awaited` of whether a client was told that a run is over.

**Dashboard.** A pass reads the inputs, compares their key to the last, runs or
executes, and stores. An interaction during a pass aborts it at its next access
to the session: what the pipeline returned is dropped, but the execution goes on
to its end first. Command lines are executions without a page.

## 3. Runs

Sizes are distinct states.

| run | instance | what it shows |
|---|---|---|
| `node_queue` (45 thousand) | limit 3, priorities 1, 2, 4, seven arrivals, three times | loss, and refinement of `PriorityLanes`, which includes FIFO |
| `route_triangle` (464 thousand) | three nodes, one poor link, one link that fades between three costs (one step of fading within `Slack`, one beyond it), a gateway, a loaded node, three rounds, lost heartbeats, hellos and route errors, reordered control messages | `NoFutureSequence`, `RouteIsBacked`, `FailedIsForgotten`, `SwitchIsJustified`; next hops lead to the destination from a discovery on until a candidate goes or a route is dearer by more than `Slack`; a discovery that ends by itself has spread every route and leaves tables that agree |
| `route_repair` (122 thousand) | kite of four, one radio that fails, one node deleted and placed again, no loss, fairness | a discovery that ends by itself yields a traceable path for every pair the report calls connected, expiry removes what an edit left, dead destinations vanish, and by a deadline (six steps here; three are needed), tables recover |
| `event_radio` (77 thousand) | three nodes, three frames, one retry, one backoff | exclusion, half duplex, single service, a free channel serves all its contenders, resolution |
| `forward_flood` (33 thousand) | ring of four, event radio without loss, one alert | handled once, reaches everyone, all acknowledged |
| `forward_lossy` (269 thousand) | triangle, queues of two, caches of one, loss, any tables, a failing radio, the gateway off and on | hop counts, no circling, no duplicated telemetry |
| `power_pipeline` (297 thousand) | four buses, ring with open tie and stub, up to three of the commands, valid and invalid requests, parameters of an earlier run | radial, isolation, accepted paths; breakers, faults, snapshot and preview agree with the plane; only the breaker's length refuses a plan |
| `manual_session` (2 thousand) | five nodes, losses, one failing radio | flood radius, acknowledgements, end of the trace |
| `pscad_session` (306 thousand) | a page and a command line on one port under two host names, servers down, acknowledging or stock, editor closed or open, two interactions, two polls, one failure | one owner, trusted output, shown is current, executions return |

Types are theorems of every module with a proof module, not invariants of its run (section 4), and
so is `FifoWithinPriority` of `NodeQueue`, which `KeepsLanes` implies.

Three runs expect a violation. Each checks one sentence of the documentation
against the code:

* `route_loop`: "Split horizon and destination-sequence freshness provide loop
  prevention" (`docs/PROJECT_STATUS_AND_ROADMAP.md:232`, also
  `docs/TWO_PLANE_ARCHITECTURE.md:68` and `docs/ROUTE_ADVERTISEMENT_SPEC.md:69`).
  After the failure of one node of a triangle the other two route to it over
  each other until the routes' lifetime ends. `DeadDestinationsVanish`
  and `RoutesRecover` show that this heals, `DeadAreForgotten` by when, and `SteadyRoutesLead`
  that it takes a failure, an expiry or costs that rise by a whole hop: after a discovery there is
  no loop until then.
* `route_stale`: an advertisement is rejected if "the destination sequence is older than the
  newest accepted sequence" (`docs/ROUTE_ADVERTISEMENT_SPEC.md:67`). The number is forgotten
  with the last candidate. On a ring of four, 4 advances its sequence, and the round limit keeps the news from
  2, opposite; 4 fails; 1 drops its only candidate for 4 and has no route left; 2 falls back to
  the older sequence it learned from 3, as it should, and advertises it at the next refresh; 1
  accepts it. A frame lost on the way to 2 does the same as the round limit.
* `power_rejected`: "Rejected commands ... produce no physical PSCAD switch
  transition" (`research_power_plane/README.md:91`). The other operations of a
  rejected command are applied and become breaker events.

All three behaviours were also reproduced with the Python code.

Smaller observations, with no run of their own: a command that asks for both
states of a line outside an isolation is accepted without the warning that the docstring of
`_dedupe_switch_requests` announces (hence the exception in
`AcceptedPathIsClosed`); the specification's "at least" the hysteresis
(`docs/ROUTE_ADVERTISEMENT_SPEC.md:79`) is "more than" in the code; an evicted
packet stays `delivered` in the event rows; the completion message of a manual
broadcast counts receptions of acknowledgements too; in batch mode the origin of
an alert may hear, handle and count its own alert; with the event radio a row of
telemetry leaves the gateway's cache when its frame is queued, and is gone if the
frame is lost.

Of the edits: `next_available_node_id` gives a deleted name out again, and the
new node counts its packets from 1, so that the others take its first packets for
duplicates until its numbers pass those they hold; rebuilding links and routes does not
help. Routes to a deleted node, cleared by the edit, can come back from a
neighbour at the next `expire_routes` and stay for a lifetime
(`ExpiryRepairs` says that they go); while they last, `trace_route` raises a
`ValueError` for the missing node, so that the topology report cannot be built. Both were
reproduced with the Python code.

Of PSCAD, where `TrustedOutput` makes exceptions because the code reaches them (TLC finds each when
its exception is dropped): an execution that stops polling at the sight of a new file, or at the
deadline, may return a part of the output without an error (unless `awaited`). A simulation
that an earlier execution left at work writes its file after the next one removed it; the next execution, whose own run may
not have begun, returns that waveform as its result (`left`), although a failed run's "previous
waveforms are not reported as a new successful run" (`research_power_plane/README.md:312`). A start that was acknowledged to an
earlier execution and begins while the next one writes its parameters simulates a mixture of two
manifests (`owed`). With our own server, which answers when the run is over, only the
second is possible: a call fails while PSCAD simulates, and the next run itself leaves no output. Without workspace files there is no file to compare, and no freshness check.

### Bounds, and why they are enough

* Three routers are the least in which a node learns a destination from a node
  that learned it from the first; `MaxSeq` lets every node reannounce itself;
  lifetimes and time-outs of one or two steps make expiry race with refresh.
  `route_repair` needs four: a destination with two disjoint paths, and a node
  that can go while the others stay connected. One deletion and two numbers per
  cache suffice for a name that returns and is muted (`MaxEdits`, `Cached`). `RoundLimit` is small
  so that runs reach it (the code allows 64). In `route_triangle` one link costs 3, 4 or 13 towards the gateway, less 1, and
  `Slack` is 1: one more and one less fading are told apart, and a hop costs more than `Slack`. With `Slack` 12, which is
  more than a hop costs, TLC finds a loop without any failure: the bound of the theorem is needed.
  `route_repair` has no fading: `DiscoveryConverges` looks for whole paths, and with fading they
  are those of `DiscoverySettles`, `DiscoverySpreads` and `SteadyRoutesLead`.
* Broadcasts take no time of their own in the runs (`AirTime` is {0}), and the refresh is due at every step
  (`AdvertInterval` is 1). Answers that come while a control run takes steps are therefore covered by the theorems, which
  hold for any `AirTime`, more than by TLC; and a refresh that is put off (`simulator.py:520`) until routes
  have expired is not covered by `RoutesRecover`.
* Three frames from two senders give a deferral, a busy medium, a hidden
  receiver and simultaneous starts. `MaxExponent` caps the back-off exponent (10
  in the code): more slots change delays, not the order of cases.
* A queue of two or three forces eviction and refusal; a cache of one forgets
  every key but the last, the worst case of the 512 of the code; a burst of
  one or two splits passes.
* `MaxAlerts`, `MaxNumber` and `MaxRows` bound what is ever created.
  `forward_lossy` keeps alerts, telemetry and acknowledgements in one instance.
* The commands have times 1 to 3 and cover every action, a path through the
  isolated node, a line asked both ways, a closed loop, an unknown line, an unknown edge,
  the rows of two faults, and more toggles than a breaker has (`MaxToggles` 2, as in
  the mapping); three of them suffice to open, close and reopen a line. The requests have
  two faults, one of them outlasting the commands, an override that cuts the run short, a mapping of half the
  lines, a snapshot, and one request for each check that refuses.
* One page and one command line: a third client would only wait for the same lock.
  One failure hits every call, the server or the editor at every point; two
  interactions are an edit during a run and a button after it; two polls see a run under way and
  then over, and the deadline may pass before, between and after them. `pscad_session` has no blocking server at the
  start; one comes up when a client finds none and spawns ours.

Deadlock is not checked where the system really stops: everything
delivered, the replay done, the bounds used up. `event_radio` checks it.

### Fairness

* `MeshEdits` (and the control runs of `RouteControl` in it): weak fairness of expiry and of the control procedure, which are
  parts of calls that always run to their end; strong fairness of `_step`, as
  `run` steps as long as it is asked to and only finitely many other calls come between two steps.
* `EventRadio`: weak fairness of the step, for `process_queues` steps while anything is pending.
* `Forwarding`: strong fairness of the start of a pass and of each landing (passes
  and landings alternate in the loop of `process_queues`), weak fairness of what a call has begun.
* `ManualSession`: weak fairness of `forward_one`: the user presses on.
* `Dashboard`: weak fairness of the page's pass, of each client's next call (every
  call has a timeout and then fails), of a command line's exit, and of PSCAD: a
  simulation ends, an acknowledged start is begun or forgotten, and a started server comes up or not. Nothing is assumed of the user, and
  no failure is forced or excluded.

`AlertsReachEveryone` and `AcknowledgementsReturn` are claimed for radios that
stay up, queues with room, no loss and TTLs that suffice;
`DeadDestinationsVanish` for a destination that stays down;
`RoutesRecover` once faults, edits and operator commands end.

## 4. Proofs

TLAPS proves these for all values of the constants that satisfy the assumptions
named in the component's module; `PROJECT.json` lists each theorem with the property it proves.

* `NodeQueue_proofs`: types, arrival order, true load, loss and FIFO. The invariant strengthens
  `TypeOK` by distinct arrival numbers below the counter; order follows since
  numbers and times are given out together. `QueueKeepsLanes` is the refinement of
  `PriorityLanes`: a finite set of numbers has exactly one rising sequence, so a lane loses its
  head when its least number leaves the heap and grows at its end when the
  counter's next number enters, and the heap's victim and minimum are the heads of the lowest
  and highest lane.
* `RouteControl_proofs`: a chain of invariants, each using the one before.
  *Sound*: types. *Known*: sequence numbers in messages, candidates and routes are at most
  their origin's. *Rooted*: a route's next hop and backup have candidates from
  neighbours; during expiry this is relaxed to neighbours not yet processed.
  *Forgetful*: no table of a working node knows a node that is down;
  messages of that node are not accepted because it is no neighbour. The action property
  `SwitchIsJustified` follows from the selection lemma. Loss and reordering are
  included: nothing is assumed of the order of the inbox.
* `RouteControl_proofs`, loops: `SteadyTablesLead`. Neither sequence numbers nor split horizon
  carry this proof, costs do, although they fade. *Downhill*: a candidate of `n` for `d` over `m`
  costs more, by over `Slack`, than the least `m` itself has paid since the discovery (`lowest`): when `m` advertised, it said
  what it paid then, which is no less, and the hop was added. What is on its way says no less either
  (*Announced*), and what `m` pays now is at most `Slack` more than its least (*Remembered*). So costs fall along next hops,
  with hysteresis as well, for it keeps a candidate too; costs are naturals, and a least one exists in
  every set of nodes. It does not matter how often links are measured or how far a measured cost
  that no route takes rises. The theorem supposes that every hop costs more than `Slack`: with the default weights
  it costs at least 2, less 1 towards a gateway; a configuration may set weights to 0, which the code accepts, and then
  there is no such `Slack`. What ends `steady` is stated in `SteadyNext`: a failure, an operator's
  penalty, a candidate that goes, a route dearer by more than `Slack`. Fading of several dB can do that.
* `RouteControl_proofs`, spreading: `DiscoveriesSpread`. *Spreading* says of each neighbour with a
  route that the node has taken it in, or that the advertisement is on its way to it, or that the neighbour
  is among those that will still advertise in this run. The difficult case is split horizon: an advertisement
  is refused if it names the receiver as next hop, but then the sender learned its route from the receiver, who
  had a route to pass on and keeps one as long as no candidate goes.
* `RouteControl_proofs`, agreement: `DiscoveriesSettle`. Whether a run ends before its round limit depends on the
  draws of the channel: a re-measured cost alone triggers updates, and nothing bounds how often. What can be said is that a
  run that ended by itself has told everything. *Settling*: a frame says what its sender's table says
  now, or the sender is due to speak again (*WordsHold*); and what a node holds over a
  neighbour agrees with that neighbour's table, or the neighbour is due, or its word is on the
  way (*AllFollowed*). It needs that every change of a selected route makes its node
  due, which is what the mutant breaks.
* `EventRadio_proofs`: `Safe` relates the frames on the air to the next
  transmission times, so that a start of a sender already on the air is
  deferred, and the damaged receivers to who is talking; a received frame is not
  retried, so that no second service follows. `Orderly` covers the starts of one instant.
  `ContendersAreServed` (*TurnsKept*): while the starts of an instant are processed, what is sensed stays what was on the air before
  them, so that a contender whom nothing held back is not held back when its turn comes, unless a more urgent frame
  of its own node took the transceiver; none of those served leaves the air before the starts are over.
  `RadioRunsDescend`: see below.
* `MeshEdits_proofs`: types, and `ExpiryRepairs` in a mesh that is edited. The
  chain of `RouteControl` does not carry over: a deleted node stays next hop of
  others, and a name placed again counts from 1, so that sequence numbers and roots of
  routes are all unsound for a while. What survives every edit is *Supporting*: sequence
  numbers are bounded, and whoever has a route to a destination has some candidate
  for it, as long as the entry says, be it a stale one. This is all that the reselection of an expiry turn needs
  to end in a backed route or none. `MeshEdits` assumes a mesh that loses no control frames.
* `MeshEdits_proofs`, the deadline: `DeadlineHolds` turns `DeadDestinationsVanish` into a bound, for all
  meshes, loops and edits. *Fading*: with `Worth(h)` for `h` lifetimes and expiry passes, a node that a
  candidate of `h` hops leads to has been down for no longer than `Worth(h - 1)` and what the candidate has spent of its own
  lifetime, and one that an advertisement of `h` hops speaks of for no longer than `Worth(h)`. A node that
  advertises itself is up; an advertised route rests on a candidate that spent a lifetime at most
  (*Supporting*), and whoever accepts it counts one hop more. Time on the air beyond the lifetime
  does not count: it outdates a candidate, but only a pass removes it. Hence no entry
  is left after `MaxHops * (RouteLifetime + 1)` steps.
* `ControlPipeline_proofs`, the plane: a feeder stays radial. Acyclicity is stated with cuts:
  every closed line crosses some cut that no other closed line crosses. When a line is
  closed, a cut with no closed line exists for it; for any
  other line whose own cut the new line crosses, the symmetric difference of the two
  cuts is a cut of that line alone. Isolation: among the requests of an
  isolating command every incident line has an opening, which survives
  deduplication; the well-foundedness of the naturals gives the first
  request of each line. An accepted path is closed: no later request of the same command opens one of its
  lines, and none was refused.
* `ControlPipeline_proofs`, the pipeline: every step of the pipeline is a step or a stutter
  of `PowerPlane`, so the theorems of the plane hold in the pipeline. *Planned*: each plan leads from one
  state to the next, in the order of time. *Compiled*: a schedule ends in the
  state its last plan left the line in, and alternates. So the compiler's
  checks for order, state and toggling never fail, and only a line with
  more toggles than its breaker can take, or a request that is wrong itself, stops a run.
* `ControlPipeline_proofs`, the manifest: *Replayed*: at every time a line has toggled as
  often as takes it from its first state to that of the last plan up to then. With
  *Prepared* and *Written* (what the binding has written so far) this gives the
  breakers, and that faults, snapshot and preview agree with the plane, for every
  earlier content of the project.
* `Forwarding_proofs`: `IInv` says of every packet anywhere (queue, air, hand)
  that TTL and hop count add up, that the path of a unicast has one node more than it has hops,
  and that whoever receives a unicast is not on it yet. Any tables, loss,
  any sizes of queues and caches. *Once* places a telemetry row: in one cache, or in one
  position of one queue, or in one frame to one receiver, or stored, or nowhere,
  and a row still to be flushed is still cached. It must speak of positions and not of sets of
  packets: two copies in one queue are one element of a set, and become two rows at
  the gateway. `AlertsHandledOnce` has a hypothesis, `Roomy`: the caches can
  hold as many keys as packets were created so far. The keys of a cache are distinct and
  belong to created packets, so that there is room for one more and none is
  pushed out: a handled alert is still in the cache of its handler. `Roomy` holds
  throughout `forward_flood`; with a cache of one key, TLC finds an alert handled twice
  there, so the hypothesis is needed. It asks more than
  necessary: a key matters only while a copy of its packet is under way. The code has 512 keys.
  `FloodsReachEveryone` is the safety half of `AlertsReachEveryone`: an alert whose last
  copy is gone has been handled by every node. *Covered*: whoever has an alert has, for
  each neighbour that has not, a copy under way to it. A node handles the first copy
  it sees and forwards that one only, so the copy must still be allowed to go on. *Good* says why it is: everyone on
  its path has the alert, and it made no more hops than they are (one more if the origin heard its own
  alert); so while a node is left out, hops are fewer than nodes and TTL is left. *Honest*: a cache
  holds no alert its node did not handle. The hypotheses: a connected mesh, working radios without loss, room for two packets in
  every queue, `Roomy`, and a TTL and `max_hops` that suffice for a path through all nodes. The diameter of the mesh
  is not what is asked for, since with the event radio the first copy may come the long way round.
  Severe alerts (TTL 8) qualify in meshes of up to 8 nodes, emergencies (TTL 20, `max_hops` 10)
  of up to 11; minor and moderate ones are meant to stay near. `forward_flood` satisfies all of them, and TLC finds `FloodsComplete` true there.
* `ManualSession_proofs`: `FloodsReachTheirRadius` is the argument of breadth-first
  search. *Wave*: the transmissions that wait carry one of two TTLs, those with the
  greater first; all nodes within the distance this TTL stands for have heard the
  packet, and whoever has heard it has, for each neighbour that has not, a copy
  waiting. So the first copy a node hears carries the most TTL it can get, although
  later ones are suppressed. `AlertsAreAnswered` follows an acknowledgement home: until it
  is at the origin it waits to be sent, to a node nearer than any on its path and
  with more TTL than that node is away. For that the routes must lead there: the theorem is about every measure `far` of
  distances with `RoutesLead(far)` (next hops linked, nearer and within the radius, distances
  within `MaxHops`). The code does not guarantee it of tables at any moment; it holds of
  converged ones, and TLC evaluates it for those of `manual_session` as an assumption.
* `Dashboard_proofs`: *Locked*: a client past `lock` is the owner of its port, so
  there is one. *AllTrusted* (`OutputTrusted`): until its run a client that found no start outstanding has PSCAD do nothing but
  end what it was found at, and hold what was written so far (*Prepared*); from then on PSCAD simulates, or has yet to begin, the
  client's own parameters, or is still at the earlier run, and the file is of one of the two (*Simulated*), whole while PSCAD
  rests (*WholeAtRest*). What a client hears is put off and out of date, so *Heard* says what can be concluded from it:
  found at rest, PSCAD has begun the run once it was seen at work, and has ended it when a later
  status says so. The assumptions are that every client names the same port (`OnePort`), since PSCAD is shared and the lock
  is per port, and, in the model of PSCAD, that a status of "idle" is not given in the middle of a run. *PageFollows*: a stored
  result belongs to the stored key.

Three more theorems are the safety halves of liveness properties. Each names a measure that is bounded by the
types and that every step of the loop in question lowers, so that what is left to fairness is that the loop goes on:

* `RadioRunsDescend` (`EveryFrameResolved`): a step of the event radio raises phase, attempt or backoff of one request and
  leaves the others, or else it leaves all of them and ends some wait or comes nearer
  to the stage in which something is due.
* `TracesDescend` (`TraceEnds`): a press of Forward adds a sighting, of which there are finitely many
  because each node numbers its acknowledgement once, or takes one transmission off the queue without adding any.
* `ExecutionsComeBack` (`ExecutionsReturn`): each call of an execution that succeeds or fails brings it
  nearer to its end in a fixed order of places (sleep, poll and look among them), items written and polls made;
  nobody else, and no late start, sets it back.

Only model-checked: liveness itself (fairness and ENABLED are beyond the prover), and one invariant of the control runs:
`DiscoveryConverges` compares the tables with whole paths that recursive functions trace, which takes induction over
data; what each step of such a path needs is proved (`SteadyTablesLead`, `DiscoveriesSpread`, `DiscoveriesSettle`).
`StaysRadial` is conditional: the code does not check the initial state of the feeder.

## 5. Not modelled

* Values on the air and on the grid: propagation, airtime, voltages, costs as
  real numbers, the progress of electrical faults. TLC could only enumerate a
  few of them, and what the protocol sees of them are link costs that change with every reception
  (`LinkCosts`), penalties, delays and losses. How likely a measured quality is, and how it depends on distance, is left out:
  any value in `LinkCosts` may be drawn at any time.
* The wire codec, the output readers, the project configuration and the validation of files: functions
  without state on bytes, samples and text.
* Oracle routing (`RoutingEngine`): a reference from a graph library that keeps
  no protocol state.
* `move_node`, which clears all tables and discovers a mesh with other `Links`,
  and `clear_network`, after which the instance starts anew; ready-made scenarios; gateway
  distances, which only reports and the oracle read; bridges and failure
  impact of the topology report.
* `simulate_attack` and the trust checks of a reception, which drop a frame like
  a loss; metrics and event rows.
* Component bindings of the PSCAD adapter other than lines and fault elements,
  which exist only for snapshots; the transport of the calls (server-sent events).
* Mesh pages, drawings, research scripts.

## 6. Plan

Done, in this order: queue, routing, event radio, forwarding, power plane and
timeline, manual session; then topology edits and report, the whole control
pipeline, PSCAD execution with dashboard and command line, and the proofs about
forwarding, pipeline, manifest and dashboard; then the refinement of the lanes, the
proofs about rows, duplicates, edits and the manual session; then loops, the spread of
discoveries, the deadline of dead destinations, the reach of a flood and the measures behind the
liveness properties; last link costs that fade, the agreement of tables after a discovery, and the polling of PSCAD
in single steps. What would come next:

1. That the queues of `Packets` take the steps of `PriorityLanes` too, with arrival
   numbers as a history, so that the three queues are one by theorem.
2. A tighter `Roomy`: keys of packets still in flight instead of all created; and the acknowledgements of a
   flood, which need routes that lead home as those of the manual session do.
3. `RoutesLead` of `AlertsAreAnswered` from `SteadyTablesLead` and `DiscoveriesSpread`: the costs that fall
   along next hops are not yet the distances in hops within a radius that it asks for.
4. A refresh interval longer than a step in `MeshEdits`, with the refresh that is put off.
5. A statement about how long a run of triggered updates lasts while costs fade, which needs a bound on what the channel draws.
6. `move_node`, `clear_network` and gateway distances in `MeshEdits`.
7. Airtime as a function, so that `EventRadio` derives `AirTime` from a profile.
