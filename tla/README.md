# A verification of MiniEureka

TLA+ models of the Go backend of MiniEureka, TLC runs that check them on small
instances, and proofs that the TLAPS proof system checks for every instance.
Paths are relative to the repository's root (`src/` here); `backend/…` is short
for `src/backend/internal/…`.

- [The system](#the-system): components, state, operations, interactions
- [What is hard about it](#what-is-hard-about-it)
- [The modules](#the-modules): how each corresponds to the code
- [The runs](#the-runs): what is checked, on which bounds
- [Fairness and deadlock](#fairness-and-deadlock)
- [The proofs](#the-proofs)
- [Where code and documentation part](#where-code-and-documentation-part)
- [What is not modelled](#what-is-not-modelled)
- [Plan](#plan)

## The system

MiniEureka is a service registry of equal nodes. Clients register instances,
renew their leases by heartbeats and deregister them over HTTP; nodes tell one
another by UDP gossip and repair by HTTP anti-entropy; a dashboard follows the
events of a node over WebSocket. Nothing is persisted: a node that restarts
starts empty and rejoins.

| Component | State | Operations | What makes it correct |
|---|---|---|---|
| Model (`backend/model`) | versions `(physical, logical, origin)`, mutation kinds, records | comparison, validation | the comparison is a total order wherever event IDs are unique |
| Registry (`backend/registry`) | per shard: entries with a window of operation IDs, and fences; all under the shard's lock | `Apply`, `ApplyFence`, `MarkDelayed`, `GC`, `MutationsForShard`, `Fences`, `Digest`, queries | merging is a join: order and repetition do not matter; a terminated lease never returns; nodes that synchronised have equal digests |
| HLC (`backend/clock`) | last version, under a mutex | `Now`, `Observe` | newer than everything generated or observed; never dragged far ahead |
| TTL wheel (`backend/ttl`) | current tick, position, slots of tasks, under a mutex | `Schedule`, `Advance`, `Run` | a task fires once, at the first tick at or after its deadline, and does fire |
| Service (`backend/service`) | none of its own: registry, clock, wheel, ring and the gossip sink | `Register`, `Heartbeat`, `Deregister`, `ApplyRemote`, `HandleTasks`, `RunMaintenance` | abandoned leases leave discovery, renewed and terminated ones behave as documented, whatever the interleaving |
| Event ring (`backend/events`, `backend/api/websocket.go`) | bounded log, next sequence number, subscribers with bounded channels | `Publish`, `Since`, `Subscribe`, receive, cancel | a consumer gets every event in order or learns that it must resynchronise; writers do not wait |
| Membership (`backend/cluster`) | per member: incarnation, version, status, last seen | `Merge`, `refute`, `ObserveAlive`, `Tick` | members that answer end as ALIVE everywhere, silent ones as DEAD |
| Gossip (`backend/gossip/engine.go`) | pending deltas with their rounds left, pings in flight, synchronisations, readiness | a round per tick; handlers of ping, ack, members, delta, sync_required and receipt | registries become equal and gossip dies down; every node gets ready |
| Anti-entropy (`backend/gossip/anti_entropy.go`) | none at the peer; digests and cursor at the requester | digest request, paged response, application | a successful synchronisation takes over all the peer had, but for what the clock refused |
| Wire and transport (`backend/gossip/wire.go`, `udp.go`, `faults.go`) | nonce cache, injected faults | sign, verify, send, receive | a datagram is accepted at most once within the clock skew |
| HTTP API (`backend/api`) | rate-limit buckets | handlers | requests map to service calls; snapshot and cursor fit together |
| Demo manager (`backend/demo`) | demo instances | create, heartbeat loop, offline | demo instances stay until they are stopped |
| Dashboard (`src/frontend-admin`) | reducer state, cursor, batch, timers, socket | snapshot, events, poll, reconnect, retry | the picture converges to the node's registry, counters match it, the console never stops trying |

How they interact: an HTTP handler calls the service, which reads the registry,
draws a version, applies, and then publishes an event, schedules two timers and
queues the mutation for gossip, each behind a lock of its own. Gossip and
anti-entropy call `ApplyRemote`, which observes the version and takes the same
path; fences go to the registry directly. The wheel's goroutine calls
`HandleTasks`; the maintenance goroutine calls `GC`; one goroutine per WebSocket
receives from the ring. The engine's loop runs the failure detector, a gossip round, and
every few rounds a synchronisation; the UDP listener handles one datagram after the
other; each synchronisation is a goroutine of its own. The console loads a snapshot,
opens a WebSocket at the snapshot's cursor, and polls while it has none.

## What is hard about it

`PROJECT.json` lists the hazards line by line. They fall into seven groups.

1. **Concurrent states of one instance.** Mutations of several leases, by
   several nodes, arrive in any order, repeatedly, as mutations or as fences,
   before and after the tombstone was collected (`registry/apply.go`).
2. **Read, then act.** No lock spans a request: what `Register`, `Heartbeat` and
   `Deregister` read may be gone when they apply; the wheel reads a record,
   draws a version and applies it in three steps (`service/service.go`,
   `operations.go`).
3. **Timers behind the lock.** Timers are scheduled after the registry's lock is
   released and carry the version they belong to; renewals overtake one another
   on the way to the wheel.
4. **Boundaries.** Clock counters that overflow and wall clocks that go back;
   slot and turn of a task at the edges of the wheel; the oldest retained event;
   full channels; zero remaining TTL.
5. **Beliefs about members.** Every observer stamps SUSPECT and DEAD with its own clock,
   repeats what others believe, and receives old datagrams; the subject itself
   can only answer, and forgets its incarnation when it restarts (`cluster/table.go`).
6. **Several registries.** Deltas are lost and run out of rounds; a synchronisation reads
   the peer page by page while both sides change; all nodes may start at once, none of
   them ready (`gossip/engine.go`, `anti_entropy.go`).
7. **A console that is behind.** Snapshots, polls, socket events and their timers
   overtake one another; the node restarts below the console's cursor
   (`useDashboardData.ts`, `dashboard.ts`).

## The modules

```
Leases ── RegistryMerge ── Registry ──implements── LeaseLattice
  │             │             └─ RegistryProofs
  │             ├─ Service ─ ServiceProofs
  │             └─ Gossip ─ GossipProofs
  ├─ HLC ─ HLCProofs
  └─ Membership ─ MembershipProofs

TTLWheel ──implements── TimerSet       EventRing ─ EventRingProofs
    └─ TTLWheelProofs                  Dashboard ─ DashboardProofs
```

`MCx` instantiates `x` for TLC. Each model module defines, next to some
definitions, a *faulty variant*: the definition with a plausible bug, which no
specification uses and which each property must be able to tell from the real
one (`"mutants"` in `PROJECT.json`).

**Leases** (`model/version.go`, `mutation.go`, comparators of `registry/apply.go`).
A *stamp* is what decides between two states of an instance: lease epoch, then
version, then kind priority, then event ID. `Outranks` is `compareFences`.
Version counters are naturals here; their widths matter in HLC only. Origins and
event IDs are strings in the code and compared as such; here they are naturals,
of which only the order is used.

**RegistryMerge** (`registry/apply.go`, `registry.go`, `digest.go`). What one
mutation or fence does to the entry and the fence of its key, as operators:
`EntryAfter` and `FenceAfter` are `Apply`, branch by branch (operation ID already
seen; stale lease; older than the entry; behind the fence; applied), `FenceWins`
and `FenceReplaces` are `ApplyFence`; `Export` is `MutationsForShard` and `Digest`
the tuple that is hashed. The last tie-break of `compareIncoming`, a comparison of
JSON texts, is modelled by what it can differ in (operation ID, update time).
`Registry` and `Service` share this module, so there is one translation of the merge.

**Registry.** Every operation holds one shard's lock, so each is an action; `GC`
takes one shard at a time, as the code does. `merged` is a history variable: the
stamps a key was compared with. `LeaseLattice` is the abstract specification: per
key a stamp that only climbs, and a set of discoverable keys that is always
exactly the keys with a live stamp.

**HLC.** `Now` and `Observe` with counters of bounded width (`MaxPhysical`,
`MaxLogical` stand for the 64-bit maxima), including the carry in `nextLogical` and
its saturation at the last version. The wall clock is set to any value at any
time. `seen`, `peak` and `carry` are history.

**TTLWheel.** Time is counted in fractions of a tick, so that deadlines fall
between ticks. One iteration of the loop in `Advance` is an action; the handler
runs between iterations with the lock released, and anyone may schedule then.
An item keeps its absolute slot. `TimerSet` is the abstract specification: a set of
tasks, each handed over once, at a tick, not before its deadline and not later than the first
tick after it.

**EventRing.** `Publish` holds the mutex over several steps, because subscribers
receive from their channels without it: `Publish`, `Offer` per subscriber,
`DrainTest` and `DrainReceive` for the two halves of `for len(ch) > 0 { <-ch }`,
`PublishReturns`. `Subscribe` takes the mutex twice, hence `SubscribeCopy` and
`SubscribeJoin`. Events are their sequence numbers. `Since` ends its loop at its limit.

**Service.** All goroutines of a node that touch one instance. A step of a
goroutine is what it does between two locks; `procs` holds where each stands:

| `pc` | next step | code |
|---|---|---|
| `idle` | `Register`, `Heartbeat`, `Deregister`, `MarkDelayed`, `ExpireLease`, `Collect`, `ApplyRemote`, `ApplyEcho` | the read and its checks |
| `stamp` | `Draw` | `clock.Now()` |
| `apply` | `Apply` | `registry.Apply` |
| `followup` | `FollowUp` | `publishMutation`, `schedule`, sink, return |
| `announce` | `Announce` | an event published after `MarkDelayed` or `GC` |

The follow-up is one step: event log, wheel and gossip queue share no state, so only
the order of two goroutines' follow-ups can be seen, and that is kept. Requests refused by their first
check change nothing and are no step. What `Apply` stored can be read from the registry at once,
before its follow-up, by clients and peers (`Stored`); a registration that finds its record
is answered with that record's lease. The wheel is `TimerSet`'s set of tasks, the
clock the order of the versions it draws (`hlc`), both justified by their own
modules. Peers are an environment: they register instances of their own, send
mutations and fences of leases they heard of with versions within `PeerSkew` of this
node's clock, and re-export this node's mutations after having marked
them DELAYED (`ApplyEcho`). `ApplyFence` bypasses the clock, as the code does.

**Membership.** A table treats every member by itself, so the model follows what
all nodes know of one of them, `Subject`. Two goroutines touch a node's table: the engine's
loop (`Detect`, then `Round`) and the UDP listener, whose handling of a ping or an ack takes
the table's lock twice (`Receive`, then `Observed`; only `Detect` runs in between). `Merged`
is `Merge` with `refute` for accusations of the own node, `Overdue` the failure detector.
Messages keep their order of sending nowhere: `net` is a set of datagrams, from which any may
be taken at any time; what is lost is lost when it is sent (`Send`), or when it arrives while its
addressee is down (`Lose`). One wall clock is
shared; `Lead` gives a node an HLC that runs ahead, which is what makes its stamps
win. `Stop` forgets the subject's table, `Start` gives it incarnation 1, a new boot ID
and a fresh clock; a datagram delayed across the restart reaches the new process. `ObserveAlive`
takes the time once, before its first critical section (`handling.at`). Member lists are short enough that every round carries the
subject's record (the code rotates through longer ones, four at a time). Latency and
last success serve the topology view only.

**Gossip.** The registries of several nodes, each `RegistryMerge` per key. `Make` stands for
whatever a client or the wheel does at a node; the mutations are given, without operation IDs, and each node
makes its own when its registry and its clock allow: with a version newer than those the clock has observed
(`clock`; fences are not observed). `Refuses` is `ErrRemoteClockTooFarAhead`: `Ahead` says which versions are
too far ahead of a node's wall clock at the start, and `CatchUp` lets the wall clock go on, version by version, at
any moment. `ApplyRemote` drops what is refused, whether it came as a delta or in a page; a
synchronisation goes on and counts as successful. `Restart` loses everything but the datagrams
under way to it. `Round` is the second half of `gossipRound`: every
pending mutation loses a round, whatever becomes of its datagrams. `Meet` stands for the
messages by which nodes learn of one another; that they do is Membership's part.
A synchronisation is `StartSync` (digests are read), `Serve` or `Refuse` per request,
`Import` per item of a page (`LeftOut` says that it is refused), and success with the last item, or with `Finish` when there was
nothing to import. The peer keeps nothing between pages, and its list is made anew: a set of
items with an order (`NotAfter`), in which a cursor is a `Place`. `had`, `listed`,
`intact` and `skipped` are history. The code allows one synchronisation per pair of nodes at a time, the model
one per node, which with two nodes is the same; `MaxSyncs` bounds them over all nodes.
Time is left out: tombstones are collected at any moment.

**Dashboard.** Three parts that run at their own pace. The node: a registry whose changes
are published in any order after they were made, a ring that retains `Capacity`
events, restarts, and snapshots that hide tombstones of any age (`Load`: those older than
`EvictedDisplayTTL`; time is left out). The reducer: `Reduced` is one event of the `EVENTS` case,
`ReduceSnapshot` the `SNAPSHOT` case; `summary` has the counters of instances, of services and of each
status, and the reducer's `serviceCounts`. The hook: JavaScript runs each callback to its end,
so each callback is an action, and an `await` is a request in one action and its answer
in another; `snapshot`, `batch`, `polling`, `reconnect`, `socket` are the hook's variables,
`closing` the close events of sockets the hook has replaced. A replaced socket that fails sends an error event
first, whose listener closes the socket there is by then (`Closed`). A retry by the user and a
return to the page are `Gesture`. A poll brings the oldest `PollLimit` later events; one that is answered late is a
batch flushed late. A
snapshot is one page; with more, the client refuses one that changed in between.

## The runs

| Run | Asks | Instance |
|---|---|---|
| `registry` | Is the merge a join, does collection forget nothing, does an export rebuild the exporter's digest, is the lattice implemented? | 2 keys in 2 shards, 11 mutations of 3 leases: a stale heartbeat, a heartbeat after an eviction, a termination older than the heartbeat it overrules, two mutations with one version (a restarted node), a retried operation, a re-exported DELAYED record |
| `hlc` | Newer, within the skew, within the widths? | wall clock 1..4, skew 1, logical 0..2, physical to 7, peers on both sides of the node's ID that send every version |
| `wheel` | Placed exactly; fired once, on time, always? | 3 slots, ticks of 2 units, deadlines −1..14 (past, between ticks, on a tick, on a full turn, beyond two turns), 2 tasks |
| `ring` | Polls without a gap, up to their limit, ordered streams, no silent loss after the join? | 2 subscribers, ring of 2, channels of 2, 4 events, polls of every limit |
| `ring_blocked` | violation, see below | as `ring` |
| `service_requests` | Terminated stays terminated, DELAYED not early? | 2 concurrent requests, 3 calls, 2 registration IDs, a DELETE with an ID of its own or a heartbeat's, wheel and collector |
| `service_peer` | Against a peer: does the clock lead the registry, is an expiry always pending, is everything stored forwarded, does what is terminated stay so? | 1 client, 2 calls, 1 peer that sends a mutation, echo or fence within 1 of this node's clock |
| `service_expiry` | Does an abandoned instance leave discovery? | fair; 2 calls, 1 message of a peer, demo instance |
| `membership_pair` | Can every accusation be refuted, and does a member that runs end as alive? | fair; 2 nodes, the observer's HLC 1 ahead, suspicion after 1 and death after 2 of 4 time units, one restart, 2 datagrams under way |
| `membership_hearsay` | Does only the member itself clear itself, and does silence end as dead although observers repeat one another? | fair loops; 3 nodes in a ring of contacts, the subject's HLC ahead of one of the others by twice the suspicion time, the subject stops in the first of 3 time units, 1 datagram under way |
| `gossip` | Do the registries become equal, does gossip die down, does every node get ready, is a synchronisation complete? | fair; 2 nodes, each the other's seed, 2 keys in 2 shards, 3 mutations, 1 round per delta, pages of 1 item, node 2's clock refuses two of the mutations until its wall clock has caught up, one restart or failed request of node 2 |
| `dashboard` | Do counters match, does the console never stop trying, and does it converge when it polls? | fair; 1 instance, a ring of 1 event, polls of 1 event, 2 changes, one trouble (restart, lost socket, failed snapshot, retry or return to the page), sockets let through or not |

Why the bounds are enough. The merge compares pairs of stamps per key, so what
can go wrong needs two leases of one key and two mutations of each; the second key is
there for what shards do to one another. The wheel's arithmetic is periodic in
`Slots × TickLength`; deadlines go past twice that. In the ring, four events make
a ring of two lose its oldest event, and a channel of two overflow. In the
service, two requests show every race of read and apply, a third call supplies the
state they race on; leases last 2, are delayed after 1 and tombstones collected
after 1, so a renewal, an expiry and a collection fit before `MaxNow`. A peer's
message may arrive between any two of the other goroutines' steps. `LastCall` stops new
requests early enough for their timers to fire before the clock stops at `MaxNow`.
In `membership_pair` the subject can be suspected, held dead, come back with a fresh
clock that is behind the observer's, and meet its own old records; a second datagram
under way is what lets an old one overtake a new one. `membership_hearsay` needs a third node to repeat
beliefs; of its observers one signs accusations that a late record of the subject outranks, the
other accusations that stand. In `gossip`, one round per delta and one delta under way make every loss
happen, pages of one item make the list change between pages, and a tombstone, its
fence, a live record and a deregistration at the other node are all there. `MaxSyncs = 1` lets the two
nodes wait for each other to be introduced and refuse each other, but never synchronise in the same moment;
with two at once the run is too large, while the theorems hold for any number. In `dashboard`
one instance suffices for the picture, as the reducer treats keys by themselves; services with several
instances are the theorem `CountersMatchTheList`'s. A poll's limit cuts off nothing when the ring
holds one event; what it does is `SinceIsComplete`'s, in `ring`. A ring of one event makes
cursors expire, two changes can be published in the wrong order, and one trouble
meets every state of timers and sockets.
Every run lists all its bounds in its `.cfg`; symmetry is used for requests and
subscribers in runs without liveness only.

What the deeper properties say:

- `TopIsJoin`: after any history a key holds the greatest stamp it was compared with. A mutation whose
  operation ID the entry's window knows is not compared (`registry/apply.go:52`).
- `NoResurrection`: once a key was compared with an explicit termination of a lease, no
  instance of it or of an older lease is discoverable, also after collection.
- `ExportRebuilds`: an empty node that imports an export has the same digest.
- `NextIsNewer`, `ClockBounded`: the clock is ahead of all it saw, and not ahead
  of its wall clock by more than the skew and the overflows.
- `PlacedExactly`: slot and turns point at the first tick at or after the
  deadline, whenever and from wherever the task was scheduled.
- `SinceIsComplete`: a poll whose cursor has not expired returns the later events without a gap, the oldest
  as many as its limit allows, so that polling on from the last one misses none.
- `NoSilentLossAfterJoin`: a subscriber was sent every event since it joined, or a RESYNC_REQUIRED; while
  a running `Publish` empties its channel, that is still to come.
- `ExpiryPending`: a discoverable record has an expiry, no earlier than its own
  deadline, in the wheel, on its way there, or being handled.
- `DeregistrationSticks`: after a successful DELETE the lease is never
  discoverable again, not by a heartbeat that read before nor by a peer. Excepted is a DELETE
  that was dropped as a duplicate under an operation ID that heartbeats are given too (see below).
- `ClockLeads`: the clock is at or ahead of every record of the registry.
- `ChangesAreForwarded`: the state of the registry is always one that gossip was given.
- `AbandonedLeaseExpires`: in the end the instance is undiscoverable for good.
- `OwnEntryLeads`: no record of the running process, in a table or under way, has a higher
  incarnation than its own entry, and no ALIVE one is newer: accusations can be refuted.
- `OnlySelfClears`: a suspected or dead member is believed alive again only by a higher
  incarnation or another process, never by an old datagram or another's old belief, where the
  accusation is of the process started last and was signed by a clock that is not behind the
  member's by the suspicion time (`Close`).
- `RunningIsAlive`, `SilentIsDead`: beliefs end up true. The second is of every node that
  knows the subject, the first of its seeds.
- `SyncIsComplete`: a synchronisation that is recorded as successful has taken over all that the
  peer had when it served the first page, unless the peer restarted or something left its list meanwhile, and
  but for keys of which the node's own clock refused a mutation.
- `Converges`, `GossipSettles`, `EveryNodeGetsReady`: equal digests, no delta pending or under way,
  and readiness, for good, whatever was lost, restarted or failed before.
- `SummaryMatches`: the counters of instances, services and statuses that are kept by increments are those of the list.
- `NeverIdle`: a callback, a timer, a request or a socket always remains that will go on.
- `PollingConverges`, `Reconnects`: without sockets the console ends up with the registry, but for
  tombstones the node hides; with sockets it has one open again and again.

## Fairness and deadlock

The wheel's `FairSpec`: the clock advances, the ticker goroutine (`Run`) advances the
wheel and handlers return (each call of the handler only takes short
locks). The service's `FairSpec`: time passes (`Tick`), the wheel's goroutine handles
what is due (`Fire`; weak fairness is enough, since a due task stays due), and the Go
scheduler runs every goroutine that stands between two steps. Nothing is assumed of clients, peers or the
collector.

Membership's `LoopSpec`: time passes, failure detectors run on every tick, the listener ends what
it began, and what the subject sent before it stopped is received some day. `FairSpec` adds that
of the subject's pings and its seeds' answers not all are lost: strong fairness, because a ping
may be lost any number of times in between. It is assumed for `RunningIsAlive` only, which without it
is false of any protocol. Time does not go on while the last words of a subject that
stopped for good are under way; otherwise, time being bounded, they could arrive
when no failure detector runs any more.

Gossip's `FairSpec`: rounds, collections, introductions, wall clocks and datagrams that are not lost go on
(`Background`); a synchronisation ends, as its context's deadline of 10 seconds makes it (a
`SyncStep` is enabled as long as one lasts, and failures are bounded, so ending means
success in the end); and every peer a node knows is picked again and again: strong fairness, as the
pick is random and needs the other synchronisations to be over. Nothing is assumed of the
deltas: all of them may be lost.

Dashboard's `FairSpec`: events, answers and close events arrive, a socket opens or is
refused, timers fire. `SnapshotTick` and `ReconnectFires` are strongly fair: both find
a snapshot loading now and then, and the assumption is that a timer of 3 or 30 seconds does not meet
one every single time. So is `Open`: a socket that is connecting may be closed by the late error of the one it
replaced (`useDashboardData.ts:152`), and the assumption is that this does not happen to every one of them, as such
an error comes at once and a reconnect waits 800 ms at least. Without it TLC finds `Reconnects` violated.
Nothing is assumed of changes, restarts or the user.

`CHECK_DEADLOCK FALSE` stands where the bounded counters make the model stop: the wheel, the
service and the members when the clock is at its bound, the ring and the console when all events are
published, the nodes when the registries are equal. The other runs
check for deadlock (the clock's wall clock and repeated mutations keep them going).

## The proofs

The theorem modules extend the model modules; TLAPS checks them for all values
of the constants that satisfy the modules' named assumptions.

- `RegistryProofs`: `TypeCorrect`, `FencesAlwaysGuard`, `MergeIsJoin`,
  `TerminatedStaysTerminated`, `ExportAlwaysRebuilds`, `RegistryImplementsLattice`; and that versions and
  stamps are totally ordered: asymmetric, transitive, and total for stamps with different event IDs
  (`OutranksTransitive`, `OutranksTotal`).
- `HLCProofs`: `TypeCorrect`, `NowAlwaysNewer`, `ClockNeverRunsAway`.
- `TTLWheelProofs`: `TypeCorrect`, `PlacementIsExact`, `WheelImplementsTimers`.
- `EventRingProofs`: `TypeCorrect`, `PollsAreComplete`, `NoEventLostSilently`, `DrainsEndAnnounced`, `StreamsInOrder`.
- `ServiceProofs`: `TypeCorrect`, `ClockAlwaysLeads`, `EveryChangeIsForwarded`, `ExpiryIsAlwaysPending`,
  `DelayedOnlyWhenLate`, `DeregistrationsStick`.
- `MembershipProofs`: `TypeCorrect`, `OwnEntryAlwaysLeads`, `OnlyTheSubjectClears`; and that `compareMember` is a strict order.
- `GossipProofs`: `TypeCorrect`, `SynchronisationsAreComplete`, `RegistriesOnlyGrow`, `TerminatedStaysTerminated`. The
  last two are properties of several nodes that no run checks: a node forgets nothing, and a termination
  that has reached it stays, until it restarts.
- `DashboardProofs`: `TypeCorrect`, `CountersMatchTheList`, `ConsoleNeverIdle`.

### Assumptions

`NoneAssumption`, `NoMemberAssumption`, `AbsenceAssumption`: an absent value is no record, mutation or reply.
The others are named after their modules:

- Registry and Gossip: event IDs are minted once (16 random bytes in the code) and so are the epochs of a
  key's leases (a version drawn from the clock). Without the first, two different stamps could compare as
  equal and the winner would depend on the order.
- Gossip: there are finitely many keys, each in a shard; the order of a response's items has no ties; an eviction
  carries no remaining TTL, as none the code makes does (`service/operations.go`, `service.go`).
- HLC: the wall clock plus the skew fits the width, and peers' versions have passed validation.
- Service, TTLWheel, EventRing: the ranges of the constants. Dashboard: there are finitely many instances.
- Membership: node IDs differ, nobody is its own seed, clocks lead by natural numbers.

No theorem needs more. What the code does not ensure is in the properties, as their exceptions.

### Arguments

*Registry.* `TopIsJoin` is not inductive alone: that the state is at least every
stamp compared says nothing of a fence that is compared with a live entry. The
invariant is

    IInv == TypeOK /\ Provenance /\ FencesGuard /\ TopIsJoin

`FencesGuard` (an entry is at least its fence; a tombstone equals its fence) makes the entry, when there is
one, and otherwise the fence, the key's greatest stamp, so
that `GC` and `ApplyFence` drop nothing. `Provenance` (every stored stamp is that of a
mutation) brings in the assumption on event IDs, which totality needs. The proof
has one lemma per action; `MergeOutcome` and `FenceOutcome` carry the case analysis of
`Apply` and `ApplyFence`, and `OneKeyInv` reduces a step to the key it
touches. `NoResurrection` follows from the invariant without a further induction: the
greatest stamp is live, and an explicit termination outranks every live stamp of
its lease. So does `ExportRebuilds`: the exported record is taken by an empty node (`ImportedRecord`), and
its fence, which by `FencesGuard` is not above it, changes nothing, or is all there is.
The refinement maps a step to a raise of one key's stamp, or to a stutter.

*Clock.* `NextIsNewer` speaks of the next version only; inductive is
`NothingAhead`, that nothing seen is ahead of `last` (short of the last version).

*Wheel.* `IInv == TypeOK /\ PlacedExactly` is inductive. The arithmetic is in two lemmas: `DivMod`, what
division and remainder are, and `SlotAhead`, that the slot of a tick is met again after a full turn and
not before, so that an item whose slot comes up has used up its turns exactly at its tick. The refinement
follows step by step: `PlacedExactly` is what makes a task due for the wheel when it is due for the set of timers.

*Ring.* `Shape` has the log without a gap (`Contiguous`) and who is still to be served by the running `Publish`;
`SubOK` speaks of each subscriber in its phase, and of what it has received and what its channel holds as one
stream: ascending (`Ordered`), of events it was served (`UpTo`), and all of those since it joined, except of the
subscriber whose channel is being drained; one that was dropped has its RESYNC_REQUIRED (`Announced`).
`DrainsEndAnnounced` says of that one what `NoSilentLossAfterJoin` leaves open: the draining ends in a RESYNC_REQUIRED.

*Service.* One invariant per property, over `TypeOK`, which says what each goroutine carries at each `pc`.

- `ClockLeads` speaks of the stored record only, and a record is stored by a
  goroutine that drew or observed its version some steps before. `ClockInv` adds that everything on its way to
  the registry is behind the clock: drafts before they are stamped, what a goroutine carries, and the
  mutations handed to gossip, from which the leases of later requests are taken.
- `ChangesAreForwarded` is inductive with `TypeOK`: whoever stores a record still has the sink before it.
- `ExpiryPending` is inductive with `ClockInv` and with `WheelExpires`, that the wheel carries nothing but an
  expiry: the clock makes the version the wheel draws outrank the record it has checked.
- `DelayedIsLate`: timers carry the version of their record, so what could mark a renewed record too early is
  an older deadline of the same version. `FreshInv` says that a version that comes with a full lease is known
  to nobody else when it is applied; hence every other deadline of the record's version is either no earlier than the
  record's or already within the grace (`Covered`).
- `DeregistrationSticks`: `StickInv` adds that a fence of the lease is kept (`FenceKept`), that an operation ID
  that only deregistrations are given (`DeleteOps`) is in the window only when the lease has ended (`WindowEnds`), and what
  each goroutine still owes before it answers (`Owes`).

*Membership.* `OwnEntryLeads` speaks of records of the running process; a restart makes
a new one, so inductive it needs `Boots`: no record belongs to a process to come. `Traffic`
says that a ping or an ack of the subject carries an ALIVE record and goes to somebody
else, `Listening` that a listener between the two halves of `ObserveAlive` has an entry to
refresh. A step then does one of three things to what is known: it repeats it, with another last-seen
time or as an accusation of the same incarnation (`RepeatingKeeps`), which is what observers
and failure detectors do; the subject refutes, and its new incarnation is above the accusation's,
which was at least its own (`RefutingKeeps`); or the subject adopts a later ALIVE record, and
transitivity of the order does the rest (`AdoptingKeeps`).

`OnlySelfClears` rests on an invariant about pairs of records of the process started last, wherever they are
(`Ages`): an ALIVE record's version is at most what the subject's clock read when another record of the same
incarnation was last seen, and if that other is an accusation by a clock that is close, it was stamped a suspicion
time later and is newer (`Dated`). `Heard` keeps the second half of `ObserveAlive`, which writes a time taken
before, from going back. Repetitions change neither (`StandsFor`); refutations and starts bring a new incarnation or a
new process (`NewWordKeeps`). Records of former processes are not dated: a process that has adopted its predecessor's
record refutes in its name.

*Anti-entropy.* `SyncIsComplete` speaks of the last step of a synchronisation; what leads there is

    IInv == TypeOK /\ Provenance /\ SyncInv

`Provenance` is the registry's, per node: an entry is at least its fence, a tombstone equals it, and both come from
mutations that were made. `SyncInv` says, at any moment of a synchronisation and for every key, where what the peer
held at its first page is by now (`Covers`): in the requester's registry, in the page, listed beyond the cursor, or
refused by the requester's clock (`skipped`). It
needs that a shard with equal digests has nothing to bring, and keeps having nothing (the digests of
the requester are those of its start, and it has only grown since); that registries only grow, except at a restart
(`Grows`), so that an item served late brings no less than it would have at first; and that the place of an item in
a list that has kept its items only grows (`Places`), so that no item falls behind the cursor. The
steps of other nodes touch a synchronisation only by growth (`CoversGrow`); `ServedCovers` is the peer's answer,
`ConclusionCovers` the last step, where nothing is left ahead or in the page. `RegistriesOnlyGrow` is `Grows` of every
step (`NextGrows`), and `TerminatedStaysTerminated` follows, as a live stamp above a terminal one is of a newer
lease (`LiveAboveTerminal`).

*Console.* `NeverIdle` needs only the types of the hook's variables. The proof goes
through every callback and shows that what takes one way on away gives another.
`SummaryMatches` compares counters with the number of records shown, of each status and of each service, and with the
number of services that have one; what one event, a batch of events, or a snapshot
does to both is a lemma each (`CountedChanges`, `ReducedKeeps`, `BatchKeeps`).

The provers cannot instantiate an induction theorem with a formula of their user's. Where a proof is by induction over
data all the same (the events of a batch, those of the ring), it takes the least number for which a fixed statement
fails.

### Only model-checked

Liveness: `EveryTaskFires`, `AbandonedLeaseExpires`, `RunningIsAlive`, `SilentIsDead`, `Converges`,
`GossipSettles`, `EveryNodeGetsReady`, `PollingConverges`, `Reconnects` (no prover here handles fairness).
Every safety property of a run is a theorem, but the one that is violated.

## Where code and documentation part

One disagreement is listed as a finding, with a run whose counterexample shows it.
`ring_blocked`: the drain loop of `Publish` can wait for an event its consumer
took, holding the ring's lock (`events/ring.go:75`), against the comment at `events/ring.go:17`:
"Registry writes never wait for a WebSocket consumer."

The models do more that no property forbids, listed here so that nobody states the
opposite.

Registry and service:

- an operation ID that is used again under a new lease is dropped as a duplicate, since
  `Apply` looks it up before it compares epochs (`registry/apply.go:52`; the comment at `apply.go:70`
  reads otherwise);
- a live record taken over with no remaining TTL never expires (`registry/apply.go:163`); `service_expiry`
  assumes a positive one of peers;
- a heartbeat applied between the wheel's check and its clock reading is
  overruled by the TTL_EXPIRE (`service/service.go:139`);
- clients choose operation IDs (`api/handlers_services.go:53`, `:61`, `:74`), and a window of them is kept
  per instance, not per operation: a DELETE that repeats the ID of the last heartbeat is answered 204 as a
  duplicate, and the lease stays live;
- a heartbeat overtaken by a registration is answered 200 with the new lease
  (`service/operations.go:77`);
- two concurrent registrations with one registration ID mint two leases
  (`operations.go:31`);
- a registration whose epoch is behind a fence the clock did not observe is answered with an
  empty record and no error (`operations.go:53`).

Event ring:

- an event published between the two halves of `Subscribe` is lost without a
  RESYNC_REQUIRED (`events/ring.go:139`);
- cursor 0 is never refused as expired (`events/ring.go:127`);
- `Since` returns the newest sequence number beside a result that its limit has cut off
  (`events/ring.go:115`): who goes on from that number, and not from the last event, misses the rest. The
  console goes on from the last event (`useDashboardData.ts:45`).

Membership:

- an accusation that an observer signed with an HLC behind the subject's by the suspicion time or more is
  cleared by a late ALIVE record of the same incarnation, which outranks it. The code allows a skew of 30 s
  (`MaxClockSkew`) and suspects after 5 s. `membership_hearsay` has such an observer, and `OnlySelfClears` excepts
  its accusations (`Close`); without the exception TLC finds it violated;
- an observer that suspects with a clock behind the record's version lowers that version
  (`cluster/table.go:136`);
- a node may replace its own entry by an ALIVE record of the process before its
  restart (`cluster/table.go:58`); both are ALIVE, so nothing follows but a higher incarnation;
- a node refreshes the last-seen time of its own entry only when it refutes: one that
  learns of it from a members message after a long time may hold it DEAD until it is refuted.

Gossip:

- a tombstone that is collected at the peer between two pages moves the offset, a record is skipped,
  and the synchronisation counts as successful (`gossip/anti_entropy.go:94`); the next one repairs it;
- a peer that restarts between two pages answers the next request from what it has got back since, which
  may be an older record than the one it listed; the synchronisation counts as successful all the same.
  `SyncIsComplete` excludes both cases by name (`intact`);
- a mutation of a page whose version is further ahead of the wall clock than `MaxClockSkew` is refused,
  logged and left out, and the synchronisation counts as successful (`gossip/anti_entropy.go:153`), so a node may
  get ready without it (`skipped`). `Converges` shows that later synchronisations bring it, once the wall clock has
  caught up;
- the clock does not observe fences (`anti_entropy.go:158`), so a mutation a node makes may lose to a fence it holds.

Dashboard. With a socket open the picture need not converge before the next snapshot; hence no
property says so:

- DELAYED does not raise a record's version, and the reducer refuses an event of an equal one
  (`dashboard.ts:125`), so it never shows in realtime; the reducer's test feeds a newer
  version (`dashboard.test.ts:6`);
- a node that restarted numbers its events from 1 again; a cursor above them makes the
  reducer skip all of them;
- the snapshot reads the instances before the cursor (`handlers_dashboard.go:26`), so events in between are skipped;
- a snapshot overtaken by events puts the older picture back;
- a snapshot leaves out tombstones older than `EvictedDisplayTTL` (`service/operations.go:125`), which the
  reducer goes on showing until the next one;
- the error listener closes whichever socket is current (`useDashboardData.ts:152`), so the late error of
  a replaced socket closes a healthy one;
- a termination with a version below the heartbeat it overrules is not shown;
- `ApplyFence` deletes a record without an event (`registry/apply.go:207`);
- a retry while a reconnect timer runs leaves that timer, which then replaces a healthy
  socket; the replaced socket's close event arms the next one, and so on
  (`useDashboardData.ts:149`). This is why `Reconnects` says "again and again" and not "for good".

## What is not modelled

Rendering components of the dashboard, configuration, logging, metrics, JSON
encoding, signatures and sockets, sorting and paging of query results: no protocol
state, or pure I/O. The Go client has no state. Field validation (`model/*.go`
`Validate`) is assumed of every input. Of process wiring (`cmd/minieureka/main.go`) there is what a
process starts with and which goroutines it runs, not the order of shutting down.

Of modelled components:

- Gossip has no time: the remaining TTL of a delta that is sent again does not run, and wall clocks only
  catch up (`CatchUp`), they do not jump back. Receipts and traces, the
  map of unanswered pings, and the cursors that spread long digests and member lists over several rounds
  are left out; every round of the model carries the record that matters.
- Membership and Gossip lose and delay datagrams, but accept each at most once: that is the nonce
  cache's part (`gossip/wire.go`), which is not modelled.
- Peers of Service send live mutations with a positive remaining TTL: with none left a record has no
  deadline and no expiry, as the code has it (see above), and `AbandonedLeaseExpires` would not hold.
- The console's members, edges, list of events and connection banner, its clean-up on unmount, and
  snapshots of several pages are left out.
- The rate limiter (`api/middleware.go`) and the loops of the demo manager are not modelled; the
  demo manager's registrations and terminations are among the calls of Service.

## Plan

Done, in this order: Leases, RegistryMerge, Registry with its lattice, HLC, TTLWheel with TimerSet, EventRing,
Service, Membership, Gossip, Dashboard; proofs of all of them; the refusals of the clock in Gossip, and the
limits of polls.

Next:

1. **Proofs**: Service implementing LeaseLattice for one key, so that what Registry promises is shown of the registry
   inside it, as it is of Gossip's nodes.
2. **Limits**: the nonce cache at its capacity and the two clocks of its skew test (`gossip/wire.go`), the rate
   limiter's buckets (`api/middleware.go`), the demo manager's loops (`demo/manager.go`).
3. **Time between nodes**: the remaining TTL of deltas under several clocks.
