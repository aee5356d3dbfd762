------------------------------- MODULE Gossip -------------------------------
(***************************************************************************)
(* How the registries of several nodes become equal: deltas that the       *)
(* gossip loop pushes for a few rounds over a lossy network                *)
(* (internal/gossip/engine.go), and anti-entropy, in which a node pulls    *)
(* from a peer, page by page, what their shards' digests differ in         *)
(* (anti_entropy.go).  A node with seeds is ready after its first complete *)
(* synchronisation.  A restart loses everything.                           *)
(*                                                                         *)
(* Each registry is RegistryMerge, per node and key.  Time is left out: a  *)
(* tombstone is collected at any moment, and remaining TTLs do not run.    *)
(***************************************************************************)
EXTENDS RegistryMerge, FiniteSets

CONSTANTS Nodes, Keys,
          LeaseIDs,
          Order,          \* Order[kind][k]: place of k in a list of that kind
          Shards,         \* partition of Keys
          Mutations,      \* what clients and wheels make the nodes do
          Ahead,          \* Ahead[n]: mutations n's wall clock is too far behind for
          Seeds,          \* Seeds[n]: the seed nodes n is configured with
          PendingRounds, PageSize,
          MaxInFlight,    \* bound on deltas under way
          MaxSyncs,       \* bound on synchronisations under way
          Faulty,         \* nodes that may restart and whose requests may fail
          MaxFailures     \* bound on those restarts and failed requests

ItemKinds == {"mutation", "fence"}

\* Operation IDs are left out, and evictions carry no remaining TTL.
Mutation ==
    [key : Keys, stamp : Stamp, lease : LeaseIDs, op : {NoOp}, at : Nat, remaining : Nat]

\* An event ID names one mutation and a lease epoch one lease of its key, as in
\* Registry.
ASSUME GossipAssumption ==
    /\ IsFiniteSet(Keys)
    /\ Shards \subseteq SUBSET Keys /\ \A k \in Keys : \E s \in Shards : k \in s
    /\ Order \in [ItemKinds -> [Keys -> Nat]]
    /\ \A kind \in ItemKinds, j, k \in Keys : Order[kind][j] = Order[kind][k] => j = k
    /\ Seeds \in [Nodes -> SUBSET Nodes]
    /\ Faulty \subseteq Nodes
    /\ PendingRounds \in Nat \ {0} /\ PageSize \in Nat \ {0}
    /\ MaxInFlight \in Nat /\ MaxSyncs \in Nat /\ MaxFailures \in Nat
    /\ Mutations \subseteq Mutation
    /\ Ahead \in [Nodes -> SUBSET Mutations]
    /\ \A m \in Mutations :
          /\ m.stamp.version.origin \in Nodes
          /\ m.stamp.kind \in EvictingKinds => m.remaining = 0
    /\ \A m, n \in Mutations :
          /\ m.stamp.eventID = n.stamp.eventID => m = n
          /\ m.key = n.key /\ m.stamp.epoch = n.stamp.epoch => m.lease = n.lease

VARIABLES entries, fences, \* the registries, per node and key
          pending,         \* pending[n][m]: rounds left for m at n, 0 if none
          known,           \* known[n]: peers in n's membership table
          ready,
          sync,            \* sync[n]: n's synchronisation with a peer, or None
          net,             \* deltas under way
          made,            \* mutations made so far
          ahead,           \* ahead[n]: those of Ahead[n] n's clock still refuses
          clock,           \* clock[n]: the version n's clock was last moved to
          failures

vars == <<entries, fences, pending, known, ready, sync, net, made, ahead, clock, failures>>
registries == <<entries, fences>>
clocks == <<ahead, clock>>

Top(n, k) == TopOf(entries[n][k], fences[n][k])
Tops(n) == [k \in Keys |-> Top(n, k)]

\* What the digests of n's shards are made of, key by key.
Digests(n) == [k \in Keys |-> Digest(entries[n][k], fences[n][k])]

Nothing == [k \in Keys |-> None]
Silence == [m \in Mutations |-> 0]

Init ==
    /\ entries = [n \in Nodes |-> Nothing]
    /\ fences = [n \in Nodes |-> Nothing]
    /\ pending = [n \in Nodes |-> Silence]
    /\ known = [n \in Nodes |-> {}]
    /\ ready = [n \in Nodes |-> Seeds[n] = {}]
    /\ sync = [n \in Nodes |-> None]
    /\ net = {}
    /\ made = {}
    /\ ahead = Ahead
    /\ clock = [n \in Nodes |-> None]
    /\ failures = 0

-----------------------------------------------------------------------------
(* The registry of node n and its mutation sink.                           *)

Applies(n, m) == Outcome(entries[n][m.key], fences[n][m.key], m) = "APPLIED"

\* Faulty variant: what is already known is passed on again.
EnqueueAlways(n, m) == pending' = [pending EXCEPT ![n][m] = PendingRounds]

\* Enqueue: only what was applied is relayed; a repeated event starts anew.
Enqueue(n, m) ==
    pending' = IF Applies(n, m)
               THEN [pending EXCEPT ![n][m] = PendingRounds] ELSE pending

\* service.apply with its mutation sink.
Apply(n, m) ==
    LET e == entries[n][m.key]
        f == fences[n][m.key]
    IN  /\ entries' = [entries EXCEPT ![n][m.key] = EntryAfter(e, f, m, 0)]
        /\ fences' = [fences EXCEPT ![n][m.key] = FenceAfter(e, f, m)]
        /\ Enqueue(n, m)

\* The wall clock of n is more than MaxFutureSkew behind the version of m.
Refuses(n, m) == m \in ahead[n]

\* ApplyRemote: the clock observes the version first and may refuse it; then
\* nothing happens.
ApplyRemote(n, m) ==
    IF Refuses(n, m) THEN UNCHANGED <<registries, pending, clock>>
    ELSE /\ Apply(n, m)
         /\ clock' = [clock EXCEPT ![n] =
                         IF @ = None \/ VersionLess(@, m.stamp.version)
                         THEN m.stamp.version ELSE @]

\* Wall clocks run on: the oldest refused version is accepted from now on.
CatchUp(n) ==
    /\ \E m \in ahead[n] :
          /\ \A o \in ahead[n] : ~VersionLess(o.stamp.version, m.stamp.version)
          /\ ahead' = [ahead EXCEPT ![n] = @ \ {m}]
    /\ UNCHANGED <<registries, pending, known, ready, sync, net, made, clock, failures>>

\* ApplyFence: a fence does not pass the clock.
ApplyFence(n, k, f) ==
    IF FenceWins(f, entries[n][k])
    THEN /\ entries' = [entries EXCEPT ![n][k] = None]
         /\ fences' = [fences EXCEPT ![n][k] = IF FenceReplaces(f, @) THEN f ELSE @]
    ELSE UNCHANGED registries

\* A client or the wheel: only the node that stamps a mutation makes it, with
\* a version newer than its clock has seen since it started and no further
\* ahead than its wall clock accepts, on a lease it holds.
Make(m) ==
    LET n == m.stamp.version.origin
        e == entries[n][m.key]
    IN  /\ m \notin made /\ ~Refuses(n, m)
        /\ clock[n] # None => VersionLess(clock[n], m.stamp.version)
        /\ clock' = [clock EXCEPT ![n] = m.stamp.version]
        /\ m.stamp.kind # "REGISTER" =>
              e # None /\ e.lease = m.lease /\ ~ExplicitlyTerminal(e.stamp.kind)
        /\ made' = made \union {m}
        /\ Apply(n, m)
        /\ UNCHANGED <<known, ready, sync, net, ahead, failures>>

Collect(n, k) ==
    /\ entries[n][k] # None
    /\ entries[n][k].status = "EVICTED"
    /\ entries' = [entries EXCEPT ![n][k] = None]
    /\ UNCHANGED <<fences, pending, known, ready, sync, net, made, clocks, failures>>

\* What n's peers have got of it so far they may not get the rest of.
WithoutPeer(s, n) ==
    IF s # None /\ s.peer = n THEN [s EXCEPT !.intact = FALSE] ELSE s

\* The process is replaced by a new one; datagrams under way reach that.
Restart(n) ==
    /\ n \in Faulty /\ failures < MaxFailures
    /\ failures' = failures + 1
    /\ entries' = [entries EXCEPT ![n] = Nothing]
    /\ fences' = [fences EXCEPT ![n] = Nothing]
    /\ pending' = [pending EXCEPT ![n] = Silence]
    /\ known' = [known EXCEPT ![n] = {}]
    /\ ready' = [ready EXCEPT ![n] = Seeds[n] = {}]
    /\ sync' = [i \in Nodes |-> IF i = n THEN None ELSE WithoutPeer(sync[i], n)]
    /\ clock' = [clock EXCEPT ![n] = None]
    /\ UNCHANGED <<net, made, ahead>>

-----------------------------------------------------------------------------
(* Deltas.                                                                 *)

\* Peers that are alive, and seeds.
Targets(n) == (known[n] \union Seeds[n]) \ {n}

Pending(n) == {m \in Mutations : pending[n][m] > 0}

\* Some of the datagrams arrive, the others are lost.
Push(n) ==
    \E arriving \in SUBSET [to : Targets(n), mutation : Pending(n)] :
        /\ Cardinality(net \union arriving) <= MaxInFlight
        /\ net' = net \union arriving

\* Faulty variant: a mutation that has used up its rounds is not deleted.
RoundWithoutEnd(n) ==
    /\ Pending(n) # {}
    /\ pending' = [pending EXCEPT ![n] = [m \in Mutations |-> @[m] - 1]]
    /\ Push(n)
    /\ UNCHANGED <<registries, known, ready, sync, made, clocks, failures>>

\* gossipRound: every pending mutation is sent and loses a round, whether or
\* not any of its datagrams arrives.
Round(n) ==
    /\ Pending(n) # {}
    /\ pending' = [pending EXCEPT ![n] =
                      [m \in Mutations |-> IF m \in Pending(n) THEN @[m] - 1 ELSE 0]]
    /\ Push(n)
    /\ UNCHANGED <<registries, known, ready, sync, made, clocks, failures>>

\* handleDelta logs what ApplyRemote refuses.
HandleDelta(d) ==
    /\ net' = net \ {d}
    /\ ApplyRemote(d.to, d.mutation)
    /\ UNCHANGED <<known, ready, sync, made, ahead, failures>>

\* A ping, an ack or a members message tells n of m.
Meet(n, m) ==
    /\ m \notin known[n] \union {n}
    /\ known' = [known EXCEPT ![n] = @ \union {m}]
    /\ UNCHANGED <<registries, pending, ready, sync, net, made, clocks, failures>>

-----------------------------------------------------------------------------
(* Anti-entropy, SyncPeer at n against AntiEntropyHandler at the peer:     *)
(* digests, n's at the start; page, the items of the last response still   *)
(* to be imported; cursor, that of the next request, None after the last   *)
(* page.  History: had, what the peer held when it served the first page;  *)
(* listed, what it had to send at the last page; intact, that it has not   *)
(* restarted and that nothing has left what it has to send since; skipped, *)
(* the keys of the mutations that n's clock refused.                       *)

\* The keys of the shards whose digest at m is not the requester's.
Differing(m, digests) ==
    UNION {s \in Shards : \E k \in s : digests[k] # Digests(m)[k]}

Item == [kind : ItemKinds, key : Keys]

\* Faulty variant: the response leaves out fences.
ItemsNoFences(m, digests) ==
    {i \in Item : /\ i.key \in Differing(m, digests)
                  /\ i.kind = "mutation" /\ entries[m][i.key] # None}

\* buildAntiEntropyResponse: the records and the fences of the shards whose
\* digests differ.
Items(m, digests) ==
    {i \in Item : /\ i.key \in Differing(m, digests)
                  /\ IF i.kind = "mutation" THEN entries[m][i.key] # None
                                            ELSE fences[m][i.key] # None}

\* The order of a response: the records first, shard by shard (MutationsForShard
\* sorts one shard), then the fences of all shards, sorted by key.
NotAfter(i, j) ==
    \/ i.kind = "mutation" /\ j.kind = "fence"
    \/ i.kind = j.kind /\ Order[i.kind][i.key] <= Order[j.kind][j.key]

\* The place of i in the list of these items, counted from 1.
Place(items, i) == Cardinality({j \in items : NotAfter(j, i)})

Content(m, i) ==
    IF i.kind = "mutation" THEN Export(i.key, entries[m][i.key], 0) ELSE fences[m][i.key]

\* triggerSync: on a differing digest, while not ready, on sync_required, and
\* with a random peer every anti-entropy interval: at any time.
StartSync(n, m) ==
    /\ m \in known[n]
    /\ sync[n] = None
    /\ Cardinality({i \in Nodes : sync[i] # None}) < MaxSyncs
    /\ sync' = [sync EXCEPT ![n] =
          [peer |-> m, digests |-> Digests(n), page |-> {}, cursor |-> 0,
           had |-> Nothing, listed |-> {}, intact |-> TRUE, skipped |-> {}]]
    /\ UNCHANGED <<registries, pending, known, ready, net, made, clocks, failures>>

Requesting(n) == sync[n] # None /\ sync[n].page = {} /\ sync[n].cursor # None

\* The peer's answer, when the request carries these digests.
Served(n, digests) ==
    LET s == sync[n]
        items == Items(s.peer, digests)
        asked == Items(s.peer, s.digests)
        end == s.cursor + PageSize
        more == end < Cardinality(items)
        served == {i \in items : Place(items, i) \in (s.cursor + 1)..end}
    IN  [s EXCEPT !.page = {[kind |-> i.kind, key |-> i.key, content |-> Content(s.peer, i)] :
                               i \in served},
                  !.cursor = IF more THEN end ELSE None,
                  !.had = IF s.cursor = 0 THEN Tops(s.peer) ELSE @,
                  !.listed = IF more THEN asked ELSE {},
                  !.intact = @ /\ s.listed \subseteq asked]

\* Faulty variant: a peer that is not ready itself refuses.
ServeWhenReady(n) ==
    /\ Requesting(n)
    /\ n \in known[sync[n].peer]
    /\ sync' = [sync EXCEPT ![n] = IF ready[@.peer] THEN Served(n, @.digests) ELSE None]
    /\ UNCHANGED <<registries, pending, known, ready, net, made, clocks, failures>>

\* Faulty variant: the summary is made anew for every page.
ServeAnew(n) ==
    /\ Requesting(n)
    /\ n \in known[sync[n].peer]
    /\ sync' = [sync EXCEPT ![n] = Served(n, Digests(n))]
    /\ UNCHANGED <<registries, pending, known, ready, net, made, clocks, failures>>

\* The peer answers a request of a node it knows; it keeps nothing from one
\* page to the next.
Serve(n) ==
    /\ Requesting(n)
    /\ n \in known[sync[n].peer]
    /\ sync' = [sync EXCEPT ![n] = Served(n, @.digests)]
    /\ UNCHANGED <<registries, pending, known, ready, net, made, clocks, failures>>

\* The peer refuses a node it does not know.
Refuse(n) ==
    /\ Requesting(n)
    /\ n \notin known[sync[n].peer]
    /\ sync' = [sync EXCEPT ![n] = None]
    /\ UNCHANGED <<registries, pending, known, ready, net, made, clocks, failures>>

\* A request or a response is lost, or times out.
Fail(n) ==
    /\ Requesting(n)
    /\ n \in Faulty /\ failures < MaxFailures
    /\ failures' = failures + 1
    /\ sync' = [sync EXCEPT ![n] = None]
    /\ UNCHANGED <<registries, pending, known, ready, net, made, clocks>>

Done(s) == s.page = {} /\ s.cursor = None

\* recordSyncResult
Succeed(n) ==
    /\ sync' = [sync EXCEPT ![n] = None]
    /\ ready' = [ready EXCEPT ![n] = TRUE]

\* A mutation of the page that ApplyRemote refuses is logged and left out.
LeftOut(n, item) == item.kind = "mutation" /\ Refuses(n, item.content)

\* The next item of the page.  A mutation goes through ApplyRemote and is
\* relayed, a fence is not.  The synchronisation goes on, and succeeds, also
\* when something was left out.
Import(n) ==
    /\ sync[n] # None
    /\ \E item \in sync[n].page :
          LET rest == [sync[n] EXCEPT !.page = @ \ {item},
                                      !.skipped = IF LeftOut(n, item)
                                                  THEN @ \union {item.key} ELSE @]
          IN  /\ \A other \in sync[n].page : NotAfter(item, other)
              /\ IF Done(rest) THEN Succeed(n)
                 ELSE sync' = [sync EXCEPT ![n] = rest] /\ UNCHANGED ready
              /\ IF item.kind = "mutation"
                 THEN ApplyRemote(n, item.content)
                 ELSE ApplyFence(n, item.key, item.content) /\ UNCHANGED <<pending, clock>>
    /\ UNCHANGED <<known, net, made, ahead, failures>>

\* The response had nothing to import.
Finish(n) ==
    /\ sync[n] # None /\ Done(sync[n])
    /\ Succeed(n)
    /\ UNCHANGED <<registries, pending, known, net, made, clocks, failures>>

-----------------------------------------------------------------------------
\* Gossip loop, janitor, datagrams and wall clocks: what comes to rest by itself.
Background ==
    \/ \E n \in Nodes :
          \/ \E k \in Keys : Collect(n, k)
          \/ \E m \in Nodes : Meet(n, m)
          \/ Round(n) \/ CatchUp(n)
    \/ \E d \in net : HandleDelta(d)

SyncStep(n) == Serve(n) \/ Refuse(n) \/ Import(n) \/ Finish(n)

Next ==
    \/ Background
    \/ \E m \in Mutations : Make(m)
    \/ \E n \in Nodes :
          \/ SyncStep(n) \/ Restart(n) \/ Fail(n)
          \/ \E m \in Nodes : StartSync(n, m)

Spec == Init /\ [][Next]_vars

\* Tickers keep firing, and a datagram that is not lost arrives.  A
\* synchronisation comes to an end (its context has a deadline; SyncStep is
\* enabled as long as it lasts), and the random choice of a peer leaves no peer
\* out for ever.
FairSpec ==
    /\ Spec
    /\ WF_vars(Background)
    /\ \A n \in Nodes : []<>(sync[n] = None)
    /\ \A n \in Nodes : \A m \in Nodes \ {n} : SF_vars(StartSync(n, m))

-----------------------------------------------------------------------------
(* Properties.                                                             *)

\* An entry is what a mutation leaves in an empty registry.
Entries == {NewEntry(None, m, 0) : m \in Mutations}

DigestValues == [stamp : Stamp, state : {"LIVE", "EVICTED", "FENCE"}]

Synchronisation ==
    [peer : Nodes,
     digests : [Keys -> DigestValues \union {None}],
     page : SUBSET [kind : ItemKinds, key : Keys, content : Mutation \union Stamp],
     cursor : Nat \union {None}, had : [Keys -> Stamp \union {None}],
     listed : SUBSET Item, intact : BOOLEAN, skipped : SUBSET Keys]

ASSUME AbsenceAssumption ==
    /\ None \notin Entries /\ None \notin DigestValues /\ None \notin Synchronisation
    /\ None \notin Nat /\ None \notin Version

\* A node relays only mutations that were made and that it has room for; a
\* synchronisation is with another node the requester knows, and its page
\* holds nothing but mutations and the stamps of evictions.
TypeOK ==
    /\ entries \in [Nodes -> [Keys -> Entries \union {None}]]
    /\ fences \in [Nodes -> [Keys -> Stamp \union {None}]]
    /\ pending \in [Nodes -> [Mutations -> 0..PendingRounds]]
    /\ \A n \in Nodes, m \in Mutations : pending[n][m] > 0 => m \in made
    /\ known \in [Nodes -> SUBSET Nodes] /\ \A n \in Nodes : n \notin known[n]
    /\ ready \in [Nodes -> BOOLEAN] /\ made \subseteq Mutations /\ failures \in 0..MaxFailures
    /\ ahead \in [Nodes -> SUBSET Mutations] /\ clock \in [Nodes -> Version \union {None}]
    /\ net \subseteq [to : Nodes, mutation : made]
    /\ sync \in [Nodes -> Synchronisation \union {None}]
    /\ \A n \in Nodes : sync[n] # None =>
          /\ sync[n].peer \in known[n]
          /\ sync[n].cursor # None => sync[n].cursor % PageSize = 0
          /\ \A i \in sync[n].page :
                IF i.kind = "mutation" THEN i.content \in made /\ i.content.key = i.key
                ELSE \E m \in made : /\ m.stamp = i.content /\ m.key = i.key
                                     /\ m.stamp.kind \in EvictingKinds

\* Convergence: whatever deltas are lost and whichever nodes restart, once
\* clients stop the nodes come to hold the same shard digests for good
\* (engine.go hasDigestMismatch stops asking for synchronisation).
Converges == <>[](\A n, m \in Nodes : Digests(n) = Digests(m))

\* Gossip dies down: a mutation is not passed around for ever.
GossipSettles == <>[](net = {} /\ \A n \in Nodes : pending[n] = Silence)

\* No node waits for ever to be ready, although every node that has seeds may
\* start at once and none is ready before it has synchronised.
EveryNodeGetsReady == <>[](\A n \in Nodes : ready[n])

\* A synchronisation that succeeds has taken over everything the peer held
\* when it served the first page, but for the keys of mutations the node's own
\* clock refused (service.go:95, anti_entropy.go:153: logged, and the next
\* synchronisation brings them again), as long as the peer did not restart and
\* nothing left its list in between: offsets into a list that is made anew for
\* every page (anti_entropy.go:94) skip a record when a collected one goes
\* before it, and a peer that has restarted may send an older record.
Concludes(n) == Finish(n) \/ (Import(n) /\ sync'[n] = None)

Skipped(n) == sync[n].skipped \union {i.key : i \in {j \in sync[n].page : LeftOut(n, j)}}

Covered(n) ==
    \A k \in Keys \ Skipped(n) :
        AtLeast(TopOf(entries'[n][k], fences'[n][k]), sync[n].had[k])

SyncIsComplete ==
    [][\A n \in Nodes : Concludes(n) /\ sync[n].intact => Covered(n)]_vars
=============================================================================
