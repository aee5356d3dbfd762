----------------------------- MODULE Dashboard -----------------------------
(***************************************************************************)
(* The console's picture of one node's registry: the reducer of            *)
(* frontend-admin/src/state/dashboard.ts, the hook that feeds it with      *)
(* snapshots, polls and a WebSocket (hooks/useDashboardData.ts), and what  *)
(* the node serves (api/handlers_dashboard.go, the event ring).            *)
(*                                                                         *)
(* The registry is abstract: a record is a version and a status.  Every    *)
(* change is published after the registry's lock is released, so in any    *)
(* order.  Subscribing is one step here; EventRing has it in detail.       *)
(* A request is served when it is made; its answer takes its time.  A      *)
(* snapshot is one page.                                                   *)
(***************************************************************************)
EXTENDS Integers, SequencesExt, FiniteSetsExt

CONSTANTS None, Keys,
          ServiceOf,     \* ServiceOf[k]: the service that instance k is of
          Capacity,      \* events retained by the ring
          PollLimit,     \* events in an answer to a poll, at most
          MaxChanges,    \* bound on changes of the registry
          MaxTroubles,   \* bound on restarts, lost sockets, failed requests,
                         \* and on the user's retries and returns to the page
          MaxBatch       \* bound on events waiting for a flush

ASSUME DashboardAssumption ==
    /\ IsFiniteSet(Keys)
    /\ DOMAIN ServiceOf = Keys
    /\ Capacity \in Nat \ {0} /\ PollLimit \in Nat \ {0}
    /\ MaxChanges \in Nat /\ MaxTroubles \in Nat /\ MaxBatch \in Nat

VARIABLES records, latest, unpublished, stream,   \* the node
          picture, summary, eventCursor,          \* the reducer's state
          cursor, batch, polling, reconnect,      \* the hook's variables
          socket, wire, closing, snapshot,  \* its connections
          blocked, changes, troubles

node == <<records, latest, unpublished, stream>>
reducer == <<picture, summary, eventCursor>>
link == <<socket, wire, closing>>
bounds == <<blocked, changes, troubles>>
vars == <<node, reducer, cursor, batch, polling, reconnect, link, snapshot, bounds>>

Statuses == {"ACTIVE", "DELAYED", "EVICTED"}
Empty == [k \in Keys |-> None]

\* Does a record count as one that is shown, as one of a status?
Present(record) == IF record # None THEN 1 ELSE 0
One(record, s) == IF record # None /\ record.status = s THEN 1 ELSE 0

Listed(shown) == {k \in Keys : shown[k] # None}

\* The counters of instances that are shown (dashboardSummary), with the
\* reducer's serviceCounts beside its summary.
Counted(shown) ==
    [status |-> [s \in Statuses |-> Cardinality({k \in Listed(shown) : shown[k].status = s})],
     instances |-> Cardinality(Listed(shown)),
     services |-> Cardinality({ServiceOf[k] : k \in Listed(shown)}),
     perService |-> [v \in {ServiceOf[k] : k \in Keys} |->
                        Cardinality({k \in Listed(shown) : ServiceOf[k] = v})]]

Resync == [seq |-> 0, key |-> None, record |-> None]

NoSocket == [state |-> "none", from |-> 0]
NoSnapshot == [by |-> "none", instances |-> Empty, cursor |-> 0]

\* The page is opened while the node shows tombstones, so that a removal is
\* as near as a registration; its first bootstrap is a timer that is about to
\* fire.  blocked: no WebSocket gets through.
Init ==
    /\ records = [k \in Keys |-> [version |-> 1, status |-> "EVICTED"]] /\ latest = 1
    /\ unpublished = {} /\ stream = <<>>
    /\ picture = Empty /\ summary = Counted(Empty) /\ eventCursor = 0
    /\ cursor = 0 /\ batch = <<>> /\ polling = FALSE /\ reconnect = "bootstrap"
    /\ socket = NoSocket /\ wire = <<>> /\ closing = 0
    /\ snapshot = NoSnapshot
    /\ blocked \in BOOLEAN
    /\ changes = 0 /\ troubles = 0

-----------------------------------------------------------------------------
(* The node.                                                               *)

Changes(k, record, events) ==
    /\ changes < MaxChanges
    /\ changes' = changes + 1
    /\ records' = [records EXCEPT ![k] = record]
    /\ unpublished' = unpublished \union events
    /\ UNCHANGED <<stream, reducer, cursor, batch, polling, reconnect, link, snapshot,
                   blocked, troubles>>

Event(k, record) == [seq |-> 0, key |-> k, record |-> record]

\* A registration or a heartbeat.
Renew(k) ==
    LET record == [version |-> latest + 1, status |-> "ACTIVE"]
    IN  Changes(k, record, {Event(k, record)}) /\ latest' = latest + 1

\* An eviction; a termination may be stamped before the renewal it overrules.
Evict(k) ==
    /\ records[k] # None /\ records[k].status # "EVICTED"
    /\ \E version \in {records[k].version - 1, latest + 1} :
          LET record == [version |-> version, status |-> "EVICTED"]
          IN  /\ Changes(k, record, {Event(k, record)})
              /\ latest' = IF version > latest THEN version ELSE latest

\* MarkDelayed creates no version.
Delay(k) ==
    /\ records[k] # None /\ records[k].status = "ACTIVE"
    /\ LET record == [records[k] EXCEPT !.status = "DELAYED"]
       IN  Changes(k, record, {Event(k, record)})
    /\ UNCHANGED latest

\* Collection announces what it removes, a fence from a peer does not.
Vanish(k) ==
    /\ records[k] # None
    /\ \/ records[k].status = "EVICTED" /\ Changes(k, None, {Event(k, None)})
       \/ Changes(k, None, {})
    /\ UNCHANGED latest

\* connect: the close event of the socket before is still to come.
Connect(from) ==
    /\ closing' = IF socket = NoSocket THEN closing ELSE closing + 1
    /\ socket' = [state |-> "connecting", from |-> from]
    /\ wire' = <<>>

Disconnect ==
    /\ closing' = closing + 1
    /\ socket' = NoSocket
    /\ wire' = <<>>

Oldest == IF Len(stream) > Capacity THEN Len(stream) - Capacity + 1 ELSE 1

\* Ring.Since and Subscribe: the cursor is before what the ring retains.
Expired(from) == from > 0 /\ from < Oldest - 1

\* stream holds every event since the node started; the ring its end.
Since(from) == SubSeq(stream, IF from < Oldest THEN Oldest ELSE from + 1, Len(stream))

\* What is shown of a registry without the tombstones that are hidden.
Without(hidden) == [k \in Keys |-> IF k \in hidden THEN None ELSE records[k]]

Tombstones == {k \in Keys : records[k] # None /\ records[k].status = "EVICTED"}

\* A request for a snapshot, of which only the instances have been read:
\* DashboardInstances hides tombstones that are older than EvictedDisplayTTL.
Load(by) ==
    \E hidden \in SUBSET Tombstones :
        snapshot' = [by |-> by, instances |-> Without(hidden), cursor |-> None]

Publish(e) ==
    LET event == [e EXCEPT !.seq = Len(stream) + 1]
    IN  /\ unpublished' = unpublished \ {e}
        /\ stream' = Append(stream, event)
        /\ wire' = IF socket.state = "open" /\ wire # <<Resync>> THEN Append(wire, event) ELSE wire
        /\ UNCHANGED <<records, latest, reducer, cursor, batch, polling, reconnect, socket, closing,
                       snapshot, bounds>>

\* The node starts again without its records, unless peers return them; a
\* snapshot it is serving is lost first.
Restart ==
    /\ troubles < MaxTroubles
    /\ snapshot # NoSnapshot => snapshot.cursor # None
    /\ troubles' = troubles + 1
    /\ records' = Empty /\ unpublished' = {} /\ stream' = <<>>
    /\ IF socket.state = "open" THEN Disconnect ELSE UNCHANGED link
    /\ UNCHANGED <<latest, reducer, cursor, batch, polling, reconnect, snapshot,
                   blocked, changes>>

-----------------------------------------------------------------------------
(* The reducer.                                                            *)

\* A service whose count is down to zero is deleted from the counts.
Adjusted(counts, v, old, record) ==
    LET more == Present(record) - Present(old)
        perService == [counts.perService EXCEPT ![v] = IF @ + more > 0 THEN @ + more ELSE 0]
    IN  [status |-> [s \in Statuses |-> counts.status[s] + One(record, s) - One(old, s)],
         instances |-> counts.instances + more,
         services |-> IF more = 0 THEN counts.services
                      ELSE Cardinality({w \in DOMAIN perService : perService[w] > 0}),
         perService |-> perService]

Shown(state, k, record) ==
    [state EXCEPT !.picture[k] = record,
                  !.summary = Adjusted(@, ServiceOf[k], state.picture[k], record)]

\* Faulty variant: a removal leaves the counts alone.
ReducedUncounted(state, e) ==
    LET old == state.picture[e.key]
        next == [state EXCEPT !.cursor = e.seq]
    IN  CASE e.seq <= state.cursor -> state
          [] e.seq > state.cursor /\ e.record = None -> [next EXCEPT !.picture[e.key] = None]
          [] e.seq > state.cursor /\ e.record # None ->
                IF old = None \/ old.version < e.record.version THEN Shown(next, e.key, e.record) ELSE next

\* One event: only a later one counts, and only a newer version is shown.
Reduced(state, e) ==
    LET old == state.picture[e.key]
        next == [state EXCEPT !.cursor = e.seq]
    IN  CASE e.seq <= state.cursor -> state
          [] e.seq > state.cursor /\ e.record = None -> Shown(next, e.key, None)
          [] e.seq > state.cursor /\ e.record # None ->
                IF old = None \/ old.version < e.record.version THEN Shown(next, e.key, e.record) ELSE next

\* The numbers of a batch of events.
Seqs(events) == {e.seq : e \in ToSet(events)}

\* The sort is stable, and of two events with one number the second comes to
\* a cursor that is not before it any more.
Numbered(events, n) == events[Min({i \in DOMAIN events : events[i].seq = n})]

\* EVENTS, in the order of their numbers: upTo[n] is the state when all up to
\* number n are reduced.
ReduceEvents(events) ==
    LET upTo[n \in 0..Max(Seqs(events))] ==
            IF n = 0
            THEN [picture |-> picture, summary |-> summary, cursor |-> eventCursor]
            ELSE IF n \in Seqs(events) THEN Reduced(upTo[n - 1], Numbered(events, n))
            ELSE upTo[n - 1]
        after == upTo[Max(Seqs(events))]
    IN  picture' = after.picture /\ summary' = after.summary /\ eventCursor' = after.cursor

\* Faulty variant: what the snapshot does not list stays.
ReduceSnapshotMerged(instances, at) ==
    /\ picture' = [k \in Keys |-> IF instances[k] = None THEN picture[k] ELSE instances[k]]
    /\ summary' = Counted(picture')
    /\ eventCursor' = at

\* SNAPSHOT replaces everything; the node has counted the same instances.
ReduceSnapshot(instances, at) ==
    picture' = instances /\ summary' = Counted(instances) /\ eventCursor' = at

-----------------------------------------------------------------------------
(* The hook: requests and timers.                                          *)

\* startPolling
StartPolling == polling' = TRUE

\* bootstrap(false): if a snapshot is loading, poll and try again later.
Bootstrap(timer) ==
    IF snapshot = NoSnapshot
    THEN /\ Load("bootstrap")
         /\ reconnect' = timer
         /\ UNCHANGED polling
    ELSE /\ StartPolling
         /\ reconnect' = "bootstrap"
         /\ UNCHANGED snapshot

\* syncSnapshot(false): while one is loading another is not begun.
Refresh == IF snapshot = NoSnapshot THEN Load("refresh") ELSE UNCHANGED snapshot

\* dashboardSnapshot reads the cursor of the ring after the instances.
ServeCursor ==
    /\ snapshot # NoSnapshot /\ snapshot.cursor = None
    /\ snapshot' = [snapshot EXCEPT !.cursor = Len(stream)]
    /\ UNCHANGED <<node, reducer, cursor, batch, polling, reconnect, link, bounds>>

\* Events that wait for a flush stay; a bootstrap goes on to connect.
SnapshotArrives ==
    /\ snapshot # NoSnapshot /\ snapshot.cursor # None
    /\ snapshot' = NoSnapshot
    /\ cursor' = snapshot.cursor
    /\ ReduceSnapshot(snapshot.instances, snapshot.cursor)
    /\ IF snapshot.by = "bootstrap" THEN Connect(snapshot.cursor) ELSE UNCHANGED link
    /\ UNCHANGED <<node, batch, polling, reconnect, bounds>>

\* Faulty variant: a failed snapshot is not tried again.
SnapshotFailsForGood ==
    /\ snapshot # NoSnapshot /\ troubles < MaxTroubles
    /\ snapshot' = NoSnapshot
    /\ troubles' = troubles + 1
    /\ UNCHANGED <<node, reducer, cursor, batch, polling, reconnect, link, blocked, changes>>

SnapshotFails ==
    /\ snapshot # NoSnapshot /\ troubles < MaxTroubles
    /\ snapshot' = NoSnapshot
    /\ troubles' = troubles + 1
    /\ IF snapshot.by = "bootstrap"
       THEN StartPolling /\ reconnect' = "bootstrap"
       ELSE UNCHANGED <<polling, reconnect>>
    /\ UNCHANGED <<node, reducer, cursor, batch, link, blocked, changes>>

\* What a poll is answered: the oldest of the later events.
Answer == SubSeq(Since(cursor), 1, Min({PollLimit, Len(Since(cursor))}))

\* The timers of polling: pollOnce, and now and then a snapshot.  The answer
\* to a poll takes its time among the events that wait for a flush; a poll
\* that fails changes nothing.
PollTick ==
    /\ polling
    /\ IF Expired(cursor)
       THEN Refresh /\ UNCHANGED batch
       ELSE /\ Len(batch \o Answer) <= MaxBatch
            /\ batch' = batch \o Answer
            /\ UNCHANGED snapshot
    /\ UNCHANGED <<node, reducer, cursor, polling, reconnect, link, bounds>>

SnapshotTick ==
    /\ polling /\ snapshot = NoSnapshot
    /\ Refresh
    /\ UNCHANGED <<node, reducer, cursor, batch, polling, reconnect, link, bounds>>

\* Faulty variant: the last event sets the cursor.
FlushToLast ==
    /\ batch # <<>>
    /\ batch' = <<>>
    /\ cursor' = batch[Len(batch)].seq
    /\ ReduceEvents(batch)
    /\ UNCHANGED <<node, polling, reconnect, link, snapshot, bounds>>

\* flushEvents
Flush ==
    /\ batch # <<>>
    /\ batch' = <<>>
    /\ cursor' = Max({cursor} \union Seqs(batch))
    /\ ReduceEvents(batch)
    /\ UNCHANGED <<node, polling, reconnect, link, snapshot, bounds>>

ReconnectFires ==
    /\ \/ /\ reconnect = "connect"
          /\ reconnect' = "none"
          /\ Connect(cursor)
          /\ UNCHANGED <<polling, snapshot>>
       \/ reconnect = "bootstrap" /\ Bootstrap("none") /\ UNCHANGED link
    /\ UNCHANGED <<node, reducer, cursor, batch, bounds>>

\* The user retries, or comes back to the page.
Gesture ==
    /\ troubles < MaxTroubles
    /\ troubles' = troubles + 1
    /\ \/ Bootstrap(reconnect)
       \/ Refresh /\ UNCHANGED <<polling, reconnect>>
    /\ UNCHANGED <<node, reducer, cursor, batch, link, blocked, changes>>

-----------------------------------------------------------------------------
(* The hook: the socket.                                                   *)

\* Faulty variant: the connection is not tried again.
OnCloseForGood == StartPolling /\ UNCHANGED reconnect

\* The close event of the present socket, or of one that was replaced.
OnClose == StartPolling /\ reconnect' = "connect"

Open ==
    /\ socket.state = "connecting" /\ ~blocked
    /\ socket' = [state |-> "open", from |-> 0]
    /\ wire' = IF Expired(socket.from) THEN <<Resync>> ELSE Since(socket.from)
    /\ polling' = FALSE
    /\ UNCHANGED <<node, reducer, cursor, batch, reconnect, closing, snapshot, bounds>>

\* The connection is refused, or lost.
Lost ==
    /\ socket # NoSocket
    /\ \/ blocked /\ UNCHANGED troubles
       \/ troubles < MaxTroubles /\ troubles' = troubles + 1
    /\ socket' = NoSocket /\ wire' = <<>>
    /\ OnClose
    /\ UNCHANGED <<node, reducer, cursor, batch, closing, snapshot, blocked, changes>>

\* A socket that was replaced closes; if it failed, its error event comes
\* first, and the listener closes the socket there is now.
Closed ==
    /\ closing > 0
    /\ \/ closing' = closing - 1 /\ UNCHANGED <<socket, wire>>
       \/ /\ socket # NoSocket
          /\ socket' = NoSocket /\ wire' = <<>>
          /\ UNCHANGED closing
    /\ OnClose
    /\ UNCHANGED <<node, reducer, cursor, batch, snapshot, bounds>>

Receive ==
    /\ wire # <<>>
    /\ IF Head(wire) = Resync
       THEN Disconnect /\ Refresh /\ UNCHANGED batch
       ELSE /\ Len(batch) < MaxBatch
            /\ batch' = Append(batch, Head(wire))
            /\ wire' = Tail(wire)
            /\ UNCHANGED <<socket, closing, snapshot>>
    /\ UNCHANGED <<node, reducer, cursor, polling, reconnect, bounds>>

-----------------------------------------------------------------------------
Change == \E k \in Keys : Renew(k) \/ Evict(k) \/ Delay(k) \/ Vanish(k)

SnapshotStep == ServeCursor \/ SnapshotArrives
EventStep == Receive \/ Flush \/ \E e \in unpublished : Publish(e)

Next ==
    \/ Change \/ Restart \/ Gesture
    \/ SnapshotStep \/ SnapshotFails \/ EventStep
    \/ Open \/ Lost \/ Closed
    \/ PollTick \/ SnapshotTick \/ ReconnectFires

Spec == Init /\ [][Next]_vars

\* Events and answers arrive, a socket opens or is refused, timers fire.  The
\* tick every 30 seconds and the timer every 3, which both start a snapshot
\* only when none is loading, do not find one loading for ever.  The late error
\* of a replaced socket does not meet every new one while it is connecting: it
\* comes at once, the timer of a reconnect takes 800 ms at least.
FairSpec ==
    /\ Spec
    /\ WF_vars(SnapshotStep) /\ WF_vars(EventStep)
    /\ WF_vars(Open \/ Lost) /\ WF_vars(Closed) /\ SF_vars(Open)
    /\ SF_vars(SnapshotTick) /\ SF_vars(ReconnectFires)

-----------------------------------------------------------------------------
(* Properties.                                                             *)

TypeOK ==
    /\ unpublished \subseteq {Event(k, r) : k \in Keys, r \in [version : 0..latest, status : Statuses] \union {None}}
    /\ \A i \in DOMAIN stream : stream[i].seq = i
    /\ \A k \in Keys : picture[k] # None => picture[k].version <= latest
    /\ eventCursor = cursor
    /\ wire # <<>> => socket.state = "open"
    /\ reconnect \in {"none", "connect", "bootstrap"}

\* The counters in the console's header, of instances, of services and of each
\* status, are those of the instances it shows.
SummaryMatches == summary = Counted(picture)

\* The hook always has a way on: it is loading its first snapshot, connecting,
\* connected, polling, or has a close event or a timer to come.
NeverIdle ==
    \/ snapshot.by = "bootstrap"
    \/ socket # NoSocket \/ closing > 0 \/ polling \/ reconnect # "none"

\* Behind a proxy that lets no WebSocket through, once the registry is at rest
\* the console ends up showing it, whatever was missed or overtaken before; a
\* snapshot may hide old tombstones.
PollingConverges ==
    blocked => <>[](\E hidden \in SUBSET Tombstones : picture = Without(hidden))

\* Unless sockets are blocked the console has one open again and again.
Reconnects == ~blocked => []<>(socket.state = "open")
=============================================================================
