------------------------------- MODULE Service -------------------------------
(***************************************************************************)
(* The lease service of one node (internal/service) around the registry,   *)
(* the clock, the timing wheel and the event ring, for one instance.  An   *)
(* HTTP request reads the registry, draws a version from the clock,        *)
(* applies a mutation, and then publishes it, schedules timers and hands   *)
(* it to gossip.  No lock is held from one of these steps to the next, and *)
(* they interleave with those of other requests, of the wheel's goroutine, *)
(* of the maintenance goroutine and of the one that takes from peers.      *)
(*                                                                         *)
(* The registry is RegistryMerge; the wheel is the set of TimerSet; of the *)
(* clock only the order of the versions it draws is kept (HLC).            *)
(***************************************************************************)
EXTENDS RegistryMerge, FiniteSets

CONSTANTS Threads,           \* requests in progress at one time
          Peers,             \* goroutines that apply what peers send
          Registrations,     \* registration IDs clients use
          Demo,              \* those of demo instances
          HeartbeatOps, DeregisterOps,
          LeaseTTL, DelayedAfter, Retention,
          PeerRemaining,     \* remaining TTLs peers send with live mutations
          PeerKinds,         \* kinds of mutation peers send
          PeerSkew,          \* how far peers' clocks are from this one
          MaxCalls, MaxPeer, \* bounds on requests and on peers' mutations
          LastCall, MaxNow   \* bounds on time

ASSUME ServiceAssumption ==
    /\ Demo \subseteq Registrations
    /\ NoOp \notin HeartbeatOps \union DeregisterOps
    /\ LeaseTTL \in Nat \ {0} /\ DelayedAfter \in 1..LeaseTTL
    /\ Window \in Nat \ {0} /\ Retention \in Nat /\ PeerRemaining \subseteq Nat
    /\ PeerSkew \in Nat /\ PeerKinds \subseteq Kinds /\ MaxCalls \in Nat /\ MaxPeer \in Nat
    /\ LastCall \in Nat /\ MaxNow \in Nat
    /\ {"wheel", "maintenance"} \intersect (Threads \union Peers) = {}
    /\ Threads \intersect Peers = {}

VARIABLES now, hlc, entry, fence, timers,
          procs,     \* the goroutines: step, mutation, result, last answer
          published, \* history: events published
          outbox,    \* history: mutations handed to gossip
          received,  \* history: versions taken from peers
          calls      \* requests made so far

vars == <<now, hlc, entry, fence, timers, procs, published, outbox, received, calls>>
registry == <<entry, fence>>
history == <<published, outbox, received, calls>>

Goroutines == Threads \union Peers \union {"wheel", "maintenance"}

\* Versions of this node and of its peers, which stand for one larger node.
Local(n) == [physical |-> n, logical |-> 0, origin |-> 1]
Remote(n) == [physical |-> n, logical |-> 0, origin |-> 2]
EventOf(version) == 2 * version.physical + version.origin

Later(a, b) == IF a < b THEN b ELSE a

\* A lease is minted with its epoch and keeps its registration ID.
Lease(epoch, reg) == [epoch |-> epoch, reg |-> reg]
\* Whatever was stored can be read from the registry, from the moment it was
\* applied on, by clients and by peers.
Stored == outbox \union
    {procs[p].m : p \in {q \in Goroutines : procs[q].pc = "followup"}}
KnownLeases == {m.lease : m \in Stored}
Registered(lease) == entry # None /\ entry.lease = lease

Mutation(kind, lease, version, op, at, remaining) ==
    [stamp |-> [epoch |-> lease.epoch, version |-> version, kind |-> kind,
                eventID |-> EventOf(version)],
     lease |-> lease, op |-> op, at |-> at, remaining |-> remaining]

Idle == [pc |-> "idle", m |-> None, record |-> None, answer |-> None]

\* What a client is told: of its request, its lease and its operation ID, the
\* outcome.
Answer(kind, lease, op, outcome) ==
    [kind |-> kind, lease |-> lease, op |-> op, outcome |-> outcome]

Answers(p, answer) == procs' = [procs EXCEPT ![p] = [Idle EXCEPT !.answer = answer]]
Drafts(p, m) == procs' = [procs EXCEPT ![p] = [Idle EXCEPT !.pc = "stamp", !.m = m]]

-----------------------------------------------------------------------------
Init ==
    /\ now = 0
    /\ hlc = 0
    /\ entry = None
    /\ fence = None
    /\ timers = {}
    /\ procs = [p \in Goroutines |-> Idle]
    /\ published = {}
    /\ outbox = {}
    /\ received = {}
    /\ calls = 0

\* Past LastCall nothing new starts, and time waits for what has started.
Tick ==
    /\ now < MaxNow
    /\ now < LastCall \/ \A p \in Threads \union Peers : procs[p].pc = "idle"
    /\ now' = now + 1
    /\ UNCHANGED <<hlc, registry, timers, procs, history>>

-----------------------------------------------------------------------------
(* First step of a request: it reads the record and checks it.  A request  *)
(* that fails its checks (not found, stale lease, not a demo instance) is  *)
(* refused and changes nothing: no step.                                   *)

Call(p) ==
    /\ p \in Threads
    /\ procs[p].pc = "idle"
    /\ calls < MaxCalls
    /\ now <= LastCall
    /\ calls' = calls + 1
    /\ UNCHANGED <<now, hlc, registry, timers, published, outbox, received>>

Register(p, reg) ==
    /\ Call(p)
    /\ IF entry # None /\ entry.lease.reg = reg
       THEN Answers(p, Answer("REGISTER", entry.lease, NoOp, "DUPLICATE"))
       ELSE Drafts(p, Mutation("REGISTER", Lease(Local(0), reg), Local(0), NoOp, now, LeaseTTL))

Heartbeat(p, lease, op) ==
    /\ Call(p)
    /\ Registered(lease)
    /\ ~ExplicitlyTerminal(entry.stamp.kind)
    /\ Drafts(p, Mutation("HEARTBEAT", lease, Local(0), op, now, LeaseTTL))

\* DELETE, and simulate-offline of a demo instance.
Deregister(p, lease, kind, op) ==
    /\ Call(p)
    /\ kind \in TerminalKinds
    /\ Registered(lease)
    /\ kind = "DEMO_OFFLINE" => lease.reg \in Demo
    /\ Drafts(p, Mutation(kind, lease, Local(0), op, now, 0))

-----------------------------------------------------------------------------
(* The steps every mutation goes through.                                  *)

\* clock.Now(): the version, and for a registration its epoch and lease ID.
Draw(p) ==
    LET m == procs[p].m
        version == Local(hlc + 1)
        lease == IF m.stamp.kind = "REGISTER" THEN Lease(version, m.lease.reg) ELSE m.lease
    IN  /\ procs[p].pc = "stamp"
        /\ hlc' = hlc + 1
        /\ procs' = [procs EXCEPT
              ![p].pc = "apply",
              ![p].m = Mutation(m.stamp.kind, lease, version, m.op, m.at, m.remaining)]
        /\ UNCHANGED <<now, registry, timers, history>>

\* Faulty variant: what was replaced is passed on.
ApplyPassesPrevious(p) ==
    LET m == procs[p].m
    IN  /\ procs[p].pc = "apply"
        /\ entry' = EntryAfter(entry, fence, m, now)
        /\ fence' = FenceAfter(entry, fence, m)
        /\ IF Outcome(entry, fence, m) = "APPLIED"
           THEN procs' = [procs EXCEPT ![p].pc = "followup", ![p].record = entry]
           ELSE Answers(p, None)
        /\ UNCHANGED <<now, hlc, timers, history>>

\* registry.Apply.  A stale or repeated mutation ends here, and a request is
\* answered with the record found, which a fence leaves empty.
Apply(p) ==
    LET m == procs[p].m
        outcome == Outcome(entry, fence, m)
    IN  /\ procs[p].pc = "apply"
        /\ entry' = EntryAfter(entry, fence, m, now)
        /\ fence' = FenceAfter(entry, fence, m)
        /\ IF outcome = "APPLIED"
           THEN procs' = [procs EXCEPT ![p].pc = "followup", ![p].record = entry']
           ELSE Answers(p, IF p \in Threads
                           THEN Answer(m.stamp.kind, m.lease, m.op, outcome) ELSE None)
        /\ UNCHANGED <<now, hlc, timers, history>>

EventType(kind) ==
    CASE kind = "REGISTER"       -> "INSTANCE_REGISTERED"
      [] kind = "HEARTBEAT"      -> "INSTANCE_HEARTBEAT"
      [] kind \in EvictingKinds -> "INSTANCE_EVICTED"

\* Faulty variant: both tasks have the earlier deadline.
TimersForDelay(r) ==
    IF ~Discoverable(r) \/ r.deadline = 0 THEN {}
    ELSE [kind : {"MARK_DELAYED", "EXPIRE_LEASE"}, lease : {r.lease},
          version : {r.stamp.version}, deadline : {r.deadline - (LeaseTTL - DelayedAfter)}]

TimersFor(r) ==
    IF ~Discoverable(r) \/ r.deadline = 0 THEN {}
    ELSE {[kind |-> "MARK_DELAYED", lease |-> r.lease, version |-> r.stamp.version,
           deadline |-> r.deadline - (LeaseTTL - DelayedAfter)],
          [kind |-> "EXPIRE_LEASE", lease |-> r.lease, version |-> r.stamp.version,
           deadline |-> r.deadline]}

\* Faulty variant: timers and gossip only for clients' mutations.
FollowUpRequests(p) ==
    LET m == procs[p].m
    IN  /\ procs[p].pc = "followup"
        /\ published' = published \union {[type |-> EventType(m.stamp.kind), stamp |-> m.stamp]}
        /\ timers' = IF p \in Threads THEN timers \union TimersFor(procs[p].record) ELSE timers
        /\ outbox' = IF p \in Threads THEN outbox \union {m} ELSE outbox
        /\ Answers(p, IF p \in Threads
                      THEN Answer(m.stamp.kind, m.lease, m.op, "APPLIED")
                      ELSE None)
        /\ UNCHANGED <<now, hlc, registry, received, calls>>

\* publishMutation, schedule, the mutation sink and the return to the caller,
\* in this order: the event log, the wheel and the gossip queue have no state
\* in common, so only the order of two goroutines' steps shows.
FollowUp(p) ==
    LET m == procs[p].m
    IN  /\ procs[p].pc = "followup"
        /\ published' = published \union {[type |-> EventType(m.stamp.kind), stamp |-> m.stamp]}
        /\ timers' = timers \union TimersFor(procs[p].record)
        /\ outbox' = outbox \union {m}
        /\ Answers(p, IF p \in Threads
                      THEN Answer(m.stamp.kind, m.lease, m.op, "APPLIED")
                      ELSE None)
        /\ UNCHANGED <<now, hlc, registry, received, calls>>

-----------------------------------------------------------------------------
(* The wheel's and the maintenance goroutine.                              *)

\* A record whose change is still to be published, outside the lock.
Announces(p, type, stamp) ==
    procs' = [procs EXCEPT ![p].pc = "announce", ![p].record = [type |-> type, stamp |-> stamp]]

\* Faulty variant: the task's version is not compared.
MarkDelayedAny(task) ==
    /\ task \in timers /\ task.kind = "MARK_DELAYED" /\ task.deadline <= now
    /\ procs["wheel"].pc = "idle"
    /\ timers' = timers \ {task}
    /\ IF Registered(task.lease) /\ entry.status = "ACTIVE"
       THEN /\ entry' = [entry EXCEPT !.status = "DELAYED", !.at = now]
            /\ Announces("wheel", "INSTANCE_DELAYED", entry.stamp)
       ELSE UNCHANGED <<entry, procs>>
    /\ UNCHANGED <<now, hlc, fence, history>>

MarkDelayed(task) ==
    /\ task \in timers /\ task.kind = "MARK_DELAYED" /\ task.deadline <= now
    /\ procs["wheel"].pc = "idle"
    /\ timers' = timers \ {task}
    /\ IF /\ Registered(task.lease)
          /\ entry.stamp.version = task.version
          /\ entry.status = "ACTIVE"
       THEN /\ entry' = [entry EXCEPT !.status = "DELAYED", !.at = now]
            /\ Announces("wheel", "INSTANCE_DELAYED", entry.stamp)
       ELSE UNCHANGED <<entry, procs>>
    /\ UNCHANGED <<now, hlc, fence, history>>

\* The wheel only reads here; its TTL_EXPIRE is drawn and applied later.
ExpireLease(task) ==
    /\ task \in timers /\ task.kind = "EXPIRE_LEASE" /\ task.deadline <= now
    /\ procs["wheel"].pc = "idle"
    /\ timers' = timers \ {task}
    /\ IF /\ Registered(task.lease)
          /\ entry.stamp.version = task.version
          /\ Discoverable(entry)
          /\ entry.deadline <= now
       THEN Drafts("wheel", Mutation("TTL_EXPIRE", task.lease, Local(0), NoOp, now, 0))
       ELSE UNCHANGED procs
    /\ UNCHANGED <<now, hlc, registry, history>>

Collect ==
    /\ procs["maintenance"].pc = "idle"
    /\ entry # None
    /\ entry.status = "EVICTED"
    /\ now - entry.at >= Retention
    /\ entry' = None
    /\ Announces("maintenance", "INSTANCE_REMOVED", entry.stamp)
    /\ UNCHANGED <<now, hlc, fence, timers, history>>

Announce(p) ==
    /\ procs[p].pc = "announce"
    /\ published' = published \union {procs[p].record}
    /\ procs' = [procs EXCEPT ![p] = Idle]
    /\ UNCHANGED <<now, hlc, registry, timers, outbox, received, calls>>

-----------------------------------------------------------------------------
(* What peers send: registrations of their own, mutations and fences of    *)
(* leases they heard of, and re-exports of this node's mutations.          *)

FreshFromPeer(version) ==
    /\ now <= LastCall
    /\ Cardinality(received) < MaxPeer
    /\ version \notin received
    /\ received' = received \union {version}

\* Leases of which a peer may make a mutation of this kind and version: a
\* registration mints its lease, anything else follows the lease's epoch.
PeerLeases(kind, version) ==
    IF kind = "REGISTER" THEN {Lease(version, reg) : reg \in Registrations}
    ELSE {lease \in KnownLeases : VersionLess(lease.epoch, version)}

\* Faulty variant: the clock does not observe the version.
ApplyUnobserved(p, kind, lease, version, remaining) ==
    /\ procs[p].pc = "idle"
    /\ FreshFromPeer(version)
    /\ lease \in PeerLeases(kind, version)
    /\ procs' = [procs EXCEPT ![p] = [Idle EXCEPT !.pc = "apply",
           !.m = Mutation(kind, lease, version, NoOp, now, remaining)]]
    /\ UNCHANGED <<now, hlc, registry, timers, published, outbox, calls>>

\* ApplyRemote: the clock observes the version before the registry sees it.
ApplyRemote(p, kind, lease, version, remaining) ==
    /\ procs[p].pc = "idle"
    /\ FreshFromPeer(version)
    /\ lease \in PeerLeases(kind, version)
    /\ hlc' = Later(hlc, version.physical) + 1
    /\ procs' = [procs EXCEPT ![p] = [Idle EXCEPT !.pc = "apply",
           !.m = Mutation(kind, lease, version, NoOp, now, remaining)]]
    /\ UNCHANGED <<now, registry, timers, published, outbox, calls>>

\* Anti-entropy brings a mutation of this node back, from a peer that has
\* marked it DELAYED since: a later update time and what remains of its TTL.
ApplyEcho(p, m) ==
    /\ procs[p].pc = "idle"
    /\ FreshFromPeer(m.stamp.version)
    /\ m \in Stored /\ m.stamp.kind \in LiveKinds
    /\ hlc' = Later(hlc, m.stamp.version.physical) + 1
    /\ procs' = [procs EXCEPT ![p] = [Idle EXCEPT !.pc = "apply",
           !.m = [m EXCEPT !.op = NoOp, !.at = m.at + DelayedAfter,
                           !.remaining = LeaseTTL - DelayedAfter]]]
    /\ UNCHANGED <<now, registry, timers, published, outbox, calls>>

\* ApplyFence goes to the registry alone: no clock, event, timer or relay.
\* The fence may be of a lease this node never heard of.
ApplyFence(kind, lease, version) ==
    LET f == Mutation(kind, lease, version, NoOp, now, 0).stamp
    IN  /\ FreshFromPeer(version)
        /\ IF FenceWins(f, entry)
           THEN entry' = None /\ fence' = IF FenceReplaces(f, fence) THEN f ELSE fence
           ELSE UNCHANGED registry
        /\ UNCHANGED <<now, hlc, timers, procs, published, outbox, calls>>

-----------------------------------------------------------------------------
PeerClock == {n \in 1..(hlc + PeerSkew) : n >= hlc - PeerSkew}

PeerMutates ==
    \E p \in Peers, n \in PeerClock, kind \in PeerKinds, remaining \in PeerRemaining :
        \E lease \in PeerLeases(kind, Remote(n)) :
            ApplyRemote(p, kind, lease, Remote(n), IF kind \in LiveKinds THEN remaining ELSE 0)

PeerFences ==
    \E n \in PeerClock, kind \in PeerKinds \intersect EvictingKinds, reg \in Registrations :
        \E lease \in PeerLeases(kind, Remote(n)) \union {Lease(Remote(n - 1), reg)} :
            ApplyFence(kind, lease, Remote(n))

Requests(p) ==
    \/ \E reg \in Registrations : Register(p, reg)
    \/ \E lease \in KnownLeases :
          \/ \E op \in HeartbeatOps : Heartbeat(p, lease, op)
          \/ \E op \in DeregisterOps, kind \in TerminalKinds : Deregister(p, lease, kind, op)

Steps(p) == Draw(p) \/ Apply(p) \/ FollowUp(p) \/ Announce(p)

Fire == \E task \in timers : MarkDelayed(task) \/ ExpireLease(task)

Next ==
    \/ Tick
    \/ Fire
    \/ Collect
    \/ PeerMutates
    \/ \E p \in Peers, m \in Stored : ApplyEcho(p, m)
    \/ PeerFences
    \/ \E p \in Threads : Requests(p)
    \/ \E p \in Goroutines : Steps(p)

Spec == Init /\ [][Next]_vars

\* The scheduler runs every goroutine, time passes and the wheel's goroutine
\* handles what is due.  Clients, peers and collections owe nothing.
FairSpec ==
    /\ Spec
    /\ WF_vars(Tick)
    /\ WF_vars(Fire)
    /\ \A p \in Goroutines : WF_vars(Steps(p))

-----------------------------------------------------------------------------
(* The values the variables hold.                                          *)

Op == HeartbeatOps \union DeregisterOps \union {NoOp}
LeaseID == [epoch : Version, reg : Registrations]

\* The operations build and prepareIncoming stores records that carry the
\* epoch of their lease.
Mutations ==
    {m \in [stamp : Stamp, lease : LeaseID, op : Op, at : Nat, remaining : Nat] :
        m.lease.epoch = m.stamp.epoch}

Entries ==
    {e \in [stamp : Stamp, lease : LeaseID, status : {"ACTIVE", "DELAYED", "EVICTED"},
            at : Nat, deadline : Nat, ops : Seq([op : Op, event : Nat])] :
        /\ e.lease.epoch = e.stamp.epoch
        /\ Len(e.ops) <= Window
        /\ e.status = "EVICTED" <=> e.stamp.kind \in EvictingKinds}

Tasks == [kind : {"MARK_DELAYED", "EXPIRE_LEASE"}, lease : LeaseID,
          version : Version, deadline : Int]

EventTypes == {EventType(kind) : kind \in Kinds} \union {"INSTANCE_DELAYED", "INSTANCE_REMOVED"}
Events == [type : EventTypes, stamp : Stamp]

Replies == [kind : Kinds, lease : LeaseID, op : Op, outcome : {"APPLIED", "DUPLICATE", "STALE"}]

ASSUME AbsenceAssumption ==
    None \notin Mutations \union Entries \union Events \union Replies

\* What a goroutine holds at each of its steps.
Goroutine ==
    {q \in [pc : {"idle", "stamp", "apply", "followup", "announce"},
            m : Mutations \union {None},
            record : Entries \union Events \union {None},
            answer : Replies \union {None}] :
        /\ q.pc \in {"stamp", "apply", "followup"} => q.m # None
        /\ q.pc = "followup" => q.record \in Entries /\ q.record.stamp = q.m.stamp
        /\ q.pc = "announce" => q.record \in Events}

\* The shapes the steps rely on: what a goroutine carries fits its step.
TypeOK ==
    /\ now \in 0..MaxNow /\ hlc \in Nat
    /\ entry \in Entries \union {None}
    /\ fence \in Stamp \union {None}
    /\ timers \subseteq Tasks
    /\ procs \in [Goroutines -> Goroutine]
    /\ \A p \in Goroutines : procs[p].answer # None => p \in Threads
    /\ published \subseteq Events
    /\ outbox \subseteq Mutations
    /\ received \subseteq Version
    /\ calls \in 0..MaxCalls

\* Timers are scheduled after the registry's lock is released and name one
\* version.  Still, whichever goroutines renewed the lease and in whatever
\* order they got to the wheel, the record that is discoverable now has an
\* expiry at or after its own deadline pending or being handled.
ExpiryPending ==
    Discoverable(entry) /\ entry.deadline # 0 =>
        \/ \E t \in timers :
              /\ t.kind = "EXPIRE_LEASE" /\ t.lease = entry.lease
              /\ t.version = entry.stamp.version /\ t.deadline >= entry.deadline
        \/ \E p \in Goroutines :
              /\ procs[p].pc = "followup"
              /\ procs[p].record.stamp = entry.stamp /\ procs[p].record.lease = entry.lease
              /\ procs[p].record.deadline >= entry.deadline
        \/ /\ procs["wheel"].m # None
           /\ procs["wheel"].m.lease = entry.lease
           /\ \/ procs["wheel"].pc = "stamp"
              \/ procs["wheel"].pc = "apply" /\ Outranks(procs["wheel"].m.stamp, entry.stamp)

\* A version drawn from the clock is newer than the record in the registry,
\* local or remote, and its epoch newer than the record's: a registration
\* that draws after a record was stored can never lose to that record.
ClockLeads ==
    entry # None => /\ entry.stamp.version.physical <= hlc
                    /\ entry.stamp.epoch.physical <= hlc

\* A client whose DELETE was answered never sees its lease come back: not by
\* a heartbeat that had read the record before, not by one still in flight
\* when the tombstone is collected, not from a peer.  This does not hold of a
\* DELETE that is dropped as a repeated operation where clients give
\* heartbeats its operation ID too; it is answered 204 all the same.
DeregistrationSticks ==
    \A p \in Threads :
        LET a == procs[p].answer
        IN  a # None /\ a.kind \in TerminalKinds /\
            (a.outcome = "DUPLICATE" => a.op \notin HeartbeatOps)
                => ~(Discoverable(entry) /\ entry.lease = a.lease)

\* README "15 seconds delayed": an instance is shown as DELAYED only when
\* DelayedAfter has passed since the renewal that set its deadline, although
\* its MARK_DELAYED task may be from an earlier deadline.
DelayedIsLate ==
    entry # None /\ entry.status = "DELAYED" /\ entry.deadline # 0 =>
        now >= entry.deadline - (LeaseTTL - DelayedAfter)

\* Whatever a mutation put into the registry, local or from a peer, is handed
\* to gossip, or the goroutine that stored it is about to.
ChangesAreForwarded ==
    entry # None =>
        \/ \E m \in outbox : m.stamp = entry.stamp /\ m.lease = entry.lease
        \/ \E p \in Goroutines :
              /\ procs[p].pc = "followup"
              /\ procs[p].m.stamp = entry.stamp /\ procs[p].m.lease = entry.lease

\* README "30 seconds evicted": once clients and peers fall silent, the
\* instance leaves discovery and stays out.
AbandonedLeaseExpires == <>[](~Discoverable(entry))
=============================================================================
