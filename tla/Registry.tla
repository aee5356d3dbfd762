------------------------------ MODULE Registry ------------------------------
(***************************************************************************)
(* The sharded in-memory registry of one node (internal/registry).  Every  *)
(* operation runs under the lock of one shard, so each is one action.      *)
(***************************************************************************)
EXTENDS RegistryMerge, FiniteSets

CONSTANTS Keys,       \* service/instance pairs
          Shards,     \* partition of Keys
          LeaseIDs,   \* lease IDs
          Operations, \* client operation IDs
          Mutations,  \* the mutations clients and peers may deliver
          Retention,  \* tombstone retention
          MaxNow      \* bound on the clock

VARIABLES now, entries, fences,
          merged      \* history: the stamps compared with the state of a key

vars == <<now, entries, fences, merged>>

Mutation ==
    [key : Keys, stamp : Stamp, lease : LeaseIDs, op : Operations \union {NoOp},
     at : Nat, remaining : Nat]

Remembered == [op : Operations, event : Nat]

Entry ==
    [stamp : Stamp, lease : LeaseIDs, status : {"ACTIVE", "DELAYED", "EVICTED"},
     at : Nat, deadline : Nat, ops : Seq(Remembered)]

\* An event ID names one mutation and a lease epoch one lease of its key:
\* both are minted once, from random bytes and from a clock reading.
ASSUME RegistryAssumption ==
    /\ None \notin Entry
    /\ NoOp \notin Operations
    /\ Mutations \subseteq Mutation
    /\ Shards \subseteq SUBSET Keys
    /\ Window \in Nat \ {0}
    /\ Retention \in Nat
    /\ MaxNow \in Nat
    /\ \A m, n \in Mutations :
          /\ m.stamp.eventID = n.stamp.eventID => m.stamp = n.stamp
          /\ m.key = n.key /\ m.stamp.epoch = n.stamp.epoch => m.lease = n.lease

-----------------------------------------------------------------------------
Init ==
    /\ now = 0
    /\ entries = [k \in Keys |-> None]
    /\ fences = [k \in Keys |-> None]
    /\ merged = [k \in Keys |-> {}]

Tick ==
    /\ now < MaxNow
    /\ now' = now + 1
    /\ UNCHANGED <<entries, fences, merged>>

Apply(m) ==
    LET k == m.key
        e == entries[k]
        f == fences[k]
    IN  /\ entries' = [entries EXCEPT ![k] = EntryAfter(e, f, m, now)]
        /\ fences' = [fences EXCEPT ![k] = FenceAfter(e, f, m)]
        /\ merged' = IF e # None /\ Seen(e.ops, m.op) THEN merged
                     ELSE [merged EXCEPT ![k] = @ \union {m.stamp}]
        /\ UNCHANGED now

\* ApplyFence deletes a dominated entry before it compares the fences.
ApplyFence(k, f) ==
    /\ merged' = [merged EXCEPT ![k] = @ \union {f}]
    /\ IF FenceWins(f, entries[k])
       THEN /\ entries' = [entries EXCEPT ![k] = None]
            /\ fences' = [fences EXCEPT ![k] = IF FenceReplaces(f, @) THEN f ELSE @]
       ELSE UNCHANGED <<entries, fences>>
    /\ UNCHANGED now

MarkDelayed(k, lease, version) ==
    /\ entries[k] # None
    /\ entries[k].lease = lease
    /\ entries[k].stamp.version = version
    /\ entries[k].status = "ACTIVE"
    /\ entries' = [entries EXCEPT ![k].status = "DELAYED", ![k].at = now]
    /\ UNCHANGED <<now, fences, merged>>

\* Faulty variant: any old record is collected.
CollectableLive(k) == entries[k] # None /\ now - entries[k].at >= Retention

Collectable(k) ==
    /\ entries[k] # None
    /\ entries[k].status = "EVICTED"
    /\ now - entries[k].at >= Retention

GC(shard) ==
    /\ \E k \in shard : Collectable(k)
    /\ entries' = [k \in Keys |-> IF k \in shard /\ Collectable(k)
                                  THEN None ELSE entries[k]]
    /\ UNCHANGED <<now, fences, merged>>

Next ==
    \/ Tick
    \/ \E m \in Mutations :
          \/ Apply(m)
          \/ m.stamp.kind \in EvictingKinds /\ ApplyFence(m.key, m.stamp)
          \/ MarkDelayed(m.key, m.lease, m.stamp.version)
    \/ \E shard \in Shards : GC(shard)

Spec == Init /\ [][Next]_vars

-----------------------------------------------------------------------------
Top(k) == TopOf(entries[k], fences[k])

\* Every entry and fence is a legal value, and the operation window of an
\* entry never outgrows defaultOperationWindow.
TypeOK ==
    /\ now \in Nat
    /\ entries \in [Keys -> Entry \union {None}]
    /\ fences \in [Keys -> Stamp \union {None}]
    /\ merged \in [Keys -> SUBSET Stamp]
    /\ \A k \in Keys : entries[k] # None => Len(entries[k].ops) <= Window

\* A retained entry is at least its fence, so ApplyFence never deletes an
\* entry and then refuses the fence; a tombstone equals its fence, so GC and
\* ApplyFence can drop the record without forgetting anything.
Guarded(e, f) ==
    e # None => /\ AtLeast(e.stamp, f)
                /\ e.status = "EVICTED" => f = e.stamp

FencesGuard == \A k \in Keys : Guarded(entries[k], fences[k])

\* Whatever the order in which mutations and fences of all leases arrive,
\* with repetitions, collections and DELAYED marks in between, the key holds
\* the greatest stamp it was ever compared with (compareIncoming, the fence
\* comparators, GC).  A mutation with an operation ID that the entry has seen
\* is not compared (apply.go:52).
TopIsJoin ==
    \A k \in Keys :
        /\ \A s \in merged[k] : AtLeast(Top(k), s)
        /\ IF merged[k] = {} THEN Top(k) = None ELSE Top(k) \in merged[k]

\* README section 4: the compact fence keeps an old lease from coming back.
\* Once a key was compared with an explicit termination of a lease, no instance
\* of that lease or of an older one is discoverable, collected or not.
NoResurrection ==
    \A k \in Keys : Discoverable(entries[k]) =>
        \A s \in merged[k] : ExplicitlyTerminal(s.kind) =>
            VersionLess(s.epoch, entries[k].stamp.epoch)

\* Anti-entropy into an empty node: importing what MutationsForShard and
\* Fences export (mutations first) gives the exporter's digest, so a joined
\* node is not asked to synchronise that key again.
ExportRebuilds ==
    \A k \in Keys :
        LET m == Export(k, entries[k], now)
            e == IF entries[k] = None THEN None ELSE EntryAfter(None, None, m, now)
            f == IF entries[k] = None THEN None ELSE FenceAfter(None, None, m)
            offered == fences[k] # None /\ FenceWins(fences[k], e)
        IN  Digest(IF offered THEN None ELSE e,
                   IF offered /\ FenceReplaces(fences[k], f) THEN fences[k] ELSE f)
              = Digest(entries[k], fences[k])

\* The registry implements the lattice: every step leaves a key's stamp or
\* raises it, and Discover returns exactly the keys whose stamp is live.
Lattice == INSTANCE LeaseLattice WITH
    top <- [k \in Keys |-> Top(k)],
    discoverable <- {k \in Keys : Discoverable(entries[k])}

ImplementsLattice == Lattice!Spec
=============================================================================
