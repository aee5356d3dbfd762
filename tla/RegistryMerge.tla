--------------------------- MODULE RegistryMerge ---------------------------
(***************************************************************************)
(* How a registry merges a mutation or a fence into what it holds of one   *)
(* instance (internal/registry/apply.go), and what it exports of it        *)
(* (digest.go).  These are functions of the entry e, the fence f, the      *)
(* mutation m and the time t: the code runs them under the shard's lock.   *)
(*                                                                         *)
(* An entry keeps the stamp of the mutation that wrote it, its lease, its  *)
(* status, its last update time (for an eviction this is also EvictedAt),  *)
(* its local lease deadline (0 is Go's zero time) and the FIFO window of   *)
(* operation IDs.  A fence is the bare stamp of an eviction.               *)
(***************************************************************************)
EXTENDS Leases, Sequences

CONSTANTS NoOp,   \* the empty operation ID
          Window  \* defaultOperationWindow

-----------------------------------------------------------------------------
(* Operation window (registry.go).                                         *)

operationEvent(ops, op) == {i \in DOMAIN ops : ops[i].op = op}

Seen(ops, op) == op # NoOp /\ operationEvent(ops, op) # {}

\* Faulty variant: the oldest operation is never dropped.
rememberOperationForever(ops, op, event) ==
    IF op = NoOp \/ Seen(ops, op) THEN ops ELSE Append(ops, [op |-> op, event |-> event])

rememberOperation(ops, op, event) ==
    IF op = NoOp \/ Seen(ops, op) THEN ops
    ELSE Append(IF Len(ops) = Window THEN Tail(ops) ELSE ops,
                [op |-> op, event |-> event])

-----------------------------------------------------------------------------
(* Merging (apply.go).                                                     *)

\* Same event on both sides: the canonical JSON decides.  "status" precedes
\* "updated_at" in it and "ACTIVE" sorts before the local "DELAYED".
JSONAfter(m, e) == e.status # "DELAYED" /\ m.at > e.at
JSONEqual(m, e) == e.status # "DELAYED" /\ m.at = e.at

\* compareIncoming = 1
IncomingWins(m, e) ==
    \/ /\ Outranks(m.stamp, e.stamp)
       /\ \/ m.stamp.epoch # e.stamp.epoch
          \/ ExplicitlyTerminal(m.stamp.kind) /\ ~ExplicitlyTerminal(e.stamp.kind)
          \/ m.lease = e.lease
    \/ m.stamp = e.stamp /\ m.lease = e.lease /\ JSONAfter(m, e)

\* compareIncoming = 0
IncomingSame(m, e) == m.stamp = e.stamp /\ m.lease = e.lease /\ JSONEqual(m, e)

\* Faulty variant: the newer version beats a fence.
newerThanFence(m, f) == VersionLess(f.version, m.stamp.version)

incomingBeatsFence(m, f) == Outranks(m.stamp, f)

Outcome(e, f, m) ==
    IF e = None
    THEN IF f = None \/ incomingBeatsFence(m, f) THEN "APPLIED" ELSE "STALE"
    ELSE IF Seen(e.ops, m.op) \/ IncomingSame(m, e) THEN "DUPLICATE"
         ELSE IF IncomingWins(m, e) THEN "APPLIED" ELSE "STALE"

\* prepareIncoming: a live mutation that arrives with no remaining TTL has
\* the zero deadline, like an eviction.
Deadline(m, t) ==
    IF m.stamp.kind \in LiveKinds /\ m.remaining > 0 THEN t + m.remaining ELSE 0

\* The window survives a replacement within one lease epoch only.
KeptOps(e, m) ==
    IF e = None \/ VersionLess(e.stamp.epoch, m.stamp.epoch) THEN <<>> ELSE e.ops

NewEntry(e, m, t) ==
    [stamp |-> m.stamp, lease |-> m.lease, status |-> StatusOf(m.stamp.kind),
     at |-> m.at, deadline |-> Deadline(m, t),
     ops |-> rememberOperation(KeptOps(e, m), m.op, m.stamp.eventID)]

EntryAfter(e, f, m, t) ==
    CASE Outcome(e, f, m) = "APPLIED"   -> NewEntry(e, m, t)
      [] Outcome(e, f, m) = "DUPLICATE" ->
            [e EXCEPT !.ops = rememberOperation(@, m.op, e.stamp.eventID)]
      [] Outcome(e, f, m) = "STALE"     -> e

\* Faulty variant: an eviction by TTL leaves no fence.
FenceAfterTerminal(e, f, m) ==
    IF Outcome(e, f, m) = "APPLIED" /\ m.stamp.kind \in TerminalKinds
    THEN m.stamp ELSE f

\* updateFence: every applied eviction leaves its fence behind.
FenceAfter(e, f, m) ==
    IF Outcome(e, f, m) = "APPLIED" /\ m.stamp.kind \in EvictingKinds
    THEN m.stamp ELSE f

\* Faulty variant: an equal fence deletes the tombstone it came from.
FenceWinsTie(f, e) == e = None \/ AtLeast(f, e.stamp)

\* Faulty variant: the last fence to arrive stays.
FenceReplacesAny(f, g) == TRUE

\* compareFenceToEntry > 0
FenceWins(f, e) == e = None \/ Outranks(f, e.stamp)

\* compareFences > 0
FenceReplaces(f, g) == g = None \/ Outranks(f, g)

-----------------------------------------------------------------------------
(* Export, digests and queries (digest.go, query.go).                      *)

Discoverable(e) == e # None /\ e.status \in {"ACTIVE", "DELAYED"}

\* MutationsForShard: DELAYED leaves as the live mutation below it, the
\* remaining TTL is computed now, the operation ID is not exported.
Export(k, e, t) ==
    [key |-> k, stamp |-> e.stamp, lease |-> e.lease, op |-> NoOp, at |-> e.at,
     remaining |-> IF Discoverable(e) /\ e.deadline > t THEN e.deadline - t ELSE 0]

Digest(e, f) ==
    CASE e # None -> [stamp |-> e.stamp,
                      state |-> IF Discoverable(e) THEN "LIVE" ELSE "EVICTED"]
      [] e = None /\ f # None -> [stamp |-> f, state |-> "FENCE"]
      [] e = None /\ f = None -> None

\* The stamp a key stands for: its entry's, else its fence's.
TopOf(e, f) == IF e # None THEN e.stamp ELSE f
=============================================================================
