---------------------------- MODULE GossipProofs ----------------------------
(***************************************************************************)
(* Gossip is well typed, and a synchronisation that succeeds has taken     *)
(* over all the peer held at its first page.  Between pages both           *)
(* registries change and the peer forgets, so the invariant says of every  *)
(* key, at any moment of a synchronisation, where what the peer had of it  *)
(* is by now: in the requester's registry, in the page, still ahead of the *)
(* cursor, or left out because the requester's clock refused it (Covers).  *)
(* Registries only grow, but for restarts (Grows),                         *)
(* and the place of an item in a list that keeps its items grows, too      *)
(* (Places), so that the cursor overtakes none of them.  That registries   *)
(* only grow is a theorem of its own, and with it that a termination stays.*)
(***************************************************************************)
EXTENDS Gossip, FiniteSetTheorems, TLAPS

-----------------------------------------------------------------------------
(* One key: stamps, the merge and fences.                                  *)

\* What the registry of a node holds of k comes from the mutations ms; an entry
\* is at least its fence and a tombstone equals it.
Sound(k, e, f, ms) ==
    /\ e # None =>
          /\ \E m \in ms : m.key = k /\ e = NewEntry(None, m, 0)
          /\ AtLeast(e.stamp, f)
          /\ e.status = "EVICTED" => f = e.stamp
    /\ f # None => \E m \in ms : m.key = k /\ f = m.stamp /\ m.stamp.kind \in EvictingKinds

\* Priorities are numbers.
LEMMA PriorityType ==
    ASSUME NEW a \in Stamp
    PROVE  /\ Priority(a.kind) \in Nat /\ a.epoch \in Version /\ a.version \in Version
           /\ a.eventID \in Nat /\ a.kind \in Kinds
<1>1. a.kind \in Kinds
  BY DEF Stamp
<1> QED
  BY <1>1 DEF Kinds, LiveKinds, EvictingKinds, TerminalKinds, Priority, Stamp

\* The comparators are transitive, and order stamps of different events.
LEMMA OutranksOrder ==
    ASSUME NEW a \in Stamp, NEW b \in Stamp, NEW c \in Stamp
    PROVE  /\ Outranks(a, b) /\ Outranks(b, c) => Outranks(a, c)
           /\ a.eventID # b.eventID => Outranks(a, b) \/ Outranks(b, a)
<1> USE PriorityType
<1> USE DEF Outranks, VersionLess, Version
<1>1. ASSUME Outranks(a, b), Outranks(b, c) PROVE Outranks(a, c)
  <2>1. VersionLess(c.epoch, b.epoch) /\ VersionLess(b.epoch, a.epoch)
          => VersionLess(c.epoch, a.epoch)
    OBVIOUS
  <2>2. VersionLess(c.version, b.version) /\ VersionLess(b.version, a.version)
          => VersionLess(c.version, a.version)
    OBVIOUS
  <2> QED
    BY <1>1, <2>1, <2>2
<1>2. ASSUME a.eventID # b.eventID PROVE Outranks(a, b) \/ Outranks(b, a)
  BY <1>2
<1> QED
  BY <1>1, <1>2

\* AtLeast is reflexive and transitive, None included.
LEMMA AtLeastOrder ==
    ASSUME NEW a \in Stamp \union {None}, NEW b \in Stamp \union {None},
           NEW c \in Stamp \union {None}
    PROVE  /\ AtLeast(a, a) /\ AtLeast(a, None)
           /\ AtLeast(a, b) /\ AtLeast(b, c) => AtLeast(a, c)
<1>1. ASSUME a \in Stamp, b \in Stamp, c \in Stamp, Outranks(a, b), Outranks(b, c)
      PROVE  Outranks(a, c)
  BY <1>1, OutranksOrder
<1> QED
  BY <1>1, NoneAssumption DEF AtLeast

-----------------------------------------------------------------------------
(* What Apply and ApplyFence do to one key.                                *)

\* The fields of a mutation.
LEMMA MutationParts ==
    ASSUME NEW m \in Mutations
    PROVE  /\ m \in Mutation /\ m.key \in Keys /\ m.stamp \in Stamp /\ m.op = NoOp
           /\ m.stamp.kind \in Kinds /\ m.stamp # None /\ m.at \in Nat /\ m.remaining \in Nat
           /\ m.stamp.kind \in EvictingKinds => m.remaining = 0
  BY GossipAssumption, NoneAssumption DEF Mutation, Stamp

\* Two stamps of a cluster are equal or ordered.
LEMMA StampsTotal ==
    ASSUME NEW m \in Mutations, NEW n \in Mutations
    PROVE  Outranks(m.stamp, n.stamp) \/ m = n \/ Outranks(n.stamp, m.stamp)
<1>1. m.stamp \in Stamp /\ n.stamp \in Stamp
  BY MutationParts
<1> QED
  BY <1>1, OutranksOrder, GossipAssumption

\* The entry a mutation leaves: without operation IDs its window stays empty.
LEMMA EntryParts ==
    ASSUME NEW m \in Mutations, NEW e \in Entries \union {None}
    PROVE  /\ NewEntry(e, m, 0) = NewEntry(None, m, 0) /\ NewEntry(e, m, 0) \in Entries
           /\ NewEntry(e, m, 0) # None
           /\ NewEntry(None, m, 0) =
                [stamp |-> m.stamp, lease |-> m.lease, status |-> StatusOf(m.stamp.kind),
                 at |-> m.at, deadline |-> Deadline(m, 0), ops |-> <<>>]
<1>1. m.op = NoOp
  BY MutationParts
<1>2. KeptOps(None, m) = <<>>
  BY DEF KeptOps
<1>3. \A o, v : rememberOperation(o, m.op, v) = o
  BY <1>1 DEF rememberOperation
<1>4. \A p \in Mutations : NewEntry(None, p, 0) =
        [stamp |-> p.stamp, lease |-> p.lease, status |-> StatusOf(p.stamp.kind),
         at |-> p.at, deadline |-> Deadline(p, 0), ops |-> <<>>]
  <2> TAKE p \in Mutations
  <2>1. p.op = NoOp
    BY MutationParts
  <2>2. KeptOps(None, p) = <<>> /\ \A o, v : rememberOperation(o, p.op, v) = o
    BY <2>1 DEF rememberOperation, KeptOps
  <2> QED
    BY <2>2 DEF NewEntry
<1>5. KeptOps(e, m) = <<>>
  <2>1. CASE e = None
    BY <1>2, <2>1
  <2>2. CASE e # None
    <3>1. PICK p \in Mutations : e = NewEntry(None, p, 0)
      BY <2>2 DEF Entries
    <3>2. e.ops = <<>>
      BY <1>4, <3>1
    <3> QED
      BY <3>2 DEF KeptOps
  <2> QED
    BY <2>1, <2>2
<1>6. NewEntry(e, m, 0) = NewEntry(None, m, 0)
  BY <1>2, <1>5 DEF NewEntry
<1>7. NewEntry(None, m, 0) \in Entries
  BY DEF Entries
<1> QED
  BY <1>4, <1>6, <1>7, AbsenceAssumption

\* What is known of an entry that is held.
LEMMA HeldEntry ==
    ASSUME NEW ms, ms \subseteq Mutations, NEW k, NEW e, NEW f, Sound(k, e, f, ms), e # None
    PROVE  \E m \in ms :
              /\ m.key = k /\ e = NewEntry(None, m, 0) /\ e \in Entries
              /\ e.stamp = m.stamp /\ e.lease = m.lease /\ e.at = m.at /\ e.ops = <<>>
              /\ e.status = StatusOf(m.stamp.kind) /\ e.deadline = Deadline(m, 0)
              /\ e.stamp \in Stamp /\ TopOf(e, f) = e.stamp
<1>1. PICK m \in ms : m.key = k /\ e = NewEntry(None, m, 0)
  BY DEF Sound
<1>2. NewEntry(None, m, 0) =
        [stamp |-> m.stamp, lease |-> m.lease, status |-> StatusOf(m.stamp.kind),
         at |-> m.at, deadline |-> Deadline(m, 0), ops |-> <<>>]
      /\ NewEntry(None, m, 0) \in Entries /\ m.stamp \in Stamp
  BY EntryParts, MutationParts
<1> QED
  BY <1>1, <1>2 DEF TopOf

\* Evictions and only they make tombstones.
LEMMA StatusIs ==
    ASSUME NEW kind \in Kinds
    PROVE  StatusOf(kind) = "EVICTED" <=> kind \in EvictingKinds
  BY DEF StatusOf, Kinds, LiveKinds, EvictingKinds, TerminalKinds

\* A merge raises what the key stands for, to the mutation at least.
LEMMA MergeOutcome ==
    ASSUME NEW ms, ms \subseteq Mutations, NEW m \in ms,
           NEW e \in Entries \union {None}, NEW f \in Stamp \union {None},
           Sound(m.key, e, f, ms)
    PROVE  LET e2 == EntryAfter(e, f, m, 0)
               f2 == FenceAfter(e, f, m)
           IN  /\ e2 \in Entries \union {None} /\ f2 \in Stamp \union {None}
               /\ Sound(m.key, e2, f2, ms)
               /\ AtLeast(TopOf(e2, f2), TopOf(e, f))
               /\ AtLeast(TopOf(e2, f2), m.stamp)
               /\ AtLeast(f2, f)
<1> DEFINE e2 == EntryAfter(e, f, m, 0)
           f2 == FenceAfter(e, f, m)
<1>0. /\ m \in Mutations /\ m.stamp \in Stamp /\ m.op = NoOp /\ m.stamp.kind \in Kinds
      /\ m.stamp # None
  BY MutationParts
<1>a. ASSUME e # None
      PROVE  \E p \in ms : /\ p.key = m.key /\ e.stamp = p.stamp /\ e.lease = p.lease
                           /\ e.stamp \in Stamp /\ e.ops = <<>> /\ TopOf(e, f) = e.stamp
                           /\ AtLeast(e.stamp, f) /\ e \in Entries
                           /\ e = NewEntry(None, p, 0)
  <2>1. PICK p \in ms : /\ p.key = m.key /\ e = NewEntry(None, p, 0) /\ e \in Entries
                        /\ e.stamp = p.stamp /\ e.lease = p.lease /\ e.ops = <<>>
                        /\ e.stamp \in Stamp /\ TopOf(e, f) = e.stamp
    BY <1>a, HeldEntry
  <2>2. AtLeast(e.stamp, f)
    BY <1>a DEF Sound
  <2> QED
    BY <2>1, <2>2
<1>b. e = None => TopOf(e, f) = f
  BY DEF TopOf
<1>c. e = None => Outcome(e, f, m) \in {"APPLIED", "STALE"}
  BY DEF Outcome
<1>d. Outcome(e, f, m) \in {"APPLIED", "DUPLICATE", "STALE"}
  BY DEF Outcome
<1>1. CASE Outcome(e, f, m) = "APPLIED"
  <2>1. e2 = NewEntry(None, m, 0) /\ e2 \in Entries /\ e2 # None
    BY <1>0, <1>1, EntryParts DEF EntryAfter
  <2>2. e2.stamp = m.stamp /\ e2.status = StatusOf(m.stamp.kind)
    BY <1>0, <2>1, EntryParts
  <2>3. f2 = IF m.stamp.kind \in EvictingKinds THEN m.stamp ELSE f
    BY <1>1 DEF FenceAfter
  <2>4. AtLeast(m.stamp, TopOf(e, f))
    <3>1. CASE e = None
      <4>1. f = None \/ Outranks(m.stamp, f)
        BY <1>1, <3>1 DEF Outcome, incomingBeatsFence
      <4> QED
        BY <1>0, <1>b, <3>1, <4>1 DEF AtLeast
    <3>2. CASE e # None
      BY <1>0, <1>1, <1>a, <3>2 DEF Outcome, IncomingWins, AtLeast
    <3> QED
      BY <3>1, <3>2
  <2>5. AtLeast(m.stamp, f)
    BY <1>0, <1>a, <1>b, <2>4, AtLeastOrder
  <2>6. AtLeast(m.stamp, m.stamp) /\ AtLeast(f, f)
    BY DEF AtLeast
  <2>7. TopOf(e2, f2) = m.stamp
    BY <2>1, <2>2 DEF TopOf
  <2> HIDE DEF e2, f2
  <2>8. e2.status = "EVICTED" => f2 = e2.stamp
    BY <1>0, <2>2, <2>3, StatusIs
  <2>9. AtLeast(e2.stamp, f2) /\ AtLeast(f2, f)
    BY <2>2, <2>3, <2>5, <2>6
  <2>10. f2 # None => \E p \in ms : p.key = m.key /\ f2 = p.stamp /\ p.stamp.kind \in EvictingKinds
    BY <2>3 DEF Sound
  <2>11. Sound(m.key, e2, f2, ms)
    BY <2>1, <2>8, <2>9, <2>10 DEF Sound
  <2>12. f2 \in Stamp \union {None}
    BY <1>0, <2>3
  <2> QED
    BY <2>1, <2>4, <2>6, <2>7, <2>9, <2>11, <2>12 DEF e2, f2
<1>2. CASE Outcome(e, f, m) = "DUPLICATE"
  <2>1. PICK p \in ms : /\ e.stamp = p.stamp /\ e.ops = <<>> /\ TopOf(e, f) = e.stamp
                        /\ e \in Entries /\ e = NewEntry(None, p, 0)
    BY <1>a, <1>c, <1>2
  <2>2. e # None
    BY <1>c, <1>2
  <2>3. e = [stamp |-> p.stamp, lease |-> p.lease, status |-> StatusOf(p.stamp.kind),
             at |-> p.at, deadline |-> Deadline(p, 0), ops |-> <<>>]
    BY <2>1, EntryParts
  <2>4. e2 = [e EXCEPT !.ops = rememberOperation(@, m.op, e.stamp.eventID)] /\ f2 = f
    BY <1>2 DEF EntryAfter, FenceAfter
  <2>5. rememberOperation(e.ops, m.op, e.stamp.eventID) = e.ops
    BY <1>0 DEF rememberOperation
  <2>6. e2 = e
    BY <2>3, <2>4, <2>5
  <2>7. m.stamp = e.stamp
    BY <1>0, <1>2, <2>2 DEF Outcome, Seen, IncomingSame
  <2> HIDE DEF e2, f2
  <2> QED
    BY <2>1, <2>4, <2>6, <2>7 DEF AtLeast, e2, f2
<1>3. CASE Outcome(e, f, m) = "STALE"
  <2>1. e2 = e /\ f2 = f
    BY <1>3 DEF EntryAfter, FenceAfter
  <2>2. AtLeast(TopOf(e, f), m.stamp)
    <3>1. CASE e = None
      <4>1. f # None /\ ~Outranks(m.stamp, f)
        BY <1>3, <3>1 DEF Outcome, incomingBeatsFence
      <4>2. PICK p \in ms : p.stamp = f
        BY <4>1 DEF Sound
      <4>3. p \in Mutations
        OBVIOUS
      <4>4. m = p \/ Outranks(f, m.stamp)
        BY <1>0, <4>1, <4>2, <4>3, StampsTotal
      <4> QED
        BY <1>b, <3>1, <4>1, <4>2, <4>4 DEF AtLeast
    <3>2. CASE e # None
      <4>1. PICK p \in ms : /\ p.key = m.key /\ p.stamp = e.stamp /\ p.lease = e.lease
                            /\ TopOf(e, f) = e.stamp /\ e.stamp \in Stamp
        BY <1>a, <3>2
      <4>2. m.stamp.epoch = e.stamp.epoch => m.lease = e.lease
        BY <1>0, <4>1, GossipAssumption
      <4>3. ~Outranks(m.stamp, e.stamp)
        BY <1>0, <1>3, <3>2, <4>2 DEF Outcome, Seen, IncomingWins
      <4>4. p \in Mutations
        OBVIOUS
      <4>5. m = p \/ Outranks(e.stamp, m.stamp)
        BY <1>0, <4>1, <4>3, <4>4, StampsTotal
      <4> QED
        BY <4>1, <4>5, NoneAssumption DEF AtLeast
    <3> QED
      BY <3>1, <3>2
  <2>3. AtLeast(TopOf(e, f), TopOf(e, f)) /\ AtLeast(f, f)
    BY DEF AtLeast
  <2> QED
    BY <2>1, <2>2, <2>3
<1> QED
  BY <1>d, <1>1, <1>2, <1>3

\* What ApplyFence does to one key.
LEMMA FenceOutcome ==
    ASSUME NEW ms, ms \subseteq Mutations, NEW m \in ms, m.stamp.kind \in EvictingKinds,
           NEW e \in Entries \union {None}, NEW f \in Stamp \union {None},
           Sound(m.key, e, f, ms)
    PROVE  IF FenceWins(m.stamp, e)
           THEN LET f2 == IF FenceReplaces(m.stamp, f) THEN m.stamp ELSE f
                IN  /\ f2 \in Stamp /\ Sound(m.key, None, f2, ms)
                    /\ AtLeast(f2, TopOf(e, f)) /\ AtLeast(f2, m.stamp) /\ AtLeast(f2, f)
                    /\ TopOf(None, f2) = f2
           ELSE AtLeast(TopOf(e, f), m.stamp)
<1>0. m \in Mutations /\ m.stamp \in Stamp /\ m.stamp # None
  BY MutationParts
<1>1. ASSUME e # None
      PROVE  /\ e.stamp \in Stamp /\ TopOf(e, f) = e.stamp /\ AtLeast(e.stamp, f)
             /\ \E p \in ms : p.stamp = e.stamp
  <2>1. PICK p \in ms : e.stamp = p.stamp /\ e.stamp \in Stamp /\ TopOf(e, f) = e.stamp
    BY <1>1, HeldEntry
  <2>2. AtLeast(e.stamp, f)
    BY <1>1 DEF Sound
  <2> QED
    BY <2>1, <2>2
<1>2. \A p \in ms : p \in Mutations /\ p.stamp \in Stamp
  BY MutationParts
<1>3. ASSUME FenceWins(m.stamp, e)
      PROVE  LET f2 == IF FenceReplaces(m.stamp, f) THEN m.stamp ELSE f
             IN  /\ f2 \in Stamp /\ Sound(m.key, None, f2, ms)
                 /\ AtLeast(f2, TopOf(e, f)) /\ AtLeast(f2, m.stamp) /\ AtLeast(f2, f)
                 /\ TopOf(None, f2) = f2
  <2> DEFINE f2 == IF FenceReplaces(m.stamp, f) THEN m.stamp ELSE f
  <2>1. CASE FenceReplaces(m.stamp, f)
    <3>1. f2 = m.stamp /\ AtLeast(m.stamp, m.stamp) /\ AtLeast(m.stamp, f)
      BY <1>0, <2>1 DEF FenceReplaces, AtLeast
    <3>2. AtLeast(m.stamp, TopOf(e, f))
      BY <1>0, <1>1, <1>3, <3>1 DEF FenceWins, AtLeast, TopOf
    <3> QED
      BY <1>0, <3>1, <3>2 DEF Sound, TopOf
  <2>2. CASE ~FenceReplaces(m.stamp, f)
    <3>1. f2 = f /\ f # None /\ ~Outranks(m.stamp, f) /\ f \in Stamp
      BY <2>2 DEF FenceReplaces
    <3>2. PICK p \in ms : p.stamp = f
      BY <3>1 DEF Sound
    <3>3. AtLeast(f, m.stamp) /\ AtLeast(f, f)
      BY <1>0, <1>2, <3>1, <3>2, StampsTotal DEF AtLeast
    <3>4. e = None
      <4>1. ASSUME e # None PROVE FALSE
        <5>1. Outranks(m.stamp, e.stamp) /\ e.stamp \in Stamp /\ AtLeast(e.stamp, f)
          BY <1>1, <1>3, <4>1 DEF FenceWins
        <5>2. AtLeast(m.stamp, e.stamp)
          BY <1>0, <5>1 DEF AtLeast
        <5>3. m.stamp = f \/ Outranks(m.stamp, f)
          <6>1. e.stamp = f \/ Outranks(e.stamp, f)
            BY <3>1, <5>1 DEF AtLeast
          <6> QED
            BY <1>0, <3>1, <5>1, <6>1, OutranksOrder
        <5>4. m.stamp = f
          BY <3>1, <5>3
        <5>5. e.stamp # f
          BY <3>1, <5>1, <5>4
        <5>6. Outranks(e.stamp, m.stamp)
          BY <3>1, <5>1, <5>4, <5>5 DEF AtLeast
        <5>7. Outranks(m.stamp, m.stamp)
          BY <1>0, <5>1, <5>6, OutranksOrder
        <5> QED
          BY <3>1, <5>4, <5>7
      <4> QED
        BY <4>1
    <3> QED
      BY <1>0, <3>1, <3>3, <3>4 DEF Sound, TopOf
  <2> QED
    BY <2>1, <2>2
<1>4. ASSUME ~FenceWins(m.stamp, e) PROVE AtLeast(TopOf(e, f), m.stamp)
  <2>1. e # None /\ ~Outranks(m.stamp, e.stamp)
    BY <1>4 DEF FenceWins
  <2>2. PICK p \in ms : p.stamp = e.stamp
    BY <1>1, <2>1
  <2> QED
    BY <1>0, <1>1, <1>2, <2>1, <2>2, StampsTotal, NoneAssumption DEF AtLeast
<1> QED
  BY <1>3, <1>4

-----------------------------------------------------------------------------
(* One node: its registry.                                                 *)

\* All a node holds comes from mutations that were made, and entries and fences fit.
Provenance ==
    \A n \in Nodes, k \in Keys : Sound(k, entries[n][k], fences[n][k], made)

\* The conjuncts of TypeOK on the registries,
RegistriesTyped ==
    /\ entries \in [Nodes -> [Keys -> Entries \union {None}]]
    /\ fences \in [Nodes -> [Keys -> Stamp \union {None}]]

\* and on what is relayed.
PendingOK ==
    /\ pending \in [Nodes -> [Mutations -> 0..PendingRounds]]
    /\ \A n \in Nodes, m \in Mutations : pending[n][m] > 0 => m \in made

\* What node n stands for grows, key by key, and so do its fences.
Grows(n) ==
    \A k \in Keys :
        /\ AtLeast(TopOf(entries'[n][k], fences'[n][k]), Top(n, k))
        /\ AtLeast(fences'[n][k], fences[n][k])

\* What a node holds comes from more mutations, too.
LEMMA SoundGrows ==
    ASSUME NEW ms, NEW more, ms \subseteq more, NEW k, NEW e, NEW f, Sound(k, e, f, ms)
    PROVE  Sound(k, e, f, more)
  BY DEF Sound

\* The top of a typed key is a stamp.
LEMMA TopIsStamp ==
    ASSUME NEW e \in Entries \union {None}, NEW f \in Stamp \union {None}
    PROVE  TopOf(e, f) \in Stamp \union {None} /\ (e # None => e.stamp \in Stamp)
<1>1. ASSUME e # None PROVE e.stamp \in Stamp
  <2>1. PICK m \in Mutations : e = NewEntry(None, m, 0)
    BY <1>1 DEF Entries
  <2> QED
    BY <2>1, EntryParts, MutationParts
<1> QED
  BY <1>1 DEF TopOf

\* What a node stands for is a stamp, or nothing,
LEMMA TopTyped ==
    ASSUME RegistriesTyped, NEW n \in Nodes, NEW k \in Keys
    PROVE  /\ entries[n][k] \in Entries \union {None} /\ fences[n][k] \in Stamp \union {None}
           /\ Top(n, k) \in Stamp \union {None}
           /\ entries[n][k] # None => entries[n][k].stamp \in Stamp
<1>1. entries[n][k] \in Entries \union {None} /\ fences[n][k] \in Stamp \union {None}
  BY DEF RegistriesTyped
<1> QED
  BY <1>1, TopIsStamp DEF Top

\* and so it is after a step.
LEMMA NextTopTyped ==
    ASSUME RegistriesTyped', NEW n \in Nodes, NEW k \in Keys
    PROVE  /\ entries'[n][k] \in Entries \union {None} /\ fences'[n][k] \in Stamp \union {None}
           /\ Top(n, k)' \in Stamp \union {None}
           /\ Top(n, k)' = TopOf(entries'[n][k], fences'[n][k])
<1>1. entries'[n][k] \in Entries \union {None} /\ fences'[n][k] \in Stamp \union {None}
  BY DEF RegistriesTyped
<1> QED
  BY <1>1, TopIsStamp DEF Top

\* A registry that does not change grows.
LEMMA RestGrows ==
    ASSUME RegistriesTyped, NEW n \in Nodes,
           entries'[n] = entries[n], fences'[n] = fences[n]
    PROVE  Grows(n)
  BY TopTyped, AtLeastOrder DEF Grows, Top

\* A step that changes one key of one node.
LEMMA OneKeyKeeps ==
    ASSUME RegistriesTyped, Provenance, made \subseteq made',
           NEW n \in Nodes, NEW k \in Keys, NEW e, NEW f,
           entries' = [entries EXCEPT ![n][k] = e], fences' = [fences EXCEPT ![n][k] = f],
           e \in Entries \union {None}, f \in Stamp \union {None}, Sound(k, e, f, made'),
           AtLeast(TopOf(e, f), Top(n, k)), AtLeast(f, fences[n][k])
    PROVE  RegistriesTyped' /\ Provenance' /\ \A r \in Nodes : Grows(r)
<1>1. \A r \in Nodes, j \in Keys :
        /\ entries'[r][j] = IF r = n /\ j = k THEN e ELSE entries[r][j]
        /\ fences'[r][j] = IF r = n /\ j = k THEN f ELSE fences[r][j]
  BY DEF RegistriesTyped
<1>2. RegistriesTyped'
  BY DEF RegistriesTyped
<1>3. ASSUME NEW r \in Nodes, NEW j \in Keys
      PROVE  Sound(j, entries'[r][j], fences'[r][j], made')
  <2>1. Sound(j, entries[r][j], fences[r][j], made')
    BY SoundGrows DEF Provenance
  <2> QED
    BY <1>1, <2>1
<1>4. ASSUME NEW r \in Nodes, NEW j \in Keys
      PROVE  /\ AtLeast(TopOf(entries'[r][j], fences'[r][j]), Top(r, j))
             /\ AtLeast(fences'[r][j], fences[r][j])
  <2>1. AtLeast(Top(r, j), Top(r, j)) /\ AtLeast(fences[r][j], fences[r][j])
    BY DEF AtLeast
  <2> QED
    BY <1>1, <2>1 DEF Top
<1> QED
  BY <1>2, <1>3, <1>4 DEF Provenance, Grows

\* apply: registries grow, this one to the mutation at least, and what is
\* relayed was made.
LEMMA ApplyKeeps ==
    ASSUME RegistriesTyped, Provenance, PendingOK, made \subseteq made', made' \subseteq Mutations,
           NEW n \in Nodes, NEW m \in made', Apply(n, m)
    PROVE  /\ RegistriesTyped' /\ Provenance' /\ PendingOK' /\ \A r \in Nodes : Grows(r)
           /\ AtLeast(TopOf(entries'[n][m.key], fences'[n][m.key]), m.stamp)
<1> DEFINE e == entries[n][m.key]
           f == fences[n][m.key]
           e2 == EntryAfter(e, f, m, 0)
           f2 == FenceAfter(e, f, m)
<1>1. m \in Mutations /\ m.key \in Keys
  BY MutationParts
<1>2. e \in Entries \union {None} /\ f \in Stamp \union {None}
  BY <1>1, TopTyped
<1>3. Sound(m.key, e, f, made')
  BY <1>1, SoundGrows DEF Provenance
<1>4. /\ e2 \in Entries \union {None} /\ f2 \in Stamp \union {None}
      /\ Sound(m.key, e2, f2, made')
      /\ AtLeast(TopOf(e2, f2), TopOf(e, f))
      /\ AtLeast(TopOf(e2, f2), m.stamp)
      /\ AtLeast(f2, f)
  BY <1>2, <1>3, MergeOutcome
<1>5. /\ entries' = [entries EXCEPT ![n][m.key] = e2]
      /\ fences' = [fences EXCEPT ![n][m.key] = f2]
      /\ Enqueue(n, m)
  BY DEF Apply
<1>6. TopOf(e, f) = Top(n, m.key)
  BY DEF Top
<1>7. entries'[n][m.key] = e2 /\ fences'[n][m.key] = f2
  BY <1>1, <1>5 DEF RegistriesTyped
<1> HIDE DEF e2, f2
<1>8. RegistriesTyped' /\ Provenance' /\ \A r \in Nodes : Grows(r)
  BY <1>1, <1>4, <1>5, <1>6, OneKeyKeeps
<1>9. PendingOK'
  <2>1. PendingRounds \in 0..PendingRounds
    BY GossipAssumption
  <2> QED
    BY <1>1, <1>5, <2>1 DEF PendingOK, Enqueue
<1> QED
  BY <1>4, <1>7, <1>8, <1>9

\* What versions clocks hold and what they refuse.
ClocksTyped ==
    ahead \in [Nodes -> SUBSET Mutations] /\ clock \in [Nodes -> Version \union {None}]

\* ApplyRemote: likewise, unless the clock refuses.
LEMMA RemoteKeeps ==
    ASSUME RegistriesTyped, Provenance, PendingOK, ClocksTyped,
           made' = made, made \subseteq Mutations, ahead' = ahead,
           NEW n \in Nodes, NEW m \in made, ApplyRemote(n, m)
    PROVE  /\ RegistriesTyped' /\ Provenance' /\ PendingOK' /\ ClocksTyped'
           /\ \A r \in Nodes : Grows(r)
           /\ \/ Refuses(n, m)
              \/ AtLeast(TopOf(entries'[n][m.key], fences'[n][m.key]), m.stamp)
<1>1. CASE Refuses(n, m)
  <2>1. UNCHANGED <<entries, fences, pending, clock>>
    BY <1>1 DEF ApplyRemote, registries
  <2>2. \A r \in Nodes : Grows(r)
    BY <2>1, RestGrows
  <2> QED
    BY <1>1, <2>1, <2>2 DEF RegistriesTyped, Provenance, PendingOK, ClocksTyped
<1>2. CASE ~Refuses(n, m)
  <2>1. Apply(n, m)
    BY <1>2 DEF ApplyRemote
  <2>2. m \in made' /\ made \subseteq made' /\ made' \subseteq Mutations
    OBVIOUS
  <2>3. /\ RegistriesTyped' /\ Provenance' /\ PendingOK' /\ \A r \in Nodes : Grows(r)
        /\ AtLeast(TopOf(entries'[n][m.key], fences'[n][m.key]), m.stamp)
    BY <2>1, <2>2, ApplyKeeps
  <2>4. m.stamp.version \in Version
    BY MutationParts DEF Stamp
  <2>5. ClocksTyped'
    BY <1>2, <2>4 DEF ApplyRemote, ClocksTyped
  <2> QED
    BY <2>3, <2>5
<1> QED
  BY <1>1, <1>2

\* ApplyFence: likewise.
LEMMA FenceKeeps ==
    ASSUME RegistriesTyped, Provenance, made \subseteq Mutations, made' = made,
           NEW n \in Nodes, NEW m \in made, m.stamp.kind \in EvictingKinds,
           ApplyFence(n, m.key, m.stamp)
    PROVE  /\ RegistriesTyped' /\ Provenance' /\ \A r \in Nodes : Grows(r)
           /\ AtLeast(TopOf(entries'[n][m.key], fences'[n][m.key]), m.stamp)
<1> DEFINE e == entries[n][m.key]
           f == fences[n][m.key]
           f2 == IF FenceReplaces(m.stamp, f) THEN m.stamp ELSE f
<1>1. m \in Mutations /\ m.key \in Keys
  BY MutationParts
<1>2. e \in Entries \union {None} /\ f \in Stamp \union {None} /\ Sound(m.key, e, f, made)
  BY <1>1, TopTyped DEF Provenance
<1>3. IF FenceWins(m.stamp, e)
      THEN /\ f2 \in Stamp /\ Sound(m.key, None, f2, made)
           /\ AtLeast(f2, TopOf(e, f)) /\ AtLeast(f2, m.stamp) /\ AtLeast(f2, f)
           /\ TopOf(None, f2) = f2
      ELSE AtLeast(TopOf(e, f), m.stamp)
  BY <1>2, FenceOutcome
<1>4. CASE FenceWins(m.stamp, e)
  <2>1. /\ entries' = [entries EXCEPT ![n][m.key] = None]
        /\ fences' = [fences EXCEPT ![n][m.key] = f2]
    BY <1>1, <1>4 DEF ApplyFence, RegistriesTyped
  <2>2. /\ f2 \in Stamp /\ Sound(m.key, None, f2, made')
        /\ AtLeast(TopOf(None, f2), Top(n, m.key)) /\ AtLeast(f2, m.stamp)
        /\ AtLeast(f2, fences[n][m.key]) /\ TopOf(None, f2) = f2
    BY <1>3, <1>4 DEF Top
  <2>3. entries'[n][m.key] = None /\ fences'[n][m.key] = f2
    BY <1>1, <2>1 DEF RegistriesTyped
  <2> HIDE DEF f2
  <2>4. RegistriesTyped' /\ Provenance' /\ \A r \in Nodes : Grows(r)
    BY <1>1, <2>1, <2>2, OneKeyKeeps
  <2> QED
    BY <2>2, <2>3, <2>4
<1>5. CASE ~FenceWins(m.stamp, e)
  <2>1. entries' = entries /\ fences' = fences
    BY <1>5 DEF ApplyFence, registries
  <2>2. \A r \in Nodes : Grows(r)
    BY <2>1, RestGrows
  <2>3. AtLeast(TopOf(entries'[n][m.key], fences'[n][m.key]), m.stamp)
    BY <1>3, <1>5, <2>1
  <2> QED
    BY <2>1, <2>2, <2>3 DEF RegistriesTyped, Provenance
<1> QED
  BY <1>4, <1>5

\* GC: the fence keeps what the tombstone stood for.
LEMMA CollectKeeps ==
    ASSUME RegistriesTyped, Provenance, NEW n \in Nodes, NEW k \in Keys, Collect(n, k)
    PROVE  RegistriesTyped' /\ Provenance' /\ \A r \in Nodes : Grows(r)
<1> DEFINE f == fences[n][k]
<1>1. entries[n][k] # None /\ Sound(k, entries[n][k], f, made) /\ entries[n][k].status = "EVICTED"
  BY DEF Collect, Provenance
<1>2. f = entries[n][k].stamp
  BY <1>1 DEF Sound
<1>3. Sound(k, None, f, made) /\ made' = made
  BY <1>1 DEF Sound, Collect
<1>4. TopOf(None, f) = f /\ Top(n, k) = f
  BY <1>1, <1>2 DEF Top, TopOf
<1>5. AtLeast(f, f)
  BY DEF AtLeast
<1>6. f \in Stamp \union {None}
  BY TopTyped
<1>7. entries' = [entries EXCEPT ![n][k] = None] /\ fences' = [fences EXCEPT ![n][k] = f]
  BY DEF Collect, RegistriesTyped
<1> HIDE DEF f
<1>8. AtLeast(f, fences[n][k])
  BY <1>5 DEF f
<1> QED
  BY <1>3, <1>4, <1>5, <1>6, <1>7, <1>8, OneKeyKeeps

\* Nothing changes in the registries.
LEMMA RegistriesRest ==
    ASSUME RegistriesTyped, Provenance, made \subseteq made', UNCHANGED registries
    PROVE  RegistriesTyped' /\ Provenance' /\ \A r \in Nodes : Grows(r)
<1>1. entries' = entries /\ fences' = fences
  BY DEF registries
<1>2. Provenance'
  BY <1>1, SoundGrows DEF Provenance
<1> QED
  BY <1>1, <1>2, RestGrows DEF RegistriesTyped

\* A node that restarts holds nothing.
LEMMA RestartKeeps ==
    ASSUME RegistriesTyped, Provenance, PendingOK, NEW n \in Nodes, Restart(n)
    PROVE  RegistriesTyped' /\ Provenance' /\ PendingOK' /\ \A r \in Nodes \ {n} : Grows(r)
<1>1. /\ entries' = [entries EXCEPT ![n] = Nothing] /\ fences' = [fences EXCEPT ![n] = Nothing]
      /\ pending' = [pending EXCEPT ![n] = Silence] /\ made' = made
  BY DEF Restart
<1>2. /\ Nothing \in [Keys -> Entries \union {None}] /\ Nothing \in [Keys -> Stamp \union {None}]
      /\ \A k \in Keys : Nothing[k] = None
  BY DEF Nothing
<1>3. Silence \in [Mutations -> 0..PendingRounds] /\ \A m \in Mutations : Silence[m] = 0
  BY GossipAssumption DEF Silence
<1>4. RegistriesTyped'
  BY <1>1, <1>2 DEF RegistriesTyped
<1>5. \A r \in Nodes \ {n} : entries'[r] = entries[r] /\ fences'[r] = fences[r]
  BY <1>1 DEF RegistriesTyped
<1>6. entries'[n] = Nothing /\ fences'[n] = Nothing
  BY <1>1 DEF RegistriesTyped
<1>7. Provenance'
  <2>1. \A k : Sound(k, None, None, made)
    BY DEF Sound
  <2> QED
    BY <1>1, <1>2, <1>5, <1>6, <2>1 DEF Provenance
<1>8. PendingOK'
  BY <1>1, <1>3 DEF PendingOK
<1> QED
  BY <1>4, <1>5, <1>7, <1>8, RestGrows

-----------------------------------------------------------------------------
(* What is in a page.                                                      *)

\* An item with what it brings.
PageItem == [kind : ItemKinds, key : Keys, content : Mutation \union Stamp]

\* The item brings what it says: a mutation of its key, or an eviction's stamp.
Carries(i, ms) ==
    IF i.kind = "mutation" THEN i.content \in ms /\ i.content.key = i.key
    ELSE \E m \in ms : /\ m.stamp = i.content /\ m.key = i.key
                       /\ m.stamp.kind \in EvictingKinds

\* A synchronisation of n.
SyncOK(n, s) ==
    /\ s \in Synchronisation
    /\ s.peer \in known[n]
    /\ s.cursor # None => s.cursor % PageSize = 0
    /\ \A i \in s.page : Carries(i, made)

\* The conjuncts of TypeOK.
LEMMA TypeParts ==
    TypeOK <=>
        /\ RegistriesTyped /\ PendingOK
        /\ known \in [Nodes -> SUBSET Nodes] /\ \A n \in Nodes : n \notin known[n]
        /\ ready \in [Nodes -> BOOLEAN]
        /\ made \subseteq Mutations /\ failures \in 0..MaxFailures
        /\ ClocksTyped
        /\ net \subseteq [to : Nodes, mutation : made]
        /\ sync \in [Nodes -> Synchronisation \union {None}]
        /\ \A n \in Nodes : sync[n] # None => SyncOK(n, sync[n])
  BY DEF TypeOK, RegistriesTyped, PendingOK, ClocksTyped, SyncOK, Carries

\* What a node exports of a record is the mutation that wrote it.
LEMMA ExportIsMutation ==
    ASSUME NEW m \in Mutations
    PROVE  Export(m.key, NewEntry(None, m, 0), 0) = m
<1> DEFINE e == NewEntry(None, m, 0)
<1>1. e = [stamp |-> m.stamp, lease |-> m.lease, status |-> StatusOf(m.stamp.kind),
           at |-> m.at, deadline |-> Deadline(m, 0), ops |-> <<>>] /\ e # None
  BY EntryParts
<1>2. /\ m \in Mutation /\ m.op = NoOp /\ m.remaining \in Nat /\ m.stamp.kind \in Kinds
      /\ m.stamp.kind \in EvictingKinds => m.remaining = 0
  BY MutationParts
<1>3. (IF Discoverable(e) /\ e.deadline > 0 THEN e.deadline - 0 ELSE 0) = m.remaining
  <2>1. CASE m.stamp.kind \in LiveKinds
    <3>1. e.status = "ACTIVE" /\ Discoverable(e)
      BY <1>1, <2>1 DEF Discoverable, StatusOf
    <3>2. e.deadline = m.remaining
      BY <1>1, <1>2, <2>1 DEF Deadline
    <3> QED
      BY <1>2, <3>1, <3>2
  <2>2. CASE m.stamp.kind \notin LiveKinds
    <3>1. m.remaining = 0 /\ e.deadline = 0
      BY <1>1, <1>2, <2>2 DEF Kinds, Deadline
    <3> QED
      BY <3>1
  <2> QED
    BY <2>1, <2>2
<1>4. Export(m.key, e, 0) =
        [key |-> m.key, stamp |-> m.stamp, lease |-> m.lease, op |-> NoOp, at |-> m.at,
         remaining |-> m.remaining]
  BY <1>1, <1>3 DEF Export
<1>5. m = [key |-> m.key, stamp |-> m.stamp, lease |-> m.lease, op |-> m.op, at |-> m.at,
           remaining |-> m.remaining]
  BY <1>2 DEF Mutation
<1> QED
  BY <1>2, <1>4, <1>5

\* What the peer puts into a page.
LEMMA ContentCarries ==
    ASSUME RegistriesTyped, Provenance, made \subseteq Mutations,
           NEW p \in Nodes, NEW i \in Item,
           IF i.kind = "mutation" THEN entries[p][i.key] # None ELSE fences[p][i.key] # None
    PROVE  LET it == [kind |-> i.kind, key |-> i.key, content |-> Content(p, i)]
           IN  /\ it \in PageItem /\ Carries(it, made)
               /\ IF i.kind = "mutation" THEN it.content.stamp = entries[p][i.key].stamp
                                         ELSE it.content = fences[p][i.key]
<1> DEFINE e == entries[p][i.key]
           f == fences[p][i.key]
           it == [kind |-> i.kind, key |-> i.key, content |-> Content(p, i)]
<1>1. i.key \in Keys /\ i.kind \in ItemKinds
  BY DEF Item
<1>2. e \in Entries \union {None} /\ f \in Stamp \union {None} /\ Sound(i.key, e, f, made)
  BY <1>1, TopTyped DEF Provenance
<1>3. it.kind = i.kind /\ it.key = i.key /\ it.content = Content(p, i)
  OBVIOUS
<1>4. CASE i.kind = "mutation"
  <2>1. PICK m \in made : m.key = i.key /\ e = NewEntry(None, m, 0) /\ e.stamp = m.stamp
    BY <1>2, <1>4, HeldEntry
  <2>2. m \in Mutations /\ m \in Mutation
    BY MutationParts
  <2>3. Content(p, i) = m
    BY <1>4, <2>1, <2>2, ExportIsMutation DEF Content
  <2>4. it \in PageItem
    BY <1>1, <2>2, <2>3 DEF PageItem
  <2>5. Carries(it, made)
    BY <1>3, <1>4, <2>1, <2>3 DEF Carries
  <2> QED
    BY <1>3, <1>4, <2>1, <2>3, <2>4, <2>5
<1>5. CASE i.kind # "mutation"
  <2>1. PICK m \in made : m.key = i.key /\ f = m.stamp /\ m.stamp.kind \in EvictingKinds
    BY <1>2, <1>5 DEF Sound
  <2>2. f \in Stamp
    BY <1>2, <1>5
  <2>3. Content(p, i) = f
    BY <1>5 DEF Content
  <2>4. it \in PageItem
    BY <1>1, <2>2, <2>3 DEF PageItem
  <2>5. Carries(it, made)
    BY <1>3, <1>5, <2>1, <2>3 DEF Carries
  <2> QED
    BY <1>3, <1>5, <2>3, <2>4, <2>5
<1> QED
  BY <1>4, <1>5

\* Items of a peer.
LEMMA ItemsAre ==
    ASSUME NEW m \in Nodes, NEW d
    PROVE  /\ Items(m, d) \subseteq Item
           /\ \A i \in Items(m, d) :
                 IF i.kind = "mutation" THEN entries[m][i.key] # None ELSE fences[m][i.key] # None
  BY DEF Items

\* Digests are values.
LEMMA DigestsTyped ==
    ASSUME RegistriesTyped, NEW n \in Nodes
    PROVE  /\ Digests(n) \in [Keys -> DigestValues \union {None}]
           /\ \A k \in Keys : Digests(n)[k] # None => Digests(n)[k].stamp = Top(n, k)
           /\ \A k \in Keys : Digests(n)[k] = None => Top(n, k) = None
<1>1. ASSUME NEW k \in Keys
      PROVE  /\ Digests(n)[k] \in DigestValues \union {None}
             /\ Digests(n)[k] # None => Digests(n)[k].stamp = Top(n, k)
             /\ Digests(n)[k] = None => Top(n, k) = None
  <2> DEFINE e == entries[n][k]
             f == fences[n][k]
  <2>0. /\ Digests(n)[k] = Digest(e, f) /\ Top(n, k) = TopOf(e, f)
        /\ e \in Entries \union {None} /\ f \in Stamp \union {None}
        /\ e # None => e.stamp \in Stamp
    BY <1>1, TopTyped DEF Digests, Top
  <2> HIDE DEF e, f
  <2>1. CASE e # None
    <3>1. Digest(e, f) =
            [stamp |-> e.stamp, state |-> IF Discoverable(e) THEN "LIVE" ELSE "EVICTED"]
      BY <2>1 DEF Digest
    <3>2. Digest(e, f) \in DigestValues
      BY <2>0, <2>1, <3>1 DEF DigestValues
    <3>3. Digest(e, f) # None
      BY <3>2, AbsenceAssumption
    <3>4. Digest(e, f).stamp = TopOf(e, f)
      BY <2>1, <3>1 DEF TopOf
    <3> QED
      BY <2>0, <3>2, <3>3, <3>4
  <2>2. CASE e = None /\ f # None
    <3>1. Digest(e, f) = [stamp |-> f, state |-> "FENCE"]
      BY <2>2 DEF Digest
    <3>2. Digest(e, f) \in DigestValues
      BY <2>0, <2>2, <3>1 DEF DigestValues
    <3>3. Digest(e, f) # None
      BY <3>2, AbsenceAssumption
    <3>4. Digest(e, f).stamp = TopOf(e, f)
      BY <2>2, <3>1 DEF TopOf
    <3> QED
      BY <2>0, <3>2, <3>3, <3>4
  <2>3. CASE e = None /\ f = None
    <3>1. Digest(e, f) = None /\ TopOf(e, f) = None
      BY <2>3 DEF Digest, TopOf
    <3> QED
      BY <2>0, <3>1
  <2> QED
    BY <2>1, <2>2, <2>3
<1> QED
  BY <1>1 DEF Digests

-----------------------------------------------------------------------------
(* The invariant.                                                          *)

\* The stamp a page item brings.
Brings(i) == IF i.kind = "mutation" THEN i.content.stamp ELSE i.content

\* What the peer had of k is in the page, or still ahead of the cursor.
InPage(s, k) == \E i \in s.page : i.key = k /\ AtLeast(Brings(i), s.had[k])

\* An item of k is listed beyond the cursor: the record, which outranks what the
\* peer had, or a fence that does.
Coming(s, k) ==
    \E i \in s.listed :
        /\ i.key = k /\ Place(s.listed, i) > s.cursor
        /\ i.kind = "fence" => AtLeast(fences[s.peer][k], s.had[k])

\* How far n has got with synchronisation s.
Covers(n, s) ==
    /\ \A k \in Keys : s.digests[k] # None => AtLeast(Top(n, k), s.digests[k].stamp)
    /\ s.cursor = 0 => s.page = {} /\ s.listed = {}
    /\ s.cursor = None => s.listed = {}
    /\ s.intact /\ s.cursor # 0 =>
          \A k \in Keys :
              /\ AtLeast(Top(s.peer, k), s.had[k])
              /\ \/ k \in s.skipped
                 \/ AtLeast(Top(n, k), s.had[k]) \/ InPage(s, k) \/ Coming(s, k)

\* So has every node with its own.
SyncInv == \A n \in Nodes : sync[n] # None => Covers(n, sync[n])

IInv == TypeOK /\ Provenance /\ SyncInv

\* A response is a finite list.
LEMMA ItemFinite == IsFiniteSet(Item)
<1> DEFINE pairs == ItemKinds \X Keys
           f == [p \in pairs |-> [kind |-> p[1], key |-> p[2]]]
<1>1. IsFiniteSet(ItemKinds)
  <2>1. IsFiniteSet({"mutation"} \union {"fence"})
    BY FS_Singleton, FS_Union
  <2>2. {"mutation"} \union {"fence"} = ItemKinds
    BY DEF ItemKinds
  <2> QED
    BY <2>1, <2>2
<1>2. IsFiniteSet(pairs)
  BY <1>1, FS_Product, GossipAssumption
<1>3. f \in [pairs -> Item]
  BY DEF Item
<1>4. ASSUME NEW i \in Item PROVE \E p \in pairs : f[p] = i
  <2>1. <<i.kind, i.key>> \in pairs /\ i = [kind |-> i.kind, key |-> i.key]
    BY DEF Item
  <2> QED
    BY <2>1
<1>5. f \in Surjection(pairs, Item)
  BY <1>3, <1>4 DEF Surjection
<1> QED
  BY <1>2, <1>5, FS_Surjection

\* Places are numbers from 1 on, and only grow with the list.
LEMMA Places ==
    ASSUME NEW less, NEW more, more \subseteq Item, less \subseteq more, NEW i \in less
    PROVE  /\ Place(less, i) \in Nat /\ Place(more, i) \in Nat /\ Cardinality(more) \in Nat
           /\ 1 <= Place(less, i) /\ Place(less, i) <= Place(more, i)
           /\ Place(more, i) <= Cardinality(more)
<1> DEFINE L == {j \in less : NotAfter(j, i)}
           M == {j \in more : NotAfter(j, i)}
<1>1. L \subseteq M /\ M \subseteq more /\ L \subseteq Item
  OBVIOUS
<1>2. IsFiniteSet(more) /\ IsFiniteSet(M) /\ IsFiniteSet(L)
  BY <1>1, ItemFinite, FS_Subset
<1>3. Cardinality(L) <= Cardinality(M) /\ Cardinality(M) <= Cardinality(more)
  BY <1>1, <1>2, FS_Subset
<1>4. Cardinality(L) \in Nat /\ Cardinality(M) \in Nat /\ Cardinality(more) \in Nat
  BY <1>2, FS_CardinalityType
<1>5. i \in L
  <2>1. i.kind \in ItemKinds /\ i.key \in Keys
    BY DEF Item
  <2>2. Order[i.kind][i.key] \in Nat
    BY <2>1, GossipAssumption
  <2>3. NotAfter(i, i)
    BY <2>2 DEF NotAfter
  <2> QED
    BY <2>3
<1>6. Cardinality(L) # 0
  BY <1>2, <1>5, FS_EmptySet
<1> QED
  BY <1>3, <1>4, <1>6 DEF Place

\* What a page item brings is a stamp.
LEMMA BringsAStamp ==
    ASSUME NEW i \in PageItem, NEW ms, ms \subseteq Mutations, Carries(i, ms)
    PROVE  i.key \in Keys /\ Brings(i) \in Stamp
<1>1. CASE i.kind = "mutation"
  BY <1>1, MutationParts DEF Carries, Brings
<1>2. CASE i.kind # "mutation"
  <2>1. PICK m \in ms : m.stamp = i.content /\ m.key = i.key
    BY <1>2 DEF Carries
  <2> QED
    BY <1>2, <2>1, MutationParts DEF Brings
<1> QED
  BY <1>1, <1>2

\* A synchronisation goes on as both registries grow, also when items of the
\* page are taken over.
LEMMA CoversGrow ==
    ASSUME RegistriesTyped, RegistriesTyped', made \subseteq Mutations,
           NEW n \in Nodes, NEW s \in Synchronisation, SyncOK(n, s), Covers(n, s),
           Grows(n), Grows(s.peer),
           NEW page, page \subseteq s.page,
           NEW skipped, s.skipped \subseteq skipped,
           \A i \in s.page \ page :
              \/ i.key \in skipped
              \/ AtLeast(TopOf(entries'[n][i.key], fences'[n][i.key]), Brings(i))
    PROVE  Covers(n, [s EXCEPT !.page = page, !.skipped = skipped])'
<1>1. PICK t : t = [s EXCEPT !.page = page, !.skipped = skipped]
  OBVIOUS
<1>2. /\ s.peer \in Nodes /\ s.had \in [Keys -> Stamp \union {None}]
      /\ s.digests \in [Keys -> DigestValues \union {None}]
      /\ s.page \subseteq PageItem
  BY DEF Synchronisation, PageItem
<1>3. /\ t.peer = s.peer /\ t.digests = s.digests /\ t.had = s.had /\ t.cursor = s.cursor
      /\ t.listed = s.listed /\ t.intact = s.intact /\ t.page = page /\ t.skipped = skipped
  BY <1>1 DEF Synchronisation
<1>4. ASSUME NEW r \in {n, s.peer}, NEW k \in Keys, NEW a \in Stamp \union {None},
             AtLeast(Top(r, k), a)
      PROVE  AtLeast(Top(r, k)', a)
  <2>1. r \in Nodes
    BY <1>2
  <2>2. Top(r, k) \in Stamp \union {None} /\ Top(r, k)' \in Stamp \union {None}
    BY <2>1, TopTyped, NextTopTyped
  <2>3. AtLeast(Top(r, k)', Top(r, k))
    BY DEF Grows, Top
  <2> QED
    BY <1>4, <2>2, <2>3, AtLeastOrder
<1>5. ASSUME NEW k \in Keys, s.digests[k] # None PROVE AtLeast(Top(n, k)', s.digests[k].stamp)
  <2>1. s.digests[k] \in DigestValues
    BY <1>2, <1>5
  <2>2. s.digests[k].stamp \in Stamp
    BY <2>1 DEF DigestValues
  <2>3. AtLeast(Top(n, k), s.digests[k].stamp)
    BY <1>5 DEF Covers
  <2> QED
    BY <1>4, <2>2, <2>3
<1>6. ASSUME s.intact, s.cursor # 0, NEW k \in Keys
      PROVE  /\ AtLeast(Top(s.peer, k)', s.had[k])
             /\ \/ k \in skipped
                \/ AtLeast(Top(n, k)', s.had[k]) \/ InPage(t, k) \/ Coming(t, k)'
  <2>1. s.had[k] \in Stamp \union {None}
    BY <1>2
  <2>2. /\ AtLeast(Top(s.peer, k), s.had[k])
        /\ k \in s.skipped \/ AtLeast(Top(n, k), s.had[k]) \/ InPage(s, k) \/ Coming(s, k)
    BY <1>6 DEF Covers
  <2>3. AtLeast(Top(s.peer, k)', s.had[k])
    BY <1>4, <2>1, <2>2
  <2>7. CASE k \in skipped
    BY <2>3, <2>7
  <2>4. CASE AtLeast(Top(n, k), s.had[k])
    <3>1. AtLeast(Top(n, k)', s.had[k])
      BY <1>4, <2>1, <2>4
    <3> QED
      BY <2>3, <3>1
  <2>5. CASE InPage(s, k)
    <3>1. PICK i \in s.page : i.key = k /\ AtLeast(Brings(i), s.had[k])
      BY <2>5 DEF InPage
    <3>2. CASE i \in page
      <4>1. InPage(t, k)
        BY <1>3, <3>1, <3>2 DEF InPage
      <4> QED
        BY <2>3, <4>1
    <3>3. CASE i \notin page /\ k \notin skipped
      <4>1. AtLeast(Top(n, k)', Brings(i))
        BY <3>1, <3>3 DEF Top
      <4>2. Brings(i) \in Stamp
        BY <1>2, BringsAStamp DEF SyncOK
      <4>3. Top(n, k)' \in Stamp \union {None}
        BY NextTopTyped
      <4>4. AtLeast(Top(n, k)', s.had[k])
        BY <2>1, <3>1, <4>1, <4>2, <4>3, AtLeastOrder
      <4> QED
        BY <2>3, <4>4
    <3> QED
      BY <2>7, <3>2, <3>3
  <2>6. CASE Coming(s, k)
    <3>1. PICK i \in s.listed : /\ i.key = k /\ Place(s.listed, i) > s.cursor
                                /\ i.kind = "fence" => AtLeast(fences[s.peer][k], s.had[k])
      BY <2>6 DEF Coming
    <3>2. /\ fences[s.peer][k] \in Stamp \union {None} /\ fences'[s.peer][k] \in Stamp \union {None}
      BY <1>2 DEF RegistriesTyped
    <3>3. AtLeast(fences'[s.peer][k], fences[s.peer][k])
      BY DEF Grows
    <3>4. i.kind = "fence" => AtLeast(fences'[s.peer][k], s.had[k])
      BY <2>1, <3>1, <3>2, <3>3, AtLeastOrder
    <3>5. Coming(t, k)'
      BY <1>3, <3>1, <3>4 DEF Coming
    <3> QED
      BY <2>3, <3>5
  <2> QED
    BY <2>2, <2>4, <2>5, <2>6, <2>7
<1>7. /\ s.cursor = 0 => s.page = {} /\ s.listed = {}
      /\ s.cursor = None => s.listed = {}
  BY DEF Covers
<1>8. Covers(n, t)'
  BY <1>3, <1>5, <1>6, <1>7 DEF Covers, InPage
<1> QED
  BY <1>1, <1>8

-----------------------------------------------------------------------------
(* The peer answers.                                                       *)

\* What becomes of synchronisation s of n when the peer answers.
Answered(n, s, t) ==
    LET items == Items(s.peer, s.digests)
        end == s.cursor + PageSize
        served == {i \in items : Place(items, i) \in (s.cursor + 1)..end}
    IN  /\ t.peer = s.peer /\ t.digests = s.digests
        /\ t.page = {[kind |-> i.kind, key |-> i.key, content |-> Content(s.peer, i)] :
                        i \in served}
        /\ t.cursor = IF end < Cardinality(items) THEN end ELSE None
        /\ t.had = IF s.cursor = 0 THEN Tops(s.peer) ELSE s.had
        /\ t.listed = IF end < Cardinality(items) THEN items ELSE {}
        /\ t.intact = (s.intact /\ s.listed \subseteq items) /\ t.skipped = s.skipped
        /\ s \in Synchronisation /\ s.cursor \in Nat /\ end \in Nat /\ end > s.cursor
        /\ s.peer \in Nodes /\ s.page = {} /\ s.cursor % PageSize = 0
        /\ s.peer \in known[n]

\* Serve does to a synchronisation what Answered says, field by field.
LEMMA ServedParts ==
    ASSUME TypeOK, Provenance, NEW n \in Nodes, sync[n] # None, Requesting(n),
           NEW s, s = sync[n], NEW t, t = Served(n, s.digests)
    PROVE  Answered(n, s, t)
<1>1. s \in Synchronisation /\ SyncOK(n, s)
  BY TypeParts
<1>2. s.cursor \in Nat /\ s.page = {} /\ PageSize \in Nat \ {0}
  BY <1>1, GossipAssumption DEF Requesting, Synchronisation
<1>3. s.peer \in Nodes /\ s.cursor % PageSize = 0 /\ s.peer \in known[n]
  BY <1>1, <1>2, AbsenceAssumption DEF SyncOK, Synchronisation
<1> DEFINE items == Items(s.peer, s.digests)
           end == s.cursor + PageSize
           served == {i \in items : Place(items, i) \in (s.cursor + 1)..end}
           pg == {[kind |-> i.kind, key |-> i.key, content |-> Content(s.peer, i)] : i \in served}
           cur == IF end < Cardinality(items) THEN end ELSE None
           hd == IF s.cursor = 0 THEN Tops(s.peer) ELSE s.had
           ls == IF end < Cardinality(items) THEN items ELSE {}
           it == s.intact /\ s.listed \subseteq items
<1>4. t = [s EXCEPT !.page = pg, !.cursor = cur, !.had = hd, !.listed = ls, !.intact = it]
  BY DEF Served
<1>5. end \in Nat /\ end > s.cursor
  BY <1>2
<1> HIDE DEF pg, cur, hd, ls, it
<1>6. /\ t.peer = s.peer /\ t.digests = s.digests /\ t.page = pg /\ t.cursor = cur
      /\ t.had = hd /\ t.listed = ls /\ t.intact = it /\ t.skipped = s.skipped
  BY <1>1, <1>4 DEF Synchronisation
<1> QED
  BY <1>1, <1>2, <1>3, <1>5, <1>6 DEF Answered, pg, cur, hd, ls, it

\* A response is typed.
LEMMA ServedOK ==
    ASSUME TypeOK, Provenance, NEW n \in Nodes, sync[n] # None, Requesting(n),
           NEW s, s = sync[n], NEW t, t = Served(n, s.digests)
    PROVE  t \in Synchronisation /\ SyncOK(n, t)
<1> DEFINE items == Items(s.peer, s.digests)
           end == s.cursor + PageSize
           served == {i \in items : Place(items, i) \in (s.cursor + 1)..end}
<1>1. /\ t.peer = s.peer /\ t.digests = s.digests
      /\ t.page = {[kind |-> i.kind, key |-> i.key, content |-> Content(s.peer, i)] :
                      i \in served}
      /\ t.cursor = IF end < Cardinality(items) THEN end ELSE None
      /\ t.had = IF s.cursor = 0 THEN Tops(s.peer) ELSE s.had
      /\ t.listed = IF end < Cardinality(items) THEN items ELSE {}
      /\ t.intact = (s.intact /\ s.listed \subseteq items) /\ t.skipped = s.skipped
      /\ s \in Synchronisation /\ s.cursor \in Nat /\ end \in Nat /\ end > s.cursor
      /\ s.peer \in Nodes /\ s.page = {} /\ s.cursor % PageSize = 0
      /\ s.peer \in known[n]
  <2>1. Answered(n, s, t)
    BY ServedParts
  <2> QED
    BY <2>1 DEF Answered
<1>2. items \subseteq Item
  BY <1>1, ItemsAre
<1>3. RegistriesTyped /\ made \subseteq Mutations
  BY TypeParts
<1>4. ASSUME NEW i \in t.page PROVE i \in PageItem /\ Carries(i, made)
  <2>1. PICK j \in served : i = [kind |-> j.kind, key |-> j.key, content |-> Content(s.peer, j)]
    BY <1>1
  <2>2. j \in items /\ j \in Item
    BY <1>2
  <2>3. IF j.kind = "mutation" THEN entries[s.peer][j.key] # None ELSE fences[s.peer][j.key] # None
    BY <1>1, <2>2, ItemsAre
  <2> HIDE DEF served, items
  <2> QED
    BY <1>1, <1>3, <2>1, <2>2, <2>3, ContentCarries
<1>5. t.had \in [Keys -> Stamp \union {None}]
  <2>1. Tops(s.peer) \in [Keys -> Stamp \union {None}]
    BY <1>1, <1>3, TopTyped DEF Tops
  <2> QED
    BY <1>1, <2>1 DEF Synchronisation
<1>6. t.cursor \in Nat \union {None}
  BY <1>1
<1>7. t.listed \subseteq Item
  BY <1>1, <1>2
<1>8. t.intact \in BOOLEAN
  BY <1>1
<1>9. t.page \subseteq [kind : ItemKinds, key : Keys, content : Mutation \union Stamp]
  BY <1>4 DEF PageItem
<1>10. t = [peer |-> t.peer, digests |-> t.digests, page |-> t.page, cursor |-> t.cursor,
            had |-> t.had, listed |-> t.listed, intact |-> t.intact,
            skipped |-> t.skipped]
  BY <1>1 DEF Served, Synchronisation
<1>11. t.peer \in Nodes /\ t.digests \in [Keys -> DigestValues \union {None}]
       /\ t.skipped \subseteq Keys
  BY <1>1 DEF Synchronisation
<1>12. t \in Synchronisation
  BY <1>5, <1>6, <1>7, <1>8, <1>9, <1>10, <1>11 DEF Synchronisation
<1>13. ASSUME t.cursor # None PROVE t.cursor % PageSize = 0
  <2>1. t.cursor = s.cursor + PageSize
    BY <1>1, <1>13
  <2>2. PageSize \in Nat \ {0}
    BY GossipAssumption
  <2>0. \A a \in Int, b \in Nat \ {0} : a = (a \div b) * b + (a % b) /\ a \div b \in Int
    OBVIOUS
  <2> DEFINE q == s.cursor \div PageSize
  <2>a. s.cursor \in Int /\ s.cursor % PageSize = 0
    BY <1>1
  <2>b. s.cursor = q * PageSize + (s.cursor % PageSize) /\ q \in Int
    BY <2>0, <2>2, <2>a
  <2>3. s.cursor = q * PageSize + 0 /\ q \in Int
    BY <2>a, <2>b
  <2> HIDE DEF q
  <2>4. s.cursor + PageSize = (q + 1) * PageSize + 0
    BY <2>2, <2>3
  <2>5. q + 1 \in Int /\ 0 \in 0..(PageSize - 1)
    BY <2>2, <2>3
  <2>6. ((q + 1) * PageSize + 0) % PageSize = 0
    BY <2>2, <2>5
  <2> QED
    BY <2>1, <2>4, <2>6
<1> QED
  BY <1>1, <1>4, <1>12, <1>13 DEF SyncOK

\* A response brings the next items of a list that has kept all it had.
LEMMA ServedCovers ==
    ASSUME TypeOK, Provenance, NEW n \in Nodes, sync[n] # None, Requesting(n),
           NEW s, s = sync[n], NEW t, t = Served(n, s.digests), Covers(n, s)
    PROVE  Covers(n, t)
<1> DEFINE items == Items(s.peer, s.digests)
           end == s.cursor + PageSize
           served == {i \in items : Place(items, i) \in (s.cursor + 1)..end}
<1>a. Answered(n, s, t)
  BY ServedParts
<1>0. /\ t.peer = s.peer /\ t.digests = s.digests
      /\ t.page = {[kind |-> i.kind, key |-> i.key, content |-> Content(s.peer, i)] :
                      i \in served}
      /\ t.cursor = IF end < Cardinality(items) THEN end ELSE None
      /\ t.had = IF s.cursor = 0 THEN Tops(s.peer) ELSE s.had
      /\ t.listed = IF end < Cardinality(items) THEN items ELSE {}
      /\ t.intact = (s.intact /\ s.listed \subseteq items) /\ t.skipped = s.skipped
      /\ s \in Synchronisation /\ s.cursor \in Nat /\ end \in Nat /\ end > s.cursor
      /\ s.peer \in Nodes /\ s.page = {} /\ s.cursor % PageSize = 0
      /\ s.peer \in known[n]
  BY <1>a DEF Answered
<1> DEFINE p == s.peer
<1> DEFINE Comes(k) == \E i \in items :
              /\ i.key = k /\ Place(items, i) > s.cursor
              /\ IF i.kind = "mutation" THEN AtLeast(entries[p][k].stamp, t.had[k])
                                        ELSE AtLeast(fences[p][k], t.had[k])
<1>1. /\ t.peer = p /\ t.digests = s.digests
      /\ t.page = {[kind |-> i.kind, key |-> i.key, content |-> Content(p, i)] :
                      i \in served}
      /\ t.cursor = IF end < Cardinality(items) THEN end ELSE None
      /\ t.had = IF s.cursor = 0 THEN Tops(p) ELSE s.had
      /\ t.listed = IF end < Cardinality(items) THEN items ELSE {}
      /\ t.intact = (s.intact /\ s.listed \subseteq items) /\ t.skipped = s.skipped
      /\ s \in Synchronisation /\ s.cursor \in Nat /\ end \in Nat /\ end > s.cursor
      /\ p \in Nodes /\ s.page = {}
  BY <1>0
<1>2. /\ items \subseteq Item
      /\ \A i \in items :
            IF i.kind = "mutation" THEN entries[p][i.key] # None ELSE fences[p][i.key] # None
  BY <1>1, ItemsAre
<1>3. RegistriesTyped /\ made \subseteq Mutations
  BY TypeParts
<1>4. \A k \in Keys : s.digests[k] # None => AtLeast(Top(n, k), s.digests[k].stamp)
  BY DEF Covers
<1>5. t.cursor # 0
  BY <1>1, AbsenceAssumption
<1>6. t.cursor = None => t.listed = {}
  BY <1>1, AbsenceAssumption
<1>7. ASSUME t.intact, NEW k \in Keys
      PROVE  /\ AtLeast(Top(p, k), t.had[k])
             /\ k \in t.skipped \/ AtLeast(Top(n, k), t.had[k]) \/ Comes(k)
  <2>1. CASE s.cursor = 0
    <3>1. t.had[k] = Top(p, k)
      BY <1>1, <2>1 DEF Tops
    <3>2. AtLeast(Top(p, k), t.had[k])
      BY <3>1 DEF AtLeast
    <3>3. CASE k \in Differing(p, s.digests)
      <4>1. CASE entries[p][k] # None
        <5>1. PICK i : i = [kind |-> "mutation", key |-> k]
          OBVIOUS
        <5>2. i \in items /\ i.kind = "mutation" /\ i.key = k
          BY <3>3, <4>1, <5>1 DEF Items, Item, ItemKinds
        <5>3. AtLeast(entries[p][k].stamp, t.had[k])
          BY <3>2, <4>1 DEF Top, TopOf
        <5>4. Place(items, i) > s.cursor
          BY <1>1, <1>2, <2>1, <5>2, Places
        <5> HIDE DEF items
        <5> QED
          BY <3>2, <5>2, <5>3, <5>4
      <4>2. CASE entries[p][k] = None /\ fences[p][k] # None
        <5>1. PICK i : i = [kind |-> "fence", key |-> k]
          OBVIOUS
        <5>2. i \in items /\ i.kind = "fence" /\ i.key = k
          BY <3>3, <4>2, <5>1 DEF Items, Item, ItemKinds
        <5>3. AtLeast(fences[p][k], t.had[k])
          BY <3>2, <4>2 DEF Top, TopOf
        <5>4. Place(items, i) > s.cursor
          BY <1>1, <1>2, <2>1, <5>2, Places
        <5> HIDE DEF items
        <5> QED
          BY <3>2, <5>2, <5>3, <5>4
      <4>3. CASE entries[p][k] = None /\ fences[p][k] = None
        <5>1. t.had[k] = None
          BY <3>1, <4>3 DEF Top, TopOf
        <5> QED
          BY <3>2, <5>1 DEF AtLeast
      <4> QED
        BY <4>1, <4>2, <4>3
    <3>4. CASE k \notin Differing(p, s.digests)
      <4>1. PICK shard \in Shards : k \in shard
        BY GossipAssumption
      <4>2. s.digests[k] = Digests(p)[k]
        BY <3>4, <4>1 DEF Differing
      <4>3. CASE s.digests[k] = None
        <5>1. t.had[k] = None
          BY <1>1, <1>3, <3>1, <4>2, <4>3, DigestsTyped
        <5> QED
          BY <3>2, <5>1 DEF AtLeast
      <4>4. CASE s.digests[k] # None
        <5>1. s.digests[k].stamp = t.had[k]
          BY <1>1, <1>3, <3>1, <4>2, <4>4, DigestsTyped
        <5>2. AtLeast(Top(n, k), t.had[k])
          BY <1>4, <4>4, <5>1
        <5> QED
          BY <3>2, <5>2
      <4> QED
        BY <4>3, <4>4
    <3> QED
      BY <3>3, <3>4
  <2>2. CASE s.cursor # 0
    <3>1. t.had = s.had /\ s.intact /\ s.listed \subseteq items
      BY <1>1, <1>7, <2>2
    <3>2. /\ AtLeast(Top(p, k), s.had[k])
          /\ k \in s.skipped \/ AtLeast(Top(n, k), s.had[k]) \/ InPage(s, k) \/ Coming(s, k)
      BY <2>2, <3>1 DEF Covers
    <3>3. ~InPage(s, k)
      BY <1>1 DEF InPage
    <3>4. ASSUME Coming(s, k) PROVE Comes(k)
      <4>1. PICK i \in s.listed : /\ i.key = k /\ Place(s.listed, i) > s.cursor
                                  /\ i.kind = "fence" => AtLeast(fences[p][k], s.had[k])
        BY <3>4 DEF Coming
      <4>2. i \in items /\ i \in Item
        BY <1>2, <3>1
      <4>3. Place(items, i) > s.cursor
        <5> HIDE DEF items
        <5>1. /\ Place(s.listed, i) \in Nat /\ Place(items, i) \in Nat
              /\ Place(s.listed, i) <= Place(items, i)
          BY <1>2, <3>1, Places
        <5> QED
          BY <1>1, <4>1, <5>1
      <4>4. CASE i.kind = "mutation"
        <5>1. entries[p][k] # None
          BY <1>2, <4>1, <4>2, <4>4
        <5>2. AtLeast(entries[p][k].stamp, t.had[k])
          BY <3>1, <3>2, <5>1 DEF Top, TopOf
        <5> HIDE DEF items
        <5> QED
          BY <4>1, <4>2, <4>3, <4>4, <5>2
      <4>5. CASE i.kind # "mutation"
        <5>1. i.kind = "fence"
          BY <4>2, <4>5 DEF Item, ItemKinds
        <5>2. AtLeast(fences[p][k], t.had[k])
          BY <3>1, <4>1, <5>1
        <5> HIDE DEF items
        <5> QED
          BY <4>1, <4>2, <4>3, <4>5, <5>2
      <4> QED
        BY <4>4, <4>5
    <3> QED
      BY <1>1, <3>1, <3>2, <3>3, <3>4
  <2> QED
    BY <2>1, <2>2
<1>8. ASSUME NEW k \in Keys, Comes(k) PROVE InPage(t, k) \/ Coming(t, k)
  <2>1. PICK i \in items :
          /\ i.key = k /\ Place(items, i) > s.cursor
          /\ IF i.kind = "mutation" THEN AtLeast(entries[p][k].stamp, t.had[k])
                                    ELSE AtLeast(fences[p][k], t.had[k])
    BY <1>8
  <2>2. i \in Item
    BY <1>2
  <2>3. /\ Place(items, i) \in Nat /\ Place(items, i) <= Cardinality(items)
        /\ Cardinality(items) \in Nat
    <3> HIDE DEF items
    <3> QED
      BY <1>2, Places
  <2>4. CASE Place(items, i) <= end
    <3>1. i \in served
      BY <1>1, <2>1, <2>3, <2>4
    <3>2. PICK it : it = [kind |-> i.kind, key |-> i.key, content |-> Content(p, i)]
      OBVIOUS
    <3>3. it \in t.page
      BY <1>1, <3>1, <3>2
    <3>4. IF i.kind = "mutation" THEN it.content.stamp = entries[p][i.key].stamp
                                 ELSE it.content = fences[p][i.key]
      BY <1>1, <1>2, <1>3, <2>2, <3>2, ContentCarries
    <3>5. it.key = k /\ AtLeast(Brings(it), t.had[k])
      BY <2>1, <3>2, <3>4 DEF Brings
    <3> QED
      BY <3>3, <3>5 DEF InPage
  <2>5. CASE Place(items, i) > end
    <3>1. end < Cardinality(items)
      BY <1>1, <2>3, <2>5
    <3>2. t.listed = items /\ t.cursor = end
      BY <1>1, <3>1
    <3>3. i.kind = "fence" => AtLeast(fences[t.peer][k], t.had[k])
      BY <1>1, <2>1
    <3> QED
      BY <2>1, <2>5, <3>2, <3>3 DEF Coming
  <2> QED
    BY <1>1, <2>3, <2>4, <2>5
<1> QED
  BY <1>1, <1>4, <1>5, <1>6, <1>7, <1>8 DEF Covers

-----------------------------------------------------------------------------
(* Synchronisations after a step.                                          *)

\* The synchronisation of r after a step.
SyncKept(r) == \A s : s = sync'[r] /\ s # None => SyncOK(r, s)' /\ Covers(r, s)'

\* The rest of the type invariant.
OthersTyped ==
    /\ known \in [Nodes -> SUBSET Nodes] /\ \A n \in Nodes : n \notin known[n]
    /\ ready \in [Nodes -> BOOLEAN]
    /\ made \subseteq Mutations /\ failures \in 0..MaxFailures
    /\ ClocksTyped
    /\ net \subseteq [to : Nodes, mutation : made]

\* The conjunct of TypeOK on synchronisations.
SyncTyped == sync \in [Nodes -> Synchronisation \union {None}]

\* The invariant after a step, from its parts.
LEMMA PartsMakeInv ==
    ASSUME RegistriesTyped', PendingOK', OthersTyped', SyncTyped', Provenance',
           \A r \in Nodes : SyncKept(r)
    PROVE  IInv'
<1>1. ASSUME NEW r \in Nodes, sync'[r] # None
      PROVE  SyncOK(r, sync[r])' /\ Covers(r, sync[r])'
  <2>1. PICK s : s = sync'[r]
    OBVIOUS
  <2>2. SyncOK(r, s)' /\ Covers(r, s)'
    BY <1>1, <2>1 DEF SyncKept
  <2> QED
    BY <2>1, <2>2 DEF SyncOK, Covers, Coming
<1>2. \A r \in Nodes : sync'[r] # None => Covers(r, sync[r])'
  BY <1>1
<1>3. SyncInv'
  BY <1>2 DEF SyncInv
<1>4. \A r \in Nodes : sync'[r] # None => SyncOK(r, sync[r])'
  BY <1>1
<1>5. TypeOK'
  BY <1>4
  DEF TypeOK, RegistriesTyped, PendingOK, OthersTyped, ClocksTyped, SyncTyped, SyncOK, Carries
<1> QED
  BY <1>3, <1>5 DEF IInv

\* The parts of the invariant.
LEMMA InvParts ==
    ASSUME IInv
    PROVE  /\ TypeOK /\ RegistriesTyped /\ PendingOK /\ OthersTyped /\ SyncTyped /\ Provenance
           /\ \A r \in Nodes : sync[r] # None => SyncOK(r, sync[r]) /\ Covers(r, sync[r])
  BY TypeParts DEF IInv, SyncInv, OthersTyped, SyncTyped

\* A synchronisation that the step does not touch.
LEMMA SyncStays ==
    ASSUME IInv, RegistriesTyped', made \subseteq made', NEW r \in Nodes, sync'[r] = sync[r],
           known[r] \subseteq known'[r], Grows(r),
           sync[r] # None => Grows(sync[r].peer)
    PROVE  SyncKept(r)
<1> SUFFICES ASSUME NEW s, s = sync'[r], s # None PROVE SyncOK(r, s)' /\ Covers(r, s)'
  BY DEF SyncKept
<1>1. SyncOK(r, s) /\ Covers(r, s) /\ Grows(s.peer)
  BY InvParts
<1>2. s \in Synchronisation
  BY <1>1 DEF SyncOK
<1>3. SyncOK(r, s)'
  BY <1>1 DEF SyncOK, Carries
<1>4. [s EXCEPT !.page = s.page, !.skipped = s.skipped] = s
  BY <1>2 DEF Synchronisation
<1>5. RegistriesTyped /\ made \subseteq Mutations
  BY InvParts DEF OthersTyped
<1>6. PICK page, skipped : page = s.page /\ skipped = s.skipped
  OBVIOUS
<1>7. Covers(r, [s EXCEPT !.page = page, !.skipped = skipped])'
  BY <1>1, <1>2, <1>5, <1>6, CoversGrow
<1>8. [s EXCEPT !.page = page, !.skipped = skipped] = s
  BY <1>4, <1>6
<1>9. PICK t : t = [s EXCEPT !.page = page, !.skipped = skipped]
  OBVIOUS
<1>10. Covers(r, t)'
  BY <1>7, <1>9
<1> QED
  BY <1>3, <1>8, <1>9, <1>10

\* The peer of a synchronisation is a node.
LEMMA PeerIsNode ==
    ASSUME IInv, NEW r \in Nodes, sync[r] # None
    PROVE  sync[r].peer \in Nodes
<1>1. SyncOK(r, sync[r])
  BY InvParts
<1> QED
  BY <1>1 DEF SyncOK, Synchronisation

\* No synchronisation is touched.
LEMMA AllStay ==
    ASSUME IInv, RegistriesTyped', made \subseteq made', sync' = sync,
           \A r \in Nodes : known[r] \subseteq known'[r] /\ Grows(r)
    PROVE  SyncTyped' /\ \A r \in Nodes : SyncKept(r)
<1>1. SyncTyped'
  BY InvParts DEF SyncTyped
<1> QED
  BY <1>1, PeerIsNode, SyncStays

\* Only that of n is.
LEMMA OneSyncKeeps ==
    ASSUME IInv, RegistriesTyped', made' = made, known' = known,
           \A r \in Nodes : Grows(r), NEW n \in Nodes, NEW x \in Synchronisation \union {None},
           sync' = [sync EXCEPT ![n] = x],
           x # None => SyncOK(n, x)' /\ Covers(n, x)'
    PROVE  SyncTyped' /\ \A r \in Nodes : SyncKept(r)
<1>0. SyncTyped
  BY InvParts
<1>1. SyncTyped'
  BY <1>0 DEF SyncTyped
<1>2. \A r \in Nodes : sync'[r] = IF r = n THEN x ELSE sync[r]
  BY <1>0 DEF SyncTyped
<1>3. ASSUME NEW r \in Nodes, r # n PROVE SyncKept(r)
  <2>1. sync'[r] = sync[r]
    BY <1>2, <1>3
  <2>2. sync[r] # None => Grows(sync[r].peer)
    BY PeerIsNode
  <2> QED
    BY <2>1, <2>2, SyncStays
<1>4. SyncKept(n)
  BY <1>2 DEF SyncKept
<1> QED
  BY <1>1, <1>3, <1>4

-----------------------------------------------------------------------------
(* The invariant, action by action.                                        *)

\* Nodes start empty.
LEMMA InitKeeps == Init => IInv
<1> SUFFICES ASSUME Init PROVE IInv
  OBVIOUS
<1>1. \A n \in Nodes, k \in Keys : entries[n][k] = None /\ fences[n][k] = None
  BY DEF Init, Nothing
<1>2. RegistriesTyped
  BY DEF Init, Nothing, RegistriesTyped
<1>3. Provenance
  BY <1>1 DEF Provenance, Sound
<1>4. PendingOK
  BY GossipAssumption DEF Init, Silence, PendingOK
<1>5. sync = [n \in Nodes |-> None] /\ SyncInv
  BY DEF Init, SyncInv
<1>6. /\ known \in [Nodes -> SUBSET Nodes] /\ \A n \in Nodes : n \notin known[n]
      /\ ready \in [Nodes -> BOOLEAN] /\ ClocksTyped
      /\ made \subseteq Mutations /\ failures \in 0..MaxFailures
      /\ net \subseteq [to : Nodes, mutation : made]
  BY GossipAssumption DEF Init, ClocksTyped
<1>7. TypeOK
  BY <1>2, <1>4, <1>5, <1>6, TypeParts
<1> QED
  BY <1>3, <1>5, <1>7 DEF IInv

\* A step that changes nothing.
LEMMA StutterKeeps ==
    ASSUME IInv, UNCHANGED vars
    PROVE  IInv'
<1>1. RegistriesTyped' /\ PendingOK' /\ OthersTyped' /\ SyncTyped' /\ Provenance'
  BY InvParts
  DEF vars, RegistriesTyped, PendingOK, OthersTyped, ClocksTyped, SyncTyped, Provenance
<1>2. \A r \in Nodes : Grows(r)
  BY InvParts, RestGrows DEF vars
<1>3. \A r \in Nodes : SyncKept(r)
  BY <1>1, <1>2, AllStay DEF vars
<1> QED
  BY <1>1, <1>3, PartsMakeInv

\* A client or the wheel makes a mutation: the node's registry takes it over.
LEMMA MakeKeeps ==
    ASSUME IInv, NEW m \in Mutations, Make(m)
    PROVE  IInv'
<1> DEFINE n == m.stamp.version.origin
<1>1. n \in Nodes
  BY GossipAssumption
<1>2. /\ made' = made \union {m} /\ Apply(n, m)
      /\ clock' = [clock EXCEPT ![n] = m.stamp.version]
      /\ UNCHANGED <<known, ready, sync, net, ahead, failures>>
  BY DEF Make
<1>3. m \in made' /\ made \subseteq made' /\ made' \subseteq Mutations
  BY <1>2, InvParts DEF OthersTyped
<1> HIDE DEF n
<1>4. RegistriesTyped' /\ Provenance' /\ PendingOK' /\ \A r \in Nodes : Grows(r)
  BY <1>1, <1>2, <1>3, InvParts, ApplyKeeps
<1>5. OthersTyped'
  <2>1. m.stamp.version \in Version
    BY MutationParts DEF Stamp
  <2>2. ClocksTyped'
    BY <1>2, <2>1, InvParts DEF OthersTyped, ClocksTyped
  <2> QED
    BY <1>2, <1>3, <2>2, InvParts DEF OthersTyped
<1>6. SyncTyped' /\ \A r \in Nodes : SyncKept(r)
  BY <1>2, <1>3, <1>4, AllStay
<1> QED
  BY <1>4, <1>5, <1>6, PartsMakeInv

\* The janitor collects a tombstone; the fence stays.
LEMMA CollectInv ==
    ASSUME IInv, NEW n \in Nodes, NEW k \in Keys, Collect(n, k)
    PROVE  IInv'
<1>1. UNCHANGED <<fences, pending, known, ready, sync, net, made, clocks, failures>>
  BY DEF Collect
<1>2. RegistriesTyped' /\ Provenance' /\ \A r \in Nodes : Grows(r)
  BY InvParts, CollectKeeps
<1>3. OthersTyped' /\ PendingOK'
  BY <1>1, InvParts DEF OthersTyped, ClocksTyped, clocks, PendingOK
<1>4. SyncTyped' /\ \A r \in Nodes : SyncKept(r)
  BY <1>1, <1>2, AllStay
<1> QED
  BY <1>2, <1>3, <1>4, PartsMakeInv

\* A node learns of another.
LEMMA MeetKeeps ==
    ASSUME IInv, NEW n \in Nodes, NEW m \in Nodes, Meet(n, m)
    PROVE  IInv'
<1>1. /\ known' = [known EXCEPT ![n] = @ \union {m}]
      /\ UNCHANGED <<registries, pending, ready, sync, net, made, clocks, failures>>
  BY DEF Meet
<1>2. RegistriesTyped' /\ Provenance' /\ \A r \in Nodes : Grows(r)
  BY <1>1, InvParts, RegistriesRest
<1>3. PendingOK'
  BY <1>1, InvParts DEF PendingOK
<1>4. /\ known' \in [Nodes -> SUBSET Nodes]
      /\ \A r \in Nodes : known'[r] = IF r = n THEN known[r] \union {m} ELSE known[r]
  BY <1>1, InvParts DEF OthersTyped
<1>5. \A r \in Nodes : known[r] \subseteq known'[r] /\ r \notin known'[r]
  BY <1>4, InvParts DEF OthersTyped, Meet
<1>6. OthersTyped'
  BY <1>1, <1>4, <1>5, InvParts DEF OthersTyped, ClocksTyped, clocks
<1>7. SyncTyped' /\ \A r \in Nodes : SyncKept(r)
  BY <1>1, <1>2, <1>5, AllStay
<1> QED
  BY <1>2, <1>3, <1>6, <1>7, PartsMakeInv

\* What arrives was pending at the sender.
LEMMA RoundKeeps ==
    ASSUME IInv, NEW n \in Nodes, Round(n)
    PROVE  IInv'
<1>1. /\ pending' = [pending EXCEPT ![n] =
                        [m \in Mutations |-> IF m \in Pending(n) THEN @[m] - 1 ELSE 0]]
      /\ Push(n) /\ UNCHANGED <<registries, known, ready, sync, made, clocks, failures>>
  BY DEF Round
<1>2. RegistriesTyped' /\ Provenance' /\ \A r \in Nodes : Grows(r)
  BY <1>1, InvParts, RegistriesRest
<1>3. PendingOK
  BY InvParts
<1>4. PendingOK'
  <2> DEFINE after == [m \in Mutations |-> IF m \in Pending(n) THEN pending[n][m] - 1 ELSE 0]
  <2>1. pending' = [pending EXCEPT ![n] = after]
    BY <1>1
  <2>2. ASSUME NEW m \in Mutations
        PROVE  after[m] \in 0..PendingRounds /\ (after[m] > 0 => pending[n][m] > 0)
    <3>1. pending[n][m] \in 0..PendingRounds /\ PendingRounds \in Nat
      BY <1>3, GossipAssumption DEF PendingOK
    <3>2. m \in Pending(n) <=> pending[n][m] > 0
      BY DEF Pending
    <3> QED
      BY <3>1, <3>2
  <2>3. after \in [Mutations -> 0..PendingRounds]
    BY <2>2
  <2> HIDE DEF after
  <2>4. pending' \in [Nodes -> [Mutations -> 0..PendingRounds]]
    BY <1>3, <2>1, <2>3 DEF PendingOK
  <2>5. \A r \in Nodes : pending'[r] = IF r = n THEN after ELSE pending[r]
    BY <1>3, <2>1 DEF PendingOK
  <2>6. \A r \in Nodes, m \in Mutations : pending'[r][m] > 0 => m \in made'
    BY <1>1, <1>3, <2>2, <2>5 DEF PendingOK
  <2> QED
    BY <2>4, <2>6 DEF PendingOK
<1>5. OthersTyped'
  <2>1. PICK arriving \in SUBSET [to : Targets(n), mutation : Pending(n)] :
           net' = net \union arriving
    BY <1>1 DEF Push
  <2>2. Targets(n) \subseteq Nodes
    BY InvParts, GossipAssumption DEF Targets, OthersTyped
  <2>3. Pending(n) \subseteq made
    BY <1>3 DEF Pending, PendingOK
  <2>4. arriving \subseteq [to : Nodes, mutation : made]
    BY <2>2, <2>3
  <2> QED
    BY <1>1, <2>1, <2>4, InvParts DEF OthersTyped, ClocksTyped, clocks
<1>6. SyncTyped' /\ \A r \in Nodes : SyncKept(r)
  BY <1>1, <1>2, AllStay
<1> QED
  BY <1>2, <1>4, <1>5, <1>6, PartsMakeInv

\* A wall clock runs on.
LEMMA CatchUpKeeps ==
    ASSUME IInv, NEW n \in Nodes, CatchUp(n)
    PROVE  IInv'
<1>1. PICK m : ahead' = [ahead EXCEPT ![n] = @ \ {m}]
  BY DEF CatchUp
<1>2. UNCHANGED <<registries, pending, known, ready, sync, net, made, clock, failures>>
  BY DEF CatchUp
<1>3. RegistriesTyped' /\ Provenance' /\ \A r \in Nodes : Grows(r)
  BY <1>2, InvParts, RegistriesRest
<1>4. OthersTyped' /\ PendingOK'
  BY <1>1, <1>2, InvParts DEF OthersTyped, ClocksTyped, PendingOK
<1>5. SyncTyped' /\ \A r \in Nodes : SyncKept(r)
  BY <1>2, <1>3, AllStay
<1> QED
  BY <1>3, <1>4, <1>5, PartsMakeInv

\* A delta arrives: it was made, and it is relayed if it was new.
LEMMA DeltaKeeps ==
    ASSUME IInv, NEW d \in net, HandleDelta(d)
    PROVE  IInv'
<1>1. /\ net' = net \ {d} /\ ApplyRemote(d.to, d.mutation)
      /\ UNCHANGED <<known, ready, sync, made, ahead, failures>>
  BY DEF HandleDelta
<1>2. d.to \in Nodes /\ d.mutation \in made /\ made \subseteq Mutations /\ ClocksTyped
  BY InvParts DEF OthersTyped
<1>3. /\ RegistriesTyped' /\ Provenance' /\ PendingOK' /\ ClocksTyped'
      /\ \A r \in Nodes : Grows(r)
  BY <1>1, <1>2, InvParts, RemoteKeeps
<1>4. OthersTyped'
  BY <1>1, <1>3, InvParts DEF OthersTyped
<1>5. SyncTyped' /\ \A r \in Nodes : SyncKept(r)
  BY <1>1, <1>3, AllStay
<1> QED
  BY <1>3, <1>4, <1>5, PartsMakeInv

\* The synchronisations with the restarted node cease to be intact.
LEMMA RestartInv ==
    ASSUME IInv, NEW n \in Nodes, Restart(n)
    PROVE  IInv'
<1>1. /\ failures < MaxFailures /\ failures' = failures + 1
      /\ known' = [known EXCEPT ![n] = {}]
      /\ ready' = [ready EXCEPT ![n] = Seeds[n] = {}]
      /\ sync' = [i \in Nodes |-> IF i = n THEN None ELSE WithoutPeer(sync[i], n)]
      /\ clock' = [clock EXCEPT ![n] = None] /\ UNCHANGED <<net, made, ahead>>
  BY DEF Restart
<1>2. RegistriesTyped' /\ Provenance' /\ PendingOK' /\ \A r \in Nodes \ {n} : Grows(r)
  BY InvParts, RestartKeeps
<1>3. OthersTyped'
  BY <1>1, InvParts, GossipAssumption DEF OthersTyped, ClocksTyped
<1>4. ASSUME NEW r \in Nodes
      PROVE  SyncKept(r) /\ sync'[r] \in Synchronisation \union {None}
  <2>0. sync'[r] = IF r = n THEN None ELSE WithoutPeer(sync[r], n)
    BY <1>1
  <2>1. CASE r = n
    BY <2>0, <2>1 DEF SyncKept
  <2>2. CASE r # n /\ (sync[r] = None \/ sync[r].peer # n)
    <3>1. sync'[r] = sync[r]
      BY <2>0, <2>2 DEF WithoutPeer
    <3>2. known[r] \subseteq known'[r]
      BY <1>1, <2>2, InvParts DEF OthersTyped
    <3>3. sync[r] # None => Grows(sync[r].peer)
      BY <1>2, <2>2, PeerIsNode
    <3>4. SyncKept(r)
      BY <1>1, <1>2, <2>2, <3>1, <3>2, <3>3, SyncStays
    <3> QED
      BY <3>1, <3>4, InvParts DEF SyncTyped
  <2>3. CASE r # n /\ sync[r] # None /\ sync[r].peer = n
    <3>1. PICK s : s = sync[r]
      OBVIOUS
    <3>2. PICK t : t = [s EXCEPT !.intact = FALSE]
      OBVIOUS
    <3>3. sync'[r] = t
      BY <2>0, <2>3, <3>1, <3>2 DEF WithoutPeer
    <3>4. SyncOK(r, s) /\ Covers(r, s) /\ s \in Synchronisation
      BY <2>3, <3>1, InvParts DEF SyncOK
    <3>5. /\ t.peer = s.peer /\ t.digests = s.digests /\ t.page = s.page
          /\ t.cursor = s.cursor /\ t.had = s.had /\ t.listed = s.listed /\ t.intact = FALSE
          /\ t.skipped = s.skipped /\ t \in Synchronisation
      BY <3>2, <3>4 DEF Synchronisation
    <3>6. SyncOK(r, t)'
      <4>1. known'[r] = known[r]
        BY <1>1, <2>3, InvParts DEF OthersTyped
      <4> QED
        BY <1>1, <3>4, <3>5, <4>1 DEF SyncOK, Carries
    <3>7. ASSUME NEW k \in Keys, t.digests[k] # None
          PROVE  AtLeast(Top(r, k)', t.digests[k].stamp)
      <4>1. AtLeast(Top(r, k), t.digests[k].stamp)
        BY <3>4, <3>5, <3>7 DEF Covers
      <4>2. t.digests[k].stamp \in Stamp
        <5>1. t.digests[k] \in DigestValues
          BY <3>5, <3>7 DEF Synchronisation
        <5> QED
          BY <5>1 DEF DigestValues
      <4>3. AtLeast(Top(r, k)', Top(r, k))
        BY <1>2, <2>3 DEF Grows, Top
      <4>4. Top(r, k) \in Stamp \union {None} /\ Top(r, k)' \in Stamp \union {None}
        BY <1>2, InvParts, TopTyped, NextTopTyped
      <4> QED
        BY <4>1, <4>2, <4>3, <4>4, AtLeastOrder
    <3>8. Covers(r, t)'
      BY <3>4, <3>5, <3>7 DEF Covers
    <3> QED
      BY <3>3, <3>5, <3>6, <3>8 DEF SyncKept
  <2> QED
    BY <2>1, <2>2, <2>3
<1>5. SyncTyped'
  BY <1>1, <1>4 DEF SyncTyped
<1> QED
  BY <1>2, <1>3, <1>4, <1>5, PartsMakeInv

-----------------------------------------------------------------------------
(* The steps of synchronisations.                                          *)

\* A step of the requester's that leaves the registries alone.
LEMMA RequestKeeps ==
    ASSUME IInv, NEW n \in Nodes, NEW x \in Synchronisation \union {None},
           UNCHANGED <<registries, pending, known, net, made>>, OthersTyped',
           sync' = [sync EXCEPT ![n] = x],
           x # None => SyncOK(n, x) /\ Covers(n, x)
    PROVE  IInv'
<1>1. RegistriesTyped' /\ Provenance' /\ \A r \in Nodes : Grows(r)
  BY InvParts, RegistriesRest
<1>2. PendingOK'
  BY InvParts DEF PendingOK
<1>3. x # None => SyncOK(n, x)' /\ Covers(n, x)'
  BY DEF SyncOK, Carries, Covers, InPage, Coming, Top, registries
<1>4. SyncTyped' /\ \A r \in Nodes : SyncKept(r)
  BY <1>1, <1>3, OneSyncKeeps
<1> QED
  BY <1>1, <1>2, <1>4, PartsMakeInv

\* The digests at the start are what the registry stands for.
LEMMA StartKeeps ==
    ASSUME IInv, NEW n \in Nodes, NEW m \in Nodes, StartSync(n, m)
    PROVE  IInv'
<1> DEFINE x == [peer |-> m, digests |-> Digests(n), page |-> {}, cursor |-> 0,
                 had |-> Nothing, listed |-> {}, intact |-> TRUE, skipped |-> {}]
<1>1. /\ m \in known[n] /\ sync' = [sync EXCEPT ![n] = x]
      /\ UNCHANGED <<registries, pending, known, ready, net, made, clocks, failures>>
  BY DEF StartSync
<1>2. PICK t : t = x
  OBVIOUS
<1>3. /\ t.peer = m /\ t.digests = Digests(n) /\ t.page = {} /\ t.cursor = 0
      /\ t.had = Nothing /\ t.listed = {} /\ t.intact = TRUE
  BY <1>2
<1>4. RegistriesTyped /\ OthersTyped
  BY InvParts
<1>5. t \in Synchronisation
  <2>1. Digests(n) \in [Keys -> DigestValues \union {None}]
    BY <1>4, DigestsTyped
  <2>2. Nothing \in [Keys -> Stamp \union {None}]
    BY DEF Nothing
  <2> QED
    BY <1>2, <2>1, <2>2 DEF Synchronisation
<1>6. SyncOK(n, t)
  <2>1. 0 % PageSize = 0
    BY GossipAssumption
  <2> QED
    BY <1>1, <1>3, <1>5, <2>1 DEF SyncOK
<1>7. Covers(n, t)
  <2>1. ASSUME NEW k \in Keys, t.digests[k] # None
        PROVE  AtLeast(Top(n, k), t.digests[k].stamp)
    <3>1. t.digests[k].stamp = Top(n, k)
      BY <1>3, <1>4, <2>1, DigestsTyped
    <3> QED
      BY <3>1 DEF AtLeast
  <2>2. t.cursor # None
    BY <1>3, AbsenceAssumption
  <2> QED
    BY <1>3, <2>1, <2>2 DEF Covers
<1>8. OthersTyped'
  BY <1>1, <1>4 DEF OthersTyped, ClocksTyped, clocks
<1>9. sync' = [sync EXCEPT ![n] = t]
  BY <1>1, <1>2
<1> HIDE DEF x
<1> QED
  BY <1>1, <1>5, <1>6, <1>7, <1>8, <1>9, RequestKeeps

\* The peer answers: the next items enter the page, the cursor follows.
LEMMA ServeKeeps ==
    ASSUME IInv, NEW n \in Nodes, Serve(n)
    PROVE  IInv'
<1>1. /\ Requesting(n) /\ sync[n] # None
      /\ sync' = [sync EXCEPT ![n] = Served(n, sync[n].digests)]
      /\ UNCHANGED <<registries, pending, known, ready, net, made, clocks, failures>>
  BY DEF Serve, Requesting
<1>2. PICK s : s = sync[n]
  OBVIOUS
<1>3. PICK t : t = Served(n, s.digests)
  OBVIOUS
<1>4. TypeOK /\ Provenance /\ Covers(n, s)
  BY <1>1, <1>2, InvParts
<1>5. t \in Synchronisation /\ SyncOK(n, t)
  BY <1>1, <1>2, <1>3, <1>4, ServedOK
<1>6. Covers(n, t)
  BY <1>1, <1>2, <1>3, <1>4, ServedCovers
<1>7. sync' = [sync EXCEPT ![n] = t]
  BY <1>1, <1>2, <1>3
<1>8. OthersTyped'
  BY <1>1, InvParts DEF OthersTyped, ClocksTyped, clocks
<1> QED
  BY <1>1, <1>5, <1>6, <1>7, <1>8, RequestKeeps

\* A synchronisation that ends leaves nothing.
LEMMA EndKeeps ==
    ASSUME IInv, NEW n \in Nodes, Refuse(n) \/ Fail(n) \/ Finish(n)
    PROVE  IInv'
<1>1. /\ sync' = [sync EXCEPT ![n] = None]
      /\ UNCHANGED <<registries, pending, known, net, made, clocks>>
  BY DEF Refuse, Fail, Finish, Succeed
<1>2. OthersTyped'
  <2>1. OthersTyped
    BY InvParts
  <2>2. ready' \in [Nodes -> BOOLEAN]
    BY <2>1 DEF Refuse, Fail, Finish, Succeed, OthersTyped
  <2>3. failures' \in 0..MaxFailures
    BY <2>1, GossipAssumption DEF Refuse, Fail, Finish, Succeed, OthersTyped
  <2> QED
    BY <1>1, <2>1, <2>2, <2>3 DEF OthersTyped, ClocksTyped, clocks
<1> QED
  BY <1>1, <1>2, RequestKeeps

\* What is left of s once item has been imported.
Rest(n, s, item) ==
    [s EXCEPT !.page = @ \ {item},
              !.skipped = IF LeftOut(n, item) THEN @ \union {item.key} ELSE @]

\* The registries as n has taken over an item of the page of s, or left it out.
TakenOver(n, s, item) ==
    /\ \/ LeftOut(n, item)
       \/ AtLeast(TopOf(entries'[n][item.key], fences'[n][item.key]), Brings(item))
    /\ sync' = [sync EXCEPT ![n] = IF Done(Rest(n, s, item)) THEN None ELSE Rest(n, s, item)]

\* What a step does that imports an item of s.
Imported(n, s) ==
    /\ UNCHANGED <<known, net, made, ahead, failures>>
    /\ RegistriesTyped' /\ Provenance' /\ PendingOK' /\ ClocksTyped'
    /\ ready' \in [Nodes -> BOOLEAN]
    /\ \A r \in Nodes : Grows(r)
    /\ s \in Synchronisation
    /\ \E item \in s.page : TakenOver(n, s, item)

\* An item is taken over: the registry grows to what it brings.
LEMMA ImportSplits ==
    ASSUME IInv, NEW n \in Nodes, Import(n), NEW s, s = sync[n]
    PROVE  Imported(n, s)
<1>1. PICK item \in s.page :
        /\ IF Done(Rest(n, s, item)) THEN Succeed(n)
           ELSE sync' = [sync EXCEPT ![n] = Rest(n, s, item)] /\ UNCHANGED ready
        /\ IF item.kind = "mutation"
           THEN ApplyRemote(n, item.content)
           ELSE ApplyFence(n, item.key, item.content) /\ UNCHANGED <<pending, clock>>
  BY DEF Import, Rest
<1>2. UNCHANGED <<known, net, made, ahead, failures>> /\ s # None
  BY DEF Import
<1>3. SyncOK(n, s)
  BY <1>2, InvParts
<1>4. s \in Synchronisation /\ Carries(item, made)
  BY <1>3 DEF SyncOK
<1>5. /\ RegistriesTyped /\ Provenance /\ PendingOK /\ made' = made /\ made \subseteq Mutations
      /\ ready \in [Nodes -> BOOLEAN] /\ ClocksTyped
  BY <1>2, InvParts DEF OthersTyped
<1>6. ready' \in [Nodes -> BOOLEAN]
  BY <1>1, <1>5 DEF Succeed
<1>7. sync' = [sync EXCEPT ![n] = IF Done(Rest(n, s, item)) THEN None ELSE Rest(n, s, item)]
  BY <1>1 DEF Succeed
<1>8. CASE item.kind = "mutation"
  <2>1. /\ item.content \in made /\ item.content.key = item.key
        /\ ApplyRemote(n, item.content) /\ Brings(item) = item.content.stamp
    BY <1>1, <1>4, <1>8 DEF Carries, Brings
  <2>2. PICK m \in made : m = item.content
    BY <2>1
  <2>3. ApplyRemote(n, m) /\ ahead' = ahead
    BY <1>2, <2>1, <2>2
  <2>5. /\ RegistriesTyped' /\ Provenance' /\ PendingOK' /\ ClocksTyped'
        /\ \A r \in Nodes : Grows(r)
        /\ \/ Refuses(n, m)
           \/ AtLeast(TopOf(entries'[n][m.key], fences'[n][m.key]), m.stamp)
    BY <1>5, <2>3, RemoteKeeps
  <2>6. \/ LeftOut(n, item)
        \/ AtLeast(TopOf(entries'[n][item.key], fences'[n][item.key]), Brings(item))
    BY <1>8, <2>1, <2>2, <2>5 DEF LeftOut
  <2> QED
    BY <1>2, <1>4, <1>6, <1>7, <2>5, <2>6 DEF Imported, TakenOver
<1>9. CASE item.kind # "mutation"
  <2>1. PICK m \in made : /\ m.stamp = item.content /\ m.key = item.key
                          /\ m.stamp.kind \in EvictingKinds
    BY <1>4, <1>9 DEF Carries
  <2>2. /\ ApplyFence(n, m.key, m.stamp) /\ pending' = pending /\ clock' = clock
        /\ Brings(item) = m.stamp
    BY <1>1, <1>9, <2>1 DEF Brings
  <2>3. /\ RegistriesTyped' /\ Provenance' /\ \A r \in Nodes : Grows(r)
        /\ AtLeast(TopOf(entries'[n][m.key], fences'[n][m.key]), m.stamp)
    BY <1>5, <2>1, <2>2, FenceKeeps
  <2>4. PendingOK' /\ ClocksTyped'
    BY <1>2, <1>5, <2>2 DEF PendingOK, ClocksTyped
  <2>5. AtLeast(TopOf(entries'[n][item.key], fences'[n][item.key]), Brings(item))
    BY <2>1, <2>2, <2>3
  <2> QED
    BY <1>2, <1>4, <1>6, <1>7, <2>3, <2>4, <2>5 DEF Imported, TakenOver
<1> QED
  BY <1>8, <1>9

\* What leaves the page by being imported is in the requester's registry.
LEMMA ImportKeeps ==
    ASSUME IInv, NEW n \in Nodes, Import(n)
    PROVE  IInv'
<1>1. PICK s : s = sync[n]
  OBVIOUS
<1>13. Imported(n, s)
  BY <1>1, ImportSplits
<1>2. /\ UNCHANGED <<known, net, made, ahead, failures>>
      /\ RegistriesTyped' /\ Provenance' /\ PendingOK' /\ ClocksTyped'
      /\ ready' \in [Nodes -> BOOLEAN]
      /\ \A r \in Nodes : Grows(r)
      /\ s \in Synchronisation
  BY <1>13 DEF Imported
<1>3. PICK item \in s.page : TakenOver(n, s, item)
  BY <1>13 DEF Imported
<1>4. PICK page, skipped :
        /\ page = s.page \ {item}
        /\ skipped = IF LeftOut(n, item) THEN s.skipped \union {item.key} ELSE s.skipped
  OBVIOUS
<1>5. PICK rest : rest = [s EXCEPT !.page = page, !.skipped = skipped]
  OBVIOUS
<1>14. rest = Rest(n, s, item)
  BY <1>4, <1>5 DEF Rest
<1>15. s.skipped \subseteq skipped /\ skipped \subseteq Keys
  BY <1>2, <1>3, <1>4 DEF Synchronisation
<1>6. /\ rest.peer = s.peer /\ rest.digests = s.digests /\ rest.page = page
      /\ rest.cursor = s.cursor /\ rest.had = s.had /\ rest.listed = s.listed
      /\ rest.intact = s.intact /\ rest.skipped = skipped /\ rest \in Synchronisation
  BY <1>2, <1>4, <1>5, <1>15 DEF Synchronisation
<1>7. sync' = [sync EXCEPT ![n] = IF Done(rest) THEN None ELSE rest]
  BY <1>3, <1>14 DEF TakenOver
<1>8. SyncOK(n, s) /\ Covers(n, s)
  <2>1. s # None
    BY <1>1 DEF Import
  <2> QED
    BY <1>1, <2>1, InvParts
<1>9. SyncOK(n, rest)'
  BY <1>2, <1>4, <1>6, <1>8 DEF SyncOK, Carries
<1>10. Covers(n, rest)'
  <2>1. \A i \in s.page \ page :
           \/ i.key \in skipped
           \/ AtLeast(TopOf(entries'[n][i.key], fences'[n][i.key]), Brings(i))
    BY <1>3, <1>4 DEF TakenOver
  <2>2. s.peer \in Nodes /\ page \subseteq s.page
    BY <1>2, <1>4 DEF Synchronisation
  <2>3. RegistriesTyped /\ made \subseteq Mutations
    BY InvParts DEF OthersTyped
  <2>4. Covers(n, [s EXCEPT !.page = page, !.skipped = skipped])'
    BY <1>2, <1>8, <1>15, <2>1, <2>2, <2>3, CoversGrow
  <2> QED
    BY <1>5, <2>4
<1>11. SyncTyped' /\ \A r \in Nodes : SyncKept(r)
  <2>1. PICK x : x = IF Done(rest) THEN None ELSE rest
    OBVIOUS
  <2>2. x \in Synchronisation \union {None}
    BY <1>6, <2>1
  <2>3. x # None => x = rest
    BY <2>1
  <2>4. x # None => SyncOK(n, x)' /\ Covers(n, x)'
    BY <1>9, <1>10, <2>3
  <2>5. sync' = [sync EXCEPT ![n] = x]
    BY <1>7, <2>1
  <2> QED
    BY <1>2, <2>2, <2>4, <2>5, OneSyncKeeps
<1>12. OthersTyped'
  BY <1>2, InvParts DEF OthersTyped
<1> QED
  BY <1>2, <1>11, <1>12, PartsMakeInv

\* Every step keeps the invariant.
LEMMA NextKeeps ==
    ASSUME IInv, [Next]_vars
    PROVE  IInv'
<1>1. CASE UNCHANGED vars
  BY <1>1, StutterKeeps
<1>2. ASSUME NEW m \in Mutations, Make(m) PROVE IInv'
  BY <1>2, MakeKeeps
<1>3. ASSUME NEW d \in net, HandleDelta(d) PROVE IInv'
  BY <1>3, DeltaKeeps
<1>4. ASSUME NEW n \in Nodes, NEW k \in Keys, Collect(n, k) PROVE IInv'
  BY <1>4, CollectInv
<1>5. ASSUME NEW n \in Nodes, NEW m \in Nodes, Meet(n, m) \/ StartSync(n, m) PROVE IInv'
  BY <1>5, MeetKeeps, StartKeeps
<1>6. ASSUME NEW n \in Nodes, Round(n) \/ CatchUp(n) \/ Restart(n) PROVE IInv'
  BY <1>6, RoundKeeps, CatchUpKeeps, RestartInv
<1>7. ASSUME NEW n \in Nodes, SyncStep(n) \/ Fail(n) PROVE IInv'
  BY <1>7, ServeKeeps, EndKeeps, ImportKeeps DEF SyncStep
<1> QED
  BY <1>1, <1>2, <1>3, <1>4, <1>5, <1>6, <1>7 DEF Next, Background

\* The invariant holds for ever.
LEMMA Invariance == Spec => []IInv
<1>1. Init => IInv
  BY InitKeeps
<1>2. IInv /\ [Next]_vars => IInv'
  BY NextKeeps
<1> QED
  BY <1>1, <1>2, PTL DEF Spec

\* A node relays only mutations that were made, and for no more rounds than it
\* has for them (engine.go Enqueue, gossipRound); a synchronisation is with a node
\* of the requester's table, its cursor stands between two pages, and its page
\* holds made mutations and stamps of evictions only (anti_entropy.go).
THEOREM TypeCorrect == Spec => []TypeOK
<1>1. IInv => TypeOK
  BY DEF IInv
<1> QED
  BY <1>1, Invariance, PTL

\* At the last step nothing is ahead of the cursor or in the page any more.
LEMMA ConclusionCovers ==
    ASSUME IInv, NEW n \in Nodes, Concludes(n), sync[n].intact
    PROVE  Covered(n)
<1>1. PICK s : s = sync[n]
  OBVIOUS
<1>2. CASE Finish(n)
  <2>1. s # None /\ s.page = {} /\ s.cursor = None /\ UNCHANGED registries
    BY <1>1, <1>2 DEF Finish, Done
  <2>2. Covers(n, s) /\ s.cursor # 0
    BY <1>1, <2>1, InvParts, AbsenceAssumption
  <2>3. ASSUME NEW k \in Keys \ Skipped(n) PROVE AtLeast(Top(n, k), s.had[k])
    <3>1. k \notin s.skipped
      BY <1>1 DEF Skipped
    <3> QED
      BY <1>1, <2>1, <2>2, <3>1 DEF Covers, InPage, Coming
  <2>4. \A k \in Keys : TopOf(entries'[n][k], fences'[n][k]) = Top(n, k)
    BY <2>1 DEF Top, registries
  <2> QED
    BY <1>1, <2>3, <2>4 DEF Covered
<1>3. CASE Import(n) /\ sync'[n] = None
  <2>0. Imported(n, s)
    BY <1>1, <1>3, ImportSplits
  <2>1. RegistriesTyped' /\ Grows(n) /\ s \in Synchronisation
    BY <2>0 DEF Imported
  <2>2. PICK item \in s.page : TakenOver(n, s, item)
    BY <2>0 DEF Imported
  <2>3. PICK rest : rest = Rest(n, s, item)
    OBVIOUS
  <2>4. rest \in Synchronisation /\ rest.page = s.page \ {item} /\ rest.cursor = s.cursor
    <3>1. PICK page, skipped :
            /\ page = s.page \ {item} /\ skipped \subseteq Keys
            /\ rest = [s EXCEPT !.page = page, !.skipped = skipped]
      BY <2>1, <2>2, <2>3 DEF Synchronisation, Rest
    <3>2. page \subseteq s.page
      BY <3>1
    <3> QED
      BY <2>1, <3>1, <3>2 DEF Synchronisation
  <2>5. rest # None
    BY <2>4, AbsenceAssumption
  <2>6. Done(rest)
    <3>1. sync' = [sync EXCEPT ![n] = IF Done(rest) THEN None ELSE rest]
      BY <2>2, <2>3 DEF TakenOver
    <3>2. sync'[n] = IF Done(rest) THEN None ELSE rest
      BY <3>1, InvParts DEF SyncTyped
    <3> QED
      BY <1>3, <2>5, <3>2
  <2>7. s.page \subseteq {item} /\ s.cursor = None
    BY <2>4, <2>6 DEF Done
  <2>8. s # None /\ SyncOK(n, s) /\ Covers(n, s) /\ s.intact
    <3>1. s # None
      BY <1>1, <1>3 DEF Import
    <3> QED
      BY <1>1, <3>1, InvParts
  <2>9. s.cursor # 0 /\ s.listed = {}
    BY <2>7, <2>8, AbsenceAssumption DEF Covers
  <2>10. ASSUME NEW k \in Keys \ Skipped(n)
         PROVE  AtLeast(TopOf(entries'[n][k], fences'[n][k]), s.had[k])
    <3>1. s.had[k] \in Stamp \union {None}
      BY <2>1 DEF Synchronisation
    <3>0. k \notin s.skipped
      BY <1>1 DEF Skipped
    <3>2. AtLeast(Top(n, k), s.had[k]) \/ InPage(s, k)
      BY <2>8, <2>9, <3>0 DEF Covers, Coming
    <3>3. /\ Top(n, k) \in Stamp \union {None}
          /\ TopOf(entries'[n][k], fences'[n][k]) \in Stamp \union {None}
      BY <2>1, InvParts, TopTyped, NextTopTyped
    <3>4. CASE AtLeast(Top(n, k), s.had[k])
      <4>1. AtLeast(TopOf(entries'[n][k], fences'[n][k]), Top(n, k))
        BY <2>1 DEF Grows
      <4> QED
        BY <3>1, <3>3, <3>4, <4>1, AtLeastOrder
    <3>5. CASE InPage(s, k)
      <4>1. item.key = k /\ AtLeast(Brings(item), s.had[k])
        BY <2>7, <3>5 DEF InPage
      <4>3. ~LeftOut(n, item)
        BY <1>1, <2>2, <4>1 DEF Skipped
      <4>2. Brings(item) \in Stamp
        <5>1. item \in PageItem /\ Carries(item, made) /\ made \subseteq Mutations
          BY <2>1, <2>8, InvParts DEF SyncOK, Synchronisation, PageItem, OthersTyped
        <5> QED
          BY <5>1, BringsAStamp
      <4> QED
        BY <2>2, <3>1, <3>3, <4>1, <4>2, <4>3, AtLeastOrder DEF TakenOver
    <3> QED
      BY <3>2, <3>4, <3>5
  <2> QED
    BY <1>1, <2>10 DEF Covered
<1> QED
  BY <1>2, <1>3 DEF Concludes

\* A synchronisation that SyncPeer reports as successful (anti_entropy.go) has
\* taken over everything the peer held when it answered the first page, whatever
\* both nodes applied, collected and exchanged in between, but for the keys of
\* mutations the requester's clock refused on the way (service.go:95, logged and
\* left out), unless the peer restarted or something left the list whose offsets
\* are the cursor.
THEOREM SynchronisationsAreComplete == Spec => SyncIsComplete
<1>1. IInv /\ [Next]_vars
        => [\A n \in Nodes : Concludes(n) /\ sync[n].intact => Covered(n)]_vars
  BY ConclusionCovers
<1> QED
  BY <1>1, Invariance, PTL DEF Spec, SyncIsComplete

-----------------------------------------------------------------------------
(* What a node has learnt it keeps, until it restarts.                     *)

\* No delta, page, fence or collection lowers what a node stands for.
NoNodeForgets == [][\A n \in Nodes : Grows(n) \/ Restart(n)]_vars

\* Until it restarts, a node that learnt that a lease was terminated
\* discovers the instance only with a newer lease.
TerminatedStays ==
    [][\A n \in Nodes, k \in Keys :
          /\ Top(n, k) # None /\ ExplicitlyTerminal(Top(n, k).kind)
          /\ Discoverable(entries'[n][k])
          => VersionLess(Top(n, k).epoch, entries'[n][k].stamp.epoch) \/ Restart(n)]_vars

\* Registries grow in every step but that of a restart.
LEMMA NextGrows ==
    ASSUME IInv, [Next]_vars, NEW r \in Nodes
    PROVE  Grows(r) \/ Restart(r)
<1> USE InvParts
<1>1. ASSUME UNCHANGED registries, made \subseteq made' PROVE Grows(r)
  BY <1>1, RegistriesRest
<1>2. CASE UNCHANGED vars
  BY <1>1, <1>2 DEF vars, registries
<1>3. ASSUME NEW m \in Mutations, Make(m) PROVE Grows(r)
  <2>1. PICK n \in Nodes : n = m.stamp.version.origin
    BY GossipAssumption
  <2>2. made' = made \union {m} /\ Apply(n, m)
    BY <1>3, <2>1 DEF Make
  <2>3. m \in made' /\ made \subseteq made' /\ made' \subseteq Mutations
    BY <2>2 DEF OthersTyped
  <2> QED
    BY <2>2, <2>3, ApplyKeeps
<1>4. ASSUME NEW d \in net, HandleDelta(d) PROVE Grows(r)
  <2>1. d.to \in Nodes /\ d.mutation \in made /\ made \subseteq Mutations /\ ClocksTyped
    BY DEF OthersTyped
  <2>2. ApplyRemote(d.to, d.mutation) /\ made' = made /\ ahead' = ahead
    BY <1>4 DEF HandleDelta
  <2> QED
    BY <2>1, <2>2, RemoteKeeps
<1>5. ASSUME NEW n \in Nodes, NEW k \in Keys, Collect(n, k) PROVE Grows(r)
  BY <1>5, CollectKeeps
<1>6. ASSUME NEW n \in Nodes, NEW m \in Nodes, Meet(n, m) \/ StartSync(n, m) PROVE Grows(r)
  BY <1>1, <1>6 DEF Meet, StartSync
<1>7. ASSUME NEW n \in Nodes,
             Round(n) \/ CatchUp(n) \/ Serve(n) \/ Refuse(n) \/ Finish(n) \/ Fail(n)
      PROVE  Grows(r)
  BY <1>1, <1>7 DEF Round, CatchUp, Serve, Refuse, Finish, Fail
<1>8. ASSUME NEW n \in Nodes, Import(n) PROVE Grows(r)
  <2>1. PICK s : s = sync[n]
    OBVIOUS
  <2>2. Imported(n, s)
    BY <1>8, <2>1, ImportSplits
  <2> QED
    BY <2>2 DEF Imported
<1>9. ASSUME NEW n \in Nodes, Restart(n) PROVE Grows(r) \/ Restart(r)
  BY <1>9, RestartKeeps
<1> QED
  BY <1>2, <1>3, <1>4, <1>5, <1>6, <1>7, <1>8, <1>9 DEF Next, Background, SyncStep

\* A live stamp that is at least a terminal one is of a newer lease.
LEMMA LiveAboveTerminal ==
    ASSUME NEW a \in Stamp, NEW b \in Stamp, AtLeast(a, b),
           a.kind \in LiveKinds, ExplicitlyTerminal(b.kind)
    PROVE  VersionLess(b.epoch, a.epoch)
<1>1. ~ExplicitlyTerminal(a.kind)
  BY DEF ExplicitlyTerminal, LiveKinds, TerminalKinds
<1> QED
  BY <1>1, NoneAssumption DEF AtLeast, Outranks

\* A discoverable entry carries a live stamp.
LEMMA DiscoverableIsLive ==
    ASSUME NEW ms, ms \subseteq Mutations, NEW k, NEW e, NEW f, Sound(k, e, f, ms),
           Discoverable(e)
    PROVE  e.stamp.kind \in LiveKinds
<1>1. PICK m \in ms : /\ e.stamp = m.stamp /\ m.stamp \in Stamp
                      /\ e.status = StatusOf(m.stamp.kind)
  BY HeldEntry, MutationParts DEF Discoverable
<1>2. m.stamp.kind \in Kinds
  BY <1>1 DEF Stamp
<1> QED
  BY <1>1, <1>2, StatusIs DEF Discoverable, Kinds

\* The registry of a node only learns: neither the order in which deltas and
\* pages arrive, nor a fence, nor a collection takes anything back
\* (registry/apply.go, lifecycle.go GC), as long as the process lives.
THEOREM RegistriesOnlyGrow == Spec => NoNodeForgets
<1>1. IInv /\ [Next]_vars => [\A n \in Nodes : Grows(n) \/ Restart(n)]_vars
  BY NextGrows
<1> QED
  BY <1>1, Invariance, PTL DEF Spec, NoNodeForgets

\* A deregistration that has reached a node is not undone there by a delta or
\* by a page of a peer that has not heard of it (engine.go handleDelta,
\* anti_entropy.go SyncPeer), only by a newer lease.
THEOREM TerminatedStaysTerminated == Spec => TerminatedStays
<1>1. ASSUME IInv, IInv', [Next]_vars, NEW n \in Nodes, NEW k \in Keys,
             Top(n, k) # None, ExplicitlyTerminal(Top(n, k).kind), Discoverable(entries'[n][k])
      PROVE  VersionLess(Top(n, k).epoch, entries'[n][k].stamp.epoch) \/ Restart(n)
  <2>1. SUFFICES ASSUME ~Restart(n)
                 PROVE  VersionLess(Top(n, k).epoch, entries'[n][k].stamp.epoch)
    OBVIOUS
  <2>2. Grows(n)
    BY <1>1, <2>1, NextGrows
  <2>3. RegistriesTyped /\ RegistriesTyped'
    BY <1>1 DEF IInv, TypeOK, RegistriesTyped
  <2>4. Top(n, k) \in Stamp
    BY <1>1, <2>3, TopTyped
  <2>5. entries'[n][k] # None
    BY <1>1 DEF Discoverable
  <2>6. /\ TopOf(entries'[n][k], fences'[n][k]) = entries'[n][k].stamp
        /\ entries'[n][k].stamp \in Stamp
    <3>1. /\ entries'[n][k] \in Entries \union {None}
          /\ fences'[n][k] \in Stamp \union {None}
      BY <2>3, NextTopTyped
    <3> QED
      BY <2>5, <3>1, TopIsStamp DEF TopOf
  <2>7. AtLeast(entries'[n][k].stamp, Top(n, k))
    BY <2>2, <2>6 DEF Grows
  <2>8. entries'[n][k].stamp.kind \in LiveKinds
    <3>1. made' \subseteq Mutations /\ Sound(k, entries'[n][k], fences'[n][k], made')
      BY <1>1 DEF IInv, TypeOK, Provenance
    <3> QED
      BY <1>1, <3>1, DiscoverableIsLive
  <2> QED
    BY <1>1, <2>4, <2>6, <2>7, <2>8, LiveAboveTerminal
<1>2. IInv /\ IInv' /\ [Next]_vars
        => [\A n \in Nodes, k \in Keys :
              /\ Top(n, k) # None /\ ExplicitlyTerminal(Top(n, k).kind)
              /\ Discoverable(entries'[n][k])
              => VersionLess(Top(n, k).epoch, entries'[n][k].stamp.epoch) \/ Restart(n)]_vars
  BY <1>1
<1> QED
  BY <1>2, Invariance, PTL DEF Spec, TerminatedStays
=============================================================================
