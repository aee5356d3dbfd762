--------------------------- MODULE RegistryProofs ---------------------------
(***************************************************************************)
(* The merge of registry/apply.go is a join, for every set of keys, every  *)
(* set of well-formed mutations, every window and retention.  TopIsJoin    *)
(* and FencesGuard are inductive only together, and with where the stored  *)
(* values come from (Provenance): the comparators are total only on stamps *)
(* whose event IDs are minted once.                                        *)
(***************************************************************************)
EXTENDS Registry, SequenceTheorems, TLAPS

\* The status of a stored entry and the mutation its fields were taken from.
Sourced(k, e, f) ==
    /\ e # None =>
          /\ \E m \in Mutations : m.key = k /\ m.stamp = e.stamp /\ m.lease = e.lease
          /\ e.status = "EVICTED" <=> e.stamp.kind \in EvictingKinds
          /\ Len(e.ops) <= Window
    /\ f # None =>
          \E m \in Mutations : m.key = k /\ m.stamp = f /\ f.kind \in EvictingKinds

Provenance ==
    \A k \in Keys :
        /\ Sourced(k, entries[k], fences[k])
        /\ \A s \in merged[k] : \E m \in Mutations : m.key = k /\ m.stamp = s

IInv == TypeOK /\ Provenance /\ FencesGuard /\ TopIsJoin

-----------------------------------------------------------------------------
(* The order of versions and the order of stamps are strict total orders.  *)

\* CompareVersion is a strict order.
LEMMA VersionOrder ==
    ASSUME NEW a \in Version, NEW b \in Version, NEW c \in Version
    PROVE  /\ ~VersionLess(a, a)
           /\ VersionLess(a, b) => ~VersionLess(b, a)
           /\ VersionLess(a, b) /\ VersionLess(b, c) => VersionLess(a, c)
  BY DEF Version, VersionLess

\* CompareVersion returns 0 on equal versions only.
LEMMA VersionTotal ==
    ASSUME NEW a \in Version, NEW b \in Version
    PROVE  VersionLess(a, b) \/ a = b \/ VersionLess(b, a)
  BY DEF Version, VersionLess

\* Priorities are numbers.
LEMMA PriorityType ==
    ASSUME NEW kind \in Kinds
    PROVE  Priority(kind) \in Nat
  BY DEF Kinds, LiveKinds, EvictingKinds, TerminalKinds, Priority

\* The comparators never rank a stamp above itself, nor two stamps above
\* each other.
LEMMA OutranksAsymmetric ==
    ASSUME NEW a \in Stamp, NEW b \in Stamp
    PROVE  /\ ~Outranks(a, a)
           /\ Outranks(a, b) => ~Outranks(b, a)
<1>1. /\ a.epoch \in Version /\ a.version \in Version /\ a.kind \in Kinds
      /\ b.epoch \in Version /\ b.version \in Version /\ b.kind \in Kinds
      /\ a.eventID \in Nat /\ b.eventID \in Nat
  BY DEF Stamp
<1>2. Priority(a.kind) \in Nat /\ Priority(b.kind) \in Nat
  BY <1>1, PriorityType
<1> QED
  BY <1>1, <1>2, VersionOrder DEF Outranks

\* The comparators are transitive.
LEMMA OutranksTransitive ==
    ASSUME NEW a \in Stamp, NEW b \in Stamp, NEW c \in Stamp,
           Outranks(a, b), Outranks(b, c)
    PROVE  Outranks(a, c)
<1>1. /\ a.epoch \in Version /\ a.version \in Version /\ a.kind \in Kinds
      /\ b.epoch \in Version /\ b.version \in Version /\ b.kind \in Kinds
      /\ c.epoch \in Version /\ c.version \in Version /\ c.kind \in Kinds
      /\ a.eventID \in Nat /\ b.eventID \in Nat /\ c.eventID \in Nat
  BY DEF Stamp
<1>2. Priority(a.kind) \in Nat /\ Priority(b.kind) \in Nat /\ Priority(c.kind) \in Nat
  BY <1>1, PriorityType
<1>3. VersionLess(c.epoch, b.epoch) /\ VersionLess(b.epoch, a.epoch)
        => VersionLess(c.epoch, a.epoch)
  BY <1>1, VersionOrder
<1>4. VersionLess(c.version, b.version) /\ VersionLess(b.version, a.version)
        => VersionLess(c.version, a.version)
  BY <1>1, VersionOrder
<1> QED
  BY <1>1, <1>2, <1>3, <1>4 DEF Outranks

\* Two stamps with different event IDs are always ordered.
LEMMA OutranksTotal ==
    ASSUME NEW a \in Stamp, NEW b \in Stamp, a.eventID # b.eventID
    PROVE  Outranks(a, b) \/ Outranks(b, a)
<1>1. /\ a.epoch \in Version /\ a.version \in Version /\ a.kind \in Kinds
      /\ b.epoch \in Version /\ b.version \in Version /\ b.kind \in Kinds
      /\ a.eventID \in Nat /\ b.eventID \in Nat
  BY DEF Stamp
<1>2. Priority(a.kind) \in Nat /\ Priority(b.kind) \in Nat
  BY <1>1, PriorityType
<1> QED
  BY <1>1, <1>2, VersionTotal DEF Outranks

\* AtLeast is reflexive and transitive, None included.
LEMMA AtLeastOrder ==
    ASSUME NEW a \in Stamp \union {None}, NEW b \in Stamp \union {None},
           NEW c \in Stamp \union {None}
    PROVE  /\ AtLeast(a, a)
           /\ AtLeast(a, b) /\ AtLeast(b, c) => AtLeast(a, c)
  BY OutranksTransitive, NoneAssumption DEF AtLeast

-----------------------------------------------------------------------------
\* The fields of a mutation that can reach the registry.
LEMMA MutationFields ==
    ASSUME NEW m \in Mutations
    PROVE  /\ m.key \in Keys /\ m.stamp \in Stamp /\ m.lease \in LeaseIDs
           /\ m.op \in Operations \union {NoOp} /\ m.at \in Nat /\ m.remaining \in Nat
           /\ m.stamp.kind \in Kinds /\ m.stamp.eventID \in Nat
           /\ m.stamp # None
  BY RegistryAssumption, NoneAssumption DEF Mutation, Stamp

\* Two stamps of one registry are equal or ordered.
LEMMA StampsTotal ==
    ASSUME NEW m \in Mutations, NEW n \in Mutations
    PROVE  Outranks(m.stamp, n.stamp) \/ m.stamp = n.stamp \/ Outranks(n.stamp, m.stamp)
  BY MutationFields, OutranksTotal, RegistryAssumption

\* rememberOperation keeps the window within defaultOperationWindow.
LEMMA WindowBounded ==
    ASSUME NEW ops \in Seq(Remembered), Len(ops) <= Window,
           NEW op \in Operations \union {NoOp}, NEW event \in Nat
    PROVE  /\ rememberOperation(ops, op, event) \in Seq(Remembered)
           /\ Len(rememberOperation(ops, op, event)) <= Window
<1>1. CASE op = NoOp \/ Seen(ops, op)
  BY <1>1 DEF rememberOperation
<1>2. CASE ~(op = NoOp \/ Seen(ops, op))
  <2> DEFINE kept == IF Len(ops) = Window THEN Tail(ops) ELSE ops
             item == [op |-> op, event |-> event]
  <2>1. item \in Remembered
    BY <1>2 DEF Remembered
  <2>2. kept \in Seq(Remembered) /\ Len(kept) < Window
    <3>1. CASE Len(ops) = Window
      <4>1. ops # <<>>
        BY <3>1, RegistryAssumption
      <4>2. Tail(ops) \in Seq(Remembered) /\ Len(Tail(ops)) = Len(ops) - 1
        BY <4>1, HeadTailProperties
      <4> QED  BY <3>1, <4>2, RegistryAssumption
    <3>2. CASE Len(ops) # Window
      BY <3>2, RegistryAssumption, LenProperties
    <3> QED  BY <3>1, <3>2
  <2>3. Append(kept, item) \in Seq(Remembered) /\ Len(Append(kept, item)) = Len(kept) + 1
    BY <2>1, <2>2, AppendProperties
  <2>4. rememberOperation(ops, op, event) = Append(kept, item)
    BY <1>2 DEF rememberOperation
  <2> QED  BY <2>2, <2>3, <2>4, RegistryAssumption, LenProperties
<1> QED  BY <1>1, <1>2

\* What Apply does to one key, by outcome.
LEMMA MergeOutcome ==
    ASSUME NEW m \in Mutations, NEW t \in Nat,
           NEW e \in Entry \union {None}, NEW f \in Stamp \union {None},
           Sourced(m.key, e, f), Guarded(e, f)
    PROVE  LET e2 == EntryAfter(e, f, m, t)
               f2 == FenceAfter(e, f, m)
           IN  /\ e2 \in Entry \union {None} /\ f2 \in Stamp \union {None}
               /\ Sourced(m.key, e2, f2)
               /\ Guarded(e2, f2)
               /\ AtLeast(TopOf(e2, f2), TopOf(e, f))
               /\ TopOf(e2, f2) \in {TopOf(e, f), m.stamp}
               /\ e # None /\ Seen(e.ops, m.op) => TopOf(e2, f2) = TopOf(e, f)
               /\ ~(e # None /\ Seen(e.ops, m.op)) => AtLeast(TopOf(e2, f2), m.stamp)
<1> DEFINE e2 == EntryAfter(e, f, m, t)
           f2 == FenceAfter(e, f, m)
<1> USE MutationFields
<1>0. /\ Outcome(e, f, m) \in {"APPLIED", "DUPLICATE", "STALE"}
      /\ e = None => Outcome(e, f, m) # "DUPLICATE"
  BY DEF Outcome
<1>1. CASE Outcome(e, f, m) = "APPLIED"
  <2>1. e2 = NewEntry(e, m, t)
    BY <1>1 DEF EntryAfter
  <2>2. KeptOps(e, m) \in Seq(Remembered) /\ Len(KeptOps(e, m)) <= Window
    <3>1. <<>> \in Seq(Remembered) /\ Len(<<>>) = 0
      BY EmptySeq
    <3>2. e # None => e.ops \in Seq(Remembered)
      BY DEF Entry
    <3> QED  BY <3>1, <3>2, RegistryAssumption DEF KeptOps, Sourced
  <2>3. /\ e2 \in Entry
        /\ e2.stamp = m.stamp /\ e2.lease = m.lease
        /\ e2.status = StatusOf(m.stamp.kind)
        /\ Len(e2.ops) <= Window
    <3> DEFINE o == rememberOperation(KeptOps(e, m), m.op, m.stamp.eventID)
    <3>1. o \in Seq(Remembered) /\ Len(o) <= Window
      BY <2>2, WindowBounded
    <3>2. Deadline(m, t) \in Nat
      BY DEF Deadline
    <3>3. StatusOf(m.stamp.kind) \in {"ACTIVE", "DELAYED", "EVICTED"}
      BY DEF StatusOf
    <3> HIDE DEF o
    <3>4. e2 = [stamp |-> m.stamp, lease |-> m.lease, status |-> StatusOf(m.stamp.kind),
                at |-> m.at, deadline |-> Deadline(m, t), ops |-> o]
      BY <2>1 DEF NewEntry, o
    <3> QED  BY <3>1, <3>2, <3>3, <3>4 DEF Entry
  <2>4. e2 # None
    BY <2>3, RegistryAssumption
  <2>5. e2.status = "EVICTED" <=> m.stamp.kind \in EvictingKinds
    BY <2>3 DEF StatusOf, Kinds, LiveKinds, EvictingKinds, TerminalKinds
  <2>6. f2 = IF m.stamp.kind \in EvictingKinds THEN m.stamp ELSE f
    BY <1>1 DEF FenceAfter
  <2>7. AtLeast(m.stamp, TopOf(e, f))
    <3>1. CASE e = None
      BY <1>1, <3>1 DEF Outcome, incomingBeatsFence, TopOf, AtLeast
    <3>2. CASE e # None
      BY <1>1, <3>2 DEF Outcome, IncomingWins, TopOf, AtLeast
    <3> QED  BY <3>1, <3>2
  <2>8. AtLeast(m.stamp, f)
    <3>1. e = None => TopOf(e, f) = f
      BY DEF TopOf
    <3>2. e # None => TopOf(e, f) = e.stamp /\ AtLeast(e.stamp, f) /\ e.stamp \in Stamp
      BY DEF TopOf, Guarded, Entry
    <3> QED  BY <2>7, <3>1, <3>2, AtLeastOrder
  <2>9. AtLeast(m.stamp, m.stamp)
    BY DEF AtLeast
  <2>10. TopOf(e2, f2) = m.stamp
    BY <2>3, <2>4 DEF TopOf
  <2>11. Sourced(m.key, e2, f2)
    BY <2>3, <2>4, <2>5, <2>6 DEF Sourced
  <2>12. Guarded(e2, f2)
    BY <2>3, <2>5, <2>6, <2>8, <2>9 DEF Guarded
  <2>13. ~(e # None /\ Seen(e.ops, m.op))
    BY <1>1 DEF Outcome
  <2> QED
    BY <2>3, <2>6, <2>7, <2>9, <2>10, <2>11, <2>12, <2>13
<1>2. CASE Outcome(e, f, m) = "DUPLICATE"
  <2>1. e # None /\ e \in Entry
    BY <1>0, <1>2
  <2> DEFINE o == rememberOperation(e.ops, m.op, e.stamp.eventID)
  <2>2. o \in Seq(Remembered) /\ Len(o) <= Window
    BY <2>1, WindowBounded DEF Entry, Stamp, Sourced
  <2> HIDE DEF o
  <2>3. e2 = [e EXCEPT !.ops = o]
    BY <1>2 DEF EntryAfter, o
  <2>4. /\ e2 \in Entry
        /\ e2.stamp = e.stamp /\ e2.lease = e.lease /\ e2.status = e.status
        /\ e2.ops = o
    BY <2>1, <2>2, <2>3 DEF Entry
  <2>5. e2 # None
    BY <2>4, RegistryAssumption
  <2>6. f2 = f
    BY <1>2 DEF FenceAfter
  <2>7. TopOf(e2, f2) = e.stamp /\ TopOf(e, f) = e.stamp
    BY <2>1, <2>4, <2>5 DEF TopOf
  <2>8. Sourced(m.key, e2, f2) /\ Guarded(e2, f2)
    BY <2>1, <2>2, <2>4, <2>5, <2>6 DEF Sourced, Guarded
  <2>9. ~Seen(e.ops, m.op) => m.stamp = e.stamp
    BY <1>2, <2>1 DEF Outcome, IncomingSame
  <2> QED
    BY <2>1, <2>4, <2>6, <2>7, <2>8, <2>9 DEF AtLeast
<1>3. CASE Outcome(e, f, m) = "STALE"
  <2>1. e2 = e /\ f2 = f
    BY <1>3 DEF EntryAfter, FenceAfter
  <2>2. AtLeast(TopOf(e, f), TopOf(e, f))
    BY DEF AtLeast
  <2>3. ~(e # None /\ Seen(e.ops, m.op)) => AtLeast(TopOf(e, f), m.stamp)
    <3>1. CASE e = None
      <4>1. f # None /\ ~Outranks(m.stamp, f)
        BY <1>3, <3>1 DEF Outcome, incomingBeatsFence
      <4>2. PICK n \in Mutations : n.stamp = f
        BY <4>1 DEF Sourced
      <4> QED  BY <3>1, <4>1, <4>2, StampsTotal DEF TopOf, AtLeast
    <3>2. CASE e # None
      <4>1. PICK n \in Mutations : n.key = m.key /\ n.stamp = e.stamp /\ n.lease = e.lease
        BY <3>2 DEF Sourced
      <4>2. m.stamp.epoch = e.stamp.epoch => m.lease = e.lease
        BY <4>1, RegistryAssumption
      <4>3. ~Outranks(m.stamp, e.stamp)
        BY <1>3, <3>2, <4>2 DEF Outcome, IncomingWins
      <4> QED  BY <3>2, <4>1, <4>3, StampsTotal DEF TopOf, AtLeast
    <3> QED  BY <3>1, <3>2
  <2>4. ~(e # None /\ Seen(e.ops, m.op))
    BY <1>3 DEF Outcome
  <2> QED  BY <2>1, <2>2, <2>3, <2>4
<1> QED  BY <1>0, <1>1, <1>2, <1>3

\* What ApplyFence does to one key.
LEMMA FenceOutcome ==
    ASSUME NEW m \in Mutations, m.stamp.kind \in EvictingKinds,
           NEW e \in Entry \union {None}, NEW f \in Stamp \union {None},
           Sourced(m.key, e, f), Guarded(e, f)
    PROVE  IF FenceWins(m.stamp, e)
           THEN LET f2 == IF FenceReplaces(m.stamp, f) THEN m.stamp ELSE f
                IN  /\ f2 \in Stamp /\ Sourced(m.key, None, f2)
                    /\ AtLeast(f2, TopOf(e, f)) /\ AtLeast(f2, m.stamp)
                    /\ f2 \in {TopOf(e, f), m.stamp}
           ELSE AtLeast(TopOf(e, f), m.stamp)
<1> USE MutationFields
<1>1. ASSUME e # None
      PROVE  /\ e \in Entry /\ e.stamp \in Stamp /\ TopOf(e, f) = e.stamp
             /\ \E n \in Mutations : n.stamp = e.stamp
             /\ AtLeast(e.stamp, f)
  BY <1>1 DEF Entry, TopOf, Sourced, Guarded
<1>2. f # None => \E n \in Mutations : n.stamp = f
  BY DEF Sourced
<1>3. CASE FenceWins(m.stamp, e)
  <2>1. CASE e = None
    <3>1. FenceReplaces(m.stamp, f) => AtLeast(m.stamp, f)
      BY DEF FenceReplaces, AtLeast
    <3>2. ~FenceReplaces(m.stamp, f) => AtLeast(f, m.stamp) /\ f \in Stamp
      BY <1>2, StampsTotal DEF FenceReplaces, AtLeast
    <3> QED  BY <1>3, <2>1, <3>1, <3>2 DEF TopOf, AtLeast, Sourced
  <2>2. CASE e # None
    <3>1. Outranks(m.stamp, e.stamp)
      BY <1>3, <2>2 DEF FenceWins
    <3>2. f # None => Outranks(m.stamp, f)
      BY <1>1, <2>2, <3>1, OutranksTransitive, NoneAssumption DEF AtLeast
    <3>3. FenceReplaces(m.stamp, f)
      BY <3>2 DEF FenceReplaces
    <3> QED  BY <1>1, <1>3, <2>2, <3>1, <3>3 DEF AtLeast, Sourced
  <2> QED  BY <2>1, <2>2
<1>4. CASE ~FenceWins(m.stamp, e)
  <2>1. e # None /\ ~Outranks(m.stamp, e.stamp)
    BY <1>4 DEF FenceWins
  <2> QED  BY <1>1, <1>4, <2>1, StampsTotal, NoneAssumption DEF AtLeast
<1> QED  BY <1>3, <1>4

-----------------------------------------------------------------------------
\* The empty registry has the invariant.
LEMMA Initially == Init => IInv
  BY NoneAssumption, RegistryAssumption
  DEF Init, IInv, TypeOK, Provenance, Sourced, FencesGuard, Guarded, TopIsJoin, Top, TopOf

\* A step that changes one key k, replacing its entry, fence and history by
\* values with the invariant, keeps the invariant of all keys.
LEMMA OneKeyStep ==
    ASSUME IInv, NEW k \in Keys, now' = now,
           NEW e2 \in Entry \union {None}, NEW f2 \in Stamp \union {None},
           NEW new \in SUBSET Stamp,
           entries' = [entries EXCEPT ![k] = e2],
           fences' = [fences EXCEPT ![k] = f2],
           merged' = [merged EXCEPT ![k] = @ \union new],
           Sourced(k, e2, f2), Guarded(e2, f2),
           AtLeast(TopOf(e2, f2), Top(k)),
           \A s \in new : AtLeast(TopOf(e2, f2), s),
           \A s \in new : \E m \in Mutations : m.key = k /\ m.stamp = s,
           TopOf(e2, f2) \in {Top(k)} \union new
    PROVE  IInv'
<1> USE DEF IInv
<1>1. TypeOK'
  BY DEF TypeOK, Sourced
<1>2. /\ entries[k] \in Entry \union {None} /\ fences[k] \in Stamp \union {None}
      /\ merged[k] \in SUBSET Stamp
      /\ entries'[k] = e2 /\ fences'[k] = f2 /\ merged'[k] = merged[k] \union new
  BY DEF TypeOK
<1>3. \A j \in Keys : j # k =>
         entries'[j] = entries[j] /\ fences'[j] = fences[j] /\ merged'[j] = merged[j]
  BY DEF TypeOK
<1>4. Provenance'
  BY <1>2, <1>3 DEF Provenance, Sourced
<1>5. FencesGuard'
  BY <1>2, <1>3 DEF FencesGuard
<1>6. Top(k) \in Stamp \union {None} /\ TopOf(e2, f2) \in Stamp \union {None}
  BY <1>2 DEF Top, TopOf, Entry
<1>7. TopIsJoin'
  <2> SUFFICES ASSUME NEW j \in Keys
               PROVE  /\ \A s \in merged'[j] : AtLeast(TopOf(entries'[j], fences'[j]), s)
                      /\ IF merged'[j] = {} THEN TopOf(entries'[j], fences'[j]) = None
                         ELSE TopOf(entries'[j], fences'[j]) \in merged'[j]
    BY DEF TopIsJoin, Top
  <2>1. CASE j # k
    BY <1>3, <2>1 DEF TopIsJoin, Top
  <2>2. CASE j = k
    <3>1. \A s \in merged[k] : AtLeast(TopOf(e2, f2), s)
      <4> SUFFICES ASSUME NEW s \in merged[k] PROVE AtLeast(TopOf(e2, f2), s)
        OBVIOUS
      <4>1. AtLeast(Top(k), s) /\ s \in Stamp
        BY <1>2 DEF TopIsJoin
      <4> QED  BY <1>6, <4>1, AtLeastOrder
    <3>2. merged[k] = {} => Top(k) = None
      BY DEF TopIsJoin
    <3>3. merged[k] # {} => Top(k) \in merged[k]
      BY DEF TopIsJoin
    <3>4. TopOf(e2, f2) = None => new = {}
      <4>1. \A s \in new : s # None
        BY NoneAssumption
      <4> QED  BY <4>1 DEF AtLeast
    <3>5. TopOf(e2, f2) = Top(k) /\ merged[k] = {} => new = {}
      BY <3>2, <3>4
    <3> QED  BY <1>2, <2>2, <3>1, <3>2, <3>3, <3>5
  <2> QED  BY <2>1, <2>2
<1> QED  BY <1>1, <1>4, <1>5, <1>7

\* The invariant of one key, read off the invariant of all.
LEMMA OneKeyInv ==
    ASSUME IInv, NEW k \in Keys
    PROVE  /\ entries[k] \in Entry \union {None} /\ fences[k] \in Stamp \union {None}
           /\ Sourced(k, entries[k], fences[k]) /\ Guarded(entries[k], fences[k])
           /\ Top(k) = TopOf(entries[k], fences[k])
           /\ merged \in [Keys -> SUBSET Stamp] /\ now \in Nat
  BY DEF IInv, TypeOK, Provenance, FencesGuard, Top

\* Apply keeps the invariant and lowers no stamp.
LEMMA ApplyInv ==
    ASSUME IInv, NEW m \in Mutations, Apply(m)
    PROVE  IInv' /\ AtLeast(Top(m.key)', Top(m.key))
<1> DEFINE k == m.key
           e == entries[k]
           f == fences[k]
           swallowed == e # None /\ Seen(e.ops, m.op)
           new == IF swallowed THEN {} ELSE {m.stamp}
<1>1. k \in Keys /\ m.stamp \in Stamp
  BY MutationFields
<1>2. /\ e \in Entry \union {None} /\ f \in Stamp \union {None}
      /\ Sourced(k, e, f) /\ Guarded(e, f) /\ Top(k) = TopOf(e, f)
      /\ merged \in [Keys -> SUBSET Stamp] /\ now \in Nat
  BY <1>1, OneKeyInv
<1> DEFINE e2 == EntryAfter(e, f, m, now)
           f2 == FenceAfter(e, f, m)
<1>3. /\ e2 \in Entry \union {None} /\ f2 \in Stamp \union {None}
      /\ Sourced(k, e2, f2) /\ Guarded(e2, f2)
      /\ AtLeast(TopOf(e2, f2), TopOf(e, f))
      /\ TopOf(e2, f2) \in {TopOf(e, f), m.stamp}
      /\ swallowed => TopOf(e2, f2) = TopOf(e, f)
      /\ ~swallowed => AtLeast(TopOf(e2, f2), m.stamp)
  BY <1>2, MergeOutcome
<1>4. /\ now' = now
      /\ entries' = [entries EXCEPT ![k] = e2]
      /\ fences' = [fences EXCEPT ![k] = f2]
  BY DEF Apply
<1>5. merged' = [merged EXCEPT ![k] = @ \union new]
  BY <1>1, <1>2 DEF Apply
<1> HIDE DEF e2, f2
<1>6. IInv'
  <2>1. \A s \in new : AtLeast(TopOf(e2, f2), s)
    BY <1>3
  <2>2. \A s \in new : \E n \in Mutations : n.key = k /\ n.stamp = s
    OBVIOUS
  <2>3. TopOf(e2, f2) \in {Top(k)} \union new
    BY <1>2, <1>3
  <2>4. new \in SUBSET Stamp
    BY <1>1
  <2> HIDE DEF new, k
  <2> QED
    BY <1>1, <1>2, <1>3, <1>4, <1>5, <2>1, <2>2, <2>3, <2>4, OneKeyStep
<1>7. Top(k)' = TopOf(e2, f2)
  <2>1. entries'[k] = e2 /\ fences'[k] = f2
    BY <1>1, <1>4 DEF IInv, TypeOK
  <2> QED  BY <2>1 DEF Top
<1> QED  BY <1>2, <1>3, <1>6, <1>7

\* ApplyFence keeps the invariant and lowers no stamp.
LEMMA ApplyFenceInv ==
    ASSUME IInv, NEW m \in Mutations, m.stamp.kind \in EvictingKinds,
           ApplyFence(m.key, m.stamp)
    PROVE  IInv' /\ AtLeast(Top(m.key)', Top(m.key))
<1> DEFINE k == m.key
           e == entries[k]
           f == fences[k]
           new == {m.stamp}
<1>1. k \in Keys /\ m.stamp \in Stamp
  BY MutationFields
<1>2. /\ e \in Entry \union {None} /\ f \in Stamp \union {None}
      /\ Sourced(k, e, f) /\ Guarded(e, f) /\ Top(k) = TopOf(e, f)
      /\ merged \in [Keys -> SUBSET Stamp] /\ now \in Nat
  BY <1>1, OneKeyInv
<1>3. merged' = [merged EXCEPT ![k] = @ \union new] /\ now' = now
  BY DEF ApplyFence
<1>4. entries \in [Keys -> Entry \union {None}] /\ fences \in [Keys -> Stamp \union {None}]
  BY DEF IInv, TypeOK
<1>5. /\ new \in SUBSET Stamp
      /\ \A s \in new : \E n \in Mutations : n.key = k /\ n.stamp = s
  BY <1>1
<1>6. CASE FenceWins(m.stamp, e)
  <2> DEFINE f2 == IF FenceReplaces(m.stamp, f) THEN m.stamp ELSE f
  <2>1. /\ f2 \in Stamp /\ Sourced(k, None, f2)
        /\ AtLeast(f2, TopOf(e, f)) /\ AtLeast(f2, m.stamp)
        /\ f2 \in {TopOf(e, f), m.stamp}
    BY <1>2, <1>6, FenceOutcome
  <2>2. /\ entries' = [entries EXCEPT ![k] = None]
        /\ fences' = [fences EXCEPT ![k] = f2]
    BY <1>1, <1>4, <1>6 DEF ApplyFence
  <2>3. Guarded(None, f2) /\ TopOf(None, f2) = f2
    BY DEF Guarded, TopOf
  <2>a. /\ \A s \in new : AtLeast(TopOf(None, f2), s)
        /\ TopOf(None, f2) \in {Top(k)} \union new
        /\ AtLeast(TopOf(None, f2), Top(k))
    BY <1>2, <2>1, <2>3
  <2> HIDE DEF f2, k, new
  <2>4. IInv'
    BY <1>1, <1>3, <1>5, <2>1, <2>2, <2>3, <2>a, OneKeyStep
  <2>5. Top(k)' = f2
    BY <1>1, <1>4, <2>2 DEF Top, TopOf
  <2> QED  BY <1>2, <2>1, <2>4, <2>5 DEF k
<1>7. CASE ~FenceWins(m.stamp, e)
  <2>1. AtLeast(TopOf(e, f), m.stamp)
    BY <1>2, <1>7, FenceOutcome
  <2>2. entries' = [entries EXCEPT ![k] = e] /\ fences' = [fences EXCEPT ![k] = f]
    BY <1>1, <1>4, <1>7 DEF ApplyFence
  <2>3. AtLeast(TopOf(e, f), TopOf(e, f))
    BY DEF AtLeast
  <2>4. Top(k)' = Top(k)
    BY <1>1, <1>4, <2>2 DEF Top
  <2>a. /\ \A s \in new : AtLeast(TopOf(e, f), s)
        /\ TopOf(e, f) \in {Top(k)} \union new
    BY <1>2, <2>1
  <2> HIDE DEF k, new
  <2>5. IInv'
    BY <1>1, <1>2, <1>3, <1>5, <2>2, <2>3, <2>a, OneKeyStep
  <2> QED  BY <1>2, <2>3, <2>4, <2>5 DEF k
<1> QED  BY <1>6, <1>7

\* MarkDelayed keeps the invariant and changes no stamp.
LEMMA MarkDelayedInv ==
    ASSUME IInv, NEW m \in Mutations, MarkDelayed(m.key, m.lease, m.stamp.version)
    PROVE  IInv' /\ Top(m.key)' = Top(m.key)
<1> DEFINE k == m.key
           e == entries[k]
           f == fences[k]
           e2 == [e EXCEPT !.status = "DELAYED", !.at = now]
           new == {}
<1>1. k \in Keys
  BY MutationFields
<1>2. /\ e \in Entry \union {None} /\ f \in Stamp \union {None}
      /\ Sourced(k, e, f) /\ Guarded(e, f) /\ Top(k) = TopOf(e, f)
      /\ merged \in [Keys -> SUBSET Stamp] /\ now \in Nat
  BY <1>1, OneKeyInv
<1>3. entries \in [Keys -> Entry \union {None}] /\ fences \in [Keys -> Stamp \union {None}]
  BY DEF IInv, TypeOK
<1>4. e \in Entry /\ e # None /\ e.status = "ACTIVE"
  BY <1>2 DEF MarkDelayed
<1>5. /\ e2 \in Entry /\ e2.stamp = e.stamp /\ e2.lease = e.lease
      /\ e2.status = "DELAYED" /\ e2.ops = e.ops
  BY <1>2, <1>4 DEF Entry
<1>6. e2 # None
  BY <1>5, RegistryAssumption
<1>7. /\ entries' = [entries EXCEPT ![k] = e2] /\ fences' = [fences EXCEPT ![k] = f]
      /\ merged' = [merged EXCEPT ![k] = @ \union new] /\ now' = now
  BY <1>1, <1>2, <1>3 DEF MarkDelayed
<1>8. Sourced(k, e2, f) /\ Guarded(e2, f)
  BY <1>2, <1>4, <1>5, <1>6 DEF Sourced, Guarded
<1>9. TopOf(e2, f) = TopOf(e, f) /\ AtLeast(TopOf(e2, f), TopOf(e, f))
  BY <1>4, <1>5, <1>6 DEF TopOf, AtLeast
<1>10. Top(k)' = TopOf(e2, f)
  BY <1>1, <1>3, <1>7 DEF Top
<1>a. /\ new \in SUBSET Stamp
      /\ \A s \in new : AtLeast(TopOf(e2, f), s)
      /\ \A s \in new : \E n \in Mutations : n.key = k /\ n.stamp = s
      /\ TopOf(e2, f) \in {Top(k)} \union new
      /\ AtLeast(TopOf(e2, f), Top(k))
  BY <1>2, <1>9
<1> HIDE DEF k, e2, new
<1>11. IInv'
  BY <1>1, <1>2, <1>5, <1>7, <1>8, <1>a, OneKeyStep
<1> QED  BY <1>2, <1>9, <1>10, <1>11 DEF k

\* GC keeps the invariant and changes no stamp.
LEMMA GCInv ==
    ASSUME IInv, NEW shard \in Shards, GC(shard)
    PROVE  IInv' /\ \A k \in Keys : Top(k)' = Top(k)
<1>1. /\ fences' = fences /\ merged' = merged /\ now' = now
      /\ \A k \in Keys : entries'[k] = IF k \in shard /\ Collectable(k)
                                       THEN None ELSE entries[k]
      /\ entries' \in [Keys -> Entry \union {None}]
  BY DEF GC, IInv, TypeOK
<1>2. ASSUME NEW k \in Keys, entries'[k] # entries[k]
      PROVE  entries'[k] = None /\ entries[k] # None /\ fences[k] = entries[k].stamp
  BY <1>1, <1>2 DEF Collectable, IInv, FencesGuard, Guarded
<1>3. \A k \in Keys : Top(k)' = Top(k)
  BY <1>1, <1>2 DEF Top, TopOf
<1>4. TypeOK'
  BY <1>1, <1>2 DEF TypeOK, IInv
<1>5. Provenance'
  BY <1>1, <1>2 DEF Provenance, Sourced, IInv
<1>6. FencesGuard'
  BY <1>1, <1>2 DEF FencesGuard, Guarded, IInv
<1>7. TopIsJoin'
  BY <1>1, <1>3 DEF TopIsJoin, IInv
<1> QED  BY <1>3, <1>4, <1>5, <1>6, <1>7 DEF IInv

\* Every step keeps the invariant and lowers the stamp of no key.
LEMMA NextInv ==
    ASSUME IInv, [Next]_vars
    PROVE  IInv' /\ \A k \in Keys : AtLeast(Top(k)', Top(k))
<1>1. \A k \in Keys : AtLeast(Top(k), Top(k))
  BY DEF AtLeast
<1>2. ASSUME NEW m \in Mutations,
             Apply(m) \/ ApplyFence(m.key, m.stamp) \/ MarkDelayed(m.key, m.lease, m.stamp.version)
      PROVE  \A k \in Keys : k # m.key => Top(k)' = Top(k)
  BY <1>2 DEF Apply, ApplyFence, MarkDelayed, Top, IInv, TypeOK
<1>3. CASE Tick
  BY <1>1, <1>3 DEF Tick, IInv, TypeOK, Provenance, FencesGuard, TopIsJoin, Top
<1>4. ASSUME NEW m \in Mutations, Apply(m)
      PROVE  IInv' /\ \A k \in Keys : AtLeast(Top(k)', Top(k))
  BY <1>1, <1>2, <1>4, ApplyInv
<1>5. ASSUME NEW m \in Mutations, m.stamp.kind \in EvictingKinds, ApplyFence(m.key, m.stamp)
      PROVE  IInv' /\ \A k \in Keys : AtLeast(Top(k)', Top(k))
  BY <1>1, <1>2, <1>5, ApplyFenceInv
<1>6. ASSUME NEW m \in Mutations, MarkDelayed(m.key, m.lease, m.stamp.version)
      PROVE  IInv' /\ \A k \in Keys : AtLeast(Top(k)', Top(k))
  BY <1>1, <1>2, <1>6, MarkDelayedInv
<1>7. ASSUME NEW shard \in Shards, GC(shard)
      PROVE  IInv' /\ \A k \in Keys : AtLeast(Top(k)', Top(k))
  BY <1>1, <1>7, GCInv
<1>8. CASE UNCHANGED vars
  BY <1>1, <1>8 DEF vars, IInv, TypeOK, Provenance, FencesGuard, TopIsJoin, Top
<1> QED  BY <1>3, <1>4, <1>5, <1>6, <1>7, <1>8 DEF Next

-----------------------------------------------------------------------------
\* The inductive invariant holds throughout.
LEMMA Invariance == Spec => []IInv
<1>1. IInv /\ [Next]_vars => IInv'
  BY NextInv
<1> QED  BY <1>1, Initially, PTL DEF Spec

\* Type correctness of the registry, window bound included.
THEOREM TypeCorrect == Spec => []TypeOK
<1>1. IInv => TypeOK
  BY DEF IInv
<1> QED  BY <1>1, Invariance, PTL

\* A tombstone's fence always stands behind it: GC forgets nothing.
THEOREM FencesAlwaysGuard == Spec => []FencesGuard
<1>1. IInv => FencesGuard
  BY DEF IInv
<1> QED  BY <1>1, Invariance, PTL

\* The state of every key is the join of what it was compared with, in any order.
THEOREM MergeIsJoin == Spec => []TopIsJoin
<1>1. IInv => TopIsJoin
  BY DEF IInv
<1> QED  BY <1>1, Invariance, PTL

\* An explicitly terminated lease, or an older one, is never discoverable
\* again (README section 4).
THEOREM TerminatedStaysTerminated == Spec => []NoResurrection
<1>1. ASSUME IInv, NEW k \in Keys, Discoverable(entries[k]),
             NEW s \in merged[k], ExplicitlyTerminal(s.kind)
      PROVE  VersionLess(s.epoch, entries[k].stamp.epoch)
  <2>1. entries[k] \in Entry /\ entries[k].stamp \in Stamp /\ s \in Stamp
    BY <1>1, OneKeyInv DEF Discoverable, Entry
  <2>2. ~ExplicitlyTerminal(entries[k].stamp.kind)
    BY <1>1, OneKeyInv DEF Discoverable, Sourced, ExplicitlyTerminal, EvictingKinds
  <2>3. AtLeast(entries[k].stamp, s)
    BY <1>1, <2>1 DEF IInv, TopIsJoin, Top, TopOf, Discoverable
  <2>4. Outranks(entries[k].stamp, s)
    BY <1>1, <2>1, <2>2, <2>3, NoneAssumption DEF AtLeast
  <2> QED  BY <1>1, <2>2, <2>4 DEF Outranks
<1>2. IInv => NoResurrection
  BY <1>1 DEF NoResurrection
<1> QED  BY <1>2, Invariance, PTL

-----------------------------------------------------------------------------
(* What is exported rebuilds what it came from.                             *)

\* An empty registry that imports a record has its stamp, and it is in
\* discovery there if it is in discovery here.
LEMMA ImportedRecord ==
    ASSUME NEW k, NEW e \in Entry, e # None, NEW f, NEW t \in Nat,
           Sourced(k, e, f), e.stamp.kind \in Kinds
    PROVE  LET m == Export(k, e, t)
               n == EntryAfter(None, None, m, t)
           IN  /\ n # None /\ n.stamp = e.stamp
               /\ Discoverable(n) <=> Discoverable(e)
<1> DEFINE m == Export(k, e, t)
           n == EntryAfter(None, None, m, t)
<1>1. m.stamp = e.stamp
  BY DEF Export
<1>2. Outcome(None, None, m) = "APPLIED"
  BY DEF Outcome
<1>3. n = NewEntry(None, m, t)
  BY <1>2 DEF EntryAfter
<1>4. n.stamp = e.stamp /\ n.status = StatusOf(e.stamp.kind)
  BY <1>1, <1>3 DEF NewEntry
<1>5. n # None
  <2>1. m.lease = e.lease /\ m.at = e.at /\ m.op = NoOp /\ m.remaining \in Nat
    BY DEF Export, Entry
  <2>2. Deadline(m, t) \in Nat
    BY <2>1 DEF Deadline
  <2>3. rememberOperation(KeptOps(None, m), m.op, m.stamp.eventID) = <<>>
    BY <2>1 DEF rememberOperation, KeptOps
  <2>4. StatusOf(e.stamp.kind) \in {"ACTIVE", "DELAYED", "EVICTED"}
    BY DEF StatusOf
  <2>5. e.stamp \in Stamp /\ e.lease \in LeaseIDs /\ e.at \in Nat
    BY DEF Entry
  <2>6. n = [stamp |-> e.stamp, lease |-> e.lease, status |-> StatusOf(e.stamp.kind),
             at |-> e.at, deadline |-> Deadline(m, t), ops |-> <<>>]
    BY <1>1, <1>3, <2>1, <2>3 DEF NewEntry
  <2>7. <<>> \in Seq(Remembered)
    OBVIOUS
  <2> HIDE DEF n, m
  <2>8. n \in Entry
    BY <2>2, <2>4, <2>5, <2>6, <2>7 DEF Entry
  <2> QED  BY <2>8, RegistryAssumption
<1> HIDE DEF n, m
<1>6. e.status \in {"ACTIVE", "DELAYED", "EVICTED"}
  BY DEF Entry
<1>7. Discoverable(n) <=> Discoverable(e)
  BY <1>4, <1>5, <1>6 DEF Discoverable, StatusOf, Sourced, Kinds, LiveKinds, EvictingKinds,
     TerminalKinds
<1> QED  BY <1>4, <1>5, <1>7 DEF n, m
\* An empty node that imports what this one exports of a key has the same
\* digest of it: MutationsForShard leaves out the local DELAYED mark, the
\* operation window and the deadline, and the digest (digest.go) has none of
\* them; a fence that is exported along with a record does not outrank it.
THEOREM ExportAlwaysRebuilds == Spec => []ExportRebuilds
<1>1. ASSUME IInv, NEW k \in Keys
      PROVE  LET m == Export(k, entries[k], now)
                 e == IF entries[k] = None THEN None ELSE EntryAfter(None, None, m, now)
                 f == IF entries[k] = None THEN None ELSE FenceAfter(None, None, m)
                 offered == fences[k] # None /\ FenceWins(fences[k], e)
             IN  Digest(IF offered THEN None ELSE e,
                        IF offered /\ FenceReplaces(fences[k], f) THEN fences[k] ELSE f)
                   = Digest(entries[k], fences[k])
  <2>1. /\ entries[k] \in Entry \union {None} /\ fences[k] \in Stamp \union {None}
        /\ Sourced(k, entries[k], fences[k]) /\ Guarded(entries[k], fences[k]) /\ now \in Nat
    BY <1>1, OneKeyInv
  <2>2. CASE entries[k] = None
    BY <2>2 DEF FenceWins, FenceReplaces, Digest
  <2>3. CASE entries[k] # None
    <3> DEFINE m == Export(k, entries[k], now)
               e == EntryAfter(None, None, m, now)
               f == FenceAfter(None, None, m)
    <3>1. entries[k] \in Entry /\ entries[k].stamp \in Stamp /\ entries[k].stamp.kind \in Kinds
      BY <2>1, <2>3 DEF Entry, Stamp
    <3>2. e # None /\ e.stamp = entries[k].stamp /\ (Discoverable(e) <=> Discoverable(entries[k]))
      BY <2>1, <2>3, <3>1, ImportedRecord
    <3> HIDE DEF e, f
    <3>3. ~(fences[k] # None /\ FenceWins(fences[k], e))
      BY <2>1, <2>3, <3>1, <3>2, OutranksAsymmetric DEF FenceWins, Guarded, AtLeast
    <3>4. Digest(e, f) = Digest(entries[k], fences[k])
      BY <2>3, <3>2 DEF Digest
    <3> QED  BY <2>3, <3>3, <3>4 DEF e, f, m
  <2> QED  BY <2>2, <2>3
<1>2. IInv => ExportRebuilds
  BY <1>1 DEF ExportRebuilds
<1> QED  BY <1>2, Invariance, PTL

-----------------------------------------------------------------------------
(* The registry implements LeaseLattice.                                   *)

\* The instance's copies of the definitions of Leases.
LEMMA LatticeDefinitions ==
    /\ Lattice!Stamp = Stamp
    /\ Lattice!LiveKinds = LiveKinds
    /\ \A a, b : Lattice!AtLeast(a, b) <=> AtLeast(a, b)
<1>1. Lattice!LiveKinds = LiveKinds /\ Lattice!TerminalKinds = TerminalKinds
  BY DEF LiveKinds, Lattice!LiveKinds, TerminalKinds, Lattice!TerminalKinds
<1>2. Lattice!Kinds = Kinds
  BY <1>1 DEF Kinds, Lattice!Kinds, EvictingKinds, Lattice!EvictingKinds
<1>3. Lattice!Stamp = Stamp
  BY <1>2 DEF Stamp, Lattice!Stamp, Version, Lattice!Version
<1>4. \A a, b : Lattice!VersionLess(a, b) <=> VersionLess(a, b)
  BY DEF VersionLess, Lattice!VersionLess
<1>5. \A kind : /\ Lattice!ExplicitlyTerminal(kind) <=> ExplicitlyTerminal(kind)
                /\ Lattice!Priority(kind) = Priority(kind)
  BY <1>1 DEF ExplicitlyTerminal, Lattice!ExplicitlyTerminal, Priority, Lattice!Priority
<1>6. \A a, b : Lattice!Outranks(a, b) <=> Outranks(a, b)
  BY <1>4, <1>5 DEF Outranks, Lattice!Outranks
<1> QED  BY <1>1, <1>3, <1>6 DEF AtLeast, Lattice!AtLeast

\* Discover returns exactly the keys whose highest stamp is live.
LEMMA DiscoverableIsLive ==
    ASSUME IInv, NEW k \in Keys
    PROVE  Discoverable(entries[k]) <=> Lattice!IsLive(Top(k))
<1>1. /\ entries[k] \in Entry \union {None} /\ fences[k] \in Stamp \union {None}
      /\ Sourced(k, entries[k], fences[k])
  BY OneKeyInv
<1>2. CASE entries[k] = None
  BY <1>1, <1>2 DEF Sourced, Top, TopOf, Discoverable, Lattice!IsLive, Lattice!LiveKinds,
     LiveKinds, EvictingKinds, TerminalKinds
<1>3. CASE entries[k] # None
  <2>1. /\ entries[k] \in Entry /\ entries[k].stamp \in Stamp
        /\ entries[k].stamp.kind \in Kinds
        /\ entries[k].status \in {"ACTIVE", "DELAYED", "EVICTED"}
    BY <1>1, <1>3 DEF Entry, Stamp
  <2> QED
    BY <1>1, <1>3, <2>1, NoneAssumption DEF Sourced, Top, TopOf, Discoverable, Lattice!IsLive,
       Lattice!LiveKinds, Kinds, LiveKinds, EvictingKinds, TerminalKinds
<1> QED  BY <1>2, <1>3

\* Discover returns a key exactly when its stamp is live.
LEMMA DiscoverReturnsLive ==
    IInv => {k \in Keys : Discoverable(entries[k])} = {k \in Keys : Lattice!IsLive(Top(k))}
  BY DiscoverableIsLive

\* Each step changes the stamp of one key at most.
LEMMA StepTouchesOneKey ==
    ASSUME IInv, [Next]_vars
    PROVE  \/ \A k \in Keys : Top(k)' = Top(k)
           \/ \E j \in Keys : \A k \in Keys : k # j => Top(k)' = Top(k)
<1>1. ASSUME NEW m \in Mutations,
             \/ Apply(m) \/ ApplyFence(m.key, m.stamp)
             \/ MarkDelayed(m.key, m.lease, m.stamp.version)
      PROVE  \E j \in Keys : \A k \in Keys : k # j => Top(k)' = Top(k)
  <2>1. m.key \in Keys
    BY MutationFields
  <2>2. \A k \in Keys : k # m.key => Top(k)' = Top(k)
    BY <1>1 DEF Apply, ApplyFence, MarkDelayed, Top, IInv, TypeOK
  <2> QED  BY <2>1, <2>2
<1>2. CASE Tick
  BY <1>2 DEF Tick, Top
<1>3. ASSUME NEW shard \in Shards, GC(shard)
      PROVE  \A k \in Keys : Top(k)' = Top(k)
  BY <1>3, GCInv
<1>4. CASE UNCHANGED vars
  BY <1>4 DEF vars, Top
<1> QED  BY <1>1, <1>2, <1>3, <1>4 DEF Next

\* The detailed registry implements the abstract lattice of leases.
THEOREM RegistryImplementsLattice == Spec => ImplementsLattice
<1> DEFINE T == [k \in Keys |-> Top(k)]
           D == {k \in Keys : Discoverable(entries[k])}
<1>1. Init => Lattice!Init
  BY DEF Init, Lattice!Init, Top, TopOf, Discoverable
<1>2. IInv /\ IInv' /\ [Next]_vars => [Lattice!Next]_<<T, D>>
  <2> SUFFICES ASSUME IInv, IInv', [Next]_vars
               PROVE  [Lattice!Next]_<<T, D>>
    OBVIOUS
  <2>1. D = {k \in Keys : Lattice!IsLive(Top(k))}
    BY DiscoverReturnsLive
  <2>2. D' = {k \in Keys : Lattice!IsLive(Top(k)')}
    <3>1. (D = {k \in Keys : Lattice!IsLive(Top(k))})'
      BY DiscoverReturnsLive, PTL
    <3> QED  BY <3>1 DEF Lattice!IsLive
  <2>3. CASE \A k \in Keys : Top(k)' = Top(k)
    <3>1. T' = T
      BY <2>3
    <3>2. D' = D
      BY <2>1, <2>2, <2>3
    <3> QED  BY <3>1, <3>2
  <2>4. CASE \E j \in Keys : Top(j)' # Top(j) /\ \A k \in Keys : k # j => Top(k)' = Top(k)
    <3>1. PICK j \in Keys : Top(j)' # Top(j) /\ \A k \in Keys : k # j => Top(k)' = Top(k)
      BY <2>4
    <3>2. AtLeast(Top(j)', Top(j))
      BY NextInv
    <3>3. Top(j)' \in Stamp \union {None} /\ Top(j) \in Stamp \union {None}
      BY DEF IInv, TypeOK, Top, TopOf, Entry
    <3>4. Top(j)' \in Stamp
      BY <3>1, <3>2, <3>3 DEF AtLeast
    <3>5. T' = [T EXCEPT ![j] = T'[j]]
      BY <3>1
    <3>6. T'[j] = Top(j)' /\ T[j] = Top(j)
      OBVIOUS
    <3>7. D' = {k \in Keys : Lattice!IsLive(T'[k])}
      BY <2>2
    <3>8. Lattice!Climb(j)
      BY <3>2, <3>4, <3>5, <3>6, <3>7, LatticeDefinitions DEF Lattice!Climb
    <3> QED  BY <3>8 DEF Lattice!Next
  <2> QED  BY <2>3, <2>4, StepTouchesOneKey
<1> QED
  BY <1>1, <1>2, Invariance, PTL DEF Spec, ImplementsLattice, Lattice!Spec
=============================================================================
