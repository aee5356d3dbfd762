---------------------------- MODULE ServiceProofs ----------------------------
(***************************************************************************)
(* The lease service, for any number of requests, peers, registrations and *)
(* calls, any skew and any bound on time.  Types come first, and with them *)
(* a lemma per action that says what the step does to each variable; the   *)
(* invariants after them are shown from those lemmas and not from the      *)
(* actions.                                                                *)
(***************************************************************************)
EXTENDS Service, SequenceTheorems, TLAPS

-----------------------------------------------------------------------------
(* The order of versions and of stamps.                                    *)

\* CompareVersion is a strict order.
LEMMA VersionOrder ==
    ASSUME NEW a \in Version, NEW b \in Version, NEW c \in Version
    PROVE  /\ ~VersionLess(a, a)
           /\ VersionLess(a, b) => ~VersionLess(b, a)
           /\ VersionLess(a, b) /\ VersionLess(b, c) => VersionLess(a, c)
  BY DEF Version, VersionLess

\* CompareVersion returns 0 on equal versions only.
LEMMA VersionTotal ==
    ASSUME NEW a \in Version, NEW b \in Version
    PROVE  VersionLess(a, b) \/ a = b \/ VersionLess(b, a)
  BY DEF Version, VersionLess

\* Priorities are numbers.
LEMMA PriorityType ==
    ASSUME NEW kind \in Kinds
    PROVE  Priority(kind) \in Nat
  BY DEF Kinds, LiveKinds, EvictingKinds, TerminalKinds, Priority

\* The comparators never rank a stamp above itself, nor two stamps above
\* each other.
LEMMA OutranksAsymmetric ==
    ASSUME NEW a \in Stamp, NEW b \in Stamp
    PROVE  /\ ~Outranks(a, a)
           /\ Outranks(a, b) => ~Outranks(b, a)
<1>1. /\ a.epoch \in Version /\ a.version \in Version /\ a.kind \in Kinds
      /\ b.epoch \in Version /\ b.version \in Version /\ b.kind \in Kinds
      /\ a.eventID \in Nat /\ b.eventID \in Nat
  BY DEF Stamp
<1>2. Priority(a.kind) \in Nat /\ Priority(b.kind) \in Nat
  BY <1>1, PriorityType
<1> QED
  BY <1>1, <1>2, VersionOrder DEF Outranks

-----------------------------------------------------------------------------
(* Types.                                                                  *)

\* A mutation made of a kind, a lease, a version and the rest is one.
LEMMA MutationType ==
    ASSUME NEW kind \in Kinds, NEW lease \in LeaseID, NEW version \in Version,
           NEW op \in Op, NEW at \in Nat, NEW remaining \in Nat
    PROVE  /\ Mutation(kind, lease, version, op, at, remaining) \in Mutations
           /\ Mutation(kind, lease, version, op, at, remaining) # None
<1>1. lease.epoch \in Version /\ EventOf(version) \in Nat
  BY DEF LeaseID, Version, EventOf
<1>2. [epoch |-> lease.epoch, version |-> version, kind |-> kind,
       eventID |-> EventOf(version)] \in Stamp
  BY <1>1 DEF Stamp
<1>3. Mutation(kind, lease, version, op, at, remaining) \in Mutations
  BY <1>1, <1>2 DEF Mutation, Mutations
<1> QED
  BY <1>3, AbsenceAssumption

\* The fields of a mutation.
LEMMA MutationParts ==
    ASSUME NEW m \in Mutations
    PROVE  /\ m.stamp \in Stamp /\ m.lease \in LeaseID /\ m.op \in Op
           /\ m.at \in Nat /\ m.remaining \in Nat /\ m.lease.epoch = m.stamp.epoch
           /\ m.stamp.kind \in Kinds /\ m.stamp.version \in Version
           /\ m.stamp.epoch \in Version /\ m.stamp.eventID \in Nat
           /\ m # None
  BY AbsenceAssumption DEF Mutations, Stamp

\* The fields of an entry.
LEMMA EntryParts ==
    ASSUME NEW e \in Entries
    PROVE  /\ e.stamp \in Stamp /\ e.lease \in LeaseID /\ e.at \in Nat /\ e.deadline \in Nat
           /\ e.status \in {"ACTIVE", "DELAYED", "EVICTED"}
           /\ e.ops \in Seq([op : Op, event : Nat]) /\ Len(e.ops) <= Window
           /\ e.lease.epoch = e.stamp.epoch
           /\ e.status = "EVICTED" <=> e.stamp.kind \in EvictingKinds
           /\ e.stamp.kind \in Kinds /\ e.stamp.version \in Version
           /\ e.stamp.epoch \in Version /\ e.stamp.eventID \in Nat
           /\ e # None
  BY AbsenceAssumption DEF Entries, Stamp

\* Versions and leases.
LEMMA VersionType ==
    ASSUME NEW n \in Nat
    PROVE  Local(n) \in Version /\ Remote(n) \in Version
  BY DEF Local, Remote, Version

\* A lease of a version and a registration ID is one.
LEMMA LeaseType ==
    ASSUME NEW version \in Version, NEW reg \in Registrations
    PROVE  Lease(version, reg) \in LeaseID
  BY DEF Lease, LeaseID

-----------------------------------------------------------------------------
(* What goroutines hold.                                                    *)

\* A goroutine that is idle, answered or not.
LEMMA IdleType ==
    ASSUME NEW answer \in Replies \union {None}
    PROVE  /\ [Idle EXCEPT !.answer = answer] \in Goroutine
           /\ [Idle EXCEPT !.answer = answer].answer = answer
  BY DEF Idle, Goroutine

\* A goroutine with a mutation that has no version yet.
LEMMA DraftType ==
    ASSUME NEW m \in Mutations
    PROVE  /\ [Idle EXCEPT !.pc = "stamp", !.m = m] \in Goroutine
           /\ [Idle EXCEPT !.pc = "stamp", !.m = m].answer = None
  BY MutationParts DEF Idle, Goroutine

\* A goroutine with a mutation for the registry.
LEMMA PreparedType ==
    ASSUME NEW m \in Mutations
    PROVE  /\ [Idle EXCEPT !.pc = "apply", !.m = m] \in Goroutine
           /\ [Idle EXCEPT !.pc = "apply", !.m = m].answer = None
  BY MutationParts DEF Idle, Goroutine

\* What a goroutine holds.
LEMMA ProcType ==
    ASSUME TypeOK, NEW p \in Goroutines
    PROVE  /\ procs[p] \in Goroutine
           /\ procs[p].m \in Mutations \union {None}
           /\ procs[p].pc \in {"stamp", "apply", "followup"} => procs[p].m \in Mutations
           /\ procs[p].pc = "followup" =>
                 procs[p].record \in Entries /\ procs[p].record.stamp = procs[p].m.stamp
           /\ procs[p].pc = "announce" => procs[p].record \in Events
           /\ procs[p].answer \in Replies \union {None}
           /\ procs[p].answer # None => p \in Threads
  BY DEF TypeOK, Goroutine

\* What was stored is a mutation.
LEMMA StoredType ==
    ASSUME TypeOK, NEW m \in Stored
    PROVE  m \in Mutations
  BY ProcType DEF Stored, TypeOK

\* A lease that a stored mutation names is one.
LEMMA KnownLeaseType ==
    ASSUME TypeOK, NEW lease \in KnownLeases
    PROVE  lease \in LeaseID
  BY StoredType, MutationParts DEF KnownLeases

\* So is a lease of which a peer may send a mutation.
LEMMA PeerLeaseType ==
    ASSUME TypeOK, NEW kind, NEW version \in Version, NEW lease \in PeerLeases(kind, version)
    PROVE  lease \in LeaseID
  BY LeaseType, KnownLeaseType DEF PeerLeases

\* One goroutine's step keeps the shape of all goroutines.
LEMMA ProcStepType ==
    ASSUME TypeOK, NEW p \in Goroutines, NEW q \in Goroutine,
           q.answer # None => p \in Threads,
           procs' = [procs EXCEPT ![p] = q]
    PROVE  /\ procs' \in [Goroutines -> Goroutine]
           /\ \A r \in Goroutines : procs'[r].answer # None => r \in Threads
           /\ procs'[p] = q
           /\ \A r \in Goroutines \ {p} : procs'[r] = procs[r]
  BY DEF TypeOK

\* A goroutine that is done with its mutation.
LEMMA AnswersType ==
    ASSUME TypeOK, NEW p \in Goroutines, NEW answer \in Replies \union {None},
           answer # None => p \in Threads, Answers(p, answer)
    PROVE  /\ procs' \in [Goroutines -> Goroutine]
           /\ \A r \in Goroutines : procs'[r].answer # None => r \in Threads
           /\ procs'[p] = [Idle EXCEPT !.answer = answer]
           /\ \A r \in Goroutines \ {p} : procs'[r] = procs[r]
<1> DEFINE q == [Idle EXCEPT !.answer = answer]
<1>1. q \in Goroutine /\ q.answer = answer
  BY IdleType
<1>2. procs' = [procs EXCEPT ![p] = q]
  BY DEF Answers
<1> HIDE DEF q
<1>3. /\ procs' \in [Goroutines -> Goroutine]
      /\ \A r \in Goroutines : procs'[r].answer # None => r \in Threads
      /\ procs'[p] = q
      /\ \A r \in Goroutines \ {p} : procs'[r] = procs[r]
  BY <1>1, <1>2, ProcStepType
<1> QED
  BY <1>3 DEF q

\* A goroutine that starts a mutation.
LEMMA DraftsType ==
    ASSUME TypeOK, NEW p \in Goroutines, NEW m \in Mutations, Drafts(p, m)
    PROVE  /\ procs' \in [Goroutines -> Goroutine]
           /\ \A r \in Goroutines : procs'[r].answer # None => r \in Threads
           /\ procs'[p] = [Idle EXCEPT !.pc = "stamp", !.m = m]
           /\ \A r \in Goroutines \ {p} : procs'[r] = procs[r]
<1> DEFINE q == [Idle EXCEPT !.pc = "stamp", !.m = m]
<1>1. q \in Goroutine /\ q.answer = None
  BY DraftType
<1>2. procs' = [procs EXCEPT ![p] = q]
  BY DEF Drafts
<1> HIDE DEF q
<1>3. /\ procs' \in [Goroutines -> Goroutine]
      /\ \A r \in Goroutines : procs'[r].answer # None => r \in Threads
      /\ procs'[p] = q
      /\ \A r \in Goroutines \ {p} : procs'[r] = procs[r]
  BY <1>1, <1>2, ProcStepType
<1> QED
  BY <1>3 DEF q

\* A goroutine that takes a mutation from a peer.
LEMMA PreparesType ==
    ASSUME TypeOK, NEW p \in Goroutines, NEW m \in Mutations,
           procs' = [procs EXCEPT ![p] = [Idle EXCEPT !.pc = "apply", !.m = m]]
    PROVE  /\ procs' \in [Goroutines -> Goroutine]
           /\ \A r \in Goroutines : procs'[r].answer # None => r \in Threads
           /\ procs'[p] = [Idle EXCEPT !.pc = "apply", !.m = m]
           /\ \A r \in Goroutines \ {p} : procs'[r] = procs[r]
<1> DEFINE q == [Idle EXCEPT !.pc = "apply", !.m = m]
<1>1. q \in Goroutine /\ q.answer = None
  BY PreparedType
<1> HIDE DEF q
<1>2. procs' = [procs EXCEPT ![p] = q]
  BY DEF q
<1>3. /\ procs' \in [Goroutines -> Goroutine]
      /\ \A r \in Goroutines : procs'[r].answer # None => r \in Threads
      /\ procs'[p] = q
      /\ \A r \in Goroutines \ {p} : procs'[r] = procs[r]
  BY <1>1, <1>2, ProcStepType
<1> QED
  BY <1>3 DEF q

\* A goroutine that has an event to publish.
LEMMA AnnouncesType ==
    ASSUME TypeOK, NEW p \in Goroutines, procs[p].answer = None,
           NEW type \in EventTypes, NEW stamp \in Stamp, Announces(p, type, stamp)
    PROVE  /\ procs' \in [Goroutines -> Goroutine]
           /\ \A r \in Goroutines : procs'[r].answer # None => r \in Threads
           /\ procs'[p].pc = "announce"
           /\ \A r \in Goroutines \ {p} : procs'[r] = procs[r]
<1> DEFINE event == [type |-> type, stamp |-> stamp]
<1> DEFINE q == [procs[p] EXCEPT !.pc = "announce", !.record = event]
<1>1. event \in Events
  BY DEF Events
<1> HIDE DEF event
<1>2. procs' = [procs EXCEPT ![p] = q]
  BY DEF Announces, event
<1>3. q \in Goroutine /\ q.answer = None /\ q.pc = "announce"
  BY <1>1, ProcType DEF Goroutine
<1> HIDE DEF q
<1> QED
  BY <1>2, <1>3, ProcStepType

\* The shape of all goroutines, as in TypeOK.
ProcsTyped ==
    /\ procs \in [Goroutines -> Goroutine]
    /\ \A p \in Goroutines : procs[p].answer # None => p \in Threads

\* Nothing changes for the goroutines other than p.
OthersStay(p) == \A r \in Goroutines \ {p} : procs'[r] = procs[r]

\* An item of the window of operation IDs.
WindowItem == [op : Op, event : Nat]

-----------------------------------------------------------------------------
(* What the registry makes of a mutation.                                   *)

\* The window keeps its length, drops nothing but its oldest item and gains
\* nothing but the operation it is given.
LEMMA WindowType ==
    ASSUME NEW ops \in Seq(WindowItem), Len(ops) <= Window, NEW op \in Op, NEW event \in Nat
    PROVE  /\ rememberOperation(ops, op, event) \in Seq(WindowItem)
           /\ Len(rememberOperation(ops, op, event)) <= Window
           /\ \A o : Seen(rememberOperation(ops, op, event), o) => Seen(ops, o) \/ o = op
<1>1. CASE op = NoOp \/ Seen(ops, op)
  BY <1>1 DEF rememberOperation
<1>2. CASE ~(op = NoOp \/ Seen(ops, op))
  <2> DEFINE kept == IF Len(ops) = Window THEN Tail(ops) ELSE ops
  <2> DEFINE item == [op |-> op, event |-> event]
  <2>1. item \in WindowItem /\ item.op = op
    BY DEF WindowItem
  <2>2. Window \in Nat /\ Window # 0
    BY ServiceAssumption
  <2>3. /\ kept \in Seq(WindowItem) /\ Len(kept) + 1 <= Window
        /\ \A i \in 1..Len(kept) : \E j \in 1..Len(ops) : kept[i] = ops[j]
    <3>1. CASE Len(ops) = Window
      <4>1. Len(ops) > 0 /\ ops # <<>>
        BY <2>2, <3>1
      <4>2. /\ Tail(ops) \in Seq(WindowItem) /\ Len(Tail(ops)) = Len(ops) - 1
            /\ \A i \in 1..Len(Tail(ops)) : Tail(ops)[i] = ops[i + 1]
        BY <4>1
      <4>3. \A i \in 1..Len(Tail(ops)) : i + 1 \in 1..Len(ops)
        BY <4>1, <4>2
      <4>4. Len(Tail(ops)) + 1 <= Window
        BY <2>2, <3>1, <4>2
      <4> QED
        BY <3>1, <4>2, <4>3, <4>4
    <3>2. CASE Len(ops) # Window
      <4>1. Len(ops) + 1 <= Window
        BY <2>2, <3>2, LenProperties
      <4> QED
        BY <3>2, <4>1
    <3> QED
      BY <3>1, <3>2
  <2>4. rememberOperation(ops, op, event) = Append(kept, item)
    BY <1>2 DEF rememberOperation
  <2> HIDE DEF kept, item
  <2>5. /\ Append(kept, item) \in Seq(WindowItem)
        /\ Len(Append(kept, item)) = Len(kept) + 1
        /\ \A i \in 1..(Len(kept) + 1) :
              Append(kept, item)[i] = IF i = Len(kept) + 1 THEN item ELSE kept[i]
    BY <2>1, <2>3
  <2>6. ASSUME NEW o, Seen(Append(kept, item), o)
        PROVE  Seen(ops, o) \/ o = op
    <3>1. PICK i \in 1..(Len(kept) + 1) : Append(kept, item)[i].op = o
      BY <2>5, <2>6 DEF Seen, operationEvent
    <3>2. CASE i = Len(kept) + 1
      BY <2>1, <2>5, <3>1, <3>2
    <3>3. CASE i \in 1..Len(kept)
      BY <2>3, <2>5, <2>6, <3>1, <3>3 DEF Seen, operationEvent
    <3>4. Len(kept) \in Nat
      BY <2>3
    <3> QED
      BY <3>2, <3>3, <3>4
  <2>7. Len(Append(kept, item)) <= Window
    BY <2>3, <2>5
  <2> QED
    BY <2>4, <2>5, <2>6, <2>7
<1> QED
  BY <1>1, <1>2

\* A deadline is now or later, by what remains of the lease.
LEMMA DeadlineType ==
    ASSUME NEW m \in Mutations, NEW t \in Nat
    PROVE  /\ Deadline(m, t) \in Nat
           /\ Deadline(m, t) <= t + m.remaining
           /\ m.stamp.kind \notin LiveKinds => Deadline(m, t) = 0
  BY MutationParts DEF Deadline

\* What the registry holds after an applied mutation is the mutation.
LEMMA AppliedEntry ==
    ASSUME NEW e \in Entries \union {None}, NEW f, NEW m \in Mutations, NEW t \in Nat,
           Outcome(e, f, m) = "APPLIED"
    PROVE  LET n == EntryAfter(e, f, m, t)
           IN  /\ n \in Entries
               /\ n.stamp = m.stamp /\ n.lease = m.lease
               /\ n.status = StatusOf(m.stamp.kind) /\ n.deadline = Deadline(m, t)
               /\ n.ops = rememberOperation(KeptOps(e, m), m.op, m.stamp.eventID)
               /\ KeptOps(e, m) \in Seq(WindowItem) /\ Len(KeptOps(e, m)) <= Window
<1> DEFINE n == NewEntry(e, m, t)
<1>1. EntryAfter(e, f, m, t) = n
  BY DEF EntryAfter
<1>2. /\ m.stamp \in Stamp /\ m.lease \in LeaseID /\ m.op \in Op /\ m.at \in Nat
      /\ m.lease.epoch = m.stamp.epoch /\ m.stamp.kind \in Kinds /\ m.stamp.eventID \in Nat
  BY MutationParts
<1>3. KeptOps(e, m) \in Seq(WindowItem) /\ Len(KeptOps(e, m)) <= Window
  <2>1. CASE KeptOps(e, m) = <<>>
    <3>1. Len(<<>>) <= Window
      BY ServiceAssumption
    <3> QED
      BY <2>1, <3>1
  <2>2. CASE e \in Entries /\ KeptOps(e, m) = e.ops
    BY <2>2, EntryParts DEF WindowItem
  <2> QED
    BY <2>1, <2>2 DEF KeptOps
<1> DEFINE ops == rememberOperation(KeptOps(e, m), m.op, m.stamp.eventID)
<1>4. ops \in Seq(WindowItem) /\ Len(ops) <= Window
  BY <1>2, <1>3, WindowType
<1>5. Deadline(m, t) \in Nat
  BY DeadlineType
<1>6. /\ StatusOf(m.stamp.kind) \in {"ACTIVE", "DELAYED", "EVICTED"}
      /\ StatusOf(m.stamp.kind) = "EVICTED" <=> m.stamp.kind \in EvictingKinds
  BY <1>2 DEF StatusOf, Kinds, LiveKinds, EvictingKinds, TerminalKinds
<1>7. n = [stamp |-> m.stamp, lease |-> m.lease, status |-> StatusOf(m.stamp.kind),
           at |-> m.at, deadline |-> Deadline(m, t), ops |-> ops]
  BY DEF NewEntry
<1> HIDE DEF n, ops
<1>8. n \in Entries
  BY <1>2, <1>4, <1>5, <1>6, <1>7 DEF Entries, WindowItem
<1>9. /\ n.stamp = m.stamp /\ n.lease = m.lease
      /\ n.status = StatusOf(m.stamp.kind) /\ n.deadline = Deadline(m, t)
      /\ n.ops = ops
  BY <1>7
<1> QED
  BY <1>1, <1>3, <1>8, <1>9 DEF ops

\* A repeated operation can only enter the window.
LEMMA DuplicateEntry ==
    ASSUME NEW e \in Entries \union {None}, NEW f, NEW m \in Mutations, NEW t \in Nat,
           Outcome(e, f, m) = "DUPLICATE"
    PROVE  LET n == EntryAfter(e, f, m, t)
           IN  /\ e \in Entries /\ n \in Entries
               /\ n.stamp = e.stamp /\ n.lease = e.lease /\ n.status = e.status
               /\ n.at = e.at /\ n.deadline = e.deadline
               /\ n.ops = rememberOperation(e.ops, m.op, e.stamp.eventID)
<1> DEFINE n == [e EXCEPT !.ops = rememberOperation(@, m.op, e.stamp.eventID)]
<1>1. e \in Entries
  BY DEF Outcome
<1>2. EntryAfter(e, f, m, t) = n
  BY DEF EntryAfter
<1>3. /\ e.ops \in Seq(WindowItem) /\ Len(e.ops) <= Window
      /\ e.stamp.eventID \in Nat /\ m.op \in Op
  BY <1>1, EntryParts, MutationParts DEF WindowItem
<1> DEFINE ops == rememberOperation(e.ops, m.op, e.stamp.eventID)
<1>4. ops \in Seq(WindowItem) /\ Len(ops) <= Window
  BY <1>3, WindowType
<1>5. n = [e EXCEPT !.ops = ops]
  OBVIOUS
<1> HIDE DEF ops, n
<1>6. n \in Entries
  BY <1>1, <1>4, <1>5 DEF Entries, WindowItem
<1>7. /\ n.stamp = e.stamp /\ n.lease = e.lease /\ n.status = e.status
      /\ n.at = e.at /\ n.deadline = e.deadline /\ n.ops = ops
  BY <1>1, <1>5 DEF Entries
<1> QED
  BY <1>1, <1>2, <1>6, <1>7 DEF ops

\* A stale mutation leaves the entry as it was.
LEMMA StaleEntry ==
    ASSUME NEW e, NEW f, NEW m, NEW t, Outcome(e, f, m) = "STALE"
    PROVE  EntryAfter(e, f, m, t) = e
  BY DEF EntryAfter

\* There are three outcomes.
LEMMA OutcomeType ==
    ASSUME NEW e, NEW f, NEW m
    PROVE  Outcome(e, f, m) \in {"APPLIED", "DUPLICATE", "STALE"}
  BY DEF Outcome

\* A fence is a stamp.
LEMMA FenceType ==
    ASSUME NEW e, NEW f \in Stamp \union {None}, NEW m \in Mutations
    PROVE  FenceAfter(e, f, m) \in Stamp \union {None}
  BY MutationParts DEF FenceAfter

\* What the registry holds is an entry, whatever it is given.
LEMMA EntryType ==
    ASSUME NEW e \in Entries \union {None}, NEW f, NEW m \in Mutations, NEW t \in Nat
    PROVE  EntryAfter(e, f, m, t) \in Entries \union {None}
<1>1. CASE Outcome(e, f, m) = "APPLIED"
  BY <1>1, AppliedEntry
<1>2. CASE Outcome(e, f, m) = "DUPLICATE"
  BY <1>2, DuplicateEntry
<1>3. CASE Outcome(e, f, m) = "STALE"
  BY <1>3, StaleEntry
<1> QED
  BY <1>1, <1>2, <1>3, OutcomeType

-----------------------------------------------------------------------------
(* What each step does, in the terms the invariants below are stated in.    *)

\* The goroutines, and who of them is nobody's request.
LEMMA GoroutinesMembers ==
    /\ \A p \in Threads : p \in Goroutines /\ p # "wheel" /\ p # "maintenance"
    /\ \A p \in Peers : p \in Goroutines /\ p \notin Threads /\ p # "wheel" /\ p # "maintenance"
    /\ "wheel" \in Goroutines /\ "maintenance" \in Goroutines
    /\ "wheel" \notin Threads /\ "maintenance" \notin Threads
  BY ServiceAssumption DEF Goroutines

\* A mutation is made of what it is given.
LEMMA MutationIs ==
    ASSUME NEW kind, NEW lease, NEW version, NEW op, NEW at, NEW remaining
    PROVE  LET m == Mutation(kind, lease, version, op, at, remaining)
           IN  /\ m.stamp.kind = kind /\ m.stamp.version = version
               /\ m.stamp.epoch = lease.epoch
               /\ m.lease = lease /\ m.op = op /\ m.at = at /\ m.remaining = remaining
  BY DEF Mutation

\* A request is answered as a repeated registration, or drafts a mutation.
LEMMA RequestsStep ==
    ASSUME TypeOK, NEW p \in Threads, Requests(p)
    PROVE  /\ ProcsTyped' /\ OthersStay(p) /\ procs[p].pc = "idle"
           /\ UNCHANGED <<now, hlc, entry, fence, timers, published, outbox, received>>
           /\ calls' \in 0..MaxCalls
           /\ \/ /\ procs'[p].pc = "idle"
                 /\ procs'[p].answer = None \/ procs'[p].answer.kind = "REGISTER"
              \/ /\ procs'[p].pc = "stamp" /\ procs'[p].answer = None
                 /\ procs'[p].m \in Mutations
                 /\ procs'[p].m.stamp.kind \in LiveKinds
                 /\ procs'[p].m.op \in HeartbeatOps \union {NoOp}
                 /\ \/ procs'[p].m.lease.epoch = Local(0)
                    \/ procs'[p].m.lease \in KnownLeases
              \/ /\ procs'[p].pc = "stamp" /\ procs'[p].answer = None
                 /\ procs'[p].m \in Mutations
                 /\ procs'[p].m.stamp.kind \in TerminalKinds
                 /\ procs'[p].m.op \in DeregisterOps
                 /\ Registered(procs'[p].m.lease)
<1>1. /\ procs[p].pc = "idle" /\ p \in Goroutines /\ calls' \in 0..MaxCalls /\ now \in Nat
      /\ UNCHANGED <<now, hlc, entry, fence, timers, published, outbox, received>>
  <2>1. Call(p)
    BY DEF Requests, Register, Heartbeat, Deregister
  <2>2. calls' \in 0..MaxCalls
    BY <2>1, ServiceAssumption DEF Call, TypeOK
  <2> QED
    BY <2>1, <2>2, GoroutinesMembers, ServiceAssumption DEF Call, TypeOK, registry
<1>2. LeaseTTL \in Nat /\ 0 \in Nat
  BY ServiceAssumption
<1>3. ASSUME NEW m \in Mutations, Drafts(p, m)
      PROVE  /\ ProcsTyped' /\ OthersStay(p)
             /\ procs'[p].pc = "stamp" /\ procs'[p].answer = None /\ procs'[p].m = m
  <2>1. /\ procs' \in [Goroutines -> Goroutine]
        /\ \A r \in Goroutines : procs'[r].answer # None => r \in Threads
        /\ procs'[p] = [Idle EXCEPT !.pc = "stamp", !.m = m]
        /\ \A r \in Goroutines \ {p} : procs'[r] = procs[r]
    BY <1>1, <1>3, DraftsType
  <2>2. procs'[p].pc = "stamp" /\ procs'[p].answer = None /\ procs'[p].m = m
    BY <2>1 DEF Idle
  <2> QED
    BY <2>1, <2>2 DEF ProcsTyped, OthersStay
<1>4. CASE \E reg \in Registrations : Register(p, reg)
  <2>1. PICK reg \in Registrations : Register(p, reg)
    BY <1>4
  <2> DEFINE lease == Lease(Local(0), reg)
  <2> DEFINE m == Mutation("REGISTER", lease, Local(0), NoOp, now, LeaseTTL)
  <2>2. /\ lease \in LeaseID /\ lease.epoch = Local(0)
        /\ Local(0) \in Version /\ NoOp \in Op /\ "REGISTER" \in Kinds
    BY VersionType, LeaseType DEF Op, Kinds, LiveKinds, Lease
  <2> HIDE DEF lease
  <2>3. m \in Mutations /\ m.stamp.kind = "REGISTER" /\ m.op = NoOp /\ m.lease = lease
    BY <1>1, <1>2, <2>2, MutationType, MutationIs
  <2> HIDE DEF m
  <2>4. CASE Drafts(p, m)
    BY <1>1, <1>3, <2>2, <2>3, <2>4 DEF LiveKinds
  <2>5. CASE entry # None /\ Answers(p, Answer("REGISTER", entry.lease, NoOp, "DUPLICATE"))
    <3> DEFINE a == Answer("REGISTER", entry.lease, NoOp, "DUPLICATE")
    <3>1. a \in Replies /\ a.kind = "REGISTER"
      <4>1. entry.lease \in LeaseID
        BY <1>1, <2>5, EntryParts DEF TypeOK
      <4> QED
        BY <2>2, <4>1 DEF Answer, Replies
    <3>2. Answers(p, a) /\ a \in Replies \union {None}
      BY <2>5, <3>1
    <3> HIDE DEF a
    <3>3. /\ procs' \in [Goroutines -> Goroutine]
          /\ \A r \in Goroutines : procs'[r].answer # None => r \in Threads
          /\ procs'[p] = [Idle EXCEPT !.answer = a]
          /\ \A r \in Goroutines \ {p} : procs'[r] = procs[r]
      BY <1>1, <3>2, AnswersType
    <3>4. procs'[p].pc = "idle" /\ procs'[p].answer = a
      BY <3>3 DEF Idle
    <3> QED
      BY <1>1, <3>1, <3>3, <3>4 DEF ProcsTyped, OthersStay
  <2> QED
    BY <2>1, <2>4, <2>5 DEF Register, m, lease
<1>5. CASE \E lease \in KnownLeases, op \in HeartbeatOps : Heartbeat(p, lease, op)
  <2>1. PICK lease \in KnownLeases, op \in HeartbeatOps : Heartbeat(p, lease, op)
    BY <1>5
  <2> DEFINE m == Mutation("HEARTBEAT", lease, Local(0), op, now, LeaseTTL)
  <2>2. lease \in LeaseID /\ Local(0) \in Version /\ op \in Op /\ "HEARTBEAT" \in Kinds
    BY <2>1, VersionType, KnownLeaseType DEF Op, Kinds, LiveKinds
  <2>3. m \in Mutations /\ m.stamp.kind = "HEARTBEAT" /\ m.op = op /\ m.lease = lease
    BY <1>1, <1>2, <2>2, MutationType, MutationIs
  <2>4. Drafts(p, m)
    BY <2>1 DEF Heartbeat
  <2> HIDE DEF m
  <2> QED
    BY <1>1, <1>3, <2>1, <2>3, <2>4 DEF LiveKinds
<1>6. CASE \E lease \in KnownLeases, op \in DeregisterOps, kind \in TerminalKinds :
              Deregister(p, lease, kind, op)
  <2>1. PICK lease \in KnownLeases, op \in DeregisterOps, kind \in TerminalKinds :
              Deregister(p, lease, kind, op)
    BY <1>6
  <2> DEFINE m == Mutation(kind, lease, Local(0), op, now, 0)
  <2>2. lease \in LeaseID /\ Local(0) \in Version /\ op \in Op /\ kind \in Kinds
    BY <2>1, VersionType, KnownLeaseType DEF Op, Kinds, EvictingKinds
  <2>3. m \in Mutations /\ m.stamp.kind = kind /\ m.op = op /\ m.lease = lease
    BY <1>1, <1>2, <2>2, MutationType, MutationIs
  <2>4. Drafts(p, m) /\ Registered(lease)
    BY <2>1 DEF Deregister
  <2> HIDE DEF m
  <2> QED
    BY <1>1, <1>3, <2>1, <2>3, <2>4
<1> QED
  BY <1>4, <1>5, <1>6 DEF Requests

\* A draft gets a version and an epoch of the clock's next reading.
LEMMA DrawStep ==
    ASSUME TypeOK, NEW p \in Goroutines, Draw(p)
    PROVE  /\ ProcsTyped' /\ OthersStay(p)
           /\ UNCHANGED <<now, entry, fence, timers, published, outbox, received, calls>>
           /\ hlc' = hlc + 1
           /\ procs[p].pc = "stamp" /\ procs'[p].pc = "apply"
           /\ procs'[p].answer = procs[p].answer
           /\ procs[p].m \in Mutations /\ procs'[p].m \in Mutations
           /\ procs'[p].m.stamp.kind = procs[p].m.stamp.kind
           /\ procs'[p].m.stamp.version = Local(hlc + 1)
           /\ procs'[p].m.op = procs[p].m.op
           /\ procs'[p].m.remaining = procs[p].m.remaining
           /\ procs'[p].m.lease = IF procs[p].m.stamp.kind = "REGISTER"
                                  THEN Lease(Local(hlc + 1), procs[p].m.lease.reg)
                                  ELSE procs[p].m.lease
<1> DEFINE m == procs[p].m
<1> DEFINE version == Local(hlc + 1)
<1> DEFINE lease == IF m.stamp.kind = "REGISTER" THEN Lease(version, m.lease.reg) ELSE m.lease
<1> DEFINE new == Mutation(m.stamp.kind, lease, version, m.op, m.at, m.remaining)
<1> DEFINE q == [procs[p] EXCEPT !.pc = "apply", !.m = new]
<1>1. procs[p].pc = "stamp" /\ m \in Mutations /\ procs[p] \in Goroutine /\ hlc + 1 \in Nat
  BY ProcType DEF Draw, TypeOK
<1>2. version \in Version
  BY <1>1, VersionType
<1>3. /\ m.stamp.kind \in Kinds /\ m.lease \in LeaseID /\ m.lease.reg \in Registrations
      /\ m.op \in Op /\ m.at \in Nat /\ m.remaining \in Nat
  BY <1>1, MutationParts DEF LeaseID
<1>4. lease \in LeaseID
  BY <1>2, <1>3, LeaseType
<1>5. procs' = [procs EXCEPT ![p] = q]
  BY DEF Draw
<1> HIDE DEF version
<1> HIDE DEF lease
<1>7. new \in Mutations /\ new # None
  BY <1>2, <1>3, <1>4, MutationType
<1>8. /\ new.stamp.kind = m.stamp.kind /\ new.stamp.version = version
      /\ new.op = m.op /\ new.remaining = m.remaining /\ new.lease = lease
  BY MutationIs
<1> HIDE DEF new, m
<1>9. q \in Goroutine /\ q.answer = procs[p].answer /\ q.pc = "apply" /\ q.m = new
  BY <1>1, <1>7 DEF Goroutine
<1>10. q.answer # None => p \in Threads
  BY <1>9, ProcType
<1> HIDE DEF q
<1>11. /\ ProcsTyped' /\ OthersStay(p) /\ procs'[p] = q
  BY <1>5, <1>9, <1>10, ProcStepType DEF ProcsTyped, OthersStay
<1>12. /\ UNCHANGED <<now, entry, fence, timers, published, outbox, received, calls>>
       /\ hlc' = hlc + 1
  BY DEF Draw, registry, history
<1> QED
  BY <1>1, <1>7, <1>8, <1>9, <1>11, <1>12 DEF m, version, lease

\* An applied mutation is followed up with the record stored; another ends.
LEMMA ApplyStep ==
    ASSUME TypeOK, NEW p \in Goroutines, Apply(p)
    PROVE  /\ ProcsTyped' /\ OthersStay(p)
           /\ UNCHANGED <<now, hlc, timers, published, outbox, received, calls>>
           /\ procs[p].pc = "apply" /\ procs[p].m \in Mutations
           /\ entry' = EntryAfter(entry, fence, procs[p].m, now)
           /\ fence' = FenceAfter(entry, fence, procs[p].m)
           /\ entry' \in Entries \union {None} /\ fence' \in Stamp \union {None}
           /\ Outcome(entry, fence, procs[p].m) = "APPLIED" =>
                 /\ procs'[p].pc = "followup" /\ procs'[p].answer = procs[p].answer
                 /\ procs'[p].m = procs[p].m /\ procs'[p].record = entry'
           /\ Outcome(entry, fence, procs[p].m) # "APPLIED" =>
                 /\ procs'[p].pc = "idle"
                 /\ procs'[p].answer # None =>
                       /\ p \in Threads
                       /\ procs'[p].answer.kind = procs[p].m.stamp.kind
                       /\ procs'[p].answer.lease = procs[p].m.lease
                       /\ procs'[p].answer.op = procs[p].m.op
                       /\ procs'[p].answer.outcome = Outcome(entry, fence, procs[p].m)
<1> DEFINE m == procs[p].m
<1>1. /\ procs[p].pc = "apply" /\ m \in Mutations /\ procs[p] \in Goroutine
      /\ procs[p].answer # None => p \in Threads
  BY ProcType DEF Apply
<1>2. /\ entry' = EntryAfter(entry, fence, m, now) /\ fence' = FenceAfter(entry, fence, m)
      /\ UNCHANGED <<now, hlc, timers, published, outbox, received, calls>>
  BY DEF Apply, history
<1>3. now \in Nat /\ entry \in Entries \union {None} /\ fence \in Stamp \union {None}
  BY ServiceAssumption DEF TypeOK
<1>4. entry' \in Entries \union {None} /\ fence' \in Stamp \union {None}
  BY <1>1, <1>2, <1>3, EntryType, FenceType
<1>5. CASE Outcome(entry, fence, m) = "APPLIED"
  <2> DEFINE q == [procs[p] EXCEPT !.pc = "followup", !.record = entry']
  <2>1. procs' = [procs EXCEPT ![p] = q]
    BY <1>5 DEF Apply
  <2>2. entry' \in Entries /\ entry'.stamp = m.stamp
    BY <1>1, <1>2, <1>3, <1>5, AppliedEntry
  <2>3. /\ q \in Goroutine /\ q.answer = procs[p].answer /\ q.pc = "followup" /\ q.m = m
        /\ q.record = entry'
    BY <1>1, <2>2, MutationParts DEF Goroutine
  <2> HIDE DEF q
  <2>4. ProcsTyped' /\ OthersStay(p) /\ procs'[p] = q
    BY <1>1, <2>1, <2>3, ProcStepType DEF ProcsTyped, OthersStay
  <2> QED
    BY <1>1, <1>2, <1>4, <1>5, <2>3, <2>4
<1>6. CASE Outcome(entry, fence, m) # "APPLIED"
  <2> DEFINE a == IF p \in Threads
                  THEN Answer(m.stamp.kind, m.lease, m.op, Outcome(entry, fence, m))
                  ELSE None
  <2>1. Answers(p, a)
    BY <1>6 DEF Apply
  <2>2. /\ a \in Replies \union {None} /\ (a # None => p \in Threads)
        /\ a # None => /\ a.kind = m.stamp.kind /\ a.lease = m.lease /\ a.op = m.op
                       /\ a.outcome = Outcome(entry, fence, m)
    BY <1>1, MutationParts, OutcomeType DEF Answer, Replies
  <2> HIDE DEF a
  <2>3. ProcsTyped' /\ OthersStay(p) /\ procs'[p] = [Idle EXCEPT !.answer = a]
    BY <2>1, <2>2, AnswersType DEF ProcsTyped, OthersStay
  <2>4. procs'[p].pc = "idle" /\ procs'[p].answer = a
    BY <2>3 DEF Idle
  <2> QED
    BY <1>1, <1>2, <1>4, <1>6, <2>2, <2>3, <2>4
<1> QED
  BY <1>5, <1>6

\* How long an instance is shown as delayed before it expires.
Grace == LeaseTTL - DelayedAfter

\* The durations are numbers, and the delay comes before the expiry.
LEMMA GraceType == Grace \in Nat /\ LeaseTTL \in Nat /\ DelayedAfter \in Nat
  BY ServiceAssumption DEF Grace

\* The two timers of a record: both of its version, the later at its deadline.
LEMMA TimersOf ==
    ASSUME NEW r \in Entries
    PROVE  /\ TimersFor(r) \subseteq Tasks
           /\ \A t \in TimersFor(r) : /\ t.version = r.stamp.version /\ t.lease = r.lease
                                      /\ t.deadline >= r.deadline - Grace
           /\ Discoverable(r) /\ r.deadline # 0 =>
                 \E t \in TimersFor(r) :
                    /\ t.kind = "EXPIRE_LEASE" /\ t.lease = r.lease
                    /\ t.version = r.stamp.version /\ t.deadline = r.deadline
<1>1. r.lease \in LeaseID /\ r.stamp.version \in Version /\ r.deadline \in Nat
  BY EntryParts
<1> DEFINE d == r.deadline - (LeaseTTL - DelayedAfter)
<1> DEFINE mark == [kind |-> "MARK_DELAYED", lease |-> r.lease, version |-> r.stamp.version,
                    deadline |-> d]
<1> DEFINE expire == [kind |-> "EXPIRE_LEASE", lease |-> r.lease, version |-> r.stamp.version,
                      deadline |-> r.deadline]
<1>2. d \in Int /\ d = r.deadline - Grace /\ r.deadline >= r.deadline - Grace
      /\ r.deadline \in Int /\ d >= r.deadline - Grace
  BY <1>1, GraceType DEF Grace
<1>3. CASE ~Discoverable(r) \/ r.deadline = 0
  BY <1>3 DEF TimersFor
<1>4. CASE Discoverable(r) /\ r.deadline # 0
  <2>1. TimersFor(r) = {mark, expire}
    BY <1>4 DEF TimersFor
  <2> HIDE DEF d
  <2>2. mark \in Tasks /\ expire \in Tasks
    BY <1>1, <1>2 DEF Tasks
  <2> QED
    BY <1>2, <2>1, <2>2
<1> QED
  BY <1>3, <1>4

\* Publishing, scheduling, gossip and the answer of an applied mutation.
LEMMA FollowUpStep ==
    ASSUME TypeOK, NEW p \in Goroutines, FollowUp(p)
    PROVE  /\ ProcsTyped' /\ OthersStay(p)
           /\ UNCHANGED <<now, hlc, entry, fence, received, calls>>
           /\ procs[p].pc = "followup" /\ procs[p].m \in Mutations
           /\ procs[p].record \in Entries /\ procs[p].record.stamp = procs[p].m.stamp
           /\ published' \subseteq Events
           /\ timers' = timers \union TimersFor(procs[p].record)
           /\ outbox' = outbox \union {procs[p].m}
           /\ procs'[p].pc = "idle"
           /\ procs'[p].answer # None =>
                 /\ p \in Threads
                 /\ procs'[p].answer.kind = procs[p].m.stamp.kind
                 /\ procs'[p].answer.lease = procs[p].m.lease
<1> DEFINE m == procs[p].m
<1>1. /\ procs[p].pc = "followup" /\ m \in Mutations
      /\ procs[p].record \in Entries /\ procs[p].record.stamp = m.stamp
  BY ProcType DEF FollowUp
<1>2. /\ UNCHANGED <<now, hlc, entry, fence, received, calls>>
      /\ timers' = timers \union TimersFor(procs[p].record)
      /\ outbox' = outbox \union {m}
  BY DEF FollowUp, registry
<1>3. published' \subseteq Events
  <2>1. [type |-> EventType(m.stamp.kind), stamp |-> m.stamp] \in Events
    BY <1>1, MutationParts DEF Events, EventTypes
  <2> QED
    BY <2>1 DEF FollowUp, TypeOK
<1> DEFINE a == IF p \in Threads THEN Answer(m.stamp.kind, m.lease, m.op, "APPLIED") ELSE None
<1>4. Answers(p, a)
  BY DEF FollowUp
<1>5. /\ a \in Replies \union {None} /\ (a # None => p \in Threads)
      /\ a # None => a.kind = m.stamp.kind /\ a.lease = m.lease
  BY <1>1, MutationParts DEF Answer, Replies
<1> HIDE DEF a
<1>6. ProcsTyped' /\ OthersStay(p) /\ procs'[p] = [Idle EXCEPT !.answer = a]
  BY <1>4, <1>5, AnswersType DEF ProcsTyped, OthersStay
<1>7. procs'[p].pc = "idle" /\ procs'[p].answer = a
  BY <1>6 DEF Idle
<1> QED
  BY <1>1, <1>2, <1>3, <1>5, <1>6, <1>7

\* A change made under the lock is published.
LEMMA AnnounceStep ==
    ASSUME TypeOK, NEW p \in Goroutines, Announce(p)
    PROVE  /\ ProcsTyped' /\ OthersStay(p)
           /\ UNCHANGED <<now, hlc, entry, fence, timers, outbox, received, calls>>
           /\ published' \subseteq Events
           /\ procs[p].pc = "announce" /\ procs'[p].pc = "idle" /\ procs'[p].answer = None
<1>1. /\ procs[p].pc = "announce" /\ procs[p].record \in Events
  BY ProcType DEF Announce
<1>2. Answers(p, None)
  <2>1. [Idle EXCEPT !.answer = None] = Idle
    BY DEF Idle
  <2> QED
    BY <2>1 DEF Announce, Answers
<1>3. ProcsTyped' /\ OthersStay(p) /\ procs'[p] = [Idle EXCEPT !.answer = None]
  BY <1>2, AnswersType DEF ProcsTyped, OthersStay
<1>4. procs'[p].pc = "idle" /\ procs'[p].answer = None
  BY <1>3 DEF Idle
<1>5. published' \subseteq Events
  BY <1>1 DEF Announce, TypeOK
<1> QED
  BY <1>1, <1>3, <1>4, <1>5 DEF Announce, registry

\* The wheel marks the record its task names, or drops the task.
LEMMA MarkDelayedStep ==
    ASSUME TypeOK, NEW task, MarkDelayed(task)
    PROVE  /\ ProcsTyped' /\ OthersStay("wheel")
           /\ UNCHANGED <<now, hlc, fence, published, outbox, received, calls>>
           /\ procs["wheel"].pc = "idle" /\ procs["wheel"].answer = None
           /\ procs'["wheel"].pc \in {"idle", "announce"} /\ procs'["wheel"].answer = None
           /\ task \in timers /\ task.kind = "MARK_DELAYED" /\ task.deadline <= now
           /\ timers' = timers \ {task}
           /\ \/ entry' = entry
              \/ /\ entry \in Entries /\ entry' \in Entries
                 /\ entry.status = "ACTIVE" /\ entry'.status = "DELAYED"
                 /\ entry.lease = task.lease /\ entry.stamp.version = task.version
                 /\ entry'.stamp = entry.stamp /\ entry'.lease = entry.lease
                 /\ entry'.deadline = entry.deadline /\ entry'.ops = entry.ops
<1>1. /\ procs["wheel"].pc = "idle" /\ procs["wheel"].answer = None
      /\ "wheel" \in Goroutines
  BY GoroutinesMembers DEF MarkDelayed, TypeOK
<1>2. /\ UNCHANGED <<now, hlc, fence, published, outbox, received, calls>>
      /\ task \in timers /\ task.kind = "MARK_DELAYED" /\ task.deadline <= now
      /\ timers' = timers \ {task}
  BY DEF MarkDelayed, history
<1>3. CASE /\ Registered(task.lease)
           /\ entry.stamp.version = task.version
           /\ entry.status = "ACTIVE"
  <2>1. entry \in Entries /\ entry.stamp \in Stamp /\ now \in Nat /\ entry.lease = task.lease
    BY <1>3, EntryParts, ServiceAssumption DEF Registered, TypeOK
  <2>2. /\ entry' = [entry EXCEPT !.status = "DELAYED", !.at = now]
        /\ Announces("wheel", "INSTANCE_DELAYED", entry.stamp)
    BY <1>3 DEF MarkDelayed
  <2>3. /\ entry' \in Entries /\ entry'.status = "DELAYED"
        /\ entry'.stamp = entry.stamp /\ entry'.lease = entry.lease
        /\ entry'.deadline = entry.deadline /\ entry'.ops = entry.ops
    BY <1>3, <2>1, <2>2 DEF Entries
  <2>4. "INSTANCE_DELAYED" \in EventTypes
    BY DEF EventTypes
  <2>5. /\ procs' \in [Goroutines -> Goroutine]
        /\ \A r \in Goroutines : procs'[r].answer # None => r \in Threads
        /\ procs'["wheel"].pc = "announce"
        /\ \A r \in Goroutines \ {"wheel"} : procs'[r] = procs[r]
    BY <1>1, <2>1, <2>2, <2>4, AnnouncesType
  <2>6. ProcsTyped' /\ OthersStay("wheel") /\ procs'["wheel"].answer = None
    BY <1>1, <2>5, GoroutinesMembers DEF ProcsTyped, OthersStay
  <2> QED
    BY <1>1, <1>2, <1>3, <2>1, <2>3, <2>5, <2>6
<1>4. CASE UNCHANGED <<entry, procs>>
  BY <1>1, <1>2, <1>4 DEF TypeOK, ProcsTyped, OthersStay
<1> QED
  BY <1>3, <1>4 DEF MarkDelayed

\* The wheel drafts the expiry of the record its task names, or drops it.
LEMMA ExpireLeaseStep ==
    ASSUME TypeOK, NEW task, ExpireLease(task)
    PROVE  /\ ProcsTyped' /\ OthersStay("wheel")
           /\ UNCHANGED <<now, hlc, entry, fence, published, outbox, received, calls>>
           /\ procs["wheel"].pc = "idle" /\ procs'["wheel"].answer = None
           /\ task \in timers /\ task.kind = "EXPIRE_LEASE" /\ task.deadline <= now
           /\ timers' = timers \ {task}
           /\ \/ /\ procs'["wheel"].pc = "idle"
                 /\ ~ (/\ Registered(task.lease) /\ entry.stamp.version = task.version
                       /\ Discoverable(entry) /\ entry.deadline <= now)
              \/ /\ Registered(task.lease)
                 /\ procs'["wheel"].pc = "stamp" /\ procs'["wheel"].m \in Mutations
                 /\ procs'["wheel"].m.stamp.kind = "TTL_EXPIRE"
                 /\ procs'["wheel"].m.op = NoOp
                 /\ procs'["wheel"].m.lease = task.lease
<1>1. /\ procs["wheel"].pc = "idle" /\ procs["wheel"].answer = None
      /\ "wheel" \in Goroutines /\ now \in Nat
  BY GoroutinesMembers, ServiceAssumption DEF ExpireLease, TypeOK
<1>2. /\ UNCHANGED <<now, hlc, entry, fence, published, outbox, received, calls>>
      /\ task \in timers /\ task.kind = "EXPIRE_LEASE" /\ task.deadline <= now
      /\ timers' = timers \ {task} /\ task \in Tasks
  BY DEF ExpireLease, history, registry, TypeOK
<1>3. CASE /\ Registered(task.lease)
           /\ entry.stamp.version = task.version
           /\ Discoverable(entry)
           /\ entry.deadline <= now
  <2> DEFINE m == Mutation("TTL_EXPIRE", task.lease, Local(0), NoOp, now, 0)
  <2>1. /\ "TTL_EXPIRE" \in Kinds /\ task.lease \in LeaseID /\ Local(0) \in Version
        /\ NoOp \in Op
    BY <1>2, VersionType DEF Kinds, EvictingKinds, Tasks, Op
  <2>2. /\ m \in Mutations /\ m.stamp.kind = "TTL_EXPIRE" /\ m.op = NoOp
        /\ m.lease = task.lease
    BY <1>1, <2>1, MutationType, MutationIs
  <2>3. Drafts("wheel", m)
    BY <1>3 DEF ExpireLease
  <2> HIDE DEF m
  <2>4. /\ ProcsTyped' /\ OthersStay("wheel")
        /\ procs'["wheel"] = [Idle EXCEPT !.pc = "stamp", !.m = m]
    BY <1>1, <2>2, <2>3, DraftsType DEF ProcsTyped, OthersStay
  <2>5. procs'["wheel"].pc = "stamp" /\ procs'["wheel"].m = m /\ procs'["wheel"].answer = None
    BY <2>4 DEF Idle
  <2> QED
    BY <1>1, <1>2, <1>3, <2>2, <2>4, <2>5
<1>4. CASE ~ (/\ Registered(task.lease)
              /\ entry.stamp.version = task.version
              /\ Discoverable(entry)
              /\ entry.deadline <= now)
  <2>1. procs' = procs
    BY <1>4 DEF ExpireLease
  <2> QED
    BY <1>1, <1>2, <1>4, <2>1 DEF TypeOK, ProcsTyped, OthersStay
<1> QED
  BY <1>3, <1>4

\* The collector drops an evicted record.
LEMMA CollectStep ==
    ASSUME TypeOK, Collect
    PROVE  /\ ProcsTyped' /\ OthersStay("maintenance")
           /\ UNCHANGED <<now, hlc, fence, timers, published, outbox, received, calls>>
           /\ procs["maintenance"].pc = "idle"
           /\ procs'["maintenance"].pc = "announce" /\ procs'["maintenance"].answer = None
           /\ entry \in Entries /\ entry.status = "EVICTED" /\ entry' = None
<1>1. /\ procs["maintenance"].pc = "idle" /\ procs["maintenance"].answer = None
      /\ "maintenance" \in Goroutines
  BY GoroutinesMembers DEF Collect, TypeOK
<1>2. /\ entry \in Entries /\ entry.status = "EVICTED" /\ entry' = None
      /\ UNCHANGED <<now, hlc, fence, timers, published, outbox, received, calls>>
  BY DEF Collect, history, TypeOK
<1>3. /\ Announces("maintenance", "INSTANCE_REMOVED", entry.stamp)
      /\ entry.stamp \in Stamp /\ "INSTANCE_REMOVED" \in EventTypes
  BY <1>2, EntryParts DEF Collect, EventTypes
<1>4. /\ procs' \in [Goroutines -> Goroutine]
      /\ \A r \in Goroutines : procs'[r].answer # None => r \in Threads
      /\ procs'["maintenance"].pc = "announce"
      /\ \A r \in Goroutines \ {"maintenance"} : procs'[r] = procs[r]
  BY <1>1, <1>3, AnnouncesType
<1>5. ProcsTyped' /\ OthersStay("maintenance") /\ procs'["maintenance"].answer = None
  BY <1>1, <1>4, GoroutinesMembers DEF ProcsTyped, OthersStay
<1> QED
  BY <1>1, <1>2, <1>4, <1>5

\* A peer's mutation, of a version this node has not taken before.
LEMMA PeerMutatesStep ==
    ASSUME TypeOK, PeerMutates
    PROVE  \E p \in Peers, n \in Nat :
              /\ ProcsTyped' /\ OthersStay(p)
              /\ UNCHANGED <<now, entry, fence, timers, published, outbox, calls>>
              /\ hlc' \in Nat /\ hlc <= hlc' /\ n <= hlc'
              /\ Remote(n) \notin received /\ received' = received \union {Remote(n)}
              /\ Remote(n) \in Version
              /\ procs[p].pc = "idle" /\ procs'[p].pc = "apply" /\ procs'[p].answer = None
              /\ procs'[p].m \in Mutations
              /\ procs'[p].m.stamp.version = Remote(n) /\ procs'[p].m.op = NoOp
              /\ \/ procs'[p].m.lease.epoch = Remote(n)
                 \/ procs'[p].m.lease \in KnownLeases
<1>1. PICK p \in Peers, n \in PeerClock, kind \in PeerKinds, remaining \in PeerRemaining :
         \E lease \in PeerLeases(kind, Remote(n)) :
            ApplyRemote(p, kind, lease, Remote(n), IF kind \in LiveKinds THEN remaining ELSE 0)
  BY DEF PeerMutates
<1>2. PICK lease \in PeerLeases(kind, Remote(n)) :
         ApplyRemote(p, kind, lease, Remote(n), IF kind \in LiveKinds THEN remaining ELSE 0)
  BY <1>1
<1> DEFINE left == IF kind \in LiveKinds THEN remaining ELSE 0
<1> DEFINE m == Mutation(kind, lease, Remote(n), NoOp, now, left)
<1>3. /\ n \in Nat /\ kind \in Kinds /\ left \in Nat /\ NoOp \in Op /\ now \in Nat /\ hlc \in Nat
      /\ p \in Goroutines /\ Remote(n).physical = n
  BY ServiceAssumption, GoroutinesMembers DEF PeerClock, Op, TypeOK, Remote
<1>4. Remote(n) \in Version
  BY <1>3, VersionType
<1>5. lease \in LeaseID
  BY <1>4, PeerLeaseType
<1> HIDE DEF left
<1>6. m \in Mutations /\ m.stamp.version = Remote(n) /\ m.op = NoOp /\ m.lease = lease
  BY <1>3, <1>4, <1>5, MutationType, MutationIs
<1>7. lease.epoch = Remote(n) \/ lease \in KnownLeases
  BY DEF PeerLeases, Lease
<1>8. procs' = [procs EXCEPT ![p] = [Idle EXCEPT !.pc = "apply", !.m = m]]
  BY <1>2 DEF ApplyRemote, left
<1> HIDE DEF m
<1>9. /\ ProcsTyped' /\ OthersStay(p)
      /\ procs'[p] = [Idle EXCEPT !.pc = "apply", !.m = m]
  BY <1>3, <1>6, <1>8, PreparesType DEF ProcsTyped, OthersStay
<1>10. procs'[p].pc = "apply" /\ procs'[p].answer = None /\ procs'[p].m = m
  BY <1>9 DEF Idle
<1>11. /\ UNCHANGED <<now, entry, fence, timers, published, outbox, calls>>
       /\ Remote(n) \notin received /\ received' = received \union {Remote(n)}
       /\ procs[p].pc = "idle" /\ hlc' = Later(hlc, n) + 1
  BY <1>2, <1>3 DEF ApplyRemote, FreshFromPeer, registry
<1>12. hlc' \in Nat /\ hlc <= hlc' /\ n <= hlc'
  BY <1>3, <1>11 DEF Later
<1> QED
  BY <1>3, <1>4, <1>6, <1>9, <1>10, <1>11, <1>12, <1>7

\* A mutation that gossip was given comes back with what remains of its TTL.
LEMMA ApplyEchoStep ==
    ASSUME TypeOK, NEW p \in Peers, NEW m \in Stored, ApplyEcho(p, m)
    PROVE  /\ ProcsTyped' /\ OthersStay(p)
           /\ UNCHANGED <<now, entry, fence, timers, published, outbox, calls>>
           /\ hlc' \in Nat /\ hlc <= hlc'
           /\ m.stamp.version \in Version
           /\ received' = received \union {m.stamp.version}
           /\ procs[p].pc = "idle" /\ procs'[p].pc = "apply" /\ procs'[p].answer = None
           /\ procs'[p].m \in Mutations /\ m \in Mutations
           /\ procs'[p].m.stamp = m.stamp /\ procs'[p].m.lease = m.lease
           /\ procs'[p].m.op = NoOp /\ procs'[p].m.remaining = Grace
<1> DEFINE echo == [m EXCEPT !.op = NoOp, !.at = m.at + DelayedAfter,
                             !.remaining = LeaseTTL - DelayedAfter]
<1>1. m \in Mutations /\ m.stamp.version \in Version /\ m.at \in Nat /\ NoOp \in Op
  BY StoredType, MutationParts DEF Op
<1>2. m.at + DelayedAfter \in Nat /\ LeaseTTL - DelayedAfter \in Nat
  BY <1>1, GraceType DEF Grace
<1>3. /\ echo \in Mutations /\ echo.stamp = m.stamp /\ echo.lease = m.lease
      /\ echo.op = NoOp /\ echo.remaining = Grace
  BY <1>1, <1>2 DEF Mutations, Grace
<1>4. /\ procs' = [procs EXCEPT ![p] = [Idle EXCEPT !.pc = "apply", !.m = echo]]
      /\ procs[p].pc = "idle" /\ p \in Goroutines
  BY GoroutinesMembers DEF ApplyEcho
<1> HIDE DEF echo
<1>5. /\ ProcsTyped' /\ OthersStay(p)
      /\ procs'[p] = [Idle EXCEPT !.pc = "apply", !.m = echo]
  BY <1>3, <1>4, PreparesType DEF ProcsTyped, OthersStay
<1>6. procs'[p].pc = "apply" /\ procs'[p].answer = None /\ procs'[p].m = echo
  BY <1>5 DEF Idle
<1>7. /\ UNCHANGED <<now, entry, fence, timers, published, outbox, calls>>
      /\ received' = received \union {m.stamp.version}
      /\ hlc' = Later(hlc, m.stamp.version.physical) + 1
  BY DEF ApplyEcho, FreshFromPeer, registry
<1>8. m.stamp.version.physical \in Nat /\ hlc \in Nat
  BY <1>1 DEF Version, TypeOK
<1>9. hlc' \in Nat /\ hlc <= hlc'
  BY <1>7, <1>8 DEF Later
<1> QED
  BY <1>1, <1>3, <1>4, <1>5, <1>6, <1>7, <1>9

\* A fence from a peer replaces the entry it outranks, and the fence.
LEMMA PeerFencesStep ==
    ASSUME TypeOK, PeerFences
    PROVE  /\ ProcsTyped'
           /\ UNCHANGED <<now, hlc, timers, procs, published, outbox, calls>>
           /\ \E f \in Stamp :
                 /\ received' = received \union {f.version}
                 /\ f.version \in Version
                 /\ \/ UNCHANGED <<entry, fence>>
                    \/ /\ FenceWins(f, entry) /\ entry' = None
                       /\ fence' = IF FenceReplaces(f, fence) THEN f ELSE fence
<1>1. PICK n \in PeerClock, kind \in PeerKinds \intersect EvictingKinds, reg \in Registrations :
         \E lease \in PeerLeases(kind, Remote(n)) \union {Lease(Remote(n - 1), reg)} :
            ApplyFence(kind, lease, Remote(n))
  BY DEF PeerFences
<1>2. PICK lease \in PeerLeases(kind, Remote(n)) \union {Lease(Remote(n - 1), reg)} :
            ApplyFence(kind, lease, Remote(n))
  BY <1>1
<1>3. /\ n \in Nat /\ n - 1 \in Nat /\ kind \in Kinds /\ NoOp \in Op /\ now \in Nat /\ 0 \in Nat
  BY ServiceAssumption DEF PeerClock, Op, TypeOK
<1>4. Remote(n) \in Version /\ Remote(n - 1) \in Version
  BY <1>3, VersionType
<1>5. lease \in LeaseID
  BY <1>4, PeerLeaseType, LeaseType
<1> DEFINE m == Mutation(kind, lease, Remote(n), NoOp, now, 0)
<1>6. m \in Mutations /\ m.stamp.version = Remote(n)
  BY <1>3, <1>4, <1>5, MutationType, MutationIs
<1> DEFINE f == m.stamp
<1>7. /\ UNCHANGED <<now, hlc, timers, procs, published, outbox, calls>>
      /\ received' = received \union {Remote(n)}
      /\ \/ UNCHANGED <<entry, fence>>
         \/ /\ FenceWins(f, entry) /\ entry' = None
            /\ fence' = IF FenceReplaces(f, fence) THEN f ELSE fence
  BY <1>2 DEF ApplyFence, FreshFromPeer, registry
<1> HIDE DEF m
<1>8. f \in Stamp
  BY <1>6, MutationParts
<1> QED
  BY <1>4, <1>6, <1>7, <1>8 DEF ProcsTyped, TypeOK

-----------------------------------------------------------------------------
\* Every step keeps the types.
LEMMA NextType ==
    ASSUME TypeOK, [Next]_vars
    PROVE  TypeOK'
<1> USE DEF TypeOK, ProcsTyped
<1>1. CASE UNCHANGED vars
  BY <1>1 DEF vars
<1>2. CASE Tick
  BY <1>2, ServiceAssumption DEF Tick, registry, history
<1>3. CASE Fire
  <2>1. PICK task \in timers : MarkDelayed(task) \/ ExpireLease(task)
    BY <1>3 DEF Fire
  <2>2. CASE MarkDelayed(task)
    BY <2>2, MarkDelayedStep
  <2>3. CASE ExpireLease(task)
    BY <2>3, ExpireLeaseStep
  <2> QED
    BY <2>1, <2>2, <2>3
<1>4. CASE Collect
  BY <1>4, CollectStep
<1>5. CASE PeerMutates
  BY <1>5, PeerMutatesStep
<1>6. CASE \E p \in Peers, m \in Stored : ApplyEcho(p, m)
  BY <1>6, ApplyEchoStep
<1>7. CASE PeerFences
  BY <1>7, PeerFencesStep
<1>8. CASE \E p \in Threads : Requests(p)
  BY <1>8, RequestsStep
<1>9. CASE \E p \in Goroutines : Steps(p)
  <2>1. PICK p \in Goroutines : Steps(p)
    BY <1>9
  <2>2. CASE Draw(p)
    BY <2>2, DrawStep
  <2>3. CASE Apply(p)
    BY <2>3, ApplyStep
  <2>4. CASE FollowUp(p)
    <3>1. timers' \subseteq Tasks
      BY <2>4, FollowUpStep, TimersOf
    <3> QED
      BY <2>4, <3>1, FollowUpStep
  <2>5. CASE Announce(p)
    BY <2>5, AnnounceStep
  <2> QED
    BY <2>1, <2>2, <2>3, <2>4, <2>5 DEF Steps
<1> QED
  BY <1>1, <1>2, <1>3, <1>4, <1>5, <1>6, <1>7, <1>8, <1>9 DEF Next

\* The empty service is well typed.
LEMMA InitType == Init => TypeOK
<1>1. Idle \in Goroutine /\ Idle.answer = None
  BY DEF Idle, Goroutine
<1> QED
  BY <1>1, ServiceAssumption DEF Init, TypeOK

\* Type correctness: every variable keeps its shape, and each goroutine
\* carries what its step needs: a mutation until it is answered, the stored
\* record of that mutation while it is followed up, an event to publish. Only
\* requests are answered, and a record is EVICTED exactly if its kind evicts.
THEOREM TypeCorrect == Spec => []TypeOK
  BY InitType, NextType, PTL DEF Spec

-----------------------------------------------------------------------------
(* The clock.  ClockLeads speaks of the record only; to keep it, every      *)
(* mutation on its way to the registry and every mutation gossip was given *)
(* must be behind the clock as well.                                       *)

\* The epoch of a lease and the version of a stamp are no newer than the clock.
Behind(lease, stamp) ==
    /\ lease.epoch.physical <= hlc
    /\ stamp.version.physical <= hlc

EntryBehind == entry # None => Behind(entry.lease, entry.stamp)
OutboxBehind == \A m \in outbox : Behind(m.lease, m.stamp)
DraftsBehind ==
    \A p \in Goroutines : procs[p].pc = "stamp" => procs[p].m.lease.epoch.physical <= hlc
CarriedBehind ==
    \A p \in Goroutines :
        procs[p].pc \in {"apply", "followup"} => Behind(procs[p].m.lease, procs[p].m.stamp)

ClockInv == TypeOK /\ EntryBehind /\ OutboxBehind /\ DraftsBehind /\ CarriedBehind

\* A lease or a mutation in numbers.
LEMMA PhysicalType ==
    /\ \A m \in Mutations : m.lease.epoch.physical \in Nat /\ m.stamp.version.physical \in Nat
    /\ \A e \in Entries : e.lease.epoch.physical \in Nat /\ e.stamp.version.physical \in Nat
    /\ \A lease \in LeaseID : lease.epoch.physical \in Nat
  BY MutationParts, EntryParts DEF LeaseID, Version, Stamp

\* The number in a version.
LEMMA LocalPhysical ==
    ASSUME NEW n
    PROVE  Local(n).physical = n /\ Remote(n).physical = n
  BY DEF Local, Remote

\* What is behind the clock stays behind it when it moves on.
LEMMA RestBehind ==
    ASSUME ClockInv, TypeOK', hlc <= hlc'
    PROVE  /\ entry' = entry => EntryBehind'
           /\ outbox' = outbox => OutboxBehind'
           /\ \A p \in Goroutines : procs'[p] = procs[p] =>
                 /\ procs'[p].pc = "stamp" => procs'[p].m.lease.epoch.physical <= hlc'
                 /\ procs'[p].pc \in {"apply", "followup"} =>
                       /\ procs'[p].m.lease.epoch.physical <= hlc'
                       /\ procs'[p].m.stamp.version.physical <= hlc'
<1>1. hlc \in Nat /\ hlc' \in Nat
  BY DEF ClockInv, TypeOK
<1>2. \A n \in Nat : n <= hlc => n <= hlc'
  BY <1>1
<1>3. entry' = entry => EntryBehind'
  <2>1. entry # None => entry.lease.epoch.physical \in Nat /\ entry.stamp.version.physical \in Nat
    BY PhysicalType DEF ClockInv, TypeOK
  <2> QED
    BY <1>2, <2>1 DEF ClockInv, EntryBehind, Behind
<1>4. outbox' = outbox => OutboxBehind'
  <2>1. \A m \in outbox : m.lease.epoch.physical \in Nat /\ m.stamp.version.physical \in Nat
    BY PhysicalType DEF ClockInv, TypeOK
  <2> QED
    BY <1>2, <2>1 DEF ClockInv, OutboxBehind, Behind
<1>5. ASSUME NEW p \in Goroutines, procs'[p] = procs[p]
      PROVE  /\ procs'[p].pc = "stamp" => procs'[p].m.lease.epoch.physical <= hlc'
             /\ procs'[p].pc \in {"apply", "followup"} =>
                       /\ procs'[p].m.lease.epoch.physical <= hlc'
                       /\ procs'[p].m.stamp.version.physical <= hlc'
  <2>1. procs[p].pc \in {"stamp", "apply", "followup"} =>
           procs[p].m.lease.epoch.physical \in Nat /\ procs[p].m.stamp.version.physical \in Nat
    BY ProcType, PhysicalType DEF ClockInv
  <2> QED
    BY <1>2, <1>5, <2>1 DEF ClockInv, DraftsBehind, CarriedBehind, Behind
<1> QED
  BY <1>3, <1>4, <1>5

\* One goroutine's step keeps the invariant if what it carries is behind.
LEMMA OneProcBehind ==
    ASSUME ClockInv, TypeOK', hlc <= hlc', EntryBehind', OutboxBehind',
           NEW p \in Goroutines, OthersStay(p),
           procs'[p].pc = "stamp" => procs'[p].m.lease.epoch.physical <= hlc',
           procs'[p].pc \in {"apply", "followup"} =>
              /\ procs'[p].m.lease.epoch.physical <= hlc'
              /\ procs'[p].m.stamp.version.physical <= hlc'
    PROVE  ClockInv'
<1>1. ASSUME NEW r \in Goroutines
      PROVE  /\ procs'[r].pc = "stamp" => procs'[r].m.lease.epoch.physical <= hlc'
             /\ procs'[r].pc \in {"apply", "followup"} =>
                   /\ procs'[r].m.lease.epoch.physical <= hlc'
                   /\ procs'[r].m.stamp.version.physical <= hlc'
  <2>1. CASE r = p
    BY <2>1
  <2>2. CASE r # p
    <3>1. procs'[r] = procs[r]
      BY <2>2 DEF OthersStay
    <3> QED
      BY <3>1, RestBehind
  <2> QED
    BY <2>1, <2>2
<1> QED
  BY <1>1 DEF ClockInv, DraftsBehind, CarriedBehind, Behind

\* A mutation that was stored stays behind the clock.
LEMMA StoredBehind ==
    ASSUME ClockInv, TypeOK', hlc <= hlc', NEW m \in Stored
    PROVE  m.lease.epoch.physical <= hlc' /\ m.stamp.version.physical <= hlc'
<1>1. /\ m \in Mutations /\ hlc \in Nat /\ hlc' \in Nat
      /\ m.lease.epoch.physical \in Nat /\ m.stamp.version.physical \in Nat
  BY StoredType, PhysicalType DEF ClockInv, TypeOK
<1>2. Behind(m.lease, m.stamp)
  BY DEF Stored, ClockInv, OutboxBehind, CarriedBehind
<1> QED
  BY <1>1, <1>2 DEF Behind

\* The leases the registry or gossip was given are behind the clock.
LEMMA KnownBehind ==
    ASSUME ClockInv, TypeOK', hlc <= hlc', NEW lease \in KnownLeases
    PROVE  lease.epoch.physical <= hlc'
<1>1. PICK m \in Stored : lease = m.lease
  BY DEF KnownLeases
<1> QED
  BY <1>1, StoredBehind

\* Every step keeps everything behind the clock.
LEMMA NextClock ==
    ASSUME ClockInv, [Next]_vars
    PROVE  ClockInv'
<1>0. TypeOK /\ TypeOK' /\ hlc \in Nat
  BY NextType DEF ClockInv, TypeOK
<1>1. ASSUME hlc' = hlc, entry' = entry, outbox' = outbox, procs' = procs
      PROVE  ClockInv'
  BY <1>0, <1>1 DEF ClockInv, EntryBehind, OutboxBehind, DraftsBehind, CarriedBehind, Behind
<1>2. CASE UNCHANGED vars
  BY <1>1, <1>2 DEF vars
<1>3. CASE Tick
  BY <1>1, <1>3 DEF Tick, registry, history
<1>4. CASE Fire
  <2>1. PICK task \in timers : MarkDelayed(task) \/ ExpireLease(task)
    BY <1>4 DEF Fire
  <2>2. CASE MarkDelayed(task)
    <3>1. /\ hlc' = hlc /\ outbox' = outbox /\ OthersStay("wheel") /\ "wheel" \in Goroutines
          /\ procs'["wheel"].pc \in {"idle", "announce"}
          /\ entry' = entry \/ (/\ entry \in Entries
                                /\ entry'.stamp = entry.stamp /\ entry'.lease = entry.lease)
      BY <1>0, <2>2, MarkDelayedStep, GoroutinesMembers
    <3>2. EntryBehind' /\ OutboxBehind' /\ hlc <= hlc'
      BY <1>0, <3>1, EntryParts DEF ClockInv, EntryBehind, OutboxBehind, Behind
    <3> QED
      BY <1>0, <3>1, <3>2, OneProcBehind
  <2>3. CASE ExpireLease(task)
    <3>1. /\ hlc' = hlc /\ outbox' = outbox /\ entry' = entry /\ hlc <= hlc'
          /\ OthersStay("wheel") /\ "wheel" \in Goroutines
          /\ \/ procs'["wheel"].pc = "idle"
             \/ /\ procs'["wheel"].pc = "stamp" /\ procs'["wheel"].m.lease = task.lease
                /\ Registered(task.lease)
      BY <1>0, <2>3, ExpireLeaseStep, GoroutinesMembers
    <3>2. EntryBehind' /\ OutboxBehind'
      BY <1>0, <3>1, RestBehind
    <3>3. procs'["wheel"].pc = "stamp" => procs'["wheel"].m.lease.epoch.physical <= hlc'
      BY <3>1 DEF ClockInv, EntryBehind, Behind, Registered
    <3> QED
      BY <1>0, <3>1, <3>2, <3>3, OneProcBehind
  <2> QED
    BY <2>1, <2>2, <2>3
<1>5. CASE Collect
  <2>1. /\ hlc' = hlc /\ outbox' = outbox /\ entry' = None /\ hlc <= hlc'
        /\ OthersStay("maintenance") /\ "maintenance" \in Goroutines
        /\ procs'["maintenance"].pc = "announce"
    BY <1>0, <1>5, CollectStep, GoroutinesMembers
  <2>2. EntryBehind' /\ OutboxBehind'
    BY <1>0, <2>1, RestBehind DEF EntryBehind
  <2> QED
    BY <1>0, <2>1, <2>2, OneProcBehind
<1>6. CASE PeerMutates
  <2>1. PICK p \in Peers, n \in Nat :
           /\ OthersStay(p) /\ UNCHANGED <<entry, outbox>>
           /\ hlc <= hlc' /\ n <= hlc' /\ procs'[p].pc = "apply"
           /\ procs'[p].m.stamp.version = Remote(n)
           /\ \/ procs'[p].m.lease.epoch = Remote(n)
              \/ procs'[p].m.lease \in KnownLeases
    BY <1>0, <1>6, PeerMutatesStep
  <2>2. EntryBehind' /\ OutboxBehind' /\ p \in Goroutines
    BY <1>0, <2>1, RestBehind, GoroutinesMembers
  <2>3. /\ procs'[p].m.stamp.version.physical <= hlc'
        /\ procs'[p].m.lease.epoch.physical <= hlc'
    BY <1>0, <2>1, LocalPhysical, KnownBehind
  <2> QED
    BY <1>0, <2>1, <2>2, <2>3, OneProcBehind
<1>7. CASE \E p \in Peers, m \in Stored : ApplyEcho(p, m)
  <2>1. PICK p \in Peers, m \in Stored : ApplyEcho(p, m)
    BY <1>7
  <2>2. /\ OthersStay(p) /\ UNCHANGED <<entry, outbox>> /\ m \in Mutations
        /\ hlc \in Nat /\ hlc' \in Nat /\ hlc <= hlc' /\ procs'[p].pc = "apply"
        /\ procs'[p].m.stamp = m.stamp /\ procs'[p].m.lease = m.lease /\ p \in Goroutines
    BY <1>0, <2>1, ApplyEchoStep, GoroutinesMembers
  <2>3. EntryBehind' /\ OutboxBehind'
    BY <1>0, <2>2, RestBehind
  <2>4. m.stamp.version.physical <= hlc' /\ m.lease.epoch.physical <= hlc'
    BY <1>0, <2>2, StoredBehind
  <2> QED
    BY <1>0, <2>2, <2>3, <2>4, OneProcBehind
<1>8. CASE PeerFences
  <2>1. UNCHANGED <<hlc, procs, outbox>> /\ (entry' = entry \/ entry' = None)
    BY <1>0, <1>8, PeerFencesStep
  <2> QED
    BY <1>0, <2>1
    DEF ClockInv, EntryBehind, OutboxBehind, DraftsBehind, CarriedBehind, Behind
<1>9. CASE \E p \in Threads : Requests(p)
  <2>1. PICK p \in Threads : Requests(p)
    BY <1>9
  <2>2. /\ OthersStay(p) /\ UNCHANGED <<hlc, entry, outbox>> /\ p \in Goroutines
        /\ \/ procs'[p].pc = "idle"
           \/ /\ procs'[p].pc = "stamp"
              /\ \/ procs'[p].m.lease.epoch = Local(0)
                 \/ procs'[p].m.lease \in KnownLeases
                 \/ Registered(procs'[p].m.lease)
    BY <1>0, <2>1, RequestsStep, GoroutinesMembers
  <2>3. EntryBehind' /\ OutboxBehind' /\ hlc <= hlc'
    BY <1>0, <2>2, RestBehind
  <2>4. procs'[p].pc = "stamp" => procs'[p].m.lease.epoch.physical <= hlc'
    <3>1. CASE procs'[p].m.lease.epoch = Local(0)
      BY <1>0, <2>2, <3>1, LocalPhysical
    <3>2. CASE procs'[p].m.lease \in KnownLeases
      BY <1>0, <2>3, <3>2, KnownBehind
    <3>3. CASE Registered(procs'[p].m.lease)
      BY <2>2, <3>3 DEF Registered, ClockInv, EntryBehind, Behind
    <3> QED
      BY <2>2, <3>1, <3>2, <3>3
  <2> QED
    BY <1>0, <2>2, <2>3, <2>4, OneProcBehind
<1>10. CASE \E p \in Goroutines : Draw(p)
  <2>1. PICK p \in Goroutines : Draw(p)
    BY <1>10
  <2>2. /\ OthersStay(p) /\ hlc' = hlc + 1 /\ UNCHANGED <<entry, outbox>>
        /\ procs[p].pc = "stamp" /\ procs'[p].pc = "apply" /\ procs[p].m \in Mutations
        /\ procs'[p].m.stamp.version = Local(hlc + 1)
        /\ procs'[p].m.lease = IF procs[p].m.stamp.kind = "REGISTER"
                               THEN Lease(Local(hlc + 1), procs[p].m.lease.reg)
                               ELSE procs[p].m.lease
    BY <1>0, <2>1, DrawStep
  <2>3. EntryBehind' /\ OutboxBehind' /\ hlc <= hlc'
    BY <1>0, <2>2, RestBehind
  <2>4. procs[p].m.lease.epoch.physical <= hlc /\ procs[p].m.lease.epoch.physical \in Nat
    BY <2>2, PhysicalType DEF ClockInv, DraftsBehind
  <2>5. Lease(Local(hlc + 1), procs[p].m.lease.reg).epoch.physical = hlc + 1
    BY LocalPhysical DEF Lease
  <2>6. /\ procs'[p].m.lease.epoch.physical <= hlc'
        /\ procs'[p].m.stamp.version.physical <= hlc'
    BY <1>0, <2>2, <2>4, <2>5, LocalPhysical
  <2> QED
    BY <1>0, <2>2, <2>3, <2>6, OneProcBehind
<1>11. CASE \E p \in Goroutines : Apply(p)
  <2>1. PICK p \in Goroutines : Apply(p)
    BY <1>11
  <2> DEFINE m == procs[p].m
  <2>2. /\ OthersStay(p) /\ hlc' = hlc /\ outbox' = outbox /\ m \in Mutations
        /\ procs[p].pc = "apply" /\ entry' = EntryAfter(entry, fence, m, now)
        /\ \/ procs'[p].pc = "idle"
           \/ procs'[p].pc = "followup" /\ procs'[p].m = m
    BY <1>0, <2>1, ApplyStep
  <2>3. Behind(m.lease, m.stamp)
    BY <2>2 DEF ClockInv, CarriedBehind
  <2>4. entry \in Entries \union {None} /\ now \in Nat
    BY <1>0, ServiceAssumption DEF TypeOK
  <2>5. EntryBehind'
    <3>1. CASE Outcome(entry, fence, m) = "APPLIED"
      <4>1. entry'.stamp = m.stamp /\ entry'.lease = m.lease
        BY <2>2, <2>4, <3>1, AppliedEntry
      <4> QED
        BY <2>2, <2>3, <4>1 DEF EntryBehind, Behind
    <3>2. CASE Outcome(entry, fence, m) = "DUPLICATE"
      BY <2>2, <2>4, <3>2, DuplicateEntry, EntryParts DEF ClockInv, EntryBehind, Behind
    <3>3. CASE Outcome(entry, fence, m) = "STALE"
      BY <2>2, <3>3, StaleEntry DEF ClockInv, EntryBehind, Behind
    <3> QED
      BY <3>1, <3>2, <3>3, OutcomeType
  <2>6. OutboxBehind' /\ hlc <= hlc'
    BY <1>0, <2>2, RestBehind
  <2>7. /\ procs'[p].pc # "stamp"
        /\ procs'[p].pc \in {"apply", "followup"} =>
              /\ procs'[p].m.lease.epoch.physical <= hlc'
              /\ procs'[p].m.stamp.version.physical <= hlc'
    BY <2>2, <2>3 DEF Behind
  <2> QED
    BY <1>0, <2>2, <2>5, <2>6, <2>7, OneProcBehind
<1>12. CASE \E p \in Goroutines : FollowUp(p)
  <2>1. PICK p \in Goroutines : FollowUp(p)
    BY <1>12
  <2>2. /\ OthersStay(p) /\ hlc' = hlc /\ entry' = entry
        /\ outbox' = outbox \union {procs[p].m}
        /\ procs[p].pc = "followup" /\ procs'[p].pc = "idle"
    BY <1>0, <2>1, FollowUpStep
  <2>3. OutboxBehind'
    BY <2>2 DEF ClockInv, CarriedBehind, OutboxBehind, Behind
  <2>4. EntryBehind' /\ hlc <= hlc'
    BY <1>0, <2>2, RestBehind
  <2> QED
    BY <1>0, <2>2, <2>3, <2>4, OneProcBehind
<1>13. CASE \E p \in Goroutines : Announce(p)
  <2>1. PICK p \in Goroutines : Announce(p)
    BY <1>13
  <2>2. OthersStay(p) /\ UNCHANGED <<hlc, entry, outbox>> /\ procs'[p].pc = "idle"
    BY <1>0, <2>1, AnnounceStep
  <2>3. EntryBehind' /\ OutboxBehind' /\ hlc <= hlc'
    BY <1>0, <2>2, RestBehind
  <2> QED
    BY <1>0, <2>2, <2>3, OneProcBehind
<1> QED
  BY <1>2, <1>3, <1>4, <1>5, <1>6, <1>7, <1>8, <1>9, <1>10, <1>11, <1>12, <1>13
  DEF Next, Steps

\* Nothing is stored or sent at first.
LEMMA InitClock == Init => ClockInv
  BY InitType DEF Init, Idle, ClockInv, EntryBehind, OutboxBehind, DraftsBehind, CarriedBehind

\* The clock leads whatever is stored, carried or sent.
LEMMA ClockInvariance == Spec => []ClockInv
  BY InitClock, NextClock, PTL DEF Spec

\* A version drawn from the clock is newer than the record in the registry,
\* whoever wrote it: ApplyRemote observes before it applies, and requests
\* apply what they drew.
THEOREM ClockAlwaysLeads == Spec => []ClockLeads
<1>1. ClockInv => ClockLeads
  <2> SUFFICES ASSUME ClockInv, entry # None
               PROVE  entry.stamp.version.physical <= hlc /\ entry.stamp.epoch.physical <= hlc
    BY DEF ClockLeads
  <2>1. entry.stamp.epoch = entry.lease.epoch
    BY EntryParts DEF ClockInv, TypeOK
  <2> QED
    BY <2>1 DEF ClockInv, EntryBehind, Behind
<1> QED
  BY <1>1, ClockInvariance, PTL

-----------------------------------------------------------------------------
(* The steps, sorted by what they do to the record and its followers.       *)

\* The record goes, or stays in all that its timers and gossip depend on.
SameRecord ==
    \/ entry' = None
    \/ /\ entry \in Entries /\ entry' \in Entries
       /\ entry'.stamp = entry.stamp /\ entry'.lease = entry.lease
       /\ entry'.deadline = entry.deadline

\* A step of one goroutine that neither applies nor follows up.
Quiet(p) ==
    /\ OthersStay(p) /\ SameRecord /\ outbox' = outbox
    /\ procs'[p] = procs[p] \/ (procs[p].pc # "followup" /\ procs'[p].pc # "followup")

\* If the record stays, so does its status.
StatusStays == entry' # None => entry'.status = entry.status

\* A step in which the wheel has no part.
WheelRests ==
    /\ timers' = timers /\ StatusStays
    /\ \/ procs'["wheel"] = procs["wheel"]
       \/ procs["wheel"].pc = "announce" /\ procs'["wheel"].pc = "idle"

\* The two ways an Apply ends.
Applied(p) == Apply(p) /\ Outcome(entry, fence, procs[p].m) = "APPLIED"
Refused(p) == Apply(p) /\ Outcome(entry, fence, procs[p].m) # "APPLIED"

\* A step without a goroutine.
LEMMA UnchangedQuiet ==
    ASSUME TypeOK, procs' = procs, outbox' = outbox, timers' = timers,
           entry' = entry \/ entry' = None
    PROVE  Quiet("wheel") /\ WheelRests
  BY EntryParts DEF Quiet, SameRecord, OthersStay, WheelRests, StatusStays, TypeOK

\* A step of another goroutine leaves the wheel's alone.
LEMMA WheelStays ==
    ASSUME NEW p, p # "wheel", OthersStay(p)
    PROVE  procs'["wheel"] = procs["wheel"]
  BY GoroutinesMembers DEF OthersStay

\* The steps of the wheel that neither apply nor follow up are quiet as well.
LEMMA WheelQuiet ==
    ASSUME TypeOK
    PROVE  /\ \A task : MarkDelayed(task) \/ ExpireLease(task) => Quiet("wheel")
           /\ \A p \in Goroutines : Draw(p) \/ Refused(p) => Quiet(p)
<1>1. ASSUME NEW task, MarkDelayed(task)
      PROVE  Quiet("wheel")
  <2>1. /\ OthersStay("wheel") /\ outbox' = outbox
        /\ procs["wheel"].pc = "idle" /\ procs'["wheel"].pc \in {"idle", "announce"}
        /\ \/ entry' = entry
           \/ /\ entry \in Entries /\ entry' \in Entries
              /\ entry'.stamp = entry.stamp /\ entry'.lease = entry.lease
              /\ entry'.deadline = entry.deadline
    BY <1>1, MarkDelayedStep
  <2> QED
    BY <2>1 DEF Quiet, SameRecord, TypeOK
<1>2. ASSUME NEW task, ExpireLease(task)
      PROVE  Quiet("wheel")
  <2>1. /\ OthersStay("wheel") /\ outbox' = outbox /\ entry' = entry
        /\ procs["wheel"].pc = "idle" /\ procs'["wheel"].pc \in {"idle", "stamp"}
    BY <1>2, ExpireLeaseStep
  <2> QED
    BY <2>1 DEF Quiet, SameRecord, TypeOK
<1>3. ASSUME NEW p \in Goroutines, Draw(p)
      PROVE  Quiet(p)
  <2>1. /\ OthersStay(p) /\ outbox' = outbox /\ entry' = entry
        /\ procs[p].pc = "stamp" /\ procs'[p].pc = "apply"
    BY <1>3, DrawStep
  <2> QED
    BY <2>1 DEF Quiet, SameRecord, TypeOK
<1>4. ASSUME NEW p \in Goroutines, Refused(p)
      PROVE  Quiet(p)
  <2> DEFINE m == procs[p].m
  <2>1. /\ OthersStay(p) /\ outbox' = outbox /\ m \in Mutations
        /\ procs[p].pc = "apply" /\ procs'[p].pc = "idle"
        /\ entry' = EntryAfter(entry, fence, m, now)
    BY <1>4, ApplyStep DEF Refused
  <2>2. now \in Nat /\ entry \in Entries \union {None}
    BY ServiceAssumption DEF TypeOK
  <2>3. SameRecord
    <3>1. CASE Outcome(entry, fence, m) = "DUPLICATE"
      BY <2>1, <2>2, <3>1, DuplicateEntry DEF SameRecord
    <3>2. CASE Outcome(entry, fence, m) = "STALE"
      BY <2>1, <2>2, <3>2, StaleEntry DEF SameRecord
    <3> QED
      BY <1>4, <3>1, <3>2, OutcomeType DEF Refused
  <2> QED
    BY <2>1, <2>3 DEF Quiet
<1> QED
  BY <1>1, <1>2, <1>3, <1>4

\* A refused mutation leaves the status as it was.
LEMMA RefusedStatus ==
    ASSUME TypeOK, NEW p \in Goroutines, Refused(p)
    PROVE  StatusStays
<1> DEFINE m == procs[p].m
<1>1. m \in Mutations /\ entry' = EntryAfter(entry, fence, m, now)
  BY ApplyStep DEF Refused
<1>2. now \in Nat /\ entry \in Entries \union {None}
  BY ServiceAssumption DEF TypeOK
<1>3. CASE Outcome(entry, fence, m) = "DUPLICATE"
  BY <1>1, <1>2, <1>3, DuplicateEntry DEF StatusStays
<1>4. CASE Outcome(entry, fence, m) = "STALE"
  BY <1>1, <1>4, StaleEntry DEF StatusStays
<1> QED
  BY <1>3, <1>4, OutcomeType DEF Refused

\* Every step is one of these.
LEMMA StepCases ==
    ASSUME TypeOK, [Next]_vars
    PROVE  \/ \E p \in Goroutines : Quiet(p) /\ WheelRests
           \/ \E task \in timers : MarkDelayed(task)
           \/ \E task \in timers : ExpireLease(task)
           \/ Draw("wheel") \/ Refused("wheel")
           \/ \E p \in Goroutines : Applied(p)
           \/ \E p \in Goroutines : FollowUp(p)
<1> DEFINE Rests == \E p \in Goroutines : Quiet(p) /\ WheelRests
<1>0. "wheel" \in Goroutines
  BY GoroutinesMembers
<1>1. ASSUME NEW p \in Goroutines, p # "wheel", timers' = timers, StatusStays, Quiet(p)
      PROVE  Rests
  <2>1. procs'["wheel"] = procs["wheel"]
    BY <1>1, WheelStays DEF Quiet
  <2> QED
    BY <1>1, <2>1 DEF WheelRests
<1>2. ASSUME NEW p \in Goroutines, p # "wheel", timers' = timers, OthersStay(p),
             entry' = entry \/ entry' = None, outbox' = outbox,
             procs[p].pc # "followup", procs'[p].pc # "followup"
      PROVE  Rests
  BY <1>1, <1>2 DEF Quiet, SameRecord, StatusStays, TypeOK
<1>3. CASE UNCHANGED vars
  BY <1>0, <1>3, UnchangedQuiet DEF vars
<1>4. CASE Tick
  BY <1>0, <1>4, UnchangedQuiet DEF Tick, registry, history
<1>5. CASE Collect
  BY <1>2, <1>5, CollectStep, GoroutinesMembers
<1>6. CASE PeerMutates
  <2>1. PICK p \in Peers :
           /\ OthersStay(p) /\ UNCHANGED <<entry, timers, outbox>>
           /\ procs[p].pc = "idle" /\ procs'[p].pc = "apply"
    BY <1>6, PeerMutatesStep
  <2> QED
    BY <1>2, <2>1, GoroutinesMembers
<1>7. CASE \E p \in Peers, m \in Stored : ApplyEcho(p, m)
  <2>1. PICK p \in Peers, m \in Stored : ApplyEcho(p, m)
    BY <1>7
  <2> QED
    BY <1>2, <2>1, ApplyEchoStep, GoroutinesMembers
<1>8. CASE PeerFences
  <2>1. UNCHANGED <<timers, procs, outbox>> /\ (entry' = entry \/ entry' = None)
    BY <1>8, PeerFencesStep
  <2> QED
    BY <1>0, <2>1, UnchangedQuiet
<1>9. CASE \E p \in Threads : Requests(p)
  <2>1. PICK p \in Threads : Requests(p)
    BY <1>9
  <2>2. /\ OthersStay(p) /\ UNCHANGED <<entry, timers, outbox>>
        /\ procs[p].pc = "idle" /\ procs'[p].pc \in {"idle", "stamp"}
    BY <2>1, RequestsStep
  <2> QED
    BY <1>2, <2>1, <2>2, GoroutinesMembers
<1>10. ASSUME NEW p \in Goroutines, Announce(p)
       PROVE  Rests
  <2>1. /\ OthersStay(p) /\ UNCHANGED <<entry, timers, outbox>>
        /\ procs[p].pc = "announce" /\ procs'[p].pc = "idle"
    BY <1>10, AnnounceStep
  <2>2. CASE p = "wheel"
    BY <2>1, <2>2 DEF Quiet, SameRecord, WheelRests, StatusStays, TypeOK
  <2> QED
    BY <1>2, <2>1, <2>2
<1>11. ASSUME NEW p \in Goroutines, p # "wheel", Draw(p) \/ Refused(p)
       PROVE  Rests
  <2>1. Quiet(p)
    BY <1>11, WheelQuiet
  <2>2. timers' = timers /\ StatusStays
    BY <1>11, DrawStep, ApplyStep, RefusedStatus DEF Refused, StatusStays
  <2> QED
    BY <1>1, <1>11, <2>1, <2>2
<1>12. ASSUME NEW p \in Goroutines, Apply(p)
       PROVE  Applied(p) \/ Refused(p)
  BY <1>12 DEF Applied, Refused
<1> QED
  BY <1>3, <1>4, <1>5, <1>6, <1>7, <1>8, <1>9, <1>10, <1>11, <1>12 DEF Next, Steps, Fire

-----------------------------------------------------------------------------
(* Forwarding.                                                              *)

\* Already inductive with the types.
ForwardInv == TypeOK /\ ChangesAreForwarded

\* What is forwarded stays so while the record and its follower do.
LEMMA QuietForwards ==
    ASSUME ForwardInv, NEW p \in Goroutines, Quiet(p)
    PROVE  ChangesAreForwarded'
<1> SUFFICES ASSUME entry' # None
             PROVE  \/ \E m \in outbox' : m.stamp = entry'.stamp /\ m.lease = entry'.lease
                    \/ \E r \in Goroutines :
                          /\ procs'[r].pc = "followup"
                          /\ procs'[r].m.stamp = entry'.stamp
                          /\ procs'[r].m.lease = entry'.lease
  BY DEF ChangesAreForwarded
<1>1. /\ entry # None /\ entry'.stamp = entry.stamp /\ entry'.lease = entry.lease
      /\ outbox' = outbox
  BY EntryParts DEF Quiet, SameRecord
<1>2. CASE \E m \in outbox : m.stamp = entry.stamp /\ m.lease = entry.lease
  BY <1>1, <1>2
<1>3. CASE \E r \in Goroutines : /\ procs[r].pc = "followup"
                                 /\ procs[r].m.stamp = entry.stamp
                                 /\ procs[r].m.lease = entry.lease
  <2>1. PICK r \in Goroutines : /\ procs[r].pc = "followup"
                                /\ procs[r].m.stamp = entry.stamp
                                /\ procs[r].m.lease = entry.lease
    BY <1>3
  <2>2. procs'[r] = procs[r]
    BY <2>1 DEF Quiet, OthersStay
  <2> QED
    BY <1>1, <2>1, <2>2
<1> QED
  BY <1>1, <1>2, <1>3 DEF ForwardInv, ChangesAreForwarded

\* A change is followed up by the goroutine that made it, which hands it on.
LEMMA NextForwards ==
    ASSUME ForwardInv, [Next]_vars
    PROVE  ForwardInv'
<1>0. TypeOK /\ TypeOK' /\ "wheel" \in Goroutines
  BY NextType, GoroutinesMembers DEF ForwardInv
<1>1. ASSUME NEW p \in Goroutines, Quiet(p)
      PROVE  ForwardInv'
  BY <1>0, <1>1, QuietForwards DEF ForwardInv
<1>2. ASSUME NEW p \in Goroutines, Applied(p)
      PROVE  ForwardInv'
  <2> DEFINE m == procs[p].m
  <2>1. /\ entry' = EntryAfter(entry, fence, m, now) /\ m \in Mutations
        /\ procs'[p].pc = "followup" /\ procs'[p].m = m
    BY <1>0, <1>2, ApplyStep DEF Applied
  <2>2. now \in Nat /\ entry \in Entries \union {None}
    BY <1>0, ServiceAssumption DEF TypeOK
  <2>3. entry'.stamp = m.stamp /\ entry'.lease = m.lease
    BY <1>2, <2>1, <2>2, AppliedEntry DEF Applied
  <2> QED
    BY <1>0, <2>1, <2>3 DEF ForwardInv, ChangesAreForwarded
<1>3. ASSUME NEW p \in Goroutines, FollowUp(p)
      PROVE  ForwardInv'
  <2>1. /\ OthersStay(p) /\ entry' = entry /\ outbox' = outbox \union {procs[p].m}
        /\ procs[p].pc = "followup"
    BY <1>0, <1>3, FollowUpStep
  <2> SUFFICES ASSUME entry # None
               PROVE  ChangesAreForwarded'
    BY <1>0, <2>1 DEF ForwardInv, ChangesAreForwarded
  <2>2. CASE \E m \in outbox : m.stamp = entry.stamp /\ m.lease = entry.lease
    BY <2>1, <2>2 DEF ChangesAreForwarded
  <2>3. CASE \E r \in Goroutines : /\ procs[r].pc = "followup"
                                   /\ procs[r].m.stamp = entry.stamp
                                   /\ procs[r].m.lease = entry.lease
    <3>1. PICK r \in Goroutines : /\ procs[r].pc = "followup"
                                  /\ procs[r].m.stamp = entry.stamp
                                  /\ procs[r].m.lease = entry.lease
      BY <2>3
    <3>2. CASE r = p
      BY <2>1, <3>1, <3>2 DEF ChangesAreForwarded
    <3>3. CASE r # p
      <4>1. procs'[r] = procs[r]
        BY <2>1, <3>3 DEF OthersStay
      <4> QED
        BY <2>1, <3>1, <4>1 DEF ChangesAreForwarded
    <3> QED
      BY <3>2, <3>3
  <2> QED
    BY <2>2, <2>3 DEF ForwardInv, ChangesAreForwarded
<1> QED
  BY <1>0, <1>1, <1>2, <1>3, StepCases, WheelQuiet

\* There is nothing to forward at first.
LEMMA InitForwards == Init => ForwardInv
  BY InitType DEF Init, ForwardInv, ChangesAreForwarded

\* What a mutation put into the registry, of a client, the wheel or a peer,
\* was handed to gossip, or the goroutine that applied it is about to: the
\* mutation sink is called after Apply, outside the registry's lock, and no
\* interleaving lets the stored record go by without it.
THEOREM EveryChangeIsForwarded == Spec => []ChangesAreForwarded
<1>1. ForwardInv => ChangesAreForwarded
  BY DEF ForwardInv
<1> QED
  BY <1>1, InitForwards, NextForwards, PTL DEF Spec

-----------------------------------------------------------------------------
(* Expiry.                                                                  *)

\* What the wheel carries is an expiry without an operation ID.
WheelExpires ==
    procs["wheel"].pc \in {"stamp", "apply"} =>
        procs["wheel"].m.stamp.kind = "TTL_EXPIRE" /\ procs["wheel"].m.op = NoOp

\* The clock is needed for the version the wheel draws to outrank the record.
ExpiryInv == ClockInv /\ WheelExpires /\ ExpiryPending

\* The three places where the expiry of a record can be.
TimerPending ==
    \E t \in timers :
        /\ t.kind = "EXPIRE_LEASE" /\ t.lease = entry.lease
        /\ t.version = entry.stamp.version /\ t.deadline >= entry.deadline
FollowUpPending ==
    \E p \in Goroutines :
        /\ procs[p].pc = "followup"
        /\ procs[p].record.stamp = entry.stamp /\ procs[p].record.lease = entry.lease
        /\ procs[p].record.deadline >= entry.deadline
WheelPending ==
    /\ procs["wheel"].m # None
    /\ procs["wheel"].m.lease = entry.lease
    /\ \/ procs["wheel"].pc = "stamp"
       \/ procs["wheel"].pc = "apply" /\ Outranks(procs["wheel"].m.stamp, entry.stamp)

\* The record is in discovery and has a deadline.
Live == Discoverable(entry) /\ entry.deadline # 0

\* ExpiryPending in those terms.
LEMMA PendingCases ==
    ExpiryPending <=> (Live => TimerPending \/ FollowUpPending \/ WheelPending)
  BY DEF ExpiryPending, Live, TimerPending, FollowUpPending, WheelPending

\* And after a step.
LEMMA PendingCasesNext ==
    ExpiryPending' <=> (Live' => TimerPending' \/ FollowUpPending' \/ WheelPending')
  BY DEF ExpiryPending, Live, TimerPending, FollowUpPending, WheelPending

\* A record of the same stamp is as discoverable.
LEMMA DiscoverableByKind ==
    ASSUME NEW a \in Entries, NEW b \in Entries, a.stamp = b.stamp, Discoverable(a)
    PROVE  Discoverable(b) /\ a.stamp.kind \in LiveKinds
  BY EntryParts DEF Discoverable, Kinds

\* A quiet step in which the record is live again left it as it was.
LEMMA QuietLive ==
    ASSUME TypeOK, TypeOK', NEW p, Quiet(p), Live'
    PROVE  /\ Live /\ entry \in Entries /\ entry' \in Entries
           /\ entry'.stamp = entry.stamp /\ entry'.lease = entry.lease
           /\ entry'.deadline = entry.deadline
<1>1. /\ entry \in Entries /\ entry' \in Entries
      /\ entry'.stamp = entry.stamp /\ entry'.lease = entry.lease
      /\ entry'.deadline = entry.deadline
  BY DEF Quiet, SameRecord, Live, Discoverable
<1>2. Discoverable(entry)' <=> Discoverable(entry')
  BY DEF Discoverable
<1> QED
  BY <1>1, <1>2, DiscoverableByKind DEF Live

\* A record to be followed up still is, after a quiet step.
LEMMA QuietFollowUps ==
    ASSUME TypeOK, NEW p \in Goroutines, Quiet(p), FollowUpPending,
           entry'.stamp = entry.stamp, entry'.lease = entry.lease,
           entry'.deadline = entry.deadline
    PROVE  FollowUpPending'
<1>1. PICK r \in Goroutines :
         /\ procs[r].pc = "followup"
         /\ procs[r].record.stamp = entry.stamp /\ procs[r].record.lease = entry.lease
         /\ procs[r].record.deadline >= entry.deadline
  BY DEF FollowUpPending
<1>2. procs'[r] = procs[r]
  BY <1>1 DEF Quiet, OthersStay
<1> QED
  BY <1>1, <1>2 DEF FollowUpPending

\* A timer that is not taken stays.
LEMMA QuietTimers ==
    ASSUME TimerPending, timers \subseteq timers',
           entry'.stamp = entry.stamp, entry'.lease = entry.lease,
           entry'.deadline = entry.deadline
    PROVE  TimerPending'
  BY DEF TimerPending

-----------------------------------------------------------------------------
\* A step without the wheel.
LEMMA RestsPending ==
    ASSUME ExpiryInv, TypeOK', NEW p \in Goroutines, Quiet(p), WheelRests
    PROVE  ExpiryPending' /\ WheelExpires'
<1>1. WheelExpires'
  BY DEF ExpiryInv, WheelExpires, WheelRests
<1> SUFFICES ASSUME Live'
             PROVE  TimerPending' \/ FollowUpPending' \/ WheelPending'
  BY <1>1, PendingCasesNext
<1>2. TypeOK
  BY DEF ExpiryInv, ClockInv
<1>3. /\ Live /\ entry'.stamp = entry.stamp /\ entry'.lease = entry.lease
      /\ entry'.deadline = entry.deadline
  BY <1>2, QuietLive
<1>4. CASE TimerPending
  BY <1>3, <1>4, QuietTimers DEF WheelRests
<1>5. CASE FollowUpPending
  BY <1>2, <1>3, <1>5, QuietFollowUps
<1>6. CASE WheelPending
  <2>1. procs'["wheel"] = procs["wheel"]
    BY <1>6 DEF WheelPending, WheelRests
  <2> QED
    BY <1>3, <1>6, <2>1 DEF WheelPending
<1> QED
  BY <1>3, <1>4, <1>5, <1>6, PendingCases DEF ExpiryInv

\* MARK_DELAYED leaves the expiry where it is.
LEMMA MarkDelayedPending ==
    ASSUME ExpiryInv, TypeOK', NEW task, MarkDelayed(task)
    PROVE  ExpiryPending' /\ WheelExpires'
<1>0. TypeOK /\ "wheel" \in Goroutines
  BY GoroutinesMembers DEF ExpiryInv, ClockInv
<1>1. /\ procs["wheel"].pc = "idle" /\ procs'["wheel"].pc \in {"idle", "announce"}
      /\ task.kind = "MARK_DELAYED" /\ timers' = timers \ {task} /\ Quiet("wheel")
  BY <1>0, MarkDelayedStep, WheelQuiet
<1>2. WheelExpires'
  BY <1>1 DEF WheelExpires
<1> SUFFICES ASSUME Live'
             PROVE  TimerPending' \/ FollowUpPending'
  BY <1>2, PendingCasesNext
<1>3. /\ Live /\ entry'.stamp = entry.stamp /\ entry'.lease = entry.lease
      /\ entry'.deadline = entry.deadline
  BY <1>0, <1>1, QuietLive
<1>4. CASE TimerPending
  BY <1>1, <1>3, <1>4 DEF TimerPending
<1>5. CASE FollowUpPending
  BY <1>0, <1>1, <1>3, <1>5, QuietFollowUps
<1>6. ~WheelPending
  BY <1>1 DEF WheelPending
<1> QED
  BY <1>3, <1>4, <1>5, <1>6, PendingCases DEF ExpiryInv

\* EXPIRE_LEASE turns into a draft, or was not the record's expiry.
LEMMA ExpireLeasePending ==
    ASSUME ExpiryInv, TypeOK', NEW task, ExpireLease(task)
    PROVE  ExpiryPending' /\ WheelExpires'
<1>0. TypeOK /\ "wheel" \in Goroutines
  BY GoroutinesMembers DEF ExpiryInv, ClockInv
<1>1. /\ procs["wheel"].pc = "idle" /\ timers' = timers \ {task} /\ Quiet("wheel")
      /\ task.deadline <= now /\ entry' = entry
      /\ \/ /\ procs'["wheel"].pc = "idle"
            /\ ~ (/\ Registered(task.lease) /\ entry.stamp.version = task.version
                  /\ Discoverable(entry) /\ entry.deadline <= now)
         \/ /\ procs'["wheel"].pc = "stamp" /\ procs'["wheel"].m \in Mutations
            /\ procs'["wheel"].m.stamp.kind = "TTL_EXPIRE"
            /\ procs'["wheel"].m.op = NoOp
            /\ procs'["wheel"].m.lease = task.lease
  BY <1>0, ExpireLeaseStep, WheelQuiet
<1>2. WheelExpires'
  BY <1>1 DEF WheelExpires
<1> SUFFICES ASSUME Live'
             PROVE  TimerPending' \/ FollowUpPending' \/ WheelPending'
  BY <1>2, PendingCasesNext
<1>3. Live /\ entry \in Entries
  BY <1>0, <1>1, QuietLive
<1>4. CASE TimerPending
  <2>1. PICK t \in timers :
           /\ t.kind = "EXPIRE_LEASE" /\ t.lease = entry.lease
           /\ t.version = entry.stamp.version /\ t.deadline >= entry.deadline
    BY <1>4 DEF TimerPending
  <2>2. CASE t # task
    BY <1>1, <2>1, <2>2 DEF TimerPending
  <2>3. CASE t = task
    <3>1. /\ entry.deadline \in Nat /\ t.deadline \in Int /\ now \in Nat /\ entry # None
      BY <1>0, <1>3, <2>1, EntryParts, ServiceAssumption DEF TypeOK, Tasks
    <3>2. entry.deadline <= now
      BY <1>1, <2>1, <2>3, <3>1
    <3>3. Registered(task.lease) /\ entry.stamp.version = task.version /\ Discoverable(entry)
      BY <1>3, <2>1, <2>3, <3>1 DEF Registered, Live
    <3>4. /\ procs'["wheel"].pc = "stamp" /\ procs'["wheel"].m \in Mutations
          /\ procs'["wheel"].m.lease = task.lease
      BY <1>1, <3>2, <3>3
    <3> QED
      BY <1>1, <2>1, <2>3, <3>4, MutationParts DEF WheelPending
  <2> QED
    BY <2>2, <2>3
<1>5. CASE FollowUpPending
  BY <1>0, <1>1, <1>5, QuietFollowUps
<1>6. ~WheelPending
  BY <1>1 DEF WheelPending
<1> QED
  BY <1>3, <1>4, <1>5, <1>6, PendingCases DEF ExpiryInv

\* The version the wheel draws is newer than the record's.
LEMMA WheelDrawPending ==
    ASSUME ExpiryInv, TypeOK', Draw("wheel")
    PROVE  ExpiryPending' /\ WheelExpires'
<1>0. TypeOK /\ "wheel" \in Goroutines /\ hlc \in Nat
  BY GoroutinesMembers DEF ExpiryInv, ClockInv, TypeOK
<1>1. /\ procs["wheel"].pc = "stamp" /\ procs'["wheel"].pc = "apply" /\ Quiet("wheel")
      /\ timers' = timers /\ entry' = entry
      /\ procs["wheel"].m \in Mutations /\ procs'["wheel"].m \in Mutations
      /\ procs'["wheel"].m.stamp.kind = procs["wheel"].m.stamp.kind
      /\ procs'["wheel"].m.stamp.version = Local(hlc + 1)
      /\ procs'["wheel"].m.op = procs["wheel"].m.op
      /\ procs'["wheel"].m.lease = IF procs["wheel"].m.stamp.kind = "REGISTER"
                                   THEN Lease(Local(hlc + 1), procs["wheel"].m.lease.reg)
                                   ELSE procs["wheel"].m.lease
  BY <1>0, DrawStep, WheelQuiet
<1>2. procs["wheel"].m.stamp.kind = "TTL_EXPIRE" /\ procs["wheel"].m.op = NoOp
  BY <1>1 DEF ExpiryInv, WheelExpires
<1>3. WheelExpires' /\ procs'["wheel"].m.lease = procs["wheel"].m.lease
  BY <1>1, <1>2 DEF WheelExpires
<1> SUFFICES ASSUME Live'
             PROVE  TimerPending' \/ FollowUpPending' \/ WheelPending'
  BY <1>3, PendingCasesNext
<1>4. Live /\ entry \in Entries
  BY <1>0, <1>1, QuietLive
<1>5. CASE TimerPending
  BY <1>1, <1>5, QuietTimers
<1>6. CASE FollowUpPending
  BY <1>0, <1>1, <1>6, QuietFollowUps
<1>7. CASE WheelPending
  <2> DEFINE new == procs'["wheel"].m
  <2>1. new.lease = entry.lease
    BY <1>3, <1>7 DEF WheelPending
  <2>2. new.stamp.epoch = entry.stamp.epoch
    BY <1>1, <1>4, <2>1, MutationParts, EntryParts
  <2>3. ~ExplicitlyTerminal(new.stamp.kind)
    BY <1>1, <1>2 DEF ExplicitlyTerminal, TerminalKinds
  <2>4. ~ExplicitlyTerminal(entry.stamp.kind)
    <3>1. entry.stamp.kind \in LiveKinds
      BY <1>4, DiscoverableByKind DEF Live
    <3> QED
      BY <3>1 DEF ExplicitlyTerminal, TerminalKinds, LiveKinds
  <2>5. VersionLess(entry.stamp.version, new.stamp.version)
    <3>1. entry.stamp.version.physical <= hlc /\ entry.stamp.version.physical \in Nat
      BY <1>4, EntryParts, PhysicalType DEF ExpiryInv, ClockInv, EntryBehind, Behind
    <3>2. new.stamp.version.physical = hlc + 1
      BY <1>1, LocalPhysical
    <3> QED
      BY <1>0, <3>1, <3>2 DEF VersionLess
  <2>6. Outranks(new.stamp, entry.stamp)
    BY <2>2, <2>3, <2>4, <2>5 DEF Outranks
  <2> QED
    BY <1>1, <2>1, <2>6, MutationParts DEF WheelPending
<1> QED
  BY <1>4, <1>5, <1>6, <1>7, PendingCases DEF ExpiryInv

\* The wheel's expiry of the record it outranks is not refused.
LEMMA WheelRefusedPending ==
    ASSUME ExpiryInv, TypeOK', Refused("wheel")
    PROVE  ExpiryPending' /\ WheelExpires'
<1>0. TypeOK /\ "wheel" \in Goroutines
  BY GoroutinesMembers DEF ExpiryInv, ClockInv
<1> DEFINE m == procs["wheel"].m
<1>1. /\ procs["wheel"].pc = "apply" /\ procs'["wheel"].pc = "idle" /\ Quiet("wheel")
      /\ timers' = timers /\ m \in Mutations
      /\ Outcome(entry, fence, m) # "APPLIED"
  BY <1>0, ApplyStep, WheelQuiet DEF Refused
<1>2. WheelExpires'
  BY <1>1 DEF WheelExpires
<1> SUFFICES ASSUME Live'
             PROVE  TimerPending' \/ FollowUpPending'
  BY <1>2, PendingCasesNext
<1>3. /\ Live /\ entry \in Entries
      /\ entry'.stamp = entry.stamp /\ entry'.lease = entry.lease
      /\ entry'.deadline = entry.deadline
  BY <1>0, <1>1, QuietLive
<1>4. CASE TimerPending
  BY <1>1, <1>3, <1>4, QuietTimers
<1>5. CASE FollowUpPending
  BY <1>0, <1>1, <1>3, <1>5, QuietFollowUps
<1>6. CASE WheelPending
  <2>1. m.lease = entry.lease /\ Outranks(m.stamp, entry.stamp)
    BY <1>1, <1>6 DEF WheelPending
  <2>2. ~Seen(entry.ops, m.op)
    BY <1>1 DEF ExpiryInv, WheelExpires, Seen
  <2>3. m.stamp # entry.stamp
    BY <1>1, <1>3, <2>1, OutranksAsymmetric, MutationParts, EntryParts
  <2>4. IncomingWins(m, entry) /\ ~IncomingSame(m, entry)
    BY <2>1, <2>3 DEF IncomingWins, IncomingSame
  <2>5. entry # None
    BY <1>3, EntryParts
  <2>6. Outcome(entry, fence, m) = "APPLIED"
    BY <2>2, <2>4, <2>5 DEF Outcome
  <2> QED
    BY <1>1, <2>6
<1> QED
  BY <1>3, <1>4, <1>5, <1>6, PendingCases DEF ExpiryInv

\* A record that was just stored is followed up.
LEMMA AppliedPending ==
    ASSUME ExpiryInv, TypeOK', NEW p \in Goroutines, Applied(p)
    PROVE  ExpiryPending' /\ WheelExpires'
<1>0. TypeOK /\ "wheel" \in Goroutines
  BY GoroutinesMembers DEF ExpiryInv, ClockInv
<1> DEFINE m == procs[p].m
<1>1. /\ OthersStay(p) /\ procs'[p].pc = "followup" /\ procs'[p].record = entry'
      /\ m \in Mutations /\ entry' = EntryAfter(entry, fence, m, now)
  BY <1>0, ApplyStep DEF Applied
<1>2. WheelExpires'
  BY <1>0, <1>1, WheelStays DEF ExpiryInv, WheelExpires
<1>3. entry' \in Entries
  <2>1. entry \in Entries \union {None} /\ now \in Nat
    BY <1>0, ServiceAssumption DEF TypeOK
  <2> QED
    BY <1>1, <2>1, AppliedEntry DEF Applied
<1>4. entry'.deadline >= entry'.deadline
  BY <1>3, EntryParts
<1>5. FollowUpPending'
  BY <1>1, <1>4 DEF FollowUpPending
<1> QED
  BY <1>2, <1>5, PendingCasesNext

\* Following up a record schedules its expiry.
LEMMA FollowUpPends ==
    ASSUME ExpiryInv, TypeOK', NEW p \in Goroutines, FollowUp(p)
    PROVE  ExpiryPending' /\ WheelExpires'
<1>0. TypeOK /\ "wheel" \in Goroutines
  BY GoroutinesMembers DEF ExpiryInv, ClockInv
<1> DEFINE r == procs[p].record
<1>1. /\ OthersStay(p) /\ entry' = entry /\ timers' = timers \union TimersFor(r)
      /\ procs[p].pc = "followup" /\ procs'[p].pc = "idle" /\ r \in Entries
  BY <1>0, FollowUpStep
<1>2. procs["wheel"].pc \in {"stamp", "apply"} => procs'["wheel"] = procs["wheel"]
  BY <1>1, WheelStays
<1>3. WheelExpires'
  BY <1>1, <1>2, WheelStays DEF ExpiryInv, WheelExpires
<1> SUFFICES ASSUME Live'
             PROVE  TimerPending' \/ FollowUpPending' \/ WheelPending'
  BY <1>3, PendingCasesNext
<1>4. Live /\ entry \in Entries
  BY <1>0, <1>1 DEF Live, Discoverable, TypeOK
<1>5. CASE TimerPending
  BY <1>1, <1>5, QuietTimers
<1>6. CASE FollowUpPending
  <2>1. PICK q \in Goroutines :
           /\ procs[q].pc = "followup"
           /\ procs[q].record.stamp = entry.stamp /\ procs[q].record.lease = entry.lease
           /\ procs[q].record.deadline >= entry.deadline
    BY <1>6 DEF FollowUpPending
  <2>2. CASE q # p
    <3>1. procs'[q] = procs[q]
      BY <1>1, <2>2 DEF OthersStay
    <3> QED
      BY <1>1, <2>1, <3>1 DEF FollowUpPending
  <2>3. CASE q = p
    <3>1. entry.deadline \in Nat /\ r.deadline \in Nat /\ r.deadline >= entry.deadline
      BY <1>1, <1>4, <2>1, <2>3, EntryParts
    <3>2. Discoverable(r) /\ r.deadline # 0
      BY <1>1, <1>4, <2>1, <2>3, <3>1, DiscoverableByKind DEF Live
    <3>3. PICK t \in TimersFor(r) : /\ t.kind = "EXPIRE_LEASE" /\ t.lease = r.lease
                                    /\ t.version = r.stamp.version /\ t.deadline = r.deadline
      BY <1>1, <3>2, TimersOf
    <3> QED
      BY <1>1, <2>1, <2>3, <3>1, <3>3 DEF TimerPending
  <2> QED
    BY <2>2, <2>3
<1>7. CASE WheelPending
  <2>1. procs'["wheel"] = procs["wheel"]
    BY <1>2, <1>7 DEF WheelPending
  <2> QED
    BY <1>1, <1>7, <2>1 DEF WheelPending
<1> QED
  BY <1>4, <1>5, <1>6, <1>7, PendingCases DEF ExpiryInv

-----------------------------------------------------------------------------
\* Every step keeps the expiry pending.
LEMMA NextExpiry ==
    ASSUME ExpiryInv, [Next]_vars
    PROVE  ExpiryInv'
<1>1. ClockInv' /\ TypeOK /\ TypeOK'
  BY NextClock DEF ExpiryInv, ClockInv
<1>2. ExpiryPending' /\ WheelExpires'
  BY <1>1, StepCases, RestsPending, MarkDelayedPending, ExpireLeasePending,
     WheelDrawPending, WheelRefusedPending, AppliedPending, FollowUpPends
<1> QED
  BY <1>1, <1>2 DEF ExpiryInv

\* There is nothing to expire at first.
LEMMA InitExpiry == Init => ExpiryInv
  BY InitClock, GoroutinesMembers
  DEF Init, ExpiryInv, ExpiryPending, WheelExpires, Discoverable, Idle

\* A record that is in discovery under a deadline always has its expiry ahead
\* of it: a timer of its version at or after its deadline, a goroutine about to
\* schedule one, or the wheel with a TTL_EXPIRE that will outrank it. Timers
\* are scheduled after the registry's lock is released and are never renewed,
\* only ignored when their version is old, so no order of renewals, echoes and
\* late schedules loses the last one.
THEOREM ExpiryIsAlwaysPending == Spec => []ExpiryPending
<1>1. ExpiryInv => ExpiryPending
  BY DEF ExpiryInv
<1> QED
  BY <1>1, InitExpiry, NextExpiry, PTL DEF Spec

-----------------------------------------------------------------------------
(* Delay.  An instance is marked by a timer of its record's version, and    *)
(* what keeps an older deadline of that version from marking it is that a  *)
(* version reaches the registry twice only as an echo, with what remains   *)
(* of its lease.                                                           *)

\* A goroutine with a mutation for the registry or from it, and its version.
Carries(p) == procs[p].pc \in {"apply", "followup"}
VersionOf(p) == procs[p].m.stamp.version

\* A version drawn here or taken from a peer.
Known(version) == version.origin = 1 \/ version \in received

TimersBehind == \A t \in timers : t.version.physical <= hlc

VersionsKnown ==
    /\ \A t \in timers : Known(t.version)
    /\ \A m \in outbox : Known(m.stamp.version)
    /\ \A p \in Goroutines : Carries(p) => Known(VersionOf(p))

\* A mutation that brings a deadline of its own.
Fresh(p) == procs[p].pc = "apply" /\ procs[p].m.remaining > Grace

\* No one but goroutine p knows this version.
Unshared(version, p) ==
    /\ \A t \in timers : t.version # version
    /\ \A m \in outbox : m.stamp.version # version
    /\ \A q \in Goroutines \ {p} : Carries(q) => VersionOf(q) # version

FreshUnshared == \A p \in Goroutines : Fresh(p) => Unshared(VersionOf(p), p)

FreshInv == ClockInv /\ TimersBehind /\ VersionsKnown /\ FreshUnshared

\* A deadline of the record's version is no earlier than the record's own,
\* or the record's is a deadline already in its grace.
InGrace == entry.deadline <= now + Grace

Covered ==
    entry # None =>
        /\ \A t \in timers : t.version = entry.stamp.version =>
              entry.deadline <= t.deadline + Grace \/ InGrace
        /\ \A p \in Goroutines :
              procs[p].pc = "followup" /\ procs[p].record.stamp.version = entry.stamp.version =>
                 entry.deadline <= procs[p].record.deadline \/ InGrace

DelayInv == FreshInv /\ Covered /\ DelayedIsLate

-----------------------------------------------------------------------------
\* The shapes of the clock invariant.
LEMMA FreshTypes ==
    ASSUME FreshInv
    PROVE  /\ TypeOK /\ ClockInv /\ hlc \in Nat
           /\ \A t \in timers : /\ t \in Tasks /\ t.version.physical \in Nat
                                /\ t.version.physical <= hlc
           /\ \A m \in outbox : /\ m \in Mutations /\ m.stamp.version.physical \in Nat
                                /\ m.stamp.version.physical <= hlc
           /\ \A p \in Goroutines : Carries(p) =>
                 /\ procs[p].m \in Mutations /\ VersionOf(p).physical \in Nat
                 /\ VersionOf(p).physical <= hlc
<1>1. TypeOK /\ ClockInv /\ hlc \in Nat
  BY DEF FreshInv, ClockInv, TypeOK
<1>2. \A t \in timers : t \in Tasks /\ t.version.physical \in Nat /\ t.version.physical <= hlc
  BY <1>1 DEF FreshInv, TimersBehind, TypeOK, Tasks, Version
<1>3. \A m \in outbox : /\ m \in Mutations /\ m.stamp.version.physical \in Nat
                        /\ m.stamp.version.physical <= hlc
  BY <1>1, PhysicalType DEF ClockInv, OutboxBehind, Behind, TypeOK
<1>4. ASSUME NEW p \in Goroutines, Carries(p)
      PROVE  /\ procs[p].m \in Mutations /\ VersionOf(p).physical \in Nat
             /\ VersionOf(p).physical <= hlc
  <2>1. procs[p].m \in Mutations
    BY <1>1, <1>4, ProcType DEF Carries
  <2> QED
    BY <1>1, <1>4, <2>1, PhysicalType DEF ClockInv, CarriedBehind, Behind, Carries, VersionOf
<1> QED
  BY <1>1, <1>2, <1>3, <1>4

\* A step of one goroutine that brings no version to the timers, to gossip or
\* to another goroutine.
LEMMA NoNewVersion ==
    ASSUME FreshInv, ClockInv', hlc <= hlc', timers' \subseteq timers, outbox' = outbox,
           received \subseteq received',
           NEW p \in Goroutines, OthersStay(p),
           \/ procs'[p] = procs[p]
           \/ procs'[p].pc \notin {"apply", "followup"}
           \/ /\ procs[p].pc = "apply" /\ procs'[p].pc = "followup"
              /\ procs'[p].m = procs[p].m
    PROVE  FreshInv'
<1>0. hlc \in Nat /\ hlc' \in Nat
  BY FreshTypes DEF ClockInv, TypeOK
<1>1. TimersBehind'
  <2>1. ASSUME NEW t \in timers'
        PROVE  t.version.physical <= hlc'
    <3>1. t.version.physical \in Nat /\ t.version.physical <= hlc
      BY FreshTypes
    <3> QED
      BY <1>0, <3>1
  <2> QED
    BY <2>1 DEF TimersBehind
<1>2. \A q \in Goroutines :
         Carries(q)' => Carries(q) /\ procs'[q].m = procs[q].m
  BY DEF OthersStay, Carries
<1>3. \A q \in Goroutines : Carries(q)' => Carries(q) /\ VersionOf(q)' = VersionOf(q)
  BY <1>2 DEF VersionOf
<1>4. \A q \in Goroutines : Fresh(q)' => Fresh(q)
  BY <1>2 DEF Fresh, Carries, OthersStay
<1>5. \A version : Known(version) => Known(version)'
  BY DEF Known
<1>6. VersionsKnown'
  BY <1>3, <1>5 DEF FreshInv, VersionsKnown
<1>7. \A version : \A q \in Goroutines : Unshared(version, q) => Unshared(version, q)'
  BY <1>3 DEF Unshared
<1>8. FreshUnshared'
  <2>1. ASSUME NEW q \in Goroutines, Fresh(q)'
        PROVE  Unshared(VersionOf(q), q)'
    <3>1. Fresh(q) /\ Unshared(VersionOf(q), q)
      BY <1>4, <2>1 DEF FreshInv, FreshUnshared
    <3>2. VersionOf(q)' = VersionOf(q)
      BY <1>3, <2>1 DEF Fresh, Carries
    <3>3. \A r \in Goroutines : Carries(r)' => Carries(r) /\ VersionOf(r)' = VersionOf(r)
      BY <1>3
    <3> QED
      BY <3>1, <3>2, <3>3 DEF Unshared
  <2> QED
    BY <2>1 DEF FreshUnshared
<1> QED
  BY <1>1, <1>6, <1>8 DEF FreshInv

\* A goroutine that begins to carry a version no fresh mutation has, and
\* that no one has if its own mutation is fresh.
LEMMA NewVersion ==
    ASSUME FreshInv, ClockInv', hlc <= hlc', timers' = timers, outbox' = outbox,
           received \subseteq received',
           NEW p \in Goroutines, OthersStay(p),
           procs[p].pc \notin {"apply", "followup"}, procs'[p].pc = "apply",
           Known(VersionOf(p))',
           \A q \in Goroutines : Fresh(q) => VersionOf(q) # VersionOf(p)',
           procs'[p].m.remaining > Grace => Unshared(VersionOf(p)', p)
    PROVE  FreshInv'
<1>0. hlc \in Nat /\ hlc' \in Nat
  BY FreshTypes DEF ClockInv, TypeOK
<1>1. TimersBehind'
  <2>1. ASSUME NEW t \in timers'
        PROVE  t.version.physical <= hlc'
    <3>1. t.version.physical \in Nat /\ t.version.physical <= hlc
      BY FreshTypes
    <3> QED
      BY <1>0, <3>1
  <2> QED
    BY <2>1 DEF TimersBehind
<1>2. \A q \in Goroutines \ {p} : /\ procs'[q] = procs[q]
                                  /\ Carries(q)' <=> Carries(q)
                                  /\ Fresh(q)' <=> Fresh(q)
                                  /\ VersionOf(q)' = VersionOf(q)
  BY DEF OthersStay, Carries, Fresh, VersionOf
<1>3. \A version : Known(version) => Known(version)'
  BY DEF Known
<1>4. VersionsKnown'
  BY <1>2, <1>3 DEF FreshInv, VersionsKnown
<1>5. ~Carries(p) /\ ~Fresh(p)
  BY DEF Carries, Fresh
<1>6. ASSUME NEW q \in Goroutines, Fresh(q)'
      PROVE  Unshared(VersionOf(q), q)'
  <2>1. CASE q = p
    <3>1. Unshared(VersionOf(p)', p)
      BY <1>6, <2>1 DEF Fresh
    <3> QED
      BY <1>2, <2>1, <3>1 DEF Unshared
  <2>2. CASE q # p
    <3>1. Fresh(q) /\ VersionOf(q)' = VersionOf(q) /\ Unshared(VersionOf(q), q)
      BY <1>2, <1>6, <2>2 DEF FreshInv, FreshUnshared
    <3>2. VersionOf(q) # VersionOf(p)'
      BY <3>1
    <3>3. ASSUME NEW r \in Goroutines \ {q}, Carries(r)'
          PROVE  VersionOf(r)' # VersionOf(q)
      <4>1. CASE r = p
        BY <3>2, <4>1
      <4>2. CASE r # p
        BY <1>2, <3>1, <3>3, <4>2 DEF Unshared
      <4> QED
        BY <4>1, <4>2
    <3> QED
      BY <3>1, <3>3 DEF Unshared
  <2> QED
    BY <2>1, <2>2
<1> QED
  BY <1>1, <1>4, <1>6 DEF FreshInv, FreshUnshared

\* A version drawn from the clock is new.
LEMMA DrawFresh ==
    ASSUME FreshInv, ClockInv', NEW p \in Goroutines, Draw(p)
    PROVE  FreshInv'
<1>0. TypeOK /\ hlc \in Nat
  BY FreshTypes
<1>1. /\ OthersStay(p) /\ UNCHANGED <<timers, outbox, received>> /\ hlc' = hlc + 1
      /\ procs[p].pc = "stamp" /\ procs'[p].pc = "apply"
      /\ procs'[p].m.stamp.version = Local(hlc + 1)
  BY <1>0, DrawStep
<1> DEFINE version == Local(hlc + 1)
<1>2. version.physical = hlc + 1 /\ version.origin = 1 /\ VersionOf(p)' = version
  BY <1>1, LocalPhysical DEF Local, VersionOf
<1> HIDE DEF version
<1>3. \A t \in timers : t.version # version
  BY <1>0, <1>2, FreshTypes
<1>4. \A m \in outbox : m.stamp.version # version
  BY <1>0, <1>2, FreshTypes
<1>5. \A q \in Goroutines : Carries(q) => VersionOf(q) # version
  BY <1>0, <1>2, FreshTypes
<1>6. Unshared(version, p)
  BY <1>3, <1>4, <1>5 DEF Unshared
<1>7. \A q \in Goroutines : Fresh(q) => VersionOf(q) # version
  BY <1>5 DEF Fresh, Carries
<1>8. Known(VersionOf(p))'
  BY <1>2 DEF Known
<1>9. hlc <= hlc' /\ received \subseteq received'
  BY <1>0, <1>1
<1> QED
  BY <1>1, <1>2, <1>6, <1>7, <1>8, <1>9, NewVersion

\* So is one taken from a peer, which this node has not taken before.
LEMMA PeerFresh ==
    ASSUME FreshInv, ClockInv', PeerMutates
    PROVE  FreshInv'
<1>0. TypeOK
  BY FreshTypes
<1>1. PICK p \in Peers, n \in Nat :
         /\ OthersStay(p) /\ UNCHANGED <<timers, outbox>> /\ hlc <= hlc'
         /\ Remote(n) \notin received /\ received' = received \union {Remote(n)}
         /\ procs[p].pc = "idle" /\ procs'[p].pc = "apply"
         /\ procs'[p].m.stamp.version = Remote(n)
  BY <1>0, PeerMutatesStep
<1> DEFINE version == Remote(n)
<1>2. ~Known(version) /\ Known(version)' /\ VersionOf(p)' = version
  BY <1>1 DEF Remote, Known, VersionOf
<1> HIDE DEF version
<1>3. \A t \in timers : t.version # version
  BY <1>2 DEF FreshInv, VersionsKnown
<1>4. \A m \in outbox : m.stamp.version # version
  BY <1>2 DEF FreshInv, VersionsKnown
<1>5. \A q \in Goroutines : Carries(q) => VersionOf(q) # version
  BY <1>2 DEF FreshInv, VersionsKnown
<1>6. Unshared(version, p)
  BY <1>3, <1>4, <1>5 DEF Unshared
<1>7. \A q \in Goroutines : Fresh(q) => VersionOf(q) # version
  BY <1>5 DEF Fresh, Carries
<1>8. Known(VersionOf(p))'
  BY <1>2 DEF Known
<1>9. received \subseteq received' /\ p \in Goroutines
  BY <1>1, GoroutinesMembers
<1> QED
  BY <1>1, <1>2, <1>6, <1>7, <1>8, <1>9, NewVersion

\* An echo repeats a version, in its grace.
LEMMA EchoFresh ==
    ASSUME FreshInv, ClockInv', NEW p \in Peers, NEW m \in Stored, ApplyEcho(p, m)
    PROVE  FreshInv'
<1>0. TypeOK
  BY FreshTypes
<1>1. /\ OthersStay(p) /\ UNCHANGED <<timers, outbox>> /\ hlc <= hlc'
      /\ received' = received \union {m.stamp.version}
      /\ procs[p].pc = "idle" /\ procs'[p].pc = "apply"
      /\ procs'[p].m.stamp = m.stamp /\ procs'[p].m.remaining = Grace
  BY <1>0, ApplyEchoStep
<1>2. VersionOf(p)' = m.stamp.version
  BY <1>1 DEF VersionOf
<1>3. ASSUME NEW q \in Goroutines, Fresh(q)
      PROVE  VersionOf(q) # m.stamp.version
  <2>1. Unshared(VersionOf(q), q)
    BY <1>3 DEF FreshInv, FreshUnshared
  <2>2. CASE m \in outbox
    BY <2>1, <2>2 DEF Unshared
  <2>3. CASE m \notin outbox
    <3>1. PICK r \in Goroutines : procs[r].pc = "followup" /\ m = procs[r].m
      BY <2>3 DEF Stored
    <3>2. Carries(r) /\ r # q /\ VersionOf(r) = m.stamp.version
      BY <1>3, <3>1 DEF Carries, Fresh, VersionOf
    <3> QED
      BY <2>1, <3>2 DEF Unshared
  <2> QED
    BY <2>2, <2>3
<1>4. ~(procs'[p].m.remaining > Grace)
  BY <1>1, GraceType
<1>5. Known(VersionOf(p))'
  BY <1>1, <1>2 DEF Known
<1>6. received \subseteq received' /\ p \in Goroutines
  BY <1>1, GoroutinesMembers
<1> QED
  BY <1>1, <1>2, <1>3, <1>4, <1>5, <1>6, NewVersion

\* Following up hands the version of one goroutine to timers and gossip.
LEMMA FollowUpFresh ==
    ASSUME FreshInv, ClockInv', NEW p \in Goroutines, FollowUp(p)
    PROVE  FreshInv'
<1>0. TypeOK /\ hlc \in Nat
  BY FreshTypes
<1> DEFINE v == VersionOf(p)
<1>1. /\ OthersStay(p) /\ hlc' = hlc /\ received' = received
      /\ procs[p].pc = "followup" /\ procs'[p].pc = "idle"
      /\ timers' = timers \union TimersFor(procs[p].record)
      /\ outbox' = outbox \union {procs[p].m}
      /\ procs[p].record \in Entries /\ procs[p].record.stamp = procs[p].m.stamp
  BY <1>0, FollowUpStep
<1>2. Carries(p)
  BY <1>1 DEF Carries
<1>3. \A t \in timers' : t \in timers \/ t.version = v
  BY <1>1, TimersOf DEF VersionOf
<1>4. \A m \in outbox' : m \in outbox \/ m.stamp.version = v
  BY <1>1 DEF VersionOf
<1>5. \A q \in Goroutines : Carries(q)' => Carries(q) /\ q # p /\ VersionOf(q)' = VersionOf(q)
  BY <1>1 DEF OthersStay, Carries, VersionOf
<1>6. \A q \in Goroutines : Fresh(q)' => Fresh(q) /\ q # p /\ VersionOf(q)' = VersionOf(q)
  BY <1>1 DEF OthersStay, Fresh, VersionOf
<1>7. v.physical <= hlc /\ Known(v)
  BY <1>2, FreshTypes DEF FreshInv, VersionsKnown
<1> HIDE DEF v
<1>8. TimersBehind'
  BY <1>1, <1>3, <1>7 DEF FreshInv, TimersBehind
<1>9. \A version : Known(version)' <=> Known(version)
  BY <1>1 DEF Known
<1>10. VersionsKnown'
  BY <1>3, <1>4, <1>5, <1>7, <1>9 DEF FreshInv, VersionsKnown
<1>11. ASSUME NEW q \in Goroutines, Fresh(q)'
       PROVE  Unshared(VersionOf(q), q)'
  <2>1. Fresh(q) /\ q # p /\ VersionOf(q)' = VersionOf(q) /\ Unshared(VersionOf(q), q)
    BY <1>6, <1>11 DEF FreshInv, FreshUnshared
  <2>2. VersionOf(q) # v
    BY <1>2, <2>1 DEF Unshared, v
  <2> QED
    BY <1>3, <1>4, <1>5, <2>1, <2>2 DEF Unshared
<1> QED
  BY <1>8, <1>10, <1>11 DEF FreshInv, FreshUnshared

\* Every step keeps the versions apart.
LEMMA NextFresh ==
    ASSUME FreshInv, [Next]_vars
    PROVE  FreshInv'
<1>0. TypeOK /\ ClockInv' /\ hlc \in Nat /\ hlc <= hlc
  BY FreshTypes, NextClock
<1>1. ASSUME hlc' = hlc, timers' = timers, outbox' = outbox, procs' = procs,
             received \subseteq received'
      PROVE  FreshInv'
  <2>1. OthersStay("wheel") /\ procs'["wheel"] = procs["wheel"] /\ "wheel" \in Goroutines
        /\ hlc <= hlc' /\ timers' \subseteq timers
    BY <1>0, <1>1, GoroutinesMembers DEF OthersStay
  <2> QED
    BY <1>0, <1>1, <2>1, NoNewVersion
<1>2. CASE UNCHANGED vars
  BY <1>1, <1>2 DEF vars
<1>3. CASE Tick
  BY <1>1, <1>3 DEF Tick, registry, history
<1>4. CASE \E task \in timers : MarkDelayed(task)
  <2>1. PICK task \in timers : MarkDelayed(task)
    BY <1>4
  <2>2. /\ OthersStay("wheel") /\ UNCHANGED <<hlc, outbox, received>>
        /\ timers' \subseteq timers /\ procs'["wheel"].pc \in {"idle", "announce"}
    BY <1>0, <2>1, MarkDelayedStep
  <2>3. hlc <= hlc' /\ received \subseteq received' /\ "wheel" \in Goroutines
        /\ procs'["wheel"].pc \notin {"apply", "followup"}
    BY <1>0, <2>2, GoroutinesMembers
  <2> QED
    BY <1>0, <2>2, <2>3, NoNewVersion
<1>5. CASE \E task \in timers : ExpireLease(task)
  <2>1. PICK task \in timers : ExpireLease(task)
    BY <1>5
  <2>2. /\ OthersStay("wheel") /\ UNCHANGED <<hlc, outbox, received>>
        /\ timers' \subseteq timers /\ procs'["wheel"].pc \in {"idle", "stamp"}
    BY <1>0, <2>1, ExpireLeaseStep
  <2>3. hlc <= hlc' /\ received \subseteq received' /\ "wheel" \in Goroutines
        /\ procs'["wheel"].pc \notin {"apply", "followup"}
    BY <1>0, <2>2, GoroutinesMembers
  <2> QED
    BY <1>0, <2>2, <2>3, NoNewVersion
<1>6. CASE Collect
  <2>1. /\ OthersStay("maintenance") /\ UNCHANGED <<hlc, timers, outbox, received>>
        /\ procs'["maintenance"].pc = "announce"
    BY <1>0, <1>6, CollectStep
  <2>2. hlc <= hlc' /\ received \subseteq received' /\ "maintenance" \in Goroutines
        /\ timers' \subseteq timers /\ procs'["maintenance"].pc \notin {"apply", "followup"}
    BY <1>0, <2>1, GoroutinesMembers
  <2> QED
    BY <1>0, <2>1, <2>2, NoNewVersion
<1>7. CASE PeerMutates
  BY <1>0, <1>7, PeerFresh
<1>8. CASE \E p \in Peers, m \in Stored : ApplyEcho(p, m)
  BY <1>0, <1>8, EchoFresh
<1>9. CASE PeerFences
  <2>1. UNCHANGED <<hlc, timers, procs, outbox>> /\ received \subseteq received'
    BY <1>0, <1>9, PeerFencesStep
  <2> QED
    BY <1>1, <2>1
<1>10. CASE \E p \in Threads : Requests(p)
  <2>1. PICK p \in Threads : Requests(p)
    BY <1>10
  <2>2. /\ OthersStay(p) /\ UNCHANGED <<hlc, timers, outbox, received>>
        /\ procs'[p].pc \in {"idle", "stamp"}
    BY <1>0, <2>1, RequestsStep
  <2>3. hlc <= hlc' /\ received \subseteq received' /\ p \in Goroutines
        /\ timers' \subseteq timers /\ procs'[p].pc \notin {"apply", "followup"}
    BY <1>0, <2>2, GoroutinesMembers
  <2> QED
    BY <1>0, <2>2, <2>3, NoNewVersion
<1>11. CASE \E p \in Goroutines : Draw(p)
  BY <1>0, <1>11, DrawFresh
<1>12. CASE \E p \in Goroutines : Apply(p)
  <2>1. PICK p \in Goroutines : Apply(p)
    BY <1>12
  <2>2. /\ OthersStay(p) /\ UNCHANGED <<hlc, timers, outbox, received>>
        /\ procs[p].pc = "apply"
        /\ \/ procs'[p].pc = "idle"
           \/ procs'[p].pc = "followup" /\ procs'[p].m = procs[p].m
    BY <1>0, <2>1, ApplyStep
  <2>3. hlc <= hlc' /\ received \subseteq received' /\ timers' \subseteq timers
    BY <1>0, <2>2
  <2> QED
    BY <1>0, <2>2, <2>3, NoNewVersion
<1>13. CASE \E p \in Goroutines : FollowUp(p)
  BY <1>0, <1>13, FollowUpFresh
<1>14. CASE \E p \in Goroutines : Announce(p)
  <2>1. PICK p \in Goroutines : Announce(p)
    BY <1>14
  <2>2. /\ OthersStay(p) /\ UNCHANGED <<hlc, timers, outbox, received>>
        /\ procs'[p].pc = "idle"
    BY <1>0, <2>1, AnnounceStep
  <2>3. hlc <= hlc' /\ received \subseteq received' /\ timers' \subseteq timers
        /\ procs'[p].pc \notin {"apply", "followup"}
    BY <1>0, <2>2
  <2> QED
    BY <1>0, <2>2, <2>3, NoNewVersion
<1> QED
  BY <1>2, <1>3, <1>4, <1>5, <1>6, <1>7, <1>8, <1>9, <1>10, <1>11, <1>12, <1>13, <1>14
  DEF Next, Steps, Fire

-----------------------------------------------------------------------------
\* Time does not run backwards.
LEMMA NowMoves ==
    ASSUME TypeOK, [Next]_vars
    PROVE  now \in Nat /\ now' \in Nat /\ now <= now'
<1>1. now \in Nat
  BY ServiceAssumption DEF TypeOK
<1>2. now' = now \/ now' = now + 1
  <2>1. CASE UNCHANGED vars
    BY <2>1 DEF vars
  <2>2. CASE Tick
    BY <2>2 DEF Tick
  <2>3. CASE Fire
    BY <2>3, MarkDelayedStep, ExpireLeaseStep DEF Fire
  <2>4. CASE Collect
    BY <2>4, CollectStep
  <2>5. CASE PeerMutates
    BY <2>5, PeerMutatesStep
  <2>6. CASE \E p \in Peers, m \in Stored : ApplyEcho(p, m)
    BY <2>6, ApplyEchoStep
  <2>7. CASE PeerFences
    BY <2>7, PeerFencesStep
  <2>8. CASE \E p \in Threads : Requests(p)
    BY <2>8, RequestsStep
  <2>9. CASE \E p \in Goroutines : Steps(p)
    BY <2>9, DrawStep, ApplyStep, FollowUpStep, AnnounceStep DEF Steps
  <2> QED
    BY <2>1, <2>2, <2>3, <2>4, <2>5, <2>6, <2>7, <2>8, <2>9 DEF Next
<1> QED
  BY <1>1, <1>2

\* A quiet step takes no deadline away.
LEMMA QuietCovered ==
    ASSUME DelayInv, now \in Nat, now' \in Nat, now <= now',
           NEW p \in Goroutines, Quiet(p), timers' \subseteq timers
    PROVE  Covered'
<1> SUFFICES ASSUME entry' # None
             PROVE  /\ \A t \in timers' : t.version = entry'.stamp.version =>
                          entry'.deadline <= t.deadline + Grace \/ InGrace'
                    /\ \A r \in Goroutines :
                          /\ procs'[r].pc = "followup"
                          /\ procs'[r].record.stamp.version = entry'.stamp.version
                          => entry'.deadline <= procs'[r].record.deadline \/ InGrace'
  BY DEF Covered
<1>1. /\ entry \in Entries /\ entry # None /\ entry'.stamp = entry.stamp
      /\ entry'.deadline = entry.deadline /\ entry.deadline \in Nat
  BY EntryParts DEF Quiet, SameRecord
<1>2. InGrace => InGrace'
  BY <1>1, GraceType DEF InGrace
<1>3. \A r \in Goroutines :
         procs'[r].pc = "followup" => procs[r].pc = "followup" /\ procs'[r] = procs[r]
  BY DEF Quiet, OthersStay
<1>4. ASSUME NEW t \in timers', t.version = entry'.stamp.version
      PROVE  entry'.deadline <= t.deadline + Grace \/ InGrace'
  BY <1>1, <1>2, <1>4 DEF DelayInv, Covered
<1>5. ASSUME NEW r \in Goroutines, procs'[r].pc = "followup",
             procs'[r].record.stamp.version = entry'.stamp.version
      PROVE  entry'.deadline <= procs'[r].record.deadline \/ InGrace'
  BY <1>1, <1>2, <1>3, <1>5 DEF DelayInv, Covered
<1> QED
  BY <1>4, <1>5

\* A record stays late when time goes on.
LEMMA StillLate ==
    ASSUME DelayedIsLate, now \in Nat, now' \in Nat, now <= now',
           NEW p \in Goroutines, Quiet(p), StatusStays
    PROVE  DelayedIsLate'
<1> SUFFICES ASSUME entry' # None, entry'.status = "DELAYED", entry'.deadline # 0
             PROVE  now' >= entry'.deadline - (LeaseTTL - DelayedAfter)
  BY DEF DelayedIsLate
<1>1. /\ entry # None /\ entry.status = "DELAYED" /\ entry.deadline # 0
      /\ entry'.deadline = entry.deadline /\ entry.deadline \in Nat
  BY EntryParts DEF Quiet, SameRecord, StatusStays
<1>2. now >= entry.deadline - (LeaseTTL - DelayedAfter)
  BY <1>1 DEF DelayedIsLate
<1> QED
  BY <1>1, <1>2, GraceType DEF Grace

-----------------------------------------------------------------------------
\* A record is marked by a timer of its own version, in its grace.
LEMMA MarkDelayedLate ==
    ASSUME DelayInv, TypeOK, NEW task, MarkDelayed(task)
    PROVE  DelayedIsLate'
<1>1. /\ task \in timers /\ task.deadline <= now /\ now' = now
      /\ \/ entry' = entry
         \/ /\ entry \in Entries /\ entry.stamp.version = task.version
            /\ entry'.deadline = entry.deadline
  BY MarkDelayedStep
<1>2. CASE entry' = entry
  BY <1>1, <1>2 DEF DelayInv, DelayedIsLate
<1>3. CASE /\ entry \in Entries /\ entry.stamp.version = task.version
           /\ entry'.deadline = entry.deadline
  <2>1. /\ entry # None /\ entry.deadline \in Nat /\ task.deadline \in Int /\ now \in Nat
    BY <1>1, <1>3, EntryParts, ServiceAssumption DEF TypeOK, Tasks
  <2>2. entry.deadline <= task.deadline + Grace \/ InGrace
    BY <1>1, <1>3, <2>1 DEF DelayInv, Covered
  <2>3. entry.deadline <= now + Grace
    BY <1>1, <2>1, <2>2, GraceType DEF InGrace
  <2>4. now' >= entry'.deadline - (LeaseTTL - DelayedAfter)
    BY <1>1, <1>3, <2>1, <2>3, GraceType DEF Grace
  <2> QED
    BY <2>4 DEF DelayedIsLate
<1> QED
  BY <1>1, <1>2, <1>3

\* The record just stored is fresh, or in its grace.
LEMMA AppliedCovered ==
    ASSUME DelayInv, TypeOK, NEW p \in Goroutines, Applied(p)
    PROVE  Covered' /\ DelayedIsLate'
<1> DEFINE m == procs[p].m
<1>1. /\ OthersStay(p) /\ procs[p].pc = "apply" /\ procs'[p].pc = "followup"
      /\ procs'[p].record = entry' /\ timers' = timers /\ now' = now
      /\ m \in Mutations /\ entry' = EntryAfter(entry, fence, m, now)
  BY ApplyStep DEF Applied
<1>2. now \in Nat /\ entry \in Entries \union {None}
  BY ServiceAssumption DEF TypeOK
<1>3. /\ entry' \in Entries /\ entry'.stamp = m.stamp /\ entry'.status = StatusOf(m.stamp.kind)
      /\ entry'.deadline = Deadline(m, now)
  BY <1>1, <1>2, AppliedEntry DEF Applied
<1>4. entry'.status # "DELAYED"
  BY <1>3 DEF StatusOf
<1>5. /\ entry'.deadline \in Nat /\ entry'.deadline <= now + m.remaining
      /\ m.remaining \in Nat
  BY <1>1, <1>2, <1>3, DeadlineType, MutationParts
<1>6. CASE m.remaining <= Grace
  <2>1. InGrace'
    BY <1>1, <1>2, <1>5, <1>6, GraceType DEF InGrace
  <2> QED
    BY <1>4, <2>1 DEF Covered, DelayedIsLate
<1>7. CASE m.remaining > Grace
  <2>1. Unshared(VersionOf(p), p) /\ VersionOf(p) = m.stamp.version
    BY <1>1, <1>7 DEF DelayInv, FreshInv, FreshUnshared, Fresh, VersionOf
  <2>2. \A t \in timers' : t.version # entry'.stamp.version
    BY <1>1, <1>3, <2>1 DEF Unshared
  <2>3. ASSUME NEW q \in Goroutines, procs'[q].pc = "followup",
               procs'[q].record.stamp.version = entry'.stamp.version
        PROVE  entry'.deadline <= procs'[q].record.deadline
    <3>1. CASE q = p
      BY <1>1, <1>5, <3>1
    <3>2. CASE q # p
      <4>1. procs'[q] = procs[q]
        BY <1>1, <3>2 DEF OthersStay
      <4>2. procs[q].record.stamp = procs[q].m.stamp
        BY <2>3, <4>1, ProcType
      <4>3. VersionOf(q) # m.stamp.version
        BY <2>1, <2>3, <3>2, <4>1 DEF Unshared, Carries
      <4> QED
        BY <1>3, <2>3, <4>1, <4>2, <4>3 DEF VersionOf
    <3> QED
      BY <3>1, <3>2
  <2> QED
    BY <1>4, <2>2, <2>3 DEF Covered, DelayedIsLate
<1> QED
  BY <1>5, <1>6, <1>7, GraceType

\* A timer is as late as the record it is scheduled for.
LEMMA FollowUpCovered ==
    ASSUME DelayInv, TypeOK, NEW p \in Goroutines, FollowUp(p)
    PROVE  Covered' /\ DelayedIsLate'
<1> DEFINE r == procs[p].record
<1>1. /\ OthersStay(p) /\ entry' = entry /\ now' = now /\ timers' = timers \union TimersFor(r)
      /\ procs[p].pc = "followup" /\ procs'[p].pc = "idle" /\ r \in Entries
  BY FollowUpStep
<1>2. DelayedIsLate'
  BY <1>1 DEF DelayInv, DelayedIsLate
<1> SUFFICES ASSUME entry # None
             PROVE  Covered'
  BY <1>1, <1>2 DEF Covered
<1>3. InGrace' <=> InGrace
  BY <1>1 DEF InGrace
<1>4. ASSUME NEW t \in timers', t.version = entry.stamp.version
      PROVE  entry.deadline <= t.deadline + Grace \/ InGrace
  <2>1. CASE t \in timers
    BY <1>4, <2>1 DEF DelayInv, Covered
  <2>2. CASE t \in TimersFor(r)
    <3>1. t.version = r.stamp.version /\ t.deadline >= r.deadline - Grace /\ t.deadline \in Int
      BY <1>1, <2>2, TimersOf DEF Tasks
    <3>2. entry.deadline <= r.deadline \/ InGrace
      BY <1>1, <1>4, <3>1 DEF DelayInv, Covered
    <3>3. entry.deadline \in Nat /\ r.deadline \in Nat
      BY <1>1, EntryParts DEF TypeOK
    <3> QED
      BY <3>1, <3>2, <3>3, GraceType
  <2> QED
    BY <1>1, <2>1, <2>2
<1>5. ASSUME NEW q \in Goroutines, procs'[q].pc = "followup",
             procs'[q].record.stamp.version = entry.stamp.version
      PROVE  entry.deadline <= procs'[q].record.deadline \/ InGrace
  <2>1. procs'[q] = procs[q]
    BY <1>1, <1>5 DEF OthersStay
  <2> QED
    BY <1>5, <2>1 DEF DelayInv, Covered
<1> QED
  BY <1>1, <1>3, <1>4, <1>5 DEF Covered

\* Every step keeps the deadlines apart.
LEMMA NextDelay ==
    ASSUME DelayInv, [Next]_vars
    PROVE  DelayInv'
<1>1. FreshInv' /\ TypeOK /\ "wheel" \in Goroutines
  BY NextFresh, FreshTypes, GoroutinesMembers DEF DelayInv
<1>2. now \in Nat /\ now' \in Nat /\ now <= now'
  BY <1>1, NowMoves
<1>3. ASSUME NEW p \in Goroutines, Quiet(p), timers' \subseteq timers
      PROVE  Covered'
  BY <1>2, <1>3, QuietCovered
<1>4. ASSUME NEW p \in Goroutines, Quiet(p), StatusStays
      PROVE  DelayedIsLate'
  BY <1>2, <1>4, StillLate DEF DelayInv
<1>5. ASSUME NEW p \in Goroutines, Quiet(p), WheelRests
      PROVE  Covered' /\ DelayedIsLate'
  BY <1>3, <1>4, <1>5 DEF WheelRests
<1>6. ASSUME NEW task, MarkDelayed(task)
      PROVE  Covered' /\ DelayedIsLate'
  <2>1. Quiet("wheel") /\ timers' \subseteq timers
    BY <1>1, <1>6, WheelQuiet, MarkDelayedStep
  <2> QED
    BY <1>1, <1>3, <1>6, <2>1, MarkDelayedLate
<1>7. ASSUME NEW task, ExpireLease(task)
      PROVE  Covered' /\ DelayedIsLate'
  <2>1. Quiet("wheel") /\ timers' \subseteq timers /\ StatusStays
    BY <1>1, <1>7, WheelQuiet, ExpireLeaseStep DEF StatusStays
  <2> QED
    BY <1>1, <1>3, <1>4, <2>1
<1>8. ASSUME Draw("wheel") \/ Refused("wheel")
      PROVE  Covered' /\ DelayedIsLate'
  <2>1. Quiet("wheel")
    BY <1>1, <1>8, WheelQuiet
  <2>2. timers' \subseteq timers /\ StatusStays
    BY <1>1, <1>8, DrawStep, ApplyStep, RefusedStatus DEF Refused, StatusStays
  <2> QED
    BY <1>1, <1>3, <1>4, <2>1, <2>2
<1>9. Covered' /\ DelayedIsLate'
  BY <1>1, <1>5, <1>6, <1>7, <1>8, StepCases, AppliedCovered, FollowUpCovered
<1> QED
  BY <1>1, <1>9 DEF DelayInv

\* There are no deadlines at first.
LEMMA InitDelay == Init => DelayInv
<1> SUFFICES ASSUME Init
             PROVE  DelayInv
  OBVIOUS
<1>1. ClockInv
  BY InitClock
<1>2. /\ timers = {} /\ outbox = {} /\ entry = None
      /\ \A p \in Goroutines : procs[p].pc = "idle"
  BY DEF Init, Idle
<1>3. TimersBehind /\ VersionsKnown /\ FreshUnshared
  BY <1>2 DEF TimersBehind, VersionsKnown, FreshUnshared, Carries, Fresh
<1> QED
  BY <1>1, <1>2, <1>3 DEF DelayInv, FreshInv, Covered, DelayedIsLate

\* An instance is shown as DELAYED only when its deadline is within the grace:
\* handleMarkDelayed compares the version of its task with the record's and
\* not the deadline, and an echo of the same version sets another deadline,
\* which is never later than the grace that is left.
THEOREM DelayedOnlyWhenLate == Spec => []DelayedIsLate
<1>1. DelayInv => DelayedIsLate
  BY DEF DelayInv
<1> QED
  BY <1>1, InitDelay, NextDelay, PTL DEF Spec

-----------------------------------------------------------------------------
(* Deregistration.  What is compared is the top stamp, the entry's or else  *)
(* the fence's: it ends a lease if it is of a later lease or terminates     *)
(* this one.  It only climbs, and a DELETE is answered when it ends the     *)
(* lease.  The invariant carries this back to the request's first step,     *)
(* and through the window of operation IDs, by which a repeated DELETE is   *)
(* recognised.                                                              *)

\* Operation IDs that clients give to a DELETE and to no heartbeat.
DeleteOps == DeregisterOps \ HeartbeatOps

\* The lease of this epoch has ended, or a later one has begun.
Ends(s, epoch) ==
    \/ VersionLess(epoch, s.epoch)
    \/ s.epoch = epoch /\ ExplicitlyTerminal(s.kind)

Reaches(s, epoch) == ~VersionLess(s.epoch, epoch)

Ended(top, epoch) == top # None /\ Ends(top, epoch)
Reached(top, epoch) == top # None /\ Reaches(top, epoch)

\* Whatever s has reached or ended, t has.
Climbs(s, t) ==
    \A epoch \in Version : /\ Ended(s, epoch) => Ended(t, epoch)
                           /\ Reached(s, epoch) => Reached(t, epoch)

\* A tombstone has left its fence.
FenceKept(e, f) == e # None /\ e.stamp.kind \in EvictingKinds => f = e.stamp

\* The window knows a DELETE only of a lease that has ended.
WindowEnds(e) ==
    e # None =>
        \A op \in DeleteOps : Seen(e.ops, op) => ExplicitlyTerminal(e.stamp.kind)

\* An operation ID of a DELETE comes with a termination.
OpFits(m) == m.op \in DeleteOps => ExplicitlyTerminal(m.stamp.kind)

\* The client has been told that its lease is gone, and not because its
\* operation ID is also that of a heartbeat.
Binding(answer) ==
    /\ answer # None /\ answer.kind \in TerminalKinds
    /\ answer.outcome = "DUPLICATE" => answer.op \notin HeartbeatOps

\* What goroutine p, in state q, owes to the client when top is the top stamp.
Owes(p, q, top) ==
    /\ q.pc \in {"stamp", "apply"} => OpFits(q.m)
    /\ p \in Threads /\ q.pc \in {"stamp", "apply"} /\ ExplicitlyTerminal(q.m.stamp.kind)
          => q.m.op \in DeregisterOps /\ Reached(top, q.m.lease.epoch)
    /\ p \in Threads /\ q.pc = "followup" /\ ExplicitlyTerminal(q.m.stamp.kind)
          => Ended(top, q.m.lease.epoch)
    /\ Binding(q.answer) => Ended(top, q.answer.lease.epoch)

\* The inductive invariant.
StickInv ==
    /\ TypeOK
    /\ FenceKept(entry, fence) /\ WindowEnds(entry)
    /\ \A p \in Goroutines : Owes(p, procs[p], TopOf(entry, fence))

-----------------------------------------------------------------------------
\* Stamps in the order of two epochs.
LEMMA EpochOrder ==
    ASSUME NEW s \in Stamp, NEW t \in Stamp,
           VersionLess(s.epoch, t.epoch)
              \/ (s.epoch = t.epoch
                    /\ (ExplicitlyTerminal(s.kind) => ExplicitlyTerminal(t.kind)))
    PROVE  Climbs(s, t)
<1>1. s.epoch \in Version /\ t.epoch \in Version
  BY DEF Stamp
<1>2. ASSUME NEW epoch \in Version
      PROVE  /\ VersionLess(epoch, s.epoch) /\ VersionLess(s.epoch, t.epoch)
                  => VersionLess(epoch, t.epoch)
             /\ VersionLess(s.epoch, t.epoch) /\ VersionLess(t.epoch, epoch)
                  => VersionLess(s.epoch, epoch)
  BY <1>1, VersionOrder
<1>3. t # None
  BY NoneAssumption
<1>4. ASSUME NEW epoch \in Version
      PROVE  /\ Ends(s, epoch) => Ends(t, epoch)
             /\ Reaches(s, epoch) => Reaches(t, epoch)
  BY <1>2 DEF Ends, Reaches
<1> QED
  BY <1>3, <1>4 DEF Climbs, Ended, Reached

\* A stamp that outranks another has ended all that the other has.
LEMMA OutrankingClimbs ==
    ASSUME NEW s \in Stamp, NEW t \in Stamp, Outranks(t, s) \/ t = s
    PROVE  Climbs(s, t)
<1>1. VersionLess(s.epoch, t.epoch)
        \/ (s.epoch = t.epoch /\ (ExplicitlyTerminal(s.kind) => ExplicitlyTerminal(t.kind)))
  BY DEF Outranks
<1> QED
  BY <1>1, EpochOrder

\* So has a stamp that is not outranked by it.
LEMMA NotOutrankedClimbs ==
    ASSUME NEW s \in Stamp, NEW t \in Stamp, ~Outranks(s, t)
    PROVE  Climbs(s, t)
<1>1. s.epoch \in Version /\ t.epoch \in Version
  BY DEF Stamp
<1>2. VersionLess(s.epoch, t.epoch)
        \/ (s.epoch = t.epoch /\ (ExplicitlyTerminal(s.kind) => ExplicitlyTerminal(t.kind)))
  BY <1>1, VersionTotal DEF Outranks
<1> QED
  BY <1>2, EpochOrder

\* Climbing goes on.
LEMMA ClimbsTransitively ==
    ASSUME NEW r, NEW s, NEW t, Climbs(r, s), Climbs(s, t)
    PROVE  Climbs(r, t)
  BY DEF Climbs

\* From nothing, or from itself, everything climbs.
LEMMA ClimbsItself == \A t : Climbs(None, t) /\ Climbs(t, t)
  BY DEF Climbs, Ended, Reached

-----------------------------------------------------------------------------
(* Merging.                                                                 *)

\* What the registry ends is not taken back by an applied mutation, which
\* becomes the top stamp.
LEMMA AppliedTop ==
    ASSUME NEW e \in Entries \union {None}, NEW f \in Stamp \union {None},
           NEW m \in Mutations, NEW t \in Nat,
           Outcome(e, f, m) = "APPLIED"
    PROVE  /\ TopOf(EntryAfter(e, f, m, t), FenceAfter(e, f, m)) = m.stamp
           /\ Climbs(TopOf(e, f), m.stamp)
           /\ FenceKept(EntryAfter(e, f, m, t), FenceAfter(e, f, m))
<1>1. EntryAfter(e, f, m, t) \in Entries /\ EntryAfter(e, f, m, t).stamp = m.stamp
  BY AppliedEntry
<1>2. EntryAfter(e, f, m, t) # None
  BY <1>1, EntryParts
<1>3. m.stamp \in Stamp
  BY MutationParts
<1>4. Climbs(TopOf(e, f), m.stamp)
  <2>1. CASE e = None /\ f = None
    BY <2>1, ClimbsItself DEF TopOf
  <2>2. CASE e = None /\ f # None
    <3>1. Outranks(m.stamp, f) /\ f \in Stamp
      BY <2>2 DEF Outcome, incomingBeatsFence
    <3> QED
      BY <1>3, <2>2, <3>1, OutrankingClimbs DEF TopOf
  <2>3. CASE e # None
    <3>1. Outranks(m.stamp, e.stamp) \/ m.stamp = e.stamp
      BY <2>3 DEF Outcome, IncomingWins
    <3>2. e.stamp \in Stamp
      BY <2>3, EntryParts
    <3> QED
      BY <1>3, <2>3, <3>1, <3>2, OutrankingClimbs DEF TopOf
  <2> QED
    BY <2>1, <2>2, <2>3
<1>5. FenceKept(EntryAfter(e, f, m, t), FenceAfter(e, f, m))
  BY <1>1 DEF FenceKept, FenceAfter
<1> QED
  BY <1>1, <1>2, <1>4, <1>5 DEF TopOf

\* A mutation that is not applied leaves the stamps as they were.
LEMMA RefusedTop ==
    ASSUME NEW e \in Entries \union {None}, NEW f, NEW m \in Mutations, NEW t \in Nat,
           Outcome(e, f, m) # "APPLIED", FenceKept(e, f)
    PROVE  /\ TopOf(EntryAfter(e, f, m, t), FenceAfter(e, f, m)) = TopOf(e, f)
           /\ FenceKept(EntryAfter(e, f, m, t), FenceAfter(e, f, m))
<1>1. FenceAfter(e, f, m) = f
  BY DEF FenceAfter
<1>2. CASE Outcome(e, f, m) = "DUPLICATE"
  <2>1. /\ e \in Entries /\ EntryAfter(e, f, m, t) \in Entries
        /\ EntryAfter(e, f, m, t).stamp = e.stamp
    BY <1>2, DuplicateEntry
  <2>2. e # None /\ EntryAfter(e, f, m, t) # None
    BY <2>1, EntryParts
  <2> QED
    BY <1>1, <2>1, <2>2 DEF TopOf, FenceKept
<1>3. CASE Outcome(e, f, m) = "STALE"
  BY <1>1, <1>3, StaleEntry
<1> QED
  BY <1>2, <1>3, OutcomeType

\* The window of the entry after a mutation.
LEMMA WindowStaysEnded ==
    ASSUME NEW e \in Entries \union {None}, NEW f \in Stamp \union {None},
           NEW m \in Mutations, NEW t \in Nat, WindowEnds(e), OpFits(m)
    PROVE  WindowEnds(EntryAfter(e, f, m, t))
<1> DEFINE n == EntryAfter(e, f, m, t)
<1>0. m.op \in Op /\ m.stamp.eventID \in Nat
  BY MutationParts
<1>1. CASE Outcome(e, f, m) = "APPLIED"
  <2> DEFINE kept == KeptOps(e, m)
  <2>1. /\ n.stamp = m.stamp /\ n.ops = rememberOperation(kept, m.op, m.stamp.eventID)
        /\ kept \in Seq(WindowItem) /\ Len(kept) <= Window
    BY <1>1, AppliedEntry
  <2>2. ASSUME NEW op \in DeleteOps, Seen(kept, op)
        PROVE  ExplicitlyTerminal(m.stamp.kind)
    <3>1. kept = e.ops /\ e # None /\ ~VersionLess(e.stamp.epoch, m.stamp.epoch)
      BY <2>2 DEF KeptOps, Seen, operationEvent
    <3>2. ExplicitlyTerminal(e.stamp.kind)
      BY <2>2, <3>1 DEF WindowEnds
    <3>3. Outranks(m.stamp, e.stamp) \/ m.stamp = e.stamp
      BY <1>1, <3>1 DEF Outcome, IncomingWins
    <3> QED
      BY <3>1, <3>2, <3>3 DEF Outranks
  <2> HIDE DEF n, kept
  <2>3. \A op : Seen(n.ops, op) => Seen(kept, op) \/ op = m.op
    BY <1>0, <2>1, WindowType
  <2>4. ASSUME NEW op \in DeleteOps, Seen(n.ops, op)
        PROVE  ExplicitlyTerminal(n.stamp.kind)
    BY <2>1, <2>2, <2>3, <2>4 DEF OpFits
  <2> QED
    BY <2>4 DEF WindowEnds, n
<1>2. CASE Outcome(e, f, m) = "DUPLICATE"
  <2>1. /\ e \in Entries /\ n.stamp = e.stamp
        /\ n.ops = rememberOperation(e.ops, m.op, e.stamp.eventID)
    BY <1>2, DuplicateEntry
  <2>2. e # None /\ e.ops \in Seq(WindowItem) /\ Len(e.ops) <= Window /\ e.stamp.eventID \in Nat
    BY <2>1, EntryParts DEF WindowItem
  <2>3. \A op : Seen(rememberOperation(e.ops, m.op, e.stamp.eventID), op)
                  => Seen(e.ops, op) \/ op = m.op
    BY <1>0, <2>2, WindowType
  <2>4. CASE Seen(e.ops, m.op)
    <3>1. n.ops = e.ops
      BY <2>1, <2>4 DEF rememberOperation
    <3> QED
      BY <2>1, <2>2, <3>1 DEF WindowEnds
  <2>5. CASE ~Seen(e.ops, m.op)
    <3>1. m.stamp = e.stamp
      BY <1>2, <2>2, <2>5 DEF Outcome, IncomingSame
    <3>2. ASSUME NEW op \in DeleteOps, Seen(n.ops, op)
          PROVE  ExplicitlyTerminal(n.stamp.kind)
      BY <2>1, <2>2, <2>3, <3>1, <3>2 DEF WindowEnds, OpFits
    <3> QED
      BY <3>2 DEF WindowEnds
  <2> QED
    BY <2>4, <2>5
<1>3. CASE Outcome(e, f, m) = "STALE"
  BY <1>3, StaleEntry
<1> QED
  BY <1>1, <1>2, <1>3, OutcomeType

\* A termination of a lease the registry has reached is refused only if the
\* lease has ended, or as a duplicate that the window should not know.
LEMMA RefusedEnded ==
    ASSUME NEW e \in Entries \union {None}, NEW f \in Stamp \union {None},
           NEW m \in Mutations, WindowEnds(e),
           m.op \in DeleteOps \/ Outcome(e, f, m) # "DUPLICATE", ExplicitlyTerminal(m.stamp.kind),
           Reached(TopOf(e, f), m.lease.epoch),
           Outcome(e, f, m) # "APPLIED"
    PROVE  Ended(TopOf(e, f), m.lease.epoch)
<1>1. /\ m.stamp \in Stamp /\ m.stamp.epoch \in Version /\ m.lease.epoch = m.stamp.epoch
      /\ m.stamp # None
  BY MutationParts, NoneAssumption
<1>2. CASE e = None
  <2>1. TopOf(e, f) = f /\ f # None /\ f \in Stamp
    BY <1>2 DEF TopOf, Reached
  <2>2. ~Outranks(m.stamp, f)
    BY <1>2 DEF Outcome, incomingBeatsFence
  <2>3. Climbs(m.stamp, f)
    BY <1>1, <2>1, <2>2, NotOutrankedClimbs
  <2>4. Ended(m.stamp, m.stamp.epoch)
    BY <1>1 DEF Ended, Ends
  <2> QED
    BY <1>1, <2>1, <2>3, <2>4 DEF Climbs
<1>3. CASE e # None
  <2>1. /\ TopOf(e, f) = e.stamp /\ e.stamp \in Stamp /\ e.stamp # None
        /\ e.stamp.epoch \in Version
    BY <1>3, EntryParts, NoneAssumption DEF TopOf
  <2>2. CASE VersionLess(m.stamp.epoch, e.stamp.epoch)
    BY <1>1, <2>1, <2>2 DEF Ended, Ends
  <2>3. CASE m.stamp.epoch = e.stamp.epoch /\ ExplicitlyTerminal(e.stamp.kind)
    BY <1>1, <2>1, <2>3 DEF Ended, Ends
  <2>4. CASE m.stamp.epoch = e.stamp.epoch /\ ~ExplicitlyTerminal(e.stamp.kind)
    <3>1. IncomingWins(m, e)
      BY <2>4 DEF IncomingWins, Outranks
    <3>2. (~Seen(e.ops, m.op) /\ ~IncomingSame(m, e)) \/ Outcome(e, f, m) # "DUPLICATE"
      BY <1>3, <2>4 DEF WindowEnds, IncomingSame
    <3> QED
      BY <1>3, <3>1, <3>2 DEF Outcome
  <2>5. ~VersionLess(e.stamp.epoch, m.stamp.epoch)
    BY <1>1, <2>1 DEF Reached, Reaches
  <2> QED
    BY <1>1, <2>1, <2>2, <2>3, <2>4, <2>5, VersionTotal
<1> QED
  BY <1>2, <1>3

\* A fence that replaces an entry ends what the entry had ended.
LEMMA FencedTop ==
    ASSUME NEW e \in Entries \union {None}, NEW f \in Stamp \union {None},
           NEW s \in Stamp, FenceWins(s, e)
    PROVE  Climbs(TopOf(e, f), TopOf(None, IF FenceReplaces(s, f) THEN s ELSE f))
<1> DEFINE new == IF FenceReplaces(s, f) THEN s ELSE f
<1>1. TopOf(None, new) = new
  BY DEF TopOf
<1>2. CASE e = None
  <2>1. TopOf(e, f) = f
    BY <1>2 DEF TopOf
  <2>2. CASE f = None
    BY <1>1, <2>1, <2>2, ClimbsItself
  <2>3. CASE f # None /\ Outranks(s, f)
    BY <1>1, <2>1, <2>3, OutrankingClimbs DEF FenceReplaces
  <2>4. CASE f # None /\ ~Outranks(s, f)
    BY <1>1, <2>1, <2>4, ClimbsItself DEF FenceReplaces
  <2> QED
    BY <2>2, <2>3, <2>4
<1>3. CASE e # None
  <2>1. TopOf(e, f) = e.stamp /\ e.stamp \in Stamp /\ Outranks(s, e.stamp)
    BY <1>3, EntryParts DEF TopOf, FenceWins
  <2>2. Climbs(e.stamp, s)
    BY <2>1, OutrankingClimbs
  <2>3. CASE FenceReplaces(s, f)
    BY <1>1, <2>1, <2>2, <2>3
  <2>4. CASE ~FenceReplaces(s, f)
    <3>1. f \in Stamp /\ ~Outranks(s, f)
      BY <2>4 DEF FenceReplaces
    <3>2. Climbs(s, f)
      BY <3>1, NotOutrankedClimbs
    <3> QED
      BY <1>1, <2>1, <2>2, <2>4, <3>2, ClimbsTransitively
  <2> QED
    BY <2>3, <2>4
<1> QED
  BY <1>2, <1>3

\* What is owed stays so as the top stamp climbs.
LEMMA OwesStays ==
    ASSUME TypeOK, NEW p \in Goroutines, NEW s, NEW t, Climbs(s, t), Owes(p, procs[p], s)
    PROVE  Owes(p, procs[p], t)
<1>1. procs[p].pc \in {"stamp", "apply", "followup"} => procs[p].m.lease.epoch \in Version
  BY ProcType, MutationParts
<1>2. Binding(procs[p].answer) => procs[p].answer.lease.epoch \in Version
  BY ProcType DEF Replies, LeaseID, Binding
<1> QED
  BY <1>1, <1>2 DEF Climbs, Owes

\* A step of one goroutine keeps the invariant if it keeps the registry's
\* part and owes nothing that is not so.
LEMMA OneProcOwes ==
    ASSUME StickInv, TypeOK', FenceKept(entry', fence'),
           WindowEnds(entry'),
           Climbs(TopOf(entry, fence), TopOf(entry', fence')),
           NEW p \in Goroutines, OthersStay(p),
           Owes(p, procs'[p], TopOf(entry', fence'))
    PROVE  StickInv'
<1>1. ASSUME NEW r \in Goroutines
      PROVE  Owes(r, procs'[r], TopOf(entry', fence'))
  <2>1. CASE r = p
    BY <2>1
  <2>2. CASE r # p
    <3>1. procs'[r] = procs[r]
      BY <2>2 DEF OthersStay
    <3>2. Owes(r, procs[r], TopOf(entry', fence'))
      BY OwesStays DEF StickInv
    <3> QED
      BY <3>1, <3>2
  <2> QED
    BY <2>1, <2>2
<1> QED
  BY <1>1 DEF StickInv

\* With the registry as it was.
LEMMA OneProcOnly ==
    ASSUME StickInv, TypeOK', entry' = entry, fence' = fence,
           NEW p \in Goroutines, OthersStay(p),
           Owes(p, procs'[p], TopOf(entry, fence))
    PROVE  StickInv'
<1>1. FenceKept(entry', fence') /\ WindowEnds(entry')
  BY DEF StickInv
<1>2. Climbs(TopOf(entry, fence), TopOf(entry', fence'))
  BY ClimbsItself
<1> QED
  BY <1>1, <1>2, OneProcOwes

\* A goroutine between its steps owes nothing but its last answer.
LEMMA RestingOwes ==
    ASSUME NEW p, NEW q, NEW top, q.pc \notin {"stamp", "apply", "followup"},
           q.answer = None \/ q.answer.kind \notin TerminalKinds
    PROVE  Owes(p, q, top)
  BY DEF Owes, Binding

-----------------------------------------------------------------------------
\* A DELETE is drafted when the record is of its lease.
LEMMA RequestsStick ==
    ASSUME StickInv, TypeOK', NEW p \in Threads, Requests(p)
    PROVE  StickInv'
<1> DEFINE m == procs'[p].m
<1>0. TypeOK /\ p \in Goroutines
  BY GoroutinesMembers DEF StickInv
<1>1. /\ OthersStay(p) /\ UNCHANGED <<entry, fence>>
      /\ \/ /\ procs'[p].pc = "idle"
            /\ procs'[p].answer = None \/ procs'[p].answer.kind = "REGISTER"
         \/ /\ procs'[p].pc = "stamp" /\ procs'[p].answer = None
            /\ m.stamp.kind \in LiveKinds
            /\ m.op \in HeartbeatOps \union {NoOp}
         \/ /\ procs'[p].pc = "stamp" /\ procs'[p].answer = None
            /\ m \in Mutations
            /\ m.stamp.kind \in TerminalKinds
            /\ m.op \in DeregisterOps
            /\ Registered(m.lease)
  BY <1>0, RequestsStep
<1>2. CASE /\ procs'[p].pc = "idle"
           /\ procs'[p].answer = None \/ procs'[p].answer.kind = "REGISTER"
  BY <1>2, RestingOwes, <1>0, <1>1, OneProcOnly DEF TerminalKinds
<1>3. CASE /\ procs'[p].pc = "stamp" /\ procs'[p].answer = None
           /\ m.stamp.kind \in LiveKinds
           /\ m.op \in HeartbeatOps \union {NoOp}
  <2>1. m.op \notin DeleteOps
    BY <1>3, ServiceAssumption DEF DeleteOps
  <2>2. ~ExplicitlyTerminal(m.stamp.kind)
    BY <1>3 DEF ExplicitlyTerminal, LiveKinds, TerminalKinds
  <2>3. Owes(p, procs'[p], TopOf(entry, fence))
    BY <1>3, <2>1, <2>2 DEF Owes, OpFits, Binding
  <2> QED
    BY <1>0, <1>1, <2>3, OneProcOnly
<1>4. CASE /\ procs'[p].pc = "stamp" /\ procs'[p].answer = None
           /\ m \in Mutations
           /\ m.stamp.kind \in TerminalKinds
           /\ m.op \in DeregisterOps
           /\ Registered(m.lease)
  <2>1. /\ entry \in Entries /\ entry.lease = m.lease /\ entry # None
        /\ entry.stamp.epoch = m.lease.epoch /\ entry.stamp.epoch \in Version
        /\ entry.stamp # None
    BY <1>0, <1>4, EntryParts, NoneAssumption DEF Registered, TypeOK
  <2>2. Reached(TopOf(entry, fence), m.lease.epoch)
    BY <2>1, VersionOrder DEF Reached, Reaches, TopOf
  <2>3. ExplicitlyTerminal(m.stamp.kind)
    BY <1>4 DEF ExplicitlyTerminal
  <2>4. Owes(p, procs'[p], TopOf(entry, fence))
    BY <1>4, <2>2, <2>3 DEF Owes, OpFits, Binding
  <2> QED
    BY <1>0, <1>1, <2>4, OneProcOnly
<1> QED
  BY <1>1, <1>2, <1>3, <1>4

\* The draft of a termination keeps its lease and its operation.
LEMMA DrawSticks ==
    ASSUME StickInv, TypeOK', NEW p \in Goroutines, Draw(p)
    PROVE  StickInv'
<1>0. TypeOK
  BY DEF StickInv
<1>1. /\ OthersStay(p) /\ UNCHANGED <<entry, fence>>
      /\ procs[p].pc = "stamp" /\ procs'[p].pc = "apply"
      /\ procs'[p].answer = procs[p].answer
      /\ procs'[p].m.stamp.kind = procs[p].m.stamp.kind
      /\ procs'[p].m.op = procs[p].m.op
      /\ procs'[p].m.lease = IF procs[p].m.stamp.kind = "REGISTER"
                             THEN Lease(Local(hlc + 1), procs[p].m.lease.reg)
                             ELSE procs[p].m.lease
  BY <1>0, DrawStep
<1>2. ExplicitlyTerminal(procs[p].m.stamp.kind) => procs'[p].m.lease = procs[p].m.lease
  BY <1>1 DEF ExplicitlyTerminal, TerminalKinds
<1>3. Owes(p, procs[p], TopOf(entry, fence))
  BY DEF StickInv
<1>4. Owes(p, procs'[p], TopOf(entry, fence))
  BY <1>1, <1>2, <1>3 DEF Owes, OpFits
<1> QED
  BY <1>0, <1>1, <1>4, OneProcOnly

\* An applied termination ends its lease, a refused one finds it ended.
LEMMA ApplySticks ==
    ASSUME StickInv, TypeOK', NEW p \in Goroutines, Apply(p)
    PROVE  StickInv'
<1> DEFINE m == procs[p].m
<1> DEFINE top == TopOf(entry', fence')
<1>0. /\ TypeOK /\ now \in Nat /\ entry \in Entries \union {None}
      /\ fence \in Stamp \union {None}
  BY ServiceAssumption DEF StickInv, TypeOK
<1>1. /\ OthersStay(p) /\ procs[p].pc = "apply" /\ m \in Mutations
      /\ entry' = EntryAfter(entry, fence, m, now)
      /\ fence' = FenceAfter(entry, fence, m)
      /\ Outcome(entry, fence, m) = "APPLIED" =>
            /\ procs'[p].pc = "followup" /\ procs'[p].answer = procs[p].answer
            /\ procs'[p].m = m
      /\ Outcome(entry, fence, m) # "APPLIED" =>
            /\ procs'[p].pc = "idle"
            /\ procs'[p].answer # None =>
                  /\ p \in Threads
                  /\ procs'[p].answer.kind = m.stamp.kind
                  /\ procs'[p].answer.lease = m.lease
                  /\ procs'[p].answer.op = m.op
                  /\ procs'[p].answer.outcome = Outcome(entry, fence, m)
  BY <1>0, ApplyStep
<1>2. /\ FenceKept(entry, fence) /\ WindowEnds(entry)
      /\ Owes(p, procs[p], TopOf(entry, fence))
  BY DEF StickInv
<1>3. OpFits(m)
  BY <1>1, <1>2 DEF Owes
<1>4. WindowEnds(entry')
  BY <1>0, <1>1, <1>2, <1>3, WindowStaysEnded
<1>5. CASE Outcome(entry, fence, m) = "APPLIED"
  <2>1. /\ top = m.stamp /\ Climbs(TopOf(entry, fence), m.stamp)
        /\ FenceKept(entry', fence')
    BY <1>0, <1>1, <1>5, AppliedTop
  <2>2. ExplicitlyTerminal(m.stamp.kind) => Ended(m.stamp, m.lease.epoch)
    BY <1>1, MutationParts, NoneAssumption DEF Ended, Ends
  <2>3. Binding(procs[p].answer) => Ended(m.stamp, procs[p].answer.lease.epoch)
    <3>1. Owes(p, procs[p], m.stamp)
      BY <1>0, <1>2, <2>1, OwesStays
    <3> QED
      BY <3>1 DEF Owes
  <2>4. Owes(p, procs'[p], top)
    BY <1>1, <1>5, <2>1, <2>2, <2>3 DEF Owes
  <2> HIDE DEF top
  <2>5. Climbs(TopOf(entry, fence), TopOf(entry', fence'))
    BY <2>1 DEF top
  <2>6. Owes(p, procs'[p], TopOf(entry', fence'))
    BY <2>4 DEF top
  <2> QED
    BY <1>1, <1>4, <2>1, <2>5, <2>6, OneProcOwes
<1>6. CASE Outcome(entry, fence, m) # "APPLIED"
  <2>1. top = TopOf(entry, fence) /\ FenceKept(entry', fence')
    BY <1>0, <1>1, <1>2, <1>6, RefusedTop
  <2>2. ASSUME Binding(procs'[p].answer)
        PROVE  Ended(top, procs'[p].answer.lease.epoch)
    <3>1. /\ p \in Threads /\ ExplicitlyTerminal(m.stamp.kind)
          /\ procs'[p].answer.lease = m.lease
          /\ Outcome(entry, fence, m) = "DUPLICATE" => m.op \notin HeartbeatOps
      BY <1>1, <1>6, <2>2 DEF ExplicitlyTerminal, Binding
    <3>2. m.op \in DeregisterOps /\ Reached(TopOf(entry, fence), m.lease.epoch)
      BY <1>1, <1>2, <3>1 DEF Owes
    <3>3. m.op \in DeleteOps \/ Outcome(entry, fence, m) # "DUPLICATE"
      BY <3>1, <3>2 DEF DeleteOps
    <3>4. Ended(TopOf(entry, fence), m.lease.epoch)
      BY <1>0, <1>1, <1>2, <1>6, <3>1, <3>2, <3>3, RefusedEnded
    <3> QED
      BY <2>1, <3>1, <3>4
  <2>3. Owes(p, procs'[p], top)
    BY <1>1, <1>6, <2>2 DEF Owes
  <2> HIDE DEF top
  <2>4. Climbs(TopOf(entry, fence), TopOf(entry', fence'))
    BY <2>1, ClimbsItself DEF top
  <2>5. Owes(p, procs'[p], TopOf(entry', fence'))
    BY <2>3 DEF top
  <2> QED
    BY <1>1, <1>4, <2>1, <2>4, <2>5, OneProcOwes
<1> QED
  BY <1>5, <1>6

\* A client is answered when its lease has ended.
LEMMA FollowUpSticks ==
    ASSUME StickInv, TypeOK', NEW p \in Goroutines, FollowUp(p)
    PROVE  StickInv'
<1>0. TypeOK
  BY DEF StickInv
<1>1. /\ OthersStay(p) /\ UNCHANGED <<entry, fence>>
      /\ procs[p].pc = "followup" /\ procs'[p].pc = "idle"
      /\ procs'[p].answer # None =>
            /\ p \in Threads
            /\ procs'[p].answer.kind = procs[p].m.stamp.kind
            /\ procs'[p].answer.lease = procs[p].m.lease
  BY <1>0, FollowUpStep
<1>2. Owes(p, procs[p], TopOf(entry, fence))
  BY DEF StickInv
<1>3. Owes(p, procs'[p], TopOf(entry, fence))
  BY <1>1, <1>2 DEF Owes, ExplicitlyTerminal, Binding
<1> QED
  BY <1>0, <1>1, <1>3, OneProcOnly

\* Marking a record changes neither its stamp nor its window.
LEMMA MarkDelayedSticks ==
    ASSUME StickInv, TypeOK', NEW task, MarkDelayed(task)
    PROVE  StickInv'
<1>0. TypeOK /\ "wheel" \in Goroutines
  BY GoroutinesMembers DEF StickInv
<1>1. /\ OthersStay("wheel") /\ fence' = fence
      /\ procs'["wheel"].pc \in {"idle", "announce"} /\ procs'["wheel"].answer = None
      /\ \/ entry' = entry
         \/ /\ entry \in Entries /\ entry' \in Entries
            /\ entry'.stamp = entry.stamp /\ entry'.ops = entry.ops
  BY <1>0, MarkDelayedStep
<1>2. /\ TopOf(entry', fence') = TopOf(entry, fence)
      /\ FenceKept(entry', fence') /\ WindowEnds(entry')
  BY <1>1, EntryParts DEF StickInv, TopOf, FenceKept, WindowEnds
<1>3. Owes("wheel", procs'["wheel"], TopOf(entry', fence'))
  BY <1>1, RestingOwes
<1>4. Climbs(TopOf(entry, fence), TopOf(entry', fence'))
  BY <1>2, ClimbsItself
<1> QED
  BY <1>0, <1>1, <1>2, <1>3, <1>4, OneProcOwes

\* The wheel's draft is no client's.
LEMMA ExpireLeaseSticks ==
    ASSUME StickInv, TypeOK', NEW task, ExpireLease(task)
    PROVE  StickInv'
<1>0. TypeOK /\ "wheel" \in Goroutines /\ "wheel" \notin Threads
  BY GoroutinesMembers DEF StickInv
<1>1. /\ OthersStay("wheel") /\ UNCHANGED <<entry, fence>>
      /\ procs'["wheel"].answer = None
      /\ \/ procs'["wheel"].pc = "idle"
         \/ procs'["wheel"].pc = "stamp" /\ procs'["wheel"].m.op = NoOp
  BY <1>0, ExpireLeaseStep
<1>2. NoOp \notin DeleteOps
  BY ServiceAssumption DEF DeleteOps
<1>3. Owes("wheel", procs'["wheel"], TopOf(entry, fence))
  BY <1>0, <1>1, <1>2 DEF Owes, OpFits, Binding
<1> QED
  BY <1>0, <1>1, <1>3, OneProcOnly

\* A tombstone is collected after it has left its fence.
LEMMA CollectSticks ==
    ASSUME StickInv, TypeOK', Collect
    PROVE  StickInv'
<1>0. TypeOK /\ "maintenance" \in Goroutines
  BY GoroutinesMembers DEF StickInv
<1>1. /\ OthersStay("maintenance") /\ fence' = fence /\ entry' = None
      /\ procs'["maintenance"].pc = "announce" /\ procs'["maintenance"].answer = None
      /\ entry \in Entries /\ entry.status = "EVICTED"
  BY <1>0, CollectStep
<1>2. entry # None /\ entry.stamp.kind \in EvictingKinds
  BY <1>1, EntryParts
<1>3. TopOf(entry', fence') = TopOf(entry, fence)
  BY <1>1, <1>2 DEF StickInv, FenceKept, TopOf
<1>4. FenceKept(entry', fence') /\ WindowEnds(entry')
  BY <1>1 DEF FenceKept, WindowEnds
<1>5. Owes("maintenance", procs'["maintenance"], TopOf(entry', fence'))
  BY <1>1, RestingOwes
<1>6. Climbs(TopOf(entry, fence), TopOf(entry', fence'))
  BY <1>3, ClimbsItself
<1> QED
  BY <1>0, <1>1, <1>4, <1>5, <1>6, OneProcOwes

\* A peer's goroutine carries no operation ID and answers no client.
LEMMA PeerOwes ==
    ASSUME NEW p \in Peers, NEW q, NEW top, q.pc = "apply", q.answer = None, q.m.op = NoOp
    PROVE  Owes(p, q, top)
  BY GoroutinesMembers, ServiceAssumption DEF Owes, OpFits, Binding, DeleteOps

\* A fence replaces what it outranks.
LEMMA FenceSticks ==
    ASSUME StickInv, TypeOK', PeerFences
    PROVE  StickInv'
<1>0. /\ TypeOK /\ "wheel" \in Goroutines
      /\ entry \in Entries \union {None} /\ fence \in Stamp \union {None}
  BY GoroutinesMembers DEF StickInv, TypeOK
<1>1. PICK f \in Stamp :
         \/ UNCHANGED <<entry, fence>>
         \/ /\ FenceWins(f, entry) /\ entry' = None
            /\ fence' = IF FenceReplaces(f, fence) THEN f ELSE fence
  BY <1>0, PeerFencesStep
<1>2. procs' = procs /\ OthersStay("wheel")
  BY <1>0, PeerFencesStep DEF OthersStay
<1>3. Climbs(TopOf(entry, fence), TopOf(entry', fence'))
  <2>1. CASE UNCHANGED <<entry, fence>>
    BY <2>1, ClimbsItself
  <2>2. CASE /\ FenceWins(f, entry) /\ entry' = None
             /\ fence' = IF FenceReplaces(f, fence) THEN f ELSE fence
    BY <1>0, <2>2, FencedTop
  <2> QED
    BY <1>1, <2>1, <2>2
<1>4. FenceKept(entry', fence') /\ WindowEnds(entry')
  BY <1>1 DEF StickInv, FenceKept, WindowEnds
<1>5. Owes("wheel", procs'["wheel"], TopOf(entry', fence'))
  BY <1>0, <1>2, <1>3, OwesStays DEF StickInv
<1> QED
  BY <1>0, <1>2, <1>3, <1>4, <1>5, OneProcOwes

-----------------------------------------------------------------------------
\* Every step keeps what has ended.
LEMMA NextSticks ==
    ASSUME StickInv, [Next]_vars
    PROVE  StickInv'
<1>0. TypeOK /\ TypeOK'
  BY NextType DEF StickInv
<1>1. ASSUME UNCHANGED <<entry, fence, procs>>
      PROVE  StickInv'
  BY <1>0, <1>1 DEF StickInv
<1>2. CASE UNCHANGED vars
  BY <1>1, <1>2 DEF vars
<1>3. CASE Tick
  BY <1>1, <1>3 DEF Tick, registry
<1>4. CASE Fire
  BY <1>0, <1>4, MarkDelayedSticks, ExpireLeaseSticks DEF Fire
<1>5. CASE Collect
  BY <1>0, <1>5, CollectSticks
<1>6. CASE PeerMutates
  <2>1. PICK p \in Peers :
           /\ OthersStay(p) /\ UNCHANGED <<entry, fence>>
           /\ procs'[p].pc = "apply" /\ procs'[p].answer = None /\ procs'[p].m.op = NoOp
    BY <1>0, <1>6, PeerMutatesStep
  <2>2. Owes(p, procs'[p], TopOf(entry, fence)) /\ p \in Goroutines
    BY <2>1, PeerOwes, GoroutinesMembers
  <2> QED
    BY <1>0, <2>1, <2>2, OneProcOnly
<1>7. CASE \E p \in Peers, m \in Stored : ApplyEcho(p, m)
  <2>1. PICK p \in Peers, m \in Stored : ApplyEcho(p, m)
    BY <1>7
  <2>2. /\ OthersStay(p) /\ UNCHANGED <<entry, fence>>
        /\ procs'[p].pc = "apply" /\ procs'[p].answer = None /\ procs'[p].m.op = NoOp
    BY <1>0, <2>1, ApplyEchoStep
  <2>3. Owes(p, procs'[p], TopOf(entry, fence)) /\ p \in Goroutines
    BY <2>2, PeerOwes, GoroutinesMembers
  <2> QED
    BY <1>0, <2>2, <2>3, OneProcOnly
<1>8. CASE PeerFences
  BY <1>0, <1>8, FenceSticks
<1>9. CASE \E p \in Threads : Requests(p)
  BY <1>0, <1>9, RequestsStick
<1>10. ASSUME NEW p \in Goroutines, Announce(p)
       PROVE  StickInv'
  <2>1. /\ OthersStay(p) /\ UNCHANGED <<entry, fence>>
        /\ procs'[p].pc = "idle" /\ procs'[p].answer = None
    BY <1>0, <1>10, AnnounceStep
  <2>2. Owes(p, procs'[p], TopOf(entry, fence))
    BY <2>1, RestingOwes
  <2> QED
    BY <1>0, <2>1, <2>2, OneProcOnly
<1>11. CASE \E p \in Goroutines : Steps(p)
  BY <1>0, <1>10, <1>11, DrawSticks, ApplySticks, FollowUpSticks DEF Steps
<1> QED
  BY <1>2, <1>3, <1>4, <1>5, <1>6, <1>7, <1>8, <1>9, <1>11 DEF Next

\* No one has been answered at first.
LEMMA InitSticks == Init => StickInv
<1> SUFFICES ASSUME Init
             PROVE  StickInv
  OBVIOUS
<1>1. TypeOK
  BY InitType
<1>2. /\ entry = None
      /\ \A p \in Goroutines : procs[p].pc = "idle" /\ procs[p].answer = None
  BY DEF Init, Idle
<1>3. \A p \in Goroutines : Owes(p, procs[p], TopOf(entry, fence))
  BY <1>2, RestingOwes
<1> QED
  BY <1>1, <1>2, <1>3 DEF StickInv, FenceKept, WindowEnds

\* What has ended is not discoverable.
LEMMA StickSafe ==
    ASSUME StickInv, NEW p \in Threads, Binding(procs[p].answer),
           entry.lease = procs[p].answer.lease
    PROVE  ~Discoverable(entry)
<1> SUFFICES ASSUME Discoverable(entry)
             PROVE  FALSE
  OBVIOUS
<1>1. p \in Goroutines /\ entry \in Entries /\ entry # None
  BY GoroutinesMembers DEF StickInv, TypeOK, Discoverable
<1>2. Ended(entry.stamp, entry.lease.epoch)
  BY <1>1 DEF StickInv, Owes, TopOf
<1>3. entry.lease.epoch = entry.stamp.epoch /\ entry.stamp.epoch \in Version
  BY <1>1, EntryParts
<1>4. ExplicitlyTerminal(entry.stamp.kind)
  BY <1>2, <1>3, VersionOrder DEF Ended, Ends
<1>5. entry.status = "EVICTED"
  BY <1>1, <1>4, EntryParts DEF ExplicitlyTerminal, EvictingKinds
<1> QED
  BY <1>5 DEF Discoverable

\* A client whose DELETE was answered never sees its lease in discovery again:
\* neither a heartbeat that had read the record before, nor a peer's mutation,
\* nor the collection of the tombstone brings it back. The fence that a
\* tombstone leaves keeps what it ended. Excepted is, as in the property, a
\* DELETE dropped for an operation ID that clients give to heartbeats too.
THEOREM DeregistrationsStick == Spec => []DeregistrationSticks
<1>1. StickInv => DeregistrationSticks
  BY StickSafe DEF DeregistrationSticks, Binding
<1> QED
  BY <1>1, InitSticks, NextSticks, PTL DEF Spec
=============================================================================
