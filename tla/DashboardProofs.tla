-------------------------- MODULE DashboardProofs --------------------------
(***************************************************************************)
(* The console always has a way on, and its counters are those of the list *)
(* it shows, for any registry, ring, bounds and sequence of failures.      *)
(*                                                                         *)
(* That nothing is left to go on would take a timer that is cleared, a     *)
(* socket that is dropped and a snapshot that fails without one of the     *)
(* others taking its place; inductive with the types of the hook's         *)
(* variables (IInv).                                                       *)
(*                                                                         *)
(* The counters are kept by increments along every batch, in the order of  *)
(* the events' numbers.  The invariant (Data) follows a record from the    *)
(* registry over the events, the ring, the wire and the batch, or over a   *)
(* snapshot, into the picture.  What a batch does is a recursive function  *)
(* up to its greatest number; BatchKeeps shows that the function exists,   *)
(* by the least number for which it would not, and what it gives, by the   *)
(* least number at which counters and cursor would be wrong.               *)
(***************************************************************************)
EXTENDS Dashboard, FiniteSetTheorems, SequenceTheorems, WellFoundedInduction, TLAPS

(* Least and greatest numbers.                                             *)

\* Every nonempty set of naturals has a least element.
LEMMA LeastNat ==
    ASSUME NEW T, T \subseteq Nat, T # {}
    PROVE  \E n \in T : \A k \in T : n <= k
<1> DEFINE R == {p \in Nat \X Nat : p[1] < p[2]}
<1>1. IsWellFoundedOn(R, Nat)
  BY NatLessThanWellFounded DEF OpToRel
<1>2. \A x, y \in Nat : <<y, x>> \in R <=> y < x
  OBVIOUS
<1> HIDE DEF R
<1>3. PICK n \in T : \A k \in T : ~(<<k, n>> \in R)
  BY <1>1, WFMin
<1>4. ASSUME NEW k \in T
      PROVE  n <= k
  <2>1. n \in Nat /\ k \in Nat /\ ~(k < n)
    BY <1>2, <1>3
  <2> QED
    BY <2>1
<1> QED
  BY <1>4

\* It is the one that Min chooses.
LEMMA MinOfNat ==
    ASSUME NEW T, T \subseteq Nat, T # {}
    PROVE  Min(T) \in T
<1>1. \E n \in T : \A k \in T : n =< k
  BY LeastNat
<1> QED
  BY <1>1 DEF Min

\* A bounded one has a greatest, which Max chooses.
LEMMA MaxOfNat ==
    ASSUME NEW T, T \subseteq Nat, T # {}, NEW bound \in Nat, \A k \in T : k <= bound
    PROVE  Max(T) \in T /\ \A k \in T : Max(T) >= k
<1> DEFINE Bounds == {b \in Nat : \A k \in T : k <= b}
<1>1. PICK b \in Bounds : \A c \in Bounds : b <= c
  <2>1. Bounds # {} /\ Bounds \subseteq Nat
    OBVIOUS
  <2> QED
    BY <2>1, LeastNat
<1>2. b \in Nat /\ \A k \in T : k <= b
  OBVIOUS
<1>3. b \in T
  <2> SUFFICES ASSUME b \notin T
               PROVE  FALSE
    OBVIOUS
  <2>1. \A k \in T : k \in Nat /\ k <= b /\ k # b
    BY <1>2
  <2>0. PICK j \in T : TRUE
    OBVIOUS
  <2>2. b - 1 \in Nat /\ \A k \in T : k <= b - 1
    BY <1>2, <2>0, <2>1
  <2>3. b <= b - 1
    BY <1>1, <2>2
  <2> QED
    BY <1>2, <2>3
<1>4. \E x \in T : \A y \in T : x >= y
  BY <1>2, <1>3
<1> QED
  BY <1>4 DEF Max

\* Only one number is greatest.
LEMMA MaxIs ==
    ASSUME NEW T, T \subseteq Nat, NEW n \in T, \A k \in T : k <= n
    PROVE  Max(T) = n
<1>1. Max(T) \in T /\ \A k \in T : Max(T) >= k
  BY MaxOfNat
<1>2. Max(T) \in Nat /\ n \in Nat /\ Max(T) >= n /\ Max(T) <= n
  BY <1>1
<1> QED
  BY <1>2

-----------------------------------------------------------------------------
(* Counting.                                                               *)

\* Services with instances.
Services == {ServiceOf[k] : k \in Keys}

\* A set of keys that differs in at most one key.
LEMMA OneKeyMore ==
    ASSUME NEW A \in SUBSET Keys, NEW B \in SUBSET Keys, NEW k \in Keys, A \ {k} = B \ {k}
    PROVE  /\ Cardinality(A) \in Nat /\ Cardinality(B) \in Nat
           /\ Cardinality(B) = Cardinality(A) + (IF k \in B THEN 1 ELSE 0)
                                              - (IF k \in A THEN 1 ELSE 0)
<1>1. IsFiniteSet(A) /\ IsFiniteSet(B)
  BY FS_Subset, DashboardAssumption
<1>2. Cardinality(A) \in Nat /\ Cardinality(B) \in Nat
  BY <1>1, FS_CardinalityType
<1>3. Cardinality(A \ {k}) = IF k \in A THEN Cardinality(A) - 1 ELSE Cardinality(A)
  BY <1>1, FS_RemoveElement
<1>4. Cardinality(B \ {k}) = IF k \in B THEN Cardinality(B) - 1 ELSE Cardinality(B)
  BY <1>1, FS_RemoveElement
<1> QED
  BY <1>2, <1>3, <1>4

\* The counters are numbers, and a service is counted when it has an instance.
LEMMA CountedServices ==
    ASSUME NEW shown
    PROVE  /\ \A v \in Services : Counted(shown).perService[v] \in Nat
           /\ {v \in Services : Counted(shown).perService[v] > 0}
                = {ServiceOf[k] : k \in Listed(shown)}
<1> DEFINE Of(v) == {k \in Listed(shown) : ServiceOf[k] = v}
<1>1. \A v \in Services : Counted(shown).perService[v] = Cardinality(Of(v))
  BY DEF Counted, Services
<1>2. ASSUME NEW v \in Services
      PROVE  Cardinality(Of(v)) \in Nat /\ (Cardinality(Of(v)) > 0 <=> Of(v) # {})
  <2>1. Of(v) \in SUBSET Keys
    BY DEF Listed
  <2> HIDE DEF Of
  <2>2. IsFiniteSet(Of(v))
    BY <2>1, FS_Subset, DashboardAssumption
  <2>3. Cardinality(Of(v)) \in Nat /\ (Cardinality(Of(v)) = 0 <=> Of(v) = {})
    BY <2>2, FS_CardinalityType, FS_EmptySet
  <2> QED
    BY <2>3
<1>3. {v \in Services : Of(v) # {}} = {ServiceOf[k] : k \in Listed(shown)}
  BY DEF Services, Listed
<1> HIDE DEF Of
<1>4. {v \in Services : Counted(shown).perService[v] > 0} = {v \in Services : Of(v) # {}}
  BY <1>1, <1>2
<1> QED
  BY <1>1, <1>2, <1>3, <1>4

\* A record that changes is adjusted in the counts.
LEMMA CountedChanges ==
    ASSUME NEW shown, shown = [j \in Keys |-> shown[j]], NEW k \in Keys, NEW record
    PROVE  Counted([shown EXCEPT ![k] = record])
             = Adjusted(Counted(shown), ServiceOf[k], shown[k], record)
<1> DEFINE after == [shown EXCEPT ![k] = record]
<1>2. after[k] = record /\ \A j \in Keys : j # k => after[j] = shown[j]
  OBVIOUS
<1> DEFINE more == Present(record) - Present(shown[k])
<1> DEFINE old == Counted(shown)
<1> DEFINE new == Counted(after)
<1> HIDE DEF after
<1>3. more \in {-1, 0, 1} /\ Present(record) \in {0, 1} /\ Present(shown[k]) \in {0, 1}
  BY DEF Present
<1>4. \A s \in Statuses : new.status[s] = old.status[s] + One(record, s) - One(shown[k], s)
  <2> SUFFICES ASSUME NEW s \in Statuses
               PROVE  new.status[s] = old.status[s] + One(record, s) - One(shown[k], s)
    OBVIOUS
  <2> DEFINE A == {j \in Listed(shown) : shown[j].status = s}
  <2> DEFINE B == {j \in Listed(after) : after[j].status = s}
  <2>1. A \in SUBSET Keys /\ B \in SUBSET Keys /\ A \ {k} = B \ {k}
    BY <1>2 DEF Listed
  <2>2. One(shown[k], s) = (IF k \in A THEN 1 ELSE 0) /\ One(record, s) = (IF k \in B THEN 1 ELSE 0)
    BY <1>2 DEF Listed, One
  <2>3. old.status[s] = Cardinality(A) /\ new.status[s] = Cardinality(B)
    BY DEF Counted
  <2> HIDE DEF A, B, old, new
  <2> QED
    BY <2>1, <2>2, <2>3, OneKeyMore
<1>5. new.instances = old.instances + more /\ old.instances \in Nat
  <2> DEFINE A == Listed(shown)
  <2> DEFINE B == Listed(after)
  <2>1. A \in SUBSET Keys /\ B \in SUBSET Keys /\ A \ {k} = B \ {k}
    BY <1>2 DEF Listed
  <2>2. /\ Present(shown[k]) = (IF k \in A THEN 1 ELSE 0)
        /\ Present(record) = (IF k \in B THEN 1 ELSE 0)
    BY <1>2 DEF Listed, Present
  <2>3. old.instances = Cardinality(A) /\ new.instances = Cardinality(B)
    BY DEF Counted
  <2> HIDE DEF A, B, old, new
  <2> QED
    BY <2>1, <2>2, <2>3, OneKeyMore
<1>6. ASSUME NEW v \in Services
      PROVE  /\ old.perService[v] \in Nat /\ new.perService[v] \in Nat
             /\ new.perService[v] = IF v = ServiceOf[k] THEN old.perService[v] + more
                                    ELSE old.perService[v]
  <2> DEFINE A == {j \in Listed(shown) : ServiceOf[j] = v}
  <2> DEFINE B == {j \in Listed(after) : ServiceOf[j] = v}
  <2>1. A \in SUBSET Keys /\ B \in SUBSET Keys /\ A \ {k} = B \ {k}
    BY <1>2 DEF Listed
  <2>2. old.perService[v] = Cardinality(A) /\ new.perService[v] = Cardinality(B)
    BY DEF Counted, Services
  <2>3. CASE v = ServiceOf[k]
    <3>1. /\ Present(shown[k]) = (IF k \in A THEN 1 ELSE 0)
          /\ Present(record) = (IF k \in B THEN 1 ELSE 0)
      BY <1>2, <2>3 DEF Listed, Present
    <3> HIDE DEF A, B, old, new
    <3> QED
      BY <2>1, <2>2, <2>3, <3>1, OneKeyMore
  <2>4. CASE v # ServiceOf[k]
    <3>1. k \notin A /\ k \notin B
      BY <2>4
    <3> HIDE DEF A, B, old, new
    <3> QED
      BY <2>1, <2>2, <2>4, <3>1, OneKeyMore
  <2> QED
    BY <2>3, <2>4
<1> DEFINE floored == [old.perService EXCEPT ![ServiceOf[k]] =
                          IF @ + more > 0 THEN @ + more ELSE 0]
<1>7. new.perService = floored
  <2>1. /\ DOMAIN old.perService = Services /\ DOMAIN new.perService = Services
        /\ old.perService = [v \in Services |-> old.perService[v]]
        /\ new.perService = [v \in Services |-> new.perService[v]]
        /\ ServiceOf[k] \in Services
    BY DEF Counted, Services
  <2> HIDE DEF old, new, more
  <2>2. floored = [v \in Services |-> IF v = ServiceOf[k]
                     THEN IF old.perService[v] + more > 0 THEN old.perService[v] + more ELSE 0
                     ELSE old.perService[v]]
    BY <2>1
  <2>3. \A v \in Services : new.perService[v] = IF v = ServiceOf[k]
                     THEN IF old.perService[v] + more > 0 THEN old.perService[v] + more ELSE 0
                     ELSE old.perService[v]
    BY <1>3, <1>6
  <2> HIDE DEF floored
  <2> QED
    BY <2>1, <2>2, <2>3
<1>8. new.services = IF more = 0 THEN old.services
                     ELSE Cardinality({w \in DOMAIN floored : floored[w] > 0})
  <2>1. /\ new.services = Cardinality({ServiceOf[j] : j \in Listed(after)})
        /\ old.services = Cardinality({ServiceOf[j] : j \in Listed(shown)})
        /\ DOMAIN new.perService = Services
    BY DEF Counted, Services
  <2>2. {w \in Services : new.perService[w] > 0} = {ServiceOf[j] : j \in Listed(after)}
    BY CountedServices
  <2>3. CASE more = 0
    <3>1. Listed(after) = Listed(shown)
      BY <1>2, <2>3 DEF Listed, Present
    <3> HIDE DEF more, old, new
    <3> QED
      BY <2>1, <2>3, <3>1
  <2>4. CASE more # 0
    <3> HIDE DEF more, old, new, floored
    <3> QED
      BY <1>7, <2>1, <2>2, <2>4
  <2> QED
    BY <2>3, <2>4
<1>9. new = [status |-> new.status, instances |-> new.instances,
             services |-> new.services, perService |-> new.perService]
      /\ new.status = [s \in Statuses |-> new.status[s]]
  BY DEF Counted
<1>10. Adjusted(old, ServiceOf[k], shown[k], record) =
         [status |-> [s \in Statuses |-> old.status[s] + One(record, s) - One(shown[k], s)],
          instances |-> old.instances + more,
          services |-> IF more = 0 THEN old.services
                       ELSE Cardinality({w \in DOMAIN floored : floored[w] > 0}),
          perService |-> floored]
  <2> HIDE DEF old
  <2> QED
    BY DEF Adjusted
<1>11. [s \in Statuses |-> old.status[s] + One(record, s) - One(shown[k], s)] = new.status
  <2> HIDE DEF old, new
  <2> QED
    BY <1>4, <1>9
<1>12. new = Adjusted(old, ServiceOf[k], shown[k], record)
  <2> HIDE DEF old, new, more, floored
  <2> QED
    BY <1>5, <1>7, <1>8, <1>9, <1>10, <1>11
<1> QED
  BY <1>12 DEF after

-----------------------------------------------------------------------------
(* The reducer.                                                            *)

\* What the registry, the events and the picture hold of an instance.
Records == [version : 0..latest, status : Statuses]
Pictures == [Keys -> Records \union {None}]
Items == [seq : Nat, key : Keys, record : Records \union {None}]

\* A state of the reducer whose counts are those of its picture.
State(shown, at) == [picture |-> shown, summary |-> Counted(shown), cursor |-> at]

\* Showing a record, or removing one, keeps the counts those of the picture
\* (dashboardReducer of dashboard.ts).
LEMMA ShownKeeps ==
    ASSUME NEW p \in Pictures, NEW c, NEW k \in Keys, NEW r \in Records \union {None}
    PROVE  /\ [p EXCEPT ![k] = r] \in Pictures
           /\ Shown(State(p, c), k, r) = State([p EXCEPT ![k] = r], c)
<1> DEFINE q == [p EXCEPT ![k] = r]
<1>1. q \in Pictures
  BY DEF Pictures
<1>2. p = [j \in Keys |-> p[j]]
  BY DEF Pictures
<1> DEFINE counts == Adjusted(Counted(p), ServiceOf[k], p[k], r)
<1>4. counts = Counted(q)
  BY <1>2, CountedChanges
<1>5. Shown(State(p, c), k, r) = [picture |-> q, summary |-> counts, cursor |-> c]
  <2> DEFINE st == State(p, c)
  <2>1. st = [picture |-> p, summary |-> Counted(p), cursor |-> c]
    BY DEF State
  <2>2. st.picture = p /\ st.summary = Counted(p)
    BY <2>1
  <2>3. Adjusted(st.summary, ServiceOf[k], st.picture[k], r) = counts
    BY <2>2
  <2> HIDE DEF counts
  <2>4. Shown(st, k, r) = [st EXCEPT !.picture[k] = r, !.summary = counts]
    <3> HIDE DEF st
    <3> QED
      BY <2>3 DEF Shown
  <2>5. [st EXCEPT !.picture[k] = r, !.summary = counts]
        = [picture |-> q, summary |-> counts, cursor |-> c]
    <3> HIDE DEF st
    <3>1. [st.picture EXCEPT ![k] = r] = q
      BY <2>2
    <3>2. [st EXCEPT !.picture[k] = r, !.summary = counts]
          = [st EXCEPT !.picture = [st.picture EXCEPT ![k] = r], !.summary = counts]
      OBVIOUS
    <3> HIDE DEF q
    <3>3. [st EXCEPT !.picture = q, !.summary = counts]
          = [picture |-> q, summary |-> counts, cursor |-> c]
      <4> DEFINE old == Counted(p)
      <4>1. st = [picture |-> p, summary |-> old, cursor |-> c]
        BY <2>1
      <4> HIDE DEF old
      <4> DEFINE half == [st EXCEPT !.picture = q]
      <4>2. half = [picture |-> q, summary |-> old, cursor |-> c]
        BY <4>1
      <4>3. [st EXCEPT !.picture = q, !.summary = counts] = [half EXCEPT !.summary = counts]
        BY <4>1
      <4> HIDE DEF half
      <4>4. [half EXCEPT !.summary = counts] = [picture |-> q, summary |-> counts, cursor |-> c]
        BY <4>2
      <4> QED
        BY <4>3, <4>4
    <3> QED
      BY <3>1, <3>2, <3>3
  <2> QED
    BY <2>4, <2>5
<1> QED
  BY <1>1, <1>4, <1>5 DEF State

\* One event keeps it so, and moves the cursor to its number if that is later.
LEMMA ReducedKeeps ==
    ASSUME NEW p \in Pictures, NEW c \in Nat, NEW e \in Items
    PROVE  \E q \in Pictures : Reduced(State(p, c), e) = State(q, IF e.seq <= c THEN c ELSE e.seq)
<1>0. e.seq \in Nat /\ e.key \in Keys /\ e.record \in Records \union {None}
  BY DEF Items
<1>1. CASE e.seq <= c
  <2>1. Reduced(State(p, c), e) = State(p, c)
    BY <1>0, <1>1 DEF Reduced, State
  <2> QED
    BY <1>1, <2>1
<1>2. CASE ~(e.seq <= c)
  <2> DEFINE next == [State(p, c) EXCEPT !.cursor = e.seq]
  <2>1. next = State(p, e.seq)
    BY DEF State
  <2> HIDE DEF next
  <2>2. e.seq > c
    BY <1>0, <1>2
  <2>3. \/ Reduced(State(p, c), e) = Shown(next, e.key, e.record)
        \/ Reduced(State(p, c), e) = next
    <3>1. State(p, c).cursor = c
      BY DEF State
    <3>2. CASE e.record = None
      BY <1>2, <2>2, <3>1, <3>2 DEF Reduced, next
    <3>3. CASE e.record # None
      BY <1>2, <2>2, <3>1, <3>3 DEF Reduced, next
    <3> QED
      BY <3>2, <3>3
  <2>4. Shown(next, e.key, e.record) = State([p EXCEPT ![e.key] = e.record], e.seq)
        /\ [p EXCEPT ![e.key] = e.record] \in Pictures
    BY <1>0, <2>1, ShownKeeps
  <2> QED
    BY <1>2, <2>1, <2>3, <2>4
<1> QED
  BY <1>1, <1>2

\* A nonempty batch has a greatest number.
LEMMA SeqsOfBatch ==
    ASSUME NEW events \in Seq(Items), events # <<>>
    PROVE  /\ Seqs(events) \subseteq Nat /\ Seqs(events) # {}
           /\ \E bound \in Nat : \A n \in Seqs(events) : n <= bound
<1>1. Seqs(events) = {events[i].seq : i \in 1..Len(events)}
  BY DEF Seqs, ToSet
<1>2. ASSUME NEW i \in 1..Len(events)
      PROVE  events[i] \in Items /\ events[i].seq \in Nat
  <2>1. events[i] \in Items
    OBVIOUS
  <2> QED
    BY <2>1 DEF Items
<1>3. Seqs(events) \subseteq Nat
  BY <1>1, <1>2
<1>4. Seqs(events) # {}
  <2>1. 1 \in 1..Len(events)
    OBVIOUS
  <2> QED
    BY <1>1, <2>1
<1> DEFINE Bounded(n) == \E bound \in Nat : \A i \in 1..n : events[i].seq <= bound
<1> DEFINE T == {n \in 0..Len(events) : ~Bounded(n)}
<1>5. T = {}
  <2> SUFFICES ASSUME T # {}
               PROVE  FALSE
    OBVIOUS
  <2>0. T \subseteq Nat
    OBVIOUS
  <2>1. PICK n \in T : \A k \in T : n <= k
    <3> HIDE DEF T
    <3> QED
      BY <2>0, LeastNat
  <2>2. n \in 0..Len(events) /\ ~Bounded(n) /\ n \in Nat
    BY <2>1
  <2>3. n # 0
    <3>1. \A i \in 1..0 : events[i].seq <= 0
      OBVIOUS
    <3> QED
      BY <2>2, <3>1
  <2>4. Bounded(n - 1)
    <3>1. n - 1 \notin T /\ n - 1 \in 0..Len(events)
      <4> HIDE DEF Bounded
      <4>1. n - 1 \in 0..Len(events)
        BY <2>2, <2>3
      <4>2. ~(n <= n - 1)
        BY <2>2
      <4> HIDE DEF T
      <4> QED
        BY <2>1, <4>1, <4>2
    <3> QED
      BY <3>1
  <2>5. PICK b \in Nat : \A i \in 1..(n - 1) : events[i].seq <= b
    BY <2>4
  <2>6. events[n].seq \in Nat
    <3>1. n \in 1..Len(events)
      BY <2>2, <2>3
    <3> QED
      BY <1>2, <3>1
  <2> DEFINE c == IF events[n].seq <= b THEN b ELSE events[n].seq
  <2>7. c \in Nat /\ b <= c /\ events[n].seq <= c
    <3>1. b \in Nat
      BY <2>5
    <3> DEFINE v == events[n].seq
    <3>2. v \in Nat
      BY <2>6
    <3>3. c = IF v <= b THEN b ELSE v
      OBVIOUS
    <3> HIDE DEF v, c
    <3>4. c \in Nat /\ b <= c /\ v <= c
      BY <3>1, <3>2, <3>3
    <3> QED
      BY <3>4 DEF v
  <2>8. \A i \in 1..n : events[i].seq <= c
    <3> HIDE DEF c
    <3> SUFFICES ASSUME NEW i \in 1..n
                 PROVE  events[i].seq <= c
      OBVIOUS
    <3>1. CASE i = n
      BY <2>7, <3>1
    <3>2. CASE i \in 1..(n - 1)
      <4>1. events[i].seq \in Nat /\ events[i].seq <= b
        <5>1. i \in 1..Len(events)
          BY <2>2, <3>2
        <5>2. events[i].seq <= b
          BY <2>5, <3>2
        <5> QED
          BY <1>2, <5>1, <5>2
      <4> QED
        <5> DEFINE v == events[i].seq
        <5>1. v \in Nat /\ v <= b
          BY <4>1
        <5> HIDE DEF v
        <5>2. v <= c
          BY <2>5, <2>7, <5>1
        <5> QED
          BY <5>2 DEF v
    <3> QED
      BY <2>2, <3>1, <3>2
  <2> QED
    BY <2>2, <2>7, <2>8
<1>6. Bounded(Len(events))
  <2>1. Len(events) \in 0..Len(events)
    OBVIOUS
  <2> QED
    BY <1>5, <2>1
<1> QED
  BY <1>1, <1>3, <1>4, <1>6

\* The event of a number is one of the batch.
LEMMA NumberedInBatch ==
    ASSUME NEW events \in Seq(Items), NEW n \in Seqs(events)
    PROVE  Numbered(events, n) \in Items /\ Numbered(events, n).seq = n
<1> DEFINE I == {i \in DOMAIN events : events[i].seq = n}
<1>1. I \subseteq Nat /\ I # {}
  BY DEF Seqs, ToSet
<1>2. Min(I) \in I
  <2> HIDE DEF I
  <2> QED
    BY <1>1, MinOfNat
<1>3. Numbered(events, n) = events[Min(I)]
  BY DEF Numbered
<1> QED
  BY <1>2, <1>3

\* A batch keeps the counts those of the picture and moves the cursor to the
\* greatest number, like the hook does with its own.
LEMMA BatchKeeps ==
    ASSUME NEW events \in Seq(Items), events # <<>>,
           picture \in Pictures, summary = Counted(picture), eventCursor \in Nat,
           ReduceEvents(events)
    PROVE  /\ picture' \in Pictures /\ summary' = Counted(picture')
           /\ eventCursor' = Max({eventCursor} \union Seqs(events))
<1> DEFINE S == Seqs(events)
<1> DEFINE top == Max(S)
<1> DEFINE start == State(picture, eventCursor)
<1> DEFINE After(last, n) ==
      IF n = 0 THEN start
      ELSE IF n \in S THEN Reduced(last, Numbered(events, n)) ELSE last
<1> DEFINE Steps(f, m) == f = [n \in 0..m |->
      IF n = 0 THEN start
      ELSE IF n \in S THEN Reduced(f[n - 1], Numbered(events, n)) ELSE f[n - 1]]
<1>1. S \subseteq Nat /\ S # {} /\ top \in S /\ top \in Nat /\ \A n \in S : n <= top
  <2>1. S \subseteq Nat /\ S # {} /\ \E bound \in Nat : \A n \in S : n <= bound
    BY SeqsOfBatch
  <2> HIDE DEF S
  <2>2. top \in S /\ \A n \in S : top >= n
    BY <2>1, MaxOfNat
  <2> QED
    BY <2>1, <2>2
<1>2. \A n \in S : Numbered(events, n) \in Items /\ Numbered(events, n).seq = n
  BY NumberedInBatch
<1>3. start = [picture |-> picture, summary |-> summary, cursor |-> eventCursor]
  BY DEF State
<1>4. \E f : Steps(f, top)
  <2> DEFINE T == {m \in 0..top : ~\E f : Steps(f, m)}
  <2> HIDE DEF S, top, start
  <2>1. T = {}
    <3> SUFFICES ASSUME T # {}
                 PROVE  FALSE
      OBVIOUS
    <3>1. PICK m \in T : \A k \in T : m <= k
      <4>1. T \subseteq Nat
        OBVIOUS
      <4> HIDE DEF T
      <4> QED
        BY <4>1, LeastNat
    <3>2. m \in 0..top /\ m \in Nat /\ ~\E f : Steps(f, m)
      BY <3>1
    <3>3. CASE m = 0
      <4> DEFINE f == [n \in 0..0 |-> start]
      <4>1. Steps(f, 0)
        <5>1. \A n \in 0..0 : n = 0
          OBVIOUS
        <5> QED
          BY <5>1
      <4> QED
        BY <3>2, <3>3, <4>1
    <3>4. CASE m # 0
      <4>1. m - 1 \in 0..top /\ m - 1 \in Nat /\ ~(m <= m - 1)
        BY <1>1, <3>2, <3>4
      <4>2. \E f : Steps(f, m - 1)
        <5>1. m - 1 \notin T
          <6> HIDE DEF T
          <6> QED
            BY <3>1, <4>1
        <5> QED
          BY <4>1, <5>1
      <4>3. PICK f : Steps(f, m - 1)
        BY <4>2
      <4> DEFINE g == [n \in 0..m |-> IF n = m THEN After(f[m - 1], m) ELSE f[n]]
      <4>4. \A n \in 0..(m - 1) : g[n] = f[n] /\ f[n] = After(f[n - 1], n)
        BY <3>2, <4>1, <4>3
      <4>5. \A n \in 0..m : g[n] = After(g[n - 1], n)
        <5> SUFFICES ASSUME NEW n \in 0..m
                     PROVE  g[n] = After(g[n - 1], n)
          OBVIOUS
        <5>1. CASE n = m
          <6>1. g[n] = After(f[m - 1], m)
            BY <3>2, <5>1
          <6>2. g[n - 1] = f[m - 1]
            BY <3>2, <4>1, <4>4, <5>1
          <6> HIDE DEF g
          <6> QED
            BY <5>1, <6>1, <6>2
        <5>2. CASE n # m /\ n # 0
          <6>1. n \in 0..(m - 1) /\ n - 1 \in 0..(m - 1)
            BY <3>2, <5>2
          <6>2. g[n] = f[n] /\ f[n] = After(f[n - 1], n) /\ g[n - 1] = f[n - 1]
            BY <4>4, <6>1
          <6> HIDE DEF g
          <6> QED
            BY <6>2
        <5>3. CASE n # m /\ n = 0
          <6>1. n \in 0..(m - 1)
            BY <3>2, <5>3
          <6>2. g[n] = f[n] /\ f[n] = After(f[n - 1], n)
            BY <4>4, <6>1
          <6> HIDE DEF g
          <6> QED
            BY <5>3, <6>2
        <5> QED
          BY <5>1, <5>2, <5>3
      <4>6. g = [n \in 0..m |-> g[n]]
        OBVIOUS
      <4> HIDE DEF g
      <4>7. Steps(g, m)
        BY <4>5, <4>6
      <4> QED
        BY <3>2, <4>7
    <3> QED
      BY <3>3, <3>4
  <2>2. top \in 0..top
    BY <1>1
  <2> QED
    BY <2>1, <2>2
<1> DEFINE upTo == CHOOSE f : Steps(f, top)
<1>5. Steps(upTo, top)
  <2> HIDE DEF Steps
  <2> QED
    BY <1>4
<1>6. /\ picture' = upTo[top].picture /\ summary' = upTo[top].summary
      /\ eventCursor' = upTo[top].cursor
  BY <1>3 DEF ReduceEvents
<1> HIDE DEF upTo
<1>7. \A n \in 0..top : upTo[n] = After(upTo[n - 1], n)
  <2> HIDE DEF S, top, start
  <2> QED
    BY <1>5
<1> HIDE DEF Steps
<1> DEFINE Good(n, q, c) ==
      /\ upTo[n] = State(q, c) /\ eventCursor <= c /\ c \in {eventCursor} \union S
      /\ \A s \in S : s <= n => s <= c
<1> DEFINE T == {n \in 0..top : ~\E q \in Pictures, c \in Nat : Good(n, q, c)}
<1> HIDE DEF S, top
<1>8. T = {}
  <2> SUFFICES ASSUME T # {}
               PROVE  FALSE
    OBVIOUS
  <2>1. PICK n \in T : \A k \in T : n <= k
    <3>1. T \subseteq Nat
      OBVIOUS
    <3> HIDE DEF T
    <3> QED
      BY <3>1, LeastNat
  <2>2. n \in 0..top /\ n \in Nat /\ ~\E q \in Pictures, c \in Nat : Good(n, q, c)
    BY <2>1
  <2>3. CASE n = 0
    <3>1. upTo[0] = State(picture, eventCursor)
      BY <1>7, <2>2, <2>3
    <3>2. \A s \in S : s <= 0 => s <= eventCursor
      <4> SUFFICES ASSUME NEW s \in S, s <= 0
                   PROVE  s <= eventCursor
        OBVIOUS
      <4>1. s \in Nat
        BY <1>1
      <4> QED
        BY <4>1
    <3>3. Good(0, picture, eventCursor)
      BY <3>1, <3>2
    <3> HIDE DEF Good
    <3> QED
      BY <2>2, <2>3, <3>3
  <2>4. CASE n # 0
    <3>1. n - 1 \in 0..top /\ n - 1 \in Nat /\ ~(n <= n - 1)
      BY <1>1, <2>2, <2>4
    <3>2. \E q \in Pictures, c \in Nat : Good(n - 1, q, c)
      <4> HIDE DEF Good
      <4>1. n - 1 \notin T
        <5> HIDE DEF T
        <5> QED
          BY <2>1, <3>1
      <4> QED
        BY <3>1, <4>1
    <3>3. PICK q \in Pictures, c \in Nat : Good(n - 1, q, c)
      BY <3>2
    <3>4. upTo[n] = After(State(q, c), n)
      BY <1>7, <2>2, <3>3
    <3>5. CASE n \in S
      <4> DEFINE e == Numbered(events, n)
      <4>1. e \in Items /\ e.seq = n
        BY <1>2, <3>5
      <4>2. upTo[n] = Reduced(State(q, c), e)
        BY <2>4, <3>4, <3>5
      <4> HIDE DEF e
      <4>3. PICK r \in Pictures :
               Reduced(State(q, c), e) = State(r, IF e.seq <= c THEN c ELSE e.seq)
        BY <3>3, <4>1, ReducedKeeps
      <4> DEFINE d == IF n <= c THEN c ELSE n
      <4>4. upTo[n] = State(r, d)
        BY <4>1, <4>2, <4>3
      <4>5. d \in Nat /\ c <= d /\ n <= d /\ d \in {eventCursor} \union S
        BY <2>2, <3>3, <3>5
      <4>6. eventCursor <= d
        BY <3>3, <4>5
      <4> HIDE DEF d
      <4>7. \A s \in S : s <= n => s <= d
        <5> SUFFICES ASSUME NEW s \in S, s <= n
                     PROVE  s <= d
          OBVIOUS
        <5>1. s \in Nat
          BY <1>1
        <5> QED
          BY <2>2, <4>5, <5>1
      <4>8. Good(n, r, d)
        BY <4>4, <4>5, <4>6, <4>7
      <4> HIDE DEF Good
      <4> QED
        BY <2>2, <4>3, <4>5, <4>8
    <3>6. CASE n \notin S
      <4>1. upTo[n] = State(q, c)
        BY <2>4, <3>4, <3>6
      <4>2. \A s \in S : s <= n => s <= c
        <5> SUFFICES ASSUME NEW s \in S, s <= n
                     PROVE  s <= c
          OBVIOUS
        <5>1. s \in Nat /\ s # n
          BY <1>1, <3>6
        <5>2. s <= n - 1
          BY <2>2, <5>1
        <5> QED
          BY <3>3, <5>2
      <4>3. Good(n, q, c)
        BY <3>3, <4>1, <4>2
      <4> HIDE DEF Good
      <4> QED
        BY <2>2, <3>3, <4>3
    <3> QED
      BY <3>5, <3>6
  <2> QED
    BY <2>3, <2>4
<1>9. PICK q \in Pictures, c \in Nat : Good(top, q, c)
  <2> HIDE DEF Good
  <2>1. top \in 0..top
    BY <1>1
  <2> QED
    BY <1>8, <2>1
<1>10. picture' = q /\ summary' = Counted(q) /\ eventCursor' = c
  BY <1>6, <1>9 DEF State
<1>11. Max({eventCursor} \union S) = c
  <2> DEFINE all == {eventCursor} \union S
  <2>1. all \subseteq Nat /\ c \in all /\ \A k \in all : k <= c
    BY <1>1, <1>9
  <2>2. Max(all) = c
    <3> HIDE DEF all
    <3> QED
      BY <2>1, MaxIs
  <2> QED
    BY <2>2
<1> QED
  BY <1>9, <1>10, <1>11 DEF S

-----------------------------------------------------------------------------
(* The hook's way on.                                                      *)

\* What the hook's variables may be.
HookTypes ==
    /\ closing \in Nat
    /\ polling \in BOOLEAN
    /\ reconnect \in {"none", "connect", "bootstrap"}

\* Inductive: a way on is left, and its parts are of their types.
IInv == HookTypes /\ NeverIdle

\* The variables that make a way on.
hook == <<polling, reconnect, socket, closing, snapshot>>

\* A socket that is connecting is not the absence of one.
LEMMA ConnectingIsASocket ==
    \A from : [state |-> "connecting", from |-> from] # NoSocket
  BY DEF NoSocket

\* What replaces a socket leaves its close event to come.
LEMMA ConnectKeeps ==
    ASSUME HookTypes, NEW from, Connect(from)
    PROVE  closing' \in Nat /\ socket' # NoSocket
  BY ConnectingIsASocket DEF HookTypes, Connect

\* What drops a socket leaves its close event to come.
LEMMA DisconnectKeeps ==
    ASSUME HookTypes, Disconnect
    PROVE  closing' \in Nat /\ closing' > 0
  BY DEF HookTypes, Disconnect

\* A bootstrap that finds a snapshot loading polls and tries again.
LEMMA BootstrapKeeps ==
    ASSUME HookTypes, NEW timer \in {"none", "connect", "bootstrap"}, Bootstrap(timer)
    PROVE  /\ polling' \in BOOLEAN /\ reconnect' \in {"none", "connect", "bootstrap"}
           /\ snapshot'.by = "bootstrap" \/ polling'
<1>1. CASE snapshot = NoSnapshot
  <2>1. polling' = polling /\ reconnect' = timer /\ snapshot'.by = "bootstrap"
    BY <1>1 DEF Bootstrap, Load
  <2> QED
    BY <2>1 DEF HookTypes
<1>2. CASE snapshot # NoSnapshot
  <2>1. polling' = TRUE /\ reconnect' = "bootstrap"
    BY <1>2 DEF Bootstrap, StartPolling
  <2> QED
    BY <2>1
<1> QED
  BY <1>1, <1>2

\* A refresh leaves a bootstrap's snapshot alone.
LEMMA RefreshKeeps ==
    ASSUME Refresh, snapshot.by = "bootstrap"
    PROVE  snapshot'.by = "bootstrap"
  BY DEF Refresh, NoSnapshot

\* A step that changes nothing of the hook keeps the invariant.
LEMMA HookUnchanged ==
    ASSUME IInv, UNCHANGED hook
    PROVE  IInv'
  BY DEF IInv, HookTypes, NeverIdle, hook

\* The first bootstrap is a timer.
LEMMA InitKeeps == Init => IInv
<1> SUFFICES ASSUME Init PROVE IInv
  OBVIOUS
<1>1. closing = 0 /\ polling = FALSE /\ reconnect = "bootstrap"
  BY DEF Init
<1> QED
  BY <1>1 DEF IInv, HookTypes, NeverIdle

\* Every step keeps the invariant.
LEMMA StepKeeps ==
    ASSUME IInv, [Next]_vars
    PROVE  IInv'
<1> USE DEF IInv
<1>1. ASSUME UNCHANGED hook PROVE IInv'
  BY <1>1, HookUnchanged
<1>2. CASE Change
  <2>1. UNCHANGED hook
    BY <1>2 DEF Change, Renew, Evict, Delay, Vanish, Changes, hook, link
  <2> QED
    BY <2>1, <1>1
<1>3. CASE Restart
  <2>1. CASE socket.state = "open"
    <3>1. Disconnect /\ UNCHANGED <<polling, reconnect, snapshot>>
      BY <1>3, <2>1 DEF Restart
    <3> QED
      BY <3>1, DisconnectKeeps DEF HookTypes, NeverIdle
  <2>2. CASE socket.state # "open"
    <3>1. UNCHANGED hook
      BY <1>3, <2>2 DEF Restart, hook, link
    <3> QED
      BY <3>1, <1>1
  <2> QED
    BY <2>1, <2>2
<1>4. CASE Gesture
  <2>1. CASE Bootstrap(reconnect)
    <3>1. UNCHANGED link
      BY <1>4 DEF Gesture
    <3> QED
      BY <2>1, <3>1, BootstrapKeeps DEF HookTypes, NeverIdle, link
  <2>2. CASE Refresh /\ UNCHANGED <<polling, reconnect>>
    <3>1. UNCHANGED link
      BY <1>4 DEF Gesture
    <3> QED
      BY <2>2, <3>1, RefreshKeeps DEF HookTypes, NeverIdle, link
  <2> QED
    BY <1>4, <2>1, <2>2 DEF Gesture
<1>5. CASE ServeCursor
  BY <1>5 DEF ServeCursor, HookTypes, NeverIdle, link
<1>6. CASE SnapshotArrives
  <2>1. CASE snapshot.by = "bootstrap"
    <3>1. Connect(snapshot.cursor) /\ UNCHANGED <<polling, reconnect>>
      BY <1>6, <2>1 DEF SnapshotArrives
    <3> QED
      BY <3>1, ConnectKeeps DEF HookTypes, NeverIdle
  <2>2. CASE snapshot.by # "bootstrap"
    <3>1. UNCHANGED <<link, polling, reconnect>>
      BY <1>6, <2>2 DEF SnapshotArrives
    <3> QED
      BY <2>2, <3>1 DEF HookTypes, NeverIdle, link
  <2> QED
    BY <2>1, <2>2
<1>7. CASE SnapshotFails
  BY <1>7 DEF SnapshotFails, StartPolling, HookTypes, NeverIdle, link
<1>8. CASE EventStep
  <2>1. CASE Receive
    <3>1. CASE Disconnect /\ Refresh /\ UNCHANGED <<polling, reconnect>>
      BY <3>1, DisconnectKeeps DEF HookTypes, NeverIdle
    <3>2. CASE UNCHANGED hook
      BY <3>2, <1>1
    <3> QED
      BY <2>1, <3>1, <3>2 DEF Receive, hook
  <2>2. CASE Flush
    BY <2>2, <1>1 DEF Flush, hook, link
  <2>3. CASE \E e \in unpublished : Publish(e)
    BY <2>3, <1>1 DEF Publish, hook
  <2> QED
    BY <1>8, <2>1, <2>2, <2>3 DEF EventStep
<1>9. CASE Open
  <2>1. socket' = [state |-> "open", from |-> 0] /\ closing' = closing
        /\ polling' = FALSE /\ reconnect' = reconnect
    BY <1>9 DEF Open
  <2> QED
    BY <2>1 DEF HookTypes, NeverIdle, NoSocket
<1>10. CASE Lost
  BY <1>10 DEF Lost, OnClose, StartPolling, HookTypes, NeverIdle
<1>11. CASE Closed
  <2>1. /\ closing' \in {closing - 1, closing} /\ closing > 0
        /\ polling' = TRUE /\ reconnect' = "connect"
    BY <1>11 DEF Closed, OnClose, StartPolling
  <2> QED
    BY <2>1 DEF HookTypes, NeverIdle
<1>12. CASE PollTick
  <2>1. polling /\ UNCHANGED <<polling, reconnect, link>>
    BY <1>12 DEF PollTick
  <2> QED
    BY <2>1 DEF HookTypes, NeverIdle, link
<1>13. CASE SnapshotTick
  <2>1. polling /\ UNCHANGED <<polling, reconnect, link>>
    BY <1>13 DEF SnapshotTick
  <2> QED
    BY <2>1 DEF HookTypes, NeverIdle, link
<1>14. CASE ReconnectFires
  <2>1. CASE Connect(cursor) /\ reconnect' = "none" /\ UNCHANGED polling
    BY <2>1, ConnectKeeps DEF HookTypes, NeverIdle
  <2>2. CASE Bootstrap("none") /\ UNCHANGED link
    BY <2>2, BootstrapKeeps DEF HookTypes, NeverIdle, link
  <2> QED
    BY <1>14, <2>1, <2>2 DEF ReconnectFires
<1>15. CASE UNCHANGED vars
  BY <1>15, <1>1 DEF vars, hook, link
<1> QED
  BY <1>2, <1>3, <1>4, <1>5, <1>6, <1>7, <1>8, <1>9, <1>10, <1>11, <1>12, <1>13, <1>14, <1>15
  DEF Next, SnapshotStep

-----------------------------------------------------------------------------
(* Records on their way into the picture.                                  *)

\* What may be announced of the registry.
Announcements == {Event(k, r) : k \in Keys, r \in Records \union {None}}

\* The registry, what it still has to announce, and the numbered events.
\* A version that can be lowered by a termination is above zero.
NodeData ==
    /\ latest \in Nat /\ records \in Pictures
    /\ \A k \in Keys : records[k] # None /\ records[k].status # "EVICTED" => records[k].version > 0
    /\ unpublished \subseteq Announcements
    /\ stream \in Seq(Items)
    /\ \A i \in DOMAIN stream : stream[i].seq = i

\* The reducer's state, and the cursor the hook keeps beside it.
ReducerData ==
    /\ picture \in Pictures /\ summary = Counted(picture)
    /\ eventCursor = cursor /\ cursor \in Nat

\* The socket and what is on its way through it.
LinkData ==
    /\ socket.from \in Nat
    /\ wire \in Seq(Items \union {Resync})
    /\ wire # <<>> => socket.state = "open"

\* Events that wait for a flush, and the answer that is on its way.
RequestData ==
    /\ batch \in Seq(Items)
    /\ snapshot.instances \in Pictures
    /\ snapshot.cursor \in Nat \union {None}

Data == NodeData /\ ReducerData /\ LinkData /\ RequestData

\* Versions that are given stay given.
LEMMA Widens ==
    ASSUME latest \in Nat, latest' \in Nat, latest <= latest'
    PROVE  /\ Records \subseteq Records' /\ Pictures \subseteq Pictures' /\ Items \subseteq Items'
           /\ Announcements \subseteq Announcements'
           /\ Seq(Items) \subseteq Seq(Items')
           /\ Seq(Items \union {Resync}) \subseteq Seq(Items' \union {Resync})
<1>1. 0..latest \subseteq 0..latest'
  OBVIOUS
<1>2. Records \subseteq Records'
  BY <1>1 DEF Records
<1>3. Pictures \subseteq Pictures' /\ Items \subseteq Items' /\ Announcements \subseteq Announcements'
  BY <1>2 DEF Pictures, Items, Announcements
<1>4. Items \union {Resync} \subseteq Items' \union {Resync}
  BY <1>3
<1>5. Seq(Items) \subseteq Seq(Items') /\ Seq(Items \union {Resync}) \subseteq Seq(Items' \union {Resync})
  BY <1>3, <1>4, SeqMonotonic
<1> QED
  BY <1>2, <1>3, <1>5

\* A step that leaves the node alone keeps its data.
LEMMA NodeFrame ==
    ASSUME NodeData, UNCHANGED node
    PROVE  NodeData'
  BY DEF NodeData, node, Pictures, Records, Items, Announcements

\* Later versions do not touch the picture.
LEMMA ReducerFrame ==
    ASSUME NodeData, ReducerData, UNCHANGED <<reducer, cursor>>, latest' \in Nat, latest <= latest'
    PROVE  ReducerData'
<1>1. Pictures \subseteq Pictures'
  BY Widens DEF NodeData
<1>2. picture' = picture /\ summary' = summary /\ eventCursor' = eventCursor /\ cursor' = cursor
  BY DEF reducer
<1>3. Counted(picture)' = Counted(picture)
  BY <1>2 DEF Counted, Listed
<1> QED
  BY <1>1, <1>2, <1>3 DEF ReducerData

\* Nor what is on the wire.
LEMMA LinkFrame ==
    ASSUME NodeData, LinkData, UNCHANGED <<socket, wire>>, latest' \in Nat, latest <= latest'
    PROVE  LinkData'
<1>1. Seq(Items \union {Resync}) \subseteq Seq(Items' \union {Resync})
  BY Widens DEF NodeData
<1> QED
  BY <1>1 DEF LinkData, Resync

\* Nor what waits for a flush or an answer.
LEMMA RequestFrame ==
    ASSUME NodeData, RequestData, UNCHANGED <<batch, snapshot>>, latest' \in Nat, latest <= latest'
    PROVE  RequestData'
<1>1. Seq(Items) \subseteq Seq(Items') /\ Pictures \subseteq Pictures'
  BY Widens DEF NodeData
<1> QED
  BY <1>1 DEF RequestData

\* A change of the registry by a record of a version that is given now.
LEMMA ChangesKeep ==
    ASSUME Data, NEW k \in Keys, NEW r \in Records' \union {None}, NEW events \in SUBSET Announcements',
           Changes(k, r, events), latest' \in Nat, latest <= latest',
           r # None /\ r.status # "EVICTED" => r.version > 0
    PROVE  Data'
<1> USE DEF Data
<1>1. /\ Pictures \subseteq Pictures' /\ Announcements \subseteq Announcements'
      /\ Seq(Items) \subseteq Seq(Items')
  BY Widens DEF NodeData
<1>2. records' = [records EXCEPT ![k] = r] /\ unpublished' = unpublished \union events
      /\ stream' = stream
  BY DEF Changes
<1>3. records \in Pictures' /\ records \in Pictures
  BY <1>1 DEF NodeData
<1>4. records' \in Pictures'
  BY <1>2, <1>3 DEF Pictures
<1>5. \A j \in Keys : records'[j] = IF j = k THEN r ELSE records[j]
  BY <1>2, <1>3 DEF Pictures
<1>6. NodeData'
  <2>1. unpublished' \subseteq Announcements'
    BY <1>1, <1>2 DEF NodeData
  <2>2. stream' \in Seq(Items)' /\ \A i \in DOMAIN stream' : stream'[i].seq = i
    BY <1>1, <1>2 DEF NodeData
  <2>3. \A j \in Keys : records'[j] # None /\ records'[j].status # "EVICTED" => records'[j].version > 0
    BY <1>5 DEF NodeData
  <2> QED
    BY <1>4, <2>1, <2>2, <2>3 DEF NodeData
<1>7. UNCHANGED <<reducer, cursor>> /\ UNCHANGED <<socket, wire>> /\ UNCHANGED <<batch, snapshot>>
  BY DEF Changes, link
<1> QED
  BY <1>6, <1>7, ReducerFrame, LinkFrame, RequestFrame

\* What is announced of a record that is known.
LEMMA AnnouncedNow ==
    ASSUME NEW k \in Keys, NEW r \in Records' \union {None}
    PROVE  {Event(k, r)} \in SUBSET Announcements'
  BY DEF Announcements, Event

\* Registrations, heartbeats, evictions, DELAYED marks and collections.
LEMMA ChangeKeeps ==
    ASSUME Data, Change
    PROVE  Data'
<1> USE DEF Data
<1>0. PICK k \in Keys : Renew(k) \/ Evict(k) \/ Delay(k) \/ Vanish(k)
  BY DEF Change
<1>a. latest \in Nat /\ records[k] \in Records \union {None}
  BY DEF NodeData, Pictures
<1>1. CASE Renew(k)
  <2> DEFINE r == [version |-> latest + 1, status |-> "ACTIVE"]
  <2>1. Changes(k, r, {Event(k, r)}) /\ latest' = latest + 1
    BY <1>1 DEF Renew
  <2>2. r \in Records' /\ r.version > 0
    BY <1>a, <2>1 DEF Records, Statuses
  <2> HIDE DEF r
  <2>3. {Event(k, r)} \in SUBSET Announcements'
    BY <2>2, AnnouncedNow
  <2>4. latest' \in Nat /\ latest <= latest' /\ r \in Records' \union {None}
    BY <1>a, <2>1, <2>2
  <2> QED
    BY <2>1, <2>2, <2>3, <2>4, ChangesKeep
<1>2. CASE Evict(k)
  <2>1. PICK version \in {records[k].version - 1, latest + 1} :
          LET record == [version |-> version, status |-> "EVICTED"]
          IN  /\ Changes(k, record, {Event(k, record)})
              /\ latest' = IF version > latest THEN version ELSE latest
    BY <1>2 DEF Evict
  <2> DEFINE r == [version |-> version, status |-> "EVICTED"]
  <2>2. Changes(k, r, {Event(k, r)}) /\ latest' = IF version > latest THEN version ELSE latest
    BY <2>1
  <2>3. records[k] \in Records /\ records[k].version > 0
    BY <1>2, <1>a DEF Evict, NodeData
  <2>4. records[k].version \in 0..latest
    BY <2>3 DEF Records
  <2>5. version \in Nat /\ latest' \in Nat /\ latest <= latest' /\ version <= latest'
    BY <1>a, <2>1, <2>2, <2>3, <2>4
  <2>6. r \in Records' /\ r.status = "EVICTED"
    BY <2>5 DEF Records, Statuses
  <2> HIDE DEF r
  <2>7. {Event(k, r)} \in SUBSET Announcements' /\ r \in Records' \union {None}
    BY <2>6, AnnouncedNow
  <2> QED
    BY <2>2, <2>5, <2>6, <2>7, ChangesKeep
<1>3. CASE Delay(k)
  <2> DEFINE r == [records[k] EXCEPT !.status = "DELAYED"]
  <2>1. Changes(k, r, {Event(k, r)}) /\ latest' = latest
    BY <1>3 DEF Delay
  <2>2. records[k] \in Records /\ records[k].version > 0
    BY <1>3, <1>a DEF Delay, NodeData
  <2>3. r \in Records' /\ r.version > 0
    BY <2>1, <2>2 DEF Records, Statuses
  <2> HIDE DEF r
  <2>4. {Event(k, r)} \in SUBSET Announcements' /\ r \in Records' \union {None}
    BY <2>3, AnnouncedNow
  <2>5. latest' \in Nat /\ latest <= latest'
    BY <1>a, <2>1
  <2> QED
    BY <2>1, <2>3, <2>4, <2>5, ChangesKeep
<1>4. CASE Vanish(k)
  <2>1. latest' = latest /\ \E events \in {{Event(k, None)}, {}} : Changes(k, None, events)
    BY <1>4 DEF Vanish
  <2>2. PICK events \in {{Event(k, None)}, {}} : Changes(k, None, events)
    BY <2>1
  <2>3. None \in Records' \union {None}
    OBVIOUS
  <2>4. {Event(k, None)} \in SUBSET Announcements'
    BY <2>3, AnnouncedNow
  <2>5. events \in SUBSET Announcements'
    BY <2>2, <2>4
  <2>6. latest' \in Nat /\ latest <= latest'
    BY <1>a, <2>1
  <2> QED
    BY <2>2, <2>3, <2>5, <2>6, ChangesKeep
<1> QED
  BY <1>0, <1>1, <1>2, <1>3, <1>4

\* A step that leaves the node alone.
LEMMA HookStep ==
    ASSUME Data, UNCHANGED node
    PROVE  /\ NodeData' /\ latest' \in Nat /\ latest <= latest'
           /\ Pictures' = Pictures /\ Items' = Items
           /\ UNCHANGED <<reducer, cursor>> => ReducerData'
           /\ UNCHANGED <<socket, wire>> => LinkData'
           /\ UNCHANGED <<batch, snapshot>> => RequestData'
<1>1. latest' = latest /\ latest \in Nat
  BY DEF Data, NodeData, node
<1>2. latest' \in Nat /\ latest <= latest'
  BY <1>1
<1>3. Pictures' = Pictures /\ Items' = Items
  BY <1>1 DEF Pictures, Items, Records
<1>4. NodeData /\ ReducerData /\ LinkData /\ RequestData
  BY DEF Data
<1> QED
  BY <1>2, <1>3, <1>4, NodeFrame, ReducerFrame, LinkFrame, RequestFrame

\* What the ring returns are events.
LEMMA SinceIsEvents ==
    ASSUME NodeData, NEW from \in Nat
    PROVE  Since(from) \in Seq(Items)
<1> DEFINE first == IF from < Oldest THEN Oldest ELSE from + 1
<1>1. stream \in Seq(Items) /\ Len(stream) \in Nat /\ Capacity \in Nat
  BY DashboardAssumption DEF NodeData
<1>2. Oldest \in Nat /\ 1 <= Oldest
  BY <1>1 DEF Oldest
<1>3. first \in Int /\ 1 <= first
  BY <1>2
<1> HIDE DEF first
<1>4. \A i \in first..Len(stream) : stream[i] \in Items
  <2> SUFFICES ASSUME NEW i \in first..Len(stream)
               PROVE  stream[i] \in Items
    OBVIOUS
  <2>1. i \in 1..Len(stream)
    BY <1>1, <1>3
  <2> QED
    BY <1>1, <2>1
<1>5. SubSeq(stream, first, Len(stream)) \in Seq(Items)
  <2>1. Len(stream) \in Int
    BY <1>1
  <2> QED
    BY <1>3, <1>4, <2>1, SubSeqProperties
<1> QED
  BY <1>5 DEF Since, first

\* So is what a poll is answered.
LEMMA AnswerIsEvents ==
    ASSUME NodeData, cursor \in Nat
    PROVE  Answer \in Seq(Items)
<1> DEFINE since == Since(cursor)
<1>1. since \in Seq(Items) /\ Len(since) \in Nat
  BY SinceIsEvents
<1> DEFINE last == Min({PollLimit, Len(since)})
<1>2. PollLimit \in Nat
  BY DashboardAssumption
<1> HIDE DEF since
<1>3. last \in {PollLimit, Len(since)}
  <2> DEFINE both == {PollLimit, Len(since)}
  <2>1. both \subseteq Nat /\ both # {}
    BY <1>1, <1>2
  <2> HIDE DEF both
  <2>2. Min(both) \in both
    BY <2>1, MinOfNat
  <2> QED
    BY <2>2 DEF both
<1>4. last \in Nat /\ last <= Len(since)
  <2>1. \E n \in {PollLimit, Len(since)} : \A m \in {PollLimit, Len(since)} : n =< m
    BY <1>1, <1>2
  <2>2. \A m \in {PollLimit, Len(since)} : last =< m
    BY <2>1 DEF Min
  <2> QED
    BY <1>1, <1>2, <1>3, <2>2
<1> HIDE DEF last
<1>5. \A i \in 1..last : since[i] \in Items
  BY <1>1, <1>4
<1>6. SubSeq(since, 1, last) \in Seq(Items)
  BY <1>4, <1>5, SubSeqProperties
<1> QED
  BY <1>6 DEF Answer, since, last

\* A new socket starts at a cursor, with nothing on its wire.
LEMMA ConnectData ==
    ASSUME NEW from \in Nat, Connect(from)
    PROVE  LinkData'
<1>1. socket' = [state |-> "connecting", from |-> from] /\ wire' = <<>>
  BY DEF Connect
<1> QED
  BY <1>1 DEF LinkData

\* A socket that is gone leaves nothing on the wire.
LEMMA DisconnectData ==
    ASSUME Disconnect
    PROVE  LinkData'
<1>1. socket' = [state |-> "none", from |-> 0] /\ wire' = <<>>
  BY DEF Disconnect, NoSocket
<1> QED
  BY <1>1 DEF LinkData

\* A snapshot that is loading holds records of the registry.
LEMMA LoadingData ==
    ASSUME Data, UNCHANGED <<node, batch>>,
           snapshot' \in {snapshot, NoSnapshot} \/ \E by : Load(by)
    PROVE  RequestData'
<1>1. Pictures' = Pictures /\ Items' = Items /\ batch' = batch
  BY HookStep
<1>2. batch \in Seq(Items)
  BY DEF Data, RequestData
<1>3. snapshot'.instances \in Pictures /\ snapshot'.cursor \in Nat \union {None}
  <2>1. CASE snapshot' = snapshot
    BY <2>1 DEF Data, RequestData
  <2>2. CASE \E by : Load(by)
    <3>0. PICK by : Load(by)
      BY <2>2
    <3>1. PICK hidden \in SUBSET Tombstones :
             snapshot' = [by |-> by, instances |-> Without(hidden), cursor |-> None]
      BY <3>0 DEF Load
    <3>2. Without(hidden) \in Pictures
      BY DEF Without, Data, NodeData, Pictures
    <3> QED
      BY <3>1, <3>2
  <2>3. CASE snapshot' = NoSnapshot
    BY <2>3 DEF NoSnapshot, Empty, Pictures
  <2> QED
    BY <2>1, <2>2, <2>3
<1> QED
  BY <1>1, <1>2, <1>3 DEF RequestData

\* A refresh begins a snapshot, or leaves the one that is loading.
LEMMA RefreshData ==
    ASSUME Data, UNCHANGED <<node, batch>>, Refresh
    PROVE  RequestData'
<1>1. snapshot' = snapshot \/ Load("refresh")
  BY DEF Refresh
<1> QED
  BY <1>1, LoadingData

\* So does a bootstrap.
LEMMA BootstrapData ==
    ASSUME Data, UNCHANGED <<node, batch>>, NEW timer, Bootstrap(timer)
    PROVE  RequestData'
<1>1. snapshot' = snapshot \/ Load("bootstrap")
  BY DEF Bootstrap
<1> QED
  BY <1>1, LoadingData

\* An event gets the next number, in the ring and on the wire.
LEMMA PublishKeeps ==
    ASSUME Data, NEW e \in unpublished, Publish(e)
    PROVE  Data'
<1> DEFINE event == [e EXCEPT !.seq = Len(stream) + 1]
<1>1. /\ unpublished' = unpublished \ {e} /\ stream' = Append(stream, event)
      /\ wire' = IF socket.state = "open" /\ wire # <<Resync>> THEN Append(wire, event) ELSE wire
      /\ latest' = latest /\ records' = records /\ socket' = socket
      /\ UNCHANGED <<reducer, cursor>> /\ UNCHANGED <<batch, snapshot>>
  BY DEF Publish
<1>2. Records' = Records /\ Pictures' = Pictures /\ Items' = Items /\ Announcements' = Announcements
  BY <1>1 DEF Records, Pictures, Items, Announcements
<1>3. stream \in Seq(Items) /\ Len(stream) \in Nat
  BY DEF Data, NodeData
<1>4. event \in Items /\ event.seq = Len(stream) + 1
  <2>1. e \in Announcements
    BY DEF Data, NodeData
  <2>2. PICK k \in Keys, r \in Records \union {None} : e = Event(k, r)
    BY <2>1 DEF Announcements
  <2>3. event = [seq |-> Len(stream) + 1, key |-> k, record |-> r]
    BY <2>2 DEF Event
  <2> QED
    BY <1>3, <2>2, <2>3 DEF Items
<1> HIDE DEF event
<1>5. NodeData'
  <2>1. /\ stream' \in Seq(Items) /\ Len(stream') = Len(stream) + 1
        /\ \A i \in 1..Len(stream) : stream'[i] = stream[i]
        /\ stream'[Len(stream) + 1] = event
    BY <1>1, <1>3, <1>4, AppendProperties
  <2>2. \A i \in DOMAIN stream' : stream'[i].seq = i
    <3> SUFFICES ASSUME NEW i \in 1..(Len(stream) + 1)
                 PROVE  stream'[i].seq = i
      BY <1>3, <2>1
    <3>1. CASE i = Len(stream) + 1
      <4>1. stream'[i] = event
        BY <2>1, <3>1
      <4> QED
        BY <1>4, <3>1, <4>1
    <3>2. CASE i \in 1..Len(stream)
      <4>1. stream[i].seq = i
        BY <1>3, <3>2 DEF Data, NodeData
      <4> QED
        BY <2>1, <3>2, <4>1
    <3> QED
      BY <1>3, <3>1, <3>2
  <2> QED
    BY <1>1, <1>2, <2>1, <2>2 DEF Data, NodeData
<1>6. LinkData'
  <2>1. wire \in Seq(Items \union {Resync}) /\ event \in Items \union {Resync}
    BY <1>4 DEF Data, LinkData
  <2>2. Append(wire, event) \in Seq(Items \union {Resync})
    BY <2>1, AppendProperties
  <2>3. wire' \in Seq(Items \union {Resync})
    BY <1>1, <2>1, <2>2
  <2>4. wire' # <<>> => socket.state = "open"
    BY <1>1 DEF Data, LinkData
  <2> QED
    BY <1>1, <1>2, <2>3, <2>4 DEF Data, LinkData, Resync
<1>7. latest' \in Nat /\ latest <= latest'
  BY <1>1 DEF Data, NodeData
<1> QED
  BY <1>1, <1>5, <1>6, <1>7, ReducerFrame, RequestFrame DEF Data

\* A node that starts again has nothing to announce and numbers from 1.
LEMMA RestartKeeps ==
    ASSUME Data, Restart
    PROVE  Data'
<1>1. /\ records' = Empty /\ unpublished' = {} /\ stream' = <<>> /\ latest' = latest
      /\ UNCHANGED <<reducer, cursor>> /\ UNCHANGED <<batch, snapshot>>
  BY DEF Restart
<1>2. latest' \in Nat /\ latest <= latest'
  BY <1>1 DEF Data, NodeData
<1>3. NodeData'
  <2>1. records' \in Pictures' /\ \A k \in Keys : records'[k] = None
    BY <1>1 DEF Empty, Pictures
  <2>2. stream' \in Seq(Items') /\ DOMAIN stream' = {}
    BY <1>1
  <2> QED
    BY <1>1, <1>2, <2>1, <2>2 DEF NodeData
<1>4. LinkData'
  <2>1. CASE socket.state = "open"
    BY <2>1, DisconnectData DEF Restart
  <2>2. CASE socket.state # "open"
    <3>1. UNCHANGED <<socket, wire>>
      BY <2>2 DEF Restart, link
    <3> QED
      BY <1>2, <3>1, LinkFrame DEF Data
  <2> QED
    BY <2>1, <2>2
<1> QED
  BY <1>1, <1>2, <1>3, <1>4, ReducerFrame, RequestFrame DEF Data

\* The user's retry or return to the page begins a snapshot at most.
LEMMA GestureKeeps ==
    ASSUME Data, Gesture
    PROVE  Data'
<1>1. UNCHANGED <<node, batch>> /\ UNCHANGED <<reducer, cursor>> /\ UNCHANGED <<socket, wire>>
  BY DEF Gesture, link
<1>2. RequestData'
  BY <1>1, BootstrapData, RefreshData DEF Gesture
<1> QED
  BY <1>1, <1>2, HookStep DEF Data

\* The cursor of a snapshot is the number of the last event.
LEMMA ServeCursorKeeps ==
    ASSUME Data, ServeCursor
    PROVE  Data'
<1>1. UNCHANGED node /\ UNCHANGED <<reducer, cursor>> /\ UNCHANGED <<socket, wire>> /\ batch' = batch
      /\ snapshot' = [snapshot EXCEPT !.cursor = Len(stream)]
  BY DEF ServeCursor, link
<1>2. Len(stream) \in Nat
  BY DEF Data, NodeData
<1>3. snapshot'.instances \in Pictures /\ snapshot'.cursor \in Nat \union {None}
  BY <1>1, <1>2 DEF Data, RequestData
<1>4. RequestData'
  BY <1>1, <1>3, HookStep DEF Data, RequestData
<1> QED
  BY <1>1, <1>4, HookStep DEF Data

\* A snapshot replaces picture, counts and both cursors.
LEMMA SnapshotArrivesKeeps ==
    ASSUME Data, SnapshotArrives
    PROVE  Data'
<1>1. UNCHANGED node /\ UNCHANGED <<node, batch>> /\ snapshot' = NoSnapshot /\ cursor' = snapshot.cursor
      /\ ReduceSnapshot(snapshot.instances, snapshot.cursor)
  BY DEF SnapshotArrives
<1>2. snapshot.cursor \in Nat /\ snapshot.instances \in Pictures
  BY DEF SnapshotArrives, Data, RequestData
<1>3. Pictures' = Pictures
  BY <1>1, HookStep
<1>4. ReducerData'
  <2>1. picture' = snapshot.instances /\ summary' = Counted(snapshot.instances)
        /\ eventCursor' = snapshot.cursor
    BY <1>1 DEF ReduceSnapshot
  <2>2. Counted(picture)' = Counted(snapshot.instances)
    BY <2>1 DEF Counted, Listed
  <2> QED
    BY <1>1, <1>2, <1>3, <2>1, <2>2 DEF ReducerData
<1>5. RequestData'
  BY <1>1, LoadingData
<1>6. LinkData'
  <2>1. CASE snapshot.by = "bootstrap"
    BY <1>2, <2>1, ConnectData DEF SnapshotArrives
  <2>2. CASE snapshot.by # "bootstrap"
    BY <1>1, <2>2, HookStep DEF SnapshotArrives, link
  <2> QED
    BY <2>1, <2>2
<1> QED
  BY <1>1, <1>4, <1>5, <1>6, HookStep DEF Data

\* A failed snapshot leaves what is shown alone.
LEMMA SnapshotFailsKeeps ==
    ASSUME Data, SnapshotFails
    PROVE  Data'
<1>1. UNCHANGED node /\ UNCHANGED <<node, batch>> /\ UNCHANGED <<reducer, cursor>>
      /\ UNCHANGED <<socket, wire>> /\ snapshot' = NoSnapshot
  BY DEF SnapshotFails, link
<1>2. RequestData'
  BY <1>1, LoadingData
<1> QED
  BY <1>1, <1>2, HookStep DEF Data

\* An event moves from the wire to the batch; a RESYNC_REQUIRED never does.
LEMMA ReceiveKeeps ==
    ASSUME Data, Receive
    PROVE  Data'
<1>1. UNCHANGED node /\ UNCHANGED <<reducer, cursor>> /\ wire # <<>>
  BY DEF Receive
<1>2. CASE Head(wire) = Resync
  <2>1. Disconnect /\ Refresh /\ UNCHANGED <<node, batch>>
    BY <1>1, <1>2 DEF Receive
  <2> QED
    BY <1>1, <2>1, DisconnectData, RefreshData, HookStep DEF Data
<1>3. CASE Head(wire) # Resync
  <2>1. batch' = Append(batch, Head(wire)) /\ wire' = Tail(wire) /\ socket' = socket
        /\ snapshot' = snapshot
    BY <1>3 DEF Receive
  <2>2. /\ wire \in Seq(Items \union {Resync}) /\ socket.state = "open" /\ socket.from \in Nat
        /\ batch \in Seq(Items)
    BY <1>1 DEF Data, LinkData, RequestData
  <2>3. Head(wire) \in Items \union {Resync} /\ Tail(wire) \in Seq(Items \union {Resync})
    BY <1>1, <2>2, HeadTailProperties
  <2>4. Append(batch, Head(wire)) \in Seq(Items)
    <3>1. Head(wire) \in Items
      BY <1>3, <2>3
    <3> QED
      BY <2>2, <3>1, AppendProperties
  <2>5. Pictures' = Pictures /\ Items' = Items /\ Resync' = Resync
    BY <1>1, HookStep DEF Resync
  <2>6. LinkData'
    BY <2>1, <2>2, <2>3, <2>5 DEF LinkData
  <2>7. RequestData'
    BY <2>1, <2>4, <2>5 DEF Data, RequestData
  <2> QED
    BY <1>1, <2>6, <2>7, HookStep DEF Data
<1> QED
  BY <1>2, <1>3

\* A flush moves the hook's cursor and the reducer's to the same number.
LEMMA FlushKeeps ==
    ASSUME Data, Flush
    PROVE  Data'
<1>1. UNCHANGED node /\ UNCHANGED <<socket, wire>> /\ batch # <<>> /\ batch' = <<>>
      /\ cursor' = Max({cursor} \union Seqs(batch)) /\ ReduceEvents(batch) /\ snapshot' = snapshot
  BY DEF Flush, link
<1>2. batch \in Seq(Items) /\ picture \in Pictures /\ summary = Counted(picture)
      /\ eventCursor \in Nat /\ eventCursor = cursor
  BY DEF Data, RequestData, ReducerData
<1>3. /\ picture' \in Pictures /\ summary' = Counted(picture')
      /\ eventCursor' = Max({eventCursor} \union Seqs(batch))
  BY <1>1, <1>2, BatchKeeps
<1>4. cursor' \in Nat
  <2> DEFINE all == {cursor} \union Seqs(batch)
  <2>1. Seqs(batch) \subseteq Nat /\ \E bound \in Nat : \A n \in Seqs(batch) : n <= bound
    BY <1>1, <1>2, SeqsOfBatch
  <2>2. PICK bound \in Nat : \A n \in Seqs(batch) : n <= bound
    BY <2>1
  <2> DEFINE both == IF cursor <= bound THEN bound ELSE cursor
  <2>3. both \in Nat /\ cursor <= both /\ bound <= both
    BY <1>2, <2>2
  <2> HIDE DEF both
  <2>4. \A n \in all : n <= both
    <3> SUFFICES ASSUME NEW n \in Seqs(batch)
                 PROVE  n <= both
      BY <2>3
    <3>1. n \in Nat /\ n <= bound
      BY <2>1, <2>2
    <3> QED
      BY <2>2, <2>3, <3>1
  <2>5. all \subseteq Nat /\ all # {}
    BY <1>2, <2>1
  <2>6. Max(all) \in all
    <3> HIDE DEF all
    <3> QED
      BY <2>3, <2>4, <2>5, MaxOfNat
  <2> QED
    BY <1>1, <2>5, <2>6
<1>5. Pictures' = Pictures
  BY <1>1, HookStep
<1>6. ReducerData'
  <2>1. Counted(picture)' = Counted(picture')
    BY DEF Counted, Listed
  <2> QED
    BY <1>1, <1>2, <1>3, <1>4, <1>5, <2>1 DEF ReducerData
<1>7. RequestData'
  BY <1>1, <1>5, HookStep DEF Data, RequestData
<1> QED
  BY <1>1, <1>6, <1>7, HookStep DEF Data

\* A socket that opens is sent what the ring retains, or RESYNC_REQUIRED.
LEMMA OpenKeeps ==
    ASSUME Data, Open
    PROVE  Data'
<1>1. UNCHANGED node /\ UNCHANGED <<reducer, cursor>> /\ UNCHANGED <<batch, snapshot>>
      /\ socket' = [state |-> "open", from |-> 0]
      /\ wire' = IF Expired(socket.from) THEN <<Resync>> ELSE Since(socket.from)
  BY DEF Open
<1>2. Since(socket.from) \in Seq(Items)
  BY SinceIsEvents DEF Data, LinkData
<1>3. Since(socket.from) \in Seq(Items \union {Resync})
  <2>1. Items \subseteq Items \union {Resync}
    OBVIOUS
  <2> QED
    BY <1>2, <2>1, SeqMonotonic
<1>4. <<Resync>> \in Seq(Items \union {Resync})
  OBVIOUS
<1>5. Items' = Items /\ Resync' = Resync
  BY <1>1, HookStep DEF Resync
<1>6. LinkData'
  BY <1>1, <1>3, <1>4, <1>5 DEF LinkData
<1> QED
  BY <1>1, <1>6, HookStep DEF Data

\* A socket that is lost leaves what is shown alone.
LEMMA LostKeeps ==
    ASSUME Data, Lost
    PROVE  Data'
<1>1. UNCHANGED node /\ UNCHANGED <<reducer, cursor>> /\ UNCHANGED <<batch, snapshot>>
      /\ socket' = [state |-> "none", from |-> 0] /\ wire' = <<>>
  BY DEF Lost, NoSocket
<1>2. LinkData'
  BY <1>1 DEF LinkData
<1> QED
  BY <1>1, <1>2, HookStep DEF Data

\* So does a close event, with or without an error.
LEMMA ClosedKeeps ==
    ASSUME Data, Closed
    PROVE  Data'
<1>1. UNCHANGED node /\ UNCHANGED <<reducer, cursor>> /\ UNCHANGED <<batch, snapshot>>
  BY DEF Closed
<1>2. LinkData'
  <2>1. CASE UNCHANGED <<socket, wire>>
    BY <1>1, <2>1, HookStep
  <2>2. CASE socket' = NoSocket /\ wire' = <<>>
    BY <2>2 DEF LinkData, NoSocket
  <2> QED
    BY <2>1, <2>2 DEF Closed
<1> QED
  BY <1>1, <1>2, HookStep DEF Data

\* A poll adds events of the ring to the batch, or begins a snapshot.
LEMMA PollTickKeeps ==
    ASSUME Data, PollTick
    PROVE  Data'
<1>1. UNCHANGED node /\ UNCHANGED <<reducer, cursor>> /\ UNCHANGED <<socket, wire>>
  BY DEF PollTick, link
<1>2. RequestData'
  <2>1. CASE Expired(cursor)
    BY <1>1, <2>1, RefreshData DEF PollTick
  <2>2. CASE ~Expired(cursor)
    <3>1. batch' = batch \o Answer /\ snapshot' = snapshot
      BY <2>2 DEF PollTick
    <3>2. batch \in Seq(Items) /\ Answer \in Seq(Items)
      BY AnswerIsEvents DEF Data, RequestData, ReducerData
    <3>3. batch' \in Seq(Items)
      BY <3>1, <3>2, ConcatProperties
    <3> QED
      BY <1>1, <3>1, <3>3, HookStep DEF Data, RequestData
  <2> QED
    BY <2>1, <2>2
<1> QED
  BY <1>1, <1>2, HookStep DEF Data

\* The timer of 30 seconds begins a snapshot at most.
LEMMA SnapshotTickKeeps ==
    ASSUME Data, SnapshotTick
    PROVE  Data'
<1>1. UNCHANGED <<node, batch>> /\ UNCHANGED <<reducer, cursor>> /\ UNCHANGED <<socket, wire>> /\ Refresh
  BY DEF SnapshotTick, link
<1> QED
  BY <1>1, RefreshData, HookStep DEF Data

\* A reconnect starts at the hook's cursor, or with a snapshot.
LEMMA ReconnectFiresKeeps ==
    ASSUME Data, ReconnectFires
    PROVE  Data'
<1>1. UNCHANGED <<node, batch>> /\ UNCHANGED <<reducer, cursor>>
  BY DEF ReconnectFires
<1>2. CASE Connect(cursor) /\ snapshot' = snapshot
  <2>1. cursor \in Nat
    BY DEF Data, ReducerData
  <2>2. LinkData'
    BY <1>2, <2>1, ConnectData
  <2> QED
    BY <1>1, <1>2, <2>2, HookStep DEF Data
<1>3. CASE Bootstrap("none") /\ UNCHANGED link
  <2>1. UNCHANGED <<socket, wire>>
    BY <1>3 DEF link
  <2> QED
    BY <1>1, <1>3, <2>1, BootstrapData, HookStep DEF Data
<1> QED
  BY <1>2, <1>3 DEF ReconnectFires

\* The page before its first bootstrap.
LEMMA InitData == Init => Data
<1> SUFFICES ASSUME Init
             PROVE  Data
  OBVIOUS
<1>1. /\ records = [k \in Keys |-> [version |-> 1, status |-> "EVICTED"]] /\ latest = 1
      /\ unpublished = {} /\ stream = <<>>
      /\ picture = Empty /\ summary = Counted(Empty) /\ eventCursor = 0 /\ cursor = 0
      /\ batch = <<>> /\ socket = NoSocket /\ wire = <<>> /\ snapshot = NoSnapshot
  BY DEF Init
<1>2. [version |-> 1, status |-> "EVICTED"] \in Records
  BY <1>1 DEF Records, Statuses
<1>3. Empty \in Pictures
  BY DEF Empty, Pictures
<1>4. NodeData
  <2>1. records \in Pictures /\ \A k \in Keys : records[k].status = "EVICTED"
    BY <1>1, <1>2 DEF Pictures
  <2>2. stream \in Seq(Items) /\ DOMAIN stream = {}
    BY <1>1
  <2> QED
    BY <1>1, <2>1, <2>2 DEF NodeData
<1>5. ReducerData
  BY <1>1, <1>3 DEF ReducerData
<1>6. LinkData
  BY <1>1 DEF LinkData, NoSocket
<1>7. RequestData
  BY <1>1, <1>3 DEF RequestData, NoSnapshot
<1> QED
  BY <1>4, <1>5, <1>6, <1>7 DEF Data

\* Every step keeps the data.
LEMMA StepData ==
    ASSUME Data, [Next]_vars
    PROVE  Data'
<1>1. CASE EventStep
  BY <1>1, ReceiveKeeps, FlushKeeps, PublishKeeps DEF EventStep
<1>2. CASE SnapshotStep
  BY <1>2, ServeCursorKeeps, SnapshotArrivesKeeps DEF SnapshotStep
<1>3. CASE UNCHANGED vars
  <2>1. UNCHANGED node /\ UNCHANGED <<reducer, cursor>> /\ UNCHANGED <<socket, wire>>
        /\ UNCHANGED <<batch, snapshot>>
    BY <1>3 DEF vars, link
  <2> QED
    BY <2>1, HookStep DEF Data
<1> QED
  BY <1>1, <1>2, <1>3, ChangeKeeps, RestartKeeps, GestureKeeps, SnapshotFailsKeeps, OpenKeeps,
     LostKeeps, ClosedKeeps, PollTickKeeps, SnapshotTickKeeps, ReconnectFiresKeeps DEF Next

\* The types a run checks follow.
LEMMA DataGivesTypes ==
    ASSUME IInv, Data
    PROVE  TypeOK
<1>1. \A k \in Keys : picture[k] # None => picture[k].version <= latest
  <2> SUFFICES ASSUME NEW k \in Keys, picture[k] # None
               PROVE  picture[k].version <= latest
    OBVIOUS
  <2>1. picture[k] \in Records
    BY DEF Data, ReducerData, Pictures
  <2>2. picture[k].version \in 0..latest
    BY <2>1 DEF Records
  <2> QED
    BY <2>2 DEF Data, NodeData
<1>2. unpublished \subseteq {Event(k, r) : k \in Keys, r \in [version : 0..latest, status : Statuses] \union {None}}
  BY DEF Data, NodeData, Announcements, Records
<1> QED
  BY <1>1, <1>2 DEF TypeOK, IInv, HookTypes, Data, NodeData, ReducerData, LinkData

-----------------------------------------------------------------------------
(* The theorems.                                                           *)

\* The hook always has a way on: whatever fails, closes, restarts or is
\* retried in useDashboardData.ts, and in whatever order, a snapshot is
\* loading for a bootstrap, or there is a socket, or a close event to come,
\* or the console is polling, or a timer runs.
THEOREM ConsoleNeverIdle == Spec => []NeverIdle
<1>1. Init => IInv
  BY InitKeeps
<1>2. IInv /\ [Next]_vars => IInv'
  BY StepKeeps
<1>3. IInv => NeverIdle
  BY DEF IInv
<1> QED
  BY <1>1, <1>2, <1>3, PTL DEF Spec

\* Both parts hold of every state.
LEMMA Invariant == Spec => [](IInv /\ Data)
<1>1. Init => IInv /\ Data
  BY InitKeeps, InitData
<1>2. IInv /\ Data /\ [Next]_vars => IInv' /\ Data'
  BY StepKeeps, StepData
<1> QED
  BY <1>1, <1>2, PTL DEF Spec

\* Whatever is registered, lost, restarted or overtaken, the picture shows
\* only versions the registry has given, the two cursors of reducer and hook
\* (dashboard.ts, useDashboardData.ts) agree, and an open socket alone
\* delivers.
THEOREM TypeCorrect == Spec => []TypeOK
<1>1. IInv /\ Data => TypeOK
  BY DataGivesTypes
<1> QED
  BY <1>1, Invariant, PTL

\* The counters in the console's header, kept by increments in
\* dashboardReducer (dashboard.ts:128), are those of the instances it shows,
\* for any number of instances and any batches.
THEOREM CountersMatchTheList == Spec => []SummaryMatches
<1>1. IInv /\ Data => SummaryMatches
  BY DEF Data, ReducerData, SummaryMatches
<1> QED
  BY <1>1, Invariant, PTL
=============================================================================
