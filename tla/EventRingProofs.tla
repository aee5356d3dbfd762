--------------------------- MODULE EventRingProofs ---------------------------
(***************************************************************************)
(* What the event ring promises its readers, for any number of             *)
(* subscribers, any capacity, any queue and any number of events: a poll   *)
(* is complete, a stream is in order, and no slow subscriber loses an      *)
(* event without being told.                                               *)
(*                                                                         *)
(* The invariant says what the ring holds (the latest events, without a    *)
(* gap) and, phase by phase, what a subscriber's stream is: what it has    *)
(* received followed by what waits in its channel.  Receiving moves an     *)
(* item within the stream, an offer appends to it, draining removes from   *)
(* its middle.  The copying loop of After is computed by induction, as the *)
(* least index at which it could differ from the expected run.             *)
(***************************************************************************)
EXTENDS EventRing, SequenceTheorems, WellFoundedInduction, TLAPS

\* Every nonempty set of naturals has a least element.
LEMMA LeastNat ==
    ASSUME NEW T, T \subseteq Nat, T # {}
    PROVE  \E n \in T : \A k \in T : n <= k
<1> DEFINE R == {p \in Nat \X Nat : p[1] < p[2]}
<1>1. IsWellFoundedOn(R, Nat)
  BY NatLessThanWellFounded DEF OpToRel
<1>2. \A x, y \in Nat : <<y, x>> \in R <=> y < x
  OBVIOUS
<1> HIDE DEF R
<1>3. PICK n \in T : \A k \in T : ~(<<k, n>> \in R)
  BY <1>1, WFMin
<1> SUFFICES ASSUME NEW k \in T PROVE n <= k
  OBVIOUS
<1>4. n \in Nat /\ k \in Nat /\ ~(<<k, n>> \in R)
  BY <1>3
<1>5. ~(k < n)
  BY <1>2, <1>4
<1> QED  BY <1>4, <1>5

\* The entries are the last sequence numbers handed out, oldest first.
Oldest == nextSeq - Len(entries)
Contiguous ==
    /\ entries \in Seq(Nat)
    /\ nextSeq \in Nat \ {0}
    /\ Len(entries) < nextSeq
    /\ \A i \in 1..Len(entries) : entries[i] = Oldest + i - 1

\* Consecutive sequence numbers.
Run(from, n) == [j \in 1..n |-> from + j]

\* A run is a sequence.
LEMMA RunIsSeq ==
    ASSUME NEW from \in Nat, NEW n \in Nat
    PROVE  /\ Run(from, n) \in Seq(Nat)
           /\ Len(Run(from, n)) = n
           /\ \A j \in 1..n : Run(from, n)[j] = from + j
  BY DEF Run

\* One more sequence number makes a longer run.
LEMMA RunGrows ==
    ASSUME NEW from \in Nat, NEW n \in Nat
    PROVE  Append(Run(from, n), from + n + 1) = Run(from, n + 1)
<1> DEFINE s == Run(from, n)
<1> DEFINE t == Append(s, from + n + 1)
<1> DEFINE u == Run(from, n + 1)
<1>1. s \in Seq(Nat) /\ Len(s) = n /\ \A j \in 1..n : s[j] = from + j
  BY RunIsSeq
<1>2. u \in Seq(Nat) /\ Len(u) = n + 1 /\ \A j \in 1..(n + 1) : u[j] = from + j
  BY RunIsSeq
<1> HIDE DEF s, u
<1>3. from + n + 1 \in Nat
  OBVIOUS
<1>4. /\ t \in Seq(Nat) /\ Len(t) = n + 1
      /\ \A j \in 1..n : t[j] = s[j]
      /\ t[n + 1] = from + n + 1
  BY <1>1, <1>3, AppendProperties
<1> HIDE DEF t
<1>5. \A j \in 1..(n + 1) : t[j] = u[j]
  BY <1>1, <1>2, <1>4
<1> QED  BY <1>2, <1>4, <1>5, SeqEqual DEF s, t, u

\* The copying loop of Since and Subscribe returns the run of sequence
\* numbers after the cursor, or all entries when the cursor is older than they.
LEMMA AfterIsRun ==
    ASSUME Contiguous, NEW cursor \in 0..(nextSeq - 1)
    PROVE  LET from == IF cursor < Oldest - 1 THEN Oldest - 1 ELSE cursor
           IN  /\ from \in cursor..(nextSeq - 1)
               /\ After(cursor) = Run(from, nextSeq - 1 - from)
<1> DEFINE from == IF cursor < Oldest - 1 THEN Oldest - 1 ELSE cursor
<1> DEFINE len == Len(entries)
<1> DEFINE skip == from - (Oldest - 1)
<1> DEFINE g == [i \in 0..len |-> Run(from, IF i > skip THEN i - skip ELSE 0)]
<1> DEFINE Copies(f) == f = [i \in 0..len |->
            IF i = 0 THEN <<>>
            ELSE IF entries[i] > cursor THEN Append(f[i - 1], entries[i])
            ELSE f[i - 1]]
<1>1. /\ len \in Nat /\ cursor \in Nat /\ Oldest \in Nat \ {0} /\ Oldest = nextSeq - len
      /\ from \in Nat /\ from \in cursor..(nextSeq - 1)
      /\ skip \in 0..len /\ from = Oldest - 1 + skip
      /\ skip # 0 => from = cursor
      /\ skip = 0 => cursor <= from
  BY DEF Contiguous, Oldest
<1>2. \A i \in 1..len : entries[i] > cursor <=> i > skip
  BY <1>1 DEF Contiguous
<1>3. \A i \in 1..len : entries[i] = Oldest + i - 1
  BY DEF Contiguous
<1>4. Run(from, 0) = <<>>
  BY DEF Run
<1> HIDE DEF from, skip, len
<1>5. Copies(g)
  <2> SUFFICES ASSUME NEW i \in 0..len
               PROVE  g[i] = IF i = 0 THEN <<>>
                             ELSE IF entries[i] > cursor THEN Append(g[i - 1], entries[i])
                             ELSE g[i - 1]
    BY Zenon
  <2>1. CASE i = 0
    BY <1>1, <1>4, <2>1
  <2>2. CASE i \in 1..skip
    BY <1>1, <1>2, <2>2
  <2>3. CASE i > skip
    <3>1. g[i] = Run(from, i - skip) /\ g[i - 1] = Run(from, i - 1 - skip)
      BY <1>1, <2>3
    <3>2. entries[i] > cursor /\ entries[i] = from + (i - 1 - skip) + 1 /\ i # 0
      BY <1>1, <1>2, <1>3, <2>3
    <3>3. Append(Run(from, i - 1 - skip), entries[i]) = Run(from, (i - 1 - skip) + 1)
      <4> DEFINE n == i - 1 - skip
      <4>1. n \in Nat
        BY <1>1, <2>3
      <4> HIDE DEF n
      <4>2. Append(Run(from, n), from + n + 1) = Run(from, n + 1)
        BY <1>1, <4>1, RunGrows
      <4> QED  BY <3>2, <4>2 DEF n
    <3>4. (i - 1 - skip) + 1 = i - skip
      BY <1>1, <2>3
    <3> HIDE DEF g
    <3> QED  BY <3>1, <3>2, <3>3, <3>4
  <2> QED  BY <1>1, <2>1, <2>2, <2>3
<1>6. \A f : Copies(f) => f = g
  <2> SUFFICES ASSUME NEW f, Copies(f) PROVE f = g
    OBVIOUS
  <2> DEFINE T == {i \in 0..len : f[i] # g[i]}
  <2>1. T = {}
    <3> SUFFICES ASSUME T # {} PROVE FALSE
      OBVIOUS
    <3>0. T \subseteq Nat
      BY <1>1
    <3>1. PICK n \in T : \A k \in T : n <= k
      <4> HIDE DEF T
      <4> QED  BY <3>0, LeastNat
    <3>2. n \in 0..len /\ f[n] # g[n]
      BY <3>1
    <3>3. n # 0 => f[n - 1] = g[n - 1]
      BY <1>1, <3>1
    <3>4. /\ f[n] = IF n = 0 THEN <<>>
                    ELSE IF entries[n] > cursor THEN Append(f[n - 1], entries[n])
                    ELSE f[n - 1]
          /\ g[n] = IF n = 0 THEN <<>>
                    ELSE IF entries[n] > cursor THEN Append(g[n - 1], entries[n])
                    ELSE g[n - 1]
      <4> HIDE DEF g
      <4> QED BY <1>5, <3>2
    <3> QED  BY <3>2, <3>3, <3>4
  <2> QED  BY <1>5, <2>1
<1>7. After(cursor) = (CHOOSE f : Copies(f))[len]
  BY DEF After, len
<1>8. (CHOOSE f : Copies(f)) = g
  <2> HIDE DEF Copies, g
  <2> QED  BY <1>5, <1>6
<1>9. g[len] = Run(from, len - skip)
  BY <1>1, <1>4
<1>10. len - skip = nextSeq - 1 - from /\ nextSeq \in Nat
  BY <1>1 DEF Contiguous
<1> QED  BY <1>1, <1>7, <1>8, <1>9, <1>10 DEF from

\* A poll gets the events after its cursor, oldest first, up to its limit.
LEMMA SinceComplete ==
    ASSUME Contiguous, entries = <<>> => nextSeq = 1
    PROVE  SinceIsComplete
<1> SUFFICES ASSUME NEW cursor \in 1..(nextSeq - 1), NEW limit \in 1..MaxSeq, ~Expired(cursor)
             PROVE  Since(cursor, limit) =
                        [i \in 1..AtMost(limit, nextSeq - 1 - cursor) |-> cursor + i]
  BY DEF SinceIsComplete
<1>1. entries # <<>>
  BY DEF Contiguous
<1>2. Len(entries) \in Nat \ {0} /\ nextSeq \in Nat \ {0} /\ Len(entries) < nextSeq
  BY <1>1 DEF Contiguous
<1>3. entries[1] = Oldest
  BY <1>2 DEF Contiguous, Oldest
<1>4. ~(cursor < Oldest - 1)
  BY <1>1, <1>2, <1>3 DEF Expired, Oldest
<1>5. After(cursor) = Run(cursor, nextSeq - 1 - cursor)
  BY <1>2, <1>4, AfterIsRun
<1> DEFINE all == nextSeq - 1 - cursor
<1> DEFINE n == AtMost(limit, all)
<1>6. all \in Nat /\ cursor \in Nat /\ n \in 0..all
  BY <1>2, RingAssumption DEF AtMost
<1>7. Run(cursor, all) \in Seq(Nat) /\ Len(Run(cursor, all)) = all
  BY <1>6, RunIsSeq
<1>8. Since(cursor, limit) = SubSeq(Run(cursor, all), 1, n)
  BY <1>5, <1>7 DEF Since
<1> HIDE DEF n, all
<1>9. SubSeq(Run(cursor, all), 1, n) = [i \in 1..n |-> Run(cursor, all)[i]]
  BY <1>6, <1>7
<1>10. \A i \in 1..n : Run(cursor, all)[i] = cursor + i
  BY <1>6, RunIsSeq
<1> QED  BY <1>8, <1>9, <1>10 DEF n, all

-----------------------------------------------------------------------------
(* Streams.                                                                *)

\* Sequence numbers grow, and only the last item may be a RESYNC_REQUIRED.
Ordered(stream) ==
    \A i, j \in DOMAIN stream : i < j => /\ stream[i].seq < stream[j].seq
                                         /\ ~stream[i].resync

\* No RESYNC_REQUIRED, and no event after the given one.
UpTo(stream, last) == \A i \in DOMAIN stream : stream[i].seq <= last /\ ~stream[i].resync

\* The items of a concatenation.
LEMMA ConcatItems ==
    ASSUME NEW S, NEW r \in Seq(S), NEW c \in Seq(S)
    PROVE  /\ r \o c \in Seq(S) /\ Len(r) \in Nat /\ Len(c) \in Nat
           /\ Len(r \o c) = Len(r) + Len(c)
           /\ \A i \in 1..Len(r) : (r \o c)[i] = r[i]
           /\ \A i \in (Len(r) + 1)..(Len(r) + Len(c)) : (r \o c)[i] = c[i - Len(r)]
<1>1. Len(r) \in Nat /\ Len(c) \in Nat
  BY LenProperties
<1> DEFINE t == r \o c
<1>2. /\ t \in Seq(S) /\ Len(t) = Len(r) + Len(c)
      /\ \A i \in 1..Len(r) + Len(c) : t[i] = IF i <= Len(r) THEN r[i] ELSE c[i - Len(r)]
  BY ConcatProperties
<1> HIDE DEF t
<1>3. \A i \in 1..Len(r) : t[i] = r[i]
  BY <1>1, <1>2
<1>4. \A i \in (Len(r) + 1)..(Len(r) + Len(c)) : t[i] = c[i - Len(r)]
  BY <1>1, <1>2
<1> QED  BY <1>1, <1>2, <1>3, <1>4 DEF t

\* What is sent goes to the end of the stream.
LEMMA SendAppends ==
    ASSUME NEW S, NEW r \in Seq(S), NEW c \in Seq(S), NEW x \in S
    PROVE  r \o Append(c, x) = Append(r \o c, x)
<1> DEFINE d == Append(c, x)
<1> DEFINE v == r \o c
<1> DEFINE t == r \o d
<1> DEFINE u == Append(v, x)
<1>1. /\ d \in Seq(S) /\ Len(d) = Len(c) + 1 /\ d[Len(c) + 1] = x
      /\ \A i \in 1..Len(c) : d[i] = c[i]
  BY AppendProperties
<1>2. /\ v \in Seq(S) /\ Len(r) \in Nat /\ Len(c) \in Nat /\ Len(v) = Len(r) + Len(c)
      /\ \A i \in 1..Len(r) : v[i] = r[i]
      /\ \A i \in (Len(r) + 1)..(Len(r) + Len(c)) : v[i] = c[i - Len(r)]
  BY ConcatItems
<1> HIDE DEF d, v
<1>3. /\ t \in Seq(S) /\ Len(t) = Len(r) + Len(d)
      /\ \A i \in 1..Len(r) : t[i] = r[i]
      /\ \A i \in (Len(r) + 1)..(Len(r) + Len(d)) : t[i] = d[i - Len(r)]
  BY <1>1, ConcatItems
<1>4. /\ u \in Seq(S) /\ Len(u) = Len(v) + 1 /\ u[Len(v) + 1] = x
      /\ \A i \in 1..Len(v) : u[i] = v[i]
  BY <1>2, AppendProperties
<1> HIDE DEF t, u
<1>5. ASSUME NEW i \in 1..Len(t) PROVE t[i] = u[i]
  <2>1. CASE i \in 1..Len(r)
    <3>1. i \in 1..Len(v)
      BY <1>2, <2>1
    <3>2. t[i] = r[i] /\ v[i] = r[i]
      BY <1>2, <1>3, <2>1
    <3>3. u[i] = v[i]
      BY <1>4, <3>1
    <3> QED  BY <3>2, <3>3
  <2>2. CASE i \in (Len(r) + 1)..(Len(r) + Len(c))
    <3>1. i \in 1..Len(v) /\ i - Len(r) \in 1..Len(c) /\ i \in (Len(r) + 1)..(Len(r) + Len(d))
      BY <1>1, <1>2, <2>2
    <3>2. t[i] = d[i - Len(r)]
      BY <1>3, <3>1
    <3>3. d[i - Len(r)] = c[i - Len(r)]
      BY <1>1, <3>1
    <3>4. u[i] = v[i] /\ v[i] = c[i - Len(r)]
      BY <1>2, <1>4, <2>2, <3>1
    <3> QED  BY <3>2, <3>3, <3>4
  <2>3. CASE i = Len(r) + Len(c) + 1
    <3>1. i = Len(v) + 1 /\ i - Len(r) = Len(c) + 1 /\ i \in (Len(r) + 1)..(Len(r) + Len(d))
      BY <1>1, <1>2, <2>3
    <3>2. t[i] = d[i - Len(r)]
      BY <1>3, <3>1
    <3> QED  BY <1>1, <1>4, <3>1, <3>2
  <2> QED  BY <1>1, <1>2, <1>3, <2>1, <2>2, <2>3
<1>6. Len(t) = Len(u)
  BY <1>1, <1>2, <1>3, <1>4
<1> QED  BY <1>3, <1>4, <1>5, <1>6, SeqEqual DEF t, u, d, v

\* The first item of a channel and the rest.
LEMMA HeadAndTail ==
    ASSUME NEW S, NEW c \in Seq(S), c # <<>>
    PROVE  /\ Head(c) \in S /\ Head(c) = c[1] /\ Tail(c) \in Seq(S)
           /\ Len(c) \in Nat \ {0} /\ Len(Tail(c)) = Len(c) - 1
           /\ \A i \in 1..(Len(c) - 1) : Tail(c)[i] = c[i + 1]
  BY EmptySeq, HeadTailProperties

\* Receiving moves an item within the stream.
LEMMA ReceiveKeeps ==
    ASSUME NEW S, NEW r \in Seq(S), NEW c \in Seq(S), c # <<>>
    PROVE  Append(r, Head(c)) \o Tail(c) = r \o c
<1> DEFINE a == Append(r, Head(c))
<1> DEFINE b == Tail(c)
<1> DEFINE t == a \o b
<1> DEFINE u == r \o c
<1>1. /\ Head(c) \in S /\ Head(c) = c[1] /\ b \in Seq(S)
      /\ Len(c) \in Nat \ {0} /\ Len(b) = Len(c) - 1
      /\ \A i \in 1..(Len(c) - 1) : b[i] = c[i + 1]
  BY HeadAndTail
<1>2. /\ a \in Seq(S) /\ Len(a) = Len(r) + 1 /\ a[Len(r) + 1] = c[1]
      /\ \A i \in 1..Len(r) : a[i] = r[i]
  BY <1>1, AppendProperties
<1> HIDE DEF a, b
<1>3. /\ t \in Seq(S) /\ Len(t) = Len(a) + Len(b)
      /\ \A i \in 1..Len(a) : t[i] = a[i]
      /\ \A i \in (Len(a) + 1)..(Len(a) + Len(b)) : t[i] = b[i - Len(a)]
  <2>1. a \in Seq(S) /\ b \in Seq(S)
    BY <1>1, <1>2
  <2> QED  BY <2>1, ConcatItems
<1>4. /\ u \in Seq(S) /\ Len(r) \in Nat /\ Len(u) = Len(r) + Len(c)
      /\ \A i \in 1..Len(r) : u[i] = r[i]
      /\ \A i \in (Len(r) + 1)..(Len(r) + Len(c)) : u[i] = c[i - Len(r)]
  BY ConcatItems
<1> HIDE DEF t, u
<1>5. ASSUME NEW i \in 1..Len(t) PROVE t[i] = u[i]
  <2>1. CASE i \in 1..Len(r)
    BY <1>2, <1>3, <1>4, <2>1
  <2>2. CASE i = Len(r) + 1
    <3>1. i \in 1..Len(a) /\ i \in (Len(r) + 1)..(Len(r) + Len(c)) /\ i - Len(r) = 1
      BY <1>1, <1>2, <1>4, <2>2
    <3>2. t[i] = a[i] /\ a[i] = c[1]
      BY <1>2, <1>3, <2>2, <3>1
    <3>3. u[i] = c[i - Len(r)]
      BY <1>4, <3>1
    <3> QED  BY <3>1, <3>2, <3>3
  <2>3. CASE i \in (Len(r) + 2)..(Len(r) + Len(c))
    <3>1. i - Len(a) \in 1..(Len(c) - 1) /\ i - Len(a) + 1 = i - Len(r)
      BY <1>1, <1>2, <1>4, <2>3
    <3>2. t[i] = b[i - Len(a)] /\ u[i] = c[i - Len(r)]
      BY <1>1, <1>2, <1>3, <1>4, <2>3
    <3> QED  BY <1>1, <3>1, <3>2
  <2> QED  BY <1>1, <1>2, <1>3, <1>4, <2>1, <2>2, <2>3
<1>6. Len(t) = Len(u)
  BY <1>1, <1>2, <1>3, <1>4
<1> QED  BY <1>3, <1>4, <1>5, <1>6, SeqEqual DEF t, u, a, b

\* Draining removes one item from the stream; the others keep their order.
LEMMA DrainOrdered ==
    ASSUME NEW r \in Seq(Items), NEW c \in Seq(Items), c # <<>>, NEW last,
           Ordered(r \o c), UpTo(r \o c, last)
    PROVE  Ordered(r \o Tail(c)) /\ UpTo(r \o Tail(c), last)
<1> DEFINE b == Tail(c)
<1> DEFINE t == r \o b
<1> DEFINE u == r \o c
<1>1. /\ b \in Seq(Items) /\ Len(c) \in Nat \ {0} /\ Len(b) = Len(c) - 1
      /\ \A i \in 1..(Len(c) - 1) : b[i] = c[i + 1]
  BY HeadAndTail
<1> HIDE DEF b
<1>2. /\ t \in Seq(Items) /\ Len(t) = Len(r) + Len(b)
      /\ \A i \in 1..Len(r) : t[i] = r[i]
      /\ \A i \in (Len(r) + 1)..(Len(r) + Len(b)) : t[i] = b[i - Len(r)]
  BY <1>1, ConcatItems
<1>3. /\ u \in Seq(Items) /\ Len(r) \in Nat /\ Len(u) = Len(r) + Len(c)
      /\ \A i \in 1..Len(r) : u[i] = r[i]
      /\ \A i \in (Len(r) + 1)..(Len(r) + Len(c)) : u[i] = c[i - Len(r)]
  BY ConcatItems
<1>4. Ordered(u) /\ UpTo(u, last)
  OBVIOUS
<1> HIDE DEF t, u
<1> DEFINE at(i) == IF i <= Len(r) THEN i ELSE i + 1
<1>5. DOMAIN t = 1..(Len(r) + Len(c) - 1) /\ DOMAIN u = 1..(Len(r) + Len(c))
  BY <1>1, <1>2, <1>3
<1>6. ASSUME NEW i \in DOMAIN t
      PROVE  t[i] = u[at(i)] /\ at(i) \in DOMAIN u
  <2>1. CASE i \in 1..Len(r)
    BY <1>1, <1>2, <1>3, <1>5, <2>1
  <2>2. CASE i \in (Len(r) + 1)..(Len(r) + Len(b))
    <3>1. i - Len(r) \in 1..(Len(c) - 1) /\ i - Len(r) + 1 = i + 1 - Len(r) /\ at(i) = i + 1
      BY <1>1, <1>3, <2>2
    <3>2. i + 1 \in (Len(r) + 1)..(Len(r) + Len(c)) /\ i + 1 \in DOMAIN u
      BY <1>1, <1>3, <1>5, <2>2
    <3>3. t[i] = b[i - Len(r)] /\ b[i - Len(r)] = c[i - Len(r) + 1]
      BY <1>1, <1>2, <2>2, <3>1
    <3>4. u[i + 1] = c[i + 1 - Len(r)]
      <4> DEFINE k == i + 1
      <4>1. k \in (Len(r) + 1)..(Len(r) + Len(c))
        BY <3>2
      <4> HIDE DEF k
      <4>2. u[k] = c[k - Len(r)]
        BY <1>3, <4>1
      <4> QED  BY <4>2 DEF k
    <3> HIDE DEF at
    <3> QED  BY <3>1, <3>2, <3>3, <3>4
  <2> QED  BY <1>1, <1>3, <1>5, <2>1, <2>2
<1>7. \A i, j \in DOMAIN t : i < j => at(i) < at(j)
  BY <1>1, <1>3, <1>5
<1> HIDE DEF at
<1>8. Ordered(t)
  BY <1>4, <1>6, <1>7 DEF Ordered
<1>9. UpTo(t, last)
  BY <1>4, <1>6 DEF UpTo
<1> QED  BY <1>8, <1>9 DEF t, b

\* A newer item keeps the stream in order, and an event becomes part of it.
LEMMA AppendOrdered ==
    ASSUME NEW t \in Seq(Items), NEW x \in Items, NEW last \in Int, last < x.seq,
           Ordered(t), UpTo(t, last)
    PROVE  /\ Ordered(Append(t, x))
           /\ ~x.resync => UpTo(Append(t, x), x.seq)
           /\ ~x.resync => SeqsOf(Append(t, x)) = SeqsOf(t) \union {x.seq}
           /\ x.resync => Announced(Append(t, x))
<1> DEFINE u == Append(t, x)
<1>1. /\ u \in Seq(Items) /\ Len(u) = Len(t) + 1 /\ u[Len(t) + 1] = x /\ Len(t) \in Nat
      /\ \A i \in 1..Len(t) : u[i] = t[i] /\ t[i] \in Items
  BY AppendProperties, ElementOfSeq
<1> HIDE DEF u
<1>2. DOMAIN t = 1..Len(t) /\ DOMAIN u = 1..(Len(t) + 1)
  BY <1>1
<1>3. \A y \in Items : y.seq \in Int /\ y.resync \in BOOLEAN
  BY RingAssumption DEF Items
<1>4. Ordered(u)
  BY <1>1, <1>2, <1>3 DEF Ordered, UpTo
<1>5. ~x.resync => UpTo(u, x.seq)
  BY <1>1, <1>2, <1>3 DEF UpTo
<1>6. ASSUME ~x.resync PROVE SeqsOf(u) = SeqsOf(t) \union {x.seq}
  BY <1>1, <1>2, <1>6 DEF SeqsOf
<1>7. x.resync => Announced(u)
  BY <1>1, <1>2 DEF Announced
<1> QED  BY <1>4, <1>5, <1>6, <1>7 DEF u

-----------------------------------------------------------------------------
(* The inductive invariant.                                                *)

SubState == [phase : Phases, cursor : Nat, pending : Seq(1..MaxSeq), channel : Seq(Items),
             capacity : Nat, joinedAt : Nat]

\* The entries are the latest events; who is served and who is drained.
Shape ==
    /\ nextSeq \in 1..(MaxSeq + 1) /\ publishing \in BOOLEAN /\ sawItem \in BOOLEAN
    /\ entries \in Seq(1..MaxSeq) /\ Contiguous
    /\ Len(entries) <= Capacity /\ (entries = <<>> => nextSeq = 1)
    /\ subs \in [Subscribers -> SubState]
    /\ received \in [Subscribers -> Seq(Items)]
    /\ todo \subseteq Registered
    /\ draining \in todo \union {Nobody}
    /\ sawItem => draining # Nobody
    /\ IF publishing THEN nextSeq > 1 ELSE todo = {}

\* The last event that a Publish has brought to the subscriber.
Served(s) == IF s \in todo THEN nextSeq - 2 ELSE nextSeq - 1

Rising(seqs) == \A i, j \in DOMAIN seqs : i < j => seqs[i] < seqs[j]

\* The channel and the stream of a subscriber, phase by phase.
SubOK(s) ==
    /\ Len(subs[s].channel) <= subs[s].capacity
    /\ subs[s].phase \in {"idle", "refused", "copied"} =>
          subs[s].channel = <<>> /\ received[s] = <<>>
    /\ subs[s].phase = "copied" =>
          /\ Rising(subs[s].pending)
          /\ \A i \in DOMAIN subs[s].pending : subs[s].pending[i] < nextSeq
    /\ subs[s].phase \in {"joined", "dropped", "cancelled"} =>
          Ordered(Stream(s)) /\ subs[s].capacity > 0
    /\ subs[s].phase = "joined" =>
          /\ UpTo(Stream(s), Served(s))
          /\ s = draining \/ subs[s].joinedAt..Served(s) \subseteq SeqsOf(Stream(s))
    /\ subs[s].phase = "dropped" => Announced(Stream(s))

IInv == Shape /\ \A s \in Subscribers : SubOK(s)

\* A step keeps what it does not touch.
LEMMA Untouched ==
    ASSUME NEW r, SubOK(r), subs'[r] = subs[r], received'[r] = received[r],
           nextSeq' = nextSeq, r \in todo' <=> r \in todo,
           r = draining => r = draining'
    PROVE  SubOK(r)'
  BY DEF SubOK, Stream, Served

\* The empty stream.
LEMMA EmptyStream ==
    /\ <<>> \in Seq(Items) /\ <<>> \o <<>> = <<>>
    /\ Ordered(<<>>) /\ \A last : UpTo(<<>>, last)
  BY DEF Ordered, UpTo

\* Streams and channels are sequences of items.
LEMMA StreamType ==
    ASSUME Shape, NEW s \in Subscribers
    PROVE  /\ subs[s] \in SubState /\ subs[s].channel \in Seq(Items)
           /\ received[s] \in Seq(Items) /\ Stream(s) \in Seq(Items)
           /\ DOMAIN subs = Subscribers /\ DOMAIN received = Subscribers
           /\ s # Nobody
<1>1. subs[s].channel \in Seq(Items) /\ received[s] \in Seq(Items)
  BY DEF Shape, SubState
<1>2. Stream(s) \in Seq(Items)
  BY <1>1, ConcatItems DEF Stream
<1> QED  BY <1>1, <1>2, RingAssumption DEF Shape

\* The ring starts empty, with sequence number 1, and without subscribers.
LEMMA Initially == Init => IInv
<1> SUFFICES ASSUME Init PROVE IInv
  OBVIOUS
<1>1. entries \in Seq(1..MaxSeq) /\ Len(entries) = 0 /\ Contiguous
  BY DEF Init, Contiguous, Oldest
<1>2. Idle \in SubState
  BY DEF Idle, SubState, Phases
<1>3. Shape
  <2>1. subs \in [Subscribers -> SubState] /\ received \in [Subscribers -> Seq(Items)]
    BY <1>2, EmptyStream DEF Init
  <2>2. nextSeq \in 1..(MaxSeq + 1) /\ Len(entries) <= Capacity
    BY <1>1, RingAssumption DEF Init
  <2> QED  BY <1>1, <2>1, <2>2 DEF Init, Shape
<1>4. \A s \in Subscribers : SubOK(s)
  BY DEF Init, SubOK, Idle
<1> QED  BY <1>3, <1>4 DEF IInv

\* Publish appends the next sequence number; it has reached nobody yet.
LEMMA PublishInv ==
    ASSUME IInv, Publish
    PROVE  IInv'
<1> DEFINE kept == IF Len(entries) = Capacity THEN Tail(entries) ELSE entries
<1>1. /\ entries \in Seq(1..MaxSeq) /\ Contiguous /\ Len(entries) <= Capacity
      /\ Len(entries) \in Nat /\ nextSeq \in 1..MaxSeq /\ Capacity \in Nat \ {0}
  BY RingAssumption DEF IInv, Shape, Publish
<1>2. /\ kept \in Seq(1..MaxSeq) /\ Len(kept) \in Nat /\ Len(kept) < Capacity
      /\ Len(kept) < nextSeq
      /\ \A i \in 1..Len(kept) : kept[i] = nextSeq - Len(kept) + i - 1
  <2>1. CASE Len(entries) = Capacity
    <3>1. /\ Tail(entries) \in Seq(1..MaxSeq) /\ Len(Tail(entries)) = Len(entries) - 1
          /\ \A i \in 1..(Len(entries) - 1) : Tail(entries)[i] = entries[i + 1]
      BY <1>1, <2>1, HeadAndTail
    <3>2. \A i \in 1..(Len(entries) - 1) : entries[i + 1] = nextSeq - (Len(entries) - 1) + i - 1
      BY <1>1 DEF Contiguous, Oldest
    <3>3. kept = Tail(entries) /\ Len(entries) < nextSeq
      BY <1>1, <2>1 DEF Contiguous
    <3> HIDE DEF kept
    <3>4. Len(kept) = Len(entries) - 1
      BY <3>1, <3>3
    <3>5. \A i \in 1..Len(kept) : kept[i] = nextSeq - Len(kept) + i - 1
      BY <3>1, <3>2, <3>3, <3>4
    <3> QED  BY <1>1, <2>1, <3>1, <3>3, <3>4, <3>5
  <2>2. CASE Len(entries) # Capacity
    <3>1. kept = entries
      BY <2>2
    <3> HIDE DEF kept
    <3> QED  BY <1>1, <2>2, <3>1 DEF Contiguous, Oldest
  <2> QED  BY <2>1, <2>2
<1>3. entries' = Append(kept, nextSeq) /\ nextSeq' = nextSeq + 1
  BY DEF Publish, Appended
<1> HIDE DEF kept
<1>4. /\ entries' \in Seq(1..MaxSeq) /\ Len(entries') = Len(kept) + 1
      /\ entries'[Len(kept) + 1] = nextSeq
      /\ \A i \in 1..Len(kept) : entries'[i] = kept[i]
  BY <1>1, <1>2, <1>3, AppendProperties
<1>5. entries' \in Seq(Nat)
  <2>1. 1..MaxSeq \subseteq Nat
    OBVIOUS
  <2> QED  BY <1>4, <2>1, SeqMonotonic
<1>6. Contiguous'
  <2>1. ASSUME NEW i \in 1..Len(entries')
        PROVE  entries'[i] = nextSeq' - Len(entries') + i - 1
    <3>1. CASE i \in 1..Len(kept)
      BY <1>1, <1>2, <1>3, <1>4, <3>1
    <3>2. CASE i = Len(kept) + 1
      BY <1>1, <1>2, <1>3, <1>4, <3>2
    <3> QED  BY <1>2, <1>4, <3>1, <3>2
  <2> QED  BY <1>1, <1>2, <1>3, <1>4, <1>5, <2>1 DEF Contiguous, Oldest
<1>7. Shape'
  <2>1. entries' # <<>>
    BY <1>2, <1>4
  <2>2. Registered' = Registered
    BY DEF Publish, Registered
  <2>3. nextSeq' \in 1..(MaxSeq + 1) /\ nextSeq' > 1 /\ Len(entries') <= Capacity
    BY <1>1, <1>2, <1>3, <1>4, RingAssumption
  <2>4. /\ publishing' = TRUE /\ todo' = Registered /\ todo = {}
        /\ UNCHANGED <<draining, sawItem, subs, received>>
    BY DEF IInv, Shape, Publish
  <2>5. /\ sawItem \in BOOLEAN /\ (sawItem => draining # Nobody)
        /\ draining \in todo \union {Nobody}
        /\ subs \in [Subscribers -> SubState] /\ received \in [Subscribers -> Seq(Items)]
    BY DEF IInv, Shape
  <2> QED  BY <1>4, <1>6, <2>1, <2>2, <2>3, <2>4, <2>5 DEF Shape
<1>8. ASSUME NEW r \in Subscribers PROVE SubOK(r)'
  <2>1. SubOK(r) /\ UNCHANGED <<subs, received, draining>> /\ nextSeq \in Int
    BY <1>1 DEF IInv, Publish
  <2>2. subs[r].phase = "joined" => Served(r)' = Served(r)
    BY <1>3, <2>1 DEF IInv, Shape, Publish, Registered, Served
  <2>3. Stream(r)' = Stream(r)
    BY <2>1 DEF Stream
  <2>4. \A i \in DOMAIN subs[r].pending : subs[r].pending[i] < nextSeq
           => subs[r].pending[i] < nextSeq'
    <3>1. subs[r].pending \in Seq(1..MaxSeq)
      BY DEF IInv, Shape, SubState
    <3>2. \A i \in DOMAIN subs[r].pending : subs[r].pending[i] \in 1..MaxSeq
      BY <3>1, LenProperties, ElementOfSeq
    <3> QED  BY <1>1, <1>3, <3>2, RingAssumption
  <2> QED  BY <2>1, <2>2, <2>3, <2>4 DEF SubOK
<1> QED  BY <1>7, <1>8 DEF IInv

\* A step that changes one subscriber, and perhaps who is being served, keeps
\* the invariant if it keeps it for that subscriber.
LEMMA OneSubscriber ==
    ASSUME IInv, Shape', NEW s \in Subscribers, NEW q,
           subs' = [subs EXCEPT ![s] = q], nextSeq' = nextSeq,
           \A r \in Subscribers \ {s} : received'[r] = received[r],
           \A r \in Subscribers \ {s} : r \in todo' <=> r \in todo,
           \A r \in Subscribers \ {s} : r = draining => r = draining',
           SubOK(s)'
    PROVE  IInv'
<1>1. ASSUME NEW r \in Subscribers PROVE SubOK(r)'
  <2>1. CASE r = s
    BY <2>1
  <2>2. CASE r # s
    <3>1. subs'[r] = subs[r]
      BY <2>2 DEF IInv, Shape
    <3> QED  BY <2>2, <3>1, Untouched DEF IInv
  <2> QED  BY <2>1, <2>2
<1> QED  BY <1>1 DEF IInv

\* An event that fits goes to the end of the channel; if it does not, the
\* subscriber is going to be drained.
LEMMA OfferInv ==
    ASSUME IInv, NEW s \in Subscribers, Offer(s)
    PROVE  IInv'
<1> DEFINE chan == subs[s].channel
<1> DEFINE event == Event(nextSeq - 1)
<1>1. /\ subs[s] \in SubState /\ chan \in Seq(Items) /\ received[s] \in Seq(Items)
      /\ Stream(s) \in Seq(Items) /\ DOMAIN subs = Subscribers /\ s # Nobody
  BY StreamType DEF IInv
<1>2. /\ publishing /\ draining = Nobody /\ s \in todo /\ subs[s].phase = "joined"
      /\ nextSeq \in 2..(MaxSeq + 1) /\ SubOK(s) /\ ~sawItem
      /\ UNCHANGED <<entries, nextSeq, publishing, sawItem, received>>
  BY DEF IInv, Shape, Offer, Registered
<1>3. CASE /\ Len(chan) < subs[s].capacity
           /\ subs' = [subs EXCEPT ![s].channel = Append(@, event)]
           /\ todo' = todo \ {s} /\ UNCHANGED draining
  <2> DEFINE q == [subs[s] EXCEPT !.channel = Append(chan, event)]
  <2>1. event \in Items /\ event.seq = nextSeq - 1 /\ ~event.resync
    BY <1>2, RingAssumption DEF Event, Items
  <2>2. Append(chan, event) \in Seq(Items) /\ Len(Append(chan, event)) = Len(chan) + 1
    BY <1>1, <2>1, AppendProperties
  <2>3. /\ q \in SubState /\ q.channel = Append(chan, event) /\ q.phase = "joined"
        /\ q.capacity = subs[s].capacity /\ q.joinedAt = subs[s].joinedAt
    BY <1>1, <1>2, <2>2 DEF SubState
  <2>4. subs' = [subs EXCEPT ![s] = q] /\ subs'[s] = q
    BY <1>1, <1>3
  <2> HIDE DEF q
  <2>5. Stream(s)' = Append(Stream(s), event)
    <3>1. Stream(s)' = received[s] \o Append(chan, event)
      BY <1>2, <2>3, <2>4 DEF Stream
    <3>2. received[s] \o Append(chan, event) = Append(received[s] \o chan, event)
      <4>1. received[s] \in Seq(Items) /\ chan \in Seq(Items) /\ event \in Items
        BY <1>1, <2>1
      <4> DEFINE got == received[s]
      <4>2. got \in Seq(Items)
        BY <4>1
      <4> HIDE DEF chan, event, got
      <4>3. got \o Append(chan, event) = Append(got \o chan, event)
        BY <4>1, <4>2, SendAppends
      <4> QED  BY <4>3 DEF got
    <3> QED  BY <3>1, <3>2 DEF Stream
  <2>6. Shape'
    <3>1. Registered' = Registered
      BY <1>1, <1>2, <2>3, <2>4 DEF Registered
    <3>2. subs' \in [Subscribers -> SubState]
      BY <2>3, <2>4 DEF IInv, Shape
    <3>3. Contiguous'
      BY <1>2 DEF IInv, Shape, Contiguous, Oldest
    <3> QED  BY <1>2, <1>3, <3>1, <3>2, <3>3 DEF IInv, Shape
  <2>7. SubOK(s)'
    <3>1. /\ Ordered(Stream(s)) /\ UpTo(Stream(s), nextSeq - 2)
          /\ subs[s].joinedAt..(nextSeq - 2) \subseteq SeqsOf(Stream(s))
          /\ subs[s].capacity > 0
      BY <1>1, <1>2 DEF SubOK, Served
    <3>2. /\ Ordered(Stream(s)') /\ UpTo(Stream(s)', nextSeq - 1)
          /\ SeqsOf(Stream(s)') = SeqsOf(Stream(s)) \union {nextSeq - 1}
      BY <1>1, <1>2, <2>1, <2>5, <3>1, AppendOrdered
    <3>3. subs[s].joinedAt..(nextSeq - 1) \subseteq SeqsOf(Stream(s)')
      BY <1>1, <1>2, <3>1, <3>2 DEF SubState
    <3>4. Served(s)' = nextSeq - 1
      BY <1>2, <1>3 DEF Served
    <3>5. Len(chan) + 1 <= subs[s].capacity
      BY <1>1, <1>3 DEF SubState
    <3> QED  BY <2>2, <2>3, <2>4, <3>1, <3>2, <3>3, <3>4, <3>5 DEF SubOK
  <2> QED  BY <1>2, <1>3, <2>4, <2>6, <2>7, OneSubscriber
<1>4. CASE draining' = s /\ UNCHANGED <<subs, todo>>
  <2>1. Shape'
    BY <1>2, <1>4 DEF IInv, Shape, Contiguous, Oldest, Registered
  <2>2. SubOK(s)'
    BY <1>2, <1>4 DEF SubOK, Stream, Served
  <2>3. subs' = [subs EXCEPT ![s] = subs[s]]
    BY <1>1, <1>4 DEF IInv, Shape
  <2>4. /\ \A r \in Subscribers \ {s} : received'[r] = received[r]
        /\ \A r \in Subscribers \ {s} : r \in todo' <=> r \in todo
        /\ \A r \in Subscribers \ {s} : r = draining => r = draining'
    BY <1>2, <1>4, RingAssumption
  <2> QED  BY <1>2, <2>1, <2>2, <2>3, <2>4, OneSubscriber
<1> QED  BY <1>3, <1>4 DEF Offer

\* The drain loop either has seen an item or replaces the empty channel by a
\* RESYNC_REQUIRED, which ends the stream.
LEMMA DrainTestInv ==
    ASSUME IInv, DrainTest
    PROVE  IInv'
<1>0. PICK s \in Subscribers : s = draining
  BY DEF IInv, Shape, Registered, DrainTest
<1> DEFINE x == ResyncRequired(nextSeq - 1)
<1>1. /\ s = draining /\ s \in todo /\ subs[s].phase = "joined" /\ s # Nobody
      /\ publishing /\ nextSeq \in 2..(MaxSeq + 1) /\ SubOK(s) /\ ~sawItem
      /\ UNCHANGED <<entries, nextSeq, publishing, received>>
  BY <1>0 DEF IInv, Shape, DrainTest, Registered
<1>2. /\ subs[s] \in SubState /\ received[s] \in Seq(Items) /\ DOMAIN subs = Subscribers
  BY <1>1, StreamType DEF IInv
<1>3. CASE sawItem' = TRUE /\ UNCHANGED <<subs, todo, draining>>
  <2>1. Shape'
    BY <1>1, <1>3 DEF IInv, Shape, Contiguous, Oldest, Registered
  <2>2. \A r \in Subscribers : SubOK(r)'
    BY <1>1, <1>3, Untouched DEF IInv
  <2> QED  BY <2>1, <2>2 DEF IInv
<1>4. CASE /\ subs[s].channel = <<>>
           /\ subs' = [subs EXCEPT ![s].channel = <<x>>, ![s].phase = "dropped"]
           /\ todo' = todo \ {s} /\ draining' = Nobody /\ UNCHANGED sawItem
  <2> DEFINE q == [subs[s] EXCEPT !.channel = <<x>>, !.phase = "dropped"]
  <2>1. x \in Items /\ x.seq = nextSeq - 1 /\ x.resync
    BY <1>1, RingAssumption DEF ResyncRequired, Items
  <2>2. <<x>> = Append(<<>>, x) /\ <<x>> \in Seq(Items) /\ Len(<<x>>) = 1
    BY <2>1
  <2>3. /\ q \in SubState /\ q.channel = <<x>> /\ q.phase = "dropped"
        /\ q.capacity = subs[s].capacity
    BY <1>2, <2>2 DEF SubState, Phases
  <2>4. subs' = [subs EXCEPT ![s] = q] /\ subs'[s] = q
    BY <1>1, <1>2, <1>4
  <2> HIDE DEF q
  <2>5. Stream(s) \in Seq(Items) /\ Stream(s)' = Append(Stream(s), x)
    <3>1. Stream(s)' = received[s] \o Append(<<>>, x)
      BY <1>1, <2>2, <2>3, <2>4 DEF Stream
    <3>2. received[s] \o Append(<<>>, x) = Append(received[s] \o <<>>, x)
      BY <1>2, <2>1, EmptyStream, SendAppends
    <3> QED  BY <1>1, <1>4, <3>1, <3>2, StreamType DEF Stream, IInv
  <2>6. Shape'
    <3>1. Registered' = Registered \ {s}
      BY <1>1, <1>2, <2>3, <2>4 DEF Registered
    <3>2. subs' \in [Subscribers -> SubState]
      BY <2>3, <2>4 DEF IInv, Shape
    <3>3. Contiguous'
      BY <1>1 DEF IInv, Shape, Contiguous, Oldest
    <3> QED  BY <1>1, <1>4, <3>1, <3>2, <3>3 DEF IInv, Shape
  <2>7. SubOK(s)'
    <3>1. Ordered(Stream(s)) /\ UpTo(Stream(s), nextSeq - 2) /\ subs[s].capacity > 0
      BY <1>1 DEF SubOK, Served
    <3>2. Ordered(Stream(s)') /\ Announced(Stream(s)')
      BY <1>1, <2>1, <2>5, <3>1, AppendOrdered
    <3>3. 1 <= subs[s].capacity
      BY <1>2, <3>1 DEF SubState
    <3> QED  BY <2>2, <2>3, <2>4, <3>1, <3>2, <3>3 DEF SubOK
  <2>8. /\ \A r \in Subscribers \ {s} : received'[r] = received[r]
        /\ \A r \in Subscribers \ {s} : r \in todo' <=> r \in todo
        /\ \A r \in Subscribers \ {s} : r = draining => r = draining'
    BY <1>1, <1>4
  <2> QED  BY <1>1, <2>4, <2>6, <2>7, <2>8, OneSubscriber
<1> QED  BY <1>0, <1>3, <1>4 DEF DrainTest

\* An item that is drained is lost to the subscriber; it is told in the end.
LEMMA DrainReceiveInv ==
    ASSUME IInv, DrainReceive
    PROVE  IInv'
<1>0. PICK s \in Subscribers : s = draining
  BY DEF IInv, Shape, Registered, DrainReceive
<1> DEFINE c == subs[s].channel
<1> DEFINE q == [subs[s] EXCEPT !.channel = Tail(c)]
<1>1. /\ s = draining /\ s \in todo /\ subs[s].phase = "joined" /\ s # Nobody
      /\ SubOK(s) /\ c # <<>> /\ subs' = [subs EXCEPT ![s].channel = Tail(@)]
      /\ sawItem' = FALSE
      /\ UNCHANGED <<entries, nextSeq, publishing, todo, draining, received>>
  BY <1>0 DEF IInv, Shape, DrainReceive, Registered
<1>2. /\ subs[s] \in SubState /\ received[s] \in Seq(Items) /\ c \in Seq(Items)
      /\ DOMAIN subs = Subscribers
  BY <1>1, StreamType DEF IInv
<1>3. Tail(c) \in Seq(Items) /\ Len(Tail(c)) < Len(c) /\ Len(c) \in Nat /\ Len(Tail(c)) \in Nat
  BY <1>1, <1>2, HeadAndTail
<1>4. /\ q \in SubState /\ q.channel = Tail(c) /\ q.phase = "joined"
      /\ q.capacity = subs[s].capacity
  BY <1>1, <1>2, <1>3 DEF SubState
<1>5. subs' = [subs EXCEPT ![s] = q] /\ subs'[s] = q
  BY <1>1, <1>2
<1> HIDE DEF q
<1>6. Shape'
  <2>1. Registered' = Registered
    BY <1>1, <1>2, <1>4, <1>5 DEF Registered
  <2>2. subs' \in [Subscribers -> SubState]
    BY <1>4, <1>5 DEF IInv, Shape
  <2>3. Contiguous'
    BY <1>1 DEF IInv, Shape, Contiguous, Oldest
  <2> QED  BY <1>1, <2>1, <2>2, <2>3 DEF IInv, Shape
<1>7. SubOK(s)'
  <2>1. Ordered(Stream(s)) /\ UpTo(Stream(s), Served(s)) /\ subs[s].capacity > 0
    BY <1>1 DEF SubOK
  <2>2. Stream(s)' = received[s] \o Tail(c)
    BY <1>1, <1>4, <1>5 DEF Stream
  <2>3. Ordered(Stream(s)') /\ UpTo(Stream(s)', Served(s))
    BY <1>1, <1>2, <2>1, <2>2, DrainOrdered DEF Stream
  <2>4. Served(s)' = Served(s)
    BY <1>1 DEF Served
  <2>5. Len(Tail(c)) <= subs[s].capacity
    BY <1>1, <1>2, <1>3 DEF SubOK, SubState
  <2>6. s = draining'
    BY <1>1
  <2> QED  BY <1>4, <1>5, <2>1, <2>3, <2>4, <2>5, <2>6 DEF SubOK
<1>8. /\ \A r \in Subscribers \ {s} : received'[r] = received[r]
      /\ \A r \in Subscribers \ {s} : r \in todo' <=> r \in todo
      /\ \A r \in Subscribers \ {s} : r = draining => r = draining'
  BY <1>1
<1> QED  BY <1>1, <1>5, <1>6, <1>7, <1>8, OneSubscriber

\* The mutex is released once everybody has been served.
LEMMA PublishReturnsInv ==
    ASSUME IInv, PublishReturns
    PROVE  IInv'
<1>1. Shape'
  BY DEF IInv, Shape, PublishReturns, Contiguous, Oldest, Registered
<1>2. \A r \in Subscribers : SubOK(r)'
  BY Untouched DEF IInv, PublishReturns
<1> QED  BY <1>1, <1>2 DEF IInv

\* What is copied are the events after the cursor, oldest first.
LEMMA AfterRises ==
    ASSUME Shape, NEW cursor \in 0..(nextSeq - 1)
    PROVE  /\ After(cursor) \in Seq(1..MaxSeq) /\ Rising(After(cursor))
           /\ \A i \in DOMAIN After(cursor) : After(cursor)[i] < nextSeq
<1>1. Contiguous /\ nextSeq \in 1..(MaxSeq + 1)
  BY DEF Shape
<1>2. PICK from \in 0..(nextSeq - 1) : After(cursor) = Run(from, nextSeq - 1 - from)
  <2> DEFINE begin == IF cursor < Oldest - 1 THEN Oldest - 1 ELSE cursor
  <2>1. begin \in cursor..(nextSeq - 1) /\ After(cursor) = Run(begin, nextSeq - 1 - begin)
    BY <1>1, AfterIsRun
  <2> HIDE DEF begin
  <2> QED  BY <1>1, <2>1
<1> DEFINE n == nextSeq - 1 - from
<1>3. n \in Nat /\ \A i \in 1..n : from + i \in 1..MaxSeq /\ from + i < nextSeq
  BY <1>1, RingAssumption
<1> HIDE DEF n
<1>4. Run(from, n) \in Seq(1..MaxSeq) /\ DOMAIN Run(from, n) = 1..n
  BY <1>3 DEF Run
<1>5. \A i \in 1..n : Run(from, n)[i] = from + i
  BY DEF Run
<1>6. Rising(Run(from, n))
  BY <1>3, <1>4, <1>5 DEF Rising
<1>7. After(cursor) = Run(from, n)
  BY <1>2 DEF n
<1> QED  BY <1>3, <1>4, <1>5, <1>6, <1>7

\* A subscriber first copies what the ring holds, or learns that it has
\* fallen too far behind.
LEMMA SubscribeCopyInv ==
    ASSUME IInv, NEW s \in Subscribers, NEW cursor \in 0..(nextSeq - 1),
           SubscribeCopy(s, cursor)
    PROVE  IInv'
<1> DEFINE q == [subs[s] EXCEPT
                   !.cursor = cursor,
                   !.phase = IF Expired(cursor) THEN "refused" ELSE "copied",
                   !.pending = IF Expired(cursor) THEN <<>> ELSE After(cursor)]
<1>1. /\ subs[s] \in SubState /\ subs[s].phase = "idle" /\ DOMAIN subs = Subscribers
      /\ SubOK(s) /\ Shape /\ nextSeq \in 1..(MaxSeq + 1)
      /\ UNCHANGED <<entries, nextSeq, publishing, todo, draining, sawItem, received>>
  BY StreamType DEF IInv, Shape, SubscribeCopy
<1>2. /\ After(cursor) \in Seq(1..MaxSeq) /\ Rising(After(cursor))
      /\ \A i \in DOMAIN After(cursor) : After(cursor)[i] < nextSeq
  BY <1>1, AfterRises
<1>3. /\ q \in SubState /\ q.channel = subs[s].channel /\ q.capacity = subs[s].capacity
      /\ q.phase \in {"refused", "copied"}
      /\ q.phase = "copied" => q.pending = After(cursor)
  <2>1. cursor \in Nat /\ <<>> \in Seq(1..MaxSeq)
    BY <1>1
  <2> QED  BY <1>1, <1>2, <2>1 DEF SubState, Phases
<1>4. subs' = [subs EXCEPT ![s] = q] /\ subs'[s] = q
  BY <1>1 DEF SubscribeCopy
<1> HIDE DEF q
<1>5. Shape'
  <2>1. Registered' = Registered
    BY <1>1, <1>3, <1>4 DEF Registered
  <2>2. subs' \in [Subscribers -> SubState]
    BY <1>1, <1>3, <1>4 DEF Shape
  <2>3. Contiguous'
    BY <1>1 DEF Shape, Contiguous, Oldest
  <2> QED  BY <1>1, <2>1, <2>2, <2>3 DEF Shape
<1>6. SubOK(s)'
  BY <1>1, <1>2, <1>3, <1>4 DEF SubOK
<1> QED  BY <1>1, <1>4, <1>5, <1>6, OneSubscriber

\* Then it is registered with a channel that holds what was copied.
LEMMA SubscribeJoinInv ==
    ASSUME IInv, NEW s \in Subscribers, SubscribeJoin(s)
    PROVE  IInv'
<1> DEFINE pending == subs[s].pending
<1> DEFINE c == [i \in DOMAIN pending |-> Event(pending[i])]
<1> DEFINE room == Len(pending) + 1
<1> DEFINE q == [subs[s] EXCEPT !.phase = "joined", !.channel = c,
                   !.capacity = IF Queue < room THEN room ELSE Queue, !.joinedAt = nextSeq]
<1>1. /\ subs[s] \in SubState /\ subs[s].phase = "copied" /\ DOMAIN subs = Subscribers
      /\ SubOK(s) /\ Shape /\ nextSeq \in 1..(MaxSeq + 1) /\ todo = {} /\ draining = Nobody
      /\ UNCHANGED <<entries, nextSeq, publishing, todo, draining, sawItem, received>>
  BY StreamType DEF IInv, Shape, SubscribeJoin
<1>2. /\ pending \in Seq(1..MaxSeq) /\ Len(pending) \in Nat /\ DOMAIN pending = 1..Len(pending)
      /\ Rising(pending) /\ \A i \in DOMAIN pending : pending[i] < nextSeq
  BY <1>1, LenProperties DEF SubState, SubOK
<1>3. /\ c \in Seq(Items) /\ Len(c) = Len(pending) /\ DOMAIN c = DOMAIN pending
      /\ \A i \in DOMAIN c : c[i].seq = pending[i] /\ ~c[i].resync
  <2>1. \A i \in 1..Len(pending) : Event(pending[i]) \in Items
    BY <1>2, ElementOfSeq DEF Event, Items
  <2> HIDE DEF pending
  <2> QED  BY <1>2, <2>1 DEF Event
<1>4. /\ q \in SubState /\ q.channel = c /\ q.phase = "joined" /\ q.joinedAt = nextSeq
      /\ q.capacity > 0 /\ Len(c) <= q.capacity
  <2> HIDE DEF c, pending
  <2> DEFINE capacity == IF Queue < room THEN room ELSE Queue
  <2>1. nextSeq \in Nat /\ room \in Nat /\ Queue \in Nat /\ Queue > 0
    BY <1>1, <1>2, RingAssumption
  <2>2. capacity \in Nat /\ capacity > 0 /\ Len(pending) <= capacity
    BY <1>2, <2>1
  <2> HIDE DEF capacity
  <2>3. [subs[s] EXCEPT !.phase = "joined", !.channel = c, !.capacity = capacity,
                        !.joinedAt = nextSeq] \in SubState
    BY <1>1, <1>3, <2>1, <2>2 DEF SubState, Phases
  <2> QED  BY <1>1, <1>3, <2>2, <2>3 DEF SubState, capacity
<1>5. subs' = [subs EXCEPT ![s] = q] /\ subs'[s] = q
  BY <1>1 DEF SubscribeJoin
<1>6. received'[s] = <<>> /\ Stream(s)' = c
  <2>1. received[s] = <<>>
    BY <1>1 DEF SubOK
  <2> HIDE DEF c, q
  <2>2. <<>> \o c = c
    BY <1>3, ConcatEmptySeq
  <2> QED  BY <1>1, <1>4, <1>5, <2>1, <2>2 DEF Stream
<1> HIDE DEF q, c
<1>7. Shape'
  <2>1. subs' \in [Subscribers -> SubState]
    BY <1>1, <1>4, <1>5 DEF Shape
  <2>2. Contiguous'
    BY <1>1 DEF Shape, Contiguous, Oldest
  <2> QED  BY <1>1, <2>1, <2>2 DEF Shape
<1>8. SubOK(s)'
  <2>1. Served(s)' = nextSeq - 1
    BY <1>1 DEF Served
  <2>2. Ordered(c)
    BY <1>2, <1>3 DEF Ordered, Rising
  <2>3. UpTo(c, nextSeq - 1)
    <3>1. \A i \in DOMAIN pending : pending[i] \in 1..MaxSeq
      BY <1>2, ElementOfSeq
    <3> QED  BY <1>1, <1>2, <1>3, <3>1, RingAssumption DEF UpTo
  <2>4. nextSeq..(nextSeq - 1) \subseteq SeqsOf(c)
    BY <1>1
  <2> QED  BY <1>4, <1>5, <1>6, <2>1, <2>2, <2>3, <2>4, <1>1 DEF SubOK
<1> QED  BY <1>1, <1>5, <1>7, <1>8, OneSubscriber

\* Receiving does not change the stream.
LEMMA ReceiveInv ==
    ASSUME IInv, NEW s \in Subscribers, Receive(s)
    PROVE  IInv'
<1> DEFINE c == subs[s].channel
<1> DEFINE q == [subs[s] EXCEPT !.channel = Tail(c)]
<1>1. /\ subs[s] \in SubState /\ c \in Seq(Items) /\ received[s] \in Seq(Items)
      /\ DOMAIN subs = Subscribers /\ DOMAIN received = Subscribers
      /\ SubOK(s) /\ Shape /\ c # <<>> /\ subs[s].phase \in {"joined", "dropped"}
      /\ UNCHANGED <<entries, nextSeq, publishing, todo, draining, sawItem>>
  BY StreamType DEF IInv, Receive
<1>2. /\ Head(c) \in Items /\ Tail(c) \in Seq(Items) /\ Len(c) \in Nat
      /\ Len(Tail(c)) = Len(c) - 1
  BY <1>1, HeadAndTail
<1>3. /\ q \in SubState /\ q.channel = Tail(c) /\ q.phase = subs[s].phase
      /\ q.capacity = subs[s].capacity /\ q.joinedAt = subs[s].joinedAt
  BY <1>1, <1>2 DEF SubState
<1>4. /\ subs' = [subs EXCEPT ![s] = q] /\ subs'[s] = q
      /\ received' = [received EXCEPT ![s] = Append(received[s], Head(c))]
      /\ received'[s] = Append(received[s], Head(c))
      /\ Append(received[s], Head(c)) \in Seq(Items)
  BY <1>1, <1>2, AppendProperties DEF Receive
<1> HIDE DEF q
<1>5. Stream(s)' = Stream(s)
  <2>1. received[s] \in Seq(Items) /\ c \in Seq(Items) /\ c # <<>>
    BY <1>1
  <2>2. Stream(s) = received[s] \o c
    BY DEF Stream
  <2>3. Stream(s)' = Append(received[s], Head(c)) \o Tail(c)
    BY <1>3, <1>4 DEF Stream
  <2> HIDE DEF c
  <2> QED  BY <2>1, <2>2, <2>3, ReceiveKeeps
<1>6. Shape'
  <2>1. Registered' = Registered
    BY <1>1, <1>3, <1>4 DEF Registered
  <2>2. subs' \in [Subscribers -> SubState] /\ received' \in [Subscribers -> Seq(Items)]
    BY <1>1, <1>3, <1>4 DEF Shape
  <2>3. Contiguous'
    BY <1>1 DEF Shape, Contiguous, Oldest
  <2> QED  BY <1>1, <2>1, <2>2, <2>3 DEF Shape
<1>7. SubOK(s)'
  <2>1. Served(s)' = Served(s)
    BY <1>1 DEF Served
  <2>2. Len(Tail(c)) <= subs[s].capacity
    BY <1>1, <1>2 DEF SubOK, SubState
  <2> QED  BY <1>1, <1>3, <1>4, <1>5, <2>1, <2>2 DEF SubOK
<1>8. \A r \in Subscribers \ {s} : received'[r] = received[r]
  BY <1>1, <1>4
<1> QED  BY <1>1, <1>4, <1>6, <1>7, <1>8, OneSubscriber

\* A cancelled subscription keeps its stream as it is.
LEMMA CancelInv ==
    ASSUME IInv, NEW s \in Subscribers, Cancel(s)
    PROVE  IInv'
<1> DEFINE q == [subs[s] EXCEPT !.phase = "cancelled"]
<1>1. /\ subs[s] \in SubState /\ DOMAIN subs = Subscribers
      /\ SubOK(s) /\ Shape /\ todo = {} /\ subs[s].phase = "joined"
      /\ UNCHANGED <<entries, nextSeq, publishing, todo, draining, sawItem, received>>
  BY StreamType DEF IInv, Shape, Cancel
<1>2. /\ q \in SubState /\ q.channel = subs[s].channel /\ q.phase = "cancelled"
      /\ q.capacity = subs[s].capacity
  BY <1>1 DEF SubState, Phases
<1>3. subs' = [subs EXCEPT ![s] = q] /\ subs'[s] = q
  BY <1>1 DEF Cancel
<1> HIDE DEF q
<1>4. Shape'
  <2>1. subs' \in [Subscribers -> SubState]
    BY <1>1, <1>2, <1>3 DEF Shape
  <2>2. Contiguous'
    BY <1>1 DEF Shape, Contiguous, Oldest
  <2> QED  BY <1>1, <2>1, <2>2 DEF Shape
<1>5. SubOK(s)'
  BY <1>1, <1>2, <1>3 DEF SubOK, Stream
<1> QED  BY <1>1, <1>3, <1>4, <1>5, OneSubscriber

\* Every step of the ring and its subscribers keeps the invariant.
LEMMA NextInv ==
    ASSUME IInv, [Next]_vars
    PROVE  IInv'
<1>1. CASE UNCHANGED vars
  BY <1>1 DEF vars, IInv, Shape, Contiguous, Oldest, Registered, SubOK, Stream, Served
<1>2. CASE \E s \in Subscribers :
              \/ Offer(s)
              \/ \E cursor \in 0..(nextSeq - 1) : SubscribeCopy(s, cursor)
              \/ SubscribeJoin(s) \/ Receive(s) \/ Cancel(s)
  BY <1>2, OfferInv, SubscribeCopyInv, SubscribeJoinInv, ReceiveInv, CancelInv
<1> QED  BY <1>1, <1>2, PublishInv, DrainTestInv, DrainReceiveInv, PublishReturnsInv DEF Next

\* The invariant holds throughout.
LEMMA Invariance == Spec => []IInv
<1> QED  BY Initially, NextInv, PTL DEF Spec

\* The state always has the types of TypeOK, and a channel never holds more
\* than its capacity, so that no send of Publish or Subscribe can block.
THEOREM TypeCorrect == Spec => []TypeOK
<1>1. IInv => TypeOK
  BY DEF IInv, Shape, SubOK, SubState, Registered, TypeOK
<1> QED  BY <1>1, Invariance, PTL

\* For a cursor of this ring that it does not refuse as expired, Since returns
\* the events that follow without a gap: all, or as many as the limit allows.
THEOREM PollsAreComplete == Spec => []SinceIsComplete
<1>1. IInv => SinceIsComplete
  BY SinceComplete DEF IInv, Shape
<1> QED  BY <1>1, Invariance, PTL

\* From its registration on, a subscriber gets every event or a
\* RESYNC_REQUIRED, whatever the interleaving of Publish, its drain loop and
\* the subscribers' receives, except for the moment a running Publish empties
\* its channel.
THEOREM NoEventLostSilently == Spec => []NoSilentLossAfterJoin
<1>1. IInv => NoSilentLossAfterJoin
  <2> SUFFICES ASSUME IInv PROVE NoSilentLossAfterJoin
    OBVIOUS
  <2>1. \A s \in Subscribers : s = draining => publishing
    BY RingAssumption DEF IInv, Shape
  <2> QED  BY <2>1 DEF IInv, SubOK, NoSilentLossAfterJoin, Served
<1> QED  BY <1>1, Invariance, PTL

\* The step by which a drain loop ends has sent its subscriber a RESYNC_REQUIRED.
DrainAnnounces ==
    \A s \in Subscribers : s = draining /\ draining' # s => Announced(Stream(s)')

\* That moment ends in nothing but a RESYNC_REQUIRED: the drain loop leaves a
\* subscriber only when it has sent it one.
THEOREM DrainsEndAnnounced == Spec => [][DrainAnnounces]_vars
<1>1. ASSUME IInv, [Next]_vars, NEW s \in Subscribers, s = draining, draining' # s
      PROVE  Announced(Stream(s)')
  <2>1. DrainTest /\ subs[draining].channel = <<>>
    BY <1>1, RingAssumption
       DEF Next, vars, Publish, Offer, DrainTest, DrainReceive, PublishReturns,
           SubscribeCopy, SubscribeJoin, Receive, Cancel
  <2>2. /\ subs'[s].channel = <<ResyncRequired(nextSeq - 1)>>
        /\ received' = received
    <3>1. subs \in [Subscribers -> SubState] /\ subs[s] \in SubState
      BY <1>1 DEF IInv, Shape
    <3>2. /\ subs' = [subs EXCEPT ![s].channel = <<ResyncRequired(nextSeq - 1)>>,
                                  ![s].phase = "dropped"]
          /\ received' = received
      BY <1>1, <2>1 DEF DrainTest
    <3> QED  BY <3>1, <3>2 DEF SubState
  <2>3. received[s] \in Seq(Items) /\ nextSeq - 1 \in 1..MaxSeq
    BY <1>1, RingAssumption DEF IInv, Shape
  <2> DEFINE item == ResyncRequired(nextSeq - 1)
  <2> DEFINE stream == received[s] \o <<item>>
  <2>4. Stream(s)' = stream
    BY <2>2 DEF Stream
  <2>5. item \in Items /\ item.resync
    BY <2>3 DEF ResyncRequired, Items
  <2> HIDE DEF item
  <2>6. Len(received[s]) + 1 \in DOMAIN stream /\ stream[Len(received[s]) + 1] = item
    BY <2>3, <2>5
  <2> HIDE DEF stream
  <2>7. Announced(stream)
    BY <2>5, <2>6 DEF Announced
  <2> QED  BY <2>4, <2>7
<1>2. IInv /\ [Next]_vars => [DrainAnnounces]_vars
  BY <1>1 DEF DrainAnnounces
<1> QED  BY <1>2, Invariance, PTL DEF Spec

\* Copied entries and live events reach a subscriber in one rising order, and
\* nothing follows a RESYNC_REQUIRED.
THEOREM StreamsInOrder == Spec => []StreamOrdered
<1>1. ASSUME IInv, NEW s \in Subscribers
      PROVE  Ordered(Stream(s))
  BY <1>1, EmptyStream DEF IInv, Shape, SubState, SubOK, Phases, Stream
<1>2. IInv => StreamOrdered
  BY <1>1 DEF StreamOrdered, Ordered
<1> QED  BY <1>2, Invariance, PTL
=============================================================================
