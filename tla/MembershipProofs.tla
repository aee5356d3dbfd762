-------------------------- MODULE MembershipProofs --------------------------
(***************************************************************************)
(* What a running process says of itself is ahead of everything that is    *)
(* said of it, however old the datagram and whoever repeats it; and what   *)
(* its observers suspect stays suspected until it has spoken.              *)
(*                                                                         *)
(* OwnEntryLeads compares the records of the running process only.  Its    *)
(* invariant adds that no record belongs to a process to come (Boots),     *)
(* that a ping or ack of the subject says ALIVE and is not sent to itself  *)
(* (Traffic), and that a listener in ObserveAlive has an entry (Listening).*)
(* OnlySelfClears rests on the dates of records (Ages): an accusation by a *)
(* close clock has a later version than every ALIVE record of its          *)
(* incarnation.                                                            *)
(***************************************************************************)
EXTENDS Membership, TLAPS

Own == table[Subject]

\* r says nothing of the running process that own does not answer.
Behind(r, own) ==
    r.boot = boot =>
        /\ r.inc <= own.inc
        /\ r.status = "ALIVE" => ~MemberLess(own, r)

Boots == \A r \in Known : r.boot <= boot

Traffic ==
    \A d \in net :
        /\ d.from # d.to
        /\ d.from = Subject /\ d.kind # "members" => d.member.status = "ALIVE"

Listening ==
    /\ handling[Subject] = None
    /\ \A n \in Nodes : handling[n] # None => table[n] # None

IInv == TypeOK /\ Traffic /\ Listening /\ Boots /\ OwnEntryLeads

\* r repeats q: at most the last-seen time of an ALIVE record is its own.
Repeats(r, q) ==
    /\ r.inc = q.inc /\ r.boot = q.boot
    /\ r.status = "ALIVE" => q.status = "ALIVE" /\ r.version = q.version

-----------------------------------------------------------------------------
(* Records and their order.                                                *)

\* The HLC draws versions.
LEMMA ClockDraws ==
    ASSUME TypeOK, NEW n \in Nodes
    PROVE  Drawn(n) \in Version
<1>1. now + Lead[n] \in Nat /\ n \in Nat /\ clock[n] \in Version
  BY MembershipAssumption DEF TypeOK
<1>2. MaxLogical \in Nat
  BY MembershipAssumption
<1>3. [clock[n] EXCEPT !.logical = IF @ < MaxLogical THEN @ + 1 ELSE @] \in Version
  BY <1>1, <1>2 DEF Version
<1> QED
  BY <1>1, <1>3 DEF Drawn, Version

\* Statuses are ranked by numbers.
LEMMA RanksAreNumbers ==
    ASSUME NEW r \in Member
    PROVE  Rank(r.status) \in Nat
  BY DEF Member, Rank

\* compareMember is a strict order.
LEMMA MemberOrder ==
    ASSUME NEW a \in Member, NEW b \in Member, NEW c \in Member
    PROVE  /\ ~MemberLess(a, a)
           /\ MemberLess(a, b) /\ MemberLess(b, c) => MemberLess(a, c)
<1>1. /\ a.inc \in Nat /\ b.inc \in Nat /\ c.inc \in Nat
      /\ a.version \in Version /\ b.version \in Version /\ c.version \in Version
  BY DEF Member
<1>2. Rank(a.status) \in Nat /\ Rank(b.status) \in Nat /\ Rank(c.status) \in Nat
  BY RanksAreNumbers
<1>3. ~VersionLess(a.version, a.version)
  BY <1>1 DEF Version, VersionLess
<1>4. VersionLess(a.version, b.version) /\ VersionLess(b.version, c.version)
        => VersionLess(a.version, c.version)
  BY <1>1 DEF Version, VersionLess
<1> QED
  BY <1>1, <1>2, <1>3, <1>4 DEF MemberLess

\* compareMember does not look at the last-seen time, and ranks an ALIVE
\* record as any other ALIVE record of its incarnation and version.
LEMMA RepetitionIsBehind ==
    ASSUME NEW r, NEW q, NEW own, Repeats(r, q), Behind(q, own)
    PROVE  Behind(r, own)
<1> SUFFICES ASSUME r.boot = boot
             PROVE  /\ r.inc <= own.inc
                    /\ r.status = "ALIVE" => ~MemberLess(own, r)
  BY DEF Behind
<1>1. q.boot = boot /\ q.inc = r.inc
  BY DEF Repeats
<1>2. ASSUME r.status = "ALIVE" PROVE ~MemberLess(own, r)
  <2>1. q.status = "ALIVE" /\ r.version = q.version
    BY <1>2 DEF Repeats
  <2>2. ~MemberLess(own, q)
    BY <1>1, <2>1 DEF Behind
  <2> QED
    BY <1>1, <1>2, <2>1, <2>2 DEF MemberLess
<1> QED
  BY <1>1, <1>2 DEF Behind

\* What tables and datagrams hold are member records.
LEMMA KnownAreMembers ==
    ASSUME TypeOK
    PROVE  Known \subseteq Member
  BY DEF TypeOK, Known

\* So is the record a running process has of itself.
LEMMA OwnIsKnown ==
    ASSUME TypeOK, up
    PROVE  Own \in Known /\ Own \in Member
  BY MembershipAssumption DEF TypeOK, Known, Own

\* What a running node is told of itself it merges into a record of itself.
LEMMA MergedIsAMember ==
    ASSUME TypeOK, NEW n \in Nodes, Runs(n), NEW r \in Member
    PROVE  Merged(n, r) \in Member
<1>1. table[n] \in Member \union {None}
  BY DEF TypeOK
<1>2. CASE Accuses(n, r)
  <2>1. n = Subject /\ table[n] \in Member
    BY <1>2, <1>1 DEF Accuses, Runs, TypeOK
  <2>2. Drawn(Subject) \in Version /\ now \in Nat
    BY <2>1, ClockDraws DEF TypeOK
  <2>3. r.inc + 1 \in Nat \ {0}
    BY DEF Member
  <2>4. Refuted(table[n], r) \in Member
    BY <2>1, <2>2, <2>3 DEF Refuted, Member
  <2> QED
    BY <1>2, <2>4 DEF Merged
<1>3. CASE ~Accuses(n, r)
  BY <1>1, <1>3 DEF Merged
<1> QED
  BY <1>2, <1>3

-----------------------------------------------------------------------------
(* The two ways a step keeps the own entry ahead.                          *)

\* Whoever only repeats what was known leaves the own entry ahead.
LEMMA RepeatingKeeps ==
    ASSUME IInv,
           \A r \in Known' : \E q \in Known : Repeats(r, q),
           boot' = boot, up' => up /\ Own' = Own
    PROVE  Boots' /\ OwnEntryLeads'
<1>1. Boots'
  BY DEF Boots, Repeats, IInv
<1>2. ASSUME up', NEW r \in Known' PROVE Behind(r, Own)
  <2>1. PICK q \in Known : Repeats(r, q)
    OBVIOUS
  <2>2. Behind(q, Own)
    BY <1>2 DEF IInv, OwnEntryLeads, Behind, Own
  <2> QED
    BY <2>1, <2>2, RepetitionIsBehind
<1> QED
  BY <1>1, <1>2 DEF OwnEntryLeads, Behind, MemberLess, Own

\* A refutation is ahead of everything: its incarnation is higher than the
\* accusation's, which is at least the former own one.
LEMMA RefutingKeeps ==
    ASSUME IInv, up, NEW r \in Member, r.inc >= Own.inc,
           Own' \in Member, boot' = boot, up' = up,
           Own'.inc = r.inc + 1, Own'.boot = Own.boot,
           Known' \subseteq Known \union {Own'}
    PROVE  Boots' /\ OwnEntryLeads'
<1>1. Own \in Known /\ Own \in Member /\ Known \subseteq Member
  BY OwnIsKnown, KnownAreMembers DEF IInv
<1>2. Boots'
  BY <1>1 DEF IInv, Boots
<1>3. ASSUME NEW q \in Known', q.boot = boot
      PROVE  q.inc <= Own'.inc /\ ~MemberLess(Own', q)
  <2>1. CASE q \in Known
    <3>1. q.inc <= Own.inc /\ q.inc \in Nat /\ Own.inc \in Nat /\ r.inc \in Nat
      BY <1>1, <1>3, <2>1 DEF IInv, OwnEntryLeads, Own, Member
    <3>2. q.inc < Own'.inc /\ Own'.inc \in Nat
      BY <3>1
    <3> QED
      BY <3>1, <3>2 DEF MemberLess
  <2>2. CASE q = Own'
    BY <2>2, MemberOrder DEF Member
  <2> QED
    BY <1>3, <2>1, <2>2
<1> QED
  BY <1>2, <1>3 DEF OwnEntryLeads, Own

\* A later ALIVE record that the subject takes over is ahead of everything,
\* as the former own one was.
LEMMA AdoptingKeeps ==
    ASSUME IInv, up, boot' = boot, up' = up,
           Own' \in Known, Own'.status = "ALIVE", MemberLess(Own, Own'),
           Known' \subseteq Known
    PROVE  Boots' /\ OwnEntryLeads'
<1>1. Own \in Member /\ Known \subseteq Member
  BY OwnIsKnown, KnownAreMembers DEF IInv
<1>2. Boots'
  BY DEF IInv, Boots
<1>3. ASSUME NEW q \in Known', q.boot = boot
      PROVE  q.inc <= Own'.inc /\ (q.status = "ALIVE" => ~MemberLess(Own', q))
  <2>1. q \in Member /\ Own' \in Member
    BY <1>1
  <2>2. q.inc <= Own.inc /\ (q.status = "ALIVE" => ~MemberLess(Own, q))
    BY <1>3 DEF IInv, OwnEntryLeads, Own
  <2>3. Own.inc <= Own'.inc
    BY <1>1, <2>1 DEF MemberLess, Member
  <2>4. q.inc <= Own'.inc
    BY <1>1, <2>1, <2>2, <2>3 DEF Member
  <2> QED
    BY <1>1, <2>1, <2>2, <2>4, MemberOrder
<1> QED
  BY <1>2, <1>3 DEF OwnEntryLeads, Own

-----------------------------------------------------------------------------
(* Datagrams.                                                              *)

WellFormed(d) ==
    /\ d \in [kind : MessageKinds, from : Nodes, to : Nodes, member : Member \union {None}]
    /\ d.kind = "members" \/ d.from = Subject => d.member # None
    /\ d.from # d.to
    /\ d.from = Subject /\ d.kind # "members" => d.member.status = "ALIVE"

\* The invariant in terms of one datagram.
LEMMA NetWellFormed ==
    (TypeOK /\ Traffic => \A d \in net : WellFormed(d))
  BY DEF TypeOK, Traffic, WellFormed

\* A node that runs says of itself that it is alive.
LEMMA OwnIsAlive ==
    ASSUME TypeOK, NEW n \in Nodes, Runs(n)
    PROVE  /\ table[n] \in Member \union {None}
           /\ n = Subject => table[n] # None /\ table[n].status = "ALIVE"
  BY DEF TypeOK, Runs

\* An ack and a members message say what their sender knows.
LEMMA ReplyWellFormed ==
    ASSUME NEW n \in Nodes, NEW m \in Nodes, n # m, NEW e \in Member \union {None},
           n = Subject => e # None /\ e.status = "ALIVE",
           NEW d \in Reply(n, m, e)
    PROVE  WellFormed(d) /\ d.member = e
  BY DEF Reply, About, Datagram, WellFormed, MessageKinds

\* So do the datagrams of a round.
LEMMA RoundWellFormed ==
    ASSUME TypeOK, NEW n \in Nodes, NEW m \in Nodes, n # m, Runs(n),
           NEW d \in {Ping(n, m)} \union About(n, m, table[n])
    PROVE  WellFormed(d) /\ d.member \in {table[n], None}
<1>1. /\ table[n] \in Member \union {None}
      /\ n = Subject => table[n] # None /\ table[n].status = "ALIVE"
  BY OwnIsAlive
<1>2. CASE d = Ping(n, m)
  BY <1>1, <1>2 DEF Ping, Datagram, WellFormed, MessageKinds
<1>3. CASE d \in About(n, m, table[n])
  BY <1>1, <1>3 DEF About, Datagram, WellFormed, MessageKinds
<1> QED
  BY <1>2, <1>3

\* Nothing is under way but what was and what is sent.
LEMMA SendSends ==
    ASSUME NEW rest, NEW sent, Send(rest, sent)
    PROVE  \A d \in net' : d \in rest \/ d \in sent
  BY DEF Send

\* What is known after n's entry became e and datagrams about known records
\* were sent.
LEMMA KnownAfter ==
    ASSUME TypeOK, NEW n \in Nodes, NEW e, table' = [table EXCEPT ![n] = e],
           \A d \in net' : d \in net \/ d.member \in {e, None} \union Known
    PROVE  Known' \subseteq Known \union {e}
<1>1. \A m \in Nodes : table'[m] = IF m = n THEN e ELSE table[m]
  BY DEF TypeOK
<1>2. ASSUME NEW r \in Known' PROVE r \in Known \union {e}
  <2>1. r # None /\ (r \in {table'[m] : m \in Nodes} \/ r \in {d.member : d \in net'})
    BY DEF Known
  <2>2. CASE r \in {table'[m] : m \in Nodes}
    BY <1>1, <2>1, <2>2 DEF Known
  <2>3. CASE r \in {d.member : d \in net'}
    BY <2>1, <2>3 DEF Known
  <2> QED
    BY <2>1, <2>2, <2>3
<1> QED
  BY <1>2

-----------------------------------------------------------------------------
(* The steps.                                                              *)

\* The invariant holds when the subject has just started.
LEMMA InitKeeps == Init => IInv
<1> SUFFICES ASSUME Init PROVE IInv
  OBVIOUS
<1> DEFINE first == [physical |-> 1 + Lead[Subject], logical |-> 0, origin |-> Subject]
<1>1. first \in Version /\ \A n \in Nodes : Fresh(n) \in Version
  BY MembershipAssumption DEF Version, Fresh
<1>2. Self(1, first) \in Member /\ Self(1, first).status = "ALIVE"
  BY <1>1 DEF Init, Self, Member
<1>3. /\ table = [n \in Nodes |-> IF n = Subject THEN Self(1, first) ELSE None]
      /\ clock = [n \in Nodes |-> IF n = Subject THEN first ELSE Fresh(n)]
      /\ handling = [n \in Nodes |-> None] /\ net = {} /\ boot = 1 /\ up = TRUE /\ now = 1
  BY DEF Init
<1> HIDE DEF first
<1>4. TypeOK
  BY <1>1, <1>2, <1>3, MembershipAssumption, NoMemberAssumption DEF TypeOK
<1>5. Traffic /\ Listening
  BY <1>3, MembershipAssumption DEF Traffic, Listening
<1>6. Known \subseteq {Self(1, first)} /\ table[Subject] = Self(1, first)
  BY <1>3, MembershipAssumption DEF Known
<1>7. Self(1, first).boot = 1
  BY DEF Self
<1>8. Boots
  BY <1>3, <1>6, <1>7 DEF Boots
<1>9. OwnEntryLeads
  BY <1>2, <1>6, MemberOrder DEF OwnEntryLeads, Member
<1> QED
  BY <1>4, <1>5, <1>8, <1>9 DEF IInv

\* A step that adds at most a repetition to what is known.
LEMMA OneRepetitionKeeps ==
    ASSUME IInv, NEW e, NEW q \in Known, Repeats(e, q), Known' \subseteq Known \union {e},
           boot' = boot, up' => up /\ Own' = Own
    PROVE  Boots' /\ OwnEntryLeads'
<1>1. \A r \in Known : Repeats(r, r)
  BY DEF Repeats
<1>2. \A r \in Known' : \E p \in Known : Repeats(r, p)
  BY <1>1
<1> QED
  BY <1>2, RepeatingKeeps

\* A step after which no more is known keeps the own entry ahead.
LEMMA NothingNewKeeps ==
    ASSUME IInv, Known' \subseteq Known, boot' = boot, up' => up /\ Own' = Own
    PROVE  Boots' /\ OwnEntryLeads'
<1>1. \A r \in Known : Repeats(r, r)
  BY DEF Repeats
<1> QED
  BY <1>1, RepeatingKeeps

\* Time that goes on changes no record.
LEMMA ElapseKeeps ==
    ASSUME IInv, Elapse
    PROVE  IInv'
<1>1. /\ UNCHANGED <<boot, up, clock, table, handling, net>>
      /\ now \in Nat /\ now' = now + 1
  BY DEF Elapse, IInv, TypeOK
<1>2. Known' = Known /\ Own' = Own
  BY <1>1 DEF Known, Own
<1>3. TypeOK' /\ Traffic' /\ Listening'
  BY <1>1 DEF IInv, TypeOK, Traffic, Listening
<1> QED
  BY <1>1, <1>2, <1>3, NothingNewKeeps DEF IInv

\* A process that stops forgets.
LEMMA StopKeeps ==
    ASSUME IInv, Stop
    PROVE  IInv'
<1>1. /\ up' = FALSE /\ UNCHANGED <<now, boot, clock>>
      /\ table' = [table EXCEPT ![Subject] = None]
      /\ handling' = [handling EXCEPT ![Subject] = None]
      /\ net' = net
  BY DEF Stop
<1>2. Subject \in Nodes
  BY MembershipAssumption
<1>3. TypeOK'
  BY <1>1, <1>2 DEF IInv, TypeOK
<1>4. Traffic' /\ Listening'
  BY <1>1, <1>2 DEF IInv, Traffic, Listening, TypeOK
<1>5. Known' \subseteq Known \union {None}
  BY <1>1, <1>2, KnownAfter DEF IInv
<1>6. Known' \subseteq Known
  BY <1>5 DEF Known
<1> QED
  BY <1>1, <1>3, <1>4, <1>6, NothingNewKeeps DEF IInv

\* What is lost is not known any more.
LEMMA LoseKeeps ==
    ASSUME IInv, NEW d \in net, Lose(d)
    PROVE  IInv'
<1>1. UNCHANGED <<now, boot, up, clock, table, handling>> /\ net' \subseteq net
  BY DEF Lose
<1>2. Known' \subseteq Known /\ Own' = Own
  BY <1>1 DEF Known, Own
<1>3. TypeOK' /\ Traffic' /\ Listening'
  BY <1>1 DEF IInv, TypeOK, Traffic, Listening
<1> QED
  BY <1>1, <1>2, <1>3, NothingNewKeeps DEF IInv

\* A new process is the first of its boot ID.
LEMMA StartKeeps ==
    ASSUME IInv, Start
    PROVE  IInv'
<1> DEFINE first == [physical |-> now + Lead[Subject], logical |-> 0, origin |-> Subject]
<1> DEFINE self == Self(boot + 1, first)
<1>1. /\ boot' = boot + 1 /\ up' = TRUE
      /\ clock' = [clock EXCEPT ![Subject] = first]
      /\ table' = [table EXCEPT ![Subject] = self]
      /\ UNCHANGED <<now, handling, net>>
  BY DEF Start
<1>2. Subject \in Nodes /\ first \in Version /\ boot \in Nat \ {0}
  BY MembershipAssumption DEF Version, IInv, TypeOK
<1>3. self \in Member /\ self.status = "ALIVE" /\ self.boot = boot + 1
  BY <1>2 DEF Self, Member, IInv, TypeOK
<1> HIDE DEF first, self
<1>4. TypeOK'
  BY <1>1, <1>2, <1>3, NoMemberAssumption DEF IInv, TypeOK
<1>5. Traffic' /\ Listening'
  BY <1>1, <1>2, <1>3, NoMemberAssumption DEF IInv, Traffic, Listening, TypeOK
<1>6. Known' \subseteq Known \union {self}
  BY <1>1, <1>2, KnownAfter DEF IInv
<1>7. \A r \in Known : r.boot \in Nat /\ r.boot <= boot
  BY KnownAreMembers DEF IInv, Boots, Member
<1>8. Boots'
  BY <1>1, <1>2, <1>3, <1>6, <1>7 DEF Boots
<1>9. table'[Subject] = self
  BY <1>1, <1>2 DEF IInv, TypeOK
<1>10. ASSUME NEW r \in Known', r.boot = boot'
       PROVE  r = self
  BY <1>1, <1>2, <1>6, <1>7, <1>10
<1>11. OwnEntryLeads'
  BY <1>3, <1>9, <1>10, MemberOrder DEF OwnEntryLeads, Member
<1> QED
  BY <1>4, <1>5, <1>8, <1>11 DEF IInv

\* A failure detector says of the running process nothing that cannot be
\* refuted: the incarnation stays.
LEMMA DetectKeeps ==
    ASSUME IInv, NEW n \in Nodes, Detect(n)
    PROVE  IInv'
<1> DEFINE e == [table[n] EXCEPT !.status = Overdue(table[n]), !.version = Drawn(n)]
<1>1. /\ n # Subject /\ table[n] # None /\ Overdue(table[n]) # table[n].status
      /\ clock' = [clock EXCEPT ![n] = Drawn(n)]
      /\ UNCHANGED <<now, boot, up, handling, net>>
  BY DEF Detect
<1>2. table' = [table EXCEPT ![n] = e]
  BY DEF Detect, IInv, TypeOK
<1>3. table[n] \in Member /\ Drawn(n) \in Version
  BY <1>1, ClockDraws DEF IInv, TypeOK
<1>4. Overdue(table[n]) \in {"SUSPECT", "DEAD"}
  BY <1>1 DEF Overdue
<1>5. e \in Member /\ Repeats(e, table[n])
  BY <1>3, <1>4 DEF Member, Repeats
<1> HIDE DEF e
<1>6. table[n] \in Known
  BY <1>1 DEF Known
<1>7. TypeOK'
  BY <1>1, <1>2, <1>3, <1>5 DEF IInv, TypeOK
<1>8. Traffic' /\ Listening'
  BY <1>1, <1>2, <1>5, NoMemberAssumption DEF IInv, Traffic, Listening, TypeOK
<1>9. Known' \subseteq Known \union {e}
  BY <1>1, <1>2, KnownAfter DEF IInv
<1>10. Own' = Own
  BY <1>1, <1>2 DEF Own, IInv, TypeOK
<1> QED
  BY <1>1, <1>5, <1>6, <1>7, <1>8, <1>9, <1>10, OneRepetitionKeeps DEF IInv

\* A round repeats what its node knows.
LEMMA RoundKeeps ==
    ASSUME IInv, NEW n \in Nodes, NEW m \in Nodes, Round(n, m)
    PROVE  IInv'
<1>1. /\ Runs(n) /\ n # m
      /\ UNCHANGED <<now, boot, up, clock, table, handling>>
      /\ Send(net, {Ping(n, m)} \union About(n, m, table[n]))
  BY DEF Round, Targets
<1>2. ASSUME NEW d \in net'
      PROVE  WellFormed(d) /\ (d \in net \/ d.member \in {table[n], None})
  <2>1. CASE d \in net
    BY <2>1, NetWellFormed DEF IInv
  <2>2. CASE d \notin net
    <3>1. d \in {Ping(n, m)} \union About(n, m, table[n])
      BY <1>1, <2>2, SendSends
    <3> QED
      BY <1>1, <3>1, RoundWellFormed DEF IInv
  <2> QED
    BY <2>1, <2>2
<1>3. TypeOK'
  BY <1>1, <1>2 DEF IInv, TypeOK, WellFormed
<1>4. Traffic' /\ Listening'
  BY <1>1, <1>2 DEF IInv, Traffic, Listening, WellFormed
<1>5. Known' \subseteq Known
  BY <1>1, <1>2 DEF Known
<1> QED
  BY <1>1, <1>3, <1>4, <1>5, NothingNewKeeps DEF IInv, Own

\* An observer adopts what it is told, or keeps what it knows.
LEMMA MembersToObserverKeeps ==
    ASSUME IInv, NEW d \in net, Runs(d.to), handling[d.to] = None, d.to # Subject,
           ReceiveMembers(d), UNCHANGED <<now, boot, up>>
    PROVE  IInv'
<1> DEFINE n == d.to
<1> DEFINE e == Merged(n, d.member)
<1>1. n \in Nodes /\ d.kind = "members" /\ d.member \in Member
  BY DEF ReceiveMembers, IInv, TypeOK
<1>2. /\ clock' = clock /\ table' = [table EXCEPT ![n] = e]
      /\ net' \subseteq net /\ handling' = handling
  BY DEF ReceiveMembers, ClockAfterMerge, Accuses
<1>3. e \in Member
  BY <1>1, MergedIsAMember DEF IInv
<1>4. e = d.member \/ e = table[n]
  BY DEF Merged, Accuses
<1>5. d.member \in Known /\ (table[n] # None => table[n] \in Known)
  BY <1>1, NoMemberAssumption DEF Known
<1>6. e \in Known
  BY <1>3, <1>4, <1>5, NoMemberAssumption
<1> HIDE DEF e
<1>7. TypeOK'
  BY <1>1, <1>2, <1>3 DEF IInv, TypeOK
<1>8. Traffic' /\ Listening'
  BY <1>1, <1>2, <1>3, NoMemberAssumption DEF IInv, Traffic, Listening, TypeOK
<1>9. Known' \subseteq Known
  <2>1. Known' \subseteq Known \union {e}
    BY <1>1, <1>2, KnownAfter DEF IInv
  <2> QED
    BY <1>6, <2>1
<1>10. Own' = Own
  BY <1>1, <1>2 DEF Own, IInv, TypeOK
<1> QED
  BY <1>7, <1>8, <1>9, <1>10, NothingNewKeeps DEF IInv

\* The subject refutes what it is told, adopts it, or keeps its own entry.
LEMMA MembersToSubjectKeeps ==
    ASSUME IInv, NEW d \in net, up, d.to = Subject,
           ReceiveMembers(d), UNCHANGED <<now, boot, up>>
    PROVE  IInv'
<1> DEFINE r == d.member
<1> DEFINE e == Merged(Subject, r)
<1>1. Subject \in Nodes /\ d.kind = "members" /\ r \in Member /\ Runs(Subject)
  BY MembershipAssumption DEF ReceiveMembers, IInv, TypeOK, Runs
<1>2. /\ clock' = ClockAfterMerge(Subject, r) /\ table' = [table EXCEPT ![Subject] = e]
      /\ net' \subseteq net /\ handling' = handling
  BY DEF ReceiveMembers
<1>3. Own \in Member /\ Own \in Known /\ Own.status = "ALIVE" /\ table[Subject] = Own
  BY <1>1, OwnIsKnown DEF IInv, TypeOK, Own
<1>4. e \in Member
  BY <1>1, MergedIsAMember DEF IInv
<1>5. r \in Known
  BY <1>1, NoMemberAssumption DEF Known
<1>6. clock' \in [Nodes -> Version]
  BY <1>1, <1>2, ClockDraws DEF ClockAfterMerge, IInv, TypeOK
<1>7. Own' = e
  BY <1>1, <1>2 DEF Own, IInv, TypeOK
<1>8. Known' \subseteq Known \union {e}
  BY <1>1, <1>2, KnownAfter DEF IInv
<1>9. e.status = "ALIVE" /\ Boots' /\ OwnEntryLeads'
  <2>1. CASE r.status # "ALIVE" /\ r.inc >= Own.inc
    <3>1. e = [Own EXCEPT !.inc = r.inc + 1, !.status = "ALIVE",
                          !.version = Drawn(Subject), !.seen = now]
      BY <1>1, <1>3, <2>1 DEF Merged, Accuses, Refuted, Member
    <3>2. e.inc = r.inc + 1 /\ e.status = "ALIVE" /\ e.boot = Own.boot
      BY <1>3, <3>1 DEF Member
    <3> HIDE DEF e, r
    <3> QED
      BY <1>1, <1>4, <1>7, <1>8, <2>1, <3>2, RefutingKeeps
  <2>2. CASE r.status # "ALIVE" /\ ~(r.inc >= Own.inc)
    <3>1. e = Own
      BY <1>1, <1>3, <2>2 DEF Merged, Accuses, Refuted, Member
    <3> HIDE DEF e, r
    <3> QED
      BY <1>3, <1>7, <1>8, <3>1, NothingNewKeeps
  <2>3. CASE r.status = "ALIVE" /\ MemberLess(Own, r)
    <3>1. e = r
      BY <1>3, <2>3 DEF Merged, Accuses
    <3> HIDE DEF e, r
    <3> QED
      BY <1>5, <1>7, <1>8, <2>3, <3>1, AdoptingKeeps
  <2>4. CASE r.status = "ALIVE" /\ ~MemberLess(Own, r)
    <3>1. e = Own
      BY <1>3, <1>4, <2>4, NoMemberAssumption DEF Merged, Accuses
    <3> HIDE DEF e, r
    <3> QED
      BY <1>3, <1>7, <1>8, <3>1, NothingNewKeeps
  <2> QED
    BY <2>1, <2>2, <2>3, <2>4
<1> HIDE DEF e
<1>10. TypeOK'
  BY <1>1, <1>2, <1>4, <1>6, <1>9, NoMemberAssumption DEF IInv, TypeOK
<1>11. Traffic' /\ Listening'
  BY <1>1, <1>2, <1>4, NoMemberAssumption DEF IInv, Traffic, Listening, TypeOK
<1> QED
  BY <1>9, <1>10, <1>11 DEF IInv

\* First half of ObserveAlive: the subject's own word, with a new last-seen time.
LEMMA SelfKeeps ==
    ASSUME IInv, NEW d \in net, Runs(d.to), handling[d.to] = None,
           ReceiveSelf(d), UNCHANGED <<now, boot, up>>
    PROVE  IInv'
<1> DEFINE n == d.to
<1> DEFINE r == [d.member EXCEPT !.status = "ALIVE", !.seen = now]
<1> DEFINE e == Merged(n, r)
<1>1. /\ n \in Nodes /\ n # Subject /\ d.member \in Member /\ now \in Nat
      /\ d.member.status = "ALIVE"
  BY DEF ReceiveSelf, IInv, TypeOK, Traffic
<1>2. /\ clock' = clock /\ table' = [table EXCEPT ![n] = e] /\ net' \subseteq net
      /\ handling' = [handling EXCEPT ![n] = [at |-> now, refresh |-> e.status = "ALIVE",
                                              answer |-> d.kind = "ping"]]
  BY DEF ReceiveSelf
<1>3. r \in Member /\ Repeats(r, d.member)
  BY <1>1 DEF Member, Repeats
<1>4. d.member \in Known /\ (table[n] # None => table[n] \in Known)
  BY <1>1, NoMemberAssumption DEF Known
<1> HIDE DEF r
<1>5. e \in Member
  BY <1>1, <1>3, MergedIsAMember DEF IInv
<1>6. e = r \/ e = table[n]
  BY <1>1 DEF Merged, Accuses
<1>7. \E q \in Known : Repeats(e, q)
  <2>1. CASE e = r
    BY <1>3, <1>4, <2>1
  <2>2. CASE e = table[n]
    BY <1>4, <1>5, <2>2, NoMemberAssumption DEF Repeats
  <2> QED
    BY <1>6, <2>1, <2>2
<1> HIDE DEF e
<1>8. TypeOK'
  BY <1>1, <1>2, <1>5 DEF IInv, TypeOK
<1>9. Traffic' /\ Listening'
  BY <1>1, <1>2, <1>5, NoMemberAssumption DEF IInv, Traffic, Listening, TypeOK
<1>10. Known' \subseteq Known \union {e}
  BY <1>1, <1>2, KnownAfter DEF IInv
<1>11. Own' = Own
  BY <1>1, <1>2 DEF Own, IInv, TypeOK
<1> QED
  BY <1>7, <1>8, <1>9, <1>10, <1>11, OneRepetitionKeeps DEF IInv

\* A ping of an observer is answered with what the node knows.
LEMMA PingKeeps ==
    ASSUME IInv, NEW d \in net, Runs(d.to), ReceivePing(d), UNCHANGED <<now, boot, up>>
    PROVE  IInv'
<1> DEFINE n == d.to
<1> DEFINE m == d.from
<1>1. /\ n \in Nodes /\ m \in Nodes /\ n # m
      /\ UNCHANGED <<now, boot, up, clock, table, handling>>
      /\ Send(net \ {d}, Reply(n, m, table[n]))
  BY DEF ReceivePing, IInv, TypeOK, Traffic
<1>2. /\ table[n] \in Member \union {None}
      /\ n = Subject => table[n] # None /\ table[n].status = "ALIVE"
  BY <1>1, OwnIsAlive DEF IInv
<1>3. ASSUME NEW c \in net'
      PROVE  WellFormed(c) /\ (c \in net \/ c.member = table[n])
  <2>1. CASE c \in net
    BY <2>1, NetWellFormed DEF IInv
  <2>2. CASE c \notin net
    <3>1. c \in Reply(n, m, table[n])
      BY <1>1, <2>2, SendSends
    <3> QED
      BY <1>1, <1>2, <3>1, ReplyWellFormed
  <2> QED
    BY <2>1, <2>2
<1>4. TypeOK'
  BY <1>1, <1>3 DEF IInv, TypeOK, WellFormed
<1>5. Traffic' /\ Listening'
  BY <1>1, <1>3 DEF IInv, Traffic, Listening, WellFormed
<1>6. Known' \subseteq Known
  BY <1>1, <1>3 DEF Known
<1> QED
  BY <1>1, <1>4, <1>5, <1>6, NothingNewKeeps DEF IInv, Own

\* Second half of ObserveAlive: a new last-seen time, and the answer to a ping.
LEMMA ObservedKeeps ==
    ASSUME IInv, NEW n \in Nodes, Observed(n)
    PROVE  IInv'
<1> DEFINE e == IF handling[n].refresh THEN Refreshed(table[n], handling[n].at) ELSE table[n]
<1> DEFINE sent == IF handling[n].answer THEN Reply(n, Subject, e) ELSE {}
<1>1. /\ handling[n] # None /\ table' = [table EXCEPT ![n] = e] /\ Send(net, sent)
      /\ handling' = [handling EXCEPT ![n] = None]
      /\ UNCHANGED <<now, boot, up, clock>>
  BY DEF Observed
<1>2. /\ n # Subject /\ Subject \in Nodes /\ table[n] \in Member
      /\ handling[n].at \in Nat
  BY <1>1, MembershipAssumption DEF IInv, Listening, TypeOK
<1>3. e \in Member /\ Repeats(e, table[n])
  BY <1>2 DEF Refreshed, Member, Repeats
<1>4. table[n] \in Known
  BY <1>1, <1>2, NoMemberAssumption DEF Known
<1> HIDE DEF e
<1>5. ASSUME NEW d \in net'
      PROVE  WellFormed(d) /\ (d \in net \/ d.member = e)
  <2>1. CASE d \in net
    BY <2>1, NetWellFormed DEF IInv
  <2>2. CASE d \notin net
    <3>1. d \in Reply(n, Subject, e)
      BY <1>1, <2>2, SendSends
    <3> QED
      BY <1>2, <1>3, <3>1, ReplyWellFormed
  <2> QED
    BY <2>1, <2>2
<1>6. TypeOK'
  BY <1>1, <1>2, <1>3, <1>5 DEF IInv, TypeOK, WellFormed
<1>7. Traffic' /\ Listening'
  BY <1>1, <1>2, <1>3, <1>5, NoMemberAssumption
  DEF IInv, Traffic, Listening, TypeOK, WellFormed
<1>8. Known' \subseteq Known \union {e}
  BY <1>1, <1>5, KnownAfter DEF IInv
<1>9. Own' = Own
  BY <1>1, <1>2 DEF Own, IInv, TypeOK
<1> QED
  BY <1>1, <1>3, <1>4, <1>6, <1>7, <1>8, <1>9, OneRepetitionKeeps DEF IInv

\* Every step keeps the invariant.
LEMMA StepKeeps ==
    ASSUME IInv, [Next]_vars
    PROVE  IInv'
<1>1. CASE Elapse
  BY <1>1, ElapseKeeps
<1>2. CASE Stop
  BY <1>2, StopKeeps
<1>3. CASE Start
  BY <1>3, StartKeeps
<1>9. CASE \E d \in net : Lose(d)
  BY <1>9, LoseKeeps
<1>4. CASE \E n \in Nodes : Detect(n)
  BY <1>4, DetectKeeps
<1>5. CASE \E n \in Nodes : Observed(n)
  BY <1>5, ObservedKeeps
<1>6. CASE \E n, m \in Nodes : Round(n, m)
  BY <1>6, RoundKeeps
<1>7. CASE \E kind \in MessageKinds, n, m \in Nodes : Receive(kind, n, m)
  <2>1. PICK d \in net : /\ Runs(d.to) /\ handling[d.to] = None
                         /\ ReceiveMembers(d) \/ ReceiveSelf(d) \/ ReceivePing(d)
                         /\ UNCHANGED <<now, boot, up>>
    BY <1>7 DEF Receive
  <2>2. CASE ReceiveMembers(d)
    <3>1. CASE d.to = Subject
      BY <2>1, <2>2, <3>1, MembersToSubjectKeeps DEF Runs
    <3>2. CASE d.to # Subject
      BY <2>1, <2>2, <3>2, MembersToObserverKeeps
    <3> QED
      BY <3>1, <3>2
  <2>3. CASE ReceiveSelf(d)
    BY <2>1, <2>3, SelfKeeps
  <2>4. CASE ReceivePing(d)
    BY <2>1, <2>4, PingKeeps
  <2> QED
    BY <2>1, <2>2, <2>3, <2>4
<1>8. CASE UNCHANGED vars
  <2>1. UNCHANGED <<now, boot, up, clock, table, handling, net>>
    BY <1>8 DEF vars
  <2>2. Known' = Known /\ Own' = Own
    BY <2>1 DEF Known, Own
  <2>3. TypeOK' /\ Traffic' /\ Listening'
    BY <2>1 DEF IInv, TypeOK, Traffic, Listening
  <2> QED
    BY <2>1, <2>2, <2>3, NothingNewKeeps DEF IInv
<1> QED
  BY <1>1, <1>2, <1>3, <1>4, <1>5, <1>6, <1>7, <1>8, <1>9 DEF Next

\* The invariant of the specification.
LEMMA Invariant == Spec => []IInv
<1>1. Init => IInv
  BY InitKeeps
<1>2. IInv /\ [Next]_vars => IInv'
  BY StepKeeps
<1> QED
  BY <1>1, <1>2, PTL DEF Spec

\* Whatever members hear of one another, every table and every datagram stays
\* well-formed, and a running node holds itself alive (Merge and refute of
\* cluster/table.go).
THEOREM TypeCorrect == Spec => []TypeOK
<1>1. IInv => TypeOK
  BY DEF IInv
<1> QED
  BY <1>1, Invariant, PTL

\* The entry a running process has of itself is ahead of all that is said of
\* it, in any table and in any datagram however old: what Merge lets through
\* to refute can always be refuted.
THEOREM OwnEntryAlwaysLeads == Spec => []OwnEntryLeads
<1>1. IInv => OwnEntryLeads
  BY DEF IInv
<1> QED
  BY <1>1, Invariant, PTL
-----------------------------------------------------------------------------
(* Who may clear a suspicion.  An ALIVE record carries the version of the  *)
(* clock that its process drew it from, and a node that suspects it has    *)
(* not heard of it for Suspicion: if the process' clock is not as far      *)
(* ahead of the node's, the suspicion has the later version.               *)

\* s was not seen before the ALIVE record r of its incarnation was drawn, and
\* if s is an accusation by a clock that is close it is later than r.
Dated(r, s) ==
    r.boot = s.boot /\ r.inc = s.inc /\ r.status = "ALIVE" =>
        /\ r.version.physical <= s.seen + Lead[Subject]
        /\ s.status # "ALIVE" /\ Close(s.version.origin) =>
              r.version.physical < s.version.physical

ClocksRead ==
    \A n \in Nodes : clock[n].physical <= now + Lead[n] /\ clock[n].origin = n

\* The records of earlier processes are not dated: a process that has taken
\* over its predecessor's entry may refute in its predecessor's name.
Ages ==
    /\ ClocksRead
    /\ \A r \in Known : r.seen <= now
    /\ \A r, s \in Known : r.boot = boot => Dated(r, s)

\* A listener in ObserveAlive has seen nothing later than what it handles.
Heard ==
    \A n \in Nodes :
        handling[n] # None => handling[n].at <= now /\ table[n].seen <= handling[n].at

\* e may take the place of q: seen no earlier, the same ALIVE record, the same
\* accusation or one that is later than q was seen.
StandsFor(e, q) ==
    /\ e.boot = q.boot /\ e.inc = q.inc /\ q.seen <= e.seen
    /\ e.status = "ALIVE" => q.status = "ALIVE" /\ e.version = q.version
    /\ e.status # "ALIVE" =>
          \/ q.status # "ALIVE" /\ e.version = q.version
          \/ Close(e.version.origin) => q.seen + Lead[Subject] < e.version.physical

\* What the assumptions say of the constants of time.
LEMMA LeadsAreNumbers ==
    Subject \in Nodes /\ Suspicion \in Nat /\ \A n \in Nodes : Lead[n] \in Nat
  BY MembershipAssumption

\* As nothing sets a clock ahead, it reads the time.
LEMMA DrawnNow ==
    ASSUME IInv, ClocksRead, NEW n \in Nodes
    PROVE  /\ Drawn(n) \in Version
           /\ Drawn(n).physical = now + Lead[n] /\ Drawn(n).origin = n
<1>1. Drawn(n) \in Version
  BY ClockDraws DEF IInv
<1>2. clock[n] \in Version /\ now \in Nat /\ Lead[n] \in Nat
  BY LeadsAreNumbers DEF IInv, TypeOK
<1>3. /\ clock[n].physical <= now + Lead[n] /\ clock[n].physical \in Nat
      /\ clock[n].origin = n
  BY <1>2 DEF ClocksRead, Version
<1>4. CASE now + Lead[n] > clock[n].physical
  BY <1>1, <1>4 DEF Drawn
<1>5. CASE ~(now + Lead[n] > clock[n].physical)
  <2>1. Drawn(n).physical = clock[n].physical /\ Drawn(n).origin = clock[n].origin
    BY <1>2, <1>5 DEF Drawn, Version
  <2> QED
    BY <1>1, <1>2, <1>3, <1>5, <2>1
<1> QED
  BY <1>4, <1>5

\* No clock gets ahead by standing still.
LEMMA UnchangedClocksRead ==
    ASSUME IInv, ClocksRead, clock' = clock, now' = now
    PROVE  ClocksRead'
  BY DEF ClocksRead

\* Whoever draws from his clock reads the time off it.
LEMMA OneClockReads ==
    ASSUME IInv, ClocksRead, NEW n \in Nodes, NEW v,
           v.physical = now + Lead[n], v.origin = n,
           clock' = [clock EXCEPT ![n] = v], now' = now
    PROVE  ClocksRead'
<1>1. \A m \in Nodes : clock'[m] = IF m = n THEN v ELSE clock[m]
  BY DEF IInv, TypeOK
<1>2. now \in Nat /\ \A m \in Nodes : Lead[m] \in Nat
  BY LeadsAreNumbers DEF IInv, TypeOK
<1> QED
  BY <1>1, <1>2 DEF ClocksRead

\* What stands for dated records is dated.
LEMMA StandingIsDated ==
    ASSUME NEW r \in Member, NEW s \in Member, NEW p \in Member, NEW q \in Member,
           StandsFor(r, p), StandsFor(s, q), Dated(p, q)
    PROVE  Dated(r, s)
<1> SUFFICES ASSUME r.boot = s.boot, r.inc = s.inc, r.status = "ALIVE"
             PROVE  /\ r.version.physical <= s.seen + Lead[Subject]
                    /\ s.status # "ALIVE" /\ Close(s.version.origin) =>
                          r.version.physical < s.version.physical
  BY DEF Dated
<1>1. p.boot = q.boot /\ p.inc = q.inc /\ p.status = "ALIVE" /\ r.version = p.version
  BY DEF StandsFor
<1>2. /\ p.version.physical <= q.seen + Lead[Subject]
      /\ q.status # "ALIVE" /\ Close(q.version.origin) =>
            p.version.physical < q.version.physical
  BY <1>1 DEF Dated
<1>3. /\ r.version \in Version /\ s.version \in Version /\ q.seen \in Nat /\ s.seen \in Nat
      /\ Lead[Subject] \in Nat
  BY LeadsAreNumbers DEF Member
<1>4. r.version.physical \in Nat /\ s.version.physical \in Nat
  BY <1>3 DEF Version
<1>5. q.seen <= s.seen
  BY DEF StandsFor
<1>6. r.version.physical <= s.seen + Lead[Subject]
  BY <1>1, <1>2, <1>3, <1>4, <1>5
<1>7. ASSUME s.status # "ALIVE", Close(s.version.origin)
      PROVE  r.version.physical < s.version.physical
  <2>1. CASE q.status # "ALIVE" /\ s.version = q.version
    BY <1>1, <1>2, <1>7, <2>1
  <2>2. CASE q.seen + Lead[Subject] < s.version.physical
    BY <1>1, <1>2, <1>3, <1>4, <2>2
  <2> QED
    BY <1>7, <2>1, <2>2 DEF StandsFor
<1> QED
  BY <1>6, <1>7

\* A record stands for itself.
LEMMA Stays ==
    ASSUME NEW r \in Member
    PROVE  StandsFor(r, r)
<1>1. r.seen \in Nat
  BY DEF Member
<1> QED
  BY <1>1 DEF StandsFor

\* A step that adds at most a record that stands for a known one.
LEMMA StandingKeeps ==
    ASSUME IInv, Ages, NEW e \in Member, NEW q \in Known, StandsFor(e, q), e.seen <= now',
           Known' \subseteq Known \union {e}, now' \in Nat, now <= now', ClocksRead',
           boot' = boot
    PROVE  Ages'
<1>1. Known \subseteq Member /\ now \in Nat
  BY KnownAreMembers DEF IInv, TypeOK
<1>2. ASSUME NEW r \in Known' PROVE r \in Member /\ \E p \in Known : StandsFor(r, p)
  BY <1>1, Stays
<1>3. \A r \in Known' : r.seen <= now'
  <2>1. ASSUME NEW r \in Known PROVE r.seen <= now'
    <3>1. r.seen <= now /\ r.seen \in Nat
      BY <1>1 DEF Ages, Member
    <3> QED
      BY <1>1, <3>1
  <2> QED
    BY <2>1
<1>4. ASSUME NEW r \in Known', NEW s \in Known', r.boot = boot PROVE Dated(r, s)
  <2>1. PICK p \in Known : StandsFor(r, p)
    BY <1>2
  <2>2. PICK o \in Known : StandsFor(s, o)
    BY <1>2
  <2>3. Dated(p, o)
    BY <1>4, <2>1 DEF Ages, StandsFor
  <2>4. r \in Member /\ s \in Member /\ p \in Member /\ o \in Member
    BY <1>1, <1>2
  <2> QED
    BY <2>1, <2>2, <2>3, <2>4, StandingIsDated
<1>5. \A r, s \in Known' : r.boot = boot' => Dated(r, s)
  BY <1>4
<1> QED
  BY <1>3, <1>5 DEF Ages, Dated, Close

\* A step after which no more is known keeps the dates.
LEMMA NoNewRecordKeeps ==
    ASSUME IInv, Ages, Known' \subseteq Known, now' \in Nat, now <= now', ClocksRead',
           boot' = boot
    PROVE  Ages'
<1>1. Known \subseteq Member /\ now \in Nat
  BY KnownAreMembers DEF IInv, TypeOK
<1>2. ASSUME NEW r \in Known' PROVE r.seen <= now'
  <2>1. r.seen <= now /\ r.seen \in Nat
    BY <1>1 DEF Ages, Member
  <2> QED
    BY <1>1, <2>1
<1>3. \A r, s \in Known' : r.boot = boot' => Dated(r, s)
  BY DEF Ages
<1> QED
  BY <1>2, <1>3 DEF Ages, Dated, Close

\* A process that speaks for an incarnation nobody has heard of.
LEMMA NewWordKeeps ==
    ASSUME IInv, Ages, NEW e \in Member, e.status = "ALIVE", e.seen = now,
           e.version.physical = now + Lead[Subject],
           \A q \in Known : q.boot = boot' => boot' = boot,
           e.boot = boot' => \A q \in Known : ~(q.boot = e.boot /\ q.inc = e.inc),
           Known' \subseteq Known \union {e}, now' = now, ClocksRead'
    PROVE  Ages'
<1>1. now \in Nat /\ Lead[Subject] \in Nat
  BY LeadsAreNumbers DEF IInv, TypeOK
<1>2. \A r \in Known' : r.seen <= now'
  BY <1>1 DEF Ages
<1>3. Dated(e, e)
  BY <1>1 DEF Dated
<1>4. ASSUME NEW r \in Known', NEW s \in Known', r.boot = boot' PROVE Dated(r, s)
  <2>1. CASE r \in Known /\ s \in Known
    BY <1>4, <2>1 DEF Ages
  <2>2. CASE r = e /\ s = e
    BY <1>3, <2>2
  <2>3. CASE r \in Known /\ s = e
    BY <1>4, <2>3 DEF Dated
  <2>4. CASE r = e /\ s \in Known
    BY <1>4, <2>4 DEF Dated
  <2> QED
    BY <2>1, <2>2, <2>3, <2>4
<1>5. \A r, s \in Known' : r.boot = boot' => Dated(r, s)
  BY <1>4
<1> QED
  BY <1>2, <1>5 DEF Ages, Dated, Close

\* Time that goes on makes no record later.
LEMMA ElapseAges ==
    ASSUME IInv, Ages, Elapse
    PROVE  Ages'
<1>1. /\ UNCHANGED <<boot, up, clock, table, handling, net>>
      /\ now \in Nat /\ now' = now + 1
  BY DEF Elapse, IInv, TypeOK
<1>2. Known' = Known
  BY <1>1 DEF Known
<1>3. ASSUME NEW n \in Nodes
      PROVE  clock'[n].physical <= now' + Lead[n] /\ clock'[n].origin = n
  <2>1. /\ clock[n].physical <= now + Lead[n] /\ clock[n].physical \in Nat /\ Lead[n] \in Nat
        /\ clock[n].origin = n
    BY LeadsAreNumbers DEF Ages, ClocksRead, IInv, TypeOK, Version
  <2> QED
    BY <1>1, <2>1
<1> QED
  BY <1>1, <1>2, <1>3, NoNewRecordKeeps DEF ClocksRead

\* A process that stops forgets.
LEMMA StopAges ==
    ASSUME IInv, Ages, Stop
    PROVE  Ages'
<1>1. /\ table' = [table EXCEPT ![Subject] = None] /\ net' = net
      /\ now' = now /\ clock' = clock /\ boot' = boot /\ now \in Nat
  BY DEF Stop, IInv, TypeOK
<1>2. Known' \subseteq Known \union {None}
  BY <1>1, LeadsAreNumbers, KnownAfter DEF IInv
<1>3. Known' \subseteq Known
  BY <1>2 DEF Known
<1> QED
  BY <1>1, <1>3, UnchangedClocksRead, NoNewRecordKeeps DEF Ages

\* What is lost is not known any more.
LEMMA LoseAges ==
    ASSUME IInv, Ages, NEW d \in net, Lose(d)
    PROVE  Ages'
<1>1. /\ table' = table /\ net' \subseteq net /\ now' = now /\ clock' = clock
      /\ boot' = boot /\ now \in Nat
  BY DEF Lose, IInv, TypeOK
<1>2. Known' \subseteq Known
  BY <1>1 DEF Known
<1> QED
  BY <1>1, <1>2, UnchangedClocksRead, NoNewRecordKeeps DEF Ages

\* A new process starts an incarnation of its own.
LEMMA StartAges ==
    ASSUME IInv, Ages, Start
    PROVE  Ages'
<1> DEFINE first == [physical |-> now + Lead[Subject], logical |-> 0, origin |-> Subject]
<1> DEFINE self == Self(boot + 1, first)
<1>1. /\ clock' = [clock EXCEPT ![Subject] = first]
      /\ table' = [table EXCEPT ![Subject] = self]
      /\ now' = now /\ net' = net /\ boot' = boot + 1
  BY DEF Start
<1>2. Subject \in Nodes /\ first \in Version /\ boot \in Nat \ {0} /\ now \in Nat
  BY MembershipAssumption DEF Version, IInv, TypeOK
<1>3. self \in Member /\ self.status = "ALIVE" /\ self.boot = boot + 1 /\ self.seen = now
  BY <1>2 DEF Self, Member
<1>4. /\ self.version.physical = now + Lead[Subject]
      /\ first.physical = now + Lead[Subject] /\ first.origin = Subject
  BY DEF Self
<1> HIDE DEF first, self
<1>5. \A q \in Known : q.boot # boot + 1
  <2>1. ASSUME NEW q \in Known PROVE q.boot # boot + 1
    <3>1. q.boot \in Nat /\ q.boot <= boot
      BY KnownAreMembers DEF IInv, Boots, Member
    <3> QED
      BY <1>2, <3>1
  <2> QED
    BY <2>1
<1>6. Known' \subseteq Known \union {self}
  BY <1>1, <1>2, KnownAfter DEF IInv
<1>7. ClocksRead'
  BY <1>1, <1>2, <1>4, OneClockReads DEF Ages
<1> QED
  BY <1>1, <1>3, <1>4, <1>5, <1>6, <1>7, NewWordKeeps

\* A failure detector that gives up on a record says so with a later version.
LEMMA DetectAges ==
    ASSUME IInv, Ages, NEW n \in Nodes, Detect(n)
    PROVE  Ages'
<1> DEFINE e == [table[n] EXCEPT !.status = Overdue(table[n]), !.version = Drawn(n)]
<1>1. /\ n # Subject /\ table[n] # None /\ Overdue(table[n]) # table[n].status
      /\ clock' = [clock EXCEPT ![n] = Drawn(n)]
      /\ now' = now /\ net' = net /\ boot' = boot
  BY DEF Detect
<1>2. table' = [table EXCEPT ![n] = e]
  BY DEF Detect, IInv, TypeOK
<1>3. table[n] \in Member /\ table[n] \in Known /\ now \in Nat
  BY <1>1, NoMemberAssumption DEF IInv, TypeOK, Known
<1>4. /\ Drawn(n) \in Version
      /\ Drawn(n).physical = now + Lead[n] /\ Drawn(n).origin = n
  BY DrawnNow DEF Ages
<1>5. Overdue(table[n]) \in {"SUSPECT", "DEAD"} /\ now - table[n].seen >= Suspicion
  <2>1. Dead > Suspicion /\ Dead \in Nat /\ Suspicion \in Nat /\ table[n].seen \in Nat
    BY <1>3, MembershipAssumption DEF Member
  <2> QED
    BY <1>1, <1>3, <2>1 DEF Overdue
<1>6. e \in Member
  BY <1>3, <1>4, <1>5 DEF Member
<1>7. /\ e.boot = table[n].boot /\ e.inc = table[n].inc /\ e.seen = table[n].seen
      /\ e.status # "ALIVE" /\ e.version = Drawn(n)
  BY <1>3, <1>5 DEF Member
<1> HIDE DEF e
<1>8. ASSUME Close(e.version.origin)
      PROVE  table[n].seen + Lead[Subject] < e.version.physical
  <2>1. Lead[Subject] < Lead[n] + Suspicion
    BY <1>4, <1>7, <1>8 DEF Close
  <2>2. table[n].seen \in Nat /\ Lead[n] \in Nat /\ Lead[Subject] \in Nat /\ Suspicion \in Nat
    BY <1>3, LeadsAreNumbers DEF Member
  <2> QED
    BY <1>3, <1>4, <1>5, <1>7, <2>1, <2>2
<1>9. StandsFor(e, table[n]) /\ e.seen <= now'
  <2>1. table[n].seen \in Nat /\ table[n].seen <= now
    BY <1>3 DEF Member, Ages
  <2> QED
    BY <1>1, <1>7, <1>8, <2>1 DEF StandsFor
<1>10. Known' \subseteq Known \union {e}
  BY <1>1, <1>2, KnownAfter DEF IInv
<1>11. ClocksRead'
  BY <1>1, <1>4, OneClockReads DEF Ages
<1> QED
  BY <1>1, <1>3, <1>6, <1>9, <1>10, <1>11, StandingKeeps

\* A round repeats what its node knows.
LEMMA RoundAges ==
    ASSUME IInv, Ages, NEW n \in Nodes, NEW m \in Nodes, Round(n, m)
    PROVE  Ages'
<1>1. /\ Runs(n) /\ n # m /\ table' = table /\ clock' = clock /\ now' = now /\ now \in Nat
      /\ boot' = boot
      /\ Send(net, {Ping(n, m)} \union About(n, m, table[n]))
  BY DEF Round, Targets, IInv, TypeOK
<1>2. ASSUME NEW d \in net' PROVE d \in net \/ d.member \in {table[n], None}
  BY <1>1, SendSends, RoundWellFormed DEF IInv
<1>3. Known' \subseteq Known
  BY <1>1, <1>2 DEF Known
<1> QED
  BY <1>1, <1>3, UnchangedClocksRead, NoNewRecordKeeps DEF Ages

\* An observer adopts what it is told, or keeps what it knows.
LEMMA MembersToObserverAges ==
    ASSUME IInv, Ages, NEW d \in net, Runs(d.to), d.to # Subject, ReceiveMembers(d),
           now' = now, boot' = boot
    PROVE  Ages'
<1> DEFINE n == d.to
<1> DEFINE e == Merged(n, d.member)
<1>1. n \in Nodes /\ d.kind = "members" /\ d.member \in Member /\ now \in Nat
  BY DEF ReceiveMembers, IInv, TypeOK
<1>2. clock' = clock /\ table' = [table EXCEPT ![n] = e] /\ net' \subseteq net
  BY DEF ReceiveMembers, ClockAfterMerge, Accuses
<1>3. e \in Member /\ (e = d.member \/ e = table[n])
  BY <1>1, MergedIsAMember DEF IInv, Merged, Accuses
<1>4. e \in Known
  BY <1>1, <1>3, NoMemberAssumption DEF Known
<1> HIDE DEF e
<1>5. Known' \subseteq Known \union {e}
  BY <1>1, <1>2, KnownAfter DEF IInv
<1>6. Known' \subseteq Known
  BY <1>4, <1>5
<1> QED
  BY <1>1, <1>2, <1>6, UnchangedClocksRead, NoNewRecordKeeps DEF Ages

\* A refutation is the first record of its incarnation.
LEMMA MembersToSubjectAges ==
    ASSUME IInv, Ages, NEW d \in net, up, d.to = Subject,
           ReceiveMembers(d), now' = now, boot' = boot
    PROVE  Ages'
<1> DEFINE r == d.member
<1> DEFINE e == Merged(Subject, r)
<1>1. /\ Subject \in Nodes /\ d.kind = "members" /\ r \in Member /\ Runs(Subject)
      /\ now \in Nat
  BY MembershipAssumption DEF ReceiveMembers, IInv, TypeOK, Runs
<1>2. /\ clock' = ClockAfterMerge(Subject, r) /\ table' = [table EXCEPT ![Subject] = e]
      /\ net' \subseteq net
  BY DEF ReceiveMembers
<1>3. /\ Own \in Member /\ Own \in Known /\ Own.status = "ALIVE" /\ table[Subject] = Own
      /\ Known \subseteq Member
  BY <1>1, OwnIsKnown, KnownAreMembers DEF IInv, TypeOK, Own
<1>4. e \in Member
  BY <1>1, MergedIsAMember DEF IInv
<1>5. r \in Known
  BY <1>1, NoMemberAssumption DEF Known
<1>6. /\ Drawn(Subject) \in Version
      /\ Drawn(Subject).physical = now + Lead[Subject] /\ Drawn(Subject).origin = Subject
  BY <1>1, DrawnNow DEF Ages
<1>7. ClocksRead'
  <2>1. CASE clock' = clock
    BY <2>1, UnchangedClocksRead DEF Ages
  <2>2. CASE clock' = [clock EXCEPT ![Subject] = Drawn(Subject)]
    BY <1>1, <1>6, <2>2, OneClockReads DEF Ages
  <2> QED
    BY <1>2, <2>1, <2>2 DEF ClockAfterMerge
<1>8. Known' \subseteq Known \union {e}
  BY <1>1, <1>2, KnownAfter DEF IInv
<1>9. CASE r.status # "ALIVE" /\ r.inc >= Own.inc
  <2>1. e = [Own EXCEPT !.inc = r.inc + 1, !.status = "ALIVE",
                        !.version = Drawn(Subject), !.seen = now]
    BY <1>1, <1>3, <1>9 DEF Merged, Accuses, Refuted, Member
  <2>2. /\ e.inc = r.inc + 1 /\ e.status = "ALIVE" /\ e.boot = Own.boot
        /\ e.version = Drawn(Subject) /\ e.seen = now
    BY <1>3, <2>1 DEF Member
  <2> HIDE DEF e, r
  <2>3. ASSUME e.boot = boot, NEW q \in Known, q.boot = e.boot, q.inc = e.inc PROVE FALSE
    <3>1. q.inc <= Own.inc
      BY <2>2, <2>3 DEF IInv, OwnEntryLeads, Own
    <3>2. Own.inc \in Nat /\ r.inc \in Nat
      BY <1>1, <1>3 DEF Member
    <3> QED
      BY <1>9, <2>2, <2>3, <3>1, <3>2
  <2> QED
    BY <1>4, <1>6, <1>7, <1>8, <2>2, <2>3, NewWordKeeps
<1>10. CASE ~(r.status # "ALIVE" /\ r.inc >= Own.inc)
  <2>1. e = Own \/ e = r
    BY <1>1, <1>3, <1>10 DEF Merged, Accuses, Refuted, Member
  <2> HIDE DEF e, r
  <2>2. Known' \subseteq Known
    BY <1>3, <1>5, <1>8, <2>1
  <2> QED
    BY <1>1, <1>7, <2>2, NoNewRecordKeeps
<1> QED
  BY <1>9, <1>10

\* What the subject says of itself stands for what it sent, seen just now.
LEMMA SelfAges ==
    ASSUME IInv, Ages, NEW d \in net, Runs(d.to), ReceiveSelf(d), now' = now, boot' = boot
    PROVE  Ages'
<1> DEFINE n == d.to
<1> DEFINE r == [d.member EXCEPT !.status = "ALIVE", !.seen = now]
<1> DEFINE e == Merged(n, r)
<1>1. /\ n \in Nodes /\ n # Subject /\ d.member \in Member /\ now \in Nat
      /\ d.member.status = "ALIVE"
  BY DEF ReceiveSelf, IInv, TypeOK, Traffic
<1>2. clock' = clock /\ table' = [table EXCEPT ![n] = e] /\ net' \subseteq net
  BY DEF ReceiveSelf
<1>3. d.member \in Known /\ (table[n] # None => table[n] \in Known)
  BY <1>1, NoMemberAssumption DEF Known
<1>4. d.member.seen <= now /\ \A q \in Known : q.seen <= now
  BY <1>3 DEF Ages
<1>5. r \in Member /\ StandsFor(r, d.member) /\ r.seen <= now
  <2>1. /\ r \in Member /\ r.seen = now /\ r.status = "ALIVE"
        /\ r.boot = d.member.boot /\ r.inc = d.member.inc /\ r.version = d.member.version
    BY <1>1 DEF Member
  <2> HIDE DEF r
  <2> QED
    BY <1>1, <1>4, <2>1 DEF StandsFor
<1> HIDE DEF r
<1>6. e \in Member
  BY <1>1, <1>5, MergedIsAMember DEF IInv
<1>7. e = r \/ e = table[n]
  BY <1>1 DEF Merged, Accuses
<1>8. e.seen <= now /\ \E q \in Known : StandsFor(e, q)
  <2>1. CASE e = r
    BY <1>3, <1>5, <2>1
  <2>2. CASE e = table[n]
    <3>1. e \in Known
      BY <1>3, <1>6, <2>2, NoMemberAssumption
    <3> QED
      BY <1>4, <1>6, <3>1, Stays
  <2> QED
    BY <1>7, <2>1, <2>2
<1> HIDE DEF e
<1>9. Known' \subseteq Known \union {e}
  BY <1>1, <1>2, KnownAfter DEF IInv
<1>10. ClocksRead'
  BY <1>2, UnchangedClocksRead DEF Ages
<1> QED
  BY <1>1, <1>6, <1>8, <1>9, <1>10, StandingKeeps

\* An answer repeats what its node knows.
LEMMA PingAges ==
    ASSUME IInv, Ages, NEW d \in net, Runs(d.to), ReceivePing(d), now' = now, boot' = boot
    PROVE  Ages'
<1> DEFINE n == d.to
<1> DEFINE m == d.from
<1>1. /\ n \in Nodes /\ m \in Nodes /\ n # m /\ now \in Nat
      /\ table' = table /\ clock' = clock /\ Send(net \ {d}, Reply(n, m, table[n]))
  BY DEF ReceivePing, IInv, TypeOK, Traffic
<1>2. ASSUME NEW c \in net' PROVE c \in net \/ c.member = table[n]
  <2>1. c \in net \/ c \in Reply(n, m, table[n])
    BY <1>1, SendSends
  <2>2. /\ table[n] \in Member \union {None}
        /\ n = Subject => table[n] # None /\ table[n].status = "ALIVE"
    BY <1>1, OwnIsAlive DEF IInv
  <2> QED
    BY <1>1, <2>1, <2>2, ReplyWellFormed
<1>3. Known' \subseteq Known
  BY <1>1, <1>2 DEF Known
<1> QED
  BY <1>1, <1>3, UnchangedClocksRead, NoNewRecordKeeps DEF Ages

\* A new last-seen time is later than the old one.
LEMMA ObservedAges ==
    ASSUME IInv, Ages, Heard, NEW n \in Nodes, Observed(n)
    PROVE  Ages'
<1> DEFINE e == IF handling[n].refresh THEN Refreshed(table[n], handling[n].at) ELSE table[n]
<1> DEFINE sent == IF handling[n].answer THEN Reply(n, Subject, e) ELSE {}
<1>1. /\ handling[n] # None /\ table' = [table EXCEPT ![n] = e] /\ Send(net, sent)
      /\ now' = now /\ clock' = clock /\ boot' = boot
  BY DEF Observed
<1>2. /\ n # Subject /\ Subject \in Nodes /\ table[n] \in Member /\ now \in Nat
      /\ handling[n].at \in Nat
  BY <1>1, MembershipAssumption DEF IInv, Listening, TypeOK
<1>3. table[n] \in Known
  BY <1>1, <1>2, NoMemberAssumption DEF Known
<1>4. /\ table[n].seen \in Nat /\ table[n].seen <= now
      /\ table[n].seen <= handling[n].at /\ handling[n].at <= now
  BY <1>1, <1>2, <1>3 DEF Ages, Heard, Member
<1>5. e \in Member /\ StandsFor(e, table[n]) /\ e.seen <= now
  BY <1>2, <1>4 DEF Refreshed, Member, StandsFor
<1> HIDE DEF e
<1>6. ASSUME NEW d \in net' PROVE d \in net \/ d.member = e
  <2>1. d \in net \/ d \in Reply(n, Subject, e)
    BY <1>1, SendSends
  <2> QED
    BY <1>2, <1>5, <2>1, ReplyWellFormed
<1>7. Known' \subseteq Known \union {e}
  BY <1>1, <1>6, KnownAfter DEF IInv
<1>8. ClocksRead'
  BY <1>1, UnchangedClocksRead DEF Ages
<1> QED
  BY <1>1, <1>2, <1>3, <1>5, <1>7, <1>8, StandingKeeps

\* Every step keeps the dates.
LEMMA StepAges ==
    ASSUME IInv, Ages, Heard, [Next]_vars
    PROVE  Ages'
<1>1. CASE Elapse
  BY <1>1, ElapseAges
<1>2. CASE Stop
  BY <1>2, StopAges
<1>3. CASE Start
  BY <1>3, StartAges
<1>9. CASE \E d \in net : Lose(d)
  BY <1>9, LoseAges
<1>4. CASE \E n \in Nodes : Detect(n)
  BY <1>4, DetectAges
<1>5. CASE \E n \in Nodes : Observed(n)
  BY <1>5, ObservedAges
<1>6. CASE \E n, m \in Nodes : Round(n, m)
  BY <1>6, RoundAges
<1>7. CASE \E kind \in MessageKinds, n, m \in Nodes : Receive(kind, n, m)
  <2>1. PICK d \in net : /\ Runs(d.to) /\ now' = now /\ boot' = boot
                         /\ ReceiveMembers(d) \/ ReceiveSelf(d) \/ ReceivePing(d)
    BY <1>7 DEF Receive
  <2>2. CASE ReceiveMembers(d)
    <3>1. CASE d.to = Subject
      BY <2>1, <2>2, <3>1, MembersToSubjectAges DEF Runs
    <3>2. CASE d.to # Subject
      BY <2>1, <2>2, <3>2, MembersToObserverAges
    <3> QED
      BY <3>1, <3>2
  <2>3. CASE ReceiveSelf(d)
    BY <2>1, <2>3, SelfAges
  <2>4. CASE ReceivePing(d)
    BY <2>1, <2>4, PingAges
  <2> QED
    BY <2>1, <2>2, <2>3, <2>4
<1>8. CASE UNCHANGED vars
  <2>1. /\ table' = table /\ net' = net /\ clock' = clock /\ now' = now /\ now \in Nat
        /\ boot' = boot
    BY <1>8 DEF vars, IInv, TypeOK
  <2>2. Known' = Known
    BY <2>1 DEF Known
  <2> QED
    BY <2>1, <2>2, UnchangedClocksRead, NoNewRecordKeeps DEF Ages
<1> QED
  BY <1>1, <1>2, <1>3, <1>4, <1>5, <1>6, <1>7, <1>8, <1>9 DEF Next

\* The first record is dated by the clock it was drawn from.
LEMMA InitAges == Init => Ages
<1> SUFFICES ASSUME Init PROVE Ages
  OBVIOUS
<1> DEFINE first == [physical |-> 1 + Lead[Subject], logical |-> 0, origin |-> Subject]
<1>1. /\ table = [n \in Nodes |-> IF n = Subject THEN Self(1, first) ELSE None]
      /\ clock = [n \in Nodes |-> IF n = Subject THEN first ELSE Fresh(n)]
      /\ net = {} /\ now = 1
  BY DEF Init
<1>2. Subject \in Nodes /\ \A n \in Nodes : Lead[n] \in Nat
  BY LeadsAreNumbers
<1>3. ClocksRead
  BY <1>1, <1>2 DEF ClocksRead, Fresh
<1>4. Known \subseteq {Self(1, first)}
  BY <1>1 DEF Known
<1>5. Self(1, first).seen = now /\ Dated(Self(1, first), Self(1, first))
  BY <1>1, <1>2 DEF Self, Dated
<1> HIDE DEF first
<1> QED
  BY <1>1, <1>3, <1>4, <1>5 DEF Ages

\* How an observer comes to hold a member alive: it has heard a later record.
LEMMA HowCleared ==
    ASSUME IInv, [Next]_vars,
           NEW n \in Observers, table[n] # None, table[n].status # "ALIVE",
           table'[n].status = "ALIVE"
    PROVE  /\ table'[n] \in Member /\ MemberLess(table[n], table'[n])
           /\ \E q \in Known : Repeats(table'[n], q)
<1>1. n \in Nodes /\ n # Subject /\ table[n] \in Member
  BY DEF Observers, IInv, TypeOK
<1>2. CASE table' = table
  BY <1>2
<1>3. CASE Stop
  BY <1>1, <1>3 DEF Stop, IInv, TypeOK
<1>4. CASE Start
  BY <1>1, <1>4 DEF Start, IInv, TypeOK
<1>5. CASE \E m \in Nodes : Detect(m)
  <2>1. PICK m \in Nodes : Detect(m)
    BY <1>5
  <2>2. table' = [table EXCEPT ![m].status = Overdue(table[m]), ![m].version = Drawn(m)]
        /\ Overdue(table[m]) # table[m].status
    BY <2>1 DEF Detect
  <2>3. table' = [table EXCEPT ![m] = [table[m] EXCEPT !.status = Overdue(table[m]),
                                                      !.version = Drawn(m)]]
    BY <2>2 DEF IInv, TypeOK
  <2>4. m = n
    BY <1>1, <2>1, <2>3 DEF IInv, TypeOK
  <2>5. table'[n].status = Overdue(table[n])
    BY <1>1, <2>3, <2>4 DEF IInv, TypeOK, Member
  <2> QED
    BY <2>2, <2>4, <2>5 DEF Overdue
<1>6. CASE \E m \in Nodes : Observed(m)
  <2>1. PICK m \in Nodes : Observed(m)
    BY <1>6
  <2>2. table' = [table EXCEPT ![m] = IF handling[m].refresh THEN Refreshed(table[m], handling[m].at)
                                         ELSE table[m]]
    BY <2>1 DEF Observed
  <2>3. m = n
    BY <1>1, <2>2 DEF IInv, TypeOK
  <2>4. table'[n] = Refreshed(table[n], handling[n].at) \/ table'[n] = table[n]
    BY <1>1, <2>2, <2>3 DEF IInv, TypeOK
  <2> QED
    BY <1>1, <2>4 DEF Refreshed, Member
<1>7. CASE \E kind \in MessageKinds, a, b \in Nodes : Receive(kind, a, b)
  <2>1. PICK d \in net : ReceiveMembers(d) \/ ReceiveSelf(d) \/ ReceivePing(d)
    BY <1>7 DEF Receive
  <2>2. d.to \in Nodes /\ d.member \in Member \union {None}
    BY DEF IInv, TypeOK
  <2>3. CASE ReceiveMembers(d)
    <3>1. d.member \in Member /\ table' = [table EXCEPT ![d.to] = Merged(d.to, d.member)]
      BY <2>2, <2>3 DEF ReceiveMembers, IInv, TypeOK
    <3>2. d.to = n
      BY <1>1, <2>2, <3>1 DEF IInv, TypeOK
    <3>3. table'[n] = Merged(n, d.member)
      BY <1>1, <3>1, <3>2 DEF IInv, TypeOK
    <3>4. table'[n] = d.member /\ MemberLess(table[n], d.member)
      BY <1>1, <3>3 DEF Merged, Accuses
    <3>5. d.member \in Known /\ Repeats(d.member, d.member)
      BY <3>1, NoMemberAssumption DEF Known, Repeats
    <3> QED
      BY <3>1, <3>4, <3>5
  <2>4. CASE ReceiveSelf(d)
    <3> DEFINE r == [d.member EXCEPT !.status = "ALIVE", !.seen = now]
    <3>1. /\ d.member \in Member /\ d.member.status = "ALIVE" /\ now \in Nat
          /\ table' = [table EXCEPT ![d.to] = Merged(d.to, r)]
      BY <2>4 DEF ReceiveSelf, IInv, TypeOK, Traffic
    <3>2. r \in Member /\ Repeats(r, d.member)
      BY <3>1 DEF Member, Repeats
    <3> HIDE DEF r
    <3>3. d.to = n
      BY <1>1, <2>2, <3>1 DEF IInv, TypeOK
    <3>4. table'[n] = Merged(n, r)
      BY <1>1, <3>1, <3>3 DEF IInv, TypeOK
    <3>5. table'[n] = r /\ MemberLess(table[n], r)
      BY <1>1, <3>4 DEF Merged, Accuses
    <3>6. d.member \in Known
      BY <3>1, NoMemberAssumption DEF Known
    <3> QED
      BY <3>2, <3>5, <3>6
  <2>5. CASE ReceivePing(d)
    BY <2>5 DEF ReceivePing
  <2> QED
    BY <2>1, <2>3, <2>4, <2>5
<1> QED
  BY <1>2, <1>3, <1>4, <1>5, <1>6, <1>7 DEF Next, Elapse, Lose, Round, vars

\* What an observer believes rather than its own suspicion is no record of the
\* incarnation it suspects.
LEMMA StepClearsNobody ==
    ASSUME IInv, Ages, [Next]_vars,
           NEW n \in Observers, table[n] # None, table[n].status # "ALIVE",
           table'[n].status = "ALIVE", table[n].boot = boot, Close(table[n].version.origin)
    PROVE  table'[n].inc > table[n].inc \/ table'[n].boot # table[n].boot
<1>1. PICK e \in Member : e = table'[n] /\ e.status = "ALIVE" /\ MemberLess(table[n], e)
                          /\ \E q \in Known : Repeats(e, q)
  BY HowCleared
<1>2. PICK q \in Known : Repeats(e, q)
  BY <1>1
<1>3. n \in Nodes /\ table[n] \in Member /\ table[n] \in Known
  BY NoMemberAssumption DEF Observers, IInv, TypeOK, Known
<1>4. /\ table[n].inc \in Nat /\ e.inc \in Nat
      /\ table[n].version \in Version /\ e.version \in Version
  BY <1>3 DEF Member
<1>5. ASSUME e.inc = table[n].inc, e.boot = table[n].boot PROVE FALSE
  <2>1. /\ q.boot = table[n].boot /\ q.inc = table[n].inc
        /\ q.status = "ALIVE" /\ q.version = e.version
    BY <1>1, <1>2, <1>5 DEF Repeats
  <2>2. Dated(q, table[n])
    BY <1>3, <2>1 DEF Ages
  <2>3. e.version.physical < table[n].version.physical
    BY <2>1, <2>2 DEF Dated
  <2>4. VersionLess(table[n].version, e.version) \/ table[n].version = e.version
    BY <1>1, <1>4, <1>5 DEF MemberLess
  <2> QED
    BY <1>4, <2>3, <2>4 DEF VersionLess, Version
<1>6. table[n].inc <= e.inc
  BY <1>1, <1>4 DEF MemberLess
<1> QED
  BY <1>1, <1>4, <1>5, <1>6

\* A listener in ObserveAlive handles what it heard just now, and only the
\* failure detector, which sees nothing, runs until it has done so.
LEMMA StepHears ==
    ASSUME IInv, Ages, Heard, [Next]_vars
    PROVE  Heard'
<1> SUFFICES ASSUME NEW n \in Nodes, handling'[n] # None
             PROVE  handling'[n].at <= now' /\ table'[n].seen <= handling'[n].at
  BY DEF Heard
<1> DEFINE Same == handling'[n] = handling[n] /\ table'[n].seen = table[n].seen
<1>1. now \in Nat /\ (handling[n] # None => handling[n].at \in Nat /\ table[n] \in Member)
  BY DEF IInv, TypeOK, Listening
<1>2. ASSUME Same, now' = now \/ now' = now + 1
      PROVE  handling'[n].at <= now' /\ table'[n].seen <= handling'[n].at
  BY <1>1, <1>2 DEF Heard
<1>3. CASE Elapse \/ (\E d \in net : Lose(d)) \/ UNCHANGED vars
  BY <1>2, <1>3 DEF Elapse, Lose, vars
<1>4. CASE Stop
  BY <1>2, <1>4 DEF Stop, IInv, TypeOK
<1>5. CASE Start
  <2>1. n # Subject
    BY <1>5 DEF Start, IInv, Listening
  <2> QED
    BY <1>2, <1>5, <2>1 DEF Start, IInv, TypeOK
<1>6. CASE \E m \in Nodes : Detect(m)
  <2>1. PICK m \in Nodes : Detect(m)
    BY <1>6
  <2>2. table' = [table EXCEPT ![m] = [table[m] EXCEPT !.status = Overdue(table[m]),
                                                      !.version = Drawn(m)]]
    BY <2>1 DEF Detect, IInv, TypeOK
  <2>3. handling' = handling /\ now' = now /\ table[m] \in Member
    BY <2>1 DEF Detect, IInv, TypeOK
  <2>4. table'[n].seen = table[n].seen
    BY <2>2, <2>3 DEF IInv, TypeOK, Member
  <2> QED
    BY <1>2, <2>3, <2>4
<1>7. CASE \E m \in Nodes : Observed(m)
  <2>1. PICK m \in Nodes : Observed(m)
    BY <1>7
  <2>2. n # m
    BY <2>1 DEF Observed, IInv, TypeOK
  <2> QED
    BY <1>2, <2>1, <2>2 DEF Observed, IInv, TypeOK
<1>8. CASE \E a, b \in Nodes : Round(a, b)
  BY <1>2, <1>8 DEF Round
<1>9. CASE \E kind \in MessageKinds, a, b \in Nodes : Receive(kind, a, b)
  <2>1. PICK d \in net : /\ handling[d.to] = None /\ now' = now
                         /\ ReceiveMembers(d) \/ ReceiveSelf(d) \/ ReceivePing(d)
    BY <1>9 DEF Receive
  <2>2. CASE ReceiveMembers(d)
    <3>1. d.to # n
      BY <2>1, <2>2 DEF ReceiveMembers
    <3> QED
      BY <1>2, <2>1, <2>2, <3>1 DEF ReceiveMembers, IInv, TypeOK
  <2>3. CASE ReceiveSelf(d)
    <3> DEFINE r == [d.member EXCEPT !.status = "ALIVE", !.seen = now]
    <3> DEFINE e == Merged(d.to, r)
    <3>1. /\ table' = [table EXCEPT ![d.to] = e]
          /\ handling' = [handling EXCEPT ![d.to] = [at |-> now, refresh |-> e.status = "ALIVE",
                                                     answer |-> d.kind = "ping"]]
          /\ d.member \in Member /\ d.to \in Nodes /\ d.to # Subject
      BY <2>3 DEF ReceiveSelf, IInv, TypeOK, Traffic
    <3>2. r.seen = now
      BY <3>1 DEF Member
    <3>3. e = r \/ (e = table[d.to] /\ e # None)
      BY <3>1 DEF Merged, Accuses
    <3> HIDE DEF r, e
    <3>4. e.seen <= now
      <4>1. CASE e = r
        BY <1>1, <3>2, <4>1
      <4>2. CASE e = table[d.to] /\ e # None
        <5>1. table[d.to] \in Known
          BY <3>1, <4>2 DEF Known
        <5> QED
          BY <4>2, <5>1 DEF Ages
      <4> QED
        BY <3>3, <4>1, <4>2
    <3>5. CASE d.to = n
      BY <1>1, <2>1, <3>1, <3>4, <3>5 DEF IInv, TypeOK
    <3>6. CASE d.to # n
      BY <1>2, <2>1, <3>1, <3>6 DEF IInv, TypeOK
    <3> QED
      BY <3>5, <3>6
  <2>4. CASE ReceivePing(d)
    BY <1>2, <2>1, <2>4 DEF ReceivePing
  <2> QED
    BY <2>1, <2>2, <2>3, <2>4
<1> QED
  BY <1>3, <1>4, <1>5, <1>6, <1>7, <1>8, <1>9 DEF Next

\* The dates hold throughout.
LEMMA DatedInvariant == Spec => [](IInv /\ Ages /\ Heard)
<1>1. Init => IInv /\ Ages /\ Heard
  BY InitKeeps, InitAges DEF Init, Heard
<1>2. IInv /\ Ages /\ Heard /\ [Next]_vars => (IInv /\ Ages /\ Heard)'
  BY StepKeeps, StepAges, StepHears
<1> QED
  BY <1>1, <1>2, PTL DEF Spec

\* Merge of cluster/table.go clears no suspicion on hearsay: an accusation of
\* the process started last, signed by a clock that is not behind the subject's
\* by the suspicion timeout, gives way only to a higher incarnation or another
\* process, whatever datagram comes late.
THEOREM OnlyTheSubjectClears == Spec => OnlySelfClears
<1> DEFINE Clears(n) ==
        /\ table[n] # None /\ table[n].status # "ALIVE" /\ table'[n].status = "ALIVE"
        /\ table[n].boot = boot /\ Close(table[n].version.origin)
        => table'[n].inc > table[n].inc \/ table'[n].boot # table[n].boot
<1>1. IInv /\ Ages /\ [Next]_vars => [\A n \in Observers : Clears(n)]_vars
  BY StepClearsNobody
<1> QED
  BY <1>1, DatedInvariant, PTL DEF Spec, OnlySelfClears
=============================================================================
