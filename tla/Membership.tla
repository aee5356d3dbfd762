----------------------------- MODULE Membership -----------------------------
(***************************************************************************)
(* What the members of a cluster know of one of them, Subject, and how     *)
(* they learn it (internal/cluster/table.go and the ping, ack and members  *)
(* messages of internal/gossip/engine.go).  A table treats every node ID   *)
(* by itself, so one subject shows all there is; the others observe it.    *)
(* Every node has two goroutines: the engine's loop, which runs the        *)
(* failure detector and then a gossip round, and the UDP listener, which   *)
(* handles one datagram after the other.                                   *)
(*                                                                         *)
(* Time is one wall clock; a node's HLC may run ahead of it by Lead[n]     *)
(* because of versions it observed in the registry's mutations.  A         *)
(* datagram may be lost when it is sent; those under way, at most          *)
(* MaxInFlight, are delayed for any time and arrive in any order.          *)
(***************************************************************************)
EXTENDS Leases, FiniteSets

CONSTANTS Nodes,        \* node IDs, numbers
          Subject,      \* the member the tables are about
          Seeds,        \* Seeds[n]: the nodes n is configured to contact
          Lead,         \* Lead[n]: how far the HLC of n is ahead
          Suspicion, Dead,
          LastFailure,  \* bound: when the subject may stop for the last time
          MaxNow, MaxLogical, MaxBoots, MaxInFlight

ASSUME MembershipAssumption ==
    /\ Nodes \subseteq Nat \ {0} /\ Subject \in Nodes
    /\ Seeds \in [Nodes -> SUBSET Nodes] /\ \A n \in Nodes : n \notin Seeds[n]
    /\ Lead \in [Nodes -> Nat]
    /\ Suspicion \in Nat \ {0} /\ Dead \in Nat /\ Dead > Suspicion
    /\ LastFailure \in Nat /\ MaxNow \in Nat \ {0} /\ MaxLogical \in Nat
    /\ MaxBoots \in Nat \ {0} /\ MaxInFlight \in Nat

Member ==
    [inc : Nat \ {0}, version : Version, status : {"ALIVE", "SUSPECT", "DEAD"},
     seen : Nat, boot : Nat \ {0}]

ASSUME NoMemberAssumption == None \notin Member

VARIABLES now,
          boot,     \* how often the subject has started
          up,       \* whether it runs
          clock,    \* clock[n]: last version n's HLC has drawn
          table,    \* table[n]: what n knows of the subject, or None
          handling, \* handling[n]: the ObserveAlive n's listener is in, or None
          net       \* datagrams under way

vars == <<now, boot, up, clock, table, handling, net>>

Observers == Nodes \ {Subject}
Runs(n) == n # Subject \/ up

Datagram(kind, from, to, member) ==
    [kind |-> kind, from |-> from, to |-> to, member |-> member]

-----------------------------------------------------------------------------
(* The order of member records (compareMember).                            *)

Rank(status) ==
    CASE status = "DEAD" -> 3 [] status = "SUSPECT" -> 2 [] status = "ALIVE" -> 1

MemberLess(a, b) ==
    \/ a.inc < b.inc
    \/ /\ a.inc = b.inc
       /\ \/ VersionLess(a.version, b.version)
          \/ a.version = b.version /\ Rank(a.status) < Rank(b.status)

\* hlc.Now() at n, with a bounded logical part.
Drawn(n) ==
    IF now + Lead[n] > clock[n].physical
    THEN [physical |-> now + Lead[n], logical |-> 0, origin |-> n]
    ELSE [clock[n] EXCEPT !.logical = IF @ < MaxLogical THEN @ + 1 ELSE @]

Fresh(n) == [physical |-> 0, logical |-> 0, origin |-> n]

\* main.go: a process starts at incarnation 1 with a new boot ID.
Self(b, version) ==
    [inc |-> 1, version |-> version, status |-> "ALIVE", seen |-> now, boot |-> b]

-----------------------------------------------------------------------------
Init ==
    /\ now = 1
    /\ boot = 1
    /\ up = TRUE
    /\ LET first == [physical |-> 1 + Lead[Subject], logical |-> 0, origin |-> Subject]
       IN  /\ clock = [n \in Nodes |-> IF n = Subject THEN first ELSE Fresh(n)]
           /\ table = [n \in Nodes |-> IF n = Subject THEN Self(1, first) ELSE None]
    /\ handling = [n \in Nodes |-> None]
    /\ net = {}

\* Once the subject has stopped for good its last words are heard, or lost,
\* before time goes on.
Elapse ==
    /\ now < MaxNow
    /\ \/ up \/ now < LastFailure
       \/ /\ \A d \in net : d.from # Subject
          /\ \A n \in Nodes : handling[n] = None
    /\ now' = now + 1
    /\ UNCHANGED <<boot, up, clock, table, handling, net>>

Stop ==
    /\ up
    /\ now <= LastFailure
    /\ up' = FALSE
    /\ table' = [table EXCEPT ![Subject] = None]
    /\ handling' = [handling EXCEPT ![Subject] = None]
    /\ UNCHANGED <<now, boot, clock, net>>

\* A datagram that arrives while its addressee is down is lost; one that is
\* delayed until the restart reaches the new process.
Lose(d) ==
    /\ ~Runs(d.to)
    /\ net' = net \ {d}
    /\ UNCHANGED <<now, boot, up, clock, table, handling>>

\* Nothing is persisted: the clock, the incarnation and the table are lost.
Start ==
    LET first == [physical |-> now + Lead[Subject], logical |-> 0, origin |-> Subject]
    IN  /\ ~up
        /\ boot < MaxBoots
        /\ boot' = boot + 1
        /\ up' = TRUE
        /\ clock' = [clock EXCEPT ![Subject] = first]
        /\ table' = [table EXCEPT ![Subject] = Self(boot + 1, first)]
        /\ UNCHANGED <<now, handling, net>>

-----------------------------------------------------------------------------
(* The membership table.                                                   *)

\* Faulty variant: a suspicion of an earlier incarnation is answered too.
RefutedAlways(own, r) ==
    [own EXCEPT !.inc = r.inc + 1, !.status = "ALIVE", !.version = Drawn(Subject), !.seen = now]

\* Faulty variant: the subject answers with the incarnation it is accused of.
RefutedAtSame(own, r) ==
    IF r.inc < own.inc THEN own
    ELSE [own EXCEPT !.inc = r.inc, !.status = "ALIVE", !.version = Drawn(Subject), !.seen = now]

\* refute: the subject answers an accusation that is not outdated.
Refuted(own, r) ==
    IF r.inc < own.inc THEN own
    ELSE [own EXCEPT !.inc = r.inc + 1, !.status = "ALIVE", !.version = Drawn(Subject), !.seen = now]

\* Faulty variant: the subject believes what is said of it.
AccusesNobody(n, r) == FALSE

Accuses(n, r) == n = Subject /\ r.status # "ALIVE"

\* Faulty variant: hearsay counts as a sign of life.
MergedAsSeen(n, r) ==
    IF Accuses(n, r) THEN Refuted(table[n], r)
    ELSE IF table[n] = None \/ MemberLess(table[n], r) THEN r
    ELSE IF r.status = "ALIVE" /\ table[n].status = "ALIVE" THEN [table[n] EXCEPT !.seen = now]
    ELSE table[n]

\* Merge: what n knows after it has merged r, with the last-seen time of r.
Merged(n, r) ==
    IF Accuses(n, r) THEN Refuted(table[n], r)
    ELSE IF table[n] = None \/ MemberLess(table[n], r) THEN r
    ELSE table[n]

\* A refutation draws a version from the clock.
ClockAfterMerge(n, r) ==
    IF Accuses(n, r) /\ r.inc >= table[n].inc THEN [clock EXCEPT ![n] = Drawn(n)] ELSE clock

\* Faulty variant: a suspect that says hello is alive again.
RefreshedToAlive(e, at) == [e EXCEPT !.seen = at, !.status = "ALIVE"]

\* The second critical section of ObserveAlive, with the time of the first.
Refreshed(e, at) == [e EXCEPT !.seen = at]

\* Tick of the table: the failure detector of n, with n's clock.
Overdue(e) ==
    CASE now - e.seen >= Dead /\ e.status # "DEAD" -> "DEAD"
      [] now - e.seen >= Suspicion /\ now - e.seen < Dead /\ e.status = "ALIVE" -> "SUSPECT"
      [] OTHER -> e.status

Detect(n) ==
    /\ n # Subject
    /\ table[n] # None
    /\ Overdue(table[n]) # table[n].status
    /\ table' = [table EXCEPT ![n].status = Overdue(table[n]), ![n].version = Drawn(n)]
    /\ clock' = [clock EXCEPT ![n] = Drawn(n)]
    /\ UNCHANGED <<now, boot, up, handling, net>>

-----------------------------------------------------------------------------
(* Messages.  Of the members each carries, only the subject's record is    *)
(* kept; a ping of an observer carries none and is there for its answer.   *)

About(n, m, e) ==
    IF e = None THEN {} ELSE {Datagram("members", n, m, e)}

Ping(n, m) == Datagram("ping", n, m, IF n = Subject THEN table[n] ELSE None)

\* targets: the peers believed alive and the seeds.
Targets(n) ==
    {m \in Nodes \ {n} : \/ m # Subject
                         \/ m \in Seeds[n]
                         \/ table[n] # None /\ table[n].status = "ALIVE"}

\* Some of the datagrams sent get under way; the others are lost.
Send(rest, sent) ==
    \E some \in SUBSET sent :
        /\ Cardinality(rest \union some) <= MaxInFlight
        /\ net' = rest \union some

\* gossipRound: a ping and a members message to one target.
Round(n, m) ==
    /\ Runs(n) /\ Runs(m)
    /\ m \in Targets(n)
    /\ Send(net, {Ping(n, m)} \union About(n, m, table[n]))
    /\ net' # net
    /\ UNCHANGED <<now, boot, up, clock, table, handling>>

\* handlePing ends with an ack and a members message; of the acks only the
\* subject's says something of the subject.
Reply(n, m, e) ==
    About(n, m, e) \union (IF n = Subject THEN {Datagram("ack", n, m, e)} ELSE {})

ReceiveMembers(d) ==
    /\ d.kind = "members"
    /\ clock' = ClockAfterMerge(d.to, d.member)
    /\ table' = [table EXCEPT ![d.to] = Merged(d.to, d.member)]
    /\ net' = net \ {d}
    /\ UNCHANGED handling

\* First critical section of ObserveAlive, for a ping or an ack of the subject.
ReceiveSelf(d) ==
    LET effective == Merged(d.to, [d.member EXCEPT !.status = "ALIVE", !.seen = now])
    IN  /\ d.from = Subject /\ d.kind \in {"ping", "ack"}
        /\ table' = [table EXCEPT ![d.to] = effective]
        /\ handling' = [handling EXCEPT ![d.to] =
                           [at |-> now, refresh |-> effective.status = "ALIVE",
                            answer |-> d.kind = "ping"]]
        /\ net' = net \ {d}
        /\ UNCHANGED clock

ReceivePing(d) ==
    /\ d.from # Subject /\ d.kind = "ping"
    /\ Send(net \ {d}, Reply(d.to, d.from, table[d.to]))
    /\ UNCHANGED <<clock, table, handling>>

Receive(kind, from, to) ==
    /\ Runs(to)
    /\ handling[to] = None
    /\ \E d \in net :
          /\ d.kind = kind /\ d.from = from /\ d.to = to
          /\ ReceiveMembers(d) \/ ReceiveSelf(d) \/ ReceivePing(d)
    /\ UNCHANGED <<now, boot, up>>

\* Second critical section of ObserveAlive, and the answer to a ping.  Between
\* the two only the failure detector runs.
Observed(n) ==
    /\ handling[n] # None
    /\ LET e == IF handling[n].refresh THEN Refreshed(table[n], handling[n].at) ELSE table[n]
       IN  /\ table' = [table EXCEPT ![n] = e]
           /\ Send(net, IF handling[n].answer THEN Reply(n, Subject, e) ELSE {})
    /\ handling' = [handling EXCEPT ![n] = None]
    /\ UNCHANGED <<now, boot, up, clock>>

-----------------------------------------------------------------------------
MessageKinds == {"ping", "ack", "members"}

Next ==
    \/ Elapse
    \/ Stop
    \/ Start
    \/ \E d \in net : Lose(d)
    \/ \E n \in Nodes : Detect(n) \/ Observed(n)
    \/ \E n, m \in Nodes : Round(n, m)
    \/ \E kind \in MessageKinds, n, m \in Nodes : Receive(kind, n, m)

Spec == Init /\ [][Next]_vars

\* The loops of every running node keep running, and the subject's last words
\* do not stay under way for ever.
LoopSpec ==
    /\ Spec
    /\ WF_vars(Elapse)
    /\ WF_vars(\E kind \in MessageKinds, n \in Nodes : Receive(kind, Subject, n))
    /\ \A n \in Nodes : WF_vars(Detect(n)) /\ WF_vars(Observed(n))

\* A datagram of some kind that n sends to m, in a round or as an answer.
Sent(kind, n, m) ==
    /\ Round(n, m) \/ Observed(n)
    /\ \E d \in net' \ net : d.kind = kind /\ d.from = n /\ d.to = m

\* The network loses some pings of the subject to its seeds and some of the
\* seeds' answers, but not all of them.
FairSpec ==
    /\ LoopSpec
    /\ \A n \in Seeds[Subject] :
          /\ SF_vars(Sent("ping", Subject, n)) /\ SF_vars(Receive("ping", Subject, n))
          /\ SF_vars(Sent("members", n, Subject)) /\ SF_vars(Receive("members", n, Subject))

-----------------------------------------------------------------------------
Known == ({table[n] : n \in Nodes} \union {d.member : d \in net}) \ {None}

\* Every record known or under way is well-formed, a running node believes
\* itself alive, whatever it hears and in whatever order, and a ping or ack
\* of the subject always carries its record.
TypeOK ==
    /\ now \in Nat /\ boot \in Nat \ {0} /\ up \in BOOLEAN
    /\ clock \in [Nodes -> Version]
    /\ table \in [Nodes -> Member \union {None}]
    /\ handling \in [Nodes -> [at : Nat, refresh : BOOLEAN, answer : BOOLEAN] \union {None}]
    /\ net \subseteq [kind : MessageKinds, from : Nodes, to : Nodes, member : Member \union {None}]
    /\ \A d \in net : d.kind = "members" \/ d.from = Subject => d.member # None
    /\ up <=> table[Subject] # None
    /\ up => table[Subject].status = "ALIVE"

\* No node, and no datagram however old, knows a higher incarnation of the
\* running process than the process itself, nor a later ALIVE record of it:
\* an accusation is at most of the current incarnation and can be refuted.
OwnEntryLeads ==
    up => \A r \in Known : r.boot = boot =>
             /\ r.inc <= table[Subject].inc
             /\ r.status = "ALIVE" => ~MemberLess(table[Subject], r)

\* The HLC of node n is not behind the subject's by the suspicion timeout.
Close(n) == Lead[Subject] < Lead[n] + Suspicion

\* Only the subject clears itself: a node that suspects the process started
\* last, or holds it dead, believes it alive again only by a higher incarnation
\* or another process, never by an old datagram or another node's outdated
\* belief.  That is so where the accuser's HLC (Tick signs its version,
\* table.go:137) keeps up with the subject's: the skew a node accepts is greater
\* than the default suspicion timeout, and a record of a clock so far ahead
\* outranks an accusation that is younger.
OnlySelfClears ==
    [][\A n \in Observers :
          /\ table[n] # None /\ table[n].status # "ALIVE" /\ table'[n].status = "ALIVE"
          /\ table[n].boot = boot /\ Close(table[n].version.origin)
          => table'[n].inc > table[n].inc \/ table'[n].boot # table[n].boot]_vars

\* README section 1, "self-healing": a subject that runs for good is in the
\* end alive in every node's table and stays so.
RunningIsAlive ==
    \A n \in Seeds[Subject] :
        (<>[]up) => <>[](table[n] # None /\ table[n].status = "ALIVE")

\* A subject that has stopped for good is in the end held dead by every node
\* that knows it, although the others go on spreading their older beliefs.
SilentIsDead ==
    \A n \in Observers : (<>[]~up) => <>[](table[n] # None => table[n].status = "DEAD")
=============================================================================
