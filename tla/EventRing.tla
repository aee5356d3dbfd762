------------------------------ MODULE EventRing ------------------------------
(***************************************************************************)
(* The bounded event log of one node and its fan-out to WebSocket          *)
(* subscribers (internal/events/ring.go, internal/api/websocket.go).       *)
(*                                                                         *)
(* Publish keeps the ring's mutex while it offers the event to every       *)
(* subscriber; the subscribers' own goroutines receive from their channels *)
(* without it, between any two of its steps.  Subscribe takes the mutex    *)
(* twice: to copy the entries after the cursor, and to register.  Events   *)
(* are told apart by their sequence number only.                           *)
(***************************************************************************)
EXTENDS Integers, Sequences, FiniteSets

CONSTANTS Subscribers,
          Capacity, \* of the ring
          Queue,    \* channel capacity a subscriber asks for
          MaxSeq,   \* bound on the number of events published
          Nobody

ASSUME RingAssumption ==
    /\ Capacity \in Nat \ {0}
    /\ Queue \in Nat /\ Queue >= 2
    /\ MaxSeq \in Nat
    /\ Nobody \notin Subscribers

VARIABLES entries, nextSeq,
          publishing, \* a Publish holds the mutex
          todo,       \* subscribers it has not served yet
          draining,   \* the slow subscriber it is emptying, or Nobody
          sawItem,    \* its loop found len(channel) > 0 and will receive
          subs,
          received    \* history: what each subscriber got

vars == <<entries, nextSeq, publishing, todo, draining, sawItem, subs, received>>

Event(seq) == [seq |-> seq, resync |-> FALSE]
ResyncRequired(seq) == [seq |-> seq, resync |-> TRUE]
Items == [seq : 1..MaxSeq, resync : BOOLEAN]

Phases == {"idle", "refused", "copied", "joined", "dropped", "cancelled"}

Idle == [phase |-> "idle", cursor |-> 0, pending |-> <<>>, channel |-> <<>>,
         capacity |-> 0, joinedAt |-> 0]

\* Faulty variant: a dropped subscriber stays registered.
RegisteredForever == {s \in Subscribers : subs[s].phase \in {"joined", "dropped"}}

Registered == {s \in Subscribers : subs[s].phase = "joined"}

-----------------------------------------------------------------------------
\* Faulty variant: one cursor too old is accepted.
ExpiredLate(cursor) == entries # <<>> /\ cursor > 0 /\ cursor < entries[1] - 2

Expired(cursor) == entries # <<>> /\ cursor > 0 /\ cursor < entries[1] - 1

\* The loop over the entries that copies those after the cursor.
After(cursor) ==
    LET copied[i \in 0..Len(entries)] ==
            IF i = 0 THEN <<>>
            ELSE IF entries[i] > cursor THEN Append(copied[i - 1], entries[i])
            ELSE copied[i - 1]
    IN  copied[Len(entries)]

AtMost(m, n) == IF m < n THEN m ELSE n

\* The events of a poll: its loop ends when limit of them are copied.
Since(cursor, limit) ==
    LET found == After(cursor)
    IN  IF Expired(cursor) THEN <<>> ELSE SubSeq(found, 1, AtMost(limit, Len(found)))

-----------------------------------------------------------------------------
Init ==
    /\ entries = <<>>
    /\ nextSeq = 1
    /\ publishing = FALSE
    /\ todo = {}
    /\ draining = Nobody
    /\ sawItem = FALSE
    /\ subs = [s \in Subscribers |-> Idle]
    /\ received = [s \in Subscribers |-> <<>>]

\* Faulty variant: nothing falls out of the ring.
AppendedForever == Append(entries, nextSeq)

Appended == Append(IF Len(entries) = Capacity THEN Tail(entries) ELSE entries, nextSeq)

Publish ==
    /\ ~publishing
    /\ nextSeq <= MaxSeq
    /\ entries' = Appended
    /\ nextSeq' = nextSeq + 1
    /\ publishing' = TRUE
    /\ todo' = Registered
    /\ UNCHANGED <<draining, sawItem, subs, received>>

\* Faulty variant: a full channel is skipped.
OfferOrSkip(s) ==
    /\ publishing /\ draining = Nobody /\ s \in todo
    /\ todo' = todo \ {s}
    /\ subs' = IF Len(subs[s].channel) = subs[s].capacity THEN subs
               ELSE [subs EXCEPT ![s].channel = Append(@, Event(nextSeq - 1))]
    /\ UNCHANGED <<entries, nextSeq, publishing, draining, sawItem, received>>

\* select { case channel <- event: default: }
Offer(s) ==
    /\ publishing /\ draining = Nobody /\ s \in todo
    /\ IF Len(subs[s].channel) < subs[s].capacity
       THEN /\ subs' = [subs EXCEPT ![s].channel = Append(@, Event(nextSeq - 1))]
            /\ todo' = todo \ {s}
            /\ UNCHANGED draining
       ELSE draining' = s /\ UNCHANGED <<subs, todo>>
    /\ UNCHANGED <<entries, nextSeq, publishing, sawItem, received>>

\* for len(channel) > 0 ...: the test, and what follows the loop.
DrainTest ==
    /\ draining # Nobody /\ ~sawItem
    /\ IF subs[draining].channel # <<>>
       THEN sawItem' = TRUE /\ UNCHANGED <<subs, todo, draining>>
       ELSE /\ subs' = [subs EXCEPT ![draining].channel = <<ResyncRequired(nextSeq - 1)>>,
                                    ![draining].phase = "dropped"]
            /\ todo' = todo \ {draining}
            /\ draining' = Nobody
            /\ UNCHANGED sawItem
    /\ UNCHANGED <<entries, nextSeq, publishing, received>>

\* ... { <-channel }: a receive, which waits while the channel is empty.
DrainReceive ==
    /\ sawItem
    /\ subs[draining].channel # <<>>
    /\ subs' = [subs EXCEPT ![draining].channel = Tail(@)]
    /\ sawItem' = FALSE
    /\ UNCHANGED <<entries, nextSeq, publishing, todo, draining, received>>

PublishReturns ==
    /\ publishing /\ todo = {}
    /\ publishing' = FALSE
    /\ UNCHANGED <<entries, nextSeq, todo, draining, sawItem, subs, received>>

\* First half of Subscribe, for a client whose cursor this ring handed out.
SubscribeCopy(s, cursor) ==
    /\ ~publishing
    /\ subs[s].phase = "idle"
    /\ subs' = [subs EXCEPT
                  ![s].cursor = cursor,
                  ![s].phase = IF Expired(cursor) THEN "refused" ELSE "copied",
                  ![s].pending = IF Expired(cursor) THEN <<>> ELSE After(cursor)]
    /\ UNCHANGED <<entries, nextSeq, publishing, todo, draining, sawItem, received>>

\* Second half: the channel, filled beforehand, is registered.
SubscribeJoin(s) ==
    /\ ~publishing
    /\ subs[s].phase = "copied"
    /\ LET pending == subs[s].pending
           room    == Len(pending) + 1
       IN  subs' = [subs EXCEPT
                      ![s].phase = "joined",
                      ![s].channel = [i \in DOMAIN pending |-> Event(pending[i])],
                      ![s].capacity = IF Queue < room THEN room ELSE Queue,
                      ![s].joinedAt = nextSeq]
    /\ UNCHANGED <<entries, nextSeq, publishing, todo, draining, sawItem, received>>

\* The WebSocket goroutine takes an event; a closed channel is emptied too.
Receive(s) ==
    /\ subs[s].phase \in {"joined", "dropped"}
    /\ subs[s].channel # <<>>
    /\ received' = [received EXCEPT ![s] = Append(@, Head(subs[s].channel))]
    /\ subs' = [subs EXCEPT ![s].channel = Tail(@)]
    /\ UNCHANGED <<entries, nextSeq, publishing, todo, draining, sawItem>>

\* The handler returns (client gone, write error): deferred cancel().
Cancel(s) ==
    /\ ~publishing
    /\ subs[s].phase = "joined"
    /\ subs' = [subs EXCEPT ![s].phase = "cancelled"]
    /\ UNCHANGED <<entries, nextSeq, publishing, todo, draining, sawItem, received>>

Next ==
    \/ Publish
    \/ DrainTest
    \/ DrainReceive
    \/ PublishReturns
    \/ \E s \in Subscribers :
          \/ Offer(s)
          \/ \E cursor \in 0..(nextSeq - 1) : SubscribeCopy(s, cursor)
          \/ SubscribeJoin(s)
          \/ Receive(s)
          \/ Cancel(s)

Spec == Init /\ [][Next]_vars

-----------------------------------------------------------------------------
TypeOK ==
    /\ entries \in Seq(1..MaxSeq) /\ Len(entries) <= Capacity
    /\ nextSeq \in 1..(MaxSeq + 1)
    /\ publishing \in BOOLEAN /\ sawItem \in BOOLEAN
    /\ todo \subseteq Subscribers
    /\ draining \in Subscribers \union {Nobody}
    /\ \A s \in Subscribers :
          /\ subs[s].phase \in Phases
          /\ subs[s].channel \in Seq(Items)
          /\ Len(subs[s].channel) <= subs[s].capacity
    /\ received \in [Subscribers -> Seq(Items)]

\* What a subscriber has got and what still waits in its channel.
Stream(s) == received[s] \o subs[s].channel

SeqsOf(stream) == {stream[i].seq : i \in {j \in DOMAIN stream : ~stream[j].resync}}
Announced(stream) == \E i \in DOMAIN stream : stream[i].resync

\* A poll with a cursor of this ring is told that the cursor expired, or gets
\* the events that follow it without a gap: all of them, or the oldest `limit',
\* so that polling on from the last one returned misses none.
SinceIsComplete ==
    \A cursor \in 1..(nextSeq - 1), limit \in 1..MaxSeq :
        ~Expired(cursor) =>
            Since(cursor, limit) =
                [i \in 1..AtMost(limit, nextSeq - 1 - cursor) |-> cursor + i]

\* Once registered, a subscriber is sent every event, or a RESYNC_REQUIRED: a
\* slow consumer never loses one silently.  The one exception is a subscriber
\* whose channel a Publish is emptying at this moment: it is owed its
\* RESYNC_REQUIRED still.
NoSilentLossAfterJoin ==
    \A s \in Subscribers : subs[s].phase \in {"joined", "dropped"} =>
        \/ Announced(Stream(s))
        \/ s = draining /\ publishing
        \/ LET served == IF s \in todo THEN nextSeq - 2 ELSE nextSeq - 1
           IN  subs[s].joinedAt..served \subseteq SeqsOf(Stream(s))

\* Sequence numbers only grow along a stream, copied entries and live events
\* together, and nothing follows a RESYNC_REQUIRED.
StreamOrdered ==
    \A s \in Subscribers :
        \A i, j \in DOMAIN Stream(s) : i < j =>
            /\ Stream(s)[i].seq < Stream(s)[j].seq
            /\ ~Stream(s)[i].resync

\* ring.go:18 "Registry writes never wait for a WebSocket consumer": Publish
\* is never left receiving from a channel its consumer has just emptied.
PublishNeverWaits == ~(sawItem /\ subs[draining].channel = <<>>)
=============================================================================
