------------------------------ MODULE TTLWheel ------------------------------
(***************************************************************************)
(* The hashed timing wheel (internal/ttl/wheel.go).  Slots are numbered    *)
(* from 0; an item remembers its slot and how many turns it still waits.   *)
(* Run's goroutine advances tick by tick and calls the handler between     *)
(* ticks with the lock released; other goroutines, the handler included,   *)
(* schedule at any time.  Time is counted in fractions of a tick.          *)
(***************************************************************************)
EXTENDS Integers, FiniteSets

CONSTANTS Tasks,      \* scheduled tasks; one may be scheduled again later
          Slots,      \* len(w.slots)
          TickLength, \* units of time in a tick
          Deadlines,  \* deadlines the service asks for, past ones included
          LastCall,   \* bound: nothing is scheduled once the clock passed it
          MaxTime     \* bound on the clock

ASSUME WheelAssumption ==
    /\ Slots \in Nat /\ Slots >= 2
    /\ TickLength \in Nat \ {0}
    /\ LastCall \in Nat /\ MaxTime \in Nat
    /\ Deadlines \subseteq Int

VARIABLES now,      \* the wall clock
          current, position, items,
          due       \* the batch the handler is working on

vars == <<now, current, position, items, due>>

Item == [task : Tasks, deadline : Deadlines, slot : 0..(Slots - 1), rounds : Nat]

\* Faulty variant: a deadline on a tick waits one more.
TicksLate(deadline, from) ==
    IF deadline < from THEN 1 ELSE (deadline - from) \div TickLength + 1

\* Ticks from "from" to the first tick at or after the deadline, at least 1.
Ticks(deadline, from) ==
    LET up == (deadline - from + TickLength - 1) \div TickLength
    IN  IF up < 1 THEN 1 ELSE up

\* Faulty variant: the slot is not wrapped.
PlaceUnwrapped(task, deadline, from, at) ==
    [task |-> task, deadline |-> deadline,
     slot |-> at + (Ticks(deadline, from) % Slots),
     rounds |-> (Ticks(deadline, from) - 1) \div Slots]

\* Faulty variant: a full turn counts as a turn to wait.
PlaceLate(task, deadline, from, at) ==
    [task |-> task, deadline |-> deadline,
     slot |-> (at + (Ticks(deadline, from) % Slots)) % Slots,
     rounds |-> Ticks(deadline, from) \div Slots]

Place(task, deadline, from, at) ==
    [task |-> task, deadline |-> deadline,
     slot |-> (at + (Ticks(deadline, from) % Slots)) % Slots,
     rounds |-> (Ticks(deadline, from) - 1) \div Slots]

-----------------------------------------------------------------------------
\* New truncates the clock to a tick.
Init ==
    /\ now = 0
    /\ current = 0
    /\ position = 0
    /\ items = {}
    /\ due = {}

Clock ==
    /\ now < MaxTime
    /\ now' = now + 1
    /\ UNCHANGED <<current, position, items, due>>

Schedule(task, deadline) ==
    /\ now <= LastCall
    /\ \A i \in items : i.task # task
    /\ items' = items \union {Place(task, deadline, current, position)}
    /\ UNCHANGED <<now, current, position, due>>

\* Faulty variant: items with turns to wait are not put back.
TurnedAway(taken) == {}

\* Items of the slot that wait at least another turn.
Turned(taken) == {[i EXCEPT !.rounds = @ - 1] : i \in {j \in taken : j.rounds > 0}}

\* One iteration of Advance: items with turns to wait stay, an item whose
\* deadline is still ahead is placed anew, the others are due.
Advance ==
    /\ due = {}
    /\ current + TickLength <= now
    /\ current' = current + TickLength
    /\ position' = (position + 1) % Slots
    /\ LET taken   == {i \in items : i.slot = position'}
           ready   == {i \in taken : i.rounds = 0}
           early   == {i \in ready : i.deadline > current'}
       IN  /\ items' = (items \ taken)
                          \union Turned(taken)
                          \union {Place(i.task, i.deadline, current', position') : i \in early}
           /\ due' = {[task |-> i.task, deadline |-> i.deadline] :
                         i \in ready \ early}
    /\ UNCHANGED now

\* The handler returns.
Handled ==
    /\ due # {}
    /\ due' = {}
    /\ UNCHANGED <<now, current, position, items>>

Next ==
    \/ Clock
    \/ Advance
    \/ Handled
    \/ \E task \in Tasks, deadline \in Deadlines : Schedule(task, deadline)

Spec == Init /\ [][Next]_vars

\* Time passes, the ticker goroutine runs and handlers return.
FairSpec == Spec /\ WF_vars(Clock) /\ WF_vars(Advance) /\ WF_vars(Handled)

-----------------------------------------------------------------------------
TypeOK ==
    /\ now \in 0..MaxTime
    /\ current \in Int /\ current <= now
    /\ position \in 0..(Slots - 1)
    /\ items \subseteq Item
    /\ due \subseteq [task : Tasks, deadline : Deadlines]

\* Ticks until the wheel reaches the slot of an item for the last time.
Distance(i) == ((i.slot - position - 1) % Slots) + 1 + Slots * i.rounds

\* Slot and turns of every item always point at the first tick at or after
\* its deadline, across turns of the wheel, whenever it was scheduled; so no
\* task fires early and Advance never finds an early item to place anew.
PlacedExactly == \A i \in items : Distance(i) = Ticks(i.deadline, current)

\* The wheel implements the timer set: no task lost, repeated, early or late.
Timers == INSTANCE TimerSet WITH
    pending <- {[task |-> i.task, deadline |-> i.deadline] : i \in items}

ImplementsTimers == Timers!Spec

\* Every scheduled task is handed to the handler in the end.
EveryTaskFires ==
    \A t \in Tasks : (\E i \in items : i.task = t) ~> (\E d \in due : d.task = t)
=============================================================================
