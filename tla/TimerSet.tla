------------------------------ MODULE TimerSet ------------------------------
(***************************************************************************)
(* What the program relies on from its timers: a task stays pending until  *)
(* the tick that reaches its deadline (the next tick, when the deadline    *)
(* had passed already), which hands it over once, in a batch the handler   *)
(* finishes before the following tick.                                     *)
(***************************************************************************)
EXTENDS Integers

CONSTANTS Tasks, TickLength

VARIABLES current, pending, due

Pending == [task : Tasks, deadline : Int]

Init ==
    /\ current \in Int
    /\ pending = {}
    /\ due = {}

Schedule(task) ==
    /\ \E t \in pending' : t.task = task /\ pending' = pending \union {t}
    /\ UNCHANGED <<current, due>>

Tick ==
    /\ due = {}
    /\ current' = current + TickLength
    /\ due' = {t \in pending : t.deadline <= current'}
    /\ pending' = pending \ due'

Handle ==
    /\ due' = {}
    /\ UNCHANGED <<current, pending>>

Next == Tick \/ Handle \/ \E task \in Tasks : Schedule(task)

Spec == Init /\ [][Next]_<<current, pending, due>>
=============================================================================
