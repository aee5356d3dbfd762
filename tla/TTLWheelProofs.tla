--------------------------- MODULE TTLWheelProofs ---------------------------
(***************************************************************************)
(* The timing wheel is a timer set, for any number of slots, any tick and  *)
(* any deadlines.  Slot and turns of an item say in two numbers how many   *)
(* ticks it waits; the invariant is that these are always the ticks to its *)
(* deadline.  It is inductive together with the type invariant, and it is  *)
(* all the refinement needs.                                               *)
(***************************************************************************)
EXTENDS TTLWheel, TLAPS

-----------------------------------------------------------------------------
(* Turns of a wheel of n slots.                                            *)

\* Quotient and remainder.
LEMMA DivMod ==
    ASSUME NEW n \in Nat \ {0}, NEW a \in Int
    PROVE  /\ a \div n \in Int /\ a % n \in 0..(n - 1)
           /\ a = (a \div n) * n + (a % n)
  OBVIOUS

\* They are determined by the number.
LEMMA DivModUnique ==
    ASSUME NEW n \in Nat \ {0}, NEW q \in Int, NEW r \in 0..(n - 1)
    PROVE  (q * n + r) % n = r /\ (q * n + r) \div n = q
  OBVIOUS

\* The slot t ticks ahead is reached for the first time t - 1 slots, modulo
\* the wheel, after the next one.
LEMMA SlotAhead ==
    ASSUME NEW n \in Nat \ {0}, NEW at \in 0..(n - 1), NEW t \in Nat \ {0}
    PROVE  (((at + (t % n)) % n) - at - 1) % n = (t - 1) % n
<1> DEFINE q == t \div n
<1> DEFINE r == t % n
<1>1. q \in Int /\ r \in 0..(n - 1) /\ t = q * n + r
  BY DivMod
<1> HIDE DEF q, r
<1>2. (t - 1) % n = IF r = 0 THEN n - 1 ELSE r - 1
  <2>1. CASE r = 0
    <3>1. t - 1 = (q - 1) * n + (n - 1)
      BY <1>1, <2>1
    <3> QED  BY <1>1, <2>1, <3>1, DivModUnique
  <2>2. CASE r # 0
    <3>1. t - 1 = q * n + (r - 1)
      BY <1>1, <2>2
    <3> QED  BY <1>1, <2>2, <3>1, DivModUnique
  <2> QED  BY <2>1, <2>2
<1>3. (at + r) % n = IF at + r < n THEN at + r ELSE at + r - n
  <2>1. CASE at + r < n
    BY <1>1, <2>1
  <2>2. CASE ~(at + r < n)
    BY <1>1, <2>2
  <2> QED  BY <2>1, <2>2
<1>4. (((at + r) % n) - at - 1) % n = IF r = 0 THEN n - 1 ELSE r - 1
  <2>1. CASE r = 0
    BY <1>1, <1>3, <2>1
  <2>2. CASE r # 0 /\ at + r < n
    BY <1>1, <1>3, <2>2
  <2>3. CASE r # 0 /\ ~(at + r < n)
    BY <1>1, <1>3, <2>3
  <2> QED  BY <2>1, <2>2, <2>3
<1> QED  BY <1>2, <1>4 DEF r

\* A tick brings every other slot one nearer.
LEMMA OtherSlotNearer ==
    ASSUME NEW n \in Nat \ {0}, NEW at \in 0..(n - 1), NEW slot \in 0..(n - 1),
           slot # (at + 1) % n
    PROVE  /\ (slot - ((at + 1) % n) - 1) % n = ((slot - at - 1) % n) - 1
           /\ (slot - at - 1) % n > 0
  OBVIOUS

\* The slot it reaches is a whole turn away again.
LEMMA ReachedSlotAway ==
    ASSUME NEW n \in Nat \ {0}, NEW at \in 0..(n - 1), NEW slot \in 0..(n - 1),
           slot = (at + 1) % n
    PROVE  (slot - ((at + 1) % n) - 1) % n = n - 1 /\ (slot - at - 1) % n = 0
  OBVIOUS

-----------------------------------------------------------------------------
(* Ticks to a deadline.                                                    *)

\* There is always at least one tick to wait.
LEMMA TicksType ==
    ASSUME NEW deadline \in Int, NEW from \in Int
    PROVE  Ticks(deadline, from) \in Nat \ {0}
<1>1. (deadline - from + TickLength - 1) \div TickLength \in Int
  BY WheelAssumption, DivMod
<1> QED  BY <1>1 DEF Ticks

\* One tick on, a deadline is one tick nearer.
LEMMA TickNearer ==
    ASSUME NEW deadline \in Int, NEW from \in Int, Ticks(deadline, from) > 1
    PROVE  Ticks(deadline, from + TickLength) = Ticks(deadline, from) - 1
<1> DEFINE a == deadline - from + TickLength - 1
<1>1. a \in Int /\ TickLength \in Nat \ {0}
  BY WheelAssumption
<1>2. deadline - (from + TickLength) + TickLength - 1 = a - TickLength
  BY <1>1
<1>3. (a - TickLength) \div TickLength = (a \div TickLength) - 1 /\ a \div TickLength \in Int
  <2> HIDE DEF a
  <2> QED  BY <1>1
<1> HIDE DEF a
<1>4. Ticks(deadline, from) = IF a \div TickLength < 1 THEN 1 ELSE a \div TickLength
  BY DEF Ticks, a
<1>5. Ticks(deadline, from + TickLength)
        = IF (a \div TickLength) - 1 < 1 THEN 1 ELSE (a \div TickLength) - 1
  BY <1>2, <1>3 DEF Ticks
<1> QED  BY <1>3, <1>4, <1>5

\* The next tick is the one for exactly the deadlines it reaches.
LEMMA NextTickReaches ==
    ASSUME NEW deadline \in Int, NEW from \in Int
    PROVE  Ticks(deadline, from) = 1 <=> deadline <= from + TickLength
<1> DEFINE a == deadline - from + TickLength - 1
<1> DEFINE q == a \div TickLength
<1>1. a \in Int /\ TickLength \in Nat \ {0}
  BY WheelAssumption
<1>2. q \in Int /\ a % TickLength \in 0..(TickLength - 1) /\ a = q * TickLength + (a % TickLength)
  <2> HIDE DEF a
  <2> QED  BY <1>1, DivMod
<1>3. Ticks(deadline, from) = IF q < 1 THEN 1 ELSE q
  BY DEF Ticks
<1>4. q > 1 <=> a >= 2 * TickLength
  <2> HIDE DEF a, q
  <2>1. ASSUME q > 1 PROVE a >= 2 * TickLength
    BY <1>1, <1>2, <2>1
  <2>2. ASSUME q <= 1 PROVE a < 2 * TickLength
    BY <1>1, <1>2, <2>2
  <2> QED  BY <1>1, <1>2, <2>1, <2>2
<1>5. a >= 2 * TickLength <=> deadline > from + TickLength
  BY <1>1
<1> HIDE DEF q
<1> QED  BY <1>1, <1>2, <1>3, <1>4, <1>5

-----------------------------------------------------------------------------
(* Items.                                                                  *)

\* What an item's slot and turns say, when the wheel stands at "at".
Waits(i, at) == ((i.slot - at - 1) % Slots) + 1 + Slots * i.rounds

\* Schedule places an item exactly as many ticks ahead as its deadline is.
LEMMA PlaceIsExact ==
    ASSUME NEW task \in Tasks, NEW deadline \in Deadlines, NEW from \in Int,
           NEW at \in 0..(Slots - 1)
    PROVE  /\ Place(task, deadline, from, at) \in Item
           /\ Waits(Place(task, deadline, from, at), at) = Ticks(deadline, from)
<1> DEFINE t == Ticks(deadline, from)
<1> DEFINE i == Place(task, deadline, from, at)
<1>1. t \in Nat \ {0} /\ Slots \in Nat \ {0} /\ deadline \in Int
  <2>1. deadline \in Int /\ Slots \in Nat \ {0}
    BY WheelAssumption
  <2> QED  BY <2>1, TicksType
<1>2. /\ i.slot = (at + (t % Slots)) % Slots /\ i.rounds = (t - 1) \div Slots
      /\ i.task = task /\ i.deadline = deadline
  BY DEF Place
<1>3. (t - 1) \div Slots \in Nat /\ (at + (t % Slots)) % Slots \in 0..(Slots - 1)
  <2> HIDE DEF t
  <2>1. t % Slots \in Int /\ at \in Int /\ t - 1 \in Nat
    BY <1>1, DivMod
  <2>2. (at + (t % Slots)) % Slots \in 0..(Slots - 1)
    BY <1>1, <2>1, DivMod
  <2> QED  BY <1>1, <2>1, <2>2
<1>4. i \in Item
  <2> HIDE DEF t
  <2> QED  BY <1>3 DEF Place, Item, t
<1>5. (i.slot - at - 1) % Slots = (t - 1) % Slots
  <2> HIDE DEF t, i
  <2> QED  BY <1>1, <1>2, SlotAhead
<1>6. ((t - 1) % Slots) + 1 + Slots * ((t - 1) \div Slots) = t
  <2> HIDE DEF t
  <2> QED  BY <1>1
<1> HIDE DEF t, i
<1>7. Waits(i, at) = t
  BY <1>2, <1>5, <1>6 DEF Waits
<1> QED  BY <1>4, <1>7 DEF i, t

\* Placement is inductive as it stands.
IInv == TypeOK /\ PlacedExactly

\* The next tick takes exactly the items whose deadline it reaches; items
\* with turns to wait are one turn nearer, and so are those in other slots.
LEMMA TickItem ==
    ASSUME IInv, NEW i \in items
    PROVE  LET next == (position + 1) % Slots
           IN  /\ i.slot = next /\ i.rounds = 0 <=> i.deadline <= current + TickLength
               /\ i.slot = next /\ i.rounds > 0 =>
                     /\ [i EXCEPT !.rounds = @ - 1] \in Item
                     /\ Waits([i EXCEPT !.rounds = @ - 1], next)
                           = Ticks(i.deadline, current + TickLength)
               /\ i.slot # next => Waits(i, next) = Ticks(i.deadline, current + TickLength)
<1> DEFINE next == (position + 1) % Slots
<1> DEFINE away == (i.slot - position - 1) % Slots
<1>1. /\ i \in Item /\ i.rounds \in Nat /\ i.slot \in 0..(Slots - 1) /\ i.deadline \in Int
      /\ position \in 0..(Slots - 1) /\ current \in Int /\ Slots \in Nat \ {0} /\ Slots > 1
  <2>1. i \in Item /\ position \in 0..(Slots - 1) /\ current \in Int
    BY DEF IInv, TypeOK
  <2>2. i.rounds \in Nat /\ i.slot \in 0..(Slots - 1) /\ i.deadline \in Deadlines
    BY <2>1 DEF Item
  <2>3. Slots \in Nat \ {0} /\ Slots > 1
    BY WheelAssumption
  <2>4. i.deadline \in Int
    BY <2>2, WheelAssumption
  <2> QED  BY <2>1, <2>2, <2>3, <2>4
<1>2. Ticks(i.deadline, current) = away + 1 + Slots * i.rounds
  BY DEF IInv, PlacedExactly, Distance
<1>3. /\ i.slot = next => /\ (i.slot - next - 1) % Slots = Slots - 1
                          /\ away = 0
      /\ i.slot # next => /\ (i.slot - next - 1) % Slots = away - 1
                          /\ away > 0
  BY <1>1, OtherSlotNearer, ReachedSlotAway
<1>4. away \in Nat
  <2> DEFINE d == i.slot - position - 1
  <2>1. d \in Int
    BY <1>1
  <2> HIDE DEF d
  <2>2. d % Slots \in 0..(Slots - 1)
    BY <1>1, <2>1, DivMod
  <2> QED  BY <1>1, <2>2 DEF d
<1> HIDE DEF away, next
<1>5. Slots * i.rounds \in Nat /\ (i.rounds > 0 => Slots * i.rounds >= Slots)
      /\ (i.rounds = 0 => Slots * i.rounds = 0)
      /\ Slots * (i.rounds - 1) = Slots * i.rounds - Slots
  BY <1>1
<1>6. Ticks(i.deadline, current) > 1
        => Ticks(i.deadline, current + TickLength) = away + Slots * i.rounds
  BY <1>1, <1>2, <1>4, <1>5, TickNearer
<1>7. i.slot = next /\ i.rounds = 0 <=> i.deadline <= current + TickLength
  <2>1. Ticks(i.deadline, current) = 1 <=> i.slot = next /\ i.rounds = 0
    <3> DEFINE turns == Slots * i.rounds
    <3>1. turns \in Nat /\ (turns = 0 <=> i.rounds = 0)
      BY <1>1, <1>5
    <3>2. Ticks(i.deadline, current) = away + 1 + turns
      BY <1>2
    <3> HIDE DEF turns
    <3> QED  BY <1>3, <1>4, <3>1, <3>2
  <2> QED  BY <1>1, <2>1, NextTickReaches
<1>8. ASSUME i.slot = next, i.rounds > 0
      PROVE  /\ [i EXCEPT !.rounds = @ - 1] \in Item
             /\ Waits([i EXCEPT !.rounds = @ - 1], next)
                   = Ticks(i.deadline, current + TickLength)
  <2> DEFINE turned == [i EXCEPT !.rounds = @ - 1]
  <2>1. turned \in Item /\ turned.slot = i.slot /\ turned.rounds = i.rounds - 1
    BY <1>1, <1>8 DEF Item
  <2> HIDE DEF turned
  <2>2. Waits(turned, next) = Slots - 1 + 1 + Slots * (i.rounds - 1)
    BY <1>3, <1>8, <2>1 DEF Waits
  <2>3. Ticks(i.deadline, current + TickLength) = Slots * i.rounds
    BY <1>1, <1>2, <1>3, <1>5, <1>6, <1>8
  <2> QED  BY <1>1, <1>5, <2>1, <2>2, <2>3 DEF turned
<1>9. ASSUME i.slot # next
      PROVE  Waits(i, next) = Ticks(i.deadline, current + TickLength)
  <2>1. Waits(i, next) = away - 1 + 1 + Slots * i.rounds
    BY <1>3, <1>9 DEF Waits
  <2>2. Ticks(i.deadline, current + TickLength) = away + Slots * i.rounds
    BY <1>1, <1>2, <1>3, <1>4, <1>5, <1>6, <1>9
  <2> QED  BY <1>1, <1>4, <1>5, <2>1, <2>2
<1> QED  BY <1>7, <1>8, <1>9 DEF next

\* The items Advance finds due are those whose deadline the tick reaches; it
\* finds none that is early.
LEMMA AdvanceSplits ==
    ASSUME IInv, Advance
    PROVE  LET reached == {i \in items : i.deadline <= current'}
           IN  /\ \A i \in items : i \in reached <=> i.slot = position' /\ i.rounds = 0
               /\ items' = {i \in items : i.slot # position'}
                             \union Turned({i \in items : i.slot = position'})
               /\ due' = {[task |-> i.task, deadline |-> i.deadline] : i \in reached}
<1> DEFINE taken == {i \in items : i.slot = position'}
           ready == {i \in taken : i.rounds = 0}
           early == {i \in ready : i.deadline > current'}
           reached == {i \in items : i.deadline <= current'}
<1>1. position' = (position + 1) % Slots /\ current' = current + TickLength
  BY DEF Advance
<1>2. \A i \in items : i \in reached <=> i.slot = position' /\ i.rounds = 0
  BY <1>1, TickItem
<1>3. \A i \in items : i.deadline \in Int
  BY WheelAssumption DEF IInv, TypeOK, Item
<1>4. current' \in Int
  BY <1>1, WheelAssumption DEF IInv, TypeOK
<1>5. ready = reached
  BY <1>2
<1>6. early = {}
  BY <1>3, <1>4, <1>5
<1>7. items' = (items \ taken) \union Turned(taken)
                  \union {Place(i.task, i.deadline, current', position') : i \in early}
  BY DEF Advance
<1>8. items' = (items \ taken) \union Turned(taken)
  <2> HIDE DEF taken, early
  <2> QED  BY <1>6, <1>7
<1>9. due' = {[task |-> i.task, deadline |-> i.deadline] : i \in ready \ early}
  BY DEF Advance
<1>10. due' = {[task |-> i.task, deadline |-> i.deadline] : i \in reached}
  <2> HIDE DEF ready, early, reached
  <2> QED  BY <1>5, <1>6, <1>9
<1>11. items \ taken = {i \in items : i.slot # position'}
  OBVIOUS
<1> QED  BY <1>2, <1>8, <1>10, <1>11

\* An empty wheel places nothing wrongly.
LEMMA Initially == Init => IInv
  BY WheelAssumption DEF Init, IInv, TypeOK, PlacedExactly

\* Scheduling, from whichever goroutine and between whichever ticks, keeps the
\* invariant: the item is placed from the wheel's own time, not from the clock.
LEMMA ScheduleInv ==
    ASSUME IInv, NEW task \in Tasks, NEW deadline \in Deadlines, Schedule(task, deadline)
    PROVE  IInv'
<1> DEFINE placed == Place(task, deadline, current, position)
<1>1. placed \in Item /\ Waits(placed, position) = Ticks(deadline, current)
  BY PlaceIsExact DEF IInv, TypeOK
<1>2. placed.deadline = deadline
  BY DEF Place
<1>3. items' = items \union {placed} /\ UNCHANGED <<now, current, position, due>>
  BY DEF Schedule
<1> HIDE DEF placed
<1>4. TypeOK'
  BY <1>1, <1>3 DEF IInv, TypeOK
<1>5. PlacedExactly'
  BY <1>1, <1>2, <1>3 DEF IInv, PlacedExactly, Distance, Waits
<1> QED  BY <1>4, <1>5 DEF IInv

\* One iteration of Advance keeps every item exactly placed.
LEMMA AdvanceInv ==
    ASSUME IInv, Advance
    PROVE  IInv'
<1> DEFINE next == (position + 1) % Slots
<1>1. /\ position' = next /\ current' = current + TickLength /\ now' = now
      /\ current' <= now
  BY DEF Advance
<1>2. /\ position \in 0..(Slots - 1) /\ current \in Int /\ now \in 0..MaxTime
      /\ items \subseteq Item /\ Slots \in Nat \ {0} /\ TickLength \in Nat \ {0}
  BY WheelAssumption DEF IInv, TypeOK
<1>3. position' \in 0..(Slots - 1) /\ current' \in Int
  BY <1>1, <1>2, DivMod
<1>4. ASSUME NEW j \in items'
      PROVE  j \in Item /\ Waits(j, position') = Ticks(j.deadline, current')
  <2>1. CASE j \in items /\ j.slot # next
    BY <1>1, <1>2, <2>1, TickItem
  <2>2. CASE j \in Turned({i \in items : i.slot = next})
    <3>1. PICK i \in items : /\ i.slot = next /\ i.rounds > 0
                             /\ j = [i EXCEPT !.rounds = @ - 1]
      BY <2>2 DEF Turned
    <3>2. j \in Item /\ Waits(j, next) = Ticks(i.deadline, current + TickLength)
      BY <3>1, TickItem
    <3>3. j.deadline = i.deadline
      BY <1>2, <3>1 DEF Item
    <3> QED  BY <1>1, <3>2, <3>3
  <2> QED  BY <1>1, <2>1, <2>2, AdvanceSplits
<1>5. due' \subseteq [task : Tasks, deadline : Deadlines]
  BY <1>2, AdvanceSplits DEF Item
<1>6. TypeOK'
  BY <1>1, <1>2, <1>3, <1>4, <1>5 DEF TypeOK
<1>7. PlacedExactly'
  BY <1>4 DEF PlacedExactly, Distance, Waits
<1> QED  BY <1>6, <1>7 DEF IInv

\* Every step keeps the invariant.
LEMMA NextInv ==
    ASSUME IInv, [Next]_vars
    PROVE  IInv'
<1>1. CASE Clock
  BY <1>1, WheelAssumption DEF Clock, IInv, TypeOK, PlacedExactly, Distance
<1>2. CASE Handled \/ UNCHANGED vars
  BY <1>2 DEF Handled, vars, IInv, TypeOK, PlacedExactly, Distance
<1> QED  BY <1>1, <1>2, AdvanceInv, ScheduleInv DEF Next

\* The invariant holds throughout.
LEMMA Invariance == Spec => []IInv
<1> QED  BY Initially, NextInv, PTL DEF Spec

\* Slots stay within the wheel, turns to wait are never negative, and the
\* wheel's time does not overtake the clock.
THEOREM TypeCorrect == Spec => []TypeOK
<1> QED  BY Invariance, PTL DEF IInv

\* Slot and turns of an item always point at the first tick at or after its
\* deadline; so ScheduleLocked, by which Advance would place an early item
\* anew, is never reached.
THEOREM PlacementIsExact == Spec => []PlacedExactly
<1> QED  BY Invariance, PTL DEF IInv

-----------------------------------------------------------------------------
(* The refinement.                                                         *)

\* The wheel implements the timer set: no task is lost, handed over twice,
\* early, or later than the first tick at or after its deadline.
THEOREM WheelImplementsTimers == Spec => ImplementsTimers
<1> DEFINE P == {[task |-> i.task, deadline |-> i.deadline] : i \in items}
<1>1. Init => Timers!Init
  BY DEF Init, Timers!Init
<1>2. IInv /\ [Next]_vars => [Timers!Next]_<<current, P, due>>
  <2> SUFFICES ASSUME IInv, [Next]_vars PROVE [Timers!Next]_<<current, P, due>>
    OBVIOUS
  <2>1. ASSUME Advance PROVE Timers!Tick
    <3> DEFINE reached == {i \in items : i.deadline <= current'}
    <3> DEFINE D == {[task |-> i.task, deadline |-> i.deadline] : i \in reached}
    <3>1. due' = D /\ items' = {i \in items : i.slot # position'}
                                  \union Turned({i \in items : i.slot = position'})
      BY <2>1, AdvanceSplits
    <3>2. \A i \in items : i \in reached <=> i.slot = position' /\ i.rounds = 0
      BY <2>1, AdvanceSplits
    <3>3. \A i \in items : i \in Item /\ i.rounds \in Nat
      BY DEF IInv, TypeOK, Item
    <3>4. D = {t \in P : t.deadline <= current'}
      OBVIOUS
    <3>5. \A t \in P' : t \in P /\ t \notin D
      <4> TAKE t \in P'
      <4>1. PICK j \in items' : t = [task |-> j.task, deadline |-> j.deadline]
        OBVIOUS
      <4>2. PICK i \in items : /\ i \notin reached
                               /\ i.task = j.task /\ i.deadline = j.deadline
        <5>1. CASE j \in items /\ j.slot # position'
          BY <3>2, <5>1
        <5>2. CASE j \in Turned({i \in items : i.slot = position'})
          <6>1. PICK i \in items : /\ i.slot = position' /\ i.rounds > 0
                                   /\ j = [i EXCEPT !.rounds = @ - 1]
            BY <5>2 DEF Turned
          <6>2. i.task = j.task /\ i.deadline = j.deadline
            BY <3>3, <6>1 DEF Item
          <6>3. i \notin reached
            BY <3>2, <3>3, <6>1
          <6> QED  BY <6>2, <6>3
        <5> QED  BY <3>1, <5>1, <5>2
      <4>3. t \in P
        BY <4>1, <4>2
      <4>4. t.deadline = i.deadline /\ ~(i.deadline <= current')
        BY <4>1, <4>2
      <4> QED  BY <3>4, <4>3, <4>4
    <3>6. \A t \in P : t \notin D => t \in P'
      <4> TAKE t \in P
      <4> HAVE t \notin D
      <4>1. PICK i \in items : t = [task |-> i.task, deadline |-> i.deadline]
        OBVIOUS
      <4>2. i \notin reached
        BY <4>1
      <4>3. CASE i.slot # position'
        BY <3>1, <4>1, <4>3
      <4>4. CASE i.slot = position'
        <5> DEFINE j == [i EXCEPT !.rounds = @ - 1]
        <5>1. i.rounds > 0
          BY <3>2, <3>3, <4>2, <4>4
        <5>2. j \in Turned({k \in items : k.slot = position'})
          BY <4>4, <5>1 DEF Turned
        <5>3. j.task = i.task /\ j.deadline = i.deadline
          BY <3>3 DEF Item
        <5>4. j \in items'
          BY <3>1, <5>2
        <5> HIDE DEF j
        <5> QED  BY <4>1, <5>3, <5>4
      <4> QED  BY <4>3, <4>4
    <3>7. P' = P \ D
      <4> HIDE DEF P, D
      <4>1. D \subseteq P
        BY <3>4
      <4> QED  BY <3>5, <3>6
    <3>8. due = {} /\ current' = current + TickLength
      BY <2>1 DEF Advance
    <3> HIDE DEF P, D
    <3> QED  BY <3>1, <3>4, <3>7, <3>8 DEF Timers!Tick, P
  <2>2. ASSUME Handled PROVE Timers!Handle
    BY <2>2 DEF Handled, Timers!Handle
  <2>3. ASSUME NEW task \in Tasks, NEW deadline \in Deadlines, Schedule(task, deadline)
        PROVE  Timers!Schedule(task)
    <3> DEFINE t == [task |-> task, deadline |-> deadline]
    <3> DEFINE placed == Place(task, deadline, current, position)
    <3>1. items' = items \union {placed} /\ placed.task = task /\ placed.deadline = deadline
      BY <2>3 DEF Schedule, Place
    <3> HIDE DEF placed
    <3>2. P' = P \union {t}
      BY <3>1
    <3>3. t.task = task /\ UNCHANGED <<current, due>>
      BY <2>3 DEF Schedule
    <3> HIDE DEF P, t
    <3> QED  BY <3>2, <3>3 DEF Timers!Schedule, P
  <2>4. ASSUME Clock \/ UNCHANGED vars PROVE UNCHANGED <<current, P, due>>
    BY <2>4 DEF Clock, vars
  <2> QED  BY <2>1, <2>2, <2>3, <2>4 DEF Next, Timers!Next
<1> QED  BY <1>1, <1>2, Invariance, PTL DEF Spec, ImplementsTimers, Timers!Spec
=============================================================================
