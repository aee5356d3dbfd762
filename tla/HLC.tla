-------------------------------- MODULE HLC --------------------------------
(***************************************************************************)
(* The hybrid logical clock of one node (internal/clock/hlc.go).  The wall *)
(* clock may be set forwards and backwards at any time; a peer may send    *)
(* any valid version.  Each operation runs under the clock's mutex.        *)
(***************************************************************************)
EXTENDS Leases

CONSTANTS Self,          \* this node's ID
          Remotes,       \* versions peers may send
          MaxWall,       \* bound on the wall clock
          MaxFutureSkew,
          MaxPhysical,   \* math.MaxInt64
          MaxLogical     \* math.MaxUint64

ASSUME HLCAssumption ==
    /\ Self \in Nat \ {0}
    /\ MaxWall \in Nat \ {0}
    /\ MaxFutureSkew \in Nat
    /\ MaxPhysical \in Nat
    /\ MaxLogical \in Nat
    /\ MaxWall + MaxFutureSkew <= MaxPhysical
    /\ Remotes \subseteq Version
    /\ \A r \in Remotes : r.physical \in 1..MaxPhysical /\ r.logical <= MaxLogical

VARIABLES wall,  \* what source.Now() would return
          last,
          seen,  \* history: greatest version generated or observed
          peak,  \* history: greatest wall clock reading
          carry  \* history: how often the logical counter overflowed

vars == <<wall, last, seen, peak, carry>>

Zero == [physical |-> 0, logical |-> 0, origin |-> 0]

Newest(a, b) == IF VersionLess(a, b) THEN b ELSE a
Greater(a, b) == IF a < b THEN b ELSE a

-----------------------------------------------------------------------------
Overflows(physical, logical) == logical = MaxLogical /\ physical < MaxPhysical

\* Faulty variant: the counter runs past its width.
nextLogicalUnbounded(physical, logical) ==
    [physical |-> physical, logical |-> logical + 1, origin |-> Self]

\* The version after (physical, logical) on this node.
nextLogical(physical, logical) ==
    CASE logical < MaxLogical ->
            [physical |-> physical, logical |-> logical + 1, origin |-> Self]
      [] Overflows(physical, logical) ->
            [physical |-> physical + 1, logical |-> 0, origin |-> Self]
      [] OTHER ->
            [physical |-> physical, logical |-> MaxLogical, origin |-> Self]

\* Faulty variant: restarts the counter within one millisecond.
NowVersionRestarts ==
    IF wall >= last.physical
    THEN [physical |-> wall, logical |-> 0, origin |-> Self]
    ELSE nextLogical(last.physical, last.logical)

NowVersion ==
    IF wall > last.physical
    THEN [physical |-> wall, logical |-> 0, origin |-> Self]
    ELSE nextLogical(last.physical, last.logical)

\* The logical counter Observe continues from; -1 stands for "start at 0".
MergedLogical(remote, physical) ==
    CASE physical = last.physical /\ physical = remote.physical ->
            Greater(last.logical, remote.logical)
      [] physical = last.physical /\ physical # remote.physical -> last.logical
      [] physical # last.physical /\ physical = remote.physical -> remote.logical
      [] OTHER -> -1

MergedPhysical(remote) == Greater(wall, Greater(last.physical, remote.physical))

\* Faulty variant: measures the skew from the clock itself.
TooFarAheadOfClock(remote) == remote.physical > Greater(wall, last.physical) + MaxFutureSkew

TooFarAhead(remote) == remote.physical > wall + MaxFutureSkew

-----------------------------------------------------------------------------
Init ==
    /\ wall \in 1..MaxWall
    /\ last = Zero
    /\ seen = Zero
    /\ peak = 0
    /\ carry = 0

SetWall ==
    /\ wall' \in 1..MaxWall
    /\ UNCHANGED <<last, seen, peak, carry>>

Now ==
    /\ last' = NowVersion
    /\ seen' = Newest(seen, NowVersion)
    /\ peak' = Greater(peak, wall)
    /\ carry' = IF wall <= last.physical /\ Overflows(last.physical, last.logical)
                THEN carry + 1 ELSE carry
    /\ UNCHANGED wall

Observe(remote) ==
    LET physical == MergedPhysical(remote)
        logical  == MergedLogical(remote, physical)
    IN  /\ ~TooFarAhead(remote)
        /\ last' = nextLogical(physical, logical)
        /\ seen' = Newest(Newest(seen, remote), last')
        /\ peak' = Greater(peak, wall)
        /\ carry' = IF Overflows(physical, logical) THEN carry + 1 ELSE carry
        /\ UNCHANGED wall

Next ==
    \/ SetWall
    \/ Now
    \/ \E remote \in Remotes : Observe(remote)

Spec == Init /\ [][Next]_vars

-----------------------------------------------------------------------------
\* The clock holds a version of this node, or none yet, within its widths.
TypeOK ==
    /\ wall \in 1..MaxWall
    /\ last \in Version /\ last.physical <= MaxPhysical /\ last.logical <= MaxLogical
    /\ last = Zero \/ last.origin = Self
    /\ seen \in Version
    /\ peak \in Nat
    /\ carry \in Nat

Exhausted == last.physical = MaxPhysical /\ last.logical = MaxLogical

\* hlc.go:59 "Now returns a version greater than every version previously
\* generated or observed by this HLC, even when the wall clock moves
\* backwards", short of the last representable version.
NextIsNewer == ~Exhausted => VersionLess(seen, NowVersion)

\* hlc.go:78 the future-skew check keeps a bad peer from pinning the clock:
\* it is never further ahead of this node's own wall clock than the allowed
\* skew, plus one millisecond for each overflow of the logical counter.
ClockBounded == last.physical <= peak + MaxFutureSkew + carry
=============================================================================
