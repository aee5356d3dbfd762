------------------------------ MODULE HLCProofs ------------------------------
(***************************************************************************)
(* The clock's promises for every width, skew and set of peers.  What is   *)
(* inductive is that nothing generated or observed is ahead of "last":     *)
(* NextIsNewer alone says nothing about where "last" stands.               *)
(***************************************************************************)
EXTENDS HLC, TLAPS

NothingAhead == Exhausted \/ ~VersionLess(last, seen)

IInv == TypeOK /\ NothingAhead /\ ClockBounded

-----------------------------------------------------------------------------
\* CompareVersion is a strict order.
LEMMA VersionOrder ==
    ASSUME NEW a \in Version, NEW b \in Version, NEW c \in Version
    PROVE  /\ ~VersionLess(a, a)
           /\ VersionLess(a, b) => ~VersionLess(b, a)
           /\ VersionLess(a, b) /\ VersionLess(b, c) => VersionLess(a, c)
  BY DEF Version, VersionLess

\* CompareVersion returns 0 on equal versions only.
LEMMA VersionTotal ==
    ASSUME NEW a \in Version, NEW b \in Version
    PROVE  VersionLess(a, b) \/ a = b \/ VersionLess(b, a)
  BY DEF Version, VersionLess

\* nextLogical stays within the widths and, short of the last version, is
\* newer than every version with the same or a smaller (physical, logical).
LEMMA NextLogicalNewer ==
    ASSUME NEW p \in 0..MaxPhysical, NEW l \in -1..MaxLogical
    PROVE  LET v == nextLogical(p, l)
           IN  /\ v \in Version /\ v.origin = Self
               /\ v.physical <= MaxPhysical /\ v.logical <= MaxLogical
               /\ v.physical = p + (IF Overflows(p, l) THEN 1 ELSE 0)
               /\ \A w \in Version :
                     w.physical < p \/ (w.physical = p /\ w.logical <= l) =>
                        \/ VersionLess(w, v)
                        \/ v.physical = MaxPhysical /\ v.logical = MaxLogical
  BY HLCAssumption DEF nextLogical, Overflows, Version, VersionLess

\* Now returns a version after "last".
LEMMA NowNewer ==
    ASSUME TypeOK
    PROVE  /\ NowVersion \in Version /\ NowVersion.origin = Self
           /\ NowVersion.physical <= MaxPhysical /\ NowVersion.logical <= MaxLogical
           /\ ~Exhausted => VersionLess(last, NowVersion)
           /\ Exhausted => NowVersion.physical = MaxPhysical /\ NowVersion.logical = MaxLogical
<1>1. /\ last \in Version /\ last.physical \in 0..MaxPhysical
      /\ last.logical \in 0..MaxLogical /\ wall \in 1..MaxPhysical
  BY HLCAssumption DEF TypeOK, Version
<1>2. CASE wall > last.physical
  BY <1>1, <1>2, HLCAssumption DEF NowVersion, Version, VersionLess, Exhausted
<1>3. CASE ~(wall > last.physical)
  BY <1>1, <1>3, HLCAssumption
  DEF NowVersion, nextLogical, Overflows, Version, VersionLess, Exhausted
<1> QED  BY <1>2, <1>3

\* The clock starts within the invariant.
LEMMA Initially == Init => IInv
  BY HLCAssumption
  DEF Init, IInv, TypeOK, NothingAhead, ClockBounded, Zero, Version, VersionLess

\* The greatest of two versions is behind whatever both are behind.
LEMMA NewestBehind ==
    ASSUME NEW a \in Version, NEW b \in Version, NEW c \in Version,
           ~VersionLess(c, a), ~VersionLess(c, b)
    PROVE  Newest(a, b) \in Version /\ ~VersionLess(c, Newest(a, b))
  BY DEF Newest

\* "seen" after any chain of Newest is a version.
LEMMA NewestType ==
    ASSUME NEW a \in Version, NEW b \in Version
    PROVE  Newest(a, b) \in Version
  BY DEF Newest

\* Now keeps the invariant.
LEMMA NowInv == ASSUME IInv, Now PROVE IInv'
<1>1. TypeOK /\ NothingAhead /\ ClockBounded
  BY DEF IInv
<1>2. /\ last \in Version /\ last.physical \in Nat /\ last.logical \in Nat
      /\ seen \in Version /\ wall \in Nat /\ peak \in Nat /\ carry \in Nat
  BY <1>1, HLCAssumption DEF TypeOK, Version
<1>3. /\ last' = NowVersion /\ last' \in Version /\ last'.origin = Self
      /\ last'.physical <= MaxPhysical /\ last'.logical <= MaxLogical
  BY <1>1, NowNewer DEF Now
<1>4. TypeOK'
  BY <1>1, <1>2, <1>3, NewestType DEF TypeOK, Now, Greater
<1>5. NothingAhead'
  <2>1. CASE Exhausted
    BY <1>1, <1>3, <2>1, NowNewer DEF NothingAhead, Exhausted
  <2>2. CASE ~Exhausted
    <3>1. VersionLess(last, last') /\ ~VersionLess(last, seen)
      BY <1>1, <1>3, <2>2, NowNewer DEF NothingAhead
    <3>2. ~VersionLess(last', seen)
      BY <1>2, <1>3, <3>1, VersionOrder
    <3>3. ~VersionLess(last', last')
      BY <1>3, VersionOrder
    <3> QED  BY <1>2, <1>3, <3>2, <3>3, NewestBehind DEF Now, NothingAhead
  <2> QED  BY <2>1, <2>2
<1>6. ClockBounded'
  <2>1. CASE wall > last.physical
    BY <1>2, <1>3, <2>1, HLCAssumption DEF Now, NowVersion, ClockBounded, Greater
  <2>2. CASE ~(wall > last.physical)
    BY <1>1, <1>2, <1>3, <2>2, HLCAssumption
    DEF Now, NowVersion, nextLogical, Overflows, ClockBounded, Greater
  <2> QED  BY <2>1, <2>2
<1> QED  BY <1>4, <1>5, <1>6 DEF IInv

\* Observe keeps the invariant, whatever valid version the peer sent.
LEMMA ObserveInv ==
    ASSUME IInv, NEW remote \in Remotes, Observe(remote)
    PROVE  IInv'
<1> DEFINE p == MergedPhysical(remote)
           l == MergedLogical(remote, p)
<1>1. TypeOK /\ NothingAhead /\ ClockBounded
  BY DEF IInv
<1>2. /\ last \in Version /\ last.physical \in 0..MaxPhysical /\ last.logical \in 0..MaxLogical
      /\ seen \in Version /\ wall \in 1..MaxWall /\ peak \in Nat /\ carry \in Nat
  BY <1>1, HLCAssumption DEF TypeOK, Version
<1>3. /\ remote \in Version /\ remote.physical \in 1..MaxPhysical
      /\ remote.logical \in 0..MaxLogical
  BY HLCAssumption DEF Version
<1>4. /\ p \in 0..MaxPhysical
      /\ wall <= p /\ last.physical <= p /\ remote.physical <= p
      /\ p \in {wall, last.physical, remote.physical}
  BY <1>2, <1>3, HLCAssumption DEF MergedPhysical, Greater
<1>5. /\ l \in -1..MaxLogical
      /\ last.physical = p => last.logical <= l
      /\ remote.physical = p => remote.logical <= l
  BY <1>2, <1>3, <1>4, HLCAssumption DEF MergedLogical, Greater
<1>6. /\ last' = nextLogical(p, l)
      /\ seen' = Newest(Newest(seen, remote), last')
      /\ peak' = Greater(peak, wall) /\ wall' = wall
      /\ carry' = IF Overflows(p, l) THEN carry + 1 ELSE carry
      /\ remote.physical <= wall + MaxFutureSkew
  BY <1>2, <1>3, HLCAssumption DEF Observe, TooFarAhead
<1> HIDE DEF p, l
<1>7. /\ last' \in Version /\ last'.origin = Self
      /\ last'.physical <= MaxPhysical /\ last'.logical <= MaxLogical
      /\ last'.physical = p + (IF Overflows(p, l) THEN 1 ELSE 0)
      /\ VersionLess(last, last') \/ Exhausted'
      /\ VersionLess(remote, last') \/ Exhausted'
  <2>1. last.physical < p \/ (last.physical = p /\ last.logical <= l)
    BY <1>2, <1>4, <1>5
  <2>2. remote.physical < p \/ (remote.physical = p /\ remote.logical <= l)
    BY <1>3, <1>4, <1>5
  <2> QED
    BY <1>2, <1>3, <1>4, <1>5, <1>6, <2>1, <2>2, NextLogicalNewer DEF Exhausted
<1>8. TypeOK'
  BY <1>1, <1>2, <1>3, <1>6, <1>7, NewestType DEF TypeOK, Greater
<1>9. NothingAhead'
  <2>1. CASE Exhausted'
    BY <2>1 DEF NothingAhead
  <2>2. CASE ~Exhausted'
    <3>1. VersionLess(last, last') /\ VersionLess(remote, last')
      BY <1>7, <2>2
    <3>2. ~VersionLess(last, seen)
      <4>1. CASE Exhausted
        BY <1>1, <1>2, <1>7, <3>1, <4>1, HLCAssumption
        DEF Exhausted, VersionLess, TypeOK, Version, Zero
      <4>2. CASE ~Exhausted
        BY <1>1, <4>2 DEF NothingAhead
      <4> QED  BY <4>1, <4>2
    <3>3. ~VersionLess(last', seen) /\ ~VersionLess(last', remote) /\ ~VersionLess(last', last')
      BY <1>2, <1>3, <1>7, <3>1, <3>2, VersionOrder
    <3>4. Newest(seen, remote) \in Version /\ ~VersionLess(last', Newest(seen, remote))
      BY <1>2, <1>3, <1>7, <3>3, NewestBehind
    <3> QED  BY <1>6, <1>7, <3>3, <3>4, NewestBehind DEF NothingAhead
  <2> QED  BY <2>1, <2>2
<1>10. ClockBounded'
  BY <1>1, <1>2, <1>3, <1>4, <1>6, <1>7, HLCAssumption DEF ClockBounded, Greater
<1> QED  BY <1>8, <1>9, <1>10 DEF IInv

\* The inductive invariant holds throughout.
LEMMA Invariance == Spec => []IInv
<1>1. IInv /\ [Next]_vars => IInv'
  <2> SUFFICES ASSUME IInv, [Next]_vars PROVE IInv'
    OBVIOUS
  <2>1. CASE SetWall
    BY <2>1 DEF SetWall, IInv, TypeOK, NothingAhead, ClockBounded, Exhausted
  <2>2. CASE Now
    BY <2>2, NowInv
  <2>3. ASSUME NEW remote \in Remotes, Observe(remote) PROVE IInv'
    BY <2>3, ObserveInv
  <2>4. CASE UNCHANGED vars
    BY <2>4 DEF vars, IInv, TypeOK, NothingAhead, ClockBounded, Exhausted
  <2> QED  BY <2>1, <2>2, <2>3, <2>4 DEF Next
<1> QED  BY <1>1, Initially, PTL DEF Spec

\* The clock stays within the widths of its counters and signs its versions.
THEOREM TypeCorrect == Spec => []TypeOK
<1>1. IInv => TypeOK
  BY DEF IInv
<1> QED  BY <1>1, Invariance, PTL

\* The promise of hlc.go:59: Now exceeds all it generated or observed.
THEOREM NowAlwaysNewer == Spec => []NextIsNewer
<1>1. IInv => NextIsNewer
  <2> SUFFICES ASSUME IInv, ~Exhausted PROVE VersionLess(seen, NowVersion)
    BY DEF NextIsNewer
  <2>1. /\ last \in Version /\ seen \in Version /\ NowVersion \in Version
        /\ ~VersionLess(last, seen) /\ VersionLess(last, NowVersion)
    BY NowNewer DEF IInv, TypeOK, NothingAhead
  <2> QED  BY <2>1, VersionOrder, VersionTotal
<1> QED  BY <1>1, Invariance, PTL

\* The promise of hlc.go:78: no peer drives the clock past the skew.
THEOREM ClockNeverRunsAway == Spec => []ClockBounded
<1>1. IInv => ClockBounded
  BY DEF IInv
<1> QED  BY <1>1, Invariance, PTL
=============================================================================
