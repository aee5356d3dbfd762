------------------------------- MODULE Leases -------------------------------
(***************************************************************************)
(* Values shared by every component (internal/model): HLC versions, the    *)
(* kinds of mutation, and the stamp by which two states of one instance    *)
(* are compared.  A stamp is what registry.compareIncoming and the three   *)
(* fence comparators look at: lease epoch, kind, version and event ID.     *)
(*                                                                         *)
(* Node and event IDs are naturals: the code compares the strings in byte  *)
(* order, and only that order matters.                                     *)
(***************************************************************************)
EXTENDS Integers

CONSTANT None   \* the absence of a stamp, an entry or a fence

Version == [physical : Nat, logical : Nat, origin : Nat]

\* model.CompareVersion(a, b) < 0: physical, then logical, then origin.
VersionLess(a, b) ==
    \/ a.physical < b.physical
    \/ /\ a.physical = b.physical
       /\ \/ a.logical < b.logical
          \/ a.logical = b.logical /\ a.origin < b.origin

-----------------------------------------------------------------------------
LiveKinds == {"REGISTER", "HEARTBEAT"}
TerminalKinds == {"DEREGISTER", "DEMO_OFFLINE"}
EvictingKinds == TerminalKinds \union {"TTL_EXPIRE"}

\* MutationDelayed is a legal wire value that no code path produces: DELAYED
\* is set in place by MarkDelayed and exported as the live mutation below it.
Kinds == LiveKinds \union EvictingKinds

ExplicitlyTerminal(kind) == kind \in TerminalKinds

Priority(kind) ==
    CASE kind \in TerminalKinds -> 4
      [] kind = "TTL_EXPIRE"    -> 3
      [] kind = "HEARTBEAT"     -> 2
      [] kind = "REGISTER"      -> 1

\* validateMutationState: the status a mutation of this kind must carry.
StatusOf(kind) == IF kind \in LiveKinds THEN "ACTIVE" ELSE "EVICTED"

-----------------------------------------------------------------------------
Stamp == [epoch : Version, version : Version, kind : Kinds, eventID : Nat]

\* The order all four comparators of registry/apply.go share: newer epoch,
\* explicit termination, newer version, priority of the kind, event ID.
Outranks(a, b) ==
    \/ VersionLess(b.epoch, a.epoch)
    \/ /\ a.epoch = b.epoch
       /\ \/ ExplicitlyTerminal(a.kind) /\ ~ExplicitlyTerminal(b.kind)
          \/ /\ ExplicitlyTerminal(a.kind) <=> ExplicitlyTerminal(b.kind)
             /\ \/ VersionLess(b.version, a.version)
                \/ /\ a.version = b.version
                   /\ \/ Priority(a.kind) > Priority(b.kind)
                      \/ /\ Priority(a.kind) = Priority(b.kind)
                         /\ a.eventID > b.eventID

ASSUME NoneAssumption == None \notin Stamp

\* Two stamps, or the absence of one, in the order of the registry.
AtLeast(a, b) ==
    \/ b = None
    \/ a = b
    \/ a # None /\ Outranks(a, b)
=============================================================================
