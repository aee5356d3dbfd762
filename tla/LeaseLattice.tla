---------------------------- MODULE LeaseLattice ----------------------------
(***************************************************************************)
(* What a registry promises about one node's view of every instance: the   *)
(* view is the highest stamp it has learnt, it only ever climbs, and an    *)
(* instance is discoverable exactly while that stamp is a live one.        *)
(* Tombstones, fences, collection and DELAYED are invisible here.          *)
(***************************************************************************)
EXTENDS Leases

CONSTANT Keys

VARIABLES top,         \* top[k]: the highest stamp learnt of k, or None
          discoverable \* the keys that Discover returns

IsLive(s) == s # None /\ s.kind \in LiveKinds

Init ==
    /\ top = [k \in Keys |-> None]
    /\ discoverable = {}

Climb(k) ==
    /\ top'[k] \in Stamp
    /\ AtLeast(top'[k], top[k])
    /\ top' = [top EXCEPT ![k] = top'[k]]
    /\ discoverable' = {j \in Keys : IsLive(top'[j])}

Next == \E k \in Keys : Climb(k)

Spec == Init /\ [][Next]_<<top, discoverable>>
=============================================================================
