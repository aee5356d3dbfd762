---------------------------- MODULE MCEventRing ----------------------------
(***************************************************************************)
(* Two subscribers, a ring that overflows and channels that fill up.       *)
(***************************************************************************)
EXTENDS EventRing, TLC

Symmetry == Permutations(Subscribers)
=============================================================================
