----------------------------- MODULE MCService -----------------------------
(***************************************************************************)
(* One instance, two requests at a time, a peer and the node's goroutines. *)
(***************************************************************************)
EXTENDS Service, TLC

Symmetry == Permutations(Threads)
=============================================================================
