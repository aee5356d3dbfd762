----------------------------- MODULE MCTTLWheel -----------------------------
(***************************************************************************)
(* A wheel of three slots whose horizon is longer than two turns, with     *)
(* deadlines in the past, between ticks, on a tick, and on a multiple of   *)
(* the wheel's size.                                                       *)
(***************************************************************************)
EXTENDS TTLWheel

MCDeadlines == {-1} \union 1..14
=============================================================================
