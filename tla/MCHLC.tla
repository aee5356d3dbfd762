------------------------------- MODULE MCHLC -------------------------------
(***************************************************************************)
(* A clock whose counters are small enough to overflow, with peers on both *)
(* sides of its node ID that send every representable version.             *)
(***************************************************************************)
EXTENDS HLC

MCRemotes == [physical : 1..MaxPhysical, logical : 0..MaxLogical, origin : {1, 3}]
=============================================================================
