---------------------------- MODULE MCDashboard ----------------------------
(***************************************************************************)
(* One instance, a ring of one event, and a console behind a proxy that    *)
(* lets WebSockets through or does not.                                    *)
(***************************************************************************)
EXTENDS Dashboard

CONSTANT web
MCServiceOf == [k \in Keys |-> web]
=============================================================================
