---------------------------- MODULE MCMembership ----------------------------
(***************************************************************************)
(* A subject and two observers; the subject contacts one of them, whose    *)
(* HLC runs ahead by 1, and the other contacts the subject.  In the second *)
(* assignment the subject's own HLC runs ahead, too, of node 3 by more     *)
(* than the suspicion timeout.                                             *)
(***************************************************************************)
EXTENDS Membership

MCSeeds == [n \in Nodes |-> CASE n = Subject -> {2} [] n = 2 -> {} [] n = 3 -> {1}]
MCLead == [n \in Nodes |-> IF n = 2 THEN 1 ELSE 0]
MCLeadOfSubject == [n \in Nodes |-> IF n = 3 THEN 0 ELSE 2]
=============================================================================
