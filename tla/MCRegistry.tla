---------------------------- MODULE MCRegistry ----------------------------
(***************************************************************************)
(* One instance re-registered once, through two nodes, and a second        *)
(* instance that only registers and expires.  The mutations hold a stale   *)
(* heartbeat, a heartbeat after a TTL eviction, a termination stamped      *)
(* before the heartbeat it overtakes, two mutations with one version (a    *)
(* node that restarted with its clock behind), a retried operation ID and  *)
(* the re-export of a DELAYED record.                                      *)
(***************************************************************************)
EXTENDS Registry

V(p, o) == [physical |-> p, logical |-> 0, origin |-> o]

M(key, lease, epoch, kind, version, event, op, at) ==
    [key |-> key, lease |-> lease, op |-> op, at |-> at,
     remaining |-> IF kind \in LiveKinds THEN 1 ELSE 0,
     stamp |-> [epoch |-> epoch, version |-> version, kind |-> kind,
                eventID |-> event]]

A == V(1, 1)
B == V(3, 2)

MCMutations == {
    M("k1", "leaseA", A, "REGISTER",   A,       11, NoOp,  0),
    M("k1", "leaseA", A, "HEARTBEAT",  V(4, 1), 8,  "op1", 0),
    M("k1", "leaseA", A, "HEARTBEAT",  V(4, 1), 8,  NoOp,  1),
    M("k1", "leaseA", A, "TTL_EXPIRE", V(4, 1), 7,  NoOp,  0),
    M("k1", "leaseA", A, "HEARTBEAT",  V(5, 2), 9,  "op2", 0),
    M("k1", "leaseA", A, "DEREGISTER", V(2, 1), 6,  "op3", 0),
    M("k1", "leaseB", B, "REGISTER",   B,       5,  NoOp,  0),
    M("k1", "leaseB", B, "HEARTBEAT",  V(6, 1), 10, "op4", 1),
    M("k1", "leaseB", B, "DEMO_OFFLINE", V(7, 1), 4, NoOp, 1),
    M("k2", "leaseC", A, "REGISTER",   A,       3,  NoOp,  0),
    M("k2", "leaseC", A, "TTL_EXPIRE", V(2, 2), 2,  NoOp,  0) }

MCShards == {{"k1"}, {"k2"}}
=============================================================================
