------------------------------ MODULE MCGossip ------------------------------
(***************************************************************************)
(* Two nodes, each the other's seed, and two instances in two shards: both *)
(* register at node 1; node 2 deregisters the first.                       *)
(***************************************************************************)
EXTENDS Gossip

V(p, o) == [physical |-> p, logical |-> 0, origin |-> o]

M(key, epoch, kind, version, event) ==
    [key |-> key, lease |-> key, op |-> NoOp, at |-> 0,
     remaining |-> IF kind \in LiveKinds THEN 1 ELSE 0,
     stamp |-> [epoch |-> epoch, version |-> version, kind |-> kind, eventID |-> event]]

MCMutations == {
    M("k1", V(1, 1), "REGISTER",   V(1, 1), 1),
    M("k2", V(2, 1), "REGISTER",   V(2, 1), 2),
    M("k1", V(1, 1), "DEREGISTER", V(3, 2), 3) }

\* The shard of k2 comes before that of k1.
MCOrder == [mutation |-> [k \in Keys |-> IF k = "k1" THEN 2 ELSE 1],
            fence    |-> [k \in Keys |-> IF k = "k1" THEN 1 ELSE 2]]
MCShards == {{"k1"}, {"k2"}}
\* Node 2's wall clock is behind for the second registration and its own call.
MCAhead == [n \in Nodes |-> IF n = 2 THEN {m \in Mutations : m.stamp.version.physical > 1}
                            ELSE {}]
MCSeeds == [n \in Nodes |-> Nodes \ {n}]
=============================================================================
