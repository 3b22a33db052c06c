----------------------------- MODULE MCPeerManager -----------------------------
(* Instances of PeerManager with two nodes: both at our height (publishing),   *)
(* both one block ahead (syncing), or one of them ahead of the other.          *)
EXTENDS PeerManager, TLC

CONSTANTS p1, p2

Level  == [p \in Peers |-> StartHeight]
Ahead  == [p \in Peers |-> StartHeight + 1]
Uneven == [p \in Peers |-> StartHeight + IF p = p1 THEN 2 ELSE 1]

\* the instances that use it treat all nodes alike
Symmetry == Permutations(Peers)
================================================================================
