---------------------------- MODULE MCHeaderChain ----------------------------
(* Instances of HeaderChain.  Main chain m0..m7; forks f2 (off m1, against a  *)
(* checkpoint at height 2), f3 and f4 (off m2); x3, a block with a wrong      *)
(* target; r0, r2, r3: the stubs of checkpoints m0, m2 and m3 as they look    *)
(* after a round trip through the database.  A configuration takes a part of  *)
(* these blocks; what a block links to may lie outside that part.             *)
EXTENDS HeaderChain

CONSTANTS m0, m1, m2, m3, m4, m5, m6, m7, f2, f3, f4, x3, r0, r2, r3, p, q, t

Parent(b) ==
    CASE b = m1 -> m0 [] b \in {m2, f2} -> m1 [] b \in {m3, f3, x3} -> m2 [] b = m4 -> m3
      [] b = m5 -> m4 [] b = m6 -> m5 [] b = m7 -> m6 [] b = f4 -> f3 [] OTHER -> NoBlock

MCPrev == [b \in Hash |-> IF Parent(b) \in Hash THEN Parent(b) ELSE NoBlock]
MCHeight == [b \in Hash |->
    CASE b \in {m0, r0} -> 0 [] b = m1 -> 1 [] b \in {m2, r2, f2} -> 2
      [] b \in {m3, r3, f3, x3} -> 3 [] b \in {m4, f4} -> 4 [] b = m5 -> 5
      [] b = m6 -> 6 [] OTHER -> 7]

\* ChainTo[n][b]: b and its ancestors, at most n links away
ChainTo[n \in 0..7] ==
    [b \in Hash |-> {b} \cup (IF n = 0 \/ MCPrev[b] = NoBlock THEN {} ELSE ChainTo[n - 1][MCPrev[b]])]
MCChain == ChainTo[7]

MCTxIn == [b \in Hash |-> IF b \in {m3, f4} THEN Txs ELSE {}]
MCBadTarget == Hash \cap {x3}
MCReparsed == [c \in Checkpoints |-> CASE c = m0 -> r0 [] c = m2 -> r2 [] c = m3 -> r3]
MCPeerLast == [r \in Peers |-> IF r = p THEN 3 ELSE 4]

\* every instance satisfies what the theorems on confirmations assume
ASSUME NetworkAssumption == ShortForks /\ MinedOnce
=============================================================================
