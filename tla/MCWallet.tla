------------------------------ MODULE MCWallet ------------------------------
(* An instance of Wallet.  g pays the first and the second receive address;   *)
(* a spends one of these coins and has change; d, replaceable, spends both    *)
(* and pays someone else; c spends a's change without change of its own and   *)
(* is locked until block 3.                                                   *)
EXTENDS Wallet

CONSTANTS g, a, d, c, g0, g1, a0, d0, c0

MCTxOf == [o \in Output |-> CASE o \in {g0, g1} -> g [] o = a0 -> a [] o = d0 -> d [] o = c0 -> c]
MCAddressOf == [o \in Output |->
    CASE o = g0 -> [chain |-> "external", index |-> 0]
      [] o = g1 -> [chain |-> "external", index |-> 1]
      [] o = a0 -> [chain |-> "internal", index |-> 0]
      [] o \in {c0, d0} -> Foreign]
MCInputs == [t \in Tx |-> CASE t = a -> {g0} [] t = d -> {g0, g1} [] t = c -> {a0} [] t = g -> {}]
MCLockHeight == [t \in Tx |-> IF t = c THEN 2 ELSE 0]
MCGapLimit == [k \in Chains |-> 1]
=============================================================================
