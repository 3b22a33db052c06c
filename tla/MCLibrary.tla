------------------------------- MODULE MCLibrary -------------------------------
(***************************************************************************)
(* The core library on a small instance: either a hash set that is changed  *)
(* step by step, or one input of a format or an algorithm.                  *)
(***************************************************************************)
EXTENDS HashSet, Algorithms

CONSTANTS item1, item2, item3, item4

Kinds == CodecKinds \union AlgorithmKinds \union SealingKinds

MCInit ==
    \/ Init /\ input = NoInput
    \/ /\ input \in {Unread(k) : k \in Kinds}
       /\ set = New(0)
       /\ hash = [k \in Keys |-> 0]

Change ==
    /\ input = NoInput
    /\ Next
    /\ UNCHANGED input

Take(Of(_), kinds) ==
    /\ input.kind = "unread"
    /\ input.of \in kinds
    /\ input' \in Of(input.of)
    /\ UNCHANGED <<set, hash>>

MCNext ==
    \/ Change
    \/ Take(CodecInputs, CodecKinds)
    \/ Take(AlgorithmInputs, AlgorithmKinds)
    \/ Take(SealingInputs, SealingKinds)

MCSpec == MCInit /\ [][MCNext]_<<set, hash, input>>
================================================================================
