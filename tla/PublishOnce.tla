------------------------------ MODULE PublishOnce ------------------------------
(***************************************************************************)
(* What BRPeerManagerPublishTx promises of its callback: each transaction   *)
(* is answered at most once, and only after it was published.  A refusal    *)
(* is a publication and its answer in one step.                            *)
(***************************************************************************)
CONSTANT Txs
VARIABLE publication   \* "no", "waiting" or "answered"; "twice" must not be

Init == publication = [t \in Txs |-> "no"]

Publish(t) ==
    /\ publication[t] = "no"
    /\ \E outcome \in {"waiting", "answered"} :
          publication' = [publication EXCEPT ![t] = outcome]

\* a peer's disconnection may answer several
Answer(T) ==
    /\ \A t \in T : publication[t] = "waiting"
    /\ publication' = [t \in Txs |-> IF t \in T THEN "answered" ELSE publication[t]]

Next == (\E t \in Txs : Publish(t)) \/ (\E T \in SUBSET Txs : Answer(T))

Spec == Init /\ [][Next]_publication
================================================================================
