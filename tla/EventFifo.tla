----------------------------- MODULE EventFifo -----------------------------
(* What BREvent.h promises of an event handler: it "will queue the event and  *)
(* handle it [...] in a strict 'first-in, first-out' basis".  No event is     *)
(* lost, repeated or overtaken, by however many threads they are handled.     *)
EXTENDS Naturals, Sequences

CONSTANT Event
VARIABLES
    announced,  \* every event that was ever queued, in the order of the queue
    handled     \* those that were handled, in that order

vars == <<announced, handled>>

Init == announced = <<>> /\ handled = <<>>

Announce(e) ==
    /\ announced' = Append(announced, e)
    /\ UNCHANGED handled

Handle ==
    /\ Len(handled) < Len(announced)
    /\ handled' = Append(handled, announced[Len(handled) + 1])
    /\ UNCHANGED announced

Next == (\E e \in Event : Announce(e)) \/ Handle

Spec == Init /\ [][Next]_vars
=============================================================================
