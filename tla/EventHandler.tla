---------------------------- MODULE EventHandler ----------------------------
(***************************************************************************)
(* An event handler (BREvent.c) and its queue (BREventQueue.c), as the     *)
(* Ethereum light node uses one to call its listeners: any thread signals  *)
(* events, and the handler's thread dispatches them.                       *)
(*                                                                         *)
(* The handler's thread holds handler->lock except while it waits on the   *)
(* condition variable.  The queue has a lock of its own, a copy of the     *)
(* handler's made when nobody held it (BREventQueue.c:64), so signalling   *)
(* never waits for the handler: a queue operation is one step here, and    *)
(* pthread_cond_signal another, at any later time.                         *)
(***************************************************************************)
EXTENDS Integers, SequencesExt

CONSTANTS
    Event,      \* events, each signalled once
    Thread,     \* the threads that eventHandlerStart may create
    NoThread,   \* no owner of the lock
    NoEvent,    \* an empty scratch
    CanStop,    \* whether eventHandlerStop is called
    CanTime     \* whether a timeout dispatcher may be set

ASSUME EventAssumption ==
    /\ IsFiniteSet(Event) /\ NoEvent \notin Event
    /\ IsFiniteSet(Thread) /\ NoThread \notin Thread
    /\ CanStop \in BOOLEAN /\ CanTime \in BOOLEAN

VARIABLES
    status,     \* handler->status; eventHandlerStart and Stop use it without the lock
    lock,       \* the thread that holds handler->lock, or NoThread
    timed,      \* handler->timeoutDispatcher is set
    pending,    \* queue->pending
    scratch,    \* handler->scratch
    signals,    \* callers that are about to call pthread_cond_signal
    pc,         \* pc[th]: where th is in eventHandlerThread
    handled     \* the events dispatched so far, for the properties

vars == <<status, lock, timed, pending, scratch, signals, pc, handled>>

Waits == {"wait", "timedwait"}
Places == {"none", "new", "test", "check", "dequeue", "dispatch", "idle", "woken", "exit", "done"} \cup Waits

TypeOK ==
    /\ status \in {"starting", "running", "stopping", "stopped"}
    /\ lock \in Thread \cup {NoThread} /\ timed \in BOOLEAN
    /\ pending \in Seq(Event) /\ handled \in Seq(Event)
    /\ scratch \in Event \cup {NoEvent} /\ signals \in Nat
    /\ pc \in [Thread -> Places]

-----------------------------------------------------------------------------
(* Callers                                                                  *)

\* every event that was queued, in the order of the queue
InHand == IF \E th \in Thread : pc[th] = "dispatch" THEN <<scratch>> ELSE <<>>
Announced == handled \o (InHand \o pending)

\* eventHandlerSignalEvent: queue first, then signal
Enqueue(e) ==
    /\ e \notin Range(Announced)
    /\ pending' = Append(pending, e)
    /\ signals' = signals + 1
    /\ UNCHANGED <<status, lock, timed, scratch, pc, handled>>

\* wakes one of the waiting threads, if there is one: a signal is not kept
Signal ==
    /\ signals > 0 /\ signals' = signals - 1
    /\ LET waiting == {th \in Thread : pc[th] \in Waits} IN
       \/ \E th \in waiting : pc' = [pc EXCEPT ![th] = "woken"]
       \/ waiting = {} /\ UNCHANGED pc
    /\ UNCHANGED <<status, lock, timed, pending, scratch, handled>>

\* the assignment takes handler->lock; the signal follows
SetTimeoutDispatcher ==
    /\ CanTime /\ ~timed /\ lock = NoThread
    /\ timed' = TRUE /\ signals' = signals + 1
    /\ UNCHANGED <<status, lock, pending, scratch, pc, handled>>

\* a new thread even if the one that was told to stop has not ended
Start ==
    /\ status \in {"stopped", "stopping"}
    /\ status' = "starting"
    /\ \E th \in Thread : pc[th] = "none" /\ pc' = [pc EXCEPT ![th] = "new"]
    /\ UNCHANGED <<lock, timed, pending, scratch, signals, handled>>

\* tells nobody: a waiting thread goes on waiting
Stop ==
    /\ CanStop /\ status \in {"running", "starting"}
    /\ status' = "stopping"
    /\ UNCHANGED <<lock, timed, pending, scratch, signals, pc, handled>>

-----------------------------------------------------------------------------
(* eventHandlerThread                                                       *)

Goto(th, place) == pc' = [pc EXCEPT ![th] = place]

\* wrong on purpose: does not wait for the owner
Barge(th) == lock' = th
Acquire(th) == lock = NoThread /\ lock' = th

Begin(th) ==
    /\ pc[th] = "new" /\ Acquire(th)
    /\ status' = "running" /\ Goto(th, "test")
    /\ UNCHANGED <<timed, pending, scratch, signals, handled>>

\* while (EVENT_HANDLER_THREAD_STATUS_RUNNING == handler->status)
Test(th) ==
    /\ pc[th] = "test"
    /\ Goto(th, IF status = "running" THEN "check" ELSE "exit")
    /\ UNCHANGED <<status, lock, timed, pending, scratch, signals, handled>>

\* eventQueueHasPending
\* wrong on purpose: dispatches what the scratch holds first
ScratchFirst == "dispatch"
PendingPlace == "dequeue"
Check(th) ==
    /\ pc[th] = "check"
    /\ Goto(th, IF pending # <<>> THEN PendingPlace ELSE "idle")
    /\ UNCHANGED <<status, lock, timed, pending, scratch, signals, handled>>

\* eventQueueDequeue copies the first event to the handler's one scratch
Dequeue(th) ==
    /\ pc[th] = "dequeue"
    /\ \/ /\ pending # <<>>
          /\ scratch' = Head(pending) /\ pending' = Tail(pending)
          /\ Goto(th, "dispatch")
       \/ /\ pending = <<>>
          /\ Goto(th, "test") /\ UNCHANGED <<scratch, pending>>
    /\ UNCHANGED <<status, lock, timed, signals, handled>>

\* wrong on purpose: one event for each time the thread is woken
AfterOneEvent == "idle"
AfterDispatch == "test"
Dispatch(th) ==
    /\ pc[th] = "dispatch"
    /\ handled' = Append(handled, scratch)
    /\ Goto(th, AfterDispatch)
    /\ UNCHANGED <<status, lock, timed, pending, scratch, signals>>

\* pthread_cond_wait and pthread_cond_timedwait release the lock
\* wrong on purpose: the dispatcher that was set when the thread began
UntimedPlace == "wait"
WaitPlace == IF timed THEN "timedwait" ELSE "wait"
Wait(th) ==
    /\ pc[th] = "idle"
    /\ lock' = NoThread /\ Goto(th, WaitPlace)
    /\ UNCHANGED <<status, timed, pending, scratch, signals, handled>>

\* the timeout, and a spurious wakeup, which the loop is safe against
Timeout(th) ==
    /\ pc[th] = "timedwait" /\ Goto(th, "woken")
    /\ UNCHANGED <<status, lock, timed, pending, scratch, signals, handled>>
SpuriousWakeup(th) ==
    /\ pc[th] = "wait" /\ Goto(th, "woken")
    /\ UNCHANGED <<status, lock, timed, pending, scratch, signals, handled>>

\* both waits return with the lock; the timeout dispatcher then runs
Relock(th) ==
    /\ pc[th] = "woken" /\ Acquire(th) /\ Goto(th, "test")
    /\ UNCHANGED <<status, timed, pending, scratch, signals, handled>>

\* handler->lock is not unlocked
Exit(th) ==
    /\ pc[th] = "exit"
    /\ status' = "stopped" /\ Goto(th, "done")
    /\ UNCHANGED <<lock, timed, pending, scratch, signals, handled>>

-----------------------------------------------------------------------------

\* eventHandlerCreate
Init ==
    /\ status = "stopped" /\ lock = NoThread /\ timed = FALSE
    /\ pending = <<>> /\ handled = <<>>
    /\ scratch = NoEvent /\ signals = 0
    /\ pc = [th \in Thread |-> "none"]

Run(th) ==
    \/ Begin(th) \/ Test(th) \/ Check(th) \/ Dequeue(th) \/ Dispatch(th)
    \/ Wait(th) \/ Timeout(th) \/ Relock(th) \/ Exit(th)

Next ==
    \/ \E e \in Event : Enqueue(e)
    \/ Signal \/ SetTimeoutDispatcher \/ Start \/ Stop
    \/ \E th \in Thread : Run(th) \/ SpuriousWakeup(th)

\* Threads that can run are scheduled, timeouts elapse, and a caller that has
\* queued an event goes on to its signal.  Nothing makes the callers call.
Spec == Init /\ [][Next]_vars /\ WF_vars(Signal) /\ \A th \in Thread : WF_vars(Run(th))

-----------------------------------------------------------------------------
(* Properties                                                               *)

\* Events are handled once each and in the order of the queue, also when the
\* handler is stopped and started again and two threads share the queue and the
\* scratch: the lock is held from the test to the dispatch.
HandledInOrder == INSTANCE EventFifo WITH announced <- Announced
FirstInFirstOut == HandledInOrder!Spec

\* With a timeout dispatcher every event is handled, as long as the handler is not
\* told to stop: a signal that came before the wait costs one timeout.
EventsHandledInTime ==
    <>[](status = "running" /\ timed) =>
        \A e \in Event : e \in Range(pending) ~> e \in Range(handled)

\* Without one, a signal that comes while the thread waits still has everything
\* that is queued handled.
WokenByNextSignal ==
    <>[](status = "running") =>
        ((signals > 0 /\ \E th \in Thread : pc[th] \in Waits) ~> pending = <<>>)
=============================================================================
