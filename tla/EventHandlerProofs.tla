------------------------- MODULE EventHandlerProofs -------------------------
(* Proofs about EventHandler: its types, and that its queue, scratch and lock *)
(* together are a first-in, first-out queue.                                  *)
EXTENDS EventHandler, SequenceTheorems, TLAPS

\* The thread that holds the lock, once it has left the loop too.
Holding == {"test", "check", "dequeue", "dispatch", "idle", "exit", "done"}
LockInv == \A th \in Thread : pc[th] \in Holding => lock = th
HandInv == \A th \in Thread : pc[th] = "dispatch" => scratch \in Event
Inv == TypeOK /\ LockInv /\ HandInv

LEMMA InitInv == Init => Inv
<1> SUFFICES ASSUME Init PROVE Inv
  OBVIOUS
<1>1. <<>> \in Seq(Event)
  BY EmptySeq
<1>2. TypeOK
  BY <1>1 DEF Init, TypeOK, Places
<1> QED
  BY <1>2 DEF Init, Inv, LockInv, HandInv, Holding

\* A step that moves one thread only keeps the lock with its holder.
LEMMA MoveKeeps ==
    ASSUME Inv, NEW th \in Thread, NEW place \in Places, Goto(th, place),
           \/ UNCHANGED lock /\ (place \in Holding => pc[th] \in Holding)
           \/ lock = NoThread /\ lock' = th
           \/ pc[th] \in Holding /\ lock' = NoThread /\ place \notin Holding,
           \/ UNCHANGED scratch /\ place # "dispatch"
           \/ scratch' \in Event /\ place = "dispatch" /\ pc[th] \in Holding
    PROVE  pc' \in [Thread -> Places] /\ LockInv' /\ HandInv'
<1>1. /\ pc \in [Thread -> Places] /\ pc' = [pc EXCEPT ![th] = place] /\ pc' \in [Thread -> Places]
      /\ NoThread \notin Thread
  BY EventAssumption DEF Inv, TypeOK, Goto
<1>2. LockInv'
  BY <1>1 DEF Inv, LockInv
<1>3. HandInv'
  BY <1>1 DEF Inv, HandInv, LockInv, Holding
<1> QED
  BY <1>1, <1>2, <1>3

LEMMA InvStep == ASSUME Inv, [Next]_vars PROVE Inv'
<1> USE DEF Inv
<1>0. TypeOK /\ pc \in [Thread -> Places]
  BY DEF TypeOK
<1>1. CASE UNCHANGED vars
  BY <1>1 DEF vars, TypeOK, LockInv, HandInv
<1>2. ASSUME NEW e \in Event, Enqueue(e) PROVE Inv'
  <2>1. pending' \in Seq(Event)
    BY <1>2, AppendProperties DEF Enqueue, TypeOK
  <2> QED BY <1>2, <2>1 DEF Enqueue, TypeOK, LockInv, HandInv
<1>3. CASE Signal
  <2>1. signals' \in Nat
    BY <1>3 DEF Signal, TypeOK
  <2>2. CASE UNCHANGED pc
    BY <1>3, <2>1, <2>2 DEF Signal, TypeOK, LockInv, HandInv
  <2>3. ASSUME NEW th \in Thread, pc' = [pc EXCEPT ![th] = "woken"], pc[th] \in Waits PROVE Inv'
    <3>1. pc' \in [Thread -> Places] /\ LockInv' /\ HandInv'
      BY <1>3, <2>3, MoveKeeps DEF Signal, Goto, Places, Holding
    <3> QED BY <1>3, <2>1, <3>1 DEF Signal, TypeOK
  <2> QED BY <1>3, <2>2, <2>3 DEF Signal
<1>4. CASE SetTimeoutDispatcher
  BY <1>4 DEF SetTimeoutDispatcher, TypeOK, LockInv, HandInv
<1>5. CASE Start
  <2>1. PICK th \in Thread : Goto(th, "new")
    BY <1>5 DEF Start, Goto
  <2>2. pc' \in [Thread -> Places] /\ LockInv' /\ HandInv'
    BY <1>5, <2>1, MoveKeeps DEF Start, Places, Holding
  <2> QED BY <1>5, <2>2 DEF Start, TypeOK
<1>6. CASE Stop
  BY <1>6 DEF Stop, TypeOK, LockInv, HandInv
<1>7. ASSUME NEW th \in Thread, Run(th) \/ SpuriousWakeup(th) PROVE Inv'
  <2>1. CASE Begin(th)
    <3>1. pc' \in [Thread -> Places] /\ LockInv' /\ HandInv'
      BY <2>1, MoveKeeps DEF Begin, Acquire, Places, Holding
    <3> QED BY <2>1, <3>1 DEF Begin, Acquire, TypeOK
  <2>2. CASE Test(th)
    <3>1. PICK place \in {"check", "exit"} : Goto(th, place)
      BY <2>2 DEF Test
    <3>2. pc' \in [Thread -> Places] /\ LockInv' /\ HandInv'
      BY <2>2, <3>1, MoveKeeps DEF Test, Places, Holding
    <3> QED BY <2>2, <3>2 DEF Test, TypeOK
  <2>3. CASE Check(th)
    <3>1. PICK place \in {"dequeue", "idle"} : Goto(th, place)
      BY <2>3 DEF Check, PendingPlace
    <3>2. pc' \in [Thread -> Places] /\ LockInv' /\ HandInv'
      BY <2>3, <3>1, MoveKeeps DEF Check, Places, Holding
    <3> QED BY <2>3, <3>2 DEF Check, TypeOK
  <2>4. CASE Dequeue(th)
    <3>1. CASE pending # <<>> /\ scratch' = Head(pending) /\ pending' = Tail(pending) /\ Goto(th, "dispatch")
      <4>1. scratch' \in Event /\ pending' \in Seq(Event)
        BY <3>1, HeadTailProperties DEF TypeOK
      <4>2. pc' \in [Thread -> Places] /\ LockInv' /\ HandInv'
        BY <2>4, <3>1, <4>1, MoveKeeps DEF Dequeue, Places, Holding
      <4> QED BY <2>4, <4>1, <4>2 DEF Dequeue, TypeOK
    <3>2. CASE Goto(th, "test") /\ UNCHANGED <<scratch, pending>>
      <4>1. pc' \in [Thread -> Places] /\ LockInv' /\ HandInv'
        BY <2>4, <3>2, MoveKeeps DEF Dequeue, Places, Holding
      <4> QED BY <2>4, <3>2, <4>1 DEF Dequeue, TypeOK
    <3> QED BY <2>4, <3>1, <3>2 DEF Dequeue
  <2>5. CASE Dispatch(th)
    <3>1. handled' \in Seq(Event)
      BY <2>5, AppendProperties DEF Dispatch, TypeOK, HandInv
    <3>2. pc' \in [Thread -> Places] /\ LockInv' /\ HandInv'
      BY <2>5, MoveKeeps DEF Dispatch, AfterDispatch, Places, Holding
    <3> QED BY <2>5, <3>1, <3>2 DEF Dispatch, TypeOK
  <2>6. CASE Wait(th)
    <3>1. PICK place \in Waits : Goto(th, place)
      BY <2>6 DEF Wait, WaitPlace, Waits
    <3>2. pc' \in [Thread -> Places] /\ LockInv' /\ HandInv'
      BY <2>6, <3>1, MoveKeeps DEF Wait, Waits, Places, Holding
    <3> QED BY <2>6, <3>2 DEF Wait, TypeOK
  <2>7. CASE Timeout(th) \/ SpuriousWakeup(th)
    <3>1. pc' \in [Thread -> Places] /\ LockInv' /\ HandInv'
      BY <2>7, MoveKeeps DEF Timeout, SpuriousWakeup, Places, Holding
    <3> QED BY <2>7, <3>1 DEF Timeout, SpuriousWakeup, TypeOK
  <2>8. CASE Relock(th)
    <3>1. pc' \in [Thread -> Places] /\ LockInv' /\ HandInv'
      BY <2>8, MoveKeeps DEF Relock, Acquire, Places, Holding
    <3> QED BY <2>8, <3>1 DEF Relock, Acquire, TypeOK
  <2>9. CASE Exit(th)
    <3>1. pc' \in [Thread -> Places] /\ LockInv' /\ HandInv'
      BY <2>9, MoveKeeps DEF Exit, Places, Holding
    <3> QED BY <2>9, <3>1 DEF Exit, TypeOK
  <2> QED BY <1>7, <2>1, <2>2, <2>3, <2>4, <2>5, <2>6, <2>7, <2>8, <2>9 DEF Run
<1> QED
  BY <1>1, <1>2, <1>3, <1>4, <1>5, <1>6, <1>7 DEF Next

\* The state of a handler has its types, for any number of threads and events.
THEOREM HandlerTypeCorrect == Spec => []TypeOK
<1>1. Inv /\ [Next]_vars => Inv'
  BY InvStep
<1>2. Inv => TypeOK
  BY DEF Inv
<1> QED
  BY <1>1, <1>2, InitInv, PTL DEF Spec

-----------------------------------------------------------------------------
(* The refinement                                                           *)

LEMMA EnqueueAppends ==
    ASSUME NEW s \in Seq(Event), NEW t \in Seq(Event), NEW u \in Seq(Event), NEW e \in Event
    PROVE  s \o (t \o Append(u, e)) = Append(s \o (t \o u), e)
<1>1. <<e>> \in Seq(Event) /\ t \o u \in Seq(Event) /\ s \o (t \o u) \in Seq(Event)
  BY ConcatProperties
<1>2. t \o (u \o <<e>>) = (t \o u) \o <<e>>
  BY <1>1, ConcatAssociative
<1>3. s \o ((t \o u) \o <<e>>) = (s \o (t \o u)) \o <<e>>
  BY <1>1, ConcatAssociative
<1>4. Append(u, e) = u \o <<e>> /\ Append(s \o (t \o u), e) = (s \o (t \o u)) \o <<e>>
  BY <1>1, AppendIsConcat
<1> QED
  BY <1>1, <1>2, <1>3, <1>4

LEMMA HeadFirst ==
    ASSUME NEW S, NEW u \in Seq(S), u # <<>>
    PROVE  <<Head(u)>> \o Tail(u) = <<>> \o u
<1> DEFINE e == Head(u)  v == Tail(u)
<1>1. /\ e \in S /\ v \in Seq(S) /\ Len(v) = Len(u) - 1 /\ e = u[1]
      /\ \A i \in 1 .. Len(v) : v[i] = u[i + 1]
  BY HeadTailProperties
<1>2. <<>> \o u = u /\ Len(u) \in Nat
  BY ConcatEmptySeq, LenProperties
<1> HIDE DEF e, v
<1>3. <<e>> \in Seq(S) /\ Len(<<e>>) = 1 /\ <<e>>[1] = e
  BY <1>1
<1>4. <<e>> \o v \in Seq(S) /\ Len(<<e>> \o v) = Len(u)
  <2>1. <<e>> \o v \in Seq(S) /\ Len(<<e>> \o v) = 1 + Len(v)
    BY <1>1, <1>3, ConcatProperties
  <2> QED BY <1>1, <1>2, <2>1
<1>5. ASSUME NEW i \in 1 .. Len(u) PROVE (<<e>> \o v)[i] = u[i]
  <2>1. i \in 1 .. Len(<<e>>) + Len(v)
    BY <1>1, <1>2, <1>3
  <2>2. CASE i = 1
    <3>1. (<<e>> \o v)[i] = <<e>>[i]
      BY <1>1, <1>3, <2>1, <2>2, ConcatProperties
    <3> QED BY <1>1, <1>3, <2>2, <3>1
  <2>3. CASE i # 1
    <3>1. i - 1 \in 1 .. Len(v) /\ ~ (i <= Len(<<e>>)) /\ i - Len(<<e>>) = i - 1 /\ (i - 1) + 1 = i
      BY <1>1, <1>2, <1>3, <2>3
    <3>2. (<<e>> \o v)[i] = v[i - Len(<<e>>)]
      BY <1>1, <1>3, <2>1, <3>1, ConcatProperties
    <3>3. v[i - 1] = u[(i - 1) + 1]
      BY <1>1, <3>1
    <3> QED BY <3>1, <3>2, <3>3
  <2> QED BY <2>2, <2>3
<1>6. <<e>> \o v = u
  BY <1>4, <1>5, SeqEqual
<1> QED
  BY <1>2, <1>6 DEF e, v

LEMMA DispatchNext ==
    ASSUME NEW S, NEW s \in Seq(S), NEW u \in Seq(S), NEW e \in S
    PROVE  /\ Append(s, e) \o (<<>> \o u) = s \o (<<e>> \o u)
           /\ Len(s) < Len(s \o (<<e>> \o u))
           /\ (s \o (<<e>> \o u))[Len(s) + 1] = e
<1>1. /\ <<e>> \in Seq(S) /\ Len(<<e>>) = 1 /\ <<e>>[1] = e /\ Append(s, e) = s \o <<e>>
      /\ <<>> \o u = u /\ Len(s) \in Nat /\ Len(u) \in Nat
  BY AppendIsConcat, ConcatEmptySeq, LenProperties
<1>2. (s \o <<e>>) \o u = s \o (<<e>> \o u)
  BY <1>1, ConcatAssociative
<1>3. <<e>> \o u \in Seq(S) /\ Len(<<e>> \o u) = 1 + Len(u) /\ (<<e>> \o u)[1] = e
  BY <1>1, ConcatProperties
<1>4. Len(s \o (<<e>> \o u)) = Len(s) + (1 + Len(u))
  BY <1>1, <1>3, ConcatProperties
<1>5. Len(s) + 1 \in 1 .. Len(s) + Len(<<e>> \o u) /\ ~ (Len(s) + 1 <= Len(s)) /\ (Len(s) + 1) - Len(s) = 1
  BY <1>1, <1>3
<1>6. (s \o (<<e>> \o u))[Len(s) + 1] = (<<e>> \o u)[(Len(s) + 1) - Len(s)]
  BY <1>3, <1>5, ConcatProperties
<1> QED
  BY <1>1, <1>2, <1>3, <1>4, <1>5, <1>6

LEMMA InHandType == ASSUME Inv PROVE InHand \in Seq(Event)
<1>1. CASE \E th \in Thread : pc[th] = "dispatch"
  <2>1. InHand = <<scratch>> /\ scratch \in Event
    BY <1>1 DEF Inv, HandInv, InHand
  <2> QED BY <2>1
<1>2. CASE ~\E th \in Thread : pc[th] = "dispatch"
  BY <1>2, EmptySeq DEF InHand
<1> QED
  BY <1>1, <1>2

\* A step that neither enters nor leaves the dispatch.
LEMMA HandStays ==
    ASSUME Inv, NEW th \in Thread, NEW place \in Places, Goto(th, place), place # "dispatch",
           pc[th] # "dispatch", UNCHANGED <<scratch, pending, handled>>
    PROVE  UNCHANGED HandledInOrder!vars
<1>1. pc \in [Thread -> Places] /\ pc' = [pc EXCEPT ![th] = place]
  BY DEF Inv, TypeOK, Goto
<1>2. (\E u \in Thread : pc'[u] = "dispatch") <=> (\E u \in Thread : pc[u] = "dispatch")
  BY <1>1
<1>3. InHand' = InHand
  BY <1>2 DEF InHand
<1> QED
  BY <1>3 DEF HandledInOrder!vars, Announced

LEMMA StepRefines == ASSUME Inv, Inv', [Next]_vars PROVE [HandledInOrder!Next]_(HandledInOrder!vars)
<1>0. /\ pending \in Seq(Event) /\ handled \in Seq(Event) /\ pc \in [Thread -> Places]
      /\ InHand \in Seq(Event)
  BY InHandType DEF Inv, TypeOK
<1>1. CASE UNCHANGED <<pc, scratch, pending, handled>>
  BY <1>1 DEF HandledInOrder!vars, Announced, InHand
<1>2. ASSUME NEW e \in Event, Enqueue(e) PROVE HandledInOrder!Next
  <2>1. InHand' = InHand /\ pending' = Append(pending, e) /\ handled' = handled
    BY <1>2 DEF Enqueue, InHand
  <2>2. Announced' = Append(Announced, e)
    <3>1. handled \o (InHand \o Append(pending, e)) = Append(handled \o (InHand \o pending), e)
      BY <1>0, EnqueueAppends
    <3> QED BY <2>1, <3>1 DEF Announced
  <2> QED BY <2>1, <2>2 DEF HandledInOrder!Next, HandledInOrder!Announce
<1>3. CASE Signal
  <2>1. ASSUME NEW th \in Thread, pc' = [pc EXCEPT ![th] = "woken"], pc[th] \in Waits
        PROVE  UNCHANGED HandledInOrder!vars
    BY <1>3, <2>1, HandStays DEF Signal, Goto, Places, Waits
  <2> QED BY <1>1, <1>3, <2>1 DEF Signal
<1>4. CASE SetTimeoutDispatcher \/ Stop
  BY <1>1, <1>4 DEF SetTimeoutDispatcher, Stop
<1>5. CASE Start
  BY <1>5, HandStays DEF Start, Goto, Places
<1>6. ASSUME NEW th \in Thread, Run(th) \/ SpuriousWakeup(th)
      PROVE  [HandledInOrder!Next]_(HandledInOrder!vars)
  <2>1. CASE Begin(th) \/ Relock(th) \/ Exit(th) \/ Timeout(th) \/ SpuriousWakeup(th)
    BY <2>1, HandStays DEF Begin, Relock, Exit, Timeout, SpuriousWakeup, Places
  <2>2. CASE Test(th) \/ Check(th) \/ Wait(th)
    <3>1. \E place \in {"check", "exit", "dequeue", "idle", "wait", "timedwait"} : Goto(th, place)
      BY <2>2 DEF Test, Check, PendingPlace, Wait, WaitPlace
    <3>2. pc[th] # "dispatch" /\ UNCHANGED <<scratch, pending, handled>>
      BY <2>2 DEF Test, Check, Wait
    <3> QED BY <3>1, <3>2, HandStays DEF Places, Waits
  <2>3. CASE Dequeue(th)
    <3>1. \A u \in Thread : pc[u] # "dispatch"
      BY <2>3 DEF Dequeue, Inv, LockInv, Holding
    <3>2. CASE pending = <<>> /\ Goto(th, "test") /\ UNCHANGED <<scratch, pending>>
      BY <2>3, <3>1, <3>2, HandStays DEF Dequeue, Places
    <3>3. CASE pending # <<>> /\ scratch' = Head(pending) /\ pending' = Tail(pending) /\ Goto(th, "dispatch")
      <4>1. InHand = <<>> /\ InHand' = <<Head(pending)>>
        BY <1>0, <3>1, <3>3 DEF InHand, Goto
      <4>2. Announced' = Announced
        BY <1>0, <2>3, <3>3, <4>1, HeadFirst DEF Announced, Dequeue
      <4> QED BY <2>3, <4>2 DEF Dequeue, HandledInOrder!vars
    <3> QED BY <2>3, <3>2, <3>3 DEF Dequeue
  <2>4. CASE Dispatch(th)
    <3>1. \A u \in Thread : u # th => pc[u] # "dispatch"
      BY <2>4 DEF Dispatch, Inv, LockInv, Holding
    <3>2. InHand = <<scratch>> /\ InHand' = <<>> /\ scratch \in Event
      <4>1. pc' = [pc EXCEPT ![th] = "test"] /\ pc[th] = "dispatch"
        BY <2>4 DEF Dispatch, AfterDispatch, Goto
      <4>2. \A u \in Thread : pc'[u] # "dispatch"
        BY <1>0, <3>1, <4>1
      <4> QED BY <4>1, <4>2 DEF InHand, Inv, HandInv
    <3>3. /\ Announced' = Announced /\ Len(handled) < Len(Announced)
          /\ Announced[Len(handled) + 1] = scratch
      BY <1>0, <2>4, <3>2, DispatchNext DEF Announced, Dispatch
    <3> QED BY <2>4, <3>3 DEF Dispatch, HandledInOrder!Next, HandledInOrder!Handle
  <2> QED BY <1>6, <2>1, <2>2, <2>3, <2>4 DEF Run
<1> QED
  <2>1. CASE UNCHANGED vars
    BY <1>1, <2>1 DEF vars
  <2> QED BY <1>2, <1>3, <1>4, <1>5, <1>6, <2>1 DEF Next

\* The handler implements the queue that BREvent.h promises: every event is handled
\* at most once and in the order of the queue, by any number of threads.
THEOREM HandlerIsFifo == Spec => FirstInFirstOut
<1>1. Init => HandledInOrder!Init
  <2> SUFFICES ASSUME Init PROVE HandledInOrder!Init
    OBVIOUS
  <2>1. InHand = <<>> /\ pending = <<>> /\ handled = <<>>
    BY DEF Init, InHand
  <2>2. <<>> \o (<<>> \o <<>>) = <<>>
    BY ConcatEmptySeq, EmptySeq
  <2> QED BY <2>1, <2>2 DEF HandledInOrder!Init, Announced
<1>2. Inv /\ [Next]_vars => Inv'
  BY InvStep
<1>3. Inv /\ Inv' /\ [Next]_vars => [HandledInOrder!Next]_(HandledInOrder!vars)
  BY StepRefines
<1> QED
  BY <1>1, <1>2, <1>3, InitInv, PTL DEF Spec, FirstInFirstOut, HandledInOrder!Spec
=============================================================================
