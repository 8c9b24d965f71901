---------------------------- MODULE RxFifoProofs ----------------------------
(***************************************************************************)
(* RX_Packet_Fifo is correct for any set of producers: proofs of the       *)
(* safety properties of module RxFifo.                                     *)
(*                                                                         *)
(* The properties speak of states where the lock is free, or of where the  *)
(* consumer is.  Inv adds to them what holds inside the critical sections: *)
(* who is in one holds the lock, what it has read of the deque is still so *)
(* (the lock keeps others from writing), and what _status is until it is   *)
(* set again.                                                              *)
(***************************************************************************)
EXTENDS RxFifo, SequenceTheorems, TLAPS

Locked == {"push", "setStatus", "unlock",
           "hasRead", "front", "pop", "popStatus", "popUnlock"}

(* Exactly the thread that holds the lock is in a critical section.        *)
Mutex == \A th \in Thread : pc[th] \in Locked <=> _RXlock = th

\* What a thread is about to change is what it has read.
EndsCurrent == \A th \in Thread : pc[th] \in {"push", "pop"} => ends[th] = packets

\* The consumer has been told of a packet: it is there.
Told ==
  pc[Consumer] \in {"waitStatus", "ready", "popLock", "front", "pop"}
    => packets # <<>>

\* _status is right but between a change of the deque and the next write.
StatusSettles ==
  /\ \A p \in Producer : pc[p] = "setStatus" => packets # <<>>
  /\ pc[Consumer] = "popStatus" => _status
  /\ (/\ pc[Consumer] # "popStatus"
      /\ \A p \in Producer : pc[p] # "setStatus") => (_status <=> packets # <<>>)

Inv ==
  /\ TypeOK
  /\ Mutex
  /\ EndsCurrent
  /\ Told
  /\ StatusSettles
  /\ FirstInFirstOut

-----------------------------------------------------------------------------
(* Sequences *)

\* What moves from the head of t to the end of s changes no order.
LEMMA HeadMoves ==
  ASSUME NEW S, NEW s \in Seq(S), NEW t \in Seq(S), t # <<>>
  PROVE  Append(s, Head(t)) \o Tail(t) = s \o t
<1> DEFINE e == <<Head(t)>>
<1>1. Head(t) \in S /\ Tail(t) \in Seq(S) /\ e \in Seq(S)
  BY HeadTailProperties
<1>2. t = e \o Tail(t)
  <2>1. Len(t) \in Nat \ {0}
    BY EmptySeq
  <2>2. SubSeq(t, 1, Len(t)) = <<t[1]>> \o SubSeq(t, 2, Len(t))
    BY <2>1, SubSeqRecursiveFirst, 1 \in 1 .. Len(t), Len(t) \in 1 .. Len(t)
  <2>3. Tail(t) = SubSeq(t, 2, Len(t)) /\ Head(t) = t[1]
    BY <2>1, TailIsSubSeq
  <2> QED
    BY <2>2, <2>3, SubSeqFull
<1>3. Append(s, Head(t)) = s \o e
  BY <1>1, AppendIsConcat
<1>4. (s \o e) \o Tail(t) = s \o (e \o Tail(t))
  BY <1>1, ConcatAssociative
<1> QED
  BY <1>2, <1>3, <1>4

-----------------------------------------------------------------------------
(* Inv is inductive *)

\* The FIFO is empty at first.
LEMMA InitInv == Init => Inv
<1> SUFFICES ASSUME Init PROVE Inv
  OBVIOUS
<1>1. TypeOK
  <2>1. <<>> \in Seq(Item)
    OBVIOUS
  <2> HIDE DEF Item
  <2>2. 0 \in 0 .. PushLimit
    BY FifoAssumption DEF FifoAssumption
  <2> QED
    BY <2>1, <2>2, FifoAssumption DEF Init, TypeOK, Thread, ProducerPc, ConsumerPc
<1>2. Mutex /\ EndsCurrent /\ Told /\ StatusSettles
  BY FifoAssumption DEF Init, Mutex, EndsCurrent, Told, StatusSettles, Thread, Locked
<1>3. FirstInFirstOut
  BY ConcatEmptySeq, <<>> \in Seq(Item) DEF Init, FirstInFirstOut
<1> QED
  BY <1>1, <1>2, <1>3 DEF Inv

\* A push, in each of its steps.
LEMMA ProducerInv ==
  ASSUME Inv, NEW p \in Producer, CallPush(p) \/ ProducerStep(p)
  PROVE  Inv'
<1> USE FifoAssumption DEF Inv, Thread
<1>1. p \in Thread /\ Consumer \in Thread /\ p # Consumer
  OBVIOUS
<1>2. CASE CallPush(p)
  <2>1. TypeOK'
    BY <1>2 DEF CallPush, Goto, TypeOK, ProducerPc, ConsumerPc
  <2> QED
    BY <1>2, <2>1 DEF CallPush, Goto, TypeOK, Mutex, EndsCurrent, Told,
       StatusSettles, FirstInFirstOut, Locked
<1>3. CASE PushLock(p)
  <2>1. TypeOK'
    BY <1>3 DEF PushLock, SpinLock, Goto, TypeOK, ProducerPc, ConsumerPc
  <2> QED
    BY <1>3, <2>1 DEF PushLock, SpinLock, Goto, TypeOK, Mutex, EndsCurrent, Told,
       StatusSettles, FirstInFirstOut, Locked
<1>4. CASE Push(p)
  <2> DEFINE item == <<p, pushes[p]>>
  <2>1. item \in Item
    BY DEF TypeOK, Item
  <2>2. packets' = Append(packets, item) /\ pushed' = Append(pushed, item)
    BY <1>4 DEF Push, Goto, EndsCurrent
  <2> HIDE DEF item
  <2>3. packets' # <<>> /\ packets' \in Seq(Item) /\ pushed' \in Seq(Item)
    <3>1. packets \in Seq(Item) /\ pushed \in Seq(Item)
      BY DEF TypeOK
    <3> QED
      BY <2>1, <2>2, <3>1, AppendProperties
  <2>4. TypeOK'
    BY <1>4, <2>3 DEF Push, Goto, TypeOK, ProducerPc, ConsumerPc
  <2>5. Mutex'
    BY <1>4 DEF Push, Goto, TypeOK, Mutex, Locked
  <2>6. EndsCurrent'
    BY <1>4, <2>5 DEF Push, Goto, TypeOK, Mutex, EndsCurrent, Locked
  <2>7. Told' /\ StatusSettles'
    BY <1>4, <2>3, <2>5 DEF Push, Goto, TypeOK, Mutex, Told, StatusSettles, Locked
  <2>8. FirstInFirstOut'
    <3>1. packets \in Seq(Item) /\ popped \in Seq(Item) /\ popped' = popped
      BY <1>4 DEF Push, TypeOK
    <3>2. packets' = packets \o <<item>> /\ pushed' = pushed \o <<item>>
      BY <2>1, <2>2, AppendIsConcat DEF TypeOK
    <3>3. (popped \o packets) \o <<item>> = popped \o (packets \o <<item>>)
      BY <2>1, <3>1, ConcatAssociative, <<item>> \in Seq(Item)
    <3> QED
      BY <3>1, <3>2, <3>3 DEF FirstInFirstOut
  <2> QED
    BY <2>4, <2>5, <2>6, <2>7, <2>8
<1>5. CASE PushStatus(p)
  <2>1. TypeOK'
    BY <1>5 DEF PushStatus, Goto, TypeOK, ProducerPc, ConsumerPc
  <2>2. Mutex'
    BY <1>5 DEF PushStatus, Goto, TypeOK, Mutex, Locked
  <2> QED
    BY <1>5, <2>1, <2>2 DEF PushStatus, Goto, TypeOK, Mutex, EndsCurrent, Told,
       StatusSettles, FirstInFirstOut, Locked
<1>6. CASE PushUnlock(p)
  <2>1. TypeOK'
    BY <1>6 DEF PushUnlock, SpinUnlock, Goto, TypeOK, ProducerPc, ConsumerPc
  <2> QED
    BY <1>6, <2>1 DEF PushUnlock, SpinUnlock, Goto, TypeOK, Mutex, EndsCurrent, Told,
       StatusSettles, FirstInFirstOut, Locked
<1> QED
  BY <1>2, <1>3, <1>4, <1>5, <1>6 DEF ProducerStep

\* Waiting, looking and popping, in each of their steps.
LEMMA ConsumerInv ==
  ASSUME Inv, CallWait \/ CallHas \/ ConsumerStep
  PROVE  Inv'
<1> USE FifoAssumption DEF Inv, Thread
<1>1. Consumer \in Thread
  OBVIOUS
<1>2. CASE CallWait \/ CallHas \/ WaitEnds \/ PopCheck
  <2>1. TypeOK'
    BY <1>2 DEF CallWait, CallHas, WaitEnds, PopCheck, Goto, TypeOK, ProducerPc, ConsumerPc
  <2>2. Mutex'
    BY <1>2 DEF CallWait, CallHas, WaitEnds, PopCheck, Goto, TypeOK, Mutex, Locked
  <2>3. EndsCurrent' /\ Told'
    BY <1>2 DEF CallWait, CallHas, WaitEnds, PopCheck, Goto, TypeOK, Mutex, EndsCurrent,
       Told, Locked
  <2>4. StatusSettles'
    BY <1>2 DEF CallWait, CallHas, WaitEnds, PopCheck, Goto, TypeOK, Mutex, StatusSettles, Locked
  <2>5. FirstInFirstOut'
    BY <1>2 DEF CallWait, CallHas, WaitEnds, PopCheck, Goto, TypeOK, FirstInFirstOut
  <2> QED
    BY <2>1, <2>2, <2>3, <2>4, <2>5
<1>3. CASE WaitStatus
  <2>1. TypeOK'
    BY <1>3 DEF WaitStatus, Goto, TypeOK, ProducerPc, ConsumerPc
  <2> QED
    BY <1>3, <2>1 DEF WaitStatus, Goto, TypeOK, Mutex, EndsCurrent, Told,
       StatusSettles, FirstInFirstOut, Locked
<1>4. CASE HasLock \/ PopLock
  <2>1. TypeOK'
    BY <1>4 DEF HasLock, PopLock, SpinLock, Goto, TypeOK, ProducerPc, ConsumerPc
  <2>2. Mutex'
    BY <1>4 DEF HasLock, PopLock, SpinLock, Goto, TypeOK, Mutex, Locked
  <2>3. EndsCurrent' /\ Told'
    BY <1>4 DEF HasLock, PopLock, SpinLock, Goto, TypeOK, Mutex, EndsCurrent,
       Told, Locked
  <2>4. StatusSettles'
    BY <1>4 DEF HasLock, PopLock, SpinLock, Goto, TypeOK, Mutex, StatusSettles, Locked
  <2>5. FirstInFirstOut'
    BY <1>4 DEF HasLock, PopLock, SpinLock, Goto, TypeOK, FirstInFirstOut
  <2> QED
    BY <2>1, <2>2, <2>3, <2>4, <2>5
<1>5. CASE HasNone \/ HasSome \/ PopUnlock
  <2>1. TypeOK'
    BY <1>5 DEF HasNone, HasSome, PopUnlock, SpinUnlock, Goto, TypeOK, ProducerPc, ConsumerPc
  <2>2. \A p \in Producer : pc[p] # "setStatus"
    BY <1>5 DEF HasNone, HasSome, PopUnlock, Goto, TypeOK, Mutex, Locked
  <2>3. Mutex'
    BY <1>5, <2>2 DEF HasNone, HasSome, PopUnlock, SpinUnlock, Goto, TypeOK, Mutex, Locked
  <2>4. EndsCurrent' /\ Told'
    <3>1. EndsCurrent'
      BY <1>5 DEF HasNone, HasSome, PopUnlock, SpinUnlock, Goto, TypeOK, EndsCurrent
    <3>2. Told'
      BY <1>5, <2>2 DEF HasNone, HasSome, PopUnlock, Goto, TypeOK, Told, StatusSettles
    <3> QED
      BY <3>1, <3>2
  <2>5. StatusSettles'
    BY <1>5, <2>2 DEF HasNone, HasSome, PopUnlock, SpinUnlock, Goto, TypeOK, Mutex, StatusSettles, Locked
  <2>6. FirstInFirstOut'
    BY <1>5, <2>2 DEF HasNone, HasSome, PopUnlock, SpinUnlock, Goto, TypeOK, FirstInFirstOut
  <2> QED
    BY <2>1, <2>2, <2>3, <2>4, <2>5, <2>6
<1>6. CASE PopFront
  <2>1. TypeOK'
    BY <1>6 DEF PopFront, Goto, TypeOK, ProducerPc, ConsumerPc
  <2>2. Mutex'
    BY <1>6 DEF PopFront, Goto, TypeOK, Mutex, Locked
  <2>3. EndsCurrent' /\ Told'
    BY <1>6 DEF PopFront, Goto, TypeOK, Mutex, EndsCurrent,
       Told, Locked
  <2>4. StatusSettles'
    BY <1>6 DEF PopFront, Goto, TypeOK, Mutex, StatusSettles, Locked
  <2>5. FirstInFirstOut'
    BY <1>6 DEF PopFront, Goto, TypeOK, FirstInFirstOut
  <2> QED
    BY <2>1, <2>2, <2>3, <2>4, <2>5
<1>7. CASE Pop
  <2>1. packets # <<>> /\ ends[Consumer] = packets
    BY <1>7 DEF Pop, Goto, Told, EndsCurrent
  <2>2. packets' \in Seq(Item) /\ popped' \in Seq(Item)
    BY <1>7, <2>1, HeadTailProperties, AppendProperties DEF Pop, TypeOK
  <2>3. TypeOK'
    BY <1>7, <2>2 DEF Pop, Goto, TypeOK, ProducerPc, ConsumerPc
  <2>4. Mutex'
    BY <1>7 DEF Pop, Goto, TypeOK, Mutex, Locked
  <2>5. \A p \in Producer : pc'[p] \notin Locked
    BY <1>7, <2>4 DEF Pop, Goto, TypeOK, Mutex, Locked
  <2>6. EndsCurrent' /\ Told'
    BY <1>7, <2>5 DEF Pop, Goto, TypeOK, EndsCurrent, Told, Locked
  <2>7. StatusSettles'
    <3>1. pc'[Consumer] = "popStatus" /\ _status' = _status /\ pc[Consumer] = "pop"
      BY <1>7 DEF Pop, Goto, TypeOK
    <3>2. \A p \in Producer : pc'[p] # "setStatus" /\ pc[p] # "setStatus"
      BY <1>7, <2>5 DEF Pop, Goto, TypeOK, Locked
    <3>3. _status
      BY <2>1, <3>1, <3>2 DEF StatusSettles
    <3> QED
      BY <3>1, <3>2, <3>3 DEF StatusSettles
  <2>8. FirstInFirstOut'
    <3>1. packets \in Seq(Item) /\ popped \in Seq(Item)
      BY DEF TypeOK
    <3>2. packets' = Tail(packets) /\ popped' = Append(popped, Head(packets)) /\ pushed' = pushed
      BY <1>7, <2>1 DEF Pop
    <3>3. popped' \o packets' = popped \o packets
      BY <2>1, <3>1, <3>2, HeadMoves
    <3> QED
      BY <3>2, <3>3 DEF FirstInFirstOut
  <2> QED
    BY <2>3, <2>4, <2>6, <2>7, <2>8
<1>8. CASE PopStatus
  <2>1. TypeOK'
    BY <1>8 DEF PopStatus, Goto, TypeOK, ProducerPc, ConsumerPc
  <2>2. Mutex'
    BY <1>8 DEF PopStatus, Goto, TypeOK, Mutex, Locked
  <2>3. EndsCurrent' /\ Told'
    <3>1. EndsCurrent'
      BY <1>8 DEF PopStatus, Goto, TypeOK, EndsCurrent
    <3>2. Told'
      BY <1>8 DEF PopStatus, Goto, TypeOK, Told
    <3> QED
      BY <3>1, <3>2
  <2>4. StatusSettles'
    BY <1>8, <2>2 DEF PopStatus, Goto, TypeOK, Mutex, StatusSettles, Locked
  <2>5. FirstInFirstOut'
    BY <1>8, <2>2 DEF PopStatus, Goto, TypeOK, FirstInFirstOut
  <2> QED
    BY <2>1, <2>2, <2>3, <2>4, <2>5
<1> QED
  BY <1>2, <1>3, <1>4, <1>5, <1>6, <1>7, <1>8 DEF ConsumerStep

(* Inv holds in every state that the FIFO reaches.                         *)
THEOREM InvHolds == Spec => []Inv
<1>1. Inv /\ [Next]_vars => Inv'
  <2> SUFFICES ASSUME Inv, [Next]_vars PROVE Inv'
    OBVIOUS
  <2>1. CASE UNCHANGED vars
    BY <2>1 DEF vars, Inv, TypeOK, Mutex, EndsCurrent, Told, StatusSettles,
       FirstInFirstOut
  <2>2. CASE Next
    BY <2>2, ProducerInv, ConsumerInv DEF Next
  <2> QED
    BY <2>1, <2>2
<1> QED
  BY InitInv, <1>1, PTL DEF Spec

-----------------------------------------------------------------------------

(* The types of the FIFO's variables.                                      *)
THEOREM TypeCorrect == Spec => []TypeOK
<1>1. Inv => TypeOK
  BY DEF Inv
<1> QED
  BY InvHolds, <1>1, PTL

(* has_packets and status tell the truth, although wait_for_packets writes *)
(* _status without the lock.                                               *)
THEOREM StatusCorrect == Spec => []StatusAgrees
<1>1. Inv => StatusAgrees
  BY FifoAssumption DEF Inv, TypeOK, Mutex, StatusSettles, StatusAgrees, Thread, Locked
<1> QED
  BY InvHolds, <1>1, PTL

(* The loop of pop_front "for double check" never waits.                   *)
THEOREM PopNeverBlocks == Spec => []NeverBlocksInPop
<1>1. Inv => NeverBlocksInPop
  BY DEF Inv, Told, NeverBlocksInPop
<1> QED
  BY InvHolds, <1>1, PTL

(* Packets leave the FIFO in the order in which they were pushed, each     *)
(* once and none lost, however many threads push.                          *)
THEOREM FifoCorrect == Spec => []FirstInFirstOut
<1>1. Inv => FirstInFirstOut
  BY DEF Inv
<1> QED
  BY InvHolds, <1>1, PTL

=============================================================================
