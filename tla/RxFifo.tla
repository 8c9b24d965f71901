------------------------------- MODULE RxFifo -------------------------------
(***************************************************************************)
(* RX_Packet_Fifo: the FIFO in which a tile finds the packets for it.      *)
(*                                                                         *)
(* The producers are the receiving threads of the bridges of the process   *)
(* and the threads of the tiles of the process that transmit to this tile. *)
(* The consumer is the thread of the tile; it is not part of the           *)
(* repository.  It is taken to be one thread, and to call pop_front only   *)
(* once wait_for_packets, has_packets or status has told it that there is  *)
(* a packet.                                                               *)
(*                                                                         *)
(* A change of the deque is a read of its ends followed by a write of      *)
(* them.  packets.empty() outside the lock sees the ends before or after   *)
(* that write.                                                             *)
(***************************************************************************)
EXTENDS Integers, Sequences

CONSTANTS
  Producer,  \* the threads that push
  Consumer,  \* the thread of the tile
  Nobody,    \* who holds a lock that is free
  PushLimit  \* bound: how often each producer pushes

ASSUME FifoAssumption ==
  /\ Consumer \notin Producer
  /\ Nobody \notin Producer \cup {Consumer}
  /\ PushLimit \in Nat

VARIABLES
  packets,   \* the deque
  _status,   \* the flag has_packets looks at
  _RXlock,   \* the thread that holds the spinlock, or Nobody
  pc,        \* pc[th]: where thread th is in the operation it executes
  ends,      \* ends[th]: the deque as thread th has read it
  pushes,    \* pushes[p]: how many push_back calls producer p has begun
  pushed,    \* history: what was pushed, in order
  popped     \* history: what pop_front returned, in order

vars == <<packets, _status, _RXlock, pc, ends, pushes, pushed, popped>>

Thread == Producer \cup {Consumer}

\* The n-th packet of producer p.
Item == Producer \X Nat

(* Where a thread is.  idle: in none of the operations.                    *)
(*   push_back           lock, push, setStatus, unlock                     *)
(*   wait_for_packets    wait, waitStatus                                  *)
(*   has_packets         hasLock, hasRead                                  *)
(*   pop_front           ready (about to call it), popLock, front, pop,    *)
(*                       popStatus, popUnlock                              *)
ProducerPc == {"idle", "lock", "push", "setStatus", "unlock"}
ConsumerPc == {"idle", "wait", "waitStatus", "hasLock", "hasRead",
               "ready", "popLock", "front", "pop", "popStatus", "popUnlock"}

TypeOK ==
  /\ packets \in Seq(Item)
  /\ _status \in BOOLEAN
  /\ _RXlock \in Thread \cup {Nobody}
  /\ pc \in [Thread -> ProducerPc \cup ConsumerPc]
  /\ \A p \in Producer : pc[p] \in ProducerPc
  /\ pc[Consumer] \in ConsumerPc
  /\ ends \in [Thread -> Seq(Item)]
  /\ pushes \in [Producer -> 0 .. PushLimit]
  /\ pushed \in Seq(Item)
  /\ popped \in Seq(Item)

\* A mistake: the constructor does not initialise the spinlock.
Init_NoSpinInit ==
  /\ packets = <<>>
  /\ _status = FALSE
  /\ _RXlock = "uninitialised"
  /\ pc = [th \in Thread |-> "idle"]
  /\ ends = [th \in Thread |-> <<>>]
  /\ pushes = [p \in Producer |-> 0]
  /\ pushed = <<>>
  /\ popped = <<>>

Init ==
  /\ packets = <<>>
  /\ _status = FALSE
  /\ _RXlock = Nobody
  /\ pc = [th \in Thread |-> "idle"]
  /\ ends = [th \in Thread |-> <<>>]
  /\ pushes = [p \in Producer |-> 0]
  /\ pushed = <<>>
  /\ popped = <<>>

Goto(th, from, to) == pc[th] = from /\ pc' = [pc EXCEPT ![th] = to]

\* pthread_spin_lock returns, and pthread_spin_unlock.
SpinLock(th) == _RXlock = Nobody /\ _RXlock' = th
SpinUnlock == _RXlock' = Nobody

-----------------------------------------------------------------------------
(* push_back *)

CallPush(p) ==
  /\ Goto(p, "idle", "lock")
  /\ pushes[p] < PushLimit
  /\ pushes' = [pushes EXCEPT ![p] = @ + 1]
  /\ UNCHANGED <<packets, _status, _RXlock, ends, pushed, popped>>

\* A mistake: push_back does not lock.
PushLock_NoLock(p) ==
  /\ Goto(p, "lock", "push")
  /\ ends' = [ends EXCEPT ![p] = packets]
  /\ UNCHANGED <<packets, _status, _RXlock, pushes, pushed, popped>>

\* The lock is taken and the ends of the deque are read.
PushLock(p) ==
  /\ Goto(p, "lock", "push")
  /\ SpinLock(p)
  /\ ends' = [ends EXCEPT ![p] = packets]
  /\ UNCHANGED <<packets, _status, pushes, pushed, popped>>

Push(p) ==
  /\ Goto(p, "push", "setStatus")
  /\ packets' = Append(ends[p], <<p, pushes[p]>>)
  /\ pushed' = Append(pushed, <<p, pushes[p]>>)
  /\ UNCHANGED <<_status, _RXlock, ends, pushes, popped>>

PushStatus(p) ==
  /\ Goto(p, "setStatus", "unlock")
  /\ _status' = TRUE
  /\ UNCHANGED <<packets, _RXlock, ends, pushes, pushed, popped>>

PushUnlock(p) ==
  /\ Goto(p, "unlock", "idle")
  /\ SpinUnlock
  /\ UNCHANGED <<packets, _status, ends, pushes, pushed, popped>>

-----------------------------------------------------------------------------
(* wait_for_packets *)

CallWait ==
  /\ Goto(Consumer, "idle", "wait")
  /\ UNCHANGED <<packets, _status, _RXlock, ends, pushes, pushed, popped>>

\* The loop ends: packets.empty() is false.  No lock is held.
WaitEnds ==
  /\ Goto(Consumer, "wait", "waitStatus")
  /\ packets # <<>>
  /\ UNCHANGED <<packets, _status, _RXlock, ends, pushes, pushed, popped>>

\* _status is set, without the lock.
WaitStatus ==
  /\ Goto(Consumer, "waitStatus", "ready")
  /\ _status' = TRUE
  /\ UNCHANGED <<packets, _RXlock, ends, pushes, pushed, popped>>

-----------------------------------------------------------------------------
(* has_packets, and status, which does the same *)

CallHas ==
  /\ Goto(Consumer, "idle", "hasLock")
  /\ UNCHANGED <<packets, _status, _RXlock, ends, pushes, pushed, popped>>

HasLock ==
  /\ Goto(Consumer, "hasLock", "hasRead")
  /\ SpinLock(Consumer)
  /\ UNCHANGED <<packets, _status, ends, pushes, pushed, popped>>

\* _status is false: has_packets unlocks and returns false.
HasNone ==
  /\ Goto(Consumer, "hasRead", "idle")
  /\ ~_status
  /\ SpinUnlock
  /\ UNCHANGED <<packets, _status, ends, pushes, pushed, popped>>

\* _status is true: has_packets unlocks and returns true.
HasSome ==
  /\ Goto(Consumer, "hasRead", "ready")
  /\ _status
  /\ SpinUnlock
  /\ UNCHANGED <<packets, _status, ends, pushes, pushed, popped>>

-----------------------------------------------------------------------------
(* pop_front *)

\* The loop that is "for double check" ends.  No lock is held.
PopCheck ==
  /\ Goto(Consumer, "ready", "popLock")
  /\ packets # <<>>
  /\ UNCHANGED <<packets, _status, _RXlock, ends, pushes, pushed, popped>>

PopLock ==
  /\ Goto(Consumer, "popLock", "front")
  /\ SpinLock(Consumer)
  /\ UNCHANGED <<packets, _status, ends, pushes, pushed, popped>>

\* packets.front(), and the ends of the deque are read.
PopFront ==
  /\ Goto(Consumer, "front", "pop")
  /\ ends' = [ends EXCEPT ![Consumer] = packets]
  /\ UNCHANGED <<packets, _status, _RXlock, pushes, pushed, popped>>

Pop ==
  /\ Goto(Consumer, "pop", "popStatus")
  /\ packets' = Tail(ends[Consumer])
  /\ popped' = Append(popped, Head(ends[Consumer]))
  /\ UNCHANGED <<_status, _RXlock, ends, pushes, pushed>>

\* A mistake: _status is left as it is.
PopStatus_Forgotten ==
  /\ Goto(Consumer, "popStatus", "popUnlock")
  /\ UNCHANGED <<packets, _status, _RXlock, ends, pushes, pushed, popped>>

\* A mistake: _status is cleared whatever is left.
PopStatus_Always ==
  /\ Goto(Consumer, "popStatus", "popUnlock")
  /\ _status' = FALSE
  /\ UNCHANGED <<packets, _RXlock, ends, pushes, pushed, popped>>

\* if (packets.size() == 0) _status = 0
PopStatus ==
  /\ Goto(Consumer, "popStatus", "popUnlock")
  /\ _status' = (_status /\ packets # <<>>)
  /\ UNCHANGED <<packets, _RXlock, ends, pushes, pushed, popped>>

\* A mistake: pop_front does not unlock.
PopUnlock_Forgotten ==
  /\ Goto(Consumer, "popUnlock", "idle")
  /\ UNCHANGED <<packets, _status, _RXlock, ends, pushes, pushed, popped>>

PopUnlock ==
  /\ Goto(Consumer, "popUnlock", "idle")
  /\ SpinUnlock
  /\ UNCHANGED <<packets, _status, ends, pushes, pushed, popped>>

-----------------------------------------------------------------------------

ProducerStep(p) ==
  PushLock(p) \/ Push(p) \/ PushStatus(p) \/ PushUnlock(p)

\* The steps of the consumer inside the operations of the FIFO.
ConsumerStep ==
  \/ WaitEnds \/ WaitStatus
  \/ HasLock \/ HasNone \/ HasSome
  \/ PopCheck \/ PopLock \/ PopFront \/ Pop \/ PopStatus \/ PopUnlock

Next ==
  \/ \E p \in Producer : CallPush(p) \/ ProducerStep(p)
  \/ CallWait \/ CallHas \/ ConsumerStep

Spec == Init /\ [][Next]_vars

(* Threads run.  The spinlock favours nobody, and nobody is favoured here: *)
(* a thread gets the lock if it is free from some time on.  The consumer   *)
(* may poll has_packets, but not forever without wait_for_packets.         *)
Fairness ==
  /\ \A p \in Producer : WF_vars(ProducerStep(p))
  /\ WF_vars(ConsumerStep)
  /\ SF_vars(CallWait)

FairSpec == Spec /\ Fairness

-----------------------------------------------------------------------------
(* Properties *)

(* _status, which has_packets reports, says whether there are packets,     *)
(* whenever the lock is free.  wait_for_packets writes _status without the *)
(* lock: what it writes must not outlive the packet it saw.                *)
StatusAgrees == _RXlock = Nobody => (_status <=> packets # <<>>)

(* The loop of pop_front "for double check" never has to wait: "it should  *)
(* not happen" (a consumer that was told of a packet finds one, whatever   *)
(* producers do in between).                                               *)
NeverBlocksInPop ==
  pc[Consumer] \in {"ready", "popLock", "front", "pop"} => packets # <<>>

(* What pop_front has returned and what is in the FIFO are what was        *)
(* pushed, in order: nothing is lost, duplicated or reordered.             *)
FirstInFirstOut == pushed = popped \o packets

(* Every packet that a producer has begun to push is popped.               *)
EveryPacketPopped ==
  \A p \in Producer, n \in 1 .. PushLimit :
    pushes[p] >= n ~> \E i \in DOMAIN popped : popped[i] = <<p, n>>

=============================================================================
