------------------------------- MODULE System -------------------------------
(***************************************************************************)
(* The life of the System of one process: the constructor, the bridges and *)
(* their receiving threads, the choice of a bridge for a packet to be      *)
(* sent, the destructor.                                                   *)
(*                                                                         *)
(* What is sent and received is left to module Bridge.  Here a receiving   *)
(* thread gets messages that come at any time, and a send is the choice of *)
(* a bridge followed by calls of MPI.                                      *)
(***************************************************************************)
EXTENDS Integers

CONSTANTS
  NBridges,   \* number of bridges (NBRIDGES)
  Tile,       \* the threads of tiles, which send
  Evaluate,   \* EVALUATE: receiving threads answer with a packet (P_DACK)
  SendLimit,  \* bound: number of packets the tiles send
  MsgLimit    \* bound: number of messages that come

Receiver == 1 .. NBridges
Thread == Receiver \cup Tile
Nobody == 0

ASSUME SystemAssumption ==
  /\ NBridges \in Nat \ {0}
  /\ Nobody \notin Tile /\ Receiver \cap Tile = {}
  /\ Evaluate \in BOOLEAN
  /\ SendLimit \in Nat /\ MsgLimit \in Nat

Lock == {"bridge_selector_lock", "killed_threads_lock"}

VARIABLES
  main,            \* where the constructor or the destructor is
  nodes,           \* the Tile instances have been created
  bridge_list,     \* the length of bridge_list
  bridge_pos,
  active,
  killed_threads,
  lock,            \* lock[l]: "raw", "ready" or "destroyed"
  holder,          \* holder[l]: the thread that holds spinlock l, or Nobody
  pc,              \* pc[th]: where thread th is
  read,            \* read[th]: the variable that th increments, as th read it
  taken,           \* taken[th]: index of the bridge that th took last
  sends,           \* number of packets the tiles have begun to send
  messages,        \* number of messages that have come
  waiting,         \* those of them that no receive has matched
  selections       \* history: number of calls that have set bridge_pos

vars == <<main, nodes, bridge_list, bridge_pos, active, killed_threads, lock,
          holder, pc, read, taken, sends, messages, waiting, selections>>

(* The constructor creates the tiles, then each bridge (whose constructor  *)
(* creates a receiving thread) before it is put into bridge_list, then the *)
(* locks.                                                                  *)
Constructor == {"tiles", "newBridge", "pushBridge", "selectorLock", "killedLock"}

(* The destructor waits for the receiving threads, destroys the locks and  *)
(* the bridges, finalises MPI.                                             *)
Destructor == {"wait", "destroyKilled", "destroySelector", "deleteBridges",
               "finalize", "done"}

(* A thread is idle (a tile) or none (a receiving thread not created yet). *)
(*   the loop of a receiving thread    listen, probe, await, store         *)
(*   System::send                      lock, read, write, unlock, at, mpi  *)
(*   System::kill_thread               killLock, killRead, killWrite,      *)
(*                                     killUnlock, exited                  *)
Selecting == {"lock", "read", "write", "unlock", "at"}
Killing == {"killLock", "killRead", "killWrite", "killUnlock"}

TypeOK ==
  /\ main \in Constructor \cup {"running", "exit"} \cup Destructor
  /\ nodes \in BOOLEAN
  /\ bridge_list \in 0 .. NBridges
  /\ bridge_pos \in -1 .. NBridges - 1
  /\ active \in BOOLEAN
  /\ killed_threads \in 0 .. NBridges
  /\ lock \in [Lock -> {"raw", "ready", "destroyed"}]
  /\ holder \in [Lock -> Thread \cup {Nobody}]
  /\ pc \in [Thread -> {"none", "idle", "listen", "probe", "await", "store",
                        "mpi", "exited"} \cup Selecting \cup Killing]
  /\ read \in [Thread -> -1 .. NBridges]
  /\ taken \in [Thread -> -1 .. NBridges - 1]
  /\ sends \in 0 .. SendLimit
  /\ messages \in 0 .. MsgLimit
  /\ waiting \in 0 .. messages
  /\ selections \in Nat

Init ==
  /\ main = "tiles"
  /\ nodes = FALSE
  /\ bridge_list = 0
  /\ bridge_pos = -1
  /\ active = TRUE
  /\ killed_threads = 0
  /\ lock = [l \in Lock |-> "raw"]
  /\ holder = [l \in Lock |-> Nobody]
  /\ pc = [th \in Thread |-> IF th \in Tile THEN "idle" ELSE "none"]
  /\ read = [th \in Thread |-> 0]
  /\ taken = [th \in Thread |-> -1]
  /\ sends = 0
  /\ messages = 0
  /\ waiting = 0
  /\ selections = 0

-----------------------------------------------------------------------------
(* The constructor *)

life == <<main, nodes, bridge_list, active>>
locks == <<lock, holder>>
traffic == <<sends, messages, waiting>>
choice == <<bridge_pos, taken, selections>>

\* The constructor or the destructor goes on and changes nothing else.
Main(from, to) ==
  /\ main = from /\ main' = to
  /\ UNCHANGED <<nodes, bridge_list, active, killed_threads, locks, pc, read, traffic, choice>>

CreateTiles ==
  /\ main = "tiles"
  /\ nodes' = TRUE
  /\ main' = "newBridge"
  /\ UNCHANGED <<bridge_list, active, killed_threads, locks, pc, read, traffic, choice>>

\* new Bridge: the receiving thread of the bridge starts.
NewBridge ==
  /\ main = "newBridge"
  /\ bridge_list < NBridges
  /\ pc' = [pc EXCEPT ![bridge_list + 1] = "listen"]
  /\ main' = "pushBridge"
  /\ UNCHANGED <<nodes, bridge_list, active, killed_threads, locks, read, traffic, choice>>

\* pthread_create fails: exit(1) ends the process and all its threads.
NewBridgeFails ==
  /\ main = "newBridge"
  /\ bridge_list < NBridges
  /\ main' = "exit"
  /\ pc' = [th \in Thread |-> "exited"]
  /\ UNCHANGED <<nodes, bridge_list, active, killed_threads, locks, read, traffic, choice>>

PushBridge ==
  /\ main = "pushBridge"
  /\ bridge_list' = bridge_list + 1
  /\ main' = IF bridge_list' < NBridges THEN "newBridge" ELSE "selectorLock"
  /\ UNCHANGED <<nodes, active, killed_threads, locks, pc, read, traffic, choice>>

\* pthread_spin_init
InitLock(l) ==
  /\ lock' = [lock EXCEPT ![l] = "ready"]
  /\ holder' = [holder EXCEPT ![l] = Nobody]

\* A mistake: bridge_selector_lock is not initialised.
InitSelectorLock_Forgotten == Main("selectorLock", "killedLock")

InitSelectorLock ==
  /\ main = "selectorLock"
  /\ InitLock("bridge_selector_lock")
  /\ main' = "killedLock"
  /\ UNCHANGED <<nodes, bridge_list, active, killed_threads, pc, read, traffic, choice>>

InitKilledLock ==
  /\ main = "killedLock"
  /\ InitLock("killed_threads_lock")
  /\ main' = "running"
  /\ UNCHANGED <<nodes, bridge_list, active, killed_threads, pc, read, traffic, choice>>

-----------------------------------------------------------------------------
(* The destructor.  It "will be called after all operations have been      *)
(* performed": no tile is sending, and none sends from then on.            *)

Deactivate ==
  /\ main = "running"
  /\ \A t \in Tile : pc[t] = "idle"
  /\ active' = FALSE
  /\ main' = "wait"
  /\ UNCHANGED <<nodes, bridge_list, killed_threads, locks, pc, read, traffic, choice>>

\* A mistake: the loop does not wait for the last thread.
ThreadsKilled_OneShort == killed_threads >= bridge_list - 1 /\ Main("wait", "destroyKilled")

\* while (killed_threads < bridge_list.size()) ends.
ThreadsKilled == killed_threads >= bridge_list /\ Main("wait", "destroyKilled")

DestroyLock(l, from, to) ==
  /\ main = from
  /\ lock' = [lock EXCEPT ![l] = "destroyed"]
  /\ main' = to
  /\ UNCHANGED <<nodes, bridge_list, active, killed_threads, holder, pc, read, traffic, choice>>

DestroyKilledLock ==
  DestroyLock("killed_threads_lock", "destroyKilled", "destroySelector")

DestroySelectorLock ==
  DestroyLock("bridge_selector_lock", "destroySelector", "deleteBridges")

DeleteBridges == Main("deleteBridges", "finalize")

\* MPI_Finalize
Finalize == Main("finalize", "done")

-----------------------------------------------------------------------------

Goto(th, from, to) == pc[th] = from /\ pc' = [pc EXCEPT ![th] = to]

\* A step that changes nothing but the position of the thread.
Step(th, from, to) ==
  /\ Goto(th, from, to)
  /\ UNCHANGED <<life, killed_threads, locks, read, traffic, choice>>

\* pthread_spin_lock returns, and pthread_spin_unlock.
SpinLock(l, th) ==
  /\ holder[l] = Nobody
  /\ holder' = [holder EXCEPT ![l] = th]
  /\ UNCHANGED lock

SpinUnlock(l) ==
  /\ holder' = [holder EXCEPT ![l] = Nobody]
  /\ UNCHANGED lock

(* System::send and System::send_th: increment_bridge_pos, then the bridge *)
(* at bridge_pos sends the packet or creates a thread that does.           *)

\* Tile t has a packet for a tile of another process.
CallSend(t) ==
  /\ main = "running"
  /\ sends < SendLimit
  /\ Goto(t, "idle", "lock")
  /\ sends' = sends + 1
  /\ UNCHANGED <<life, killed_threads, locks, read, messages, waiting, choice>>

\* A mistake: increment_bridge_pos does not lock.
LockSelector_NoLock(th) == Step(th, "lock", "read")

LockSelector(th) ==
  /\ Goto(th, "lock", "read")
  /\ SpinLock("bridge_selector_lock", th)
  /\ UNCHANGED <<life, killed_threads, read, traffic, choice>>

ReadPos(th) ==
  /\ Goto(th, "read", "write")
  /\ read' = [read EXCEPT ![th] = bridge_pos]
  /\ UNCHANGED <<life, killed_threads, locks, traffic, choice>>

\* A mistake: the position grows up to the length of bridge_list.
NextPos_OneTooFar(pos) == (pos + 1) % (bridge_list + 1)

NextPos(pos) == (pos + 1) % bridge_list

WritePos(th) ==
  /\ Goto(th, "write", "unlock")
  /\ bridge_pos' = NextPos(read[th])
  /\ selections' = selections + 1
  /\ UNCHANGED <<life, killed_threads, locks, read, taken, traffic>>

UnlockSelector(th) ==
  /\ Goto(th, "unlock", "at")
  /\ SpinUnlock("bridge_selector_lock")
  /\ UNCHANGED <<life, killed_threads, read, traffic, choice>>

\* bridge_list.at(bridge_pos): bridge_pos is read again, without the lock.
TakeBridge(th) ==
  /\ Goto(th, "at", "mpi")
  /\ taken' = [taken EXCEPT ![th] = bridge_pos]
  /\ UNCHANGED <<life, killed_threads, locks, read, traffic, bridge_pos, selections>>

\* Bridge::send returns.
Sent(th) == Step(th, "mpi", IF th \in Tile THEN "idle" ELSE "listen")

-----------------------------------------------------------------------------
(* Receiving threads *)

\* A message with tag_default comes from another process.
Arrive ==
  /\ messages < MsgLimit
  /\ messages' = messages + 1
  /\ waiting' = waiting + 1
  /\ UNCHANGED <<life, killed_threads, locks, pc, read, sends, choice>>

Listen(th) == Step(th, "listen", IF active THEN "probe" ELSE "killLock")

ProbeNone(th) ==
  /\ Goto(th, "probe", "listen")
  /\ waiting = 0
  /\ UNCHANGED <<life, killed_threads, locks, read, traffic, choice>>

(* A packet is received.  It is a P_DRESP, and the thread then waits for   *)
(* its array; or it is not; or, with EVALUATE, it is a P_DACK and ignored. *)
ProbeSome(th) ==
  /\ waiting > 0
  /\ \E next \in {"await", "store"} \cup (IF Evaluate THEN {"listen"} ELSE {}) :
       Goto(th, "probe", next)
  /\ waiting' = waiting - 1
  /\ UNCHANGED <<life, killed_threads, locks, read, sends, messages, choice>>

\* The array comes.  Whether the System is active is not looked at.
ReceiveArray(th) == Step(th, "await", "store")

\* The packet is put into the RX FIFO of nodes[dest]; or a P_DACK is sent.
Store(th) == Step(th, "store", IF Evaluate THEN "lock" ELSE "listen")

\* A mistake: kill_thread does not lock.
LockKilled_NoLock(th) == Step(th, "killLock", "killRead")

(* kill_thread *)
LockKilled(th) ==
  /\ Goto(th, "killLock", "killRead")
  /\ SpinLock("killed_threads_lock", th)
  /\ UNCHANGED <<life, killed_threads, read, traffic, choice>>

ReadKilled(th) ==
  /\ Goto(th, "killRead", "killWrite")
  /\ read' = [read EXCEPT ![th] = killed_threads]
  /\ UNCHANGED <<life, killed_threads, locks, traffic, choice>>

WriteKilled(th) ==
  /\ Goto(th, "killWrite", "killUnlock")
  /\ killed_threads' = read[th] + 1
  /\ UNCHANGED <<life, locks, read, traffic, choice>>

UnlockKilled(th) ==
  /\ Goto(th, "killUnlock", "exited")
  /\ SpinUnlock("killed_threads_lock")
  /\ UNCHANGED <<life, killed_threads, read, traffic, choice>>

-----------------------------------------------------------------------------

ConstructorStep ==
  \/ CreateTiles \/ NewBridge \/ NewBridgeFails \/ PushBridge
  \/ InitSelectorLock \/ InitKilledLock

\* What the destructor does once it has been called.
DestructorStep ==
  \/ ThreadsKilled \/ DestroyKilledLock \/ DestroySelectorLock
  \/ DeleteBridges \/ Finalize

SendStep(th) ==
  \/ LockSelector(th) \/ ReadPos(th) \/ WritePos(th) \/ UnlockSelector(th)
  \/ TakeBridge(th) \/ Sent(th)

ReceiverStep(th) ==
  \/ Listen(th) \/ ProbeNone(th) \/ ProbeSome(th) \/ ReceiveArray(th)
  \/ Store(th)
  \/ LockKilled(th) \/ ReadKilled(th) \/ WriteKilled(th) \/ UnlockKilled(th)

Next ==
  \/ ConstructorStep \/ Deactivate \/ DestructorStep
  \/ Arrive
  \/ \E t \in Tile : CallSend(t)
  \/ \E th \in Thread : SendStep(th)
  \/ \E th \in Receiver : ReceiverStep(th)

Spec == Init /\ [][Next]_vars

(* Threads run; calls of MPI return; the array that a receiving thread     *)
(* waits for comes, because its sender goes on (module Bridge).  A         *)
(* spinlock that is free from some time on is acquired.                    *)
Fairness ==
  /\ WF_vars(ConstructorStep)
  /\ WF_vars(DestructorStep)
  /\ \A th \in Thread : WF_vars(SendStep(th))
  /\ \A th \in Receiver : WF_vars(ReceiverStep(th))

FairSpec == Spec /\ Fairness

-----------------------------------------------------------------------------
(* Properties *)

(* The receiving threads run before the constructor is done.  What they    *)
(* and the tiles use has been initialised: nodes when a packet is stored,  *)
(* bridge_selector_lock and bridge_list ("used for safely selecting a      *)
(* bridge from bridge_list") when a bridge is chosen, killed_threads_lock  *)
(* when kill_thread is called.                                             *)
ReadyBeforeUse ==
  /\ \A th \in Receiver : pc[th] = "store" => nodes
  /\ \A th \in Thread : pc[th] \in Selecting =>
       lock["bridge_selector_lock"] = "ready" /\ bridge_list > 0
  /\ \A th \in Receiver : pc[th] \in {"killLock", "killRead", "killWrite"} =>
       lock["killed_threads_lock"] = "ready"

(* The bridge that System::send takes exists, although bridge_pos is read  *)
(* after the lock is released and other threads may have changed it: the   *)
(* bridge may be one that another sender selected meanwhile (two senders   *)
(* take it and one is passed over), but it is never past the end of        *)
(* bridge_list and never the -1 of before the first selection.             *)
BridgeInRange ==
  \A th \in Thread :
    /\ pc[th] = "at" => 0 <= bridge_pos /\ bridge_pos < bridge_list
    /\ pc[th] = "mpi" => 0 <= taken[th] /\ taken[th] < bridge_list

(* No increment of bridge_pos is lost when threads send at the same time:  *)
(* after n of them it is where n turns lead.  That is all that the lock    *)
(* gives; which bridges are taken is another question.                     *)
NoIncrementLost ==
  holder["bridge_selector_lock"] = Nobody =>
    bridge_pos = IF selections = 0 THEN -1 ELSE (selections - 1) % NBridges

(* Once the destructor has left its waiting loop, no receiving thread is   *)
(* in its loop any more: none calls MPI after MPI_Finalize, none stores a  *)
(* packet, none acquires a lock.                                           *)
ThreadsStopped ==
  main \in Destructor \ {"wait"} =>
    \A th \in Receiver : pc[th] \in {"killUnlock", "exited"}

(* When the destructor has waited "for threads to terminate" and destroys  *)
(* a lock, no thread holds it.                                             *)
LocksOutliveUse ==
  \A l \in Lock : lock[l] = "destroyed" => holder[l] = Nobody

(* The destructor returns: every receiving thread ends and is counted.     *)
DestructorReturns == main = "wait" ~> main = "done"

=============================================================================
