---------------------------- MODULE SystemProofs ----------------------------
(***************************************************************************)
(* Without EVALUATE the life of a System is safe, for any number of        *)
(* bridges and tiles and without a bound on packets and messages: proofs   *)
(* of the safety properties of module System.                              *)
(*                                                                         *)
(* The properties speak of single threads and of the destructor.  Inv adds *)
(* what each phase of the constructor and the destructor leaves to the     *)
(* threads (Roles), who holds a spinlock (Mutex), that what a thread has   *)
(* read under it is still so (ReadOK), and that killed_threads counts the  *)
(* threads that have passed the increment (CountOK).                       *)
(***************************************************************************)
EXTENDS System, FiniteSetTheorems, TLAPS

-----------------------------------------------------------------------------
(* Turns *)

\* The remainder of a number written as a multiple and a rest is that rest.
LEMMA Remainder ==
  ASSUME NEW n \in Nat \ {0}, NEW q \in Nat, NEW r \in 0 .. n - 1
  PROVE  (q * n + r) % n = r
BY Z3

\* Every natural is a multiple of n and a rest.
LEMMA Quotient ==
  ASSUME NEW n \in Nat \ {0}, NEW s \in Nat
  PROVE  \E q \in Nat, r \in 0 .. n - 1 : s = q * n + r
<1> DEFINE q == s \div n
           m == q * n
<1>1. q \in Nat /\ m <= s /\ s < m + n
  BY Z3
<1>2. m \in Nat
  BY <1>1, Z3
<1> HIDE DEF m
<1>3. s - m \in 0 .. n - 1 /\ s = m + (s - m)
  BY <1>1, <1>2
<1> USE DEF m
<1> QED
  BY <1>1, <1>3

\* Remainders of numbers up to n.
LEMMA Small ==
  ASSUME NEW n \in Nat \ {0}
  PROVE  /\ n % n = 0 /\ 0 % n = 0
         /\ \A x \in 0 .. n - 1 : x % n = x
BY Z3

\* The next multiple of n.
LEMMA Distribute ==
  ASSUME NEW n \in Nat, NEW q \in Nat
  PROVE  (q + 1) * n + 0 = q * n + n /\ q * n \in Nat
BY Z3

\* Counting in turn: the turn after s % n is (s + 1) % n.
LEMMA ModuloStep ==
  ASSUME NEW n \in Nat \ {0}, NEW s \in Nat
  PROVE  /\ s % n \in 0 .. n - 1
         /\ ((s % n) + 1) % n = (s + 1) % n
         /\ 0 % n = 0
<1>1. PICK q \in Nat, r \in 0 .. n - 1 : s = q * n + r
  BY Quotient
<1>2. s % n = r
  BY <1>1, Remainder
<1>3. ASSUME r + 1 < n PROVE ((s % n) + 1) % n = (s + 1) % n
  <2>1. s + 1 = q * n + (r + 1) /\ r + 1 \in 0 .. n - 1
    BY <1>1, <1>3, Distribute
  <2>2. (q * n + (r + 1)) % n = r + 1
    BY <2>1, Remainder
  <2>3. (r + 1) % n = r + 1
    BY <1>3, Small
  <2> QED
    BY <1>2, <2>1, <2>2, <2>3, Zenon
<1>4. ASSUME r + 1 = n PROVE ((s % n) + 1) % n = (s + 1) % n
  <2>1. s + 1 = (q + 1) * n + 0
    BY <1>1, <1>4, Distribute
  <2>2. ((q + 1) * n + 0) % n = 0
    BY Remainder
  <2>3. (r + 1) % n = 0
    BY <1>4, Small
  <2> QED
    BY <1>2, <2>1, <2>2, <2>3, Zenon
<1>5. ((s % n) + 1) % n = (s + 1) % n
  BY <1>3, <1>4
<1> QED
  BY <1>2, <1>5, Small

-----------------------------------------------------------------------------

(* Tiles only send, while the System runs; receiving threads only receive, *)
(* from the time their bridge is created until active is false.            *)
Roles ==
  /\ \A t \in Tile : pc[t] \in {"idle", "mpi", "exited"} \cup Selecting
  /\ \A th \in Receiver :
       pc[th] \in {"none", "listen", "probe", "await", "store", "exited"} \cup Killing
  /\ main \notin {"running", "exit"} => \A t \in Tile : pc[t] = "idle"
  /\ main = "tiles" => \A th \in Receiver : pc[th] = "none"
  /\ main # "tiles" => nodes
  /\ main = "exit" => \A th \in Thread : pc[th] = "exited"
  /\ active <=> main \notin Destructor
  /\ active /\ main # "exit" => \A th \in Thread : pc[th] \notin Killing \cup {"exited"}

ListOK ==
  /\ main = "tiles" => bridge_list = 0
  /\ main \in {"newBridge", "pushBridge"} => bridge_list < NBridges
  /\ main \in {"selectorLock", "killedLock", "running"} \cup Destructor =>
       bridge_list = NBridges

LocksOK ==
  /\ main \in {"killedLock", "running", "wait"} => lock["bridge_selector_lock"] = "ready"
  /\ main \in {"running", "wait"} => lock["killed_threads_lock"] = "ready"

\* Exactly the thread that holds a lock is in its critical section.
Mutex ==
  \A th \in Thread :
    /\ pc[th] \in {"read", "write", "unlock"} <=> holder["bridge_selector_lock"] = th
    /\ pc[th] \in {"killRead", "killWrite", "killUnlock"} <=> holder["killed_threads_lock"] = th

ReadOK ==
  \A th \in Thread :
    /\ pc[th] = "write" => read[th] = bridge_pos
    /\ pc[th] = "killWrite" => read[th] = killed_threads

\* bridge_pos is what the number of selections says, also under the lock; a
\* bridge that has been taken exists.
PosOK ==
  /\ bridge_pos = IF selections = 0 THEN -1 ELSE (selections - 1) % NBridges
  /\ \A th \in Thread : pc[th] \in {"unlock", "at"} => selections > 0
  /\ \A th \in Thread : pc[th] = "mpi" => taken[th] \in 0 .. NBridges - 1

Core == TypeOK /\ Roles /\ ListOK /\ LocksOK /\ Mutex /\ ReadOK /\ PosOK

\* The receiving threads that have been counted.
Killed == {th \in Receiver : pc[th] \in {"killUnlock", "exited"}}

CountOK == main # "exit" => killed_threads = Cardinality(Killed)

Inv == Core /\ CountOK /\ ThreadsStopped

-----------------------------------------------------------------------------
(* Counting *)

\* The threads counted in killed_threads are finitely many.
LEMMA KilledFinite ==
  /\ IsFiniteSet(Receiver) /\ Cardinality(Receiver) = NBridges
  /\ IsFiniteSet(Killed) /\ Cardinality(Killed) \in 0 .. NBridges
  /\ Cardinality(Killed) >= NBridges => Killed = Receiver
<1>1. IsFiniteSet(Receiver) /\ Cardinality(Receiver) = NBridges
  BY FS_Interval, SystemAssumption DEF SystemAssumption, Receiver
<1>2. Killed \subseteq Receiver
  BY DEF Killed
<1>3. /\ IsFiniteSet(Killed) /\ Cardinality(Killed) <= NBridges
      /\ Cardinality(Killed) = NBridges => Killed = Receiver
  BY <1>1, <1>2, FS_Subset
<1>4. Cardinality(Killed) \in Nat
  BY <1>3, FS_CardinalityType
<1> QED
  BY <1>1, <1>3, <1>4, SystemAssumption DEF SystemAssumption

-----------------------------------------------------------------------------
(* Inv is inductive *)

\* Nothing has been constructed at first.
LEMMA InitInv == Init => Inv
<1> SUFFICES ASSUME Init PROVE Inv
  OBVIOUS
<1>1. TypeOK
  <2>1. main \in Constructor \cup {"running", "exit"} \cup Destructor
    BY DEF Init, Constructor
  <2>2. /\ bridge_list \in 0 .. NBridges /\ bridge_pos \in -1 .. NBridges - 1
        /\ killed_threads \in 0 .. NBridges
    BY SystemAssumption DEF SystemAssumption, Init
  <2>3. lock \in [Lock -> {"raw", "ready", "destroyed"}]
    BY DEF Init
  <2>4. holder \in [Lock -> Thread \cup {Nobody}]
    BY DEF Init
  <2>5. pc \in [Thread -> {"none", "idle", "listen", "probe", "await", "store",
                        "mpi", "exited"} \cup Selecting \cup Killing]
    BY DEF Init
  <2>6. /\ read \in [Thread -> -1 .. NBridges]
        /\ taken \in [Thread -> -1 .. NBridges - 1]
    BY SystemAssumption DEF SystemAssumption, Init
  <2>7. nodes \in BOOLEAN /\ active \in BOOLEAN
    BY DEF Init
  <2>8. /\ sends \in 0 .. SendLimit /\ messages \in 0 .. MsgLimit
        /\ waiting \in 0 .. messages /\ selections \in Nat
    BY SystemAssumption DEF SystemAssumption, Init
  <2> QED
    BY <2>1, <2>2, <2>3, <2>4, <2>5, <2>6, <2>7, <2>8 DEF TypeOK
<1>2. (Roles /\ ListOK /\ LocksOK /\ ReadOK /\ PosOK)
  BY SystemAssumption DEF SystemAssumption, Init, Roles, ListOK, LocksOK, ReadOK, PosOK, Thread,
     Constructor, Destructor, Selecting, Killing
<1>3. Mutex
  BY SystemAssumption DEF SystemAssumption, Init, Mutex, Thread, Receiver, Nobody, Lock
<1>4. Killed = {}
  <2>1. \A th \in Receiver : th \notin Tile
    BY SystemAssumption DEF SystemAssumption
  <2>2. \A th \in Receiver : pc[th] = "none"
    BY <2>1 DEF Init, Thread
  <2> QED
    BY <2>2 DEF Killed
<1>5. CountOK
  BY <1>4, FS_EmptySet DEF Init, CountOK
<1> QED
  BY <1>1, <1>2, <1>3, <1>5 DEF Inv, Core, Init, ThreadsStopped, Destructor

\* The constructor, step by step.
LEMMA ConstructorInv ==
  ASSUME Inv, ConstructorStep
  PROVE  Inv'
<1> USE DEF Inv
<1>1. CASE CreateTiles
  <2>1. Core'
    BY <1>1, SystemAssumption DEF SystemAssumption, CreateTiles, Core, TypeOK,
       Roles, ListOK, LocksOK, Mutex, ReadOK, PosOK, Thread, Receiver, Lock,
       Constructor, Destructor, Selecting, Killing, Nobody, life, locks,
       traffic, choice
  <2>2. Killed' = Killed
    BY <1>1, SystemAssumption DEF SystemAssumption, CreateTiles, Killed, Core,
       TypeOK, Roles, ListOK, LocksOK, Mutex, ReadOK, PosOK, Thread, Receiver,
       Lock, Constructor, Destructor, Selecting, Killing, Nobody, life, locks,
       traffic, choice
  <2> QED
    BY <1>1, <2>1, <2>2 DEF CreateTiles, CountOK, ThreadsStopped, Receiver,
       Thread, Destructor, Core, TypeOK, Roles, life
<1>2. CASE NewBridge
  <2>1. Core'
    BY <1>2, SystemAssumption DEF SystemAssumption, NewBridge, Core, TypeOK,
       Roles, ListOK, LocksOK, Mutex, ReadOK, PosOK, Thread, Receiver, Lock,
       Constructor, Destructor, Selecting, Killing, Nobody, life, locks,
       traffic, choice
  <2>2. Killed' = Killed
    BY <1>2, SystemAssumption DEF SystemAssumption, NewBridge, Killed, Core,
       TypeOK, Roles, ListOK, LocksOK, Mutex, ReadOK, PosOK, Thread, Receiver,
       Lock, Constructor, Destructor, Selecting, Killing, Nobody, life, locks,
       traffic, choice
  <2> QED
    BY <1>2, <2>1, <2>2 DEF NewBridge, CountOK, ThreadsStopped, Receiver,
       Thread, Destructor, Core, TypeOK, Roles, life
<1>3. CASE NewBridgeFails
  <2>1. Core'
    BY <1>3, SystemAssumption DEF SystemAssumption, NewBridgeFails, Core,
       TypeOK, Roles, ListOK, LocksOK, Mutex, ReadOK, PosOK, Thread, Receiver,
       Lock, Constructor, Destructor, Selecting, Killing, Nobody, life, locks,
       traffic, choice
  <2> QED
    BY <1>3, <2>1 DEF NewBridgeFails, Inv, CountOK, ThreadsStopped, Destructor
<1>4. CASE PushBridge
  <2>1. Core'
    BY <1>4, SystemAssumption DEF SystemAssumption, PushBridge, Core, TypeOK,
       Roles, ListOK, LocksOK, Mutex, ReadOK, PosOK, Thread, Receiver, Lock,
       Constructor, Destructor, Selecting, Killing, Nobody, life, locks,
       traffic, choice
  <2>2. Killed' = Killed
    BY <1>4, SystemAssumption DEF SystemAssumption, PushBridge, Killed, Core,
       TypeOK, Roles, ListOK, LocksOK, Mutex, ReadOK, PosOK, Thread, Receiver,
       Lock, Constructor, Destructor, Selecting, Killing, Nobody, life, locks,
       traffic, choice
  <2> QED
    BY <1>4, <2>1, <2>2 DEF PushBridge, CountOK, ThreadsStopped, Receiver,
       Thread, Destructor, Core, TypeOK, Roles, life
<1>5. CASE InitSelectorLock
  <2>1. Core'
    BY <1>5, SystemAssumption DEF SystemAssumption, InitSelectorLock, InitLock,
       Core, TypeOK, Roles, ListOK, LocksOK, Mutex, ReadOK, PosOK, Thread,
       Receiver, Lock, Constructor, Destructor, Selecting, Killing, Nobody,
       life, locks, traffic, choice
  <2>2. Killed' = Killed
    BY <1>5, SystemAssumption DEF SystemAssumption, InitSelectorLock, InitLock,
       Killed, Core, TypeOK, Roles, ListOK, LocksOK, Mutex, ReadOK, PosOK,
       Thread, Receiver, Lock, Constructor, Destructor, Selecting, Killing,
       Nobody, life, locks, traffic, choice
  <2> QED
    BY <1>5, <2>1, <2>2 DEF InitSelectorLock, InitLock, CountOK,
       ThreadsStopped, Receiver, Thread, Destructor, Core, TypeOK, Roles, life
<1>6. CASE InitKilledLock
  <2>1. Core'
    BY <1>6, SystemAssumption DEF SystemAssumption, InitKilledLock, InitLock,
       Core, TypeOK, Roles, ListOK, LocksOK, Mutex, ReadOK, PosOK, Thread,
       Receiver, Lock, Constructor, Destructor, Selecting, Killing, Nobody,
       life, locks, traffic, choice
  <2>2. Killed' = Killed
    BY <1>6, SystemAssumption DEF SystemAssumption, InitKilledLock, InitLock,
       Killed, Core, TypeOK, Roles, ListOK, LocksOK, Mutex, ReadOK, PosOK,
       Thread, Receiver, Lock, Constructor, Destructor, Selecting, Killing,
       Nobody, life, locks, traffic, choice
  <2> QED
    BY <1>6, <2>1, <2>2 DEF InitKilledLock, InitLock, CountOK, ThreadsStopped,
       Receiver, Thread, Destructor, Core, TypeOK, Roles, life
<1> QED
  BY <1>1, <1>2, <1>3, <1>4, <1>5, <1>6 DEF ConstructorStep

\* The destructor, step by step.
LEMMA DestructorInv ==
  ASSUME Inv, Deactivate \/ DestructorStep
  PROVE  Inv'
<1> USE DEF Inv
<1>1. CASE Deactivate
  <2>1. Core'
    BY <1>1, SystemAssumption DEF SystemAssumption, Deactivate, Core, TypeOK,
       Roles, ListOK, LocksOK, Mutex, ReadOK, PosOK, Thread, Receiver, Lock,
       Constructor, Destructor, Selecting, Killing, Nobody, life, locks,
       traffic, choice
  <2>2. Killed' = Killed
    BY <1>1, SystemAssumption DEF SystemAssumption, Deactivate, Killed, Core,
       TypeOK, Roles, ListOK, LocksOK, Mutex, ReadOK, PosOK, Thread, Receiver,
       Lock, Constructor, Destructor, Selecting, Killing, Nobody, life, locks,
       traffic, choice
  <2> QED
    BY <1>1, <2>1, <2>2 DEF Deactivate, CountOK, ThreadsStopped, Receiver,
       Thread, Destructor, Core, TypeOK, Roles, life
<1>2. CASE ThreadsKilled
  <2>1. Core'
    BY <1>2, SystemAssumption DEF SystemAssumption, ThreadsKilled, Main, Core,
       TypeOK, Roles, ListOK, LocksOK, Mutex, ReadOK, PosOK, Thread, Receiver,
       Lock, Constructor, Destructor, Selecting, Killing, Nobody, life, locks,
       traffic, choice
  <2>2. Killed' = Killed
    BY <1>2 DEF ThreadsKilled, Main, Killed
  <2>3. Killed = Receiver
    <3>1. killed_threads = Cardinality(Killed) /\ killed_threads >= NBridges
      BY <1>2 DEF ThreadsKilled, Main, CountOK, Core, ListOK, Destructor
    <3> QED
      BY <3>1, KilledFinite
  <2>4. ThreadsStopped'
    BY <2>2, <2>3 DEF ThreadsStopped, Killed
  <2> QED
    BY <1>2, <2>1, <2>2, <2>4 DEF ThreadsKilled, Main, CountOK
<1>3. CASE DestroyKilledLock
  <2>1. Core'
    BY <1>3, SystemAssumption DEF SystemAssumption, DestroyKilledLock,
       DestroyLock, Core, TypeOK, Roles, ListOK, LocksOK, Mutex, ReadOK, PosOK,
       Thread, Receiver, Lock, Constructor, Destructor, Selecting, Killing,
       Nobody, life, locks, traffic, choice
  <2>2. Killed' = Killed
    BY <1>3, SystemAssumption DEF SystemAssumption, DestroyKilledLock,
       DestroyLock, Killed, Core, TypeOK, Roles, ListOK, LocksOK, Mutex,
       ReadOK, PosOK, Thread, Receiver, Lock, Constructor, Destructor,
       Selecting, Killing, Nobody, life, locks, traffic, choice
  <2> QED
    BY <1>3, <2>1, <2>2 DEF DestroyKilledLock, DestroyLock, CountOK,
       ThreadsStopped, Receiver, Thread, Destructor, Core, TypeOK, Roles, life
<1>4. CASE DestroySelectorLock
  <2>1. Core'
    BY <1>4, SystemAssumption DEF SystemAssumption, DestroySelectorLock,
       DestroyLock, Core, TypeOK, Roles, ListOK, LocksOK, Mutex, ReadOK, PosOK,
       Thread, Receiver, Lock, Constructor, Destructor, Selecting, Killing,
       Nobody, life, locks, traffic, choice
  <2>2. Killed' = Killed
    BY <1>4, SystemAssumption DEF SystemAssumption, DestroySelectorLock,
       DestroyLock, Killed, Core, TypeOK, Roles, ListOK, LocksOK, Mutex,
       ReadOK, PosOK, Thread, Receiver, Lock, Constructor, Destructor,
       Selecting, Killing, Nobody, life, locks, traffic, choice
  <2> QED
    BY <1>4, <2>1, <2>2 DEF DestroySelectorLock, DestroyLock, CountOK,
       ThreadsStopped, Receiver, Thread, Destructor, Core, TypeOK, Roles, life
<1>5. CASE DeleteBridges
  <2>1. Core'
    BY <1>5, SystemAssumption DEF SystemAssumption, DeleteBridges, Main, Core,
       TypeOK, Roles, ListOK, LocksOK, Mutex, ReadOK, PosOK, Thread, Receiver,
       Lock, Constructor, Destructor, Selecting, Killing, Nobody, life, locks,
       traffic, choice
  <2>2. Killed' = Killed
    BY <1>5, SystemAssumption DEF SystemAssumption, DeleteBridges, Main,
       Killed, Core, TypeOK, Roles, ListOK, LocksOK, Mutex, ReadOK, PosOK,
       Thread, Receiver, Lock, Constructor, Destructor, Selecting, Killing,
       Nobody, life, locks, traffic, choice
  <2> QED
    BY <1>5, <2>1, <2>2 DEF DeleteBridges, Main, CountOK, ThreadsStopped,
       Receiver, Thread, Destructor, Core, TypeOK, Roles, life
<1>6. CASE Finalize
  <2>1. Core'
    BY <1>6, SystemAssumption DEF SystemAssumption, Finalize, Main, Core,
       TypeOK, Roles, ListOK, LocksOK, Mutex, ReadOK, PosOK, Thread, Receiver,
       Lock, Constructor, Destructor, Selecting, Killing, Nobody, life, locks,
       traffic, choice
  <2>2. Killed' = Killed
    BY <1>6, SystemAssumption DEF SystemAssumption, Finalize, Main, Killed,
       Core, TypeOK, Roles, ListOK, LocksOK, Mutex, ReadOK, PosOK, Thread,
       Receiver, Lock, Constructor, Destructor, Selecting, Killing, Nobody,
       life, locks, traffic, choice
  <2> QED
    BY <1>6, <2>1, <2>2 DEF Finalize, Main, CountOK, ThreadsStopped, Receiver,
       Thread, Destructor, Core, TypeOK, Roles, life
<1> QED
  BY <1>1, <1>2, <1>3, <1>4, <1>5, <1>6 DEF DestructorStep

\* Once a bridge has been selected, bridge_pos is the index of one.
LEMMA PosInRange ==
  ASSUME TypeOK, PosOK, NEW th \in Thread, pc[th] = "at"
  PROVE  bridge_pos \in 0 .. NBridges - 1
<1>1. selections \in Nat \ {0}
  BY DEF TypeOK, PosOK
<1> DEFINE s == selections - 1
<1>2. s \in Nat /\ bridge_pos = s % NBridges
  BY <1>1 DEF PosOK
<1> HIDE DEF s
<1> QED
  BY <1>2, ModuloStep, SystemAssumption DEF SystemAssumption

\* The choice of a bridge, step by step.
LEMMA SenderInv ==
  ASSUME Inv, NEW th \in Tile, CallSend(th) \/ SendStep(th)
  PROVE  Inv'
<1> USE DEF Inv
<1>1. CASE CallSend(th)
  <2>1. Core'
    BY <1>1, SystemAssumption DEF SystemAssumption, CallSend, Goto, Core,
       TypeOK, Roles, ListOK, LocksOK, Mutex, ReadOK, PosOK, Thread, Receiver,
       Lock, Constructor, Destructor, Selecting, Killing, Nobody, life, locks,
       traffic, choice
  <2>2. Killed' = Killed
    BY <1>1, SystemAssumption DEF SystemAssumption, CallSend, Goto, Killed,
       Core, TypeOK, Roles, ListOK, LocksOK, Mutex, ReadOK, PosOK, Thread,
       Receiver, Lock, Constructor, Destructor, Selecting, Killing, Nobody,
       life, locks, traffic, choice
  <2> QED
    BY <1>1, <2>1, <2>2 DEF CallSend, Goto, CountOK, ThreadsStopped, Receiver,
       Thread, Destructor, Core, TypeOK, Roles, life
<1>2. CASE LockSelector(th)
  <2>1. Core'
    BY <1>2, SystemAssumption DEF SystemAssumption, LockSelector, SpinLock,
       Goto, Core, TypeOK, Roles, ListOK, LocksOK, Mutex, ReadOK, PosOK,
       Thread, Receiver, Lock, Constructor, Destructor, Selecting, Killing,
       Nobody, life, locks, traffic, choice
  <2>2. Killed' = Killed
    BY <1>2, SystemAssumption DEF SystemAssumption, LockSelector, SpinLock,
       Goto, Killed, Core, TypeOK, Roles, ListOK, LocksOK, Mutex, ReadOK,
       PosOK, Thread, Receiver, Lock, Constructor, Destructor, Selecting,
       Killing, Nobody, life, locks, traffic, choice
  <2> QED
    BY <1>2, <2>1, <2>2 DEF LockSelector, SpinLock, Goto, CountOK,
       ThreadsStopped, Receiver, Thread, Destructor, Core, TypeOK, Roles, life
<1>3. CASE ReadPos(th)
  <2>1. Core'
    BY <1>3, SystemAssumption DEF SystemAssumption, ReadPos, Goto, Core,
       TypeOK, Roles, ListOK, LocksOK, Mutex, ReadOK, PosOK, Thread, Receiver,
       Lock, Constructor, Destructor, Selecting, Killing, Nobody, life, locks,
       traffic, choice
  <2>2. Killed' = Killed
    BY <1>3, SystemAssumption DEF SystemAssumption, ReadPos, Goto, Killed,
       Core, TypeOK, Roles, ListOK, LocksOK, Mutex, ReadOK, PosOK, Thread,
       Receiver, Lock, Constructor, Destructor, Selecting, Killing, Nobody,
       life, locks, traffic, choice
  <2> QED
    BY <1>3, <2>1, <2>2 DEF ReadPos, Goto, CountOK, ThreadsStopped, Receiver,
       Thread, Destructor, Core, TypeOK, Roles, life
<1>4. CASE WritePos(th)
  <2>1. pc[th] = "write" /\ read[th] = bridge_pos /\ main = "running" /\ bridge_list = NBridges
    BY <1>4 DEF WritePos, Goto, Core, TypeOK, Roles, ListOK, LocksOK, Mutex,
       ReadOK, PosOK, Thread, Receiver, Lock, Constructor, Destructor,
       Selecting, Killing, Nobody, life, locks, traffic, choice
  <2>2. /\ bridge_pos' = (bridge_pos + 1) % NBridges
        /\ selections' = selections + 1 /\ selections \in Nat
    BY <1>4, <2>1 DEF WritePos, NextPos, Core, TypeOK
  <2>3. bridge_pos' = selections % NBridges /\ bridge_pos' \in 0 .. NBridges - 1
    <3>1. CASE selections = 0
      BY <2>2, <3>1, ModuloStep, SystemAssumption DEF SystemAssumption, Core, PosOK
    <3>2. CASE selections # 0
      <4> DEFINE s == selections - 1
      <4>1. s \in Nat /\ bridge_pos = s % NBridges /\ selections = s + 1
        BY <2>2, <3>2 DEF Core, PosOK
      <4> HIDE DEF s
      <4> QED
        BY <2>2, <4>1, ModuloStep, SystemAssumption DEF SystemAssumption
    <3> QED
      BY <3>1, <3>2
  <2>4. bridge_pos' = IF selections' = 0 THEN -1 ELSE (selections' - 1) % NBridges
    BY <2>2, <2>3
  <2>5. TypeOK'
    <3>1. pc' \in [Thread -> {"none", "idle", "listen", "probe", "await", "store",
                         "mpi", "exited"} \cup Selecting \cup Killing]
      BY <1>4 DEF WritePos, Goto, Core, TypeOK, Selecting
    <3>2. bridge_pos' \in -1 .. NBridges - 1 /\ selections' \in Nat
      BY <2>2, <2>3, SystemAssumption DEF SystemAssumption
    <3>3. UNCHANGED <<main, nodes, bridge_list, active, killed_threads, lock, holder, read,
                      taken, sends, messages, waiting>>
      BY <1>4 DEF WritePos, life, locks, traffic
    <3> QED
      BY <3>1, <3>2, <3>3 DEF Core, TypeOK
  <2>6. PosOK'
    BY <1>4, <2>2, <2>4 DEF WritePos, Goto, PosOK, Core, TypeOK, life
  <2>7. (Roles /\ ListOK /\ LocksOK)'
    BY <1>4, <2>1, SystemAssumption DEF SystemAssumption, WritePos, Goto, Core,
       TypeOK, Roles, ListOK, LocksOK, Thread, Selecting, Killing, life, locks
  <2>8. (Mutex /\ ReadOK)'
    BY <1>4, <2>1 DEF WritePos, Goto, Core, TypeOK, Mutex, ReadOK, Thread, locks
  <2>9. Killed' = Killed
    BY <1>4 DEF WritePos, Goto, Killed, Core, TypeOK, Roles, ListOK, LocksOK,
       Mutex, ReadOK, PosOK, Thread, Receiver, Lock, Constructor, Destructor,
       Selecting, Killing, Nobody, life, locks, traffic, choice
  <2> QED
    BY <1>4, <2>1, <2>5, <2>6, <2>7, <2>8, <2>9
    DEF WritePos, Core, CountOK, ThreadsStopped, Destructor, life
<1>5. CASE UnlockSelector(th)
  <2> USE DEF UnlockSelector, SpinUnlock, Goto
  <2>1. TypeOK'
    <3>1. pc' \in [Thread -> {"none", "idle", "listen", "probe", "await", "store",
                         "mpi", "exited"} \cup Selecting \cup Killing]
      BY <1>5 DEF Core, TypeOK, Selecting
    <3>2. holder' \in [Lock -> Thread \cup {Nobody}]
      BY <1>5 DEF Core, TypeOK
    <3>3. UNCHANGED <<main, nodes, bridge_list, bridge_pos, active, killed_threads, lock, read,
                      taken, sends, messages, waiting, selections>>
      BY <1>5 DEF life, traffic, choice
    <3> QED
      BY <3>1, <3>2, <3>3 DEF Core, TypeOK
  <2>2. Mutex'
    <3>1. Nobody \notin Thread
      BY SystemAssumption DEF SystemAssumption, Thread, Receiver, Nobody
    <3>2. /\ th \in Thread /\ pc[th] = "unlock" /\ holder["bridge_selector_lock"] = th
          /\ pc' = [pc EXCEPT ![th] = "at"]
          /\ holder' = [holder EXCEPT !["bridge_selector_lock"] = Nobody]
      BY <1>5 DEF Core, Mutex, Thread
    <3> QED
      BY <3>1, <3>2 DEF Core, TypeOK, Mutex, Lock
  <2>3. (Roles /\ ListOK /\ LocksOK)'
    BY <1>5, SystemAssumption DEF SystemAssumption, Core, TypeOK, Roles, ListOK,
       LocksOK, Thread, Selecting, Killing, life
  <2>4. (ReadOK /\ PosOK)'
    <3>1. selections > 0
      BY <1>5 DEF Core, TypeOK, ReadOK, PosOK, Thread
    <3> QED
      BY <1>5, <3>1 DEF Core, TypeOK, ReadOK, PosOK, Thread, choice
  <2>5. Killed' = Killed
    BY <1>5 DEF Killed, Core, TypeOK, Thread
  <2> QED
    BY <1>5, <2>1, <2>2, <2>3, <2>4, <2>5 DEF CountOK, ThreadsStopped, Receiver,
       Thread, Destructor, Core, TypeOK, Roles, life
<1>6. CASE TakeBridge(th)
  <2>1. /\ pc[th] = "at" /\ main = "running" /\ th \in Thread
        /\ pc' = [pc EXCEPT ![th] = "mpi"]
        /\ taken' = [taken EXCEPT ![th] = bridge_pos]
        /\ UNCHANGED <<life, killed_threads, locks, read, traffic, bridge_pos, selections>>
    BY <1>6, SystemAssumption DEF SystemAssumption, TakeBridge, Goto, Core, TypeOK, Roles,
       Thread, Constructor, Destructor, Selecting
  <2>2. bridge_pos \in 0 .. NBridges - 1
    BY <2>1, PosInRange DEF Core
  <2>3. TypeOK'
    BY <2>1, <2>2, SystemAssumption DEF SystemAssumption, Core, TypeOK, Selecting, life, locks,
       traffic
  <2>4. PosOK'
    BY <2>1, <2>2 DEF Core, TypeOK, PosOK
  <2>5. (Roles /\ ListOK /\ LocksOK)'
    BY <2>1, SystemAssumption DEF SystemAssumption, Core, TypeOK, Roles, ListOK,
       LocksOK, Thread, Selecting, Killing, life, locks
  <2>6. (Mutex /\ ReadOK)'
    BY <2>1, SystemAssumption DEF SystemAssumption, Core, TypeOK, Mutex, ReadOK, life, locks
  <2>7. Killed' = Killed
    BY <2>1, SystemAssumption DEF SystemAssumption, Killed, Core, TypeOK, Thread
  <2> QED
    BY <2>1, <2>3, <2>4, <2>5, <2>6, <2>7 DEF CountOK, ThreadsStopped, Destructor, Core, life
<1>7. CASE Sent(th)
  <2>1. Core'
    BY <1>7, SystemAssumption DEF SystemAssumption, Sent, Step, Goto, Core,
       TypeOK, Roles, ListOK, LocksOK, Mutex, ReadOK, PosOK, Thread, Receiver,
       Lock, Constructor, Destructor, Selecting, Killing, Nobody, life, locks,
       traffic, choice
  <2>2. Killed' = Killed
    BY <1>7, SystemAssumption DEF SystemAssumption, Sent, Step, Goto, Killed,
       Core, TypeOK, Roles, ListOK, LocksOK, Mutex, ReadOK, PosOK, Thread,
       Receiver, Lock, Constructor, Destructor, Selecting, Killing, Nobody,
       life, locks, traffic, choice
  <2> QED
    BY <1>7, <2>1, <2>2 DEF Sent, Step, Goto, CountOK, ThreadsStopped,
       Receiver, Thread, Destructor, Core, TypeOK, Roles, life
<1> QED
  BY <1>1, <1>2, <1>3, <1>4, <1>5, <1>6, <1>7 DEF SendStep

\* A receiving thread, step by step.
LEMMA ReceiverInv ==
  ASSUME Inv, ~Evaluate, NEW th \in Receiver, ReceiverStep(th)
  PROVE  Inv'
<1> USE DEF Inv
<1>1. CASE Listen(th)
  <2>1. Core'
    BY <1>1, SystemAssumption DEF SystemAssumption, Listen, Step, Goto, Core,
       TypeOK, Roles, ListOK, LocksOK, Mutex, ReadOK, PosOK, Thread, Receiver,
       Lock, Constructor, Destructor, Selecting, Killing, Nobody, life, locks,
       traffic, choice
  <2>2. Killed' = Killed
    BY <1>1, SystemAssumption DEF SystemAssumption, Listen, Step, Goto, Killed,
       Core, TypeOK, Roles, ListOK, LocksOK, Mutex, ReadOK, PosOK, Thread,
       Receiver, Lock, Constructor, Destructor, Selecting, Killing, Nobody,
       life, locks, traffic, choice
  <2> QED
    BY <1>1, <2>1, <2>2 DEF Listen, Step, Goto, CountOK, ThreadsStopped,
       Receiver, Thread, Destructor, Core, TypeOK, Roles, life
<1>2. CASE ProbeNone(th)
  <2>1. Core'
    BY <1>2, SystemAssumption DEF SystemAssumption, ProbeNone, Goto, Core,
       TypeOK, Roles, ListOK, LocksOK, Mutex, ReadOK, PosOK, Thread, Receiver,
       Lock, Constructor, Destructor, Selecting, Killing, Nobody, life, locks,
       traffic, choice
  <2>2. Killed' = Killed
    BY <1>2, SystemAssumption DEF SystemAssumption, ProbeNone, Goto, Killed,
       Core, TypeOK, Roles, ListOK, LocksOK, Mutex, ReadOK, PosOK, Thread,
       Receiver, Lock, Constructor, Destructor, Selecting, Killing, Nobody,
       life, locks, traffic, choice
  <2> QED
    BY <1>2, <2>1, <2>2 DEF ProbeNone, Goto, CountOK, ThreadsStopped, Receiver,
       Thread, Destructor, Core, TypeOK, Roles, life
<1>3. CASE ProbeSome(th)
  <2>1. Core'
    BY <1>3, SystemAssumption DEF SystemAssumption, ProbeSome, Goto, Core,
       TypeOK, Roles, ListOK, LocksOK, Mutex, ReadOK, PosOK, Thread, Receiver,
       Lock, Constructor, Destructor, Selecting, Killing, Nobody, life, locks,
       traffic, choice
  <2>2. Killed' = Killed
    BY <1>3, SystemAssumption DEF SystemAssumption, ProbeSome, Goto, Killed,
       Core, TypeOK, Roles, ListOK, LocksOK, Mutex, ReadOK, PosOK, Thread,
       Receiver, Lock, Constructor, Destructor, Selecting, Killing, Nobody,
       life, locks, traffic, choice
  <2> QED
    BY <1>3, <2>1, <2>2 DEF ProbeSome, Goto, CountOK, ThreadsStopped, Receiver,
       Thread, Destructor, Core, TypeOK, Roles, life
<1>4. CASE ReceiveArray(th)
  <2>1. Core'
    BY <1>4, SystemAssumption DEF SystemAssumption, ReceiveArray, Step, Goto,
       Core, TypeOK, Roles, ListOK, LocksOK, Mutex, ReadOK, PosOK, Thread,
       Receiver, Lock, Constructor, Destructor, Selecting, Killing, Nobody,
       life, locks, traffic, choice
  <2>2. Killed' = Killed
    BY <1>4, SystemAssumption DEF SystemAssumption, ReceiveArray, Step, Goto,
       Killed, Core, TypeOK, Roles, ListOK, LocksOK, Mutex, ReadOK, PosOK,
       Thread, Receiver, Lock, Constructor, Destructor, Selecting, Killing,
       Nobody, life, locks, traffic, choice
  <2> QED
    BY <1>4, <2>1, <2>2 DEF ReceiveArray, Step, Goto, CountOK, ThreadsStopped,
       Receiver, Thread, Destructor, Core, TypeOK, Roles, life
<1>5. CASE Store(th)
  <2>1. Core'
    BY <1>5, SystemAssumption DEF SystemAssumption, Store, Step, Goto, Core,
       TypeOK, Roles, ListOK, LocksOK, Mutex, ReadOK, PosOK, Thread, Receiver,
       Lock, Constructor, Destructor, Selecting, Killing, Nobody, life, locks,
       traffic, choice
  <2>2. Killed' = Killed
    BY <1>5, SystemAssumption DEF SystemAssumption, Store, Step, Goto, Killed,
       Core, TypeOK, Roles, ListOK, LocksOK, Mutex, ReadOK, PosOK, Thread,
       Receiver, Lock, Constructor, Destructor, Selecting, Killing, Nobody,
       life, locks, traffic, choice
  <2> QED
    BY <1>5, <2>1, <2>2 DEF Store, Step, Goto, CountOK, ThreadsStopped,
       Receiver, Thread, Destructor, Core, TypeOK, Roles, life
<1>6. CASE LockKilled(th)
  <2>1. Core'
    BY <1>6, SystemAssumption DEF SystemAssumption, LockKilled, SpinLock, Goto,
       Core, TypeOK, Roles, ListOK, LocksOK, Mutex, ReadOK, PosOK, Thread,
       Receiver, Lock, Constructor, Destructor, Selecting, Killing, Nobody,
       life, locks, traffic, choice
  <2>2. Killed' = Killed
    BY <1>6, SystemAssumption DEF SystemAssumption, LockKilled, SpinLock, Goto,
       Killed, Core, TypeOK, Roles, ListOK, LocksOK, Mutex, ReadOK, PosOK,
       Thread, Receiver, Lock, Constructor, Destructor, Selecting, Killing,
       Nobody, life, locks, traffic, choice
  <2> QED
    BY <1>6, <2>1, <2>2 DEF LockKilled, SpinLock, Goto, CountOK,
       ThreadsStopped, Receiver, Thread, Destructor, Core, TypeOK, Roles, life
<1>7. CASE ReadKilled(th)
  <2>1. Core'
    BY <1>7, SystemAssumption DEF SystemAssumption, ReadKilled, Goto, Core,
       TypeOK, Roles, ListOK, LocksOK, Mutex, ReadOK, PosOK, Thread, Receiver,
       Lock, Constructor, Destructor, Selecting, Killing, Nobody, life, locks,
       traffic, choice
  <2>2. Killed' = Killed
    BY <1>7, SystemAssumption DEF SystemAssumption, ReadKilled, Goto, Killed,
       Core, TypeOK, Roles, ListOK, LocksOK, Mutex, ReadOK, PosOK, Thread,
       Receiver, Lock, Constructor, Destructor, Selecting, Killing, Nobody,
       life, locks, traffic, choice
  <2> QED
    BY <1>7, <2>1, <2>2 DEF ReadKilled, Goto, CountOK, ThreadsStopped,
       Receiver, Thread, Destructor, Core, TypeOK, Roles, life
<1>8. CASE WriteKilled(th)
  <2>1. /\ pc[th] = "killWrite" /\ read[th] = killed_threads
        /\ main # "exit" /\ killed_threads = Cardinality(Killed)
    BY <1>8 DEF WriteKilled, Goto, CountOK, Core, TypeOK, Roles, ListOK, LocksOK,
       Mutex, ReadOK, PosOK, Thread, Receiver, Lock, Constructor, Destructor,
       Selecting, Killing, Nobody, life, locks, traffic, choice
  <2>2. th \notin Killed /\ Killed' = Killed \cup {th}
    BY <1>8, <2>1 DEF WriteKilled, Goto, Killed, Core, TypeOK, Thread
  <2>3. Cardinality(Killed') = killed_threads + 1
    BY <2>1, <2>2, KilledFinite, FS_AddElement
  <2>4. killed_threads' = Cardinality(Killed') /\ killed_threads' \in 0 .. NBridges
    <3>1. Killed' \subseteq Receiver
      BY <2>2 DEF Killed
    <3>2. Cardinality(Killed') <= NBridges
      BY <3>1, KilledFinite, FS_Subset
    <3> QED
      BY <1>8, <2>1, <2>3, <3>2, KilledFinite DEF WriteKilled
  <2>5. TypeOK'
    BY <1>8, <2>4 DEF WriteKilled, Goto, Core, TypeOK, Killing, life, locks,
       traffic, choice
  <2>6. (Roles /\ ListOK /\ LocksOK /\ Mutex /\ ReadOK /\ PosOK)'
    BY <1>8, <2>1 DEF WriteKilled, Goto, Core, TypeOK, Roles, ListOK, LocksOK,
       Mutex, ReadOK, PosOK, Thread, Receiver, Lock, Constructor, Destructor,
       Selecting, Killing, Nobody, life, locks, traffic, choice
  <2>7. ThreadsStopped'
    BY <1>8, <2>2 DEF WriteKilled, Goto, ThreadsStopped, Core, TypeOK, Thread, life
  <2> QED
    BY <1>8, <2>4, <2>5, <2>6, <2>7 DEF Core, CountOK
<1>9. CASE UnlockKilled(th)
  <2>1. Core'
    BY <1>9, SystemAssumption DEF SystemAssumption, UnlockKilled, SpinUnlock,
       Goto, Core, TypeOK, Roles, ListOK, LocksOK, Mutex, ReadOK, PosOK,
       Thread, Receiver, Lock, Constructor, Destructor, Selecting, Killing,
       Nobody, life, locks, traffic, choice
  <2>2. Killed' = Killed
    BY <1>9, SystemAssumption DEF SystemAssumption, UnlockKilled, SpinUnlock,
       Goto, Killed, Core, TypeOK, Roles, ListOK, LocksOK, Mutex, ReadOK,
       PosOK, Thread, Receiver, Lock, Constructor, Destructor, Selecting,
       Killing, Nobody, life, locks, traffic, choice
  <2> QED
    BY <1>9, <2>1, <2>2 DEF UnlockKilled, SpinUnlock, Goto, CountOK,
       ThreadsStopped, Receiver, Thread, Destructor, Core, TypeOK, Roles, life
<1> QED
  BY <1>1, <1>2, <1>3, <1>4, <1>5, <1>6, <1>7, <1>8, <1>9 DEF ReceiverStep

\* Inv is inductive.
LEMMA StepInv ==
  ASSUME ~Evaluate, Inv, [Next]_vars
  PROVE  Inv'
<1>1. CASE ConstructorStep
  BY <1>1, ConstructorInv
<1>2. CASE Deactivate \/ DestructorStep
  BY <1>2, DestructorInv
<1>3. CASE Arrive
  <2>1. Core'
    BY <1>3, SystemAssumption DEF SystemAssumption, Inv, Arrive, Core, TypeOK, Roles, ListOK,
       LocksOK, Mutex, ReadOK, PosOK, life, locks, traffic, choice
  <2> QED
    BY <1>3, <2>1 DEF Inv, Arrive, CountOK, ThreadsStopped, Killed, life
<1>4. CASE \E t \in Tile : CallSend(t)
  BY <1>4, SenderInv
<1>5. CASE \E th \in Thread : SendStep(th)
  <2>1. PICK th \in Thread : SendStep(th)
    BY <1>5
  <2>2. th \notin Receiver
    BY <2>1 DEF Inv, Core, Roles, Selecting, Killing, SendStep, LockSelector, ReadPos, WritePos,
       UnlockSelector, TakeBridge, Sent, Step, Goto
  <2> QED
    BY <2>1, <2>2, SenderInv DEF Thread
<1>6. CASE \E th \in Receiver : ReceiverStep(th)
  BY <1>6, ReceiverInv
<1>7. CASE UNCHANGED vars
  BY <1>7 DEF Inv, vars, Core, TypeOK, Roles, ListOK, LocksOK, Mutex, ReadOK, PosOK, CountOK,
     Killed, ThreadsStopped
<1> QED
  BY <1>1, <1>2, <1>3, <1>4, <1>5, <1>6, <1>7 DEF Next

-----------------------------------------------------------------------------
(* Theorems *)

(* Without EVALUATE, Inv always holds.                                     *)
THEOREM InvCorrect ==
  ASSUME ~Evaluate
  PROVE  Spec => []Inv
<1>1. Inv /\ [Next]_vars => Inv'
  BY StepInv
<1> QED
  BY InitInv, <1>1, PTL DEF Spec

(* Every variable keeps its type; killed_threads does not exceed the number *)
(* of bridges.                                                             *)
THEOREM TypeOKCorrect ==
  ASSUME ~Evaluate
  PROVE  Spec => []TypeOK
<1>1. Inv => TypeOK
  BY DEF Inv, Core
<1> QED
  BY InvCorrect, <1>1, PTL

(* Nothing is used before the constructor has made it, by the receiving    *)
(* threads that it starts or by tiles.                                     *)
THEOREM ReadyBeforeUseCorrect ==
  ASSUME ~Evaluate
  PROVE  Spec => []ReadyBeforeUse
<1>1. Inv => ReadyBeforeUse
  BY SystemAssumption DEF SystemAssumption, Inv, Core, TypeOK, Roles, ListOK, LocksOK,
     ThreadsStopped, ReadyBeforeUse, Thread, Receiver, Constructor, Destructor, Selecting, Killing
<1> QED
  BY InvCorrect, <1>1, PTL

(* The bridge that System::send takes is in bridge_list.                   *)
THEOREM BridgeInRangeCorrect ==
  ASSUME ~Evaluate
  PROVE  Spec => []BridgeInRange
<1>1. Inv => BridgeInRange
  <2> SUFFICES ASSUME Inv, NEW th \in Thread, pc[th] \in {"at", "mpi"}
               PROVE  /\ bridge_list = NBridges
                      /\ pc[th] = "at" => bridge_pos \in 0 .. NBridges - 1
                      /\ pc[th] = "mpi" => taken[th] \in 0 .. NBridges - 1
    BY SystemAssumption DEF SystemAssumption, BridgeInRange
  <2>1. main = "running" \/ main \in Destructor
    BY DEF Inv, Core, TypeOK, Roles, Thread, Constructor, Destructor, Selecting, Killing
  <2> QED
    BY <2>1, PosInRange DEF Inv, Core, ListOK, PosOK
<1> QED
  BY InvCorrect, <1>1, PTL

(* No increment of bridge_pos is lost.                                     *)
THEOREM NoIncrementLostCorrect ==
  ASSUME ~Evaluate
  PROVE  Spec => []NoIncrementLost
<1>1. Inv => NoIncrementLost
  BY DEF Inv, Core, PosOK, NoIncrementLost
<1> QED
  BY InvCorrect, <1>1, PTL

(* The destructor leaves its loop when no receiving thread runs any more.  *)
THEOREM ThreadsStoppedCorrect ==
  ASSUME ~Evaluate
  PROVE  Spec => []ThreadsStopped
<1>1. Inv => ThreadsStopped
  BY DEF Inv
<1> QED
  BY InvCorrect, <1>1, PTL

=============================================================================
