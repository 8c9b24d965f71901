------------------------------ MODULE Evaluate ------------------------------
(***************************************************************************)
(* The build with EVALUATE: test_time_dresp on one process sends P_DRESP   *)
(* packets one by one and waits for the answer to each; a receiving thread *)
(* does not store a packet but answers it with a P_DACK packet, which ends *)
(* the round.                                                              *)
(*                                                                         *)
(* The packets of type P_DRESP are those of the rounds; Answer gives the   *)
(* P_DACK packet that answers each.                                        *)
(***************************************************************************)
EXTENDS Bridge

CONSTANT Answer

Dack == {Answer[p] : p \in Dresp}

(* mkHeader of the answer: To is the Return_to of the packet, Return_to    *)
(* the tile that it was for.  All rounds have one sender and one receiver, *)
(* which is a tile of another process: there are at least two.             *)
ASSUME EvaluateAssumption ==
  /\ Size > 1
  /\ Answer \in [Dresp -> Packet \ Dresp]
  /\ \A p, q \in Dresp : p # q => Answer[p] # Answer[q]
  /\ \A p \in Dresp : LET a == Answer[p] IN
       /\ Source[a] = Dest(p) /\ To[a] = ReturnTo[p] /\ ReturnTo[a] = Dest(p)
       /\ RankOf(Source[p]) # RankOf(Dest(p))
  /\ \A p, q \in Dresp :
       Source[p] = Source[q] /\ ReturnTo[p] = Source[p] /\ Dest(p) = Dest(q)

VARIABLES
  testing_status,  \* of the System of the process that runs the test
  times            \* number of times that end_time was added to

evVars == <<vars, testing_status, times>>

EvInit == Init /\ testing_status = FALSE /\ times = 0

-----------------------------------------------------------------------------
(* test_time_dresp *)

\* A mistake: the loop that waits for the answer is left out.
RoundOver_NoWait == TRUE

\* while (testing_status) {} ends.
RoundOver == ~testing_status

(* The next round: transmit_packets has returned, the answer has come; a   *)
(* packet is built and put into the TX FIFO, testing_status is set.        *)
NewRound(p) ==
  /\ RoundOver
  /\ tx[Source[p]] = <<>>
  /\ Create(p)
  /\ testing_status' = TRUE
  /\ UNCHANGED times

-----------------------------------------------------------------------------
(* A receiving thread, with a whole packet *)

\* A mistake: a packet is answered before its array has come.
Answerable_Early(th) == recv[th].pc \in {"awaitArray", "store"} /\ recv[th].pkt \in Dresp

Answerable(th) == recv[th].pc = "store" /\ recv[th].pkt \in Dresp

(* A packet is answered through System::send or send_th.  The array that   *)
(* was received with it is neither stored nor deleted.                     *)
SendAnswer(th) ==
  /\ Answerable(th)
  /\ send' = [send EXCEPT ![Answer[recv[th].pkt]] = "header"]
  /\ created' = created \cup {Answer[recv[th].pkt]}
  /\ bridge_pos' = [bridge_pos EXCEPT ![th[1]] = NextBridge(@)]
  /\ recv' = IF ThreadedSend THEN [recv EXCEPT ![th] = Listening]
                             ELSE [recv EXCEPT ![th].pc = "answering"]
  /\ UNCHANGED <<tx, transmitting, net, heap, rx, testing_status, times>>

\* Bridge::send returns, and the thread listens again.
AnswerSent(th) ==
  /\ recv[th].pc = "answering"
  /\ send[Answer[recv[th].pkt]] = "sent"
  /\ recv' = [recv EXCEPT ![th] = Listening]
  /\ UNCHANGED <<created, tx, transmitting, bridge_pos, send, net, heap, rx,
                 testing_status, times>>

\* A mistake: testing_status is left as it is.
AfterAnswer_Same == testing_status

\* What a P_DACK packet sets testing_status to.
AfterAnswer == FALSE

\* A P_DACK packet ends the round.
TakeAnswer(th) ==
  /\ recv[th].pc = "store" /\ recv[th].pkt \in Dack
  /\ times' = times + 1
  /\ testing_status' = AfterAnswer
  /\ recv' = [recv EXCEPT ![th] = Listening]
  /\ UNCHANGED <<created, tx, transmitting, bridge_pos, send, net, heap, rx>>

-----------------------------------------------------------------------------

EvThreadStep(th) ==
  \/ SendAnswer(th) \/ AnswerSent(th) \/ TakeAnswer(th)
  \/ (ReceiveHeader(th) \/ ReceiveArray(th)) /\ UNCHANGED <<testing_status, times>>

EvNext ==
  \/ \E p \in Dresp : NewRound(p)
  \/ /\ \/ \E p \in Packet : SendStep(p)
        \/ \E t \in Tile : TileStep(t)
     /\ UNCHANGED <<testing_status, times>>
  \/ \E th \in Thread : EvThreadStep(th)

EvSpec ==
  /\ EvInit /\ [][EvNext]_evVars
  /\ SenderFairness
  /\ \A th \in Thread : WF_evVars(EvThreadStep(th))
  /\ WF_evVars(\E p \in Dresp : NewRound(p))

-----------------------------------------------------------------------------
(* Properties *)

\* The packet of the round, the last that was built.
Current(p) == p \in created /\ \A q \in created \cap Dresp : q <= p

(* The answer that ends a round is the answer to its packet: with any      *)
(* number of bridges no answer is left over from an earlier round, or ends *)
(* a round twice.                                                          *)
AnswerOfThisRound ==
  \A th \in Thread : recv[th].pc = "store" /\ recv[th].pkt \in Dack =>
    testing_status /\ \E p \in Dresp : Current(p) /\ recv[th].pkt = Answer[p]

(* The time of a round covers all of its transfer: between rounds the      *)
(* arrays of all packets so far have been received, each with its packet,  *)
(* and every round has been counted once.                                  *)
RoundCoversArray ==
  ~testing_status =>
    /\ \A p \in created \cap Dresp :
         send[p] \in {"arrayTest", "sent"} /\ Matched(p)
    /\ times = Cardinality(created \cap Dresp)

(* Memory: the sender's array is deleted when it is sent, the receiver's   *)
(* copy is never deleted, so a process keeps one array of each round.      *)
OneArrayLeftByRound ==
  heap = {OwnPointer(p) : p \in {q \in created \cap Dresp : send[q] # "sent"}}
         \cup {[space |-> DestRank(p), data |-> p] :
                 p \in {q \in created \cap Dresp :
                          send[q] \in {"arrayTest", "sent"} /\ Matched(q)}}

(* The test ends: every round is answered although the receiving thread    *)
(* that answers listens to nothing until its answer is sent, and nothing   *)
(* but the test's own process can set testing_status.                      *)
TestEnds == <>(times = Cardinality(Dresp) /\ ~testing_status)

=============================================================================
