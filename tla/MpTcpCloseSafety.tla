-------------------------- MODULE MpTcpCloseSafety --------------------------
(***************************************************************************)
(* What a graceful close means for the data: proofs, for any constants, that *)
(* a connection that closes without a reset delivered and acknowledged all   *)
(* it was given, and that the server meets no packet it has no handler for. *)
(*                                                                         *)
(* CloseInv knows lengths only.  DeliveryInv adds which data is where: the   *)
(* order in which data numbers were given to the subflows, what the packets  *)
(* in flight and the stored segments carry, and that a subflow has passed a  *)
(* segment exactly when the connection has it.  Only a new segment           *)
(* (SegmentCut) and data at the server (DataDelivered, DataStored) touch     *)
(* both; every other step is a Frame step.                                  *)
(***************************************************************************)
EXTENDS MpTcpCloseProofs

\* p carries a segment of subflow i.
SegmentOf(i, p) == p.seq \in 1 .. Len(sent[i]) /\ p.dsn = sent[i][p.seq]

\* Data numbers are given in order along a subflow, each to one segment, and
\* none is left out.
GivenInOrder ==
  /\ \A i \in Subflow : \A s \in 1 .. Len(sent[i]) : sent[i][s] \in 1 .. nextTxSequence - 1
  /\ \A i \in Subflow : \A s, t \in 1 .. Len(sent[i]) : s < t => sent[i][s] < sent[i][t]
  /\ \A i, j \in Subflow : \A s \in 1 .. Len(sent[i]) : \A t \in 1 .. Len(sent[j]) :
       sent[i][s] = sent[j][t] => i = j
  /\ \A d \in 1 .. nextTxSequence - 1 :
       \E i \in Subflow : \E s \in 1 .. Len(sent[i]) : sent[i][s] = d

\* Copies in flight or stored are copies of what was sent.
CopiesAgree ==
  /\ \A i \in Subflow : \A p \in Packets(toServer[i]) : p.type = "DATA" => SegmentOf(i, p)
  /\ \A u \in unOrdered : SegmentOf(u.sf, u) /\ u.dsn > nextRxSequence

\* A subflow has passed a segment just when the connection has it or stores it.
LevelsAgree ==
  /\ nextRxSequence >= 1 /\ nextRxSequence <= nextTxSequence
  /\ \A i \in Subflow : \A s \in 1 .. Len(sent[i]) :
       /\ sent[i][s] < nextRxSequence => s < RxSeqNumber[i]
       /\ s < RxSeqNumber[i] =>
            \/ sent[i][s] < nextRxSequence
            \/ [sf |-> i, seq |-> s, dsn |-> sent[i][s]] \in unOrdered

\* The server has not closed subflow i, though it may not know of it yet.
PeerOpen(i) == peerState[i] \notin {"LAST_ACK", "CLOSED"}

\* No answer promises more than the server has, and a FIN that was consumed
\* has closed its subflow.
AnswersAgree ==
  \A i \in Subflow :
    /\ highestAck[i] < RxSeqNumber[i]
    /\ \A p \in Packets(toClient[i]) : p.ack <= RxSeqNumber[i]
    /\ PeerOpen(i) => RxSeqNumber[i] <= Len(sent[i]) + 1

DeliveryInv == GivenInOrder /\ CopiesAgree /\ LevelsAgree /\ AnswersAgree

---------------------------------------------------------------------------
(* The initial states.                                                     *)

LEMMA InitDelivery == Init => DeliveryInv
  <1> SUFFICES ASSUME Init PROVE DeliveryInv
    OBVIOUS
  <1>1. ASSUME NEW i \in Subflow
        PROVE  /\ sent[i] = <<>> /\ Len(sent[i]) = 0 /\ highestAck[i] = 0 /\ RxSeqNumber[i] = 1
               /\ Packets(toClient[i]) = {}
    BY NoPackets DEF Init
  <1>6. ASSUME NEW i \in Subflow, NEW p \in Packets(toServer[i]) PROVE p.type # "DATA"
    <2>1. toServer[i] = <<JoinSyn>> \/ toServer[i] = <<>>
      BY DEF Init
    <2>2. p = JoinSyn
      BY <1>6, <2>1, NoPackets DEF Packets
    <2> QED BY <2>2 DEF JoinSyn
  <1>2. nextTxSequence = 1 /\ nextRxSequence = 1 /\ unOrdered = {}
    BY DEF Init
  <1>3. GivenInOrder
    BY <1>1, <1>2 DEF GivenInOrder
  <1>4. CopiesAgree /\ LevelsAgree
    BY <1>1, <1>2, <1>6 DEF CopiesAgree, LevelsAgree
  <1>5. AnswersAgree
    BY <1>1 DEF AnswersAgree
  <1> QED BY <1>3, <1>4, <1>5 DEF DeliveryInv

---------------------------------------------------------------------------
(* Segments and their data numbers.                                        *)

LEMMA Numbers ==
  ASSUME CloseInv
  PROVE  /\ nextTxSequence \in Nat \ {0} /\ nextRxSequence \in Nat
         /\ \A i \in Subflow :
              /\ Len(sent[i]) \in Nat /\ RxSeqNumber[i] \in Nat /\ highestAck[i] \in Nat
              /\ \A s \in 1 .. Len(sent[i]) : sent[i][s] \in Nat
  <1>1. TypeOK
    BY DEF CloseInv
  <1>2. ASSUME NEW i \in Subflow, NEW s \in 1 .. Len(sent[i]) PROVE sent[i][s] \in Nat
    <2>1. sent[i] \in Seq(Nat)
      BY <1>1, Types
    <2> QED BY <2>1
  <1>3. nextTxSequence \in Nat \ {0} /\ nextRxSequence \in Nat
    BY <1>1, Constants DEF TypeOK
  <1>4. ASSUME NEW i \in Subflow
        PROVE  Len(sent[i]) \in Nat /\ RxSeqNumber[i] \in Nat /\ highestAck[i] \in Nat
    BY <1>1, Types
  <1> QED BY <1>2, <1>3, <1>4

\* The data number tells which segment it is.
LEMMA SameSegment ==
  ASSUME CloseInv, DeliveryInv, NEW i \in Subflow, NEW j \in Subflow,
         NEW s \in 1 .. Len(sent[i]), NEW t \in 1 .. Len(sent[j]), sent[i][s] = sent[j][t]
  PROVE  i = j /\ s = t
  <1>1. i = j
    BY DEF DeliveryInv, GivenInOrder
  <1>2. Len(sent[i]) \in Nat /\ sent[i][s] \in Nat
    BY Numbers
  <1>3. \A q, r \in 1 .. Len(sent[i]) : q < r => sent[i][q] < sent[i][r]
    BY DEF DeliveryInv, GivenInOrder
  <1>4. ~(s < t) /\ ~(t < s)
    BY <1>1, <1>2, <1>3
  <1> QED BY <1>1, <1>2, <1>4

LEMMA Monotone ==
  ASSUME CloseInv, DeliveryInv, NEW i \in Subflow,
         NEW s \in 1 .. Len(sent[i]), NEW t \in 1 .. Len(sent[i]), s <= t
  PROVE  /\ sent[i][s] \in Nat /\ sent[i][t] \in Nat /\ sent[i][s] <= sent[i][t]
         /\ s < t => sent[i][s] < sent[i][t]
  <1>1. sent[i][s] \in Nat /\ sent[i][t] \in Nat /\ Len(sent[i]) \in Nat
    BY Numbers
  <1>2. s < t => sent[i][s] < sent[i][t]
    BY DEF DeliveryInv, GivenInOrder
  <1>3. CASE s = t
    BY <1>1, <1>3
  <1>4. CASE s < t
    BY <1>1, <1>2, <1>4
  <1> QED BY <1>1, <1>3, <1>4

\* A segment the server stores.
LEMMA StoredSegment ==
  ASSUME CloseInv, DeliveryInv, NEW u \in unOrdered
  PROVE  /\ u.sf \in Subflow /\ u.seq \in 1 .. Len(sent[u.sf])
         /\ u.dsn = sent[u.sf][u.seq] /\ u.dsn \in 1 .. nextTxSequence - 1
         /\ u.dsn > nextRxSequence
         /\ u = [sf |-> u.sf, seq |-> u.seq, dsn |-> u.dsn]
  <1>1. u.sf \in Subflow /\ u = [sf |-> u.sf, seq |-> u.seq, dsn |-> u.dsn]
    BY DEF CloseInv, TypeOK
  <1>2. u.seq \in 1 .. Len(sent[u.sf]) /\ u.dsn = sent[u.sf][u.seq] /\ u.dsn > nextRxSequence
    BY DEF DeliveryInv, CopiesAgree, SegmentOf
  <1>3. sent[u.sf][u.seq] \in 1 .. nextTxSequence - 1
    BY <1>1, <1>2 DEF DeliveryInv, GivenInOrder
  <1> QED BY <1>1, <1>2, <1>3

---------------------------------------------------------------------------
(* Steps that neither cut a segment nor take data at the server.           *)

GoodPacket(i, p) == p.type = "DATA" => SegmentOf(i, p)

Frame ==
  /\ UNCHANGED <<sent, nextTxSequence, nextRxSequence, unOrdered>>
  /\ \A j \in Subflow :
       /\ RxSeqNumber'[j] \in Nat /\ RxSeqNumber'[j] >= RxSeqNumber[j]
       /\ RxSeqNumber'[j] = RxSeqNumber[j] \/ RxSeqNumber[j] > Len(sent[j])
       /\ highestAck'[j] < RxSeqNumber'[j]
       /\ PeerOpen(j)' => RxSeqNumber'[j] <= Len(sent[j]) + 1
       /\ \A p \in Packets(toServer'[j]) : p \in Packets(toServer[j]) \/ GoodPacket(j, p)
       /\ \A p \in Packets(toClient'[j]) :
            p \in Packets(toClient[j]) \/ p.ack <= RxSeqNumber'[j]

LEMMA FrameKeeps ==
  ASSUME CloseInv, DeliveryInv, Frame
  PROVE  DeliveryInv'
  <1>1. sent' = sent /\ nextTxSequence' = nextTxSequence /\ nextRxSequence' = nextRxSequence
        /\ unOrdered' = unOrdered
    BY DEF Frame
  <1>2. GivenInOrder'
    BY <1>1 DEF DeliveryInv, GivenInOrder
  <1>3. CopiesAgree'
    <2>1. ASSUME NEW i \in Subflow, NEW p \in Packets(toServer'[i]), p.type = "DATA"
          PROVE  p.seq \in 1 .. Len(sent'[i]) /\ p.dsn = sent'[i][p.seq]
      <3>1. p \in Packets(toServer[i]) \/ GoodPacket(i, p)
        BY DEF Frame
      <3>2. SegmentOf(i, p)
        BY <2>1, <3>1 DEF DeliveryInv, CopiesAgree, GoodPacket
      <3> QED BY <1>1, <3>2 DEF SegmentOf
    <2>2. ASSUME NEW u \in unOrdered'
          PROVE  u.seq \in 1 .. Len(sent'[u.sf]) /\ u.dsn = sent'[u.sf][u.seq] /\ u.dsn > nextRxSequence'
      BY <1>1 DEF DeliveryInv, CopiesAgree, SegmentOf
    <2> QED BY <2>1, <2>2 DEF CopiesAgree, SegmentOf
  <1>4. LevelsAgree'
    <2>1. ASSUME NEW i \in Subflow, NEW s \in 1 .. Len(sent[i])
          PROVE  s < RxSeqNumber'[i] <=> s < RxSeqNumber[i]
      <3>1. /\ RxSeqNumber'[i] \in Nat /\ RxSeqNumber'[i] >= RxSeqNumber[i]
            /\ RxSeqNumber'[i] = RxSeqNumber[i] \/ RxSeqNumber[i] > Len(sent[i])
        BY DEF Frame
      <3>2. RxSeqNumber[i] \in Nat /\ Len(sent[i]) \in Nat
        BY Numbers
      <3> QED BY <3>1, <3>2
    <2>2. LevelsAgree
      BY DEF DeliveryInv
    <2> QED BY <1>1, <2>1, <2>2 DEF LevelsAgree
  <1>5. AnswersAgree'
    <2>1. ASSUME NEW i \in Subflow
          PROVE  /\ highestAck'[i] < RxSeqNumber'[i]
                 /\ \A p \in Packets(toClient'[i]) : p.ack <= RxSeqNumber'[i]
                 /\ PeerOpen(i)' => RxSeqNumber'[i] <= Len(sent'[i]) + 1
      <3>1. /\ RxSeqNumber'[i] \in Nat /\ RxSeqNumber[i] \in Nat
            /\ RxSeqNumber'[i] >= RxSeqNumber[i]
        BY Numbers DEF Frame
      <3>2. ASSUME NEW p \in Packets(toClient'[i]) PROVE p.ack <= RxSeqNumber'[i]
        <4>1. CASE p \in Packets(toClient[i])
          <5>1. p.ack <= RxSeqNumber[i]
            BY <4>1 DEF DeliveryInv, AnswersAgree
          <5>2. p.ack \in Nat
            BY <4>1, AnswerFacts
          <5> QED BY <3>1, <5>1, <5>2
        <4> QED BY <4>1 DEF Frame
      <3> QED BY <1>1, <3>2 DEF Frame
    <2> QED BY <2>1 DEF AnswersAgree
  <1> QED BY <1>2, <1>3, <1>4, <1>5 DEF DeliveryInv

\* The client's: the server stays as it is.
LEMMA ClientFrame ==
  ASSUME CloseInv, DeliveryInv,
         UNCHANGED <<sent, nextTxSequence, serverVars>>,
         \A j \in Subflow : Packets(toClient'[j]) \subseteq Packets(toClient[j]),
         \A j \in Subflow : highestAck'[j] < RxSeqNumber[j],
         \A j \in Subflow : \A p \in Packets(toServer'[j]) :
           p \in Packets(toServer[j]) \/ GoodPacket(j, p)
  PROVE  DeliveryInv'
  <1>1. UNCHANGED <<peerState, RxSeqNumber, nextRxSequence, unOrdered>>
    BY DEF serverVars, dataVars
  <1>2. ASSUME NEW j \in Subflow
        PROVE  /\ RxSeqNumber[j] \in Nat
               /\ PeerOpen(j)' => RxSeqNumber[j] <= Len(sent[j]) + 1
    BY <1>1, Numbers DEF DeliveryInv, AnswersAgree, PeerOpen
  <1>3. Frame
    BY <1>1, <1>2 DEF Frame
  <1> QED BY <1>3, FrameKeeps

LEMMA AcksStay ==
  ASSUME DeliveryInv, UNCHANGED highestAck, NEW j \in Subflow
  PROVE  highestAck'[j] < RxSeqNumber[j]
  BY DEF DeliveryInv, AnswersAgree

LEMMA PutGood ==
  ASSUME CloseInv, NEW i \in Subflow, NEW p \in Packet, GoodPacket(i, p),
         toServer' = Put(toServer, i, p)
  PROVE  \A j \in Subflow : \A q \in Packets(toServer'[j]) :
           q \in Packets(toServer[j]) \/ GoodPacket(j, q)
  <1>1. toServer \in [Subflow -> Seq(Packet)]
    BY DEF CloseInv, TypeOK
  <1>2. \A j \in Subflow : Packets(Put(toServer, i, p)[j]) \subseteq
                             Packets(toServer[j]) \cup (IF j = i THEN {p} ELSE {})
    BY <1>1, PutToServer
  <1> QED BY <1>2

LEMMA SegmentIsGood ==
  ASSUME CloseInv, NEW i \in Subflow, NEW s \in Nat \ {0}, s <= Len(sent[i])
  PROVE  /\ Data(s, sent[i][s]) \in Packet /\ GoodPacket(i, Data(s, sent[i][s]))
         /\ SegmentOf(i, Data(s, sent[i][s]))
  <1>1. Data(s, sent[i][s]) \in Packet
    BY SentAgain DEF CloseInv
  <1>2. Len(sent[i]) \in Nat
    BY Numbers
  <1> QED BY <1>1, <1>2 DEF Data, GoodPacket, SegmentOf

LEMMA FinIsGood ==
  ASSUME CloseInv, NEW i \in Subflow, sent' = sent
  PROVE  Fin(FinNumber(i)) \in Packet /\ GoodPacket(i, Fin(FinNumber(i)))
  <1>1. Len(sent[i]) \in Nat
    BY Numbers
  <1> QED BY <1>1 DEF Fin, FinNumber, Packet, GoodPacket

---------------------------------------------------------------------------
(* The client's steps.                                                     *)

LEMMA SendFinGood ==
  ASSUME CloseInv, NEW i \in Subflow, sent' = sent,
         UNCHANGED toServer \/ SendFin(i, toServer, retxEvent)
  PROVE  \A j \in Subflow : \A q \in Packets(toServer'[j]) :
           q \in Packets(toServer[j]) \/ GoodPacket(j, q)
  <1>1. CASE SendFin(i, toServer, retxEvent)
    BY <1>1, FinIsGood, PutGood DEF SendFin
  <1> QED BY <1>1

LEMMA CloseDelivery ==
  ASSUME CloseInv, DeliveryInv, Close \/ \E i \in Subflow : ScheduledDoClose(i)
  PROVE  DeliveryInv'
  <1>1. /\ UNCHANGED <<sent, nextTxSequence, highestAck, serverVars, toClient>>
        /\ \E i \in Subflow : UNCHANGED toServer \/ SendFin(i, toServer, retxEvent)
    <2>1. CASE Close
      <3>1. currentSublow \in Subflow
        BY DEF CloseInv, TypeOK
      <3> QED BY <2>1, <3>1 DEF Close, DoClose, sendVars
    <2>2. CASE \E i \in Subflow : ScheduledDoClose(i)
      BY <2>2 DEF ScheduledDoClose, DoClose, sendVars
    <2> QED BY <2>1, <2>2
  <1>2. \A j \in Subflow : \A q \in Packets(toServer'[j]) :
          q \in Packets(toServer[j]) \/ GoodPacket(j, q)
    BY <1>1, SendFinGood
  <1> QED BY <1>1, <1>2, AcksStay, ClientFrame

\* What an ACK sends again is a segment of its subflow.
LEMMA ReceivedAckDelivery ==
  ASSUME CloseInv, DeliveryInv, NEW i \in Subflow, NEW p \in Packets(toClient[i]),
         ReceivedAck(i, p)
  PROVE  /\ \A j \in Subflow : highestAck'[j] < RxSeqNumber[j]
         /\ \A j \in Subflow : \A q \in Packets(toServer'[j]) :
              q \in Packets(toServer[j]) \/ GoodPacket(j, q)
  <1>1. p.ack \in Nat /\ p.ack <= RxSeqNumber[i]
    BY AnswerFacts DEF DeliveryInv, AnswersAgree
  <1>2. NewACK(i, p.ack) \/ DupAck(i, p.ack) \/ OldAck(i, p.ack)
    BY DEF ReceivedAck
  <1>3. /\ highestAck \in [Subflow -> Nat] /\ highestAck[i] \in Nat
        /\ RxSeqNumber[i] \in Nat
    BY Numbers DEF CloseInv, TypeOK
  <1>4. \A j \in Subflow : highestAck[j] < RxSeqNumber[j]
    BY DEF DeliveryInv, AnswersAgree
  <1>5. CASE NewACK(i, p.ack)
    <2>1. highestAck' = [highestAck EXCEPT ![i] = p.ack - 1] /\ p.ack > highestAck[i] + 1
      BY <1>5 DEF NewACK
    <2>2. p.ack \in Nat \ {0}
      BY <1>1, <1>3, <2>1
    <2>3. \A j \in Subflow : highestAck'[j] < RxSeqNumber[j]
      BY <1>1, <1>3, <1>4, <2>1, <2>2
    <2>4. \/ UNCHANGED toServer
          \/ p.ack <= Len(sent[i]) /\ toServer' = Put(toServer, i, Data(p.ack, sent[i][p.ack]))
      BY <1>5 DEF NewACK, maxSeqNb
    <2> QED BY <2>2, <2>3, <2>4, SegmentIsGood, PutGood
  <1>6. CASE DupAck(i, p.ack)
    <2>1. p.ack = highestAck[i] + 1 /\ p.ack <= Len(sent[i]) /\ UNCHANGED highestAck
          /\ (UNCHANGED toServer \/ toServer' = Put(toServer, i, Data(p.ack, sent[i][p.ack])))
      BY <1>6 DEF DupAck, maxSeqNb
    <2>2. p.ack \in Nat \ {0}
      BY <1>3, <2>1
    <2> QED BY <1>4, <2>1, <2>2, SegmentIsGood, PutGood
  <1>7. CASE OldAck(i, p.ack)
    BY <1>4, <1>7 DEF OldAck
  <1> QED BY <1>2, <1>5, <1>6, <1>7

LEMMA ReceivedFinAckDelivery ==
  ASSUME CloseInv, DeliveryInv, NEW i \in Subflow, NEW p \in Packets(toClient[i]),
         ReceivedFinAck(i, p)
  PROVE  /\ \A j \in Subflow : highestAck'[j] < RxSeqNumber[j]
         /\ \A j \in Subflow : \A q \in Packets(toServer'[j]) :
              q \in Packets(toServer[j]) \/ GoodPacket(j, q)
  <1>1. p.ack \in Nat /\ p.ack <= RxSeqNumber[i]
    BY AnswerFacts DEF DeliveryInv, AnswersAgree
  <1>2. /\ highestAck' = [highestAck EXCEPT ![i] = Max2(highestAck[i], p.ack - 1)]
        /\ toServer' = Put(toServer, i, LastAck(Max2(TxSeqNumber[i], p.ack)))
    BY DEF ReceivedFinAck
  <1>3. /\ highestAck \in [Subflow -> Nat] /\ highestAck[i] \in Nat
        /\ RxSeqNumber[i] \in Nat /\ TxSeqNumber[i] \in Nat
    BY Numbers DEF CloseInv, TypeOK
  <1>4. \A j \in Subflow : highestAck[j] < RxSeqNumber[j]
    BY DEF DeliveryInv, AnswersAgree
  <1>5. Max2(highestAck[i], p.ack - 1) < RxSeqNumber[i]
    BY <1>1, <1>3, <1>4 DEF Max2
  <1>6. \A j \in Subflow : highestAck'[j] < RxSeqNumber[j]
    BY <1>2, <1>3, <1>4, <1>5
  <1>7. LastAck(Max2(TxSeqNumber[i], p.ack)) \in Packet
        /\ GoodPacket(i, LastAck(Max2(TxSeqNumber[i], p.ack)))
    BY <1>1, <1>3 DEF Max2, LastAck, Packet, GoodPacket
  <1> QED BY <1>2, <1>6, <1>7, PutGood

LEMMA ClientReceiveDelivery ==
  ASSUME CloseInv, DeliveryInv, NEW i \in Subflow, ClientReceive(i)
  PROVE  DeliveryInv'
  <1> DEFINE p == Head(toClient[i])
  <1>1. /\ toClient[i] # <<>> /\ toClient' = [toClient EXCEPT ![i] = Tail(@)]
        /\ UNCHANGED <<sent, nextTxSequence, serverVars>>
        /\ \/ ProcessSynSent(i, p) \/ DuplicatedSynAck(i, p)
           \/ ReceivedAck(i, p) \/ ReceivedFinAck(i, p)
           \/ CloseAndNotifyAllSubflows(i, p) \/ ReceivedLate(i, p)
    BY DEF ClientReceive
  <1>2. /\ \A j \in Subflow : Packets(toClient'[j]) \subseteq Packets(toClient[j])
        /\ p \in Packets(toClient[i])
    BY <1>1, TailToClient DEF CloseInv
  <1> HIDE DEF p
  <1>3. /\ \A j \in Subflow : highestAck'[j] < RxSeqNumber[j]
        /\ \A j \in Subflow : \A q \in Packets(toServer'[j]) :
             q \in Packets(toServer[j]) \/ GoodPacket(j, q)
    <2>1. CASE ReceivedAck(i, p)
      BY <1>2, <2>1, ReceivedAckDelivery
    <2>2. CASE ReceivedFinAck(i, p)
      BY <1>2, <2>2, ReceivedFinAckDelivery
    <2>3. CASE CloseAndNotifyAllSubflows(i, p)
      BY <2>3, AcksStay DEF CloseAndNotifyAllSubflows
    <2>4. CASE ReceivedLate(i, p)
      <3>1. UNCHANGED highestAck /\ (UNCHANGED toServer \/ toServer' = Put(toServer, i, Rst))
        BY <2>4 DEF ReceivedLate
      <3>2. Rst \in Packet /\ GoodPacket(i, Rst)
        BY DEF Rst, Packet, GoodPacket
      <3> QED BY <3>1, <3>2, AcksStay, PutGood
    <2>5. CASE ProcessSynSent(i, p)
      <3>1. UNCHANGED highestAck /\ toServer' = Put(toServer, i, LastAck(TxSeqNumber[i]))
        BY <2>5 DEF ProcessSynSent, AnswerSynAck
      <3>2. TxSeqNumber[i] \in Nat
        BY Types DEF CloseInv
      <3>3. LastAck(TxSeqNumber[i]) \in Packet /\ GoodPacket(i, LastAck(TxSeqNumber[i]))
        BY <3>2 DEF LastAck, Packet, GoodPacket
      <3> QED BY <3>1, <3>3, AcksStay, PutGood
    <2>6. CASE DuplicatedSynAck(i, p)
      BY <2>6, AcksStay DEF DuplicatedSynAck
    <2> QED BY <1>1, <2>1, <2>2, <2>3, <2>4, <2>5, <2>6
  <1> QED BY <1>1, <1>2, <1>3, ClientFrame

LEMMA ReTxTimeoutDelivery ==
  ASSUME CloseInv, DeliveryInv, NEW i \in Subflow, ReTxTimeout(i)
  PROVE  DeliveryInv'
  <1>1. UNCHANGED <<sent, nextTxSequence, highestAck, serverVars, toClient>>
    BY DEF ReTxTimeout
  <1>2. highestAck[i] \in Nat /\ Len(sent[i]) \in Nat
    BY Numbers
  <1>3. \/ UNCHANGED toServer
        \/ toServer' = Put(toServer, i, Fin(FinNumber(i)))
        \/ /\ highestAck[i] < Len(sent[i])
           /\ toServer' = Put(toServer, i, Data(highestAck[i] + 1, sent[i][highestAck[i] + 1]))
    BY DEF ReTxTimeout, ResendFin, RetransmitTimeout, maxSeqNb
  <1>4. \A j \in Subflow : \A q \in Packets(toServer'[j]) :
          q \in Packets(toServer[j]) \/ GoodPacket(j, q)
    <2>1. CASE toServer' = Put(toServer, i, Fin(FinNumber(i)))
      BY <1>1, <2>1, FinIsGood, PutGood
    <2>2. CASE /\ highestAck[i] < Len(sent[i])
               /\ toServer' = Put(toServer, i, Data(highestAck[i] + 1, sent[i][highestAck[i] + 1]))
      <3>1. highestAck[i] + 1 \in Nat \ {0} /\ highestAck[i] + 1 <= Len(sent[i])
        BY <1>2, <2>2
      <3> QED BY <2>2, <3>1, SegmentIsGood, PutGood
    <2> QED BY <1>3, <2>1, <2>2
  <1> QED BY <1>1, <1>4, AcksStay, ClientFrame

---------------------------------------------------------------------------
(* Sending.                                                                *)

LEMMA SendOldDelivery ==
  ASSUME CloseInv, DeliveryInv, NEW k \in Subflow, SendOld(k),
         UNCHANGED <<highestAck, serverVars, toClient>>
  PROVE  DeliveryInv'
  <1> DEFINE p == Data(TxSeqNumber[k], sent[k][TxSeqNumber[k]])
  <1>1. UNCHANGED <<sent, nextTxSequence>> /\ SendDataPacket(k, p)
    BY DEF SendOld
  <1>2. TxSeqNumber[k] \in Nat \ {0} /\ TxSeqNumber[k] <= Len(sent[k])
    <2>1. TxSeqNumber[k] \in Nat /\ Len(sent[k]) \in Nat /\ TxSeqNumber[k] >= 1
      BY Types DEF CloseInv, Counted
    <2> QED BY <2>1 DEF SendOld, Recovering, maxSeqNb
  <1>3. p \in Packet /\ GoodPacket(k, p)
    BY <1>2, SegmentIsGood
  <1> HIDE DEF p
  <1>4. SendEffect(k, p)
    <2>1. \A j \in Subflow : Len(sent'[j]) \in Nat
      BY <1>1, Numbers
    <2> QED BY <1>1, <1>3, <2>1, SendDataPacketEffect DEF CloseInv
  <1>5. ASSUME NEW j \in Subflow, NEW q \in Packets(toServer'[j])
        PROVE  q \in Packets(toServer[j]) \/ GoodPacket(j, q)
    <2>1. q \in Packets(toServer[j]) \/ (q = p /\ j = k) \/ q.type = "FIN"
      BY <1>4 DEF SendEffect
    <2> QED BY <1>3, <2>1 DEF GoodPacket
  <1> QED BY <1>1, <1>5, AcksStay, ClientFrame

\* A new segment: the next data number, after all others of its subflow.
LEMMA SegmentCut ==
  ASSUME CloseInv, DeliveryInv, NEW k \in Subflow, SendNew(k), state[k] = "ESTABLISHED",
         UNCHANGED <<highestAck, serverVars, toClient>>
  PROVE  DeliveryInv'
  <1> DEFINE n == Len(sent[k]) + 1
             p == Data(TxSeqNumber[k], nextTxSequence)
  <1>1. /\ sent' = [sent EXCEPT ![k] = Append(@, nextTxSequence)]
        /\ nextTxSequence' = nextTxSequence + 1 /\ SendDataPacket(k, p)
        /\ UNCHANGED <<highestAck, peerState, finSeq, RxSeqNumber, nextRxSequence, unOrdered, toClient>>
    BY DEF SendNew, serverVars, dataVars
  <1>2. /\ nextTxSequence \in Nat \ {0} /\ nextRxSequence \in Nat
        /\ sent[k] \in Seq(Nat) /\ Len(sent[k]) \in Nat /\ sent \in [Subflow -> Seq(Nat)]
        /\ TxSeqNumber[k] \in Nat
    BY Numbers, Types DEF CloseInv, TypeOK
  <1>3. TxSeqNumber[k] = n
    <2>1. ~Over(k)
      BY DEF Over
    <2>2. TxSeqNumber[k] <= Len(sent[k]) + 1
      BY <2>1 DEF CloseInv, Counted
    <2> QED BY <1>2, <2>2 DEF SendNew, Recovering, maxSeqNb
  <1>4. /\ Len(sent'[k]) = n /\ sent'[k][n] = nextTxSequence
        /\ \A s \in 1 .. Len(sent[k]) : sent'[k][s] = sent[k][s]
        /\ \A j \in Subflow \ {k} : sent'[j] = sent[j]
    <2>1. sent'[k] = Append(sent[k], nextTxSequence)
      BY <1>1, <1>2
    <2> QED BY <1>1, <1>2, <2>1
  <1>5. n \in Nat /\ n >= 1 /\ p \in Packet /\ p.type = "DATA" /\ p.seq = n /\ p.dsn = nextTxSequence
    BY <1>2, <1>3 DEF Data, Packet
  <1>6. ASSUME NEW j \in Subflow, NEW s \in 1 .. Len(sent'[j])
        PROVE  \/ s \in 1 .. Len(sent[j]) /\ sent'[j][s] = sent[j][s]
               \/ j = k /\ s = n /\ sent'[j][s] = nextTxSequence
    BY <1>2, <1>4
  <1>7. ASSUME NEW j \in Subflow, NEW s \in 1 .. Len(sent[j])
        PROVE  /\ s \in 1 .. Len(sent'[j]) /\ sent'[j][s] = sent[j][s]
               /\ sent[j][s] \in 1 .. nextTxSequence - 1 /\ (j = k => s < n)
    <2>1. sent[j][s] \in 1 .. nextTxSequence - 1
      BY DEF DeliveryInv, GivenInOrder
    <2> QED BY <1>2, <1>4, <2>1
  <1>8. SendEffect(k, p)
    <2>1. \A j \in Subflow : Len(sent'[j]) \in Nat
      BY <1>4, <1>5, Numbers
    <2> HIDE DEF p
    <2> QED BY <1>1, <1>5, <2>1, SendDataPacketEffect DEF CloseInv
  <1> HIDE DEF n, p
  <1>9. GivenInOrder'
    <2>1. ASSUME NEW i \in Subflow, NEW s \in 1 .. Len(sent'[i])
          PROVE  sent'[i][s] \in 1 .. nextTxSequence' - 1
      BY <1>1, <1>2, <1>6, <1>7
    <2>2. ASSUME NEW i \in Subflow, NEW s \in 1 .. Len(sent'[i]), NEW t \in 1 .. Len(sent'[i]), s < t
          PROVE  sent'[i][s] < sent'[i][t]
      <3>1. CASE t \in 1 .. Len(sent[i]) /\ sent'[i][t] = sent[i][t]
        <4>1. s \in 1 .. Len(sent[i])
          BY <2>2, <3>1, Numbers
        <4>2. sent[i][s] < sent[i][t]
          BY <2>2, <3>1, <4>1 DEF DeliveryInv, GivenInOrder
        <4> QED BY <1>7, <3>1, <4>1, <4>2
      <3>2. CASE i = k /\ t = n /\ sent'[i][t] = nextTxSequence
        <4>1. s \in 1 .. Len(sent[i]) /\ sent'[i][s] = sent[i][s]
          BY <1>5, <1>6, <2>2, <3>2
        <4> QED BY <1>2, <1>7, <3>2, <4>1
      <3> QED BY <1>6, <3>1, <3>2
    <2>3. ASSUME NEW i \in Subflow, NEW j \in Subflow, NEW s \in 1 .. Len(sent'[i]),
                 NEW t \in 1 .. Len(sent'[j]), sent'[i][s] = sent'[j][t]
          PROVE  i = j
      <3>1. CASE s \in 1 .. Len(sent[i]) /\ t \in 1 .. Len(sent[j])
        BY <1>7, <2>3, <3>1 DEF DeliveryInv, GivenInOrder
      <3>2. CASE s \in 1 .. Len(sent[i]) /\ j = k /\ sent'[j][t] = nextTxSequence
        BY <1>2, <1>7, <2>3, <3>2
      <3>3. CASE t \in 1 .. Len(sent[j]) /\ i = k /\ sent'[i][s] = nextTxSequence
        BY <1>2, <1>7, <2>3, <3>3
      <3> QED BY <1>6, <3>1, <3>2, <3>3
    <2>4. ASSUME NEW d \in 1 .. nextTxSequence' - 1
          PROVE  \E i \in Subflow : \E s \in 1 .. Len(sent'[i]) : sent'[i][s] = d
      <3>1. CASE d = nextTxSequence
        <4>1. n \in 1 .. Len(sent'[k])
          BY <1>4, <1>5
        <4> QED BY <1>4, <3>1, <4>1
      <3>2. CASE d # nextTxSequence
        <4>1. d \in 1 .. nextTxSequence - 1
          BY <1>1, <1>2, <3>2
        <4>2. PICK i \in Subflow : \E s \in 1 .. Len(sent[i]) : sent[i][s] = d
          BY <4>1 DEF DeliveryInv, GivenInOrder
        <4> QED BY <1>7, <4>2
      <3> QED BY <3>1, <3>2
    <2> QED BY <2>1, <2>2, <2>3, <2>4 DEF GivenInOrder
  <1>10. CopiesAgree'
    <2>1. ASSUME NEW i \in Subflow, NEW q \in Packets(toServer'[i]), q.type = "DATA"
          PROVE  q.seq \in 1 .. Len(sent'[i]) /\ q.dsn = sent'[i][q.seq]
      <3>1. CASE q \in Packets(toServer[i])
        <4>1. q.seq \in 1 .. Len(sent[i]) /\ q.dsn = sent[i][q.seq]
          BY <2>1, <3>1 DEF DeliveryInv, CopiesAgree, SegmentOf
        <4> QED BY <1>7, <4>1
      <3>2. CASE q = p /\ i = k
        BY <1>4, <1>5, <3>2
      <3>3. q \in Packets(toServer[i]) \/ (q = p /\ i = k)
        BY <1>8, <2>1 DEF SendEffect
      <3> QED BY <3>1, <3>2, <3>3
    <2>2. ASSUME NEW u \in unOrdered'
          PROVE  u.seq \in 1 .. Len(sent'[u.sf]) /\ u.dsn = sent'[u.sf][u.seq] /\ u.dsn > nextRxSequence'
      BY <1>1, <1>7, StoredSegment
    <2> QED BY <2>1, <2>2 DEF CopiesAgree, SegmentOf
  <1>11. RxSeqNumber[k] <= n /\ RxSeqNumber[k] \in Nat
    <2>1. ~Over(k)
      BY DEF Over
    <2> HIDE DEF Over
    <2> QED BY <2>1, PeerFacts DEF n
  <1>12. LevelsAgree'
    <2>1. ASSUME NEW j \in Subflow, NEW s \in 1 .. Len(sent'[j])
          PROVE  /\ sent'[j][s] < nextRxSequence => s < RxSeqNumber[j]
                 /\ s < RxSeqNumber[j] =>
                      \/ sent'[j][s] < nextRxSequence
                      \/ [sf |-> j, seq |-> s, dsn |-> sent'[j][s]] \in unOrdered
      <3>1. CASE s \in 1 .. Len(sent[j]) /\ sent'[j][s] = sent[j][s]
        BY <3>1 DEF DeliveryInv, LevelsAgree
      <3>2. CASE j = k /\ s = n /\ sent'[j][s] = nextTxSequence
        <4>1. nextRxSequence <= nextTxSequence
          BY DEF DeliveryInv, LevelsAgree
        <4> QED BY <1>2, <1>5, <1>11, <3>2, <4>1
      <3> QED BY <1>6, <3>1, <3>2
    <2>2. nextRxSequence >= 1 /\ nextRxSequence <= nextTxSequence'
      BY <1>1, <1>2 DEF DeliveryInv, LevelsAgree
    <2> QED BY <1>1, <2>1, <2>2 DEF LevelsAgree
  <1>13. AnswersAgree'
    <2>1. ASSUME NEW i \in Subflow
          PROVE  RxSeqNumber[i] <= Len(sent[i]) + 1 => RxSeqNumber[i] <= Len(sent'[i]) + 1
      BY <1>4, <1>11, Numbers DEF n
    <2> QED BY <1>1, <2>1 DEF DeliveryInv, AnswersAgree, PeerOpen
  <1> QED BY <1>9, <1>10, <1>12, <1>13 DEF DeliveryInv

LEMMA SendPendingDataDelivery ==
  ASSUME CloseInv, DeliveryInv, SendPendingData
  PROVE  DeliveryInv'
  <1>1. UNCHANGED <<highestAck, serverVars, toClient>>
    BY DEF SendPendingData
  <1>2. loop.sf \in Subflow
    BY DEF CloseInv, TypeOK
  <1>3. \/ \E k \in Subflow : SendOld(k)
        \/ \E k \in Subflow : SendNew(k) /\ state[k] = "ESTABLISHED"
    BY <1>2 DEF SendPendingData, Established
  <1> QED BY <1>1, <1>3, SendOldDelivery, SegmentCut

---------------------------------------------------------------------------
(* Data arrives at the server.                                             *)

\* What data leaves behind, but for the answer.
DataAgrees ==
  /\ LevelsAgree'
  /\ \A u \in unOrdered' : SegmentOf(u.sf, u) /\ u.dsn > nextRxSequence'

LEMMA DataStored ==
  ASSUME CloseInv, DeliveryInv, UNCHANGED clientVars, NEW i \in Subflow,
         NEW p \in Packets(toServer[i]), p.type = "DATA", Receiver!StoreUnOrderedData(i, p)
  PROVE  DataAgrees
  <1> DEFINE u0 == [sf |-> i, seq |-> p.seq, dsn |-> p.dsn]
  <1>1. p.seq \in 1 .. Len(sent[i]) /\ p.dsn = sent[i][p.seq]
    BY DEF DeliveryInv, CopiesAgree, SegmentOf
  <1>2. UNCHANGED <<sent, nextTxSequence, nextRxSequence>>
    BY DEF clientVars, sendVars, Receiver!StoreUnOrderedData
  <1>3. RxSeqNumber \in [Subflow -> Nat]
    BY DEF CloseInv, TypeOK
  <1>4. /\ p.dsn > nextRxSequence
        /\ unOrdered' \in {unOrdered, unOrdered \cup {u0}}
        /\ \/ UNCHANGED RxSeqNumber
           \/ p.seq = RxSeqNumber[i] /\ u0 \in unOrdered'
              /\ RxSeqNumber' = [RxSeqNumber EXCEPT ![i] = p.seq + 1]
    BY <1>3 DEF Receiver!StoreUnOrderedData
  <1> HIDE DEF u0
  <1>5. ASSUME NEW j \in Subflow, NEW s \in 1 .. Len(sent[j])
        PROVE  /\ s < RxSeqNumber[j] => s < RxSeqNumber'[j]
               /\ s < RxSeqNumber'[j] =>
                    s < RxSeqNumber[j] \/ (j = i /\ s = p.seq /\ u0 \in unOrdered')
    <2>1. CASE UNCHANGED RxSeqNumber
      BY <2>1
    <2>2. CASE /\ p.seq = RxSeqNumber[i] /\ u0 \in unOrdered'
               /\ RxSeqNumber' = [RxSeqNumber EXCEPT ![i] = p.seq + 1]
      <3>1. RxSeqNumber'[j] = IF j = i THEN RxSeqNumber[j] + 1 ELSE RxSeqNumber[j]
        BY <1>3, <2>2
      <3>2. RxSeqNumber[j] \in Nat /\ s \in Nat
        BY <1>3
      <3> QED BY <2>2, <3>1, <3>2
    <2> QED BY <1>4, <2>1, <2>2
  <1>6. ASSUME NEW u \in unOrdered'
        PROVE  SegmentOf(u.sf, u) /\ u.dsn > nextRxSequence'
    <2>1. CASE u \in unOrdered
      BY <1>2, <2>1 DEF DeliveryInv, CopiesAgree
    <2>2. CASE u = u0
      BY <1>1, <1>2, <1>4, <2>2 DEF SegmentOf, u0
    <2> QED BY <1>4, <2>1, <2>2
  <1>7. LevelsAgree'
    <2>1. ASSUME NEW j \in Subflow, NEW s \in 1 .. Len(sent[j])
          PROVE  /\ sent[j][s] < nextRxSequence => s < RxSeqNumber'[j]
                 /\ s < RxSeqNumber'[j] =>
                      \/ sent[j][s] < nextRxSequence
                      \/ [sf |-> j, seq |-> s, dsn |-> sent[j][s]] \in unOrdered'
      <3>1. /\ sent[j][s] < nextRxSequence => s < RxSeqNumber[j]
            /\ s < RxSeqNumber[j] =>
                 \/ sent[j][s] < nextRxSequence
                 \/ [sf |-> j, seq |-> s, dsn |-> sent[j][s]] \in unOrdered
        BY DEF DeliveryInv, LevelsAgree
      <3>2. unOrdered \subseteq unOrdered'
        BY <1>4
      <3>3. (j = i /\ s = p.seq) => u0 = [sf |-> j, seq |-> s, dsn |-> sent[j][s]]
        BY <1>1 DEF u0
      <3> QED BY <1>5, <3>1, <3>2, <3>3
    <2>2. nextRxSequence >= 1 /\ nextRxSequence <= nextTxSequence
      BY DEF DeliveryInv, LevelsAgree
    <2> QED BY <1>2, <2>1, <2>2 DEF LevelsAgree
  <1> QED BY <1>6, <1>7 DEF DataAgrees

LEMMA DataDelivered ==
  ASSUME CloseInv, DeliveryInv, UNCHANGED clientVars, NEW i \in Subflow,
         NEW p \in Packets(toServer[i]), p.type = "DATA", Receiver!DeliverData(i, p)
  PROVE  DataAgrees
  <1> DEFINE b == [RxSeqNumber EXCEPT ![i] = @ + 1]
  <1>0. Receiver!Subflow = Subflow
    BY DEF Receiver!Subflow, Subflow
  <1>1. /\ p.seq \in 1 .. Len(sent[i]) /\ p.dsn = sent[i][p.seq]
        /\ p.seq = RxSeqNumber[i] /\ p.dsn = nextRxSequence
    BY DEF DeliveryInv, CopiesAgree, SegmentOf, Receiver!DeliverData
  <1>2. UNCHANGED <<sent, nextTxSequence>>
    BY DEF clientVars, sendVars
  <1>3. PICK g \in nextRxSequence + 1 .. MaxData + 1 + 1 :
          /\ Receiver!ReadUnOrderedData(g)
          /\ nextRxSequence' = g
          /\ unOrdered' = {u \in unOrdered : u.dsn > g}
    BY DEF Receiver!DeliverData
  <1>4. /\ RxSeqNumber' \in [Subflow -> 1 .. MaxData + 1 + 1]
        /\ \A j \in Subflow : Receiver!PassesStored(j, b[j], RxSeqNumber'[j])
    BY <1>0 DEF Receiver!DeliverData
  <1>5. /\ nextRxSequence \in Nat \ {0} /\ g \in Nat /\ g > nextRxSequence
        /\ nextTxSequence \in Nat \ {0}
        /\ g \notin Receiver!StoredDSN
        /\ \A d \in nextRxSequence + 1 .. g - 1 : d \in Receiver!StoredDSN
    <2>1. nextRxSequence \in Nat \ {0} /\ nextTxSequence \in Nat \ {0}
      BY Numbers DEF DeliveryInv, LevelsAgree
    <2> QED BY <1>3, <2>1, Constants DEF Receiver!ReadUnOrderedData, Receiver!FirstGap
  <1>6. ASSUME NEW j \in Subflow
        PROVE  /\ RxSeqNumber[j] \in Nat
               /\ b[j] = IF j = i THEN RxSeqNumber[j] + 1 ELSE RxSeqNumber[j]
               /\ RxSeqNumber'[j] \in Nat /\ RxSeqNumber'[j] >= 1 /\ RxSeqNumber'[j] >= b[j]
               /\ RxSeqNumber'[j] \notin Receiver!Stored(j)
               /\ \A s \in b[j] .. RxSeqNumber'[j] - 1 : s \in Receiver!Stored(j)
    <2>1. RxSeqNumber \in [Subflow -> Nat]
      BY DEF CloseInv, TypeOK
    <2>2. b[j] = IF j = i THEN RxSeqNumber[j] + 1 ELSE RxSeqNumber[j]
      BY <2>1
    <2>3. RxSeqNumber'[j] \in 1 .. MaxData + 1 + 1 /\ Receiver!PassesStored(j, b[j], RxSeqNumber'[j])
      BY <1>4
    <2> QED BY <2>1, <2>2, <2>3, Constants DEF Receiver!PassesStored, Receiver!FirstGap
  <1> HIDE DEF b
  <1>7. nextRxSequence' >= 1 /\ nextRxSequence' <= nextTxSequence
    <2>1. g - 1 \in 1 .. nextTxSequence - 1
      <3>1. CASE g = nextRxSequence + 1
        <4>1. p.dsn \in 1 .. nextTxSequence - 1
          BY <1>1 DEF DeliveryInv, GivenInOrder
        <4> QED BY <1>1, <1>5, <3>1, <4>1
      <3>2. CASE g > nextRxSequence + 1
        <4>1. g - 1 \in Receiver!StoredDSN
          BY <1>5, <3>2
        <4> QED BY <4>1, StoredSegment DEF Receiver!StoredDSN
      <3> QED BY <1>5, <3>1, <3>2
    <2> QED BY <1>3, <1>5, <2>1
  <1>8. ASSUME NEW j \in Subflow, NEW s \in 1 .. Len(sent[j]), sent[j][s] < g
        PROVE  s < RxSeqNumber'[j]
    <2> DEFINE t == RxSeqNumber'[j]
    <2>0. t \in Nat /\ t >= 1 /\ s \in Nat /\ Len(sent[j]) \in Nat
      BY <1>6, Numbers
    <2> SUFFICES ASSUME t <= s PROVE FALSE
      BY <2>0
    <2>1. t \in 1 .. Len(sent[j])
      BY <2>0
    <2> HIDE DEF t
    <2>2. sent[j][t] \in Nat /\ sent[j][t] < g
      <3>1. sent[j][t] \in Nat /\ sent[j][s] \in Nat /\ sent[j][t] <= sent[j][s]
        BY <2>1, Monotone
      <3> QED BY <1>5, <1>8, <3>1
    <2>3. CASE sent[j][t] < nextRxSequence
      <3>1. t < RxSeqNumber[j]
        BY <2>1, <2>3 DEF DeliveryInv, LevelsAgree
      <3> QED BY <1>6, <3>1 DEF t
    <2>4. CASE sent[j][t] = nextRxSequence
      <3>1. j = i /\ t = RxSeqNumber[i]
        BY <1>1, <2>1, <2>4, SameSegment
      <3> QED BY <1>6, <3>1 DEF t
    <2>5. CASE sent[j][t] \in nextRxSequence + 1 .. g - 1
      <3>1. PICK u \in unOrdered : u.dsn = sent[j][t]
        BY <1>5, <2>5 DEF Receiver!StoredDSN
      <3>2. u.sf = j /\ u.seq = t
        BY <2>1, <3>1, StoredSegment, SameSegment
      <3>3. t \in Receiver!Stored(j)
        BY <3>2 DEF Receiver!Stored
      <3> QED BY <1>6, <3>3 DEF t
    <2> QED BY <1>5, <2>2, <2>3, <2>4, <2>5
  <1>9. ASSUME NEW j \in Subflow, NEW s \in 1 .. Len(sent[j]), s < RxSeqNumber'[j]
        PROVE  \/ sent[j][s] < g
               \/ [sf |-> j, seq |-> s, dsn |-> sent[j][s]] \in unOrdered'
    <2> DEFINE v == [sf |-> j, seq |-> s, dsn |-> sent[j][s]]
    <2>0. sent[j][s] \in Nat
      BY Numbers
    <2>1. CASE v \in unOrdered
      <3>1. v.dsn = sent[j][s]
        OBVIOUS
      <3>2. v.dsn \in Receiver!StoredDSN
        BY <2>1 DEF Receiver!StoredDSN
      <3>3. sent[j][s] # g
        BY <1>5, <3>1, <3>2
      <3> HIDE DEF v
      <3>4. CASE sent[j][s] > g
        <4>1. v.dsn > g
          BY <3>1, <3>4
        <4> QED BY <1>3, <2>1, <4>1 DEF v
      <3> QED BY <1>5, <2>0, <3>3, <3>4
    <2>2. CASE s < RxSeqNumber[j]
      <3>1. sent[j][s] < nextRxSequence \/ v \in unOrdered
        BY <2>2 DEF DeliveryInv, LevelsAgree
      <3> HIDE DEF v
      <3> QED BY <1>5, <2>0, <2>1, <3>1 DEF v
    <2>3. CASE j = i /\ s = p.seq
      BY <1>1, <1>5, <2>3
    <2>4. CASE s >= b[j]
      <3>1. s \in Receiver!Stored(j)
        BY <1>6, <1>9, <2>4, Numbers
      <3>2. PICK u \in unOrdered : u.sf = j /\ u.seq = s
        BY <3>1 DEF Receiver!Stored
      <3>3. u = v
        BY <3>2, StoredSegment
      <3> QED BY <2>1, <3>3
    <2> QED BY <1>1, <1>6, <2>2, <2>3, <2>4
  <1>10. ASSUME NEW u \in unOrdered'
         PROVE  SegmentOf(u.sf, u) /\ u.dsn > nextRxSequence'
    BY <1>3 DEF DeliveryInv, CopiesAgree
  <1>11. LevelsAgree'
    BY <1>2, <1>3, <1>7, <1>8, <1>9 DEF LevelsAgree
  <1> QED BY <1>10, <1>11 DEF DataAgrees

\* Data, and the ACK that answers it.
LEMMA ReceivedDataDelivery ==
  ASSUME CloseInv, DeliveryInv, UNCHANGED clientVars, NEW i \in Subflow,
         NEW p \in Packets(toServer[i]), ReceivedData(i, p),
         \A j \in Subflow : Packets(toServer'[j]) \subseteq Packets(toServer[j])
  PROVE  DeliveryInv'
  <1>1. /\ DataEffect(i) /\ UNCHANGED finSeq /\ EndHandshake(i)
        /\ toClient' = Put(toClient, i, Ack(RxSeqNumber'[i]))
    BY ReceivedDataEffect
  <1>2. UNCHANGED <<sent, nextTxSequence, highestAck>>
    BY DEF clientVars, sendVars
  <1>3. DataAgrees \/ (UNCHANGED <<RxSeqNumber, nextRxSequence, unOrdered>>)
    BY DataStored, DataDelivered DEF ReceivedData, Receiver!RejectDuplicate, Receiver!receiverVars
  <1>4. LevelsAgree' /\ \A u \in unOrdered' : SegmentOf(u.sf, u) /\ u.dsn > nextRxSequence'
    <2>1. CASE DataAgrees
      BY <2>1 DEF DataAgrees
    <2>2. CASE UNCHANGED <<RxSeqNumber, nextRxSequence, unOrdered>>
      BY <1>2, <2>2 DEF DeliveryInv, LevelsAgree, CopiesAgree
    <2> QED BY <1>3, <2>1, <2>2
  <1>5. GivenInOrder'
    BY <1>2 DEF DeliveryInv, GivenInOrder
  <1>6. CopiesAgree'
    BY <1>2, <1>4 DEF DeliveryInv, CopiesAgree, SegmentOf
  <1>7. AnswersAgree'
    <2>1. ASSUME NEW j \in Subflow
          PROVE  /\ highestAck'[j] < RxSeqNumber'[j]
                 /\ \A q \in Packets(toClient'[j]) : q.ack <= RxSeqNumber'[j]
                 /\ PeerOpen(j)' => RxSeqNumber'[j] <= Len(sent'[j]) + 1
      <3>1. /\ RxSeqNumber'[j] \in Nat /\ RxSeqNumber[j] \in Nat /\ highestAck[j] \in Nat
            /\ RxSeqNumber'[j] >= RxSeqNumber[j]
            /\ RxSeqNumber'[j] = RxSeqNumber[j] \/ RxSeqNumber'[j] <= Len(sent[j]) + 1
        BY <1>1, Numbers DEF DataEffect, DataTypes
      <3>2. /\ highestAck[j] < RxSeqNumber[j]
            /\ PeerOpen(j)' => RxSeqNumber[j] <= Len(sent[j]) + 1
        <4>1. PeerOpen(j)' => PeerOpen(j)
          BY <1>1, EndHandshakeEffect DEF PeerOpen
        <4> QED BY <4>1 DEF DeliveryInv, AnswersAgree
      <3>3. ASSUME NEW q \in Packets(toClient'[j]) PROVE q.ack <= RxSeqNumber'[j]
        <4>1. CASE q \in Packets(toClient[j])
          <5>1. q.ack \in Nat /\ q.ack <= RxSeqNumber[j]
            BY <4>1, AnswerFacts DEF DeliveryInv, AnswersAgree
          <5> QED BY <3>1, <5>1
        <4>2. CASE j = i /\ q = Ack(RxSeqNumber'[i])
          BY <3>1, <4>2 DEF Ack
        <4>3. q \in Packets(toClient[j]) \/ (j = i /\ q = Ack(RxSeqNumber'[i]))
          <5>1. toClient \in [Subflow -> Seq(Answer)] /\ Ack(RxSeqNumber'[i]) \in Answer
            BY <1>1, AckFits DEF CloseInv, TypeOK, DataEffect, DataTypes
          <5>2. Packets(Put(toClient, i, Ack(RxSeqNumber'[i]))[j]) \subseteq
                  Packets(toClient[j]) \cup (IF j = i THEN {Ack(RxSeqNumber'[i])} ELSE {})
            BY <5>1, PutToClient
          <5> QED BY <1>1, <5>2
        <4> QED BY <4>1, <4>2, <4>3
      <3> QED BY <1>1, <1>2, <3>1, <3>2, <3>3
    <2> QED BY <2>1 DEF AnswersAgree
  <1> QED BY <1>4, <1>5, <1>6, <1>7 DEF DeliveryInv

---------------------------------------------------------------------------
(* The server's other steps, and losses.                                   *)

\* Data and client stay; what is answered is not more than the server has.
LEMMA PeerFrame ==
  ASSUME CloseInv, DeliveryInv, UNCHANGED <<clientVars, dataVars>>,
         \A j \in Subflow : PeerOpen(j)' => PeerOpen(j),
         \A j \in Subflow : Packets(toServer'[j]) \subseteq Packets(toServer[j]),
         \A j \in Subflow : \A p \in Packets(toClient'[j]) :
           p \in Packets(toClient[j]) \/ p.ack <= RxSeqNumber[j]
  PROVE  DeliveryInv'
  <1>1. /\ UNCHANGED <<sent, nextTxSequence, highestAck>>
        /\ UNCHANGED <<RxSeqNumber, nextRxSequence, unOrdered>>
    BY DEF clientVars, sendVars, dataVars
  <1>2. ASSUME NEW j \in Subflow
        PROVE  /\ RxSeqNumber[j] \in Nat /\ highestAck[j] < RxSeqNumber[j]
               /\ PeerOpen(j)' => RxSeqNumber[j] <= Len(sent[j]) + 1
    BY Numbers DEF DeliveryInv, AnswersAgree
  <1>3. Frame
    BY <1>1, <1>2 DEF Frame
  <1> QED BY <1>3, FrameKeeps

LEMMA PutAnswer ==
  ASSUME CloseInv, NEW i \in Subflow, NEW p \in Answer, toClient' = Put(toClient, i, p)
  PROVE  \A j \in Subflow : \A q \in Packets(toClient'[j]) :
           q \in Packets(toClient[j]) \/ (j = i /\ q = p)
  <1>1. toClient \in [Subflow -> Seq(Answer)]
    BY DEF CloseInv, TypeOK
  <1>2. \A j \in Subflow : Packets(Put(toClient, i, p)[j]) \subseteq
                             Packets(toClient[j]) \cup (IF j = i THEN {p} ELSE {})
    BY <1>1, PutToClient
  <1> QED BY <1>2

\* The answers that come from no data.
LEMMA SmallAnswers ==
  ASSUME CloseInv, DeliveryInv, NEW i \in Subflow
  PROVE  /\ FinAck(RxSeqNumber[i]) \in Answer /\ FinAck(RxSeqNumber[i]).ack <= RxSeqNumber[i]
         /\ PeerRst \in Answer /\ PeerRst.ack <= RxSeqNumber[i]
         /\ SynAck \in Answer /\ SynAck.ack <= RxSeqNumber[i]
  <1>1. RxSeqNumber[i] \in Nat /\ RxSeqNumber[i] >= 1
    BY Numbers DEF DeliveryInv, AnswersAgree
  <1> QED BY <1>1 DEF FinAck, PeerRst, SynAck, Answer

\* A FIN that is consumed ends the established state.
LEMMA PeerCloseDelivery ==
  ASSUME CloseInv, DeliveryInv, UNCHANGED clientVars, NEW i \in Subflow,
         NEW p \in Packets(toServer[i]), PeerClose(i, p),
         \A j \in Subflow : Packets(toServer'[j]) \subseteq Packets(toServer[j])
  PROVE  DeliveryInv'
  <1>1. /\ p.type = "FIN" /\ peerState[i] = "ESTABLISHED"
        /\ finSeq' = [finSeq EXCEPT ![i] = p.seq]
        /\ RxSeqNumber' = [RxSeqNumber EXCEPT ![i] = IF @ = p.seq THEN @ + 1 ELSE @]
        /\ UNCHANGED <<nextRxSequence, unOrdered>>
        /\ ThenPeerClose(i, toClient)
    BY DEF PeerClose
  <1>2. p.seq \in Nat /\ p.seq = Len(sent[i]) + 1 /\ Len(sent[i]) \in Nat
    BY <1>1, PacketFacts, Numbers
  <1>3. /\ RxSeqNumber \in [Subflow -> Nat] /\ finSeq \in [Subflow -> Nat]
        /\ peerState \in [Subflow -> PeerStates]
    BY DEF CloseInv, TypeOK, PeerStates
  <1>4. /\ finSeq'[i] = Len(sent[i]) + 1
        /\ \A j \in Subflow : RxSeqNumber'[j] = IF j = i /\ RxSeqNumber[j] = Len(sent[i]) + 1
                                                 THEN RxSeqNumber[j] + 1 ELSE RxSeqNumber[j]
    BY <1>1, <1>2, <1>3
  <1>5. UNCHANGED <<sent, nextTxSequence, highestAck>>
    BY DEF clientVars, sendVars
  <1>6. /\ Finished(i) => peerState' = [peerState EXCEPT ![i] = "LAST_ACK"]
                          /\ toClient' = Put(toClient, i, FinAck(RxSeqNumber'[i]))
        /\ ~Finished(i) => UNCHANGED <<peerState, toClient>>
    <2>1. EndHandshake(i) => peerState' = peerState
      BY <1>1, <1>3 DEF EndHandshake
    <2> QED BY <1>1, <2>1 DEF ThenPeerClose
  <1>7. ASSUME NEW j \in Subflow
        PROVE  /\ RxSeqNumber'[j] \in Nat /\ RxSeqNumber'[j] >= RxSeqNumber[j]
               /\ RxSeqNumber'[j] = RxSeqNumber[j] \/ RxSeqNumber[j] > Len(sent[j])
               /\ highestAck'[j] < RxSeqNumber'[j]
    <2>1. /\ RxSeqNumber[j] \in Nat /\ highestAck[j] \in Nat /\ highestAck[j] < RxSeqNumber[j]
          /\ Len(sent[j]) \in Nat
      BY Numbers DEF DeliveryInv, AnswersAgree
    <2> QED BY <1>2, <1>4, <1>5, <2>1
  <1>8. ASSUME NEW j \in Subflow, PeerOpen(j)'
        PROVE  RxSeqNumber'[j] <= Len(sent[j]) + 1
    <2>1. PeerOpen(j) /\ (j = i => ~Finished(i))
      BY <1>3, <1>6, <1>8 DEF PeerOpen
    <2>2. RxSeqNumber[j] \in Nat /\ RxSeqNumber[j] <= Len(sent[j]) + 1
      BY <2>1, Numbers DEF DeliveryInv, AnswersAgree
    <2>3. CASE j = i /\ RxSeqNumber[j] = Len(sent[i]) + 1
      <3>1. Finished(i)
        BY <1>2, <1>4, <2>3 DEF Finished
      <3> QED BY <2>1, <2>3, <3>1
    <2>4. CASE ~(j = i /\ RxSeqNumber[j] = Len(sent[i]) + 1)
      BY <1>4, <2>2, <2>4
    <2> QED BY <2>3, <2>4
  <1>9. ASSUME NEW j \in Subflow, NEW q \in Packets(toClient'[j])
        PROVE  q \in Packets(toClient[j]) \/ q.ack <= RxSeqNumber'[j]
    <2>1. CASE Finished(i)
      <3>1. FinAck(RxSeqNumber'[i]) \in Answer /\ FinAck(RxSeqNumber'[i]).ack <= RxSeqNumber'[i]
        BY <1>7 DEF FinAck, Answer
      <3> QED BY <1>6, <2>1, <3>1, PutAnswer
    <2>2. CASE ~Finished(i)
      BY <1>6, <2>2
    <2> QED BY <2>1, <2>2
  <1>10. Frame
    BY <1>1, <1>5, <1>7, <1>8, <1>9 DEF Frame
  <1> QED BY <1>10, FrameKeeps

LEMMA ServerReceiveDelivery ==
  ASSUME CloseInv, DeliveryInv, NEW i \in Subflow, ServerReceive(i)
  PROVE  DeliveryInv'
  <1> DEFINE p == Head(toServer[i])
  <1>1. /\ toServer[i] # <<>> /\ toServer' = [toServer EXCEPT ![i] = Tail(@)]
        /\ UNCHANGED clientVars
        /\ \/ ProcessListen(i, p) \/ ProcessSynRcvd(i, p)
           \/ ReceivedData(i, p) \/ PeerClose(i, p) \/ ProcessLastAck(i, p)
           \/ PeerReset(i, p) \/ ReceivedClosed(i, p)
    BY DEF ServerReceive
  <1>2. /\ \A j \in Subflow : Packets(toServer'[j]) \subseteq Packets(toServer[j])
        /\ p \in Packets(toServer[i])
    BY <1>1, TailToServer DEF CloseInv
  <1> HIDE DEF p
  <1>3. peerState \in [Subflow -> PeerStates]
    BY DEF CloseInv, TypeOK, PeerStates
  <1>4. CASE ReceivedData(i, p)
    BY <1>1, <1>2, <1>4, ReceivedDataDelivery
  <1>5. CASE PeerClose(i, p)
    BY <1>1, <1>2, <1>5, PeerCloseDelivery
  <1>6. CASE \/ ProcessListen(i, p) \/ ProcessSynRcvd(i, p)
             \/ ProcessLastAck(i, p) \/ PeerReset(i, p) \/ ReceivedClosed(i, p)
    <2>1. /\ UNCHANGED dataVars
          /\ \/ UNCHANGED toClient
             \/ toClient' = Put(toClient, i, FinAck(RxSeqNumber[i]))
             \/ toClient' = Put(toClient, i, PeerRst)
             \/ toClient' = Put(toClient, i, SynAck)
      BY <1>6 DEF ProcessListen, ProcessSynRcvd, ProcessLastAck, PeerReset, ReceivedClosed
    <2>2. \A j \in Subflow : PeerOpen(j)' => PeerOpen(j)
      <3>1. CASE ProcessLastAck(i, p)
        BY <1>3, <3>1 DEF ProcessLastAck, PeerOpen
      <3>2. CASE PeerReset(i, p)
        BY <3>2 DEF PeerReset, PeerOpen
      <3>3. CASE ReceivedClosed(i, p)
        BY <3>3 DEF ReceivedClosed, PeerOpen
      <3>4. CASE ProcessListen(i, p)
        BY <1>3, <3>4 DEF ProcessListen, PeerOpen
      <3>5. CASE ProcessSynRcvd(i, p)
        BY <3>5, EndHandshakeEffect DEF ProcessSynRcvd, PeerOpen
      <3> QED BY <1>6, <3>1, <3>2, <3>3, <3>4, <3>5
    <2>3. \A j \in Subflow : \A q \in Packets(toClient'[j]) :
            q \in Packets(toClient[j]) \/ q.ack <= RxSeqNumber[j]
      BY <2>1, SmallAnswers, PutAnswer
    <2> QED BY <1>1, <1>2, <2>1, <2>2, <2>3, PeerFrame
  <1> QED BY <1>1, <1>4, <1>5, <1>6

LEMMA LastAckTimeoutDelivery ==
  ASSUME CloseInv, DeliveryInv, NEW i \in Subflow, LastAckTimeout(i)
  PROVE  DeliveryInv'
  <1>1. /\ toClient' = Put(toClient, i, FinAck(RxSeqNumber[i]))
        /\ peerState' = [peerState EXCEPT ![i] = "CLOSED"]
        /\ UNCHANGED <<clientVars, dataVars, toServer>>
    BY DEF LastAckTimeout, ResendFinAck
  <1>2. \A j \in Subflow : PeerOpen(j)' => PeerOpen(j)
    BY <1>1 DEF CloseInv, TypeOK, PeerOpen
  <1>3. \A j \in Subflow : \A q \in Packets(toClient'[j]) :
          q \in Packets(toClient[j]) \/ q.ack <= RxSeqNumber[j]
    BY <1>1, SmallAnswers, PutAnswer
  <1> QED BY <1>1, <1>2, <1>3, PeerFrame

LEMMA ResendSynAckDelivery ==
  ASSUME CloseInv, DeliveryInv, NEW i \in Subflow, ResendSynAck(i)
  PROVE  DeliveryInv'
  <1>1. /\ UNCHANGED toClient \/ toClient' = Put(toClient, i, SynAck)
        /\ UNCHANGED peerState \/ peerState' = [peerState EXCEPT ![i] = "CLOSED"]
        /\ UNCHANGED <<clientVars, dataVars, toServer>>
    BY DEF ResendSynAck
  <1>2. \A j \in Subflow : PeerOpen(j)' => PeerOpen(j)
    BY <1>1 DEF CloseInv, TypeOK, PeerOpen
  <1>3. \A j \in Subflow : \A q \in Packets(toClient'[j]) :
          q \in Packets(toClient[j]) \/ q.ack <= RxSeqNumber[j]
    BY <1>1, SmallAnswers, PutAnswer
  <1> QED BY <1>1, <1>2, <1>3, PeerFrame

LEMMA LosePacketDelivery ==
  ASSUME CloseInv, DeliveryInv, NEW i \in Subflow, LosePacket(i)
  PROVE  DeliveryInv'
  <1>1. UNCHANGED <<clientVars, peerState, dataVars>>
    BY DEF LosePacket, serverVars
  <1>5. \A j \in Subflow : PeerOpen(j)' => PeerOpen(j)
    BY <1>1 DEF PeerOpen
  <1>2. /\ toServer \in [Subflow -> Seq(Packet)] /\ toClient \in [Subflow -> Seq(Answer)]
        /\ toServer[i] \in Seq(Packet) /\ toClient[i] \in Seq(Answer)
    BY DEF CloseInv, TypeOK
  <1>3. CASE \E k \in 1 .. Len(toServer[i]) :
               toServer' = [toServer EXCEPT ![i] = DropAt(@, k)] /\ UNCHANGED toClient
    <2>1. PICK k \in 1 .. Len(toServer[i]) :
            toServer' = [toServer EXCEPT ![i] = DropAt(@, k)] /\ UNCHANGED toClient
      BY <1>3
    <2>2. Packets(DropAt(toServer[i], k)) \subseteq Packets(toServer[i])
      BY <1>2, DropPackets
    <2>3. \A j \in Subflow : Packets(toServer'[j]) \subseteq Packets(toServer[j])
      BY <1>2, <2>1, <2>2
    <2> QED BY <1>1, <1>5, <2>1, <2>3, PeerFrame
  <1>4. CASE \E k \in 1 .. Len(toClient[i]) :
               toClient' = [toClient EXCEPT ![i] = DropAt(@, k)] /\ UNCHANGED toServer
    <2>1. PICK k \in 1 .. Len(toClient[i]) :
            toClient' = [toClient EXCEPT ![i] = DropAt(@, k)] /\ UNCHANGED toServer
      BY <1>4
    <2>2. Packets(DropAt(toClient[i], k)) \subseteq Packets(toClient[i])
      BY <1>2, DropPackets
    <2>3. \A j \in Subflow : Packets(toClient'[j]) \subseteq Packets(toClient[j])
      BY <1>2, <2>1, <2>2
    <2> QED BY <1>1, <1>5, <2>1, <2>3, PeerFrame
  <1> QED BY <1>3, <1>4 DEF LosePacket

LEMMA QuietDelivery ==
  ASSUME CloseInv, DeliveryInv,
         UNCHANGED vars \/ EndSendPendingData \/ CloseMultipathConnection
  PROVE  DeliveryInv'
  <1>1. UNCHANGED <<sent, nextTxSequence, highestAck, serverVars, toServer, toClient>>
    BY DEF EndSendPendingData, CloseMultipathConnection, vars, clientVars, sendVars, netVars
  <1> QED BY <1>1, AcksStay, ClientFrame

---------------------------------------------------------------------------
(* The theorems.                                                           *)

LEMMA NextDelivery == CloseInv /\ DeliveryInv /\ [Next]_vars => DeliveryInv'
  <1> SUFFICES ASSUME CloseInv, DeliveryInv, [Next]_vars PROVE DeliveryInv'
    OBVIOUS
  <1>1. CASE UNCHANGED vars \/ Stop \/ EndSendPendingData \/ CloseMultipathConnection
    BY <1>1, QuietDelivery DEF Stop
  <1>2. CASE SendPendingData
    BY <1>2, SendPendingDataDelivery
  <1>3. CASE Close
    BY <1>3, CloseDelivery
  <1>4. ASSUME NEW i \in Subflow,
               \/ ScheduledDoClose(i) \/ ClientReceive(i) \/ ReTxTimeout(i)
               \/ ServerReceive(i) \/ LastAckTimeout(i) \/ ResendSynAck(i) \/ LosePacket(i)
        PROVE  DeliveryInv'
    BY <1>4, CloseDelivery, ClientReceiveDelivery, ReTxTimeoutDelivery, ServerReceiveDelivery,
       LastAckTimeoutDelivery, ResendSynAckDelivery, LosePacketDelivery
  <1> QED BY <1>1, <1>2, <1>3, <1>4 DEF Next, Sending

\* What is in flight, stored and acknowledged agrees with what was sent.
THEOREM DeliveryInvariant == Spec => []DeliveryInv
  BY InitDelivery, NextDelivery, CloseInvariant, PTL DEF Spec

\* When all subflows of a connection that was not reset are closed, the data is
\* at the server: were any missing, the connection would expect a segment that
\* its subflow has passed, and that is neither delivered nor stored.
LEMMA GracefulFromInv == CloseInv /\ DeliveryInv => GracefulClose
  <1> SUFFICES ASSUME CloseInv, DeliveryInv, ClientClosed, ~reset
               PROVE  /\ sendingBuffer = 0 /\ nextRxSequence = nextTxSequence
                      /\ \A i \in Subflow : highestAck[i] >= maxSeqNb(i)
    BY DEF GracefulClose
  <1>1. \A i \in Subflow : sendingBuffer = 0 /\ highestAck[i] >= Len(sent[i])
    BY DEF CloseInv, ClosesInOrder, ClientClosed
  <1>2. sendingBuffer = 0
    BY <1>1, Constants
  <1>3. /\ nextRxSequence \in Nat /\ nextTxSequence \in Nat
        /\ nextRxSequence >= 1 /\ nextRxSequence <= nextTxSequence
    BY Numbers DEF DeliveryInv, LevelsAgree
  <1>4. ASSUME nextRxSequence < nextTxSequence PROVE FALSE
    <2>1. nextRxSequence \in 1 .. nextTxSequence - 1
      BY <1>3, <1>4
    <2>2. PICK i \in Subflow : \E s \in 1 .. Len(sent[i]) : sent[i][s] = nextRxSequence
      BY <2>1 DEF DeliveryInv, GivenInOrder
    <2>3. PICK s \in 1 .. Len(sent[i]) : sent[i][s] = nextRxSequence
      BY <2>2
    <2>4. s < RxSeqNumber[i]
      <3>1. highestAck[i] < RxSeqNumber[i]
        BY DEF DeliveryInv, AnswersAgree
      <3> QED BY <1>1, <3>1, Numbers
    <2>5. [sf |-> i, seq |-> s, dsn |-> nextRxSequence] \in unOrdered
      BY <1>3, <2>3, <2>4 DEF DeliveryInv, LevelsAgree
    <2>6. [sf |-> i, seq |-> s, dsn |-> nextRxSequence].dsn > nextRxSequence
      BY <2>5 DEF DeliveryInv, CopiesAgree
    <2> QED BY <1>3, <2>6
  <1> QED BY <1>1, <1>2, <1>3, <1>4 DEF maxSeqNb

LEMMA NoAbortFromInv == CloseInv /\ DeliveryInv => NoAbort
  <1> SUFFICES ASSUME CloseInv, DeliveryInv, NEW i \in Subflow, NEW k \in 1 .. Len(toServer[i])
               PROVE  LET p == toServer[i][k]
                      IN /\ p.type = "FIN" /\ peerState[i] = "ESTABLISHED" =>
                              p.seq >= RxSeqNumber[i] /\ p.seq >= finSeq[i]
                         /\ p.type = "DATA" /\ finSeq[i] > 0 => p.seq < finSeq[i]
                         /\ p.type = "DATA" /\ p.seq = RxSeqNumber[i] => p.dsn >= nextRxSequence
                         /\ p.type = "DATA" /\ p.seq > RxSeqNumber[i] => p.dsn > nextRxSequence
    BY DEF NoAbort
  <1> DEFINE p == toServer[i][k]
  <1>1. p \in Packets(toServer[i])
    BY DEF Packets
  <1> HIDE DEF p
  <1>2. /\ RxSeqNumber[i] \in Nat /\ finSeq[i] \in Nat /\ Len(sent[i]) \in Nat
        /\ finSeq[i] = 0 \/ finSeq[i] = Len(sent[i]) + 1
    BY PeerFacts
  <1>3. /\ p.seq \in Nat /\ p.dsn \in Nat
        /\ p.type = "DATA" => p.seq <= Len(sent[i])
        /\ p.type = "FIN" => p.seq = Len(sent[i]) + 1
    BY <1>1, PacketFacts
  <1>4. p.type = "FIN" /\ peerState[i] = "ESTABLISHED" => p.seq >= RxSeqNumber[i] /\ p.seq >= finSeq[i]
    BY <1>2, <1>3 DEF DeliveryInv, AnswersAgree, PeerOpen
  <1>5. p.type = "DATA" /\ finSeq[i] > 0 => p.seq < finSeq[i]
    BY <1>2, <1>3
  <1>6. ASSUME p.type = "DATA", p.seq >= RxSeqNumber[i]
        PROVE  /\ p.dsn >= nextRxSequence
               /\ p.seq > RxSeqNumber[i] => p.dsn > nextRxSequence
    <2>1. p.seq \in 1 .. Len(sent[i]) /\ p.dsn = sent[i][p.seq]
      BY <1>1, <1>6 DEF DeliveryInv, CopiesAgree, SegmentOf
    <2>2. ~(p.dsn < nextRxSequence)
      <3>1. sent[i][p.seq] < nextRxSequence => p.seq < RxSeqNumber[i]
        BY <2>1 DEF DeliveryInv, LevelsAgree
      <3>2. ~(p.seq < RxSeqNumber[i])
        BY <1>2, <1>3, <1>6
      <3> QED BY <2>1, <3>1, <3>2
    <2>3. nextRxSequence \in Nat
      BY Numbers
    <2>4. ASSUME p.seq > RxSeqNumber[i], p.dsn = nextRxSequence PROVE FALSE
      <3>1. RxSeqNumber[i] >= 1
        BY Numbers DEF DeliveryInv, AnswersAgree
      <3>2. RxSeqNumber[i] \in 1 .. Len(sent[i])
        BY <1>2, <1>3, <2>1, <2>4, <3>1
      <3>3. sent[i][RxSeqNumber[i]] < nextRxSequence
        <4>1. RxSeqNumber[i] < p.seq /\ RxSeqNumber[i] <= p.seq
          BY <1>2, <1>3, <2>4
        <4>2. sent[i][RxSeqNumber[i]] < sent[i][p.seq]
          BY <2>1, <3>2, <4>1, Monotone
        <4> QED BY <2>1, <2>4, <4>2
      <3>4. RxSeqNumber[i] < RxSeqNumber[i]
        BY <3>2, <3>3 DEF DeliveryInv, LevelsAgree
      <3> QED BY <1>2, <3>4
    <2> QED BY <1>3, <2>2, <2>3, <2>4
  <1>7. p.type = "DATA" => /\ p.seq = RxSeqNumber[i] => p.dsn >= nextRxSequence
                           /\ p.seq > RxSeqNumber[i] => p.dsn > nextRxSequence
    BY <1>2, <1>3, <1>6
  <1> QED BY <1>4, <1>5, <1>7 DEF p

\* A connection that closes without a reset has delivered, in order, and had
\* acknowledged all that was written, whatever was lost on the way and however
\* the FINs, the late DoClose and the timers raced with the data (Close,
\* SendAllSubflowsFIN, ProcessWait, TimeWait).
THEOREM ClosesGracefully == Spec => []GracefulClose
  BY GracefulFromInv, CloseInvariant, DeliveryInvariant, PTL

\* The server never meets a FIN older than its data or data it has no branch
\* for (PeerClose, SetFinSequence, ReceivedData).
THEOREM NeverAborts == Spec => []NoAbort
  BY NoAbortFromInv, CloseInvariant, DeliveryInvariant, PTL

---------------------------------------------------------------------------
(* The stream: cutting a segment is Send, the first copy of one that the    *)
(* server takes is Arrive, an ACK or a FIN+ACK that acknowledges more is    *)
(* Forget, and the rest, FINs and resets with it, is nothing to the stream. *)

Held == UNION {Unacknowledged(i) : i \in Subflow}
Have == 1 .. nextRxSequence - 1 \cup Stored

Unseen == UNCHANGED <<sent, highestAck, sendingBuffer, nextTxSequence, nextRxSequence, unOrdered>>

LEMMA UnseenStutters ==
  ASSUME Unseen
  PROVE  UNCHANGED Stream!streamVars
  BY DEF Unseen, Stream!streamVars, Stored, Unacknowledged, maxSeqNb

LEMMA MappedVariables ==
  Stream!streamVars = <<nextTxSequence - 1 + sendingBuffer, nextTxSequence - 1, Held, Have,
                        nextRxSequence - 1>>
  BY DEF Stream!streamVars, Held, Have

LEMMA InHeld ==
  ASSUME CloseInv, NEW d
  PROVE  d \in Held <=> \E j \in Subflow : \E s \in 1 .. Len(sent[j]) :
                          s > highestAck[j] /\ sent[j][s] = d
  <1>1. d \in Held <=> \E j \in Subflow : \E s \in highestAck[j] + 1 .. Len(sent[j]) : sent[j][s] = d
    BY DEF Held, Unacknowledged, maxSeqNb
  <1>2. \A j \in Subflow : highestAck[j] \in Nat /\ Len(sent[j]) \in Nat
    BY Numbers
  <1>3. \A j \in Subflow : \A s :
          s \in highestAck[j] + 1 .. Len(sent[j]) <=> s \in 1 .. Len(sent[j]) /\ s > highestAck[j]
    BY <1>2
  <1> QED BY <1>1, <1>3

LEMMA InHeldNext ==
  ASSUME CloseInv', NEW d
  PROVE  d \in Held' <=> \E j \in Subflow : \E s \in 1 .. Len(sent'[j]) :
                           s > highestAck'[j] /\ sent'[j][s] = d
  <1>1. d \in Held' <=> \E j \in Subflow : \E s \in highestAck'[j] + 1 .. Len(sent'[j]) : sent'[j][s] = d
    BY DEF Held, Unacknowledged, maxSeqNb
  <1>2. \A j \in Subflow : highestAck'[j] \in Nat /\ Len(sent'[j]) \in Nat
    BY Types DEF CloseInv, TypeOK
  <1>3. \A j \in Subflow : \A s :
          s \in highestAck'[j] + 1 .. Len(sent'[j]) <=> s \in 1 .. Len(sent'[j]) /\ s > highestAck'[j]
    BY <1>2
  <1> QED BY <1>1, <1>3

\* A new segment is the next one of the stream.
LEMMA SendNewSends ==
  ASSUME CloseInv, CloseInv', DeliveryInv, NEW k \in Subflow, SendNew(k), sendingBuffer > 0,
         state[k] = "ESTABLISHED", UNCHANGED <<highestAck, serverVars>>
  PROVE  Stream!Send
  <1> DEFINE n == Len(sent[k]) + 1
  <1>1. /\ sent' = [sent EXCEPT ![k] = Append(@, nextTxSequence)]
        /\ sendingBuffer' = sendingBuffer - 1 /\ nextTxSequence' = nextTxSequence + 1
        /\ UNCHANGED <<highestAck, nextRxSequence, unOrdered>>
    BY DEF SendNew, serverVars, dataVars
  <1>2. /\ nextTxSequence \in Nat \ {0} /\ sendingBuffer \in Nat
        /\ sent \in [Subflow -> Seq(Nat)] /\ sent[k] \in Seq(Nat) /\ Len(sent[k]) \in Nat
        /\ highestAck[k] \in Nat
    <2>1. TypeOK
      BY DEF CloseInv
    <2>2. sendingBuffer \in Nat /\ sent \in [Subflow -> Seq(Nat)]
      BY <2>1, Constants DEF TypeOK
    <2> QED BY <2>1, <2>2, Numbers, Types
  <1>3. /\ Len(sent'[k]) = n /\ sent'[k][n] = nextTxSequence
        /\ \A s \in 1 .. Len(sent[k]) : sent'[k][s] = sent[k][s]
        /\ \A j \in Subflow \ {k} : sent'[j] = sent[j]
    <2>1. sent'[k] = Append(sent[k], nextTxSequence)
      BY <1>1, <1>2
    <2> QED BY <1>1, <1>2, <2>1
  <1>4. highestAck[k] < n
    <2>1. highestAck[k] < RxSeqNumber[k] /\ RxSeqNumber[k] \in Nat
      BY Numbers DEF DeliveryInv, AnswersAgree
    <2>2. ~Over(k)
      BY DEF Over
    <2> HIDE DEF Over
    <2>3. RxSeqNumber[k] <= Len(sent[k]) + 1
      BY <2>2, PeerFacts
    <2> QED BY <1>2, <2>1, <2>3
  <1> HIDE DEF n
  <1>5. Held' = Held \cup {nextTxSequence}
    <2>1. ASSUME NEW d \in Held' PROVE d \in Held \/ d = nextTxSequence
      <3>1. PICK j \in Subflow : \E s \in 1 .. Len(sent'[j]) : s > highestAck'[j] /\ sent'[j][s] = d
        BY InHeldNext
      <3>2. PICK s \in 1 .. Len(sent'[j]) : s > highestAck'[j] /\ sent'[j][s] = d
        BY <3>1
      <3>3. \/ s \in 1 .. Len(sent[j]) /\ sent'[j][s] = sent[j][s]
            \/ sent'[j][s] = nextTxSequence
        BY <1>2, <1>3 DEF n
      <3> QED BY <1>1, <3>2, <3>3, InHeld
    <2>2. ASSUME NEW d \in Held PROVE d \in Held'
      <3>1. PICK j \in Subflow : \E s \in 1 .. Len(sent[j]) : s > highestAck[j] /\ sent[j][s] = d
        BY InHeld
      <3>2. PICK s \in 1 .. Len(sent[j]) : s > highestAck[j] /\ sent[j][s] = d
        BY <3>1
      <3>3. s \in 1 .. Len(sent'[j]) /\ sent'[j][s] = d
        BY <1>2, <1>3, <3>2 DEF n
      <3> QED BY <1>1, <3>2, <3>3, InHeldNext
    <2>3. nextTxSequence \in Held'
      <3>1. n \in 1 .. Len(sent'[k])
        BY <1>2, <1>3 DEF n
      <3> QED BY <1>1, <1>3, <1>4, <3>1, InHeldNext
    <2> QED BY <2>1, <2>2, <2>3
  <1>6. /\ nextTxSequence - 1 < nextTxSequence - 1 + sendingBuffer
        /\ nextTxSequence' - 1 = (nextTxSequence - 1) + 1
        /\ nextTxSequence = (nextTxSequence - 1) + 1
        /\ nextTxSequence' - 1 + sendingBuffer' = nextTxSequence - 1 + sendingBuffer
    BY <1>1, <1>2
  <1>7. Have' = Have /\ nextRxSequence' = nextRxSequence
    BY <1>1 DEF Have, Stored
  <1> QED BY <1>5, <1>6, <1>7 DEF Stream!Send, Held, Have

\* What the server's subflow has passed is delivered or stored.
LEMMA PassedIsHad ==
  ASSUME CloseInv, DeliveryInv, NEW i \in Subflow, NEW s \in 1 .. Len(sent[i]),
         s < RxSeqNumber[i]
  PROVE  sent[i][s] \in Have
  <1>1. sent[i][s] \in 1 .. nextTxSequence - 1 /\ nextRxSequence \in Nat /\ nextTxSequence \in Nat
    BY Numbers DEF DeliveryInv, GivenInOrder
  <1>2. CASE sent[i][s] < nextRxSequence
    BY <1>1, <1>2 DEF Have
  <1>3. CASE [sf |-> i, seq |-> s, dsn |-> sent[i][s]] \in unOrdered
    BY <1>3 DEF Have, Stored
  <1> QED BY <1>2, <1>3 DEF DeliveryInv, LevelsAgree

\* Raising highestAck below what the server expects forgets what it has.
LEMMA AckForgets ==
  ASSUME CloseInv, CloseInv', DeliveryInv,
         \A j \in Subflow : highestAck[j] <= highestAck'[j] /\ highestAck'[j] < RxSeqNumber[j],
         UNCHANGED <<sent, sendingBuffer, nextTxSequence, nextRxSequence, unOrdered>>
  PROVE  Stream!Forget \/ UNCHANGED Stream!streamVars
  <1>1. ASSUME NEW j \in Subflow
        PROVE  /\ highestAck[j] \in Nat /\ highestAck'[j] \in Nat /\ RxSeqNumber[j] \in Nat
               /\ Len(sent[j]) \in Nat
    BY Numbers DEF CloseInv, TypeOK
  <1>2. Held' \subseteq Held
    <2> SUFFICES ASSUME NEW d \in Held' PROVE d \in Held
      OBVIOUS
    <2>1. PICK j \in Subflow : \E s \in 1 .. Len(sent'[j]) : s > highestAck'[j] /\ sent'[j][s] = d
      BY InHeldNext
    <2>2. PICK s \in 1 .. Len(sent[j]) : s > highestAck'[j] /\ sent[j][s] = d
      BY <2>1
    <2>3. s > highestAck[j]
      BY <1>1, <2>2
    <2> QED BY <2>2, <2>3, InHeld
  <1>3. Held \ Held' \subseteq Have
    <2> SUFFICES ASSUME NEW d \in Held, d \notin Held' PROVE d \in Have
      OBVIOUS
    <2>1. PICK j \in Subflow : \E s \in 1 .. Len(sent[j]) : s > highestAck[j] /\ sent[j][s] = d
      BY InHeld
    <2>2. PICK s \in 1 .. Len(sent[j]) : sent[j][s] = d
      BY <2>1
    <2>3. ~(s > highestAck'[j])
      BY <2>2, InHeldNext
    <2>4. s < RxSeqNumber[j]
      BY <1>1, <2>3
    <2> QED BY <2>2, <2>4, PassedIsHad
  <1>4. Have' = Have
    BY DEF Have, Stored
  <1>5. CASE Held' = Held
    BY <1>4, <1>5, MappedVariables DEF Stream!streamVars, Held, Have
  <1>6. CASE Held' # Held
    BY <1>2, <1>3, <1>4, <1>6 DEF Stream!Forget, Held, Have
  <1> QED BY <1>5, <1>6

\* A segment new to its subflow is one the client still keeps.
LEMMA NewIsHeld ==
  ASSUME CloseInv, DeliveryInv, NEW i \in Subflow, NEW p \in Packets(toServer[i]),
         p.type = "DATA", p.seq >= RxSeqNumber[i]
  PROVE  p.dsn \in Held /\ p.dsn \in 1 .. nextTxSequence - 1
  <1>1. p.seq \in 1 .. Len(sent[i]) /\ p.dsn = sent[i][p.seq]
    BY DEF DeliveryInv, CopiesAgree, SegmentOf
  <1>2. highestAck[i] < RxSeqNumber[i] /\ highestAck[i] \in Nat /\ RxSeqNumber[i] \in Nat
    BY Numbers DEF DeliveryInv, AnswersAgree
  <1>3. p.seq > highestAck[i]
    BY <1>1, <1>2
  <1>4. p.dsn \in Held
    BY <1>1, <1>3, InHeld
  <1> QED BY <1>1, <1>4 DEF DeliveryInv, GivenInOrder

LEMMA StoreArrives ==
  ASSUME CloseInv, DeliveryInv, UNCHANGED clientVars, NEW i \in Subflow,
         NEW p \in Packets(toServer[i]), p.type = "DATA", Receiver!StoreUnOrderedData(i, p)
  PROVE  Stream!Arrive \/ UNCHANGED Stream!streamVars
  <1> DEFINE d == p.dsn
             u == [sf |-> i, seq |-> p.seq, dsn |-> d]
  <1>1. /\ p.seq >= RxSeqNumber[i] /\ d > nextRxSequence /\ UNCHANGED nextRxSequence
        /\ IF d \in Stored THEN UNCHANGED unOrdered
           ELSE unOrdered' = unOrdered \cup {u}
    BY DEF Receiver!StoreUnOrderedData, Receiver!StoredDSN, Stored
  <1>2. UNCHANGED <<sent, highestAck, sendingBuffer, nextTxSequence>>
    BY DEF clientVars, sendVars
  <1>3. Held' = Held
    BY <1>2 DEF Held, Unacknowledged, maxSeqNb
  <1>4. d \in Held /\ d \in 1 .. nextTxSequence - 1
    BY <1>1, NewIsHeld
  <1>5. nextTxSequence \in Nat /\ nextRxSequence \in Nat \ {0}
        /\ nextRxSequence <= nextTxSequence
    BY Numbers DEF DeliveryInv, LevelsAgree
  <1>6. u.dsn = d
    OBVIOUS
  <1> HIDE DEF d, u
  <1>7. CASE d \in Stored
    BY <1>1, <1>2, <1>7, UnseenStutters DEF Unseen
  <1>8. CASE d \notin Stored
    <2>1. unOrdered' = unOrdered \cup {u}
      BY <1>1, <1>8
    <2>2. Stored' = Stored \cup {d}
      BY <1>6, <2>1 DEF Stored
    <2>3. Have' = Have \cup {d}
      BY <1>1, <2>2 DEF Have
    <2>4. d \notin Have
      BY <1>1, <1>4, <1>5, <1>8 DEF Have
    <2>5. (nextRxSequence - 1) + 1 \notin Have'
      <3>1. nextRxSequence \notin Stored
        <4>1. \A v \in unOrdered : v.dsn \in Nat /\ v.dsn > nextRxSequence
          BY <1>5, StoredSegment
        <4> QED BY <1>5, <4>1 DEF Stored
      <3>2. nextRxSequence \notin Have /\ nextRxSequence # d
        BY <1>1, <1>4, <1>5, <3>1 DEF Have
      <3> QED BY <1>5, <2>3, <3>2
    <2>6. 1 .. nextRxSequence - 1 \subseteq Have'
      BY <1>1 DEF Have
    <2>7. nextRxSequence' - 1 \in nextRxSequence - 1 .. nextTxSequence - 1
      BY <1>1, <1>5
    <2>8. Stream!Receive(d)
      BY <1>1, <1>2, <1>3, <1>4, <2>3, <2>4, <2>5, <2>6, <2>7 DEF Stream!Receive, Held, Have
    <2> QED BY <1>4, <2>8 DEF Stream!Arrive
  <1> QED BY <1>7, <1>8

LEMMA DeliverArrives ==
  ASSUME CloseInv, DeliveryInv, DeliveryInv', UNCHANGED clientVars, NEW i \in Subflow,
         NEW p \in Packets(toServer[i]), p.type = "DATA", Receiver!DeliverData(i, p)
  PROVE  Stream!Arrive
  <1> DEFINE d == nextRxSequence
             g == nextRxSequence'
  <1>1. UNCHANGED <<sent, highestAck, sendingBuffer, nextTxSequence>>
    BY DEF clientVars, sendVars
  <1>2. Held' = Held
    BY <1>1 DEF Held, Unacknowledged, maxSeqNb
  <1>3. d \in Held /\ d \in 1 .. nextTxSequence - 1
    <2>1. p.seq = RxSeqNumber[i] /\ p.dsn = d
      BY DEF Receiver!DeliverData
    <2>2. p.seq >= RxSeqNumber[i]
      BY <2>1, Numbers
    <2> QED BY <2>1, <2>2, NewIsHeld
  <1>4. d \in Nat \ {0} /\ nextTxSequence \in Nat
    BY Numbers DEF DeliveryInv, LevelsAgree
  <1>5. /\ g \in Int /\ g >= d + 1 /\ g \notin Stored /\ d + 1 .. g - 1 \subseteq Stored
        /\ unOrdered' = {u \in unOrdered : u.dsn > g}
    BY <1>4, Constants DEF Receiver!DeliverData, Receiver!ReadUnOrderedData, Receiver!FirstGap,
       Receiver!StoredDSN, Stored
  <1>6. g <= nextTxSequence
    <2>1. nextRxSequence' <= nextTxSequence'
      BY DEF DeliveryInv, LevelsAgree
    <2> QED BY <1>1, <2>1
  <1>7. \A e \in Stored : e \in Nat /\ e > d
    <2>1. \A u \in unOrdered : u.dsn \in 1 .. nextTxSequence - 1 /\ u.dsn > nextRxSequence
      BY StoredSegment
    <2> QED BY <1>4, <2>1 DEF Stored
  <1>8. Stored' = {e \in Stored : e > g}
    <2>1. Stored' = {u.dsn : u \in unOrdered'}
      BY DEF Stored
    <2> QED BY <1>5, <2>1 DEF Stored
  <1>9. Have' = 1 .. g - 1 \cup Stored' /\ Have = 1 .. d - 1 \cup Stored
    BY DEF Have
  <1> HIDE DEF d, g
  <1>10. Have' = Have \cup {d}
    <2>1. ASSUME NEW e \in Have' PROVE e \in Have \cup {d}
      BY <1>4, <1>5, <1>7, <1>8, <1>9
    <2>2. ASSUME NEW e \in Have \cup {d} PROVE e \in Have'
      BY <1>4, <1>5, <1>7, <1>8, <1>9
    <2> QED BY <2>1, <2>2
  <1>11. d \notin Have
    BY <1>4, <1>7, <1>9
  <1>12. (g - 1) + 1 \notin Have' /\ 1 .. g - 1 \subseteq Have'
    BY <1>4, <1>5, <1>8, <1>9
  <1>13. g - 1 \in d - 1 .. nextTxSequence - 1
    BY <1>4, <1>5, <1>6
  <1>14. Stream!Receive(d)
    BY <1>1, <1>2, <1>3, <1>10, <1>11, <1>12, <1>13 DEF Stream!Receive, Held, Have, d, g
  <1> QED BY <1>3, <1>14 DEF Stream!Arrive

LEMMA ServerReceiveRefines ==
  ASSUME CloseInv, DeliveryInv, DeliveryInv', NEW i \in Subflow, ServerReceive(i)
  PROVE  Stream!Arrive \/ UNCHANGED Stream!streamVars
  <1> DEFINE p == Head(toServer[i])
  <1>1. /\ UNCHANGED clientVars /\ p \in Packets(toServer[i])
        /\ \/ ProcessListen(i, p) \/ ProcessSynRcvd(i, p)
           \/ ReceivedData(i, p) \/ PeerClose(i, p) \/ ProcessLastAck(i, p)
           \/ PeerReset(i, p) \/ ReceivedClosed(i, p)
    BY TailToServer DEF ServerReceive, CloseInv
  <1> HIDE DEF p
  <1>2. CASE UNCHANGED <<nextRxSequence, unOrdered>>
    BY <1>1, <1>2, UnseenStutters DEF Unseen, clientVars, sendVars
  <1>3. CASE \/ ProcessListen(i, p) \/ ProcessSynRcvd(i, p) \/ PeerClose(i, p)
             \/ ProcessLastAck(i, p) \/ PeerReset(i, p) \/ ReceivedClosed(i, p)
    BY <1>2, <1>3 DEF ProcessListen, ProcessSynRcvd, PeerClose, ProcessLastAck, PeerReset,
       ReceivedClosed, dataVars
  <1>4. CASE ReceivedData(i, p)
    <2>1. p.type = "DATA"
      BY <1>4 DEF ReceivedData
    <2>2. \/ Receiver!DeliverData(i, p) \/ Receiver!StoreUnOrderedData(i, p)
          \/ Receiver!RejectDuplicate(i, p)
      BY <1>4 DEF ReceivedData
    <2>3. CASE Receiver!RejectDuplicate(i, p)
      BY <1>2, <2>3 DEF Receiver!RejectDuplicate, Receiver!receiverVars
    <2> QED BY <1>1, <2>1, <2>2, <2>3, StoreArrives, DeliverArrives
  <1> QED BY <1>1, <1>3, <1>4

\* ACKs and the FIN+ACK only ever raise highestAck.
LEMMA ClientReceiveRefines ==
  ASSUME CloseInv, CloseInv', DeliveryInv, NEW i \in Subflow, ClientReceive(i)
  PROVE  Stream!Forget \/ UNCHANGED Stream!streamVars
  <1> DEFINE p == Head(toClient[i])
  <1>1. /\ p \in Packets(toClient[i])
        /\ UNCHANGED <<sent, sendingBuffer, nextTxSequence, nextRxSequence, unOrdered>>
        /\ \/ ProcessSynSent(i, p) \/ DuplicatedSynAck(i, p)
           \/ ReceivedAck(i, p) \/ ReceivedFinAck(i, p)
           \/ CloseAndNotifyAllSubflows(i, p) \/ ReceivedLate(i, p)
    BY TailToClient DEF ClientReceive, CloseInv, serverVars, dataVars
  <1> HIDE DEF p
  <1>2. CASE UNCHANGED highestAck
    BY <1>1, <1>2, UnseenStutters DEF Unseen
  <1>3. /\ highestAck \in [Subflow -> Nat] /\ p.ack \in Nat
        /\ \A j \in Subflow : highestAck[j] \in Nat
    BY <1>1, AnswerFacts DEF CloseInv, TypeOK
  <1>4. CASE ReceivedAck(i, p)
    <2>1. CASE NewACK(i, p.ack)
      <3>1. highestAck' = [highestAck EXCEPT ![i] = p.ack - 1] /\ p.ack > highestAck[i] + 1
        BY <2>1 DEF NewACK
      <3>2. \A j \in Subflow : highestAck[j] <= highestAck'[j]
        BY <1>3, <3>1
      <3>3. \A j \in Subflow : highestAck'[j] < RxSeqNumber[j]
        BY <1>1, <1>4, ReceivedAckDelivery
      <3> QED BY <1>1, <3>2, <3>3, AckForgets
    <2>2. CASE DupAck(i, p.ack) \/ OldAck(i, p.ack)
      BY <1>2, <2>2 DEF DupAck, OldAck
    <2> QED BY <1>4, <2>1, <2>2 DEF ReceivedAck
  <1>5. CASE ReceivedFinAck(i, p)
    <2>1. highestAck' = [highestAck EXCEPT ![i] = Max2(highestAck[i], p.ack - 1)]
      BY <1>5 DEF ReceivedFinAck
    <2>2. \A j \in Subflow : highestAck[j] <= highestAck'[j]
      BY <1>3, <2>1 DEF Max2
    <2>3. \A j \in Subflow : highestAck'[j] < RxSeqNumber[j]
      BY <1>1, <1>5, ReceivedFinAckDelivery
    <2> QED BY <1>1, <2>2, <2>3, AckForgets
  <1>6. CASE \/ ProcessSynSent(i, p) \/ DuplicatedSynAck(i, p)
             \/ CloseAndNotifyAllSubflows(i, p) \/ ReceivedLate(i, p)
    BY <1>2, <1>6 DEF ProcessSynSent, DuplicatedSynAck, CloseAndNotifyAllSubflows, ReceivedLate
  <1> QED BY <1>1, <1>4, <1>5, <1>6

LEMMA InitRefines == Init => Stream!StreamInit
  <1> SUFFICES ASSUME Init PROVE Stream!StreamInit
    OBVIOUS
  <1>1. /\ nextTxSequence = 1 /\ nextRxSequence = 1 /\ unOrdered = {}
        /\ sendingBuffer \in 0 .. MaxData
        /\ \A i \in Subflow : sent[i] = <<>> /\ highestAck[i] = 0
    BY DEF Init
  <1>2. Held = {}
    <2>1. \A i \in Subflow : Unacknowledged(i) = {}
      BY <1>1 DEF Unacknowledged, maxSeqNb
    <2> QED BY <2>1 DEF Held
  <1>3. Have = {}
    BY <1>1 DEF Have, Stored
  <1>4. nextTxSequence - 1 = 0 /\ nextRxSequence - 1 = 0
        /\ nextTxSequence - 1 + sendingBuffer \in 0 .. MaxData
    BY <1>1, Constants
  <1> QED BY <1>2, <1>3, <1>4 DEF Stream!StreamInit, Held, Have

LEMMA NextRefines ==
  ASSUME CloseInv, CloseInv', DeliveryInv, DeliveryInv', [Next]_vars
  PROVE  [Stream!StreamNext]_(Stream!streamVars)
  <1> USE DEF Stream!StreamNext
  <1>1. CASE Unseen
    BY <1>1, UnseenStutters
  <1>2. CASE SendPendingData
    <2>1. UNCHANGED <<highestAck, serverVars>>
      BY <1>2 DEF SendPendingData
    <2>2. ASSUME NEW k, SendOld(k) PROVE Unseen
      BY <2>1, <2>2 DEF SendOld, Unseen, serverVars, dataVars
    <2>3. ASSUME NEW k \in Established, SendNew(k), sendingBuffer > 0 PROVE Stream!Send
      <3>1. k \in Subflow /\ state[k] = "ESTABLISHED"
        BY DEF Established
      <3> QED BY <2>1, <2>3, <3>1, SendNewSends
    <2> QED BY <1>1, <1>2, <2>2, <2>3 DEF SendPendingData
  <1>3. CASE UNCHANGED vars \/ Stop \/ EndSendPendingData \/ CloseMultipathConnection \/ Close
    BY <1>1, <1>3 DEF Unseen, Stop, vars, clientVars, serverVars, sendVars, dataVars,
       EndSendPendingData, CloseMultipathConnection, Close
  <1>4. ASSUME NEW i \in Subflow,
               \/ ScheduledDoClose(i) \/ ReTxTimeout(i) \/ LastAckTimeout(i)
               \/ ResendSynAck(i) \/ LosePacket(i)
        PROVE  Unseen
    BY <1>4 DEF Unseen, ScheduledDoClose, ReTxTimeout, LastAckTimeout, ResendSynAck,
       LosePacket, clientVars, serverVars, sendVars, dataVars
  <1>5. ASSUME NEW i \in Subflow, ClientReceive(i) \/ ServerReceive(i)
        PROVE  Stream!Forget \/ Stream!Arrive \/ UNCHANGED Stream!streamVars
    BY <1>5, ClientReceiveRefines, ServerReceiveRefines
  <1> QED BY <1>1, <1>2, <1>3, <1>4, <1>5 DEF Next, Sending

\* Closing implements the stream: whatever FINs, timers, resets and losses do
\* to the subflows, the data that was left is sent once, delivered in order and
\* once, and forgotten only when the server has it (SendPendingData, NewACK,
\* ProcessWait, ReceivedData).
THEOREM CloseRefinesStream == Spec => ClosingImplementsStream
  <1>1. Init => Stream!StreamInit
    BY InitRefines
  <1>2. CloseInv /\ CloseInv' /\ DeliveryInv /\ DeliveryInv' /\ [Next]_vars
        => [Stream!StreamNext]_(Stream!streamVars)
    BY NextRefines
  <1> QED
    BY <1>1, <1>2, CloseInvariant, DeliveryInvariant, PTL
    DEF Spec, ClosingImplementsStream, Stream!StreamSpec
=============================================================================
