------------------------ MODULE MpTcpTransferSafety ------------------------
(***************************************************************************)
(* Proof that TransferInv is an invariant of MpTcpTransfer, and of the      *)
(* safety properties that follow from it.  Three kinds of steps matter: a   *)
(* new segment is cut (SendNew), a packet arrives at the server             *)
(* (ReceivedData), and all others, which only move the sender's numbers,    *)
(* retransmit what is kept, or lose packets (KeepsInStep).                  *)
(***************************************************************************)
EXTENDS MpTcpTransferProofs

\* What is in flight on subflow j after the step was in flight before it, or
\* is a copy of a segment the subflow keeps.
OldOrKeptData ==
  \A j \in Subflow : \A k \in 1 .. Len(dataCh'[j]) :
    \/ \E l \in 1 .. Len(dataCh[j]) : dataCh'[j][k] = dataCh[j][l]
    \/ dataCh'[j][k] \in mapDSN[j]

OldAcks ==
  \A j \in Subflow : \A k \in 1 .. Len(ackCh'[j]) :
    \E l \in 1 .. Len(ackCh[j]) : ackCh'[j][k] = ackCh[j][l]

\* A step that cuts no segment and does not touch the server.
KeepsInStep ==
  /\ UNCHANGED <<maxSeqNb, nextTxSequence, log, receiverVars>>
  /\ \A j \in Subflow :
       /\ highestAck'[j] \in highestAck[j] .. RxSeqNumber[j] - 1
       /\ TxSeqNumber'[j] \in highestAck'[j] + 1 .. maxSeqNb[j] + 1
       /\ mapDSN'[j] = {m \in mapDSN[j] : m.seq > highestAck'[j]}
  /\ OldOrKeptData /\ OldAcks

---------------------------------------------------------------------------
(* The queues.                                                             *)

LEMMA AppendedData ==
  ASSUME TypeOK, NEW i \in Subflow, NEW m \in Segment,
         dataCh' = [dataCh EXCEPT ![i] = Append(@, m)],
         NEW j \in Subflow, NEW k \in 1 .. Len(dataCh'[j])
  PROVE  \/ \E l \in 1 .. Len(dataCh[j]) : dataCh'[j][k] = dataCh[j][l]
         \/ j = i /\ dataCh'[j][k] = m
  <1>1. dataCh[j] \in Seq(Segment) /\ dataCh \in [Subflow -> Seq(Segment)]
    BY DEF TypeOK
  <1>2. CASE j # i
    BY <1>1, <1>2
  <1>3. CASE j = i
    <2>1. dataCh'[j] = Append(dataCh[j], m)
      BY <1>1, <1>3
    <2> QED BY <1>1, <1>3, <2>1
  <1> QED BY <1>2, <1>3

LEMMA DroppedData ==
  ASSUME TypeOK, NEW i \in Subflow, NEW n \in 1 .. Len(dataCh[i]),
         dataCh' = [dataCh EXCEPT ![i] = DropAt(@, n)],
         NEW j \in Subflow, NEW k \in 1 .. Len(dataCh'[j])
  PROVE  \E l \in 1 .. Len(dataCh[j]) : dataCh'[j][k] = dataCh[j][l]
  <1>1. dataCh[j] \in Seq(Segment) /\ dataCh \in [Subflow -> Seq(Segment)]
    BY DEF TypeOK
  <1>2. CASE j # i
    BY <1>1, <1>2
  <1>3. CASE j = i
    <2>1. dataCh'[j] = DropAt(dataCh[j], n)
      BY <1>1, <1>3
    <2> QED BY <1>1, <1>3, <2>1, DropAtProperties
  <1> QED BY <1>2, <1>3

LEMMA DroppedAck ==
  ASSUME TypeOK, NEW i \in Subflow, NEW n \in 1 .. Len(ackCh[i]),
         ackCh' = [ackCh EXCEPT ![i] = DropAt(@, n)]
  PROVE  OldAcks
  <1> SUFFICES ASSUME NEW j \in Subflow, NEW k \in 1 .. Len(ackCh'[j])
               PROVE  \E l \in 1 .. Len(ackCh[j]) : ackCh'[j][k] = ackCh[j][l]
    BY DEF OldAcks
  <1>1. ackCh[j] \in Seq(Nat) /\ ackCh \in [Subflow -> Seq(Nat)]
    BY DEF TypeOK
  <1>2. CASE j # i
    BY <1>1, <1>2
  <1>3. CASE j = i
    <2>1. ackCh'[j] = DropAt(ackCh[j], n)
      BY <1>1, <1>3
    <2>2. \A q \in 1 .. Len(DropAt(ackCh[j], n)) :
            \E l \in 1 .. Len(ackCh[j]) : DropAt(ackCh[j], n)[q] = ackCh[j][l]
      <3>1. ackCh[j] \in Seq(Nat) /\ n \in 1 .. Len(ackCh[j])
        BY <1>1, <1>3
      <3> HIDE DEF TypeOK
      <3> QED BY ONLY <3>1, DropAtProperties
    <2> QED BY <2>1, <2>2
  <1> QED BY <1>2, <1>3

LEMMA AppendedAck ==
  ASSUME TypeOK, NEW i \in Subflow, NEW a \in Nat,
         ackCh' = [ackCh EXCEPT ![i] = Append(@, a)],
         NEW j \in Subflow, NEW k \in 1 .. Len(ackCh'[j])
  PROVE  \/ \E l \in 1 .. Len(ackCh[j]) : ackCh'[j][k] = ackCh[j][l]
         \/ j = i /\ ackCh'[j][k] = a
  <1>1. ackCh[j] \in Seq(Nat) /\ ackCh \in [Subflow -> Seq(Nat)]
    BY DEF TypeOK
  <1>2. CASE j # i
    BY <1>1, <1>2
  <1>3. CASE j = i
    <2>1. ackCh'[j] = Append(ackCh[j], a)
      BY <1>1, <1>3
    <2> QED BY <1>1, <1>3, <2>1
  <1> QED BY <1>2, <1>3

LEMMA SameQueues ==
  /\ UNCHANGED dataCh => OldOrKeptData
  /\ UNCHANGED ackCh => OldAcks
  BY DEF OldOrKeptData, OldAcks

---------------------------------------------------------------------------
(* Steps that keep everything in step.                                     *)

LEMMA KeepsInStepInv ==
  ASSUME TypeOK, TypeOK', TransferInv, KeepsInStep
  PROVE  TransferInv'
  <1> USE DEF TransferInv
  <1>0. /\ UNCHANGED <<maxSeqNb, nextTxSequence, log>>
        /\ UNCHANGED <<RxSeqNumber, nextRxSequence, unOrdered>>
    BY DEF KeepsInStep, receiverVars
  <1>1. LogInOrder' /\ LevelsAgree'
    BY <1>0 DEF LogInOrder, LevelsAgree
  <1>2. SequenceNumbersInStep'
    <2> SUFFICES ASSUME NEW i \in Subflow
                 PROVE  /\ {m.seq : m \in mapDSN'[i]} = highestAck'[i] + 1 .. maxSeqNb[i]
                        /\ highestAck'[i] < TxSeqNumber'[i]
                        /\ TxSeqNumber'[i] <= maxSeqNb[i] + 1
                        /\ highestAck'[i] < RxSeqNumber[i]
                        /\ RxSeqNumber[i] <= maxSeqNb[i] + 1
                        /\ \A k \in 1 .. Len(ackCh'[i]) : ackCh'[i][k] <= RxSeqNumber[i]
                        /\ \A k \in 1 .. Len(dataCh'[i]) :
                             dataCh'[i][k].seq \in 1 .. maxSeqNb[i]
                        /\ \A u \in unOrdered : u.sf = i => u.seq \in 1 .. maxSeqNb[i]
      BY <1>0 DEF SequenceNumbersInStep
    <2>1. /\ {m.seq : m \in mapDSN[i]} = highestAck[i] + 1 .. maxSeqNb[i]
          /\ RxSeqNumber[i] <= maxSeqNb[i] + 1
          /\ \A k \in 1 .. Len(ackCh[i]) : ackCh[i][k] <= RxSeqNumber[i]
          /\ \A k \in 1 .. Len(dataCh[i]) : dataCh[i][k].seq \in 1 .. maxSeqNb[i]
          /\ \A u \in unOrdered : u.sf = i => u.seq \in 1 .. maxSeqNb[i]
      BY DEF SequenceNumbersInStep
    <2>2. /\ highestAck'[i] \in highestAck[i] .. RxSeqNumber[i] - 1
          /\ TxSeqNumber'[i] \in highestAck'[i] + 1 .. maxSeqNb[i] + 1
          /\ mapDSN'[i] = {m \in mapDSN[i] : m.seq > highestAck'[i]}
      BY DEF KeepsInStep
    <2>3. /\ highestAck[i] \in Nat /\ RxSeqNumber[i] \in Nat /\ maxSeqNb[i] \in Nat
          /\ TxSeqNumber'[i] \in Nat /\ highestAck'[i] \in Nat
      BY DEF TypeOK
    <2>4. {m.seq : m \in mapDSN'[i]} = highestAck'[i] + 1 .. maxSeqNb[i]
      <3>1. \A s \in highestAck'[i] + 1 .. maxSeqNb[i] :
              \E m \in mapDSN[i] : m.seq = s /\ m.seq > highestAck'[i]
        <4> TAKE s \in highestAck'[i] + 1 .. maxSeqNb[i]
        <4>1. s \in highestAck[i] + 1 .. maxSeqNb[i] /\ s > highestAck'[i]
          BY <2>2, <2>3
        <4> QED BY <2>1, <4>1
      <3>2. \A m \in mapDSN'[i] : m.seq \in highestAck'[i] + 1 .. maxSeqNb[i]
        <4> TAKE m \in mapDSN'[i]
        <4>1. m.seq \in highestAck[i] + 1 .. maxSeqNb[i] /\ m.seq > highestAck'[i]
          BY <2>1, <2>2
        <4> QED BY <2>3, <4>1
      <3> QED BY <2>2, <3>1, <3>2
    <2>5. \A k \in 1 .. Len(ackCh'[i]) : ackCh'[i][k] <= RxSeqNumber[i]
      BY <2>1 DEF KeepsInStep, OldAcks
    <2>6. \A k \in 1 .. Len(dataCh'[i]) : dataCh'[i][k].seq \in 1 .. maxSeqNb[i]
      <3>1. \A m \in mapDSN[i] : m.seq \in 1 .. maxSeqNb[i]
        <4> TAKE m \in mapDSN[i]
        <4>1. m.seq \in highestAck[i] + 1 .. maxSeqNb[i]
          BY <2>1
        <4> QED BY <2>3, <4>1
      <3> QED BY <2>1, <3>1 DEF KeepsInStep, OldOrKeptData
    <2> QED BY <2>1, <2>2, <2>3, <2>4, <2>5, <2>6
  <1>3. CopiesAgree'
    <2>1. ASSUME NEW i \in Subflow, NEW m \in mapDSN'[i]
          PROVE  m.dsn = log[i][m.seq]
      BY <2>1 DEF KeepsInStep, CopiesAgree
    <2>2. ASSUME NEW i \in Subflow, NEW k \in 1 .. Len(dataCh'[i])
          PROVE  dataCh'[i][k].dsn = log[i][dataCh'[i][k].seq]
      BY <2>2 DEF KeepsInStep, OldOrKeptData, CopiesAgree
    <2> QED BY <1>0, <2>1, <2>2 DEF CopiesAgree
  <1> QED BY <1>1, <1>2, <1>3

---------------------------------------------------------------------------
(* Which steps keep everything in step.                                    *)

\* Where the sender's numbers of subflow i lie, in the form the steps use.
LEMMA SenderNumbers ==
  ASSUME TypeOK, TransferInv, NEW i \in Subflow
  PROVE  /\ {m.seq : m \in mapDSN[i]} = highestAck[i] + 1 .. maxSeqNb[i]
         /\ mapDSN[i] = {m \in mapDSN[i] : m.seq > highestAck[i]}
         /\ \A m \in mapDSN[i] : m.seq \in highestAck[i] + 1 .. maxSeqNb[i]
         /\ highestAck[i] \in Nat /\ maxSeqNb[i] \in Nat
         /\ TxSeqNumber[i] \in highestAck[i] + 1 .. maxSeqNb[i] + 1
         /\ RxSeqNumber[i] \in highestAck[i] + 1 .. maxSeqNb[i] + 1
  <1>1. /\ {m.seq : m \in mapDSN[i]} = highestAck[i] + 1 .. maxSeqNb[i]
        /\ highestAck[i] < TxSeqNumber[i] /\ TxSeqNumber[i] <= maxSeqNb[i] + 1
        /\ highestAck[i] < RxSeqNumber[i] /\ RxSeqNumber[i] <= maxSeqNb[i] + 1
    BY DEF TransferInv, SequenceNumbersInStep
  <1>2. /\ highestAck[i] \in Nat /\ maxSeqNb[i] \in Nat
        /\ TxSeqNumber[i] \in Nat /\ RxSeqNumber[i] \in Nat
    BY DEF TypeOK
  <1>3. \A m \in mapDSN[i] : m.seq \in highestAck[i] + 1 .. maxSeqNb[i]
    BY <1>1
  <1>4. \A m \in mapDSN[i] : m.seq > highestAck[i]
    BY <1>2, <1>3
  <1> QED BY <1>1, <1>2, <1>3, <1>4

\* A step that leaves sender, server and queues as they are, except that it
\* may lose what is in a queue.
LEMMA SenderUntouched ==
  ASSUME TypeOK, TransferInv, OldOrKeptData, OldAcks,
         UNCHANGED <<TxSeqNumber, maxSeqNb, highestAck, mapDSN, nextTxSequence, log,
                     receiverVars>>
  PROVE  KeepsInStep
  <1> SUFFICES ASSUME NEW j \in Subflow
               PROVE  /\ highestAck[j] \in highestAck[j] .. RxSeqNumber[j] - 1
                      /\ TxSeqNumber[j] \in highestAck[j] + 1 .. maxSeqNb[j] + 1
                      /\ mapDSN[j] = {m \in mapDSN[j] : m.seq > highestAck[j]}
    BY DEF KeepsInStep
  <1> QED BY SenderNumbers

\* Sending again a segment that is kept.
LEMMA SendsAgain ==
  ASSUME TypeOK, TransferInv, OldAcks, NEW i \in Subflow, NEW m \in mapDSN[i],
         NEW t, t \in highestAck[i] + 1 .. maxSeqNb[i] + 1,
         dataCh' = [dataCh EXCEPT ![i] = Append(@, m)],
         TxSeqNumber' = [TxSeqNumber EXCEPT ![i] = t],
         UNCHANGED <<maxSeqNb, highestAck, mapDSN, nextTxSequence, log, receiverVars>>
  PROVE  KeepsInStep
  <1>1. OldOrKeptData
    <2> SUFFICES ASSUME NEW j \in Subflow, NEW k \in 1 .. Len(dataCh'[j])
                 PROVE  \/ \E l \in 1 .. Len(dataCh[j]) : dataCh'[j][k] = dataCh[j][l]
                        \/ dataCh'[j][k] \in mapDSN[j]
      BY DEF OldOrKeptData
    <2>1. m \in Segment
      BY DEF TypeOK
    <2> QED BY <2>1, AppendedData
  <1>2. \A j \in Subflow : TxSeqNumber'[j] = IF j = i THEN t ELSE TxSeqNumber[j]
    BY DEF TypeOK
  <1> SUFFICES ASSUME NEW j \in Subflow
               PROVE  /\ highestAck[j] \in highestAck[j] .. RxSeqNumber[j] - 1
                      /\ TxSeqNumber'[j] \in highestAck[j] + 1 .. maxSeqNb[j] + 1
                      /\ mapDSN[j] = {n \in mapDSN[j] : n.seq > highestAck[j]}
    BY <1>1 DEF KeepsInStep
  <1> QED BY <1>2, SenderNumbers

LEMMA SendOldKeeps ==
  ASSUME TypeOK, TransferInv, NEW i \in Subflow, SendOld(i),
         UNCHANGED <<highestAck, receiverVars, ackCh>>
  PROVE  KeepsInStep
  <1>1. PICK m \in mapDSN[i] : dataCh' = [dataCh EXCEPT ![i] = Append(@, m)]
    BY DEF SendOld
  <1>2. TxSeqNumber[i] + 1 \in highestAck[i] + 1 .. maxSeqNb[i] + 1
    BY SenderNumbers DEF SendOld, Recovering
  <1>3. TxSeqNumber' = [TxSeqNumber EXCEPT ![i] = TxSeqNumber[i] + 1]
    BY DEF SendOld
  <1> QED BY <1>1, <1>2, <1>3, SendsAgain, SameQueues DEF SendOld

LEMMA TimeoutKeeps ==
  ASSUME TypeOK, TransferInv, NEW i \in Subflow, ReTxTimeout(i)
  PROVE  KeepsInStep
  <1>1. UNCHANGED <<maxSeqNb, highestAck, mapDSN, nextTxSequence, log, receiverVars, ackCh>>
    BY DEF ReTxTimeout
  <1>2. CASE mapDSN[i] = {}
    BY <1>1, <1>2, SenderUntouched, SameQueues DEF ReTxTimeout
  <1>3. CASE mapDSN[i] # {}
    <2>1. PICK m \in mapDSN[i] :
            /\ dataCh' = [dataCh EXCEPT ![i] = Append(@, m)]
            /\ TxSeqNumber' = [TxSeqNumber EXCEPT ![i] = m.seq + 1]
      BY <1>3 DEF ReTxTimeout
    <2>2. m.seq + 1 \in highestAck[i] + 1 .. maxSeqNb[i] + 1
      BY SenderNumbers
    <2> QED BY <1>1, <2>1, <2>2, SendsAgain, SameQueues
  <1> QED BY <1>2, <1>3

LEMMA LoseKeeps ==
  ASSUME TypeOK, TransferInv, NEW i \in Subflow, LosePacket(i)
  PROVE  KeepsInStep
  <1>1. UNCHANGED <<TxSeqNumber, maxSeqNb, highestAck, mapDSN, nextTxSequence, log,
                    receiverVars>>
    BY DEF LosePacket, senderVars
  <1>2. CASE \E k \in 1 .. Len(dataCh[i]) :
               dataCh' = [dataCh EXCEPT ![i] = DropAt(@, k)] /\ UNCHANGED ackCh
    BY <1>1, <1>2, DroppedData, SameQueues, SenderUntouched DEF OldOrKeptData
  <1>3. CASE \E k \in 1 .. Len(ackCh[i]) :
               ackCh' = [ackCh EXCEPT ![i] = DropAt(@, k)] /\ UNCHANGED dataCh
    BY <1>1, <1>3, DroppedAck, SameQueues, SenderUntouched
  <1> QED BY <1>2, <1>3 DEF LosePacket

LEMMA NewAckKeeps ==
  ASSUME TypeOK, TransferInv, OldAcks, NEW i \in Subflow, NEW a \in Nat,
         a <= RxSeqNumber[i], NewAckNewReno(i, a),
         UNCHANGED <<nextTxSequence, log, receiverVars>>
  PROVE  KeepsInStep
  <1> DEFINE t == TxSeqNumber'[i]
  <1>1. /\ a > highestAck[i] + 1
        /\ mapDSN' = [mapDSN EXCEPT ![i] = {m \in mapDSN[i] : m.seq >= a}]
        /\ highestAck' = [highestAck EXCEPT ![i] = a - 1]
        /\ UNCHANGED maxSeqNb
    BY DEF NewAckNewReno, DiscardUpTo
  <1>2. OldOrKeptData
    <2>1. CASE UNCHANGED dataCh
      BY <2>1, SameQueues
    <2>2. ASSUME NEW m \in mapDSN[i], dataCh' = [dataCh EXCEPT ![i] = Append(@, m)]
          PROVE  OldOrKeptData
      <3>1. m \in Segment
        BY DEF TypeOK
      <3> QED BY <2>2, <3>1, AppendedData DEF OldOrKeptData
    <2> QED BY <2>1, <2>2 DEF NewAckNewReno
  <1>3. /\ TxSeqNumber' = [TxSeqNumber EXCEPT ![i] = t]
        /\ t \in a .. maxSeqNb[i] + 1
    <2>1. CASE cc[i].inFastRec /\ a < cc[i].recover
      <3>1. a <= maxSeqNb[i]
        <4>1. \E m \in mapDSN[i] : m.seq = a
          BY <2>1 DEF NewAckNewReno
        <4> QED BY <4>1, SenderNumbers
      <3>2. TxSeqNumber' = [TxSeqNumber EXCEPT ![i] = Max2(TxSeqNumber[i], a + 1)]
        BY <2>1 DEF NewAckNewReno
      <3>3. Max2(TxSeqNumber[i], a + 1) \in a .. maxSeqNb[i] + 1
        BY <3>1, SenderNumbers DEF Max2
      <3> QED BY <3>2, <3>3 DEF TypeOK
    <2>2. CASE ~(cc[i].inFastRec /\ a < cc[i].recover)
      <3>2. TxSeqNumber' = [TxSeqNumber EXCEPT ![i] = Max2(TxSeqNumber[i], a)]
        BY <2>2 DEF NewAckNewReno
      <3>3. Max2(TxSeqNumber[i], a) \in a .. maxSeqNb[i] + 1
        BY SenderNumbers DEF Max2
      <3> QED BY <3>2, <3>3 DEF TypeOK
    <2> QED BY <2>1, <2>2
  <1> SUFFICES ASSUME NEW j \in Subflow
               PROVE  /\ highestAck'[j] \in highestAck[j] .. RxSeqNumber[j] - 1
                      /\ TxSeqNumber'[j] \in highestAck'[j] + 1 .. maxSeqNb[j] + 1
                      /\ mapDSN'[j] = {n \in mapDSN[j] : n.seq > highestAck'[j]}
    BY <1>1, <1>2 DEF KeepsInStep
  <1> HIDE DEF t
  <1>4. CASE j = i
    <2>1. highestAck'[i] = a - 1 /\ TxSeqNumber'[i] = t
      BY <1>1, <1>3 DEF TypeOK
    <2>2. mapDSN'[i] = {m \in mapDSN[i] : m.seq >= a}
      BY <1>1 DEF TypeOK
    <2>3. \A m \in mapDSN[i] : m.seq >= a <=> m.seq > a - 1
      BY SenderNumbers
    <2> QED BY <1>1, <1>3, <1>4, <2>1, <2>2, <2>3, SenderNumbers
  <1>5. CASE j # i
    <2>1. /\ highestAck'[j] = highestAck[j] /\ TxSeqNumber'[j] = TxSeqNumber[j]
          /\ mapDSN'[j] = mapDSN[j]
      BY <1>1, <1>3, <1>5 DEF TypeOK
    <2> QED BY <2>1, SenderNumbers
  <1> QED BY <1>4, <1>5

LEMMA DupAckKeeps ==
  ASSUME TypeOK, TransferInv, OldAcks, NEW i \in Subflow, NEW a \in Nat, DupAck(i, a),
         UNCHANGED <<nextTxSequence, log, receiverVars>>
  PROVE  KeepsInStep
  <1>1. UNCHANGED <<highestAck, mapDSN, maxSeqNb>>
    BY DEF DupAck
  <1>2. PICK m \in mapDSN[i] : FastRetransmit(i, m) \/ CountDup(i)
    BY DEF DupAck
  <1>3. CASE FastRetransmit(i, m)
    <2>1. Max2(TxSeqNumber[i], m.seq + 1) \in highestAck[i] + 1 .. maxSeqNb[i] + 1
      BY SenderNumbers DEF Max2
    <2>2. /\ TxSeqNumber' = [TxSeqNumber EXCEPT ![i] = Max2(TxSeqNumber[i], m.seq + 1)]
          /\ dataCh' = [dataCh EXCEPT ![i] = Append(@, m)]
      BY <1>3 DEF FastRetransmit
    <2> QED BY <1>1, <2>1, <2>2, SendsAgain
  <1>4. CASE CountDup(i)
    BY <1>1, <1>4, SenderUntouched, SameQueues DEF CountDup
  <1> QED BY <1>2, <1>3, <1>4

LEMMA ReceivedAckKeeps ==
  ASSUME TypeOK, TransferInv, NEW i \in Subflow, ReceivedAck(i)
  PROVE  KeepsInStep
  <1>1. PICK k \in Arriving(ackCh[i]) :
          /\ NewAckNewReno(i, ackCh[i][k]) \/ DupAck(i, ackCh[i][k]) \/ OldAck(i, ackCh[i][k])
          /\ ackCh' = [ackCh EXCEPT ![i] = DropAt(@, k)]
    BY DEF ReceivedAck
  <1>2. ackCh[i] \in Seq(Nat) /\ k \in 1 .. Len(ackCh[i])
    BY ArrivingIsInFlight DEF TypeOK
  <1>3. ackCh[i][k] \in Nat
    BY <1>2
  <1>4. ackCh[i][k] <= RxSeqNumber[i]
    BY <1>2 DEF TransferInv, SequenceNumbersInStep
  <1>5. OldAcks
    BY <1>1, <1>2, DroppedAck
  <1>6. UNCHANGED <<nextTxSequence, log, receiverVars>>
    BY DEF ReceivedAck
  <1>7. CASE OldAck(i, ackCh[i][k])
    BY <1>5, <1>6, <1>7, SenderUntouched, SameQueues DEF OldAck
  <1> QED BY <1>1, <1>3, <1>4, <1>5, <1>6, <1>7, NewAckKeeps, DupAckKeeps

---------------------------------------------------------------------------
(* A new segment.                                                          *)

LEMMA SendNewInv ==
  ASSUME TypeOK, TypeOK', TransferInv, NEW i \in Subflow, SendNew(i),
         UNCHANGED <<highestAck, receiverVars, ackCh>>
  PROVE  TransferInv'
  <1> DEFINE x == maxSeqNb[i] + 1
             m == [seq |-> x, dsn |-> nextTxSequence]
  <1>1. /\ TxSeqNumber[i] = x /\ x \in Nat \ {0} /\ maxSeqNb[i] \in Nat
        /\ nextTxSequence \in Nat \ {0} /\ highestAck[i] \in Nat
    <2>1. nextTxSequence \in Nat \ {0}
      BY DEF TypeOK
    <2>2. ~(maxSeqNb[i] > TxSeqNumber[i] - 1)
      BY DEF SendNew, Recovering
    <2> QED BY <2>1, <2>2, SenderNumbers
  <1>2. /\ \A j \in Subflow : maxSeqNb'[j] = IF j = i THEN x ELSE maxSeqNb[j]
        /\ \A j \in Subflow : TxSeqNumber'[j] = IF j = i THEN x + 1 ELSE TxSeqNumber[j]
        /\ \A j \in Subflow :
             mapDSN'[j] = IF j = i THEN mapDSN[j] \cup {m} ELSE mapDSN[j]
        /\ dataCh' = [dataCh EXCEPT ![i] = Append(@, m)]
        /\ log' = [log EXCEPT ![i] = Append(@, nextTxSequence)]
        /\ nextTxSequence' = nextTxSequence + 1
        /\ UNCHANGED <<highestAck, RxSeqNumber, nextRxSequence, unOrdered, ackCh>>
    <2>1. \A j \in Subflow : maxSeqNb'[j] = IF j = i THEN x ELSE maxSeqNb[j]
      <3>1. maxSeqNb' = [maxSeqNb EXCEPT ![i] = Max2(@, x)]
        BY <1>1 DEF SendNew
      <3>2. Max2(maxSeqNb[i], x) = x
        BY <1>1 DEF Max2
      <3> QED BY <3>1, <3>2 DEF TypeOK
    <2>2. \A j \in Subflow : TxSeqNumber'[j] = IF j = i THEN x + 1 ELSE TxSeqNumber[j]
      BY <1>1 DEF SendNew, TypeOK
    <2>3. mapDSN' = [mapDSN EXCEPT ![i] = @ \cup {m}]
      BY <1>1 DEF SendNew
    <2>4. \A j \in Subflow :
            mapDSN'[j] = IF j = i THEN mapDSN[j] \cup {m} ELSE mapDSN[j]
      <3> HIDE DEF m
      <3> QED BY <2>3 DEF TypeOK
    <2>5. /\ dataCh' = [dataCh EXCEPT ![i] = Append(@, m)]
          /\ log' = [log EXCEPT ![i] = Append(@, nextTxSequence)]
          /\ nextTxSequence' = nextTxSequence + 1
      BY <1>1 DEF SendNew
    <2> QED BY <2>1, <2>2, <2>4, <2>5 DEF receiverVars
  <1>3. m \in Segment
    BY <1>1 DEF Segment
  <1>4. \A j \in Subflow : Len(log[j]) = maxSeqNb[j] /\ log[j] \in Seq(Nat)
    BY DEF TransferInv, LogInOrder, TypeOK
  <1>5. /\ log'[i][x] = nextTxSequence /\ Len(log'[i]) = x
        /\ \A j \in Subflow : \A s \in 1 .. maxSeqNb[j] : log'[j][s] = log[j][s]
        /\ \A j \in Subflow \ {i} : log'[j] = log[j]
    <2>1. log'[i] = Append(log[i], nextTxSequence) /\ \A j \in Subflow \ {i} : log'[j] = log[j]
      BY <1>2 DEF TypeOK
    <2>2. log[i] \in Seq(Nat) /\ Len(log[i]) = maxSeqNb[i]
      BY <1>4
    <2>3. log'[i][x] = nextTxSequence /\ Len(log'[i]) = x
      BY <1>1, <2>1, <2>2
    <2>4. \A s \in 1 .. maxSeqNb[i] : log'[i][s] = log[i][s]
      BY <1>1, <2>1, <2>2
    <2> QED BY <2>1, <2>3, <2>4
  <1>6. \A j \in Subflow : \A s \in 1 .. maxSeqNb'[j] :
          \/ s \in 1 .. maxSeqNb[j] /\ log'[j][s] = log[j][s]
          \/ j = i /\ s = x /\ log'[j][s] = nextTxSequence
    BY <1>1, <1>2, <1>5
  <1>7. ASSUME NEW j \in Subflow, NEW k \in 1 .. Len(dataCh'[j])
        PROVE  \/ \E l \in 1 .. Len(dataCh[j]) : dataCh'[j][k] = dataCh[j][l]
               \/ j = i /\ dataCh'[j][k] = m
    <2> HIDE DEF m
    <2> QED BY <1>2, <1>3, AppendedData
  <1>8. SequenceNumbersInStep'
    <2> SUFFICES ASSUME NEW j \in Subflow
                 PROVE  /\ {n.seq : n \in mapDSN'[j]} = highestAck[j] + 1 .. maxSeqNb'[j]
                        /\ highestAck[j] < TxSeqNumber'[j]
                        /\ TxSeqNumber'[j] <= maxSeqNb'[j] + 1
                        /\ highestAck[j] < RxSeqNumber[j]
                        /\ RxSeqNumber[j] <= maxSeqNb'[j] + 1
                        /\ \A k \in 1 .. Len(ackCh[j]) : ackCh[j][k] <= RxSeqNumber[j]
                        /\ \A k \in 1 .. Len(dataCh'[j]) :
                             dataCh'[j][k].seq \in 1 .. maxSeqNb'[j]
                        /\ \A u \in unOrdered : u.sf = j => u.seq \in 1 .. maxSeqNb'[j]
      BY <1>2 DEF SequenceNumbersInStep
    <2>1. /\ \A k \in 1 .. Len(ackCh[j]) : ackCh[j][k] <= RxSeqNumber[j]
          /\ \A k \in 1 .. Len(dataCh[j]) : dataCh[j][k].seq \in 1 .. maxSeqNb[j]
          /\ \A u \in unOrdered : u.sf = j => u.seq \in 1 .. maxSeqNb[j]
      BY DEF TransferInv, SequenceNumbersInStep
    <2>2. /\ maxSeqNb[j] \in Nat /\ maxSeqNb'[j] \in maxSeqNb[j] .. maxSeqNb[j] + 1
          /\ TxSeqNumber[j] \in highestAck[j] + 1 .. maxSeqNb[j] + 1
          /\ RxSeqNumber[j] \in highestAck[j] + 1 .. maxSeqNb[j] + 1
          /\ {n.seq : n \in mapDSN[j]} = highestAck[j] + 1 .. maxSeqNb[j]
          /\ highestAck[j] \in Nat
      BY <1>1, <1>2, SenderNumbers
    <2>3. {n.seq : n \in mapDSN'[j]} = highestAck[j] + 1 .. maxSeqNb'[j]
      <3>1. CASE j # i
        BY <1>2, <2>2, <3>1
      <3>2. CASE j = i
        <4>1. mapDSN'[i] = mapDSN[i] \cup {m} /\ maxSeqNb'[i] = x /\ m.seq = x
          BY <1>2
        <4> HIDE DEF m
        <4>2. {n.seq : n \in mapDSN'[i]} = {n.seq : n \in mapDSN[i]} \cup {x}
          BY <4>1
        <4>3. highestAck[i] + 1 .. x = (highestAck[i] + 1 .. maxSeqNb[i]) \cup {x}
          BY <1>1, <2>2, <3>2
        <4> QED BY <2>2, <3>2, <4>1, <4>2, <4>3
      <3> QED BY <3>1, <3>2
    <2>4. ASSUME NEW k \in 1 .. Len(dataCh'[j])
          PROVE  dataCh'[j][k].seq \in 1 .. maxSeqNb'[j]
      <3>1. CASE \E l \in 1 .. Len(dataCh[j]) : dataCh'[j][k] = dataCh[j][l]
        <4>1. dataCh'[j][k].seq \in 1 .. maxSeqNb[j]
          BY <2>1, <3>1
        <4> QED BY <2>2, <4>1
      <3>2. CASE j = i /\ dataCh'[j][k] = m
        BY <1>1, <1>2, <3>2
      <3> QED BY <1>7, <3>1, <3>2
    <2>5. ASSUME NEW u \in unOrdered, u.sf = j
          PROVE  u.seq \in 1 .. maxSeqNb'[j]
      <3>1. u.seq \in 1 .. maxSeqNb[j]
        BY <2>1, <2>5
      <3> QED BY <2>2, <3>1
    <2>6. /\ highestAck[j] < TxSeqNumber'[j] /\ TxSeqNumber'[j] <= maxSeqNb'[j] + 1
          /\ highestAck[j] < RxSeqNumber[j] /\ RxSeqNumber[j] <= maxSeqNb'[j] + 1
      <3>1. TxSeqNumber'[j] = IF j = i THEN x + 1 ELSE TxSeqNumber[j]
        BY <1>2
      <3>2. maxSeqNb'[j] = IF j = i THEN x ELSE maxSeqNb[j]
        BY <1>2
      <3>3. x \in Nat /\ (j = i => x = maxSeqNb[j] + 1)
        BY <1>1
      <3> HIDE DEF x
      <3> QED BY <2>2, <3>1, <3>2, <3>3
    <2> QED BY <2>1, <2>3, <2>4, <2>5, <2>6
  <1>9. LogInOrder'
    <2>1. \A j \in Subflow : Len(log'[j]) = maxSeqNb'[j]
      BY <1>2, <1>4, <1>5
    <2>2. \A j \in Subflow : \A s \in 1 .. maxSeqNb[j] : log[j][s] \in 1 .. nextTxSequence - 1
      BY DEF TransferInv, LogInOrder
    <2>3. ASSUME NEW j \in Subflow, NEW s \in 1 .. maxSeqNb'[j]
          PROVE  log'[j][s] \in 1 .. nextTxSequence' - 1
      <3>1. nextTxSequence' - 1 = nextTxSequence /\ nextTxSequence \in Nat \ {0}
        BY <1>1, <1>2
      <3>2. CASE s \in 1 .. maxSeqNb[j] /\ log'[j][s] = log[j][s]
        <4>1. log[j][s] \in 1 .. nextTxSequence - 1
          BY <2>2, <3>2
        <4> QED BY <3>1, <3>2, <4>1
      <3>3. CASE log'[j][s] = nextTxSequence
        BY <3>1, <3>3
      <3> QED BY <1>6, <3>2, <3>3
    <2>4. ASSUME NEW j \in Subflow, NEW s \in 1 .. maxSeqNb'[j],
                 NEW t \in 1 .. maxSeqNb'[j], s < t
          PROVE  log'[j][s] < log'[j][t]
      <3>1. CASE t \in 1 .. maxSeqNb[j]
        <4>1. s \in 1 .. maxSeqNb[j] /\ maxSeqNb[j] \in Nat
          <5>1. maxSeqNb[j] \in Nat
            BY SenderNumbers
          <5>2. s \in Int /\ 1 <= s
            <6>1. maxSeqNb'[j] \in Int
              BY <1>1, <1>2, <5>1
            <6> QED BY <6>1
          <5> HIDE DEF x
          <5> QED BY <2>4, <3>1, <5>1, <5>2
        <4>2. log[j][s] < log[j][t]
          BY <2>4, <3>1, <4>1 DEF TransferInv, LogInOrder
        <4> QED BY <1>5, <3>1, <4>1, <4>2
      <3>2. CASE j = i /\ t = x /\ log'[j][t] = nextTxSequence
        <4>1. s \in 1 .. maxSeqNb[j]
          BY <1>1, <2>4, <3>2
        <4>2. log'[j][s] = log[j][s] /\ log[j][s] \in 1 .. nextTxSequence - 1
          BY <1>5, <2>2, <4>1
        <4> QED BY <1>1, <3>2, <4>2
      <3> QED BY <1>6, <3>1, <3>2
    <2>5. ASSUME NEW j \in Subflow, NEW l \in Subflow, NEW s \in 1 .. maxSeqNb'[j],
                 NEW t \in 1 .. maxSeqNb'[l], j # l
          PROVE  log'[j][s] # log'[l][t]
      <3>1. CASE s \in 1 .. maxSeqNb[j] /\ t \in 1 .. maxSeqNb[l]
        BY <1>5, <2>5, <3>1 DEF TransferInv, LogInOrder
      <3>2. CASE s \in 1 .. maxSeqNb[j] /\ log'[l][t] = nextTxSequence
        BY <1>1, <1>5, <2>2, <3>2
      <3>3. CASE t \in 1 .. maxSeqNb[l] /\ log'[j][s] = nextTxSequence
        BY <1>1, <1>5, <2>2, <3>3
      <3> QED BY <1>6, <2>5, <3>1, <3>2, <3>3
    <2> QED BY <2>1, <2>3, <2>4, <2>5 DEF LogInOrder
  <1>10. CopiesAgree'
    <2>1. ASSUME NEW j \in Subflow, NEW n \in mapDSN'[j]
          PROVE  n.dsn = log'[j][n.seq]
      <3>1. CASE n \in mapDSN[j]
        <4>1. n.seq \in highestAck[j] + 1 .. maxSeqNb[j] /\ highestAck[j] \in Nat
          BY <3>1, SenderNumbers
        <4>2. n.seq \in 1 .. maxSeqNb[j]
          BY <4>1
        <4> QED BY <1>5, <3>1, <4>2 DEF TransferInv, CopiesAgree
      <3>2. CASE j = i /\ n = m
        BY <1>5, <3>2
      <3> QED BY <1>2, <3>1, <3>2
    <2>2. ASSUME NEW j \in Subflow, NEW k \in 1 .. Len(dataCh'[j])
          PROVE  dataCh'[j][k].dsn = log'[j][dataCh'[j][k].seq]
      <3>1. CASE j = i /\ dataCh'[j][k] = m
        BY <1>5, <3>1
      <3>2. ASSUME NEW l \in 1 .. Len(dataCh[j]), dataCh'[j][k] = dataCh[j][l]
            PROVE  dataCh'[j][k].dsn = log'[j][dataCh'[j][k].seq]
        <4>1. dataCh[j][l].seq \in 1 .. maxSeqNb[j]
          BY DEF TransferInv, SequenceNumbersInStep
        <4> QED BY <1>5, <3>2, <4>1 DEF TransferInv, CopiesAgree
      <3> QED BY <1>7, <3>1, <3>2
    <2>3. ASSUME NEW u \in unOrdered
          PROVE  u.dsn = log'[u.sf][u.seq]
      <3>1. u.sf \in Subflow
        BY DEF TypeOK
      <3>2. u.seq \in 1 .. maxSeqNb[u.sf] /\ u.dsn = log[u.sf][u.seq]
        BY <3>1 DEF TransferInv, SequenceNumbersInStep, CopiesAgree
      <3> QED BY <1>5, <3>1, <3>2
    <2> QED BY <1>2, <2>1, <2>2, <2>3 DEF CopiesAgree
  <1>11. LevelsAgree'
    <2>1. nextRxSequence <= nextTxSequence /\ nextRxSequence \in Nat
      BY DEF TransferInv, LevelsAgree, TypeOK
    <2>2. ASSUME NEW j \in Subflow, NEW s \in 1 .. maxSeqNb'[j]
          PROVE  /\ log'[j][s] < nextRxSequence => s < RxSeqNumber[j]
                 /\ s < RxSeqNumber[j] =>
                      \/ log'[j][s] < nextRxSequence
                      \/ [sf |-> j, seq |-> s, dsn |-> log'[j][s]] \in unOrdered
      <3>1. CASE s \in 1 .. maxSeqNb[j] /\ log'[j][s] = log[j][s]
        BY <3>1 DEF TransferInv, LevelsAgree
      <3>2. CASE j = i /\ s = x /\ log'[j][s] = nextTxSequence
        <4>1. ~(s < RxSeqNumber[j])
          BY <1>1, <3>2, SenderNumbers
        <4> QED BY <1>1, <2>1, <3>2, <4>1
      <3> QED BY <1>6, <3>1, <3>2
    <2>3. \A u \in unOrdered : u.dsn > nextRxSequence
      BY DEF TransferInv, LevelsAgree
    <2>4. nextRxSequence <= nextTxSequence + 1
      BY <1>1, <2>1
    <2> QED BY <1>2, <2>2, <2>3, <2>4 DEF LevelsAgree
  <1> QED BY <1>8, <1>9, <1>10, <1>11 DEF TransferInv

---------------------------------------------------------------------------
(* A packet arrives at the server.                                         *)

\* What is known of a packet in flight.
LEMMA PacketInFlight ==
  ASSUME TypeOK, TransferInv, NEW i \in Subflow, NEW k \in 1 .. Len(dataCh[i])
  PROVE  LET p == dataCh[i][k]
         IN p.seq \in 1 .. maxSeqNb[i] /\ p.dsn = log[i][p.seq]
  BY DEF TransferInv, SequenceNumbersInStep, CopiesAgree

\* And of a segment the server stores.
LEMMA StoredSegment ==
  ASSUME TypeOK, TransferInv, NEW u \in unOrdered
  PROVE  /\ u.sf \in Subflow /\ u.seq \in 1 .. maxSeqNb[u.sf]
         /\ u.dsn = log[u.sf][u.seq] /\ u.dsn \in 1 .. nextTxSequence - 1
         /\ u.dsn > nextRxSequence
         /\ u = [sf |-> u.sf, seq |-> u.seq, dsn |-> u.dsn]
  <1>1. /\ u.sf \in Subflow
        /\ u = [sf |-> u.sf, seq |-> u.seq, dsn |-> u.dsn]
    BY DEF TypeOK
  <1>2. u.seq \in 1 .. maxSeqNb[u.sf] /\ u.dsn = log[u.sf][u.seq]
    BY <1>1 DEF TransferInv, SequenceNumbersInStep, CopiesAgree
  <1>3. log[u.sf][u.seq] \in 1 .. nextTxSequence - 1
    BY <1>1, <1>2 DEF TransferInv, LogInOrder
  <1>4. u.dsn > nextRxSequence
    BY DEF TransferInv, LevelsAgree
  <1> QED BY <1>1, <1>2, <1>3, <1>4

\* The data sequence number tells which segment it is.
LEMMA SameSegment ==
  ASSUME TypeOK, TransferInv, NEW i \in Subflow, NEW j \in Subflow,
         NEW s \in 1 .. maxSeqNb[i], NEW t \in 1 .. maxSeqNb[j], log[i][s] = log[j][t]
  PROVE  i = j /\ s = t
  <1>1. i = j
    BY DEF TransferInv, LogInOrder
  <1>2. maxSeqNb[i] \in Nat
    BY DEF TypeOK
  <1>3. \A q, r \in 1 .. maxSeqNb[i] : q < r => log[i][q] < log[i][r]
    BY DEF TransferInv, LogInOrder
  <1>4. log[i][s] \in Int
    BY DEF TransferInv, LogInOrder
  <1>5. ~(s < t) /\ ~(t < s)
    BY <1>1, <1>3, <1>4
  <1> QED BY <1>1, <1>2, <1>5

LEMMA LogMonotone ==
  ASSUME TypeOK, TransferInv, NEW i \in Subflow,
         NEW s \in 1 .. maxSeqNb[i], NEW t \in 1 .. maxSeqNb[i], s <= t
  PROVE  /\ log[i][s] \in Nat /\ log[i][t] \in Nat /\ log[i][s] <= log[i][t]
         /\ s < t => log[i][s] < log[i][t]
  <1>1. /\ log[i][s] \in 1 .. nextTxSequence - 1 /\ log[i][t] \in 1 .. nextTxSequence - 1
        /\ s < t => log[i][s] < log[i][t]
    BY DEF TransferInv, LogInOrder
  <1>2. maxSeqNb[i] \in Nat /\ nextTxSequence \in Nat
    BY DEF TypeOK
  <1>3. CASE s = t
    BY <1>1, <1>2, <1>3
  <1>4. CASE s < t
    BY <1>1, <1>2, <1>4
  <1> QED BY <1>2, <1>3, <1>4

\* What is left to show once the packet is taken and the ACK is sent.
LEMMA ReceiverStep ==
  ASSUME TypeOK, TypeOK', TransferInv, UNCHANGED senderVars, LevelsAgree',
         \A j \in Subflow : RxSeqNumber'[j] \in RxSeqNumber[j] .. maxSeqNb[j] + 1,
         \A u \in unOrdered' :
           u.seq \in 1 .. maxSeqNb[u.sf] /\ u.dsn = log[u.sf][u.seq],
         \A j \in Subflow : \A k \in 1 .. Len(dataCh'[j]) :
           \E l \in 1 .. Len(dataCh[j]) : dataCh'[j][k] = dataCh[j][l],
         \A j \in Subflow : \A k \in 1 .. Len(ackCh'[j]) :
           \/ \E l \in 1 .. Len(ackCh[j]) : ackCh'[j][k] = ackCh[j][l]
           \/ ackCh'[j][k] = RxSeqNumber'[j]
  PROVE  TransferInv'
  <1>1. UNCHANGED <<TxSeqNumber, maxSeqNb, highestAck, mapDSN, nextTxSequence, log>>
    BY DEF senderVars
  <1>2. LogInOrder'
    BY <1>1 DEF TransferInv, LogInOrder
  <1>3. CopiesAgree'
    BY <1>1 DEF TransferInv, CopiesAgree
  <1>4. SequenceNumbersInStep'
    <2> SUFFICES ASSUME NEW j \in Subflow
                 PROVE  /\ {m.seq : m \in mapDSN[j]} = highestAck[j] + 1 .. maxSeqNb[j]
                        /\ highestAck[j] < TxSeqNumber[j]
                        /\ TxSeqNumber[j] <= maxSeqNb[j] + 1
                        /\ highestAck[j] < RxSeqNumber'[j]
                        /\ RxSeqNumber'[j] <= maxSeqNb[j] + 1
                        /\ \A k \in 1 .. Len(ackCh'[j]) : ackCh'[j][k] <= RxSeqNumber'[j]
                        /\ \A k \in 1 .. Len(dataCh'[j]) :
                             dataCh'[j][k].seq \in 1 .. maxSeqNb[j]
                        /\ \A u \in unOrdered' : u.sf = j => u.seq \in 1 .. maxSeqNb[j]
      BY <1>1 DEF SequenceNumbersInStep
    <2>1. RxSeqNumber'[j] \in RxSeqNumber[j] .. maxSeqNb[j] + 1
      OBVIOUS
    <2>2. ASSUME NEW k \in 1 .. Len(ackCh'[j])
          PROVE  ackCh'[j][k] <= RxSeqNumber'[j]
      <3>1. CASE ackCh'[j][k] = RxSeqNumber'[j]
        BY <3>1, SenderNumbers
      <3>2. ASSUME NEW l \in 1 .. Len(ackCh[j]), ackCh'[j][k] = ackCh[j][l]
            PROVE  ackCh'[j][k] <= RxSeqNumber'[j]
        <4>1. ackCh[j][l] <= RxSeqNumber[j]
          BY DEF TransferInv, SequenceNumbersInStep
        <4>2. ackCh[j][l] \in Nat
          <5>1. ackCh[j] \in Seq(Nat)
            BY DEF TypeOK
          <5> QED BY <5>1
        <4> QED BY <2>1, <3>2, <4>1, <4>2, SenderNumbers
      <3> QED BY <3>1, <3>2
    <2>3. \A k \in 1 .. Len(dataCh'[j]) : dataCh'[j][k].seq \in 1 .. maxSeqNb[j]
      BY PacketInFlight
    <2> QED BY <2>1, <2>2, <2>3, SenderNumbers
  <1> QED BY <1>2, <1>3, <1>4 DEF TransferInv

LEMMA StoreInv ==
  ASSUME TypeOK, TransferInv, UNCHANGED senderVars, NEW i \in Subflow,
         NEW k \in 1 .. Len(dataCh[i]), StoreUnOrderedData(i, dataCh[i][k])
  PROVE  /\ LevelsAgree'
         /\ \A j \in Subflow : RxSeqNumber'[j] \in RxSeqNumber[j] .. maxSeqNb[j] + 1
         /\ \A u \in unOrdered' : u.seq \in 1 .. maxSeqNb[u.sf] /\ u.dsn = log[u.sf][u.seq]
  <1> DEFINE p == dataCh[i][k]
             u0 == [sf |-> i, seq |-> p.seq, dsn |-> p.dsn]
  <1>1. p.seq \in 1 .. maxSeqNb[i] /\ p.dsn = log[i][p.seq]
    BY PacketInFlight
  <1>2. UNCHANGED <<maxSeqNb, nextTxSequence, log, nextRxSequence>>
    BY DEF senderVars, StoreUnOrderedData
  <1>3. /\ p.dsn > nextRxSequence
        /\ unOrdered' \in {unOrdered, unOrdered \cup {u0}}
        /\ \/ UNCHANGED RxSeqNumber
           \/ p.seq = RxSeqNumber[i] /\ u0 \in unOrdered'
              /\ RxSeqNumber' = [RxSeqNumber EXCEPT ![i] = p.seq + 1]
    BY DEF StoreUnOrderedData, TypeOK
  <1>4. \A j \in Subflow :
          /\ RxSeqNumber'[j] \in RxSeqNumber[j] .. maxSeqNb[j] + 1
          /\ \A s \in 1 .. maxSeqNb[j] : s < RxSeqNumber'[j] =>
               s < RxSeqNumber[j] \/ (j = i /\ s = p.seq /\ u0 \in unOrdered')
    <2> TAKE j \in Subflow
    <2>1. CASE UNCHANGED RxSeqNumber
      BY <2>1, SenderNumbers
    <2>2. CASE /\ p.seq = RxSeqNumber[i] /\ u0 \in unOrdered'
               /\ RxSeqNumber' = [RxSeqNumber EXCEPT ![i] = p.seq + 1]
      <3>1. CASE j # i
        <4>1. RxSeqNumber'[j] = RxSeqNumber[j]
          BY <2>2, <3>1 DEF TypeOK
        <4> QED BY <4>1, SenderNumbers
      <3>2. CASE j = i
        <4>1. RxSeqNumber'[i] = p.seq + 1
          BY <2>2 DEF TypeOK
        <4>2. maxSeqNb[i] \in Nat
          BY SenderNumbers
        <4> HIDE DEF p, u0
        <4> QED BY <1>1, <2>2, <3>2, <4>1, <4>2
      <3> QED BY <3>1, <3>2
    <2> QED BY <1>3, <2>1, <2>2
  <1>5. ASSUME NEW u \in unOrdered'
        PROVE  /\ u.seq \in 1 .. maxSeqNb[u.sf] /\ u.dsn = log[u.sf][u.seq]
               /\ u.dsn > nextRxSequence
    <2>1. CASE u \in unOrdered
      BY <2>1, StoredSegment
    <2>2. CASE u = u0
      BY <1>1, <1>3, <2>2
    <2> QED BY <1>3, <2>1, <2>2
  <1>6. LevelsAgree'
    <2>1. ASSUME NEW j \in Subflow, NEW s \in 1 .. maxSeqNb[j]
          PROVE  /\ log[j][s] < nextRxSequence => s < RxSeqNumber'[j]
                 /\ s < RxSeqNumber'[j] =>
                      \/ log[j][s] < nextRxSequence
                      \/ [sf |-> j, seq |-> s, dsn |-> log[j][s]] \in unOrdered'
      <3>1. /\ log[j][s] < nextRxSequence => s < RxSeqNumber[j]
            /\ s < RxSeqNumber[j] =>
                 \/ log[j][s] < nextRxSequence
                 \/ [sf |-> j, seq |-> s, dsn |-> log[j][s]] \in unOrdered
        BY DEF TransferInv, LevelsAgree
      <3>2. s < RxSeqNumber[j] => s < RxSeqNumber'[j]
        BY <1>4, SenderNumbers
      <3>3. unOrdered \subseteq unOrdered'
        BY <1>3
      <3>4. (j = i /\ s = p.seq) => u0 = [sf |-> j, seq |-> s, dsn |-> log[j][s]]
        BY <1>1
      <3> HIDE DEF p, u0
      <3> QED BY <1>4, <3>1, <3>2, <3>3, <3>4
    <2>2. nextRxSequence <= nextTxSequence
      BY DEF TransferInv, LevelsAgree
    <2> QED BY <1>2, <1>5, <2>1, <2>2 DEF LevelsAgree
  <1> QED BY <1>4, <1>5, <1>6

LEMMA DeliverInv ==
  ASSUME TypeOK, TransferInv, UNCHANGED senderVars, NEW i \in Subflow,
         NEW k \in 1 .. Len(dataCh[i]), DeliverData(i, dataCh[i][k])
  PROVE  /\ LevelsAgree'
         /\ \A j \in Subflow : RxSeqNumber'[j] \in RxSeqNumber[j] .. maxSeqNb[j] + 1
         /\ \A u \in unOrdered' : u.seq \in 1 .. maxSeqNb[u.sf] /\ u.dsn = log[u.sf][u.seq]
  <1> DEFINE p == dataCh[i][k]
             b == [RxSeqNumber EXCEPT ![i] = @ + 1]
  <1>1. /\ p.seq \in 1 .. maxSeqNb[i] /\ p.dsn = log[i][p.seq]
        /\ p.seq = RxSeqNumber[i] /\ p.dsn = nextRxSequence
    BY PacketInFlight DEF DeliverData
  <1>2. UNCHANGED <<maxSeqNb, nextTxSequence, log>>
    BY DEF senderVars
  <1>3. PICK g \in nextRxSequence + 1 .. MaxData + 1 :
          /\ ReadUnOrderedData(g)
          /\ nextRxSequence' = g
          /\ unOrdered' = {u \in unOrdered : u.dsn > g}
    BY DEF DeliverData
  <1>4. PICK rx \in [Subflow -> 1 .. MaxData + 1] :
          (\A j \in Subflow : PassesStored(j, b[j], rx[j])) /\ RxSeqNumber' = rx
    BY DEF DeliverData
  <1> HIDE DEF p
  <1>5. /\ nextRxSequence \in Nat \ {0} /\ g \in Nat /\ g > nextRxSequence
        /\ nextTxSequence \in Nat \ {0}
        /\ g \notin StoredDSN
        /\ \A d \in nextRxSequence + 1 .. g - 1 : d \in StoredDSN
    <2>1. nextRxSequence \in Nat \ {0} /\ nextTxSequence \in Nat \ {0}
      BY DEF TypeOK
    <2> QED BY <1>3, <2>1, Constants DEF ReadUnOrderedData, FirstGap
  <1>6. ASSUME NEW j \in Subflow
        PROVE  /\ RxSeqNumber[j] \in Nat \ {0}
               /\ b[j] = IF j = i THEN RxSeqNumber[j] + 1 ELSE RxSeqNumber[j]
               /\ RxSeqNumber'[j] \in Nat /\ RxSeqNumber'[j] >= b[j]
               /\ RxSeqNumber'[j] \notin Stored(j)
               /\ \A s \in b[j] .. RxSeqNumber'[j] - 1 : s \in Stored(j)
    <2>1. RxSeqNumber[j] \in Nat \ {0}
      BY DEF TypeOK
    <2>2. b[j] = IF j = i THEN RxSeqNumber[j] + 1 ELSE RxSeqNumber[j]
      BY DEF TypeOK
    <2>3. RxSeqNumber'[j] \in 1 .. MaxData + 1 /\ PassesStored(j, b[j], RxSeqNumber'[j])
      BY <1>4
    <2> QED BY <2>1, <2>2, <2>3, Constants DEF PassesStored, FirstGap
  <1> HIDE DEF b
  <1>7. ASSUME NEW j \in Subflow
        PROVE  RxSeqNumber'[j] \in RxSeqNumber[j] .. maxSeqNb[j] + 1
    <2>1. /\ maxSeqNb[j] \in Nat /\ RxSeqNumber[j] <= maxSeqNb[j] + 1
          /\ j = i => RxSeqNumber[j] <= maxSeqNb[j]
      BY <1>1, SenderNumbers
    <2>2. CASE RxSeqNumber'[j] = b[j]
      BY <1>6, <2>1, <2>2
    <2>3. CASE RxSeqNumber'[j] > b[j]
      <3>1. RxSeqNumber'[j] - 1 \in Stored(j)
        BY <1>6, <2>3
      <3>2. PICK u \in unOrdered : u.sf = j /\ u.seq = RxSeqNumber'[j] - 1
        BY <3>1 DEF Stored
      <3>3. RxSeqNumber'[j] - 1 \in 1 .. maxSeqNb[j]
        BY <3>2, StoredSegment
      <3> QED BY <1>6, <2>1, <3>3
    <2> QED BY <1>6, <2>2, <2>3
  <1>8. nextRxSequence' \in Nat /\ nextRxSequence' <= nextTxSequence
    <2>1. g - 1 \in 1 .. nextTxSequence - 1
      <3>1. CASE g = nextRxSequence + 1
        <4>1. p.dsn \in 1 .. nextTxSequence - 1
          BY <1>1 DEF TransferInv, LogInOrder
        <4> QED BY <1>1, <1>5, <3>1, <4>1
      <3>2. CASE g > nextRxSequence + 1
        <4>1. g - 1 \in StoredDSN
          BY <1>5, <3>2
        <4> QED BY <4>1, StoredSegment DEF StoredDSN
      <3> QED BY <1>5, <3>1, <3>2
    <2> QED BY <1>3, <1>5, <2>1
  <1>9. ASSUME NEW j \in Subflow, NEW s \in 1 .. maxSeqNb[j], log[j][s] < g
        PROVE  s < RxSeqNumber'[j]
    <2> DEFINE t == RxSeqNumber'[j]
    <2>0. t \in Nat /\ t >= 1 /\ s \in Nat /\ maxSeqNb[j] \in Nat
      <3>1. maxSeqNb[j] \in Nat
        BY SenderNumbers
      <3>2. RxSeqNumber'[j] \in RxSeqNumber[j] .. maxSeqNb[j] + 1
        BY <1>7
      <3> QED BY <1>6, <3>1, <3>2
    <2> SUFFICES ASSUME t <= s PROVE FALSE
      BY <2>0
    <2>1. t \in 1 .. maxSeqNb[j]
      BY <2>0
    <2> HIDE DEF t
    <2>2. log[j][t] \in Nat /\ log[j][t] < g
      <3>1. log[j][t] \in Nat /\ log[j][s] \in Nat /\ log[j][t] <= log[j][s]
        BY <2>1, LogMonotone
      <3> QED BY <1>5, <1>9, <3>1
    <2>3. CASE log[j][t] < nextRxSequence
      <3>1. t < RxSeqNumber[j]
        BY <2>1, <2>3 DEF TransferInv, LevelsAgree
      <3> QED BY <1>6, <3>1 DEF t
    <2>4. CASE log[j][t] = nextRxSequence
      <3>1. j = i /\ t = RxSeqNumber[i]
        BY <1>1, <2>1, <2>4, SameSegment
      <3> QED BY <1>6, <3>1 DEF t
    <2>5. CASE log[j][t] \in nextRxSequence + 1 .. g - 1
      <3>1. PICK u \in unOrdered : u.dsn = log[j][t]
        BY <1>5, <2>5 DEF StoredDSN
      <3>2. u.sf = j /\ u.seq = t
        BY <2>1, <3>1, StoredSegment, SameSegment
      <3>3. t \in Stored(j)
        BY <3>2 DEF Stored
      <3> QED BY <1>6, <3>3 DEF t
    <2> QED BY <1>5, <2>2, <2>3, <2>4, <2>5
  <1>10. ASSUME NEW j \in Subflow, NEW s \in 1 .. maxSeqNb[j], s < RxSeqNumber'[j]
         PROVE  \/ log[j][s] < g
                \/ [sf |-> j, seq |-> s, dsn |-> log[j][s]] \in unOrdered'
    <2> DEFINE v == [sf |-> j, seq |-> s, dsn |-> log[j][s]]
    <2>1. CASE v \in unOrdered
      <3>1. v.dsn = log[j][s]
        OBVIOUS
      <3>2. v.dsn \in StoredDSN
        BY <2>1 DEF StoredDSN
      <3>3. log[j][s] \in Nat
        BY LogMonotone
      <3>4. log[j][s] # g
        BY <1>5, <3>1, <3>2
      <3> HIDE DEF v
      <3>5. CASE log[j][s] > g
        <4>1. v.dsn > g
          BY <3>1, <3>5
        <4> QED BY <1>3, <2>1, <4>1 DEF v
      <3> QED BY <1>5, <3>3, <3>4, <3>5
    <2>2. CASE s < RxSeqNumber[j]
      <3>1. log[j][s] < nextRxSequence \/ v \in unOrdered
        BY <2>2 DEF TransferInv, LevelsAgree
      <3>2. log[j][s] \in Nat
        BY LogMonotone
      <3> HIDE DEF v
      <3> QED BY <1>5, <2>1, <3>1, <3>2 DEF v
    <2>3. CASE j = i /\ s = p.seq
      BY <1>1, <1>5, <2>3
    <2>4. CASE s >= b[j]
      <3>1. s \in Stored(j)
        BY <1>6, <1>10, <2>4, SenderNumbers
      <3>2. PICK u \in unOrdered : u.sf = j /\ u.seq = s
        BY <3>1 DEF Stored
      <3>3. u = v
        BY <3>2, StoredSegment
      <3> QED BY <2>1, <3>3
    <2> QED BY <1>1, <1>6, <2>2, <2>3, <2>4
  <1>11. ASSUME NEW u \in unOrdered'
         PROVE  u.seq \in 1 .. maxSeqNb[u.sf] /\ u.dsn = log[u.sf][u.seq] /\ u.dsn > g
    BY <1>3, StoredSegment
  <1>12. LevelsAgree'
    BY <1>2, <1>3, <1>8, <1>9, <1>10, <1>11 DEF LevelsAgree
  <1> QED BY <1>7, <1>11, <1>12

LEMMA ReceivedDataInv ==
  ASSUME TypeOK, TypeOK', TransferInv, NEW i \in Subflow, ReceivedData(i)
  PROVE  TransferInv'
  <1>1. PICK k \in Arriving(dataCh[i]) :
          /\ \/ DeliverData(i, dataCh[i][k]) \/ StoreUnOrderedData(i, dataCh[i][k])
             \/ RejectDuplicate(i, dataCh[i][k])
          /\ dataCh' = [dataCh EXCEPT ![i] = DropAt(@, k)]
    BY DEF ReceivedData
  <1>2. k \in 1 .. Len(dataCh[i])
    BY ArrivingIsInFlight DEF TypeOK
  <1>3. UNCHANGED senderVars
    BY DEF ReceivedData
  <1>4. /\ LevelsAgree'
        /\ \A j \in Subflow : RxSeqNumber'[j] \in RxSeqNumber[j] .. maxSeqNb[j] + 1
        /\ \A u \in unOrdered' : u.seq \in 1 .. maxSeqNb[u.sf] /\ u.dsn = log[u.sf][u.seq]
    <2>1. CASE RejectDuplicate(i, dataCh[i][k])
      <3>1. UNCHANGED <<RxSeqNumber, nextRxSequence, unOrdered, maxSeqNb,
                        nextTxSequence, log>>
        BY <1>3, <2>1 DEF RejectDuplicate, receiverVars, senderVars
      <3>2. LevelsAgree'
        BY <3>1 DEF TransferInv, LevelsAgree
      <3> QED BY <3>1, <3>2, SenderNumbers, StoredSegment
    <2> QED BY <1>1, <1>2, <1>3, <2>1, StoreInv, DeliverInv
  <1>5. \A j \in Subflow : \A q \in 1 .. Len(dataCh'[j]) :
          \E l \in 1 .. Len(dataCh[j]) : dataCh'[j][q] = dataCh[j][l]
    BY <1>1, <1>2, DroppedData
  <1>6. \A j \in Subflow : \A q \in 1 .. Len(ackCh'[j]) :
          \/ \E l \in 1 .. Len(ackCh[j]) : ackCh'[j][q] = ackCh[j][l]
          \/ ackCh'[j][q] = RxSeqNumber'[j]
    <2>1. RxSeqNumber'[i] \in Nat
      BY DEF TypeOK
    <2>2. ackCh' = [ackCh EXCEPT ![i] = Append(@, RxSeqNumber'[i])]
      BY DEF ReceivedData, Acknowledge
    <2> QED BY <2>1, <2>2, AppendedAck
  <1> QED BY <1>3, <1>4, <1>5, <1>6, ReceiverStep

---------------------------------------------------------------------------
(* The theorems.                                                           *)

LEMMA InitTransferInv == Init => TransferInv
  <1> SUFFICES ASSUME Init PROVE TransferInv
    OBVIOUS
  <1> USE DEF Init
  <1>1. SequenceNumbersInStep
    BY DEF SequenceNumbersInStep
  <1>2. LogInOrder
    BY DEF LogInOrder
  <1>3. CopiesAgree
    BY DEF CopiesAgree
  <1>4. LevelsAgree
    BY DEF LevelsAgree
  <1> QED BY <1>1, <1>2, <1>3, <1>4 DEF TransferInv

LEMMA NextTransferInv ==
  ASSUME TypeOK, TypeOK', TransferInv, [Next]_vars
  PROVE  TransferInv'
  <1>1. ASSUME UNCHANGED <<TxSeqNumber, maxSeqNb, highestAck, mapDSN, nextTxSequence, log,
                           receiverVars, dataCh, ackCh>>
        PROVE  TransferInv'
    BY <1>1, SenderUntouched, SameQueues, KeepsInStepInv
  <1>2. CASE UNCHANGED vars
    BY <1>1, <1>2 DEF vars, senderVars, netVars
  <1>3. CASE Application
    BY <1>1, <1>3 DEF Application, FillBuffer, EndSendData, senderVars, netVars
  <1>4. CASE SendPendingData
    <2>1. PICK n \in 0 .. size - 1 : SendNew(n) \/ SendOld(n)
      BY <1>4 DEF SendPendingData
    <2>2. n \in Subflow /\ UNCHANGED <<highestAck, receiverVars, ackCh>>
      BY <1>4, ScanType DEF SendPendingData
    <2> QED BY <2>1, <2>2, SendNewInv, SendOldKeeps, KeepsInStepInv
  <1>5. CASE EndSendPendingData
    BY <1>1, <1>5 DEF EndSendPendingData, netVars
  <1>6. CASE Resend
    <2>1. loop.sf \in Subflow
      BY DEF TypeOK, Loop
    <2>2. UNCHANGED <<highestAck, receiverVars, ackCh>>
      BY <1>6 DEF Resend
    <2>3. CASE SendOld(loop.sf)
      BY <2>1, <2>2, <2>3, SendOldKeeps, KeepsInStepInv
    <2>4. CASE UNCHANGED <<dataCh, TxSeqNumber, maxSeqNb, mapDSN, nextTxSequence, log>>
      BY <1>1, <2>2, <2>4
    <2> QED BY <1>6, <2>3, <2>4 DEF Resend
  <1>7. CASE InitiateSubflows
    BY <1>1, <1>7 DEF InitiateSubflows, netVars
  <1>8. ASSUME NEW i \in Subflow, ProcessSynSent(i) \/ LoseJoin(i)
        PROVE  TransferInv'
    BY <1>1, <1>8 DEF ProcessSynSent, LoseJoin, netVars
  <1>9. ASSUME NEW i \in Subflow, ReceivedAck(i) \/ ReTxTimeout(i) \/ LosePacket(i)
        PROVE  TransferInv'
    BY <1>9, ReceivedAckKeeps, TimeoutKeeps, LoseKeeps, KeepsInStepInv
  <1>10. ASSUME NEW i \in Subflow, ReceivedData(i)
         PROVE  TransferInv'
    BY <1>10, ReceivedDataInv
  <1> QED
    BY <1>2, <1>3, <1>4, <1>5, <1>6, <1>7, <1>8, <1>9, <1>10 DEF Next, Stop, Sending

\* The numbers of sender and server, and all copies of all segments, fit
\* together in every reachable state.
THEOREM TransferCorrect == Spec => []TransferInv
  <1>1. Init => TransferInv
    BY InitTransferInv
  <1>2. TypeOK /\ TypeOK' /\ TransferInv /\ [Next]_vars => TransferInv'
    BY NextTransferInv
  <1> QED BY <1>1, <1>2, TypeCorrect, PTL DEF Spec

\* No packet in flight can stop the server: one new to its subflow is new to
\* the connection.
THEOREM ReceiverSafe == Spec => []ReceiverNeverAborts
  <1>1. TypeOK /\ TransferInv => ReceiverNeverAborts
    <2> SUFFICES ASSUME TypeOK, TransferInv, NEW i \in Subflow,
                        NEW k \in 1 .. Len(dataCh[i])
                 PROVE  LET p == dataCh[i][k]
                        IN /\ p.seq = RxSeqNumber[i] => p.dsn >= nextRxSequence
                           /\ p.seq > RxSeqNumber[i] => p.dsn > nextRxSequence
      BY DEF ReceiverNeverAborts
    <2> DEFINE p == dataCh[i][k]
    <2>1. p.seq \in 1 .. maxSeqNb[i] /\ p.dsn = log[i][p.seq]
      BY PacketInFlight
    <2> HIDE DEF p
    <2>2. /\ RxSeqNumber[i] \in Nat \ {0} /\ maxSeqNb[i] \in Nat
          /\ nextRxSequence \in Nat
      BY DEF TypeOK
    <2>3. \A s \in 1 .. maxSeqNb[i] :
            s >= RxSeqNumber[i] => log[i][s] \in Nat /\ log[i][s] >= nextRxSequence
      <3> SUFFICES ASSUME NEW s \in 1 .. maxSeqNb[i], s >= RxSeqNumber[i]
                   PROVE  log[i][s] \in Nat /\ log[i][s] >= nextRxSequence
        OBVIOUS
      <3>1. log[i][s] \in Nat
        <4>1. s <= s
          BY <2>2
        <4> QED BY <4>1, LogMonotone
      <3>2. ~(log[i][s] < nextRxSequence)
        <4>1. log[i][s] < nextRxSequence => s < RxSeqNumber[i]
          BY DEF TransferInv, LevelsAgree
        <4> QED BY <2>2, <4>1
      <3> QED BY <2>2, <3>1, <3>2
    <2>4. p.seq = RxSeqNumber[i] => p.dsn >= nextRxSequence
      BY <2>1, <2>2, <2>3
    <2>5. ASSUME p.seq > RxSeqNumber[i]
          PROVE  p.dsn > nextRxSequence
      <3> DEFINE r == RxSeqNumber[i]
      <3>1. r \in 1 .. maxSeqNb[i] /\ r < p.seq
        BY <2>1, <2>2, <2>5
      <3>2. log[i][r] \in Nat /\ log[i][r] >= nextRxSequence
        BY <2>2, <2>3, <3>1
      <3>3. log[i][p.seq] \in Nat /\ log[i][r] < log[i][p.seq]
        <4> HIDE DEF r
        <4>1. r <= p.seq
          BY <2>1, <3>1
        <4> QED BY <2>1, <3>1, <4>1, LogMonotone
      <3> QED BY <2>1, <2>2, <3>2, <3>3
    <2> QED BY <2>4, <2>5 DEF p
  <1> QED BY <1>1, TypeCorrect, TransferCorrect, PTL

\* No assertion of the sender fails: every segment it looks up is there.
THEOREM SenderSafe == Spec => []SenderNeverAborts
  <1>1. TypeOK /\ TransferInv => SenderNeverAborts
    <2> SUFFICES ASSUME TypeOK, TransferInv, NEW i \in Subflow
                 PROVE  /\ {m.seq : m \in mapDSN[i]} = highestAck[i] + 1 .. maxSeqNb[i]
                        /\ highestAck[i] < TxSeqNumber[i]
                        /\ TxSeqNumber[i] <= maxSeqNb[i] + 1
                        /\ \A k \in 1 .. Len(ackCh[i]) : ackCh[i][k] <= maxSeqNb[i] + 1
      BY DEF SenderNeverAborts
    <2>1. ASSUME NEW k \in 1 .. Len(ackCh[i])
          PROVE  ackCh[i][k] <= maxSeqNb[i] + 1
      <3>1. ackCh[i][k] <= RxSeqNumber[i]
        BY DEF TransferInv, SequenceNumbersInStep
      <3>2. ackCh[i][k] \in Nat
        <4>1. ackCh[i] \in Seq(Nat)
          BY DEF TypeOK
        <4> QED BY <4>1
      <3> QED BY <3>1, <3>2, SenderNumbers
    <2> QED BY <2>1, SenderNumbers
  <1> QED BY <1>1, TypeCorrect, TransferCorrect, PTL

\* The client never believes that the server has more than it has.
THEOREM AcksSafe == Spec => []AcksAreSound
  <1>1. TransferInv => AcksAreSound
    BY DEF TransferInv, SequenceNumbersInStep, AcksAreSound
  <1> QED BY <1>1, TransferCorrect, PTL

\* What was given to a subflow is at the server or kept for retransmission.
THEOREM DataSafe == Spec => []NothingForgotten
  <1>1. TypeOK /\ TransferInv => NothingForgotten
    <2> SUFFICES ASSUME TypeOK, TransferInv, NEW i \in Subflow,
                        NEW s \in 1 .. Len(log[i]), ~(s < RxSeqNumber[i])
                 PROVE  [seq |-> s, dsn |-> log[i][s]] \in mapDSN[i]
      BY DEF NothingForgotten
    <2>1. s \in 1 .. maxSeqNb[i]
      BY DEF TransferInv, LogInOrder
    <2>2. s \in highestAck[i] + 1 .. maxSeqNb[i]
      BY <2>1, SenderNumbers
    <2>3. PICK m \in mapDSN[i] : m.seq = s
      BY <2>2, SenderNumbers
    <2>4. m.dsn = log[i][s]
      BY <2>3 DEF TransferInv, CopiesAgree
    <2>5. m = [seq |-> m.seq, dsn |-> m.dsn]
      BY DEF TypeOK, Segment
    <2> QED BY <2>3, <2>4, <2>5
  <1> QED BY <1>1, TypeCorrect, TransferCorrect, PTL

---------------------------------------------------------------------------
(* The timer and the recovery point: invariants of their own.              *)

\* A subflow that waits for an ACK has its timer pending.
THEOREM TimerSafe == Spec => []TimerCoversFlight
  <1>1. Init => TimerCoversFlight
    BY DEF Init, TimerCoversFlight
  <1>2. TypeOK /\ TimerCoversFlight /\ [Next]_vars => TimerCoversFlight'
    <2> SUFFICES ASSUME TypeOK, TimerCoversFlight, [Next]_vars, NEW j \in Subflow
                 PROVE  mapDSN'[j] # {} => retx'[j]
      BY DEF TimerCoversFlight
    <2>0. /\ mapDSN[j] # {} => retx[j]
          /\ retx \in [Subflow -> BOOLEAN] /\ mapDSN \in [Subflow -> SUBSET Segment]
      BY DEF TypeOK, TimerCoversFlight
    <2>1. CASE UNCHANGED <<mapDSN, retx>>
      BY <2>0, <2>1
    <2>2. ASSUME NEW i \in Subflow, SendNew(i)
          PROVE  mapDSN'[j] # {} => retx'[j]
      <3> DEFINE m == [seq |-> TxSeqNumber[i], dsn |-> nextTxSequence]
      <3>1. /\ retx' = [retx EXCEPT ![i] = TRUE]
            /\ mapDSN' = [mapDSN EXCEPT ![i] = @ \cup {m}]
        BY <2>2 DEF SendNew
      <3> HIDE DEF m
      <3> QED BY <2>0, <3>1
    <2>3. ASSUME NEW i \in Subflow,
                 retx' = [retx EXCEPT ![i] = TRUE], UNCHANGED mapDSN
          PROVE  mapDSN'[j] # {} => retx'[j]
      BY <2>0, <2>3
    <2>4. ASSUME NEW i \in Subflow, NEW a, NewAckNewReno(i, a)
          PROVE  mapDSN'[j] # {} => retx'[j]
      <3> DEFINE kept == DiscardUpTo(i, a)
      <3>1. /\ mapDSN' = [mapDSN EXCEPT ![i] = kept]
            /\ retx' = [retx EXCEPT ![i] = KeepsTimer(kept)]
        BY <2>4 DEF NewAckNewReno
      <3> HIDE DEF kept
      <3>2. kept # {} => KeepsTimer(kept)
        BY DEF KeepsTimer
      <3>3. CASE j = i
        <4>1. mapDSN'[j] = kept /\ retx'[j] = KeepsTimer(kept)
          BY <2>0, <3>1, <3>3
        <4> QED BY <3>2, <4>1
      <3>4. CASE j # i
        BY <2>0, <3>1, <3>4
      <3> QED BY <3>3, <3>4
    <2>5. ASSUME NEW i \in Subflow, ReTxTimeout(i)
          PROVE  mapDSN'[j] # {} => retx'[j]
      <3>1. retx' = [retx EXCEPT ![i] = TimerAfterTimeout(i)] /\ UNCHANGED mapDSN
        BY <2>5 DEF ReTxTimeout
      <3>2. CASE j = i
        <4>1. retx'[j] = TimerAfterTimeout(i) /\ mapDSN'[j] = mapDSN[i]
          BY <2>0, <3>1, <3>2
        <4> QED BY <4>1 DEF TimerAfterTimeout
      <3>3. CASE j # i
        BY <2>0, <3>1, <3>3
      <3> QED BY <3>2, <3>3
    <2>6. CASE SendPendingData
      <3>1. PICK n \in 0 .. size - 1 : SendNew(n) \/ SendOld(n)
        BY <2>6 DEF SendPendingData
      <3>2. n \in Subflow
        BY ScanType
      <3> QED BY <2>2, <2>3, <3>1, <3>2 DEF SendOld
    <2>7. CASE Resend
      <3>1. loop.sf \in Subflow
        BY DEF TypeOK, Loop
      <3> QED BY <2>1, <2>3, <2>7, <3>1 DEF Resend, SendOld
    <2>8. ASSUME NEW i \in Subflow, ReceivedAck(i)
          PROVE  mapDSN'[j] # {} => retx'[j]
      <3>1. PICK a : NewAckNewReno(i, a) \/ DupAck(i, a) \/ OldAck(i, a)
        BY <2>8 DEF ReceivedAck
      <3> QED BY <2>1, <2>3, <2>4, <3>1
           DEF DupAck, FastRetransmit, CountDup, OldAck
    <2>9. CASE \/ UNCHANGED vars \/ Application \/ EndSendPendingData \/ InitiateSubflows
               \/ \E i \in Subflow : \/ ProcessSynSent(i) \/ LoseJoin(i)
                                     \/ ReceivedData(i) \/ LosePacket(i)
      BY <2>1, <2>9
      DEF vars, senderVars, Application, FillBuffer, EndSendData, EndSendPendingData,
          InitiateSubflows, ProcessSynSent, LoseJoin, ReceivedData, LosePacket
    <2> QED BY <2>5, <2>6, <2>7, <2>8, <2>9 DEF Next, Stop, Sending
  <1> QED BY <1>1, <1>2, TypeCorrect, PTL DEF Spec

\* The recovery point of a subflow in fast recovery is ahead of what is
\* acknowledged and not ahead of what was sent.
THEOREM RecoverySafe == Spec => []RecoveryPointOutstanding
  <1>1. Init => RecoveryPointOutstanding
    BY DEF Init, RecoveryPointOutstanding
  <1>2. /\ TypeOK /\ TypeOK' /\ TransferInv /\ RecoveryPointOutstanding /\ [Next]_vars
        => RecoveryPointOutstanding'
    <2> SUFFICES ASSUME TypeOK, TypeOK', TransferInv, RecoveryPointOutstanding,
                        [Next]_vars, NEW j \in Subflow, cc'[j].inFastRec
                 PROVE  /\ highestAck'[j] + 1 < cc'[j].recover
                        /\ cc'[j].recover <= maxSeqNb'[j] + 1
      BY DEF RecoveryPointOutstanding
    <2> DEFINE Goal == /\ highestAck'[j] + 1 < cc'[j].recover
                       /\ cc'[j].recover <= maxSeqNb'[j] + 1
    <2>0. /\ cc[j].inFastRec => /\ highestAck[j] + 1 < cc[j].recover
                                /\ cc[j].recover <= maxSeqNb[j] + 1
          /\ cc \in [Subflow -> Congestion] /\ cc[j] \in Congestion
          /\ highestAck \in [Subflow -> Nat] /\ maxSeqNb \in [Subflow -> Nat]
      BY DEF RecoveryPointOutstanding, TypeOK
    <2>1. CASE UNCHANGED <<cc, highestAck, maxSeqNb>>
      BY <2>0, <2>1
    <2>2. ASSUME NEW i \in Subflow, SendNew(i), UNCHANGED <<cc, highestAck>>
          PROVE  Goal
      <3>1. maxSeqNb'[j] \in Nat /\ maxSeqNb[j] <= maxSeqNb'[j]
        <4>1. maxSeqNb' = [maxSeqNb EXCEPT ![i] = Max2(@, TxSeqNumber[i])]
          BY <2>2 DEF SendNew
        <4>2. maxSeqNb[i] <= Max2(maxSeqNb[i], TxSeqNumber[i])
          BY <2>0, SenderNumbers DEF Max2
        <4>3. maxSeqNb'[j] \in Nat
          BY DEF TypeOK
        <4> QED BY <2>0, <4>1, <4>2, <4>3
      <3>2. cc[j].recover \in Nat
        BY <2>0 DEF Congestion
      <3> QED BY <2>0, <2>2, <3>1, <3>2
    <2>3. ASSUME NEW i \in Subflow, NEW a \in Nat, NewAckNewReno(i, a)
          PROVE  Goal
      <3>1. PICK c \in AfterNewAck(i, a) : cc' = [cc EXCEPT ![i] = c]
        BY <2>3 DEF NewAckNewReno
      <3>2. /\ highestAck' = [highestAck EXCEPT ![i] = a - 1] /\ UNCHANGED maxSeqNb
        BY <2>3 DEF NewAckNewReno
      <3>3. CASE j # i
        BY <2>0, <3>1, <3>2, <3>3
      <3>4. CASE j = i
        <4>1. cc'[j] = c /\ highestAck'[j] = a - 1
          BY <2>0, <3>1, <3>2, <3>4
        <4>2. CASE cc[i].inFastRec /\ a < cc[i].recover
          <5>1. c.recover = cc[i].recover
            BY <2>0, <3>4, <4>2 DEF AfterNewAck, Congestion
          <5> QED BY <2>0, <3>2, <3>4, <4>1, <4>2, <5>1
        <4>3. CASE ~(cc[i].inFastRec /\ a < cc[i].recover)
          <5>1. PICK o : c = Recovered(cc[i], o)
            BY <4>3 DEF AfterNewAck
          <5>2. ~c.inFastRec
            BY <2>0, <3>4, <5>1 DEF Recovered, Congestion
          <5> QED BY <4>1, <5>2
        <4> QED BY <4>2, <4>3
      <3> QED BY <3>3, <3>4
    <2>4. ASSUME NEW i \in Subflow, NEW a \in Nat, DupAck(i, a)
          PROVE  Goal
      <3>1. UNCHANGED <<highestAck, maxSeqNb>>
        BY <2>4 DEF DupAck
      <3>2. PICK m \in mapDSN[i] : FastRetransmit(i, m) \/ CountDup(i)
        BY <2>4 DEF DupAck
      <3>3. CASE FastRetransmit(i, m)
        <4>1. PICK s \in Reduced(i) :
                cc' = [cc EXCEPT ![i] =
                         [cwnd |-> (s + 3) % Wrap, ssthresh |-> s, dupAckCount |-> DupThresh,
                          inFastRec |-> TRUE, recover |-> maxSeqNb[i] + 1]]
          BY <3>3 DEF FastRetransmit
        <4>2. CASE j # i
          BY <2>0, <3>1, <4>1, <4>2
        <4>3. CASE j = i
          <5>1. cc'[j].recover = maxSeqNb[i] + 1
            BY <2>0, <4>1, <4>3
          <5>2. m.seq \in highestAck[i] + 1 .. maxSeqNb[i]
            BY SenderNumbers
          <5> QED BY <2>0, <3>1, <4>3, <5>1, <5>2
        <4> QED BY <4>2, <4>3
      <3>4. CASE CountDup(i)
        <4>1. cc'[j].recover = cc[j].recover /\ cc'[j].inFastRec = cc[j].inFastRec
          <5> DEFINE n == Min2(cc[i].dupAckCount + 1, DupThresh + 1)
          <5>1. \/ cc' = [cc EXCEPT ![i] = [cc[i] EXCEPT !.dupAckCount = n]]
                \/ cc' = [cc EXCEPT ![i] = [cc[i] EXCEPT !.dupAckCount = n,
                                                         !.cwnd = (@ + 1) % Wrap]]
            BY <3>4 DEF CountDup
          <5> HIDE DEF n
          <5>2. CASE j # i
            BY <2>0, <5>1, <5>2
          <5>3. CASE j = i
            BY <2>0, <5>1, <5>3 DEF Congestion
          <5> QED BY <5>2, <5>3
        <4> QED BY <2>0, <3>1, <4>1
      <3> QED BY <3>2, <3>3, <3>4
    <2>5. ASSUME NEW i \in Subflow, ReceivedAck(i)
          PROVE  Goal
      <3>1. PICK k \in Arriving(ackCh[i]) :
              \/ NewAckNewReno(i, ackCh[i][k]) \/ DupAck(i, ackCh[i][k])
              \/ OldAck(i, ackCh[i][k])
        BY <2>5 DEF ReceivedAck
      <3>2. ackCh[i] \in Seq(Nat) /\ k \in 1 .. Len(ackCh[i])
        BY ArrivingIsInFlight DEF TypeOK
      <3>3. ackCh[i][k] \in Nat
        BY <3>2
      <3>4. CASE OldAck(i, ackCh[i][k])
        BY <2>1, <3>4 DEF OldAck
      <3> QED BY <2>3, <2>4, <3>1, <3>3, <3>4
    <2>6. ASSUME NEW i \in Subflow, ReTxTimeout(i)
          PROVE  Goal
      <3>1. UNCHANGED <<highestAck, maxSeqNb>>
        BY <2>6 DEF ReTxTimeout
      <3>2. CASE mapDSN[i] = {}
        BY <2>1, <2>6, <3>1, <3>2 DEF ReTxTimeout
      <3>3. CASE mapDSN[i] # {}
        <4> DEFINE h == Max2(2, BytesInFlight(i) \div 2)
        <4>1. cc' = [cc EXCEPT ![i] =
                       [cc[i] EXCEPT !.inFastRec = FALSE, !.cwnd = 1, !.ssthresh = h]]
          BY <2>6, <3>3 DEF ReTxTimeout
        <4> HIDE DEF h
        <4>2. j # i
          BY <2>0, <4>1 DEF Congestion
        <4> QED BY <2>0, <3>1, <4>1, <4>2
      <3> QED BY <3>2, <3>3
    <2>7. CASE SendPendingData
      <3>1. PICK n \in 0 .. size - 1 : SendNew(n) \/ SendOld(n)
        BY <2>7 DEF SendPendingData
      <3>2. n \in Subflow /\ UNCHANGED <<cc, highestAck>>
        BY <2>7, ScanType DEF SendPendingData
      <3> QED BY <2>1, <2>2, <3>1, <3>2 DEF SendOld
    <2>8. CASE Resend
      BY <2>1, <2>8 DEF Resend, SendOld
    <2>9. CASE \/ UNCHANGED vars \/ Application \/ EndSendPendingData \/ InitiateSubflows
               \/ \E i \in Subflow : \/ ProcessSynSent(i) \/ LoseJoin(i)
                                     \/ ReceivedData(i) \/ LosePacket(i)
      BY <2>1, <2>9
      DEF vars, senderVars, Application, FillBuffer, EndSendData, EndSendPendingData,
          InitiateSubflows, ProcessSynSent, LoseJoin, ReceivedData, LosePacket
    <2> QED BY <2>5, <2>6, <2>7, <2>8, <2>9 DEF Next, Stop, Sending
  <1> QED BY <1>1, <1>2, TypeCorrect, TransferCorrect, PTL DEF Spec
=============================================================================
