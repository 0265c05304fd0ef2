------------------------ MODULE MpTcpTransferProofs ------------------------
(***************************************************************************)
(* Proofs about MpTcpTransfer, for any number of subflows, any amount of    *)
(* data, any buffers, windows and losses, with FIFO or reordering paths.    *)
(***************************************************************************)
EXTENDS MpTcpTransfer, TLAPS

\* Taking one packet out of a queue leaves a queue of the other packets.
LEMMA DropAtProperties ==
  ASSUME NEW S, NEW s \in Seq(S), NEW k \in 1 .. Len(s)
  PROVE  /\ DropAt(s, k) \in Seq(S)
         /\ Len(DropAt(s, k)) = Len(s) - 1
         /\ \A j \in 1 .. Len(DropAt(s, k)) :
              \E l \in 1 .. Len(s) : DropAt(s, k)[j] = s[l]
  <1>1. DropAt(s, k) \in Seq(S) /\ Len(DropAt(s, k)) = Len(s) - 1
    BY DEF DropAt
  <1>2. ASSUME NEW j \in 1 .. Len(DropAt(s, k))
        PROVE  \E l \in 1 .. Len(s) : DropAt(s, k)[j] = s[l]
    <2>1. j \in 1 .. Len(s) - 1 /\ j + 1 \in 1 .. Len(s) /\ j \in 1 .. Len(s)
      BY <1>1
    <2>2. DropAt(s, k)[j] = IF j < k THEN s[j] ELSE s[j + 1]
      BY <2>1 DEF DropAt
    <2> QED BY <2>1, <2>2
  <1> QED BY <1>1, <1>2

LEMMA ArrivingIsInFlight ==
  ASSUME NEW S, NEW s \in Seq(S), NEW k \in Arriving(s)
  PROVE  k \in 1 .. Len(s)
  BY DEF Arriving, Min2

\* The constants, in one place.
LEMMA Constants ==
  /\ NSub \in Nat \ {0} /\ MaxData \in Nat /\ BufSize \in Nat \ {0}
  /\ SendSize \in Nat \ {0} /\ RecvWnd \in Nat \ {0} /\ InitSsthresh \in Nat
  /\ Wrap \in Nat \ {0, 1} /\ DupThresh \in Nat \ {0} /\ MaxLoss \in Nat
  /\ 0 \in Subflow
  BY NSubAssumption, MaxDataAssumption, BufferAssumption, WindowAssumption,
     DupThreshAssumption, BoundAssumption DEF Subflow

LEMMA WindowWraps ==
  ASSUME NEW w \in Int
  PROVE  w % Wrap \in Nat
  BY Constants

LEMMA EnterSendType ==
  ASSUME NEW p \in Nat, NEW i \in Subflow
  PROVE  EnterSend(p, i, TRUE) \in Loop /\ EnterSend(p, i, FALSE) \in Loop
  BY Constants DEF EnterSend, Loop

LEMMA ThenSendType ==
  ASSUME TypeOK, NEW i \in Subflow
  PROVE  ThenSend(i) \in Loop
  <1>1. sendingBuffer \in Nat
    BY Constants DEF TypeOK
  <1> QED BY <1>1, EnterSendType DEF ThenSend

LEMMA LeaveSendType == LeaveSend \in Loop /\ Idle \in Loop
  BY Constants DEF LeaveSend, Idle, Loop

---------------------------------------------------------------------------
(* Type correctness.                                                       *)

LEMMA InitTypeOK == Init => TypeOK
  BY Constants, LeaveSendType, SwitchAssumption
  DEF Init, TypeOK, Congestion, Segment, Subflow

LEMMA ScanType ==
  ASSUME TypeOK, NEW k \in 0 .. size - 1
  PROVE  k \in Subflow /\ getSubflowToUse(k) \in 0 .. size - 1
  BY Constants DEF TypeOK, getSubflowToUse, Subflow

LEMMA SendNewType ==
  ASSUME TypeOK, NEW i \in Subflow, SendNew(i), sendingBuffer > 0
  PROVE  /\ TxSeqNumber' \in [Subflow -> Nat \ {0}]
         /\ maxSeqNb' \in [Subflow -> Nat]
         /\ mapDSN' \in [Subflow -> SUBSET Segment]
         /\ retx' \in [Subflow -> BOOLEAN]
         /\ nextTxSequence' \in Nat \ {0}
         /\ sendingBuffer' \in 0 .. BufSize
         /\ dataCh' \in [Subflow -> Seq(Segment)]
         /\ log' \in [Subflow -> Seq(Nat)]
  <1> USE DEF TypeOK, SendNew
  <1>1. TxSeqNumber' \in [Subflow -> Nat \ {0}]  OBVIOUS
  <1>2. maxSeqNb' \in [Subflow -> Nat]  BY DEF Max2
  <1>3. mapDSN' \in [Subflow -> SUBSET Segment]  BY DEF Segment
  <1>4. retx' \in [Subflow -> BOOLEAN]  OBVIOUS
  <1>5. dataCh' \in [Subflow -> Seq(Segment)]  BY DEF Segment
  <1>6. log' \in [Subflow -> Seq(Nat)]  OBVIOUS
  <1>7. nextTxSequence' \in Nat \ {0} /\ sendingBuffer' \in 0 .. BufSize
    BY Constants
  <1> QED BY <1>1, <1>2, <1>3, <1>4, <1>5, <1>6, <1>7

LEMMA SendOldType ==
  ASSUME TypeOK, NEW i \in Subflow, SendOld(i)
  PROVE  /\ TxSeqNumber' \in [Subflow -> Nat \ {0}]
         /\ retx' \in [Subflow -> BOOLEAN]
         /\ dataCh' \in [Subflow -> Seq(Segment)]
         /\ UNCHANGED <<maxSeqNb, mapDSN, sendingBuffer, nextTxSequence, log>>
  BY DEF TypeOK, SendOld

LEMMA SendPendingDataTypeOK ==
  ASSUME TypeOK, SendPendingData
  PROVE  TypeOK'
  <1>1. PICK k \in 0 .. size - 1 :
          /\ \/ SendNew(k) /\ loop' = [loop EXCEPT !.sentAny = TRUE]
             \/ SendOld(k) /\ UNCHANGED loop
          /\ lastUsedsFlowIdx' = getSubflowToUse(k)
    BY DEF SendPendingData
  <1>2. k \in Subflow /\ lastUsedsFlowIdx' \in 0 .. size - 1
    BY <1>1, ScanType
  <1>3. loop' \in Loop
    BY <1>1 DEF TypeOK, Loop
  <1>4. /\ UNCHANGED <<state, size, joining, highestAck, cc, written, appEvent,
                       receiverVars, ackCh, lost>>
        /\ sendingBuffer > 0
    BY DEF SendPendingData
  <1>5. CASE SendNew(k)
    BY <1>2, <1>3, <1>4, <1>5, SendNewType DEF TypeOK, receiverVars
  <1>6. CASE SendOld(k)
    BY <1>2, <1>3, <1>4, <1>6, SendOldType DEF TypeOK, receiverVars
  <1> QED BY <1>1, <1>5, <1>6

LEMMA EndSendPendingDataTypeOK ==
  ASSUME TypeOK, EndSendPendingData
  PROVE  TypeOK'
  <1>1. loop' \in Loop
    BY LeaveSendType DEF EndSendPendingData
  <1>2. lastUsedsFlowIdx' \in 0 .. size' - 1 /\ appEvent' \in BOOLEAN
    BY DEF EndSendPendingData, TypeOK
  <1> QED BY <1>1, <1>2 DEF EndSendPendingData, TypeOK, receiverVars, netVars

LEMMA ResendTypeOK ==
  ASSUME TypeOK, Resend
  PROVE  TypeOK'
  <1>1. loop.sf \in Subflow /\ loop \in Loop
    BY DEF TypeOK, Loop
  <1>2. CASE SendOld(loop.sf) /\ UNCHANGED loop
    BY <1>1, <1>2, SendOldType DEF Resend, TypeOK, receiverVars
  <1>3. CASE /\ loop' = LeaveSend
             /\ UNCHANGED <<dataCh, retx, TxSeqNumber, maxSeqNb, mapDSN,
                            sendingBuffer, nextTxSequence, log>>
    BY <1>3, LeaveSendType DEF Resend, TypeOK, receiverVars
  <1> QED BY <1>2, <1>3 DEF Resend

LEMMA ApplicationTypeOK ==
  ASSUME TypeOK, Application
  PROVE  TypeOK'
  <1>1. CASE FillBuffer
    <2> DEFINE n == Min2(SendSize, Min2(BufSize - sendingBuffer, MaxData - written))
    <2>1. n \in Nat /\ sendingBuffer + n \in 0 .. BufSize /\ written + n \in 0 .. MaxData
      BY <1>1, Constants DEF FillBuffer, CanWrite, Min2, TypeOK
    <2>2. EnterSend(sendingBuffer + n, 0, TRUE) \in Loop
      <3>1. sendingBuffer + n \in Nat /\ 0 \in Subflow
        BY <2>1, Constants
      <3> HIDE DEF n
      <3> QED BY <3>1, EnterSendType
    <2>3. /\ sendingBuffer' = sendingBuffer + n /\ written' = written + n
          /\ loop' = EnterSend(sendingBuffer + n, 0, TRUE)
          /\ appEvent' \in BOOLEAN
      BY <1>1 DEF FillBuffer
    <2> HIDE DEF n
    <2> QED BY <1>1, <2>1, <2>2, <2>3 DEF FillBuffer, TypeOK, receiverVars, netVars
  <1>2. CASE EndSendData
    <2>1. loop' \in Loop /\ appEvent' \in BOOLEAN
      BY <1>2, LeaveSendType DEF EndSendData
    <2> QED BY <1>2, <2>1 DEF EndSendData, TypeOK, senderVars, receiverVars, netVars
  <1> QED BY <1>1, <1>2 DEF Application

LEMMA JoinTypeOK ==
  ASSUME TypeOK, NEW i \in Subflow,
         InitiateSubflows \/ ProcessSynSent(i) \/ LoseJoin(i)
  PROVE  TypeOK'
  <1>1. CASE InitiateSubflows
    <2> USE <1>1 DEF InitiateSubflows, TypeOK
    <2>1. state' \in [Subflow -> {"CLOSED", "SYN_SENT", "ESTABLISHED"}]  OBVIOUS
    <2>2. joining' \subseteq Subflow  OBVIOUS
    <2>3. size' \in 1 .. NSub /\ lastUsedsFlowIdx' \in 0 .. size' - 1
      BY Constants
    <2> QED BY <2>1, <2>2, <2>3 DEF appVars, receiverVars, netVars
  <1>2. CASE ProcessSynSent(i)
    <2>1. loop' \in Loop
      BY <1>2, ThenSendType DEF ProcessSynSent
    <2> QED BY <1>2, <2>1 DEF ProcessSynSent, TypeOK, receiverVars, netVars
  <1>3. CASE LoseJoin(i)
    BY <1>3 DEF LoseJoin, TypeOK, appVars, receiverVars, netVars
  <1> QED BY <1>1, <1>2, <1>3

LEMMA DropDataType ==
  ASSUME TypeOK, NEW i \in Subflow, NEW k \in 1 .. Len(dataCh[i]),
         dataCh' = [dataCh EXCEPT ![i] = DropAt(@, k)]
  PROVE  dataCh' \in [Subflow -> Seq(Segment)]
  <1>1. DropAt(dataCh[i], k) \in Seq(Segment)
    BY DropAtProperties DEF TypeOK
  <1> QED BY <1>1 DEF TypeOK

LEMMA DropAckType ==
  ASSUME TypeOK, NEW i \in Subflow, NEW k \in 1 .. Len(ackCh[i]),
         ackCh' = [ackCh EXCEPT ![i] = DropAt(@, k)]
  PROVE  ackCh' \in [Subflow -> Seq(Nat)]
  <1>1. DropAt(ackCh[i], k) \in Seq(Nat)
    BY DropAtProperties DEF TypeOK
  <1> QED BY <1>1 DEF TypeOK

\* What an ACK leaves of the client's state.
AckTypes ==
  /\ cc' \in [Subflow -> Congestion]
  /\ dataCh' \in [Subflow -> Seq(Segment)]
  /\ TxSeqNumber' \in [Subflow -> Nat \ {0}]
  /\ highestAck' \in [Subflow -> Nat]
  /\ mapDSN' \in [Subflow -> SUBSET Segment]
  /\ retx' \in [Subflow -> BOOLEAN]
  /\ appEvent' \in BOOLEAN
  /\ loop' \in Loop
  /\ UNCHANGED maxSeqNb

LEMMA CongestionType ==
  ASSUME TypeOK, NEW i \in Subflow, NEW a \in Nat, a > highestAck[i] + 1
  PROVE  AfterNewAck(i, a) \subseteq Congestion
  <1> DEFINE c == cc[i]
             w == IF c.inFastRec THEN Min2(c.ssthresh, BytesInFlight(i) + 1) ELSE c.cwnd
  <1>1. /\ c \in Congestion /\ highestAck[i] \in Nat /\ maxSeqNb[i] \in Nat
        /\ c.cwnd \in Nat /\ c.ssthresh \in Nat
    BY DEF TypeOK, Congestion
  <1>2. w \in Int
    BY <1>1 DEF Min2, BytesInFlight
  <1>3. \A o \in Opened(w, c.ssthresh) : o % Wrap \in Nat
    BY <1>1, <1>2, Constants DEF Opened
  <1>4. (c.cwnd - (a - (highestAck[i] + 1)) + 1) % Wrap \in Nat
    BY <1>1, Constants
  <1>5. [c EXCEPT !.cwnd = (@ - (a - (highestAck[i] + 1)) + 1) % Wrap,
                  !.dupAckCount = 0] \in Congestion
    BY <1>1, <1>4 DEF Congestion
  <1>6. \A o \in Opened(w, c.ssthresh) :
          Recovered(c, o) \in Congestion
    BY <1>1, <1>3 DEF Congestion, Recovered
  <1> QED BY <1>5, <1>6 DEF AfterNewAck

LEMMA NewAckType ==
  ASSUME TypeOK, NEW i \in Subflow, NEW a \in Nat, NewAckNewReno(i, a)
  PROVE  AckTypes
  <1> USE DEF TypeOK
  <1>1. a > highestAck[i] + 1 /\ a - 1 \in Nat /\ a # 0 /\ highestAck[i] \in Nat
    BY DEF NewAckNewReno
  <1>2. cc' \in [Subflow -> Congestion]
    BY <1>1, CongestionType DEF NewAckNewReno
  <1>3. dataCh' \in [Subflow -> Seq(Segment)]
    <2>1. CASE UNCHANGED dataCh
      BY <2>1
    <2>2. ASSUME NEW m \in mapDSN[i], dataCh' = [dataCh EXCEPT ![i] = Append(@, m)]
          PROVE  dataCh' \in [Subflow -> Seq(Segment)]
      BY <2>2
    <2> QED BY <2>1, <2>2 DEF NewAckNewReno
  <1>4. TxSeqNumber' \in [Subflow -> Nat \ {0}]
    BY <1>1 DEF NewAckNewReno, Max2
  <1>5. highestAck' \in [Subflow -> Nat]
    BY <1>1 DEF NewAckNewReno
  <1>6. mapDSN' \in [Subflow -> SUBSET Segment]
    BY DEF NewAckNewReno, DiscardUpTo
  <1>7. retx' \in [Subflow -> BOOLEAN]
    BY DEF NewAckNewReno, KeepsTimer
  <1>8. appEvent' \in BOOLEAN /\ UNCHANGED maxSeqNb
    BY DEF NewAckNewReno
  <1>9. loop' \in Loop
    BY ThenSendType DEF NewAckNewReno
  <1> QED BY <1>2, <1>3, <1>4, <1>5, <1>6, <1>7, <1>8, <1>9 DEF AckTypes

LEMMA DupAckType ==
  ASSUME TypeOK, NEW i \in Subflow, NEW a \in Nat, DupAck(i, a)
  PROVE  AckTypes
  <1> USE DEF TypeOK
  <1>1. PICK m \in mapDSN[i] : IF cc[i].dupAckCount + 1 = DupThresh /\ ~cc[i].inFastRec
                               THEN FastRetransmit(i, m) ELSE CountDup(i)
    BY DEF DupAck
  <1>2. /\ m \in Segment /\ m.seq \in Nat /\ maxSeqNb[i] \in Nat /\ highestAck[i] \in Nat
        /\ cc[i] \in Congestion /\ cc[i].cwnd \in Nat /\ cc[i].dupAckCount \in Nat
    BY DEF Segment, Congestion
  <1>3. /\ UNCHANGED <<highestAck, mapDSN, maxSeqNb, appEvent>>
    BY DEF DupAck
  <1>4. CASE FastRetransmit(i, m)
    <2>1. PICK s \in Reduced(i) :
            cc' = [cc EXCEPT ![i] =
                     [cwnd |-> (s + 3) % Wrap, ssthresh |-> s, dupAckCount |-> DupThresh,
                      inFastRec |-> TRUE, recover |-> maxSeqNb[i] + 1]]
      BY <1>4 DEF FastRetransmit
    <2>2. s \in Nat
      BY <1>2 DEF Reduced, Max2, BytesInFlight
    <2>3. (s + 3) % Wrap \in Nat
      BY <2>2, Constants
    <2> DEFINE r == [cwnd |-> (s + 3) % Wrap, ssthresh |-> s, dupAckCount |-> DupThresh,
                     inFastRec |-> TRUE, recover |-> maxSeqNb[i] + 1]
    <2>7. r \in Congestion
      <3>1. maxSeqNb[i] + 1 \in Nat /\ DupThresh \in Nat
        BY <1>2, Constants
      <3> QED BY <2>2, <2>3, <3>1 DEF Congestion
    <2>4. cc' \in [Subflow -> Congestion]
      <3> HIDE DEF r
      <3>1. cc' = [cc EXCEPT ![i] = r]
        BY <2>1 DEF r
      <3>2. cc \in [Subflow -> Congestion]
        OBVIOUS
      <3> HIDE DEF TypeOK
      <3> QED BY <2>7, <3>1, <3>2
    <2>5. /\ dataCh' \in [Subflow -> Seq(Segment)]
          /\ retx' \in [Subflow -> BOOLEAN]
      BY <1>2, <1>4 DEF FastRetransmit
    <2>6. TxSeqNumber' \in [Subflow -> Nat \ {0}]
      <3>1. TxSeqNumber' = [TxSeqNumber EXCEPT ![i] = Max2(@, m.seq + 1)]
        BY <1>4 DEF FastRetransmit
      <3>2. Max2(TxSeqNumber[i], m.seq + 1) \in Nat \ {0}
        BY <1>2 DEF Max2
      <3> QED BY <3>1, <3>2
    <2> QED BY <1>3, <1>4, <2>4, <2>5, <2>6 DEF FastRetransmit, AckTypes
  <1>5. CASE CountDup(i)
    <2> DEFINE n == Min2(cc[i].dupAckCount + 1, DupThresh + 1)
    <2>1. n \in Nat /\ (cc[i].cwnd + 1) % Wrap \in Nat
      <3>1. (cc[i].cwnd + 1) % Wrap \in Nat
        <4>1. cc[i].cwnd + 1 \in Int
          BY <1>2
        <4> QED BY <4>1, WindowWraps
      <3>2. cc[i].dupAckCount + 1 \in Nat /\ DupThresh + 1 \in Nat
        BY <1>2, Constants
      <3> HIDE DEF TypeOK
      <3> QED BY <3>1, <3>2 DEF Min2
    <2>2. /\ [cc[i] EXCEPT !.dupAckCount = n] \in Congestion
          /\ [cc[i] EXCEPT !.dupAckCount = n, !.cwnd = (@ + 1) % Wrap] \in Congestion
      <3> HIDE DEF n
      <3> QED BY <1>2, <2>1 DEF Congestion
    <2>3. \/ cc' = [cc EXCEPT ![i] = [cc[i] EXCEPT !.dupAckCount = n]]
          \/ cc' = [cc EXCEPT ![i] = [cc[i] EXCEPT !.dupAckCount = n, !.cwnd = (@ + 1) % Wrap]]
      BY <1>5 DEF CountDup
    <2>4. cc' \in [Subflow -> Congestion]
      <3> HIDE DEF n
      <3> QED BY <2>2, <2>3
    <2>5. loop' \in Loop
      BY <1>5, ThenSendType DEF CountDup
    <2> QED BY <1>3, <1>5, <2>4, <2>5 DEF CountDup, AckTypes
  <1> QED BY <1>1, <1>4, <1>5

LEMMA ReceivedAckTypeOK ==
  ASSUME TypeOK, NEW i \in Subflow, ReceivedAck(i)
  PROVE  TypeOK'
  <1>1. PICK k \in Arriving(ackCh[i]) :
          /\ NewAckNewReno(i, ackCh[i][k]) \/ DupAck(i, ackCh[i][k]) \/ OldAck(i, ackCh[i][k])
          /\ ackCh' = [ackCh EXCEPT ![i] = DropAt(@, k)]
    BY DEF ReceivedAck
  <1>2. ackCh[i] \in Seq(Nat) /\ k \in 1 .. Len(ackCh[i])
    BY ArrivingIsInFlight DEF TypeOK
  <1>3. ackCh[i][k] \in Nat
    BY <1>2
  <1>4. AckTypes
    <2>1. CASE OldAck(i, ackCh[i][k])
      BY <2>1 DEF OldAck, TypeOK, AckTypes
    <2> QED BY <1>1, <1>3, <2>1, NewAckType, DupAckType
  <1>5. ackCh' \in [Subflow -> Seq(Nat)]
    BY <1>1, <1>2, DropAckType
  <1>6. UNCHANGED <<state, size, joining, sendingBuffer, nextTxSequence,
                    lastUsedsFlowIdx, log, written, receiverVars, lost>>
    BY DEF ReceivedAck
  <1> QED BY <1>4, <1>5, <1>6 DEF TypeOK, AckTypes, receiverVars

LEMMA ReTxTimeoutTypeOK ==
  ASSUME TypeOK, NEW i \in Subflow, ReTxTimeout(i)
  PROVE  TypeOK'
  <1> USE DEF TypeOK
  <1>1. UNCHANGED <<state, size, joining, maxSeqNb, highestAck, mapDSN, sendingBuffer,
                    nextTxSequence, lastUsedsFlowIdx, log, appVars, receiverVars,
                    ackCh, lost>>
    BY DEF ReTxTimeout
  <1>2. retx' \in [Subflow -> BOOLEAN]
    BY DEF ReTxTimeout, TimerAfterTimeout
  <1>3. CASE UNCHANGED <<cc, TxSeqNumber, dataCh>>
    BY <1>1, <1>2, <1>3 DEF appVars, receiverVars
  <1>4. CASE mapDSN[i] # {}
    <2>1. PICK m \in mapDSN[i] :
            /\ dataCh' = [dataCh EXCEPT ![i] = Append(@, m)]
            /\ TxSeqNumber' = [TxSeqNumber EXCEPT ![i] = m.seq + 1]
      BY <1>4 DEF ReTxTimeout
    <2>2. m \in Segment /\ m.seq + 1 \in Nat \ {0}
      BY DEF Segment
    <2>3. dataCh' \in [Subflow -> Seq(Segment)] /\ TxSeqNumber' \in [Subflow -> Nat \ {0}]
      BY <2>1, <2>2
    <2> DEFINE h == Max2(2, BytesInFlight(i) \div 2)
    <2>4. h \in Nat /\ cc[i] \in Congestion
      BY DEF Max2, BytesInFlight
    <2>5. [cc[i] EXCEPT !.inFastRec = FALSE, !.cwnd = 1, !.ssthresh = h] \in Congestion
      <3> HIDE DEF h
      <3> QED BY <2>4 DEF Congestion
    <2>6. cc' = [cc EXCEPT ![i] =
                   [cc[i] EXCEPT !.inFastRec = FALSE, !.cwnd = 1, !.ssthresh = h]]
      BY <1>4 DEF ReTxTimeout
    <2>7. cc' \in [Subflow -> Congestion]
      <3> HIDE DEF h
      <3> QED BY <2>5, <2>6
    <2> QED BY <1>1, <1>2, <2>3, <2>7 DEF appVars, receiverVars
  <1> QED BY <1>3, <1>4 DEF ReTxTimeout

LEMMA ReceivedDataTypeOK ==
  ASSUME TypeOK, NEW i \in Subflow, ReceivedData(i)
  PROVE  TypeOK'
  <1> USE DEF TypeOK
  <1>1. PICK k \in Arriving(dataCh[i]) :
          /\ \/ DeliverData(i, dataCh[i][k]) \/ StoreUnOrderedData(i, dataCh[i][k])
             \/ RejectDuplicate(i, dataCh[i][k])
          /\ dataCh' = [dataCh EXCEPT ![i] = DropAt(@, k)]
    BY DEF ReceivedData
  <1> DEFINE p == dataCh[i][k]
  <1>2. dataCh[i] \in Seq(Segment) /\ k \in 1 .. Len(dataCh[i])
    BY ArrivingIsInFlight
  <1>3. p \in Segment /\ p.seq \in Nat /\ p.dsn \in Nat
    <2>1. p \in Segment
      BY <1>2
    <2> HIDE DEF p
    <2> QED BY <2>1 DEF Segment
  <1>4. dataCh' \in [Subflow -> Seq(Segment)]
    BY <1>1, <1>2, DropDataType
  <1>5. /\ RxSeqNumber' \in [Subflow -> Nat \ {0}]
        /\ nextRxSequence' \in Nat \ {0}
        /\ unOrdered' \subseteq [sf : Subflow, seq : Nat, dsn : Nat]
    <2> HIDE DEF p
    <2>1. CASE DeliverData(i, p)
      <3>1. PICK g \in nextRxSequence + 1 .. MaxData + 1 :
              nextRxSequence' = g /\ unOrdered' = {u \in unOrdered : u.dsn > g}
        BY <2>1 DEF DeliverData
      <3>2. PICK rx \in [Subflow -> 1 .. MaxData + 1] : RxSeqNumber' = rx
        BY <2>1 DEF DeliverData
      <3>3. 1 .. MaxData + 1 \subseteq Nat \ {0}
        BY Constants
      <3>4. RxSeqNumber' \in [Subflow -> Nat \ {0}]
        BY <3>2, <3>3
      <3>5. nextRxSequence' \in Nat \ {0}
        BY <3>1, Constants
      <3> QED BY <3>1, <3>4, <3>5
    <2>2. CASE StoreUnOrderedData(i, p)
      <3>1. [sf |-> i, seq |-> p.seq, dsn |-> p.dsn] \in [sf : Subflow, seq : Nat, dsn : Nat]
        BY <1>3
      <3>2. unOrdered' \subseteq [sf : Subflow, seq : Nat, dsn : Nat]
        BY <2>2, <3>1 DEF StoreUnOrderedData
      <3>3. RxSeqNumber' \in [Subflow -> Nat \ {0}]
        <4>1. \/ RxSeqNumber' = RxSeqNumber
              \/ RxSeqNumber' = [RxSeqNumber EXCEPT ![i] = RxSeqNumber[i] + 1]
              \/ RxSeqNumber' = [RxSeqNumber EXCEPT ![i] = RxSeqNumber[i]]
          BY <2>2 DEF StoreUnOrderedData
        <4>2. RxSeqNumber \in [Subflow -> Nat \ {0}] /\ RxSeqNumber[i] + 1 \in Nat \ {0}
          OBVIOUS
        <4> HIDE DEF TypeOK
        <4> QED BY <4>1, <4>2
      <3> QED BY <2>2, <3>2, <3>3 DEF StoreUnOrderedData
    <2>3. CASE RejectDuplicate(i, p)
      BY <2>3 DEF RejectDuplicate, receiverVars
    <2> QED BY <1>1, <2>1, <2>2, <2>3 DEF p
  <1>6. ackCh' \in [Subflow -> Seq(Nat)]
    <2>1. RxSeqNumber'[i] \in Nat
      BY <1>5
    <2>2. ackCh' = [ackCh EXCEPT ![i] = Append(@, RxSeqNumber'[i])]
      BY DEF ReceivedData, Acknowledge
    <2> QED BY <2>1, <2>2
  <1>7. UNCHANGED <<senderVars, appVars, lost>>
    BY DEF ReceivedData
  <1> HIDE DEF p
  <1> QED BY <1>4, <1>5, <1>6, <1>7 DEF senderVars, appVars

LEMMA LosePacketTypeOK ==
  ASSUME TypeOK, NEW i \in Subflow, LosePacket(i)
  PROVE  TypeOK'
  <1>1. dataCh' \in [Subflow -> Seq(Segment)] /\ ackCh' \in [Subflow -> Seq(Nat)]
    BY DropDataType, DropAckType DEF LosePacket, TypeOK
  <1>2. lost' \in 0 .. MaxLoss
    BY Constants DEF LosePacket, TypeOK
  <1> QED BY <1>1, <1>2 DEF LosePacket, TypeOK, senderVars, appVars, receiverVars

\* The types hold in every reachable state.
THEOREM TypeCorrect == Spec => []TypeOK
  <1>1. Init => TypeOK
    BY InitTypeOK
  <1>2. TypeOK /\ [Next]_vars => TypeOK'
    <2> SUFFICES ASSUME TypeOK, [Next]_vars PROVE TypeOK'
      OBVIOUS
    <2>1. CASE UNCHANGED vars
      BY <2>1 DEF TypeOK, vars, senderVars, appVars, receiverVars, netVars
    <2>2. CASE Application
      BY <2>2, ApplicationTypeOK
    <2>3. CASE Sending
      BY <2>3, SendPendingDataTypeOK, EndSendPendingDataTypeOK, ResendTypeOK DEF Sending
    <2>4. CASE InitiateSubflows
      BY <2>4, JoinTypeOK, Constants
    <2>5. ASSUME NEW i \in Subflow, ProcessSynSent(i) \/ LoseJoin(i)
          PROVE  TypeOK'
      BY <2>5, JoinTypeOK
    <2>6. ASSUME NEW i \in Subflow,
                 ReceivedAck(i) \/ ReTxTimeout(i) \/ ReceivedData(i) \/ LosePacket(i)
          PROVE  TypeOK'
      BY <2>6, ReceivedAckTypeOK, ReTxTimeoutTypeOK, ReceivedDataTypeOK, LosePacketTypeOK
    <2> QED BY <2>1, <2>2, <2>3, <2>4, <2>5, <2>6 DEF Next, Stop
  <1> QED BY <1>1, <1>2, PTL DEF Spec
=============================================================================
