----------------------- MODULE MpTcpTransferProgress -----------------------
(***************************************************************************)
(* The sender does not stop with work left: proofs, for any constants, that *)
(* no subflow with an open window sits idle beside unsent data and, when no *)
(* join is lost, that the simulator runs out of events only when everything *)
(* was delivered and acknowledged.                                         *)
(*                                                                         *)
(* Both need the congestion window to be open when nothing is in flight.    *)
(* The window is an unsigned integer that grows with every ACK and is never *)
(* capped, so this holds of runs too short to bring it back to zero.       *)
(***************************************************************************)
EXTENDS MpTcpTransferRefinement

\* No run of MaxData segments brings a window to Wrap: a new ACK opens it by
\* one, and after a recovery it starts from the flight that was left.
WindowDoesNotWrap == 2 * MaxData + 2 < Wrap

\* Outside fast recovery there is a window, which counts what was acknowledged;
\* a recovery keeps the two segments it will go on with.
WindowOpens ==
  \A i \in Subflow :
    /\ cc[i].inFastRec => cc[i].ssthresh >= 2
    /\ ~cc[i].inFastRec => cc[i].cwnd \in 1 .. highestAck[i] + maxSeqNb[i] + 2

\* A subflow has not sent more than the connection cut.
SentIsCut == \A i \in Subflow : maxSeqNb[i] <= nextTxSequence - 1

\* Between two runs of SendPendingData no subflow is idle beside unsent data;
\* the loop that only sends again runs on an empty buffer.
SchedulerRan ==
  /\ loop.pc = "resend" => sendingBuffer = 0
  /\ (/\ loop.pc \in {"idle", "app"} /\ sendingBuffer > 0
      /\ \A i \in 0 .. size - 1 : state[i] = "ESTABLISHED")
     => \A i \in 0 .. size - 1 : mapDSN[i] # {}

---------------------------------------------------------------------------
(* The segments cut.                                                       *)

LEMMA SegmentIsCut ==
  ASSUME TypeOK, TransferInv, NEW i \in Subflow, SendNew(i)
  PROVE  /\ TxSeqNumber[i] = maxSeqNb[i] + 1
         /\ maxSeqNb' = [maxSeqNb EXCEPT ![i] = maxSeqNb[i] + 1]
         /\ log' = [log EXCEPT ![i] = Append(@, nextTxSequence)]
         /\ nextTxSequence' = nextTxSequence + 1
  <1>1. TxSeqNumber[i] \in Nat /\ maxSeqNb[i] \in Nat /\ TxSeqNumber[i] <= maxSeqNb[i] + 1
    BY SenderNumbers
  <1>2. ~(maxSeqNb[i] > TxSeqNumber[i] - 1)
    BY DEF SendNew, Recovering
  <1>3. TxSeqNumber[i] = maxSeqNb[i] + 1
    BY <1>1, <1>2
  <1>4. Max2(maxSeqNb[i], TxSeqNumber[i]) = maxSeqNb[i] + 1
    BY <1>1, <1>3 DEF Max2
  <1> QED BY <1>3, <1>4 DEF SendNew

\* A step that cuts no segment leaves the counters and the log alone.
LEMMA CutOrNot ==
  ASSUME TypeOK, [Next]_vars
  PROVE  \/ \E i \in Subflow : /\ SendNew(i) /\ loop.pc = "send" /\ sendingBuffer > 0
                               /\ UNCHANGED <<cc, highestAck, written, state, size, appEvent>>
                               /\ loop' = [loop EXCEPT !.sentAny = TRUE]
         \/ UNCHANGED <<maxSeqNb, nextTxSequence, log>>
  <1>1. CASE SendPendingData
    <2>1. PICK n \in 0 .. size - 1 :
            \/ SendNew(n) /\ loop' = [loop EXCEPT !.sentAny = TRUE]
            \/ SendOld(n)
      BY <1>1 DEF SendPendingData
    <2>2. n \in Subflow
      BY ScanType
    <2> QED BY <1>1, <2>1, <2>2 DEF SendPendingData, SendOld
  <1>2. CASE Resend
    BY <1>2 DEF Resend, SendOld
  <1>3. ASSUME NEW i \in Subflow, ReceivedAck(i)
        PROVE  UNCHANGED <<maxSeqNb, nextTxSequence, log>>
    BY <1>3 DEF ReceivedAck, NewAckNewReno, DupAck, OldAck
  <1>4. CASE \/ UNCHANGED vars \/ Application \/ EndSendPendingData \/ InitiateSubflows
             \/ \E i \in Subflow : \/ ProcessSynSent(i) \/ LoseJoin(i) \/ ReTxTimeout(i)
                                   \/ ReceivedData(i) \/ LosePacket(i)
    BY <1>4
    DEF vars, senderVars, Application, FillBuffer, EndSendData, EndSendPendingData,
        InitiateSubflows, ProcessSynSent, LoseJoin, ReTxTimeout, ReceivedData, LosePacket
  <1> QED BY <1>1, <1>2, <1>3, <1>4 DEF Next, Stop, Sending

LEMMA NextSentIsCut ==
  ASSUME TypeOK, TransferInv, SentIsCut, [Next]_vars
  PROVE  SentIsCut'
  <1> SUFFICES ASSUME NEW j \in Subflow
               PROVE  maxSeqNb'[j] <= nextTxSequence' - 1
    BY DEF SentIsCut
  <1>1. /\ maxSeqNb[j] <= nextTxSequence - 1 /\ nextTxSequence \in Nat
        /\ maxSeqNb \in [Subflow -> Nat]
    BY DEF SentIsCut, TypeOK
  <1>2. ASSUME NEW i \in Subflow, SendNew(i)
        PROVE  maxSeqNb'[j] <= nextTxSequence' - 1
    <2>1. /\ maxSeqNb'[j] = IF j = i THEN maxSeqNb[j] + 1 ELSE maxSeqNb[j]
          /\ nextTxSequence' = nextTxSequence + 1
      BY <1>1, <1>2, SegmentIsCut
    <2> QED BY <1>1, <2>1
  <1>3. CASE UNCHANGED <<maxSeqNb, nextTxSequence, log>>
    BY <1>1, <1>3
  <1> QED BY <1>2, <1>3, CutOrNot

\* What a run can acknowledge on a subflow.
LEMMA AtMostMaxData ==
  ASSUME TypeOK, TransferInv, SentIsCut, BufferCounts, NEW i \in Subflow
  PROVE  /\ highestAck[i] \in Nat /\ maxSeqNb[i] \in Nat
         /\ highestAck[i] <= maxSeqNb[i] /\ maxSeqNb[i] <= MaxData
  <1>1. /\ highestAck[i] \in Nat /\ maxSeqNb[i] \in Nat
        /\ highestAck[i] <= maxSeqNb[i]
    BY SenderNumbers
  <1>2. /\ written \in 0 .. MaxData /\ sendingBuffer \in Nat /\ nextTxSequence \in Nat
    BY Constants DEF TypeOK
  <1>3. nextTxSequence - 1 <= MaxData
    BY <1>2, Constants DEF BufferCounts
  <1>4. maxSeqNb[i] <= nextTxSequence - 1
    BY DEF SentIsCut
  <1> QED BY <1>1, <1>2, <1>3, <1>4, Constants

---------------------------------------------------------------------------
(* The windows.                                                            *)

\* Subflow i has its window, with c for its congestion state, h acknowledged
\* and m sent.
WindowOpen(c, h, m) ==
  /\ c.inFastRec => c.ssthresh >= 2
  /\ ~c.inFastRec => c.cwnd \in 1 .. h + m + 2

LEMMA NoWrap ==
  ASSUME NEW o \in Nat, o < Wrap
  PROVE  o % Wrap = o
  BY Constants

\* A new ACK: the window grows by a segment at most and stays below Wrap.
LEMMA NewAckOpens ==
  ASSUME WindowDoesNotWrap, TypeOK, TransferInv, RecoveryPointOutstanding, SentIsCut,
         BufferCounts, NEW i \in Subflow, NEW a \in Nat, a > highestAck[i] + 1,
         a <= maxSeqNb[i] + 1, WindowOpen(cc[i], highestAck[i], maxSeqNb[i]),
         NEW c \in AfterNewAck(i, a)
  PROVE  WindowOpen(c, a - 1, maxSeqNb[i])
  <1> DEFINE w == IF cc[i].inFastRec THEN Min2(cc[i].ssthresh, BytesInFlight(i) + 1)
                  ELSE cc[i].cwnd
  <1>1. /\ cc[i] \in Congestion /\ cc[i].cwnd \in Nat /\ cc[i].ssthresh \in Nat
        /\ cc[i].inFastRec \in BOOLEAN
    BY DEF TypeOK, Congestion
  <1>2. /\ highestAck[i] \in Nat /\ maxSeqNb[i] \in Nat
        /\ highestAck[i] <= maxSeqNb[i] /\ maxSeqNb[i] <= MaxData
    BY AtMostMaxData
  <1>3. CASE cc[i].inFastRec /\ a < cc[i].recover
    <2> DEFINE v == (cc[i].cwnd - (a - (highestAck[i] + 1)) + 1) % Wrap
    <2>1. c = [cc[i] EXCEPT !.cwnd = v, !.dupAckCount = 0]
      BY <1>3 DEF AfterNewAck
    <2> HIDE DEF v
    <2>2. c.inFastRec = cc[i].inFastRec /\ c.ssthresh = cc[i].ssthresh
      BY <1>1, <2>1 DEF Congestion
    <2> QED BY <1>3, <2>2 DEF WindowOpen
  <1>4. CASE ~(cc[i].inFastRec /\ a < cc[i].recover)
    <2>1. PICK o \in Opened(w, cc[i].ssthresh) : c = Recovered(cc[i], o)
      BY <1>4 DEF AfterNewAck
    <2>2. w \in 1 .. highestAck[i] + maxSeqNb[i] + 2
      <3>1. CASE cc[i].inFastRec
        <4>1. cc[i].ssthresh >= 2 /\ BytesInFlight(i) + 1 \in 1 .. maxSeqNb[i] + 1
          BY <1>1, <1>2, <3>1 DEF WindowOpen, BytesInFlight
        <4> QED BY <1>1, <1>2, <3>1, <4>1 DEF Min2
      <3>2. CASE ~cc[i].inFastRec
        BY <3>2 DEF WindowOpen
      <3> QED BY <3>1, <3>2
    <2> HIDE DEF w
    <2>3. o \in w .. w + 1
      BY <2>2, <1>2 DEF Opened
    <2>4. o \in Nat /\ 1 <= o /\ o <= (a - 1) + maxSeqNb[i] + 2
      BY <1>2, <2>2, <2>3
    <2>5. o < Wrap
      BY <1>2, <2>4, Constants DEF WindowDoesNotWrap
    <2>6. c.cwnd = o % Wrap /\ ~c.inFastRec
      BY <1>1, <2>1 DEF Recovered, Congestion
    <2>7. c.cwnd = o
      BY <2>4, <2>5, <2>6, NoWrap
    <2> QED BY <1>2, <2>4, <2>6, <2>7 DEF WindowOpen
  <1> QED BY <1>3, <1>4

\* More data sent, or the same, leaves the window open.
LEMMA StaysOpen ==
  ASSUME NEW c, NEW h \in Nat, NEW m \in Nat, NEW n \in Nat, m <= n, WindowOpen(c, h, m)
  PROVE  WindowOpen(c, h, n)
  <1>1. CASE ~c.inFastRec
    <2>1. c.cwnd \in 1 .. h + m + 2
      BY <1>1 DEF WindowOpen
    <2> QED BY <1>1, <2>1 DEF WindowOpen
  <1>2. CASE c.inFastRec
    BY <1>2 DEF WindowOpen
  <1> QED BY <1>1, <1>2

LEMMA DupAckOpens ==
  ASSUME TypeOK, NEW i \in Subflow, NEW a, DupAck(i, a), NEW j \in Subflow,
         WindowOpen(cc[j], highestAck[j], maxSeqNb[j])
  PROVE  WindowOpen(cc'[j], highestAck[j], maxSeqNb[j])
  <1>1. cc \in [Subflow -> Congestion] /\ cc[j] \in Congestion /\ cc[j].cwnd \in Nat
    BY DEF TypeOK, Congestion
  <1>2. PICK m \in mapDSN[i] : FastRetransmit(i, m) \/ CountDup(i)
    BY DEF DupAck
  <1>3. CASE FastRetransmit(i, m)
    <2>1. PICK s \in Reduced(i) :
            cc' = [cc EXCEPT ![i] =
                     [cwnd |-> (s + 3) % Wrap, ssthresh |-> s, dupAckCount |-> DupThresh,
                      inFastRec |-> TRUE, recover |-> maxSeqNb[i] + 1]]
      BY <1>3 DEF FastRetransmit
    <2>2. s >= 2
      <3>1. cc[i].cwnd \in Nat /\ BytesInFlight(i) \div 2 \in Int
        <4>1. cc[i].cwnd \in Nat /\ maxSeqNb[i] \in Nat /\ highestAck[i] \in Nat
          BY DEF TypeOK, Congestion
        <4> QED BY <4>1 DEF BytesInFlight
      <3>2. CASE HalfFlight
        <4> DEFINE b == BytesInFlight(i) \div 2
        <4>1. s = Max2(2, b)
          BY <3>2 DEF Reduced
        <4>2. b \in Int
          BY <3>1
        <4> HIDE DEF b
        <4> QED BY <4>1, <4>2 DEF Max2
      <3>3. CASE ~HalfFlight
        BY <3>1, <3>3 DEF Reduced, Max2
      <3> QED BY <3>2, <3>3
    <2>3. CASE j = i
      BY <1>1, <2>1, <2>2, <2>3 DEF WindowOpen
    <2>4. CASE j # i
      BY <1>1, <2>1, <2>4
    <2> QED BY <2>3, <2>4
  <1>4. CASE CountDup(i)
    <2> DEFINE n == Min2(cc[i].dupAckCount + 1, DupThresh + 1)
    <2>1. IF cc[i].inFastRec
          THEN cc' = [cc EXCEPT ![i] = [cc[i] EXCEPT !.dupAckCount = n,
                                                     !.cwnd = (@ + 1) % Wrap]]
          ELSE cc' = [cc EXCEPT ![i] = [cc[i] EXCEPT !.dupAckCount = n]]
      BY <1>4 DEF CountDup
    <2> HIDE DEF n
    <2>2. CASE j # i
      BY <1>1, <2>1, <2>2
    <2>3. CASE j = i /\ cc[i].inFastRec
      <3>1. cc'[j].inFastRec = cc[j].inFastRec /\ cc'[j].ssthresh = cc[j].ssthresh
        BY <1>1, <2>1, <2>3 DEF Congestion
      <3> QED BY <2>3, <3>1 DEF WindowOpen
    <2>4. CASE j = i /\ ~cc[i].inFastRec
      <3>1. cc'[j].inFastRec = cc[j].inFastRec /\ cc'[j].cwnd = cc[j].cwnd
        BY <1>1, <2>1, <2>4 DEF Congestion
      <3> QED BY <2>4, <3>1 DEF WindowOpen
    <2> QED BY <2>2, <2>3, <2>4
  <1> QED BY <1>2, <1>3, <1>4

LEMMA TimeoutOpens ==
  ASSUME TypeOK, NEW i \in Subflow, ReTxTimeout(i), NEW j \in Subflow,
         highestAck[j] \in Nat, maxSeqNb[j] \in Nat,
         WindowOpen(cc[j], highestAck[j], maxSeqNb[j])
  PROVE  WindowOpen(cc'[j], highestAck[j], maxSeqNb[j])
  <1> DEFINE h == Max2(2, BytesInFlight(i) \div 2)
  <1>1. \/ UNCHANGED cc
        \/ cc' = [cc EXCEPT ![i] =
                    [cc[i] EXCEPT !.inFastRec = FALSE, !.cwnd = 1, !.ssthresh = h]]
    BY DEF ReTxTimeout
  <1> HIDE DEF h
  <1>2. cc \in [Subflow -> Congestion] /\ cc[j] \in Congestion
    BY DEF TypeOK
  <1>3. CASE j = i /\ ~UNCHANGED cc
    <2>1. cc'[j].cwnd = 1 /\ ~cc'[j].inFastRec
      BY <1>1, <1>2, <1>3 DEF Congestion
    <2> QED BY <2>1 DEF WindowOpen
  <1>4. CASE j # i \/ UNCHANGED cc
    BY <1>1, <1>2, <1>4
  <1> QED BY <1>3, <1>4

LEMMA NextWindowOpens ==
  ASSUME WindowDoesNotWrap, TypeOK, TypeOK', TransferInv, RecoveryPointOutstanding,
         SentIsCut, BufferCounts, WindowOpens, [Next]_vars
  PROVE  WindowOpens'
  <1> SUFFICES ASSUME NEW j \in Subflow
               PROVE  WindowOpen(cc'[j], highestAck'[j], maxSeqNb'[j])
    BY DEF WindowOpens, WindowOpen
  <1>1. /\ WindowOpen(cc[j], highestAck[j], maxSeqNb[j])
        /\ highestAck[j] \in Nat /\ maxSeqNb[j] \in Nat
        /\ highestAck \in [Subflow -> Nat] /\ maxSeqNb \in [Subflow -> Nat]
        /\ cc \in [Subflow -> Congestion]
    BY DEF WindowOpens, WindowOpen, TypeOK
  <1>2. CASE UNCHANGED <<cc, highestAck, maxSeqNb>>
    BY <1>1, <1>2
  <1>3. ASSUME NEW i \in Subflow, SendNew(i), UNCHANGED <<cc, highestAck>>
        PROVE  WindowOpen(cc'[j], highestAck'[j], maxSeqNb'[j])
    <2>1. maxSeqNb'[j] = IF j = i THEN maxSeqNb[j] + 1 ELSE maxSeqNb[j]
      BY <1>1, <1>3, SegmentIsCut
    <2>2. maxSeqNb'[j] \in Nat /\ maxSeqNb[j] <= maxSeqNb'[j]
      BY <1>1, <2>1
    <2>3. WindowOpen(cc[j], highestAck[j], maxSeqNb'[j])
      BY <1>1, <2>2, StaysOpen
    <2> QED BY <1>3, <2>3
  <1>4. ASSUME NEW i \in Subflow, ReceivedAck(i)
        PROVE  WindowOpen(cc'[j], highestAck'[j], maxSeqNb'[j])
    <2>1. PICK k \in Arriving(ackCh[i]) :
            \/ NewAckNewReno(i, ackCh[i][k]) \/ DupAck(i, ackCh[i][k])
            \/ OldAck(i, ackCh[i][k])
      BY <1>4 DEF ReceivedAck
    <2> DEFINE a == ackCh[i][k]
    <2>2. ackCh[i] \in Seq(Nat) /\ k \in 1 .. Len(ackCh[i])
      BY ArrivingIsInFlight DEF TypeOK
    <2>3. a \in Nat /\ a <= RxSeqNumber[i]
      BY <2>2 DEF TransferInv, SequenceNumbersInStep
    <2>4. a <= maxSeqNb[i] + 1
      BY <2>3, SenderNumbers
    <2>5. CASE NewAckNewReno(i, a)
      <3>1. PICK c \in AfterNewAck(i, a) : cc' = [cc EXCEPT ![i] = c]
        BY <2>5 DEF NewAckNewReno
      <3>2. /\ highestAck' = [highestAck EXCEPT ![i] = a - 1] /\ UNCHANGED maxSeqNb
            /\ a > highestAck[i] + 1
        BY <2>5 DEF NewAckNewReno
      <3> HIDE DEF a
      <3>3. CASE j # i
        BY <1>1, <3>1, <3>2, <3>3
      <3>4. CASE j = i
        <4>1. cc'[j] = c /\ highestAck'[j] = a - 1 /\ maxSeqNb'[j] = maxSeqNb[i]
          BY <1>1, <3>1, <3>2, <3>4
        <4>2. WindowOpen(c, a - 1, maxSeqNb[i])
          BY <1>1, <2>3, <2>4, <3>2, <3>4, NewAckOpens
        <4> QED BY <4>1, <4>2
      <3> QED BY <3>3, <3>4
    <2>6. CASE DupAck(i, a)
      <3>1. UNCHANGED <<highestAck, maxSeqNb>>
        BY <2>6 DEF DupAck
      <3> QED BY <1>1, <2>6, <3>1, DupAckOpens
    <2>7. CASE OldAck(i, a)
      BY <1>2, <2>7 DEF OldAck
    <2> QED BY <2>1, <2>5, <2>6, <2>7
  <1>5. ASSUME NEW i \in Subflow, ReTxTimeout(i)
        PROVE  WindowOpen(cc'[j], highestAck'[j], maxSeqNb'[j])
    <2>1. UNCHANGED <<highestAck, maxSeqNb>>
      BY <1>5 DEF ReTxTimeout
    <2> QED BY <1>1, <1>5, <2>1, TimeoutOpens
  <1>6. CASE SendPendingData
    <2>1. PICK n \in 0 .. size - 1 : SendNew(n) \/ SendOld(n)
      BY <1>6 DEF SendPendingData
    <2>2. n \in Subflow /\ UNCHANGED <<cc, highestAck>>
      BY <1>6, ScanType DEF SendPendingData
    <2> QED BY <1>2, <1>3, <2>1, <2>2 DEF SendOld
  <1>7. CASE Resend
    BY <1>2, <1>7 DEF Resend, SendOld
  <1>8. CASE \/ UNCHANGED vars \/ Application \/ EndSendPendingData \/ InitiateSubflows
             \/ \E i \in Subflow : \/ ProcessSynSent(i) \/ LoseJoin(i)
                                   \/ ReceivedData(i) \/ LosePacket(i)
    BY <1>2, <1>8
    DEF vars, senderVars, Application, FillBuffer, EndSendData, EndSendPendingData,
        InitiateSubflows, ProcessSynSent, LoseJoin, ReceivedData, LosePacket
  <1> QED BY <1>4, <1>5, <1>6, <1>7, <1>8 DEF Next, Stop, Sending

---------------------------------------------------------------------------
(* The scheduler.                                                          *)

\* With nothing in flight a subflow may send.
LEMMA EmptyFlightMaySend ==
  ASSUME TypeOK, TransferInv, RecoveryPointOutstanding, WindowOpens,
         NEW i \in Subflow, mapDSN[i] = {}
  PROVE  AvailableWindow(i) > 0
  <1>1. /\ highestAck[i] \in Nat /\ maxSeqNb[i] \in Nat
        /\ TxSeqNumber[i] \in highestAck[i] + 1 .. maxSeqNb[i] + 1
        /\ highestAck[i] + 1 .. maxSeqNb[i] = {}
    BY SenderNumbers
  <1>2. maxSeqNb[i] = highestAck[i] /\ TxSeqNumber[i] = highestAck[i] + 1
    <2>1. ~(highestAck[i] + 1 <= maxSeqNb[i])
      BY <1>1
    <2> QED BY <1>1, <2>1
  <1>3. cc[i].cwnd \in Nat /\ cc[i].recover \in Nat /\ cc[i].inFastRec \in BOOLEAN
    BY DEF TypeOK, Congestion
  <1>4. ~cc[i].inFastRec
    BY <1>1, <1>2, <1>3 DEF RecoveryPointOutstanding
  <1>5. cc[i].cwnd \in 1 .. highestAck[i] + maxSeqNb[i] + 2
    BY <1>4 DEF WindowOpens
  <1>6. Min2(RecvWnd, cc[i].cwnd) \in Nat /\ Min2(RecvWnd, cc[i].cwnd) >= 1
    BY <1>3, <1>5, Constants DEF Min2
  <1>7. TxSeqNumber[i] - (highestAck[i] + 1) = 0
    BY <1>1, <1>2
  <1> QED BY <1>6, <1>7 DEF AvailableWindow

LEMMA EndSendRan ==
  ASSUME TypeOK, TransferInv, RecoveryPointOutstanding, WindowOpens, EndSendPendingData
  PROVE  SchedulerRan'
  <1>1. UNCHANGED <<sendingBuffer, state, size, mapDSN>> /\ loop' = LeaveSend
    BY DEF EndSendPendingData
  <1>2. ASSUME sendingBuffer > 0, \A k \in 0 .. size - 1 : state[k] = "ESTABLISHED",
               NEW i \in 0 .. size - 1, mapDSN[i] = {}
        PROVE  FALSE
    <2>1. StopsScan(i)
      BY <1>2, EmptyFlightMaySend, ScanType DEF StopsScan
    <2>2. ~(sendingBuffer = 0)
      BY <1>2 DEF TypeOK
    <2>3. \E k \in 0 .. size - 1 : state[k] # "ESTABLISHED"
      BY <2>1, <2>2 DEF EndSendPendingData
    <2> QED BY <1>2, <2>3
  <1>3. loop'.pc # "resend"
    BY <1>1 DEF LeaveSend
  <1> QED BY <1>1, <1>2, <1>3 DEF SchedulerRan

\* Handlers that run the scheduler, and steps that neither give an idle client
\* something to send nor empty a flight.
LEMMA SchedulerStarts ==
  ASSUME TypeOK, NEW i, NEW b, loop' = EnterSend(sendingBuffer, i, b), UNCHANGED sendingBuffer
  PROVE  SchedulerRan'
  <1>1. sendingBuffer \in Nat
    BY Constants DEF TypeOK
  <1>2. loop'.pc = IF sendingBuffer = 0 THEN "resend" ELSE "send"
    BY DEF EnterSend
  <1> QED BY <1>1, <1>2 DEF SchedulerRan

LEMMA NothingToRun ==
  ASSUME TypeOK, SchedulerRan, UNCHANGED <<sendingBuffer, state, size, mapDSN>>,
         \/ UNCHANGED loop
         \/ loop.pc \in {"app", "resend"} /\ loop'.pc \in {"idle", "app"}
         \/ loop.pc = "idle" /\ loop'.pc = "idle"
  PROVE  SchedulerRan'
  <1>1. sendingBuffer \in Nat
    BY Constants DEF TypeOK
  <1>2. CASE loop.pc = "resend" /\ loop'.pc \in {"idle", "app"}
    BY <1>1, <1>2 DEF SchedulerRan
  <1>3. CASE loop.pc \in {"idle", "app"} /\ loop'.pc \in {"idle", "app"}
    BY <1>3 DEF SchedulerRan
  <1>4. CASE UNCHANGED loop
    BY <1>4 DEF SchedulerRan
  <1> QED BY <1>2, <1>3, <1>4

LEMMA FillBufferRuns ==
  ASSUME TypeOK, FillBuffer
  PROVE  \E n \in Nat \ {0} : /\ sendingBuffer' = sendingBuffer + n
                              /\ written' = written + n
                              /\ loop' = EnterSend(sendingBuffer + n, 0, TRUE)
                              /\ loop'.pc = "send" /\ loop'.inApp
  <1> DEFINE n == Min2(SendSize, Min2(BufSize - sendingBuffer, MaxData - written))
  <1>1. sendingBuffer \in Nat /\ written \in Nat
    BY Constants DEF TypeOK
  <1>2. sendingBuffer < BufSize /\ written < MaxData
    BY DEF FillBuffer, CanWrite
  <1>3. n \in Nat \ {0}
    BY <1>1, <1>2, Constants DEF Min2
  <1>4. /\ sendingBuffer' = sendingBuffer + n /\ written' = written + n
        /\ loop' = EnterSend(sendingBuffer + n, 0, TRUE)
    BY DEF FillBuffer
  <1> HIDE DEF n
  <1>5. sendingBuffer + n # 0
    BY <1>1, <1>3
  <1>6. loop'.pc = "send" /\ loop'.inApp
    BY <1>4, <1>5 DEF EnterSend
  <1> QED BY <1>3, <1>4, <1>6

LEMMA NextSchedulerRan ==
  ASSUME TypeOK, TransferInv, RecoveryPointOutstanding, WindowOpens, SchedulerRan, [Next]_vars
  PROVE  SchedulerRan'
  <1>1. loop \in Loop
    BY DEF TypeOK
  <1>2. CASE SendPendingData
    <2>1. loop'.pc = "send"
      BY <1>1, <1>2 DEF SendPendingData, Loop
    <2> QED BY <2>1 DEF SchedulerRan
  <1>3. CASE EndSendPendingData
    BY <1>3, EndSendRan
  <1>4. CASE Resend
    <2>1. UNCHANGED <<sendingBuffer, state, size, mapDSN>>
      BY <1>4 DEF Resend, SendOld
    <2>2. \/ UNCHANGED loop
          \/ loop.pc = "resend" /\ loop'.pc \in {"idle", "app"}
      BY <1>4 DEF Resend, LeaveSend
    <2> QED BY <2>1, <2>2, NothingToRun
  <1>5. CASE FillBuffer
    BY <1>5, FillBufferRuns DEF SchedulerRan
  <1>6. CASE EndSendData
    <2>1. /\ UNCHANGED <<sendingBuffer, state, size, mapDSN>>
          /\ loop.pc \in {"idle", "app"} /\ loop'.pc = "idle"
      BY <1>6 DEF EndSendData, InSendData, Idle, senderVars
    <2> QED BY <2>1, NothingToRun
  <1>7. CASE InitiateSubflows
    <2>1. /\ size < NSub /\ size' = NSub /\ loop.pc = "idle" /\ UNCHANGED loop
          /\ state' = [i \in Subflow |-> IF i < size THEN state[i] ELSE "SYN_SENT"]
      BY <1>7 DEF InitiateSubflows, appVars
    <2>2. /\ size \in Nat /\ size \in 0 .. size' - 1 /\ size \in Subflow
      BY <2>1, Constants DEF TypeOK, Subflow
    <2>3. state'[size] # "ESTABLISHED"
      BY <2>1, <2>2
    <2> QED BY <2>1, <2>2, <2>3 DEF SchedulerRan
  <1>8. ASSUME NEW i \in Subflow, ProcessSynSent(i)
        PROVE  SchedulerRan'
    <2>1. loop' = EnterSend(sendingBuffer, i, FALSE) /\ UNCHANGED sendingBuffer
      BY <1>8 DEF ProcessSynSent, ThenSend
    <2> QED BY <2>1, SchedulerStarts
  <1>9. ASSUME NEW i \in Subflow, ReceivedAck(i)
        PROVE  SchedulerRan'
    <2>1. PICK a : NewAckNewReno(i, a) \/ DupAck(i, a) \/ OldAck(i, a)
      BY <1>9 DEF ReceivedAck
    <2>2. UNCHANGED <<sendingBuffer, state, size>>
      BY <1>9 DEF ReceivedAck
    <2>3. CASE loop' = ThenSend(i)
      BY <2>2, <2>3, SchedulerStarts DEF ThenSend
    <2>4. CASE UNCHANGED <<loop, mapDSN>>
      BY <2>2, <2>4, NothingToRun
    <2> QED BY <2>1, <2>3, <2>4
         DEF NewAckNewReno, DupAck, OldAck, FastRetransmit, CountDup
  <1>10. CASE \/ UNCHANGED vars
              \/ \E i \in Subflow : LoseJoin(i) \/ ReTxTimeout(i) \/ ReceivedData(i)
                                    \/ LosePacket(i)
    <2>1. UNCHANGED <<sendingBuffer, state, size, mapDSN, loop>>
      BY <1>10 DEF vars, senderVars, appVars, LoseJoin, ReTxTimeout, ReceivedData, LosePacket
    <2> QED BY <2>1, NothingToRun
  <1> QED BY <1>2, <1>3, <1>4, <1>5, <1>6, <1>7, <1>8, <1>9, <1>10
      DEF Next, Stop, Application, Sending

LEMMA InitProgress == Init => WindowOpens /\ SentIsCut /\ SchedulerRan
  <1> SUFFICES ASSUME Init PROVE WindowOpens /\ SentIsCut /\ SchedulerRan
    OBVIOUS
  <1>1. WindowOpens /\ SentIsCut
    BY DEF Init, WindowOpens, SentIsCut
  <1>2. SchedulerRan
    BY DEF Init, SchedulerRan, Idle
  <1> QED BY <1>1, <1>2

LEMMA CountsHold == Spec => [](BufferCounts /\ SentIsCut)
  <1>1. Init => BufferCounts /\ SentIsCut
    BY InitCounts, InitProgress
  <1>2. TypeOK /\ TransferInv /\ BufferCounts /\ SentIsCut /\ [Next]_vars
        => BufferCounts' /\ SentIsCut'
    BY NextCounts, NextSentIsCut
  <1> QED BY <1>1, <1>2, TypeCorrect, TransferCorrect, PTL DEF Spec

\* Every handler that can open a window runs the scheduler, and the scheduler
\* looks at every subflow: as long as the unsigned window does not wrap to
\* zero, no subflow with nothing in flight sits beside unsent data
\* (SendPendingData, AvailableWindow, ReceivedAck, ProcessSynSent).
THEOREM NoSubflowIdles ==
  ASSUME WindowDoesNotWrap
  PROVE  Spec => []NoIdleSubflow
  <1>1. Init => WindowOpens /\ SchedulerRan
    BY InitProgress
  <1>2. /\ TypeOK /\ TypeOK' /\ TransferInv /\ RecoveryPointOutstanding /\ SentIsCut
        /\ BufferCounts /\ WindowOpens /\ SchedulerRan /\ [Next]_vars
        => WindowOpens' /\ SchedulerRan'
    BY NextWindowOpens, NextSchedulerRan
  <1>3. SchedulerRan => NoIdleSubflow
    BY DEF SchedulerRan, NoIdleSubflow
  <1> QED BY <1>1, <1>2, <1>3, TypeCorrect, TransferCorrect, RecoverySafe, CountsHold, PTL
      DEF Spec

---------------------------------------------------------------------------
(* The application.                                                        *)

\* The application has an event, has written all, or waits for room in a full
\* buffer, whose next new segment or ACK wakes it.
Awake == appEvent \/ written >= MaxData \/ sendingBuffer >= BufSize

ApplicationWaits ==
  /\ loop.pc = "idle" => Awake
  /\ loop.pc = "resend" => Awake /\ sendingBuffer = 0 /\ ~loop.inApp
  /\ loop.pc = "send" => Awake \/ loop.inApp \/ loop.sentAny

\* Without a lost join a subflow is established or its SYN+ACK is on its way.
JoinsArrive ==
  /\ size < NSub => joining = {}
  /\ \A i \in Subflow : i < size /\ i \notin joining => state[i] = "ESTABLISHED"

\* Every data number was given to some subflow.
AllAreGiven ==
  \A d \in 1 .. nextTxSequence - 1 :
    \E i \in Subflow : \E s \in 1 .. Len(log[i]) : log[i][s] = d

LEMMA InitDone == Init => ApplicationWaits /\ JoinsArrive /\ AllAreGiven
  <1> SUFFICES ASSUME Init PROVE ApplicationWaits /\ JoinsArrive /\ AllAreGiven
    OBVIOUS
  <1>1. ApplicationWaits
    BY DEF Init, ApplicationWaits, Awake, Idle
  <1>2. JoinsArrive
    BY DEF Init, JoinsArrive, Subflow
  <1>3. 1 .. nextTxSequence - 1 = {}
    BY DEF Init
  <1>4. AllAreGiven
    BY <1>3 DEF AllAreGiven
  <1> QED BY <1>1, <1>2, <1>4

\* SendPendingData starts with the application as it was, or woken.
LEMMA WaitsWhileSending ==
  ASSUME TypeOK, Awake, NEW i, UNCHANGED <<sendingBuffer, written>>,
         appEvent => appEvent', loop' = EnterSend(sendingBuffer, i, FALSE)
  PROVE  ApplicationWaits'
  <1>1. Awake'
    BY DEF Awake
  <1>2. loop'.pc = (IF sendingBuffer = 0 THEN "resend" ELSE "send") /\ ~loop'.inApp
    BY DEF EnterSend
  <1> QED BY <1>1, <1>2 DEF ApplicationWaits

LEMMA WaitsOn ==
  ASSUME ApplicationWaits, UNCHANGED <<sendingBuffer, written, appEvent, loop>>
  PROVE  ApplicationWaits'
  BY DEF ApplicationWaits, Awake

LEMMA NextApplicationWaits ==
  ASSUME TypeOK, ApplicationWaits, [Next]_vars
  PROVE  ApplicationWaits'
  <1>0. /\ loop \in Loop /\ appEvent \in BOOLEAN /\ sendingBuffer \in Nat /\ written \in Nat
        /\ sendingBuffer <= BufSize /\ written <= MaxData /\ BufSize \in Nat \ {0}
        /\ MaxData \in Nat
    BY Constants DEF TypeOK
  <1>1. CASE SendPendingData
    <2>1. CASE UNCHANGED <<loop, sendingBuffer>>
      BY <1>1, <2>1, WaitsOn DEF SendPendingData
    <2>2. CASE loop' = [loop EXCEPT !.sentAny = TRUE]
      <3>1. loop'.pc = "send" /\ loop'.sentAny
        BY <1>0, <1>1, <2>2 DEF SendPendingData, Loop
      <3> QED BY <3>1 DEF ApplicationWaits
    <2> QED BY <1>1, <2>1, <2>2 DEF SendPendingData, SendOld
  <1>2. CASE EndSendPendingData
    <2>1. /\ appEvent' = (appEvent \/ loop.sentAny) /\ loop' = LeaveSend /\ loop.pc = "send"
          /\ UNCHANGED <<sendingBuffer, written>>
      BY <1>2 DEF EndSendPendingData
    <2>2. loop'.pc = IF loop.inApp THEN "app" ELSE "idle"
      BY <2>1 DEF LeaveSend
    <2>3. ~loop.inApp => Awake'
      BY <2>1 DEF ApplicationWaits, Awake
    <2> QED BY <2>2, <2>3 DEF ApplicationWaits
  <1>3. CASE Resend
    <2>1. UNCHANGED <<sendingBuffer, written, appEvent>>
      BY <1>3 DEF Resend, SendOld
    <2>2. CASE UNCHANGED loop
      BY <2>1, <2>2, WaitsOn
    <2>3. CASE loop' = LeaveSend
      <3>1. loop'.pc = "idle" /\ Awake'
        BY <1>3, <2>1, <2>3 DEF Resend, ApplicationWaits, LeaveSend, Awake
      <3> QED BY <3>1 DEF ApplicationWaits
    <2> QED BY <1>3, <2>2, <2>3 DEF Resend
  <1>4. CASE FillBuffer
    BY <1>4, FillBufferRuns DEF ApplicationWaits
  <1>5. CASE EndSendData
    <2>1. UNCHANGED <<sendingBuffer, written>> /\ loop'.pc = "idle" /\ ~CanWrite
      BY <1>5 DEF EndSendData, senderVars, Idle
    <2>2. Awake'
      BY <1>0, <2>1 DEF CanWrite, Awake
    <2> QED BY <2>1, <2>2 DEF ApplicationWaits
  <1>6. ASSUME NEW i \in Subflow, ProcessSynSent(i)
        PROVE  ApplicationWaits'
    <2>1. /\ Awake /\ UNCHANGED <<sendingBuffer, written, appEvent>>
          /\ loop' = EnterSend(sendingBuffer, i, FALSE)
      BY <1>6 DEF ProcessSynSent, ThenSend, ApplicationWaits
    <2> QED BY <2>1, WaitsWhileSending
  <1>7. ASSUME NEW i \in Subflow, ReceivedAck(i)
        PROVE  ApplicationWaits'
    <2>1. PICK a : NewAckNewReno(i, a) \/ DupAck(i, a) \/ OldAck(i, a)
      BY <1>7 DEF ReceivedAck
    <2>2. Awake /\ UNCHANGED <<sendingBuffer, written>>
      BY <1>7 DEF ReceivedAck, ApplicationWaits
    <2>3. appEvent => appEvent'
      BY <2>1 DEF NewAckNewReno, DupAck, OldAck
    <2>4. CASE loop' = ThenSend(i)
      BY <2>2, <2>3, <2>4, WaitsWhileSending DEF ThenSend
    <2>5. CASE UNCHANGED <<loop, appEvent>>
      BY <2>2, <2>5, WaitsOn
    <2> QED BY <2>1, <2>4, <2>5
         DEF NewAckNewReno, DupAck, OldAck, FastRetransmit, CountDup
  <1>8. CASE \/ UNCHANGED vars \/ InitiateSubflows
             \/ \E i \in Subflow : LoseJoin(i) \/ ReTxTimeout(i) \/ ReceivedData(i)
                                   \/ LosePacket(i)
    <2>1. UNCHANGED <<sendingBuffer, written, appEvent, loop>>
      BY <1>8 DEF vars, senderVars, appVars, InitiateSubflows, LoseJoin, ReTxTimeout,
         ReceivedData, LosePacket
    <2> QED BY <2>1, WaitsOn
  <1> QED BY <1>1, <1>2, <1>3, <1>4, <1>5, <1>6, <1>7, <1>8
      DEF Next, Stop, Application, Sending

---------------------------------------------------------------------------
(* The joins and the data numbers.                                         *)

LEMMA NextJoinsArrive ==
  ASSUME ~JoinLoss, TypeOK, JoinsArrive, [Next]_vars
  PROVE  JoinsArrive'
  <1>1. CASE UNCHANGED <<state, size, joining>>
    BY <1>1 DEF JoinsArrive
  <1>2. CASE InitiateSubflows
    <2>1. /\ size < NSub /\ size' = NSub /\ joining' = {i \in Subflow : i >= size}
          /\ state' = [i \in Subflow |-> IF i < size THEN state[i] ELSE "SYN_SENT"]
      BY <1>2 DEF InitiateSubflows
    <2>2. size \in Int /\ NSub \in Nat
      BY Constants DEF TypeOK
    <2>3. ASSUME NEW i \in Subflow, i \notin joining'
          PROVE  state'[i] = "ESTABLISHED"
      <3>1. i < size
        BY <2>1, <2>2, <2>3 DEF Subflow
      <3> QED BY <2>1, <3>1 DEF JoinsArrive
    <2> QED BY <2>1, <2>2, <2>3 DEF JoinsArrive
  <1>3. ASSUME NEW i \in Subflow, ProcessSynSent(i)
        PROVE  JoinsArrive'
    <2>1. /\ state' = [state EXCEPT ![i] = "ESTABLISHED"] /\ joining' = joining \ {i}
          /\ UNCHANGED size
      BY <1>3 DEF ProcessSynSent
    <2>2. \A j \in Subflow : state'[j] = IF j = i THEN "ESTABLISHED" ELSE state[j]
      BY <2>1 DEF TypeOK
    <2> QED BY <2>1, <2>2 DEF JoinsArrive
  <1>4. ASSUME NEW i \in Subflow, LoseJoin(i)
        PROVE  JoinsArrive'
    BY <1>4 DEF LoseJoin
  <1>5. CASE \/ UNCHANGED vars \/ Application \/ Sending
             \/ \E i \in Subflow : ReceivedAck(i) \/ ReTxTimeout(i) \/ ReceivedData(i)
                                   \/ LosePacket(i)
    BY <1>1, <1>5
    DEF vars, senderVars, Application, Sending, FillBuffer, EndSendData, SendPendingData,
        EndSendPendingData, Resend, ReceivedAck, ReTxTimeout, ReceivedData, LosePacket
  <1> QED BY <1>2, <1>3, <1>4, <1>5 DEF Next, Stop

LEMMA NextAllAreGiven ==
  ASSUME TypeOK, TransferInv, AllAreGiven, [Next]_vars
  PROVE  AllAreGiven'
  <1>1. CASE UNCHANGED <<maxSeqNb, nextTxSequence, log>>
    BY <1>1 DEF AllAreGiven
  <1>2. ASSUME NEW i \in Subflow, SendNew(i)
        PROVE  AllAreGiven'
    <2>1. /\ log' = [log EXCEPT ![i] = Append(@, nextTxSequence)]
          /\ nextTxSequence' = nextTxSequence + 1
          /\ nextTxSequence \in Nat /\ log \in [Subflow -> Seq(Nat)]
      BY <1>2, SegmentIsCut DEF TypeOK
    <2>2. /\ log'[i] = Append(log[i], nextTxSequence)
          /\ \A j \in Subflow \ {i} : log'[j] = log[j]
      BY <2>1
    <2>3. log'[i][Len(log[i]) + 1] = nextTxSequence /\ Len(log'[i]) = Len(log[i]) + 1
      BY <2>1, <2>2
    <2>4. ASSUME NEW d \in 1 .. nextTxSequence' - 1
          PROVE  \E j \in Subflow : \E s \in 1 .. Len(log'[j]) : log'[j][s] = d
      <3>1. CASE d = nextTxSequence
        <4>1. Len(log[i]) + 1 \in 1 .. Len(log'[i])
          BY <2>1, <2>3
        <4> QED BY <2>3, <3>1, <4>1
      <3>2. CASE d # nextTxSequence
        <4>1. d \in 1 .. nextTxSequence - 1
          BY <2>1, <2>4, <3>2
        <4>2a. PICK j \in Subflow : \E s \in 1 .. Len(log[j]) : log[j][s] = d
          BY <4>1 DEF AllAreGiven
        <4>2. PICK s \in 1 .. Len(log[j]) : log[j][s] = d
          BY <4>2a
        <4>3. s \in 1 .. Len(log'[j]) /\ log'[j][s] = d
          <5>1. CASE j # i
            BY <2>2, <4>2, <5>1
          <5>2. CASE j = i
            BY <2>1, <2>2, <2>3, <4>2, <5>2
          <5> QED BY <5>1, <5>2
        <4> QED BY <4>3
      <3> QED BY <3>1, <3>2
    <2> QED BY <2>4 DEF AllAreGiven
  <1> QED BY <1>1, <1>2, CutOrNot

---------------------------------------------------------------------------
(* When no event is left.                                                  *)

LEMMA StopFromInv ==
  ASSUME TypeOK, TransferInv, BufferCounts, TimerCoversFlight, NoIdleSubflow,
         ApplicationWaits, JoinsArrive, AllAreGiven
  PROVE  StopsOnlyWhenDone
  <1> SUFFICES ASSUME NoEventLeft
               PROVE  /\ written = MaxData /\ nextRxSequence = MaxData + 1
                      /\ \A i \in Subflow : mapDSN[i] = {}
    BY DEF StopsOnlyWhenDone
  <1>1. /\ loop.pc = "idle" /\ ~appEvent /\ joining = {} /\ size = NSub
        /\ \A i \in Subflow : ~retx[i]
    BY DEF NoEventLeft
  <1>2. \A i \in Subflow : mapDSN[i] = {}
    BY <1>1 DEF TimerCoversFlight
  <1>3. 0 .. size - 1 = Subflow /\ 0 \in Subflow
    BY <1>1, Constants DEF Subflow
  <1>4. \A i \in Subflow : state[i] = "ESTABLISHED"
    <2>1. \A i \in Subflow : i < size
      BY <1>1, Constants DEF Subflow
    <2> QED BY <1>1, <2>1 DEF JoinsArrive
  <1>5. /\ sendingBuffer \in Nat /\ written \in Nat /\ written <= MaxData
        /\ nextTxSequence \in Nat \ {0} /\ nextRxSequence \in Nat \ {0}
        /\ MaxData \in Nat /\ BufSize \in Nat \ {0}
    BY Constants DEF TypeOK
  <1>6. sendingBuffer = 0
    <2>1. ~(sendingBuffer > 0)
      BY <1>1, <1>2, <1>3, <1>4 DEF NoIdleSubflow
    <2> QED BY <1>5, <2>1
  <1>7. written = MaxData
    BY <1>1, <1>5, <1>6 DEF ApplicationWaits, Awake
  <1>8. nextTxSequence = MaxData + 1
    BY <1>5, <1>6, <1>7 DEF BufferCounts
  <1>9. nextRxSequence <= nextTxSequence
    BY DEF TransferInv, LevelsAgree
  <1>10. ASSUME nextRxSequence < nextTxSequence PROVE FALSE
    <2>1. nextRxSequence \in 1 .. nextTxSequence - 1
      BY <1>5, <1>10
    <2>2a. PICK i \in Subflow : \E s \in 1 .. Len(log[i]) : log[i][s] = nextRxSequence
      BY <2>1 DEF AllAreGiven
    <2>2. PICK s \in 1 .. Len(log[i]) : log[i][s] = nextRxSequence
      BY <2>2a
    <2>3. s \in 1 .. maxSeqNb[i] /\ s \in Nat
      BY <2>2 DEF TransferInv, LogInOrder
    <2>4. s < RxSeqNumber[i]
      <3>1. highestAck[i] + 1 .. maxSeqNb[i] = {}
        BY <1>2, SenderNumbers
      <3> QED BY <2>3, <3>1, SenderNumbers
    <2>5. [sf |-> i, seq |-> s, dsn |-> nextRxSequence] \in unOrdered
      BY <1>5, <2>2, <2>3, <2>4 DEF TransferInv, LevelsAgree
    <2>6. [sf |-> i, seq |-> s, dsn |-> nextRxSequence].dsn > nextRxSequence
      BY <2>5 DEF TransferInv, LevelsAgree
    <2> QED BY <1>5, <2>6
  <1>11. nextRxSequence = MaxData + 1
    BY <1>5, <1>8, <1>9, <1>10
  <1> QED BY <1>2, <1>7, <1>11

\* The simulation ends only when all that was to be written was written,
\* delivered and acknowledged: whatever was lost or timed out, some packet,
\* timer or call of the application is left until then.  A lost join breaks
\* this (SendPendingData stays on the subflow that is not established), hence
\* the assumption.
THEOREM StopsWhenDone ==
  ASSUME WindowDoesNotWrap, ~JoinLoss
  PROVE  Spec => []StopsOnlyWhenDone
  <1>1. Init => ApplicationWaits /\ JoinsArrive /\ AllAreGiven
    BY InitDone
  <1>2. /\ TypeOK /\ TransferInv /\ ApplicationWaits /\ JoinsArrive /\ AllAreGiven
        /\ [Next]_vars
        => ApplicationWaits' /\ JoinsArrive' /\ AllAreGiven'
    BY NextApplicationWaits, NextJoinsArrive, NextAllAreGiven
  <1>3. /\ TypeOK /\ TransferInv /\ BufferCounts /\ TimerCoversFlight /\ NoIdleSubflow
        /\ ApplicationWaits /\ JoinsArrive /\ AllAreGiven
        => StopsOnlyWhenDone
    BY StopFromInv
  <1> QED BY <1>1, <1>2, <1>3, TypeCorrect, TransferCorrect, TimerSafe, CountsHold,
             NoSubflowIdles, PTL
      DEF Spec
=============================================================================
