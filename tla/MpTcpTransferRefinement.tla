---------------------- MODULE MpTcpTransferRefinement ----------------------
(***************************************************************************)
(* Proof that MpTcpTransfer implements MptcpStream, step by step: writing   *)
(* to the buffer is Write, cutting a new segment is Send, the first copy of *)
(* a segment that reaches the server is Arrive, a new ACK is Forget, and    *)
(* everything else (retransmissions, timeouts, duplicates, losses, joins)   *)
(* changes nothing the stream can see.                                     *)
(***************************************************************************)
EXTENDS MpTcpTransferSafety

\* What the application wrote is in the buffer or was cut into segments.
BufferCounts == written = nextTxSequence - 1 + sendingBuffer

\* The stream's variables, under the mapping of `Stream'.
Held == UNION {{m.dsn : m \in mapDSN[i]} : i \in Subflow}
Have == 1 .. nextRxSequence - 1 \cup StoredDSN

\* What a step that the stream does not see leaves alone.
Unseen == UNCHANGED <<written, nextTxSequence, mapDSN, nextRxSequence, unOrdered>>

LEMMA MappedVariables ==
  Stream!streamVars = <<written, nextTxSequence - 1, Held, Have, nextRxSequence - 1>>
  BY DEF Stream!streamVars, Held, Have

LEMMA UnseenStutters ==
  ASSUME Unseen
  PROVE  UNCHANGED Stream!streamVars
  BY DEF Unseen, Stream!streamVars, StoredDSN

LEMMA InHeld ==
  ASSUME NEW d
  PROVE  d \in Held <=> \E j \in Subflow : \E m \in mapDSN[j] : m.dsn = d
  BY DEF Held

LEMMA InHeldNext ==
  ASSUME NEW d
  PROVE  d \in Held' <=> \E j \in Subflow : \E m \in mapDSN'[j] : m.dsn = d
  BY DEF Held

---------------------------------------------------------------------------
(* The buffer.                                                             *)

LEMMA InitCounts == Init => BufferCounts
  BY DEF Init, BufferCounts

LEMMA NextCounts ==
  ASSUME TypeOK, BufferCounts, [Next]_vars
  PROVE  BufferCounts'
  <1>1. written \in Nat /\ nextTxSequence \in Nat /\ sendingBuffer \in Nat
    BY Constants DEF TypeOK
  <1>2. CASE UNCHANGED <<written, nextTxSequence, sendingBuffer>>
    BY <1>2 DEF BufferCounts
  <1>3. CASE FillBuffer
    <2> DEFINE n == Min2(SendSize, Min2(BufSize - sendingBuffer, MaxData - written))
    <2>1. /\ sendingBuffer' = sendingBuffer + n /\ written' = written + n
          /\ nextTxSequence' = nextTxSequence
      BY <1>3 DEF FillBuffer
    <2>2. n \in Int
      BY <1>1, Constants DEF Min2
    <2> HIDE DEF n
    <2> QED BY <1>1, <2>1, <2>2 DEF BufferCounts
  <1>4. ASSUME NEW i, SendNew(i), UNCHANGED written
        PROVE  BufferCounts'
    BY <1>1, <1>4 DEF SendNew, BufferCounts
  <1>5. CASE SendPendingData
    BY <1>2, <1>4, <1>5 DEF SendPendingData, SendOld
  <1>6. CASE Resend
    BY <1>2, <1>6 DEF Resend, SendOld
  <1>7. CASE UNCHANGED vars \/ EndSendData \/ EndSendPendingData \/ InitiateSubflows
    BY <1>2, <1>7
    DEF vars, senderVars, appVars, EndSendData, EndSendPendingData, InitiateSubflows
  <1>8. ASSUME NEW i \in Subflow,
               \/ ProcessSynSent(i) \/ ReceivedAck(i) \/ ReTxTimeout(i)
               \/ ReceivedData(i) \/ LosePacket(i) \/ LoseJoin(i)
        PROVE  BufferCounts'
    BY <1>2, <1>8 DEF ProcessSynSent, ReceivedAck, ReTxTimeout, ReceivedData, LosePacket,
       LoseJoin, senderVars, appVars
  <1> QED BY <1>3, <1>5, <1>6, <1>7, <1>8 DEF Next, Stop, Application, Sending

---------------------------------------------------------------------------
(* Write and Send.                                                         *)

LEMMA FillBufferWrites ==
  ASSUME TypeOK, TypeOK', FillBuffer
  PROVE  Stream!Write
  <1> DEFINE n == Min2(SendSize, Min2(BufSize - sendingBuffer, MaxData - written))
  <1>1. /\ written' = written + n
        /\ UNCHANGED <<nextTxSequence, mapDSN, nextRxSequence, unOrdered>>
    BY DEF FillBuffer, receiverVars
  <1>2. written \in Nat /\ sendingBuffer \in Nat /\ written' \in 0 .. MaxData
    BY Constants DEF TypeOK
  <1>3. n >= 1 /\ n \in Int
    BY <1>2, Constants DEF FillBuffer, CanWrite, Min2
  <1> HIDE DEF n
  <1>4. written' \in written + 1 .. MaxData
    BY <1>1, <1>2, <1>3, Constants
  <1> QED BY <1>1, <1>4 DEF Stream!Write, StoredDSN

LEMMA SendNewSends ==
  ASSUME TypeOK, TypeOK', BufferCounts, sendingBuffer > 0, NEW i \in Subflow, SendNew(i),
         UNCHANGED <<written, receiverVars>>
  PROVE  Stream!Send
  <1>1. nextTxSequence \in Nat /\ sendingBuffer \in Nat /\ written \in Nat
    BY Constants DEF TypeOK
  <1>2. nextTxSequence - 1 < written
    BY <1>1 DEF BufferCounts
  <1>3. /\ nextTxSequence' = nextTxSequence + 1
        /\ nextTxSequence' - 1 = (nextTxSequence - 1) + 1
        /\ (nextTxSequence - 1) + 1 = nextTxSequence
    BY <1>1 DEF SendNew
  <1> DEFINE m == [seq |-> TxSeqNumber[i], dsn |-> nextTxSequence]
  <1>4. \A j \in Subflow : mapDSN'[j] = IF j = i THEN mapDSN[j] \cup {m} ELSE mapDSN[j]
    BY DEF SendNew, TypeOK
  <1>5. m.dsn = nextTxSequence
    OBVIOUS
  <1> HIDE DEF m
  <1>6. Held' = Held \cup {nextTxSequence}
    <2>1. ASSUME NEW d PROVE d \in Held' <=> d \in Held \/ d = nextTxSequence
      BY <1>4, <1>5, InHeld, InHeldNext
    <2> QED BY <2>1
  <1>7. UNCHANGED <<written, nextRxSequence, unOrdered>>
    BY DEF receiverVars
  <1> QED BY <1>2, <1>3, <1>6, <1>7 DEF Stream!Send, Held, StoredDSN

---------------------------------------------------------------------------
(* Forget.                                                                 *)

\* What the server's subflow has passed is delivered or stored.
LEMMA PassedIsHad ==
  ASSUME TypeOK, TransferInv, NEW i \in Subflow, NEW s \in 1 .. maxSeqNb[i],
         s < RxSeqNumber[i]
  PROVE  log[i][s] \in Have
  <1>1. /\ log[i][s] \in 1 .. nextTxSequence - 1
        /\ nextTxSequence \in Nat /\ nextRxSequence \in Nat
    BY DEF TransferInv, LogInOrder, TypeOK
  <1>2. CASE log[i][s] < nextRxSequence
    BY <1>1, <1>2 DEF Have
  <1>3. CASE [sf |-> i, seq |-> s, dsn |-> log[i][s]] \in unOrdered
    BY <1>3 DEF Have, StoredDSN
  <1> QED BY <1>2, <1>3 DEF TransferInv, LevelsAgree

LEMMA NewAckForgets ==
  ASSUME TypeOK, TransferInv, NEW i \in Subflow, NEW a \in Nat, a <= RxSeqNumber[i],
         NewAckNewReno(i, a), UNCHANGED <<written, nextTxSequence, receiverVars>>
  PROVE  Stream!Forget \/ UNCHANGED Stream!streamVars
  <1>1. UNCHANGED <<written, nextTxSequence, nextRxSequence, unOrdered>>
    BY DEF receiverVars
  <1>2. /\ mapDSN' = [mapDSN EXCEPT ![i] = {m \in mapDSN[i] : m.seq >= a}]
        /\ mapDSN \in [Subflow -> SUBSET Segment]
    BY DEF NewAckNewReno, DiscardUpTo, TypeOK
  <1>3. \A j \in Subflow :
          mapDSN'[j] = IF j = i THEN {m \in mapDSN[i] : m.seq >= a} ELSE mapDSN[j]
    BY <1>2
  <1>4. Held' \subseteq Held
    <2>1. ASSUME NEW d, d \in Held' PROVE d \in Held
      BY <1>3, <2>1, InHeld, InHeldNext
    <2> QED BY <2>1
  <1>5. Held \ Held' \subseteq Have
    <2> SUFFICES ASSUME NEW d \in Held, d \notin Held' PROVE d \in Have
      OBVIOUS
    <2>1. PICK j \in Subflow : \E m \in mapDSN[j] : m.dsn = d
      BY InHeld
    <2>2. PICK m \in mapDSN[j] : m.dsn = d
      BY <2>1
    <2>3. m \notin mapDSN'[j]
      BY <2>2, InHeldNext
    <2>4. j = i /\ ~(m.seq >= a)
      BY <1>3, <2>3
    <2>5. m.seq \in highestAck[i] + 1 .. maxSeqNb[i] /\ highestAck[i] \in Nat
      BY <2>4, SenderNumbers
    <2>6. m.dsn = log[i][m.seq]
      BY <2>4 DEF TransferInv, CopiesAgree
    <2>7. m.seq \in 1 .. maxSeqNb[i] /\ m.seq < RxSeqNumber[i]
      BY <2>4, <2>5, SenderNumbers
    <2> QED BY <2>2, <2>6, <2>7, PassedIsHad
  <1>6. Have' = Have
    BY <1>1 DEF Have, StoredDSN
  <1>7. CASE Held' = Held
    BY <1>1, <1>6, <1>7, MappedVariables DEF Stream!streamVars, Held, Have
  <1>8. CASE Held' # Held
    BY <1>1, <1>4, <1>5, <1>6, <1>8 DEF Stream!Forget, Held, Have
  <1> QED BY <1>7, <1>8

---------------------------------------------------------------------------
(* Arrive.                                                                 *)

\* A packet new to its subflow is one the client still keeps.
LEMMA NewIsHeld ==
  ASSUME TypeOK, TransferInv, NEW i \in Subflow, NEW k \in 1 .. Len(dataCh[i]),
         dataCh[i][k].seq >= RxSeqNumber[i]
  PROVE  /\ dataCh[i][k].dsn \in Held
         /\ dataCh[i][k].dsn \in 1 .. nextTxSequence - 1
  <1> DEFINE p == dataCh[i][k]
  <1>1. p.seq \in 1 .. maxSeqNb[i] /\ p.dsn = log[i][p.seq]
    BY PacketInFlight
  <1>2. p.seq >= RxSeqNumber[i]
    OBVIOUS
  <1> HIDE DEF p
  <1>3. p.seq \in highestAck[i] + 1 .. maxSeqNb[i]
    BY <1>1, <1>2, SenderNumbers
  <1>4. PICK m \in mapDSN[i] : m.seq = p.seq
    BY <1>3, SenderNumbers
  <1>5. m.dsn = p.dsn
    BY <1>1, <1>4 DEF TransferInv, CopiesAgree
  <1>6. p.dsn \in 1 .. nextTxSequence - 1
    BY <1>1 DEF TransferInv, LogInOrder
  <1>7. p.dsn \in Held
    BY <1>5, InHeld
  <1> QED BY <1>6, <1>7 DEF p

LEMMA StoreArrives ==
  ASSUME TypeOK, TransferInv, NEW i \in Subflow, NEW k \in 1 .. Len(dataCh[i]),
         StoreUnOrderedData(i, dataCh[i][k]), UNCHANGED <<written, nextTxSequence, mapDSN>>
  PROVE  Stream!Arrive \/ UNCHANGED Stream!streamVars
  <1> DEFINE p == dataCh[i][k]
             d == p.dsn
             u == [sf |-> i, seq |-> p.seq, dsn |-> d]
  <1>1. /\ p.seq >= RxSeqNumber[i] /\ d > nextRxSequence /\ UNCHANGED nextRxSequence
        /\ IF d \in StoredDSN THEN UNCHANGED unOrdered
           ELSE unOrdered' = unOrdered \cup {u}
    BY DEF StoreUnOrderedData
  <1>2. d \in Held /\ d \in 1 .. nextTxSequence - 1
    BY <1>1, NewIsHeld
  <1>3. nextTxSequence \in Nat /\ nextRxSequence \in Nat \ {0}
        /\ nextRxSequence <= nextTxSequence
    BY DEF TypeOK, TransferInv, LevelsAgree
  <1>4. u.dsn = d
    OBVIOUS
  <1> HIDE DEF p, d, u
  <1>5. CASE d \in StoredDSN
    BY <1>1, <1>5, UnseenStutters DEF Unseen
  <1>6. CASE d \notin StoredDSN
    <2>1. unOrdered' = unOrdered \cup {u}
      BY <1>1, <1>6
    <2>2. StoredDSN' = StoredDSN \cup {d}
      BY <1>4, <2>1 DEF StoredDSN
    <2>3. Have' = Have \cup {d}
      BY <1>1, <2>2 DEF Have
    <2>4. d \notin Have
      BY <1>1, <1>2, <1>3, <1>6 DEF Have
    <2>5. (nextRxSequence - 1) + 1 \notin Have'
      <3>1. nextRxSequence \notin StoredDSN
        <4>1. \A v \in unOrdered : v.dsn > nextRxSequence
          BY DEF TransferInv, LevelsAgree
        <4> QED BY <1>3, <4>1 DEF StoredDSN
      <3>2. nextRxSequence \notin Have /\ nextRxSequence # d
        BY <1>1, <1>3, <3>1 DEF Have
      <3> QED BY <1>3, <2>3, <3>2
    <2>6. 1 .. nextRxSequence - 1 \subseteq Have'
      BY <1>1 DEF Have
    <2>7. nextRxSequence' - 1 \in nextRxSequence - 1 .. nextTxSequence - 1
      BY <1>1, <1>3
    <2>8. Stream!Receive(d)
      BY <1>1, <1>2, <2>3, <2>4, <2>5, <2>6, <2>7 DEF Stream!Receive, Held, Have
    <2> QED BY <1>2, <2>8 DEF Stream!Arrive
  <1> QED BY <1>5, <1>6

LEMMA DeliverArrives ==
  ASSUME TypeOK, TransferInv, TransferInv', NEW i \in Subflow,
         NEW k \in 1 .. Len(dataCh[i]), DeliverData(i, dataCh[i][k]),
         UNCHANGED <<written, nextTxSequence, mapDSN>>
  PROVE  Stream!Arrive
  <1> DEFINE d == nextRxSequence
             g == nextRxSequence'
  <1>1. dataCh[i][k].seq >= RxSeqNumber[i] /\ dataCh[i][k].dsn = d
    <2>1. dataCh[i][k].seq = RxSeqNumber[i] /\ dataCh[i][k].dsn = d
      BY DEF DeliverData
    <2> QED BY <2>1, SenderNumbers
  <1>2. d \in Held /\ d \in 1 .. nextTxSequence - 1
    BY <1>1, NewIsHeld
  <1>3. /\ g \in Int /\ g >= d + 1 /\ g \notin StoredDSN /\ d + 1 .. g - 1 \subseteq StoredDSN
        /\ unOrdered' = {u \in unOrdered : u.dsn > g}
    BY Constants DEF DeliverData, ReadUnOrderedData, FirstGap
  <1>4. d \in Nat \ {0} /\ nextTxSequence \in Nat /\ g <= nextTxSequence
    <2>1. nextRxSequence' <= nextTxSequence'
      BY DEF TransferInv, LevelsAgree
    <2> QED BY <2>1 DEF TypeOK
  <1>5. \A e \in StoredDSN : e \in Nat /\ e > d
    <2>1. \A u \in unOrdered : u.dsn \in 1 .. nextTxSequence - 1 /\ u.dsn > nextRxSequence
      BY StoredSegment
    <2> QED BY <1>4, <2>1 DEF StoredDSN
  <1>6. StoredDSN' = {e \in StoredDSN : e > g}
    <2>1. StoredDSN' = {u.dsn : u \in unOrdered'}
      BY DEF StoredDSN
    <2> QED BY <1>3, <2>1 DEF StoredDSN
  <1>7. Have' = 1 .. g - 1 \cup StoredDSN' /\ Have = 1 .. d - 1 \cup StoredDSN
    BY DEF Have
  <1> HIDE DEF d, g
  <1>8. Have' = Have \cup {d}
    <2>1. ASSUME NEW e \in Have' PROVE e \in Have \cup {d}
      BY <1>3, <1>4, <1>5, <1>6, <1>7
    <2>2. ASSUME NEW e \in Have \cup {d} PROVE e \in Have'
      BY <1>3, <1>4, <1>5, <1>6, <1>7
    <2> QED BY <2>1, <2>2
  <1>9. d \notin Have
    BY <1>4, <1>5, <1>7
  <1>10. (g - 1) + 1 \notin Have' /\ 1 .. g - 1 \subseteq Have'
    BY <1>3, <1>4, <1>6, <1>7
  <1>11. g - 1 \in d - 1 .. nextTxSequence - 1
    BY <1>3, <1>4
  <1>12. Stream!Receive(d)
    BY <1>2, <1>8, <1>9, <1>10, <1>11 DEF Stream!Receive, Held, Have, d, g
  <1> QED BY <1>2, <1>12 DEF Stream!Arrive

LEMMA ReceivedDataRefines ==
  ASSUME TypeOK, TransferInv, TransferInv', NEW i \in Subflow, ReceivedData(i)
  PROVE  Stream!Arrive \/ UNCHANGED Stream!streamVars
  <1>1. PICK k \in Arriving(dataCh[i]) :
          \/ DeliverData(i, dataCh[i][k]) \/ StoreUnOrderedData(i, dataCh[i][k])
          \/ RejectDuplicate(i, dataCh[i][k])
    BY DEF ReceivedData
  <1>2. k \in 1 .. Len(dataCh[i])
    BY ArrivingIsInFlight DEF TypeOK
  <1>3. UNCHANGED <<written, nextTxSequence, mapDSN>>
    BY DEF ReceivedData, senderVars, appVars
  <1>4. CASE RejectDuplicate(i, dataCh[i][k])
    BY <1>3, <1>4, UnseenStutters DEF RejectDuplicate, receiverVars, Unseen
  <1> QED BY <1>1, <1>2, <1>3, <1>4, StoreArrives, DeliverArrives

---------------------------------------------------------------------------
(* Every step.                                                             *)

LEMMA InitRefines == Init => Stream!StreamInit
  <1> SUFFICES ASSUME Init PROVE Stream!StreamInit
    OBVIOUS
  <1>1. nextTxSequence - 1 = 0 /\ nextRxSequence - 1 = 0 /\ written \in 0 .. MaxData
    BY Constants DEF Init
  <1>2. Held = {}
    BY DEF Init, Held
  <1>3. Have = {}
    BY DEF Init, Have, StoredDSN
  <1> QED BY <1>1, <1>2, <1>3 DEF Stream!StreamInit, Held, Have

LEMMA NextRefines ==
  ASSUME TypeOK, TypeOK', BufferCounts, TransferInv, TransferInv', [Next]_vars
  PROVE  [Stream!StreamNext]_(Stream!streamVars)
  <1> USE DEF Stream!StreamNext
  <1>1. CASE Unseen
    BY <1>1, UnseenStutters
  <1>2. CASE FillBuffer
    BY <1>2, FillBufferWrites
  <1>3. CASE SendPendingData
    <2>1. PICK n \in 0 .. size - 1 : SendNew(n) \/ SendOld(n)
      BY <1>3 DEF SendPendingData
    <2>2. n \in Subflow /\ sendingBuffer > 0 /\ UNCHANGED <<written, receiverVars>>
      BY <1>3, ScanType DEF SendPendingData
    <2>3. CASE SendOld(n)
      BY <1>1, <2>2, <2>3 DEF SendOld, Unseen, receiverVars
    <2> QED BY <2>1, <2>2, <2>3, SendNewSends
  <1>4. CASE Resend
    BY <1>1, <1>4 DEF Resend, SendOld, Unseen, receiverVars
  <1>5. CASE UNCHANGED vars \/ EndSendData \/ EndSendPendingData \/ InitiateSubflows
    BY <1>1, <1>5 DEF Unseen, vars, senderVars, appVars, receiverVars, EndSendData,
       EndSendPendingData, InitiateSubflows
  <1>6. ASSUME NEW i \in Subflow,
               ProcessSynSent(i) \/ ReTxTimeout(i) \/ LosePacket(i) \/ LoseJoin(i)
        PROVE  Unseen
    BY <1>6 DEF Unseen, ProcessSynSent, ReTxTimeout, LosePacket, LoseJoin, senderVars,
       appVars, receiverVars
  <1>7. ASSUME NEW i \in Subflow, ReceivedAck(i)
        PROVE  Stream!Forget \/ UNCHANGED Stream!streamVars
    <2>1. PICK k \in Arriving(ackCh[i]) :
            NewAckNewReno(i, ackCh[i][k]) \/ DupAck(i, ackCh[i][k]) \/ OldAck(i, ackCh[i][k])
      BY <1>7 DEF ReceivedAck
    <2>2. ackCh[i] \in Seq(Nat) /\ k \in 1 .. Len(ackCh[i])
      BY ArrivingIsInFlight DEF TypeOK
    <2>3. ackCh[i][k] \in Nat /\ ackCh[i][k] <= RxSeqNumber[i]
      BY <2>2 DEF TransferInv, SequenceNumbersInStep
    <2>4. UNCHANGED <<written, nextTxSequence, receiverVars>>
      BY <1>7 DEF ReceivedAck
    <2>5. CASE DupAck(i, ackCh[i][k]) \/ OldAck(i, ackCh[i][k])
      BY <2>4, <2>5, UnseenStutters DEF DupAck, OldAck, Unseen, receiverVars
    <2> QED BY <2>1, <2>3, <2>4, <2>5, NewAckForgets
  <1>8. ASSUME NEW i \in Subflow, ReceivedData(i)
        PROVE  Stream!Arrive \/ UNCHANGED Stream!streamVars
    BY <1>8, ReceivedDataRefines
  <1> QED BY <1>1, <1>2, <1>3, <1>4, <1>5, <1>6, <1>7, <1>8 DEF Next, Stop, Application, Sending

\* The sockets implement the stream: whatever is lost, reordered or timed out,
\* data is written, sent, delivered in order and forgotten as MptcpStream says.
THEOREM TransferRefinesStream == Spec => ImplementsStream
  <1>1. Spec => []BufferCounts
    <2>1. Init => BufferCounts
      BY InitCounts
    <2>2. TypeOK /\ BufferCounts /\ [Next]_vars => BufferCounts'
      BY NextCounts
    <2> QED BY <2>1, <2>2, TypeCorrect, PTL DEF Spec
  <1>2. Init => Stream!StreamInit
    BY InitRefines
  <1>3. TypeOK /\ TypeOK' /\ BufferCounts /\ TransferInv /\ TransferInv' /\ [Next]_vars
        => [Stream!StreamNext]_(Stream!streamVars)
    BY NextRefines
  <1> QED
    BY <1>1, <1>2, <1>3, TypeCorrect, TransferCorrect, PTL
    DEF Spec, ImplementsStream, Stream!StreamSpec
=============================================================================
