--------------------------- MODULE MpTcpTransfer ---------------------------
(***************************************************************************)
(* Data transfer of one MPTCP connection: the client's MpTcpSocketBase      *)
(* (send buffer, round-robin scheduler, per-subflow NewReno sender), the    *)
(* lossy path of every subflow, and the server's MpTcpSocketBase            *)
(* (per-subflow and connection-level reassembly), with the bulk-send        *)
(* application writing into the client's buffer.                            *)
(*                                                                         *)
(* The unit of data is one segment of one MSS.  A mapping is never cut      *)
(* again once it exists, so a segment is identified by its data sequence    *)
(* number (DSN, 1, 2, ...) and by its sequence number on its subflow (also  *)
(* 1, 2, ...).                                                             *)
(*                                                                         *)
(* The simulator runs one event at a time.  A step is one event (a packet   *)
(* or an ACK arrives, a timer fires, the application is called), except     *)
(* that the loops of SendPendingData and of the application's SendData are  *)
(* taken one iteration per step: `loop' says which loop is running, and no  *)
(* event is handled until it is "idle" again.                               *)
(***************************************************************************)
EXTENDS Integers, Sequences, FiniteSets

CONSTANTS
  NSub,         \* number of subflows once the joins have been sent
  MaxData,      \* segments the application writes: a bound on the run
  BufSize,      \* capacity of sendingBuffer
  SendSize,     \* most segments the application adds at a time
  RecvWnd,      \* the peer's advertised window (a constant in the code)
  InitSsthresh, \* initial slow start threshold
  DupThresh,    \* duplicate ACKs that start fast recovery (3 in the code)
  HalfFlight,   \* TRUE: ssthresh becomes half the flight on fast retransmit
  Wrap,         \* first value the unsigned window cannot hold
  ChanCap,      \* a handler that can only add a copy waits for this much room
  MaxLoss,      \* how many packets the network may lose
  Reorder,      \* TRUE: a path may deliver its packets in any order
  JoinLoss      \* TRUE: the network may lose the SYN of a join

ASSUME NSubAssumption == NSub \in Nat \ {0}
ASSUME MaxDataAssumption == MaxData \in Nat
ASSUME BufferAssumption == BufSize \in Nat \ {0} /\ SendSize \in Nat \ {0}
ASSUME WindowAssumption ==
  RecvWnd \in Nat \ {0} /\ InitSsthresh \in Nat /\ Wrap \in Nat \ {0, 1}
ASSUME DupThreshAssumption == DupThresh \in Nat \ {0}
ASSUME BoundAssumption == ChanCap \in Nat \ {0} /\ MaxLoss \in Nat
ASSUME SwitchAssumption ==
  HalfFlight \in BOOLEAN /\ Reorder \in BOOLEAN /\ JoinLoss \in BOOLEAN

Subflow == 0 .. NSub - 1

VARIABLES
  \* the client
  state,            \* state of each subflow
  size,             \* subflows.size(): the scheduler sees subflows 0..size-1
  joining,          \* subflows whose handshake is still to be answered
  TxSeqNumber,      \* next sequence number to send, per subflow
  maxSeqNb,         \* highest sequence number ever sent, per subflow
  highestAck,       \* highest sequence number acknowledged, per subflow
  mapDSN,           \* the segments each subflow keeps until acknowledged
  cc,               \* congestion state of each subflow
  retx,             \* retxEvent is pending, per subflow
  sendingBuffer,    \* segments written and not yet given to a subflow
  nextTxSequence,   \* DSN of the next segment given to a subflow
  lastUsedsFlowIdx, \* where the round-robin scan starts
  written,          \* segments the application has written so far
  appEvent,         \* a SendData of the application is scheduled
  loop,             \* which loop is running
  \* the server
  RxSeqNumber,      \* next sequence number expected, per subflow
  nextRxSequence,   \* next DSN expected: all before it were delivered
  unOrdered,        \* segments stored until the hole before them is filled
  \* the network
  dataCh, ackCh,    \* what is in flight on each subflow, oldest first
  lost,             \* packets lost so far
  \* history, not in the code
  log               \* the DSNs first sent on each subflow, in order

senderVars == <<state, size, joining, TxSeqNumber, maxSeqNb, highestAck, mapDSN, cc,
                retx, sendingBuffer, nextTxSequence, lastUsedsFlowIdx, log>>
appVars == <<written, appEvent, loop>>
receiverVars == <<RxSeqNumber, nextRxSequence, unOrdered>>
netVars == <<dataCh, ackCh, lost>>
vars == <<senderVars, appVars, receiverVars, netVars>>

---------------------------------------------------------------------------
Min2(a, b) == IF a < b THEN a ELSE b
Max2(a, b) == IF a > b THEN a ELSE b

\* The packets of s without the k-th.
DropAt(s, k) == [j \in 1 .. Len(s) - 1 |-> IF j < k THEN s[j] ELSE s[j + 1]]

\* The packets of s that can arrive next.
Arriving(s) == IF Reorder THEN 1 .. Len(s) ELSE 1 .. Min2(1, Len(s))

Segment == [seq : Nat, dsn : Nat]
Congestion == [cwnd : Nat, ssthresh : Nat, dupAckCount : Nat,
               inFastRec : BOOLEAN, recover : Nat]
Loop == [pc : {"idle", "app", "send", "resend"}, sf : Subflow,
         inApp : BOOLEAN, sentAny : BOOLEAN]
Idle == [pc |-> "idle", sf |-> 0, inApp |-> FALSE, sentAny |-> FALSE]

Init ==
  /\ state = [i \in Subflow |-> IF i = 0 THEN "ESTABLISHED" ELSE "CLOSED"]
  /\ size = 1
  /\ joining = {}
  /\ TxSeqNumber = [i \in Subflow |-> 1]
  /\ maxSeqNb = [i \in Subflow |-> 0]
  /\ highestAck = [i \in Subflow |-> 0]
  /\ mapDSN = [i \in Subflow |-> {}]
  /\ cc = [i \in Subflow |->
             [cwnd |-> 1, ssthresh |-> InitSsthresh, dupAckCount |-> 0,
              inFastRec |-> FALSE, recover |-> 0]]
  /\ retx = [i \in Subflow |-> FALSE]
  /\ sendingBuffer = 0
  /\ nextTxSequence = 1
  /\ lastUsedsFlowIdx = 0
  /\ written = 0
  /\ appEvent = TRUE     \* the connection callback calls SendData
  /\ loop = Idle
  /\ RxSeqNumber = [i \in Subflow |-> 1]
  /\ nextRxSequence = 1
  /\ unOrdered = {}
  /\ dataCh = [i \in Subflow |-> <<>>]
  /\ ackCh = [i \in Subflow |-> <<>>]
  /\ lost = 0
  /\ log = [i \in Subflow |-> <<>>]

---------------------------------------------------------------------------
(* The sender's windows.                                                   *)

BytesInFlight(i) == maxSeqNb[i] - highestAck[i]

AvailableWindow(i) ==
  LET window == Min2(RecvWnd, cc[i].cwnd)
      unAcked == TxSeqNumber[i] - (highestAck[i] + 1)
  IN IF window < unAcked THEN 0 ELSE window - unAcked

\* A timeout moved TxSeqNumber back: what comes next was sent before.
Recovering(i) == maxSeqNb[i] > TxSeqNumber[i] - 1

\* What SendPendingData(i) does on entry, with p segments in the buffer: the
\* main loop if there are any, otherwise only i's own retransmissions.
EnterSend(p, i, fromApp) ==
  [pc |-> IF p = 0 THEN "resend" ELSE "send", sf |-> IF p = 0 THEN i ELSE 0,
   inApp |-> fromApp, sentAny |-> FALSE]

\* Faulty variant: the handler does not run the scheduler.
DoesNotSend(i) == loop

\* A handler that calls SendPendingData(i) when it is done.
ThenSend(i) == EnterSend(sendingBuffer, i, FALSE)

LeaveSend ==
  [pc |-> IF loop.inApp THEN "app" ELSE "idle", sf |-> 0,
   inApp |-> FALSE, sentAny |-> FALSE]

---------------------------------------------------------------------------
(* SendDataPacket, called by both loops of SendPendingData.                *)

\* Send again the segment at TxSeqNumber from i's own buffer.
SendOld(i) ==
  /\ Recovering(i)
  /\ \E m \in mapDSN[i] :
       /\ m.seq = TxSeqNumber[i]
       /\ dataCh' = [dataCh EXCEPT ![i] = Append(@, m)]
  /\ retx' = [retx EXCEPT ![i] = TRUE]
  /\ TxSeqNumber' = [TxSeqNumber EXCEPT ![i] = @ + 1]
  /\ UNCHANGED <<maxSeqNb, mapDSN, sendingBuffer, nextTxSequence, log>>

\* Cut a new segment from the connection's buffer and map it to i.
SendNew(i) ==
  /\ ~Recovering(i)
  /\ LET m == [seq |-> TxSeqNumber[i], dsn |-> nextTxSequence]
     IN /\ dataCh' = [dataCh EXCEPT ![i] = Append(@, m)]
        /\ mapDSN' = [mapDSN EXCEPT ![i] = @ \cup {m}]
  /\ log' = [log EXCEPT ![i] = Append(@, nextTxSequence)]
  /\ retx' = [retx EXCEPT ![i] = TRUE]
  /\ TxSeqNumber' = [TxSeqNumber EXCEPT ![i] = @ + 1]
  /\ maxSeqNb' = [maxSeqNb EXCEPT ![i] = Max2(@, TxSeqNumber[i])]
  /\ sendingBuffer' = sendingBuffer - 1
  /\ nextTxSequence' = nextTxSequence + 1

---------------------------------------------------------------------------
(* SendPendingData.                                                        *)

\* Where k comes in a scan of the subflows that starts at the last one used.
ScanPosition(k) ==
  IF k >= lastUsedsFlowIdx THEN k - lastUsedsFlowIdx ELSE k + size - lastUsedsFlowIdx

\* Faulty variant: the round-robin index never wraps around.
NoWrapAround(k) == k + 1

getSubflowToUse(k) == IF k + 1 = size THEN 0 ELSE k + 1

\* The scan goes past established subflows without window, and stays on the
\* first subflow that is not established.
StopsScan(k) == state[k] # "ESTABLISHED" \/ AvailableWindow(k) > 0

FirstStop(k) ==
  /\ StopsScan(k)
  /\ \A j \in 0 .. size - 1 : StopsScan(j) => ScanPosition(k) <= ScanPosition(j)

\* One iteration that sends.
SendPendingData ==
  /\ loop.pc = "send" /\ sendingBuffer > 0
  /\ \E k \in 0 .. size - 1 :
       /\ FirstStop(k)
       /\ state[k] = "ESTABLISHED"
       /\ \/ SendNew(k) /\ loop' = [loop EXCEPT !.sentAny = TRUE]
          \/ SendOld(k) /\ UNCHANGED loop
       /\ lastUsedsFlowIdx' = getSubflowToUse(k)
  /\ UNCHANGED <<state, size, joining, highestAck, cc, written, appEvent,
                 receiverVars, ackCh, lost>>

\* The loop ends: the buffer is empty, the scan found no window, or it stuck.
\* NotifyDataSent schedules the application if something new was sent.
EndSendPendingData ==
  /\ loop.pc = "send"
  /\ \/ /\ sendingBuffer = 0 \/ \A k \in 0 .. size - 1 : ~StopsScan(k)
        /\ UNCHANGED lastUsedsFlowIdx
     \/ /\ sendingBuffer > 0
        /\ \E k \in 0 .. size - 1 :
             /\ FirstStop(k)
             /\ state[k] # "ESTABLISHED"
             /\ lastUsedsFlowIdx' = k
  /\ appEvent' = (appEvent \/ loop.sentAny)
  /\ loop' = LeaveSend
  /\ UNCHANGED <<state, size, joining, TxSeqNumber, maxSeqNb, highestAck, mapDSN, cc,
                 retx, sendingBuffer, nextTxSequence, log, written,
                 receiverVars, netVars>>

\* One iteration of the loop taken when the buffer was empty on entry.
Resend ==
  /\ loop.pc = "resend"
  /\ LET i == loop.sf
     IN IF mapDSN[i] # {} /\ Recovering(i) /\ AvailableWindow(i) > 0
        THEN SendOld(i) /\ UNCHANGED loop
        ELSE /\ loop' = LeaveSend
             /\ UNCHANGED <<dataCh, retx, TxSeqNumber, maxSeqNb, mapDSN,
                            sendingBuffer, nextTxSequence, log>>
  /\ UNCHANGED <<state, size, joining, highestAck, cc, lastUsedsFlowIdx, written,
                 appEvent, receiverVars, ackCh, lost>>

---------------------------------------------------------------------------
(* The bulk-send application: SendData fills the buffer and calls           *)
(* SendPendingData until the buffer is full.  It never closes (MaxBytes 0); *)
(* MaxData only bounds the run.                                            *)

InSendData == loop.pc = "app" \/ (loop.pc = "idle" /\ appEvent)

CanWrite == sendingBuffer < BufSize /\ written < MaxData

FillBuffer ==
  /\ InSendData /\ CanWrite
  /\ LET n == Min2(SendSize, Min2(BufSize - sendingBuffer, MaxData - written))
     IN /\ sendingBuffer' = sendingBuffer + n
        /\ written' = written + n
        /\ loop' = EnterSend(sendingBuffer + n, 0, TRUE)
  /\ appEvent' = (appEvent /\ loop.pc = "app")
  /\ UNCHANGED <<state, size, joining, TxSeqNumber, maxSeqNb, highestAck, mapDSN, cc,
                 retx, nextTxSequence, lastUsedsFlowIdx, log, receiverVars, netVars>>

EndSendData ==
  /\ InSendData /\ ~CanWrite
  /\ appEvent' = (appEvent /\ loop.pc = "app")
  /\ loop' = Idle
  /\ UNCHANGED <<senderVars, written, receiverVars, netVars>>

---------------------------------------------------------------------------
(* Joining the other subflows.                                             *)

\* The peer's addresses arrived: a SYN with MP_JOIN leaves on every other
\* subflow, and no timer is set for any of them.
InitiateSubflows ==
  /\ loop.pc = "idle" /\ size < NSub
  /\ state' = [i \in Subflow |-> IF i < size THEN state[i] ELSE "SYN_SENT"]
  /\ joining' = {i \in Subflow : i >= size}
  /\ size' = NSub
  /\ UNCHANGED <<TxSeqNumber, maxSeqNb, highestAck, mapDSN, cc, retx, sendingBuffer,
                 nextTxSequence, lastUsedsFlowIdx, log, appVars, receiverVars, netVars>>

\* The SYN+ACK arrives: the subflow is established and may send at once.
ProcessSynSent(i) ==
  /\ loop.pc = "idle" /\ i \in joining
  /\ state' = [state EXCEPT ![i] = "ESTABLISHED"]
  /\ joining' = joining \ {i}
  /\ loop' = ThenSend(i)
  /\ UNCHANGED <<size, TxSeqNumber, maxSeqNb, highestAck, mapDSN, cc, retx,
                 sendingBuffer, nextTxSequence, lastUsedsFlowIdx, log, written,
                 appEvent, receiverVars, netVars>>

\* The join's SYN is lost, for ever.  The server sends a SYN+ACK again from its
\* own timer, so that losing one only delays ProcessSynSent.
LoseJoin(i) ==
  /\ loop.pc = "idle" /\ JoinLoss /\ i \in joining
  /\ joining' = joining \ {i}
  /\ UNCHANGED <<state, size, TxSeqNumber, maxSeqNb, highestAck, mapDSN, cc, retx,
                 sendingBuffer, nextTxSequence, lastUsedsFlowIdx, log, appVars,
                 receiverVars, netVars>>

---------------------------------------------------------------------------
(* ACKs and timeouts at the client.                                        *)

\* The next window of the slow start or of congestion avoidance.  The latter
\* adds a fraction of a segment, so the whole segments grow by one or not.
Opened(w, ssthresh) == IF w < ssthresh THEN {w + 1} ELSE {w, w + 1}

\* ssthresh on a fast retransmit.  The coupled algorithms take a part of the
\* window instead of half of what is in flight.
Reduced(i) == IF HalfFlight THEN {Max2(2, BytesInFlight(i) \div 2)}
              ELSE 2 .. Max2(2, cc[i].cwnd)

\* Faulty variant: a full ACK leaves the subflow in fast recovery.
StaysInRecovery(c, w) == [c EXCEPT !.cwnd = w % Wrap, !.dupAckCount = 0]

\* A full ACK ends the recovery, with window w.
Recovered(c, w) == [c EXCEPT !.cwnd = w % Wrap, !.inFastRec = FALSE, !.dupAckCount = 0]

\* The congestion states NewAckNewReno(i, a) can end in.
AfterNewAck(i, a) ==
  LET c == cc[i]
      acked == a - (highestAck[i] + 1)
      partial == c.inFastRec /\ a < c.recover
      w == IF c.inFastRec THEN Min2(c.ssthresh, BytesInFlight(i) + 1) ELSE c.cwnd
  IN IF partial
     THEN {[c EXCEPT !.cwnd = (@ - acked + 1) % Wrap, !.dupAckCount = 0]}
     ELSE {Recovered(c, o) : o \in Opened(w, c.ssthresh)}

\* Faulty variants: off by one on either side.
DiscardTooMuch(i, a) == {m \in mapDSN[i] : m.seq > a}
DiscardTooLittle(i, a) == {m \in mapDSN[i] : m.seq >= a - 1}

\* What subflow i keeps once everything before a is acknowledged.
DiscardUpTo(i, a) == {m \in mapDSN[i] : m.seq >= a}

\* Faulty variant: the timer is kept for unsent data only.
KeepsTimerForNewData(kept) == sendingBuffer > 0

\* NewACK cancels the timer it has just restarted when nothing is left to send.
KeepsTimer(kept) == sendingBuffer > 0 \/ kept # {}

\* A new ACK.  A partial one retransmits the segment it asks for; then NewACK
\* restarts the timer, forgets what was acknowledged and sends more.
NewAckNewReno(i, a) ==
  LET partial == cc[i].inFastRec /\ a < cc[i].recover
      sent == IF partial THEN a + 1 ELSE a
  IN /\ a > highestAck[i] + 1
     /\ \E c \in AfterNewAck(i, a) : cc' = [cc EXCEPT ![i] = c]
     /\ IF partial
        THEN \E m \in mapDSN[i] :
               m.seq = a /\ dataCh' = [dataCh EXCEPT ![i] = Append(@, m)]
        ELSE UNCHANGED dataCh
     /\ mapDSN' = [mapDSN EXCEPT ![i] = DiscardUpTo(i, a)]
     /\ TxSeqNumber' = [TxSeqNumber EXCEPT ![i] = Max2(@, sent)]
     /\ highestAck' = [highestAck EXCEPT ![i] = a - 1]
     /\ retx' = [retx EXCEPT ![i] = KeepsTimer(DiscardUpTo(i, a))]
     /\ appEvent' = (appEvent \/ sendingBuffer < BufSize)
     /\ loop' = ThenSend(i)
     /\ UNCHANGED maxSeqNb

\* The third duplicate: halve the window and send the missing segment again.
FastRetransmit(i, m) ==
  /\ \E s \in Reduced(i) :
       cc' = [cc EXCEPT ![i] =
                [cwnd |-> (s + 3) % Wrap, ssthresh |-> s, dupAckCount |-> DupThresh,
                 inFastRec |-> TRUE, recover |-> maxSeqNb[i] + 1]]
  /\ dataCh' = [dataCh EXCEPT ![i] = Append(@, m)]
  /\ TxSeqNumber' = [TxSeqNumber EXCEPT ![i] = Max2(@, m.seq + 1)]
  /\ retx' = [retx EXCEPT ![i] = TRUE]
  /\ UNCHANGED loop

\* One more duplicate.  The count is only ever compared with DupThresh, so it
\* stops one above it.
CountDup(i) ==
  LET n == Min2(cc[i].dupAckCount + 1, DupThresh + 1)
  IN /\ IF cc[i].inFastRec
        THEN /\ cc' = [cc EXCEPT ![i].dupAckCount = n,
                                 ![i].cwnd = (@ + 1) % Wrap]
             /\ loop' = ThenSend(i)
        ELSE /\ cc' = [cc EXCEPT ![i].dupAckCount = n]
             /\ UNCHANGED loop
     /\ UNCHANGED <<dataCh, TxSeqNumber, retx>>

\* An ACK for a segment that was sent and that nobody acknowledged yet.
DupAck(i, a) ==
  /\ a = highestAck[i] + 1 /\ a < TxSeqNumber[i]
  /\ \E m \in mapDSN[i] :
       /\ m.seq = a
       /\ IF cc[i].dupAckCount + 1 = DupThresh /\ ~cc[i].inFastRec
          THEN FastRetransmit(i, m)
          ELSE CountDup(i)
  /\ UNCHANGED <<highestAck, mapDSN, maxSeqNb, appEvent>>

\* An ACK that says nothing new.
OldAck(i, a) ==
  /\ a <= highestAck[i] + 1
  /\ \A m \in mapDSN[i] : m.seq = a => a >= TxSeqNumber[i]
  /\ UNCHANGED <<dataCh, TxSeqNumber, retx, cc, loop, highestAck, mapDSN, maxSeqNb,
                 appEvent>>

ReceivedAck(i) ==
  /\ loop.pc = "idle"
  /\ \E k \in Arriving(ackCh[i]) :
       /\ LET a == ackCh[i][k]
          IN NewAckNewReno(i, a) \/ DupAck(i, a) \/ OldAck(i, a)
       /\ ackCh' = [ackCh EXCEPT ![i] = DropAt(@, k)]
  /\ UNCHANGED <<state, size, joining, sendingBuffer, nextTxSequence,
                 lastUsedsFlowIdx, log, written, receiverVars, lost>>

\* Faulty variant: the retransmission does not arm the timer again.
TimerForgotten(i) == FALSE

\* With nothing to send again the timer is left alone; DoRetransmit rearms it.
TimerAfterTimeout(i) == mapDSN[i] # {}

\* The retransmission timer fires.  ChanCap keeps it from filling the path.
ReTxTimeout(i) ==
  /\ loop.pc = "idle" /\ retx[i] /\ Len(dataCh[i]) < ChanCap
  /\ IF mapDSN[i] = {}
     THEN UNCHANGED <<cc, TxSeqNumber, dataCh>>
     ELSE /\ cc' = [cc EXCEPT ![i].inFastRec = FALSE, ![i].cwnd = 1,
                              ![i].ssthresh = Max2(2, BytesInFlight(i) \div 2)]
          /\ \E m \in mapDSN[i] :
               /\ m.seq = highestAck[i] + 1
               /\ dataCh' = [dataCh EXCEPT ![i] = Append(@, m)]
               /\ TxSeqNumber' = [TxSeqNumber EXCEPT ![i] = m.seq + 1]
  /\ retx' = [retx EXCEPT ![i] = TimerAfterTimeout(i)]
  /\ UNCHANGED <<state, size, joining, maxSeqNb, highestAck, mapDSN, sendingBuffer,
                 nextTxSequence, lastUsedsFlowIdx, log, appVars, receiverVars,
                 ackCh, lost>>

---------------------------------------------------------------------------
(* The server.                                                             *)

Stored(i) == {u.seq : u \in {v \in unOrdered : v.sf = i}}
StoredDSN == {u.dsn : u \in unOrdered}

\* g is the first number from b on that is not in S.
FirstGap(S, b, g) == g >= b /\ g \notin S /\ b .. g - 1 \subseteq S

\* Faulty variant: reading the stored segments moves no subflow.
PassesNothing(j, b, r) == r = b

\* Where subflow j, which expected b, stands once the stored segments are read.
PassesStored(j, b, r) == FirstGap(Stored(j), b, r)

\* Faulty variant: what was stored right behind the segment is not read.
ReadsNothing(g) == g = nextRxSequence + 1

\* g is what the connection expects once the stored segments are read.
ReadUnOrderedData(g) == FirstGap(StoredDSN, nextRxSequence + 1, g)

\* In sequence on its subflow and on the connection: deliver it, then
\* ReadUnOrderedData delivers what was stored right behind it and moves every
\* subflow over its stored segments.
DeliverData(i, p) ==
  LET b == [RxSeqNumber EXCEPT ![i] = @ + 1]
  IN /\ p.seq = RxSeqNumber[i] /\ p.dsn = nextRxSequence
     /\ \E g \in nextRxSequence + 1 .. MaxData + 1 :
          /\ ReadUnOrderedData(g)
          /\ nextRxSequence' = g
          /\ unOrdered' = {u \in unOrdered : u.dsn > g}
     /\ \E rx \in [Subflow -> 1 .. MaxData + 1] :
          /\ \A j \in Subflow : PassesStored(j, b[j], rx[j])
          /\ RxSeqNumber' = rx

\* A hole before it: keep it, unless it is already kept.  In sequence on its
\* subflow it lets the subflow go on.
StoreUnOrderedData(i, p) ==
  /\ p.seq >= RxSeqNumber[i] /\ p.dsn > nextRxSequence
  /\ IF p.dsn \in StoredDSN
     THEN UNCHANGED <<unOrdered, RxSeqNumber>>
     ELSE /\ unOrdered' = unOrdered \cup {[sf |-> i, seq |-> p.seq, dsn |-> p.dsn]}
          /\ RxSeqNumber' = [RxSeqNumber EXCEPT ![i] = IF p.seq = @ THEN @ + 1 ELSE @]
  /\ UNCHANGED nextRxSequence

RejectDuplicate(i, p) ==
  /\ p.seq < RxSeqNumber[i]
  /\ UNCHANGED receiverVars

\* Faulty variants: the ACK counts what is stored behind a hole; a duplicate is
\* dropped without an ACK.
AcknowledgeStored(i) ==
  ackCh' = [ackCh EXCEPT ![i] = Append(@, RxSeqNumber'[i] + Cardinality(Stored(i)))]
AcknowledgeNewOnly(i) ==
  IF UNCHANGED RxSeqNumber THEN UNCHANGED ackCh
  ELSE ackCh' = [ackCh EXCEPT ![i] = Append(@, RxSeqNumber'[i])]

Acknowledge(i) == ackCh' = [ackCh EXCEPT ![i] = Append(@, RxSeqNumber'[i])]

\* Every data packet is answered with what its subflow expects next.
ReceivedData(i) ==
  /\ loop.pc = "idle" /\ Len(ackCh[i]) < ChanCap
  /\ \E k \in Arriving(dataCh[i]) :
       /\ LET p == dataCh[i][k]
          IN DeliverData(i, p) \/ StoreUnOrderedData(i, p) \/ RejectDuplicate(i, p)
       /\ dataCh' = [dataCh EXCEPT ![i] = DropAt(@, k)]
  /\ Acknowledge(i)
  /\ UNCHANGED <<senderVars, appVars, lost>>

---------------------------------------------------------------------------
(* The paths.                                                              *)

LosePacket(i) ==
  /\ loop.pc = "idle" /\ lost < MaxLoss
  /\ \/ \E k \in 1 .. Len(dataCh[i]) :
          dataCh' = [dataCh EXCEPT ![i] = DropAt(@, k)] /\ UNCHANGED ackCh
     \/ \E k \in 1 .. Len(ackCh[i]) :
          ackCh' = [ackCh EXCEPT ![i] = DropAt(@, k)] /\ UNCHANGED dataCh
  /\ lost' = lost + 1
  /\ UNCHANGED <<senderVars, appVars, receiverVars>>

---------------------------------------------------------------------------
Application == FillBuffer \/ EndSendData
Sending == SendPendingData \/ EndSendPendingData \/ Resend

\* The event list is empty: no packet, no timer, no call of the application.
NoEventLeft ==
  /\ loop.pc = "idle" /\ ~appEvent /\ joining = {} /\ size = NSub
  /\ \A i \in Subflow : ~retx[i] /\ dataCh[i] = <<>> /\ ackCh[i] = <<>>

\* The simulator stops when it has no event left.
Stop == NoEventLeft /\ UNCHANGED vars

Next ==
  \/ Stop
  \/ Application \/ Sending \/ InitiateSubflows
  \/ \E i \in Subflow : \/ ProcessSynSent(i) \/ ReceivedAck(i) \/ ReTxTimeout(i)
                        \/ ReceivedData(i) \/ LosePacket(i) \/ LoseJoin(i)

Spec == Init /\ [][Next]_vars

\* The simulator executes every event it holds: packets in flight arrive, a
\* pending timer fires, a running loop goes on.  Losing a packet is no event.
Fairness ==
  /\ WF_vars(Application) /\ WF_vars(Sending)
  /\ \A i \in Subflow : /\ WF_vars(ProcessSynSent(i)) /\ WF_vars(ReceivedAck(i))
                        /\ WF_vars(ReTxTimeout(i)) /\ WF_vars(ReceivedData(i))

FairSpec == Spec /\ Fairness

---------------------------------------------------------------------------
(* Properties.                                                             *)

\* Type correctness.
TypeOK ==
  /\ state \in [Subflow -> {"CLOSED", "SYN_SENT", "ESTABLISHED"}]
  /\ size \in 1 .. NSub
  /\ joining \subseteq Subflow
  /\ TxSeqNumber \in [Subflow -> Nat \ {0}]
  /\ maxSeqNb \in [Subflow -> Nat]
  /\ highestAck \in [Subflow -> Nat]
  /\ mapDSN \in [Subflow -> SUBSET Segment]
  /\ cc \in [Subflow -> Congestion]
  /\ retx \in [Subflow -> BOOLEAN]
  /\ sendingBuffer \in 0 .. BufSize
  /\ nextTxSequence \in Nat \ {0}
  /\ lastUsedsFlowIdx \in 0 .. size - 1
  /\ written \in 0 .. MaxData
  /\ appEvent \in BOOLEAN
  /\ loop \in Loop
  /\ RxSeqNumber \in [Subflow -> Nat \ {0}]
  /\ nextRxSequence \in Nat \ {0}
  /\ unOrdered \subseteq [sf : Subflow, seq : Nat, dsn : Nat]
  /\ dataCh \in [Subflow -> Seq(Segment)]
  /\ ackCh \in [Subflow -> Seq(Nat)]
  /\ lost \in 0 .. MaxLoss
  /\ log \in [Subflow -> Seq(Nat)]

\* ReceivedData stops the program (NS_FATAL_ERROR, NS_ASSERT) when a packet
\* new to its subflow carries data the connection already delivered, or one
\* ahead on its subflow is not ahead on the connection.  Whatever was
\* retransmitted, reordered or stored meanwhile, no packet in flight is such.
ReceiverNeverAborts ==
  \A i \in Subflow : \A k \in 1 .. Len(dataCh[i]) :
    LET p == dataCh[i][k]
    IN /\ p.seq = RxSeqNumber[i] => p.dsn >= nextRxSequence
       /\ p.seq > RxSeqNumber[i] => p.dsn > nextRxSequence

\* Every segment given to a subflow is at the server or still kept by that
\* subflow for retransmission: no interleaving of ACKs, timeouts and losses
\* makes the sender forget data that has not arrived.
NothingForgotten ==
  \A i \in Subflow : \A s \in 1 .. Len(log[i]) :
    \/ s < RxSeqNumber[i]
    \/ [sf |-> i, seq |-> s, dsn |-> log[i][s]] \in unOrdered
    \/ [seq |-> s, dsn |-> log[i][s]] \in mapDSN[i]

\* The assertions of the sender: what is kept is exactly what was sent and not
\* acknowledged (so a retransmission, a partial ACK and a resend after a
\* timeout all find their segment), and no ACK in flight is older than that
\* and still kept, nor newer than what was sent.
SenderNeverAborts ==
  \A i \in Subflow :
    /\ {m.seq : m \in mapDSN[i]} = highestAck[i] + 1 .. maxSeqNb[i]
    /\ highestAck[i] < TxSeqNumber[i] /\ TxSeqNumber[i] <= maxSeqNb[i] + 1
    /\ \A k \in 1 .. Len(ackCh[i]) : ackCh[i][k] <= maxSeqNb[i] + 1

\* The one timer event of a subflow is shared, cancelled and rearmed from many
\* places, and it is the only thing that repairs the loss of the last packets
\* of a flight: it is pending whenever a subflow waits for an ACK.
TimerCoversFlight ==
  \A i \in Subflow : mapDSN[i] # {} => retx[i]

\* The client never believes that the server has more than it has.
AcksAreSound ==
  \A i \in Subflow :
    /\ highestAck[i] < RxSeqNumber[i]
    /\ \A k \in 1 .. Len(ackCh[i]) : ackCh[i][k] <= RxSeqNumber[i]

\* While no join is pending, a subflow with nothing in flight and an open
\* window never sits beside unsent data: every handler that can open a window
\* also runs the scheduler, and the scheduler looks at every subflow.
NoIdleSubflow ==
  (/\ loop.pc = "idle" /\ sendingBuffer > 0
   /\ \A i \in 0 .. size - 1 : state[i] = "ESTABLISHED")
  => \A i \in 0 .. size - 1 : mapDSN[i] # {}

\* A subflow in fast recovery waits for an ACK that can still come: the point
\* where recovery ends was sent and is not acknowledged, so partial ACKs find
\* a segment to retransmit and recovery ends with the flight it began in.
RecoveryPointOutstanding ==
  \A i \in Subflow : cc[i].inFastRec =>
    highestAck[i] + 1 < cc[i].recover /\ cc[i].recover <= maxSeqNb[i] + 1

\* The simulation does not run out of events with work undone: all that was
\* to be written was written, delivered and acknowledged.
StopsOnlyWhenDone ==
  NoEventLeft => /\ written = MaxData /\ nextRxSequence = MaxData + 1
                 /\ \A i \in Subflow : mapDSN[i] = {}

\* Whatever the application writes is delivered, whatever is lost, delayed or
\* timed out on the way.
AllDelivered ==
  \A n \in 1 .. MaxData : written >= n ~> nextRxSequence > n

\* After a timeout a subflow sends again what it kept, one window at a time,
\* from handlers that run for other reasons (no one reruns the loop): it does
\* get back to the highest segment it sent.
TimeoutRecoveryEnds == \A i \in Subflow : Recovering(i) ~> ~Recovering(i)

\* The connection as a stream: the sender's buffers and the receiver's queues
\* implement the abstract promise.
Stream == INSTANCE MptcpStream WITH
  sent <- nextTxSequence - 1,
  held <- UNION {{m.dsn : m \in mapDSN[i]} : i \in Subflow},
  have <- 1 .. nextRxSequence - 1 \cup StoredDSN,
  delivered <- nextRxSequence - 1

\* Every step of the transfer is a step of the stream.
ImplementsStream == Stream!StreamSpec

\* And the stream makes progress: what is written is sent, arrives and is
\* acknowledged.
ImplementsFairStream == Stream!FairStreamSpec

---------------------------------------------------------------------------
(* The inductive invariant behind the safety properties.                   *)

\* What the sender keeps, what is in flight and what the receiver expects lie
\* where they should on every subflow's sequence numbers.
SequenceNumbersInStep ==
  \A i \in Subflow :
    /\ {m.seq : m \in mapDSN[i]} = highestAck[i] + 1 .. maxSeqNb[i]
    /\ highestAck[i] < TxSeqNumber[i] /\ TxSeqNumber[i] <= maxSeqNb[i] + 1
    /\ highestAck[i] < RxSeqNumber[i] /\ RxSeqNumber[i] <= maxSeqNb[i] + 1
    /\ \A k \in 1 .. Len(ackCh[i]) : ackCh[i][k] <= RxSeqNumber[i]
    /\ \A k \in 1 .. Len(dataCh[i]) : dataCh[i][k].seq \in 1 .. maxSeqNb[i]
    /\ \A u \in unOrdered : u.sf = i => u.seq \in 1 .. maxSeqNb[i]

\* No segment is sent first on two subflows, and a subflow's segments are in
\* the order of the connection.
LogInOrder ==
  /\ \A i \in Subflow :
       /\ Len(log[i]) = maxSeqNb[i]
       /\ \A s \in 1 .. maxSeqNb[i] : log[i][s] \in 1 .. nextTxSequence - 1
       /\ \A s, t \in 1 .. maxSeqNb[i] : s < t => log[i][s] < log[i][t]
  /\ \A i, j \in Subflow : \A s \in 1 .. maxSeqNb[i], t \in 1 .. maxSeqNb[j] :
       i # j => log[i][s] # log[j][t]

\* Every copy of a segment carries the DSN it was first sent with.
CopiesAgree ==
  /\ \A i \in Subflow :
       /\ \A m \in mapDSN[i] : m.dsn = log[i][m.seq]
       /\ \A k \in 1 .. Len(dataCh[i]) : dataCh[i][k].dsn = log[i][dataCh[i][k].seq]
  /\ \A u \in unOrdered : u.dsn = log[u.sf][u.seq]

\* The two levels of the receiver agree: a subflow has passed a segment just
\* when the connection has it or stores it for the subflow.
LevelsAgree ==
  /\ nextRxSequence <= nextTxSequence
  /\ \A u \in unOrdered : u.dsn > nextRxSequence
  /\ \A i \in Subflow : \A s \in 1 .. maxSeqNb[i] :
       /\ log[i][s] < nextRxSequence => s < RxSeqNumber[i]
       /\ s < RxSeqNumber[i] =>
            \/ log[i][s] < nextRxSequence
            \/ [sf |-> i, seq |-> s, dsn |-> log[i][s]] \in unOrdered

\* All of it, as one property for TLC: where each copy of each segment is and
\* what both ends believe of it fit together in every reachable state.
TransferInv == SequenceNumbersInStep /\ LogInOrder /\ CopiesAgree /\ LevelsAgree
=============================================================================
