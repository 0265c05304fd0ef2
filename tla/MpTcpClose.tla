----------------------------- MODULE MpTcpClose -----------------------------
(***************************************************************************)
(* Closing one MPTCP connection: the application's Close, deferred until    *)
(* the send buffer is empty, the FIN of every subflow, the FIN+ACK that     *)
(* answers it, and the timers, resets and end points on the way to CLOSED.  *)
(*                                                                         *)
(* The run starts when the application has written its last segment.  Data  *)
(* still has to be sent, lost, sent again and acknowledged, because a FIN   *)
(* counts only after the data of its subflow.  Congestion windows are left  *)
(* open here: a subflow may send while fewer than Window of its segments    *)
(* are unacknowledged, and must when none is (MpTcpTransfer has the         *)
(* windows).  What a subflow keeps for retransmission is what it sent and   *)
(* was not acknowledged, as proved of MpTcpTransfer (SenderSafe).  The      *)
(* server takes data as MpTcpTransfer's server does: its actions are used   *)
(* here through INSTANCE.                                                  *)
(*                                                                         *)
(* The server's listening socket is bound to any address and outlives the   *)
(* connection, so a packet for a subflow whose end point is gone reaches    *)
(* that socket, which drops whatever is not a SYN.  Paths are FIFO.         *)
(*                                                                         *)
(* A join may still be going on: its SYN, which the client sends once, is   *)
(* on its way when the run starts, and then the server's SYN+ACK, resent    *)
(* from a timer, and the client's last ACK are packets like all others.     *)
(***************************************************************************)
EXTENDS Integers, Sequences, FiniteSets

CONSTANTS
  NSub,      \* number of subflows
  Late,      \* subflows whose SYN is on its way when the run starts
  MaxData,   \* most segments in the send buffer when the run starts
  Window,    \* most segments a subflow may have unacknowledged
  MaxClose,  \* how often the application calls Close (it does up to twice)
  ChanCap,   \* a timer waits until its path holds fewer packets than this
  MaxLoss,   \* how many packets the network may lose
  CnRetries  \* how often the server sends the SYN+ACK of a join

ASSUME CloseAssumption ==
  /\ NSub \in Nat \ {0} /\ Late \subseteq 1 .. NSub - 1
  /\ MaxData \in Nat /\ Window \in Nat \ {0} /\ MaxClose \in Nat
  /\ ChanCap \in Nat \ {0} /\ MaxLoss \in Nat /\ CnRetries \in Nat \ {0}

Subflow == 0 .. NSub - 1

VARIABLES
  \* the client
  state,          \* state of each subflow
  TxSeqNumber,    \* next sequence number to send, per subflow
  highestAck,     \* highest sequence number acknowledged, per subflow
  sent,           \* the DSNs first sent on each subflow, in order
  retxEvent,      \* "data": ReTxTimeout is pending; "fin": the FIN's resend is
  sendingBuffer,  \* segments written and not yet given to a subflow
  nextTxSequence, \* DSN of the next segment given to a subflow
  closeOnEmpty,   \* m_closeOnEmpty: Close was called with a full buffer
  currentSublow,  \* the subflow used last
  scheduled,      \* subflows with a DoClose scheduled
  closes,         \* how often Close was called
  reset,          \* a reset has torn the connection down
  loop,           \* which loop of SendPendingData is running
  \* the server
  peerState,      \* state of each subflow, "NONE" before its SYN arrives
  cnCount,        \* how often the SYN+ACK may still be sent, per subflow
  finSeq,         \* sequence number of the FIN received, 0 for none
  RxSeqNumber,    \* next sequence number expected, per subflow
  nextRxSequence, \* next DSN expected
  unOrdered,      \* segments stored until the hole before them is filled
  \* the network
  toServer, toClient, \* packets in flight, per subflow, oldest first
  lost            \* packets lost so far

sendVars == <<TxSeqNumber, highestAck, sent, sendingBuffer, nextTxSequence>>
closeVars == <<closeOnEmpty, currentSublow, scheduled, closes, reset>>
clientVars == <<state, sendVars, retxEvent, closeVars, loop>>
dataVars == <<RxSeqNumber, nextRxSequence, unOrdered>>
serverVars == <<peerState, cnCount, finSeq, dataVars>>
netVars == <<toServer, toClient, lost>>
vars == <<clientVars, serverVars, netVars>>

\* The server's handling of data is MpTcpTransfer's.  A consumed FIN takes a
\* sequence number too, hence one more.
Receiver == INSTANCE MpTcpTransfer WITH
  MaxData <- MaxData + 1, BufSize <- 1, SendSize <- 1, RecvWnd <- 1,
  InitSsthresh <- 1, DupThresh <- 1, HalfFlight <- TRUE, Wrap <- 2,
  Reorder <- FALSE, JoinLoss <- FALSE, size <- NSub, joining <- {}, maxSeqNb <- highestAck, mapDSN <- sent,
  cc <- sent, retx <- retxEvent, lastUsedsFlowIdx <- currentSublow,
  written <- MaxData, appEvent <- closeOnEmpty, dataCh <- toServer,
  ackCh <- toClient, log <- sent

---------------------------------------------------------------------------
Max2(a, b) == IF a > b THEN a ELSE b

Established == {i \in Subflow : state[i] = "ESTABLISHED"}
ClientClosed == \A i \in Subflow : state[i] = "CLOSED"
ServerClosed == /\ \A i \in Subflow : peerState[i] \in {"NONE", "CLOSED"}
                /\ \E i \in Subflow : peerState[i] = "CLOSED"

maxSeqNb(i) == Len(sent[i])
Recovering(i) == maxSeqNb(i) > TxSeqNumber[i] - 1
Unacked(i) == TxSeqNumber[i] - (highestAck[i] + 1)
WindowOpen(i) == Unacked(i) < Window
WindowClosed(i) == Unacked(i) > 0

\* The packets.  Data carries no flag.  LastAck ends the handshake of a join,
\* and the close of a subflow, where the server looks at its number.
JoinSyn == [type |-> "JOIN", seq |-> 0, dsn |-> 0]
Data(s, d) == [type |-> "DATA", seq |-> s, dsn |-> d]
Fin(s) == [type |-> "FIN", seq |-> s, dsn |-> 0]
LastAck(s) == [type |-> "ACK", seq |-> s, dsn |-> 0]
Rst == [type |-> "RST", seq |-> 0, dsn |-> 0]
Ack(a) == [type |-> "ACK", ack |-> a]
SynAck == [type |-> "SYNACK", ack |-> 1]
FinAck(a) == [type |-> "FINACK", ack |-> a]
PeerRst == [type |-> "RST", ack |-> 0]

InFlight(i) == Len(toServer[i]) + Len(toClient[i])

Idle == [pc |-> "idle", sf |-> 0]

\* SendPendingData(i) with p segments in the buffer.
EnterSend(p, i) == [pc |-> IF p = 0 THEN "resend" ELSE "send", sf |-> i]

Init ==
  /\ state = [i \in Subflow |-> IF i \in Late THEN "SYN_SENT" ELSE "ESTABLISHED"]
  /\ TxSeqNumber = [i \in Subflow |-> 1]
  /\ highestAck = [i \in Subflow |-> 0]
  /\ sent = [i \in Subflow |-> <<>>]
  /\ retxEvent = [i \in Subflow |-> "none"]
  /\ sendingBuffer \in 0 .. MaxData
  /\ nextTxSequence = 1
  /\ closeOnEmpty = FALSE
  /\ currentSublow = 0
  /\ scheduled = {}
  /\ closes = 0
  /\ reset = FALSE
  /\ loop = EnterSend(sendingBuffer, 0)   \* the application's last write
  /\ peerState = [i \in Subflow |-> IF i \in Late THEN "NONE" ELSE "ESTABLISHED"]
  /\ cnCount = [i \in Subflow |-> CnRetries]
  /\ finSeq = [i \in Subflow |-> 0]
  /\ RxSeqNumber = [i \in Subflow |-> 1]
  /\ nextRxSequence = 1
  /\ unOrdered = {}
  /\ toServer = [i \in Subflow |-> IF i \in Late THEN <<JoinSyn>> ELSE <<>>]
  /\ toClient = [i \in Subflow |-> <<>>]
  /\ lost = 0

---------------------------------------------------------------------------
(* Sending, and the FINs that leave with the last segment.                 *)

Put(ch, i, p) == [ch EXCEPT ![i] = Append(@, p)]

\* SetReTxTimeout and the end of SendEmptyPacket leave a pending event alone.
Arm(rt, i, kind) == [rt EXCEPT ![i] = IF @ = "none" THEN kind ELSE @]

\* Faulty variants: the FIN takes the next sequence number even while the
\* subflow sends again; only the first subflow is closed; subflows that are
\* not established are closed too; the index is one too high.
FinAtNext(i) == TxSeqNumber[i]
OnlyFirst(f) == {}
WhateverTheState(f) == Subflow \ {f}
OneTooHigh(f) == {j + 1 : j \in Established \ {f}}

\* A FIN follows all that the subflow ever sent.
FinNumber(i) == Len(sent'[i]) + 1

\* The subflows whose DoClose is scheduled for some microseconds later.
OtherEstablished(f) == Established \ {f}

\* DoClose on an established subflow, with the packets ch and the timers rt.
SendFin(f, ch, rt) ==
  /\ toServer' = Put(ch, f, Fin(FinNumber(f)))
  /\ retxEvent' = Arm(rt, f, "fin")
  /\ state' = [state EXCEPT ![f] = "FIN_WAIT_1"]

\* SendAllSubflowsFIN: the first established subflow is closed at once.
SendAllSubflowsFIN(ch, rt) ==
  \E f \in Established :
    /\ \A j \in Established : f <= j
    /\ SendFin(f, ch, rt)
    /\ scheduled' = scheduled \cup OtherEstablished(f)

\* SendDataPacket puts p on subflow k; every packet sent with an empty buffer
\* after Close was called runs SendAllSubflowsFIN.
SendDataPacket(k, p) ==
  LET ch == Put(toServer, k, p)
      rt == Arm(retxEvent, k, "data")
  IN /\ TxSeqNumber' = [TxSeqNumber EXCEPT ![k] = @ + 1]
     /\ currentSublow' = k
     /\ IF closeOnEmpty /\ sendingBuffer' = 0 /\ Established # {}
        THEN SendAllSubflowsFIN(ch, rt)
        ELSE /\ toServer' = ch /\ retxEvent' = rt
             /\ UNCHANGED <<state, scheduled>>

SendNew(k) ==
  /\ ~Recovering(k) /\ WindowOpen(k)
  /\ sent' = [sent EXCEPT ![k] = Append(@, nextTxSequence)]
  /\ sendingBuffer' = sendingBuffer - 1
  /\ nextTxSequence' = nextTxSequence + 1
  /\ SendDataPacket(k, Data(TxSeqNumber[k], nextTxSequence))

SendOld(k) ==
  /\ Recovering(k) /\ WindowOpen(k)
  /\ UNCHANGED <<sent, sendingBuffer, nextTxSequence>>
  /\ SendDataPacket(k, Data(TxSeqNumber[k], sent[k][TxSeqNumber[k]]))

\* One iteration of either loop of SendPendingData.  Which established subflow
\* the scan finds is left open.
SendPendingData ==
  /\ \/ loop.pc = "send" /\ sendingBuffer > 0
        /\ \E k \in Established : SendNew(k) \/ SendOld(k)
     \/ loop.pc = "resend" /\ SendOld(loop.sf)
  /\ UNCHANGED <<highestAck, closeOnEmpty, closes, reset, loop, serverVars,
                 toClient, lost>>

\* The loop ends without a window, or stuck on a subflow that is not established.
EndSendPendingData ==
  /\ \/ /\ loop.pc = "send"
        /\ sendingBuffer = 0 \/ \A k \in Subflow : k \in Established => WindowClosed(k)
           \/ Established # Subflow
     \/ /\ loop.pc = "resend"
        /\ ~Recovering(loop.sf) \/ WindowClosed(loop.sf)
  /\ loop' = Idle
  /\ UNCHANGED <<state, sendVars, retxEvent, closeVars, serverVars, netVars>>

---------------------------------------------------------------------------
(* Close.                                                                  *)

\* DoClose does nothing on a subflow that is closing or closed already.  On
\* SYN_SENT and CLOSING it would reset the connection: CloseNeverResets.
DoClose(i) ==
  IF state[i] = "ESTABLISHED" THEN SendFin(i, toServer, retxEvent)
  ELSE UNCHANGED <<toServer, retxEvent, state>>

\* The application calls Close: at its last byte and when it is stopped.
Close ==
  /\ loop.pc = "idle" /\ closes < MaxClose
  /\ closes' = closes + 1
  /\ UNCHANGED <<sendVars, currentSublow, scheduled, reset, loop, serverVars,
                 toClient, lost>>
  /\ IF sendingBuffer > 0
     THEN closeOnEmpty' = TRUE /\ UNCHANGED <<state, toServer, retxEvent>>
     ELSE DoClose(currentSublow) /\ UNCHANGED closeOnEmpty

ScheduledDoClose(i) ==
  /\ loop.pc = "idle" /\ i \in scheduled
  /\ scheduled' = scheduled \ {i}
  /\ UNCHANGED <<sendVars, closeOnEmpty, currentSublow, closes, reset, loop,
                 serverVars, toClient, lost>>
  /\ DoClose(i)

---------------------------------------------------------------------------
(* The client receives.                                                    *)

\* Faulty variant: the last ACK of the join's handshake is left out.
LeavesItOut(i) == toServer

\* The ACK that answers a SYN+ACK.
AnswerSynAck(i) == Put(toServer, i, LastAck(TxSeqNumber[i]))

\* ProcessSynSent: the SYN+ACK of a join; the new subflow is used at once.
ProcessSynSent(i, p) ==
  /\ p.type = "SYNACK" /\ state[i] = "SYN_SENT"
  /\ state' = [state EXCEPT ![i] = "ESTABLISHED"]
  /\ toServer' = AnswerSynAck(i)
  /\ currentSublow' = i
  /\ loop' = EnterSend(sendingBuffer, i)
  /\ UNCHANGED <<TxSeqNumber, highestAck, retxEvent, reset>>

\* ProcessEstablished and ProcessWait take no action on another SYN+ACK.
DuplicatedSynAck(i, p) ==
  /\ p.type = "SYNACK" /\ state[i] \in {"ESTABLISHED", "FIN_WAIT_1"}
  /\ currentSublow' = i
  /\ UNCHANGED <<state, retxEvent, reset, TxSeqNumber, highestAck, toServer, loop>>

\* Faulty variant: NewACK cancels the timer although the FIN is unanswered.
KeepsTimerForData(i, a) == sendingBuffer > 0 \/ a <= maxSeqNb(i)

\* NewACK cancels the timer it restarted when nothing is left to send again.
KeepsTimer(i, a) ==
  \/ sendingBuffer > 0 \/ a <= maxSeqNb(i)
  \/ state[i] \in {"FIN_WAIT_1", "CLOSING"}

\* A new ACK; a partial one sends the segment it asks for again.
NewACK(i, a) ==
  /\ a > highestAck[i] + 1
  /\ \/ /\ UNCHANGED toServer
        /\ TxSeqNumber' = [TxSeqNumber EXCEPT ![i] = Max2(@, a)]
     \/ /\ a <= maxSeqNb(i)
        /\ toServer' = Put(toServer, i, Data(a, sent[i][a]))
        /\ TxSeqNumber' = [TxSeqNumber EXCEPT ![i] = Max2(@, a + 1)]
  /\ highestAck' = [highestAck EXCEPT ![i] = a - 1]
  /\ retxEvent' = [retxEvent EXCEPT ![i] = IF KeepsTimer(i, a) THEN "data" ELSE "none"]
  /\ loop' = EnterSend(sendingBuffer, i)

\* A duplicate ACK is counted, opens the window, or sends the segment again.
DupAck(i, a) ==
  /\ a = highestAck[i] + 1 /\ a < TxSeqNumber[i] /\ a <= maxSeqNb(i)
  /\ \/ UNCHANGED <<toServer, TxSeqNumber, retxEvent, loop>>
     \/ /\ loop' = EnterSend(sendingBuffer, i)
        /\ UNCHANGED <<toServer, TxSeqNumber, retxEvent>>
     \/ /\ toServer' = Put(toServer, i, Data(a, sent[i][a]))
        /\ TxSeqNumber' = [TxSeqNumber EXCEPT ![i] = Max2(@, a + 1)]
        /\ retxEvent' = Arm(retxEvent, i, "data")
        /\ UNCHANGED loop
  /\ UNCHANGED highestAck

OldAck(i, a) ==
  /\ a <= highestAck[i] + 1
  /\ a <= highestAck[i] \/ a >= TxSeqNumber[i] \/ a > maxSeqNb(i)
  /\ UNCHANGED <<toServer, TxSeqNumber, retxEvent, loop, highestAck>>

\* ProcessEstablished and ProcessWait on an ACK.
ReceivedAck(i, p) ==
  /\ p.type = "ACK" /\ state[i] \in {"ESTABLISHED", "FIN_WAIT_1"}
  /\ NewACK(i, p.ack) \/ DupAck(i, p.ack) \/ OldAck(i, p.ack)
  /\ currentSublow' = i
  /\ UNCHANGED <<state, reset>>

\* ProcessWait on the FIN+ACK: it acknowledges the FIN, so the subflow goes
\* through CLOSING to TIME_WAIT, drops its timers and answers.
ReceivedFinAck(i, p) ==
  LET h == Max2(highestAck[i], p.ack - 1)
      t == Max2(TxSeqNumber[i], p.ack)
      done == sendingBuffer = 0 /\ h >= maxSeqNb(i) /\ p.ack = h + 1
  IN /\ p.type = "FINACK" /\ state[i] = "FIN_WAIT_1"
     /\ highestAck' = [highestAck EXCEPT ![i] = h]
     /\ TxSeqNumber' = [TxSeqNumber EXCEPT ![i] = t]
     /\ state' = [state EXCEPT ![i] = IF done THEN "TIME_WAIT" ELSE "CLOSING"]
     /\ retxEvent' = [retxEvent EXCEPT ![i] = IF done THEN "none" ELSE "data"]
     /\ toServer' = Put(toServer, i, LastAck(t))
     /\ currentSublow' = i
     /\ UNCHANGED <<reset, loop>>

\* A reset on one subflow closes all of them, whatever they have in flight.
CloseAndNotifyAllSubflows(i, p) ==
  /\ p.type = "RST" /\ state[i] \in {"SYN_SENT", "ESTABLISHED", "FIN_WAIT_1"}
  /\ state' = [j \in Subflow |-> "CLOSED"]
  /\ retxEvent' = [j \in Subflow |-> "none"]
  /\ reset' = TRUE
  /\ currentSublow' = i
  /\ UNCHANGED <<TxSeqNumber, highestAck, toServer, loop>>

\* A closed subflow answers with a reset, except where its end point is left
\* registered for a connection that is gone.
AnswersClosed(i) == reset \/ i = 0 \/ ~ClientClosed

ReceivedLate(i, p) ==
  /\ state[i] \in {"CLOSING", "TIME_WAIT", "CLOSED"}
  /\ toServer' = IF state[i] = "CLOSED" /\ p.type # "RST" /\ AnswersClosed(i)
                 THEN Put(toServer, i, Rst) ELSE toServer
  /\ currentSublow' = i
  /\ UNCHANGED <<state, retxEvent, reset, TxSeqNumber, highestAck, loop>>

ClientReceive(i) ==
  /\ loop.pc = "idle" /\ toClient[i] # <<>>
  /\ toClient' = [toClient EXCEPT ![i] = Tail(@)]
  /\ UNCHANGED <<sent, sendingBuffer, nextTxSequence, closeOnEmpty, scheduled,
                 closes, serverVars, lost>>
  /\ LET p == Head(toClient[i])
     IN \/ ProcessSynSent(i, p) \/ DuplicatedSynAck(i, p)
        \/ ReceivedAck(i, p) \/ ReceivedFinAck(i, p)
        \/ CloseAndNotifyAllSubflows(i, p) \/ ReceivedLate(i, p)

---------------------------------------------------------------------------
(* The client's timers.                                                    *)

\* The FIN's own event sends it again.
ResendFin(i) ==
  /\ retxEvent[i] = "fin"
  /\ toServer' = Put(toServer, i, Fin(FinNumber(i)))
  /\ UNCHANGED <<TxSeqNumber, retxEvent>>

\* ReTxTimeout sends the first unacknowledged segment again, or the FIN when
\* there is none; an established subflow without data lets the timer rest.
RetransmitTimeout(i) ==
  /\ retxEvent[i] = "data"
  /\ \/ /\ highestAck[i] < maxSeqNb(i)
        /\ toServer' = Put(toServer, i, Data(highestAck[i] + 1, sent[i][highestAck[i] + 1]))
        /\ TxSeqNumber' = [TxSeqNumber EXCEPT ![i] = highestAck[i] + 2]
        /\ UNCHANGED retxEvent
     \/ /\ highestAck[i] >= maxSeqNb(i) /\ state[i] \in {"FIN_WAIT_1", "CLOSING"}
        /\ toServer' = Put(toServer, i, Fin(FinNumber(i)))
        /\ TxSeqNumber' = [TxSeqNumber EXCEPT ![i] = highestAck[i] + 1]
        /\ retxEvent' = [retxEvent EXCEPT ![i] = "fin"]
     \/ /\ highestAck[i] >= maxSeqNb(i) /\ state[i] = "ESTABLISHED"
        /\ retxEvent' = [retxEvent EXCEPT ![i] = "none"]
        /\ UNCHANGED <<toServer, TxSeqNumber>>

ReTxTimeout(i) ==
  /\ loop.pc = "idle" /\ InFlight(i) < ChanCap
  /\ UNCHANGED <<state, highestAck, sent, sendingBuffer, nextTxSequence, closeVars,
                 loop, serverVars, toClient, lost>>
  /\ ResendFin(i) \/ RetransmitTimeout(i)

\* m_timewaitEvent: every subflow in TIME_WAIT is closed by the first of them.
CloseMultipathConnection ==
  /\ loop.pc = "idle" /\ \E i \in Subflow : state[i] = "TIME_WAIT"
  /\ state' = [i \in Subflow |-> IF state[i] = "TIME_WAIT" THEN "CLOSED" ELSE state[i]]
  /\ UNCHANGED <<sendVars, retxEvent, closeVars, loop, serverVars, netVars>>

---------------------------------------------------------------------------
(* The server.                                                             *)

\* ProcessListen: the SYN of a join makes a new subflow, and a SYN+ACK leaves.
ProcessListen(i, p) ==
  /\ p.type = "JOIN" /\ peerState[i] = "NONE" /\ ~ServerClosed
  /\ peerState' = [peerState EXCEPT ![i] = "SYN_RCVD"]
  /\ cnCount' = [cnCount EXCEPT ![i] = CnRetries - 1]
  /\ toClient' = Put(toClient, i, SynAck)
  /\ UNCHANGED <<finSeq, dataVars>>

\* ProcessSynRcvd: the last ACK, or data in its place, ends the handshake.
EndHandshake(i) ==
  peerState' = [peerState EXCEPT ![i] = IF @ = "SYN_RCVD" THEN "ESTABLISHED" ELSE @]

ProcessSynRcvd(i, p) ==
  /\ p.type = "ACK" /\ peerState[i] = "SYN_RCVD"
  /\ EndHandshake(i)
  /\ UNCHANGED <<toClient, finSeq, dataVars>>

\* Faulty variants: a FIN counts as soon as it is there; one that came before
\* its data is consumed by the data.
FinishedAtOnce(i) == finSeq'[i] > 0

\* The FIN of subflow i has been consumed.
Finished(i) == finSeq'[i] > 0 /\ finSeq'[i] < RxSeqNumber'[i]

\* The end of a handler that answers with p: DoPeerClose if the FIN has been
\* consumed.  Its FIN+ACK follows what the handler sent.
ThenPeerClose(i, ch) ==
  IF Finished(i) /\ peerState[i] = "ESTABLISHED"
  THEN /\ toClient' = Put(ch, i, FinAck(RxSeqNumber'[i]))
       /\ peerState' = [peerState EXCEPT ![i] = "LAST_ACK"]
  ELSE toClient' = ch /\ EndHandshake(i)

ReceivedData(i, p) ==
  /\ p.type = "DATA" /\ peerState[i] \in {"SYN_RCVD", "ESTABLISHED", "LAST_ACK"}
  /\ UNCHANGED finSeq
  /\ \/ /\ Receiver!DeliverData(i, p)
        /\ ThenPeerClose(i, Put(toClient, i, Ack(RxSeqNumber'[i])))
     \/ /\ Receiver!StoreUnOrderedData(i, p) \/ Receiver!RejectDuplicate(i, p)
        /\ toClient' = Put(toClient, i, Ack(RxSeqNumber'[i]))
        /\ EndHandshake(i)

\* PeerClose: SetFinSequence consumes the FIN if it is the next number expected.
PeerClose(i, p) ==
  /\ p.type = "FIN" /\ peerState[i] = "ESTABLISHED"
  /\ finSeq' = [finSeq EXCEPT ![i] = p.seq]
  /\ RxSeqNumber' = [RxSeqNumber EXCEPT ![i] = IF @ = p.seq THEN @ + 1 ELSE @]
  /\ UNCHANGED <<nextRxSequence, unOrdered>>
  /\ ThenPeerClose(i, toClient)

\* ProcessLastAck on anything but data.
ProcessLastAck(i, p) ==
  /\ p.type # "DATA" /\ peerState[i] = "LAST_ACK"
  /\ \/ /\ p.type = "FIN"
        /\ toClient' = Put(toClient, i, FinAck(RxSeqNumber[i]))
        /\ UNCHANGED peerState
     \/ /\ p.type = "RST" \/ (p.type = "ACK" /\ p.seq = RxSeqNumber[i])
        /\ peerState' = [peerState EXCEPT ![i] = "CLOSED"]
        /\ UNCHANGED toClient
     \/ /\ p.type = "ACK" /\ p.seq # RxSeqNumber[i]
        /\ UNCHANGED <<peerState, toClient>>
  /\ UNCHANGED <<finSeq, dataVars>>

\* A reset closes the server's whole connection.  So does a FIN where the last
\* ACK of the handshake was expected, and it is answered with a reset.
PeerReset(i, p) ==
  /\ \/ /\ p.type = "RST" /\ peerState[i] \in {"SYN_RCVD", "ESTABLISHED"}
        /\ UNCHANGED toClient
     \/ /\ p.type = "FIN" /\ peerState[i] = "SYN_RCVD"
        /\ toClient' = Put(toClient, i, PeerRst)
  /\ peerState' = [j \in Subflow |-> IF peerState[j] = "NONE" THEN "NONE" ELSE "CLOSED"]
  /\ UNCHANGED <<finSeq, dataVars>>

\* A closed master subflow keeps its end point while others are open and
\* answers with a reset; what is sent to a closed slave is dropped, and so is
\* a join that finds the connection gone.
ReceivedClosed(i, p) ==
  /\ peerState[i] = "CLOSED" \/ ServerClosed
  /\ toClient' = IF i = 0 /\ ~ServerClosed /\ p.type # "RST"
                 THEN Put(toClient, i, PeerRst) ELSE toClient
  /\ UNCHANGED <<peerState, finSeq, dataVars>>

ServerReceive(i) ==
  /\ loop.pc = "idle" /\ toServer[i] # <<>>
  /\ LET p == Head(toServer[i])
     IN \/ ProcessListen(i, p)
        \/ /\ UNCHANGED cnCount
           /\ \/ ProcessSynRcvd(i, p) \/ ReceivedData(i, p) \/ PeerClose(i, p)
              \/ ProcessLastAck(i, p) \/ PeerReset(i, p) \/ ReceivedClosed(i, p)
  /\ toServer' = [toServer EXCEPT ![i] = Tail(@)]
  /\ UNCHANGED <<clientVars, lost>>

\* Faulty variant: the FIN+ACK is not sent again.
SentOnce(i) == toClient

\* The FIN+ACK's resend and m_lastAckEvent were set for the same time, one
\* after the other: the FIN+ACK leaves once more and the subflow is closed.
ResendFinAck(i) == Put(toClient, i, FinAck(RxSeqNumber[i]))

LastAckTimeout(i) ==
  /\ loop.pc = "idle" /\ peerState[i] = "LAST_ACK" /\ InFlight(i) < ChanCap
  /\ toClient' = ResendFinAck(i)
  /\ peerState' = [peerState EXCEPT ![i] = "CLOSED"]
  /\ UNCHANGED <<clientVars, cnCount, finSeq, dataVars, toServer, lost>>

\* retxEvent of a subflow in SYN_RCVD, set by SendEmptyPacket(SYN | ACK): it is
\* sent again, or the subflow is given up.
ResendSynAck(i) ==
  /\ loop.pc = "idle" /\ peerState[i] = "SYN_RCVD" /\ InFlight(i) < ChanCap
  /\ \/ /\ cnCount[i] > 0
        /\ cnCount' = [cnCount EXCEPT ![i] = @ - 1]
        /\ toClient' = Put(toClient, i, SynAck)
        /\ UNCHANGED peerState
     \/ /\ cnCount[i] = 0
        /\ peerState' = [peerState EXCEPT ![i] = "CLOSED"]
        /\ UNCHANGED <<cnCount, toClient>>
  /\ UNCHANGED <<clientVars, finSeq, dataVars, toServer, lost>>

---------------------------------------------------------------------------
(* Losses.                                                                 *)

DropAt(s, k) == [j \in 1 .. Len(s) - 1 |-> IF j < k THEN s[j] ELSE s[j + 1]]

LosePacket(i) ==
  /\ loop.pc = "idle" /\ lost < MaxLoss
  /\ \/ \E k \in 1 .. Len(toServer[i]) :
          toServer' = [toServer EXCEPT ![i] = DropAt(@, k)] /\ UNCHANGED toClient
     \/ \E k \in 1 .. Len(toClient[i]) :
          toClient' = [toClient EXCEPT ![i] = DropAt(@, k)] /\ UNCHANGED toServer
  /\ lost' = lost + 1
  /\ UNCHANGED <<clientVars, serverVars>>

---------------------------------------------------------------------------
Sending == SendPendingData \/ EndSendPendingData

\* The simulator has no event left.
NoEventLeft ==
  /\ loop.pc = "idle" /\ closes = MaxClose /\ scheduled = {}
  /\ \A i \in Subflow :
       /\ retxEvent[i] = "none" /\ toServer[i] = <<>> /\ toClient[i] = <<>>
       /\ state[i] # "TIME_WAIT" /\ peerState[i] \notin {"SYN_RCVD", "LAST_ACK"}

Stop == NoEventLeft /\ UNCHANGED vars

Next ==
  \/ Stop \/ Sending \/ Close \/ CloseMultipathConnection
  \/ \E i \in Subflow :
       \/ ScheduledDoClose(i) \/ ClientReceive(i) \/ ReTxTimeout(i)
       \/ ServerReceive(i) \/ LastAckTimeout(i) \/ ResendSynAck(i) \/ LosePacket(i)

Spec == Init /\ [][Next]_vars

\* The simulator executes every event it holds.  The application may stay
\* away, and losing a packet is no event.
Fairness ==
  /\ WF_vars(Sending) /\ WF_vars(CloseMultipathConnection)
  /\ \A i \in Subflow :
       /\ WF_vars(ScheduledDoClose(i)) /\ WF_vars(ClientReceive(i))
       /\ WF_vars(ReTxTimeout(i)) /\ WF_vars(ServerReceive(i))
       /\ WF_vars(LastAckTimeout(i)) /\ WF_vars(ResendSynAck(i))

FairSpec == Spec /\ Fairness

---------------------------------------------------------------------------
(* Properties.                                                             *)

Packet == [type : {"JOIN", "DATA", "FIN", "ACK", "RST"}, seq : Nat, dsn : Nat]
Answer == [type : {"SYNACK", "ACK", "FINACK", "RST"}, ack : Nat]
Timer == {"none", "data", "fin"}

\* Type correctness.
TypeOK ==
  /\ state \in [Subflow -> {"SYN_SENT", "ESTABLISHED", "FIN_WAIT_1", "CLOSING",
                           "TIME_WAIT", "CLOSED"}]
  /\ TxSeqNumber \in [Subflow -> Nat]
  /\ highestAck \in [Subflow -> Nat]
  /\ sent \in [Subflow -> Seq(Nat)]
  /\ retxEvent \in [Subflow -> Timer]
  /\ sendingBuffer \in 0 .. MaxData
  /\ nextTxSequence \in 1 .. MaxData + 1
  /\ closeOnEmpty \in BOOLEAN
  /\ currentSublow \in Subflow
  /\ scheduled \subseteq Subflow
  /\ closes \in 0 .. MaxClose
  /\ reset \in BOOLEAN
  /\ loop \in [pc : {"idle", "send", "resend"}, sf : Subflow]
  /\ peerState \in [Subflow -> {"NONE", "SYN_RCVD", "ESTABLISHED", "LAST_ACK", "CLOSED"}]
  /\ cnCount \in [Subflow -> 0 .. CnRetries]
  /\ finSeq \in [Subflow -> Nat]
  /\ RxSeqNumber \in [Subflow -> Nat]
  /\ nextRxSequence \in Nat
  /\ unOrdered \subseteq [sf : Subflow, seq : Nat, dsn : Nat]
  /\ toServer \in [Subflow -> Seq(Packet)]
  /\ toClient \in [Subflow -> Seq(Answer)]
  /\ lost \in 0 .. MaxLoss

\* Every handler of the server that a packet in flight can meet exists: a FIN
\* is never older than what an established subflow expects (PeerClose stops
\* the program on that), all FINs of a subflow carry the number after its last
\* segment, and no data follows where the FIN was consumed.
NoAbort ==
  \A i \in Subflow : \A k \in 1 .. Len(toServer[i]) :
    LET p == toServer[i][k]
    IN /\ p.type = "FIN" /\ peerState[i] = "ESTABLISHED" =>
            p.seq >= RxSeqNumber[i] /\ p.seq >= finSeq[i]
       /\ p.type = "DATA" /\ finSeq[i] > 0 => p.seq < finSeq[i]
       /\ p.type = "DATA" /\ p.seq = RxSeqNumber[i] => p.dsn >= nextRxSequence
       /\ p.type = "DATA" /\ p.seq > RxSeqNumber[i] => p.dsn > nextRxSequence

\* The server answers a FIN with its own only when it has every segment the
\* client sent on that subflow, whatever the FIN overtook in recovery.
FinMeansAllReceived ==
  \A i \in Subflow : peerState[i] = "LAST_ACK" => RxSeqNumber[i] = Len(sent[i]) + 2

\* A connection that was not reset closes gracefully: when the client's last
\* subflow is closed, all that was written was sent, delivered in order and
\* acknowledged, although losses, the late DoClose of the other subflows and
\* the server's own timeouts all race with the last data.
GracefulClose ==
  ClientClosed /\ ~reset =>
    /\ sendingBuffer = 0 /\ nextRxSequence = nextTxSequence
    /\ \A i \in Subflow : highestAck[i] >= maxSeqNb(i)

\* The one timer event is shared by the data and the FIN: NewACK cancels it,
\* DupAck and DoClose find it pending and leave it.  As long as a subflow
\* waits for an ACK or for the answer to its FIN, it is pending.
TimerCoversClose ==
  \A i \in Subflow :
    state[i] = "FIN_WAIT_1" \/ (state[i] = "ESTABLISHED" /\ highestAck[i] < maxSeqNb(i))
      => retxEvent[i] # "none"

\* DoClose never meets a subflow it would reset the connection for, be it
\* called by the application for the subflow used last, or scheduled by
\* SendAllSubflowsFIN and run after other events; and no subflow is left in
\* CLOSING, where every packet is ignored.
CloseNeverResets ==
  /\ \A i \in scheduled \cup {currentSublow} : state[i] # "SYN_SENT"
  /\ \A i \in Subflow : state[i] # "CLOSING"

\* Without a late join, losing one packet resets nothing: the FIN+ACK leaves at
\* least twice before the server's closed master subflow answers a FIN with a
\* reset.
NoReset == ~reset

\* A reset takes a loss, whatever the timers of both ends do and however late
\* a join is: the last ACK of a handshake, or data, is ahead of the FIN that
\* would meet SYN_RCVD.  Where no join is late it takes two, as above; a late
\* join loses the connection with its last ACK, if no data follows that.
ResetNeedsLoss == reset => lost > (IF Late = {} THEN 1 ELSE 0)

\* The stream this connection carries: what was cut and, on the subflow it was
\* cut for, not acknowledged is what the sender may have to send again.
Unacknowledged(i) == {sent[i][s] : s \in highestAck[i] + 1 .. maxSeqNb(i)}
Stored == {u.dsn : u \in unOrdered}

Stream == INSTANCE MptcpStream WITH
  written <- nextTxSequence - 1 + sendingBuffer,
  sent <- nextTxSequence - 1,
  held <- UNION {Unacknowledged(i) : i \in Subflow},
  have <- 1 .. nextRxSequence - 1 \cup Stored,
  delivered <- nextRxSequence - 1

\* Closing does not disturb the stream: the rest of what was written is still
\* sent once, delivered in order and once, and forgotten only when the server
\* has it.  FINs take sequence numbers of their own, overtake data that is sent
\* again and are acknowledged by the ACKs of data; a reset may end it all.
ClosingImplementsStream == Stream!StreamSpec

\* Once Close was called with data in the buffer, both ends close every
\* subflow: the FINs leave with the last segment, and timers repair what is
\* lost on the way.
EventuallyClosed == closeOnEmpty ~> ClientClosed /\ ServerClosed

---------------------------------------------------------------------------
(* What the comments say and the code does not do.                         *)

\* "If we received FIN before and now completed all "holes" in RX buffer,
\* invoke peer close": a subflow that has the FIN and all before it is closing.
HolesCompletedMeansPeerClose ==
  \A i \in Subflow :
    finSeq[i] > 0 /\ RxSeqNumber[i] >= finSeq[i] => peerState[i] # "ESTABLISHED"

\* Close is to kill the socket: every subflow is closed in the end.
CloseKillsSocket == closes > 0 ~> ClientClosed

\* The normal close callback, the only one the client calls when it closes, is
\* for a connection that closed gracefully: all that was sent was acknowledged.
NormalCloseIsGraceful ==
  ClientClosed => \A i \in Subflow : highestAck[i] >= maxSeqNb(i)
=============================================================================
