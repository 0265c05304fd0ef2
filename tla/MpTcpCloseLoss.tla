--------------------------- MODULE MpTcpCloseLoss ---------------------------
(***************************************************************************)
(* What a reset takes: proof, for any constants, that a connection that lost *)
(* nothing is never reset, nor one that lost a single packet if no join was  *)
(* late.                                                                   *)
(*                                                                         *)
(* A reset needs a closed end that is still spoken to, or a FIN that meets  *)
(* SYN_RCVD.  The client closes only after the server's FIN+ACK (TIME_WAIT). *)
(* The server may close first (m_lastAckEvent), but only after its FIN+ACK   *)
(* left twice, ahead of any reset: one loss leaves one of them, and the      *)
(* client answers that one.  And the last ACK of a join's handshake is the   *)
(* first packet of its subflow after the SYN, so without a loss it is what   *)
(* SYN_RCVD meets.                                                         *)
(***************************************************************************)
EXTENDS MpTcpCloseProofs

\* How many losses never lead to a reset.
Harmless == IF Late = {} THEN 1 ELSE 0

\* The k-th packet is a FIN+ACK with no reset before it.
FinAckAt(ch, k) == ch[k].type = "FINACK" /\ \A j \in 1 .. k - 1 : ch[j].type # "RST"

Answered(ch) == \E k \in 1 .. Len(ch) : FinAckAt(ch, k)
AnsweredTwice(ch) == \E k, l \in 1 .. Len(ch) : k < l /\ FinAckAt(ch, k) /\ FinAckAt(ch, l)

\* The server has answered the FIN of subflow i; it may also have given the
\* subflow up in SYN_RCVD, without having had a FIN.
PeerDone(i) == peerState[i] \in {"LAST_ACK", "CLOSED"} /\ finSeq[i] > 0

\* The client's subflow waits for the server's FIN+ACK and the server has sent it.
FinAckUnderWay(i) ==
  state[i] = "FIN_WAIT_1" =>
    /\ peerState[i] = "LAST_ACK" /\ lost = 0 => Answered(toClient[i])
    /\ peerState[i] = "CLOSED" /\ finSeq[i] > 0 => Answered(toClient[i])
    /\ peerState[i] = "CLOSED" /\ finSeq[i] > 0 /\ lost = 0 => AnsweredTwice(toClient[i])

\* How far each end of subflow i has come, and what its packets tell of that.
EndsAgree(i) ==
  /\ PeerDone(i) => Over(i)
  /\ state[i] \in {"TIME_WAIT", "CLOSED"} => PeerDone(i)
  /\ \A p \in Packets(toServer[i]) :
       /\ p.type = "RST" => state[i] = "CLOSED"
       /\ p.type = "ACK" => p.seq = 1 \/ state[i] \in {"TIME_WAIT", "CLOSED"}
  /\ \A p \in Packets(toClient[i]) :
       /\ p.type = "RST" => peerState[i] = "CLOSED" /\ finSeq[i] > 0
       /\ p.type = "FINACK" => PeerDone(i)

\* How far the join of subflow i has come: its SYN, then the SYN+ACK, then the
\* last ACK ahead of all else the client sends on it.
JoinAgrees(i) ==
  /\ i \notin Late => /\ peerState[i] \notin {"NONE", "SYN_RCVD"}
                      /\ peerState[i] = "CLOSED" => finSeq[i] > 0
  /\ peerState[i] \in {"NONE", "SYN_RCVD"} => finSeq[i] = 0
  /\ peerState[i] = "NONE" =>
       /\ state[i] = "SYN_SENT" /\ Len(toServer[i]) <= 1
       /\ \A p \in Packets(toClient[i]) : p.type # "SYNACK"
  /\ peerState[i] = "SYN_RCVD" =>
       \/ state[i] = "SYN_SENT" /\ toServer[i] = <<>>
       \/ toServer[i] # <<>> /\ Head(toServer[i]).type = "ACK"

JoinInv == \A i \in Subflow : JoinAgrees(i)
EndsInv == ~reset /\ \A i \in Subflow : EndsAgree(i) /\ FinAckUnderWay(i)
LossInv == EndsInv /\ JoinInv

---------------------------------------------------------------------------
(* FIN+ACKs in a channel.                                                  *)

LEMMA AppendKeepsFinAck ==
  ASSUME NEW ch \in Seq(Answer), NEW p \in Answer
  PROVE  /\ Answered(ch) => Answered(Append(ch, p))
         /\ AnsweredTwice(ch) => AnsweredTwice(Append(ch, p))
  <1>1. /\ Len(Append(ch, p)) = Len(ch) + 1 /\ Len(ch) \in Nat
        /\ \A k \in 1 .. Len(ch) : Append(ch, p)[k] = ch[k]
    OBVIOUS
  <1>2. ASSUME NEW k \in 1 .. Len(ch), FinAckAt(ch, k)
        PROVE  k \in 1 .. Len(Append(ch, p)) /\ FinAckAt(Append(ch, p), k)
    <2>1. \A j \in 1 .. k - 1 : j \in 1 .. Len(ch)
      BY <1>1
    <2> QED BY <1>1, <1>2, <2>1 DEF FinAckAt
  <1> QED BY <1>2 DEF Answered, AnsweredTwice

LEMMA AppendFinAck ==
  ASSUME NEW ch \in Seq(Answer), NEW p \in Answer, p.type = "FINACK",
         \A q \in Packets(ch) : q.type # "RST"
  PROVE  /\ Answered(Append(ch, p))
         /\ Answered(ch) => AnsweredTwice(Append(ch, p))
  <1> DEFINE n == Len(ch) + 1
  <1>1. /\ Len(Append(ch, p)) = n /\ Len(ch) \in Nat /\ Append(ch, p)[n] = p
        /\ \A k \in 1 .. Len(ch) : Append(ch, p)[k] = ch[k]
    OBVIOUS
  <1>2. n \in 1 .. Len(Append(ch, p)) /\ FinAckAt(Append(ch, p), n)
    <2>1. ASSUME NEW j \in 1 .. n - 1 PROVE Append(ch, p)[j].type # "RST"
      BY <1>1 DEF Packets
    <2> QED BY <1>1, <2>1 DEF FinAckAt
  <1>3. ASSUME NEW k \in 1 .. Len(ch), FinAckAt(ch, k)
        PROVE  k < n /\ k \in 1 .. Len(Append(ch, p)) /\ FinAckAt(Append(ch, p), k)
    <2>1. \A j \in 1 .. k - 1 : j \in 1 .. Len(ch)
      BY <1>1
    <2> QED BY <1>1, <1>3, <2>1 DEF FinAckAt
  <1> HIDE DEF n
  <1> QED BY <1>2, <1>3 DEF Answered, AnsweredTwice

LEMMA TailKeepsFinAck ==
  ASSUME NEW ch \in Seq(Answer), ch # <<>>
  PROVE  /\ Answered(ch) => Head(ch).type # "RST"
         /\ Head(ch).type # "FINACK" =>
              /\ Answered(ch) => Answered(Tail(ch))
              /\ AnsweredTwice(ch) => AnsweredTwice(Tail(ch))
  <1>1. /\ Head(ch) = ch[1] /\ Len(ch) \in Nat \ {0} /\ Len(Tail(ch)) = Len(ch) - 1
        /\ \A k \in 1 .. Len(ch) - 1 : Tail(ch)[k] = ch[k + 1]
    OBVIOUS
  <1>2. ASSUME NEW k \in 1 .. Len(ch), FinAckAt(ch, k) PROVE Head(ch).type # "RST"
    <2>1. CASE k = 1
      BY <1>1, <1>2, <2>1 DEF FinAckAt
    <2>2. CASE k # 1
      <3>1. 1 \in 1 .. k - 1
        BY <1>1, <2>2
      <3> QED BY <1>1, <1>2, <3>1 DEF FinAckAt
    <2> QED BY <2>1, <2>2
  <1>3. ASSUME NEW k \in 1 .. Len(ch), FinAckAt(ch, k), Head(ch).type # "FINACK"
        PROVE  k - 1 \in 1 .. Len(Tail(ch)) /\ FinAckAt(Tail(ch), k - 1)
    <2>1. k # 1
      BY <1>1, <1>3 DEF FinAckAt
    <2>2. k - 1 \in 1 .. Len(ch) - 1 /\ Tail(ch)[k - 1] = ch[k]
      BY <1>1, <2>1
    <2>3. ASSUME NEW j \in 1 .. k - 1 - 1 PROVE Tail(ch)[j].type # "RST"
      <3>1. j + 1 \in 1 .. k - 1 /\ j \in 1 .. Len(ch) - 1
        BY <1>1
      <3> QED BY <1>1, <1>3, <3>1 DEF FinAckAt
    <2> QED BY <1>1, <1>3, <2>2, <2>3 DEF FinAckAt
  <1>4. ASSUME Head(ch).type # "FINACK", AnsweredTwice(ch) PROVE AnsweredTwice(Tail(ch))
    <2>1. PICK k, l \in 1 .. Len(ch) : k < l /\ FinAckAt(ch, k) /\ FinAckAt(ch, l)
      BY <1>4 DEF AnsweredTwice
    <2>2. k - 1 \in 1 .. Len(Tail(ch)) /\ FinAckAt(Tail(ch), k - 1)
      BY <1>3, <1>4, <2>1
    <2>3. l - 1 \in 1 .. Len(Tail(ch)) /\ FinAckAt(Tail(ch), l - 1)
      BY <1>3, <1>4, <2>1
    <2>4. k - 1 < l - 1
      BY <2>1
    <2> QED BY <2>2, <2>3, <2>4 DEF AnsweredTwice
  <1> QED BY <1>2, <1>3, <1>4 DEF Answered

\* Of two FIN+ACKs one is left.
LEMMA DropLeavesFinAck ==
  ASSUME NEW ch \in Seq(Answer), NEW n \in 1 .. Len(ch), AnsweredTwice(ch)
  PROVE  Answered(DropAt(ch, n))
  <1>1. /\ Len(DropAt(ch, n)) = Len(ch) - 1 /\ Len(ch) \in Nat
        /\ \A k \in 1 .. Len(ch) - 1 : DropAt(ch, n)[k] = IF k < n THEN ch[k] ELSE ch[k + 1]
    BY DEF DropAt
  <1>2. PICK k, l \in 1 .. Len(ch) : k < l /\ FinAckAt(ch, k) /\ FinAckAt(ch, l)
    BY DEF AnsweredTwice
  <1>3. PICK m \in 1 .. Len(ch) : m # n /\ FinAckAt(ch, m)
    BY <1>2
  <1>4. CASE m < n
    <2>1. m \in 1 .. Len(ch) - 1
      BY <1>1, <1>4
    <2>2. ASSUME NEW j \in 1 .. m - 1 PROVE DropAt(ch, n)[j].type # "RST"
      <3>1. j \in 1 .. Len(ch) - 1 /\ j < n
        BY <1>1, <1>4
      <3> QED BY <1>1, <1>3, <3>1 DEF FinAckAt
    <2> QED BY <1>1, <1>3, <1>4, <2>1, <2>2 DEF FinAckAt, Answered
  <1>5. CASE m > n
    <2>1. m - 1 \in 1 .. Len(ch) - 1 /\ ~(m - 1 < n) /\ m - 1 + 1 = m
      BY <1>1, <1>5
    <2>2. ASSUME NEW j \in 1 .. m - 1 - 1 PROVE DropAt(ch, n)[j].type # "RST"
      <3>1. j \in 1 .. Len(ch) - 1 /\ j \in 1 .. m - 1 /\ j + 1 \in 1 .. m - 1
        BY <1>1
      <3> QED BY <1>1, <1>3, <3>1 DEF FinAckAt
    <2>3. DropAt(ch, n)[m - 1].type = "FINACK"
      BY <1>1, <1>3, <2>1 DEF FinAckAt
    <2> QED BY <1>1, <2>1, <2>2, <2>3 DEF FinAckAt, Answered
  <1> QED BY <1>3, <1>4, <1>5

---------------------------------------------------------------------------
(* The initial states, and what keeps the joins.                           *)

LEMMA InitLoss == Init => LossInv
  <1> SUFFICES ASSUME Init PROVE LossInv
    OBVIOUS
  <1>1. ASSUME NEW i \in Subflow PROVE EndsAgree(i) /\ FinAckUnderWay(i) /\ JoinAgrees(i)
    <2>1. /\ Packets(toClient[i]) = {} /\ finSeq[i] = 0
          /\ state[i] = (IF i \in Late THEN "SYN_SENT" ELSE "ESTABLISHED")
          /\ peerState[i] = (IF i \in Late THEN "NONE" ELSE "ESTABLISHED")
          /\ toServer[i] = (IF i \in Late THEN <<JoinSyn>> ELSE <<>>)
      BY NoPackets DEF Init
    <2>2. \A p \in Packets(toServer[i]) : p.type = "JOIN"
      BY <2>1, NoPackets DEF Packets, JoinSyn
    <2>3. Len(toServer[i]) <= 1
      BY <2>1
    <2> QED BY <2>1, <2>2, <2>3 DEF EndsAgree, FinAckUnderWay, JoinAgrees, PeerDone
  <1> QED BY <1>1 DEF Init, LossInv, EndsInv, JoinInv

\* The server has consumed the FIN that it answered.
LEMMA LastAckDone ==
  ASSUME CloseInv, NEW i \in Subflow, peerState[i] = "LAST_ACK"
  PROVE  finSeq[i] > 0 /\ RxSeqNumber[i] >= 2
  <1>1. /\ finSeq[i] \in Nat /\ RxSeqNumber[i] \in Nat /\ Len(sent[i]) \in Nat
        /\ RxSeqNumber[i] = Len(sent[i]) + 2
    BY Types DEF CloseInv, FinMeansAllReceived
  <1>2. finSeq[i] # 0
    BY <1>1 DEF CloseInv, FinIsLast
  <1> QED BY <1>1, <1>2

\* A subflow in SYN_SENT has sent nothing, so its first number is the next.
LEMMA FirstNumber ==
  ASSUME CloseInv, NEW i \in Subflow, state[i] = "SYN_SENT"
  PROVE  TxSeqNumber[i] = 1 /\ Len(sent[i]) = 0
  <1>1. /\ TxSeqNumber[i] \in Nat /\ TxSeqNumber[i] >= 1 /\ Len(sent[i]) = 0
        /\ TxSeqNumber[i] <= Len(sent[i]) + 1
    BY Types DEF CloseInv, Counted, Over
  <1> QED BY <1>1

\* What the client sends on subflow j comes behind what is under way, and it
\* sends nothing before the SYN+ACK.
SendsBehind(j) ==
  /\ state[j] = "SYN_SENT" => toServer'[j] = toServer[j]
  /\ toServer[j] # <<>> => toServer'[j] # <<>> /\ Head(toServer'[j]) = Head(toServer[j])

LEMMA PutBehind ==
  ASSUME NEW ch \in [Subflow -> Seq(Packet)], NEW i \in Subflow, NEW p \in Packet,
         NEW j \in Subflow
  PROVE  /\ j # i => Put(ch, i, p)[j] = ch[j]
         /\ Put(ch, i, p)[i] # <<>>
         /\ ch[j] # <<>> => Put(ch, i, p)[j] # <<>> /\ Head(Put(ch, i, p)[j]) = Head(ch[j])
  <1>1. /\ j # i => Put(ch, i, p)[j] = ch[j]
        /\ Put(ch, i, p)[i] = Append(ch[i], p) /\ ch[i] \in Seq(Packet)
    BY DEF Put
  <1>2. /\ Append(ch[i], p) # <<>>
        /\ ch[i] # <<>> => Head(Append(ch[i], p)) = Head(ch[i])
    BY <1>1
  <1> QED BY <1>1, <1>2

LEMMA PutSendsBehind ==
  ASSUME CloseInv, NEW i \in Subflow, NEW p \in Packet, state[i] # "SYN_SENT",
         toServer' = Put(toServer, i, p)
  PROVE  \A j \in Subflow : SendsBehind(j)
  <1>1. toServer \in [Subflow -> Seq(Packet)]
    BY DEF CloseInv, TypeOK
  <1> QED BY <1>1, PutBehind DEF SendsBehind

LEMMA JoinsKept ==
  ASSUME JoinInv, UNCHANGED <<peerState, finSeq>>, \A j \in Subflow : SendsBehind(j),
         \A j \in Subflow : state[j] = "SYN_SENT" => state'[j] = "SYN_SENT",
         \A j \in Subflow : Packets(toClient'[j]) \subseteq Packets(toClient[j])
  PROVE  JoinInv'
  <1>1. ASSUME NEW j \in Subflow PROVE JoinAgrees(j)'
    BY DEF JoinInv, JoinAgrees, SendsBehind
  <1> QED BY <1>1 DEF JoinInv

\* A step of the server, or of subflow i's own handshake.
LEMMA JoinsKeptElsewhere ==
  ASSUME JoinInv, NEW i \in Subflow, JoinAgrees(i)',
         \A j \in Subflow \ {i} :
           /\ state'[j] = state[j] /\ peerState'[j] = peerState[j] /\ finSeq'[j] = finSeq[j]
           /\ toServer'[j] = toServer[j] /\ toClient'[j] = toClient[j]
  PROVE  JoinInv'
  <1>1. ASSUME NEW j \in Subflow \ {i} PROVE JoinAgrees(j)'
    BY DEF JoinInv, JoinAgrees
  <1> QED BY <1>1 DEF JoinInv

---------------------------------------------------------------------------
(* Steps of the client.                                                    *)

\* The client sends data or FINs, or closes what waited its time.
LEMMA ClientSteps ==
  ASSUME CloseInv, LossInv, UNCHANGED <<peerState, finSeq, toClient, lost, reset>>,
         \A j \in Subflow : \/ state'[j] = state[j]
                            \/ state[j] = "ESTABLISHED" /\ state'[j] = "FIN_WAIT_1"
                            \/ state[j] = "TIME_WAIT" /\ state'[j] = "CLOSED",
         \A j \in Subflow : SendsBehind(j),
         \A j \in Subflow : \A p \in Packets(toServer'[j]) :
           p \in Packets(toServer[j]) \/ p.type \in {"DATA", "FIN"}
  PROVE  LossInv'
  <1>1. ASSUME NEW j \in Subflow PROVE EndsAgree(j)' /\ FinAckUnderWay(j)'
    <2>1. EndsAgree(j) /\ FinAckUnderWay(j)
      BY DEF LossInv, EndsInv
    <2>2. EndsAgree(j)'
      BY <2>1 DEF EndsAgree, PeerDone, Over
    <2>3. FinAckUnderWay(j)'
      BY <2>1, LastAckDone DEF EndsAgree, FinAckUnderWay, PeerDone, Over
    <2> QED BY <2>2, <2>3
  <1>2. JoinInv'
    BY JoinsKept DEF LossInv
  <1> QED BY <1>1, <1>2 DEF LossInv, EndsInv

\* A subflow that a step does not touch; losing packets elsewhere is harmless.
LEMMA Untouched ==
  ASSUME EndsInv, NEW j \in Subflow, state'[j] = state[j], peerState'[j] = peerState[j],
         finSeq'[j] = finSeq[j], toClient'[j] = toClient[j],
         Packets(toServer'[j]) \subseteq Packets(toServer[j]), lost' = lost \/ lost' # 0
  PROVE  EndsAgree(j)' /\ FinAckUnderWay(j)'
  <1>1. EndsAgree(j) /\ FinAckUnderWay(j)
    BY DEF EndsInv
  <1> QED BY <1>1 DEF EndsAgree, FinAckUnderWay, PeerDone, Over

LEMMA NoNewKind ==
  ASSUME CloseInv, NEW i \in Subflow, NEW p \in Packet, toServer' = Put(toServer, i, p)
  PROVE  \A j \in Subflow : Packets(toServer'[j]) \subseteq
           Packets(toServer[j]) \cup (IF j = i THEN {p} ELSE {})
  <1>1. toServer \in [Subflow -> Seq(Packet)]
    BY DEF CloseInv, TypeOK
  <1> QED BY <1>1, PutToServer

LEMMA DoCloseLoss ==
  ASSUME CloseInv, LossInv, NEW i \in Subflow, DoClose(i), UNCHANGED sent,
         UNCHANGED <<peerState, finSeq, toClient, lost, reset>>
  PROVE  LossInv'
  <1>1. CASE state[i] = "ESTABLISHED"
    <2>1. /\ SendFin(i, toServer, retxEvent) /\ TypeOK /\ Len(sent'[i]) \in Nat
          /\ toServer \in [Subflow -> Seq(Packet)] /\ retxEvent \in [Subflow -> Timer]
      BY <1>1, Types DEF DoClose, CloseInv, TypeOK
    <2>2. FinEffect(i, toServer, retxEvent)
      BY <2>1, SendFinEffect
    <2>3. Fin(FinNumber(i)) \in Packet /\ toServer' = Put(toServer, i, Fin(FinNumber(i)))
      BY <2>1 DEF SendFin, Fin, FinNumber, Packet
    <2>4. \A j \in Subflow : SendsBehind(j)
      BY <1>1, <2>3, PutSendsBehind
    <2> QED BY <1>1, <2>2, <2>4, ClientSteps DEF FinEffect
  <1>2. CASE state[i] # "ESTABLISHED"
    BY <1>2, ClientSteps DEF DoClose, SendsBehind
  <1> QED BY <1>1, <1>2

LEMMA CloseLoss ==
  ASSUME CloseInv, LossInv, Close \/ \E i \in Subflow : ScheduledDoClose(i)
  PROVE  LossInv'
  <1>1. UNCHANGED <<sent, peerState, finSeq, toClient, lost, reset>>
    BY DEF Close, ScheduledDoClose, sendVars, serverVars
  <1>2. \/ UNCHANGED <<state, toServer>>
        \/ \E i \in Subflow : DoClose(i)
    <2>1. currentSublow \in Subflow
      BY DEF CloseInv, TypeOK
    <2> QED BY <2>1 DEF Close, ScheduledDoClose
  <1>3. CASE UNCHANGED <<state, toServer>>
    BY <1>1, <1>3, ClientSteps DEF SendsBehind
  <1> QED BY <1>1, <1>2, <1>3, DoCloseLoss

\* A segment leaves behind what is under way, and a FIN perhaps behind that.
LEMMA SegmentBehind ==
  ASSUME CloseInv, NEW k \in Subflow, NEW p \in Packet, state[k] # "SYN_SENT",
         \A j \in Subflow : Len(sent'[j]) \in Nat, SendDataPacket(k, p)
  PROVE  \A j \in Subflow : SendsBehind(j)
  <1> DEFINE ch == Put(toServer, k, p)
  <1>1. toServer \in [Subflow -> Seq(Packet)]
    BY DEF CloseInv, TypeOK
  <1>2. /\ ch \in [Subflow -> Seq(Packet)]
        /\ \A j \in Subflow : /\ j # k => ch[j] = toServer[j]
                              /\ toServer[j] # <<>> => ch[j] # <<>> /\ Head(ch[j]) = Head(toServer[j])
    <2>1. ch \in [Subflow -> Seq(Packet)]
      BY <1>1, PutToServer
    <2>2. ASSUME NEW j \in Subflow
          PROVE  /\ j # k => ch[j] = toServer[j]
                 /\ toServer[j] # <<>> => ch[j] # <<>> /\ Head(ch[j]) = Head(toServer[j])
      BY <1>1, PutBehind
    <2> QED BY <2>1, <2>2
  <1>3. \/ toServer' = ch
        \/ \E f \in Established : toServer' = Put(ch, f, Fin(FinNumber(f)))
    BY DEF SendDataPacket, SendAllSubflowsFIN, SendFin
  <1> HIDE DEF ch
  <1>4. CASE toServer' = ch
    BY <1>2, <1>4 DEF SendsBehind
  <1>5. ASSUME NEW f \in Established, toServer' = Put(ch, f, Fin(FinNumber(f)))
        PROVE  \A j \in Subflow : SendsBehind(j)
    <2>1. f \in Subflow /\ state[f] = "ESTABLISHED"
      BY DEF Established
    <2>2. Fin(FinNumber(f)) \in Packet
      BY <2>1 DEF Fin, FinNumber, Packet
    <2>3. \A j \in Subflow :
            /\ j # f => toServer'[j] = ch[j]
            /\ ch[j] # <<>> => toServer'[j] # <<>> /\ Head(toServer'[j]) = Head(ch[j])
      BY <1>2, <1>5, <2>1, <2>2, PutBehind
    <2> QED BY <1>2, <2>1, <2>3 DEF SendsBehind
  <1> QED BY <1>3, <1>4, <1>5

LEMMA SendPendingDataLoss ==
  ASSUME CloseInv, LossInv, SendPendingData
  PROVE  LossInv'
  <1>1. UNCHANGED <<peerState, finSeq, toClient, lost, reset>>
    BY DEF SendPendingData, serverVars
  <1>2. PICK k \in Subflow : /\ SendNew(k) \/ SendOld(k)
                             /\ SendNew(k) => state[k] = "ESTABLISHED" /\ sendingBuffer > 0
    <2>1. loop.sf \in Subflow
      BY DEF CloseInv, TypeOK
    <2>2. SendOld(loop.sf) => ~SendNew(loop.sf)
      BY DEF SendNew, SendOld
    <2> QED BY <2>1, <2>2 DEF SendPendingData, Established
  <1>3. PICK p \in Packet : /\ p.type = "DATA" /\ p.seq <= Len(sent'[k])
                            /\ SendDataPacket(k, p)
    BY <1>2, SegmentLeaves
  <1>4. \A j \in Subflow : Len(sent'[j]) \in Nat
    <2>1. sent' \in [Subflow -> Seq(Nat)]
      BY <1>2, SegmentLeaves
    <2> QED BY <2>1
  <1>5. SendEffect(k, p)
    BY <1>3, <1>4, SendDataPacketEffect DEF CloseInv
  <1>6. \A j \in Subflow : \A q \in Packets(toServer'[j]) :
          q \in Packets(toServer[j]) \/ q.type \in {"DATA", "FIN"}
    BY <1>3, <1>5 DEF SendEffect
  <1>7. \A j \in Subflow : \/ state'[j] = state[j]
                           \/ state[j] = "ESTABLISHED" /\ state'[j] = "FIN_WAIT_1"
    <2>1. NSub \notin Subflow
      BY Constants DEF Subflow
    <2> QED BY <1>5, <2>1 DEF SendEffect
  <1>8. state[k] # "SYN_SENT"
    <2>1. /\ TxSeqNumber[k] >= 1 /\ TxSeqNumber[k] \in Nat
          /\ state[k] = "SYN_SENT" => Len(sent[k]) = 0
      BY Types DEF CloseInv, Counted
    <2>2. SendOld(k) => Len(sent[k]) > TxSeqNumber[k] - 1
      BY DEF SendOld, Recovering, maxSeqNb
    <2> QED BY <1>2, <2>1, <2>2
  <1>9. \A j \in Subflow : SendsBehind(j)
    BY <1>3, <1>4, <1>8, SegmentBehind
  <1> QED BY <1>1, <1>6, <1>7, <1>9, ClientSteps

LEMMA ReTxTimeoutLoss ==
  ASSUME CloseInv, LossInv, NEW i \in Subflow, ReTxTimeout(i)
  PROVE  LossInv'
  <1>1. UNCHANGED <<state, sent, peerState, finSeq, toClient, lost, reset>>
    BY DEF ReTxTimeout, closeVars, serverVars
  <1>2. /\ highestAck[i] \in Nat /\ Len(sent[i]) \in Nat
        /\ state[i] = "SYN_SENT" => Len(sent[i]) = 0
        /\ retxEvent[i] = "fin" => state[i] # "SYN_SENT"
    BY Types DEF CloseInv, Counted, ClosesInOrder, Over
  <1>3. \/ UNCHANGED toServer
        \/ /\ retxEvent[i] = "fin" \/ state[i] \in {"FIN_WAIT_1", "CLOSING"}
           /\ toServer' = Put(toServer, i, Fin(FinNumber(i)))
        \/ /\ highestAck[i] < Len(sent[i])
           /\ toServer' = Put(toServer, i, Data(highestAck[i] + 1, sent[i][highestAck[i] + 1]))
    BY DEF ReTxTimeout, ResendFin, RetransmitTimeout, maxSeqNb
  <1>4. \/ UNCHANGED toServer
        \/ \E p \in Packet : /\ p.type \in {"DATA", "FIN"} /\ toServer' = Put(toServer, i, p)
                             /\ state[i] # "SYN_SENT"
    <2>1. Fin(FinNumber(i)) \in Packet /\ Fin(FinNumber(i)).type = "FIN"
      BY <1>1, <1>2 DEF Fin, FinNumber, Packet
    <2>2. ASSUME highestAck[i] < Len(sent[i])
          PROVE  /\ Data(highestAck[i] + 1, sent[i][highestAck[i] + 1]) \in Packet
                 /\ Data(highestAck[i] + 1, sent[i][highestAck[i] + 1]).type = "DATA"
                 /\ state[i] # "SYN_SENT"
      <3>1. highestAck[i] + 1 \in Nat \ {0} /\ highestAck[i] + 1 <= Len(sent[i])
        BY <1>2, <2>2
      <3> QED BY <1>2, <2>2, <3>1, SentAgain DEF CloseInv, Data
    <2> QED BY <1>2, <1>3, <2>1, <2>2
  <1>5. \A j \in Subflow : \A q \in Packets(toServer'[j]) :
          q \in Packets(toServer[j]) \/ q.type \in {"DATA", "FIN"}
    BY <1>4, NoNewKind
  <1>6. \A j \in Subflow : SendsBehind(j)
    <2>1. CASE UNCHANGED toServer
      BY <2>1 DEF SendsBehind
    <2> QED BY <1>4, <2>1, PutSendsBehind
  <1> QED BY <1>1, <1>5, <1>6, ClientSteps

LEMMA QuietLoss ==
  ASSUME CloseInv, LossInv, UNCHANGED vars \/ EndSendPendingData \/ CloseMultipathConnection
  PROVE  LossInv'
  <1>1. UNCHANGED <<peerState, finSeq, toServer, toClient, lost, reset>>
    BY DEF vars, clientVars, EndSendPendingData, CloseMultipathConnection, closeVars,
           serverVars, netVars
  <1>2. \A j \in Subflow : \/ state'[j] = state[j]
                           \/ state[j] = "TIME_WAIT" /\ state'[j] = "CLOSED"
    BY DEF vars, clientVars, EndSendPendingData, CloseMultipathConnection
  <1>3. \A j \in Subflow : SendsBehind(j)
    BY <1>1 DEF SendsBehind
  <1> QED BY <1>1, <1>2, <1>3, ClientSteps

\* The reset that would tear the connection down comes behind a FIN+ACK.
LEMMA NoResetReceived ==
  ASSUME CloseInv, LossInv, NEW i \in Subflow, toClient[i] # <<>>
  PROVE  ~CloseAndNotifyAllSubflows(i, Head(toClient[i]))
  <1> SUFFICES ASSUME CloseAndNotifyAllSubflows(i, Head(toClient[i])) PROVE FALSE
    OBVIOUS
  <1>1. toClient[i] \in Seq(Answer)
    BY DEF CloseInv, TypeOK
  <1>2. Head(toClient[i]) \in Packets(toClient[i]) /\ Head(toClient[i]).type = "RST"
    BY <1>1, TailPackets DEF CloseAndNotifyAllSubflows
  <1>3. peerState[i] = "CLOSED" /\ finSeq[i] > 0 /\ Over(i)
    BY <1>2 DEF LossInv, EndsInv, EndsAgree, PeerDone
  <1>4. state[i] = "FIN_WAIT_1"
    BY <1>3 DEF CloseAndNotifyAllSubflows, Over
  <1>5. Answered(toClient[i])
    BY <1>3, <1>4 DEF LossInv, EndsInv, FinAckUnderWay
  <1> QED BY <1>1, <1>2, <1>5, TailKeepsFinAck

LEMMA ClientReceiveLoss ==
  ASSUME CloseInv, CloseInv', LossInv, NEW i \in Subflow, ClientReceive(i)
  PROVE  LossInv'
  <1> DEFINE p == Head(toClient[i])
  <1>1. /\ toClient[i] # <<>> /\ toClient' = [toClient EXCEPT ![i] = Tail(@)]
        /\ UNCHANGED <<peerState, finSeq, lost>>
        /\ \/ ProcessSynSent(i, p) \/ DuplicatedSynAck(i, p)
           \/ ReceivedAck(i, p) \/ ReceivedFinAck(i, p)
           \/ CloseAndNotifyAllSubflows(i, p) \/ ReceivedLate(i, p)
    BY DEF ClientReceive, serverVars
  <1>2. /\ toClient[i] \in Seq(Answer) /\ toClient \in [Subflow -> Seq(Answer)]
        /\ TxSeqNumber[i] \in Nat /\ state \in [Subflow -> States]
        /\ toServer \in [Subflow -> Seq(Packet)]
    BY Types DEF CloseInv, TypeOK, States
  <1>3. /\ Packets(Tail(toClient[i])) \subseteq Packets(toClient[i]) /\ p \in Packets(toClient[i])
        /\ p \in Answer /\ p.ack \in Nat
    <2>1. /\ Packets(Tail(toClient[i])) \subseteq Packets(toClient[i])
          /\ p \in Packets(toClient[i]) /\ p \in Answer
      BY <1>1, <1>2, TailPackets
    <2> QED BY <2>1 DEF Answer
  <1>4. /\ toClient'[i] = Tail(toClient[i])
        /\ \A j \in Subflow \ {i} : toClient'[j] = toClient[j]
    BY <1>1, <1>2
  <1>5. p.type # "FINACK" =>
          /\ Answered(toClient[i]) => Answered(toClient'[i])
          /\ AnsweredTwice(toClient[i]) => AnsweredTwice(toClient'[i])
    BY <1>1, <1>2, <1>4, TailKeepsFinAck
  <1>6. ~CloseAndNotifyAllSubflows(i, p)
    BY <1>1, NoResetReceived
  <1> HIDE DEF p
  <1>7. EndsAgree(i) /\ FinAckUnderWay(i) /\ ~reset /\ JoinAgrees(i) /\ EndsInv
    BY DEF LossInv, EndsInv, JoinInv
  <1>8. /\ reset' = reset
        /\ \A j \in Subflow \ {i} : state'[j] = state[j]
        /\ \A j \in Subflow \ {i} : Packets(toServer'[j]) \subseteq Packets(toServer[j])
        /\ EndsAgree(i)' /\ FinAckUnderWay(i)'
    <2>1. CASE ReceivedAck(i, p)
      <3>1. UNCHANGED <<state, reset>> /\ p.type = "ACK"
        BY <2>1 DEF ReceivedAck
      <3>2. UNCHANGED toServer \/ (\E q \in Packet : q.type = "DATA" /\ toServer' = Put(toServer, i, q))
        <4>1. highestAck[i] \in Nat
          BY Types DEF CloseInv
        <4>2. \/ UNCHANGED toServer
              \/ /\ p.ack \in Nat \ {0} /\ p.ack <= Len(sent[i])
                 /\ toServer' = Put(toServer, i, Data(p.ack, sent[i][p.ack]))
          BY <1>3, <2>1, <4>1 DEF ReceivedAck, NewACK, DupAck, OldAck, maxSeqNb
        <4>3. p.ack \in Nat \ {0} /\ p.ack <= Len(sent[i])
              => /\ Data(p.ack, sent[i][p.ack]) \in Packet
                 /\ Data(p.ack, sent[i][p.ack]).type = "DATA"
          BY SentAgain DEF CloseInv, Data
        <4> QED BY <4>2, <4>3
      <3>3. \A j \in Subflow : \A q \in Packets(toServer'[j]) :
              q \in Packets(toServer[j]) \/ (j = i /\ q.type = "DATA")
        BY <3>2, NoNewKind
      <3>4. EndsAgree(i)'
        BY <1>1, <1>3, <1>4, <1>7, <3>1, <3>3 DEF EndsAgree, PeerDone, Over
      <3>5. FinAckUnderWay(i)'
        BY <1>1, <1>5, <1>7, <3>1 DEF FinAckUnderWay
      <3> QED BY <3>1, <3>3, <3>4, <3>5
    <2>2. CASE ReceivedFinAck(i, p)
      <3> DEFINE t == Max2(TxSeqNumber[i], p.ack)
      <3>1. /\ p.type = "FINACK" /\ state[i] = "FIN_WAIT_1" /\ UNCHANGED reset
            /\ toServer' = Put(toServer, i, LastAck(t))
            /\ \E s \in {"TIME_WAIT", "CLOSING"} : state' = [state EXCEPT ![i] = s]
        BY <2>2 DEF ReceivedFinAck
      <3>2. LastAck(t) \in Packet /\ LastAck(t).type = "ACK"
        BY <1>2, <1>3 DEF LastAck, Packet, Max2
      <3>3. \A j \in Subflow : \A q \in Packets(toServer'[j]) :
              q \in Packets(toServer[j]) \/ (j = i /\ q.type = "ACK")
        BY <3>1, <3>2, NoNewKind
      <3>4. state'[i] = "TIME_WAIT" /\ \A j \in Subflow \ {i} : state'[j] = state[j]
        BY <1>2, <3>1 DEF CloseInv, CloseNeverResets
      <3>5. PeerDone(i)
        BY <1>3, <1>7, <3>1 DEF EndsAgree
      <3>6. EndsAgree(i)'
        BY <1>1, <1>3, <1>4, <1>7, <3>1, <3>3, <3>4, <3>5 DEF EndsAgree, PeerDone, Over
      <3>7. FinAckUnderWay(i)'
        BY <3>4 DEF FinAckUnderWay
      <3> QED BY <3>1, <3>3, <3>4, <3>6, <3>7
    <2>3. CASE ReceivedLate(i, p)
      <3>1. /\ state[i] \in {"CLOSING", "TIME_WAIT", "CLOSED"} /\ UNCHANGED <<state, reset>>
            /\ \/ UNCHANGED toServer
               \/ state[i] = "CLOSED" /\ toServer' = Put(toServer, i, Rst)
        BY <2>3 DEF ReceivedLate
      <3>2. Rst \in Packet /\ Rst.type = "RST"
        BY DEF Rst, Packet
      <3>3. \A j \in Subflow : \A q \in Packets(toServer'[j]) :
              q \in Packets(toServer[j]) \/ (j = i /\ q.type = "RST" /\ state[i] = "CLOSED")
        BY <3>1, <3>2, NoNewKind
      <3>4. EndsAgree(i)'
        BY <1>1, <1>3, <1>4, <1>7, <3>1, <3>3 DEF EndsAgree, PeerDone, Over
      <3>5. FinAckUnderWay(i)'
        BY <3>1 DEF FinAckUnderWay
      <3> QED BY <3>1, <3>3, <3>4, <3>5
    <2>4. CASE ProcessSynSent(i, p)
      <3>1. /\ p.type = "SYNACK" /\ state[i] = "SYN_SENT" /\ UNCHANGED reset
            /\ state' = [state EXCEPT ![i] = "ESTABLISHED"]
            /\ toServer' = Put(toServer, i, LastAck(TxSeqNumber[i]))
        BY <2>4 DEF ProcessSynSent, AnswerSynAck
      <3>2. /\ LastAck(TxSeqNumber[i]) \in Packet /\ LastAck(TxSeqNumber[i]).type = "ACK"
            /\ LastAck(TxSeqNumber[i]).seq = 1
        BY <1>2, <3>1, FirstNumber DEF LastAck, Packet
      <3>3. \A j \in Subflow : \A q \in Packets(toServer'[j]) :
              q \in Packets(toServer[j]) \/ (j = i /\ q.type = "ACK" /\ q.seq = 1)
        BY <3>1, <3>2, NoNewKind
      <3>4. state'[i] = "ESTABLISHED" /\ \A j \in Subflow \ {i} : state'[j] = state[j]
        BY <1>2, <3>1
      <3>5. EndsAgree(i)'
        BY <1>1, <1>3, <1>4, <1>7, <3>1, <3>3, <3>4 DEF EndsAgree, PeerDone, Over
      <3>6. FinAckUnderWay(i)'
        BY <3>4 DEF FinAckUnderWay
      <3> QED BY <3>1, <3>3, <3>4, <3>5, <3>6
    <2>5. CASE DuplicatedSynAck(i, p)
      <3>1. UNCHANGED <<state, reset, toServer>> /\ p.type = "SYNACK"
        BY <2>5 DEF DuplicatedSynAck
      <3>2. EndsAgree(i)'
        BY <1>1, <1>3, <1>4, <1>7, <3>1 DEF EndsAgree, PeerDone, Over
      <3>3. FinAckUnderWay(i)'
        BY <1>1, <1>5, <1>7, <3>1 DEF FinAckUnderWay
      <3> QED BY <3>1, <3>2, <3>3
    <2> QED BY <1>1, <1>6, <2>1, <2>2, <2>3, <2>4, <2>5
  <1>9. ASSUME NEW j \in Subflow PROVE EndsAgree(j)' /\ FinAckUnderWay(j)'
    <2>1. CASE j # i
      <3>1. peerState'[j] = peerState[j] /\ finSeq'[j] = finSeq[j] /\ lost' = lost
        BY <1>1
      <3> QED BY <1>4, <1>7, <1>8, <2>1, <3>1, Untouched
    <2> QED BY <1>8, <2>1
  <1>10. JoinInv'
    <2>1. \A j \in Subflow : Packets(toClient'[j]) \subseteq Packets(toClient[j])
      BY <1>3, <1>4
    <2>2. CASE ProcessSynSent(i, p)
      <3>1. /\ p.type = "SYNACK" /\ state[i] = "SYN_SENT" /\ peerState[i] # "NONE"
            /\ state' = [state EXCEPT ![i] = "ESTABLISHED"]
            /\ toServer' = Put(toServer, i, LastAck(TxSeqNumber[i]))
        BY <1>3, <1>7, <2>2 DEF ProcessSynSent, AnswerSynAck, JoinAgrees
      <3>2. /\ toServer'[i] = Append(toServer[i], LastAck(TxSeqNumber[i]))
            /\ toServer[i] \in Seq(Packet)
            /\ LastAck(TxSeqNumber[i]) \in Packet /\ LastAck(TxSeqNumber[i]).type = "ACK"
            /\ \A j \in Subflow \ {i} : toServer'[j] = toServer[j] /\ state'[j] = state[j]
        BY <1>2, <3>1 DEF Put, LastAck, Packet
      <3>3. /\ toServer'[i] # <<>>
            /\ toServer[i] = <<>> => Head(toServer'[i]) = LastAck(TxSeqNumber[i])
            /\ toServer[i] # <<>> => Head(toServer'[i]) = Head(toServer[i])
        BY <3>2
      <3>4. JoinAgrees(i)'
        BY <1>1, <1>7, <3>1, <3>2, <3>3 DEF JoinAgrees
      <3> QED BY <1>1, <1>4, <3>2, <3>4, JoinsKeptElsewhere DEF LossInv
    <2>3. CASE ~ProcessSynSent(i, p)
      <3>1. /\ \A j \in Subflow : state[j] = "SYN_SENT" => state'[j] = "SYN_SENT"
            /\ state[i] # "SYN_SENT"
        BY <1>1, <1>6, <1>8, <2>3 DEF DuplicatedSynAck, ReceivedAck, ReceivedFinAck, ReceivedLate
      <3>2. UNCHANGED toServer \/ \E q \in Packet : toServer' = Put(toServer, i, q)
        <4>1. CASE DuplicatedSynAck(i, p)
          BY <4>1 DEF DuplicatedSynAck
        <4>2. CASE ReceivedAck(i, p)
          <5>1. \/ UNCHANGED toServer
                \/ /\ p.ack \in Nat \ {0} /\ p.ack <= Len(sent[i])
                   /\ toServer' = Put(toServer, i, Data(p.ack, sent[i][p.ack]))
            <6>1. highestAck[i] \in Nat
              BY Types DEF CloseInv
            <6> QED BY <1>3, <4>2, <6>1 DEF ReceivedAck, NewACK, DupAck, OldAck, maxSeqNb
          <5> QED BY <5>1, SentAgain DEF CloseInv
        <4>3. CASE ReceivedFinAck(i, p)
          <5>1. LastAck(Max2(TxSeqNumber[i], p.ack)) \in Packet
            BY <1>2, <1>3 DEF LastAck, Packet, Max2
          <5> QED BY <4>3, <5>1 DEF ReceivedFinAck
        <4>4. CASE ReceivedLate(i, p)
          BY <4>4 DEF ReceivedLate, Rst, Packet
        <4> QED BY <1>1, <1>6, <2>3, <4>1, <4>2, <4>3, <4>4
      <3>3. \A j \in Subflow : SendsBehind(j)
        <4>1. CASE UNCHANGED toServer
          BY <4>1 DEF SendsBehind
        <4> QED BY <3>1, <3>2, <4>1, PutSendsBehind
      <3> QED BY <1>1, <2>1, <3>1, <3>3, JoinsKept DEF LossInv
    <2> QED BY <2>2, <2>3
  <1> QED BY <1>7, <1>8, <1>9, <1>10 DEF LossInv, EndsInv

---------------------------------------------------------------------------
(* Steps of the server.                                                    *)

\* Subflow i has not answered a FIN before the step, nor after it.
NotDone(i) ==
  \/ peerState'[i] = peerState[i] /\ finSeq'[i] = finSeq[i]
  \/ /\ peerState[i] \in {"NONE", "SYN_RCVD", "ESTABLISHED"}
     /\ peerState'[i] \in {"SYN_RCVD", "ESTABLISHED"} \/ (peerState'[i] = "CLOSED" /\ finSeq'[i] = 0)

\* Subflow i moves on, if at all, and answers with a.
ServerStep(i, a) ==
  \/ NotDone(i) /\ a.type \in {"SYNACK", "ACK"}
  \/ /\ finSeq'[i] = finSeq[i] /\ finSeq[i] > 0
     /\ \/ peerState'[i] = peerState[i] /\ a.type = "FINACK" /\ peerState[i] = "LAST_ACK"
        \/ peerState'[i] = peerState[i] /\ a.type = "RST" /\ peerState[i] = "CLOSED"
        \/ peerState[i] = "LAST_ACK" /\ peerState'[i] = "CLOSED" /\ a.type = "FINACK"
  \/ /\ peerState[i] = "ESTABLISHED" /\ peerState'[i] = "LAST_ACK" /\ Over(i)
     /\ finSeq'[i] > 0 /\ a.type = "FINACK"

\* Subflow i moves on or stays, and says nothing.
SilentStep(i) ==
  \/ NotDone(i)
  \/ /\ peerState[i] = "LAST_ACK" /\ peerState'[i] = "CLOSED" /\ finSeq'[i] = finSeq[i]
     /\ state[i] \in {"TIME_WAIT", "CLOSED"}

LEMMA StillNotDone ==
  ASSUME NEW i, NotDone(i)
  PROVE  /\ PeerDone(i)' <=> PeerDone(i)
         /\ peerState[i] = "CLOSED" /\ finSeq[i] > 0 => peerState'[i] = "CLOSED" /\ finSeq'[i] > 0
  <1>1. CASE peerState'[i] = peerState[i] /\ finSeq'[i] = finSeq[i]
    BY <1>1 DEF PeerDone
  <1>2. CASE /\ peerState[i] \in {"NONE", "SYN_RCVD", "ESTABLISHED"}
             /\ peerState'[i] \in {"SYN_RCVD", "ESTABLISHED"} \/ (peerState'[i] = "CLOSED" /\ finSeq'[i] = 0)
    BY <1>2 DEF PeerDone
  <1> QED BY <1>1, <1>2 DEF NotDone

LEMMA ServerSteps ==
  ASSUME CloseInv, EndsInv, NEW i \in Subflow, UNCHANGED <<state, lost, reset>>,
         \A j \in Subflow : Packets(toServer'[j]) \subseteq Packets(toServer[j]),
         \A j \in Subflow \ {i} : peerState'[j] = peerState[j] /\ finSeq'[j] = finSeq[j],
         \/ UNCHANGED toClient /\ SilentStep(i)
         \/ \E a \in Answer : toClient' = Put(toClient, i, a) /\ ServerStep(i, a)
  PROVE  EndsInv'
  <1>1. /\ toClient[i] \in Seq(Answer) /\ toClient \in [Subflow -> Seq(Answer)]
        /\ EndsAgree(i) /\ FinAckUnderWay(i)
    BY DEF CloseInv, TypeOK, EndsInv
  <1>2. CASE UNCHANGED toClient /\ SilentStep(i)
    <2>1. EndsAgree(i)' /\ FinAckUnderWay(i)'
      <3>1. CASE NotDone(i)
        <4>1. EndsAgree(i)'
          BY <1>1, <1>2, <3>1, StillNotDone DEF EndsAgree, Over
        <4>2. FinAckUnderWay(i)'
          BY <1>1, <1>2, <3>1 DEF NotDone, FinAckUnderWay
        <4> QED BY <4>1, <4>2
      <3>2. CASE ~NotDone(i)
        BY <1>1, <1>2, <3>2 DEF SilentStep, EndsAgree, FinAckUnderWay, PeerDone, Over
      <3> QED BY <3>1, <3>2
    <2>2. ASSUME NEW j \in Subflow \ {i} PROVE EndsAgree(j)' /\ FinAckUnderWay(j)'
      BY <1>2, Untouched
    <2> QED BY <2>1, <2>2 DEF EndsInv
  <1>3. ASSUME NEW a \in Answer, toClient' = Put(toClient, i, a), ServerStep(i, a)
        PROVE  EndsInv'
    <2>1. /\ toClient'[i] = Append(toClient[i], a)
          /\ \A j \in Subflow \ {i} : toClient'[j] = toClient[j]
      BY <1>1, <1>3 DEF Put
    <2>2. Packets(toClient'[i]) \subseteq Packets(toClient[i]) \cup {a}
      BY <1>1, <2>1, AppendPackets
    <2>3. EndsAgree(i)'
      <3>1. CASE NotDone(i) /\ a.type \in {"SYNACK", "ACK"}
        BY <1>1, <2>2, <3>1, StillNotDone DEF EndsAgree, Over
      <3>2. CASE ~(NotDone(i) /\ a.type \in {"SYNACK", "ACK"})
        BY <1>1, <1>3, <2>2, <3>2 DEF ServerStep, EndsAgree, PeerDone, Over
      <3> QED BY <3>1, <3>2
    <2>4. FinAckUnderWay(i)'
      <3>1. /\ Answered(toClient[i]) => Answered(toClient'[i])
            /\ AnsweredTwice(toClient[i]) => AnsweredTwice(toClient'[i])
        BY <1>1, <2>1, AppendKeepsFinAck
      <3>2. CASE NotDone(i)
        BY <1>1, <3>1, <3>2 DEF NotDone, FinAckUnderWay
      <3>3. CASE peerState'[i] = peerState[i] /\ finSeq'[i] = finSeq[i]
        BY <1>1, <3>1, <3>3 DEF FinAckUnderWay
      <3>4. CASE /\ peerState'[i] # peerState[i] /\ a.type = "FINACK"
                 /\ peerState[i] \in {"ESTABLISHED", "LAST_ACK"}
        <4>1. \A q \in Packets(toClient[i]) : q.type # "RST"
          BY <1>1, <3>4 DEF EndsAgree
        <4>2. /\ Answered(toClient'[i])
              /\ Answered(toClient[i]) => AnsweredTwice(toClient'[i])
          BY <1>1, <2>1, <3>4, <4>1, AppendFinAck
        <4> QED BY <1>1, <1>3, <3>4, <4>2 DEF ServerStep, FinAckUnderWay
      <3> QED BY <1>3, <3>2, <3>3, <3>4 DEF ServerStep
    <2>5. ASSUME NEW j \in Subflow \ {i} PROVE EndsAgree(j)' /\ FinAckUnderWay(j)'
      BY <2>1, Untouched
    <2> QED BY <2>3, <2>4, <2>5 DEF EndsInv
  <1> QED BY <1>2, <1>3

\* Without a loss, what meets SYN_RCVD is the last ACK.
LEMMA SynRcvdMeetsAck ==
  ASSUME JoinInv, NEW i \in Subflow, peerState[i] = "SYN_RCVD", toServer[i] # <<>>
  PROVE  Head(toServer[i]).type = "ACK"
  BY DEF JoinInv, JoinAgrees

\* Which of its actions the server takes, and what it does to subflow i.
LEMMA ReceiveEffect ==
  ASSUME CloseInv, LossInv, NEW i \in Subflow, toServer[i] # <<>>, UNCHANGED <<state, sent>>,
         NEW p \in Packets(toServer[i]), p = Head(toServer[i]),
         \/ ProcessListen(i, p) \/ ProcessSynRcvd(i, p) \/ ReceivedData(i, p) \/ PeerClose(i, p)
         \/ ProcessLastAck(i, p) \/ PeerReset(i, p) \/ ReceivedClosed(i, p)
  PROVE  /\ \A j \in Subflow \ {i} : peerState'[j] = peerState[j] /\ finSeq'[j] = finSeq[j]
         /\ \/ UNCHANGED toClient /\ SilentStep(i)
            \/ \E a \in Answer : toClient' = Put(toClient, i, a) /\ ServerStep(i, a)
         /\ \/ peerState[i] = "NONE" /\ peerState'[i] = "SYN_RCVD" /\ finSeq'[i] = finSeq[i]
            \/ peerState'[i] = peerState[i] /\ finSeq'[i] = finSeq[i] /\ UNCHANGED toClient
            \/ peerState'[i] \in {"ESTABLISHED", "LAST_ACK"}
            \/ peerState'[i] = "CLOSED" /\ finSeq'[i] > 0
  <1>1. /\ peerState \in [Subflow -> PeerStates] /\ finSeq \in [Subflow -> Nat]
        /\ EndsAgree(i) /\ JoinAgrees(i) /\ RxSeqNumber[i] \in Nat
        /\ peerState[i] = "SYN_RCVD" => p.type = "ACK"
    BY Types, SynRcvdMeetsAck DEF CloseInv, TypeOK, PeerStates, LossInv, EndsInv, JoinInv
  <1>2. /\ SynAck \in Answer /\ SynAck.type = "SYNACK" /\ PeerRst \in Answer /\ PeerRst.type = "RST"
        /\ \A n \in Nat : /\ FinAck(n) \in Answer /\ FinAck(n).type = "FINACK"
                          /\ Ack(n) \in Answer /\ Ack(n).type = "ACK"
    BY DEF SynAck, FinAck, Ack, PeerRst, Answer
  <1>3. CASE ProcessListen(i, p)
    <2>1. /\ peerState[i] = "NONE" /\ peerState' = [peerState EXCEPT ![i] = "SYN_RCVD"]
          /\ toClient' = Put(toClient, i, SynAck) /\ UNCHANGED finSeq
      BY <1>3 DEF ProcessListen
    <2>2. peerState'[i] = "SYN_RCVD" /\ \A j \in Subflow \ {i} : peerState'[j] = peerState[j]
      BY <1>1, <2>1
    <2> QED BY <1>2, <2>1, <2>2 DEF ServerStep, NotDone
  <1>4. CASE ProcessSynRcvd(i, p)
    <2>1. /\ peerState[i] = "SYN_RCVD" /\ peerState'[i] = "ESTABLISHED"
          /\ \A j \in Subflow \ {i} : peerState'[j] = peerState[j]
      BY <1>1, <1>4 DEF ProcessSynRcvd, EndHandshake
    <2>2. UNCHANGED <<toClient, finSeq>>
      BY <1>4 DEF ProcessSynRcvd
    <2> QED BY <2>1, <2>2 DEF SilentStep, NotDone
  <1>5. CASE ReceivedData(i, p)
    <2>1. peerState[i] \in {"ESTABLISHED", "LAST_ACK"} /\ p.type = "DATA"
      BY <1>1, <1>5 DEF ReceivedData
    <2>2. /\ \A j \in Subflow : peerState'[j] = peerState[j]
          /\ toClient' = Put(toClient, i, Ack(RxSeqNumber'[i])) /\ UNCHANGED finSeq
          /\ RxSeqNumber'[i] \in Nat
      BY <1>5, <2>1, ReceivedDataEffect, EndHandshakeEffect DEF DataEffect, DataTypes
    <2> QED BY <1>2, <2>1, <2>2 DEF ServerStep, NotDone
  <1>6. CASE PeerClose(i, p)
    <2>1. /\ peerState[i] = "ESTABLISHED" /\ ThenPeerClose(i, toClient)
          /\ finSeq' = [finSeq EXCEPT ![i] = p.seq]
          /\ RxSeqNumber' = [RxSeqNumber EXCEPT ![i] = IF @ = p.seq THEN @ + 1 ELSE @]
          /\ p.type = "FIN"
      BY <1>6 DEF PeerClose
    <2>2. Over(i) /\ p.seq \in Nat /\ p.seq > 0
      <3>1. Len(sent[i]) \in Nat /\ p.seq = Len(sent[i]) + 1 /\ Over(i)
        BY <2>1, Types, PacketFacts DEF CloseInv
      <3> QED BY <3>1
    <2>3. /\ finSeq'[i] > 0 /\ RxSeqNumber'[i] \in Nat
          /\ \A j \in Subflow \ {i} : finSeq'[j] = finSeq[j]
      <3>1. RxSeqNumber \in [Subflow -> Nat]
        BY DEF CloseInv, TypeOK
      <3>2. RxSeqNumber'[i] = IF RxSeqNumber[i] = p.seq THEN RxSeqNumber[i] + 1 ELSE RxSeqNumber[i]
        BY <2>1, <3>1
      <3>3. finSeq'[i] = p.seq /\ \A j \in Subflow \ {i} : finSeq'[j] = finSeq[j]
        BY <1>1, <2>1
      <3> QED BY <1>1, <2>2, <3>2, <3>3
    <2>4. CASE Finished(i)
      <3>1. /\ toClient' = Put(toClient, i, FinAck(RxSeqNumber'[i]))
            /\ peerState' = [peerState EXCEPT ![i] = "LAST_ACK"]
        BY <2>1, <2>4 DEF ThenPeerClose
      <3>2. peerState'[i] = "LAST_ACK" /\ \A j \in Subflow \ {i} : peerState'[j] = peerState[j]
        BY <1>1, <3>1
      <3> QED BY <1>2, <2>1, <2>2, <2>3, <3>1, <3>2 DEF ServerStep
    <2>5. CASE ~Finished(i)
      <3>1. UNCHANGED toClient /\ EndHandshake(i)
        BY <2>1, <2>5 DEF ThenPeerClose
      <3>2. peerState'[i] = "ESTABLISHED" /\ \A j \in Subflow \ {i} : peerState'[j] = peerState[j]
        BY <2>1, <3>1, EndHandshakeEffect
      <3> QED BY <2>1, <2>3, <3>1, <3>2 DEF SilentStep, NotDone
    <2> QED BY <2>4, <2>5
  <1>7. CASE ProcessLastAck(i, p)
    <2>1. /\ peerState[i] = "LAST_ACK" /\ p.type # "DATA" /\ UNCHANGED finSeq
          /\ finSeq[i] > 0 /\ RxSeqNumber[i] >= 2
      BY <1>7, LastAckDone DEF ProcessLastAck
    <2>2. CASE toClient' = Put(toClient, i, FinAck(RxSeqNumber[i])) /\ UNCHANGED peerState
      BY <1>1, <1>2, <2>1, <2>2 DEF ServerStep
    <2>3. CASE /\ p.type = "RST" \/ (p.type = "ACK" /\ p.seq = RxSeqNumber[i])
               /\ UNCHANGED toClient /\ peerState' = [peerState EXCEPT ![i] = "CLOSED"]
      <3>1. state[i] \in {"TIME_WAIT", "CLOSED"}
        <4>1. CASE p.type = "RST"
          BY <1>1, <4>1 DEF EndsAgree
        <4>2. CASE p.type = "ACK" /\ p.seq = RxSeqNumber[i]
          <5>1. p.seq # 1
            BY <1>1, <2>1, <4>2
          <5> QED BY <1>1, <4>2, <5>1 DEF EndsAgree
        <4> QED BY <2>3, <4>1, <4>2
      <3>2. peerState'[i] = "CLOSED" /\ \A j \in Subflow \ {i} : peerState'[j] = peerState[j]
        BY <1>1, <2>3
      <3> QED BY <2>1, <2>3, <3>1, <3>2 DEF SilentStep
    <2>4. CASE UNCHANGED <<peerState, toClient>>
      BY <2>1, <2>4 DEF SilentStep, NotDone
    <2> QED BY <1>7, <2>2, <2>3, <2>4 DEF ProcessLastAck
  <1>8. ~PeerReset(i, p)
    <2> SUFFICES ASSUME PeerReset(i, p) PROVE FALSE
      OBVIOUS
    <2>1. p.type = "RST" /\ peerState[i] = "ESTABLISHED"
      BY <1>1 DEF PeerReset
    <2> QED BY <1>1, <2>1 DEF EndsAgree, PeerDone
  <1>9. CASE ReceivedClosed(i, p)
    <2>1. /\ UNCHANGED <<peerState, finSeq>>
          /\ \/ UNCHANGED toClient
             \/ i = 0 /\ peerState[i] = "CLOSED" /\ toClient' = Put(toClient, i, PeerRst)
      BY <1>9 DEF ReceivedClosed
    <2>2. i = 0 /\ peerState[i] = "CLOSED" => finSeq[i] > 0
      BY <1>1, Constants DEF JoinAgrees
    <2> QED BY <1>2, <2>1, <2>2 DEF ServerStep, SilentStep, NotDone
  <1> QED BY <1>3, <1>4, <1>5, <1>6, <1>7, <1>8, <1>9

LEMMA ServerReceiveLoss ==
  ASSUME CloseInv, LossInv, NEW i \in Subflow, ServerReceive(i)
  PROVE  LossInv'
  <1> DEFINE p == Head(toServer[i])
  <1>1. /\ toServer[i] # <<>> /\ toServer' = [toServer EXCEPT ![i] = Tail(@)]
        /\ UNCHANGED <<state, lost, reset, sent>>
        /\ \/ ProcessListen(i, p) \/ ProcessSynRcvd(i, p) \/ ReceivedData(i, p) \/ PeerClose(i, p)
           \/ ProcessLastAck(i, p) \/ PeerReset(i, p) \/ ReceivedClosed(i, p)
    BY DEF ServerReceive, clientVars, sendVars, closeVars
  <1>2. /\ \A j \in Subflow : Packets(toServer'[j]) \subseteq Packets(toServer[j])
        /\ p \in Packets(toServer[i])
    BY <1>1, TailToServer DEF CloseInv
  <1>3. /\ \A j \in Subflow \ {i} : peerState'[j] = peerState[j] /\ finSeq'[j] = finSeq[j]
        /\ \/ UNCHANGED toClient /\ SilentStep(i)
           \/ \E a \in Answer : toClient' = Put(toClient, i, a) /\ ServerStep(i, a)
        /\ \/ peerState[i] = "NONE" /\ peerState'[i] = "SYN_RCVD" /\ finSeq'[i] = finSeq[i]
           \/ peerState'[i] = peerState[i] /\ finSeq'[i] = finSeq[i] /\ UNCHANGED toClient
           \/ peerState'[i] \in {"ESTABLISHED", "LAST_ACK"}
           \/ peerState'[i] = "CLOSED" /\ finSeq'[i] > 0
    BY <1>1, <1>2, ReceiveEffect
  <1>4. EndsInv'
    BY <1>1, <1>2, <1>3, ServerSteps DEF LossInv
  <1>5. /\ toServer'[i] = Tail(toServer[i])
        /\ \A j \in Subflow \ {i} : toServer'[j] = toServer[j]
        /\ Len(toServer[i]) <= 1 => Tail(toServer[i]) = <<>>
    <2>1. toServer \in [Subflow -> Seq(Packet)] /\ toServer[i] \in Seq(Packet)
      BY DEF CloseInv, TypeOK
    <2> QED BY <1>1, <2>1
  <1>6. \A j \in Subflow \ {i} : toClient'[j] = toClient[j]
    BY <1>3 DEF CloseInv, TypeOK, Put
  <1>7. JoinAgrees(i)
    BY DEF LossInv, JoinInv
  <1>8. JoinAgrees(i)'
    <2>1. CASE peerState[i] = "NONE" /\ peerState'[i] = "SYN_RCVD" /\ finSeq'[i] = finSeq[i]
      <3>1. i \in Late /\ state'[i] = "SYN_SENT" /\ finSeq'[i] = 0 /\ toServer'[i] = <<>>
        BY <1>1, <1>5, <1>7, <2>1 DEF JoinAgrees
      <3> QED BY <2>1, <3>1 DEF JoinAgrees
    <2>2. CASE peerState'[i] = peerState[i] /\ finSeq'[i] = finSeq[i] /\ UNCHANGED toClient
      <3>1. CASE peerState[i] = "NONE"
        <4>1. Len(toServer'[i]) <= 1
          <5>1. Len(<<>>) <= 1
            OBVIOUS
          <5> QED BY <1>5, <1>7, <3>1, <5>1 DEF JoinAgrees
        <4> QED BY <1>1, <1>7, <2>2, <3>1, <4>1 DEF JoinAgrees
      <3>2. CASE peerState[i] = "SYN_RCVD"
        <4>1. p.type = "ACK"
          BY <1>1, <3>2, SynRcvdMeetsAck DEF LossInv
        <4>2. ProcessSynRcvd(i, p)
          <5>1. ~ServerClosed
            BY <3>2 DEF ServerClosed
          <5> QED BY <1>1, <3>2, <4>1, <5>1 DEF ProcessListen, ReceivedData, PeerClose, ProcessLastAck,
                PeerReset, ReceivedClosed
        <4>3. peerState'[i] = "ESTABLISHED"
          BY <3>2, <4>2 DEF ProcessSynRcvd, EndHandshake, CloseInv, TypeOK
        <4> QED BY <2>2, <3>2, <4>3
      <3>3. CASE peerState[i] \notin {"NONE", "SYN_RCVD"}
        BY <1>7, <2>2, <3>3 DEF JoinAgrees
      <3> QED BY <3>1, <3>2, <3>3
    <2>3. CASE peerState'[i] \in {"ESTABLISHED", "LAST_ACK"} \/ (peerState'[i] = "CLOSED" /\ finSeq'[i] > 0)
      BY <2>3 DEF JoinAgrees
    <2> QED BY <1>3, <2>1, <2>2, <2>3
  <1>9. JoinInv'
    BY <1>1, <1>3, <1>5, <1>6, <1>8, JoinsKeptElsewhere DEF LossInv
  <1> QED BY <1>4, <1>9 DEF LossInv

LEMMA LastAckTimeoutLoss ==
  ASSUME CloseInv, LossInv, NEW i \in Subflow, LastAckTimeout(i)
  PROVE  LossInv'
  <1>1. /\ peerState[i] = "LAST_ACK"
        /\ toClient' = Put(toClient, i, FinAck(RxSeqNumber[i]))
        /\ peerState' = [peerState EXCEPT ![i] = "CLOSED"]
        /\ UNCHANGED <<state, lost, reset, toServer, finSeq>>
    BY DEF LastAckTimeout, ResendFinAck, clientVars, closeVars
  <1>2. FinAck(RxSeqNumber[i]) \in Answer /\ FinAck(RxSeqNumber[i]).type = "FINACK"
    BY Types DEF CloseInv, FinAck, Answer
  <1>3. /\ peerState'[i] = "CLOSED" /\ finSeq'[i] > 0
        /\ \A j \in Subflow \ {i} : peerState'[j] = peerState[j] /\ toClient'[j] = toClient[j]
    BY <1>1, LastAckDone DEF CloseInv, TypeOK, Put
  <1>4. ServerStep(i, FinAck(RxSeqNumber[i]))
    BY <1>1, <1>2, <1>3 DEF ServerStep
  <1>5. EndsInv'
    BY <1>1, <1>2, <1>3, <1>4, ServerSteps DEF LossInv
  <1>6. JoinAgrees(i)'
    BY <1>3 DEF JoinAgrees
  <1>7. JoinInv'
    BY <1>1, <1>3, <1>6, JoinsKeptElsewhere DEF LossInv
  <1> QED BY <1>5, <1>7 DEF LossInv

\* The SYN+ACK leaves again, or the subflow is given up without a FIN.
LEMMA ResendSynAckLoss ==
  ASSUME CloseInv, LossInv, NEW i \in Subflow, ResendSynAck(i)
  PROVE  LossInv'
  <1>1. /\ peerState[i] = "SYN_RCVD" /\ UNCHANGED <<state, lost, reset, toServer, finSeq>>
        /\ \/ toClient' = Put(toClient, i, SynAck) /\ UNCHANGED peerState
           \/ peerState' = [peerState EXCEPT ![i] = "CLOSED"] /\ UNCHANGED toClient
    BY DEF ResendSynAck, clientVars, closeVars
  <1>2. JoinAgrees(i)
    BY DEF LossInv, JoinInv
  <1>3. i \in Late /\ finSeq[i] = 0
    BY <1>1, <1>2 DEF JoinAgrees
  <1>4. SynAck \in Answer /\ SynAck.type = "SYNACK"
    BY DEF SynAck, Answer
  <1>5. \A j \in Subflow \ {i} : peerState'[j] = peerState[j] /\ toClient'[j] = toClient[j]
    BY <1>1 DEF CloseInv, TypeOK, Put
  <1>6. CASE toClient' = Put(toClient, i, SynAck) /\ UNCHANGED peerState
    <2>1. ServerStep(i, SynAck)
      BY <1>1, <1>4, <1>6 DEF ServerStep, NotDone
    <2>2. EndsInv'
      BY <1>1, <1>4, <1>5, <1>6, <2>1, ServerSteps DEF LossInv
    <2>3. JoinAgrees(i)'
      BY <1>1, <1>2, <1>6 DEF JoinAgrees
    <2>4. JoinInv'
      BY <1>1, <1>5, <2>3, JoinsKeptElsewhere DEF LossInv
    <2> QED BY <2>2, <2>4 DEF LossInv
  <1>7. CASE peerState' = [peerState EXCEPT ![i] = "CLOSED"] /\ UNCHANGED toClient
    <2>1. peerState'[i] = "CLOSED"
      BY <1>7 DEF CloseInv, TypeOK
    <2>2. SilentStep(i)
      BY <1>1, <1>3, <2>1 DEF SilentStep, NotDone
    <2>3. EndsInv'
      BY <1>1, <1>5, <1>7, <2>2, ServerSteps DEF LossInv
    <2>4. JoinAgrees(i)'
      BY <1>1, <1>3, <2>1 DEF JoinAgrees
    <2>5. JoinInv'
      BY <1>1, <1>5, <2>4, JoinsKeptElsewhere DEF LossInv
    <2> QED BY <2>3, <2>5 DEF LossInv
  <1> QED BY <1>1, <1>6, <1>7

---------------------------------------------------------------------------
(* A loss.                                                                 *)

LEMMA LosePacketLoss ==
  ASSUME CloseInv, LossInv, lost = 0, Late = {}, NEW i \in Subflow, LosePacket(i)
  PROVE  LossInv'
  <1>1. lost' = 1 /\ UNCHANGED <<state, reset, peerState, finSeq>>
    BY DEF LosePacket, clientVars, closeVars, serverVars
  <1>2. /\ toServer \in [Subflow -> Seq(Packet)] /\ toClient \in [Subflow -> Seq(Answer)]
        /\ toServer[i] \in Seq(Packet) /\ toClient[i] \in Seq(Answer) /\ EndsInv
    BY DEF CloseInv, TypeOK, LossInv
  <1>3. JoinInv'
    <2>1. ASSUME NEW j \in Subflow PROVE JoinAgrees(j)'
      <3>1. JoinAgrees(j) /\ j \notin Late
        BY DEF LossInv, JoinInv
      <3> QED BY <1>1, <3>1 DEF JoinAgrees
    <2> QED BY <2>1 DEF JoinInv
  <1>4. CASE \E k \in 1 .. Len(toServer[i]) :
               toServer' = [toServer EXCEPT ![i] = DropAt(@, k)] /\ UNCHANGED toClient
    <2>1. PICK k \in 1 .. Len(toServer[i]) :
            toServer' = [toServer EXCEPT ![i] = DropAt(@, k)] /\ UNCHANGED toClient
      BY <1>4
    <2>2. Packets(DropAt(toServer[i], k)) \subseteq Packets(toServer[i])
      BY <1>2, DropPackets
    <2>3. \A j \in Subflow : Packets(toServer'[j]) \subseteq Packets(toServer[j])
      BY <1>2, <2>1, <2>2
    <2>4. ASSUME NEW j \in Subflow PROVE EndsAgree(j)' /\ FinAckUnderWay(j)'
      BY <1>1, <1>2, <2>1, <2>3, Untouched
    <2> QED BY <1>1, <1>2, <1>3, <2>4 DEF LossInv, EndsInv
  <1>5. CASE \E k \in 1 .. Len(toClient[i]) :
               toClient' = [toClient EXCEPT ![i] = DropAt(@, k)] /\ UNCHANGED toServer
    <2>1. PICK k \in 1 .. Len(toClient[i]) :
            toClient' = [toClient EXCEPT ![i] = DropAt(@, k)] /\ UNCHANGED toServer
      BY <1>5
    <2>2. /\ toClient'[i] = DropAt(toClient[i], k)
          /\ \A j \in Subflow \ {i} : toClient'[j] = toClient[j]
      BY <1>2, <2>1
    <2>3. Packets(toClient'[i]) \subseteq Packets(toClient[i])
      BY <1>2, <2>2, DropPackets
    <2>4. AnsweredTwice(toClient[i]) => Answered(toClient'[i])
      BY <1>2, <2>2, DropLeavesFinAck
    <2>5. EndsAgree(i) /\ FinAckUnderWay(i)
      BY <1>2 DEF EndsInv
    <2>6. EndsAgree(i)'
      BY <1>1, <2>1, <2>3, <2>5 DEF EndsAgree, PeerDone, Over
    <2>7. FinAckUnderWay(i)'
      BY <1>1, <2>4, <2>5 DEF FinAckUnderWay
    <2>8. ASSUME NEW j \in Subflow \ {i} PROVE EndsAgree(j)' /\ FinAckUnderWay(j)'
      BY <1>1, <1>2, <2>1, <2>2, Untouched
    <2> QED BY <1>1, <1>2, <1>3, <2>6, <2>7, <2>8 DEF LossInv, EndsInv
  <1> QED BY <1>4, <1>5 DEF LosePacket

---------------------------------------------------------------------------
(* The theorem.                                                            *)

LEMMA NextLoss ==
  ASSUME CloseInv, CloseInv', lost <= Harmless => LossInv, lost' <= Harmless, [Next]_vars
  PROVE  LossInv'
  <1>1. /\ lost \in Nat /\ Harmless \in Nat
        /\ lost' = lost \/ (lost' = lost + 1 /\ \E i \in Subflow : LosePacket(i))
    <2>1. lost \in Nat /\ Harmless \in Nat
      BY Constants DEF CloseInv, TypeOK, Harmless
    <2>2. CASE UNCHANGED vars \/ Stop \/ Sending \/ Close \/ CloseMultipathConnection
      BY <2>1, <2>2 DEF vars, netVars, Stop, Sending, SendPendingData, EndSendPendingData, Close,
         CloseMultipathConnection
    <2>3. ASSUME NEW i \in Subflow,
                 \/ ScheduledDoClose(i) \/ ClientReceive(i) \/ ReTxTimeout(i)
                 \/ ServerReceive(i) \/ LastAckTimeout(i) \/ ResendSynAck(i)
          PROVE  lost' = lost
      BY <2>3 DEF ScheduledDoClose, ClientReceive, ReTxTimeout, ServerReceive, LastAckTimeout,
         ResendSynAck
    <2>4. ASSUME NEW i \in Subflow, LosePacket(i) PROVE lost' = lost + 1
      BY <2>4 DEF LosePacket
    <2> QED BY <2>1, <2>2, <2>3, <2>4 DEF Next
  <1>2. LossInv
    BY <1>1
  <1>3. CASE UNCHANGED vars \/ Stop \/ EndSendPendingData \/ CloseMultipathConnection
    BY <1>2, <1>3, QuietLoss DEF Stop
  <1>4. CASE SendPendingData \/ Close
    BY <1>2, <1>4, SendPendingDataLoss, CloseLoss
  <1>5. ASSUME NEW i \in Subflow, ScheduledDoClose(i) \/ ClientReceive(i) \/ ReTxTimeout(i)
        PROVE  LossInv'
    BY <1>2, <1>5, CloseLoss, ClientReceiveLoss, ReTxTimeoutLoss
  <1>6. ASSUME NEW i \in Subflow, ServerReceive(i) \/ LastAckTimeout(i) \/ ResendSynAck(i)
        PROVE  LossInv'
    BY <1>2, <1>6, ServerReceiveLoss, LastAckTimeoutLoss, ResendSynAckLoss
  <1>7. ASSUME NEW i \in Subflow, LosePacket(i)
        PROVE  LossInv'
    <2>1. lost' = lost + 1
      BY <1>7 DEF LosePacket
    <2>2. lost = 0 /\ Late = {}
      BY <1>1, <2>1 DEF Harmless
    <2> QED BY <1>2, <1>7, <2>2, LosePacketLoss
  <1> QED BY <1>3, <1>4, <1>5, <1>6, <1>7 DEF Next, Sending

\* A connection that lost nothing is never reset, nor one that lost a single
\* packet if no join was late, whatever the timers of the two ends do
\* (DoPeerClose, LastAckTimeout, ProcessWait, the resent SYN+ACK and
\* ProcessSynRcvd).  It takes the loss of both FIN+ACKs to leave the client
\* speaking to a closed end, or that of a join's last ACK for a FIN to meet
\* SYN_RCVD.
THEOREM ResetTakesLosses == Spec => []ResetNeedsLoss
  <1>1. Init => (lost <= Harmless => LossInv)
    BY InitLoss
  <1>2. CloseInv /\ CloseInv' /\ (lost <= Harmless => LossInv) /\ [Next]_vars
          => (lost <= Harmless => LossInv)'
    BY NextLoss DEF Harmless
  <1>3. CloseInv /\ (lost <= Harmless => LossInv) => ResetNeedsLoss
    <2> SUFFICES ASSUME CloseInv, lost <= Harmless => LossInv PROVE ResetNeedsLoss
      OBVIOUS
    <2>1. lost \in Nat /\ Harmless \in Nat /\ Harmless = IF Late = {} THEN 1 ELSE 0
      BY Constants DEF CloseInv, TypeOK, Harmless
    <2> QED BY <2>1 DEF LossInv, EndsInv, ResetNeedsLoss
  <1> QED BY <1>1, <1>2, <1>3, CloseInvariant, PTL DEF Spec

\* A network that loses at most one packet resets no connection whose joins
\* were all over when the last segment was written.
COROLLARY NetworkLosesOne ==
  ASSUME Late = {}, MaxLoss <= 1
  PROVE  Spec => []NoReset
  <1>1. TypeOK /\ ResetNeedsLoss => NoReset
    BY Constants DEF TypeOK, ResetNeedsLoss, NoReset
  <1> QED BY <1>1, ResetTakesLosses, TypeCorrect, PTL

=============================================================================
