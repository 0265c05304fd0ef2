-------------------------- MODULE MpTcpCloseProofs --------------------------
(***************************************************************************)
(* Proofs about MpTcpClose, for any number of subflows and of joins still   *)
(* going on, any amount of data, any window and any losses.                *)
(***************************************************************************)
EXTENDS MpTcpClose, TLAPS

Packets(ch) == {ch[k] : k \in 1 .. Len(ch)}

\* Subflow i will not send new data any more.
Over(i) == state[i] \notin {"SYN_SENT", "ESTABLISHED"}

\* What the client counts.
Counted ==
  /\ nextTxSequence + sendingBuffer <= MaxData + 1
  /\ \A i \in Subflow : /\ TxSeqNumber[i] >= 1 /\ highestAck[i] <= Len(sent[i]) + 1
                        /\ state[i] = "SYN_SENT" => sent[i] = <<>>
                        /\ ~Over(i) => TxSeqNumber[i] <= Len(sent[i]) + 1

\* A subflow that closes in order does so with an empty send buffer, and gets
\* past FIN_WAIT_1 with everything acknowledged; only a FIN sets the FIN's timer.
ClosesInOrder ==
  /\ scheduled # {} => sendingBuffer = 0
  /\ \A i \in Subflow :
       /\ state[i] \in {"FIN_WAIT_1", "TIME_WAIT"} \/ (state[i] = "CLOSED" /\ ~reset)
            => sendingBuffer = 0
       /\ state[i] = "TIME_WAIT" \/ (state[i] = "CLOSED" /\ ~reset)
            => highestAck[i] >= Len(sent[i])
       /\ retxEvent[i] = "fin" => Over(i)

\* The FIN's number is the one after all data of its subflow, and what the
\* server expects goes past it only when the FIN came.
FinIsLast ==
  /\ \A i \in Subflow :
       /\ finSeq[i] = 0 \/ (finSeq[i] = Len(sent[i]) + 1 /\ Over(i))
       /\ RxSeqNumber[i] <= Len(sent[i]) + 2
       /\ RxSeqNumber[i] = Len(sent[i]) + 2 => finSeq[i] # 0
  /\ \A u \in unOrdered : u.seq <= Len(sent[u.sf])

\* The packets in flight fit what was sent and received.
FlightFits ==
  \A i \in Subflow :
    /\ \A p \in Packets(toServer[i]) :
         /\ p.type = "DATA" => p.seq <= Len(sent[i])
         /\ p.type = "FIN" => p.seq = Len(sent[i]) + 1 /\ Over(i)
    /\ \A p \in Packets(toClient[i]) :
         /\ p.type = "ACK" => p.ack <= RxSeqNumber[i]
         /\ p.type = "FINACK" => p.ack = Len(sent[i]) + 2 /\ Over(i)

\* The inductive invariant.
CloseInv ==
  /\ TypeOK /\ Counted /\ TimerCoversClose /\ ClosesInOrder /\ CloseNeverResets
  /\ FinIsLast /\ FinMeansAllReceived /\ FlightFits

---------------------------------------------------------------------------
(* Constants and channels.                                                 *)

LEMMA Constants ==
  /\ NSub \in Nat \ {0} /\ MaxData \in Nat /\ Window \in Nat \ {0} /\ MaxClose \in Nat
  /\ ChanCap \in Nat \ {0} /\ MaxLoss \in Nat /\ CnRetries \in Nat \ {0}
  /\ 0 \in Subflow
  /\ Late \subseteq Subflow /\ 0 \notin Late
  BY CloseAssumption DEF Subflow

LEMMA NoPackets == Packets(<<>>) = {}
  BY DEF Packets

LEMMA AppendPackets ==
  ASSUME NEW S, NEW s \in Seq(S), NEW p \in S
  PROVE  Append(s, p) \in Seq(S) /\ Packets(Append(s, p)) \subseteq Packets(s) \cup {p}
  <1>1. Append(s, p) \in Seq(S) /\ Len(Append(s, p)) = Len(s) + 1
    OBVIOUS
  <1>2. ASSUME NEW k \in 1 .. Len(s) + 1
        PROVE  Append(s, p)[k] \in Packets(s) \cup {p}
    <2>1. CASE k = Len(s) + 1
      BY <2>1
    <2>2. CASE k # Len(s) + 1
      <3>1. k \in 1 .. Len(s) /\ Append(s, p)[k] = s[k]
        BY <2>2
      <3> QED BY <3>1 DEF Packets
    <2> QED BY <2>1, <2>2
  <1> QED BY <1>1, <1>2 DEF Packets

LEMMA TailPackets ==
  ASSUME NEW S, NEW s \in Seq(S), s # <<>>
  PROVE  /\ Tail(s) \in Seq(S) /\ Packets(Tail(s)) \subseteq Packets(s)
         /\ Head(s) \in S /\ Head(s) \in Packets(s)
  <1>1. Tail(s) \in Seq(S) /\ Len(Tail(s)) = Len(s) - 1 /\ Head(s) = s[1] /\ Len(s) >= 1
    OBVIOUS
  <1>2. ASSUME NEW k \in 1 .. Len(s) - 1
        PROVE  Tail(s)[k] \in Packets(s)
    <2>1. Tail(s)[k] = s[k + 1] /\ k + 1 \in 1 .. Len(s)
      BY <1>1
    <2> QED BY <2>1 DEF Packets
  <1> QED BY <1>1, <1>2 DEF Packets

LEMMA DropPackets ==
  ASSUME NEW S, NEW s \in Seq(S), NEW k \in 1 .. Len(s)
  PROVE  DropAt(s, k) \in Seq(S) /\ Packets(DropAt(s, k)) \subseteq Packets(s)
  <1>1. DropAt(s, k) \in Seq(S) /\ Len(DropAt(s, k)) = Len(s) - 1
    BY DEF DropAt
  <1>2. ASSUME NEW j \in 1 .. Len(s) - 1
        PROVE  DropAt(s, k)[j] \in Packets(s)
    <2>1. j \in 1 .. Len(s) /\ j + 1 \in 1 .. Len(s)
      OBVIOUS
    <2>2. DropAt(s, k)[j] = IF j < k THEN s[j] ELSE s[j + 1]
      BY <2>1 DEF DropAt
    <2> QED BY <2>1, <2>2 DEF Packets
  <1> QED BY <1>1, <1>2 DEF Packets

LEMMA PutPackets ==
  ASSUME NEW S, NEW ch \in [Subflow -> Seq(S)], NEW i \in Subflow, NEW p \in S
  PROVE  /\ Put(ch, i, p) \in [Subflow -> Seq(S)]
         /\ \A j \in Subflow : Packets(Put(ch, i, p)[j]) \subseteq
                                Packets(ch[j]) \cup (IF j = i THEN {p} ELSE {})
  <1>1. ASSUME NEW j \in Subflow
        PROVE  Put(ch, i, p)[j] = IF j = i THEN Append(ch[i], p) ELSE ch[j]
    BY DEF Put
  <1>2. Append(ch[i], p) \in Seq(S) /\ Packets(Append(ch[i], p)) \subseteq Packets(ch[i]) \cup {p}
    BY AppendPackets
  <1>3. Put(ch, i, p) \in [Subflow -> Seq(S)]
    BY <1>2 DEF Put
  <1> QED BY <1>1, <1>2, <1>3

LEMMA PutToServer ==
  ASSUME NEW ch \in [Subflow -> Seq(Packet)], NEW i \in Subflow, NEW p \in Packet
  PROVE  /\ Put(ch, i, p) \in [Subflow -> Seq(Packet)]
         /\ \A j \in Subflow : Packets(Put(ch, i, p)[j]) \subseteq
                                Packets(ch[j]) \cup (IF j = i THEN {p} ELSE {})
  BY PutPackets

LEMMA PutToClient ==
  ASSUME NEW ch \in [Subflow -> Seq(Answer)], NEW i \in Subflow, NEW p \in Answer
  PROVE  /\ Put(ch, i, p) \in [Subflow -> Seq(Answer)]
         /\ \A j \in Subflow : Packets(Put(ch, i, p)[j]) \subseteq
                                Packets(ch[j]) \cup (IF j = i THEN {p} ELSE {})
  BY PutPackets

LEMMA TailToClient ==
  ASSUME TypeOK, NEW i \in Subflow, toClient[i] # <<>>,
         toClient' = [toClient EXCEPT ![i] = Tail(@)]
  PROVE  /\ toClient' \in [Subflow -> Seq(Answer)]
         /\ \A j \in Subflow : Packets(toClient'[j]) \subseteq Packets(toClient[j])
         /\ Head(toClient[i]) \in Answer /\ Head(toClient[i]) \in Packets(toClient[i])
  <1>1. toClient \in [Subflow -> Seq(Answer)] /\ toClient[i] \in Seq(Answer)
    BY DEF TypeOK
  <1>2. /\ Tail(toClient[i]) \in Seq(Answer) /\ Packets(Tail(toClient[i])) \subseteq Packets(toClient[i])
        /\ Head(toClient[i]) \in Answer /\ Head(toClient[i]) \in Packets(toClient[i])
    BY <1>1, TailPackets
  <1>3. \A j \in Subflow : toClient'[j] = IF j = i THEN Tail(toClient[i]) ELSE toClient[j]
    BY <1>1
  <1> QED BY <1>1, <1>2, <1>3

LEMMA TailToServer ==
  ASSUME TypeOK, NEW i \in Subflow, toServer[i] # <<>>,
         toServer' = [toServer EXCEPT ![i] = Tail(@)]
  PROVE  /\ toServer' \in [Subflow -> Seq(Packet)]
         /\ \A j \in Subflow : Packets(toServer'[j]) \subseteq Packets(toServer[j])
         /\ Head(toServer[i]) \in Packet /\ Head(toServer[i]) \in Packets(toServer[i])
  <1>1. toServer \in [Subflow -> Seq(Packet)] /\ toServer[i] \in Seq(Packet)
    BY DEF TypeOK
  <1>2. /\ Tail(toServer[i]) \in Seq(Packet) /\ Packets(Tail(toServer[i])) \subseteq Packets(toServer[i])
        /\ Head(toServer[i]) \in Packet /\ Head(toServer[i]) \in Packets(toServer[i])
    BY <1>1, TailPackets
  <1>3. \A j \in Subflow : toServer'[j] = IF j = i THEN Tail(toServer[i]) ELSE toServer[j]
    BY <1>1
  <1> QED BY <1>1, <1>2, <1>3

---------------------------------------------------------------------------
(* The initial states.                                                     *)

LEMMA InitCloseInv == Init => CloseInv
  <1> SUFFICES ASSUME Init PROVE CloseInv
    OBVIOUS
  <1>1. TypeOK
    <2>1. loop \in [pc : {"idle", "send", "resend"}, sf : Subflow]
      BY Constants DEF Init, EnterSend
    <2>2. /\ sendingBuffer \in 0 .. MaxData /\ nextTxSequence \in 1 .. MaxData + 1
          /\ closes \in 0 .. MaxClose /\ lost \in 0 .. MaxLoss /\ currentSublow \in Subflow
      BY Constants DEF Init
    <2>3. /\ toServer \in [Subflow -> Seq(Packet)] /\ toClient \in [Subflow -> Seq(Answer)]
          /\ sent \in [Subflow -> Seq(Nat)]
      <3>1. JoinSyn \in Packet
        BY DEF JoinSyn, Packet
      <3>2. <<JoinSyn>> \in Seq(Packet)
        BY <3>1
      <3> QED BY <3>2 DEF Init
    <2>4. /\ state \in [Subflow -> {"SYN_SENT", "ESTABLISHED", "FIN_WAIT_1", "CLOSING",
                                    "TIME_WAIT", "CLOSED"}]
          /\ peerState \in [Subflow -> {"NONE", "SYN_RCVD", "ESTABLISHED", "LAST_ACK", "CLOSED"}]
          /\ cnCount \in [Subflow -> 0 .. CnRetries]
          /\ TxSeqNumber \in [Subflow -> Nat] /\ highestAck \in [Subflow -> Nat]
          /\ finSeq \in [Subflow -> Nat] /\ RxSeqNumber \in [Subflow -> Nat]
          /\ retxEvent \in [Subflow -> Timer]
      BY Constants DEF Init, Timer
    <2>5. closeOnEmpty \in BOOLEAN /\ reset \in BOOLEAN /\ scheduled \subseteq Subflow
          /\ nextRxSequence \in Nat /\ unOrdered = {}
      BY Constants DEF Init
    <2> QED BY <2>1, <2>2, <2>3, <2>4, <2>5 DEF TypeOK
  <1>2. \A i \in Subflow : /\ state[i] \in {"SYN_SENT", "ESTABLISHED"} /\ sent[i] = <<>> /\ Len(sent[i]) = 0
                            /\ highestAck[i] = 0 /\ TxSeqNumber[i] = 1 /\ finSeq[i] = 0
                            /\ RxSeqNumber[i] = 1 /\ peerState[i] # "LAST_ACK"
    BY DEF Init
  <1>3. Counted
    BY <1>2, Constants DEF Init, Counted
  <1>4. TimerCoversClose /\ ClosesInOrder
    <2>1. \A i \in Subflow : retxEvent[i] = "none"
      BY DEF Init
    <2> QED BY <1>2, <2>1 DEF Init, TimerCoversClose, ClosesInOrder, maxSeqNb
  <1>5. CloseNeverResets
    BY Constants, <1>2 DEF Init, CloseNeverResets
  <1>6. FinIsLast /\ FinMeansAllReceived
    BY <1>2 DEF Init, FinIsLast, FinMeansAllReceived
  <1>7. FlightFits
    <2>1. ASSUME NEW i \in Subflow, NEW p \in Packets(toServer[i]) PROVE p.type = "JOIN"
      <3>1. toServer[i] = <<JoinSyn>> \/ toServer[i] = <<>>
        BY DEF Init
      <3>2. p = JoinSyn
        BY <2>1, <3>1, NoPackets DEF Packets
      <3> QED BY <3>2 DEF JoinSyn
    <2>2. ASSUME NEW i \in Subflow PROVE Packets(toClient[i]) = {}
      BY NoPackets DEF Init
    <2> QED BY <2>1, <2>2 DEF FlightFits
  <1> QED BY <1>1, <1>3, <1>4, <1>5, <1>6, <1>7 DEF CloseInv

---------------------------------------------------------------------------
(* What the invariant says of one subflow, and what steps keep.             *)

States == {"SYN_SENT", "ESTABLISHED", "FIN_WAIT_1", "CLOSING", "TIME_WAIT", "CLOSED"}
PeerStates == {"NONE", "SYN_RCVD", "ESTABLISHED", "LAST_ACK", "CLOSED"}

LEMMA Types ==
  ASSUME TypeOK, NEW i \in Subflow
  PROVE  /\ state[i] \in States /\ peerState[i] \in PeerStates /\ retxEvent[i] \in Timer
         /\ TxSeqNumber[i] \in Nat /\ highestAck[i] \in Nat /\ finSeq[i] \in Nat
         /\ RxSeqNumber[i] \in Nat /\ sent[i] \in Seq(Nat) /\ Len(sent[i]) \in Nat
         /\ toServer[i] \in Seq(Packet) /\ toClient[i] \in Seq(Answer)
         /\ Packets(toServer[i]) \subseteq Packet /\ Packets(toClient[i]) \subseteq Answer
  <1>1. /\ state[i] \in States /\ peerState[i] \in PeerStates /\ retxEvent[i] \in Timer
        /\ TxSeqNumber[i] \in Nat /\ highestAck[i] \in Nat /\ finSeq[i] \in Nat
        /\ RxSeqNumber[i] \in Nat
    BY DEF TypeOK, States, PeerStates
  <1>2. sent[i] \in Seq(Nat) /\ toServer[i] \in Seq(Packet) /\ toClient[i] \in Seq(Answer)
    BY DEF TypeOK
  <1>3. Len(sent[i]) \in Nat
    BY <1>2
  <1>4. Packets(toServer[i]) \subseteq Packet /\ Packets(toClient[i]) \subseteq Answer
    BY <1>2 DEF Packets
  <1> QED BY <1>1, <1>2, <1>3, <1>4

\* No step undoes these.
Progress ==
  \A j \in Subflow :
    /\ Len(sent'[j]) \in Nat /\ Len(sent'[j]) >= Len(sent[j])
    /\ Over(j) => Over(j)' /\ sent'[j] = sent[j]

LEMMA ServerKept ==
  ASSUME TypeOK, FinIsLast, FinMeansAllReceived, Progress,
         UNCHANGED <<peerState, finSeq, RxSeqNumber, unOrdered>>
  PROVE  FinIsLast' /\ FinMeansAllReceived'
  <1>1. ASSUME NEW i \in Subflow
        PROVE  /\ finSeq[i] = 0 \/ (finSeq[i] = Len(sent'[i]) + 1 /\ Over(i)')
               /\ RxSeqNumber[i] <= Len(sent'[i]) + 2
               /\ RxSeqNumber[i] = Len(sent'[i]) + 2 => finSeq[i] # 0
               /\ peerState[i] = "LAST_ACK" => RxSeqNumber[i] = Len(sent'[i]) + 2
    <2>1. Len(sent[i]) \in Nat /\ RxSeqNumber[i] \in Nat /\ finSeq[i] \in Nat
      BY Types
    <2>2. /\ finSeq[i] = 0 \/ (finSeq[i] = Len(sent[i]) + 1 /\ Over(i))
          /\ RxSeqNumber[i] <= Len(sent[i]) + 2
          /\ RxSeqNumber[i] = Len(sent[i]) + 2 => finSeq[i] # 0
          /\ peerState[i] = "LAST_ACK" => RxSeqNumber[i] = Len(sent[i]) + 2
      BY DEF FinIsLast, FinMeansAllReceived
    <2>3. /\ Len(sent'[i]) \in Nat /\ Len(sent'[i]) >= Len(sent[i])
          /\ Over(i) => Over(i)' /\ Len(sent'[i]) = Len(sent[i])
      BY DEF Progress
    <2> QED BY <2>1, <2>2, <2>3
  <1>2. ASSUME NEW u \in unOrdered
        PROVE  u.seq <= Len(sent'[u.sf])
    <2>1. u.sf \in Subflow /\ u.seq \in Nat /\ u.seq <= Len(sent[u.sf])
      BY DEF TypeOK, FinIsLast
    <2>2. Len(sent[u.sf]) \in Nat /\ Len(sent'[u.sf]) \in Nat /\ Len(sent'[u.sf]) >= Len(sent[u.sf])
      BY <2>1, Types DEF Progress
    <2> QED BY <2>1, <2>2
  <1> QED BY <1>1, <1>2 DEF FinIsLast, FinMeansAllReceived

\* Old packets still fit; each step gives the new ones.
LEMMA FlightKept ==
  ASSUME TypeOK, FlightFits, Progress,
         \A j \in Subflow : RxSeqNumber'[j] \in Nat /\ RxSeqNumber'[j] >= RxSeqNumber[j],
         \A j \in Subflow : \A p \in Packets(toServer'[j]) :
           \/ p \in Packets(toServer[j])
           \/ p.type = "DATA" /\ p.seq <= Len(sent'[j])
           \/ p.type = "FIN" /\ p.seq = Len(sent'[j]) + 1 /\ Over(j)'
           \/ p.type \in {"ACK", "RST"},
         \A j \in Subflow : \A p \in Packets(toClient'[j]) :
           \/ p \in Packets(toClient[j])
           \/ p.type = "ACK" /\ p.ack <= RxSeqNumber'[j]
           \/ p.type = "FINACK" /\ p.ack = Len(sent'[j]) + 2 /\ Over(j)'
           \/ p.type \in {"SYNACK", "RST"}
  PROVE  FlightFits'
  <1>1. ASSUME NEW j \in Subflow, NEW p \in Packets(toServer'[j])
        PROVE  /\ p.type = "DATA" => p.seq <= Len(sent'[j])
               /\ p.type = "FIN" => p.seq = Len(sent'[j]) + 1 /\ Over(j)'
    <2>1. CASE p \in Packets(toServer[j])
      <3>1. /\ p.type = "DATA" => p.seq <= Len(sent[j])
            /\ p.type = "FIN" => p.seq = Len(sent[j]) + 1 /\ Over(j)
        BY <2>1 DEF FlightFits
      <3>2. p.seq \in Nat /\ Len(sent[j]) \in Nat
        BY <2>1, Types DEF Packet
      <3> QED BY <3>1, <3>2 DEF Progress
    <2> QED BY <2>1
  <1>2. ASSUME NEW j \in Subflow, NEW p \in Packets(toClient'[j])
        PROVE  /\ p.type = "ACK" => p.ack <= RxSeqNumber'[j]
               /\ p.type = "FINACK" => p.ack = Len(sent'[j]) + 2 /\ Over(j)'
    <2>1. CASE p \in Packets(toClient[j])
      <3>1. /\ p.type = "ACK" => p.ack <= RxSeqNumber[j]
            /\ p.type = "FINACK" => p.ack = Len(sent[j]) + 2 /\ Over(j)
        BY <2>1 DEF FlightFits
      <3>2. p.ack \in Nat /\ RxSeqNumber[j] \in Nat
        BY <2>1, Types DEF Answer
      <3> QED BY <3>1, <3>2 DEF Progress
    <2> QED BY <2>1
  <1> QED BY <1>1, <1>2 DEF FlightFits

\* What concerns the client only.
ClientInv == Counted /\ TimerCoversClose /\ ClosesInOrder /\ CloseNeverResets

LEMMA ClientKept ==
  ASSUME ClientInv, UNCHANGED clientVars
  PROVE  ClientInv' /\ (TypeOK => Progress)
  <1> USE DEF clientVars, sendVars, closeVars
  <1>1. ClientInv'
    BY DEF ClientInv, Counted, TimerCoversClose, ClosesInOrder, CloseNeverResets, Over, maxSeqNb
  <1>2. ASSUME TypeOK PROVE Progress
    <2>1. ASSUME NEW j \in Subflow PROVE Len(sent[j]) \in Nat
      BY <1>2, Types
    <2> QED BY <2>1 DEF Progress, Over
  <1> QED BY <1>1, <1>2

\* The client's invariant, subflow by subflow.
LEMMA ClientFacts ==
  ASSUME ClientInv, NEW i \in Subflow
  PROVE  /\ TxSeqNumber[i] >= 1 /\ highestAck[i] <= Len(sent[i]) + 1
         /\ state[i] = "SYN_SENT" => sent[i] = <<>>
         /\ ~Over(i) => TxSeqNumber[i] <= Len(sent[i]) + 1
         /\ state[i] # "CLOSING"
         /\ i \in scheduled \cup {currentSublow} => state[i] # "SYN_SENT"
         /\ state[i] \in {"FIN_WAIT_1", "TIME_WAIT"} \/ (state[i] = "CLOSED" /\ ~reset)
              => sendingBuffer = 0
         /\ state[i] = "TIME_WAIT" \/ (state[i] = "CLOSED" /\ ~reset)
              => highestAck[i] >= Len(sent[i])
         /\ retxEvent[i] = "fin" => Over(i)
         /\ state[i] = "FIN_WAIT_1" => retxEvent[i] # "none"
         /\ state[i] = "ESTABLISHED" /\ highestAck[i] < Len(sent[i]) => retxEvent[i] # "none"
  BY DEF ClientInv, Counted, TimerCoversClose, ClosesInOrder, CloseNeverResets, maxSeqNb, Over

\* The same, to prove it of the next state.
LEMMA ClientInvNext ==
  ASSUME nextTxSequence' + sendingBuffer' <= MaxData + 1,
         scheduled' # {} => sendingBuffer' = 0,
         scheduled' \cup {currentSublow'} \subseteq Subflow,
         \A i \in Subflow :
         /\ TxSeqNumber'[i] >= 1 /\ highestAck'[i] <= Len(sent'[i]) + 1
         /\ state'[i] = "SYN_SENT" => sent'[i] = <<>>
         /\ ~Over(i)' => TxSeqNumber'[i] <= Len(sent'[i]) + 1
         /\ state'[i] # "CLOSING"
         /\ i \in scheduled' \cup {currentSublow'} => state'[i] # "SYN_SENT"
         /\ state'[i] \in {"FIN_WAIT_1", "TIME_WAIT"} \/ (state'[i] = "CLOSED" /\ ~reset')
              => sendingBuffer' = 0
         /\ state'[i] = "TIME_WAIT" \/ (state'[i] = "CLOSED" /\ ~reset')
              => highestAck'[i] >= Len(sent'[i])
         /\ retxEvent'[i] = "fin" => Over(i)'
         /\ state'[i] = "FIN_WAIT_1" => retxEvent'[i] # "none"
         /\ state'[i] = "ESTABLISHED" /\ highestAck'[i] < Len(sent'[i]) => retxEvent'[i] # "none"
  PROVE  ClientInv'
  <1>1. Counted' /\ CloseNeverResets'
    BY DEF Counted, CloseNeverResets
  <1>2. TimerCoversClose'
    BY DEF TimerCoversClose, maxSeqNb
  <1>3. ClosesInOrder'
    BY DEF ClosesInOrder
  <1> QED BY <1>1, <1>2, <1>3 DEF ClientInv

LEMMA InvParts ==
  CloseInv <=> /\ TypeOK /\ ClientInv /\ FinIsLast /\ FinMeansAllReceived /\ FlightFits
  BY DEF CloseInv, ClientInv

---------------------------------------------------------------------------
(* Sending, and the FINs.                                                  *)

LEMMA ArmTimer ==
  ASSUME NEW rt \in [Subflow -> Timer], NEW i \in Subflow, NEW kind \in {"data", "fin"}
  PROVE  /\ Arm(rt, i, kind) \in [Subflow -> Timer]
         /\ \A j \in Subflow :
              Arm(rt, i, kind)[j] = IF j = i /\ rt[j] = "none" THEN kind ELSE rt[j]
  BY DEF Arm, Timer

\* What SendFin leaves.
FinEffect(f, ch, rt) ==
  /\ toServer' \in [Subflow -> Seq(Packet)]
  /\ \A j \in Subflow : \A p \in Packets(toServer'[j]) :
       p \in Packets(ch[j]) \/ (j = f /\ p.type = "FIN" /\ p.seq = Len(sent'[j]) + 1)
  /\ retxEvent' \in [Subflow -> Timer]
  /\ \A j \in Subflow : retxEvent'[j] = IF j = f /\ rt[j] = "none" THEN "fin" ELSE rt[j]
  /\ state' \in [Subflow -> States]
  /\ \A j \in Subflow : state'[j] = IF j = f THEN "FIN_WAIT_1" ELSE state[j]

LEMMA SendFinEffect ==
  ASSUME TypeOK, NEW f \in Subflow, NEW ch \in [Subflow -> Seq(Packet)],
         NEW rt \in [Subflow -> Timer], Len(sent'[f]) \in Nat, SendFin(f, ch, rt)
  PROVE  FinEffect(f, ch, rt)
  <1>1. Fin(FinNumber(f)) \in Packet /\ Fin(FinNumber(f)).type = "FIN"
        /\ Fin(FinNumber(f)).seq = Len(sent'[f]) + 1
    BY DEF Fin, FinNumber, Packet
  <1>2. toServer' = Put(ch, f, Fin(FinNumber(f))) /\ retxEvent' = Arm(rt, f, "fin")
        /\ state' = [state EXCEPT ![f] = "FIN_WAIT_1"]
    BY DEF SendFin
  <1>3. /\ Put(ch, f, Fin(FinNumber(f))) \in [Subflow -> Seq(Packet)]
        /\ \A j \in Subflow : Packets(Put(ch, f, Fin(FinNumber(f)))[j]) \subseteq
                               Packets(ch[j]) \cup (IF j = f THEN {Fin(FinNumber(f))} ELSE {})
    BY <1>1, PutToServer
  <1>4. /\ toServer' \in [Subflow -> Seq(Packet)]
        /\ \A j \in Subflow : Packets(toServer'[j]) \subseteq
                               Packets(ch[j]) \cup (IF j = f THEN {Fin(FinNumber(f))} ELSE {})
    BY <1>2, <1>3
  <1>5. ASSUME NEW j \in Subflow, NEW p \in Packets(toServer'[j])
        PROVE  p \in Packets(ch[j]) \/ (j = f /\ p.type = "FIN" /\ p.seq = Len(sent'[j]) + 1)
    BY <1>1, <1>4
  <1>6. /\ retxEvent' \in [Subflow -> Timer]
        /\ \A j \in Subflow : retxEvent'[j] = IF j = f /\ rt[j] = "none" THEN "fin" ELSE rt[j]
    BY <1>2, ArmTimer
  <1>7. /\ state' \in [Subflow -> States]
        /\ \A j \in Subflow : state'[j] = IF j = f THEN "FIN_WAIT_1" ELSE state[j]
    BY <1>2 DEF TypeOK, States
  <1> QED BY <1>4, <1>5, <1>6, <1>7 DEF FinEffect

\* DoClose with an empty buffer, for a subflow whose join is finished.
LEMMA DoCloseKeeps ==
  ASSUME CloseInv, NEW i \in Subflow, state[i] # "SYN_SENT", sendingBuffer = 0, DoClose(i),
         UNCHANGED <<sendVars, closeOnEmpty, currentSublow, reset, loop, serverVars,
                     toClient, lost>>,
         scheduled' \subseteq scheduled, closes' \in 0 .. MaxClose
  PROVE  CloseInv'
  <1>1. TypeOK /\ ClientInv /\ FinIsLast /\ FinMeansAllReceived /\ FlightFits
    BY InvParts
  <1>2. ASSUME NEW j \in Subflow
        PROVE  Len(sent'[j]) = Len(sent[j]) /\ Len(sent'[j]) \in Nat
    BY <1>1, Types DEF sendVars
  <1>3. CASE state[i] = "ESTABLISHED"
    <2>1. SendFin(i, toServer, retxEvent)
      BY <1>3 DEF DoClose
    <2>2. toServer \in [Subflow -> Seq(Packet)] /\ retxEvent \in [Subflow -> Timer]
      BY <1>1 DEF TypeOK
    <2>3. FinEffect(i, toServer, retxEvent)
      BY <1>1, <1>2, <2>1, <2>2, SendFinEffect
    <2>4. ASSUME NEW j \in Subflow
          PROVE  /\ state'[j] = IF j = i THEN "FIN_WAIT_1" ELSE state[j]
                 /\ retxEvent'[j] = IF j = i /\ retxEvent[j] = "none" THEN "fin" ELSE retxEvent[j]
                 /\ Over(j) => Over(j)'
                 /\ j = i => Over(j)' /\ ~Over(j)
      BY <1>3, <2>3 DEF FinEffect, Over
    <2>5. TypeOK'
      BY <1>1, <2>3 DEF FinEffect, TypeOK, States, sendVars, serverVars, dataVars
    <2>6. Progress
      BY <1>2, <2>4 DEF Progress, sendVars
    <2>7. FinIsLast' /\ FinMeansAllReceived'
      BY <1>1, <2>6, ServerKept DEF serverVars, dataVars
    <2>8. FlightFits'
      <3>1. \A j \in Subflow : RxSeqNumber'[j] \in Nat /\ RxSeqNumber'[j] >= RxSeqNumber[j]
        BY <1>1, Types DEF serverVars, dataVars
      <3>2. \A j \in Subflow : \A p \in Packets(toServer'[j]) :
              \/ p \in Packets(toServer[j])
              \/ p.type = "FIN" /\ p.seq = Len(sent'[j]) + 1 /\ Over(j)'
        BY <2>3, <2>4 DEF FinEffect
      <3> QED BY <1>1, <2>6, <3>1, <3>2, FlightKept
    <2>9. ClientInv'
      <3>1. ASSUME NEW j \in Subflow
            PROVE  /\ TxSeqNumber'[j] >= 1 /\ highestAck'[j] <= Len(sent'[j]) + 1
                   /\ state'[j] = "SYN_SENT" => sent'[j] = <<>>
                   /\ ~Over(j)' => TxSeqNumber'[j] <= Len(sent'[j]) + 1
                   /\ state'[j] # "CLOSING"
                   /\ j \in scheduled' \cup {currentSublow'} => state'[j] # "SYN_SENT"
                   /\ state'[j] \in {"FIN_WAIT_1", "TIME_WAIT"} \/ (state'[j] = "CLOSED" /\ ~reset')
                        => sendingBuffer' = 0
                   /\ state'[j] = "TIME_WAIT" \/ (state'[j] = "CLOSED" /\ ~reset')
                        => highestAck'[j] >= Len(sent'[j])
                   /\ retxEvent'[j] = "fin" => Over(j)'
                   /\ state'[j] = "FIN_WAIT_1" => retxEvent'[j] # "none"
                   /\ state'[j] = "ESTABLISHED" /\ highestAck'[j] < Len(sent'[j])
                        => retxEvent'[j] # "none"
        BY <1>1, <2>4, ClientFacts DEF sendVars
      <3>2. nextTxSequence' + sendingBuffer' <= MaxData + 1
        BY <1>1 DEF ClientInv, Counted, sendVars
      <3>3. scheduled' \cup {currentSublow'} \subseteq Subflow
        BY <1>1 DEF TypeOK
      <3>4. scheduled' # {} => sendingBuffer' = 0
        BY DEF sendVars
      <3> QED BY <3>1, <3>2, <3>3, <3>4, ClientInvNext
    <2> QED BY <2>5, <2>7, <2>8, <2>9 DEF CloseInv, ClientInv
  <1>4. CASE state[i] # "ESTABLISHED"
    <2>1. UNCHANGED <<toServer, retxEvent, state>>
      BY <1>4 DEF DoClose
    <2>2. TypeOK'
      BY <1>1, <2>1 DEF TypeOK, sendVars, serverVars, dataVars
    <2>3. Progress
      BY <1>2, <2>1 DEF Progress, Over, sendVars
    <2>4. FinIsLast' /\ FinMeansAllReceived'
      BY <1>1, <2>3, ServerKept DEF serverVars, dataVars
    <2>5. FlightFits'
      <3>1. \A j \in Subflow : RxSeqNumber'[j] \in Nat /\ RxSeqNumber'[j] >= RxSeqNumber[j]
        BY <1>1, Types DEF serverVars, dataVars
      <3> QED BY <1>1, <2>1, <2>3, <3>1, FlightKept
    <2>6. Counted' /\ TimerCoversClose' /\ ClosesInOrder' /\ CloseNeverResets'
      BY <1>1, <2>1 DEF ClientInv, Counted, TimerCoversClose, ClosesInOrder, CloseNeverResets,
           Over, maxSeqNb, sendVars
    <2> QED BY <2>2, <2>4, <2>5, <2>6 DEF CloseInv
  <1> QED BY <1>3, <1>4

\* A step that changes none of what the invariant relates.
LEMMA CloseKeeps ==
  ASSUME CloseInv, Close
  PROVE  CloseInv'
  <1>1. closes' \in 0 .. MaxClose
    BY Constants DEF Close, CloseInv, TypeOK
  <1>2. CASE sendingBuffer > 0
    <2>1. closeOnEmpty' = TRUE /\ UNCHANGED <<state, toServer, retxEvent>>
      BY <1>2 DEF Close
    <2>2. UNCHANGED <<sendVars, currentSublow, scheduled, reset, loop, serverVars,
                      toClient, lost>>
      BY DEF Close
    <2> QED BY <1>1, <2>1, <2>2 DEF CloseInv, TypeOK, Counted, TimerCoversClose, ClosesInOrder,
          CloseNeverResets, FinIsLast, FinMeansAllReceived, FlightFits, Over, maxSeqNb,
          sendVars, serverVars, dataVars
  <1>3. CASE ~(sendingBuffer > 0)
    <2>1. sendingBuffer = 0 /\ currentSublow \in Subflow /\ state[currentSublow] # "SYN_SENT"
      BY <1>3, Constants DEF CloseInv, TypeOK, CloseNeverResets
    <2>2. DoClose(currentSublow) /\ UNCHANGED closeOnEmpty
      BY <1>3 DEF Close
    <2>3. UNCHANGED <<sendVars, closeOnEmpty, currentSublow, reset, loop, serverVars,
                     toClient, lost>>
      BY <2>2 DEF Close
    <2>4. scheduled' \subseteq scheduled
      BY DEF Close
    <2> QED BY <1>1, <2>1, <2>2, <2>3, <2>4, DoCloseKeeps
  <1> QED BY <1>2, <1>3

LEMMA ScheduledDoCloseKeeps ==
  ASSUME CloseInv, NEW i \in Subflow, ScheduledDoClose(i)
  PROVE  CloseInv'
  <1>1. sendingBuffer = 0 /\ state[i] # "SYN_SENT"
    BY DEF ScheduledDoClose, CloseInv, ClosesInOrder, CloseNeverResets
  <1>2. DoClose(i)
    BY DEF ScheduledDoClose
  <1>3. UNCHANGED <<sendVars, closeOnEmpty, currentSublow, reset, loop, serverVars,
                     toClient, lost>>
    BY DEF ScheduledDoClose
  <1>4. scheduled' \subseteq scheduled /\ closes' \in 0 .. MaxClose
    BY DEF ScheduledDoClose, CloseInv, TypeOK
  <1> QED BY <1>1, <1>2, <1>3, <1>4, DoCloseKeeps

LEMMA EndSendKeeps ==
  ASSUME CloseInv, EndSendPendingData
  PROVE  CloseInv'
  <1>1. loop' \in [pc : {"idle", "send", "resend"}, sf : Subflow]
    BY Constants DEF EndSendPendingData, Idle
  <1>2. UNCHANGED <<state, sendVars, retxEvent, closeVars, serverVars, netVars>>
    BY DEF EndSendPendingData
  <1> QED BY <1>1, <1>2 DEF CloseInv, TypeOK, Counted, TimerCoversClose, ClosesInOrder,
        CloseNeverResets, FinIsLast, FinMeansAllReceived, FlightFits, Over, maxSeqNb,
        sendVars, closeVars, serverVars, dataVars, netVars

\* One segment leaves on k, and perhaps the FINs with it.
SendEffect(k, p) ==
  /\ currentSublow' = k
  /\ toServer' \in [Subflow -> Seq(Packet)]
  /\ retxEvent' \in [Subflow -> Timer]
  /\ state' \in [Subflow -> States]
  /\ scheduled' \subseteq Subflow
  /\ \E f \in Subflow \cup {NSub} :
       /\ f # NSub => state[f] = "ESTABLISHED" /\ sendingBuffer' = 0
       /\ \A j \in Subflow : \A q \in Packets(toServer'[j]) :
            \/ q \in Packets(toServer[j]) \/ (q = p /\ j = k)
            \/ j = f /\ q.type = "FIN" /\ q.seq = Len(sent'[j]) + 1
       /\ \A j \in Subflow :
            /\ state'[j] = IF j = f THEN "FIN_WAIT_1" ELSE state[j]
            /\ retxEvent'[j] = "fin" => retxEvent[j] = "fin" \/ j = f
            /\ j \in {k, f} \/ retxEvent[j] # "none" => retxEvent'[j] # "none"
            /\ j \in scheduled' => j \in scheduled \/ (f # NSub /\ state[j] = "ESTABLISHED")
       /\ scheduled' # {} => scheduled # {} \/ f # NSub

LEMMA SendDataPacketEffect ==
  ASSUME TypeOK, NEW k \in Subflow, NEW p \in Packet,
         \A j \in Subflow : Len(sent'[j]) \in Nat, SendDataPacket(k, p)
  PROVE  SendEffect(k, p)
  <1> DEFINE ch == Put(toServer, k, p)
             rt == Arm(retxEvent, k, "data")
  <1>1. /\ ch \in [Subflow -> Seq(Packet)]
        /\ \A j \in Subflow : Packets(ch[j]) \subseteq Packets(toServer[j]) \cup (IF j = k THEN {p} ELSE {})
    BY PutToServer DEF TypeOK
  <1>2. /\ rt \in [Subflow -> Timer]
        /\ \A j \in Subflow : rt[j] = IF j = k /\ retxEvent[j] = "none" THEN "data" ELSE retxEvent[j]
    BY ArmTimer DEF TypeOK
  <1>3. currentSublow' = k
    BY DEF SendDataPacket
  <1>4. NSub \notin Subflow
    BY Constants DEF Subflow
  <1>5. CASE closeOnEmpty /\ sendingBuffer' = 0 /\ Established # {}
    <2>1. SendAllSubflowsFIN(ch, rt)
      BY <1>5 DEF SendDataPacket
    <2>2. PICK f \in Established : SendFin(f, ch, rt) /\ scheduled' = scheduled \cup OtherEstablished(f)
      BY <2>1 DEF SendAllSubflowsFIN
    <2>3. f \in Subflow /\ state[f] = "ESTABLISHED" /\ f # NSub
      BY <1>4 DEF Established
    <2> HIDE DEF ch, rt
    <2>4. FinEffect(f, ch, rt)
      BY <1>1, <1>2, <2>2, <2>3, SendFinEffect
    <2>5. ASSUME NEW j \in scheduled'
          PROVE  j \in Subflow /\ (j \in scheduled \/ state[j] = "ESTABLISHED")
      BY <2>2 DEF OtherEstablished, Established, TypeOK
    <2>6. ASSUME NEW j \in Subflow, NEW q \in Packets(toServer'[j])
          PROVE  \/ q \in Packets(toServer[j]) \/ (q = p /\ j = k)
                 \/ j = f /\ q.type = "FIN" /\ q.seq = Len(sent'[j]) + 1
      BY <1>1, <2>4 DEF FinEffect
    <2>7. ASSUME NEW j \in Subflow
          PROVE  /\ state'[j] = IF j = f THEN "FIN_WAIT_1" ELSE state[j]
                 /\ retxEvent'[j] = "fin" => retxEvent[j] = "fin" \/ j = f
                 /\ j \in {k, f} \/ retxEvent[j] # "none" => retxEvent'[j] # "none"
                 /\ j \in scheduled' => j \in scheduled \/ (f # NSub /\ state[j] = "ESTABLISHED")
      BY <1>2, <2>3, <2>4, <2>5 DEF FinEffect
    <2>8. toServer' \in [Subflow -> Seq(Packet)] /\ retxEvent' \in [Subflow -> Timer]
          /\ state' \in [Subflow -> States] /\ scheduled' \subseteq Subflow
      BY <2>4, <2>5 DEF FinEffect
    <2> QED BY <1>3, <1>5, <2>3, <2>6, <2>7, <2>8 DEF SendEffect
  <1>6. CASE ~(closeOnEmpty /\ sendingBuffer' = 0 /\ Established # {})
    <2>1. toServer' = ch /\ retxEvent' = rt /\ state' = state /\ scheduled' = scheduled
      BY <1>6 DEF SendDataPacket
    <2> HIDE DEF ch, rt
    <2>2. toServer' \in [Subflow -> Seq(Packet)] /\ retxEvent' \in [Subflow -> Timer]
          /\ state' \in [Subflow -> States] /\ scheduled' \subseteq Subflow
      BY <1>1, <1>2, <2>1 DEF TypeOK, States
    <2>3. ASSUME NEW j \in Subflow, NEW q \in Packets(toServer'[j])
          PROVE  q \in Packets(toServer[j]) \/ (q = p /\ j = k)
      BY <1>1, <2>1
    <2>4. ASSUME NEW j \in Subflow
          PROVE  /\ j # NSub /\ state'[j] = state[j]
                 /\ retxEvent'[j] = "fin" => retxEvent[j] = "fin"
                 /\ j = k \/ retxEvent[j] # "none" => retxEvent'[j] # "none"
                 /\ j \in scheduled' => j \in scheduled
      BY <1>2, <1>4, <2>1
    <2> DEFINE f == NSub
    <2>5. f \in Subflow \cup {NSub} /\ f = NSub
      OBVIOUS
    <2> HIDE DEF f
    <2>6. /\ f # NSub => state[f] = "ESTABLISHED" /\ sendingBuffer' = 0
          /\ \A j \in Subflow : \A q \in Packets(toServer'[j]) :
               \/ q \in Packets(toServer[j]) \/ (q = p /\ j = k)
               \/ j = f /\ q.type = "FIN" /\ q.seq = Len(sent'[j]) + 1
          /\ \A j \in Subflow :
               /\ state'[j] = IF j = f THEN "FIN_WAIT_1" ELSE state[j]
               /\ retxEvent'[j] = "fin" => retxEvent[j] = "fin" \/ j = f
               /\ j \in {k, f} \/ retxEvent[j] # "none" => retxEvent'[j] # "none"
               /\ j \in scheduled' => j \in scheduled \/ (f # NSub /\ state[j] = "ESTABLISHED")
          /\ scheduled' # {} => scheduled # {} \/ f # NSub
      BY <2>1, <2>3, <2>4, <2>5
    <2> QED BY <1>3, <2>2, <2>5, <2>6 DEF SendEffect
  <1> QED BY <1>5, <1>6

\* The segment that leaves on k is new, or sent before.
LEMMA SegmentLeaves ==
  ASSUME CloseInv, NEW k \in Subflow, SendNew(k) \/ SendOld(k),
         SendNew(k) => state[k] = "ESTABLISHED" /\ sendingBuffer > 0
  PROVE  /\ \E p \in Packet : /\ p.type = "DATA" /\ p.seq <= Len(sent'[k])
                              /\ SendDataPacket(k, p)
         /\ sent' \in [Subflow -> Seq(Nat)]
         /\ sendingBuffer' \in 0 .. MaxData /\ nextTxSequence' \in 1 .. MaxData + 1
         /\ nextTxSequence' + sendingBuffer' <= MaxData + 1
         /\ sendingBuffer' <= sendingBuffer
         /\ \/ sent' = sent
            \/ /\ state[k] = "ESTABLISHED" /\ sendingBuffer > 0
               /\ Len(sent'[k]) = Len(sent[k]) + 1
               /\ \A j \in Subflow : j # k => sent'[j] = sent[j]
         /\ TxSeqNumber[k] <= Len(sent'[k])
         /\ state[k] # "SYN_SENT"
  <1>1. TypeOK /\ ClientInv
    BY InvParts
  <1>2. /\ TxSeqNumber[k] \in Nat /\ sent[k] \in Seq(Nat) /\ Len(sent[k]) \in Nat
        /\ sendingBuffer \in 0 .. MaxData /\ nextTxSequence \in 1 .. MaxData + 1
        /\ sent \in [Subflow -> Seq(Nat)] /\ nextTxSequence + sendingBuffer <= MaxData + 1
        /\ TxSeqNumber[k] >= 1
    BY <1>1, Types DEF TypeOK, ClientInv, Counted
  <1>3. CASE SendNew(k)
    <2> DEFINE p == Data(TxSeqNumber[k], nextTxSequence)
    <2>1. state[k] = "ESTABLISHED" /\ sendingBuffer > 0
      BY <1>3
    <2>2. Len(sent[k]) = TxSeqNumber[k] - 1
      <3>1. ~Over(k)
        BY <2>1 DEF Over
      <3>2. TxSeqNumber[k] <= Len(sent[k]) + 1
        BY <1>1, <3>1, ClientFacts
      <3>3. ~(Len(sent[k]) > TxSeqNumber[k] - 1)
        BY <1>3 DEF SendNew, Recovering, maxSeqNb
      <3> QED BY <1>2, <3>2, <3>3
    <2>3. sent' = [sent EXCEPT ![k] = Append(@, nextTxSequence)]
          /\ sendingBuffer' = sendingBuffer - 1 /\ nextTxSequence' = nextTxSequence + 1
          /\ SendDataPacket(k, p)
      BY <1>3 DEF SendNew
    <2>4. /\ Append(sent[k], nextTxSequence) \in Seq(Nat)
          /\ Len(Append(sent[k], nextTxSequence)) = Len(sent[k]) + 1
      BY <1>2, Constants
    <2>5. /\ sent' \in [Subflow -> Seq(Nat)] /\ Len(sent'[k]) = Len(sent[k]) + 1
          /\ \A j \in Subflow : j # k => sent'[j] = sent[j]
      BY <1>2, <2>3, <2>4
    <2>6. p \in Packet /\ p.type = "DATA" /\ p.seq = TxSeqNumber[k]
      BY <1>2, Constants DEF Data, Packet
    <2>7. /\ sendingBuffer' \in 0 .. MaxData /\ nextTxSequence' \in 1 .. MaxData + 1
          /\ nextTxSequence' + sendingBuffer' <= MaxData + 1 /\ sendingBuffer' <= sendingBuffer
      BY <1>2, <2>1, <2>3, Constants
    <2> HIDE DEF p
    <2>8. TxSeqNumber[k] <= Len(sent'[k]) /\ p.seq <= Len(sent'[k])
      BY <1>2, <2>2, <2>5, <2>6
    <2> QED BY <2>1, <2>3, <2>5, <2>6, <2>7, <2>8
  <1>4. CASE SendOld(k)
    <2> DEFINE p == Data(TxSeqNumber[k], sent[k][TxSeqNumber[k]])
    <2>1. UNCHANGED <<sent, sendingBuffer, nextTxSequence>> /\ SendDataPacket(k, p)
      BY <1>4 DEF SendOld
    <2>2. TxSeqNumber[k] <= Len(sent[k])
      BY <1>2, <1>4 DEF SendOld, Recovering, maxSeqNb
    <2>3. sent[k][TxSeqNumber[k]] \in Nat
      BY <1>2, <2>2
    <2>4. p \in Packet /\ p.type = "DATA" /\ p.seq = TxSeqNumber[k]
      BY <1>2, <2>3 DEF Data, Packet
    <2>5. state[k] # "SYN_SENT"
      <3>1. sent[k] # <<>>
        BY <1>2, <2>2
      <3> QED BY <1>1, <3>1, ClientFacts
    <2> HIDE DEF p
    <2> QED BY <1>2, <2>1, <2>2, <2>4, <2>5
  <1> QED BY <1>3, <1>4

LEMMA SegmentKeeps ==
  ASSUME CloseInv, NEW k \in Subflow, SendNew(k) \/ SendOld(k),
         SendNew(k) => state[k] = "ESTABLISHED" /\ sendingBuffer > 0,
         UNCHANGED <<highestAck, closeOnEmpty, closes, reset, loop, serverVars,
                     toClient, lost>>
  PROVE  CloseInv'
  <1>1. TypeOK /\ ClientInv /\ FinIsLast /\ FinMeansAllReceived /\ FlightFits
    BY InvParts
  <1>2. PICK p \in Packet : /\ p.type = "DATA" /\ p.seq <= Len(sent'[k])
                            /\ SendDataPacket(k, p)
    BY SegmentLeaves
  <1>3. /\ sent' \in [Subflow -> Seq(Nat)]
        /\ sendingBuffer' \in 0 .. MaxData /\ nextTxSequence' \in 1 .. MaxData + 1
        /\ nextTxSequence' + sendingBuffer' <= MaxData + 1
        /\ sendingBuffer' <= sendingBuffer
        /\ \/ sent' = sent
           \/ /\ state[k] = "ESTABLISHED" /\ sendingBuffer > 0
              /\ Len(sent'[k]) = Len(sent[k]) + 1
              /\ \A j \in Subflow : j # k => sent'[j] = sent[j]
        /\ TxSeqNumber[k] <= Len(sent'[k])
        /\ state[k] # "SYN_SENT"
    BY SegmentLeaves
  <1>4. ASSUME NEW j \in Subflow
        PROVE  /\ Len(sent'[j]) \in Nat /\ Len(sent[j]) \in Nat
               /\ Len(sent'[j]) >= Len(sent[j])
               /\ sent'[j] = sent[j] \/ (j = k /\ state[j] = "ESTABLISHED" /\ sendingBuffer > 0)
    <2>1. sent'[j] \in Seq(Nat) /\ Len(sent[j]) \in Nat
      BY <1>1, <1>3, Types
    <2>2. Len(sent'[j]) \in Nat
      BY <2>1
    <2> QED BY <1>3, <2>1, <2>2
  <1>5. SendEffect(k, p)
    BY <1>1, <1>2, <1>4, SendDataPacketEffect
  <1>6. PICK f \in Subflow \cup {NSub} :
       /\ f # NSub => state[f] = "ESTABLISHED" /\ sendingBuffer' = 0
       /\ \A j \in Subflow : \A q \in Packets(toServer'[j]) :
            \/ q \in Packets(toServer[j]) \/ (q = p /\ j = k)
            \/ j = f /\ q.type = "FIN" /\ q.seq = Len(sent'[j]) + 1
       /\ \A j \in Subflow :
            /\ state'[j] = IF j = f THEN "FIN_WAIT_1" ELSE state[j]
            /\ retxEvent'[j] = "fin" => retxEvent[j] = "fin" \/ j = f
            /\ j \in {k, f} \/ retxEvent[j] # "none" => retxEvent'[j] # "none"
            /\ j \in scheduled' => j \in scheduled \/ (f # NSub /\ state[j] = "ESTABLISHED")
       /\ scheduled' # {} => scheduled # {} \/ f # NSub
    BY <1>5 DEF SendEffect
  <1>7. /\ TxSeqNumber' \in [Subflow -> Nat]
        /\ \A j \in Subflow : TxSeqNumber'[j] = IF j = k THEN TxSeqNumber[j] + 1 ELSE TxSeqNumber[j]
    <2>1. TxSeqNumber' = [TxSeqNumber EXCEPT ![k] = @ + 1]
      BY <1>2 DEF SendDataPacket
    <2>2. TxSeqNumber \in [Subflow -> Nat]
      BY <1>1 DEF TypeOK
    <2> QED BY <2>1, <2>2
  <1>8. currentSublow' = k /\ scheduled' \subseteq Subflow
        /\ toServer' \in [Subflow -> Seq(Packet)] /\ retxEvent' \in [Subflow -> Timer]
        /\ state' \in [Subflow -> States]
    BY <1>5 DEF SendEffect
  <1>9. ASSUME NEW j \in Subflow
        PROVE  /\ Over(j) => Over(j)' /\ sent'[j] = sent[j]
               /\ j = f => Over(j)'
               /\ j # f => (Over(j)' <=> Over(j))
    <2>1. NSub \notin Subflow
      BY Constants DEF Subflow
    <2>2. /\ f # NSub => state[f] = "ESTABLISHED"
          /\ state'[j] = IF j = f THEN "FIN_WAIT_1" ELSE state[j]
      BY <1>6
    <2>3. Over(j) => j # f /\ state[j] # "ESTABLISHED"
      BY <2>1, <2>2 DEF Over
    <2>4. (j = f => Over(j)') /\ (j # f => (Over(j)' <=> Over(j)))
      BY <2>2 DEF Over
    <2> QED BY <1>4, <2>3, <2>4
  <1>10. TypeOK'
    BY <1>1, <1>3, <1>7, <1>8 DEF TypeOK, States, serverVars, dataVars
  <1>11. Progress
    BY <1>4, <1>9 DEF Progress
  <1>12. FinIsLast' /\ FinMeansAllReceived'
    BY <1>1, <1>11, ServerKept DEF serverVars, dataVars
  <1>13. FlightFits'
    <2>1. \A j \in Subflow : RxSeqNumber'[j] \in Nat /\ RxSeqNumber'[j] >= RxSeqNumber[j]
      BY <1>1, Types DEF serverVars, dataVars
    <2>2. \A j \in Subflow : \A q \in Packets(toServer'[j]) :
              \/ q \in Packets(toServer[j])
              \/ q.type = "DATA" /\ q.seq <= Len(sent'[j])
              \/ q.type = "FIN" /\ q.seq = Len(sent'[j]) + 1 /\ Over(j)'
      BY <1>2, <1>6, <1>9
    <2> QED BY <1>1, <1>11, <2>1, <2>2, FlightKept
  <1>14. ClientInv'
    <2>1. ASSUME NEW j \in Subflow
          PROVE  /\ TxSeqNumber'[j] >= 1 /\ highestAck'[j] <= Len(sent'[j]) + 1
                 /\ state'[j] = "SYN_SENT" => sent'[j] = <<>>
                 /\ ~Over(j)' => TxSeqNumber'[j] <= Len(sent'[j]) + 1
                 /\ state'[j] # "CLOSING"
                 /\ j \in scheduled' \cup {currentSublow'} => state'[j] # "SYN_SENT"
                 /\ state'[j] \in {"FIN_WAIT_1", "TIME_WAIT"} \/ (state'[j] = "CLOSED" /\ ~reset')
                      => sendingBuffer' = 0
                 /\ state'[j] = "TIME_WAIT" \/ (state'[j] = "CLOSED" /\ ~reset')
                      => highestAck'[j] >= Len(sent'[j])
                 /\ retxEvent'[j] = "fin" => Over(j)'
                 /\ state'[j] = "FIN_WAIT_1" => retxEvent'[j] # "none"
                 /\ state'[j] = "ESTABLISHED" /\ highestAck'[j] < Len(sent'[j])
                      => retxEvent'[j] # "none"
      <3>1. /\ TxSeqNumber[j] >= 1 /\ highestAck[j] <= Len(sent[j]) + 1
            /\ state[j] = "SYN_SENT" => sent[j] = <<>>
            /\ ~Over(j) => TxSeqNumber[j] <= Len(sent[j]) + 1
            /\ state[j] # "CLOSING"
            /\ j \in scheduled \cup {currentSublow} => state[j] # "SYN_SENT"
            /\ state[j] \in {"FIN_WAIT_1", "TIME_WAIT"} \/ (state[j] = "CLOSED" /\ ~reset)
                 => sendingBuffer = 0
            /\ state[j] = "TIME_WAIT" \/ (state[j] = "CLOSED" /\ ~reset)
                 => highestAck[j] >= Len(sent[j])
            /\ retxEvent[j] = "fin" => Over(j)
            /\ state[j] = "FIN_WAIT_1" => retxEvent[j] # "none"
            /\ state[j] = "ESTABLISHED" /\ highestAck[j] < Len(sent[j]) => retxEvent[j] # "none"
        BY <1>1, ClientFacts
      <3>2. TxSeqNumber[j] \in Nat /\ highestAck[j] \in Nat /\ sendingBuffer \in Nat
        BY <1>1, Types, Constants DEF TypeOK
      <3>3. sendingBuffer = 0 => sendingBuffer' = 0
        BY <1>3
      <3>4. /\ TxSeqNumber'[j] >= 1 /\ highestAck'[j] <= Len(sent'[j]) + 1
            /\ ~Over(j)' => TxSeqNumber'[j] <= Len(sent'[j]) + 1
        <4>1. highestAck'[j] = highestAck[j] /\ (~Over(j)' => ~Over(j))
          BY <1>9
        <4>2. CASE j = k
          <5>1. /\ Len(sent'[j]) \in Nat /\ Len(sent[j]) \in Nat /\ Len(sent'[j]) >= Len(sent[j])
                /\ highestAck[j] <= Len(sent[j]) + 1 /\ TxSeqNumber[j] <= Len(sent'[j])
            BY <1>3, <1>4, <3>1, <4>2
          <5>2. TxSeqNumber'[j] = TxSeqNumber[j] + 1
            BY <1>7, <4>2
          <5> QED BY <3>2, <4>1, <5>1, <5>2
        <4>3. CASE j # k
          BY <1>3, <1>4, <1>7, <3>1, <3>2, <4>1, <4>3
        <4> QED BY <4>2, <4>3
      <3>5. /\ state'[j] = "SYN_SENT" => sent'[j] = <<>>
            /\ state'[j] # "CLOSING"
            /\ j \in scheduled' \cup {currentSublow'} => state'[j] # "SYN_SENT"
            /\ retxEvent'[j] = "fin" => Over(j)'
        BY <1>3, <1>4, <1>6, <1>8, <1>9, <3>1
      <3>6. /\ state'[j] \in {"FIN_WAIT_1", "TIME_WAIT"} \/ (state'[j] = "CLOSED" /\ ~reset')
                      => sendingBuffer' = 0
            /\ state'[j] = "FIN_WAIT_1" => retxEvent'[j] # "none"
        <4>1. CASE j = f
          <5>1. f # NSub
            BY <4>1, Constants DEF Subflow
          <5> QED BY <1>6, <4>1, <5>1
        <4>2. CASE j # f
          BY <1>6, <3>1, <3>3, <4>2
        <4> QED BY <4>1, <4>2
      <3>7. state'[j] = "TIME_WAIT" \/ (state'[j] = "CLOSED" /\ ~reset')
              => highestAck'[j] >= Len(sent'[j])
        BY <1>4, <1>6, <3>1
      <3>8. state'[j] = "ESTABLISHED" /\ highestAck'[j] < Len(sent'[j]) => retxEvent'[j] # "none"
        BY <1>4, <1>6, <3>1
      <3> QED BY <3>4, <3>5, <3>6, <3>7, <3>8
    <2>2. scheduled' # {} => sendingBuffer' = 0
      <3>1. scheduled # {} => sendingBuffer = 0
        BY <1>1 DEF ClientInv, ClosesInOrder
      <3>2. sendingBuffer = 0 => sendingBuffer' = 0
        <4>1. sendingBuffer \in Nat /\ sendingBuffer' \in Nat
          BY <1>1, <1>3, Constants DEF TypeOK
        <4> QED BY <1>3, <4>1
      <3>3. /\ f # NSub => sendingBuffer' = 0
            /\ scheduled' # {} => scheduled # {} \/ f # NSub
        BY <1>6
      <3> QED BY <3>1, <3>2, <3>3
    <2>3. scheduled' \cup {currentSublow'} \subseteq Subflow
      BY <1>8
    <2> QED BY <1>3, <2>1, <2>2, <2>3, ClientInvNext
  <1> QED BY <1>10, <1>12, <1>13, <1>14 DEF CloseInv, ClientInv

LEMMA SendPendingDataKeeps ==
  ASSUME CloseInv, SendPendingData
  PROVE  CloseInv'
  <1>1. loop.sf \in Subflow
    BY DEF CloseInv, TypeOK
  <1>2. UNCHANGED <<highestAck, closeOnEmpty, closes, reset, loop, serverVars,
                    toClient, lost>>
    BY DEF SendPendingData
  <1>3. ASSUME NEW k \in Established, SendNew(k) \/ SendOld(k), sendingBuffer > 0
        PROVE  CloseInv'
    <2>1. k \in Subflow /\ state[k] = "ESTABLISHED"
      BY DEF Established
    <2> QED BY <1>2, <1>3, <2>1, SegmentKeeps
  <1>4. ASSUME SendOld(loop.sf)
        PROVE  CloseInv'
    <2>1. ~SendNew(loop.sf)
      BY <1>4 DEF SendNew, SendOld
    <2> QED BY <1>1, <1>2, <1>4, <2>1, SegmentKeeps
  <1> QED BY <1>3, <1>4 DEF SendPendingData

---------------------------------------------------------------------------
(* The client's other steps: nothing new is sent.                          *)

Quiet ==
  /\ UNCHANGED <<sent, sendingBuffer, nextTxSequence, closeOnEmpty, scheduled, closes,
                 serverVars, lost>>
  /\ toClient' \in [Subflow -> Seq(Answer)]
  /\ \A j \in Subflow : Packets(toClient'[j]) \subseteq Packets(toClient[j])

ClientTypes ==
  /\ state' \in [Subflow -> States] /\ TxSeqNumber' \in [Subflow -> Nat]
  /\ highestAck' \in [Subflow -> Nat] /\ retxEvent' \in [Subflow -> Timer]
  /\ toServer' \in [Subflow -> Seq(Packet)] /\ currentSublow' \in Subflow
  /\ reset' \in BOOLEAN /\ loop' \in [pc : {"idle", "send", "resend"}, sf : Subflow]

\* The packets that such a step may add on subflow j.
MaySend(j, p) ==
  \/ p.type = "DATA" /\ p.seq <= Len(sent[j])
  \/ p.type = "FIN" /\ p.seq = Len(sent[j]) + 1 /\ Over(j)
  \/ p.type \in {"ACK", "RST"}

\* Subflow j in the next state, where nothing new is sent.
SubflowNext(j) ==
  /\ TxSeqNumber'[j] >= 1 /\ highestAck'[j] <= Len(sent[j]) + 1
  /\ Over(j) => state'[j] \notin {"SYN_SENT", "ESTABLISHED"}
  /\ state'[j] = "SYN_SENT" => sent[j] = <<>>
  /\ state'[j] \in {"SYN_SENT", "ESTABLISHED"} => TxSeqNumber'[j] <= Len(sent[j]) + 1
  /\ state'[j] # "CLOSING"
  /\ j \in scheduled \cup {currentSublow'} => state'[j] # "SYN_SENT"
  /\ state'[j] \in {"FIN_WAIT_1", "TIME_WAIT"} \/ (state'[j] = "CLOSED" /\ ~reset')
       => sendingBuffer = 0
  /\ state'[j] = "TIME_WAIT" \/ (state'[j] = "CLOSED" /\ ~reset')
       => highestAck'[j] >= Len(sent[j])
  /\ retxEvent'[j] = "fin" => state'[j] \notin {"SYN_SENT", "ESTABLISHED"}
  /\ state'[j] = "FIN_WAIT_1" => retxEvent'[j] # "none"
  /\ state'[j] = "ESTABLISHED" /\ highestAck'[j] < Len(sent[j]) => retxEvent'[j] # "none"

LEMMA QuietKeeps ==
  ASSUME CloseInv, Quiet, ClientTypes,
         \A j \in Subflow : SubflowNext(j),
         \A j \in Subflow : \A p \in Packets(toServer'[j]) :
           p \in Packets(toServer[j]) \/ MaySend(j, p)
  PROVE  CloseInv'
  <1>1. TypeOK /\ ClientInv /\ FinIsLast /\ FinMeansAllReceived /\ FlightFits
    BY InvParts
  <1>2. TypeOK'
    BY <1>1 DEF Quiet, ClientTypes, TypeOK, States, serverVars, dataVars
  <1>3. ASSUME NEW j \in Subflow
        PROVE  /\ sent'[j] = sent[j] /\ Len(sent'[j]) \in Nat /\ RxSeqNumber'[j] \in Nat
               /\ RxSeqNumber'[j] = RxSeqNumber[j] /\ (Over(j) => Over(j)')
               /\ Over(j)' <=> state'[j] \notin {"SYN_SENT", "ESTABLISHED"}
    <2>1. Len(sent[j]) \in Nat /\ RxSeqNumber[j] \in Nat
      BY <1>1, Types
    <2>2. Over(j) => Over(j)'
      BY DEF SubflowNext, Over
    <2> QED BY <2>1, <2>2 DEF Quiet, serverVars, dataVars, Over
  <1>4. Progress
    BY <1>3 DEF Progress
  <1>5. FinIsLast' /\ FinMeansAllReceived'
    BY <1>1, <1>4, ServerKept DEF Quiet, serverVars, dataVars
  <1>6. FlightFits'
    <2>1. \A j \in Subflow : RxSeqNumber'[j] \in Nat /\ RxSeqNumber'[j] >= RxSeqNumber[j]
      BY <1>3
    <2>2. ASSUME NEW j \in Subflow, NEW p \in Packets(toServer'[j])
          PROVE  \/ p \in Packets(toServer[j])
                 \/ p.type = "DATA" /\ p.seq <= Len(sent'[j])
                 \/ p.type = "FIN" /\ p.seq = Len(sent'[j]) + 1 /\ Over(j)'
                 \/ p.type \in {"ACK", "RST"}
      BY <1>3 DEF MaySend
    <2>3. \A j \in Subflow : \A p \in Packets(toClient'[j]) : p \in Packets(toClient[j])
      BY DEF Quiet
    <2> QED BY <1>1, <1>4, <2>1, <2>2, <2>3, FlightKept
  <1>7. ClientInv'
    <2>1. ASSUME NEW j \in Subflow
          PROVE  /\ TxSeqNumber'[j] >= 1 /\ highestAck'[j] <= Len(sent'[j]) + 1
                 /\ state'[j] = "SYN_SENT" => sent'[j] = <<>>
                 /\ ~Over(j)' => TxSeqNumber'[j] <= Len(sent'[j]) + 1
                 /\ state'[j] # "CLOSING"
                 /\ j \in scheduled' \cup {currentSublow'} => state'[j] # "SYN_SENT"
                 /\ state'[j] \in {"FIN_WAIT_1", "TIME_WAIT"} \/ (state'[j] = "CLOSED" /\ ~reset')
                      => sendingBuffer' = 0
                 /\ state'[j] = "TIME_WAIT" \/ (state'[j] = "CLOSED" /\ ~reset')
                      => highestAck'[j] >= Len(sent'[j])
                 /\ retxEvent'[j] = "fin" => Over(j)'
                 /\ state'[j] = "FIN_WAIT_1" => retxEvent'[j] # "none"
                 /\ state'[j] = "ESTABLISHED" /\ highestAck'[j] < Len(sent'[j])
                      => retxEvent'[j] # "none"
      <3>1. SubflowNext(j) /\ sendingBuffer' = sendingBuffer /\ scheduled' = scheduled
        BY DEF Quiet
      <3> QED BY <1>3, <3>1 DEF SubflowNext
    <2>2. /\ nextTxSequence' + sendingBuffer' <= MaxData + 1
          /\ scheduled' # {} => sendingBuffer' = 0
      BY <1>1 DEF Quiet, ClientInv, Counted, ClosesInOrder
    <2>3. scheduled' \cup {currentSublow'} \subseteq Subflow
      BY <1>1 DEF Quiet, ClientTypes, TypeOK
    <2> QED BY <2>1, <2>2, <2>3, ClientInvNext
  <1> QED BY <1>2, <1>5, <1>6, <1>7 DEF CloseInv, ClientInv

\* Most of these steps concern one subflow, which is used last.
OnlyOn(i) ==
  /\ \A j \in Subflow \ {i} : /\ state'[j] = state[j] /\ TxSeqNumber'[j] = TxSeqNumber[j]
                              /\ highestAck'[j] = highestAck[j] /\ retxEvent'[j] = retxEvent[j]
  /\ reset' = reset /\ currentSublow' \in {i, currentSublow}

LEMMA OthersStay ==
  ASSUME CloseInv, NEW i \in Subflow, OnlyOn(i), NEW j \in Subflow, j # i
  PROVE  SubflowNext(j)
  <1>1. /\ TxSeqNumber[j] >= 1 /\ highestAck[j] <= Len(sent[j]) + 1
        /\ state[j] = "SYN_SENT" => sent[j] = <<>>
        /\ ~Over(j) => TxSeqNumber[j] <= Len(sent[j]) + 1
        /\ state[j] # "CLOSING"
        /\ j \in scheduled \cup {currentSublow} => state[j] # "SYN_SENT"
        /\ state[j] \in {"FIN_WAIT_1", "TIME_WAIT"} \/ (state[j] = "CLOSED" /\ ~reset)
             => sendingBuffer = 0
        /\ state[j] = "TIME_WAIT" \/ (state[j] = "CLOSED" /\ ~reset)
             => highestAck[j] >= Len(sent[j])
        /\ retxEvent[j] = "fin" => Over(j)
        /\ state[j] = "FIN_WAIT_1" => retxEvent[j] # "none"
        /\ state[j] = "ESTABLISHED" /\ highestAck[j] < Len(sent[j]) => retxEvent[j] # "none"
    BY InvParts, ClientFacts
  <1>2. /\ state'[j] = state[j] /\ TxSeqNumber'[j] = TxSeqNumber[j] /\ reset' = reset
        /\ highestAck'[j] = highestAck[j] /\ retxEvent'[j] = retxEvent[j]
        /\ j = currentSublow' => j = currentSublow
    BY DEF OnlyOn
  <1> QED BY <1>1, <1>2 DEF SubflowNext, Over

LEMMA AnswerFacts ==
  ASSUME CloseInv, NEW i \in Subflow, NEW p \in Packets(toClient[i])
  PROVE  /\ p \in Answer /\ p.ack \in Nat
         /\ p.type = "ACK" => /\ p.ack <= Len(sent[i]) + 2
                              /\ ~Over(i) => p.ack <= Len(sent[i]) + 1
         /\ p.type = "FINACK" => p.ack = Len(sent[i]) + 2 /\ Over(i)
  <1>1. p \in Answer /\ p.ack \in Nat
    BY Types DEF CloseInv, Answer
  <1>2. RxSeqNumber[i] \in Nat /\ Len(sent[i]) \in Nat
    BY Types DEF CloseInv
  <1>3. /\ p.type = "ACK" => p.ack <= RxSeqNumber[i]
        /\ p.type = "FINACK" => p.ack = Len(sent[i]) + 2 /\ Over(i)
    BY DEF CloseInv, FlightFits
  <1>4. /\ RxSeqNumber[i] <= Len(sent[i]) + 2
        /\ RxSeqNumber[i] = Len(sent[i]) + 2 => Over(i)
    BY DEF CloseInv, FinIsLast
  <1> QED BY <1>1, <1>2, <1>3, <1>4

LEMMA PutNext ==
  ASSUME TypeOK, NEW i \in Subflow, NEW p \in Packet, MaySend(i, p),
         toServer' = Put(toServer, i, p)
  PROVE  /\ toServer' \in [Subflow -> Seq(Packet)]
         /\ \A j \in Subflow : \A q \in Packets(toServer'[j]) :
              q \in Packets(toServer[j]) \/ MaySend(j, q)
  <1>1. toServer \in [Subflow -> Seq(Packet)]
    BY DEF TypeOK
  <1>2. /\ Put(toServer, i, p) \in [Subflow -> Seq(Packet)]
        /\ \A j \in Subflow : Packets(Put(toServer, i, p)[j]) \subseteq
                                Packets(toServer[j]) \cup (IF j = i THEN {p} ELSE {})
    BY <1>1, PutToServer
  <1> QED BY <1>2

LEMMA NothingPut ==
  ASSUME TypeOK, UNCHANGED toServer
  PROVE  /\ toServer' \in [Subflow -> Seq(Packet)]
         /\ \A j \in Subflow : \A q \in Packets(toServer'[j]) :
              q \in Packets(toServer[j]) \/ MaySend(j, q)
  BY DEF TypeOK

\* A segment of subflow i sent again.
LEMMA SentAgain ==
  ASSUME TypeOK, NEW i \in Subflow, NEW s \in Nat \ {0}, s <= Len(sent[i])
  PROVE  Data(s, sent[i][s]) \in Packet /\ MaySend(i, Data(s, sent[i][s]))
  <1>1. sent[i] \in Seq(Nat) /\ Len(sent[i]) \in Nat
    BY Types
  <1>2. sent[i][s] \in Nat
    BY <1>1
  <1> QED BY <1>2 DEF Data, Packet, MaySend

LEMMA EnterSendType ==
  ASSUME NEW p \in Nat, NEW i \in Subflow
  PROVE  EnterSend(p, i) \in [pc : {"idle", "send", "resend"}, sf : Subflow]
  BY DEF EnterSend

LEMMA NewACKEffect ==
  ASSUME CloseInv, NEW i \in Subflow, NEW a \in Nat, NewACK(i, a),
         a <= Len(sent[i]) + 2, ~Over(i) => a <= Len(sent[i]) + 1,
         state[i] \in {"ESTABLISHED", "FIN_WAIT_1"},
         UNCHANGED <<state, reset, sendingBuffer>>, currentSublow' = i
  PROVE  /\ ClientTypes /\ OnlyOn(i) /\ SubflowNext(i)
         /\ \A j \in Subflow : \A q \in Packets(toServer'[j]) :
              q \in Packets(toServer[j]) \/ MaySend(j, q)
  <1>1. TypeOK /\ ClientInv
    BY InvParts
  <1>2. /\ TxSeqNumber[i] \in Nat /\ highestAck[i] \in Nat /\ Len(sent[i]) \in Nat
        /\ a > highestAck[i] + 1 /\ TxSeqNumber \in [Subflow -> Nat]
        /\ highestAck \in [Subflow -> Nat] /\ retxEvent \in [Subflow -> Timer]
        /\ sendingBuffer \in Nat
    <2>1. TxSeqNumber[i] \in Nat /\ highestAck[i] \in Nat /\ Len(sent[i]) \in Nat
      BY <1>1, Types
    <2>2. /\ TxSeqNumber \in [Subflow -> Nat] /\ highestAck \in [Subflow -> Nat]
          /\ retxEvent \in [Subflow -> Timer]
      BY <1>1 DEF TypeOK
    <2>3. sendingBuffer \in Nat
      BY <1>1, Constants DEF TypeOK
    <2> QED BY <2>1, <2>2, <2>3 DEF NewACK
  <1>3. highestAck' = [highestAck EXCEPT ![i] = a - 1]
        /\ retxEvent' = [retxEvent EXCEPT ![i] = IF KeepsTimer(i, a) THEN "data" ELSE "none"]
        /\ loop' = EnterSend(sendingBuffer, i)
    BY DEF NewACK
  <1>4. PICK t \in Nat : /\ TxSeqNumber' = [TxSeqNumber EXCEPT ![i] = t]
                         /\ t >= TxSeqNumber[i]
                         /\ ~Over(i) => t <= Len(sent[i]) + 1
                         /\ toServer' \in [Subflow -> Seq(Packet)]
                         /\ \A j \in Subflow : \A q \in Packets(toServer'[j]) :
                              q \in Packets(toServer[j]) \/ MaySend(j, q)
    <2>1. ~Over(i) => TxSeqNumber[i] <= Len(sent[i]) + 1
      BY <1>1, ClientFacts
    <2>2. CASE UNCHANGED toServer /\ TxSeqNumber' = [TxSeqNumber EXCEPT ![i] = Max2(@, a)]
      <3>1. TxSeqNumber' = [TxSeqNumber EXCEPT ![i] = Max2(TxSeqNumber[i], a)]
        BY <1>2, <2>2
      <3>2. Max2(TxSeqNumber[i], a) \in Nat /\ Max2(TxSeqNumber[i], a) >= TxSeqNumber[i]
            /\ (~Over(i) => Max2(TxSeqNumber[i], a) <= Len(sent[i]) + 1)
        BY <1>2, <2>1 DEF Max2
      <3> QED BY <1>1, <2>2, <3>1, <3>2, NothingPut
    <2>3. CASE /\ a <= maxSeqNb(i)
               /\ toServer' = Put(toServer, i, Data(a, sent[i][a]))
               /\ TxSeqNumber' = [TxSeqNumber EXCEPT ![i] = Max2(@, a + 1)]
      <3>1. TxSeqNumber' = [TxSeqNumber EXCEPT ![i] = Max2(TxSeqNumber[i], a + 1)]
        BY <1>2, <2>3
      <3>2. a <= Len(sent[i]) /\ a \in Nat \ {0}
        BY <1>2, <2>3 DEF maxSeqNb
      <3>3. Max2(TxSeqNumber[i], a + 1) \in Nat /\ Max2(TxSeqNumber[i], a + 1) >= TxSeqNumber[i]
            /\ (~Over(i) => Max2(TxSeqNumber[i], a + 1) <= Len(sent[i]) + 1)
        BY <1>2, <2>1, <3>2 DEF Max2
      <3>4. Data(a, sent[i][a]) \in Packet /\ MaySend(i, Data(a, sent[i][a]))
        BY <1>1, <3>2, SentAgain
      <3>5. /\ toServer' \in [Subflow -> Seq(Packet)]
            /\ \A j \in Subflow : \A q \in Packets(toServer'[j]) :
              q \in Packets(toServer[j]) \/ MaySend(j, q)
        BY <1>1, <2>3, <3>4, PutNext
      <3> QED BY <3>1, <3>3, <3>5
    <2> QED BY <2>2, <2>3 DEF NewACK
  <1>5. /\ TxSeqNumber' \in [Subflow -> Nat] /\ highestAck' \in [Subflow -> Nat]
        /\ retxEvent' \in [Subflow -> Timer]
        /\ \A j \in Subflow \ {i} : /\ TxSeqNumber'[j] = TxSeqNumber[j]
                                    /\ highestAck'[j] = highestAck[j]
                                    /\ retxEvent'[j] = retxEvent[j]
        /\ TxSeqNumber'[i] = t /\ highestAck'[i] = a - 1
        /\ retxEvent'[i] = IF KeepsTimer(i, a) THEN "data" ELSE "none"
    BY <1>2, <1>3, <1>4 DEF Timer
  <1>6. ClientTypes
    <2>1. state' \in [Subflow -> States] /\ reset' \in BOOLEAN
      BY <1>1 DEF TypeOK, States
    <2>2. loop' \in [pc : {"idle", "send", "resend"}, sf : Subflow]
      BY <1>2, <1>3, EnterSendType
    <2> QED BY <1>4, <1>5, <2>1, <2>2 DEF ClientTypes
  <1>7. OnlyOn(i)
    BY <1>5 DEF OnlyOn
  <1>8. SubflowNext(i)
    <2>2. state'[i] = state[i]
      OBVIOUS
    <2>3. TxSeqNumber'[i] >= 1 /\ highestAck'[i] <= Len(sent[i]) + 1
          /\ (~Over(i) => TxSeqNumber'[i] <= Len(sent[i]) + 1)
      <3>1. TxSeqNumber[i] >= 1
        BY <1>1, ClientFacts
      <3> QED BY <1>2, <1>4, <1>5, <3>1
    <2>4. /\ retxEvent'[i] # "fin"
          /\ state'[i] = "FIN_WAIT_1" => retxEvent'[i] # "none"
          /\ state'[i] = "ESTABLISHED" /\ highestAck'[i] < Len(sent[i]) => retxEvent'[i] # "none"
      <3>1. state[i] = "FIN_WAIT_1" => KeepsTimer(i, a)
        BY DEF KeepsTimer
      <3>2. highestAck'[i] < Len(sent[i]) => KeepsTimer(i, a)
        BY <1>2, <1>5 DEF KeepsTimer, maxSeqNb
      <3> QED BY <1>5, <2>2, <3>1, <3>2
    <2>5. state[i] = "FIN_WAIT_1" => sendingBuffer = 0
      BY <1>1, ClientFacts
    <2> QED BY <2>2, <2>3, <2>4, <2>5 DEF SubflowNext, Over
  <1> QED BY <1>4, <1>6, <1>7, <1>8

LEMMA DupAckEffect ==
  ASSUME CloseInv, NEW i \in Subflow, NEW a \in Nat, DupAck(i, a),
         state[i] \in {"ESTABLISHED", "FIN_WAIT_1"},
         UNCHANGED <<state, reset, sendingBuffer>>, currentSublow' = i
  PROVE  /\ ClientTypes /\ OnlyOn(i) /\ SubflowNext(i)
         /\ \A j \in Subflow : \A q \in Packets(toServer'[j]) :
              q \in Packets(toServer[j]) \/ MaySend(j, q)
  <1>1. TypeOK /\ ClientInv
    BY InvParts
  <1>2. /\ TxSeqNumber[i] \in Nat /\ highestAck[i] \in Nat /\ Len(sent[i]) \in Nat
        /\ TxSeqNumber \in [Subflow -> Nat]
        /\ highestAck \in [Subflow -> Nat] /\ retxEvent \in [Subflow -> Timer]
        /\ sendingBuffer \in Nat
    <2>1. TxSeqNumber[i] \in Nat /\ highestAck[i] \in Nat /\ Len(sent[i]) \in Nat
      BY <1>1, Types
    <2>2. /\ TxSeqNumber \in [Subflow -> Nat] /\ highestAck \in [Subflow -> Nat]
          /\ retxEvent \in [Subflow -> Timer]
      BY <1>1 DEF TypeOK
    <2>3. sendingBuffer \in Nat
      BY <1>1, Constants DEF TypeOK
    <2> QED BY <2>1, <2>2, <2>3
  <1>3. /\ a = highestAck[i] + 1 /\ a <= Len(sent[i]) /\ highestAck' = highestAck
        /\ a \in Nat \ {0}
    BY <1>2 DEF DupAck, maxSeqNb
  <1>4. /\ TxSeqNumber[i] >= 1 /\ highestAck[i] <= Len(sent[i]) + 1
        /\ ~Over(i) => TxSeqNumber[i] <= Len(sent[i]) + 1
        /\ state[i] = "FIN_WAIT_1" => sendingBuffer = 0
        /\ retxEvent[i] = "fin" => Over(i)
        /\ state[i] = "FIN_WAIT_1" => retxEvent[i] # "none"
        /\ state[i] = "ESTABLISHED" /\ highestAck[i] < Len(sent[i]) => retxEvent[i] # "none"
    BY <1>1, ClientFacts
  <1>5. state' \in [Subflow -> States] /\ reset' \in BOOLEAN
    BY <1>1 DEF TypeOK, States
  <1>6. CASE UNCHANGED <<toServer, TxSeqNumber, retxEvent>>
              /\ loop' \in [pc : {"idle", "send", "resend"}, sf : Subflow]
    <2>1. ClientTypes
      BY <1>1, <1>2, <1>3, <1>5, <1>6 DEF ClientTypes, TypeOK
    <2>2. OnlyOn(i)
      BY <1>3, <1>6 DEF OnlyOn
    <2>3. SubflowNext(i)
      BY <1>3, <1>4, <1>6 DEF SubflowNext, Over
    <2> QED BY <1>1, <1>6, <2>1, <2>2, <2>3, NothingPut
  <1>7. CASE /\ toServer' = Put(toServer, i, Data(a, sent[i][a]))
             /\ TxSeqNumber' = [TxSeqNumber EXCEPT ![i] = Max2(@, a + 1)]
             /\ retxEvent' = Arm(retxEvent, i, "data")
             /\ UNCHANGED loop
    <2>1. Data(a, sent[i][a]) \in Packet /\ MaySend(i, Data(a, sent[i][a]))
      BY <1>1, <1>3, SentAgain
    <2>2. /\ toServer' \in [Subflow -> Seq(Packet)]
          /\ \A j \in Subflow : \A q \in Packets(toServer'[j]) :
              q \in Packets(toServer[j]) \/ MaySend(j, q)
      BY <1>1, <1>7, <2>1, PutNext
    <2>3. /\ Max2(TxSeqNumber[i], a + 1) \in Nat /\ Max2(TxSeqNumber[i], a + 1) >= 1
          /\ ~Over(i) => Max2(TxSeqNumber[i], a + 1) <= Len(sent[i]) + 1
      BY <1>2, <1>3, <1>4 DEF Max2
    <2>4. /\ TxSeqNumber' \in [Subflow -> Nat] /\ TxSeqNumber'[i] = Max2(TxSeqNumber[i], a + 1)
          /\ \A j \in Subflow \ {i} : TxSeqNumber'[j] = TxSeqNumber[j]
      BY <1>2, <1>7, <2>3
    <2>5. /\ retxEvent' \in [Subflow -> Timer]
          /\ \A j \in Subflow :
               retxEvent'[j] = IF j = i /\ retxEvent[j] = "none" THEN "data" ELSE retxEvent[j]
      BY <1>2, <1>7, ArmTimer
    <2>6. loop' \in [pc : {"idle", "send", "resend"}, sf : Subflow]
      BY <1>1, <1>7 DEF TypeOK
    <2>7. ClientTypes
      BY <1>2, <1>3, <1>5, <2>2, <2>4, <2>5, <2>6 DEF ClientTypes
    <2>8. OnlyOn(i)
      BY <1>3, <2>4, <2>5 DEF OnlyOn
    <2>9. SubflowNext(i)
      BY <1>3, <1>4, <2>3, <2>4, <2>5 DEF SubflowNext, Over
    <2> QED BY <2>2, <2>7, <2>8, <2>9
  <1>8. EnterSend(sendingBuffer, i) \in [pc : {"idle", "send", "resend"}, sf : Subflow]
        /\ loop \in [pc : {"idle", "send", "resend"}, sf : Subflow]
    BY <1>1, <1>2, EnterSendType DEF TypeOK
  <1> QED BY <1>6, <1>7, <1>8 DEF DupAck

LEMMA OldAckEffect ==
  ASSUME CloseInv, NEW i \in Subflow, NEW a \in Nat, OldAck(i, a),
         state[i] \in {"ESTABLISHED", "FIN_WAIT_1"},
         UNCHANGED <<state, reset, sendingBuffer>>, currentSublow' = i
  PROVE  /\ ClientTypes /\ OnlyOn(i) /\ SubflowNext(i)
         /\ \A j \in Subflow : \A q \in Packets(toServer'[j]) :
              q \in Packets(toServer[j]) \/ MaySend(j, q)
  <1>1. TypeOK /\ ClientInv
    BY InvParts
  <1>2. UNCHANGED <<toServer, TxSeqNumber, retxEvent, loop, highestAck>>
    BY DEF OldAck
  <1>3. ClientTypes /\ OnlyOn(i)
    BY <1>1, <1>2 DEF ClientTypes, OnlyOn, TypeOK, States
  <1>4. SubflowNext(i)
    <2>1. /\ TxSeqNumber[i] >= 1 /\ highestAck[i] <= Len(sent[i]) + 1
          /\ ~Over(i) => TxSeqNumber[i] <= Len(sent[i]) + 1
          /\ state[i] = "FIN_WAIT_1" => sendingBuffer = 0
          /\ retxEvent[i] = "fin" => Over(i)
          /\ state[i] = "FIN_WAIT_1" => retxEvent[i] # "none"
          /\ state[i] = "ESTABLISHED" /\ highestAck[i] < Len(sent[i]) => retxEvent[i] # "none"
      BY <1>1, ClientFacts
    <2> QED BY <1>2, <2>1 DEF SubflowNext, Over
  <1> QED BY <1>1, <1>2, <1>3, <1>4, NothingPut

\* The FIN+ACK acknowledges all that was sent and the FIN.
LEMMA FinAckEffect ==
  ASSUME CloseInv, NEW i \in Subflow, NEW p \in Packets(toClient[i]), ReceivedFinAck(i, p)
  PROVE  /\ ClientTypes /\ OnlyOn(i) /\ SubflowNext(i)
         /\ \A j \in Subflow : \A q \in Packets(toServer'[j]) :
              q \in Packets(toServer[j]) \/ MaySend(j, q)
  <1>1. TypeOK /\ ClientInv
    BY InvParts
  <1> DEFINE h == Max2(highestAck[i], p.ack - 1)
             t == Max2(TxSeqNumber[i], p.ack)
             done == sendingBuffer = 0 /\ h >= maxSeqNb(i) /\ p.ack = h + 1
  <1>2. /\ p.type = "FINACK" /\ state[i] = "FIN_WAIT_1"
        /\ highestAck' = [highestAck EXCEPT ![i] = h]
        /\ TxSeqNumber' = [TxSeqNumber EXCEPT ![i] = t]
        /\ state' = [state EXCEPT ![i] = IF done THEN "TIME_WAIT" ELSE "CLOSING"]
        /\ retxEvent' = [retxEvent EXCEPT ![i] = IF done THEN "none" ELSE "data"]
        /\ toServer' = Put(toServer, i, LastAck(t))
        /\ currentSublow' = i
        /\ UNCHANGED <<reset, loop>>
    BY DEF ReceivedFinAck
  <1>3. /\ TxSeqNumber[i] \in Nat /\ highestAck[i] \in Nat /\ Len(sent[i]) \in Nat
        /\ TxSeqNumber \in [Subflow -> Nat] /\ highestAck \in [Subflow -> Nat]
        /\ retxEvent \in [Subflow -> Timer] /\ state \in [Subflow -> States]
    BY <1>1, Types DEF TypeOK, States
  <1>4. p.ack = Len(sent[i]) + 2 /\ p.ack \in Nat
    BY <1>2, AnswerFacts
  <1>5. highestAck[i] <= Len(sent[i]) + 1 /\ TxSeqNumber[i] >= 1 /\ sendingBuffer = 0
    BY <1>1, <1>2, ClientFacts
  <1>6. h = Len(sent[i]) + 1 /\ t \in Nat /\ t >= 1
    BY <1>3, <1>4, <1>5 DEF Max2
  <1>7. done
    BY <1>3, <1>4, <1>5, <1>6 DEF maxSeqNb
  <1> HIDE DEF h, t, done
  <1>8. /\ highestAck' \in [Subflow -> Nat] /\ TxSeqNumber' \in [Subflow -> Nat]
        /\ state' \in [Subflow -> States] /\ retxEvent' \in [Subflow -> Timer]
        /\ \A j \in Subflow \ {i} : /\ state'[j] = state[j] /\ TxSeqNumber'[j] = TxSeqNumber[j]
                                    /\ highestAck'[j] = highestAck[j]
                                    /\ retxEvent'[j] = retxEvent[j]
        /\ state'[i] = "TIME_WAIT" /\ TxSeqNumber'[i] = t /\ highestAck'[i] = Len(sent[i]) + 1
        /\ retxEvent'[i] = "none"
    BY <1>2, <1>3, <1>6, <1>7 DEF Timer, States
  <1>9. LastAck(t) \in Packet /\ MaySend(i, LastAck(t))
    BY <1>6 DEF LastAck, Packet, MaySend
  <1>10. /\ toServer' \in [Subflow -> Seq(Packet)]
         /\ \A j \in Subflow : \A q \in Packets(toServer'[j]) :
              q \in Packets(toServer[j]) \/ MaySend(j, q)
    BY <1>1, <1>2, <1>9, PutNext
  <1>11. ClientTypes
    <2>1. reset' \in BOOLEAN /\ loop' \in [pc : {"idle", "send", "resend"}, sf : Subflow]
      BY <1>1, <1>2 DEF TypeOK
    <2> QED BY <1>2, <1>8, <1>10, <2>1 DEF ClientTypes
  <1>12. OnlyOn(i)
    BY <1>2, <1>8 DEF OnlyOn
  <1>13. SubflowNext(i)
    BY <1>3, <1>5, <1>6, <1>8 DEF SubflowNext
  <1> QED BY <1>10, <1>11, <1>12, <1>13

LEMMA LateEffect ==
  ASSUME CloseInv, NEW i \in Subflow, NEW p \in Packets(toClient[i]), ReceivedLate(i, p)
  PROVE  /\ ClientTypes /\ OnlyOn(i) /\ SubflowNext(i)
         /\ \A j \in Subflow : \A q \in Packets(toServer'[j]) :
              q \in Packets(toServer[j]) \/ MaySend(j, q)
  <1>1. TypeOK /\ ClientInv
    BY InvParts
  <1>2. /\ state[i] \in {"CLOSING", "TIME_WAIT", "CLOSED"} /\ currentSublow' = i
        /\ UNCHANGED <<state, retxEvent, reset, TxSeqNumber, highestAck, loop>>
        /\ toServer' = toServer \/ toServer' = Put(toServer, i, Rst)
    BY DEF ReceivedLate
  <1>3. Rst \in Packet /\ MaySend(i, Rst)
    BY DEF Rst, Packet, MaySend
  <1>4. /\ toServer' \in [Subflow -> Seq(Packet)]
        /\ \A j \in Subflow : \A q \in Packets(toServer'[j]) :
              q \in Packets(toServer[j]) \/ MaySend(j, q)
    BY <1>1, <1>2, <1>3, PutNext, NothingPut
  <1>5. ClientTypes /\ OnlyOn(i)
    BY <1>1, <1>2, <1>4 DEF ClientTypes, OnlyOn, TypeOK, States
  <1>6. SubflowNext(i)
    <2>1. /\ TxSeqNumber[i] >= 1 /\ highestAck[i] <= Len(sent[i]) + 1 /\ state[i] # "CLOSING"
          /\ state[i] = "TIME_WAIT" \/ (state[i] = "CLOSED" /\ ~reset)
               => sendingBuffer = 0 /\ highestAck[i] >= Len(sent[i])
      BY <1>1, ClientFacts
    <2> QED BY <1>2, <2>1 DEF SubflowNext
  <1> QED BY <1>4, <1>5, <1>6

\* The handshake of a join ends: the subflow has sent nothing.
LEMMA SynSentEffect ==
  ASSUME CloseInv, NEW i \in Subflow, NEW p \in Packets(toClient[i]), ProcessSynSent(i, p)
  PROVE  /\ ClientTypes /\ OnlyOn(i) /\ SubflowNext(i)
         /\ \A j \in Subflow : \A q \in Packets(toServer'[j]) :
              q \in Packets(toServer[j]) \/ MaySend(j, q)
  <1>1. TypeOK /\ ClientInv
    BY InvParts
  <1>2. /\ state[i] = "SYN_SENT" /\ state' = [state EXCEPT ![i] = "ESTABLISHED"]
        /\ toServer' = Put(toServer, i, LastAck(TxSeqNumber[i])) /\ currentSublow' = i
        /\ loop' = EnterSend(sendingBuffer, i)
        /\ UNCHANGED <<TxSeqNumber, highestAck, retxEvent, reset>>
    BY DEF ProcessSynSent, AnswerSynAck
  <1>3. /\ TxSeqNumber[i] \in Nat /\ highestAck[i] \in Nat
        /\ TxSeqNumber[i] >= 1 /\ highestAck[i] <= Len(sent[i]) + 1
        /\ TxSeqNumber[i] <= Len(sent[i]) + 1 /\ retxEvent[i] # "fin"
        /\ sent[i] = <<>>
    BY <1>1, <1>2, Types, ClientFacts DEF Over
  <1>4. LastAck(TxSeqNumber[i]) \in Packet /\ MaySend(i, LastAck(TxSeqNumber[i]))
    BY <1>3 DEF LastAck, Packet, MaySend
  <1>5. /\ toServer' \in [Subflow -> Seq(Packet)]
        /\ \A j \in Subflow : \A q \in Packets(toServer'[j]) :
              q \in Packets(toServer[j]) \/ MaySend(j, q)
    BY <1>1, <1>2, <1>4, PutNext
  <1>6. state' \in [Subflow -> States] /\ state'[i] = "ESTABLISHED"
        /\ \A j \in Subflow \ {i} : state'[j] = state[j]
    BY <1>1, <1>2 DEF TypeOK, States
  <1>7. ClientTypes
    <2>1. loop' \in [pc : {"idle", "send", "resend"}, sf : Subflow]
      BY <1>1, <1>2, Constants, EnterSendType DEF TypeOK
    <2> QED BY <1>1, <1>2, <1>5, <1>6, <2>1 DEF ClientTypes, TypeOK
  <1>8. OnlyOn(i)
    BY <1>2, <1>6 DEF OnlyOn
  <1>9. SubflowNext(i)
    <2>1. ~(highestAck[i] < Len(sent[i]))
      BY <1>3
    <2> QED BY <1>2, <1>3, <1>6, <2>1 DEF SubflowNext, Over
  <1> QED BY <1>5, <1>7, <1>8, <1>9

LEMMA DuplicatedEffect ==
  ASSUME CloseInv, NEW i \in Subflow, NEW p \in Packets(toClient[i]), DuplicatedSynAck(i, p)
  PROVE  /\ ClientTypes /\ OnlyOn(i) /\ SubflowNext(i)
         /\ \A j \in Subflow : \A q \in Packets(toServer'[j]) :
              q \in Packets(toServer[j]) \/ MaySend(j, q)
  <1>1. TypeOK /\ ClientInv
    BY InvParts
  <1>2. /\ state[i] \in {"ESTABLISHED", "FIN_WAIT_1"} /\ currentSublow' = i
        /\ UNCHANGED <<state, retxEvent, reset, TxSeqNumber, highestAck, toServer, loop>>
    BY DEF DuplicatedSynAck
  <1>3. ClientTypes /\ OnlyOn(i)
    BY <1>1, <1>2 DEF ClientTypes, OnlyOn, TypeOK, States
  <1>4. SubflowNext(i)
    <2>1. /\ TxSeqNumber[i] >= 1 /\ highestAck[i] <= Len(sent[i]) + 1
          /\ ~Over(i) => TxSeqNumber[i] <= Len(sent[i]) + 1
          /\ state[i] = "FIN_WAIT_1" => sendingBuffer = 0
          /\ retxEvent[i] = "fin" => Over(i)
          /\ state[i] = "FIN_WAIT_1" => retxEvent[i] # "none"
          /\ state[i] = "ESTABLISHED" /\ highestAck[i] < Len(sent[i]) => retxEvent[i] # "none"
      BY <1>1, ClientFacts
    <2> QED BY <1>2, <2>1 DEF SubflowNext, Over
  <1> QED BY <1>1, <1>2, <1>3, <1>4, NothingPut

LEMMA OneSubflowKeeps ==
  ASSUME CloseInv, NEW i \in Subflow, Quiet,
         ClientTypes, OnlyOn(i), SubflowNext(i),
         \A j \in Subflow : \A q \in Packets(toServer'[j]) :
           q \in Packets(toServer[j]) \/ MaySend(j, q)
  PROVE  CloseInv'
  <1>1. \A j \in Subflow : SubflowNext(j)
    BY OthersStay
  <1> QED BY <1>1, QuietKeeps

LEMMA ClientReceiveKeeps ==
  ASSUME CloseInv, NEW i \in Subflow, ClientReceive(i)
  PROVE  CloseInv'
  <1> DEFINE p == Head(toClient[i])
  <1>1. TypeOK /\ ClientInv
    BY InvParts
  <1>2. toClient[i] # <<>> /\ toClient' = [toClient EXCEPT ![i] = Tail(@)]
    BY DEF ClientReceive
  <1>3. /\ toClient' \in [Subflow -> Seq(Answer)]
        /\ \A j \in Subflow : Packets(toClient'[j]) \subseteq Packets(toClient[j])
        /\ p \in Packets(toClient[i])
    BY <1>1, <1>2, TailToClient
  <1>4. Quiet
    BY <1>3 DEF ClientReceive, Quiet
  <1>5. \/ ProcessSynSent(i, p) \/ DuplicatedSynAck(i, p)
        \/ ReceivedAck(i, p) \/ ReceivedFinAck(i, p)
        \/ CloseAndNotifyAllSubflows(i, p) \/ ReceivedLate(i, p)
    BY DEF ClientReceive
  <1> HIDE DEF p
  <1>6. CASE ReceivedAck(i, p)
    <2>1. /\ p.type = "ACK" /\ state[i] \in {"ESTABLISHED", "FIN_WAIT_1"}
          /\ NewACK(i, p.ack) \/ DupAck(i, p.ack) \/ OldAck(i, p.ack)
          /\ UNCHANGED <<state, reset>> /\ currentSublow' = i
      BY <1>6 DEF ReceivedAck
    <2>2. p.ack \in Nat /\ p.ack <= Len(sent[i]) + 2 /\ (~Over(i) => p.ack <= Len(sent[i]) + 1)
      BY <1>3, <2>1, AnswerFacts
    <2>3. UNCHANGED sendingBuffer
      BY <1>4 DEF Quiet
    <2>4. /\ ClientTypes /\ OnlyOn(i) /\ SubflowNext(i)
          /\ \A j \in Subflow : \A q \in Packets(toServer'[j]) :
               q \in Packets(toServer[j]) \/ MaySend(j, q)
      <3>1. CASE NewACK(i, p.ack)
        BY <2>1, <2>2, <2>3, <3>1, NewACKEffect
      <3>2. CASE DupAck(i, p.ack)
        BY <2>1, <2>2, <2>3, <3>2, DupAckEffect
      <3>3. CASE OldAck(i, p.ack)
        BY <2>1, <2>2, <2>3, <3>3, OldAckEffect
      <3> QED BY <2>1, <3>1, <3>2, <3>3
    <2> QED BY <1>4, <2>4, OneSubflowKeeps
  <1>7. CASE ReceivedFinAck(i, p)
    <2>1. /\ ClientTypes /\ OnlyOn(i) /\ SubflowNext(i)
          /\ \A j \in Subflow : \A q \in Packets(toServer'[j]) :
               q \in Packets(toServer[j]) \/ MaySend(j, q)
      BY <1>3, <1>7, FinAckEffect
    <2> QED BY <1>4, <2>1, OneSubflowKeeps
  <1>8. CASE ReceivedLate(i, p)
    <2>1. /\ ClientTypes /\ OnlyOn(i) /\ SubflowNext(i)
          /\ \A j \in Subflow : \A q \in Packets(toServer'[j]) :
               q \in Packets(toServer[j]) \/ MaySend(j, q)
      BY <1>3, <1>8, LateEffect
    <2> QED BY <1>4, <2>1, OneSubflowKeeps
  <1>9. CASE CloseAndNotifyAllSubflows(i, p)
    <2>1. /\ state' = [j \in Subflow |-> "CLOSED"] /\ retxEvent' = [j \in Subflow |-> "none"]
          /\ reset' = TRUE /\ currentSublow' = i
          /\ UNCHANGED <<TxSeqNumber, highestAck, toServer, loop>>
      BY <1>9 DEF CloseAndNotifyAllSubflows
    <2>2. ClientTypes
      BY <1>1, <2>1 DEF ClientTypes, TypeOK, States, Timer
    <2>3. ASSUME NEW j \in Subflow PROVE SubflowNext(j)
      <3>1. TxSeqNumber[j] >= 1 /\ highestAck[j] <= Len(sent[j]) + 1
        BY <1>1, ClientFacts
      <3>2. state'[j] = "CLOSED" /\ retxEvent'[j] = "none"
        BY <2>1
      <3> QED BY <2>1, <3>1, <3>2 DEF SubflowNext
    <2>4. \A j \in Subflow : \A q \in Packets(toServer'[j]) :
            q \in Packets(toServer[j]) \/ MaySend(j, q)
      BY <2>1
    <2> QED BY <1>4, <2>2, <2>3, <2>4, QuietKeeps
  <1>10. CASE ProcessSynSent(i, p)
    <2>1. /\ ClientTypes /\ OnlyOn(i) /\ SubflowNext(i)
          /\ \A j \in Subflow : \A q \in Packets(toServer'[j]) :
               q \in Packets(toServer[j]) \/ MaySend(j, q)
      BY <1>3, <1>10, SynSentEffect
    <2> QED BY <1>4, <2>1, OneSubflowKeeps
  <1>11. CASE DuplicatedSynAck(i, p)
    <2>1. /\ ClientTypes /\ OnlyOn(i) /\ SubflowNext(i)
          /\ \A j \in Subflow : \A q \in Packets(toServer'[j]) :
               q \in Packets(toServer[j]) \/ MaySend(j, q)
      BY <1>3, <1>11, DuplicatedEffect
    <2> QED BY <1>4, <2>1, OneSubflowKeeps
  <1> QED BY <1>5, <1>6, <1>7, <1>8, <1>9, <1>10, <1>11

LEMMA ReTxTimeoutKeeps ==
  ASSUME CloseInv, NEW i \in Subflow, ReTxTimeout(i)
  PROVE  CloseInv'
  <1>1. TypeOK /\ ClientInv
    BY InvParts
  <1>2. UNCHANGED <<state, highestAck, sent, sendingBuffer, nextTxSequence, closeVars,
                 loop, serverVars, toClient, lost>>
    BY DEF ReTxTimeout
  <1>3. Quiet
    BY <1>1, <1>2 DEF Quiet, TypeOK, closeVars
  <1>4. /\ TxSeqNumber[i] \in Nat /\ highestAck[i] \in Nat /\ Len(sent[i]) \in Nat
        /\ state[i] \in States
    BY <1>1, Types
  <1>5. /\ TxSeqNumber[i] >= 1 /\ highestAck[i] <= Len(sent[i]) + 1 /\ state[i] # "CLOSING"
        /\ state[i] = "SYN_SENT" => sent[i] = <<>>
        /\ ~Over(i) => TxSeqNumber[i] <= Len(sent[i]) + 1
        /\ i \in scheduled \cup {currentSublow} => state[i] # "SYN_SENT"
        /\ state[i] \in {"FIN_WAIT_1", "TIME_WAIT"} \/ (state[i] = "CLOSED" /\ ~reset)
             => sendingBuffer = 0
        /\ state[i] = "TIME_WAIT" \/ (state[i] = "CLOSED" /\ ~reset)
             => highestAck[i] >= Len(sent[i])
        /\ retxEvent[i] = "fin" => Over(i)
    BY <1>1, ClientFacts
  <1>6. /\ TxSeqNumber \in [Subflow -> Nat] /\ retxEvent \in [Subflow -> Timer]
        /\ state' \in [Subflow -> States] /\ highestAck' \in [Subflow -> Nat]
        /\ reset' \in BOOLEAN /\ loop' \in [pc : {"idle", "send", "resend"}, sf : Subflow]
        /\ currentSublow' \in Subflow
    BY <1>1, <1>2 DEF TypeOK, States, closeVars
  <1>7. ASSUME NEW t \in Nat \ {0}, NEW k \in Timer,
               TxSeqNumber' = [TxSeqNumber EXCEPT ![i] = t],
               retxEvent' = [retxEvent EXCEPT ![i] = k],
               ~Over(i) => t <= Len(sent[i]) + 1,
               k = "fin" => Over(i),
               k = "none" => state[i] = "ESTABLISHED" /\ highestAck[i] >= Len(sent[i]),
               toServer' \in [Subflow -> Seq(Packet)],
               \A j \in Subflow : \A q \in Packets(toServer'[j]) :
                 q \in Packets(toServer[j]) \/ MaySend(j, q)
        PROVE  CloseInv'
    <2>1. /\ TxSeqNumber' \in [Subflow -> Nat] /\ retxEvent' \in [Subflow -> Timer]
          /\ \A j \in Subflow \ {i} : TxSeqNumber'[j] = TxSeqNumber[j] /\ retxEvent'[j] = retxEvent[j]
          /\ TxSeqNumber'[i] = t /\ retxEvent'[i] = k
      BY <1>6, <1>7
    <2>2. ClientTypes
      BY <1>6, <1>7, <2>1 DEF ClientTypes
    <2>3. OnlyOn(i)
      BY <1>2, <2>1 DEF OnlyOn, closeVars
    <2>4. SubflowNext(i)
      <3>1. state'[i] = state[i] /\ highestAck'[i] = highestAck[i] /\ reset' = reset
            /\ currentSublow' = currentSublow
        BY <1>2 DEF closeVars
      <3>2. t >= 1
        OBVIOUS
      <3>3. state[i] = "ESTABLISHED" /\ highestAck[i] < Len(sent[i]) => k # "none"
        BY <1>4, <1>7
      <3> QED BY <1>5, <1>7, <2>1, <3>1, <3>2, <3>3 DEF SubflowNext, Over
    <2> QED BY <1>3, <1>7, <2>2, <2>3, <2>4, OneSubflowKeeps
  <1>8. ASSUME Over(i)
        PROVE  Fin(FinNumber(i)) \in Packet /\ MaySend(i, Fin(FinNumber(i)))
    BY <1>2, <1>4, <1>8 DEF Fin, FinNumber, Packet, MaySend
  <1>9. CASE ResendFin(i)
    <2>1. /\ retxEvent[i] = "fin" /\ toServer' = Put(toServer, i, Fin(FinNumber(i)))
          /\ UNCHANGED <<TxSeqNumber, retxEvent>>
      BY <1>9 DEF ResendFin
    <2>2. Over(i)
      BY <1>5, <2>1
    <2>3. /\ toServer' \in [Subflow -> Seq(Packet)]
          /\ \A j \in Subflow : \A q \in Packets(toServer'[j]) :
               q \in Packets(toServer[j]) \/ MaySend(j, q)
      BY <1>1, <1>8, <2>1, <2>2, PutNext
    <2>4. /\ TxSeqNumber' = [TxSeqNumber EXCEPT ![i] = TxSeqNumber[i]]
          /\ retxEvent' = [retxEvent EXCEPT ![i] = retxEvent[i]]
      BY <1>6, <2>1
    <2>5. TxSeqNumber[i] \in Nat \ {0} /\ retxEvent[i] \in Timer
      BY <1>4, <1>5, <1>6
    <2> QED BY <1>7, <2>1, <2>2, <2>3, <2>4, <2>5
  <1>10. CASE RetransmitTimeout(i)
    <2>1. CASE /\ highestAck[i] < maxSeqNb(i)
               /\ toServer' = Put(toServer, i, Data(highestAck[i] + 1, sent[i][highestAck[i] + 1]))
               /\ TxSeqNumber' = [TxSeqNumber EXCEPT ![i] = highestAck[i] + 2]
               /\ UNCHANGED retxEvent
      <3>1. highestAck[i] + 1 \in Nat \ {0} /\ highestAck[i] + 1 <= Len(sent[i])
            /\ highestAck[i] + 2 \in Nat \ {0} /\ highestAck[i] + 2 <= Len(sent[i]) + 1
        BY <1>4, <2>1 DEF maxSeqNb
      <3>2. Data(highestAck[i] + 1, sent[i][highestAck[i] + 1]) \in Packet
            /\ MaySend(i, Data(highestAck[i] + 1, sent[i][highestAck[i] + 1]))
        BY <1>1, <3>1, SentAgain
      <3>3. /\ toServer' \in [Subflow -> Seq(Packet)]
            /\ \A j \in Subflow : \A q \in Packets(toServer'[j]) :
               q \in Packets(toServer[j]) \/ MaySend(j, q)
        BY <1>1, <2>1, <3>2, PutNext
      <3>4. retxEvent' = [retxEvent EXCEPT ![i] = "data"] /\ "data" \in Timer
        BY <1>6, <1>10, <2>1 DEF RetransmitTimeout, Timer
      <3> QED BY <1>7, <2>1, <3>1, <3>3, <3>4
    <2>2. CASE /\ highestAck[i] >= maxSeqNb(i) /\ state[i] \in {"FIN_WAIT_1", "CLOSING"}
               /\ toServer' = Put(toServer, i, Fin(FinNumber(i)))
               /\ TxSeqNumber' = [TxSeqNumber EXCEPT ![i] = highestAck[i] + 1]
               /\ retxEvent' = [retxEvent EXCEPT ![i] = "fin"]
      <3>1. Over(i)
        BY <2>2 DEF Over
      <3>2. /\ toServer' \in [Subflow -> Seq(Packet)]
            /\ \A j \in Subflow : \A q \in Packets(toServer'[j]) :
               q \in Packets(toServer[j]) \/ MaySend(j, q)
        BY <1>1, <1>8, <2>2, <3>1, PutNext
      <3>3. highestAck[i] + 1 \in Nat \ {0} /\ "fin" \in Timer
        BY <1>4 DEF Timer
      <3> QED BY <1>7, <2>2, <3>1, <3>2, <3>3
    <2>3. CASE /\ highestAck[i] >= maxSeqNb(i) /\ state[i] = "ESTABLISHED"
               /\ retxEvent' = [retxEvent EXCEPT ![i] = "none"]
               /\ UNCHANGED <<toServer, TxSeqNumber>>
      <3>1. /\ toServer' \in [Subflow -> Seq(Packet)]
            /\ \A j \in Subflow : \A q \in Packets(toServer'[j]) :
               q \in Packets(toServer[j]) \/ MaySend(j, q)
        BY <1>1, <2>3, NothingPut
      <3>2. TxSeqNumber' = [TxSeqNumber EXCEPT ![i] = TxSeqNumber[i]]
            /\ TxSeqNumber[i] \in Nat \ {0} /\ "none" \in Timer
        BY <1>4, <1>5, <1>6, <2>3 DEF Timer
      <3>3. highestAck[i] >= Len(sent[i])
        BY <2>3 DEF maxSeqNb
      <3> QED BY <1>5, <1>7, <2>3, <3>1, <3>2, <3>3
    <2> QED BY <1>10, <2>1, <2>2, <2>3 DEF RetransmitTimeout
  <1> QED BY <1>9, <1>10 DEF ReTxTimeout

LEMMA CloseMultipathConnectionKeeps ==
  ASSUME CloseInv, CloseMultipathConnection
  PROVE  CloseInv'
  <1>1. TypeOK /\ ClientInv
    BY InvParts
  <1>2. /\ state' = [i \in Subflow |-> IF state[i] = "TIME_WAIT" THEN "CLOSED" ELSE state[i]]
        /\ UNCHANGED <<sendVars, retxEvent, closeVars, loop, serverVars, netVars>>
    BY DEF CloseMultipathConnection
  <1>3. Quiet
    BY <1>1, <1>2 DEF Quiet, TypeOK, sendVars, closeVars, netVars
  <1>4. ClientTypes
    <2>1. state' \in [Subflow -> States]
      BY <1>1, <1>2 DEF TypeOK, States
    <2> QED BY <1>1, <1>2, <2>1 DEF ClientTypes, TypeOK, sendVars, closeVars, netVars
  <1>5. ASSUME NEW j \in Subflow PROVE SubflowNext(j)
    <2>1. /\ TxSeqNumber[j] >= 1 /\ highestAck[j] <= Len(sent[j]) + 1
          /\ state[j] = "SYN_SENT" => sent[j] = <<>>
          /\ ~Over(j) => TxSeqNumber[j] <= Len(sent[j]) + 1
          /\ state[j] # "CLOSING"
          /\ j \in scheduled \cup {currentSublow} => state[j] # "SYN_SENT"
          /\ state[j] \in {"FIN_WAIT_1", "TIME_WAIT"} \/ (state[j] = "CLOSED" /\ ~reset)
               => sendingBuffer = 0
          /\ state[j] = "TIME_WAIT" \/ (state[j] = "CLOSED" /\ ~reset)
               => highestAck[j] >= Len(sent[j])
          /\ retxEvent[j] = "fin" => Over(j)
          /\ state[j] = "FIN_WAIT_1" => retxEvent[j] # "none"
          /\ state[j] = "ESTABLISHED" /\ highestAck[j] < Len(sent[j]) => retxEvent[j] # "none"
      BY <1>1, ClientFacts
    <2>2. /\ state'[j] = IF state[j] = "TIME_WAIT" THEN "CLOSED" ELSE state[j]
          /\ TxSeqNumber'[j] = TxSeqNumber[j] /\ highestAck'[j] = highestAck[j]
          /\ retxEvent'[j] = retxEvent[j] /\ reset' = reset /\ currentSublow' = currentSublow
      BY <1>2 DEF sendVars, closeVars
    <2> QED BY <2>1, <2>2 DEF SubflowNext, Over
  <1>6. \A j \in Subflow : \A q \in Packets(toServer'[j]) :
          q \in Packets(toServer[j]) \/ MaySend(j, q)
    BY <1>2 DEF netVars
  <1> QED BY <1>3, <1>4, <1>5, <1>6, QuietKeeps

---------------------------------------------------------------------------
(* The server's steps, and the network's: the client stays as it is.        *)

\* Subflow j at the server in the next state.
PeerNext(j) ==
  /\ finSeq'[j] = 0 \/ (finSeq'[j] = Len(sent[j]) + 1 /\ Over(j))
  /\ RxSeqNumber'[j] >= RxSeqNumber[j] /\ RxSeqNumber'[j] <= Len(sent[j]) + 2
  /\ RxSeqNumber'[j] = Len(sent[j]) + 2 => finSeq'[j] # 0
  /\ peerState'[j] = "LAST_ACK" => RxSeqNumber'[j] = Len(sent[j]) + 2

\* The packets that the server may add on subflow j.
MayAnswer(j, p) ==
  \/ p.type = "ACK" /\ p.ack <= RxSeqNumber'[j]
  \/ p.type = "FINACK" /\ p.ack = Len(sent[j]) + 2 /\ Over(j)
  \/ p.type \in {"SYNACK", "RST"}

PeerTypes ==
  /\ peerState' \in [Subflow -> PeerStates] /\ finSeq' \in [Subflow -> Nat]
  /\ RxSeqNumber' \in [Subflow -> Nat] /\ nextRxSequence' \in Nat
  /\ unOrdered' \subseteq [sf : Subflow, seq : Nat, dsn : Nat]
  /\ toServer' \in [Subflow -> Seq(Packet)] /\ toClient' \in [Subflow -> Seq(Answer)]
  /\ cnCount' \in [Subflow -> 0 .. CnRetries] /\ lost' \in 0 .. MaxLoss

LEMMA PeerKeeps ==
  ASSUME CloseInv, UNCHANGED clientVars, PeerTypes,
         \A j \in Subflow : PeerNext(j),
         \A u \in unOrdered' : u.seq <= Len(sent[u.sf]),
         \A j \in Subflow : Packets(toServer'[j]) \subseteq Packets(toServer[j]),
         \A j \in Subflow : \A p \in Packets(toClient'[j]) :
           p \in Packets(toClient[j]) \/ MayAnswer(j, p)
  PROVE  CloseInv'
  <1>1. TypeOK /\ ClientInv /\ FlightFits
    BY InvParts
  <1>2. TypeOK'
    BY <1>1 DEF PeerTypes, TypeOK, PeerStates, clientVars, sendVars, closeVars
  <1>3. ClientInv' /\ Progress
    BY <1>1, ClientKept
  <1>4. ASSUME NEW j \in Subflow
        PROVE  sent'[j] = sent[j] /\ (Over(j)' <=> Over(j)) /\ RxSeqNumber'[j] \in Nat
    BY DEF clientVars, sendVars, Over, PeerTypes
  <1>5. FinIsLast' /\ FinMeansAllReceived'
    <2>1. ASSUME NEW j \in Subflow
          PROVE  /\ finSeq'[j] = 0 \/ (finSeq'[j] = Len(sent'[j]) + 1 /\ Over(j)')
                 /\ RxSeqNumber'[j] <= Len(sent'[j]) + 2
                 /\ RxSeqNumber'[j] = Len(sent'[j]) + 2 => finSeq'[j] # 0
                 /\ peerState'[j] = "LAST_ACK" => RxSeqNumber'[j] = Len(sent'[j]) + 2
      <3>1. PeerNext(j)
        OBVIOUS
      <3> QED BY <1>4, <3>1 DEF PeerNext
    <2>2. sent' = sent
      BY DEF clientVars, sendVars
    <2> QED BY <2>1, <2>2 DEF FinIsLast, FinMeansAllReceived
  <1>6. FlightFits'
    <2>1. \A j \in Subflow : RxSeqNumber'[j] \in Nat /\ RxSeqNumber'[j] >= RxSeqNumber[j]
      BY <1>4 DEF PeerNext
    <2>2. ASSUME NEW j \in Subflow, NEW p \in Packets(toClient'[j])
          PROVE  \/ p \in Packets(toClient[j])
                 \/ p.type = "ACK" /\ p.ack <= RxSeqNumber'[j]
                 \/ p.type = "FINACK" /\ p.ack = Len(sent'[j]) + 2 /\ Over(j)'
                 \/ p.type \in {"SYNACK", "RST"}
      BY <1>4 DEF MayAnswer
    <2>3. \A j \in Subflow : \A p \in Packets(toServer'[j]) : p \in Packets(toServer[j])
      OBVIOUS
    <2> QED BY <1>1, <1>3, <2>1, <2>2, <2>3, FlightKept
  <1> QED BY <1>2, <1>3, <1>5, <1>6 DEF CloseInv, ClientInv

\* The server before the step.
LEMMA PeerFacts ==
  ASSUME CloseInv, NEW j \in Subflow
  PROVE  /\ finSeq[j] \in Nat /\ RxSeqNumber[j] \in Nat /\ Len(sent[j]) \in Nat
         /\ peerState[j] \in PeerStates
         /\ finSeq[j] = 0 \/ (finSeq[j] = Len(sent[j]) + 1 /\ Over(j))
         /\ RxSeqNumber[j] <= Len(sent[j]) + 2
         /\ RxSeqNumber[j] = Len(sent[j]) + 2 => finSeq[j] # 0
         /\ peerState[j] = "LAST_ACK" => RxSeqNumber[j] = Len(sent[j]) + 2 /\ Over(j)
  <1>1. /\ finSeq[j] \in Nat /\ RxSeqNumber[j] \in Nat /\ Len(sent[j]) \in Nat
        /\ peerState[j] \in PeerStates
    BY Types DEF CloseInv
  <1>2. /\ finSeq[j] = 0 \/ (finSeq[j] = Len(sent[j]) + 1 /\ Over(j))
        /\ RxSeqNumber[j] <= Len(sent[j]) + 2
        /\ RxSeqNumber[j] = Len(sent[j]) + 2 => finSeq[j] # 0
        /\ peerState[j] = "LAST_ACK" => RxSeqNumber[j] = Len(sent[j]) + 2
    BY DEF CloseInv, FinIsLast, FinMeansAllReceived
  <1> QED BY <1>1, <1>2

LEMMA AnswerPut ==
  ASSUME CloseInv, NEW i \in Subflow, NEW p \in Answer, MayAnswer(i, p),
         toClient' = Put(toClient, i, p)
  PROVE  /\ toClient' \in [Subflow -> Seq(Answer)]
         /\ \A j \in Subflow : \A q \in Packets(toClient'[j]) :
              q \in Packets(toClient[j]) \/ MayAnswer(j, q)
  <1>1. toClient \in [Subflow -> Seq(Answer)]
    BY DEF CloseInv, TypeOK
  <1>2. /\ Put(toClient, i, p) \in [Subflow -> Seq(Answer)]
        /\ \A j \in Subflow : Packets(Put(toClient, i, p)[j]) \subseteq
                                Packets(toClient[j]) \cup (IF j = i THEN {p} ELSE {})
    BY <1>1, PutToClient
  <1> QED BY <1>2

LEMMA NoAnswer ==
  ASSUME CloseInv, UNCHANGED toClient
  PROVE  /\ toClient' \in [Subflow -> Seq(Answer)]
         /\ \A j \in Subflow : \A q \in Packets(toClient'[j]) :
              q \in Packets(toClient[j]) \/ MayAnswer(j, q)
  BY DEF CloseInv, TypeOK

\* The data of the receiver in the next state.
LEMMA DataStays ==
  ASSUME CloseInv, UNCHANGED <<finSeq, dataVars>>,
         \A j \in Subflow : peerState'[j] = "LAST_ACK" => peerState[j] = "LAST_ACK"
  PROVE  /\ \A j \in Subflow : PeerNext(j)
         /\ \A u \in unOrdered' : u.seq <= Len(sent[u.sf])
         /\ finSeq' \in [Subflow -> Nat] /\ RxSeqNumber' \in [Subflow -> Nat]
         /\ nextRxSequence' \in Nat
         /\ unOrdered' \subseteq [sf : Subflow, seq : Nat, dsn : Nat]
  <1>1. ASSUME NEW j \in Subflow PROVE PeerNext(j)
    <2>1. RxSeqNumber'[j] = RxSeqNumber[j] /\ finSeq'[j] = finSeq[j]
      BY DEF dataVars
    <2> QED BY <2>1, PeerFacts DEF PeerNext
  <1>2. \A u \in unOrdered' : u.seq <= Len(sent[u.sf])
    BY DEF dataVars, CloseInv, FinIsLast
  <1>3. /\ finSeq' \in [Subflow -> Nat] /\ RxSeqNumber' \in [Subflow -> Nat]
        /\ nextRxSequence' \in Nat
        /\ unOrdered' \subseteq [sf : Subflow, seq : Nat, dsn : Nat]
    BY DEF CloseInv, TypeOK, dataVars
  <1> QED BY <1>1, <1>2, <1>3

LEMMA PacketFacts ==
  ASSUME CloseInv, NEW i \in Subflow, NEW p \in Packets(toServer[i])
  PROVE  /\ p \in Packet /\ p.seq \in Nat /\ p.dsn \in Nat
         /\ p.type = "DATA" => p.seq <= Len(sent[i])
         /\ p.type = "FIN" => p.seq = Len(sent[i]) + 1 /\ Over(i)
  <1>1. p \in Packet /\ p.seq \in Nat /\ p.dsn \in Nat
    BY Types DEF CloseInv, Packet
  <1>2. /\ p.type = "DATA" => p.seq <= Len(sent[i])
        /\ p.type = "FIN" => p.seq = Len(sent[i]) + 1 /\ Over(i)
    BY DEF CloseInv, FlightFits
  <1> QED BY <1>1, <1>2

DataTypes ==
  /\ RxSeqNumber' \in [Subflow -> Nat] /\ nextRxSequence' \in Nat
  /\ unOrdered' \subseteq [sf : Subflow, seq : Nat, dsn : Nat]
  /\ \A u \in unOrdered' : u.seq <= Len(sent[u.sf])

\* Data never takes a subflow past the number of its FIN.
DataEffect(i) ==
  /\ DataTypes
  /\ \A j \in Subflow :
       /\ RxSeqNumber'[j] >= RxSeqNumber[j]
       /\ RxSeqNumber'[j] = RxSeqNumber[j] \/ RxSeqNumber'[j] <= Len(sent[j]) + 1

LEMMA DeliverDataEffect ==
  ASSUME CloseInv, NEW i \in Subflow, NEW p \in Packets(toServer[i]), p.type = "DATA",
         Receiver!DeliverData(i, p)
  PROVE  DataEffect(i) /\ RxSeqNumber'[i] <= Len(sent[i]) + 1
  <1> DEFINE b == [RxSeqNumber EXCEPT ![i] = @ + 1]
  <1>1. /\ p.seq = RxSeqNumber[i]
        /\ nextRxSequence' \in nextRxSequence + 1 .. MaxData + 1 + 1
        /\ unOrdered' \subseteq unOrdered
        /\ RxSeqNumber' \in [Receiver!Subflow -> 1 .. MaxData + 1 + 1]
        /\ \A j \in Receiver!Subflow : Receiver!PassesStored(j, b[j], RxSeqNumber'[j])
    BY DEF Receiver!DeliverData
  <1>2. Receiver!Subflow = Subflow
    BY DEF Receiver!Subflow, Subflow
  <1>3. /\ RxSeqNumber \in [Subflow -> Nat] /\ nextRxSequence \in Nat
        /\ unOrdered \subseteq [sf : Subflow, seq : Nat, dsn : Nat]
        /\ \A u \in unOrdered : u.seq <= Len(sent[u.sf])
    BY DEF CloseInv, TypeOK, FinIsLast
  <1>4. RxSeqNumber' \in [Subflow -> Nat] /\ nextRxSequence' \in Nat
    BY <1>1, <1>2, <1>3, Constants
  <1>5. DataTypes
    BY <1>1, <1>3, <1>4 DEF DataTypes
  <1>6. ASSUME NEW j \in Subflow
        PROVE  /\ b[j] = IF j = i THEN RxSeqNumber[j] + 1 ELSE RxSeqNumber[j]
               /\ RxSeqNumber'[j] >= b[j] /\ b[j] .. RxSeqNumber'[j] - 1 \subseteq Receiver!Stored(j)
    <2>1. Receiver!PassesStored(j, b[j], RxSeqNumber'[j])
      BY <1>1, <1>2
    <2>2. b[j] = IF j = i THEN RxSeqNumber[j] + 1 ELSE RxSeqNumber[j]
      BY <1>3
    <2> QED BY <2>1, <2>2 DEF Receiver!PassesStored, Receiver!FirstGap
  <1> HIDE DEF b
  <1>7. ASSUME NEW j \in Subflow
        PROVE  /\ RxSeqNumber'[j] >= RxSeqNumber[j]
               /\ RxSeqNumber'[j] = RxSeqNumber[j] \/ RxSeqNumber'[j] <= Len(sent[j]) + 1
               /\ j = i => RxSeqNumber'[j] <= Len(sent[j]) + 1
    <2>1. RxSeqNumber[j] \in Nat /\ RxSeqNumber'[j] \in Nat /\ Len(sent[j]) \in Nat
      BY <1>4, PeerFacts
    <2>2. j = i => RxSeqNumber[j] <= Len(sent[j])
      BY <1>1, PacketFacts
    <2>3. CASE RxSeqNumber'[j] = b[j]
      BY <1>6, <2>1, <2>2, <2>3
    <2>4. CASE RxSeqNumber'[j] # b[j]
      <3>1. b[j] \in Nat
        BY <1>6, <2>1
      <3>2. RxSeqNumber'[j] - 1 \in b[j] .. RxSeqNumber'[j] - 1
        BY <1>6, <2>1, <2>4, <3>1
      <3>3. RxSeqNumber'[j] - 1 \in Receiver!Stored(j)
        BY <1>6, <3>2
      <3>4. PICK u \in unOrdered : u.sf = j /\ u.seq = RxSeqNumber'[j] - 1
        BY <3>3 DEF Receiver!Stored
      <3>5. RxSeqNumber'[j] - 1 <= Len(sent[j])
        BY <1>3, <3>4
      <3> QED BY <1>6, <2>1, <3>5
    <2> QED BY <2>3, <2>4
  <1> QED BY <1>5, <1>7 DEF DataEffect

LEMMA StoreDataEffect ==
  ASSUME CloseInv, NEW i \in Subflow, NEW p \in Packets(toServer[i]), p.type = "DATA",
         Receiver!StoreUnOrderedData(i, p) \/ Receiver!RejectDuplicate(i, p)
  PROVE  DataEffect(i)
  <1>1. /\ RxSeqNumber \in [Subflow -> Nat] /\ nextRxSequence \in Nat
        /\ unOrdered \subseteq [sf : Subflow, seq : Nat, dsn : Nat]
        /\ \A u \in unOrdered : u.seq <= Len(sent[u.sf])
    BY DEF CloseInv, TypeOK, FinIsLast
  <1>2. p.seq \in Nat /\ p.dsn \in Nat /\ p.seq <= Len(sent[i]) /\ Len(sent[i]) \in Nat
    BY PacketFacts, PeerFacts
  <1>3. CASE UNCHANGED <<RxSeqNumber, nextRxSequence, unOrdered>>
    BY <1>1, <1>3 DEF DataEffect, DataTypes
  <1>4. CASE /\ unOrdered' = unOrdered \cup {[sf |-> i, seq |-> p.seq, dsn |-> p.dsn]}
             /\ RxSeqNumber' = [RxSeqNumber EXCEPT ![i] = IF p.seq = @ THEN @ + 1 ELSE @]
             /\ UNCHANGED nextRxSequence
    <2>1. /\ RxSeqNumber' \in [Subflow -> Nat]
          /\ \A j \in Subflow : RxSeqNumber'[j] =
               IF j = i /\ p.seq = RxSeqNumber[j] THEN RxSeqNumber[j] + 1 ELSE RxSeqNumber[j]
      BY <1>1, <1>4
    <2>2. /\ unOrdered' \subseteq [sf : Subflow, seq : Nat, dsn : Nat]
          /\ \A u \in unOrdered' : u.seq <= Len(sent[u.sf])
      BY <1>1, <1>2, <1>4
    <2>3. DataTypes
      BY <1>1, <1>4, <2>1, <2>2 DEF DataTypes
    <2>4. ASSUME NEW j \in Subflow
          PROVE  /\ RxSeqNumber'[j] >= RxSeqNumber[j]
                 /\ RxSeqNumber'[j] = RxSeqNumber[j] \/ RxSeqNumber'[j] <= Len(sent[j]) + 1
      BY <1>1, <1>2, <2>1
    <2> QED BY <2>3, <2>4 DEF DataEffect
  <1> QED BY <1>3, <1>4 DEF Receiver!StoreUnOrderedData, Receiver!RejectDuplicate,
        Receiver!receiverVars

LEMMA AckFits ==
  ASSUME CloseInv, NEW i \in Subflow, RxSeqNumber'[i] \in Nat
  PROVE  Ack(RxSeqNumber'[i]) \in Answer /\ MayAnswer(i, Ack(RxSeqNumber'[i]))
  BY DEF Ack, Answer, MayAnswer

LEMMA FinAckFits ==
  ASSUME CloseInv, NEW i \in Subflow, NEW a \in Nat, a = Len(sent[i]) + 2, Over(i)
  PROVE  FinAck(a) \in Answer /\ MayAnswer(i, FinAck(a))
  BY DEF FinAck, Answer, MayAnswer

LEMMA EndHandshakeEffect ==
  ASSUME CloseInv, NEW i \in Subflow, EndHandshake(i)
  PROVE  /\ peerState' \in [Subflow -> PeerStates]
         /\ \A j \in Subflow : peerState'[j] =
              IF j = i /\ peerState[j] = "SYN_RCVD" THEN "ESTABLISHED" ELSE peerState[j]
  BY DEF CloseInv, TypeOK, PeerStates, EndHandshake

\* Answering data closes nothing: the FIN has the next number at least.
LEMMA ReceivedDataEffect ==
  ASSUME CloseInv, NEW i \in Subflow, NEW p \in Packets(toServer[i]), ReceivedData(i, p)
  PROVE  /\ DataEffect(i) /\ UNCHANGED finSeq /\ EndHandshake(i)
         /\ toClient' = Put(toClient, i, Ack(RxSeqNumber'[i]))
  <1>1. p.type = "DATA" /\ UNCHANGED finSeq
    BY DEF ReceivedData
  <1>2. CASE /\ Receiver!DeliverData(i, p)
             /\ ThenPeerClose(i, Put(toClient, i, Ack(RxSeqNumber'[i])))
    <2>1. DataEffect(i) /\ RxSeqNumber'[i] <= Len(sent[i]) + 1
      BY <1>1, <1>2, DeliverDataEffect
    <2>2. ~Finished(i)
      <3>1. RxSeqNumber'[i] \in Nat
        BY <2>1 DEF DataEffect, DataTypes
      <3>2. finSeq'[i] = 0 \/ finSeq'[i] = Len(sent[i]) + 1
        BY <1>1, PeerFacts
      <3>3. Len(sent[i]) \in Nat
        BY PeerFacts
      <3> QED BY <2>1, <3>1, <3>2, <3>3 DEF Finished
    <2> QED BY <1>1, <1>2, <2>1, <2>2 DEF ThenPeerClose
  <1>3. CASE /\ Receiver!StoreUnOrderedData(i, p) \/ Receiver!RejectDuplicate(i, p)
             /\ toClient' = Put(toClient, i, Ack(RxSeqNumber'[i]))
             /\ EndHandshake(i)
    BY <1>1, <1>3, StoreDataEffect
  <1> QED BY <1>2, <1>3 DEF ReceivedData

LEMMA ReceivedDataKeeps ==
  ASSUME CloseInv, NEW i \in Subflow, NEW p \in Packets(toServer[i]), ReceivedData(i, p)
  PROVE  /\ \A j \in Subflow : PeerNext(j)
         /\ DataTypes
         /\ finSeq' \in [Subflow -> Nat] /\ peerState' \in [Subflow -> PeerStates]
         /\ toClient' \in [Subflow -> Seq(Answer)]
         /\ \A j \in Subflow : \A q \in Packets(toClient'[j]) :
              q \in Packets(toClient[j]) \/ MayAnswer(j, q)
  <1>1. /\ DataEffect(i) /\ UNCHANGED finSeq /\ EndHandshake(i)
        /\ toClient' = Put(toClient, i, Ack(RxSeqNumber'[i]))
    BY ReceivedDataEffect
  <1>2. ASSUME NEW j \in Subflow PROVE PeerNext(j)
    <2>1. /\ RxSeqNumber'[j] \in Nat /\ RxSeqNumber'[j] >= RxSeqNumber[j]
          /\ RxSeqNumber'[j] = RxSeqNumber[j] \/ RxSeqNumber'[j] <= Len(sent[j]) + 1
      BY <1>1 DEF DataEffect, DataTypes
    <2>2. finSeq'[j] = finSeq[j] /\ (peerState'[j] = "LAST_ACK" => peerState[j] = "LAST_ACK")
      BY <1>1, EndHandshakeEffect
    <2>3. /\ RxSeqNumber[j] \in Nat /\ Len(sent[j]) \in Nat
          /\ finSeq[j] = 0 \/ (finSeq[j] = Len(sent[j]) + 1 /\ Over(j))
          /\ RxSeqNumber[j] <= Len(sent[j]) + 2
          /\ RxSeqNumber[j] = Len(sent[j]) + 2 => finSeq[j] # 0
          /\ peerState[j] = "LAST_ACK" => RxSeqNumber[j] = Len(sent[j]) + 2
      BY PeerFacts
    <2> QED BY <2>1, <2>2, <2>3 DEF PeerNext
  <1>3. /\ toClient' \in [Subflow -> Seq(Answer)]
        /\ \A j \in Subflow : \A q \in Packets(toClient'[j]) :
              q \in Packets(toClient[j]) \/ MayAnswer(j, q)
    <2>1. RxSeqNumber'[i] \in Nat
      BY <1>1 DEF DataEffect, DataTypes
    <2> QED BY <1>1, <2>1, AckFits, AnswerPut
  <1>4. finSeq' \in [Subflow -> Nat] /\ peerState' \in [Subflow -> PeerStates]
    BY <1>1, EndHandshakeEffect DEF CloseInv, TypeOK
  <1> QED BY <1>1, <1>2, <1>3, <1>4 DEF DataEffect

LEMMA PeerCloseKeeps ==
  ASSUME CloseInv, NEW i \in Subflow, NEW p \in Packets(toServer[i]), PeerClose(i, p)
  PROVE  /\ \A j \in Subflow : PeerNext(j)
         /\ DataTypes
         /\ finSeq' \in [Subflow -> Nat] /\ peerState' \in [Subflow -> PeerStates]
         /\ toClient' \in [Subflow -> Seq(Answer)]
         /\ \A j \in Subflow : \A q \in Packets(toClient'[j]) :
              q \in Packets(toClient[j]) \/ MayAnswer(j, q)
  <1>1. /\ p.type = "FIN" /\ peerState[i] = "ESTABLISHED"
        /\ finSeq' = [finSeq EXCEPT ![i] = p.seq]
        /\ RxSeqNumber' = [RxSeqNumber EXCEPT ![i] = IF @ = p.seq THEN @ + 1 ELSE @]
        /\ UNCHANGED <<nextRxSequence, unOrdered>>
        /\ ThenPeerClose(i, toClient)
    BY DEF PeerClose
  <1>2. p.seq \in Nat /\ p.seq = Len(sent[i]) + 1 /\ Over(i)
    BY <1>1, PacketFacts
  <1>3. /\ RxSeqNumber \in [Subflow -> Nat] /\ nextRxSequence \in Nat
        /\ unOrdered \subseteq [sf : Subflow, seq : Nat, dsn : Nat]
        /\ \A u \in unOrdered : u.seq <= Len(sent[u.sf])
        /\ finSeq \in [Subflow -> Nat] /\ peerState \in [Subflow -> PeerStates]
    BY DEF CloseInv, TypeOK, FinIsLast, PeerStates
  <1>4. /\ RxSeqNumber' \in [Subflow -> Nat] /\ finSeq' \in [Subflow -> Nat]
        /\ \A j \in Subflow : /\ finSeq'[j] = IF j = i THEN p.seq ELSE finSeq[j]
                              /\ RxSeqNumber'[j] = IF j = i /\ RxSeqNumber[j] = p.seq
                                                   THEN RxSeqNumber[j] + 1 ELSE RxSeqNumber[j]
    BY <1>1, <1>2, <1>3
  <1>5. DataTypes
    BY <1>1, <1>3, <1>4 DEF DataTypes
  <1>6. Finished(i) => RxSeqNumber'[i] = Len(sent[i]) + 2
    <2>1. RxSeqNumber[i] \in Nat /\ Len(sent[i]) \in Nat /\ RxSeqNumber[i] <= Len(sent[i]) + 2
      BY PeerFacts
    <2>2. /\ finSeq'[i] = Len(sent[i]) + 1
          /\ RxSeqNumber'[i] = IF RxSeqNumber[i] = p.seq THEN RxSeqNumber[i] + 1 ELSE RxSeqNumber[i]
      BY <1>2, <1>4
    <2> QED BY <1>2, <2>1, <2>2 DEF Finished
  <1>7. /\ peerState' \in [Subflow -> PeerStates]
        /\ \A j \in Subflow : peerState'[j] = peerState[j]
                              \/ (j = i /\ peerState'[j] = "LAST_ACK" /\ Finished(i))
    <2>1. CASE Finished(i)
      <3>1. peerState' = [peerState EXCEPT ![i] = "LAST_ACK"]
        BY <1>1, <2>1 DEF ThenPeerClose
      <3> QED BY <1>3, <2>1, <3>1 DEF PeerStates
    <2>2. CASE ~Finished(i)
      <3>1. EndHandshake(i)
        BY <1>1, <2>2 DEF ThenPeerClose
      <3> QED BY <1>1, <3>1, EndHandshakeEffect
    <2> QED BY <2>1, <2>2
  <1>8. ASSUME NEW j \in Subflow PROVE PeerNext(j)
    <2>1. /\ RxSeqNumber[j] \in Nat /\ Len(sent[j]) \in Nat
          /\ finSeq[j] = 0 \/ (finSeq[j] = Len(sent[j]) + 1 /\ Over(j))
          /\ RxSeqNumber[j] <= Len(sent[j]) + 2
          /\ RxSeqNumber[j] = Len(sent[j]) + 2 => finSeq[j] # 0
          /\ peerState[j] = "LAST_ACK" => RxSeqNumber[j] = Len(sent[j]) + 2
      BY PeerFacts
    <2>2. CASE j = i
      <3>1. /\ finSeq'[j] = Len(sent[j]) + 1 /\ Over(j)
            /\ RxSeqNumber'[j] = IF RxSeqNumber[j] = p.seq THEN RxSeqNumber[j] + 1 ELSE RxSeqNumber[j]
        BY <1>2, <1>4, <2>2
      <3>2. peerState'[j] = "LAST_ACK" => RxSeqNumber'[j] = Len(sent[j]) + 2
        BY <1>1, <1>6, <1>7, <2>2
      <3> QED BY <1>2, <2>1, <2>2, <3>1, <3>2 DEF PeerNext
    <2>3. CASE j # i
      <3>1. /\ finSeq'[j] = finSeq[j] /\ RxSeqNumber'[j] = RxSeqNumber[j]
            /\ peerState'[j] = peerState[j]
        BY <1>4, <1>7, <2>3
      <3> QED BY <2>1, <3>1 DEF PeerNext
    <2> QED BY <2>2, <2>3
  <1>9. /\ toClient' \in [Subflow -> Seq(Answer)]
        /\ \A j \in Subflow : \A q \in Packets(toClient'[j]) :
              q \in Packets(toClient[j]) \/ MayAnswer(j, q)
    <2>1. CASE Finished(i)
      <3>1. toClient' = Put(toClient, i, FinAck(RxSeqNumber'[i]))
        BY <1>1, <2>1 DEF ThenPeerClose
      <3>2. RxSeqNumber'[i] \in Nat /\ RxSeqNumber'[i] = Len(sent[i]) + 2
        BY <1>4, <1>6, <2>1
      <3>3. FinAck(RxSeqNumber'[i]) \in Answer /\ MayAnswer(i, FinAck(RxSeqNumber'[i]))
        BY <1>2, <3>2, FinAckFits
      <3> QED BY <3>1, <3>3, AnswerPut
    <2>2. CASE ~Finished(i)
      <3>1. UNCHANGED toClient
        BY <1>1, <2>2 DEF ThenPeerClose
      <3> QED BY <3>1, NoAnswer
    <2> QED BY <2>1, <2>2
  <1> QED BY <1>4, <1>5, <1>7, <1>8, <1>9

\* The FIN+ACK sent again.
LEMMA FinAckAgain ==
  ASSUME CloseInv, NEW i \in Subflow, peerState[i] = "LAST_ACK"
  PROVE  FinAck(RxSeqNumber[i]) \in Answer /\ MayAnswer(i, FinAck(RxSeqNumber[i]))
  <1>1. RxSeqNumber[i] \in Nat /\ RxSeqNumber[i] = Len(sent[i]) + 2 /\ Over(i)
    BY PeerFacts
  <1> QED BY <1>1, FinAckFits

\* The server's other handlers leave the data alone.
LEMMA OtherServerKeeps ==
  ASSUME CloseInv, NEW i \in Subflow, NEW p \in Packets(toServer[i]),
         \/ ProcessListen(i, p) \/ ProcessSynRcvd(i, p) \/ ProcessLastAck(i, p)
         \/ PeerReset(i, p) \/ ReceivedClosed(i, p)
  PROVE  /\ UNCHANGED <<finSeq, dataVars>>
         /\ \A j \in Subflow : peerState'[j] = "LAST_ACK" => peerState[j] = "LAST_ACK"
         /\ peerState' \in [Subflow -> PeerStates]
         /\ toClient' \in [Subflow -> Seq(Answer)]
         /\ \A j \in Subflow : \A q \in Packets(toClient'[j]) :
              q \in Packets(toClient[j]) \/ MayAnswer(j, q)
  <1>1. peerState \in [Subflow -> PeerStates]
    BY DEF CloseInv, TypeOK, PeerStates
  <1>5. /\ PeerRst \in Answer /\ MayAnswer(i, PeerRst)
        /\ SynAck \in Answer /\ MayAnswer(i, SynAck)
    BY DEF PeerRst, SynAck, Answer, MayAnswer
  <1>2. CASE ProcessLastAck(i, p)
    <2>1. /\ peerState[i] = "LAST_ACK" /\ UNCHANGED <<finSeq, dataVars>>
          /\ \/ toClient' = Put(toClient, i, FinAck(RxSeqNumber[i])) \/ UNCHANGED toClient
          /\ peerState' = peerState \/ peerState' = [peerState EXCEPT ![i] = "CLOSED"]
      BY <1>2 DEF ProcessLastAck
    <2>2. FinAck(RxSeqNumber[i]) \in Answer /\ MayAnswer(i, FinAck(RxSeqNumber[i]))
      BY <2>1, FinAckAgain
    <2>3. /\ toClient' \in [Subflow -> Seq(Answer)]
          /\ \A j \in Subflow : \A q \in Packets(toClient'[j]) :
               q \in Packets(toClient[j]) \/ MayAnswer(j, q)
      BY <2>1, <2>2, AnswerPut, NoAnswer
    <2>4. /\ peerState' \in [Subflow -> PeerStates]
          /\ \A j \in Subflow : peerState'[j] = "LAST_ACK" => peerState[j] = "LAST_ACK"
      BY <1>1, <2>1 DEF PeerStates
    <2> QED BY <2>1, <2>3, <2>4
  <1>3. CASE PeerReset(i, p)
    <2>1. /\ peerState' = [j \in Subflow |-> IF peerState[j] = "NONE" THEN "NONE" ELSE "CLOSED"]
          /\ toClient' = Put(toClient, i, PeerRst) \/ UNCHANGED toClient
          /\ UNCHANGED <<finSeq, dataVars>>
      BY <1>3 DEF PeerReset
    <2>2. /\ peerState' \in [Subflow -> PeerStates]
          /\ \A j \in Subflow : peerState'[j] = "LAST_ACK" => peerState[j] = "LAST_ACK"
      BY <1>1, <2>1 DEF PeerStates
    <2>3. /\ toClient' \in [Subflow -> Seq(Answer)]
          /\ \A j \in Subflow : \A q \in Packets(toClient'[j]) :
               q \in Packets(toClient[j]) \/ MayAnswer(j, q)
      BY <1>5, <2>1, AnswerPut, NoAnswer
    <2> QED BY <2>1, <2>2, <2>3
  <1>4. CASE ReceivedClosed(i, p)
    <2>1. /\ UNCHANGED <<peerState, finSeq, dataVars>>
          /\ toClient' = Put(toClient, i, PeerRst) \/ UNCHANGED toClient
      BY <1>4 DEF ReceivedClosed
    <2>2. /\ toClient' \in [Subflow -> Seq(Answer)]
          /\ \A j \in Subflow : \A q \in Packets(toClient'[j]) :
               q \in Packets(toClient[j]) \/ MayAnswer(j, q)
      BY <1>5, <2>1, AnswerPut, NoAnswer
    <2> QED BY <1>1, <2>1, <2>2
  <1>6. CASE ProcessListen(i, p)
    <2>1. /\ peerState' = [peerState EXCEPT ![i] = "SYN_RCVD"]
          /\ toClient' = Put(toClient, i, SynAck) /\ UNCHANGED <<finSeq, dataVars>>
      BY <1>6 DEF ProcessListen
    <2>2. /\ peerState' \in [Subflow -> PeerStates]
          /\ \A j \in Subflow : peerState'[j] = "LAST_ACK" => peerState[j] = "LAST_ACK"
      BY <1>1, <2>1 DEF PeerStates
    <2>3. /\ toClient' \in [Subflow -> Seq(Answer)]
          /\ \A j \in Subflow : \A q \in Packets(toClient'[j]) :
               q \in Packets(toClient[j]) \/ MayAnswer(j, q)
      BY <1>5, <2>1, AnswerPut
    <2> QED BY <2>1, <2>2, <2>3
  <1>7. CASE ProcessSynRcvd(i, p)
    BY <1>7, EndHandshakeEffect, NoAnswer DEF ProcessSynRcvd
  <1> QED BY <1>2, <1>3, <1>4, <1>6, <1>7

LEMMA ServerReceiveKeeps ==
  ASSUME CloseInv, NEW i \in Subflow, ServerReceive(i)
  PROVE  CloseInv'
  <1> DEFINE p == Head(toServer[i])
  <1>1. TypeOK /\ toServer[i] # <<>> /\ toServer' = [toServer EXCEPT ![i] = Tail(@)]
        /\ UNCHANGED clientVars /\ UNCHANGED lost
    BY DEF ServerReceive, CloseInv
  <1>2. /\ toServer' \in [Subflow -> Seq(Packet)]
        /\ \A j \in Subflow : Packets(toServer'[j]) \subseteq Packets(toServer[j])
        /\ p \in Packets(toServer[i])
    BY <1>1, TailToServer
  <1>3. \/ ReceivedData(i, p) \/ PeerClose(i, p)
        \/ ProcessListen(i, p) \/ ProcessSynRcvd(i, p) \/ ProcessLastAck(i, p)
        \/ PeerReset(i, p) \/ ReceivedClosed(i, p)
    BY DEF ServerReceive
  <1>7. ProcessListen(i, p) \/ UNCHANGED cnCount
    BY DEF ServerReceive
  <1> HIDE DEF p
  <1>8. cnCount' \in [Subflow -> 0 .. CnRetries]
    <2>1. cnCount \in [Subflow -> 0 .. CnRetries] /\ CnRetries - 1 \in 0 .. CnRetries
      BY <1>1, Constants DEF TypeOK
    <2>2. CASE ProcessListen(i, p)
      BY <2>1, <2>2 DEF ProcessListen
    <2> QED BY <1>7, <2>1, <2>2
  <1>4. /\ \A j \in Subflow : PeerNext(j)
        /\ DataTypes
        /\ finSeq' \in [Subflow -> Nat] /\ peerState' \in [Subflow -> PeerStates]
        /\ toClient' \in [Subflow -> Seq(Answer)]
        /\ \A j \in Subflow : \A q \in Packets(toClient'[j]) :
             q \in Packets(toClient[j]) \/ MayAnswer(j, q)
    <2>1. CASE ReceivedData(i, p)
      BY <1>2, <2>1, ReceivedDataKeeps
    <2>2. CASE PeerClose(i, p)
      BY <1>2, <2>2, PeerCloseKeeps
    <2>3. CASE \/ ProcessListen(i, p) \/ ProcessSynRcvd(i, p) \/ ProcessLastAck(i, p)
               \/ PeerReset(i, p) \/ ReceivedClosed(i, p)
      <3>1. /\ UNCHANGED <<finSeq, dataVars>>
            /\ \A j \in Subflow : peerState'[j] = "LAST_ACK" => peerState[j] = "LAST_ACK"
            /\ peerState' \in [Subflow -> PeerStates]
            /\ toClient' \in [Subflow -> Seq(Answer)]
            /\ \A j \in Subflow : \A q \in Packets(toClient'[j]) :
                 q \in Packets(toClient[j]) \/ MayAnswer(j, q)
        BY <1>2, <2>3, OtherServerKeeps
      <3>2. /\ \A j \in Subflow : PeerNext(j)
            /\ \A u \in unOrdered' : u.seq <= Len(sent[u.sf])
            /\ finSeq' \in [Subflow -> Nat] /\ RxSeqNumber' \in [Subflow -> Nat]
            /\ nextRxSequence' \in Nat
            /\ unOrdered' \subseteq [sf : Subflow, seq : Nat, dsn : Nat]
        BY <3>1, DataStays
      <3> QED BY <3>1, <3>2 DEF DataTypes
    <2> QED BY <1>3, <2>1, <2>2, <2>3
  <1>5. PeerTypes
    BY <1>1, <1>2, <1>4, <1>8 DEF PeerTypes, DataTypes, TypeOK
  <1>6. \A u \in unOrdered' : u.seq <= Len(sent[u.sf])
    BY <1>4 DEF DataTypes
  <1> QED BY <1>1, <1>2, <1>4, <1>5, <1>6, PeerKeeps

\* A step that changes only what the server knows of its subflows' states and
\* the packets in flight.
LEMMA PeerStateKeeps ==
  ASSUME CloseInv, UNCHANGED <<clientVars, finSeq, dataVars>>,
         peerState' \in [Subflow -> PeerStates],
         \A j \in Subflow : peerState'[j] = "LAST_ACK" => peerState[j] = "LAST_ACK",
         toServer' \in [Subflow -> Seq(Packet)],
         \A j \in Subflow : Packets(toServer'[j]) \subseteq Packets(toServer[j]),
         toClient' \in [Subflow -> Seq(Answer)],
         \A j \in Subflow : \A q \in Packets(toClient'[j]) :
           q \in Packets(toClient[j]) \/ MayAnswer(j, q),
         cnCount' \in [Subflow -> 0 .. CnRetries], lost' \in 0 .. MaxLoss
  PROVE  CloseInv'
  <1>1. /\ \A j \in Subflow : PeerNext(j)
        /\ \A u \in unOrdered' : u.seq <= Len(sent[u.sf])
        /\ finSeq' \in [Subflow -> Nat] /\ RxSeqNumber' \in [Subflow -> Nat]
        /\ nextRxSequence' \in Nat
        /\ unOrdered' \subseteq [sf : Subflow, seq : Nat, dsn : Nat]
    BY DataStays
  <1>2. PeerTypes
    BY <1>1 DEF PeerTypes
  <1> QED BY <1>1, <1>2, PeerKeeps

LEMMA LastAckTimeoutKeeps ==
  ASSUME CloseInv, NEW i \in Subflow, LastAckTimeout(i)
  PROVE  CloseInv'
  <1>1. /\ peerState[i] = "LAST_ACK" /\ toClient' = Put(toClient, i, FinAck(RxSeqNumber[i]))
        /\ peerState' = [peerState EXCEPT ![i] = "CLOSED"]
        /\ UNCHANGED <<clientVars, cnCount, finSeq, dataVars, toServer, lost>>
    BY DEF LastAckTimeout, ResendFinAck
  <1>2. FinAck(RxSeqNumber[i]) \in Answer /\ MayAnswer(i, FinAck(RxSeqNumber[i]))
    BY <1>1, FinAckAgain
  <1>3. /\ toClient' \in [Subflow -> Seq(Answer)]
        /\ \A j \in Subflow : \A q \in Packets(toClient'[j]) :
             q \in Packets(toClient[j]) \/ MayAnswer(j, q)
    BY <1>1, <1>2, AnswerPut
  <1>4. /\ peerState' \in [Subflow -> PeerStates]
        /\ \A j \in Subflow : peerState'[j] = "LAST_ACK" => peerState[j] = "LAST_ACK"
    BY <1>1 DEF CloseInv, TypeOK, PeerStates
  <1>5. toServer' \in [Subflow -> Seq(Packet)] /\ lost' \in 0 .. MaxLoss
        /\ cnCount' \in [Subflow -> 0 .. CnRetries]
    BY <1>1 DEF CloseInv, TypeOK
  <1> QED BY <1>1, <1>3, <1>4, <1>5, PeerStateKeeps

LEMMA ResendSynAckKeeps ==
  ASSUME CloseInv, NEW i \in Subflow, ResendSynAck(i)
  PROVE  CloseInv'
  <1>1. peerState[i] = "SYN_RCVD" /\ UNCHANGED <<clientVars, finSeq, dataVars, toServer, lost>>
    BY DEF ResendSynAck
  <1>2. toServer' \in [Subflow -> Seq(Packet)] /\ lost' \in 0 .. MaxLoss
        /\ cnCount \in [Subflow -> 0 .. CnRetries] /\ peerState \in [Subflow -> PeerStates]
    BY <1>1 DEF CloseInv, TypeOK, PeerStates
  <1>3. CASE cnCount[i] > 0 /\ cnCount' = [cnCount EXCEPT ![i] = @ - 1]
             /\ toClient' = Put(toClient, i, SynAck) /\ UNCHANGED peerState
    <2>1. SynAck \in Answer /\ MayAnswer(i, SynAck)
      BY DEF SynAck, Answer, MayAnswer
    <2>2. /\ toClient' \in [Subflow -> Seq(Answer)]
          /\ \A j \in Subflow : \A q \in Packets(toClient'[j]) :
               q \in Packets(toClient[j]) \/ MayAnswer(j, q)
      BY <1>3, <2>1, AnswerPut
    <2>3. cnCount' \in [Subflow -> 0 .. CnRetries]
      BY <1>2, <1>3, Constants
    <2> QED BY <1>1, <1>2, <1>3, <2>2, <2>3, PeerStateKeeps
  <1>4. CASE peerState' = [peerState EXCEPT ![i] = "CLOSED"] /\ UNCHANGED <<cnCount, toClient>>
    <2>1. /\ peerState' \in [Subflow -> PeerStates]
          /\ \A j \in Subflow : peerState'[j] = "LAST_ACK" => peerState[j] = "LAST_ACK"
      BY <1>2, <1>4 DEF PeerStates
    <2> QED BY <1>1, <1>2, <1>4, <2>1, NoAnswer, PeerStateKeeps
  <1> QED BY <1>3, <1>4 DEF ResendSynAck

---------------------------------------------------------------------------
(* Losses.                                                                 *)

LEMMA LosePacketKeeps ==
  ASSUME CloseInv, NEW i \in Subflow, LosePacket(i)
  PROVE  CloseInv'
  <1>1. /\ lost < MaxLoss /\ lost' = lost + 1
        /\ UNCHANGED <<clientVars, serverVars>>
    BY DEF LosePacket
  <1>2. /\ peerState' \in [Subflow -> PeerStates] /\ lost' \in 0 .. MaxLoss
        /\ cnCount' \in [Subflow -> 0 .. CnRetries]
    <2>1. peerState' = peerState /\ cnCount' = cnCount
      BY <1>1 DEF serverVars
    <2>2. lost \in 0 .. MaxLoss
      BY DEF CloseInv, TypeOK
    <2>3. lost' \in 0 .. MaxLoss
      BY <1>1, <2>2, Constants
    <2> QED BY <2>1, <2>3 DEF CloseInv, TypeOK, PeerStates
  <1>3. /\ toServer \in [Subflow -> Seq(Packet)] /\ toClient \in [Subflow -> Seq(Answer)]
        /\ toServer[i] \in Seq(Packet) /\ toClient[i] \in Seq(Answer)
    BY DEF CloseInv, TypeOK
  <1>4. CASE \E k \in 1 .. Len(toServer[i]) :
               toServer' = [toServer EXCEPT ![i] = DropAt(@, k)] /\ UNCHANGED toClient
    <2>1. PICK k \in 1 .. Len(toServer[i]) :
            toServer' = [toServer EXCEPT ![i] = DropAt(@, k)] /\ UNCHANGED toClient
      BY <1>4
    <2>2. /\ DropAt(toServer[i], k) \in Seq(Packet)
          /\ Packets(DropAt(toServer[i], k)) \subseteq Packets(toServer[i])
      BY <1>3, DropPackets
    <2>3. /\ toServer' \in [Subflow -> Seq(Packet)]
          /\ \A j \in Subflow : toServer'[j] = IF j = i THEN DropAt(toServer[i], k) ELSE toServer[j]
      BY <1>3, <2>1, <2>2
    <2>4. \A j \in Subflow : Packets(toServer'[j]) \subseteq Packets(toServer[j])
      BY <2>2, <2>3
    <2> QED BY <1>1, <1>2, <2>1, <2>3, <2>4, NoAnswer, PeerStateKeeps DEF serverVars
  <1>5. CASE \E k \in 1 .. Len(toClient[i]) :
               toClient' = [toClient EXCEPT ![i] = DropAt(@, k)] /\ UNCHANGED toServer
    <2>1. PICK k \in 1 .. Len(toClient[i]) :
            toClient' = [toClient EXCEPT ![i] = DropAt(@, k)] /\ UNCHANGED toServer
      BY <1>5
    <2>2. /\ DropAt(toClient[i], k) \in Seq(Answer)
          /\ Packets(DropAt(toClient[i], k)) \subseteq Packets(toClient[i])
      BY <1>3, DropPackets
    <2>3. /\ toClient' \in [Subflow -> Seq(Answer)]
          /\ \A j \in Subflow : toClient'[j] = IF j = i THEN DropAt(toClient[i], k) ELSE toClient[j]
      BY <1>3, <2>1, <2>2
    <2>4. \A j \in Subflow : \A q \in Packets(toClient'[j]) : q \in Packets(toClient[j])
      BY <2>2, <2>3
    <2>5. toServer' \in [Subflow -> Seq(Packet)]
          /\ \A j \in Subflow : Packets(toServer'[j]) \subseteq Packets(toServer[j])
      BY <1>3, <2>1
    <2> QED BY <1>1, <1>2, <2>3, <2>4, <2>5, PeerStateKeeps DEF serverVars
  <1> QED BY <1>4, <1>5 DEF LosePacket

---------------------------------------------------------------------------
(* The theorems.                                                           *)

LEMMA NextCloseInv == CloseInv /\ [Next]_vars => CloseInv'
  <1> SUFFICES ASSUME CloseInv, [Next]_vars PROVE CloseInv'
    OBVIOUS
  <1>1. ASSUME UNCHANGED vars PROVE CloseInv'
    BY <1>1 DEF CloseInv, TypeOK, Counted, TimerCoversClose, ClosesInOrder,
       CloseNeverResets, FinIsLast, FinMeansAllReceived, FlightFits, Over, maxSeqNb,
       vars, clientVars, sendVars, closeVars, serverVars, dataVars, netVars
  <1>2. CASE Stop
    BY <1>1, <1>2 DEF Stop
  <1>3. CASE Sending
    BY <1>3, SendPendingDataKeeps, EndSendKeeps DEF Sending
  <1>4. CASE Close
    BY <1>4, CloseKeeps
  <1>5. CASE CloseMultipathConnection
    BY <1>5, CloseMultipathConnectionKeeps
  <1>6. ASSUME NEW i \in Subflow,
               \/ ScheduledDoClose(i) \/ ClientReceive(i) \/ ReTxTimeout(i)
               \/ ServerReceive(i) \/ LastAckTimeout(i) \/ ResendSynAck(i) \/ LosePacket(i)
        PROVE  CloseInv'
    BY <1>6, ScheduledDoCloseKeeps, ClientReceiveKeeps, ReTxTimeoutKeeps, ServerReceiveKeeps,
       LastAckTimeoutKeeps, ResendSynAckKeeps, LosePacketKeeps
  <1> QED BY <1>1, <1>2, <1>3, <1>4, <1>5, <1>6 DEF Next

\* The invariant holds whatever is lost and however the two ends' timers and
\* handlers interleave.
THEOREM CloseInvariant == Spec => []CloseInv
  BY InitCloseInv, NextCloseInv, PTL DEF Spec

\* Type correctness.
THEOREM TypeCorrect == Spec => []TypeOK
  <1>1. CloseInv => TypeOK
    BY DEF CloseInv
  <1> QED BY <1>1, CloseInvariant, PTL

\* A subflow that waits for an ACK, or for the answer to its FIN, has the one
\* retransmission event pending that it shares for both (ReTxTimeout, NewACK).
THEOREM CloseIsTimed == Spec => []TimerCoversClose
  <1>1. CloseInv => TimerCoversClose
    BY DEF CloseInv
  <1> QED BY <1>1, CloseInvariant, PTL

\* DoClose, called or scheduled, never resets a subflow, and none is left in
\* CLOSING, where every packet is ignored (DoClose, ProcessWait).
THEOREM CloseIsOrderly == Spec => []CloseNeverResets
  <1>1. CloseInv => CloseNeverResets
    BY DEF CloseInv
  <1> QED BY <1>1, CloseInvariant, PTL

\* The server answers a FIN with its own only when it has every segment that was
\* sent on the subflow (PeerClose, SetFinSequence, DoPeerClose).
THEOREM FinAnswersAll == Spec => []FinMeansAllReceived
  <1>1. CloseInv => FinMeansAllReceived
    BY DEF CloseInv
  <1> QED BY <1>1, CloseInvariant, PTL

=============================================================================
