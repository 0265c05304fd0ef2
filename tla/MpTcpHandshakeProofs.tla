------------------------ MODULE MpTcpHandshakeProofs ------------------------
(***************************************************************************)
(* Proofs about MpTcpHandshake, for any number of addresses at either end,  *)
(* any number of retries and any number of lost packets.                   *)
(***************************************************************************)
EXTENDS MpTcpHandshake, TLAPS

ToServer == {"SYN", "JOIN", "ACK", "ADDR", "DATA", "RST"}
ToClient == {"MPC", "SYNACK", "ACK", "ADDR", "RST"}

\* Joining begins when the server's addresses are there, and these come after
\* the first subflow is established.
JoinsComeLast ==
  /\ state[0] = "NONE" => cnCount = CnRetries
  /\ state[0] \in {"NONE", "SYN_SENT"} => mpRecvState = "NONE"
  /\ mpRecvState # "ADDR" => \A i \in Subflow \ {0} : state[i] = "NONE"

\* The client's subflows are closed together.
ClosedTogether ==
  \A i, j \in Subflow : state[j] = "CLOSED" => state[i] \in {"NONE", "CLOSED"}

\* A timer of the handshake runs only during the handshake.
TimersInHandshake ==
  /\ synTimer => state[0] = "SYN_SENT"
  /\ \A i \in Subflow : peerTimer[i] => peerState[i] = "SYN_RCVD"

\* What a packet on its way, or data once sent, tells of the ends.
PacketsMean ==
  \A i \in Subflow :
    /\ "ACK" \in Packets(toServer[i]) => state[i] \in {"ESTABLISHED", "CLOSED"}
    /\ "DATA" \in Packets(toServer[i]) => state[i] \in {"ESTABLISHED", "CLOSED"}
    /\ "RST" \in Packets(toServer[i]) => state[i] = "CLOSED"
    /\ "ACK" \in Packets(toClient[i]) =>
         peerState[i] = "ESTABLISHED" \/ state[i] = "CLOSED"
    /\ data[i] # "none" => state[i] \in {"ESTABLISHED", "CLOSED"}

\* The inductive invariant.
HandshakeInv ==
  /\ TypeOK /\ TimerCoversHandshake /\ NoPhantom /\ AckedIsEstablished
  /\ JoinsComeLast /\ ClosedTogether /\ TimersInHandshake /\ PacketsMean

\* What begins the handshake of a subflow, and what answers it.
Request(i) == IF i = 0 THEN "SYN" ELSE "JOIN"
Reply(i) == IF i = 0 THEN "MPC" ELSE "SYNACK"

\* How far the handshake of a subflow has come when nothing was lost: while
\* either end waits, the packet it waits for is on its way.
Unopened(i) ==
  state[i] = "NONE" /\ peerState[i] = "NONE" /\ toServer[i] = <<>> /\ toClient[i] = <<>>
Asked(i) ==
  /\ state[i] = "SYN_SENT" /\ peerState[i] = "NONE"
  /\ toServer[i] = <<Request(i)>> /\ toClient[i] = <<>>
Answered(i) ==
  /\ state[i] = "SYN_SENT" /\ peerState[i] = "SYN_RCVD"
  /\ toServer[i] = <<>> /\ toClient[i] = <<Reply(i)>>
Confirmed(i) ==
  /\ state[i] = "ESTABLISHED" /\ peerState[i] = "SYN_RCVD"
  /\ toServer[i] # <<>> /\ Head(toServer[i]) = "ACK"
Opened(i) == state[i] = "ESTABLISHED" /\ peerState[i] = "ESTABLISHED"

Stage(i) == Unopened(i) \/ Asked(i) \/ Answered(i) \/ Confirmed(i) \/ Opened(i)

\* The inductive invariant of a setup without loss.
Smooth ==
  /\ Running
  /\ \A i \in Subflow : Stage(i) /\ "RST" \notin Packets(toClient[i])

SmoothInv == lost = 0 /\ addrs >= NSub => Smooth

---------------------------------------------------------------------------
(* Channels.                                                               *)

LEMMA Constants ==
  /\ NSub \in Nat \ {0} /\ MaxAddrs \in Nat \ {0}
  /\ CnRetries \in Nat \ {0} /\ MaxLoss \in Nat /\ 0 \in Subflow
  BY HandshakeAssumption DEF Subflow

LEMMA NoPackets == Packets(<<>>) = {}
  BY DEF Packets

\* Appending adds one packet at most, and removing the head adds none.
LEMMA AppendPackets ==
  ASSUME NEW S, NEW s \in Seq(S), NEW p \in S
  PROVE  Append(s, p) \in Seq(S) /\ Packets(Append(s, p)) \subseteq Packets(s) \cup {p}
  <1>1. Append(s, p) \in Seq(S) /\ Len(Append(s, p)) = Len(s) + 1
    OBVIOUS
  <1>2. ASSUME NEW k \in 1 .. Len(s) + 1
        PROVE  Append(s, p)[k] \in Packets(s) \cup {p}
    <2>1. CASE k = Len(s) + 1
      BY <2>1
    <2>2. CASE k # Len(s) + 1
      <3>1. k \in 1 .. Len(s) /\ Append(s, p)[k] = s[k]
        BY <2>2
      <3> QED BY <3>1 DEF Packets
    <2> QED BY <2>1, <2>2
  <1> QED BY <1>1, <1>2 DEF Packets

LEMMA TailPackets ==
  ASSUME NEW S, NEW s \in Seq(S), s # <<>>
  PROVE  /\ Tail(s) \in Seq(S) /\ Packets(Tail(s)) \subseteq Packets(s)
         /\ Head(s) \in S /\ Head(s) \in Packets(s)
  <1>1. Tail(s) \in Seq(S) /\ Len(Tail(s)) = Len(s) - 1 /\ Head(s) = s[1] /\ Len(s) >= 1
    OBVIOUS
  <1>2. ASSUME NEW k \in 1 .. Len(s) - 1
        PROVE  Tail(s)[k] \in Packets(s)
    <2>1. Tail(s)[k] = s[k + 1] /\ k + 1 \in 1 .. Len(s)
      BY <1>1
    <2> QED BY <2>1 DEF Packets
  <1> QED BY <1>1, <1>2 DEF Packets

LEMMA PutPackets ==
  ASSUME NEW S, NEW ch \in [Subflow -> Seq(S)], NEW i \in Subflow, NEW p \in S
  PROVE  /\ Put(ch, i, p) \in [Subflow -> Seq(S)]
         /\ \A j \in Subflow : Packets(Put(ch, i, p)[j]) \subseteq
                                Packets(ch[j]) \cup (IF j = i THEN {p} ELSE {})
  <1>1. ASSUME NEW j \in Subflow
        PROVE  Put(ch, i, p)[j] = IF j = i THEN Append(ch[i], p) ELSE ch[j]
    BY DEF Put
  <1>2. Append(ch[i], p) \in Seq(S) /\ Packets(Append(ch[i], p)) \subseteq Packets(ch[i]) \cup {p}
    BY AppendPackets
  <1>3. Put(ch, i, p) \in [Subflow -> Seq(S)]
    BY <1>2 DEF Put
  <1> QED BY <1>1, <1>2, <1>3

LEMMA PopPackets ==
  ASSUME NEW S, NEW ch \in [Subflow -> Seq(S)], NEW i \in Subflow, ch[i] # <<>>
  PROVE  /\ Pop(ch, i) \in [Subflow -> Seq(S)]
         /\ \A j \in Subflow : Packets(Pop(ch, i)[j]) \subseteq Packets(ch[j])
         /\ Head(ch[i]) \in S /\ Head(ch[i]) \in Packets(ch[i])
  <1>1. ASSUME NEW j \in Subflow
        PROVE  Pop(ch, i)[j] = IF j = i THEN Tail(ch[i]) ELSE ch[j]
    BY DEF Pop
  <1>2. /\ Tail(ch[i]) \in Seq(S) /\ Packets(Tail(ch[i])) \subseteq Packets(ch[i])
        /\ Head(ch[i]) \in S /\ Head(ch[i]) \in Packets(ch[i])
    BY TailPackets
  <1>3. Pop(ch, i) \in [Subflow -> Seq(S)]
    BY <1>2 DEF Pop
  <1> QED BY <1>1, <1>2, <1>3

LEMMA PutTwoPackets ==
  ASSUME NEW S, NEW ch \in [Subflow -> Seq(S)], NEW i \in Subflow, NEW p \in S, NEW q \in S
  PROVE  /\ Put(Put(ch, i, p), i, q) \in [Subflow -> Seq(S)]
         /\ \A j \in Subflow : Packets(Put(Put(ch, i, p), i, q)[j]) \subseteq
                                Packets(ch[j]) \cup (IF j = i THEN {p, q} ELSE {})
  <1> DEFINE c == Put(ch, i, p)
  <1>1. /\ c \in [Subflow -> Seq(S)]
        /\ \A j \in Subflow : Packets(c[j]) \subseteq Packets(ch[j]) \cup (IF j = i THEN {p} ELSE {})
    BY PutPackets
  <1> HIDE DEF c
  <1>2. /\ Put(c, i, q) \in [Subflow -> Seq(S)]
        /\ \A j \in Subflow : Packets(Put(c, i, q)[j]) \subseteq Packets(c[j]) \cup (IF j = i THEN {q} ELSE {})
    BY <1>1, PutPackets
  <1>3. \A j \in Subflow : Packets(Put(c, i, q)[j]) \subseteq Packets(ch[j]) \cup (IF j = i THEN {p, q} ELSE {})
    BY <1>1, <1>2
  <1> QED BY <1>2, <1>3 DEF c

LEMMA PutToServer ==
  ASSUME TypeOK, NEW i \in Subflow, NEW p \in ToServer
  PROVE  /\ Put(toServer, i, p) \in [Subflow -> Seq(ToServer)]
         /\ \A j \in Subflow : Packets(Put(toServer, i, p)[j]) \subseteq
                                Packets(toServer[j]) \cup (IF j = i THEN {p} ELSE {})
  <1>1. toServer \in [Subflow -> Seq(ToServer)]
    BY DEF TypeOK, ToServer
  <1> QED BY <1>1, PutPackets

LEMMA PutTwoToServer ==
  ASSUME TypeOK, NEW i \in Subflow, NEW p \in ToServer, NEW q \in ToServer
  PROVE  /\ Put(Put(toServer, i, p), i, q) \in [Subflow -> Seq(ToServer)]
         /\ \A j \in Subflow : Packets(Put(Put(toServer, i, p), i, q)[j]) \subseteq
                                Packets(toServer[j]) \cup (IF j = i THEN {p, q} ELSE {})
  <1>1. toServer \in [Subflow -> Seq(ToServer)]
    BY DEF TypeOK, ToServer
  <1>2. \A ch \in [Subflow -> Seq(ToServer)] :
          /\ Put(Put(ch, i, p), i, q) \in [Subflow -> Seq(ToServer)]
          /\ \A j \in Subflow : Packets(Put(Put(ch, i, p), i, q)[j]) \subseteq
                                 Packets(ch[j]) \cup (IF j = i THEN {p, q} ELSE {})
    BY PutTwoPackets
  <1> QED BY <1>1, <1>2

LEMMA PutToClient ==
  ASSUME TypeOK, NEW i \in Subflow, NEW p \in ToClient
  PROVE  /\ Put(toClient, i, p) \in [Subflow -> Seq(ToClient)]
         /\ \A j \in Subflow : Packets(Put(toClient, i, p)[j]) \subseteq
                                Packets(toClient[j]) \cup (IF j = i THEN {p} ELSE {})
  <1>1. toClient \in [Subflow -> Seq(ToClient)]
    BY DEF TypeOK, ToClient
  <1> QED BY <1>1, PutPackets

LEMMA PopToClient ==
  ASSUME TypeOK, NEW i \in Subflow, toClient[i] # <<>>
  PROVE  /\ Pop(toClient, i) \in [Subflow -> Seq(ToClient)]
         /\ \A j \in Subflow : Packets(Pop(toClient, i)[j]) \subseteq Packets(toClient[j])
         /\ Head(toClient[i]) \in Packets(toClient[i])
  <1>1. toClient \in [Subflow -> Seq(ToClient)]
    BY DEF TypeOK, ToClient
  <1> QED BY <1>1, PopPackets

LEMMA PopToServer ==
  ASSUME TypeOK, NEW i \in Subflow, toServer[i] # <<>>
  PROVE  /\ Pop(toServer, i) \in [Subflow -> Seq(ToServer)]
         /\ \A j \in Subflow : Packets(Pop(toServer, i)[j]) \subseteq Packets(toServer[j])
         /\ Head(toServer[i]) \in Packets(toServer[i])
  <1>1. toServer \in [Subflow -> Seq(ToServer)]
    BY DEF TypeOK, ToServer
  <1> QED BY <1>1, PopPackets

---------------------------------------------------------------------------
(* The initial states and the client's steps.                              *)

LEMMA InitHandshakeInv == Init => HandshakeInv
  <1> SUFFICES ASSUME Init PROVE HandshakeInv
    OBVIOUS
  <1>1. TypeOK
    BY Constants DEF Init, TypeOK, Options
  <1>2. TimerCoversHandshake /\ NoPhantom /\ AckedIsEstablished
    BY Constants DEF Init, TimerCoversHandshake, NoPhantom, AckedIsEstablished
  <1>3. JoinsComeLast /\ ClosedTogether /\ TimersInHandshake
    BY Constants DEF Init, JoinsComeLast, ClosedTogether, TimersInHandshake
  <1>4. PacketsMean
    BY NoPackets DEF Init, PacketsMean
  <1> QED BY <1>1, <1>2, <1>3, <1>4 DEF HandshakeInv

LEMMA ConnectInv ==
  ASSUME HandshakeInv, Connect
  PROVE  HandshakeInv'
  <1> USE DEF HandshakeInv, Connect, peerVars
  <1>1. /\ toServer' \in [Subflow -> Seq(ToServer)]
        /\ \A j \in Subflow : Packets(toServer'[j]) \subseteq Packets(toServer[j]) \cup {"SYN"}
    <2>1. "SYN" \in ToServer
      BY DEF ToServer
    <2> QED BY <2>1, Constants, PutToServer
  <1>2. TypeOK'
    BY <1>1, Constants DEF TypeOK, Options, ToServer, JoinsComeLast
  <1>3. (TimerCoversHandshake /\ NoPhantom /\ AckedIsEstablished)'
    BY Constants DEF TypeOK, TimerCoversHandshake, NoPhantom, AckedIsEstablished
  <1>4. (JoinsComeLast /\ ClosedTogether /\ TimersInHandshake)'
    BY Constants DEF TypeOK, JoinsComeLast, ClosedTogether, TimersInHandshake
  <1>5. PacketsMean'
    BY <1>1, Constants DEF TypeOK, PacketsMean
  <1> QED BY <1>2, <1>3, <1>4, <1>5

LEMMA ResendSynInv ==
  ASSUME HandshakeInv, ResendSyn
  PROVE  HandshakeInv'
  <1> USE DEF HandshakeInv, peerVars
  <1>1. state[0] = "SYN_SENT" /\ UNCHANGED <<mpSendState, mpRecvState, data, peerVars, toClient, lost, aborted>>
    BY DEF ResendSyn, TimersInHandshake
  <1>2. CASE cnCount > 0 /\ cnCount' = cnCount - 1 /\ synTimer' = TRUE /\ UNCHANGED state
             /\ toServer' = Put(toServer, 0, "SYN")
    <2>1. /\ toServer' \in [Subflow -> Seq(ToServer)]
          /\ \A j \in Subflow : Packets(toServer'[j]) \subseteq Packets(toServer[j]) \cup {"SYN"}
      <3>1. "SYN" \in ToServer
        BY DEF ToServer
      <3> QED BY <1>2, <3>1, Constants, PutToServer
    <2>2. TypeOK'
      BY <1>1, <1>2, <2>1, Constants DEF TypeOK, ToServer
    <2>3. (TimerCoversHandshake /\ NoPhantom /\ AckedIsEstablished)'
      BY <1>1, <1>2 DEF TimerCoversHandshake, NoPhantom, AckedIsEstablished
    <2>4. (JoinsComeLast /\ ClosedTogether /\ TimersInHandshake)'
      BY <1>1, <1>2 DEF JoinsComeLast, ClosedTogether, TimersInHandshake
    <2>5. PacketsMean'
      BY <1>1, <1>2, <2>1 DEF PacketsMean
    <2> QED BY <2>2, <2>3, <2>4, <2>5
  <1>3. CASE cnCount = 0 /\ synTimer' = FALSE /\ state' = [state EXCEPT ![0] = "CLOSED"]
             /\ UNCHANGED <<cnCount, toServer>>
    <2>1. TypeOK'
      BY <1>1, <1>3, Constants DEF TypeOK
    <2>2. \A i \in Subflow \ {0} : state[i] = "NONE" /\ state'[i] = "NONE"
      BY <1>1, <1>3 DEF JoinsComeLast, TypeOK
    <2>3. state'[0] = "CLOSED" /\ state'[0] # "SYN_SENT"
      BY <1>3, Constants DEF TypeOK
    <2>4. (TimerCoversHandshake /\ NoPhantom /\ AckedIsEstablished)'
      BY <1>1, <2>2, <2>3 DEF TimerCoversHandshake, NoPhantom, AckedIsEstablished
    <2>5. (JoinsComeLast /\ ClosedTogether /\ TimersInHandshake)'
      BY <1>1, <1>3, <2>2, <2>3 DEF JoinsComeLast, ClosedTogether, TimersInHandshake
    <2>6. PacketsMean'
      BY <1>1, <1>3, <2>2, <2>3 DEF PacketsMean
    <2> QED BY <2>1, <2>4, <2>5, <2>6
  <1> QED BY <1>2, <1>3 DEF ResendSyn, SetsSynTimer

---------------------------------------------------------------------------
(* Packets arriving at the client.                                         *)

\* A packet p was taken from subflow i of the client.
Taken(i, p) ==
  /\ toClient' \in [Subflow -> Seq(ToClient)]
  /\ \A j \in Subflow : Packets(toClient'[j]) \subseteq Packets(toClient[j])
  /\ p \in Packets(toClient[i])
  /\ UNCHANGED <<cnCount, peerVars, lost>>

LEMMA MasterInv ==
  ASSUME HandshakeInv, NEW p, Taken(0, p), ProcessSynSentMaster(p)
  PROVE  HandshakeInv'
  <1> USE DEF HandshakeInv, Taken, peerVars
  <1>1. state' = [state EXCEPT ![0] = "ESTABLISHED"] /\ synTimer' = FALSE /\ state[0] = "SYN_SENT"
        /\ UNCHANGED data
    BY DEF ProcessSynSentMaster
  <1>2. mpRecvState = "NONE" /\ mpRecvState' \in {"NONE", "MPC"}
    BY <1>1 DEF ProcessSynSentMaster, ReadCapable, JoinsComeLast
  <1>3. /\ toServer' \in [Subflow -> Seq(ToServer)]
        /\ \A j \in Subflow : Packets(toServer'[j]) \subseteq
                               Packets(toServer[j]) \cup (IF j = 0 THEN {"ACK", "ADDR"} ELSE {})
    <2>1. "ACK" \in ToServer /\ "ADDR" \in ToServer
      BY DEF ToServer
    <2>2. /\ Put(toServer, 0, "ACK") \in [Subflow -> Seq(ToServer)]
          /\ \A j \in Subflow : Packets(Put(toServer, 0, "ACK")[j]) \subseteq
                                 Packets(toServer[j]) \cup (IF j = 0 THEN {"ACK"} ELSE {})
      BY <2>1, Constants, PutToServer
    <2>3. /\ Put(Put(toServer, 0, "ACK"), 0, "ADDR") \in [Subflow -> Seq(ToServer)]
          /\ \A j \in Subflow : Packets(Put(Put(toServer, 0, "ACK"), 0, "ADDR")[j]) \subseteq
                 Packets(toServer[j]) \cup (IF j = 0 THEN {"ACK", "ADDR"} ELSE {})
      BY <2>1, Constants, PutTwoToServer
    <2>4. toServer' \in {Put(toServer, 0, "ACK"), Put(Put(toServer, 0, "ACK"), 0, "ADDR")}
      BY DEF ProcessSynSentMaster
    <2> QED BY <2>2, <2>3, <2>4
  <1>4. TypeOK'
    <2>1. mpSendState' \in Options /\ aborted' \in {"no", "notMultipath", "outOfRange"}
      BY DEF ProcessSynSentMaster, TypeOK, Options
    <2> QED BY <1>1, <1>2, <1>3, <2>1, Constants DEF TypeOK, Options, ToServer, ToClient
  <1>5. /\ state'[0] = "ESTABLISHED"
        /\ \A j \in Subflow \ {0} : state'[j] = "NONE" /\ state[j] = "NONE"
    BY <1>1, <1>2, Constants DEF TypeOK, JoinsComeLast
  <1>6. (TimerCoversHandshake /\ NoPhantom /\ AckedIsEstablished)'
    BY <1>1, <1>5 DEF TimerCoversHandshake, NoPhantom, AckedIsEstablished, PacketsMean
  <1>7. (JoinsComeLast /\ ClosedTogether /\ TimersInHandshake)'
    BY <1>1, <1>2, <1>5 DEF JoinsComeLast, ClosedTogether, TimersInHandshake
  <1>8. PacketsMean'
    BY <1>1, <1>3, <1>5 DEF PacketsMean
  <1> QED BY <1>4, <1>6, <1>7, <1>8

LEMMA JoinedInv ==
  ASSUME HandshakeInv, NEW i \in Subflow, NEW p, Taken(i, p), ProcessSynSentJoin(i, p)
  PROVE  HandshakeInv'
  <1> USE DEF HandshakeInv, Taken, peerVars, ProcessSynSentJoin
  <1>1. /\ toServer' \in [Subflow -> Seq(ToServer)]
        /\ \A j \in Subflow : Packets(toServer'[j]) \subseteq
                               Packets(toServer[j]) \cup (IF j = i THEN {"ACK"} ELSE {})
    <2>1. "ACK" \in ToServer
      BY DEF ToServer
    <2> QED BY <2>1, PutToServer
  <1>2. TypeOK'
    BY <1>1 DEF TypeOK, ToServer, ToClient
  <1>3. /\ state'[i] = "ESTABLISHED" /\ i # 0 /\ state[i] = "SYN_SENT"
        /\ \A j \in Subflow \ {i} : state'[j] = state[j]
    BY DEF TypeOK
  <1>4. (TimerCoversHandshake /\ NoPhantom /\ AckedIsEstablished)'
    BY <1>3, Constants DEF TimerCoversHandshake, NoPhantom, AckedIsEstablished, PacketsMean
  <1>5. mpRecvState = "ADDR" /\ \A j \in Subflow : state[j] # "CLOSED"
    BY <1>3 DEF JoinsComeLast, ClosedTogether
  <1>6. (JoinsComeLast /\ ClosedTogether /\ TimersInHandshake)'
    BY <1>3, <1>5, Constants DEF JoinsComeLast, ClosedTogether, TimersInHandshake
  <1>7. PacketsMean'
    BY <1>1, <1>3 DEF PacketsMean
  <1> QED BY <1>2, <1>4, <1>6, <1>7

LEMMA InitiateSubflowsInv ==
  ASSUME HandshakeInv, NEW p, Taken(0, p), InitiateSubflows(p)
  PROVE  HandshakeInv'
  <1> USE DEF HandshakeInv, Taken, peerVars
  <1>1. /\ state[0] = "ESTABLISHED" /\ mpRecvState = "MPC" /\ mpRecvState' = "ADDR"
        /\ UNCHANGED <<synTimer, mpSendState, data>>
    BY DEF InitiateSubflows
  <1>2. \A j \in Subflow \ {0} : state[j] = "NONE"
    BY <1>1 DEF JoinsComeLast
  <1>3. CASE aborted' = "outOfRange" /\ UNCHANGED <<state, toServer>>
    <2>1. TypeOK'
      BY <1>1, <1>3 DEF TypeOK, Options, ToClient
    <2>2. (TimerCoversHandshake /\ NoPhantom /\ AckedIsEstablished)'
      BY <1>1, <1>3 DEF TimerCoversHandshake, NoPhantom, AckedIsEstablished
    <2>3. (JoinsComeLast /\ ClosedTogether /\ TimersInHandshake)'
      BY <1>1, <1>3 DEF JoinsComeLast, ClosedTogether, TimersInHandshake
    <2>4. PacketsMean'
      BY <1>1, <1>3 DEF PacketsMean
    <2> QED BY <2>1, <2>2, <2>3, <2>4
  <1>4. CASE /\ state' = [i \in Subflow |-> IF i = 0 THEN state[0] ELSE "SYN_SENT"]
             /\ toServer' = [i \in Subflow |-> IF i = 0 THEN toServer[0]
                                               ELSE Append(toServer[i], "JOIN")]
             /\ UNCHANGED aborted
    <2>1. ASSUME NEW j \in Subflow
          PROVE  toServer'[j] \in Seq(ToServer) /\ Packets(toServer'[j]) \subseteq Packets(toServer[j]) \cup {"JOIN"}
      <3>1. "JOIN" \in ToServer /\ toServer[j] \in Seq(ToServer)
        BY DEF TypeOK, ToServer
      <3>2. toServer'[j] = IF j = 0 THEN toServer[0] ELSE Append(toServer[j], "JOIN")
        BY <1>4
      <3>3. CASE j = 0  BY <3>1, <3>2, <3>3
      <3>4. CASE j # 0  BY <3>1, <3>2, <3>4, AppendPackets
      <3> QED BY <3>3, <3>4
    <2>2. toServer' \in [Subflow -> Seq(ToServer)]
      BY <2>1, <1>4
    <2>3. TypeOK'
      BY <1>1, <1>4, <2>2, Constants DEF TypeOK, Options, ToServer, ToClient
    <2>4. state'[0] = "ESTABLISHED" /\ \A j \in Subflow \ {0} : state'[j] = "SYN_SENT"
      BY <1>1, <1>4, Constants
    <2>5. (TimerCoversHandshake /\ NoPhantom /\ AckedIsEstablished)'
      BY <1>1, <1>2, <2>4 DEF TimerCoversHandshake, NoPhantom, AckedIsEstablished, PacketsMean
    <2>6. (JoinsComeLast /\ ClosedTogether /\ TimersInHandshake)'
      BY <1>1, <2>4 DEF JoinsComeLast, ClosedTogether, TimersInHandshake
    <2>7. PacketsMean'
      BY <1>1, <1>2, <2>1, <2>4 DEF PacketsMean, NoPhantom
    <2> QED BY <2>3, <2>5, <2>6, <2>7
  <1> QED BY <1>3, <1>4 DEF InitiateSubflows

LEMMA ReceivedAckInv ==
  ASSUME HandshakeInv, NEW i \in Subflow, NEW p, Taken(i, p), ReceivedAck(i, p)
  PROVE  HandshakeInv'
  <1> USE DEF HandshakeInv, Taken, peerVars, ReceivedAck
  <1>1. TypeOK'
    BY DEF TypeOK, ToClient
  <1>2. \A j \in Subflow \ {i} : data'[j] = data[j]
    BY DEF TypeOK
  <1>3. data'[i] = data[i] \/ (data'[i] = "acked" /\ peerState[i] = "ESTABLISHED")
    BY DEF TypeOK, PacketsMean
  <1>4. (TimerCoversHandshake /\ NoPhantom /\ AckedIsEstablished)'
    BY <1>2, <1>3 DEF TimerCoversHandshake, NoPhantom, AckedIsEstablished
  <1>5. (JoinsComeLast /\ ClosedTogether /\ TimersInHandshake)'
    BY DEF JoinsComeLast, ClosedTogether, TimersInHandshake
  <1>6. PacketsMean'
    BY <1>2 DEF PacketsMean
  <1> QED BY <1>1, <1>4, <1>5, <1>6

LEMMA ClientResetInv ==
  ASSUME HandshakeInv, NEW i \in Subflow, NEW p, Taken(i, p), CloseAndNotifyAllSubflows(i, p)
  PROVE  HandshakeInv'
  <1> USE DEF HandshakeInv, Taken, peerVars, CloseAndNotifyAllSubflows
  <1>1. TypeOK'
    BY DEF TypeOK, ToClient
  <1>2. \A j \in Subflow : state'[j] = IF state[j] = "NONE" THEN "NONE" ELSE "CLOSED"
    OBVIOUS
  <1>3. (TimerCoversHandshake /\ NoPhantom /\ AckedIsEstablished)'
    BY <1>2, Constants DEF TimerCoversHandshake, NoPhantom, AckedIsEstablished
  <1>4. (JoinsComeLast /\ ClosedTogether /\ TimersInHandshake)'
    BY <1>2, Constants DEF JoinsComeLast, ClosedTogether, TimersInHandshake
  <1>5. PacketsMean'
    BY <1>2 DEF PacketsMean
  <1> QED BY <1>1, <1>3, <1>4, <1>5

LEMMA NoEndPointInv ==
  ASSUME HandshakeInv, NEW i \in Subflow, NEW p, Taken(i, p), NoEndPoint(i, p)
  PROVE  HandshakeInv'
  <1> USE DEF HandshakeInv, Taken, peerVars, NoEndPoint
  <1>1. /\ toServer' \in [Subflow -> Seq(ToServer)]
        /\ \A j \in Subflow : Packets(toServer'[j]) \subseteq
                               Packets(toServer[j]) \cup (IF j = i THEN {"RST"} ELSE {})
    <2>1. "RST" \in ToServer /\ toServer \in [Subflow -> Seq(ToServer)]
      BY DEF ToServer, TypeOK
    <2> QED BY <2>1, PutToServer
  <1>2. TypeOK'
    BY <1>1 DEF TypeOK, ToServer, ToClient
  <1>3. (TimerCoversHandshake /\ NoPhantom /\ AckedIsEstablished)'
    BY DEF TimerCoversHandshake, NoPhantom, AckedIsEstablished
  <1>4. (JoinsComeLast /\ ClosedTogether /\ TimersInHandshake)'
    BY DEF JoinsComeLast, ClosedTogether, TimersInHandshake
  <1>5. PacketsMean'
    BY <1>1 DEF PacketsMean
  <1> QED BY <1>2, <1>3, <1>4, <1>5

LEMMA ClientReceiveInv ==
  ASSUME HandshakeInv, NEW i \in Subflow, ClientReceive(i)
  PROVE  HandshakeInv'
  <1> DEFINE p == Head(toClient[i])
  <1>1. Taken(i, p)
    <2>1. TypeOK /\ toClient[i] # <<>> /\ toClient' = Pop(toClient, i)
      BY DEF HandshakeInv, ClientReceive
    <2>2. UNCHANGED <<cnCount, peerVars, lost>>
      BY DEF ClientReceive
    <2> QED BY <2>1, <2>2, PopToClient DEF Taken
  <1>2. \/ i = 0 /\ (ProcessSynSentMaster(p) \/ InitiateSubflows(p))
        \/ ProcessSynSentJoin(i, p) \/ ReceivedAck(i, p)
        \/ CloseAndNotifyAllSubflows(i, p) \/ NoEndPoint(i, p)
    BY DEF ClientReceive
  <1> HIDE DEF p
  <1> QED BY <1>1, <1>2, MasterInv, InitiateSubflowsInv, JoinedInv, ReceivedAckInv,
             ClientResetInv, NoEndPointInv

LEMMA SendDataInv ==
  ASSUME HandshakeInv, NEW i \in Subflow, SendData(i)
  PROVE  HandshakeInv'
  <1> USE DEF HandshakeInv, SendData, peerVars
  <1>1. /\ toServer' \in [Subflow -> Seq(ToServer)]
        /\ \A j \in Subflow : Packets(toServer'[j]) \subseteq
                               Packets(toServer[j]) \cup (IF j = i THEN {"DATA"} ELSE {})
    <2>1. "DATA" \in ToServer
      BY DEF ToServer
    <2> QED BY <2>1, PutToServer
  <1>2. TypeOK'
    BY <1>1 DEF TypeOK, ToServer
  <1>3. data'[i] = "sent" /\ \A j \in Subflow \ {i} : data'[j] = data[j]
    BY DEF TypeOK
  <1>4. (TimerCoversHandshake /\ NoPhantom /\ AckedIsEstablished)'
    BY <1>3 DEF TimerCoversHandshake, NoPhantom, AckedIsEstablished
  <1>5. (JoinsComeLast /\ ClosedTogether /\ TimersInHandshake)'
    BY DEF JoinsComeLast, ClosedTogether, TimersInHandshake
  <1>6. PacketsMean'
    BY <1>1, <1>3 DEF PacketsMean
  <1> QED BY <1>2, <1>4, <1>5, <1>6

---------------------------------------------------------------------------
(* Packets arriving at the server.                                         *)

\* A packet p was taken from subflow i of the server.
Received(i, p) ==
  /\ toServer' \in [Subflow -> Seq(ToServer)]
  /\ \A j \in Subflow : Packets(toServer'[j]) \subseteq Packets(toServer[j])
  /\ p \in Packets(toServer[i])
  /\ UNCHANGED <<clientVars, addrs, lost, aborted>>

\* The server's answer on subflow i.
Answers(i, p) ==
  /\ toClient' \in [Subflow -> Seq(ToClient)]
  /\ \A j \in Subflow : Packets(toClient'[j]) \subseteq
                         Packets(toClient[j]) \cup (IF j = i THEN {p} ELSE {})

LEMMA AnswerPackets ==
  ASSUME TypeOK, NEW i \in Subflow, NEW p \in ToClient,
         toClient' = Put(toClient, i, p) \/ UNCHANGED toClient
  PROVE  Answers(i, p)
  <1>1. CASE UNCHANGED toClient
    BY <1>1 DEF TypeOK, ToClient, Answers
  <1>2. CASE toClient' = Put(toClient, i, p)
    BY <1>2, PutToClient DEF Answers
  <1> QED BY <1>1, <1>2

LEMMA ForkInv ==
  ASSUME HandshakeInv, NEW i \in Subflow, NEW p, Received(i, p), Fork(i, p)
  PROVE  HandshakeInv'
  <1> USE DEF HandshakeInv
  <1>1. UNCHANGED <<clientVars, addrs, lost, aborted>>
    BY DEF Received
  <1>2. Answers(i, "MPC")
    BY AnswerPackets DEF ToClient, Fork
  <1>3. TypeOK'
    BY <1>1, <1>2, Constants
    DEF TypeOK, Options, Answers, ToServer, ToClient, Received, Fork, clientVars
  <1>4. \A j \in Subflow : peerState[j] # "ESTABLISHED"
    BY DEF Fork, Gone
  <1>5. \A j \in Subflow : \/ peerState'[j] = "SYN_RCVD" /\ peerTimer'[j] = TRUE
                           \/ peerState'[j] = "NONE" /\ peerTimer'[j] = FALSE
    BY DEF Fork
  <1>6. (TimerCoversHandshake /\ NoPhantom)'
    BY <1>1, <1>5 DEF TimerCoversHandshake, NoPhantom, clientVars
  <1>7. AckedIsEstablished'
    BY <1>1, <1>4 DEF AckedIsEstablished, clientVars
  <1>8. (JoinsComeLast /\ ClosedTogether /\ TimersInHandshake)'
    BY <1>1, <1>5 DEF JoinsComeLast, ClosedTogether, TimersInHandshake, clientVars
  <1>9. PacketsMean'
    <2>1. ASSUME NEW j \in Subflow
          PROVE  /\ Packets(toServer'[j]) \subseteq Packets(toServer[j])
                 /\ "ACK" \in Packets(toClient'[j]) => "ACK" \in Packets(toClient[j])
      BY <1>2 DEF Received, Answers
    <2>2. ASSUME NEW j \in Subflow, "ACK" \in Packets(toClient'[j])
          PROVE  state'[j] = "CLOSED"
      BY <1>1, <1>4, <2>1, <2>2 DEF PacketsMean, clientVars
    <2> QED BY <1>1, <2>1, <2>2 DEF PacketsMean, clientVars
  <1> QED BY <1>3, <1>6, <1>7, <1>8, <1>9

LEMMA IgnoresInv ==
  ASSUME HandshakeInv, NEW i \in Subflow, NEW p, Received(i, p), Ignores(i, p)
  PROVE  HandshakeInv'
  <1> USE DEF HandshakeInv, Received, clientVars, Ignores
  <1>1. TypeOK'
    BY DEF TypeOK, ToServer
  <1>2. (TimerCoversHandshake /\ NoPhantom /\ AckedIsEstablished)'
    BY DEF TimerCoversHandshake, NoPhantom, AckedIsEstablished
  <1>3. (JoinsComeLast /\ ClosedTogether /\ TimersInHandshake)'
    BY DEF JoinsComeLast, ClosedTogether, TimersInHandshake
  <1>4. PacketsMean'
    BY DEF PacketsMean
  <1> QED BY <1>1, <1>2, <1>3, <1>4

\* From the timer and for another SYN alike.
LEMMA ResendSynAckInv ==
  ASSUME HandshakeInv, NEW i \in Subflow, peerState[i] = "SYN_RCVD", ResendSynAck(i),
         toServer' \in [Subflow -> Seq(ToServer)],
         \A j \in Subflow : Packets(toServer'[j]) \subseteq Packets(toServer[j]),
         UNCHANGED <<clientVars, addrs, lost, aborted>>
  PROVE  HandshakeInv'
  <1> USE DEF HandshakeInv, clientVars
  <1>1. Answers(i, "SYNACK")
    BY AnswerPackets DEF ToClient, ResendSynAck
  <1>2. TypeOK'
    <2>1. peerCount' \in [Subflow -> 0 .. CnRetries]
      <3>1. peerCount \in [Subflow -> 0 .. CnRetries] /\ CnRetries \in Nat
        BY Constants DEF TypeOK
      <3>2. CASE peerCount[i] = 0
        BY <3>1, <3>2 DEF ResendSynAck
      <3>3. CASE peerCount[i] # 0 /\ peerCount' = [peerCount EXCEPT ![i] = @ - 1]
        <4>1. peerCount[i] - 1 \in 0 .. CnRetries
          BY <3>1, <3>3
        <4> QED BY <3>1, <3>3, <4>1
      <3> QED BY <3>2, <3>3 DEF ResendSynAck
    <2>2. /\ peerState' \in [Subflow -> {"NONE", "SYN_RCVD", "ESTABLISHED", "CLOSED"}]
          /\ peerTimer' \in [Subflow -> BOOLEAN] /\ peerSend' \in Options /\ peerRecv' \in Options
      BY DEF TypeOK, ResendSynAck
    <2> QED BY <1>1, <2>1, <2>2 DEF TypeOK, Answers, ToServer, ToClient
  <1>3. \A j \in Subflow :
          \/ peerState'[j] = peerState[j] /\ peerTimer'[j] = peerTimer[j]
          \/ j = i /\ peerState'[j] = "CLOSED" /\ peerTimer'[j] = FALSE
    BY DEF TypeOK, ResendSynAck
  <1>4. (TimerCoversHandshake /\ NoPhantom /\ AckedIsEstablished)'
    BY <1>3 DEF TimerCoversHandshake, NoPhantom, AckedIsEstablished
  <1>5. (JoinsComeLast /\ ClosedTogether /\ TimersInHandshake)'
    BY <1>3 DEF JoinsComeLast, ClosedTogether, TimersInHandshake
  <1>6. PacketsMean'
    <2>1. \A j \in Subflow : "ACK" \in Packets(toClient'[j]) => "ACK" \in Packets(toClient[j])
      BY <1>1 DEF Answers
    <2> QED BY <1>3, <2>1 DEF PacketsMean
  <1> QED BY <1>2, <1>4, <1>5, <1>6

LEMMA JoinInv ==
  ASSUME HandshakeInv, NEW i \in Subflow, NEW p, Received(i, p), Join(i, p)
  PROVE  HandshakeInv'
  <1> USE DEF HandshakeInv, Received, clientVars, Join, JoinState
  <1>1. Answers(i, "SYNACK")
    BY AnswerPackets DEF ToClient
  <1>2. TypeOK'
    BY <1>1, Constants DEF TypeOK, Answers, ToServer, ToClient
  <1>3. \A j \in Subflow :
          \/ peerState'[j] = peerState[j] /\ peerTimer'[j] = peerTimer[j]
          \/ j = i /\ peerState'[j] = "SYN_RCVD" /\ peerTimer'[j] = TRUE
    BY DEF TypeOK
  <1>4. (TimerCoversHandshake /\ NoPhantom /\ AckedIsEstablished)'
    BY <1>3 DEF TimerCoversHandshake, NoPhantom, AckedIsEstablished
  <1>5. (JoinsComeLast /\ ClosedTogether /\ TimersInHandshake)'
    BY <1>3 DEF JoinsComeLast, ClosedTogether, TimersInHandshake
  <1>6. PacketsMean'
    <2>1. \A j \in Subflow : "ACK" \in Packets(toClient'[j]) => "ACK" \in Packets(toClient[j])
      BY <1>1 DEF Answers
    <2>2. \A j \in Subflow : peerState[j] = "ESTABLISHED" => peerState'[j] = "ESTABLISHED"
      BY <1>3
    <2> QED BY <2>1, <2>2 DEF PacketsMean
  <1> QED BY <1>2, <1>4, <1>5, <1>6

LEMMA AdvertiseInv ==
  ASSUME HandshakeInv, NEW i \in Subflow, NEW p, Received(i, p), AdvertiseAvailableAddresses(i, p)
  PROVE  HandshakeInv'
  <1> USE DEF HandshakeInv, Received, clientVars, AdvertiseAvailableAddresses
  <1>1. Answers(i, "ADDR")
    BY AnswerPackets DEF ToClient
  <1>2. TypeOK'
    BY <1>1 DEF TypeOK, Options, Answers, ToServer, ToClient
  <1>3. (TimerCoversHandshake /\ NoPhantom /\ AckedIsEstablished)'
    BY DEF TimerCoversHandshake, NoPhantom, AckedIsEstablished
  <1>4. (JoinsComeLast /\ ClosedTogether /\ TimersInHandshake)'
    BY DEF JoinsComeLast, ClosedTogether, TimersInHandshake
  <1>5. PacketsMean'
    BY <1>1 DEF PacketsMean, Answers
  <1> QED BY <1>2, <1>3, <1>4, <1>5

LEMMA ProcessAckOrDataInv ==
  ASSUME HandshakeInv, NEW i \in Subflow, NEW p, Received(i, p), ProcessAckOrData(i, p)
  PROVE  HandshakeInv'
  <1> USE DEF HandshakeInv, Received, clientVars, ProcessAckOrData, EndsHandshake
  <1>1. Answers(i, "ACK")
    BY AnswerPackets DEF ToClient
  <1>2. TypeOK'
    BY <1>1 DEF TypeOK, Answers, ToServer, ToClient
  <1>3. /\ peerState'[i] = "ESTABLISHED" /\ peerTimer'[i] = FALSE
        /\ \A j \in Subflow \ {i} : peerState'[j] = peerState[j] /\ peerTimer'[j] = peerTimer[j]
    BY DEF TypeOK
  <1>4. state[i] \in {"ESTABLISHED", "CLOSED"}
    BY DEF PacketsMean
  <1>5. (TimerCoversHandshake /\ NoPhantom /\ AckedIsEstablished)'
    BY <1>3, <1>4 DEF TimerCoversHandshake, NoPhantom, AckedIsEstablished
  <1>6. (JoinsComeLast /\ ClosedTogether /\ TimersInHandshake)'
    BY <1>3 DEF JoinsComeLast, ClosedTogether, TimersInHandshake
  <1>7. PacketsMean'
    BY <1>1, <1>3 DEF PacketsMean, Answers
  <1> QED BY <1>2, <1>5, <1>6, <1>7

LEMMA PeerResetInv ==
  ASSUME HandshakeInv, NEW i \in Subflow, NEW p, Received(i, p), PeerReset(i, p)
  PROVE  HandshakeInv'
  <1> USE DEF HandshakeInv, Received, clientVars, PeerReset
  <1>1. TypeOK'
    BY DEF TypeOK, ToServer
  <1>2. \A j \in Subflow : peerState'[j] \in {"NONE", "CLOSED"} /\ peerTimer'[j] = FALSE
    OBVIOUS
  <1>3. \A j \in Subflow : state[j] \in {"NONE", "CLOSED"}
    BY DEF PacketsMean, ClosedTogether
  <1>4. (TimerCoversHandshake /\ NoPhantom /\ AckedIsEstablished)'
    BY <1>2, <1>3 DEF TimerCoversHandshake, NoPhantom, AckedIsEstablished, PacketsMean
  <1>5. (JoinsComeLast /\ ClosedTogether /\ TimersInHandshake)'
    BY <1>2 DEF JoinsComeLast, ClosedTogether, TimersInHandshake
  <1>6. PacketsMean'
    BY <1>2, <1>3 DEF PacketsMean, NoPhantom
  <1> QED BY <1>1, <1>4, <1>5, <1>6

LEMMA ClosedMasterInv ==
  ASSUME HandshakeInv, NEW i \in Subflow, NEW p, Received(i, p), ClosedMaster(i, p)
  PROVE  HandshakeInv'
  <1> USE DEF HandshakeInv, Received, clientVars, ClosedMaster
  <1>1. Answers(0, "RST")
    BY AnswerPackets, Constants DEF ToClient
  <1>2. TypeOK'
    BY <1>1 DEF TypeOK, Answers, ToServer, ToClient
  <1>3. (TimerCoversHandshake /\ NoPhantom /\ AckedIsEstablished)'
    BY DEF TimerCoversHandshake, NoPhantom, AckedIsEstablished
  <1>4. (JoinsComeLast /\ ClosedTogether /\ TimersInHandshake)'
    BY DEF JoinsComeLast, ClosedTogether, TimersInHandshake
  <1>5. PacketsMean'
    BY <1>1 DEF PacketsMean, Answers
  <1> QED BY <1>2, <1>3, <1>4, <1>5

LEMMA ServerReceiveInv ==
  ASSUME HandshakeInv, NEW i \in Subflow, ServerReceive(i)
  PROVE  HandshakeInv'
  <1> DEFINE p == Head(toServer[i])
  <1>1. Received(i, p)
    <2>1. TypeOK /\ toServer[i] # <<>> /\ toServer' = Pop(toServer, i)
      BY DEF HandshakeInv, ServerReceive
    <2>2. UNCHANGED <<clientVars, addrs, lost, aborted>>
      BY DEF ServerReceive
    <2> QED BY <2>1, <2>2, PopToServer DEF Received
  <1>2. \/ Fork(i, p) \/ Ignores(i, p) \/ AnotherSyn(i, p) \/ Join(i, p)
        \/ AdvertiseAvailableAddresses(i, p) \/ ProcessAckOrData(i, p)
        \/ PeerReset(i, p) \/ ClosedMaster(i, p)
    BY DEF ServerReceive
  <1> HIDE DEF p
  <1>3. CASE AnotherSyn(i, p)
    BY <1>1, <1>3, ResendSynAckInv DEF AnotherSyn, Received
  <1> QED BY <1>1, <1>2, <1>3, ForkInv, IgnoresInv, JoinInv, AdvertiseInv,
             ProcessAckOrDataInv, PeerResetInv, ClosedMasterInv

LEMMA PeerTimeoutInv ==
  ASSUME HandshakeInv, NEW i \in Subflow, PeerTimeout(i)
  PROVE  HandshakeInv'
  <1>1. peerState[i] = "SYN_RCVD"
    BY DEF PeerTimeout, HandshakeInv, TimersInHandshake
  <1>2. /\ toServer' \in [Subflow -> Seq(ToServer)]
        /\ \A j \in Subflow : Packets(toServer'[j]) \subseteq Packets(toServer[j])
    BY DEF PeerTimeout, HandshakeInv, TypeOK, ToServer
  <1> QED BY <1>1, <1>2, ResendSynAckInv DEF PeerTimeout

LEMMA LoseInv ==
  ASSUME HandshakeInv, NEW i \in Subflow, Lose(i)
  PROVE  HandshakeInv'
  <1> USE DEF HandshakeInv, clientVars, peerVars
  <1>1. /\ lost' = lost + 1 /\ UNCHANGED <<clientVars, peerVars, aborted>>
    BY DEF Lose
  <1>2. /\ toServer' \in [Subflow -> Seq(ToServer)] /\ toClient' \in [Subflow -> Seq(ToClient)]
        /\ \A j \in Subflow : /\ Packets(toServer'[j]) \subseteq Packets(toServer[j])
                              /\ Packets(toClient'[j]) \subseteq Packets(toClient[j])
    <2>1. toServer \in [Subflow -> Seq(ToServer)] /\ toClient \in [Subflow -> Seq(ToClient)]
      BY DEF TypeOK, ToServer, ToClient
    <2>2. CASE toServer[i] # <<>> /\ toServer' = Pop(toServer, i) /\ UNCHANGED toClient
      BY <2>1, <2>2, PopToServer
    <2>3. CASE toClient[i] # <<>> /\ toClient' = Pop(toClient, i) /\ UNCHANGED toServer
      BY <2>1, <2>3, PopToClient
    <2> QED BY <2>2, <2>3 DEF Lose
  <1>3. TypeOK'
    BY <1>1, <1>2 DEF TypeOK, ToServer, ToClient
  <1>4. (TimerCoversHandshake /\ NoPhantom /\ AckedIsEstablished)'
    BY <1>1 DEF TimerCoversHandshake, NoPhantom, AckedIsEstablished
  <1>5. (JoinsComeLast /\ ClosedTogether /\ TimersInHandshake)'
    BY <1>1 DEF JoinsComeLast, ClosedTogether, TimersInHandshake
  <1>6. PacketsMean'
    BY <1>1, <1>2 DEF PacketsMean
  <1> QED BY <1>3, <1>4, <1>5, <1>6

---------------------------------------------------------------------------
(* The theorems.                                                           *)

LEMMA StutterInv == HandshakeInv /\ UNCHANGED vars => HandshakeInv'
  BY DEF HandshakeInv, vars, clientVars, peerVars, TypeOK, TimerCoversHandshake, NoPhantom,
         AckedIsEstablished, JoinsComeLast, ClosedTogether, TimersInHandshake, PacketsMean

LEMMA NextInv == HandshakeInv /\ [Next]_vars => HandshakeInv'
  <1> SUFFICES ASSUME HandshakeInv, [Next]_vars PROVE HandshakeInv'
    OBVIOUS
  <1>1. CASE UNCHANGED vars
    BY <1>1, StutterInv
  <1>2. CASE Connect
    BY <1>2, ConnectInv
  <1>3. CASE ResendSyn
    BY <1>3, ResendSynInv
  <1>4. CASE \E i \in Subflow : \/ ClientReceive(i) \/ SendData(i)
                                \/ ServerReceive(i) \/ PeerTimeout(i) \/ Lose(i)
    BY <1>4, ClientReceiveInv, SendDataInv, ServerReceiveInv, PeerTimeoutInv, LoseInv
  <1> QED BY <1>1, <1>2, <1>3, <1>4 DEF Next

\* The inductive invariant holds in every reachable state: what SYN, SYN+ACK,
\* ACK, data and reset mean while they are on their way (ProcessSynSent,
\* ProcessSynRcvd, CloseAndNotifyAllSubflows).
THEOREM HandshakeInvariant == Spec => []HandshakeInv
  BY InitHandshakeInv, NextInv, PTL DEF Spec

\* Every variable keeps its type; the retries never count below zero.
THEOREM TypeCorrect == Spec => []TypeOK
  <1>1. HandshakeInv => TypeOK
    BY DEF HandshakeInv
  <1> QED BY <1>1, HandshakeInvariant, PTL

\* Whatever is lost, an end that waits for an answer of the handshake has its
\* timer (SendEmptyPacket), except a joining client.
THEOREM WaitsAreTimed == Spec => []TimerCoversHandshake
  <1>1. HandshakeInv => TimerCoversHandshake
    BY DEF HandshakeInv
  <1> QED BY <1>1, HandshakeInvariant, PTL

\* The server holds a subflow for established only if the client established
\* it (ProcessSynRcvd).
THEOREM NoPhantomSubflow == Spec => []NoPhantom
  <1>1. HandshakeInv => NoPhantom
    BY DEF HandshakeInv
  <1> QED BY <1>1, HandshakeInvariant, PTL

\* Acknowledged data is on a subflow the server holds for established, until
\* the connection is reset.
THEOREM AcknowledgedStays == Spec => []AckedIsEstablished
  <1>1. HandshakeInv => AckedIsEstablished
    BY DEF HandshakeInv
  <1> QED BY <1>1, HandshakeInvariant, PTL

---------------------------------------------------------------------------
(* A setup without loss.                                                    *)

LEMMA InitSmooth == Init => Smooth
  BY NoPackets DEF Init, Smooth, Running, Stage, Unopened

\* Only subflow i has moved.
LEMMA OnlyOneMoves ==
  ASSUME Smooth, NEW i \in Subflow, UNCHANGED aborted,
         \A j \in Subflow \ {i} :
           /\ state'[j] = state[j] /\ peerState'[j] = peerState[j]
           /\ toServer'[j] = toServer[j] /\ toClient'[j] = toClient[j],
         Stage(i)', "RST" \notin Packets(toClient'[i])
  PROVE  Smooth'
  <1>1. ASSUME NEW j \in Subflow \ {i} PROVE Stage(j)' /\ "RST" \notin Packets(toClient'[j])
    BY <1>1 DEF Smooth, Stage, Unopened, Asked, Answered, Confirmed, Opened, Request, Reply, Packets
  <1> QED BY <1>1 DEF Smooth, Running

\* A timer of the handshake never finds its subflow quiet.
LEMMA WaitingIsNotQuiet ==
  ASSUME Smooth, NEW i \in Subflow, state[i] = "SYN_SENT" \/ peerState[i] = "SYN_RCVD"
  PROVE  ~Quiet(i)
  <1>1. Asked(i) \/ Answered(i) \/ Confirmed(i)
    BY DEF Smooth, Stage, Unopened, Opened
  <1> QED BY <1>1 DEF Asked, Answered, Confirmed, Quiet

\* A channel between its ends.
LEMMA PutGet ==
  ASSUME NEW S, NEW ch \in [Subflow -> Seq(S)], NEW i \in Subflow, NEW p \in S
  PROVE  /\ Put(ch, i, p)[i] = Append(ch[i], p) /\ Put(ch, i, p) \in [Subflow -> Seq(S)]
         /\ \A j \in Subflow \ {i} : Put(ch, i, p)[j] = ch[j]
         /\ Put(ch, i, p)[i] # <<>>
         /\ Head(Put(ch, i, p)[i]) = IF ch[i] = <<>> THEN p ELSE Head(ch[i])
  <1>1. /\ Put(ch, i, p)[i] = Append(ch[i], p)
        /\ \A j \in Subflow \ {i} : Put(ch, i, p)[j] = ch[j]
    BY DEF Put
  <1>2. Append(ch[i], p) # <<>> /\ Append(ch[i], p) \in Seq(S)
    OBVIOUS
  <1>3. CASE ch[i] = <<>>
    BY <1>1, <1>2, <1>3, PutPackets
  <1>4. CASE ch[i] # <<>>
    <2>1. Head(Append(ch[i], p)) = Head(ch[i])
      BY <1>4
    <2> QED BY <1>1, <1>2, <1>4, <2>1, PutPackets
  <1> QED BY <1>3, <1>4

LEMMA OnePacket ==
  ASSUME NEW p
  PROVE  Append(<<>>, p) = <<p>> /\ Tail(<<p>>) = <<>> /\ Head(<<p>>) = p /\ <<p>> # <<>>
  OBVIOUS

LEMMA ServerGets ==
  ASSUME TypeOK, NEW i \in Subflow, NEW p \in ToServer
  PROVE  /\ \A j \in Subflow \ {i} : Put(toServer, i, p)[j] = toServer[j]
         /\ Put(toServer, i, p)[i] # <<>>
         /\ Head(Put(toServer, i, p)[i]) = IF toServer[i] = <<>> THEN p ELSE Head(toServer[i])
         /\ toServer[i] = <<>> => Put(toServer, i, p)[i] = <<p>>
  <1>1. toServer \in [Subflow -> Seq(ToServer)]
    BY DEF TypeOK, ToServer
  <1>2. \A ch \in [Subflow -> Seq(ToServer)] :
          /\ \A j \in Subflow \ {i} : Put(ch, i, p)[j] = ch[j]
          /\ Put(ch, i, p)[i] # <<>>
          /\ Head(Put(ch, i, p)[i]) = IF ch[i] = <<>> THEN p ELSE Head(ch[i])
          /\ Put(ch, i, p)[i] = Append(ch[i], p)
    BY PutGet
  <1> QED BY <1>1, <1>2, OnePacket

LEMMA ClientGets ==
  ASSUME TypeOK, NEW i \in Subflow, NEW p \in ToClient
  PROVE  /\ \A j \in Subflow \ {i} : Put(toClient, i, p)[j] = toClient[j]
         /\ toClient[i] = <<>> => Put(toClient, i, p)[i] = <<p>>
  <1>1. toClient \in [Subflow -> Seq(ToClient)]
    BY DEF TypeOK, ToClient
  <1>2. \A ch \in [Subflow -> Seq(ToClient)] :
          /\ \A j \in Subflow \ {i} : Put(ch, i, p)[j] = ch[j]
          /\ Put(ch, i, p)[i] = Append(ch[i], p)
    BY PutGet
  <1> QED BY <1>1, <1>2, OnePacket

LEMMA ServerTakes ==
  ASSUME TypeOK, NEW i \in Subflow, toServer[i] # <<>>
  PROVE  /\ Pop(toServer, i)[i] = Tail(toServer[i])
         /\ \A j \in Subflow \ {i} : Pop(toServer, i)[j] = toServer[j]
  <1>1. toServer \in [Subflow -> Seq(ToServer)]
    BY DEF TypeOK, ToServer
  <1>2. ASSUME NEW j \in Subflow
        PROVE  Pop(toServer, i)[j] = IF j = i THEN Tail(toServer[i]) ELSE toServer[j]
    BY <1>1 DEF Pop
  <1> QED BY <1>2

LEMMA ClientTakes ==
  ASSUME TypeOK, NEW i \in Subflow, toClient[i] # <<>>
  PROVE  /\ Pop(toClient, i)[i] = Tail(toClient[i])
         /\ \A j \in Subflow \ {i} : Pop(toClient, i)[j] = toClient[j]
  <1>1. toClient \in [Subflow -> Seq(ToClient)]
    BY DEF TypeOK, ToClient
  <1>2. ASSUME NEW j \in Subflow
        PROVE  Pop(toClient, i)[j] = IF j = i THEN Tail(toClient[i]) ELSE toClient[j]
    BY <1>1 DEF Pop
  <1> QED BY <1>2

LEMMA ConnectSmooth ==
  ASSUME HandshakeInv, Smooth, Connect
  PROVE  Smooth'
  <1> USE DEF Connect, peerVars
  <1>1. TypeOK /\ toServer \in [Subflow -> Seq(ToServer)] /\ "SYN" \in ToServer
    BY DEF HandshakeInv, TypeOK, ToServer
  <1>2. Unopened(0) /\ "RST" \notin Packets(toClient[0])
    BY Constants DEF Smooth, Stage, Asked, Answered, Confirmed, Opened
  <1>3. /\ toServer'[0] = <<"SYN">> /\ state'[0] = "SYN_SENT"
        /\ \A j \in Subflow \ {0} : toServer'[j] = toServer[j] /\ state'[j] = state[j]
    <2>1. /\ toServer'[0] = <<"SYN">>
          /\ \A j \in Subflow \ {0} : toServer'[j] = toServer[j]
      BY <1>1, <1>2, ServerGets, Constants DEF Unopened
    <2> QED BY <1>1, <2>1, Constants DEF TypeOK
  <1>4. Asked(0)'
    BY <1>2, <1>3 DEF Unopened, Asked, Request
  <1> QED BY <1>2, <1>3, <1>4, OnlyOneMoves, Constants DEF Stage

\* The SYN+ACK of the first subflow says MP_CAPABLE, so the program goes on.
LEMMA MasterSmooth ==
  ASSUME HandshakeInv, Smooth, toClient[0] # <<>>, toClient' = Pop(toClient, 0),
         UNCHANGED peerVars, ProcessSynSentMaster(Head(toClient[0]))
  PROVE  Smooth'
  <1>1. /\ TypeOK /\ toServer \in [Subflow -> Seq(ToServer)]
        /\ toClient \in [Subflow -> Seq(ToClient)] /\ {"ACK", "ADDR"} \subseteq ToServer
    BY DEF HandshakeInv, TypeOK, ToServer, ToClient
  <1>2. state[0] = "SYN_SENT" /\ state' = [state EXCEPT ![0] = "ESTABLISHED"]
    BY DEF ProcessSynSentMaster
  <1>3. Answered(0)
    BY <1>2, Constants DEF Smooth, Stage, Unopened, Asked, Confirmed, Opened
  <1>4. /\ Head(toClient[0]) = "MPC" /\ toClient'[0] = <<>>
        /\ \A j \in Subflow \ {0} : toClient'[j] = toClient[j]
    BY <1>1, <1>3, ClientTakes, OnePacket, Constants DEF Answered, Reply
  <1>5. UNCHANGED aborted /\ toServer' = Put(Put(toServer, 0, "ACK"), 0, "ADDR")
    <2>1. mpRecvState = "NONE"
      BY <1>2 DEF HandshakeInv, JoinsComeLast
    <2> QED BY <1>4, <2>1 DEF ProcessSynSentMaster, ReadCapable
  <1>6. /\ toServer'[0] # <<>> /\ Head(toServer'[0]) = "ACK"
        /\ \A j \in Subflow \ {0} : toServer'[j] = toServer[j]
    <2> DEFINE c == Put(toServer, 0, "ACK")
    <2>1. /\ c \in [Subflow -> Seq(ToServer)] /\ c[0] = <<"ACK">>
          /\ \A j \in Subflow \ {0} : c[j] = toServer[j]
      <3>1. c \in [Subflow -> Seq(ToServer)]
        BY <1>1, PutToServer, Constants
      <3> QED BY <1>1, <1>3, <3>1, ServerGets, Constants DEF Answered
    <2>2. c[0] # <<>> /\ Head(c[0]) = "ACK"
      BY <2>1, OnePacket
    <2> HIDE DEF c
    <2>3. /\ Put(c, 0, "ADDR")[0] # <<>> /\ Head(Put(c, 0, "ADDR")[0]) = "ACK"
          /\ \A j \in Subflow \ {0} : Put(c, 0, "ADDR")[j] = c[j]
      <3>1. "ADDR" \in ToServer
        BY <1>1
      <3>2. \A ch \in [Subflow -> Seq(ToServer)] :
              /\ \A j \in Subflow \ {0} : Put(ch, 0, "ADDR")[j] = ch[j]
              /\ Put(ch, 0, "ADDR")[0] # <<>>
              /\ Head(Put(ch, 0, "ADDR")[0]) = IF ch[0] = <<>> THEN "ADDR" ELSE Head(ch[0])
        BY <3>1, PutGet, Constants
      <3> QED BY <2>1, <2>2, <3>2
    <2> QED BY <1>5, <2>1, <2>3 DEF c
  <1>7. /\ state'[0] = "ESTABLISHED" /\ UNCHANGED peerState
        /\ \A j \in Subflow \ {0} : state'[j] = state[j]
    BY <1>1, <1>2, Constants DEF TypeOK, peerVars
  <1>8. Confirmed(0)'
    BY <1>3, <1>6, <1>7 DEF Answered, Confirmed
  <1>9. "RST" \notin Packets(toClient'[0])
    BY <1>4, NoPackets
  <1> QED BY <1>4, <1>5, <1>6, <1>7, <1>8, <1>9, OnlyOneMoves, Constants DEF Stage

LEMMA JoinedSmooth ==
  ASSUME HandshakeInv, Smooth, NEW i \in Subflow, toClient[i] # <<>>,
         toClient' = Pop(toClient, i), UNCHANGED peerVars,
         ProcessSynSentJoin(i, Head(toClient[i]))
  PROVE  Smooth'
  <1> USE DEF ProcessSynSentJoin
  <1>1. /\ TypeOK /\ toServer \in [Subflow -> Seq(ToServer)]
        /\ toClient \in [Subflow -> Seq(ToClient)] /\ "ACK" \in ToServer
    BY DEF HandshakeInv, TypeOK, ToServer, ToClient
  <1>2. Answered(i)
    BY DEF Smooth, Stage, Unopened, Asked, Confirmed, Opened
  <1>3. toClient'[i] = <<>> /\ \A j \in Subflow \ {i} : toClient'[j] = toClient[j]
    BY <1>1, <1>2, ClientTakes, OnePacket DEF Answered
  <1>4. /\ toServer'[i] # <<>> /\ Head(toServer'[i]) = "ACK"
        /\ \A j \in Subflow \ {i} : toServer'[j] = toServer[j]
    BY <1>1, <1>2, ServerGets DEF Answered
  <1>5. /\ state'[i] = "ESTABLISHED" /\ UNCHANGED peerState
        /\ \A j \in Subflow \ {i} : state'[j] = state[j]
    BY <1>1 DEF TypeOK, peerVars
  <1>6. Confirmed(i)'
    BY <1>2, <1>4, <1>5 DEF Answered, Confirmed
  <1>7. "RST" \notin Packets(toClient'[i])
    BY <1>3, NoPackets
  <1> QED BY <1>3, <1>4, <1>5, <1>6, <1>7, OnlyOneMoves DEF Stage

\* There is an address for every subflow, and none was opened before.
LEMMA InitiateSmooth ==
  ASSUME HandshakeInv, Smooth, addrs >= NSub, toClient[0] # <<>>,
         toClient' = Pop(toClient, 0), UNCHANGED peerVars,
         InitiateSubflows(Head(toClient[0]))
  PROVE  Smooth'
  <1>1. /\ TypeOK /\ toServer \in [Subflow -> Seq(ToServer)]
        /\ toClient \in [Subflow -> Seq(ToClient)] /\ NSub \in Nat /\ addrs \in Int
    BY Constants DEF HandshakeInv, TypeOK, ToServer, ToClient
  <1>2. ~OutOfRange
    BY <1>1 DEF OutOfRange
  <1>3. /\ state[0] = "ESTABLISHED" /\ mpRecvState = "MPC" /\ UNCHANGED <<aborted, peerState>>
        /\ state' = [i \in Subflow |-> IF i = 0 THEN state[0] ELSE "SYN_SENT"]
        /\ toServer' = [i \in Subflow |-> IF i = 0 THEN toServer[0]
                                          ELSE Append(toServer[i], "JOIN")]
    BY <1>2 DEF InitiateSubflows, peerVars
  <1>4. /\ \A j \in Subflow : Packets(toClient'[j]) \subseteq Packets(toClient[j])
        /\ \A j \in Subflow \ {0} : toClient'[j] = toClient[j]
    BY <1>1, PopToClient, ClientTakes, Constants
  <1>5. Stage(0)'
    <2>1. Confirmed(0) \/ Opened(0)
      BY <1>3, Constants DEF Smooth, Stage, Unopened, Asked, Answered
    <2> QED BY <1>3, <2>1, Constants DEF Stage, Confirmed, Opened
  <1>6. ASSUME NEW j \in Subflow \ {0} PROVE Stage(j)'
    <2>1. Unopened(j)
      <3>1. state[j] = "NONE"
        BY <1>3 DEF HandshakeInv, JoinsComeLast
      <3> QED BY <3>1 DEF Smooth, Stage, Asked, Answered, Confirmed, Opened
    <2>2. toServer'[j] = <<"JOIN">>
      BY <1>3, <2>1, OnePacket DEF Unopened
    <2>3. Asked(j)'
      BY <1>3, <1>4, <2>1, <2>2 DEF Unopened, Asked, Request
    <2> QED BY <2>3 DEF Stage
  <1> QED BY <1>3, <1>4, <1>5, <1>6 DEF Smooth, Running

LEMMA ClientReceiveSmooth ==
  ASSUME HandshakeInv, Smooth, addrs >= NSub, NEW i \in Subflow, ClientReceive(i)
  PROVE  Smooth'
  <1> DEFINE p == Head(toClient[i])
  <1>1. toClient[i] # <<>> /\ toClient' = Pop(toClient, i) /\ UNCHANGED peerVars
    BY DEF ClientReceive
  <1>2. \/ i = 0 /\ (ProcessSynSentMaster(p) \/ InitiateSubflows(p))
        \/ ProcessSynSentJoin(i, p) \/ ReceivedAck(i, p)
        \/ CloseAndNotifyAllSubflows(i, p) \/ NoEndPoint(i, p)
    BY DEF ClientReceive
  <1>3. /\ toClient \in [Subflow -> Seq(ToClient)]
        /\ \A j \in Subflow : Packets(toClient'[j]) \subseteq Packets(toClient[j])
        /\ \A j \in Subflow \ {i} : toClient'[j] = toClient[j]
        /\ p \in Packets(toClient[i])
    <2>1. TypeOK /\ toClient \in [Subflow -> Seq(ToClient)]
      BY DEF HandshakeInv, TypeOK, ToClient
    <2> QED BY <1>1, <2>1, PopToClient, ClientTakes
  <1>4. p # "RST" /\ state[i] # "CLOSED"
    BY <1>3 DEF Smooth, Stage, Unopened, Asked, Answered, Confirmed, Opened
  <1> HIDE DEF p
  <1>5. CASE ReceivedAck(i, p)
    <2>1. UNCHANGED <<state, peerState, toServer, aborted>> /\ state[i] = "ESTABLISHED"
      BY <1>1, <1>5 DEF ReceivedAck, peerVars
    <2>2. Stage(i)'
      BY <2>1 DEF Smooth, Stage, Unopened, Asked, Answered, Confirmed, Opened
    <2> QED BY <1>3, <2>1, <2>2, OnlyOneMoves DEF Smooth
  <1>6. ~CloseAndNotifyAllSubflows(i, p) /\ ~NoEndPoint(i, p)
    BY <1>4 DEF CloseAndNotifyAllSubflows, NoEndPoint
  <1> QED BY <1>1, <1>2, <1>5, <1>6, MasterSmooth, InitiateSmooth, JoinedSmooth DEF p

LEMMA SendDataSmooth ==
  ASSUME HandshakeInv, Smooth, NEW i \in Subflow, SendData(i)
  PROVE  Smooth'
  <1> USE DEF SendData, peerVars
  <1>1. TypeOK /\ "DATA" \in ToServer
    BY DEF HandshakeInv, ToServer
  <1>2. /\ toServer'[i] # <<>>
        /\ Head(toServer'[i]) = IF toServer[i] = <<>> THEN "DATA" ELSE Head(toServer[i])
        /\ \A j \in Subflow \ {i} : toServer'[j] = toServer[j]
    BY <1>1, ServerGets
  <1>3. Stage(i)'
    BY <1>2 DEF Smooth, Stage, Unopened, Asked, Answered, Confirmed, Opened
  <1> QED BY <1>2, <1>3, OnlyOneMoves DEF Smooth

\* Once the first subflow of the client is established, and so before any join
\* leaves, the server holds the connection.
LEMMA JoinsFindTheConnection ==
  ASSUME HandshakeInv, Smooth, NEW i \in Subflow, state[i] = "ESTABLISHED" \/ (i # 0 /\ Asked(i))
  PROVE  ~Gone
  <1>1. state[0] = "ESTABLISHED" \/ (i # 0 => FALSE)
    <2>1. CASE i # 0
      <3>1. state[i] # "NONE"
        BY DEF Asked
      <3>2. mpRecvState = "ADDR"
        BY <2>1, <3>1 DEF HandshakeInv, JoinsComeLast
      <3>3. state[0] \notin {"NONE", "SYN_SENT"}
        BY <3>2 DEF HandshakeInv, JoinsComeLast
      <3> QED BY <3>3, Constants DEF Smooth, Stage, Unopened, Asked, Answered, Confirmed, Opened
    <2> QED BY <2>1
  <1>2. state[0] = "ESTABLISHED"
    BY <1>1
  <1>3. Confirmed(0) \/ Opened(0)
    BY <1>2, Constants DEF Smooth, Stage, Unopened, Asked, Answered
  <1> QED BY <1>3, Constants DEF Gone, Confirmed, Opened

\* What the server takes from a subflow, by how far its handshake has come.
LEMMA WhatArrives ==
  ASSUME HandshakeInv, Smooth, NEW i \in Subflow, toServer[i] # <<>>
  PROVE  /\ Asked(i) \/ Confirmed(i) \/ Opened(i)
         /\ Asked(i) => Head(toServer[i]) = Request(i)
         /\ Confirmed(i) => Head(toServer[i]) = "ACK"
         /\ Head(toServer[i]) # "RST"
         /\ ~(Asked(i) /\ i = 0) => ~Gone
         /\ \A j \in Subflow : peerState[j] # "CLOSED"
  <1>1. Asked(i) \/ Confirmed(i) \/ Opened(i)
    BY DEF Smooth, Stage, Unopened, Answered
  <1>2. Asked(i) => Head(toServer[i]) = Request(i)
    BY DEF Asked
  <1>3. Confirmed(i) => Head(toServer[i]) = "ACK"
    BY DEF Confirmed
  <1>4. Head(toServer[i]) # "RST"
    <2>1. TypeOK
      BY DEF HandshakeInv
    <2>2. Head(toServer[i]) \in Packets(toServer[i])
      BY <2>1, PopToServer
    <2>3. state[i] # "CLOSED"
      BY <1>1 DEF Asked, Confirmed, Opened
    <2> QED BY <2>2, <2>3 DEF HandshakeInv, PacketsMean
  <1>5. ~(Asked(i) /\ i = 0) => ~Gone
    BY <1>1, JoinsFindTheConnection DEF Confirmed, Opened
  <1>6. \A j \in Subflow : peerState[j] # "CLOSED"
    BY DEF Smooth, Stage, Unopened, Asked, Answered, Confirmed, Opened
  <1> QED BY <1>1, <1>2, <1>3, <1>4, <1>5, <1>6

\* The first packet of a subflow finds the server unopened and is answered.
LEMMA AnsweredSmooth ==
  ASSUME HandshakeInv, Smooth, NEW i \in Subflow, Asked(i),
         toServer' = Pop(toServer, i), toClient' = Put(toClient, i, Reply(i)),
         peerState'[i] = "SYN_RCVD", UNCHANGED <<state, aborted>>,
         \A j \in Subflow \ {i} : peerState'[j] = peerState[j]
  PROVE  Smooth'
  <1>1. TypeOK /\ Reply(i) \in ToClient /\ Reply(i) # "RST"
    BY DEF HandshakeInv, ToClient, Reply
  <1>2. /\ toServer'[i] = <<>> /\ toClient'[i] = <<Reply(i)>>
        /\ \A j \in Subflow \ {i} : toServer'[j] = toServer[j] /\ toClient'[j] = toClient[j]
    BY <1>1, ClientGets, ServerTakes, OnePacket DEF Asked
  <1>3. "RST" \notin Packets(toClient'[i])
    BY <1>1, <1>2 DEF Packets
  <1>4. Answered(i)'
    BY <1>2 DEF Asked, Answered, Reply
  <1> QED BY <1>2, <1>3, <1>4, OnlyOneMoves DEF Stage

\* A subflow both ends hold for established stays so.
LEMMA OpenedSmooth ==
  ASSUME HandshakeInv, Smooth, NEW i \in Subflow, state[i] = "ESTABLISHED",
         toServer[i] # <<>>, toServer' = Pop(toServer, i), NEW p \in ToClient \ {"RST"},
         toClient' = Put(toClient, i, p) \/ UNCHANGED toClient,
         peerState'[i] = "ESTABLISHED", UNCHANGED <<state, aborted>>,
         \A j \in Subflow \ {i} : peerState'[j] = peerState[j]
  PROVE  Smooth'
  <1>1. TypeOK
    BY DEF HandshakeInv
  <1>2. \A j \in Subflow \ {i} : toServer'[j] = toServer[j] /\ toClient'[j] = toClient[j]
    BY <1>1, ClientGets, ServerTakes
  <1>3. "RST" \notin Packets(toClient'[i])
    <2>1. Answers(i, p)
      BY <1>1, AnswerPackets
    <2> QED BY <2>1 DEF Answers, Smooth
  <1>4. Opened(i)'
    BY DEF Opened
  <1> QED BY <1>2, <1>3, <1>4, OnlyOneMoves DEF Stage

LEMMA ServerReceiveSmooth ==
  ASSUME HandshakeInv, Smooth, NEW i \in Subflow, ServerReceive(i)
  PROVE  Smooth'
  <1> DEFINE p == Head(toServer[i])
  <1>1. /\ toServer[i] # <<>> /\ toServer' = Pop(toServer, i) /\ UNCHANGED <<state, aborted>>
        /\ TypeOK
    BY DEF ServerReceive, clientVars, HandshakeInv
  <1>2. \/ Fork(i, p) \/ Ignores(i, p) \/ AnotherSyn(i, p) \/ Join(i, p)
        \/ AdvertiseAvailableAddresses(i, p) \/ ProcessAckOrData(i, p)
        \/ PeerReset(i, p) \/ ClosedMaster(i, p)
    BY DEF ServerReceive
  <1>3. /\ Asked(i) \/ Confirmed(i) \/ Opened(i)
        /\ Asked(i) => p = Request(i)
        /\ Confirmed(i) => p = "ACK"
        /\ p # "RST"
        /\ ~(Asked(i) /\ i = 0) => ~Gone
        /\ \A j \in Subflow : peerState[j] # "CLOSED"
    BY <1>1, WhatArrives
  <1> HIDE DEF p
  <1>4. {"ACK", "ADDR"} \subseteq ToClient \ {"RST"}
    BY DEF ToClient
  <1>5. CASE Fork(i, p)
    <2>1. i = 0 /\ Asked(0)
      BY <1>3, <1>5 DEF Fork
    <2>2. \A j \in Subflow : peerState[j] = "NONE"
      BY <1>3, <1>5 DEF Fork, Gone
    <2>3. peerState'[0] = "SYN_RCVD" /\ \A j \in Subflow \ {0} : peerState'[j] = peerState[j]
      BY <1>5, <2>2, Constants DEF Fork
    <2>4. toClient' = Put(toClient, 0, Reply(0))
      BY <1>5, <2>1 DEF Fork, Reply
    <2> QED BY <1>1, <2>1, <2>3, <2>4, Constants, AnsweredSmooth
  <1>6. CASE Ignores(i, p)
    <2>1. UNCHANGED <<peerState, toClient>>
      BY <1>6 DEF Ignores
    <2>2. peerState[i] = "ESTABLISHED"
      <3>1. ~(Gone /\ p # "SYN")
        BY <1>3 DEF Request
      <3>2. ~(i # 0 /\ peerState[i] \in {"NONE", "CLOSED"} /\ p # "JOIN")
        BY <1>3 DEF Request, Confirmed, Opened
      <3> QED BY <1>3, <1>6, <3>1, <3>2 DEF Ignores
    <2>3. state[i] = "ESTABLISHED"
      BY <1>3, <2>2 DEF Asked, Confirmed, Opened
    <2> QED BY <1>1, <1>4, <2>1, <2>2, <2>3, OpenedSmooth
  <1>7. ~AnotherSyn(i, p)
    BY <1>3 DEF AnotherSyn, Asked, Confirmed, Opened
  <1>8. CASE Join(i, p)
    <2>1. Asked(i) /\ i # 0
      BY <1>3, <1>8 DEF Join, Confirmed, Opened, Request
    <2>2. /\ peerState'[i] = "SYN_RCVD" /\ \A j \in Subflow \ {i} : peerState'[j] = peerState[j]
          /\ toClient' = Put(toClient, i, Reply(i))
      BY <1>1, <1>8, <2>1 DEF Join, JoinState, TypeOK, Reply
    <2> QED BY <1>1, <2>1, <2>2, AnsweredSmooth
  <1>9. CASE AdvertiseAvailableAddresses(i, p)
    <2>1. UNCHANGED peerState /\ toClient' = Put(toClient, i, "ADDR")
      BY <1>9 DEF AdvertiseAvailableAddresses
    <2>2. state[i] = "ESTABLISHED" /\ peerState[i] = "ESTABLISHED"
      BY <1>3, <1>9 DEF AdvertiseAvailableAddresses, Request, Opened
    <2> QED BY <1>1, <1>4, <2>1, <2>2, OpenedSmooth
  <1>10. CASE ProcessAckOrData(i, p)
    <2>1. /\ peerState'[i] = "ESTABLISHED" /\ \A j \in Subflow \ {i} : peerState'[j] = peerState[j]
          /\ toClient' = Put(toClient, i, "ACK") \/ UNCHANGED toClient
      BY <1>1, <1>10 DEF ProcessAckOrData, EndsHandshake, TypeOK
    <2>2. state[i] = "ESTABLISHED"
      BY <1>3, <1>10 DEF ProcessAckOrData, Request, Asked, Confirmed, Opened
    <2> QED BY <1>1, <1>4, <2>1, <2>2, OpenedSmooth
  <1>11. ~PeerReset(i, p) /\ ~ClosedMaster(i, p)
    BY <1>3, Constants DEF PeerReset, ClosedMaster
  <1> QED BY <1>2, <1>5, <1>6, <1>7, <1>8, <1>9, <1>10, <1>11

LEMMA NextSmooth == HandshakeInv /\ SmoothInv /\ [Next]_vars => SmoothInv'
  <1> SUFFICES ASSUME HandshakeInv, SmoothInv, [Next]_vars, lost' = 0, addrs' >= NSub
               PROVE  Smooth'
    BY DEF SmoothInv
  <1>1. /\ lost \in Nat
        /\ lost' = lost \/ lost' = lost + 1
        /\ addrs' = addrs
    <2>1. lost \in Nat
      BY DEF HandshakeInv, TypeOK
    <2> QED BY <2>1 DEF Next, vars, peerVars, clientVars, Connect, ResendSyn, ClientReceive, SendData,
               ServerReceive, PeerTimeout, Lose, ResendSynAck
  <1>2. lost = 0 /\ addrs >= NSub /\ Smooth
    BY <1>1 DEF SmoothInv
  <1>3. CASE UNCHANGED vars
    BY <1>2, <1>3 DEF vars, clientVars, peerVars, Smooth, Running, Stage, Unopened, Asked, Answered,
                      Confirmed, Opened
  <1>4. CASE Connect
    BY <1>2, <1>4, ConnectSmooth
  <1>5. ~ResendSyn
    BY <1>2, WaitingIsNotQuiet, Constants DEF ResendSyn, HandshakeInv, TimersInHandshake
  <1>6. ASSUME NEW i \in Subflow PROVE ~PeerTimeout(i) /\ ~Lose(i)
    <2>1. ~PeerTimeout(i)
      BY <1>2, WaitingIsNotQuiet DEF PeerTimeout, HandshakeInv, TimersInHandshake
    <2>2. ~Lose(i)
      BY <1>2 DEF Lose
    <2> QED BY <2>1, <2>2
  <1>7. CASE \E i \in Subflow : ClientReceive(i) \/ SendData(i) \/ ServerReceive(i)
    BY <1>2, <1>7, ClientReceiveSmooth, SendDataSmooth, ServerReceiveSmooth
  <1> QED BY <1>3, <1>4, <1>5, <1>6, <1>7 DEF Next

\* How the setup goes without loss, for every number of subflows: whoever
\* waits, the packet waited for is on its way (ProcessSynSent, ProcessListen,
\* ProcessSynRcvd).
THEOREM SmoothSetup == Spec => []SmoothInv
  <1>1. Init => SmoothInv
    BY InitSmooth DEF SmoothInv
  <1> QED BY <1>1, NextSmooth, HandshakeInvariant, PTL DEF Spec

\* Without loss, and with an address of the server for each of the client's,
\* no timer of the handshake fires, nothing is closed and the program does not
\* stop (InitiateSubflows, AdvertiseAvailableAddresses, SendEmptyPacket).
THEOREM SetupWithoutLoss == Spec => []LossFreeSetup
  <1>1. SmoothInv => LossFreeSetup
    <2> SUFFICES ASSUME SmoothInv, lost = 0, addrs >= NSub
                 PROVE  Running /\ \A i \in Subflow : state[i] # "CLOSED" /\ peerState[i] # "CLOSED"
      BY DEF LossFreeSetup
    <2>1. Smooth
      BY DEF SmoothInv
    <2> QED BY <2>1 DEF Smooth, Stage, Unopened, Asked, Answered, Confirmed, Opened
  <1> QED BY <1>1, SmoothSetup, PTL
=============================================================================
