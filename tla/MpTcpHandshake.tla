--------------------------- MODULE MpTcpHandshake ---------------------------
(***************************************************************************)
(* Setting up one MPTCP connection with the FullMesh path manager: the      *)
(* three-way handshake of the first subflow with MP_CAPABLE, the exchange   *)
(* of addresses (ADD_ADDR), and the MP_JOIN handshake of every other        *)
(* subflow, with the retries that SendEmptyPacket counts down and the       *)
(* things that are sent once.                                              *)
(*                                                                         *)
(* The server's application listens and accepts everything.  CompleteFork   *)
(* is scheduled for the time of the SYN, so it is one step with             *)
(* ProcessListen.  The client may have one segment to send on each subflow  *)
(* once it is established: the first data also ends the server's side of    *)
(* the handshake.  The connection timeout (seconds, doubled at each retry)  *)
(* and the retransmission timeout are longer than a round trip: a timer     *)
(* fires only when its subflow has nothing in flight and no join is on its  *)
(* way.                                                                    *)
(***************************************************************************)
EXTENDS Integers, Sequences

CONSTANTS
  NSub,       \* addresses of the client: it joins one subflow for each
  MaxAddrs,   \* most addresses the server may have
  CnRetries,  \* how often a SYN or SYN+ACK is sent (cnRetries)
  MaxLoss     \* how many packets the network may lose

ASSUME HandshakeAssumption ==
  /\ NSub \in Nat \ {0} /\ MaxAddrs \in Nat \ {0}
  /\ CnRetries \in Nat \ {0} /\ MaxLoss \in Nat

Subflow == 0 .. NSub - 1

VARIABLES
  \* the client
  state,        \* state of each subflow, "NONE" before it exists
  cnCount,      \* SYNs the first subflow may still send
  synTimer,     \* retxEvent of the first subflow holds its SYN
  mpSendState,  \* the option sent last
  mpRecvState,  \* the option received last; mpEnabled once it is not "NONE"
  data,         \* one segment per subflow
  \* the server
  addrs,        \* how many addresses it has
  peerState, peerCount, peerTimer,  \* per subflow
  peerSend, peerRecv,               \* its mpSendState and mpRecvState
  \* the network and the simulation
  toServer, toClient, \* packets in flight on each subflow, oldest first
  lost,               \* packets lost so far
  aborted             \* why the program stopped: "no" while it runs,
                      \* "notMultipath" and "outOfRange" otherwise

clientVars == <<state, cnCount, synTimer, mpSendState, mpRecvState, data>>
peerVars == <<addrs, peerState, peerCount, peerTimer, peerSend, peerRecv>>
vars == <<clientVars, peerVars, toServer, toClient, lost, aborted>>

Options == {"NONE", "MPC", "ADDR"}
Running == aborted = "no"

\* The server has no socket for this connection (any more): its packets reach
\* the listening socket, which takes a SYN with MP_CAPABLE and nothing else.
Gone == \A i \in Subflow : peerState[i] \in {"NONE", "CLOSED"}

Packets(ch) == {ch[k] : k \in 1 .. Len(ch)}

\* A round trip has passed since the last packet of this subflow, and since
\* the joins, which left all together.
Quiet(i) == /\ toServer[i] = <<>> /\ toClient[i] = <<>>
            /\ \A j \in Subflow : "JOIN" \notin Packets(toServer[j])

Put(ch, i, p) == [ch EXCEPT ![i] = Append(@, p)]
Pop(ch, i) == [ch EXCEPT ![i] = Tail(@)]

\* Packets to the client: "SYNACK" has no option, "MPC" is a SYN+ACK with
\* MP_CAPABLE; the packets to the server carry the option of their kind.
Init ==
  /\ state = [i \in Subflow |-> "NONE"]
  /\ cnCount = CnRetries
  /\ synTimer = FALSE
  /\ mpSendState = "NONE" /\ mpRecvState = "NONE"
  /\ data = [i \in Subflow |-> "none"]
  /\ addrs \in 1 .. MaxAddrs
  /\ peerState = [i \in Subflow |-> "NONE"]
  /\ peerCount = [i \in Subflow |-> CnRetries]
  /\ peerTimer = [i \in Subflow |-> FALSE]
  /\ peerSend = "NONE" /\ peerRecv = "NONE"
  /\ toServer = [i \in Subflow |-> <<>>]
  /\ toClient = [i \in Subflow |-> <<>>]
  /\ lost = 0
  /\ aborted = "no"

---------------------------------------------------------------------------
(* The client.                                                             *)

Connect ==
  /\ Running /\ state[0] = "NONE"
  /\ state' = [state EXCEPT ![0] = "SYN_SENT"]
  /\ cnCount' = cnCount - 1
  /\ synTimer' = TRUE
  /\ mpSendState' = "MPC"
  /\ toServer' = Put(toServer, 0, "SYN")
  /\ UNCHANGED <<mpRecvState, data, peerVars, toClient, lost, aborted>>

\* Faulty variant: the resent SYN sets no timer.
SetsTimerOnce == FALSE

\* SendEmptyPacket finds its own event expired and schedules it again.
SetsSynTimer == TRUE

\* The SYN is sent again, or the connection is given up.
ResendSyn ==
  /\ Running /\ synTimer /\ Quiet(0)
  /\ \/ /\ cnCount > 0
        /\ cnCount' = cnCount - 1
        /\ synTimer' = SetsSynTimer
        /\ toServer' = Put(toServer, 0, "SYN")
        /\ UNCHANGED state
     \/ /\ cnCount = 0
        /\ synTimer' = FALSE
        /\ state' = [state EXCEPT ![0] = "CLOSED"]
        /\ UNCHANGED <<cnCount, toServer>>
  /\ UNCHANGED <<mpSendState, mpRecvState, data, peerVars, toClient, lost, aborted>>

\* ReadOptions takes MP_CAPABLE from a SYN+ACK.
ReadCapable(p) == IF p = "MPC" /\ mpRecvState = "NONE" THEN "MPC" ELSE mpRecvState

\* The SYN+ACK of the first subflow: the last ACK and the client's addresses
\* leave.  AdvertiseAvailableAddresses stops the program if the peer never
\* said it was multipath capable.
ProcessSynSentMaster(p) ==
  /\ p \in {"MPC", "SYNACK"} /\ state[0] = "SYN_SENT"
  /\ state' = [state EXCEPT ![0] = "ESTABLISHED"]
  /\ synTimer' = FALSE
  /\ mpRecvState' = ReadCapable(p)
  /\ IF mpRecvState' = "NONE"
     THEN /\ aborted' = "notMultipath"
          /\ toServer' = Put(toServer, 0, "ACK")
          /\ UNCHANGED mpSendState
     ELSE /\ mpSendState' = "ADDR"
          /\ toServer' = Put(Put(toServer, 0, "ACK"), 0, "ADDR")
          /\ UNCHANGED aborted
  /\ UNCHANGED data

ProcessSynSentJoin(i, p) ==
  /\ i # 0 /\ p = "SYNACK" /\ state[i] = "SYN_SENT"
  /\ state' = [state EXCEPT ![i] = "ESTABLISHED"]
  /\ toServer' = Put(toServer, i, "ACK")
  /\ UNCHANGED <<synTimer, mpSendState, mpRecvState, data, aborted>>

\* Faulty variant: the loop goes one address too far.
OneTooFar == NSub + 1 > addrs

\* remoteAddrs has no element for the last of localAddrs.
OutOfRange == NSub > addrs

\* The server's addresses: a SYN with MP_JOIN leaves for each of the client's
\* own, to the server's address of the same index, and no timer is set.  Where
\* the server has fewer, what is read past the end is taken for the program's
\* end.
InitiateSubflows(p) ==
  /\ p = "ADDR" /\ mpRecvState = "MPC" /\ state[0] = "ESTABLISHED"
  /\ mpRecvState' = "ADDR"
  /\ IF OutOfRange
     THEN aborted' = "outOfRange" /\ UNCHANGED <<state, toServer>>
     ELSE /\ state' = [i \in Subflow |-> IF i = 0 THEN state[0] ELSE "SYN_SENT"]
          /\ toServer' = [i \in Subflow |-> IF i = 0 THEN toServer[0]
                                            ELSE Append(toServer[i], "JOIN")]
          /\ UNCHANGED aborted
  /\ UNCHANGED <<synTimer, mpSendState, data>>

\* ProcessEstablished: an ACK of data counts, another SYN+ACK does not.
ReceivedAck(i, p) ==
  /\ state[i] = "ESTABLISHED" /\ p \in {"ACK", "SYNACK", "MPC"}
  /\ data' = [data EXCEPT ![i] = IF p = "ACK" THEN "acked" ELSE @]
  /\ UNCHANGED <<state, synTimer, mpSendState, mpRecvState, toServer, aborted>>

\* A reset closes every subflow.
CloseAndNotifyAllSubflows(i, p) ==
  /\ p = "RST" /\ state[i] \in {"SYN_SENT", "ESTABLISHED"}
  /\ state' = [j \in Subflow |-> IF state[j] = "NONE" THEN "NONE" ELSE "CLOSED"]
  /\ synTimer' = FALSE
  /\ UNCHANGED <<mpSendState, mpRecvState, data, toServer, aborted>>

\* Nothing is registered for a closed connection: TcpL4Protocol resets.
NoEndPoint(i, p) ==
  /\ state[i] = "CLOSED"
  /\ toServer' = IF p = "RST" THEN toServer ELSE Put(toServer, i, "RST")
  /\ UNCHANGED <<state, synTimer, mpSendState, mpRecvState, data, aborted>>

ClientReceive(i) ==
  /\ Running /\ toClient[i] # <<>>
  /\ toClient' = Pop(toClient, i)
  /\ UNCHANGED <<cnCount, peerVars, lost>>
  /\ LET p == Head(toClient[i])
     IN \/ i = 0 /\ (ProcessSynSentMaster(p) \/ InitiateSubflows(p))
        \/ ProcessSynSentJoin(i, p) \/ ReceivedAck(i, p)
        \/ CloseAndNotifyAllSubflows(i, p) \/ NoEndPoint(i, p)

\* The first segment of a subflow, and its retransmission.
SendData(i) ==
  /\ Running /\ state[i] = "ESTABLISHED"
  /\ data[i] = "none" \/ (data[i] = "sent" /\ Quiet(i))
  /\ data' = [data EXCEPT ![i] = "sent"]
  /\ toServer' = Put(toServer, i, "DATA")
  /\ UNCHANGED <<state, cnCount, synTimer, mpSendState, mpRecvState, peerVars,
                 toClient, lost, aborted>>

---------------------------------------------------------------------------
(* The server.                                                             *)

\* ProcessListen and CompleteFork: a new socket, whose first SYN+ACK is the
\* only one that carries MP_CAPABLE.
Fork(i, p) ==
  /\ p = "SYN" /\ Gone
  /\ peerState' = [j \in Subflow |-> IF j = 0 THEN "SYN_RCVD" ELSE "NONE"]
  /\ peerCount' = [j \in Subflow |-> IF j = 0 THEN CnRetries - 1 ELSE CnRetries]
  /\ peerTimer' = [j \in Subflow |-> j = 0]
  /\ peerSend' = "MPC" /\ peerRecv' = "MPC"
  /\ toClient' = Put(toClient, i, "MPC")

\* The listening socket and a subflow without an end point take nothing; an
\* established subflow ignores another SYN, and an ACK tells it nothing new.
Ignores(i, p) ==
  /\ \/ Gone /\ p # "SYN"
     \/ i # 0 /\ peerState[i] \in {"NONE", "CLOSED"} /\ p # "JOIN"
     \/ peerState[i] = "ESTABLISHED" /\ p \in {"SYN", "ACK"}
     \/ peerState[i] = "CLOSED" /\ p = "RST"
  /\ UNCHANGED <<peerState, peerCount, peerTimer, peerSend, peerRecv, toClient>>

\* Faulty variant: the retries are not counted down to an end.
NeverGivesUp(i) ==
  /\ peerCount' = [peerCount EXCEPT ![i] = @ - 1]
  /\ toClient' = Put(toClient, i, "SYNACK")
  /\ UNCHANGED <<peerState, peerTimer, peerSend, peerRecv>>

\* Faulty variant: the last retry is over and the subflow is not closed.
GivesUpQuietly(i) ==
  /\ IF peerCount[i] = 0
     THEN /\ peerTimer' = [peerTimer EXCEPT ![i] = FALSE]
          /\ UNCHANGED <<peerCount, toClient>>
     ELSE /\ peerCount' = [peerCount EXCEPT ![i] = @ - 1]
          /\ toClient' = Put(toClient, i, "SYNACK")
          /\ UNCHANGED peerTimer
  /\ UNCHANGED <<peerState, peerSend, peerRecv>>

\* SendEmptyPacket(SYN | ACK) again, from the timer or for another SYN: it is
\* sent without MP_CAPABLE, or the subflow is given up.
ResendSynAck(i) ==
  /\ IF peerCount[i] = 0
     THEN /\ peerState' = [peerState EXCEPT ![i] = "CLOSED"]
          /\ peerTimer' = [peerTimer EXCEPT ![i] = FALSE]
          /\ UNCHANGED <<peerCount, toClient>>
     ELSE /\ peerCount' = [peerCount EXCEPT ![i] = @ - 1]
          /\ toClient' = Put(toClient, i, "SYNACK")
          /\ UNCHANGED <<peerState, peerTimer>>
  /\ UNCHANGED <<peerSend, peerRecv>>

AnotherSyn(i, p) == p = "SYN" /\ peerState[i] = "SYN_RCVD" /\ ResendSynAck(i)

\* Faulty variant: the joining subflow counts as established at its SYN.
JoinEstablishes == "ESTABLISHED"

\* The subflow LookupSubflow creates goes through LISTEN to SYN_RCVD.
JoinState == "SYN_RCVD"

\* MP_JOIN: the token finds the connection, LookupSubflow makes the subflow
\* and ProcessListen answers.
Join(i, p) ==
  /\ p = "JOIN" /\ ~Gone /\ peerState[i] = "NONE"
  /\ peerState' = [peerState EXCEPT ![i] = JoinState]
  /\ peerCount' = [peerCount EXCEPT ![i] = CnRetries - 1]
  /\ peerTimer' = [peerTimer EXCEPT ![i] = TRUE]
  /\ toClient' = Put(toClient, i, "SYNACK")
  /\ UNCHANGED <<peerSend, peerRecv>>

\* The client's addresses.  ReadOptions returns FALSE after it advertised the
\* server's own, so this ACK does not end the handshake.
AdvertiseAvailableAddresses(i, p) ==
  /\ p = "ADDR" /\ ~Gone /\ peerRecv = "MPC"
  /\ peerRecv' = "ADDR" /\ peerSend' = "ADDR"
  /\ toClient' = Put(toClient, i, "ADDR")
  /\ UNCHANGED <<peerState, peerCount, peerTimer>>

\* Faulty variant: only an ACK ends the handshake, data is just taken.
OnlyAckEnds(i, p) ==
  IF p = "ACK" THEN /\ peerState' = [peerState EXCEPT ![i] = "ESTABLISHED"]
                    /\ peerTimer' = [peerTimer EXCEPT ![i] = FALSE]
               ELSE UNCHANGED <<peerState, peerTimer>>

\* In SYN_RCVD the subflow is established by either.
EndsHandshake(i, p) ==
  /\ peerState' = [peerState EXCEPT ![i] = "ESTABLISHED"]
  /\ peerTimer' = [peerTimer EXCEPT ![i] = FALSE]

\* ProcessSynRcvd and ProcessEstablished: an ACK or data ends the handshake,
\* and ReceivedAck passes the data on to ReceivedData, which answers it.
ProcessAckOrData(i, p) ==
  /\ \/ peerState[i] = "SYN_RCVD" /\ p \in {"ACK", "DATA"}
     \/ peerState[i] = "ESTABLISHED" /\ p = "DATA"
  /\ EndsHandshake(i, p)
  /\ toClient' = IF p = "DATA" THEN Put(toClient, i, "ACK") ELSE toClient
  /\ UNCHANGED <<peerCount, peerSend, peerRecv>>

\* A reset closes every subflow there is.
PeerReset(i, p) ==
  /\ p = "RST" /\ peerState[i] \in {"SYN_RCVD", "ESTABLISHED"}
  /\ peerState' = [j \in Subflow |-> IF peerState[j] = "NONE" THEN "NONE" ELSE "CLOSED"]
  /\ peerTimer' = [j \in Subflow |-> FALSE]
  /\ UNCHANGED <<peerCount, peerSend, peerRecv, toClient>>

\* The first subflow keeps its end point while others are open: a packet for
\* it is answered with a reset.
ClosedMaster(i, p) ==
  /\ i = 0 /\ peerState[0] = "CLOSED" /\ ~Gone /\ p # "RST"
  /\ toClient' = Put(toClient, 0, "RST")
  /\ UNCHANGED <<peerState, peerCount, peerTimer, peerSend, peerRecv>>

ServerReceive(i) ==
  /\ Running /\ toServer[i] # <<>>
  /\ toServer' = Pop(toServer, i)
  /\ UNCHANGED <<clientVars, addrs, lost, aborted>>
  /\ LET p == Head(toServer[i])
     IN \/ Fork(i, p) \/ Ignores(i, p) \/ AnotherSyn(i, p) \/ Join(i, p)
        \/ AdvertiseAvailableAddresses(i, p) \/ ProcessAckOrData(i, p)
        \/ PeerReset(i, p) \/ ClosedMaster(i, p)

\* retxEvent of a subflow in SYN_RCVD: its SYN+ACK is sent again.
PeerTimeout(i) ==
  /\ Running /\ peerTimer[i] /\ Quiet(i)
  /\ ResendSynAck(i)
  /\ UNCHANGED <<clientVars, addrs, toServer, lost, aborted>>

---------------------------------------------------------------------------
(* The network loses packets.                                              *)

Lose(i) ==
  /\ Running /\ lost < MaxLoss
  /\ lost' = lost + 1
  /\ \/ /\ toServer[i] # <<>>
        /\ toServer' = Pop(toServer, i)
        /\ UNCHANGED toClient
     \/ /\ toClient[i] # <<>>
        /\ toClient' = Pop(toClient, i)
        /\ UNCHANGED toServer
  /\ UNCHANGED <<clientVars, peerVars, aborted>>

Next ==
  \/ Connect \/ ResendSyn
  \/ \E i \in Subflow : \/ ClientReceive(i) \/ SendData(i)
                        \/ ServerReceive(i) \/ PeerTimeout(i) \/ Lose(i)

Spec == Init /\ [][Next]_vars

\* The simulator runs every event it holds, so a timer set and a packet that
\* was not lost get their turn.  Nothing obliges the application to write.
Fairness ==
  /\ WF_vars(ResendSyn)
  /\ \A i \in Subflow : /\ WF_vars(ClientReceive(i)) /\ WF_vars(ServerReceive(i))
                        /\ WF_vars(PeerTimeout(i))

FairSpec == Spec /\ Fairness

---------------------------------------------------------------------------
(* Properties.                                                             *)

\* Every variable has its type.
TypeOK ==
  /\ state \in [Subflow -> {"NONE", "SYN_SENT", "ESTABLISHED", "CLOSED"}]
  /\ cnCount \in 0 .. CnRetries
  /\ synTimer \in BOOLEAN
  /\ mpSendState \in Options /\ mpRecvState \in Options
  /\ data \in [Subflow -> {"none", "sent", "acked"}]
  /\ addrs \in 1 .. MaxAddrs
  /\ peerState \in [Subflow -> {"NONE", "SYN_RCVD", "ESTABLISHED", "CLOSED"}]
  /\ peerCount \in [Subflow -> 0 .. CnRetries]
  /\ peerTimer \in [Subflow -> BOOLEAN]
  /\ peerSend \in Options /\ peerRecv \in Options
  /\ toServer \in [Subflow -> Seq({"SYN", "JOIN", "ACK", "ADDR", "DATA", "RST"})]
  /\ toClient \in [Subflow -> Seq({"MPC", "SYNACK", "ACK", "ADDR", "RST"})]
  /\ lost \in Nat
  /\ aborted \in {"no", "notMultipath", "outOfRange"}

\* An end that waits for the other has a timer, whatever was lost: the client
\* for its SYN+ACK (Connect, ResendSyn), the server for the last ACK.  Only a
\* joining client waits without one.
TimerCoversHandshake ==
  /\ state[0] = "SYN_SENT" => synTimer
  /\ \A i \in Subflow : peerState[i] = "SYN_RCVD" => peerTimer[i]

\* The server never takes a subflow for established that the client did not
\* establish, whichever SYN, SYN+ACK or ACK was lost or sent again.
NoPhantom ==
  \A i \in Subflow : peerState[i] = "ESTABLISHED" => state[i] \in {"ESTABLISHED", "CLOSED"}

\* A segment that was acknowledged was taken by a subflow the server holds for
\* established, also when the last ACK of the handshake was lost and the data
\* ended it (ProcessSynRcvd): the server does not give such a subflow up later.
AckedIsEstablished ==
  \A i \in Subflow :
    data[i] = "acked" => peerState[i] = "ESTABLISHED" \/ state[i] = "CLOSED"

\* As long as the network loses nothing and the server has an address for each
\* of the client's, no end gives a subflow up and the program does not stop.
LossFreeSetup ==
  lost = 0 /\ addrs >= NSub =>
    /\ Running
    /\ \A i \in Subflow : state[i] # "CLOSED" /\ peerState[i] # "CLOSED"

\* Neither end stays in the middle of the handshake of the first subflow, nor
\* the server in that of any: an answer comes or the retries run out.
HandshakeSettles ==
  /\ state[0] = "SYN_SENT" ~> state[0] # "SYN_SENT" \/ ~Running
  /\ \A i \in Subflow : peerState[i] = "SYN_RCVD" ~> peerState[i] # "SYN_RCVD" \/ ~Running

\* Without loss, and with enough addresses at the server, every subflow is
\* established at both ends.
JoinsComplete ==
  [](lost = 0 /\ addrs >= NSub) =>
    (state[0] = "SYN_SENT" ~>
       \A i \in Subflow : state[i] = "ESTABLISHED" /\ peerState[i] = "ESTABLISHED")

\* What SendEmptyPacket and ProcessSynRcvd say of a lost SYN+ACK: sending it
\* again guards against the loss.  The client takes the peer for multipath
\* capable, so AdvertiseAvailableAddresses does not stop the program.
ResentSynAckHelps == aborted # "notMultipath"
=============================================================================
