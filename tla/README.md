# A verified model of the ns-3 MPTCP implementation

The repository is an ns-3 tree with a Multipath TCP stack. The stack itself
is small: `src/src/mptcp/src/internet/model/mp-tcp-*.{h,cc}` (one class,
`MpTcpSocketBase`, does nearly everything) and two applications,
`src/src/mptcp/src/applications/model/mp-tcp-*.cc`. The rest is stock ns-3
and a vendored onnxruntime. This directory holds TLA+ models of the stack,
the TLC runs that check them, and proofs for TLAPS.

## 1. Inventory

| Component | State it keeps | Operations | Modelled |
|---|---|---|---|
| Sender and scheduler (`mp-tcp-socket-base.cc` 1030-1426, 1673-2080, 2685-2739) | `sendingBuffer`, `nextTxSequence`, `lastUsedsFlowIdx`, `subflows` | `FillBuffer`, `SendPendingData`, `SendDataPacket`, `ReceivedAck`, `NewAckNewReno`, `NewACK`, `DupAck`, `ReduceCWND`, `ReTxTimeout`, `DoRetransmit` | `MpTcpTransfer` |
| Subflow (`mp-tcp-subflow.{h,cc}`) | `TxSeqNumber`, `maxSeqNb`, `highestAck`, `mapDSN`, `cwnd`, `ssthresh`, recovery state, `retxEvent`, `RxSeqNumber`, FIN state | `AddDSNMapping`, `GetunAckPkt`, `SetFinSequence`, `Finished` | `MpTcpTransfer`, the FIN in `MpTcpClose` |
| Receiver (831-924, 2616-2672, 3012-3035) | `nextRxSequence`, `unOrdered`, `RxSeqNumber` of every subflow | `ReceivedData`, `StoreUnOrderedData`, `ReadUnOrderedData` | `MpTcpTransfer`, used by `MpTcpClose` |
| Mappings and buffers (`mp-tcp-typedefs`) | bytes in a queue, its capacity | `Add`, `CreatePacket`, `ReadPacket`, `Retrieve` | as counters |
| Bulk-send application | bytes written, `m_connected` | `SendData`, `DataSend`, `ConnectionSucceeded`, `StopApplication` | in `MpTcpTransfer`, its `Close` in `MpTcpClose` |
| Congestion arithmetic (3684-4175) | `cwnd`, `alpha`, `totalCwnd` | `OpenCWND`, `calculateAlpha` | abstracted |
| Handshake, ADD_ADDR, joins (368-680, 2378-2570, 3403-3460) | subflow states, tokens, address lists | `Connect`, `ProcessListen`, `ProcessSynSent`, `ProcessSynRcvd`, `InitiateSubflows` | `MpTcpHandshake` |
| Teardown (686-830, 1211-1255, 3039-3400) | subflow states, FIN sequence numbers, timers | `Close`, `DoClose`, `PeerClose`, `TimeWait`, `SendRST` | `MpTcpClose` |
| Packet sink, RTT estimator, TCP demultiplexer, factory, helpers, scenarios | - | - | no (see 7) |

How they interact: everything runs inside ns-3's event loop, one event at a
time, so there are no threads; the interleavings are those of events: packets
and ACKs of different subflows arrive in any order relative to each other,
timers race with late ACKs, and the application is called back through
events that `NotifyDataSent` schedules. Within one event the calls are deep:
an ACK runs `ReceivedAck` -> `NewAckNewReno` -> `DoRetransmit`, `NewACK` ->
`DiscardUpTo`, `SendPendingData` -> `SendDataPacket`, and the application's
`SendData` calls `SendPendingData` from inside its own loop.

What is hard here, and what must hold:

* One round-robin index and one send buffer are shared by all subflows;
  every handler that opens a window must run the scheduler, and no subflow
  may block the others.
* A segment is mapped to one subflow for ever, and is repaired only by that
  subflow: nothing may be discarded before it arrived, and a timer must be
  pending for whatever is not acknowledged.
* After a timeout `TxSeqNumber` moves back below `maxSeqNb`; later sends
  come from `mapDSN` until it is back. Partial ACKs look up their segment in
  a list that the same handler prunes.
* The receiver advances several subflows when one packet arrives, and stops
  the program (`NS_FATAL_ERROR`) for a segment that is new to its subflow and
  old to the connection.
* Delivery: what is written is delivered, in order, once, and all of it.
* Setting up: SYN, SYN+ACK and their retries race with ADD_ADDR, joins and
  the first data; some packets (a join's SYN, ADD_ADDR, the last ACK) are
  sent once and have no timer. Both ends must agree on which subflows exist.
* Closing: `Close` may come while data is unsent. The FIN of each subflow
  leaves from `SendDataPacket`, from `Close` itself or from a `DoClose`
  scheduled for later, shares one timer event with the data, may overtake
  data that is being sent again, and is answered with a FIN+ACK that is sent
  only twice. Both ends must get to CLOSED, after all data, and not by reset.

PROJECT.json lists every such hazard at its line, with the properties that
would catch it.

## 2. Modules

* `MptcpStream` - the promise of one direction of a connection: segments are
  written, sent, received (and delivered as soon as they are in order) and
  forgotten by the sender once the receiver has them. No subflows, windows,
  timers, ACKs or losses. `MpTcpTransfer` and `MpTcpClose` both implement it.
* `MpTcpTransfer` - the code: the client's socket and bulk-send application,
  the paths, the server's socket. It instantiates `MptcpStream` under a
  refinement mapping.
* `MpTcpHandshake` - the first handshake with MP_CAPABLE, ADD_ADDR, and the
  MP_JOIN handshakes, up to the first segment of each subflow.
* `MpTcpClose` - from the last write to CLOSED at both ends. It composes the
  teardown with the receiver of `MpTcpTransfer`, which it instantiates: a FIN
  counts only where that receiver's numbers put it. It too instantiates
  `MptcpStream`, for the data that is left when the run starts.
* `MCTransfer`, `MCHandshake`, `MCClose` - the modules TLC runs; the `.cfg`
  files give the constants.
* `MpTcpTransferProofs` - the proof of type correctness of `MpTcpTransfer`;
  `MpTcpTransferSafety` - its inductive invariant and the safety properties
  that follow; `MpTcpTransferRefinement` - that it implements `MptcpStream`;
  `MpTcpTransferProgress` - that no subflow idles and nothing stops early.
* `MpTcpHandshakeProofs`, `MpTcpCloseProofs` - inductive invariants and safety
  properties of the other two; `MpTcpCloseSafety` - that a graceful close has
  delivered everything, and that the close implements `MptcpStream`;
  `MpTcpCloseLoss` - what a reset takes.

### How `MpTcpTransfer` corresponds to the code

The client sends and the server receives, as in every scenario of the
repository (`ReTxTimeout` asserts `client`). Variables have the names of the
members they model. The unit of data is one segment: `AvailableWindow`
returns 0 for less than one MSS while a whole MSS is unsent, and a mapping is
never cut again, so windows count in whole segments and a segment is known by
its data sequence number and its sequence number on its subflow. (With a
write that is not a multiple of the MSS the code sends a short last segment;
the application's buffer is taken to hold whole segments.) The congestion
window is kept modulo `Wrap`, as an unsigned integer is.

An action is one event, with two exceptions: the loops of `SendPendingData`
and of the application's `SendData` take one step per iteration. `loop`
records which loop is running and for which handler; every event has the
guard `loop.pc = "idle"`, so nothing comes in between.

| Action | Code |
|---|---|
| `FillBuffer`, `EndSendData` | one iteration / the end of `MpTcpBulkSendApplication::SendData` |
| `SendPendingData`, `EndSendPendingData`, `Resend` | one iteration / the end of the main loop, and the loop for an empty buffer (1701-1795); `SendNew` and `SendOld` are the two halves of `SendDataPacket` |
| `InitiateSubflows`, `ProcessSynSent`, `LoseJoin` | the joins, as far as the scheduler sees them: a join is answered, or its SYN is lost |
| `ReceivedAck` | a new ACK (`NewAckNewReno` with `NewACK`, `DiscardUpTo`, `OpenCWND`), a duplicate (`DupAck`, `ReduceCWND`, `DoRetransmit`) or an old one |
| `ReTxTimeout` | `ReTxTimeout`, `Retransmit`, `DoRetransmit` |
| `ReceivedData` | in order (`DeliverData`, with `ReadUnOrderedData`), ahead (`StoreUnOrderedData`) or duplicate, and the ACK |
| `LosePacket` | the network, external |
| `Stop` | the simulator has no event left |

Increments of the coupled congestion algorithms are less than a segment or
one segment per ACK: `Opened` leaves the choice open. `HalfFlight` selects
how `ReduceCWND` sets `ssthresh`: half the flight, or (the coupled
algorithms) anything between 2 segments and the window. `gsam`, the
repository's own slow-start variant, is off. `DupThresh` is 3 in the code
(2703); the two-subflow runs lower it to 2 so that fast recovery happens with
few segments. Assertions are not actions: where the code would stop, no
disjunct applies, and `SenderNeverAborts` and `ReceiverNeverAborts` say that
it does not come to that. `log` is a history variable.

The server's half of a join's handshake is left to the other two modules. In
SYN_RCVD the server takes data as it does in ESTABLISHED, and it sends a lost
SYN+ACK again from its own timer (509, 2191-2194), so here losing one only
delays `ProcessSynSent`; that it may give up after `cnRetries` tries is in
`MpTcpHandshake` and `MpTcpClose`.

### How `MpTcpHandshake` corresponds to the code

One client address per subflow, `addrs` addresses at the server; the FullMesh
path manager of the scenarios joins address `i` with address `i`
(`InitiateSubflows`). An option is sent once per state of `mpSendState`, and
acted on once per state of `mpRecvState`; both are kept for each end.

| Action | Code |
|---|---|
| `Connect`, `ResendSyn` | `Connect` (1501-1582), `SendEmptyPacket(SYN)` and its retries (2127-2206): `cnCount` counts down, at zero the subflow is given up |
| `ClientReceive`: `ProcessSynSentMaster`, `ProcessSynSentJoin` | `ProcessSynSent` with `ReadOptions` and `AdvertiseAvailableAddresses`, which stops the program for a peer that is not multipath capable (3460) |
| `ClientReceive`: `InitiateSubflows` | `ReadOptions` on ADD_ADDR, `InitiateSubflows` (2385-2464), whose index may leave `remoteAddrs` |
| `ClientReceive`: `ReceivedAck`, `CloseAndNotifyAllSubflows`, `NoEndPoint` | `ProcessEstablished`; a reset; `TcpL4Protocol` for a packet nobody is registered for |
| `ServerReceive`: `Fork`, `AnotherSyn`, `Join` | `ProcessListen` and `CompleteFork`; `ProcessSynRcvd` on a SYN; `LookupSubflow` and `ProcessListen` for MP_JOIN |
| `ServerReceive`: `AdvertiseAvailableAddresses`, `ProcessAckOrData`, `PeerReset`, `ClosedMaster`, `Ignores` | `ReadOptions`; `ProcessSynRcvd`, `ProcessEstablished`; a reset; the CLOSED case of `DoForwardUp` |
| `PeerTimeout` | the SYN+ACK's timer: `ResendSynAck`, without MP_CAPABLE (2154-2183) |
| `SendData` | the first segment of a subflow and its retransmission |
| `Lose` | the network, external |

Where the server has fewer addresses than the client the code reads past the
end of a vector; the model takes that for the end of the program
(`aborted = "outOfRange"`), and nothing is claimed of such a run.

### How `MpTcpClose` corresponds to the code

The run starts when the application has written its last segment. Congestion
windows are left open: a subflow may send while fewer than `Window` of its
segments are unacknowledged and must when none is; duplicates and partial ACKs
may or may not retransmit. So every behaviour of the windows of
`MpTcpTransfer` is included, at the price of some more.

| Action | Code |
|---|---|
| `SendPendingData`, `EndSendPendingData` | as in `MpTcpTransfer`; `SendDataPacket` runs `SendAllSubflowsFIN` once the buffer is empty and `Close` was called (1211-1255) |
| `Close` | `Close` (3216-3330): deferred with data in the buffer, otherwise `DoClose` of the subflow used last |
| `ScheduledDoClose` | the `DoClose` of the other subflows, scheduled at 1243 |
| `ClientReceive`: `ReceivedAck` | `ProcessEstablished`, `ProcessWait`: `NewACK`, `DupAck` or an old ACK |
| `ClientReceive`: `ReceivedFinAck` | `ProcessWait` on FIN+ACK, CLOSING, `TimeWait` |
| `ClientReceive`: `CloseAndNotifyAllSubflows`, `ReceivedLate` | a reset closes all subflows; what a subflow past FIN_WAIT answers |
| `ReTxTimeout` | the one event as the FIN's resend (`SendEmptyPacket`) or as `ReTxTimeout`, which hands over from data to FIN |
| `CloseMultipathConnection` | `m_timewaitEvent` |
| `ServerReceive`: `ReceivedData`, `PeerClose`, `ProcessLastAck`, `ReceivedClosed` | `ReceivedData` with `Finished`, `PeerClose` with `SetFinSequence`, `DoPeerClose` (3039-3107), `ProcessLastAck` (792-829), the CLOSED case of `DoForwardUp` |
| `ServerReceive`: `PeerReset` | a reset in ESTABLISHED (399-409) or SYN_RCVD, and the FIN in SYN_RCVD that is answered with one (666-681): `CloseAndNotifyAllSubflows` |
| `LastAckTimeout` | `m_lastAckEvent` and the FIN+ACK's resend (3134-3148, 3282-3287) |
| `ClientReceive`: `ProcessSynSent`, `DuplicatedSynAck` | the SYN+ACK of a join of `Late`, whose handshake is open when the close begins (552-602), and a second one (386-388, 714-718) |
| `ServerReceive`: `ProcessListen`, `ProcessSynRcvd` | the SYN of that join (502-511), and its last ACK or data in its place (630-655) |
| `ResendSynAck` | the SYN+ACK's timer, with `CnRetries` tries, after which the server gives the subflow up (2126-2152, 2191-2194) |
| `LosePacket` | the network, external |

`FIN_WAIT_2`, `CLOSE_WAIT` as a lasting state, and a `Close` by the server do
not occur in the transfers of the repository: `DoPeerClose` passes through
CLOSE_WAIT within one event, and the sink never closes first.

### Faulty variants

Definitions marked "Faulty variant" are plausible mistakes in the definition
below them. Nothing uses them in a run; put in its place, each breaks the
property PROJECT.json pairs it with, which shows that the property depends on
the code.

## 3. Properties and runs

| Run | Instance | Checks |
|---|---|---|
| `TransferLoss` | 2 subflows, 4 segments, FIFO paths, 1 loss | `TypeOK`, `NothingForgotten`, `TimerCoversFlight`, `AcksAreSound`, `NoIdleSubflow`, `StopsOnlyWhenDone`, `ImplementsStream` |
| `TransferReorder` | 2 subflows, 3 segments, reordering paths, 1 loss, joins may be lost, coupled `ssthresh` | `ReceiverNeverAborts`, `SenderNeverAborts`, `TransferInv` |
| `TransferSingle` | 1 subflow, 6 segments, 3 duplicate ACKs, 2 losses | `SenderNeverAborts`, `TimerCoversFlight`, `RecoveryPointOutstanding`, `StopsOnlyWhenDone` |
| `TransferLive` | 2 subflows, 3 segments, 2 losses, fairness | `AllDelivered`, `ImplementsFairStream`, `TimeoutRecoveryEnds` |
| `TransferJoinLost` | 2 subflows, a lost join, no other loss, fairness | `AllDelivered` is violated |
| `HandshakeLoss` | 3 client addresses, 1 to 3 at the server, 2 tries per SYN, 3 losses, fairness | `TypeOK`, `TimerCoversHandshake`, `NoPhantom`, `AckedIsEstablished`, `LossFreeSetup`, `HandshakeSettles`, `JoinsComplete` |
| `HandshakeLostSynAck` | 2 addresses, 6 tries, 1 loss | `ResentSynAckHelps` is violated |
| `CloseLoss` | 2 subflows of which one joins late, up to 3 segments unsent, 3 losses, 2 tries per SYN+ACK | `TypeOK`, `NoAbort`, `FinMeansAllReceived`, `GracefulClose`, `TimerCoversClose`, `CloseNeverResets`, `ResetNeedsLoss`, `ClosingImplementsStream` |
| `CloseLive` | 2 subflows, no late join, up to 3 segments, 1 loss, fairness | `NoReset`, `EventuallyClosed` |
| `CloseHoles` | 2 subflows, 1 loss | `HolesCompletedMeansPeerClose` is violated |
| `CloseReset` | 2 subflows, 2 losses | `NormalCloseIsGraceful` is violated |
| `CloseCurrentOnly` | 2 subflows, no loss, fairness | `CloseKillsSocket` is violated |

Transfer. `NothingForgotten`: every segment ever given to a subflow has
arrived or is still kept by that subflow. `AcksAreSound`: no ACK in flight and
no `highestAck` is ahead of the receiver. `TimerCoversFlight`: a subflow that
waits for an ACK has its timer pending. `NoIdleSubflow`: with every subflow
established, none has nothing in flight while data is unsent.
`RecoveryPointOutstanding`: a subflow in fast recovery waits for an ACK that
can still come. `StopsOnlyWhenDone`: the event list is empty only when
everything was written, delivered and acknowledged. `SenderNeverAborts` and
`ReceiverNeverAborts` are the assertions and fatal errors of the code.
`ImplementsStream` and `ImplementsFairStream` are the refinement of
`MptcpStream`, with `sent`, `held`, `have` and `delivered` mapped to what the
sender has cut, what its `mapDSN` lists keep, what the server delivered or
stored, and what it delivered. `AllDelivered` and `TimeoutRecoveryEnds` are
its liveness.

Handshake. `TimerCoversHandshake`: an end that waits for an answer has a timer
(only a joining client has not). `NoPhantom`: the server holds no subflow for
established that the client did not establish. `AckedIsEstablished`: a segment
is acknowledged only on a subflow that the server does not give up later.
`LossFreeSetup`: without loss, and with addresses enough, nothing is given up
and the program does not stop. `HandshakeSettles`: nobody stays in the middle.
`JoinsComplete`: without loss every subflow is established at both ends.

Close. `NoAbort`: no FIN or segment in flight is one that stops the server.
`FinMeansAllReceived`: a FIN is answered only when everything sent on its
subflow is there. `GracefulClose`: a connection that was not reset is closed
with everything sent, delivered and acknowledged. `TimerCoversClose`: data or
FIN, what waits has its timer. `CloseNeverResets`: no `DoClose`, called or
scheduled, meets a state in which it would reset, and no subflow gets stuck in
CLOSING. `ClosingImplementsStream` is the refinement of `MptcpStream` for the
data that was left in the buffer, FINs and resets being nothing to the stream:
`held` is what was cut and not yet acknowledged on its subflow, whose numbers
the FINs share. `ResetNeedsLoss`: neither end is reset, or resets the other,
before a packet was lost, nor, where no join is late, before two were. With a
late join one loss is enough: its last ACK (570) is sent once, and if no data
follows it the FIN meets SYN_RCVD, where the server resets and closes the whole
connection (666-681). `NoReset`: where no join is late, one loss never leads to
a reset. `EventuallyClosed`: a deferred `Close` brings both ends to CLOSED.

### Bounds

`MaxData` ends the application's otherwise endless writing. `ChanCap` stops
only the handlers that can add copies without end: the timer, and the server
answering. New data is bounded by the windows. `MaxLoss` bounds
losses. The instances are small but reach what matters: two subflows with
three or four segments give every order of holes (on a subflow, on the
connection, on both), one loss with a timer that may fire at any time gives
spurious and needed retransmissions, duplicates and lost ACKs; six segments
on one subflow reach the third duplicate ACK, partial ACKs and a timeout in
the middle of recovery.

`MpTcpHandshake` is bounded by `CnRetries` and `MaxLoss` alone. A timer fires
only when nothing of its subflow is in flight (`Quiet`): connection and
retransmission timeouts are seconds, a round trip is milliseconds in every
scenario. Three losses with two tries per SYN reach every end of a handshake:
the SYN, the SYN+ACK or the last ACK lost, the retries over at either end, and
the first data in place of the last ACK.

In `MpTcpClose`, `MaxData` bounds what is unsent when the run starts, and
`MaxClose = 2` is what the application does: once at its last byte, once in
`StopApplication`. `ChanCap` again holds back only timers, which otherwise
could fill the paths with copies. With two losses a FIN overtakes data that is
sent again, and the FIN+ACK is lost together with its one resend (the way to
the reset of `CloseReset`). A third loss falls on the late join in the middle
of that: its SYN, its SYN+ACK, or its last ACK, so that data or a FIN comes in
the place of the latter. `CnRetries = 2` lets the server send its SYN+ACK again
once and then give up. Two subflows are enough, because a subflow meets the
others only through the buffer, `scheduled` and a reset, and one other has all
of these. `CloseLive` has one loss and no late join because more is enough for
a reset, after which its properties do not hold.

Deadlock is checked in every run of the transfer and of the close, whose
`Stop` action is the empty event list; the handshake runs switch it off,
since a connection set up, or given up, has nothing left to do there.

### Fairness

ns-3 executes every event it holds in time order. So: weak fairness of the
application's and the sender's running loops (they are one event's code), of
the arrival of what is in flight on each subflow, of each pending timer, and
of the SYN+ACK of a join; in `MpTcpHandshake` and `MpTcpClose` of every
packet's handler, every timer and every scheduled `DoClose`. Losses are not
fair. Nothing forces the joins to begin, nor the application to write, to
connect or to close.

### What disagrees with comments and documentation

* `TransferJoinLost`. When the scan of `SendPendingData` (1748-1751) meets a
  subflow in `SYN_SENT` it executes `continue` without moving
  `lastUsedsFlowIdx`; it stays there, finds no window, and returns - on every
  later call too. The SYN of a join has no timer, so one lost SYN stops the
  connection for good although the first subflow is established. (A lost SYN+ACK
  does not: the server sends it again.) The comments at 1743 ("Send data as much as possible...") and 1215-1217 ("it
  might be a case that only initial subflow does the data delivery and rest of
  the subflows failed to established and remain in SYN_SENT!") expect
  otherwise.
* `HandshakeLostSynAck`. Only the first SYN+ACK carries MP_CAPABLE. If it is
  lost, the one sent again makes the client take the server for one that is
  not multipath capable, and `AdvertiseAvailableAddresses` stops the program,
  although 657 and 2192 say that the SYN+ACK is sent again to guard against
  its loss.
* `CloseHoles`. A FIN that overtook data is not consumed by the data that
  fills the hole, against the comment at 873: `SetFinSequence` counts the FIN
  only if it is the next number when it comes. The FIN's timer repairs it.
* `CloseReset`. If the FIN+ACK of the first subflow is lost until the server
  has closed it, the next FIN is answered with a reset, which closes all
  subflows with whatever they have in flight, through the callback that
  `socket.h`:160 documents for a graceful close.
* `CloseCurrentOnly`. `Close` with an empty send buffer closes the subflow used
  last and no other; the comment at 3214 says that it kills the socket.

## 4. What is proved

Every invariant that a run checks is also proved, for every value of the
constants. The assumptions are the named `ASSUME`s of the modules (positive
sizes and windows, `Wrap` above 1, late subflows other than the first) and,
for three theorems, a hypothesis in their statement: `NoSubflowIdles` and
`StopsWhenDone` suppose a window that does not wrap, `StopsWhenDone` also that
no join is lost, and `NetworkLosesOne` that no join is late and the network
loses at most one packet. Each
is explained below.

### The transfer

`MpTcpTransferProofs` and `MpTcpTransferSafety`:

* `TypeCorrect`: `Spec => []TypeOK`. `TypeOK` is inductive; one lemma per
  action shows that it preserves it.
* `TransferCorrect`: `Spec => []TransferInv`.
* `ReceiverSafe`, `SenderSafe`, `AcksSafe`, `DataSafe`: `ReceiverNeverAborts`,
  `SenderNeverAborts`, `AcksAreSound` and `NothingForgotten` follow from it.
* `TimerSafe` and `RecoverySafe`: `TimerCoversFlight` is inductive with the
  types, `RecoveryPointOutstanding` with `TransferInv`.

`TransferInv` has four parts. None of the four properties is inductive alone:
that the server never meets a segment that is new to its subflow and old to
the connection depends on which copies can be in flight, on what the sender
still keeps, and on the order in which data numbers were given to subflows.

* `SequenceNumbersInStep`: on each subflow `highestAck < RxSeqNumber <=
  maxSeqNb + 1`, `mapDSN` holds exactly the numbers from `highestAck + 1` to
  `maxSeqNb`, and packets, ACKs and stored segments lie in their ranges.
* `LogInOrder`: data numbers grow along a subflow and no number is on two.
* `CopiesAgree`: every copy in `mapDSN`, in flight or stored has the data
  number it was first sent with.
* `LevelsAgree`: a subflow has passed a segment exactly when the connection
  delivered it or stores it.

The argument distinguishes three kinds of steps. Most (ACKs, timeouts,
retransmissions, losses, the application, the joins) satisfy `KeepsInStep`:
they cut no new segment, do not touch the server, and put only copies of kept
segments in flight; `KeepsInStepInv` handles them all. `SendNewInv` handles
a new segment. The server's step is the hard one: in `DeliverInv`, the
subflow expectations after `ReadUnOrderedData` are compared with what the
connection expects, using that a data number belongs to one segment only
(`SameSegment`) and that it grows along a subflow (`LogMonotone`).

`MpTcpTransferRefinement` proves `TransferRefinesStream`: `Spec =>
ImplementsStream`, the safety half of the refinement. Every step is a `Write`,
`Send`, `Arrive` or `Forget` of `MptcpStream`, or leaves its variables alone.
`TransferInv` gives most of it (a delivered segment is the next one, an
acknowledged one was delivered), and one more invariant, `BufferCounts`, that
the buffer holds exactly what was written and not yet given to a subflow.

`MpTcpTransferProgress` proves that the sender does not stop with work left.

* `NoSubflowIdles`: `NoIdleSubflow` follows from `SchedulerRan` (between two
  runs of `SendPendingData` every subflow has something in flight or the buffer
  is empty) and `WindowOpens`: outside fast recovery the window is at least one
  segment. The window is an unsigned integer that nothing caps, so the second
  needs `WindowDoesNotWrap`, `2 * MaxData + 2 < Wrap`: the window is at most
  what was acknowledged plus what was sent, plus 2. Without the hypothesis the
  theorem is false: an ACK could bring the window from `Wrap - 1` to 0, and a
  subflow with nothing in flight would never send again. In the code that takes
  a connection of about half of 2^32 segments.
* `StopsWhenDone`: `StopsOnlyWhenDone`, from the same and three more invariants:
  an application that has not written everything has an event pending or waits
  for a full buffer (`ApplicationWaits`), a subflow in SYN_SENT has its answer
  under way (`JoinsArrive`), and what was cut is given to some subflow
  (`AllAreGiven`).
  The hypothesis `~JoinLoss` is needed: run `TransferJoinLost` is the
  counterexample.

### The handshake

`MpTcpHandshakeProofs` proves `TypeCorrect`, `WaitsAreTimed`
(`TimerCoversHandshake`), `NoPhantomSubflow` (`NoPhantom`) and
`AcknowledgedStays` (`AckedIsEstablished`), from the inductive invariant
`HandshakeInv`. To the three properties it adds what they lean on:

* `JoinsComeLast`: nobody joins before the client's first subflow is
  established;
* `ClosedTogether`: a client that gave up has no subflow left and no timer;
* `TimersInHandshake`: a timer is pending only where a handshake is open;
* `PacketsMean`: what a packet in flight says about its sender stays true
  however late it arrives. An ACK, for one, means that the client's subflow is
  established for good.

`SetupWithoutLoss` proves `LossFreeSetup`, with `SmoothInv` as the inductive
invariant beside `HandshakeInv`: as long as nothing is lost, each subflow is in
one of five stages (`Unopened`, `Asked`, `Answered`, `Confirmed`, `Opened`), and
in the three in the middle the packet that the waiting end needs is on its way.
So no timer of the handshake finds its subflow quiet, no reset is ever sent, the
SYN+ACK the client takes is the first one, which carries MP_CAPABLE, and a join
finds the connection at the server.

### The close

`MpTcpCloseProofs` proves `TypeCorrect`, `CloseIsTimed` (`TimerCoversClose`),
`CloseIsOrderly` (`CloseNeverResets`) and `FinAnswersAll`
(`FinMeansAllReceived`) from `CloseInv`:

* `Counted`: `TxSeqNumber` and `highestAck` keep their distance to the last
  number sent, and a subflow not yet established has sent nothing;
* `ClosesInOrder`: unless it was reset, a subflow leaves ESTABLISHED with an
  empty buffer and reaches TIME_WAIT with everything acknowledged;
* `FinIsLast`: the number of a FIN is the one after the subflow's last segment,
  and `RxSeqNumber` passes it only when the FIN came;
* `FlightFits`: the packets in flight lie in the ranges their type allows.

The point of the argument is that a FIN's number is `Len(sent) + 1` and that
nothing is appended to `sent` outside ESTABLISHED. So `RxSeqNumber` can reach
`Len(sent) + 2` only by the FIN itself, the FIN+ACK that carries it
acknowledges every segment, and the transition to CLOSING that the code would
never leave is not taken.

`MpTcpCloseSafety` proves what a graceful close means for the data:
`ClosesGracefully` (`GracefulClose`) and `NeverAborts` (`NoAbort`). `CloseInv`
counts segments and does not know which is where; `DeliveryInv` does:

* `GivenInOrder`: data numbers grow along a subflow, each is given to one
  segment, and none is left out;
* `CopiesAgree`: what is in flight or stored is a copy of what was sent;
* `LevelsAgree`: a subflow has passed a segment exactly when the connection
  delivered it or stores it;
* `AnswersAgree`: no answer promises more than the server has.

Only a new segment (`SegmentCut`) and data that arrives (`DataStored`,
`DataDelivered`) touch both the sent data and the server's numbers; every
other action is shown to be a `Frame` step, which keeps `DeliveryInv`. Were
something missing at a graceful close, the connection would expect a segment
that was sent on some subflow. That subflow has everything acknowledged, so it
has passed the segment, which is then neither delivered nor stored, against
`LevelsAgree`.

The same two invariants give `CloseRefinesStream`: `Spec =>
ClosingImplementsStream`. `SendNew` is `Send`; an ACK or FIN+ACK that raises
`highestAck` is `Forget`, because `AnswersAgree` keeps it below what the server's
subflow expects and `LevelsAgree` says that the server has what its subflow
passed; data that is new to its subflow is `Arrive`, if it is new to the
connection too; every other step leaves the stream's variables alone (`Unseen`).

`MpTcpCloseLoss` proves `ResetTakesLosses` (`ResetNeedsLoss`), and from it, for
a network that loses at most one packet and no late join, `NoReset`
(`NetworkLosesOne`). `Harmless` is the number of losses that reset nothing: 0
with a late join, otherwise 1. The invariant is `lost <= Harmless => LossInv`,
and `LossInv` has one part for each of the two ways to a reset:

* A closed end that is still spoken to (`EndsInv`). The client closes after the
  server's FIN+ACK only. The server may close before the client has it, by
  `m_lastAckEvent`, but its FIN+ACK has then left twice, ahead of any reset on
  the same path: with one loss, one of them is still in flight while the client
  waits in FIN_WAIT_1 (`FinAckUnderWay`), and taking it makes the client leave
  for TIME_WAIT, where a reset is ignored (`PeerDone`, `EndsAgree`).
* A FIN that meets SYN_RCVD (`JoinInv`, with `JoinAgrees`). As long as nothing
  was lost, a server in SYN_RCVD has a client that is still in SYN_SENT and has
  nothing else on its way, or finds the last ACK of the handshake ahead of all
  other packets of the subflow. A server that gives the subflow up drops what
  comes for it, and resets nothing.

Two losses are enough for a reset of the first kind: that is run `CloseReset`.

### What is only model-checked

Liveness is out of the prover's reach: `AllDelivered`, `TimeoutRecoveryEnds`,
`ImplementsFairStream`, `HandshakeSettles`, `JoinsComplete`, `EventuallyClosed`.

## 5. Plan

Done, in this order: the transfer with its abstract stream, its safety proofs,
the close with losses, the handshake with losses, the proofs of both, the
proofs that the transfer and the close implement the stream, and the proofs of
what holds only up to a number of losses or as long as the window does not wrap.

Left:

1. `MpTcpCongestion`: windows in bytes, the increase rules of the four coupled
   algorithms as functions, against the bounds of RFC 6356. The code computes
   them in floating point, so this needs rational arithmetic.
2. A composition of handshake, transfer and close over one set of paths. Each
   module now starts from the states the one before it ends in.

## 6. Running

    tlc -config TransferLoss.cfg MCTransfer
    tlc -config HandshakeLoss.cfg MCHandshake
    tlc -config CloseLoss.cfg MCClose
    tlapm MpTcpTransferProofs.tla
    tlapm MpTcpTransferSafety.tla
    tlapm MpTcpTransferRefinement.tla
    tlapm MpTcpTransferProgress.tla
    tlapm MpTcpHandshakeProofs.tla
    tlapm MpTcpCloseProofs.tla
    tlapm MpTcpCloseSafety.tla
    tlapm MpTcpCloseLoss.tla

A cfg is named after the MC module it belongs to: `Transfer*` to `MCTransfer`,
`Handshake*` to `MCHandshake`, `Close*` to `MCClose`. The passing runs take
from a few seconds to some minutes each.

## 7. Not modelled, and why

* The packet sink only counts bytes; that it closes its sockets when the
  scenario stops it comes after everything modelled here.
* The RTT estimator sets the length of timeouts, and the models let a pending
  timer fire at any moment.
* `MpTcpClose` and `MpTcpHandshake` have the answers of the TCP demultiplexer to
  a packet without a connection. What `m_TokenMap` hands to a JOIN that comes
  after the server's connection is gone is a pointer to a socket that may be
  destroyed; the models take such a join for unanswered.
* `NdiffPorts` and `Default` path managers: the scenarios use full mesh.
* The coupled increase rules, and the smooth transition out of slow start that
  the global `gsam` turns on in `OpenCWND`, are arithmetic on doubles; the
  models leave open by how much the window grows (`MpTcpTransfer`) or leave it
  open altogether (`MpTcpClose`).
* `InitiateSubflows` reads past the end of a vector when the client has more
  addresses than the server; `MpTcpHandshake` takes that for the program's end.
* The peer's window is the constant 65535 of `AdvertisedWindowSize`, here
  `RecvWnd`.
* The socket factory, the helpers and the scenarios in `scratch/` hold no
  protocol state. Stock ns-3 and the vendored onnxruntime are other
  projects' code, and are nearly all of the repository's lines: the protocol
  this project is about is in a few files of `src/internet/model` and
  `src/applications/model`.
