---------------------------- MODULE MptcpStream ----------------------------
(***************************************************************************)
(* What an MPTCP connection promises for one direction of its data: what    *)
(* one side writes, the other side delivers, in order, once, and all of it, *)
(* and the writer may forget a segment only when the peer has it.  Nothing  *)
(* is said of subflows, windows, timers, ACKs or losses.                    *)
(***************************************************************************)
EXTENDS Integers

CONSTANT MaxData

VARIABLES
  written,    \* segments the application has written
  sent,       \* segments handed to the network at least once
  held,       \* segments the sender could send again
  have,       \* segments the receiver has
  delivered   \* segments the receiver has passed on: 1 .. delivered

streamVars == <<written, sent, held, have, delivered>>

\* The application may have written before the run starts.
StreamInit ==
  /\ written \in 0 .. MaxData /\ sent = 0 /\ delivered = 0
  /\ held = {} /\ have = {}

Write ==
  /\ written' \in written + 1 .. MaxData
  /\ UNCHANGED <<sent, held, have, delivered>>

Send ==
  /\ sent < written
  /\ sent' = sent + 1
  /\ held' = held \cup {sent + 1}
  /\ UNCHANGED <<written, have, delivered>>

\* A segment arrives for the first time, and all that is now in order is
\* delivered: up to the first segment that is missing.
Receive(d) ==
  /\ d \in held \ have
  /\ have' = have \cup {d}
  /\ delivered' \in delivered .. sent
  /\ 1 .. delivered' \subseteq have'
  /\ delivered' + 1 \notin have'
  /\ UNCHANGED <<written, sent, held>>

Forget ==
  /\ held' \in SUBSET held /\ held' # held
  /\ held \ held' \subseteq have
  /\ UNCHANGED <<written, sent, have, delivered>>

Arrive == \E d \in 1 .. sent : Receive(d)

StreamNext == Write \/ Send \/ Arrive \/ Forget

StreamSpec == StreamInit /\ [][StreamNext]_streamVars

\* Once a segment is written it is sent, what is sent arrives, and what
\* arrived is acknowledged.
FairStreamSpec ==
  /\ StreamSpec
  /\ WF_streamVars(Send) /\ WF_streamVars(Arrive) /\ WF_streamVars(Forget)
=============================================================================
