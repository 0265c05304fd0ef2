---------------------------- MODULE MCHandshake ----------------------------
(* Model checking of the handshake: the constants get their values in the   *)
(* configurations.                                                         *)
EXTENDS MpTcpHandshake
=============================================================================
