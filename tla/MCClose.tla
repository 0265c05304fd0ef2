------------------------------ MODULE MCClose ------------------------------
(* Model checking of closing: the constants get their values in the         *)
(* configurations.                                                         *)
EXTENDS MpTcpClose
=============================================================================
