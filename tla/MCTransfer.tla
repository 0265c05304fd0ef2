----------------------------- MODULE MCTransfer -----------------------------
(* Small instances of MpTcpTransfer for TLC: the .cfg files give the values. *)
EXTENDS MpTcpTransfer
=============================================================================
