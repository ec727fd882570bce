------------------------------- MODULE MCSslKeys -------------------------------
(***************************************************************************)
(* An instance of SslKeys for TLC.                                         *)
(***************************************************************************)
EXTENDS SslKeys, TLC

===============================================================================
