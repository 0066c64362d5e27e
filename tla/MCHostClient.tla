---------------------------- MODULE MCHostClient ----------------------------
(* HostClient on small instances: two registers of each kind, files of     *)
(* two words and a byte, two batches of a trace.                            *)
EXTENDS HostClient
=============================================================================
