---------------------------- MODULE MCSendStream ----------------------------
(* Small instances of SendStream for TLC. *)
EXTENDS SendStream
=============================================================================
