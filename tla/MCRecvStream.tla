---------------------------- MODULE MCRecvStream ----------------------------
(* Small instances of RecvStream for TLC. *)
EXTENDS RecvStream
=============================================================================
