---------------------------- MODULE MCReplyStream ----------------------------
(* A small instance of ReplyStream for TLC.                                *)
EXTENDS ReplyStream
=============================================================================
