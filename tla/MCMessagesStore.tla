--------------------------- MODULE MCMessagesStore ---------------------------
(* Small instances of MessagesStore for TLC.                               *)
EXTENDS MessagesStore, TLC

SendSymmetry == Permutations(Sends)
=============================================================================
