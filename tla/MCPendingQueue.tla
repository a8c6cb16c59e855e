-------------------------- MODULE MCPendingQueue --------------------------
(* PendingQueue with two writes to one note. *)
EXTENDS PendingQueue, TLC

CONSTANTS n1, w1, w2

MCNoteOf == w1 :> n1 @@ w2 :> n1
===========================================================================
