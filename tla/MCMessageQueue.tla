--------------------------- MODULE MCMessageQueue ---------------------------
(* MessageQueue for TLC.                                                   *)
EXTENDS MessageQueue, TLC

CONSTANTS t1, t2, sendQ, recvQ, mqLock

MCQueueOf == [send |-> sendQ, recv |-> recvQ]
MCLockOf == sendQ :> mqLock @@ recvQ :> mqLock
=============================================================================
