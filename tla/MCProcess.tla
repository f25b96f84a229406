----------------------------- MODULE MCProcess ------------------------------
(* Process for TLC.                                                        *)
EXTENDS Process, TLC

CONSTANTS t1, t2, t3, q1, q2, q3

MCJoinQueue == [t \in Thread |-> CASE t = t1 -> q1 [] t = t2 -> q2 [] t = t3 -> q3]
MCQueue == {MCJoinQueue[t] : t \in Thread}
MCLockOf == [q \in MCQueue |-> ThreadLock]
=============================================================================
