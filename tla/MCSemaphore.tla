---------------------------- MODULE MCSemaphore -----------------------------
(* Semaphore for TLC.                                                      *)
EXTENDS Semaphore, TLC

CONSTANTS t1, t2, t3, semLock

MCLockOf == Sem :> semLock
MCSymmetry == Permutations({t2, t3})
=============================================================================
