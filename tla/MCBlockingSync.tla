--------------------------- MODULE MCBlockingSync ---------------------------
(* BlockingSync for TLC: one queue, whose lock is not Process::threadLock. *)
EXTENDS BlockingSync, TLC

CONSTANTS t1, t2, t3, bLock, q1

MCLockOf == q1 :> bLock
MCSymmetry == Permutations({t1, t2})
=============================================================================
