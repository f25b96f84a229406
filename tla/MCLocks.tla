------------------------------ MODULE MCLocks -------------------------------
(* The three kinds of locks, each in states of its own: blocking mutexes,   *)
(* spin locks, and the benaphores of user programs.  `part' says which one  *)
(* moves, and only that one is treated fairly.  Threads that never nest     *)
(* their calls use an OwnerMutex as a Mutex.                                *)
EXTENDS Mutex, SpinLocks, UserSync, TLC

CONSTANTS t1, t2, t3, mtxLock

VARIABLE part

MCLockOf == Mtx :> mtxLock
MCMaxCalls == t1 :> 2 @@ t2 :> 2 @@ t3 :> 1

MCInit == part \in {"mutex", "spin", "user"} /\ MutexInit /\ SpinInit /\ UserInit
          /\ (part # "spin" => kind = "binary")

MCNext ==
  /\ UNCHANGED part
  /\ \/ part = "mutex" /\ MutexNext /\ UNCHANGED <<spinVars, userVars>>
     \/ part = "spin" /\ SpinNext /\ UNCHANGED <<allVars, userVars>>
     \/ part = "user" /\ UserNext /\ UNCHANGED <<allVars, spinVars>>

(* The fairness of MutexFairSpec and SpinSpec, for the part that moves.     *)
MCFairness ==
  /\ \A t \in Thread : WF_allVars(part = "mutex" /\ (ThreadStep(t) \/ CoreStep(t)))
  /\ WF_allVars(part = "mutex" /\ ClockStep /\ UNCHANGED mvars)
  /\ \A c \in SpinCpu : WF_spinVars(part = "spin" /\ SpinStep(c))

MCSpec == MCInit /\ [][MCNext]_<<part, allVars, spinVars, userVars>> /\ MCFairness
=============================================================================
