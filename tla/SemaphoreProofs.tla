--------------------------- MODULE SemaphoreProofs --------------------------
(***************************************************************************)
(* Proofs about Semaphore: every step of the semaphore is a step of the    *)
(* blocking core, so that the core's theorems carry over; no token stays   *)
(* in the counter while a waiter could take it; and the semaphore          *)
(* implements SemaphoreSpec, for any number of threads, calls and tokens.  *)
(***************************************************************************)
EXTENDS Semaphore, BlockingSyncProofs, FiniteSetTheorems, Integers

-----------------------------------------------------------------------------
(* Whatever the semaphore's code does, the blocking core sees one of the   *)
(* steps it allows its clients.                                            *)
LEMMA StepOfCore ==
  ASSUME [SemNext]_allVars
  PROVE  [Next]_vars
  <1> USE ConstantsAssumption, SemaphoreAssumption
  <1>0. SemLock \in Lock /\ ThreadLock \in Lock
    BY DEF SemLock
  <1>1. CASE UNCHANGED allVars
    BY <1>1 DEF allVars
  <1>2. CASE CoreStep
    BY <1>2 DEF CoreStep, Next
  <1>3. ASSUME NEW t \in Thread, NEW c \in Calls, Enter(t, c) PROVE Client(t)
    BY <1>0, <1>3 DEF Enter, Client
  <1>4. ASSUME NEW t \in Thread, ThreadStep(t) PROVE Client(t) \/ UNCHANGED vars
    <2>1. CASE PTake(t)
      BY <1>0, <2>1 DEF PTake, Client
    <2>2. CASE PBlock(t)
      BY <2>2 DEF PBlock, Client
    <2>3. CASE PReturn(t)
      BY <2>3 DEF PReturn
    <2>4. CASE VResume(t)
      BY <2>4 DEF VResume, Client
    <2>5. CASE VIncrement(t)
      BY <1>0, <2>5 DEF VIncrement, Client
    <2>6. CASE VReturn(t)
      BY <2>6 DEF VReturn
    <2> QED BY <1>4, <2>1, <2>2, <2>3, <2>4, <2>5, <2>6 DEF ThreadStep
  <1>5. ASSUME NEW t \in Thread, CancelCall(t) PROVE Client(t)
    BY <1>0, <1>5 DEF CancelCall, Client
  <1> QED
    BY <1>1, <1>2, <1>3, <1>4, <1>5 DEF SemNext, Next

(* The semaphore runs on the blocking core as the core is specified: its   *)
(* theorems (OneWinner, InfoAlive, ResumedOnce, QueuesSound) hold in every *)
(* state of every use of a semaphore.                                      *)
THEOREM RunsOnCore == SemSpec => Spec
  <1>1. SemInit => Init
    BY DEF SemInit
  <1> QED BY <1>1, StepOfCore, PTL DEF SemSpec, Spec

-----------------------------------------------------------------------------
(* The initial states satisfy the invariant.                               *)
LEMMA SemInvInit == SemInit => SemInv
  <1> SUFFICES ASSUME SemInit PROVE SemInv
    OBVIOUS
  <1> USE ConstantsAssumption, SemaphoreAssumption
  <1>1. SemTypeOK
    BY DEF SemInit, SemTypeOK
  <1>2. CallsInv
    BY DEF SemInit, Init, CallsInv, Actor
  <1>3. TokensInv
    BY DEF SemInit, Init, TokensInv, NoneToWake, ToSet, Actor
  <1>4. GiveUpInv
    BY DEF SemInit, Init, GiveUpInv, NoWait, Actor
  <1> QED BY <1>1, <1>2, <1>3, <1>4 DEF SemInv

(* The counter is decremented only when it is positive.                    *)
LEMMA SemTypeStep ==
  ASSUME SemTypeOK, [SemNext]_allVars
  PROVE  SemTypeOK'
  <1> USE SemaphoreAssumption DEF SemTypeOK, Become, svars
  <1>1. CASE UNCHANGED allVars
    BY <1>1 DEF allVars
  <1>2. CASE CoreStep
    BY <1>2 DEF CoreStep
  <1>3. ASSUME NEW t \in Thread, NEW c \in Calls, Enter(t, c) PROVE SemTypeOK'
    BY <1>3 DEF Enter
  <1>4. ASSUME NEW t \in Thread, ThreadStep(t) PROVE SemTypeOK'
    <2>1. CASE PTake(t)
      BY <2>1 DEF PTake
    <2>2. CASE PBlock(t)
      BY <2>2 DEF PBlock, Waits
    <2>3. CASE PReturn(t) \/ VReturn(t)
      BY <2>3 DEF PReturn, VReturn
    <2>4. CASE VResume(t)
      BY <2>4 DEF VResume
    <2>5. CASE VIncrement(t)
      BY <2>5 DEF VIncrement
    <2> QED BY <1>4, <2>1, <2>2, <2>3, <2>4, <2>5 DEF ThreadStep
  <1>5. ASSUME NEW t \in Thread, CancelCall(t) PROVE SemTypeOK'
    BY <1>5 DEF CancelCall
  <1> QED
    BY <1>1, <1>2, <1>3, <1>4, <1>5 DEF SemNext

(* Every step keeps calls and control points together.                     *)
LEMMA CallsStep ==
  ASSUME Inv, SemInv, [SemNext]_allVars
  PROVE  CallsInv'
  <1>0. TypeOK /\ SemTypeOK /\ CallsInv
    BY DEF Inv, SemInv
  <1> USE <1>0, ConstantsAssumption, SemaphoreAssumption DEF Actor, CallsInv, Waits
  <1>1. CASE UNCHANGED allVars
    BY <1>1 DEF allVars, svars, vars, waitVars, unblockVars
  <1>2. ASSUME NEW t \in Thread, Step(t), UNCHANGED svars PROVE CallsInv'
    <2> USE <1>2 DEF svars
    <2>1. CASE TakeTimeoutLock(t)
      BY <2>1 DEF TypeOK, SemTypeOK, TakeTimeoutLock, Goto, waitVars, unblockVars
    <2>2. CASE BlockRefuse(t)
      BY <2>2 DEF TypeOK, SemTypeOK, BlockRefuse, Goto, unblockVars
    <2>3. CASE BlockCheck(t)
      BY <2>3 DEF TypeOK, SemTypeOK, BlockCheck, Goto, waitVars, unblockVars
    <2>4. CASE BlockStore(t)
      BY <2>4 DEF TypeOK, SemTypeOK, BlockStore, Goto, unblockVars
    <2>5. CASE SwitchOut(t)
      BY <2>5 DEF TypeOK, SemTypeOK, SwitchOut, Goto, waitVars, unblockVars
    <2>6. CASE Dispatch(t)
      BY <2>6 DEF TypeOK, SemTypeOK, Dispatch, Goto, waitVars, unblockVars
    <2>7. CASE SwitchIn(t)
      BY <2>7 DEF TypeOK, SemTypeOK, SwitchIn, Goto, unblockVars
    <2>8. CASE SwitchInCancelled(t)
      BY <2>8 DEF TypeOK, SemTypeOK, SwitchInCancelled, Goto, waitVars, unblockVars
    <2>9. CASE ScanSkip(t)
      BY <2>9 DEF TypeOK, SemTypeOK, ScanSkip, waitVars
    <2>10. CASE ScanClaim(t)
      BY <2>10 DEF TypeOK, SemTypeOK, ScanClaim, Goto
    <2>11. CASE ScanEnd(t)
      BY <2>11 DEF TypeOK, SemTypeOK, ScanEnd, Goto, waitVars
    <2>12. CASE CancelTimeout(t)
      BY <2>12 DEF TypeOK, SemTypeOK, CancelTimeout, Goto, unblockVars
    <2>13. CASE CancelEvent(t)
      <3>1. \A u \in Thread : info'[u].q = info[u].q /\ info'[u].timed = info[u].timed
        BY <2>13 DEF CancelEvent, TypeOK, WaitInfo, Inv, ClaimsInv
      <3> QED BY <2>13, <3>1 DEF TypeOK, SemTypeOK, CancelEvent, Goto, unblockVars
    <2>14. CASE CancelNoEvent(t)
      BY <2>14 DEF TypeOK, SemTypeOK, CancelNoEvent, Goto, waitVars, unblockVars
    <2>15. CASE Wake(t)
      BY <2>15 DEF TypeOK, SemTypeOK, Wake, Goto, waitVars
    <2>16. CASE CancelClaim(t)
      <3>1. cause[t] = "cancel"
        BY <2>16 DEF CancelClaim, Inv, ProgressInv
      <3> QED BY <2>16, <3>1 DEF TypeOK, SemTypeOK, CancelClaim, Goto, unblockVars
    <2>17. CASE CancelMiss(t)
      BY <2>17 DEF TypeOK, SemTypeOK, CancelMiss, Goto, waitVars
    <2>18. CASE Preempt(t)
      BY <2>18 DEF TypeOK, SemTypeOK, Preempt, Goto, waitVars, unblockVars
    <2>19. CASE Exit(t)
      BY <2>19 DEF TypeOK, SemTypeOK, Exit, Goto, waitVars, unblockVars
    <2> QED
      BY <1>2, <2>1, <2>2, <2>3, <2>4, <2>5, <2>6, <2>7, <2>8, <2>9, <2>10, <2>11, <2>12, <2>13, <2>14, <2>15, <2>16, <2>17, <2>18, <2>19 DEF Step
  <1>3. ASSUME ClockStep, UNCHANGED svars PROVE CallsInv'
    <2> USE <1>3 DEF svars
    <2>1. CASE ExpiryBegin
      BY <2>1 DEF TypeOK, SemTypeOK, ExpiryBegin, Goto, waitVars, unblockVars
    <2>2. ASSUME NEW v \in Thread, ExpiryCollect(v) PROVE CallsInv'
      BY <2>2 DEF TypeOK, SemTypeOK, ExpiryCollect, Expirable
    <2>3. CASE ExpiryCollected
      BY <2>3 DEF TypeOK, SemTypeOK, ExpiryCollected, Goto, waitVars, unblockVars
    <2>4. ASSUME NEW v \in Thread, ExpiryFire(v) PROVE CallsInv'
      BY <2>4 DEF TypeOK, SemTypeOK, ExpiryFire, Goto, waitVars
    <2>5. CASE CancelEvent(Clock)
      <3>1. \A u \in Thread : info'[u].q = info[u].q /\ info'[u].timed = info[u].timed
        BY <2>5 DEF CancelEvent, TypeOK, WaitInfo, Inv, ClaimsInv
      <3> QED BY <2>5, <3>1 DEF TypeOK, SemTypeOK, CancelEvent, Goto, unblockVars
    <2>6. CASE CancelNoEvent(Clock)
      BY <2>6 DEF TypeOK, SemTypeOK, CancelNoEvent, Goto, waitVars, unblockVars
    <2>7. CASE ExpiryWake
      BY <2>7 DEF TypeOK, SemTypeOK, ExpiryWake, Goto, waitVars
    <2>8. CASE ExpiryEnd
      BY <2>8 DEF TypeOK, SemTypeOK, ExpiryEnd, Goto, waitVars, unblockVars
    <2> QED
      BY <1>3, <2>1, <2>2, <2>3, <2>4, <2>5, <2>6, <2>7, <2>8 DEF ClockStep
  <1>4. ASSUME NEW t \in Thread, NEW c \in Calls, Enter(t, c) PROVE CallsInv'
    BY <1>4 DEF TypeOK, SemTypeOK, Enter, Acquire, Become, waitVars, unblockVars, Calls
  <1>5. ASSUME NEW t \in Thread, ThreadStep(t) PROVE CallsInv'
    <2>1. CASE PTake(t)
      BY <2>1 DEF TypeOK, SemTypeOK, PTake, Release, Become, waitVars, unblockVars
    <2>2. CASE PBlock(t)
      <3>1. ASSUME NEW timed \in BOOLEAN, Block(t, Sem, timed),
                   Become(t, IF timed THEN "waitTimedP" ELSE "waitP")
            PROVE  CallsInv'
        BY <3>1 DEF TypeOK, SemTypeOK, Block, Become, Goto, unblockVars
      <3>2. CASE BlockNot(t, Sem) /\ Become(t, "none")
        BY <3>2 DEF TypeOK, SemTypeOK, BlockNot, Become, waitVars, unblockVars
      <3> QED BY <2>2, <3>1, <3>2 DEF PBlock
    <2>3. CASE PReturn(t)
      BY <2>3 DEF TypeOK, SemTypeOK, PReturn, Become, vars, waitVars, unblockVars
    <2>4. CASE VResume(t)
      BY <2>4 DEF TypeOK, SemTypeOK, VResume, Resume, Become, Goto, waitVars
    <2>5. CASE VIncrement(t)
      BY <2>5 DEF TypeOK, SemTypeOK, VIncrement, Release, Become, waitVars, unblockVars
    <2>6. CASE VReturn(t)
      BY <2>6 DEF TypeOK, SemTypeOK, VReturn, Become, vars, waitVars, unblockVars
    <2> QED
      BY <1>5, <2>1, <2>2, <2>3, <2>4, <2>5, <2>6 DEF ThreadStep
  <1>6. ASSUME NEW t \in Thread, CancelCall(t) PROVE CallsInv'
    BY <1>6 DEF TypeOK, SemTypeOK, CancelCall, Acquire, Release, Cancel, Goto, Become, svars, waitVars, unblockVars
  <1> QED
    BY <1>1, <1>2, <1>3, <1>4, <1>5, <1>6 DEF SemNext, CoreStep

(* A thread that is about to enter the queue, or that scans it, has the    *)
(* semaphore's lock.                                                       *)
LEMMA HasSemLock ==
  ASSUME Inv, SemInv, NEW t \in Thread,
         pc[t] \in {"timed", "check", "store", "switch", "scan"}
  PROVE  lock[SemLock] = t
  <1>1. pc[t] # "scan" => info[t].q = Sem
    BY DEF SemInv, CallsInv
  <1>2. pc[t] = "scan" => scan[t].q = Sem
    BY DEF SemInv, CallsInv
  <1>3. Sem # NoQueue
    BY ConstantsAssumption, SemaphoreAssumption
  <1> QED BY <1>1, <1>2, <1>3 DEF Inv, LocksInv, SemLock

(* Every step keeps tokens and waiters apart.                              *)
LEMMA TokensStep ==
  ASSUME Inv, SemInv, [SemNext]_allVars
  PROVE  TokensInv'
  <1>0. TypeOK /\ SemTypeOK /\ TokensInv
    BY DEF Inv, SemInv
  <1>s. Sem \in Queue /\ SemLock \in Lock
    BY ConstantsAssumption, SemaphoreAssumption DEF SemLock
  <1>t. ToSet(queue[Sem]) \subseteq Thread /\ \A i \in 1 .. Len(queue[Sem]) : queue[Sem][i] \in Thread
    BY <1>0, <1>s DEF TypeOK, ToSet
  <1>l. \A t \in Thread : pc[t] \in {"timed", "check", "store", "switch", "scan"} => lock[SemLock] = t
    BY HasSemLock
  <1>c. \A t \in Thread : /\ pc[t] \in {"check", "on", "claim"} => call[t] # "posting"
                          /\ pc[t] # "sleep"
    BY DEF SemInv, CallsInv, Waits
  <1> USE <1>0, <1>s, <1>t, <1>l, <1>c, ConstantsAssumption, SemaphoreAssumption
      DEF Actor, TokensInv, NoneToWake
  <1>1. CASE UNCHANGED allVars
    BY <1>1 DEF allVars, svars, vars, waitVars, unblockVars
  <1>2. ASSUME NEW t \in Thread, Step(t), UNCHANGED svars PROVE TokensInv'
    <2> USE <1>2 DEF svars
    <2>1. CASE TakeTimeoutLock(t)
      <3>1. pc[t] = "timed" /\ counter = 0
        BY <2>1 DEF TakeTimeoutLock
      <3>2. lock'[SemLock] = lock[SemLock]
        BY <2>1 DEF TakeTimeoutLock, TypeOK
      <3> QED BY <2>1, <3>1, <3>2 DEF TypeOK, TakeTimeoutLock, Goto, waitVars, unblockVars
    <2>2. CASE BlockRefuse(t)
      <3>1. pc[t] = "check" /\ call[t] # "posting" /\ lock[SemLock] = t
        BY <2>2 DEF BlockRefuse
      <3>2. \A u \in Thread : u # t => /\ pc[u] \notin {"timed", "check", "store", "switch", "scan"}
                                       /\ ~ (call[u] = "posting" /\ pc[u] = "run" /\ ~ result[u])
        BY <3>1
      <3> QED BY <2>2, <3>1, <3>2 DEF TypeOK, BlockRefuse, Goto, unblockVars
    <2>3. CASE BlockCheck(t)
      BY <2>3 DEF TypeOK, SemTypeOK, BlockCheck, Goto, waitVars, unblockVars
    <2>4. CASE BlockStore(t)
      <3>1. pc[t] = "store" /\ lock[SemLock] = t /\ counter = 0
        BY <2>4 DEF BlockStore
      <3>2. /\ pc' = [pc EXCEPT ![t] = "switch"] /\ counter' = counter
            /\ UNCHANGED <<call, lock, result>>
        BY <2>4 DEF BlockStore, Goto
      <3>3. \A u \in Thread : u # t => /\ pc[u] \notin {"timed", "check", "store", "switch", "scan"}
                                       /\ ~ (call[u] = "posting" /\ pc[u] = "run" /\ ~ result[u])
        BY <3>1
      <3> QED BY <3>1, <3>2, <3>3 DEF TypeOK
    <2>5. CASE SwitchOut(t)
      BY <2>5 DEF TypeOK, SemTypeOK, SwitchOut, Goto, waitVars, unblockVars
    <2>6. CASE Dispatch(t)
      BY <2>6 DEF TypeOK, SemTypeOK, Dispatch, Goto, waitVars, unblockVars
    <2>7. CASE SwitchIn(t)
      <3>1. pc[t] = "on" /\ call[t] # "posting"
        BY <2>7 DEF SwitchIn
      <3> QED BY <2>7, <3>1 DEF TypeOK, SwitchIn, Goto, unblockVars
    <2>8. CASE SwitchInCancelled(t)
      BY <2>8 DEF TypeOK, SemTypeOK, SwitchInCancelled, Goto, waitVars, unblockVars
    <2>9. CASE ScanSkip(t)
      <3>1. scan[t].q = Sem /\ pc[t] = "scan" /\ scan[t] \in ScanPos
        BY <2>9 DEF ScanSkip, SemInv, CallsInv, TypeOK
      <3>2. /\ ~ unblockInfo[queue[Sem][scan[t].i]]
            /\ scan'[t].i = scan[t].i + 1
            /\ \A u \in Thread : u # t => scan'[u] = scan[u]
            /\ UNCHANGED <<pc, lock, result, queue, unblockInfo, call, counter>>
        BY <2>9, <3>1 DEF ScanSkip, TypeOK, ScanPos, waitVars
      <3>3. \A i \in 1 .. Len(queue[Sem]) : i < scan'[t].i => ~ unblockInfo[queue[Sem][i]]
        <4> SUFFICES ASSUME NEW i \in 1 .. Len(queue[Sem]), i < scan'[t].i
                     PROVE  ~ unblockInfo[queue[Sem][i]]
          OBVIOUS
        <4>1. i < scan[t].i \/ i = scan[t].i
          BY <3>1, <3>2 DEF ScanPos, TypeOK
        <4> QED BY <4>1, <3>1, <3>2
      <3>4. \A u \in Thread : u # t => pc[u] # "scan"
        BY <3>1
      <3> QED BY <3>2, <3>3, <3>4
    <2>10. CASE ScanClaim(t)
      <3>1. scan[t].q = Sem /\ pc[t] = "scan" /\ lock[SemLock] = t
        BY <2>10 DEF ScanClaim, SemInv, CallsInv
      <3> DEFINE v == queue[Sem][scan[t].i]
      <3>2. v \in Thread /\ v \in ToSet(queue[Sem]) /\ unblockInfo[v]
        BY <2>10, <3>1, ScanTarget DEF ScanClaim
      <3>3. /\ pc' = [pc EXCEPT ![t] = "erase"]
            /\ queue' = [queue EXCEPT ![Sem] = Unlink(queue[Sem], v)]
            /\ unblockInfo' = [unblockInfo EXCEPT ![v] = FALSE]
            /\ UNCHANGED <<call, counter, result>>
        BY <2>10, <3>1 DEF ScanClaim, Goto
      <3>4. counter = 0
        BY <3>2 DEF SemTypeOK
      <3>5. \A u \in Thread : u # t => /\ pc[u] \notin {"timed", "check", "store", "switch", "scan"}
                                       /\ ~ (call[u] = "posting" /\ pc[u] = "run" /\ ~ result[u])
        BY <3>1
      <3> HIDE DEF v
      <3> QED BY <3>1, <3>3, <3>4, <3>5 DEF TypeOK
    <2>11. CASE ScanEnd(t)
      <3>1. scan[t].q = Sem /\ pc[t] = "scan" /\ lock[SemLock] = t /\ scan[t].i \in Nat
        BY <2>11 DEF ScanEnd, SemInv, CallsInv, TypeOK, ScanPos
      <3>2. NoneToWake
        <4> SUFFICES ASSUME NEW u \in ToSet(queue[Sem]) PROVE ~ unblockInfo[u]
          OBVIOUS
        <4>1. queue[Sem] \in Seq(Thread)
          BY DEF TypeOK
        <4>2. PICK i \in 1 .. Len(queue[Sem]) : u = queue[Sem][i]
          BY <4>1 DEF ToSet
        <4>3. i < scan[t].i
          BY <2>11, <3>1, <4>1 DEF ScanEnd
        <4> QED BY <3>1, <4>2, <4>3
      <3>3. \A u \in Thread : u # t => /\ pc[u] \notin {"timed", "check", "store", "switch", "scan"}
        BY <3>1
      <3> QED BY <2>11, <3>1, <3>2, <3>3 DEF TypeOK, ScanEnd, Goto, waitVars
    <2>12. CASE CancelTimeout(t)
      BY <2>12 DEF TypeOK, SemTypeOK, CancelTimeout, Goto, unblockVars
    <2>13. CASE CancelEvent(t)
      <3>1. victim[t] \in Thread /\ info[victim[t]].q \in Queue
        BY <2>13 DEF CancelEvent, TypeOK, WaitInfo, Inv, ClaimsInv
      <3>2. CASE info[victim[t]].q # Sem
        <4>1. queue'[Sem] = queue[Sem]
          BY <2>13, <3>2 DEF CancelEvent, TypeOK
        <4> QED BY <2>13, <4>1 DEF TypeOK, CancelEvent, Goto, unblockVars
      <3>3. CASE info[victim[t]].q = Sem
        <4>1. lock[SemLock] = Nobody
          BY <2>13, <3>3 DEF CancelEvent, SemLock
        <4>2. \A u \in Thread : /\ pc[u] \notin {"timed", "check", "store", "switch", "scan"}
                                /\ ~ (call[u] = "posting" /\ pc[u] = "run" /\ ~ result[u])
          BY <4>1
        <4>3. ToSet(queue'[Sem]) \subseteq ToSet(queue[Sem])
          <5>1. queue'[Sem] = Unlink(queue[Sem], victim[t])
            BY <2>13, <3>3 DEF CancelEvent, TypeOK
          <5>2. queue[Sem] \in Seq(Thread) /\ IsInjective(queue[Sem])
            BY DEF TypeOK, Inv, ListsInv
          <5> QED BY <5>1, <5>2, <3>1, UnlinkList
        <4>4. /\ pc' = [pc EXCEPT ![t] = "wake"]
              /\ UNCHANGED <<lock, result, unblockInfo, call, counter>>
          BY <2>13 DEF CancelEvent, Goto
        <4> QED BY <4>2, <4>3, <4>4 DEF TypeOK
      <3> QED BY <3>2, <3>3
    <2>14. CASE CancelNoEvent(t)
      BY <2>14 DEF TypeOK, SemTypeOK, CancelNoEvent, Goto, waitVars, unblockVars
    <2>15. CASE Wake(t)
      BY <2>15 DEF TypeOK, SemTypeOK, Wake, Goto, waitVars
    <2>16. CASE CancelClaim(t)
      BY <2>16 DEF TypeOK, SemTypeOK, CancelClaim, Goto, unblockVars
    <2>17. CASE CancelMiss(t)
      <3>1. pc[t] = "claim" /\ call[t] # "posting"
        BY <2>17 DEF CancelMiss
      <3> QED BY <2>17, <3>1 DEF TypeOK, CancelMiss, Goto, waitVars
    <2>18. CASE Preempt(t)
      BY <2>18 DEF TypeOK, SemTypeOK, Preempt, Goto, waitVars, unblockVars
    <2>19. CASE Exit(t)
      BY <2>19 DEF TypeOK, SemTypeOK, Exit, Goto, waitVars, unblockVars
    <2> QED
      BY <1>2, <2>1, <2>2, <2>3, <2>4, <2>5, <2>6, <2>7, <2>8, <2>9, <2>10, <2>11, <2>12, <2>13, <2>14, <2>15, <2>16, <2>17, <2>18, <2>19 DEF Step
  <1>3. ASSUME ClockStep, UNCHANGED svars PROVE TokensInv'
    <2> USE <1>3 DEF svars
    <2>1. CASE ExpiryBegin
      BY <2>1 DEF TypeOK, SemTypeOK, ExpiryBegin, Goto, waitVars, unblockVars
    <2>2. ASSUME NEW v \in Thread, ExpiryCollect(v) PROVE TokensInv'
      BY <2>2 DEF TypeOK, SemTypeOK, ExpiryCollect, Expirable
    <2>3. CASE ExpiryCollected
      BY <2>3 DEF TypeOK, SemTypeOK, ExpiryCollected, Goto, waitVars, unblockVars
    <2>4. ASSUME NEW v \in Thread, ExpiryFire(v) PROVE TokensInv'
      BY <2>4 DEF TypeOK, SemTypeOK, ExpiryFire, Goto, waitVars
    <2>5. CASE CancelEvent(Clock)
      <3>1. victim[Clock] \in Thread /\ info[victim[Clock]].q \in Queue
        BY <2>5 DEF CancelEvent, TypeOK, WaitInfo, Inv, ClaimsInv
      <3>2. CASE info[victim[Clock]].q # Sem
        <4>1. queue'[Sem] = queue[Sem]
          BY <2>5, <3>2 DEF CancelEvent, TypeOK
        <4> QED BY <2>5, <4>1 DEF TypeOK, CancelEvent, Goto, unblockVars
      <3>3. CASE info[victim[Clock]].q = Sem
        <4>1. lock[SemLock] = Nobody
          BY <2>5, <3>3 DEF CancelEvent, SemLock
        <4>2. \A u \in Thread : /\ pc[u] \notin {"timed", "check", "store", "switch", "scan"}
                                /\ ~ (call[u] = "posting" /\ pc[u] = "run" /\ ~ result[u])
          BY <4>1
        <4>3. ToSet(queue'[Sem]) \subseteq ToSet(queue[Sem])
          <5>1. queue'[Sem] = Unlink(queue[Sem], victim[Clock])
            BY <2>5, <3>3 DEF CancelEvent, TypeOK
          <5>2. queue[Sem] \in Seq(Thread) /\ IsInjective(queue[Sem])
            BY DEF TypeOK, Inv, ListsInv
          <5> QED BY <5>1, <5>2, <3>1, UnlinkList
        <4>4. /\ pc' = [pc EXCEPT ![Clock] = "wake"]
              /\ UNCHANGED <<lock, result, unblockInfo, call, counter>>
          BY <2>5 DEF CancelEvent, Goto
        <4> QED BY <4>2, <4>3, <4>4 DEF TypeOK
      <3> QED BY <3>2, <3>3
    <2>6. CASE CancelNoEvent(Clock)
      BY <2>6 DEF TypeOK, SemTypeOK, CancelNoEvent, Goto, waitVars, unblockVars
    <2>7. CASE ExpiryWake
      BY <2>7 DEF TypeOK, SemTypeOK, ExpiryWake, Goto, waitVars
    <2>8. CASE ExpiryEnd
      BY <2>8 DEF TypeOK, SemTypeOK, ExpiryEnd, Goto, waitVars, unblockVars
    <2> QED
      BY <1>3, <2>1, <2>2, <2>3, <2>4, <2>5, <2>6, <2>7, <2>8 DEF ClockStep
  <1>4. ASSUME NEW t \in Thread, NEW c \in Calls, Enter(t, c) PROVE TokensInv'
    BY <1>4 DEF TypeOK, SemTypeOK, Enter, Acquire, Become, waitVars, unblockVars, Calls
  <1>5. ASSUME NEW t \in Thread, ThreadStep(t) PROVE TokensInv'
    <2>1. CASE PTake(t)
      <3>1. pc[t] = "run" /\ lock[SemLock] = t
        BY <2>1 DEF PTake, Release, Holds
      <3>2. \A u \in Thread : u # t => /\ pc[u] \notin {"timed", "check", "store", "switch", "scan"}
                                       /\ ~ (call[u] = "posting" /\ pc[u] = "run" /\ ~ result[u])
        BY <3>1
      <3> QED BY <2>1, <3>1, <3>2 DEF SemTypeOK, PTake, Release, Become, waitVars, unblockVars
    <2>2. CASE PBlock(t)
      <3>1. ASSUME NEW timed \in BOOLEAN, Block(t, Sem, timed),
                   Become(t, IF timed THEN "waitTimedP" ELSE "waitP"), counter < 1, UNCHANGED counter
            PROVE  TokensInv'
        BY <3>1 DEF TypeOK, SemTypeOK, Block, Become, Goto, unblockVars
      <3>2. CASE BlockNot(t, Sem) /\ Become(t, "none") /\ UNCHANGED counter
        BY <3>2 DEF TypeOK, SemTypeOK, BlockNot, Holds, SemLock, Become, waitVars, unblockVars
      <3> QED BY <2>2, <3>1, <3>2 DEF PBlock
    <2>3. CASE PReturn(t)
      BY <2>3 DEF TypeOK, SemTypeOK, PReturn, Become, vars, waitVars, unblockVars
    <2>4. CASE VResume(t)
      <3>1. pc[t] = "run" /\ lock[SemLock] = t
        BY <2>4 DEF VResume, Resume, Holds, SemLock
      <3>2. \A u \in Thread : u # t => /\ pc[u] \notin {"timed", "check", "store", "switch", "scan"}
                                       /\ ~ (call[u] = "posting" /\ pc[u] = "run" /\ ~ result[u])
        BY <3>1
      <3>3. \A i \in 1 .. Len(queue[Sem]) : ~ (i < 1)
        BY DEF TypeOK
      <3> QED BY <2>4, <3>1, <3>2, <3>3 DEF TypeOK, SemTypeOK, VResume, Resume, Become, Goto, waitVars
    <2>5. CASE VIncrement(t)
      <3>1. pc[t] = "run" /\ lock[SemLock] = t /\ NoneToWake
        BY <2>5 DEF VIncrement, Release, Holds
      <3>2. \A u \in Thread : u # t => /\ pc[u] \notin {"timed", "check", "store", "switch", "scan"}
                                       /\ ~ (call[u] = "posting" /\ pc[u] = "run" /\ ~ result[u])
        BY <3>1
      <3> QED BY <2>5, <3>1, <3>2 DEF SemTypeOK, VIncrement, Release, Become, waitVars, unblockVars
    <2>6. CASE VReturn(t)
      BY <2>6 DEF TypeOK, SemTypeOK, VReturn, Become, vars, waitVars, unblockVars
    <2> QED
      BY <1>5, <2>1, <2>2, <2>3, <2>4, <2>5, <2>6 DEF ThreadStep
  <1>6. ASSUME NEW t \in Thread, CancelCall(t) PROVE TokensInv'
    <2>1. CASE Acquire(t, ThreadLock) /\ Become(t, "cancel") /\ call[t] = "none" /\ UNCHANGED counter
      BY <2>1 DEF TypeOK, SemTypeOK, Acquire, Become, waitVars, unblockVars
    <2>2. ASSUME NEW v \in Thread, Cancel(t, v), call[t] = "cancel", UNCHANGED svars PROVE TokensInv'
      BY <2>2 DEF TypeOK, SemTypeOK, Cancel, Goto, svars, waitVars
    <2>3. CASE Release(t, ThreadLock) /\ Become(t, "none") /\ call[t] = "cancel" /\ UNCHANGED counter
      BY <2>3 DEF TypeOK, SemTypeOK, Release, Holds, Become, waitVars, unblockVars
    <2> QED BY <1>6, <2>1, <2>2, <2>3 DEF CancelCall
  <1> QED
    BY <1>1, <1>2, <1>3, <1>4, <1>5, <1>6 DEF SemNext, CoreStep

(* Every step keeps to what may end a wait without a token.                *)
LEMMA GiveUpStep ==
  ASSUME Inv, SemInv, [SemNext]_allVars
  PROVE  GiveUpInv'
  <1>0. TypeOK /\ SemTypeOK /\ GiveUpInv
    BY DEF Inv, SemInv
  <1>c. \A t \in Thread : /\ pc[t] \in {"check", "store", "switch", "off", "on"} => call[t] \in Waits
                          /\ pc[t] \in {"scan", "claim", "erase", "remove", "wake"} => call[t] \notin Waits
                          /\ pc[t] # "sleep"
                          /\ call[t] = "waitP" /\ pc[t] \in {"switch", "off"} => ~ info[t].timed
    BY DEF SemInv, CallsInv, Waits
  <1>p. /\ \A v \in fireList : info[v].timed
        /\ \A t \in Thread : pc[t] = "claim" => cause[t] = "cancel"
    BY DEF Inv, ProgressInv
  <1>v. /\ \A a \in Actor : pc[a] \in {"claim", "erase", "remove", "wake"} => victim[a] \in Thread
        /\ \A a \in Actor : pc[a] \in {"erase", "remove", "wake"} =>
             pc[victim[a]] \in {"switch", "off"} /\ ~ unblockInfo[victim[a]]
        /\ \A v \in Thread : unblockInfo[v] => pc[v] \in {"switch", "off"}
        /\ \A v \in fireList : v \in Thread /\ pc[v] \in {"switch", "off"}
    BY <1>0 DEF TypeOK, Inv, ClaimsInv, Claims, Unblocking, Waiting, Actor
  <1> USE <1>0, <1>c, <1>p, <1>v, ConstantsAssumption, SemaphoreAssumption DEF Actor, GiveUpInv, Waits
  <1>1. CASE UNCHANGED allVars
    BY <1>1 DEF allVars, svars, vars, waitVars, unblockVars
  <1>2. ASSUME NEW t \in Thread, Step(t), UNCHANGED svars PROVE GiveUpInv'
    <2> USE <1>2 DEF svars
    <2>1. CASE TakeTimeoutLock(t)
      BY <2>1 DEF TypeOK, SemTypeOK, TakeTimeoutLock, Goto, waitVars, unblockVars
    <2>2. CASE BlockRefuse(t)
      <3>1. /\ pc[Clock] = "remove" => victim[Clock] # t
            /\ \A u \in Thread : u # t => info'[u] = info[u]
        BY <2>2 DEF BlockRefuse, TypeOK
      <3>2. ~ unblockInfo[t]
        BY <2>2 DEF BlockRefuse
      <3>3. t \in Cancellable
        BY <2>2 DEF BlockRefuse
      <3> QED BY <2>2, <3>1, <3>2, <3>3 DEF TypeOK, BlockRefuse, Goto, unblockVars
    <2>3. CASE BlockCheck(t)
      BY <2>3 DEF TypeOK, SemTypeOK, BlockCheck, Goto, waitVars, unblockVars
    <2>4. CASE BlockStore(t)
      BY <2>4 DEF TypeOK, SemTypeOK, BlockStore, Goto, unblockVars
    <2>5. CASE SwitchOut(t)
      BY <2>5 DEF TypeOK, SemTypeOK, SwitchOut, Goto, waitVars, unblockVars
    <2>6. CASE Dispatch(t)
      BY <2>6 DEF TypeOK, SemTypeOK, Dispatch, Goto, waitVars, unblockVars
    <2>7. CASE SwitchIn(t)
      <3>1. /\ pc[Clock] = "remove" => victim[Clock] # t
            /\ \A u \in Thread : u # t => info'[u] = info[u]
        BY <2>7 DEF SwitchIn, TypeOK
      <3>2. ~ unblockInfo[t]
        BY <2>7 DEF SwitchIn
      <3>3. call[t] = "waitP" /\ ~ result'[t] => t \in Cancellable
        BY <2>7 DEF SwitchIn, TypeOK, WaitInfo
      <3>4. \A u \in Thread : u # t => result'[u] = result[u]
        BY <2>7 DEF SwitchIn, TypeOK
      <3> QED BY <2>7, <3>1, <3>2, <3>3, <3>4 DEF TypeOK, SwitchIn, Goto, unblockVars
    <2>8. CASE SwitchInCancelled(t)
      BY <2>8 DEF TypeOK, SemTypeOK, SwitchInCancelled, Goto, waitVars, unblockVars
    <2>9. CASE ScanSkip(t)
      BY <2>9 DEF TypeOK, SemTypeOK, ScanSkip, waitVars
    <2>10. CASE ScanClaim(t)
      <3> DEFINE v == queue[scan[t].q][scan[t].i]
      <3>1. v \in Thread
        BY <2>10, ScanTarget
      <3>2. /\ pc[t] = "scan" /\ pc' = [pc EXCEPT ![t] = "erase"]
            /\ cause' = [cause EXCEPT ![t] = "event"]
            /\ victim' = [victim EXCEPT ![t] = v]
            /\ unblockInfo' = [unblockInfo EXCEPT ![v] = FALSE]
            /\ UNCHANGED <<info, state, call, result>>
        BY <2>10 DEF ScanClaim, Goto
      <3> HIDE DEF v
      <3> QED BY <3>1, <3>2 DEF TypeOK
    <2>11. CASE ScanEnd(t)
      BY <2>11 DEF TypeOK, SemTypeOK, ScanEnd, Goto, waitVars
    <2>12. CASE CancelTimeout(t)
      BY <2>12 DEF TypeOK, SemTypeOK, CancelTimeout, Goto, unblockVars
    <2>13. CASE CancelEvent(t)
      <3>1. victim[t] \in Thread /\ pc[t] = "remove" /\ pc[victim[t]] \in {"switch", "off"}
        BY <2>13 DEF CancelEvent
      <3>2. /\ \A u \in Thread : u # victim[t] => info'[u] = info[u]
            /\ info'[victim[t]].timed = info[victim[t]].timed
        BY <2>13, <3>1 DEF CancelEvent, TypeOK, WaitInfo
      <3>3. call[victim[t]] = "waitP" => victim[t] \in Cancellable
        BY <3>1
      <3>4. ~ unblockInfo[victim[t]]
        BY <3>1
      <3> QED BY <2>13, <3>1, <3>2, <3>3, <3>4 DEF TypeOK, CancelEvent, Goto, unblockVars
    <2>14. CASE CancelNoEvent(t)
      BY <2>14 DEF TypeOK, SemTypeOK, CancelNoEvent, Goto, waitVars, unblockVars
    <2>15. CASE Wake(t)
      BY <2>15 DEF TypeOK, SemTypeOK, Wake, Goto, waitVars
    <2>16. CASE CancelClaim(t)
      BY <2>16 DEF TypeOK, SemTypeOK, CancelClaim, Goto, unblockVars
    <2>17. CASE CancelMiss(t)
      BY <2>17 DEF TypeOK, SemTypeOK, CancelMiss, Goto, waitVars
    <2>18. CASE Preempt(t)
      BY <2>18 DEF TypeOK, SemTypeOK, Preempt, Goto, waitVars, unblockVars
    <2>19. CASE Exit(t)
      BY <2>19 DEF TypeOK, SemTypeOK, Exit, Goto, waitVars, unblockVars
    <2> QED
      BY <1>2, <2>1, <2>2, <2>3, <2>4, <2>5, <2>6, <2>7, <2>8, <2>9, <2>10, <2>11, <2>12, <2>13, <2>14, <2>15, <2>16, <2>17, <2>18, <2>19 DEF Step
  <1>3. ASSUME ClockStep, UNCHANGED svars PROVE GiveUpInv'
    <2> USE <1>3 DEF svars
    <2>1. CASE ExpiryBegin
      BY <2>1 DEF TypeOK, SemTypeOK, ExpiryBegin, Goto, waitVars, unblockVars
    <2>2. ASSUME NEW v \in Thread, ExpiryCollect(v) PROVE GiveUpInv'
      BY <2>2 DEF TypeOK, SemTypeOK, ExpiryCollect, Expirable
    <2>3. CASE ExpiryCollected
      BY <2>3 DEF TypeOK, SemTypeOK, ExpiryCollected, Goto, waitVars, unblockVars
    <2>4. ASSUME NEW v \in Thread, ExpiryFire(v) PROVE GiveUpInv'
      BY <2>4 DEF TypeOK, SemTypeOK, ExpiryFire, Goto, waitVars
    <2>5. CASE CancelEvent(Clock)
      <3>1. victim[Clock] \in Thread /\ pc[Clock] = "remove" /\ pc[victim[Clock]] \in {"switch", "off"}
        BY <2>5 DEF CancelEvent
      <3>2. /\ \A u \in Thread : u # victim[Clock] => info'[u] = info[u]
            /\ info'[victim[Clock]].timed = info[victim[Clock]].timed
        BY <2>5, <3>1 DEF CancelEvent, TypeOK, WaitInfo
      <3>3. call[victim[Clock]] = "waitP" => victim[Clock] \in Cancellable
        BY <3>1
      <3>4. ~ unblockInfo[victim[Clock]]
        BY <3>1
      <3> QED BY <2>5, <3>1, <3>2, <3>3, <3>4 DEF TypeOK, CancelEvent, Goto, unblockVars
    <2>6. CASE CancelNoEvent(Clock)
      BY <2>6 DEF TypeOK, SemTypeOK, CancelNoEvent, Goto, waitVars, unblockVars
    <2>7. CASE ExpiryWake
      BY <2>7 DEF TypeOK, SemTypeOK, ExpiryWake, Goto, waitVars
    <2>8. CASE ExpiryEnd
      BY <2>8 DEF TypeOK, SemTypeOK, ExpiryEnd, Goto, waitVars, unblockVars
    <2> QED
      BY <1>3, <2>1, <2>2, <2>3, <2>4, <2>5, <2>6, <2>7, <2>8 DEF ClockStep
  <1>4. ASSUME NEW t \in Thread, NEW c \in Calls, Enter(t, c) PROVE GiveUpInv'
    BY <1>4 DEF TypeOK, SemTypeOK, Enter, Acquire, Become, waitVars, unblockVars, Calls
  <1>5. ASSUME NEW t \in Thread, ThreadStep(t) PROVE GiveUpInv'
    <2>1. CASE PTake(t)
      BY <2>1 DEF TypeOK, SemTypeOK, PTake, Release, Become, waitVars, unblockVars
    <2>2. CASE PBlock(t)
      <3>1. ASSUME NEW timed \in BOOLEAN, Block(t, Sem, timed),
                   Become(t, IF timed THEN "waitTimedP" ELSE "waitP")
            PROVE  GiveUpInv'
        <4>1. /\ pc[Clock] = "remove" => victim[Clock] # t
              /\ \A u \in Thread : u # t => info'[u] = info[u]
              /\ ~ info'[t].timedOut
          BY <3>1 DEF Block, TypeOK
        <4>2. pc[t] = "run" /\ pc'[t] \in {"timed", "check"} /\ \A u \in Actor : u # t => pc'[u] = pc[u]
          BY <3>1 DEF Block, Goto, TypeOK
        <4>3. UNCHANGED <<state, cause, victim, unblockInfo, result>> /\ \A u \in Thread : u # t => call'[u] = call[u]
          BY <3>1 DEF Block, Become, SemTypeOK, unblockVars
        <4> QED BY <4>1, <4>2, <4>3
      <3>2. CASE BlockNot(t, Sem) /\ Become(t, "none")
        BY <3>2 DEF TypeOK, SemTypeOK, BlockNot, Become, waitVars, unblockVars
      <3> QED BY <2>2, <3>1, <3>2 DEF PBlock
    <2>3. CASE PReturn(t)
      BY <2>3 DEF TypeOK, SemTypeOK, PReturn, Become, vars, waitVars, unblockVars
    <2>4. CASE VResume(t)
      BY <2>4 DEF TypeOK, SemTypeOK, VResume, Resume, Become, Goto, waitVars
    <2>5. CASE VIncrement(t)
      BY <2>5 DEF TypeOK, SemTypeOK, VIncrement, Release, Become, waitVars, unblockVars
    <2>6. CASE VReturn(t)
      BY <2>6 DEF TypeOK, SemTypeOK, VReturn, Become, vars, waitVars, unblockVars
    <2> QED
      BY <1>5, <2>1, <2>2, <2>3, <2>4, <2>5, <2>6 DEF ThreadStep
  <1>6. ASSUME NEW t \in Thread, CancelCall(t) PROVE GiveUpInv'
    <2>1. CASE Acquire(t, ThreadLock) /\ Become(t, "cancel") /\ call[t] = "none" /\ UNCHANGED counter
      BY <2>1 DEF TypeOK, SemTypeOK, Acquire, Become, waitVars, unblockVars
    <2>2. ASSUME NEW v \in Thread, Cancel(t, v), call[t] = "cancel", UNCHANGED svars PROVE GiveUpInv'
      BY <2>2 DEF TypeOK, SemTypeOK, Cancel, Goto, svars, waitVars
    <2>3. CASE Release(t, ThreadLock) /\ Become(t, "none") /\ call[t] = "cancel" /\ UNCHANGED counter
      BY <2>3 DEF TypeOK, SemTypeOK, Release, Holds, Become, waitVars, unblockVars
    <2> QED BY <1>6, <2>1, <2>2, <2>3 DEF CancelCall
  <1> QED
    BY <1>1, <1>2, <1>3, <1>4, <1>5, <1>6 DEF SemNext, CoreStep

-----------------------------------------------------------------------------
(* The inductive invariant of the semaphore.                               *)
THEOREM SemInvariance == SemSpec => []SemInv
  <1>1. Inv /\ SemInv /\ [SemNext]_allVars => SemInv'
    <2>1. SemInv => SemTypeOK
      BY DEF SemInv
    <2> QED BY <2>1, SemTypeStep, CallsStep, TokensStep, GiveUpStep DEF SemInv
  <1>2. SemSpec => []Inv
    BY RunsOnCore, Invariance, PTL
  <1> QED
    BY SemInvInit, <1>1, <1>2, PTL DEF SemSpec

(* No lost wake-up, for any number of threads, calls and tokens: while the *)
(* lock is free no token lies idle that a waiter could still be given.     *)
THEOREM NoTokenIdle == SemSpec => []NoIdleToken
  <1>1. SemInv => NoIdleToken
    BY DEF SemInv, TokensInv, NoneToWake, NoIdleToken
  <1> QED BY <1>1, SemInvariance, PTL

-----------------------------------------------------------------------------
(***************************************************************************)
(* The refinement.  A token that V passes on is, for the callers, a token  *)
(* that V has made and that the waiter's P takes when it returns.          *)
(***************************************************************************)

(* A step that changes nobody's call and grants or revokes nothing is a    *)
(* stuttering step of the abstract semaphore.                              *)
LEMMA Stuttering ==
  ASSUME counter' = counter,
         \A u \in Thread : (Granted(u)' <=> Granted(u)) /\ AbsCall(u)' = AbsCall(u)
  PROVE  UNCHANGED Abs!vars
  <1>1. absCall' = absCall
    BY DEF absCall
  <1>2. GrantedThreads' = GrantedThreads
    BY DEF GrantedThreads
  <1> QED BY <1>1, <1>2 DEF Abs!vars, absTokens

(* The call of one thread changes.                                         *)
LEMMA OneCall ==
  ASSUME NEW t \in Thread, \A u \in Thread : u # t => AbsCall(u)' = AbsCall(u)
  PROVE  absCall' = [absCall EXCEPT ![t] = AbsCall(t)']
  BY DEF absCall

(* Granting a token to one thread adds one, taking it back removes one.    *)
LEMMA GrantCount ==
  /\ Cardinality(GrantedThreads) \in Nat
  /\ GrantedThreads' = GrantedThreads => Cardinality(GrantedThreads)' = Cardinality(GrantedThreads)
  /\ \A v \in Thread : GrantedThreads' = GrantedThreads \cup {v} /\ v \notin GrantedThreads =>
        Cardinality(GrantedThreads)' = Cardinality(GrantedThreads) + 1
  /\ \A v \in GrantedThreads : GrantedThreads' = GrantedThreads \ {v} =>
        /\ Cardinality(GrantedThreads) > 0
        /\ Cardinality(GrantedThreads)' = Cardinality(GrantedThreads) - 1
  <1>1. IsFiniteSet(GrantedThreads)
    BY SemaphoreAssumption, FS_Subset DEF GrantedThreads
  <1>2. Cardinality(GrantedThreads) \in Nat
    BY <1>1, FS_CardinalityType
  <1>3. ASSUME NEW v \in Thread, GrantedThreads' = GrantedThreads \cup {v}, v \notin GrantedThreads
        PROVE  Cardinality(GrantedThreads)' = Cardinality(GrantedThreads) + 1
    BY <1>1, <1>3, FS_AddElement
  <1>4. ASSUME NEW v \in GrantedThreads, GrantedThreads' = GrantedThreads \ {v}
        PROVE  /\ Cardinality(GrantedThreads) > 0
               /\ Cardinality(GrantedThreads)' = Cardinality(GrantedThreads) - 1
    <2>1. Cardinality(GrantedThreads') = Cardinality(GrantedThreads) - 1
      BY <1>1, <1>4, FS_RemoveElement
    <2>2. Cardinality(GrantedThreads) # 0
      BY <1>1, <1>4, FS_EmptySet
    <2> QED BY <1>2, <2>1, <2>2
  <1> QED BY <1>2, <1>3, <1>4

(* The same for the tokens the callers see.                                *)
LEMMA TokenMade ==
  ASSUME SemTypeOK, counter' = counter, NEW v \in Thread, ~ Granted(v), Granted(v)',
         \A u \in Thread : u # v => (Granted(u)' <=> Granted(u))
  PROVE  absTokens' = absTokens + 1
  <1>1. GrantedThreads' = GrantedThreads \cup {v} /\ v \notin GrantedThreads
    BY DEF GrantedThreads
  <1>2. Cardinality(GrantedThreads)' = Cardinality(GrantedThreads) + 1
    BY <1>1, GrantCount
  <1>3. Cardinality(GrantedThreads) \in Nat /\ counter \in Nat
    BY GrantCount DEF SemTypeOK
  <1> QED BY <1>2, <1>3 DEF absTokens

(* A granted thread that stops being one has taken a token with it.       *)
LEMMA TokenTaken ==
  ASSUME SemTypeOK, counter' = counter, NEW v \in Thread, Granted(v), ~ Granted(v)',
         \A u \in Thread : u # v => (Granted(u)' <=> Granted(u))
  PROVE  absTokens > 0 /\ absTokens' = absTokens - 1
  <1>1. GrantedThreads' = GrantedThreads \ {v} /\ v \in GrantedThreads
    BY DEF GrantedThreads
  <1>2. /\ Cardinality(GrantedThreads) > 0
        /\ Cardinality(GrantedThreads)' = Cardinality(GrantedThreads) - 1
    BY <1>1, GrantCount
  <1>3. Cardinality(GrantedThreads) \in Nat /\ counter \in Nat
    BY GrantCount DEF SemTypeOK
  <1> QED BY <1>2, <1>3 DEF absTokens

(* Where no grant changes, the tokens change with the counter.             *)
LEMMA TokensKept ==
  ASSUME SemTypeOK, SemTypeOK', NEW d \in {-1, 0, 1}, counter' = counter + d,
         \A u \in Thread : Granted(u)' <=> Granted(u)
  PROVE  absTokens' = absTokens + d /\ absTokens >= counter
  <1>1. GrantedThreads' = GrantedThreads
    BY DEF GrantedThreads
  <1>2. Cardinality(GrantedThreads) \in Nat /\ counter \in Nat /\ counter' \in Nat
    BY GrantCount DEF SemTypeOK
  <1> QED BY <1>1, <1>2 DEF absTokens

(* The abstract call, arm by arm.                                          *)
LEMMA AbsOfIs ==
  ASSUME NEW p, NEW c, NEW r
  PROVE  /\ p \in {"exit", "gone", "leaked"} => AbsOf(p, c, r) = "dead"
         /\ p \notin {"exit", "gone", "leaked"} =>
              /\ c \in {"P", "waitP"} => AbsOf(p, c, r) = "P"
              /\ c \in {"tryP", "timedP", "waitTimedP"} => AbsOf(p, c, r) = "tryP"
              /\ c = "V" => AbsOf(p, c, r) = "V"
              /\ c = "posting" /\ (p \in {"erase", "wake"} \/ (p = "run" /\ r)) =>
                   AbsOf(p, c, r) = "posted"
              /\ c = "posting" /\ ~ (p \in {"erase", "wake"} \/ (p = "run" /\ r)) =>
                   AbsOf(p, c, r) = "V"
              /\ c \in {"none", "cancel"} => AbsOf(p, c, r) = "none"
  BY DEF AbsOf

(* A step of one thread that is a step of the abstract semaphore.          *)
LEMMA AbstractStep ==
  ASSUME NEW t \in Thread,
         Abs!P(t) \/ Abs!GiveUp(t) \/ Abs!V(t) \/ Abs!Leave(t) \/ Abs!Vanish(t)
           \/ \E c \in {"P", "tryP", "V"} : Abs!Enter(t, c)
  PROVE  Abs!Next
  BY DEF Abs!Next

(* What the invariants say about published, claimed and running threads.   *)
LEMMA WaitFacts ==
  ASSUME Inv, LinkedInv, SemInv
  PROVE  /\ \A u \in Thread : unblockInfo[u] => pc[u] \in {"switch", "off"} /\ u \in ToSet(queue[Sem])
         /\ \A u \in Thread : u \in ToSet(queue[Sem]) => pc[u] \in {"switch", "off"}
         /\ \A a \in Actor : pc[a] = "remove" =>
              /\ victim[a] \in Thread /\ victim[a] \in ToSet(queue[Sem])
              /\ pc[victim[a]] \in {"switch", "off"} /\ ~ unblockInfo[victim[a]]
  <1> USE ConstantsAssumption, SemaphoreAssumption
  <1>1. \A u \in Thread : pc[u] \in {"switch", "off"} => info[u].q = Sem /\ Sem # NoQueue
    BY DEF SemInv, CallsInv
  <1>2. \A u \in Thread : unblockInfo[u] => pc[u] \in {"switch", "off"}
    BY DEF Inv, ClaimsInv, Waiting
  <1>3. \A u \in Thread : unblockInfo[u] => u \in ToSet(queue[Sem])
    BY <1>1, <1>2 DEF LinkedInv, Linked
  <1>4. \A u \in Thread : u \in ToSet(queue[Sem]) => pc[u] \in {"switch", "off"}
    BY DEF Inv, ListsInv
  <1>5. ASSUME NEW a \in Actor, pc[a] = "remove"
        PROVE  /\ victim[a] \in Thread /\ victim[a] \in ToSet(queue[Sem])
               /\ pc[victim[a]] \in {"switch", "off"} /\ ~ unblockInfo[victim[a]]
    <2>1. victim[a] \in Thread
      BY <1>5 DEF Inv, ClaimsInv
    <2>2. pc[victim[a]] \in {"switch", "off"} /\ ~ unblockInfo[victim[a]]
      BY <1>5, <2>1 DEF Inv, ClaimsInv, Claims, Unblocking, Waiting
    <2> QED BY <1>1, <1>5, <2>1, <2>2 DEF LinkedInv, Linked
  <1> QED BY <1>2, <1>3, <1>4, <1>5

(* cancelEvent unlinks a waiter but gives it no token.                     *)
LEMMA CancelGrantsNot ==
  ASSUME Inv, LinkedInv, SemInv, UNCHANGED svars, NEW a \in Actor, CancelEvent(a)
  PROVE  \A u \in Thread : Granted(u)' <=> Granted(u)
  <1>0. TypeOK /\ UNCHANGED call /\ Sem \in Queue
    BY SemaphoreAssumption DEF Inv, svars
  <1>1. PICK v : v = victim[a]
    OBVIOUS
  <1>2. /\ v \in Thread /\ v \in ToSet(queue[Sem]) /\ pc[v] \in {"switch", "off"} /\ v # a
        /\ ~ unblockInfo[v]
    BY <1>1, WaitFacts DEF CancelEvent
  <1>3. info[v].q = Sem
    BY <1>2 DEF SemInv, CallsInv
  <1>4. /\ pc[a] = "remove" /\ pc' = [pc EXCEPT ![a] = "wake"]
        /\ queue' = [queue EXCEPT ![Sem] = Unlink(queue[Sem], v)]
        /\ info'[v].timedOut /\ \A u \in Thread : u # v => info'[u] = info[u]
        /\ UNCHANGED <<unblockInfo, result>>
    BY <1>0, <1>1, <1>2, <1>3 DEF CancelEvent, Goto, TypeOK, WaitInfo
  <1>5. \A u \in Thread : u # v => (u \in ToSet(queue'[Sem]) <=> u \in ToSet(queue[Sem]))
    <2>1. queue'[Sem] = Unlink(queue[Sem], v)
      BY <1>0, <1>4 DEF TypeOK
    <2>2. queue[Sem] \in Seq(Thread) /\ IsInjective(queue[Sem])
      BY <1>0 DEF TypeOK, Inv, ListsInv
    <2> QED BY <1>2, <2>1, <2>2, UnlinkList
  <1>6. pc'[v] = pc[v] /\ pc'[a] = "wake" /\ \A u \in Actor : u # a => pc'[u] = pc[u]
    BY <1>0, <1>2, <1>4 DEF TypeOK, Actor
  <1>7. ~ Granted(v) /\ ~ Granted(v)'
    BY <1>0, <1>2, <1>4, <1>6 DEF Granted
  <1>8. ASSUME NEW u \in Thread, u # v, u # a PROVE Granted(u)' <=> Granted(u)
    BY <1>0, <1>4, <1>5, <1>6, <1>8 DEF Granted, Actor
  <1>9. a \in Thread => ~ Granted(a) /\ ~ Granted(a)'
    BY <1>4, <1>6 DEF Granted
  <1> QED BY <1>7, <1>8, <1>9

(* A step of the blocking core that claims nobody for an event and ends no *)
(* thread stutters; resume's claim is V, an end is Vanish.                 *)
LEMMA CoreRefines ==
  ASSUME Inv, LinkedInv, SemInv, NEW t \in Thread, Step(t), UNCHANGED svars
  PROVE  [Abs!Next]_(Abs!vars)
  <1>0. TypeOK /\ SemTypeOK
    BY DEF Inv, SemInv
  <1>c. \A u \in Thread :
          /\ pc[u] # "sleep"
          /\ pc[u] \in {"timed", "check", "store", "switch", "off", "on"} =>
               call[u] \in {"waitP", "waitTimedP"}
          /\ pc[u] = "scan" => call[u] = "posting"
          /\ pc[u] \in {"claim", "remove"} => call[u] = "cancel"
          /\ pc[u] = "erase" => call[u] = IF cause[u] = "event" THEN "posting" ELSE "cancel"
          /\ pc[u] = "wake" => call[u] \in {"posting", "cancel"}
    BY DEF SemInv, CallsInv, Waits
  <1>w. /\ \A u \in Thread : unblockInfo[u] => pc[u] \in {"switch", "off"} /\ u \in ToSet(queue[Sem])
        /\ \A u \in Thread : u \in ToSet(queue[Sem]) => pc[u] \in {"switch", "off"}
    BY WaitFacts
  <1>s. Sem \in Queue
    BY SemaphoreAssumption
  <1>k. UNCHANGED <<counter, call>>
    BY DEF svars
  <1>x. ASSUME AbsCall(t)' = AbsCall(t),
               \A u \in Thread : u # t => pc'[u] = pc[u] /\ result'[u] = result[u],
               \A u \in Thread : Granted(u)' <=> Granted(u)
        PROVE  [Abs!Next]_(Abs!vars)
    BY <1>k, <1>x, Stuttering DEF AbsCall
  <1>y. /\ /\ call[t] \in {"waitP", "waitTimedP", "cancel"}
           /\ pc[t] \notin {"exit", "gone", "leaked"} /\ pc'[t] \notin {"exit", "gone", "leaked"}
           => AbsCall(t)' = AbsCall(t)
        /\ /\ call[t] = "posting" /\ pc[t] \in {"erase", "wake"}
           /\ pc'[t] = "wake" \/ (pc'[t] = "run" /\ result'[t])
           => AbsCall(t)' = AbsCall(t)
        /\ /\ call[t] = "posting" /\ pc[t] = "scan"
           /\ pc'[t] = "scan" \/ (pc'[t] = "run" /\ ~ result'[t])
           => AbsCall(t)' = AbsCall(t)
        /\ pc[t] = "exit" /\ pc'[t] \in {"gone", "leaked"} => AbsCall(t)' = AbsCall(t)
    <2>1. call'[t] = call[t]
      BY <1>k
    <2>2. ASSUME call[t] = "waitP", pc[t] \notin {"exit", "gone", "leaked"}, pc'[t] \notin {"exit", "gone", "leaked"}
          PROVE  AbsCall(t)' = AbsCall(t)
      BY <2>1, <2>2, AbsOfIs DEF AbsCall
    <2>3. ASSUME call[t] = "waitTimedP", pc[t] \notin {"exit", "gone", "leaked"}, pc'[t] \notin {"exit", "gone", "leaked"}
          PROVE  AbsCall(t)' = AbsCall(t)
      BY <2>1, <2>3, AbsOfIs DEF AbsCall
    <2>4. ASSUME call[t] = "cancel", pc[t] \notin {"exit", "gone", "leaked"}, pc'[t] \notin {"exit", "gone", "leaked"}
          PROVE  AbsCall(t)' = AbsCall(t)
      BY <2>1, <2>4, AbsOfIs DEF AbsCall
    <2>5. ASSUME call[t] = "posting", pc[t] \in {"erase", "wake"},
                 pc'[t] = "wake" \/ (pc'[t] = "run" /\ result'[t])
          PROVE  AbsCall(t)' = AbsCall(t)
      BY <2>1, <2>5, AbsOfIs DEF AbsCall
    <2>6. ASSUME call[t] = "posting", pc[t] = "scan",
                 pc'[t] = "scan" \/ (pc'[t] = "run" /\ ~ result'[t])
          PROVE  AbsCall(t)' = AbsCall(t)
      BY <2>1, <2>6, AbsOfIs DEF AbsCall
    <2>7. ASSUME pc[t] = "exit", pc'[t] \in {"gone", "leaked"} PROVE AbsCall(t)' = AbsCall(t)
      BY <2>7, AbsOfIs DEF AbsCall
    <2> QED BY <2>2, <2>3, <2>4, <2>5, <2>6, <2>7
  <1> USE <1>0, <1>c, <1>w, <1>s, <1>k DEF Actor
  <1>1. CASE TakeTimeoutLock(t)
    <2>1. AbsCall(t)' = AbsCall(t)
      BY <1>y, <1>1 DEF TypeOK, TakeTimeoutLock, Goto, waitVars, unblockVars
    <2>2. \A u \in Thread : u # t => pc'[u] = pc[u] /\ result'[u] = result[u]
      BY <1>1 DEF TypeOK, TakeTimeoutLock, Goto, waitVars, unblockVars
    <2>3. \A u \in Thread : Granted(u)' <=> Granted(u)
      BY <1>1 DEF Granted, TypeOK, TakeTimeoutLock, Goto, waitVars, unblockVars
    <2> QED BY <1>x, <2>1, <2>2, <2>3
  <1>2. CASE BlockRefuse(t)
    <2>1. AbsCall(t)' = AbsCall(t)
      BY <1>y, <1>2 DEF TypeOK, BlockRefuse, Goto, unblockVars
    <2>2. \A u \in Thread : u # t => pc'[u] = pc[u] /\ result'[u] = result[u]
      BY <1>2 DEF TypeOK, BlockRefuse, Goto, unblockVars
    <2>3. \A u \in Thread : Granted(u)' <=> Granted(u)
      BY <1>2 DEF Granted, TypeOK, BlockRefuse, Goto, unblockVars
    <2> QED BY <1>x, <2>1, <2>2, <2>3
  <1>3. CASE BlockCheck(t)
    <2>1. AbsCall(t)' = AbsCall(t)
      BY <1>y, <1>3 DEF TypeOK, BlockCheck, Goto, waitVars, unblockVars
    <2>2. \A u \in Thread : u # t => pc'[u] = pc[u] /\ result'[u] = result[u]
      BY <1>3 DEF TypeOK, BlockCheck, Goto, waitVars, unblockVars
    <2>3. \A u \in Thread : Granted(u)' <=> Granted(u)
      BY <1>3 DEF Granted, TypeOK, BlockCheck, Goto, waitVars, unblockVars
    <2> QED BY <1>x, <2>1, <2>2, <2>3
  <1>4. CASE BlockStore(t)
    <2>0. \A u \in Thread : u # t => (u \in ToSet(queue'[Sem]) <=> u \in ToSet(queue[Sem]))
      <3>1. ToSet(Append(queue[Sem], t)) = ToSet(queue[Sem]) \cup {t}
        BY AppendList DEF TypeOK
      <3> QED BY <1>4, <3>1 DEF BlockStore, TypeOK
    <2>1. AbsCall(t)' = AbsCall(t)
      BY <1>y, <1>4 DEF TypeOK, BlockStore, Goto, unblockVars
    <2>2. \A u \in Thread : u # t => pc'[u] = pc[u] /\ result'[u] = result[u]
      BY <1>4 DEF TypeOK, BlockStore, Goto
    <2>3. \A u \in Thread : Granted(u)' <=> Granted(u)
      BY <1>4, <2>0 DEF Granted, TypeOK, BlockStore, Goto
    <2> QED BY <1>x, <2>1, <2>2, <2>3
  <1>5. CASE SwitchOut(t)
    <2>1. AbsCall(t)' = AbsCall(t)
      BY <1>y, <1>5 DEF TypeOK, SwitchOut, Goto, waitVars, unblockVars
    <2>2. \A u \in Thread : u # t => pc'[u] = pc[u] /\ result'[u] = result[u]
      BY <1>5 DEF TypeOK, SwitchOut, Goto, waitVars, unblockVars
    <2>3. \A u \in Thread : Granted(u)' <=> Granted(u)
      BY <1>5 DEF Granted, TypeOK, SwitchOut, Goto, waitVars, unblockVars
    <2> QED BY <1>x, <2>1, <2>2, <2>3
  <1>6. CASE Dispatch(t)
    <2>1. AbsCall(t)' = AbsCall(t)
      BY <1>y, <1>6 DEF TypeOK, Dispatch, Goto, waitVars, unblockVars
    <2>2. \A u \in Thread : u # t => pc'[u] = pc[u] /\ result'[u] = result[u]
      BY <1>6 DEF TypeOK, Dispatch, Goto, waitVars, unblockVars
    <2>3. \A u \in Thread : Granted(u)' <=> Granted(u)
      BY <1>6 DEF Granted, TypeOK, Dispatch, Goto, waitVars, unblockVars
    <2> QED BY <1>x, <2>1, <2>2, <2>3
  <1>7. CASE SwitchIn(t)
    <2>1. AbsCall(t)' = AbsCall(t)
      BY <1>y, <1>7 DEF TypeOK, SwitchIn, Goto, unblockVars
    <2>2. \A u \in Thread : u # t => pc'[u] = pc[u] /\ result'[u] = result[u]
      BY <1>7 DEF TypeOK, SwitchIn, Goto, unblockVars
    <2>3. \A u \in Thread : Granted(u)' <=> Granted(u)
      BY <1>7 DEF Granted, TypeOK, WaitInfo, SwitchIn, Goto, unblockVars
    <2> QED BY <1>x, <2>1, <2>2, <2>3
  <1>8. CASE SwitchInCancelled(t)
    <2>1. t \in Cancellable
      BY <1>8 DEF SwitchInCancelled, SemInv, GiveUpInv
    <2>2. /\ pc' = [pc EXCEPT ![t] = "exit"]
          /\ UNCHANGED <<result, unblockInfo, info, queue>>
      BY <1>8 DEF SwitchInCancelled, Goto, waitVars
    <2>3. \A u \in Thread : u # t => (Granted(u)' <=> Granted(u)) /\ AbsCall(u)' = AbsCall(u)
      BY <2>2 DEF Granted, AbsCall, TypeOK
    <2>4. ~ Granted(t)' /\ AbsCall(t)' = "dead"
      BY <2>2, AbsOfIs DEF Granted, AbsCall, TypeOK
    <2>5. absCall' = [absCall EXCEPT ![t] = "dead"]
      BY <2>3, <2>4, OneCall
    <2>6. CASE ~ Granted(t)
      <3>1. GrantedThreads' = GrantedThreads
        BY <2>3, <2>4, <2>6 DEF GrantedThreads
      <3>2. UNCHANGED absTokens
        BY <3>1 DEF absTokens
      <3>3. Abs!Vanish(t)
        BY <2>1, <2>5, <3>2 DEF Abs!Vanish
      <3> QED BY <3>3, AbstractStep
    <2>7. CASE Granted(t)
      <3>1. absTokens > 0 /\ absTokens' = absTokens - 1
        BY <2>3, <2>4, <2>7, TokenTaken
      <3>2. pc[t] \notin {"exit", "gone", "leaked"} /\ call[t] \in {"waitP", "waitTimedP"}
        BY <2>7 DEF Granted
      <3>3. absCall[t] \in {"P", "tryP"}
        BY <3>2, AbsOfIs DEF AbsCall, absCall
      <3>4. Abs!Vanish(t)
        BY <2>1, <2>5, <3>1, <3>3 DEF Abs!Vanish
      <3> QED BY <3>4, AbstractStep
    <2> QED BY <2>6, <2>7
  <1>9. CASE ScanSkip(t)
    <2>1. AbsCall(t)' = AbsCall(t)
      BY <1>y, <1>9 DEF TypeOK, ScanSkip, waitVars
    <2>2. \A u \in Thread : u # t => pc'[u] = pc[u] /\ result'[u] = result[u]
      BY <1>9 DEF TypeOK, ScanSkip, waitVars
    <2>3. \A u \in Thread : Granted(u)' <=> Granted(u)
      BY <1>9 DEF Granted, TypeOK, ScanSkip, waitVars
    <2> QED BY <1>x, <2>1, <2>2, <2>3
  <1>10. CASE ScanClaim(t)
    <2>0. PICK v : v = queue[scan[t].q][scan[t].i]
      OBVIOUS
    <2>1. v \in Thread /\ pc[v] = "off" /\ info[v].q = scan[t].q /\ scan[t].q \in Queue
      BY <1>10, <2>0, ScanTarget
    <2>2. info[v].q = Sem /\ scan[t].q = Sem
      BY <2>1 DEF SemInv, CallsInv
    <2>3. /\ pc[t] = "scan" /\ pc' = [pc EXCEPT ![t] = "erase"] /\ unblockInfo[v]
          /\ unblockInfo' = [unblockInfo EXCEPT ![v] = FALSE]
          /\ queue' = [queue EXCEPT ![Sem] = Unlink(queue[Sem], v)]
          /\ UNCHANGED <<info, result>>
      BY <1>10, <2>0, <2>2 DEF ScanClaim, Goto
    <2>4. ~ info[v].timedOut
      BY <2>1, <2>3 DEF SemInv, GiveUpInv
    <2>5. ToSet(queue'[Sem]) = ToSet(queue[Sem]) \ {v}
      <3>1. queue'[Sem] = Unlink(queue[Sem], v)
        BY <2>3 DEF TypeOK
      <3>2. queue[Sem] \in Seq(Thread) /\ IsInjective(queue[Sem])
        BY DEF TypeOK, Inv, ListsInv
      <3> QED BY <2>1, <3>1, <3>2, UnlinkList
    <2>6. v # t /\ call[v] \in {"waitP", "waitTimedP"}
      BY <2>1, <2>3
    <2>7. ~ Granted(v)
      BY <2>1, <2>3 DEF Granted
    <2>8. Granted(v)'
      <3>1. pc'[v] = "off" /\ ~ unblockInfo'[v] /\ ~ info'[v].timedOut /\ v \notin ToSet(queue'[Sem])
        BY <2>1, <2>3, <2>4, <2>5, <2>6 DEF TypeOK
      <3> QED BY <2>6, <3>1 DEF Granted
    <2>9. ASSUME NEW u \in Thread, u # v PROVE Granted(u)' <=> Granted(u)
      BY <2>3, <2>5, <2>9 DEF Granted, TypeOK
    <2>10. absTokens' = absTokens + 1
      BY <2>1, <2>7, <2>8, <2>9, TokenMade
    <2>11. \A u \in Thread : u # t => AbsCall(u)' = AbsCall(u)
      BY <2>3 DEF AbsCall, TypeOK
    <2>12. AbsCall(t) = "V" /\ AbsCall(t)' = "posted"
      <3>1. pc[t] = "scan" /\ pc'[t] = "erase" /\ call[t] = "posting" /\ call'[t] = "posting"
        BY <2>3 DEF TypeOK
      <3> QED BY <3>1, AbsOfIs DEF AbsCall
    <2>13. absCall[t] = "V" /\ absCall' = [absCall EXCEPT ![t] = "posted"]
      BY <2>11, <2>12, OneCall DEF absCall
    <2>14. Abs!V(t)
      BY <2>10, <2>13 DEF Abs!V
    <2> QED BY <2>14, AbstractStep
  <1>11. CASE ScanEnd(t)
    <2>1. AbsCall(t)' = AbsCall(t)
      BY <1>y, <1>11 DEF TypeOK, ScanEnd, Goto, waitVars
    <2>2. \A u \in Thread : u # t => pc'[u] = pc[u] /\ result'[u] = result[u]
      BY <1>11 DEF TypeOK, ScanEnd, Goto, waitVars
    <2>3. \A u \in Thread : Granted(u)' <=> Granted(u)
      BY <1>11 DEF Granted, TypeOK, ScanEnd, Goto, waitVars
    <2> QED BY <1>x, <2>1, <2>2, <2>3
  <1>12. CASE CancelTimeout(t)
    <2>1. AbsCall(t)' = AbsCall(t)
      BY <1>y, <1>12 DEF TypeOK, CancelTimeout, Goto, unblockVars
    <2>2. \A u \in Thread : u # t => pc'[u] = pc[u] /\ result'[u] = result[u]
      BY <1>12 DEF TypeOK, CancelTimeout, Goto, unblockVars
    <2>3. \A u \in Thread : Granted(u)' <=> Granted(u)
      BY <1>12 DEF Granted, TypeOK, CancelTimeout, Goto, unblockVars
    <2> QED BY <1>x, <2>1, <2>2, <2>3
  <1>13. CASE CancelEvent(t)
    <2>1. AbsCall(t)' = AbsCall(t)
      BY <1>y, <1>13 DEF TypeOK, CancelEvent, Goto
    <2>2. \A u \in Thread : u # t => pc'[u] = pc[u] /\ result'[u] = result[u]
      BY <1>13 DEF TypeOK, CancelEvent, Goto
    <2>3. \A u \in Thread : Granted(u)' <=> Granted(u)
      BY <1>13, CancelGrantsNot
    <2> QED BY <1>x, <2>1, <2>2, <2>3
  <1>14. CASE CancelNoEvent(t)
    <2>1. AbsCall(t)' = AbsCall(t)
      BY <1>y, <1>14 DEF TypeOK, CancelNoEvent, Goto, waitVars, unblockVars
    <2>2. \A u \in Thread : u # t => pc'[u] = pc[u] /\ result'[u] = result[u]
      BY <1>14 DEF TypeOK, CancelNoEvent, Goto, waitVars, unblockVars
    <2>3. \A u \in Thread : Granted(u)' <=> Granted(u)
      BY <1>14 DEF Granted, TypeOK, CancelNoEvent, Goto, waitVars, unblockVars
    <2> QED BY <1>x, <2>1, <2>2, <2>3
  <1>15. CASE Wake(t)
    <2>1. AbsCall(t)' = AbsCall(t)
      BY <1>y, <1>15 DEF TypeOK, Wake, Goto, waitVars
    <2>2. \A u \in Thread : u # t => pc'[u] = pc[u] /\ result'[u] = result[u]
      BY <1>15 DEF TypeOK, Wake, Goto, waitVars
    <2>3. \A u \in Thread : Granted(u)' <=> Granted(u)
      BY <1>15 DEF Granted, TypeOK, Wake, Goto, waitVars
    <2> QED BY <1>x, <2>1, <2>2, <2>3
  <1>16. CASE CancelClaim(t)
    <2>1. AbsCall(t)' = AbsCall(t)
      BY <1>y, <1>16 DEF TypeOK, CancelClaim, Goto, unblockVars
    <2>2. \A u \in Thread : u # t => pc'[u] = pc[u] /\ result'[u] = result[u]
      BY <1>16 DEF TypeOK, CancelClaim, Goto, unblockVars
    <2>3. \A u \in Thread : Granted(u)' <=> Granted(u)
      BY <1>16 DEF Granted, TypeOK, CancelClaim, Goto, unblockVars
    <2> QED BY <1>x, <2>1, <2>2, <2>3
  <1>17. CASE CancelMiss(t)
    <2>1. AbsCall(t)' = AbsCall(t)
      BY <1>y, <1>17 DEF TypeOK, CancelMiss, Goto, waitVars
    <2>2. \A u \in Thread : u # t => pc'[u] = pc[u] /\ result'[u] = result[u]
      BY <1>17 DEF TypeOK, CancelMiss, Goto, waitVars
    <2>3. \A u \in Thread : Granted(u)' <=> Granted(u)
      BY <1>17 DEF Granted, TypeOK, CancelMiss, Goto, waitVars
    <2> QED BY <1>x, <2>1, <2>2, <2>3
  <1>18. CASE Preempt(t)
    <2>1. t \in Cancellable
      BY <1>18 DEF Preempt, SemInv, GiveUpInv
    <2>2. /\ pc' = [pc EXCEPT ![t] = "exit"]
          /\ UNCHANGED <<result, unblockInfo, info, queue>>
      BY <1>18 DEF Preempt, Goto, waitVars
    <2>3. \A u \in Thread : u # t => (Granted(u)' <=> Granted(u)) /\ AbsCall(u)' = AbsCall(u)
      BY <2>2 DEF Granted, AbsCall, TypeOK
    <2>4. ~ Granted(t)' /\ AbsCall(t)' = "dead"
      BY <2>2, AbsOfIs DEF Granted, AbsCall, TypeOK
    <2>5. absCall' = [absCall EXCEPT ![t] = "dead"]
      BY <2>3, <2>4, OneCall
    <2>6. CASE ~ Granted(t)
      <3>1. GrantedThreads' = GrantedThreads
        BY <2>3, <2>4, <2>6 DEF GrantedThreads
      <3>2. UNCHANGED absTokens
        BY <3>1 DEF absTokens
      <3>3. Abs!Vanish(t)
        BY <2>1, <2>5, <3>2 DEF Abs!Vanish
      <3> QED BY <3>3, AbstractStep
    <2>7. CASE Granted(t)
      <3>1. absTokens > 0 /\ absTokens' = absTokens - 1
        BY <2>3, <2>4, <2>7, TokenTaken
      <3>2. pc[t] \notin {"exit", "gone", "leaked"} /\ call[t] \in {"waitP", "waitTimedP"}
        BY <2>7 DEF Granted
      <3>3. absCall[t] \in {"P", "tryP"}
        BY <3>2, AbsOfIs DEF AbsCall, absCall
      <3>4. Abs!Vanish(t)
        BY <2>1, <2>5, <3>1, <3>3 DEF Abs!Vanish
      <3> QED BY <3>4, AbstractStep
    <2> QED BY <2>6, <2>7
  <1>19. CASE Exit(t)
    <2>1. AbsCall(t)' = AbsCall(t)
      BY <1>y, <1>19 DEF TypeOK, Exit, Goto, waitVars, unblockVars
    <2>2. \A u \in Thread : u # t => pc'[u] = pc[u] /\ result'[u] = result[u]
      BY <1>19 DEF TypeOK, Exit, Goto, waitVars, unblockVars
    <2>3. \A u \in Thread : Granted(u)' <=> Granted(u)
      BY <1>19 DEF Granted, TypeOK, Exit, Goto, waitVars, unblockVars
    <2> QED BY <1>x, <2>1, <2>2, <2>3
  <1> QED
    BY <1>1, <1>2, <1>3, <1>4, <1>5, <1>6, <1>7, <1>8, <1>9, <1>10, <1>11, <1>12, <1>13, <1>14, <1>15, <1>16, <1>17, <1>18, <1>19 DEF Step

(* The clock's steps are invisible to the callers: a timeout takes a       *)
(* waiter out of the queue and gives it no token.                          *)
LEMMA ClockRefines ==
  ASSUME Inv, LinkedInv, SemInv, ClockStep, UNCHANGED svars
  PROVE  UNCHANGED Abs!vars
  <1>0. TypeOK /\ UNCHANGED <<counter, call>>
    BY DEF Inv, svars
  <1>w. \A u \in Thread : unblockInfo[u] => u \in ToSet(queue[Sem])
    BY WaitFacts
  <1>x. ASSUME \A u \in Thread : pc'[u] = pc[u] /\ result'[u] = result[u],
               \A u \in Thread : Granted(u)' <=> Granted(u)
        PROVE  UNCHANGED Abs!vars
    BY <1>0, <1>x, Stuttering DEF AbsCall
  <1> USE <1>0, ConstantsAssumption DEF Actor
  <1>1. \A u \in Thread : pc'[u] = pc[u] /\ result'[u] = result[u]
    BY DEF ClockStep, ExpiryBegin, ExpiryCollect, ExpiryCollected, ExpiryFire, CancelEvent,
       CancelNoEvent, ExpiryWake, ExpiryEnd, Goto, TypeOK
  <1>2. CASE CancelEvent(Clock)
    BY <1>x, <1>1, <1>2, CancelGrantsNot
  <1>3. ASSUME NEW v \in Thread, ExpiryCollect(v) PROVE UNCHANGED Abs!vars
    <2>1. \A u \in Thread : Granted(u)' <=> Granted(u)
      BY <1>w, <1>3 DEF ExpiryCollect, Expirable, Granted, TypeOK
    <2> QED BY <1>x, <1>1, <2>1
  <1>4. CASE waitVars' = waitVars
    <2>1. \A u \in Thread : Granted(u)' <=> Granted(u)
      BY <1>1, <1>4 DEF waitVars, Granted
    <2> QED BY <1>x, <1>1, <2>1
  <1> QED
    BY <1>2, <1>3, <1>4 DEF ClockStep, ExpiryBegin, ExpiryCollected, ExpiryFire, CancelNoEvent,
       ExpiryWake, ExpiryEnd

(* What a client's step leaves alone of the other threads.                 *)
LEMMA OthersAlone ==
  ASSUME NEW t \in Thread, UNCHANGED <<unblockInfo, queue>>,
         \A u \in Thread : u # t =>
           pc'[u] = pc[u] /\ result'[u] = result[u] /\ call'[u] = call[u] /\ info'[u] = info[u]
  PROVE  \A u \in Thread : u # t => (Granted(u)' <=> Granted(u)) /\ AbsCall(u)' = AbsCall(u)
  BY DEF Granted, AbsCall

(* The semaphore's own steps are those of the abstract semaphore: taking a *)
(* token from the counter is P, a failed tryP or an expired P gives up,    *)
(* the increment is V, and a granted P takes its token as it returns.      *)
LEMMA ThreadRefines ==
  ASSUME Inv, SemInv, SemTypeOK', NEW t \in Thread, ThreadStep(t)
  PROVE  [Abs!Next]_(Abs!vars)
  <1>0. TypeOK /\ SemTypeOK
    BY DEF Inv, SemInv
  <1>1. CASE PTake(t)
    <2>1. /\ pc[t] = "run" /\ pc' = pc /\ call[t] \in {"P", "tryP", "timedP"}
          /\ call' = [call EXCEPT ![t] = "none"] /\ call'[t] = "none"
          /\ counter' = counter - 1 /\ counter > 0
          /\ UNCHANGED <<result, unblockInfo, info, queue>>
      BY <1>0, <1>1 DEF PTake, Release, Become, waitVars, SemTypeOK
    <2>2. \A u \in Thread : u # t => (Granted(u)' <=> Granted(u)) /\ AbsCall(u)' = AbsCall(u)
      BY <2>1, OthersAlone
    <2>3. ~ Granted(t) /\ ~ Granted(t)'
      BY <2>1 DEF Granted
    <2>4. AbsCall(t) \in {"P", "tryP"} /\ AbsCall(t)' = "none"
      BY <2>1, AbsOfIs DEF AbsCall
    <2>5. absCall[t] \in {"P", "tryP"} /\ absCall' = [absCall EXCEPT ![t] = "none"]
      BY <2>2, <2>4, OneCall DEF absCall
    <2>6. absTokens > 0 /\ absTokens' = absTokens - 1
      <3>1. absTokens' = absTokens + (-1) /\ absTokens >= counter
        BY <1>0, <2>1, <2>2, <2>3, TokensKept DEF SemTypeOK
      <3>2. absTokens \in Int
        BY <1>0, GrantCount DEF absTokens, SemTypeOK
      <3> QED BY <1>0, <2>1, <3>1, <3>2 DEF SemTypeOK
    <2>7. Abs!P(t)
      BY <2>5, <2>6 DEF Abs!P
    <2> QED BY <2>7, AbstractStep
  <1>2. CASE PBlock(t)
    <2>a. /\ call[t] \in {"P", "tryP", "timedP"} /\ counter' = counter
          /\ \E c \in Waits \cup {"none"} : Become(t, c)
          /\ (\E timed \in BOOLEAN : Block(t, Sem, timed)) \/ BlockNot(t, Sem)
      BY <1>2 DEF PBlock, Waits
    <2>b. /\ \E f : info' = [info EXCEPT ![t] = f]
          /\ \E p : pc' = [pc EXCEPT ![t] = p]
          /\ \E r : result' = [result EXCEPT ![t] = r]
          /\ pc[t] = "run"
          /\ UNCHANGED <<unblockInfo, queue>>
      <3>1. CASE BlockNot(t, Sem)
        BY <1>0, <3>1 DEF BlockNot, TypeOK, waitVars
      <3>2. ASSUME NEW timed \in BOOLEAN, Block(t, Sem, timed)
            PROVE  /\ \E f : info' = [info EXCEPT ![t] = f]
                   /\ \E p : pc' = [pc EXCEPT ![t] = p]
                   /\ result' = [result EXCEPT ![t] = result[t]]
                   /\ pc[t] = "run"
                   /\ UNCHANGED <<unblockInfo, queue>>
        BY <1>0, <3>2 DEF Block, Goto, TypeOK
      <3> QED BY <2>a, <3>1, <3>2
    <2>c. \A u \in Thread : u # t =>
               pc'[u] = pc[u] /\ result'[u] = result[u] /\ call'[u] = call[u] /\ info'[u] = info[u]
      BY <1>0, <2>a, <2>b DEF Become, TypeOK, SemTypeOK, Actor
    <2>1. /\ pc[t] = "run" /\ call[t] \in {"P", "tryP", "timedP"} /\ counter' = counter
          /\ \A u \in Thread : u # t =>
               pc'[u] = pc[u] /\ result'[u] = result[u] /\ call'[u] = call[u] /\ info'[u] = info[u]
          /\ UNCHANGED <<unblockInfo, queue>>
      BY <2>a, <2>b, <2>c
    <2>2. \/ call[t] = "P" /\ call'[t] = "waitP" /\ pc'[t] \in {"timed", "check"}
          \/ call[t] = "timedP" /\ call'[t] = "waitTimedP" /\ pc'[t] \in {"timed", "check"}
          \/ call[t] = "tryP" /\ call'[t] = "none" /\ pc'[t] = "run"
      BY <1>0, <1>2 DEF PBlock, Block, BlockNot, Become, Goto, TypeOK, SemTypeOK, Actor
    <2>3. \A u \in Thread : u # t => (Granted(u)' <=> Granted(u)) /\ AbsCall(u)' = AbsCall(u)
      BY <2>1, OthersAlone
    <2>4. ~ Granted(t) /\ ~ Granted(t)'
      BY <2>1, <2>2 DEF Granted
    <2>5. CASE call[t] \in {"P", "timedP"}
      <3>1. AbsCall(t)' = AbsCall(t)
        BY <2>1, <2>2, <2>5, AbsOfIs DEF AbsCall
      <3> QED BY <2>1, <2>3, <2>4, <3>1, Stuttering
    <2>6. CASE call[t] = "tryP"
      <3>1. AbsCall(t) = "tryP" /\ AbsCall(t)' = "none"
        BY <2>1, <2>2, <2>6, AbsOfIs DEF AbsCall
      <3>2. absCall[t] = "tryP" /\ absCall' = [absCall EXCEPT ![t] = "none"]
        BY <2>3, <3>1, OneCall DEF absCall
      <3>3. GrantedThreads' = GrantedThreads
        BY <2>3, <2>4 DEF GrantedThreads
      <3>4. Abs!GiveUp(t)
        BY <2>1, <3>2, <3>3 DEF Abs!GiveUp, absTokens
      <3> QED BY <3>4, AbstractStep
    <2> QED BY <2>1, <2>5, <2>6
  <1>3. CASE PReturn(t)
    <2>1. /\ pc[t] = "run" /\ call[t] \in {"waitP", "waitTimedP"} /\ counter' = counter
          /\ call' = [call EXCEPT ![t] = "none"] /\ call'[t] = "none"
          /\ UNCHANGED <<pc, result, unblockInfo, info, queue>>
      BY <1>0, <1>3 DEF PReturn, Become, vars, waitVars, SemTypeOK
    <2>2. \A u \in Thread : u # t => (Granted(u)' <=> Granted(u)) /\ AbsCall(u)' = AbsCall(u)
      BY <2>1, OthersAlone
    <2>3. ~ Granted(t)'
      BY <2>1 DEF Granted
    <2>4. /\ call[t] = "waitP" => AbsCall(t) = "P"
          /\ call[t] = "waitTimedP" => AbsCall(t) = "tryP"
          /\ AbsCall(t)' = "none"
      BY <2>1, AbsOfIs DEF AbsCall
    <2>5. absCall[t] = AbsCall(t) /\ absCall' = [absCall EXCEPT ![t] = "none"]
      BY <2>2, <2>4, OneCall DEF absCall
    <2>6. CASE result[t]
      <3>1. Granted(t)
        BY <2>1, <2>6 DEF Granted
      <3>2. absTokens > 0 /\ absTokens' = absTokens - 1
        BY <1>0, <2>1, <2>2, <2>3, <3>1, TokenTaken
      <3>3. Abs!P(t)
        BY <2>1, <2>4, <2>5, <3>2 DEF Abs!P
      <3> QED BY <3>3, AbstractStep
    <2>7. CASE ~ result[t]
      <3>1. ~ Granted(t)
        BY <2>1, <2>7 DEF Granted
      <3>2. GrantedThreads' = GrantedThreads
        BY <2>2, <2>3, <3>1 DEF GrantedThreads
      <3>3. call[t] = "waitP" => t \in Cancellable
        BY <2>1, <2>7 DEF SemInv, GiveUpInv
      <3>4. Abs!GiveUp(t)
        BY <2>1, <2>4, <2>5, <3>2, <3>3 DEF Abs!GiveUp, absTokens
      <3> QED BY <3>4, AbstractStep
    <2> QED BY <2>6, <2>7
  <1>4. CASE VResume(t)
    <2>1. /\ pc[t] = "run" /\ call[t] = "V" /\ call'[t] = "posting" /\ pc'[t] = "scan"
          /\ counter' = counter
          /\ \A u \in Thread : u # t =>
               pc'[u] = pc[u] /\ result'[u] = result[u] /\ call'[u] = call[u] /\ info'[u] = info[u]
          /\ UNCHANGED <<unblockInfo, queue>>
      BY <1>0, <1>4 DEF VResume, Resume, Become, Goto, TypeOK, SemTypeOK, waitVars, Actor
    <2>2. \A u \in Thread : u # t => (Granted(u)' <=> Granted(u)) /\ AbsCall(u)' = AbsCall(u)
      BY <2>1, OthersAlone
    <2>3. ~ Granted(t) /\ ~ Granted(t)'
      BY <2>1 DEF Granted
    <2>4. AbsCall(t)' = AbsCall(t)
      BY <2>1, AbsOfIs DEF AbsCall
    <2> QED BY <2>1, <2>2, <2>3, <2>4, Stuttering
  <1>5. CASE VIncrement(t)
    <2>1. /\ pc[t] = "run" /\ pc' = pc /\ call[t] = "posting" /\ ~ result[t]
          /\ call' = [call EXCEPT ![t] = "none"] /\ call'[t] = "none"
          /\ counter' = counter + 1
          /\ UNCHANGED <<result, unblockInfo, info, queue>>
      BY <1>0, <1>5 DEF VIncrement, Release, Become, waitVars, SemTypeOK
    <2>2. \A u \in Thread : u # t => (Granted(u)' <=> Granted(u)) /\ AbsCall(u)' = AbsCall(u)
      BY <2>1, OthersAlone
    <2>3. ~ Granted(t) /\ ~ Granted(t)'
      BY <2>1 DEF Granted
    <2>4. AbsCall(t) = "V" /\ AbsCall(t)' = "none"
      BY <2>1, AbsOfIs DEF AbsCall
    <2>5. absCall[t] = "V" /\ absCall' = [absCall EXCEPT ![t] = "none"]
      BY <2>2, <2>4, OneCall DEF absCall
    <2>6. absTokens' = absTokens + 1
      BY <1>0, <2>1, <2>2, <2>3, TokensKept
    <2>7. Abs!V(t)
      BY <2>5, <2>6 DEF Abs!V
    <2> QED BY <2>7, AbstractStep
  <1>6. CASE VReturn(t)
    <2>1. /\ pc[t] = "run" /\ call[t] = "posting" /\ result[t] /\ counter' = counter
          /\ call' = [call EXCEPT ![t] = "none"] /\ call'[t] = "none"
          /\ UNCHANGED <<pc, result, unblockInfo, info, queue>>
      BY <1>0, <1>6 DEF VReturn, Become, vars, waitVars, SemTypeOK
    <2>2. \A u \in Thread : u # t => (Granted(u)' <=> Granted(u)) /\ AbsCall(u)' = AbsCall(u)
      BY <2>1, OthersAlone
    <2>3. ~ Granted(t) /\ ~ Granted(t)'
      BY <2>1 DEF Granted
    <2>4. AbsCall(t) = "posted" /\ AbsCall(t)' = "none"
      <3>1. AbsCall(t) = "posted"
        BY <2>1 DEF AbsCall, AbsOf
      <3>2. pc'[t] = "run" /\ call'[t] = "none"
        BY <2>1
      <3>3. AbsCall(t)' = "none"
        BY <3>2, AbsOfIs DEF AbsCall
      <3> QED BY <3>1, <3>3
    <2>5. absCall[t] = "posted" /\ absCall' = [absCall EXCEPT ![t] = "none"]
      BY <2>2, <2>4, OneCall DEF absCall
    <2>6. GrantedThreads' = GrantedThreads
      BY <2>2, <2>3 DEF GrantedThreads
    <2>7. Abs!Leave(t)
      BY <2>1, <2>5, <2>6 DEF Abs!Leave, absTokens
    <2> QED BY <2>7, AbstractStep
  <1> QED BY <1>1, <1>2, <1>3, <1>4, <1>5, <1>6 DEF ThreadStep

(* Entering a call, and cancelling other threads.                          *)
LEMMA CallerRefines ==
  ASSUME Inv, SemInv, NEW t \in Thread,
         CancelCall(t) \/ \E c \in Calls : Enter(t, c)
  PROVE  [Abs!Next]_(Abs!vars)
  <1>0. TypeOK /\ SemTypeOK
    BY DEF Inv, SemInv
  <1>1. ASSUME NEW c \in Calls, Enter(t, c) PROVE [Abs!Next]_(Abs!vars)
    <2>1. /\ pc[t] = "run" /\ call[t] = "none" /\ counter' = counter
          /\ call' = [call EXCEPT ![t] = c] /\ call'[t] = c
          /\ UNCHANGED <<pc, result, unblockInfo, info, queue>>
      BY <1>0, <1>1 DEF Enter, Acquire, Become, waitVars, SemTypeOK
    <2>2. \A u \in Thread : u # t => (Granted(u)' <=> Granted(u)) /\ AbsCall(u)' = AbsCall(u)
      BY <2>1, OthersAlone
    <2>3. ~ Granted(t) /\ ~ Granted(t)'
      BY <2>1 DEF Granted, Calls
    <2>4. GrantedThreads' = GrantedThreads
      BY <2>2, <2>3 DEF GrantedThreads
    <2>5. AbsCall(t) = "none" /\ AbsCall(t)' \in {"P", "tryP", "V"}
      BY <2>1, AbsOfIs DEF AbsCall, Calls
    <2>6. absCall[t] = "none" /\ absCall' = [absCall EXCEPT ![t] = AbsCall(t)']
      BY <2>2, <2>5, OneCall DEF absCall
    <2>7. UNCHANGED absTokens
      BY <2>1, <2>4 DEF absTokens
    <2>8. \E d \in {"P", "tryP", "V"} : Abs!Enter(t, d)
      BY <2>5, <2>6, <2>7 DEF Abs!Enter
    <2> QED BY <2>8, AbstractStep
  <1>2. CASE CancelCall(t)
    <2>1. /\ pc[t] = "run" /\ pc'[t] \in {"run", "claim"}
          /\ call[t] \in {"none", "cancel"} /\ call'[t] \in {"none", "cancel"}
      BY <1>0, <1>2 DEF CancelCall, Acquire, Release, Cancel, Become, Goto, svars, TypeOK, SemTypeOK, Actor
    <2>a. counter' = counter /\ UNCHANGED <<result, info, unblockInfo, queue>>
      BY <1>2 DEF CancelCall, Acquire, Release, Cancel, svars, waitVars
    <2>b. \E p : pc' = [pc EXCEPT ![t] = p]
      <3>1. CASE pc' = pc
        BY <1>0, <3>1 DEF TypeOK
      <3>2. CASE \E v \in Thread : Cancel(t, v)
        BY <3>2 DEF Cancel, Goto
      <3> QED BY <1>2, <3>1, <3>2 DEF CancelCall, Acquire, Release
    <2>c. \E c : call' = [call EXCEPT ![t] = c]
      <3>1. CASE call' = call
        BY <1>0, <3>1 DEF SemTypeOK
      <3> QED BY <1>2, <3>1 DEF CancelCall, Become, svars
    <2>2. /\ counter' = counter
          /\ \A u \in Thread : u # t =>
               pc'[u] = pc[u] /\ result'[u] = result[u] /\ call'[u] = call[u] /\ info'[u] = info[u]
          /\ UNCHANGED <<unblockInfo, queue>>
      BY <1>0, <2>a, <2>b, <2>c DEF TypeOK, SemTypeOK, Actor
    <2>3. \A u \in Thread : u # t => (Granted(u)' <=> Granted(u)) /\ AbsCall(u)' = AbsCall(u)
      BY <2>2, OthersAlone
    <2>4. ~ Granted(t) /\ ~ Granted(t)'
      BY <2>1 DEF Granted
    <2>5. AbsCall(t)' = AbsCall(t)
      BY <2>1, AbsOfIs DEF AbsCall
    <2> QED BY <2>2, <2>3, <2>4, <2>5, Stuttering
  <1> QED BY <1>1, <1>2

(* The semaphore implements its abstract specification for any number of   *)
(* threads, calls and tokens: baton passing, timeouts that race a V and    *)
(* waiters that V skips neither lose nor duplicate a token.                *)
THEOREM SemaphoreCorrect == SemSpec => ImplementsSemaphore
  <1>1. SemInit => Abs!Init
    <2> SUFFICES ASSUME SemInit PROVE Abs!Init
      OBVIOUS
    <2>1. \A u \in Thread : pc[u] = "run" /\ call[u] = "none"
      BY ConstantsAssumption DEF SemInit, Init, Actor
    <2>2. GrantedThreads = {}
      BY <2>1 DEF GrantedThreads, Granted
    <2>3. absTokens = Tokens
      BY <2>2, FS_EmptySet, SemaphoreAssumption DEF absTokens, SemInit
    <2>4. absCall = [u \in Thread |-> "none"]
      BY <2>1, AbsOfIs DEF absCall, AbsCall
    <2> QED BY <2>3, <2>4 DEF Abs!Init
  <1>2. Inv /\ LinkedInv /\ SemInv /\ [SemNext]_allVars => [Abs!Next]_(Abs!vars)
    <2> SUFFICES ASSUME Inv, LinkedInv, SemInv, [SemNext]_allVars
                 PROVE  [Abs!Next]_(Abs!vars)
      OBVIOUS
    <2>1. CASE UNCHANGED allVars
      BY <2>1, Stuttering DEF allVars, svars, vars, waitVars, Granted, AbsCall
    <2>2. CASE CoreStep
      BY <2>2, CoreRefines, ClockRefines DEF CoreStep
    <2>3. ASSUME NEW t \in Thread, ThreadStep(t) PROVE [Abs!Next]_(Abs!vars)
      <3>1. SemTypeOK'
        BY SemTypeStep DEF SemInv
      <3> QED BY <2>3, <3>1, ThreadRefines
    <2>4. ASSUME NEW t \in Thread, CancelCall(t) \/ \E c \in Calls : Enter(t, c)
          PROVE  [Abs!Next]_(Abs!vars)
      BY <2>4, CallerRefines
    <2> QED BY <2>1, <2>2, <2>3, <2>4 DEF SemNext
  <1>3. SemSpec => []Inv /\ []LinkedInv /\ []SemInv
    BY RunsOnCore, Invariance, LinkedInvariance, SemInvariance, PTL
  <1> QED
    BY <1>1, <1>2, <1>3, PTL DEF SemSpec, ImplementsSemaphore, Abs!Spec

=============================================================================
