---------------------------- MODULE MutexProofs -----------------------------
(***************************************************************************)
(* Proofs about Mutex: every step of Mutex and OwnerMutex is a step of the *)
(* blocking core; one thread at a time has the mutex; and owner and the    *)
(* recursion counter are those of that thread wherever the code reads them *)
(* without the lock, for any number of threads and calls.  About UserSync, *)
(* the locks of user programs: counters, posts and waiters add up, and no  *)
(* call meets a semaphore that has been destroyed.                         *)
(***************************************************************************)
EXTENDS Mutex, UserSync, BlockingSyncProofs, FiniteSetTheorems

-----------------------------------------------------------------------------
(* Whatever the mutex's code does, the blocking core sees one of the steps *)
(* it allows its clients.                                                  *)
LEMMA StepOfCore ==
  ASSUME [MutexNext]_allVars
  PROVE  [Next]_vars
  <1> USE ConstantsAssumption, MutexAssumption
  <1>0. MtxLock \in Lock
    BY DEF MtxLock
  <1>1. CASE UNCHANGED allVars
    BY <1>1 DEF allVars
  <1>2. CASE ClockStep
    BY <1>2 DEF Next
  <1>3. ASSUME NEW t \in Thread, CoreStep(t) PROVE Step(t)
    BY <1>3 DEF CoreStep
  <1>4. ASSUME NEW t \in Thread, ThreadStep(t) PROVE Client(t) \/ UNCHANGED vars
    <2>1. CASE AcquireLock(t)
      BY <1>0, <2>1 DEF AcquireLock, Client
    <2>2. CASE AcquireFree(t)
      BY <1>0, <2>2 DEF AcquireFree, Client
    <2>3. CASE AcquireBlock(t)
      BY <2>3 DEF AcquireBlock, Client
    <2>4. CASE AcquireFail(t) \/ AcquireReturn(t) \/ ReleaseReturn(t)
      BY <2>4 DEF AcquireFail, AcquireReturn, ReleaseReturn
    <2>5. CASE ReleaseLock(t)
      BY <1>0, <2>5 DEF ReleaseLock, Client
    <2>6. CASE ReleaseNested(t)
      BY <1>0, <2>6 DEF ReleaseNested, Client
    <2>7. CASE ReleasePass(t)
      BY <2>7 DEF ReleasePass, Client
    <2>8. CASE ReleaseFree(t)
      BY <1>0, <2>8 DEF ReleaseFree, Client
    <2> QED BY <1>4, <2>1, <2>2, <2>3, <2>4, <2>5, <2>6, <2>7, <2>8 DEF ThreadStep
  <1>5. ASSUME NEW t \in Thread, AcquireNested(t) \/ \E c \in AcquireCalls : AcquireCheck(t, c)
        PROVE  UNCHANGED vars
    BY <1>5 DEF AcquireNested, AcquireCheck
  <1> QED
    BY <1>1, <1>2, <1>3, <1>4, <1>5 DEF MutexNext, Next

(* The mutex runs on the blocking core as the core is specified: its       *)
(* theorems hold in every state of every use of a mutex.                   *)
THEOREM MutexRunsOnCore == MutexSpec => Spec
  <1>1. MutexInit => Init
    BY DEF MutexInit
  <1> QED BY <1>1, StepOfCore, PTL DEF MutexSpec, Spec

-----------------------------------------------------------------------------
(* The initial states satisfy the invariant.                               *)
LEMMA MutexInvInit == MutexInit => MutexInv
  <1> SUFFICES ASSUME MutexInit PROVE MutexInv
    OBVIOUS
  <1> USE ConstantsAssumption, MutexAssumption
  <1>1. MutexTypeOK
    BY DEF MutexInit, MutexTypeOK
  <1>2. CallsInv
    BY DEF MutexInit, Init, CallsInv, Actor, NoScan, NoWait
  <1>3. \A t \in Thread : pc[t] = "run" /\ call[t] = "none"
    BY DEF MutexInit, Init, Actor
  <1>4. \A t \in Thread : ~ Has(t)
    BY <1>3 DEF Has, Owns, Granted, Scanning, Ending, WaitCalls
  <1>5. OwnerInv /\ CounterInv
    BY <1>3, <1>4 DEF MutexInit, OwnerInv, CounterInv, Has
  <1> QED BY <1>1, <1>2, <1>5 DEF MutexInv

(* Every step keeps calls and control points together.                     *)
LEMMA CallsStep ==
  ASSUME Inv, MutexInv, [MutexNext]_allVars
  PROVE  CallsInv'
  <1>0. TypeOK /\ MutexTypeOK /\ CallsInv /\ NoQueue # Mtx
    BY ConstantsAssumption, MutexAssumption DEF Inv, MutexInv
  <1>v. \A a \in Actor : pc[a] \in {"claim", "erase", "remove", "wake"} =>
          victim[a] \in Thread /\ (pc[a] # "claim" => ~ unblockInfo[victim[a]] /\ pc[victim[a]] \in {"switch", "off"})
    BY DEF Inv, ClaimsInv, Claims, Unblocking, Waiting
  <1>s. \A t \in Thread : pc[t] = "scan" => scan[t].q = Mtx /\ scan[t] \in ScanPos
    BY <1>0 DEF CallsInv, TypeOK
  <1> USE <1>0, ConstantsAssumption, MutexAssumption DEF Actor, CallsInv, WaitCalls
  <1>1. CASE UNCHANGED allVars
    BY <1>1 DEF allVars, mvars, vars, waitVars, unblockVars
  <1>2. ASSUME NEW t \in Thread, Step(t), UNCHANGED <<call, calls>> PROVE CallsInv'
    <2> USE <1>2
    <2>1. CASE TakeTimeoutLock(t)
      BY <2>1 DEF TypeOK, TakeTimeoutLock, Goto, waitVars, unblockVars
    <2>2. CASE BlockRefuse(t) \/ SwitchInCancelled(t) \/ Preempt(t) \/ Exit(t)
      BY <2>2 DEF BlockRefuse, SwitchInCancelled, Preempt, Exit
    <2>3. CASE BlockCheck(t)
      BY <2>3 DEF TypeOK, BlockCheck, Goto, waitVars, unblockVars
    <2>4. CASE BlockStore(t)
      BY <2>4 DEF TypeOK, BlockStore, Goto, unblockVars
    <2>5. CASE SwitchOut(t)
      BY <2>5 DEF TypeOK, SwitchOut, Goto, waitVars, unblockVars
    <2>6. CASE Dispatch(t)
      BY <2>6 DEF TypeOK, Dispatch, Goto, waitVars, unblockVars
    <2>7. CASE SwitchIn(t)
      <3>1. ~ info'[t].timedOut
        BY <2>7 DEF SwitchIn, TypeOK, NoWait
      <3> QED BY <2>7, <3>1 DEF TypeOK, SwitchIn, Goto, unblockVars
    <2>8. CASE ScanSkip(t)
      <3>1. scan'[t].q = Mtx /\ \A u \in Thread : u # t => scan'[u] = scan[u]
        BY <1>s, <2>8 DEF ScanSkip, TypeOK, ScanPos
      <3> QED BY <2>8, <3>1 DEF TypeOK, ScanSkip, waitVars
    <2>9. CASE ScanClaim(t)
      <3> DEFINE v == queue[scan[t].q][scan[t].i]
      <3>1. v \in Thread
        BY <2>9, ScanTarget
      <3>2. /\ pc[t] = "scan" /\ pc' = [pc EXCEPT ![t] = "erase"]
            /\ cause' = [cause EXCEPT ![t] = "event"]
            /\ scan' = [scan EXCEPT ![t] = NoScan]
            /\ unblockInfo' = [unblockInfo EXCEPT ![v] = FALSE]
            /\ UNCHANGED <<info, state>>
        BY <2>9 DEF ScanClaim, Goto
      <3> HIDE DEF v
      <3> QED BY <3>1, <3>2 DEF TypeOK, NoScan
    <2>10. CASE ScanEnd(t)
      BY <2>10 DEF TypeOK, ScanEnd, Goto, waitVars, NoScan
    <2>11. CASE CancelTimeout(t)
      BY <2>11 DEF TypeOK, CancelTimeout, Goto, unblockVars
    <2>12. CASE CancelEvent(t) \/ CancelNoEvent(t) \/ CancelClaim(t) \/ CancelMiss(t)
      BY <2>12 DEF CancelEvent, CancelNoEvent, CancelClaim, CancelMiss
    <2>13. CASE Wake(t)
      BY <2>13 DEF TypeOK, Wake, Goto, waitVars
    <2> QED
      BY <1>2, <2>1, <2>2, <2>3, <2>4, <2>5, <2>6, <2>7, <2>8, <2>9, <2>10, <2>11, <2>12, <2>13
      DEF Step
  <1>3. ASSUME ClockStep, UNCHANGED mvars PROVE CallsInv'
    <2> USE <1>3 DEF mvars
    <2>1. CASE ExpiryBegin
      BY <2>1 DEF TypeOK, ExpiryBegin, Goto, waitVars, unblockVars
    <2>2. ASSUME NEW v \in Thread, ExpiryCollect(v) PROVE CallsInv'
      BY <2>2 DEF TypeOK, ExpiryCollect, Expirable
    <2>3. CASE ExpiryCollected
      BY <2>3 DEF TypeOK, ExpiryCollected, Goto, waitVars, unblockVars
    <2>4. ASSUME NEW v \in Thread, ExpiryFire(v) PROVE CallsInv'
      BY <2>4 DEF TypeOK, ExpiryFire, Goto, waitVars
    <2>5. CASE CancelEvent(Clock)
      <3>1. /\ \A u \in Thread : info'[u].q = info[u].q
            /\ \A u \in Thread : u # victim[Clock] => info'[u] = info[u]
        BY <1>v, <2>5 DEF CancelEvent, TypeOK, WaitInfo
      <3>2. ~ unblockInfo[victim[Clock]] /\ pc[victim[Clock]] \in {"switch", "off"} /\ victim[Clock] \in Thread
        BY <1>v, <2>5 DEF CancelEvent
      <3> QED BY <2>5, <3>1, <3>2 DEF TypeOK, CancelEvent, Goto, unblockVars
    <2>6. CASE CancelNoEvent(Clock)
      BY <2>6 DEF TypeOK, CancelNoEvent, Goto, waitVars, unblockVars
    <2>7. CASE ExpiryWake
      BY <2>7 DEF TypeOK, ExpiryWake, Goto, waitVars
    <2>8. CASE ExpiryEnd
      BY <2>8 DEF TypeOK, ExpiryEnd, Goto, waitVars, unblockVars
    <2> QED
      BY <1>3, <2>1, <2>2, <2>3, <2>4, <2>5, <2>6, <2>7, <2>8 DEF ClockStep
  <1>4. ASSUME NEW t \in Thread, NEW c \in AcquireCalls, AcquireCheck(t, c) PROVE CallsInv'
    BY <1>4 DEF MutexTypeOK, AcquireCheck, Become, vars, waitVars, unblockVars
  <1>5. ASSUME NEW t \in Thread, AcquireNested(t) PROVE CallsInv'
    BY <1>5 DEF MutexTypeOK, AcquireNested, vars, waitVars, unblockVars
  <1>6. ASSUME NEW t \in Thread, ThreadStep(t) PROVE CallsInv'
    <2>1. CASE AcquireLock(t) \/ ReleaseLock(t)
      BY <2>1 DEF AcquireLock, ReleaseLock, Acquire, mvars, waitVars, unblockVars
    <2>2. CASE AcquireFree(t)
      BY <2>2 DEF MutexTypeOK, AcquireFree, Release, Become, waitVars, unblockVars, AcquireCalls
    <2>3. CASE AcquireBlock(t)
      <3>1. ASSUME NEW timed \in BOOLEAN, Block(t, Mtx, timed), UNCHANGED calls, call[t] # "none",
                   Become(t, IF timed THEN "timedWait" ELSE "wait")
            PROVE  CallsInv'
        <4>1. /\ info'[t].q = Mtx /\ ~ info'[t].timedOut
              /\ \A u \in Thread : u # t => info'[u] = info[u]
          BY <3>1 DEF Block, TypeOK
        <4> QED BY <3>1, <4>1 DEF TypeOK, MutexTypeOK, Block, Become, Goto, unblockVars
      <3>2. CASE BlockNot(t, Mtx) /\ Become(t, "none") /\ UNCHANGED calls
        BY <3>2 DEF MutexTypeOK, BlockNot, Become, waitVars, unblockVars
      <3> QED BY <2>3, <3>1, <3>2 DEF AcquireBlock
    <2>4. CASE AcquireFail(t) \/ ReleaseReturn(t)
      BY <2>4 DEF MutexTypeOK, AcquireFail, ReleaseReturn, Become, vars, waitVars, unblockVars
    <2>5. CASE AcquireReturn(t)
      BY <2>5 DEF MutexTypeOK, AcquireReturn, Become, vars, waitVars, unblockVars
    <2>6. CASE ReleaseNested(t)
      BY <2>6 DEF ReleaseNested, Release, waitVars, unblockVars
    <2>7. CASE ReleasePass(t)
      BY <2>7 DEF TypeOK, MutexTypeOK, ReleasePass, Resume, Become, Goto, waitVars
    <2>8. CASE ReleaseFree(t)
      BY <2>8 DEF MutexTypeOK, ReleaseFree, Release, Become, waitVars, unblockVars
    <2> QED
      BY <1>6, <2>1, <2>2, <2>3, <2>4, <2>5, <2>6, <2>7, <2>8 DEF ThreadStep
  <1> QED
    BY <1>1, <1>2, <1>3, <1>4, <1>5, <1>6 DEF MutexNext, CoreStep

(* The counter is decremented only when it is positive, and owner takes a  *)
(* thread, the list's fence or nobody.                                     *)
LEMMA MutexTypeStep ==
  ASSUME Inv, Inv', MutexTypeOK, CallsInv', [MutexNext]_allVars
  PROVE  MutexTypeOK'
  <1> USE MutexAssumption DEF Become, mvars, MutexTypeOK
  <1>i. ASSUME NEW t \in Thread, Iterate(t) PROVE owner' \in Thread \cup {Nobody, Fence}
    <2>1. CASE scan'[t].q # Mtx
      BY <1>i, <2>1 DEF Iterate
    <2>2. CASE scan'[t].q = Mtx
      <3>1. queue[Mtx] \in Seq(Thread) /\ scan'[t].i \in Nat
        BY DEF Inv, TypeOK, ScanPos
      <3>2. scan'[t].i # 0
        BY <2>2 DEF CallsInv, Inv, LocksInv
      <3>3. scan'[t].i <= Len(queue[Mtx]) => queue[Mtx][scan'[t].i] \in Thread
        BY <3>1, <3>2
      <3> QED BY <1>i, <2>2, <3>3 DEF Iterate
    <2> QED BY <2>1, <2>2
  <1>1. CASE UNCHANGED allVars
    BY <1>1 DEF allVars
  <1>2. CASE ClockStep /\ UNCHANGED mvars
    BY <1>2
  <1>3. ASSUME NEW t \in Thread, CoreStep(t) PROVE MutexTypeOK'
    BY <1>i, <1>3 DEF CoreStep
  <1>4. ASSUME NEW t \in Thread, ThreadStep(t) PROVE MutexTypeOK'
    <2>1. CASE AcquireLock(t) \/ ReleaseLock(t)
      BY <2>1 DEF AcquireLock, ReleaseLock
    <2>2. CASE AcquireFree(t) \/ AcquireFail(t)
      BY <2>2 DEF AcquireFree, AcquireFail
    <2>3. CASE AcquireBlock(t)
      BY <2>3 DEF AcquireBlock, WaitCalls
    <2>4. CASE AcquireReturn(t)
      BY <2>4 DEF AcquireReturn
    <2>5. CASE ReleaseNested(t)
      BY <2>5 DEF ReleaseNested
    <2>6. CASE ReleasePass(t)
      BY <1>i, <2>6 DEF ReleasePass
    <2>7. CASE ReleaseFree(t) \/ ReleaseReturn(t)
      BY <2>7 DEF ReleaseFree, ReleaseReturn
    <2> QED BY <1>4, <2>1, <2>2, <2>3, <2>4, <2>5, <2>6, <2>7 DEF ThreadStep
  <1>5. ASSUME NEW t \in Thread, AcquireNested(t) \/ \E c \in AcquireCalls : AcquireCheck(t, c)
        PROVE  MutexTypeOK'
    BY <1>5 DEF AcquireNested, AcquireCheck
  <1> QED BY <1>1, <1>2, <1>3, <1>4, <1>5 DEF MutexNext

-----------------------------------------------------------------------------
(* What a step leaves alone of a thread's part in the mutex.               *)
Keeps(u) ==
  /\ Granted(u)' <=> Granted(u)
  /\ call'[u] \in {"won", "held"} <=> call[u] \in {"won", "held"}
  /\ call'[u] = "held" <=> call[u] = "held"
  /\ calls'[u] >= calls[u]
  /\ Scanning(u)' <=> Scanning(u)
  /\ Ending(u)' <=> Ending(u)
  /\ Scanning(u) => Cursor(u)' = Cursor(u)
  /\ Ending(u) => lock'[MtxLock] = lock[MtxLock]
  /\ pc'[u] \in {"erase", "wake"} => pc[u] \in {"erase", "wake"} /\ victim'[u] = victim[u]

(* A thread whose own state and place in the queue a step does not touch.  *)
LEMMA Untouched ==
  ASSUME MutexTypeOK, NEW u \in Thread, calls'[u] = calls[u],
         pc'[u] = pc[u] /\ call'[u] = call[u] /\ result'[u] = result[u],
         info'[u] = info[u] /\ unblockInfo'[u] = unblockInfo[u],
         scan'[u] = scan[u] /\ victim'[u] = victim[u],
         u \in ToSet(queue'[Mtx]) <=> u \in ToSet(queue[Mtx]),
         Scanning(u) => queue'[Mtx] = queue[Mtx],
         Ending(u) => lock'[MtxLock] = lock[MtxLock]
  PROVE  Keeps(u)
  <1>1. calls'[u] >= calls[u]
    BY DEF MutexTypeOK
  <1>2. (Granted(u)' <=> Granted(u)) /\ (Scanning(u)' <=> Scanning(u)) /\ (Ending(u)' <=> Ending(u))
    BY DEF Granted, Scanning, Ending
  <1>3. Scanning(u) => Cursor(u)' = Cursor(u)
    BY DEF Cursor
  <1> QED BY <1>1, <1>2, <1>3 DEF Keeps

(* A thread inside block or resume has the mutex's lock; one that has been *)
(* claimed waits.                                                          *)
LEMMA HasMtxLock ==
  ASSUME Inv, MutexInv, NEW t \in Thread
  PROVE  /\ pc[t] \in {"timed", "check", "store", "switch", "scan"} => lock[MtxLock] = t
         /\ Ending(t) => lock[MtxLock] = t
         /\ pc[t] \in {"erase", "wake"} => victim[t] \in Thread /\ pc[victim[t]] \in {"switch", "off"}
         /\ unblockInfo[t] => pc[t] \in {"switch", "off"}
         /\ t \in ToSet(queue[Mtx]) => pc[t] \in {"switch", "off"}
  <1>0. NoQueue # Mtx /\ Mtx \in Queue /\ t \in Actor
    BY ConstantsAssumption, MutexAssumption DEF Actor
  <1>1. /\ pc[t] \in {"timed", "check", "store", "switch"} => info[t].q = Mtx
        /\ pc[t] = "scan" => scan[t].q = Mtx
    BY DEF MutexInv, CallsInv
  <1>2. pc[t] \in {"timed", "check", "store", "switch", "scan"} => lock[MtxLock] = t
    BY <1>0, <1>1 DEF Inv, LocksInv, MtxLock
  <1>3. Ending(t) => lock[MtxLock] = t
    BY DEF MutexInv, OwnerInv
  <1>4. pc[t] \in {"erase", "wake"} => victim[t] \in Thread /\ pc[victim[t]] \in {"switch", "off"}
    BY <1>0 DEF Inv, ClaimsInv, Claims, Unblocking, Waiting
  <1>5. unblockInfo[t] => pc[t] \in {"switch", "off"}
    BY DEF Inv, ClaimsInv, Waiting
  <1>6. t \in ToSet(queue[Mtx]) => pc[t] \in {"switch", "off"}
    BY <1>0 DEF Inv, ListsInv
  <1> QED BY <1>2, <1>3, <1>4, <1>5, <1>6

(* A step that leaves everybody's part alone keeps the invariant.          *)
LEMMA NobodyMoves ==
  ASSUME Inv, MutexInv, calls' \in [Thread -> Nat], owner' = owner, counter' = counter,
         \A u \in Thread : Keeps(u)
  PROVE  OwnerInv' /\ CounterInv'
  <1>1. OwnerInv /\ CounterInv /\ MutexTypeOK
    BY DEF MutexInv
  <1>2. \A u \in Thread : (Owns(u)' <=> Owns(u)) /\ (Has(u)' <=> Has(u))
    BY DEF Keeps, Owns, Has
  <1>3. \A u \in Thread : /\ Scanning(u)' <=> Scanning(u)
                          /\ Scanning(u) => Cursor(u)' = Cursor(u)
                          /\ Ending(u)' <=> Ending(u)
                          /\ Ending(u) => lock'[MtxLock] = lock[MtxLock]
    BY DEF Keeps
  <1>4. ASSUME NEW u \in Thread, pc'[u] \in {"erase", "wake"} PROVE Granted(victim[u])'
    <2>1. pc[u] \in {"erase", "wake"} /\ victim'[u] = victim[u]
      BY <1>4 DEF Keeps
    <2>2. PICK v \in Thread : v = victim[u]
      BY <2>1, HasMtxLock
    <2>3. Granted(v)
      BY <1>1, <2>1, <2>2 DEF OwnerInv
    <2>4. Granted(v)'
      BY <2>3 DEF Keeps
    <2>5. v = victim'[u]
      BY <2>1, <2>2
    <2> QED BY <2>4, <2>5 DEF Granted
  <1>5. OwnerInv'
    BY <1>1, <1>2, <1>3, <1>4 DEF OwnerInv
  <1>6. CounterInv'
    <2> SUFFICES ASSUME Recursive PROVE CounterInv'
      BY DEF CounterInv
    <2>1. \A u \in Thread : Has(u)' /\ call'[u] # "held" => counter' = 0
      BY <1>1, <1>2 DEF CounterInv, Keeps
    <2>2. ASSUME NEW u \in Thread, call'[u] = "held" PROVE counter' \in 1 .. calls'[u]
      <3>1. counter \in 1 .. calls[u] /\ calls'[u] >= calls[u]
        BY <1>1, <2>2 DEF CounterInv, Keeps
      <3>2. counter \in Nat /\ calls[u] \in Nat /\ calls'[u] \in Nat
        BY <1>1 DEF MutexTypeOK
      <3> QED BY <3>1, <3>2
    <2> QED BY <1>1, <2>1, <2>2 DEF CounterInv
  <1> QED BY <1>5, <1>6

(* A step of a running thread that nobody else stands in the way of.       *)
LEMMA OneMoves ==
  ASSUME Inv, MutexInv, NEW t \in Thread, pc[t] \notin {"switch", "off"},
         \A u \in Thread : u # t => ~ Has(u) /\ Keeps(u),
         Owns(t)' => owner' = t,
         Scanning(t)' => owner' = Cursor(t)',
         Ending(t)' => owner' = Fence /\ lock'[MtxLock] = t,
         owner' \in Thread => (owner' = t /\ Owns(t)') \/ Scanning(t)',
         pc'[t] \notin {"erase", "wake"},
         Recursive => /\ Has(t)' /\ call'[t] # "held" => counter' = 0
                      /\ call'[t] = "held" => counter' \in 1 .. calls'[t]
                      /\ owner' = Nobody => counter' = 0
  PROVE  OwnerInv' /\ CounterInv'
  <1>1. OwnerInv
    BY DEF MutexInv
  <1>2. \A u \in Thread : u # t => ~ Has(u)' /\ ~ Owns(u)' /\ ~ Scanning(u)' /\ ~ Ending(u)' /\ call'[u] # "held"
    BY DEF Keeps, Owns, Has
  <1>3. \A u \in Thread : pc'[u] \notin {"erase", "wake"}
    <2> SUFFICES ASSUME NEW u \in Thread, u # t, pc'[u] \in {"erase", "wake"} PROVE FALSE
      OBVIOUS
    <2>1. pc[u] \in {"erase", "wake"}
      BY DEF Keeps
    <2>2. PICK v \in Thread : v = victim[u] /\ pc[v] \in {"switch", "off"}
      BY <2>1, HasMtxLock
    <2>3. Granted(v) /\ v # t
      BY <1>1, <2>1, <2>2 DEF OwnerInv
    <2> QED BY <2>3 DEF Has, Owns
  <1>4. OwnerInv'
    <2>1. \A u, v \in Thread : Has(u)' /\ Has(v)' => u = v
      BY <1>2
    <2>2. owner' \in Thread => Owns(owner)' \/ \E u \in Thread : Scanning(u)'
      <3>1. CASE owner' = t /\ Owns(t)'
        BY <3>1 DEF Owns, Granted
      <3> QED BY <3>1
    <2> QED BY <1>2, <1>3, <2>1, <2>2 DEF OwnerInv
  <1>5. CounterInv'
    BY <1>2 DEF CounterInv
  <1> QED BY <1>4, <1>5

(* Blocking, being dispatched and finishing a resume move the mutex        *)
(* nowhere: only the scan does.                                            *)
LEMMA CoreKeeps ==
  ASSUME Inv, LinkedInv, MutexInv, NEW t \in Thread, CoreStep(t), pc[t] # "scan"
  PROVE  owner' = owner /\ \A u \in Thread : Keeps(u)
  <1>0. TypeOK /\ MutexTypeOK /\ CallsInv /\ Mtx \in Queue /\ MtxLock \in Lock /\ MtxLock # TimeoutLock
    BY ConstantsAssumption, MutexAssumption DEF Inv, MutexInv, MtxLock
  <1>1. Step(t) /\ UNCHANGED <<counter, call, calls>>
    BY DEF CoreStep
  <1>2. /\ pc[t] \in {"run", "timed", "check", "store", "switch", "off", "on", "erase", "wake"}
        /\ state[t] = "Running" /\ scan[t].q # Mtx
        /\ pc[t] = "erase" => cause[t] = "event"
    BY <1>0 DEF CallsInv
  <1>3. \A u \in Thread : /\ u # t /\ (Scanning(u) \/ Ending(u)) => lock[MtxLock] # t
                          /\ Ending(u) => lock[MtxLock] = u
                          /\ Scanning(u) => lock[MtxLock] = u
    BY HasMtxLock DEF Scanning
  <1>4. pc[t] \in {"timed", "check", "store", "switch"} => lock[MtxLock] = t
    BY HasMtxLock
  <1>f. ASSUME NEW l, pc' = [pc EXCEPT ![t] = l], UNCHANGED <<scan, victim, unblockInfo, queue>>,
               \A u \in Thread : u # t => result'[u] = result[u] /\ info'[u] = info[u],
               \A u \in Thread : u # t /\ Ending(u) => lock'[MtxLock] = lock[MtxLock]
        PROVE  \A u \in Thread : u # t => Keeps(u)
    <2>1. \A u \in Thread : u # t => pc'[u] = pc[u]
      BY <1>0, <1>f DEF TypeOK, Actor
    <2> QED BY <1>0, <1>1, <1>f, <2>1, Untouched
  <1>g. ASSUME NEW l, pc'[t] = l, Granted(t)' <=> Granted(t), l # "scan", Ending(t)' <=> Ending(t),
               l \in {"erase", "wake"} => pc[t] = "erase" /\ victim'[t] = victim[t],
               Ending(t) => lock'[MtxLock] = lock[MtxLock]
        PROVE  Keeps(t)
    BY <1>0, <1>1, <1>2, <1>g DEF Keeps, MutexTypeOK, Scanning
  <1>5. CASE TakeTimeoutLock(t)
    <2>1. /\ pc[t] = "timed" /\ pc' = [pc EXCEPT ![t] = "check"] /\ pc'[t] = "check"
          /\ lock'[MtxLock] = lock[MtxLock]
          /\ UNCHANGED <<result, info, unblockInfo, queue, scan, victim>>
      BY <1>0, <1>2, <1>5 DEF TakeTimeoutLock, Goto, TypeOK, Actor, waitVars, unblockVars
    <2>2. Keeps(t)
      <3>1. ~ Granted(t) /\ ~ Granted(t)' /\ ~ Ending(t) /\ ~ Ending(t)'
        BY <2>1 DEF Granted, Ending
      <3> QED BY <1>g, <2>1, <3>1
    <2> QED BY <1>2, <1>f, <2>1, <2>2 DEF CoreStep, Iterate
  <1>6. CASE BlockCheck(t)
    <2>1. /\ pc[t] = "check" /\ pc' = [pc EXCEPT ![t] = "store"] /\ pc'[t] = "store"
          /\ UNCHANGED <<result, info, unblockInfo, queue, scan, victim, lock>>
      BY <1>0, <1>6 DEF BlockCheck, Goto, TypeOK, Actor, waitVars, unblockVars
    <2>2. Keeps(t)
      <3>1. ~ Granted(t) /\ ~ Granted(t)' /\ ~ Ending(t) /\ ~ Ending(t)'
        BY <2>1 DEF Granted, Ending
      <3> QED BY <1>g, <2>1, <3>1
    <2> QED BY <1>2, <1>f, <2>1, <2>2 DEF CoreStep, Iterate
  <1>7. CASE BlockStore(t)
    <2>1. /\ pc[t] = "store" /\ pc' = [pc EXCEPT ![t] = "switch"] /\ pc'[t] = "switch"
          /\ unblockInfo' = [unblockInfo EXCEPT ![t] = TRUE] /\ unblockInfo'[t]
          /\ info[t].q = Mtx /\ queue'[Mtx] = Append(queue[Mtx], t)
          /\ UNCHANGED <<result, info, scan, victim, lock>>
      <3>1. pc[t] = "store" /\ info[t].q = Mtx /\ Mtx # NoQueue
        BY <1>0, <1>7, ConstantsAssumption DEF BlockStore, CallsInv
      <3>2. queue' = [queue EXCEPT ![Mtx] = Append(queue[Mtx], t)]
        BY <1>7, <3>1 DEF BlockStore
      <3>3. /\ pc' = [pc EXCEPT ![t] = "switch"] /\ unblockInfo' = [unblockInfo EXCEPT ![t] = TRUE]
            /\ UNCHANGED <<result, info, scan, victim, lock>>
        BY <1>7 DEF BlockStore, Goto, unblockVars
      <3> QED BY <1>0, <3>1, <3>2, <3>3 DEF TypeOK, Actor
    <2>2. ToSet(queue'[Mtx]) = ToSet(queue[Mtx]) \cup {t}
      BY <1>0, <2>1, AppendList DEF TypeOK
    <2>3. \A u \in Thread : u # t => ~ Scanning(u)
      BY <1>3, <1>4, <2>1
    <2>4. \A u \in Thread : u # t => pc'[u] = pc[u] /\ unblockInfo'[u] = unblockInfo[u]
      BY <1>0, <2>1 DEF TypeOK, Actor
    <2>5. \A u \in Thread : u # t => Keeps(u)
      BY <1>0, <1>1, <2>1, <2>2, <2>3, <2>4, Untouched
    <2>6. Keeps(t)
      <3>1. ~ Granted(t) /\ ~ Granted(t)' /\ ~ Ending(t) /\ ~ Ending(t)'
        BY <2>1 DEF Granted, Ending
      <3> QED BY <1>g, <2>1, <3>1
    <2> QED BY <1>2, <2>1, <2>5, <2>6 DEF CoreStep, Iterate
  <1>8. CASE SwitchOut(t)
    <2>1. /\ pc[t] = "switch" /\ pc' = [pc EXCEPT ![t] = "off"] /\ pc'[t] = "off"
          /\ UNCHANGED <<result, info, unblockInfo, queue, scan, victim>>
      BY <1>0, <1>8 DEF SwitchOut, Goto, TypeOK, Actor, waitVars, unblockVars
    <2>2. \A u \in Thread : u # t => ~ Ending(u)
      BY <1>3, <1>4, <2>1
    <2>3. Keeps(t)
      <3>1. (Granted(t)' <=> Granted(t)) /\ ~ Ending(t) /\ ~ Ending(t)'
        BY <1>1, <2>1 DEF Granted, Ending
      <3> QED BY <1>g, <2>1, <3>1
    <2> QED BY <1>2, <1>f, <2>1, <2>2, <2>3 DEF CoreStep, Iterate
  <1>9. CASE Dispatch(t)
    <2>1. /\ pc[t] = "off" /\ pc' = [pc EXCEPT ![t] = "on"] /\ pc'[t] = "on"
          /\ UNCHANGED <<result, info, unblockInfo, queue, scan, victim, lock>>
      BY <1>0, <1>9 DEF Dispatch, Goto, TypeOK, Actor, waitVars, unblockVars
    <2>2. Keeps(t)
      <3>1. (Granted(t)' <=> Granted(t)) /\ ~ Ending(t) /\ ~ Ending(t)'
        BY <1>1, <2>1 DEF Granted, Ending
      <3> QED BY <1>g, <2>1, <3>1
    <2> QED BY <1>2, <1>f, <2>1, <2>2 DEF CoreStep, Iterate
  <1>10. CASE SwitchIn(t)
    <2>1. /\ pc[t] = "on" /\ pc' = [pc EXCEPT ![t] = "run"] /\ pc'[t] = "run"
          /\ result' = [result EXCEPT ![t] = ~ info[t].timedOut]
          /\ \A u \in Thread : u # t => result'[u] = result[u] /\ info'[u] = info[u]
          /\ UNCHANGED <<unblockInfo, queue, scan, victim, lock>>
      BY <1>0, <1>10 DEF SwitchIn, Goto, TypeOK, Actor, unblockVars
    <2>2. result'[t] <=> ~ info[t].timedOut
      BY <1>0, <2>1 DEF TypeOK
    <2>3. ~ unblockInfo[t] /\ t \notin ToSet(queue[Mtx])
      BY <2>1, HasMtxLock
    <2>4. call[t] \in WaitCalls
      BY <1>0, <2>1 DEF CallsInv
    <2>5. Keeps(t)
      <3>1. Granted(t) <=> ~ info[t].timedOut
        BY <2>1, <2>3, <2>4 DEF Granted
      <3>2. Granted(t)' <=> result'[t]
        BY <1>1, <2>1, <2>4 DEF Granted
      <3>3. ~ Ending(t) /\ ~ Ending(t)'
        BY <1>1, <2>1, <2>4 DEF Ending, WaitCalls
      <3> QED BY <1>g, <2>1, <2>2, <3>1, <3>2, <3>3
    <2> QED BY <1>2, <1>f, <2>1, <2>5 DEF CoreStep, Iterate
  <1>11. CASE CancelTimeout(t)
    <2>1. /\ pc[t] = "erase" /\ pc' = [pc EXCEPT ![t] = "wake"] /\ pc'[t] = "wake"
          /\ UNCHANGED <<result, info, unblockInfo, queue, scan, victim, lock>>
      BY <1>0, <1>2, <1>11 DEF CancelTimeout, Goto, TypeOK, Actor, unblockVars
    <2>2. Keeps(t)
      <3>1. ~ Granted(t) /\ ~ Granted(t)' /\ ~ Ending(t) /\ ~ Ending(t)'
        BY <2>1 DEF Granted, Ending
      <3> QED BY <1>g, <2>1, <3>1
    <2> QED BY <1>2, <1>f, <2>1, <2>2 DEF CoreStep, Iterate
  <1>12. CASE Wake(t)
    <2>1. /\ pc[t] = "wake" /\ pc' = [pc EXCEPT ![t] = "run"] /\ pc'[t] = "run" /\ result'[t]
          /\ \A u \in Thread : u # t => pc'[u] = pc[u] /\ result'[u] = result[u] /\ victim'[u] = victim[u]
          /\ UNCHANGED <<info, unblockInfo, queue, scan, lock>>
      BY <1>0, <1>12 DEF Wake, Goto, TypeOK, Actor, waitVars
    <2>2. call[t] = "passing"
      BY <1>0, <2>1 DEF CallsInv
    <2>3. Keeps(t)
      <3>1. ~ Granted(t) /\ ~ Granted(t)' /\ ~ Ending(t) /\ ~ Ending(t)'
        BY <1>1, <2>1, <2>2 DEF Granted, Ending, WaitCalls
      <3> QED BY <1>g, <2>1, <3>1
    <2>4. \A u \in Thread : u # t => Keeps(u)
      BY <1>0, <1>1, <2>1, Untouched
    <2> QED BY <1>2, <2>1, <2>3, <2>4 DEF CoreStep, Iterate
  <1>13. /\ ~ BlockRefuse(t) /\ ~ SwitchInCancelled(t) /\ ~ Preempt(t) /\ ~ Exit(t)
         /\ ~ ScanSkip(t) /\ ~ ScanClaim(t) /\ ~ ScanEnd(t)
         /\ ~ CancelEvent(t) /\ ~ CancelNoEvent(t) /\ ~ CancelClaim(t) /\ ~ CancelMiss(t)
    BY <1>2 DEF BlockRefuse, SwitchInCancelled, Preempt, Exit, ScanSkip, ScanClaim, ScanEnd,
                CancelEvent, CancelNoEvent, CancelClaim, CancelMiss
  <1> QED
    BY <1>1, <1>5, <1>6, <1>7, <1>8, <1>9, <1>10, <1>11, <1>12, <1>13 DEF Step

(* A deadline that expires takes the mutex from nobody: until cancelEvent  *)
(* its victim is linked, and afterwards it has timed out.                  *)
LEMMA ClockKeeps ==
  ASSUME Inv, LinkedInv, MutexInv, ClockStep, UNCHANGED mvars
  PROVE  \A u \in Thread : Keeps(u)
  <1>0. TypeOK /\ MutexTypeOK /\ CallsInv /\ Mtx \in Queue /\ MtxLock \in Lock /\ MtxLock # TimeoutLock
    BY ConstantsAssumption, MutexAssumption DEF Inv, MutexInv, MtxLock
  <1>1. Clock \notin Thread /\ UNCHANGED <<call, calls>>
    BY ConstantsAssumption DEF mvars
  <1>f. ASSUME NEW l, pc' = [pc EXCEPT ![Clock] = l], UNCHANGED <<scan, result, info, unblockInfo, queue>>,
               lock'[MtxLock] = lock[MtxLock], \A u \in Thread : victim'[u] = victim[u]
        PROVE  \A u \in Thread : Keeps(u)
    <2>1. \A u \in Thread : pc'[u] = pc[u]
      BY <1>0, <1>1, <1>f DEF TypeOK, Actor
    <2> QED BY <1>0, <1>1, <1>f, <2>1, Untouched
  <1>2. CASE ExpiryBegin
    BY <1>0, <1>2, <1>f DEF ExpiryBegin, Goto, TypeOK, waitVars, unblockVars
  <1>3. ASSUME NEW v \in Thread, ExpiryCollect(v) PROVE \A u \in Thread : Keeps(u)
    <2>1. /\ unblockInfo[v] /\ \A u \in Thread : u # v => unblockInfo'[u] = unblockInfo[u]
          /\ UNCHANGED <<pc, result, info, queue, scan, victim, lock>>
      BY <1>0, <1>3 DEF ExpiryCollect, Expirable, TypeOK
    <2>2. pc[v] \in {"switch", "off"}
      BY <2>1, HasMtxLock
    <2>3. v \in ToSet(queue[Mtx])
      <3>1. info[v].q = Mtx /\ Mtx # NoQueue
        BY <1>0, <2>2, ConstantsAssumption DEF CallsInv
      <3> QED BY <2>1, <3>1 DEF LinkedInv, Linked
    <2>4. ~ Granted(v) /\ ~ Granted(v)' /\ ~ Ending(v) /\ ~ Ending(v)' /\ ~ Scanning(v) /\ ~ Scanning(v)'
      BY <2>1, <2>2, <2>3 DEF Granted, Ending, Scanning
    <2>5. Keeps(v)
      BY <1>0, <1>1, <2>1, <2>2, <2>4 DEF Keeps, MutexTypeOK
    <2>6. \A u \in Thread : u # v => Keeps(u)
      BY <1>0, <1>1, <2>1, Untouched
    <2> QED BY <2>5, <2>6
  <1>4. CASE ExpiryCollected
    BY <1>0, <1>4, <1>f DEF ExpiryCollected, Goto, TypeOK, waitVars, unblockVars
  <1>5. ASSUME NEW v \in Thread, ExpiryFire(v) PROVE \A u \in Thread : Keeps(u)
    <2>1. \A u \in Thread : victim'[u] = victim[u]
      BY <1>0, <1>1, <1>5 DEF ExpiryFire, TypeOK, Actor
    <2>2. pc' = [pc EXCEPT ![Clock] = "remove"] /\ UNCHANGED <<scan, result, info, unblockInfo, queue, lock>>
      BY <1>5 DEF ExpiryFire, Goto, waitVars
    <2> QED BY <1>f, <2>1, <2>2
  <1>6. CASE CancelEvent(Clock)
    <2>1. PICK v \in Thread : v = victim[Clock] /\ pc[v] \in {"switch", "off"}
      BY <1>6 DEF CancelEvent, Inv, ClaimsInv, Claims, Unblocking, Waiting, Actor
    <2>2. info[v].q = Mtx /\ Mtx # NoQueue
      BY <1>0, <2>1, ConstantsAssumption DEF CallsInv
    <2>3. /\ lock[MtxLock] = Nobody /\ queue'[Mtx] = Unlink(queue[Mtx], v)
          /\ info'[v].timedOut /\ \A u \in Thread : u # v => info'[u] = info[u]
          /\ pc' = [pc EXCEPT ![Clock] = "wake"]
          /\ UNCHANGED <<result, unblockInfo, scan, victim, lock>>
      BY <1>0, <1>6, <2>1, <2>2 DEF CancelEvent, Goto, TypeOK, WaitInfo, MtxLock, unblockVars
    <2>4. \A u \in Thread : pc'[u] = pc[u]
      BY <1>0, <1>1, <2>3 DEF TypeOK, Actor
    <2>5. \A u \in Thread : u # v => (u \in ToSet(queue'[Mtx]) <=> u \in ToSet(queue[Mtx]))
      <3>1. queue[Mtx] \in Seq(Thread) /\ IsInjective(queue[Mtx])
        BY <1>0 DEF TypeOK, Inv, ListsInv
      <3> QED BY <2>3, <3>1, UnlinkList
    <2>6. \A u \in Thread : ~ Scanning(u) /\ ~ Ending(u)
      BY <2>3, HasMtxLock, ConstantsAssumption DEF Scanning
    <2>7. v \in ToSet(queue[Mtx])
      BY <1>6, <2>1, <2>2 DEF CancelEvent, LinkedInv, Linked, Actor
    <2>8. ~ Granted(v) /\ ~ Granted(v)' /\ ~ Ending(v)' /\ ~ Scanning(v)'
      BY <2>1, <2>3, <2>4, <2>7 DEF Granted, Ending, Scanning
    <2>9. Keeps(v)
      BY <1>0, <1>1, <2>1, <2>4, <2>6, <2>8 DEF Keeps, MutexTypeOK
    <2>10. \A u \in Thread : u # v => Keeps(u)
      BY <1>0, <1>1, <2>3, <2>4, <2>5, <2>6, Untouched
    <2> QED BY <2>9, <2>10
  <1>7. CASE CancelNoEvent(Clock)
    BY <1>0, <1>7, <1>f DEF CancelNoEvent, Goto, TypeOK, waitVars, unblockVars
  <1>8. CASE ExpiryWake
    <2>1. \A u \in Thread : victim'[u] = victim[u]
      BY <1>0, <1>1, <1>8 DEF ExpiryWake, TypeOK, Actor
    <2>2. pc' = [pc EXCEPT ![Clock] = "fire"] /\ UNCHANGED <<scan, result, info, unblockInfo, queue, lock>>
      BY <1>8 DEF ExpiryWake, Goto, waitVars
    <2> QED BY <1>f, <2>1, <2>2
  <1>9. CASE ExpiryEnd
    BY <1>0, <1>9, <1>f DEF ExpiryEnd, Goto, TypeOK, waitVars, unblockVars
  <1> QED
    BY <1>2, <1>3, <1>4, <1>5, <1>6, <1>7, <1>8, <1>9 DEF ClockStep

(* The scan: the releasing thread keeps the mutex until it claims a        *)
(* waiter, which then has it, and owner already names that waiter.         *)
LEMMA ScanMoves ==
  ASSUME Inv, MutexInv, TypeOK', NEW t \in Thread, CoreStep(t), pc[t] = "scan"
  PROVE  OwnerInv' /\ CounterInv'
  <1>0. TypeOK /\ MutexTypeOK /\ CallsInv /\ OwnerInv /\ CounterInv /\ Mtx \in Queue /\ MtxLock \in Lock
        /\ NoQueue # Mtx
    BY ConstantsAssumption, MutexAssumption DEF Inv, MutexInv, MtxLock
  <1>1. Step(t) /\ UNCHANGED <<counter, call, calls>>
    BY DEF CoreStep
  <1>2. /\ scan[t].q = Mtx /\ scan[t] \in ScanPos /\ call[t] = "passing" /\ lock[MtxLock] = t
        /\ Scanning(t) /\ owner = Cursor(t)
    BY <1>0, HasMtxLock DEF CallsInv, TypeOK, Scanning, OwnerInv
  <1>3. \A u \in Thread : u # t => ~ Has(u)
    BY <1>0, <1>2 DEF OwnerInv, Has
  <1>4. Recursive => counter = 0
    BY <1>0, <1>2 DEF CounterInv, Has
  <1>5. CASE ScanSkip(t)
    <2>1. /\ scan'[t].q = Mtx /\ pc'[t] = "scan" /\ call'[t] = "passing"
          /\ \A u \in Thread : u # t => scan'[u] = scan[u]
          /\ UNCHANGED <<pc, result, lock, queue, info, unblockInfo, victim>>
      BY <1>0, <1>1, <1>2, <1>5 DEF ScanSkip, TypeOK, ScanPos, waitVars
    <2>2. \A u \in Thread : u # t => Keeps(u)
      BY <1>0, <1>1, <2>1, Untouched
    <2>3. owner' = Cursor(t)'
      BY <2>1 DEF CoreStep, Iterate, Cursor
    <2>4. ~ Owns(t)' /\ ~ Ending(t)' /\ Scanning(t)'
      BY <2>1 DEF Owns, Granted, Ending, Scanning, WaitCalls
    <2> QED BY <1>1, <1>3, <1>4, <2>1, <2>2, <2>3, <2>4, OneMoves
  <1>6. CASE ScanEnd(t)
    <2>1. /\ pc'[t] = "run" /\ ~ result'[t] /\ call'[t] = "passing" /\ scan'[t].q # Mtx
          /\ scan[t].i > Len(queue[Mtx])
          /\ \A u \in Thread : u # t => scan'[u] = scan[u] /\ pc'[u] = pc[u] /\ result'[u] = result[u]
          /\ UNCHANGED <<lock, queue, info, unblockInfo, victim>>
      BY <1>0, <1>1, <1>2, <1>6 DEF ScanEnd, Goto, TypeOK, Actor, NoScan, waitVars
    <2>2. \A u \in Thread : u # t => Keeps(u)
      BY <1>0, <1>1, <2>1, Untouched
    <2>3. owner' = Fence
      <3>1. scan[t].i \in Nat /\ Len(queue[Mtx]) \in Nat
        BY <1>0, <1>2 DEF TypeOK, ScanPos
      <3>2. Cursor(t) = Fence
        BY <2>1, <3>1 DEF Cursor
      <3> QED BY <1>2, <2>1, <3>2 DEF CoreStep, Iterate
    <2>4. ~ Owns(t)' /\ Ending(t)' /\ ~ Scanning(t)' /\ lock'[MtxLock] = t
      BY <1>2, <2>1 DEF Owns, Granted, Ending, Scanning, WaitCalls
    <2>5. owner' \notin Thread /\ owner' # Nobody
      BY <2>3, MutexAssumption
    <2> QED BY <1>1, <1>3, <1>4, <2>1, <2>2, <2>3, <2>4, <2>5, OneMoves
  <1>7. CASE ScanClaim(t)
    <2>1. PICK v : v = queue[Mtx][scan[t].i]
      OBVIOUS
    <2>2. v \in Thread /\ v \in ToSet(queue[Mtx]) /\ pc[v] = "off" /\ info[v].q = Mtx
      BY <1>2, <1>7, <2>1, ScanTarget
    <2>3. /\ pc' = [pc EXCEPT ![t] = "erase"] /\ scan' = [scan EXCEPT ![t] = NoScan]
          /\ victim' = [victim EXCEPT ![t] = v]
          /\ unblockInfo[v] /\ unblockInfo' = [unblockInfo EXCEPT ![v] = FALSE]
          /\ queue' = [queue EXCEPT ![Mtx] = Unlink(queue[Mtx], v)]
          /\ UNCHANGED <<info, result>> /\ scan[t].i <= Len(queue[Mtx])
      BY <1>2, <1>7, <2>1 DEF ScanClaim, Goto
    <2>4. /\ pc'[t] = "erase" /\ victim'[t] = v /\ scan'[t].q # Mtx
          /\ \A u \in Thread : u # t => pc'[u] = pc[u] /\ scan'[u] = scan[u] /\ victim'[u] = victim[u]
          /\ ~ unblockInfo'[v] /\ \A u \in Thread : u # v => unblockInfo'[u] = unblockInfo[u]
      BY <1>0, <2>2, <2>3 DEF TypeOK, Actor, NoScan
    <2>5. ToSet(queue'[Mtx]) = ToSet(queue[Mtx]) \ {v}
      <3>1. queue[Mtx] \in Seq(Thread) /\ IsInjective(queue[Mtx])
        BY <1>0 DEF TypeOK, Inv, ListsInv
      <3>2. queue'[Mtx] = Unlink(queue[Mtx], v)
        BY <1>0, <2>3 DEF TypeOK
      <3> QED BY <3>1, <3>2, UnlinkList
    <2>6. v # t
      BY <2>2
    <2>7. Granted(v)'
      <3>1. call[v] \in WaitCalls /\ ~ info[v].timedOut
        BY <1>0, <2>2, <2>3 DEF CallsInv
      <3> QED BY <1>1, <2>2, <2>3, <2>4, <2>5, <2>6, <3>1 DEF Granted
    <2>8. owner' = v
      <3>1. Cursor(t) = v
        BY <2>1, <2>3 DEF Cursor
      <3> QED BY <1>2, <2>4, <3>1 DEF CoreStep, Iterate
    <2>9. ASSUME NEW u \in Thread, u # t, u # v PROVE ~ Has(u)' /\ call'[u] # "held" /\ pc'[u] \notin {"erase", "wake"}
      <3>1. ~ Has(u)
        BY <1>3, <2>9
      <3>2. (Granted(u)' <=> Granted(u)) /\ (Scanning(u)' <=> Scanning(u)) /\ (Ending(u)' <=> Ending(u))
        BY <1>1, <2>3, <2>4, <2>5, <2>9 DEF Granted, Scanning, Ending
      <3>3. ~ Has(u)' /\ call'[u] # "held"
        BY <1>1, <3>1, <3>2 DEF Has, Owns
      <3>4. pc[u] \notin {"erase", "wake"}
        BY <1>3, <1>0, HasMtxLock DEF OwnerInv, Has, Owns
      <3> QED BY <2>4, <2>9, <3>3, <3>4
    <2>10. ~ Has(t)' /\ call'[t] # "held"
      BY <1>1, <1>2, <2>4 DEF Has, Owns, Granted, Scanning, Ending, WaitCalls
    <2>11. Owns(v)' /\ ~ Scanning(v)' /\ ~ Ending(v)' /\ call'[v] # "held" /\ pc'[v] \notin {"erase", "wake"}
      <3>1. call[v] \in WaitCalls /\ pc'[v] = "off"
        BY <1>0, <2>2, <2>4, <2>6 DEF CallsInv
      <3> QED BY <1>1, <2>7, <3>1 DEF Owns, Scanning, Ending, WaitCalls
    <2>12. OwnerInv'
      <3>1. \A u \in Thread : u # v => ~ Has(u)'
        BY <2>9, <2>10
      <3>2. \A u \in Thread : pc'[u] \in {"erase", "wake"} => u = t
        BY <2>9, <2>11
      <3>3. Granted(victim[t])'
        BY <2>4, <2>7 DEF Granted
      <3>4. owner' \in Thread => Owns(owner)'
        BY <2>8, <2>11 DEF Owns, Granted
      <3>5. \A u \in Thread : (Owns(u)' => owner' = u) /\ ~ Scanning(u)' /\ ~ Ending(u)'
        BY <2>8, <2>11, <3>1 DEF Has
      <3> QED BY <3>1, <3>2, <3>3, <3>4, <3>5 DEF OwnerInv
    <2>13. CounterInv'
      BY <1>1, <1>4, <2>9, <2>10, <2>11 DEF CounterInv
    <2> QED BY <2>12, <2>13
  <1>8. ScanSkip(t) \/ ScanClaim(t) \/ ScanEnd(t)
    BY <1>1 DEF Step, TakeTimeoutLock, BlockRefuse, BlockCheck, BlockStore, SwitchOut, Dispatch, SwitchIn,
                SwitchInCancelled, CancelTimeout, CancelEvent, CancelNoEvent, Wake, CancelClaim, CancelMiss,
                Preempt, Exit
  <1> QED BY <1>5, <1>6, <1>7, <1>8

(* The calls of acquire and release, and the counter of OwnerMutex.        *)
LEMMA CallerMoves ==
  ASSUME Inv, MutexInv, MutexTypeOK', NEW t \in Thread,
         ThreadStep(t) \/ AcquireNested(t) \/ \E c \in AcquireCalls : AcquireCheck(t, c)
  PROVE  OwnerInv' /\ CounterInv'
  <1>0. TypeOK /\ MutexTypeOK /\ CallsInv /\ OwnerInv /\ CounterInv /\ Mtx \in Queue /\ MtxLock \in Lock
    BY ConstantsAssumption, MutexAssumption DEF Inv, MutexInv, MtxLock
  <1>c. calls' \in [Thread -> Nat] /\ t # Nobody /\ Fence # Nobody
    BY MutexAssumption, ConstantsAssumption DEF MutexTypeOK
  <1>h. ASSUME Has(t) PROVE \A u \in Thread : u # t => ~ Has(u)
    BY <1>0, <1>h DEF OwnerInv
  <1>l. \A u \in Thread : u # t /\ Ending(u) => lock[MtxLock] \notin {t, Nobody}
    BY <1>0, ConstantsAssumption DEF OwnerInv
  (* A step of t that neither blocks nor resumes.                            *)
  <1>f. ASSUME UNCHANGED <<pc, result, info, unblockInfo, queue, scan, victim>>,
               \A u \in Thread : u # t => call'[u] = call[u] /\ calls'[u] = calls[u],
               \A u \in Thread : u # t /\ Ending(u) => lock'[MtxLock] = lock[MtxLock]
        PROVE  \A u \in Thread : u # t => Keeps(u)
    BY <1>0, <1>f, Untouched
  <1>1. ASSUME NEW c \in AcquireCalls, AcquireCheck(t, c) PROVE OwnerInv' /\ CounterInv'
    <2>1. /\ pc[t] = "run" /\ call[t] = "none" /\ call'[t] = c /\ calls'[t] = calls[t] + 1
          /\ UNCHANGED <<pc, result, info, unblockInfo, queue, scan, victim, lock, owner, counter>>
          /\ \A u \in Thread : u # t => call'[u] = call[u] /\ calls'[u] = calls[u]
      BY <1>0, <1>1 DEF AcquireCheck, Become, MutexTypeOK, vars, waitVars, unblockVars
    <2>2. Keeps(t)
      BY <1>0, <2>1 DEF Keeps, Granted, Ending, Scanning, WaitCalls, AcquireCalls, MutexTypeOK
    <2>3. \A u \in Thread : Keeps(u)
      BY <1>f, <2>1, <2>2
    <2> QED BY <1>c, <2>1, <2>3, NobodyMoves
  <1>2. CASE AcquireNested(t)
    <2>1. /\ pc[t] = "run" /\ call[t] = "held" /\ owner = t /\ calls'[t] = calls[t] + 1 /\ counter' = counter + 1
          /\ UNCHANGED <<pc, result, info, unblockInfo, queue, scan, victim, lock, owner, call>>
          /\ \A u \in Thread : u # t => call'[u] = call[u] /\ calls'[u] = calls[u]
      BY <1>0, <1>2 DEF AcquireNested, MutexTypeOK, vars, waitVars, unblockVars
    <2>2. \A u \in Thread : u # t => ~ Has(u) /\ Keeps(u)
      BY <1>f, <1>h, <2>1 DEF Has, Owns
    <2>3. Owns(t)' /\ ~ Scanning(t)' /\ ~ Ending(t)' /\ call'[t] = "held"
      BY <2>1 DEF Owns, Scanning, Ending
    <2>4. Recursive => counter' \in 1 .. calls'[t]
      <3> HAVE Recursive
      <3>1. counter \in 1 .. calls[t] /\ calls[t] \in Nat
        BY <1>0, <2>1 DEF CounterInv, MutexTypeOK
      <3> QED BY <2>1, <3>1
    <2> QED BY <1>c, <2>1, <2>2, <2>3, <2>4, OneMoves
  <1>3. CASE AcquireLock(t) \/ ReleaseLock(t)
    <2>1. /\ pc[t] = "run" /\ lock[MtxLock] = Nobody /\ call[t] \in AcquireCalls \cup {"held"}
          /\ UNCHANGED <<pc, result, info, unblockInfo, queue, scan, victim, owner, counter, call, calls>>
      BY <1>3 DEF AcquireLock, ReleaseLock, Acquire, mvars, waitVars, unblockVars
    <2>2. \A u \in Thread : u # t => Keeps(u)
      BY <1>f, <1>l, <2>1
    <2>3. Keeps(t)
      BY <1>0, <2>1 DEF Keeps, Granted, Ending, Scanning, AcquireCalls, WaitCalls, MutexTypeOK
    <2> QED BY <1>c, <2>1, <2>2, <2>3, NobodyMoves
  <1>4. CASE AcquireFree(t)
    <2>1. /\ pc[t] = "run" /\ call[t] \in AcquireCalls /\ call'[t] = "won" /\ lock[MtxLock] = t
          /\ owner = Nobody /\ owner' = t
          /\ UNCHANGED <<pc, result, info, unblockInfo, queue, scan, victim, counter, calls>>
          /\ \A u \in Thread : u # t => call'[u] = call[u]
      BY <1>0, <1>4 DEF AcquireFree, Release, Holds, Become, MutexTypeOK, waitVars, unblockVars
    <2>2. \A u \in Thread : ~ Has(u)
      <3> SUFFICES ASSUME NEW u \in Thread, Has(u) PROVE FALSE
        OBVIOUS
      <3>1. CASE Owns(u)
        BY <1>0, <2>1, <3>1, ConstantsAssumption DEF OwnerInv
      <3>2. CASE Scanning(u)
        <4>1. lock[MtxLock] = u
          BY <3>2, HasMtxLock DEF Scanning
        <4> QED BY <2>1, <3>2, <4>1 DEF Scanning
      <3>3. CASE Ending(u)
        BY <1>0, <1>c, <2>1, <3>3 DEF OwnerInv
      <3> QED BY <3>1, <3>2, <3>3 DEF Has
    <2>3. \A u \in Thread : u # t => ~ Has(u) /\ Keeps(u)
      BY <1>f, <1>l, <2>1, <2>2
    <2>4. Owns(t)' /\ ~ Scanning(t)' /\ ~ Ending(t)' /\ (Recursive => counter' = 0)
      BY <1>0, <2>1 DEF Owns, Scanning, Ending, CounterInv
    <2> QED BY <1>c, <2>1, <2>3, <2>4, OneMoves
  <1>5. CASE AcquireBlock(t)
    <2>1. /\ pc[t] = "run" /\ call[t] \in AcquireCalls /\ lock[MtxLock] = t
          /\ UNCHANGED <<unblockInfo, queue, scan, victim, owner, counter, calls>>
      BY <1>5 DEF AcquireBlock, Block, BlockNot, Holds, MtxLock, waitVars, unblockVars
    <2>2. \E c \in WaitCalls \cup {"none"} : call' = [call EXCEPT ![t] = c]
      BY <1>5 DEF AcquireBlock, Become, WaitCalls
    <2>3. /\ \E l \in {"timed", "check", "run"} : pc' = [pc EXCEPT ![t] = l]
          /\ \A u \in Thread : u # t => info'[u] = info[u] /\ result'[u] = result[u]
      <3>1. ASSUME NEW timed \in BOOLEAN, Block(t, Mtx, timed)
            PROVE  /\ \E l \in {"timed", "check"} : pc' = [pc EXCEPT ![t] = l]
                   /\ \A u \in Thread : u # t => info'[u] = info[u] /\ result'[u] = result[u]
        BY <1>0, <3>1 DEF Block, Goto, TypeOK
      <3>2. CASE BlockNot(t, Mtx)
        <4>1. pc' = [pc EXCEPT ![t] = "run"]
          BY <1>0, <2>1, <3>2 DEF BlockNot, TypeOK, Actor
        <4>2. \A u \in Thread : u # t => info'[u] = info[u] /\ result'[u] = result[u]
          BY <1>0, <3>2 DEF BlockNot, TypeOK, waitVars
        <4> QED BY <4>1, <4>2
      <3> QED BY <1>5, <3>1, <3>2 DEF AcquireBlock
    <2>4. /\ call'[t] \in WaitCalls => pc'[t] \in {"timed", "check"}
          /\ call'[t] \in WaitCalls \cup {"none"} /\ pc'[t] \in {"timed", "check", "run"}
      <3>1. pc'[t] \in {"timed", "check", "run"}
        BY <1>0, <2>3 DEF TypeOK, Actor
      <3>2. call'[t] \in WaitCalls \cup {"none"}
        BY <1>0, <2>2 DEF MutexTypeOK
      <3>3. call'[t] \in WaitCalls => \E timed \in BOOLEAN : Block(t, Mtx, timed)
        BY <1>0, <1>5 DEF AcquireBlock, Become, WaitCalls, MutexTypeOK
      <3>4. ASSUME NEW timed \in BOOLEAN, Block(t, Mtx, timed) PROVE pc'[t] \in {"timed", "check"}
        BY <1>0, <3>4 DEF Block, Goto, TypeOK, Actor
      <3> QED BY <3>1, <3>2, <3>3, <3>4
    <2>5. \A u \in Thread : u # t => pc'[u] = pc[u] /\ call'[u] = call[u]
      BY <1>0, <2>2, <2>3 DEF TypeOK, MutexTypeOK, Actor
    <2>6. \A u \in Thread : u # t => Keeps(u)
      BY <1>0, <1>l, <2>1, <2>3, <2>5, Untouched
    <2>7. Keeps(t)
      <3>1. ~ Granted(t) /\ ~ Granted(t)' /\ ~ Ending(t) /\ ~ Ending(t)' /\ ~ Scanning(t) /\ ~ Scanning(t)'
        BY <2>1, <2>4 DEF Granted, Ending, Scanning, AcquireCalls, WaitCalls
      <3> QED BY <1>0, <2>1, <2>4, <3>1 DEF Keeps, AcquireCalls, WaitCalls, MutexTypeOK
    <2> QED BY <1>c, <2>1, <2>6, <2>7, NobodyMoves
  <1>6. CASE AcquireFail(t) \/ ReleaseReturn(t)
    <2>0. /\ pc[t] = "run"
          /\ (call[t] \in WaitCalls /\ ~ result[t]) \/ (call[t] = "passing" /\ result[t])
      BY <1>6 DEF AcquireFail, ReleaseReturn
    <2>1. /\ call'[t] = "none"
          /\ UNCHANGED <<pc, result, info, unblockInfo, queue, scan, victim, lock, owner, counter, calls>>
          /\ \A u \in Thread : u # t => call'[u] = call[u]
      BY <1>0, <1>6 DEF AcquireFail, ReleaseReturn, Become, MutexTypeOK, vars, waitVars, unblockVars
    <2>2. Keeps(t)
      BY <1>0, <2>0, <2>1 DEF Keeps, Granted, Ending, Scanning, WaitCalls, MutexTypeOK
    <2>3. \A u \in Thread : Keeps(u)
      BY <1>f, <2>1, <2>2
    <2> QED BY <1>c, <2>1, <2>3, NobodyMoves
  <1>7. CASE AcquireReturn(t)
    <2>1. /\ call[t] = "won" \/ (call[t] \in WaitCalls /\ pc[t] = "run" /\ result[t])
          /\ call'[t] = "held" /\ counter' = IF Recursive THEN counter + 1 ELSE counter
          /\ UNCHANGED <<pc, result, info, unblockInfo, queue, scan, victim, lock, owner, calls>>
          /\ \A u \in Thread : u # t => call'[u] = call[u]
      BY <1>0, <1>7 DEF AcquireReturn, Become, MutexTypeOK, vars, waitVars, unblockVars
    <2>2. Owns(t) /\ Has(t) /\ call[t] \notin {"held", "none"} /\ pc[t] = "run"
      <3>1. Owns(t)
        BY <2>1 DEF Owns, Granted
      <3>2. pc[t] = "run" /\ call[t] \notin {"held", "none"}
        BY <1>0, <2>1 DEF CallsInv, WaitCalls
      <3> QED BY <3>1, <3>2 DEF Has
    <2>3. \A u \in Thread : u # t => ~ Has(u) /\ Keeps(u)
      BY <1>f, <1>h, <2>1, <2>2
    <2>4. Owns(t)' /\ ~ Scanning(t)' /\ ~ Ending(t)' /\ owner' = t
      BY <1>0, <2>1, <2>2 DEF Owns, Scanning, Ending, OwnerInv
    <2>5. Recursive => counter' \in 1 .. calls'[t]
      <3>1. calls[t] \in Nat /\ calls[t] > 0
        BY <1>0, <2>2 DEF CallsInv, MutexTypeOK
      <3>2. Recursive => counter' = 1
        BY <1>0, <2>1, <2>2 DEF CounterInv
      <3> QED BY <2>1, <3>1, <3>2
    <2> QED BY <1>c, <2>1, <2>2, <2>3, <2>4, <2>5, OneMoves
  <1>8. CASE ReleaseNested(t)
    <2>1. /\ pc[t] = "run" /\ call[t] = "held" /\ lock[MtxLock] = t /\ counter > 1 /\ counter' = counter - 1
          /\ UNCHANGED <<pc, result, info, unblockInfo, queue, scan, victim, owner, call, calls>>
      BY <1>8 DEF ReleaseNested, Release, Holds, waitVars, unblockVars
    <2>2. \A u \in Thread : u # t => ~ Has(u) /\ Keeps(u)
      BY <1>f, <1>h, <1>l, <2>1 DEF Has, Owns
    <2>3. Owns(t) /\ Owns(t)' /\ ~ Scanning(t)' /\ ~ Ending(t)' /\ owner' = t
      BY <1>0, <2>1 DEF Owns, Scanning, Ending, OwnerInv
    <2>4. Recursive => counter' \in 1 .. calls'[t]
      <3> HAVE Recursive
      <3>1. counter \in 1 .. calls[t] /\ calls[t] \in Nat
        BY <1>0, <2>1 DEF CounterInv, MutexTypeOK
      <3> QED BY <2>1, <3>1
    <2> QED BY <1>c, <2>1, <2>2, <2>3, <2>4, OneMoves
  <1>9. CASE ReleasePass(t)
    <2>1. /\ pc[t] = "run" /\ call[t] = "held" /\ call'[t] = "passing" /\ counter' = 0
          /\ pc'[t] = "scan" /\ scan'[t].q = Mtx
          /\ \A u \in Thread : u # t => call'[u] = call[u] /\ pc'[u] = pc[u] /\ scan'[u] = scan[u]
          /\ UNCHANGED <<result, info, unblockInfo, queue, victim, lock, calls>>
      BY <1>0, <1>9 DEF ReleasePass, Resume, Become, Goto, TypeOK, MutexTypeOK, Actor, waitVars
    <2>2. \A u \in Thread : u # t => Keeps(u)
      BY <1>0, <2>1, Untouched
    <2>3. \A u \in Thread : u # t => ~ Has(u)
      BY <1>h, <2>1 DEF Has, Owns
    <2>4. ~ Owns(t)' /\ Scanning(t)' /\ ~ Ending(t)'
      BY <2>1 DEF Owns, Granted, Scanning, Ending, WaitCalls
    <2>5. owner' = Cursor(t)'
      BY <1>9, <2>1 DEF ReleasePass, Iterate, Cursor
    <2> QED BY <2>1, <2>2, <2>3, <2>4, <2>5, OneMoves
  <1>10. CASE ReleaseFree(t)
    <2>1. /\ pc[t] = "run" /\ call[t] = "passing" /\ ~ result[t] /\ call'[t] = "none" /\ lock[MtxLock] = t
          /\ owner' = Nobody /\ counter' = counter
          /\ \A u \in Thread : u # t => call'[u] = call[u]
          /\ UNCHANGED <<pc, result, info, unblockInfo, queue, scan, victim, calls>>
      BY <1>0, <1>10 DEF ReleaseFree, Release, Holds, Become, MutexTypeOK, waitVars, unblockVars
    <2>2. Ending(t) /\ Has(t)
      BY <2>1 DEF Ending, Has
    <2>3. \A u \in Thread : u # t => ~ Has(u) /\ Keeps(u)
      BY <1>f, <1>h, <1>l, <2>1, <2>2
    <2>4. ~ Owns(t)' /\ ~ Scanning(t)' /\ ~ Ending(t)' /\ (Recursive => counter' = 0)
      BY <1>0, <2>1, <2>2 DEF Owns, Granted, Scanning, Ending, WaitCalls, CounterInv
    <2>5. owner' \notin Thread /\ ~ Has(t)'
      BY <2>1, <2>4, ConstantsAssumption DEF Has
    <2> QED BY <2>1, <2>3, <2>4, <2>5, OneMoves
  <1> QED
    BY <1>1, <1>2, <1>3, <1>4, <1>5, <1>6, <1>7, <1>8, <1>9, <1>10 DEF ThreadStep

-----------------------------------------------------------------------------
(* The invariant holds in every reachable state.                           *)
THEOREM MutexInvariance == MutexSpec => []MutexInv
  <1>1. Inv /\ Inv' /\ LinkedInv /\ MutexInv /\ [MutexNext]_allVars => MutexInv'
    <2> SUFFICES ASSUME Inv, Inv', LinkedInv, MutexInv, [MutexNext]_allVars PROVE MutexInv'
      OBVIOUS
    <2>1. CallsInv'
      BY CallsStep
    <2>2. MutexTypeOK'
      BY <2>1, MutexTypeStep DEF MutexInv
    <2>t. calls' \in [Thread -> Nat] /\ TypeOK'
      BY <2>2 DEF MutexTypeOK, Inv
    <2>3. OwnerInv' /\ CounterInv'
      <3>1. CASE UNCHANGED allVars
        <4>1. UNCHANGED <<pc, call, calls, result, info, unblockInfo, scan, victim, queue, lock, owner, counter>>
          BY <3>1 DEF allVars, mvars, vars, waitVars, unblockVars
        <4>2. \A u \in Thread : Keeps(u)
          BY <4>1, Untouched DEF MutexInv
        <4> QED BY <2>t, <4>1, <4>2, NobodyMoves
      <3>2. CASE ClockStep /\ UNCHANGED mvars
        BY <2>t, <3>2, ClockKeeps, NobodyMoves DEF mvars
      <3>3. ASSUME NEW t \in Thread, CoreStep(t) PROVE OwnerInv' /\ CounterInv'
        <4>1. CASE pc[t] = "scan"
          BY <2>t, <3>3, <4>1, ScanMoves
        <4>2. CASE pc[t] # "scan"
          <5>1. owner' = owner /\ \A u \in Thread : Keeps(u)
            BY <3>3, <4>2, CoreKeeps
          <5>2. counter' = counter
            BY <3>3 DEF CoreStep
          <5> QED BY <2>t, <5>1, <5>2, NobodyMoves
        <4> QED BY <4>1, <4>2
      <3>4. ASSUME NEW t \in Thread,
                   ThreadStep(t) \/ AcquireNested(t) \/ \E c \in AcquireCalls : AcquireCheck(t, c)
            PROVE  OwnerInv' /\ CounterInv'
        BY <2>2, <3>4, CallerMoves
      <3> QED BY <3>1, <3>2, <3>3, <3>4 DEF MutexNext
    <2> QED BY <2>1, <2>2, <2>3 DEF MutexInv
  <1>2. MutexSpec => []Inv /\ []LinkedInv
    BY MutexRunsOnCore, Invariance, LinkedInvariance, PTL
  <1> QED
    BY MutexInvInit, <1>1, <1>2, PTL DEF MutexSpec

(* One thread at a time owns the mutex, for any number of threads, from    *)
(* the moment release hands it over until its own release hands it on.     *)
THEOREM MutexExclusive == MutexSpec => []MutualExclusion
  <1>1. MutexInv => MutualExclusion
    BY DEF MutexInv, OwnerInv, MutualExclusion, Has
  <1> QED BY <1>1, MutexInvariance, PTL

(* owner and the recursion counter tell the truth wherever they are read   *)
(* without the lock, although release uses owner as its list iterator.     *)
THEOREM OwnerTellsTruth == MutexSpec => []OwnerSound
  <1>1. Inv /\ MutexInv => OwnerSound
    <2> SUFFICES ASSUME Inv, MutexInv PROVE OwnerSound
      OBVIOUS
    <2>0. OwnerInv /\ CounterInv /\ CallsInv
      BY DEF MutexInv
    <2>1. ASSUME NEW t \in Thread, owner = t, pc[t] \notin {"switch", "off", "on"} PROVE Owns(t)
      <3> SUFFICES ASSUME NEW u \in Thread, Scanning(u) PROVE FALSE
        BY <2>0, <2>1 DEF OwnerInv
      <3>1. t = Cursor(u)
        BY <2>0, <2>1 DEF OwnerInv
      <3>2. scan[u].i <= Len(queue[Mtx]) /\ t = queue[Mtx][scan[u].i]
        BY <3>1, MutexAssumption DEF Cursor
      <3>3. queue[Mtx] \in Seq(Thread) /\ scan[u].i \in Nat /\ scan[u].i # 0
        BY MutexAssumption DEF Inv, TypeOK, ScanPos, LocksInv, Scanning
      <3>4. t \in ToSet(queue[Mtx])
        BY <3>2, <3>3 DEF ToSet
      <3> QED BY <2>1, <3>4, HasMtxLock
    <2>2. ASSUME NEW t \in Thread, call[t] = "passing", pc[t] \in {"erase", "wake"} PROVE owner = victim[t]
      <3>1. PICK v \in Thread : v = victim[t]
        BY <2>2, HasMtxLock
      <3>2. Granted(v)
        BY <2>0, <2>2, <3>1 DEF OwnerInv
      <3> QED BY <2>0, <3>1, <3>2 DEF OwnerInv, Owns
    <2>3. OwnerTrue
      BY <2>0, <2>1, <2>2 DEF OwnerTrue, OwnerInv
    <2>4. CounterOfOwner
      <3>1. \A t \in Thread : call[t] = "won" \/ Granted(t) => Has(t) /\ call[t] # "held"
        BY DEF Has, Owns, Granted, WaitCalls
      <3> QED BY <2>0, <3>1 DEF CounterInv, CounterOfOwner
    <2> QED BY <2>3, <2>4 DEF OwnerSound
  <1>2. MutexSpec => []Inv
    BY MutexRunsOnCore, Invariance, PTL
  <1> QED BY <1>1, <1>2, MutexInvariance, PTL


-----------------------------------------------------------------------------
(***************************************************************************)
(* The locks of user programs (module UserSync).                           *)
(***************************************************************************)
(* A set of threads, when one thread may come or go.                       *)
One(p) == IF p THEN 1 ELSE 0

LEMMA OneComesOrGoes ==
  ASSUME NEW S, NEW T, IsFiniteSet(S), NEW t, \A u : u # t => (u \in T <=> u \in S)
  PROVE  /\ IsFiniteSet(T) /\ Cardinality(S) \in Nat /\ Cardinality(T) \in Nat
         /\ Cardinality(T) = Cardinality(S) - One(t \in S) + One(t \in T)
  <1>1. Cardinality(S) \in Nat
    BY FS_CardinalityType
  <1>2. CASE t \in S /\ t \in T
    <2>1. T = S
      BY <1>2
    <2> QED BY <1>1, <1>2, <2>1 DEF One
  <1>3. CASE t \notin S /\ t \notin T
    <2>1. T = S
      BY <1>3
    <2> QED BY <1>1, <1>3, <2>1 DEF One
  <1>4. CASE t \in S /\ t \notin T
    <2>1. T = S \ {t}
      BY <1>4
    <2>2. IsFiniteSet(T) /\ Cardinality(T) = Cardinality(S) - 1
      BY <1>4, <2>1, FS_RemoveElement
    <2>3. Cardinality(T) \in Nat
      BY <2>2, FS_CardinalityType
    <2> QED BY <1>1, <1>4, <2>2, <2>3 DEF One
  <1>5. CASE t \notin S /\ t \in T
    <2>1. T = S \cup {t}
      BY <1>5
    <2>2. IsFiniteSet(T) /\ Cardinality(T) = Cardinality(S) + 1
      BY <1>5, <2>1, FS_AddElement
    <2> QED BY <1>1, <1>5, <2>2 DEF One
  <1> QED BY <1>2, <1>3, <1>4, <1>5

LEMMA OneMore ==
  ASSUME NEW S, IsFiniteSet(S), NEW x, x \notin S
  PROVE  Cardinality(S) \in Nat /\ Cardinality(S \cup {x}) = Cardinality(S) + 1
  BY FS_AddElement, FS_CardinalityType

LEMMA OneLess ==
  ASSUME NEW S, IsFiniteSet(S), NEW x \in S
  PROVE  Cardinality(S) \in Nat /\ Cardinality(S) >= 1 /\ Cardinality(S \ {x}) = Cardinality(S) - 1
  <1>1. Cardinality(S) \in Nat /\ Cardinality(S) # 0
    BY FS_CardinalityType, FS_EmptySet
  <1>2. Cardinality(S \ {x}) = Cardinality(S) - 1
    BY FS_RemoveElement
  <1> QED BY <1>1, <1>2

LEMMA UserSetsFinite ==
  /\ IsFiniteSet(Holders)
  /\ \A b \in Ben : IsFiniteSet(Waiters(b)) /\ IsFiniteSet(Posters(b)) /\ IsFiniteSet(Undoers(b))
  <1>1. IsFiniteSet(Locker) /\ IsFiniteSet(User)
    BY UserAssumption, FS_Union DEF User
  <1>2. Holders \subseteq Locker /\ \A b \in Ben : Waiters(b) \subseteq User /\ Posters(b) \subseteq User /\ Undoers(b) \subseteq User
    BY DEF Holders, Waiters, Posters, Undoers
  <1> QED BY <1>1, <1>2, FS_Subset

(* The counters and the sets, as numbers.                                  *)
MutexNum(h, w, p, u, n) == h + p <= 1 /\ p <= w /\ (h + p = 0 => w = 0 /\ u = 0) /\ n = 1 - h - w - u
CondNum(w, p, n) == w - p = IF n < 0 THEN -n ELSE 0

LEMMA CountedAsNumbers ==
  /\ MutexCounted <=> MutexNum(Cardinality(Holders), Cardinality(Waiters("mutex")),
                               sem["mutex"].count + Cardinality(Posters("mutex")),
                               Cardinality(Undoers("mutex")), benCount["mutex"])
  /\ CondCounted <=> CondNum(Cardinality(Waiters("cond")),
                             sem["cond"].count + Cardinality(Posters("cond")), benCount["cond"])
  BY DEF MutexCounted, MutexNum, CondCounted, CondNum, Posts

LEMMA CountedAsNumbersNext ==
  /\ MutexCounted' <=> MutexNum(Cardinality(Holders'), Cardinality(Waiters("mutex")'),
                                sem'["mutex"].count + Cardinality(Posters("mutex")'),
                                Cardinality(Undoers("mutex")'), benCount'["mutex"])
  /\ CondCounted' <=> CondNum(Cardinality(Waiters("cond")'),
                              sem'["cond"].count + Cardinality(Posters("cond")'), benCount'["cond"])
  BY DEF MutexCounted, MutexNum, CondCounted, CondNum, Posts

LEMMA UserFacts ==
  ASSUME UserInv
  PROVE  /\ benCount \in [Ben -> Int] /\ benCount["mutex"] \in Int /\ benCount["cond"] \in Int
         /\ sem \in [Ben -> [valid : BOOLEAN, count : Nat, queue : Seq(User)]] /\ sem["cond"].valid
         /\ sem["mutex"].count \in Nat /\ sem["cond"].count \in Nat
         /\ uat \in [User -> LockerAt \cup SignallerAt] /\ on \in [User -> Ben]
         /\ round \in [Locker -> 0 .. MaxRound] /\ bcast \in [Signaller -> BOOLEAN] /\ stray \in BOOLEAN
         /\ Locker \subseteq User /\ Signaller \subseteq User
         /\ \A t \in Locker : t \notin Signaller
         /\ Ben = {"mutex", "cond"} /\ "mutex" \in Ben /\ "cond" \in Ben
  BY UserAssumption DEF UserInv, UserTypeOK, User, Ben

LEMMA UserInvInit == UserInit => UserInv
  <1> SUFFICES ASSUME UserInit PROVE UserInv
    OBVIOUS
  <1>1. PICK e, s : e = <<>> /\ s = [valid |-> TRUE, count |-> 0, queue |-> e]
    OBVIOUS
  <1>2. /\ benCount["mutex"] = 1 /\ benCount["cond"] = 0 /\ benCount \in [Ben -> Int]
        /\ sem = [b \in Ben |-> s] /\ uat = [t \in User |-> "out"] /\ on = [t \in User |-> "mutex"]
        /\ round = [t \in Locker |-> 0] /\ bcast = [t \in Signaller |-> FALSE] /\ stray = FALSE
    BY <1>1 DEF UserInit, Ben
  <1>3. e \in Seq(User) /\ DOMAIN e = {}
    BY <1>1
  <1>4. s \in [valid : BOOLEAN, count : Nat, queue : Seq(User)] /\ s.valid = TRUE /\ s.count = 0 /\ s.queue = e
    BY <1>1, <1>3
  <1>5. /\ \A b \in Ben : sem[b] = s
        /\ \A t \in User : uat[t] = "out" /\ on[t] = "mutex"
        /\ "mutex" \in Ben /\ "cond" \in Ben
    BY <1>2 DEF Ben
  <1>6. UserTypeOK
    <2>1. 0 \in 0 .. MaxRound
      BY UserAssumption
    <2> QED BY <1>2, <1>4, <1>5, <2>1 DEF UserTypeOK, LockerAt
  <1>7. UserPlaces
    BY <1>5 DEF UserPlaces, LockerAt, SignallerAt, User
  <1>8. QueuesTrue
    BY <1>3, <1>4, <1>5 DEF QueuesTrue
  <1>9. /\ Holders = {} /\ Waiters("mutex") = {} /\ Waiters("cond") = {} /\ Undoers("mutex") = {}
        /\ Posters("mutex") = {} /\ Posters("cond") = {}
    BY <1>5 DEF Holders, Waiters, Undoers, Posters, User
  <1>10. Cardinality({}) = 0
    BY FS_EmptySet
  <1>11. MutexNum(0, 0, 0, 0, 1) /\ CondNum(0, 0, 0)
    BY DEF MutexNum, CondNum
  <1>12. MutexCounted /\ CondCounted
    <2>1. sem["mutex"].count + 0 = 0 /\ sem["cond"].count + 0 = 0
      BY <1>4, <1>5
    <2> QED BY <1>2, <1>9, <1>10, <1>11, <2>1, CountedAsNumbers
  <1>13. DestroyedLast
    BY <1>4, <1>5 DEF DestroyedLast
  <1> QED BY <1>6, <1>7, <1>8, <1>12, <1>13 DEF UserInv

(* A step of one thread, which is not queued before or after it, and that  *)
(* leaves the queues alone: the part of the invariant that is no counting. *)
MovesAlone(t, l, b) ==
  /\ l \in LockerAt \cup SignallerAt /\ b \in Ben
  /\ uat' = [uat EXCEPT ![t] = l] /\ on' = [on EXCEPT ![t] = b]
  /\ sem' \in [Ben -> [valid : BOOLEAN, count : Nat, queue : Seq(User)]] /\ sem'["cond"].valid
  /\ \A c \in Ben : sem'[c].queue = sem[c].queue
  /\ benCount' \in [Ben -> Int]
  /\ round' \in [Locker -> 0 .. MaxRound] /\ bcast' \in [Signaller -> BOOLEAN] /\ stray' \in BOOLEAN
  /\ uat[t] # "blocked" /\ l # "blocked"
  /\ t \in Locker => l \in LockerAt /\ (b = "cond" => l \in {"in", "semP", "inP", "blocked"})
  /\ t \in Signaller => l \in SignallerAt /\ (l \in {"semV", "inV"} => b = "cond")

LEMMA OneUserMoves ==
  ASSUME UserInv, NEW t \in User, NEW l, NEW b, MovesAlone(t, l, b)
  PROVE  /\ UserTypeOK' /\ UserPlaces' /\ QueuesTrue'
         /\ uat'[t] = l /\ on'[t] = b
         /\ \A u \in User : u # t => uat'[u] = uat[u] /\ on'[u] = on[u]
  <1>1. /\ uat \in [User -> LockerAt \cup SignallerAt] /\ on \in [User -> Ben]
        /\ Locker \subseteq User /\ Signaller \subseteq User
    BY UserFacts
  <1>0. /\ l \in LockerAt \cup SignallerAt /\ b \in Ben
        /\ uat' = [uat EXCEPT ![t] = l] /\ on' = [on EXCEPT ![t] = b]
        /\ uat[t] # "blocked" /\ l # "blocked"
        /\ t \in Locker => l \in LockerAt /\ (b = "cond" => l \in {"in", "semP", "inP", "blocked"})
        /\ t \in Signaller => l \in SignallerAt /\ (l \in {"semV", "inV"} => b = "cond")
    BY DEF MovesAlone
  <1>2. /\ uat' \in [User -> LockerAt \cup SignallerAt] /\ on' \in [User -> Ben]
        /\ uat'[t] = l /\ on'[t] = b
        /\ \A u \in User : u # t => uat'[u] = uat[u] /\ on'[u] = on[u]
    BY <1>0, <1>1
  <1>3. UserTypeOK'
    BY <1>2 DEF UserTypeOK, MovesAlone
  <1>4. UserPlaces'
    <2>1. UserPlaces
      BY DEF UserInv
    <2> QED BY <1>0, <1>1, <1>2, <2>1 DEF UserPlaces
  <1>5. QueuesTrue'
    <2>1. QueuesTrue
      BY DEF UserInv
    <2>2. \A u \in User : \A c \in Ben : (on'[u] = c /\ uat'[u] = "blocked") <=> (on[u] = c /\ uat[u] = "blocked")
      BY <1>0, <1>2
    <2>3. ASSUME NEW c \in Ben
          PROVE  /\ \A u \in User : (on'[u] = c /\ uat'[u] = "blocked")
                                    <=> \E i \in DOMAIN sem'[c].queue : sem'[c].queue[i] = u
                 /\ \A i, j \in DOMAIN sem'[c].queue : sem'[c].queue[i] = sem'[c].queue[j] => i = j
      <3>1. PICK q : q = sem[c].queue
        OBVIOUS
      <3>2. sem'[c].queue = q
        BY <3>1 DEF MovesAlone
      <3>3. /\ \A u \in User : (on[u] = c /\ uat[u] = "blocked") <=> \E i \in DOMAIN q : q[i] = u
            /\ \A i, j \in DOMAIN q : q[i] = q[j] => i = j
        BY <2>1, <3>1 DEF QueuesTrue
      <3> QED BY <2>2, <3>2, <3>3
    <2> QED BY <2>3 DEF QueuesTrue
  <1> QED BY <1>2, <1>3, <1>4, <1>5

(* What the sets do then.                                                  *)
LEMMA OneUserCounts ==
  ASSUME UserInv, NEW t \in User, \A u \in User : u # t => uat'[u] = uat[u] /\ on'[u] = on[u]
  PROVE  /\ Cardinality(Holders) \in Nat
         /\ Cardinality(Holders') = Cardinality(Holders) - One(t \in Holders) + One(t \in Holders')
         /\ \A b \in Ben :
              /\ Cardinality(Waiters(b)) \in Nat /\ Cardinality(Posters(b)) \in Nat /\ Cardinality(Undoers(b)) \in Nat
              /\ Cardinality(Waiters(b)') = Cardinality(Waiters(b)) - One(t \in Waiters(b)) + One(t \in Waiters(b)')
              /\ Cardinality(Posters(b)') = Cardinality(Posters(b)) - One(t \in Posters(b)) + One(t \in Posters(b)')
              /\ Cardinality(Undoers(b)') = Cardinality(Undoers(b)) - One(t \in Undoers(b)) + One(t \in Undoers(b)')
  <1>1. \A u : u # t => (u \in Holders' <=> u \in Holders)
    BY DEF Holders, User
  <1>2. ASSUME NEW b \in Ben, NEW u, u # t
        PROVE  /\ u \in Waiters(b)' <=> u \in Waiters(b)
               /\ u \in Posters(b)' <=> u \in Posters(b)
               /\ u \in Undoers(b)' <=> u \in Undoers(b)
    BY <1>2 DEF Waiters, Posters, Undoers
  <1>3. /\ Cardinality(Holders) \in Nat
        /\ Cardinality(Holders') = Cardinality(Holders) - One(t \in Holders) + One(t \in Holders')
    BY <1>1, UserSetsFinite, OneComesOrGoes
  <1>4. ASSUME NEW b \in Ben
        PROVE  /\ Cardinality(Waiters(b)) \in Nat
               /\ Cardinality(Waiters(b)') = Cardinality(Waiters(b)) - One(t \in Waiters(b)) + One(t \in Waiters(b)')
    <2>1. \A u : u # t => (u \in Waiters(b)' <=> u \in Waiters(b))
      BY <1>2
    <2> QED BY <2>1, UserSetsFinite, OneComesOrGoes
  <1>5. ASSUME NEW b \in Ben
        PROVE  /\ Cardinality(Posters(b)) \in Nat
               /\ Cardinality(Posters(b)') = Cardinality(Posters(b)) - One(t \in Posters(b)) + One(t \in Posters(b)')
    <2>1. \A u : u # t => (u \in Posters(b)' <=> u \in Posters(b))
      BY <1>2
    <2> QED BY <2>1, UserSetsFinite, OneComesOrGoes
  <1>6. ASSUME NEW b \in Ben
        PROVE  /\ Cardinality(Undoers(b)) \in Nat
               /\ Cardinality(Undoers(b)') = Cardinality(Undoers(b)) - One(t \in Undoers(b)) + One(t \in Undoers(b)')
    <2>1. \A u : u # t => (u \in Undoers(b)' <=> u \in Undoers(b))
      BY <1>2
    <2> QED BY <2>1, UserSetsFinite, OneComesOrGoes
  <1> QED BY <1>3, <1>4, <1>5, <1>6

(* What it takes to be in one of the sets.                                 *)
LEMMA Membership ==
  ASSUME NEW t \in User
  PROVE  /\ t \in Holders <=> t \in Locker /\ (uat[t] = "in" \/ on[t] = "cond")
         /\ t \in Holders' <=> t \in Locker /\ (uat'[t] = "in" \/ on'[t] = "cond")
         /\ \A b \in Ben :
              /\ t \in Waiters(b) <=> on[t] = b /\ uat[t] \in {"semP", "inP", "blocked"}
              /\ t \in Waiters(b)' <=> on'[t] = b /\ uat'[t] \in {"semP", "inP", "blocked"}
              /\ t \in Posters(b) <=> on[t] = b /\ uat[t] \in {"semV", "inV"}
              /\ t \in Posters(b)' <=> on'[t] = b /\ uat'[t] \in {"semV", "inV"}
              /\ t \in Undoers(b) <=> on[t] = b /\ uat[t] = "undo"
              /\ t \in Undoers(b)' <=> on'[t] = b /\ uat'[t] = "undo"
         /\ "mutex" \in Ben /\ "cond" \in Ben
  BY DEF Holders, Waiters, Posters, Undoers, Ben

LEMMA MemberCounted ==
  ASSUME NEW S, IsFiniteSet(S), NEW t
  PROVE  One(t \in S) <= Cardinality(S) /\ Cardinality(S) \in Nat
  <1>1. Cardinality(S) \in Nat
    BY FS_CardinalityType
  <1>2. CASE t \in S
    <2>1. Cardinality(S) # 0
      BY <1>2, FS_EmptySet
    <2> QED BY <1>1, <1>2, <2>1 DEF One
  <1>3. CASE t \notin S
    BY <1>1, <1>3 DEF One
  <1> QED BY <1>2, <1>3

(* The numbers before a step of one thread, and after it.                  *)
MutexMoves(t, h, w, p, u, h1, w1, p1, u1) ==
  /\ MutexNum(h, w, sem["mutex"].count + p, u, benCount["mutex"])
  /\ MutexCounted' <=> MutexNum(h1, w1, sem'["mutex"].count + p1, u1, benCount'["mutex"])
  /\ h1 = h - One(t \in Holders) + One(t \in Holders')
  /\ w1 = w - One(t \in Waiters("mutex")) + One(t \in Waiters("mutex")')
  /\ p1 = p - One(t \in Posters("mutex")) + One(t \in Posters("mutex")')
  /\ u1 = u - One(t \in Undoers("mutex")) + One(t \in Undoers("mutex")')
  /\ One(t \in Holders) <= h /\ One(t \in Waiters("mutex")) <= w
  /\ One(t \in Posters("mutex")) <= p /\ One(t \in Undoers("mutex")) <= u
  /\ u = 0 <=> Undoers("mutex") = {}
CondMoves(t, w, p, w1, p1) ==
  /\ CondNum(w, sem["cond"].count + p, benCount["cond"])
  /\ CondCounted' <=> CondNum(w1, sem'["cond"].count + p1, benCount'["cond"])
  /\ w1 = w - One(t \in Waiters("cond")) + One(t \in Waiters("cond")')
  /\ p1 = p - One(t \in Posters("cond")) + One(t \in Posters("cond")')

LEMMA MutexNumbers ==
  ASSUME UserInv, ~stray, NEW t \in User, \A u \in User : u # t => uat'[u] = uat[u] /\ on'[u] = on[u]
  PROVE  \E h, w, p, u, h1, w1, p1, u1 \in Nat : MutexMoves(t, h, w, p, u, h1, w1, p1, u1)
  <1>0. "mutex" \in Ben
    BY DEF Ben
  <1>1. PICK h, w, p, u :
          /\ h = Cardinality(Holders) /\ w = Cardinality(Waiters("mutex"))
          /\ p = Cardinality(Posters("mutex")) /\ u = Cardinality(Undoers("mutex"))
    OBVIOUS
  <1>2. PICK h1, w1, p1, u1 :
          /\ h1 = Cardinality(Holders') /\ w1 = Cardinality(Waiters("mutex")')
          /\ p1 = Cardinality(Posters("mutex")') /\ u1 = Cardinality(Undoers("mutex")')
    OBVIOUS
  <1>3. MutexNum(h, w, sem["mutex"].count + p, u, benCount["mutex"])
    BY <1>1, CountedAsNumbers DEF UserInv
  <1>4. MutexCounted' <=> MutexNum(h1, w1, sem'["mutex"].count + p1, u1, benCount'["mutex"])
    BY <1>2, CountedAsNumbersNext
  <1>5. /\ h1 = h - One(t \in Holders) + One(t \in Holders')
        /\ w1 = w - One(t \in Waiters("mutex")) + One(t \in Waiters("mutex")')
        /\ p1 = p - One(t \in Posters("mutex")) + One(t \in Posters("mutex")')
        /\ u1 = u - One(t \in Undoers("mutex")) + One(t \in Undoers("mutex")')
    BY <1>0, <1>1, <1>2, OneUserCounts
  <1>6. /\ One(t \in Holders) <= h /\ One(t \in Waiters("mutex")) <= w
        /\ One(t \in Posters("mutex")) <= p /\ One(t \in Undoers("mutex")) <= u
        /\ h \in Nat /\ w \in Nat /\ p \in Nat /\ u \in Nat
    BY <1>0, <1>1, UserSetsFinite, MemberCounted
  <1>7. u = 0 <=> Undoers("mutex") = {}
    BY <1>0, <1>1, UserSetsFinite, FS_EmptySet
  <1>8. /\ One(t \in Holders') \in Nat /\ One(t \in Waiters("mutex")') \in Nat
        /\ One(t \in Posters("mutex")') \in Nat /\ One(t \in Undoers("mutex")') \in Nat
        /\ One(t \in Holders) \in Nat /\ One(t \in Waiters("mutex")) \in Nat
        /\ One(t \in Posters("mutex")) \in Nat /\ One(t \in Undoers("mutex")) \in Nat
    BY DEF One
  <1>9. h1 \in Nat /\ w1 \in Nat /\ p1 \in Nat /\ u1 \in Nat
    BY <1>5, <1>6, <1>8
  <1>10. MutexMoves(t, h, w, p, u, h1, w1, p1, u1)
    BY <1>3, <1>4, <1>5, <1>6, <1>7 DEF MutexMoves
  <1> QED BY <1>6, <1>9, <1>10

LEMMA CondNumbers ==
  ASSUME UserInv, ~stray, NEW t \in User, \A u \in User : u # t => uat'[u] = uat[u] /\ on'[u] = on[u]
  PROVE  \E w, p, w1, p1 \in Nat : CondMoves(t, w, p, w1, p1)
  <1>0. "cond" \in Ben
    BY DEF Ben
  <1>1. PICK w, p : w = Cardinality(Waiters("cond")) /\ p = Cardinality(Posters("cond"))
    OBVIOUS
  <1>2. PICK w1, p1 : w1 = Cardinality(Waiters("cond")') /\ p1 = Cardinality(Posters("cond")')
    OBVIOUS
  <1>3. CondNum(w, sem["cond"].count + p, benCount["cond"])
    BY <1>1, CountedAsNumbers DEF UserInv
  <1>4. CondCounted' <=> CondNum(w1, sem'["cond"].count + p1, benCount'["cond"])
    BY <1>2, CountedAsNumbersNext
  <1>5. /\ w1 = w - One(t \in Waiters("cond")) + One(t \in Waiters("cond")')
        /\ p1 = p - One(t \in Posters("cond")) + One(t \in Posters("cond")')
    BY <1>0, <1>1, <1>2, OneUserCounts
  <1>6. /\ One(t \in Waiters("cond")) <= w /\ One(t \in Posters("cond")) <= p
        /\ w \in Nat /\ p \in Nat
    BY <1>0, <1>1, UserSetsFinite, MemberCounted
  <1>7. /\ One(t \in Waiters("cond")') \in Nat /\ One(t \in Posters("cond")') \in Nat
        /\ One(t \in Waiters("cond")) \in Nat /\ One(t \in Posters("cond")) \in Nat
    BY DEF One
  <1>8. w1 \in Nat /\ p1 \in Nat
    BY <1>5, <1>6, <1>7
  <1>9. CondMoves(t, w, p, w1, p1)
    BY <1>3, <1>4, <1>5 DEF CondMoves
  <1> QED BY <1>6, <1>8, <1>9

(* A step that changes nobody's part in the mutex, or in the condition.    *)
LEMMA MutexKept ==
  ASSUME UserInv, ~stray, sem'["mutex"].count = sem["mutex"].count, benCount'["mutex"] = benCount["mutex"],
         \A u \in User : /\ u \in Holders' <=> u \in Holders
                         /\ u \in Waiters("mutex")' <=> u \in Waiters("mutex")
                         /\ u \in Posters("mutex")' <=> u \in Posters("mutex")
                         /\ u \in Undoers("mutex")' <=> u \in Undoers("mutex")
  PROVE  MutexCounted'
  <1>1. /\ Holders \subseteq User /\ Holders' \subseteq User
        /\ Waiters("mutex") \subseteq User /\ Waiters("mutex")' \subseteq User
        /\ Posters("mutex") \subseteq User /\ Posters("mutex")' \subseteq User
        /\ Undoers("mutex") \subseteq User /\ Undoers("mutex")' \subseteq User
    BY DEF Holders, Waiters, Posters, Undoers, User
  <1>2. /\ Holders' = Holders /\ Waiters("mutex")' = Waiters("mutex")
        /\ Posters("mutex")' = Posters("mutex") /\ Undoers("mutex")' = Undoers("mutex")
    BY <1>1
  <1>3. MutexCounted
    BY DEF UserInv
  <1> QED BY <1>2, <1>3, CountedAsNumbers, CountedAsNumbersNext

LEMMA CondKept ==
  ASSUME UserInv, ~stray, sem'["cond"].count = sem["cond"].count, benCount'["cond"] = benCount["cond"],
         \A u \in User : /\ u \in Waiters("cond")' <=> u \in Waiters("cond")
                         /\ u \in Posters("cond")' <=> u \in Posters("cond")
  PROVE  CondCounted'
  <1>1. /\ Waiters("cond") \subseteq User /\ Waiters("cond")' \subseteq User
        /\ Posters("cond") \subseteq User /\ Posters("cond")' \subseteq User
    BY DEF Waiters, Posters
  <1>2. Waiters("cond")' = Waiters("cond") /\ Posters("cond")' = Posters("cond")
    BY <1>1
  <1>3. CondCounted
    BY DEF UserInv
  <1> QED BY <1>2, <1>3, CountedAsNumbers, CountedAsNumbersNext

LEMMA OutOfMutex ==
  ASSUME UserInv, NEW t \in Locker, uat[t] \in {"out", "undo", "semV", "inV"}
  PROVE  on[t] = "mutex"
  <1>1. on[t] = "cond" => uat[t] \in {"in", "semP", "inP", "blocked"}
    <2>1. UserPlaces
      BY DEF UserInv
    <2> QED BY <2>1 DEF UserPlaces
  <1>2. on[t] \in {"mutex", "cond"}
    <2>1. on \in [User -> Ben] /\ Ben = {"mutex", "cond"} /\ Locker \subseteq User
      BY UserFacts
    <2> QED BY <2>1
  <1> QED BY <1>1, <1>2

LEMMA DestroyedStays ==
  ASSUME UserInv, ~stray, sem'["mutex"].valid = sem["mutex"].valid,
         \A u \in Locker : uat[u] = "out" /\ round[u] = MaxRound => uat'[u] = "out" /\ round'[u] = MaxRound
  PROVE  DestroyedLast'
  BY DEF UserInv, DestroyedLast

-----------------------------------------------------------------------------
LEMMA MutexLockStep ==
  ASSUME UserInv, NEW t \in Locker, MutexLock(t) \/ TryLock(t)
  PROVE  UserInv'
  <1>0. /\ benCount \in [Ben -> Int] /\ benCount["mutex"] \in Int /\ benCount["cond"] \in Int
        /\ sem \in [Ben -> [valid : BOOLEAN, count : Nat, queue : Seq(User)]] /\ sem["cond"].valid
        /\ sem["mutex"].count \in Nat
        /\ uat \in [User -> LockerAt \cup SignallerAt] /\ on \in [User -> Ben]
        /\ round \in [Locker -> 0 .. MaxRound] /\ bcast \in [Signaller -> BOOLEAN] /\ stray \in BOOLEAN
        /\ t \in User /\ t \notin Signaller /\ "mutex" \in Ben /\ "cond" \in Ben
    BY UserFacts
  <1>1. PICK n, l : /\ n = benCount["mutex"] /\ l \in {"in", "semP", "undo"} /\ (n >= 1 <=> l = "in")
                    /\ uat' = [uat EXCEPT ![t] = l]
    BY DEF MutexLock, TryLock, BenP, Move
  <1>2. /\ uat[t] = "out" /\ round[t] < MaxRound /\ round' = [round EXCEPT ![t] = @ + 1]
        /\ benCount' = [benCount EXCEPT !["mutex"] = @ - 1]
        /\ on' = [on EXCEPT ![t] = "mutex"] /\ sem' = sem /\ bcast' = bcast /\ stray' = stray
    BY DEF MutexLock, TryLock, BenP, Call
  <1>3. benCount' \in [Ben -> Int] /\ benCount'["mutex"] = n - 1 /\ benCount'["cond"] = benCount["cond"]
    BY <1>0, <1>1, <1>2
  <1>4. round' \in [Locker -> 0 .. MaxRound] /\ \A u \in Locker : u # t => round'[u] = round[u]
    <2>1. round[t] + 1 \in 0 .. MaxRound
      BY <1>0, <1>2, UserAssumption
    <2> QED BY <1>0, <1>2, <2>1
  <1>5. l \in LockerAt \cup SignallerAt /\ l \in LockerAt /\ l # "blocked"
    BY <1>1 DEF LockerAt
  <1>6. /\ UserTypeOK' /\ UserPlaces' /\ QueuesTrue' /\ uat'[t] = l /\ on'[t] = "mutex"
        /\ \A u \in User : u # t => uat'[u] = uat[u] /\ on'[u] = on[u]
    <2>1. /\ sem' \in [Ben -> [valid : BOOLEAN, count : Nat, queue : Seq(User)]] /\ sem'["cond"].valid
          /\ \A c \in Ben : sem'[c].queue = sem[c].queue
          /\ bcast' \in [Signaller -> BOOLEAN] /\ stray' \in BOOLEAN /\ uat[t] # "blocked"
      BY <1>0, <1>2
    <2>2. uat' = [uat EXCEPT ![t] = l] /\ on' = [on EXCEPT ![t] = "mutex"] /\ t \in User /\ "mutex" \in Ben
      BY <1>0, <1>1, <1>2
    <2>9. MovesAlone(t, l, "mutex")
      BY <1>0, <1>3, <1>4, <1>5, <2>1, <2>2 DEF MovesAlone
    <2> QED BY <1>0, <2>9, OneUserMoves
  <1>7. on[t] = "mutex"
    BY <1>0, <1>2, OutOfMutex
  <1>8. ASSUME ~stray PROVE MutexCounted' /\ CondCounted' /\ DestroyedLast'
    <2>1. \A u \in User : /\ u \in Waiters("cond")' <=> u \in Waiters("cond")
                          /\ u \in Posters("cond")' <=> u \in Posters("cond")
      BY <1>6, <1>7 DEF Waiters, Posters
    <2>2. CondCounted'
      BY <1>2, <1>3, <1>8, <2>1, CondKept
    <2>3. DestroyedLast'
      <3>1. round[t] # MaxRound
        BY <1>0, <1>2, UserAssumption
      <3> QED BY <1>0, <1>2, <1>4, <1>6, <1>8, <3>1, DestroyedStays DEF User
    <2>4. /\ t \notin Holders /\ t \notin Waiters("mutex") /\ t \notin Posters("mutex") /\ t \notin Undoers("mutex")
          /\ t \in Holders' <=> l = "in"
          /\ t \in Waiters("mutex")' <=> l = "semP"
          /\ t \in Undoers("mutex")' <=> l = "undo"
          /\ t \notin Posters("mutex")'
      BY <1>0, <1>1, <1>2, <1>6, <1>7, Membership
    <2>5. PICK h, w, p, u, h1, w1, p1, u1 \in Nat : MutexMoves(t, h, w, p, u, h1, w1, p1, u1)
      BY <1>0, <1>6, <1>8, MutexNumbers
    <2>6. PICK c \in Nat : c = sem["mutex"].count /\ sem' = sem
      BY <1>0, <1>2
    <2>7. /\ p1 = p
          /\ \/ n >= 1 /\ h1 = h + 1 /\ w1 = w /\ u1 = u
             \/ ~(n >= 1) /\ h1 = h /\ w1 = w + 1 /\ u1 = u
             \/ ~(n >= 1) /\ h1 = h /\ w1 = w /\ u1 = u + 1
      BY <1>1, <2>4, <2>5 DEF One, MutexMoves
    <2>8. MutexNum(h, w, c + p, u, n)
      BY <1>1, <2>5, <2>6 DEF MutexMoves
    <2>9. MutexNum(h1, w1, c + p1, u1, n - 1)
      BY <1>0, <1>1, <2>7, <2>8 DEF MutexNum
    <2> QED BY <1>3, <2>2, <2>3, <2>5, <2>6, <2>9 DEF MutexMoves
  <1> QED BY <1>2, <1>6, <1>8 DEF UserInv

LEMMA TryUndoStep ==
  ASSUME UserInv, NEW t \in User, TryUndo(t)
  PROVE  UserInv'
  <1>0. /\ benCount \in [Ben -> Int] /\ benCount["mutex"] \in Int /\ benCount["cond"] \in Int
        /\ sem \in [Ben -> [valid : BOOLEAN, count : Nat, queue : Seq(User)]] /\ sem["cond"].valid
        /\ sem["mutex"].count \in Nat
        /\ uat \in [User -> LockerAt \cup SignallerAt] /\ on \in [User -> Ben]
        /\ round \in [Locker -> 0 .. MaxRound] /\ bcast \in [Signaller -> BOOLEAN] /\ stray \in BOOLEAN
        /\ "mutex" \in Ben /\ "cond" \in Ben
    BY UserFacts
  <1>1. PICK n, l : n = benCount["mutex"] /\ l = "out" /\ uat' = [uat EXCEPT ![t] = l]
    BY DEF TryUndo, Move
  <1>2. /\ uat[t] = "undo" /\ benCount' = [benCount EXCEPT !["mutex"] = @ + 1]
        /\ on' = on /\ sem' = sem /\ round' = round /\ bcast' = bcast /\ stray' = stray
    BY DEF TryUndo
  <1>3. t \in Locker /\ t \notin Signaller
    <2>1. UserPlaces
      BY DEF UserInv
    <2>2. t \in Signaller => uat[t] \in SignallerAt
      BY <2>1 DEF UserPlaces
    <2> QED BY <1>2, <2>2 DEF SignallerAt, User
  <1>4. on[t] = "mutex" /\ on' = [on EXCEPT ![t] = "mutex"]
    <2>1. on[t] = "mutex"
      BY <1>2, <1>3, OutOfMutex
    <2> QED BY <1>0, <1>2, <2>1
  <1>5. benCount' \in [Ben -> Int] /\ benCount'["mutex"] = n + 1 /\ benCount'["cond"] = benCount["cond"]
    BY <1>0, <1>1, <1>2
  <1>6. /\ UserTypeOK' /\ UserPlaces' /\ QueuesTrue' /\ uat'[t] = l /\ on'[t] = "mutex"
        /\ \A u \in User : u # t => uat'[u] = uat[u] /\ on'[u] = on[u]
    <2>1. l \in LockerAt \cup SignallerAt /\ l \in LockerAt /\ l # "blocked"
      BY <1>1 DEF LockerAt
    <2>9. MovesAlone(t, l, "mutex")
      BY <1>0, <1>1, <1>2, <1>3, <1>4, <1>5, <2>1 DEF MovesAlone
    <2> QED BY <2>9, OneUserMoves
  <1>8. ASSUME ~stray PROVE MutexCounted' /\ CondCounted' /\ DestroyedLast'
    <2>1. \A u \in User : /\ u \in Waiters("cond")' <=> u \in Waiters("cond")
                          /\ u \in Posters("cond")' <=> u \in Posters("cond")
      BY <1>4, <1>6 DEF Waiters, Posters
    <2>2. CondCounted'
      BY <1>2, <1>5, <1>8, <2>1, CondKept
    <2>3. DestroyedLast'
      BY <1>1, <1>2, <1>6, <1>8, DestroyedStays DEF User
    <2>4. /\ t \notin Holders /\ t \notin Waiters("mutex") /\ t \notin Posters("mutex") /\ t \in Undoers("mutex")
          /\ t \notin Holders' /\ t \notin Waiters("mutex")' /\ t \notin Posters("mutex")' /\ t \notin Undoers("mutex")'
      BY <1>1, <1>2, <1>4, <1>6, Membership
    <2>5. PICK h, w, p, u, h1, w1, p1, u1 \in Nat : MutexMoves(t, h, w, p, u, h1, w1, p1, u1)
      BY <1>6, <1>8, MutexNumbers
    <2>6. PICK c \in Nat : c = sem["mutex"].count /\ sem' = sem
      BY <1>0, <1>2
    <2>7. p1 = p /\ h1 = h /\ w1 = w /\ u1 = u - 1 /\ 1 <= u
      BY <2>4, <2>5 DEF One, MutexMoves
    <2>8. MutexNum(h, w, c + p, u, n)
      BY <1>1, <2>5, <2>6 DEF MutexMoves
    <2>9. MutexNum(h1, w1, c + p1, u1, n + 1)
      BY <1>0, <1>1, <2>7, <2>8 DEF MutexNum
    <2> QED BY <1>5, <2>2, <2>3, <2>5, <2>6, <2>9 DEF MutexMoves
  <1> QED BY <1>2, <1>6, <1>8 DEF UserInv

LEMMA CondWaitStep ==
  ASSUME UserInv, NEW t \in Locker, CondWait(t)
  PROVE  UserInv'
  <1>0. /\ benCount \in [Ben -> Int] /\ benCount["mutex"] \in Int /\ benCount["cond"] \in Int
        /\ sem \in [Ben -> [valid : BOOLEAN, count : Nat, queue : Seq(User)]] /\ sem["cond"].valid
        /\ sem["cond"].count \in Nat
        /\ uat \in [User -> LockerAt \cup SignallerAt] /\ on \in [User -> Ben]
        /\ round \in [Locker -> 0 .. MaxRound] /\ bcast \in [Signaller -> BOOLEAN] /\ stray \in BOOLEAN
        /\ t \in User /\ t \notin Signaller /\ "mutex" \in Ben /\ "cond" \in Ben
    BY UserFacts
  <1>1. PICK n, l : /\ n = benCount["cond"] /\ l \in {"in", "semP"} /\ (n >= 1 <=> l = "in")
                    /\ uat' = [uat EXCEPT ![t] = l]
    BY DEF CondWait, BenP, Move
  <1>2. /\ uat[t] = "in" /\ benCount' = [benCount EXCEPT !["cond"] = @ - 1]
        /\ on' = [on EXCEPT ![t] = "cond"] /\ sem' = sem /\ round' = round /\ bcast' = bcast /\ stray' = stray
    BY DEF CondWait, BenP, Call
  <1>5. benCount' \in [Ben -> Int] /\ benCount'["cond"] = n - 1 /\ benCount'["mutex"] = benCount["mutex"]
    BY <1>0, <1>1, <1>2
  <1>6. /\ UserTypeOK' /\ UserPlaces' /\ QueuesTrue' /\ uat'[t] = l /\ on'[t] = "cond"
        /\ \A u \in User : u # t => uat'[u] = uat[u] /\ on'[u] = on[u]
    <2>1. l \in LockerAt \cup SignallerAt /\ l \in LockerAt /\ l # "blocked" /\ l \in {"in", "semP", "inP", "blocked"}
      BY <1>1 DEF LockerAt
    <2>9. MovesAlone(t, l, "cond")
      BY <1>0, <1>1, <1>2, <1>5, <2>1 DEF MovesAlone
    <2> QED BY <1>0, <2>9, OneUserMoves
  <1>8. ASSUME ~stray PROVE MutexCounted' /\ CondCounted' /\ DestroyedLast'
    <2>1. \A u \in User : /\ u \in Holders' <=> u \in Holders
                          /\ u \in Waiters("mutex")' <=> u \in Waiters("mutex")
                          /\ u \in Posters("mutex")' <=> u \in Posters("mutex")
                          /\ u \in Undoers("mutex")' <=> u \in Undoers("mutex")
      BY <1>2, <1>6 DEF Holders, Waiters, Posters, Undoers
    <2>2. MutexCounted'
      BY <1>2, <1>5, <1>8, <2>1, MutexKept
    <2>3. DestroyedLast'
      BY <1>1, <1>2, <1>6, <1>8, DestroyedStays DEF User
    <2>4. /\ t \notin Waiters("cond") /\ t \notin Posters("cond")
          /\ t \in Waiters("cond")' <=> l = "semP"
          /\ t \notin Posters("cond")'
      BY <1>0, <1>1, <1>2, <1>6, Membership
    <2>5. PICK w, p, w1, p1 \in Nat : CondMoves(t, w, p, w1, p1)
      BY <1>0, <1>6, <1>8, CondNumbers
    <2>6. PICK c \in Nat : c = sem["cond"].count /\ sem' = sem
      BY <1>0, <1>2
    <2>7. p1 = p /\ w1 = IF n >= 1 THEN w ELSE w + 1
      BY <1>1, <2>4, <2>5 DEF One, CondMoves
    <2>8. CondNum(w, c + p, n)
      BY <1>1, <2>5, <2>6 DEF CondMoves
    <2>9. CondNum(w1, c + p1, n - 1)
      BY <1>0, <1>1, <2>7, <2>8 DEF CondNum
    <2> QED BY <1>5, <2>2, <2>3, <2>5, <2>6, <2>9 DEF CondMoves
  <1> QED BY <1>2, <1>6, <1>8 DEF UserInv

LEMMA MutexUnlockStep ==
  ASSUME UserInv, NEW t \in Locker, MutexUnlock(t)
  PROVE  UserInv'
  <1>0. /\ benCount \in [Ben -> Int] /\ benCount["mutex"] \in Int /\ benCount["cond"] \in Int
        /\ sem \in [Ben -> [valid : BOOLEAN, count : Nat, queue : Seq(User)]] /\ sem["cond"].valid
        /\ sem["mutex"].count \in Nat
        /\ uat \in [User -> LockerAt \cup SignallerAt] /\ on \in [User -> Ben]
        /\ round \in [Locker -> 0 .. MaxRound] /\ bcast \in [Signaller -> BOOLEAN] /\ stray \in BOOLEAN
        /\ t \in User /\ t \notin Signaller /\ "mutex" \in Ben /\ "cond" \in Ben
    BY UserFacts
  <1>1. PICK n, l : /\ n = benCount["mutex"] /\ l \in {"out", "semV"} /\ (n + 1 >= 1 <=> l = "out")
                    /\ uat' = [uat EXCEPT ![t] = l]
    BY DEF MutexUnlock, BenV, Move, NoPost
  <1>2. /\ uat[t] = "in" /\ benCount' = [benCount EXCEPT !["mutex"] = @ + 1]
        /\ on' = [on EXCEPT ![t] = "mutex"] /\ sem' = sem /\ round' = round /\ bcast' = bcast
        /\ stray' \in BOOLEAN
        /\ ~stray' => ~stray /\ \A u \in User : uat[u] # "undo"
    BY <1>0 DEF MutexUnlock, BenV, Call
  <1>5. benCount' \in [Ben -> Int] /\ benCount'["mutex"] = n + 1 /\ benCount'["cond"] = benCount["cond"]
    BY <1>0, <1>1, <1>2
  <1>6. /\ UserTypeOK' /\ UserPlaces' /\ QueuesTrue' /\ uat'[t] = l /\ on'[t] = "mutex"
        /\ \A u \in User : u # t => uat'[u] = uat[u] /\ on'[u] = on[u]
    <2>1. l \in LockerAt \cup SignallerAt /\ l \in LockerAt /\ l # "blocked"
      BY <1>1 DEF LockerAt
    <2>9. MovesAlone(t, l, "mutex")
      BY <1>0, <1>1, <1>2, <1>5, <2>1 DEF MovesAlone
    <2> QED BY <1>0, <2>9, OneUserMoves
  <1>8. ASSUME ~stray' PROVE MutexCounted' /\ CondCounted' /\ DestroyedLast'
    <2>0. ~stray /\ Undoers("mutex") = {}
      BY <1>2, <1>8 DEF Undoers
    <2>1. \A u \in User : /\ u \in Waiters("cond")' <=> u \in Waiters("cond")
                          /\ u \in Posters("cond")' <=> u \in Posters("cond")
      BY <1>2, <1>6 DEF Waiters, Posters
    <2>2. CondCounted'
      BY <1>2, <1>5, <2>0, <2>1, CondKept
    <2>3. DestroyedLast'
      BY <1>1, <1>2, <1>6, <2>0, DestroyedStays DEF User
    <2>4. /\ t \in Holders /\ t \notin Waiters("mutex") /\ t \notin Posters("mutex") /\ t \notin Undoers("mutex")
          /\ t \notin Holders' /\ t \notin Waiters("mutex")' /\ t \notin Undoers("mutex")'
          /\ t \in Posters("mutex")' <=> l = "semV"
      BY <1>0, <1>1, <1>2, <1>6, Membership
    <2>5. PICK h, w, p, u, h1, w1, p1, u1 \in Nat : MutexMoves(t, h, w, p, u, h1, w1, p1, u1)
      BY <1>0, <1>6, <2>0, MutexNumbers
    <2>6. PICK c \in Nat : c = sem["mutex"].count /\ sem' = sem
      BY <1>0, <1>2
    <2>7. h1 = h - 1 /\ w1 = w /\ u1 = u /\ u = 0 /\ (p1 = IF n + 1 >= 1 THEN p ELSE p + 1)
      BY <1>1, <2>0, <2>4, <2>5 DEF One, MutexMoves
    <2>8. MutexNum(h, w, c + p, u, n)
      BY <1>1, <2>5, <2>6 DEF MutexMoves
    <2>9. MutexNum(h1, w1, c + p1, u1, n + 1)
      BY <1>0, <1>1, <2>7, <2>8 DEF MutexNum
    <2> QED BY <1>5, <2>2, <2>3, <2>5, <2>6, <2>9 DEF MutexMoves
  <1> QED BY <1>6, <1>8 DEF UserInv

(* A signaller in the condition's V, or a thread in a system call: nothing *)
(* is in the mutex, or its part in both does not change.                   *)
LEMMA SignalStep ==
  ASSUME UserInv, NEW t \in Signaller, NEW all \in BOOLEAN, Signal(t, all)
  PROVE  UserInv'
  <1>0. /\ benCount \in [Ben -> Int]
        /\ sem \in [Ben -> [valid : BOOLEAN, count : Nat, queue : Seq(User)]] /\ sem["cond"].valid
        /\ uat \in [User -> LockerAt \cup SignallerAt] /\ on \in [User -> Ben]
        /\ round \in [Locker -> 0 .. MaxRound] /\ bcast \in [Signaller -> BOOLEAN] /\ stray \in BOOLEAN
        /\ t \in User /\ t \notin Locker /\ "mutex" \in Ben /\ "cond" \in Ben
    BY UserFacts
  <1>1. PICK l, b : l = "test" /\ b = on[t] /\ b \in Ben /\ uat' = [uat EXCEPT ![t] = l]
    BY <1>0 DEF Signal, Move
  <1>2. /\ uat[t] = "out" /\ bcast' \in [Signaller -> BOOLEAN] /\ on' = [on EXCEPT ![t] = b]
        /\ benCount' = benCount /\ sem' = sem /\ round' = round /\ stray' = stray
    BY <1>0, <1>1 DEF Signal
  <1>6. /\ UserTypeOK' /\ UserPlaces' /\ QueuesTrue' /\ uat'[t] = l /\ on'[t] = b
        /\ \A u \in User : u # t => uat'[u] = uat[u] /\ on'[u] = on[u]
    <2>1. l \in LockerAt \cup SignallerAt /\ l \in SignallerAt /\ l # "blocked" /\ l \notin {"semV", "inV"}
      BY <1>1 DEF SignallerAt
    <2>9. MovesAlone(t, l, b)
      BY <1>0, <1>1, <1>2, <2>1 DEF MovesAlone
    <2> QED BY <1>0, <2>9, OneUserMoves
  <1>8. ASSUME ~stray PROVE MutexCounted' /\ CondCounted' /\ DestroyedLast'
    <2>1. \A u \in User : \A c \in Ben :
             /\ u \in Holders' <=> u \in Holders
             /\ u \in Waiters(c)' <=> u \in Waiters(c)
             /\ u \in Posters(c)' <=> u \in Posters(c)
             /\ u \in Undoers(c)' <=> u \in Undoers(c)
      BY <1>0, <1>1, <1>2, <1>6 DEF Holders, Waiters, Posters, Undoers
    <2>2. MutexCounted'
      BY <1>0, <1>2, <1>8, <2>1, MutexKept
    <2>3. CondCounted'
      BY <1>0, <1>2, <1>8, <2>1, CondKept
    <2>4. DestroyedLast'
      BY <1>0, <1>2, <1>6, <1>8, DestroyedStays DEF User
    <2> QED BY <2>2, <2>3, <2>4
  <1> QED BY <1>2, <1>6, <1>8 DEF UserInv

(* Who may be in a step of the condition's signal.                         *)
LEMMA OnlySignallers ==
  ASSUME UserInv, NEW t \in User, uat[t] \in {"test", "sig"}
  PROVE  t \in Signaller /\ t \notin Locker
  <1>1. UserPlaces
    BY DEF UserInv
  <1>2. t \in Locker => uat[t] \in LockerAt
    BY <1>1 DEF UserPlaces
  <1> QED BY <1>2 DEF LockerAt, User

LEMMA SignalTestStep ==
  ASSUME UserInv, NEW t \in User, SignalTest(t)
  PROVE  UserInv'
  <1>0. /\ benCount \in [Ben -> Int]
        /\ sem \in [Ben -> [valid : BOOLEAN, count : Nat, queue : Seq(User)]] /\ sem["cond"].valid
        /\ uat \in [User -> LockerAt \cup SignallerAt] /\ on \in [User -> Ben]
        /\ round \in [Locker -> 0 .. MaxRound] /\ bcast \in [Signaller -> BOOLEAN] /\ stray \in BOOLEAN
        /\ "mutex" \in Ben /\ "cond" \in Ben /\ Locker \subseteq User
    BY UserFacts
  <1>1. PICK l, b : l \in {"sig", "out"} /\ b = on[t] /\ b \in Ben /\ uat' = [uat EXCEPT ![t] = l]
    BY <1>0 DEF SignalTest, Move
  <1>2. /\ uat[t] = "test" /\ bcast' = bcast /\ on' = [on EXCEPT ![t] = b]
        /\ benCount' = benCount /\ sem' = sem /\ round' = round /\ stray' = stray
    BY <1>0, <1>1 DEF SignalTest
  <1>3. t \in Signaller /\ t \notin Locker
    BY <1>2, OnlySignallers
  <1>6. /\ UserTypeOK' /\ UserPlaces' /\ QueuesTrue' /\ uat'[t] = l /\ on'[t] = b
        /\ \A u \in User : u # t => uat'[u] = uat[u] /\ on'[u] = on[u]
    <2>1. l \in LockerAt \cup SignallerAt /\ l \in SignallerAt /\ l # "blocked" /\ l \notin {"semV", "inV"}
      BY <1>1 DEF SignallerAt
    <2>9. MovesAlone(t, l, b)
      BY <1>0, <1>1, <1>2, <1>3, <2>1 DEF MovesAlone
    <2> QED BY <2>9, OneUserMoves
  <1>8. ASSUME ~stray PROVE MutexCounted' /\ CondCounted' /\ DestroyedLast'
    <2>1. \A u \in User : \A c \in Ben :
             /\ u \in Holders' <=> u \in Holders
             /\ u \in Waiters(c)' <=> u \in Waiters(c)
             /\ u \in Posters(c)' <=> u \in Posters(c)
             /\ u \in Undoers(c)' <=> u \in Undoers(c)
      BY <1>1, <1>2, <1>3, <1>6 DEF Holders, Waiters, Posters, Undoers
    <2>2. MutexCounted'
      BY <1>0, <1>2, <1>8, <2>1, MutexKept
    <2>3. CondCounted'
      BY <1>0, <1>2, <1>8, <2>1, CondKept
    <2>4. DestroyedLast'
      BY <1>0, <1>2, <1>3, <1>6, <1>8, DestroyedStays
    <2> QED BY <2>2, <2>3, <2>4
  <1> QED BY <1>2, <1>6, <1>8 DEF UserInv

LEMMA SignalVStep ==
  ASSUME UserInv, NEW t \in User, SignalV(t)
  PROVE  UserInv'
  <1>0. /\ benCount \in [Ben -> Int] /\ benCount["cond"] \in Int
        /\ sem \in [Ben -> [valid : BOOLEAN, count : Nat, queue : Seq(User)]] /\ sem["cond"].valid
        /\ sem["cond"].count \in Nat
        /\ uat \in [User -> LockerAt \cup SignallerAt] /\ on \in [User -> Ben]
        /\ round \in [Locker -> 0 .. MaxRound] /\ bcast \in [Signaller -> BOOLEAN] /\ stray \in BOOLEAN
        /\ "mutex" \in Ben /\ "cond" \in Ben /\ Locker \subseteq User
    BY UserFacts
  <1>1. PICK n, l : /\ n = benCount["cond"] /\ l \in {"test", "out", "semV"} /\ (n + 1 >= 1 <=> l # "semV")
                    /\ uat' = [uat EXCEPT ![t] = l]
    <2>1. PICK k : k = IF bcast[t] THEN "test" ELSE "out"
      OBVIOUS
    <2>2. k \in {"test", "out"}
      BY <2>1
    <2>3. uat' = [uat EXCEPT ![t] = IF benCount["cond"] + 1 >= 1 THEN k ELSE "semV"]
      BY <2>1 DEF SignalV, BenV, Move, NoPost
    <2> QED BY <2>2, <2>3
  <1>2. /\ uat[t] = "sig" /\ bcast' = bcast /\ on' = [on EXCEPT ![t] = "cond"]
        /\ benCount' = [benCount EXCEPT !["cond"] = @ + 1] /\ sem' = sem /\ round' = round /\ stray' = stray
    BY <1>0 DEF SignalV, BenV, Call
  <1>3. t \in Signaller /\ t \notin Locker
    BY <1>2, OnlySignallers
  <1>5. benCount' \in [Ben -> Int] /\ benCount'["cond"] = n + 1 /\ benCount'["mutex"] = benCount["mutex"]
    BY <1>0, <1>1, <1>2
  <1>6. /\ UserTypeOK' /\ UserPlaces' /\ QueuesTrue' /\ uat'[t] = l /\ on'[t] = "cond"
        /\ \A u \in User : u # t => uat'[u] = uat[u] /\ on'[u] = on[u]
    <2>1. l \in LockerAt \cup SignallerAt /\ l \in SignallerAt /\ l # "blocked"
      BY <1>1 DEF SignallerAt
    <2>9. MovesAlone(t, l, "cond")
      BY <1>0, <1>1, <1>2, <1>3, <1>5, <2>1 DEF MovesAlone
    <2> QED BY <2>9, OneUserMoves
  <1>8. ASSUME ~stray PROVE MutexCounted' /\ CondCounted' /\ DestroyedLast'
    <2>1. \A u \in User :
             /\ u \in Holders' <=> u \in Holders
             /\ u \in Waiters("mutex")' <=> u \in Waiters("mutex")
             /\ u \in Posters("mutex")' <=> u \in Posters("mutex")
             /\ u \in Undoers("mutex")' <=> u \in Undoers("mutex")
      BY <1>1, <1>2, <1>3, <1>6 DEF Holders, Waiters, Posters, Undoers
    <2>2. MutexCounted'
      BY <1>2, <1>5, <1>8, <2>1, MutexKept
    <2>3. DestroyedLast'
      BY <1>0, <1>2, <1>3, <1>6, <1>8, DestroyedStays
    <2>4. /\ t \notin Waiters("cond") /\ t \notin Posters("cond")
          /\ t \notin Waiters("cond")'
          /\ t \in Posters("cond")' <=> l = "semV"
      BY <1>0, <1>1, <1>2, <1>6, Membership
    <2>5. PICK w, p, w1, p1 \in Nat : CondMoves(t, w, p, w1, p1)
      BY <1>0, <1>6, <1>8, CondNumbers
    <2>6. PICK c \in Nat : c = sem["cond"].count /\ sem' = sem
      BY <1>0, <1>2
    <2>7. w1 = w /\ p1 = IF n + 1 >= 1 THEN p ELSE p + 1
      BY <1>1, <2>4, <2>5 DEF One, CondMoves
    <2>8. CondNum(w, c + p, n)
      BY <1>1, <2>5, <2>6 DEF CondMoves
    <2>9. CondNum(w1, c + p1, n + 1)
      BY <1>0, <1>1, <2>7, <2>8 DEF CondNum
    <2> QED BY <1>5, <2>2, <2>3, <2>5, <2>6, <2>9 DEF CondMoves
  <1> QED BY <1>2, <1>6, <1>8 DEF UserInv

-----------------------------------------------------------------------------
(* Who is in a system call: a locker for either semaphore, or a signaller  *)
(* that posts the condition's; a locker posts only the mutex's.            *)
LEMMA Callers ==
  ASSUME UserInv, NEW t \in User
  PROVE  /\ uat[t] \in {"semP", "inP", "blocked"} => t \in Locker /\ t \notin Signaller
         /\ uat[t] \in {"semV", "inV"} /\ t \in Locker => on[t] = "mutex"
         /\ uat[t] \in {"semV", "inV"} /\ t \notin Locker => t \in Signaller /\ on[t] = "cond"
         /\ on[t] \in Ben /\ (on[t] = "mutex" \/ on[t] = "cond")
         /\ t \in Locker => t \notin Signaller
  <1>1. UserPlaces
    BY DEF UserInv
  <1>2. /\ t \in Signaller => uat[t] \in SignallerAt
        /\ t \in Signaller /\ uat[t] \in {"semV", "inV"} => on[t] = "cond"
    BY <1>1 DEF UserPlaces
  <1>3. on \in [User -> Ben] /\ Ben = {"mutex", "cond"} /\ (t \in Locker => t \notin Signaller)
    BY UserFacts
  <1>4. uat[t] \in {"semV", "inV"} /\ t \in Locker => on[t] = "mutex"
    BY OutOfMutex
  <1>5. t \in Locker \/ t \in Signaller
    BY DEF User
  <1> QED BY <1>2, <1>3, <1>4, <1>5 DEF SignallerAt

(* A mutex that has been destroyed has no callers left.                    *)
LEMMA CalledAlive ==
  ASSUME UserInv, ~stray, NEW t \in User, uat[t] \in {"semP", "inP", "blocked", "semV", "inV"}
  PROVE  sem[on[t]].valid
  <1>1. on[t] = "cond" => sem[on[t]].valid
    BY UserFacts
  <1>2. CASE on[t] = "mutex"
    <2>1. t \in Locker
      BY <1>2, Callers
    <2>2. DestroyedLast
      BY DEF UserInv
    <2> QED BY <1>2, <2>1, <2>2 DEF DestroyedLast
  <1> QED BY <1>1, <1>2, Callers

LEMMA SemEnterStep ==
  ASSUME UserInv, NEW t \in User, SemEnter(t)
  PROVE  UserInv'
  <1>0. /\ benCount \in [Ben -> Int]
        /\ sem \in [Ben -> [valid : BOOLEAN, count : Nat, queue : Seq(User)]] /\ sem["cond"].valid
        /\ uat \in [User -> LockerAt \cup SignallerAt] /\ on \in [User -> Ben]
        /\ round \in [Locker -> 0 .. MaxRound] /\ bcast \in [Signaller -> BOOLEAN] /\ stray \in BOOLEAN
        /\ "mutex" \in Ben /\ "cond" \in Ben /\ Locker \subseteq User
    BY UserFacts
  <1>1. PICK b : b = on[t] /\ b \in Ben /\ on' = [on EXCEPT ![t] = b]
    BY <1>0 DEF SemEnter
  <1>2. /\ uat[t] \in {"semP", "semV"} /\ bcast' = bcast
        /\ benCount' = benCount /\ sem' = sem /\ round' = round /\ stray' = stray
    BY DEF SemEnter
  <1>3. CASE sem[b].valid
    <2>1. PICK l : l = (IF uat[t] = "semP" THEN "inP" ELSE "inV") /\ uat' = [uat EXCEPT ![t] = l]
      BY <1>1, <1>3 DEF SemEnter, Move
    <2>2. /\ l \in LockerAt \cup SignallerAt /\ l # "blocked" /\ l \in {"inP", "inV"}
          /\ t \in Locker => l \in LockerAt /\ (b = "cond" => l = "inP")
          /\ t \in Signaller => l \in SignallerAt /\ b = "cond"
      BY <1>1, <1>2, <2>1, Callers DEF LockerAt, SignallerAt
    <2>3. /\ UserTypeOK' /\ UserPlaces' /\ QueuesTrue' /\ uat'[t] = l /\ on'[t] = b
          /\ \A u \in User : u # t => uat'[u] = uat[u] /\ on'[u] = on[u]
      <3>1. /\ sem' \in [Ben -> [valid : BOOLEAN, count : Nat, queue : Seq(User)]] /\ sem'["cond"].valid
            /\ \A c \in Ben : sem'[c].queue = sem[c].queue
            /\ benCount' \in [Ben -> Int] /\ round' \in [Locker -> 0 .. MaxRound]
            /\ bcast' \in [Signaller -> BOOLEAN] /\ stray' \in BOOLEAN /\ uat[t] # "blocked"
        BY <1>0, <1>2
      <3>2. uat' = [uat EXCEPT ![t] = l] /\ on' = [on EXCEPT ![t] = b] /\ b \in Ben
        BY <1>1, <2>1
      <3>3. /\ l \in LockerAt \cup SignallerAt /\ l # "blocked"
            /\ t \in Locker => l \in LockerAt /\ (b = "cond" => l \in {"in", "semP", "inP", "blocked"})
            /\ t \in Signaller => l \in SignallerAt /\ (l \in {"semV", "inV"} => b = "cond")
        BY <2>2
      <3>9. MovesAlone(t, l, b)
        BY <3>1, <3>2, <3>3 DEF MovesAlone
      <3> QED BY <3>9, OneUserMoves
    <2>4. ASSUME ~stray PROVE MutexCounted' /\ CondCounted' /\ DestroyedLast'
      <3>1. \A u \in User : \A c \in Ben :
               /\ u \in Holders' <=> u \in Holders
               /\ u \in Waiters(c)' <=> u \in Waiters(c)
               /\ u \in Posters(c)' <=> u \in Posters(c)
               /\ u \in Undoers(c)' <=> u \in Undoers(c)
        BY <1>1, <1>2, <2>1, <2>3 DEF Holders, Waiters, Posters, Undoers
      <3>2. MutexCounted'
        BY <1>0, <1>2, <2>4, <3>1, MutexKept
      <3>3. CondCounted'
        BY <1>0, <1>2, <2>4, <3>1, CondKept
      <3>4. DestroyedLast'
        BY <1>0, <1>2, <2>3, <2>4, DestroyedStays
      <3> QED BY <3>2, <3>3, <3>4
    <2> QED BY <1>2, <2>3, <2>4 DEF UserInv
  <1>4. CASE ~sem[b].valid
    <2>1. stray'
      BY <1>0, <1>1, <1>2, <1>4, CalledAlive
    <2>2. PICK l : l = Back(t) /\ uat' = [uat EXCEPT ![t] = l]
      BY <1>1, <1>4 DEF SemEnter, Move
    <2>3. /\ l \in {"out", "in", "test"}
          /\ t \in Locker => l \in {"out", "in"} /\ (b = "cond" => l = "in")
          /\ t \notin Locker => l \in {"out", "test"}
      BY <1>1, <2>2 DEF Back
    <2>4. /\ l \in LockerAt \cup SignallerAt /\ l # "blocked" /\ l \notin {"semV", "inV"}
          /\ t \in Locker => l \in LockerAt /\ (b = "cond" => l = "in")
          /\ t \in Signaller => l \in SignallerAt
      BY <2>3, Callers DEF LockerAt, SignallerAt
    <2>5. UserTypeOK' /\ UserPlaces' /\ QueuesTrue'
      <3>9. MovesAlone(t, l, b)
        BY <1>0, <1>1, <1>2, <2>2, <2>4 DEF MovesAlone
      <3> QED BY <3>9, OneUserMoves
    <2> QED BY <2>1, <2>5 DEF UserInv
  <1> QED BY <1>3, <1>4

(* Semaphore::P with a token left.                                         *)
LEMMA SemTakeStep ==
  ASSUME UserInv, NEW t \in User, SemP(t), sem[on[t]].count >= 1
  PROVE  UserInv'
  <1>0. /\ benCount \in [Ben -> Int] /\ benCount["mutex"] \in Int /\ benCount["cond"] \in Int
        /\ sem \in [Ben -> [valid : BOOLEAN, count : Nat, queue : Seq(User)]] /\ sem["cond"].valid
        /\ uat \in [User -> LockerAt \cup SignallerAt] /\ on \in [User -> Ben]
        /\ round \in [Locker -> 0 .. MaxRound] /\ bcast \in [Signaller -> BOOLEAN] /\ stray \in BOOLEAN
        /\ "mutex" \in Ben /\ "cond" \in Ben /\ Locker \subseteq User
    BY UserFacts
  <1>1. PICK b : b = on[t] /\ b \in Ben /\ (b = "mutex" \/ b = "cond")
    BY Callers
  <1>2. /\ uat[t] = "inP" /\ bcast' = bcast /\ on' = [on EXCEPT ![t] = b]
        /\ benCount' = benCount /\ round' = round /\ stray' = stray
    BY <1>0, <1>1 DEF SemP
  <1>3. t \in Locker /\ t \notin Signaller
    BY <1>2, Callers
  <1>4. PICK s, k, r : s = sem[b] /\ k = s.count - 1 /\ r = [s EXCEPT !.count = k] /\ sem' = [sem EXCEPT ![b] = r]
    <2>1. sem' = [sem EXCEPT ![b].count = @ - 1]
      BY <1>1 DEF SemP
    <2> QED BY <1>0, <1>1, <2>1
  <1>5. s.count \in Nat /\ k \in Nat /\ k = s.count - 1
    BY <1>0, <1>1, <1>4
  <1>6. /\ sem' \in [Ben -> [valid : BOOLEAN, count : Nat, queue : Seq(User)]]
        /\ sem'[b].count = k
        /\ \A c \in Ben : c # b => sem'[c] = sem[c]
        /\ \A c \in Ben : sem'[c].valid = sem[c].valid /\ sem'[c].queue = sem[c].queue
    <2>1. r \in [valid : BOOLEAN, count : Nat, queue : Seq(User)] /\ r.count = k /\ r.queue = s.queue /\ r.valid = s.valid
      BY <1>0, <1>1, <1>4, <1>5
    <2> QED BY <1>0, <1>1, <1>4, <2>1
  <1>7. PICK l : l = "in" /\ uat' = [uat EXCEPT ![t] = l]
    <2>1. Back(t) = "in"
      BY <1>2, <1>3 DEF Back
    <2> QED BY <2>1 DEF SemP, Move
  <1>8. /\ UserTypeOK' /\ UserPlaces' /\ QueuesTrue' /\ uat'[t] = l /\ on'[t] = b
        /\ \A u \in User : u # t => uat'[u] = uat[u] /\ on'[u] = on[u]
    <2>1. l \in LockerAt \cup SignallerAt /\ l # "blocked" /\ l \in LockerAt /\ l \in {"in", "semP", "inP", "blocked"}
      BY <1>7 DEF LockerAt
    <2>9. MovesAlone(t, l, b)
      BY <1>0, <1>1, <1>2, <1>3, <1>6, <1>7, <2>1 DEF MovesAlone
    <2> QED BY <2>9, OneUserMoves
  <1>9. ASSUME ~stray PROVE MutexCounted' /\ CondCounted' /\ DestroyedLast'
    <2>1. DestroyedLast'
      BY <1>0, <1>2, <1>6, <1>8, <1>9, DestroyedStays
    <2>2. CASE b = "mutex"
      <3>1. \A u \in User : /\ u \in Waiters("cond")' <=> u \in Waiters("cond")
                            /\ u \in Posters("cond")' <=> u \in Posters("cond")
        BY <1>1, <1>8, <2>2 DEF Waiters, Posters
      <3>2. CondCounted'
        BY <1>0, <1>2, <1>6, <1>9, <2>2, <3>1, CondKept
      <3>3. /\ t \notin Holders /\ t \in Waiters("mutex") /\ t \notin Posters("mutex") /\ t \notin Undoers("mutex")
            /\ t \in Holders' /\ t \notin Waiters("mutex")' /\ t \notin Posters("mutex")' /\ t \notin Undoers("mutex")'
        <4>1. uat[t] = "inP" /\ on[t] = "mutex" /\ uat'[t] = "in" /\ on'[t] = "mutex"
          BY <1>1, <1>2, <1>7, <1>8, <2>2
        <4> QED BY <1>3, <4>1, Membership
      <3>4. PICK h, w, p, u, h1, w1, p1, u1 \in Nat : MutexMoves(t, h, w, p, u, h1, w1, p1, u1)
        BY <1>8, <1>9, MutexNumbers
      <3>5. PICK c, n : c = s.count /\ c = sem["mutex"].count /\ k = c - 1 /\ c \in Nat
                        /\ n = benCount["mutex"] /\ n \in Int
        BY <1>0, <1>4, <1>5, <2>2
      <3>6. h1 = h + 1 /\ w1 = w - 1 /\ p1 = p /\ u1 = u
        BY <3>3, <3>4 DEF One, MutexMoves
      <3>7. MutexNum(h, w, c + p, u, n)
        BY <3>4, <3>5 DEF MutexMoves
      <3>8. MutexNum(h1, w1, k + p1, u1, n)
        BY <1>5, <3>5, <3>6, <3>7 DEF MutexNum
      <3> QED BY <1>2, <1>6, <2>1, <2>2, <3>2, <3>4, <3>5, <3>8 DEF MutexMoves
    <2>3. CASE b = "cond"
      <3>1. \A u \in User : /\ u \in Holders' <=> u \in Holders
                            /\ u \in Waiters("mutex")' <=> u \in Waiters("mutex")
                            /\ u \in Posters("mutex")' <=> u \in Posters("mutex")
                            /\ u \in Undoers("mutex")' <=> u \in Undoers("mutex")
        BY <1>1, <1>2, <1>7, <1>8, <2>3 DEF Holders, Waiters, Posters, Undoers
      <3>2. MutexCounted'
        BY <1>0, <1>2, <1>6, <1>9, <2>3, <3>1, MutexKept
      <3>3. t \in Waiters("cond") /\ t \notin Posters("cond") /\ t \notin Waiters("cond")' /\ t \notin Posters("cond")'
        <4>1. uat[t] \in {"semP", "inP", "blocked"} /\ uat[t] \notin {"semV", "inV"} /\ on[t] = "cond"
          BY <1>1, <1>2, <2>3
        <4>2. uat'[t] \notin {"semP", "inP", "blocked"} /\ uat'[t] \notin {"semV", "inV"}
          BY <1>7, <1>8
        <4> QED BY <4>1, <4>2, Membership
      <3>4. PICK w, p, w1, p1 \in Nat : CondMoves(t, w, p, w1, p1)
        BY <1>8, <1>9, CondNumbers
      <3>5. PICK c, n : c = s.count /\ c = sem["cond"].count /\ k = c - 1 /\ c \in Nat
                        /\ n = benCount["cond"] /\ n \in Int
        BY <1>0, <1>4, <1>5, <2>3
      <3>6. w1 = w - 1 /\ p1 = p
        BY <3>3, <3>4 DEF One, CondMoves
      <3>7. CondNum(w, c + p, n)
        BY <3>4, <3>5 DEF CondMoves
      <3>8. CondNum(w1, k + p1, n)
        BY <1>5, <3>5, <3>6, <3>7 DEF CondNum
      <3> QED BY <1>2, <1>6, <2>1, <2>3, <3>2, <3>4, <3>5, <3>8 DEF CondMoves
    <2> QED BY <1>1, <2>2, <2>3
  <1> QED BY <1>2, <1>8, <1>9 DEF UserInv

(* Semaphore::P without one.                                               *)
LEMMA SemBlockStep ==
  ASSUME UserInv, NEW t \in User, SemP(t), ~(sem[on[t]].count >= 1)
  PROVE  UserInv'
  <1>0. /\ benCount \in [Ben -> Int]
        /\ sem \in [Ben -> [valid : BOOLEAN, count : Nat, queue : Seq(User)]] /\ sem["cond"].valid
        /\ uat \in [User -> LockerAt \cup SignallerAt] /\ on \in [User -> Ben]
        /\ round \in [Locker -> 0 .. MaxRound] /\ bcast \in [Signaller -> BOOLEAN] /\ stray \in BOOLEAN
        /\ "mutex" \in Ben /\ "cond" \in Ben /\ Locker \subseteq User
    BY UserFacts
  <1>1. PICK b : b = on[t] /\ b \in Ben /\ (b = "mutex" \/ b = "cond")
    BY Callers
  <1>2. /\ uat[t] = "inP" /\ bcast' = bcast /\ on' = on /\ uat' = [uat EXCEPT ![t] = "blocked"]
        /\ benCount' = benCount /\ round' = round /\ stray' = stray
    BY <1>0, <1>1 DEF SemP, Move
  <1>3. t \in Locker /\ t \notin Signaller
    BY <1>2, Callers
  <1>4. PICK s, o, q, r : /\ s = sem[b] /\ o = s.queue /\ q = Append(o, t)
                          /\ r = [s EXCEPT !.queue = q] /\ sem' = [sem EXCEPT ![b] = r]
    <2>1. sem' = [sem EXCEPT ![b].queue = Append(@, t)]
      BY <1>1 DEF SemP
    <2> QED BY <1>0, <1>1, <2>1
  <1>5. /\ o \in Seq(User) /\ q \in Seq(User) /\ DOMAIN o = 1 .. Len(o) /\ Len(o) \in Nat
        /\ DOMAIN q = 1 .. Len(o) + 1 /\ q[Len(o) + 1] = t /\ \A i \in 1 .. Len(o) : q[i] = o[i]
    <2>1. o \in Seq(User)
      BY <1>0, <1>1, <1>4
    <2> QED BY <1>4, <2>1
  <1>6. /\ sem' \in [Ben -> [valid : BOOLEAN, count : Nat, queue : Seq(User)]]
        /\ sem'[b].queue = q
        /\ \A c \in Ben : c # b => sem'[c] = sem[c]
        /\ \A c \in Ben : sem'[c].valid = sem[c].valid /\ sem'[c].count = sem[c].count
    <2>1. r \in [valid : BOOLEAN, count : Nat, queue : Seq(User)] /\ r.queue = q /\ r.count = s.count /\ r.valid = s.valid
      <3>1. s \in [valid : BOOLEAN, count : Nat, queue : Seq(User)] /\ r = [s EXCEPT !.queue = q]
        BY <1>0, <1>1, <1>4
      <3>2. q \in Seq(User)
        BY <1>5
      <3> QED BY <3>1, <3>2
    <2> QED BY <1>0, <1>1, <1>4, <2>1
  <1>7. /\ uat'[t] = "blocked" /\ on'[t] = b /\ uat' \in [User -> LockerAt \cup SignallerAt]
        /\ \A u \in User : u # t => uat'[u] = uat[u] /\ on'[u] = on[u]
    BY <1>0, <1>1, <1>2 DEF LockerAt
  <1>8. UserTypeOK'
    BY <1>0, <1>2, <1>6, <1>7 DEF UserTypeOK
  <1>9. UserPlaces'
    <2>1. UserPlaces
      BY DEF UserInv
    <2>2. "blocked" \in LockerAt
      BY DEF LockerAt
    <2>3. ASSUME NEW u \in Locker
          PROVE  uat'[u] \in LockerAt /\ (on'[u] = "cond" => uat'[u] \in {"in", "semP", "inP", "blocked"})
      <3>1. CASE u = t
        BY <1>7, <2>2, <3>1
      <3>2. CASE u # t
        BY <1>0, <1>7, <2>1, <3>2 DEF UserPlaces
      <3> QED BY <3>1, <3>2
    <2>4. ASSUME NEW u \in Signaller
          PROVE  uat'[u] \in SignallerAt /\ (uat'[u] \in {"semV", "inV"} => on'[u] = "cond")
      <3>1. u \in User /\ u # t
        BY <1>3 DEF User
      <3> QED BY <1>7, <2>1, <3>1 DEF UserPlaces
    <2> QED BY <2>3, <2>4 DEF UserPlaces
  <1>10. QueuesTrue'
    <2>1. QueuesTrue
      BY DEF UserInv
    <2>2. /\ \A u \in User : (on[u] = b /\ uat[u] = "blocked") <=> \E i \in DOMAIN o : o[i] = u
          /\ \A i, j \in DOMAIN o : o[i] = o[j] => i = j
      BY <1>1, <1>4, <2>1 DEF QueuesTrue
    <2>3. \A i \in 1 .. Len(o) : o[i] # t
      BY <1>2, <1>5, <2>2
    <2>4. ASSUME NEW u \in User
          PROVE  (on'[u] = b /\ uat'[u] = "blocked") <=> \E i \in DOMAIN q : q[i] = u
      <3>1. CASE u = t
        <4>1. Len(o) + 1 \in DOMAIN q
          BY <1>5
        <4> QED BY <1>5, <1>7, <3>1, <4>1
      <3>2. CASE u # t
        <4>1. (\E i \in DOMAIN q : q[i] = u) <=> (\E i \in DOMAIN o : o[i] = u)
          BY <1>5, <3>2
        <4> QED BY <1>7, <2>2, <3>2, <4>1
      <3> QED BY <3>1, <3>2
    <2>5. \A i, j \in DOMAIN q : q[i] = q[j] => i = j
      BY <1>5, <2>2, <2>3
    <2>6. ASSUME NEW c \in Ben, c # b
          PROVE  /\ \A u \in User : (on'[u] = c /\ uat'[u] = "blocked")
                                    <=> \E i \in DOMAIN sem'[c].queue : sem'[c].queue[i] = u
                 /\ \A i, j \in DOMAIN sem'[c].queue : sem'[c].queue[i] = sem'[c].queue[j] => i = j
      <3>1. PICK z : z = sem[c].queue
        OBVIOUS
      <3>2. sem'[c].queue = z
        BY <1>6, <2>6, <3>1
      <3>3. /\ \A u \in User : (on[u] = c /\ uat[u] = "blocked") <=> \E i \in DOMAIN z : z[i] = u
            /\ \A i, j \in DOMAIN z : z[i] = z[j] => i = j
        BY <2>1, <3>1 DEF QueuesTrue
      <3>4. \A u \in User : (on'[u] = c /\ uat'[u] = "blocked") <=> (on[u] = c /\ uat[u] = "blocked")
        BY <1>1, <1>2, <1>7, <2>6
      <3> QED BY <3>2, <3>3, <3>4
    <2>7. /\ \A u \in User : (on'[u] = b /\ uat'[u] = "blocked")
                              <=> \E i \in DOMAIN sem'[b].queue : sem'[b].queue[i] = u
          /\ \A i, j \in DOMAIN sem'[b].queue : sem'[b].queue[i] = sem'[b].queue[j] => i = j
      BY <1>6, <2>4, <2>5
    <2> QED BY <2>6, <2>7 DEF QueuesTrue
  <1>11. ASSUME ~stray PROVE MutexCounted' /\ CondCounted' /\ DestroyedLast'
    <2>1. \A u \in User : \A c \in Ben :
             /\ u \in Holders' <=> u \in Holders
             /\ u \in Waiters(c)' <=> u \in Waiters(c)
             /\ u \in Posters(c)' <=> u \in Posters(c)
             /\ u \in Undoers(c)' <=> u \in Undoers(c)
      BY <1>1, <1>2, <1>7 DEF Holders, Waiters, Posters, Undoers
    <2>2. MutexCounted'
      BY <1>0, <1>2, <1>6, <1>11, <2>1, MutexKept
    <2>3. CondCounted'
      BY <1>0, <1>2, <1>6, <1>11, <2>1, CondKept
    <2>4. DestroyedLast'
      BY <1>0, <1>2, <1>6, <1>7, <1>11, DestroyedStays
    <2> QED BY <2>2, <2>3, <2>4
  <1> QED BY <1>2, <1>8, <1>9, <1>10, <1>11 DEF UserInv

(* Semaphore::V when nobody is queued.                                     *)
LEMMA SemPutStep ==
  ASSUME UserInv, NEW t \in User, SemV(t), sem[on[t]].queue = <<>>
  PROVE  UserInv'
  <1>0. /\ benCount \in [Ben -> Int] /\ benCount["mutex"] \in Int /\ benCount["cond"] \in Int
        /\ sem \in [Ben -> [valid : BOOLEAN, count : Nat, queue : Seq(User)]] /\ sem["cond"].valid
        /\ uat \in [User -> LockerAt \cup SignallerAt] /\ on \in [User -> Ben]
        /\ round \in [Locker -> 0 .. MaxRound] /\ bcast \in [Signaller -> BOOLEAN] /\ stray \in BOOLEAN
        /\ "mutex" \in Ben /\ "cond" \in Ben /\ Locker \subseteq User
    BY UserFacts
  <1>1. PICK b : b = on[t] /\ b \in Ben /\ (b = "mutex" \/ b = "cond")
    BY Callers
  <1>2. /\ uat[t] = "inV" /\ bcast' = bcast /\ on' = [on EXCEPT ![t] = b]
        /\ benCount' = benCount /\ round' = round /\ stray' = stray
    BY <1>0, <1>1 DEF SemV
  <1>3. /\ t \in Locker => b = "mutex" /\ t \notin Signaller
        /\ t \notin Locker => b = "cond" /\ t \in Signaller
    BY <1>1, <1>2, Callers
  <1>4. PICK s, k, r : s = sem[b] /\ k = s.count + 1 /\ r = [s EXCEPT !.count = k] /\ sem' = [sem EXCEPT ![b] = r]
    <2>1. sem' = [sem EXCEPT ![b] = [sem[b] EXCEPT !.count = @ + 1]]
      BY <1>1 DEF SemV, Posted
    <2> QED BY <1>0, <1>1, <2>1
  <1>5. s.count \in Nat /\ k \in Nat /\ k = s.count + 1
    BY <1>0, <1>1, <1>4
  <1>6. /\ sem' \in [Ben -> [valid : BOOLEAN, count : Nat, queue : Seq(User)]]
        /\ sem'[b].count = k
        /\ \A c \in Ben : c # b => sem'[c] = sem[c]
        /\ \A c \in Ben : sem'[c].valid = sem[c].valid /\ sem'[c].queue = sem[c].queue
    <2>1. r \in [valid : BOOLEAN, count : Nat, queue : Seq(User)] /\ r.count = k /\ r.queue = s.queue /\ r.valid = s.valid
      BY <1>0, <1>1, <1>4, <1>5
    <2> QED BY <1>0, <1>1, <1>4, <2>1
  <1>7. PICK l : /\ l \in {"out", "test"} /\ (t \in Locker => l = "out")
                 /\ uat' = [uat EXCEPT ![t] = l]
    <2>1. PICK k0 : k0 = Back(t)
      OBVIOUS
    <2>2. k0 \in {"out", "test"} /\ (t \in Locker => k0 = "out")
      BY <1>1, <1>2, <1>3, <2>1 DEF Back
    <2>3. uat' = [u \in User |-> IF u = t THEN k0 ELSE uat[u]]
      BY <2>1 DEF SemV
    <2> QED BY <1>0, <2>2, <2>3
  <1>8. /\ UserTypeOK' /\ UserPlaces' /\ QueuesTrue' /\ uat'[t] = l /\ on'[t] = b
        /\ \A u \in User : u # t => uat'[u] = uat[u] /\ on'[u] = on[u]
    <2>1. /\ l \in LockerAt \cup SignallerAt /\ l # "blocked" /\ l \in SignallerAt
          /\ t \in Locker => l \in LockerAt /\ b # "cond"
      BY <1>3, <1>7 DEF LockerAt, SignallerAt
    <2>9. MovesAlone(t, l, b)
      BY <1>0, <1>1, <1>2, <1>3, <1>6, <1>7, <2>1 DEF MovesAlone
    <2> QED BY <2>9, OneUserMoves
  <1>9. ASSUME ~stray PROVE MutexCounted' /\ CondCounted' /\ DestroyedLast'
    <2>1. DestroyedLast'
      BY <1>0, <1>2, <1>6, <1>8, <1>9, DestroyedStays
    <2>2. CASE b = "mutex"
      <3>1. \A u \in User : /\ u \in Waiters("cond")' <=> u \in Waiters("cond")
                            /\ u \in Posters("cond")' <=> u \in Posters("cond")
        BY <1>1, <1>8, <2>2 DEF Waiters, Posters
      <3>2. CondCounted'
        BY <1>0, <1>2, <1>6, <1>9, <2>2, <3>1, CondKept
      <3>3. /\ t \notin Holders /\ t \notin Waiters("mutex") /\ t \in Posters("mutex") /\ t \notin Undoers("mutex")
            /\ t \notin Holders' /\ t \notin Waiters("mutex")' /\ t \notin Posters("mutex")' /\ t \notin Undoers("mutex")'
        BY <1>1, <1>2, <1>3, <1>7, <1>8, <2>2, Membership
      <3>4. PICK h, w, p, u, h1, w1, p1, u1 \in Nat : MutexMoves(t, h, w, p, u, h1, w1, p1, u1)
        BY <1>8, <1>9, MutexNumbers
      <3>5. PICK c, n : c = s.count /\ c = sem["mutex"].count /\ k = c + 1 /\ c \in Nat
                        /\ n = benCount["mutex"] /\ n \in Int
        BY <1>0, <1>4, <1>5, <2>2
      <3>6. h1 = h /\ w1 = w /\ p1 = p - 1 /\ u1 = u
        BY <3>3, <3>4 DEF One, MutexMoves
      <3>7. MutexNum(h, w, c + p, u, n)
        BY <3>4, <3>5 DEF MutexMoves
      <3>8. MutexNum(h1, w1, k + p1, u1, n)
        <4>1. k + p1 = c + p
          BY <3>4, <3>5, <3>6
        <4> QED BY <3>6, <3>7, <4>1
      <3> QED BY <1>2, <1>6, <2>1, <2>2, <3>2, <3>4, <3>5, <3>8 DEF MutexMoves
    <2>3. CASE b = "cond"
      <3>1. \A u \in User : /\ u \in Holders' <=> u \in Holders
                            /\ u \in Waiters("mutex")' <=> u \in Waiters("mutex")
                            /\ u \in Posters("mutex")' <=> u \in Posters("mutex")
                            /\ u \in Undoers("mutex")' <=> u \in Undoers("mutex")
        BY <1>1, <1>2, <1>3, <1>7, <1>8, <2>3 DEF Holders, Waiters, Posters, Undoers
      <3>2. MutexCounted'
        BY <1>0, <1>2, <1>6, <1>9, <2>3, <3>1, MutexKept
      <3>3. t \notin Waiters("cond") /\ t \in Posters("cond") /\ t \notin Waiters("cond")' /\ t \notin Posters("cond")'
        <4>1. uat[t] \notin {"semP", "inP", "blocked"} /\ uat[t] \in {"semV", "inV"} /\ on[t] = "cond"
          BY <1>1, <1>2, <2>3
        <4>2. uat'[t] \notin {"semP", "inP", "blocked"} /\ uat'[t] \notin {"semV", "inV"}
          BY <1>7, <1>8
        <4> QED BY <4>1, <4>2, Membership
      <3>4. PICK w, p, w1, p1 \in Nat : CondMoves(t, w, p, w1, p1)
        BY <1>8, <1>9, CondNumbers
      <3>5. PICK c, n : c = s.count /\ c = sem["cond"].count /\ k = c + 1 /\ c \in Nat
                        /\ n = benCount["cond"] /\ n \in Int
        BY <1>0, <1>4, <1>5, <2>3
      <3>6. w1 = w /\ p1 = p - 1
        BY <3>3, <3>4 DEF One, CondMoves
      <3>7. CondNum(w, c + p, n)
        BY <3>4, <3>5 DEF CondMoves
      <3>8. CondNum(w1, k + p1, n)
        <4>1. k + p1 = c + p
          BY <3>4, <3>5, <3>6
        <4> QED BY <3>6, <3>7, <4>1
      <3> QED BY <1>2, <1>6, <2>1, <2>3, <3>2, <3>4, <3>5, <3>8 DEF CondMoves
    <2> QED BY <1>1, <2>2, <2>3
  <1> QED BY <1>2, <1>8, <1>9 DEF UserInv

(* Semaphore::V that resumes the first in the queue: two threads move.     *)
LEMMA SemWakeStep ==
  ASSUME UserInv, NEW t \in User, SemV(t), sem[on[t]].queue # <<>>
  PROVE  UserInv'
  <1>0. /\ benCount \in [Ben -> Int] /\ benCount["mutex"] \in Int /\ benCount["cond"] \in Int
        /\ sem \in [Ben -> [valid : BOOLEAN, count : Nat, queue : Seq(User)]] /\ sem["cond"].valid
        /\ uat \in [User -> LockerAt \cup SignallerAt] /\ on \in [User -> Ben]
        /\ round \in [Locker -> 0 .. MaxRound] /\ bcast \in [Signaller -> BOOLEAN] /\ stray \in BOOLEAN
        /\ "mutex" \in Ben /\ "cond" \in Ben /\ Locker \subseteq User
    BY UserFacts
  <1>1. PICK b : b = on[t] /\ b \in Ben /\ (b = "mutex" \/ b = "cond")
    BY Callers
  <1>2. /\ uat[t] = "inV" /\ bcast' = bcast /\ on' = on
        /\ benCount' = benCount /\ round' = round /\ stray' = stray
    BY DEF SemV
  <1>3. /\ t \in Locker => b = "mutex" /\ t \notin Signaller
        /\ t \notin Locker => b = "cond" /\ t \in Signaller
    BY <1>1, <1>2, Callers
  <1>4. PICK s, o, q, r, v : /\ s = sem[b] /\ o = s.queue /\ q = Tail(o) /\ v = Head(o)
                             /\ r = [s EXCEPT !.queue = q] /\ sem' = [sem EXCEPT ![b] = r]
    <2>1. sem' = [sem EXCEPT ![b] = [sem[b] EXCEPT !.queue = Tail(@)]]
      BY <1>1 DEF SemV, Posted
    <2> QED BY <1>0, <1>1, <2>1
  <1>5. /\ o \in Seq(User) /\ Len(o) \in Nat /\ Len(o) >= 1 /\ DOMAIN o = 1 .. Len(o) /\ v = o[1]
        /\ q \in Seq(User) /\ DOMAIN q = 1 .. Len(o) - 1 /\ q # o
        /\ \A i \in 1 .. Len(o) - 1 : q[i] = o[i + 1]
    <2>1. o \in Seq(User) /\ o # <<>>
      BY <1>0, <1>1, <1>4
    <2>2. q \in Seq(User) /\ Len(q) = Len(o) - 1 /\ Len(o) \in Nat /\ Len(o) >= 1
      BY <1>4, <2>1
    <2>3. q # o
      BY <2>2
    <2>4. v = o[1] /\ DOMAIN o = 1 .. Len(o) /\ DOMAIN q = 1 .. Len(q)
      BY <1>4, <2>1, <2>2
    <2>5. \A i \in 1 .. Len(o) - 1 : q[i] = o[i + 1]
      BY <1>4, <2>1, <2>2
    <2> QED BY <2>1, <2>2, <2>3, <2>4, <2>5
  <1>6. /\ sem' \in [Ben -> [valid : BOOLEAN, count : Nat, queue : Seq(User)]]
        /\ sem'[b].queue = q
        /\ \A c \in Ben : c # b => sem'[c] = sem[c]
        /\ \A c \in Ben : sem'[c].valid = sem[c].valid /\ sem'[c].count = sem[c].count
    <2>1. r \in [valid : BOOLEAN, count : Nat, queue : Seq(User)] /\ r.queue = q /\ r.count = s.count /\ r.valid = s.valid
      <3>1. s \in [valid : BOOLEAN, count : Nat, queue : Seq(User)] /\ r = [s EXCEPT !.queue = q]
        BY <1>0, <1>1, <1>4
      <3>2. q \in Seq(User)
        BY <1>5
      <3> QED BY <3>1, <3>2
    <2> QED BY <1>0, <1>1, <1>4, <2>1
  <1>7. /\ \A u \in User : (on[u] = b /\ uat[u] = "blocked") <=> \E i \in DOMAIN o : o[i] = u
        /\ \A i, j \in DOMAIN o : o[i] = o[j] => i = j
    <2>1. QueuesTrue
      BY DEF UserInv
    <2> QED BY <1>1, <1>4, <2>1 DEF QueuesTrue
  <1>8. v \in User /\ on[v] = b /\ uat[v] = "blocked" /\ v # t
    <2>1. 1 \in DOMAIN o /\ o[1] \in User
      BY <1>5
    <2> QED BY <1>2, <1>5, <1>7, <2>1
  <1>9. v \in Locker /\ v \notin Signaller
    BY <1>8, Callers
  <1>10. PICK l : /\ l \in {"out", "test"} /\ (t \in Locker => l = "out")
                  /\ uat' = [u \in User |-> IF u = t THEN l ELSE IF u = v THEN "in" ELSE uat[u]]
    <2>1. PICK k : k = Back(t)
      OBVIOUS
    <2>2. k \in {"out", "test"} /\ (t \in Locker => k = "out")
      BY <1>1, <1>2, <1>3, <2>1 DEF Back
    <2>3. Back(v) = "in"
      BY <1>8, <1>9 DEF Back
    <2>4. sem[on[t]] = s /\ s.queue = o /\ o # <<>> /\ Head(o) = v
      BY <1>1, <1>4
    <2>5. Posted(s).queue = q
      <3>1. Posted(s) = r
        BY <1>4, <2>4 DEF Posted
      <3> QED BY <1>0, <1>1, <1>4, <3>1
    <2>6. Posted(s).queue # s.queue /\ s.queue # <<>> /\ Head(s.queue) = v
      BY <1>5, <2>4, <2>5
    <2>7. uat' = [u \in User |-> IF u = t THEN k ELSE IF u = v THEN Back(u) ELSE uat[u]]
      <3>1. uat' = [u \in User |-> IF u = t THEN Back(t)
                                   ELSE IF s.queue # <<>> /\ Posted(s).queue # s.queue /\ u = Head(s.queue)
                                        THEN Back(u) ELSE uat[u]]
        BY <2>4 DEF SemV
      <3> QED BY <2>1, <2>6, <3>1
    <2>8. uat' = [u \in User |-> IF u = t THEN k ELSE IF u = v THEN "in" ELSE uat[u]]
      BY <2>3, <2>7
    <2> QED BY <2>2, <2>8
  <1>11. /\ uat'[t] = l /\ uat'[v] = "in" /\ uat' \in [User -> LockerAt \cup SignallerAt]
         /\ \A u \in User : u # t /\ u # v => uat'[u] = uat[u]
         /\ l \in SignallerAt /\ "in" \in LockerAt /\ "out" \in LockerAt
    BY <1>0, <1>8, <1>10 DEF LockerAt, SignallerAt
  <1>12. UserTypeOK'
    BY <1>0, <1>2, <1>6, <1>11 DEF UserTypeOK
  <1>13. UserPlaces'
    <2>1. UserPlaces
      BY DEF UserInv
    <2>2. ASSUME NEW u \in Locker
          PROVE  uat'[u] \in LockerAt /\ (on'[u] = "cond" => uat'[u] \in {"in", "semP", "inP", "blocked"})
      <3>1. CASE u = t
        BY <1>1, <1>2, <1>3, <1>10, <1>11, <3>1
      <3>2. CASE u = v
        BY <1>11, <3>2
      <3>3. CASE u # t /\ u # v
        BY <1>0, <1>2, <1>11, <2>1, <3>3 DEF UserPlaces
      <3> QED BY <3>1, <3>2, <3>3
    <2>3. ASSUME NEW u \in Signaller
          PROVE  uat'[u] \in SignallerAt /\ (uat'[u] \in {"semV", "inV"} => on'[u] = "cond")
      <3>1. u \in User
        BY DEF User
      <3>2. CASE u = t
        BY <1>10, <1>11, <3>2
      <3>3. CASE u # t
        BY <1>2, <1>9, <1>11, <2>1, <3>1, <3>3 DEF UserPlaces
      <3> QED BY <3>2, <3>3
    <2> QED BY <2>2, <2>3 DEF UserPlaces
  <1>14. QueuesTrue'
    <2>1. QueuesTrue
      BY DEF UserInv
    <2>2. ASSUME NEW u \in User
          PROVE  (on'[u] = b /\ uat'[u] = "blocked") <=> \E i \in DOMAIN q : q[i] = u
      <3>1. CASE u = v
        <4>1. \A i \in DOMAIN q : q[i] # v
          <5> SUFFICES ASSUME NEW i \in DOMAIN q, q[i] = v PROVE FALSE
            OBVIOUS
          <5>1. i \in 1 .. Len(o) - 1 /\ i + 1 \in DOMAIN o /\ 1 \in DOMAIN o /\ o[i + 1] = o[1]
            BY <1>5
          <5>2. i + 1 = 1
            BY <1>7, <5>1
          <5> QED BY <5>1, <5>2, <1>5
        <4> QED BY <1>11, <3>1, <4>1
      <3>2. CASE u # v
        <4>1. (\E i \in DOMAIN q : q[i] = u) <=> (\E i \in DOMAIN o : o[i] = u)
          <5>1. ASSUME NEW i \in DOMAIN q, q[i] = u PROVE \E j \in DOMAIN o : o[j] = u
            <6>1. i + 1 \in DOMAIN o /\ o[i + 1] = u
              BY <1>5, <5>1
            <6> QED BY <6>1
          <5>2. ASSUME NEW i \in DOMAIN o, o[i] = u PROVE \E j \in DOMAIN q : q[j] = u
            <6>1. i # 1 /\ i \in 1 .. Len(o)
              BY <1>5, <3>2, <5>2
            <6>2. i - 1 \in DOMAIN q /\ q[i - 1] = o[(i - 1) + 1] /\ (i - 1) + 1 = i
              BY <1>5, <6>1
            <6> QED BY <5>2, <6>2
          <5> QED BY <5>1, <5>2
        <4>2. uat'[u] = "blocked" <=> uat[u] = "blocked"
          BY <1>2, <1>10, <1>11, <3>2
        <4> QED BY <1>2, <1>7, <4>1, <4>2
      <3> QED BY <3>1, <3>2
    <2>3. ASSUME NEW i \in DOMAIN q, NEW j \in DOMAIN q, q[i] = q[j] PROVE i = j
      <3>1. i \in 1 .. Len(o) - 1 /\ j \in 1 .. Len(o) - 1 /\ o[i + 1] = o[j + 1]
        BY <1>5, <2>3
      <3>2. i + 1 \in DOMAIN o /\ j + 1 \in DOMAIN o
        BY <1>5, <3>1
      <3>3. i + 1 = j + 1
        BY <1>7, <3>1, <3>2
      <3> QED BY <1>5, <3>1, <3>3
    <2>4. ASSUME NEW c \in Ben, c # b
          PROVE  /\ \A u \in User : (on'[u] = c /\ uat'[u] = "blocked")
                                    <=> \E i \in DOMAIN sem'[c].queue : sem'[c].queue[i] = u
                 /\ \A i, j \in DOMAIN sem'[c].queue : sem'[c].queue[i] = sem'[c].queue[j] => i = j
      <3>1. PICK z : z = sem[c].queue
        OBVIOUS
      <3>2. sem'[c].queue = z
        BY <1>6, <2>4, <3>1
      <3>3. /\ \A u \in User : (on[u] = c /\ uat[u] = "blocked") <=> \E i \in DOMAIN z : z[i] = u
            /\ \A i, j \in DOMAIN z : z[i] = z[j] => i = j
        BY <2>1, <3>1 DEF QueuesTrue
      <3>4. \A u \in User : (on'[u] = c /\ uat'[u] = "blocked") <=> (on[u] = c /\ uat[u] = "blocked")
        BY <1>1, <1>2, <1>8, <1>11, <2>4
      <3> QED BY <3>2, <3>3, <3>4
    <2>5. /\ \A u \in User : (on'[u] = b /\ uat'[u] = "blocked")
                              <=> \E i \in DOMAIN sem'[b].queue : sem'[b].queue[i] = u
          /\ \A i, j \in DOMAIN sem'[b].queue : sem'[b].queue[i] = sem'[b].queue[j] => i = j
      BY <1>6, <2>2, <2>3
    <2> QED BY <2>4, <2>5 DEF QueuesTrue
  <1>15. ASSUME ~stray PROVE MutexCounted' /\ CondCounted' /\ DestroyedLast'
    <2>1. DestroyedLast'
      <3>1. \A u \in Locker : uat[u] = "out" /\ round[u] = MaxRound => uat'[u] = "out" /\ round'[u] = MaxRound
        BY <1>0, <1>2, <1>8, <1>11
      <3> QED BY <1>0, <1>6, <1>15, <3>1, DestroyedStays
    <2>2. CASE b = "mutex"
      <3>1. \A u \in User : /\ u \in Waiters("cond")' <=> u \in Waiters("cond")
                            /\ u \in Posters("cond")' <=> u \in Posters("cond")
        BY <1>1, <1>2, <1>8, <1>11, <2>2 DEF Waiters, Posters
      <3>2. CondCounted'
        BY <1>0, <1>2, <1>6, <1>15, <2>2, <3>1, CondKept
      <3>3. t \in Locker /\ l = "out"
        BY <1>3, <1>10, <2>2
      <3>4. /\ t \in Posters("mutex") /\ v \in Waiters("mutex") /\ v \notin Holders
            /\ Posters("mutex")' = Posters("mutex") \ {t} /\ Waiters("mutex")' = Waiters("mutex") \ {v}
            /\ Holders' = Holders \cup {v} /\ Undoers("mutex")' = Undoers("mutex")
        <4>1. t \in Posters("mutex") /\ v \in Waiters("mutex") /\ v \notin Holders
          BY <1>1, <1>2, <1>8, <2>2, Membership
        <4>2. ASSUME NEW u \in User
              PROVE  /\ u \in Posters("mutex")' <=> u \in Posters("mutex") /\ u # t
                     /\ u \in Waiters("mutex")' <=> u \in Waiters("mutex") /\ u # v
                     /\ u \in Holders' <=> u \in Holders \/ u = v
                     /\ u \in Undoers("mutex")' <=> u \in Undoers("mutex")
          <5>1. CASE u = t
            BY <1>1, <1>2, <1>8, <1>11, <2>2, <3>3, <5>1, Membership
          <5>2. CASE u = v
            BY <1>2, <1>8, <1>9, <1>11, <2>2, <5>2, Membership
          <5>3. CASE u # t /\ u # v
            BY <1>2, <1>11, <5>3, Membership
          <5> QED BY <5>1, <5>2, <5>3
        <4>3. /\ Holders \subseteq User /\ Holders' \subseteq User
              /\ Waiters("mutex") \subseteq User /\ Waiters("mutex")' \subseteq User
              /\ Posters("mutex") \subseteq User /\ Posters("mutex")' \subseteq User
              /\ Undoers("mutex") \subseteq User /\ Undoers("mutex")' \subseteq User
          BY DEF Holders, Waiters, Posters, Undoers, User
        <4> QED BY <1>8, <4>1, <4>2, <4>3
      <3>5. PICK h, w, p, u : /\ h = Cardinality(Holders) /\ w = Cardinality(Waiters("mutex"))
                              /\ p = Cardinality(Posters("mutex")) /\ u = Cardinality(Undoers("mutex"))
        OBVIOUS
      <3>6. /\ h \in Nat /\ w \in Nat /\ p \in Nat /\ u \in Nat
            /\ Cardinality(Holders') = h + 1 /\ Cardinality(Waiters("mutex")') = w - 1
            /\ Cardinality(Posters("mutex")') = p - 1 /\ Cardinality(Undoers("mutex")') = u /\ p >= 1
        <4>1. /\ IsFiniteSet(Holders) /\ IsFiniteSet(Waiters("mutex")) /\ IsFiniteSet(Posters("mutex"))
              /\ IsFiniteSet(Undoers("mutex"))
          BY <1>0, UserSetsFinite
        <4>2. h \in Nat /\ Cardinality(Holders') = h + 1
          BY <3>4, <3>5, <4>1, OneMore
        <4>3. w \in Nat /\ Cardinality(Waiters("mutex")') = w - 1
          BY <3>4, <3>5, <4>1, OneLess
        <4>4. p \in Nat /\ Cardinality(Posters("mutex")') = p - 1 /\ p >= 1
          BY <3>4, <3>5, <4>1, OneLess
        <4>5. u \in Nat /\ Cardinality(Undoers("mutex")') = u
          BY <3>4, <3>5, <4>1, FS_CardinalityType
        <4> QED BY <4>2, <4>3, <4>4, <4>5
      <3>7. PICK c, n : c = sem["mutex"].count /\ c \in Nat /\ n = benCount["mutex"] /\ n \in Int
        BY <1>0
      <3>8. MutexNum(h, w, c + p, u, n)
        BY <1>15, <3>5, <3>7, CountedAsNumbers DEF UserInv
      <3>9. MutexNum(h + 1, w - 1, c + (p - 1), u, n)
        <4>1. h \in Nat /\ w \in Nat /\ p \in Nat /\ u \in Nat /\ p >= 1 /\ c \in Nat /\ n \in Int
          BY <3>6, <3>7
        <4> QED BY <3>8, <4>1 DEF MutexNum
      <3> QED BY <1>0, <1>2, <1>6, <2>1, <3>2, <3>6, <3>7, <3>9, CountedAsNumbersNext
    <2>3. CASE b = "cond"
      <3>1. t \notin Locker
        BY <1>3, <2>3
      <3>2. \A u \in User : /\ u \in Holders' <=> u \in Holders
                            /\ u \in Waiters("mutex")' <=> u \in Waiters("mutex")
                            /\ u \in Posters("mutex")' <=> u \in Posters("mutex")
                            /\ u \in Undoers("mutex")' <=> u \in Undoers("mutex")
        BY <1>1, <1>2, <1>8, <1>11, <2>3, <3>1 DEF Holders, Waiters, Posters, Undoers
      <3>3. MutexCounted'
        BY <1>0, <1>2, <1>6, <1>15, <2>3, <3>2, MutexKept
      <3>4. /\ t \in Posters("cond") /\ v \in Waiters("cond")
            /\ Posters("cond")' = Posters("cond") \ {t} /\ Waiters("cond")' = Waiters("cond") \ {v}
        <4>1. t \in Posters("cond") /\ v \in Waiters("cond")
          BY <1>1, <1>2, <1>8, <2>3, Membership
        <4>2. ASSUME NEW u \in User
              PROVE  /\ u \in Posters("cond")' <=> u \in Posters("cond") /\ u # t
                     /\ u \in Waiters("cond")' <=> u \in Waiters("cond") /\ u # v
          <5>1. CASE u = t
            <6>1. uat'[t] \notin {"semP", "inP", "blocked"} /\ uat'[t] \notin {"semV", "inV"}
              BY <1>10, <1>11
            <6> QED BY <1>2, <1>8, <5>1, <6>1, Membership
          <5>2. CASE u = v
            BY <1>2, <1>8, <1>9, <1>11, <2>3, <5>2, Membership
          <5>3. CASE u # t /\ u # v
            BY <1>2, <1>11, <5>3, Membership
          <5> QED BY <5>1, <5>2, <5>3
        <4>3. /\ Waiters("cond") \subseteq User /\ Waiters("cond")' \subseteq User
              /\ Posters("cond") \subseteq User /\ Posters("cond")' \subseteq User
          BY DEF Waiters, Posters
        <4> QED BY <4>1, <4>2, <4>3
      <3>5. PICK w, p : w = Cardinality(Waiters("cond")) /\ p = Cardinality(Posters("cond"))
        OBVIOUS
      <3>6. /\ w \in Nat /\ p \in Nat
            /\ Cardinality(Waiters("cond")') = w - 1 /\ Cardinality(Posters("cond")') = p - 1
        <4>1. IsFiniteSet(Waiters("cond")) /\ IsFiniteSet(Posters("cond"))
          BY <1>0, UserSetsFinite
        <4>2. w \in Nat /\ Cardinality(Waiters("cond")') = w - 1
          BY <3>4, <3>5, <4>1, OneLess
        <4>3. p \in Nat /\ Cardinality(Posters("cond")') = p - 1
          BY <3>4, <3>5, <4>1, OneLess
        <4> QED BY <4>2, <4>3
      <3>7. PICK c, n : c = sem["cond"].count /\ c \in Nat /\ n = benCount["cond"] /\ n \in Int
        BY <1>0
      <3>8. CondNum(w, c + p, n)
        BY <1>15, <3>5, <3>7, CountedAsNumbers DEF UserInv
      <3>9. CondNum(w - 1, c + (p - 1), n)
        <4>1. w \in Nat /\ p \in Nat /\ c \in Nat /\ n \in Int
          BY <3>6, <3>7
        <4>2. (w - 1) - (c + (p - 1)) = w - (c + p)
          BY <4>1
        <4> QED BY <3>8, <4>2 DEF CondNum
      <3> QED BY <1>0, <1>2, <1>6, <2>1, <3>3, <3>6, <3>7, <3>9, CountedAsNumbersNext
    <2> QED BY <1>1, <2>2, <2>3
  <1> QED BY <1>2, <1>12, <1>13, <1>14, <1>15 DEF UserInv

(* pthread_mutex_destroy: nobody waits for the mutex, so no post is on its *)
(* way, and nobody else is in a call.                                      *)
LEMMA MutexDestroyStep ==
  ASSUME UserInv, NEW t \in Locker, MutexDestroy(t)
  PROVE  UserInv'
  <1>0. /\ benCount \in [Ben -> Int] /\ benCount["mutex"] \in Int
        /\ sem \in [Ben -> [valid : BOOLEAN, count : Nat, queue : Seq(User)]] /\ sem["cond"].valid
        /\ sem["mutex"].count \in Nat
        /\ uat \in [User -> LockerAt \cup SignallerAt] /\ on \in [User -> Ben]
        /\ round \in [Locker -> 0 .. MaxRound] /\ bcast \in [Signaller -> BOOLEAN] /\ stray \in BOOLEAN
        /\ "mutex" \in Ben /\ "cond" \in Ben /\ Locker \subseteq User
    BY UserFacts
  <1>1. /\ uat[t] = "out" /\ round[t] = MaxRound /\ LastUser(t)
        /\ uat' = uat /\ on' = on /\ benCount' = benCount /\ bcast' = bcast /\ round' = round /\ stray' = stray
    BY DEF MutexDestroy
  <1>2. PICK s, r : s = sem["mutex"] /\ r = [s EXCEPT !.valid = FALSE] /\ sem' = [sem EXCEPT !["mutex"] = r]
    <2>1. sem' = [sem EXCEPT !["mutex"].valid = FALSE]
      BY DEF MutexDestroy
    <2> QED BY <1>0, <2>1
  <1>3. /\ sem' \in [Ben -> [valid : BOOLEAN, count : Nat, queue : Seq(User)]]
        /\ \A c \in Ben : c # "mutex" => sem'[c] = sem[c]
        /\ \A c \in Ben : sem'[c].queue = sem[c].queue /\ sem'[c].count = sem[c].count
    <2>1. r \in [valid : BOOLEAN, count : Nat, queue : Seq(User)] /\ r.queue = s.queue /\ r.count = s.count
      BY <1>0, <1>2
    <2> QED BY <1>0, <1>2, <2>1
  <1>4. UserTypeOK'
    BY <1>0, <1>1, <1>3 DEF UserTypeOK
  <1>5. UserPlaces'
    <2>1. UserPlaces
      BY DEF UserInv
    <2> QED BY <1>1, <2>1 DEF UserPlaces
  <1>6. QueuesTrue'
    <2>1. QueuesTrue
      BY DEF UserInv
    <2>2. ASSUME NEW c \in Ben
          PROVE  /\ \A u \in User : (on'[u] = c /\ uat'[u] = "blocked")
                                    <=> \E i \in DOMAIN sem'[c].queue : sem'[c].queue[i] = u
                 /\ \A i, j \in DOMAIN sem'[c].queue : sem'[c].queue[i] = sem'[c].queue[j] => i = j
      <3>1. PICK z : z = sem[c].queue
        OBVIOUS
      <3>2. sem'[c].queue = z
        BY <1>3, <3>1
      <3>3. /\ \A u \in User : (on[u] = c /\ uat[u] = "blocked") <=> \E i \in DOMAIN z : z[i] = u
            /\ \A i, j \in DOMAIN z : z[i] = z[j] => i = j
        BY <2>1, <3>1 DEF QueuesTrue
      <3> QED BY <1>1, <3>2, <3>3
    <2> QED BY <2>2 DEF QueuesTrue
  <1>7. ASSUME ~stray PROVE MutexCounted' /\ CondCounted' /\ DestroyedLast'
    <2>1. \A u \in User : \A c \in Ben :
             /\ u \in Holders' <=> u \in Holders
             /\ u \in Waiters(c)' <=> u \in Waiters(c)
             /\ u \in Posters(c)' <=> u \in Posters(c)
             /\ u \in Undoers(c)' <=> u \in Undoers(c)
      BY <1>1 DEF Holders, Waiters, Posters, Undoers
    <2>2. MutexCounted'
      BY <1>0, <1>1, <1>3, <1>7, <2>1, MutexKept
    <2>3. CondCounted'
      BY <1>0, <1>1, <1>3, <1>7, <2>1, CondKept
    <2>4. Waiters("mutex") = {}
      <3> SUFFICES ASSUME NEW u \in User, u \in Waiters("mutex") PROVE FALSE
        BY DEF Waiters
      <3>1. uat[u] \in {"semP", "inP", "blocked"}
        BY DEF Waiters
      <3>2. u \in Locker
        BY <3>1, Callers
      <3>3. u # t
        BY <1>1, <3>1
      <3>4. uat[u] \in {"out", "semV", "inV"}
        BY <1>1, <3>2, <3>3 DEF LastUser
      <3> QED BY <3>1, <3>4
    <2>5. Posters("mutex") = {}
      <3>1. PICK h, w, p, u : /\ h = Cardinality(Holders) /\ w = Cardinality(Waiters("mutex"))
                              /\ p = Cardinality(Posters("mutex")) /\ u = Cardinality(Undoers("mutex"))
        OBVIOUS
      <3>2. MutexNum(h, w, sem["mutex"].count + p, u, benCount["mutex"])
        BY <1>7, <3>1, CountedAsNumbers DEF UserInv
      <3>3. w = 0
        BY <2>4, <3>1, FS_EmptySet
      <3>4. p \in Nat
        BY <1>0, <3>1, UserSetsFinite, FS_CardinalityType
      <3>5. p = 0
        BY <1>0, <3>2, <3>3, <3>4 DEF MutexNum
      <3> QED BY <1>0, <3>1, <3>5, UserSetsFinite, FS_EmptySet
    <2>6. ASSUME NEW u \in Locker PROVE uat[u] = "out" /\ round[u] = MaxRound
      <3>1. CASE u = t
        BY <1>1, <3>1
      <3>2. CASE u # t
        <4>1. round[u] = MaxRound /\ uat[u] \in {"out", "semV", "inV"}
          BY <1>1, <3>2 DEF LastUser
        <4>2. uat[u] \in {"semV", "inV"} => on[u] = "mutex"
          BY <1>0, Callers
        <4>3. uat[u] \notin {"semV", "inV"}
          BY <1>0, <2>5, <4>2 DEF Posters
        <4> QED BY <4>1, <4>3
      <3> QED BY <3>1, <3>2
    <2>7. DestroyedLast'
      BY <1>1, <2>6 DEF DestroyedLast
    <2> QED BY <2>2, <2>3, <2>7
  <1> QED BY <1>1, <1>4, <1>5, <1>6, <1>7 DEF UserInv

LEMMA UserIdle ==
  ASSUME UserInv, UNCHANGED userVars
  PROVE  UserInv'
  BY DEF UserInv, userVars, UserTypeOK, UserPlaces, QueuesTrue, MutexCounted, CondCounted, DestroyedLast,
         Holders, Waiters, Posters, Undoers, Posts

LEMMA UserInvStep == UserInv /\ [UserNext]_userVars => UserInv'
  <1> SUFFICES ASSUME UserInv, [UserNext]_userVars PROVE UserInv'
    OBVIOUS
  <1>1. CASE UNCHANGED userVars
    BY <1>1, UserIdle
  <1>2. ASSUME NEW t \in Locker, MutexLock(t) \/ TryLock(t) \/ CondWait(t) \/ MutexUnlock(t) \/ MutexDestroy(t)
        PROVE  UserInv'
    BY <1>2, MutexLockStep, CondWaitStep, MutexUnlockStep, MutexDestroyStep
  <1>3. ASSUME NEW t \in Signaller, NEW all \in BOOLEAN, Signal(t, all)
        PROVE  UserInv'
    BY <1>3, SignalStep
  <1>4. ASSUME NEW t \in User, SemP(t) PROVE UserInv'
    BY <1>4, SemTakeStep, SemBlockStep
  <1>5. ASSUME NEW t \in User, SemV(t) PROVE UserInv'
    BY <1>5, SemPutStep, SemWakeStep
  <1>6. ASSUME NEW t \in User, UserStep(t) PROVE UserInv'
    BY <1>4, <1>5, <1>6, TryUndoStep, SignalTestStep, SignalVStep, SemEnterStep DEF UserStep
  <1> QED BY <1>1, <1>2, <1>3, <1>6 DEF UserNext

(* The invariant gives the property.                                       *)
LEMMA UserAccounts == UserInv => UserSyncSound
  <1> SUFFICES ASSUME UserInv PROVE UserSyncSound
    OBVIOUS
  <1>0. /\ "mutex" \in Ben /\ "cond" \in Ben /\ Ben = {"mutex", "cond"}
        /\ benCount["mutex"] \in Int /\ benCount["cond"] \in Int
        /\ sem["mutex"].count \in Nat /\ sem["cond"].count \in Nat
    BY UserFacts
  <1>1. SemAlive
    BY CalledAlive DEF SemAlive
  <1>2. ASSUME ~stray PROVE BenSound
    <2>1. PICK h, w, p, u : /\ h = Cardinality(Holders) /\ w = Cardinality(Waiters("mutex"))
                            /\ p = Posts("mutex") /\ u = Cardinality(Undoers("mutex"))
      OBVIOUS
    <2>2. h \in Nat /\ w \in Nat /\ p \in Nat /\ u \in Nat
      <3>1. Cardinality(Posters("mutex")) \in Nat
        BY <1>0, UserSetsFinite, FS_CardinalityType
      <3> QED BY <1>0, <2>1, <3>1, UserSetsFinite, FS_CardinalityType DEF Posts
    <2>3. PICK n \in Int : n = benCount["mutex"]
      BY <1>0
    <2>4. MutexNum(h, w, p, u, n)
      BY <1>2, <2>1, <2>3 DEF UserInv, MutexCounted, MutexNum
    <2>5. h <= 1 /\ w - p = IF n + u < 0 THEN -(n + u) ELSE 0
      BY <2>2, <2>3, <2>4 DEF MutexNum
    <2>6. Cardinality(Undoers("cond")) = 0
      <3>1. Undoers("cond") = {}
        <4> SUFFICES ASSUME NEW x \in User, on[x] = "cond", uat[x] = "undo" PROVE FALSE
          BY DEF Undoers
        <4>1. x \notin Locker
          BY OutOfMutex
        <4>2. x \in Signaller
          BY <4>1 DEF User
        <4>3. UserPlaces
          BY DEF UserInv
        <4>4. uat[x] \in SignallerAt
          BY <4>2, <4>3 DEF UserPlaces
        <4> QED BY <4>4 DEF SignallerAt
      <3> QED BY <3>1, FS_EmptySet
    <2>7. Cardinality(Waiters("cond")) - Posts("cond") = IF benCount["cond"] < 0 THEN -benCount["cond"] ELSE 0
      BY <1>2 DEF UserInv, CondCounted
    <2>8. benCount["cond"] + Cardinality(Undoers("cond")) = benCount["cond"]
      BY <1>0, <2>6
    <2>9. Cardinality(Holders) <= 1
      BY <2>1, <2>5
    <2>10. ASSUME NEW b \in Ben
           PROVE  Cardinality(Waiters(b)) - Posts(b)
                    = IF benCount[b] + Cardinality(Undoers(b)) < 0
                      THEN -(benCount[b] + Cardinality(Undoers(b))) ELSE 0
      <3>1. CASE b = "mutex"
        BY <2>1, <2>3, <2>5, <3>1
      <3>2. CASE b = "cond"
        BY <2>7, <2>8, <3>2
      <3> QED BY <1>0, <3>1, <3>2
    <2> QED BY <2>9, <2>10 DEF BenSound
  <1>3. BenSound
    <2>1. CASE stray
      BY <2>1 DEF BenSound
    <2> QED BY <1>2, <2>1
  <1> QED BY <1>1, <1>3 DEF UserSyncSound

(* The counter of a benaphore and the kernel semaphore behind it account   *)
(* for everyone inside and waiting, and no call meets a semaphore that has *)
(* been destroyed, for any number of threads (pthread.h Benaphore,         *)
(* pthread.cc, syscalls.cc semP, semV, semDestroy).                        *)
THEOREM UserSyncAccounted == UserSpec => []UserSyncSound
  <1>1. UserInit => UserInv
    BY UserInvInit
  <1>2. UserInv /\ [UserNext]_userVars => UserInv'
    BY UserInvStep
  <1>3. UserInv => UserSyncSound
    BY UserAccounts
  <1> QED BY <1>1, <1>2, <1>3, PTL DEF UserSpec
=============================================================================
