---------------------------- MODULE ProcessProofs ----------------------------
(***************************************************************************)
(* Proofs about Process: every step of a process's threads is a step of    *)
(* the blocking core, a join gets the result of the thread it names through *)
(* a stack frame that is still alive, and the process goes with its last   *)
(* thread and not before, for any number of threads and joins.             *)
(***************************************************************************)
EXTENDS Process, BlockingSyncProofs, FiniteSetTheorems

-----------------------------------------------------------------------------
(* Each thread has a join queue of its own; all share threadLock.          *)
LEMMA JoinQueues ==
  /\ ThreadLock \in Lock /\ ThreadLock # TimeoutLock /\ ThreadLock \in Lock \cup {TimeoutLock}
  /\ Clock \notin Thread /\ Nobody \notin Thread /\ Nobody # Clock
  /\ \A u \in Thread : /\ JoinQueue[u] \in Queue /\ JoinQueue[u] # NoQueue
                       /\ LockOf[JoinQueue[u]] = ThreadLock
  /\ \A u, w \in Thread : JoinQueue[u] = JoinQueue[w] => u = w
  BY ConstantsAssumption, ProcessAssumption

(* Whatever the code of a process does, the blocking core sees one of the  *)
(* steps it allows its clients; a signal always finds its waiter, so its   *)
(* lock is released already.                                               *)
LEMMA StepOfCore ==
  ASSUME ProcInv, [ProcNext]_allVars
  PROVE  [Next]_vars
  <1> USE JoinQueues
  <1>0. ProcTypeOK /\ \A t \in Thread : PlaceAt(t)
    BY DEF ProcInv
  <1>1. CASE UNCHANGED allVars
    BY <1>1 DEF allVars
  <1>2. ASSUME NEW t \in Thread, CoreStep(t) PROVE Step(t)
    BY <1>2 DEF CoreStep
  <1>3. ASSUME NEW t \in Thread, call[t] = "join" PROVE target[t] \in Thread
    BY <1>0, <1>3 DEF PlaceAt
  <1>4. ASSUME NEW t \in Thread, ThreadStep(t) PROVE Client(t) \/ Step(t) \/ UNCHANGED vars
    <2>1. CASE ResumeNew(t) \/ Joined(t) \/ Posted(t) \/ LeaveTable(t)
      BY <2>1 DEF ResumeNew, Joined, Posted, LeaveTable
    <2>2. CASE JoinRefused(t) \/ PostNot(t) \/ ExitCancelled(t)
      BY <2>2 DEF JoinRefused, PostNot, ExitCancelled, Client
    <2>3. CASE JoinWait(t)
      BY <1>3, <2>3 DEF JoinWait, Client
    <2>4. CASE JoinTake(t)
      BY <1>3, <2>4 DEF JoinTake, Client
    <2>5. CASE PostWait(t)
      BY <2>5 DEF PostWait, Client
    <2>6. CASE PostGive(t)
      BY <2>6 DEF PostGive, Client
    <2>7. CASE Signalled(t)
      <3>1. result[t]
        BY <1>0, <2>7 DEF Signalled, PlaceAt
      <3> QED BY <2>7, <3>1 DEF Signalled, vars
    <2>8. CASE \E v \in Thread : ExitCancel(t, v)
      BY <2>8 DEF ExitCancel, Client
    <2>9. CASE Die(t)
      BY <2>9 DEF Die, Client
    <2>10. CASE Destroy(t)
      BY <2>10 DEF Destroy, Step
    <2> QED
      BY <1>4, <2>1, <2>2, <2>3, <2>4, <2>5, <2>6, <2>7, <2>8, <2>9, <2>10 DEF ThreadStep
  <1>5. ASSUME NEW t \in Thread, NEW u \in Thread, SetupThread(t, u) \/ JoinThread(t, u)
        PROVE  Client(t) \/ UNCHANGED vars
    BY <1>5 DEF SetupThread, JoinThread, Client
  <1>6. ASSUME NEW t \in Thread, ExitThread(t) \/ ExitProcess(t) PROVE Client(t)
    BY <1>6 DEF ExitThread, ExitProcess, Client
  <1> QED
    BY <1>1, <1>2, <1>4, <1>5, <1>6 DEF ProcNext, Next

-----------------------------------------------------------------------------
(***************************************************************************)
(* The steps of the blocking core, as the process's threads take them.     *)
(***************************************************************************)
Alone(t) ==
  \A u \in Thread : u # t =>
    /\ pc'[u] = pc[u] /\ info'[u] = info[u] /\ scan'[u] = scan[u] /\ cause'[u] = cause[u]
    /\ victim'[u] = victim[u] /\ result'[u] = result[u]

(* The thread goes on; locks, queues and what is published stay.           *)
GoesOn(t) ==
  /\ UNCHANGED <<lock, queue, unblockInfo>>
  /\ \/ pc[t] = "check" /\ pc'[t] = "store"
     \/ pc[t] = "off" /\ pc'[t] = "on" /\ ~ unblockInfo[t]
     \/ pc[t] = "on" /\ pc'[t] = "run" /\ state[t] # "Cancelled"
     \/ pc[t] = "erase" /\ call[t] = "exit" /\ pc'[t] = "remove" /\ victim'[t] = victim[t]
     \/ pc[t] = "erase" /\ call[t] # "exit" /\ pc'[t] = "wake"
     \/ pc[t] = "wake" /\ pc'[t] = "run"
     \/ pc[t] = "claim" /\ pc'[t] = "run"
     \/ ~ Busy(t) /\ call[t] \notin {"unborn", "fresh"} /\ pc[t] # "gone" /\ pc'[t] = "exit"

(* It gives threadLock up: the wait is refused, or the thread is off.      *)
Yields(t) ==
  /\ UNCHANGED <<queue, unblockInfo>> /\ lock[ThreadLock] = t /\ lock'[ThreadLock] = Nobody
  /\ \/ pc[t] = "check" /\ pc'[t] = "run" /\ state[t] = "Cancelled"
     \/ pc[t] = "switch" /\ pc'[t] = "off"

(* It publishes its UnblockInfo and links itself.                          *)
Links(t) ==
  /\ pc[t] = "store" /\ pc'[t] = "switch" /\ UNCHANGED <<lock, info>>
  /\ queue' = [queue EXCEPT ![PeerQueue(t)] = <<t>>]
  /\ unblockInfo' = [unblockInfo EXCEPT ![t] = TRUE]

(* It claims and unlinks the waiter it is looking for.                     *)
Takes(t, v) ==
  /\ pc[t] = "scan" /\ pc'[t] = "erase" /\ call[t] # "exit"
  /\ lock[ThreadLock] = t /\ lock'[ThreadLock] = Nobody
  /\ v \in ToSet(queue[PeerQueue(t)]) /\ unblockInfo[v]
  /\ unblockInfo' = [unblockInfo EXCEPT ![v] = FALSE]
  /\ \A q \in Queue : ToSet(queue'[q]) \subseteq ToSet(queue[q]) \ {v}

(* It claims the victim of a cancellation.                                 *)
Claimed(t) ==
  /\ pc[t] = "claim" /\ pc'[t] = "erase" /\ UNCHANGED <<lock, queue>>
  /\ victim'[t] = victim[t] /\ victim[t] \in Thread
  /\ unblockInfo' = [unblockInfo EXCEPT ![victim[t]] = FALSE]

(* A waiter that is claimed waits in a join queue for a call of its own.   *)
LEMMA VictimFacts ==
  ASSUME Inv, ProcInv, NEW t \in Thread
  PROVE  /\ pc[t] \in {"claim", "erase", "remove", "wake"} => victim[t] \in Thread
         /\ pc[t] \in {"erase", "remove", "wake"} => info[victim[t]].q # NoQueue
         /\ pc[t] \in {"check", "store", "switch", "off", "on", "scan"} => Peer(t) \in Thread
  <1> USE JoinQueues
  <1>0. \A u \in Thread : PlaceAt(u)
    BY DEF ProcInv
  <1>1. ASSUME NEW u \in Thread, pc[u] \in {"check", "store", "switch", "off", "on", "scan"}
        PROVE  Peer(u) \in Thread
    BY <1>0, <1>1 DEF PlaceAt, Peer
  <1>2. pc[t] \in {"claim", "erase", "remove", "wake"} => victim[t] \in Thread
    BY DEF Inv, ClaimsInv, Actor
  <1>3. ASSUME pc[t] \in {"erase", "remove", "wake"} PROVE info[victim[t]].q # NoQueue
    <2>1. victim[t] \in Thread /\ pc[victim[t]] \in {"switch", "off"}
      BY <1>2, <1>3 DEF Inv, ClaimsInv, Claims, Unblocking, Waiting, Actor
    <2> QED BY <1>0, <1>1, <2>1 DEF PlaceAt, PeerQueue
  <1> QED BY <1>1, <1>2, <1>3

(* Whoever holds threadLock and is not cancelling finds that the waiter of *)
(* a join queue can be claimed.                                            *)
LEMMA HeadFacts ==
  ASSUME Inv, ProcInv, NEW t \in Thread, Busy(t), pc[t] \in {"run", "scan"},
         NEW u \in Thread, Waiters(u) # <<>>
  PROVE  \E w \in Thread :
           /\ w = Waiters(u)[1] /\ w \in ToSet(Waiters(u)) /\ 1 <= Len(Waiters(u))
           /\ unblockInfo[w] /\ resultPtr[u] = w /\ w # t
           /\ pc[w] \in {"switch", "off"} /\ info[w].q = JoinQueue[u]
  <1> USE JoinQueues
  <1>1. Waiters(u) \in Seq(Thread)
    BY DEF Inv, TypeOK, Waiters
  <1>2. PICK w : w = Waiters(u)[1]
    OBVIOUS
  <1>3. w \in Thread /\ w \in ToSet(Waiters(u)) /\ 1 <= Len(Waiters(u))
    BY <1>1, <1>2 DEF ToSet
  <1>4. pc[w] \in {"switch", "off"} /\ info[w].q = JoinQueue[u]
    BY <1>3 DEF Inv, ListsInv, Waiters
  <1>5. resultPtr[u] = w /\ (unblockInfo[w] \/ \E a \in Thread : CancelledBy(a, w))
    BY <1>3 DEF ProcInv, WaitersInv
  <1>6. ASSUME NEW a \in Thread, CancelledBy(a, w) PROVE FALSE
    <2>1. Busy(a)
      BY <1>6 DEF CancelledBy, Busy
    <2>2. a = t
      BY <2>1 DEF ProcInv, LockInv
    <2> QED BY <1>6, <2>2 DEF CancelledBy
  <1>7. w # t
    BY <1>4
  <1> QED BY <1>2, <1>3, <1>4, <1>5, <1>6, <1>7

(* A step of the blocking core moves one thread, in one of five ways.      *)
LEMMA CoreMoves ==
  ASSUME Inv, ProcInv, NEW t \in Thread, CoreStep(t)
  PROVE  /\ UNCHANGED pvars /\ Alone(t)
         /\ \A u \in Thread : u # t => state'[u] = state[u]
         /\ state'[t] \in {state[t], "Finishing"}
         /\ GoesOn(t) \/ Yields(t) \/ Links(t) \/ Claimed(t) \/ \E v \in Thread : Takes(t, v)
  <1> USE JoinQueues
  <1>0. /\ TypeOK /\ PlaceAt(t) /\ (lock[ThreadLock] = t <=> Busy(t))
        /\ call[t] \notin {"unborn", "fresh"} /\ pc[t] # "exit" /\ Step(t) /\ UNCHANGED pvars
    BY DEF Inv, ProcInv, LockInv, CoreStep
  <1>1. \A a \in Thread : a \in Actor
    BY DEF Actor
  <1>2. HoldsNone(t) => ~ Busy(t)
    BY <1>0 DEF HoldsNone, TypeOK
  <1>u. pc[t] \in {"check", "switch"} => Unlocked(WaitLocks(t))[ThreadLock] = Nobody
    <2>1. ASSUME pc[t] \in {"check", "switch"} PROVE info[t].q # NoQueue /\ LockOf[info[t].q] = ThreadLock
      BY <1>0, <2>1, VictimFacts DEF PlaceAt, PeerQueue
    <2> QED BY <1>0, <2>1 DEF Unlocked, WaitLocks, TypeOK
  <1>3. CASE TakeTimeoutLock(t)
    BY <1>0, <1>3 DEF TakeTimeoutLock, PlaceAt
  <1>4. CASE BlockRefuse(t)
    BY <1>0, <1>1, <1>4, <1>u DEF BlockRefuse, Goto, TypeOK, unblockVars, Alone, Yields, Busy
  <1>5. CASE BlockCheck(t)
    BY <1>0, <1>1, <1>5 DEF BlockCheck, Goto, TypeOK, unblockVars, waitVars, Alone, GoesOn
  <1>6. CASE BlockStore(t)
    <2>1. pc[t] = "store" /\ info[t].q = PeerQueue(t) /\ PeerQueue(t) \in Queue /\ PeerQueue(t) # NoQueue
      BY <1>0, <1>6, VictimFacts DEF BlockStore, PlaceAt, PeerQueue
    <2>2. queue[PeerQueue(t)] = <<>>
      BY <2>1 DEF ProcInv, WaitersInv
    <2>3. Append(<<>>, t) = <<t>>
      OBVIOUS
    <2>4. queue' = [queue EXCEPT ![PeerQueue(t)] = <<t>>]
      BY <1>6, <2>1, <2>2, <2>3 DEF BlockStore
    <2>5. Links(t)
      BY <1>0, <1>1, <1>6, <2>1, <2>4 DEF BlockStore, Goto, TypeOK, Links
    <2> QED BY <1>0, <1>1, <1>6, <2>5 DEF BlockStore, Goto, TypeOK, unblockVars, Alone
  <1>7. CASE SwitchOut(t)
    BY <1>0, <1>1, <1>7, <1>u DEF SwitchOut, Goto, TypeOK, unblockVars, waitVars, Alone, Yields, Busy
  <1>8. CASE Dispatch(t)
    <2>1. ~ unblockInfo[t]
      BY <1>0, <1>8 DEF Dispatch, Inv, ClaimsInv, Waiting, TypeOK
    <2> QED BY <1>0, <1>1, <1>8, <2>1 DEF Dispatch, Goto, TypeOK, unblockVars, waitVars, Alone, GoesOn
  <1>9. CASE SwitchIn(t)
    BY <1>0, <1>1, <1>9 DEF SwitchIn, Goto, TypeOK, unblockVars, Alone, GoesOn
  <1>10. CASE SwitchInCancelled(t)
    BY <1>0, <1>1, <1>10 DEF SwitchInCancelled, Goto, TypeOK, unblockVars, waitVars, Alone, GoesOn, Busy
  <1>s. ASSUME pc[t] = "scan"
        PROVE  /\ scan[t].q = PeerQueue(t) /\ scan[t].i = 1 /\ PeerQueue(t) \in Queue
               /\ LockOf[PeerQueue(t)] = ThreadLock /\ Busy(t) /\ call[t] # "exit"
               /\ \E w \in Thread : /\ w = queue[PeerQueue(t)][1] /\ w \in ToSet(queue[PeerQueue(t)])
                                    /\ 1 <= Len(queue[PeerQueue(t)]) /\ unblockInfo[w]
    <2>1. /\ scan[t].q = PeerQueue(t) /\ scan[t].i = 1 /\ Busy(t) /\ call[t] # "exit"
          /\ queue[PeerQueue(t)] # <<>> /\ Peer(t) \in Thread
      BY <1>0, <1>s, VictimFacts DEF PlaceAt, Busy, ProcInv, WaitersInv
    <2> QED BY <1>s, <2>1, HeadFacts DEF Waiters, PeerQueue
  <1>11. CASE ScanSkip(t)
    BY <1>s, <1>11 DEF ScanSkip
  <1>12. CASE ScanEnd(t)
    <2>1. PICK n : n = Len(queue[PeerQueue(t)])
      OBVIOUS
    <2>2. n \in Nat
      BY <1>0, <1>s, <1>12, <2>1 DEF ScanEnd, TypeOK
    <2> QED BY <1>s, <1>12, <2>1, <2>2 DEF ScanEnd
  <1>13. CASE ScanClaim(t)
    <2>1. PICK w \in Thread : /\ w = queue[PeerQueue(t)][1] /\ w \in ToSet(queue[PeerQueue(t)])
                              /\ unblockInfo[w]
      BY <1>s, <1>13 DEF ScanClaim
    <2>2. /\ pc[t] = "scan" /\ scan[t].q = PeerQueue(t) /\ scan[t].i = 1 /\ PeerQueue(t) \in Queue
          /\ LockOf[PeerQueue(t)] = ThreadLock /\ Busy(t) /\ call[t] # "exit"
      BY <1>s, <1>13 DEF ScanClaim
    <2>3. /\ unblockInfo' = [unblockInfo EXCEPT ![w] = FALSE]
          /\ queue' = [queue EXCEPT ![PeerQueue(t)] = Unlink(@, w)]
          /\ lock' = [lock EXCEPT ![ThreadLock] = Nobody]
          /\ pc' = [pc EXCEPT ![t] = "erase"]
      BY <1>13, <2>1, <2>2 DEF ScanClaim, Goto
    <2>4. ToSet(Unlink(queue[PeerQueue(t)], w)) \subseteq ToSet(queue[PeerQueue(t)]) \ {w}
      <3>1. queue[PeerQueue(t)] \in Seq(Thread) /\ IsInjective(queue[PeerQueue(t)])
        BY <1>0, <2>2 DEF TypeOK, Inv, ListsInv
      <3> QED BY <3>1, UnlinkList
    <2>5. \A q \in Queue : ToSet(queue'[q]) \subseteq ToSet(queue[q]) \ {w}
      <3>1. \A q \in Queue : q # PeerQueue(t) => w \notin ToSet(queue[q])
        BY <2>1, <2>2 DEF Inv, ListsInv
      <3> QED BY <1>0, <2>2, <2>3, <2>4, <3>1 DEF TypeOK
    <2>6. Takes(t, w)
      BY <1>0, <1>1, <2>1, <2>2, <2>3, <2>5 DEF Takes, TypeOK
    <2>7. Alone(t)
      BY <1>0, <1>1, <1>13, <2>3 DEF ScanClaim, TypeOK, Alone
    <2> QED BY <1>0, <1>13, <2>6, <2>7 DEF ScanClaim
  <1>14. CASE CancelTimeout(t)
    BY <1>0, <1>1, <1>14 DEF CancelTimeout, Goto, TypeOK, unblockVars, Alone, GoesOn, PlaceAt
  <1>15. CASE CancelEvent(t)
    <2>1. victim[t] \in Thread /\ pc[victim[t]] \in {"switch", "off"}
      BY <1>1, <1>15 DEF CancelEvent, Inv, ClaimsInv, Claims, Unblocking, Waiting
    <2>2. info[victim[t]].q = PeerQueue(victim[t]) /\ Peer(victim[t]) \in Thread
      BY <2>1, VictimFacts DEF ProcInv, PlaceAt
    <2>3. LockOf[info[victim[t]].q] = ThreadLock
      BY <2>2 DEF PeerQueue
    <2>4. lock[ThreadLock] = t
      BY <1>0, <1>15 DEF CancelEvent, Busy
    <2> QED BY <1>15, <2>3, <2>4 DEF CancelEvent
  <1>16. CASE CancelNoEvent(t)
    BY <1>16, VictimFacts DEF CancelNoEvent
  <1>17. CASE Wake(t)
    BY <1>0, <1>1, <1>17 DEF Wake, Goto, TypeOK, waitVars, Alone, GoesOn
  <1>18. CASE CancelClaim(t)
    BY <1>0, <1>1, <1>18, VictimFacts DEF CancelClaim, Goto, TypeOK, unblockVars, Alone, Claimed
  <1>19. CASE CancelMiss(t)
    BY <1>0, <1>1, <1>19 DEF CancelMiss, Goto, TypeOK, waitVars, Alone, GoesOn
  <1>20. CASE Preempt(t)
    BY <1>0, <1>1, <1>2, <1>20 DEF Preempt, Goto, TypeOK, waitVars, unblockVars, Alone, GoesOn
  <1>21. CASE Exit(t)
    BY <1>0, <1>21 DEF Exit
  <1> QED
    BY <1>0, <1>3, <1>4, <1>5, <1>6, <1>7, <1>8, <1>9, <1>10, <1>11, <1>12, <1>13, <1>14, <1>15,
       <1>16, <1>17, <1>18, <1>19, <1>20, <1>21 DEF Step

-----------------------------------------------------------------------------
(***************************************************************************)
(* The steps of the process's own code.                                    *)
(***************************************************************************)
Others(t) == \A u \in Thread : u # t => call'[u] = call[u] /\ target'[u] = target[u]
Ages == \A u \in Thread : state'[u] = "Running" => state[u] = "Running"

(* A call begins with threadLock, or ends and gives it up.                 *)
Begins(t) ==
  /\ UNCHANGED <<pc, info, queue, unblockInfo, joinVars>> /\ pc[t] = "run" /\ call[t] = "none"
  /\ lock[ThreadLock] = Nobody /\ lock'[ThreadLock] = t
  /\ \/ call'[t] = "join" /\ target'[t] \in Thread \ {t}
     \/ call'[t] \in {"exitThread", "exit"}
Ends(t) ==
  /\ UNCHANGED <<pc, info, queue, unblockInfo, joinVars, target>> /\ pc[t] = "run"
  /\ lock[ThreadLock] = t /\ lock'[ThreadLock] = Nobody
  /\ \/ call[t] = "join" /\ call'[t] = "none"
     \/ call[t] = "exitThread" /\ call'[t] = "die"
     \/ call[t] = "exit" /\ call'[t] = "exited"

(* A wait or a signal is over; or the thread ends.                         *)
Returns(t) ==
  /\ UNCHANGED <<pc, info, lock, queue, unblockInfo, joinVars, target>> /\ pc[t] = "run"
  /\ \/ call[t] \in {"joining", "signal"} /\ call'[t] = "none"
     \/ call[t] \in {"posting", "posted"} /\ call'[t] = "die"
Stops(t) ==
  /\ UNCHANGED <<info, lock, queue, unblockInfo, joinVars, call, target>>
  /\ \/ pc[t] = "run" /\ call[t] \in {"die", "exited"} /\ pc'[t] = "exit"
     \/ pc[t] = "exit" /\ pc'[t] \in {"exit", "gone", "leaked"}

(* Process::exit goes to the next thread.                                  *)
Cancels(t) ==
  /\ UNCHANGED <<info, lock, queue, unblockInfo, joinVars, call, target>>
  /\ pc[t] = "run" /\ call[t] = "exit" /\ pc'[t] = "claim"
  /\ victim'[t] \in Thread /\ state'[victim'[t]] # "Running"

(* A joining or an exiting thread waits for the other ...                  *)
Waits(t) ==
  /\ UNCHANGED <<lock, queue, unblockInfo, got, target>>
  /\ pc[t] = "run" /\ pc'[t] = "check" /\ lock[ThreadLock] = t
  /\ \/ call[t] = "join" /\ call'[t] = "joining" /\ ~ joining[target[t]]
        /\ joining' = [joining EXCEPT ![target[t]] = TRUE]
     \/ call[t] = "exitThread" /\ call'[t] = "posting" /\ joining' = joining
  /\ info'[t].q = PeerQueue(t)' /\ ~ info'[t].timed /\ Peer(t)' \in Thread
  /\ queue[PeerQueue(t)'] = <<>>
  /\ resultPtr' = [resultPtr EXCEPT ![Peer(t)'] = t]

(* ... or finds it waiting.                                                *)
Signals(t) ==
  /\ UNCHANGED <<info, lock, queue, unblockInfo, resultPtr, target>>
  /\ pc[t] = "run" /\ pc'[t] = "scan" /\ lock[ThreadLock] = t
  /\ \/ call[t] = "join" /\ call'[t] = "signal" /\ ~ joining[target[t]]
        /\ joining' = [joining EXCEPT ![target[t]] = TRUE]
        /\ got' = [got EXCEPT ![t] = resultPtr[target[t]]]
     \/ call[t] = "exitThread" /\ call'[t] = "posted" /\ joining' = joining
        /\ got' = [got EXCEPT ![resultPtr[t]] = t]
  /\ scan'[t].q = PeerQueue(t)' /\ scan'[t].i = 1 /\ Peer(t)' \in Thread
  /\ queue[PeerQueue(t)'] # <<>>

Own(t) ==
  Begins(t) \/ Ends(t) \/ Returns(t) \/ Stops(t) \/ Cancels(t) \/ Waits(t) \/ Signals(t)

LEMMA OwnMoves ==
  ASSUME Inv, ProcInv, NEW t \in Thread,
         \/ ThreadStep(t) /\ ~ ResumeNew(t)
         \/ ExitThread(t) \/ ExitProcess(t)
         \/ \E u \in Thread : JoinThread(t, u)
  PROVE  Own(t) /\ Alone(t) /\ Others(t) /\ Ages
  <1> USE JoinQueues
  <1>0. /\ TypeOK /\ ProcTypeOK /\ PlaceAt(t) /\ (lock[ThreadLock] = t <=> Busy(t))
    BY DEF Inv, ProcInv, LockInv
  <1>1. \A a \in Thread : a \in Actor
    BY DEF Actor
  <1>2. CASE ExitThread(t) \/ ExitProcess(t) \/ \E u \in Thread : JoinThread(t, u)
    <2>1. UNCHANGED <<pc, state, result, waitVars, unblockVars, joinVars>> /\ pc[t] = "run"
      BY <1>2 DEF ExitThread, ExitProcess, JoinThread, Acquire
    <2>2. Begins(t) /\ Others(t)
      <3>1. CASE \E u \in Thread : JoinThread(t, u)
        BY <1>0, <2>1, <3>1 DEF JoinThread, Acquire, Become, waitVars, ProcTypeOK, TypeOK, Begins, Others
      <3>2. CASE ExitThread(t)
        BY <1>0, <2>1, <3>2 DEF ExitThread, Acquire, Become, waitVars, ProcTypeOK, TypeOK, Begins, Others
      <3>3. CASE ExitProcess(t)
        BY <1>0, <2>1, <3>3 DEF ExitProcess, Acquire, Become, waitVars, ProcTypeOK, TypeOK, Begins, Others
      <3> QED BY <1>2, <3>1, <3>2, <3>3
    <2> QED BY <2>1, <2>2 DEF Own, Alone, Ages, waitVars, unblockVars
  <1>3. CASE JoinRefused(t) \/ PostNot(t) \/ ExitCancelled(t)
    <2>1. UNCHANGED <<pc, state, result, waitVars, unblockVars, joinVars, target>> /\ pc[t] = "run"
      BY <1>3 DEF JoinRefused, PostNot, ExitCancelled, Release
    <2>2. lock[ThreadLock] = t /\ lock'[ThreadLock] = Nobody
      BY <1>0, <1>3 DEF JoinRefused, PostNot, ExitCancelled, Release, Holds, TypeOK
    <2>3. /\ \A u \in Thread : u # t => call'[u] = call[u]
          /\ \/ call[t] = "join" /\ call'[t] = "none"
             \/ call[t] = "exitThread" /\ call'[t] = "die"
             \/ call[t] = "exit" /\ call'[t] = "exited"
      BY <1>0, <1>3 DEF JoinRefused, PostNot, ExitCancelled, Become, ProcTypeOK
    <2> QED BY <2>1, <2>2, <2>3 DEF Ends, Own, Alone, Others, Ages, waitVars, unblockVars
  <1>4. CASE Joined(t) \/ Posted(t) \/ Signalled(t)
    <2>1. UNCHANGED <<pc, state, result, waitVars, unblockVars, joinVars, target>> /\ pc[t] = "run"
      BY <1>4 DEF Joined, Posted, Signalled, vars
    <2>2. lock' = lock
      <3>1. Signalled(t) => result[t]
        BY <1>0 DEF Signalled, PlaceAt
      <3> QED BY <1>4, <3>1 DEF Joined, Posted, Signalled, vars
    <2>3. /\ \A u \in Thread : u # t => call'[u] = call[u]
          /\ \/ call[t] \in {"joining", "signal"} /\ call'[t] = "none"
             \/ call[t] \in {"posting", "posted"} /\ call'[t] = "die"
      BY <1>0, <1>4 DEF Joined, Posted, Signalled, AfterSignal, Become, ProcTypeOK
    <2> QED BY <2>1, <2>2, <2>3 DEF Returns, Own, Alone, Others, Ages, waitVars, unblockVars
  <1>5. CASE Die(t)
    BY <1>0, <1>1, <1>5 DEF Die, Terminate, Goto, TypeOK, waitVars, unblockVars, pvars, callVars, joinVars, Stops, Own, Alone, Others, Ages
  <1>6. CASE LeaveTable(t)
    BY <1>6 DEF LeaveTable, vars, waitVars, unblockVars, callVars, joinVars, Stops, Own, Alone, Others, Ages
  <1>7. CASE Destroy(t)
    BY <1>0, <1>1, <1>7 DEF Destroy, Exit, Goto, TypeOK, waitVars, unblockVars, callVars, joinVars, Stops, Own, Alone, Others, Ages
  <1>8. ASSUME NEW v \in Thread, ExitCancel(t, v) PROVE Own(t) /\ Alone(t) /\ Others(t) /\ Ages
    BY <1>0, <1>1, <1>8 DEF ExitCancel, Cancel, Goto, TypeOK, waitVars, joinVars, Cancels, Own, Alone, Others, Ages
  <1>9. CASE JoinWait(t)
    <2>1. /\ call[t] = "join" /\ ~ joining[target[t]] /\ Waiters(target[t]) = <<>> /\ pc[t] = "run"
          /\ joining' = [joining EXCEPT ![target[t]] = TRUE]
          /\ resultPtr' = [resultPtr EXCEPT ![target[t]] = t]
          /\ Block(t, JoinQueue[target[t]], FALSE) /\ Become(t, "joining") /\ UNCHANGED <<got, target>>
      BY <1>9 DEF JoinWait, Block
    <2>2. target[t] \in Thread
      BY <1>0, <2>1 DEF PlaceAt
    <2>3. call'[t] = "joining" /\ Others(t)
      BY <1>0, <2>1 DEF Become, ProcTypeOK, Others
    <2>4. Peer(t)' = target[t] /\ PeerQueue(t)' = JoinQueue[target[t]]
      BY <2>1, <2>3 DEF Peer, PeerQueue
    <2>5. Alone(t) /\ Ages /\ pc'[t] = "check" /\ UNCHANGED <<lock, queue, unblockInfo>>
      BY <1>0, <1>1, <2>1 DEF Block, Goto, TypeOK, unblockVars, Alone, Ages
    <2>6. info'[t].q = JoinQueue[target[t]] /\ ~ info'[t].timed
      BY <1>0, <2>1 DEF Block, TypeOK
    <2>7. lock[ThreadLock] = t
      BY <1>0, <2>1 DEF Busy
    <2>8. Waits(t)
      BY <2>1, <2>2, <2>3, <2>4, <2>5, <2>6, <2>7 DEF Waits, Waiters
    <2> QED BY <2>3, <2>5, <2>8 DEF Own
  <1>10. CASE PostWait(t)
    <2>1. /\ call[t] = "exitThread" /\ Waiters(t) = <<>> /\ pc[t] = "run"
          /\ resultPtr' = [resultPtr EXCEPT ![t] = t]
          /\ Block(t, JoinQueue[t], FALSE) /\ Become(t, "posting") /\ UNCHANGED <<joining, got, target>>
      BY <1>10 DEF PostWait, Block
    <2>3. call'[t] = "posting" /\ Others(t)
      BY <1>0, <2>1 DEF Become, ProcTypeOK, Others
    <2>4. Peer(t)' = t /\ PeerQueue(t)' = JoinQueue[t]
      BY <2>1, <2>3 DEF Peer, PeerQueue
    <2>5. Alone(t) /\ Ages /\ pc'[t] = "check" /\ UNCHANGED <<lock, queue, unblockInfo>>
      BY <1>0, <1>1, <2>1 DEF Block, Goto, TypeOK, unblockVars, Alone, Ages
    <2>6. info'[t].q = JoinQueue[t] /\ ~ info'[t].timed
      BY <1>0, <2>1 DEF Block, TypeOK
    <2>7. lock[ThreadLock] = t
      BY <1>0, <2>1 DEF Busy
    <2>8. Waits(t)
      BY <2>1, <2>3, <2>4, <2>5, <2>6, <2>7 DEF Waits, Waiters
    <2> QED BY <2>3, <2>5, <2>8 DEF Own
  <1>11. CASE JoinTake(t)
    <2>1. /\ call[t] = "join" /\ ~ joining[target[t]] /\ Waiters(target[t]) # <<>> /\ pc[t] = "run"
          /\ joining' = [joining EXCEPT ![target[t]] = TRUE]
          /\ got' = [got EXCEPT ![t] = resultPtr[target[t]]]
          /\ Resume(t, JoinQueue[target[t]]) /\ Become(t, "signal") /\ UNCHANGED <<resultPtr, target>>
      BY <1>11 DEF JoinTake, Resume
    <2>2. target[t] \in Thread
      BY <1>0, <2>1 DEF PlaceAt
    <2>3. call'[t] = "signal" /\ Others(t)
      BY <1>0, <2>1 DEF Become, ProcTypeOK, Others
    <2>4. Peer(t)' = target[t] /\ PeerQueue(t)' = JoinQueue[target[t]]
      BY <2>1, <2>3 DEF Peer, PeerQueue
    <2>5. Alone(t) /\ Ages /\ pc'[t] = "scan" /\ UNCHANGED <<info, lock, queue, unblockInfo>>
      BY <1>0, <1>1, <2>1 DEF Resume, Goto, TypeOK, waitVars, Alone, Ages
    <2>6. scan'[t].q = JoinQueue[target[t]] /\ scan'[t].i = 1
      BY <1>0, <2>1 DEF Resume, TypeOK
    <2>7. lock[ThreadLock] = t
      BY <1>0, <2>1 DEF Busy
    <2>8. Signals(t)
      BY <2>1, <2>2, <2>3, <2>4, <2>5, <2>6, <2>7 DEF Signals, Waiters
    <2> QED BY <2>3, <2>5, <2>8 DEF Own
  <1>12. CASE PostGive(t)
    <2>1. /\ call[t] = "exitThread" /\ Waiters(t) # <<>> /\ pc[t] = "run"
          /\ got' = [got EXCEPT ![resultPtr[t]] = t]
          /\ Resume(t, JoinQueue[t]) /\ Become(t, "posted") /\ UNCHANGED <<joining, resultPtr, target>>
      BY <1>12 DEF PostGive, Resume
    <2>3. call'[t] = "posted" /\ Others(t)
      BY <1>0, <2>1 DEF Become, ProcTypeOK, Others
    <2>4. Peer(t)' = t /\ PeerQueue(t)' = JoinQueue[t]
      BY <2>1, <2>3 DEF Peer, PeerQueue
    <2>5. Alone(t) /\ Ages /\ pc'[t] = "scan" /\ UNCHANGED <<info, lock, queue, unblockInfo>>
      BY <1>0, <1>1, <2>1 DEF Resume, Goto, TypeOK, waitVars, Alone, Ages
    <2>6. scan'[t].q = JoinQueue[t] /\ scan'[t].i = 1
      BY <1>0, <2>1 DEF Resume, TypeOK
    <2>7. lock[ThreadLock] = t
      BY <1>0, <2>1 DEF Busy
    <2>8. Signals(t)
      BY <2>1, <2>3, <2>4, <2>5, <2>6, <2>7 DEF Signals, Waiters
    <2> QED BY <2>3, <2>5, <2>8 DEF Own
  <1> QED
    BY <1>2, <1>3, <1>4, <1>5, <1>6, <1>7, <1>8, <1>9, <1>10, <1>11, <1>12 DEF ThreadStep

(* A thread is created: set up, and later resumed for the first time.      *)
Creates(t) ==
  /\ UNCHANGED <<vars, joinVars, deleted>> /\ pc[t] = "run"
  /\ \E u \in Thread :
       /\ u # t /\ call' = [call EXCEPT ![t] = call'[t], ![u] = call'[u]]
       /\ \/ /\ call[t] = "none" /\ call[u] = "unborn" /\ call'[t] = "created" /\ call'[u] = "fresh"
             /\ target' = [target EXCEPT ![t] = u] /\ threadStore' = threadStore \cup {u}
          \/ /\ call[t] = "created" /\ call[u] = "fresh" /\ call'[t] = "none" /\ call'[u] = "none"
             /\ u = target[t] /\ target' = target /\ threadStore' = threadStore

LEMMA CreateMoves ==
  ASSUME ProcInv, NEW t \in Thread, ResumeNew(t) \/ \E u \in Thread : SetupThread(t, u)
  PROVE  Creates(t)
  <1>0. ProcTypeOK /\ PlaceAt(t) /\ TableInv
    BY DEF ProcInv
  <1>1. CASE ResumeNew(t)
    <2>1. target[t] \in Thread /\ target[t] # t /\ call[target[t]] = "fresh"
      BY <1>0, <1>1 DEF ResumeNew, PlaceAt, TableInv
    <2> QED BY <1>0, <1>1, <2>1 DEF ResumeNew, Creates, tableVars, ProcTypeOK
  <1>2. ASSUME NEW u \in Thread, SetupThread(t, u) PROVE Creates(t)
    BY <1>0, <1>2 DEF SetupThread, Creates, ProcTypeOK
  <1> QED BY <1>1, <1>2

(* What a step of a process can be.                                        *)
LEMMA Moves ==
  ASSUME Inv, ProcInv, [ProcNext]_allVars
  PROVE  \/ UNCHANGED allVars
         \/ \E t \in Thread :
              \/ CoreStep(t)
              \/ Own(t) /\ Alone(t) /\ Others(t) /\ Ages
              \/ Creates(t)
  <1>1. ASSUME NEW t \in Thread,
               \/ ThreadStep(t) \/ ExitThread(t) \/ ExitProcess(t)
               \/ \E u \in Thread : SetupThread(t, u) \/ JoinThread(t, u)
        PROVE  (Own(t) /\ Alone(t) /\ Others(t) /\ Ages) \/ Creates(t)
    BY <1>1, OwnMoves, CreateMoves
  <1> QED BY <1>1 DEF ProcNext

-----------------------------------------------------------------------------
(* The initial states satisfy the invariant.                               *)
LEMMA ProcInvInit == ProcInit => ProcInv
  <1> SUFFICES ASSUME ProcInit PROVE ProcInv
    OBVIOUS
  <1> USE JoinQueues, ProcessAssumption
  <1>1. /\ \A t \in Thread : pc[t] = "run" /\ ~ info[t].timed /\ call[t] \in {"none", "unborn"} /\ t \in Actor
        /\ \A q \in Queue : queue[q] = <<>>
        /\ lock[ThreadLock] = Nobody
    BY DEF ProcInit, Init, NoWait, Actor
  <1>2. ProcTypeOK
    <2>1. call \in [Thread -> Stage] /\ joins \in [Thread -> 0 .. MaxJoins]
      BY DEF ProcInit, Stage
    <2>2. threadStore \in SUBSET Thread /\ toCancel \in [Thread -> SUBSET Thread] /\ joining \in [Thread -> BOOLEAN]
      BY DEF ProcInit
    <2>3. /\ resultPtr \in [Thread -> Thread \cup {Nobody}] /\ got \in [Thread -> Thread \cup {Nobody}]
          /\ target \in [Thread -> Thread \cup {Nobody}]
      BY DEF ProcInit
    <2>4. activeThreads \in Int /\ existingThreads \in Int
      BY DEF ProcInit
    <2>5. deleted \in BOOLEAN
      <3>1. deleted = FALSE
        BY DEF ProcInit
      <3> QED BY <3>1
    <2> QED BY <2>1, <2>2, <2>3, <2>4, <2>5 DEF ProcTypeOK
  <1>3. LockInv
    BY <1>1 DEF LockInv, Busy
  <1>4. WaitersInv
    <2>1. \A u \in Thread : Waiters(u) = <<>> /\ ToSet(Waiters(u)) = {}
      BY <1>1 DEF Waiters, ToSet
    <2> QED BY <1>1, <2>1 DEF WaitersInv
  <1>5. JoinInv /\ TableInv
    BY <1>1 DEF JoinInv, Joiner, TableInv, ProcInit
  <1>6. \A t \in Thread : PlaceAt(t)
    BY <1>1 DEF PlaceAt
  <1>7. CountsTrue
    <2>1. {t \in Thread : call[t] # "unborn" /\ pc[t] # "gone"} = {First}
      BY <1>1 DEF ProcInit
    <2>2. {t \in Thread : call[t] \notin {"unborn", "exitThread", "posting", "posted", "die"}} = {First}
      BY DEF ProcInit
    <2>3. Cardinality({First}) = 1
      BY FS_Singleton
    <2> QED BY <2>1, <2>2, <2>3 DEF CountsTrue, ProcInit
  <1> QED BY <1>2, <1>3, <1>4, <1>5, <1>6, <1>7 DEF ProcInv

-----------------------------------------------------------------------------
(***************************************************************************)
(* Where each thread is.                                                   *)
(***************************************************************************)
LEMMA PlaceKept ==
  ASSUME NEW u \in Thread, PlaceAt(u),
         pc'[u] = pc[u], info'[u] = info[u], scan'[u] = scan[u], cause'[u] = cause[u],
         victim'[u] = victim[u], result'[u] = result[u], call'[u] = call[u], target'[u] = target[u],
         pc[u] = "claim" => (state'[victim[u]] = "Running" => state[victim[u]] = "Running")
  PROVE  PlaceAt(u)'
  BY DEF PlaceAt, PeerQueue, Peer

LEMMA CorePlace ==
  ASSUME Inv, ProcInv, NEW t \in Thread, CoreStep(t)
  PROVE  PlaceAt(t)'
  <1> USE JoinQueues
  <1>0. /\ TypeOK /\ PlaceAt(t) /\ Step(t) /\ pc[t] # "exit" /\ UNCHANGED <<call, target>>
        /\ call[t] \notin {"unborn", "fresh"} /\ t \in Actor
    BY DEF Inv, ProcInv, CoreStep, Actor, pvars, callVars
  <1>1. PeerQueue(t)' = PeerQueue(t)
    BY <1>0 DEF PeerQueue, Peer
  <1>2. GoesOn(t) \/ Yields(t) \/ Links(t) \/ Claimed(t) \/ \E v \in Thread : Takes(t, v)
    BY CoreMoves
  <1>3. CASE BlockRefuse(t)
    BY <1>0, <1>1, <1>3 DEF BlockRefuse, Goto, TypeOK, unblockVars, PlaceAt, NoWait
  <1>4. CASE BlockCheck(t)
    BY <1>0, <1>1, <1>4 DEF BlockCheck, Goto, TypeOK, unblockVars, waitVars, PlaceAt
  <1>5. CASE BlockStore(t)
    BY <1>0, <1>1, <1>5 DEF BlockStore, Goto, TypeOK, unblockVars, PlaceAt
  <1>6. CASE SwitchOut(t)
    BY <1>0, <1>1, <1>6 DEF SwitchOut, Goto, TypeOK, unblockVars, waitVars, PlaceAt
  <1>7. CASE Dispatch(t)
    BY <1>0, <1>1, <1>7 DEF Dispatch, Goto, TypeOK, unblockVars, waitVars, PlaceAt
  <1>8. CASE SwitchIn(t)
    BY <1>0, <1>1, <1>8 DEF SwitchIn, Goto, TypeOK, unblockVars, PlaceAt, NoWait
  <1>9. CASE SwitchInCancelled(t)
    BY <1>0, <1>1, <1>9 DEF SwitchInCancelled, Goto, TypeOK, unblockVars, waitVars, PlaceAt
  <1>10. CASE ScanClaim(t)
    BY <1>0, <1>1, <1>10 DEF ScanClaim, Goto, TypeOK, PlaceAt
  <1>11. CASE CancelTimeout(t)
    BY <1>0, <1>1, <1>11 DEF CancelTimeout, Goto, TypeOK, unblockVars, PlaceAt
  <1>12. CASE Wake(t)
    BY <1>0, <1>1, <1>12 DEF Wake, Goto, TypeOK, waitVars, PlaceAt
  <1>13. CASE CancelClaim(t)
    <2>1. cause[t] = "cancel"
      BY <1>13 DEF CancelClaim, Inv, ProgressInv
    <2> QED BY <1>0, <1>1, <1>13, <2>1 DEF CancelClaim, Goto, TypeOK, unblockVars, PlaceAt
  <1>14. CASE CancelMiss(t)
    BY <1>0, <1>1, <1>14 DEF CancelMiss, Goto, TypeOK, waitVars, PlaceAt
  <1>15. CASE Preempt(t)
    BY <1>0, <1>1, <1>15 DEF Preempt, Goto, TypeOK, waitVars, unblockVars, PlaceAt
  <1>16. CASE TakeTimeoutLock(t) \/ ScanSkip(t) \/ ScanEnd(t) \/ CancelEvent(t) \/ CancelNoEvent(t) \/ Exit(t)
    <2>1. CASE TakeTimeoutLock(t) \/ Exit(t)
      BY <1>0, <2>1 DEF TakeTimeoutLock, Exit, PlaceAt
    <2>2. CASE ScanSkip(t)
      BY <1>0, <1>2, <2>2 DEF ScanSkip, GoesOn, Yields, Links, Claimed, Takes, Busy
    <2>3. CASE ScanEnd(t)
      BY <1>0, <1>2, <2>3 DEF ScanEnd, Goto, TypeOK, GoesOn, Yields, Links, Claimed, Takes, Busy
    <2>4. CASE CancelEvent(t) \/ CancelNoEvent(t)
      BY <1>0, <1>2, <2>4 DEF CancelEvent, CancelNoEvent, Goto, TypeOK, GoesOn, Yields, Links, Claimed, Takes, Busy
    <2> QED BY <1>16, <2>1, <2>2, <2>3, <2>4
  <1> QED
    BY <1>0, <1>3, <1>4, <1>5, <1>6, <1>7, <1>8, <1>9, <1>10, <1>11, <1>12, <1>13, <1>14, <1>15, <1>16 DEF Step

LEMMA OwnPlace ==
  ASSUME Inv, ProcInv, NEW t \in Thread, Own(t), ~ info'[t].timed
  PROVE  PlaceAt(t)'
  <1>0. PlaceAt(t)
    BY DEF ProcInv
  <1>1. CASE Begins(t)
    BY <1>0, <1>1 DEF Begins, PlaceAt
  <1>2. CASE Ends(t)
    BY <1>0, <1>2 DEF Ends, PlaceAt
  <1>3. CASE Returns(t)
    BY <1>0, <1>3 DEF Returns, PlaceAt
  <1>4. CASE Stops(t)
    BY <1>0, <1>4 DEF Stops, PlaceAt
  <1>5. CASE Cancels(t)
    BY <1>0, <1>5 DEF Cancels, PlaceAt
  <1>6. CASE Waits(t)
    BY <1>0, <1>6 DEF Waits, PlaceAt
  <1>7. CASE Signals(t)
    BY <1>0, <1>7 DEF Signals, PlaceAt
  <1> QED BY <1>1, <1>2, <1>3, <1>4, <1>5, <1>6, <1>7 DEF Own

LEMMA CreatePlace ==
  ASSUME Inv, ProcInv, NEW t \in Thread, Creates(t), NEW w \in Thread
  PROVE  PlaceAt(w)'
  <1>0. ProcTypeOK /\ PlaceAt(w) /\ PlaceAt(t)
    BY DEF ProcInv
  <1>1. UNCHANGED <<pc, info, scan, cause, victim, result, state>> /\ pc[t] = "run"
    BY DEF Creates, vars, waitVars, unblockVars
  <1>2. PICK u \in Thread :
          /\ u # t /\ call' = [call EXCEPT ![t] = call'[t], ![u] = call'[u]]
          /\ \/ /\ call[t] = "none" /\ call[u] = "unborn" /\ call'[t] = "created" /\ call'[u] = "fresh"
                /\ target' = [target EXCEPT ![t] = u]
             \/ /\ call[t] = "created" /\ call[u] = "fresh" /\ call'[t] = "none" /\ call'[u] = "none"
                /\ target' = target
    BY DEF Creates
  <1>3. pc[u] = "run" /\ PlaceAt(u)
    BY <1>2 DEF ProcInv, PlaceAt
  <1>4. CASE w = t
    BY <1>0, <1>1, <1>2, <1>4 DEF PlaceAt, ProcTypeOK
  <1>5. CASE w = u
    BY <1>1, <1>2, <1>3, <1>5 DEF PlaceAt
  <1>6. CASE w # t /\ w # u
    <2>1. call'[w] = call[w] /\ target'[w] = target[w]
      BY <1>0, <1>2, <1>6 DEF ProcTypeOK
    <2> QED BY <1>0, <1>1, <2>1, PlaceKept
  <1> QED BY <1>4, <1>5, <1>6

LEMMA PlaceStep ==
  ASSUME Inv, ProcInv, [ProcNext]_allVars
  PROVE  \A u \in Thread : PlaceAt(u)'
  <1>0. \A u \in Thread : PlaceAt(u) /\ (pc[u] = "claim" => victim[u] \in Thread)
    BY VictimFacts DEF ProcInv
  <1>1. CASE UNCHANGED allVars
    BY <1>0, <1>1, PlaceKept DEF allVars, vars, waitVars, unblockVars, pvars, callVars
  <1>2. ASSUME NEW t \in Thread, CoreStep(t) PROVE \A u \in Thread : PlaceAt(u)'
    <2>1. UNCHANGED <<call, target>> /\ Alone(t)
      BY <1>2, CoreMoves DEF pvars, callVars
    <2>2. Ages
      BY <1>2, CoreMoves DEF Ages
    <2>3. \A u \in Thread : u # t => PlaceAt(u)'
      BY <1>0, <2>1, <2>2, PlaceKept DEF Alone, Ages
    <2> QED BY <1>2, <2>3, CorePlace
  <1>3. ASSUME NEW t \in Thread, Own(t), Alone(t), Others(t), Ages PROVE \A u \in Thread : PlaceAt(u)'
    <2>1. ~ info'[t].timed
      BY <1>0, <1>3 DEF Own, Begins, Ends, Returns, Stops, Cancels, Waits, Signals, PlaceAt
    <2>2. \A u \in Thread : u # t => PlaceAt(u)'
      BY <1>0, <1>3, PlaceKept DEF Alone, Others, Ages
    <2> QED BY <1>3, <2>1, <2>2, OwnPlace
  <1>4. ASSUME NEW t \in Thread, Creates(t) PROVE \A u \in Thread : PlaceAt(u)'
    BY <1>4, CreatePlace
  <1> QED BY <1>1, <1>2, <1>3, <1>4, Moves

-----------------------------------------------------------------------------
(***************************************************************************)
(* Who holds threadLock.                                                   *)
(***************************************************************************)
LEMMA LockMoves ==
  ASSUME LockInv, NEW t \in Thread, \A u \in Thread : u # t => (Busy(u)' <=> Busy(u)),
         \/ lock'[ThreadLock] = lock[ThreadLock] /\ (Busy(t)' <=> Busy(t))
         \/ lock[ThreadLock] = Nobody /\ lock'[ThreadLock] = t /\ Busy(t)'
         \/ lock[ThreadLock] = t /\ lock'[ThreadLock] = Nobody /\ ~ Busy(t)'
  PROVE  LockInv'
  <1> USE JoinQueues
  <1>1. CASE lock'[ThreadLock] = lock[ThreadLock] /\ (Busy(t)' <=> Busy(t))
    BY <1>1 DEF LockInv
  <1>2. CASE lock[ThreadLock] = Nobody /\ lock'[ThreadLock] = t /\ Busy(t)'
    BY <1>2 DEF LockInv
  <1>3. CASE lock[ThreadLock] = t /\ lock'[ThreadLock] = Nobody /\ ~ Busy(t)'
    BY <1>3 DEF LockInv
  <1> QED BY <1>1, <1>2, <1>3

LEMMA LockStep ==
  ASSUME Inv, ProcInv, [ProcNext]_allVars
  PROVE  LockInv'
  <1> USE JoinQueues
  <1>0. LockInv /\ ProcTypeOK /\ \A u \in Thread : PlaceAt(u)
    BY DEF ProcInv
  <1>1. CASE UNCHANGED allVars
    BY <1>0, <1>1 DEF allVars, vars, pvars, callVars, LockInv, Busy
  <1>2. ASSUME NEW t \in Thread, CoreStep(t) PROVE LockInv'
    <2>1. UNCHANGED call /\ Alone(t)
      BY <1>2, CoreMoves DEF pvars, callVars
    <2>2. \A u \in Thread : u # t => (Busy(u)' <=> Busy(u))
      BY <2>1 DEF Alone, Busy
    <2>3. CASE GoesOn(t)
      <3>1. Busy(t)' <=> Busy(t)
        BY <1>0, <2>1, <2>3 DEF GoesOn, Busy, PlaceAt
      <3> QED BY <1>0, <2>2, <2>3, <3>1, LockMoves DEF GoesOn
    <2>4. CASE Yields(t)
      <3>1. ~ Busy(t)'
        BY <1>0, <2>1, <2>4 DEF Yields, Busy, PlaceAt
      <3> QED BY <1>0, <2>2, <2>4, <3>1, LockMoves DEF Yields
    <2>5. CASE Links(t)
      BY <1>0, <2>2, <2>5, LockMoves DEF Links, Busy
    <2>6. CASE Claimed(t)
      <3>1. Busy(t)' <=> Busy(t)
        BY <1>0, <2>1, <2>6 DEF Claimed, Busy, PlaceAt
      <3> QED BY <1>0, <2>2, <2>6, <3>1, LockMoves DEF Claimed
    <2>7. ASSUME NEW v \in Thread, Takes(t, v) PROVE LockInv'
      <3>1. ~ Busy(t)'
        BY <2>1, <2>7 DEF Takes, Busy
      <3> QED BY <1>0, <2>2, <2>7, <3>1, LockMoves DEF Takes
    <2> QED BY <1>2, <2>3, <2>4, <2>5, <2>6, <2>7, CoreMoves
  <1>3. ASSUME NEW t \in Thread, Own(t), Alone(t), Others(t) PROVE LockInv'
    <2>2. \A u \in Thread : u # t => (Busy(u)' <=> Busy(u))
      BY <1>3 DEF Alone, Others, Busy
    <2>3. CASE Begins(t)
      BY <1>0, <2>2, <2>3, LockMoves DEF Begins, Busy
    <2>4. CASE Ends(t)
      BY <1>0, <2>2, <2>4, LockMoves DEF Ends, Busy
    <2>5. CASE Returns(t)
      BY <1>0, <2>2, <2>5, LockMoves DEF Returns, Busy
    <2>6. CASE Stops(t)
      BY <1>0, <2>2, <2>6, LockMoves DEF Stops, Busy
    <2>7. CASE Cancels(t)
      BY <1>0, <2>2, <2>7, LockMoves DEF Cancels, Busy
    <2>8. CASE Waits(t)
      BY <1>0, <2>2, <2>8, LockMoves DEF Waits, Busy
    <2>9. CASE Signals(t)
      BY <1>0, <2>2, <2>9, LockMoves DEF Signals, Busy
    <2> QED BY <1>3, <2>3, <2>4, <2>5, <2>6, <2>7, <2>8, <2>9 DEF Own
  <1>4. ASSUME NEW t \in Thread, Creates(t) PROVE LockInv'
    <2>1. UNCHANGED <<pc, lock>>
      BY <1>4 DEF Creates, vars
    <2>2. \A w \in Thread : call'[w] = call[w] \/ {call[w], call'[w]} \subseteq {"none", "created", "fresh", "unborn"}
      BY <1>0, <1>4 DEF Creates, ProcTypeOK
    <2>3. \A w \in Thread : Busy(w)' <=> Busy(w)
      BY <2>1, <2>2 DEF Busy
    <2> QED BY <1>0, <2>1, <2>3 DEF LockInv
  <1> QED BY <1>1, <1>2, <1>3, <1>4, Moves

-----------------------------------------------------------------------------
(***************************************************************************)
(* The join queues.  Only the holder of threadLock links or unlinks.       *)
(***************************************************************************)
LEMMA WaitersKept ==
  ASSUME WaitersInv, UNCHANGED <<queue, resultPtr, unblockInfo>>,
         \A u \in Thread : pc'[u] \in {"check", "store"} => pc[u] \in {"check", "store"} /\ Peer(u)' = Peer(u),
         \A u \in Thread : pc'[u] = "scan" => pc[u] = "scan" /\ Peer(u)' = Peer(u),
         \A a, w \in Thread : CancelledBy(a, w) => CancelledBy(a, w)'
  PROVE  WaitersInv'
  <1>1. \A u \in Thread : Waiters(u)' = Waiters(u)
    BY DEF Waiters
  <1> QED BY <1>1 DEF WaitersInv, PeerQueue

(* While one thread holds threadLock no other is about to link itself,     *)
(* looks for a waiter or cancels one.                                      *)
LEMMA OneBusy ==
  ASSUME ProcInv, NEW t \in Thread, Busy(t), NEW u \in Thread, u # t
  PROVE  /\ pc[u] \notin {"check", "store", "switch", "scan", "claim", "remove"}
         /\ \A w \in Thread : ~ CancelledBy(u, w)
  BY DEF ProcInv, LockInv, Busy, CancelledBy

LEMMA CoreWaiters ==
  ASSUME Inv, ProcInv, NEW t \in Thread, CoreStep(t)
  PROVE  WaitersInv'
  <1> USE JoinQueues
  <1>0. WaitersInv /\ TypeOK /\ PlaceAt(t)
    BY DEF Inv, ProcInv
  <1>1. UNCHANGED <<call, target, resultPtr>> /\ Alone(t)
    BY CoreMoves DEF pvars, callVars, joinVars
  <1>2. /\ \A u \in Thread : Peer(u)' = Peer(u) /\ PeerQueue(u)' = PeerQueue(u)
        /\ \A u \in Thread : u # t => \A w \in Thread : CancelledBy(u, w)' <=> CancelledBy(u, w)
    BY <1>1 DEF Peer, PeerQueue, Alone, CancelledBy
  <1>3. CASE GoesOn(t)
    <2>1. \A w \in Thread : CancelledBy(t, w) => CancelledBy(t, w)'
      BY <1>1, <1>3 DEF GoesOn, CancelledBy, Busy
    <2> QED BY <1>0, <1>1, <1>2, <1>3, <2>1, WaitersKept DEF GoesOn, Alone
  <1>4. CASE Yields(t)
    <2>1. \A w \in Thread : ~ CancelledBy(t, w)
      BY <1>4 DEF Yields, CancelledBy
    <2> QED BY <1>0, <1>1, <1>2, <1>4, <2>1, WaitersKept DEF Yields, Alone
  <1>5. CASE Links(t)
    <2>1. Busy(t) /\ pc[t] = "store" /\ pc'[t] = "switch" /\ \A w \in Thread : ~ CancelledBy(t, w)
      BY <1>5 DEF Links, Busy, CancelledBy
    <2>2. \A u \in Thread : pc'[u] \notin {"check", "store", "scan"} /\ \A w \in Thread : ~ CancelledBy(u, w)
      BY <1>1, <2>1, OneBusy DEF Alone
    <2>3. Peer(t) \in Thread /\ resultPtr[Peer(t)] = t /\ PeerQueue(t) \in Queue
      BY <1>0, <2>1, VictimFacts DEF WaitersInv, PeerQueue
    <2>4. ASSUME NEW u \in Thread, NEW w \in Thread, w \in ToSet(Waiters(u)')
          PROVE  resultPtr'[u] = w /\ unblockInfo'[w]
      <3>1. CASE u = Peer(t)
        <4>1. Waiters(u)' = <<t>>
          BY <1>0, <1>5, <2>3, <3>1 DEF Links, Waiters, PeerQueue, TypeOK
        <4>2. w = t
          BY <2>4, <4>1 DEF ToSet
        <4> QED BY <1>0, <1>1, <1>5, <2>3, <3>1, <4>2 DEF Links, TypeOK
      <3>2. CASE u # Peer(t)
        <4>1. JoinQueue[u] # PeerQueue(t)
          BY <2>3, <3>2 DEF PeerQueue
        <4>2. Waiters(u)' = Waiters(u)
          BY <1>0, <1>5, <4>1 DEF Links, Waiters, TypeOK
        <4>3. resultPtr[u] = w /\ unblockInfo[w]
          BY <1>0, <2>2, <2>4, <4>2 DEF WaitersInv
        <4> QED BY <1>0, <1>1, <1>5, <4>3 DEF Links, TypeOK
      <3> QED BY <3>1, <3>2
    <2>5. \A u, w \in Thread : w \in ToSet(Waiters(u))' => resultPtr'[u] = w /\ unblockInfo'[w]
      BY <2>4
    <2> QED BY <2>2, <2>5 DEF WaitersInv
  <1>6. CASE Claimed(t)
    <2>1. Busy(t) /\ pc[t] = "claim" /\ pc'[t] = "erase" /\ victim'[t] = victim[t] /\ call[t] = "exit"
      BY <1>0, <1>6 DEF Claimed, Busy, PlaceAt
    <2>2. \A u \in Thread : pc'[u] \notin {"check", "store", "scan"} /\ \A w \in Thread : ~ CancelledBy(u, w)
      BY <1>1, <2>1, OneBusy DEF Alone, CancelledBy
    <2>3. CancelledBy(t, victim[t])'
      BY <1>1, <2>1 DEF CancelledBy
    <2>4. \A u \in Thread : Waiters(u)' = Waiters(u)
      BY <1>6 DEF Claimed, Waiters
    <2>5. \A u, w \in Thread : w \in ToSet(Waiters(u)) =>
            resultPtr'[u] = w /\ (unblockInfo'[w] \/ \E a \in Thread : CancelledBy(a, w)')
      BY <1>0, <1>1, <1>6, <2>2, <2>3 DEF WaitersInv, Claimed, TypeOK
    <2> QED BY <2>2, <2>4, <2>5 DEF WaitersInv
  <1>7. ASSUME NEW v \in Thread, Takes(t, v) PROVE WaitersInv'
    <2>1. Busy(t) /\ pc[t] = "scan" /\ pc'[t] = "erase"
      BY <1>7 DEF Takes, Busy
    <2>2. \A u \in Thread : pc'[u] \notin {"check", "store", "scan"} /\ \A w \in Thread : ~ CancelledBy(u, w)
      BY <1>1, <2>1, OneBusy DEF Alone, CancelledBy
    <2>3. \A u, w \in Thread : w \in ToSet(Waiters(u)') => w \in ToSet(Waiters(u)) /\ w # v
      BY <1>7 DEF Takes, Waiters
    <2>4. \A u, w \in Thread : w \in ToSet(Waiters(u)') => resultPtr'[u] = w /\ unblockInfo'[w]
      BY <1>0, <1>1, <1>7, <2>2, <2>3 DEF WaitersInv, Takes, TypeOK
    <2>5. \A u, w \in Thread : w \in ToSet(Waiters(u))' => resultPtr'[u] = w /\ unblockInfo'[w]
      BY <2>4
    <2> QED BY <2>2, <2>5 DEF WaitersInv
  <1> QED BY <1>3, <1>4, <1>5, <1>6, <1>7, CoreMoves

LEMMA OwnWaiters ==
  ASSUME Inv, ProcInv, NEW t \in Thread, Own(t), Alone(t), Others(t)
  PROVE  WaitersInv'
  <1> USE JoinQueues
  <1>0. WaitersInv /\ TypeOK /\ ProcTypeOK /\ PlaceAt(t)
    BY DEF Inv, ProcInv
  <1>1. \A u \in Thread : u # t =>
          /\ pc'[u] = pc[u] /\ Peer(u)' = Peer(u) /\ PeerQueue(u)' = PeerQueue(u)
          /\ \A w \in Thread : CancelledBy(u, w)' <=> CancelledBy(u, w)
    BY DEF Peer, PeerQueue, Alone, Others, CancelledBy
  <1>2. ~ \E w \in Thread : CancelledBy(t, w)
    BY DEF CancelledBy, Own, Begins, Ends, Returns, Stops, Cancels, Waits, Signals
  <1>3. CASE Begins(t) \/ Ends(t) \/ Returns(t) \/ Stops(t) \/ Cancels(t)
    <2>1. pc'[t] \notin {"check", "store", "scan"} /\ UNCHANGED <<queue, resultPtr, unblockInfo>>
      BY <1>3 DEF Begins, Ends, Returns, Stops, Cancels, joinVars
    <2> QED BY <1>0, <1>1, <1>2, <2>1, WaitersKept
  <1>4. CASE Waits(t)
    <2>1. PICK p \in Thread : p = Peer(t)'
      BY <1>4 DEF Waits
    <2>2. /\ PeerQueue(t)' = JoinQueue[p] /\ queue[JoinQueue[p]] = <<>>
          /\ resultPtr' = [resultPtr EXCEPT ![p] = t]
          /\ UNCHANGED <<queue, unblockInfo>> /\ lock[ThreadLock] = t /\ pc'[t] = "check"
      BY <1>4, <2>1 DEF Waits, PeerQueue
    <2>3. Busy(t)
      BY <2>2 DEF ProcInv, LockInv
    <2>4. \A u \in Thread : u # t => pc'[u] \notin {"check", "store", "scan"}
      BY <1>1, <2>3, OneBusy
    <2>5. resultPtr'[p] = t /\ \A u \in Thread : u # p => resultPtr'[u] = resultPtr[u]
      BY <1>0, <2>2 DEF ProcTypeOK
    <2>6. \A u \in Thread : Waiters(u)' = Waiters(u)
      BY <2>2 DEF Waiters
    <2>7. ToSet(Waiters(p)) = {}
      BY <2>2 DEF Waiters, ToSet
    <2>8. \A u, w \in Thread : w \in ToSet(Waiters(u)) =>
            resultPtr'[u] = w /\ (unblockInfo'[w] \/ \E a \in Thread : CancelledBy(a, w)')
      BY <1>0, <1>1, <1>2, <2>2, <2>5, <2>7 DEF WaitersInv
    <2> QED BY <2>1, <2>2, <2>4, <2>5, <2>6, <2>8 DEF WaitersInv
  <1>5. CASE Signals(t)
    <2>1. /\ queue[PeerQueue(t)'] # <<>> /\ pc'[t] = "scan" /\ lock[ThreadLock] = t
          /\ UNCHANGED <<queue, resultPtr, unblockInfo>>
      BY <1>5 DEF Signals
    <2>2. Busy(t)
      BY <2>1 DEF ProcInv, LockInv
    <2>3. \A u \in Thread : u # t => pc'[u] \notin {"check", "store", "scan"}
      BY <1>1, <2>2, OneBusy
    <2>4. \A u \in Thread : Waiters(u)' = Waiters(u)
      BY <2>1 DEF Waiters
    <2>5. \A u, w \in Thread : w \in ToSet(Waiters(u)) =>
            resultPtr'[u] = w /\ (unblockInfo'[w] \/ \E a \in Thread : CancelledBy(a, w)')
      BY <1>0, <1>1, <1>2, <2>1 DEF WaitersInv
    <2> QED BY <2>1, <2>3, <2>4, <2>5 DEF WaitersInv
  <1> QED BY <1>3, <1>4, <1>5 DEF Own

LEMMA WaitersStep ==
  ASSUME Inv, ProcInv, [ProcNext]_allVars
  PROVE  WaitersInv'
  <1>0. WaitersInv /\ ProcTypeOK /\ \A u \in Thread : PlaceAt(u)
    BY DEF ProcInv
  <1>1. CASE UNCHANGED allVars
    BY <1>0, <1>1, WaitersKept DEF allVars, vars, waitVars, unblockVars, pvars, callVars, joinVars, Peer, CancelledBy
  <1>2. ASSUME NEW t \in Thread, Creates(t) PROVE WaitersInv'
    <2>1. UNCHANGED <<pc, victim, queue, unblockInfo, resultPtr>>
      BY <1>2 DEF Creates, vars, waitVars, unblockVars, joinVars
    <2>2. \A w \in Thread : \/ call'[w] = call[w] /\ target'[w] = target[w]
                            \/ call[w] # "exit" /\ pc[w] = "run"
      BY <1>0, <1>2 DEF Creates, ProcTypeOK, PlaceAt
    <2>3. \A w \in Thread : pc[w] # "run" => Peer(w)' = Peer(w)
      BY <2>2 DEF Peer
    <2>4. \A a, w \in Thread : CancelledBy(a, w) => CancelledBy(a, w)'
      BY <2>1, <2>2 DEF CancelledBy
    <2> QED BY <1>0, <2>1, <2>3, <2>4, WaitersKept
  <1> QED BY <1>1, <1>2, CoreWaiters, OwnWaiters, Moves

-----------------------------------------------------------------------------
(***************************************************************************)
(* Joins.                                                                  *)
(***************************************************************************)
JoinsUnique ==
  /\ \A t \in Thread : Joiner(t) => joining[target[t]]
  /\ \A t, u \in Thread : Joiner(t) /\ Joiner(u) /\ target[t] = target[u] => t = u
Fetched == \A t \in Thread : call[t] = "signal" => got[t] = target[t]
HasResult(t) ==
  call[t] = "joining" /\ state[t] = "Running" /\ pc[t] \in {"switch", "off", "on", "run"} =>
    unblockInfo[t] \/ got[t] = target[t]
Handed(t) ==
  pc[t] = "scan" => \A w \in Thread :
    w \in ToSet(queue[PeerQueue(t)]) /\ call[w] = "joining" => got[w] = target[w]

LEMMA JoinInvIs ==
  JoinInv <=> JoinsUnique /\ Fetched /\ \A t \in Thread : HasResult(t) /\ Handed(t)
  BY DEF JoinInv, JoinsUnique, Fetched, HasResult, Handed

LEMMA CoreJoins ==
  ASSUME Inv, ProcInv, NEW t \in Thread, CoreStep(t)
  PROVE  JoinInv'
  <1> USE JoinQueues
  <1>0. /\ TypeOK /\ \A u \in Thread : PlaceAt(u) /\ HasResult(u) /\ Handed(u)
        /\ JoinsUnique /\ Fetched
    BY JoinInvIs DEF Inv, ProcInv
  <1>1. /\ UNCHANGED <<call, target, joining, got>> /\ Alone(t)
        /\ \A u \in Thread : u # t => state'[u] = state[u]
        /\ state'[t] \in {state[t], "Finishing"}
        /\ GoesOn(t) \/ Yields(t) \/ Links(t) \/ Claimed(t) \/ \E v \in Thread : Takes(t, v)
    BY CoreMoves DEF pvars, callVars, joinVars
  <1>2. JoinsUnique' /\ Fetched'
    BY <1>0, <1>1 DEF JoinsUnique, Joiner, Fetched
  <1>3. \A u \in Thread : pc'[u] = "scan" => pc[u] = "scan" /\ queue' = queue
    <2>1. pc'[t] # "scan"
      BY <1>1 DEF GoesOn, Yields, Links, Claimed, Takes
    <2>2. queue' = queue \/ Busy(t)
      BY <1>1 DEF GoesOn, Yields, Links, Claimed, Takes, Busy
    <2> QED BY <1>1, <2>1, <2>2, OneBusy DEF Alone
  <1>4. \A u \in Thread : Handed(u)'
    <2>1. \A u \in Thread : PeerQueue(u)' = PeerQueue(u)
      BY <1>1 DEF PeerQueue, Peer
    <2> QED BY <1>0, <1>1, <1>3, <2>1 DEF Handed
  <1>5. ASSUME NEW u \in Thread, u # t PROVE HasResult(u)'
    <2>1. CASE unblockInfo'[u] = unblockInfo[u]
      BY <1>0, <1>1, <1>5, <2>1 DEF HasResult, Alone
    <2>2. CASE unblockInfo'[u] # unblockInfo[u]
      <3>1. CASE Links(t)
        BY <1>0, <1>5, <2>2, <3>1 DEF Links, TypeOK
      <3>2. CASE Claimed(t)
        <4>1. u = victim[t] /\ pc[t] = "claim"
          BY <1>0, <2>2, <3>2 DEF Claimed, TypeOK
        <4>2. state[u] # "Running"
          BY <1>0, <4>1 DEF PlaceAt
        <4> QED BY <1>1, <1>5, <4>2 DEF HasResult
      <3>3. ASSUME NEW v \in Thread, Takes(t, v) PROVE HasResult(u)'
        <4>1. u = v
          BY <1>0, <2>2, <3>3 DEF Takes, TypeOK
        <4>2. call[u] = "joining" => got[u] = target[u]
          BY <1>0, <3>3, <4>1 DEF Takes, Handed
        <4> QED BY <1>1, <4>2 DEF HasResult
      <3> QED BY <1>1, <2>2, <3>1, <3>2, <3>3 DEF GoesOn, Yields
    <2> QED BY <2>1, <2>2
  <1>6. HasResult(t)'
    <2>1. CASE GoesOn(t)
      BY <1>0, <1>1, <2>1 DEF GoesOn, HasResult, PlaceAt
    <2>2. CASE Yields(t)
      BY <1>0, <1>1, <2>2 DEF Yields, HasResult
    <2>3. CASE Links(t)
      BY <1>0, <2>3 DEF Links, HasResult, TypeOK
    <2>4. CASE Claimed(t) \/ \E v \in Thread : Takes(t, v)
      BY <2>4 DEF Claimed, Takes, HasResult
    <2> QED BY <1>1, <2>1, <2>2, <2>3, <2>4
  <1> QED
    <2>1. \A u \in Thread : HasResult(u)' /\ Handed(u)'
      BY <1>4, <1>5, <1>6
    <2> QED BY <1>2, <2>1 DEF JoinInv, JoinsUnique, Fetched, HasResult, Handed

(* The waiter that a joining or exiting thread finds is the other one: an  *)
(* exiting thread that has posted its result, or the one joiner.           *)
LEMMA FoundWaiter ==
  ASSUME Inv, ProcInv, NEW t \in Thread, Signals(t)
  PROVE  /\ call[t] = "join" => /\ resultPtr[target[t]] = target[t]
                                /\ \A w \in Thread : w \in ToSet(Waiters(target[t])) => call[w] = "posting"
         /\ call[t] = "exitThread" => /\ resultPtr[t] \in Thread /\ resultPtr[t] # t
                                      /\ call[resultPtr[t]] = "joining" /\ target[resultPtr[t]] = t
                                      /\ \A w \in Thread : w \in ToSet(Waiters(t)) => w = resultPtr[t]
  <1> USE JoinQueues
  <1>0. WaitersInv /\ JoinsUnique /\ \A u \in Thread : PlaceAt(u)
    BY JoinInvIs DEF ProcInv
  <1>1. pc[t] = "run" /\ Busy(t)
    BY DEF Signals, ProcInv, LockInv
  <1>2. ASSUME NEW u \in Thread, NEW w \in Thread, w \in ToSet(Waiters(u))
        PROVE  /\ resultPtr[u] = w /\ w # t
               /\ (call[w] = "posting" /\ w = u) \/ (call[w] = "joining" /\ target[w] = u)
    <2>1. pc[w] \in {"switch", "off"} /\ info[w].q = JoinQueue[u]
      BY <1>2 DEF Inv, ListsInv, Waiters
    <2>2. Peer(w) = u /\ call[w] \in {"joining", "posting"}
      BY <1>0, <2>1, VictimFacts DEF PlaceAt, PeerQueue
    <2>3. resultPtr[u] = w
      BY <1>0, <1>2 DEF WaitersInv
    <2> QED BY <1>1, <2>1, <2>2, <2>3 DEF Peer
  <1>3. ASSUME call[t] = "join"
        PROVE  /\ resultPtr[target[t]] = target[t]
               /\ \A w \in Thread : w \in ToSet(Waiters(target[t])) => call[w] = "posting"
    <2>1. target[t] \in Thread /\ ~ joining[target[t]] /\ Waiters(target[t]) # <<>>
      <3>1. target[t] \in Thread
        BY <1>0, <1>3 DEF PlaceAt
      <3>2. call'[t] = "signal" /\ ~ joining[target[t]] /\ target' = target
        BY <1>3 DEF Signals
      <3>3. PeerQueue(t)' = JoinQueue[target[t]]
        BY <3>2 DEF PeerQueue, Peer
      <3> QED BY <3>1, <3>2, <3>3 DEF Signals, Waiters
    <2>2. PICK w \in Thread : w \in ToSet(Waiters(target[t]))
      BY <1>1, <2>1, HeadFacts
    <2>3. \A x \in Thread : call[x] = "joining" => target[x] # target[t]
      BY <1>0, <2>1 DEF JoinsUnique, Joiner
    <2> QED BY <1>2, <2>1, <2>2, <2>3
  <1>4. ASSUME call[t] = "exitThread"
        PROVE  /\ resultPtr[t] \in Thread /\ resultPtr[t] # t
               /\ call[resultPtr[t]] = "joining" /\ target[resultPtr[t]] = t
               /\ \A w \in Thread : w \in ToSet(Waiters(t)) => w = resultPtr[t]
    <2>1. Waiters(t) # <<>>
      <3>2. call'[t] = "posted"
        BY <1>4 DEF Signals
      <3>3. PeerQueue(t)' = JoinQueue[t]
        BY <3>2 DEF PeerQueue, Peer
      <3> QED BY <3>2, <3>3 DEF Signals, Waiters
    <2>2. PICK w \in Thread : w \in ToSet(Waiters(t))
      BY <1>1, <2>1, HeadFacts
    <2> QED BY <1>2, <2>2
  <1> QED BY <1>3, <1>4

LEMMA OwnJoins ==
  ASSUME Inv, ProcInv, NEW t \in Thread, Own(t), Alone(t), Others(t), Ages
  PROVE  JoinInv'
  <1> USE JoinQueues
  <1>0. /\ TypeOK /\ ProcTypeOK /\ \A u \in Thread : PlaceAt(u) /\ HasResult(u) /\ Handed(u)
        /\ JoinsUnique /\ Fetched
    BY JoinInvIs DEF Inv, ProcInv
  <1>1. \A u \in Thread : u # t =>
          pc'[u] = pc[u] /\ call'[u] = call[u] /\ target'[u] = target[u] /\ PeerQueue(u)' = PeerQueue(u)
    BY DEF Alone, Others, PeerQueue, Peer
  <1>2. CASE Begins(t) \/ Ends(t) \/ Returns(t) \/ Stops(t) \/ Cancels(t)
    <2>1. /\ UNCHANGED <<queue, unblockInfo, joining, got>> /\ pc'[t] # "scan"
          /\ call'[t] \in {"joining", "signal"} =>
               call' = call /\ target' = target /\ pc'[t] \notin {"switch", "off", "on", "run"}
      BY <1>2 DEF Begins, Ends, Returns, Stops, Cancels, joinVars
    <2>2. JoinsUnique'
      BY <1>0, <1>1, <2>1 DEF JoinsUnique, Joiner
    <2>3. Fetched'
      BY <1>0, <1>1, <2>1 DEF Fetched
    <2>4. \A u \in Thread : HasResult(u)'
      BY <1>0, <1>1, <2>1 DEF HasResult, Ages
    <2>5. \A u \in Thread : Handed(u)'
      BY <1>0, <1>1, <2>1 DEF Handed
    <2> QED BY <2>2, <2>3, <2>4, <2>5 DEF JoinInv, JoinsUnique, Fetched, HasResult, Handed
  <1>3. CASE Waits(t) \/ Signals(t)
    <2>1. lock[ThreadLock] = t /\ pc[t] = "run" /\ UNCHANGED <<queue, unblockInfo, target>>
      BY <1>3 DEF Waits, Signals
    <2>2. \A u \in Thread : u # t => pc'[u] # "scan"
      BY <1>1, <2>1, OneBusy DEF ProcInv, LockInv
    <2>3. JoinsUnique'
      <3>1. CASE call[t] = "join"
        <4>1. /\ target[t] \in Thread /\ ~ joining[target[t]]
              /\ joining' = [joining EXCEPT ![target[t]] = TRUE]
          BY <1>0, <1>3, <3>1 DEF Waits, Signals, PlaceAt
        <4>2. \A u \in Thread : u # t /\ Joiner(u) => target[u] # target[t] /\ joining[target[u]] /\ target[u] \in Thread
          BY <1>0, <4>1 DEF JoinsUnique, Joiner, PlaceAt
        <4>3. joining'[target[t]] /\ \A u \in Thread : u # t /\ Joiner(u) => joining'[target[u]]
          BY <1>0, <4>1, <4>2 DEF ProcTypeOK
        <4>4. \A u \in Thread : u # t => (Joiner(u)' <=> Joiner(u))
          BY <1>1 DEF Joiner
        <4> QED BY <1>0, <2>1, <4>2, <4>3, <4>4 DEF JoinsUnique
      <3>2. CASE call[t] = "exitThread"
        <4>1. joining' = joining /\ call'[t] \in {"posting", "posted"}
          BY <1>3, <3>2 DEF Waits, Signals
        <4> QED BY <1>0, <1>1, <2>1, <4>1 DEF JoinsUnique, Joiner
      <3> QED BY <1>3, <3>1, <3>2 DEF Waits, Signals
    <2>4. CASE Waits(t)
      <3>1. got' = got /\ call'[t] # "signal" /\ pc'[t] = "check"
        BY <2>4 DEF Waits
      <3>2. Fetched'
        BY <1>0, <1>1, <3>1 DEF Fetched
      <3>3. \A u \in Thread : HasResult(u)'
        BY <1>0, <1>1, <2>1, <3>1 DEF HasResult, Ages
      <3>4. \A u \in Thread : Handed(u)'
        BY <2>2, <3>1 DEF Handed
      <3> QED BY <2>3, <3>2, <3>3, <3>4 DEF JoinInv, JoinsUnique, Fetched, HasResult, Handed
    <2>5. CASE Signals(t)
      <3>1. pc'[t] = "scan"
        BY <2>5 DEF Signals
      <3>2. CASE call[t] = "join"
        <4>1. call'[t] = "signal" /\ got' = [got EXCEPT ![t] = resultPtr[target[t]]]
          BY <2>5, <3>2 DEF Signals
        <4>2. got'[t] = target[t] /\ \A u \in Thread : u # t => got'[u] = got[u]
          BY <1>0, <2>5, <3>2, <4>1, FoundWaiter DEF ProcTypeOK
        <4>3. Fetched'
          BY <1>0, <1>1, <2>1, <4>2 DEF Fetched
        <4>4. \A u \in Thread : HasResult(u)'
          BY <1>0, <1>1, <2>1, <3>1, <4>2 DEF HasResult, Ages
        <4>5. PeerQueue(t)' = JoinQueue[target[t]]
          BY <2>1, <4>1 DEF PeerQueue, Peer
        <4>6. \A w \in Thread : w \in ToSet(queue[JoinQueue[target[t]]]) => call[w] = "posting" /\ w # t
          BY <2>5, <3>2, FoundWaiter DEF Waiters
        <4>7. \A w \in Thread : w \in ToSet(queue'[PeerQueue(t)']) => call'[w] = "posting"
          BY <1>1, <2>1, <4>5, <4>6
        <4>8. Handed(t)'
          BY <4>7 DEF Handed
        <4>9. \A u \in Thread : Handed(u)'
          BY <2>2, <4>8 DEF Handed
        <4> QED BY <2>3, <4>3, <4>4, <4>9 DEF JoinInv, JoinsUnique, Fetched, HasResult, Handed
      <3>3. CASE call[t] = "exitThread"
        <4>1. call'[t] = "posted" /\ got' = [got EXCEPT ![resultPtr[t]] = t]
          BY <2>5, <3>3 DEF Signals
        <4>2. PICK x \in Thread : x = resultPtr[t] /\ x # t /\ call[x] = "joining" /\ target[x] = t
          BY <2>5, <3>3, FoundWaiter
        <4>3. got'[x] = target[x] /\ \A u \in Thread : u # x => got'[u] = got[u]
          BY <1>0, <4>1, <4>2 DEF ProcTypeOK
        <4>4. Fetched'
          BY <1>0, <1>1, <2>1, <4>1, <4>2, <4>3 DEF Fetched
        <4>5. \A u \in Thread : HasResult(u)'
          BY <1>0, <1>1, <2>1, <3>1, <4>3 DEF HasResult, Ages
        <4>6. PeerQueue(t)' = JoinQueue[t]
          BY <2>1, <4>1 DEF PeerQueue, Peer
        <4>7. \A w \in Thread : w \in ToSet(queue[JoinQueue[t]]) => w = x
          BY <2>5, <3>3, <4>2, FoundWaiter DEF Waiters
        <4>8. \A w \in Thread : w \in ToSet(queue'[PeerQueue(t)']) => got'[w] = target'[w]
          BY <2>1, <4>3, <4>6, <4>7
        <4>9. \A u \in Thread : Handed(u)'
          BY <2>2, <4>8 DEF Handed
        <4> QED BY <2>3, <4>4, <4>5, <4>9 DEF JoinInv, JoinsUnique, Fetched, HasResult, Handed
      <3> QED BY <2>5, <3>2, <3>3 DEF Signals
    <2> QED BY <1>3, <2>4, <2>5
  <1> QED BY <1>2, <1>3 DEF Own

LEMMA JoinStep ==
  ASSUME Inv, ProcInv, [ProcNext]_allVars
  PROVE  JoinInv'
  <1>0. /\ ProcTypeOK /\ JoinsUnique /\ Fetched
        /\ \A u \in Thread : PlaceAt(u) /\ HasResult(u) /\ Handed(u)
    BY JoinInvIs DEF ProcInv
  <1>1. CASE UNCHANGED allVars
    <2>1. UNCHANGED <<pc, state, queue, unblockInfo, call, target, joining, got>>
      BY <1>1 DEF allVars, vars, waitVars, pvars, callVars, joinVars
    <2> QED BY <2>1 DEF ProcInv, JoinInv, Joiner, PeerQueue, Peer
  <1>2. ASSUME NEW t \in Thread, Creates(t) PROVE JoinInv'
    <2>1. UNCHANGED <<pc, state, queue, unblockInfo, joining, got>>
      BY <1>2 DEF Creates, vars, waitVars, joinVars
    <2>2. \A w \in Thread : \/ call'[w] = call[w] /\ target'[w] = target[w]
                            \/ /\ {call[w], call'[w]} \subseteq {"none", "created", "fresh", "unborn"}
                               /\ pc[w] = "run"
      BY <1>0, <1>2 DEF Creates, ProcTypeOK, PlaceAt
    <2>3. \A w \in Thread : pc[w] # "run" => PeerQueue(w)' = PeerQueue(w)
      BY <2>2 DEF PeerQueue, Peer
    <2>4. JoinsUnique'
      BY <1>0, <2>1, <2>2 DEF JoinsUnique, Joiner
    <2>5. Fetched'
      BY <1>0, <2>1, <2>2 DEF Fetched
    <2>6. \A u \in Thread : HasResult(u)'
      BY <1>0, <2>1, <2>2 DEF HasResult
    <2>7. \A u \in Thread : Handed(u)'
      BY <1>0, <2>1, <2>2, <2>3 DEF Handed
    <2> QED BY <2>4, <2>5, <2>6, <2>7 DEF JoinInv, JoinsUnique, Fetched, HasResult, Handed
  <1> QED BY <1>1, <1>2, CoreJoins, OwnJoins, Moves

-----------------------------------------------------------------------------
(* The types of the process's variables.                                   *)
LEMMA ProcTypeStep ==
  ASSUME Inv, ProcInv, [ProcNext]_allVars
  PROVE  ProcTypeOK'
  <1> USE JoinQueues
  <1>0. /\ ProcTypeOK /\ \A t \in Thread : PlaceAt(t)
        /\ threadStore \in SUBSET Thread /\ activeThreads \in Int /\ existingThreads \in Int
        /\ joining \in [Thread -> BOOLEAN] /\ toCancel \in [Thread -> SUBSET Thread]
        /\ resultPtr \in [Thread -> Thread \cup {Nobody}] /\ got \in [Thread -> Thread \cup {Nobody}]
        /\ target \in [Thread -> Thread \cup {Nobody}] /\ call \in [Thread -> Stage]
        /\ joins \in [Thread -> 0 .. MaxJoins]
    BY DEF ProcInv, ProcTypeOK
  <1>d. deleted \in BOOLEAN
    BY DEF ProcInv, ProcTypeOK
  <1>1. ASSUME UNCHANGED pvars PROVE ProcTypeOK'
    <2>1. /\ UNCHANGED <<threadStore, activeThreads, existingThreads, joining, resultPtr, got, call>>
          /\ UNCHANGED <<target, toCancel, joins>>
      BY <1>1 DEF pvars, tableVars, joinVars, callVars
    <2>2. deleted' = deleted
      BY <1>1 DEF pvars, tableVars
    <2>3. deleted' \in BOOLEAN
      BY <1>d, <2>2
    <2> QED BY <1>0, <2>1, <2>3 DEF ProcTypeOK
  <1>2. ASSUME UNCHANGED tableVars, UNCHANGED <<toCancel, joins>>,
               call' \in [Thread -> Stage], target' \in [Thread -> Thread \cup {Nobody}],
               joining' \in [Thread -> BOOLEAN], resultPtr' \in [Thread -> Thread \cup {Nobody}],
               got' \in [Thread -> Thread \cup {Nobody}]
        PROVE  ProcTypeOK'
    <2>1. UNCHANGED <<threadStore, activeThreads, existingThreads>>
      BY <1>2 DEF tableVars
    <2>2. deleted' = deleted
      BY <1>2 DEF tableVars
    <2>3. deleted' \in BOOLEAN
      BY <1>d, <2>2
    <2> QED BY <1>0, <1>2, <2>1, <2>3 DEF ProcTypeOK
  <1>c. ASSUME NEW t \in Thread, NEW c \in Stage, Become(t, c) PROVE call' \in [Thread -> Stage]
    BY <1>0, <1>c DEF Become
  <1>3. ASSUME NEW t \in Thread,
               \/ JoinRefused(t) \/ Joined(t) \/ PostNot(t) \/ Posted(t) \/ Signalled(t) \/ ExitCancelled(t)
        PROVE  ProcTypeOK'
    <2>1. /\ UNCHANGED <<tableVars, joinVars, target, toCancel, joins>>
          /\ \E c \in Stage : Become(t, c)
      BY <1>3 DEF JoinRefused, Joined, PostNot, Posted, Signalled, ExitCancelled, AfterSignal, Stage
    <2> QED BY <1>0, <1>2, <1>c, <2>1 DEF joinVars
  <1>4. ASSUME NEW t \in Thread, JoinWait(t) \/ JoinTake(t) PROVE ProcTypeOK'
    <2>1. target[t] \in Thread
      BY <1>0, <1>4 DEF JoinWait, JoinTake, PlaceAt
    <2>2. /\ UNCHANGED <<tableVars, target, toCancel, joins>>
          /\ \E c \in Stage : Become(t, c)
      BY <1>4 DEF JoinWait, JoinTake, Stage
    <2>3. joining' \in [Thread -> BOOLEAN]
      BY <1>0, <1>4, <2>1 DEF JoinWait, JoinTake
    <2>4. resultPtr' \in [Thread -> Thread \cup {Nobody}]
      <3>1. resultPtr' = resultPtr \/ resultPtr' = [resultPtr EXCEPT ![target[t]] = t]
        BY <1>4 DEF JoinWait, JoinTake
      <3> QED BY <1>0, <2>1, <3>1
    <2>5. got' \in [Thread -> Thread \cup {Nobody}]
      <3>1. resultPtr[target[t]] \in Thread \cup {Nobody}
        BY <1>0, <2>1
      <3>2. got' = got \/ got' = [got EXCEPT ![t] = resultPtr[target[t]]]
        BY <1>4 DEF JoinWait, JoinTake
      <3> QED BY <1>0, <3>1, <3>2
    <2> QED BY <1>0, <1>2, <1>c, <2>2, <2>3, <2>4, <2>5
  <1>5. ASSUME NEW t \in Thread, PostWait(t) \/ PostGive(t) PROVE ProcTypeOK'
    <2>2. /\ UNCHANGED <<tableVars, target, toCancel, joins, joining>>
          /\ \E c \in Stage : Become(t, c)
      BY <1>5 DEF PostWait, PostGive, Stage
    <2>4. resultPtr' \in [Thread -> Thread \cup {Nobody}]
      <3>1. resultPtr' = resultPtr \/ resultPtr' = [resultPtr EXCEPT ![t] = t]
        BY <1>5 DEF PostWait, PostGive
      <3> QED BY <1>0, <3>1
    <2>5. got' \in [Thread -> Thread \cup {Nobody}]
      <3>1. got' = got \/ got' = [got EXCEPT ![resultPtr[t]] = t]
        BY <1>5 DEF PostWait, PostGive
      <3> QED BY <1>0, <3>1
    <2> QED BY <1>0, <1>2, <1>c, <2>2, <2>4, <2>5
  <1>6. ASSUME NEW t \in Thread, ResumeNew(t) PROVE ProcTypeOK'
    <2>1. UNCHANGED <<tableVars, joinVars, target, toCancel, joins>> /\ call' \in [Thread -> Stage]
      BY <1>0, <1>6 DEF ResumeNew, Stage
    <2> QED BY <1>0, <1>2, <2>1 DEF joinVars
  <1>7. ASSUME NEW t \in Thread, NEW v \in Thread, ExitCancel(t, v) PROVE ProcTypeOK'
    <2>1. /\ UNCHANGED <<threadStore, activeThreads, existingThreads, joining, resultPtr, got, call>>
          /\ UNCHANGED <<target, joins>> /\ toCancel' \in [Thread -> SUBSET Thread]
      BY <1>0, <1>7 DEF ExitCancel, tableVars, joinVars
    <2>2. deleted' = deleted
      BY <1>7 DEF ExitCancel, tableVars
    <2>3. deleted' \in BOOLEAN
      BY <1>d, <2>2
    <2> QED BY <1>0, <2>1, <2>3 DEF ProcTypeOK
  <1>8. ASSUME NEW t \in Thread, Die(t) \/ CoreStep(t) PROVE ProcTypeOK'
    BY <1>1, <1>8 DEF Die, CoreStep
  <1>9. ASSUME NEW t \in Thread, LeaveTable(t) \/ Destroy(t) PROVE ProcTypeOK'
    <2>1. /\ UNCHANGED <<activeThreads, joining, resultPtr, got, call, target, toCancel, joins>>
          /\ threadStore' \in SUBSET Thread /\ existingThreads' \in Int
      BY <1>0, <1>9 DEF LeaveTable, Destroy, joinVars, callVars
    <2>2. deleted' = deleted \/ deleted' = (existingThreads = 1)
      BY <1>9 DEF LeaveTable, Destroy
    <2>3. deleted' \in BOOLEAN
      BY <1>d, <2>2
    <2> QED BY <1>0, <2>1, <2>3 DEF ProcTypeOK
  <1>10. ASSUME NEW t \in Thread, NEW u \in Thread, SetupThread(t, u) PROVE ProcTypeOK'
    <2>1. /\ UNCHANGED <<joining, resultPtr, got, toCancel, joins>>
          /\ threadStore' \in SUBSET Thread /\ existingThreads' \in Int /\ activeThreads' \in Int
          /\ call' \in [Thread -> Stage] /\ target' \in [Thread -> Thread \cup {Nobody}]
      BY <1>0, <1>10 DEF SetupThread, joinVars, Stage
    <2>2. deleted' = deleted
      BY <1>10 DEF SetupThread
    <2>3. deleted' \in BOOLEAN
      BY <1>d, <2>2
    <2> QED BY <1>0, <2>1, <2>3 DEF ProcTypeOK
  <1>11. ASSUME NEW t \in Thread,
                ExitThread(t) \/ ExitProcess(t) \/ \E u \in Thread : JoinThread(t, u)
         PROVE  ProcTypeOK'
    <2>1. \E c \in Stage : Become(t, c)
      BY <1>11 DEF ExitThread, ExitProcess, JoinThread, Stage
    <2>2. UNCHANGED <<threadStore, existingThreads, joining, resultPtr, got>> /\ activeThreads' \in Int
      BY <1>0, <1>11 DEF ExitThread, ExitProcess, JoinThread, tableVars, joinVars
    <2>3. target' \in [Thread -> Thread \cup {Nobody}] /\ toCancel' \in [Thread -> SUBSET Thread]
      BY <1>0, <1>11 DEF ExitThread, ExitProcess, JoinThread
    <2>4. joins' \in [Thread -> 0 .. MaxJoins]
      <3>1. ASSUME NEW u \in Thread, JoinThread(t, u) PROVE joins' \in [Thread -> 0 .. MaxJoins]
        <4>1. joins[t] \in Nat /\ joins[t] < MaxJoins /\ joins' = [joins EXCEPT ![t] = joins[t] + 1]
          BY <1>0, <3>1 DEF JoinThread
        <4>2. joins[t] + 1 \in 0 .. MaxJoins
          BY <4>1, ProcessAssumption
        <4> QED BY <1>0, <4>1, <4>2
      <3> QED BY <1>0, <1>11, <3>1 DEF ExitThread, ExitProcess
    <2>5. deleted' = deleted
      BY <1>11 DEF ExitThread, ExitProcess, JoinThread, tableVars
    <2>6. deleted' \in BOOLEAN
      BY <1>d, <2>5
    <2> QED BY <1>0, <1>c, <2>1, <2>2, <2>3, <2>4, <2>6 DEF ProcTypeOK
  <1>12. CASE UNCHANGED allVars
    BY <1>1, <1>12 DEF allVars
  <1> QED
    BY <1>3, <1>4, <1>5, <1>6, <1>7, <1>8, <1>9, <1>10, <1>11, <1>12 DEF ProcNext, ThreadStep

-----------------------------------------------------------------------------
(***************************************************************************)
(* The thread table and the counts.                                        *)
(***************************************************************************)
Exists(t) == call[t] # "unborn" /\ pc[t] # "gone"
Active(t) == call[t] \notin {"unborn", "exitThread", "posting", "posted", "die"}

(* Finite sets of threads, one thread more or less.                        *)
LEMMA Counts ==
  ASSUME NEW S \in SUBSET Thread
  PROVE  /\ Cardinality(S) \in Nat
         /\ \A v \in Thread : v \notin S => Cardinality(S \cup {v}) = Cardinality(S) + 1
         /\ \A v \in S : Cardinality(S \ {v}) = Cardinality(S) - 1
         /\ Cardinality(S) = 0 <=> S = {}
  <1>1. IsFiniteSet(S)
    BY ProcessAssumption, FS_Subset
  <1>2. Cardinality(S) \in Nat
    BY <1>1, FS_CardinalityType
  <1>3. \A v \in Thread : v \notin S => Cardinality(S \cup {v}) = Cardinality(S) + 1
    BY <1>1, FS_AddElement
  <1>4. \A v \in S : Cardinality(S \ {v}) = Cardinality(S) - 1
    BY <1>1, FS_RemoveElement
  <1>5. Cardinality(S) = 0 <=> S = {}
    BY <1>1, FS_EmptySet
  <1> QED BY <1>2, <1>3, <1>4, <1>5

(* What the counts count.                                                  *)
LEMMA CountsTrueIs ==
  CountsTrue <=> /\ existingThreads = Cardinality({t \in Thread : Exists(t)})
                 /\ activeThreads = Cardinality({t \in Thread : Active(t)})
  BY DEF CountsTrue, Exists, Active

(* Only setupThread, exitThread and the destruction of a thread that is    *)
(* finishing change the counts and which threads there are.                *)
Stays ==
  /\ UNCHANGED <<activeThreads, existingThreads>> /\ (deleted' <=> deleted)
  /\ threadStore' \in SUBSET threadStore
  /\ \A u \in Thread : (Exists(u)' <=> Exists(u)) /\ (Active(u)' <=> Active(u))

LEMMA CoreStays ==
  ASSUME Inv, ProcInv, NEW t \in Thread, CoreStep(t)
  PROVE  Stays
  <1>1. UNCHANGED <<activeThreads, existingThreads, threadStore, call>> /\ (deleted' <=> deleted) /\ Alone(t)
    BY CoreMoves DEF pvars, tableVars, callVars
  <1>2. pc[t] # "gone" /\ pc'[t] # "gone"
    BY CoreMoves DEF GoesOn, Yields, Links, Takes, Claimed
  <1> QED BY <1>1, <1>2 DEF Stays, Exists, Active, Alone

LEMMA OwnStays ==
  ASSUME Inv, ProcInv, NEW t \in Thread,
         \/ ThreadStep(t) /\ ~ ResumeNew(t)
         \/ ExitProcess(t) \/ \E u \in Thread : JoinThread(t, u),
         ~ (Destroy(t) /\ state[t] = "Finishing")
  PROVE  Stays
  <1>0. ProcTypeOK /\ TypeOK /\ PlaceAt(t) /\ t \in Actor /\ call[t] \in Stage
    BY DEF ProcInv, Inv, ProcTypeOK, Actor
  <1>1. Own(t) /\ Alone(t) /\ Others(t)
    BY OwnMoves
  <1>2. /\ UNCHANGED <<activeThreads, existingThreads>> /\ (deleted' <=> deleted)
        /\ threadStore' \in SUBSET threadStore
    <2>1. CASE LeaveTable(t) \/ Destroy(t)
      BY <2>1 DEF LeaveTable, Destroy
    <2>2. CASE ~ LeaveTable(t) /\ ~ Destroy(t)
      <3>1. UNCHANGED tableVars
        BY <2>2 DEF ThreadStep, JoinRefused, JoinWait, JoinTake, Joined, PostNot, PostWait, PostGive,
             Posted, Signalled, ExitCancel, ExitCancelled, Die, ExitProcess, JoinThread, pvars
      <3> QED BY <3>1 DEF tableVars
    <2> QED BY <2>1, <2>2
  <1>3. Active(t)' <=> Active(t)
    <2>1. CASE ExitProcess(t) \/ \E u \in Thread : JoinThread(t, u)
      BY <1>0, <2>1 DEF ExitProcess, JoinThread, Become, ProcTypeOK, Active
    <2>2. CASE JoinRefused(t) \/ JoinWait(t) \/ JoinTake(t) \/ Joined(t) \/ ExitCancelled(t)
      BY <1>0, <2>2 DEF JoinRefused, JoinWait, JoinTake, Joined, ExitCancelled, Become, ProcTypeOK, Active
    <2>3. CASE PostNot(t) \/ PostWait(t) \/ PostGive(t) \/ Posted(t)
      BY <1>0, <2>3 DEF PostNot, PostWait, PostGive, Posted, Become, ProcTypeOK, Active
    <2>4. CASE Signalled(t)
      BY <1>0, <2>4 DEF Signalled, AfterSignal, Become, ProcTypeOK, Active
    <2>5. CASE Die(t) \/ LeaveTable(t) \/ Destroy(t) \/ \E v \in Thread : ExitCancel(t, v)
      BY <2>5 DEF Die, LeaveTable, Destroy, ExitCancel, pvars, callVars, Active
    <2> QED BY <2>1, <2>2, <2>3, <2>4, <2>5 DEF ThreadStep
  <1>4. Exists(t)' <=> Exists(t)
    <2>1. CASE Destroy(t)
      BY <1>0, <2>1 DEF Destroy, Exit, Goto, TypeOK, callVars, Exists
    <2>2. CASE LeaveTable(t)
      BY <2>2 DEF LeaveTable, vars, callVars, Exists
    <2>3. CASE Die(t)
      BY <1>0, <2>3 DEF Die, Terminate, Goto, TypeOK, pvars, callVars, Exists
    <2>4. CASE Stops(t) /\ ~ Destroy(t) /\ ~ LeaveTable(t) /\ ~ Die(t)
      BY <2>4 DEF Stops, ThreadStep, JoinRefused, JoinWait, JoinTake, Joined, PostNot, PostWait, PostGive,
           Posted, Signalled, ExitCancel, ExitCancelled, ExitProcess, JoinThread, Block, Resume, Cancel,
           Release, Acquire
    <2>5. CASE ~ Stops(t)
      BY <1>1, <2>5 DEF Own, Begins, Ends, Returns, Cancels, Waits, Signals, Exists
    <2> QED BY <2>1, <2>2, <2>3, <2>4, <2>5
  <1> QED BY <1>1, <1>2, <1>3, <1>4 DEF Stays, Alone, Others, Exists, Active

LEMMA NewStays ==
  ASSUME ProcInv, NEW t \in Thread, ResumeNew(t)
  PROVE  Stays
  <1>1. ProcTypeOK /\ target[t] \in Thread /\ call[target[t]] = "fresh" /\ call[t] = "created"
    BY DEF ProcInv, PlaceAt, TableInv, ResumeNew
  <1>2. \A u \in Thread : call'[u] = call[u] \/ (call'[u] = "none" /\ call[u] \in {"fresh", "created"})
    BY <1>1 DEF ResumeNew, ProcTypeOK
  <1>3. UNCHANGED <<activeThreads, existingThreads, threadStore, pc>> /\ (deleted' <=> deleted)
    BY DEF ResumeNew, tableVars, vars
  <1> QED BY <1>2, <1>3 DEF Stays, Exists, Active

(* A thread more, one active thread less, a thread less.                   *)
LEMMA SetupAdds ==
  ASSUME ProcInv, NEW t \in Thread, NEW u \in Thread, SetupThread(t, u)
  PROVE  /\ activeThreads' = activeThreads + 1 /\ existingThreads' = existingThreads + 1
         /\ threadStore' = threadStore \cup {u} /\ ~ Exists(u) /\ ~ Active(u)
         /\ \A w \in Thread : (Exists(w)' <=> Exists(w) \/ w = u) /\ (Active(w)' <=> Active(w) \/ w = u)
  <1>1. ProcTypeOK /\ t # u /\ pc[u] = "run" /\ call[t] = "none" /\ call[u] = "unborn"
    BY DEF ProcInv, PlaceAt, SetupThread
  <1>2. call'[t] = "created" /\ call'[u] = "fresh" /\ \A w \in Thread : w # t /\ w # u => call'[w] = call[w]
    BY <1>1 DEF SetupThread, ProcTypeOK
  <1>3. pc' = pc
    BY DEF SetupThread, vars
  <1>4. \A w \in Thread : (Exists(w)' <=> Exists(w) \/ w = u) /\ (Active(w)' <=> Active(w) \/ w = u)
    BY <1>1, <1>2, <1>3 DEF Exists, Active
  <1> QED BY <1>1, <1>4 DEF SetupThread, Exists, Active

LEMMA ExitRemoves ==
  ASSUME Inv, ProcInv, NEW t \in Thread, ExitThread(t)
  PROVE  /\ activeThreads' = activeThreads - 1 /\ UNCHANGED <<existingThreads, threadStore>>
         /\ (deleted' <=> deleted) /\ Active(t)
         /\ \A w \in Thread : (Exists(w)' <=> Exists(w)) /\ (Active(w)' <=> Active(w) /\ w # t)
  <1>1. ProcTypeOK /\ call[t] = "none"
    BY DEF ProcInv, ExitThread
  <1>2. call'[t] = "exitThread" /\ \A w \in Thread : w # t => call'[w] = call[w]
    BY <1>1 DEF ExitThread, Become, ProcTypeOK
  <1>3. pc' = pc
    BY DEF ExitThread, Acquire
  <1>4. \A w \in Thread : (Exists(w)' <=> Exists(w)) /\ (Active(w)' <=> Active(w) /\ w # t)
    BY <1>1, <1>2, <1>3 DEF Exists, Active
  <1> QED BY <1>1, <1>4 DEF ExitThread, Active

LEMMA DestroyRemoves ==
  ASSUME Inv, ProcInv, NEW t \in Thread, Destroy(t), state[t] = "Finishing"
  PROVE  /\ existingThreads' = existingThreads - 1 /\ UNCHANGED <<activeThreads, threadStore, call, target>>
         /\ (deleted' <=> existingThreads = 1) /\ Exists(t) /\ t \notin threadStore /\ pc'[t] = "gone"
         /\ \A w \in Thread : (Exists(w)' <=> Exists(w) /\ w # t) /\ (Active(w)' <=> Active(w))
  <1>1. TypeOK /\ t \in Actor /\ pc[t] = "exit" /\ call[t] # "unborn"
    BY DEF Inv, Actor, ProcInv, PlaceAt, Destroy
  <1>2. UNCHANGED <<call, target>> /\ pc'[t] = "gone" /\ \A w \in Thread : w # t => pc'[w] = pc[w]
    BY <1>1 DEF Destroy, Exit, Goto, TypeOK, callVars
  <1>3. \A w \in Thread : (Exists(w)' <=> Exists(w) /\ w # t) /\ (Active(w)' <=> Active(w))
    BY <1>1, <1>2 DEF Exists, Active
  <1> QED BY <1>1, <1>2, <1>3 DEF Destroy, Exists

(* A step leaves the table alone, or is one of those three.                *)
LEMMA TableMoves ==
  ASSUME Inv, ProcInv, [ProcNext]_allVars
  PROVE  \/ Stays
         \/ \E t, u \in Thread : SetupThread(t, u)
         \/ \E t \in Thread : ExitThread(t)
         \/ \E t \in Thread : Destroy(t) /\ state[t] = "Finishing"
  <1>1. CASE UNCHANGED allVars
    <2>1. UNCHANGED <<activeThreads, existingThreads, threadStore, call, pc>> /\ (deleted' <=> deleted)
      BY <1>1 DEF allVars, vars, pvars, tableVars, callVars
    <2> QED BY <2>1 DEF Stays, Exists, Active
  <1>2. ASSUME NEW t \in Thread, ThreadStep(t), ~ ResumeNew(t), ~ (Destroy(t) /\ state[t] = "Finishing")
        PROVE  Stays
    BY <1>2, OwnStays
  <1>3. ASSUME NEW t \in Thread, ExitProcess(t) \/ \E u \in Thread : JoinThread(t, u) PROVE Stays
    <2>1. ~ Destroy(t)
      BY <1>3 DEF Destroy, ExitProcess, JoinThread, Acquire
    <2> QED BY <1>3, <2>1, OwnStays
  <1> QED BY <1>1, <1>2, <1>3, CoreStays, NewStays DEF ProcNext

(* Both counts stay true.                                                  *)
LEMMA CountsStep ==
  ASSUME Inv, ProcInv, [ProcNext]_allVars
  PROVE  CountsTrue'
  <1>0. /\ existingThreads = Cardinality({t \in Thread : Exists(t)})
        /\ activeThreads = Cardinality({t \in Thread : Active(t)})
    BY CountsTrueIs DEF ProcInv
  <1>1. PICK E, A : E = {t \in Thread : Exists(t)} /\ A = {t \in Thread : Active(t)}
    OBVIOUS
  <1>2. PICK F, B : F = {t \in Thread : Exists(t)'} /\ B = {t \in Thread : Active(t)'}
    OBVIOUS
  <1>3. E \in SUBSET Thread /\ A \in SUBSET Thread /\ existingThreads = Cardinality(E) /\ activeThreads = Cardinality(A)
    BY <1>0, <1>1
  <1>4. existingThreads' = Cardinality(F) /\ activeThreads' = Cardinality(B)
    <2>1. CASE Stays
      <3>1. F = E /\ B = A
        BY <1>1, <1>2, <2>1 DEF Stays
      <3> QED BY <1>3, <2>1, <3>1 DEF Stays
    <2>2. ASSUME NEW t \in Thread, NEW u \in Thread, SetupThread(t, u)
          PROVE  existingThreads' = Cardinality(F) /\ activeThreads' = Cardinality(B)
      <3>1. F = E \cup {u} /\ B = A \cup {u} /\ u \notin E /\ u \notin A
        BY <1>1, <1>2, <2>2, SetupAdds
      <3>2. existingThreads' = existingThreads + 1 /\ activeThreads' = activeThreads + 1
        BY <2>2, SetupAdds
      <3> QED BY <1>3, <3>1, <3>2, Counts
    <2>3. ASSUME NEW t \in Thread, ExitThread(t)
          PROVE  existingThreads' = Cardinality(F) /\ activeThreads' = Cardinality(B)
      <3>1. F = E /\ B = A \ {t} /\ t \in A
        BY <1>1, <1>2, <2>3, ExitRemoves
      <3>2. existingThreads' = existingThreads /\ activeThreads' = activeThreads - 1
        BY <2>3, ExitRemoves
      <3> QED BY <1>3, <3>1, <3>2, Counts
    <2>4. ASSUME NEW t \in Thread, Destroy(t), state[t] = "Finishing"
          PROVE  existingThreads' = Cardinality(F) /\ activeThreads' = Cardinality(B)
      <3>1. F = E \ {t} /\ B = A /\ t \in E
        BY <1>1, <1>2, <2>4, DestroyRemoves
      <3>2. existingThreads' = existingThreads - 1 /\ activeThreads' = activeThreads
        BY <2>4, DestroyRemoves
      <3> QED BY <1>3, <3>1, <3>2, Counts
    <2> QED BY <2>1, <2>2, <2>3, <2>4, TableMoves
  <1> QED BY <1>2, <1>4 DEF CountsTrue, Exists, Active

(* The table holds threads there are; only one thread creates a thread;    *)
(* when the process is deleted there is no thread left.                    *)
LEMMA TableStep ==
  ASSUME Inv, ProcInv, [ProcNext]_allVars
  PROVE  TableInv'
  <1>0. /\ ProcTypeOK /\ TableInv /\ CountsTrue /\ threadStore \in SUBSET Thread
        /\ \A t \in Thread : PlaceAt(t)
    BY DEF ProcInv, ProcTypeOK
  <1>1. \A t \in threadStore' : Exists(t)'
    <2>0. \A t \in threadStore : Exists(t)
      BY <1>0 DEF TableInv, Exists
    <2>1. CASE Stays
      BY <1>0, <2>0, <2>1 DEF Stays
    <2>2. ASSUME NEW t \in Thread, NEW u \in Thread, SetupThread(t, u)
          PROVE  \A w \in threadStore' : Exists(w)'
      BY <1>0, <2>0, <2>2, SetupAdds
    <2>3. ASSUME NEW t \in Thread, ExitThread(t) PROVE \A w \in threadStore' : Exists(w)'
      BY <1>0, <2>0, <2>3, ExitRemoves
    <2>4. ASSUME NEW t \in Thread, Destroy(t), state[t] = "Finishing"
          PROVE  \A w \in threadStore' : Exists(w)'
      BY <1>0, <2>0, <2>4, DestroyRemoves
    <2> QED BY <2>1, <2>2, <2>3, <2>4, TableMoves
  <1>2. /\ \A t \in Thread : call'[t] = "created" => call'[target'[t]] = "fresh"
        /\ \A t, u \in Thread : call'[t] = "created" /\ call'[u] = "created" /\ target'[t] = target'[u] => t = u
    <2>0. /\ \A t \in Thread : call[t] = "created" => call[target[t]] = "fresh" /\ target[t] \in Thread
          /\ \A t, u \in Thread : call[t] = "created" /\ call[u] = "created" /\ target[t] = target[u] => t = u
      BY <1>0 DEF TableInv, PlaceAt
    <2>1. CASE UNCHANGED <<call, target>>
      BY <2>0, <2>1
    <2>2. ASSUME NEW t \in Thread, Own(t), Others(t), ~ UNCHANGED <<call, target>>
          PROVE  \A u \in Thread : \/ call'[u] = call[u] /\ target'[u] = target[u]
                                   \/ call'[u] # "created" /\ call[u] # "fresh"
      BY <2>2 DEF Own, Begins, Ends, Returns, Stops, Cancels, Waits, Signals, Others
    <2>3. ASSUME \A u \in Thread : \/ call'[u] = call[u] /\ target'[u] = target[u]
                                   \/ call'[u] # "created" /\ call[u] # "fresh"
          PROVE  /\ \A t \in Thread : call'[t] = "created" => call'[target'[t]] = "fresh"
                 /\ \A t, u \in Thread : call'[t] = "created" /\ call'[u] = "created" /\ target'[t] = target'[u] => t = u
      BY <2>0, <2>3
    <2>4. ASSUME NEW t \in Thread, Creates(t)
          PROVE  /\ \A w \in Thread : call'[w] = "created" => call'[target'[w]] = "fresh"
                 /\ \A v, w \in Thread : call'[v] = "created" /\ call'[w] = "created" /\ target'[v] = target'[w] => v = w
      <3>1. PICK u \in Thread :
              /\ u # t /\ call' = [call EXCEPT ![t] = call'[t], ![u] = call'[u]]
              /\ \/ /\ call[t] = "none" /\ call[u] = "unborn" /\ call'[t] = "created" /\ call'[u] = "fresh"
                    /\ target' = [target EXCEPT ![t] = u]
                 \/ /\ call[t] = "created" /\ call[u] = "fresh" /\ call'[t] = "none" /\ call'[u] = "none"
                    /\ u = target[t] /\ target' = target
        BY <2>4 DEF Creates
      <3>2. \A w \in Thread : w # t /\ w # u => call'[w] = call[w]
        BY <1>0, <3>1 DEF ProcTypeOK
      <3>3. CASE call[t] = "none"
        <4>1. target'[t] = u /\ \A w \in Thread : w # t => target'[w] = target[w]
          BY <1>0, <3>1, <3>3 DEF ProcTypeOK
        <4> QED BY <2>0, <3>1, <3>2, <3>3, <4>1
      <3>4. CASE call[t] = "created"
        BY <2>0, <3>1, <3>2, <3>4
      <3> QED BY <3>1, <3>3, <3>4
    <2>5. ASSUME NEW t \in Thread, CoreStep(t) PROVE UNCHANGED <<call, target>>
      BY <2>5 DEF CoreStep, pvars, callVars
    <2>6. CASE UNCHANGED allVars
      BY <2>1, <2>6 DEF allVars, pvars, callVars
    <2> QED BY <2>1, <2>2, <2>3, <2>4, <2>5, <2>6, Moves
  <1>3. deleted' => \A t \in Thread : ~ Exists(t)'
    <2>0. deleted => \A t \in Thread : ~ Exists(t)
      BY <1>0 DEF TableInv, Exists
    <2>1. CASE Stays
      BY <2>0, <2>1 DEF Stays
    <2>2. ASSUME NEW t \in Thread, NEW u \in Thread, SetupThread(t, u) PROVE ~ deleted'
      <3>1. Exists(t) /\ (deleted' <=> deleted)
        BY <2>2 DEF SetupThread, Exists
      <3> QED BY <2>0, <3>1
    <2>3. ASSUME NEW t \in Thread, ExitThread(t) PROVE ~ deleted'
      <3>1. Exists(t) /\ (deleted' <=> deleted)
        BY <2>3 DEF ExitThread, Acquire, Exists
      <3> QED BY <2>0, <3>1
    <2>4. ASSUME NEW t \in Thread, Destroy(t), state[t] = "Finishing", deleted'
          PROVE  \A w \in Thread : ~ Exists(w)'
      <3>1. /\ existingThreads = 1 /\ Exists(t)
            /\ \A w \in Thread : Exists(w)' <=> Exists(w) /\ w # t
        BY <2>4, DestroyRemoves
      <3>2. PICK E : E = {w \in Thread : Exists(w)}
        OBVIOUS
      <3>3. E \in SUBSET Thread /\ t \in E /\ Cardinality(E) = 1
        BY <1>0, <3>1, <3>2, CountsTrueIs
      <3>4. Cardinality(E \ {t}) = 0
        BY <3>3, Counts
      <3>5. E \ {t} = {}
        <4>1. E \ {t} \in SUBSET Thread
          BY <3>3
        <4> QED BY <3>4, <4>1, Counts
      <3> QED BY <3>1, <3>2, <3>5
    <2> QED BY <2>1, <2>2, <2>3, <2>4, TableMoves
  <1> QED BY <1>1, <1>2, <1>3 DEF TableInv, Exists

-----------------------------------------------------------------------------
(* The invariants of the core and of the process are kept together.        *)
LEMMA InvStep ==
  ASSUME Inv, LinkedInv, ProcInv, [ProcNext]_allVars
  PROVE  Inv' /\ LinkedInv' /\ ProcInv'
  <1>1. [Next]_vars
    BY StepOfCore
  <1>2. TypeOK' /\ LocksInv' /\ ListsInv' /\ ClaimsInv' /\ ProgressInv'
    BY <1>1, TypeStep, LocksStep, ListsStep, ClaimsStep, ProgressStep
  <1>3. LinkedInv'
    BY <1>1, LinkedStep
  <1>4. ProcTypeOK' /\ LockInv' /\ WaitersInv' /\ JoinInv' /\ TableInv' /\ CountsTrue'
    BY ProcTypeStep, LockStep, WaitersStep, JoinStep, TableStep, CountsStep
  <1>5. \A t \in Thread : PlaceAt(t)'
    BY PlaceStep
  <1> QED BY <1>2, <1>3, <1>4, <1>5 DEF Inv, ProcInv

(* The invariant holds in every reachable state.                           *)
THEOREM ProcInvariance == ProcSpec => [](Inv /\ LinkedInv /\ ProcInv)
  <1>1. ProcInit => Inv /\ LinkedInv /\ ProcInv
    BY InitInv, LinkedInit, ProcInvInit DEF ProcInit
  <1> QED BY <1>1, InvStep, PTL DEF ProcSpec

(* A process runs on the blocking core as the core is specified: its join  *)
(* condition, which releases threadLock for a waiter it finds and by       *)
(* itself otherwise (BasicCondition::signal), included.                    *)
THEOREM ProcRunsOnCore == ProcSpec => Spec
  <1>1. ProcInit => Init
    BY DEF ProcInit
  <1>2. ProcInv /\ [ProcNext]_allVars => [Next]_vars
    BY StepOfCore
  <1> QED BY <1>1, <1>2, ProcInvariance, PTL DEF ProcSpec, Spec

(* A join gets the result of the thread it names, and the stack frame the  *)
(* result travels through is that of a thread that waits and cannot be     *)
(* claimed by anyone else (JoinableThread.h post, join).                   *)
THEOREM JoinsSound == ProcSpec => []JoinSound
  <1> USE JoinQueues
  <1>1. ASSUME Inv, ProcInv PROVE ResultAlive
    <2>0. /\ TypeOK /\ ListsInv /\ ResumedOnce /\ \A t \in Thread : PlaceAt(t)
      BY <1>1 DEF Inv, ProgressInv, ProcInv
    <2>1. ASSUME NEW u \in Thread, NEW w \in ToSet(Waiters(u)) PROVE resultPtr[u] = w /\ Waiting(w)
      <3>1. w \in Thread
        BY <2>0 DEF TypeOK, Waiters, ToSet
      <3>2. resultPtr[u] = w
        BY <1>1, <3>1 DEF ProcInv, WaitersInv
      <3>3. pc[w] \in {"switch", "off"}
        BY <2>0, <3>1 DEF ListsInv, Waiters
      <3>4. ready[w] = 0
        BY <2>0, <3>1 DEF ResumedOnce, Waiters
      <3> QED BY <3>2, <3>3, <3>4 DEF Waiting
    <2>2. ASSUME NEW u \in Thread PROVE Len(Waiters(u)) <= 1
      <3>1. Waiters(u) \in Seq(Thread) /\ IsInjective(Waiters(u))
        BY <2>0 DEF TypeOK, ListsInv, Waiters
      <3>2. PICK s : s = Waiters(u)
        OBVIOUS
      <3>3. s \in Seq(Thread) /\ Len(s) \in Nat /\ DOMAIN s = 1 .. Len(s)
        BY <3>1, <3>2
      <3>4. \A i \in 1 .. Len(s) : s[i] = resultPtr[u]
        BY <2>1, <3>2, <3>3 DEF ToSet
      <3>5. ASSUME Len(s) > 1 PROVE FALSE
        <4>1. 1 \in 1 .. Len(s) /\ 2 \in 1 .. Len(s)
          BY <3>3, <3>5
        <4>2. s[1] = s[2]
          BY <3>4, <4>1
        <4> QED BY <3>1, <3>2, <3>3, <4>1, <4>2 DEF IsInjective
      <3> QED BY <3>2, <3>3, <3>5
    <2>3. \A t \in Thread : call[t] \in {"signal", "posted"} /\ pc[t] = "run" => result[t]
      BY <2>0 DEF PlaceAt
    <2> QED BY <2>1, <2>2, <2>3 DEF ResultAlive
  <1>2. ASSUME Inv, ProcInv PROVE JoinCorrect
    <2>0. TypeOK /\ JoinInv
      BY <1>2 DEF Inv, ProcInv
    <2>1. \A t \in Thread : pc[t] \in {"on", "run"} => ~ unblockInfo[t]
      BY <1>2 DEF Inv, ClaimsInv, Waiting
    <2>2. \A t \in Thread : state[t] = "Running" /\ call[t] = "joining" /\ pc[t] \in {"on", "run"} =>
            got[t] = target[t]
      BY <2>0, <2>1 DEF JoinInv
    <2>3. \A t \in Thread : call[t] = "signal" => got[t] = target[t]
      BY <2>0 DEF JoinInv
    <2>4. \A t \in Thread : call[t] = "joining" =>
            \A u \in Thread \ {t} : call[u] \in {"joining", "signal"} => target[u] # target[t]
      BY <2>0 DEF JoinInv, Joiner
    <2> QED BY <2>2, <2>3, <2>4 DEF JoinCorrect
  <1>3. Inv /\ ProcInv => JoinSound
    BY <1>1, <1>2 DEF JoinSound
  <1> QED BY <1>3, ProcInvariance, PTL

(* The process is deleted with its last thread: then its table is empty,   *)
(* nobody holds its lock and nobody will, and until then its two counts    *)
(* are those of its threads (Process.cc exitThread, destroyThread).        *)
THEOREM ProcessGoes == ProcSpec => []ProcessGone
  <1> USE JoinQueues
  <1>1. ASSUME Inv, ProcInv PROVE ProcessGone
    <2>0. /\ TypeOK /\ LockInv /\ TableInv /\ CountsTrue /\ threadStore \in SUBSET Thread
          /\ \A t \in Thread : PlaceAt(t)
      BY <1>1 DEF Inv, ProcInv, ProcTypeOK
    <2>1. ASSUME deleted
          PROVE  /\ threadStore = {} /\ existingThreads = 0 /\ lock[ThreadLock] = Nobody
                 /\ \A t \in Thread : pc[t] = "gone" \/ call[t] = "unborn"
      <3>1. \A t \in Thread : pc[t] = "gone" \/ call[t] = "unborn"
        BY <2>0, <2>1 DEF TableInv
      <3>2. threadStore = {}
        BY <2>0, <3>1 DEF TableInv
      <3>3. existingThreads = 0
        <4>1. {t \in Thread : call[t] # "unborn" /\ pc[t] # "gone"} = {}
          BY <3>1
        <4>2. Cardinality({}) = 0
          BY FS_EmptySet
        <4> QED BY <2>0, <4>1, <4>2 DEF CountsTrue
      <3>4. \A t \in Thread : ~ Busy(t)
        BY <2>0, <3>1 DEF Busy, PlaceAt
      <3>5. lock[ThreadLock] \in Thread \cup {Clock, Nobody}
        BY <2>0 DEF TypeOK, Actor
      <3>6. lock[ThreadLock] = Nobody
        BY <2>0, <3>4, <3>5 DEF LockInv
      <3> QED BY <3>1, <3>2, <3>3, <3>6
    <2> QED BY <2>0, <2>1 DEF ProcessGone, DeletedLast
  <1> QED BY <1>1, ProcInvariance, PTL
=============================================================================
